------------------------- MODULE AutopilotRefinement -------------------------
(***************************************************************************)
(* The command server keeps the promise of ActionServer, and what a client *)
(* is told agrees with how its goal ended; a control session starts fresh, *)
(* and no circular wait comes of the mode mutex and the join: proofs for   *)
(* any commands, events and bounds.                                        *)
(*                                                                         *)
(* What the execute thread has left to do ends in the one "finish" that    *)
(* resolves its goal if nothing has before, and holds at most one          *)
(* operation that may end the goal earlier; while it does, the goal is     *)
(* active.                                                                 *)
(*                                                                         *)
(* What a thread that holds the mode mutex has left to do gives it up once *)
(* before it may take it again, and outside of that stretch every "lock"   *)
(* has its "ensure" next to it.                                            *)
(***************************************************************************)
EXTENDS AutopilotProofs

Answers(s) == {i \in 1..Len(s) : s[i].op \in Answering}
Cancels(s) == {i \in 1..Len(s) : s[i].op = "resolveCanceled"}

\* A list of the execute thread: only its last operation is "finish", one at most
\* answers, and a cancellation is held up by nothing but holdCurrentPosition.
WellFormed(s) ==
    /\ \A i \in 1..Len(s) : s[i].op = "finish" <=> i = Len(s)
    /\ \A i, j \in Answers(s) : i = j
    /\ \A i \in Cancels(s) : \A j \in 1..i - 1 : s[j].op \in {"read", "hold"}

(***************************************************************************)
(* Lists.                                                                  *)
(***************************************************************************)
\* The elements of a list whose head is replaced by r.
LEMMA Spliced ==
    ASSUME NEW s \in Seq(Op), s # <<>>, NEW r \in Seq(Op), NEW n, n = r \o Tail(s)
    PROVE  /\ n \in Seq(Op)
           /\ Len(s) \in Nat \ {0} /\ Len(r) \in Nat
           /\ Len(n) = Len(r) + Len(s) - 1
           /\ \A i \in 1..Len(r) : n[i] = r[i]
           /\ \A i \in Len(r) + 1..Len(n) : n[i] = s[i - Len(r) + 1]
           /\ Head(s) = s[1]
<1>1. Tail(s) \in Seq(Op) /\ Len(Tail(s)) = Len(s) - 1 /\ Head(s) = s[1]
  BY HeadTailProperties
<1>2. \A i \in 1..Len(s) - 1 : Tail(s)[i] = s[i + 1]
  BY HeadTailProperties
<1>3. Len(s) \in Nat \ {0} /\ Len(r) \in Nat
  BY LenProperties, EmptySeq
<1>4. /\ n \in Seq(Op) /\ Len(n) = Len(r) + Len(Tail(s))
      /\ \A i \in 1..Len(r) + Len(Tail(s)) :
            n[i] = IF i <= Len(r) THEN r[i] ELSE Tail(s)[i - Len(r)]
  BY <1>1, ConcatProperties
<1>5. ASSUME NEW i \in Len(r) + 1..Len(n) PROVE n[i] = s[i - Len(r) + 1]
  <2>1. i - Len(r) \in 1..Len(s) - 1 /\ ~(i <= Len(r)) /\ i \in 1..Len(r) + Len(Tail(s))
    BY <1>1, <1>3, <1>4
  <2>2. n[i] = Tail(s)[i - Len(r)]
    BY <1>4, <2>1
  <2> QED BY <1>2, <2>1, <2>2
<1> QED BY <1>1, <1>3, <1>4, <1>5

LEMMA RoutineElement ==
    ASSUME NEW r \in Seq(RoutineOp)
    PROVE  \A i \in 1..Len(r) : r[i].op \notin Answering /\ r[i].op # "finish"
<1>1. \A i \in 1..Len(r) : r[i] \in RoutineOp
  BY ElementOfSeq
<1> QED BY <1>1 DEF RoutineOp

\* An operation that does not end the goal is replaced by others like it.
LEMMA RoutineStep ==
    ASSUME NEW s \in Seq(Op), s # <<>>, WellFormed(s),
           NEW r \in Seq(RoutineOp), NEW n, n = r \o Tail(s),
           Head(s).op \notin Answering \cup {"finish"},
           r = <<>> \/ Head(s).op \notin {"read", "hold"}
    PROVE  /\ WellFormed(n) /\ n # <<>>
           /\ Answers(n) # {} => Answers(s) # {}
           /\ Cancels(n) # {} => Cancels(s) # {} /\ Head(s).op \in {"read", "hold"}
<1>r. r \in Seq(Op)
  BY RoutineIsOp
<1>1. /\ n \in Seq(Op)
      /\ Len(s) \in Nat \ {0} /\ Len(r) \in Nat
      /\ Len(n) = Len(r) + Len(s) - 1
      /\ \A i \in 1..Len(r) : n[i] = r[i]
      /\ \A i \in Len(r) + 1..Len(n) : n[i] = s[i - Len(r) + 1]
      /\ Head(s) = s[1]
  BY <1>r, Spliced
<1>2. \A i \in 1..Len(r) : n[i].op \notin Answering /\ n[i].op # "finish"
  BY <1>1, RoutineElement
<1>3. Len(s) > 1
  BY <1>1 DEF WellFormed
<1>4. n # <<>> /\ Len(n) \in Nat \ {0} /\ Len(n) > Len(r)
  BY <1>1, <1>3, EmptySeq
<1>5. ASSUME NEW i \in 1..Len(n), i > Len(r)
      PROVE  i - Len(r) + 1 \in 1..Len(s) /\ i - Len(r) + 1 > 1 /\ n[i] = s[i - Len(r) + 1]
  <2>1. i \in Len(r) + 1..Len(n)
    BY <1>1, <1>4, <1>5
  <2>2. n[i] = s[i - Len(r) + 1]
    BY <1>1, <2>1
  <2> QED BY <1>1, <2>1, <2>2
<1>6. \A i \in 1..Len(n) : n[i].op = "finish" <=> i = Len(n)
  <2> TAKE i \in 1..Len(n)
  <2>1. CASE i <= Len(r)
    BY <2>1, <1>1, <1>2, <1>4
  <2>2. CASE i > Len(r)
    <3>1. n[i].op = "finish" <=> i - Len(r) + 1 = Len(s)
      BY <2>2, <1>5 DEF WellFormed
    <3> QED BY <2>2, <3>1, <1>1
  <2> QED BY <2>1, <2>2, <1>1
<1>7. \A i \in Answers(n) : i > Len(r) /\ i - Len(r) + 1 \in Answers(s)
  <2> TAKE i \in Answers(n)
  <2>1. i \in 1..Len(n) /\ n[i].op \in Answering
    BY DEF Answers
  <2>2. i > Len(r)
    BY <2>1, <1>1, <1>2
  <2> QED BY <2>1, <2>2, <1>5 DEF Answers
<1>8. \A i, j \in Answers(n) : i = j
  <2> TAKE i, j \in Answers(n)
  <2>1. i \in 1..Len(n) /\ j \in 1..Len(n)
    BY DEF Answers
  <2>2. i - Len(r) + 1 = j - Len(r) + 1
    BY <1>7 DEF WellFormed
  <2> QED BY <2>1, <2>2, <1>1
<1>9. ASSUME NEW i \in Cancels(n)
      PROVE  /\ i - Len(r) + 1 \in Cancels(s) /\ Head(s).op \in {"read", "hold"}
             /\ i \in 1..Len(n) /\ i > Len(r)
  <2>1. i \in Answers(n) /\ i \in 1..Len(n) /\ n[i].op = "resolveCanceled"
    BY DEF Answers, Cancels, Answering
  <2>2. i > Len(r) /\ i - Len(r) + 1 \in 1..Len(s) /\ i - Len(r) + 1 > 1
        /\ n[i] = s[i - Len(r) + 1]
    BY <2>1, <1>5, <1>7
  <2>3. i - Len(r) + 1 \in Cancels(s)
    BY <2>1, <2>2 DEF Cancels
  <2>4. 1 \in 1..(i - Len(r) + 1) - 1
    BY <2>1, <2>2, <1>1
  <2>5. s[1].op \in {"read", "hold"}
    BY <2>3, <2>4 DEF WellFormed
  <2> QED BY <2>1, <2>2, <2>3, <2>5, <1>1
<1>10. \A i \in Cancels(n) : \A j \in 1..i - 1 : n[j].op \in {"read", "hold"}
  <2> SUFFICES ASSUME NEW i \in Cancels(n), NEW j \in 1..i - 1
               PROVE  n[j].op \in {"read", "hold"}
    OBVIOUS
  <2>1. i - Len(r) + 1 \in Cancels(s) /\ Head(s).op \in {"read", "hold"} /\ i \in 1..Len(n)
    BY <1>9
  <2>2. r = <<>> /\ Len(r) = 0
    BY <2>1, EmptySeq
  <2>3. j \in 1..Len(n) /\ j > Len(r) /\ n[j] = s[j + 1]
    BY <2>1, <2>2, <1>1, <1>5
  <2>4. j + 1 \in 1..(i - Len(r) + 1) - 1
    BY <2>1, <2>2, <2>3
  <2> QED BY <2>1, <2>3, <2>4 DEF WellFormed
<1> QED BY <1>4, <1>6, <1>7, <1>8, <1>9, <1>10 DEF WellFormed

\* What may be put in front of a "finish", or in place of an answer.
Partial(r) ==
    /\ \A i \in 1..Len(r) : r[i].op # "finish"
    /\ \A i, j \in Answers(r) : i = j
    /\ \A i \in Cancels(r) : \A j \in 1..i - 1 : r[j].op \in {"read", "hold"}

LEMMA RoutinePartial ==
    ASSUME NEW r \in Seq(RoutineOp)
    PROVE  Partial(r) /\ r \in Seq(Op) /\ Answers(r) = {} /\ Cancels(r) = {}
BY RoutineElement, RoutineIsOp DEF Partial, Answers, Cancels, Answering

LEMMA DoElement ==
    ASSUME NEW o \in PlainOp
    PROVE  Do(o) \in Seq(Op) /\ Len(Do(o)) = 1 /\ Do(o)[1].op = o
BY DoType DEF Do

\* A list and one operation more.
ExtendedBy(q, o, n) ==
    /\ n \in Seq(Op) /\ Len(q) \in Nat
    /\ Len(n) = Len(q) + 1
    /\ \A i \in 1..Len(q) : n[i] = q[i]
    /\ n[Len(q) + 1].op = o

LEMMA Extended ==
    ASSUME NEW q \in Seq(Op), NEW o \in PlainOp
    PROVE  ExtendedBy(q, o, q \o Do(o))
<1> DEFINE n == q \o Do(o)
<1>1. Do(o) \in Seq(Op) /\ Len(Do(o)) = 1 /\ Do(o)[1].op = o
  BY DoElement
<1>2. Len(q) \in Nat
  BY LenProperties
<1>3. /\ n \in Seq(Op) /\ Len(n) = Len(q) + Len(Do(o))
      /\ \A i \in 1..Len(q) + Len(Do(o)) :
            n[i] = IF i <= Len(q) THEN q[i] ELSE Do(o)[i - Len(q)]
  BY <1>1, ConcatProperties
<1>4. Len(q) + 1 \in 1..Len(q) + Len(Do(o)) /\ ~(Len(q) + 1 <= Len(q)) /\ Len(q) + 1 - Len(q) = 1
  BY <1>1, <1>2
<1> HIDE DEF n
<1>5. n[Len(q) + 1] = Do(o)[1]
  BY <1>3, <1>4
<1>6. ExtendedBy(q, o, n)
  BY <1>1, <1>2, <1>3, <1>5 DEF ExtendedBy
<1> QED BY <1>6 DEF n

LEMMA RoutineThenAnswer ==
    ASSUME NEW q \in Seq(RoutineOp), NEW a \in Answering,
           a = "resolveCanceled" => \A i \in 1..Len(q) : q[i].op \in {"read", "hold"}
    PROVE  /\ Partial(q \o Do(a)) /\ q \o Do(a) \in Seq(Op)
           /\ Cancels(q \o Do(a)) # {} => a = "resolveCanceled"
<1> DEFINE n == q \o Do(a)
<1>0. a \in PlainOp /\ q \in Seq(Op)
  BY RoutineIsOp DEF Answering, PlainOp
<1>1. /\ n \in Seq(Op) /\ Len(q) \in Nat
      /\ Len(n) = Len(q) + 1
      /\ \A i \in 1..Len(q) : n[i] = q[i]
      /\ n[Len(q) + 1].op = a
  <2>1. ExtendedBy(q, a, n)
    BY <1>0, Extended
  <2> QED BY <2>1 DEF ExtendedBy
<1> HIDE DEF n
<1>2. \A i \in 1..Len(q) : n[i].op \notin Answering /\ n[i].op # "finish"
  BY <1>1, RoutineElement
<1>3. \A i \in 1..Len(n) : i \in 1..Len(q) \/ i = Len(q) + 1
  BY <1>1
<1>4. \A i \in 1..Len(n) : n[i].op # "finish"
  BY <1>1, <1>2, <1>3 DEF Answering
<1>5. \A i \in Answers(n) : i = Len(q) + 1
  BY <1>2, <1>3 DEF Answers
<1>6. \A i \in Cancels(n) : i = Len(q) + 1 /\ a = "resolveCanceled"
  BY <1>1, <1>2, <1>3 DEF Cancels, Answering
<1>7. \A i \in Cancels(n) : \A j \in 1..i - 1 : n[j].op \in {"read", "hold"}
  BY <1>1, <1>6
<1>8. Partial(n)
  BY <1>4, <1>5, <1>7 DEF Partial
<1> QED BY <1>1, <1>6, <1>8 DEF n

LEMMA PartialThenRoutine ==
    ASSUME NEW q \in Seq(Op), Partial(q), Cancels(q) = {},
           NEW o \in PlainOp \ (Answering \cup {"finish"})
    PROVE  Partial(q \o Do(o)) /\ q \o Do(o) \in Seq(Op) /\ Cancels(q \o Do(o)) = {}
<1> DEFINE n == q \o Do(o)
<1>1. /\ n \in Seq(Op) /\ Len(q) \in Nat
      /\ Len(n) = Len(q) + 1
      /\ \A i \in 1..Len(q) : n[i] = q[i]
      /\ n[Len(q) + 1].op = o
  BY Extended DEF ExtendedBy
<1> HIDE DEF n
<1>2. \A i \in 1..Len(n) : i \in 1..Len(q) \/ i = Len(q) + 1
  BY <1>1
<1>3. Answers(n) \subseteq Answers(q)
  BY <1>1, <1>2 DEF Answers
<1>4. Cancels(n) = {}
  BY <1>1, <1>2 DEF Cancels, Answering
<1>5. \A i \in 1..Len(n) : n[i].op # "finish"
  BY <1>1, <1>2 DEF Partial
<1> QED BY <1>1, <1>3, <1>4, <1>5 DEF Partial, n

LEMMA PartialThenFinish ==
    ASSUME NEW q \in Seq(Op), Partial(q), Cancels(q) = {}
    PROVE  /\ WellFormed(q \o Do("finish")) /\ q \o Do("finish") # <<>>
           /\ Cancels(q \o Do("finish")) = {}
<1> DEFINE n == q \o Do("finish")
<1>0. "finish" \in PlainOp
  BY DEF PlainOp
<1>1. /\ n \in Seq(Op) /\ Len(q) \in Nat
      /\ Len(n) = Len(q) + 1
      /\ \A i \in 1..Len(q) : n[i] = q[i]
      /\ n[Len(q) + 1].op = "finish"
  BY <1>0, Extended DEF ExtendedBy
<1> HIDE DEF n
<1>2. \A i \in 1..Len(n) : i \in 1..Len(q) \/ i = Len(q) + 1
  BY <1>1
<1>3. Answers(n) \subseteq Answers(q)
  BY <1>1, <1>2 DEF Answers, Answering
<1>4. Cancels(n) = {}
  BY <1>1, <1>2 DEF Cancels
<1>5. \A i \in 1..Len(n) : n[i].op = "finish" <=> i = Len(n)
  BY <1>1, <1>2 DEF Partial
<1>6. n # <<>>
  BY <1>1, EmptySeq
<1> QED BY <1>3, <1>4, <1>5, <1>6 DEF Partial, WellFormed, n

\* An answering operation makes way for other operations.
LEMMA AnswerStep ==
    ASSUME NEW s \in Seq(Op), s # <<>>, WellFormed(s), Head(s).op \in Answering,
           NEW r \in Seq(Op), Partial(r), NEW n, n = r \o Tail(s)
    PROVE  WellFormed(n) /\ n # <<>> /\ Answers(n) \subseteq Answers(r)
           /\ Cancels(n) \subseteq Cancels(r)
<1>1. /\ n \in Seq(Op)
      /\ Len(s) \in Nat \ {0} /\ Len(r) \in Nat
      /\ Len(n) = Len(r) + Len(s) - 1
      /\ \A i \in 1..Len(r) : n[i] = r[i]
      /\ \A i \in Len(r) + 1..Len(n) : n[i] = s[i - Len(r) + 1]
      /\ Head(s) = s[1]
  BY Spliced
<1>2. 1 \in Answers(s)
  BY <1>1 DEF Answers
<1>3. Len(s) > 1
  BY <1>1 DEF WellFormed, Answering
<1>4. n # <<>> /\ Len(n) \in Nat \ {0} /\ Len(n) > Len(r)
  BY <1>1, <1>3, EmptySeq
<1>5. ASSUME NEW i \in 1..Len(n), i > Len(r)
      PROVE  /\ i - Len(r) + 1 \in 1..Len(s) /\ i - Len(r) + 1 # 1
             /\ n[i] = s[i - Len(r) + 1]
  <2>1. i \in Len(r) + 1..Len(n)
    BY <1>1, <1>4, <1>5
  <2>2. n[i] = s[i - Len(r) + 1]
    BY <1>1, <2>1
  <2> QED BY <1>1, <2>1, <2>2
<1>6. \A i \in 1..Len(n) : n[i].op = "finish" <=> i = Len(n)
  <2> TAKE i \in 1..Len(n)
  <2>1. CASE i <= Len(r)
    BY <2>1, <1>1, <1>4 DEF Partial
  <2>2. CASE i > Len(r)
    <3>1. n[i].op = "finish" <=> i - Len(r) + 1 = Len(s)
      BY <2>2, <1>5 DEF WellFormed
    <3> QED BY <2>2, <3>1, <1>1
  <2> QED BY <2>1, <2>2, <1>1
<1>7. \A i \in Answers(n) : i \in 1..Len(r) /\ n[i] = r[i]
  <2> TAKE i \in Answers(n)
  <2>1. i \in 1..Len(n) /\ n[i].op \in Answering
    BY DEF Answers
  <2>2. CASE i > Len(r)
    <3>1. i - Len(r) + 1 \in Answers(s) /\ i - Len(r) + 1 # 1
      BY <2>1, <2>2, <1>5 DEF Answers
    <3> QED BY <3>1, <1>2 DEF WellFormed
  <2> QED BY <2>1, <2>2, <1>1
<1>8. Answers(n) \subseteq Answers(r)
  BY <1>7 DEF Answers
<1>9. Cancels(n) \subseteq Answers(n)
  BY DEF Cancels, Answers, Answering
<1>10. Cancels(n) \subseteq Cancels(r)
  BY <1>7, <1>9 DEF Cancels
<1>11. \A i \in Cancels(n) : \A j \in 1..i - 1 : n[j].op \in {"read", "hold"}
  <2> SUFFICES ASSUME NEW i \in Cancels(n), NEW j \in 1..i - 1
               PROVE  n[j].op \in {"read", "hold"}
    OBVIOUS
  <2>1. i \in Cancels(r) /\ i \in 1..Len(r)
    BY <1>10 DEF Cancels
  <2>2. j \in 1..Len(r)
    BY <2>1, <1>1
  <2> QED BY <2>1, <2>2, <1>1 DEF Partial
<1> QED BY <1>4, <1>6, <1>8, <1>10, <1>11 DEF WellFormed, Partial

LEMMA FinishIsLast ==
    ASSUME NEW s \in Seq(Op), s # <<>>, WellFormed(s), Head(s).op = "finish"
    PROVE  Tail(s) = <<>>
<1>1. Head(s) = s[1] /\ Len(s) \in Nat \ {0}
  BY HeadTailProperties, LenProperties, EmptySeq
<1>2. 1 \in 1..Len(s) /\ s[1].op = "finish"
  BY <1>1
<1>3. Len(s) = 1
  BY <1>2 DEF WellFormed
<1>4. Tail(s) \in Seq(Op) /\ Len(Tail(s)) = 0
  BY <1>3, HeadTailProperties
<1> QED BY <1>4, EmptySeq

\* What execute runs for a command answers once at most, and finishes.
LEMMA ExecuteShape ==
    ASSUME NEW c \in AllCommands
    PROVE  WellFormed(Execute(c)) /\ Execute(c) # <<>> /\ Cancels(Execute(c)) = {}
<1>1. {"kill", "arm", "disarm", "thenLand", "idle"} \subseteq PlainOp \ (Answering \cup {"finish"})
  BY DEF PlainOp, Answering
<1>2. /\ {"EMERGENCY_STOP", "MANUAL", "MANUAL_AIDED"} \subseteq FlightMode
      /\ {"manual", "aided", "blind"} \subseteq DOMAIN ControlModeOf
  BY DEF FlightMode, ControlModeOf
<1>3. /\ \A m \in {"EMERGENCY_STOP", "MANUAL", "MANUAL_AIDED"} : SetUAVMode(m) \in Seq(RoutineOp)
      /\ \A k \in {"manual", "aided", "blind"} : EnsureControlLoopRunning(k) \in Seq(RoutineOp)
  BY <1>2, RoutineShapes
<1>4. \A o \in {"kill", "arm", "disarm", "thenLand", "idle"} : Do(o) \in Seq(RoutineOp)
  BY <1>1, RoutineDo
<1> SUFFICES Body(c) \in Seq(Op) /\ Partial(Body(c)) /\ Cancels(Body(c)) = {}
  BY PartialThenFinish DEF Execute
<1>5. /\ FlyTrajectory \o Do("poll") \in Seq(Op) /\ Partial(FlyTrajectory \o Do("poll"))
      /\ Cancels(FlyTrajectory \o Do("poll")) = {}
  BY RoutineShapes, RoutineThenAnswer DEF Answering
<1>6. CASE c \in {"takeoff", "goto", "spin", "rth"}
  BY <1>5, <1>6 DEF Body
<1>7. CASE c = "rtl"
  <2>1. Body(c) = (FlyTrajectory \o Do("poll")) \o Do("thenLand")
    BY <1>7 DEF Body
  <2> QED BY <1>1, <1>5, <2>1, PartialThenRoutine
<1>8. CASE c = "arm"
  <2>1. Body(c) = Do("arm") \o Do("awaitArm")
    BY <1>8 DEF Body
  <2> QED BY <1>4, <2>1, RoutineThenAnswer DEF Answering
<1>9. CASE c \notin {"takeoff", "goto", "spin", "rth", "rtl", "arm"}
  <2>1. Body(c) \in Seq(RoutineOp)
    BY <1>3, <1>4, <1>9, RoutineShapes, RoutineCat DEF Body
  <2> QED BY <2>1, RoutinePartial
<1> QED BY <1>6, <1>7, <1>8, <1>9

(***************************************************************************)
(* The invariant.                                                          *)
(***************************************************************************)
ToExecute == todo["exec"]

GoalsOK ==
    /\ ToExecute # <<>> => Running > 0
    /\ ToExecute = <<>> /\ Running > 0 => ~Active(Running)
    /\ Answers(ToExecute) # {} => Active(Running)
    /\ Cancels(ToExecute) # {} => goals[Running].status = "canceling"
    /\ joining => /\ goals[Len(goals)].status = "executing"
                  /\ goals[Len(goals)].outcome = "none"
    /\ ResultMatchesStatus

IInv == TypeOK /\ (ToExecute # <<>> => WellFormed(ToExecute)) /\ GoalsOK

\* A step that concerns neither the goals nor the execute thread.
Elsewhere == ToExecute' = ToExecute /\ goals' = goals /\ joining' = joining

LEMMA ElsewhereStep == IInv /\ TypeOK' /\ Elsewhere => IInv'
BY DEF IInv, Elsewhere, GoalsOK, ToExecute, Running, Active, ResultMatchesStatus

LEMMA RosContinue ==
    ASSUME TypeOK, NEW ops, Continue("ros", ops)
    PROVE  ToExecute' = ToExecute
BY DEF TypeOK, Continue, ToExecute, Threads

LEMMA RosShared ==
    ASSUME TypeOK, SharedStep("ros")
    PROVE  Elsewhere
<1> USE DEF Elsewhere, server
<1>1. ASSUME NEW c \in {"arm", "disarm", "kill"}, SendCommand("ros", c) PROVE Elsewhere
  BY <1>1, RosContinue DEF SendCommand, Advance
<1>2. ASSUME Read("ros") \/ WriteMode("ros") \/ Save("ros") \/ Restore("ros") \/ Lock("ros")
             \/ StartTimer("ros") \/ Unlock("ros") \/ ResetTimer("ros") \/ Descend("ros")
      PROVE  Elsewhere
  BY <1>2, RosContinue DEF Advance, Read, WriteMode, Save, Restore, Lock, StartTimer, Unlock,
     ResetTimer, Descend
<1>3. ASSUME Ensure("ros") \/ Cleanup("ros") \/ LandIfBegun("ros") PROVE Elsewhere
  BY <1>3, RosContinue DEF Advance, Ensure, Cleanup, LandIfBegun
<1> QED BY <1>1, <1>2, <1>3 DEF SharedStep

LEMMA RosElsewhere ==
    ASSUME TypeOK, RosStep, ~HandleAccepted
    PROVE  Elsewhere
<1> USE DEF Elsewhere, server
<1>1. CASE SharedStep("ros")
  BY <1>1, RosShared
<1>2. CASE Dispatch
  BY <1>2, RosContinue DEF Dispatch, Advance
<1>3. CASE Position
  BY <1>3, RosContinue DEF Position, NothingNew, TrajectoryCompletes, ReplanLanding, TouchDown,
     SettleEnds, PositionDone, Advance
<1>4. CASE Blind
  BY <1>4, RosContinue DEF Blind, Advance
<1>5. CASE Status
  BY <1>5, RosContinue DEF Status
<1>6. CASE Store
  BY <1>6, RosContinue DEF Store, Advance
<1>7. ASSUME NEW fault \in BOOLEAN, Safety(fault) PROVE Elsewhere
  BY <1>7, RosContinue DEF Safety
<1> QED BY <1>1, <1>2, <1>3, <1>4, <1>5, <1>6, <1>7 DEF RosStep

LEMMA CallsElsewhere ==
    ASSUME TypeOK,
           \/ ControlLoop \/ SafetyCheckCallback \/ VehicleStatusCallback
           \/ Px4Act \/ Px4Changes \/ PositionChanges \/ ClockTick
    PROVE  Elsewhere
<1>1. ASSUME NEW ops, Call(ops) PROVE ToExecute' = ToExecute
  BY <1>1 DEF Call, TypeOK, ToExecute, Threads
<1> QED BY <1>1 DEF Elsewhere, server, ToExecute, ControlLoop, SafetyCheckCallback,
     VehicleStatusCallback, Px4Act, Px4Changes, PositionChanges, ClockTick

(***************************************************************************)
(* The execute thread.                                                     *)
(***************************************************************************)
\* A step of the thread that leaves the goals alone and answers nothing.
Routinely(r) ==
    /\ ToExecute # <<>>
    /\ Head(ToExecute).op \notin Answering \cup {"finish"}
    /\ r = <<>> \/ Head(ToExecute).op \notin {"read", "hold"}
    /\ Continue("exec", r)
    /\ goals' = goals /\ joining' = joining

LEMMA ExecShared ==
    ASSUME TypeOK, SharedStep("exec")
    PROVE  \E r \in Seq(RoutineOp) : Routinely(r)
<1> USE DEF Routinely, At, ToExecute, server, Answering
<1>a. <<>> \in Seq(RoutineOp)
  BY EmptySeq
<1>1. ASSUME NEW c \in {"arm", "disarm", "kill"}, SendCommand("exec", c) PROVE Routinely(<<>>)
  BY <1>1 DEF SendCommand, Advance
<1>2. ASSUME Read("exec") \/ WriteMode("exec") \/ Save("exec") \/ Restore("exec")
             \/ Lock("exec") \/ StartTimer("exec") \/ Unlock("exec") \/ ResetTimer("exec")
             \/ Descend("exec")
      PROVE  Routinely(<<>>)
  BY <1>2 DEF Advance, Read, WriteMode, Save, Restore, Lock, StartTimer, Unlock,
     ResetTimer, Descend
<1>3. CASE Ensure("exec")
  <2>1. Do("restore") \o Do("start") \in Seq(RoutineOp)
    BY RoutineDo, RoutineCat DEF PlainOp
  <2>2. Routinely(Do("restore") \o Do("start")) \/ Routinely(<<>>)
    BY <1>3 DEF Ensure, Advance
  <2> QED BY <1>a, <2>1, <2>2
<1>4. CASE Cleanup("exec")
  <2>1. Do("save") \o Do("restore") \o Do("reset") \in Seq(RoutineOp)
    BY RoutineDo, RoutineCat DEF PlainOp
  <2>2. Routinely(Do("save") \o Do("restore") \o Do("reset")) \/ Routinely(<<>>)
    BY <1>4 DEF Cleanup
  <2> QED BY <1>a, <2>1, <2>2
<1>5. CASE LandIfBegun("exec")
  <2>1. Routinely(PlanLandingDescent) \/ Routinely(<<>>)
    BY <1>5 DEF LandIfBegun, Advance
  <2> QED BY <1>a, <2>1, RoutineShapes
<1> QED BY <1>a, <1>1, <1>2, <1>3, <1>4, <1>5 DEF SharedStep

LEMMA ExecRoutine ==
    ASSUME TypeOK, SharedStep("exec") \/ WriteActivate \/ WriteHold \/ ThenLand \/ Idle
    PROVE  \E r \in Seq(RoutineOp) : Routinely(r)
<1>1. CASE WriteActivate \/ WriteHold \/ Idle
  <2>1. Routinely(<<>>)
    BY <1>1 DEF WriteActivate, WriteHold, Idle, Advance, Routinely, At, ToExecute, server, Answering
  <2> QED BY <2>1, EmptySeq
<1>2. CASE ThenLand
  <2>1. Routinely(BeginLanding) \/ Routinely(<<>>)
    BY <1>2 DEF ThenLand, Routinely, At, ToExecute, server, Answering
  <2> QED BY <2>1, EmptySeq, RoutineShapes
<1> QED BY <1>1, <1>2, ExecShared

LEMMA Continued ==
    ASSUME TypeOK, NEW ops, Continue("exec", ops)
    PROVE  ToExecute \in Seq(Op) /\ ToExecute' = ops \o Tail(ToExecute)
BY DEF TypeOK, Continue, ToExecute, Threads

LEMMA RoutineKeeps ==
    ASSUME IInv, TypeOK', NEW r \in Seq(RoutineOp), Routinely(r)
    PROVE  IInv'
<1>1. ToExecute \in Seq(Op) /\ ToExecute' = r \o Tail(ToExecute) /\ ToExecute # <<>>
  BY Continued DEF Routinely, IInv
<1>2. /\ WellFormed(ToExecute') /\ ToExecute' # <<>>
      /\ Answers(ToExecute') # {} => Answers(ToExecute) # {}
      /\ Cancels(ToExecute') # {} => Cancels(ToExecute) # {}
  <2> DEFINE n == ToExecute'
  <2>1. n = r \o Tail(ToExecute)
    BY <1>1
  <2> HIDE DEF n
  <2>2. /\ WellFormed(n) /\ n # <<>>
        /\ Answers(n) # {} => Answers(ToExecute) # {}
        /\ Cancels(n) # {} => Cancels(ToExecute) # {}
    BY <1>1, <2>1, RoutineStep DEF Routinely, IInv
  <2> QED BY <2>2 DEF n
<1>3. goals' = goals /\ joining' = joining
  BY DEF Routinely
<1>4. GoalsOK'
  BY <1>1, <1>2, <1>3 DEF IInv, GoalsOK, Running, Active, ResultMatchesStatus
<1>5. WellFormed(ToExecute)'
  BY <1>2 DEF WellFormed, Answers, Cancels
<1> QED BY <1>4, <1>5 DEF IInv

\* Goal g gets status st and outcome oc; the other goals are left alone.
Rewrites(g, st, oc) ==
    /\ g \in 1..Len(goals)
    /\ Len(goals') = Len(goals)
    /\ goals'[g].status = st /\ goals'[g].outcome = oc
    /\ \A h \in 1..Len(goals) : h # g => goals'[h] = goals[h]

LEMMA GoalUpdated ==
    ASSUME TypeOK, NEW g \in 1..Len(goals), NEW e \in Goal, goals' = [goals EXCEPT ![g] = e]
    PROVE  Rewrites(g, e.status, e.outcome)
<1>1. goals \in Seq(Goal)
  BY DEF TypeOK
<1> QED BY <1>1, ExceptSeq DEF Rewrites

LEMMA GoalRewritten ==
    ASSUME TypeOK, NEW g \in 1..Len(goals), NEW st \in GoalStatus, NEW oc \in Outcome
    PROVE  /\ goals[g] \in Goal
           /\ goals' = [goals EXCEPT ![g] = [@ EXCEPT !.outcome = oc]]
                => Rewrites(g, goals[g].status, oc)
           /\ goals' = [goals EXCEPT ![g] = [@ EXCEPT !.status = st]]
                => Rewrites(g, st, goals[g].outcome)
           /\ goals' = [goals EXCEPT ![g] = [@ EXCEPT !.status = st, !.outcome = oc]]
                => Rewrites(g, st, oc)
<1>1. goals[g] \in Goal
  BY ElementOfSeq DEF TypeOK
<1> DEFINE e1 == [goals[g] EXCEPT !.outcome = oc]
           e2 == [goals[g] EXCEPT !.status = st]
           e3 == [goals[g] EXCEPT !.status = st, !.outcome = oc]
<1>2. /\ e1 \in Goal /\ e1.status = goals[g].status /\ e1.outcome = oc
      /\ e2 \in Goal /\ e2.status = st /\ e2.outcome = goals[g].outcome
      /\ e3 \in Goal /\ e3.status = st /\ e3.outcome = oc
  BY <1>1 DEF Goal
<1>3. ASSUME goals' = [goals EXCEPT ![g] = e1] PROVE Rewrites(g, goals[g].status, oc)
  <2> HIDE DEF e1
  <2> QED BY <1>2, <1>3, GoalUpdated
<1>4. ASSUME goals' = [goals EXCEPT ![g] = e2] PROVE Rewrites(g, st, goals[g].outcome)
  <2> HIDE DEF e2
  <2> QED BY <1>2, <1>4, GoalUpdated
<1>5. ASSUME goals' = [goals EXCEPT ![g] = e3] PROVE Rewrites(g, st, oc)
  <2> HIDE DEF e3
  <2> QED BY <1>2, <1>5, GoalUpdated
<1> QED BY <1>1, <1>3, <1>4, <1>5

\* A thread that has an answer to give works on an active goal.
LEMMA AnswersActive ==
    ASSUME IInv, ToExecute # <<>>, Head(ToExecute).op \in Answering
    PROVE  /\ Running \in 1..Len(goals) /\ Active(Running)
           /\ joining => Running # Len(goals)
           /\ Head(ToExecute).op = "resolveCanceled" => goals[Running].status = "canceling"
<1>1. ToExecute \in Seq(Op) /\ Len(goals) \in Nat
  BY LenProperties DEF IInv, TypeOK, ToExecute, Threads
<1>2. 1 \in 1..Len(ToExecute) /\ ToExecute[1] = Head(ToExecute)
  BY <1>1, HeadTailProperties, LenProperties, EmptySeq
<1>3. Answers(ToExecute) # {}
  BY <1>2 DEF Answers
<1>4. Head(ToExecute).op = "resolveCanceled" => Cancels(ToExecute) # {}
  BY <1>2 DEF Cancels
<1>5. Running > 0 /\ Running \in 1..Len(goals) /\ (joining => Running # Len(goals))
  BY <1>1 DEF IInv, GoalsOK, Running
<1> QED BY <1>3, <1>4, <1>5 DEF IInv, GoalsOK

\* The step after which it may have none: the goal stays active as long as it does.
LEMMA AnswerKeeps ==
    ASSUME IInv, TypeOK', ToExecute # <<>>, Head(ToExecute).op \in Answering,
           NEW r \in Seq(Op), Partial(r), Continue("exec", r), joining' = joining,
           NEW st, NEW oc, Rewrites(Running, st, oc),
           st = "canceled" <=> oc = "canceled",
           st = "succeeded" => oc # "none",
           Answers(r) # {} => st \in {"executing", "canceling"},
           Cancels(r) # {} => st = "canceling"
    PROVE  IInv'
<1>1. ToExecute \in Seq(Op) /\ ToExecute' = r \o Tail(ToExecute)
  BY Continued DEF IInv
<1>2. /\ WellFormed(ToExecute') /\ ToExecute' # <<>>
      /\ Answers(ToExecute') \subseteq Answers(r)
      /\ Cancels(ToExecute') \subseteq Cancels(r)
  <2> DEFINE n == ToExecute'
  <2>1. n = r \o Tail(ToExecute)
    BY <1>1
  <2> HIDE DEF n
  <2>2. WellFormed(n) /\ n # <<>> /\ Answers(n) \subseteq Answers(r)
        /\ Cancels(n) \subseteq Cancels(r)
    BY <1>1, <2>1, AnswerStep DEF IInv
  <2> QED BY <2>2 DEF n
<1>3. Running \in 1..Len(goals) /\ (joining => Running # Len(goals)) /\ Running' = Running
  BY AnswersActive DEF Rewrites, Running
<1>4. joining => Len(goals) \in 1..Len(goals)
  BY LenProperties DEF IInv, TypeOK
<1>5. joining => goals'[Len(goals')] = goals[Len(goals)]
  BY <1>3, <1>4 DEF Rewrites
<1>6. Len(goals) \in Nat /\ Len(goals') \in Nat /\ DOMAIN goals = 1..Len(goals)
      /\ DOMAIN goals' = 1..Len(goals')
  BY LenProperties DEF IInv, TypeOK
<1>7. ResultMatchesStatus'
  BY <1>6 DEF ResultMatchesStatus, Rewrites, IInv, GoalsOK
<1>8. GoalsOK'
  BY <1>2, <1>3, <1>5, <1>6, <1>7 DEF IInv, GoalsOK, Active, Rewrites, Answers, Cancels
<1>9. WellFormed(ToExecute)'
  BY <1>2 DEF WellFormed, Answers, Cancels
<1> QED BY <1>8, <1>9 DEF IInv

LEMMA NothingRewritten ==
    ASSUME TypeOK, NEW g \in 1..Len(goals), goals' = goals
    PROVE  Rewrites(g, goals[g].status, goals[g].outcome)
BY DEF Rewrites

\* What an answering step does to the goals, in terms of the promise: the goal is
\* resolved, canceled only on request, or keeps its status.
Answered ==
    \E st \in GoalStatus, oc \in Outcome :
        /\ Rewrites(Running, st, oc)
        /\ \/ st = goals[Running].status
           \/ st = "succeeded"
           \/ st = "canceled" /\ goals[Running].status = "canceling"

LEMMA AnswerSteps ==
    ASSUME IInv, TypeOK', AwaitArm \/ Poll \/ Settled \/ ResolveCanceled
    PROVE  IInv' /\ Answered /\ joining' = joining
<1>1. /\ ToExecute # <<>> /\ Head(ToExecute).op \in Answering /\ joining' = joining
      /\ ResolveCanceled => Head(ToExecute).op = "resolveCanceled"
  BY DEF AwaitArm, Poll, Settled, ResolveCanceled, At, ToExecute, Answering, server
<1>2. /\ Running \in 1..Len(goals) /\ Active(Running) /\ goals[Running] \in Goal
      /\ ResolveCanceled => goals[Running].status = "canceling"
  BY <1>1, AnswersActive, GoalRewritten DEF IInv, GoalStatus, Outcome
<1> DEFINE now == goals[Running].status
           out == goals[Running].outcome
<1>3. /\ now \in {"executing", "canceling"} /\ now \in GoalStatus
      /\ out # "canceled" /\ out \in Outcome
  BY <1>2 DEF IInv, GoalsOK, ResultMatchesStatus, Active, Goal, GoalStatus
<1>4. "canceled" \in GoalStatus
      /\ {"canceled", "armed", "timeout", "reached", "stalled"} \subseteq Outcome
  BY DEF GoalStatus, Outcome
<1>5. ASSUME NEW o \in {"armed", "timeout", "reached", "stalled"}, EndsAs(o)
      PROVE  Rewrites(Running, now, o)
  BY <1>2, <1>3, <1>4, <1>5, GoalRewritten DEF EndsAs, IInv
<1>6. Resolve("canceled", "canceled") => Rewrites(Running, "canceled", "canceled")
  BY <1>2, <1>3, <1>4, GoalRewritten DEF Resolve, IInv
<1>7. goals' = goals => Rewrites(Running, now, out)
  BY <1>2, NothingRewritten DEF IInv
<1>8. /\ <<>> \in Seq(Op) /\ Partial(<<>>) /\ Answers(<<>>) = {} /\ Cancels(<<>>) = {}
  BY EmptySeq, RoutinePartial
<1>9. \A o \in {"poll", "settled"} :
        Do(o) \in Seq(Op) /\ Partial(Do(o)) /\ Cancels(Do(o)) = {}
  <2> TAKE o \in {"poll", "settled"}
  <2>1. Do(o) \in Seq(Op) /\ Len(Do(o)) = 1 /\ Do(o)[1].op = o
    BY DoElement DEF PlainOp
  <2> QED BY <2>1 DEF Partial, Answers, Cancels
<1>10. LET r == HoldCurrentPosition \o Do("resolveCanceled")
       IN  r \in Seq(Op) /\ Partial(r)
  <2>1. HoldCurrentPosition = Do("read") \o Do("hold")
    BY DEF HoldCurrentPosition
  <2>2. ExtendedBy(Do("read"), "hold", HoldCurrentPosition)
    BY <2>1, DoElement, Extended DEF PlainOp
  <2>3. Len(Do("read")) = 1 /\ Do("read")[1].op = "read"
    BY DoElement DEF PlainOp
  <2>4. \A i \in 1..Len(HoldCurrentPosition) : HoldCurrentPosition[i].op \in {"read", "hold"}
    BY <2>2, <2>3 DEF ExtendedBy
  <2> QED BY <2>4, RoutineShapes, RoutineThenAnswer DEF Answering
<1> HIDE DEF now, out
<1>11. CASE AwaitArm
  <2>1. Continue("exec", <<>>)
    BY <1>11 DEF AwaitArm, Advance
  <2>2. \/ now = "canceling" /\ Rewrites(Running, "canceled", "canceled")
        \/ \E o \in {"armed", "timeout"} : Rewrites(Running, now, o)
    BY <1>5, <1>6, <1>11 DEF AwaitArm, now
  <2>3. IInv'
    BY <1>1, <1>3, <1>8, <2>1, <2>2, AnswerKeeps
  <2> QED BY <1>1, <1>3, <1>4, <2>2, <2>3 DEF Answered, now
<1>12. CASE Poll
  <2>1. goals' = goals
    BY <1>12 DEF Poll, server
  <2>2. \/ /\ now = "canceling"
           /\ Continue("exec", HoldCurrentPosition \o Do("resolveCanceled"))
        \/ Continue("exec", Do("settled"))
    BY <1>12 DEF Poll, now
  <2>3. IInv'
    BY <1>1, <1>3, <1>7, <1>9, <1>10, <2>1, <2>2, AnswerKeeps
  <2> QED BY <1>1, <1>3, <1>7, <2>1, <2>3 DEF Answered, now
<1>13. CASE Settled
  <2>1. \/ Continue("exec", <<>>) /\ \E o \in {"reached", "stalled"} : EndsAs(o)
        \/ Continue("exec", Do("poll")) /\ goals' = goals
    BY <1>13 DEF Settled, Advance
  <2>2. \/ Continue("exec", <<>>) /\ \E o \in {"reached", "stalled"} : Rewrites(Running, now, o)
        \/ Continue("exec", Do("poll")) /\ Rewrites(Running, now, out)
    BY <1>5, <1>7, <2>1
  <2>3. IInv'
    BY <1>1, <1>3, <1>8, <1>9, <2>2, AnswerKeeps
  <2> QED BY <1>1, <1>3, <1>4, <2>2, <2>3 DEF Answered, now
<1>14. CASE ResolveCanceled
  <2>1. Continue("exec", <<>>)
    BY <1>14 DEF ResolveCanceled, Advance
  <2>2. Rewrites(Running, "canceled", "canceled")
    BY <1>6, <1>14 DEF ResolveCanceled
  <2>3. IInv'
    BY <1>1, <1>8, <2>1, <2>2, AnswerKeeps
  <2> QED BY <1>1, <1>2, <1>4, <1>14, <2>2, <2>3 DEF Answered
<1> QED BY <1>11, <1>12, <1>13, <1>14

\* The tail of execute: an active goal succeeds, and the thread is at its end.
LEMMA FinishStep ==
    ASSUME IInv, TypeOK', Finish
    PROVE  /\ IInv' /\ joining' = joining
           /\ \/ goals' = goals
              \/ Active(Running) /\ \E oc \in Outcome : Rewrites(Running, "succeeded", oc)
<1>1. ToExecute # <<>> /\ Head(ToExecute).op = "finish" /\ Continue("exec", <<>>)
      /\ joining' = joining
  BY DEF Finish, At, ToExecute, Advance
<1>2. ToExecute \in Seq(Op) /\ ToExecute' = <<>> \o Tail(ToExecute)
  BY <1>1, Continued DEF IInv
<1>3. ToExecute' = <<>>
  <2>1. Tail(ToExecute) = <<>>
    BY <1>1, <1>2, FinishIsLast DEF IInv
  <2> QED BY <1>2, <2>1
<1>4. Answers(ToExecute') = {} /\ Cancels(ToExecute') = {}
  BY <1>3 DEF Answers, Cancels
<1>5. /\ Len(goals) \in Nat /\ DOMAIN goals = 1..Len(goals)
      /\ Len(goals') \in Nat /\ DOMAIN goals' = 1..Len(goals')
  BY LenProperties DEF IInv, TypeOK
<1>6. Running \in 1..Len(goals) /\ (joining => Running # Len(goals) /\ Len(goals) \in 1..Len(goals))
  <2>1. Running > 0
    BY <1>1 DEF IInv, GoalsOK
  <2>2. Running = IF joining THEN Len(goals) - 1 ELSE Len(goals)
    BY DEF Running
  <2>3. Len(goals) \in Nat
    BY <1>5
  <2> HIDE DEF Running
  <2>4. CASE joining
    BY <2>1, <2>2, <2>3, <2>4
  <2>5. CASE ~joining
    BY <2>1, <2>2, <2>3, <2>5
  <2> QED BY <2>4, <2>5
<1>7. goals[Running] \in Goal
  BY <1>6, ElementOfSeq DEF IInv, TypeOK
<1> DEFINE oc == Ending(Running)
<1>8. oc \in Outcome /\ oc # "none" /\ (Active(Running) => oc # "canceled")
  BY <1>6, <1>7, <1>5 DEF Ending, Goal, Outcome, IInv, GoalsOK, ResultMatchesStatus, Active
<1> HIDE DEF oc
<1>9. CASE Active(Running)
  <2>1. Rewrites(Running, "succeeded", oc)
    <3>1. goals' = [goals EXCEPT ![Running] = [@ EXCEPT !.status = "succeeded", !.outcome = oc]]
      BY <1>9 DEF Finish, Resolve, oc
    <3> QED BY <1>6, <1>8, <3>1, GoalRewritten DEF IInv, GoalStatus
  <2>2. Running' = Running /\ (joining => goals'[Len(goals')] = goals[Len(goals)])
    BY <1>1, <1>6, <2>1 DEF Rewrites, Running
  <2>3. ResultMatchesStatus'
    BY <1>5, <1>8, <1>9, <2>1 DEF ResultMatchesStatus, Rewrites, IInv, GoalsOK, Active
  <2>4. GoalsOK'
    BY <1>1, <1>3, <1>4, <1>5, <2>1, <2>2, <2>3
       DEF IInv, GoalsOK, Active, Rewrites, Answers, Cancels
  <2> QED BY <1>1, <1>3, <1>8, <1>9, <2>1, <2>4 DEF IInv
<1>10. CASE ~Active(Running)
  <2>1. goals' = goals
    BY <1>10 DEF Finish
  <2>2. GoalsOK'
    BY <1>1, <1>3, <1>4, <1>5, <1>10, <2>1
       DEF IInv, GoalsOK, Active, Answers, Cancels, ResultMatchesStatus, Running
  <2> QED BY <1>1, <1>3, <2>1, <2>2 DEF IInv
<1> QED BY <1>9, <1>10

\* handleAccepted: the goal that waited is worked on.
LEMMA AcceptedStep ==
    ASSUME IInv, TypeOK', HandleAccepted
    PROVE  /\ IInv' /\ goals' = goals
           /\ Running' = Running + 1 /\ Running < Len(goals)
           /\ Running > 0 => ~Active(Running)
<1> DEFINE c == goals[Len(goals)].command
<1>1. /\ joining /\ ~joining' /\ goals' = goals /\ ToExecute = <<>>
      /\ Len(goals) \in Nat /\ Len(goals) > 0
  BY LenProperties DEF HandleAccepted, IInv, TypeOK, ToExecute
<1>2. ToExecute' = Execute(c)
  BY DEF HandleAccepted, IInv, TypeOK, Threads, ToExecute
<1>3. c \in AllCommands
  <2>1. goals[Len(goals)] \in Goal
    BY <1>1, ElementOfSeq DEF IInv, TypeOK
  <2> QED BY <2>1 DEF Goal
<1> HIDE DEF c
<1>4. WellFormed(ToExecute') /\ ToExecute' # <<>> /\ Cancels(ToExecute') = {}
  BY <1>2, <1>3, ExecuteShape
<1>5. Running = Len(goals) - 1 /\ Running' = Len(goals)
  BY <1>1 DEF Running
<1>6. GoalsOK'
  BY <1>1, <1>4, <1>5 DEF IInv, GoalsOK, Active, Cancels, ResultMatchesStatus
<1>7. WellFormed(ToExecute)'
  BY <1>4 DEF WellFormed, Answers, Cancels
<1> QED BY <1>1, <1>5, <1>6, <1>7 DEF IInv, GoalsOK

LEMMA CommandStep ==
    ASSUME IInv, TypeOK', NEW c \in Commands, HandleUAVCommand(c)
    PROVE  /\ IInv'
           /\ Running = Len(goals) /\ Running' = Running /\ Len(goals) < MaxGoals
           /\ Len(goals') = Len(goals) + 1
           /\ goals'[Len(goals) + 1].status = "executing"
           /\ \A g \in 1..Len(goals) : goals'[g] = goals[g]
<1> DEFINE new == [command |-> c, status |-> "executing", outcome |-> "none"]
<1>1. /\ ~joining /\ joining' /\ goals' = Append(goals, new) /\ ToExecute' = ToExecute
      /\ Len(goals) < MaxGoals
  BY DEF HandleUAVCommand, ExecutorFree, ToExecute
<1>2. new.status = "executing" /\ new.outcome = "none"
  OBVIOUS
<1> HIDE DEF new
<1>3. goals \in Seq(Goal) /\ goals' \in Seq(Goal)
  BY DEF IInv, TypeOK
<1>4. /\ Len(goals) \in Nat /\ DOMAIN goals = 1..Len(goals)
      /\ Len(goals') = Len(goals) + 1 /\ DOMAIN goals' = 1..Len(goals')
      /\ goals'[Len(goals) + 1] = new
      /\ \A g \in 1..Len(goals) : goals'[g] = goals[g]
  BY <1>1, <1>3, LenProperties
<1>5. Running = Len(goals) /\ Running' = Running
  BY <1>1, <1>4 DEF Running
<1>6. ResultMatchesStatus'
  <2> SUFFICES ASSUME NEW g \in DOMAIN goals'
               PROVE  /\ goals'[g].status = "canceled" <=> goals'[g].outcome = "canceled"
                      /\ goals'[g].status = "succeeded" => goals'[g].outcome # "none"
    BY DEF ResultMatchesStatus
  <2>1. g \in 1..Len(goals) \/ g = Len(goals) + 1
    BY <1>4
  <2> QED BY <2>1, <1>2, <1>4 DEF IInv, GoalsOK, ResultMatchesStatus
<1>7. GoalsOK'
  <2>1. Running > 0 => goals'[Running] = goals[Running]
    BY <1>4, <1>5
  <2>2. /\ ToExecute # <<>> => Running > 0
        /\ Answers(ToExecute) # {} => Running > 0
        /\ Cancels(ToExecute) # {} => Running > 0
    BY DEF IInv, GoalsOK, Answers, Cancels
  <2> QED BY <1>1, <1>2, <1>4, <1>5, <1>6, <2>1, <2>2 DEF IInv, GoalsOK, Active
<1> QED BY <1>1, <1>2, <1>4, <1>5, <1>7 DEF IInv

LEMMA CancelStep ==
    ASSUME IInv, TypeOK', NEW g, HandleCancel(g)
    PROVE  /\ IInv'
           /\ Running = Len(goals) /\ Running' = Running
           /\ goals[g].status = "executing" /\ \E oc \in Outcome : Rewrites(g, "canceling", oc)
<1>1. /\ ~joining /\ ~joining' /\ ToExecute' = ToExecute
      /\ goals[g].status = "executing" /\ g \in 1..Len(goals)
      /\ goals' = [goals EXCEPT ![g] = [@ EXCEPT !.status = "canceling"]]
  BY DEF HandleCancel, ExecutorFree, ToExecute, IInv, TypeOK
<1>2. /\ Len(goals) \in Nat /\ DOMAIN goals = 1..Len(goals)
      /\ Len(goals') \in Nat /\ DOMAIN goals' = 1..Len(goals')
  BY LenProperties DEF IInv, TypeOK
<1>3. goals[g] \in Goal
  BY <1>1, ElementOfSeq DEF IInv, TypeOK
<1> DEFINE oc == goals[g].outcome
<1>4. oc \in Outcome /\ oc # "canceled"
  BY <1>1, <1>2, <1>3 DEF Goal, IInv, GoalsOK, ResultMatchesStatus
<1>5. Rewrites(g, "canceling", oc)
  BY <1>1, <1>4, GoalRewritten DEF IInv, GoalStatus
<1> HIDE DEF oc
<1>6. Running = Len(goals) /\ Running' = Running
  BY <1>1, <1>5 DEF Running, Rewrites
<1>7. ResultMatchesStatus'
  BY <1>2, <1>4, <1>5 DEF ResultMatchesStatus, Rewrites, IInv, GoalsOK
<1>8. GoalsOK'
  <2>1. Running > 0 => Running \in 1..Len(goals)
    BY <1>2, <1>6
  <2>2. Running > 0 => \/ Running = g /\ Active(Running) /\ goals'[Running].status = "canceling"
                       \/ goals'[Running] = goals[Running]
    BY <1>1, <1>5, <2>1 DEF Rewrites, Active
  <2>3. /\ ToExecute # <<>> => Running > 0
        /\ Answers(ToExecute) # {} => Running > 0
        /\ Cancels(ToExecute) # {} => Running > 0
    BY DEF IInv, GoalsOK, Answers, Cancels
  <2> QED BY <1>1, <1>6, <1>7, <2>2, <2>3 DEF IInv, GoalsOK, Active
<1> QED BY <1>1, <1>4, <1>5, <1>6, <1>8 DEF IInv

(***************************************************************************)
(* The promise.                                                            *)
(***************************************************************************)
\* The statuses that the clients see.
Reported == [g \in DOMAIN goals |-> goals[g].status]

\* A step that shows in neither the goals' statuses nor the goal worked on.
Silent == Reported' = Reported /\ Running' = Running

ReportedOK ==
    /\ DOMAIN Reported = 1..Len(goals) /\ Len(Reported) = Len(goals)
    /\ Reported \in Seq(GoalStatus) /\ Len(goals) \in Nat
    /\ \A g \in 1..Len(goals) : Reported[g] = goals[g].status

LEMMA ReportedSeq == TypeOK => ReportedOK
<1> SUFFICES ASSUME TypeOK PROVE ReportedOK
  OBVIOUS
<1>1. goals \in Seq(Goal) /\ Len(goals) \in Nat /\ DOMAIN goals = 1..Len(goals)
  BY LenProperties DEF TypeOK
<1>2. ASSUME NEW g \in 1..Len(goals) PROVE goals[g].status \in GoalStatus
  <2>1. goals[g] \in Goal
    BY <1>1, ElementOfSeq
  <2> QED BY <2>1 DEF Goal
<1>3. /\ Reported \in [1..Len(goals) -> GoalStatus]
      /\ \A g \in 1..Len(goals) : Reported[g] = goals[g].status
  BY <1>1, <1>2 DEF Reported
<1>4. Reported \in Seq(GoalStatus)
  <2> DEFINE r == Reported
             n == Len(goals)
  <2>1. r \in [1..n -> GoalStatus] /\ n \in Nat
    BY <1>1, <1>3
  <2> HIDE DEF r, n
  <2>2. r \in Seq(GoalStatus)
    BY <2>1
  <2> QED BY <2>2 DEF r
<1>5. DOMAIN Reported = 1..Len(Reported) /\ Len(Reported) \in Nat
  BY <1>4, LenProperties
<1> QED BY <1>1, <1>3, <1>4, <1>5 DEF ReportedOK

LEMMA ReportedRewritten ==
    ASSUME TypeOK, TypeOK', NEW g, NEW st, NEW oc, Rewrites(g, st, oc)
    PROVE  Reported' = [Reported EXCEPT ![g] = st]
<1>1. /\ DOMAIN goals = 1..Len(goals) /\ DOMAIN goals' = 1..Len(goals)
      /\ g \in 1..Len(goals)
  BY LenProperties DEF TypeOK, Rewrites
<1> QED BY <1>1 DEF Reported, Rewrites

LEMMA PromiseAnswer ==
    ASSUME IInv, IInv', Running \in 1..Len(goals), Active(Running), Answered,
           joining' = joining
    PROVE  Silent \/ Promise!Resolve
<1>1. PICK st \in GoalStatus, oc \in Outcome :
         /\ Rewrites(Running, st, oc)
         /\ \/ st = goals[Running].status
            \/ st = "succeeded"
            \/ st = "canceled" /\ goals[Running].status = "canceling"
  BY DEF Answered
<1>2. Reported' = [Reported EXCEPT ![Running] = st] /\ Running' = Running
  BY <1>1, ReportedRewritten DEF IInv, Rewrites, Running
<1>3. /\ Reported[Running] = goals[Running].status /\ Running > 0
      /\ Running \in DOMAIN Reported
  BY ReportedSeq DEF IInv, ReportedOK
<1>4. CASE st = goals[Running].status
  <2>1. Reported' = Reported
    BY <1>2, <1>3, <1>4 DEF Reported
  <2> QED BY <1>2, <2>1 DEF Silent
<1>5. CASE st \in {"succeeded", "canceled"} /\ st # goals[Running].status
  <2>1. st = "canceled" => Reported[Running] = "canceling"
    BY <1>1, <1>3, <1>5
  <2>2. ~Promise!Resolved(Running)
    BY <1>3 DEF Promise!Resolved, Active, Reported
  <2> QED BY <1>2, <1>3, <1>5, <2>1, <2>2 DEF Promise!Resolve, Reported
<1> QED BY <1>1, <1>4, <1>5

LEMMA PromiseAccept ==
    ASSUME IInv, IInv', NEW c \in Commands, HandleUAVCommand(c)
    PROVE  Promise!Accept
<1>1. /\ Running = Len(goals) /\ Running' = Running /\ Len(goals) < MaxGoals
      /\ Len(goals') = Len(goals) + 1
      /\ goals'[Len(goals) + 1].status = "executing"
      /\ \A g \in 1..Len(goals) : goals'[g] = goals[g]
  BY CommandStep DEF IInv
<1>2. /\ Reported \in Seq(GoalStatus) /\ Len(Reported) = Len(goals) /\ Len(goals) \in Nat
      /\ \A g \in 1..Len(goals) : Reported[g] = goals[g].status
  BY ReportedSeq DEF IInv, ReportedOK
<1>3. /\ Reported' \in Seq(GoalStatus) /\ Len(Reported') = Len(goals')
      /\ \A g \in 1..Len(goals') : Reported'[g] = goals'[g].status
  <2>1. TypeOK' => ReportedOK'
    BY ReportedSeq, PTL
  <2> QED BY <2>1 DEF IInv, ReportedOK
<1> DEFINE new == Append(Reported, "executing")
<1>4. /\ new \in Seq(GoalStatus) /\ Len(new) = Len(goals) + 1
      /\ new[Len(goals) + 1] = "executing"
      /\ \A g \in 1..Len(goals) : new[g] = Reported[g]
  BY <1>2, AppendProperties DEF GoalStatus
<1> HIDE DEF new
<1>5. \A g \in 1..Len(goals') : Reported'[g] = new[g]
  BY <1>1, <1>2, <1>3, <1>4
<1>6. Reported' = new
  BY <1>1, <1>3, <1>4, <1>5, SeqEqual
<1> QED BY <1>1, <1>2, <1>6 DEF Promise!Accept, Promise!Listening, Reported, new

LEMMA PromiseStart ==
    ASSUME IInv, IInv', HandleAccepted
    PROVE  Promise!Start
<1>1. /\ goals' = goals /\ Running' = Running + 1 /\ Running < Len(goals)
      /\ Running > 0 => ~Active(Running)
  BY AcceptedStep DEF IInv
<1>2. /\ Len(Reported) = Len(goals) /\ Len(goals) \in Nat /\ Reported' = Reported
      /\ \A g \in 1..Len(goals) : Reported[g] = goals[g].status /\ Reported[g] \in GoalStatus
  BY <1>1, ReportedSeq, ElementOfSeq DEF IInv, ReportedOK, Reported
<1>3. Running > 0 => Running \in 1..Len(goals)
  BY <1>1, <1>2 DEF Running
<1>4. Running > 0 => Promise!Resolved(Running)
  BY <1>1, <1>2, <1>3 DEF Promise!Resolved, Active, GoalStatus, Reported
<1> QED BY <1>1, <1>2, <1>4 DEF Promise!Start, Promise!Listening, Reported

LEMMA PromiseCancel ==
    ASSUME IInv, IInv', NEW g, HandleCancel(g)
    PROVE  g \in DOMAIN Reported /\ Promise!Cancel(g)
<1>1. /\ Running = Len(goals) /\ Running' = Running /\ goals[g].status = "executing"
      /\ \E oc \in Outcome : Rewrites(g, "canceling", oc)
  BY CancelStep DEF IInv
<1>2. g \in 1..Len(goals) /\ Reported' = [Reported EXCEPT ![g] = "canceling"]
  BY <1>1, ReportedRewritten DEF Rewrites, IInv
<1>3. /\ DOMAIN Reported = 1..Len(goals) /\ Len(Reported) = Len(goals)
      /\ Reported[g] = goals[g].status
  BY <1>2, ReportedSeq DEF IInv, ReportedOK
<1> QED BY <1>1, <1>2, <1>3 DEF Promise!Cancel, Promise!Listening, Reported

(***************************************************************************)
(* The theorems.                                                           *)
(***************************************************************************)
LEMMA GoalsInit == Init => IInv /\ Promise!Init
<1> SUFFICES ASSUME Init PROVE IInv /\ Promise!Init
  OBVIOUS
<1>1. TypeOK
  BY TypeInit
<1>2. ToExecute = <<>> /\ goals = <<>> /\ ~joining /\ Len(goals) = 0 /\ DOMAIN goals = {}
  BY DEF Init, ToExecute, Threads
<1>3. Running = 0 /\ Answers(ToExecute) = {} /\ Cancels(ToExecute) = {}
  BY <1>2 DEF Running, Answers, Cancels
<1>4. GoalsOK
  BY <1>2, <1>3 DEF GoalsOK, ResultMatchesStatus
<1>5. Reported = <<>>
  <2>1. Reported \in Seq(GoalStatus) /\ Len(Reported) = 0
    BY <1>1, <1>2, ReportedSeq DEF ReportedOK
  <2> QED BY <2>1, EmptySeq
<1> QED BY <1>1, <1>2, <1>3, <1>4, <1>5 DEF IInv, Promise!Init, Reported

\* A step of the command server keeps the invariant, and is a step of the promise
\* or shows nothing of itself.
LEMMA GoalsStep ==
    ASSUME IInv, TypeOK', [Next]_vars
    PROVE  IInv' /\ (Silent \/ Promise!Next)
<1>a. ASSUME Elsewhere PROVE IInv' /\ Silent
  BY <1>a, ElsewhereStep DEF Elsewhere, Silent, Reported, Running
<1>1. CASE \E r \in Seq(RoutineOp) : Routinely(r)
  <2>1. PICK r \in Seq(RoutineOp) : Routinely(r)
    BY <1>1
  <2>2. IInv'
    BY <2>1, RoutineKeeps
  <2> QED BY <2>1, <2>2 DEF Routinely, Silent, Reported, Running
<1>2. CASE AwaitArm \/ Poll \/ Settled \/ ResolveCanceled
  <2>1. IInv' /\ Answered /\ joining' = joining
    BY <1>2, AnswerSteps
  <2>2. Running \in 1..Len(goals) /\ Active(Running)
    BY <1>2, AnswersActive
       DEF AwaitArm, Poll, Settled, ResolveCanceled, At, ToExecute, Answering
  <2> QED BY <2>1, <2>2, PromiseAnswer DEF Promise!Next
<1>3. CASE Finish
  <2>1. /\ IInv' /\ joining' = joining
        /\ \/ goals' = goals
           \/ Active(Running) /\ \E oc \in Outcome : Rewrites(Running, "succeeded", oc)
    BY <1>3, FinishStep
  <2>2. CASE goals' = goals
    BY <2>1, <2>2 DEF Silent, Reported, Running
  <2>3. CASE Active(Running) /\ \E oc \in Outcome : Rewrites(Running, "succeeded", oc)
    <3>1. Answered /\ Running \in 1..Len(goals)
      BY <2>3 DEF Answered, GoalStatus, Rewrites
    <3> QED BY <2>1, <2>3, <3>1, PromiseAnswer DEF Promise!Next
  <2> QED BY <2>1, <2>2, <2>3
<1>4. CASE HandleAccepted
  <2>1. IInv'
    BY <1>4, AcceptedStep
  <2> QED BY <1>4, <2>1, PromiseStart DEF Promise!Next
<1>5. ASSUME NEW c \in Commands, HandleUAVCommand(c) PROVE IInv' /\ Promise!Next
  <2>1. IInv'
    BY <1>5, CommandStep
  <2> QED BY <1>5, <2>1, PromiseAccept DEF Promise!Next
<1>6. ASSUME NEW g \in 1..MaxGoals, HandleCancel(g) PROVE IInv' /\ Promise!Next
  <2>1. IInv'
    BY <1>6, CancelStep
  <2> QED BY <1>6, <2>1, PromiseCancel DEF Promise!Next, Reported
<1>7. CASE RosStep /\ ~HandleAccepted
  BY <1>a, <1>7, RosElsewhere DEF IInv
<1>8. CASE \/ ControlLoop \/ SafetyCheckCallback \/ VehicleStatusCallback
           \/ Px4Act \/ Px4Changes \/ PositionChanges \/ ClockTick
  BY <1>a, <1>8, CallsElsewhere DEF IInv
<1>9. CASE UNCHANGED vars
  BY <1>a, <1>9 DEF Elsewhere, ToExecute, vars, server
<1>10. CASE ExecStep
  <2>1. \/ SharedStep("exec") \/ WriteActivate \/ WriteHold \/ ThenLand \/ Idle
        \/ AwaitArm \/ Poll \/ Settled \/ ResolveCanceled
        \/ Finish
    BY <1>10 DEF ExecStep
  <2> QED BY <2>1, <1>1, <1>2, <1>3, ExecRoutine DEF IInv
<1> QED BY <1>4, <1>5, <1>6, <1>7, <1>8, <1>9, <1>10 DEF Next

LEMMA GoalsInvariant == Spec => []IInv
<1>1. IInv /\ TypeOK' /\ [Next]_vars => IInv'
  BY GoalsStep
<1> QED BY <1>1, GoalsInit, TypeCorrect, PTL DEF Spec

\* A goal is reported canceled just when its outcome is, and one that is reported
\* as succeeded has an outcome, whatever other goals, cancellations and callbacks
\* come between.
THEOREM ResultsAgree == Spec => []ResultMatchesStatus
<1>1. IInv => ResultMatchesStatus
  BY DEF IInv, GoalsOK
<1> QED BY <1>1, GoalsInvariant, PTL

\* The command server, two threads and all, implements the action server: goals
\* are worked on one at a time in the order of their acceptance, each is resolved
\* once, and only at the client's request as canceled.
THEOREM KeepsPromise == Spec => ActionServerSpec
<1>1. IInv /\ TypeOK' /\ [Next]_vars => [Promise!Next]_(Promise!vars)
  <2> SUFFICES ASSUME IInv, TypeOK', [Next]_vars PROVE [Promise!Next]_(Promise!vars)
    OBVIOUS
  <2>1. Silent \/ Promise!Next
    BY GoalsStep
  <2> QED BY <2>1 DEF Silent, Reported, Promise!vars
<1> QED BY <1>1, GoalsInit, GoalsInvariant, TypeCorrect, PTL DEF Spec, ActionServerSpec, Promise!Spec

-----------------------------------------------------------------------------
(***************************************************************************)
(* Control sessions.                                                       *)
(*                                                                         *)
(* The mode mutex is held over a stretch of a thread's list: from "lock"   *)
(* or "dispatch" to the operation that gives it up.                        *)
(***************************************************************************)
Giving == {"ensure", "start", "unlock"}
Taking == {"lock", "dispatch", "safety", "thenLand"}  \* or making way for a "lock"

\* Operation i of a list that does not belong to the stretch that ends at k: locks
\* and their ends come in pairs.
Outside(s, i, k) ==
    /\ s[i].op \notin {"start", "unlock", "position", "blind"}
    /\ s[i].op = "lock" => i < Len(s) /\ s[i + 1].op = "ensure"
    /\ s[i].op = "ensure" => i - 1 > k /\ s[i - 1].op = "lock"

\* The mutex is given up by operation k, or not held if k = 0.
Stretch(s, k) ==
    /\ k > 0 => s[k].op \in Giving
    /\ \A i \in 1..k - 1 : s[i].op \notin Giving \cup Taking
    /\ \A i \in k + 1..Len(s) : Outside(s, i, k)

Session(s, t, m) == \E k \in 0..Len(s) : Stretch(s, k) /\ (m = t <=> k > 0)

SessionInv ==
    \A t \in Threads :
        /\ Session(todo[t], t, modeMutex)
        /\ \A i \in 1..Len(todo[t]) : todo[t][i].op = "start" => ~controlTimer

(***************************************************************************)
(* Lists outside of the mutex, and lists that do not touch it.             *)
(***************************************************************************)
Paired(r) == r \in Seq(Op) /\ Stretch(r, 0)
Quiet(r) ==
    /\ r \in Seq(Op)
    /\ \A i \in 1..Len(r) : r[i].op \notin Giving \cup Taking \cup {"position", "blind"}

LEMMA QuietIsPaired == \A r : Quiet(r) => Paired(r)
<1> SUFFICES ASSUME NEW r, Quiet(r) PROVE Paired(r)
  OBVIOUS
<1>1. Len(r) \in Nat
  BY LenProperties DEF Quiet
<1> QED BY <1>1 DEF Quiet, Paired, Stretch, Outside, Giving, Taking

LEMMA Joined ==
    ASSUME NEW r \in Seq(Op), NEW q \in Seq(Op), NEW n, n = r \o q
    PROVE  /\ n \in Seq(Op) /\ Len(r) \in Nat /\ Len(q) \in Nat /\ Len(n) = Len(r) + Len(q)
           /\ \A i \in 1..Len(r) : n[i] = r[i]
           /\ \A i \in Len(r) + 1..Len(n) : i - Len(r) \in 1..Len(q) /\ n[i] = q[i - Len(r)]
<1>1. Len(r) \in Nat /\ Len(q) \in Nat
  BY LenProperties
<1>2. /\ n \in Seq(Op) /\ Len(n) = Len(r) + Len(q)
      /\ \A i \in 1..Len(r) + Len(q) : n[i] = IF i <= Len(r) THEN r[i] ELSE q[i - Len(r)]
  BY ConcatProperties
<1>3. ASSUME NEW i \in Len(r) + 1..Len(n)
      PROVE  i - Len(r) \in 1..Len(q) /\ n[i] = q[i - Len(r)]
  <2>1. i \in 1..Len(r) + Len(q) /\ ~(i <= Len(r)) /\ i - Len(r) \in 1..Len(q)
    BY <1>1, <1>2
  <2> QED BY <1>2, <2>1
<1> QED BY <1>1, <1>2, <1>3

LEMMA QuietCat == \A r, q : Quiet(r) /\ Quiet(q) => Quiet(r \o q)
<1> SUFFICES ASSUME NEW r, NEW q, Quiet(r), Quiet(q), NEW n, n = r \o q PROVE Quiet(n)
  OBVIOUS
<1>1. /\ n \in Seq(Op) /\ Len(r) \in Nat /\ Len(q) \in Nat /\ Len(n) = Len(r) + Len(q)
      /\ \A i \in 1..Len(r) : n[i] = r[i]
      /\ \A i \in Len(r) + 1..Len(n) : i - Len(r) \in 1..Len(q) /\ n[i] = q[i - Len(r)]
  BY Joined DEF Quiet
<1>2. \A i \in 1..Len(n) : i \in 1..Len(r) \/ i \in Len(r) + 1..Len(n)
  BY <1>1
<1> QED BY <1>1, <1>2 DEF Quiet

LEMMA PairedCat == \A r, q : Paired(r) /\ Paired(q) => Paired(r \o q)
<1> SUFFICES ASSUME NEW r, NEW q, Paired(r), Paired(q), NEW n, n = r \o q PROVE Paired(n)
  OBVIOUS
<1>1. /\ n \in Seq(Op) /\ Len(r) \in Nat /\ Len(q) \in Nat /\ Len(n) = Len(r) + Len(q)
      /\ \A i \in 1..Len(r) : n[i] = r[i]
      /\ \A i \in Len(r) + 1..Len(n) : i - Len(r) \in 1..Len(q) /\ n[i] = q[i - Len(r)]
  BY Joined DEF Paired
<1>2. ASSUME NEW i \in 1..Len(r) PROVE Outside(n, i, 0)
  <2>1. Outside(r, i, 0) /\ n[i] = r[i]
    BY <1>1, <1>2 DEF Paired, Stretch
  <2>2. r[i].op = "lock" => i + 1 \in 1..Len(r)
    BY <1>1, <2>1 DEF Outside
  <2>3. r[i].op = "ensure" => i - 1 \in 1..Len(r)
    BY <1>1, <2>1 DEF Outside
  <2> QED BY <1>1, <2>1, <2>2, <2>3 DEF Outside
<1>3. ASSUME NEW i \in Len(r) + 1..Len(n) PROVE Outside(n, i, 0)
  <2> DEFINE j == i - Len(r)
  <2>1. j \in 1..Len(q) /\ n[i] = q[j] /\ Outside(q, j, 0)
    BY <1>1, <1>3 DEF Paired, Stretch
  <2>2. ASSUME q[j].op = "lock" PROVE i < Len(n) /\ n[i + 1].op = "ensure"
    <3>1. j < Len(q) /\ q[j + 1].op = "ensure"
      BY <2>1, <2>2 DEF Outside
    <3>2. i + 1 \in Len(r) + 1..Len(n) /\ i + 1 - Len(r) = j + 1 /\ i < Len(n)
      BY <1>1, <3>1
    <3>3. n[i + 1] = q[i + 1 - Len(r)]
      BY <1>1, <3>2
    <3> QED BY <3>1, <3>2, <3>3
  <2>3. ASSUME q[j].op = "ensure" PROVE i - 1 > 0 /\ n[i - 1].op = "lock"
    <3>1. j - 1 > 0 /\ q[j - 1].op = "lock"
      BY <2>1, <2>3 DEF Outside
    <3>2. i - 1 \in Len(r) + 1..Len(n) /\ i - 1 - Len(r) = j - 1 /\ i - 1 > 0
      BY <1>1, <3>1
    <3>3. n[i - 1] = q[i - 1 - Len(r)]
      BY <1>1, <3>2
    <3> QED BY <3>1, <3>2, <3>3
  <2> QED BY <2>1, <2>2, <2>3 DEF Outside
<1>4. \A i \in 1..Len(n) : i \in 1..Len(r) \/ i \in Len(r) + 1..Len(n)
  BY <1>1
<1> QED BY <1>1, <1>2, <1>3, <1>4 DEF Paired, Stretch

LEMMA QuietDo ==
    \A o \in PlainOp \ (Giving \cup Taking \cup {"position", "blind"}) : Quiet(Do(o))
<1> SUFFICES ASSUME NEW o \in PlainOp \ (Giving \cup Taking \cup {"position", "blind"})
             PROVE  Quiet(Do(o))
  OBVIOUS
<1>1. Do(o) \in Seq(Op) /\ Len(Do(o)) = 1 /\ Do(o)[1].op = o
  BY DoElement
<1> QED BY <1>1 DEF Quiet

LEMMA QuietDoWith ==
    /\ \A m \in FlightMode : Quiet(DoWith("mode", m))
    /\ \A a \in {"armed", "disarmed"} : Quiet(DoWith("status", a))
BY DEF Quiet, DoWith, Op, Giving, Taking

LEMMA QuietNothing == Quiet(<<>>)
BY EmptySeq DEF Quiet

\* The functions both threads call, but those that take the mutex.
LEMMA QuietRoutines ==
    /\ \A m \in FlightMode : Quiet(SetUAVMode(m))
    /\ Quiet(CleanupControlLoop)
    /\ Quiet(PlanLandingDescent)
    /\ Quiet(LandPositionMode)
    /\ Quiet(ActivateTrajectory)
    /\ Quiet(HoldCurrentPosition)
<1>1. \A o \in {"read", "cleanup", "descend", "landIfBegun", "activate", "hold"} : Quiet(Do(o))
  BY QuietDo DEF PlainOp, Giving, Taking
<1>2. \A m \in FlightMode : Quiet(SetUAVMode(m))
  BY <1>1, QuietDoWith, QuietCat DEF SetUAVMode
<1> QED BY <1>1, <1>2, QuietCat
        DEF CleanupControlLoop, PlanLandingDescent, LandPositionMode, ActivateTrajectory,
            HoldCurrentPosition

LEMMA PairedEnsure ==
    \A k \in DOMAIN ControlModeOf : Paired(EnsureControlLoopRunning(k))
<1> SUFFICES ASSUME NEW k \in DOMAIN ControlModeOf PROVE Paired(EnsureControlLoopRunning(k))
  OBVIOUS
<1> DEFINE r == DoWith("lock", k)
           n == r \o Do("ensure")
<1>1. r \in Seq(Op) /\ Len(r) = 1 /\ r[1].op = "lock"
  BY DEF DoWith, Op
<1>2. "ensure" \in PlainOp
  BY DEF PlainOp
<1> HIDE DEF r
<1>3. ExtendedBy(r, "ensure", n)
  BY <1>1, <1>2, Extended
<1> HIDE DEF n
<1>4. n \in Seq(Op) /\ Len(n) = 2 /\ n[1].op = "lock" /\ n[2].op = "ensure"
  BY <1>1, <1>3 DEF ExtendedBy
<1>5. \A i \in 1..2 : Outside(n, i, 0)
  <2>1. \A i \in 1..2 : i = 1 \/ i = 2
    OBVIOUS
  <2> QED BY <1>4, <2>1 DEF Outside
<1>6. Paired(n)
  BY <1>4, <1>5 DEF Paired, Stretch
<1> QED BY <1>6 DEF EnsureControlLoopRunning, n, r

LEMMA PairedRoutines ==
    /\ Paired(BeginLanding)
    /\ Paired(FlyTrajectory)
    /\ Paired(SetUAVMode("SAFETYLAND_BLIND") \o EnsureControlLoopRunning("blind"))
<1>1. /\ "pos" \in DOMAIN ControlModeOf /\ "blind" \in DOMAIN ControlModeOf
      /\ {"BEGIN_LAND_POSITION", "POSITION", "SAFETYLAND_BLIND"} \subseteq FlightMode
  BY DEF ControlModeOf, FlightMode
<1>2. /\ Paired(EnsureControlLoopRunning("pos")) /\ Paired(EnsureControlLoopRunning("blind"))
      /\ \A m \in {"BEGIN_LAND_POSITION", "POSITION", "SAFETYLAND_BLIND"} : Paired(SetUAVMode(m))
      /\ Paired(LandPositionMode) /\ Paired(ActivateTrajectory)
  BY <1>1, PairedEnsure, QuietRoutines, QuietIsPaired
<1>3. Paired(BeginLanding)
  BY <1>2, PairedCat DEF BeginLanding
<1>4. Paired(FlyTrajectory)
  BY <1>2, PairedCat DEF FlyTrajectory
<1> QED BY <1>2, <1>3, <1>4, PairedCat

\* "safety", "thenLand" and "dispatch" wait outside of the mutex.
LEMMA PairedDo ==
    \A o \in PlainOp \ (Giving \cup {"position", "blind"}) : Paired(Do(o))
<1> SUFFICES ASSUME NEW o \in PlainOp \ (Giving \cup {"position", "blind"})
             PROVE  Paired(Do(o))
  OBVIOUS
<1>1. Do(o) \in Seq(Op) /\ Len(Do(o)) = 1 /\ Do(o)[1].op = o
  BY DoElement
<1>2. o # "lock"
  BY DEF PlainOp
<1> QED BY <1>1, <1>2 DEF Paired, Stretch, Outside, Giving

LEMMA PairedExecute == \A c \in AllCommands : Paired(Execute(c))
<1>1. SUFFICES ASSUME NEW c \in AllCommands PROVE Paired(Body(c))
  BY PairedDo, PairedCat DEF Execute, PlainOp, Giving
<1>2. /\ {"EMERGENCY_STOP", "MANUAL", "MANUAL_AIDED"} \subseteq FlightMode
      /\ {"manual", "aided", "blind"} \subseteq DOMAIN ControlModeOf
  BY DEF FlightMode, ControlModeOf
<1>3. \A o \in {"kill", "arm", "awaitArm", "disarm", "poll", "thenLand", "idle"} :
         Paired(Do(o))
  BY PairedDo DEF PlainOp, Giving
<1>4. /\ \A m \in {"EMERGENCY_STOP", "MANUAL", "MANUAL_AIDED"} : Paired(SetUAVMode(m))
      /\ \A k \in {"manual", "aided", "blind"} : Paired(EnsureControlLoopRunning(k))
      /\ Paired(CleanupControlLoop)
  BY <1>2, QuietRoutines, QuietIsPaired, PairedEnsure
<1>5. Paired(FlyTrajectory \o Do("poll"))
  BY <1>3, PairedRoutines, PairedCat
<1> QED BY <1>3, <1>4, <1>5, PairedRoutines, PairedCat DEF Body

(***************************************************************************)
(* Steps of a thread through its list.                                     *)
(***************************************************************************)
\* Behind what replaces the head all is as it was, unless the head was a "lock".
LEMMA BehindHead ==
    ASSUME NEW s \in Seq(Op), s # <<>>, NEW r \in Seq(Op), NEW n, n = r \o Tail(s),
           NEW k \in {0, 1}, Stretch(s, k), k = 0 => Head(s).op # "lock"
    PROVE  \A i \in Len(r) + 1..Len(n) : Outside(n, i, Len(r))
<1>1. /\ Len(s) \in Nat \ {0} /\ Len(r) \in Nat
      /\ Len(n) = Len(r) + Len(s) - 1
      /\ \A l \in Len(r) + 1..Len(n) : n[l] = s[l - Len(r) + 1]
      /\ Head(s) = s[1]
  BY Spliced
<1> TAKE i \in Len(r) + 1..Len(n)
<1> DEFINE j == i - Len(r) + 1
<1>2. j \in 2..Len(s) /\ n[i] = s[j] /\ i \in Int /\ i = j + Len(r) - 1
  BY <1>1
<1>3. Outside(s, j, k)
  <2>1. j \in k + 1..Len(s)
    BY <1>1, <1>2
  <2> QED BY <2>1 DEF Stretch
<1> HIDE DEF j
<1>4. ASSUME s[j].op = "lock" PROVE i < Len(n) /\ n[i + 1].op = "ensure"
  <2>1. j < Len(s) /\ s[j + 1].op = "ensure"
    BY <1>3, <1>4 DEF Outside
  <2>2. i + 1 \in Len(r) + 1..Len(n) /\ i + 1 - Len(r) + 1 = j + 1 /\ i < Len(n)
    BY <1>1, <1>2, <2>1
  <2>3. n[i + 1] = s[i + 1 - Len(r) + 1]
    BY <1>1, <2>2
  <2> QED BY <2>1, <2>2, <2>3
<1>5. ASSUME s[j].op = "ensure" PROVE i - 1 > Len(r) /\ n[i - 1].op = "lock"
  <2>1. j - 1 > k /\ s[j - 1].op = "lock"
    BY <1>3, <1>5 DEF Outside
  <2>2. j - 1 # 1
    BY <1>1, <1>2, <2>1
  <2>3. i - 1 \in Len(r) + 1..Len(n) /\ i - 1 - Len(r) + 1 = j - 1 /\ i - 1 > Len(r)
    BY <1>1, <1>2, <2>2
  <2>4. n[i - 1] = s[i - 1 - Len(r) + 1]
    BY <1>1, <2>3
  <2> QED BY <2>1, <2>3, <2>4
<1> QED BY <1>2, <1>3, <1>4, <1>5 DEF Outside

\* Whoever gives the mutex up holds it, and whoever may take it does not.
LEMMA HeadTells ==
    ASSUME NEW s \in Seq(Op), s # <<>>, NEW k \in 0..Len(s), Stretch(s, k)
    PROVE  /\ Len(s) \in Nat \ {0} /\ Head(s) = s[1]
           /\ Head(s).op \in Giving => k = 1
           /\ Head(s).op \in Taking => k = 0
           /\ Head(s).op \in {"position", "blind"} => k > 1
<1>1. Len(s) \in Nat \ {0} /\ Head(s) = s[1]
  BY HeadTailProperties, LenProperties, EmptySeq
<1>2. CASE k = 0
  <2>1. Outside(s, 1, 0)
    BY <1>1, <1>2 DEF Stretch
  <2>2. s[1].op \notin Giving /\ s[1].op \notin {"position", "blind"}
    BY <2>1 DEF Outside, Giving
  <2> QED BY <1>1, <1>2, <2>2
<1>3. CASE k = 1
  BY <1>1, <1>3 DEF Stretch, Giving, Taking
<1>4. CASE k > 1
  <2>1. 1 \in 1..k - 1
    BY <1>4
  <2>2. s[1].op \notin Giving \cup Taking
    BY <2>1 DEF Stretch
  <2> QED BY <1>1, <1>4, <2>2
<1> QED BY <1>1, <1>2, <1>3, <1>4

\* The mutex is kept or left alone.
LEMMA SessionKept ==
    ASSUME NEW s \in Seq(Op), s # <<>>, NEW r, NEW n, n = r \o Tail(s),
           NEW t, NEW m, Session(s, t, m), Head(s).op \notin Giving \cup {"lock"},
           Quiet(r) \/ (Head(s).op \in Taking /\ Paired(r))
    PROVE  Session(n, t, m)
<1>1. PICK k \in 0..Len(s) : Stretch(s, k) /\ (m = t <=> k > 0)
  BY DEF Session
<1>2. r \in Seq(Op) /\ Paired(r)
  BY QuietIsPaired DEF Paired
<1>3. /\ n \in Seq(Op)
      /\ Len(s) \in Nat \ {0} /\ Len(r) \in Nat
      /\ Len(n) = Len(r) + Len(s) - 1
      /\ \A l \in 1..Len(r) : n[l] = r[l]
      /\ \A l \in Len(r) + 1..Len(n) : n[l] = s[l - Len(r) + 1]
      /\ Head(s) = s[1]
  BY <1>2, Spliced
<1>4. k # 1
  BY <1>1, <1>3 DEF Stretch
<1>5. CASE k = 0
  <2>1. ASSUME NEW l \in 1..Len(n) PROVE Outside(n, l, 0)
    <3>1. CASE l \in 1..Len(r)
      <4>1. Outside(r, l, 0)
        BY <1>2, <3>1 DEF Paired, Stretch
      <4>2. r[l].op = "lock" => l + 1 \in 1..Len(r)
        BY <1>3, <3>1, <4>1 DEF Outside
      <4>3. r[l].op = "ensure" => l - 1 \in 1..Len(r)
        BY <1>3, <3>1, <4>1 DEF Outside
      <4> QED BY <1>3, <3>1, <4>1, <4>2, <4>3 DEF Outside
    <3>2. CASE l \in Len(r) + 1..Len(n)
      <4>1. Outside(n, l, Len(r))
        <5>1. \A i \in Len(r) + 1..Len(n) : Outside(n, i, Len(r))
          BY <1>1, <1>2, <1>5, BehindHead
        <5> QED BY <3>2, <5>1
      <4> QED BY <1>3, <4>1 DEF Outside
    <3> QED BY <1>3, <3>1, <3>2
  <2>2. Stretch(n, 0)
    BY <2>1 DEF Stretch
  <2> QED BY <1>1, <1>3, <1>5, <2>2 DEF Session
<1>6. CASE k > 1
  <2> DEFINE e == k + Len(r) - 1
  <2>1. Quiet(r)
    BY <1>1, <1>6, HeadTells
  <2>2. e \in 0..Len(n) /\ e > 0 /\ e > Len(r) /\ e - Len(r) + 1 = k
    BY <1>3, <1>6
  <2> HIDE DEF e
  <2>3. n[e].op \in Giving
    <3>1. n[e] = s[e - Len(r) + 1]
      BY <1>3, <2>2
    <3> QED BY <1>1, <1>6, <2>2, <3>1 DEF Stretch
  <2>4. ASSUME NEW l \in 1..e - 1 PROVE n[l].op \notin Giving \cup Taking
    <3>1. CASE l \in 1..Len(r)
      BY <1>3, <2>1, <3>1 DEF Quiet
    <3>2. CASE l > Len(r)
      <4>1. l \in Len(r) + 1..Len(n) /\ l - Len(r) + 1 \in 1..k - 1
        BY <1>3, <2>2, <3>2
      <4>2. n[l] = s[l - Len(r) + 1]
        BY <1>3, <4>1
      <4> QED BY <1>1, <4>1, <4>2 DEF Stretch
    <3> QED BY <1>3, <2>2, <3>1, <3>2
  <2>5. ASSUME NEW l \in e + 1..Len(n) PROVE Outside(n, l, e)
    <3> DEFINE j == l - Len(r) + 1
    <3>1. j \in k + 1..Len(s) /\ l = j + Len(r) - 1 /\ l \in Len(r) + 1..Len(n)
      BY <1>3, <2>2
    <3>a. n[l] = s[j]
      BY <1>3, <3>1
    <3> HIDE DEF j
    <3>2. Outside(s, j, k)
      BY <1>1, <3>1 DEF Stretch
    <3>3. ASSUME s[j].op = "lock" PROVE l < Len(n) /\ n[l + 1].op = "ensure"
      <4>1. j < Len(s) /\ s[j + 1].op = "ensure"
        BY <3>2, <3>3 DEF Outside
      <4>2. l + 1 \in Len(r) + 1..Len(n) /\ l + 1 - Len(r) + 1 = j + 1 /\ l < Len(n)
        BY <1>3, <2>2, <3>1, <4>1
      <4>3. n[l + 1] = s[l + 1 - Len(r) + 1]
        BY <1>3, <4>2
      <4> QED BY <4>1, <4>2, <4>3
    <3>4. ASSUME s[j].op = "ensure" PROVE l - 1 > e /\ n[l - 1].op = "lock"
      <4>1. j - 1 > k /\ s[j - 1].op = "lock"
        BY <3>2, <3>4 DEF Outside
      <4>2. l - 1 \in Len(r) + 1..Len(n) /\ l - 1 - Len(r) + 1 = j - 1 /\ l - 1 > e
        BY <1>3, <2>2, <3>1, <4>1
      <4>3. n[l - 1] = s[l - 1 - Len(r) + 1]
        BY <1>3, <4>2
      <4> QED BY <4>1, <4>2, <4>3
    <3> QED BY <3>1, <3>a, <3>2, <3>3, <3>4 DEF Outside
  <2>6. Stretch(n, e)
    BY <2>3, <2>4, <2>5 DEF Stretch
  <2> QED BY <1>1, <1>6, <2>2, <2>6 DEF Session
<1> QED BY <1>3, <1>4, <1>5, <1>6

\* The mutex is given up.
LEMMA SessionEnds ==
    ASSUME NEW s \in Seq(Op), s # <<>>, NEW n, n = <<>> \o Tail(s),
           NEW t, NEW m, Session(s, t, m), Head(s).op \in Giving
    PROVE  m = t /\ \A x : x # t => Session(n, t, x)
<1>1. PICK k \in 0..Len(s) : Stretch(s, k) /\ (m = t <=> k > 0)
  BY DEF Session
<1>2. k = 1
  BY <1>1, HeadTells
<1> DEFINE r == <<>>
<1>r. r \in Seq(Op) /\ n = r \o Tail(s)
  BY EmptySeq
<1>3. Len(r) = 0
  BY EmptySeq
<1> HIDE DEF r
<1>4. Len(n) \in Nat
  BY <1>r, Spliced
<1>5. \A i \in Len(r) + 1..Len(n) : Outside(n, i, Len(r))
  <2>1. k \in {0, 1} /\ k # 0
    BY <1>2
  <2> QED BY <1>1, <1>r, <2>1, BehindHead
<1>6. Stretch(n, 0)
  BY <1>3, <1>5 DEF Stretch
<1> QED BY <1>1, <1>2, <1>4, <1>6 DEF Session

\* "lock" takes the mutex, to be given up by the "ensure" behind it.
LEMMA SessionLocks ==
    ASSUME NEW s \in Seq(Op), s # <<>>, NEW n, n = <<>> \o Tail(s),
           NEW t, NEW m, Session(s, t, m), Head(s).op = "lock"
    PROVE  Session(n, t, t)
<1>1. PICK k \in 0..Len(s) : Stretch(s, k) /\ (m = t <=> k > 0)
  BY DEF Session
<1>2. k = 0
  BY <1>1, HeadTells DEF Taking
<1>3. /\ n \in Seq(Op)
      /\ Len(s) \in Nat \ {0}
      /\ Len(n) = Len(s) - 1
      /\ \A l \in 1..Len(n) : n[l] = s[l + 1]
      /\ Head(s) = s[1]
  <2>1. <<>> \in Seq(Op) /\ Len(<<>>) = 0
    BY EmptySeq
  <2> QED BY <2>1, Spliced
<1>4. Outside(s, 1, 0)
  BY <1>1, <1>2, <1>3 DEF Stretch
<1>5. Len(s) > 1 /\ s[2].op = "ensure"
  BY <1>3, <1>4 DEF Outside
<1>6. 1 \in 0..Len(n) /\ n[1].op \in Giving
  BY <1>3, <1>5 DEF Giving
<1>7. ASSUME NEW i \in 2..Len(n) PROVE Outside(n, i, 1)
  <2>1. i + 1 \in 1..Len(s) /\ n[i] = s[i + 1] /\ Outside(s, i + 1, 0)
    BY <1>1, <1>2, <1>3 DEF Stretch
  <2>2. ASSUME s[i + 1].op = "lock" PROVE i < Len(n) /\ n[i + 1].op = "ensure"
    <3>1. i + 1 < Len(s) /\ s[i + 2].op = "ensure"
      BY <2>1, <2>2 DEF Outside
    <3>2. i + 1 \in 1..Len(n) /\ i < Len(n)
      BY <1>3, <3>1
    <3>3. n[i + 1] = s[i + 2]
      BY <1>3, <3>2
    <3> QED BY <3>1, <3>2, <3>3
  <2>3. ASSUME s[i + 1].op = "ensure" PROVE i - 1 > 1 /\ n[i - 1].op = "lock"
    <3>1. s[i].op = "lock"
      BY <2>1, <2>3 DEF Outside
    <3>2. i # 2
      BY <1>5, <3>1
    <3>3. i - 1 \in 1..Len(n) /\ i - 1 > 1
      BY <3>2
    <3>4. n[i - 1] = s[i]
      BY <1>3, <3>3
    <3> QED BY <3>1, <3>3, <3>4
  <2> QED BY <2>1, <2>2, <2>3 DEF Outside
<1>8. Stretch(n, 1)
  BY <1>6, <1>7 DEF Stretch
<1> QED BY <1>6, <1>8 DEF Session

\* "ensure" keeps the mutex, and "dispatch" takes it, for two operations.
Going(r) ==
    r \in Seq(Op) /\ Len(r) = 2 /\ r[1].op \notin Giving \cup Taking /\ r[2].op \in Giving

LEMMA SessionGoesOn ==
    ASSUME NEW s \in Seq(Op), s # <<>>, NEW r, NEW n, n = r \o Tail(s), Going(r),
           NEW t, NEW m, Session(s, t, m), Head(s).op \in {"ensure", "dispatch"}
    PROVE  Session(n, t, t)
<1>1. PICK k \in 0..Len(s) : Stretch(s, k) /\ (m = t <=> k > 0)
  BY DEF Session
<1>2. k \in {0, 1} /\ Head(s).op # "lock"
  BY <1>1, HeadTells DEF Giving, Taking
<1>3. r \in Seq(Op)
  BY DEF Going
<1>4. /\ n \in Seq(Op) /\ Len(s) \in Nat \ {0} /\ Len(n) = Len(r) + Len(s) - 1
      /\ \A i \in 1..Len(r) : n[i] = r[i]
  BY <1>3, Spliced
<1>5. \A i \in Len(r) + 1..Len(n) : Outside(n, i, Len(r))
  BY <1>1, <1>2, <1>3, BehindHead
<1>6. Stretch(n, 2)
  BY <1>4, <1>5 DEF Stretch, Going
<1> QED BY <1>4, <1>6 DEF Session, Going

(***************************************************************************)
(* The invariant.                                                          *)
(***************************************************************************)
\* A list in which nothing starts a session.
Startless(r) == \A i \in 1..Len(r) : r[i].op # "start"

LEMMA PairedIsStartless == \A r : Paired(r) => Startless(r)
<1> SUFFICES ASSUME NEW r, Paired(r) PROVE Startless(r)
  OBVIOUS
<1>1. \A i \in 1..Len(r) : Outside(r, i, 0)
  BY DEF Paired, Stretch
<1> QED BY <1>1 DEF Startless, Outside

\* What replaces the head brings no new "start" in.
LEMMA StartsOld ==
    ASSUME NEW s \in Seq(Op), s # <<>>, NEW r \in Seq(Op), Startless(r), NEW n, n = r \o Tail(s),
           NEW i \in 1..Len(n), n[i].op = "start"
    PROVE  \E j \in 1..Len(s) : s[j].op = "start"
<1>1. /\ Len(s) \in Nat \ {0} /\ Len(r) \in Nat /\ Len(n) = Len(r) + Len(s) - 1
      /\ \A l \in 1..Len(r) : n[l] = r[l]
      /\ \A l \in Len(r) + 1..Len(n) : n[l] = s[l - Len(r) + 1]
  BY Spliced
<1>2. i \notin 1..Len(r)
  BY <1>1 DEF Startless
<1>3. i \in Len(r) + 1..Len(n) /\ i - Len(r) + 1 \in 1..Len(s)
  BY <1>1, <1>2
<1>4. n[i] = s[i - Len(r) + 1]
  BY <1>1, <1>3
<1> QED BY <1>3, <1>4

LEMMA ContinuedLists ==
    ASSUME TypeOK, NEW t \in Threads, NEW r, Continue(t, r)
    PROVE  /\ todo[t] \in Seq(Op)
           /\ todo'[t] = r \o Tail(todo[t])
           /\ \A u \in Threads \ {t} : todo'[u] = todo[u]
<1>1. todo \in [Threads -> Seq(Op)]
  BY DEF TypeOK
<1>2. todo' = [todo EXCEPT ![t] = r \o Tail(todo[t])]
  BY DEF Continue
<1>3. /\ todo[t] \in Seq(Op)
      /\ todo'[t] = r \o Tail(todo[t])
      /\ \A u \in Threads \ {t} : todo'[u] = todo[u]
  BY <1>1, <1>2
<1> QED BY <1>3

\* A step that leaves mutex and timer alone, or clears the timer.
LEMMA StepKeepsSession ==
    ASSUME TypeOK, SessionInv, NEW t \in Threads, todo[t] # <<>>, NEW r, Continue(t, r),
           Head(todo[t]).op \notin Giving \cup {"lock"},
           Quiet(r) \/ (Head(todo[t]).op \in Taking /\ Paired(r)),
           modeMutex' = modeMutex, controlTimer' => controlTimer
    PROVE  SessionInv'
<1>1. /\ todo[t] \in Seq(Op) /\ todo'[t] = r \o Tail(todo[t])
      /\ \A u \in Threads \ {t} : todo'[u] = todo[u]
  BY ContinuedLists
<1>2. r \in Seq(Op) /\ Startless(r)
  <2>1. Paired(r)
    BY QuietIsPaired
  <2> QED BY <2>1, PairedIsStartless DEF Paired
<1>3. Session(todo'[t], t, modeMutex)
  <2>1. Session(todo[t], t, modeMutex)
    BY DEF SessionInv
  <2> QED BY <1>1, <2>1, SessionKept
<1>4. ASSUME NEW i \in 1..Len(todo'[t]), todo'[t][i].op = "start" PROVE ~controlTimer'
  <2>1. \E j \in 1..Len(todo[t]) : todo[t][j].op = "start"
    BY <1>1, <1>2, <1>4, StartsOld
  <2> QED BY <2>1 DEF SessionInv
<1>5. ASSUME NEW u \in Threads \ {t}
      PROVE  /\ Session(todo'[u], u, modeMutex')
             /\ \A i \in 1..Len(todo'[u]) : todo'[u][i].op = "start" => ~controlTimer'
  BY <1>1 DEF SessionInv
<1> QED BY <1>3, <1>4, <1>5 DEF SessionInv

LEMMA NoStretchNoStart ==
    ASSUME NEW s, NEW t, NEW m, Session(s, t, m), m # t
    PROVE  Startless(s) /\ \A x : x # t => Session(s, t, x)
<1>1. PICK k \in 0..Len(s) : Stretch(s, k) /\ (m = t <=> k > 0)
  BY DEF Session
<1>2. k = 0
  BY <1>1
<1> QED BY <1>1, <1>2 DEF Stretch, Outside, Startless, Session

\* The mutex goes from or to thread t.
LEMMA MutexMoves ==
    ASSUME TypeOK, SessionInv, NEW t \in Threads, NEW r, Continue(t, r),
           modeMutex \in {"free", t}, modeMutex' \in {"free", t},
           Session(todo'[t], t, modeMutex'),
           \A i \in 1..Len(todo'[t]) : todo'[t][i].op = "start" => ~controlTimer'
    PROVE  SessionInv'
<1>1. ASSUME NEW u \in Threads \ {t}
      PROVE  /\ Session(todo'[u], u, modeMutex')
             /\ \A i \in 1..Len(todo'[u]) : todo'[u][i].op = "start" => ~controlTimer'
  <2>1. todo'[u] = todo[u]
    BY ContinuedLists
  <2>2. modeMutex # u /\ modeMutex' # u
    BY DEF Threads
  <2>3. Session(todo[u], u, modeMutex)
    BY DEF SessionInv
  <2>4. Startless(todo[u]) /\ Session(todo[u], u, modeMutex')
    BY <2>2, <2>3, NoStretchNoStart
  <2> QED BY <2>1, <2>4 DEF Startless
<1> QED BY <1>1 DEF SessionInv

\* Whoever gives the mutex up may start the timer: no list starts a session then.
LEMMA GivingKeeps ==
    ASSUME TypeOK, SessionInv, NEW t \in Threads, todo[t] # <<>>, Advance(t),
           Head(todo[t]).op \in Giving, modeMutex' = "free"
    PROVE  SessionInv'
<1>1. /\ todo[t] \in Seq(Op) /\ todo'[t] = <<>> \o Tail(todo[t]) /\ Continue(t, <<>>)
  BY ContinuedLists DEF Advance
<1>2. Session(todo[t], t, modeMutex) /\ t # "free"
  BY DEF SessionInv, Threads
<1>3. modeMutex = t /\ Session(todo'[t], t, "free")
  BY <1>1, <1>2, SessionEnds
<1>4. Startless(todo'[t])
  BY <1>2, <1>3, NoStretchNoStart
<1>5. \A i \in 1..Len(todo'[t]) : todo'[t][i].op = "start" => ~controlTimer'
  BY <1>4 DEF Startless
<1> QED BY <1>1, <1>3, <1>5, MutexMoves

\* A thread that has nothing to do begins a function that does not hold the mutex.
LEMMA BeginningKeeps ==
    ASSUME TypeOK, SessionInv, NEW t \in Threads, todo[t] = <<>>, NEW ops, Paired(ops),
           todo' = [todo EXCEPT ![t] = ops], UNCHANGED <<modeMutex, controlTimer>>
    PROVE  SessionInv'
<1>1. todo'[t] = ops /\ \A u \in Threads \ {t} : todo'[u] = todo[u]
  BY DEF TypeOK
<1>2. modeMutex # t
  <2>1. Session(<<>>, t, modeMutex)
    BY DEF SessionInv
  <2>2. PICK k \in 0..Len(<<>>) : modeMutex = t <=> k > 0
    BY <2>1 DEF Session
  <2> QED BY <2>2, EmptySeq
<1>3. Session(ops, t, modeMutex) /\ Startless(ops)
  <2>1. ops \in Seq(Op) /\ Stretch(ops, 0) /\ Len(ops) \in Nat
    BY LenProperties DEF Paired
  <2> QED BY <1>2, <2>1, PairedIsStartless DEF Session
<1> QED BY <1>1, <1>3 DEF SessionInv, Startless

LEMMA SessionUnchanged ==
    ASSUME SessionInv, UNCHANGED <<todo, modeMutex, controlTimer>>
    PROVE  SessionInv'
BY DEF SessionInv

LEMMA SessionInit == Init => SessionInv
<1> SUFFICES ASSUME Init PROVE SessionInv
  OBVIOUS
<1>1. ASSUME NEW t \in Threads
      PROVE  /\ Session(todo[t], t, modeMutex)
             /\ \A i \in 1..Len(todo[t]) : todo[t][i].op = "start" => ~controlTimer
  <2>1. todo[t] = <<>> /\ modeMutex # t
    BY DEF Init, Threads
  <2>2. 0 \in 0..Len(todo[t]) /\ Len(todo[t]) = 0
    BY <2>1, EmptySeq
  <2>3. Stretch(todo[t], 0)
    BY <2>2 DEF Stretch
  <2> QED BY <2>1, <2>2, <2>3 DEF Session
<1> QED BY <1>1 DEF SessionInv

LEMMA SessionShared ==
    ASSUME TypeOK, SessionInv, NEW t \in Threads, SharedStep(t)
    PROVE  SessionInv'
<1> USE DEF server, env, flight
<1>1. ASSUME NEW o, At(t, o), o \notin Giving \cup {"lock"},
             NEW r, Quiet(r), Continue(t, r), modeMutex' = modeMutex, controlTimer' => controlTimer
      PROVE  SessionInv'
  BY <1>1, StepKeepsSession DEF At
<1>2. ASSUME NEW o, At(t, o), o \notin Giving \cup {"lock"},
             Advance(t), modeMutex' = modeMutex, controlTimer' => controlTimer
      PROVE  SessionInv'
  BY <1>1, <1>2, QuietNothing DEF Advance
<1>3. CASE Read(t) \/ WriteMode(t) \/ Save(t) \/ Restore(t) \/ ResetTimer(t) \/ Descend(t)
  BY <1>2, <1>3 DEF Read, WriteMode, Save, Restore, ResetTimer, Descend, Giving
<1>4. CASE SendCommand(t, "arm") \/ SendCommand(t, "disarm") \/ SendCommand(t, "kill")
  BY <1>2, <1>4 DEF SendCommand, Giving
<1>5. CASE Cleanup(t)
  <2>1. Quiet(Do("save") \o Do("restore") \o Do("reset"))
    BY QuietDo, QuietCat DEF PlainOp, Giving, Taking
  <2>2. Quiet(IF controlTimer THEN Do("save") \o Do("restore") \o Do("reset") ELSE <<>>)
    BY <2>1, QuietNothing
  <2> QED BY <1>1, <1>5, <2>2 DEF Cleanup, Giving
<1>6. CASE LandIfBegun(t)
  <2>1. Quiet(PlanLandingDescent)
    BY QuietRoutines
  <2> QED BY <1>1, <1>2, <1>6, <2>1 DEF LandIfBegun, Giving
<1>7. CASE StartTimer(t) \/ Unlock(t)
  BY <1>7, GivingKeeps DEF StartTimer, Unlock, At, Giving
<1>8. CASE Lock(t)
  <2>1. /\ todo[t] # <<>> /\ Head(todo[t]).op = "lock" /\ Continue(t, <<>>)
        /\ modeMutex = "free" /\ modeMutex' = t /\ controlTimer' = controlTimer
    BY <1>8 DEF Lock, At, Advance
  <2>2. todo[t] \in Seq(Op) /\ todo'[t] = <<>> \o Tail(todo[t])
    BY <2>1, ContinuedLists
  <2>3. Session(todo[t], t, modeMutex)
    BY DEF SessionInv
  <2>4. Session(todo'[t], t, t)
    BY <2>1, <2>2, <2>3, SessionLocks
  <2>5. Startless(<<>>) /\ <<>> \in Seq(Op)
    BY QuietNothing, QuietIsPaired, PairedIsStartless DEF Quiet
  <2>6. ASSUME NEW i \in 1..Len(todo'[t]), todo'[t][i].op = "start" PROVE ~controlTimer'
    <3>1. \E j \in 1..Len(todo[t]) : todo[t][j].op = "start"
      BY <2>1, <2>2, <2>5, <2>6, StartsOld
    <3> QED BY <2>1, <3>1 DEF SessionInv
  <2> QED BY <2>1, <2>4, <2>6, MutexMoves
<1>9. CASE Ensure(t)
  <2> DEFINE r == Do("restore") \o Do("start")
  <2>1. CASE ~controlTimer /\ scratch[t].armed
    <3>1. /\ todo[t] # <<>> /\ Head(todo[t]).op = "ensure" /\ Continue(t, r)
          /\ modeMutex' = modeMutex /\ ~controlTimer'
      BY <1>9, <2>1 DEF Ensure, At
    <3>2. Going(r)
      <4>1. /\ Do("restore") \in Seq(Op) /\ Len(Do("restore")) = 1 /\ Do("restore")[1].op = "restore"
            /\ "start" \in PlainOp
        BY DoElement DEF PlainOp
      <4>2. ExtendedBy(Do("restore"), "start", r)
        BY <4>1, Extended
      <4>3. r \in Seq(Op) /\ Len(r) = 2 /\ r[1].op = "restore" /\ r[2].op = "start"
        BY <4>1, <4>2 DEF ExtendedBy
      <4> QED BY <4>3 DEF Going, Giving, Taking
    <3> HIDE DEF r
    <3>3. todo[t] \in Seq(Op) /\ todo'[t] = r \o Tail(todo[t])
      BY <3>1, ContinuedLists
    <3>4. Session(todo[t], t, modeMutex)
      BY DEF SessionInv
    <3>5. Session(todo'[t], t, t)
      BY <3>1, <3>2, <3>3, <3>4, SessionGoesOn
    <3>6. modeMutex = t
      <4>1. PICK k \in 0..Len(todo[t]) : Stretch(todo[t], k) /\ (modeMutex = t <=> k > 0)
        BY <3>4 DEF Session
      <4> QED BY <3>1, <3>3, <4>1, HeadTells DEF Giving
    <3>7. modeMutex' = t
      BY <3>1, <3>6
    <3> QED BY <3>1, <3>5, <3>6, <3>7, MutexMoves
  <2>2. CASE ~(~controlTimer /\ scratch[t].armed)
    <3>1. /\ todo[t] # <<>> /\ Head(todo[t]).op = "ensure" /\ Advance(t) /\ modeMutex' = "free"
      BY <1>9, <2>2 DEF Ensure, At
    <3> QED BY <3>1, GivingKeeps DEF Giving
  <2> QED BY <2>1, <2>2
<1> QED BY <1>3, <1>4, <1>5, <1>6, <1>7, <1>8, <1>9 DEF SharedStep

LEMMA SessionExec ==
    ASSUME TypeOK, SessionInv, ExecStep
    PROVE  SessionInv'
<1> USE DEF server, env, flight
<1>t. "exec" \in Threads
  BY DEF Threads
<1>1. ASSUME NEW o, At("exec", o), o \notin Giving \cup Taking, o # "lock",
             NEW r, Quiet(r), Continue("exec", r), UNCHANGED flight
      PROVE  SessionInv'
  BY <1>1, <1>t, StepKeepsSession DEF At
<1>2. CASE SharedStep("exec")
  BY <1>2, <1>t, SessionShared
<1>3. ASSUME NEW o \in {"awaitArm", "activate", "poll", "settled", "hold", "resolveCanceled",
                        "idle", "finish"},
             At("exec", o), NEW r, Quiet(r), Continue("exec", r), UNCHANGED flight
      PROVE  SessionInv'
  BY <1>1, <1>3 DEF Giving, Taking
<1>4. CASE AwaitArm \/ WriteActivate \/ WriteHold \/ ResolveCanceled \/ Idle \/ Finish
  BY <1>3, <1>4, QuietNothing
     DEF AwaitArm, WriteActivate, WriteHold, ResolveCanceled, Idle, Finish, Advance
<1>5. Quiet(Do("settled")) /\ Quiet(Do("poll")) /\ Quiet(HoldCurrentPosition \o Do("resolveCanceled"))
  <2>1. Quiet(Do("settled")) /\ Quiet(Do("poll")) /\ Quiet(Do("resolveCanceled"))
    BY QuietDo DEF PlainOp, Giving, Taking
  <2>2. Quiet(HoldCurrentPosition)
    BY QuietRoutines
  <2> QED BY <2>1, <2>2, QuietCat
<1>6. CASE Poll
  <2>1. PICK r : Quiet(r) /\ Continue("exec", r)
    BY <1>5, <1>6 DEF Poll
  <2> QED BY <1>3, <1>6, <2>1 DEF Poll
<1>7. CASE Settled
  <2>1. PICK r : Quiet(r) /\ Continue("exec", r)
    BY <1>5, <1>7, QuietNothing DEF Settled, Advance
  <2> QED BY <1>3, <1>7, <2>1 DEF Settled
<1>8. CASE ThenLand
  <2>1. PICK r : Paired(r) /\ Continue("exec", r)
    BY <1>8, PairedRoutines, QuietNothing, QuietIsPaired DEF ThenLand
  <2>2. /\ todo["exec"] # <<>> /\ Head(todo["exec"]).op = "thenLand"
        /\ modeMutex' = modeMutex /\ controlTimer' = controlTimer
    BY <1>8 DEF ThenLand, At
  <2> QED BY <1>t, <2>1, <2>2, StepKeepsSession DEF Giving, Taking
<1> QED BY <1>2, <1>4, <1>6, <1>7, <1>8 DEF ExecStep

LEMMA SessionDispatch ==
    ASSUME TypeOK, SessionInv, Dispatch
    PROVE  SessionInv'
<1>t. "ros" \in Threads
  BY DEF Threads
<1>1. /\ todo["ros"] # <<>> /\ Head(todo["ros"]).op = "dispatch" /\ modeMutex = "free"
      /\ controlTimer' = controlTimer
  BY DEF Dispatch, At
<1>2. CASE controlMode \in {2, 3}
  <2>1. PICK o \in {"position", "blind"} :
           Continue("ros", Do(o) \o Do("unlock")) /\ modeMutex' = "ros"
    BY <1>2 DEF Dispatch
  <2> DEFINE r == Do(o) \o Do("unlock")
  <2>2. Going(r)
    <3>1. /\ Do(o) \in Seq(Op) /\ Len(Do(o)) = 1 /\ Do(o)[1].op = o
          /\ "unlock" \in PlainOp
      BY DoElement DEF PlainOp
    <3>2. ExtendedBy(Do(o), "unlock", r)
      BY <3>1, Extended
    <3>3. r \in Seq(Op) /\ Len(r) = 2 /\ r[1].op = o /\ r[2].op = "unlock"
      BY <3>1, <3>2 DEF ExtendedBy
    <3> QED BY <3>3 DEF Going, Giving, Taking
  <2>3. Continue("ros", r)
    BY <2>1
  <2>4. r \in Seq(Op) /\ Startless(r)
    <3>1. /\ Do(o) \in Seq(Op) /\ Len(Do(o)) = 1 /\ Do(o)[1].op = o
          /\ "unlock" \in PlainOp
      BY DoElement DEF PlainOp
    <3>2. ExtendedBy(Do(o), "unlock", r)
      BY <3>1, Extended
    <3>3. r \in Seq(Op) /\ Len(r) = 2 /\ r[1].op = o /\ r[2].op = "unlock"
      BY <3>1, <3>2 DEF ExtendedBy
    <3>4. \A i \in 1..2 : i = 1 \/ i = 2
      OBVIOUS
    <3> QED BY <3>3, <3>4 DEF Startless
  <2> HIDE DEF r
  <2>5. todo["ros"] \in Seq(Op) /\ todo'["ros"] = r \o Tail(todo["ros"])
    BY <1>t, <2>3, ContinuedLists
  <2>6. Session(todo["ros"], "ros", modeMutex)
    BY <1>t DEF SessionInv
  <2>7. Session(todo'["ros"], "ros", modeMutex')
    BY <1>1, <2>1, <2>2, <2>5, <2>6, SessionGoesOn
  <2>8. ASSUME NEW i \in 1..Len(todo'["ros"]), todo'["ros"][i].op = "start"
        PROVE  ~controlTimer'
    <3>1. \E j \in 1..Len(todo["ros"]) : todo["ros"][j].op = "start"
      BY <1>1, <2>4, <2>5, <2>8, StartsOld
    <3> QED BY <1>1, <1>t, <3>1 DEF SessionInv
  <2> QED BY <1>1, <1>t, <2>1, <2>3, <2>7, <2>8, MutexMoves
<1>3. CASE controlMode \notin {2, 3}
  <2>1. Continue("ros", <<>>) /\ modeMutex' = modeMutex
    BY <1>3 DEF Dispatch, Advance
  <2> QED BY <1>1, <1>t, <2>1, QuietNothing, StepKeepsSession DEF Giving
<1> QED BY <1>2, <1>3

LEMMA SessionRos ==
    ASSUME TypeOK, SessionInv, RosStep
    PROVE  SessionInv'
<1> USE DEF server, env, flight
<1>t. "ros" \in Threads
  BY DEF Threads
<1>1. ASSUME NEW o \in {"position", "blind", "status", "store"}, At("ros", o),
             NEW r, Quiet(r), Continue("ros", r), UNCHANGED <<modeMutex, controlTimer>>
      PROVE  SessionInv'
  BY <1>1, <1>t, StepKeepsSession DEF At, Giving
<1>2. CASE SharedStep("ros")
  BY <1>2, <1>t, SessionShared
<1>3. CASE Dispatch
  BY <1>3, SessionDispatch
<1>4. Quiet(Do("kill") \o CleanupControlLoop) /\ Quiet(CleanupControlLoop \o Do("store"))
  <2>1. Quiet(Do("kill")) /\ Quiet(Do("store"))
    BY QuietDo DEF PlainOp, Giving, Taking
  <2>2. Quiet(CleanupControlLoop)
    BY QuietRoutines
  <2> QED BY <2>1, <2>2, QuietCat
<1>5. CASE NothingNew \/ TrajectoryCompletes \/ SettleEnds \/ Store
  BY <1>1, <1>5, QuietNothing
     DEF NothingNew, TrajectoryCompletes, SettleEnds, Store, PositionDone, AtPosition, Advance
<1>6. CASE ReplanLanding
  <2>1. Quiet(PlanLandingDescent)
    BY QuietRoutines
  <2> QED BY <1>1, <1>6, <2>1 DEF ReplanLanding, PositionDone, AtPosition
<1>7. CASE TouchDown
  BY <1>1, <1>4, <1>7 DEF TouchDown, PositionDone, AtPosition
<1>8. CASE Blind
  <2>1. PICK r : Quiet(r) /\ Continue("ros", r)
    BY <1>4, <1>8, QuietNothing DEF Blind, Advance
  <2> QED BY <1>1, <1>8, <2>1 DEF Blind
<1>9. CASE Status
  <2>1. Quiet(Do("store"))
    BY QuietDo DEF PlainOp, Giving, Taking
  <2>2. PICK r : r \in {CleanupControlLoop \o Do("store"), Do("store")} /\ Continue("ros", r)
    BY <1>9 DEF Status
  <2>3. Quiet(r)
    BY <1>4, <2>1, <2>2
  <2> QED BY <1>1, <1>9, <2>2, <2>3 DEF Status
<1>10. ASSUME NEW fault, Safety(fault) PROVE SessionInv'
  <2>1. PICK r : Paired(r) /\ Continue("ros", r)
    <3>1. /\ Paired(BeginLanding) /\ Paired(<<>>)
          /\ Paired(SetUAVMode("SAFETYLAND_BLIND") \o EnsureControlLoopRunning("blind"))
      BY PairedRoutines, QuietNothing, QuietIsPaired
    <3> QED BY <1>10, <3>1 DEF Safety
  <2>2. /\ todo["ros"] # <<>> /\ Head(todo["ros"]).op = "safety"
        /\ modeMutex' = modeMutex /\ controlTimer' = controlTimer
    BY <1>10 DEF Safety, At
  <2> QED BY <1>t, <2>1, <2>2, StepKeepsSession DEF Giving, Taking
<1>11. CASE HandleAccepted
  <2>1. goals[Len(goals)].command \in AllCommands
    <3>1. goals \in Seq(Goal) /\ Len(goals) > 0
      BY <1>11 DEF HandleAccepted, TypeOK
    <3>2. goals[Len(goals)] \in Goal
      BY <3>1, LenProperties, ElementOfSeq
    <3> QED BY <3>2 DEF Goal
  <2>2. Paired(Execute(goals[Len(goals)].command)) /\ "exec" \in Threads
    BY <2>1, PairedExecute DEF Threads
  <2> QED BY <1>11, <2>2, BeginningKeeps DEF HandleAccepted
<1> QED BY <1>2, <1>3, <1>5, <1>6, <1>7, <1>8, <1>9, <1>10, <1>11 DEF RosStep, Position

LEMMA SessionNext == TypeOK /\ SessionInv /\ [Next]_vars => SessionInv'
<1> SUFFICES ASSUME TypeOK, SessionInv, [Next]_vars PROVE SessionInv'
  OBVIOUS
<1> USE DEF server, env, flight
<1>1. CASE ExecStep
  BY <1>1, SessionExec
<1>2. CASE RosStep
  BY <1>2, SessionRos
<1>3. CASE ControlLoop \/ SafetyCheckCallback \/ VehicleStatusCallback
  <2>1. PICK r : Paired(r) /\ Call(r)
    <3>1. Paired(Do("safety")) /\ Paired(Do("restore") \o Do("dispatch"))
      BY PairedDo, PairedCat DEF PlainOp, Giving
    <3>2. \A a \in {"armed", "disarmed"} : Paired(DoWith("status", a))
      BY QuietDoWith, QuietIsPaired
    <3> QED BY <1>3, <3>1, <3>2 DEF ControlLoop, SafetyCheckCallback, VehicleStatusCallback
  <2>2. UNCHANGED <<modeMutex, controlTimer>> /\ "ros" \in Threads
    BY <1>3 DEF ControlLoop, SafetyCheckCallback, VehicleStatusCallback, Threads
  <2> QED BY <2>1, <2>2, BeginningKeeps DEF Call, ExecutorFree
<1>4. CASE \/ \E c \in Commands : HandleUAVCommand(c)
           \/ \E g \in 1..MaxGoals : HandleCancel(g)
           \/ Px4Act \/ Px4Changes \/ PositionChanges \/ ClockTick
           \/ UNCHANGED vars
  <2>1. UNCHANGED <<todo, modeMutex, controlTimer>>
    BY <1>4 DEF HandleUAVCommand, HandleCancel, Px4Act, Px4Changes, PositionChanges, ClockTick, vars
  <2> QED BY <2>1, SessionUnchanged
<1> QED BY <1>1, <1>2, <1>3, <1>4 DEF Next

LEMMA SessionsAreFresh == TypeOK /\ SessionInv => FreshSession
<1> SUFFICES ASSUME TypeOK, SessionInv, NEW t \in Threads, At(t, "start")
             PROVE  /\ ~controlTimer /\ modeMutex = t
                    /\ ~(t = "exec" /\ (At("ros", "position") \/ At("ros", "blind")))
  BY DEF FreshSession
<1>1. ASSUME NEW u \in Threads, todo[u] # <<>>,
             Head(todo[u]).op \in {"start", "position", "blind"}
      PROVE  modeMutex = u
  <2>1. PICK k \in 0..Len(todo[u]) : Stretch(todo[u], k) /\ (modeMutex = u <=> k > 0)
    BY DEF SessionInv, Session
  <2>2. todo[u] \in Seq(Op)
    BY DEF TypeOK
  <2> QED BY <1>1, <2>1, <2>2, HeadTells DEF Giving
<1>2. todo[t] \in Seq(Op) /\ todo[t] # <<>> /\ Head(todo[t]).op = "start"
  BY DEF TypeOK, At
<1>3. modeMutex = t
  BY <1>1, <1>2
<1>4. ~controlTimer
  <2>1. 1 \in 1..Len(todo[t]) /\ Head(todo[t]) = todo[t][1]
    BY <1>2, HeadTailProperties, LenProperties, EmptySeq
  <2> QED BY <1>2, <2>1 DEF SessionInv
<1>5. ~(t = "exec" /\ (At("ros", "position") \/ At("ros", "blind")))
  BY <1>1, <1>3 DEF At, Threads
<1> QED BY <1>3, <1>4, <1>5

\* "Safe to touch here -- control_timer_ is null ... and we hold
\* current_control_mode_mutex_" (main.cpp 1328): when ensureControlLoopRunning starts
\* a control session, there is no timer, the thread holds the mutex, and the other
\* thread is outside of the mode function of the control loop.
THEOREM SessionsStartFresh == Spec => []FreshSession
<1>1. Init => SessionInv
  BY SessionInit
<1>2. TypeOK /\ SessionInv /\ [Next]_vars => SessionInv'
  BY SessionNext
<1>3. TypeOK /\ SessionInv => FreshSession
  BY SessionsAreFresh
<1>4. Spec => []TypeOK
  BY TypeCorrect
<1> QED BY <1>1, <1>2, <1>3, <1>4, PTL DEF Spec

-----------------------------------------------------------------------------
(***************************************************************************)
(* No circular wait.                                                       *)
(*                                                                         *)
(* The threads wait for each other in two ways: for the mode mutex, and    *)
(* the executor in handleAccepted for the execute thread.                  *)
(***************************************************************************)
\* Whoever holds the mode mutex has work left that waits for nothing: the execute
\* thread is inside ensureControlLoopRunning, with no poll or sleep before its end,
\* and the executor is neither at a second lock nor in a join.
HolderRuns ==
    /\ modeMutex = "exec" => /\ todo["exec"] # <<>>
                             /\ Head(todo["exec"]).op \in {"ensure", "restore", "start"}
    /\ modeMutex = "ros" => /\ todo["ros"] # <<>>
                            /\ Head(todo["ros"]).op \notin {"lock", "dispatch"}
                            /\ ~joining

\* The "restore" of the execute thread is next to a "start".
ExecHolds ==
    modeMutex = "exec" =>
        /\ todo["exec"] # <<>>
        /\ \/ Head(todo["exec"]).op \in {"ensure", "start"}
           \/ /\ Head(todo["exec"]).op = "restore"
              /\ Len(todo["exec"]) > 1 /\ todo["exec"][2].op = "start"

JoinsIdle == joining => todo["ros"] = <<>>

HolderInv == ExecHolds /\ JoinsIdle

(***************************************************************************)
(* Heads.                                                                  *)
(***************************************************************************)
LEMMA LongerHead ==
    ASSUME NEW s \in Seq(Op), NEW m \in Nat, Len(s) > m
    PROVE  s # <<>> /\ Head(s) = s[1] /\ 1 \in 1..Len(s)
<1>1. Len(s) \in Nat /\ Len(<<>>) = 0
  BY LenProperties, EmptySeq
<1>2. Len(s) # 0 /\ 1 \in 1..Len(s)
  BY <1>1
<1>3. s # <<>>
  BY <1>1, <1>2
<1> QED BY <1>2, <1>3, HeadTailProperties

LEMMA SecondIsNext ==
    ASSUME NEW s \in Seq(Op), Len(s) > 1, NEW n, n = <<>> \o Tail(s)
    PROVE  n # <<>> /\ Head(n) = s[2]
<1>1. s # <<>> /\ <<>> \in Seq(Op) /\ Len(<<>>) = 0
  BY LongerHead, EmptySeq
<1>2. /\ n \in Seq(Op) /\ Len(s) \in Nat /\ Len(n) = Len(s) - 1
      /\ \A i \in 1..Len(n) : n[i] = s[i + 1]
  BY <1>1, Spliced
<1>3. n # <<>> /\ Head(n) = n[1] /\ n[1] = s[2]
  <2>1. Len(n) > 0
    BY <1>2
  <2>2. n # <<>> /\ Head(n) = n[1] /\ 1 \in 1..Len(n)
    BY <1>2, <2>1, LongerHead
  <2> QED BY <1>2, <2>2
<1> QED BY <1>3

\* The execute thread takes the mutex right before its "ensure".
LEMMA LockIsKept ==
    ASSUME TypeOK, SessionInv, Lock("exec")
    PROVE  todo'["exec"] # <<>> /\ Head(todo'["exec"]).op = "ensure"
<1>1. /\ todo["exec"] # <<>> /\ Head(todo["exec"]).op = "lock" /\ Continue("exec", <<>>)
      /\ "exec" \in Threads
  BY DEF Lock, At, Advance, Threads
<1>2. todo["exec"] \in Seq(Op) /\ todo'["exec"] = <<>> \o Tail(todo["exec"])
  BY <1>1, ContinuedLists
<1>3. PICK k \in 0..Len(todo["exec"]) : Stretch(todo["exec"], k)
  BY <1>1 DEF SessionInv, Session
<1>4. k = 0 /\ Len(todo["exec"]) \in Nat \ {0} /\ Head(todo["exec"]) = todo["exec"][1]
  BY <1>1, <1>2, <1>3, HeadTells DEF Taking
<1>5. Outside(todo["exec"], 1, 0)
  BY <1>3, <1>4 DEF Stretch
<1>6. 1 < Len(todo["exec"]) /\ todo["exec"][2].op = "ensure"
  BY <1>1, <1>4, <1>5 DEF Outside
<1> QED BY <1>2, <1>6, SecondIsNext

\* The head of a list makes way for a "restore" and a "start".
LEMMA EnsureGoesOn ==
    ASSUME NEW s \in Seq(Op), s # <<>>, NEW r, r = Do("restore") \o Do("start"),
           NEW n, n = r \o Tail(s)
    PROVE  n # <<>> /\ Head(n).op = "restore" /\ Len(n) > 1 /\ n[2].op = "start"
<1>1. /\ Do("restore") \in Seq(Op) /\ Len(Do("restore")) = 1 /\ Do("restore")[1].op = "restore"
      /\ "start" \in PlainOp
  BY DoElement DEF PlainOp
<1>2. ExtendedBy(Do("restore"), "start", r)
  BY <1>1, Extended
<1>3. r \in Seq(Op) /\ Len(r) = 2 /\ r[1].op = "restore" /\ r[2].op = "start"
  BY <1>1, <1>2 DEF ExtendedBy
<1>4. /\ n \in Seq(Op) /\ Len(s) \in Nat \ {0} /\ Len(n) = Len(r) + Len(s) - 1
      /\ \A i \in 1..Len(r) : n[i] = r[i]
  BY <1>3, Spliced
<1>5. Len(n) > 1 /\ n[1].op = "restore" /\ n[2].op = "start"
  BY <1>3, <1>4
<1> QED BY <1>4, <1>5, LongerHead

\* No step of the executor has the execute thread hold the mutex.
LEMMA RosTakes ==
    ASSUME RosStep, ~HandleAccepted
    PROVE  modeMutex' \in {modeMutex, "ros", "free"}
<1> USE DEF flight
<1>1. CASE SharedStep("ros")
  BY <1>1 DEF SharedStep, Read, WriteMode, Save, Restore, Lock, Ensure, StartTimer, Unlock,
     Cleanup, ResetTimer, SendCommand, LandIfBegun, Descend
<1>2. CASE Dispatch
  BY <1>2 DEF Dispatch
<1>3. CASE Position \/ Blind \/ Status \/ Store \/ \E fault \in BOOLEAN : Safety(fault)
  BY <1>3 DEF Position, NothingNew, TrajectoryCompletes, ReplanLanding, TouchDown, SettleEnds,
     PositionDone, Blind, Status, Store, Safety
<1> QED BY <1>1, <1>2, <1>3 DEF RosStep

\* Every step of a callback that is under way takes the first operation of its list.
LEMMA RosIsUnderWay ==
    ASSUME RosStep, ~HandleAccepted
    PROVE  todo["ros"] # <<>>
BY DEF RosStep, SharedStep, Read, WriteMode, Save, Restore, Lock, Ensure, StartTimer, Unlock,
   Cleanup, ResetTimer, SendCommand, LandIfBegun, Descend, Dispatch, Position, NothingNew,
   TrajectoryCompletes, ReplanLanding, TouchDown, SettleEnds, AtPosition, Blind, Status, Store,
   Safety, At

\* The steps that the execute thread may take while it holds the mutex.
LEMMA ExecHoldsOn ==
    ASSUME TypeOK, SessionInv, ExecHolds, ExecStep
    PROVE  ExecHolds'
<1> USE DEF flight
<1> DEFINE s == todo["exec"]
<1>t. s \in Seq(Op) /\ "exec" \in Threads
  BY DEF TypeOK, Threads
<1> SUFFICES ASSUME modeMutex' = "exec" PROVE ExecHolds'
  BY DEF ExecHolds
<1>1. CASE Lock("exec")
  BY <1>1, LockIsKept DEF ExecHolds
<1>2. CASE ~Lock("exec")
  <2>1. modeMutex = "exec"
    BY <1>2 DEF ExecStep, SharedStep, Read, WriteMode, Save, Restore, Ensure, StartTimer, Unlock,
       Cleanup, ResetTimer, SendCommand, LandIfBegun, Descend, AwaitArm, WriteActivate, Poll,
       Settled, WriteHold, ResolveCanceled, ThenLand, Idle, Finish
  <2>2. /\ s # <<>>
        /\ \/ Head(s).op \in {"ensure", "start"}
           \/ Head(s).op = "restore" /\ Len(s) > 1 /\ s[2].op = "start"
    BY <2>1 DEF ExecHolds
  <2>3. Ensure("exec") \/ StartTimer("exec") \/ Restore("exec")
    BY <1>2, <2>2 DEF ExecStep, SharedStep, Read, WriteMode, Save, Unlock, Cleanup, ResetTimer,
       SendCommand, LandIfBegun, Descend, AwaitArm, WriteActivate, Poll, Settled, WriteHold,
       ResolveCanceled, ThenLand, Idle, Finish, At
  <2>4. CASE Ensure("exec")
    <3>1. Continue("exec", Do("restore") \o Do("start"))
      BY <2>4 DEF Ensure
    <3>2. todo'["exec"] = (Do("restore") \o Do("start")) \o Tail(s)
      BY <1>t, <3>1, ContinuedLists
    <3> QED BY <1>t, <2>2, <3>2, EnsureGoesOn DEF ExecHolds
  <2>5. CASE StartTimer("exec")
    BY <2>5 DEF StartTimer
  <2>6. CASE Restore("exec")
    <3>1. Continue("exec", <<>>) /\ Head(s).op = "restore"
      BY <2>6 DEF Restore, Advance, At
    <3>2. todo'["exec"] = <<>> \o Tail(s)
      BY <1>t, <3>1, ContinuedLists
    <3>3. Len(s) > 1 /\ s[2].op = "start"
      BY <2>2, <3>1
    <3> QED BY <1>t, <3>2, <3>3, SecondIsNext DEF ExecHolds
  <2> QED BY <2>3, <2>4, <2>5, <2>6
<1> QED BY <1>1, <1>2

LEMMA HolderInit == Init => HolderInv
BY DEF Init, HolderInv, ExecHolds, JoinsIdle

LEMMA HolderRos ==
    ASSUME TypeOK, HolderInv, RosStep
    PROVE  HolderInv'
<1>1. CASE HandleAccepted
  <2>1. todo["exec"] = <<>> /\ ~joining' /\ modeMutex' = modeMutex
    BY <1>1 DEF HandleAccepted, flight
  <2> QED BY <2>1 DEF HolderInv, ExecHolds, JoinsIdle
<1>2. CASE ~HandleAccepted
  <2>1. todo'["exec"] = todo["exec"] /\ joining' = joining
    BY <1>2, RosElsewhere DEF Elsewhere, ToExecute
  <2>2. modeMutex' = "exec" => modeMutex = "exec"
    BY <1>2, RosTakes
  <2>3. ~joining
    BY <1>2, RosIsUnderWay DEF HolderInv, JoinsIdle
  <2> QED BY <2>1, <2>2, <2>3 DEF HolderInv, ExecHolds, JoinsIdle
<1> QED BY <1>1, <1>2

LEMMA HolderExec ==
    ASSUME TypeOK, SessionInv, HolderInv, ExecStep
    PROVE  HolderInv'
<1>1. ExecHolds'
  BY ExecHoldsOn DEF HolderInv
<1>2. joining' = joining
  BY DEF ExecStep, SharedStep, Read, WriteMode, Save, Restore, Lock, Ensure, StartTimer, Unlock,
     Cleanup, ResetTimer, SendCommand, LandIfBegun, Descend, AwaitArm, WriteActivate, Poll,
     Settled, WriteHold, ResolveCanceled, ThenLand, Idle, Finish, server
<1>3. PICK r : Continue("exec", r)
  BY DEF ExecStep, SharedStep, Read, WriteMode, Save, Restore, Lock, Ensure, StartTimer, Unlock,
     Cleanup, ResetTimer, SendCommand, LandIfBegun, Descend, AwaitArm, WriteActivate, Poll,
     Settled, WriteHold, ResolveCanceled, ThenLand, Idle, Finish, Advance
<1>4. todo'["ros"] = todo["ros"]
  BY <1>3, ContinuedLists DEF Threads
<1> QED BY <1>1, <1>2, <1>4 DEF HolderInv, JoinsIdle

LEMMA HolderNext == TypeOK /\ SessionInv /\ HolderInv /\ [Next]_vars => HolderInv'
<1> SUFFICES ASSUME TypeOK, SessionInv, HolderInv, [Next]_vars PROVE HolderInv'
  OBVIOUS
<1> USE DEF server, env, flight
<1>1. CASE ExecStep
  BY <1>1, HolderExec
<1>2. CASE RosStep
  BY <1>2, HolderRos
<1>3. CASE ControlLoop \/ SafetyCheckCallback \/ VehicleStatusCallback
  <2>1. PICK r : Call(r) /\ UNCHANGED <<modeMutex, joining>>
    BY <1>3 DEF ControlLoop, SafetyCheckCallback, VehicleStatusCallback
  <2>2. ~joining' /\ todo'["exec"] = todo["exec"]
    BY <2>1 DEF Call, ExecutorFree, TypeOK, Threads
  <2> QED BY <2>1, <2>2 DEF HolderInv, ExecHolds, JoinsIdle
<1>4. CASE \E c \in Commands : HandleUAVCommand(c)
  <2>1. todo["ros"] = <<>> /\ UNCHANGED <<todo, modeMutex>>
    BY <1>4 DEF HandleUAVCommand, ExecutorFree
  <2> QED BY <2>1 DEF HolderInv, ExecHolds, JoinsIdle
<1>5. CASE \/ \E g \in 1..MaxGoals : HandleCancel(g)
           \/ Px4Act \/ Px4Changes \/ PositionChanges \/ ClockTick
           \/ UNCHANGED vars
  <2>1. UNCHANGED <<todo, modeMutex, joining>>
    BY <1>5 DEF HandleCancel, Px4Act, Px4Changes, PositionChanges, ClockTick, vars
  <2> QED BY <2>1 DEF HolderInv, ExecHolds, JoinsIdle
<1> QED BY <1>1, <1>2, <1>3, <1>4, <1>5 DEF Next

LEMMA HoldersRun == TypeOK /\ SessionInv /\ HolderInv => HolderRuns
<1> SUFFICES ASSUME TypeOK, SessionInv, HolderInv PROVE HolderRuns
  OBVIOUS
<1>1. ASSUME modeMutex = "exec"
      PROVE  todo["exec"] # <<>> /\ Head(todo["exec"]).op \in {"ensure", "restore", "start"}
  BY <1>1 DEF HolderInv, ExecHolds
<1>2. ASSUME modeMutex = "ros"
      PROVE  /\ todo["ros"] # <<>> /\ Head(todo["ros"]).op \notin {"lock", "dispatch"}
             /\ ~joining
  <2>1. PICK k \in 0..Len(todo["ros"]) : Stretch(todo["ros"], k) /\ k > 0
    BY <1>2 DEF SessionInv, Session, Threads
  <2>2. todo["ros"] \in Seq(Op) /\ todo["ros"] # <<>>
    BY <2>1, EmptySeq DEF TypeOK, Threads
  <2>3. Head(todo["ros"]).op \notin Taking
    BY <2>1, <2>2, HeadTells
  <2> QED BY <2>2, <2>3 DEF Taking, HolderInv, JoinsIdle
<1> QED BY <1>1, <1>2 DEF HolderRuns

\* ensureControlLoopRunning and controlLoop take current_control_mode_mutex_ for a
\* scope (main.cpp 1315, 1259): neither thread waits for anything before it gives the
\* mutex up, so that a thread at the mutex waits for one that runs.
THEOREM MutexIsGivenUp == Spec => []HolderRuns
<1>1. Init => HolderInv /\ SessionInv
  BY HolderInit, SessionInit
<1>2. TypeOK /\ SessionInv /\ HolderInv /\ [Next]_vars => SessionInv' /\ HolderInv'
  BY HolderNext, SessionNext
<1>3. TypeOK /\ SessionInv /\ HolderInv => HolderRuns
  BY HoldersRun
<1>4. Spec => []TypeOK
  BY TypeCorrect
<1> QED BY <1>1, <1>2, <1>3, <1>4, PTL DEF Spec

\* handleAccepted joins the execute thread on the executor's thread (main.cpp 1749):
\* the thread it waits for does not wait for the mode mutex in turn.
JoinedGetsMutex == joining /\ At("exec", "lock") => modeMutex = "free"

THEOREM JoinIsNotDeadlocked == Spec => []JoinedGetsMutex
<1>1. TypeOK /\ HolderRuns => JoinedGetsMutex
  BY DEF TypeOK, HolderRuns, JoinedGetsMutex, At, Threads
<1> QED BY <1>1, MutexIsGivenUp, TypeCorrect, PTL

-----------------------------------------------------------------------------
(***************************************************************************)
(* Every goal without an answer is served.                                 *)
(***************************************************************************)
Served == INSTANCE ActionServerProofs WITH status <- Reported, worker <- Running

\* A goal without an answer is executed by the thread, or waits in the join for it.
OpenGoalsServed ==
    \A g \in DOMAIN goals :
        Active(g) => \/ (g = Running /\ todo["exec"] # <<>>)
                     \/ (joining /\ g = Len(goals))

\* What follows from the promise: goals before the one in work have their answers.
LEMMA EarlierAnswered == Spec => []Served!OneAtATime
<1>1. Promise!Init => Served!Init
  BY DEF Promise!Init, Served!Init, Reported
<1>2. [Promise!Next]_(Promise!vars) => [Served!Next]_(Served!vars)
  <2>1. ASSUME NEW g PROVE Promise!Cancel(g) => Served!Cancel(g)
    BY DEF Promise!Cancel, Served!Cancel, Promise!Listening, Served!Listening, Reported
  <2>2. Promise!Next => Served!Next
    BY <2>1 DEF Promise!Next, Served!Next, Promise!Accept, Served!Accept, Promise!Start,
       Served!Start, Promise!Resolve, Served!Resolve, Promise!Listening, Served!Listening,
       Promise!Resolved, Served!Resolved, Reported
  <2> QED BY <2>2 DEF Promise!vars, Served!vars, Reported
<1> QED BY <1>1, <1>2, KeepsPromise, Served!Serialised, PTL
        DEF ActionServerSpec, Promise!Spec, Served!Spec

\* Under the action server's one thread no goal is forgotten: a goal without an answer
\* is the one execute works on, or the one whose handleAccepted joins that thread
\* (main.cpp 1746), so that a client that waits for a result waits for a step.
THEOREM NoGoalIsForgotten == Spec => []OpenGoalsServed
<1>1. IInv /\ Served!OneAtATime => OpenGoalsServed
  <2> SUFFICES ASSUME IInv, Served!OneAtATime, NEW g \in DOMAIN goals, Active(g)
               PROVE  (g = Running /\ todo["exec"] # <<>>) \/ (joining /\ g = Len(goals))
    BY DEF OpenGoalsServed
  <2>1. /\ Len(goals) \in Nat /\ g \in 1..Len(goals)
        /\ Running = Len(goals) \/ (joining /\ Running = Len(goals) - 1)
    BY LenProperties DEF IInv, TypeOK, Running
  <2>2. ~(g < Running)
    <3>1. ASSUME g < Running PROVE g \in 1..Running - 1
      BY <2>1, <3>1
    <3>2. ~Served!Resolved(g)
      BY DEF Served!Resolved, Reported, Active
    <3> QED BY <3>1, <3>2 DEF Served!OneAtATime
  <2>3. CASE g = Running
    BY <2>1, <2>3 DEF IInv, GoalsOK, ToExecute
  <2>4. CASE g > Running
    BY <2>1, <2>4
  <2> QED BY <2>1, <2>2, <2>3, <2>4
<1> QED BY <1>1, EarlierAnswered, GoalsInvariant, PTL
=============================================================================
