------------------------- MODULE CommandPathProofs -------------------------
(***************************************************************************)
(* A command is answered at most once and with its own fate, for any       *)
(* number of commands, any losses and any order in which goals end, their  *)
(* callbacks run and messages pass each other.                             *)
(*                                                                         *)
(* A request is at one place at a time: on its way up, a goal without a    *)
(* response, or behind one goal of the autopilot.  Leaving the first two   *)
(* answers it or makes it a goal; the one callback of a goal's result      *)
(* answers it then, after the last change of the goal's status.            *)
(***************************************************************************)
EXTENDS CommandPath, SequenceTheorems, TLAPS

Types == Known \cup Unknown \cup Video
Requests == 1..Len(given)
GoalsIn == 1..Len(goals)
Answer == {"accepted", "denied", "temporarily rejected", "cancelled", "failed"}

CommandTypeOK ==
    /\ given \in Seq(Types) /\ Len(given) <= MaxGiven
    /\ goals \in Seq(Server!Status) /\ worker \in Nat
    /\ goalOf \in Seq(Requests) /\ Len(goalOf) = Len(goals)
    /\ uplink \subseteq Requests /\ sentGoals \subseteq Requests
    /\ told \subseteq GoalsIn
    /\ acks \in [1..MaxGiven -> Seq(Answer)]

\* Only commands with a MAVLink command of their own become goals.
GoalsKnown ==
    /\ \A r \in sentGoals : given[r] \in Known
    /\ \A g \in GoalsIn : given[goalOf[g]] \in Known

OnePlace ==
    /\ uplink \cap sentGoals = {}
    /\ \A g \in GoalsIn : goalOf[g] \notin uplink \cup sentGoals
    /\ \A g, h \in GoalsIn : goalOf[g] = goalOf[h] => g = h

\* Nothing is answered before its time.
Unanswered ==
    /\ \A r \in uplink \cup sentGoals : acks[r] = <<>>
    /\ \A g \in GoalsIn : g \notin told => acks[goalOf[g]] = <<>>
    /\ \A r \in 1..MaxGiven : r \notin Requests => acks[r] = <<>>

\* What is answered agrees with the goal that it became, or with its not being one.
Fate ==
    /\ \A g \in told :
         \/ goals[g] = "canceled" /\ acks[goalOf[g]] = <<"cancelled">>
         \/ goals[g] = "succeeded" /\ acks[goalOf[g]] \in {<<"accepted">>, <<"failed">>}
    /\ \A r \in Requests :
         (given[r] \in Known /\ \A g \in GoalsIn : goalOf[g] # r)
           => acks[r] \in {<<>>, <<"denied">>, <<"temporarily rejected">>}

CommandInv == CommandTypeOK /\ GoalsKnown /\ OnePlace /\ Unanswered /\ Fate

\* The first answer to a request.
LEMMA FirstAck ==
    ASSUME CommandInv, NEW r \in Requests, acks[r] = <<>>, NEW x \in Answer, Ack(r, x)
    PROVE  /\ acks' \in [1..MaxGiven -> Seq(Answer)]
           /\ acks'[r] = <<x>>
           /\ \A q \in 1..MaxGiven : q # r => acks'[q] = acks[q]
<1>1. r \in 1..MaxGiven
  <2>1. Len(given) \in Nat /\ Len(given) <= MaxGiven /\ MaxGiven \in Nat
    BY TypesAssumption, LenProperties DEF CommandInv, CommandTypeOK
  <2> QED BY <2>1 DEF Requests
<1>2. acks' = [acks EXCEPT ![r] = Append(<<>>, x)]
  BY DEF Ack
<1>3. Append(<<>>, x) = <<x>> /\ <<x>> \in Seq(Answer)
  OBVIOUS
<1>4. acks \in [1..MaxGiven -> Seq(Answer)]
  BY DEF CommandInv, CommandTypeOK
<1> QED BY <1>1, <1>2, <1>3, <1>4

\* A new request is nowhere yet and has no answer.
LEMMA NewRequest ==
    ASSUME CommandInv, Len(given) < MaxGiven, NEW type \in Types,
           given' = Append(given, type),
           uplink' \subseteq uplink \cup {Len(given')},
           UNCHANGED <<goals, worker, goalOf, sentGoals, told, acks>>
    PROVE  CommandInv'
<1> USE DEF CommandInv, CommandTypeOK, Requests, GoalsIn
<1>1. Len(given) \in Nat /\ MaxGiven \in Nat
  BY TypesAssumption, LenProperties
<1>2. /\ given' \in Seq(Types) /\ Len(given') = Len(given) + 1
      /\ \A r \in Requests : given'[r] = given[r]
  BY <1>1, AppendProperties
<1>3. Requests \subseteq Requests' /\ Len(given') \notin Requests /\ Len(given') \in 1..MaxGiven
  BY <1>1, <1>2
<1>4. ASSUME NEW g \in GoalsIn PROVE goalOf[g] \in Requests
  BY ElementOfSeq
<1>5. CommandTypeOK'
  <2>1. goalOf \in Seq(Requests')
    <3>1. goalOf \in [1..Len(goalOf) -> Requests]
      BY LenProperties
    <3> QED BY <1>3, <3>1, SeqDef
  <2>2. given' \in Seq(Types) /\ Len(given') <= MaxGiven
    BY <1>1, <1>2
  <2>3. goals' \in Seq(Server!Status) /\ worker' \in Nat
    OBVIOUS
  <2>4. goalOf' \in Seq(Requests') /\ Len(goalOf') = Len(goals')
    BY <2>1
  <2>5. uplink' \subseteq Requests' /\ sentGoals' \subseteq Requests'
    <3>1. Len(given') \in Requests'
      BY <1>1, <1>2
    <3>2. uplink \subseteq Requests' /\ sentGoals \subseteq Requests'
      BY <1>3
    <3> QED BY <3>1, <3>2
  <2>6. told' \subseteq GoalsIn' /\ acks' \in [1..MaxGiven -> Seq(Answer)]
    OBVIOUS
  <2> QED BY <2>2, <2>3, <2>4, <2>5, <2>6
<1>6. GoalsKnown'
  BY <1>2, <1>4 DEF GoalsKnown
<1>7. OnePlace'
  BY <1>3, <1>4 DEF OnePlace
<1>8. Unanswered'
  BY <1>3 DEF Unanswered
<1>9. Fate'
  <2>1. ASSUME NEW r \in Requests', given'[r] \in Known,
               \A g \in GoalsIn : goalOf[g] # r
        PROVE  acks[r] \in {<<>>, <<"denied">>, <<"temporarily rejected">>}
    <3>1. CASE r \in Requests
      BY <1>2, <2>1, <3>1 DEF Fate
    <3>2. CASE r \notin Requests
      <4>1. r \in 1..MaxGiven
        BY <1>1, <1>2, <1>3
      <4> QED BY <3>2, <4>1 DEF Unanswered
    <3> QED BY <3>1, <3>2
  <2> QED BY <2>1 DEF Fate
<1> QED BY <1>5, <1>6, <1>7, <1>8, <1>9

\* What leaves the request that is answered has to be at no other place.
LEMMA ForwardKept ==
    ASSUME CommandInv, NEW r \in uplink, ForwardCommand(r)
    PROVE  CommandInv'
<1> USE DEF CommandInv, CommandTypeOK, Requests, GoalsIn
<1>1. /\ r \in Requests /\ acks[r] = <<>> /\ r \notin sentGoals
      /\ \A g \in GoalsIn : goalOf[g] # r
      /\ uplink' = uplink \ {r} /\ UNCHANGED <<given, goals, worker, goalOf, told>>
  <2>1. /\ r \in Requests /\ acks[r] = <<>> /\ r \notin sentGoals
        /\ \A g \in GoalsIn : goalOf[g] # r
    BY DEF OnePlace, Unanswered
  <2>2. uplink' = uplink \ {r} /\ UNCHANGED <<given, goals, worker, goalOf, told>>
    BY DEF ForwardCommand, groundVars, serverVars
  <2> QED BY <2>1, <2>2
<1>2. ASSUME NEW g \in GoalsIn PROVE goalOf[g] \in Requests /\ goalOf[g] # r
  BY <1>1, ElementOfSeq
<1>3. Requests \subseteq 1..MaxGiven
  <2>1. Len(given) \in Nat /\ MaxGiven \in Nat
    BY TypesAssumption, LenProperties
  <2> QED BY <2>1
<1>4. ASSUME NEW x \in {"accepted", "temporarily rejected"}, Ack(r, x),
             given[r] \in Known => x = "temporarily rejected", UNCHANGED sentGoals
      PROVE  CommandInv'
  <2>1. /\ acks' \in [1..MaxGiven -> Seq(Answer)] /\ acks'[r] = <<x>>
        /\ \A q \in 1..MaxGiven : q # r => acks'[q] = acks[q]
    BY <1>1, <1>4, FirstAck DEF Answer
  <2>2. CommandTypeOK' /\ GoalsKnown' /\ OnePlace'
    <3>1. CommandTypeOK'
      BY <1>1, <1>4, <2>1
    <3> QED BY <1>1, <1>4, <3>1 DEF GoalsKnown, OnePlace
  <2>3. Unanswered'
    BY <1>1, <1>2, <1>3, <1>4, <2>1 DEF Unanswered
  <2>4. Fate'
    BY <1>1, <1>2, <1>3, <1>4, <2>1 DEF Fate
  <2> QED BY <2>2, <2>3, <2>4
<1>5. ASSUME given[r] \in Known, sentGoals' = sentGoals \cup {r}, UNCHANGED acks
      PROVE  CommandInv'
  <2>1. CommandTypeOK'
    BY <1>1, <1>5
  <2>2. GoalsKnown' /\ OnePlace'
    BY <1>1, <1>5 DEF GoalsKnown, OnePlace
  <2>3. Unanswered' /\ Fate'
    BY <1>1, <1>5 DEF Unanswered, Fate
  <2> QED BY <2>1, <2>2, <2>3
<1>6. CASE given[r] \in Video /\ Ack(r, "accepted") /\ UNCHANGED sentGoals
  <2>1. given[r] \notin Known
    BY <1>6, TypesAssumption
  <2> QED BY <1>4, <1>6, <2>1
<1>7. CASE Ack(r, "temporarily rejected") /\ UNCHANGED sentGoals
  BY <1>4, <1>7
<1> QED BY <1>5, <1>6, <1>7 DEF ForwardCommand

LEMMA AcceptedKept ==
    ASSUME CommandInv, NEW r \in sentGoals, GoalAccepted(r)
    PROVE  CommandInv'
<1> USE DEF CommandInv, CommandTypeOK, Requests, GoalsIn
<1> DEFINE n == Len(goals) + 1
<1>1. /\ r \in Requests /\ acks[r] = <<>> /\ r \notin uplink /\ given[r] \in Known
      /\ \A g \in GoalsIn : goalOf[g] # r
      /\ sentGoals' = sentGoals \ {r}
      /\ UNCHANGED <<given, worker, uplink, told, acks>>
  BY DEF GoalAccepted, OnePlace, Unanswered, GoalsKnown, groundVars, Server!Accept
<1>2. /\ goals' = Append(goals, "executing") /\ goalOf' = Append(goalOf, r)
      /\ "executing" \in Server!Status
  BY DEF GoalAccepted, Server!Accept, Server!Status
<1>3. /\ Len(goals) \in Nat
      /\ goals' \in Seq(Server!Status) /\ Len(goals') = n
      /\ \A g \in GoalsIn : goals'[g] = goals[g]
  BY <1>2, AppendProperties, LenProperties
<1>4. /\ goalOf' \in Seq(Requests) /\ Len(goalOf') = n
      /\ \A g \in GoalsIn : goalOf'[g] = goalOf[g]
      /\ goalOf'[n] = r
  BY <1>1, <1>2, AppendProperties
<1>5. GoalsIn' = GoalsIn \cup {n} /\ n \notin GoalsIn
  BY <1>3
<1> HIDE DEF n, GoalsIn, Requests
<1>6. CommandTypeOK'
  BY <1>1, <1>3, <1>4, <1>5 DEF Requests
<1>7. GoalsKnown' /\ OnePlace'
  <2>1. GoalsKnown'
    BY <1>1, <1>4, <1>5 DEF GoalsKnown
  <2>2. uplink' \cap sentGoals' = {}
    BY <1>1 DEF OnePlace
  <2>3. \A g \in GoalsIn' : goalOf'[g] \notin uplink' \cup sentGoals'
    BY <1>1, <1>4, <1>5 DEF OnePlace
  <2>4. \A g, h \in GoalsIn' : goalOf'[g] = goalOf'[h] => g = h
    BY <1>1, <1>4, <1>5 DEF OnePlace
  <2> QED BY <2>1, <2>2, <2>3, <2>4 DEF OnePlace
<1>8. Unanswered'
  BY <1>1, <1>4, <1>5 DEF Unanswered, Requests
<1>9. Fate'
  <2>1. \A g \in told : goals'[g] = goals[g] /\ goalOf'[g] = goalOf[g]
    BY <1>3, <1>4
  <2>2. ASSUME NEW q, \A g \in GoalsIn' : goalOf'[g] # q
        PROVE  \A g \in GoalsIn : goalOf[g] # q
    BY <1>4, <1>5, <2>2
  <2> QED BY <1>1, <2>1, <2>2 DEF Fate, Requests
<1> QED BY <1>6, <1>7, <1>8, <1>9

LEMMA RejectedKept ==
    ASSUME CommandInv, NEW r \in sentGoals, GoalRejected(r)
    PROVE  CommandInv'
<1> USE DEF CommandInv, CommandTypeOK, Requests, GoalsIn
<1>1. /\ r \in Requests /\ acks[r] = <<>> /\ r \notin uplink
      /\ \A g \in GoalsIn : goalOf[g] # r
      /\ sentGoals' = sentGoals \ {r} /\ Ack(r, "denied")
      /\ UNCHANGED <<given, goals, worker, goalOf, uplink, told>>
  BY DEF GoalRejected, OnePlace, Unanswered, groundVars, serverVars
<1>2. ASSUME NEW g \in GoalsIn PROVE goalOf[g] \in Requests /\ goalOf[g] # r
  BY <1>1, ElementOfSeq
<1>3. Requests \subseteq 1..MaxGiven
  <2>1. Len(given) \in Nat /\ MaxGiven \in Nat
    BY TypesAssumption, LenProperties
  <2> QED BY <2>1
<1>4. /\ acks' \in [1..MaxGiven -> Seq(Answer)] /\ acks'[r] = <<"denied">>
      /\ \A q \in 1..MaxGiven : q # r => acks'[q] = acks[q]
  BY <1>1, FirstAck DEF Answer
<1>5. CommandTypeOK' /\ GoalsKnown' /\ OnePlace'
  BY <1>1, <1>4 DEF GoalsKnown, OnePlace
<1>6. Unanswered'
  BY <1>1, <1>2, <1>3, <1>4 DEF Unanswered
<1>7. Fate'
  BY <1>1, <1>2, <1>3, <1>4 DEF Fate
<1> QED BY <1>5, <1>6, <1>7

\* The server changes no goal whose result callback has run.
LEMMA WorksKept ==
    ASSUME CommandInv, ServerWorks
    PROVE  CommandInv'
<1> USE DEF CommandInv, CommandTypeOK, GoalsIn
<1>1. UNCHANGED <<given, uplink, sentGoals, goalOf, told, acks>>
  BY DEF ServerWorks, groundVars, vehicleVars
<1> DEFINE Final ==
      /\ goals' \in Seq(Server!Status) /\ Len(goals') = Len(goals) /\ worker' \in Nat
      /\ \A g \in GoalsIn : goals[g] \in {"canceled", "succeeded"} => goals'[g] = goals[g]
<1>2. Final
  <2>1. CASE Server!Start
    BY <2>1 DEF Server!Start
  <2>2. ASSUME NEW g \in GoalsIn, NEW s \in Server!Status,
               goals[g] \notin {"canceled", "succeeded"},
               goals' = [goals EXCEPT ![g] = s], worker' = worker
        PROVE  Final
    BY <2>2, ExceptSeq
  <2>3. CASE Server!Resolve
    <3>1. PICK s \in {"succeeded", "canceled"} : goals' = [goals EXCEPT ![worker] = s]
      BY <2>3 DEF Server!Resolve
    <3>2. worker' = worker /\ goals[worker] \notin {"canceled", "succeeded"}
      BY <2>3 DEF Server!Resolve, Server!Resolved
    <3>3. CASE worker \in GoalsIn
      BY <2>2, <3>1, <3>2, <3>3 DEF Server!Status
    <3>4. CASE worker \notin GoalsIn
      <4>1. DOMAIN goals = GoalsIn
        BY LenProperties
      <4>2. goals' = goals
        BY <3>1, <3>4, <4>1
      <4> QED BY <3>2, <4>2
    <3> QED BY <3>3, <3>4
  <2>4. ASSUME NEW g \in DOMAIN goals, Server!Cancel(g) PROVE Final
    <3>1. g \in GoalsIn
      BY LenProperties
    <3> QED BY <2>2, <2>4, <3>1 DEF Server!Cancel, Server!Status
  <2> QED BY <2>1, <2>3, <2>4 DEF ServerWorks
<1>3. CommandTypeOK' /\ GoalsKnown' /\ OnePlace' /\ Unanswered'
  BY <1>1, <1>2 DEF GoalsKnown, OnePlace, Unanswered, Requests
<1>4. Fate'
  BY <1>1, <1>2 DEF Fate, Requests
<1> QED BY <1>3, <1>4

LEMMA ResultKept ==
    ASSUME CommandInv, NEW g \in DOMAIN goals, Result(g)
    PROVE  CommandInv'
<1> USE DEF CommandInv, CommandTypeOK, Requests, GoalsIn
<1> DEFINE r == goalOf[g]
<1>1. g \in GoalsIn /\ r \in Requests
  <2>1. g \in GoalsIn
    BY LenProperties
  <2> QED BY <2>1, ElementOfSeq
<1>2. /\ acks[r] = <<>> /\ r \notin uplink /\ r \notin sentGoals
      /\ \A h \in GoalsIn : goalOf[h] = r => h = g
  <2>1. g \notin told
    BY DEF Result
  <2> QED BY <1>1, <2>1 DEF OnePlace, Unanswered
<1>3. /\ told' = told \cup {g}
      /\ UNCHANGED <<given, goals, worker, goalOf, uplink, sentGoals>>
  BY DEF Result, groundVars, serverVars
<1>4. PICK x \in ResultOf(g) : Ack(r, x)
  BY DEF Result
<1>5. \/ goals[g] = "canceled" /\ x = "cancelled"
      \/ goals[g] = "succeeded" /\ x \in {"accepted", "failed"}
  <2>1. goals[g] \in {"succeeded", "canceled"}
    BY DEF Result, Server!Resolved
  <2> QED BY <1>4, <2>1 DEF ResultOf
<1>6. /\ acks' \in [1..MaxGiven -> Seq(Answer)] /\ acks'[r] = <<x>>
      /\ \A q \in 1..MaxGiven : q # r => acks'[q] = acks[q]
  <2>1. x \in Answer
    BY <1>5 DEF Answer
  <2> HIDE DEF r
  <2> QED BY <1>1, <1>2, <1>4, <2>1, FirstAck
<1>7. Requests \subseteq 1..MaxGiven
  <2>1. Len(given) \in Nat /\ MaxGiven \in Nat
    BY TypesAssumption, LenProperties
  <2> QED BY <2>1
<1>8. ASSUME NEW h \in GoalsIn, h # g
      PROVE  /\ goalOf[h] \in 1..MaxGiven /\ goalOf[h] # r
             /\ acks'[goalOf[h]] = acks[goalOf[h]]
  <2>1. goalOf[h] \in Requests
    BY ElementOfSeq
  <2> QED BY <1>2, <1>6, <1>7, <1>8, <2>1
<1> HIDE DEF r
<1>9. CommandTypeOK'
  BY <1>1, <1>3, <1>6
<1>10. GoalsKnown' /\ OnePlace'
  BY <1>3 DEF GoalsKnown, OnePlace
<1>11. Unanswered'
  <2>1. \A q \in uplink \cup sentGoals : acks'[q] = <<>>
    BY <1>2, <1>6, <1>7 DEF Unanswered
  <2>2. \A h \in GoalsIn : h \notin told' => acks'[goalOf[h]] = <<>>
    BY <1>3, <1>8 DEF Unanswered
  <2>3. \A q \in 1..MaxGiven : q \notin Requests => acks'[q] = <<>>
    BY <1>1, <1>6 DEF Unanswered
  <2> QED BY <1>3, <2>1, <2>2, <2>3 DEF Unanswered
<1>12. Fate'
  <2>1. ASSUME NEW h \in told'
        PROVE  \/ goals[h] = "canceled" /\ acks'[goalOf[h]] = <<"cancelled">>
               \/ goals[h] = "succeeded" /\ acks'[goalOf[h]] \in {<<"accepted">>, <<"failed">>}
    <3>1. CASE h = g
      BY <1>5, <1>6, <3>1 DEF r
    <3>2. CASE h # g
      BY <1>3, <1>8, <3>2 DEF Fate
    <3> QED BY <3>1, <3>2
  <2>2. \A q \in Requests : (\A h \in GoalsIn : goalOf[h] # q) => acks'[q] = acks[q]
    BY <1>1, <1>6, <1>7 DEF r
  <2> QED BY <1>3, <2>1, <2>2 DEF Fate
<1> QED BY <1>9, <1>10, <1>11, <1>12

LEMMA CommandInductive == ASSUME CommandInv, [CommandNext]_commandVars PROVE CommandInv'
<1>1. ASSUME NEW type \in Known \cup Unknown, OnUavCommand(type) PROVE CommandInv'
  <2>1. /\ Len(given) < MaxGiven /\ given' = Append(given, type)
        /\ uplink' \subseteq uplink \cup {Len(given')}
        /\ UNCHANGED <<goals, worker, goalOf, sentGoals, told, acks>>
    BY <1>1 DEF OnUavCommand, Leaves, vehicleVars, serverVars
  <2> QED BY <2>1, NewRequest DEF Types
<1>2. ASSUME NEW type \in Video, OnCameraRequest(type) PROVE CommandInv'
  <2>1. /\ Len(given) < MaxGiven /\ given' = Append(given, type)
        /\ uplink' \subseteq uplink \cup {Len(given')}
        /\ UNCHANGED <<goals, worker, goalOf, sentGoals, told, acks>>
    BY <1>2 DEF OnCameraRequest, Leaves, vehicleVars, serverVars
  <2> QED BY <2>1, NewRequest DEF Types
<1>3. CASE TimePasses \/ (\E ack \in downlink : CommandAck(ack)) \/ UNCHANGED commandVars
  <2>1. UNCHANGED <<given, uplink, goals, worker, goalOf, sentGoals, told, acks>>
    BY <1>3 DEF TimePasses, CommandAck, commandVars, groundVars, vehicleVars, serverVars
  <2> QED BY <2>1 DEF CommandInv, CommandTypeOK, GoalsKnown, OnePlace, Unanswered, Fate,
                      Requests, GoalsIn
<1> QED BY <1>1, <1>2, <1>3, ForwardKept, AcceptedKept, RejectedKept, WorksKept, ResultKept
        DEF CommandNext

LEMMA CommandInitially == CommandInit => CommandInv
<1> SUFFICES ASSUME CommandInit PROVE CommandInv
  OBVIOUS
<1>1. /\ given = <<>> /\ goals = <<>> /\ goalOf = <<>> /\ worker = 0
      /\ uplink = {} /\ sentGoals = {} /\ told = {}
      /\ acks = [r \in 1..MaxGiven |-> <<>>]
  BY DEF CommandInit, Server!Init
<1>2. /\ given \in Seq(Types) /\ goals \in Seq(Server!Status) /\ goalOf \in Seq(Requests)
      /\ \A r \in 1..MaxGiven : acks[r] \in Seq(Answer)
      /\ Len(given) = 0 /\ Len(goals) = 0 /\ Len(goalOf) = 0
  BY <1>1, EmptySeq
<1>3. Requests = {} /\ GoalsIn = {}
  BY <1>2 DEF Requests, GoalsIn
<1>4. CommandTypeOK
  BY <1>1, <1>2, <1>3, TypesAssumption DEF CommandTypeOK
<1> QED BY <1>1, <1>3, <1>4 DEF CommandInv, GoalsKnown, OnePlace, Unanswered, Fate

LEMMA CommandInvariant == CommandSpec => []CommandInv
BY CommandInitially, CommandInductive, PTL DEF CommandSpec

\* A command is answered at most once and its answer is its fate: what was denied is
\* never flown, what was accepted was completed, what is called cancelled was
\* canceled (CommsUav::forward_command and its callbacks).
THEOREM AnswersTellFate == CommandSpec => []AckTellsFate
<1>1. ASSUME CommandInv PROVE AckTellsFate
  <2> USE <1>1 DEF CommandInv, CommandTypeOK
  <2>1. DOMAIN given = Requests /\ DOMAIN goals = GoalsIn
    BY LenProperties DEF Requests, GoalsIn
  <2>2. Len(<<>>) = 0 /\ DOMAIN <<>> = {}
    OBVIOUS
  <2> DEFINE Told(r) ==
        /\ Len(acks[r]) <= 1
        /\ \A k \in DOMAIN acks[r] :
             /\ acks[r][k] \in {"denied", "temporarily rejected"} => Flies(r) = {}
             /\ acks[r][k] = "cancelled" => \E g \in Flies(r) : goals[g] = "canceled"
             /\ acks[r][k] \in {"accepted", "failed"} =>
                  \E g \in Flies(r) : goals[g] = "succeeded"
  <2>3. ASSUME NEW r, NEW x, acks[r] = <<x>>
        PROVE  Len(acks[r]) <= 1 /\ \A k \in DOMAIN acks[r] : acks[r][k] = x
    BY <2>3
  <2>4. ASSUME NEW r \in Requests, given[r] \in Known PROVE Told(r)
    <3>1. CASE acks[r] = <<>>
      BY <2>2, <3>1
    <3>2. CASE \E g \in GoalsIn : goalOf[g] = r /\ acks[r] # <<>>
      <4>1. PICK g \in GoalsIn : goalOf[g] = r /\ acks[r] # <<>>
        BY <3>2
      <4>2. g \in told /\ g \in Flies(r)
        BY <2>1, <4>1 DEF Unanswered, Flies
      <4>3. \/ goals[g] = "canceled" /\ acks[r] = <<"cancelled">>
            \/ goals[g] = "succeeded" /\ acks[r] \in {<<"accepted">>, <<"failed">>}
        BY <4>1, <4>2 DEF Fate
      <4>4. PICK x \in {"accepted", "failed", "cancelled"} :
               /\ acks[r] = <<x>>
               /\ x = "cancelled" => goals[g] = "canceled"
               /\ x # "cancelled" => goals[g] = "succeeded"
        BY <4>3
      <4>5. Len(acks[r]) <= 1 /\ \A k \in DOMAIN acks[r] : acks[r][k] = x
        BY <2>3, <4>4
      <4> QED BY <4>2, <4>4, <4>5
    <3>3. CASE \A g \in GoalsIn : goalOf[g] # r
      <4>1. acks[r] \in {<<>>, <<"denied">>, <<"temporarily rejected">>}
        BY <2>4, <3>3 DEF Fate
      <4>2. Flies(r) = {}
        BY <2>1, <3>3 DEF Flies
      <4>3. CASE acks[r] # <<>>
        <5>1. PICK x \in {"denied", "temporarily rejected"} : acks[r] = <<x>>
          BY <4>1, <4>3
        <5>2. Len(acks[r]) <= 1 /\ \A k \in DOMAIN acks[r] : acks[r][k] = x
          BY <2>3, <5>1
        <5> QED BY <4>2, <5>1, <5>2
      <4> QED BY <3>1, <4>3
    <3> QED BY <3>1, <3>2, <3>3
  <2> QED BY <2>1, <2>4 DEF AckTellsFate
<1> QED BY <1>1, CommandInvariant, PTL
=============================================================================
