---------------------------- MODULE SessionProofs ----------------------------
(***************************************************************************)
(* Theorems about InstanceLifecycle, for any requests, instances, images,  *)
(* subnets and attempts, and about ProviderSession, for any ports and      *)
(* number of processes.  The session implements InstanceLifecycle, so what *)
(* is proved of that holds of the session too.                             *)
(***************************************************************************)
EXTENDS ProviderSession, FiniteSetTheorems, TLAPS

-----------------------------------------------------------------------------
(* The type of an attempt's answer and locals is kept by whatever ends it.   *)
LEMMA AnswerTypes ==
  ASSUME TypeOK, NEW r \in Requests, NEW kind, NEW i, NEW code,
         kind \in {"started", "failure", "error"},
         i \in Instances \cup {NoInstance}, code \in Codes \cup {"none"},
         Answer(r, kind, i, code)
  PROVE  /\ pc' \in [Requests -> Steps \cup {"idle"}]
         /\ ami' \in [Requests -> Images \cup {"none"}]
         /\ subnet' \in [Requests -> Subnets \cup {"none"}]
         /\ answer' \in [Requests -> Answers]
<1>1. [kind |-> kind, inst |-> i, code |-> code] \in Answers
  BY DEF Answers
<1>2. pc' \in [Requests -> Steps \cup {"idle"}]
  BY DEF TypeOK, Answer, Goto
<1>3. ami' \in [Requests -> Images \cup {"none"}]
  BY DEF TypeOK, Answer
<1>4. subnet' \in [Requests -> Subnets \cup {"none"}]
  BY DEF TypeOK, Answer
<1>5. answer' \in [Requests -> Answers]
  BY <1>1 DEF TypeOK, Answer
<1> QED BY <1>2, <1>3, <1>4, <1>5

(* Every variable keeps its type.                                            *)
THEOREM InstanceTypes == Spec => []TypeOK
<1>1. Init => TypeOK
  <2> SUFFICES ASSUME Init PROVE TypeOK OBVIOUS
  <2>1. Unused \in Launches BY DEF Unused, Launches
  <2>2. NoAnswer \in Answers BY DEF NoAnswer, Answers
  <2> QED BY <2>1, <2>2, AttemptAssumption DEF Init, TypeOK
<1>2. TypeOK /\ [Next]_vars => TypeOK'
  <2> SUFFICES ASSUME TypeOK, [Next]_vars PROVE TypeOK' OBVIOUS
  <2>1. CASE ReleaseImage
    BY <2>1 DEF TypeOK, ReleaseImage
  <2>2. ASSUME NEW i \in Instances, Stop(i) PROVE TypeOK'
    <3>1. inst' \in [Instances -> Launches]
      BY <2>2 DEF TypeOK, Stop, Launches
    <3>2. destroyed' \subseteq Instances
      BY <2>2 DEF TypeOK, Stop
    <3> QED BY <3>1, <3>2, <2>2 DEF TypeOK, Stop
  <2>3. ASSUME NEW r \in Requests, Start(r) PROVE TypeOK'
    <3>1. attempts' \in [Requests -> 0..MaxAttempts]
      <4>1. attempts[r] + 1 \in 0..MaxAttempts
        BY <2>3, AttemptAssumption DEF TypeOK, Start
      <4> QED BY <4>1, <2>3 DEF TypeOK, Start
    <3>2. pc' \in [Requests -> Steps \cup {"idle"}]
      BY <2>3 DEF TypeOK, Start, Goto, Steps
    <3> QED BY <3>1, <3>2, <2>3 DEF TypeOK, Start
  <2>4. ASSUME NEW r \in Requests, Refuse(r) PROVE TypeOK'
    <3>1. PICK code \in {"AUTH_INVALID", "CONFIG_INVALID"} : Failed(r, code)
      BY <2>4 DEF Refuse
    <3>2. code \in Codes BY <3>1 DEF Codes
    <3> QED BY <3>1, <3>2, <2>4, AnswerTypes DEF TypeOK, Refuse, Failed
  <2>5. ASSUME NEW r \in Requests, ResolveAMI(r) PROVE TypeOK'
    BY <2>5 DEF TypeOK, ResolveAMI, Goto, Steps
  <2>6. ASSUME NEW r \in Requests, ResolveNetwork(r) PROVE TypeOK'
    BY <2>6 DEF TypeOK, ResolveNetwork, Goto, Steps
  <2>7. ASSUME NEW r \in Requests, ResolveFails(r) PROVE TypeOK'
    BY <2>7, AnswerTypes DEF TypeOK, ResolveFails
  <2>8. ASSUME NEW r \in Requests, Repeat(r) PROVE TypeOK'
    <3>1. PICK i \in Launched(r) : IF SameLaunch(r, i) /\ Running(i)
                                     THEN Answer(r, "started", i, "none")
                                     ELSE Failed(r, "PROVIDER_UNAVAILABLE")
      BY <2>8 DEF Repeat
    <3>2. i \in Instances BY DEF Launched, LaunchedBy
    <3>3. "PROVIDER_UNAVAILABLE" \in Codes BY DEF Codes
    <3>4. CASE SameLaunch(r, i) /\ Running(i)
      BY <3>1, <3>2, <3>4, <2>8, AnswerTypes DEF TypeOK, Repeat
    <3>5. CASE ~(SameLaunch(r, i) /\ Running(i))
      BY <3>1, <3>3, <3>5, <2>8, AnswerTypes DEF TypeOK, Repeat, Failed
    <3> QED BY <3>4, <3>5
  <2>9. ASSUME NEW r \in Requests, Launch(r) PROVE TypeOK'
    <3>1. PICK i \in Instances :
            /\ inst' = [inst EXCEPT ![i] =
                         [state |-> "running", by |-> r, ami |-> ami[r],
                          subnet |-> subnet[r]]]
            /\ Answer(r, "started", i, "none") \/ Failed(r, NoAnswerCode)
      BY <2>9 DEF Launch
    <3>2. inst' \in [Instances -> Launches]
      BY <3>1 DEF TypeOK, Launches
    <3>3. NoAnswerCode \in Codes BY DEF NoAnswerCode, Codes
    <3>4. CASE Answer(r, "started", i, "none")
      BY <3>2, <3>4, <2>9, AnswerTypes DEF TypeOK, Launch
    <3>5. CASE Failed(r, NoAnswerCode)
      BY <3>2, <3>3, <3>5, <2>9, AnswerTypes DEF TypeOK, Launch, Failed
    <3> QED BY <3>1, <3>4, <3>5
  <2>10. ASSUME NEW r \in Requests, RunFails(r) PROVE TypeOK'
    <3>1. PICK code \in Codes : Failed(r, code)
      BY <2>10 DEF RunFails
    <3> QED BY <3>1, <2>10, AnswerTypes DEF TypeOK, RunFails, Failed
  <2>11. ASSUME NEW r \in Requests, NotServed(r) PROVE TypeOK'
    <3>1. attempts[r] + 1 \in 0..MaxAttempts
      BY <2>11, AttemptAssumption DEF TypeOK, NotServed
    <3>2. CallFailed \in Answers
      BY DEF CallFailed, Answers
    <3> QED BY <3>1, <3>2, <2>11 DEF TypeOK, NotServed
  <2>12. ASSUME NEW R \in SUBSET Requests, Lose(R) PROVE TypeOK'
    <3>1. CallFailed \in Answers
      BY DEF CallFailed, Answers
    <3>2. \A r \in R : [by |-> r, attempt |-> attempts[r],
                        ami |-> ami[r], subnet |-> subnet[r]] \in Calls
      BY DEF TypeOK, Calls
    <3>3. calls' \subseteq Calls
      BY <2>12, <3>2 DEF TypeOK, Lose
    <3> QED BY <3>1, <3>3, <2>12 DEF TypeOK, Lose
  <2>13. ASSUME NEW c \in calls, Arrive(c) PROVE TypeOK'
    <3>1. c \in Calls
      BY DEF TypeOK
    <3>2. inst' \in [Instances -> Launches]
      BY <2>13, <3>1 DEF TypeOK, Arrive, Calls, Launches
    <3> QED BY <3>2, <2>13 DEF TypeOK, Arrive
  <2>14. CASE UNCHANGED vars
    BY <2>14 DEF TypeOK, vars
  <2> QED
    BY <2>1, <2>2, <2>3, <2>4, <2>5, <2>6, <2>7, <2>8, <2>9, <2>10, <2>11, <2>12,
       <2>13, <2>14
    DEF Next
<1> QED BY <1>1, <1>2, PTL DEF Spec

-----------------------------------------------------------------------------
(* Retries of a request with an id, however many and whatever was lost,      *)
(* launch one instance at most: clientTokenForRequestID gives all of them    *)
(* one token, although image and subnet may differ from one to the next.     *)
OneInstancePerRequest == \A r \in Named : \A i, k \in LaunchedBy(r) : i = k

(* EC2 takes no call of a request that has launched for anything but a       *)
(* repetition, be it that of an attempt nobody waits for.                    *)
LEMMA TokensLaunchOnce == Spec => []OneInstancePerRequest
<1>1. Init => OneInstancePerRequest
  BY RequestAssumption DEF Init, OneInstancePerRequest, LaunchedBy, Unused
<1>2. TypeOK /\ OneInstancePerRequest /\ [Next]_vars => OneInstancePerRequest'
  <2> SUFFICES ASSUME TypeOK, OneInstancePerRequest, [Next]_vars,
                      NEW r \in Named,
                      NEW i \in LaunchedBy(r)', NEW k \in LaunchedBy(r)'
               PROVE  i = k
    BY DEF OneInstancePerRequest
  <2>1. CASE UNCHANGED inst
    BY <2>1 DEF OneInstancePerRequest, LaunchedBy
  <2>2. ASSUME NEW j \in Instances, Stop(j) PROVE i = k
    <3>1. \A m \in Instances : inst'[m].by = inst[m].by
      BY <2>2 DEF Stop, TypeOK, Launches
    <3> QED BY <3>1 DEF OneInstancePerRequest, LaunchedBy
  <2>3. ASSUME NEW q \in Requests, Launch(q) PROVE i = k
    <3>1. PICK j \in Instances :
            inst' = [inst EXCEPT ![j] =
                      [state |-> "running", by |-> q, ami |-> ami[q],
                       subnet |-> subnet[q]]]
      BY <2>3 DEF Launch
    <3>2. \A m \in Instances : inst'[m].by = IF m = j THEN q ELSE inst[m].by
      BY <3>1 DEF TypeOK
    <3>3. CASE q = r
      <4>1. LaunchedBy(r) = {}
        BY <2>3, <3>3 DEF Launch, Launched
      <4>2. i = j /\ k = j
        BY <3>2, <4>1 DEF LaunchedBy
      <4> QED BY <4>2
    <3>4. CASE q # r
      BY <3>2, <3>4 DEF OneInstancePerRequest, LaunchedBy
    <3> QED BY <3>3, <3>4
  <2>4. ASSUME NEW c \in calls, Arrive(c), inst' # inst PROVE i = k
    <3>1. PICK j \in Instances :
            inst' = [inst EXCEPT ![j] =
                      [state |-> "running", by |-> c.by, ami |-> c.ami,
                       subnet |-> c.subnet]]
      BY <2>4 DEF Arrive
    <3>2. \A m \in Instances : inst'[m].by = IF m = j THEN c.by ELSE inst[m].by
      BY <3>1 DEF TypeOK
    <3>3. CASE c.by = r
      <4>1. LaunchedBy(r) = {}
        BY <2>4, <3>3 DEF Arrive, Launched
      <4>2. i = j /\ k = j
        BY <3>2, <4>1 DEF LaunchedBy
      <4> QED BY <4>2
    <3>4. CASE c.by # r
      BY <3>2, <3>4 DEF OneInstancePerRequest, LaunchedBy
    <3> QED BY <3>3, <3>4
  <2> QED
    BY <2>1, <2>2, <2>3, <2>4
    DEF Next, vars, ReleaseImage, Start, NotServed, Refuse, ResolveAMI, ResolveNetwork,
        ResolveFails, Repeat, RunFails, Lose
<1> QED BY <1>1, <1>2, InstanceTypes, PTL DEF Spec

(* With or without a token, each attempt launches an instance, has a call on *)
(* its way, is still at work, or does none of these any more.                *)
Sent(r) == {c \in calls : c.by = r}
Working(r) == IF pc[r] = "idle" THEN 0 ELSE 1
Counted(r) ==
  /\ IsFiniteSet(LaunchedBy(r)) /\ IsFiniteSet(Sent(r))
  /\ Cardinality(LaunchedBy(r)) + Cardinality(Sent(r)) + Working(r) <= attempts[r]

(* What has at most one element has at most that many.                       *)
LEMMA AtMostOne ==
  ASSUME NEW S, IsFiniteSet(S), \A x, y \in S : x = y
  PROVE  Cardinality(S) <= 1
<1>1. CASE S = {}
  BY <1>1, FS_EmptySet
<1>2. ASSUME NEW x \in S PROVE Cardinality(S) <= 1
  <2>1. S = {x}
    BY <1>2
  <2> QED BY <2>1, FS_Singleton
<1> QED BY <1>1, <1>2

(* An instance that is launched adds one to those of its request and none to *)
(* those of others.                                                          *)
LEMMA LaunchCounts ==
  ASSUME TypeOK, NEW r \in Requests, NEW q \in Requests, IsFiniteSet(LaunchedBy(r)),
         NEW j \in Instances, NEW launch,
         inst' = [inst EXCEPT ![j] = launch], launch.by = q, inst[j].by # q
  PROVE  /\ IsFiniteSet(LaunchedBy(r)')
         /\ Cardinality(LaunchedBy(r)') <= Cardinality(LaunchedBy(r)) + (IF r = q THEN 1 ELSE 0)
<1>1. \A i \in Instances : inst'[i].by = IF i = j THEN q ELSE inst[i].by
  BY DEF TypeOK
<1>2. CASE r = q
  <2>1. LaunchedBy(r)' = LaunchedBy(r) \cup {j}
    BY <1>1, <1>2 DEF LaunchedBy
  <2>2. j \notin LaunchedBy(r)
    BY <1>2 DEF LaunchedBy
  <2>3. /\ IsFiniteSet(LaunchedBy(r) \cup {j})
        /\ Cardinality(LaunchedBy(r) \cup {j}) = Cardinality(LaunchedBy(r)) + 1
    BY <2>2, FS_AddElement
  <2>4. Cardinality(LaunchedBy(r)) \in Nat
    BY FS_CardinalityType
  <2> QED BY <1>2, <2>1, <2>3, <2>4
<1>3. CASE r # q
  <2>1. LaunchedBy(r)' = LaunchedBy(r) \ {j}
    BY <1>1, <1>3 DEF LaunchedBy
  <2>2. /\ IsFiniteSet(LaunchedBy(r) \ {j})
        /\ Cardinality(LaunchedBy(r) \ {j}) <= Cardinality(LaunchedBy(r))
    BY FS_Subset
  <2>3. Cardinality(LaunchedBy(r)) \in Nat /\ Cardinality(LaunchedBy(r) \ {j}) \in Nat
    BY <2>2, FS_CardinalityType
  <2> QED BY <1>3, <2>1, <2>2, <2>3
<1> QED BY <1>2, <1>3

(* Every instance without a state was launched by nobody.                    *)
Blank == \A i \in Instances : inst[i].state = "none" => inst[i].by = "nobody"

(* What the count of the launches rests on.                                  *)
CountInv == Blank /\ \A r \in Requests : Counted(r)

(* A step of one attempt, or its end, counts once.                           *)
LEMMA CountKept ==
  ASSUME TypeOK, TypeOK', Blank, [Next]_vars, NEW r \in Requests, Counted(r)
  PROVE  Counted(r)'
<1> DEFINE L == Cardinality(LaunchedBy(r))
           C == Cardinality(Sent(r))
<1>0. /\ L \in Nat /\ C \in Nat /\ attempts[r] \in Nat /\ attempts'[r] \in Nat
      /\ L + C + Working(r) <= attempts[r]
      /\ IsFiniteSet(LaunchedBy(r)) /\ IsFiniteSet(Sent(r))
  BY FS_CardinalityType, AttemptAssumption DEF Counted, TypeOK
<1> HIDE DEF L, C
<1>1. ASSUME LaunchedBy(r)' = LaunchedBy(r), Sent(r)' = Sent(r),
             Working(r)' + attempts[r] <= Working(r) + attempts'[r]
      PROVE  Counted(r)'
  BY <1>0, <1>1 DEF Counted, L, C, Working
<1>2. ASSUME NEW q \in Requests, Start(q) \/ NotServed(q) PROVE Counted(r)'
  <2>1. LaunchedBy(r)' = LaunchedBy(r) /\ Sent(r)' = Sent(r)
    BY <1>2 DEF Start, NotServed, LaunchedBy, Sent
  <2>2. Working(r)' + attempts[r] <= Working(r) + attempts'[r]
    BY <1>0, <1>2 DEF Start, NotServed, Goto, Working, TypeOK
  <2> QED BY <1>1, <2>1, <2>2
<1>3. ASSUME NEW q \in Requests, pc[q] # "idle", UNCHANGED <<inst, calls, attempts>>,
             \A p \in Requests \ {q} : pc'[p] = pc[p]
      PROVE  Counted(r)'
  <2>1. LaunchedBy(r)' = LaunchedBy(r) /\ Sent(r)' = Sent(r)
    BY <1>3 DEF LaunchedBy, Sent
  <2>2. Working(r)' + attempts[r] <= Working(r) + attempts'[r]
    BY <1>0, <1>3 DEF Working
  <2> QED BY <1>1, <2>1, <2>2
<1>4. ASSUME NEW q \in Requests,
             \/ Refuse(q) \/ ResolveAMI(q) \/ ResolveNetwork(q) \/ ResolveFails(q)
             \/ Repeat(q) \/ RunFails(q)
      PROVE  Counted(r)'
  BY <1>3, <1>4 DEF Refuse, ResolveAMI, ResolveNetwork, ResolveFails, Repeat, RunFails,
                    Failed, Answer, Goto, TypeOK
<1>5. ASSUME NEW q \in Requests, Launch(q) PROVE Counted(r)'
  <2>1. PICK j \in Instances :
          /\ inst[j].state = "none"
          /\ inst' = [inst EXCEPT ![j] = [state |-> "running", by |-> q, ami |-> ami[q],
                                         subnet |-> subnet[q]]]
    BY <1>5 DEF Launch
  <2>2. inst[j].by # q
    BY <2>1, RequestAssumption DEF Blank
  <2>3. /\ IsFiniteSet(LaunchedBy(r)')
        /\ Cardinality(LaunchedBy(r)') <= L + (IF r = q THEN 1 ELSE 0)
    <3> DEFINE launch == [state |-> "running", by |-> q, ami |-> ami[q],
                          subnet |-> subnet[q]]
    <3>1. inst' = [inst EXCEPT ![j] = launch] /\ launch.by = q
      BY <2>1
    <3> HIDE DEF launch
    <3> QED BY <1>0, <2>2, <3>1, LaunchCounts DEF L
  <2>4. Sent(r)' = Sent(r) /\ attempts' = attempts
    BY <1>5 DEF Launch, Sent
  <2>5. Working(r)' = IF r = q THEN 0 ELSE Working(r)
    BY <1>5 DEF Launch, Failed, Answer, Goto, Working, TypeOK
  <2>6. r = q => Working(r) = 1
    BY <1>5 DEF Launch, Working
  <2>7. Cardinality(LaunchedBy(r)') \in Nat
    BY <2>3, FS_CardinalityType
  <2>8. Cardinality(LaunchedBy(r)') + C + Working(r)' <= attempts[r]
    BY <1>0, <2>3, <2>5, <2>6, <2>7 DEF Working
  <2> QED BY <1>0, <2>3, <2>4, <2>8 DEF Counted, C
<1>6. ASSUME NEW R \in SUBSET Requests, Lose(R) PROVE Counted(r)'
  <2>1. LaunchedBy(r)' = LaunchedBy(r) /\ attempts' = attempts
    BY <1>6 DEF Lose, LaunchedBy
  <2>2. CASE r \notin R
    <3>1. Sent(r)' = Sent(r)
      BY <1>6, <2>2 DEF Lose, Sent
    <3>2. pc'[r] = pc[r]
      BY <1>6, <2>2 DEF Lose
    <3> QED BY <1>0, <1>1, <2>1, <3>1, <3>2 DEF Working
  <2>3. CASE r \in R
    <3> DEFINE c == [by |-> r, attempt |-> attempts[r], ami |-> ami[r], subnet |-> subnet[r]]
    <3>1. pc[r] # "idle" /\ pc'[r] = "idle"
      BY <1>6, <2>3 DEF Lose
    <3>2. Sent(r)' = Sent(r) \/ Sent(r)' = Sent(r) \cup {c}
      BY <1>6 DEF Lose, Sent
    <3>3. /\ IsFiniteSet(Sent(r)') /\ Cardinality(Sent(r)') \in Nat
          /\ Cardinality(Sent(r)') <= C + 1
      <4>1. CASE Sent(r)' = Sent(r)
        BY <1>0, <4>1 DEF C
      <4>2. CASE Sent(r)' = Sent(r) \cup {c}
        <5> HIDE DEF c
        <5>1. /\ IsFiniteSet(Sent(r) \cup {c})
              /\ Cardinality(Sent(r) \cup {c}) = C \/ Cardinality(Sent(r) \cup {c}) = C + 1
          BY <1>0, FS_AddElement DEF C
        <5>2. Cardinality(Sent(r) \cup {c}) \in Nat
          BY <5>1, FS_CardinalityType
        <5> QED BY <1>0, <4>2, <5>1, <5>2
      <4> QED BY <3>2, <4>1, <4>2
    <3>4. L + Cardinality(Sent(r)') + 0 <= attempts[r]
      BY <1>0, <3>1, <3>3 DEF Working
    <3>5. Working(r)' = 0
      BY <3>1 DEF Working
    <3> QED BY <1>0, <2>1, <3>3, <3>4, <3>5 DEF Counted, L
  <2> QED BY <2>2, <2>3
<1>7. ASSUME NEW c \in calls, Arrive(c) PROVE Counted(r)'
  <2>1. c.by \in Requests
    BY DEF TypeOK, Calls
  <2>2. UNCHANGED <<pc, attempts>> /\ calls' = calls \ {c}
    BY <1>7 DEF Arrive
  <2>3. Sent(r)' = Sent(r) \ {c}
    BY <2>2 DEF Sent
  <2>4. /\ IsFiniteSet(Sent(r)') /\ Cardinality(Sent(r)') \in Nat
        /\ Cardinality(Sent(r)') = IF c.by = r THEN C - 1 ELSE C
    <3>1. c \in Sent(r) <=> c.by = r
      BY DEF Sent
    <3>2. /\ IsFiniteSet(Sent(r) \ {c})
          /\ Cardinality(Sent(r) \ {c}) = IF c \in Sent(r) THEN C - 1 ELSE C
      BY <1>0, FS_RemoveElement DEF C
    <3>3. Cardinality(Sent(r) \ {c}) \in Nat
      BY <3>2, FS_CardinalityType
    <3> QED BY <2>3, <3>1, <3>2, <3>3
  <2>5. /\ IsFiniteSet(LaunchedBy(r)') /\ Cardinality(LaunchedBy(r)') \in Nat
        /\ Cardinality(LaunchedBy(r)') <= L + (IF r = c.by THEN 1 ELSE 0)
    <3>1. CASE UNCHANGED inst
      BY <1>0, <3>1 DEF LaunchedBy, L
    <3>2. ASSUME NEW j \in Instances, inst[j].state = "none",
                 inst' = [inst EXCEPT ![j] = [state |-> "running", by |-> c.by, ami |-> c.ami,
                                              subnet |-> c.subnet]]
          PROVE  /\ IsFiniteSet(LaunchedBy(r)')
                 /\ Cardinality(LaunchedBy(r)') <= L + (IF r = c.by THEN 1 ELSE 0)
      <4>1. inst[j].by # c.by
        BY <2>1, <3>2, RequestAssumption DEF Blank
      <4> QED BY <1>0, <2>1, <3>2, <4>1, LaunchCounts DEF L
    <3> QED BY <1>7, <1>0, <3>1, <3>2, FS_CardinalityType DEF Arrive
  <2>6. Cardinality(LaunchedBy(r)') + Cardinality(Sent(r)') + Working(r) <= attempts[r]
    BY <1>0, <2>4, <2>5 DEF Working
  <2>7. Working(r)' = Working(r)
    BY <2>2 DEF Working
  <2> QED BY <2>2, <2>4, <2>5, <2>6, <2>7 DEF Counted
<1>8. ASSUME NEW j \in Instances, Stop(j) PROVE Counted(r)'
  <2>1. \A i \in Instances : inst'[i].by = inst[i].by
    BY <1>8 DEF Stop, TypeOK, Launches
  <2>2. LaunchedBy(r)' = LaunchedBy(r) /\ Sent(r)' = Sent(r)
    BY <1>8, <2>1 DEF Stop, LaunchedBy, Sent
  <2>3. Working(r)' + attempts[r] <= Working(r) + attempts'[r]
    BY <1>0, <1>8 DEF Stop, Working
  <2> QED BY <1>1, <2>2, <2>3
<1>9. CASE ReleaseImage \/ UNCHANGED vars
  <2>1. LaunchedBy(r)' = LaunchedBy(r) /\ Sent(r)' = Sent(r) /\ UNCHANGED <<pc, attempts>>
    BY <1>9 DEF ReleaseImage, vars, LaunchedBy, Sent
  <2> QED BY <1>0, <1>1, <2>1 DEF Working
<1> QED BY <1>2, <1>4, <1>5, <1>6, <1>7, <1>8, <1>9 DEF Next

(* A request with an id launches one instance at most, and one without no    *)
(* more than it was asked for: an attempt whose call was lost and arrives    *)
(* late, its caller gone, has launched nothing before (StartInstance,        *)
(* clientTokenForRequestID).                                                 *)
THEOREM RetriesLaunchOne == Spec => []LaunchesBounded
<1>1. Init => CountInv
  <2>0. Init => Blank
    BY DEF Init, Blank, Unused
  <2> SUFFICES ASSUME Init, NEW r \in Requests PROVE Counted(r)
    BY <2>0 DEF CountInv
  <2>1. LaunchedBy(r) = {} /\ Sent(r) = {}
    BY RequestAssumption DEF Init, LaunchedBy, Unused, Sent
  <2>2. Working(r) = 0 /\ attempts[r] = 0
    BY DEF Init, Working
  <2> QED BY <2>1, <2>2, FS_EmptySet DEF Counted
<1>2. TypeOK /\ TypeOK' /\ CountInv /\ [Next]_vars => CountInv'
  <2> SUFFICES ASSUME TypeOK, TypeOK', Blank, \A r \in Requests : Counted(r), [Next]_vars
               PROVE  Blank' /\ \A r \in Requests : Counted(r)'
    BY DEF CountInv
  <2>1. Blank'
    <3>1. ASSUME NEW q \in Requests, Launch(q) PROVE Blank'
      BY <3>1 DEF Launch, TypeOK, Blank
    <3>2. ASSUME NEW c \in calls, Arrive(c) PROVE Blank'
      BY <3>2 DEF Arrive, TypeOK, Blank
    <3>3. ASSUME NEW j \in Instances, Stop(j) PROVE Blank'
      BY <3>3 DEF Stop, TypeOK, Launches, Blank
    <3>4. CASE UNCHANGED inst
      BY <3>4 DEF Blank
    <3> QED
      BY <3>1, <3>2, <3>3, <3>4
      DEF Next, vars, ReleaseImage, Start, NotServed, Refuse, ResolveAMI, ResolveNetwork,
          ResolveFails, Repeat, RunFails, Lose
  <2> QED BY <2>1, CountKept
<1>3. TypeOK /\ CountInv /\ OneInstancePerRequest => LaunchesBounded
  <2> SUFFICES ASSUME TypeOK, NEW r \in Requests, Counted(r), OneInstancePerRequest
               PROVE  Cardinality(LaunchedBy(r)) <= IF r \in Named THEN 1 ELSE attempts[r]
    BY DEF LaunchesBounded, CountInv
  <2>1. CASE r \in Named
    BY <2>1, AtMostOne DEF Counted, OneInstancePerRequest
  <2>2. CASE r \notin Named
    <3>1. /\ Cardinality(LaunchedBy(r)) \in Nat /\ Cardinality(Sent(r)) \in Nat
          /\ attempts[r] \in Nat
      BY FS_CardinalityType, AttemptAssumption DEF Counted, TypeOK
    <3> QED BY <2>2, <3>1 DEF Counted, Working
  <2> QED BY <2>1, <2>2
<1> QED BY <1>1, <1>2, <1>3, TokensLaunchOnce, InstanceTypes, PTL DEF Spec

-----------------------------------------------------------------------------
(* An instance reported as destroyed stays terminated: no retry of its       *)
(* StartInstance brings it back to life, and none launches another in its    *)
(* place where the request has an id.                                        *)
THEOREM DestroyedStaysGone == Spec => []DestroyedIsGone
<1> DEFINE Gone == \A i \in destroyed : inst[i].state = "terminated"
<1>1. Init => Gone
  BY DEF Init
<1>2. TypeOK /\ Gone /\ [Next]_vars => Gone'
  <2> SUFFICES ASSUME TypeOK, Gone, [Next]_vars, NEW i \in destroyed'
               PROVE  inst'[i].state = "terminated"
    OBVIOUS
  <2>1. CASE UNCHANGED <<inst, destroyed>>
    BY <2>1
  <2>2. ASSUME NEW j \in Instances, Stop(j) PROVE inst'[i].state = "terminated"
    <3>1. \A m \in Instances :
            inst'[m].state = IF m = j THEN "terminated" ELSE inst[m].state
      BY <2>2 DEF Stop, TypeOK, Launches
    <3>2. i \in Instances /\ (i = j \/ i \in destroyed)
      BY <2>2 DEF Stop, TypeOK
    <3> QED BY <3>1, <3>2
  <2>3. ASSUME NEW r \in Requests, Launch(r) PROVE inst'[i].state = "terminated"
    <3>1. PICK j \in Instances :
            /\ inst[j].state = "none"
            /\ inst' = [inst EXCEPT ![j] =
                         [state |-> "running", by |-> r, ami |-> ami[r],
                          subnet |-> subnet[r]]]
      BY <2>3 DEF Launch
    <3>2. i \in destroyed /\ i \in Instances
      BY <2>3 DEF Launch, TypeOK
    <3>3. inst[i].state = "terminated" /\ i # j
      BY <3>1, <3>2
    <3> QED BY <3>1, <3>2, <3>3 DEF TypeOK
  <2>4. ASSUME NEW c \in calls, Arrive(c), inst' # inst
        PROVE  inst'[i].state = "terminated"
    <3>1. PICK j \in Instances :
            /\ inst[j].state = "none"
            /\ inst' = [inst EXCEPT ![j] =
                         [state |-> "running", by |-> c.by, ami |-> c.ami,
                          subnet |-> c.subnet]]
      BY <2>4 DEF Arrive
    <3>2. i \in destroyed /\ i \in Instances
      BY <2>4 DEF Arrive, TypeOK
    <3>3. inst[i].state = "terminated" /\ i # j
      BY <3>1, <3>2
    <3> QED BY <3>1, <3>2, <3>3 DEF TypeOK
  <2> QED
    BY <2>1, <2>2, <2>3, <2>4
    DEF Next, vars, ReleaseImage, Start, NotServed, Refuse, ResolveAMI, ResolveNetwork,
        ResolveFails, Repeat, RunFails, Lose, Arrive
<1>3. TypeOK /\ OneInstancePerRequest /\ Gone => DestroyedIsGone
  BY DEF TypeOK, OneInstancePerRequest, LaunchedBy, DestroyedIsGone, Running
<1> QED BY <1>1, <1>2, <1>3, TokensLaunchOnce, InstanceTypes, PTL DEF Spec

-----------------------------------------------------------------------------
(* Nothing can have been launched for a request before its first attempt has *)
(* come to its end, and what is launched for it after that was asked for.    *)
MayHaveLaunched(r) == LaunchedBy(r) # {} \/ \E c \in calls : c.by = r
Answered(r) ==
  /\ attempts[r] = 0 => pc[r] = "idle"
  /\ MayHaveLaunched(r) =>
       /\ attempts[r] # 0
       /\ attempts[r] = 1 =>
            /\ pc[r] = "idle"
            /\ answer[r].kind \in {"started", "error"} \/ answer[r].code \in Retryable
AnswerFollows == \A r \in Requests : Answered(r)

(* A launch the host was not told of leaves it with a first answer that      *)
(* invites it to ask again, for any number of requests and attempts.         *)
THEOREM LostAnswersInvite == Spec => []LostAnswerInvitesRetry
<1>1. Init => AnswerFollows
  <2> SUFFICES ASSUME Init, NEW r \in Requests PROVE Answered(r)
    BY DEF AnswerFollows
  <2>1. ~MayHaveLaunched(r)
    BY RequestAssumption DEF Init, MayHaveLaunched, LaunchedBy, Unused
  <2>2. pc[r] = "idle"
    BY DEF Init
  <2> QED BY <2>1, <2>2 DEF Answered
<1>2. TypeOK /\ AnswerFollows /\ [Next]_vars
      => AnswerFollows'
  <2> SUFFICES ASSUME TypeOK, AnswerFollows, [Next]_vars,
                      NEW r \in Requests
               PROVE  Answered(r)'
    BY DEF AnswerFollows
  <2>1. Answered(r)
    BY DEF AnswerFollows
  <2>2. attempts[r] \in Nat
    BY AttemptAssumption DEF TypeOK
  <2>3. CASE UNCHANGED <<pc, attempts, answer>> /\ (MayHaveLaunched(r)' => MayHaveLaunched(r))
    BY <2>1, <2>3 DEF Answered
  <2>4. CASE UNCHANGED <<pc, attempts, answer, inst, calls>>
    BY <2>3, <2>4 DEF MayHaveLaunched, LaunchedBy
  <2>5. ASSUME NEW q \in Requests, Start(q) \/ NotServed(q) PROVE Answered(r)'
    <3>1. /\ attempts'[r] = attempts[r] + (IF q = r THEN 1 ELSE 0)
          /\ q # r => pc'[r] = pc[r] /\ answer'[r] = answer[r]
          /\ MayHaveLaunched(r)' = MayHaveLaunched(r)
      BY <2>5 DEF Start, NotServed, Goto, TypeOK, MayHaveLaunched, LaunchedBy
    <3> QED BY <2>1, <2>2, <3>1 DEF Answered
  <2>6. ASSUME NEW q \in Requests,
               \/ Refuse(q) \/ ResolveAMI(q) \/ ResolveNetwork(q) \/ ResolveFails(q)
               \/ Repeat(q) \/ RunFails(q)
        PROVE  Answered(r)'
    <3>1. /\ pc[q] # "idle" /\ UNCHANGED <<attempts, inst, calls>>
          /\ r # q => pc'[r] = pc[r] /\ answer'[r] = answer[r]
      BY <2>6 DEF Refuse, ResolveAMI, ResolveNetwork, ResolveFails, Repeat, RunFails,
                  Failed, Answer, Goto, TypeOK
    <3>2. MayHaveLaunched(r)' = MayHaveLaunched(r)
      BY <3>1 DEF MayHaveLaunched, LaunchedBy
    <3> QED BY <2>1, <2>2, <3>1, <3>2 DEF Answered
  <2>7. ASSUME NEW q \in Requests, Launch(q) PROVE Answered(r)'
    <3>1. /\ pc[q] # "idle" /\ UNCHANGED <<attempts, calls>> /\ pc'[q] = "idle"
          /\ \/ answer'[q].kind = "started"
             \/ answer'[q].code = NoAnswerCode
          /\ r # q => pc'[r] = pc[r] /\ answer'[r] = answer[r]
      BY <2>7 DEF Launch, Failed, Answer, Goto, TypeOK
    <3>2. NoAnswerCode \in Retryable
      BY DEF NoAnswerCode, Retryable
    <3>3. CASE r = q
      BY <2>1, <2>2, <3>1, <3>2, <3>3 DEF Answered
    <3>4. CASE r # q
      <4>1. \A i \in Instances : inst'[i].by = r => inst[i].by = r
        BY <2>7, <3>4 DEF Launch, TypeOK
      <4>2. MayHaveLaunched(r)' => MayHaveLaunched(r)
        BY <3>1, <4>1 DEF MayHaveLaunched, LaunchedBy
      <4> QED BY <2>1, <3>1, <3>4, <4>2 DEF Answered
    <3> QED BY <3>3, <3>4
  <2>8. ASSUME NEW R \in SUBSET Requests, Lose(R) PROVE Answered(r)'
    <3>1. /\ UNCHANGED <<attempts, inst>>
          /\ r \in R => pc[r] # "idle" /\ pc'[r] = "idle" /\ answer'[r].kind = "error"
          /\ r \notin R => pc'[r] = pc[r] /\ answer'[r] = answer[r]
      BY <2>8 DEF Lose, TypeOK, CallFailed
    <3>2. r \notin R => (MayHaveLaunched(r)' => MayHaveLaunched(r))
      BY <2>8, <3>1 DEF Lose, MayHaveLaunched, LaunchedBy
    <3> QED BY <2>1, <2>2, <3>1, <3>2 DEF Answered
  <2>9. ASSUME NEW c \in calls, Arrive(c) PROVE Answered(r)'
    <3>1. UNCHANGED <<pc, attempts, answer>>
      BY <2>9 DEF Arrive
    <3>2. \A i \in Instances : inst'[i].by = r => inst[i].by = r \/ c.by = r
      BY <2>9 DEF Arrive, TypeOK
    <3>3. MayHaveLaunched(r)' => MayHaveLaunched(r)
      BY <2>9, <3>2 DEF Arrive, MayHaveLaunched, LaunchedBy
    <3> QED BY <2>3, <3>1, <3>3
  <2>10. ASSUME NEW j \in Instances, Stop(j) PROVE Answered(r)'
    <3>1. UNCHANGED <<pc, attempts, answer, calls>>
      BY <2>10 DEF Stop
    <3>2. \A i \in Instances : inst'[i].by = inst[i].by
      BY <2>10 DEF Stop, TypeOK, Launches
    <3>3. MayHaveLaunched(r)' => MayHaveLaunched(r)
      BY <3>1, <3>2 DEF MayHaveLaunched, LaunchedBy
    <3> QED BY <2>3, <3>1, <3>3
  <2>11. CASE ReleaseImage
    BY <2>4, <2>11 DEF ReleaseImage
  <2>12. CASE UNCHANGED vars
    BY <2>4, <2>12 DEF vars
  <2> QED BY <2>5, <2>6, <2>7, <2>8, <2>9, <2>10, <2>11, <2>12 DEF Next
<1>3. AnswerFollows => LostAnswerInvitesRetry
  BY DEF AnswerFollows, Answered, LostAnswerInvitesRetry, MayHaveLaunched
<1> QED BY <1>1, <1>2, <1>3, InstanceTypes, PTL DEF Spec

-----------------------------------------------------------------------------
(* Every step of the session is a step of the lifecycle or leaves it alone:  *)
(* the process may exit, be killed or be replaced as it likes.               *)
LEMMA StepRefines ==
  ASSUME [SessionNext]_<<vars, sessionVars>>
  PROVE  [Next]_vars
<1>1. CASE UNCHANGED <<vars, sessionVars>>
  BY <1>1
<1>2. CASE \/ LaunchProcess \/ ReadInfo \/ ReadFails \/ KillFailed \/ WaitFailed
           \/ StopProcess \/ StopWaits \/ WaitProcess \/ Cancel \/ KillCancelled
           \/ Listen \/ WriteStartupInfo \/ Serve \/ BeOther
           \/ \E c \in clients : OpenStream(c) \/ CloseStream(c)
  BY <1>2 DEF OpenStream, CloseStream, LaunchProcess, ReadInfo, ReadFails, KillFailed, WaitFailed, StopProcess,
              StopWaits, WaitProcess, Cancel, KillCancelled, Listen, WriteStartupInfo,
              Serve, BeOther
<1>3. CASE Exit
  <2>1. InProgress \in SUBSET Requests
    BY DEF InProgress
  <2> QED BY <1>3, <2>1 DEF Exit, Next
<1>4. CASE Elsewhere
  BY <1>4 DEF Elsewhere, Next
<1>5. ASSUME NEW i \in Instances, StopInstance(i) PROVE Next
  BY <1>5 DEF StopInstance, Next
<1>6. ASSUME NEW r \in Requests,
             StartInstance(r) \/ StartFails(r) \/ Attempt(r)
      PROVE  Next
  BY <1>6 DEF StartInstance, StartFails, Attempt, Next
<1>7. ASSUME NEW r \in Requests, Deadline(r) PROVE Next
  <2>1. {r} \in SUBSET Requests
    OBVIOUS
  <2> QED BY <1>7, <2>1 DEF Deadline, Next
<1> QED BY <1>1, <1>2, <1>3, <1>4, <1>5, <1>6, <1>7 DEF SessionNext

(* A session is a lifecycle, so that what is proved of the one holds of the  *)
(* other.                                                                    *)
LEMMA SessionImplements == SessionSpec => Spec
<1>1. SessionInit => Init
  BY DEF SessionInit
<1>2. [SessionNext]_<<vars, sessionVars>> => [Next]_vars
  BY StepRefines
<1> QED BY <1>1, <1>2, PTL DEF SessionSpec, Spec

-----------------------------------------------------------------------------
(* What the host may count on, by where it is: calls are only in progress in *)
(* a process that serves, every one of its own session, and a host that      *)
(* believes to have no process has none.                                     *)
SessionInv ==
  /\ InProgress # {} \/ streams # {} => child = "serving"
  /\ \A r \in InProgress : via[r] = session
  /\ host \in {"idle", "failed", "stopped"} => child = "none"

(* A step of a call leaves every other as it is, and begins none.            *)
LEMMA NoneBegins ==
  ASSUME TypeOK,
         \/ Elsewhere \/ \E i \in Instances : StopInstance(i)
         \/ \E r \in Requests : StartFails(r) \/ Attempt(r) \/ Deadline(r)
  PROVE  InProgress' \subseteq InProgress
<1> SUFFICES ASSUME NEW q \in Requests, pc'[q] # "idle" PROVE pc[q] # "idle"
  BY DEF InProgress
<1>1. CASE UNCHANGED pc
  BY <1>1
<1>2. ASSUME NEW r \in Requests,
             \/ Refuse(r) \/ ResolveAMI(r) \/ ResolveNetwork(r) \/ ResolveFails(r)
             \/ Repeat(r) \/ Launch(r) \/ RunFails(r)
      PROVE  pc[q] # "idle"
  BY <1>2 DEF Refuse, ResolveAMI, ResolveNetwork, ResolveFails, Repeat, Launch, RunFails,
              Failed, Answer, Goto, TypeOK
<1>3. ASSUME NEW r \in Requests, Lose({r}) PROVE pc[q] # "idle"
  BY <1>3 DEF Lose
<1> QED BY <1>1, <1>2, <1>3
        DEF Elsewhere, StopInstance, StartFails, Attempt, Deadline,
            ReleaseImage, Stop, Arrive, NotServed

(* A host that waits for a line has launched a process; one that believes to *)
(* have none has none, so that the next one finds its port free.             *)
HostKnows ==
  /\ host = "reading" => session # 0
  /\ host \in {"idle", "failed", "stopped"} => child = "none"

(* Every variable of the session keeps its type.                             *)
LEMMA SessionTypesStep == SessionSpec => [](SessionTypeOK /\ HostKnows)
<1>1. SessionInit => SessionTypeOK /\ HostKnows
  <2> SUFFICES ASSUME SessionInit PROVE SessionTypeOK /\ HostKnows
    OBVIOUS
  <2>1. 0 \in 0..MaxLaunches
    BY LaunchAssumption
  <2>2. via \in [Requests -> 0..MaxLaunches]
    BY <2>1 DEF SessionInit
  <2> QED BY <2>1, <2>2 DEF SessionInit, SessionTypeOK, HostKnows, Listening
<1>2. SessionTypeOK /\ HostKnows /\ [SessionNext]_<<vars, sessionVars>>
      => SessionTypeOK' /\ HostKnows'
  <2> SUFFICES ASSUME SessionTypeOK, HostKnows, [SessionNext]_<<vars, sessionVars>>
               PROVE  SessionTypeOK' /\ HostKnows'
    OBVIOUS
  <2> USE PortAssumption, LaunchAssumption DEF SessionTypeOK, HostKnows, Listening, Alive
  <2>1. CASE LaunchProcess
    <3>1. child = "none" /\ port = NoPort
      BY <2>1 DEF LaunchProcess
    <3>2. CASE host' = "failed" /\ UNCHANGED <<cancelled, child, killed, port, line, session>>
      BY <2>1, <3>1, <3>2 DEF LaunchProcess
    <3>3. CASE host' = "reading"
      <4>1. session' \in 0..MaxLaunches /\ session' # 0
        BY <2>1, <3>3 DEF LaunchProcess
      <4> QED BY <2>1, <3>1, <3>3, <4>1 DEF LaunchProcess
    <3> QED BY <2>1, <3>2, <3>3 DEF LaunchProcess
  <2>2. CASE ReadInfo
    <3>1. [port |-> line, token |-> session] \in Clients
      BY <2>2 DEF ReadInfo, Clients
    <3> QED BY <2>2, <3>1 DEF ReadInfo
  <2>3. CASE ReadFails \/ KillFailed \/ WaitFailed \/ StopProcess \/ StopWaits
             \/ WaitProcess \/ Cancel \/ KillCancelled
    BY <2>3 DEF ReadFails, KillFailed, WaitFailed, StopProcess, StopWaits, WaitProcess,
                Cancel, KillCancelled
  <2>4. CASE Listen \/ WriteStartupInfo \/ Serve \/ BeOther
    BY <2>4 DEF Listen, WriteStartupInfo, Serve, BeOther
  <2>5. CASE Exit
    BY <2>5 DEF Exit
  <2>6. ASSUME NEW r \in Requests, StartInstance(r) PROVE SessionTypeOK' /\ HostKnows'
    <3>1. PICK c \in clients : via' = [via EXCEPT ![r] = c.token]
      BY <2>6 DEF StartInstance
    <3>2. c.token \in 0..MaxLaunches
      BY DEF Clients
    <3> QED BY <2>6, <3>1, <3>2 DEF StartInstance, processVars
  <2>8. ASSUME NEW c \in clients, OpenStream(c) \/ CloseStream(c)
        PROVE  SessionTypeOK' /\ HostKnows'
    BY <2>8 DEF OpenStream, CloseStream, processVars
  <2>7. CASE UNCHANGED sessionVars
    BY <2>7 DEF sessionVars, processVars
  <2> QED BY <2>1, <2>2, <2>3, <2>4, <2>5, <2>6, <2>7, <2>8
          DEF SessionNext, Elsewhere, StopInstance, StartFails, Attempt, Deadline
<1> QED BY <1>1, <1>2, PTL DEF SessionSpec

(* Every variable of the session keeps its type (Launch, Process.Stop,       *)
(* Serve).                                                                   *)
THEOREM SessionTypes == SessionSpec => []SessionTypeOK
BY SessionTypesStep, PTL

(* The invariant holds from the start on.                                    *)
LEMMA SessionAlways == SessionSpec => []SessionInv
<1>1. SessionInit => SessionInv
  BY DEF SessionInit, SessionInv, Init, InProgress
<1>2. TypeOK /\ SessionTypeOK /\ SessionInv /\ [SessionNext]_<<vars, sessionVars>>
      => SessionInv'
  <2> SUFFICES ASSUME TypeOK, SessionTypeOK, SessionInv,
                      [SessionNext]_<<vars, sessionVars>>
               PROVE  SessionInv'
    OBVIOUS
  <2>1. [Next]_vars
    BY StepRefines
  <2>2. CASE UNCHANGED pc /\ UNCHANGED <<via, session, streams>>
             /\ (child = "serving" => child' = "serving")
             /\ (host' \in {"idle", "failed", "stopped"} => child' = "none")
    BY <2>2 DEF SessionInv, InProgress
  <2>3. CASE LaunchProcess
    BY <2>3 DEF LaunchProcess, SessionInv, InProgress, vars
  <2>4. CASE \/ ReadInfo \/ ReadFails \/ KillFailed \/ WaitFailed \/ StopProcess
             \/ StopWaits \/ WaitProcess \/ Cancel \/ KillCancelled
             \/ Listen \/ WriteStartupInfo \/ Serve \/ BeOther
    BY <2>2, <2>4
       DEF ReadInfo, ReadFails, KillFailed, WaitFailed, StopProcess, StopWaits,
           WaitProcess, Cancel, KillCancelled, Listen, WriteStartupInfo, Serve, BeOther,
           SessionInv, vars
  <2>5. CASE Exit
    <3>1. InProgress' = {} /\ streams' = {}
      BY <2>5 DEF Exit, Lose, InProgress, vars
    <3>2. host' \notin {"idle", "failed", "stopped"}
      BY <2>5 DEF Exit, SessionInv, Alive, Listening
    <3> QED BY <3>1, <3>2 DEF SessionInv
  <2>6. ASSUME NEW r \in Requests, StartInstance(r) PROVE SessionInv'
    <3>1. child = "serving" /\ via' = [via EXCEPT ![r] = session]
      BY <2>6 DEF StartInstance, Serves
    <3>2. InProgress' \subseteq InProgress \cup {r}
      BY <2>6 DEF StartInstance, Start, Goto, InProgress, TypeOK
    <3>3. \A q \in InProgress' : via'[q] = session
      BY <3>1, <3>2 DEF SessionInv, SessionTypeOK, InProgress
    <3> QED BY <2>6, <3>1, <3>3 DEF StartInstance, processVars, SessionInv
  <2>7. CASE \/ Elsewhere \/ \E i \in Instances : StopInstance(i)
             \/ \E r \in Requests : StartFails(r) \/ Attempt(r) \/ Deadline(r)
    <3>1. UNCHANGED sessionVars
      BY <2>7 DEF Elsewhere, StopInstance, StartFails, Attempt, Deadline
    <3>2. InProgress' \subseteq InProgress
      BY <2>7, NoneBegins
    <3> QED BY <3>1, <3>2 DEF sessionVars, processVars, SessionInv
  <2>8. CASE UNCHANGED <<vars, sessionVars>>
    BY <2>2, <2>8 DEF vars, sessionVars, processVars, SessionInv
  <2>9. ASSUME NEW c \in clients, OpenStream(c) \/ CloseStream(c) PROVE SessionInv'
    BY <2>9 DEF OpenStream, CloseStream, processVars, vars, SessionInv, InProgress
  <2> QED BY <2>3, <2>4, <2>5, <2>6, <2>7, <2>8, <2>9 DEF SessionNext
<1>3. SessionSpec => []TypeOK
  BY SessionImplements, InstanceTypes, PTL
<1> QED BY <1>1, <1>2, <1>3, SessionTypes, PTL DEF SessionSpec

(* No process is left behind by a failed Launch or a Stop, for any number of *)
(* launches (Launch, Process.Stop).                                          *)
THEOREM NoneIsLeftBehind == SessionSpec => []NoneLeftBehind
<1>1. SessionInv => NoneLeftBehind
  BY DEF SessionInv, NoneLeftBehind
<1> QED BY <1>1, SessionAlways, PTL

(* A provider never works on a StartInstance call of another session, for    *)
(* any number of processes and ports.  Streams are another matter: the       *)
(* interceptor is for unary calls (UnaryServerAuthInterceptor,               *)
(* ListenAndServe).                                                          *)
THEOREM OnlyOwnCalls == SessionSpec => []OwnCallsOnly
<1>1. SessionInv => OwnCallsOnly
  BY DEF SessionInv, OwnCallsOnly
<1> QED BY <1>1, SessionAlways, PTL

(* What the lifecycle promises a caller, a session keeps through every exit, *)
(* kill and replacement of its process: a retried request launches one       *)
(* instance, a lost answer invites the retry, and a destroyed instance stays *)
(* destroyed (Client.StartInstance, Server.StartInstance).                   *)
THEOREM SessionKeepsLifecycle ==
  SessionSpec => [](LaunchesBounded /\ LostAnswerInvitesRetry /\ DestroyedIsGone)
BY SessionImplements, RetriesLaunchOne, LostAnswersInvite, DestroyedStaysGone, PTL

-----------------------------------------------------------------------------
(* A Launch and a Stop go forward.                                           *)

(* Where the host is in the life of one process, and where that process is.  *)
Stage(h) ==
  CASE h = "reading" -> 1 [] h \in {"killing", "running"} -> 2
    [] h \in {"waiting", "stopping"} -> 3 [] h \in {"failed", "stopped"} -> 4 [] OTHER -> 0
Age(c) ==
  CASE c = "started" -> 1 [] c \in {"bound", "other"} -> 2 [] c = "announced" -> 3
    [] c = "serving" -> 4 [] c = "exited" -> 5 [] OTHER -> 6

(* What the host's goroutine does between Launch and the return of Stop.     *)
HostStep == ReadInfo \/ ReadFails \/ KillFailed \/ WaitFailed \/ StopProcess \/ StopWaits

(* Nothing takes the host or its process back, or takes back what they wait  *)
(* for: a line that was written, a signal that was sent, a context that was  *)
(* cancelled.                                                                *)
Forward ==
  /\ host' = host \/ Stage(host') > Stage(host)
  /\ child' = child \/ Age(child') > Age(child)
  /\ killed => killed'
  /\ cancelled => cancelled'
  /\ line # NoPort => line' = line
Onward ==
  /\ HostStep => Stage(host') > Stage(host)
  /\ Forward \/ (LaunchProcess /\ Stage(host) \in {0, 4})

(* What a process writes, it writes once, and after it listens.              *)
NoLineYet == child \in {"started", "bound"} => line = NoPort

(* A process that has not got so far has written no line (ListenAndServe).   *)
LEMMA OneLine == SessionSpec => []NoLineYet
<1>1. SessionInit => NoLineYet
  BY DEF SessionInit, NoLineYet
<1>2. NoLineYet /\ [SessionNext]_<<vars, sessionVars>> => NoLineYet'
  <2> SUFFICES ASSUME NoLineYet, [SessionNext]_<<vars, sessionVars>> PROVE NoLineYet'
    OBVIOUS
  <2>1. CASE LaunchProcess
    BY <2>1 DEF LaunchProcess, NoLineYet
  <2>2. CASE \/ ReadInfo \/ ReadFails \/ KillFailed \/ WaitFailed \/ StopProcess
             \/ StopWaits \/ WaitProcess \/ Cancel \/ KillCancelled
    BY <2>2 DEF NoLineYet, ReadInfo, ReadFails, KillFailed, WaitFailed, StopProcess, StopWaits,
                WaitProcess, Cancel, KillCancelled
  <2>3. CASE Listen \/ WriteStartupInfo \/ Serve \/ BeOther \/ Exit
    BY <2>3 DEF Listen, WriteStartupInfo, Serve, BeOther, Exit, NoLineYet
  <2>4. CASE UNCHANGED processVars
    BY <2>4 DEF processVars, NoLineYet
  <2> QED
    BY <2>1, <2>2, <2>3, <2>4
    DEF SessionNext, Elsewhere, StopInstance, StartInstance, StartFails, Attempt,
        Deadline, OpenStream, CloseStream, sessionVars
<1> QED BY <1>1, <1>2, PTL DEF SessionSpec

(* A Launch or a Stop takes at most three steps of the host and is set back  *)
(* by nobody else's, nor is its process (part of HostNeverHangs; Launch,     *)
(* Process.Stop, ListenAndServe).                                            *)
THEOREM HostGoesForward == SessionSpec => [][Onward]_<<vars, sessionVars>>
<1>1. NoLineYet /\ SessionNext => Onward
  <2> SUFFICES ASSUME NoLineYet, SessionNext PROVE Onward
    OBVIOUS
  <2>1. CASE HostStep
    <3>1. CASE ReadInfo \/ ReadFails
      BY <3>1 DEF ReadInfo, ReadFails, Onward, Forward, Stage
    <3>2. CASE KillFailed \/ StopProcess
      BY <3>2 DEF KillFailed, StopProcess, Onward, Forward, Stage
    <3>3. CASE WaitFailed \/ StopWaits
      BY <3>3 DEF WaitFailed, StopWaits, Onward, Forward, Stage, Age
    <3> QED BY <2>1, <3>1, <3>2, <3>3 DEF HostStep
  <2>2. ASSUME LaunchProcess, ~HostStep PROVE Onward
    BY <2>2 DEF LaunchProcess, Onward, Stage
  <2>3. ASSUME ~HostStep, ~LaunchProcess PROVE Forward
    <3>1. CASE WaitProcess \/ Cancel \/ KillCancelled
      BY <3>1 DEF WaitProcess, Cancel, KillCancelled, Forward, Age
    <3>2. CASE Listen \/ WriteStartupInfo \/ Serve \/ BeOther \/ Exit
      BY <3>2 DEF Listen, WriteStartupInfo, Serve, BeOther, Exit, Forward, Age, Alive, Listening,
                  NoLineYet
    <3>3. CASE UNCHANGED processVars
      BY <3>3 DEF processVars, Forward
    <3> QED
      BY <2>3, <3>1, <3>2, <3>3
      DEF SessionNext, HostStep, Elsewhere, StopInstance, StartInstance, StartFails, Attempt,
          Deadline, OpenStream, CloseStream, sessionVars
  <2> QED BY <2>1, <2>2, <2>3 DEF Onward
<1> QED BY <1>1, OneLine, PTL DEF SessionSpec

(* While the host waits, what it waits for is on its way: of a Launch that   *)
(* reads, the line, or the end of the output, or the listener and the line   *)
(* of a provider that is starting, unless the binary is something else; of   *)
(* one that failed and of a Stop, the end of a process that was killed.      *)
HostIsOwed ==
  /\ host = "reading" =>
       /\ line # NoPort \/ child \in {"exited", "started", "bound", "other"}
       /\ child # "none"
  /\ host = "killing" => child # "none"
  /\ host = "waiting" => killed /\ child # "none"
  /\ host = "stopping" => killed

(* The host never waits for what nobody owes it (Launch, readStartupInfo,    *)
(* Process.Stop).                                                            *)
THEOREM HostWaitsForSomething == SessionSpec => []HostIsOwed
<1>1. SessionInit => HostIsOwed
  BY DEF SessionInit, HostIsOwed
<1>2. SessionTypeOK /\ HostIsOwed /\ [SessionNext]_<<vars, sessionVars>> => HostIsOwed'
  <2> SUFFICES ASSUME SessionTypeOK, HostIsOwed, [SessionNext]_<<vars, sessionVars>>
               PROVE  HostIsOwed'
    OBVIOUS
  <2> USE DEF HostIsOwed
  <2>1. CASE LaunchProcess
    BY <2>1 DEF LaunchProcess
  <2>2. CASE ReadInfo \/ ReadFails \/ KillFailed \/ WaitFailed
    BY <2>2 DEF ReadInfo, ReadFails, KillFailed, WaitFailed
  <2>3. CASE StopProcess \/ StopWaits \/ WaitProcess \/ Cancel \/ KillCancelled
    BY <2>3 DEF StopProcess, StopWaits, WaitProcess, Cancel, KillCancelled
  <2>4. CASE Listen \/ Serve \/ BeOther \/ Exit
    BY <2>4 DEF Listen, Serve, BeOther, Exit
  <2>5. CASE WriteStartupInfo
    <3>1. port # NoPort
      BY <2>5 DEF WriteStartupInfo, SessionTypeOK, Listening
    <3> QED BY <2>5, <3>1 DEF WriteStartupInfo
  <2>6. CASE UNCHANGED processVars
    BY <2>6 DEF processVars
  <2> QED
    BY <2>1, <2>2, <2>3, <2>4, <2>5, <2>6
    DEF SessionNext, Elsewhere, StopInstance, StartInstance, StartFails, Attempt,
        Deadline, OpenStream, CloseStream, sessionVars
<1> QED BY <1>1, <1>2, SessionTypes, PTL DEF SessionSpec
=============================================================================
