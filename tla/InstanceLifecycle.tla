------------------------- MODULE InstanceLifecycle -------------------------
(***************************************************************************)
(* StartInstance and StopInstance (src/internal/aws/instance.go,           *)
(* instance_runner.go, launch_failures.go).  A host asks for an instance   *)
(* under a request id; RunInstances may launch it and lose the answer; the *)
(* host retries what is reported as retryable.  The request id becomes     *)
(* EC2's client token, so that a retry does not launch a second instance,  *)
(* but each attempt resolves the image and the subnet anew.  The call of   *)
(* the host may end before the attempt does, and what the attempt had sent *)
(* to EC2 may arrive long after.                                           *)
(***************************************************************************)
EXTENDS Naturals, FiniteSets

CONSTANTS
  Requests,     \* what the host asks for, each with a request id of its own
  Named,        \* the requests whose request_id is not blank
  Instances,    \* the instance ids EC2 may hand out
  Images, Subnets,   \* what an attempt may resolve to
  MaxAttempts,  \* attempts per request
  NoInstance

ASSUME RequestAssumption == Named \subseteq Requests /\ "nobody" \notin Requests
ASSUME InstanceAssumption == NoInstance \notin Instances
ASSUME AttemptAssumption == MaxAttempts \in Nat

VARIABLES
  image,      \* the newest image the SSM parameters name
  inst,       \* inst[i]: what EC2 knows of instance i
  pc,         \* pc[r]: where the current attempt of request r is
  ami, subnet,   \* what it resolved
  attempts,   \* attempts started
  answer,     \* the last answer the host got
  calls,      \* RunInstances calls on their way, nobody waiting for an answer
  destroyed   \* history: instances of which StopInstance said Destroyed,
              \* dry runs apart

vars == <<image, inst, pc, ami, subnet, attempts, answer, calls, destroyed>>

Codes == {"CAPACITY_UNAVAILABLE", "QUOTA_EXCEEDED", "API_THROTTLED",
          "AUTH_INVALID", "CONFIG_INVALID", "PROVIDER_UNAVAILABLE"}

(* newLaunchFailure: the codes that invite a retry.                          *)
Retryable == {"CAPACITY_UNAVAILABLE", "API_THROTTLED", "PROVIDER_UNAVAILABLE"}

(* A variant of NoAnswerCode: taken for a mistake of the caller.             *)
NoAnswerCodeConfig == "CONFIG_INVALID"

(* The code of an error that is not EC2's own: a timeout, a broken           *)
(* connection, a cancelled context.                                          *)
NoAnswerCode == "PROVIDER_UNAVAILABLE"

Steps == {"ResolveAMI", "ResolveNetwork", "RunInstances"}
Answers == [kind: {"none", "started", "failure", "error"},
            inst: Instances \cup {NoInstance}, code: Codes \cup {"none"}]
Launches == [state: {"none", "running", "terminated"},
             by: Requests \cup {"nobody"},
             ami: Images \cup {"none"}, subnet: Subnets \cup {"none"}]
Calls == [by: Requests, attempt: 0..MaxAttempts,
          ami: Images \cup {"none"}, subnet: Subnets \cup {"none"}]

Unused == [state |-> "none", by |-> "nobody", ami |-> "none", subnet |-> "none"]
NoAnswer == [kind |-> "none", inst |-> NoInstance, code |-> "none"]
CallFailed == [kind |-> "error", inst |-> NoInstance, code |-> "none"]

(* Every variable has its type.                                              *)
TypeOK ==
  /\ image \in Images
  /\ inst \in [Instances -> Launches]
  /\ pc \in [Requests -> Steps \cup {"idle"}]
  /\ ami \in [Requests -> Images \cup {"none"}]
  /\ subnet \in [Requests -> Subnets \cup {"none"}]
  /\ attempts \in [Requests -> 0..MaxAttempts]
  /\ answer \in [Requests -> Answers]
  /\ calls \subseteq Calls
  /\ destroyed \subseteq Instances

LaunchedBy(r) == {i \in Instances : inst[i].by = r}
Running(i) == inst[i].state = "running"

Goto(r, step) == pc' = [pc EXCEPT ![r] = step]

(* The attempt ends with an answer; its locals are gone.                     *)
Answer(r, kind, i, code) ==
  /\ Goto(r, "idle")
  /\ answer' = [answer EXCEPT ![r] = [kind |-> kind, inst |-> i, code |-> code]]
  /\ ami' = [ami EXCEPT ![r] = "none"]
  /\ subnet' = [subnet EXCEPT ![r] = "none"]

Failed(r, code) == Answer(r, "failure", NoInstance, code)

-----------------------------------------------------------------------------
(* A new image is released.                                                  *)
ReleaseImage ==
  /\ image' \in Images \ {image}
  /\ UNCHANGED <<inst, pc, ami, subnet, attempts, answer, calls, destroyed>>

(* The host has not asked yet, or got an RPC error or a failure that invites *)
(* it to ask again.                                                          *)
MayAsk(r) ==
  \/ answer[r].kind \in {"none", "error"}
  \/ answer[r].kind = "failure" /\ answer[r].code \in Retryable

(* The host asks for the instance.                                           *)
Start(r) ==
  /\ pc[r] = "idle" /\ attempts[r] < MaxAttempts /\ MayAsk(r)
  /\ attempts' = [attempts EXCEPT ![r] = @ + 1]
  /\ Goto(r, "ResolveAMI")
  /\ UNCHANGED <<image, inst, ami, subnet, answer, calls, destroyed>>

(* The call does not get to a provider that serves it.                       *)
NotServed(r) ==
  /\ pc[r] = "idle" /\ attempts[r] < MaxAttempts /\ MayAsk(r)
  /\ attempts' = [attempts EXCEPT ![r] = @ + 1]
  /\ answer' = [answer EXCEPT ![r] = CallFailed]
  /\ UNCHANGED <<image, inst, pc, ami, subnet, calls, destroyed>>

(* validateStartInstanceRequest, routeAWSAccount: refused before any call to *)
(* AWS; the accounts need not be those of an earlier attempt.                *)
Refuse(r) ==
  /\ pc[r] = "ResolveAMI"
  /\ \E code \in {"AUTH_INVALID", "CONFIG_INVALID"} : Failed(r, code)
  /\ UNCHANGED <<image, inst, attempts, calls, destroyed>>

(* resolveAMI: the image of the provider config, or the newest release.      *)
ResolveAMI(r) ==
  /\ pc[r] = "ResolveAMI" /\ Goto(r, "ResolveNetwork")
  /\ ami' = [ami EXCEPT ![r] = image]
  /\ UNCHANGED <<image, inst, subnet, attempts, answer, calls, destroyed>>

(* resolveRunInstancesConfig: ensureManagedNetwork may find another subnet   *)
(* than it did for an earlier attempt.                                       *)
ResolveNetwork(r) ==
  /\ pc[r] = "ResolveNetwork" /\ Goto(r, "RunInstances")
  /\ \E s \in Subnets : subnet' = [subnet EXCEPT ![r] = s]
  /\ UNCHANGED <<image, inst, ami, attempts, answer, calls, destroyed>>

(* A step before RunInstances fails: the RPC returns an error.               *)
ResolveFails(r) ==
  /\ pc[r] \in {"ResolveAMI", "ResolveNetwork"}
  /\ Answer(r, "error", NoInstance, "none")
  /\ UNCHANGED <<image, inst, attempts, calls, destroyed>>

(* A variant of Launched in which the call carries no token.                 *)
LaunchedNoToken(r) == {}

(* clientTokenForRequestID, and what EC2 makes of the token: the launches it *)
(* takes a call of r for a repetition of.                                    *)
Launched(r) == IF r \in Named THEN LaunchedBy(r) ELSE {}

SameLaunch(r, i) == inst[i].ami = ami[r] /\ inst[i].subnet = subnet[r]

(* A call EC2 has seen before: the same instance again, if it is asked for   *)
(* with the same parameters and still runs; otherwise an error whose code    *)
(* classifyStartInstanceError does not know.                                 *)
Repeat(r) ==
  /\ pc[r] = "RunInstances"
  /\ \E i \in Launched(r) :
       IF SameLaunch(r, i) /\ Running(i)
         THEN Answer(r, "started", i, "none")
         ELSE Failed(r, "PROVIDER_UNAVAILABLE")
  /\ UNCHANGED <<image, inst, attempts, calls, destroyed>>

(* A call that launches an instance; its answer may be lost.                 *)
Launch(r) ==
  /\ pc[r] = "RunInstances" /\ Launched(r) = {}
  /\ \E i \in Instances :
       /\ inst[i].state = "none"
       /\ inst' = [inst EXCEPT ![i] =
                    [state |-> "running", by |-> r, ami |-> ami[r],
                     subnet |-> subnet[r]]]
       /\ Answer(r, "started", i, "none") \/ Failed(r, NoAnswerCode)
  /\ UNCHANGED <<image, attempts, calls, destroyed>>

(* EC2 refuses, or the call never reaches it: classifyStartInstanceError.    *)
RunFails(r) ==
  /\ pc[r] = "RunInstances"
  /\ \E code \in Codes : Failed(r, code)
  /\ UNCHANGED <<image, inst, attempts, calls, destroyed>>

(* The calls of the requests R end, for a deadline or a cancellation or for  *)
(* want of the provider: the attempts end with them, but what was sent to    *)
(* EC2 may be on its way.                                                    *)
Lose(R) ==
  /\ R # {} /\ \A r \in R : pc[r] # "idle"
  /\ pc' = [r \in Requests |-> IF r \in R THEN "idle" ELSE pc[r]]
  /\ answer' = [r \in Requests |-> IF r \in R THEN CallFailed ELSE answer[r]]
  /\ ami' = [r \in Requests |-> IF r \in R THEN "none" ELSE ami[r]]
  /\ subnet' = [r \in Requests |-> IF r \in R THEN "none" ELSE subnet[r]]
  /\ \E sent \in SUBSET {r \in R : pc[r] = "RunInstances"} :
       calls' = calls \cup {[by |-> r, attempt |-> attempts[r],
                            ami |-> ami[r], subnet |-> subnet[r]] : r \in sent}
  /\ UNCHANGED <<image, inst, attempts, destroyed>>

(* Such a call arrives: EC2 takes it for a repetition, refuses it, or        *)
(* launches an instance of which nobody is told.                             *)
Arrive(c) ==
  /\ calls' = calls \ {c}
  /\ \/ UNCHANGED inst
     \/ /\ Launched(c.by) = {}
        /\ \E i \in Instances :
             /\ inst[i].state = "none"
             /\ inst' = [inst EXCEPT ![i] =
                          [state |-> "running", by |-> c.by, ami |-> c.ami,
                           subnet |-> c.subnet]]
  /\ UNCHANGED <<image, pc, ami, subnet, attempts, answer, destroyed>>

(* A variant of Stop that reports success when TerminateInstances fails.     *)
StopUnchecked(i) ==
  /\ inst[i].state # "none"
  /\ inst' \in {inst, [inst EXCEPT ![i].state = "terminated"]}
  /\ destroyed' = destroyed \cup {i}
  /\ UNCHANGED <<image, pc, ami, subnet, attempts, answer, calls>>

(* StopInstance of an instance the host knows of, from an answer or from     *)
(* ListActiveInstances.  The answer names this instance and no other; it may *)
(* be lost.  A dry run changes nothing and is left out.                      *)
Stop(i) ==
  /\ inst[i].state # "none"
  /\ inst' = [inst EXCEPT ![i].state = "terminated"]
  /\ destroyed' \in {destroyed, destroyed \cup {i}}
  /\ UNCHANGED <<image, pc, ami, subnet, attempts, answer, calls>>

-----------------------------------------------------------------------------
Init ==
  /\ image \in Images
  /\ inst = [i \in Instances |-> Unused]
  /\ pc = [r \in Requests |-> "idle"]
  /\ ami = [r \in Requests |-> "none"]
  /\ subnet = [r \in Requests |-> "none"]
  /\ attempts = [r \in Requests |-> 0]
  /\ answer = [r \in Requests |-> NoAnswer]
  /\ calls = {}
  /\ destroyed = {}

Next ==
  \/ ReleaseImage
  \/ \E i \in Instances : Stop(i)
  \/ \E c \in calls : Arrive(c)
  \/ \E R \in SUBSET Requests : Lose(R)
  \/ \E r \in Requests :
       \/ Start(r) \/ NotServed(r) \/ Refuse(r) \/ ResolveAMI(r) \/ ResolveNetwork(r)
       \/ ResolveFails(r) \/ Repeat(r) \/ Launch(r) \/ RunFails(r)

Spec == Init /\ [][Next]_vars

-----------------------------------------------------------------------------
(* However often a request is retried, and whatever answers were lost or    *)
(* calls arrive late, it launches one instance at most if it has a request   *)
(* id (clientTokenForRequestID), and without one no more than it was asked   *)
(* for: runStartInstance makes one RunInstances call, never two.             *)
LaunchesBounded ==
  \A r \in Requests :
    Cardinality(LaunchedBy(r)) <= IF r \in Named THEN 1 ELSE attempts[r]

(* An instance that runs without the host having been told of it, or that a  *)
(* call on its way may still launch, is never hidden behind a first answer   *)
(* that says there is no point in asking again                               *)
(* (classifyStartInstanceError on an error that is not EC2's).               *)
LostAnswerInvitesRetry ==
  \A r \in Requests :
    /\ pc[r] = "idle" /\ attempts[r] = 1
    /\ LaunchedBy(r) # {} \/ \E c \in calls : c.by = r
    => answer[r].kind \in {"started", "error"} \/ answer[r].code \in Retryable

(* An instance of which StopInstance said that it was destroyed is not       *)
(* running, now or after any retry of its StartInstance; and if the request  *)
(* had an id, no other instance runs for it either, so that a late retry or  *)
(* a late call does not replace what was stopped (StopInstance,              *)
(* clientTokenForRequestID).                                                 *)
DestroyedIsGone ==
  \A i \in destroyed :
    /\ ~Running(i)
    /\ inst[i].by \in Named => \A k \in LaunchedBy(inst[i].by) : ~Running(k)
=============================================================================
