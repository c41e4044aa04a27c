---------------------------- MODULE AmiSelection ----------------------------
(***************************************************************************)
(* The default image of StartInstance (pickDebianAMI, debianAMIScore in    *)
(* src/internal/aws/instance_runner.go): one pass over the SSM parameters  *)
(* under .../debian/release/13/latest, which come in any order, keeping    *)
(* the best by score, then by version, then by name.                       *)
(***************************************************************************)
EXTENDS Integers, Sequences

CONSTANTS
  Parameters,   \* [machine, id, version, name]: what the code reads from an
                \* SSM parameter's name; names are numbered in string order
  MaxLength     \* parameters in one answer

Architectures == {"amd64", "arm64"}

(* The parts of a name that debianAMIScore looks for, by architecture.       *)
Exact == [amd64 |-> "amd64", arm64 |-> "arm64"]
Alias == [amd64 |-> "x86_64", arm64 |-> "aarch64"]

ASSUME ParameterAssumption ==
  Parameters \subseteq
    [machine: {"amd64", "x86_64", "arm64", "aarch64", "other"}, id: BOOLEAN,
     version: Nat, name: Nat]

(* A parameter of another path, or one that holds no AMI, never gets here.   *)
(* "/latest" is part of the path itself, so every one of these gets the ten  *)
(* points of the last test.                                                  *)
Score(p, arch) ==
  (IF p.machine = Exact[arch] THEN 100 ELSE IF p.machine = Alias[arch] THEN 80 ELSE 0)
  + (IF p.id THEN 20 ELSE 0) + 10

VARIABLES architecture, parameters, index, bestScore, bestVersion, bestName, best
pickVars == <<architecture, parameters, index, bestScore, bestVersion, bestName, best>>

NoParameter == [machine |-> "other", id |-> FALSE, version |-> 0, name |-> 0]

PickInit ==
  /\ architecture \in Architectures
  /\ \E n \in 0..MaxLength : parameters \in [1..n -> Parameters]
  /\ index = 1
  /\ bestScore = -1 /\ bestVersion = -1 /\ bestName = 0
  /\ best = NoParameter

(* A variant that compares versions whatever the scores.                     *)
IsBetterVersion(p) ==
  LET score == Score(p, architecture) IN
    \/ score > bestScore
    \/ p.version > bestVersion
    \/ score = bestScore /\ p.version = bestVersion /\ p.name > bestName

IsBetter(p) ==
  LET score == Score(p, architecture) IN
    \/ score > bestScore
    \/ score = bestScore /\ p.version > bestVersion
    \/ score = bestScore /\ p.version = bestVersion /\ p.name > bestName

(* One round of the loop.                                                    *)
Visit ==
  /\ index <= Len(parameters)
  /\ LET p == parameters[index] IN
       IF IsBetter(p)
         THEN /\ bestScore' = Score(p, architecture)
              /\ bestVersion' = p.version
              /\ bestName' = p.name
              /\ best' = p
         ELSE UNCHANGED <<bestScore, bestVersion, bestName, best>>
  /\ index' = index + 1
  /\ UNCHANGED <<architecture, parameters>>

PickNext == Visit
PickSpec == PickInit /\ [][PickNext]_pickVars

(* Every variable has its type.                                              *)
PickTypeOK ==
  /\ architecture \in Architectures
  /\ parameters \in Seq(Parameters)
  /\ index \in 1..Len(parameters) + 1
  /\ bestScore \in -1..130 /\ bestVersion \in Nat \cup {-1} /\ bestName \in Nat
  /\ best \in Parameters \cup {NoParameter}

Done == index > Len(parameters)
Picked == {parameters[i] : i \in 1..Len(parameters)}

(* The order the code means: score, then version, then name.                 *)
Precedes(p, q, arch) ==
  \/ Score(p, arch) < Score(q, arch)
  \/ /\ Score(p, arch) = Score(q, arch)
     /\ p.version < q.version \/ (p.version = q.version /\ p.name <= q.name)

(* The choice is the greatest of all the parameters, so it does not depend   *)
(* on the pages or the order in which SSM returns them.                      *)
PickIsGreatest ==
  Done /\ parameters # << >> =>
    best \in Picked /\ \A p \in Picked : Precedes(p, best, architecture)

(* What every round of the loop keeps: the best is the greatest of what was  *)
(* visited, and its score, version and name are the ones compared with.      *)
BestSoFar ==
  \/ index = 1 /\ bestScore = -1
  \/ /\ bestScore = Score(best, architecture)
     /\ bestVersion = best.version /\ bestName = best.name
     /\ \E i \in 1..Len(parameters) : i < index /\ best = parameters[i]
     /\ \A i \in 1..Len(parameters) : i < index => Precedes(parameters[i], best, architecture)
=============================================================================
