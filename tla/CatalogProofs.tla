---------------------------- MODULE CatalogProofs ----------------------------
(* The catalog's invariants for any number of processes, loads and versions. *)
EXTENDS CatalogCache, TLAPS

(* The declared sizes tell every two versions apart.                         *)
SizesTellApart ==
  \A v, w \in Versions : Size[v] > 0 /\ (Size[v] = Size[w] => v = w)

(* The files before the one that load l handles next.                        *)
Done(l) == {f \in Files : f < next[l]}

-----------------------------------------------------------------------------
(* Where a load stands, and its locals, have their types.                    *)
PlaceOK == pc \in [Loads -> Steps \cup Resting] /\ next \in [Loads -> Files]
LocalsOK ==
  /\ want \in [Loads -> Versions \cup {None}]
  /\ seen \in [Loads -> Snapshots]
  /\ around \in [Loads -> SUBSET Versions]
DiskOK == file \in Snapshots /\ recorded \in Versions \cup {None}

(* A load's new step is one of the steps.                                    *)
LEMMA GotoType ==
  ASSUME TypeOK, NEW l \in Loads, NEW step \in Steps \cup Resting, Goto(l, step)
  PROVE  pc' \in [Loads -> Steps \cup Resting]
BY DEF TypeOK, Goto

(* Moving a load to a step and a file keeps the types of its place.          *)
LEMMA GotoFileType ==
  ASSUME TypeOK, NEW l \in Loads, NEW step \in Steps \cup Resting,
         NEW f \in Files, GotoFile(l, step, f)
  PROVE  PlaceOK'
<1>1. pc' \in [Loads -> Steps \cup Resting]
  BY GotoType DEF GotoFile
<1>2. next' \in [Loads -> Files]
  BY DEF TypeOK, GotoFile
<1> QED BY <1>1, <1>2 DEF PlaceOK

(* So does moving it past the file it was at.                                *)
LEMMA NextFileType ==
  ASSUME TypeOK, NEW l \in Loads, NEW step \in Steps \cup Resting, NextFile(l, step)
  PROVE  PlaceOK'
<1>1. next[l] \in Files /\ 1 \in Files
  BY DEF TypeOK, Files
<1>2. pc[l] \in Steps \cup Resting
  BY DEF TypeOK
<1>3. next[l] < 3 => next[l] + 1 \in Files
  BY <1>1 DEF Files
<1> QED BY <1>1, <1>2, <1>3, GotoFileType DEF NextFile

(* What a load returns with, and the locals it drops, keep their types.      *)
LEMMA ReturnType ==
  ASSUME TypeOK, NEW l \in Loads, NEW result \in Resting, Return(l, result)
  PROVE  PlaceOK' /\ LocalsOK'
<1>1. 1 \in Files
  BY DEF Files
<1>2. NoSnapshot \in Snapshots
  BY DEF NoSnapshot, Snapshots
<1> QED BY <1>1, <1>2, GotoFileType DEF TypeOK, Return, LocalsOK

(* The types hold at the start.                                              *)
LEMMA InitTypes == Init => TypeOK
<1> SUFFICES ASSUME Init PROVE TypeOK
  OBVIOUS
<1>1. NoSnapshot \in Snapshots /\ 1 \in Files
  BY DEF NoSnapshot, Snapshots, Files
<1>2. "idle" \in Steps \cup Resting
  BY DEF Resting
<1> QED BY <1>1, <1>2 DEF Init, TypeOK

(* Every step of every load, and every release, keeps the types.             *)
LEMMA NextTypes == TypeOK /\ [Next]_vars => TypeOK'
<1> SUFFICES ASSUME TypeOK, [Next]_vars PROVE TypeOK'
  OBVIOUS
<1> USE DEF TypeOK, PlaceOK, LocalsOK, DiskOK, registry, disk, locals, history
<1>0. NoSnapshot \in Snapshots /\ 1 \in Files /\ None \in Versions \cup {None}
  BY DEF NoSnapshot, Snapshots, Files
<1>1. CASE Publish
  <2>1. around' \in [Loads -> SUBSET Versions]
    BY <1>1 DEF Publish
  <2> QED BY <1>1, <2>1 DEF Publish
<1>2. ASSUME NEW p \in Processes, Expire(p) PROVE TypeOK'
  BY <1>0, <1>2 DEF Expire
<1>3. ASSUME NEW p \in Processes, Crash(p) PROVE TypeOK'
  <2>1. PlaceOK' /\ LocalsOK'
    BY <1>0, <1>3 DEF Crash, Resting
  <2> QED BY <1>0, <1>3, <2>1 DEF Crash
<1>4. ASSUME NEW l \in Loads, Start(l) PROVE TypeOK'
  <2>1. pc' \in [Loads -> Steps \cup Resting]
    BY <1>4, GotoType DEF Start, Steps
  <2>2. {published} \cup ({want[k] : k \in Loads} \ {None}) \in SUBSET Versions
    OBVIOUS
  <2>3. around' \in [Loads -> SUBSET Versions]
    BY <1>4, <2>2 DEF Start
  <2>4. solo' \subseteq Loads /\ late' \subseteq Loads
    BY <1>4 DEF Start
  <2> QED BY <1>4, <2>1, <2>3, <2>4 DEF Start
<1>5. ASSUME NEW l \in Loads, Step(l) PROVE TypeOK'
  <2>1. CASE Resolve(l) \/ CheckRecord(l) \/ Download(l)
    <3>1. pc' \in [Loads -> Steps \cup Resting]
      BY <2>1, GotoType DEF Resolve, CheckRecord, Download, Steps
    <3> QED BY <2>1, <3>1 DEF Resolve, CheckRecord, Download
  <2>2. CASE CheckFile(l)
    <3>1. PlaceOK'
      BY <1>0, <2>2, NextFileType, GotoFileType DEF CheckFile, Steps
    <3> QED BY <2>2, <3>1 DEF CheckFile
  <2>3. CASE Install(l)
    <3>1. PlaceOK'
      BY <2>3, NextFileType DEF Install, Steps
    <3>2. file' \in Snapshots
      BY <2>3 DEF Install, Snapshots
    <3> QED BY <2>3, <3>1, <3>2 DEF Install
  <2>4. CASE Record(l)
    <3>1. pc' \in [Loads -> Steps \cup Resting]
      BY <2>4, GotoType DEF Record, Steps
    <3> QED BY <2>4, <3>1 DEF Record
  <2>5. CASE SyncFails(l)
    <3>1. PlaceOK'
      BY <1>0, <2>5, GotoFileType DEF SyncFails, Steps
    <3>2. around' \in [Loads -> SUBSET Versions]
      BY <2>5 DEF SyncFails
    <3> QED BY <2>5, <3>1, <3>2 DEF SyncFails
  <2>6. CASE Fallback(l)
    <3>1. PlaceOK' /\ LocalsOK'
      BY <2>6, GotoType, ReturnType DEF Fallback, Steps, Resting
    <3> QED BY <2>6, <3>1 DEF Fallback
  <2>7. CASE Read(l)
    <3>1. PlaceOK'
      BY <2>7, NextFileType, ReturnType DEF Read, Steps, Resting
    <3>2. seen' \in [Loads -> Snapshots]
      <4>1. file[next[l]] \in Versions \cup {None}
        BY DEF Snapshots
      <4>2. [seen[l] EXCEPT ![next[l]] = file[next[l]]] \in Snapshots
        BY <4>1 DEF Snapshots
      <4>3. CASE file[next[l]] = None
        BY <2>7, <4>3, ReturnType DEF Read, Resting
      <4>4. CASE seen' = [seen EXCEPT ![l] = [@ EXCEPT ![next[l]] = file[next[l]]]]
        BY <4>2, <4>4
      <4> QED BY <2>7, <4>3, <4>4 DEF Read
    <3>3. /\ want' \in [Loads -> Versions \cup {None}]
          /\ around' \in [Loads -> SUBSET Versions]
      BY <2>7, ReturnType DEF Read, Resting
    <3> QED BY <2>7, <3>1, <3>2, <3>3 DEF Read
  <2>8. CASE Store(l)
    <3>1. PlaceOK' /\ LocalsOK'
      BY <2>8, ReturnType DEF Store, Resting
    <3> QED BY <2>8, <3>1 DEF Store
  <2> QED
    BY <1>5, <2>1, <2>2, <2>3, <2>4, <2>5, <2>6, <2>7, <2>8 DEF Step
<1>6. CASE UNCHANGED vars
  BY <1>6 DEF vars
<1> QED BY <1>1, <1>2, <1>3, <1>4, <1>5, <1>6 DEF Next

(* Every reachable state is well typed.                                      *)
THEOREM CatalogTypes == Spec => []TypeOK
BY InitTypes, NextTypes, PTL DEF Spec

-----------------------------------------------------------------------------
(* A load that reads finds what it needs: the files are all there once a     *)
(* load checked or wrote them, and stay.                                     *)
Holds(l) ==
  /\ pc[l] \notin {"CheckFile", "Install", "Read"} => next[l] = 1
  /\ pc[l] \in {"CheckFile", "Install"} =>
       \A f \in Done(l) : file[f] # None
  /\ pc[l] = "Install" => want[l] # None
  /\ pc[l] \in {"Record", "Read", "Store"} => Installed
  /\ pc[l] \in {"CheckRecord", "CheckFile", "Download", "Record"} => want[l] # None

AInv ==
  /\ TypeOK
  /\ late # {} => Installed
  /\ \A l \in Loads : Holds(l)
  /\ AvailableOnceInstalled

(* No step takes a file away.                                                *)
LEMMA FilesStay ==
  ASSUME TypeOK, \A l \in Loads : Holds(l), [Next]_vars
  PROVE  \A f \in Files : file[f] # None => file'[f] # None
<1>1. CASE \E l \in Loads : Install(l)
  BY <1>1 DEF Install, Holds, TypeOK, Snapshots
<1>2. CASE UNCHANGED file
  BY <1>2
<1> QED
  BY <1>1, <1>2 DEF Next, vars, Step, disk, Publish, Expire, Crash, Start, Resolve,
       CheckRecord, CheckFile, Download, Record, SyncFails, Fallback, Read, Store

(* A load's step leaves the others where they are.                           *)
Stands(k) == /\ pc'[k] = pc[k] /\ want'[k] = want[k]
             /\ next'[k] = next[k] /\ seen'[k] = seen[k]

(* A load's step leaves the place and the locals of the others as they are.  *)
LEMMA OthersStand ==
  ASSUME TypeOK, NEW l \in Loads, Start(l) \/ Step(l)
  PROVE  \A k \in Loads \ {l} : Stands(k)
<1> USE DEF TypeOK, Stands, Goto, GotoFile, locals
<1>1. CASE Start(l) \/ Resolve(l) \/ CheckRecord(l) \/ Download(l) \/ Record(l)
  BY <1>1 DEF Start, Resolve, CheckRecord, Download, Record
<1>2. CASE CheckFile(l) \/ Install(l) \/ SyncFails(l)
  BY <1>2 DEF CheckFile, Install, SyncFails, NextFile
<1>3. CASE Fallback(l) \/ Store(l)
  BY <1>3 DEF Fallback, Store, Return
<1>4. CASE Read(l)
  BY <1>4 DEF Read, Return, NextFile
<1> QED BY <1>1, <1>2, <1>3, <1>4 DEF Step

(* Where NextFile takes a load.                                              *)
LEMMA NextFileMoves ==
  ASSUME TypeOK, NEW l \in Loads, NEW step, NextFile(l, step)
  PROVE  /\ next[l] < 3 => pc'[l] = pc[l] /\ next'[l] = next[l] + 1
         /\ ~(next[l] < 3) => pc'[l] = step /\ next'[l] = 1 /\ next[l] = 3
BY DEF TypeOK, NextFile, GotoFile, Goto, Files

(* If the file a load handles has P and those before it have, so have those  *)
(* before the next one, and all three after the last.                        *)
LEMMA DoneGrows ==
  ASSUME NEW n \in Files
  PROVE  /\ {f \in Files : f < n + 1} = {f \in Files : f < n} \cup {n}
         /\ n = 3 => Files = {f \in Files : f < n} \cup {n}
         /\ {f \in Files : f < 1} = {}
BY DEF Files

(* A step of load l keeps what Holds says of it.                             *)
LEMMA HoldsKept ==
  ASSUME AInv, TypeOK', NEW l \in Loads, Start(l) \/ Step(l),
         \A f \in Files : file[f] # None => file'[f] # None
  PROVE  Holds(l)'
<1> USE DEF AInv, Goto, GotoFile
<1>0. /\ next[l] \in Files /\ pc[l] \in Steps \cup Resting /\ Holds(l)
      /\ published # None
  BY DEF TypeOK, Versions, None
<1>p. pc \in [Loads -> Steps \cup Resting] /\ next \in [Loads -> Files]
  BY DEF TypeOK
<1>w. want \in [Loads -> Versions \cup {None}]
  BY DEF TypeOK
<1>1. CASE Start(l) \/ SyncFails(l)
  BY <1>0, <1>1, <1>p DEF Start, SyncFails, Holds, locals, Active, Resting
<1>2. CASE Resolve(l)
  BY <1>0, <1>2, <1>p, <1>w DEF Resolve, Holds
<1>3. CASE CheckRecord(l)
  BY <1>0, <1>3, <1>p, <1>w, DoneGrows
  DEF CheckRecord, Holds, disk, locals, Done
<1>4. CASE CheckFile(l)
  <2>1. CASE FileMatches(next[l], want[l])
    BY <1>0, <1>4, <2>1, <1>p, NextFileMoves, DoneGrows
    DEF CheckFile, Holds, disk, Done, Installed, FileMatches
  <2>2. CASE ~FileMatches(next[l], want[l])
    BY <1>0, <1>4, <2>2, <1>p DEF CheckFile, Holds
  <2> QED BY <2>1, <2>2
<1>5. CASE Download(l)
  BY <1>0, <1>5, <1>p, <1>w, DoneGrows DEF Download, Holds, disk, locals, Done
<1>6. CASE Install(l)
  <2>1. file'[next[l]] # None
    BY <1>0, <1>6 DEF Install, Holds, TypeOK, Snapshots
  <2>2. want'[l] # None
    BY <1>0, <1>6 DEF Install, Holds
  <2>3. \A f \in Done(l) \cup {next[l]} : file'[f] # None
    BY <1>0, <1>6, <2>1 DEF Install, Holds, Done
  <2> HIDE DEF AInv
  <2> QED
    BY <1>0, <1>6, <2>2, <2>3, <1>p, NextFileMoves, DoneGrows
    DEF Install, Holds, Done, Installed, AInv
<1>7. CASE Record(l)
  BY <1>0, <1>7, <1>p DEF Record, Holds, Installed
<1>8. CASE Fallback(l)
  BY <1>0, <1>8, <1>p DEF Fallback, Holds, disk, locals, Installed, Return
<1>9. CASE Read(l)
  <2>1. file[next[l]] # None
    BY <1>0, <1>9 DEF Read, Holds, Installed
  <2> QED
    BY <1>0, <1>9, <2>1, <1>p, NextFileMoves DEF Read, Holds, disk, Installed
<1>10. CASE Store(l)
  BY <1>0, <1>10, <1>p DEF Store, Holds, Return
<1> QED
  BY <1>1, <1>2, <1>3, <1>4, <1>5, <1>6, <1>7, <1>8, <1>9, <1>10 DEF Step

(* The invariant holds at the start.                                         *)
LEMMA InitAvailable == Init => AInv
<1> SUFFICES ASSUME Init PROVE AInv
  OBVIOUS
<1>1. TypeOK
  BY InitTypes
<1>2. AvailableOnceInstalled /\ late = {}
  BY DEF Init, AvailableOnceInstalled
<1>3. \A l \in Loads : pc[l] = "idle" /\ next[l] = 1
  BY DEF Init
<1> QED BY <1>1, <1>2, <1>3 DEF AInv, Holds

(* Every step keeps the invariant.                                           *)
LEMMA NextAvailable == AInv /\ [Next]_vars => AInv'
<1> SUFFICES ASSUME AInv, [Next]_vars PROVE AInv'
  OBVIOUS
<1>0. TypeOK /\ TypeOK'
  BY NextTypes DEF AInv
<1>1. \A f \in Files : file[f] # None => file'[f] # None
  BY <1>0, FilesStay DEF AInv
<1>2. Installed => Installed'
  BY <1>1 DEF Installed
<1>3. ASSUME NEW l \in Loads, Start(l) \/ Step(l) PROVE AInv'
  <2>1. \A k \in Loads : Holds(k)'
    <3>1. Holds(l)'
      BY <1>0, <1>1, <1>3, HoldsKept
    <3>2. ASSUME NEW k \in Loads \ {l} PROVE Holds(k)'
      <4>1. Stands(k)
        BY <1>0, <1>3, OthersStand
      <4> QED BY <1>1, <1>2, <4>1 DEF AInv, Holds, Stands, Done
    <3> QED BY <3>1, <3>2
  <2>2. late' # {} => Installed'
    BY <1>2, <1>3
    DEF AInv, Holds, Step, Start, Resolve, CheckRecord, CheckFile, Download,
        Install, Record, SyncFails, Fallback, Read, Store, history
  <2>3. pc'[l] = "failed" => l \notin late'
    <3>1. Start(l) \/ Store(l) => pc'[l] # "failed"
      BY <1>0 DEF Start, Store, Return, Goto, GotoFile, TypeOK
    <3>2. Fallback(l) => pc'[l] # "failed" \/ late = {}
      BY <1>0 DEF Fallback, Goto, TypeOK, AInv
    <3>3. Read(l) => pc'[l] # "failed"
      BY <1>0, NextFileMoves DEF Read, AInv, Holds, Installed, TypeOK
    <3>4. CheckFile(l) \/ Install(l) => pc'[l] # "failed"
      BY <1>0, NextFileMoves DEF CheckFile, Install, GotoFile, Goto, TypeOK
    <3>5. Resolve(l) \/ CheckRecord(l) \/ Download(l) \/ Record(l) \/ SyncFails(l)
            => pc'[l] # "failed"
      BY <1>0 DEF Resolve, CheckRecord, Download, Record, SyncFails, GotoFile,
                  Goto, TypeOK
    <3>6. Fallback(l) => late' = late
      BY DEF Fallback, history
    <3> QED BY <1>3, <3>1, <3>2, <3>3, <3>4, <3>5, <3>6 DEF Step
  <2>4. \A k \in Loads \ {l} : pc'[k] = pc[k] /\ (k \in late' <=> k \in late)
    <3>1. late' \ {l} = late \ {l}
      BY <1>3
      DEF Step, Start, Resolve, CheckRecord, CheckFile, Download, Install,
          Record, SyncFails, Fallback, Read, Store, history
    <3> QED BY <1>0, <1>3, <3>1, OthersStand DEF Stands
  <2> QED
    BY <1>0, <2>1, <2>2, <2>3, <2>4 DEF AInv, AvailableOnceInstalled, TypeOK
<1>4. ASSUME NEW p \in Processes, Crash(p) PROVE AInv'
  <2>1. \A l \in Loads : \/ pc'[l] = "idle" /\ next'[l] = 1
                         \/ Stands(l)
    BY <1>0, <1>4 DEF Crash, Stands, TypeOK
  <2>2. file' = file /\ late' \subseteq late
    BY <1>4 DEF Crash, disk
  <2>3. \A l \in Loads : Holds(l)'
    BY <2>1, <2>2 DEF AInv, Holds, Stands, Done, Installed
  <2>4. AvailableOnceInstalled'
    BY <1>0, <2>1, <2>2 DEF AInv, AvailableOnceInstalled, Stands, TypeOK
  <2> QED BY <1>0, <2>2, <2>3, <2>4 DEF AInv, Installed
<1>5. CASE Publish \/ (\E p \in Processes : Expire(p)) \/ UNCHANGED vars
  <2>1. UNCHANGED <<pc, want, next, seen, disk, history>>
    BY <1>5 DEF Publish, Expire, vars, locals
  <2> QED
    BY <1>0, <2>1
    DEF disk, history, AInv, Holds, Done, AvailableOnceInstalled, Installed
<1> QED BY <1>3, <1>4, <1>5 DEF Next

(* loadCatalog keeps working once the three files are there.                 *)
THEOREM CatalogStaysAvailable == Spec => []AvailableOnceInstalled
<1>1. AInv => AvailableOnceInstalled
  BY DEF AInv
<1> QED BY <1>1, InitAvailable, NextAvailable, PTL DEF Spec

-----------------------------------------------------------------------------
(* A load alone on the directory knows the version of every file it has      *)
(* checked, installed or read.                                               *)
Whole(l) ==
  /\ \A k \in Loads \ {l} : ~Active(k)
  /\ pc[l] # "Fallback"
  /\ pc[l] \in {"CheckFile", "Install"} => \A f \in Done(l) : file[f] = want[l]
  /\ pc[l] \in {"Record", "Read"} => \A f \in Files : file[f] = want[l]
  /\ pc[l] = "Read" => \A f \in Done(l) : seen[l][f] = want[l]
  /\ pc[l] = "Store" => \A f \in Files : seen[l][f] = want[l]

WInv == /\ AInv
        /\ \A l \in solo : Active(l) => Whole(l)

(* A load's own step keeps it whole.                                         *)
LEMMA WholeKept ==
  ASSUME SizesTellApart, WInv, AInv', NEW l \in solo, Step(l)
  PROVE  l \in solo' /\ Active(l)' => Whole(l)'
<1> USE DEF Goto, GotoFile
<1>0. /\ l \in Loads /\ next[l] \in Files /\ pc[l] \in Steps /\ Holds(l)
      /\ pc \in [Loads -> Steps \cup Resting] /\ next \in [Loads -> Files]
      /\ want \in [Loads -> Versions \cup {None}]
      /\ seen \in [Loads -> Snapshots] /\ file \in Snapshots
  BY DEF WInv, AInv, TypeOK, Step, Steps, Resolve, CheckRecord, CheckFile, Download,
         Install, Record, SyncFails, Fallback, Read, Store
<1>a. Active(l)
  BY <1>0 DEF Active, Steps, Resting
<1>t. TypeOK
  BY DEF WInv, AInv
<1>w. Whole(l)
  BY <1>a DEF WInv
<1>o. \A k \in Loads \ {l} : ~Active(k)'
  BY <1>0, <1>t, <1>w, OthersStand DEF Stands, Active, Whole
<1>1. CASE SyncFails(l)
  BY <1>1 DEF SyncFails
<1>2. CASE Resolve(l)
  BY <1>0, <1>2, <1>o DEF Resolve, Whole
<1>3. CASE CheckRecord(l) \/ Download(l)
  BY <1>0, <1>3, <1>o, DoneGrows
  DEF CheckRecord, Download, Holds, Whole, locals, Done
<1>4. CASE CheckFile(l)
  <2>1. CASE FileMatches(next[l], want[l])
    <3>1. want[l] \in Versions /\ file[next[l]] \in Versions
      BY <1>0, <1>4, <2>1 DEF CheckFile, Holds, FileMatches, Snapshots
    <3>2. file[next[l]] = want[l]
      BY <2>1, <3>1 DEF FileMatches, SizesTellApart
    <3>3. \A f \in Done(l) \cup {next[l]} : file[f] = want[l]
      BY <1>4, <1>w, <3>2 DEF CheckFile, Whole
    <3> QED
      BY <1>0, <1>4, <1>t, <1>o, <2>1, <3>3, NextFileMoves, DoneGrows
      DEF CheckFile, Whole, disk, Done
  <2>2. CASE ~FileMatches(next[l], want[l])
    BY <1>0, <1>4, <1>o, <2>2 DEF CheckFile, Whole
  <2> QED BY <2>1, <2>2
<1>5. CASE Install(l)
  <2>1. \A f \in Done(l) \cup {next[l]} : file'[f] = want[l]
    BY <1>0, <1>5, <1>w DEF Install, Whole, Done, Snapshots
  <2> QED
    BY <1>0, <1>5, <1>t, <1>o, <2>1, NextFileMoves, DoneGrows
    DEF Install, Whole, Done
<1>6. CASE Record(l)
  BY <1>0, <1>6, <1>o, <1>w, DoneGrows DEF Record, Holds, Whole, locals, Done
<1>7. CASE Fallback(l)
  BY <1>7, <1>w DEF Fallback, Whole
<1>8. CASE Read(l)
  <2>1. file[next[l]] = want[l] /\ want[l] # None
    BY <1>0, <1>8, <1>w DEF Read, Whole, Holds, Installed
  <2>2. \A f \in Done(l) \cup {next[l]} : seen'[l][f] = want[l]
    BY <1>0, <1>8, <1>w, <2>1 DEF Read, Whole, Done, Snapshots
  <2>3. /\ NextFile(l, "Store") /\ want' = want /\ file' = file
    BY <1>8, <2>1 DEF Read, disk
  <2> QED
    BY <1>0, <1>8, <1>t, <1>o, <1>w, <2>2, <2>3, NextFileMoves, DoneGrows
    DEF Read, Whole, Done
<1>9. CASE Store(l)
  BY <1>0, <1>9 DEF Store, Return, Active, Resting
<1> QED
  BY <1>1, <1>2, <1>3, <1>4, <1>5, <1>6, <1>7, <1>8, <1>9 DEF Step

(* A load that ran alone returns one whole version, if sizes tell versions   *)
(* apart.                                                                    *)
THEOREM SoloLoadReturnsOneVersion ==
  ASSUME SizesTellApart PROVE Spec => []SoloLoadIsWhole
<1>1. Init => WInv
  BY InitAvailable DEF Init, WInv
<1>2. WInv /\ [Next]_vars => WInv'
  <2> SUFFICES ASSUME WInv, [Next]_vars PROVE WInv'
    OBVIOUS
  <2>0. AInv' /\ TypeOK /\ TypeOK' /\ solo \subseteq Loads
    BY NextAvailable DEF WInv, AInv, TypeOK
  <2>1. ASSUME NEW l \in Loads, Start(l) PROVE WInv'
    <3>1. CASE \E k \in Loads : Active(k)
      BY <2>0, <2>1, <3>1 DEF Start, WInv
    <3>2. CASE ~\E k \in Loads : Active(k)
      <4>1. solo' = {l} /\ pc'[l] = "Resolve"
        BY <2>0, <2>1, <3>2 DEF Start, Goto, TypeOK
      <4>2. \A k \in Loads \ {l} : ~Active(k)'
        BY <2>0, <2>1, <3>2, OthersStand DEF Stands, Active
      <4> QED BY <2>0, <4>1, <4>2 DEF WInv, Whole
    <3> QED BY <3>1, <3>2
  <2>2. ASSUME NEW l \in Loads, Step(l) PROVE WInv'
    <3>1. Active(l)
      BY <2>2
      DEF Active, Resting, Step, Resolve, CheckRecord, CheckFile, Download,
          Install, Record, SyncFails, Fallback, Read, Store
    <3>2. solo' \subseteq solo
      BY <2>2
      DEF history, Step, Resolve, CheckRecord, CheckFile, Download,
          Install, Record, SyncFails, Fallback, Read, Store
    <3>3. ASSUME NEW k \in solo', Active(k)' PROVE Whole(k)'
      <4>1. CASE k = l
        BY <2>0, <2>2, <3>2, <3>3, <4>1, WholeKept
      <4>2. CASE k # l
        <5>1. k \in Loads \ {l} /\ k \in solo
          BY <2>0, <3>2, <4>2
        <5>2. Active(k)
          BY <2>0, <2>2, <3>3, <5>1, OthersStand DEF Stands, Active
        <5> QED BY <3>1, <5>1, <5>2 DEF WInv, Whole
      <4> QED BY <4>1, <4>2
    <3> QED BY <2>0, <3>3 DEF WInv
  <2>3. ASSUME NEW p \in Processes, Crash(p) PROVE WInv'
    <3>1. \A l \in Loads : pc'[l] = "idle" \/ Stands(l)
      BY <2>0, <2>3 DEF Crash, Stands, TypeOK
    <3>2. file' = file /\ solo' \subseteq solo
      BY <2>3 DEF Crash, disk
    <3> QED
      BY <2>0, <3>1, <3>2 DEF WInv, Whole, Active, Resting, Stands, Done
  <2>4. CASE Publish \/ (\E p \in Processes : Expire(p)) \/ UNCHANGED vars
    <3>1. UNCHANGED <<pc, want, next, seen, disk, history>>
      BY <2>4 DEF Publish, Expire, vars, locals
    <3> QED
      BY <2>0, <3>1 DEF disk, history, WInv, Whole, Active, Done
  <2> QED BY <2>1, <2>2, <2>3, <2>4 DEF Next
<1>3. WInv => SoloLoadIsWhole
  <2> SUFFICES ASSUME WInv, NEW l \in solo, pc[l] = "Store"
               PROVE \A f \in Files : seen[l][f] = want[l]
    BY DEF SoloLoadIsWhole
  <2>1. Active(l)
    BY DEF Active, Resting
  <2> QED BY <2>1 DEF WInv, Whole
<1> QED BY <1>1, <1>2, <1>3, PTL DEF Spec

-----------------------------------------------------------------------------
(* Nothing older comes back.                                                 *)

(* Whatever the other loads write, what a load has checked, installed or     *)
(* read is of a version in around, for all they write is what they resolved. *)
Recent(l) ==
  /\ published \in around[l]
  /\ \A k \in Loads : want[k] # None => want[k] \in around[l]
  /\ pc[l] = "Fallback" => around[l] = Versions
  /\ pc[l] \in {"CheckFile", "Install"} => \A f \in Done(l) : file[f] \in around[l]
  /\ pc[l] \in {"Record", "Read"} => \A f \in Files : file[f] \in around[l]
  /\ pc[l] = "Read" => \A f \in Done(l) : seen[l][f] \in around[l]
  /\ pc[l] = "Store" => \A f \in Files : seen[l][f] \in around[l]

RInv == /\ AInv
        /\ \A l \in Loads : IF Active(l) THEN Recent(l) ELSE want[l] = None

(* What a load resolves is what the registry names, and nothing else changes *)
(* what it wants but its end.                                                *)
LEMMA WantsOnly ==
  ASSUME TypeOK, NEW l \in Loads, Start(l) \/ Step(l)
  PROVE  want'[l] \in {want[l], None, published}
<1>1. CASE Resolve(l)
  BY <1>1 DEF TypeOK, Resolve
<1>2. CASE Fallback(l) \/ Read(l) \/ Store(l)
  BY <1>2 DEF TypeOK, Fallback, Read, Store, Return, locals
<1>3. CASE UNCHANGED want
  BY <1>3
<1> QED
  BY <1>1, <1>2, <1>3 DEF Start, Step, CheckRecord, CheckFile, Download, Install, Record,
     SyncFails, locals

(* A step of one load does not touch what the history says of another.       *)
LEMMA AroundStays ==
  ASSUME TypeOK, NEW l \in Loads, Start(l) \/ Step(l)
  PROVE  \A k \in Loads \ {l} : around'[k] = around[k]
BY DEF TypeOK, Start, Step, Resolve, CheckRecord, CheckFile, Download, Install, Record,
       SyncFails, Fallback, Read, Store, Return, locals

(* Files change only by an Install, which writes what its load resolved.     *)
LEMMA FilesResolved ==
  ASSUME TypeOK, [Next]_vars
  PROVE  \A f \in Files : \/ file'[f] = file[f]
                         \/ \E k \in Loads : pc[k] = "Install" /\ file'[f] = want[k]
<1>1. CASE \E k \in Loads : Install(k)
  BY <1>1 DEF Install, TypeOK, Snapshots
<1>2. CASE UNCHANGED file
  BY <1>2
<1> QED
  BY <1>1, <1>2 DEF Next, vars, Step, disk, Publish, Expire, Crash, Start, Resolve,
       CheckRecord, CheckFile, Download, Record, SyncFails, Fallback, Read, Store

(* The step of a load keeps what Recent says of it.                          *)
LEMMA RecentKept ==
  ASSUME SizesTellApart, RInv, AInv', NEW l \in Loads, Step(l), Active(l)'
  PROVE  Recent(l)'
<1> USE DEF Goto, GotoFile
<1>0. /\ next[l] \in Files /\ pc[l] \in Steps /\ Holds(l) /\ Active(l) /\ Recent(l)
      /\ pc \in [Loads -> Steps \cup Resting] /\ next \in [Loads -> Files]
      /\ want \in [Loads -> Versions \cup {None}]
      /\ seen \in [Loads -> Snapshots] /\ file \in Snapshots
      /\ around \in [Loads -> SUBSET Versions]
  <2>1. pc[l] \in Steps
    BY DEF Step, Steps, Resolve, CheckRecord, CheckFile, Download,
           Install, Record, SyncFails, Fallback, Read, Store
  <2>2. Active(l)
    BY <2>1 DEF Active, Steps, Resting
  <2> QED BY <2>1, <2>2 DEF RInv, AInv, TypeOK
<1>t. TypeOK
  BY DEF RInv, AInv
<1>p. /\ published' = published /\ published \in Versions
      /\ \A k \in Loads \ {l} : want'[k] = want[k]
      /\ want'[l] \in {want[l], None, published}
  <2>1. published' = published
    BY DEF Step, registry, Resolve, CheckRecord, CheckFile, Download,
           Install, Record, SyncFails, Fallback, Read, Store
  <2> QED BY <1>t, <2>1, OthersStand, WantsOnly DEF Stands, TypeOK
<1>w. around[l] \subseteq around'[l] => /\ published' \in around'[l]
                                       /\ \A k \in Loads : want'[k] # None => want'[k] \in around'[l]
  BY <1>0, <1>p DEF Recent
<1>1. CASE SyncFails(l)
  <2>1. around'[l] = Versions
    BY <1>0, <1>1 DEF SyncFails
  <2>2. pc'[l] = "Fallback"
    BY <1>0, <1>1 DEF SyncFails
  <2> QED BY <1>0, <1>w, <2>1, <2>2 DEF Recent
<1>2. CASE Resolve(l)
  BY <1>0, <1>2, <1>w DEF Resolve, Recent
<1>3. CASE CheckRecord(l) \/ Download(l)
  BY <1>0, <1>3, <1>w, DoneGrows DEF CheckRecord, Download, Holds, Recent, locals, Done
<1>4. CASE CheckFile(l)
  <2>0. around' = around
    BY <1>4 DEF CheckFile
  <2>1. CASE FileMatches(next[l], want[l])
    <3>1. want[l] \in Versions /\ file[next[l]] \in Versions
      BY <1>0, <1>4, <2>1 DEF CheckFile, Holds, FileMatches, Snapshots
    <3>2. file[next[l]] = want[l]
      BY <2>1, <3>1 DEF FileMatches, SizesTellApart
    <3>3. \A f \in Done(l) \cup {next[l]} : file[f] \in around[l]
      BY <1>0, <1>4, <3>1, <3>2 DEF CheckFile, Recent, Versions, None
    <3> QED
      BY <1>0, <1>4, <1>t, <1>w, <2>0, <2>1, <3>3, NextFileMoves, DoneGrows
      DEF CheckFile, Recent, disk, Done
  <2>2. CASE ~FileMatches(next[l], want[l])
    BY <1>0, <1>4, <1>w, <2>0, <2>2 DEF CheckFile, Recent
  <2> QED BY <2>1, <2>2
<1>5. CASE Install(l)
  <2>0. around' = around
    BY <1>5 DEF Install
  <2>1. \A f \in Done(l) \cup {next[l]} : file'[f] \in around[l]
    BY <1>0, <1>5 DEF Install, Recent, Holds, Done, Snapshots
  <2> QED
    BY <1>0, <1>5, <1>t, <1>w, <2>0, <2>1, NextFileMoves, DoneGrows
    DEF Install, Recent, Done
<1>6. CASE Record(l)
  BY <1>0, <1>6, <1>w, DoneGrows DEF Record, Holds, Recent, locals, Done
<1>7. CASE Fallback(l)
  <2>1. Installed /\ pc'[l] = "Read" /\ UNCHANGED <<want, next, seen, around, file>>
    BY <1>0, <1>7 DEF Fallback, Return, Active, Resting, locals, disk
  <2>2. around[l] = Versions /\ next[l] = 1
    BY <1>0, <1>7 DEF Fallback, Recent, Holds
  <2>3. \A f \in Files : file[f] \in Versions
    BY <1>0, <2>1 DEF Installed, Snapshots
  <2> QED BY <1>0, <1>w, <2>1, <2>2, <2>3, DoneGrows DEF Recent, Done
<1>8. CASE Read(l)
  <2>1. file[next[l]] \in around[l] /\ file[next[l]] # None
    BY <1>0, <1>8 DEF Read, Recent, Holds, Installed
  <2>2. NextFile(l, "Store") /\ UNCHANGED <<want, around, file>>
    BY <1>8, <2>1 DEF Read, disk
  <2>3. \A f \in Done(l) \cup {next[l]} : seen'[l][f] \in around[l]
    BY <1>0, <1>8, <2>1 DEF Read, Recent, Done, Snapshots
  <2> QED
    BY <1>0, <1>8, <1>t, <1>w, <2>2, <2>3, NextFileMoves, DoneGrows
    DEF Read, Recent, Done
<1>9. CASE Store(l)
  BY <1>0, <1>9 DEF Store, Return, Active, Resting
<1> QED
  BY <1>1, <1>2, <1>3, <1>4, <1>5, <1>6, <1>7, <1>8, <1>9 DEF Step

(* What Recent says of a load survives whatever happens around it: what is   *)
(* installed under it is what another had resolved, what is published is     *)
(* counted.                                                                  *)
LEMMA RecentSurvives ==
  ASSUME RInv, TypeOK', [Next]_vars, NEW l \in Loads, Active(l), Stands(l),
         around[l] \subseteq around'[l], published' \in around'[l],
         \A k \in Loads : want'[k] # None => want'[k] = want[k] \/ want'[k] = published
  PROVE  Recent(l)'
<1>1. Recent(l) /\ TypeOK
  BY DEF RInv, AInv
<1>2. \A k \in Loads : want'[k] # None => want'[k] \in around'[l]
  BY <1>1 DEF Recent
<1>3. \A f \in Files : file[f] \in around[l] => file'[f] \in around'[l]
  <2> SUFFICES ASSUME NEW f \in Files, file[f] \in around[l] PROVE file'[f] \in around'[l]
    OBVIOUS
  <2>1. CASE file'[f] = file[f]
    BY <2>1
  <2>2. ASSUME NEW k \in Loads, pc[k] = "Install", file'[f] = want[k]
        PROVE  file'[f] \in around'[l]
    BY <1>1, <2>2 DEF RInv, AInv, Holds, Recent
  <2> QED BY <1>1, <2>1, <2>2, FilesResolved
<1>4. pc[l] = "Fallback" => around'[l] = Versions
  BY <1>1 DEF Recent, TypeOK
<1> QED BY <1>1, <1>2, <1>3, <1>4 DEF Recent, Stands, Done, Files

(* Each file that a load returns is of a version the registry has named      *)
(* since the load began, or that a load it then joined had resolved,         *)
(* whichever loads write between its steps, unless its own sync failed.      *)
THEOREM LoadsReturnRecent ==
  ASSUME SizesTellApart PROVE Spec => []ServedIsRecent
<1>1. Init => RInv
  BY InitAvailable DEF Init, RInv, Active, Resting
<1>2. RInv /\ [Next]_vars => RInv'
  <2> SUFFICES ASSUME RInv, [Next]_vars PROVE RInv'
    OBVIOUS
  <2>0. AInv' /\ TypeOK /\ TypeOK'
    BY NextAvailable DEF RInv, AInv
  <2>1. ASSUME NEW l \in Loads, Start(l) \/ Step(l) PROVE RInv'
    <3>1. published' = published /\ published \in Versions
      BY <2>0, <2>1 DEF TypeOK, Step, Start, registry, Resolve, CheckRecord, CheckFile, Download,
                 Install, Record, SyncFails, Fallback, Read, Store
    <3>2. \A k \in Loads : want'[k] # None => want'[k] = want[k] \/ want'[k] = published
      BY <2>0, <2>1, OthersStand, WantsOnly DEF Stands
    <3>3. ASSUME NEW k \in Loads \ {l}
          PROVE  IF Active(k)' THEN Recent(k)' ELSE want'[k] = None
      <4>1. Stands(k) /\ around'[k] = around[k] /\ (Active(k)' <=> Active(k))
        BY <2>0, <2>1, OthersStand, AroundStays DEF Stands, Active
      <4>2. CASE Active(k)
        <5>1. published \in around[k]
          BY <4>2 DEF RInv, Recent
        <5> QED BY <2>0, <3>1, <3>2, <4>1, <4>2, <5>1, RecentSurvives
      <4> QED BY <4>1, <4>2 DEF RInv, Stands
    <3>4. IF Active(l)' THEN Recent(l)' ELSE want'[l] = None
      <4>1. CASE Start(l)
        <5>1. pc'[l] = "Resolve" /\ UNCHANGED <<want, seen, next, file>>
          BY <2>0, <4>1 DEF Start, Goto, TypeOK, disk
        <5>2. around'[l] = {published} \cup ({want[k] : k \in Loads} \ {None})
          BY <2>0, <4>1 DEF Start, TypeOK
        <5> QED BY <3>1, <5>1, <5>2 DEF Recent, Active, Resting
      <4>2. CASE Step(l)
        <5>1. CASE Active(l)'
          BY <2>0, <4>2, <5>1, RecentKept
        <5>2. CASE ~Active(l)'
          <6>1. pc'[l] \in Resting
            BY <5>2 DEF Active
          <6>2. CASE Return(l, "idle") \/ Return(l, "failed")
            BY <2>0, <5>2, <6>2 DEF Return, TypeOK
          <6>3. CASE Goto(l, "Read") \/ (\E s \in Steps : Goto(l, s))
            BY <2>0, <6>1, <6>3 DEF Goto, TypeOK, Steps, Resting
          <6>4. CASE NextFile(l, "Read") \/ NextFile(l, "Record") \/ NextFile(l, "Store")
            <7>1. pc[l] \in Steps
              BY <4>2 DEF Step, Steps, Resolve, CheckRecord, CheckFile, Download,
                         Install, Record, SyncFails, Fallback, Read, Store
            <7> QED BY <2>0, <6>1, <6>4, <7>1, NextFileMoves DEF Steps, Resting
          <6> QED
            BY <4>2, <6>2, <6>3, <6>4
            DEF Step, Steps, Resolve, CheckRecord, CheckFile, Download,
                Install, Record, SyncFails, Fallback, Read, Store, GotoFile
        <5> QED BY <5>1, <5>2
      <4> QED BY <2>1, <4>1, <4>2
    <3> QED BY <2>0, <3>3, <3>4 DEF RInv
  <2>2. ASSUME NEW p \in Processes, Crash(p) PROVE RInv'
    <3>1. ASSUME NEW l \in Loads
          PROVE  \/ Stands(l) /\ around'[l] = around[l]
                 \/ (pc'[l] = "idle" /\ want'[l] = None)
      BY <2>0, <2>2 DEF Crash, Stands, TypeOK
    <3>2. published' = published
      BY <2>2 DEF Crash, registry
    <3>3. ASSUME NEW l \in Loads PROVE IF Active(l)' THEN Recent(l)' ELSE want'[l] = None
      <4>1. CASE Stands(l) /\ around'[l] = around[l]
        <5>1. CASE Active(l)
          <6>1. published \in around[l]
            BY <5>1 DEF RInv, Recent
          <6>2. Recent(l)'
            BY <2>0, <3>1, <3>2, <4>1, <5>1, <6>1, RecentSurvives DEF Stands
          <6> QED BY <4>1, <5>1, <6>2 DEF Stands, Active
        <5> QED BY <4>1, <5>1 DEF RInv, Stands, Active
      <4>2. CASE pc'[l] = "idle" /\ want'[l] = None
        BY <4>2 DEF Active, Resting
      <4> QED BY <3>1, <4>1, <4>2
    <3> QED BY <2>0, <3>3 DEF RInv
  <2>3. CASE Publish \/ (\E p \in Processes : Expire(p)) \/ UNCHANGED vars
    <3>1. UNCHANGED <<pc, want, next, seen>>
      BY <2>3 DEF Publish, Expire, vars, locals
    <3>2. ASSUME NEW l \in Loads, Active(l)
          PROVE  around[l] \subseteq around'[l] /\ published' \in around'[l]
      BY <2>0, <2>3, <3>2 DEF Publish, Expire, vars, locals, registry, RInv, Recent, TypeOK
    <3>3. ASSUME NEW l \in Loads PROVE IF Active(l)' THEN Recent(l)' ELSE want'[l] = None
      <4>1. Stands(l) /\ (Active(l)' <=> Active(l))
        BY <3>1 DEF Stands, Active
      <4>2. CASE Active(l)
        BY <2>0, <3>1, <3>2, <4>1, <4>2, RecentSurvives
      <4> QED BY <4>1, <4>2 DEF RInv, Stands
    <3> QED BY <2>0, <3>3 DEF RInv
  <2> QED BY <2>1, <2>2, <2>3 DEF Next
<1>3. RInv => ServedIsRecent
  BY DEF RInv, Recent, ServedIsRecent, Active, Resting
<1> QED BY <1>1, <1>2, <1>3, PTL DEF Spec

-----------------------------------------------------------------------------
(* Going on.                                                                 *)

(* How far a load has come: a failed sync is further on than what it gave up *)
(* and a step that goes over the files counts them.                          *)
Position(step) ==
  CASE step = "Resolve" -> 1 [] step = "CheckRecord" -> 2 [] step = "CheckFile" -> 3
    [] step = "Download" -> 4 [] step = "Install" -> 5 [] step = "Record" -> 6
    [] step = "Fallback" -> 7 [] step = "Read" -> 8 [] step = "Store" -> 9 [] OTHER -> 0
Closer(l) ==
  \/ Position(pc'[l]) > Position(pc[l])
  \/ pc'[l] = pc[l] /\ next'[l] > next[l]

(* A load ends or comes closer to its end with each of its steps, and is set *)
(* back by nobody else's.                                                    *)
GoesForward ==
  \A l \in Loads :
    /\ Step(l) => ~Active(l)' \/ Closer(l)
    /\ Active(l) => ~Active(l)' \/ Closer(l) \/ UNCHANGED <<pc[l], next[l]>>

(* A step over the files goes on to the next file or to a later step.        *)
LEMMA NextFileOnward ==
  ASSUME TypeOK, NEW l \in Loads, NEW step \in Steps, NextFile(l, step),
         Position(step) > Position(pc[l])
  PROVE  Closer(l)
<1>. pc \in [Loads -> Steps \cup Resting] /\ next \in [Loads -> Files]
  BY DEF TypeOK
<1>1. CASE next[l] < 3
  <2>1. pc'[l] = pc[l] /\ next'[l] = next[l] + 1
    BY <1>1 DEF NextFile, GotoFile, Goto
  <2> QED BY <2>1 DEF Closer, Files
<1>2. CASE ~(next[l] < 3)
  BY <1>2 DEF NextFile, GotoFile, Goto, Closer
<1> QED BY <1>1, <1>2

(* Every step of a load is one ahead, or its last.                           *)
LEMMA StepOnward ==
  ASSUME TypeOK, NEW l \in Loads, Step(l)
  PROVE  ~Active(l)' \/ Closer(l)
<1>. pc \in [Loads -> Steps \cup Resting]
  BY DEF TypeOK
<1>1. CASE Resolve(l) \/ CheckRecord(l) \/ Download(l) \/ Record(l) \/ SyncFails(l)
  BY <1>1 DEF Resolve, CheckRecord, Download, Record, SyncFails, GotoFile, Goto, Closer, Position
<1>2. CASE CheckFile(l)
  <2>1. CASE NextFile(l, "Read")
    BY <1>2, <2>1, NextFileOnward DEF CheckFile, Position, Steps
  <2>2. CASE GotoFile(l, "Download", 1)
    BY <1>2, <2>2 DEF CheckFile, GotoFile, Goto, Closer, Position
  <2> QED BY <1>2, <2>1, <2>2 DEF CheckFile
<1>3. CASE Install(l)
  BY <1>3, NextFileOnward DEF Install, Position, Steps
<1>4. CASE Fallback(l)
  BY <1>4 DEF Fallback, Return, GotoFile, Goto, Closer, Position, Active, Resting
<1>5. CASE Read(l)
  <2>1. CASE NextFile(l, "Store")
    BY <1>5, <2>1, NextFileOnward DEF Read, Position, Steps
  <2>2. CASE Return(l, "failed")
    BY <2>2 DEF Return, GotoFile, Goto, Active, Resting
  <2> QED BY <1>5, <2>1, <2>2 DEF Read
<1>6. CASE Store(l)
  BY <1>6 DEF Store, Return, GotoFile, Goto, Active, Resting
<1> QED BY <1>1, <1>2, <1>3, <1>4, <1>5, <1>6 DEF Step

(* A load ends or comes closer to its end with each of its steps and is set  *)
(* back by no other, nor by a version that is published meanwhile, a file    *)
(* that is replaced under it or a sync that fails: it takes at most 27 of    *)
(* them (the safety half of EveryLoadEnds, loadCatalog).                     *)
THEOREM LoadsGoForward == Spec => [][GoesForward]_vars
<1>1. TypeOK /\ [Next]_vars => [GoesForward]_vars
  <2> SUFFICES ASSUME TypeOK, Next, NEW l \in Loads
               PROVE  /\ Step(l) => ~Active(l)' \/ Closer(l)
                      /\ Active(l) => ~Active(l)' \/ Closer(l) \/ UNCHANGED <<pc[l], next[l]>>
    BY DEF GoesForward
  <2>1. Step(l) => ~Active(l)' \/ Closer(l)
    BY StepOnward
  <2>2. ASSUME NEW k \in Loads \ {l}, Start(k) \/ Step(k) PROVE UNCHANGED <<pc[l], next[l]>>
    BY <2>2 DEF Start, Step, Resolve, CheckRecord, CheckFile, Download, Install, Record, SyncFails,
                Fallback, Read, Store, NextFile, Return, GotoFile, Goto, locals, TypeOK
  <2>3. Start(l) => ~Active(l)
    BY DEF Start
  <2>4. ASSUME Publish \/ \E p \in Processes : Expire(p) PROVE UNCHANGED <<pc[l], next[l]>>
    BY <2>4 DEF Publish, Expire, locals
  <2>5. ASSUME NEW p \in Processes, Crash(p) PROVE ~Active(l)' \/ UNCHANGED <<pc[l], next[l]>>
    BY <2>5 DEF Crash, Active, Resting, TypeOK
  <2> QED BY <2>1, <2>2, <2>3, <2>4, <2>5 DEF Next
<1> QED BY <1>1, CatalogTypes, PTL DEF Spec
=============================================================================
