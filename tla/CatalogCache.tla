---------------------------- MODULE CatalogCache ----------------------------
(***************************************************************************)
(* The instance catalog (src/internal/aws/catalog.go and                   *)
(* catalog_registry.go).  A dataset is three JSON files that the registry  *)
(* publishes together under one version.  loadCatalog keeps a snapshot in  *)
(* cached for cacheWindow; when it is gone it resolves the version to use, *)
(* brings the three files under $HOME/.arcoloom up to date and reads them  *)
(* back.  The mutex covers only the snapshot, so the loads of one process, *)
(* and of all the processes of a host, share the files without a lock; a   *)
(* process may die between any two file operations.                        *)
(***************************************************************************)
EXTENDS Naturals

CONSTANTS
  Processes,     \* provider processes that share the directory
  Loads,         \* concurrent calls of loadCatalog
  ProcessOf,     \* ProcessOf[l]: the process of load l
  MaxVersion,    \* dataset versions the registry may publish
  Size           \* Size[v]: the declared size of the files of version v

Files == 1..3    \* instance_metadata, instance_regions, series_models
Versions == 1..MaxVersion
None == 0
NoSnapshot == [f \in Files |-> None]

ASSUME VersionAssumption == MaxVersion \in Nat \ {0}
ASSUME ProcessAssumption == ProcessOf \in [Loads -> Processes]
ASSUME SizeAssumption == Size \in [Versions -> Nat]

VARIABLES
  published,  \* the version the registry's channel points to
  file,       \* file[f]: the version of the f-th catalog file, or None
  recorded,   \* the version that resolve.json describes, or None
  cached,     \* cached[p]: the versions in the snapshot of process p; an
              \* expired one is never read again and counts as NoSnapshot
  pc, want,   \* a load's next step, the version it resolved
  next,       \* the file it checks, installs or reads next
  seen,       \* the versions of the files it has read
  around,     \* history: the versions published since a load began and those
              \* that the loads it then joined had resolved; every version
              \* once its sync failed; {} for a load that rests
  solo,       \* history: the load no other overlaps and to which nothing failed
  late        \* history: loads that started when all three files were there

registry == published
disk == <<file, recorded>>
locals == <<want, next, seen, around>>
history == <<solo, late>>
vars == <<registry, disk, cached, pc, locals, history>>

Resting == {"idle", "failed"}
Steps == {"Resolve", "CheckRecord", "CheckFile", "Download", "Install",
          "Record", "Fallback", "Read", "Store"}
Snapshots == [Files -> Versions \cup {None}]

(* Every variable has its type.                                              *)
TypeOK ==
  /\ published \in Versions
  /\ file \in Snapshots
  /\ recorded \in Versions \cup {None}
  /\ cached \in [Processes -> Snapshots]
  /\ pc \in [Loads -> Steps \cup Resting]
  /\ want \in [Loads -> Versions \cup {None}]
  /\ next \in [Loads -> Files]
  /\ seen \in [Loads -> Snapshots]
  /\ around \in [Loads -> SUBSET Versions]
  /\ solo \subseteq Loads /\ late \subseteq Loads

Active(l) == pc[l] \notin Resting
Installed == \A f \in Files : file[f] # None

(* A variant that only asks whether the file exists.                         *)
FileMatchesAny(f, v) == file[f] # None

(* localRegistryFilesMatch for one file: it exists and, if the registry      *)
(* declares a size, has that size.  Its checksum is not looked at.           *)
FileMatches(f, v) == file[f] # None /\ (Size[v] > 0 => Size[file[f]] = Size[v])

Fresh(p) == cached[p] # NoSnapshot

Goto(l, step) == pc' = [pc EXCEPT ![l] = step]
GotoFile(l, step, f) == Goto(l, step) /\ next' = [next EXCEPT ![l] = f]

(* The load returns, with a catalog ("idle") or an error; its locals are gone. *)
Return(l, result) ==
  /\ GotoFile(l, result, 1)
  /\ want' = [want EXCEPT ![l] = None]
  /\ seen' = [seen EXCEPT ![l] = NoSnapshot]
  /\ around' = [around EXCEPT ![l] = {}]

(* Do the same for the following file; after the last one, go on to step.    *)
NextFile(l, step) ==
  IF next[l] < 3 THEN GotoFile(l, pc[l], next[l] + 1) ELSE GotoFile(l, step, 1)

-----------------------------------------------------------------------------
(* The registry moves its channel to a newer version, or back to an older.   *)
Publish ==
  /\ published' \in Versions \ {published}
  /\ around' = [l \in Loads |-> IF Active(l) THEN around[l] \cup {published'} ELSE {}]
  /\ UNCHANGED <<disk, cached, pc, want, next, seen, history>>

(* cacheWindow passes.                                                       *)
Expire(p) ==
  /\ Fresh(p) /\ cached' = [cached EXCEPT ![p] = NoSnapshot]
  /\ UNCHANGED <<registry, disk, pc, locals, history>>

(* loadCatalog finds no snapshot or an old one, and lets go of the mutex.    *)
(* With a fresh snapshot it returns it and nothing changes.                  *)
Start(l) ==
  /\ ~Active(l) /\ ~Fresh(ProcessOf[l])
  /\ Goto(l, "Resolve")
  /\ solo' = IF \E k \in Loads : Active(k) THEN {} ELSE {l}
  /\ late' = IF Installed THEN late \cup {l} ELSE late \ {l}
  /\ around' = [around EXCEPT
       ![l] = {published} \cup ({want[k] : k \in Loads} \ {None})]
  /\ UNCHANGED <<registry, disk, cached, want, next, seen>>

(* A variant that trusts resolve.json if there is one.                       *)
ResolveFromRecord(l) ==
  /\ pc[l] = "Resolve"
  /\ want' = [want EXCEPT ![l] = IF recorded # None THEN recorded ELSE published]
  /\ Goto(l, "CheckRecord")
  /\ UNCHANGED <<registry, disk, cached, next, seen, around, history>>

(* resolveRegistryDataset, validateRegistryDatasetResolve.                   *)
Resolve(l) ==
  /\ pc[l] = "Resolve"
  /\ want' = [want EXCEPT ![l] = published]
  /\ Goto(l, "CheckRecord")
  /\ UNCHANGED <<registry, disk, cached, next, seen, around, history>>

(* loadCachedRegistryResolve, registryDatasetVersionMatches.                 *)
CheckRecord(l) ==
  /\ pc[l] = "CheckRecord"
  /\ Goto(l, IF recorded = want[l] THEN "CheckFile" ELSE "Download")
  /\ UNCHANGED <<registry, disk, cached, locals, history>>

(* localRegistryFilesMatch: one stat per file; a mismatch means a download.  *)
CheckFile(l) ==
  /\ pc[l] = "CheckFile"
  /\ IF FileMatches(next[l], want[l])
       THEN NextFile(l, "Read")
       ELSE GotoFile(l, "Download", 1)
  /\ UNCHANGED <<registry, disk, cached, want, seen, around, history>>

(* downloadRegistryFiles, first loop: all three files come into a private    *)
(* directory, each with the size and checksum of the version resolved.       *)
Download(l) ==
  /\ pc[l] = "Download"
  /\ Goto(l, "Install")
  /\ UNCHANGED <<registry, disk, cached, locals, history>>

(* A variant that clears the directory before it installs.                   *)
InstallCleared(l) ==
  /\ pc[l] = "Install"
  /\ file' = [f \in Files |-> IF f = next[l] THEN want[l]
                              ELSE IF f < next[l] THEN file[f] ELSE None]
  /\ NextFile(l, "Record")
  /\ UNCHANGED <<registry, recorded, cached, want, seen, around, history>>

(* Second loop: writeCacheFile renames each file into place.                 *)
Install(l) ==
  /\ pc[l] = "Install"
  /\ file' = [file EXCEPT ![next[l]] = want[l]]
  /\ NextFile(l, "Record")
  /\ UNCHANGED <<registry, recorded, cached, want, seen, around, history>>

(* writeCatalogResolveCache.                                                 *)
Record(l) ==
  /\ pc[l] = "Record"
  /\ recorded' = want[l]
  /\ Goto(l, "Read")
  /\ UNCHANGED <<registry, file, cached, locals, history>>

(* A variant that tries again instead of giving up.                          *)
SyncRetries(l) ==
  /\ pc[l] \in {"Resolve", "Download", "Install", "Record"}
  /\ GotoFile(l, "Resolve", 1)
  /\ solo' = solo \ {l}
  /\ UNCHANGED <<registry, disk, cached, want, seen, around, late>>

(* syncRegistryDataset fails: no registry, a bad download, a full disk or a  *)
(* cancelled context.  What was renamed stays.                               *)
SyncFails(l) ==
  /\ pc[l] \in {"Resolve", "Download", "Install", "Record"}
  /\ GotoFile(l, "Fallback", 1)
  /\ solo' = solo \ {l}
  /\ around' = [around EXCEPT ![l] = Versions]
  /\ UNCHANGED <<registry, disk, cached, want, seen, late>>

(* loadRegistryCatalog after a failed sync: whatever three files are there   *)
(* will do (localCatalogFilesExist), otherwise the load returns the error.   *)
Fallback(l) ==
  /\ pc[l] = "Fallback"
  /\ IF Installed
       THEN Goto(l, "Read") /\ UNCHANGED locals
       ELSE Return(l, "failed")
  /\ UNCHANGED <<registry, disk, cached, history>>

(* loadLocalJSON; a file that is not there is an error.                      *)
Read(l) ==
  /\ pc[l] = "Read"
  /\ IF file[next[l]] = None
       THEN Return(l, "failed")
       ELSE /\ seen' = [seen EXCEPT ![l][next[l]] = file[next[l]]]
            /\ NextFile(l, "Store")
            /\ UNCHANGED <<want, around>>
  /\ UNCHANGED <<registry, disk, cached, history>>

(* loadCatalog takes the mutex again, keeps the snapshot and returns it.     *)
Store(l) ==
  /\ pc[l] = "Store"
  /\ cached' = [cached EXCEPT ![ProcessOf[l]] = seen[l]]
  /\ Return(l, "idle")
  /\ solo' = solo \ {l} /\ late' = late \ {l}
  /\ UNCHANGED <<registry, disk>>

(* The process dies: its loads and its snapshot are gone, the files stay.    *)
Crash(p) ==
  /\ cached' = [cached EXCEPT ![p] = NoSnapshot]
  /\ LET left(f, v) == [l \in Loads |-> IF ProcessOf[l] = p THEN v ELSE f[l]] IN
       /\ pc' = left(pc, "idle")
       /\ want' = left(want, None)
       /\ next' = left(next, 1)
       /\ seen' = left(seen, NoSnapshot)
       /\ around' = left(around, {})
  /\ LET gone == {l \in Loads : ProcessOf[l] = p} IN
       solo' = solo \ gone /\ late' = late \ gone
  /\ UNCHANGED <<registry, disk>>

-----------------------------------------------------------------------------
Init ==
  /\ published \in Versions
  /\ file = NoSnapshot /\ recorded = None
  /\ cached = [p \in Processes |-> NoSnapshot]
  /\ pc = [l \in Loads |-> "idle"]
  /\ want = [l \in Loads |-> None]
  /\ next = [l \in Loads |-> 1]
  /\ seen = [l \in Loads |-> NoSnapshot]
  /\ around = [l \in Loads |-> {}]
  /\ solo = {} /\ late = {}

Step(l) ==
  \/ Resolve(l) \/ CheckRecord(l) \/ CheckFile(l) \/ Download(l)
  \/ Install(l) \/ Record(l) \/ SyncFails(l) \/ Fallback(l)
  \/ Read(l) \/ Store(l)

Next ==
  \/ Publish
  \/ \E p \in Processes : Expire(p) \/ Crash(p)
  \/ \E l \in Loads : Start(l) \/ Step(l)

Spec == Init /\ [][Next]_vars

(* A load that has work to do goes on; nobody has to call it, and neither    *)
(* the registry nor a crash is owed.                                         *)
FairSpec == Spec /\ \A l \in Loads : WF_vars(Step(l))

-----------------------------------------------------------------------------
(* A load that ran with no other beside it, and to which nothing failed,     *)
(* returns the three files of the one version the registry named, whatever   *)
(* mixture of files crashes, failures, races and rollbacks left behind       *)
(* before it (syncRegistryDataset; given files whose sizes differ between    *)
(* versions, see the README for what happens otherwise).                     *)
SoloLoadIsWhole ==
  \A l \in solo : pc[l] = "Store" => \A f \in Files : seen[l][f] = want[l]

(* However slow a load is and whatever the other loads write under it, each  *)
(* file it returns is of a version that the registry has named since the     *)
(* load began or that a load it then joined had resolved: it does not bring  *)
(* back anything older, unless its own sync failed (loadCatalog stores what  *)
(* it read last, not what is newest).                                        *)
ServedIsRecent ==
  \A l \in Loads : pc[l] = "Store" => \A f \in Files : seen[l][f] \in around[l]

(* Once the three files are there, no load that starts later fails: they are *)
(* replaced one by one and never taken away, so a registry that is down or a *)
(* process that dies half-way leaves three files to fall back on             *)
(* (loadRegistryCatalog, localCatalogFilesExist).                            *)
AvailableOnceInstalled == \A l \in late : pc[l] # "failed"

(* Every call of loadCatalog returns, with a catalog or an error.            *)
EveryLoadEnds == \A l \in Loads : []<>~Active(l)
=============================================================================
