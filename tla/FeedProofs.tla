----------------------------- MODULE FeedProofs -----------------------------
(***************************************************************************)
(* Proofs about MarketFeed, for every number of accounts and of batches,   *)
(* every set of regions and every answer of ListRegions: the snapshot a    *)
(* client holds is that of one build, and what the build could not find is *)
(* in the warnings that follow it.                                         *)
(***************************************************************************)
EXTENDS MarketFeed, FiniteSetTheorems, WellFoundedInduction, TLAPS

BuildSteps == {"ListRegions", "OnDemand", "Spot", "Batch", "Pause", "Begin",
               "Chunk"}
SentSteps == {"Warn", "Wait"}

(* A pause is between two batches; a feed that waits has sent its warnings.  *)
RestInv ==
  /\ pc = "Pause" => batch < NBatches
  /\ pc = "Wait" => warnings = << >>

(* What a build found and what it has sent carry its token; so does the      *)
(* resume token from the commit on, when nothing is left to send.            *)
StampInv ==
  /\ pc \in BuildSteps => \A x \in offerings : x.build = token
  /\ pc = "Chunk" => \A x \in staging : x.build = token
  /\ pc \in SentSteps => resume = token /\ offerings = {}

Holds(a, r, p) == \E x \in Snapshot : x.scope = a /\ x.region = r /\ x.part = p
Told(r, p) == \E w \in alerts : w.region = r /\ p \in w.parts
ToTell(r, p) ==
  \E i \in DOMAIN warnings : warnings[i].region = r /\ p \in warnings[i].parts
Accounted(a, r, p) == Holds(a, r, p) \/ Told(r, p) \/ ToTell(r, p)

(* The loops over the current account have been past this part.              *)
Visited(r, p) ==
  \/ pc = "OnDemand" /\ p = 0 /\ r \notin todo
  \/ /\ pc \in {"Spot", "Batch", "Pause"}
     /\ \/ p = 0 \/ r \notin todo
        \/ pc = "Batch" /\ IsFirst(r, todo) /\ p < batch
        \/ pc = "Pause" /\ IsFirst(r, todo) /\ p <= batch

Finished(a, r, p) ==
  \/ pc \in {"Begin", "Chunk"} \cup SentSteps
  \/ a < account
  \/ a = account /\ Visited(r, p)

IsDue(a, r, p) == r \in listing[a] /\ (p = 0 \/ r \in TypedRegions)

(* What the loops have been past is in the snapshot or in a warning.         *)
CoverInv ==
  pc \in BuildSteps \cup SentSteps =>
    \A a \in Accounts, r \in Regions, p \in Parts :
      IsDue(a, r, p) /\ Finished(a, r, p) => Accounted(a, r, p)

-----------------------------------------------------------------------------
(* A build starts and ends with blank locals of their types.                 *)
LEMMA BlankTypes ==
  ASSUME Blank
  PROVE  /\ account' \in Accounts /\ listing' \in [Accounts -> SUBSET Regions]
         /\ todo' \subseteq Regions /\ batch' \in Batches
         /\ offerings' = {} /\ warnings' \in Seq(Warnings) /\ alerts' = {}
  BY AccountAssumption, SizeAssumption DEF Blank, Accounts, Batches

(* A part of the market that is found is an offering.                        *)
LEMMA FoundTypes ==
  ASSUME TypeOK, NEW r \in Regions, NEW p \in Parts, Found(r, p)
  PROVE  offerings' \subseteq Offerings /\ warnings' \in Seq(Warnings)
  BY DEF Found, Offering, Offerings, TypeOK

(* A part that is passed over is a warning more.                             *)
LEMMA SkippedTypes ==
  ASSUME TypeOK, NEW r \in Regions, NEW P \in SUBSET Parts, Skipped(r, P)
  PROVE  offerings' \subseteq Offerings /\ warnings' \in Seq(Warnings)
  <1>1. Warning(r, P) \in Warnings
    BY DEF Warning, Warnings
  <1> QED
    BY <1>1 DEF Skipped, TypeOK

(* The parts are 0 and the batches.                                          *)
LEMMA PartsAre == Batches \subseteq Parts /\ 0 \in Parts /\ 1 \in Batches
  BY SizeAssumption DEF Batches, Parts

(* The end of a batch leaves the loop's variables in their types.            *)
LEMMA EndBatchTypes ==
  ASSUME TypeOK, NEW r \in Regions, NEW step, EndBatch(r, step)
  PROVE  /\ pc' \in {"Spot", "Pause", "Batch"} /\ todo' \subseteq Regions
         /\ batch' \in Batches
         /\ pc' = "Pause" => batch' < NBatches
  BY SizeAssumption DEF EndBatch, Goto, TypeOK, Batches

(* The types, with what a batch and the end of the warnings rest on.         *)
Typed == TypeOK /\ RestInv

(* Every step keeps the types and what they rest on.                         *)
LEMMA TypeStep ==
  ASSUME Typed, [Next]_vars
  PROVE  Typed'
<1> USE DEF Typed, Steps
<1>1. CASE Cancel
  BY <1>1 DEF TypeOK, RestInv, Cancel, building, held, client
<1>2. CASE Watch
  BY <1>2 DEF TypeOK, RestInv, Watch, Goto, building, held, client
<1>3. CASE Fail
  BY <1>3, BlankTypes DEF TypeOK, RestInv, Fail, Return, Goto, held
<1>4. CASE Top
  <2>1. Blank /\ token' \in Tokens /\ pc' \in {"ended", "ListRegions"}
    BY <1>4 DEF Top, Return, Goto, TypeOK, Tokens
  <2> QED
    BY <1>4, <2>1, BlankTypes DEF TypeOK, RestInv, Top, held
<1>5. CASE ListRegions
  <2>1. PICK S \in Listings[account] :
          listing' = [listing EXCEPT ![account] = S] /\ todo' = S
    BY <1>5 DEF ListRegions
  <2>2. S \subseteq Regions
    BY RegionAssumption DEF TypeOK
  <2> QED
    BY <1>5, <2>1, <2>2
    DEF TypeOK, RestInv, ListRegions, Goto, client, held
<1>6. CASE OnDemand
  <2>1. CASE todo = {} /\ Goto("Spot") /\ todo' = listing[account]
             /\ UNCHANGED <<offerings, warnings>>
    BY <1>6, <2>1 DEF TypeOK, RestInv, OnDemand, Goto, client, held
  <2>2. CASE \E r \in todo :
               /\ IsFirst(r, todo) /\ todo' = todo \ {r}
               /\ Found(r, 0) \/ Skipped(r, {0})
               /\ UNCHANGED pc
    <3>1. PICK r \in todo : /\ todo' = todo \ {r}
                            /\ Found(r, 0) \/ Skipped(r, {0})
                            /\ UNCHANGED pc
      BY <2>2
    <3>2. r \in Regions
      BY DEF TypeOK
    <3>3. offerings' \subseteq Offerings /\ warnings' \in Seq(Warnings)
      BY <3>1, <3>2, FoundTypes, SkippedTypes, PartsAre
    <3> QED
      BY <1>6, <3>1, <3>3 DEF TypeOK, RestInv, OnDemand, client, held
  <2> QED
    BY <1>6, <2>1, <2>2 DEF OnDemand
<1>7. CASE Spot
  <2>1. warnings' \in Seq(Warnings)
    <3>1. ASSUME NEW r \in todo, warnings' = Append(warnings, Warning(r, Batches))
          PROVE  warnings' \in Seq(Warnings)
      <4>1. Warning(r, Batches) \in Warnings
        BY PartsAre DEF Warning, Warnings, TypeOK
      <4> QED
        BY <3>1, <4>1 DEF TypeOK
    <3> QED
      BY <1>7, <3>1 DEF Spot, TypeOK
  <2>2. account' \in Accounts /\ pc' \in {"ListRegions", "Begin", "Spot", "Batch"}
    BY <1>7, AccountAssumption DEF Spot, NextAccount, Goto, TypeOK, Accounts
  <2>3. todo' \subseteq Regions /\ batch' \in Batches
    BY <1>7, PartsAre DEF Spot, TypeOK
  <2> QED
    BY <1>7, <2>1, <2>2, <2>3 DEF TypeOK, RestInv, Spot, client, held
<1>8. CASE Batch
  <2>1. CASE Return
    BY <1>8, <2>1, BlankTypes DEF TypeOK, RestInv, Batch, Return, Goto, held
  <2>2. CASE ~Return
    <3>1. PICK r \in todo :
            /\ \/ Found(r, batch) /\ EndBatch(r, "Pause")
               \/ Skipped(r, {batch}) /\ EndBatch(r, "Batch")
            /\ UNCHANGED <<token, account, listing, alerts>>
      BY <1>8, <2>2 DEF Batch
    <3>2. r \in Regions /\ batch \in Parts
      BY PartsAre DEF TypeOK
    <3>3. offerings' \subseteq Offerings /\ warnings' \in Seq(Warnings)
      BY <3>1, <3>2, FoundTypes, SkippedTypes
    <3>4. /\ pc' \in {"Spot", "Pause", "Batch"} /\ todo' \subseteq Regions
          /\ batch' \in Batches
          /\ pc' = "Pause" => batch' < NBatches
      BY <3>1, <3>2, EndBatchTypes
    <3> QED
      BY <1>8, <3>1, <3>3, <3>4 DEF TypeOK, RestInv, Batch, held
  <2> QED
    BY <2>1, <2>2
<1>9. CASE Pause
  <2>1. CASE Return
    BY <1>9, <2>1, BlankTypes DEF TypeOK, RestInv, Pause, Return, Goto, held
  <2>2. CASE ~Return
    BY <1>9, <2>2, SizeAssumption
    DEF TypeOK, RestInv, Pause, Goto, held, Batches
  <2> QED
    BY <2>1, <2>2
<1>10. CASE Begin
  BY <1>10 DEF TypeOK, RestInv, Begin, Goto, building
<1>11. CASE Chunk
  BY <1>11 DEF TypeOK, RestInv, Chunk, ChunkOf, building
<1>12. CASE Commit
  BY <1>12 DEF TypeOK, RestInv, Commit, Goto, building
<1>13. CASE Warn
  <2>1. CASE warnings = << >>
    BY <1>13, <2>1 DEF TypeOK, RestInv, Warn, Goto, building
  <2>2. CASE warnings # << >>
    <3>1. warnings' \in Seq(Warnings) /\ alerts' \subseteq Warnings
      <4>1. Tail(warnings) \in Seq(Warnings) /\ Head(warnings) \in Warnings
        BY <2>2 DEF TypeOK
      <4> QED
        BY <1>13, <2>2, <4>1 DEF TypeOK, Warn
    <3> QED
      BY <1>13, <2>2, <3>1 DEF TypeOK, RestInv, Warn, building
  <2> QED
    BY <2>1, <2>2
<1>14. CASE Heartbeat
  <2>1. CASE Return
    BY <1>14, <2>1, BlankTypes DEF TypeOK, RestInv, Heartbeat, Return, Goto
  <2>2. CASE ~Return
    BY <1>14, <2>2 DEF TypeOK, RestInv, Heartbeat, building
  <2> QED
    BY <2>1, <2>2
<1>15. CASE Refresh
  BY <1>15 DEF TypeOK, RestInv, Refresh, Goto, building, held, client
<1>16. CASE EndWait
  BY <1>16, BlankTypes DEF TypeOK, RestInv, EndWait, Return, Goto, held
<1>17. CASE UNCHANGED vars
  BY <1>17 DEF TypeOK, RestInv, vars, building, held, client
<1> QED
  BY <1>1, <1>2, <1>3, <1>4, <1>5, <1>6, <1>7, <1>8, <1>9, <1>10, <1>11,
     <1>12, <1>13, <1>14, <1>15, <1>16, <1>17 DEF Next, Step

(* The first call starts with types.                                         *)
LEMMA TypeInit == Init => Typed
<1> SUFFICES ASSUME Init PROVE Typed
  OBVIOUS
<1>1. account \in Accounts /\ batch \in Batches
  BY AccountAssumption, SizeAssumption DEF Init, Accounts, Batches
<1>2. warnings \in Seq(Warnings)
  BY DEF Init
<1>3. listing \in [Accounts -> SUBSET Regions] /\ todo \subseteq Regions
  BY DEF Init
<1>4. token \in Tokens /\ resume \in Tokens \cup {-1}
  BY DEF Init, Tokens
<1> QED
  BY <1>1, <1>2, <1>3, <1>4 DEF Init, Typed, TypeOK, RestInv, Steps

(* The stronger type invariant holds from the start on.                      *)
LEMMA TypedAlways == Spec => []Typed
  BY TypeInit, TypeStep, PTL DEF Spec

(* Every variable keeps its type, in every interleaving of builds, sends,    *)
(* cancellations and calls.                                                  *)
THEOREM FeedTypes == Spec => []TypeOK
  BY TypedAlways, PTL DEF Typed

-----------------------------------------------------------------------------
(* A build that starts, or a call that ends, has found nothing yet.          *)
LEMMA BlankStamp ==
  ASSUME StampInv, ViewIsOneBuild, Blank, UNCHANGED <<view, resume>>,
         pc' \in {"ended", "ListRegions"}
  PROVE  StampInv' /\ ViewIsOneBuild'
  BY DEF StampInv, ViewIsOneBuild, Blank, BuildSteps, SentSteps

(* A step of the build adds offerings of its own token at most.              *)
LEMMA BuildStamp ==
  ASSUME StampInv, ViewIsOneBuild,
         pc \in BuildSteps, pc' \in BuildSteps \ {"Chunk"},
         UNCHANGED <<token, view, resume>>,
         \A x \in offerings' : x \in offerings \/ x.build = token
  PROVE  StampInv' /\ ViewIsOneBuild'
  BY DEF StampInv, ViewIsOneBuild, BuildSteps, SentSteps

(* What is found carries the token.                                          *)
LEMMA FoundStamp ==
  ASSUME NEW r, NEW p, Found(r, p) \/ UNCHANGED offerings
  PROVE  \A x \in offerings' : x \in offerings \/ x.build = token
  BY DEF Found, Offering

(* Offerings, chunks and the resume token keep to one build at every step.   *)
LEMMA StampStep ==
  ASSUME StampInv, ViewIsOneBuild, [Next]_vars
  PROVE  StampInv' /\ ViewIsOneBuild'
<1> USE DEF BuildSteps, SentSteps, Steps
<1>1. CASE Cancel \/ UNCHANGED vars
  BY <1>1 DEF StampInv, ViewIsOneBuild, Cancel, vars, building, held, client
<1>2. CASE Watch \/ Refresh
  BY <1>2 DEF StampInv, ViewIsOneBuild, Watch, Refresh, Goto, held, client
<1>3. CASE Fail \/ EndWait
  BY <1>3, BlankStamp DEF Fail, EndWait, Return, Goto, held
<1>4. CASE Top
  BY <1>4, BlankStamp DEF Top, Return, Goto, held
<1>5. CASE ListRegions
  BY <1>5, BuildStamp DEF ListRegions, Goto, held, client
<1>6. CASE OnDemand
  <2>1. \E r : Found(r, 0) \/ UNCHANGED offerings
    BY <1>6 DEF OnDemand, Skipped
  <2>2. pc' \in {"Spot", "OnDemand"}
    BY <1>6 DEF OnDemand, Goto
  <2> QED
    BY <1>6, <2>1, <2>2, FoundStamp, BuildStamp DEF OnDemand, held, client
<1>7. CASE Spot
  <2>1. pc' \in {"ListRegions", "Begin", "Spot", "Batch"}
    BY <1>7 DEF Spot, NextAccount, Goto
  <2> QED
    BY <1>7, <2>1, BuildStamp DEF Spot, held, client
<1>8. CASE Batch
  <2>1. CASE Return
    BY <1>8, <2>1, BlankStamp DEF Batch, Return, Goto, held
  <2>2. CASE ~Return
    <3>1. \E r \in todo : \E p, step :
            /\ Found(r, p) \/ UNCHANGED offerings
            /\ EndBatch(r, step) /\ UNCHANGED token
      BY <1>8, <2>2 DEF Batch, Skipped
    <3>2. pc' \in {"Spot", "Pause", "Batch"}
      BY <3>1 DEF EndBatch, Goto
    <3> QED
      BY <1>8, <3>1, <3>2, FoundStamp, BuildStamp DEF Batch, held
  <2> QED
    BY <2>1, <2>2
<1>9. CASE Pause
  <2>1. CASE Return
    BY <1>9, <2>1, BlankStamp DEF Pause, Return, Goto, held
  <2>2. CASE ~Return
    BY <1>9, <2>2, BuildStamp DEF Pause, Goto, held
  <2> QED
    BY <2>1, <2>2
<1>10. CASE Begin
  BY <1>10 DEF StampInv, ViewIsOneBuild, Begin, Goto
<1>11. CASE Chunk
  BY <1>11 DEF StampInv, ViewIsOneBuild, Chunk, ChunkOf
<1>12. CASE Commit
  BY <1>12 DEF StampInv, ViewIsOneBuild, Commit, MoreChunks, Goto
<1>13. CASE Warn
  BY <1>13 DEF StampInv, ViewIsOneBuild, Warn, Goto
<1>14. CASE Heartbeat
  <2>1. CASE Return
    BY <1>14, <2>1 DEF StampInv, ViewIsOneBuild, Heartbeat, Return, Goto
  <2>2. CASE ~Return
    BY <1>14, <2>2 DEF StampInv, ViewIsOneBuild, Heartbeat
  <2> QED
    BY <2>1, <2>2
<1> QED
  BY <1>1, <1>2, <1>3, <1>4, <1>5, <1>6, <1>7, <1>8, <1>9, <1>10, <1>11,
     <1>12, <1>13, <1>14 DEF Next, Step

(* The client never holds offerings of two builds at once, and the token it  *)
(* would resume from is that of the build it holds: after calls cut off in   *)
(* the middle of a snapshot, heartbeats of a later build and tokens that     *)
(* come round.                                                               *)
THEOREM SnapshotOfOneBuild == Spec => []ViewIsOneBuild
<1>1. Init => StampInv /\ ViewIsOneBuild
  BY DEF Init, StampInv, ViewIsOneBuild, BuildSteps, SentSteps
<1> QED
  BY <1>1, StampStep, PTL DEF Spec

-----------------------------------------------------------------------------
(* The stream implements MarketPublication.                                  *)

Published == <<token, Snapshot, view, resume>>

(* A step that leaves alone what was found and what the client holds.        *)
LEMMA NothingPublished ==
  ASSUME UNCHANGED <<token, offerings, view, resume>>,
         {pc, pc'} \cap {"Chunk", "Warn", "Wait"} = {}
  PROVE  UNCHANGED Published
  BY DEF Published, Snapshot

(* A call that ends, or waits no longer, leaves nothing of its build behind. *)
LEMMA LeavesNothing ==
  ASSUME UNCHANGED <<token, view, resume>>, offerings' = {}, pc' \in {"ended", "Top"}
  PROVE  Publication!Abandon
  BY DEF Publication!Abandon, Snapshot

(* One part more of the market, or none.                                     *)
LEMMA FoundOrNot ==
  ASSUME TypeOK, NEW r \in Regions, NEW p \in Parts,
         Found(r, p) \/ UNCHANGED offerings, UNCHANGED <<token, view, resume>>,
         {pc, pc'} \cap {"Chunk", "Warn", "Wait"} = {}
  PROVE  Publication!Gather \/ UNCHANGED Published
<1>1. CASE Found(r, p)
  <2>1. Offering(r, p) \in Offerings /\ Offering(r, p).build = token
    BY DEF Offering, Offerings, TypeOK
  <2>2. Snapshot' = Snapshot \cup {Offering(r, p)}
    BY <1>1 DEF Found, Snapshot
  <2> QED
    BY <2>1, <2>2 DEF Publication!Gather
<1>2. CASE UNCHANGED offerings
  BY <1>2, NothingPublished
<1> QED
  BY <1>1, <1>2

(* Every step of the stream is one of the publication or leaves it alone.    *)
LEMMA PublicationStep ==
  ASSUME Typed, StampInv, [Next]_vars
  PROVE  [Publication!Next]_Published
<1> USE DEF Steps, Publication!Next
<1>1. CASE Cancel \/ UNCHANGED vars
  BY <1>1 DEF Cancel, vars, building, held, client, Published, Snapshot
<1>2. CASE Watch
  BY <1>2, NothingPublished DEF Watch, Goto, held, client
<1>3. CASE Fail \/ EndWait
  BY <1>3, LeavesNothing DEF Fail, EndWait, Return, Goto, Blank, held
<1>4. CASE Refresh
  BY <1>4, LeavesNothing DEF Refresh, Goto, held, client, StampInv, SentSteps
<1>5. CASE Top
  <2>1. CASE Return
    BY <1>5, <2>1, LeavesNothing DEF Top, Return, Goto, Blank, held
  <2>2. CASE ~Return
    <3>1. /\ token' = (token + 1) % 2 /\ offerings' = {} /\ pc' = "ListRegions"
          /\ UNCHANGED <<view, resume>>
      BY <1>5, <2>2 DEF Top, Goto, Blank, held
    <3>2. token' \in Tokens \ {token}
      BY <3>1 DEF Typed, TypeOK, Tokens
    <3>3. Snapshot' = {}
      BY <3>1 DEF Snapshot
    <3> QED
      BY <3>1, <3>2, <3>3 DEF Publication!Start
  <2> QED
    BY <2>1, <2>2
<1>6. CASE ListRegions
  BY <1>6, NothingPublished DEF ListRegions, Goto, held, client
<1>7. CASE OnDemand
  <2>1. pc = "OnDemand" /\ pc' \in {"Spot", "OnDemand"} /\ UNCHANGED <<token, view, resume>>
    BY <1>7 DEF OnDemand, Goto, held, client
  <2>2. UNCHANGED offerings \/ \E r \in Regions : Found(r, 0)
    BY <1>7 DEF OnDemand, Skipped, Typed, TypeOK
  <2> QED
    BY <2>1, <2>2, FoundOrNot, NothingPublished, PartsAre DEF Typed
<1>8. CASE Spot
  <2>1. pc' \in {"ListRegions", "Begin", "Spot", "Batch"}
    BY <1>8 DEF Spot, NextAccount, Goto
  <2> QED
    BY <1>8, <2>1, NothingPublished DEF Spot, held, client
<1>9. CASE Batch
  <2>1. CASE Return
    BY <1>9, <2>1, LeavesNothing DEF Batch, Return, Goto, Blank, held
  <2>2. CASE ~Return
    <3>1. PICK r \in todo :
            \E step : /\ Found(r, batch) \/ UNCHANGED offerings
                      /\ EndBatch(r, step) /\ UNCHANGED token
      BY <1>9, <2>2 DEF Batch, Skipped
    <3>2. pc = "Batch" /\ pc' \in {"Spot", "Pause", "Batch"} /\ UNCHANGED <<token, view, resume>>
      BY <1>9, <3>1 DEF Batch, EndBatch, Goto, held
    <3>3. r \in Regions /\ batch \in Parts
      BY PartsAre DEF Typed, TypeOK
    <3> QED
      BY <3>1, <3>2, <3>3, FoundOrNot DEF Typed
  <2> QED
    BY <2>1, <2>2
<1>10. CASE Pause
  <2>1. CASE Return
    BY <1>10, <2>1, LeavesNothing DEF Pause, Return, Goto, Blank, held
  <2>2. CASE ~Return
    BY <1>10, <2>2, NothingPublished DEF Pause, Goto, held
  <2> QED
    BY <2>1, <2>2
<1>11. CASE Begin
  BY <1>11 DEF Begin, Goto, Published, Snapshot
<1>12. CASE Chunk
  BY <1>12 DEF Chunk, ChunkOf, Published, Snapshot
<1>13. CASE Commit
  <2>1. Snapshot = staging /\ Snapshot' = staging
    BY <1>13 DEF Commit, MoreChunks, Goto, Snapshot
  <2> QED
    BY <1>13, <2>1 DEF Commit, Publication!Publish
<1>14. CASE Warn
  BY <1>14 DEF Warn, Goto, Published, Snapshot
<1>15. CASE Heartbeat
  <2>1. CASE Return
    <3>1. UNCHANGED <<token, view, resume>>
      BY <1>15, <2>1 DEF Heartbeat, Return, Goto, StampInv, SentSteps
    <3> QED
      BY <2>1, <3>1, LeavesNothing DEF Return, Goto, Blank
  <2>2. CASE ~Return
    BY <1>15, <2>2 DEF Heartbeat, StampInv, SentSteps, Published, Snapshot
  <2> QED
    BY <2>1, <2>2
<1> QED
  BY <1>1, <1>2, <1>3, <1>4, <1>5, <1>6, <1>7, <1>8, <1>9, <1>10, <1>11, <1>12, <1>13,
     <1>14, <1>15 DEF Next, Step

(* Chunks, commits, heartbeats and calls cut off anywhere come to one        *)
(* message for each build that gets through: the client holds all that one   *)
(* build found, with the token of that build, and never a part of it.        *)
THEOREM StreamPublishesWhole == Spec => PublishesWhole
<1>1. Init => Publication!Init
  BY DEF Init, Publication!Init, Snapshot, Tokens
<1>2. Init => StampInv
  BY DEF Init, StampInv, BuildSteps, SentSteps
<1>3. StampInv /\ ViewIsOneBuild /\ [Next]_vars => StampInv' /\ ViewIsOneBuild'
  BY StampStep
<1>4. Init => ViewIsOneBuild
  BY DEF Init, ViewIsOneBuild
<1>5. Typed /\ StampInv /\ [Next]_vars => [Publication!Next]_Published
  BY PublicationStep
<1> QED
  BY <1>1, <1>2, <1>3, <1>4, <1>5, TypedAlways, PTL
  DEF Spec, PublishesWhole, Publication!Spec, Published

-----------------------------------------------------------------------------
(* The steps in which what a build found is all in its own offerings.        *)
Collecting == BuildSteps \ {"Chunk"}

(* What is in a warning yet to be sent stays in one when another is added.   *)
LEMMA ToTellStays ==
  ASSUME TypeOK, NEW r, NEW p, ToTell(r, p),
         \/ UNCHANGED warnings
         \/ \E w \in Warnings : warnings' = Append(warnings, w)
  PROVE  ToTell(r, p)'
<1>1. PICK i \in DOMAIN warnings :
        warnings[i].region = r /\ p \in warnings[i].parts
  BY DEF ToTell
<1>2. i \in DOMAIN warnings' /\ warnings'[i] = warnings[i]
  BY DEF TypeOK
<1> QED
  BY <1>1, <1>2 DEF ToTell

(* While a build collects, nothing it accounted for is forgotten.            *)
LEMMA AccountedStays ==
  ASSUME TypeOK, pc \in Collecting, pc' \in Collecting, UNCHANGED alerts,
         offerings \subseteq offerings',
         \/ UNCHANGED warnings
         \/ \E w \in Warnings : warnings' = Append(warnings, w)
  PROVE  \A a, r, p : Accounted(a, r, p) => Accounted(a, r, p)'
<1> TAKE a, r, p
<1>1. Holds(a, r, p) => Holds(a, r, p)'
  BY DEF Holds, Snapshot, Collecting, BuildSteps, SentSteps
<1>2. Told(r, p) => Told(r, p)'
  BY DEF Told
<1>3. ToTell(r, p) => ToTell(r, p)'
  BY ToTellStays
<1> QED
  BY <1>1, <1>2, <1>3 DEF Accounted

(* A part that is found is accounted for.                                    *)
LEMMA FoundAccounts ==
  ASSUME pc' \in Collecting, NEW r, NEW p, Found(r, p)
  PROVE  \A a : a = account => Accounted(a, r, p)'
<1>1. Snapshot' = offerings'
  BY DEF Snapshot, Collecting, BuildSteps, SentSteps
<1>2. Offering(r, p) \in offerings'
  BY DEF Found
<1> QED
  BY <1>1, <1>2 DEF Offering, Accounted, Holds

(* So is each part named in a warning.                                       *)
LEMMA SkippedAccounts ==
  ASSUME TypeOK, NEW r \in Regions, NEW P \in SUBSET Parts, NEW p \in P,
         warnings' = Append(warnings, Warning(r, P))
  PROVE  \A a : Accounted(a, r, p)'
<1> DEFINE n == Len(warnings) + 1
<1>1. Warning(r, P) \in Warnings
  BY DEF Warning, Warnings
<1>2. n \in DOMAIN warnings' /\ warnings'[n] = Warning(r, P)
  BY <1>1 DEF TypeOK
<1>3. ToTell(r, p)'
  BY <1>2 DEF ToTell, Warning
<1> QED
  BY <1>3 DEF Accounted

(* The first of a set of regions is one region.                              *)
LEMMA OneFirst ==
  ASSUME TypeOK, NEW r, NEW q, IsFirst(r, todo), IsFirst(q, todo)
  PROVE  r = q
  BY RegionAssumption DEF TypeOK, IsFirst

(* A step that goes on with the same account: what the loops come past in it *)
(* is accounted for, what they were past before is kept.                     *)
LEMMA SameAccount ==
  ASSUME TypeOK, CoverInv, pc \in Collecting, pc' \in Collecting \ {"Begin"},
         UNCHANGED <<account, listing>>,
         \A a, r, p : Accounted(a, r, p) => Accounted(a, r, p)',
         \A r \in listing[account], p \in Parts :
           /\ p = 0 \/ r \in TypedRegions
           /\ Visited(r, p)' /\ ~Visited(r, p)
           => \A a : a = account => Accounted(a, r, p)'
  PROVE  CoverInv'
<1> SUFFICES ASSUME NEW a \in Accounts, NEW r \in Regions, NEW p \in Parts,
                    IsDue(a, r, p)', Finished(a, r, p)'
             PROVE  Accounted(a, r, p)'
  BY DEF CoverInv
<1>1. IsDue(a, r, p)
  BY DEF IsDue
<1>2. Finished(a, r, p) => Accounted(a, r, p)
  BY <1>1 DEF CoverInv, Collecting
<1>3. a < account \/ (a = account /\ Visited(r, p)')
  BY DEF Finished, Collecting, BuildSteps, SentSteps
<1>4. CASE Finished(a, r, p)
  BY <1>2, <1>4
<1>5. CASE ~Finished(a, r, p)
  <2>1. a = account /\ Visited(r, p)' /\ ~Visited(r, p)
    BY <1>3, <1>5 DEF Finished
  <2> QED
    BY <2>1, <1>1 DEF IsDue
<1> QED
  BY <1>4, <1>5

(* The regions of the on-demand build.                                       *)
LEMMA OnDemandCovers ==
  ASSUME Typed, CoverInv, OnDemand
  PROVE  CoverInv'
<1> USE DEF Typed
<1>1. CASE todo = {} /\ Goto("Spot") /\ todo' = listing[account]
           /\ UNCHANGED <<offerings, warnings>>
  <2>1. \A r \in listing[account], p \in Parts : Visited(r, p)' => Visited(r, p)
    BY <1>1 DEF Visited, OnDemand, Goto
  <2>2. pc \in Collecting /\ pc' \in Collecting \ {"Begin"}
    BY <1>1 DEF OnDemand, Goto, Collecting, BuildSteps
  <2>3. \A a, r, p : Accounted(a, r, p) => Accounted(a, r, p)'
    BY <1>1, <2>2, AccountedStays DEF OnDemand, client
  <2> QED
    BY <2>1, <2>2, <2>3, SameAccount DEF OnDemand
<1>2. CASE \E r \in todo :
             /\ IsFirst(r, todo) /\ todo' = todo \ {r}
             /\ Found(r, 0) \/ Skipped(r, {0})
             /\ UNCHANGED pc
  <2>1. PICK r \in todo : /\ todo' = todo \ {r}
                          /\ Found(r, 0) \/ Skipped(r, {0})
                          /\ UNCHANGED pc
    BY <1>2
  <2>2. r \in Regions /\ {0} \in SUBSET Parts
    BY PartsAre DEF TypeOK
  <2>3. pc \in Collecting /\ pc' \in Collecting \ {"Begin"}
    BY <2>1 DEF OnDemand, Collecting, BuildSteps
  <2>4. \A a, q, p : Accounted(a, q, p) => Accounted(a, q, p)'
    <3>1. Skipped(r, {0}) =>
            \E w \in Warnings : warnings' = Append(warnings, w)
      BY <2>2 DEF Skipped, Warning, Warnings
    <3> QED
      BY <2>1, <2>3, <3>1, AccountedStays DEF OnDemand, Found, Skipped, client
  <2>5. \A a : a = account => Accounted(a, r, 0)'
    BY <2>1, <2>2, <2>3, FoundAccounts, SkippedAccounts DEF Skipped
  <2>6. \A q \in listing[account], p \in Parts :
          Visited(q, p)' /\ ~Visited(q, p) => q = r /\ p = 0
    BY <2>1 DEF Visited, OnDemand
  <2> QED
    BY <2>3, <2>4, <2>5, <2>6, SameAccount DEF OnDemand
<1> QED
  BY <1>1, <1>2 DEF OnDemand

(* The account is done: the next one, or all of them.                        *)
LEMMA NextAccountCovers ==
  ASSUME Typed, CoverInv, Spot, todo = {}, NextAccount,
         UNCHANGED <<warnings, offerings, alerts>>
  PROVE  CoverInv'
<1> USE DEF Typed
<1>1. pc = "Spot" /\ pc' \in {"ListRegions", "Begin"} /\ UNCHANGED listing
  BY DEF Spot, NextAccount, Goto
<1>2. \A a, r, p : Accounted(a, r, p) => Accounted(a, r, p)'
  BY <1>1, AccountedStays DEF Collecting, BuildSteps
<1>4. ASSUME NEW a \in Accounts, NEW r \in Regions, NEW p \in Parts,
             IsDue(a, r, p)', Finished(a, r, p)'
      PROVE  Accounted(a, r, p)'
  <2>1. a <= account
    BY <1>1, <1>4, AccountAssumption
    DEF Finished, NextAccount, Goto, Accounts, TypeOK, Visited, SentSteps
  <2>2. Visited(r, p)
    BY <1>1 DEF Visited
  <2>3. Finished(a, r, p) /\ IsDue(a, r, p)
    BY <1>1, <1>4, <2>1, <2>2 DEF Finished, IsDue, Accounts, TypeOK
  <2> QED
    BY <1>1, <1>2, <2>3 DEF CoverInv, BuildSteps
<1> QED
  BY <1>4 DEF CoverInv

(* The outer loop of the spot build.                                         *)
LEMMA SpotCovers ==
  ASSUME Typed, CoverInv, Spot
  PROVE  CoverInv'
<1> USE DEF Typed
<1>1. CASE todo = {} /\ NextAccount /\ UNCHANGED <<todo, batch, warnings>>
  BY <1>1, NextAccountCovers DEF Spot, client
<1>2. CASE \E r \in todo :
             /\ IsFirst(r, todo)
             /\ \/ /\ r \notin TypedRegions
                   /\ todo' = todo \ {r} /\ UNCHANGED <<pc, batch, warnings>>
                \/ /\ r \in TypedRegions
                   /\ Goto("Batch") /\ batch' = 1 /\ UNCHANGED <<todo, warnings>>
                \/ /\ r \in TypedRegions
                   /\ warnings' = Append(warnings, Warning(r, Batches))
                   /\ todo' = todo \ {r} /\ UNCHANGED <<pc, batch>>
             /\ UNCHANGED account
  <2>1. PICK r \in todo :
             /\ \/ /\ r \notin TypedRegions
                   /\ todo' = todo \ {r} /\ UNCHANGED <<pc, batch, warnings>>
                \/ /\ r \in TypedRegions
                   /\ Goto("Batch") /\ batch' = 1 /\ UNCHANGED <<todo, warnings>>
                \/ /\ r \in TypedRegions
                   /\ warnings' = Append(warnings, Warning(r, Batches))
                   /\ todo' = todo \ {r} /\ UNCHANGED <<pc, batch>>
             /\ UNCHANGED account
    BY <1>2
  <2>2. r \in Regions /\ Batches \in SUBSET Parts
    BY PartsAre DEF TypeOK
  <2>3. pc = "Spot" /\ pc' \in {"Spot", "Batch"} /\ UNCHANGED <<listing, offerings, alerts>>
    BY <2>1 DEF Spot, Goto, client
  <2>4. pc \in Collecting /\ pc' \in Collecting \ {"Begin"}
    BY <2>3 DEF Collecting, BuildSteps
  <2>5. \A a, q, p : Accounted(a, q, p) => Accounted(a, q, p)'
    <3>1. \/ UNCHANGED warnings
          \/ \E w \in Warnings : warnings' = Append(warnings, w)
      BY <2>1, <2>2 DEF Warning, Warnings
    <3> QED
      BY <2>3, <2>4, <3>1, AccountedStays
  <2>6. ASSUME NEW q \in listing[account], NEW p \in Parts,
               p = 0 \/ q \in TypedRegions, Visited(q, p)', ~Visited(q, p)
        PROVE  \A a : a = account => Accounted(a, q, p)'
    <3>1. p # 0 /\ q \in todo
      BY <2>3, <2>6 DEF Visited
    <3>2. p \in Batches
      BY <3>1, SizeAssumption DEF Parts, Batches
    <3>3. pc' = "Spot" /\ q = r
      <4>1. CASE pc' = "Batch"
        BY <2>1, <2>3, <2>6, <3>1, <3>2, <4>1 DEF Visited, Batches
      <4>2. CASE pc' = "Spot"
        BY <2>1, <2>3, <2>6, <3>1, <4>2 DEF Visited, Goto
      <4> QED
        BY <2>3, <4>1, <4>2
    <3>4. warnings' = Append(warnings, Warning(r, Batches))
      BY <2>1, <2>6, <3>1, <3>3 DEF Goto
    <3> QED
      BY <2>2, <3>2, <3>3, <3>4, SkippedAccounts
  <2> QED
    BY <2>1, <2>3, <2>4, <2>5, <2>6, SameAccount
<1> QED
  BY <1>1, <1>2 DEF Spot

(* A batch of the inner loop, found or named in a warning.                   *)
LEMMA BatchCovers ==
  ASSUME Typed, CoverInv, Batch, ~Return
  PROVE  CoverInv'
<1> USE DEF Typed
<1>1. PICK r \in todo :
        /\ IsFirst(r, todo)
        /\ \/ Found(r, batch) /\ EndBatch(r, "Pause")
           \/ Skipped(r, {batch}) /\ EndBatch(r, "Batch")
        /\ UNCHANGED <<token, account, listing, alerts>>
  BY DEF Batch
<1>2. r \in Regions /\ batch \in Parts /\ {batch} \in SUBSET Parts
  BY PartsAre DEF TypeOK
<1>3. pc = "Batch" /\ pc' \in {"Spot", "Pause", "Batch"}
  BY <1>1 DEF Batch, EndBatch, Goto
<1>4. pc \in Collecting /\ pc' \in Collecting \ {"Begin"}
  BY <1>3 DEF Collecting, BuildSteps
<1>5. \A a, q, p : Accounted(a, q, p) => Accounted(a, q, p)'
  <2>1. Skipped(r, {batch}) =>
          \E w \in Warnings : warnings' = Append(warnings, w)
    BY <1>2 DEF Skipped, Warning, Warnings
  <2> QED
    BY <1>1, <1>4, <2>1, AccountedStays DEF Found, Skipped
<1>6. \A a, p : a = account /\ p = batch => Accounted(a, r, p)'
  <2>1. ASSUME NEW p, p = batch, Found(r, p)
        PROVE  \A a : a = account => Accounted(a, r, p)'
    BY <1>4, <2>1, FoundAccounts
  <2>2. ASSUME NEW p, p = batch, Skipped(r, {p})
        PROVE  \A a : Accounted(a, r, p)'
    BY <1>2, <2>2, SkippedAccounts DEF Skipped
  <2> QED
    BY <1>1, <2>1, <2>2
<1>7. ASSUME NEW q \in listing[account], NEW p \in Parts,
             Visited(q, p)', ~Visited(q, p)
      PROVE  q = r /\ p = batch
  <2>1. p # 0 /\ q \in todo
    BY <1>3, <1>7 DEF Visited
  <2>2. CASE batch = NBatches
    <3>1. pc' = "Spot" /\ todo' = todo \ {r}
      BY <1>1, <2>2 DEF EndBatch, Goto
    <3>2. q = r
      BY <1>7, <2>1, <3>1 DEF Visited
    <3>3. ~(p < batch)
      BY <1>1, <1>3, <1>7, <3>2 DEF Visited
    <3> QED
      BY <2>2, <3>2, <3>3, SizeAssumption DEF Parts
  <2>3. CASE batch # NBatches
    <3>1. UNCHANGED todo /\ \/ pc' = "Pause" /\ UNCHANGED batch
                            \/ pc' = "Batch" /\ batch' = batch + 1
      BY <1>1, <2>3 DEF EndBatch, Goto
    <3>2. IsFirst(q, todo) /\ p <= batch
      BY <1>7, <2>1, <3>1, SizeAssumption
      DEF Visited, IsFirst, Parts, TypeOK, Batches
    <3>3. q = r
      BY <1>1, <3>2, OneFirst
    <3>4. ~(p < batch)
      BY <1>3, <1>7, <3>2 DEF Visited
    <3> QED
      BY <3>2, <3>3, <3>4, SizeAssumption DEF Parts, TypeOK, Batches
  <2> QED
    BY <2>2, <2>3
<1> QED
  BY <1>1, <1>4, <1>5, <1>6, <1>7, SameAccount

(* The pause between two batches.                                            *)
LEMMA PauseCovers ==
  ASSUME Typed, CoverInv, Pause, ~Return
  PROVE  CoverInv'
<1> USE DEF Typed
<1>1. /\ pc = "Pause" /\ pc' = "Batch" /\ batch' = batch + 1
      /\ UNCHANGED <<account, listing, todo, offerings, warnings, alerts>>
  BY DEF Pause, Goto
<1>2. pc \in Collecting /\ pc' \in Collecting \ {"Begin"}
  BY <1>1 DEF Collecting, BuildSteps
<1>3. \A a, r, p : Accounted(a, r, p) => Accounted(a, r, p)'
  BY <1>1, <1>2, AccountedStays
<1>4. \A r \in listing[account], p \in Parts : Visited(r, p)' => Visited(r, p)
  BY <1>1, SizeAssumption DEF Visited, IsFirst, Parts, Batches, TypeOK
<1> QED
  BY <1>1, <1>2, <1>3, <1>4, SameAccount

(* Sending: what the snapshot holds is in it wherever it is on its way.      *)
LEMMA SendCovers ==
  ASSUME Typed, CoverInv, Begin \/ Chunk \/ Commit \/ Warn
  PROVE  CoverInv'
<1> USE DEF Typed, BuildSteps, SentSteps
<1>1. pc \in {"Begin", "Chunk"} \cup SentSteps /\ UNCHANGED <<account, listing>>
  BY DEF Begin, Chunk, Commit, Warn, building
<1>2. ASSUME NEW a, NEW r, NEW p, Holds(a, r, p)
      PROVE  Holds(a, r, p)'
  <2>1. CASE Begin
    BY <1>2, <2>1 DEF Begin, Goto, Holds, Snapshot
  <2>2. CASE Chunk
    BY <1>2, <2>2 DEF Chunk, ChunkOf, Holds, Snapshot
  <2>3. CASE Commit
    BY <1>2, <2>3 DEF Commit, Goto, MoreChunks, Holds, Snapshot
  <2>4. CASE Warn
    BY <1>2, <2>4 DEF Warn, Goto, Holds, Snapshot
  <2> QED
    BY <2>1, <2>2, <2>3, <2>4
<1>3. ASSUME NEW r, NEW p, Told(r, p)
      PROVE  Told(r, p)'
  BY <1>3 DEF Begin, Chunk, Commit, Warn, Told
<1>4. ASSUME NEW r, NEW p, ToTell(r, p)
      PROVE  ToTell(r, p)' \/ Told(r, p)'
  <2>1. PICK i \in DOMAIN warnings :
          warnings[i].region = r /\ p \in warnings[i].parts
    BY <1>4 DEF ToTell
  <2>2. CASE UNCHANGED warnings
    BY <2>1, <2>2 DEF ToTell
  <2>3. CASE /\ warnings # << >> /\ warnings' = Tail(warnings)
             /\ alerts' = alerts \cup {Head(warnings)}
    <3>1. warnings \in Seq(Warnings)
      BY DEF TypeOK
    <3>2. CASE i = 1
      BY <2>1, <2>3, <3>1, <3>2 DEF Told
    <3>3. CASE i # 1
      <4>1. i - 1 \in DOMAIN warnings' /\ warnings'[i - 1] = warnings[i]
        BY <2>1, <2>3, <3>1, <3>3
      <4> QED
        BY <2>1, <4>1 DEF ToTell
    <3> QED
      BY <3>2, <3>3
  <2> QED
    BY <2>2, <2>3 DEF Begin, Chunk, Commit, Warn
<1>5. ASSUME NEW a \in Accounts, NEW r \in Regions, NEW p \in Parts, IsDue(a, r, p)'
      PROVE  Accounted(a, r, p)'
  <2>1. IsDue(a, r, p) /\ Finished(a, r, p)
    BY <1>1, <1>5 DEF IsDue, Finished
  <2>2. Accounted(a, r, p)
    BY <1>1, <2>1 DEF CoverInv
  <2> QED
    BY <1>2, <1>3, <1>4, <2>2 DEF Accounted
<1> QED
  BY <1>5 DEF CoverInv

(* Every step keeps count of what the loops have been past.                  *)
LEMMA CoverStep ==
  ASSUME Typed, CoverInv, [Next]_vars
  PROVE  CoverInv'
<1>1. CASE UNCHANGED <<pc, account, listing, todo, batch, offerings, warnings,
                       staging, view, alerts>>
  BY <1>1
  DEF CoverInv, IsDue, Finished, Visited, Accounted, Holds, Told, ToTell, Snapshot
<1>2. CASE pc' \in {"ended", "Top"}
  BY <1>2 DEF CoverInv, BuildSteps, SentSteps
<1>3. CASE Blank /\ pc' = "ListRegions"
  BY <1>3 DEF Blank, CoverInv, Finished, Visited, Accounts, SentSteps
<1>4. CASE ListRegions
  <2>1. PICK S : listing' = [listing EXCEPT ![account] = S] /\ todo' = S
    BY <1>4 DEF ListRegions
  <2>2. pc = "ListRegions" /\ pc' = "OnDemand"
        /\ UNCHANGED <<account, offerings, warnings, alerts>>
    BY <1>4 DEF ListRegions, Goto, client
  <2>3. \A a, r, p : Accounted(a, r, p) => Accounted(a, r, p)'
    BY <2>2, AccountedStays DEF Collecting, BuildSteps, Typed
  <2>4. ASSUME NEW a \in Accounts, NEW r \in Regions, NEW p \in Parts,
               IsDue(a, r, p)', Finished(a, r, p)'
        PROVE  Accounted(a, r, p)'
    <3>1. a < account
      BY <2>1, <2>2, <2>4 DEF IsDue, Finished, Visited, Typed, TypeOK, SentSteps
    <3>2. IsDue(a, r, p) /\ Finished(a, r, p)
      BY <2>1, <2>4, <3>1 DEF IsDue, Finished, Typed, TypeOK, Accounts
    <3> QED
      BY <2>2, <2>3, <3>2 DEF CoverInv, BuildSteps
  <2> QED
    BY <2>4 DEF CoverInv
<1>5. CASE Heartbeat /\ ~Return
  BY <1>5, <1>1 DEF Heartbeat, building
<1>6. CASE Cancel \/ UNCHANGED vars
  BY <1>6, <1>1 DEF Cancel, vars, building, held, client
<1>7. CASE Watch \/ Refresh \/ Fail \/ Top \/ EndWait
  BY <1>7, <1>2, <1>3 DEF Watch, Refresh, Fail, Top, EndWait, Return, Goto
<1>8. CASE Return
  BY <1>8, <1>2 DEF Return, Goto
<1> QED
  BY <1>4, <1>5, <1>6, <1>7, <1>8, OnDemandCovers, SpotCovers, BatchCovers,
     PauseCovers, SendCovers DEF Next, Step

(* Whenever the feed rests, every part of the market of every account is in  *)
(* the snapshot the client holds or was named in a warning it got, whatever  *)
(* the regions, the batches and the size of a chunk.                         *)
THEOREM NothingIsSkippedSilently == Spec => []NothingSilentlyMissing
<1>1. Init => CoverInv
  BY DEF Init, CoverInv, BuildSteps, SentSteps
<1>2. Typed /\ CoverInv => NothingSilentlyMissing
  <2> SUFFICES ASSUME Typed, CoverInv, pc = "Wait",
                      NEW a \in Accounts, NEW d \in Due(a)
               PROVE  \/ \E x \in view : x.scope = a /\ x.region = d[1] /\ x.part = d[2]
                      \/ \E w \in alerts : w.region = d[1] /\ d[2] \in w.parts
    BY DEF NothingSilentlyMissing
  <2>1. d[1] \in Regions /\ d[2] \in Parts /\ IsDue(a, d[1], d[2])
    BY DEF Due, IsDue, Typed, TypeOK
  <2>2. Accounted(a, d[1], d[2])
    BY <2>1 DEF CoverInv, Finished, SentSteps
  <2>3. warnings = << >>
    BY DEF Typed, RestInv
  <2> QED
    BY <2>2, <2>3 DEF Accounted, Holds, Told, ToTell, Snapshot, SentSteps
<1> QED
  BY <1>1, <1>2, TypedAlways, CoverStep, PTL DEF Spec

-----------------------------------------------------------------------------
(* Going on.                                                                 *)

(* The parts of a build of an account, those of a call, and the turns of the *)
(* loop over the batches of a region.                                        *)
Building == {"ListRegions", "OnDemand", "Spot", "Batch", "Pause"}
Market(step) == CASE step = "ListRegions" -> 1 [] step = "OnDemand" -> 2 [] OTHER -> 3
Phase(step) ==
  CASE step \in Building -> 1 [] step = "Begin" -> 2 [] step = "Chunk" -> 3
    [] step = "Warn" -> 4 [] OTHER -> 5
Turn == CASE pc = "Batch" -> 2 * batch [] pc = "Pause" -> 2 * batch + 1 [] OTHER -> 0

Fewer(S, T) == S \subseteq T /\ S # T

(* A build comes closer to its end: by an account, by a market of it, by a   *)
(* region of that, by a turn in the region; then by a chunk or a warning.    *)
BuildCloser ==
  /\ Phase(pc) = 1 /\ Phase(pc') = 1
  /\ \/ account' > account
     \/ /\ account' = account
        /\ \/ Market(pc') > Market(pc)
           \/ /\ Market(pc') = Market(pc)
              /\ Fewer(todo', todo) \/ (todo' = todo /\ Turn' > Turn)
SendCloser ==
  /\ pc' = pc
  /\ \/ pc = "Chunk" /\ Fewer(offerings', offerings)
     \/ pc = "Warn" /\ Len(warnings') < Len(warnings)
Closer == Phase(pc') > Phase(pc) \/ BuildCloser \/ SendCloser

(* A build ends or comes closer to its end with each step, and nothing sets  *)
(* it back; a call that is to end at once does not start another.            *)
BuildGoesForward ==
  /\ Step /\ pc # "Top" => pc' = "ended" \/ Closer
  /\ Cancel => UNCHANGED <<pc, account, todo, batch, offerings, warnings>>
  /\ pc = "Top" /\ cancelled /\ Step => pc' = "ended"

(* A set of natural numbers has a least.                                     *)
LEMMA LeastNat ==
  ASSUME NEW T \in SUBSET Nat, T # {}
  PROVE  \E x \in T : \A y \in T : x <= y
<1> DEFINE R == OpToRel(<, Nat)
<1>1. IsWellFoundedOn(R, Nat)
  BY NatLessThanWellFounded, Zenon
<1>2. \E x \in T : \A y \in T : ~(<<y, x>> \in R)
  <2> HIDE DEF R
  <2> QED BY <1>1, WFMin
<1>3. R = {ss \in Nat \X Nat : ss[1] < ss[2]}
  BY Zenon DEF OpToRel
<1> HIDE DEF R
<1>4. PICK x \in T : \A y \in T : ~(<<y, x>> \in R)
  BY <1>2
<1>5. ASSUME NEW y \in T PROVE x <= y
  <2>1. ~(<<y, x>> \in {ss \in Nat \X Nat : ss[1] < ss[2]})
    BY <1>3, <1>4
  <2>2. <<y, x>> \in Nat \X Nat /\ <<y, x>>[1] = y /\ <<y, x>>[2] = x
    OBVIOUS
  <2> QED BY <2>1, <2>2
<1> QED BY <1>4, <1>5

(* The offerings there are have a first in the order they are sent in.       *)
LEMMA FirstOffering ==
  ASSUME NEW S \in SUBSET Offerings, S # {}
  PROVE  \E x \in S : \A y \in S : ~Before(y, x)
<1>0. ASSUME NEW x \in S PROVE x.scope \in Nat /\ x.region \in Nat /\ x.part \in Nat
  <2>1. x.scope \in Accounts /\ x.region \in Regions /\ x.part \in Parts
    BY DEF Offerings
  <2>2. Accounts \subseteq Nat
    BY AccountAssumption DEF Accounts
  <2>3. Regions \subseteq Nat
    BY RegionAssumption
  <2>4. Parts \subseteq Nat
    BY SizeAssumption DEF Parts
  <2> QED
    BY <2>1, <2>2, <2>3, <2>4
<1> DEFINE A == {x.scope : x \in S}
<1>1. PICK a \in A : \A b \in A : a <= b
  <2>1. A \in SUBSET Nat /\ A # {}
    BY <1>0
  <2> HIDE DEF A
  <2> QED BY <2>1, LeastNat
<1> DEFINE S1 == {x \in S : x.scope = a}  R1 == {x.region : x \in S1}
<1>2. PICK r \in R1 : \A q \in R1 : r <= q
  <2>1. R1 \in SUBSET Nat /\ R1 # {}
    BY <1>0, <1>1
  <2> HIDE DEF R1
  <2> QED BY <2>1, LeastNat
<1> DEFINE S2 == {x \in S1 : x.region = r}  P2 == {x.part : x \in S2}
<1>3. PICK p \in P2 : \A q \in P2 : p <= q
  <2>1. P2 \in SUBSET Nat /\ P2 # {}
    BY <1>0, <1>2
  <2> HIDE DEF P2
  <2> QED BY <2>1, LeastNat
<1>4. PICK x \in S2 : x.part = p
  BY <1>3
<1>5. ASSUME NEW y \in S PROVE ~Before(y, x)
  <2>1. x.scope = a /\ x.region = r /\ x.part = p /\ a <= y.scope
    BY <1>1, <1>4
  <2>2. y.scope = a => r <= y.region
    BY <1>2
  <2>3. y.scope = a /\ y.region = r => p <= y.part
    BY <1>3
  <2>4. a \in Nat /\ r \in Nat /\ p \in Nat
    BY <1>0, <1>4, <2>1
  <2> QED BY <1>0, <2>1, <2>2, <2>3, <2>4 DEF Before
<1> QED BY <1>4, <1>5

(* A chunk is never empty while there is something to send.                  *)
LEMMA ChunkHasOne ==
  ASSUME NEW S \in SUBSET Offerings, S # {}
  PROVE  ChunkOf(S) # {} /\ ChunkOf(S) \subseteq S
<1>1. PICK x \in S : \A y \in S : ~Before(y, x)
  BY FirstOffering
<1>2. {y \in S : Before(y, x)} = {}
  BY <1>1
<1>3. Cardinality({y \in S : Before(y, x)}) < ChunkSize
  BY <1>2, FS_EmptySet, SizeAssumption
<1> QED BY <1>3 DEF ChunkOf

(* Each step of a build.                                                     *)
LEMMA BuildOnward ==
  ASSUME Typed, ListRegions \/ OnDemand \/ Spot \/ Batch \/ Pause
  PROVE  pc' = "ended" \/ Closer
<1>. /\ todo \subseteq Regions /\ Regions \subseteq Nat /\ batch \in Nat
     /\ account \in Nat /\ NAccounts \in Nat /\ NBatches \in Nat
  BY AccountAssumption, RegionAssumption, SizeAssumption DEF Typed, TypeOK, Batches, Accounts
<1>1. CASE ListRegions
  BY <1>1 DEF ListRegions, Goto, Closer, BuildCloser, Phase, Building, Market
<1>2. CASE OnDemand
  <2>1. CASE todo = {}
    BY <1>2, <2>1 DEF OnDemand, Goto, Closer, BuildCloser, Phase, Building, Market
  <2>2. ASSUME NEW r \in todo, todo' = todo \ {r}, UNCHANGED pc PROVE Closer
    BY <1>2, <2>2 DEF OnDemand, Closer, BuildCloser, Phase, Building, Market, Fewer
  <2> QED BY <1>2, <2>1, <2>2 DEF OnDemand
<1>3. CASE Spot
  <2>1. CASE NextAccount
    BY <1>3, <2>1 DEF Spot, NextAccount, Goto, Closer, BuildCloser, Phase, Building
  <2>2. ASSUME NEW r \in todo, todo' = todo \ {r}, UNCHANGED <<pc, account>> PROVE Closer
    BY <1>3, <2>2 DEF Spot, Closer, BuildCloser, Phase, Building, Market, Fewer
  <2>3. CASE Goto("Batch") /\ batch' = 1 /\ UNCHANGED <<todo, account>>
    BY <1>3, <2>3 DEF Spot, Goto, Closer, BuildCloser, Phase, Building, Market, Turn
  <2> QED BY <1>3, <2>1, <2>2, <2>3 DEF Spot
<1>4. CASE Batch
  <2>1. CASE Return
    BY <2>1 DEF Return, Goto
  <2>2. ASSUME NEW r \in todo, UNCHANGED account, NEW step \in {"Pause", "Batch"},
               EndBatch(r, step)
        PROVE  Closer
    <3>1. pc = "Batch"
      BY <1>4 DEF Batch
    <3>2. CASE batch = NBatches
      BY <2>2, <3>1, <3>2
      DEF EndBatch, Goto, Closer, BuildCloser, Phase, Building, Market, Fewer
    <3>3. CASE batch # NBatches
      BY <2>2, <3>1, <3>3 DEF EndBatch, Goto, Closer, BuildCloser, Phase, Building, Market, Turn
    <3> QED BY <3>2, <3>3
  <2> QED BY <1>4, <2>1, <2>2 DEF Batch
<1>5. CASE Pause
  BY <1>5 DEF Pause, Return, Goto, Closer, BuildCloser, Phase, Building, Market, Turn
<1> QED BY <1>1, <1>2, <1>3, <1>4, <1>5

(* Each step that sends.                                                     *)
LEMMA SendOnward ==
  ASSUME Typed, Begin \/ Chunk \/ Commit \/ Warn
  PROVE  Closer
<1>1. CASE Begin \/ Commit
  BY <1>1 DEF Begin, Commit, Goto, Closer, Phase, Building
<1>2. CASE Chunk
  <2>1. offerings \in SUBSET Offerings /\ offerings # {}
    BY <1>2 DEF Chunk, MoreChunks, Typed, TypeOK
  <2>2. Fewer(offerings', offerings)
    BY <1>2, <2>1, ChunkHasOne DEF Chunk, Fewer
  <2> QED BY <1>2, <2>2 DEF Chunk, Closer, SendCloser
<1>3. CASE Warn /\ warnings = << >>
  BY <1>3 DEF Warn, Goto, Closer, Phase, Building
<1>4. CASE Warn /\ warnings # << >>
  <2>1. warnings \in Seq(Warnings)
    BY DEF Typed, TypeOK
  <2>2. Len(warnings') < Len(warnings)
    BY <1>4, <2>1 DEF Warn
  <2> QED BY <1>4, <2>2 DEF Warn, Closer, SendCloser
<1> QED BY <1>1, <1>2, <1>3, <1>4

(* A build and the sending of what it found end or come closer to their end  *)
(* with each step: each loop over accounts, regions, batches, chunks and     *)
(* warnings gets shorter, also where a batch or a region is skipped, and no  *)
(* chunk is empty.  A call that is cancelled starts no other build.  So a    *)
(* cancelled call has a limited number of steps left, waits aside (the       *)
(* safety half of CancelEnds, market_feed.go).                               *)
THEOREM BuildsGoForward == Spec => [][BuildGoesForward]_vars
<1>1. Typed /\ [Next]_vars => [BuildGoesForward]_vars
  <2> SUFFICES ASSUME Typed, Next PROVE BuildGoesForward
    OBVIOUS
  <2>1. ASSUME Step, pc # "Top" PROVE pc' = "ended" \/ Closer
    <3>1. CASE Fail
      BY <3>1 DEF Fail, Return, Goto
    <3>2. ~Top
      BY <2>1 DEF Top
    <3> QED BY <2>1, <3>1, <3>2, BuildOnward, SendOnward DEF Step
  <2>2. Cancel => UNCHANGED <<pc, account, todo, batch, offerings, warnings>>
    BY DEF Cancel, building
  <2>3. ASSUME pc = "Top", cancelled, Step PROVE pc' = "ended"
    BY <2>3 DEF Step, Fail, Top, ListRegions, OnDemand, Spot, Batch, Pause, Begin, Chunk, Commit,
                Warn, Return, Goto, Steps
  <2> QED BY <2>1, <2>2, <2>3 DEF BuildGoesForward
<1> QED BY <1>1, TypedAlways, PTL DEF Spec
=============================================================================
