----------------------------- MODULE MarketFeed -----------------------------
(***************************************************************************)
(* WatchMarketFeed (src/internal/aws/market_feed.go): a stream that        *)
(* rebuilds the market of every configured account and sends it as a       *)
(* snapshot: begin, chunks, commit, and then the warnings about what the   *)
(* build had to leave out.  Between two builds it sends heartbeats.  The   *)
(* call ends when it is cancelled, when sending fails or on an error that  *)
(* is not recoverable, and the client may open it again.                   *)
(*                                                                         *)
(* One offering stands for all those of an account, a region and a part of *)
(* the market: part 0 is on-demand, part b the b-th batch of spot types.   *)
(***************************************************************************)
EXTENDS Integers, FiniteSets, Sequences

CONSTANTS
  NAccounts,     \* routed accounts, in the order of their scope ids
  Regions,       \* EC2 regions
  Listings,      \* Listings[a]: the answers ListRegions may get for account
                 \* a, as sets of regions
  TypedRegions,  \* regions for which the catalog knows instance types
  NBatches,      \* spot batches of such a region
  ChunkSize      \* marketFeedChunkSize

Accounts == 1..NAccounts
Batches == 1..NBatches
Parts == 0..NBatches
Tokens == 0..1   \* snapshot tokens, which only have to tell a build from the
                 \* one before: they come round

ASSUME AccountAssumption == NAccounts \in Nat \ {0}
ASSUME RegionAssumption ==
  /\ Regions \subseteq Nat /\ TypedRegions \subseteq Regions
  /\ Listings \in [Accounts -> (SUBSET SUBSET Regions) \ {{}}]
ASSUME SizeAssumption == NBatches \in Nat \ {0} /\ ChunkSize \in Nat \ {0}

VARIABLES
  pc, cancelled,
  token,       \* snapshotToken, the time the last build started
  account,     \* the account being built
  listing,     \* accountRegions of each account built so far
  todo,        \* regions the current loop has still to visit
  batch,       \* the next spot batch of the region it is in
  offerings, warnings,   \* what the build found; then what is left to send
  staging,     \* client: the offerings since the last begin
  view,        \* client: the offerings of the last commit
  resume,      \* client: the resume token of the last commit or heartbeat
  alerts       \* client: the warnings of this build

building == <<account, listing, todo, batch>>
held == <<staging, view, resume>>
client == <<held, alerts>>
vars == <<pc, cancelled, token, building, offerings, warnings, client>>

Offerings == [scope: Accounts, region: Regions, part: Parts, build: Tokens]
Warnings == [region: Regions, parts: SUBSET Parts]
Steps == {"Top", "ListRegions", "OnDemand", "Spot", "Batch", "Pause",
          "Begin", "Chunk", "Warn", "Wait"}

(* Every variable has its type.                                              *)
TypeOK ==
  /\ pc \in Steps \cup {"ended"}
  /\ cancelled \in BOOLEAN
  /\ token \in Tokens
  /\ account \in Accounts
  /\ listing \in [Accounts -> SUBSET Regions]
  /\ todo \subseteq Regions
  /\ batch \in Batches
  /\ offerings \subseteq Offerings /\ warnings \in Seq(Warnings)
  /\ staging \subseteq Offerings /\ view \subseteq Offerings
  /\ resume \in Tokens \cup {-1}
  /\ alerts \subseteq Warnings

IsFirst(r, S) == r \in S /\ \A q \in S : r <= q

Offering(r, p) == [scope |-> account, region |-> r, part |-> p, build |-> token]
Warning(r, P) == [region |-> r, parts |-> P]

(* The order of slices.SortFunc, as far as it is modelled.                   *)
Before(x, y) ==
  \/ x.scope < y.scope
  \/ x.scope = y.scope /\ x.region < y.region
  \/ x.scope = y.scope /\ x.region = y.region /\ x.part < y.part

(* The next chunk of S: the first ChunkSize offerings, or all there are.     *)
ChunkOf(S) == {x \in S : Cardinality({y \in S : Before(y, x)}) < ChunkSize}

Goto(step) == pc' = step

(* The locals of a build before its first account; no warning is out yet.    *)
Blank ==
  /\ account' = 1 /\ listing' = [a \in Accounts |-> {}]
  /\ todo' = {} /\ batch' = 1
  /\ offerings' = {} /\ warnings' = << >> /\ alerts' = {}

(* The call returns; its locals are gone.                                    *)
Return == Goto("ended") /\ Blank /\ UNCHANGED token

Found(r, p) == offerings' = offerings \cup {Offering(r, p)} /\ UNCHANGED warnings
Skipped(r, P) == warnings' = Append(warnings, Warning(r, P)) /\ UNCHANGED offerings

-----------------------------------------------------------------------------
(* The caller goes away: the stream's context is done, from now on.          *)
Cancel ==
  /\ pc # "ended" /\ ~cancelled /\ cancelled' = TRUE
  /\ UNCHANGED <<pc, token, building, offerings, warnings, client>>

(* WatchMarketFeed is called (again).                                        *)
Watch ==
  /\ pc = "ended" /\ Goto("Top") /\ cancelled' = FALSE
  /\ UNCHANGED <<token, building, offerings, warnings, client>>

(* The call returns: any AWS call or emit may fail for good, and fails when  *)
(* the context is done, unless its answer was there already.                 *)
Fail ==
  /\ pc \in Steps \ {"Top", "Pause", "Wait"}
  /\ Return /\ UNCHANGED <<cancelled, held>>

(* A variant of Top that starts a build without looking at the context.      *)
TopUnchecked ==
  /\ pc = "Top"
  /\ token' = (token + 1) % 2 /\ Blank /\ Goto("ListRegions")
  /\ UNCHANGED <<cancelled, held>>

(* The head of the loop, loadCatalog and routeAWSAccounts: a new build.      *)
Top ==
  /\ pc = "Top"
  /\ IF cancelled
       THEN Return
       ELSE token' = (token + 1) % 2 /\ Blank /\ Goto("ListRegions")
  /\ UNCHANGED <<cancelled, held>>

(* listMarketRegionsForAccount.                                              *)
ListRegions ==
  /\ pc = "ListRegions"
  /\ \E S \in Listings[account] :
       listing' = [listing EXCEPT ![account] = S] /\ todo' = S
  /\ Goto("OnDemand")
  /\ UNCHANGED <<cancelled, token, account, batch, offerings, warnings, client>>

(* buildOnDemandMarketOfferings: the region's prices, or a warning if the    *)
(* error is one the account or the catalog explains; then, or once all the   *)
(* regions are done, on to the spot market.                                  *)
OnDemand ==
  /\ pc = "OnDemand"
  /\ \/ /\ todo = {}
        /\ Goto("Spot") /\ todo' = listing[account]
        /\ UNCHANGED <<offerings, warnings>>
     \/ \E r \in todo :
          /\ IsFirst(r, todo) /\ todo' = todo \ {r}
          /\ Found(r, 0) \/ Skipped(r, {0})
          /\ UNCHANGED pc
  /\ UNCHANGED <<cancelled, token, account, listing, batch, client>>

(* The account's spot market is done: the next account, or the snapshot.     *)
NextAccount ==
  IF account < NAccounts
    THEN account' = account + 1 /\ Goto("ListRegions")
    ELSE Goto("Begin") /\ UNCHANGED account

(* buildSpotMarketOfferings, outer loop: a region without types is passed    *)
(* over, one whose zones cannot be described is warned about.                *)
Spot ==
  /\ pc = "Spot"
  /\ \/ todo = {} /\ NextAccount /\ UNCHANGED <<todo, batch, warnings>>
     \/ \E r \in todo :
          /\ IsFirst(r, todo)
          /\ \/ /\ r \notin TypedRegions
                /\ todo' = todo \ {r} /\ UNCHANGED <<pc, batch, warnings>>
             \/ /\ r \in TypedRegions
                /\ Goto("Batch") /\ batch' = 1 /\ UNCHANGED <<todo, warnings>>
             \/ /\ r \in TypedRegions
                /\ warnings' = Append(warnings, Warning(r, Batches))
                /\ todo' = todo \ {r} /\ UNCHANGED <<pc, batch>>
          /\ UNCHANGED account
  /\ UNCHANGED <<cancelled, token, listing, offerings, client>>

(* A variant of EndBatch that leaves the region with the batch that failed.  *)
EndBatchAtFailure(r, step) ==
  IF batch = NBatches \/ step = "Batch"
    THEN Goto("Spot") /\ todo' = todo \ {r} /\ UNCHANGED batch
    ELSE Goto("Pause") /\ UNCHANGED <<todo, batch>>

(* The region r is done after its last batch.                                *)
EndBatch(r, step) ==
  IF batch = NBatches
    THEN Goto("Spot") /\ todo' = todo \ {r} /\ UNCHANGED batch
    ELSE IF step = "Pause"
           THEN Goto("Pause") /\ UNCHANGED <<todo, batch>>
           ELSE Goto("Batch") /\ batch' = batch + 1 /\ UNCHANGED todo

(* The inner loop: one batch, its offerings and its prices, found or warned  *)
(* about.  After a warning the loop continues without the pause.             *)
Batch ==
  /\ pc = "Batch"
  /\ \/ cancelled /\ Return
     \/ \E r \in todo :
          /\ ~cancelled /\ IsFirst(r, todo)
          /\ \/ Found(r, batch) /\ EndBatch(r, "Pause")
             \/ Skipped(r, {batch}) /\ EndBatch(r, "Batch")
          /\ UNCHANGED <<token, account, listing, alerts>>
  /\ UNCHANGED <<cancelled, held>>

(* sleepWithContextAWS: when both are ready, either wins.                    *)
Pause ==
  /\ pc = "Pause"
  /\ \/ /\ Goto("Batch") /\ batch' = batch + 1
        /\ UNCHANGED <<token, account, listing, todo, offerings, warnings, alerts>>
     \/ cancelled /\ Return
  /\ UNCHANGED <<cancelled, held>>

-----------------------------------------------------------------------------
(* A variant that tells the client of a new snapshot only in its first call. *)
BeginOnce ==
  /\ pc = "Begin" /\ Goto("Chunk")
  /\ staging' = IF resume = -1 THEN {} ELSE staging
  /\ UNCHANGED <<cancelled, token, building, offerings, warnings, view, resume,
                 alerts>>

(* The events, and what the client does with them.                           *)
Begin ==
  /\ pc = "Begin" /\ Goto("Chunk")
  /\ staging' = {}
  /\ UNCHANGED <<cancelled, token, building, offerings, warnings, view, resume,
                 alerts>>

(* A variant of MoreChunks that forgets the last chunk if it is not full.    *)
MoreFullChunks == Cardinality(offerings) >= ChunkSize

MoreChunks == offerings # {}

Chunk ==
  /\ pc = "Chunk" /\ MoreChunks
  /\ staging' = staging \cup ChunkOf(offerings)
  /\ offerings' = offerings \ ChunkOf(offerings)
  /\ UNCHANGED <<pc, cancelled, token, building, warnings, view, resume, alerts>>

Commit ==
  /\ pc = "Chunk" /\ ~MoreChunks /\ Goto("Warn")
  /\ view' = staging /\ staging' = {}
  /\ resume' = token
  /\ UNCHANGED <<cancelled, token, building, offerings, warnings, alerts>>

Warn ==
  /\ pc = "Warn"
  /\ IF warnings = << >>
       THEN Goto("Wait") /\ UNCHANGED <<warnings, alerts>>
       ELSE /\ warnings' = Tail(warnings)
            /\ alerts' = alerts \cup {Head(warnings)}
            /\ UNCHANGED pc
  /\ UNCHANGED <<cancelled, token, building, offerings, staging, view, resume>>

(* heartbeatTicker: the client learns the token it can resume from; if the   *)
(* client is gone the call ends.                                             *)
Heartbeat ==
  /\ pc = "Wait"
  /\ \/ /\ resume' = token /\ UNCHANGED pc
        /\ UNCHANGED <<token, building, offerings, warnings, alerts>>
     \/ Return /\ UNCHANGED resume
  /\ UNCHANGED <<cancelled, staging, view>>

(* refreshTimer.                                                             *)
Refresh ==
  /\ pc = "Wait" /\ Goto("Top")
  /\ UNCHANGED <<cancelled, token, building, offerings, warnings, client>>

(* ctx.Done while waiting.                                                   *)
EndWait ==
  /\ pc = "Wait" /\ cancelled /\ Return
  /\ UNCHANGED <<cancelled, held>>

-----------------------------------------------------------------------------
Init ==
  /\ pc = "Top" /\ cancelled = FALSE /\ token = 0
  /\ account = 1 /\ listing = [a \in Accounts |-> {}]
  /\ todo = {} /\ batch = 1
  /\ offerings = {} /\ warnings = << >>
  /\ staging = {} /\ view = {} /\ resume = -1 /\ alerts = {}

(* What the call does by itself, apart from waiting.                         *)
Step ==
  \/ Fail \/ Top \/ ListRegions \/ OnDemand \/ Spot \/ Batch \/ Pause
  \/ Begin \/ Chunk \/ Commit \/ Warn

Next == Cancel \/ Watch \/ Step \/ Heartbeat \/ Refresh \/ EndWait

Spec == Init /\ [][Next]_vars

(* The call goes on, and a select that has ctx.Done ready takes it some day. *)
FairSpec == Spec /\ WF_vars(Step) /\ WF_vars(EndWait)

-----------------------------------------------------------------------------
(* What the spot and on-demand builds owe an account.                        *)
Due(a) ==
  {d \in listing[a] \X Parts : d[2] = 0 \/ d[1] \in TypedRegions}

(* When the feed rests, every part of the market of every account is in the  *)
(* snapshot the client holds or was named in a warning it got: no error is   *)
(* skipped in silence and no chunk is lost (shouldSkipMarketRegionError,     *)
(* shouldSkipMarketBatchError, the chunk loop of WatchMarketFeed).           *)
NothingSilentlyMissing ==
  pc = "Wait" =>
    \A a \in Accounts : \A d \in Due(a) :
      \/ \E x \in view : x.scope = a /\ x.region = d[1] /\ x.part = d[2]
      \/ \E w \in alerts : w.region = d[1] /\ d[2] \in w.parts

(* The client never holds offerings of two builds at once, and the token it  *)
(* would resume from is that of the build it holds, whatever calls were cut  *)
(* off in the middle of a snapshot before.                                   *)
ViewIsOneBuild == \A x \in view : x.build = resume

(* What the build found, wherever it is on its way to the client.            *)
Snapshot ==
  CASE pc \in {"Warn", "Wait"} -> view
    [] pc = "Chunk" -> offerings \cup staging
    [] OTHER -> offerings

(* The stream of begin, chunks and commit acts as one message: the client    *)
(* gets all that one build found, or nothing of it, and the token of what it *)
(* holds, wherever calls are cut off and opened again.                       *)
Publication ==
  INSTANCE MarketPublication WITH
    None <- -1, current <- token, gathered <- Snapshot, published <- view, mark <- resume
PublishesWhole == Publication!Spec

(* A call whose context is done returns, wherever it is.                     *)
CancelEnds == cancelled ~> pc = "ended"
=============================================================================
