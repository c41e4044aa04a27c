# Verification of arco-provider-aws

TLA+ models of the AWS provider in this repository, the TLC runs that check
them and the theorems TLAPS proves about them. Paths are relative to the root
of the repository; a line number is of the commit the models were written for.
`PROJECT.json` maps every definition of a model to the lines it stands for, and
names for every property a mutant of the code that breaks it.

1. [The system](#1-the-system)
2. [Modules](#2-modules)
3. [Runs](#3-runs)
4. [Bounds](#4-bounds)
5. [Fairness](#5-fairness)
6. [What the environment is assumed to do](#6-what-the-environment-is-assumed-to-do)
7. [Theorems](#7-theorems)
8. [Where code and documentation part](#8-where-code-and-documentation-part)
9. [What is not modelled](#9-what-is-not-modelled)
10. [Plan](#10-plan)

## 1. The system

A host starts the provider as a child process, reads one line of JSON from it
(address and session token) and then calls it over gRPC. The provider keeps
almost nothing: credentials come with each request, instances and networks are
found again by their tags, and a cursor or a token is handed to the host where
a sequence of calls belongs together. What is hard about it is therefore not a
large state but state that lives elsewhere (in EC2, in a directory shared by
processes, in the host) and is read, decided upon and written without a lock.

| Component | State | Operations | What is hard | What makes it correct |
| --- | --- | --- | --- | --- |
| Managed network (`network_manager.go`) | VPC, gateway, route table, subnets and security group in EC2, found by tag | `ensureManagedNetwork`: ten find-or-create steps | several `StartInstance` calls of several processes at once; `Describe` answers that are behind; failure and retry after any step; IPv6 blocks that take their time | a returned network carries traffic; one subnet per zone and mode; closed security group; retries do not pile up VPCs; calls end |
| Instance lifecycle (`instance.go`, `instance_runner.go`, `launch_failures.go`) | instances in EC2 | `StartInstance`, `StopInstance` | a lost `RunInstances` answer and the retry; retries resolve image and subnet anew | one instance per request id, one per attempt without; the first lost answer is reported as retryable; a destroyed instance stays gone |
| Launch configuration (`provider_config.go`, `instance_launch_config.go`) | none beyond the call | parse options, resolve network, build `RunInstances` input | a dozen options that overrule one another; integers cut to 32 bits | the network mode is kept whatever else is given; a subnet is always found; subnet and group belong together |
| Image selection (`instance_runner.go`) | none beyond the call | `pickDebianAMI` over pages of parameters | order of the pages, ties | the choice is the greatest, whatever the order |
| Catalog cache (`catalog.go`, `catalog_registry.go`) | a snapshot under a mutex; three files and `resolve.json` in `$HOME/.arcoloom` | `loadCatalog` with its registry sync | files shared by processes without a lock; crashes between files; a version published meanwhile | what one load returns is one version, and of two nothing older than they had resolved; once available, always available; loads end |
| Market feed (`market_feed.go`, `market_warnings.go`) | a stream; the client's staging and view | build, begin, chunks, commit, warnings, heartbeat | errors in a part of a build; streams cut off between two events; cancellation in any wait | nothing silently missing; the client holds one build; a cancelled call returns |
| Inventory (`instance_list.go`) | the host's cursor | `ListActiveInstances`, whole or incremental | accounts and regions change between two calls of a round, instances between two pages of a call; EC2 filters by less than the request | a round skips nothing that was there all the time; rounds end; a whole inventory lists what was active throughout |
| Spot data (`spot.go`, `locations.go`) | none beyond the call | `GetSpotData` | one region of several fails; zones with two names; price pages | gaps are named in warnings; the newest price is kept |
| On-demand prices (`ondemand.go`) | none beyond the call | `GetInstancePrices`: batches of the Price List API | limits of a batch; documents in any order; names written in several ways | each type is asked for once; each is priced or warned about |
| Catalog queries (`catalog.go`) | the snapshot | `ListInstanceTypes`, `GetInstanceTypeInfo` | repeated and incomplete records; two copies of the filter | the answer is that of the files; the two calls agree; a region has a name if any record gives one |
| Account routing (`account_router.go`, `auth.go`, `provider.go`) | the host's accounts, the scope ids it was told | route a call to an account, validate accounts, assume a role | the host renames, rotates, adds and drops accounts between an answer and the call that names its scope | a call acts as the identity that made the offer, or is refused |
| Runtime (`internal/runtime`, `cmd`) | child process, its output, its port | launch, handshake, serve, signal, stop | a child that dies or stalls before its line; cancellation against stop; a port taken over | no process is left behind; launch and stop return |
| gRPC transport (`internal/transport/grpc`) | session token | token check on each call, cancellation, conversions both ways | a client of a process that is gone; fields that get lost on the way | unary calls of another session get nothing done; the identity survives the wire |
| Schema, registry configuration | none | constants, text parsing | - | not modelled |

How they meet: `StartInstance` parses its options (launch configuration),
resolves an image (image selection), calls `ensureManagedNetwork` (managed
network) and then `RunInstances` (instance lifecycle); before all that the transport has checked
its token and account routing has chosen whom it acts as. The market feed loads
the catalog and uses the same zone, offering and price calls as spot data. The
inventory, the feed and the price calls all start from account routing. The
runtime carries everything: when the process ends, so does every call in it, and
what those had sent to EC2 may still arrive.

## 2. Modules

| Module | Models | State and actions |
| --- | --- | --- |
| `ManagedNetwork` | `network_manager.go`, all of it | EC2's side of a region (`vpcs`, `v6`, `subnet`, `tables`, `sg`, ...) and each caller's locals (`vpc`, `listed`, `mem`, ...). One action per EC2 call with the decisions on its answer; `Fail` ends a call anywhere, with or without the effect of the call it was in; `SettleVpc`, `SettleSubnet` are EC2 finishing IPv6 associations |
| `SubnetRegistry` | what `ensureManagedSubnet` promises | abstract: one registry of placements and their numbers; implemented by `ManagedNetwork` with the existing subnets as the registry |
| `MarketPublication` | what the feed promises its client | abstract: a build gathers offerings and is published in one step, whole and with its token, or abandoned without a trace; implemented by `MarketFeed` |
| `CatalogCache` | `loadCatalog`, `syncRegistryDataset` | the files, what `resolve.json` records, each process's snapshot, each load's place; `Publish`, `Expire`, `Crash` are the world |
| `MarketFeed` | `WatchMarketFeed`, `buildMarketSnapshot` and its parts, and a client that applies the events | the build's loops, what is left to send, and the client's staging, view, resume token and alerts |
| `InstanceLifecycle` | `StartInstance`, `StopInstance`, `classifyStartInstanceError` | instances in EC2 by request; each request's attempt and last answer. `Launch` may lose its answer; `Lose` ends attempts whose caller or process is gone, and what they had sent (`calls`) may `Arrive` much later; `Repeat` is EC2 recognising a client token |
| `ProviderSession` | `launcher.go`, `server.go` of the runtime, `auth.go` and the clients of the transport, on top of `InstanceLifecycle` | the host's goroutine in `Launch` or `Stop`, the child as the system sees it, its port, line and token, the host's clients, the feed streams it serves. Actions of `InstanceLifecycle` happen only through a process that serves the caller's token; a stream is opened with any token |
| `AccountRouting` | `account_router.go`, the credentials in `client_mappers.go` and `mappers.go`, `auth.go`, `ValidateConnection` | the host's accounts and the form they travel in; one offer with its scope id; the last call made for it. The host reconfigures itself in any way between the two |
| `LaunchConfig` | `parseStartInstanceProviderConfig`, `resolveRunInstancesConfig`, `buildRunInstancesInput` | one call, one action per stage; an option that may be missing is a set of at most one value |
| `AmiSelection` | `pickDebianAMI`, `debianAMIScore` | the loop with its running best |
| `InventoryScan` | `ListActiveInstances` with `incremental_inventory` | the configured accounts, the regions each sees, the host's cursor |
| `InventoryList` | `ListActiveInstances` over all targets, with EC2's filters and the code's own | the plan, the region being read and its unread instances, what is listed; EC2's instances change between pages |
| `ZoneFilter` | the test of an entry of `availability_zones`, in `locations.go` and `instance_list.go` | pure: how an entry names a zone and is written, and whether it is taken for a zone of another region. Part of `SpotQuery` and `InventoryList` |
| `SpotQuery` | `GetSpotData`, `selectAvailabilityZones` and the fetches | one call over its regions; EC2's answers are chosen as they come |
| `CatalogQueries` | `buildCatalogSnapshot`, `ListInstanceTypes`, `GetInstanceTypeInfo` | the files, read record by record into the snapshot's maps, and one answer |
| `InstancePrices` | `GetInstancePrices`, `ondemand.go`, on top of `CatalogQueries` | the types wanted, the batches left, prices of this batch and of those before, the answer |

Most have an `MC...` module that names the values their configurations use.
Three of them divide a run into parts: `MCProviderSession` has two
scenes of `ProviderSession`, one in which processes come and go under a single
request and one in which all requests meet one process that lasts;
`MCStartRequest` explores account, options and image of a `StartInstance` one at
a time with the other two at rest, since they share no variable; `MCQueries`
does the same for the calls that only read, of which prices and catalog queries
share a snapshot.

Variables that only record the past are marked as history in their comment; no
guard of an action that models code reads one. Definitions that a comment calls
a variant are not part of the specification: they are what the code would be
with one plausible mistake, and each property is known to fail under its own.

`ManagedNetwork` and `InstanceLifecycle` both have the network step of
`StartInstance`: the former from the inside, the latter and `LaunchConfig` as
one step that gives a subnet or fails. That the subnet `LaunchConfig` assumes to
come back (right mode, IPv6 block in place) does come back is
`UsableWhenDone`.

## 3. Runs

Managed network

- `network_race`: two calls, each for an IPv6-only placement in one zone or for
  a dual-stack one in another, the same or not, start from an empty region or from
  one an earlier release left (a VPC without IPv6, an IPv4-only subnet, an open
  security group). There is room for one VPC, two subnets and two indexes, so
  that a caller that did not see the other's VPC is refused a second one, and in
  the region of the earlier release the third placement finds neither a free
  index nor a free id. `UsableWhenDone`: whichever returns has a subnet of the mode
  asked for whose table, perhaps another call's, leads to a gateway attached to
  the same VPC. `OutboundOnlyWhenDone`: its security group is closed, although
  two callers may be closing it at once. `EveryCallEnds`, with EC2 owing no
  answer about IPv6.
- `network_retry`: one caller, four calls, each of which may break off at any
  step, lose an answer, or see an association fail. `OneVpcPerCaller`, and
  `AssociationAwaited`: no second IPv6 block is asked for while one is there.
- `subnet_race`: two callers, four placements, lists that may miss what was just
  created. `UniqueSubnetPerPlacement`, and `ActsAsRegistry`, the refinement of
  `SubnetRegistry`: the lowest free index is a claim, and EC2's overlap check
  refuses the second claim of it.
- `ipv6_recreated` (violation): section 8.

`catalog`: two loads of two processes on one directory, versions published under
way, failures and crashes. `SoloLoadIsWhole`: alone, a load returns one version.
`ServedIsRecent`: beside others it may return a mixture, but of nothing older than
what the registry has named since it began or a load it then joined had resolved.
`AvailableOnceInstalled`: with three files there, it does not fail.
`EveryLoadEnds`.

`feed`: two accounts, one of them with two spot batches to build, the other in a
region without types or in none; the call fails, is cancelled and is opened
again anywhere (`ViewIsOneBuild`, `NothingSilentlyMissing`, `CancelEnds`), and
`PublishesWhole`, the refinement of `MarketPublication`: what it calls gathered
is, in the feed, the build's offerings while they are collected, what the client
has staged together with what is left to send while chunks go out, and the view
once they are committed. Begin, chunks and heartbeats are then stutters, a commit
publishes, and a stream cut off anywhere abandons.

`session`: two requests of which one has no request id, two attempts each, up to
two processes on one port, every launch, cancellation, stop, crash and end of
either side, clients old and new, launches EC2 performs after the caller is gone,
new images and stops. `LaunchesBounded` (one instance of a request with an id, one
of each attempt of the other, be their calls late), `LostAnswerInvitesRetry` (what
the host is told of an attempt that may have launched invites it to ask again),
`DestroyedIsGone` (what was stopped does not run again, and for a request with
an id nothing else runs in its place, whatever retries are under way), all of them
through restarts; `NoneLeftBehind` and `HostNeverHangs` of the host's side;
`OwnCallsOnly` of the token, for unary calls. Streams are opened by clients old
and new alike, see section 8.

`start_request`: what a `StartInstance` goes through before it reaches EC2. Every
pair of accounts out of thirteen, reconfigured at will between offer and call
(`ReachesIssuer`, `ScopeStaysKnown`, `AcceptedIsUsable`, `KeyedIdentityArrives`);
every combination of options (`ModeIsStrict`, `OwnSubnetServes`,
`ManagedTogether`); every list of up to three image parameters
(`PickIsGreatest`). `launch_count` and `identity_lost` are violations, section 8.

`inventory`: three accounts, two regions, three changes of either at any moment
(`RoundIsComplete`, `RoundsEnd`).

`queries`: the calls that only read, one at a time.

- Spot data: requests for one or two of three zones of two regions, by name or by
  id, as AWS writes them, in upper case or with a blank before them, one of the
  zones a local one; regions refused at any of their calls, price entries of two
  times (`RegionsTold`, `ZonesTold`, `NewestPriceKept`). The two on zones say which
  entries they are about (`Understood`): the code passes over the others.
- Catalog: files whose records repeat, lack a name or a code, or are blank, and
  every combination of filters (`AnswersTheFiles`, a reference definition in
  terms of the files alone, by which a type is warned about just if the files do
  not know it; `NamesKnown`).
- Prices: lists of up to three types in several spellings, batches at both their
  limits, documents for this region, another or none
  (`EachAskedOnce`, `PricedOrMissing`).
- Inventory: three instances of two accounts, one change at any moment, pages of
  any size, filters EC2 has and has not, zones given by name and by id, an
  upper-case name and a local zone's id among them (`ActiveAreListed`).

Type invariants are proved, each for its module, and not checked once more by a
run.
Deadlock is checked where the system is to go on for ever. `start_request`,
`launch_count` and `queries` are of calls that end, `session` of a host with a
bounded number of launches, and they say `CHECK_DEADLOCK FALSE`; in
`ManagedNetwork` calls that have used up `MaxCalls` stutter in `Exhausted`.

## 4. Bounds

| Bound | Why it is enough |
| --- | --- |
| two callers of the network | every conflict is between one call's read and another's write; the third adds no new kind of pair, and the theorems on subnets are for any number |
| `VpcIds`, `SubnetIds`, ... | EC2's quotas as well as bounds: a create that finds no id left fails, which the code meets anyway. One VPC is too few for two callers that do not see each other, and that is what `network_race` has of them (two of everything else); in `network_retry` there are two, and that any number of callers with any number of VPCs return usable networks is proved |
| `MaxIndex` 0 or 1 | the code's 255; `network_race` (1), after an earlier release took one, and `subnet_race` reach the last index and the refusal behind it |
| `MaxPolls` 0 or 1 | the code's waits of some minutes; the wait ends both ways, by the answer and by the timeout |
| `MaxV6Blocks` 1 or 2 | EC2's quota of IPv6 blocks on a VPC; where a second block is what a property is about there is room for it |
| `MaxVersion` 2, two loads | a mixture of files needs two versions and two writers (or a crash) |
| two accounts or two regions, two batches | an error must have something beside it that succeeds; chunks of two do not come out even |
| two tokens in turn | they have to tell a build from the one before it; a mixture of older builds comes about from the one before as well |
| two attempts, two instances | the second attempt is the retry; two launches of one request id, or of the first attempt of a request without, already are one too many |
| three changes of accounts or regions (`MaxChanges`) | enough to take a target away, bring another and bring the first back, in one round or over several; the rounds themselves are not bounded |
| integers of three bits | `Int32` is the code's conversion for any width; values up to twice the width come round in every way there is. `LaunchProofs` has any width |
| three parameters | an order needs two, a tie that is broken later three |
| three zones, entries in three forms (`Zones`, `LocalZones`) | two zones of one region and one of another; an ordinary and a local one, whose id looks like a name. The code tells entries apart by nothing but name or id, case, a leading blank and the region they begin with |
| two launches, one port (`MaxLaunches`) | the second process is the one that takes over the port of the first, which is what a stale client meets |
| two accounts at once, thirteen to choose from | a call must be able to go to the wrong one; each of the thirteen differs from another in one field only, or cannot be used in one way |
| batches of two types, three characters (`MaxItems`, `MaxLength`) | the code's limits, small enough for each to be met alone and at its edge, and for one name to be beyond it by itself |
| two documents a batch, three types asked for | a second document for a type, and one of a later batch for a type of an earlier |
| one change of an instance (`MaxEvents`) | between any two pages and any two regions; what counts is whether an instance answered all the time or at some time |
| two price entries of a region, two times | a later entry for the same zone is newer, as new or older, or it is for another zone |

## 5. Fairness

- `ManagedNetwork`, `CatalogCache`: weak fairness of `Step` for each call, since
  a goroutine that can run does run. EC2 settling a block, the registry, a
  crash and a new call are owed nothing.
- `MarketFeed`: weak fairness of the call's own steps, and of `EndWait`: a Go
  `select` whose `ctx.Done()` is ready picks among the ready cases at random,
  so that it takes this one in the end. Timers are owed nothing.
- `InventoryScan`: weak fairness of `Scan`, which is the host asking again while
  its cursor is not empty and being answered in the end. The first is the
  protocol of `next_cursor`, and without it no round ends. The second is an
  assumption about AWS: a region that fails at every attempt fails the call each
  time, the cursor does not move, and the round stays where it is.

- `ProviderSession`: weak fairness of the host's goroutines in `Launch` and
  `Stop` and of the one `exec.CommandContext` starts; of `Exit` once the process
  was sent SIGKILL; of `Listen` and `WriteStartupInfo`, that is of a provider
  that was not killed getting as far as its line. A binary that is no provider owes
  no line, so that `Launch` may wait for it until its context is cancelled.

Nothing else is assumed, and strong fairness nowhere.

## 6. What the environment is assumed to do

- EC2 refuses a subnet whose IPv6 block overlaps another of the same VPC, a
  second security group of one name in a VPC, a second gateway on a VPC. It
  answers a repeated client token with the same instance, or with an error if
  parameters differ or the instance is gone. One `RunInstances` call launches
  once, however often the SDK sends it.
- `Consistent = FALSE` lets a `Describe` miss a resource of its kind that
  another call just made; what it lists is as it is. An operator who deletes or
  changes managed resources while calls run is not considered.
- After `InvalidGroup.Duplicate` the code starts over and looks again. With
  lists that never catch up this has no end, so `EveryCallEnds` is checked with
  `Consistent = TRUE`.
- A gateway or a route table that was created and whose attachment failed stays
  behind; the next call makes another. The model has this, and no property
  forbids it.
- Catalog: the size a version declares for a file tells it from the other
  version's. The code compares the sizes and nothing else, so two versions of
  one size would be taken for each other. Each version has one size for its
  three files here.
- `AssociationAwaited` is checked for the retries of one caller and proved for
  any number of callers in regions whose VPCs this code made. Two callers that
  meet a VPC without any block, as an earlier release left it, each ask for one.
- The system may give a port that was free to any process, so also that of a
  provider that has ended. Tokens are drawn afresh for each process and taken to
  differ.
- The name of a zone begins with the name of its region and has two dashes or
  more. The id of an ordinary zone has one, that of a local or wavelength zone two.
  The requests of a whole inventory stand as `normalizeListActiveInstancesRequest`
  leaves them, without blanks.
- A `RunInstances` whose caller is gone may be carried out at any later time.
- Scope ids are digests, taken to be as good as what goes into them.
- A region's pages list each instance that exists throughout exactly once, as it
  is at the time of its page.
- A catalog writes each type in one way. Documents of the Price List API are for
  the types of the batch, in any order, with a name or without.
- A whole inventory has at least one account to ask; with none the call is refused
  at once (`instance_list.go:27-30`).
- Inventory: scope ids differ. `RoundIsComplete` is for rounds in which either
  the accounts or their regions change (`changed` remembers which). If both do, the cursor changes form
  (scope and region, or region alone) while the targets move, and a target
  may be passed over.
- Spot prices are listed newest first, which is what "latest" in
  `fetchLatestSpotPrices` rests on.

## 7. Theorems

All hold for every value of the constants that the named assumptions admit.

| Module | Theorem | Argument |
| --- | --- | --- |
| `ManagedNetworkProofs` | `TypeCorrect`: `TypeOK` | one step per action; with `HasVpc`, that a caller past its first steps has a VPC |
| | `RetriesMakeOneVpc`: `OneVpcPerCaller`, if `Consistent` | strengthened by "a caller that created a VPC will find one" (`MadeInv`): VPCs are never deleted, so `FindVpc` does not come back empty |
| | `GroupOutboundOnly`: `OutboundOnlyWhenDone` | `GroupInv`: what a caller saw missing from its group may since have been added by another, but never the reverse (`GroupKept`), so that what it does not add is there |
| | `ReturnedNetworkUsable`: `UsableWhenDone` | `NetworkInv`. Of the region: a default route leads to the gateway attached to the VPC of its table (`RoutesSound`), and a subnet is only associated with a complete table of its VPC (`SubnetsRouted`). Of each caller at each step: what it knows of its table (`TableInv`), its zone (`PlaceInv`) and its subnet (`SubnetInv`). What it knows cannot become false, since nobody takes anything back (`Kept`). No assumption about lists, IPv6, or what the region held |
| | `NetworksOnlyGrow`: `[][Kept /\ ...]_vars` | the action property the two rest on, for groups, gateways, routes, attributes and associations |
| | `CallsGoForward`: `[][GoesForward]_vars`, if `Consistent` | the safety half of `EveryCallEnds`: places in the code are numbered so that each step of a call ends it, goes to a later place or uses up a turn of a wait, at most 25 * (`MaxPolls` + 1) in all. The one way back, after `InvalidGroup.Duplicate`, leads to a `FindSg` that finds the group and so counts as later; with lists that need not catch up it does not, which is why it is assumed |
| | `VpcsSettle`: `[][OneVpcForAll]_vars`, if `Consistent` | a call creates a VPC only after a look that found none; once there is one and no call is past such a look, `FindVpc` shows all calls the same VPCs, which are no longer added to |
| `SubnetProofs` | `UniqueSubnet`, `RegistryImplemented`, `BlockAwaited` | in `Setting` (no VPC of an older release, blocks listed with their CIDR). `IInv`: a VPC has one block; indexes are used without gaps and once; what a call was shown exists, and has no subnet of its placement when it is about to create one. A call that missed another's subnet computes an index that is taken, and EC2 refuses it |
| | `PlacementsShareSubnet` | in `Setting`: a call returns a subnet of its placement (`NetworkInv`), and there is one (`UniqueSubnet`) |
| `CatalogProofs` | `CatalogTypes`; `CatalogStaysAvailable`: `AvailableOnceInstalled` | files are replaced, never removed; what a load checked or wrote is there when it reads (`AInv`) |
| | `SoloLoadReturnsOneVersion` | if sizes tell versions apart. `WInv`: the files a load that runs alone has passed are of its version |
| | `LoadsReturnRecent`: `ServedIsRecent` | if sizes tell versions apart. `RInv`: at any time, all that any load can install is among what each load in progress may return, and so is each file such a load has checked, installed or read (`RecentSurvives`, whatever the others do) |
| | `LoadsGoForward`: `[][GoesForward]_vars` | the safety half of `EveryLoadEnds`: a failed sync is further on than what it gave up, and a step over the files counts them |
| `FeedProofs` | `FeedTypes`: `TypeOK` | with `RestInv`: a pause has a batch after it, and a feed that waits has no warning left to send |
| | `SnapshotOfOneBuild`: `ViewIsOneBuild` | `StampInv`: what a build found and what it has staged carry its token; from the commit on the resume token is the build's |
| | `StreamPublishesWhole`: `PublishesWhole` | under the mapping of section 3 every step is a step of `MarketPublication` or a stutter, given `StampInv` |
| | `NothingIsSkippedSilently`: `NothingSilentlyMissing` | `CoverInv`: each part the loops over accounts, regions and batches are past is in the snapshot, in a warning the client got, or in one still to be sent. One lemma per loop |
| | `BuildsGoForward`: `[][BuildGoesForward]_vars` | the safety half of `CancelEnds`: lexicographic, by account, market, regions left, turn in a region, then by offerings and warnings left. `ChunkHasOne`: what is to be sent has a first in its order (`LeastNat` three times), so that no chunk is empty |
| `SessionProofs` | `InstanceTypes`, `RetriesLaunchOne`, `DestroyedStaysGone` | of `InstanceLifecycle`: a launch under a token that was used does not happen, be it that of a call nobody waits for; a terminated instance is never set running, and with a request id it is the only one its request ever had. `CountInv`: instances launched, calls on their way and the attempt at work are together no more than the attempts made, and what has no state was launched by nobody |
| | `LostAnswersInvite`: `LostAnswerInvitesRetry` | strengthened by `AnswerFollows`: nothing can have been launched for a request whose first attempt has not ended, and what that attempt said follows from how it ended |
| | `SessionKeepsLifecycle` | the three promises of the lifecycle, of sessions, each step of which is one of the lifecycle or leaves its variables alone |
| | `SessionTypes`, `NoneIsLeftBehind`, `OnlyOwnCalls` | strengthened by what the host knows of the child at each of its places, and by calls in progress needing a child that serves: `Exit` ends them all, and the token a unary call was served under is that of the process; streams need it to serve as well, and are not tied to its token |
| | `HostGoesForward`: `[][Onward]_<<vars, sessionVars>>`; `HostWaitsForSomething` | the safety half of `HostNeverHangs`: a Launch and a Stop take at most three steps of the host, which nobody sets back, and at each of them what is waited for is on its way (`HostIsOwed`, with `NoLineYet`) |
| `LaunchProofs` | `AccountTypes`, `ScopeReachesIssuer`, `ScopeIsKept`, `KeyedIdentityTravels`, `AcceptedAreUsable` | a scope id has in it everything an identity is made of except the session token, so that two accounts of one scope are one identity; what the wire changes it changes the same way on the offer and on the call |
| | `LaunchTypes`, `NetworkModeIsStrict`, `ChosenSubnetServes`, `ManagedGroupTogether` | `LInv` says after each stage what the former ones have fixed |
| | `AmiTypes`, `PicksGreatest` | loop invariant `BestSoFar`, over an order that is reflexive and transitive |
| `InventoryProofs` | `InventoryTypes`; `RoundsAreComplete`: `RoundIsComplete`, if scope ids differ | `ScanInv`: of the targets that every call of the round listed, all before the cursor have been scanned. A cursor without a scope stands for fewer targets than one with it, so the invariant also says (`OneAccount`) that it comes from a round in which one account was listed |
| | `ScansMoveOn`: `[][MovesOn]_vars`, if scope ids differ | the safety half of `RoundsEnd`: a cursor that was just given out fits no target but its own (`FitsOne`), and that comes after the one scanned |
| | `InventoryListTypes`; `ActiveInstancesListed`: `ActiveAreListed` | `ListInv`: an instance that answered throughout (which, by `FiltersAnswer`, is what the code's filters pass) is in a target still to be read, on a page of this one still to be read, or listed |
| `QueryProofs` | `SpotQueryTypes`, `NewestPriceIsKept`, `EveryRegionTold`, `EveryZoneTold` | `SpotInv`: each region the loop is past was skipped with a warning or has one item for each zone wanted and type, and none of another zone; what the code keeps of a request is what can be understood of it (`UnderstoodAreRequested`), and of that each zone was found or is in a warning; a price is the newest of the entries read |
| | `CatalogQueryTypes`, `EveryNameKnown`, `AnswersAreTheFiles` | `CatalogInv`: after any part of the files the maps are what that part says (`MetadataInv`, `OffersInv`, `NamesInv`), with the first usable record of a type and the later ones left out. An answer is compared with the files by the two copies of the filter |
| | `PriceTypes`; `PricedOrNamedMissing`: `PricedOrMissing` | `PriceInv`: a price found of a type wanted is in the results of this batch or of those before, and one price for each type survives their merging |
| | `AskedOnce`: `EachAskedOnce`, if the catalog writes each type in one way (`OneSpelling`) | `BatchInv`: what was sent and the batches left make up what is wanted, in order, and each batch is within both limits. It rests on what `Dedupe`, `Chunks` and `JoinedLength` compute for every list |

What the three loops of `ondemand.go` compute is an induction, and the library's
induction theorems take an operator as a parameter, which the provers cannot
instantiate. `QueryProofs` does these by hand: `LeastNat` (a set of numbers that
is not empty has a least element) turns each into "the least place at which the
claim fails is not the first, and not the one after a place where it holds".
The loops are recursive functions for that reason (`Keep`, `Pack`,
`JoinedLength`), and `Iterates` and `SameLoop` say once that such a function
exists and that one on a longer list begins like that on a shorter.

With these every safety property of the passing runs is a theorem. Only
model-checked:

- everything temporal (`EveryCallEnds`, `EveryLoadEnds`, `CancelEnds`,
  `RoundsEnd`, `HostNeverHangs`): liveness under fairness, and `ENABLED` with
  it, is outside what the proof system handles. Of each the safety half is
  proved, that what a call does brings it closer to its end; that it always
  can do something, and does, is what the runs add;
- that the runs which end with a counterexample do so.

What the theorems assume beside the constants' types is named in their
statements: `Consistent`, `Setting`, sizes that tell versions apart, scope ids that
differ, `OneSpelling`. Each is one of the assumptions of section 6.


## 8. Where code and documentation part

Three runs end with a counterexample, as they are meant to:

- `ipv6_recreated`: a VPC whose IPv6 association is listed before its CIDR is
  known gets a second block (`network_manager.go:179`). A test speaks of the
  association being "awaited, not recreated". With two blocks, the /64 of a
  subnet no longer follows from its index, which `UniqueSubnetPerPlacement`
  rests on.
- `launch_count`: `ipv6_address_count` is checked for its sign and then cut to
  32 bits, so 2147483648 becomes negative (`provider_config.go:329`);
  `root_volume_size_gib` likewise.
- `identity_lost`: an account of the default credential chain with a role to
  assume loses the role when it travels in a list of accounts
  (`client_mappers.go:50-54`), and not when it travels alone
  (`client_mappers.go:107`); `schema.go:22` offers the role for this very case.
  `KeyedIdentityArrives` is what holds of all other accounts.

Others are plain from the code, and the models follow the code:

- `StopInstance` stops one instance (`instance_runner.go:99-132`); the API
  document (`docs/provider-api.md:481`) has it stop the instances of a stack.
- Every parameter scores at least ten, since the path it is under ends in
  `/latest`; with none of the right architecture one of the other is picked
  instead of an error (`instance_runner.go:306`).
- With a `subnet_id`, `use_default_security_group` gives the group "default" of
  the default VPC (`instance_launch_config.go:81`), not the managed one of the
  selected VPC that `schema.go` speaks of.
- A zone requested by its name and by its id is found, and reported as not
  found under its id (`locations.go:300-307`).

- `availability_zones` is matched "against either zone names or stable zone IDs"
  (`docs/provider-api.md:373`). The code takes any entry with two dashes that does
  not begin with the region's name for a zone of another region and passes over
  it (`locations.go:278`, `instance_list.go:421`). So the id of a local or
  wavelength zone ("usw2-lax1-az1") matches nothing, nor does the name of a zone
  in upper case, though case is otherwise ignored; and neither is warned about
  (`locations.go:327`). That line tests the entry before it is trimmed: a name with
  a blank before it is matched, but nothing is said if it is not found.
- "All RPCs are guarded by a unary interceptor" (`docs/provider-api.md:79`). The
  one that streams, `WatchMarketFeed`, is not: the server has no interceptor for
  streams (`runtime/server.go:65-67`). A client of an earlier process is served one
  by a later process on its port, which `OpenStream` has it do; `OwnCallsOnly` is
  of unary calls for that reason.
- A type the files know, but not in the region or not with the series or other
  filters asked for, is left out of the answer of either catalog call without a
  warning (`catalog.go:366`, `catalog.go:465`); only a type the files do not know
  is named in one (`catalog.go:658-676`).
- Prices come from the Price List API (`ondemand.go:40`), whatever the catalog
  says; `docs/provider-api.md:629` has them come from `instance_regions.json`.
  The snapshot's `pricesByKey` and `seriesToTypes` are built and never read.
- A region filter tells upper from lower case, a type filter does not. The
  inventory's own type filter does not either, but the filter it gives to EC2
  does.
- A blank type in a request is warned about as one without a price
  (`catalog.go:693-701`) and is passed over as one not in the catalog
  (`catalog.go:660`).

## 9. What is not modelled

- `schema.go`: a constant. Reading `config.toml`, decoding JSON, logging, wording
  of messages, tags, user data.
- The SDK: construction of clients, its own retries, the calls of STS.
- `ListRegions` and `ListAvailabilityZones` merge the accounts' answers by name
  and change no state.
- Conversions that copy field by field: most of `mappers.go` and
  `client_mappers.go`, `buildInstanceTypeInfo`, `buildActiveInstance`. The ones
  that drop or rename something that matters later, the credentials and scopes,
  are in `AccountRouting`.
- Prices, attributes and offerings as such: one offering stands for those of an
  account, a region and a part, one amount for what a document says. An offering
  dropped because its record is unknown or its price does not parse is not told
  from one EC2 does not have. Which of several terms of a document counts depends
  on the order of a Go map; the model has a document say any one amount.
- Streams on the wire: `MarketFeed` models `WatchMarketFeed` from its handler on,
  with events lost when a stream is cut off; `ProviderSession` only that a stream
  is open, at which process and by which client.

One hazard is without a property (`PROJECT.json`): two first uses of a region at
once make two VPCs, which nothing in the repository forbids. `VpcsSettle` says how
it ends. What other oddities of the code amount to is bounded instead of
forbidden: a slow load may put an older catalog in memory in place of a newer one,
but none older than what the registry named when that load began, or the one it
joined, unless its sync failed (`ServedIsRecent`); a request without
an id has no token to be recognised by, and launches no more than one instance
each time it is asked for (`LaunchesBounded`).

## 10. Plan

Done so far, in this order: managed network with its proofs, catalog cache with
its proofs, market feed, instance lifecycle and image selection with proofs,
inventory with its proofs, launch configuration with proofs, spot data, account
routing with proofs, provider sessions with proofs, catalog queries, prices, the
whole inventory; then proofs of what a returned network is good for, of the feed
and its refinement of `MarketPublication`, of the whole inventory, of the calls
that only read, and that calls, loads, builds, rounds and the host's Launch and Stop
only go forward; how old a catalog may be when it is returned, what retries without
a request id may launch, and how two VPCs of one region come to an end.

Next, by importance:

1. `StartInstance` with an abstract network: a module that composes
   `InstanceLifecycle` with what `UsableWhenDone` and
   `UniqueSubnetPerPlacement` promise, so that a retry meets the network its
   first attempt left.
2. `ListRegions` and `ListAvailabilityZones` over several accounts.
