---------------------------- MODULE LaunchConfig ----------------------------
(***************************************************************************)
(* From provider_config to RunInstances: what StartInstance makes of the   *)
(* network, address and volume options of a request                        *)
(* (parseStartInstanceProviderConfig in src/internal/aws/provider_config.go, *)
(* resolveRunInstancesConfig in instance_launch_config.go and              *)
(* buildRunInstancesInput in instance_runner.go).  ensureManagedNetwork is *)
(* one step here; the module ManagedNetwork has its inside.                *)
(*                                                                         *)
(* An option that may be missing is a set: empty, or of its one value.     *)
(* The options come as they read: one that does not read ends the request  *)
(* before anything here begins.                                            *)
(***************************************************************************)
EXTENDS Integers

CONSTANTS
  Counts,          \* values given for ipv6_address_count
  Sizes,           \* values given for root_volume_size_gib
  HalfRange,       \* 2^31 for an int32
  DefaultSize      \* defaultRootVolumeSizeGiB

ASSUME NumberAssumption == Counts \subseteq Int /\ Sizes \subseteq Int
ASSUME RangeAssumption == HalfRange \in Nat /\ HalfRange > 1
ASSUME DefaultAssumption == DefaultSize \in 1..HalfRange - 1

Option(S) == {{}} \cup {{x} : x \in S}
Given(option) == option # {}
(* What Go's zero value makes of a missing option.                           *)
Value(option, zero) == IF Given(option) THEN CHOOSE x \in option : TRUE ELSE zero

Modes == {"any", "ipv4", "ipv6", "ipv4+ipv6"}
Vpcs == {"arco", "default", "other"}
(* A subnet, by what the code asks of it: an IPv6-native one has a block.    *)
Subnets == {s \in [vpc: Vpcs, native: BOOLEAN, v6: BOOLEAN] : s.native => s.v6}
Groups == {"own", "managed", "default"}

Configs == [mode: Modes, subnet: Option(Subnets), groups: Option({"own"}),
            useVpc: BOOLEAN, useSubnet: BOOLEAN, useGroup: BOOLEAN,
            publicV4: Option(BOOLEAN), assignV6: Option(BOOLEAN),
            count: Option(Counts), size: Option(Sizes)]

VARIABLES
  config,    \* provider_config, its strings read
  pc,
  options,   \* startInstanceLaunchOptions
  subnet, groups,   \* resolvedRunInstancesConfig
  reason,    \* why the launch failed
  input      \* the RunInstances input
vars == <<config, pc, options, subnet, groups, reason, input>>

Int32s == -HalfRange..HalfRange - 1
Options == [publicV4: Option(BOOLEAN), count: Option(Int32s), size: Int32s \ {0}]
Inputs == [subnet: Option(Subnets), groups: Option(Groups), interface: BOOLEAN,
           publicV4: Option(BOOLEAN), count: Option(Int32s),
           volume: Option(1..HalfRange - 1)]
Steps == {"Parse", "Network", "Group", "Interface", "Validate", "RootDevice", "Build"}
Reasons == {"config", "call", "subnet missing", "subnet unfit"}

NoOptions == [publicV4 |-> {}, count |-> {}, size |-> DefaultSize]
NoInput == [subnet |-> {}, groups |-> {}, interface |-> FALSE, publicV4 |-> {},
            count |-> {}, volume |-> {}]

(* Every variable has its type; the numbers fit the code's int32, and there  *)
(* is always a volume size.                                                  *)
TypeOK ==
  /\ config \in Configs
  /\ pc \in Steps \cup {"done", "failed"}
  /\ options \in Options
  /\ subnet \in Option(Subnets) /\ groups \in Option(Groups)
  /\ reason \in Option(Reasons)
  /\ input \in Inputs

-----------------------------------------------------------------------------
(* parsePositiveInt32ProviderConfig, parseNonNegativeInt32ProviderConfig:    *)
(* the sign is checked first and then the number is cut down to 32 bits.     *)
Int32(n) == ((n + HalfRange) % (2 * HalfRange)) - HalfRange

(* The public IPv4 wish after network_mode has had its say.                  *)
PublicV4(c) ==
  CASE c.mode = "ipv6" -> {FALSE}
    [] c.mode \in {"ipv4", "ipv4+ipv6"} /\ ~Given(c.publicV4) -> {TRUE}
    [] OTHER -> c.publicV4

(* A variant of AddressCount in which a count of zero goes before the mode.  *)
AddressCountAsGiven(c) ==
  LET count == {Int32(n) : n \in c.count} IN
    CASE c.mode = "ipv4" -> {0}
      [] c.mode \in {"ipv6", "ipv4+ipv6"} -> IF Given(count) THEN count ELSE {1}
      [] OTHER -> count

(* The number of IPv6 addresses to ask for.                                  *)
AddressCount(c) ==
  LET count == {Int32(n) : n \in c.count}
      wanted == c.mode \in {"ipv6", "ipv4+ipv6"} \/ TRUE \in c.assignV6 IN
    CASE c.mode = "ipv4" -> {0}
      [] c.mode # "ipv4" /\ wanted /\ Value(count, 0) = 0 -> {1}
      [] OTHER -> count

VolumeSize(c) ==
  LET size == Value({Int32(n) : n \in c.size}, 0) IN
    IF size = 0 THEN DefaultSize ELSE size

NeedsInterface == Given(options.publicV4) \/ Given(options.count)

(* A variant of NeedsManagedNetwork that forgets the network interface.      *)
NeedsManagedForGroup ==
  /\ ~Given(config.subnet)
  /\ config.useVpc \/ config.useSubnet \/ ~Given(config.groups)

NeedsManagedNetwork ==
  /\ ~Given(config.subnet)
  /\ \/ config.useVpc \/ config.useSubnet
     \/ NeedsInterface
     \/ ~Given(config.groups)

(* A variant of ManagedSubnetMode that asks for a dual-stack subnet always.  *)
ManagedSubnetModeDual(mode) == "dualstack"

(* managedSubnetModeForNetworkMode.                                          *)
ManagedSubnetMode(mode) == IF mode = "ipv6" THEN "ipv6-native" ELSE "dualstack"

(* The subnet ensureManagedNetwork returns for it, its IPv6 block in place.  *)
ManagedSubnet(mode) ==
  [vpc |-> "arco", native |-> ManagedSubnetMode(mode) = "ipv6-native", v6 |-> TRUE]

(* validateSubnetForNetworkMode, subnetSupportsIPv6.                         *)
Fits(s, mode) ==
  CASE mode = "ipv4" -> ~s.native
    [] mode = "ipv6" -> s.native
    [] mode = "ipv4+ipv6" -> ~s.native /\ s.v6
    [] OTHER -> TRUE

-----------------------------------------------------------------------------
At(step) == pc = step
Goto(step) == pc' = step /\ UNCHANGED reason
Fail(why) == pc' = "failed" /\ reason' = {why}

(* parseStartInstanceProviderConfig.                                         *)
Parse ==
  /\ At("Parse")
  /\ IF (\E n \in config.count : n < 0) \/ (\E n \in config.size : n <= 0)
       THEN Fail("config") /\ UNCHANGED <<options, subnet, groups>>
       ELSE /\ options' = [publicV4 |-> PublicV4(config),
                           count |-> AddressCount(config),
                           size |-> VolumeSize(config)]
            /\ subnet' = config.subnet /\ groups' = config.groups
            /\ Goto("Network")
  /\ UNCHANGED <<config, input>>

(* A variant of Network that leaves the group to the next step if it can.    *)
NetworkSubnetFirst ==
  /\ At("Network") /\ Goto("Group")
  /\ IF NeedsManagedNetwork
       THEN /\ subnet' = {ManagedSubnet(config.mode)}
            /\ groups' = IF Given(groups) \/ config.useGroup THEN groups
                         ELSE {"managed"}
       ELSE UNCHANGED <<subnet, groups>>
  /\ UNCHANGED <<config, options, input>>

(* resolveRunInstancesConfig: the managed network gives what is missing.     *)
Network ==
  /\ At("Network") /\ Goto("Group")
  /\ IF NeedsManagedNetwork
       THEN /\ subnet' = {ManagedSubnet(config.mode)}
            /\ groups' = IF Given(groups) THEN groups ELSE {"managed"}
       ELSE UNCHANGED <<subnet, groups>>
  /\ UNCHANGED <<config, options, input>>

(* resolveDefaultVPCID, resolveDefaultSecurityGroupID.                       *)
Group ==
  /\ At("Group") /\ Goto("Interface")
  /\ groups' = IF ~Given(groups) /\ config.useGroup THEN {"default"} ELSE groups
  /\ UNCHANGED <<config, options, subnet, input>>

(* Whether a network interface is to carry the addresses.                    *)
Interface ==
  /\ At("Interface")
  /\ IF NeedsInterface /\ ~Given(subnet) THEN Fail("subnet missing") ELSE Goto("Validate")
  /\ UNCHANGED <<config, options, subnet, groups, input>>

(* describeSubnetByID, validateSubnetForNetworkMode.                         *)
Validate ==
  /\ At("Validate")
  /\ IF config.mode = "any" \/ (\A s \in subnet : Fits(s, config.mode))
       THEN Goto("RootDevice")
       ELSE Fail("subnet unfit")
  /\ UNCHANGED <<config, options, subnet, groups, input>>

(* resolveRootDeviceName.                                                    *)
RootDevice ==
  /\ At("RootDevice") /\ Goto("Build")
  /\ UNCHANGED <<config, options, subnet, groups, input>>

(* buildRunInstancesInput.                                                   *)
Build ==
  /\ At("Build") /\ Goto("done")
  /\ input' = [subnet |-> subnet, groups |-> groups, interface |-> NeedsInterface,
               publicV4 |-> options.publicV4, count |-> options.count,
               volume |-> IF options.size > 0 THEN {options.size} ELSE {}]
  /\ UNCHANGED <<config, options, subnet, groups>>

(* An EC2 call on the way fails.                                             *)
CallFails ==
  /\ \/ At("Network") /\ NeedsManagedNetwork
     \/ At("Group") /\ ~Given(groups) /\ config.useGroup
     \/ At("Validate") /\ config.mode # "any" /\ Given(subnet)
     \/ At("RootDevice") /\ options.size > 0
  /\ Fail("call")
  /\ UNCHANGED <<config, options, subnet, groups, input>>

-----------------------------------------------------------------------------
Init ==
  /\ config \in Configs
  /\ pc = "Parse"
  /\ options = NoOptions /\ subnet = {} /\ groups = {}
  /\ reason = {} /\ input = NoInput

Next ==
  \/ Parse \/ Network \/ Group \/ Interface \/ Validate \/ RootDevice \/ Build
  \/ CallFails

Spec == Init /\ [][Next]_vars

-----------------------------------------------------------------------------
(* An instance launched in a network mode has the addresses of that mode and *)
(* a subnet that can give them: ipv4 none of IPv6, ipv6 nothing but IPv6,    *)
(* ipv4+ipv6 both, whatever the other options say                            *)
(* (parseStartInstanceLaunchProviderConfig, validateSubnetForNetworkMode).   *)
ModeIsStrict ==
  At("done") /\ config.mode # "any" =>
    /\ input.interface /\ Given(input.subnet)
    /\ \A s \in input.subnet :
         CASE config.mode = "ipv4" -> ~s.native /\ input.count = {0}
           [] config.mode = "ipv6" -> /\ s.native /\ 0 \notin input.count
                                      /\ input.publicV4 = {FALSE}
           [] config.mode = "ipv4+ipv6" -> ~s.native /\ s.v6 /\ 0 \notin input.count

(* A launch never fails for want of a subnet, whatever the options ask for:  *)
(* where they need one and the caller names none, the managed network has    *)
(* been asked; and the subnet the provider chose itself always fits the mode *)
(* (StartInstance, managedSubnetModeForNetworkMode,                          *)
(* validateSubnetForNetworkMode).                                            *)
OwnSubnetServes ==
  /\ "subnet missing" \notin reason
  /\ "subnet unfit" \in reason => Given(config.subnet)

(* What the managed network gives belongs together: an instance in its       *)
(* subnet has its outbound-only group, unless the caller names others.       *)
ManagedTogether ==
  At("done") /\ ~Given(config.subnet) /\ Given(input.subnet) =>
    input.groups = IF Given(config.groups) THEN config.groups ELSE {"managed"}

(* src/internal/aws/provider_config.go, of ipv6_address_count: it must be    *)
(* zero or greater, so RunInstances is never asked for fewer.                *)
CountNotNegative == \A n \in input.count : n >= 0
=============================================================================
