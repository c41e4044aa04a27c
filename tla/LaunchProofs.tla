---------------------------- MODULE LaunchProofs ----------------------------
(***************************************************************************)
(* Theorems about what a request is made of: LaunchConfig, for any numbers *)
(* and any width of integers, AmiSelection, for any parameters in any      *)
(* order, and AccountRouting, for any accounts and endpoints.  What an     *)
(* offer's scope id stands for is recorded in the id itself, so one        *)
(* invariant about the offer alone carries the theorems about accounts.    *)
(***************************************************************************)
EXTENDS LaunchConfig, AmiSelection, AccountRouting, TLAPS

-----------------------------------------------------------------------------
(* Cutting a number down leaves one of the width.                            *)
LEMMA Int32Fits ==
  ASSUME NEW n \in Int
  PROVE  Int32(n) \in Int32s
<1>1. HalfRange \in Nat /\ HalfRange > 1
  BY RangeAssumption
<1> DEFINE W == 2 * HalfRange
           m == (n + HalfRange) % W
<1>2. W \in Nat /\ W > 0 /\ n + HalfRange \in Int
  BY <1>1
<1> HIDE DEF W
<1>3. m \in 0..W - 1
  BY <1>2
<1> HIDE DEF m
<1>4. m - HalfRange \in -HalfRange..HalfRange - 1
  BY <1>1, <1>3 DEF W
<1> QED BY <1>4 DEF Int32, Int32s, m, W

(* An optional value is what its set says.                                   *)
LEMMA OptionValue ==
  ASSUME NEW S, NEW option \in Option(S), NEW zero
  PROVE  option = {} \/ \E x \in S : option = {x} /\ Value(option, zero) = x
BY DEF Option, Value, Given

(* What parsing makes of an optional number is an optional number.           *)
LEMMA CutOption ==
  ASSUME NEW S, S \subseteq Int, NEW option \in Option(S)
  PROVE  {Int32(n) : n \in option} \in Option(Int32s)
<1>1. CASE option = {}
  <2>1. {Int32(n) : n \in option} = {} BY <1>1
  <2> QED BY <2>1 DEF Option
<1>2. ASSUME NEW x \in S, option = {x} PROVE {Int32(n) : n \in option} \in Option(Int32s)
  <2>1. {Int32(n) : n \in option} = {Int32(x)} BY <1>2
  <2>2. Int32(x) \in Int32s BY Int32Fits
  <2> QED BY <2>1, <2>2 DEF Option
<1> QED BY <1>1, <1>2 DEF Option

(* What is parsed of a configuration are options.                            *)
LEMMA ParsedTypes ==
  ASSUME config \in Configs
  PROVE  [publicV4 |-> PublicV4(config), count |-> AddressCount(config),
          size |-> VolumeSize(config)] \in Options
<1>1. config.publicV4 \in Option(BOOLEAN) /\ config.count \in Option(Counts)
      /\ config.size \in Option(Sizes)
  BY DEF Configs
<1>2. PublicV4(config) \in Option(BOOLEAN)
  BY <1>1 DEF PublicV4, Option
<1>3. {Int32(n) : n \in config.count} \in Option(Int32s)
  BY <1>1, CutOption, NumberAssumption
<1>4. {0} \in Option(Int32s) /\ {1} \in Option(Int32s)
  BY RangeAssumption DEF Option, Int32s
<1>5. AddressCount(config) \in Option(Int32s)
  BY <1>3, <1>4 DEF AddressCount
<1>6. VolumeSize(config) \in Int32s \ {0}
  <2> DEFINE cut == {Int32(n) : n \in config.size}
             size == Value(cut, 0)
  <2>1. cut \in Option(Int32s)
    BY <1>1, CutOption, NumberAssumption
  <2> HIDE DEF cut
  <2>2. size = 0 \/ size \in Int32s
    BY <2>1, OptionValue DEF Value, Given
  <2>3. DefaultSize \in Int32s \ {0}
    BY DefaultAssumption, RangeAssumption DEF Int32s
  <2>4. VolumeSize(config) = IF size = 0 THEN DefaultSize ELSE size
    BY DEF VolumeSize, cut
  <2> QED BY <2>2, <2>3, <2>4
<1> QED BY <1>2, <1>5, <1>6 DEF Options

(* The managed subnet is one.                                                *)
LEMMA ManagedSubnetTypes ==
  ASSUME NEW mode
  PROVE  ManagedSubnet(mode) \in Subnets
BY DEF ManagedSubnet, Subnets, Vpcs

-----------------------------------------------------------------------------
(* Every variable keeps its type; in particular every number that reaches    *)
(* RunInstances fits 32 bits and there is always a volume size.              *)
THEOREM LaunchTypes == Spec => []TypeOK
<1>1. Init => TypeOK
  <2> SUFFICES ASSUME Init PROVE TypeOK OBVIOUS
  <2>1. NoOptions \in Options
    BY DefaultAssumption, RangeAssumption DEF NoOptions, Options, Option, Int32s
  <2>2. NoInput \in Inputs
    BY DEF NoInput, Inputs, Option
  <2> QED BY <2>1, <2>2 DEF Init, TypeOK, Steps, Option
<1>2. TypeOK /\ [Next]_vars => TypeOK'
  <2> SUFFICES ASSUME TypeOK, [Next]_vars PROVE TypeOK' OBVIOUS
  <2>1. CASE Parse
    <3>1. CASE Fail("config") /\ UNCHANGED <<options, subnet, groups>>
      BY <2>1, <3>1 DEF Parse, Fail, TypeOK, Option, Reasons
    <3>2. CASE ~(Fail("config") /\ UNCHANGED <<options, subnet, groups>>)
      <4>1. options' \in Options
        BY <2>1, <3>2, ParsedTypes DEF Parse, TypeOK
      <4>2. subnet' \in Option(Subnets) /\ groups' \in Option(Groups)
        BY <2>1, <3>2 DEF Parse, TypeOK, Configs, Option, Groups
      <4> QED BY <2>1, <3>2, <4>1, <4>2 DEF Parse, TypeOK, Goto, Steps
    <3> QED BY <3>1, <3>2
  <2>2. CASE Network
    <3>1. {ManagedSubnet(config.mode)} \in Option(Subnets)
      BY ManagedSubnetTypes DEF Option
    <3>2. {"managed"} \in Option(Groups)
      BY DEF Option, Groups
    <3> QED BY <2>2, <3>1, <3>2 DEF Network, TypeOK, Goto, Steps
  <2>3. CASE Group
    <3>1. {"default"} \in Option(Groups)
      BY DEF Option, Groups
    <3> QED BY <2>3, <3>1 DEF Group, TypeOK, Goto, Steps
  <2>4. CASE Interface
    BY <2>4 DEF Interface, TypeOK, Goto, Fail, Steps, Reasons, Option
  <2>5. CASE Validate
    BY <2>5 DEF Validate, TypeOK, Goto, Fail, Steps, Reasons, Option
  <2>6. CASE RootDevice
    BY <2>6 DEF RootDevice, TypeOK, Goto, Steps
  <2>7. CASE Build
    <3>1. options.size \in Int32s \ {0} /\ HalfRange \in Nat
      BY RangeAssumption DEF TypeOK, Options
    <3> DEFINE volume == IF options.size > 0 THEN {options.size} ELSE {}
    <3>2. volume \in Option(1..HalfRange - 1)
      <4>1. CASE options.size > 0
        <5>1. options.size \in 1..HalfRange - 1
          BY <3>1, <4>1 DEF Int32s
        <5> QED BY <4>1, <5>1 DEF Option
      <4>2. CASE ~(options.size > 0)
        BY <4>2 DEF Option
      <4> QED BY <4>1, <4>2
    <3> HIDE DEF volume
    <3>3. input' = [subnet |-> subnet, groups |-> groups, interface |-> NeedsInterface,
                    publicV4 |-> options.publicV4, count |-> options.count,
                    volume |-> volume]
      BY <2>7 DEF Build, volume
    <3>4. NeedsInterface \in BOOLEAN
      BY DEF NeedsInterface, Given
    <3>5. options.publicV4 \in Option(BOOLEAN) /\ options.count \in Option(Int32s)
      BY DEF TypeOK, Options
    <3>6. input' \in Inputs
      BY <3>2, <3>3, <3>4, <3>5 DEF TypeOK, Inputs
    <3> QED BY <2>7, <3>6 DEF Build, TypeOK, Goto, Steps
  <2>8. CASE CallFails
    BY <2>8 DEF CallFails, TypeOK, Fail, Reasons, Option
  <2>9. CASE UNCHANGED vars
    BY <2>9 DEF vars, TypeOK
  <2> QED BY <2>1, <2>2, <2>3, <2>4, <2>5, <2>6, <2>7, <2>8, <2>9 DEF Next
<1> QED BY <1>1, <1>2, PTL DEF Spec

-----------------------------------------------------------------------------
(* The inductive invariant: what each step of resolveRunInstancesConfig may  *)
(* rely on.                                                                  *)
Parsed ==
  pc \notin {"Parse", "failed"} =>
    options.publicV4 = PublicV4(config) /\ options.count = AddressCount(config)

Unresolved ==
  pc = "Network" => subnet = config.subnet /\ groups = config.groups

Placed ==
  pc \in {"Group", "Interface", "Validate", "RootDevice", "Build", "done"} =>
    IF NeedsManagedNetwork
      THEN /\ subnet = {ManagedSubnet(config.mode)}
           /\ groups = IF Given(config.groups) THEN config.groups ELSE {"managed"}
      ELSE subnet = config.subnet

Validated ==
  pc \in {"RootDevice", "Build", "done"} =>
    config.mode = "any" \/ \A s \in subnet : Fits(s, config.mode)

Built ==
  pc = "done" => /\ input.subnet = subnet /\ input.groups = groups
                 /\ input.interface = NeedsInterface
                 /\ input.publicV4 = options.publicV4
                 /\ input.count = options.count

Blameless ==
  /\ pc # "failed" => reason = {}
  /\ "subnet missing" \notin reason
  /\ "subnet unfit" \in reason => Given(config.subnet)

LInv == Parsed /\ Unresolved /\ Placed /\ Validated /\ Built /\ Blameless

(* A managed subnet fits the mode it was asked for.                          *)
LEMMA ManagedFits ==
  ASSUME NEW mode \in Modes
  PROVE  Fits(ManagedSubnet(mode), mode)
BY DEF Modes, Fits, ManagedSubnet, ManagedSubnetMode

(* Where an interface is needed there is a subnet.                           *)
LEMMA InterfaceHasSubnet ==
  ASSUME Placed, NeedsInterface,
         pc \in {"Group", "Interface", "Validate", "RootDevice", "Build", "done"}
  PROVE  Given(subnet)
BY DEF Placed, NeedsManagedNetwork, Given

(* The invariant holds of every request at every step.                       *)
LEMMA LaunchInvariant == Spec => []LInv
<1>1. Init => LInv
  BY DEF Init, LInv, Parsed, Unresolved, Placed, Validated, Built, Blameless
<1>2. TypeOK /\ LInv /\ [Next]_vars => LInv'
  <2> SUFFICES ASSUME TypeOK, LInv, [Next]_vars PROVE LInv' OBVIOUS
  <2> USE DEF LInv
  <2>0. config.mode \in Modes
    BY DEF TypeOK, Configs
  <2>1. CASE Parse
    <3>1. CASE Fail("config") /\ UNCHANGED <<options, subnet, groups>>
      BY <2>1, <3>1 DEF Parse, Fail, Parsed, Unresolved, Placed, Validated, Built, Blameless
    <3>2. CASE ~(Fail("config") /\ UNCHANGED <<options, subnet, groups>>)
      <4>1. /\ options' = [publicV4 |-> PublicV4(config),
                           count |-> AddressCount(config),
                           size |-> VolumeSize(config)]
            /\ subnet' = config.subnet /\ groups' = config.groups
            /\ pc' = "Network" /\ pc = "Parse" /\ UNCHANGED <<config, input, reason>>
        BY <2>1, <3>2 DEF Parse, At, Goto
      <4>2. Parsed'
        BY <4>1 DEF Parsed, PublicV4, AddressCount
      <4> QED BY <4>1, <4>2 DEF Unresolved, Placed, Validated, Built, Blameless
    <3> QED BY <3>1, <3>2
  <2>2. CASE Network
    <3>1. /\ pc = "Network" /\ pc' = "Group" /\ UNCHANGED <<reason, config, options, input>>
          /\ IF NeedsManagedNetwork
               THEN /\ subnet' = {ManagedSubnet(config.mode)}
                    /\ groups' = IF Given(groups) THEN groups ELSE {"managed"}
               ELSE UNCHANGED <<subnet, groups>>
      BY <2>2 DEF Network, At, Goto
    <3>2. NeedsManagedNetwork' = NeedsManagedNetwork
      BY <3>1 DEF NeedsManagedNetwork, NeedsInterface
    <3>3. ManagedSubnet(config.mode)' = ManagedSubnet(config.mode)
      BY <3>1
    <3>4. Placed'
      BY <3>1, <3>2, <3>3 DEF Placed, Unresolved, Given
    <3>5. Parsed'
      BY <3>1 DEF Parsed, PublicV4, AddressCount
    <3> QED BY <3>1, <3>4, <3>5 DEF Unresolved, Validated, Built, Blameless
  <2>3. CASE Group
    <3>1. /\ pc = "Group" /\ pc' = "Interface"
          /\ groups' = IF ~Given(groups) /\ config.useGroup THEN {"default"} ELSE groups
          /\ UNCHANGED <<reason, config, options, subnet, input>>
      BY <2>3 DEF Group, At, Goto
    <3>2. NeedsManagedNetwork' = NeedsManagedNetwork
      BY <3>1 DEF NeedsManagedNetwork, NeedsInterface
    <3>3. ManagedSubnet(config.mode)' = ManagedSubnet(config.mode)
      BY <3>1
    <3>4. Placed'
      BY <3>1, <3>2, <3>3 DEF Placed, Given
    <3>5. Parsed'
      BY <3>1 DEF Parsed, PublicV4, AddressCount
    <3> QED BY <3>1, <3>4, <3>5 DEF Unresolved, Validated, Built, Blameless
  <2>4. CASE Interface
    <3>1. pc = "Interface" /\ UNCHANGED <<config, options, subnet, groups, input>>
      BY <2>4 DEF Interface, At
    <3>2. pc' = "Validate" /\ UNCHANGED reason
      BY <2>4, <3>1, InterfaceHasSubnet DEF Interface, Goto
    <3> QED
      BY <3>1, <3>2
      DEF Parsed, Unresolved, Placed, Validated, Built, Blameless,
          NeedsManagedNetwork, NeedsInterface, PublicV4, AddressCount
  <2>5. CASE Validate
    <3>1. pc = "Validate" /\ UNCHANGED <<config, options, subnet, groups, input>>
      BY <2>5 DEF Validate, At
    <3>2. CASE config.mode = "any" \/ (\A s \in subnet : Fits(s, config.mode))
      <4>1. pc' = "RootDevice" /\ UNCHANGED reason
        BY <2>5, <3>2 DEF Validate, Goto
      <4> QED
        BY <3>1, <3>2, <4>1
        DEF Parsed, Unresolved, Placed, Validated, Built, Blameless,
            NeedsManagedNetwork, NeedsInterface, PublicV4, AddressCount
    <3>3. CASE ~(config.mode = "any" \/ (\A s \in subnet : Fits(s, config.mode)))
      <4>1. pc' = "failed" /\ reason' = {"subnet unfit"}
        BY <2>5, <3>3 DEF Validate, Fail
      <4>2. ~NeedsManagedNetwork /\ subnet = config.subnet
        BY <2>0, <3>1, <3>3, ManagedFits DEF Placed
      <4>3. Given(config.subnet)
        BY <3>3, <4>2 DEF Given
      <4> QED
        BY <3>1, <4>1, <4>3
        DEF Parsed, Unresolved, Placed, Validated, Built, Blameless, Given
    <3> QED BY <3>2, <3>3
  <2>6. CASE RootDevice
    <3>1. /\ pc = "RootDevice" /\ pc' = "Build"
          /\ UNCHANGED <<reason, config, options, subnet, groups, input>>
      BY <2>6 DEF RootDevice, At, Goto
    <3> QED
      BY <3>1
      DEF Parsed, Unresolved, Placed, Validated, Built, Blameless,
          NeedsManagedNetwork, NeedsInterface, PublicV4, AddressCount
  <2>7. CASE Build
    <3>1. /\ pc = "Build" /\ pc' = "done"
          /\ UNCHANGED <<reason, config, options, subnet, groups>>
      BY <2>7 DEF Build, At, Goto
    <3>2. Built'
      BY <2>7, <3>1 DEF Build, Built, NeedsInterface
    <3> QED
      BY <3>1, <3>2
      DEF Parsed, Unresolved, Placed, Validated, Blameless,
          NeedsManagedNetwork, NeedsInterface, PublicV4, AddressCount
  <2>8. CASE CallFails
    <3>1. /\ pc \in {"Network", "Group", "Validate", "RootDevice"} /\ pc' = "failed"
          /\ reason' = {"call"} /\ UNCHANGED <<config, options, subnet, groups, input>>
      BY <2>8 DEF CallFails, At, Fail
    <3> QED
      BY <3>1 DEF Parsed, Unresolved, Placed, Validated, Built, Blameless
  <2>9. CASE UNCHANGED vars
    BY <2>9
    DEF vars, Parsed, Unresolved, Placed, Validated, Built, Blameless,
        NeedsManagedNetwork, NeedsInterface, PublicV4, AddressCount
  <2> QED BY <2>1, <2>2, <2>3, <2>4, <2>5, <2>6, <2>7, <2>8, <2>9 DEF Next
<1> QED BY <1>1, <1>2, LaunchTypes, PTL DEF Spec

-----------------------------------------------------------------------------
(* With a network mode set, interface, subnet and addresses are those of the *)
(* mode, whatever else the request says and however large its numbers.       *)
THEOREM NetworkModeIsStrict == Spec => []ModeIsStrict
<1>1. TypeOK /\ LInv => ModeIsStrict
  <2> SUFFICES ASSUME TypeOK, LInv, pc = "done", config.mode # "any"
               PROVE  /\ input.interface /\ Given(input.subnet)
                      /\ \A s \in input.subnet :
                           CASE config.mode = "ipv4" -> ~s.native /\ input.count = {0}
                             [] config.mode = "ipv6" -> /\ s.native /\ 0 \notin input.count
                                                        /\ input.publicV4 = {FALSE}
                             [] config.mode = "ipv4+ipv6" ->
                                  ~s.native /\ s.v6 /\ 0 \notin input.count
    BY DEF ModeIsStrict, At
  <2>1. config.mode \in Modes /\ config.mode # "any" /\ config.count \in Option(Counts)
    BY DEF TypeOK, Configs
  <2>2. /\ input.count = AddressCount(config) /\ input.publicV4 = PublicV4(config)
        /\ options.count = AddressCount(config) /\ options.publicV4 = PublicV4(config)
        /\ input.subnet = subnet /\ input.interface = NeedsInterface
    BY DEF LInv, Parsed, Built
  <2>3. config.mode = "ipv4" => AddressCount(config) = {0}
    BY DEF AddressCount
  <2>4. config.mode \in {"ipv6", "ipv4+ipv6"} =>
          Given(AddressCount(config)) /\ 0 \notin AddressCount(config)
    <3> DEFINE count == {Int32(n) : n \in config.count}
    <3>1. count \in Option(Int32s)
      BY <2>1, CutOption, NumberAssumption
    <3> HIDE DEF count
    <3>2. CASE Value(count, 0) = 0
      <4>1. config.mode \in {"ipv6", "ipv4+ipv6"} => AddressCount(config) = {1}
        BY <3>2 DEF AddressCount, count
      <4> QED BY <4>1 DEF Given
    <3>3. CASE Value(count, 0) # 0
      <4>1. config.mode \in {"ipv6", "ipv4+ipv6"} => AddressCount(config) = count
        BY <3>3 DEF AddressCount, count
      <4>2. Given(count) /\ 0 \notin count
        BY <3>1, <3>3, OptionValue DEF Value, Given
      <4> QED BY <4>1, <4>2
    <3> QED BY <3>2, <3>3
  <2>5. Given(AddressCount(config))
    BY <2>1, <2>3, <2>4 DEF Modes, Given
  <2>6. NeedsInterface
    BY <2>2, <2>5 DEF NeedsInterface
  <2>7. Given(subnet)
    BY <2>6, InterfaceHasSubnet DEF LInv
  <2>8. \A s \in subnet : Fits(s, config.mode)
    BY <2>1 DEF LInv, Validated
  <2>9. config.mode = "ipv6" => PublicV4(config) = {FALSE}
    BY DEF PublicV4
  <2> QED
    BY <2>1, <2>2, <2>3, <2>4, <2>6, <2>7, <2>8, <2>9 DEF Modes, Fits
<1> QED BY <1>1, LaunchTypes, LaunchInvariant, PTL

(* No launch fails for want of a subnet, and none because the subnet the     *)
(* provider chose does not fit.                                              *)
THEOREM ChosenSubnetServes == Spec => []OwnSubnetServes
<1>1. LInv => OwnSubnetServes
  BY DEF LInv, Blameless, OwnSubnetServes
<1> QED BY <1>1, LaunchInvariant, PTL

(* The managed subnet comes with the managed group.                          *)
THEOREM ManagedGroupTogether == Spec => []ManagedTogether
<1>1. LInv => ManagedTogether
  BY DEF LInv, Placed, Built, ManagedTogether, At, Given
<1> QED BY <1>1, LaunchInvariant, PTL

-----------------------------------------------------------------------------
(* The image.                                                                *)

(* A score is a natural number: no parameter is passed over for its score.   *)
LEMMA ScoreIsNat ==
  ASSUME NEW p, NEW arch, p.id \in BOOLEAN
  PROVE  Score(p, arch) \in 0..130
BY DEF Score

(* Precedes is reflexive and transitive.                                     *)
LEMMA PrecedesReflexive ==
  ASSUME NEW p \in Parameters, NEW arch
  PROVE  Precedes(p, p, arch)
<1>1. p.id \in BOOLEAN /\ p.version \in Nat /\ p.name \in Nat
  BY ParameterAssumption
<1>2. Score(p, arch) \in Int
  BY <1>1, ScoreIsNat
<1> QED BY <1>1, <1>2 DEF Precedes

(* The order of parameters is transitive.                                    *)
LEMMA PrecedesTransitive ==
  ASSUME NEW p \in Parameters, NEW q \in Parameters, NEW s \in Parameters,
         NEW arch, Precedes(p, q, arch), Precedes(q, s, arch)
  PROVE  Precedes(p, s, arch)
<1>1. /\ p.version \in Nat /\ p.name \in Nat
      /\ q.version \in Nat /\ q.name \in Nat
      /\ s.version \in Nat /\ s.name \in Nat
  BY ParameterAssumption
<1>2. p.id \in BOOLEAN /\ q.id \in BOOLEAN /\ s.id \in BOOLEAN
  BY ParameterAssumption
<1>3. /\ Score(p, arch) \in Int
      /\ Score(q, arch) \in Int
      /\ Score(s, arch) \in Int
  BY <1>2, ScoreIsNat
<1> DEFINE sp == Score(p, arch)
           sq == Score(q, arch)
           ss == Score(s, arch)
<1>4. sp \in Int /\ sq \in Int /\ ss \in Int
  BY <1>3
<1>5. /\ sp < sq \/ (sp = sq /\ (p.version < q.version \/ (p.version = q.version /\ p.name <= q.name)))
      /\ sq < ss \/ (sq = ss /\ (q.version < s.version \/ (q.version = s.version /\ q.name <= s.name)))
  BY DEF Precedes
<1> HIDE DEF sp, sq, ss
<1>6. sp < ss \/ (sp = ss /\ (p.version < s.version \/ (p.version = s.version /\ p.name <= s.name)))
  BY <1>1, <1>4, <1>5
<1> QED BY <1>6 DEF Precedes, sp, ss

-----------------------------------------------------------------------------
(* Every variable keeps its type.                                            *)
THEOREM AmiTypes == PickSpec => []PickTypeOK
<1>1. PickInit => PickTypeOK
  <2> SUFFICES ASSUME PickInit PROVE PickTypeOK OBVIOUS
  <2>1. PICK n \in 0..MaxLength : parameters \in [1..n -> Parameters]
    BY DEF PickInit
  <2>2. parameters \in Seq(Parameters)
    BY <2>1
  <2>3. Len(parameters) \in Nat
    BY <2>2
  <2> QED BY <2>2, <2>3 DEF PickInit, PickTypeOK
<1>2. PickTypeOK /\ [PickNext]_pickVars => PickTypeOK'
  <2> SUFFICES ASSUME PickTypeOK, [PickNext]_pickVars PROVE PickTypeOK' OBVIOUS
  <2>1. CASE Visit
    <3>1. Len(parameters) \in Nat /\ index \in Nat
      BY DEF PickTypeOK
    <3>2. parameters[index] \in Parameters
      BY <2>1, <3>1 DEF Visit, PickTypeOK
    <3> DEFINE p == parameters[index]
    <3>3. p.id \in BOOLEAN /\ p.version \in Nat /\ p.name \in Nat
      BY <3>2, ParameterAssumption
    <3>4. Score(p, architecture) \in 0..130
      BY <3>3, ScoreIsNat
    <3> HIDE DEF p
    <3>5. \/ /\ bestScore' = Score(p, architecture) /\ bestVersion' = p.version
             /\ bestName' = p.name /\ best' = p
          \/ UNCHANGED <<bestScore, bestVersion, bestName, best>>
      BY <2>1 DEF Visit, p
    <3>6. /\ index' = index + 1 /\ index <= Len(parameters)
          /\ UNCHANGED <<architecture, parameters>>
      BY <2>1 DEF Visit
    <3>7. index' \in 1..Len(parameters') + 1
      BY <3>1, <3>6 DEF PickTypeOK
    <3>8. p \in Parameters BY <3>2 DEF p
    <3>9. bestScore' \in -1..130
      <4>1. bestScore' = Score(p, architecture) \/ bestScore' = bestScore
        BY <3>5
      <4>2. bestScore \in -1..130
        BY DEF PickTypeOK
      <4>3. \A n \in 0..130 : n \in -1..130
        OBVIOUS
      <4> QED BY <3>4, <4>1, <4>2, <4>3
    <3>10. bestVersion' \in Nat \cup {-1} /\ bestName' \in Nat
      BY <3>3, <3>5 DEF PickTypeOK
    <3>11. best' \in Parameters \cup {NoParameter}
      BY <3>5, <3>8 DEF PickTypeOK
    <3> QED BY <3>6, <3>7, <3>9, <3>10, <3>11 DEF PickTypeOK
  <2>2. CASE UNCHANGED pickVars
    BY <2>2 DEF PickTypeOK, pickVars
  <2> QED BY <2>1, <2>2 DEF PickNext
<1> QED BY <1>1, <1>2, PTL DEF PickSpec

(* The loop keeps the greatest of what it has visited.                       *)
THEOREM LoopKeepsBest == PickSpec => []BestSoFar
<1>1. PickInit => BestSoFar
  BY DEF PickInit, BestSoFar
<1>2. PickTypeOK /\ BestSoFar /\ [PickNext]_pickVars => BestSoFar'
  <2> SUFFICES ASSUME PickTypeOK, BestSoFar, [PickNext]_pickVars PROVE BestSoFar' OBVIOUS
  <2>1. CASE UNCHANGED pickVars
    BY <2>1 DEF BestSoFar, pickVars, Precedes, Score
  <2>2. CASE Visit
    <3> DEFINE p == parameters[index]
               N == Len(parameters)
    <3>1. N \in Nat /\ index \in 1..N
      BY <2>2 DEF Visit, PickTypeOK
    <3>2. \A i \in 1..N : parameters[i] \in Parameters
      BY DEF PickTypeOK
    <3>3. p \in Parameters BY <3>1, <3>2
    <3>4. \A q \in Parameters : /\ q.version \in Nat /\ q.name \in Nat
                                /\ Score(q, architecture) \in 0..130
      <4> TAKE q \in Parameters
      <4>1. q.version \in Nat /\ q.name \in Nat /\ q.id \in BOOLEAN
        BY ParameterAssumption
      <4> QED BY <4>1, ScoreIsNat
    <3>5. UNCHANGED <<architecture, parameters>> /\ index' = index + 1
      BY <2>2 DEF Visit
    <3>8. CASE IsBetter(p)
      <4>1. /\ bestScore' = Score(p, architecture) /\ bestVersion' = p.version
            /\ bestName' = p.name /\ best' = p
        BY <2>2, <3>8 DEF Visit
      <4>2. ASSUME NEW i \in 1..N, i < index
            PROVE  Precedes(parameters[i], p, architecture)
        <5>1. /\ bestScore = Score(best, architecture)
              /\ bestVersion = best.version /\ bestName = best.name
              /\ best \in Parameters
              /\ Precedes(parameters[i], best, architecture)
          BY <3>1, <3>2, <4>2 DEF BestSoFar
        <5>2. Precedes(best, p, architecture)
          BY <3>3, <3>4, <3>8, <5>1 DEF IsBetter, Precedes
        <5> QED BY <3>2, <3>3, <5>1, <5>2, PrecedesTransitive
      <4>3. \A i \in 1..N : i < index' => Precedes(parameters[i], p, architecture)
        BY <3>1, <3>3, <3>5, <4>2, PrecedesReflexive
      <4>4. \E i \in 1..N : i < index' /\ p = parameters[i]
        BY <3>1, <3>5
      <4>5. bestScore' = Score(best', architecture')
        BY <3>5, <4>1
      <4>6. \A i \in 1..Len(parameters') :
              i < index' => Precedes(parameters'[i], best', architecture')
        BY <3>5, <4>1, <4>3
      <4> QED BY <3>5, <4>1, <4>4, <4>5, <4>6 DEF BestSoFar
    <3>9. CASE ~IsBetter(p)
      <4>1. UNCHANGED <<bestScore, bestVersion, bestName, best>>
        BY <2>2, <3>9 DEF Visit
      <4>2. bestScore # -1
        BY <3>3, <3>4, <3>9 DEF IsBetter
      <4>3. /\ bestScore = Score(best, architecture)
            /\ bestVersion = best.version /\ bestName = best.name
            /\ \E i \in 1..N : i < index /\ best = parameters[i]
            /\ \A i \in 1..N : i < index => Precedes(parameters[i], best, architecture)
        BY <4>2 DEF BestSoFar
      <4>4. best \in Parameters
        BY <3>2, <4>3
      <4>5. Precedes(p, best, architecture)
        <5> DEFINE sp == Score(p, architecture)
                   sb == Score(best, architecture)
        <5>1. /\ p.version \in Nat /\ p.name \in Nat /\ sp \in 0..130
              /\ best.version \in Nat /\ best.name \in Nat /\ sb \in 0..130
          BY <3>3, <3>4, <4>4
        <5>2. /\ ~(sp > sb)
              /\ ~(sp = sb /\ p.version > best.version)
              /\ ~(sp = sb /\ p.version = best.version /\ p.name > best.name)
          BY <3>9, <4>3 DEF IsBetter
        <5> HIDE DEF sp, sb, p
        <5>3. \/ sp < sb
              \/ /\ sp = sb
                 /\ p.version < best.version
                    \/ (p.version = best.version /\ p.name <= best.name)
          BY <5>1, <5>2
        <5> QED BY <5>3 DEF Precedes, sp, sb
      <4>6. \A i \in 1..N : i < index' => Precedes(parameters[i], best, architecture)
        BY <3>1, <3>5, <4>3, <4>5
      <4>7. bestScore' = Score(best', architecture')
        BY <3>5, <4>1, <4>3
      <4>8. \A i \in 1..Len(parameters') :
              i < index' => Precedes(parameters'[i], best', architecture')
        BY <3>5, <4>1, <4>6
      <4>9. \E i \in 1..N : i < index' /\ best = parameters[i]
        BY <3>1, <3>5, <4>3
      <4> QED BY <3>5, <4>1, <4>3, <4>7, <4>8, <4>9 DEF BestSoFar
    <3> QED BY <3>8, <3>9
  <2> QED BY <2>1, <2>2 DEF PickNext
<1> QED BY <1>1, <1>2, AmiTypes, PTL DEF PickSpec

(* The image picked is the greatest of all in the order the code means,      *)
(* whatever the order in which SSM returned them.                            *)
THEOREM PicksGreatest == PickSpec => []PickIsGreatest
<1>1. PickTypeOK /\ BestSoFar => PickIsGreatest
  <2> SUFFICES ASSUME PickTypeOK, BestSoFar, Done, parameters # << >>
               PROVE  best \in Picked /\ \A p \in Picked : Precedes(p, best, architecture)
    BY DEF PickIsGreatest
  <2>1. Len(parameters) \in Nat /\ Len(parameters) # 0 /\ index \in Nat
    BY DEF PickTypeOK
  <2>2. index # 1 /\ \A i \in 1..Len(parameters) : i < index
    BY <2>1 DEF Done
  <2> QED BY <2>2 DEF BestSoFar, Picked
<1> QED BY <1>1, AmiTypes, LoopKeepsBest, PTL

-----------------------------------------------------------------------------
(* What is read on the provider's side is credentials again.                 *)
LEMMA ReceivedIsAccount ==
  ASSUME NEW a \in Accounts
  PROVE  Received(a) \in [name: Texts, creds: Credentials]
<1>1. a.name \in Texts /\ a.creds \in Credentials
  BY AccountAssumption
<1>2. Method(a.creds) \in {"default", "role", "static"}
  BY DEF Method
<1>3. None \in Texts
  BY NoneAssumption
<1>4. ToProtoSingle(a.creds) \in Credentials
  <2>1. CASE a.creds.chain
    BY <1>1, <1>3, <2>1 DEF ToProtoSingle, Credentials
  <2>2. CASE ~a.creds.chain
    BY <1>1, <1>3, <2>2 DEF ToProtoSingle, Credentials
  <2> QED BY <2>1, <2>2
<1>5. ToProtoAccount(a.creds) \in Credentials
  BY <1>1, <1>3, SMTT(30) DEF ToProtoAccount, Credentials
<1>6. ASSUME NEW d \in Credentials, NEW m \in {"default", "role", "static"}
      PROVE  ToDomain(m, d) \in Credentials
  <2>1. CASE m = "default"
    BY <1>3, <2>1 DEF ToDomain, Credentials
  <2>2. CASE m = "role"
    BY <1>3, <2>2 DEF ToDomain, Credentials
  <2>3. CASE m = "static"
    BY <1>3, <2>3 DEF ToDomain, Credentials
  <2> QED BY <1>6, <2>1, <2>2, <2>3
<1>7. CASE form = "single"
  BY <1>1, <1>2, <1>3, <1>4, <1>6, <1>7 DEF Received
<1>8. CASE form # "single"
  BY <1>1, <1>2, <1>3, <1>5, <1>6, <1>8 DEF Received
<1> QED BY <1>7, <1>8

(* What a scope id says of the identity: that is why the id reaches it.      *)
IdOf(scope) ==
  <<IF scope[2] THEN "default" ELSE "static",
    IF scope[2] THEN scope[3] ELSE scope[4], scope[5], scope[6]>>

(* The identity of credentials can be read off their scope.                  *)
LEMMA IdentityFromScope ==
  ASSUME NEW a
  PROVE  Identity(a.creds) = IdOf(Scope(a))
BY DEF Identity, IdOf, Scope

(* Scopes and identities have the types of AccountTypeOK.                    *)
LEMMA ScopeTypes ==
  ASSUME NEW a \in [name: Texts, creds: Credentials], endpoint \in Endpoints
  PROVE  /\ Scope(a) \in Scopes /\ Scope(a) # << >>
         /\ Identity(a.creds) \in Identities
BY DEF Scope, Scopes, Identity, Identities, Credentials

(* A scope id finds accounts of that scope, as they were received.           *)
LEMMA RouteFinds ==
  ASSUME NEW scope, accounts \subseteq Accounts, NEW a \in Route(scope)
  PROVE  /\ a \in [name: Texts, creds: Credentials]
         /\ scope # << >> => Scope(a) = scope
BY ReceivedIsAccount DEF Route

-----------------------------------------------------------------------------
(* Every variable keeps its type, whatever accounts are configured and       *)
(* received.                                                                 *)
THEOREM AccountTypes == AccountSpec => []AccountTypeOK
<1>1. AccountInit => AccountTypeOK
  BY DEF AccountInit, AccountTypeOK
<1>2. AccountTypeOK /\ [AccountNext]_accountVars => AccountTypeOK'
  <2> SUFFICES ASSUME AccountTypeOK, [AccountNext]_accountVars PROVE AccountTypeOK'
    OBVIOUS
  <2> USE DEF AccountTypeOK
  <2>1. ASSUME NEW S \in SUBSET Accounts, Configure(S), endpoint' \in Endpoints
        PROVE  AccountTypeOK'
    BY <2>1 DEF Configure
  <2>2. CASE AddAccount
    BY <2>1, <2>2 DEF AddAccount
  <2>3. CASE DropAccount
    BY <2>1, <2>3 DEF DropAccount
  <2>4. CASE ChangeAccount
    BY <2>1, <2>4 DEF ChangeAccount
  <2>5. CASE ChangeEndpoint
    BY <2>1, <2>5 DEF ChangeEndpoint
  <2>6. CASE ValidateConnection
    BY <2>6 DEF ValidateConnection
  <2>7. CASE Offer
    <3>1. PICK a \in accounts :
            offer' = [scope |-> Scope(Received(a)), issuer |-> Identity(Received(a).creds),
                      account |-> a, form |-> form, endpoint |-> endpoint]
      BY <2>7 DEF Offer
    <3>2. /\ Scope(Received(a)) \in Scopes
          /\ Identity(Received(a).creds) \in Identities
      BY ReceivedIsAccount, ScopeTypes
    <3>3. offer' \in Offers
      BY <3>1, <3>2 DEF Offers
    <3> QED BY <2>7, <3>3 DEF Offer
  <2>8. ASSUME NEW scope, Call(scope) PROVE AccountTypeOK'
    <3>1. \A a \in Route(scope) : Identity(a.creds) \in Identities
      BY RouteFinds, ScopeTypes
    <3> QED BY <2>8, <3>1 DEF Call
  <2>9. CASE UNCHANGED accountVars
    BY <2>9 DEF accountVars
  <2> QED BY <2>2, <2>3, <2>4, <2>5, <2>6, <2>7, <2>8, <2>9
          DEF AccountNext, CallOffered, CallUnscoped
<1> QED BY <1>1, <1>2, PTL DEF AccountSpec

-----------------------------------------------------------------------------
(* An account as the provider would receive it, and its scope id, under a    *)
(* form and an endpoint that need not be those of now.                       *)
ReceivedAs(f, a) ==
  IF f = "single"
    THEN [name |-> None, creds |-> ToDomain(Method(a.creds), ToProtoSingle(a.creds))]
    ELSE [name |-> a.name, creds |-> ToDomain(Method(a.creds), ToProtoAccount(a.creds))]
ScopeAs(f, e, a) ==
  LET r == ReceivedAs(f, a) IN
    <<r.name, r.creds.chain, r.creds.profile, r.creds.key, r.creds.role, r.creds.ext, e>>

(* Received and Scope are these functions of the current form and endpoint.  *)
LEMMA ReceivedNow ==
  ASSUME NEW a
  PROVE  /\ Received(a) = ReceivedAs(form, a)
         /\ Scope(Received(a)) = ScopeAs(form, endpoint, a)
BY DEF Received, ReceivedAs, Scope, ScopeAs

(* What the offer remembers is what was true of its account when it came.    *)
OfferStands ==
  offer # NoOffer =>
    /\ offer.account \in Accounts
    /\ offer.scope = ScopeAs(offer.form, offer.endpoint, offer.account)
    /\ offer.issuer = Identity(ReceivedAs(offer.form, offer.account).creds)
    /\ offer.issuer = IdOf(offer.scope)

(* The invariant holds from the first offer on.                              *)
LEMMA OfferAlwaysStands == AccountSpec => []OfferStands
<1>1. AccountInit => OfferStands
  BY DEF AccountInit, OfferStands
<1>2. AccountTypeOK /\ OfferStands /\ [AccountNext]_accountVars => OfferStands'
  <2> SUFFICES ASSUME AccountTypeOK, OfferStands, [AccountNext]_accountVars
               PROVE  OfferStands'
    OBVIOUS
  <2>1. CASE Offer
    <3>1. PICK a \in accounts :
            offer' = [scope |-> Scope(Received(a)), issuer |-> Identity(Received(a).creds),
                      account |-> a, form |-> form, endpoint |-> endpoint]
      BY <2>1 DEF Offer
    <3>2. a \in Accounts
      BY DEF AccountTypeOK
    <3>3. /\ offer'.scope = ScopeAs(form, endpoint, a)
          /\ offer'.issuer = Identity(ReceivedAs(form, a).creds)
          /\ offer'.issuer = IdOf(offer'.scope)
      BY <3>1, ReceivedNow, IdentityFromScope
    <3> QED BY <3>1, <3>2, <3>3 DEF OfferStands
  <2>2. CASE UNCHANGED offer
    BY <2>2 DEF OfferStands
  <2> QED BY <2>1, <2>2 DEF AccountNext, AddAccount, DropAccount, ChangeAccount,
             ChangeEndpoint, Configure, ValidateConnection, CallOffered,
             CallUnscoped, Call, accountVars
<1> QED BY <1>1, <1>2, AccountTypes, PTL DEF AccountSpec

(* A call with the scope id of an offering acts as the identity that saw it  *)
(* (routeAWSAccount, resolveInternalScopeID), for any accounts.              *)
THEOREM ScopeReachesIssuer == AccountSpec => []ReachesIssuer
<1>1. AccountInit => ReachesIssuer
  BY DEF AccountInit, ReachesIssuer
<1>2. AccountTypeOK /\ OfferStands /\ ReachesIssuer /\ [AccountNext]_accountVars
      => ReachesIssuer'
  <2> SUFFICES ASSUME AccountTypeOK, OfferStands, ReachesIssuer,
                      [AccountNext]_accountVars
               PROVE  ReachesIssuer'
    OBVIOUS
  <2>1. CASE CallOffered
    <3>1. CASE call' = Refused
      BY <3>1 DEF ReachesIssuer, Refused
    <3>2. CASE call' # Refused
      <4>1. PICK a \in Route(offer.scope) :
              call' = [scope |-> offer.scope, as |-> Identity(a.creds)]
        BY <2>1, <3>2 DEF CallOffered, Call
      <4>2. offer.scope # << >> => call'.as = offer.issuer
        BY <2>1, <4>1, RouteFinds, IdentityFromScope
           DEF CallOffered, OfferStands, AccountTypeOK
      <4> QED BY <2>1, <4>1, <4>2 DEF ReachesIssuer, CallOffered, Call
    <3> QED BY <3>1, <3>2
  <2>2. CASE CallUnscoped
    BY <2>2 DEF CallUnscoped, Call, ReachesIssuer, Refused
  <2>3. CASE call' = NoCall
    BY <2>3 DEF ReachesIssuer
  <2>4. CASE UNCHANGED <<offer, call>>
    BY <2>4 DEF ReachesIssuer
  <2> QED BY <2>1, <2>2, <2>3, <2>4 DEF AccountNext, AddAccount, DropAccount,
             ChangeAccount, ChangeEndpoint, Configure, ValidateConnection, Offer,
             accountVars
<1> QED BY <1>1, <1>2, AccountTypes, OfferAlwaysStands, PTL DEF AccountSpec

-----------------------------------------------------------------------------
(* The session token is nowhere in a scope id.                               *)
LEMMA TokenNotInScope ==
  ASSUME NEW a \in Accounts, NEW b \in Accounts, NEW f, NEW e,
         [a.creds EXCEPT !.token = None] = [b.creds EXCEPT !.token = None],
         f = "single" \/ a.name = b.name
  PROVE  ScopeAs(f, e, a) = ScopeAs(f, e, b)
<1>1. a.creds \in Credentials /\ b.creds \in Credentials
  BY AccountAssumption
<1>2. /\ a.creds.chain = b.creds.chain /\ a.creds.profile = b.creds.profile
      /\ a.creds.key = b.creds.key /\ a.creds.role = b.creds.role
      /\ a.creds.ext = b.creds.ext
  BY <1>1 DEF Credentials
<1>3. Method(a.creds) = Method(b.creds)
  BY <1>2 DEF Method
<1>4. Method(a.creds) \in {"default", "role", "static"}
  BY DEF Method
<1>5. CASE f = "single"
  BY <1>1, <1>2, <1>3, <1>4, <1>5
     DEF ScopeAs, ReceivedAs, ToDomain, ToProtoSingle, Credentials
<1>6. CASE f # "single"
  BY <1>1, <1>2, <1>3, <1>4, <1>6
     DEF ScopeAs, ReceivedAs, ToDomain, ToProtoAccount, Credentials
<1> QED BY <1>5, <1>6

(* The scope id of an offering is known for as long as its account is        *)
(* configured, for any accounts (resolveInternalScopeID).                    *)
THEOREM ScopeIsKept == AccountSpec => []ScopeStaysKnown
<1>1. AccountTypeOK /\ OfferStands => ScopeStaysKnown
  <2> SUFFICES ASSUME AccountTypeOK, OfferStands, offer # NoOffer,
                      form = offer.form, endpoint = offer.endpoint,
                      NEW a \in accounts, SameAccount(a, offer.account)
               PROVE  Route(offer.scope) # {}
    BY DEF ScopeStaysKnown
  <2>1. a \in Accounts /\ offer.account \in Accounts
    BY DEF AccountTypeOK, OfferStands
  <2>2. Scope(Received(a)) = offer.scope
    BY <2>1, TokenNotInScope, ReceivedNow DEF OfferStands, SameAccount
  <2>3. Received(a) \in Route(offer.scope)
    BY <2>1, <2>2, ReceivedIsAccount, ScopeTypes DEF Route, AccountTypeOK
  <2> QED BY <2>3
<1> QED BY <1>1, AccountTypes, OfferAlwaysStands, PTL

-----------------------------------------------------------------------------
(* What is sent for an account with keys, or for one alone, is read back     *)
(* (toProtoCredentials, toDomainCredentials).                                *)
LEMMA IdentityTravels ==
  ASSUME NEW a \in Accounts, NEW f, Usable(a.creds), f = "single" \/ ~a.creds.chain
  PROVE  Identity(ReceivedAs(f, a).creds) = Identity(a.creds)
<1>1. a.creds \in Credentials
  BY AccountAssumption
<1>2. CASE f = "single"
  BY <1>1, <1>2
     DEF Identity, ReceivedAs, ToDomain, ToProtoSingle, Method, Usable, Credentials
<1>3. CASE f # "single"
  BY <1>1, <1>3
     DEF Identity, ReceivedAs, ToDomain, ToProtoAccount, Method, Usable, Credentials
<1> QED BY <1>2, <1>3

(* The provider acts as what the host's account names, for any account with  *)
(* keys and for any account alone.                                           *)
THEOREM KeyedIdentityTravels == AccountSpec => []KeyedIdentityArrives
<1>1. OfferStands => KeyedIdentityArrives
  BY IdentityTravels DEF OfferStands, KeyedIdentityArrives
<1> QED BY <1>1, OfferAlwaysStands, PTL

(* Accounts that ValidateConnection accepted are all usable, for as long as  *)
(* they stay as they are.                                                    *)
THEOREM AcceptedAreUsable == AccountSpec => []AcceptedIsUsable
<1>1. AccountInit => AcceptedIsUsable
  BY DEF AccountInit, AcceptedIsUsable
<1>2. AcceptedIsUsable /\ [AccountNext]_accountVars => AcceptedIsUsable'
  <2> SUFFICES ASSUME AcceptedIsUsable, [AccountNext]_accountVars
               PROVE  AcceptedIsUsable'
    OBVIOUS
  <2>1. CASE ValidateConnection
    BY <2>1 DEF ValidateConnection, AcceptedIsUsable, Received
  <2>2. CASE validated' = "unknown"
    BY <2>2 DEF AcceptedIsUsable
  <2>3. CASE UNCHANGED <<accounts, form, validated>>
    BY <2>3 DEF AcceptedIsUsable, Received
  <2> QED BY <2>1, <2>2, <2>3 DEF AccountNext, AddAccount, DropAccount,
             ChangeAccount, ChangeEndpoint, Configure, Offer, CallOffered,
             CallUnscoped, Call, accountVars
<1> QED BY <1>1, <1>2, PTL DEF AccountSpec

=============================================================================
