------------------------------ MODULE Sections ------------------------------
(***************************************************************************)
(* One block of settings of one interface, or the routes, the rules, the   *)
(* DNS configuration or the Open vSwitch database of the host, from the    *)
(* desired state to the kernel and back: a desired state is completed and  *)
(* checked (MergedInterface, MergedRoutes and their like), turned into a   *)
(* NetworkManager setting on top of the one the profile has                *)
(* (iface_to_nm_connections), stored, activated, read back (nispor and     *)
(* nm_retrieve) and compared (verify).                                     *)
(*                                                                         *)
(* Three applies follow each other: one that creates the interface, one    *)
(* that says some of its fields, in full or as the difference that         *)
(* gen_diff() makes of it, and one of the state that is shown after it or  *)
(* of the state that generate_revert() makes of the second.  Between them, *)
(* and between the steps of the second one, another program may write a    *)
(* key nmstate does not know into the profile.                             *)
(***************************************************************************)
EXTENDS VirtualKinds, SriovSection, BridgeSection, IpSection, RouteSection, DnsSection,
        OvsSection

CONSTANTS
  Kinds,     \* the kinds of sections of this instance
  Starts,    \* the configurations an interface of each kind is created with
  Adopted,   \* the sections other programs have stored in profiles
  Spoken,    \* the optional fields the second desired state may say
  MaxSaid    \* bound on the optional fields the second desired state says, for each kind

VARIABLES
  kind,
  variant,   \* which of two ways of the system: see Variants
  round,     \* the number of applies begun
  stage,     \* how far the apply is
  way,       \* how its desired state was made
  asked,     \* what the user asked for in the second apply
  desired,   \* the desired configuration of this apply
  profile,   \* the section of the profile, as NetworkManager returns it
  read,      \* the section as nm_apply() got it, until it stores the new one
  kernel,    \* the attributes of the link; Unset when there is none
  before,    \* kernel when the apply began
  prior,     \* kernel when the second apply began
  lost,      \* the attribute the system did not change
  outcome

vars == <<kind, variant, round, stage, way, asked, desired, profile, read, kernel, before, prior, lost,
          outcome>>

-----------------------------------------------------------------------------
(* The tables of the kinds. *)

ConfigOf == [vlan |-> VlanConfig, vxlan |-> VxlanConfig, vrf |-> VrfConfig,
             macvlan |-> MacVlanConfig, macvtap |-> MacVtapConfig, macsec |-> MacSecConfig,
             hsr |-> HsrConfig, ipvlan |-> IpVlanConfig, infiniband |-> InfiniBandConfig,
             veth |-> VethConfig, connection |-> ConnConfig, user |-> UserConfig,
             wired |-> WiredConfig, ethtool |-> EthtoolConfig, ieee8021x |-> Ieee8021XConfig,
             dispatch |-> DispatchConfig, dashed |-> DispatchConfig, sriov |-> SriovConfig,
             bond |-> BondConfig, bridge |-> BridgeConfig, ipv4 |-> Ipv4Config,
             ipv6 |-> Ipv6Config, stack |-> StackConfig, routes |-> RoutesConfig, rules |-> RulesConfig,
             dns |-> DnsConfig, ovsdb |-> OvsDbConfig, ovsbridge |-> OvsBridgeConfig]

RequiredOf ==
  [vlan |-> VlanRequired, vxlan |-> VxlanRequired, macvlan |-> MacVlanRequired,
   macvtap |-> MacVlanRequired, macsec |-> MacSecRequired, hsr |-> HsrRequired,
   infiniband |-> InfiniBandRequired, veth |-> {"peer"}]
    @@ [k \in DOMAIN ConfigOf |-> {}]

KeysOf == [vlan |-> VlanKeys, vxlan |-> VxlanKeys, vrf |-> VrfKeys, macvlan |-> MacVlanKeys,
           macvtap |-> MacVlanKeys, macsec |-> MacSecKeys, hsr |-> HsrKeys,
           ipvlan |-> IpVlanKeys, infiniband |-> IbKeys, veth |-> VethKeys,
           connection |-> ConnKeys, user |-> UserKeys, wired |-> WiredKeys,
           ethtool |-> EthtoolKeys, ieee8021x |-> Ieee8021XKeys, sriov |-> SriovKeys,
           bond |-> BondKeys, bridge |-> BridgeKeys, ipv4 |-> IpKeys, ipv6 |-> IpKeys, stack |-> StackKeys,
           routes |-> RouteIfaces, rules |-> RouteIfaces, dns |-> {"global"} \cup DnsIfaces, ovsdb |-> {"row"},
           ovsbridge |-> OvsBridgeKeys,
           dispatch |-> {DispatchFile(<<"eth1">>, f) : f \in DOMAIN DispatchConfig},
           dashed |-> {DispatchFile(<<"br", "int">>, f) : f \in DOMAIN DispatchConfig}]

IpKinds == {"ipv4", "ipv6"}
RoutingKinds == {"routes", "rules"}
HostKinds == RoutingKinds \cup {"dns", "ovsdb"}

(* The host has a configuration before the first apply. *)
ASSUME HostIsThere ==
  /\ Starts["ovsdb"] = {} /\ \A dict \in Adopted["ovsdb"] : IsRow(dict)
  /\ \A k \in RoutingKinds : Starts[k] = {} /\ \A dict \in Adopted[k] : IsHost(dict)

(* The names of the interfaces that have the scripts, split at the dashes. *)
NameOf == [dispatch |-> <<"eth1">>, dashed |-> <<"br", "int">>]

(* post_inter_ifaces_process(): the configuration to apply, then sanitize(true). *)
SanitizedAs(k, c, isDesired) ==
  CASE k = "vlan" -> VlanSanitize(c, isDesired)
    [] k = "macvlan" -> MacVlanSanitize(c, isDesired)
    [] k = "macvtap" -> MacVtapSanitize(c, isDesired)
    [] k = "macsec" -> MacSecSanitize(c, isDesired)
    [] k = "ipvlan" -> IpVlanSanitize(c, isDesired)
    [] k = "bridge" -> BridgeSanitize(c, isDesired)
    [] k = "ovsbridge" -> OvsBridgeSanitize(c, isDesired)
    [] k = "ipv4" -> Ipv4Sanitize(c, isDesired)
    [] k = "ipv6" -> Ipv6Sanitize(c, isDesired)
    [] OTHER -> c

Completed(k, c, cur) ==
  CASE k = "vlan" -> VlanApplied(c, cur)
    [] k = "vrf" -> VrfApplied(c, cur)
    [] k = "connection" -> ConnApplied(c, cur)
    [] k = "wired" -> WiredSanitize(c)
    [] k = "ethtool" -> EthtoolApplied(c)
    [] k = "sriov" -> SriovApplied(c, cur)
    [] k = "bond" -> BondApplied(c, cur)
    [] k \in IpKinds -> IpMerged(c, cur)
    [] k = "stack" -> StackApplied(c, cur)
    [] k \in RoutingKinds -> RoutingApplied(c, cur)
    [] k = "dns" -> DnsApplied(c, cur)
    [] k = "ovsdb" -> OvsDbApplied(c, cur)
    [] k = "ovsbridge" -> OvsApplied(c, cur)
    [] OTHER -> c

ForApply(k, c, cur) ==
  LET Sanitized(completed) == IF completed = Rejected THEN Rejected ELSE SanitizedAs(k, completed, TRUE)
  IN  Sanitized(Completed(k, c, cur))

ForVerify(k, c, cur) ==
  CASE k = "vlan" -> VlanVerified(c, cur)
    [] k = "vrf" -> VrfApplied(c, cur)
    [] k = "hsr" -> HsrVerified(c)
    [] k = "connection" -> ConnVerified(c)
    [] k = "wired" -> WiredSanitize(c)
    [] k = "ethtool" -> EthtoolApplied(c)
    [] k = "sriov" -> SriovVerified(c, cur)
    [] k = "bond" -> BondVerified(c)
    [] k = "bridge" -> BridgeVerified(c)
    [] k = "ovsbridge" -> OvsVerified(c, cur)
    [] k \in IpKinds -> IpVerified(k = "ipv6", c, cur)
    [] k = "stack" -> StackVerified(c, cur)
    [] OTHER -> c

(* iface_to_nm_connections() for the section; `set` is what the profile has,  *)
(* `merged` are the routes of the merged state.                               *)
SettingOf(k, c, set, cur, merged) ==
  CASE k = "vlan" -> VlanSetting(c, set)
    [] k = "vxlan" -> VxlanSetting(c, set)
    [] k = "vrf" -> VrfSetting(c, set)
    [] k = "macvlan" -> MacVlanSetting(c, set)
    [] k = "macvtap" -> MacVtapSetting(c, set)
    [] k = "macsec" -> MacSecSetting(c, set)
    [] k = "hsr" -> HsrSetting(c, set)
    [] k = "ipvlan" -> IpVlanSetting(c, set)
    [] k = "infiniband" -> IbSetting(c, set)
    [] k = "veth" -> VethSetting(c, set)
    [] k = "connection" -> ConnSetting(c, set)
    [] k = "user" -> UserSetting(c, set)
    [] k = "wired" -> WiredSetting(c, set)
    [] k = "ethtool" -> EthtoolSetting(c, set)
    [] k = "ieee8021x" -> Ieee8021XSetting(c, set)
    [] k = "sriov" -> SriovSetting(c, set)
    [] k = "bond" -> BondSetting(c, set, cur)
    [] k = "bridge" -> BridgeSetting(c, set, cur)
    [] k = "ovsbridge" -> OvsBridgeSetting(c, set, cur)
    [] k = "ipv4" -> Ipv4Setting(c, set)
    [] k = "ipv6" -> Ipv6Setting(c, set)
    [] k = "stack" -> StackSetting(c, set)
    [] k \in RoutingKinds -> RoutingSetting(c, set, cur, merged, variant)
    [] k = "dns" -> DnsSetting(c, set, cur, variant)
    [] k = "ovsdb" -> OvsDbSetting(c, set, cur)
    [] k \in DOMAIN NameOf -> WithKnown(set, DispatchFiles(NameOf[k], c, set.known))

ToValue(k, set) ==
  CASE k = "macsec" -> MacSecToValue(set)
    [] k = "hsr" -> HsrToValue(set)
    [] k = "connection" -> ConnToValue(set)
    [] k = "ethtool" -> EthtoolToValue(set)
    [] OTHER -> ToDict(set)

(* gen_nm_conn_need_to_deactivate_first() *)
DeactivatedFirst(k, new, old) ==
  CASE k = "vlan" -> IsVlanChanged(new, old)
    [] k = "vxlan" -> IsVxlanChanged(new, old)
    [] k = "vrf" -> IsVrfTableIdChanged(new, old)
    [] k = "veth" -> IsVethPeerChanged(new, old)
    [] k = "ipvlan" -> IsIpVlanChanged(new, old)
    [] k = "connection" -> IsMptcpFlagsChanged(new, old)
    [] OTHER -> FALSE

(* The report: nispor's, updated with NetworkManager's. *)
Shown(k, attrs) ==
  IF attrs = Unset THEN Unset ELSE
  CASE k = "vlan" -> VlanShown(attrs)
    [] k = "vxlan" -> VxlanShown(attrs)
    [] k = "vrf" -> VrfShown(attrs)
    [] k = "macvlan" -> MacVlanShown(attrs)
    [] k = "macvtap" -> MacVtapShown(attrs)
    [] k = "macsec" -> MacSecUpdate(MacSecShown(attrs), attrs)
    [] k = "hsr" -> HsrShown(attrs)
    [] k = "ipvlan" -> IpVlanShown(attrs)
    [] k = "infiniband" -> IbShown(attrs)
    [] k = "veth" -> VethShown(attrs)
    [] k = "connection" -> ConnShown(attrs)
    [] k = "user" -> UserShown(attrs)
    [] k = "wired" -> WiredShown(attrs)
    [] k = "ethtool" -> EthtoolShown(attrs)
    [] k = "ieee8021x" -> Ieee8021XShown(attrs)
    [] k = "sriov" -> SriovShown(attrs)
    [] k = "bond" -> BondShown(attrs)
    [] k = "bridge" -> BridgeShown(attrs)
    [] k = "ovsbridge" -> OvsBridgeShown(attrs)
    [] k = "ipv4" -> Ipv4Shown(attrs)
    [] k = "ipv6" -> Ipv6Shown(attrs)
    [] k = "stack" -> StackShown(attrs)
    [] k \in RoutingKinds -> RoutingShown(attrs)
    [] k = "dns" -> HostShown(attrs, variant)
    [] k = "ovsdb" -> OvsDbShown(attrs)
    [] k \in DOMAIN NameOf -> GetDispatches(NameOf[k], attrs)

(* sanitize_current_for_verify(): what is not shown is taken for empty. *)
CurrentForVerify(k, cur) ==
  CASE k \in {"connection", "stack"} -> cur @@ [controller |-> ""]
    [] k = "ipv4" -> Ipv4CurrentForVerify(cur)
    [] k = "ipv6" -> Ipv6CurrentForVerify(cur)
    [] k = "bridge" -> BridgeCurrentForVerify(cur)
    [] k = "ovsbridge" -> OvsCurrentForVerify(cur)
    [] k \in DOMAIN NameOf -> cur @@ [f \in DOMAIN DispatchConfig |-> ""]
    [] OTHER -> cur

HideSecrets(k, c) ==
  CASE k = "macsec" -> MacSecHideSecrets(c)
    [] k = "ieee8021x" -> Ieee8021XHideSecrets(c)
    [] OTHER -> c

(* serde leaves out an empty base interface and an `enabled` that was not said. *)
SerializedInherited(c) == Without(c, IF Get(c, "base_iface", "unsaid") = "" THEN {"base_iface"} ELSE {})
Serialized(c) ==
  Without(c, (IF Get(c, "base_iface", "unsaid") = "" THEN {"base_iface"} ELSE {})
               \cup IF Says(c, "inherited") THEN {"inherited", "enabled"} ELSE {})

Deserializable(k, c) == RequiredOf[k] \subseteq DOMAIN c

-----------------------------------------------------------------------------
(* NetworkManager and the kernel, external. *)

NmDefaults ==
  Over([vlan |-> NmVlanDefaults, vxlan |-> NmVxlanDefaults, vrf |-> Unset,
        macvlan |-> NmMacVlanDefaults, macvtap |-> NmMacVlanDefaults,
        macsec |-> NmMacSecDefaults, hsr |-> NmHsrDefaults, ipvlan |-> NmIpVlanDefaults,
        connection |-> NmConnDefaults, wired |-> NmWiredDefaults,
        sriov |-> NmSriovDefaults, bridge |-> NmBridgeDefaults, ovsbridge |-> NmOvsBridgeDefaults,
        ipv4 |-> NmIpDefaults, ipv6 |-> NmIpDefaults],
       [k \in DOMAIN ConfigOf |-> Unset])

(* What AddConnection(), Update() and the activation refuse. *)
NmAccepts(k, dict) ==
  CASE k = "ipvlan" -> Says(dict, "parent")
    [] k = "bond" -> NmBondAccepts(dict) /\ ~QueueIdsShared(NmBond(dict))
    [] OTHER -> TRUE

NmAttributes(k, dict) ==
  CASE k = "vlan" -> NmVlan(dict)
    [] k = "vxlan" -> NmVxlan(dict)
    [] k = "vrf" -> NmVrf(dict)
    [] k \in {"macvlan", "macvtap"} -> NmMacVlan(dict)
    [] k = "macsec" -> NmMacSec(dict)
    [] k = "hsr" -> NmHsr(dict)
    [] k = "ipvlan" -> NmIpVlan(dict)
    [] k = "infiniband" -> NmIb(dict)
    [] k = "veth" -> NmVeth(dict)
    [] k = "connection" -> NmConn(dict)
    [] k = "user" -> NmUser(dict)
    [] k = "wired" -> NmWired(dict)
    [] k = "ethtool" -> NmEthtool(dict)
    [] k = "ieee8021x" -> NmIeee8021X(dict)
    [] k = "sriov" -> NmSriov(dict)
    [] k = "bond" -> NmBond(dict)
    [] k = "bridge" -> NmBridge(dict)
    [] k = "ovsbridge" -> NmOvsBridge(dict)
    [] k \in IpKinds -> NmIp(k = "ipv6", dict)
    [] k = "stack" -> NmStack(dict)
    [] k \in RoutingKinds -> NmRouting(dict)
    [] k = "dns" -> NmDns(dict)
    [] k \in DOMAIN NameOf \cup {"ovsdb"} -> dict

(* What cannot be changed on a link that exists. *)
Fixed(k, old) ==
  CASE k = "vlan" -> {"id", "protocol"}
    [] k = "vxlan" -> {"id"}
    [] k = "vrf" -> {"table_id"}
    [] k = "ipvlan" -> {"base_iface", "mode", "flags"}
    [] k = "veth" -> {"peer"}
    [] k = "connection" /\ Says(old, "mptcp-flags") -> {"mptcp"}
    [] OTHER -> {}

(* Variants.  NetworkManager may leave default values out of GetSettings(),   *)
(* for routes it may be one that cannot remove those in other tables from a   *)
(* link it keeps, and for rules and DNS a hash table may list its keys in two *)
(* orders.                                                                    *)
GetSettings(k, dict) ==
  IF k = "dns" THEN NmDns(dict)
  ELSE IF variant THEN Without(dict, {f \in DOMAIN dict \cap DOMAIN NmDefaults[k] : dict[f] = NmDefaults[k][f]})
  ELSE dict

-----------------------------------------------------------------------------
(* What is shown, and what verify() and gen_diff() make of it first. *)
Current(attrs) == Serialized(Shown(kind, attrs))

Report(attrs) == Serialized(SanitizedAs(kind, Shown(kind, attrs), FALSE))

(* What is lost when nothing is, of the type of an attribute's name. *)
Nothing == IF kind \in DOMAIN NameOf THEN <<"nothing">> ELSE "nothing"

(* The configurations that say exactly the fields S. *)
Saying(type, S) == FoldSet(LAMBDA f, cs : {(f :> v) @@ c : v \in type[f], c \in cs}, {Unset}, S)

(* The configurations that say the required fields and few others. *)
Desires ==
  LET type == ConfigOf[kind]
      optional == {s \in SUBSET Spoken[kind] : Cardinality(s) <= MaxSaid[kind]}
  IN  UNION {Saying(type, RequiredOf[kind] \cup s) : s \in optional}

(* A sub-interface of an InfiniBand port has both a parent and a P-key; a    *)
(* hidden password stands for one that is shown; a patch port that is not   *)
(* said itself is there.                                                    *)
IsPossible(c) ==
  /\ kind = "infiniband" => (Get(c, "base_iface", "") = "") = (c.pkey = NoPkey)
  /\ kind = "ieee8021x" /\ Says(c, "password") =>
       (c.password = Hidden => Says(profile, "password"))
  /\ kind = "ovsbridge" => OvsIfaces(c) \cap OvsPatches \subseteq DOMAIN kernel

(* The lists of routes that MergedRoutes::new() may make. *)
MergedLists(applied, cur) ==
  IF kind \in RoutingKinds /\ applied # Rejected THEN MergedRoutes(applied, cur) ELSE {{}}

(* MergedInterfaces::gen_diff(): what has to change, if it can be said. *)
GenDiff(c, cur, merged) ==
  LET Sayable(diff) == IF diff # Unset /\ ~Deserializable(kind, diff) THEN Rejected ELSE diff
      DiffOf(applied) ==
        IF applied = Rejected THEN Rejected ELSE
        CASE kind \in RoutingKinds -> RoutingDiff(applied, cur, merged)
          [] kind = "dns" -> DnsDiff(applied, cur)
          [] kind = "ovsdb" -> OvsDbDiff(c, cur)
          [] kind = "ovsbridge" -> OvsBridgeDiff(applied, OvsWithoutExtra(applied, cur))
          [] OTHER -> Sayable(Diff(Serialized(applied), Serialized(SanitizedAs(kind, cur, FALSE))))
  IN  DiffOf(ForApply(kind, c, cur))

(* Interface::generate_revert() *)
GenRevert(c, cur) ==
  LET Extended(applied, reverted) ==
        CASE kind = "sriov" -> SriovRevertExtra(reverted, c, cur)
          [] kind \in IpKinds -> Serialized(IpRevertExtra(kind = "ipv6", reverted, applied, cur))
          [] kind = "stack" -> StackRevertExtra(reverted, applied, cur)
          [] OTHER -> reverted
      RevertFrom(applied) == Extended(applied, RevertOf(Serialized(applied), cur))
  IN  CASE kind \in RoutingKinds -> RoutingRevert(c, cur)
        [] kind = "dns" -> DnsRevert(c, cur)
        [] kind = "ovsdb" -> OvsDbRevert(c, cur)
        [] kind = "ovsbridge" -> OvsBridgeRevert(ForApply(kind, c, cur), OvsWithoutExtra(c, cur))
        [] OTHER -> RevertFrom(ForApply(kind, c, cur))

Begin(w, d) ==
  /\ stage = "idle"
  /\ round' = round + 1
  /\ stage' = "asked"
  /\ way' = w
  /\ desired' = d
  /\ before' = kernel
  /\ lost' = Nothing
  /\ outcome' = "none"
  /\ UNCHANGED <<kind, variant, profile, read, kernel>>

Create ==
  /\ round = 0
  /\ \E c \in Starts[kind] : Begin("create", c)
  /\ UNCHANGED <<asked, prior>>

(* The profile of the interface was made by another program. *)
Adopt ==
  /\ round = 0
  /\ stage = "idle"
  /\ kind \in DOMAIN Adopted
  /\ \E dict \in Adopted[kind] :
       /\ profile' = GetSettings(kind, dict)
       /\ kernel' = NmAttributes(kind, dict)
  /\ round' = 1
  /\ way' = "adopt"
  /\ outcome' = "verified"
  /\ UNCHANGED <<kind, variant, stage, asked, desired, read, before, prior, lost>>

Change ==
  /\ round = 1
  /\ outcome = "verified"
  /\ \E c \in {d \in Desires : IsPossible(d)} :
       /\ asked' = c
       /\ \/ Begin("change", c)
          \/ \E merged \in MergedLists(ForApply(kind, c, Current(kernel)), Current(kernel)) :
               \E diff \in {GenDiff(c, Current(kernel), merged)} : diff \notin {Rejected, Unset} /\ Begin("diff", diff)
  /\ prior' = kernel

Follow ==
  /\ round = 2
  /\ outcome = "verified" /\ lost = Nothing
  /\ \/ Begin("again", HideSecrets(kind, Current(kernel)))
     \/ way = "change" /\ Begin("revert", GenRevert(asked, Current(prior)))
  /\ UNCHANGED <<asked, prior>>

Ending(o) == stage' = "idle" /\ outcome' = o

(* MergedNetworkState::new(), but for the choice among equal routes, which     *)
(* shows in what is stored only: see Apply.                                   *)
Merged ==
  /\ stage = "asked"
  /\ IF ForApply(kind, desired, Current(kernel)) = Rejected
     THEN Ending("rejected")
     ELSE stage' = "merged" /\ UNCHANGED outcome
  /\ UNCHANGED <<kind, variant, round, way, asked, desired, profile, read, kernel, before, prior, lost>>

(* nm_apply() gets the profiles; nothing keeps others from changing them then. *)
Read ==
  /\ stage = "merged"
  /\ stage' = "read"
  /\ read' = profile
  /\ UNCHANGED <<kind, variant, round, way, asked, desired, profile, kernel, before, prior, lost, outcome>>

(* The dictionary the profile is stored with, made on top of an old one. *)
NewDict(old, merged) ==
  LET Made(current) == SettingOf(kind, ForApply(kind, desired, current), FromDict(old, KeysOf[kind]), current, merged)
      Stored(setting) == IF setting = Rejected THEN Rejected ELSE ToValue(kind, setting)
  IN  Stored(Made(Current(kernel)))

(* The kernel refuses to attach a port whose queue is still taken. *)
IsBlocked(new) ==
  /\ kind = "bond"
  /\ QueueIdTaken(NmBond(new), kernel,
                  BondDetachedFirst(ForApply(kind, desired, Current(kernel)), Current(kernel)))

(* An attribute as NetworkManager leaves it; those of a host are interfaces. *)
Reached(attribute, new) ==
  LET goal == NmAttributes(kind, new)[attribute]
  IN  IF /\ kind = "routes" /\ variant
         /\ attribute \in DOMAIN read
         /\ ~IsRouteRemoved(new[attribute], read[attribute])
      THEN NmReapplied(goal, kernel[attribute])
      ELSE goal

(* Deactivation, save_nm_profiles() and activation. *)
Activated(new, attribute) ==
  LET recreated == DeactivatedFirst(kind, new, read)
      goal == NmAttributes(kind, new)
      Old(a) == Says(kernel, a) /\ ((a \in Fixed(kind, profile) /\ ~recreated) \/ a = attribute)
  IN  /\ attribute = Nothing \/ (Says(goal, attribute) /\ goal[attribute] # kernel[attribute])
      /\ profile' = GetSettings(kind, new)
      /\ kernel' = [a \in DOMAIN goal |-> IF Old(a) THEN kernel[a] ELSE Reached(a, new)]
      /\ lost' = attribute

(* The rest of nm_apply(): what is stored is made of what was read. *)
Apply ==
  /\ stage = "read"
  /\ read' = Unset
  /\ \E merged \in MergedLists(ForApply(kind, desired, Current(kernel)), Current(kernel)) :
     \E new \in {NewDict(read, merged)} :
       IF new # Rejected /\ NmAccepts(kind, new) /\ ~IsBlocked(new)
       THEN /\ \E a \in {Nothing} \cup IF round = 2 THEN DOMAIN kernel ELSE {} : Activated(new, a)
            /\ stage' = "activated"
            /\ UNCHANGED outcome
       ELSE Ending("refused") /\ UNCHANGED <<profile, kernel, lost>>
  /\ UNCHANGED <<kind, variant, round, way, asked, desired, before, prior>>

(* MergedInterfaces::verify() *)
Verified(c, cur) ==
  LET d == Serialized(ForVerify(kind, c, Current(before)))
      found == CurrentForVerify(kind, cur)
  IN  CASE kind \in IpKinds -> IpAgrees(d, found)
        [] kind \in RoutingKinds -> RoutingVerified(c, Current(before), cur)
        [] kind = "dns" -> StacksVerified(c, cur) /\ DnsVerified(c, Current(before), cur)
        [] kind = "ovsdb" ->
             LET said == ForApply(kind, c, Current(before))
                 updated == OvsDbUpdated(Current(before), cur)
             IN  OvsDbVerified(said, updated) /\ OvnVerified(OvnMaps(said), OvnMaps(updated))
        [] kind = "ovsbridge" -> OvsBridgeAgrees(d, OvsWithoutExtra(c, found))
        [] OTHER -> Agrees(d, found)

Verify ==
  /\ stage = "activated"
  /\ Ending(IF Verified(desired, Report(kernel)) THEN "verified" ELSE "mismatch")
  /\ UNCHANGED <<kind, variant, round, way, asked, desired, profile, read, kernel, before, prior, lost>>

(* Another program stores a key of its own in the profile, between two        *)
(* applies or during the second one: after the state of the host was read,    *)
(* and before nm_apply() gets the profiles or after it.                       *)
OtherKey == IF kind \in DOMAIN NameOf THEN <<"other">> ELSE "unknown"

OtherKeyStored ==
  /\ \/ round = 1 /\ stage = "idle" /\ outcome = "verified"
     \/ round = 2 /\ stage \in {"merged", "read"}
  /\ kind \notin HostKinds
  /\ ~Says(profile, OtherKey)
  /\ profile' = (OtherKey :> "kept") @@ profile
  /\ UNCHANGED <<kind, variant, round, stage, way, asked, desired, read, kernel, before, prior, lost, outcome>>

Done ==
  /\ stage = "idle"
  /\ \/ round = 3
     \/ round > 0 /\ (outcome # "verified" \/ lost # Nothing)
  /\ UNCHANGED vars

Init ==
  /\ kind \in Kinds
  /\ variant \in BOOLEAN
  /\ round = 0
  /\ stage = "idle"
  /\ way = "none"
  /\ asked = Unset
  /\ desired = Unset
  /\ profile = Unset
  /\ read = Unset
  /\ kernel = Unset
  /\ before = Unset
  /\ prior = Unset
  /\ lost = Nothing
  /\ outcome = "none"

Next == Create \/ Adopt \/ Change \/ Follow \/ Merged \/ Read \/ Apply \/ Verify \/ OtherKeyStored \/ Done

Spec == Init /\ [][Next]_vars

-----------------------------------------------------------------------------
(* The types of the variables.  What is shown, and what is made of it to be  *)
(* applied again or reverted, has only fields that can be said.              *)
TypeOK ==
  /\ kind \in Kinds /\ variant \in BOOLEAN /\ round \in 0 .. 3
  /\ stage \in {"idle", "asked", "merged", "read", "activated"}
  /\ way \in {"none", "create", "adopt", "change", "diff", "again", "revert"}
  /\ outcome \in {"none", "verified", "mismatch", "rejected", "refused"}
  /\ lost \in {Nothing} \cup DOMAIN kernel
  /\ DOMAIN asked \cup DOMAIN desired \subseteq DOMAIN ConfigOf[kind] \cup IF kind \in RoutingKinds THEN RoutingKinds ELSE {}

Ended == stage = "idle" /\ round > 0

(* A hairpin mode other than the one stored, which stays. *)
HairpinModeKept(c) ==
  \E i \in DOMAIN Get(c, "ports", <<>>) :
    LET p == c.ports[i]
        stored == Get(profile, p.name, Unset)
    IN  Says(p, "stp_hairpin_mode") /\ Says(stored, "hairpin-mode") /\ stored["hairpin-mode"] # p.stp_hairpin_mode

(* A port of an Open vSwitch bridge that is not shown as it is said: an       *)
(* interface passes from one port to another, a VLAN has no mode, the ranges  *)
(* of a trunk are not put together, a bond has one interface or a delay of 0, *)
(* or LACP does not replace the mode that is stored.                          *)
OvsVlanUnshown(v, was) ==
  \/ ~Says(v, "mode") /\ was = Unset
  \/ \E i, j \in DOMAIN Get(v, "trunk_tags", <<>>) : i < j /\ v.trunk_tags[j][1] <= v.trunk_tags[i][2] + 1
OvsBondUnshown(bond, was) ==
  \/ Len(bond.port) < 2 \/ Get(bond, "bond_updelay", 1) = 0
  \/ Get(bond, "mode", "") = "lacp" /\ Get(was, "mode", "lacp") # "lacp"
OvsPortUnshown(p, cur) ==
  LET was == BridgePortConf(cur, p.name)
  IN  \/ \E m \in OvsMembers(p) \cap OvsIfaces(cur) : OvsPortOf(cur, m) # p.name
      \/ Says(p, "vlan") /\ OvsVlanUnshown(p.vlan, Get(was, "vlan", Unset))
      \/ Says(p, "bond") /\ OvsBondUnshown(p.bond, Get(was, "bond", Unset))

(* What is said to no effect: pause and link options while they are          *)
(* negotiated, two coalesce options that are never written and one that is  *)
(* never read, MPTCP flags repeated apart from each other, the driver probe *)
(* of a PF without VFs, VFs the PF has not, scripts of an interface with a  *)
(* dash in its name, a hairpin mode that was stored before, the priority of *)
(* a bond port in a mode without, IP options of a method without them, the  *)
(* rules of a state that leaves the list as it is or takes an interface     *)
(* away, DNS when its interface is taken away or its servers alone are, and *)
(* of an Open vSwitch bridge the ports above, names that are emptied and    *)
(* `allow-extra-patch-ports: false`.                                        *)
IneffectiveFields(k, c, cur) ==
  CASE k = "ethtool" ->
         {"coalesce-sample-interval", "coalesce-stats-block-usecs", "coalesce-rx-frames-irq"}
           \cup IF Get(c, "pause-autoneg", TRUE) THEN {"pause-rx", "pause-tx"} ELSE {}
    [] k = "wired" -> IF Get(c, "auto_neg", TRUE) THEN {"speed", "duplex"} ELSE {}
    [] k = "connection" -> IF IsInjective(Dedup(Get(c, "address_flags", <<>>))) THEN {} ELSE {"address_flags"}
    [] k = "dashed" -> DOMAIN c
    [] k = "rules" ->
         LET d == RoutingApplied(c, cur)
         IN  IF d # Rejected /\ (Get(d, "eth1", "up") = "absent" \/ ~RulesChanged(d, cur)) THEN {"rules"} ELSE {}
    [] k = "dns" ->
         LET d == MergedDns(c, cur)
         IN  IF Get(c, "eth1", Unset) = Gone \/ (d.server = <<>> /\ ~IsNull(d) /\ CurrentDns(cur).server # <<>>)
             THEN {"dns"} ELSE {}
    [] k = "bridge" -> IF HairpinModeKept(c) THEN {"ports"} ELSE {}
    [] k = "ovsbridge" ->
         (IF \E i \in DOMAIN Get(c, "ports", <<>>) : OvsPortUnshown(c.ports[i], cur) THEN {"ports"} ELSE {})
           \cup {f \in DOMAIN OvsNameKeyOf : Get(c, f, "said") = "" /\ Get(cur, f, "") # ""}
           \cup IF OvsAllowsExtra(c) THEN {} ELSE {"allow_extra_patch_ports"}
    [] k \in IpKinds ->
         LET IneffectiveIn(d) ==
               IF d = Rejected THEN {}
               ELSE (IF k = "ipv4" /\ ~Says(d, "address") /\ ~IpIsAuto(d) THEN {"enabled"} ELSE {})
                      \cup (IF Says(d, "address") THEN {} ELSE {"allow_extra_address"})
                      \cup (IF Get(d, "enabled", FALSE) THEN {} ELSE {"addr_gen_mode"})
                      \cup (IF IpIsAuto(d) THEN {} ELSE {"token", "dhcp_duid"})
         IN  IneffectiveIn(ForApply(k, c, cur))
    [] k = "bond" ->
         LET prioritised == {i \in DOMAIN Get(c, "ports_config", <<>>) : Get(c.ports_config[i], "priority", 0) # 0}
         IN  IF prioritised # {} /\ Merge(c, cur).mode # "active-backup" THEN {"ports_config"} ELSE {}
    [] k = "sriov" ->
         LET total == Get(SriovFilled(c, cur), "total_vfs", MaxVfs)
             outside == {i \in DOMAIN Get(c, "vfs", <<>>) : c.vfs[i].id >= total}
         IN  (IF total = 0 THEN {"drivers_autoprobe"} ELSE {}) \cup (IF outside = {} THEN {} ELSE {"vfs"})
    [] OTHER -> {}

(* A desired state the system realised passes verification: neither a       *)
(* default value, a conversion nor a value NetworkManager leaves out makes  *)
(* the comparison of MergedInterfaces::verify() fail.                       *)
RealisedStateVerifies ==
  Ended /\ lost = Nothing /\ DOMAIN desired \cap IneffectiveFields(kind, desired, Current(before)) = {} =>
    outcome # "mismatch"

(* Two lists have the same values of what every element of a third says. *)
SameWhereSaid(said, a, b) ==
  LET fields == {f \in UNION {DOMAIN said[i] : i \in DOMAIN said} : \A i \in DOMAIN said : Says(said[i], f)}
  IN  [i \in DOMAIN a |-> Only(a[i], fields)] = [i \in DOMAIN b |-> Only(b[i], fields)]

(* The columns of the database that are emptied; a key of one is removed. *)
PurgedColumns(c) ==
  {column \in Columns :
     /\ Says(c, "ovsdb")
     /\ OvsDbIsPurge(c.ovsdb) \/ (Says(c.ovsdb, column) /\ c.ovsdb[column] = Unset)}
RemovesKey(c) == \E column \in Columns : \E k \in SaidKeys(c, column) : c.ovsdb[column][k] = NoValue

(* Two mappings of one localnet, which another program may have stored. *)
LocalnetRepeated(k) == LET maps == OvnMaps(Report(k)) IN Cardinality(Localnets(maps)) < Len(maps)

(* A key that `ovsdb` of an Open vSwitch bridge, or of a bond, takes away. *)
OvsDbLoses(conf, was) ==
  \E column \in DOMAIN was : \E k \in DOMAIN was[column] : Get(Get(conf, column, Unset), k, NoValue) = NoValue
OvsBondLoses(p, cur) ==
  LET was == Get(BridgePortConf(cur, p.name), "bond", Unset)
  IN  Says(p, "bond") /\ Says(p.bond, "ovsdb") /\ OvsDbLoses(p.bond.ovsdb, Get(was, "ovsdb", Unset))

(* What verify() leaves out of the comparison: an HSR supervision address, an *)
(* empty list of VFs, a profile name that is the interface's, every option of *)
(* a bond (should_ignore()), `enabled` of IPv4 with addresses and no other    *)
(* method, the VLANs of a bridge port that are reset, and what is removed     *)
(* from the Open vSwitch database.  The routes, the rules and DNS are left    *)
(* out as a whole: their lists hold what others say as well, and verify()     *)
(* looks for what is said in them (RoutesVerified and its like).              *)
UnverifiedFields(k, c) ==
  CASE k = "hsr" -> {"supervision_address"}
    [] k = "sriov" -> IF Get(c, "vfs", <<>>) = <<>> THEN {"vfs"} ELSE {}
    [] k = "connection" -> IF Get(c, "profile_name", "eth1") = "eth1" THEN {"profile_name"} ELSE {}
    [] k \in RoutingKinds -> {"routes", "rules"}
    [] k = "dns" -> {"dns"}
    [] k = "ovsdb" ->
         (IF PurgedColumns(c) # {} \/ RemovesKey(c) THEN {"ovsdb"} ELSE {})
           \cup IF LocalnetRepeated(before) \/ \E i \in DOMAIN OvnMaps(c) : OvnIsAbsent(c.ovn[i]) THEN {"ovn"} ELSE {}
    [] k = "bond" -> DOMAIN BondOptions
    [] k = "ipv4" -> IF Says(c, "address") /\ NoneOrAllAuto(c) THEN {"enabled"} ELSE {}
    [] k = "bridge" ->
         IF \E i \in DOMAIN Get(c, "ports", <<>>) : Says(c.ports[i], "vlan") /\ c.ports[i].vlan = Unset THEN {"ports"} ELSE {}
    [] k = "ovsbridge" ->
         LET was == Report(before)
         IN  (IF OvsDbLoses(Get(c, "ovsdb", Unset), Get(was, "ovsdb", Unset)) THEN {"ovsdb"} ELSE {})
               \cup IF \E i \in DOMAIN Get(c, "ports", <<>>) : OvsBondLoses(c.ports[i], was) THEN {"ports"} ELSE {}
    [] OTHER -> {}

(* A change of a said field that the system did not make is noticed: if       *)
(* MergedInterfaces::verify() passes, the field is shown as the stored        *)
(* profile has it, unless it is one of those above.                           *)
LossIsNoticed ==
  Ended /\ way # "adopt" /\ outcome = "verified" =>
    LET now == CurrentForVerify(kind, Report(kernel))
        goal == CurrentForVerify(kind, Report(NmAttributes(kind, profile)))
        applied == DOMAIN desired \cap DOMAIN Serialized(ForApply(kind, desired, Current(before)))
    IN  \A f \in applied \ (UnverifiedFields(kind, desired) \cup IneffectiveFields(kind, desired, Current(before))) :
          desired[f] # Hidden =>
            /\ Says(now, f) = Says(goal, f)
            /\ Says(now, f) => CASE f \in ListFields -> SameWhereSaid(desired[f], now[f], goal[f])
                                [] f = "address" /\ Get(desired, "allow_extra_address", TRUE) ->
                                     Range(goal[f]) \subseteq Range(now[f])
                                [] OTHER -> now[f] = goal[f]

(* States that are shown and then refused: the mark that hides a MACsec key  *)
(* has not the length of one, a bond that takes over the MAC address of its *)
(* active port is shown with it, an activation waits for a family that is   *)
(* disabled, a token is left from when IPv6 was configured by routers.      *)
ShownIsRejected(k, c) ==
  \/ k = "macsec" /\ Says(c, "mka_cak")
  \/ k = "bond" /\ BondIsMacRestricted(c)
  \/ k = "stack" /\ WaitIpInvalid(c)
  \/ k = "ipv6" /\ ~Get(c, "autoconf", TRUE) /\ Get(c, "token", "::") # "::"

(* DNS may move to another place when it is said with the interfaces, and is *)
(* shown with its options sorted or not then.                                *)
SameDns(a, b) == DnsSorted(CurrentDns(Report(a))) = DnsSorted(CurrentDns(Report(b)))
SameState(a, b) ==
  IF kind = "dns" THEN SameDns(a, b) /\ Only(Report(a), DnsIfaces) = Only(Report(b), DnsIfaces) ELSE a = b

(* Search domains or options without servers.  They are stored without        *)
(* removing those that are elsewhere.                                         *)
DnsIsSearchOnly(k) == CurrentDns(Report(k)).server = <<>> /\ ~IsNull(CurrentDns(Report(k)))

(* Two routes that differ in no more than metric or type. *)
HasDoubledRoutes(k) == kind \in RoutingKinds /\ \E r \in Report(k).routes : RouteIsDoubled(r, Report(k).routes)

(* A state shown by nmstate can be applied again and changes nothing, unless  *)
(* it is one of those above.  Nor does the driver probe of a PF without VFs   *)
(* stay as it is shown, and of two routes that MergedRoutes::new() takes for  *)
(* one the other goes.                                                        *)
AgainChangesNothing ==
  Ended /\ way = "again" =>
    \/ outcome = "verified" /\ SameState(kernel, before)
    \/ outcome = "rejected" /\ ShownIsRejected(kind, desired)
    \/ kind = "sriov" /\ desired.total_vfs = 0 /\ ~desired.drivers_autoprobe
    \/ kind = "dns" /\ DnsIsSearchOnly(before)
    \/ outcome = "verified" /\ HasDoubledRoutes(before)

(* Fields that are not shown while they have their default. *)
HiddenDefaults ==
  [connection |-> {"profile_name", "controller"}, vxlan |-> {"local", "remote"},
   dispatch |-> DOMAIN DispatchConfig, dashed |-> DOMAIN DispatchConfig,
   ieee8021x |-> DOMAIN Ieee8021XConfig, bond |-> DOMAIN BondOptions,
   ipv4 |-> {"dhcp_custom_hostname"}, ipv6 |-> {"dhcp_custom_hostname", "dhcp"}] @@ [k \in DOMAIN ConfigOf |-> {}]

(* The fields a desired state may leave out without changing them. *)
KeptFields(k, c) ==
  LET Unless(group) == IF DOMAIN c \cap group = {} THEN group ELSE {}
  IN  CASE k \in {"vlan", "vrf", "connection", "user", "dispatch"} -> DOMAIN ConfigOf[k]
        [] k = "macsec" -> {"offload"}
        [] k \in RoutingKinds -> IF Says(c, "eth1") THEN {} ELSE {"eth1", "routes", "rules"}
        [] k = "dns" ->
             IF Get(c, "eth1", Unset) = Gone THEN {}
             ELSE DOMAIN DnsConfig \ IF DnsIsSearchOnly(before) THEN {"dns"} ELSE {}
        [] k = "ovsdb" -> {"ovsdb"} \cup IF LocalnetRepeated(before) THEN {} ELSE {"ovn"}
        [] k = "infiniband" -> {"mtu"}
        [] k = "wired" -> DOMAIN WiredConfig \ IF Says(c, "auto_neg") THEN {"speed", "duplex"} ELSE {}
        [] k = "ethtool" -> Unless(PauseKeys) \cup Unless(CoalesceKeys) \cup Unless(RingKeys)
                              \cup Unless(FeatureNames)
        [] k = "bond" ->
             LET said == BondSanitize(c)
                 dropped == Get(said, "mode", Report(before).mode) # Report(before).mode \/ BondIsOptionsReset(said)
                 options == IF dropped THEN {}
                            ELSE DOMAIN BondOptions \ IF Says(c, "arp_interval") THEN {"arp_ip_target", "miimon"} ELSE {}
             IN  options \cup Unless({"mode", "port", "ports_config"})
        [] k = "bridge" -> (DOMAIN BridgeKeyOf \ IF Says(c, "ports") THEN {"vlan_default_pvid"} ELSE {})
                             \cup Unless({"ports", "vlan_default_pvid"})
        [] k = "ovsbridge" -> Unless(DOMAIN OvsBridgeOptions) \cup {"ovsdb", "ports"}
        [] k = "stack" -> IF WaitedFor(Get(c, "wait_ip", "any")) = {} THEN IF Says(c, "controller") THEN {} ELSE DOMAIN StackConfig ELSE {"controller"}
        [] k = "sriov" -> {"drivers_autoprobe"} \ IneffectiveFields(k, c, Report(before))
        [] OTHER -> {}

(* What a desired state does not say stays as it was, in the fields whose    *)
(* setting is made on top of the stored one.                                *)
SettingsKept ==
  Ended /\ way = "change" /\ outcome = "verified" /\ (kind = "dns" => lost = Nothing) =>
    Agrees(Only(Report(before), KeptFields(kind, desired) \ DOMAIN ForApply(kind, desired, Report(before))),
           Report(kernel))

(* The VLANs of a bridge port whose VLANs are not said are preserved, and    *)
(* filtering with them (LinuxBridgeInterface::special_merge()).             *)
UnsaidVlansKept ==
  /\ Ended /\ way = "change" /\ outcome = "verified" /\ lost = Nothing
  /\ kind \in {"bridge", "ovsbridge"} /\ Says(desired, "ports") /\ ~Says(desired, "vlan_default_pvid")
  => \A p \in BridgePorts(Report(before)) \cap BridgePorts(desired) :
       LET Vlan(c) == Only(BridgePortConf(c, p), {"vlan"})
       IN  Vlan(desired) = Unset => Vlan(Report(kernel)) = Vlan(Report(before))

(* When DHCP and autoconf are switched off and no static address is said,     *)
(* the addresses the interface has become static (merge_ip()).              *)
LeaseBecomesStatic ==
  /\ Ended /\ way = "change" /\ outcome = "verified" /\ lost = Nothing /\ kind \in IpKinds
  => LET d == ForApply(kind, desired, Current(before))
     IN  IpIsAuto(Current(before)) /\ d.enabled /\ ~IpIsAuto(d) /\ NoneOrAllAuto(desired)
           => Range(kernel.addrs) = Range(Forever(before.addrs))

(* What a desired state leaves out of an interface is kept: the fields that  *)
(* are not said, the VLANs of a bridge port, the addresses DHCP gave.        *)
UnsaidKept == SettingsKept /\ UnsaidVlansKept /\ LeaseBecomesStatic

(* Routes of one interface and one table to one destination. *)
SameTarget(o, r) == RouteIface(o) = RouteIface(r) /\ o.dest = r.dest /\ o.table = r.table

(* Routes are added to those there are: a route stays, and as it was, when no *)
(* absent entry matches it and its interface keeps its IP stack.  Where a     *)
(* route of its interface changes there are two exceptions, both made by      *)
(* MergedRoutes::new(): a typed IPv4 route, which is shown without an         *)
(* interface, goes with a change of the loopback's; and of routes that differ *)
(* in no more than metric or type, or from one that is desired, one is left   *)
(* (dedup()).                                                                 *)
RoutesKept ==
  /\ Ended /\ way = "change" /\ outcome = "verified" /\ lost = Nothing /\ kind \in RoutingKinds
  => LET applied == ForApply(kind, desired, Report(before))
         Stays(r) == ~CannotHave(applied, Report(before), r) /\ ~RemovedBy(Get(applied, "routes", {}), r)
         IsRewritten(r) == RouteIface(r) \in RouteChangedIfaces(applied, Report(before))
         IsDoubled(r) == RouteIsDoubled(r, RoutesToMerge(applied, Report(before)))
     IN  \A r \in Report(before).routes : Stays(r) =>
           \/ r \in Report(kernel).routes
           \/ IsRewritten(r) /\ ~Says(r, "iface")
           \/ IsRewritten(r) /\ IsDoubled(r) /\ \E o \in Report(kernel).routes : SameTarget(o, r)

(* So are rules, whichever profile store_route_rule_config() finds for the    *)
(* new ones; those in the profile of an interface that is removed go with it. *)
RulesKept ==
  /\ Ended /\ way = "change" /\ lost = Nothing /\ kind \in RoutingKinds
  /\ Get(desired, "eth1", "up") # "absent"
  => \A r \in Range(Report(before).rules) :
       ~RuleRemovedBy(Get(desired, "rules", <<>>), r) => r \in Range(Report(kernel).rules)

(* A desired state that does not mention DNS is applied and leaves the DNS    *)
(* configuration as it is shown, in its order, whichever interface has to     *)
(* hold it then.                                                              *)
DnsKept ==
  /\ Ended /\ way = "change" /\ lost = Nothing /\ kind = "dns"
  /\ ~Says(desired, "dns") /\ Get(desired, "eth1", Unset) # Gone
  /\ LinkLocals(CurrentDns(Report(before)).server) = <<>> /\ ~DnsIsSearchOnly(before)
  => outcome = "verified" /\ SameDns(kernel, before)

(* The keys of the database that a desired state does not say stay, and none  *)
(* is added, unless it empties their column: a state that is about mappings   *)
(* only leaves all of them (MergedOvsDbGlobalConfig::new()).                  *)
OvsKeysKept ==
  /\ Ended /\ way \in {"change", "diff"} /\ outcome = "verified" /\ lost = Nothing /\ kind = "ovsdb"
  => LET Unsaid(attrs, column) == Without(Report(attrs).ovsdb[column], SaidKeys(desired, column))
     IN  \A column \in Columns :
           Unsaid(kernel, column) = IF column \in PurgedColumns(desired) THEN Unset ELSE Unsaid(before, column)

(* So do the OVN mappings: `ovsdb: {}` and an emptied `external_ids`, in which *)
(* they are stored, leave them alone.                                         *)
OvnMapsKept ==
  /\ Ended /\ way \in {"change", "diff"} /\ outcome = "verified" /\ lost = Nothing /\ kind = "ovsdb"
  => LET Others(c) == SelectSeq(OvnMaps(c), LAMBDA m : m.localnet \notin Localnets(OvnMaps(desired)))
     IN  ~LocalnetRepeated(before) => Others(Report(kernel)) = Others(Report(before))

(* What a desired state leaves out of the configuration of the host is kept: *)
(* routes, rules, DNS and the Open vSwitch database.                         *)
HostKept == RoutesKept /\ RulesKept /\ DnsKept /\ OvsKeysKept /\ OvnMapsKept

(* A rule without a priority gets one behind every rule there is and every   *)
(* other one that is said before it (set_auto_priority()).                   *)
NewRulesLast ==
  /\ Ended /\ way = "change" /\ outcome = "verified" /\ lost = Nothing /\ kind = "rules" /\ Says(desired, "rules")
  => LET added == Range(Report(kernel).rules) \ Range(Report(before).rules)
         said == PresentRules(desired.rules)
         Realises(r, i) == RuleIsMatch(RuleSanitize(said[i]), r)
     IN  \A i \in DOMAIN said : RuleIsAuto(said[i]) =>
           \E r \in added :
             /\ Realises(r, i)
             /\ \A o \in Range(Report(kernel).rules) \ added : o.priority < r.priority
             /\ \A j \in 1 .. (i - 1) : \E o \in added : Realises(o, j) /\ o.priority < r.priority

(* What generate_revert() does not bring back of an Open vSwitch bridge: the  *)
(* patch ports that were allowed, which its list of ports leaves out, and the *)
(* keys that were not said, which `ovsdb` takes away.                         *)
UnrevertedFields(k, c, was) ==
  LET Said(column) == DOMAIN Get(c.ovsdb, column, Unset)
      isPartly == Says(c, "ovsdb") /\ \E column \in Columns : ~(DOMAIN was.ovsdb[column] \subseteq Said(column))
  IN  IF k # "ovsbridge" THEN {}
      ELSE (IF OvsAllowsExtra(c) THEN {"ports"} ELSE {}) \cup IF isPartly THEN {"ovsdb"} ELSE {}

AgreesAs(k, said, cur) == IF k = "ovsbridge" THEN OvsBridgeAgrees(said, OvsCurrentForVerify(cur)) ELSE Agrees(said, cur)

(* Applying what generate_revert() makes of a desired state gives every      *)
(* field that state says the value it had, if that was shown, unless it is  *)
(* one of those above or an IP section that does not say `enabled`.         *)
SettingsRestored ==
  /\ Ended /\ way = "revert" /\ outcome = "verified" /\ kind \notin HostKinds
  /\ kind \in IpKinds => Says(asked, "enabled")
  =>
    LET was == Report(prior)
        now == Report(kernel)
    IN  \A f \in DOMAIN Serialized(ForApply(kind, asked, was)) \ UnrevertedFields(kind, asked, was) :
          IF Says(was, f) THEN AgreesAs(kind, Only(was, {f}), now)
          ELSE ~Says(now, f) \/ f \in HiddenDefaults[kind]

(* Routes and rules are again what they were after the revert of a state     *)
(* that neither says one that was there already nor takes an interface or    *)
(* its IP stack away, if no typed IPv4 route is concerned and no two routes  *)
(* differ in metric only.                                                    *)
RoutingRestored ==
  /\ Ended /\ way = "revert" /\ outcome = "verified" /\ lost = Nothing /\ kind \in RoutingKinds
  /\ Get(asked, "eth1", "up") = "up"
  /\ \A r \in Present(Get(asked, "routes", {})), o \in Report(prior).routes : ~RouteIsMatch(r, o)
  /\ \A r \in Range(PresentRules(Get(asked, "rules", <<>>))), o \in Range(Report(prior).rules) : ~RuleIsMatch(r, o)
  /\ "lo" \notin RouteChangedIfaces(asked, Report(prior)) \/ \A r \in Report(prior).routes : Says(r, "iface")
  /\ ~HasDoubledRoutes(prior)
  => Only(Report(kernel), {"routes", "rules"}) = Only(Report(prior), {"routes", "rules"})

(* So is the DNS configuration after the revert of a state that changed it,   *)
(* wherever the two states put it.  Options that there were none of before    *)
(* stay, for they are not said then.                                          *)
DnsRestored ==
  /\ Ended /\ way = "revert" /\ outcome = "verified" /\ kind = "dns" /\ Says(asked, "dns")
  /\ ~DnsIsSearchOnly(prior) /\ ~DnsIsSearchOnly(before) /\ Get(asked, "eth1", Unset) # Gone
  => LET was == Report(prior).dns
         fields == IF was = Unset THEN DnsFields ELSE DOMAIN was
     IN  Only(DnsSorted(CurrentDns(Report(kernel))), fields) = Only(DnsSorted(Conf(was)), fields)

(* The revert of a state brings the keys and the mappings back, unless that   *)
(* state empties a column.  Nor does it when keys of one column only are      *)
(* said: the revert says the other column empty, which purges it.             *)
OvsDbRestored ==
  /\ Ended /\ way = "revert" /\ kind = "ovsdb" /\ ~LocalnetRepeated(prior)
  /\ \A column \in PurgedColumns(asked) : Report(prior).ovsdb[column] = Unset
  /\ \A column \in Columns :
       Says(asked, "ovsdb") /\ asked.ovsdb # Unset /\ ~Says(asked.ovsdb, column) => Report(prior).ovsdb[column] = Unset
  => outcome = "verified" /\ Report(kernel) = Report(prior)

(* Applying what generate_revert() makes of a desired state that passed       *)
(* verification brings back what was there before it, in the settings of an   *)
(* interface, the routes and rules, the DNS and the Open vSwitch database.    *)
RevertRestores == SettingsRestored /\ RoutingRestored /\ DnsRestored /\ OvsDbRestored

(* Applying the difference gen_diff() makes of a desired state realises all  *)
(* that the desired state says, if what the difference leaves out is kept.  *)
(* Keys of `ovsdb` of an Open vSwitch bridge that it leaves out are not.    *)
DiffReachesDesired ==
  /\ Ended /\ way = "diff" /\ lost = Nothing /\ outcome # "refused"
  /\ DOMAIN asked \ DOMAIN desired \subseteq KeptFields(kind, desired)
  /\ DOMAIN asked \cap IneffectiveFields(kind, desired, Current(before)) = {}
  /\ kind \in RoutingKinds => Present(Get(asked, "routes", {})) = Get(asked, "routes", {})
  /\ kind = "ovsbridge" /\ Says(desired, "ovsdb") => asked.ovsdb = desired.ovsdb
  => outcome = "verified" /\ Verified(asked, Report(kernel))

(* NetworkManager refuses a bond only for what the desired state says of its  *)
(* monitoring or for two ports it gives one queue: not for what an earlier    *)
(* mode left in the profile, nor because a queue passes from port to port.    *)
(* DNS is refused only when there are search domains or options without       *)
(* servers, or when a route of the interface of a link-local server changes.  *)
RefusedOnlyForCause ==
  /\ Ended /\ outcome = "refused" /\ kind = "bond" =>
       \/ Get(desired, "arp_interval", 0) > 0 \/ Get(desired, "miimon", 0) > 0 \/ Get(desired, "arp_ip_target", "") # ""
       \/ QueueIdsShared(NmBond(NewDict(profile, {})))
  /\ Ended /\ outcome = "refused" /\ kind = "dns" =>
       LET d == MergedDns(desired, Report(before))
       IN  (d.server = <<>> /\ ~IsNull(d)) \/ (Says(desired, "route") /\ LinkLocals(Report(before).dns.server) # <<>>)

(* A key of the profile nmstate does not know survives every apply, in the    *)
(* kinds whose setting is made on top of the stored one, unless it was stored *)
(* after nm_apply() got the profiles: Update() then replaces the profile as a *)
(* whole.  The [ethtool] section is made on top of the stored one too, but    *)
(* its unknown keys are not written back.                                     *)
OtherKeysKept ==
  [][/\ Says(profile, OtherKey)
     /\ stage = "read" => Says(read, OtherKey)
     /\ kind \in {"vlan", "macsec", "hsr", "ipvlan", "infiniband", "connection", "wired", "dispatch", "ovsbridge"}
     => Says(profile', OtherKey)]_vars
=============================================================================
