---------------------------- MODULE BridgeSection ----------------------------
(***************************************************************************)
(* The settings of a Linux bridge and of its ports, laid out as in         *)
(* BondSection.  A VLAN range is a pair of its first and its last VLAN, a  *)
(* single VLAN the pair of it twice.                                       *)
(***************************************************************************)
EXTENDS BondSection

BridgePortNames == BondPortNames

(* LinuxBridgeOptions: each option and the key it is stored under. *)
BridgeKeyOf ==
  [group_addr |-> "group-address", group_fwd_mask |-> "group-forward-mask",
   hash_max |-> "multicast-hash-max", mac_ageing_time |-> "ageing-time",
   multicast_querier |-> "multicast-querier", multicast_router |-> "multicast-router",
   multicast_snooping |-> "multicast-snooping", vlan_protocol |-> "vlan-protocol",
   vlan_default_pvid |-> "vlan-default-pvid", stp_enabled |-> "stp",
   stp_forward_delay |-> "forward-delay", stp_hello_time |-> "hello-time",
   stp_max_age |-> "max-age", stp_priority |-> "priority"]

LinuxBridgeMulticastRouterType == {"auto", "disabled", "enabled"}

BridgeOptions ==
  [group_addr |-> {"aa"}, group_forward_mask |-> {0, 8}, group_fwd_mask |-> {8}, hash_max |-> {512},
   mac_ageing_time |-> {300, 0}, multicast_querier |-> BOOLEAN, multicast_router |-> LinuxBridgeMulticastRouterType,
   multicast_snooping |-> BOOLEAN, vlan_protocol |-> {"802.1q", "802.1ad"}, vlan_default_pvid |-> {1, 5},
   stp_enabled |-> BOOLEAN, stp_forward_delay |-> {1, 15, 20}, stp_hello_time |-> {0, 2},
   stp_max_age |-> {20, 41}, stp_priority |-> {32768}, gc_timer |-> {29657}, hello_timer |-> {46}]

(* BridgePortVlanConfig: an access port, trunks, and what is not allowed. *)
AccessVlan(tag) == [mode |-> "access", tag |-> tag]
TrunkVlan(tags) == [mode |-> "trunk", trunk_tags |-> tags]
NativeVlan(tags, tag) == [mode |-> "trunk", trunk_tags |-> tags, tag |-> tag, enable_native |-> TRUE]

BridgePortLists ==
  {<<[name |-> "eth2", stp_path_cost |-> 50], [name |-> "eth1"]>>,
   <<[name |-> "eth1", stp_hairpin_mode |-> FALSE, vlan |-> AccessVlan(10)]>>,
   <<[name |-> "eth1", vlan |-> TrunkVlan(<<<<3, 4>>, <<2, 2>>>>)], [name |-> "eth2", vlan |-> Unset]>>,
   <<[name |-> "eth1", vlan |-> NativeVlan(<<<<2, 2>>>>, 10)], [name |-> "eth2", stp_hairpin_mode |-> TRUE]>>,
   <<[name |-> "eth1", vlan |-> Unset], [name |-> "eth2", vlan |-> Unset, stp_priority |-> 8]>>,
   <<[name |-> "eth1", vlan |-> [mode |-> "trunk", tag |-> 10, trunk_tags |-> <<<<2, 2>>>>]]>>,
   <<[name |-> "eth1", vlan |-> TrunkVlan(<<<<2, 4>>, <<3, 3>>>>)]>>}

BridgeConfig == [ports |-> BridgePortLists] @@ BridgeOptions

-----------------------------------------------------------------------------
(* LinuxBridgeInterface::sanitize() *)

(* flatten_vlan_ranges() and sort_trunk_tags() *)
FlatTags(tags) ==
  SortSeq(Concat([i \in DOMAIN tags |->
                        [n \in 1 .. tags[i][2] - tags[i][1] + 1 |-> <<tags[i][1] + n - 1, tags[i][1] + n - 1>>]]),
          LAMBDA a, b : a[1] < b[1])

BridgeVlanSanitize(v) ==
  IF Says(v, "trunk_tags") THEN [v EXCEPT !.trunk_tags = FlatTags(v.trunk_tags)] ELSE v

(* BridgePortVlanConfig::sanitize(), validate_overlap_trunk_tags() *)
BridgeVlanIsInvalid(v) ==
  \/ /\ Get(v, "mode", "") = "trunk"
     /\ Get(v, "tag", 0) # 0 /\ ~Get(v, "enable_native", FALSE)
  \/ /\ Get(v, "mode", "") = "access"
     /\ Get(v, "enable_native", FALSE) \/ Get(v, "trunk_tags", <<>>) # <<>>
  \/ Get(v, "mode", "") = "trunk" /\ ~Says(v, "trunk_tags")
  \/ ~IsInjective(FlatTags(Get(v, "trunk_tags", <<>>)))

(* vlan_filtering_is_enabled() *)
BridgeFilters(c) ==
  \E i \in DOMAIN Get(c, "ports", <<>>) : Get(c.ports[i], "vlan", Unset) # Unset

(* validate_vlan_default_pvid(), LinuxBridgeStpOptions::sanitize(): only for desired. *)
BridgeIsInvalid(c) ==
  \/ Get(c, "vlan_default_pvid", 1) # 1 /\ ~BridgeFilters(c)
  \/ Get(c, "stp_hello_time", 1) \notin 1 .. 10
  \/ Get(c, "stp_max_age", 6) \notin 6 .. 40
  \/ Get(c, "stp_forward_delay", 2) \notin 2 .. 30
  \/ \E i \in DOMAIN Get(c, "ports", <<>>) : BridgeVlanIsInvalid(Get(c.ports[i], "vlan", Unset))

BridgePortSanitize(p) == IF Says(p, "vlan") THEN [p EXCEPT !.vlan = BridgeVlanSanitize(p.vlan)] ELSE p

(* sanitize_group_fwd_mask(), sort_ports(), remove_runtime_only_timers() ... *)
BridgeSanitize(c, isDesired) ==
  LET differ == Says(c, "group_fwd_mask") /\ Get(c, "group_forward_mask", c.group_fwd_mask) # c.group_fwd_mask
      mask == SetIfSaid(Unset, "group_fwd_mask", c, "group_forward_mask")
      mac == IF Says(c, "group_addr") THEN [group_addr |-> Uppercase(c.group_addr)] ELSE Unset
      sorted == SortSeq(Get(c, "ports", <<>>), LAMBDA a, b : a.name = "eth1" /\ b.name = "eth2")
      ports == IF Says(c, "ports") THEN [ports |-> [i \in DOMAIN sorted |-> BridgePortSanitize(sorted[i])]] ELSE Unset
  IN  IF differ \/ (isDesired /\ BridgeIsInvalid(c)) THEN Rejected
      ELSE mask @@ mac @@ ports @@ Without(c, {"group_forward_mask", "gc_timer", "hello_timer"})

BridgeVerified(c) == IF BridgeSanitize(c, FALSE) = Rejected THEN c ELSE BridgeSanitize(c, FALSE)

-----------------------------------------------------------------------------
(* gen_nm_br_setting() and gen_nm_br_port_setting() *)

BridgePortConf(c, name) ==
  LET at == {i \in DOMAIN Get(c, "ports", <<>>) : c.ports[i].name = name}
  IN  IF at = {} THEN Unset ELSE c.ports[Min(at)]

BridgePorts(c) == {Get(c, "ports", <<>>)[i].name : i \in DOMAIN Get(c, "ports", <<>>)}

(* LinuxBridgeInterface::special_merge(): the VLANs of a port that says none. *)
BridgeMergedOverrides(c, cur) == Merge(c, cur)
BridgeMerged(c, cur) ==
  IF ~Says(c, "ports") THEN Merge(c, cur)
  ELSE LET Kept(p) == Only(BridgePortConf(cur, p.name), {"vlan"})
       IN  [Merge(c, cur) EXCEPT !.ports = [i \in DOMAIN c.ports |-> c.ports[i] @@ Kept(c.ports[i])]]

(* BridgePortVlanConfig::is_changed(), is_empty() *)
BridgeVlanIsChanged(new, old) ==
  \/ new = Unset /\ old # Unset
  \/ ~(DOMAIN new \subseteq DOMAIN old /\ Only(old, DOMAIN new) = new)

(* LinuxBridgePortConfig::is_changed() *)
BridgePortIsChanged(new, old) ==
  /\ new # Unset /\ old # Unset
  /\ \/ \E f \in DOMAIN new \ {"name", "vlan"} : Says(old, f) => new[f] # old[f]
     \/ Says(new, "vlan") /\ (Says(old, "vlan") => BridgeVlanIsChanged(new.vlan, old.vlan))

(* nmstate_port_vlans_to_nm_vlan_range(): first and last VLAN, and whether  *)
(* it is the port's own, untagged one.                                      *)
BridgeVlanRanges(v) ==
  LET own == IF Says(v, "tag") THEN <<<<v.tag, v.tag, TRUE>>>> ELSE <<>>
      tags == Get(v, "trunk_tags", <<>>)
      trunk == [i \in DOMAIN tags |-> Append(tags[i], FALSE)]
  IN  CASE Get(v, "mode", "") = "trunk" -> trunk \o own
        [] Get(v, "mode", "") = "access" -> own
        [] OTHER -> <<>>

(* NmSettingBridgePort: the hairpin mode is read from `hairpin_mode` and    *)
(* written to `hairpin-mode`, where the stored one is in _other.            *)
BridgePortKeys == {"hairpin_mode", "path-cost", "priority", "vlans"}
BridgePortToValue(s) ==
  s.other @@ SetIfSaid(Unset, "hairpin-mode", s.known, "hairpin_mode") @@ Without(s.known, {"hairpin_mode"})

BridgePortSetting(conf, old) ==
  LET set == FromDict(old, BridgePortKeys)
      ranges == IF Says(conf, "vlan") THEN [vlans |-> BridgeVlanRanges(conf.vlan)] ELSE Unset
      stp == SetIfSaid(SetIfSaid(SetIfSaid(Unset, "hairpin_mode", conf, "stp_hairpin_mode"),
                                 "path-cost", conf, "stp_path_cost"), "priority", conf, "stp_priority")
  IN  IF conf = Unset THEN old ELSE BridgePortToValue(WithKnown(set, ranges @@ stp @@ set.known))

BridgePortSections(c, old, cur) ==
  LET merged == BridgeMerged(c, cur)
      Changed(p) == p \notin BridgePorts(cur) \/ BridgePortIsChanged(BridgePortConf(c, p), BridgePortConf(cur, p))
  IN  [p \in (IF Says(c, "ports") THEN BridgePorts(c) ELSE DOMAIN old) |->
         IF Says(c, "ports") /\ Changed(p) THEN BridgePortSetting(BridgePortConf(merged, p), Get(old, p, Unset))
         ELSE Get(old, p, Unset)]

BridgeSetting(c, s, cur) ==
  LET options == TableOf({<<BridgeKeyOf[f], c[f]>> : f \in DOMAIN c \cap DOMAIN BridgeKeyOf})
      filtering == IF Says(c, "ports") THEN "vlan-filtering" :> BridgeFilters(BridgeMerged(c, cur)) ELSE Unset
      stp == IF s = NewSetting THEN Unset ELSE [stp |-> TRUE]   \* of a stored setting that says nothing of it
  IN  WithKnown(s, options @@ filtering @@ BridgePortSections(c, Only(s.known, BridgePortNames), cur)
                     @@ Without(s.known, BridgePortNames) @@ stp)

BridgeKeys == {BridgeKeyOf[f] : f \in DOMAIN BridgeKeyOf} \cup {"vlan-filtering"} \cup BridgePortNames

-----------------------------------------------------------------------------
(* NetworkManager and the kernel, external: times are in ticks; a port is   *)
(* in the default VLAN unless it is given a VLAN of its own.                *)

UserHz == 100

NmBridgeDefaults ==
  ("forward-delay" :> 15) @@ ("hello-time" :> 2) @@ ("max-age" :> 20) @@ ("ageing-time" :> 300) @@ [stp |-> TRUE]
    @@ ("vlan-default-pvid" :> 1) @@ ("vlan-filtering" :> FALSE) @@ ("group-forward-mask" :> 0)
    @@ ("multicast-snooping" :> TRUE) @@ ("vlan-protocol" :> "802.1q") @@ ("group-address" :> "00")

BridgeTicks == {"forward-delay", "hello-time", "max-age", "ageing-time"}

NmBridgePort(p, pvid, filtering) ==
  LET ranges == Get(p, "vlans", <<>>)
      own == UNION {{[vid |-> n, pvid |-> ranges[i][3]] : n \in ranges[i][1] .. ranges[i][2]} : i \in DOMAIN ranges}
      base == IF \E e \in own : e.pvid THEN {} ELSE {[vid |-> pvid, pvid |-> TRUE]}
  IN  [hairpin |-> Get(p, "hairpin-mode", FALSE), cost |-> Get(p, "path-cost", 100),
       prio |-> Get(p, "priority", 32), vlans |-> IF filtering THEN own \cup base ELSE {}]

NmBridge(dict) ==
  LET all == dict @@ NmBridgeDefaults
      filtering == all["vlan-filtering"]
      pvid == IF filtering THEN all["vlan-default-pvid"] ELSE 1
  IN  [p \in BridgePortNames \cap DOMAIN dict |-> NmBridgePort(dict[p], pvid, filtering)]
        @@ [f \in BridgeTicks |-> all[f] * UserHz] @@ ("vlan-default-pvid" :> pvid) @@ Only(all, BridgeKeys)

-----------------------------------------------------------------------------
(* np_bridge_to_nmstate(), append_bridge_port_config() *)

(* parse_port_vlan_conf() *)
BridgeVlanShown(entries, pvid) ==
  LET isAccess == \E e \in entries : entries = {e} /\ e.pvid
      other == {e \in entries : e.vid # pvid}
      trunk == SortedList({e.vid : e \in {o \in other : ~o.pvid}}, <)
      own == {e.vid : e \in {o \in other : o.pvid}}
      tag == IF own = {} THEN Unset ELSE [tag |-> Max(own)]
      mode == IF trunk = <<>> THEN [mode |-> "access"] ELSE [mode |-> "trunk", enable_native |-> own # {} /\ ~isAccess]
  IN  IF other = {} THEN Unset
      ELSE mode @@ tag @@ [trunk_tags |-> [i \in DOMAIN trunk |-> <<trunk[i], trunk[i]>>]]

BridgePortShown(name, p, filtering, pvid) ==
  LET vlan == IF filtering THEN BridgeVlanShown(p.vlans, pvid) ELSE Unset
  IN  (IF vlan = Unset THEN Unset ELSE [vlan |-> vlan])
        @@ [name |-> name, stp_hairpin_mode |-> p.hairpin, stp_path_cost |-> p.cost, stp_priority |-> p.prio]

BridgeShown(k) ==
  LET ports == BondPortIndex(ListOf(BridgePortNames \cap DOMAIN k))
      Value(f) == IF BridgeKeyOf[f] \in BridgeTicks THEN k[BridgeKeyOf[f]] \div UserHz ELSE k[BridgeKeyOf[f]]
  IN  [ports |-> [i \in DOMAIN ports |->
                   BridgePortShown(ports[i], k[ports[i]], k["vlan-filtering"], k["vlan-default-pvid"])]]
        @@ [gc_timer |-> 29657, hello_timer |-> 46, group_forward_mask |-> k["group-forward-mask"]]
        @@ [f \in {g \in DOMAIN BridgeKeyOf : Says(k, BridgeKeyOf[g])} |-> Value(f)]

(* treat_none_vlan_as_empty_dict() *)
BridgeCurrentForVerify(cur) ==
  [cur EXCEPT !.ports = [i \in DOMAIN cur.ports |-> cur.ports[i] @@ [vlan |-> Unset]]]
=============================================================================
