----------------------------- MODULE BondSection -----------------------------
(***************************************************************************)
(* The settings of a bond and of its ports, laid out as in VirtualKinds.   *)
(* The options are flattened; the field `options` stands for the options   *)
(* object itself, so that the empty one, which resets them, can be said.   *)
(* In the dictionary the [bond-port] section of each attached port is kept *)
(* under the name of the port.                                             *)
(***************************************************************************)
EXTENDS BaseSections

BondPortNames == {"eth1", "eth2"}

BondModes == {"balance-rr", "active-backup", "balance-xor", "broadcast", "802.3ad", "balance-tlb", "balance-alb"}
BondAdSelect == {"stable", "bandwidth", "count"}
BondLacpRate == {"slow", "fast"}
BondAllPortsActive == {"dropped", "delivered"}
BondArpAllTargets == {"any", "all"}
BondArpValidate == {"none", "active", "backup", "all", "filter", "filter_active", "filter_backup"}
BondFailOverMac == {"none", "active", "follow"}
BondPrimaryReselect == {"always", "better", "failure"}
BondXmitHashPolicy == {"layer2", "layer3+4", "layer2+3", "encap2+3", "encap3+4", "vlan+srcmac"}

BondOptions ==
  [ad_actor_sys_prio |-> {1000}, ad_actor_system |-> {"aa", "01:00:5E"}, ad_select |-> BondAdSelect,
   ad_user_port_key |-> {5}, all_slaves_active |-> BondAllPortsActive,
   arp_all_targets |-> BondArpAllTargets, arp_interval |-> {0, 100}, arp_ip_target |-> {"", "192.0.2.1"},
   arp_validate |-> BondArpValidate, arp_missed_max |-> {2, 3},
   downdelay |-> {0, 100}, fail_over_mac |-> BondFailOverMac, lacp_rate |-> BondLacpRate,
   lp_interval |-> {1, 2}, miimon |-> {0, 140}, min_links |-> {0, 1}, num_grat_arp |-> {1, 2},
   num_unsol_na |-> {1, 2}, packets_per_slave |-> {1, 2}, primary |-> BondPortNames,
   primary_reselect |-> BondPrimaryReselect, resend_igmp |-> {1, 2}, tlb_dynamic_lb |-> BOOLEAN,
   updelay |-> {0, 100}, use_carrier |-> BOOLEAN, xmit_hash_policy |-> BondXmitHashPolicy,
   balance_slb |-> BOOLEAN]

BondPortLists ==
  {<<[name |-> "eth1"], [name |-> "eth2", queue_id |-> 1]>>,
   <<[name |-> "eth2", queue_id |-> 1], [name |-> "eth1", queue_id |-> 0]>>,
   <<[name |-> "eth1", queue_id |-> 1], [name |-> "eth2", queue_id |-> 2]>>,
   <<[name |-> "eth1", queue_id |-> 2], [name |-> "eth2", queue_id |-> 2]>>,
   <<[name |-> "eth2", queue_id |-> 1, priority |-> 9]>>,
   <<[name |-> "eth1", priority |-> 0], [name |-> "eth2", priority |-> 9]>>}

BondConfig ==
  [mode |-> BondModes, mac_address |-> {"AA"}, options |-> {"given"},
   port |-> {<<"eth1">>, <<"eth2", "eth1">>}, ports_config |-> BondPortLists] @@ BondOptions

BondPortIndex(names) == SortSeq(names, LAMBDA a, b : a = "eth1" /\ b = "eth2")

(* BondInterface::ports(): the names of `port`, else those of `ports_config`. *)
BondPorts(c) ==
  IF Says(c, "port") THEN Range(c.port) ELSE {c.ports_config[i].name : i \in DOMAIN Get(c, "ports_config", <<>>)}

BondMentionsPorts(c) == Says(c, "port") \/ Says(c, "ports_config")

(* BondInterface::get_port_conf() *)
BondPortConf(c, name) ==
  LET confs == Get(c, "ports_config", <<>>)
      at == {i \in DOMAIN confs : confs[i].name = name}
  IN  IF at = {} THEN Unset ELSE confs[CHOOSE i \in at : \A j \in at : i <= j]

(* check_overlap_queue_id() *)
BondQueueIdsOverlap(c) ==
  LET confs == Get(c, "ports_config", <<>>)
  IN  \E i, j \in DOMAIN confs :
        i < j /\ Get(confs[i], "queue_id", 0) # 0 /\ Get(confs[j], "queue_id", 0) = confs[i].queue_id

BondSaysOptions(c) == DOMAIN c \cap ({"options"} \cup DOMAIN BondOptions) # {}

(* BondInterface::sanitize() *)
BondSanitize(c) ==
  LET ports == IF Says(c, "port") THEN [port |-> BondPortIndex(c.port)] ELSE Unset
      confs == IF ~Says(c, "ports_config") THEN Unset
               ELSE [ports_config |-> SortSeq(c.ports_config, LAMBDA a, b : a.name = "eth1" /\ b.name = "eth2")]
      mac == IF Says(c, "ad_actor_system") THEN [ad_actor_system |-> Uppercase(c.ad_actor_system)] ELSE Unset
      options == IF BondSaysOptions(c) THEN [options |-> "given"] ELSE Unset
      target == IF Get(c, "arp_ip_target", "any") = "" THEN {"arp_ip_target"} ELSE {}
  IN  IF BondQueueIdsOverlap(c) THEN Rejected
      ELSE ports @@ confs @@ mac @@ options @@ Without(c, target)

BondIsMacRestricted(c) ==
  Get(c, "mode", "") = "active-backup" /\ Get(c, "fail_over_mac", "") = "active"

(* is_not_mac_restricted_mode_explicitly() *)
BondLeavesMacRestricted(c) ==
  Get(c, "mode", "active-backup") # "active-backup" \/ Get(c, "fail_over_mac", "active") # "active"

(* validate_balance_slb(), with the mode of the merged bond *)
BondBalanceSlbInvalid(c, cur) ==
  LET Either(f) == Get(c, f, Get(cur, f, "unsaid"))
  IN  /\ BondSaysOptions(c) /\ Says(c @@ cur, "mode")
      /\ Says(c @@ cur, "balance_slb") /\ Either("balance_slb") = TRUE
      /\ (Either("mode") # "balance-xor" \/ Either("xmit_hash_policy") # "vlan+srcmac")

(* post_inter_ifaces_process_bond() *)
BondApplied(c, cur) ==
  LET invalid ==
        \/ cur = Unset /\ ~Says(c, "mode")
        \/ Says(c, "mac_address") /\ (BondIsMacRestricted(c) \/ (BondIsMacRestricted(cur) /\ ~BondLeavesMacRestricted(c)))
        \/ /\ Says(c, "port") /\ Says(c, "ports_config")
           /\ BondPortIndex(c.port) # [i \in DOMAIN c.ports_config |-> BondSanitize(c).ports_config[i].name]
        \/ Get(c, "ad_actor_system", "") = "01:00:5E"
        \/ Get(c, "miimon", 0) > 0 /\ Get(c, "arp_interval", 0) > 0
        \/ BondBalanceSlbInvalid(c, cur)
  IN  IF BondSanitize(c) = Rejected \/ invalid THEN Rejected ELSE BondSanitize(c)

(* should_ignore(): a difference of options does not fail the verification. *)
BondVerified(c) == Without(IF BondSanitize(c) = Rejected THEN c ELSE BondSanitize(c), DOMAIN BondOptions)

-----------------------------------------------------------------------------
(* gen_nm_bond_setting() *)

BondIsOptionsReset(c) == Says(c, "options") /\ DOMAIN c \cap DOMAIN BondOptions = {}

(* apply_bond_mode(): another mode starts from no options. *)
BondMode(c, options) ==
  IF ~Says(c, "mode") THEN options
  ELSE IF Get(options, "mode", "") = c.mode THEN options
  ELSE [mode |-> c.mode]

BondOptionValue(f, v) ==
  CASE f = "all_slaves_active" -> IF v = "dropped" THEN 0 ELSE 1
    [] f \in {"tlb_dynamic_lb", "use_carrier", "balance_slb"} -> IF v THEN 1 ELSE 0
    [] OTHER -> v

BondOptionKey(f) == IF f = "balance_slb" THEN "balance-slb" ELSE f

DefaultArpMissedMax == 2

(* apply_bond_options(): no ARP monitoring leaves no target either. *)
BondOptionsSetting(c, options) ==
  LET unneeded == IF Get(c, "arp_missed_max", 0) = DefaultArpMissedMax /\ ~Says(options, "arp_missed_max")
                  THEN {"arp_missed_max"} ELSE {}
      said == (DOMAIN c \cap DOMAIN BondOptions) \ unneeded
      kept == IF Get(c, "arp_interval", 1) = 0 THEN Without(options, {"arp_ip_target"}) ELSE options
  IN  TableOf({<<BondOptionKey(f), BondOptionValue(f, c[f])>> : f \in said}) @@ kept

(* gen_nm_bond_port_setting(), with the configuration of the merged bond *)
BondPortSetting(conf, old) ==
  IF Get(conf, "priority", 0) = 0 /\ Get(conf, "queue_id", 0) = 0 /\ old = Unset THEN old
  ELSE (IF Says(conf, "priority") /\ (Says(old, "prio") \/ conf.priority # 0)
        THEN [prio |-> conf.priority] ELSE Unset)
         @@ SetIfSaid(Unset, "queue-id", conf, "queue_id") @@ old

(* BondPortConfig::is_changed(), get_config_changed_ports() *)
BondPortChanged(c, cur, name) ==
  LET new == BondPortConf(c, name)
      old == BondPortConf(cur, name)
  IN  /\ new # Unset /\ old # Unset
      /\ \E f \in {"priority", "queue_id"} : Says(new, f) /\ (Says(old, f) => old[f] # new[f])

(* The ports whose profiles are made anew, get_changed_ports(). *)
BondChangedPorts(c, cur) ==
  IF ~BondMentionsPorts(c) THEN {}
  ELSE {p \in BondPortNames : (p \in BondPorts(c)) # (p \in BondPorts(cur)) \/ BondPortChanged(c, cur, p)}

BondPortSections(c, old, cur) ==
  LET changed == BondChangedPorts(c, cur)
      attached == IF BondMentionsPorts(c) THEN BondPorts(c) ELSE DOMAIN old
  IN  [p \in attached |->
         IF p \in changed THEN BondPortSetting(BondPortConf(Merge(c, cur), p), Get(old, p, Unset))
         ELSE Get(old, p, Unset)]

BondSetting(c, s, cur) ==
  LET stored == Without(s.known, BondPortNames \cup {"cloned-mac-address"})
      reset == IF BondIsOptionsReset(c) THEN Only(stored, {"mode"}) ELSE stored
      moded == BondMode(c, reset)
  IN  WithKnown(s, SetIfSaid(Only(s.known, {"cloned-mac-address"}), "cloned-mac-address", c, "mac_address")
                     @@ (IF BondSaysOptions(c) THEN BondOptionsSetting(c, moded) ELSE moded)
                     @@ BondPortSections(c, Only(s.known, BondPortNames), cur))

BondKeys == {BondOptionKey(f) : f \in DOMAIN BondOptions} \cup {"mode", "cloned-mac-address"} \cup BondPortNames

(* get_bond_ports_with_queue_id_changed() and is_bond_port_queue_id_changed(): *)
(* the ports, of those made anew, that are detached first.                     *)
BondDetachedFirstDesired(c, cur) ==
  {p \in BondChangedPorts(c, cur) \cap BondPorts(c) :
     LET Id(d) == Get(BondPortConf(d, p), "queue_id", 0) IN Id(c) # 0 /\ Id(c) # Id(cur)}
BondDetachedFirst(c, cur) ==
  {p \in BondChangedPorts(c, cur) \cap BondPorts(c) :
     LET Id(d) == Get(BondPortConf(d, p), "queue_id", 0) IN Id(c) # Id(cur)}

-----------------------------------------------------------------------------
(* NetworkManager and the kernel, external: the options that are not stored *)
(* have their defaults; NetworkManager wants targets and interval of the    *)
(* ARP monitor together, the kernel no two ports with the same queue.       *)

NmBondDefaults ==
  [arp_interval |-> 0, arp_ip_target |-> "", all_slaves_active |-> 0, miimon |-> 100,
   tlb_dynamic_lb |-> 1, use_carrier |-> 1, arp_missed_max |-> 2, fail_over_mac |-> "none",
   xmit_hash_policy |-> "layer2", primary |-> "", ad_actor_system |-> "00"]

NmBondAccepts(dict) ==
  /\ Says(dict, "mode")
  /\ Get(dict, "arp_ip_target", "") # "" <=> Get(dict, "arp_interval", 0) # 0
  /\ Get(dict, "miimon", 0) = 0 \/ Get(dict, "arp_interval", 0) = 0
  /\ Get(dict, "balance-slb", 0) = 1 => dict.mode = "balance-xor"

NmBond(dict) ==
  LET monitored == Get(dict, "arp_interval", 0) # 0
      defaults == IF monitored THEN [miimon |-> 0] @@ NmBondDefaults ELSE NmBondDefaults
      backup == dict.mode = "active-backup"
      mac == IF BondIsMacRestricted(dict) THEN "BB" ELSE Get(dict, "cloned-mac-address", "00")
  IN  [p \in BondPortNames \cap DOMAIN dict |->
         [prio |-> IF backup THEN Get(dict[p], "prio", 0) ELSE 0, queue |-> Get(dict[p], "queue-id", 0)]]
        @@ [mac |-> mac] @@ Only(dict, BondKeys \ {"cloned-mac-address"}) @@ defaults

BondQueue(k, p) == IF Says(k, p) THEN k[p].queue ELSE 0

(* Two ports with one queue. *)
QueueIdsShared(k) == BondQueue(k, "eth1") # 0 /\ BondQueue(k, "eth1") = BondQueue(k, "eth2")

(* A port is attached while the other, which stays, still has its queue. *)
QueueIdTaken(goal, now, detached) ==
  \E p, q \in BondPortNames \cap DOMAIN goal :
    /\ p # q /\ BondQueue(goal, p) \notin {0, BondQueue(now, p)}
    /\ q \notin detached /\ BondQueue(goal, p) = BondQueue(now, q)

-----------------------------------------------------------------------------
(* np_bond_to_nmstate(), append_bond_port_config() and BondOptions::update() *)

BondOptionShown(f, v) ==
  CASE f = "all_slaves_active" -> IF v = 0 THEN "dropped" ELSE "delivered"
    [] f \in {"tlb_dynamic_lb", "use_carrier", "balance_slb"} -> v = 1
    [] OTHER -> v

BondShown(k) ==
  LET ports == BondPortIndex(ListOf(BondPortNames \cap DOMAIN k))
      unset == {f \in {"arp_ip_target", "primary"} : Get(k, f, "") = ""}
      shown == {f \in DOMAIN BondOptions : Says(k, BondOptionKey(f))} \ unset
  IN  [mode |-> k.mode, mac_address |-> k.mac, options |-> "given", port |-> ports,
       ports_config |-> [i \in DOMAIN ports |->
                           [name |-> ports[i], priority |-> k[ports[i]].prio, queue_id |-> k[ports[i]].queue]]]
        @@ [f \in shown |-> BondOptionShown(f, k[BondOptionKey(f)])]
=============================================================================
