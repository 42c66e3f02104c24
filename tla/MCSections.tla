----------------------------- MODULE MCSections -----------------------------
(* The instance of Sections for TLC: the interfaces each kind starts with. *)
EXTENDS Sections

MCKinds == {"vlan", "vxlan", "vrf", "macvlan", "macvtap", "macsec", "hsr", "ipvlan",
            "infiniband", "veth", "connection", "user", "wired", "ethtool", "ieee8021x",
            "dispatch", "dashed", "sriov", "bond", "bridge", "ipv4", "ipv6", "stack", "routes", "rules", "dns",
            "ovsdb", "ovsbridge"}

MCStarts ==
  [vlan |-> {[id |-> 100, base_iface |-> "eth1"],
             [id |-> 100, base_iface |-> "eth1", protocol |-> "802.1ad", loose_binding |-> TRUE,
              reorder_headers |-> FALSE, registration_protocol |-> "mvrp"],
             [id |-> 100]},
   vxlan |-> {[id |-> 100, remote |-> "192.0.2.8"],
              [id |-> 100, base_iface |-> "eth1", learning |-> FALSE, dst_port |-> 4789]},
   vrf |-> {[table_id |-> 100], [table_id |-> 0]},
   macvlan |-> {[base_iface |-> "eth1", mode |-> "bridge"],
                [base_iface |-> "eth1", mode |-> "passthru", accept_all_mac |-> FALSE]},
   macvtap |-> {[base_iface |-> "eth1", mode |-> "bridge"],
                [base_iface |-> "eth1", mode |-> "passthru", accept_all_mac |-> FALSE]},
   macsec |-> {[base_iface |-> "eth1", encrypt |-> TRUE, port |-> 1, validation |-> "strict",
                send_sci |-> TRUE],
               [base_iface |-> "eth1", encrypt |-> FALSE, port |-> 7, validation |-> "disabled",
                send_sci |-> FALSE, offload |-> "mac", mka_cak |-> "cak32", mka_ckn |-> "ckn64"]},
   hsr |-> {[port1 |-> "eth1", port2 |-> "eth2", multicast_spec |-> 40, protocol |-> "prp"]},
   ipvlan |-> {[base_iface |-> "eth1"],
               [base_iface |-> "eth1", mode |-> "l3s", private |-> TRUE]},
   infiniband |-> {[mode |-> "datagram", pkey |-> NoPkey],
                   [mode |-> "connected", pkey |-> 7, base_iface |-> "ib0", mtu |-> 65520]},
   veth |-> {[peer |-> "veth1"]},
   connection |-> {[profile_name |-> "eth1"], [lldp_enabled |-> TRUE, address_flags |-> <<Signal>>],
                   [controller |-> "br0", profile_name |-> "office"]},
   user |-> {[description |-> "lab"]},
   wired |-> {[mtu |-> 1500],
              [mac_address |-> "aa", auto_neg |-> FALSE, speed |-> 100, duplex |-> "half"]},
   ethtool |-> {("pause-autoneg" :> FALSE) @@ ("pause-rx" :> TRUE) @@ ("coalesce-rx-frames" :> 32),
                ("gro" :> TRUE) @@ ("rx-all" :> TRUE) @@ ("ring-tx" :> 64)},
   ieee8021x |-> {[identity |-> "host", eap |-> <<"tls">>, private_key |-> "/key",
                   private_key_password |-> "secret"],
                  [identity |-> "guest", password |-> "pass"]},
   dispatch |-> {[post_activation |-> "echo up"], [post_deactivation |-> "echo down"]},
   dashed |-> {[post_activation |-> ""]},
   sriov |-> {[total_vfs |-> 2], [total_vfs |-> 2, vfs |-> <<[id |-> 1, mac |-> "BB"]>>],
              [total_vfs |-> 0]},
   bond |-> {[mode |-> "balance-rr", port |-> <<"eth2", "eth1">>, miimon |-> 140],
             [mode |-> "active-backup", fail_over_mac |-> "active", arp_interval |-> 100, arp_ip_target |-> "192.0.2.1",
              ports_config |-> <<[name |-> "eth1", queue_id |-> 1], [name |-> "eth2", queue_id |-> 2, priority |-> 9]>>],
             [mode |-> "balance-xor", balance_slb |-> TRUE, xmit_hash_policy |-> "vlan+srcmac",
              port |-> <<"eth1">>, mac_address |-> "AA"]},
   bridge |-> {[ports |-> <<[name |-> "eth1"]>>],
               [ports |-> <<[name |-> "eth1", vlan |-> AccessVlan(10)], [name |-> "eth2"]>>, vlan_default_pvid |-> 5,
                stp_enabled |-> FALSE, mac_ageing_time |-> 0],
               [ports |-> <<[name |-> "eth2", vlan |-> NativeVlan(<<<<2, 4>>>>, 10), stp_path_cost |-> 7]>>,
                stp_forward_delay |-> 20, group_forward_mask |-> 8]},
   ovsbridge |-> {[ports |-> <<>>],
                  [ports |-> <<OvsPort("eth1") @@ [vlan |-> AccessVlan(10)], OvsPort("patch0")>>, stp |-> TRUE,
                   ovsdb |-> [external_ids |-> [a |-> "1", b |-> "1"], other_config |-> [c |-> "9"]]],
                  [ports |-> <<OvsBond(<<"eth1", "eth2">>, [mode |-> "balance-slb", bond_updelay |-> 100,
                                                           ovsdb |-> [external_ids |-> [a |-> "1"]]]), OvsPort("br0")>>,
                   fail_mode |-> "secure"]},
   ipv4 |-> {[enabled |-> TRUE, dhcp |-> TRUE], [enabled |-> FALSE],
             [enabled |-> TRUE, dhcp |-> FALSE, address |-> <<Address("a")>>],
             [enabled |-> TRUE, dhcp |-> TRUE, auto_dns |-> FALSE, auto_table_id |-> 500, auto_route_metric |-> 50,
              dhcp_custom_hostname |-> "host.example", address |-> <<Address("b")>>]},
   ipv6 |-> {[enabled |-> TRUE, dhcp |-> TRUE, autoconf |-> TRUE], [enabled |-> FALSE], [enabled |-> TRUE],
             [enabled |-> TRUE, address |-> <<Address("a")>>, addr_gen_mode |-> "stable-privacy"],
             [enabled |-> TRUE, dhcp |-> TRUE, autoconf |-> TRUE, token |-> "::fac1", auto_gateway |-> FALSE,
              dhcp_custom_hostname |-> "host", dhcp_duid |-> "uuid"]},
   stack |-> {[ipv4_enabled |-> TRUE], [ipv4_enabled |-> TRUE, ipv6_enabled |-> TRUE, wait_ip |-> "ipv4"],
              [controller |-> "br0"]}] @@ [k \in HostKinds |-> {}]

(* What the profiles of eth1, eth2 and lo hold. *)
MCIface(routes, rules) == [stack |-> "up", routes |-> routes, rules |-> rules]

MCHosts ==
  {[i \in RouteIfaces |-> NewIface],
   [eth1 |-> MCIface({NmRoute(Route("net4", "eth1", "gw")), NmRoute(Route("net6", "eth1", "gw"))},
                     <<Rule("ipv4", 30005, 254) @@ [from |-> "addr4"]>>),
    eth2 |-> MCIface({[dest |-> "net4", via |-> "gw"], NmRoute(Route("other4", "eth2", "gw") @@ [table |-> 100])},
                     <<Rule("ipv4", 100, 100), Rule("ipv6", 7, 254)>>),
    lo |-> MCIface({NmRoute(Typed("other4", "prohibit")), NmRoute(Typed("net6", "blackhole"))}, <<>>)]}

(* Two routes that differ in nothing but their metric. *)
MCDoubledRoutes ==
  {[eth1 |-> MCIface({NmRoute(Route("net4", "eth1", "gw")), NmRoute(Route("net4", "eth1", "gw") @@ [metric |-> 9])}, <<>>),
    eth2 |-> NewIface, lo |-> NewIface]}

(* Where DNS may be held: nowhere, in both families of an interface, in the   *)
(* global configuration, by a link-local server, as a search domain only.     *)
MCDnsHost(global, eth1, eth2) == [global |-> global, eth1 |-> eth1, eth2 |-> eth2]
MCHolding(stack, v4, v6) == [stack |-> stack, dns |-> [v4 |-> v4, v6 |-> v6]]
MCServers(servers, priority) == [NoDns EXCEPT !.server = servers, !.priority = priority]

MCDnsHosts ==
  {MCDnsHost(Unset, NewDnsIface(Stack("static", "bare")), NewDnsIface(Stack("off", "off"))),
   MCDnsHost(Unset, MCHolding(Stack("static", "static"), [MCServers(<<"s4">>, 40) EXCEPT !.search = <<"d">>], MCServers(<<"s6">>, 50)),
             NewDnsIface(Stack("auto", "auto"))),
   MCDnsHost(Conf([server |-> <<"t4">>, options |-> <<"debug">>]), NewDnsIface(Stack("auto", "auto")),
             NewDnsIface(Stack("static", "static"))),
   MCDnsHost(Unset, MCHolding(Stack("static", "static"), NoDns, MCServers(<<"ll">>, 40)), NewDnsIface(Stack("nodns", "off"))),
   MCDnsHost(Unset, MCHolding(Stack("auto", "auto"), NoDns, [MCServers(<<>>, 40) EXCEPT !.search = <<"d">>]),
             NewDnsIface(Stack("off", "off")))}

(* The row of the database, empty, as ovs-vsctl and OVN made it, and with     *)
(* mappings that are neither sorted nor of different localnets.               *)
MCRow(ids, maps, config) == [row |-> [external_ids |-> WithOvn(ids, maps), other_config |-> config]]

MCRows ==
  {MCRow(Unset, <<>>, Unset),
   MCRow([a |-> "1", b |-> "1"], <<OvnMapping(1, 1), OvnMapping(2, 1)>>, [c |-> "9"]),
   MCRow(Unset, <<OvnMapping(2, 1)>>, [c |-> "9", d |-> "1"]),
   MCRow([b |-> "1"], <<OvnMapping(2, 1), OvnMapping(1, 2), OvnMapping(1, 1)>>, Unset)}

(* Profiles nmcli made: a VLAN without flags, a link with fixed speed. *)
MCAdopted ==
  [vlan |-> {[parent |-> "eth2", id |-> 200], [parent |-> "eth1", id |-> 100, flags |-> {"reorder", "gvrp"}]},
   connection |-> {[id |-> "office"]},
   ipv4 |-> {[method |-> "shared"] @@ ("address-data" :> <<Address("a")>>)},
   ipv6 |-> {[method |-> "ignore"]},
   wired |-> {[x \in {} |-> 0], ("auto-negotiate" :> FALSE) @@ [speed |-> 100, duplex |-> "half"]},
   routes |-> MCHosts \cup MCDoubledRoutes, rules |-> MCHosts, dns |-> MCDnsHosts, ovsdb |-> MCRows,
   sriov |-> {("total-vfs" :> 2) @@ [vfs |-> <<[index |-> 0, mac |-> "AA"]>>]}]

MCMaxSaid == [stack |-> 3, dns |-> 3] @@ [k \in MCKinds |-> 2]

MCSpoken ==
  [ethtool |-> {"pause-rx", "pause-autoneg", "gro", "rx-gro", "wake-up", "coalesce-rx-frames",
                "coalesce-adaptive-tx", "coalesce-sample-interval", "coalesce-rx-frames-irq", "ring-tx"}]
    @@ [ipv4 |-> DOMAIN Ipv4Config \ {"auto_gateway", "auto_routes"},
        ipv6 |-> {"enabled", "dhcp", "autoconf", "address", "token", "addr_gen_mode", "dhcp_duid", "auto_dns",
                  "auto_table_id", "dhcp_custom_hostname"}]
    @@ [bridge |-> {"ports", "group_forward_mask", "group_fwd_mask", "mac_ageing_time", "vlan_default_pvid",
                    "stp_enabled", "stp_forward_delay", "stp_max_age", "gc_timer", "group_addr"},
        bond |-> {"mode", "mac_address", "options", "port", "ports_config", "arp_interval", "arp_ip_target",
                  "arp_missed_max", "balance_slb", "miimon", "fail_over_mac", "ad_actor_system"}]
    @@ [k \in MCKinds |-> DOMAIN ConfigOf[k] \ RequiredOf[k]]
=============================================================================
