----------------------------- MODULE OvsSection -----------------------------
(***************************************************************************)
(* The settings of an Open vSwitch bridge and of its ports, laid out as in *)
(* BridgeSection.  A port is a profile of its own between the bridge and   *)
(* the interfaces; a bond is a port with several.  `ifaces` is what the    *)
(* profiles of the interfaces hold: the port each of them belongs to.      *)
(*                                                                         *)
(* eth1 and eth2 are interfaces of the system, br0 and patch0 of Open      *)
(* vSwitch, patch0 being a patch.  A desired state says the bridge and     *)
(* none of them.                                                           *)
(***************************************************************************)
EXTENDS BridgeSection, OvsDbSection

OvsNames == <<"bond1", "br0", "eth1", "eth2", "patch0">>   \* in their order
OvsOwnIfaces == {"br0", "patch0"}
OvsPatches == {"patch0"}

InOrder(names) == SelectSeq(OvsNames, LAMBDA n : n \in names)

(* OvsBridgeOptions *)
OvsBridgeOptions ==
  [stp |-> BOOLEAN, rstp |-> BOOLEAN, mcast_snooping_enable |-> BOOLEAN,
   fail_mode |-> {"", "secure"}, datapath |-> {"", "netdev"}]

OvsBridgeBondMode == {"active-backup", "balance-slb", "balance-tcp", "lacp"}

(* OvsBridgePortConfig, OvsBridgeBondConfig *)
OvsPort(name) == [name |-> name]
OvsBond(members, conf) == [name |-> "bond1", bond |-> [port |-> members] @@ conf]

OvsPortLists ==
  {<<>>, <<OvsPort("patch0"), OvsPort("br0")>>, <<OvsPort("eth2"), OvsPort("eth1")>>,
   <<OvsPort("eth1") @@ [vlan |-> AccessVlan(10)]>>,
   <<OvsPort("eth1") @@ [vlan |-> NativeVlan(<<<<2, 4>>>>, 10)], OvsPort("br0") @@ [vlan |-> TrunkVlan(<<>>)]>>,
   <<OvsPort("eth1") @@ [vlan |-> TrunkVlan(<<<<3, 4>>, <<2, 2>>>>)]>>, <<OvsPort("eth1") @@ [vlan |-> TrunkVlan(<<<<2, 4>>>>)]>>,
   <<OvsPort("eth1") @@ [vlan |-> Unset]>>, <<OvsPort("eth1") @@ [vlan |-> [tag |-> 20]]>>,
   <<OvsPort("eth1") @@ [vlan |-> [mode |-> "trunk", tag |-> 20]]>>,
   <<OvsBond(<<"eth2", "eth1">>, [bond_updelay |-> 0])>>,
   <<OvsBond(<<"eth1">>, [bond_updelay |-> 50])>>,
   <<OvsBond(<<"eth1", "eth2">>, [bond_updelay |-> 50, ovsdb |-> Unset]), OvsPort("patch0")>>,
   <<OvsBond(<<"eth1", "eth2">>, [bond_downdelay |-> 50, ovsdb |-> [other_config |-> [d |-> "1"]]])>>}
    \cup {<<OvsBond(<<"eth2", "eth1">>, [mode |-> m])>> : m \in OvsBridgeBondMode}

OvsBridgeConfig ==
  [allow_extra_patch_ports |-> BOOLEAN, ports |-> OvsPortLists,
   ovsdb |-> {Unset, [external_ids |-> [a |-> "2"]],
              [external_ids |-> [a |-> "2", b |-> "1"], other_config |-> [c |-> NoValue]]}]
    @@ OvsBridgeOptions

-----------------------------------------------------------------------------
(* OvsBridgeInterface *)

OvsMembers(port) == IF Says(port, "bond") THEN Range(port.bond.port) ELSE {port.name}

(* ports(): the interfaces, of bonds too. *)
OvsIfaces(c) == UNION {OvsMembers(Get(c, "ports", <<>>)[i]) : i \in DOMAIN Get(c, "ports", <<>>)}

(* sort_ports() *)
OvsSortPorts(ports) ==
  LET Sorted(p) == IF Says(p, "bond") THEN [p EXCEPT !.bond.port = InOrder(Range(@))] ELSE p
      At(name) == CHOOSE i \in DOMAIN ports : ports[i].name = name
      names == InOrder({ports[i].name : i \in DOMAIN ports})
  IN  [i \in DOMAIN names |-> Sorted(ports[At(names[i])])]

(* sanitize() *)
OvsBridgeSanitize(c, isDesired) ==
  LET ports == Get(c, "ports", <<>>)
  IN  IF isDesired /\ \E i \in DOMAIN ports : BridgeVlanIsInvalid(Get(ports[i], "vlan", Unset)) THEN Rejected
      ELSE IF Says(c, "ports") THEN [c EXCEPT !.ports = OvsSortPorts(ports)]
      ELSE c

(* create_ovs_iface_for_empty_ports(): a bridge without ports has one of its name. *)
OvsApplied(c, cur) ==
  IF OvsIfaces(c @@ cur) = {} THEN [ports |-> <<OvsPort("br0")>>] @@ c ELSE c

(* ... in for_verify if there was a list, and what                             *)
(* process_allow_extra_ovs_patch_ports_for_verify() takes out of both.         *)
OvsAllowsExtra(c) == Get(c, "allow_extra_patch_ports", FALSE)

OvsVerified(c, cur) ==
  LET said == IF Says(c, "ports") THEN OvsApplied(c, cur) ELSE c
  IN  OvsBridgeSanitize(Without(said, IF OvsAllowsExtra(c) THEN {"allow_extra_patch_ports"} ELSE {}), FALSE)

(* remove_port() of the patch ports that are not desired, if they are allowed. *)
OvsWithoutExtra(c, cur) ==
  IF OvsAllowsExtra(c) /\ Says(c, "ports") /\ Says(cur, "ports")
  THEN [cur EXCEPT !.ports = SelectSeq(@, LAMBDA p : p.name \notin OvsPatches \ OvsIfaces(c))]
  ELSE cur

-----------------------------------------------------------------------------
(* The settings *)

(* apply_iface_ovsdb_conf(): both columns anew. *)
WithOvsDb(s, conf) ==
  LET Data(column) == LET said == Get(conf, column, Unset) IN Only(said, {k \in DOMAIN said : said[k] # NoValue})
  IN  [column \in {x \in Columns : Data(x) # Unset \/ Says(s, x)} |-> Data(column)] @@ s

(* gen_nm_ovs_br_setting(): an option that is not said is reset with those    *)
(* that are, unless it is a name.                                             *)
OvsKeyOf == [stp |-> "stp-enable", rstp |-> "rstp-enable", mcast_snooping_enable |-> "mcast-snooping-enable"]
OvsNameKeyOf == [fail_mode |-> "fail-mode", datapath |-> "datapath-type"]

OvsOptionsSaid(c) == DOMAIN c \cap DOMAIN OvsBridgeOptions

OvsOptionKeys(c, old) ==
  LET flags == TableOf({<<OvsKeyOf[f], c[f]>> : f \in DOMAIN c \cap DOMAIN OvsKeyOf})
      named == {f \in DOMAIN c \cap DOMAIN OvsNameKeyOf : c[f] # ""}
      reset == {OvsKeyOf[f] : f \in DOMAIN OvsKeyOf}
  IN  IF OvsOptionsSaid(c) = {} THEN old
      ELSE flags @@ TableOf({<<OvsNameKeyOf[f], c[f]>> : f \in named}) @@ Without(old, reset)

(* create_ovs_port_nm_conn() *)
OvsBondKeys(bond) ==
  LET mode == Get(bond, "mode", "")
  IN  (CASE mode = "" -> Unset
         [] mode = "lacp" -> [lacp |-> "active"]
         [] mode = "balance-tcp" -> [lacp |-> "active"] @@ ("bond-mode" :> mode)
         [] OTHER -> [lacp |-> "off"] @@ ("bond-mode" :> mode))
        @@ SetIfSaid(SetIfSaid(Unset, "bond-updelay", bond, "bond_updelay"), "bond-downdelay", bond, "bond_downdelay")

OvsPortSetting(port, old) ==
  LET bond == Get(port, "bond", Unset)
      vlan == Get(port, "vlan", Unset)
      vlanKeys == SetIfSaid(SetIfSaid(SetIfSaid(Unset, "tag", vlan, "tag"), "vlan-mode", vlan, "mode"),
                            "trunks", vlan, "trunk_tags")
      base == IF Says(bond, "ovsdb") THEN WithOvsDb(old, bond.ovsdb) ELSE old
  IN  OvsBondKeys(bond) @@ vlanKeys @@ base

(* get_ovs_port_name() *)
OvsPortOf(c, iface) == LET i == CHOOSE i \in DOMAIN c.ports : iface \in OvsMembers(c.ports[i]) IN c.ports[i].name

(* Only the interfaces that join or leave the bridge are changed with it       *)
(* (get_changed_ports()).  Those of Open vSwitch that leave it are removed     *)
(* with their ports first (delete_ifaces()), the ports of the others after     *)
(* the new profiles were made (delete_orphan_ovs_ports()).                     *)
OvsPortProfiles(c, old, cur) ==
  LET was == OvsIfaces(OvsWithoutExtra(c, cur))
      ifaces == Get(old, "ifaces", Unset)
      left == was \ OvsIfaces(c)
      PortsOf(names) == {ifaces[i] : i \in names \cap DOMAIN ifaces}
      kept == Without(old, PortsOf(left \cap OvsOwnIfaces) \cup {"ifaces"})
      names == {c.ports[i].name : i \in DOMAIN c.ports}
      Conf(name) == c.ports[CHOOSE i \in DOMAIN c.ports : c.ports[i].name = name]
  IN  [p \in names |-> OvsPortSetting(Conf(p), Get(kept, p, Unset))]
        @@ Without(kept, PortsOf(left))
        @@ [ifaces |-> [i \in OvsIfaces(c) \ was |-> OvsPortOf(c, i)] @@ Without(ifaces, left)]

OvsPortKeys == {"ifaces"} \cup Range(OvsNames)

OvsBridgeSetting(c, s, cur) ==
  LET ports == Only(s.known, OvsPortKeys)
      own == OvsOptionKeys(c, Without(s.known, OvsPortKeys))
  IN  WithKnown(s, (IF Says(c, "ports") THEN OvsPortProfiles(c, ports, cur) ELSE ports)
                     @@ IF Says(c, "ovsdb") THEN WithOvsDb(own, c.ovsdb) ELSE own)

OvsBridgeKeys ==
  OvsPortKeys \cup Columns \cup {OvsKeyOf[f] : f \in DOMAIN OvsKeyOf} \cup {OvsNameKeyOf[f] : f \in DOMAIN OvsNameKeyOf}

-----------------------------------------------------------------------------
(* NetworkManager and the database, external: a port is there when it has an *)
(* interface, the tag 0 is none.                                             *)

NmOvsBridgeDefaults == [k \in {OvsKeyOf[f] : f \in DOMAIN OvsKeyOf} |-> FALSE]

NmOvsPort(p, ifaces) ==
  LET trunks == Get(p, "trunks", <<>>)
  IN  [ifaces |-> ifaces, vlan_mode |-> Get(p, "vlan-mode", ""), tag |-> Get(p, "tag", 0),
       trunks |-> UNION {trunks[i][1] .. trunks[i][2] : i \in DOMAIN trunks},
       bond_mode |-> Get(p, "bond-mode", ""), lacp |-> Get(p, "lacp", ""),
       bond_updelay |-> Get(p, "bond-updelay", 0), bond_downdelay |-> Get(p, "bond-downdelay", 0)]
        @@ [column \in Columns |-> Get(p, column, Unset)]

NmOvsBridge(dict) ==
  LET Of(port) == {i \in DOMAIN dict.ifaces : dict.ifaces[i] = port}
  IN  [p \in {q \in DOMAIN dict \cap Range(OvsNames) : Of(q) # {}} |-> NmOvsPort(dict[p], Of(p))]
        @@ Only(dict, OvsBridgeKeys \ OvsPortKeys) @@ NmOvsBridgeDefaults
        @@ [column \in Columns |-> Unset] @@ ("fail-mode" :> "") @@ ("datapath-type" :> "")

-----------------------------------------------------------------------------
(* ovsdb_retrieve() *)

(* compress_vlan_trunk_tags(), of tags the database sorts. *)
OvsCompressTags(tags) ==
  FoldList(LAMBDA ranges, tag :
             LET at == {i \in DOMAIN ranges : tag \in {ranges[i][1] - 1, ranges[i][2] + 1}}
             IN  IF at = {} THEN Append(ranges, <<tag, tag>>)
                 ELSE [ranges EXCEPT ![Min(at)] = <<Min({@[1], tag}), Max({@[2], tag})>>],
           <<>>, tags)

(* parse_ovs_vlan_conf() *)
OvsVlanShown(p) ==
  [mode |-> p.vlan_mode, tag |-> p.tag]
    @@ (IF p.vlan_mode = "trunk" THEN [trunk_tags |-> OvsCompressTags(SortedList(p.trunks, <))] ELSE Unset)
    @@ (IF p.vlan_mode = "trunk" /\ p.tag # 0 THEN [enable_native |-> TRUE] ELSE Unset)

(* parse_ovs_bond_conf() *)
OvsBondShown(p) ==
  LET delays == {d \in {"bond_updelay", "bond_downdelay"} : p[d] # 0}
  IN  [port |-> InOrder(p.ifaces)] @@ Only(p, delays)
        @@ (IF p.bond_mode # "" THEN [mode |-> p.bond_mode]
            ELSE IF p.lacp = "active" THEN [mode |-> "lacp"]
            ELSE Unset)
        @@ (IF \A column \in Columns : p[column] = Unset THEN Unset ELSE [ovsdb |-> Only(p, Columns)])

(* parse_ovs_bridge_conf(), parse_ovs_bridge_options() *)
OvsBridgeShown(k) ==
  LET there == Range(OvsNames) \cap DOMAIN k
      bonds == {p \in there : Cardinality(k[p].ifaces) > 1}
      names == InOrder(there \ bonds) \o InOrder(bonds)
      Port(p) == OvsPort(p) @@ (IF p \in bonds THEN [bond |-> OvsBondShown(k[p])] ELSE Unset)
                   @@ (IF k[p].vlan_mode = "" THEN Unset ELSE [vlan |-> OvsVlanShown(k[p])])
  IN  [ports |-> [i \in DOMAIN names |-> Port(names[i])], ovsdb |-> Only(k, Columns)]
        @@ [f \in DOMAIN OvsKeyOf |-> k[OvsKeyOf[f]]] @@ [f \in DOMAIN OvsNameKeyOf |-> k[OvsNameKeyOf[f]]]

(* sanitize_current_for_verify() *)
OvsCurrentForVerify(cur) ==
  LET Full(bond) == bond @@ [ovsdb |-> [column \in Columns |-> Unset]]
  IN  [cur EXCEPT !.ports = [i \in DOMAIN @ |-> IF Says(@[i], "bond") THEN [@[i] EXCEPT !.bond = Full(@)] ELSE @[i]]]

-----------------------------------------------------------------------------
(* get_json_value_difference(), gen_diff_json_value() and gen_revert_state() *)
(* of the objects inside: a key that is to be removed agrees with anything.  *)

OvsDbConfAgrees(conf, cur) ==
  \A column \in DOMAIN conf :
    \A k \in {j \in DOMAIN conf[column] : conf[column][j] # NoValue} : Get(cur[column], k, NoValue) = conf[column][k]

OvsPortAgrees(port, cur) ==
  /\ port.name = cur.name
  /\ Says(port, "vlan") => Says(cur, "vlan") /\ Agrees(port.vlan, cur.vlan)
  /\ Says(port, "bond") => /\ Says(cur, "bond")
                           /\ Agrees(Without(port.bond, {"ovsdb"}), cur.bond)
                           /\ Says(port.bond, "ovsdb") => OvsDbConfAgrees(port.bond.ovsdb, cur.bond.ovsdb)

OvsBridgeAgrees(c, cur) ==
  /\ Agrees(Without(c, {"ports", "ovsdb"}), cur)
  /\ Says(c, "ovsdb") => OvsDbConfAgrees(c.ovsdb, cur.ovsdb)
  /\ Says(c, "ports") => /\ Len(c.ports) = Len(cur.ports)
                         /\ \A i \in DOMAIN c.ports : OvsPortAgrees(c.ports[i], cur.ports[i])

OvsBridgeDiff(c, cur) ==
  LET changed == [column \in DOMAIN Get(c, "ovsdb", Unset) |-> Diff(c.ovsdb[column], Get(cur.ovsdb, column, Unset))]
      some == Only(changed, {column \in DOMAIN changed : changed[column] # Unset})
  IN  Diff(Without(c, {"ovsdb"}), cur) @@ IF some = Unset THEN Unset ELSE [ovsdb |-> some]

OvsBridgeRevert(c, cur) ==
  RevertOf(Without(c, {"ovsdb"}), cur)
    @@ IF ~Says(c, "ovsdb") THEN Unset
       ELSE [ovsdb |-> [column \in DOMAIN c.ovsdb |-> RevertOf(c.ovsdb[column], cur.ovsdb[column])]]
=============================================================================
