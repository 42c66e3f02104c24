---------------------------- MODULE VirtualKinds ----------------------------
(***************************************************************************)
(* The interface kinds that are little more than a block of settings: VLAN,*)
(* VXLAN, VRF, MACVLAN, MACVTAP, MACsec, HSR, IPVLAN, IP over InfiniBand   *)
(* and veth.  For each kind:                                               *)
(*   XConfig, XRequired  the fields of its configuration and the ones serde*)
(*                       insists on;                                       *)
(*   XSanitize, XApplied how a desired configuration is completed and      *)
(*                       refused (ifaces/x.rs);                            *)
(*   XSetting            the NetworkManager setting made of it, on top of  *)
(*                       the one the profile has (nm/settings/x.rs);       *)
(*   XKeys, XToValue     the D-Bus form (nm/nm_dbus/connection/x.rs);      *)
(*   NmX                 external: what NetworkManager makes of a          *)
(*                       dictionary, defaults included;                    *)
(*   XShown              the report (nispor/x.rs, completed by             *)
(*                       query_apply/x.rs with what NetworkManager knows). *)
(* Conversions between enumerations and numbers are tables.                *)
(***************************************************************************)
EXTENDS Confs

Inverted(table) == [n \in {table[v] : v \in DOMAIN table} |->
                      CHOOSE v \in DOMAIN table : table[v] = n]

-----------------------------------------------------------------------------
(* VLAN *)

VlanConfig == [base_iface |-> {"eth1", "eth2"}, id |-> {100, 200},
               protocol |-> {"802.1q", "802.1ad"},
               registration_protocol |-> {"gvrp", "mvrp", "none"},
               reorder_headers |-> BOOLEAN, loose_binding |-> BOOLEAN]
VlanRequired == {"id"}

VlanSanitize(c, isDesired) ==
  IF isDesired /\ ~Says(c, "base_iface") THEN Rejected ELSE c

VlanParentKept(c, cur) == IF Says(c, "base_iface") THEN c ELSE Only(cur, {"base_iface"}) @@ c

(* The reorder flag defaults to true unless the interface has it off. *)
VlanAppliedForgetsCurrent(c, cur) == [reorder_headers |-> TRUE] @@ c
VlanApplied(c, cur) ==
  LET d == VlanParentKept(c, cur)
  IN  IF Get(cur, "reorder_headers", TRUE) THEN d @@ [reorder_headers |-> TRUE] ELSE d

VlanVerified(c, cur) == VlanParentKept(c, cur)

VlanFlags(c, flags) ==
  LET registered ==
        CASE Get(c, "registration_protocol", "unsaid") = "gvrp" -> (flags \ {"mvrp"}) \cup {"gvrp"}
          [] Get(c, "registration_protocol", "unsaid") = "mvrp" -> (flags \ {"gvrp"}) \cup {"mvrp"}
          [] Get(c, "registration_protocol", "unsaid") = "none" -> flags \ {"gvrp", "mvrp"}
          [] OTHER -> flags
      Switched(set, field, flag) ==
        IF ~Says(c, field) THEN set
        ELSE IF c[field] THEN set \cup {flag} ELSE set \ {flag}
  IN  Switched(Switched(registered, "reorder_headers", "reorder"), "loose_binding", "loose")

(* 802.1Q is only written over a protocol the profile has already. *)
VlanSetting(c, s) ==
  LET old == s.known
      protocol ==
        CASE Get(c, "protocol", "unsaid") = "802.1ad" -> [protocol |-> "802.1ad"]
          [] Get(c, "protocol", "unsaid") = "802.1q" /\ Says(old, "protocol") -> [protocol |-> "802.1Q"]
          [] OTHER -> Only(old, {"protocol"})
  IN  WithKnown(s, Cloned([id |-> c.id, flags |-> VlanFlags(c, Get(old, "flags", {}))] @@ protocol,
                          "parent", c, "base_iface"))

VlanKeys == {"parent", "id", "protocol", "flags"}

NmVlanDefaults == [flags |-> {"reorder"}, protocol |-> "802.1Q"]
NmVlan(dict) ==
  LET d == dict @@ NmVlanDefaults
  IN  [base_iface |-> d.parent, id |-> d.id, reorder |-> "reorder" \in d.flags,
       loose |-> "loose" \in d.flags, gvrp |-> "gvrp" \in d.flags, mvrp |-> "mvrp" \in d.flags,
       protocol |-> d.protocol]

VlanShown(k) ==
  [base_iface |-> k.base_iface, id |-> k.id,
   protocol |-> IF k.protocol = "802.1Q" THEN "802.1q" ELSE "802.1ad",
   reorder_headers |-> k.reorder, loose_binding |-> k.loose,
   registration_protocol |-> IF k.gvrp THEN "gvrp" ELSE IF k.mvrp THEN "mvrp" ELSE "none"]

IsVlanChangedIdOnly(new, old) == Get(new, "id", 0) # Get(old, "id", 0)
IsVlanChanged(new, old) == Only(new, {"id", "protocol"}) # Only(old, {"id", "protocol"})

-----------------------------------------------------------------------------
(* VXLAN *)

VxlanConfig == [base_iface |-> {"", "eth1"}, id |-> {100, 200}, learning |-> BOOLEAN,
                local |-> {"192.0.2.1"}, remote |-> {"192.0.2.7", "192.0.2.8"},
                dst_port |-> {4789, 8472}]
VxlanRequired == {"id"}

VxlanSetting(c, s) ==
  Setting([id |-> c.id]
            @@ (IF Get(c, "base_iface", "") = "" THEN Unset ELSE [parent |-> c.base_iface])
            @@ Only(c, {"learning", "local", "remote"})
            @@ SetIfSaid(Unset, "destination-port", c, "dst_port"),
          Unset)

VxlanKeys == {"id", "parent", "learning", "local", "remote", "destination-port"}

NmVxlanDefaults == [learning |-> TRUE] @@ ("destination-port" :> 8472)
NmVxlan(dict) ==
  LET d == dict @@ NmVxlanDefaults
  IN  [id |-> d.id, learning |-> d.learning, dst_port |-> d["destination-port"],
       base_iface |-> Get(d, "parent", ""), local |-> Get(d, "local", ""),
       remote |-> Get(d, "remote", "")]

VxlanShown(k) == Only(k, {"id", "learning", "dst_port", "base_iface"})
                   @@ Only(k, {f \in {"local", "remote"} : k[f] # ""})

IsVxlanChanged(new, old) == Get(new, "id", 0) # Get(old, "id", 0)

-----------------------------------------------------------------------------
(* VRF; its ports are the subject of Controllers *)

VrfConfig == [table_id |-> {0, 100, 200}]

VrfApplied(c, cur) ==
  IF Get(c, "table_id", 0) # 0 THEN c
  ELSE IF Says(cur, "table_id") THEN Only(cur, {"table_id"})
  ELSE Rejected

VrfSetting(c, s) == Setting(Cloned(Unset, "table", c, "table_id"), Unset)

VrfKeys == {"table"}

NmVrf(dict) == [table_id |-> dict.table]

VrfShown(k) == k

IsVrfTableIdChanged(new, old) == Get(new, "table", 0) # Get(old, "table", 0)

-----------------------------------------------------------------------------
(* MACVLAN and MACVTAP, the same code written twice *)

MacVlanConfig == [base_iface |-> {"eth1", "eth2"}, mode |-> {"vepa", "bridge", "passthru"},
                  accept_all_mac |-> BOOLEAN]
MacVlanRequired == {"base_iface", "mode"}

MacVlanMode == [unknown |-> 0, vepa |-> 1, bridge |-> 2, private |-> 3, passthru |-> 4, source |-> 5]

MacVlanSanitize(c, isDesired) ==
  IF isDesired /\ ~Get(c, "accept_all_mac", TRUE) /\ c.mode # "passthru" THEN Rejected ELSE c

MacVlanSettings(c, tap) ==
  Setting([mode |-> MacVlanMode[c.mode], parent |-> c.base_iface, tap |-> tap]
            @@ SetIfSaid(Unset, "promiscuous", c, "accept_all_mac"),
          Unset)

MacVlanSetting(c, s) == MacVlanSettings(c, FALSE)

MacVtapSetting(c, s) == MacVlanSettings(c, TRUE)

MacVlanKeys == {"parent", "mode", "promiscuous", "tap"}

NmMacVlanDefaults == [promiscuous |-> TRUE, tap |-> FALSE]
NmMacVlan(dict) ==
  LET d == dict @@ NmMacVlanDefaults
  IN  [base_iface |-> d.parent, mode |-> d.mode, tap |-> d.tap,
       flags |-> IF d.promiscuous THEN {} ELSE {"NOPROMISC"}]

MacVlanShown(k) == [base_iface |-> k.base_iface, mode |-> Inverted(MacVlanMode)[k.mode],
                    accept_all_mac |-> "NOPROMISC" \notin k.flags]

MacVtapConfig == MacVlanConfig
MacVtapSanitize(c, isDesired) == MacVlanSanitize(c, isDesired)
MacVtapShown(k) == MacVlanShown(k)

-----------------------------------------------------------------------------
(* MACsec; keys are named after their length *)

MacSecConfig == [base_iface |-> {"eth1"}, encrypt |-> BOOLEAN, port |-> {1, 7},
                 validation |-> {"disabled", "strict"}, send_sci |-> BOOLEAN,
                 offload |-> {"off", "phy", "mac"},
                 mka_cak |-> {"cak16", "cak32", "CAK32"}, mka_ckn |-> {"ckn3", "ckn64"}]
MacSecRequired == {"base_iface", "encrypt", "port", "validation", "send_sci"}

KeyLength == [cak16 |-> 16, cak32 |-> 32, CAK32 |-> 32, ckn3 |-> 3, ckn64 |-> 64]
HiddenLength == 26  \* of "<_password_hid_by_nmstate>"
LengthOf(key) == IF key = Hidden THEN HiddenLength ELSE KeyLength[key]

MacSecSanitize(c, isDesired) ==
  IF /\ isDesired
     /\ \/ Says(c, "mka_cak") # Says(c, "mka_ckn")
        \/ Says(c, "mka_cak") /\ LengthOf(c.mka_cak) # 32
        \/ /\ Says(c, "mka_ckn")
           /\ LengthOf(c.mka_ckn) \notin {n \in 2..64 : n % 2 = 0}
  THEN Rejected ELSE c

MacSecHideSecrets(c) == IF Says(c, "mka_cak") THEN [c EXCEPT !.mka_cak = Hidden] ELSE c

MacSecValidate == [disabled |-> 0, check |-> 1, strict |-> 2]
MacSecOffload == [off |-> 0, phy |-> 1, mac |-> 2]

MacSecSetting(c, s) ==
  WithKnown(s,
    Cloned(Cloned([parent |-> c.base_iface, encrypt |-> c.encrypt, port |-> c.port,
                   validation |-> MacSecValidate[c.validation]]
                  @@ ("send-sci" :> c.send_sci)
                  @@ (IF Says(c, "offload") THEN [offload |-> MacSecOffload[c.offload]] ELSE Unset)
                  @@ s.known,
                  "mka-cak", c, "mka_cak"),
           "mka-ckn", c, "mka_ckn"))

(* The key itself is read by fill_secrets(), from a dictionary of secrets. *)
MacSecKeys == {"parent", "mode", "encrypt", "mka-cak", "mka-ckn", "port", "validation",
               "send-sci", "offload"}
MacSecToValueDropsOther(s) == IF Get(s.known, "port", 0) > 0 THEN s.known ELSE Without(s.known, {"port"})
MacSecToValue(s) == ToDict(IF Get(s.known, "port", 0) > 0 THEN s
                           ELSE WithKnown(s, Without(s.known, {"port"})))

NmMacSecDefaults == Over([encrypt |-> TRUE, port |-> 1, validation |-> 2, offload |-> 0],
                         [k \in {"send-sci"} |-> TRUE])
NmMacSec(dict) ==
  LET d == dict @@ NmMacSecDefaults
  IN  [base_iface |-> d.parent, encrypt |-> d.encrypt, port |-> d.port,
       validation |-> d.validation, send_sci |-> d["send-sci"], offload |-> d.offload,
       mka_cak |-> Get(d, "mka-cak", ""), mka_ckn |-> Get(d, "mka-ckn", "")]

(* nispor knows no key; update_macsec() takes both from NetworkManager. *)
MacSecShown(k) ==
  [base_iface |-> k.base_iface, encrypt |-> k.encrypt, port |-> k.port,
   validation |-> Inverted(MacSecValidate)[k.validation], send_sci |-> k.send_sci,
   offload |-> Inverted(MacSecOffload)[k.offload]]
MacSecUpdate(c, k) == Only(k, {f \in {"mka_cak", "mka_ckn"} : k[f] # ""}) @@ c

-----------------------------------------------------------------------------
(* HSR; the supervision address is named by its last byte *)

HsrConfig == [port1 |-> {"eth1"}, port2 |-> {"eth2", "eth3"}, multicast_spec |-> {0, 40},
              protocol |-> {"hsr", "prp"}, supervision_address |-> {0, 99}]
HsrRequired == {"port1", "port2", "multicast_spec", "protocol"}

HsrVerifiedIgnoresProtocol(c) == Without(c, {"supervision_address", "protocol"})
HsrVerified(c) == Without(c, {"supervision_address"})

HsrSetting(c, s) ==
  WithKnown(s, [port1 |-> c.port1, port2 |-> c.port2, prp |-> c.protocol = "prp"]
                 @@ ("multicast-spec" :> c.multicast_spec))

HsrKeys == {"port1", "port2", "multicast-spec", "prp"}
HsrToValue(s) == ToDict(IF Get(s.known, "multicast-spec", 0) > 0 THEN s
                        ELSE WithKnown(s, Without(s.known, {"multicast-spec"})))

NmHsrDefaults == Over([prp |-> FALSE], [k \in {"multicast-spec"} |-> 0])
NmHsr(dict) ==
  LET d == dict @@ NmHsrDefaults
  IN  [port1 |-> d.port1, port2 |-> d.port2, supervision_addr |-> d["multicast-spec"],
       protocol |-> IF d.prp THEN "prp" ELSE "hsr"]

HsrShown(k) == [port1 |-> k.port1, port2 |-> k.port2, protocol |-> k.protocol,
                supervision_address |-> k.supervision_addr,
                multicast_spec |-> k.supervision_addr % 256]

-----------------------------------------------------------------------------
(* IPVLAN *)

IpVlanConfig == [base_iface |-> {"eth1", "eth2"}, mode |-> {"l2", "l3", "l3s"},
                 private |-> BOOLEAN, vepa |-> BOOLEAN]

IpVlanSanitize(c, isDesired) ==
  IF isDesired /\ Get(c, "private", FALSE) /\ Get(c, "vepa", FALSE) THEN Rejected ELSE c

IpVlanMode == [l2 |-> 1, l3 |-> 2, l3s |-> 3]

IpVlanSetting(c, s) ==
  WithKnown(s, Cloned(Cloned(Cloned([mode |-> IpVlanMode[Get(c, "mode", "l3")]],
                                    "parent", c, "base_iface"),
                             "private", c, "private"),
                      "vepa", c, "vepa"))

IpVlanKeys == {"parent", "mode", "private", "vepa"}

NmIpVlanDefaults == [private |-> FALSE, vepa |-> FALSE]
NmIpVlan(dict) ==
  LET d == dict @@ NmIpVlanDefaults
  IN  [base_iface |-> d.parent, mode |-> d.mode,
       flags |-> {f \in {"private", "vepa"} : d[f]}]

IpVlanShown(k) == [base_iface |-> k.base_iface, mode |-> Inverted(IpVlanMode)[k.mode],
                   private |-> "private" \in k.flags, vepa |-> "vepa" \in k.flags]

IsIpVlanChanged(new, old) == Only(new, IpVlanKeys) # Only(old, IpVlanKeys)

-----------------------------------------------------------------------------
(* IP over InfiniBand *)

NoPkey == 65535  \* u16::MAX: not a P-key, this is the base interface

InfiniBandConfig == [base_iface |-> {"", "ib0"}, pkey |-> {7, NoPkey},
                     mode |-> {"datagram", "connected"}, mtu |-> {2044, 65520}]
InfiniBandRequired == {"mode", "pkey"}

IbSetting(c, s) ==
  WithKnown(s, [mode |-> c.mode]
                 @@ (IF Get(c, "base_iface", "") = "" THEN Unset ELSE [parent |-> c.base_iface])
                 @@ (IF c.pkey = NoPkey THEN Unset ELSE [pkey |-> c.pkey])
                 @@ SetIfSaid(Only(s.known, {"mtu"}), "mtu", c, "mtu"))

IbKeys == {"parent", "pkey", "mode", "mtu"}

NmIb(dict) == [base_iface |-> Get(dict, "parent", ""), mode |-> dict.mode,
               pkey |-> Get(dict, "pkey", NoPkey), mtu |-> Get(dict, "mtu", 2044)]

IbShown(k) == IF k.base_iface = "" THEN Without(k, {"base_iface"}) ELSE k

-----------------------------------------------------------------------------
(* veth; the profile of the peer is the subject of Profiles *)

VethConfig == [peer |-> {"veth1", "veth2"}]

VethSetting(c, s) == Setting([peer |-> c.peer], Unset)

VethKeys == {"peer"}

NmVeth(dict) == [peer |-> dict.peer]

VethShown(k) == k

IsVethPeerChanged(new, old) == Get(new, "peer", "") # Get(old, "peer", "")
=============================================================================
