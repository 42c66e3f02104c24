------------------------------ MODULE IpSection ------------------------------
(***************************************************************************)
(* The [ipv4] and the [ipv6] section of a profile, and the stack they      *)
(* belong to, laid out as in VirtualKinds.  The two families share their   *)
(* definitions; `v6` tells them apart.  An address is a record of its name *)
(* and, when it was leased, of its life time.                              *)
(*                                                                         *)
(* `enabled` is a plain Boolean of InterfaceIpv4 and InterfaceIpv6 and     *)
(* `enabled_defined` says whether it was said; here an `enabled` that was  *)
(* not said comes with the field `inherited`.                              *)
(***************************************************************************)
EXTENDS BaseSections

Address(name) == [ip |-> name]
Lease == [ip |-> "lease", life |-> "600sec"]
LinkLocal == Address("fe80")
OtherFamily == Address("other")     \* an address, or a prefix length, of the other family

IpIndex == [fe80 |-> 0, a |-> 1, b |-> 2, lease |-> 3, other |-> 4]

Dhcpv4ClientId == {"ll", "iaid+duid", "hex"}
Dhcpv6Duid == {"llt", "en", "ll", "uuid", "hex"}
Ipv6AddrGenMode == {"eui64", "stable-privacy"}
WaitIp == {"any", "ipv4", "ipv6", "ipv4+ipv6"}

Ipv4Config ==
  [enabled |-> BOOLEAN, dhcp |-> BOOLEAN,
   address |-> {<<>>, <<Address("a")>>, <<Address("b"), Address("a"), Address("b")>>, <<Lease>>, <<OtherFamily>>},
   dhcp_client_id |-> Dhcpv4ClientId, auto_dns |-> BOOLEAN, auto_gateway |-> BOOLEAN,
   auto_routes |-> BOOLEAN, auto_table_id |-> {0, 500}, allow_extra_address |-> BOOLEAN,
   auto_route_metric |-> {50}, dhcp_send_hostname |-> BOOLEAN,
   dhcp_custom_hostname |-> {"", "host", "host.example"}]

Ipv6Config ==
  [autoconf |-> BOOLEAN, dhcp_duid |-> Dhcpv6Duid, addr_gen_mode |-> Ipv6AddrGenMode,
   token |-> {"", "::", "::fac1", "::0.0.250.193", "2001::1"},
   address |-> {<<LinkLocal>>, <<LinkLocal, Address("a")>>} \cup Ipv4Config.address]
    @@ Without(Ipv4Config, {"dhcp_client_id"})

IsAutoAddress(a) == Says(a, "life")

(* InterfaceIpv4::is_auto(), InterfaceIpv6::is_auto() *)
IpIsAuto(c) == Get(c, "enabled", FALSE) /\ (Get(c, "dhcp", FALSE) \/ Get(c, "autoconf", FALSE))

Forever(addrs) == [i \in DOMAIN addrs |-> Address(addrs[i].ip)]

(* is_ip_addrs_none_or_all_auto() *)
NoneOrAllAuto(c) ==
  \A i \in DOMAIN Get(c, "address", <<>>) : IsAutoAddress(c.address[i]) \/ c.address[i] = LinkLocal

(* merge_ip(): a lease becomes a static address when DHCP is switched off. *)
IpMerged(c, cur) ==
  IF cur = Unset THEN c
  ELSE LET on == Get(c, "enabled", cur.enabled)
           merged == (IF Says(c, "enabled") THEN c ELSE [enabled |-> on, inherited |-> TRUE] @@ c)
                       @@ IF on THEN Only(cur, {"dhcp", "autoconf"}) ELSE Unset
           leased == IpIsAuto(cur) /\ Says(cur, "address") /\ on /\ ~IpIsAuto(merged) /\ NoneOrAllAuto(merged)
       IN  IF leased THEN [address |-> Forever(cur.address)] @@ merged ELSE merged

AutoSwitches == {"auto_dns", "auto_gateway", "auto_routes"}
AutoOptions == AutoSwitches \cup {"auto_table_id", "auto_route_metric", "dhcp_client_id",
                                  "dhcp_send_hostname", "dhcp_custom_hostname"}

(* sanitize_ipv6_token_to_string() *)
TokenSanitize(token) ==
  CASE token = "" -> "::" [] token = "::0.0.250.193" -> "::fac1" [] token = "2001::1" -> Rejected [] OTHER -> token

(* sanitize() of both families *)
IpSanitize(v6, c, isDesired) ==
  LET on == Get(c, "enabled", FALSE)
      Stays(a) == ~IsAutoAddress(a) /\ ~(v6 /\ a = LinkLocal)
      invalid == \/ \E i \in DOMAIN Get(c, "address", <<>>) : c.address[i] = OtherFamily
                 \/ /\ v6 /\ on /\ ~Get(c, "autoconf", TRUE) /\ Get(c, "token", "") \notin {"", "::"}
                 \/ Says(c, "token") /\ TokenSanitize(c.token) = Rejected
      dropped == (IF on THEN {} ELSE {"dhcp", "autoconf", "address"})
                   \cup (IF IpIsAuto(c) THEN {} ELSE AutoOptions)
                   \cup (IF Get(c, "dhcp_send_hostname", TRUE) THEN {} ELSE {"dhcp_custom_hostname"})
  IN  IF isDesired /\ invalid THEN Rejected
      ELSE (IF on /\ Says(c, "address") THEN [address |-> Forever(SelectSeq(c.address, Stays))] ELSE Unset)
             @@ (IF Says(c, "token") THEN [token |-> TokenSanitize(c.token)] ELSE Unset)
             @@ Without(c, dropped)
             @@ IF IpIsAuto(c) THEN [f \in AutoSwitches |-> TRUE] ELSE Unset

Ipv4Sanitize(c, isDesired) == IpSanitize(FALSE, c, isDesired)
Ipv6Sanitize(c, isDesired) == IpSanitize(TRUE, c, isDesired)

(* sort_unstable() and dedup() *)
IpSorted(addrs) == Dedup(SortSeq(addrs, LAMBDA x, y : IpIndex[x.ip] < IpIndex[y.ip]))

(* The comparison of verify(): sanitize_desired_for_verify(), then             *)
(* sanitize_current_for_verify(), then process_allow_extra_address().          *)
IpVerified(v6, c, cur) ==
  LET d == IpSanitize(v6, IpMerged(c, cur), FALSE)
      unsure == ~v6 /\ Says(d, "address") /\ d.address = <<>>
  IN  (IF Says(d, "address") THEN [address |-> IpSorted(d.address)] ELSE Unset)
        @@ Without(d, IF unsure THEN {"enabled"} ELSE {})

IpCurrentForVerify(v6, cur) ==
  LET off == IF v6 THEN [dhcp |-> FALSE, autoconf |-> FALSE, address |-> <<>>] ELSE [dhcp |-> FALSE, address |-> <<>>]
  IN  (IF Says(cur, "address") THEN [address |-> IpSorted(cur.address)] ELSE Unset) @@ cur
        @@ [dhcp_custom_hostname |-> ""] @@ (IF v6 THEN [token |-> "::"] ELSE Unset)
        @@ IF v6 /\ ~cur.enabled THEN Unset ELSE off

Ipv4CurrentForVerify(cur) == IpCurrentForVerify(FALSE, cur)
Ipv6CurrentForVerify(cur) == IpCurrentForVerify(TRUE, cur)

IpAgrees(d, cur) ==
  IF ~(Says(d, "address") /\ Says(cur, "address")) THEN Agrees(d, cur)
  ELSE LET Wanted(a) == a \in Range(d.address)
           found == IF Get(d, "allow_extra_address", TRUE)
                    THEN [cur EXCEPT !.address = SelectSeq(@, Wanted)] ELSE cur
       IN  Agrees(Without(d, {"allow_extra_address"}), found)

-----------------------------------------------------------------------------
(* gen_nm_ipv4_setting() and gen_nm_ipv6_setting(), without the routes, rules *)
(* and name servers, and fix_ip_dhcp_timeout()                                *)

IpMethod(v6, c, addrs) ==
  LET dhcp == Get(c, "dhcp", FALSE)
      autoconf == Get(c, "autoconf", FALSE)
  IN  IF ~Get(c, "enabled", FALSE) THEN "disabled"
      ELSE IF ~v6 THEN IF dhcp THEN "auto" ELSE IF addrs # <<>> THEN "manual" ELSE "disabled"
      ELSE IF dhcp THEN IF autoconf THEN "auto" ELSE "dhcp"
      ELSE IF autoconf THEN Rejected
      ELSE IF addrs # <<>> THEN "manual" ELSE "link-local"

AutoKeyOf == [auto_dns |-> "ignore-auto-dns", auto_gateway |-> "never-default", auto_routes |-> "ignore-auto-routes"]

(* apply_dhcp_opts() *)
DhcpOpts(c, known) ==
  SetIfSaid(TableOf({<<AutoKeyOf[f], ~c[f]>> : f \in AutoSwitches \cap DOMAIN c}), "route-table", c, "auto_table_id") @@ known

(* The host name sent with a DHCP request; one with a dot is an FQDN in IPv4. *)
DhcpHostname(v6, c, known) ==
  LET v == Get(c, "dhcp_custom_hostname", "")
      key == IF v = "host.example" /\ ~v6 THEN "dhcp-fqdn" ELSE "dhcp-hostname"
  IN  IF ~Get(c, "dhcp_send_hostname", TRUE) THEN ("dhcp-send-hostname" :> FALSE) @@ known
      ELSE ("dhcp-send-hostname" :> TRUE)
             @@ IF ~Says(c, "dhcp_custom_hostname") THEN known
                ELSE (IF v = "" THEN Unset ELSE key :> v) @@ Without(known, {"dhcp-fqdn", "dhcp-hostname"})

DhcpClientId(v6, c) ==
  IF v6 THEN "dhcp-duid" :> Get(c, "dhcp_duid", "ll")
  ELSE LET id == Get(c, "dhcp_client_id", "ll")
       IN  "dhcp-client-id" :> IF id = "ll" THEN "mac" ELSE IF id = "iaid+duid" THEN "duid" ELSE id

IpToken(v6, c, known) ==
  IF ~v6 THEN known
  ELSE IF ~IpIsAuto(c) \/ Get(c, "token", "unsaid") \in {"", "::"} THEN Without(known, {"token"})
  ELSE SetIfSaid(known, "token", c, "token")

IpSetting(v6, c, s) ==
  LET addrs == SelectSeq(Get(c, "address", <<>>), LAMBDA a : ~IsAutoAddress(a))
      auto == IF ~IpIsAuto(c) THEN s.known
              ELSE DhcpClientId(v6, c)
                     @@ (IF v6 THEN ("ra-timeout" :> "max") @@ ("dhcp-iaid" :> "mac") ELSE Unset)
                     @@ DhcpHostname(v6, c, DhcpOpts(c, Cloned(s.known, "route-metric", c, "auto_route_metric")))
      mode == IF ~v6 THEN Unset
              ELSE "addr-gen-mode" :> IF Get(c, "addr_gen_mode", "eui64") = "eui64" THEN 0 ELSE 1
  IN  IF IpMethod(v6, c, addrs) = Rejected THEN Rejected
      ELSE WithKnown(s, [method |-> IpMethod(v6, c, addrs)] @@ ("address-data" :> addrs) @@ ("dhcp-timeout" :> "max")
                          @@ mode @@ IpToken(v6, c, auto))

Ipv4Setting(c, s) == IpSetting(FALSE, c, s)
Ipv6Setting(c, s) == IpSetting(TRUE, c, s)

IpKeys == {"method", "address-data", "ignore-auto-dns", "never-default", "ignore-auto-routes", "route-table",
           "dhcp-client-id", "dhcp-timeout", "route-metric", "ra-timeout", "addr-gen-mode", "dhcp-duid",
           "dhcp-iaid", "token", "dhcp-send-hostname", "dhcp-fqdn", "dhcp-hostname"}

-----------------------------------------------------------------------------
(* NetworkManager and the kernel, external: a DHCP server or a router gives a *)
(* lease as soon as it is asked, an IPv6 stack has a link-local address, and  *)
(* the applied connection leaves the default values out.                      *)

NmIpDefaults == ("ignore-auto-dns" :> FALSE) @@ ("never-default" :> FALSE) @@ ("ignore-auto-routes" :> FALSE)
                  @@ ("route-table" :> 0) @@ ("dhcp-send-hostname" :> TRUE)

NmIp(v6, dict) ==
  LET addrs == CASE dict.method = "disabled" -> <<>>
                 [] dict.method \in {"manual", "shared"} -> Get(dict, "address-data", <<>>)
                 [] dict.method = "link-local" -> <<>>
                 [] OTHER -> Append(Get(dict, "address-data", <<>>), Lease)
      applied == {f \in DOMAIN dict : f \notin DOMAIN NmIpDefaults \/ dict[f] # NmIpDefaults[f]}
  IN  Only(dict, (applied \cap IpKeys) \ {"address-data", "dhcp-timeout", "ra-timeout", "dhcp-iaid"})
        @@ [addrs |-> IF v6 /\ dict.method # "disabled" THEN <<LinkLocal>> \o addrs ELSE addrs]

-----------------------------------------------------------------------------
(* np_ipv4_to_nmstate(), np_ipv6_to_nmstate() *)
NpIpShown(v6, k) ==
  LET dynamic == \E i \in DOMAIN k.addrs : IsAutoAddress(k.addrs[i])
  IN  IF k.addrs = <<>> THEN [enabled |-> FALSE]
      ELSE [enabled |-> TRUE, address |-> k.addrs] @@ (IF v6 THEN [token |-> "::"] ELSE Unset)
             @@ IF dynamic THEN (IF v6 THEN "autoconf" ELSE "dhcp") :> TRUE ELSE Unset

(* nm_ip_setting_to_nmstate4(), nm_ip_setting_to_nmstate6(), parse_dhcp_opts() *)
NmIpShown(v6, k) ==
  LET m == k.method
      dhcp == m \in {"auto", "dhcp"}
      sends == Get(k, "dhcp-send-hostname", TRUE)
      switches == [f \in AutoSwitches |-> ~Get(k, AutoKeyOf[f], FALSE)] @@ [auto_table_id |-> Get(k, "route-table", 0)]
      id == Get(k, "dhcp-client-id", "unset")
      ids == IF v6 THEN SetIfSaid(Unset, "dhcp_duid", k, "dhcp-duid")
             ELSE IF ~dhcp \/ id = "unset" THEN Unset
             ELSE [dhcp_client_id |-> IF id = "mac" THEN "ll" ELSE IF id = "duid" THEN "iaid+duid" ELSE id]
      name == IF Says(k, "dhcp-fqdn") /\ ~v6 THEN [dhcp_custom_hostname |-> k["dhcp-fqdn"]]
              ELSE SetIfSaid(Unset, "dhcp_custom_hostname", k, "dhcp-hostname")
      mode == [addr_gen_mode |-> IF Get(k, "addr-gen-mode", 1) \in {0, 2} THEN "eui64" ELSE "stable-privacy"]
  IN  IF m = "ignore" THEN Unset
      ELSE [enabled |-> m # "disabled", dhcp |-> dhcp] @@ ids @@ SetIfSaid(Unset, "auto_route_metric", k, "route-metric")
             @@ (IF dhcp THEN switches @@ [dhcp_send_hostname |-> sends] ELSE Unset)
             @@ (IF dhcp /\ (sends \/ v6) THEN name ELSE Unset)
             @@ (IF ~v6 THEN Unset
                 ELSE [autoconf |-> m = "auto"] @@ SetIfSaid(Unset, "token", k, "token")
                        @@ IF m = "disabled" THEN Unset ELSE mode)

(* InterfaceIpv4::update(), InterfaceIpv6::update() *)
Ipv4Shown(k) == NmIpShown(FALSE, k) @@ NpIpShown(FALSE, k)
Ipv6Shown(k) == NmIpShown(TRUE, k) @@ NpIpShown(TRUE, k)

(* BaseInterface::generate_revert_extra() *)
IpRevertExtra(v6, reverted, applied, cur) ==
  IpSanitize(v6, IF IpIsAuto(applied) /\ ~IpIsAuto(cur) THEN cur ELSE reverted, FALSE)

-----------------------------------------------------------------------------
(* The stack of both families: whether the interface may have addresses at    *)
(* all, and which family its activation waits for.  Enabled means by DHCP.    *)

StackConfig == [controller |-> {"", "br0"}, ipv4_enabled |-> BOOLEAN, ipv6_enabled |-> BOOLEAN,
                wait_ip |-> WaitIp]

CanHaveIp(c) == Get(c, "controller", "") = ""

EnabledOf == [ipv4 |-> "ipv4_enabled", ipv6 |-> "ipv6_enabled"]

(* The families the activation must not fail for. *)
WaitedFor(w) == IF w = "any" THEN {} ELSE IF w = "ipv4+ipv6" THEN {"ipv4", "ipv6"} ELSE {w}

(* validate_wait_ip() *)
WaitIpInvalid(c) == \E f \in WaitedFor(Get(c, "wait_ip", "any")) : ~Get(c, EnabledOf[f], FALSE)

(* preserve_current_controller_info(), post_inter_ifaces_process_ip(),        *)
(* validate_can_have_ip()                                                     *)
StackApplied(c, cur) ==
  LET d == c @@ Only(cur, {"controller"})
      disallowed == ~CanHaveIp(d) /\ \E f \in DOMAIN EnabledOf : Get(d, EnabledOf[f], FALSE)
  IN  IF (cur # Unset /\ WaitIpInvalid(d)) \/ disallowed THEN Rejected
      ELSE IF CanHaveIp(d) THEN d ELSE Without(d, {"wait_ip"})

StackVerified(c, cur) == IF CanHaveIp(c @@ Only(cur, {"controller"})) THEN c ELSE Without(c, {"wait_ip"})

(* gen_nm_ip_setting() and apply_nmstate_wait_ip() *)
FamilySection(f, c, known) ==
  LET stored == Get(known, f, [method |-> "disabled"])
      method == IF ~Says(c, EnabledOf[f]) THEN stored.method ELSE IF c[EnabledOf[f]] THEN "auto" ELSE "disabled"
  IN  [method |-> method]
        @@ (IF Says(c, "wait_ip") THEN "may-fail" :> (f \notin WaitedFor(c.wait_ip)) ELSE Unset) @@ stored
StackSetting(c, s) ==
  WithKnown(s, ConnController(c, s.known)
                 @@ IF CanHaveIp(c) THEN [f \in DOMAIN EnabledOf |-> FamilySection(f, c, s.known)] ELSE Unset)

StackKeys == {"master", "slave-type"} \cup DOMAIN EnabledOf

NmStack(dict) ==
  [controller |-> Get(dict, "master", "")]
    @@ [f \in DOMAIN EnabledOf \cap DOMAIN dict |-> dict[f] @@ ("may-fail" :> TRUE)]

(* query_nmstate_wait_ip(); nispor tells that a stack without section is off. *)
StackShown(k) ==
  LET Awaited(f) == ~k[f]["may-fail"]
      wait == IF ~Says(k, "ipv4") THEN Unset
              ELSE IF Awaited("ipv4") THEN [wait_ip |-> IF Awaited("ipv6") THEN "ipv4+ipv6" ELSE "ipv4"]
              ELSE [wait_ip |-> IF Awaited("ipv6") THEN "ipv6" ELSE "any"]
      On(f) == Says(k, f) /\ k[f].method # "disabled"
  IN  (IF k.controller = "" THEN Unset ELSE [controller |-> k.controller]) @@ wait
        @@ [ipv4_enabled |-> On("ipv4"), ipv6_enabled |-> On("ipv6")]

(* generate_revert_extra(): a link that is detached again gets its addresses back. *)
StackRevertExtra(reverted, applied, cur) ==
  IF ~CanHaveIp(applied) /\ CanHaveIp(reverted) THEN reverted @@ Only(cur, {"ipv4_enabled", "ipv6_enabled"}) ELSE reverted
=============================================================================
