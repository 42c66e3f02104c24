----------------------------- MODULE DnsSection -----------------------------
(***************************************************************************)
(* The DNS resolver configuration of the host.  NetworkManager stores it   *)
(* in the profiles of interfaces, with a priority for each address family, *)
(* or in a global configuration that hides those.  A profile maps eth1 and *)
(* eth2 to what theirs hold, and "global" to the global configuration; the *)
(* kernel stands for what NetworkManager uses of it.                       *)
(*                                                                         *)
(* A desired state says, besides DNS, how the IP stacks of the interfaces  *)
(* shall be, and whether a route of eth1 changes.  Of an interface that is *)
(* said both families are.  NetworkManager manages both interfaces.        *)
(***************************************************************************)
EXTENDS BaseSections

DnsIfaces == {"eth1", "eth2"}
Families == {"v4", "v6"}

(* How a family of an interface is configured: "bare" has no address, "nodns" *)
(* is automatic with `auto-dns: false`.                                       *)
Stack(v4, v6) == [v4 |-> v4, v6 |-> v6]
Gone == Stack("gone", "gone")

DnsFields == {"server", "search", "options"}

(* A link-local server "ll1" is one reached by eth1. *)
LinkLocalOf == [ll1 |-> "eth1", ll2 |-> "eth2"]
DnsIsIpv6(srv) == srv \in {"s6", "ll"} \cup DOMAIN LinkLocalOf

DnsOptionsSorted == <<"debug", "rotate">>

DnsClientState ==
  {Unset, [server |-> <<"s4">>], [server |-> <<"s6", "s4">>, search |-> <<"d">>], [search |-> <<"d">>], [server |-> <<>>],
   [server |-> <<"t4">>, options |-> <<"rotate", "debug">>], [server |-> <<"ll1", "s4">>], [server |-> <<"s4", "s6", "t4">>],
   [server |-> <<"bad">>], [options |-> <<"bad">>], [server |-> <<"ll1", "ll2">>]}

DnsConfig ==
  [dns |-> DnsClientState, route |-> {"eth1"},
   eth1 |-> {Gone, Stack("off", "off"), Stack("static", "bare"), Stack("auto", "auto")},
   eth2 |-> {Stack("off", "off"), Stack("nodns", "off"), Stack("static", "static")}]

Conf(d) == [f \in DnsFields |-> Get(d, f, <<>>)]
NoDns == [server |-> <<>>, search |-> <<>>, options |-> <<>>, priority |-> 0]
IsNull(d) == d.server = <<>> /\ d.search = <<>> /\ d.options = <<>>

NewDnsIface(stack) == [stack |-> stack, dns |-> [f \in Families |-> NoDns]]

(* DnsClientState::sanitize() *)
DnsIsInvalid(d) == \E f \in {"server", "options"} : "bad" \in Range(Get(d, f, <<>>))

(* MergedDnsState::new() *)
CurrentDns(cur) == Conf(Get(cur, "dns", Unset))
MergedDns(c, cur) ==
  CASE ~Says(c, "dns") -> CurrentDns(cur)
    [] Says(c, "dns") /\ c.dns = Unset -> Conf(Unset)
    [] OTHER -> c.dns @@ CurrentDns(cur)

DnsIsChanged(c, cur) == MergedDns(c, cur) # CurrentDns(cur)

(* An interface that is absent is merged with its current IP stacks. *)
MergedMode(c, cur, i, f) ==
  IF Says(c, i) /\ c[i] # Gone THEN c[i][f] ELSE Get(cur, i, Stack("off", "off"))[f]

(* is_iface_valid_for_dns(), is_iface_prefered_for_dns() *)
ValidForDns(c, cur, i, f) == MergedMode(c, cur, i, f) \in {"static", "auto", "nodns"}
PreferredForDns(c, i, f) == c[i][f] \in {"static", "nodns"}

(* validate_ipv6_link_local_address_dns_srv() *)
LinkLocals(servers) == SelectSeq(servers, LAMBDA s : s \in DOMAIN LinkLocalOf)
LinkLocalInvalid(c, cur) ==
  LET lls == LinkLocals(MergedDns(c, cur).server)
  IN  Len(lls) >= 2 \/ \E i \in DOMAIN lls : ~ValidForDns(c, cur, LinkLocalOf[lls[i]], "v6")

DnsApplied(c, cur) ==
  IF (Says(c, "dns") /\ DnsIsInvalid(c.dns)) \/ LinkLocalInvalid(c, cur) THEN Rejected ELSE c

(* MergedDnsState::verify() *)
DnsSorted(d) == [d EXCEPT !.options = SelectSeq(DnsOptionsSorted, LAMBDA o : o \in Range(d.options))]
DnsVerified(c, before, cur) ==
  DnsIsChanged(c, before) => DnsSorted(Conf(cur.dns)) = DnsSorted(MergedDns(c, before))

StacksVerified(c, cur) == \A i \in DOMAIN c \cap DnsIfaces : c[i] = Get(cur, i, Gone)

(* NetworkState::gen_diff() and MergedDnsState::generate_revert() *)
DnsDiff(c, cur) ==
  Only(c, {"route"} \cup {i \in DOMAIN c \cap DnsIfaces : c[i] # Get(cur, i, Gone)}
              \cup IF DnsIsChanged(c, cur) THEN {"dns"} ELSE {})
DnsRevert(c, cur) ==
  [i \in DOMAIN c \cap DnsIfaces |-> Get(cur, i, Gone)] @@ IF DnsIsChanged(c, cur) THEN [dns |-> cur.dns] ELSE Unset

-----------------------------------------------------------------------------
(* Which interface holds the DNS configuration.  `p` are the profiles; the    *)
(* keys of a hash table come in either order.                                 *)

DnsOrder(reversed) == IF reversed THEN <<"eth2", "eth1">> ELSE <<"eth1", "eth2">>

SaidIfaces(c) == SelectSeq(DnsOrder(FALSE), LAMBDA i : Says(c, i))
IsTouched(c, i) == Says(c, i) \/ Get(c, "route", "") = i
UntouchedIfaces(c, cur) == SelectSeq(DnsOrder(FALSE), LAMBDA i : ~IsTouched(c, i) /\ Says(cur, i))

(* get_cur_dns_ifaces() *)
HoldsDns(cur, p, i, f) == Says(cur, i) /\ cur[i][f] # "off" /\ ~IsNull(p[i].dns[f])
CurDnsIfaces(cur, p, f, reversed) == SelectSeq(DnsOrder(reversed), LAMBDA i : HoldsDns(cur, p, i, f))

(* cur_dns_ifaces_still_valid_for_dns() *)
StillValidForDnsAlways(c, cur, p) == TRUE
StillValidForDns(c, cur, p) ==
  \A i \in DnsIfaces, f \in Families : HoldsDns(cur, p, i, f) /\ IsTouched(c, i) => ValidForDns(c, cur, i, f)

NoIface == "none"
HeadOr(candidates) == IF candidates = <<>> THEN NoIface ELSE Head(candidates)

(* find_dns_iface() *)
FindDnsIface(c, cur, p, f, reversed) ==
  LET Valid(i) == ValidForDns(c, cur, i, f)
      HolderFits(i) == IsTouched(c, i) /\ Valid(i)
      Preferred(i) == PreferredForDns(c, i, f)
  IN  HeadOr(SelectSeq(CurDnsIfaces(cur, p, f, reversed), HolderFits) \o SelectSeq(SaidIfaces(c), Preferred)
               \o SelectSeq(SaidIfaces(c), Valid) \o SelectSeq(UntouchedIfaces(c, cur), Valid))

(* reselect_dns_ifaces() *)
DnsIfaceFor(c, cur, p, f, reversed) ==
  LET lls == LinkLocals(MergedDns(c, cur).server)
  IN  IF f = "v6" /\ lls # <<>> THEN LinkLocalOf[lls[1]] ELSE FindDnsIface(c, cur, p, f, reversed)

(* set_iface_dns_conf() *)
SetDns(p, i, f, d) == [p EXCEPT ![i].dns[f] = d]

(* purge_dns_config() *)
Purged(c, cur, p) ==
  [i \in DOMAIN p |->
     IF i \notin DnsIfaces \/ Get(c, i, Unset) = Gone THEN p[i]
     ELSE [p[i] EXCEPT !.dns = [f \in Families |-> IF HoldsDns(cur, p, i, f) THEN NoDns ELSE p[i].dns[f]]]]

(* is_mixed_dns_servers() *)
IsMixed(servers) ==
  \E i, j, k \in DOMAIN servers :
    i < j /\ j < k /\ DnsIsIpv6(servers[i]) = DnsIsIpv6(servers[k]) /\ DnsIsIpv6(servers[i]) # DnsIsIpv6(servers[j])

(* save_dns_to_iface() and _save_dns_to_iface(), of one family; `acc` says    *)
(* whether all went well so far.                                              *)
SavedDns(c, cur, acc, f, iface) ==
  LET dns == MergedDns(c, cur)
      all == SelectSeq(dns.server, LAMBDA s : DnsIsIpv6(s) = (f = "v6"))
      plain == [i \in DOMAIN all |-> IF all[i] \in DOMAIN LinkLocalOf THEN "ll" ELSE all[i]]
      preferred == all # <<>> /\ dns.server[1] = all[1]
      d == IF preferred THEN [server |-> plain, search |-> dns.search, options |-> dns.options, priority |-> 40]
           ELSE [NoDns EXCEPT !.server = plain, !.priority = 50]
  IN  IF all = <<>> \/ ~acc.ok THEN acc
      ELSE IF iface = NoIface THEN [acc EXCEPT !.ok = FALSE]
      ELSE [acc EXCEPT !.profile = SetDns(@, iface, f, d)]

(* store_dns_config_to_iface() *)
DnsToIface(c, cur, p, reversed) ==
  LET For(f) == DnsIfaceFor(c, cur, p, f, reversed)
      purged == [ok |-> TRUE, profile |-> Purged(c, cur, p)]
  IN  IF IsMixed(MergedDns(c, cur).server) THEN [ok |-> FALSE, profile |-> p]
      ELSE SavedDns(c, cur, SavedDns(c, cur, purged, "v6", For("v6")), "v4", For("v4"))

(* Where search domains and options without servers go: the first interface   *)
(* and family in one of some modes, those that are said first.                *)
FirstPlace(c, cur, modes) ==
  LET Fits(i) == \E f \in Families : MergedMode(c, cur, i, f) \in modes
      fitting == SelectSeq(SaidIfaces(c) \o UntouchedIfaces(c, cur), Fits)
  IN  IF fitting = <<>> THEN <<NoIface, "v6">>
      ELSE <<fitting[1], IF MergedMode(c, cur, fitting[1], "v6") \in modes THEN "v6" ELSE "v4">>

(* store_dns_search_or_options_to_auto_iface(), ..._to_ip_enabled_iface() *)
AutoPlace(c, cur) == FirstPlace(c, cur, {"auto", "nodns"})
IpEnabledPlace(c, cur) == FirstPlace(c, cur, {"auto", "nodns", "static", "bare"})

(* store_dns_search_or_option_to_iface().  A holder that is removed has no IP *)
(* section to store it in, which is an error.                                 *)
SearchPlace(c, cur, p, reversed) ==
  LET Holders(f) == SelectSeq(CurDnsIfaces(cur, p, f, reversed), LAMBDA i : IsTouched(c, i) /\ ValidForDns(c, cur, i, f))
      held == [n \in DOMAIN Holders("v6") |-> <<Holders("v6")[n], "v6">>] \o [n \in DOMAIN Holders("v4") |-> <<Holders("v4")[n], "v4">>]
      others == SelectSeq(<<AutoPlace(c, cur), IpEnabledPlace(c, cur)>>, LAMBDA place : place[1] # NoIface)
  IN  Head(held \o others \o <<<<NoIface, "v6">>>>)
DnsSearchToIface(c, cur, p, reversed) ==
  LET StoredAt(place) ==
        IF place[1] = NoIface \/ (Get(c, place[1], Unset) = Gone /\ HoldsDns(cur, p, place[1], place[2])) THEN Rejected
        ELSE SetDns(p, place[1], place[2], [priority |-> 40] @@ MergedDns(c, cur))
  IN  StoredAt(SearchPlace(c, cur, p, reversed))

(* is_iface_dns_desired() *)
IsIfaceDnsDesired(c, cur) ==
  \/ LinkLocals(MergedDns(c, cur).server) # <<>>
  \/ \E i \in DnsIfaces, f \in Families :
       IsTouched(c, i) /\ Get(c, i, Unset) # Gone /\ MergedMode(c, cur, i, f) \in {"auto", "static"}

(* store_dns_config_via_global_api() *)
DnsToGlobal(c, cur, p) == [p EXCEPT !.global = MergedDns(c, cur)]

(* nm_apply(): where the DNS configuration goes. *)
DnsStored(c, cur, p, reversed) ==
  LET dns == MergedDns(c, cur)
      fresh == [p EXCEPT !.global = Unset]
      isPurge == Says(c, "dns") /\ IsNull(dns)
      Chosen(inIfaces) ==
        IF IsIfaceDnsDesired(c, cur) /\ ~inIfaces.ok THEN DnsToGlobal(c, cur, inIfaces.profile)
        ELSE IF IsIfaceDnsDesired(c, cur) \/ isPurge THEN inIfaces.profile
        ELSE DnsToGlobal(c, cur, fresh)
  IN  CASE ~DnsIsChanged(c, cur) /\ ~Says(c, "dns") /\ StillValidForDns(c, cur, p) -> p
        [] OTHER -> IF dns.server = <<>> /\ ~IsNull(dns) THEN DnsSearchToIface(c, cur, fresh, reversed)
                    ELSE Chosen(DnsToIface(c, cur, fresh, reversed))

(* A server as nm_dns_to_nmstate() has it. *)
ServerOf(i, srv) == IF srv = "ll" THEN CHOOSE s \in DOMAIN LinkLocalOf : LinkLocalOf[s] = i ELSE srv

(* store_route_config() marks the interface as changed, with the IP section   *)
(* that was read, whose servers have the name of the interface in them;       *)
(* nm_ip_dns_to_value() takes none of those.                                  *)
WithRead(c, p) ==
  LET Read(d) == [d EXCEPT !.server = [j \in DOMAIN @ |-> ServerOf("eth1", @[j])]]
  IN  IF Says(c, "route") /\ ~Says(c, "eth1") THEN [p EXCEPT !.eth1.dns["v6"] = Read(@)] ELSE p

DnsSetting(c, s, cur, reversed) ==
  LET old == [i \in DnsIfaces |-> NewDnsIface(Stack("off", "off"))]
      StackOf(i) == Get(c, i, Get(cur, i, Gone))
      there == {i \in DnsIfaces : StackOf(i) # Gone}
      Made(p) ==
        IF p = Rejected THEN Rejected
        ELSE IF \E i \in DnsIfaces : LinkLocals(p[i].dns["v6"].server) # <<>> THEN Rejected
        ELSE WithKnown(s, [global |-> p.global] @@ [i \in there |-> [p[i] EXCEPT !.stack = StackOf(i)]])
  IN  Made(DnsStored(c, cur, WithRead(c, s.known @@ old), reversed))

(* External: NetworkManager drops the DNS of a family that is disabled. *)
NmDns(dict) ==
  LET Kept(iface) == [iface EXCEPT !.dns = [f \in Families |-> IF iface.stack[f] = "off" THEN NoDns ELSE iface.dns[f]]]
  IN  [i \in DOMAIN dict |-> IF i = "global" THEN dict[i] ELSE Kept(dict[i])]

-----------------------------------------------------------------------------
(* retrieve_dns_info() and nm_global_dns_to_nmstate() *)
DnsShown(k, reversed) ==
  LET ifaces == SelectSeq(DnsOrder(reversed), LAMBDA i : Says(k, i))
      Read(i, f) == [k[i].dns[f] EXCEPT !.server = [j \in DOMAIN @ |-> ServerOf(i, @[j])]]
      confs == Concat([n \in DOMAIN ifaces |-> <<Read(ifaces[n], "v6"), Read(ifaces[n], "v4")>>])
      At(cs, priority) == SelectSeq(cs, LAMBDA d : d.priority = priority)
      ByPriority(cs) == At(cs, 0) \o At(cs, 40) \o At(cs, 50)
      All(cs) == [f \in DnsFields |-> Concat([n \in DOMAIN cs |-> cs[n][f]])]
      ShownDns(d) == (IF d.server = <<>> /\ d.search = <<>> THEN Unset ELSE Only(d, {"server", "search"}))
                    @@ IF d.options = <<>> THEN Unset ELSE [options |-> d.options]
  IN  IF k.global # Unset THEN Only(k.global, {"server", "search"} \cup IF k.global.options = <<>> THEN {} ELSE {"options"})
      ELSE ShownDns(DnsSorted(All(ByPriority(confs))))

HostShown(k, reversed) ==
  [dns |-> DnsShown(k, reversed)] @@ [i \in DOMAIN k \cap DnsIfaces |-> k[i].stack]
=============================================================================
