---------------------------- MODULE RouteSection ----------------------------
(***************************************************************************)
(* The routes and the route rules of the host, laid out as in VirtualKinds *)
(* but for two things.  A profile is not one section: it maps each of the  *)
(* interfaces eth1, eth2 and lo to what its profile holds, and the kernel  *)
(* likewise.  A desired state says, besides routes and rules, how the      *)
(* interface eth1 shall be: that an IP stack is off, or that it is absent. *)
(*                                                                         *)
(* The order of a list of routes does not matter here, it is a set.  A     *)
(* next hop "none" stands for 0.0.0.0 and ::.  The congestion window is    *)
(* one of the attributes treated alike; source and weight are the others.  *)
(***************************************************************************)
EXTENDS BaseSections

RouteIfaces == {"eth1", "eth2", "lo"}
RouteStacks == {"up", "v4off", "v6off", "absent"}

(* is_ipv6_addr() *)
IsIpv6(dest) == dest \in {"net6", "addr6"}

Route(dest, iface, via) == [dest |-> dest, iface |-> iface, via |-> via]
Typed(dest, type) == [dest |-> dest, type |-> type]
Absent(r) == [state |-> "absent"] @@ r

RouteEntry ==
  {Route("net4", "eth1", "gw"), Route("net4", "eth1", "gw") @@ [metric |-> 7],
   Route("net4", "eth2", "none") @@ [table |-> 100, cwnd |-> 20], Route("net6", "eth1", "gw") @@ [table |-> 0],
   Typed("net4", "blackhole"), Typed("other4", "prohibit"), Typed("net6", "blackhole")}

RouteEntryInvalid ==
  {[dest |-> "net4", via |-> "gw"], Typed("net4", "blackhole") @@ [iface |-> "eth1"], Route("zero4", "eth1", "gw"),
   Route("net4", "eth1", "gw") @@ [cwnd |-> 0]}

RouteEntryAbsent ==
  {Absent([iface |-> "eth1"]), Absent([dest |-> "net4"]), Absent(Route("net4", "eth1", "gw") @@ [metric |-> 3]),
   Absent([dest |-> "", table |-> 100]), Absent([type |-> "prohibit"]), Absent([via |-> ""])}

Routes == {{r} : r \in RouteEntry \cup RouteEntryInvalid \cup RouteEntryAbsent}
            \cup {{Absent([dest |-> "net4"]), r} : r \in RouteEntry}

IsAbsent(r) == Get(r, "state", "present") = "absent"
Present(entries) == {r \in entries : ~IsAbsent(r)}

RouteIface(r) == Get(r, "iface", "lo")
RouteIsIpv6(r) == IsIpv6(Get(r, "dest", ""))

DefaultTable == 254

(* RouteEntry::is_match(): the metric is ignored. *)
RouteIsMatch(r, other) ==
  \A f \in DOMAIN r \ {"state", "metric"} :
    \/ f = "dest" /\ r.dest = ""
    \/ f = "table" /\ r.table = 0
    \/ Says(other, f) /\ other[f] = r[f]

(* RouteEntry::sort_key(), which equality means: neither metric nor type count. *)
RouteKey(r) ==
  <<IsAbsent(r), RouteIsIpv6(r), Get(r, "table", DefaultTable), RouteIface(r), Get(r, "dest", ""),
    Get(r, "via", ""), Get(r, "cwnd", 0)>>

(* validate_route_dst() *)
RouteDstInvalid(r) == Get(r, "dest", "") = "zero4" /\ ~Says(r, "type")

(* Routes::validate() and RouteEntry::sanitize() *)
RouteIsInvalid(r) ==
  \/ ~IsAbsent(r) /\ Says(r, "type") /\ (RouteIface(r) # "lo" \/ Says(r, "via"))
  \/ ~IsAbsent(r) /\ ~Says(r, "type") /\ ~Says(r, "iface")
  \/ RouteDstInvalid(r)
  \/ Get(r, "via", "gw") = ""
  \/ Get(r, "cwnd", 1) = 0

RouteSanitize(r) == IF Get(r, "dest", "any") = "" THEN Without(r, {"dest"}) ELSE r

-----------------------------------------------------------------------------
(* MergedRoutes::new() *)

(* The interface as the merged state has it, and whether it takes a route. *)
MergedStack(c, cur, iface) == IF iface = "eth1" THEN Get(c, "eth1", Get(cur, "eth1", "none")) ELSE "up"

CannotHave(c, cur, r) ==
  MergedStack(c, cur, RouteIface(r)) \in {"absent", IF RouteIsIpv6(r) THEN "v6off" ELSE "v4off"}

RoutesApplied(c, cur) ==
  LET said == {RouteSanitize(r) : r \in Get(c, "routes", {})}
  IN  IF (\E r \in Get(c, "routes", {}) : RouteIsInvalid(r)) \/ (\E r \in Present(said) : CannotHave(c, cur, r))
      THEN Rejected
      ELSE IF Says(c, "routes") THEN [c EXCEPT !.routes = said] ELSE c

RemovedBy(said, r) == \E a \in said : IsAbsent(a) /\ RouteIsMatch(a, r)

(* route_changed_ifaces *)
RouteChangedIfaces(c, cur) ==
  LET said == Get(c, "routes", {})
  IN  {RouteIface(r) : r \in Present(said) \cup {o \in cur.routes : RemovedBy(said, o)}}

(* merged: what is there and not removed, without what has no interface, and  *)
(* what is desired.                                                           *)
RoutesToMerge(c, cur) ==
  LET said == Get(c, "routes", {})
      kept == {r \in cur.routes : Says(r, "iface") /\ ~CannotHave(c, cur, r) /\ ~RemovedBy(said, r)}
  IN  kept \cup Present(said)

RouteIsDoubled(r, all) == \E o \in all : o # r /\ RouteKey(o) = RouteKey(r)

(* sort_unstable() and dedup(): of routes that are equal any one is left. *)
MergedRoutes(c, cur) ==
  LET all == RoutesToMerge(c, cur)
      doubled == {r \in all : RouteIsDoubled(r, all)}
  IN  {merged \in {all \ gone : gone \in SUBSET doubled} :
         /\ \A r \in merged : ~RouteIsDoubled(r, merged)
         /\ \A r \in all : \E o \in merged : RouteKey(o) = RouteKey(r)}

(* routes_for_verify() and MergedRoutes::verify() *)
RoutesVerified(said, cur) ==
  \A r \in {RouteSanitize(s) : s \in said} :
    IF IsAbsent(r)
    THEN \/ \E d \in Present(said) : RouteIsMatch(r, d)
         \/ \A o \in cur : ~RouteIsMatch(r, o)
    ELSE LET wanted == IF Says(r, "type") /\ ~RouteIsIpv6(r) THEN Without(r, {"iface"}) ELSE r
         IN  \E o \in cur : RouteIsMatch(wanted, o)

(* MergedRoutes::gen_diff() *)
RoutesDiff(merged, cur) ==
  {r \in merged : \A o \in cur.routes : RouteKey(o) # RouteKey(r)}

(* MergedRoutes::generate_revert() *)
RoutesRevertAdded(c, cur) == {Absent(r) : r \in Present(Get(c, "routes", {}))}
RoutesRevert(c, cur) ==
  LET said == Get(c, "routes", {})
  IN  {Absent(r) : r \in Present(said)} \cup {o \in cur.routes : RemovedBy(said, o)}

-----------------------------------------------------------------------------
(* The rules.  Their order is the one they are stored and listed in. *)

Rule(family, priority, table) == [family |-> family, priority |-> priority, table |-> table]

RouteRuleEntry ==
  {<<Rule("ipv4", 100, 100)>>, <<Rule("ipv4", 100, 100) @@ [iif |-> "eth2"]>>, <<[from |-> "addr6", table |-> 100]>>,
   <<[from |-> "addr4", priority |-> -1], [to |-> "addr4", fwmark |-> 1, fwmask |-> 1]>>,
   <<[family |-> "ipv4", action |-> "prohibit", priority |-> 30000]>>, <<Rule("ipv6", 100, 254)>>}

RouteRuleEntryInvalid ==
  {<<[table |-> 100]>>, <<[family |-> "ipv4", from |-> "addr6"]>>, <<[from |-> "addr4", fwmask |-> 1]>>}

RouteRuleEntryAbsent ==
  {<<Absent([family |-> "ipv4"])>>, <<Absent([from |-> ""])>>, <<Absent([priority |-> 100]), Rule("ipv4", 100, 254)>>,
   <<Absent([from |-> "addr4", table |-> 0]), [from |-> "addr4", table |-> 100]>>, <<Absent([iif |-> "eth2"])>>}

RouteRules == RouteRuleEntry \cup RouteRuleEntryInvalid \cup RouteRuleEntryAbsent

RoutesConfig == [routes |-> Routes, eth1 |-> RouteStacks]
RulesConfig == [rules |-> RouteRules, routes |-> {{r} : r \in RouteEntry}, eth1 |-> {"up", "absent"}]

DefaultPriority == 30000

FamilyOf(address) == IF IsIpv6(address) THEN "ipv6" ELSE "ipv4"

RuleIsIpv6(r) == Get(r, "family", "ipv4") = "ipv6" \/ IsIpv6(Get(r, "from", "")) \/ IsIpv6(Get(r, "to", ""))

(* RouteRuleEntry::is_match() *)
RuleIsMatch(r, other) ==
  \A f \in DOMAIN r \ {"state"} :
    CASE f \in {"from", "to"} -> IF r[f] = "" THEN ~Says(other, f) ELSE Says(other, f) /\ other[f] = r[f]
      [] f = "family" -> Get(other, f, r[f]) = r[f]
      [] f = "priority" -> r[f] = -1 \/ Get(other, f, 0) = r[f]
      [] f = "table" -> r[f] = 0 \/ (Says(other, f) /\ other[f] = r[f])
      [] f \in {"fwmark", "fwmask"} -> Get(other, f, 0) = r[f]
      [] OTHER -> Says(other, f) /\ other[f] = r[f]

(* RouteRuleEntry::sort_key(), which equality means: the interface does not count. *)
RuleKey(r) ==
  <<IsAbsent(r), RuleIsIpv6(r), Get(r, "table", 0), Get(r, "from", ""), Get(r, "to", ""), Get(r, "priority", -1),
    Get(r, "fwmark", 0), Get(r, "fwmask", 0), Get(r, "action", "")>>

(* validate_ip_from_to() and validate_fwmark_and_fwmask(), of a rule to add *)
RuleIsInvalid(r) ==
  LET addresses == {r[f] : f \in {g \in DOMAIN r \cap {"from", "to"} : r[g] # ""}}
  IN  \/ addresses = {} /\ ~Says(r, "family")
      \/ \E a, b \in addresses : FamilyOf(a) # FamilyOf(b)
      \/ Says(r, "family") /\ \E a \in addresses : FamilyOf(a) # r.family
      \/ Says(r, "fwmask") /\ ~Says(r, "fwmark")

(* RouteRuleEntry::sanitize() *)
RuleSanitize(r) ==
  LET empty == {f \in DOMAIN r \cap {"from", "to"} : r[f] = ""}
      address == Get(r, "from", Get(r, "to", ""))
  IN  Without(r, empty) @@ [family |-> FamilyOf(address)]
        @@ IF Says(r, "action") THEN Unset ELSE [table |-> DefaultTable]

PresentRules(rules) == SelectSeq(rules, LAMBDA r : ~IsAbsent(r))

RuleRemovedBy(said, r) == \E i \in DOMAIN said : IsAbsent(said[i]) /\ RuleIsMatch(said[i], r)

(* MergedRouteRules::new(): the current rules that go, then those desired. *)
RulesForVerify(said, cur) ==
  LET going == SelectSeq(cur, LAMBDA r : RuleRemovedBy(said, r))
      coming == PresentRules(said)
  IN  [i \in DOMAIN going |-> Absent(going[i])] \o [i \in DOMAIN coming |-> RuleSanitize(coming[i])]

RuleIsAuto(r) == ~IsAbsent(r) /\ Get(r, "priority", -1) = -1

(* set_auto_priority(), get_max_rule_priority() *)
MaxPriority(rules) == Max({DefaultPriority - 1} \cup {Get(rules[i], "priority", 0) : i \in DOMAIN rules})

WithAutoPriority(rules, max) ==
  LET Rank(i) == Cardinality({j \in 1 .. i : RuleIsAuto(rules[j])})
  IN  [i \in DOMAIN rules |-> IF RuleIsAuto(rules[i]) THEN [priority |-> max + Rank(i)] @@ rules[i] ELSE rules[i]]

RulesForApplyByDesired(said, cur) ==
  WithAutoPriority(RulesForVerify(said, cur), MaxPriority(PresentRules(said)))
RulesForApply(said, cur) ==
  WithAutoPriority(RulesForVerify(said, cur),
                   MaxPriority(SelectSeq(cur, LAMBDA r : ~RuleRemovedBy(said, r)) \o PresentRules(said)))

(* MergedRoutes::new() and MergedRouteRules::new() *)
RoutingApplied(c, cur) ==
  LET said == PresentRules(Get(c, "rules", <<>>))
  IN  IF \E i \in DOMAIN said : RuleIsInvalid(said[i]) THEN Rejected ELSE RoutesApplied(c, cur)

(* MergedRouteRules::is_changed() *)
RulesChanged(c, cur) ==
  LET Keys(rules) == [i \in DOMAIN rules |-> RuleKey(rules[i])]
  IN  Says(c, "rules") /\ Keys(RulesForApply(c.rules, cur.rules)) # Keys(cur.rules)

(* MergedRouteRules::verify() *)
RulesVerified(said, before, cur) ==
  LET Found(rule) == \E j \in DOMAIN cur : RuleIsMatch(rule, cur[j])
      IsSo(rules, rule) ==
        IF IsAbsent(rule) THEN (\E j \in DOMAIN rules : ~IsAbsent(rules[j]) /\ RuleIsMatch(rule, rules[j])) \/ ~Found(rule)
        ELSE Found(rule)
      AllSo(rules) == \A i \in DOMAIN rules : IsSo(rules, rules[i])
  IN  AllSo(RulesForVerify(said, before))

(* MergedRouteRules::gen_diff() *)
RulesDiff(said, cur) ==
  SelectSeq(RulesForApply(said, cur), LAMBDA r : IsAbsent(r) \/ \A j \in DOMAIN cur : RuleKey(cur[j]) # RuleKey(r))

(* MergedRouteRules::generate_revert(); absent rules are sorted to the front. *)
RulesRevert(said, cur) ==
  LET added == PresentRules(said)
  IN  [i \in DOMAIN added |-> Absent(added[i])] \o SelectSeq(cur, LAMBDA r : RuleRemovedBy(said, r))

(* The parts of a state together: eth1, routes and rules. *)
Part(f, value, empty) == IF value = empty THEN Unset ELSE f :> value

RoutingDiff(c, cur, merged) ==
  Diff(Only(c, {"eth1"}), cur) @@ Part("routes", RoutesDiff(merged, cur), {})
    @@ Part("rules", RulesDiff(Get(c, "rules", <<>>), cur.rules), <<>>)

RoutingRevert(c, cur) ==
  (IF Says(c, "eth1") THEN [eth1 |-> Get(cur, "eth1", "absent")] ELSE Unset)
    @@ Part("routes", RoutesRevert(c, cur), {})
    @@ Part("rules", RulesRevert(Get(c, "rules", <<>>), cur.rules), <<>>)

RoutingVerified(c, before, cur) ==
  /\ Says(c, "eth1") => c.eth1 = Get(cur, "eth1", "absent")
  /\ RoutesVerified(Get(c, "routes", {}), cur.routes)
  /\ RulesVerified(Get(c, "rules", <<>>), before.rules, cur.rules)

-----------------------------------------------------------------------------
(* store_route_config(), store_route_rule_config() and the [ipv4] and [ipv6]  *)
(* sections that are made of what they store                                  *)

(* gen_nm_ip_routes() *)
NmRoute(r) ==
  Over([dest |-> Get(r, "dest", ""), metric |-> Get(r, "metric", IF RouteIsIpv6(r) THEN 1024 ELSE 0),
        table |-> IF Get(r, "table", 0) = 0 THEN DefaultTable ELSE r.table],
       Only(r, {"type", "cwnd"} \cup IF Get(r, "via", "none") = "none" THEN {} ELSE {"via"}))

(* A route as a profile holds it. *)
IsNmRoute(r) ==
  /\ IsConf(r) /\ Says(r, "dest") /\ DOMAIN r \subseteq {"dest", "metric", "table", "via", "type", "cwnd"}
  /\ Get(r, "table", DefaultTable) # 0 /\ (RouteIsIpv6(r) => Get(r, "metric", 1024) # 0)
  /\ Get(r, "via", "gw") # "none" /\ ~(Says(r, "type") /\ Says(r, "via"))

(* gen_nm_ip_rules() *)
NmRule(r) == (IF Get(r, "table", 0) = 0 THEN [table |-> DefaultTable] ELSE Unset) @@ Without(r, {"state"})

(* iface_has_route_for_table_id(); no interface has an automatic table. *)
HasRouteForTable(merged, iface, rule) ==
  LET table == Get(rule, "table", DefaultTable)
      Fits(r) == RouteIface(r) = iface /\ RouteIsIpv6(r) = RuleIsIpv6(rule)
                   /\ (Get(r, "table", DefaultTable) = table \/ (Get(r, "table", 1) = 0 /\ table = DefaultTable))
  IN  table = DefaultTable \/ \E r \in merged : Fits(r)

(* The first of some interfaces: the changed ones are sorted, those whose     *)
(* routes change are in the order of a hash table.                            *)
FirstOf(ifaces, reversed) ==
  LET order == IF reversed THEN <<"lo", "eth2", "eth1">> ELSE <<"eth1", "eth2", "lo">>
  IN  SelectSeq(order, LAMBDA i : i \in ifaces)[1]

(* find_interface_for_rule(); `changed` are the interfaces that are changed   *)
(* already, by the desired state, its routes or the rules before.             *)
IfaceForRule(c, cur, merged, changed, rule, reversed) ==
  LET Fitting(ifaces) == {i \in ifaces : HasRouteForTable(merged, i, rule)}
      enabled == Says(c, "eth1") /\ c.eth1 # IF RuleIsIpv6(rule) THEN "v6off" ELSE "v4off"
  IN  IF Says(rule, "iif") THEN rule.iif
      ELSE IF Fitting(RouteChangedIfaces(c, cur)) # {} THEN FirstOf(Fitting(RouteChangedIfaces(c, cur)), reversed)
      ELSE IF Fitting(changed) # {} THEN FirstOf(Fitting(changed), FALSE)
      ELSE IF enabled THEN "eth1" ELSE "lo"

(* apply_absent_rule() *)
RuleIsStored(rules, i, rule) ==
  \E j \in DOMAIN rules[i] : RuleIsIpv6(rules[i][j]) = RuleIsIpv6(rule) /\ RuleIsMatch(rule, rules[i][j])
RuleRemoved(acc, rule) ==
  LET holders == {i \in DOMAIN acc.rules : RuleIsStored(acc.rules, i, rule)}
      Stays(r) == RuleIsIpv6(r) # RuleIsIpv6(rule) \/ ~RuleIsMatch(rule, r)
  IN  [changed |-> acc.changed \cup holders,
       rules |-> [i \in DOMAIN acc.rules |-> SelectSeq(acc.rules[i], Stays)]]

(* append_route_rule() *)
RuleAppended(c, cur, merged, acc, rule, reversed) ==
  LET AppendedTo(i) == [changed |-> acc.changed \cup {i}, rules |-> [acc.rules EXCEPT ![i] = Append(@, rule)]]
  IN  AppendedTo(IfaceForRule(c, cur, merged, acc.changed, rule, reversed))

(* store_route_rule_config() *)
RulesStored(c, cur, merged, rules, reversed) ==
  LET changed == RouteChangedIfaces(c, cur) \cup (IF Says(c, "eth1") THEN {"eth1"} ELSE {})
      Store(acc, r) == IF IsAbsent(r) THEN RuleRemoved(acc, r) ELSE RuleAppended(c, cur, merged, acc, r, reversed)
  IN  IF ~RulesChanged(c, cur) THEN rules
      ELSE FoldList(Store, [rules |-> rules, changed |-> changed], RulesForApply(c.rules, cur.rules)).rules

(* What the profiles of the interfaces hold.  A typed IPv4 route has no       *)
(* interface of its own.                                                      *)
IsHost(dict) ==
  /\ IsConf(dict) /\ Says(dict, "lo") /\ DOMAIN dict \subseteq RouteIfaces
  /\ \A i \in DOMAIN dict :
       /\ Says(dict[i], "routes")
       /\ \A r \in dict[i].routes : IsNmRoute(r) /\ (Says(r, "type") /\ ~RouteIsIpv6(r) => i = "lo")

NewIface == [stack |-> "up", routes |-> {}, rules |-> <<>>]

(* The interfaces there are after the apply. *)
MergedIfaces(c, cur) ==
  {i \in RouteIfaces : MergedStack(c, cur, i) # "absent" /\ (i = "eth1" => Says(c, i) \/ Says(cur, i))}

(* store_route_config(), then gen_nm_ip_setting(): the routes of a stack that *)
(* is off go, and what is stored in an interface that is absent is lost.      *)
StoredRoutes(c, cur, merged, i, old) ==
  LET wanted == {NmRoute(r) : r \in {m \in merged : RouteIface(m) = i}}
      Off(r) == MergedStack(c, cur, i) = IF RouteIsIpv6(r) THEN "v6off" ELSE "v4off"
  IN  {r \in IF i \in RouteChangedIfaces(c, cur) THEN wanted ELSE old : ~Off(r)}

RoutingSetting(c, s, cur, merged, reversed) ==
  LET Old(i) == Get(s.known, i, NewIface)
      With(rules) == [i \in MergedIfaces(c, cur) |->
                        [stack |-> MergedStack(c, cur, i), routes |-> StoredRoutes(c, cur, merged, i, Old(i).routes),
                         rules |-> [j \in DOMAIN rules[i] |-> NmRule(rules[i][j])]]]
  IN  WithKnown(s, With(RulesStored(c, cur, merged, [i \in RouteIfaces |-> Old(i).rules], reversed)))

(* nm_setting_is_route_removed(), of one interface *)
IsRouteRemoved(new, old) == \E r \in old.routes : r \notin new.routes

-----------------------------------------------------------------------------
(* NetworkManager and the kernel, external.  NetworkManager adds to a route   *)
(* the table and the metric it does not say.  Before it told that it can      *)
(* (SYNC_ROUTE_WITH_TABLE), it did not remove a route in another table from a *)
(* link it kept.                                                              *)

FullRoute(r) == Over(r, [table |-> DefaultTable, metric |-> IF RouteIsIpv6(r) THEN 1024 ELSE 100])

NmRouting(dict) == [i \in DOMAIN dict \cap RouteIfaces |-> [dict[i] EXCEPT !.routes = {FullRoute(r) : r \in @}]]

NmReapplied(goal, old) == [goal EXCEPT !.routes = @ \cup {r \in old.routes : r.table # DefaultTable}]

-----------------------------------------------------------------------------
(* np_route_to_nmstate(), np_routetype_to_nmstate() *)
RouteShown(iface, r) ==
  LET v4type == Says(r, "type") /\ ~RouteIsIpv6(r)
  IN  Over(IF v4type THEN Unset ELSE [iface |-> iface],
           Over(Without(r, IF r.metric = 0 THEN {"metric"} ELSE {}), IF Says(r, "type") THEN Unset ELSE [via |-> "none"]))

(* get_routes() *)
RoutesShown(k) == UNION {{RouteShown(i, r) : r \in k[i].routes} : i \in DOMAIN k}

(* get_route_rules(): the kernel lists the rules of a family by priority. *)
RulesShown(k) ==
  LET rules == UNION {Range(k[i].rules) : i \in DOMAIN k}
      Before(a, b) == IF RuleIsIpv6(a) = RuleIsIpv6(b) THEN a.priority < b.priority ELSE RuleIsIpv6(b)
  IN  SortSeq(ListOf(rules), Before)

RoutingShown(k) ==
  Over(IF Says(k, "eth1") THEN [eth1 |-> k.eth1.stack] ELSE Unset, [routes |-> RoutesShown(k), rules |-> RulesShown(k)])
=============================================================================
