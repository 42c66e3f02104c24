----------------------------- MODULE Controllers -----------------------------
(***************************************************************************)
(* Merging the desired and the current interfaces, as far as it is about   *)
(* who is a port of whom: MergedInterfaces::new() and process() in         *)
(* inter_ifaces.rs and inter_ifaces_controller.rs, MergedInterface in      *)
(* iface.rs.                                                               *)
(*                                                                         *)
(* A port names its controller, a controller lists its ports, and either   *)
(* may be missing from the desired state.  The maps of the code are        *)
(* hashed: where it walks over one of them the order is arbitrary.         *)
(***************************************************************************)
EXTENDS Naturals, FiniteSets

CONSTANTS
  Ctrls,       \* controllers
  OvsBridges,  \* those of them that are user-space interfaces
  Vrfs,        \* those of them that are VRFs
  Bonds,       \* those of them that are bonds
  Ports,       \* other interfaces, all of the kernel
  OvsIfaces,   \* those of them that cannot live without controller
  Internal,    \* the OVS interface that has the name of an OVS bridge
  Parent,      \* what an interface is on top of
  Ethernet,    \* interfaces that stay when they are absent
  Unset,       \* a property that is not mentioned; no interface
  Detach,      \* `controller: ""`
  Scenarios    \* [ifaces, cur, des]: interfaces there may be, states they
               \* may be found in, and states that may be asked for

Ifaces == Ctrls \cup Ports

ASSUME ControllersAssumption ==
  /\ Ctrls \cap Ports = {} /\ OvsBridges \subseteq Ctrls
  /\ Vrfs \subseteq Ctrls \ OvsBridges /\ Bonds \subseteq Ctrls \ OvsBridges
  /\ OvsIfaces \subseteq Ports /\ Ethernet \subseteq Ports
  /\ Internal \in [OvsBridges -> OvsIfaces]
  /\ Parent \in [Ports -> Ifaces \cup {Unset}]
  /\ {Unset, Detach} \cap Ifaces = {} /\ Unset # Detach
  /\ \A l \in SUBSET Ports : l # Unset
  /\ IsFiniteSet(Ctrls) /\ IsFiniteSet(Ports)
  /\ Scenarios \subseteq [ifaces : SUBSET Ifaces, cur : SUBSET {"up", "ignore"},
                          des : SUBSET {"up", "down", "absent", "ignore"}]

VARIABLES
  pc,
  cur,      \* the current interfaces
  des,      \* the desired interfaces
  listed,   \* those of insert_order
  ignored,  \* MergedInterfaces::ignored_ifaces
  merged,   \* MergedInterface::merged
  apply,    \* MergedInterface::for_apply
  pending,  \* pending_changes: controller and its state, by port
  prio      \* up_priority of for_apply

vars == <<pc, cur, des, listed, ignored, merged, apply, pending, prio>>

NoIface == [state |-> "none", ports |-> Unset, ctrl |-> Unset]
Iface(s, p, c) == [state |-> s, ports |-> p, ctrl |-> c]
Is(i) == i.state # "none"

(* What the kernel shows: an interface is a port of one controller. *)
CurrentIfaces(w) ==
  LET State == [w.ifaces -> w.cur \cup {"none"}]
      Of == [w.ifaces \cap Ports -> (w.ifaces \cap Ctrls) \cup {Unset}]
      Fits(s, of) ==
        \A p \in w.ifaces \cap Ports :
          /\ of[p] # Unset => s[p] # "none" /\ s[of[p]] # "none" /\ of[p] # Parent[p]
          /\ p \in OvsIfaces /\ s[p] # "none" => of[p] \in OvsBridges
          /\ s[p] # "none" /\ Parent[p] \in w.ifaces => s[Parent[p]] # "none"
      Shown(s, of) ==
        [i \in Ifaces |->
           IF i \notin w.ifaces \/ s[i] = "none" THEN NoIface
           ELSE IF i \in Ports THEN Iface(s[i], Unset, of[i])
           ELSE Iface(s[i], {p \in DOMAIN of : of[p] = i}, Unset)]
  IN {Shown(x[1], x[2]) : x \in {y \in State \X Of : Fits(y[1], y[2])}}

DesiredIface(w, i) ==
  {NoIface} \cup {Iface(s, Unset, Unset) : s \in w.des}
  \cup IF i \in Ctrls
       THEN {Iface(s, l, Unset) : s \in w.des \cap {"up", "down"},
                                  l \in SUBSET (Ports \cap w.ifaces)}
       ELSE {Iface("up", Unset, c) : c \in (Ctrls \cap w.ifaces) \cup {Detach}}
DesiredIfaces(w) ==
  LET All == UNION {DesiredIface(w, i) : i \in w.ifaces}
  IN {d \in [w.ifaces -> All] : \A i \in w.ifaces : d[i] \in DesiredIface(w, i)}

Init ==
  /\ pc = "auto"
  /\ \E w \in Scenarios :
       /\ cur \in CurrentIfaces(w)
       /\ \E d \in DesiredIfaces(w) :
            des = [i \in Ifaces |-> IF i \in w.ifaces THEN d[i] ELSE NoIface]
  /\ listed = {i \in Ifaces : Is(des[i])} /\ ignored = {}
  /\ merged = [i \in Ifaces |-> NoIface] /\ apply = [i \in Ifaces |-> NoIface]
  /\ pending = [p \in Ports |-> NoIface]
  /\ prio = [i \in Ifaces |-> 0]

Fail == pc' = "err" /\ UNCHANGED <<cur, des, listed, ignored, merged, apply, pending, prio>>
(* A check, which changes nothing. *)
Check(here, good, next) ==
  /\ pc = here
  /\ \/ ~good /\ Fail
     \/ good /\ pc' = next
        /\ UNCHANGED <<cur, des, listed, ignored, merged, apply, pending, prio>>

(* Interface::ports() *)
PortsOf(i) == IF i.state = "absent" THEN {} ELSE i.ports
Up(i) == i.state = "up"
-----------------------------------------------------------------------------
(* Interfaces::auto_managed_controller_ports(): a port that is ignored now *)
(* and not mentioned becomes desired when a controller lists it, unless    *)
(* that has ignored ports already.  insert_order is not changed.           *)
FullIgnores ==
  {p \in Ports : \/ cur[p].state = "ignore" /\ des[p].state \in {"none", "ignore"}
                 \/ des[p].state = "ignore"}
AutoManaged ==
  {p \in Ports :
     /\ cur[p].state = "ignore" /\ ~Is(des[p])
     /\ \E c \in Ctrls : /\ Up(des[c]) /\ des[c].ports # Unset
                         /\ p \in des[c].ports
                         /\ Is(cur[c]) => cur[c].ports \cap FullIgnores = {}}

AutoManage ==
  /\ pc = "auto"
  /\ pc' = "ignore"
  /\ des' = [i \in Ifaces |-> IF i \in AutoManaged THEN Iface("up", Unset, Unset)
                              ELSE des[i]]
  /\ UNCHANGED <<cur, listed, ignored, merged, apply, pending, prio>>

(* Mutant: the ignored interfaces stay in the lists of ports. *)
RemoveIgnoredOnly(ifaces, out, keep) ==
  [i \in Ifaces |-> IF i \in out THEN NoIface ELSE ifaces[i]]

(* Interfaces::remove_ignored_ifaces(), for the ignored interfaces out.    *)
(* Interface::remove_port() leaves the lists of the controllers in keep as *)
(* they are.                                                               *)
RemoveIgnored(ifaces, out, keep) ==
  [i \in Ifaces |->
     IF i \in out THEN NoIface
     ELSE IF i \in Ctrls \ keep /\ ifaces[i].ports # Unset
     THEN [ifaces[i] EXCEPT !.ports = @ \ out] ELSE ifaces[i]]

(* get_ignored_ifaces() and what MergedInterfaces::new() does with them.   *)
(* Interface::remove_port() knows no VRFs, and BondInterface::remove_port()*)
(* only `port`, so that a desired bond keeps the ports of ports-config.    *)
Ignore ==
  /\ pc = "ignore"
  /\ pc' = "merge"
  /\ ignored' = {i \in Ifaces : \/ des[i].state = "ignore"
                                \/ cur[i].state = "ignore" /\ ~Is(des[i])}
  /\ cur' = RemoveIgnored(cur, ignored', Vrfs)
  /\ \E b \in SUBSET Bonds : des' = RemoveIgnored(des, ignored', Vrfs \cup b)
  /\ UNCHANGED <<listed, merged, apply, pending, prio>>

(* merge_desire_with_current() *)
MergeIface(d, c) ==
  IF ~Is(d) THEN c
  ELSE Iface(d.state, IF d.ports = Unset THEN c.ports ELSE d.ports,
             IF d.ctrl = Unset THEN c.ctrl ELSE d.ctrl)

(* MergedInterface::create_ovs_iface_for_empty_ports(): an OVS bridge      *)
(* without ports gets its internal interface.                              *)
NeedsInternal(i) ==
  /\ i \in OvsBridges /\ Up(des[i])
  /\ PortsOf(MergeIface(des[i], cur[i])) \in {Unset, {}}

Merge ==
  LET Fill(i, iface) ==
        IF NeedsInternal(i) THEN [iface EXCEPT !.ports = {Internal[i]}] ELSE iface
  IN /\ pc = "merge"
     /\ pc' = "lists"
     /\ des' = [i \in Ifaces |-> Fill(i, des[i])]
     /\ apply' = des'
     /\ merged' = [i \in Ifaces |-> Fill(i, MergeIface(des[i], cur[i]))]
     /\ UNCHANGED <<cur, listed, ignored, pending, prio>>
-----------------------------------------------------------------------------
Claims(p) == Is(des[p]) /\ Up(merged[p]) /\ des[p].ctrl \in Ctrls

(* validate_controller_not_in_port_list() *)
InOwnList ==
  \A p \in Ports : Claims(p) =>
    LET c == des[p].ctrl IN
    /\ Is(merged[c])
    /\ Is(des[c]) /\ PortsOf(des[c]) # Unset => p \in PortsOf(des[c])

(* The controllers whose lists count. *)
Listing == {c \in Ctrls : /\ Is(des[c]) /\ Up(merged[c])
                          /\ PortsOf(merged[c]) # Unset}

Held == {p \in Ports : \E c \in Listing : p \in PortsOf(merged[c])}

(* validate_controller_in_other_port_list(); of several controllers that   *)
(* list a port the map holds the last one.                                 *)
InNoOtherList(holder) ==
  \A p \in Held :
    Is(des[p]) /\ Up(merged[p]) /\ des[p].ctrl # Unset => des[p].ctrl = holder[p]

ValidateLists ==
  \E holder \in [Held -> Listing] :
    /\ \A p \in Held : p \in PortsOf(merged[holder[p]])
    /\ Check("lists", InOwnList /\ InNoOtherList(holder), "changes")
-----------------------------------------------------------------------------
(* MergedInterface::get_changed_ports().  conf holds the ports that a      *)
(* Linux bridge or bond configures otherwise: they count as attached.      *)
Attached(c, conf) ==
  LET now == IF cur[c].state \in {"none", "ignore"} THEN {} ELSE cur[c].ports
      same == IF c \in OvsBridges \cup Vrfs THEN now ELSE now \ conf
  IN IF des[c].state = "absent" THEN {}
     ELSE IF des[c].ports # Unset THEN des[c].ports \ same
     ELSE IF cur[c].state = "ignore" THEN cur[c].ports ELSE {}
(* Mutant: a controller that is removed keeps its ports. *)
DetachedIfListed(c) ==
  IF Up(cur[c]) /\ des[c].state # "absent" /\ des[c].ports # Unset
  THEN cur[c].ports \ des[c].ports ELSE {}

Detached(c) ==
  LET now == IF cur[c].state \in {"none", "ignore"} THEN {} ELSE cur[c].ports
  IN IF des[c].state = "absent" THEN IF Is(cur[c]) THEN cur[c].ports ELSE {}
     ELSE IF des[c].ports # Unset THEN now \ des[c].ports ELSE {}

Changing == {c \in Ctrls : Is(des[c])}

(* The orders in which the merged interfaces are walked through: first     *)
(* those of user space.                                                    *)
Walks == {w \in [1 .. Cardinality(Changing) -> Changing] :
            /\ \A c \in Changing : \E n \in DOMAIN w : w[n] = c
            /\ \A m, n \in DOMAIN w :
                 m < n /\ w[n] \in OvsBridges => w[m] \in OvsBridges}

(* What handle_changed_ports() collects for a port: the last attachment,   *)
(* else the first detachment.                                              *)
Pending(w, conf, p) ==
  LET At == {n \in DOMAIN w : p \in Attached(w[n], conf)}
      De == {n \in DOMAIN w : p \in Detached(w[n])}
      last == w[CHOOSE n \in At : \A m \in At : m <= n]
      first == w[CHOOSE n \in De : \A m \in De : m >= n]
  IN IF At # {} THEN Iface(merged[last].state, Unset, last)
     ELSE IF De # {} THEN Iface(merged[first].state, Unset, Detach)
     ELSE NoIface

CollectChanges ==
  /\ pc = "changes"
  /\ pc' = "change"
  /\ \E w \in Walks, conf \in SUBSET {p \in Ports : cur[p].ctrl \in Ctrls} :
       pending' = [p \in Ports |-> Pending(w, conf, p)]
  /\ UNCHANGED <<cur, des, listed, ignored, merged, apply, prio>>

(* clone_name_type_only() and preserve_current_controller_info() of        *)
(* MergedInterface::mark_as_changed().                                     *)
Changed(p) == IF Is(des[p]) THEN apply[p] ELSE Iface("up", Unset, cur[p].ctrl)

(* MergedInterface::apply_ctrller_change() to ctrl, which is in state s:   *)
(* it fails, or gives what is to be applied and what is expected.          *)
CannotLive(p, ctrl) ==
  p \in OvsIfaces /\ ctrl = Detach /\ cur[p].ctrl # Unset /\ Up(apply[p])
(* Mutant: an OVS interface is detached like any other. *)
ApplyChangeAny(p, ctrl) == [Changed(p) EXCEPT !.ctrl = ctrl]

ApplyChange(p, ctrl) ==
  IF p \in OvsIfaces /\ ctrl = Detach
  THEN [Changed(p) EXCEPT !.state = "absent"] ELSE [Changed(p) EXCEPT !.ctrl = ctrl]
MergedChange(p, ctrl, s) ==
  LET m == IF ~Is(des[p]) /\ s = "up" THEN [merged[p] EXCEPT !.state = "up"]
           ELSE merged[p]
  IN IF p \in OvsIfaces /\ ctrl = Detach
     THEN [m EXCEPT !.state = "absent"] ELSE [m EXCEPT !.ctrl = ctrl]

(* handle_changed_ports() for one of the pending changes, in any order. *)
ChangePort(p) ==
  LET ctrl == pending[p].ctrl
      new == Iface("up", Unset, ctrl)
  IN /\ pc = "change" /\ Is(pending[p])
     /\ \/ /\ Is(merged[p]) /\ CannotLive(p, ctrl)
           /\ Fail
        \/ /\ Is(merged[p]) /\ ~CannotLive(p, ctrl)
           /\ listed' = listed \cup (IF Is(apply[p]) THEN {} ELSE {p})
           /\ apply' = [apply EXCEPT ![p] = ApplyChange(p, ctrl)]
           /\ merged' = [merged EXCEPT ![p] = MergedChange(p, ctrl, pending[p].state)]
           /\ pending' = [pending EXCEPT ![p] = NoIface]
           /\ UNCHANGED <<pc, cur, des, ignored, prio>>
        \/ /\ ~Is(merged[p]) /\ ctrl \in OvsBridges
           /\ listed' = listed \cup {p}
           /\ apply' = [apply EXCEPT ![p] = new]
           /\ merged' = [merged EXCEPT ![p] = new]
           /\ des' = [des EXCEPT ![p] = new]
           /\ pending' = [pending EXCEPT ![p] = NoIface]
           /\ UNCHANGED <<pc, cur, ignored, prio>>
        \/ /\ ~Is(merged[p]) /\ ctrl \in Ctrls \ OvsBridges
           /\ Fail

(* A detached port that does not exist needs nothing. *)
ChangesDone ==
  /\ pc = "change"
  /\ \A p \in Ports : Is(pending[p]) => ~Is(merged[p]) /\ pending[p].ctrl = Detach
  /\ pc' = "resolve"
  /\ UNCHANGED <<cur, des, listed, ignored, merged, apply, pending, prio>>

(* Mutant: only ports that nothing is known of yet are resolved. *)
ResolveUnchanged ==
  /\ pc = "resolve"
  /\ pc' = "priority"
  /\ apply' = [i \in Ifaces |-> IF i \in Ports /\ Claims(i) /\ apply[i].ctrl = Unset
                                THEN ApplyChange(i, des[i].ctrl) ELSE apply[i]]
  /\ UNCHANGED <<cur, des, listed, ignored, merged, pending, prio>>

(* Mutant: a desired interface that names no controller gets none. *)
ResolveUnnamed ==
  /\ pc = "resolve"
  /\ pc' = "priority"
  /\ apply' = [i \in Ifaces |->
                 IF i \in Ports /\ Claims(i) THEN ApplyChange(i, des[i].ctrl)
                 ELSE IF i \in Ports \ OvsIfaces /\ Up(des[i])
                 THEN [apply[i] EXCEPT !.ctrl = Detach] ELSE apply[i]]
  /\ UNCHANGED <<cur, des, listed, ignored, merged, pending, prio>>

(* resolve_port_iface_controller_type().  The controller exists:           *)
(* validate_controller_not_in_port_list() has looked for it.               *)
Resolve ==
  /\ pc = "resolve"
  /\ pc' = "priority"
  /\ apply' = [i \in Ifaces |-> IF i \in Ports /\ Claims(i)
                                THEN ApplyChange(i, des[i].ctrl) ELSE apply[i]]
  /\ merged' = [i \in Ifaces |-> IF i \in Ports /\ Claims(i)
                                 THEN [merged[i] EXCEPT !.ctrl = des[i].ctrl]
                                 ELSE merged[i]]
  /\ UNCHANGED <<cur, des, listed, ignored, pending, prio>>

(* The kernel interface that is found by the name of an interface: an OVS  *)
(* bridge shares its name with its internal interface.                     *)
KernelOf(i) == IF i \in OvsBridges THEN Internal[i] ELSE i

(* Interface::parent(), which is the bridge for an OVS interface. *)
Above(p) == KernelOf(IF p \in OvsIfaces THEN apply[p].ctrl ELSE Parent[p])

(* The ports whose controllers are to be changed too, and the interfaces   *)
(* that are on top of another one.                                         *)
Waiting == {p \in Ports \cap listed : /\ Up(apply[p]) /\ apply[p].ctrl \in Ctrls
                                      /\ Is(apply[apply[p].ctrl])}
Upper == {p \in Ports \cap listed : Up(apply[p]) /\ Above(p) \in Ifaces}

(* The loop of set_ifaces_up_priority() over the controllers, where at     *)
(* says how the interfaces follow each other in insert_order: a port is    *)
(* put after what has its controller's name, if that has its place by now, *)
(* else after its controller, which has none of its own here.              *)
ControllerLoop(at, first) ==
  \A p \in Waiting :
    LET c == KernelOf(apply[p].ctrl)
    IN first[p] = IF c \in Waiting /\ at[c] < at[p] THEN first[c] + 1 ELSE 1

(* The loop over the parents, which starts from what the first one found. *)
ParentLoop(at, first, last) ==
  \A p \in Upper :
    LET a == Above(p)
        found == IF a \in Upper /\ at[a] < at[p] THEN last[a]
                 ELSE IF a \in Waiting THEN first[a] ELSE 0
        valid == Is(apply[a]) /\ apply[a].ctrl \notin Ctrls
    IN last[p] = IF found > 0 \/ valid THEN found + 1
                 ELSE IF p \in Waiting THEN first[p] ELSE 0

(* Mutant: only the controller the desired port names counts. *)
SetUpPriorityDesired ==
  /\ pc = "priority"
  /\ pc' = "overbook"
  /\ prio' = [i \in Ifaces |-> IF i \in listed /\ Up(apply[i]) /\ des[i].ctrl \in Ctrls
                               THEN 1 ELSE 0]
  /\ UNCHANGED <<cur, des, listed, ignored, merged, apply, pending>>

(* Mutant: the bridge gets the priority of what has its name. *)
SetUpPriorityByName ==
  /\ pc = "priority"
  /\ pc' = "overbook"
  /\ prio' = [i \in Ifaces |-> IF KernelOf(i) \in Waiting THEN 1 ELSE 0]
  /\ UNCHANGED <<cur, des, listed, ignored, merged, apply, pending>>

(* set_ifaces_up_priority() where no controller has a controller or a      *)
(* parent, so that one pass finds every priority; module UpPriority has    *)
(* the rest.  insert_order may be any.                                     *)
SetUpPriority ==
  LET Places == Waiting \cup Upper
      High == 1 + Cardinality(OvsBridges)
  IN /\ pc = "priority"
     /\ pc' = "overbook"
     /\ \E at \in [Places -> 1 .. Cardinality(Places)], first \in [Waiting -> 1 .. High] :
          /\ \A p, q \in Places : at[p] = at[q] => p = q
          /\ ControllerLoop(at, first)
          /\ \E last \in [Upper -> 0 .. High + Cardinality(Upper)] :
               /\ ParentLoop(at, first, last)
               /\ prio' = [i \in Ifaces |-> IF i \in Upper THEN last[i]
                                            ELSE IF i \in Waiting THEN first[i] ELSE 0]
     /\ UNCHANGED <<cur, des, listed, ignored, merged, apply, pending>>

(* check_overbook_ports() *)
Overbook ==
  Check("overbook",
        \A c, d \in Listing :
          c # d => PortsOf(merged[c]) \cap PortsOf(merged[d]) = {},
        "orphans")
-----------------------------------------------------------------------------
(* mark_orphan_interface_as_absent(): one level, what is gone is collected *)
(* before anything is marked.                                              *)
Gone == {i \in (Ctrls \ OvsBridges) \cup (Ports \ Ethernet) :
           Is(apply[i]) /\ merged[i].state = "absent"}
(* Mutant: only what the desired state removes is gone. *)
OrphansDesired ==
  {p \in Ports \ OvsIfaces :
     Up(merged[p]) /\ Parent[p] \in {i \in Gone : Is(des[i])}}

Orphans == {p \in Ports \ OvsIfaces : Up(merged[p]) /\ Parent[p] \in Gone}

MarkOrphans ==
  /\ pc = "orphans"
  /\ \/ (\E p \in Orphans : Is(des[p])) /\ Fail
     \/ /\ \A p \in Orphans : ~Is(des[p])
        /\ pc' = "post"
        /\ merged' = [i \in Ifaces |->
                         IF i \in Orphans THEN [merged[i] EXCEPT !.state = "absent"]
                         ELSE merged[i]]
        /\ apply' = [i \in Ifaces |->
                        IF i \in Orphans THEN [Changed(i) EXCEPT !.state = "absent"]
                        ELSE apply[i]]
        /\ UNCHANGED <<cur, des, listed, ignored, pending, prio>>

(* preserve_current_controller_info() in post_inter_ifaces_process() *)
PostProcess ==
  /\ pc = "post"
  /\ pc' = "ok"
  /\ apply' = [i \in Ifaces |-> IF Is(apply[i]) /\ apply[i].ctrl = Unset
                                THEN [apply[i] EXCEPT !.ctrl = cur[i].ctrl]
                                ELSE apply[i]]
  /\ UNCHANGED <<cur, des, listed, ignored, merged, pending, prio>>

Done == pc \in {"ok", "err"} /\ UNCHANGED vars

Next ==
  \/ AutoManage \/ Ignore \/ Merge \/ ValidateLists \/ CollectChanges
  \/ \E p \in Ports : ChangePort(p)
  \/ ChangesDone \/ Resolve \/ SetUpPriority \/ Overbook
  \/ MarkOrphans \/ PostProcess \/ Done

Spec == Init /\ [][Next]_vars
-----------------------------------------------------------------------------
(* What an interface is after the backend has applied for_apply. *)
Final(i) == IF Is(apply[i]) THEN apply[i] ELSE cur[i]
ListedIn(p, c) == Is(des[c]) /\ PortsOf(des[c]) # Unset /\ p \in PortsOf(des[c])

Records == [state : {"none", "up", "down", "absent", "ignore"},
            ports : (SUBSET Ports) \cup {Unset},
            ctrl : Ctrls \cup {Unset, Detach}]

(* Types of the records MergedInterfaces::new() works on.  Priorities are  *)
(* given to kernel interfaces by name: no OVS bridge gets that of the      *)
(* interface with its name.                                                *)
TypeOK ==
  /\ pc \in {"auto", "ignore", "merge", "lists", "changes", "change", "resolve",
             "priority", "overbook", "orphans", "post", "ok", "err"}
  /\ cur \in [Ifaces -> Records] /\ des \in [Ifaces -> Records]
  /\ merged \in [Ifaces -> Records] /\ apply \in [Ifaces -> Records]
  /\ listed \subseteq Ifaces /\ ignored \subseteq Ifaces
  /\ pending \in [Ports -> Records]
  /\ prio \in [Ifaces -> Nat] /\ \A c \in Ctrls : prio[c] = 0

(* MergedInterfaces::process(): a port that a controller to be up lists    *)
(* ends with that controller, whatever the order in which the hash maps    *)
(* were walked through and wherever the port was before.  The exceptions   *)
(* are a port that a controller to be down has too, which none of the      *)
(* checks sees (it lists the port, or it was ignored until now and has     *)
(* it), one that is deleted with what it is on top of, and one that is     *)
(* ignored, which stays where it is: in the list of a VRF.                 *)
ListedPortsJoin ==
  pc = "ok" =>
    \A c \in Ctrls, p \in Ports :
      Up(des[c]) /\ ListedIn(p, c)
      => \/ Final(p).ctrl = c
         \/ Parent[p] \in Gone
         \/ p \in ignored /\ c \in Vrfs
         \/ \E d \in Ctrls \ {c} :
              /\ des[d].state = "down"
              /\ \/ ListedIn(p, d)
                 \/ /\ cur[d].state = "ignore" /\ p \in cur[d].ports
                    /\ des[d].ports = Unset

(* resolve_port_iface_controller_type(): an interface that is to be up and *)
(* names its controller ends with that controller, also when another one   *)
(* that lists it or loses it is changed by the same desired state.         *)
NamedControllerWins ==
  pc = "ok" =>
    \A p \in Ports :
      Up(des[p]) /\ des[p].ctrl \in Ctrls => Final(p).ctrl = des[p].ctrl

(* handle_changed_ports(), resolve_port_iface_controller_type() and        *)
(* preserve_current_controller_info(): no interface is kept up under a     *)
(* controller that is being removed, or that has a desired list of ports   *)
(* without it; only a controller that was ignored until now is not asked   *)
(* which ports it loses.                                                   *)
NoStaleController ==
  pc = "ok" =>
    \A p \in Ports :
      LET c == Final(p).ctrl IN
      Up(Final(p)) /\ c \in Ctrls /\ Is(des[c])
      => \/ des[c].state # "absent" /\ (des[c].ports # Unset => p \in des[c].ports)
         \/ cur[c].state = "ignore" /\ des[c].state # "absent"

(* apply_ctrller_change(): an OVS interface that its bridge loses, by its  *)
(* list or by its removal, is not left up without a bridge, unless the     *)
(* desired state detaches it itself.                                       *)
OvsInterfaceHasBridge ==
  pc = "ok" =>
    \A p \in OvsIfaces :
      /\ Up(Final(p)) /\ cur[p].ctrl \in Ctrls /\ Is(merged[cur[p].ctrl])
      /\ des[p].ctrl # Detach
      => Final(p).ctrl \in Ctrls /\ merged[Final(p).ctrl].state # "absent"

(* mark_orphan_interface_as_absent(): nothing stays up on top of an        *)
(* interface that is deleted, be it deleted by the desired state or        *)
(* because it lost its controller.                                         *)
NoOrphans ==
  pc = "ok" =>
    \A p \in Ports \ OvsIfaces :
      Is(merged[p]) /\ Up(Final(p)) /\ Parent[p] \in Ifaces \ (OvsBridges \cup Ethernet)
      => Final(Parent[p]).state # "absent"

(* The interface that an OVS bridge without ports is given. *)
Recreated(i) ==
  \E b \in OvsBridges : i = Internal[b] /\ Up(des[b]) /\ des[b].ports = {i}

(* remove_ignored_ifaces(): an interface that is ignored is neither        *)
(* changed nor listed in what a controller is to become, unless that is a  *)
(* VRF.  The exception is the internal interface of an OVS bridge that is  *)
(* left without ports: create_ovs_iface_for_empty_ports() brings it back.  *)
IgnoredUntouched ==
  pc \notin {"auto", "ignore", "err"} =>
    \A i \in ignored :
      \/ ~Is(apply[i]) /\ (pc = "ok" => \A c \in Ctrls \ Vrfs : ~ListedIn(i, c))
      \/ Recreated(i)

(* set_ifaces_up_priority(): a port that a controller gets is brought up   *)
(* after the controller, whoever of the two the desired state names and    *)
(* whatever the port is on top of.  The exception is a port that is        *)
(* managed only because it is listed.                                      *)
NewPortAfterController ==
  pc = "ok" =>
    \A p \in Ports :
      LET c == apply[p].ctrl IN
      /\ Up(apply[p]) /\ c \in Ctrls /\ Is(apply[c]) /\ c # cur[p].ctrl
      /\ cur[p].state = "ignore" => p \in listed
      => prio[p] > prio[c]
=============================================================================
