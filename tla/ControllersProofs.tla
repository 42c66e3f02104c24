-------------------------- MODULE ControllersProofs --------------------------
(***************************************************************************)
(* Proofs about Controllers: the inductive invariant, the steps that       *)
(* preserve it, and that what MergedInterfaces::process() collects for the *)
(* ports does not depend on the order of the hash maps; every property of  *)
(* Controllers follows.                                                    *)
(***************************************************************************)
EXTENDS Controllers, FiniteSetTheorems, TLAPS

(* What the kernel shows of a controller and of its ports fits together,   *)
(* also without the ignored interfaces, which only VRFs still list.        *)
CurShape ==
  /\ \A i \in Ifaces : /\ cur[i].state \in {"none", "up", "ignore"}
                       /\ ~Is(cur[i]) => cur[i] = NoIface
  /\ \A c \in Ctrls : /\ cur[c].ctrl = Unset
                      /\ Is(cur[c]) => cur[c].ports \in SUBSET Ports
  /\ \A p \in Ports : cur[p].ports = Unset /\ cur[p].ctrl \in Ctrls \cup {Unset}
  /\ \A c \in Ctrls, p \in Ports :
       /\ Is(cur[c]) /\ p \in cur[c].ports =>
            IF p \in ignored THEN c \in Vrfs ELSE Is(cur[p]) /\ cur[p].ctrl = c
       /\ cur[p].ctrl = c /\ Is(des[c]) => Is(cur[c])
       /\ cur[p].ctrl = c /\ Is(cur[c]) => p \in cur[c].ports
  /\ \A i \in ignored : ~Is(cur[i])

DesShape ==
  /\ \A i \in Ifaces : ~Is(des[i]) => des[i] = NoIface
  /\ \A c \in Ctrls : des[c].ctrl = Unset
  /\ \A p \in Ports : des[p].ports = Unset /\ (des[p].ctrl # Unset => Up(des[p]))
  /\ \A i \in Ifaces : Is(des[i]) /\ cur[i].state # "ignore" => i \in listed

Early == {"auto", "ignore", "merge"}
Later == {"lists", "changes", "change", "resolve", "priority", "overbook",
          "orphans", "post", "ok"}

(* Nothing is merged yet. *)
Blank ==
  pc \in Early =>
    /\ \A i \in Ifaces : merged[i] = NoIface /\ apply[i] = NoIface
    /\ \A p \in Ports : pending[p] = NoIface

(* The ignored interfaces are out. *)
Kept ==
  pc \in Later \cup {"merge"} =>
    \A i \in Ifaces : /\ des[i].state # "ignore"
                      /\ ~Is(des[i]) => cur[i].state # "ignore"

(* No ignored interface is desired, nor does an OVS bridge list one,       *)
(* unless the bridge was given it.                                         *)
IgnoredOut ==
  /\ pc \in {"auto", "ignore"} => ignored = {}
  /\ pc \in Later \cup {"merge"} =>
       \A i \in ignored :
         /\ Is(des[i]) => pc \notin {"merge", "lists", "changes"} /\ Recreated(i)
         /\ i \in Ports /\ Is(pending[i]) => ~Is(des[i])
         /\ \A b \in OvsBridges :
              des[b].ports # Unset /\ i \in des[b].ports => pc # "merge" /\ Recreated(i)

(* Nothing changes a controller once it is merged. *)
CtrlsMerged ==
  pc \in Later =>
    \A c \in Ctrls :
      /\ apply[c] = des[c]
      /\ merged[c].state = IF Is(des[c]) THEN des[c].state ELSE cur[c].state
      /\ Is(des[c]) => merged[c].ports = IF des[c].ports = Unset THEN cur[c].ports
                                         ELSE des[c].ports

(* What is expected of a port agrees with what is applied to it. *)
StatesAgree ==
  pc \in Later =>
    \A p \in Ports :
      /\ Is(merged[p]) <=> Is(cur[p]) \/ Is(des[p])
      /\ Is(des[p]) => Is(apply[p])
      /\ Up(des[p]) => Up(apply[p])
      /\ Is(apply[p]) => merged[p].state = apply[p].state
      /\ Is(merged[p]) /\ ~Is(apply[p]) => Up(merged[p]) /\ Up(cur[p])
      /\ Up(apply[p]) /\ cur[p].state # "ignore" => p \in listed

Untouched(p) == apply[p] = des[p] /\ merged[p] = MergeIface(des[p], cur[p])

(* A controller may get, must get and loses a port. *)
MayGet(c, p) == c \in Changing /\ p \in Attached(c, Ports)
MustGet(c, p) == c \in Changing /\ p \in Attached(c, {})
Loses(c, p) == c \in Changing /\ p \in Detached(c)
OnlyLost(p) == /\ \E c \in Ctrls : Loses(c, p)
               /\ \A c \in Ctrls : ~MustGet(c, p)

(* The controller a port has in the end. *)
Holder(p) == IF Is(apply[p]) /\ apply[p].ctrl # Unset THEN apply[p].ctrl
             ELSE cur[p].ctrl

(* What handle_changed_ports() makes of a port: nothing, a port of a       *)
(* controller that gets it, or of none, which it is if it is ignored.      *)
Outcome(p) ==
  \/ /\ \A c \in Ctrls : ~MustGet(c, p) /\ ~Loses(c, p)
     /\ Holder(p) = IF des[p].ctrl = Unset THEN cur[p].ctrl ELSE des[p].ctrl
  \/ Holder(p) \in Ctrls /\ MayGet(Holder(p), p)
  \/ /\ OnlyLost(p)
     /\ \/ IF p \in OvsIfaces THEN apply[p].state = "absent" ELSE Holder(p) = Detach
        \/ ~Is(cur[p]) /\ Holder(p) = Unset

Named(p) == Up(des[p]) /\ des[p].ctrl \in Ctrls

Changes ==
  /\ pc \in {"lists", "changes"} => \A p \in Ports : Untouched(p) /\ pending[p] = NoIface
  /\ pc = "change" =>
       \A p \in Ports :
         /\ Is(pending[p]) => /\ Untouched(p)
                              /\ \/ pending[p].ctrl \in Ctrls /\ MayGet(pending[p].ctrl, p)
                                 \/ pending[p].ctrl = Detach /\ OnlyLost(p)
         /\ ~Is(pending[p]) => Outcome(p)
  /\ pc = "resolve" => \A p \in Ports : Outcome(p)
  /\ pc \in {"priority", "overbook", "orphans"} =>
       \A p \in Ports : IF Named(p) THEN Holder(p) = des[p].ctrl ELSE Outcome(p)
  /\ pc \in {"post", "ok"} =>
       \A p \in Ports : IF Named(p) THEN Holder(p) = des[p].ctrl
                        ELSE \/ Outcome(p)
                             \/ apply[p].state = "absent" /\ Parent[p] \in Gone

(* What the checks before and after the changes have found. *)
HasIt(c, p) == c \in Listing /\ p \in PortsOf(merged[c])
PortChecked(p) ==
  /\ Named(p) =>
       LET c == des[p].ctrl IN
       /\ merged[c].state \notin {"none", "absent"}
       /\ Is(des[c]) /\ des[c].ports # Unset => p \in des[c].ports
  /\ des[p].ctrl # Unset /\ (\E c \in Ctrls : HasIt(c, p)) =>
       des[p].ctrl \in Ctrls /\ (HasIt(des[p].ctrl, p) \/ MayGet(des[p].ctrl, p))
ListsChecked == pc \in Later \ {"lists"} => \A p \in Ports : PortChecked(p)
OneHasIt ==
  pc \in {"orphans", "post", "ok"} =>
    \A c, d \in Ctrls, p \in Ports : HasIt(c, p) /\ HasIt(d, p) => c = d

(* Ports after their controllers. *)
Priorities ==
  pc \in {"overbook", "orphans", "post", "ok"} =>
    \A p \in Ports :
      /\ p \in listed /\ Up(apply[p])
      /\ apply[p].ctrl \in Ctrls /\ Is(apply[apply[p].ctrl])
      /\ pc = "ok" => apply[p].ctrl # cur[p].ctrl
      => prio[p] > 0

(* What is still up on top of something that is deleted is so because      *)
(* that was itself marked as an orphan.                                    *)
Marked ==
  pc \in {"post", "ok"} =>
    \A p \in Ports \ OvsIfaces :
      Up(merged[p]) /\ Parent[p] \in Gone =>
        Parent[p] \in Ports \ OvsIfaces /\ Parent[Parent[p]] \in Gone

(* At the end every applied port has its controller. *)
AtLast ==
  pc = "ok" => \A p \in Ports : Is(apply[p]) /\ apply[p].ctrl = Unset => cur[p].ctrl = Unset

Inv == /\ TypeOK /\ CurShape /\ DesShape /\ Blank /\ Kept /\ IgnoredOut
       /\ CtrlsMerged /\ StatesAgree
       /\ Changes /\ ListsChecked /\ OneHasIt /\ Priorities /\ Marked /\ AtLast
-----------------------------------------------------------------------------
(* Names of things are not mixed up. *)
LEMMA Apart ==
  /\ Ctrls \cap Ports = {} /\ OvsBridges \subseteq Ctrls /\ OvsIfaces \subseteq Ports
  /\ Unset \notin Ctrls /\ Detach \notin Ctrls /\ Unset # Detach /\ Unset \notin Ports
  /\ \A l \in SUBSET Ports : l # Unset
  /\ Ctrls \subseteq Ifaces /\ Ports \subseteq Ifaces
  /\ \A i \in Ifaces : i \in Ctrls \/ i \in Ports
  /\ Vrfs \cap OvsBridges = {} /\ Bonds \cap OvsBridges = {}
BY ControllersAssumption DEF Ifaces

(* get_changed_ports(), case by case. *)
LEMMA GetFacts ==
  ASSUME NEW c \in Ctrls, NEW p \in Ports, TypeOK, CurShape
  PROVE  /\ MayGet(c, p) => /\ Is(des[c]) /\ des[c].state # "absent"
                            /\ \/ des[c].ports # Unset /\ p \in des[c].ports
                               \/ /\ des[c].ports = Unset /\ cur[c].state = "ignore"
                                  /\ p \in cur[c].ports
         /\ /\ Is(des[c]) /\ des[c].state # "absent"
            /\ des[c].ports # Unset /\ p \in des[c].ports
            => MustGet(c, p) \/ (cur[c].state = "up" /\ p \in cur[c].ports)
<1> USE Apart
<1>1. cur[c].state \in {"none", "up", "ignore"}
  BY DEF CurShape, Ifaces
<1>2. MayGet(c, p) => /\ Is(des[c]) /\ des[c].state # "absent"
                      /\ \/ des[c].ports # Unset /\ p \in des[c].ports
                         \/ /\ des[c].ports = Unset /\ cur[c].state = "ignore"
                            /\ p \in cur[c].ports
  BY DEF MayGet, Attached, Changing
<1>3. CASE /\ Is(des[c]) /\ des[c].state # "absent"
           /\ des[c].ports # Unset /\ p \in des[c].ports
  <2>1. c \in Changing
    BY <1>3 DEF Changing
  <2>2. CASE cur[c].state = "up"
    BY <1>3, <2>1, <2>2 DEF MustGet, Attached
  <2>3. CASE cur[c].state \in {"none", "ignore"}
    BY <1>3, <2>1, <2>3 DEF MustGet, Attached
  <2> QED BY <1>1, <2>2, <2>3
<1> QED BY <1>2, <1>3

LEMMA LoseFacts ==
  ASSUME NEW c \in Ctrls, NEW p \in Ports, TypeOK, CurShape
  PROVE  /\ Loses(c, p) => /\ Is(des[c]) /\ Is(cur[c]) /\ p \in cur[c].ports
                           /\ \/ des[c].state = "absent"
                              \/ des[c].ports # Unset /\ p \notin des[c].ports
         /\ /\ Is(des[c]) /\ Is(cur[c]) /\ p \in cur[c].ports
            /\ ~Loses(c, p)
            => /\ des[c].state # "absent"
               /\ \/ des[c].ports = Unset \/ p \in des[c].ports
                  \/ cur[c].state = "ignore"
BY Apart DEF Loses, Detached, Changing, CurShape, Ifaces, Is
-----------------------------------------------------------------------------
(* What the invariant says at the end. *)
LEMMA AtTheEnd ==
  ASSUME NEW p \in Ports, Inv, pc = "ok"
  PROVE  /\ Final(p).ctrl = Holder(p)
         /\ Named(p) => Holder(p) = des[p].ctrl
         /\ ~Named(p) => \/ Outcome(p)
                         \/ Is(apply[p]) /\ apply[p].state = "absent" /\ Parent[p] \in Gone
<1>1. Final(p).ctrl = Holder(p)
  BY DEF Inv, AtLast, Final, Holder
<1> QED BY <1>1 DEF Inv, Changes, Is

LEMMA NamedWins == Inv => NamedControllerWins
BY AtTheEnd DEF NamedControllerWins, Named

LEMMA NoneIsStale == Inv => NoStaleController
<1> SUFFICES ASSUME Inv, pc = "ok", NEW p \in Ports, NEW c \in Ctrls, c = Final(p).ctrl,
                    Up(Final(p)), Is(des[c])
             PROVE  \/ des[c].state # "absent" /\ (des[c].ports # Unset => p \in des[c].ports)
                    \/ cur[c].state = "ignore" /\ des[c].state # "absent"
  BY DEF NoStaleController
<1> USE Apart
<1>0. TypeOK /\ CurShape /\ DesShape
  BY DEF Inv
<1>1. c = Holder(p)
  BY AtTheEnd
<1>2. CASE Named(p)
  <2>1. c = des[p].ctrl
    BY <1>1, <1>2, AtTheEnd
  <2>2. merged[c].state # "absent" /\ (Is(des[c]) /\ des[c].ports # Unset => p \in des[c].ports)
    BY <2>1, <1>2 DEF Inv, ListsChecked, PortChecked, Later
  <2>3. merged[c].state = des[c].state
    BY DEF Inv, CtrlsMerged, Later
  <2> QED BY <2>2, <2>3
<1>3. CASE MayGet(c, p)
  BY <1>0, <1>3, GetFacts
<1>4. CASE /\ \A d \in Ctrls : ~MustGet(d, p) /\ ~Loses(d, p)
           /\ Holder(p) = cur[p].ctrl
  <2>1. Is(cur[c]) /\ p \in cur[c].ports
    BY <1>0, <1>1, <1>4 DEF CurShape
  <2>2. ~Loses(c, p)
    BY <1>4
  <2> QED BY <1>0, <2>1, <2>2, LoseFacts
<1>5. CASE ~Named(p) /\ Outcome(p)
  <2>1. des[p].ctrl # Unset => Up(des[p]) /\ des[p].ctrl = Detach
    <3>1. des[p].ctrl \in Ctrls \cup {Unset, Detach}
      BY <1>0 DEF TypeOK, Records, Ifaces
    <3> QED BY <1>0, <1>5, <3>1 DEF DesShape, Named
  <2>2. Holder(p) # Detach /\ Holder(p) # Unset
    BY <1>1
  <2>3. ~(p \in OvsIfaces /\ apply[p].state = "absent")
    BY DEF Final, Up, Is
  <2> QED BY <1>1, <1>3, <1>4, <1>5, <2>1, <2>2, <2>3 DEF Outcome
<1> QED BY <1>2, <1>5, AtTheEnd DEF Final, Up

LEMMA BridgesStay == Inv => OvsInterfaceHasBridge
<1> SUFFICES ASSUME Inv, pc = "ok", NEW p \in OvsIfaces, Up(Final(p)),
                    NEW b \in Ctrls, b = cur[p].ctrl, Is(merged[b]), des[p].ctrl # Detach
             PROVE  Final(p).ctrl \in Ctrls /\ merged[Final(p).ctrl].state # "absent"
  BY DEF OvsInterfaceHasBridge
<1> USE Apart
<1>0. TypeOK /\ CurShape /\ DesShape /\ p \in Ports
  BY DEF Inv
<1>1. Final(p).ctrl = Holder(p)
  BY <1>0, AtTheEnd
<1>m. \A c \in Ctrls : merged[c].state = IF Is(des[c]) THEN des[c].state ELSE cur[c].state
  BY DEF Inv, CtrlsMerged, Later
<1>2. CASE Named(p)
  <2>1. Holder(p) = des[p].ctrl /\ des[p].ctrl \in Ctrls
    BY <1>0, <1>2, AtTheEnd DEF Named
  <2>2. merged[des[p].ctrl].state # "absent"
    BY <1>0, <1>2 DEF Inv, ListsChecked, PortChecked, Later
  <2> QED BY <1>1, <2>1, <2>2
<1>3. CASE Holder(p) \in Ctrls /\ MayGet(Holder(p), p)
  BY <1>0, <1>1, <1>3, <1>m, GetFacts
<1>4. CASE /\ \A d \in Ctrls : ~MustGet(d, p) /\ ~Loses(d, p)
           /\ Holder(p) = b
  <2>1. Is(des[b]) => Is(cur[b]) /\ p \in cur[b].ports
    BY <1>0 DEF CurShape
  <2>2. Is(des[b]) => des[b].state # "absent"
    BY <1>0, <1>4, <2>1, LoseFacts
  <2>3. cur[b].state # "absent"
    BY <1>0 DEF CurShape, Ifaces
  <2> QED BY <1>1, <1>4, <1>m, <2>2, <2>3
<1>5. CASE ~Named(p) /\ Outcome(p)
  <2>1. des[p].ctrl = Unset
    BY <1>0, <1>5 DEF DesShape, Named, TypeOK, Records, Ifaces
  <2>2. apply[p].state # "absent"
    BY <1>0 DEF Final, Up, Is, Inv, Changes, TypeOK
  <2>3. Is(cur[p])
    BY <1>0 DEF CurShape, NoIface
  <2> QED BY <1>3, <1>4, <1>5, <2>1, <2>2, <2>3 DEF Outcome
<1> QED BY <1>0, <1>2, <1>5, AtTheEnd DEF Final, Up

(* What a controller gets, its merged list has. *)
LEMMA MayGetHas ==
  ASSUME NEW d \in Ctrls, NEW p \in Ports, Inv, pc \in Later, MayGet(d, p)
  PROVE  /\ Up(des[d]) => HasIt(d, p)
         /\ ~Up(des[d]) => /\ des[d].state = "down"
                           /\ \/ ListedIn(p, d)
                              \/ /\ cur[d].state = "ignore" /\ p \in cur[d].ports
                                 /\ des[d].ports = Unset
<1> USE Apart
<1>0. TypeOK /\ CurShape
  BY DEF Inv
<1>1. /\ Is(des[d]) /\ des[d].state # "absent"
      /\ \/ des[d].ports # Unset /\ p \in des[d].ports
         \/ /\ des[d].ports = Unset /\ cur[d].state = "ignore"
            /\ p \in cur[d].ports
  BY <1>0, GetFacts
<1>2. /\ merged[d].state = des[d].state
      /\ merged[d].ports = IF des[d].ports = Unset THEN cur[d].ports ELSE des[d].ports
  BY <1>1 DEF Inv, CtrlsMerged
<1>3. merged[d].ports # Unset
  <2>1. CASE des[d].ports = Unset
    <3>1. cur[d].ports \in SUBSET Ports
      BY <1>0, <1>1, <2>1 DEF CurShape, Is
    <3> QED BY <1>2, <2>1, <3>1
  <2> QED BY <1>2, <2>1
<1>4. ASSUME Up(des[d]) PROVE HasIt(d, p)
  BY <1>1, <1>2, <1>3, <1>4 DEF HasIt, Listing, PortsOf, Up, Is
<1>5. ASSUME ~Up(des[d])
      PROVE  /\ des[d].state = "down"
             /\ des[d].ports # Unset => ListedIn(p, d)
  <2>1. des[d].state \in {"none", "up", "down", "absent", "ignore"}
    BY <1>0 DEF TypeOK, Records
  <2>2. des[d].state # "ignore"
    BY DEF Inv, Kept
  <2> QED BY <1>1, <1>5, <2>1, <2>2 DEF ListedIn, PortsOf, Up, Is
<1> QED BY <1>1, <1>4, <1>5

LEMMA ListedJoin == Inv => ListedPortsJoin
<1> SUFFICES ASSUME Inv, pc = "ok", NEW c \in Ctrls, NEW p \in Ports,
                    Up(des[c]), ListedIn(p, c), Parent[p] \notin Gone,
                    ~(p \in ignored /\ c \in Vrfs),
                    \A d \in Ctrls \ {c} :
                      ~ /\ des[d].state = "down"
                        /\ \/ ListedIn(p, d)
                           \/ /\ cur[d].state = "ignore" /\ p \in cur[d].ports
                              /\ des[d].ports = Unset
             PROVE  Final(p).ctrl = c
  BY DEF ListedPortsJoin
<1> USE Apart
<1>0. TypeOK /\ CurShape /\ DesShape /\ pc \in Later
  BY DEF Inv, Later
<1>1. Final(p).ctrl = Holder(p)
  BY AtTheEnd
<1>2. Is(des[c]) /\ des[c].state # "absent" /\ des[c].ports # Unset /\ p \in des[c].ports
  BY DEF ListedIn, PortsOf, Up
<1>3. HasIt(c, p)
  <2>1. merged[c].state = des[c].state /\ merged[c].ports = des[c].ports
    BY <1>0, <1>2 DEF Inv, CtrlsMerged
  <2> QED BY <1>2, <2>1 DEF HasIt, Listing, PortsOf, Up
<1>4. ASSUME NEW d \in Ctrls, HasIt(d, p) \/ MayGet(d, p) PROVE d = c
  <2>1. HasIt(d, p) => d = c
    BY <1>0, <1>3 DEF Inv, OneHasIt
  <2>2. MayGet(d, p) /\ Up(des[d]) => d = c
    BY <1>0, <2>1, MayGetHas
  <2>3. MayGet(d, p) /\ ~Up(des[d]) => d = c
    BY <1>0, MayGetHas
  <2> QED BY <1>4, <2>1, <2>2, <2>3
<1>5. des[p].ctrl # Unset => des[p].ctrl = c
  <2>1. des[p].ctrl # Unset =>
          des[p].ctrl \in Ctrls /\ (HasIt(des[p].ctrl, p) \/ MayGet(des[p].ctrl, p))
    BY <1>0, <1>3 DEF Inv, ListsChecked, PortChecked, Later
  <2> QED BY <1>4, <2>1
<1>6. ~MustGet(c, p) => /\ Is(cur[c]) /\ p \in cur[c].ports
                        /\ cur[p].ctrl = c /\ p \notin ignored
  <2>1. ~MustGet(c, p) => cur[c].state = "up" /\ p \in cur[c].ports
    BY <1>0, <1>2, GetFacts
  <2> QED BY <1>0, <2>1 DEF CurShape, Is
<1>7. CASE Named(p)
  BY <1>1, <1>5, <1>7, AtTheEnd DEF Named
<1>8. CASE ~Named(p)
  <2>1. Outcome(p)
    BY <1>8, AtTheEnd
  <2>2. CASE /\ \A d \in Ctrls : ~MustGet(d, p) /\ ~Loses(d, p)
             /\ Holder(p) = IF des[p].ctrl = Unset THEN cur[p].ctrl ELSE des[p].ctrl
    BY <1>1, <1>5, <1>6, <2>2
  <2>3. CASE Holder(p) \in Ctrls /\ MayGet(Holder(p), p)
    BY <1>1, <1>4, <2>3
  <2>4. ~OnlyLost(p)
    <3> SUFFICES ASSUME ~MustGet(c, p), NEW d \in Ctrls, Loses(d, p) PROVE FALSE
      BY DEF OnlyLost
    <3>1. Is(cur[d]) /\ p \in cur[d].ports
      BY <1>0, LoseFacts
    <3>2. d = c
      BY <1>0, <1>6, <3>1 DEF CurShape
    <3> QED BY <1>0, <1>2, <3>2, LoseFacts
  <2> QED BY <2>1, <2>2, <2>3, <2>4 DEF Outcome
<1> QED BY <1>7, <1>8

(* What is on top of something that can itself be deleted as an orphan     *)
(* would be an orphan only on the second level, which the code does not    *)
(* look at: parents that can be orphans are on top of something that is    *)
(* never deleted.                                                          *)
OneLevel ==
  \A p \in Ports \ OvsIfaces :
    Parent[p] \in Ports \ OvsIfaces =>
      Parent[Parent[p]] \in OvsBridges \cup Ethernet \cup {Unset}

LEMMA OrphansGo == ASSUME OneLevel PROVE Inv => NoOrphans
<1> SUFFICES ASSUME Inv, pc = "ok", NEW p \in Ports \ OvsIfaces,
                    Is(merged[p]), Up(Final(p)), NEW q, q = Parent[p],
                    q \in Ifaces \ (OvsBridges \cup Ethernet)
             PROVE  Final(q).state # "absent"
  BY DEF NoOrphans
<1> USE Apart
<1>0. TypeOK /\ CurShape /\ pc \in Later
  BY DEF Inv, Later
<1>1. Up(merged[p])
  BY <1>0 DEF Inv, StatesAgree, Final, Up, Is
<1>2. SUFFICES ASSUME Final(q).state = "absent" PROVE FALSE
  OBVIOUS
<1>3. Is(apply[q]) /\ apply[q].state = "absent"
  <2>1. cur[q].state # "absent"
    BY <1>0 DEF CurShape
  <2> QED BY <1>2, <2>1 DEF Final
<1>4. merged[q].state = "absent"
  <2>1. CASE q \in Ports
    BY <1>0, <1>3, <2>1 DEF Inv, StatesAgree
  <2>2. CASE q \in Ctrls
    BY <1>0, <1>3, <2>2 DEF Inv, CtrlsMerged
  <2> QED BY <2>1, <2>2
<1>5. q \in Gone
  BY <1>3, <1>4 DEF Gone
<1>6. q \in Ports \ OvsIfaces /\ Parent[q] \in Gone
  BY <1>1, <1>5 DEF Inv, Marked
<1>7. Parent[q] \in OvsBridges \cup Ethernet \cup {Unset}
  BY <1>6 DEF OneLevel
<1> QED BY <1>6, <1>7, ControllersAssumption DEF Gone

LEMMA IgnoredStay == Inv => IgnoredUntouched
<1> SUFFICES ASSUME Inv, pc \notin {"auto", "ignore", "err"}, NEW p \in ignored, ~Recreated(p)
             PROVE  /\ ~Is(apply[p])
                    /\ pc = "ok" => \A c \in Ctrls \ Vrfs : ~ListedIn(p, c)
  BY DEF IgnoredUntouched
<1> USE Apart
<1>0. TypeOK /\ CurShape /\ DesShape /\ p \in Ifaces /\ pc \in Later \cup {"merge"}
  BY DEF Inv, TypeOK, Later
<1>1. ~Is(cur[p]) /\ ~Is(des[p])
  BY <1>0 DEF Inv, CurShape, IgnoredOut
<1>2. ~Is(apply[p])
  <2>1. CASE pc = "merge"
    BY <1>0, <2>1 DEF Inv, Blank, Early, NoIface, Is
  <2>2. CASE pc \in Later /\ p \in Ports
    BY <1>1, <2>2 DEF Inv, StatesAgree, Is
  <2>3. CASE pc \in Later /\ p \in Ctrls
    BY <1>1, <2>3 DEF Inv, CtrlsMerged, Is
  <2> QED BY <1>0, <2>1, <2>2, <2>3
<1>3. ASSUME pc = "ok", NEW c \in Ctrls \ Vrfs, ListedIn(p, c) PROVE FALSE
  <2>1. Is(des[c]) /\ des[c].state # "absent" /\ des[c].ports # Unset /\ p \in des[c].ports
    BY <1>3 DEF ListedIn, PortsOf
  <2>2. p \in Ports
    BY <1>0, <2>1 DEF TypeOK, Records
  <2>3. ~(cur[c].state = "up" /\ p \in cur[c].ports)
    BY <1>0, <2>2 DEF CurShape, Is
  <2>4. MustGet(c, p)
    BY <1>0, <2>1, <2>2, <2>3, GetFacts
  <2>5. ~Named(p)
    BY <1>1 DEF Named, Up, Is
  <2>6. Outcome(p)
    BY <1>2, <1>3, <2>2, <2>5, AtTheEnd
  <2>7. Holder(p) = Unset
    BY <1>0, <1>1, <1>2 DEF Holder, CurShape, NoIface
  <2> QED BY <2>4, <2>6, <2>7 DEF Outcome, OnlyLost
<1> QED BY <1>2, <1>3

LEMMA PortsFollow == Inv => NewPortAfterController
<1> SUFFICES ASSUME Inv, pc = "ok", NEW p \in Ports, NEW c \in Ctrls, c = apply[p].ctrl,
                    Up(apply[p]), Is(apply[c]), c # cur[p].ctrl,
                    cur[p].state = "ignore" => p \in listed
             PROVE  prio[p] > prio[c]
  BY DEF NewPortAfterController
<1>1. p \in listed
  BY DEF Inv, StatesAgree, Later
<1>2. prio[p] > 0 /\ prio[c] = 0
  BY <1>1 DEF Inv, Priorities, TypeOK
<1> QED BY <1>2
-----------------------------------------------------------------------------
(* Records and their fields. *)
States == {"none", "up", "down", "absent", "ignore"}
PortLists == (SUBSET Ports) \cup {Unset}
CtrlNames == Ctrls \cup {Unset, Detach}

LEMMA RecordFields ==
  ASSUME NEW r \in Records
  PROVE  /\ r.state \in States /\ r.ports \in PortLists /\ r.ctrl \in CtrlNames
         /\ r = [state |-> r.state, ports |-> r.ports, ctrl |-> r.ctrl]
BY DEF Records, States, PortLists, CtrlNames

LEMMA NoIfaceType ==
  /\ NoIface \in Records
  /\ NoIface.state = "none" /\ NoIface.ports = Unset /\ NoIface.ctrl = Unset
BY DEF NoIface, Records

LEMMA IfaceType ==
  ASSUME NEW s \in States, NEW l \in PortLists, NEW c \in CtrlNames
  PROVE  /\ Iface(s, l, c) \in Records
         /\ Iface(s, l, c).state = s /\ Iface(s, l, c).ports = l
         /\ Iface(s, l, c).ctrl = c
BY DEF Iface, Records, States, PortLists, CtrlNames
-----------------------------------------------------------------------------
(* What the kernel may show. *)
LEMMA KernelShows ==
  ASSUME NEW w \in Scenarios, cur \in CurrentIfaces(w)
  PROVE  /\ cur \in [Ifaces -> Records]
         /\ \A i \in Ifaces : /\ cur[i].state \in {"none", "up", "ignore"}
                              /\ ~Is(cur[i]) => cur[i] = NoIface
         /\ \A c \in Ctrls : /\ cur[c].ctrl = Unset
                             /\ Is(cur[c]) => cur[c].ports \in SUBSET Ports
         /\ \A p \in Ports : cur[p].ports = Unset /\ cur[p].ctrl \in Ctrls \cup {Unset}
         /\ \A c \in Ctrls, p \in Ports :
              /\ Is(cur[c]) /\ p \in cur[c].ports => Is(cur[p]) /\ cur[p].ctrl = c
              /\ cur[p].ctrl = c => Is(cur[c]) /\ p \in cur[c].ports
<1> USE Apart
<1> DEFINE Here == w.ifaces
           State == [Here -> w.cur \cup {"none"}]
           Of == [Here \cap Ports -> (Here \cap Ctrls) \cup {Unset}]
<1>w. Here \subseteq Ifaces /\ w.cur \subseteq {"up", "ignore"}
  BY ControllersAssumption
<1>1. PICK x \in State \X Of :
        /\ \A p \in Here \cap Ports :
             /\ x[2][p] # Unset => /\ x[1][p] # "none" /\ x[1][x[2][p]] # "none"
                                   /\ x[2][p] # Parent[p]
             /\ p \in OvsIfaces /\ x[1][p] # "none" => x[2][p] \in OvsBridges
             /\ x[1][p] # "none" /\ Parent[p] \in Here => x[1][Parent[p]] # "none"
        /\ cur = [i \in Ifaces |->
                    IF i \notin Here \/ x[1][i] = "none" THEN NoIface
                    ELSE IF i \in Ports THEN Iface(x[1][i], Unset, x[2][i])
                    ELSE Iface(x[1][i], {p \in DOMAIN x[2] : x[2][p] = i}, Unset)]
  BY Zenon DEF CurrentIfaces
<1>2. PICK s \in State, of \in Of : x = <<s, of>>
  BY <1>1
<1> HIDE DEF Here
<1>3. /\ \A p \in Here \cap Ports : of[p] # Unset => s[p] # "none" /\ s[of[p]] # "none"
      /\ cur = [i \in Ifaces |->
                  IF i \notin Here \/ s[i] = "none" THEN NoIface
                  ELSE IF i \in Ports THEN Iface(s[i], Unset, of[i])
                  ELSE Iface(s[i], {p \in Here \cap Ports : of[p] = i}, Unset)]
  BY <1>1, <1>2
<1>s. \A i \in Here : s[i] \in {"none", "up", "ignore"}
  BY <1>2, <1>w
<1>o. \A p \in Here \cap Ports : of[p] \in (Here \cap Ctrls) \cup {Unset}
  BY <1>2
<1>4. ASSUME NEW i \in Ifaces, i \notin Here \/ s[i] = "none"
      PROVE  cur[i] = NoIface /\ cur[i].state = "none" /\ cur[i].ctrl = Unset /\ cur[i].ports = Unset
  BY <1>3, <1>4 DEF NoIface
<1>5. ASSUME NEW p \in Ports, p \in Here, s[p] # "none"
      PROVE  /\ cur[p] = Iface(s[p], Unset, of[p])
             /\ cur[p].state = s[p] /\ cur[p].ctrl = of[p] /\ cur[p].ports = Unset
  BY <1>3, <1>5 DEF Iface
<1>6. ASSUME NEW c \in Ctrls, c \in Here, s[c] # "none"
      PROVE  /\ cur[c] = Iface(s[c], {p \in Here \cap Ports : of[p] = c}, Unset)
             /\ cur[c].state = s[c] /\ cur[c].ctrl = Unset
             /\ cur[c].ports = {p \in Here \cap Ports : of[p] = c}
  <2>1. c \notin Ports
    OBVIOUS
  <2> QED BY <1>3, <1>6, <2>1 DEF Iface
<1>7. \A i \in Ifaces : cur[i] \in Records
  <2> SUFFICES ASSUME NEW i \in Ifaces PROVE cur[i] \in Records
    OBVIOUS
  <2>1. CASE i \notin Here \/ s[i] = "none"
    BY <1>4, <2>1, NoIfaceType
  <2>2. CASE i \in Here /\ s[i] # "none" /\ i \in Ports
    <3>1. s[i] \in States /\ of[i] \in CtrlNames /\ Unset \in PortLists
      BY <1>s, <1>o, <2>2 DEF States, CtrlNames, PortLists
    <3> QED BY <1>5, <2>2, <3>1, IfaceType
  <2>3. CASE i \in Here /\ s[i] # "none" /\ i \in Ctrls
    <3>1. /\ s[i] \in States /\ Unset \in CtrlNames
          /\ {p \in Here \cap Ports : of[p] = i} \in PortLists
      BY <1>s, <2>3 DEF States, CtrlNames, PortLists
    <3> QED BY <1>6, <2>3, <3>1, IfaceType
  <2> QED BY <2>1, <2>2, <2>3
<1>8. cur \in [Ifaces -> Records]
  BY Zenon, <1>3, <1>7
<1>9. \A i \in Ifaces : /\ cur[i].state \in {"none", "up", "ignore"}
                        /\ ~Is(cur[i]) => cur[i] = NoIface
  <2> SUFFICES ASSUME NEW i \in Ifaces
               PROVE  /\ cur[i].state \in {"none", "up", "ignore"}
                      /\ ~Is(cur[i]) => cur[i] = NoIface
    OBVIOUS
  <2>1. CASE i \notin Here \/ s[i] = "none"
    BY <1>4, <2>1
  <2>2. CASE i \in Here /\ s[i] # "none"
    <3>1. cur[i].state = s[i]
      BY Zenon, <1>5, <1>6, <2>2
    <3> QED BY <1>s, <2>2, <3>1 DEF Is
  <2> QED BY <2>1, <2>2
<1>10. \A c \in Ctrls : /\ cur[c].ctrl = Unset
                        /\ Is(cur[c]) => cur[c].ports \in SUBSET Ports
  <2> SUFFICES ASSUME NEW c \in Ctrls
               PROVE  cur[c].ctrl = Unset /\ (Is(cur[c]) => cur[c].ports \in SUBSET Ports)
    OBVIOUS
  <2>1. CASE c \notin Here \/ s[c] = "none"
    BY <1>4, <2>1 DEF Is
  <2>2. CASE c \in Here /\ s[c] # "none"
    <3>1. cur[c].ctrl = Unset /\ cur[c].ports = {p \in Here \cap Ports : of[p] = c}
      BY Zenon, <1>6, <2>2
    <3>2. {p \in Here \cap Ports : of[p] = c} \in SUBSET Ports
      BY Zenon
    <3> QED BY Zenon, <3>1, <3>2
  <2> QED BY <2>1, <2>2
<1>11. \A p \in Ports : cur[p].ports = Unset /\ cur[p].ctrl \in Ctrls \cup {Unset}
  BY <1>4, <1>5, <1>o
<1>12. ASSUME NEW c \in Ctrls, NEW p \in Ports
       PROVE  /\ Is(cur[c]) /\ p \in cur[c].ports => Is(cur[p]) /\ cur[p].ctrl = c
              /\ cur[p].ctrl = c => Is(cur[c]) /\ p \in cur[c].ports
  <2>1. ASSUME Is(cur[c]), p \in cur[c].ports PROVE Is(cur[p]) /\ cur[p].ctrl = c
    <3>1. c \in Here /\ s[c] # "none"
      <4>1. ~(c \notin Here \/ s[c] = "none")
        BY <1>4, <2>1 DEF Is
      <4> QED BY <4>1
    <3>2. p \in Here /\ of[p] = c
      <4>1. cur[c].ports = {q \in Here \cap Ports : of[q] = c}
        BY Zenon, <1>6, <3>1
      <4> QED BY <2>1, <4>1
    <3>3. s[p] # "none"
      BY <1>3, <3>2
    <3> QED BY <1>5, <3>2, <3>3 DEF Is
  <2>2. ASSUME cur[p].ctrl = c PROVE Is(cur[c]) /\ p \in cur[c].ports
    <3>1. p \in Here /\ s[p] # "none"
      <4>1. ~(p \notin Here \/ s[p] = "none")
        BY <1>4, <2>2
      <4> QED BY <4>1
    <3>2. of[p] = c /\ c \in Here
      BY <1>5, <1>o, <2>2, <3>1
    <3>3. s[c] # "none"
      BY <1>3, <3>1, <3>2
    <3>4. cur[c].ports = {q \in Here \cap Ports : of[q] = c} /\ cur[c].state = s[c]
      BY Zenon, <1>6, <3>2, <3>3
    <3> QED BY <3>1, <3>2, <3>3, <3>4 DEF Is
  <2> QED BY <2>1, <2>2
<1> QED BY <1>8, <1>9, <1>10, <1>11, <1>12

LEMMA InitInv == Init => Inv
<1> SUFFICES ASSUME Init PROVE Inv
  OBVIOUS
<1> USE Apart
<1>1. PICK w \in Scenarios : /\ cur \in CurrentIfaces(w)
                             /\ \E d \in DesiredIfaces(w) :
                                  des = [i \in Ifaces |-> IF i \in w.ifaces THEN d[i] ELSE NoIface]
  BY DEF Init
<1>2. PICK d \in DesiredIfaces(w) :
        des = [i \in Ifaces |-> IF i \in w.ifaces THEN d[i] ELSE NoIface]
  BY <1>1
<1>3. w.des \subseteq {"up", "down", "absent", "ignore"}
  BY <1>1, ControllersAssumption
<1>4. \A i \in w.ifaces : d[i] \in DesiredIface(w, i)
  BY <1>2 DEF DesiredIfaces
<1>5. ASSUME NEW i \in Ifaces PROVE des[i] = NoIface \/ des[i] \in DesiredIface(w, i)
  BY <1>2, <1>4
<1>6. ASSUME NEW i \in Ifaces
      PROVE  /\ des[i] \in Records /\ (~Is(des[i]) => des[i] = NoIface)
             /\ i \in Ctrls => des[i].ctrl = Unset
             /\ i \in Ports => des[i].ports = Unset /\ (des[i].ctrl # Unset => Up(des[i]))
  <2>1. CASE des[i] = NoIface
    BY <2>1, NoIfaceType
  <2>2. CASE \E s \in w.des : des[i] = Iface(s, Unset, Unset)
    <3>1. PICK s \in w.des : des[i] = Iface(s, Unset, Unset)
      BY <2>2
    <3>2. s \in States \ {"none"} /\ Unset \in PortLists /\ Unset \in CtrlNames
      BY <1>3 DEF States, PortLists, CtrlNames
    <3> QED BY <3>1, <3>2, IfaceType DEF Is
  <2>3. CASE i \in Ctrls /\ \E s \in w.des \cap {"up", "down"}, l \in SUBSET (Ports \cap w.ifaces) :
                             des[i] = Iface(s, l, Unset)
    <3>1. PICK s \in w.des \cap {"up", "down"}, l \in SUBSET (Ports \cap w.ifaces) :
            des[i] = Iface(s, l, Unset)
      BY <2>3
    <3>2. s \in States \ {"none"} /\ l \in PortLists /\ Unset \in CtrlNames
      BY DEF States, PortLists, CtrlNames
    <3> QED BY <2>3, <3>1, <3>2, IfaceType DEF Is
  <2>4. CASE i \in Ports /\ \E c \in (Ctrls \cap w.ifaces) \cup {Detach} : des[i] = Iface("up", Unset, c)
    <3>1. PICK c \in (Ctrls \cap w.ifaces) \cup {Detach} : des[i] = Iface("up", Unset, c)
      BY <2>4
    <3>2. "up" \in States /\ Unset \in PortLists /\ c \in CtrlNames
      BY DEF States, PortLists, CtrlNames
    <3> QED BY <2>4, <3>1, <3>2, IfaceType DEF Is, Up
  <2> QED BY <1>5, <2>1, <2>2, <2>3, <2>4 DEF DesiredIface
<1>7. TypeOK
  <2>1. NoIface \in Records
    BY NoIfaceType
  <2>2. cur \in [Ifaces -> Records] /\ des \in [Ifaces -> Records]
    BY <1>1, <1>2, <1>6, KernelShows
  <2> QED BY <2>1, <2>2 DEF Init, TypeOK
<1>8. CurShape
  BY <1>1, KernelShows DEF CurShape, Init
<1>9. DesShape
  BY <1>6 DEF DesShape, Init
<1>10. Blank
  BY SMTT(30) DEF Init, Blank
<1> QED BY <1>7, <1>8, <1>9, <1>10 DEF Init, Inv, Kept, IgnoredOut, CtrlsMerged, StatesAgree, Changes,
        ListsChecked, OneHasIt, Priorities, Marked, AtLast, Later
-----------------------------------------------------------------------------
(* The steps.  An error leaves everything as it is. *)
LEMMA FailStep == Inv /\ Fail => Inv'
<1> SUFFICES ASSUME Inv, Fail PROVE Inv'
  OBVIOUS
<1>1. TypeOK' /\ CurShape' /\ DesShape'
  BY SMTT(30) DEF Inv, Fail, TypeOK, CurShape, DesShape
<1> QED BY Zenon, <1>1 DEF Fail, Inv, Blank, Kept, IgnoredOut, CtrlsMerged, StatesAgree, Changes,
        ListsChecked, OneHasIt, Priorities, Marked, AtLast, Later, Early

LEMMA AutoManageStep == Inv /\ AutoManage => Inv'
<1> SUFFICES ASSUME Inv, AutoManage PROVE Inv'
  OBVIOUS
<1> USE Apart
<1>0. TypeOK /\ CurShape /\ DesShape
  BY DEF Inv
<1>1. AutoManaged \subseteq Ports /\ \A p \in AutoManaged : cur[p].state = "ignore"
  BY DEF AutoManaged
<1>2. ASSUME NEW i \in Ifaces, i \notin AutoManaged PROVE des'[i] = des[i]
  BY <1>2 DEF AutoManage
<1>3. ASSUME NEW i \in AutoManaged
      PROVE  /\ des'[i] \in Records /\ Is(des'[i]) /\ Up(des'[i])
             /\ des'[i].ports = Unset /\ des'[i].ctrl = Unset
  <2>1. des'[i] = Iface("up", Unset, Unset)
    BY <1>1 DEF AutoManage
  <2>2. "up" \in States /\ Unset \in PortLists /\ Unset \in CtrlNames
    BY DEF States, PortLists, CtrlNames
  <2> QED BY <2>1, <2>2, IfaceType DEF Is, Up
<1>4. TypeOK'
  <2>1. des' \in [Ifaces -> Records]
    <3>1. \A i \in Ifaces : des'[i] \in Records
      BY <1>0, <1>2, <1>3 DEF TypeOK
    <3> QED BY <3>1 DEF AutoManage
  <2> QED BY <1>0, <2>1 DEF AutoManage, TypeOK
<1>5. CurShape'
  <2>1. \A c \in Ctrls : des'[c] = des[c]
    BY <1>1, <1>2
  <2> QED BY SMTT(30), <1>0, <2>1 DEF AutoManage, CurShape
<1>6. DesShape'
  <2>1. cur' = cur /\ listed' = listed
    BY DEF AutoManage
  <2>2. \A c \in Ctrls : des'[c] = des[c]
    BY <1>1, <1>2
  <2> QED BY <1>0, <1>1, <1>2, <1>3, <2>1, <2>2 DEF DesShape
<1>7. Blank'
  BY DEF Inv, AutoManage, Blank, Early
<1> QED BY Zenon, <1>4, <1>5, <1>6, <1>7 DEF AutoManage, Inv, Kept, IgnoredOut, CtrlsMerged, StatesAgree, Changes,
        ListsChecked, OneHasIt, Priorities, Marked, AtLast, Later

(* remove_ignored_ifaces(), field by field. *)
Removed(new, old, i, out, keep) ==
  /\ new \in Records
  /\ i \in out => new = NoIface
  /\ i \notin out =>
       /\ new.state = old.state /\ new.ctrl = old.ctrl
       /\ new.ports = IF i \in Ctrls \ keep /\ old.ports # Unset
                      THEN old.ports \ out ELSE old.ports
       /\ old = NoIface => new = NoIface

LEMMA RemoveIgnoredFields ==
  ASSUME NEW ifaces \in [Ifaces -> Records], NEW out \in SUBSET Ifaces, NEW keep,
         NEW i \in Ifaces
  PROVE  Removed(RemoveIgnored(ifaces, out, keep)[i], ifaces[i], i, out, keep)
<1> DEFINE r == RemoveIgnored(ifaces, out, keep)[i]
<1> SUFFICES Removed(r, ifaces[i], i, out, keep)
  OBVIOUS
<1> USE Apart
<1>1. ifaces[i] \in Records
  OBVIOUS
<1>2. CASE i \in out
  BY <1>2, NoIfaceType DEF RemoveIgnored, Removed
<1>3. CASE i \notin out /\ i \in Ctrls \ keep /\ ifaces[i].ports # Unset
  <2>1. r = [ifaces[i] EXCEPT !.ports = ifaces[i].ports \ out]
    BY <1>3 DEF RemoveIgnored
  <2>2. ifaces[i].ports \ out \in SUBSET Ports
    BY <1>1, <1>3 DEF Records
  <2> HIDE DEF r
  <2> QED BY <1>1, <1>3, <2>1, <2>2, NoIfaceType DEF Records, Removed
<1>4. CASE i \notin out /\ ~(i \in Ctrls \ keep /\ ifaces[i].ports # Unset)
  BY SMTT(30), <1>1, <1>4 DEF RemoveIgnored, Removed
<1> QED BY <1>2, <1>3, <1>4

LEMMA IgnoreStep == Inv /\ Ignore => Inv'
<1> SUFFICES ASSUME Inv, Ignore PROVE Inv'
  OBVIOUS
<1> USE Apart
<1>0. TypeOK /\ CurShape /\ DesShape /\ ignored = {}
  BY DEF Inv, IgnoredOut, Ignore
<1> DEFINE out == {i \in Ifaces : \/ des[i].state = "ignore"
                                  \/ cur[i].state = "ignore" /\ ~Is(des[i])}
<1>b. PICK b \in SUBSET Bonds : des' = RemoveIgnored(des, ignored', Vrfs \cup b)
  BY DEF Ignore
<1> DEFINE keep == Vrfs \cup b
<1>1. /\ ignored' = out /\ cur' = RemoveIgnored(cur, out, Vrfs)
      /\ des' = RemoveIgnored(des, out, keep)
      /\ pc' = "merge" /\ UNCHANGED <<listed, merged, apply, pending, prio>>
  BY <1>b DEF Ignore
<1> DEFINE CurFields(i) == Removed(cur'[i], cur[i], i, out, Vrfs)
           DesFields(i) == Removed(des'[i], des[i], i, out, keep)
<1>2. ASSUME NEW i \in Ifaces PROVE CurFields(i) /\ DesFields(i)
  <2>1. cur \in [Ifaces -> Records] /\ des \in [Ifaces -> Records] /\ out \in SUBSET Ifaces
    BY <1>0 DEF TypeOK
  <2> HIDE DEF out, keep
  <2>2. CurFields(i)
    BY <1>1, <2>1, RemoveIgnoredFields
  <2>3. DesFields(i)
    BY <1>1, <2>1, RemoveIgnoredFields
  <2> QED BY <2>2, <2>3
<1>3. ASSUME NEW i \in Ifaces, i \notin out
      PROVE  des[i].state # "ignore" /\ (~Is(des[i]) => cur[i].state # "ignore")
  BY <1>3
<1>o. out \subseteq Ifaces /\ keep \cap OvsBridges = {}
  OBVIOUS
<1> HIDE DEF out, keep
<1>4. TypeOK'
  <2>1. cur' \in [Ifaces -> Records] /\ des' \in [Ifaces -> Records]
    <3>1. DOMAIN cur' = Ifaces /\ DOMAIN des' = Ifaces
      BY <1>1 DEF RemoveIgnored
    <3>2. /\ cur' = [i \in Ifaces |-> cur'[i]] /\ des' = [i \in Ifaces |-> des'[i]]
      BY <1>1 DEF RemoveIgnored
    <3> QED BY Zenon, <1>2, <3>1, <3>2 DEF Removed
  <2> QED BY <1>0, <1>1, <1>o, <2>1 DEF TypeOK
<1>5. CurShape'
  <2>1. ASSUME NEW i \in Ifaces
        PROVE  /\ cur'[i].state \in {"none", "up", "ignore"}
               /\ ~Is(cur'[i]) => cur'[i] = NoIface
    BY Zenon, <1>0, <1>2, NoIfaceType DEF CurShape, Removed, Is
  <2>2. ASSUME NEW c \in Ctrls
        PROVE  /\ cur'[c].ctrl = Unset
               /\ Is(cur'[c]) => cur'[c].ports \in SUBSET Ports
    <3>1. CurFields(c)
      BY <1>2
    <3>2. cur[c].ctrl = Unset /\ (Is(cur[c]) => cur[c].ports \in SUBSET Ports)
      BY <1>0 DEF CurShape
    <3> QED BY <3>1, <3>2, NoIfaceType DEF Removed, Is
  <2>3. ASSUME NEW p \in Ports
        PROVE  cur'[p].ports = Unset /\ cur'[p].ctrl \in Ctrls \cup {Unset}
    <3>1. CurFields(p)
      BY <1>2
    <3>2. cur[p].ports = Unset /\ cur[p].ctrl \in Ctrls \cup {Unset}
      BY <1>0 DEF CurShape
    <3>3. CASE p \in out
      BY <3>1, <3>3, NoIfaceType DEF Removed
    <3>4. CASE p \notin out
      BY <3>1, <3>2, <3>4 DEF Removed
    <3> QED BY <3>3, <3>4
  <2>4. ASSUME NEW c \in Ctrls, NEW p \in Ports
        PROVE  /\ Is(cur'[c]) /\ p \in cur'[c].ports =>
                    IF p \in ignored' THEN c \in Vrfs ELSE Is(cur'[p]) /\ cur'[p].ctrl = c
               /\ cur'[p].ctrl = c /\ Is(des'[c]) => Is(cur'[c])
               /\ cur'[p].ctrl = c /\ Is(cur'[c]) => p \in cur'[c].ports
    <3>0. CurFields(p) /\ CurFields(c) /\ DesFields(c)
      BY <1>2
    <3>c. /\ Is(cur[c]) /\ p \in cur[c].ports => Is(cur[p]) /\ cur[p].ctrl = c
          /\ cur[p].ctrl = c /\ Is(des[c]) => Is(cur[c])
          /\ cur[p].ctrl = c /\ Is(cur[c]) => p \in cur[c].ports
          /\ Is(cur[c]) => cur[c].ports \in SUBSET Ports
      BY <1>0 DEF CurShape
    <3>1. ASSUME Is(cur'[c]), p \in cur'[c].ports
          PROVE  IF p \in ignored' THEN c \in Vrfs ELSE Is(cur'[p]) /\ cur'[p].ctrl = c
      <4>1. c \notin out /\ Is(cur[c]) /\ cur[c].ports # Unset
        BY <3>0, <3>1, <3>c, NoIfaceType DEF Is, Removed
      <4>2. cur'[c].ports = IF c \in Vrfs THEN cur[c].ports ELSE cur[c].ports \ out
        BY <3>0, <4>1 DEF Removed
      <4>3. CASE p \in out
        BY <1>1, <3>1, <4>2, <4>3
      <4>4. CASE p \notin out
        <5>1. Is(cur[p]) /\ cur[p].ctrl = c
          BY <3>1, <3>c, <4>1, <4>2
        <5> QED BY <1>1, <3>0, <4>4, <5>1 DEF Is, Removed
      <4> QED BY <4>3, <4>4
    <3>2. ASSUME cur'[p].ctrl = c, Is(des'[c]) PROVE Is(cur'[c])
      <4>1. p \notin out /\ c \notin out
        BY <3>0, <3>2, NoIfaceType DEF Is, Removed
      <4> QED BY <3>0, <3>2, <3>c, <4>1 DEF Is, Removed
    <3>3. ASSUME cur'[p].ctrl = c, Is(cur'[c]) PROVE p \in cur'[c].ports
      <4>1. p \notin out /\ c \notin out
        BY <3>0, <3>3, NoIfaceType DEF Is, Removed
      <4>2. Is(cur[c]) /\ cur[p].ctrl = c
        BY <3>0, <3>3, <4>1 DEF Is, Removed
      <4>3. cur'[c].ports = IF c \in Vrfs THEN cur[c].ports ELSE cur[c].ports \ out
        BY <3>0, <3>c, <4>1, <4>2 DEF Removed
      <4> QED BY <3>c, <4>1, <4>2, <4>3
    <3> QED BY <3>1, <3>2, <3>3
  <2>5. ASSUME NEW i \in ignored' PROVE ~Is(cur'[i])
    BY <1>1, <1>2, <1>o, <2>5, NoIfaceType DEF Removed, Is
  <2> QED BY <2>1, <2>2, <2>3, <2>4, <2>5 DEF CurShape
<1>6. DesShape'
  <2>1. ASSUME NEW i \in Ifaces
        PROVE  /\ ~Is(des'[i]) => des'[i] = NoIface
               /\ i \in Ctrls => des'[i].ctrl = Unset
               /\ i \in Ports => des'[i].ports = Unset /\ (des'[i].ctrl # Unset => Up(des'[i]))
               /\ Is(des'[i]) /\ cur'[i].state # "ignore" => i \in listed'
    <3>1. CASE i \in out
      BY Zenon, <1>2, <3>1, NoIfaceType DEF Is, Removed
    <3>2. CASE i \notin out
      <4>1. DesFields(i) /\ CurFields(i)
        BY <1>2
      <4> QED BY <1>0, <1>1, <3>2, <4>1 DEF Is, Up, DesShape, Removed
    <3> QED BY <3>1, <3>2
  <2> QED BY <2>1 DEF DesShape
<1>7. Kept'
  <2> SUFFICES ASSUME NEW i \in Ifaces
               PROVE  /\ des'[i].state # "ignore"
                      /\ ~Is(des'[i]) => cur'[i].state # "ignore"
    BY DEF Kept
  <2>1. DesFields(i) /\ CurFields(i)
    BY <1>2
  <2> QED BY <1>3, <2>1, NoIfaceType DEF Is, Removed
<1>8. Blank'
  BY <1>1 DEF Inv, Blank, Early, Ignore
<1>9. IgnoredOut'
  <2> SUFFICES ASSUME NEW i \in out
               PROVE  /\ ~Is(des'[i])
                      /\ \A c \in OvsBridges : des'[c].ports # Unset => i \notin des'[c].ports
    BY <1>1 DEF IgnoredOut
  <2>1. ~Is(des'[i])
    BY <1>2, <1>o, NoIfaceType DEF Removed, Is
  <2>2. ASSUME NEW c \in OvsBridges, des'[c].ports # Unset PROVE i \notin des'[c].ports
    <3>1. DesFields(c) /\ c \in Ctrls \ keep
      BY <1>2, <1>o
    <3>2. c \notin out
      BY <2>2, <3>1, NoIfaceType DEF Removed
    <3> QED BY <2>2, <3>1, <3>2 DEF Removed
  <2> QED BY <2>1, <2>2
<1> QED BY Zenon, <1>1, <1>4, <1>5, <1>6, <1>7, <1>8, <1>9 DEF Inv, CtrlsMerged, StatesAgree, Changes,
        ListsChecked, OneHasIt, Priorities, Marked, AtLast, Later

(* What only changes things of other interfaces keeps the ignored ones     *)
(* out.                                                                    *)
LEMMA StillOut ==
  ASSUME IgnoredOut, ignored' = ignored, pc \in Later, pc' \in Later,
         pc' \in {"lists", "changes"} => pc \in {"lists", "changes"},
         \A c \in Ctrls : des'[c] = des[c],
         \A i \in ignored : Is(des'[i]) => Is(des[i]) \/ (pc' \notin {"lists", "changes"} /\ Recreated(i)),
         \A i \in ignored : i \in Ports /\ Is(pending'[i]) => ~Is(des'[i])
  PROVE  IgnoredOut'
<1>1. \A i : Recreated(i) => Recreated(i)'
  BY Apart DEF Recreated
<1>2. pc' \notin {"auto", "ignore", "merge"}
  BY DEF Later
<1>3. \A b \in OvsBridges : des'[b] = des[b]
  BY Apart
<1> QED BY <1>1, <1>2, <1>3 DEF IgnoredOut

(* merge_desire_with_current(), field by field. *)
LEMMA MergeFields ==
  ASSUME NEW d \in Records, NEW c \in Records
  PROVE  /\ MergeIface(d, c) \in Records
         /\ ~Is(d) => MergeIface(d, c) = c
         /\ Is(d) => /\ MergeIface(d, c).state = d.state
                     /\ MergeIface(d, c).ports = IF d.ports = Unset THEN c.ports ELSE d.ports
<1>1. CASE ~Is(d)
  BY <1>1 DEF MergeIface
<1>2. CASE Is(d)
  <2> DEFINE l == IF d.ports = Unset THEN c.ports ELSE d.ports
             k == IF d.ctrl = Unset THEN c.ctrl ELSE d.ctrl
  <2>1. MergeIface(d, c) = Iface(d.state, l, k)
    BY <1>2 DEF MergeIface
  <2>2. d.state \in States /\ l \in PortLists /\ k \in CtrlNames
    BY RecordFields
  <2> HIDE DEF l, k
  <2>3. MergeIface(d, c) \in Records /\ MergeIface(d, c).state = d.state /\ MergeIface(d, c).ports = l
    BY <2>1, <2>2, IfaceType
  <2> QED BY <1>2, <2>3 DEF l
<1> QED BY <1>1, <1>2

LEMMA MergeStep == Inv /\ Merge => Inv'
<1> SUFFICES ASSUME Inv, Merge PROVE Inv'
  OBVIOUS
<1> USE Apart
<1>0. TypeOK /\ CurShape /\ DesShape /\ Kept /\ Blank /\ IgnoredOut
  BY DEF Inv
<1>1. /\ pc = "merge" /\ pc' = "lists" /\ cur' = cur /\ listed' = listed /\ pending' = pending
      /\ prio' = prio /\ apply' = des' /\ ignored' = ignored
  BY DEF Merge
<1>2. /\ des' = [i \in Ifaces |->
                   IF NeedsInternal(i) THEN [des[i] EXCEPT !.ports = {Internal[i]}] ELSE des[i]]
      /\ merged' = [i \in Ifaces |->
                      IF NeedsInternal(i)
                      THEN [MergeIface(des[i], cur[i]) EXCEPT !.ports = {Internal[i]}]
                      ELSE MergeIface(des[i], cur[i])]
  BY DEF Merge
<1>3. ASSUME NEW i \in Ifaces
      PROVE  des[i] \in Records /\ cur[i] \in Records /\ MergeIface(des[i], cur[i]) \in Records
  BY <1>0, MergeFields DEF TypeOK
<1>4. ASSUME NEW p \in Ports
      PROVE  /\ ~NeedsInternal(p)
             /\ des'[p] = des[p] /\ merged'[p] = MergeIface(des[p], cur[p])
  BY <1>2 DEF NeedsInternal
<1>5. ASSUME NEW c \in Ctrls
      PROVE  /\ des'[c] \in Records /\ merged'[c] \in Records
             /\ des'[c].state = des[c].state /\ des'[c].ctrl = des[c].ctrl
             /\ des[c] = NoIface => des'[c] = NoIface
             /\ merged'[c].state = IF Is(des[c]) THEN des[c].state ELSE cur[c].state
             /\ Is(des[c]) => merged'[c].ports = IF des'[c].ports = Unset THEN cur[c].ports
                                                 ELSE des'[c].ports
  <2>1. CASE ~NeedsInternal(c)
    <3>1. des'[c] = des[c] /\ merged'[c] = MergeIface(des[c], cur[c])
      BY <1>2, <2>1
    <3> QED BY <1>3, <3>1, MergeFields
  <2>2. CASE NeedsInternal(c)
    <3>1. c \in OvsBridges /\ Is(des[c]) /\ des[c] # NoIface
      BY <2>2, NoIfaceType DEF NeedsInternal, Up, Is
    <3>2. Internal[c] \in Ports
      BY <3>1, ControllersAssumption
    <3>3. {Internal[c]} \in SUBSET Ports
      BY <3>2
    <3>4. des'[c] = [des[c] EXCEPT !.ports = {Internal[c]}]
      BY <1>2, <2>2
    <3>5. des'[c] \in Records /\ des'[c].state = des[c].state /\ des'[c].ctrl = des[c].ctrl
          /\ des'[c].ports = {Internal[c]}
      BY <1>3, <3>3, <3>4 DEF Records
    <3>6. merged'[c] = [MergeIface(des[c], cur[c]) EXCEPT !.ports = {Internal[c]}]
      BY <1>2, <2>2
    <3>7. /\ merged'[c] \in Records /\ merged'[c].state = MergeIface(des[c], cur[c]).state
          /\ merged'[c].ports = {Internal[c]}
      BY <1>3, <3>3, <3>6 DEF Records
    <3>8. merged'[c].state = des[c].state
      BY <1>3, <3>1, <3>7, MergeFields
    <3> QED BY <3>1, <3>3, <3>5, <3>7, <3>8
  <2> QED BY <2>1, <2>2
<1>6. TypeOK'
  <2>1. \A i \in Ifaces : des'[i] \in Records /\ merged'[i] \in Records
    BY <1>3, <1>4, <1>5
  <2>2. des' \in [Ifaces -> Records] /\ merged' \in [Ifaces -> Records]
    BY Zenon, <1>2, <2>1
  <2> QED BY <1>0, <1>1, <2>2 DEF TypeOK
<1>7. CurShape'
  <2>1. \A c \in Ctrls : Is(des'[c]) <=> Is(des[c])
    BY <1>5 DEF Is
  <2> QED BY <1>0, <1>1, <2>1 DEF CurShape
<1>8. DesShape'
  <2>1. ASSUME NEW i \in Ifaces
        PROVE  /\ ~Is(des'[i]) => des'[i] = NoIface
               /\ Is(des'[i]) /\ cur'[i].state # "ignore" => i \in listed'
    BY <1>0, <1>1, <1>4, <1>5 DEF DesShape, Is
  <2>2. \A c \in Ctrls : des'[c].ctrl = Unset
    BY <1>0, <1>5 DEF DesShape
  <2>3. \A p \in Ports : des'[p].ports = Unset /\ (des'[p].ctrl # Unset => Up(des'[p]))
    BY <1>0, <1>4 DEF DesShape
  <2> QED BY <2>1, <2>2, <2>3 DEF DesShape
<1>9. Kept'
  <2>1. \A i \in Ifaces : des[i].state # "ignore" /\ (~Is(des[i]) => cur[i].state # "ignore")
    BY <1>0, <1>1 DEF Kept
  <2>2. \A i \in Ifaces : des'[i].state = des[i].state
    BY <1>4, <1>5
  <2> QED BY <1>1, <2>1, <2>2 DEF Kept, Is
<1>10. CtrlsMerged'
  BY <1>1, <1>5 DEF CtrlsMerged, Is
<1>11. StatesAgree' /\ Changes'
  <2>1. ASSUME NEW p \in Ports
        PROVE  /\ Is(merged'[p]) <=> Is(cur'[p]) \/ Is(des'[p])
               /\ Is(apply'[p]) => merged'[p].state = apply'[p].state
               /\ Is(merged'[p]) /\ ~Is(apply'[p]) => Up(merged'[p]) /\ Up(cur'[p])
               /\ Up(apply'[p]) /\ cur'[p].state # "ignore" => p \in listed'
    <3>1. /\ Is(des[p]) => merged'[p].state = des[p].state
          /\ ~Is(des[p]) => merged'[p] = cur[p]
      BY <1>3, <1>4, MergeFields
    <3>2. ~Is(des[p]) /\ Is(cur[p]) => Up(cur[p])
      BY <1>0, <1>1 DEF Kept, CurShape, Is, Up
    <3>3. apply'[p] = des[p] /\ des'[p] = des[p]
      BY <1>1, <1>4
    <3>4. Up(des[p]) /\ cur[p].state # "ignore" => p \in listed
      BY <1>0 DEF DesShape, Is, Up
    <3> QED BY <1>1, <3>1, <3>2, <3>3, <3>4 DEF Is, Up
  <2>2. StatesAgree'
    BY <1>1, <2>1 DEF StatesAgree
  <2>3. \A p \in Ports : pending'[p] = NoIface
    BY <1>0, <1>1 DEF Blank, Early
  <2>4. \A p \in Ports : Untouched(p)'
    BY <1>1, <1>4 DEF Untouched
  <2> QED BY <1>1, <2>2, <2>3, <2>4 DEF Changes
<1>12. IgnoredOut'
  <2> SUFFICES ASSUME NEW i \in ignored
               PROVE  /\ ~Is(des'[i])
                      /\ \A b \in OvsBridges :
                           des'[b].ports # Unset /\ i \in des'[b].ports => Recreated(i)'
    BY <1>1 DEF IgnoredOut
  <2>1. i \in Ifaces /\ ~Is(des[i])
    BY <1>0, <1>1 DEF TypeOK, IgnoredOut
  <2>2. ~Is(des'[i])
    BY <1>4, <1>5, <2>1 DEF Is
  <2>3. ASSUME NEW b \in OvsBridges, des'[b].ports # Unset, i \in des'[b].ports
        PROVE  Recreated(i)'
    <3>1. des'[b] = IF NeedsInternal(b) THEN [des[b] EXCEPT !.ports = {Internal[b]}] ELSE des[b]
      BY <1>2
    <3>2. NeedsInternal(b)
      BY <1>0, <1>1, <2>3, <3>1 DEF IgnoredOut
    <3>3. des'[b].ports = {Internal[b]} /\ des'[b].state = des[b].state
      BY <1>3, <3>1, <3>2 DEF Records
    <3> QED BY <2>3, <3>2, <3>3 DEF Recreated, NeedsInternal, Up
  <2> QED BY <2>2, <2>3
<1> QED BY <1>1, <1>6, <1>7, <1>8, <1>9, <1>10, <1>11, <1>12 DEF Inv, Blank, Early,
        ListsChecked, OneHasIt, Priorities, Marked, AtLast

(* Who gets and who loses which ports is settled once all is merged. *)
LEMMA Settled ==
  ASSUME cur' = cur, NEW c \in Ctrls, des'[c] = des[c], NEW p \in Ports
  PROVE  /\ MayGet(c, p)' <=> MayGet(c, p)
         /\ MustGet(c, p)' <=> MustGet(c, p)
         /\ Loses(c, p)' <=> Loses(c, p)
         /\ merged'[c].state = merged[c].state /\ merged'[c].ports = merged[c].ports
            => (HasIt(c, p)' <=> HasIt(c, p))
<1>1. c \in Changing' <=> c \in Changing
  BY DEF Changing
<1>2. Attached(c, Ports)' = Attached(c, Ports) /\ Attached(c, {})' = Attached(c, {})
  BY DEF Attached
<1>3. Detached(c)' = Detached(c)
  BY DEF Detached
<1>4. merged'[c].state = merged[c].state /\ merged'[c].ports = merged[c].ports
      => (HasIt(c, p)' <=> HasIt(c, p))
  BY DEF HasIt, Listing, PortsOf, Up
<1> QED BY <1>1, <1>2, <1>3, <1>4 DEF MayGet, MustGet, Loses

(* What does not change the desired controllers and the current state      *)
(* keeps the outcome of a port that it does not touch.                     *)
LEMMA OutcomeStays ==
  ASSUME cur' = cur, \A c \in Ctrls : des'[c] = des[c], NEW p \in Ports,
         des'[p] = des[p], Holder(p)' = Holder(p), apply'[p].state = apply[p].state
  PROVE  (OnlyLost(p)' <=> OnlyLost(p)) /\ (Outcome(p)' <=> Outcome(p))
<1>1. \A c \in Ctrls : /\ MayGet(c, p)' <=> MayGet(c, p)
                       /\ MustGet(c, p)' <=> MustGet(c, p)
                       /\ Loses(c, p)' <=> Loses(c, p)
  BY Settled
<1>2. OnlyLost(p)' <=> OnlyLost(p)
  BY <1>1 DEF OnlyLost
<1>3. Holder(p) \in Ctrls => (MayGet(Holder(p), p)' <=> MayGet(Holder(p), p))
  <2> SUFFICES ASSUME NEW c \in Ctrls, c = Holder(p)
               PROVE  MayGet(Holder(p), p)' <=> MayGet(Holder(p), p)
    OBVIOUS
  <2>1. MayGet(Holder(p), p)' <=> MayGet(c, p)'
    OBVIOUS
  <2> QED BY <1>1, <2>1
<1> QED BY <1>1, <1>2, <1>3 DEF Outcome

LEMMA ChecksStay ==
  ASSUME cur' = cur, \A c \in Ctrls : des'[c] = des[c],
         \A c \in Ctrls : merged'[c].state = merged[c].state /\ merged'[c].ports = merged[c].ports,
         NEW p \in Ports, des'[p] = des[p], PortChecked(p)
  PROVE  PortChecked(p)'
<1>1. \A c \in Ctrls : (MayGet(c, p)' <=> MayGet(c, p)) /\ (HasIt(c, p)' <=> HasIt(c, p))
  BY Settled
<1>2. Named(p)' <=> Named(p)
  BY DEF Named
<1>3. ASSUME NEW k \in Ctrls, k = des[p].ctrl
      PROVE  /\ HasIt(des[p].ctrl, p)' <=> HasIt(des[p].ctrl, p)
             /\ MayGet(des[p].ctrl, p)' <=> MayGet(des[p].ctrl, p)
  <2>1. (HasIt(des[p].ctrl, p)' <=> HasIt(k, p)') /\ (MayGet(des[p].ctrl, p)' <=> MayGet(k, p)')
    BY <1>3
  <2> QED BY <1>1, <1>3, <2>1
<1>4. Named(p)' => /\ merged'[des'[p].ctrl].state \notin {"none", "absent"}
                   /\ Is(des'[des'[p].ctrl]) /\ des'[des'[p].ctrl].ports # Unset
                      => p \in des'[des'[p].ctrl].ports
  BY <1>2 DEF PortChecked, Named
<1>5. des'[p].ctrl # Unset /\ (\E c \in Ctrls : HasIt(c, p)') =>
        des'[p].ctrl \in Ctrls /\ (HasIt(des[p].ctrl, p)' \/ MayGet(des[p].ctrl, p)')
  BY <1>1, <1>3 DEF PortChecked
<1> QED BY <1>4, <1>5 DEF PortChecked

(* A desired port that is to be up is expected to be. *)
LEMMA UpIsMerged ==
  ASSUME Inv, pc \in Later, NEW p \in Ports, Up(des[p])
  PROVE  Is(des[p]) /\ Is(apply[p]) /\ Up(apply[p]) /\ Up(merged[p]) /\ Is(merged[p])
BY DEF Inv, StatesAgree, Is, Up

LEMMA ValidateListsStep == Inv /\ ValidateLists => Inv'
<1> SUFFICES ASSUME Inv, ValidateLists PROVE Inv'
  OBVIOUS
<1> USE Apart
<1>1. PICK holder \in [Held -> Listing] :
        /\ \A p \in Held : p \in PortsOf(merged[holder[p]])
        /\ Check("lists", InOwnList /\ InNoOtherList(holder), "changes")
  BY DEF ValidateLists
<1>2. CASE Fail
  BY <1>2, FailStep
<1>3. CASE /\ pc = "lists" /\ InOwnList /\ InNoOtherList(holder) /\ pc' = "changes"
           /\ UNCHANGED <<cur, des, listed, ignored, merged, apply, pending, prio>>
  <2>0. TypeOK /\ CurShape /\ DesShape /\ Kept /\ CtrlsMerged /\ StatesAgree /\ Changes
        /\ pc \in Later /\ pc' \in Later
    BY <1>3 DEF Inv, Later
  <2>1. TypeOK' /\ CurShape' /\ DesShape'
    BY <1>3, <2>0 DEF TypeOK, CurShape, DesShape
  <2>2. Kept' /\ CtrlsMerged' /\ StatesAgree'
    BY <1>3, <2>0 DEF Kept, CtrlsMerged, StatesAgree
  <2>3. Changes'
    BY <1>3, <2>0 DEF Changes, Untouched
  <2>4. ASSUME NEW p \in Ports, NEW c \in Ctrls, Up(des[p]), des[p].ctrl = c
        PROVE  /\ merged[c].state \notin {"none", "absent"}
               /\ Is(des[c]) /\ des[c].ports # Unset => p \in des[c].ports
    <3>1. Claims(p)
      BY <2>0, <2>4, UpIsMerged DEF Claims
    <3>2. /\ Is(merged[c])
          /\ Is(des[c]) /\ PortsOf(des[c]) # Unset => p \in PortsOf(des[c])
      BY <1>3, <2>4, <3>1 DEF InOwnList
    <3>3. Is(des[c]) => des[c].state # "absent"
      <4>1. {} # Unset
        OBVIOUS
      <4> QED BY <3>2, <4>1 DEF PortsOf
    <3>4. merged[c].state = IF Is(des[c]) THEN des[c].state ELSE cur[c].state
      BY <2>0 DEF CtrlsMerged
    <3>5. cur[c].state # "absent"
      BY <2>0 DEF CurShape
    <3> QED BY <3>2, <3>3, <3>4, <3>5 DEF PortsOf, Is
  <2>5. ASSUME NEW p \in Ports, des[p].ctrl # Unset, NEW c \in Ctrls, HasIt(c, p)
        PROVE  des[p].ctrl \in Ctrls /\ HasIt(des[p].ctrl, p)
    <3>1. p \in Held
      BY <2>5 DEF HasIt, Held
    <3>2. Up(des[p])
      BY <2>0, <2>5 DEF DesShape
    <3>3. des[p].ctrl = holder[p]
      BY <1>3, <2>0, <2>5, <3>1, <3>2, UpIsMerged DEF InNoOtherList
    <3>4. holder[p] \in Listing /\ p \in PortsOf(merged[holder[p]])
      BY <1>1, <3>1
    <3> QED BY <3>3, <3>4 DEF HasIt, Listing
  <2>6. ListsChecked'
    <3>1. \A p \in Ports : PortChecked(p)' <=> PortChecked(p)
      BY <1>3 DEF PortChecked, Named, HasIt, Listing, MayGet, Changing, Attached
    <3>2. \A p \in Ports : PortChecked(p)
      BY SMTT(30), <2>4, <2>5 DEF PortChecked, Named
    <3> QED BY <3>1, <3>2 DEF ListsChecked
  <2>7. IgnoredOut'
    BY <1>3, <2>0, StillOut DEF Inv, IgnoredOut
  <2> QED BY <1>3, <2>1, <2>2, <2>3, <2>6, <2>7 DEF Inv, Blank, Early, OneHasIt, Priorities, Marked, AtLast
<1> QED BY <1>1, <1>2, <1>3 DEF Check

(* A port that nobody gets or loses keeps its controller, or has the one   *)
(* it names.                                                               *)
LEMMA UntouchedHolder ==
  ASSUME DesShape, NEW p \in Ports, Untouched(p)
  PROVE  Holder(p) = IF des[p].ctrl = Unset THEN cur[p].ctrl ELSE des[p].ctrl
BY SMTT(30), Apart, NoIfaceType DEF DesShape, Untouched, Holder

(* The port that is changed: apply_ctrller_change(). *)
LEMMA ChangedFields ==
  ASSUME Inv, pc = "change", NEW p \in Ports, Is(merged[p]), Untouched(p),
         NEW ctrl \in Ctrls \cup {Detach}, NEW s
  PROVE  /\ ApplyChange(p, ctrl) \in Records /\ MergedChange(p, ctrl, s) \in Records
         /\ MergedChange(p, ctrl, s).state = ApplyChange(p, ctrl).state
         /\ ApplyChange(p, ctrl).state =
              IF p \in OvsIfaces /\ ctrl = Detach THEN "absent"
              ELSE IF Is(des[p]) THEN des[p].state ELSE "up"
         /\ ~(p \in OvsIfaces /\ ctrl = Detach) => ApplyChange(p, ctrl).ctrl = ctrl
<1> USE Apart
<1>0. TypeOK /\ CurShape /\ DesShape /\ StatesAgree /\ pc \in Later
  BY DEF Inv, Later
<1>1. /\ apply[p] = des[p] /\ apply[p] \in Records /\ merged[p] \in Records
      /\ cur[p] \in Records
  BY <1>0 DEF Untouched, TypeOK
<1>2. /\ Changed(p) \in Records
      /\ Changed(p).state = IF Is(des[p]) THEN des[p].state ELSE "up"
  <2>1. CASE Is(des[p])
    BY <1>1, <2>1 DEF Changed
  <2>2. CASE ~Is(des[p])
    <3>1. "up" \in States /\ Unset \in PortLists /\ cur[p].ctrl \in CtrlNames
      BY <1>1, RecordFields DEF States, PortLists
    <3> QED BY <2>2, <3>1, IfaceType DEF Changed
  <2> QED BY <2>1, <2>2
<1>3. merged[p].state = IF Is(des[p]) THEN des[p].state ELSE "up"
  BY <1>0, <1>1 DEF StatesAgree, Up
<1> DEFINE m == IF ~Is(des[p]) /\ s = "up" THEN [merged[p] EXCEPT !.state = "up"] ELSE merged[p]
<1>4. m \in Records /\ m.state = merged[p].state
  BY <1>1, <1>3 DEF Records
<1>5. MergedChange(p, ctrl, s) = IF p \in OvsIfaces /\ ctrl = Detach
                                 THEN [m EXCEPT !.state = "absent"] ELSE [m EXCEPT !.ctrl = ctrl]
  BY DEF MergedChange
<1> HIDE DEF m
<1>6. CASE p \in OvsIfaces /\ ctrl = Detach
  <2>1. /\ ApplyChange(p, ctrl) = [Changed(p) EXCEPT !.state = "absent"]
        /\ MergedChange(p, ctrl, s) = [m EXCEPT !.state = "absent"]
    BY <1>5, <1>6 DEF ApplyChange
  <2>2. ApplyChange(p, ctrl) \in Records /\ ApplyChange(p, ctrl).state = "absent"
    BY <1>2, <2>1 DEF Records
  <2>3. MergedChange(p, ctrl, s) \in Records /\ MergedChange(p, ctrl, s).state = "absent"
    BY <1>4, <2>1 DEF Records
  <2> QED BY <1>6, <2>2, <2>3
<1>7. CASE ~(p \in OvsIfaces /\ ctrl = Detach)
  <2>1. /\ ApplyChange(p, ctrl) = [Changed(p) EXCEPT !.ctrl = ctrl]
        /\ MergedChange(p, ctrl, s) = [m EXCEPT !.ctrl = ctrl]
    BY <1>5, <1>7 DEF ApplyChange
  <2>2. /\ ApplyChange(p, ctrl) \in Records /\ ApplyChange(p, ctrl).state = Changed(p).state
        /\ ApplyChange(p, ctrl).ctrl = ctrl
    BY <1>2, <2>1 DEF Records
  <2>3. MergedChange(p, ctrl, s) \in Records /\ MergedChange(p, ctrl, s).state = m.state
    BY SMTT(30), <1>4, <2>1 DEF Records
  <2> QED BY <1>2, <1>3, <1>4, <1>7, <2>2, <2>3
<1> QED BY <1>6, <1>7

(* A port that its controller loses exists and has that controller, unless *)
(* it is ignored.                                                          *)
LEMMA LostHasController ==
  ASSUME Inv, NEW p \in Ports, OnlyLost(p), p \notin ignored
  PROVE  Is(cur[p]) /\ cur[p].ctrl \in Ctrls
<1>1. PICK c \in Ctrls : Loses(c, p)
  BY SMTT(30) DEF OnlyLost
<1>2. Is(cur[c]) /\ p \in cur[c].ports
  BY SMTT(30), <1>1, LoseFacts DEF Inv
<1> QED BY <1>2 DEF Inv, CurShape

LEMMA ChangePortStep == ASSUME NEW p \in Ports PROVE Inv /\ ChangePort(p) => Inv'
<1> SUFFICES ASSUME Inv, ChangePort(p) PROVE Inv'
  OBVIOUS
<1> USE Apart
<1>0. /\ TypeOK /\ CurShape /\ DesShape /\ Kept /\ CtrlsMerged /\ StatesAgree /\ Changes
      /\ ListsChecked /\ IgnoredOut
  BY SMTT(30) DEF Inv
<1>1. pc = "change" /\ Is(pending[p])
  BY DEF ChangePort
<1>2. SUFFICES ASSUME ~Fail PROVE Inv'
  BY SMTT(30), FailStep
<1> DEFINE ctrl == pending[p].ctrl
           new == Iface("up", Unset, ctrl)
<1>3. /\ pc' = "change" /\ cur' = cur /\ prio' = prio /\ ignored' = ignored
      /\ pending' = [pending EXCEPT ![p] = NoIface]
      /\ \/ /\ Is(merged[p]) /\ ~CannotLive(p, ctrl)
            /\ listed' = listed \cup (IF Is(apply[p]) THEN {} ELSE {p})
            /\ apply' = [apply EXCEPT ![p] = ApplyChange(p, ctrl)]
            /\ merged' = [merged EXCEPT ![p] = MergedChange(p, ctrl, pending[p].state)]
            /\ des' = des
         \/ /\ ~Is(merged[p]) /\ ctrl \in OvsBridges
            /\ listed' = listed \cup {p}
            /\ apply' = [apply EXCEPT ![p] = new]
            /\ merged' = [merged EXCEPT ![p] = new]
            /\ des' = [des EXCEPT ![p] = new]
  BY <1>1, <1>2 DEF ChangePort
<1>4. /\ Untouched(p)
      /\ \/ ctrl \in Ctrls /\ MayGet(ctrl, p)
         \/ ctrl = Detach /\ OnlyLost(p)
  BY <1>0, <1>1 DEF Changes
<1>5. ASSUME NEW i \in Ifaces, i # p
      PROVE  des'[i] = des[i] /\ apply'[i] = apply[i] /\ merged'[i] = merged[i]
  BY <1>0, <1>3, <1>5 DEF TypeOK
<1>6. \A c \in Ctrls : des'[c] = des[c] /\ apply'[c] = apply[c] /\ merged'[c] = merged[c]
  BY <1>5
<1>7. ASSUME NEW q \in Ports, q # p PROVE pending'[q] = pending[q]
  BY <1>0, <1>3, <1>7 DEF TypeOK
<1>8. pending'[p] = NoIface
  BY <1>0, <1>3 DEF TypeOK
<1> DEFINE PortOK == /\ des'[p] \in Records /\ apply'[p] \in Records /\ merged'[p] \in Records
                     /\ ~Is(des'[p]) => des'[p] = NoIface
                     /\ des'[p].ports = Unset /\ (des'[p].ctrl # Unset => Up(des'[p]))
                     /\ Is(des'[p]) /\ cur[p].state # "ignore" => p \in listed'
                     /\ des'[p].state # "ignore"
                     /\ ~Is(des'[p]) => cur[p].state # "ignore"
                     /\ Is(merged'[p]) /\ (Is(cur[p]) \/ Is(des'[p]))
                     /\ Is(des'[p]) => Is(apply'[p])
                     /\ Up(des'[p]) => Up(apply'[p])
                     /\ Is(apply'[p]) /\ merged'[p].state = apply'[p].state
                     /\ Up(apply'[p]) /\ cur[p].state # "ignore" => p \in listed'
                     /\ Outcome(p)' /\ PortChecked(p)'
<1>9. ASSUME Is(merged[p]) PROVE PortOK
  <2>1. /\ ~CannotLive(p, ctrl) /\ des' = des
        /\ listed' = listed \cup (IF Is(apply[p]) THEN {} ELSE {p})
        /\ apply'[p] = ApplyChange(p, ctrl)
        /\ merged'[p] = MergedChange(p, ctrl, pending[p].state)
    BY <1>0, <1>3, <1>9 DEF TypeOK
  <2>2. /\ apply'[p] \in Records /\ merged'[p] \in Records
        /\ merged'[p].state = apply'[p].state
        /\ apply'[p].state = IF p \in OvsIfaces /\ ctrl = Detach THEN "absent"
                             ELSE IF Is(des[p]) THEN des[p].state ELSE "up"
        /\ ~(p \in OvsIfaces /\ ctrl = Detach) => apply'[p].ctrl = ctrl
    BY <1>1, <1>4, <1>9, <2>1, ChangedFields
  <2>3. Is(apply'[p]) /\ Is(merged'[p])
    BY <2>2 DEF Is
  <2>4. p \in OvsIfaces /\ ctrl = Detach => ~Up(des[p])
    <3>1. p \in ignored => ~Up(des[p])
      BY <1>0, <1>1 DEF IgnoredOut, Later, Is, Up
    <3>2. ctrl = Detach /\ p \notin ignored => cur[p].ctrl \in Ctrls
      BY <1>4, LostHasController
    <3> QED BY <1>4, <2>1, <3>1, <3>2 DEF CannotLive, Untouched
  <2>5. Outcome(p)'
    <3>1. CASE ctrl \in Ctrls
      <4>1. PICK c \in Ctrls : c = ctrl
        BY <3>1
      <4>2. Holder(p)' = c
        BY <2>2, <2>3, <3>1, <4>1 DEF Holder
      <4>3. MayGet(c, p)
        BY <1>4, <3>1, <4>1
      <4>4. MayGet(c, p)'
        BY <1>3, <1>6, <4>3, Settled
      <4> QED BY <4>2, <4>4 DEF Outcome
    <3>2. CASE ctrl = Detach
      <4>1. OnlyLost(p)'
        <5>1. \A c \in Ctrls : /\ MustGet(c, p)' <=> MustGet(c, p)
                               /\ Loses(c, p)' <=> Loses(c, p)
          BY <1>3, <1>6, Settled
        <5> QED BY <1>4, <3>2, <5>1 DEF OnlyLost
      <4>2. CASE p \in OvsIfaces
        BY <2>2, <3>2, <4>1, <4>2 DEF Outcome
      <4>3. CASE p \notin OvsIfaces
        <5>1. Holder(p)' = Detach
          BY <2>2, <2>3, <3>2, <4>3 DEF Holder
        <5> QED BY <4>1, <4>3, <5>1 DEF Outcome
      <4> QED BY <4>2, <4>3
    <3> QED BY <1>4, <3>1, <3>2
  <2>6. PortChecked(p)'
    <3>1. PortChecked(p)
      BY <1>0, <1>1 DEF ListsChecked, Later
    <3> QED BY <1>3, <1>6, <2>1, <3>1, ChecksStay
  <2>7. /\ des[p] \in Records
        /\ ~Is(des[p]) => des[p] = NoIface
        /\ des[p].ports = Unset /\ (des[p].ctrl # Unset => Up(des[p]))
        /\ Is(des[p]) /\ cur[p].state # "ignore" => p \in listed
        /\ des[p].state # "ignore"
        /\ ~Is(des[p]) => cur[p].state # "ignore"
    BY <1>0, <1>1 DEF TypeOK, DesShape, Kept, Later
  <2>8. Is(cur[p]) \/ Is(des[p])
    BY <1>0, <1>1, <1>9 DEF StatesAgree, Later
  <2>9. Up(apply'[p]) /\ cur[p].state # "ignore" => p \in listed'
    <3>1. CASE Is(des[p])
      BY <2>1, <2>7, <3>1
    <3>2. CASE ~Is(des[p])
      BY <1>4, <2>1, <3>2 DEF Untouched
    <3> QED BY <3>1, <3>2
  <2>10. Up(des[p]) => Up(apply'[p])
    BY <2>2, <2>4 DEF Up, Is
  <2> QED BY SMTT(30), <2>1, <2>2, <2>3, <2>5, <2>6, <2>7, <2>8, <2>9, <2>10
<1>10. ASSUME ~Is(merged[p]) PROVE PortOK
  <2>1. /\ ctrl \in OvsBridges /\ p \in listed'
        /\ des'[p] = new /\ apply'[p] = new /\ merged'[p] = new
    BY <1>0, <1>3, <1>10 DEF TypeOK
  <2>2. PICK c \in Ctrls : c = ctrl
    BY <2>1
  <2>3. new \in Records /\ new.state = "up" /\ new.ports = Unset /\ new.ctrl = c
    <3>1. "up" \in States /\ Unset \in PortLists /\ c \in CtrlNames
      BY DEF States, PortLists, CtrlNames
    <3> QED BY <2>2, <3>1, IfaceType
  <2> HIDE DEF new
  <2>4. MayGet(c, p)
    BY <1>4, <2>2
  <2>5. MayGet(c, p)'
    BY <1>3, <1>6, <2>4, Settled
  <2>6. Outcome(p)'
    <3>1. Holder(p)' = c
      BY <2>1, <2>3 DEF Holder, Is
    <3> QED BY <2>5, <3>1 DEF Outcome
  <2>7. PortChecked(p)'
    <3>1. /\ Is(des[c]) /\ des[c].state # "absent"
          /\ des[c].ports # Unset => p \in des[c].ports
      BY <1>0, <2>4, GetFacts
    <3>2. merged[c].state = des[c].state
      BY <1>0, <1>1, <3>1 DEF CtrlsMerged, Later
    <3>3. merged'[c].state \notin {"none", "absent"} /\ (des'[c].ports # Unset => p \in des'[c].ports)
      BY <1>6, <3>1, <3>2 DEF Is
    <3>4. des'[p].ctrl = c
      BY <2>1, <2>3
    <3> QED BY <2>5, <3>3, <3>4 DEF PortChecked
  <2> QED BY <2>1, <2>3, <2>6, <2>7 DEF Is, Up
<1>11. PortOK
  BY <1>9, <1>10
<1> HIDE DEF ctrl, new
<1>12. TypeOK'
  <2>1. /\ des' \in [Ifaces -> Records] /\ apply' \in [Ifaces -> Records]
        /\ merged' \in [Ifaces -> Records]
    <3>1. \A i \in Ifaces : des'[i] \in Records /\ apply'[i] \in Records /\ merged'[i] \in Records
      BY <1>0, <1>5, <1>11 DEF TypeOK
    <3>2. /\ des' = [i \in Ifaces |-> des'[i]] /\ apply' = [i \in Ifaces |-> apply'[i]]
          /\ merged' = [i \in Ifaces |-> merged'[i]]
      BY <1>0, <1>3 DEF TypeOK
    <3> QED BY <3>1, <3>2
  <2>2. pending' \in [Ports -> Records]
    BY <1>0, <1>3, NoIfaceType DEF TypeOK
  <2>3. listed' \subseteq Ifaces
    BY <1>0, <1>3 DEF TypeOK
  <2> QED BY <1>0, <1>3, <2>1, <2>2, <2>3 DEF TypeOK
<1>13. CurShape'
  BY <1>0, <1>3, <1>6 DEF CurShape
<1>14. listed \subseteq listed'
  BY <1>3
<1>15. DesShape'
  <2>1. ASSUME NEW i \in Ifaces
        PROVE  /\ ~Is(des'[i]) => des'[i] = NoIface
               /\ Is(des'[i]) /\ cur'[i].state # "ignore" => i \in listed'
    <3>1. CASE i = p
      BY <1>3, <1>11, <3>1
    <3>2. CASE i # p
      BY <1>0, <1>3, <1>5, <1>14, <3>2 DEF DesShape
    <3> QED BY <3>1, <3>2
  <2>2. ASSUME NEW q \in Ports
        PROVE  des'[q].ports = Unset /\ (des'[q].ctrl # Unset => Up(des'[q]))
    BY <1>0, <1>5, <1>11 DEF DesShape
  <2>3. \A c \in Ctrls : des'[c].ctrl = Unset
    BY <1>0, <1>6 DEF DesShape
  <2> QED BY <2>1, <2>2, <2>3 DEF DesShape
<1>16. Kept'
  BY <1>0, <1>1, <1>3, <1>5, <1>11 DEF Kept, Later
<1>17. CtrlsMerged'
  BY <1>0, <1>1, <1>3, <1>6 DEF CtrlsMerged
<1>18. StatesAgree'
  <2> SUFFICES ASSUME NEW q \in Ports
               PROVE  /\ Is(merged'[q]) <=> Is(cur'[q]) \/ Is(des'[q])
                      /\ Is(des'[q]) => Is(apply'[q])
                      /\ Up(des'[q]) => Up(apply'[q])
                      /\ Is(apply'[q]) => merged'[q].state = apply'[q].state
                      /\ Is(merged'[q]) /\ ~Is(apply'[q]) => Up(merged'[q]) /\ Up(cur'[q])
                      /\ Up(apply'[q]) /\ cur'[q].state # "ignore" => q \in listed'
    BY DEF StatesAgree
  <2>1. CASE q = p
    BY <1>3, <1>11, <2>1
  <2>2. CASE q # p
    <3>1. des'[q] = des[q] /\ apply'[q] = apply[q] /\ merged'[q] = merged[q] /\ cur' = cur
      BY <1>3, <1>5, <2>2
    <3> QED BY <1>0, <1>1, <1>14, <3>1 DEF StatesAgree, Later
  <2> QED BY <2>1, <2>2
<1>19. Changes' /\ ListsChecked'
  <2>1. ASSUME NEW q \in Ports, q # p
        PROVE  /\ PortChecked(q)'
               /\ Is(pending'[q]) => /\ Untouched(q)'
                                     /\ \/ pending'[q].ctrl \in Ctrls /\ MayGet(pending[q].ctrl, q)'
                                        \/ pending'[q].ctrl = Detach /\ OnlyLost(q)'
               /\ ~Is(pending'[q]) => Outcome(q)'
    <3>1. /\ des'[q] = des[q] /\ apply'[q] = apply[q] /\ merged'[q] = merged[q] /\ cur' = cur
          /\ pending'[q] = pending[q]
      BY <1>3, <1>5, <1>7, <2>1
    <3>2. PortChecked(q)'
      BY <1>0, <1>1, <1>6, <3>1, ChecksStay DEF ListsChecked, Later
    <3>3. (OnlyLost(q)' <=> OnlyLost(q)) /\ (Outcome(q)' <=> Outcome(q))
      <4>1. Holder(q)' = Holder(q)
        BY <3>1 DEF Holder
      <4> QED BY <1>6, <3>1, <4>1, OutcomeStays
    <3>4. Untouched(q)' <=> Untouched(q)
      BY <3>1 DEF Untouched
    <3>5. ASSUME pending[q].ctrl \in Ctrls, MayGet(pending[q].ctrl, q)
          PROVE  MayGet(pending[q].ctrl, q)'
      <4>1. PICK c \in Ctrls : c = pending[q].ctrl
        BY SMTT(30), <3>5
      <4>2. MayGet(c, q)'
        BY <1>6, <3>1, <3>5, <4>1, Settled
      <4>3. c = pending'[q].ctrl
        BY <3>1, <4>1
      <4> QED BY <4>2, <4>3
    <3> QED BY <1>0, <1>1, <3>1, <3>2, <3>3, <3>4, <3>5 DEF Changes
  <2>2. ~Is(pending'[p]) /\ Outcome(p)' /\ PortChecked(p)'
    BY <1>8, <1>11, NoIfaceType DEF Is
  <2>3. Changes'
    BY SMTT(30), <1>3, <2>1, <2>2 DEF Changes
  <2> QED BY <2>1, <2>2, <2>3 DEF ListsChecked
<1>20. IgnoredOut'
  <2>1. ASSUME p \in ignored, Is(des'[p]) PROVE Is(des[p]) \/ Recreated(p)
    <3> SUFFICES ASSUME ~Is(merged[p]) PROVE Recreated(p)
      BY <1>3, <2>1
    <3>1. PICK b \in OvsBridges : b = pending[p].ctrl
      BY <1>3 DEF ctrl
    <3>2. MayGet(b, p) /\ b \in Ctrls /\ b \notin Vrfs
      BY <1>4, <3>1 DEF ctrl
    <3>3. \/ des[b].ports # Unset /\ p \in des[b].ports
          \/ Is(cur[b]) /\ p \in cur[b].ports
      BY <1>0, <3>2, GetFacts DEF Is
    <3>4. ~(Is(cur[b]) /\ p \in cur[b].ports)
      BY <1>0, <2>1, <3>2 DEF CurShape
    <3> QED BY <1>0, <1>1, <2>1, <3>3, <3>4 DEF IgnoredOut, Later
  <2>2. ASSUME NEW i \in ignored
        PROVE  /\ Is(des'[i]) => Is(des[i]) \/ Recreated(i)
               /\ i \in Ports /\ Is(pending'[i]) => ~Is(des'[i])
    <3>1. CASE i = p
      BY <1>8, <2>1, <3>1, NoIfaceType DEF Is
    <3>2. CASE i # p
      <4>1. i \in Ifaces /\ des'[i] = des[i]
        BY <1>0, <1>5, <3>2 DEF TypeOK
      <4> QED BY <1>0, <1>1, <1>7, <3>2, <4>1 DEF IgnoredOut, Later
    <3> QED BY <3>1, <3>2
  <2> QED BY <1>0, <1>1, <1>3, <1>6, <2>2, StillOut DEF Later
<1> QED BY Zenon, <1>3, <1>12, <1>13, <1>15, <1>16, <1>17, <1>18, <1>19, <1>20
        DEF Inv, Blank, Early, OneHasIt, Priorities, Marked, AtLast

(* The steps after handle_changed_ports() leave the current and the        *)
(* desired state alone.                                                    *)
LEMMA LaterStep ==
  ASSUME Inv, pc \in Later \ {"lists", "changes"}, pc' \in Later \ {"lists", "changes"},
         cur' = cur, des' = des, listed' = listed, ignored' = ignored, pending' = pending,
         apply' \in [Ifaces -> Records], merged' \in [Ifaces -> Records],
         prio' \in [Ifaces -> Nat], \A c \in Ctrls : prio'[c] = 0,
         \A c \in Ctrls : apply'[c] = apply[c] /\ merged'[c] = merged[c]
  PROVE  /\ TypeOK' /\ CurShape' /\ DesShape' /\ Kept' /\ CtrlsMerged' /\ ListsChecked'
         /\ IgnoredOut'
<1>0. /\ TypeOK /\ CurShape /\ DesShape /\ Kept /\ CtrlsMerged /\ ListsChecked /\ IgnoredOut
      /\ pc \in Later /\ pc' \in Later
  BY SMTT(30) DEF Inv
<1>1. TypeOK' /\ CurShape' /\ DesShape'
  BY Zenon, <1>0 DEF TypeOK, CurShape, DesShape, Later
<1>2. Kept' /\ CtrlsMerged'
  BY <1>0 DEF Kept, CtrlsMerged
<1>3. ListsChecked'
  BY SMTT(30), <1>0, ChecksStay DEF ListsChecked
<1>4. IgnoredOut'
  BY <1>0, StillOut DEF IgnoredOut
<1> QED BY <1>1, <1>2, <1>3, <1>4

LEMMA SameOutcomes ==
  ASSUME UNCHANGED <<cur, des, apply>>, NEW p \in Ports
  PROVE  (Outcome(p)' <=> Outcome(p)) /\ Holder(p)' = Holder(p) /\ (Named(p)' <=> Named(p))
<1>1. Holder(p)' = Holder(p) /\ (Named(p)' <=> Named(p))
  BY SMTT(30) DEF Holder, Named
<1> QED BY <1>1, OutcomeStays

LEMMA ChangesDoneStep == Inv /\ ChangesDone => Inv'
<1> SUFFICES ASSUME Inv, ChangesDone PROVE Inv'
  OBVIOUS
<1> USE Apart
<1>1. /\ pc = "change" /\ pc' = "resolve"
      /\ UNCHANGED <<cur, des, listed, ignored, merged, apply, pending, prio>>
  BY DEF ChangesDone
<1>2. /\ TypeOK' /\ CurShape' /\ DesShape' /\ Kept' /\ CtrlsMerged' /\ ListsChecked'
      /\ IgnoredOut'
  BY <1>1, LaterStep DEF Inv, TypeOK, Later
<1>3. StatesAgree'
  BY <1>1 DEF Inv, StatesAgree, Later
<1>4. ASSUME NEW p \in Ports PROVE Outcome(p)
  <2>1. CASE Is(pending[p])
    <3>1. ~Is(merged[p]) /\ pending[p].ctrl = Detach
      BY <2>1 DEF ChangesDone
    <3>2. OnlyLost(p)
      BY <1>1, <2>1, <3>1 DEF Inv, Changes
    <3>3. ~Is(cur[p]) /\ ~Is(apply[p])
      BY <1>1, <3>1 DEF Inv, StatesAgree, Later, Is
    <3>4. Holder(p) = Unset
      BY <3>3, NoIfaceType DEF Inv, CurShape, Holder
    <3> QED BY <3>2, <3>3, <3>4 DEF Outcome
  <2>2. CASE ~Is(pending[p])
    BY <1>1, <2>2 DEF Inv, Changes
  <2> QED BY SMTT(30), <2>1, <2>2
<1>5. Changes'
  BY <1>1, <1>4, SameOutcomes DEF Changes
<1> QED BY SMTT(30), <1>1, <1>2, <1>3, <1>5 DEF Inv, Blank, Early, OneHasIt, Priorities, Marked, AtLast

LEMMA ResolveStep == Inv /\ Resolve => Inv'
<1> SUFFICES ASSUME Inv, Resolve PROVE Inv'
  OBVIOUS
<1> USE Apart
<1>0. TypeOK /\ CurShape /\ DesShape /\ StatesAgree /\ Changes /\ pc \in Later
  BY DEF Inv, Resolve, Later
<1>1. /\ pc = "resolve" /\ pc' = "priority"
      /\ UNCHANGED <<cur, des, listed, ignored, pending, prio>>
      /\ apply' = [i \in Ifaces |-> IF i \in Ports /\ Claims(i)
                                    THEN ApplyChange(i, des[i].ctrl) ELSE apply[i]]
      /\ merged' = [i \in Ifaces |-> IF i \in Ports /\ Claims(i)
                                     THEN [merged[i] EXCEPT !.ctrl = des[i].ctrl]
                                     ELSE merged[i]]
  BY DEF Resolve
<1>2. \A c \in Ctrls : apply'[c] = apply[c] /\ merged'[c] = merged[c]
  BY <1>1
<1>3. ASSUME NEW p \in Ports PROVE Claims(p) <=> Named(p)
  BY <1>0, UpIsMerged DEF Claims, Named, DesShape
<1>4. ASSUME NEW p \in Ports
      PROVE  /\ apply'[p] \in Records /\ merged'[p] \in Records
             /\ apply'[p].state = apply[p].state /\ merged'[p].state = merged[p].state
             /\ Named(p) => apply'[p].ctrl = des[p].ctrl
             /\ ~Named(p) => apply'[p] = apply[p]
  <2>0. apply[p] \in Records /\ merged[p] \in Records
    BY <1>0 DEF TypeOK
  <2>1. CASE Named(p)
    <3>1. PICK c \in Ctrls : c = des[p].ctrl
      BY <2>1 DEF Named
    <3>2. Is(des[p])
      BY <1>0, <2>1, UpIsMerged DEF Named
    <3>3. /\ apply'[p] = [apply[p] EXCEPT !.ctrl = c]
          /\ merged'[p] = [merged[p] EXCEPT !.ctrl = c]
      BY <1>1, <1>3, <2>1, <3>1, <3>2 DEF ApplyChange, Changed
    <3>4. /\ apply'[p] \in Records /\ apply'[p].state = apply[p].state /\ apply'[p].ctrl = c
      BY <2>0, <3>3 DEF Records
    <3>5. /\ merged'[p] \in Records /\ merged'[p].state = merged[p].state
      BY <2>0, <3>3 DEF Records
    <3> QED BY <2>1, <3>1, <3>4, <3>5
  <2>2. CASE ~Named(p)
    BY <1>1, <1>3, <2>0, <2>2
  <2> QED BY <2>1, <2>2
<1>5. apply' \in [Ifaces -> Records] /\ merged' \in [Ifaces -> Records]
  <2>1. \A i \in Ifaces : apply'[i] \in Records /\ merged'[i] \in Records
    BY <1>0, <1>2, <1>4 DEF TypeOK
  <2>2. apply' = [i \in Ifaces |-> apply'[i]] /\ merged' = [i \in Ifaces |-> merged'[i]]
    BY <1>1
  <2> QED BY <2>1, <2>2
<1>6. /\ TypeOK' /\ CurShape' /\ DesShape' /\ Kept' /\ CtrlsMerged' /\ ListsChecked'
      /\ IgnoredOut'
  BY <1>0, <1>1, <1>2, <1>5, LaterStep DEF TypeOK, Later
<1>7. StatesAgree'
  BY ZenonT(60), <1>0, <1>1, <1>4 DEF StatesAgree, Is, Up
<1>8. Changes'
  <2> SUFFICES ASSUME NEW p \in Ports
               PROVE  IF Named(p)' THEN Holder(p)' = des'[p].ctrl ELSE Outcome(p)'
    BY <1>1 DEF Changes
  <2>1. Named(p)' <=> Named(p)
    BY <1>1 DEF Named
  <2>2. CASE Named(p)
    <3>1. Is(apply[p]) /\ des[p].ctrl # Unset
      BY <1>0, <2>2, UpIsMerged DEF Named
    <3>2. Is(apply'[p]) /\ apply'[p].ctrl = des[p].ctrl
      BY <1>4, <2>2, <3>1 DEF Is
    <3> QED BY <1>1, <2>1, <2>2, <3>1, <3>2 DEF Holder
  <2>3. CASE ~Named(p)
    <3>1. Outcome(p)
      BY <1>0, <1>1 DEF Changes
    <3>2. apply'[p] = apply[p]
      BY <1>4, <2>3
    <3>3. Holder(p)' = Holder(p)
      BY SMTT(30), <1>1, <3>2 DEF Holder
    <3> QED BY <1>1, <2>1, <2>3, <3>1, <3>2, <3>3, OutcomeStays
  <2> QED BY <2>2, <2>3
<1> QED BY <1>1, <1>6, <1>7, <1>8 DEF Inv, Blank, Early, OneHasIt, Priorities, Marked, AtLast

LEMMA SetUpPriorityStep == Inv /\ SetUpPriority => Inv'
<1> SUFFICES ASSUME Inv, SetUpPriority PROVE Inv'
  OBVIOUS
<1> USE Apart
<1>0. TypeOK /\ CurShape /\ DesShape /\ StatesAgree /\ Changes /\ CtrlsMerged /\ pc \in Later
  BY DEF Inv, SetUpPriority, Later
<1>1. /\ pc = "priority" /\ pc' = "overbook"
      /\ UNCHANGED <<cur, des, listed, ignored, merged, apply, pending>>
  BY DEF SetUpPriority
<1> DEFINE High == 1 + Cardinality(OvsBridges)
<1>2. PICK at \in [Waiting \cup Upper -> 1 .. Cardinality(Waiting \cup Upper)],
           first \in [Waiting -> 1 .. High],
           last \in [Upper -> 0 .. High + Cardinality(Upper)] :
        /\ ParentLoop(at, first, last)
        /\ prio' = [i \in Ifaces |-> IF i \in Upper THEN last[i]
                                     ELSE IF i \in Waiting THEN first[i] ELSE 0]
  BY DEF SetUpPriority
<1>3. High \in Nat /\ High + Cardinality(Upper) \in Nat
  <2>1. IsFiniteSet(OvsBridges) /\ IsFiniteSet(Upper)
    BY ControllersAssumption, FS_Subset DEF Upper
  <2>2. Cardinality(OvsBridges) \in Nat /\ Cardinality(Upper) \in Nat
    BY <2>1, FS_CardinalityType
  <2> QED BY <2>2
<1> HIDE DEF High
<1>4. /\ \A p \in Waiting : first[p] \in Nat /\ first[p] > 0
      /\ \A p \in Upper : last[p] \in Nat
  BY <1>2, <1>3
<1>5. Waiting \subseteq Ports /\ Upper \subseteq Ports
  BY DEF Waiting, Upper
<1>6. prio' \in [Ifaces -> Nat] /\ \A c \in Ctrls : prio'[c] = 0
  <2>1. \A i \in Ifaces : prio'[i] \in Nat
    BY <1>2, <1>4
  <2>2. \A c \in Ctrls : prio'[c] = 0
    BY <1>2, <1>5
  <2> QED BY <1>2, <2>1, <2>2
<1>7. /\ TypeOK' /\ CurShape' /\ DesShape' /\ Kept' /\ CtrlsMerged' /\ ListsChecked'
      /\ IgnoredOut'
  BY <1>0, <1>1, <1>6, LaterStep DEF TypeOK, Later
<1>8. StatesAgree'
  BY <1>0, <1>1 DEF StatesAgree
<1>9. Changes'
  BY <1>0, <1>1, SameOutcomes DEF Changes
<1>10. Priorities'
  <2> SUFFICES ASSUME NEW p \in Ports, p \in listed, Up(apply[p]),
                      apply[p].ctrl \in Ctrls, Is(apply[apply[p].ctrl])
               PROVE  prio'[p] > 0
    BY <1>1 DEF Priorities
  <2>1. p \in Waiting
    BY DEF Waiting
  <2>2. CASE p \in Upper
    <3> DEFINE a == Above(p)
               found == IF a \in Upper /\ at[a] < at[p] THEN last[a]
                        ELSE IF a \in Waiting THEN first[a] ELSE 0
    <3>1. found \in Nat
      BY <1>4
    <3>2. last[p] = found + 1 \/ last[p] = first[p]
      BY <1>2, <2>1, <2>2 DEF ParentLoop
    <3> HIDE DEF found
    <3>3. last[p] > 0
      BY <1>4, <2>1, <3>1, <3>2
    <3> QED BY <1>2, <2>2, <3>3
  <2>3. CASE p \notin Upper
    BY <1>2, <1>4, <2>1, <2>3
  <2> QED BY <2>2, <2>3
<1> QED BY <1>1, <1>7, <1>8, <1>9, <1>10 DEF Inv, Blank, Early, OneHasIt, Marked, AtLast

LEMMA OverbookStep == Inv /\ Overbook => Inv'
<1> SUFFICES ASSUME Inv, Overbook PROVE Inv'
  OBVIOUS
<1>0. TypeOK /\ StatesAgree /\ Changes /\ Priorities
  BY DEF Inv
<1>1. CASE Fail
  BY SMTT(30), <1>1, FailStep
<1>2. CASE /\ pc = "overbook" /\ pc' = "orphans"
           /\ UNCHANGED <<cur, des, listed, ignored, merged, apply, pending, prio>>
           /\ \A c, d \in Listing :
                c # d => PortsOf(merged[c]) \cap PortsOf(merged[d]) = {}
  <2>1. /\ TypeOK' /\ CurShape' /\ DesShape' /\ Kept' /\ CtrlsMerged' /\ ListsChecked'
        /\ IgnoredOut'
    BY SMTT(30), <1>0, <1>2, LaterStep DEF TypeOK, Later
  <2>2. StatesAgree' /\ Priorities'
    BY SMTT(30), <1>0, <1>2 DEF StatesAgree, Priorities, Later
  <2>3. Changes'
    BY Zenon, <1>0, <1>2, SameOutcomes DEF Changes
  <2>4. OneHasIt'
    <3> SUFFICES ASSUME NEW c \in Ctrls, NEW d \in Ctrls, NEW p \in Ports,
                        HasIt(c, p)', HasIt(d, p)'
                 PROVE  c = d
      BY SMTT(30) DEF OneHasIt
    <3>1. HasIt(c, p) /\ HasIt(d, p)
      BY Zenon, <1>2, Settled
    <3> QED BY <1>2, <3>1 DEF HasIt
  <2> QED BY <1>2, <2>1, <2>2, <2>3, <2>4 DEF Inv, Blank, Early, Marked, AtLast
<1> QED BY <1>1, <1>2 DEF Overbook, Check

LEMMA OneHasItStays ==
  ASSUME Inv, pc \in {"orphans", "post"}, cur' = cur, des' = des,
         \A c \in Ctrls : merged'[c] = merged[c]
  PROVE  OneHasIt'
<1> SUFFICES ASSUME NEW c \in Ctrls, NEW d \in Ctrls, NEW p \in Ports,
                    HasIt(c, p)', HasIt(d, p)'
             PROVE  c = d
  BY Zenon DEF OneHasIt
<1>1. HasIt(c, p) /\ HasIt(d, p)
  BY Zenon, Settled
<1> QED BY Zenon, <1>1 DEF Inv, OneHasIt

LEMMA MarkOrphansStep == Inv /\ MarkOrphans => Inv'
<1> SUFFICES ASSUME Inv, MarkOrphans PROVE Inv'
  OBVIOUS
<1> USE Apart
<1>0. TypeOK /\ CurShape /\ DesShape /\ StatesAgree /\ Changes /\ Priorities /\ pc \in Later
  BY DEF Inv, MarkOrphans, Later
<1>1. SUFFICES ASSUME ~Fail PROVE Inv'
  BY FailStep
<1>2. /\ pc = "orphans" /\ pc' = "post"
      /\ UNCHANGED <<cur, des, listed, ignored, pending, prio>>
      /\ \A p \in Orphans : ~Is(des[p])
      /\ merged' = [i \in Ifaces |->
                      IF i \in Orphans THEN [merged[i] EXCEPT !.state = "absent"] ELSE merged[i]]
      /\ apply' = [i \in Ifaces |->
                     IF i \in Orphans THEN [Changed(i) EXCEPT !.state = "absent"] ELSE apply[i]]
  BY <1>1 DEF MarkOrphans
<1>3. /\ Orphans \subseteq Ports \ OvsIfaces
      /\ \A p \in Orphans : Up(merged[p]) /\ Parent[p] \in Gone
      /\ \A p \in Ports \ OvsIfaces : Up(merged[p]) /\ Parent[p] \in Gone => p \in Orphans
  BY DEF Orphans
<1>4. ASSUME NEW i \in Ifaces, i \notin Orphans
      PROVE  apply'[i] = apply[i] /\ merged'[i] = merged[i]
  BY <1>2, <1>4
<1>5. ASSUME NEW p \in Orphans
      PROVE  /\ apply'[p] \in Records /\ merged'[p] \in Records
             /\ apply'[p].state = "absent" /\ merged'[p].state = "absent"
  <2>1. p \in Ports /\ merged[p] \in Records /\ cur[p] \in Records /\ ~Is(des[p])
    BY <1>0, <1>2, <1>3 DEF TypeOK
  <2>2. Changed(p) \in Records
    <3>1. "up" \in States /\ Unset \in PortLists /\ cur[p].ctrl \in CtrlNames
      BY <2>1, RecordFields DEF States, PortLists
    <3> QED BY <2>1, <3>1, IfaceType DEF Changed
  <2>3. /\ apply'[p] = [Changed(p) EXCEPT !.state = "absent"]
        /\ merged'[p] = [merged[p] EXCEPT !.state = "absent"]
    BY <1>2, <2>1
  <2>4. apply'[p] \in Records /\ apply'[p].state = "absent"
    BY <2>2, <2>3 DEF Records
  <2>5. merged'[p] \in Records /\ merged'[p].state = "absent"
    BY <2>1, <2>3 DEF Records
  <2> QED BY <2>4, <2>5
<1>6. \A c \in Ctrls : apply'[c] = apply[c] /\ merged'[c] = merged[c]
  BY <1>3, <1>4
<1>7. apply' \in [Ifaces -> Records] /\ merged' \in [Ifaces -> Records]
  <2>1. \A i \in Ifaces : apply'[i] \in Records /\ merged'[i] \in Records
    BY <1>0, <1>4, <1>5 DEF TypeOK
  <2>2. apply' = [i \in Ifaces |-> apply'[i]] /\ merged' = [i \in Ifaces |-> merged'[i]]
    BY <1>2
  <2> QED BY <2>1, <2>2
<1>8. /\ TypeOK' /\ CurShape' /\ DesShape' /\ Kept' /\ CtrlsMerged' /\ ListsChecked'
      /\ IgnoredOut'
  BY Zenon, <1>0, <1>2, <1>6, <1>7, LaterStep DEF TypeOK, Later
<1>9. OneHasIt'
  BY Zenon, <1>2, <1>6, OneHasItStays
<1>10. StatesAgree'
  <2> SUFFICES ASSUME NEW p \in Ports
               PROVE  /\ Is(merged'[p]) <=> Is(cur'[p]) \/ Is(des'[p])
                      /\ Is(des'[p]) => Is(apply'[p])
                      /\ Up(des'[p]) => Up(apply'[p])
                      /\ Is(apply'[p]) => merged'[p].state = apply'[p].state
                      /\ Is(merged'[p]) /\ ~Is(apply'[p]) => Up(merged'[p]) /\ Up(cur'[p])
                      /\ Up(apply'[p]) /\ cur'[p].state # "ignore" => p \in listed'
    BY DEF StatesAgree
  <2>1. CASE p \in Orphans
    <3>1. Is(merged[p]) /\ ~Is(des[p]) /\ ~Up(des[p])
      BY <1>2, <1>3, <2>1 DEF Up, Is
    <3>2. Is(cur[p])
      BY <1>0, <3>1 DEF StatesAgree
    <3> QED BY <1>2, <1>5, <2>1, <3>1, <3>2 DEF Is, Up
  <2>2. CASE p \notin Orphans
    BY <1>0, <1>2, <1>4, <2>2 DEF StatesAgree
  <2> QED BY <2>1, <2>2
<1>11. Gone \subseteq Gone'
  <2> SUFFICES ASSUME NEW g \in Gone PROVE g \in Gone'
    OBVIOUS
  <2>1. g \in Ifaces /\ g \notin Orphans
    BY <1>3 DEF Gone, Up
  <2> QED BY <1>4, <2>1 DEF Gone
<1>12. Changes'
  <2> SUFFICES ASSUME NEW p \in Ports
               PROVE  IF Named(p)' THEN Holder(p)' = des'[p].ctrl
                      ELSE \/ Outcome(p)'
                           \/ apply'[p].state = "absent" /\ Parent[p] \in Gone'
    BY SMTT(30), <1>2 DEF Changes
  <2>1. Named(p)' <=> Named(p)
    BY <1>2 DEF Named
  <2>2. CASE p \in Orphans
    <3>1. ~Named(p)
      BY <1>2, <2>2 DEF Named, Up, Is
    <3> QED BY <1>3, <1>5, <1>11, <2>1, <2>2, <3>1
  <2>3. CASE p \notin Orphans
    <3>1. apply'[p] = apply[p]
      BY <1>4, <2>3
    <3>2. Holder(p)' = Holder(p)
      BY Zenon, <1>2, <3>1 DEF Holder
    <3>3. Outcome(p)' <=> Outcome(p)
      BY Zenon, <1>2, <3>1, <3>2, OutcomeStays
    <3> QED BY <1>0, <1>2, <2>1, <3>2, <3>3 DEF Changes
  <2> QED BY <2>2, <2>3
<1>13. Priorities'
  <2> SUFFICES ASSUME NEW p \in Ports, p \in listed', Up(apply'[p]),
                      apply'[p].ctrl \in Ctrls, Is(apply'[apply'[p].ctrl])
               PROVE  prio'[p] > 0
    BY DEF Priorities
  <2>1. p \notin Orphans
    BY <1>5 DEF Up
  <2>2. apply'[p] = apply[p]
    BY <1>4, <2>1
  <2>3. Is(apply[apply[p].ctrl])
    BY <1>6, <2>2
  <2> QED BY Zenon, <1>0, <1>2, <2>2, <2>3 DEF Priorities
<1>14. Marked'
  <2> SUFFICES ASSUME NEW p \in Ports \ OvsIfaces, Up(merged'[p]), NEW q, q = Parent[p], q \in Gone'
               PROVE  q \in Ports \ OvsIfaces /\ Parent[q] \in Gone'
    BY DEF Marked
  <2>1. p \notin Orphans
    BY <1>5 DEF Up
  <2>2. q \notin Gone
    BY <1>3, <1>4, <2>1
  <2>3. q \in Ifaces
    BY SMTT(30), ControllersAssumption DEF Gone
  <2>4. q \in Orphans
    BY <1>4, <2>2, <2>3 DEF Gone
  <2> QED BY <1>3, <1>11, <2>4
<1> QED BY <1>2, <1>8, <1>9, <1>10, <1>12, <1>13, <1>14 DEF Inv, Blank, Early, AtLast

LEMMA PostProcessStep == Inv /\ PostProcess => Inv'
<1> SUFFICES ASSUME Inv, PostProcess PROVE Inv'
  OBVIOUS
<1> USE Apart
<1>0. /\ TypeOK /\ CurShape /\ DesShape /\ StatesAgree /\ Changes /\ Priorities /\ Marked
      /\ CtrlsMerged /\ pc \in Later
  BY DEF Inv, PostProcess, Later
<1>1. /\ pc = "post" /\ pc' = "ok"
      /\ UNCHANGED <<cur, des, listed, ignored, merged, pending, prio>>
      /\ apply' = [i \in Ifaces |-> IF Is(apply[i]) /\ apply[i].ctrl = Unset
                                    THEN [apply[i] EXCEPT !.ctrl = cur[i].ctrl] ELSE apply[i]]
  BY DEF PostProcess
<1>2. ASSUME NEW i \in Ifaces
      PROVE  /\ apply'[i] \in Records /\ apply'[i].state = apply[i].state
             /\ Is(apply[i]) /\ apply[i].ctrl = Unset => apply'[i].ctrl = cur[i].ctrl
             /\ ~(Is(apply[i]) /\ apply[i].ctrl = Unset) => apply'[i] = apply[i]
             /\ cur[i].ctrl = Unset => apply'[i] = apply[i]
  <2>0. apply[i] \in Records /\ cur[i] \in Records
    BY <1>0 DEF TypeOK
  <2>1. CASE Is(apply[i]) /\ apply[i].ctrl = Unset
    <3>1. apply'[i] = [apply[i] EXCEPT !.ctrl = cur[i].ctrl]
      BY <1>1, <2>1
    <3> QED BY <2>0, <2>1, <3>1 DEF Records
  <2>2. CASE ~(Is(apply[i]) /\ apply[i].ctrl = Unset)
    BY <1>1, <2>0, <2>2
  <2> QED BY <2>1, <2>2
<1>3. \A c \in Ctrls : apply'[c] = apply[c] /\ merged'[c] = merged[c]
  BY <1>0, <1>1, <1>2 DEF CurShape
<1>4. apply' \in [Ifaces -> Records]
  <2>1. apply' = [i \in Ifaces |-> apply'[i]]
    BY <1>1
  <2> QED BY <1>2, <2>1
<1>5. /\ TypeOK' /\ CurShape' /\ DesShape' /\ Kept' /\ CtrlsMerged' /\ ListsChecked'
      /\ IgnoredOut'
  BY Zenon, <1>0, <1>1, <1>3, <1>4, LaterStep DEF TypeOK, Later
<1>6. OneHasIt'
  BY <1>1, OneHasItStays
<1>7. \A p \in Ports : apply'[p].state = apply[p].state
  BY <1>2
<1>8. StatesAgree'
  BY <1>0, <1>1, <1>7 DEF StatesAgree, Is, Up
<1>9. Gone' = Gone
  BY <1>1, <1>2 DEF Gone, Is, Ifaces
<1>10. ASSUME NEW p \in Ports PROVE Holder(p)' = Holder(p)
  <2>1. CASE Is(apply[p]) /\ apply[p].ctrl = Unset
    <3>1. Is(apply'[p]) /\ apply'[p].ctrl = cur[p].ctrl
      BY <1>2, <2>1 DEF Is
    <3> QED BY <1>1, <2>1, <3>1 DEF Holder
  <2>2. CASE ~(Is(apply[p]) /\ apply[p].ctrl = Unset)
    <3>1. apply'[p] = apply[p]
      BY <1>2, <2>2
    <3> QED BY <1>1, <3>1 DEF Holder
  <2> QED BY <2>1, <2>2
<1>11. Changes'
  <2> SUFFICES ASSUME NEW p \in Ports
               PROVE  IF Named(p)' THEN Holder(p)' = des'[p].ctrl
                      ELSE \/ Outcome(p)'
                           \/ apply'[p].state = "absent" /\ Parent[p] \in Gone'
    BY <1>1 DEF Changes
  <2>1. Named(p)' <=> Named(p)
    BY <1>1 DEF Named
  <2>2. Outcome(p)' <=> Outcome(p)
    BY SMTT(30), <1>1, <1>7, <1>10, OutcomeStays
  <2> QED BY <1>0, <1>1, <1>7, <1>9, <1>10, <2>1, <2>2 DEF Changes
<1>12. Priorities'
  <2> SUFFICES ASSUME NEW p \in Ports, p \in listed', Up(apply'[p]), apply'[p].ctrl \in Ctrls,
                      Is(apply'[apply'[p].ctrl]), apply'[p].ctrl # cur'[p].ctrl
               PROVE  prio'[p] > 0
    BY Zenon, <1>1 DEF Priorities
  <2>1. apply'[p] = apply[p]
    BY Zenon, <1>1, <1>2
  <2>2. Is(apply[apply[p].ctrl])
    BY <1>3, <2>1
  <2> QED BY Zenon, <1>0, <1>1, <2>1, <2>2 DEF Priorities
<1>13. Marked'
  BY <1>0, <1>1, <1>9 DEF Marked
<1>14. AtLast'
  <2> SUFFICES ASSUME NEW p \in Ports, Is(apply'[p]), apply'[p].ctrl = Unset
               PROVE  cur[p].ctrl = Unset
    BY <1>1 DEF AtLast
  <2>1. Is(apply[p])
    BY <1>7 DEF Is
  <2> QED BY <1>2, <2>1
<1> QED BY <1>1, <1>5, <1>6, <1>8, <1>11, <1>12, <1>13, <1>14 DEF Inv, Blank, Early

-----------------------------------------------------------------------------
(* What the orders of the hash maps are needed for: a set of positions has *)
(* a first and a last one, and every controller has a position.            *)
LEMMA HasFirst ==
  ASSUME NEW T \in SUBSET Nat, T # {}
  PROVE  \E x \in T : \A y \in T : y >= x
<1>1. PICK x \in T : \A y \in T : ~(<<y, x>> \in OpToRel(<, Nat))
  BY NatLessThanWellFounded, WFMin
<1>2. \A y \in T : y < x => <<y, x>> \in OpToRel(<, Nat)
  BY DEF OpToRel
<1>3. \A y \in T : ~(y < x)
  BY <1>1, <1>2
<1>4. x \in Nat /\ T \subseteq Nat
  OBVIOUS
<1> QED BY <1>3, <1>4

LEMMA HasLast ==
  ASSUME NEW N \in Nat, NEW T \in SUBSET (1 .. N), T # {}
  PROVE  \E x \in T : \A y \in T : y <= x
<1> DEFINE U == {N - x : x \in T}
<1>1. PICK u \in U : \A v \in U : v >= u
  <2> HIDE DEF U
  <2>1. U \in SUBSET Nat /\ U # {}
    <3>1. \A x \in T : x \in Nat /\ N - x \in Nat
      OBVIOUS
    <3> QED BY Zenon, <3>1 DEF U
  <2> QED BY <2>1, HasFirst
<1>2. PICK x \in T : u = N - x
  BY <1>1
<1>3. \A y \in T : N - y >= N - x
  BY Zenon, <1>1, <1>2
<1>4. \A y \in T : y <= x
  <2>1. \A y \in T : y \in 1 .. N
    OBVIOUS
  <2> QED BY <1>3, <2>1
<1> QED BY <1>4

LEMMA WalksPassAll ==
  ASSUME NEW w \in Walks
  PROVE  /\ DOMAIN w = 1 .. Cardinality(Changing) /\ Cardinality(Changing) \in Nat
         /\ \A n \in DOMAIN w : w[n] \in Changing
         /\ \A c \in Changing : \E n \in DOMAIN w : w[n] = c
<1>1. IsFiniteSet(Changing)
  BY ControllersAssumption, FS_Subset DEF Changing
<1>2. Cardinality(Changing) \in Nat
  BY <1>1, FS_CardinalityType
<1> QED BY <1>2 DEF Walks

(* handle_changed_ports() collects a change for exactly the ports that     *)
(* some controller gets or loses, to a controller that gets it.            *)
LEMMA PendingFacts ==
  ASSUME Inv, pc \in Later, NEW w \in Walks, NEW conf \in SUBSET Ports, NEW p \in Ports
  PROVE  /\ Pending(w, conf, p) \in Records
         /\ Is(Pending(w, conf, p)) =>
              \/ \E c \in Ctrls : Pending(w, conf, p).ctrl = c /\ MayGet(c, p)
              \/ Pending(w, conf, p).ctrl = Detach /\ OnlyLost(p)
         /\ ~Is(Pending(w, conf, p)) =>
              /\ Pending(w, conf, p) = NoIface
              /\ \A c \in Ctrls : ~MustGet(c, p) /\ ~Loses(c, p)
<1> USE Apart
<1>0. TypeOK /\ CurShape /\ CtrlsMerged
  BY DEF Inv
<1>1. /\ DOMAIN w = 1 .. Cardinality(Changing) /\ Cardinality(Changing) \in Nat
      /\ \A n \in DOMAIN w : w[n] \in Changing
      /\ \A c \in Changing : \E n \in DOMAIN w : w[n] = c
  BY WalksPassAll
<1>2. ASSUME NEW c \in Changing
      PROVE  /\ c \in Ctrls /\ merged[c].state \in States \ {"none"}
             /\ p \in Attached(c, conf) => p \in Attached(c, Ports)
             /\ p \in Attached(c, {}) => p \in Attached(c, conf)
  <2>1. c \in Ctrls /\ Is(des[c])
    BY DEF Changing
  <2>2. merged[c].state = des[c].state
    BY <1>0, <2>1 DEF CtrlsMerged
  <2>3. des[c] \in Records
    BY <1>0, <2>1 DEF TypeOK
  <2>4. merged[c].state \in States \ {"none"}
    BY <2>1, <2>2, <2>3, RecordFields DEF Is
  <2> QED BY <2>1, <2>4 DEF Attached
<1> DEFINE At == {n \in DOMAIN w : p \in Attached(w[n], conf)}
           De == {n \in DOMAIN w : p \in Detached(w[n])}
           m == CHOOSE n \in At : \A k \in At : k <= n
           f == CHOOSE n \in De : \A k \in De : k >= n
<1>3. Pending(w, conf, p) = IF At # {} THEN Iface(merged[w[m]].state, Unset, w[m])
                            ELSE IF De # {} THEN Iface(merged[w[f]].state, Unset, Detach)
                            ELSE NoIface
  BY DEF Pending
<1>4. At # {} => m \in At
  <2>1. At \in SUBSET (1 .. Cardinality(Changing))
    BY <1>1
  <2>2. At # {} => \E n \in At : \A k \in At : k <= n
    <3> HIDE DEF At
    <3> QED BY <1>1, <2>1, HasLast
  <2> HIDE DEF At
  <2> QED BY <2>2
<1>5. De # {} => f \in De
  <2>1. De \in SUBSET Nat
    <3>1. De \subseteq 1 .. Cardinality(Changing)
      BY <1>1
    <3> HIDE DEF De
    <3> QED BY <1>1, <3>1
  <2>2. De # {} => \E n \in De : \A k \in De : k >= n
    <3> HIDE DEF De
    <3> QED BY <2>1, HasFirst
  <2> HIDE DEF De
  <2> QED BY <2>2
<1>6. At # {} => /\ w[m] \in Ctrls /\ merged[w[m]].state \in States \ {"none"}
                 /\ MayGet(w[m], p)
  <2>1. At # {} => w[m] \in Changing /\ p \in Attached(w[m], conf)
    BY <1>1, <1>4
  <2> HIDE DEF At, m
  <2> QED BY <1>2, <2>1 DEF MayGet
<1>7. De # {} => /\ w[f] \in Ctrls /\ merged[w[f]].state \in States \ {"none"}
                 /\ Loses(w[f], p)
  <2>1. De # {} => w[f] \in Changing /\ p \in Detached(w[f])
    BY <1>1, <1>5
  <2> HIDE DEF De, f
  <2> QED BY <1>2, <2>1 DEF Loses
<1>8. At = {} => \A c \in Ctrls : ~MustGet(c, p)
  <2> SUFFICES ASSUME NEW c \in Ctrls, MustGet(c, p) PROVE At # {}
    OBVIOUS
  <2>1. c \in Changing /\ p \in Attached(c, conf)
    BY <1>2 DEF MustGet
  <2> QED BY <1>1, <2>1
<1>9. De = {} => \A c \in Ctrls : ~Loses(c, p)
  <2> SUFFICES ASSUME NEW c \in Ctrls, Loses(c, p) PROVE De # {}
    OBVIOUS
  <2>1. c \in Changing /\ p \in Detached(c)
    BY DEF Loses
  <2> QED BY <1>1, <2>1
<1> HIDE DEF At, De, m, f
<1>10. Unset \in PortLists /\ Detach \in CtrlNames /\ \A c \in Ctrls : c \in CtrlNames
  BY DEF PortLists, CtrlNames
<1>11. CASE At # {}
  <2>1. Pending(w, conf, p) = Iface(merged[w[m]].state, Unset, w[m])
    BY <1>3, <1>11
  <2>2. /\ Pending(w, conf, p) \in Records /\ Is(Pending(w, conf, p))
        /\ Pending(w, conf, p).ctrl = w[m]
    BY <1>6, <1>10, <1>11, <2>1, IfaceType DEF Is
  <2> QED BY <1>6, <1>11, <2>2
<1>12. CASE At = {} /\ De # {}
  <2>1. Pending(w, conf, p) = Iface(merged[w[f]].state, Unset, Detach)
    BY <1>3, <1>12
  <2>2. /\ Pending(w, conf, p) \in Records /\ Is(Pending(w, conf, p))
        /\ Pending(w, conf, p).ctrl = Detach
    BY <1>7, <1>10, <1>12, <2>1, IfaceType DEF Is
  <2> QED BY <1>7, <1>8, <1>12, <2>2 DEF OnlyLost
<1>13. CASE At = {} /\ De = {}
  BY <1>3, <1>8, <1>9, <1>13, NoIfaceType DEF Is
<1> QED BY <1>11, <1>12, <1>13

LEMMA CollectChangesStep == Inv /\ CollectChanges => Inv'
<1> SUFFICES ASSUME Inv, CollectChanges PROVE Inv'
  OBVIOUS
<1> USE Apart
<1>0. /\ TypeOK /\ CurShape /\ DesShape /\ Kept /\ CtrlsMerged /\ StatesAgree /\ Changes
      /\ ListsChecked /\ pc \in Later /\ pc' \in Later
  BY DEF Inv, Later, CollectChanges
<1>1. /\ pc = "changes" /\ pc' = "change"
      /\ UNCHANGED <<cur, des, listed, ignored, merged, apply, prio>>
  BY DEF CollectChanges
<1>2. PICK w \in Walks, conf \in SUBSET Ports : pending' = [p \in Ports |-> Pending(w, conf, p)]
  BY DEF CollectChanges
<1>3. TypeOK'
  <2>1. pending' \in [Ports -> Records]
    BY SMTT(30), <1>0, <1>2, PendingFacts
  <2> QED BY <1>0, <1>1, <2>1 DEF TypeOK
<1>4. CurShape' /\ DesShape' /\ Kept' /\ CtrlsMerged' /\ StatesAgree'
  <2>1. CurShape'
    BY ZenonT(30), <1>0, <1>1 DEF CurShape
  <2>2. DesShape'
    BY ZenonT(30), <1>0, <1>1 DEF DesShape
  <2>3. Kept'
    BY ZenonT(30), <1>0, <1>1 DEF Kept
  <2>4. CtrlsMerged'
    BY ZenonT(30), <1>0, <1>1 DEF CtrlsMerged
  <2>5. StatesAgree'
    BY ZenonT(30), <1>0, <1>1 DEF StatesAgree
  <2> QED BY <2>1, <2>2, <2>3, <2>4, <2>5
<1>5. ListsChecked'
  BY <1>0, <1>1, ChecksStay DEF ListsChecked
<1>6. Changes'
  <2> SUFFICES ASSUME NEW p \in Ports
               PROVE  /\ Is(pending'[p]) =>
                           /\ Untouched(p)'
                           /\ \/ pending'[p].ctrl \in Ctrls /\ MayGet(pending[p].ctrl, p)'
                              \/ pending'[p].ctrl = Detach /\ OnlyLost(p)'
                      /\ ~Is(pending'[p]) => Outcome(p)'
    BY <1>1 DEF Changes
  <2>1. Untouched(p) /\ Untouched(p)'
    BY <1>0, <1>1 DEF Changes, Untouched
  <2>2. (OnlyLost(p)' <=> OnlyLost(p)) /\ (Outcome(p)' <=> Outcome(p))
    <3>1. Holder(p)' = Holder(p)
      BY <1>1 DEF Holder
    <3> QED BY <1>1, <3>1, OutcomeStays
  <2>3. pending'[p] = Pending(w, conf, p)
    BY <1>2
  <2>4. ASSUME NEW c \in Ctrls, pending'[p].ctrl = c, MayGet(c, p)
        PROVE  MayGet(pending[p].ctrl, p)'
    <3>1. MayGet(c, p)'
      BY <1>1, <2>4, Settled
    <3> QED BY <2>4, <3>1
  <2>5. ASSUME ~Is(pending'[p]) PROVE Outcome(p)
    BY <1>0, <2>1, <2>3, <2>5, PendingFacts, UntouchedHolder DEF Outcome
  <2>6. ASSUME Is(pending'[p])
        PROVE  \/ pending'[p].ctrl \in Ctrls /\ MayGet(pending[p].ctrl, p)'
               \/ pending'[p].ctrl = Detach /\ OnlyLost(p)'
    <3>1. \/ \E c \in Ctrls : pending'[p].ctrl = c /\ MayGet(c, p)
          \/ pending'[p].ctrl = Detach /\ OnlyLost(p)
      BY SMTT(30), <1>0, <2>3, <2>6, PendingFacts
    <3> QED BY <2>2, <2>4, <3>1
  <2> QED BY <2>1, <2>2, <2>5, <2>6
<1>7. IgnoredOut'
  BY <1>0, <1>1, StillOut DEF Inv, IgnoredOut
<1> QED BY Zenon, <1>1, <1>3, <1>4, <1>5, <1>6, <1>7 DEF Inv, Blank, Early, OneHasIt, Priorities, Marked, AtLast

-----------------------------------------------------------------------------
(* The invariant holds throughout MergedInterfaces::new() and process(),   *)
(* in whatever order the hash maps are walked through.                     *)
LEMMA Invariant == Spec => []Inv
<1>1. Inv /\ [Next]_vars => Inv'
  <2> SUFFICES ASSUME Inv, [Next]_vars PROVE Inv'
    OBVIOUS
  <2>1. CASE UNCHANGED vars
    <3>1. UNCHANGED <<pc, cur, des, listed, ignored, merged, apply, pending, prio>>
      BY SMTT(30), <2>1 DEF vars
    <3>2. /\ TypeOK' /\ CurShape' /\ DesShape' /\ Blank' /\ Kept' /\ CtrlsMerged' /\ StatesAgree'
          /\ IgnoredOut'
      <4>1. TypeOK'
        BY <3>1 DEF Inv, TypeOK
      <4>2. CurShape' /\ DesShape'
        BY Zenon, <3>1 DEF Inv, CurShape, DesShape
      <4>3. Blank' /\ Kept'
        BY Zenon, <3>1 DEF Inv, Blank, Kept
      <4>4. CtrlsMerged' /\ StatesAgree'
        BY Zenon, <3>1 DEF Inv, CtrlsMerged, StatesAgree
      <4>5. IgnoredOut'
        BY Zenon, <3>1 DEF Inv, IgnoredOut, Recreated
      <4> QED BY Zenon, <4>1, <4>2, <4>3, <4>4, <4>5
    <3>3. Gone' = Gone
      BY <3>1 DEF Gone
    <3>4. Priorities' /\ Marked' /\ AtLast'
      BY ZenonT(30), <3>1, <3>3 DEF Inv, Priorities, Marked, AtLast
    <3>5. \A c \in Ctrls, p \in Ports : HasIt(c, p)' <=> HasIt(c, p)
      BY ZenonT(30), <3>1, Settled
    <3>6. OneHasIt' /\ ListsChecked'
      <4>1. OneHasIt'
        BY ZenonT(30), <3>1, <3>5 DEF Inv, OneHasIt
      <4>2. \A p \in Ports : PortChecked(p) => PortChecked(p)'
        BY ZenonT(30), <3>1, ChecksStay
      <4>3. ListsChecked'
        BY ZenonT(30), <3>1, <4>2 DEF Inv, ListsChecked
      <4> QED BY Zenon, <4>1, <4>3
    <3>7. Changes'
      <4>1. \A p \in Ports : Untouched(p)' <=> Untouched(p)
        BY SMTT(30), <3>1 DEF Untouched
      <4>2. \A p \in Ports : OnlyLost(p)' <=> OnlyLost(p)
        BY <3>1 DEF OnlyLost, MustGet, Loses, Changing, Attached, Detached
      <4>3. \A p \in Ports : MayGet(pending[p].ctrl, p)' <=> MayGet(pending[p].ctrl, p)
        BY ZenonT(30), <3>1 DEF MayGet, Changing, Attached
      <4> QED BY Zenon, <3>1, <3>3, <4>1, <4>2, <4>3, SameOutcomes DEF Inv, Changes
    <3> QED BY <3>2, <3>4, <3>6, <3>7 DEF Inv
  <2>2. CASE Next
    BY <2>1, <2>2, AutoManageStep, IgnoreStep, MergeStep, ValidateListsStep, CollectChangesStep,
       ChangePortStep, ChangesDoneStep, ResolveStep, SetUpPriorityStep, OverbookStep,
       MarkOrphansStep, PostProcessStep DEF Next, Done
  <2> QED BY <2>1, <2>2
<1> QED BY <1>1, InitInv, PTL DEF Spec

(* The records of MergedInterfaces keep their types, and no controller is  *)
(* given a priority, also none that shares its name with an OVS interface. *)
THEOREM ControllersTypes == Spec => []TypeOK
<1>1. Inv => TypeOK
  BY DEF Inv
<1> QED BY <1>1, Invariant, PTL

(* resolve_port_iface_controller_type(): a port that is to be up and names *)
(* its controller ends with it, for any interfaces and any desired state.  *)
(* The OVS interfaces need that apply_ctrller_change() refuses to detach   *)
(* one that is to be up: it would not be up any more, and be left out.     *)
THEOREM NamedControllersWin == Spec => []NamedControllerWins
BY Invariant, NamedWins, PTL

(* handle_changed_ports(): a port that a controller to be up lists ends    *)
(* with it.  pending_changes keeps the last attachment over the first      *)
(* detachment, check_overbook_ports() leaves one controller to be up that  *)
(* attaches, and what the port names has been compared with the lists.     *)
THEOREM ListedPortsDoJoin == Spec => []ListedPortsJoin
BY Invariant, ListedJoin, PTL

(* handle_changed_ports() and preserve_current_controller_info(): no port  *)
(* stays up under a controller that is removed or that no longer lists it. *)
THEOREM NoControllerIsStale == Spec => []NoStaleController
BY Invariant, NoneIsStale, PTL

(* apply_ctrller_change(): no OVS interface is left up without a bridge,   *)
(* except one that the desired state detaches itself.                      *)
THEOREM OvsInterfacesKeepABridge == Spec => []OvsInterfaceHasBridge
BY Invariant, BridgesStay, PTL

(* mark_orphan_interface_as_absent(): nothing stays up on top of a deleted *)
(* interface where what can itself be an orphan is on top of nothing that  *)
(* can be deleted: the code looks at one level only.                       *)
THEOREM NothingIsOrphaned == ASSUME OneLevel PROVE Spec => []NoOrphans
BY Invariant, OrphansGo, PTL

(* remove_ignored_ifaces(): an interface that is ignored is not changed,   *)
(* nor is it in the list of ports that a controller is to have, but for    *)
(* that of a VRF and for the internal interface an OVS bridge is given:    *)
(* what else lists it must get it, and there is nothing to be got.         *)
THEOREM IgnoredAreUntouched == Spec => []IgnoredUntouched
BY Invariant, IgnoredStay, PTL

(* set_ifaces_up_priority(): a port with a new controller comes after it,  *)
(* whoever of the two the desired state names, in any insert_order: the    *)
(* loop over the parents takes no priority away.                           *)
THEOREM NewPortsFollow == Spec => []NewPortAfterController
BY Invariant, PortsFollow, PTL
=============================================================================
