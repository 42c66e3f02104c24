------------------------------ MODULE Profiles ------------------------------
(***************************************************************************)
(* Sending profiles to NetworkManager: nm_apply() (apply.rs) with          *)
(* perpare_nm_conns() (profile.rs) and the calls of query_apply/profile.rs,*)
(* for kernel interfaces, and NetworkManager as the code relies on it.     *)
(*                                                                         *)
(* NetworkManager answers a request to activate before it is done, and     *)
(* brings up the ports of a controller by itself later; the code skips     *)
(* those ports.  Requests fail, some for good and some until retried.      *)
(* Not with memory_only, which leaves other profiles in place.             *)
(***************************************************************************)
EXTENDS Naturals

CONSTANTS
  Ctrls, Ports,            \* interfaces
  Ethernet,                \* ports that exist without a profile
  Unset, Detach,           \* no controller mentioned; `controller: ""`
  None,                    \* no profile, no controller
  Absent,                  \* of a profile: there is none
  Scenarios,               \* [ifaces, sets, seen]: who is there, numbers of the
                           \* profiles each may have, what the current state
                           \* may say of them
  ACTIVATION_RETRY_COUNT

Ifaces == Ctrls \cup Ports
(* A UUID: the interface and a number.  0 is made by this apply, 3 is      *)
(* volatile as long as it is not stored.                                   *)
Uuids == Ifaces \X (0..3)
Of(i) == {u \in Uuids : u[1] = i}

ASSUME ProfilesAssumption ==
  /\ Ctrls \cap Ports = {} /\ Ethernet \subseteq Ports
  /\ {Unset, Detach, None, Absent} \cap Ifaces = {}
  /\ Unset # Detach /\ None # Absent /\ None \notin Uuids
  /\ \A w \in Scenarios : /\ w.ifaces \subseteq Ifaces
                          /\ w.sets \subseteq SUBSET (1..3)
                          /\ w.seen \subseteq {"none", "up", "ignore"}
  /\ ACTIVATION_RETRY_COUNT \in Nat \ {0}

VARIABLES
  pc,
  want,       \* for_apply: [state, ctrl], state "same" when not changed
  seen,       \* what the current state says: "none", "up", "ignore"
  prof,       \* controller that each profile names; Absent: no such profile
  volatile,   \* profiles that go away when they are deactivated
  active,     \* active profile of each interface
  under,      \* controller each interface is attached to
  bring,      \* controllers whose ports NetworkManager is to bring up
  stored,     \* the profile that is stored for each interface
  start,      \* profiles to activate
  stop,       \* profiles to deactivate at the end
  exist,      \* exist_nm_conns: the profiles when they were listed
  todo,       \* calls left in the current list
  acs,        \* nm_ac_uuids
  news,       \* new_controllers
  failed,     \* failed_nm_conns
  round       \* passes of activate_nm_profiles()

nm == <<prof, volatile, active, under, bring>>
plan == <<stored, start, stop, exist>>
loop == <<acs, news, failed, round>>
vars == <<pc, want, seen, nm, plan, todo, loop>>

Exists(u) == prof[u] # Absent
Active == {active[i] : i \in Ifaces} \ {None}
Changed(i) == want[i].state # "same"
-----------------------------------------------------------------------------
(* NetworkManager.                                                         *)

(* What becomes of it; p is what the profiles are otherwise. *)
NmBecomes(act, und, br, p) ==
  LET gone == {u \in volatile : u \in Active /\ u \notin {act[i] : i \in Ifaces}}
  IN /\ active' = act /\ under' = und /\ bring' = br
     /\ prof' = [u \in Uuids |-> IF u \in gone THEN Absent ELSE p[u]]
     /\ volatile' = volatile \ gone

(* Interfaces D go down, and the ports of those that are controllers. *)
NmDrops(D, p) ==
  LET Off == D \cup {i \in Ports : under[i] \in D}
  IN NmBecomes([i \in Ifaces |-> IF i \in Off THEN None ELSE active[i]],
               [i \in Ifaces |-> IF i \in Off THEN None ELSE under[i]],
               bring \ D, p)

CanActivate(u) ==
  /\ Exists(u)
  /\ prof[u] \in Ctrls => \E v \in Of(prof[u]) : Exists(v)

(* The controller of a port comes first, with any of its profiles.  A      *)
(* controller that is activated again loses its ports; NetworkManager      *)
(* brings up what names it as controller later.                            *)
NmActivates(u) ==
  LET i == u[1]
      New == {i} \cup {c \in {prof[u]} \cap Ctrls : active[c] = None}
      Lost == {p \in Ports : i \in Ctrls /\ under[p] = i}
  IN /\ CanActivate(u)
     /\ \E n \in [New -> 0..3] :
          /\ n[i] = u[2] /\ \A j \in New : Exists(<<j, n[j]>>)
          /\ NmBecomes([j \in Ifaces |-> IF j \in New THEN <<j, n[j]>>
                                         ELSE IF j \in Lost THEN None ELSE active[j]],
                       [j \in Ifaces |-> IF j = i THEN prof[u]
                                         ELSE IF j \in Lost THEN None ELSE under[j]],
                       bring \cup (New \cap Ctrls), prof)

(* Reapplied, the profile is in effect on the device it is active on. *)
NmReapplies(u) ==
  /\ active[u[1]] = u
  /\ prof[u] \in Ctrls => active[prof[u]] # None
  /\ under' = [under EXCEPT ![u[1]] = prof[u]]
  /\ UNCHANGED <<prof, volatile, active, bring>>

(* The ports of a controller that has been activated. *)
NmBringsPorts(c) ==
  LET Naming(p) == {u \in Of(p) : prof[u] = c}
      Free == {p \in Ports : active[p] = None /\ Naming(p) # {}}
  IN /\ c \in bring
     /\ \E n \in [Free -> 0..3] :
          /\ \A p \in Free : <<p, n[p]>> \in Naming(p)
          /\ NmBecomes([i \in Ifaces |-> IF i \in Free THEN <<i, n[i]>> ELSE active[i]],
                       [i \in Ifaces |-> IF i \in Free THEN c ELSE under[i]],
                       bring \ {c}, prof)
     /\ UNCHANGED <<pc, want, seen, plan, todo, loop>>
-----------------------------------------------------------------------------
(* What may be the case about an interface: the profiles it has with the   *)
(* controllers they name, the active one (0: none), what the current state *)
(* says of it, and what is asked for.                                      *)
Cases(w, isPort, isEth) ==
  LET Named == IF isPort THEN (Ctrls \cap w.ifaces) \cup {None} ELSE {None}
      Asked == IF isPort THEN (Ctrls \cap w.ifaces) \cup {Unset, Detach} ELSE {Unset}
      Inputs == [state : {"up", "down"}, ctrl : Asked]
                \cup [state : {"same", "absent"}, ctrl : {Unset}]
      Has == UNION {[s -> Named] : s \in w.sets}
  IN {x \in [has : Has, act : 0..3, seen : w.seen, want : Inputs] :
        /\ x.act \in DOMAIN x.has \cup {0}
        /\ 3 \in DOMAIN x.has => x.act = 3
        /\ x.seen = "ignore" => x.has = <<>>
        /\ (x.seen = "up") <=> (x.act # 0 \/ (isEth /\ x.seen # "ignore"))}

(* The case x of each controller and y of each port.  A port is attached   *)
(* to the controller its active profile names.  What module Controllers    *)
(* shows of for_apply holds: a port that does not mention its controller   *)
(* has none now, the one it gets is there, and one that is removed keeps   *)
(* no port.                                                                *)
Given(w, x, y) ==
  LET Case(i) == IF i \in Ctrls THEN x[i] ELSE y[i]
      Idle == [state |-> "same", ctrl |-> Unset]
  IN /\ \A p \in DOMAIN y : y[p] \in Cases(w, TRUE, p \in Ethernet)
     /\ prof = [u \in Uuids |->
                  IF u[1] \in w.ifaces /\ u[2] \in DOMAIN Case(u[1]).has
                  THEN Case(u[1]).has[u[2]] ELSE Absent]
     /\ active = [i \in Ifaces |-> IF i \in w.ifaces /\ Case(i).act # 0
                                   THEN <<i, Case(i).act>> ELSE None]
     /\ under = [i \in Ifaces |-> IF active[i] = None THEN None
                                  ELSE prof[active[i]]]
     /\ seen = [i \in Ifaces |-> IF i \in w.ifaces THEN Case(i).seen ELSE "none"]
     /\ want = [i \in Ifaces |-> IF i \in w.ifaces THEN Case(i).want ELSE Idle]
     /\ \A p \in DOMAIN y :
          LET old == under[p]
              c == want[p].ctrl IN
          /\ old # None => active[old] # None
          /\ want[p].state \in {"up", "down"} /\ c = Unset => old = None
          /\ c \in Ctrls => want[c].state \in {"up", "down"}
                            \/ (want[c].state = "same" /\ seen[c] # "none")
          /\ want[p].state = "same" /\ old # None => want[old].state # "absent"
     /\ volatile = {u \in Uuids : Exists(u) /\ u[2] = 3}

Init ==
  /\ \E w \in Scenarios :
       \E x \in [Ctrls \cap w.ifaces -> Cases(w, FALSE, FALSE)],
          y \in [Ports \cap w.ifaces -> Cases(w, TRUE, TRUE) \cup Cases(w, TRUE, FALSE)] :
         Given(w, x, y)
  /\ pc = "begin" /\ bring = {}
  /\ stored = [i \in Ifaces |-> None] /\ start = {} /\ stop = {} /\ exist = {}
  /\ todo = {} /\ acs = {} /\ news = {} /\ failed = {} /\ round = 0
-----------------------------------------------------------------------------
(* nm_apply() returns an error; its variables are no more. *)
Error ==
  /\ pc' = "err"
  /\ stored' = [i \in Ifaces |-> None] /\ start' = {} /\ stop' = {} /\ exist' = {}
  /\ todo' = {} /\ acs' = {} /\ news' = {} /\ failed' = {} /\ round' = 0
  /\ UNCHANGED <<want, seen>>

(* A call fails for good; what follows is the rollback of module NetApply. *)
Fail == pc \notin {"ok", "err"} /\ Error /\ UNCHANGED nm

(* One successful call of the list of calls made at `here`. *)
Call(here, u) ==
  /\ pc = here
  /\ todo' = todo \ {u}
  /\ UNCHANGED <<pc, want, seen, plan>>

(* The list made at `here` is done, and list is next. *)
Then(here, next, list) ==
  /\ pc = here /\ todo = {}
  /\ pc' = next /\ todo' = list
  /\ UNCHANGED <<want, seen>>

(* delete_ifaces(): the profiles of what is absent. *)
Begin ==
  /\ Then("begin", "delete", {u \in Uuids : Exists(u) /\ want[u[1]].state = "absent"})
  /\ UNCHANGED <<nm, plan, loop>>

(* connection_delete() *)
DeleteConn ==
  \E u \in todo :
    /\ Call("delete", u) \/ Call("drop", u)
    /\ NmDrops({i \in Ifaces : active[i] = u}, [prof EXCEPT ![u] = Absent])
    /\ UNCHANGED loop

(* delete_remain_virtual_interface_as_desired(): the devices that are      *)
(* left; an error is ignored.                                              *)
DeleteDevices ==
  /\ Then("delete", "prepare", {})
  /\ LET Virtual == {i \in Ifaces \ Ethernet : want[i].state \in {"absent", "down"}}
     IN \E D \in SUBSET Virtual : NmDrops(D, prof)
  /\ UNCHANGED <<plan, loop>>

(* get_exist_profile(): the active profile, else the last one found, which *)
(* is any, as NetworkManager lists them in its own order.                  *)
ExistProfiles(i) ==
  LET found == {u \in Of(i) : Exists(u)}
  IN IF found \cap Active # {} THEN found \cap Active ELSE found

(* Mutant: the port of a controller that is to be down is activated. *)
CanSkipNewOnly(i, u) ==
  LET c == want[i].ctrl IN
  /\ c \in Ctrls /\ ~Exists(u)
  /\ seen[i] = "none" /\ seen[c] = "none" /\ want[c].state = "up"

(* can_skip_activation() *)
CanSkip(i, u) ==
  LET c == want[i].ctrl IN
  /\ c \in Ctrls
  /\ \/ want[c].state \in {"absent", "down"}
     \/ /\ ~Exists(u)
        /\ seen[i] = "none" /\ seen[c] = "none" /\ want[c].state = "up"

(* gen_nm_conn_need_to_deactivate_first(): active profiles of s with a     *)
(* change that cannot be reapplied, which may be any.                      *)
DeactivateFirst(s) == SUBSET (s \cap Active)

(* perpare_nm_conns(), which profile is stored, activated, deactivated. *)
Prepare ==
  LET Down == {i \in Ifaces : want[i].state = "down"}
      Ignored == {i \in Down : seen[i] = "ignore"}
      Up == {i \in Ifaces : want[i].state = "up"}
      Choices(i) == IF ExistProfiles(i) = {} THEN {<<i, 0>>} ELSE ExistProfiles(i)
  IN \E n \in [Up \cup Down -> 0..3] :
     LET f == [i \in Ifaces |-> IF i \in Up \cup Down THEN <<i, n[i]>> ELSE None] IN
       /\ \A i \in Up \cup Down : f[i] \in Choices(i)
       /\ stored' = f
       /\ start' = {f[i] : i \in {j \in Up : ~CanSkip(j, f[j])} \cup Ignored}
       /\ stop' = {f[i] : i \in {j \in Down : Exists(f[j])} \cup Ignored}
       /\ exist' = {u \in Uuids : Exists(u)}
       /\ \E D \in DeactivateFirst(start') : Then("prepare", "first", D)
       /\ UNCHANGED <<nm, loop>>

(* connection_deactivate(), of a profile that may not be active. *)
DeactivateConn ==
  \E u \in todo :
    /\ Call("first", u) \/ Call("stop", u)
    /\ NmDrops({i \in Ifaces : active[i] = u}, prof)
    /\ UNCHANGED loop

(* The controller of the stored profile: what is not mentioned stays       *)
(* (gen_nm_conn_setting()).                                                *)
StoredCtrl(i, u) ==
  IF want[i].ctrl = Detach \/ (want[i].ctrl = Unset /\ ~Exists(u)) THEN None
  ELSE IF want[i].ctrl = Unset THEN prof[u] ELSE want[i].ctrl

(* save_nm_profiles(), in one step as nothing else moves meanwhile; what   *)
(* is stored is volatile no more.                                          *)
Save ==
  /\ Then("first", "save", {})
  /\ prof' = [u \in Uuids |-> IF stored[u[1]] = u THEN StoredCtrl(u[1], u) ELSE prof[u]]
  /\ volatile' = {u \in volatile : stored[u[1]] # u}
  /\ UNCHANGED <<active, under, bring, plan, loop>>

(* Mutant: only what is active is deleted. *)
DropExistActive ==
  /\ Then("save", "drop", {u \in exist \cap Active : stored[u[1]] \notin {None, u}})
  /\ UNCHANGED <<nm, plan, loop>>

(* delete_exist_profiles(): what else the stored interfaces have. *)
DropExist ==
  /\ Then("save", "drop", {u \in exist \ volatile : stored[u[1]] \notin {None, u}})
  /\ UNCHANGED <<nm, plan, loop>>

(* activate_nm_profiles() *)
Activate ==
  /\ Then("drop", "round", start)
  /\ acs' = Active /\ news' = {} /\ failed' = {} /\ round' = 1
  /\ UNCHANGED <<nm, plan>>

(* _activate_nm_profiles(): controllers come first. *)
Turn(u) ==
  /\ Call("round", u)
  /\ u[1] \in Ports => \A v \in todo : v[1] \in Ports
  /\ UNCHANGED <<acs, round>>

(* Mutant: a port that is active elsewhere is skipped too. *)
SkipPortActive(u) == u[1] \in Ports /\ prof[u] \in news

(* NetworkManager activates the ports of a controller that was not active. *)
SkipPort(u) == u[1] \in Ports /\ u \notin acs /\ prof[u] \in news

News(u) == IF u[1] \in Ctrls /\ u \notin acs THEN {u[1]} ELSE {}

(* One profile: activated, or reapplied if it was active before. *)
TryOk ==
  \E u \in todo :
    /\ Turn(u)
    /\ IF SkipPort(u) THEN UNCHANGED nm
       ELSE (u \in acs /\ NmReapplies(u)) \/ NmActivates(u)
    /\ news' = news \cup News(u) /\ UNCHANGED failed

(* An error that can_retry(). *)
TryFails ==
  \E u \in todo :
    /\ Turn(u) /\ ~SkipPort(u)
    /\ failed' = failed \cup {u}
    /\ news' = news \cup News(u)
    /\ UNCHANGED nm

(* Mutant: one more pass. *)
RetryOnceMore ==
  /\ failed # {} /\ round <= ACTIVATION_RETRY_COUNT
  /\ Then("round", "round", failed)
  /\ round' = round + 1 /\ failed' = {} /\ news' = {}
  /\ UNCHANGED <<nm, plan, acs>>

(* What failed is tried again. *)
Retry ==
  /\ failed # {} /\ round < ACTIVATION_RETRY_COUNT
  /\ Then("round", "round", failed)
  /\ round' = round + 1 /\ failed' = {} /\ news' = {}
  /\ UNCHANGED <<nm, plan, acs>>

GiveUp ==
  /\ pc = "round" /\ todo = {} /\ failed # {}
  /\ round = ACTIVATION_RETRY_COUNT
  /\ Error /\ UNCHANGED nm

Stop ==
  /\ failed = {}
  /\ Then("round", "stop", stop)
  /\ UNCHANGED <<nm, plan, loop>>

Finish == Then("stop", "ok", {}) /\ UNCHANGED <<nm, plan, loop>>

Done == pc \in {"ok", "err"} /\ bring = {} /\ UNCHANGED vars

Next ==
  \/ Begin \/ DeleteConn \/ DeleteDevices \/ Prepare \/ DeactivateConn
  \/ Save \/ DropExist \/ Activate \/ TryOk \/ TryFails
  \/ Retry \/ GiveUp \/ Stop \/ Finish \/ Fail \/ Done
  \/ \E c \in Ctrls : NmBringsPorts(c)

Spec == Init /\ [][Next]_vars
-----------------------------------------------------------------------------
(* Types: a profile is of its interface and names a controller, what is    *)
(* active exists, and only active ones are volatile (nm_apply()).          *)
TypeOK ==
  /\ pc \in {"begin", "delete", "prepare", "first", "save", "drop", "round", "stop",
             "ok", "err"}
  /\ want \in [Ifaces -> [state : {"same", "up", "down", "absent"},
                          ctrl : Ctrls \cup {Unset, Detach}]]
  /\ seen \in [Ifaces -> {"none", "up", "ignore"}]
  /\ prof \in [Uuids -> Ctrls \cup {None, Absent}]
  /\ under \in [Ifaces -> Ctrls \cup {None}]
  /\ active \in [Ifaces -> Uuids \cup {None}]
  /\ \A i \in Ifaces : active[i] # None => active[i] \in Of(i) /\ Exists(active[i])
  /\ volatile \subseteq Active /\ bring \subseteq Ctrls
  /\ stored \in [Ifaces -> Uuids \cup {None}]
  /\ start \cup stop \cup exist \cup todo \cup acs \cup failed \subseteq Uuids
  /\ news \subseteq Ctrls /\ round \in 0..ACTIVATION_RETRY_COUNT

(* When nm_apply() has succeeded and NetworkManager is done, each interface *)
(* that is to be up has the stored profile active, under the controller    *)
(* that profile names, unless that controller is to be down or absent:     *)
(* whatever was skipped or retried by _activate_nm_profiles().             *)
WantedIsActive ==
  pc = "ok" /\ bring = {} =>
    \A i \in Ifaces :
      want[i].state = "up"
      /\ (prof[stored[i]] \in Ctrls => want[prof[stored[i]]].state \notin {"down", "absent"})
      => active[i] = stored[i] /\ under[i] = prof[stored[i]]

(* Then what is to be down or absent is down, since                        *)
(* deactivate_nm_profiles() comes last.  Not meant are a port that its     *)
(* stored profile leaves with a controller, which NetworkManager brings up *)
(* with the controller, and a controller that an activated port brings up: *)
(* one whose profile keeps naming it unasked, or that is unmanaged.        *)
DownIsDown ==
  pc = "ok" /\ bring = {} =>
    \A i \in Ifaces :
      /\ want[i].state \in {"down", "absent"}
      /\ stored[i] # None => prof[stored[i]] = None
      /\ \A p \in Ports : stored[p] \in start /\ prof[stored[p]] = i
                         => want[p].ctrl # Unset /\ seen[p] # "ignore"
      => active[i] = None

(* Then an interface that was changed has the profile stored for it and no *)
(* other, and none if it is absent (delete_ifaces(),                       *)
(* delete_exist_profiles()), volatile ones included.                       *)
OneProfile ==
  pc = "ok" =>
    \A i \in Ifaces : Changed(i) =>
      {u \in Of(i) : Exists(u)} = {stored[i]} \ {None}
=============================================================================
