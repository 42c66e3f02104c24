--------------------------- MODULE ProfilesProofs ---------------------------
(***************************************************************************)
(* Proofs about Profiles, for any interfaces, any profiles they have, any  *)
(* request and any number of passes.  The inductive invariant follows the  *)
(* phases of nm_apply(): what is planned, what is stored, and in the       *)
(* passes of activate_nm_profiles() who is up where its profile says, or   *)
(* will be brought up by NetworkManager, or waits for a controller.        *)
(***************************************************************************)
EXTENDS Profiles, TLAPS

(* Interfaces with a stored profile. *)
Wanted(i) == want[i].state \in {"up", "down"}

(* Controllers have no controller. *)
Flat ==
  \A c \in Ctrls : /\ want[c].ctrl = Unset /\ under[c] = None
                   /\ \A u \in Of(c) : prof[u] \in {None, Absent}

(* Nothing is activated before the passes. *)
Before ==
  pc \in {"begin", "delete", "prepare", "first", "save", "drop"} =>
    /\ bring = {}
    /\ \A i \in Ifaces : active[i] # None => seen[i] = "up"

(* delete_ifaces() *)
AbsentGone ==
  pc \notin {"begin", "err"} =>
    \A u \in Uuids : want[u[1]].state = "absent" /\ Exists(u) => pc = "delete" /\ u \in todo

(* can_skip_activation() *)
SkipDown(i) == want[i].ctrl \in Ctrls /\ want[want[i].ctrl].state \in {"absent", "down"}
SkipNew(i) == LET c == want[i].ctrl IN
              c \in Ctrls /\ seen[i] = "none" /\ seen[c] = "none" /\ want[c].state = "up"

Planning == {"first", "save", "drop", "round", "stop", "ok"}
Saved == {"save", "drop", "round", "stop", "ok"}

(* What perpare_nm_conns() plans. *)
Plan ==
  pc \in Planning =>
    /\ \A i \in Ifaces : stored[i] # None <=> Wanted(i)
    /\ \A i \in Ifaces : Wanted(i) => stored[i] \in Of(i)
    /\ \A i \in Ifaces : want[i].state = "up" /\ stored[i] \notin start => SkipDown(i) \/ SkipNew(i)
    /\ \A u \in start : /\ u = stored[u[1]]
                        /\ \/ want[u[1]].state = "up" /\ ~SkipDown(u[1])
                           \/ want[u[1]].state = "down" /\ seen[u[1]] = "ignore" /\ u \in stop
    /\ \A u \in stop : u = stored[u[1]] /\ want[u[1]].state = "down"
    /\ \A u \in volatile : stored[u[1]] \in {None, u}
    /\ pc \in {"first", "save"} =>
         \A u \in Uuids : Exists(u) => u \in exist \/ (pc = "save" /\ u = stored[u[1]])
    /\ pc = "first" =>
         \A u \in Uuids : want[u[1]].state = "down" /\ Exists(u) => stored[u[1]] \in stop

(* The profile stored for an interface is there, and soon the only one. *)
Stored ==
  pc \in Saved =>
    /\ \A i \in Ifaces : Wanted(i) =>
         /\ stored[i] \notin volatile
         /\ prof[stored[i]] \in Ctrls \cup {None}
         /\ want[i].ctrl # Unset => prof[stored[i]] = IF want[i].ctrl = Detach THEN None
                                                      ELSE want[i].ctrl
    /\ \A u \in Uuids : Wanted(u[1]) /\ Exists(u) /\ u # stored[u[1]] =>
         (pc = "save" /\ u \in exist) \/ (pc = "drop" /\ u \in todo)
    /\ pc = "drop" => \A u \in todo : Wanted(u[1]) /\ u # stored[u[1]]

(* An interface is where its profile says, or will be brought up there. *)
Good(i) == active[i] = stored[i] /\ under[i] = prof[stored[i]]
Coming(i) == active[i] = None /\ prof[stored[i]] \in bring
(* The controller is to be activated, and was not active before. *)
NewController(c) == c \in Ctrls /\ stored[c] \in start /\ stored[c] \notin acs

(* The passes of activate_nm_profiles(). *)
Passes ==
  pc = "round" =>
    /\ todo \cup failed \subseteq start
    /\ \A c \in news : NewController(c)
    /\ \A i \in Ifaces : Wanted(i) /\ seen[i] = "none" => stored[i] \notin acs
    /\ \A i \in Ifaces : Wanted(i) /\ stored[i] \notin acs => active[i] = None \/ Good(i)
    /\ \A i \in Ifaces :
         stored[i] \in start \ (todo \cup failed) =>
           \/ Good(i) \/ Coming(i)
           \/ stored[i] \notin acs /\ NewController(prof[stored[i]])
    /\ \A c \in Ctrls :
         NewController(c) /\ stored[c] \notin todo \cup failed =>
           \A p \in Ports : Wanted(p) /\ prof[stored[p]] = c /\ stored[p] \notin acs =>
             Good(p) \/ Coming(p)

(* The controller an interface is to have is not to be down. *)
MayBeUp(i) == prof[stored[i]] \in Ctrls =>
                want[prof[stored[i]]].state \notin {"down", "absent"}
Kept ==
  pc \in {"stop", "ok"} =>
    /\ \A i \in Ifaces : want[i].state = "up" /\ MayBeUp(i) => Good(i) \/ Coming(i)
    /\ todo \subseteq stop

(* Nothing brings up an interface that is to be down. *)
Unmoved(i) ==
  /\ want[i].state = "down" /\ prof[stored[i]] = None
  /\ \A p \in Ports : stored[p] \in start /\ prof[stored[p]] = i
                      => want[p].ctrl # Unset /\ seen[p] # "ignore"
Stopped ==
  pc \in Saved =>
    \A i \in Ifaces :
      /\ Unmoved(i)
      /\ stored[i] \notin stop \/ (pc = "stop" /\ stored[i] \notin todo) \/ pc = "ok"
      => active[i] = None

Inv == /\ TypeOK /\ Flat /\ Before /\ AbsentGone /\ Plan /\ Stored /\ Passes /\ Kept
       /\ Stopped
-----------------------------------------------------------------------------
(* NetworkManager's steps, interface by interface. *)

LEMMA Uuid ==
  /\ \A u \in Uuids : u[1] \in Ifaces /\ u[2] \in 0..3 /\ u = <<u[1], u[2]>> /\ u \in Of(u[1])
  /\ \A i \in Ifaces, n \in 0..3 : <<i, n>> \in Of(i) /\ <<i, n>> \in Uuids
                                    /\ <<i, n>>[1] = i /\ <<i, n>>[2] = n
  /\ \A i \in Ifaces : \A u \in Of(i) : u \in Uuids /\ u[1] = i /\ u # None
BY ProfilesAssumption DEF Uuids, Of

NmTyped ==
  /\ prof' \in [Uuids -> Ctrls \cup {None, Absent}]
  /\ under' \in [Ifaces -> Ctrls \cup {None}]
  /\ active' \in [Ifaces -> Uuids \cup {None}]
  /\ \A i \in Ifaces : active'[i] # None => active'[i] \in Of(i) /\ prof'[active'[i]] # Absent
  /\ volatile' \subseteq Active' /\ volatile' \subseteq volatile
  /\ bring' \subseteq Ctrls

(* p is what the profiles become, and of the volatile ones some go away. *)
Fade(p) == \A u \in Uuids : \/ prof'[u] = p[u]
                            \/ u \in volatile /\ u \notin volatile' /\ prof'[u] = Absent

(* What NmBecomes() does of itself. *)
LEMMA Becomes ==
  ASSUME TypeOK,
         NEW act \in [Ifaces -> Uuids \cup {None}],
         NEW und \in [Ifaces -> Ctrls \cup {None}],
         NEW br \in SUBSET Ctrls,
         NEW p \in [Uuids -> Ctrls \cup {None, Absent}],
         \A i \in Ifaces : act[i] # None => act[i] \in Of(i) /\ p[act[i]] # Absent,
         NmBecomes(act, und, br, p)
  PROVE  NmTyped /\ Fade(p)
<1> DEFINE gone == {u \in volatile : u \in Active /\ u \notin {act[i] : i \in Ifaces}}
<1>1. /\ active' = act /\ under' = und /\ bring' = br
      /\ prof' = [u \in Uuids |-> IF u \in gone THEN Absent ELSE p[u]]
      /\ volatile' = volatile \ gone
  BY DEF NmBecomes
<1>2. volatile \subseteq Active /\ volatile \subseteq Uuids /\ None \notin volatile
  BY ProfilesAssumption DEF TypeOK, Active
<1>3. volatile' \subseteq Active'
  <2> SUFFICES ASSUME NEW u \in volatile' PROVE u \in Active'
    OBVIOUS
  <2>1. u \in volatile /\ u \notin gone /\ u \in Active /\ u # None
    BY <1>1, <1>2
  <2>2. PICK i \in Ifaces : act[i] = u
    BY <2>1
  <2> QED BY <2>1, <2>2, <1>1 DEF Active
<1>4. \A i \in Ifaces : act[i] \notin gone
  OBVIOUS
<1>5. \A i \in Ifaces : active'[i] # None => active'[i] \in Of(i) /\ prof'[active'[i]] # Absent
  BY <1>1, <1>4, Uuid
<1>6. Fade(p)
  BY <1>1, <1>2 DEF Fade
<1>7. prof' \in [Uuids -> Ctrls \cup {None, Absent}]
  BY <1>1
<1> QED BY <1>1, <1>3, <1>5, <1>6, <1>7 DEF NmTyped

Dropped(D, p) ==
  /\ \A i \in Ifaces :
       IF i \in D \/ (i \in Ports /\ under[i] \in D)
       THEN active'[i] = None /\ under'[i] = None
       ELSE active'[i] = active[i] /\ under'[i] = under[i]
  /\ bring' = bring \ D

LEMMA DropStep ==
  ASSUME TypeOK, NEW D \in SUBSET Ifaces,
         NEW p \in [Uuids -> Ctrls \cup {None, Absent}],
         \A i \in Ifaces : active[i] # None /\ i \notin D => p[active[i]] = prof[active[i]],
         NmDrops(D, p)
  PROVE  NmTyped /\ Fade(p) /\ Dropped(D, p)
<1> DEFINE Off == D \cup {i \in Ports : under[i] \in D}
           act == [i \in Ifaces |-> IF i \in Off THEN None ELSE active[i]]
           und == [i \in Ifaces |-> IF i \in Off THEN None ELSE under[i]]
<1>1. NmBecomes(act, und, bring \ D, p)
  BY DEF NmDrops
<1>2. /\ act \in [Ifaces -> Uuids \cup {None}]
      /\ und \in [Ifaces -> Ctrls \cup {None}]
      /\ bring \ D \in SUBSET Ctrls
  BY DEF TypeOK
<1>3. \A i \in Ifaces : act[i] # None => act[i] \in Of(i) /\ p[act[i]] # Absent
  BY DEF TypeOK, Exists
<1>4. NmTyped /\ Fade(p)
  <2> HIDE DEF act, und
  <2> QED BY <1>1, <1>2, <1>3, Becomes
<1>5. Dropped(D, p)
  BY <1>1 DEF Dropped, NmBecomes, Ifaces
<1> QED BY <1>4, <1>5

Activated(u) ==
  LET i == u[1] IN
  /\ active'[i] = u /\ under'[i] = prof[u]
  /\ bring \subseteq bring' /\ (i \in Ctrls => i \in bring')
  /\ \A j \in Ifaces \ {i} :
       \/ /\ j = prof[u] /\ j \in Ctrls /\ active[j] = None
          /\ active'[j] \in Of(j) /\ under'[j] = under[j]
       \/ /\ j \in Ports /\ i \in Ctrls /\ under[j] = i
          /\ active'[j] = None /\ under'[j] = None
       \/ /\ active'[j] = active[j] /\ under'[j] = under[j]
          /\ ~(j \in Ports /\ i \in Ctrls /\ under[j] = i)

LEMMA ActivateStep ==
  ASSUME TypeOK, NEW u \in Uuids, NmActivates(u)
  PROVE  NmTyped /\ Fade(prof) /\ Activated(u)
<1> DEFINE i == u[1]
           New == {i} \cup {c \in {prof[u]} \cap Ctrls : active[c] = None}
           Lost == {p \in Ports : i \in Ctrls /\ under[p] = i}
<1>1. PICK n \in [New -> 0..3] :
        /\ n[i] = u[2] /\ \A j \in New : Exists(<<j, n[j]>>)
        /\ NmBecomes([j \in Ifaces |-> IF j \in New THEN <<j, n[j]>>
                                       ELSE IF j \in Lost THEN None ELSE active[j]],
                     [j \in Ifaces |-> IF j = i THEN prof[u]
                                       ELSE IF j \in Lost THEN None ELSE under[j]],
                     bring \cup (New \cap Ctrls), prof)
  BY Zenon DEF NmActivates
<1> DEFINE act == [j \in Ifaces |-> IF j \in New THEN <<j, n[j]>>
                                    ELSE IF j \in Lost THEN None ELSE active[j]]
           und == [j \in Ifaces |-> IF j = i THEN prof[u]
                                    ELSE IF j \in Lost THEN None ELSE under[j]]
<1>2. i \in Ifaces /\ u = <<i, u[2]>> /\ New \subseteq Ifaces
  BY Uuid DEF Ifaces
<1>3. \A j \in New : <<j, n[j]>> \in Of(j) /\ <<j, n[j]>> \in Uuids /\ prof[<<j, n[j]>>] # Absent
  BY Zenon, <1>1, <1>2, Uuid DEF Exists
<1>4. prof[u] \in Ctrls \cup {None}
  BY Zenon, <1>1 DEF NmActivates, CanActivate, Exists, TypeOK
<1>5. /\ act \in [Ifaces -> Uuids \cup {None}]
      /\ und \in [Ifaces -> Ctrls \cup {None}]
      /\ bring \cup (New \cap Ctrls) \in SUBSET Ctrls
  BY Zenon, <1>2, <1>3, <1>4 DEF TypeOK
<1>6. \A j \in Ifaces : act[j] # None => act[j] \in Of(j) /\ prof[act[j]] # Absent
  BY Zenon, <1>3 DEF TypeOK, Exists
<1>7. NmTyped /\ Fade(prof)
  <2> HIDE DEF act, und, New
  <2>1. NmBecomes(act, und, bring \cup (New \cap Ctrls), prof)
    BY <1>1 DEF act, und
  <2> QED BY Zenon, <2>1, <1>5, <1>6, Becomes DEF TypeOK
<1>8. active' = act /\ under' = und /\ bring' = bring \cup (New \cap Ctrls)
  BY <1>1 DEF NmBecomes
<1>9. Activated(u)
  <2>1. active'[i] = u /\ under'[i] = prof[u]
    BY <1>1, <1>2, <1>8
  <2>2. bring \subseteq bring' /\ (i \in Ctrls => i \in bring')
    BY <1>8
  <2>3. ASSUME NEW j \in Ifaces \ {i}
        PROVE  \/ /\ j = prof[u] /\ j \in Ctrls /\ active[j] = None
                  /\ active'[j] \in Of(j) /\ under'[j] = under[j]
               \/ /\ j \in Ports /\ i \in Ctrls /\ under[j] = i
                  /\ active'[j] = None /\ under'[j] = None
               \/ /\ active'[j] = active[j] /\ under'[j] = under[j]
                  /\ ~(j \in Ports /\ i \in Ctrls /\ under[j] = i)
    BY <1>3, <1>8, ProfilesAssumption DEF Ifaces
  <2> QED BY <2>1, <2>2, <2>3 DEF Activated
<1> QED BY <1>7, <1>9

Brought(c) ==
  /\ bring' = bring \ {c}
  /\ \A j \in Ifaces :
       \/ /\ j \in Ports /\ active[j] = None
          /\ active'[j] \in Of(j) /\ prof[active'[j]] = c /\ under'[j] = c
       \/ /\ active'[j] = active[j] /\ under'[j] = under[j]
          /\ ~(j \in Ports /\ active[j] = None /\ \E u \in Of(j) : prof[u] = c)

LEMMA BringStep ==
  ASSUME TypeOK, NEW c \in Ctrls, NmBringsPorts(c)
  PROVE  NmTyped /\ Fade(prof) /\ Brought(c)
<1> DEFINE Naming(p) == {u \in Of(p) : prof[u] = c}
           Free == {p \in Ports : active[p] = None /\ Naming(p) # {}}
<1>1. PICK n \in [Free -> 0..3] :
        /\ \A p \in Free : <<p, n[p]>> \in Naming(p)
        /\ NmBecomes([i \in Ifaces |-> IF i \in Free THEN <<i, n[i]>> ELSE active[i]],
                     [i \in Ifaces |-> IF i \in Free THEN c ELSE under[i]],
                     bring \ {c}, prof)
  BY Zenon DEF NmBringsPorts
<1> DEFINE act == [i \in Ifaces |-> IF i \in Free THEN <<i, n[i]>> ELSE active[i]]
           und == [i \in Ifaces |-> IF i \in Free THEN c ELSE under[i]]
<1>2. \A p \in Free : /\ p \in Ports /\ active[p] = None /\ p \in Ifaces
                      /\ <<p, n[p]>> \in Of(p) /\ <<p, n[p]>> \in Uuids
                      /\ prof[<<p, n[p]>>] = c
  BY Zenon, <1>1, Uuid DEF Ifaces
<1>3. c # Absent
  BY ProfilesAssumption DEF Ifaces
<1>4. /\ act \in [Ifaces -> Uuids \cup {None}]
      /\ und \in [Ifaces -> Ctrls \cup {None}]
      /\ bring \ {c} \in SUBSET Ctrls
  <2> HIDE DEF Free
  <2> QED BY <1>2 DEF TypeOK
<1>5. \A j \in Ifaces : act[j] # None => act[j] \in Of(j) /\ prof[act[j]] # Absent
  <2> HIDE DEF Free
  <2> QED BY <1>2, <1>3 DEF TypeOK, Exists
<1>6. NmTyped /\ Fade(prof)
  <2> HIDE DEF act, und
  <2>1. NmBecomes(act, und, bring \ {c}, prof)
    BY <1>1 DEF act, und
  <2> QED BY Zenon, <2>1, <1>4, <1>5, Becomes DEF TypeOK
<1>7. active' = act /\ under' = und /\ bring' = bring \ {c}
  BY <1>1 DEF NmBecomes
<1>8. ASSUME NEW j \in Ifaces
      PROVE  \/ /\ j \in Ports /\ active[j] = None
                /\ active'[j] \in Of(j) /\ prof[active'[j]] = c /\ under'[j] = c
             \/ /\ active'[j] = active[j] /\ under'[j] = under[j]
                /\ ~(j \in Ports /\ active[j] = None /\ \E u \in Of(j) : prof[u] = c)
  <2>1. CASE j \in Free
    <3> HIDE DEF Free
    <3> QED BY <2>1, <1>2, <1>7
  <2>2. CASE j \notin Free
    <3>1. active'[j] = active[j] /\ under'[j] = under[j]
      BY <2>2, <1>7
    <3> QED BY <3>1, <2>2
  <2> QED BY <2>1, <2>2
<1> QED BY <1>6, <1>7, <1>8 DEF Brought
-----------------------------------------------------------------------------
(* The initial states. *)

(* What Cases() says of an interface. *)
CaseOf(x, isPort) ==
  /\ DOMAIN x.has \subseteq 1..3
  /\ \A k \in DOMAIN x.has : x.has[k] = None \/ (isPort /\ x.has[k] \in Ctrls)
  /\ x.act \in DOMAIN x.has \cup {0} /\ (3 \in DOMAIN x.has => x.act = 3)
  /\ x.seen \in {"none", "up", "ignore"} /\ (x.act # 0 => x.seen = "up")
  /\ x.want \in [state : {"same", "up", "down", "absent"}, ctrl : Ctrls \cup {Unset, Detach}]
  /\ ~isPort => x.want.ctrl = Unset

LEMMA CasesFacts ==
  ASSUME NEW w \in Scenarios, NEW isPort \in BOOLEAN, NEW isEth \in BOOLEAN,
         NEW x \in Cases(w, isPort, isEth)
  PROVE  CaseOf(x, isPort)
<1> DEFINE Named == IF isPort THEN (Ctrls \cap w.ifaces) \cup {None} ELSE {None}
           Asked == IF isPort THEN (Ctrls \cap w.ifaces) \cup {Unset, Detach} ELSE {Unset}
           Inputs == [state : {"up", "down"}, ctrl : Asked]
                     \cup [state : {"same", "absent"}, ctrl : {Unset}]
           Has == UNION {[s -> Named] : s \in w.sets}
<1>1. /\ x \in [has : Has, act : 0..3, seen : w.seen, want : Inputs]
      /\ x.act \in DOMAIN x.has \cup {0}
      /\ 3 \in DOMAIN x.has => x.act = 3
      /\ (x.seen = "up") <=> (x.act # 0 \/ (isEth /\ x.seen # "ignore"))
  BY DEF Cases
<1>2. x.has \in Has /\ x.seen \in w.seen /\ x.want \in Inputs
  BY <1>1
<1>3. PICK s \in w.sets : x.has \in [s -> Named]
  BY <1>2
<1>4. s \subseteq 1..3 /\ w.seen \subseteq {"none", "up", "ignore"}
  BY <1>3, ProfilesAssumption
<1>5. DOMAIN x.has \subseteq 1..3
      /\ \A k \in DOMAIN x.has : x.has[k] = None \/ (isPort /\ x.has[k] \in Ctrls)
  BY Zenon, <1>3, <1>4
<1>6. x.want \in [state : {"same", "up", "down", "absent"}, ctrl : Ctrls \cup {Unset, Detach}]
      /\ (~isPort => x.want.ctrl = Unset)
  BY <1>2
<1> QED BY <1>1, <1>2, <1>4, <1>5, <1>6 DEF CaseOf

LEMMA InitInv == Init => Inv
<1> SUFFICES ASSUME Init PROVE Inv
  OBVIOUS
<1>1. PICK w \in Scenarios :
        \E x \in [Ctrls \cap w.ifaces -> Cases(w, FALSE, FALSE)],
           y \in [Ports \cap w.ifaces -> Cases(w, TRUE, TRUE) \cup Cases(w, TRUE, FALSE)] :
          Given(w, x, y)
  BY Zenon DEF Init
<1>2. PICK x \in [Ctrls \cap w.ifaces -> Cases(w, FALSE, FALSE)],
           y \in [Ports \cap w.ifaces -> Cases(w, TRUE, TRUE) \cup Cases(w, TRUE, FALSE)] :
        Given(w, x, y)
  BY Zenon, <1>1
<1> DEFINE Case(i) == IF i \in Ctrls THEN x[i] ELSE y[i]
<1>3. ASSUME NEW i \in Ifaces, i \in w.ifaces
      PROVE  IF i \in Ctrls THEN CaseOf(Case(i), FALSE) ELSE CaseOf(Case(i), TRUE)
  <2>1. CASE i \in Ctrls
    <3>1. x[i] \in Cases(w, FALSE, FALSE) /\ Case(i) = x[i]
      BY Zenon, <1>3, <2>1
    <3> QED BY Zenon, <2>1, <3>1, CasesFacts
  <2>2. CASE i \notin Ctrls
    <3>1. i \in Ports /\ Case(i) = y[i]
      BY <2>2 DEF Ifaces
    <3>2. y[i] \in Cases(w, TRUE, TRUE) \/ y[i] \in Cases(w, TRUE, FALSE)
      BY Zenon, <1>3, <3>1
    <3>3. CASE y[i] \in Cases(w, TRUE, TRUE)
      BY Zenon, <2>2, <3>1, <3>3, CasesFacts
    <3>4. CASE y[i] \in Cases(w, TRUE, FALSE)
      BY Zenon, <2>2, <3>1, <3>4, CasesFacts
    <3> QED BY Zenon, <3>2, <3>3, <3>4
  <2> QED BY Zenon, <2>1, <2>2
<1>4. /\ prof = [u \in Uuids |->
                   IF u[1] \in w.ifaces /\ u[2] \in DOMAIN Case(u[1]).has
                   THEN Case(u[1]).has[u[2]] ELSE Absent]
      /\ active = [i \in Ifaces |-> IF i \in w.ifaces /\ Case(i).act # 0
                                    THEN <<i, Case(i).act>> ELSE None]
      /\ under = [i \in Ifaces |-> IF active[i] = None THEN None ELSE prof[active[i]]]
      /\ seen = [i \in Ifaces |-> IF i \in w.ifaces THEN Case(i).seen ELSE "none"]
      /\ want = [i \in Ifaces |-> IF i \in w.ifaces THEN Case(i).want
                                  ELSE [state |-> "same", ctrl |-> Unset]]
      /\ volatile = {u \in Uuids : Exists(u) /\ u[2] = 3}
  BY Zenon, <1>2 DEF Given
<1>5. /\ pc = "begin" /\ bring = {}
      /\ stored = [i \in Ifaces |-> None] /\ start = {} /\ stop = {} /\ exist = {}
      /\ todo = {} /\ acs = {} /\ news = {} /\ failed = {} /\ round = 0
  BY Zenon DEF Init
<1> HIDE DEF Case
<1>6. ASSUME NEW u \in Uuids
      PROVE  /\ prof[u] \in Ctrls \cup {None, Absent}
             /\ u[1] \in Ctrls => prof[u] \in {None, Absent}
             /\ u \in volatile => active[u[1]] = u
  <2>1. u[1] \in Ifaces /\ u[2] \in 0..3 /\ u = <<u[1], u[2]>>
    BY Uuid
  <2>2. u[1] \in w.ifaces => IF u[1] \in Ctrls THEN CaseOf(Case(u[1]), FALSE)
                                  ELSE CaseOf(Case(u[1]), TRUE)
    BY Zenon, <1>3, <2>1
  <2>3. u[1] \in Ctrls => u[1] \notin Ports
    BY ProfilesAssumption
  <2>4. prof[u] \in Ctrls \cup {None, Absent} /\ (u[1] \in Ctrls => prof[u] \in {None, Absent})
    BY Zenon, <2>1, <2>2, <2>3, <1>4 DEF CaseOf
  <2>5. ASSUME u \in volatile PROVE active[u[1]] = u
    <3>1. u[1] \in w.ifaces /\ 3 \in DOMAIN Case(u[1]).has /\ u[2] = 3
      BY Zenon, <1>4, <2>1, <2>5 DEF Exists
    <3>2. Case(u[1]).act = 3
      BY Zenon, <3>1, <2>2 DEF CaseOf
    <3> QED BY <3>1, <3>2, <2>1, <1>4
  <2> QED BY Zenon, <2>4, <2>5
<1>7. ASSUME NEW i \in Ifaces
      PROVE  /\ active[i] # None => /\ active[i] \in Of(i) /\ prof[active[i]] # Absent
                                    /\ active[i] \in Uuids /\ seen[i] = "up"
             /\ seen[i] \in {"none", "up", "ignore"}
             /\ want[i] \in [state : {"same", "up", "down", "absent"},
                             ctrl : Ctrls \cup {Unset, Detach}]
             /\ i \in Ctrls => want[i].ctrl = Unset
  <2>1. CASE i \in w.ifaces
    <3>1. IF i \in Ctrls THEN CaseOf(Case(i), FALSE) ELSE CaseOf(Case(i), TRUE)
      BY Zenon, <1>3, <2>1
    <3>2. seen[i] = Case(i).seen /\ want[i] = Case(i).want
          /\ active[i] = IF Case(i).act # 0 THEN <<i, Case(i).act>> ELSE None
      BY Zenon, <2>1, <1>4
    <3>3. i \in Ctrls => i \notin Ports
      BY Zenon, ProfilesAssumption
    <3>4. ASSUME active[i] # None
          PROVE  /\ active[i] \in Of(i) /\ prof[active[i]] # Absent
                 /\ active[i] \in Uuids /\ seen[i] = "up"
      <4>1. /\ Case(i).act # 0 /\ active[i] = <<i, Case(i).act>>
            /\ Case(i).act \in DOMAIN Case(i).has /\ Case(i).act \in 0..3
        BY <3>4, <3>1, <3>2 DEF CaseOf
      <4>2. active[i] \in Of(i) /\ active[i] \in Uuids
            /\ active[i][1] = i /\ active[i][2] = Case(i).act
        <5>1. PICK a \in 0..3 : a = Case(i).act
          BY Zenon, <4>1
        <5>2. active[i] = <<i, a>>
          BY Zenon, <4>1, <5>1
        <5>3. <<i, a>> \in Of(i) /\ <<i, a>> \in Uuids /\ <<i, a>>[1] = i /\ <<i, a>>[2] = a
          BY Zenon, Uuid
        <5> QED BY Zenon, <5>1, <5>2, <5>3, Zenon
      <4>3. prof[active[i]] = Case(i).has[Case(i).act]
        BY Zenon, <4>1, <4>2, <2>1, <1>4
      <4>4. prof[active[i]] # Absent
        BY Zenon, <4>1, <4>3, <3>1, ProfilesAssumption DEF CaseOf, Ifaces
      <4> QED BY Zenon, <4>1, <4>2, <4>4, <3>1, <3>2 DEF CaseOf
    <3> QED BY Zenon, <3>1, <3>2, <3>3, <3>4 DEF CaseOf
  <2>2. CASE i \notin w.ifaces
    BY Zenon, <2>2, <1>4
  <2> QED BY Zenon, <2>1, <2>2
<1>8. TypeOK
  <2>1. prof \in [Uuids -> Ctrls \cup {None, Absent}]
    BY Zenon, <1>4, <1>6
  <2>2. active \in [Ifaces -> Uuids \cup {None}]
    <3>1. active = [i \in Ifaces |-> active[i]]
      BY Zenon, <1>4
    <3> QED BY Zenon, <3>1, <1>7
  <2>3. under \in [Ifaces -> Ctrls \cup {None}]
    BY Zenon, <1>4, <1>6, <1>7
  <2>4. seen \in [Ifaces -> {"none", "up", "ignore"}]
    <3>1. seen = [i \in Ifaces |-> seen[i]]
      BY Zenon, <1>4
    <3> QED BY Zenon, <3>1, <1>7
  <2>5. want \in [Ifaces -> [state : {"same", "up", "down", "absent"},
                             ctrl : Ctrls \cup {Unset, Detach}]]
    <3>1. want = [i \in Ifaces |-> want[i]]
      BY Zenon, <1>4
    <3> QED BY Zenon, <3>1, <1>7
  <2>6. volatile \subseteq Active
    <3> SUFFICES ASSUME NEW u \in volatile PROVE u \in Active
      OBVIOUS
    <3>1. u \in Uuids /\ active[u[1]] = u /\ u[1] \in Ifaces /\ u # None
      BY <1>4, <1>6, Uuid, ProfilesAssumption
    <3> QED BY <3>1 DEF Active
  <2> QED BY <2>1, <2>2, <2>3, <2>4, <2>5, <2>6, <1>5, <1>7, ProfilesAssumption
          DEF TypeOK, Exists
<1>9. Flat
  <2> SUFFICES ASSUME NEW c \in Ctrls
               PROVE  /\ want[c].ctrl = Unset /\ under[c] = None
                      /\ \A u \in Of(c) : prof[u] \in {None, Absent}
    BY Zenon DEF Flat
  <2>1. c \in Ifaces
    BY DEF Ifaces
  <2>2. \A u \in Of(c) : prof[u] \in {None, Absent}
    BY SMTT(30), <2>1, <1>6, Uuid
  <2>3. under[c] = None
    BY Zenon, <2>1, <2>2, <1>4, <1>7
  <2> QED BY Zenon, <2>1, <2>2, <2>3, <1>7
<1>10. Before /\ AbsentGone /\ Plan /\ Stored /\ Passes /\ Kept /\ Stopped
  BY Zenon, <1>5, <1>7 DEF Before, AbsentGone, Plan, Planning, Stored, Saved, Passes, Kept, Stopped
<1> QED BY <1>8, <1>9, <1>10 DEF Inv
-----------------------------------------------------------------------------
(* What all steps have in common. *)

LEMMA ActiveFacts ==
  ASSUME TypeOK
  PROVE  /\ volatile \subseteq Uuids
         /\ \A u \in volatile : active[u[1]] = u
         /\ \A u \in Active : u \in Uuids /\ active[u[1]] = u
         /\ \A i \in Ifaces, u \in Uuids : active[i] = u => u[1] = i
BY SMTT(30), Uuid, ProfilesAssumption DEF TypeOK, Active

LEMMA SameNm ==
  ASSUME TypeOK, UNCHANGED nm
  PROVE  NmTyped /\ Fade(prof)
BY SMTT(30) DEF TypeOK, nm, NmTyped, Fade, Active, Exists

LEMMA TypesFrom ==
  ASSUME TypeOK, NmTyped, UNCHANGED <<want, seen>>,
         pc' \in {"begin", "delete", "prepare", "first", "save", "drop", "round", "stop",
                  "ok", "err"},
         stored' \in [Ifaces -> Uuids \cup {None}],
         start' \cup stop' \cup exist' \cup todo' \cup acs' \cup failed' \subseteq Uuids,
         news' \subseteq Ctrls, round' \in 0..ACTIVATION_RETRY_COUNT
  PROVE  TypeOK'
<1>1. (\A i \in Ifaces : active[i] # None => active[i] \in Of(i) /\ Exists(active[i]))'
  BY Zenon DEF NmTyped, Exists, Of
<1> QED BY Zenon, <1>1 DEF TypeOK, NmTyped

LEMMA FlatFrom ==
  ASSUME Flat, NmTyped, UNCHANGED want,
         NEW p, Fade(p), \A c \in Ctrls : \A u \in Of(c) : p[u] \in {None, Absent},
         \A c \in Ctrls : under'[c] = None
  PROVE  Flat'
<1>1. \A c \in Ctrls : \A u \in Of(c) : u \in Uuids
  BY Uuid DEF Ifaces
<1>2. \A c \in Ctrls : \A u \in Of(c) : prof'[u] \in {None, Absent}
  BY <1>1 DEF Fade
<1> QED BY Zenon, <1>2 DEF Flat, Of

(* Steps that only take down and delete. *)
Less == /\ \A i \in Ifaces : active'[i] \in {active[i], None} /\ under'[i] \in {under[i], None}
        /\ bring' \subseteq bring
        /\ \A u \in Uuids : prof'[u] \in {prof[u], Absent}

LEMMA LessFacts ==
  ASSUME TypeOK, Flat, NmTyped, Less, UNCHANGED want
  PROVE  /\ Flat'
         /\ \A u \in Uuids : Exists(u)' => Exists(u)
<1>1. \A c \in Ctrls : c \in Ifaces
  BY DEF Ifaces
<1>2. \A c \in Ctrls : \A u \in Of(c) : prof'[u] \in {None, Absent}
  BY <1>1, Uuid DEF Flat, Less
<1>3. \A c \in Ctrls : under'[c] = None
  BY <1>1 DEF Flat, Less
<1>4. Flat'
  BY Zenon, <1>2, <1>3 DEF Flat, Of
<1>5. \A u \in Uuids : Exists(u)' => Exists(u)
  BY Zenon DEF Less, Exists
<1> QED BY <1>4, <1>5

(* What is stored stays as it is. *)
StoredSame ==
  \A i \in Ifaces : Wanted(i) => /\ prof'[stored[i]] = prof[stored[i]]
                                 /\ stored[i] \notin volatile'

LEMMA StoredStays ==
  ASSUME Inv, pc \in Saved, NmTyped, NEW p, Fade(p),
         \A i \in Ifaces : Wanted(i) => p[stored[i]] = prof[stored[i]]
  PROVE  StoredSame
<1>1. \A i \in Ifaces : Wanted(i) => stored[i] \in Uuids /\ stored[i] \notin volatile
  BY Zenon, Uuid DEF Inv, Plan, Planning, Saved, Stored
<1> QED BY Zenon, <1>1 DEF NmTyped, Fade, StoredSame

LEMMA SameHopes ==
  ASSUME Inv, pc \in Saved, StoredSame, UNCHANGED <<want, seen, plan>>, NEW i \in Ifaces
  PROVE  /\ Unmoved(i)' => Unmoved(i)
         /\ Wanted(i) => (MayBeUp(i)' <=> MayBeUp(i))
<1>1. Wanted(i) => prof'[stored[i]] = prof[stored[i]]
  BY Zenon DEF StoredSame
<1>2. \A p \in Ports : stored[p] \in start => prof'[stored[p]] = prof[stored[p]]
  <2> SUFFICES ASSUME NEW p \in Ports, stored[p] \in start PROVE Wanted(p)
    BY Zenon DEF StoredSame, Ifaces
  <2>1. p \in Ifaces /\ stored[p] # None
    BY ProfilesAssumption DEF Ifaces, Inv, TypeOK
  <2> QED BY Zenon, <2>1 DEF Inv, Plan, Planning, Saved
<1>3. stored' = stored /\ start' = start /\ want' = want /\ seen' = seen
  BY Zenon DEF plan
<1>4. Unmoved(i)' => Unmoved(i)
  BY Zenon, <1>1, <1>2, <1>3 DEF Unmoved, Wanted
<1>5. Wanted(i) => (MayBeUp(i)' <=> MayBeUp(i))
  BY Zenon, <1>1, <1>3 DEF MayBeUp
<1> QED BY <1>4, <1>5

(* Once the other profiles are deleted. *)
LEMMA Only ==
  ASSUME Inv, pc \in {"round", "stop", "ok"}, NEW i \in Ifaces, Wanted(i)
  PROVE  /\ \A u \in Of(i) : Exists(u) => u = stored[i]
         /\ active[i] \in {None, stored[i]}
         /\ stored[i] \in Uuids /\ stored[i] \in Of(i) /\ stored[i] # None
<1>1. \A u \in Of(i) : Exists(u) => u = stored[i]
  BY SMTT(30), Uuid DEF Inv, Stored, Saved
<1>2. active[i] \in {None, stored[i]}
  BY Zenon, <1>1 DEF Inv, TypeOK
<1> QED BY Zenon, <1>1, <1>2, Uuid DEF Inv, Plan, Planning
-----------------------------------------------------------------------------
(* One lemma for each action. *)

LEMMA BeginStep == Inv /\ Begin => Inv'
<1> SUFFICES ASSUME Inv, Begin PROVE Inv'
  OBVIOUS
<1>1. /\ pc = "begin" /\ pc' = "delete"
      /\ todo' = {u \in Uuids : Exists(u) /\ want[u[1]].state = "absent"}
      /\ UNCHANGED <<want, seen, nm, plan, loop>>
  BY DEF Begin, Then
<1>2. NmTyped /\ Fade(prof)
  BY Zenon, <1>1, SameNm DEF Inv
<1>3. TypeOK'
  BY Zenon, <1>1, <1>2, TypesFrom DEF Inv, TypeOK, plan, loop
<1>4. Flat' /\ Before'
  BY Zenon, <1>1 DEF Inv, Flat, Before, nm
<1>5. AbsentGone'
  BY Zenon, <1>1 DEF AbsentGone, Exists, nm
<1> QED BY Zenon, <1>1, <1>3, <1>4, <1>5
        DEF Inv, Plan, Planning, Stored, Saved, Passes, Kept, Stopped

(* One call that deletes or deactivates u: what else exists stays. *)
LEMMA DropsLess ==
  ASSUME TypeOK, NEW u \in Uuids, NEW p,
         p = prof \/ p = [prof EXCEPT ![u] = Absent],
         NEW D \in SUBSET Ifaces, \A i \in Ifaces : i \in D <=> active[i] = u,
         NmDrops(D, p)
  PROVE  /\ NmTyped /\ Fade(p) /\ Less
         /\ \A i \in Ifaces : active'[i] # u
         /\ \A v \in Uuids \ {u} : p[v] = prof[v]
<1>1. p \in [Uuids -> Ctrls \cup {None, Absent}] /\ \A v \in Uuids \ {u} : p[v] = prof[v]
  BY Zenon DEF TypeOK
<1>2. \A i \in Ifaces : active[i] # None /\ i \notin D => p[active[i]] = prof[active[i]]
  BY Zenon, <1>1 DEF TypeOK
<1>3. NmTyped /\ Fade(p) /\ Dropped(D, p)
  BY Zenon, <1>1, <1>2, DropStep
<1>4. Less
  <2>1. \A v \in Uuids : p[v] \in {prof[v], Absent}
    BY Zenon DEF TypeOK
  <2>2. \A v \in Uuids : prof'[v] \in {prof[v], Absent}
    BY Zenon, <1>3, <2>1 DEF Fade
  <2> QED BY Zenon, <1>3, <2>2 DEF Dropped, Less
<1>5. \A i \in Ifaces : active'[i] # u
  <2>1. u # None
    BY ProfilesAssumption
  <2> QED BY <1>3, <2>1 DEF Dropped
<1> QED BY Zenon, <1>1, <1>3, <1>4, <1>5

LEMMA DeleteConnStep == Inv /\ DeleteConn => Inv'
<1> SUFFICES ASSUME Inv, DeleteConn PROVE Inv'
  OBVIOUS
<1>1. PICK u \in todo :
        /\ Call("delete", u) \/ Call("drop", u)
        /\ NmDrops({i \in Ifaces : active[i] = u}, [prof EXCEPT ![u] = Absent])
        /\ UNCHANGED loop
  BY Zenon DEF DeleteConn
<1>2. /\ pc \in {"delete", "drop"} /\ pc' = pc /\ todo' = todo \ {u}
      /\ UNCHANGED <<want, seen, plan, loop>> /\ u \in Uuids
  BY <1>1 DEF Call, Inv, TypeOK
<1>3. PICK p : p = [prof EXCEPT ![u] = Absent]
  OBVIOUS
<1>4. /\ NmTyped /\ Fade(p) /\ Less
      /\ \A v \in Uuids \ {u} : p[v] = prof[v]
  <2>1. PICK D : D = {i \in Ifaces : active[i] = u}
    OBVIOUS
  <2>2. NmDrops(D, p)
    BY <1>1, <1>3, <2>1
  <2>3. D \in SUBSET Ifaces /\ \A i \in Ifaces : i \in D <=> active[i] = u
    BY <2>1
  <2>4. p = prof \/ p = [prof EXCEPT ![u] = Absent]
    BY Zenon, <1>3
  <2> QED BY <1>2, <2>2, <2>3, <2>4, DropsLess, Zenon DEF Inv
<1>5. prof'[u] = Absent
  BY Zenon, <1>2, <1>3, <1>4 DEF Fade, Inv, TypeOK
<1>6. TypeOK'
  BY Zenon, <1>2, <1>4, TypesFrom DEF Inv, TypeOK, plan, loop
<1>7. Flat' /\ \A v \in Uuids : Exists(v)' => Exists(v) /\ v # u
  BY Zenon, <1>2, <1>4, <1>5, LessFacts DEF Inv, Exists
<1>8. Before'
  BY Zenon, <1>2, <1>4 DEF Inv, Before, Less
<1>9. AbsentGone'
  BY Zenon, <1>2, <1>7 DEF Inv, AbsentGone
<1>10. CASE pc = "delete"
  BY Zenon, <1>2, <1>6, <1>7, <1>8, <1>9, <1>10
     DEF Inv, Plan, Planning, Stored, Saved, Passes, Kept, Stopped
<1>11. CASE pc = "drop"
  <2>1. \A i \in Ifaces : Wanted(i) => stored[i] \in Uuids /\ stored[i] # u
    BY <1>11, Uuid DEF Inv, Plan, Planning, Stored, Saved
  <2>2. StoredSame
    BY Zenon, <1>4, <1>11, <2>1, StoredStays DEF Saved
  <2>3. Plan'
    BY ZenonT(30), <1>2, <1>4, <1>11 DEF Inv, Plan, Planning, plan, NmTyped, SkipDown, SkipNew, Wanted
  <2>4. Stored'
    <3>1. \A i \in Ifaces : Wanted(i) =>
            /\ stored[i] \notin volatile'
            /\ prof'[stored[i]] \in Ctrls \cup {None}
            /\ want[i].ctrl # Unset => prof'[stored[i]] = IF want[i].ctrl = Detach THEN None
                                                          ELSE want[i].ctrl
      BY Zenon, <1>11, <2>2 DEF Inv, Stored, Saved, StoredSame
    <3>2. \A v \in Uuids : Wanted(v[1]) /\ Exists(v)' /\ v # stored[v[1]] => v \in todo'
      BY Zenon, <1>2, <1>7, <1>11 DEF Inv, Stored, Saved
    <3>3. \A v \in todo' : Wanted(v[1]) /\ v # stored[v[1]]
      BY Zenon, <1>2, <1>11 DEF Inv, Stored, Saved
    <3> QED BY Zenon, <1>2, <1>11, <3>1, <3>2, <3>3 DEF Stored, Wanted, plan
  <2>5. Stopped'
    <3> SUFFICES ASSUME NEW i \in Ifaces, Unmoved(i)', stored[i] \notin stop
                 PROVE  active'[i] = None
      BY Zenon, <1>2, <1>11 DEF Stopped, plan
    <3>1. Unmoved(i)
      BY Zenon, <1>2, <1>11, <2>2, SameHopes DEF Saved
    <3>2. active[i] = None
      BY Zenon, <1>11, <3>1 DEF Inv, Stopped, Saved
    <3> QED BY Zenon, <3>2, <1>4 DEF Less
  <2> QED BY Zenon, <1>2, <1>6, <1>7, <1>8, <1>9, <1>11, <2>3, <2>4, <2>5 DEF Inv, Passes, Kept
<1> QED BY <1>2, <1>10, <1>11

LEMMA DeleteDevicesStep == Inv /\ DeleteDevices => Inv'
<1> SUFFICES ASSUME Inv, DeleteDevices PROVE Inv'
  OBVIOUS
<1>1. PICK D \in SUBSET Ifaces : NmDrops(D, prof)
  BY Zenon DEF DeleteDevices
<1>2. /\ pc = "delete" /\ pc' = "prepare" /\ todo = {} /\ todo' = {}
      /\ UNCHANGED <<want, seen, plan, loop>>
  BY Zenon DEF DeleteDevices, Then
<1>3. NmTyped /\ Fade(prof) /\ Dropped(D, prof)
  BY Zenon, <1>1, DropStep DEF Inv, TypeOK
<1>4. Less
  BY Zenon, <1>3 DEF Fade, Dropped, Less
<1>5. TypeOK'
  BY Zenon, <1>2, <1>3, TypesFrom DEF Inv, TypeOK, plan, loop
<1>6. Flat' /\ \A v \in Uuids : Exists(v)' => Exists(v)
  BY Zenon, <1>2, <1>3, <1>4, LessFacts DEF Inv
<1>7. Before'
  BY Zenon, <1>2, <1>4 DEF Inv, Before, Less
<1>8. AbsentGone'
  BY Zenon, <1>2, <1>6 DEF Inv, AbsentGone
<1> QED BY Zenon, <1>2, <1>5, <1>6, <1>7, <1>8
        DEF Inv, Plan, Planning, Stored, Saved, Passes, Kept, Stopped

(* get_exist_profile() finds a profile of the interface, its active one if *)
(* it has one, and none only if there is none.                             *)
LEMMA Found ==
  ASSUME TypeOK, NEW i \in Ifaces, NEW f,
         f \in IF ExistProfiles(i) = {} THEN {<<i, 0>>} ELSE ExistProfiles(i)
  PROVE  /\ f \in Of(i)
         /\ active[i] # None => f = active[i]
         /\ \A u \in Of(i) : Exists(u) => Exists(f)
<1> DEFINE found == {u \in Of(i) : Exists(u)}
<1>1. ExistProfiles(i) = IF found \cap Active # {} THEN found \cap Active ELSE found
  BY DEF ExistProfiles
<1>2. <<i, 0>> \in Of(i)
  <2>1. 0 \in 0..3
    OBVIOUS
  <2> QED BY Zenon, Uuid, <2>1
<1>3. f \in Of(i) /\ \A u \in Of(i) : Exists(u) => Exists(f)
  <2>1. CASE ExistProfiles(i) = {}
    <3>1. found = {} /\ f = <<i, 0>>
      BY <1>1, <2>1
    <3> QED BY <1>2, <3>1
  <2>2. CASE ExistProfiles(i) # {}
    <3>1. f \in found
      BY Zenon, <1>1, <2>2
    <3> QED BY <3>1
  <2> QED BY <2>1, <2>2
<1>4. ASSUME active[i] # None PROVE f = active[i]
  <2>1. active[i] \in found \cap Active
    BY Zenon, <1>4 DEF TypeOK, Active
  <2>2. f \in Active /\ f \in Of(i)
    BY Zenon, <1>1, <2>1
  <2> QED BY <2>2, ActiveFacts, Uuid
<1> QED BY Zenon, <1>3, <1>4

LEMMA PrepareStep == Inv /\ Prepare => Inv'
<1> SUFFICES ASSUME Inv, Prepare PROVE Inv'
  OBVIOUS
<1> DEFINE Down == {i \in Ifaces : want[i].state = "down"}
           Ignored == {i \in Down : seen[i] = "ignore"}
           Up == {i \in Ifaces : want[i].state = "up"}
<1>1. PICK n \in [Up \cup Down -> 0..3] :
        LET f == [i \in Ifaces |-> IF i \in Up \cup Down THEN <<i, n[i]>> ELSE None] IN
        /\ \A i \in Up \cup Down :
             f[i] \in IF ExistProfiles(i) = {} THEN {<<i, 0>>} ELSE ExistProfiles(i)
        /\ stored' = f
        /\ start' = {f[i] : i \in {j \in Up : ~CanSkip(j, f[j])} \cup Ignored}
        /\ stop' = {f[i] : i \in {j \in Down : Exists(f[j])} \cup Ignored}
        /\ exist' = {u \in Uuids : Exists(u)}
        /\ \E D \in DeactivateFirst(start') : Then("prepare", "first", D)
        /\ UNCHANGED <<nm, loop>>
  BY Zenon DEF Prepare
<1>2. PICK f : f = [i \in Ifaces |-> IF i \in Up \cup Down THEN <<i, n[i]>> ELSE None]
  OBVIOUS
<1>3. /\ \A i \in Up \cup Down :
           f[i] \in IF ExistProfiles(i) = {} THEN {<<i, 0>>} ELSE ExistProfiles(i)
      /\ stored' = f
      /\ start' = {f[i] : i \in {j \in Up : ~CanSkip(j, f[j])} \cup Ignored}
      /\ stop' = {f[i] : i \in {j \in Down : Exists(f[j])} \cup Ignored}
      /\ exist' = {u \in Uuids : Exists(u)}
      /\ UNCHANGED <<nm, loop>>
  BY Zenon, <1>1, <1>2
<1>4. /\ pc = "prepare" /\ pc' = "first" /\ UNCHANGED <<want, seen>>
      /\ todo' \subseteq Active
  BY Zenon, <1>1 DEF Then, DeactivateFirst
<1>5. ASSUME NEW i \in Ifaces
      PROVE  /\ i \in Up \cup Down <=> Wanted(i)
             /\ Wanted(i) => /\ f[i] \in Of(i) /\ f[i] \in Uuids /\ f[i] # None /\ f[i][1] = i
                             /\ active[i] # None => f[i] = active[i]
                             /\ \A u \in Of(i) : Exists(u) => Exists(f[i])
             /\ ~Wanted(i) => f[i] = None
  <2>1. i \in Up \cup Down <=> Wanted(i)
    BY Zenon DEF Wanted
  <2>2. ASSUME Wanted(i)
        PROVE  /\ f[i] \in Of(i) /\ f[i] \in Uuids /\ f[i] # None /\ f[i][1] = i
               /\ active[i] # None => f[i] = active[i]
               /\ \A u \in Of(i) : Exists(u) => Exists(f[i])
    <3>1. f[i] \in IF ExistProfiles(i) = {} THEN {<<i, 0>>} ELSE ExistProfiles(i)
      BY Zenon, <1>3, <2>1, <2>2
    <3>2. /\ f[i] \in Of(i)
          /\ active[i] # None => f[i] = active[i]
          /\ \A u \in Of(i) : Exists(u) => Exists(f[i])
      BY Zenon, <3>1, Found DEF Inv
    <3> QED BY Zenon, <3>2, Uuid
  <2>3. ~Wanted(i) => f[i] = None
    BY Zenon, <1>2, <2>1
  <2> QED BY Zenon, <2>1, <2>2, <2>3
<1>6. /\ \A u \in start' : \E i \in Ifaces : u = f[i] /\ Wanted(i)
                              /\ \/ i \in Up /\ ~CanSkip(i, f[i])
                                 \/ i \in Ignored
      /\ \A u \in stop' : \E i \in Down : u = f[i] /\ Wanted(i)
      /\ \A i \in Up : ~CanSkip(i, f[i]) => f[i] \in start'
      /\ \A i \in Ignored : f[i] \in stop'
      /\ \A i \in Down : Exists(f[i]) => f[i] \in stop'
  BY Zenon, <1>3 DEF Wanted
<1>7. TypeOK'
  <2>1. stored' \in [Ifaces -> Uuids \cup {None}]
    <3>1. f = [i \in Ifaces |-> f[i]]
      BY Zenon, <1>2
    <3> QED BY Zenon, <1>3, <1>5, <3>1
  <2>2. start' \subseteq Uuids /\ stop' \subseteq Uuids
    BY <1>5, <1>6
  <2>3. todo' \subseteq Uuids
    BY Zenon, <1>4, ActiveFacts DEF Inv
  <2>4. NmTyped
    BY Zenon, <1>3, SameNm DEF Inv
  <2> QED BY Zenon, <1>3, <1>4, <2>1, <2>2, <2>3, <2>4, TypesFrom DEF Inv, TypeOK, loop
<1>8. Flat' /\ Before' /\ AbsentGone'
  BY ZenonT(30), <1>3, <1>4 DEF Inv, Flat, Before, AbsentGone, nm, Exists
<1>9. Plan'
  <2>1. \A i \in Ifaces : (stored'[i] # None <=> Wanted(i)) /\ (Wanted(i) => stored'[i] \in Of(i))
    BY Zenon, <1>3, <1>5
  <2>2. \A i \in Ifaces : want[i].state = "up" /\ stored'[i] \notin start'
                          => SkipDown(i) \/ SkipNew(i)
    <3> SUFFICES ASSUME NEW i \in Ifaces, want[i].state = "up", stored'[i] \notin start'
                 PROVE  SkipDown(i) \/ SkipNew(i)
      OBVIOUS
    <3>1. CanSkip(i, f[i])
      BY Zenon, <1>3, <1>6
    <3> QED BY Zenon, <3>1 DEF CanSkip, SkipDown, SkipNew
  <2>3. \A u \in start' :
          /\ u = stored'[u[1]]
          /\ \/ want[u[1]].state = "up" /\ ~SkipDown(u[1])
             \/ want[u[1]].state = "down" /\ seen[u[1]] = "ignore" /\ u \in stop'
    <3> SUFFICES ASSUME NEW u \in start'
                 PROVE  /\ u = stored'[u[1]]
                        /\ \/ want[u[1]].state = "up" /\ ~SkipDown(u[1])
                           \/ want[u[1]].state = "down" /\ seen[u[1]] = "ignore" /\ u \in stop'
      OBVIOUS
    <3>1. PICK i \in Ifaces : u = f[i] /\ Wanted(i)
                              /\ \/ i \in Up /\ ~CanSkip(i, f[i])
                                 \/ i \in Ignored
      BY Zenon, <1>6
    <3>2. u[1] = i /\ u = stored'[i]
      BY Zenon, <1>3, <1>5, <3>1
    <3>3. i \in Up /\ ~CanSkip(i, f[i]) => want[i].state = "up" /\ ~SkipDown(i)
      BY Zenon DEF CanSkip, SkipDown
    <3>4. i \in Ignored => want[i].state = "down" /\ seen[i] = "ignore" /\ u \in stop'
      BY Zenon, <1>6, <3>1
    <3>5. \/ want[i].state = "up" /\ ~SkipDown(i)
          \/ want[i].state = "down" /\ seen[i] = "ignore" /\ u \in stop'
      BY Zenon, <3>1, <3>3, <3>4
    <3> QED BY Zenon, <3>2, <3>5
  <2>4. \A u \in stop' : u = stored'[u[1]] /\ want[u[1]].state = "down"
    BY <1>3, <1>5, <1>6
  <2>5. \A u \in volatile : stored'[u[1]] \in {None, u}
    <3> SUFFICES ASSUME NEW u \in volatile, stored'[u[1]] # None PROVE stored'[u[1]] = u
      OBVIOUS
    <3>1. u \in Uuids /\ u[1] \in Ifaces /\ active[u[1]] = u /\ u # None
      BY ActiveFacts, Uuid, ProfilesAssumption DEF Inv
    <3> QED BY Zenon, <3>1, <1>3, <1>5
  <2>6. \A u \in Uuids : Exists(u) => u \in exist'
    BY Zenon, <1>3
  <2>7. \A u \in Uuids : want[u[1]].state = "down" /\ Exists(u) => stored'[u[1]] \in stop'
    <3> SUFFICES ASSUME NEW u \in Uuids, want[u[1]].state = "down", Exists(u)
                 PROVE  stored'[u[1]] \in stop'
      OBVIOUS
    <3>1. u[1] \in Ifaces /\ u \in Of(u[1]) /\ Wanted(u[1])
      BY Zenon, Uuid DEF Wanted
    <3>2. Exists(f[u[1]]) /\ u[1] \in Down
      BY Zenon, <3>1, <1>5
    <3> QED BY Zenon, <3>2, <1>3, <1>6
  <2> QED BY <2>1, <2>2, <2>3, <2>4, <2>5, <2>6, <2>7, <1>3, <1>4
          DEF Plan, Wanted, SkipDown, SkipNew, Exists, nm, Of
<1> QED BY Zenon, <1>4, <1>7, <1>8, <1>9 DEF Inv, Stored, Saved, Passes, Kept, Stopped

LEMMA SaveStep == Inv /\ Save => Inv'
<1> SUFFICES ASSUME Inv, Save PROVE Inv'
  OBVIOUS
<1>1. /\ pc = "first" /\ pc' = "save" /\ todo' = {}
      /\ prof' = [u \in Uuids |-> IF stored[u[1]] = u THEN StoredCtrl(u[1], u) ELSE prof[u]]
      /\ volatile' = {u \in volatile : stored[u[1]] # u}
      /\ UNCHANGED <<want, seen, active, under, bring, plan, loop>>
  BY Zenon DEF Save, Then
<1>2. \A u \in Uuids : stored[u[1]] # u => prof'[u] = prof[u]
  BY Zenon, <1>1
<1>3. ASSUME NEW i \in Ifaces, Wanted(i)
      PROVE  /\ stored[i] \in Uuids /\ stored[i][1] = i /\ stored[i] \notin volatile'
             /\ prof'[stored[i]] \in Ctrls \cup {None} /\ prof'[stored[i]] # Absent
             /\ want[i].ctrl # Unset => prof'[stored[i]] = IF want[i].ctrl = Detach THEN None
                                                           ELSE want[i].ctrl
             /\ i \in Ctrls => prof'[stored[i]] = None
  <2>1. stored[i] \in Uuids /\ stored[i][1] = i /\ stored[i] \in Of(i)
    BY ZenonT(30), <1>1, <1>3, Uuid DEF Inv, Plan, Planning
  <2>2. prof'[stored[i]] = StoredCtrl(i, stored[i])
    BY Zenon, <1>1, <2>1
  <2>3. want[i].ctrl \in Ctrls \cup {Unset, Detach}
    BY Zenon DEF Inv, TypeOK
  <2>4. prof[stored[i]] \in Ctrls \cup {None, Absent}
    BY Zenon, <2>1 DEF Inv, TypeOK
  <2>5. StoredCtrl(i, stored[i]) \in Ctrls \cup {None}
    BY Zenon, <2>3, <2>4 DEF StoredCtrl, Exists
  <2>6. i \in Ctrls => StoredCtrl(i, stored[i]) = None
    BY Zenon, <2>1 DEF StoredCtrl, Exists, Inv, Flat
  <2>7. Absent \notin Ctrls \cup {None}
    BY Zenon, ProfilesAssumption DEF Ifaces
  <2>8. want[i].ctrl # Unset => StoredCtrl(i, stored[i]) = IF want[i].ctrl = Detach THEN None
                                                           ELSE want[i].ctrl
    BY Zenon DEF StoredCtrl
  <2> QED BY Zenon, <1>1, <2>1, <2>2, <2>5, <2>6, <2>7, <2>8
<1>4. \A u \in Uuids : stored[u[1]] = u => Wanted(u[1]) /\ u[1] \in Ifaces
  BY Zenon, <1>1, Uuid, ProfilesAssumption DEF Inv, Plan, Planning
<1>5. NmTyped
  <2>1. prof' \in [Uuids -> Ctrls \cup {None, Absent}]
    <3>1. \A u \in Uuids : prof'[u] \in Ctrls \cup {None, Absent}
      BY <1>2, <1>3, <1>4 DEF Inv, TypeOK
    <3>2. prof' = [u \in Uuids |-> prof'[u]]
      BY Zenon, <1>1
    <3> QED BY Zenon, <3>1, <3>2
  <2>2. \A i \in Ifaces : active'[i] # None => active'[i] \in Of(i) /\ prof'[active'[i]] # Absent
    <3> SUFFICES ASSUME NEW i \in Ifaces, active[i] # None
                 PROVE  active[i] \in Of(i) /\ prof'[active[i]] # Absent
      BY Zenon, <1>1
    <3>1. active[i] \in Of(i) /\ active[i] \in Uuids /\ active[i][1] = i
          /\ prof[active[i]] # Absent
      BY Zenon, Uuid DEF Inv, TypeOK, Exists
    <3> QED BY <3>1, <1>2, <1>3, <1>4
  <2>3. volatile' \subseteq Active' /\ volatile' \subseteq volatile
    BY <1>1 DEF Inv, TypeOK, Active
  <2> QED BY Zenon, <1>1, <2>1, <2>2, <2>3 DEF NmTyped, Inv, TypeOK
<1>6. TypeOK'
  BY Zenon, <1>1, <1>5, TypesFrom DEF Inv, TypeOK, plan, loop
<1>7. Flat'
  <2>1. ASSUME NEW c \in Ctrls, NEW u \in Of(c) PROVE prof'[u] \in {None, Absent}
    <3>1. c \in Ifaces /\ u \in Uuids /\ u[1] = c
      BY Uuid DEF Ifaces
    <3>2. CASE stored[u[1]] = u
      BY ZenonT(30), <1>3, <1>4, <3>1, <3>2
    <3>3. CASE stored[u[1]] # u
      BY Zenon, <1>2, <3>1, <3>3 DEF Inv, Flat
    <3> QED BY Zenon, <3>2, <3>3
  <2> QED BY Zenon, <1>1, <2>1 DEF Inv, Flat, Of
<1>8. Before'
  BY Zenon, <1>1 DEF Inv, Before
<1>9. AbsentGone'
  BY Zenon, <1>1, <1>2, <1>4 DEF Inv, AbsentGone, Exists, Wanted
<1>10. Plan'
  <2>1. \A u \in Uuids : prof'[u] # Absent => u \in exist \/ u = stored[u[1]]
    BY Zenon, <1>1, <1>2 DEF Inv, Plan, Planning, Exists
  <2> QED BY ZenonT(30), <1>1, <2>1 DEF Inv, Plan, Planning, plan, Wanted, SkipDown, SkipNew, Exists, Of
<1>11. Stored'
  <2>1. \A u \in Uuids : prof'[u] # Absent /\ u # stored[u[1]] => u \in exist
    BY Zenon, <1>1, <1>2 DEF Inv, Plan, Planning, Exists
  <2> QED BY Zenon, <1>1, <1>3, <2>1 DEF Stored, plan, Wanted, Exists
<1>12. Stopped'
  <2> SUFFICES ASSUME NEW i \in Ifaces, want[i].state = "down", stored[i] \notin stop
               PROVE  active[i] = None
    BY Zenon, <1>1 DEF Stopped, plan, Unmoved
  <2> SUFFICES ASSUME active[i] # None PROVE FALSE
    OBVIOUS
  <2>1. active[i] \in Uuids /\ active[i][1] = i /\ Exists(active[i])
    BY Zenon, Uuid DEF Inv, TypeOK
  <2> QED BY <1>1, <2>1 DEF Inv, Plan, Planning
<1> QED BY Zenon, <1>1, <1>6, <1>7, <1>8, <1>9, <1>10, <1>11, <1>12 DEF Inv, Passes, Kept

LEMMA DropExistStep == Inv /\ DropExist => Inv'
<1> SUFFICES ASSUME Inv, DropExist PROVE Inv'
  OBVIOUS
<1>1. /\ pc = "save" /\ pc' = "drop"
      /\ todo' = {u \in exist \ volatile : stored[u[1]] \notin {None, u}}
      /\ UNCHANGED <<want, seen, nm, plan, loop>>
  BY Zenon DEF DropExist, Then
<1>2. NmTyped
  BY Zenon, <1>1, SameNm DEF Inv
<1>3. TypeOK'
  BY Zenon, <1>1, <1>2, TypesFrom DEF Inv, TypeOK, plan, loop
<1>4. Flat' /\ Before' /\ AbsentGone'
  BY Zenon, <1>1 DEF Inv, Flat, Before, AbsentGone, nm, Exists
<1>5. Plan'
  BY ZenonT(30), <1>1 DEF Inv, Plan, Planning, plan, nm, Wanted, SkipDown, SkipNew, Exists
<1>6. Stored'
  <2>1. \A u \in Uuids : Wanted(u[1]) /\ Exists(u) /\ u # stored[u[1]] => u \in todo'
    <3> SUFFICES ASSUME NEW u \in Uuids, Wanted(u[1]), Exists(u), u # stored[u[1]]
                 PROVE  u \in todo'
      OBVIOUS
    <3>1. u \in exist
      BY Zenon, <1>1 DEF Inv, Stored, Saved
    <3>2. stored[u[1]] # None
      BY Zenon, <1>1, Uuid DEF Inv, Plan, Planning
    <3>3. u \notin volatile
      BY Zenon, <1>1, <3>2 DEF Inv, Plan, Planning
    <3> QED BY Zenon, <1>1, <3>1, <3>2, <3>3
  <2>2. \A u \in todo' : Wanted(u[1]) /\ u # stored[u[1]]
    <3> SUFFICES ASSUME NEW u \in todo' PROVE Wanted(u[1]) /\ u # stored[u[1]]
      OBVIOUS
    <3>1. u \in Uuids /\ stored[u[1]] \notin {None, u}
      BY Zenon, <1>1 DEF Inv, TypeOK
    <3> QED BY Zenon, <1>1, <3>1, Uuid DEF Inv, Plan, Planning
  <2>3. \A i \in Ifaces : Wanted(i) =>
          /\ stored[i] \notin volatile
          /\ prof[stored[i]] \in Ctrls \cup {None}
          /\ want[i].ctrl # Unset => prof[stored[i]] = IF want[i].ctrl = Detach THEN None
                                                       ELSE want[i].ctrl
    BY Zenon, <1>1 DEF Inv, Stored, Saved
  <2> QED BY Zenon, <1>1, <2>1, <2>2, <2>3 DEF Stored, plan, nm, Wanted, Exists
<1>7. Stopped'
  BY Zenon, <1>1 DEF Inv, Stopped, Saved, Unmoved, plan, nm
<1> QED BY Zenon, <1>1, <1>3, <1>4, <1>5, <1>6, <1>7 DEF Inv, Passes, Kept

LEMMA ActivateAllStep == Inv /\ Activate => Inv'
<1> SUFFICES ASSUME Inv, Activate PROVE Inv'
  OBVIOUS
<1>1. /\ pc = "drop" /\ pc' = "round" /\ todo = {} /\ todo' = start
      /\ acs' = Active /\ news' = {} /\ failed' = {} /\ round' = 1
      /\ UNCHANGED <<want, seen, nm, plan>>
  BY DEF Activate, Then
<1>2. NmTyped
  BY Zenon, <1>1, SameNm DEF Inv
<1>3. TypeOK'
  <2>1. acs' \subseteq Uuids /\ round' \in 0..ACTIVATION_RETRY_COUNT
    BY SMTT(30), <1>1, ActiveFacts, ProfilesAssumption DEF Inv
  <2> QED BY Zenon, <1>1, <1>2, <2>1, TypesFrom DEF Inv, TypeOK, plan
<1>4. Flat' /\ Before' /\ AbsentGone'
  BY Zenon, <1>1 DEF Inv, Flat, Before, AbsentGone, nm, Exists
<1>5. Plan'
  BY ZenonT(30), <1>1 DEF Inv, Plan, Planning, plan, nm, Wanted, SkipDown, SkipNew, Exists
<1>6. Stored'
  BY Zenon, <1>1 DEF Inv, Stored, Saved, plan, nm, Wanted, Exists
<1>7. Passes'
  <2>1. ASSUME NEW i \in Ifaces, Wanted(i), active[i] # None
        PROVE  stored[i] \in Active /\ seen[i] = "up"
    <3>1. active[i] \in Uuids /\ active[i][1] = i /\ Exists(active[i])
      BY Zenon, <2>1, Uuid DEF Inv, TypeOK
    <3>2. active[i] = stored[i]
      BY Zenon, <1>1, <2>1, <3>1 DEF Inv, Stored, Saved
    <3>3. stored[i] \in Active
      BY Zenon, <2>1, <3>2 DEF Active
    <3> QED BY Zenon, <1>1, <2>1, <3>3 DEF Inv, Before
  <2>2. ASSUME NEW i \in Ifaces, Wanted(i), stored[i] \in Active
        PROVE  active[i] # None
    <3>1. stored[i] \in Uuids /\ stored[i][1] = i /\ stored[i] # None
      BY Zenon, <1>1, <2>2, Uuid DEF Inv, Plan, Planning
    <3> QED BY Zenon, <2>2, <3>1, ActiveFacts DEF Inv
  <2>3. \A i \in Ifaces : Wanted(i) /\ seen[i] = "none" => stored[i] \notin acs'
    BY Zenon, <1>1, <2>1, <2>2
  <2>4. \A i \in Ifaces : Wanted(i) /\ stored[i] \notin acs' => active[i] = None
    BY Zenon, <1>1, <2>1
  <2> QED BY Zenon, <1>1, <2>3, <2>4 DEF Passes, NewController, Wanted, plan, nm
<1>8. Stopped'
  BY Zenon, <1>1 DEF Inv, Stopped, Saved, Unmoved, plan, nm
<1> QED BY Zenon, <1>1, <1>3, <1>4, <1>5, <1>6, <1>7, <1>8 DEF Inv, Kept

LEMMA DeactivateConnStep == Inv /\ DeactivateConn => Inv'
<1> SUFFICES ASSUME Inv, DeactivateConn PROVE Inv'
  OBVIOUS
<1>1. PICK u \in todo :
        /\ Call("first", u) \/ Call("stop", u)
        /\ NmDrops({i \in Ifaces : active[i] = u}, prof)
        /\ UNCHANGED loop
  BY Zenon DEF DeactivateConn
<1>2. /\ pc \in {"first", "stop"} /\ pc' = pc /\ todo' = todo \ {u}
      /\ UNCHANGED <<want, seen, plan, loop>> /\ u \in Uuids
  BY Zenon, <1>1 DEF Call, Inv, TypeOK
<1>3. PICK D \in SUBSET Ifaces : (\A i \in Ifaces : i \in D <=> active[i] = u) /\ NmDrops(D, prof)
  <2>1. PICK D : D = {i \in Ifaces : active[i] = u}
    OBVIOUS
  <2> QED BY Zenon, <1>1, <2>1
<1>4. NmTyped /\ Fade(prof) /\ Dropped(D, prof)
  BY Zenon, <1>3, DropStep DEF Inv, TypeOK
<1>5. Less /\ \A i \in Ifaces : active'[i] # u
  <2>1. u # None
    BY Zenon, <1>2, ProfilesAssumption
  <2> QED BY Zenon, <1>3, <1>4, <2>1 DEF Fade, Dropped, Less
<1>6. TypeOK'
  BY Zenon, <1>2, <1>4, TypesFrom DEF Inv, TypeOK, plan, loop
<1>7. Flat' /\ \A v \in Uuids : Exists(v)' => Exists(v)
  BY Zenon, <1>2, <1>4, <1>5, LessFacts DEF Inv
<1>8. Before' /\ AbsentGone'
  BY Zenon, <1>2, <1>5, <1>7 DEF Inv, Before, AbsentGone, Less
<1>9. Plan'
  <2>1. volatile' \subseteq volatile
    BY Zenon, <1>4 DEF NmTyped
  <2> QED BY ZenonT(30), <1>2, <1>7, <2>1 DEF Inv, Plan, Planning, plan, SkipDown, SkipNew, Wanted
<1>10. CASE pc = "first"
  BY Zenon, <1>2, <1>6, <1>7, <1>8, <1>9, <1>10 DEF Inv, Stored, Saved, Passes, Kept, Stopped
<1>11. CASE pc = "stop"
  <2>1. StoredSame
    BY Zenon, <1>4, <1>11, StoredStays DEF Saved
  <2>2. Stored'
    <3>1. \A v \in Uuids : Wanted(v[1]) /\ Exists(v)' => v = stored[v[1]]
      BY Zenon, <1>7, <1>11 DEF Inv, Stored, Saved
    <3>2. \A i \in Ifaces : Wanted(i) =>
            /\ stored[i] \notin volatile'
            /\ prof'[stored[i]] \in Ctrls \cup {None}
            /\ want[i].ctrl # Unset => prof'[stored[i]] = IF want[i].ctrl = Detach THEN None
                                                          ELSE want[i].ctrl
      BY Zenon, <1>11, <2>1 DEF Inv, Stored, Saved, StoredSame
    <3> QED BY Zenon, <1>2, <1>11, <3>1, <3>2 DEF Stored, plan, Wanted
  <2>3. u[1] \in Ifaces /\ u = stored[u[1]] /\ want[u[1]].state = "down" /\ D \subseteq {u[1]}
    <3>1. u \in stop
      BY Zenon, <1>11 DEF Inv, Kept
    <3>2. u = stored[u[1]] /\ want[u[1]].state = "down"
      BY Zenon, <1>11, <3>1 DEF Inv, Plan, Planning
    <3>3. D \subseteq {u[1]}
      BY Zenon, <1>2, <1>3, ActiveFacts DEF Inv
    <3> QED BY Zenon, <1>2, <3>2, <3>3, Uuid
  <2>4. Kept'
    <3> SUFFICES ASSUME NEW i \in Ifaces, want[i].state = "up", MayBeUp(i)'
                 PROVE  Good(i)' \/ Coming(i)'
      BY Zenon, <1>2, <1>11 DEF Inv, Kept, plan
    <3>1. Wanted(i) /\ MayBeUp(i)
      BY Zenon, <1>2, <1>11, <2>1, SameHopes DEF Wanted, Saved
    <3>2. prof'[stored[i]] = prof[stored[i]] /\ stored' = stored
      BY Zenon, <1>2, <2>1, <3>1 DEF StoredSame, plan
    <3>3. i \notin D /\ prof[stored[i]] \notin D
      <4>1. prof[stored[i]] \in Ctrls \cup {None}
        BY Zenon, <1>11, <3>1 DEF Inv, Stored, Saved
      <4>2. None \notin Ifaces
        BY Zenon, ProfilesAssumption
      <4> QED BY Zenon, <2>3, <3>1, <4>1, <4>2 DEF MayBeUp
    <3>4. CASE Good(i)
      BY Zenon, <1>4, <3>2, <3>3, <3>4 DEF Good, Dropped
    <3>5. CASE Coming(i)
      BY Zenon, <1>4, <3>2, <3>3, <3>5 DEF Coming, Dropped
    <3> QED BY Zenon, <1>11, <3>1, <3>4, <3>5 DEF Inv, Kept
  <2>5. Stopped'
    <3> SUFFICES ASSUME NEW i \in Ifaces, Unmoved(i)', stored[i] \notin stop \/ stored[i] \notin todo'
                 PROVE  active'[i] = None
      BY Zenon, <1>2, <1>11 DEF Stopped, plan
    <3>1. Unmoved(i) /\ Wanted(i)
      BY Zenon, <1>2, <1>11, <2>1, SameHopes DEF Saved, Unmoved, Wanted
    <3>2. CASE stored[i] \notin stop \/ stored[i] \notin todo
      <4>1. active[i] = None
        BY Zenon, <1>11, <3>1, <3>2 DEF Inv, Stopped, Saved
      <4> QED BY Zenon, <1>5, <4>1 DEF Less
    <3>3. CASE stored[i] = u
      <4>1. active[i] \in {None, stored[i]}
        BY Zenon, <1>11, <3>1, Only
      <4> QED BY Zenon, <1>5, <3>3, <4>1 DEF Less
    <3> QED BY Zenon, <1>2, <3>2, <3>3
  <2> QED BY Zenon, <1>2, <1>6, <1>7, <1>8, <1>9, <1>11, <2>2, <2>4, <2>5 DEF Inv, Passes
<1> QED BY <1>2, <1>10, <1>11

(* What NetworkManager brings up goes where it should: no interface that   *)
(* is up where its profile says is moved away for good.                    *)
Moves ==
  /\ NmTyped /\ StoredSame
  /\ \A v \in Uuids : prof'[v] \in {prof[v], Absent}
  /\ \A c \in Ctrls : under'[c] = None
  /\ \A i \in Ifaces : Wanted(i) =>
       /\ Good(i) \/ Coming(i) => Good(i)' \/ Coming(i)'
       /\ active[i] = None \/ Good(i) => active'[i] = None \/ Good(i)'
  /\ \A i \in Ifaces : Unmoved(i) /\ stored[i] \notin stop /\ active[i] = None
                       => active'[i] = None

LEMMA ActivateMoves ==
  ASSUME Inv, pc = "round", NEW u \in start, NmActivates(u), UNCHANGED <<want, seen, plan>>
  PROVE  /\ Moves /\ Good(u[1])'
         /\ u[1] \in Ctrls =>
              \A p \in Ports : Wanted(p) /\ prof[stored[p]] = u[1] /\ (active[p] = None \/ Good(p))
                               => Coming(p)'
<1>1. /\ u \in Uuids /\ u[1] \in Ifaces /\ u = stored[u[1]] /\ Wanted(u[1])
  <2>1. u \in Uuids /\ u[1] \in Ifaces /\ u # None
    BY Zenon, Uuid, ProfilesAssumption DEF Inv, TypeOK
  <2> QED BY Zenon, <2>1 DEF Inv, Plan, Planning
<1>2. NmTyped /\ Fade(prof) /\ Activated(u)
  BY Zenon, <1>1, ActivateStep DEF Inv
<1>3. StoredSame
  BY Zenon, <1>2, StoredStays DEF Saved
<1>4. \A v \in Uuids : prof'[v] \in {prof[v], Absent}
  BY Zenon, <1>2 DEF Fade
<1>5. stored' = stored /\ None \notin Ctrls /\ Absent \notin Ctrls /\ None # Absent
  BY Zenon, ProfilesAssumption DEF plan, Ifaces
<1>6. \A c \in Ctrls : c \in Ifaces /\ c \notin Ports
  BY Zenon, ProfilesAssumption DEF Ifaces
<1>7. \A c \in Ctrls : Wanted(c) => prof[stored[c]] = None
  <2> SUFFICES ASSUME NEW c \in Ctrls, Wanted(c) PROVE prof[stored[c]] = None
    OBVIOUS
  <2>1. stored[c] \in Of(c) /\ prof[stored[c]] \in Ctrls \cup {None}
    BY Zenon, <1>6 DEF Inv, Plan, Planning, Stored, Saved
  <2> QED BY Zenon, <1>5, <2>1 DEF Inv, Flat
<1>8. \A c \in Ctrls : under'[c] = None
  <2> SUFFICES ASSUME NEW c \in Ctrls PROVE under'[c] = None
    OBVIOUS
  <2>1. CASE c = u[1]
    BY <1>1, <1>2, <1>7, <2>1 DEF Activated
  <2>2. CASE c # u[1]
    <3>1. under'[c] = under[c]
      BY Zenon, <1>2, <1>6, <2>2 DEF Activated
    <3> QED BY Zenon, <3>1 DEF Inv, Flat
  <2> QED BY <2>1, <2>2
<1>9. Good(u[1])'
  BY <1>1, <1>2, <1>3, <1>5 DEF Good, Activated, StoredSame
<1>10. ASSUME NEW i \in Ifaces, Wanted(i)
       PROVE  /\ Good(i) \/ Coming(i) => Good(i)' \/ Coming(i)'
              /\ active[i] = None \/ Good(i) => active'[i] = None \/ Good(i)'
  <2>1. CASE i = u[1]
    BY Zenon, <1>9, <2>1
  <2>2. CASE i # u[1]
    <3>1. prof'[stored[i]] = prof[stored[i]]
      BY Zenon, <1>3, <1>10 DEF StoredSame
    <3>2. CASE /\ i = prof[u] /\ i \in Ctrls /\ active[i] = None
               /\ active'[i] \in Of(i) /\ under'[i] = under[i]
      <4>1. active'[i] \in Uuids /\ Exists(active'[i])
        BY <1>2, <1>4, <3>2, Uuid DEF NmTyped, Exists
      <4>2. active'[i] = stored[i]
        BY Zenon, <1>10, <3>2, <4>1, Only
      <4>3. under'[i] = None /\ prof'[stored[i]] = None
        BY Zenon, <1>7, <1>8, <1>10, <3>1, <3>2
      <4> QED BY Zenon, <4>2, <4>3, <1>5 DEF Good
    <3>3. CASE /\ i \in Ports /\ u[1] \in Ctrls /\ under[i] = u[1]
               /\ active'[i] = None /\ under'[i] = None
      BY Zenon, <1>2, <1>5, <3>1, <3>3 DEF Good, Coming, Activated
    <3>4. CASE active'[i] = active[i] /\ under'[i] = under[i]
      BY Zenon, <1>2, <1>5, <3>1, <3>4 DEF Good, Coming, Activated
    <3> QED BY Zenon, <1>2, <2>2, <3>2, <3>3, <3>4 DEF Activated
  <2> QED BY Zenon, <2>1, <2>2
<1>11. ASSUME NEW i \in Ifaces, Unmoved(i), stored[i] \notin stop, active[i] = None
       PROVE  active'[i] = None
  <2>1. i # u[1]
    <3>1. want[i].state = "down"
      BY Zenon, <1>11 DEF Unmoved
    <3> QED BY ZenonT(30), <1>1, <1>11, <3>1 DEF Inv, Plan, Planning
  <2>2. ~(i = prof[u] /\ i \in Ctrls)
    <3> SUFFICES ASSUME i = prof[u], i \in Ctrls PROVE FALSE
      OBVIOUS
    <3>1. u[1] \in Ports
      BY Zenon, <1>1, <1>5, <1>7 DEF Ifaces
    <3>2. want[u[1]].ctrl # Unset /\ seen[u[1]] # "ignore" /\ want[i].state = "down"
      BY Zenon, <1>1, <1>11, <3>1 DEF Unmoved
    <3>3. want[u[1]].ctrl = i
      BY Zenon, <1>1, <1>5, <3>2 DEF Inv, Stored, Saved
    <3>4. ~SkipDown(u[1])
      BY Zenon, <3>2 DEF Inv, Plan, Planning
    <3> QED BY <3>2, <3>3, <3>4 DEF SkipDown
  <2> QED BY Zenon, <1>2, <1>11, <2>1, <2>2 DEF Activated
<1>12. ASSUME u[1] \in Ctrls, NEW p \in Ports, Wanted(p), prof[stored[p]] = u[1],
              active[p] = None \/ Good(p)
       PROVE  Coming(p)'
  <2>1. p \in Ifaces /\ p \notin Ctrls /\ p # u[1]
    BY Zenon, <1>6, <1>12 DEF Ifaces
  <2>2. active'[p] = None
    BY Zenon, <1>2, <1>12, <2>1 DEF Activated, Good
  <2>3. prof'[stored[p]] = u[1] /\ u[1] \in bring'
    BY Zenon, <1>2, <1>3, <1>12, <2>1 DEF StoredSame, Activated
  <2> QED BY Zenon, <2>2, <2>3, <1>5 DEF Coming
<1>13. Moves
  BY Zenon, <1>2, <1>3, <1>4, <1>8, <1>10, <1>11 DEF Moves
<1> QED BY Zenon, <1>9, <1>12, <1>13

LEMMA BringMoves ==
  ASSUME Inv, pc \in {"round", "stop", "ok"}, NEW c \in Ctrls, NmBringsPorts(c)
  PROVE  /\ Moves
         /\ \A i \in Ifaces : Unmoved(i) /\ active[i] = None => active'[i] = None
<1>1. NmTyped /\ Fade(prof) /\ Brought(c)
  BY Zenon, BringStep DEF Inv
<1>2. UNCHANGED <<want, seen, plan>> /\ stored' = stored
  BY Zenon DEF NmBringsPorts, plan
<1>3. StoredSame
  BY <1>1, StoredStays DEF Saved
<1>4. \A v \in Uuids : prof'[v] \in {prof[v], Absent}
  BY Zenon, <1>1 DEF Fade
<1>5. None \notin Ctrls /\ Absent \notin Ctrls /\ \A d \in Ctrls : d \in Ifaces /\ d \notin Ports
  BY Zenon, ProfilesAssumption DEF Ifaces
<1>6. \A d \in Ctrls : under'[d] = None
  BY Zenon, <1>1, <1>5 DEF Brought, Inv, Flat
<1>7. ASSUME NEW i \in Ifaces, Wanted(i), active'[i] \in Of(i), prof[active'[i]] = c
      PROVE  active'[i] = stored[i]
  BY Zenon, <1>5, <1>7, Only DEF Exists
<1>8. ASSUME NEW i \in Ifaces, Wanted(i)
      PROVE  /\ Good(i) \/ Coming(i) => Good(i)' \/ Coming(i)'
             /\ active[i] = None \/ Good(i) => active'[i] = None \/ Good(i)'
  <2>1. prof'[stored[i]] = prof[stored[i]] /\ stored[i] \in Of(i)
    BY Zenon, <1>3, <1>8, Only DEF StoredSame
  <2>2. CASE /\ i \in Ports /\ active[i] = None
             /\ active'[i] \in Of(i) /\ prof[active'[i]] = c /\ under'[i] = c
    <3>1. active'[i] = stored[i]
      BY Zenon, <1>7, <1>8, <2>2
    <3> QED BY Zenon, <1>2, <2>1, <2>2, <3>1 DEF Good
  <2>3. CASE /\ active'[i] = active[i] /\ under'[i] = under[i]
             /\ ~(i \in Ports /\ active[i] = None /\ \E u \in Of(i) : prof[u] = c)
    <3>1. Good(i) => Good(i)'
      BY Zenon, <1>2, <2>1, <2>3 DEF Good
    <3>2. ASSUME Coming(i) PROVE Coming(i)'
      <4>1. i \in Ports
        <5> SUFFICES ASSUME i \in Ctrls PROVE FALSE
          BY Zenon DEF Ifaces
        <5>1. prof[stored[i]] \in {None, Absent}
          BY Zenon, <2>1 DEF Inv, Flat
        <5> QED BY Zenon, <1>5, <3>2, <5>1 DEF Coming, Inv, TypeOK
      <4>2. prof[stored[i]] # c
        BY Zenon, <2>1, <2>3, <3>2, <4>1 DEF Coming
      <4> QED BY Zenon, <1>1, <1>2, <2>1, <2>3, <3>2, <4>2 DEF Coming, Brought
    <3> QED BY Zenon, <2>3, <3>1, <3>2
  <2> QED BY Zenon, <1>1, <2>2, <2>3 DEF Brought
<1>9. ASSUME NEW i \in Ifaces, Unmoved(i), active[i] = None PROVE active'[i] = None
  <2>1. Wanted(i) /\ prof[stored[i]] = None
    BY Zenon, <1>9 DEF Unmoved, Wanted
  <2>2. ~(active'[i] \in Of(i) /\ prof[active'[i]] = c)
    BY Zenon, <1>5, <1>7, <2>1
  <2> QED BY Zenon, <1>1, <1>9, <2>2 DEF Brought
<1> QED BY Zenon, <1>1, <1>3, <1>4, <1>6, <1>8, <1>9 DEF Moves

(* Only what is wanted is activated. *)
LEMMA StartWanted ==
  ASSUME TypeOK, Plan, pc \in Planning
  PROVE  \A i \in Ifaces : stored[i] \in start => Wanted(i)
<1> SUFFICES ASSUME NEW i \in Ifaces, stored[i] \in start PROVE Wanted(i)
  OBVIOUS
<1>1. stored[i] # None
  BY ProfilesAssumption DEF TypeOK
<1> QED BY Zenon, <1>1 DEF Plan

(* What holds after such a step whatever it was. *)
LEMMA MovesKeep ==
  ASSUME Inv, Moves, pc \in {"round", "stop", "ok"}, pc' = pc,
         UNCHANGED <<want, seen, plan, acs, round>>,
         todo' \subseteq todo, failed' \subseteq Uuids, news' \subseteq Ctrls
  PROVE  TypeOK' /\ Flat' /\ Before' /\ AbsentGone' /\ Plan' /\ Stored'
<1>1. TypeOK'
  BY ZenonT(30), TypesFrom DEF Inv, TypeOK, Moves, plan
<1>2. \A v \in Uuids : Exists(v)' => Exists(v)
  BY Zenon DEF Moves, Exists
<1>3. Flat'
  <2>1. \A c \in Ctrls : \A u \in Of(c) : prof'[u] \in {None, Absent}
    BY Zenon, Uuid DEF Ifaces, Inv, Flat, Moves
  <2>2. \A c \in Ctrls : want'[c].ctrl = Unset /\ under'[c] = None
    BY Zenon DEF Inv, Flat, Moves
  <2> QED BY Zenon, <2>1, <2>2 DEF Flat, Of
<1>4. Before' /\ AbsentGone'
  BY Zenon, <1>2 DEF Before, AbsentGone, Inv
<1>5. Plan'
  <2>1. volatile' \subseteq volatile
    BY Zenon DEF Moves, NmTyped
  <2> QED BY ZenonT(30), <2>1 DEF Inv, Plan, Planning, plan, SkipDown, SkipNew, Wanted
<1>6. Stored'
  <2>1. \A v \in Uuids : Wanted(v[1]) /\ Exists(v)' => v = stored[v[1]]
    BY Zenon, <1>2 DEF Inv, Stored, Saved
  <2>2. \A i \in Ifaces : Wanted(i) =>
          /\ stored[i] \notin volatile'
          /\ prof'[stored[i]] \in Ctrls \cup {None}
          /\ want[i].ctrl # Unset => prof'[stored[i]] = IF want[i].ctrl = Detach THEN None
                                                        ELSE want[i].ctrl
    BY Zenon DEF Inv, Stored, Saved, Moves, StoredSame
  <2> QED BY Zenon, <2>1, <2>2 DEF Stored, plan, Wanted
<1> QED BY Zenon, <1>1, <1>3, <1>4, <1>5, <1>6

(* One turn of a pass: u was dealt with, or failed, or is skipped as its   *)
(* controller is new.                                                      *)
LEMMA TurnKeeps ==
  ASSUME Inv, Moves, pc = "round", pc' = "round",
         UNCHANGED <<want, seen, plan, acs, round>>,
         NEW u \in todo, todo' = todo \ {u}, news' = news \cup News(u),
         failed' = failed \/ failed' = failed \cup {u},
         \/ u \in failed'
         \/ Good(u[1])'
         \/ SkipPort(u),
         \/ u \in failed' \/ u[1] \notin Ctrls \/ u \in acs
         \/ \A p \in Ports :
              Wanted(p) /\ prof[stored[p]] = u[1] /\ (active[p] = None \/ Good(p)) => Coming(p)'
  PROVE  Inv'
<1>1. u \in start /\ u \in Uuids /\ u[1] \in Ifaces /\ u = stored[u[1]] /\ Wanted(u[1])
  <2>1. u \in start /\ u \in Uuids /\ u[1] \in Ifaces /\ u # None
    BY Zenon, Uuid, ProfilesAssumption DEF Inv, TypeOK, Passes
  <2> QED BY Zenon, <2>1 DEF Inv, Plan, Planning
<1>2. stored' = stored /\ start' = start /\ stop' = stop
  BY Zenon DEF plan
<1>3. failed' \subseteq start /\ failed' \subseteq Uuids /\ news' \subseteq Ctrls
  BY <1>1 DEF Inv, TypeOK, Passes, News
<1>4. TypeOK' /\ Flat' /\ Before' /\ AbsentGone' /\ Plan' /\ Stored'
  BY Zenon, <1>3, MovesKeep
<1>5. StoredSame /\ \A i \in Ifaces : Wanted(i)' <=> Wanted(i)
  BY Zenon DEF Moves, Wanted
<1>6. \A c : NewController(c)' <=> NewController(c)
  BY Zenon, <1>2 DEF NewController
<1>7. \A i \in Ifaces : stored[i] \in start => Wanted(i)
  BY Zenon, StartWanted DEF Inv, Planning
<1>8. \A c \in news' : NewController(c)
  BY Zenon, <1>1 DEF Inv, Passes, News, NewController
<1>9. ASSUME NEW i \in Ifaces, stored[i] \in start, stored[i] \notin todo' \cup failed'
      PROVE  \/ Good(i)' \/ Coming(i)'
             \/ stored[i] \notin acs /\ NewController(prof[stored[i]])
  <2>1. CASE stored[i] = u
    <3>1. i = u[1]
      <4>1. stored[i] \in Of(i)
        BY Zenon, <1>7, <1>9 DEF Inv, Plan, Planning
      <4> QED BY Zenon, <2>1, <4>1, Uuid
    <3>2. SkipPort(u) => u \notin acs /\ NewController(prof[u])
      BY Zenon DEF SkipPort, Inv, Passes
    <3> QED BY Zenon, <1>9, <2>1, <3>1, <3>2
  <2>2. CASE stored[i] # u
    <3>1. stored[i] \notin todo \cup failed /\ Wanted(i)
      BY Zenon, <1>7, <1>9, <2>2
    <3>2. \/ Good(i) \/ Coming(i)
          \/ stored[i] \notin acs /\ NewController(prof[stored[i]])
      BY Zenon, <1>9, <3>1 DEF Inv, Passes
    <3> QED BY Zenon, <3>1, <3>2 DEF Moves
  <2> QED BY Zenon, <2>1, <2>2
<1>10. ASSUME NEW c \in Ctrls, NewController(c), stored[c] \notin todo' \cup failed',
              NEW p \in Ports, Wanted(p), prof[stored[p]] = c, stored[p] \notin acs
       PROVE  Good(p)' \/ Coming(p)'
  <2>1. p \in Ifaces /\ c \in Ifaces
    BY Zenon DEF Ifaces
  <2>2. CASE stored[c] = u
    <3>1. c = u[1]
      <4>1. stored[c] \in Of(c)
        BY Zenon, <1>1, <1>7, <2>1, <2>2 DEF Inv, Plan, Planning
      <4> QED BY Zenon, <2>1, <2>2, <4>1, Uuid
    <3>2. active[p] = None \/ Good(p)
      BY Zenon, <1>10, <2>1 DEF Inv, Passes
    <3>3. u \notin acs
      BY Zenon, <1>10, <2>2 DEF NewController
    <3> QED BY Zenon, <1>10, <2>2, <3>1, <3>2, <3>3
  <2>3. CASE stored[c] # u
    <3>1. stored[c] \notin todo \cup failed
      BY Zenon, <1>10, <2>3
    <3>2. Good(p) \/ Coming(p)
      BY Zenon, <1>10, <3>1 DEF Inv, Passes
    <3> QED BY Zenon, <1>10, <2>1, <3>2 DEF Moves
  <2> QED BY Zenon, <2>2, <2>3
<1>11. Passes'
  <2>1. todo' \cup failed' \subseteq start'
    BY Zenon, <1>2, <1>3 DEF Inv, Passes
  <2>2. (\A c \in news : NewController(c))'
    BY Zenon, <1>6, <1>8
  <2>3. (\A i \in Ifaces : Wanted(i) /\ seen[i] = "none" => stored[i] \notin acs)'
    BY Zenon, <1>2, <1>5 DEF Inv, Passes
  <2>4. (\A i \in Ifaces : Wanted(i) /\ stored[i] \notin acs => active[i] = None \/ Good(i))'
    <3> SUFFICES ASSUME NEW i \in Ifaces, Wanted(i), stored[i] \notin acs
                 PROVE  active'[i] = None \/ Good(i)'
      BY Zenon, <1>2, <1>5
    <3>1. active[i] = None \/ Good(i)
      BY Zenon DEF Inv, Passes
    <3> QED BY Zenon, <3>1 DEF Moves
  <2>5. (\A i \in Ifaces :
           stored[i] \in start \ (todo \cup failed) =>
             \/ Good(i) \/ Coming(i)
             \/ stored[i] \notin acs /\ NewController(prof[stored[i]]))'
    <3> SUFFICES ASSUME NEW i \in Ifaces, stored[i] \in start, stored[i] \notin todo' \cup failed'
                 PROVE  \/ Good(i)' \/ Coming(i)'
                        \/ stored[i] \notin acs /\ NewController(prof[stored[i]])'
      BY Zenon, <1>2
    <3>1. prof'[stored'[i]] = prof[stored[i]]
      BY Zenon, <1>2, <1>5, <1>7 DEF StoredSame
    <3>2. NewController(prof[stored[i]])' <=> NewController(prof[stored[i]])
      BY Zenon, <1>2, <3>1 DEF NewController
    <3> QED BY Zenon, <1>9, <3>2
  <2>6. (\A c \in Ctrls :
           NewController(c) /\ stored[c] \notin todo \cup failed =>
             \A p \in Ports : Wanted(p) /\ prof[stored[p]] = c /\ stored[p] \notin acs =>
               Good(p) \/ Coming(p))'
    <3> SUFFICES ASSUME NEW c \in Ctrls, NewController(c), stored[c] \notin todo' \cup failed',
                        NEW p \in Ports, Wanted(p), prof'[stored[p]] = c, stored[p] \notin acs
                 PROVE  Good(p)' \/ Coming(p)'
      BY Zenon, <1>2, <1>5, <1>6 DEF Ifaces
    <3>1. prof[stored[p]] = c
      BY Zenon, <1>5 DEF StoredSame, Ifaces
    <3> QED BY Zenon, <1>10, <3>1
  <2> QED BY Zenon, <2>1, <2>2, <2>3, <2>4, <2>5, <2>6 DEF Passes
<1>12. Stopped'
  <2> SUFFICES ASSUME NEW i \in Ifaces, Unmoved(i)', stored[i] \notin stop
               PROVE  active'[i] = None
    BY Zenon, <1>2 DEF Stopped
  <2>1. Unmoved(i)
    BY Zenon, <1>5, SameHopes DEF Saved
  <2>2. active[i] = None
    BY Zenon, <2>1 DEF Inv, Stopped, Saved
  <2> QED BY Zenon, <2>1, <2>2 DEF Moves
<1> QED BY Zenon, <1>4, <1>11, <1>12 DEF Inv, Kept

(* A turn that leaves NetworkManager as it is. *)
LEMMA NoMoves ==
  ASSUME Inv, pc \in Saved, UNCHANGED <<want, seen, nm, plan>>
  PROVE  Moves
<1>1. NmTyped /\ Fade(prof)
  BY SameNm DEF Inv
<1>2. StoredSame
  BY <1>1, StoredStays
<1>3. \A c \in Ctrls : under'[c] = None
  BY DEF nm, Inv, Flat
<1> QED BY Zenon, <1>1, <1>2, <1>3 DEF Moves, nm, plan, Good, Coming

LEMMA TryOkStep == Inv /\ TryOk => Inv'
<1> SUFFICES ASSUME Inv, TryOk PROVE Inv'
  OBVIOUS
<1>1. PICK u \in todo :
        /\ Turn(u)
        /\ IF SkipPort(u) THEN UNCHANGED nm
           ELSE (u \in acs /\ NmReapplies(u)) \/ NmActivates(u)
        /\ news' = news \cup News(u) /\ UNCHANGED failed
  BY DEF TryOk
<1>2. /\ pc = "round" /\ pc' = "round" /\ todo' = todo \ {u}
      /\ UNCHANGED <<want, seen, plan, acs, round>>
  BY Zenon, <1>1 DEF Turn, Call
<1>3. u \in start /\ u \in Uuids /\ u[1] \in Ifaces /\ u = stored[u[1]] /\ Wanted(u[1])
  <2>1. u \in start /\ u \in Uuids /\ u[1] \in Ifaces /\ u # None
    BY Zenon, <1>2, Uuid, ProfilesAssumption DEF Inv, TypeOK, Passes
  <2> QED BY Zenon, <1>2, <2>1 DEF Inv, Plan, Planning
<1>4. CASE SkipPort(u)
  <2>1. Moves
    BY Zenon, <1>1, <1>2, <1>4, NoMoves DEF Saved
  <2>2. u[1] \notin Ctrls
    BY Zenon, <1>4, ProfilesAssumption DEF SkipPort
  <2> QED BY Zenon, <1>1, <1>2, <1>4, <2>1, <2>2, TurnKeeps
<1>5. CASE u \in acs /\ NmReapplies(u)
  <2>1. /\ active[u[1]] = u
        /\ under' = [under EXCEPT ![u[1]] = prof[u]]
        /\ UNCHANGED <<prof, volatile, active, bring>>
    BY <1>5 DEF NmReapplies
  <2>2. stored' = stored
    BY Zenon, <1>2 DEF plan
  <2>3. prof[u] \in Ctrls \cup {None}
    BY Zenon, <1>2, <1>3 DEF Inv, Stored, Saved
  <2>4. NmTyped /\ Fade(prof)
    <3>1. under' \in [Ifaces -> Ctrls \cup {None}]
      BY Zenon, <2>1, <2>3 DEF Inv, TypeOK
    <3>2. volatile' \subseteq Active' /\ Fade(prof)
      BY <2>1 DEF Inv, TypeOK, Active, Fade
    <3> QED BY Zenon, <2>1, <3>1, <3>2 DEF Inv, TypeOK, NmTyped, Exists
  <2>5. StoredSame
    BY Zenon, <1>2, <2>4, StoredStays DEF Saved
  <2>6. \A c \in Ctrls : under'[c] = None
    <3> SUFFICES ASSUME NEW c \in Ctrls PROVE under'[c] = None
      OBVIOUS
    <3>1. c \in Ifaces /\ under[c] = None
      BY DEF Ifaces, Inv, Flat
    <3>2. c = u[1] => prof[u] = None
      <4>1. u \in Of(u[1]) /\ Absent \notin Ctrls \cup {None} /\ None \notin Ctrls
        BY Zenon, <1>3, Uuid, ProfilesAssumption DEF Ifaces
      <4> QED BY Zenon, <2>3, <4>1 DEF Inv, Flat
    <3> QED BY Zenon, <2>1, <3>1, <3>2 DEF Inv, TypeOK
  <2>7. Good(u[1])'
    BY Zenon, <1>3, <2>1, <2>2 DEF Good, Inv, TypeOK
  <2>8. \A i \in Ifaces \ {u[1]} : (Good(i)' <=> Good(i)) /\ (Coming(i)' <=> Coming(i))
    BY Zenon, <1>3, <2>1, <2>2 DEF Good, Coming, Inv, TypeOK
  <2>9. Moves
    <3>1. \A i \in Ifaces : Wanted(i) =>
            /\ Good(i) \/ Coming(i) => Good(i)' \/ Coming(i)'
            /\ active[i] = None \/ Good(i) => active'[i] = None \/ Good(i)'
      BY Zenon, <2>1, <2>7, <2>8
    <3> QED BY Zenon, <2>1, <2>4, <2>5, <2>6, <3>1 DEF Moves
  <2> QED BY Zenon, <1>1, <1>2, <1>5, <2>7, <2>9, TurnKeeps
<1>6. CASE NmActivates(u)
  <2>1. /\ Moves /\ Good(u[1])'
        /\ u[1] \in Ctrls =>
             \A p \in Ports : Wanted(p) /\ prof[stored[p]] = u[1] /\ (active[p] = None \/ Good(p))
                              => Coming(p)'
    BY Zenon, <1>2, <1>3, <1>6, ActivateMoves
  <2> QED BY Zenon, <1>1, <1>2, <2>1, TurnKeeps
<1> QED BY <1>1, <1>4, <1>5, <1>6

LEMMA TryFailsStep == Inv /\ TryFails => Inv'
<1> SUFFICES ASSUME Inv, TryFails PROVE Inv'
  OBVIOUS
<1>1. PICK u \in todo :
        /\ Turn(u) /\ failed' = failed \cup {u} /\ news' = news \cup News(u) /\ UNCHANGED nm
  BY DEF TryFails
<1>2. /\ pc = "round" /\ pc' = "round" /\ todo' = todo \ {u}
      /\ UNCHANGED <<want, seen, plan, acs, round>>
  BY <1>1 DEF Turn, Call
<1>3. Moves /\ u \in failed'
  BY Zenon, <1>1, <1>2, NoMoves DEF Saved
<1> QED BY Zenon, <1>1, <1>2, <1>3, TurnKeeps

LEMMA RetryStep == Inv /\ Retry => Inv'
<1> SUFFICES ASSUME Inv, Retry PROVE Inv'
  OBVIOUS
<1>1. /\ pc = "round" /\ pc' = "round" /\ todo = {} /\ todo' = failed /\ failed' = {}
      /\ news' = {} /\ round < ACTIVATION_RETRY_COUNT /\ round' = round + 1
      /\ UNCHANGED <<want, seen, nm, plan, acs>>
  BY DEF Retry, Then
<1>2. NmTyped
  BY Zenon, <1>1, SameNm DEF Inv
<1>3. TypeOK'
  <2>1. round' \in 0..ACTIVATION_RETRY_COUNT
    BY <1>1, ProfilesAssumption DEF Inv, TypeOK
  <2> QED BY Zenon, <1>1, <1>2, <2>1, TypesFrom DEF Inv, TypeOK, plan
<1>4. Flat' /\ Before' /\ AbsentGone'
  BY ZenonT(30), <1>1 DEF Inv, Flat, Before, AbsentGone, nm, Exists
<1>5. Plan' /\ Stored'
  BY ZenonT(30), <1>1 DEF Inv, Plan, Planning, Stored, Saved, plan, nm, Wanted, SkipDown, SkipNew, Exists
<1>6. Passes'
  <2>1. todo' \cup failed' = todo \cup failed
    BY Zenon, <1>1
  <2>2. /\ \A i \in Ifaces : (Good(i)' <=> Good(i)) /\ (Coming(i)' <=> Coming(i))
        /\ \A i \in Ifaces : Wanted(i)' <=> Wanted(i)
        /\ \A c : NewController(c)' <=> NewController(c)
    BY Zenon, <1>1 DEF Good, Coming, Wanted, NewController, nm, plan
  <2>3. /\ stored' = stored /\ start' = start /\ prof' = prof /\ active' = active
        /\ seen' = seen /\ acs' = acs
    BY Zenon, <1>1 DEF nm, plan
  <2>4. Ports \subseteq Ifaces /\ pc = "round"
    BY Zenon, <1>1 DEF Ifaces
  <2>5. \A i \in Ifaces : NewController(prof[stored[i]])' <=> NewController(prof[stored[i]])
    BY Zenon, <2>3 DEF NewController
  <2>6. (todo \cup failed \subseteq start /\ \A c \in news : NewController(c))'
    BY Zenon, <1>1, <2>1, <2>3 DEF Inv, Passes
  <2>7. (\A i \in Ifaces : Wanted(i) /\ seen[i] = "none" => stored[i] \notin acs)'
    BY Zenon, <2>2, <2>3, <2>4 DEF Inv, Passes
  <2>8. (\A i \in Ifaces : Wanted(i) /\ stored[i] \notin acs => active[i] = None \/ Good(i))'
    BY Zenon, <2>2, <2>3, <2>4 DEF Inv, Passes
  <2>9. (\A i \in Ifaces :
           stored[i] \in start \ (todo \cup failed) =>
             \/ Good(i) \/ Coming(i)
             \/ stored[i] \notin acs /\ NewController(prof[stored[i]]))'
    BY Zenon, <2>1, <2>2, <2>3, <2>4, <2>5 DEF Inv, Passes
  <2>10. (\A c \in Ctrls :
            NewController(c) /\ stored[c] \notin todo \cup failed =>
              \A p \in Ports : Wanted(p) /\ prof[stored[p]] = c /\ stored[p] \notin acs =>
                Good(p) \/ Coming(p))'
    BY Zenon, <2>1, <2>2, <2>3, <2>4 DEF Inv, Passes
  <2> QED BY Zenon, <2>6, <2>7, <2>8, <2>9, <2>10 DEF Passes
<1>7. Stopped'
  BY Zenon, <1>1 DEF Inv, Stopped, Saved, Unmoved, plan, nm
<1> QED BY Zenon, <1>1, <1>3, <1>4, <1>5, <1>6, <1>7 DEF Inv, Kept

LEMMA ErrorStep == Inv /\ Error /\ UNCHANGED nm => Inv'
<1> SUFFICES ASSUME Inv, Error, UNCHANGED nm PROVE Inv'
  OBVIOUS
<1>1. NmTyped
  BY ZenonT(30), SameNm DEF Inv
<1>2. TypeOK'
  BY <1>1, TypesFrom, ProfilesAssumption DEF Inv, Error
<1>3. Flat'
  BY Zenon DEF Inv, Flat, Error, nm
<1> QED BY Zenon, <1>2, <1>3 DEF Inv, Error, Before, AbsentGone, Plan, Planning, Stored, Saved,
                          Passes, Kept, Stopped

(* All turns are over: who is not up yet is brought up by NetworkManager. *)
LEMMA StopStep == Inv /\ Stop => Inv'
<1> SUFFICES ASSUME Inv, Stop PROVE Inv'
  OBVIOUS
<1>1. /\ pc = "round" /\ pc' = "stop" /\ todo = {} /\ failed = {} /\ todo' = stop
      /\ UNCHANGED <<want, seen, nm, plan, loop>>
  BY DEF Stop, Then
<1>2. NmTyped
  BY Zenon, <1>1, SameNm DEF Inv
<1>3. TypeOK'
  BY Zenon, <1>1, <1>2, TypesFrom DEF Inv, TypeOK, plan, loop
<1>4. Flat' /\ Before' /\ AbsentGone'
  BY ZenonT(30), <1>1 DEF Inv, Flat, Before, AbsentGone, nm, Exists
<1>5. Plan' /\ Stored'
  BY ZenonT(30), <1>1 DEF Inv, Plan, Planning, Stored, Saved, plan, nm, Wanted, SkipDown, SkipNew, Exists
<1>6. ASSUME NEW i \in Ifaces, want[i].state = "up", MayBeUp(i)
      PROVE  Good(i) \/ Coming(i)
  <2>1. Wanted(i) /\ stored[i] \in Of(i)
    BY Zenon, <1>1, <1>6 DEF Wanted, Inv, Plan, Planning
  <2>2. ASSUME NewController(prof[stored[i]]), stored[i] \notin acs
        PROVE  Good(i) \/ Coming(i)
    <3>1. prof[stored[i]] \in Ctrls
      BY Zenon, <2>2 DEF NewController
    <3>2. i \in Ports
      <4>1. i \in Ctrls => prof[stored[i]] \in {None, Absent}
        BY Zenon, <2>1 DEF Inv, Flat
      <4> QED BY Zenon, <3>1, <4>1, ProfilesAssumption DEF Ifaces
    <3> QED BY Zenon, <1>1, <2>1, <2>2, <3>1, <3>2 DEF Inv, Passes
  <2>3. CASE stored[i] \in start
    <3>1. \/ Good(i) \/ Coming(i)
          \/ stored[i] \notin acs /\ NewController(prof[stored[i]])
      BY Zenon, <1>1, <2>3 DEF Inv, Passes
    <3> QED BY Zenon, <2>2, <3>1
  <2>4. CASE stored[i] \notin start
    <3>1. SkipDown(i) \/ SkipNew(i)
      BY Zenon, <1>1, <1>6, <2>4 DEF Inv, Plan, Planning
    <3>2. want[i].ctrl \in Ctrls
      BY Zenon, <3>1 DEF SkipDown, SkipNew
    <3>3. prof[stored[i]] = want[i].ctrl
      <4>1. want[i].ctrl # Unset /\ want[i].ctrl # Detach
        BY Zenon, <3>2, ProfilesAssumption DEF Ifaces
      <4> QED BY Zenon, <1>1, <2>1, <4>1 DEF Inv, Stored, Saved
    <3>4. SkipNew(i)
      BY Zenon, <1>6, <3>1, <3>3 DEF SkipDown, MayBeUp
    <3>5. PICK c \in Ctrls : c = want[i].ctrl
      BY Zenon, <3>2
    <3>6. c \in Ifaces /\ want[c].state = "up" /\ Wanted(c) /\ seen[c] = "none" /\ seen[i] = "none"
      BY Zenon, <3>4, <3>5 DEF SkipNew, Wanted, Ifaces
    <3>7. stored[c] \in start
      <4>1. want[c].ctrl \notin Ctrls
        BY Zenon, ProfilesAssumption DEF Inv, Flat, Ifaces
      <4> QED BY Zenon, <1>1, <3>6, <4>1 DEF Inv, Plan, Planning, SkipDown, SkipNew
    <3>8. stored[c] \notin acs /\ stored[i] \notin acs
      BY Zenon, <1>1, <2>1, <3>6 DEF Inv, Passes
    <3> QED BY Zenon, <2>2, <3>3, <3>5, <3>7, <3>8 DEF NewController
  <2> QED BY Zenon, <2>3, <2>4
<1>7. Kept'
  <2>1. \A i \in Ifaces : /\ (Good(i)' <=> Good(i)) /\ (Coming(i)' <=> Coming(i))
                          /\ MayBeUp(i)' <=> MayBeUp(i)
    BY Zenon, <1>1 DEF Good, Coming, MayBeUp, nm, plan
  <2>2. want' = want /\ todo' \subseteq stop'
    BY Zenon, <1>1 DEF plan
  <2> QED BY Zenon, <1>6, <2>1, <2>2 DEF Kept
<1>8. Stopped'
  <2> SUFFICES ASSUME NEW i \in Ifaces, Unmoved(i), stored[i] \notin stop PROVE active[i] = None
    BY Zenon, <1>1 DEF Stopped, Unmoved, plan, nm
  <2> QED BY Zenon, <1>1 DEF Inv, Stopped, Saved
<1> QED BY Zenon, <1>1, <1>3, <1>4, <1>5, <1>7, <1>8 DEF Inv, Passes

LEMMA FinishStep == Inv /\ Finish => Inv'
<1> SUFFICES ASSUME Inv, Finish PROVE Inv'
  OBVIOUS
<1>1. /\ pc = "stop" /\ pc' = "ok" /\ todo = {} /\ todo' = {}
      /\ UNCHANGED <<want, seen, nm, plan, loop>>
  BY DEF Finish, Then
<1>2. NmTyped
  BY <1>1, SameNm DEF Inv
<1>3. TypeOK'
  BY Zenon, <1>1, <1>2, TypesFrom DEF Inv, TypeOK, plan, loop
<1>4. Flat' /\ Before' /\ AbsentGone'
  BY ZenonT(30), <1>1 DEF Inv, Flat, Before, AbsentGone, nm, Exists
<1>5. Plan' /\ Stored'
  BY ZenonT(30), <1>1 DEF Inv, Plan, Planning, Stored, Saved, plan, nm, Wanted, SkipDown, SkipNew, Exists
<1>6. Kept'
  BY Zenon, <1>1 DEF Inv, Kept, Good, Coming, MayBeUp, nm, plan
<1>7. Stopped'
  <2> SUFFICES ASSUME NEW i \in Ifaces, Unmoved(i) PROVE active[i] = None
    BY Zenon, <1>1 DEF Stopped, Unmoved, plan, nm
  <2> QED BY Zenon, <1>1 DEF Inv, Stopped, Saved
<1> QED BY Zenon, <1>1, <1>3, <1>4, <1>5, <1>6, <1>7 DEF Inv, Passes

LEMMA BringsPortsStep ==
  ASSUME Inv, NEW c \in Ctrls, NmBringsPorts(c)
  PROVE  Inv'
<1>1. c \in bring /\ UNCHANGED <<pc, want, seen, plan, todo, loop>>
  BY Zenon DEF NmBringsPorts
<1>2. pc \in {"round", "stop", "ok", "err"}
  BY ZenonT(30), <1>1 DEF Inv, Before, TypeOK
<1>3. CASE pc = "err"
  <2>1. NmTyped /\ Fade(prof) /\ Brought(c)
    BY Zenon, BringStep DEF Inv
  <2>2. TypeOK'
    BY Zenon, <1>1, <2>1, TypesFrom DEF Inv, TypeOK, plan, loop
  <2>3. \A d \in Ctrls : d \in Ifaces /\ d \notin Ports
    BY Zenon, ProfilesAssumption DEF Ifaces
  <2>4. \A d \in Ctrls : under'[d] = None
    BY Zenon, <2>1, <2>3 DEF Brought, Inv, Flat
  <2>5. \A d \in Ctrls : \A u \in Of(d) : prof'[u] \in {None, Absent}
    BY Zenon, <2>1, <2>3, Uuid DEF Fade, Inv, Flat
  <2>6. Flat'
    BY Zenon, <1>1, <2>4, <2>5 DEF Inv, Flat, Of
  <2> QED BY Zenon, <1>1, <1>3, <2>2, <2>6 DEF Inv, Before, AbsentGone, Plan, Planning, Stored, Saved,
                                        Passes, Kept, Stopped
<1>4. CASE pc # "err"
  <2>1. Moves /\ \A i \in Ifaces : Unmoved(i) /\ active[i] = None => active'[i] = None
    BY Zenon, <1>2, <1>4, BringMoves
  <2>2. /\ stored' = stored /\ start' = start /\ stop' = stop /\ acs' = acs /\ round' = round
        /\ failed' = failed /\ news' = news /\ todo' = todo
    BY Zenon, <1>1 DEF plan, loop
  <2>3. TypeOK' /\ Flat' /\ Before' /\ AbsentGone' /\ Plan' /\ Stored'
    BY Zenon, <1>1, <1>2, <1>4, <2>1, <2>2, MovesKeep DEF Inv, TypeOK
  <2>4. StoredSame /\ pc \in Saved /\ Ports \subseteq Ifaces
    BY Zenon, <1>2, <1>4, <2>1 DEF Moves, Saved, Ifaces
  <2>5. \A i \in Ifaces : (Unmoved(i)' => Unmoved(i)) /\ (Wanted(i) => (MayBeUp(i)' <=> MayBeUp(i)))
    BY Zenon, <1>1, <2>4, SameHopes
  <2>6. Stopped'
    BY Zenon, <1>1, <2>1, <2>2, <2>5 DEF Inv, Stopped
  <2>7. Kept'
    <3> SUFFICES ASSUME pc \in {"stop", "ok"}, NEW i \in Ifaces, want[i].state = "up",
                        MayBeUp(i)'
                 PROVE  Good(i)' \/ Coming(i)'
      BY Zenon, <1>1, <2>2 DEF Inv, Kept
    <3>1. Wanted(i) /\ MayBeUp(i)
      BY Zenon, <2>5 DEF Wanted
    <3> QED BY Zenon, <2>1, <3>1 DEF Inv, Kept, Moves
  <2>8. Passes'
    <3> SUFFICES ASSUME pc = "round" PROVE Passes'
      BY Zenon, <1>1 DEF Passes
    <3>1. /\ \A i \in Ifaces : Wanted(i)' <=> Wanted(i)
          /\ \A d : NewController(d)' <=> NewController(d)
      BY Zenon, <1>1, <2>2 DEF Wanted, NewController
    <3>2. \A i \in Ifaces : stored[i] \in start => Wanted(i)
      BY Zenon, StartWanted DEF Inv, Planning
    <3>3. \A i \in Ifaces : Wanted(i) => prof'[stored'[i]] = prof[stored[i]]
      BY Zenon, <2>2, <2>4 DEF StoredSame
    <3>4. \A i \in Ifaces : Wanted(i) =>
            (NewController(prof[stored[i]])' <=> NewController(prof[stored[i]]))
      BY Zenon, <2>2, <3>3 DEF NewController
    <3>5. (todo \cup failed \subseteq start /\ \A d \in news : NewController(d))'
      BY Zenon, <2>2, <3>1 DEF Inv, Passes
    <3>6. (\A i \in Ifaces : Wanted(i) /\ seen[i] = "none" => stored[i] \notin acs)'
      BY Zenon, <1>1, <2>2, <3>1 DEF Inv, Passes
    <3>7. (\A i \in Ifaces : Wanted(i) /\ stored[i] \notin acs => active[i] = None \/ Good(i))'
      BY Zenon, <2>1, <2>2, <3>1 DEF Inv, Passes, Moves
    <3>8. (\A i \in Ifaces :
             stored[i] \in start \ (todo \cup failed) =>
               \/ Good(i) \/ Coming(i)
               \/ stored[i] \notin acs /\ NewController(prof[stored[i]]))'
      BY Zenon, <2>1, <2>2, <3>2, <3>4 DEF Inv, Passes, Moves
    <3>9. (\A d \in Ctrls :
             NewController(d) /\ stored[d] \notin todo \cup failed =>
               \A p \in Ports : Wanted(p) /\ prof[stored[p]] = d /\ stored[p] \notin acs =>
                 Good(p) \/ Coming(p))'
      BY Zenon, <2>1, <2>2, <2>4, <3>1, <3>3 DEF Inv, Passes, Moves
    <3> QED BY Zenon, <3>5, <3>6, <3>7, <3>8, <3>9 DEF Passes
  <2> QED BY <2>3, <2>6, <2>7, <2>8 DEF Inv
<1> QED BY Zenon, <1>3, <1>4

LEMMA StutterStep == Inv /\ UNCHANGED vars => Inv'
<1> SUFFICES ASSUME Inv, UNCHANGED vars PROVE Inv'
  OBVIOUS
<1> USE DEF vars, nm, plan, loop
<1>1. TypeOK'
  BY DEF Inv, TypeOK, Active, Exists
<1>2. Flat' /\ Before' /\ AbsentGone'
  BY ZenonT(30) DEF Inv, Flat, Before, AbsentGone, Exists
<1>3. Plan' /\ Stored'
  BY ZenonT(30) DEF Inv, Plan, Stored, Wanted, SkipDown, SkipNew, Exists
<1>4. Passes'
  BY ZenonT(30) DEF Inv, Passes, Good, Coming, NewController, Wanted
<1>5. Kept' /\ Stopped'
  BY Zenon DEF Inv, Kept, Stopped, Good, Coming, MayBeUp, Unmoved
<1> QED BY Zenon, <1>1, <1>2, <1>3, <1>4, <1>5 DEF Inv

(* The phases of nm_apply() keep what they are planned to achieve, for any *)
(* interfaces, profiles and request.                                       *)
LEMMA Invariant == Spec => []Inv
<1>1. Inv /\ [Next]_vars => Inv'
  <2> SUFFICES ASSUME Inv, [Next]_vars PROVE Inv'
    OBVIOUS
  <2>1. CASE Begin \/ DeleteConn \/ DeleteDevices \/ Prepare \/ DeactivateConn
    BY <2>1, BeginStep, DeleteConnStep, DeleteDevicesStep, PrepareStep, DeactivateConnStep
  <2>2. CASE Save \/ DropExist \/ Activate \/ TryOk \/ TryFails
    BY <2>2, SaveStep, DropExistStep, ActivateAllStep, TryOkStep, TryFailsStep
  <2>3. CASE Retry \/ Stop \/ Finish
    BY <2>3, RetryStep, StopStep, FinishStep
  <2>4. CASE GiveUp \/ Fail
    BY <2>4, ErrorStep DEF GiveUp, Fail
  <2>5. CASE Done \/ UNCHANGED vars
    BY <2>5, StutterStep DEF Done
  <2>6. CASE \E c \in Ctrls : NmBringsPorts(c)
    BY <2>6, BringsPortsStep
  <2> QED BY <2>1, <2>2, <2>3, <2>4, <2>5, <2>6 DEF Next
<1> QED BY InitInv, <1>1, PTL DEF Spec
-----------------------------------------------------------------------------
(* What NetworkManager has active exists and is of its interface, and what *)
(* is volatile is active, through all of nm_apply().                       *)
THEOREM ProfilesTypes == Spec => []TypeOK
<1>1. Inv => TypeOK
  BY Zenon DEF Inv
<1> QED BY <1>1, Invariant, PTL

(* When nm_apply() has succeeded and NetworkManager is done, what is to be *)
(* up has its stored profile active under the controller that it names:    *)
(* the ports that _activate_nm_profiles() and can_skip_activation() skip   *)
(* are brought up, whatever failed and was retried.                        *)
THEOREM WantedAreActive == Spec => []WantedIsActive
<1>1. Inv => WantedIsActive
  <2> SUFFICES ASSUME Inv, pc = "ok", bring = {}, NEW i \in Ifaces, want[i].state = "up",
                      prof[stored[i]] \in Ctrls
                        => want[prof[stored[i]]].state \notin {"down", "absent"}
               PROVE  active[i] = stored[i] /\ under[i] = prof[stored[i]]
    BY Zenon DEF WantedIsActive
  <2>1. Good(i) \/ Coming(i)
    BY Zenon DEF Inv, Kept, MayBeUp
  <2> QED BY Zenon, <2>1 DEF Good, Coming
<1> QED BY <1>1, Invariant, PTL

(* Then what is to be down or absent is down, as deactivate_nm_profiles()  *)
(* comes last and nothing activates it later.                              *)
THEOREM DownAreDown == Spec => []DownIsDown
<1>1. Inv => DownIsDown
  <2> SUFFICES ASSUME Inv, pc = "ok", NEW i \in Ifaces,
                      want[i].state \in {"down", "absent"},
                      stored[i] # None => prof[stored[i]] = None,
                      \A p \in Ports : stored[p] \in start /\ prof[stored[p]] = i
                                       => want[p].ctrl # Unset /\ seen[p] # "ignore"
               PROVE  active[i] = None
    BY Zenon DEF DownIsDown
  <2>1. CASE want[i].state = "absent"
    <3>1. \A u \in Of(i) : ~Exists(u)
      BY ZenonT(30), <2>1, Uuid DEF Inv, AbsentGone
    <3> QED BY Zenon, <3>1 DEF Inv, TypeOK
  <2>2. CASE want[i].state = "down"
    <3>1. stored[i] # None
      BY Zenon, <2>2 DEF Inv, Plan, Planning, Wanted
    <3>2. Unmoved(i)
      BY Zenon, <2>2, <3>1 DEF Unmoved
    <3> QED BY Zenon, <3>2 DEF Inv, Stopped, Saved
  <2> QED BY Zenon, <2>1, <2>2
<1> QED BY <1>1, Invariant, PTL

(* Then a changed interface has its stored profile and no other, and none  *)
(* if it is absent: delete_ifaces() and delete_exist_profiles() miss no    *)
(* profile, a volatile one included.                                       *)
THEOREM OneProfileIsLeft == Spec => []OneProfile
<1>1. Inv => OneProfile
  <2> SUFFICES ASSUME Inv, pc = "ok", NEW i \in Ifaces, want[i].state # "same"
               PROVE  {u \in Of(i) : Exists(u)} = {stored[i]} \ {None}
    BY Zenon DEF OneProfile, Changed
  <2>1. CASE Wanted(i)
    <3>1. /\ \A u \in Of(i) : Exists(u) => u = stored[i]
          /\ stored[i] \in Of(i) /\ stored[i] # None
      BY Zenon, <2>1, Only
    <3>2. Exists(stored[i])
      <4>1. prof[stored[i]] \in Ctrls \cup {None}
        BY Zenon, <2>1 DEF Inv, Stored, Saved
      <4> QED BY Zenon, <4>1, ProfilesAssumption DEF Exists, Ifaces
    <3> QED BY Zenon, <3>1, <3>2
  <2>2. CASE ~Wanted(i)
    <3>1. want[i].state = "absent"
      BY Zenon, <2>2 DEF Inv, TypeOK, Wanted
    <3>2. \A u \in Of(i) : ~Exists(u)
      BY Zenon, <3>1, Uuid DEF Inv, AbsentGone
    <3>3. stored[i] = None
      BY Zenon, <2>2 DEF Inv, Plan, Planning
    <3> QED BY Zenon, <3>2, <3>3
  <2> QED BY Zenon, <2>1, <2>2
<1> QED BY <1>1, Invariant, PTL
=============================================================================
