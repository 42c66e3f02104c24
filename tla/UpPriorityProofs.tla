---------------------------- MODULE UpPriorityProofs ----------------------------
(***************************************************************************)
(* Proofs about UpPriority for any number of interfaces, any nesting and   *)
(* any number of passes.                                                   *)
(***************************************************************************)
EXTENDS UpPriority, TLAPS

(* A port of which the controller is changed as well. *)
Led(i) == Active(i) /\ want.ctrl[i] # None /\ want.ctrl[i] \in want.changed

(* What a pending priority is worth: the controller's is known, will not   *)
(* change in this pass any more, and is lower.                             *)
PendingAfter(i) ==
  LET c == want.ctrl[i] IN
  \/ c \notin Kernel
  \/ pending[Name[c]] # 0 /\ pending[Name[i]] > pending[Name[c]]
  \/ pending[Name[c]] = 0 /\ Valid(c) /\ pending[Name[i]] > prio[c]

Running == pc \in {"ctrl", "parent", "set"}

(* The inductive invariant.  OVS bridges keep priority zero; a port that   *)
(* has its priority comes after its controller, which has its own; so does *)
(* a port with a pending one; what is still ahead of the first loop has no *)
(* pending priority; what is behind it has one of the two, unless the pass *)
(* left out a port.                                                        *)
UserZero == \A i \in Ifaces \ Kernel : prio[i] = 0
PortsSet ==
  Running => \A i \in Ifaces : Led(i) /\ prio[i] # 0 =>
    prio[i] > prio[want.ctrl[i]] /\ Valid(want.ctrl[i])
PortsPending ==
  Running => \A i \in Kernel :
    pending[Name[i]] # 0 /\ want.parent[i] = None =>
      Led(i) /\ prio[i] = 0 /\ PendingAfter(i)
LaterEmpty ==
  pc = "ctrl" => \A m \in k..Len(Order) :
    Order[m] \in Kernel => pending[Name[Order[m]]] = 0
Has(i) == prio[i] # 0 \/ pending[Name[i]] # 0
EarlierHave ==
  pc = "ctrl" /\ ret => \A m \in 1..(k - 1) : Led(Order[m]) => Has(Order[m])
AllHave ==
  pc \in {"parent", "set"} /\ ret => \A i \in Ifaces : Led(i) => Has(i)

PassInv ==
  /\ UserZero /\ PortsSet /\ PortsPending /\ LaterEmpty
  /\ EarlierHave /\ AllHave /\ PortAfterController

UpInv == TypeOK /\ (Plain => PassInv)

LEMMA NameIn == \A i \in Ifaces : Name[i] \in Names
BY DEF Names

LEMMA OrderFacts ==
  /\ Len(Order) \in Nat /\ MaxRetry \in Nat \ {0}
  /\ \A m \in 1..Len(Order) : Order[m] \in Ifaces
  /\ None \notin Ifaces /\ Kernel \subseteq Ifaces
BY PriorityAssumption

LEMMA OrderInjective ==
  /\ \A m, n \in 1..Len(Order) : Order[m] = Order[n] => m = n
  /\ \A i \in Ifaces : \E m \in 1..Len(Order) : Order[m] = i
  /\ \A i, j \in Kernel : Name[i] = Name[j] => i = j
BY PriorityAssumption

LEMMA InitUp == Init => UpInv
<1>. SUFFICES ASSUME Init PROVE UpInv
  OBVIOUS
<1>1. TypeOK
  BY PriorityAssumption DEF Init, TypeOK, NoChanges
<1>2. PassInv
  BY PriorityAssumption, NameIn
     DEF Init, PassInv, Running, NoChanges, PortAfterController, UserZero,
         PortsSet, PortsPending, LaterEmpty, EarlierHave, AllHave
<1>. QED
  BY <1>1, <1>2 DEF UpInv

(* Every variable keeps its type, and no pass is made after the last. *)
LEMMA TypeStep == TypeOK /\ [Next]_vars => TypeOK'
<1>. SUFFICES ASSUME TypeOK, [Next]_vars PROVE TypeOK'
  OBVIOUS
<1>. USE OrderFacts DEF TypeOK
<1>0. /\ want.ctrl \in [Ifaces -> Ifaces \cup {None}]
      /\ want.parent \in [Ifaces -> Kernel \cup {None}]
      /\ want.changed \subseteq Ifaces
  BY DEF IsInput
<1>1. CASE ControllerStep
  <2>1. Order[k] \in Ifaces
    BY <1>1 DEF ControllerStep
  <2>2. ASSUME want.ctrl[Order[k]] \in want.changed
        PROVE PortPriority(Order[k]) \in Nat
    BY <1>0, <2>1, <2>2, NameIn DEF PortPriority
  <2>3. pending' \in [Names -> Nat]
    BY <1>0, <1>1, <2>1, <2>2, NameIn DEF ControllerStep
  <2>4. ret' \in BOOLEAN
    BY <1>1, Zenon DEF ControllerStep
  <2>. QED
    BY <1>1, <2>3, <2>4 DEF ControllerStep
<1>2. CASE ControllersDone
  BY <1>2 DEF ControllersDone
<1>3. CASE ParentStep
  <2>1. Order[k] \in Ifaces
    BY <1>3 DEF ParentStep
  <2>2. pending' \in [Names -> Nat]
    <3>1. want.parent[Order[k]] # None =>
            /\ pending[Name[want.parent[Order[k]]]] \in Nat
            /\ prio[want.parent[Order[k]]] \in Nat
      BY <1>0, <2>1, NameIn
    <3>. QED
      BY <1>3, <2>1, <3>1, NameIn DEF ParentStep
  <2>. QED
    BY <1>3, <2>2 DEF ParentStep
<1>4. CASE ParentsDone
  BY <1>4 DEF ParentsDone
<1>5. CASE SetPriorities
  <2>1. prio' \in [Ifaces -> Nat] /\ pending' \in [Names -> Nat]
    BY <1>5, NameIn DEF SetPriorities, NoChanges
  <2>. QED
    BY <1>5, <2>1 DEF SetPriorities
<1>6. CASE UNCHANGED vars
  BY <1>6 DEF vars
<1>. QED
  BY <1>1, <1>2, <1>3, <1>4, <1>5, <1>6 DEF Next

LEMMA WantFacts ==
  ASSUME TypeOK
  PROVE  /\ want.ctrl \in [Ifaces -> Ifaces \cup {None}]
         /\ want.parent \in [Ifaces -> Kernel \cup {None}]
         /\ want.changed \subseteq Ifaces
         /\ \A i \in Ifaces : Led(i) => i \in Kernel /\ want.ctrl[i] \in Ifaces
BY OrderFacts DEF TypeOK, IsInput, Led

(* The first loop: the port that gets a priority had none, so that nobody  *)
(* relied on it, and its controller is done.                               *)
LEMMA ControllerStepPass ==
  ASSUME TypeOK, TypeOK', Plain, PassInv, ControllerStep PROVE PassInv'
<1>. DEFINE i == Order[k]
            c == want.ctrl[i]
            Looked == Active(i) /\ ~Valid(i) /\ c \in want.changed
            Known == pending[Name[c]] # 0 \/ Valid(c)
<1>0. /\ i \in Ifaces /\ k \in 1..Len(Order) /\ pc = "ctrl" /\ k' = k + 1
      /\ UNCHANGED <<want, pc, tries, prio>>
  BY OrderFacts DEF ControllerStep, TypeOK
<1>1. \A j \in Ifaces : /\ Led(j)' = Led(j) /\ Active(j)' = Active(j)
                        /\ Valid(j)' = Valid(j)
  BY <1>0 DEF Led, Active, Valid
<1>2. UserZero' /\ PortsSet' /\ AllHave' /\ PortAfterController'
  <2>1. UserZero'
    BY <1>0 DEF PassInv, UserZero
  <2>2. PortsSet'
    BY <1>0, <1>1, WantFacts DEF PassInv, PortsSet, Running
  <2>. QED
    BY <1>0, <2>1, <2>2 DEF AllHave, PortAfterController
<1>3. CASE ~(Looked /\ Known)
  <2>1. pending' = pending
    BY <1>3 DEF ControllerStep
  <2>2. PortsPending'
    BY <1>0, <1>1, <2>1, WantFacts, OrderFacts
       DEF PassInv, PortsPending, PendingAfter, Running
  <2>3. LaterEmpty'
    BY <1>0, <2>1, OrderFacts DEF PassInv, LaterEmpty
  <2>4. EarlierHave'
    <3>1. ASSUME ret', Led(i) PROVE Has(i)
      BY <1>0, <1>3, <3>1, Zenon DEF ControllerStep, Led, Has, Valid
    <3>2. ret' => ret
      BY Zenon DEF ControllerStep
    <3>. QED
      BY <1>0, <1>1, <2>1, <3>1, <3>2, OrderFacts
         DEF PassInv, EarlierHave, Has
  <2>. QED
    BY <1>2, <2>2, <2>3, <2>4 DEF PassInv
<1>4. CASE Looked /\ Known
  <2>0. /\ Led(i) /\ i \in Kernel /\ c \in Ifaces /\ prio[i] = 0
        /\ ~Valid(i) /\ ret' = ret
    BY <1>0, <1>4, WantFacts, OrderFacts
       DEF ControllerStep, Led, Valid
  <2>1. /\ pending' = [pending EXCEPT ![Name[i]] = PortPriority(i)]
        /\ Name[i] \in Names /\ Name[c] \in Names
    BY <1>0, <1>4, <2>0, NameIn DEF ControllerStep
  <2>2. /\ PortPriority(i) # 0 /\ PortPriority(i) \in Nat
        /\ pending[Name[c]] # 0 => PortPriority(i) > pending[Name[c]]
        /\ pending[Name[c]] = 0 => PortPriority(i) > prio[c]
    <3>1. pending[Name[c]] \in Nat /\ prio[c] \in Nat
      BY <2>0, <2>1 DEF TypeOK
    <3>2. PortPriority(i) =
            (IF pending[Name[c]] # 0 THEN pending[Name[c]] ELSE prio[c]) + 1
      BY Zenon DEF PortPriority
    <3>. QED
      BY <3>1, <3>2
  <2>3. pending[Name[i]] = 0
    BY <1>0, <2>0 DEF PassInv, LaterEmpty, TypeOK
  <2>4. \A j \in Kernel : j # i => Name[j] # Name[i]
    BY <2>0, OrderInjective
  <2>5. PortsPending'
    <3>. SUFFICES ASSUME NEW j \in Kernel, (pending[Name[j]] # 0)',
                         want.parent[j] = None
                  PROVE  Led(j) /\ prio[j] = 0 /\ PendingAfter(j)'
      BY <1>0, <1>1, OrderFacts DEF PortsPending
    <3>1. CASE j = i
      <4>1. CASE c \in Kernel
        <5>1. c # i
          BY <1>4, <2>0, <2>3
        <5>2. pending'[Name[c]] = pending[Name[c]]
          BY <2>1, <2>4, <4>1, <5>1 DEF TypeOK
        <5>. QED
          BY <1>0, <1>1, <1>4, <2>0, <2>1, <2>2, <3>1, <5>2
             DEF PendingAfter, TypeOK
      <4>. QED
        BY <1>0, <2>0, <3>1, <4>1 DEF PendingAfter
    <3>2. CASE j # i
      <4>1. pending'[Name[j]] = pending[Name[j]]
        BY <2>1, <2>4, <3>2, OrderFacts, NameIn DEF TypeOK
      <4>2. Led(j) /\ prio[j] = 0 /\ PendingAfter(j)
        BY <1>0, <4>1 DEF PassInv, PortsPending, Running
      <4>3. CASE want.ctrl[j] \notin Kernel
        BY <1>0, <4>2, <4>3 DEF PendingAfter
      <4>4. CASE want.ctrl[j] \in Kernel
        <5>1. want.ctrl[j] # i
          BY <2>0, <2>3, <4>2, <4>4 DEF PendingAfter
        <5>2. pending'[Name[want.ctrl[j]]] = pending[Name[want.ctrl[j]]]
          BY <2>1, <2>4, <4>4, <5>1, OrderFacts, NameIn DEF TypeOK
        <5>3. want.ctrl[j] \in Ifaces
          BY <4>4, OrderFacts
        <5>. QED
          BY <1>0, <1>1, <4>1, <4>2, <5>2, <5>3 DEF PendingAfter
      <4>. QED
        BY <4>3, <4>4
    <3>. QED
      BY <3>1, <3>2
  <2>6. LaterEmpty'
    <3>. SUFFICES ASSUME NEW m \in (k + 1)..Len(Order), Order[m] \in Kernel
                  PROVE  pending'[Name[Order[m]]] = 0
      BY <1>0 DEF LaterEmpty
    <3>1. m \in 1..Len(Order) /\ m \in k..Len(Order) /\ m # k
      BY <1>0, OrderFacts
    <3>2. Order[m] # i
      BY <1>0, <3>1, OrderInjective
    <3>. QED
      BY <1>0, <2>1, <2>4, <3>1, <3>2, OrderFacts, NameIn
         DEF PassInv, LaterEmpty, TypeOK
  <2>7. EarlierHave'
    <3>. SUFFICES ASSUME ret, NEW m \in 1..k, Led(Order[m])
                  PROVE  Has(Order[m])'
      BY <1>0, <1>1, <2>0, OrderFacts DEF EarlierHave
    <3>1. CASE m = k
      BY <2>1, <2>2, <3>1 DEF Has, TypeOK
    <3>2. CASE m # k
      <4>1. Has(Order[m]) /\ Order[m] \in Ifaces
        BY <1>0, <3>2, OrderFacts DEF PassInv, EarlierHave
      <4>. QED
        BY <1>0, <2>1, <2>2, <4>1, NameIn DEF Has, TypeOK
    <3>. QED
      BY <3>1, <3>2
  <2>. QED
    BY <1>2, <2>5, <2>6, <2>7 DEF PassInv
<1>. QED
  BY <1>3, <1>4

LEMMA ControllersDonePass ==
  ASSUME TypeOK, TypeOK', Plain, PassInv, ControllersDone PROVE PassInv'
<1>0. /\ pc = "ctrl" /\ pc' \in {"parent", "set"} /\ k > Len(Order)
      /\ UNCHANGED <<want, tries, ret, pending, prio>>
  BY DEF ControllersDone
<1>1. \A j \in Ifaces : /\ Led(j)' = Led(j) /\ Valid(j)' = Valid(j)
                        /\ Has(j)' = Has(j)
                        /\ PendingAfter(j)' = PendingAfter(j)
  BY <1>0 DEF Led, Active, Valid, Has, PendingAfter
<1>2. UserZero' /\ LaterEmpty' /\ EarlierHave' /\ PortAfterController'
  BY <1>0 DEF PassInv, UserZero, LaterEmpty, EarlierHave, PortAfterController
<1>3. PortsSet'
  BY <1>0, <1>1, WantFacts DEF PassInv, PortsSet, Running
<1>4. PortsPending'
  BY <1>0, <1>1, OrderFacts DEF PassInv, PortsPending, Running
<1>5. AllHave'
  <2>. SUFFICES ASSUME ret, NEW i \in Ifaces, Led(i) PROVE Has(i)
    BY <1>0, <1>1 DEF AllHave
  <2>1. PICK m \in 1..Len(Order) : Order[m] = i
    BY OrderInjective
  <2>2. m \in 1..(k - 1)
    BY <1>0, OrderFacts DEF TypeOK
  <2>. QED
    BY <1>0, <2>1, <2>2 DEF PassInv, EarlierHave
<1>. QED
  BY <1>2, <1>3, <1>4, <1>5 DEF PassInv

(* The second loop: only children change, and in a plain state no          *)
(* controller and no port of a kernel controller is one.                   *)
LEMMA ParentStepPass ==
  ASSUME TypeOK, TypeOK', Plain, PassInv, ParentStep PROVE PassInv'
<1>. DEFINE i == Order[k]
            p == want.parent[i]
<1>0. /\ i \in Ifaces /\ pc = "parent" /\ pc' = "parent"
      /\ UNCHANGED <<want, tries, ret, prio>>
  BY OrderFacts DEF ParentStep, TypeOK
<1>1. \A j \in Ifaces : Led(j)' = Led(j) /\ Valid(j)' = Valid(j)
  BY <1>0 DEF Led, Active, Valid
<1>2. UserZero' /\ LaterEmpty' /\ EarlierHave' /\ PortAfterController'
  BY <1>0 DEF PassInv, UserZero, LaterEmpty, EarlierHave, PortAfterController
<1>3. PortsSet'
  BY <1>0, <1>1, WantFacts DEF PassInv, PortsSet, Running
<1>4. CASE pending' = pending
  <2>1. \A j \in Ifaces : /\ Has(j)' = Has(j)
                          /\ PendingAfter(j)' = PendingAfter(j)
    BY <1>0, <1>4 DEF Has, PendingAfter, Valid
  <2>2. PortsPending'
    BY <1>0, <1>1, <1>4, <2>1, OrderFacts DEF PassInv, PortsPending, Running
  <2>3. AllHave'
    BY <1>0, <1>1, <2>1 DEF PassInv, AllHave
  <2>. QED
    BY <1>2, <1>3, <2>2, <2>3 DEF PassInv
<1>5. CASE pending' # pending
  <2>1. PICK v \in Nat : /\ pending' = [pending EXCEPT ![Name[i]] = v]
                         /\ v # 0
    <3>1. p # None
      BY <1>5 DEF ParentStep
    <3>2. p \in Ifaces
      BY <1>0, <3>1, WantFacts, OrderFacts
    <3>3. \/ pending' = [pending EXCEPT ![Name[i]] = pending[Name[p]] + 1]
          \/ pending' = [pending EXCEPT ![Name[i]] = prio[p] + 1]
      BY <1>5 DEF ParentStep
    <3>4. pending[Name[p]] \in Nat /\ prio[p] \in Nat
      BY <3>2, NameIn DEF TypeOK
    <3>. QED
      BY <3>3, <3>4
  <2>2. p # None /\ i \in Kernel /\ Name[i] \in Names
    BY <1>0, <1>5, NameIn, OrderFacts DEF ParentStep, TypeOK, IsInput
  <2>3. \A j \in Ifaces : want.ctrl[j] # i
    BY <1>0, <2>2 DEF Plain
  <2>4. \A j \in Kernel : j # i => pending'[Name[j]] = pending[Name[j]]
    BY <2>1, <2>2, OrderInjective, OrderFacts, NameIn DEF TypeOK
  <2>5. PortsPending'
    <3>. SUFFICES ASSUME NEW j \in Kernel, pending'[Name[j]] # 0,
                         want.parent[j] = None
                  PROVE  Led(j) /\ prio[j] = 0 /\ PendingAfter(j)'
      BY <1>0, <1>1, OrderFacts DEF PortsPending
    <3>1. j # i /\ j \in Ifaces
      BY <2>2, OrderFacts
    <3>2. Led(j) /\ prio[j] = 0 /\ PendingAfter(j)
      BY <1>0, <2>4, <3>1 DEF PassInv, PortsPending, Running
    <3>3. CASE want.ctrl[j] \notin Kernel
      BY <1>0, <3>2, <3>3 DEF PendingAfter
    <3>4. CASE want.ctrl[j] \in Kernel
      <4>1. /\ want.ctrl[j] \in Ifaces
            /\ pending'[Name[want.ctrl[j]]] = pending[Name[want.ctrl[j]]]
        BY <2>3, <2>4, <3>1, <3>4, OrderFacts
      <4>. QED
        BY <1>0, <1>1, <2>4, <3>1, <3>2, <4>1 DEF PendingAfter
    <3>. QED
      BY <3>2, <3>3, <3>4
  <2>6. AllHave'
    BY <1>0, <1>1, <2>1, <2>2, NameIn DEF PassInv, AllHave, Has, TypeOK
  <2>. QED
    BY <1>2, <1>3, <2>5, <2>6 DEF PassInv
<1>. QED
  BY <1>4, <1>5

LEMMA ParentsDonePass ==
  ASSUME TypeOK, TypeOK', Plain, PassInv, ParentsDone PROVE PassInv'
<1>0. /\ pc = "parent" /\ pc' = "set"
      /\ UNCHANGED <<want, tries, k, ret, pending, prio>>
  BY DEF ParentsDone
<1>1. \A j \in Ifaces : /\ Led(j)' = Led(j) /\ Valid(j)' = Valid(j)
                        /\ Has(j)' = Has(j)
                        /\ PendingAfter(j)' = PendingAfter(j)
  BY <1>0 DEF Led, Active, Valid, Has, PendingAfter
<1>2. UserZero' /\ LaterEmpty' /\ EarlierHave' /\ PortAfterController'
  BY <1>0 DEF PassInv, UserZero, LaterEmpty, EarlierHave, PortAfterController
<1>3. PortsSet' /\ AllHave'
  BY <1>0, <1>1, WantFacts DEF PassInv, PortsSet, AllHave, Running
<1>4. PortsPending'
  BY <1>0, <1>1, OrderFacts DEF PassInv, PortsPending, Running
<1>. QED
  BY <1>2, <1>3, <1>4 DEF PassInv

(* The end of a pass: a port and its controller get their priorities       *)
(* together, or the controller had its own before.                         *)
LEMMA SetPrioritiesPass ==
  ASSUME TypeOK, TypeOK', Plain, PassInv, SetPriorities PROVE PassInv'
<1>0. /\ pc = "set" /\ pc' \in {"ok", "err", "ctrl"} /\ k' = 1
      /\ pc' = "ok" => ret
      /\ want' = want /\ pending' = NoChanges
      /\ \A i \in Ifaces :
           prio'[i] = IF i \in Kernel /\ i \in want.changed /\ pending[Name[i]] # 0
                      THEN pending[Name[i]] ELSE prio[i]
  BY DEF SetPriorities
<1>1. \A i \in Ifaces : Led(i)' = Led(i) /\ Active(i)' = Active(i)
  BY <1>0 DEF Led, Active
<1>2. UserZero'
  BY <1>0 DEF PassInv, UserZero
<1>3. \A i \in Kernel : pending'[Name[i]] = 0
  BY <1>0, NameIn, OrderFacts DEF NoChanges
<1>4. PortsPending' /\ LaterEmpty' /\ EarlierHave' /\ AllHave'
  BY <1>0, <1>3, OrderFacts
     DEF PortsPending, LaterEmpty, EarlierHave, AllHave
<1>5. ASSUME NEW i \in Ifaces, Led(i), prio[i] # 0 \/ pending[Name[i]] # 0
      PROVE  prio'[i] > prio'[want.ctrl[i]] /\ Valid(want.ctrl[i])'
  <2>. DEFINE c == want.ctrl[i]
  <2>0. /\ i \in Kernel /\ i \in want.changed /\ c \in want.changed
        /\ c \in Ifaces /\ c # None
        /\ prio[i] \in Nat /\ prio[c] \in Nat /\ pending[Name[i]] \in Nat
        /\ c \in Kernel => want.parent[i] = None
        /\ want.parent[c] = None
    <3>1. i \in Kernel /\ c \in Ifaces /\ c # None
      BY <1>5, WantFacts, OrderFacts
    <3>2. (c \in Kernel => want.parent[i] = None) /\ want.parent[c] = None
      BY <1>5, <3>1 DEF Plain, Led
    <3>. QED
      BY <1>5, <3>1, <3>2, NameIn DEF Led, Active, TypeOK
  <2>1. CASE pending[Name[i]] # 0
    <3>1. c \in Kernel => PendingAfter(i)
      BY <1>0, <2>0, <2>1 DEF PassInv, PortsPending, Running
    <3>2. CASE c \notin Kernel
      <4>1. prio'[c] = 0 /\ want.ctrl[c] = None
        BY <1>2, <2>0, <3>2 DEF UserZero, TypeOK, IsInput
      <4>. QED
        BY <1>0, <2>0, <2>1, <4>1 DEF Valid
    <3>3. CASE c \in Kernel
      <4>1. prio'[i] = pending[Name[i]] /\ pending[Name[c]] \in Nat
        BY <1>0, <2>0, <2>1, NameIn DEF TypeOK
      <4>2. prio'[c] = IF pending[Name[c]] # 0 THEN pending[Name[c]] ELSE prio[c]
        BY <1>0, <2>0, <3>3
      <4>3. \/ pending[Name[c]] # 0 /\ pending[Name[i]] > pending[Name[c]]
            \/ pending[Name[c]] = 0 /\ Valid(c) /\ pending[Name[i]] > prio[c]
        BY <3>1, <3>3 DEF PendingAfter
      <4>. QED
        BY <1>0, <2>0, <4>1, <4>2, <4>3 DEF Valid
    <3>. QED
      BY <3>2, <3>3
  <2>2. CASE pending[Name[i]] = 0
    <3>1. prio[i] > prio[c] /\ Valid(c)
      BY <1>0, <1>5, <2>2 DEF PassInv, PortsSet, Running
    <3>2. CASE c \in Kernel /\ pending[Name[c]] # 0
      <4>1. Led(c) /\ prio[c] = 0
        BY <1>0, <2>0, <3>2 DEF PassInv, PortsPending, Running
      <4>. QED
        BY <3>1, <4>1 DEF Valid, Led
    <3>3. CASE ~(c \in Kernel /\ pending[Name[c]] # 0)
      BY <1>0, <2>0, <2>2, <3>1, <3>3 DEF Valid
    <3>. QED
      BY <3>2, <3>3
  <2>. QED
    BY <2>1, <2>2
<1>6. PortsSet'
  BY <1>0, <1>1, <1>5, WantFacts DEF PortsSet
<1>7. PortAfterController'
  <2>. SUFFICES ASSUME pc' = "ok", NEW i \in Ifaces, Active(i),
                       want.ctrl[i] \in want.changed
                PROVE  prio'[i] > prio'[want.ctrl[i]]
    BY <1>0, <1>1 DEF PortAfterController
  <2>1. Led(i)
    BY WantFacts, OrderFacts DEF Led
  <2>2. Has(i)
    BY <1>0, <2>1 DEF PassInv, AllHave
  <2>. QED
    BY <1>5, <2>1, <2>2 DEF Has
<1>. QED
  BY <1>2, <1>4, <1>6, <1>7 DEF PassInv

LEMMA UpStep == UpInv /\ [Next]_vars => UpInv'
<1>. SUFFICES ASSUME UpInv, [Next]_vars PROVE UpInv'
  OBVIOUS
<1>1. TypeOK /\ TypeOK'
  BY SMTT(30), TypeStep DEF UpInv
<1>2. Plain' = Plain
  BY DEF Next, ControllerStep, ControllersDone, ParentStep, ParentsDone,
         SetPriorities, vars, Plain
<1>3. ASSUME Plain PROVE PassInv'
  <2>1. CASE UNCHANGED vars
    BY <1>1, <1>3, <2>1
       DEF vars, UpInv, PassInv, UserZero, PortsSet, PortsPending, LaterEmpty,
           EarlierHave, AllHave, PortAfterController, Led, Active, Valid, Has,
           PendingAfter, Running, Plain
  <2>. QED
    BY <1>1, <1>3, <2>1, ControllerStepPass, ControllersDonePass,
       ParentStepPass, ParentsDonePass, SetPrioritiesPass DEF Next, UpInv
<1>. QED
  BY <1>1, <1>2, <1>3 DEF UpInv

(* Every variable of the two loops keeps its type; no more than MaxRetry   *)
(* passes are made.                                                        *)
THEOREM PriorityTypes == Spec => []TypeOK
<1>1. Init => TypeOK
  BY InitUp DEF UpInv
<1>. QED
  BY <1>1, TypeStep, PTL DEF Spec

(* When set_ifaces_up_priority() succeeds, every port of an OVS bridge and *)
(* every port without a parent is brought up after its controller, for any *)
(* number of interfaces nested in any way and listed in any order.         *)
THEOREM PortsFollowControllers == Spec => []PortAfterController
<1>1. UpInv => PortAfterController
  BY DEF UpInv, PassInv, PortAfterController
<1>. QED
  BY InitUp, UpStep, <1>1, PTL DEF Spec

-----------------------------------------------------------------------------
(* Children.                                                               *)

(* A child that is looked at after its parent. *)
Child(i) ==
  /\ Active(i) /\ want.parent[i] \in want.changed
  /\ Before(want.parent[i], i)

(* Its pending priority follows the one its parent will have, if any. *)
Follows(i) ==
  LET p == want.parent[i] IN
  pending[Name[p]] # 0 \/ Valid(p) =>
    pending[Name[i]] > (IF pending[Name[p]] # 0 THEN pending[Name[p]] ELSE prio[p])

(* The inductive invariant: the children behind the second loop follow     *)
(* their parents, and so do all once it is done.                           *)
ChildrenSoFar ==
  pc = "parent" => \A m \in 1..(k - 1) : Child(Order[m]) => Follows(Order[m])
ChildrenAll == pc = "set" /\ ret => \A i \in Ifaces : Child(i) => Follows(i)
ChildInv == ChildrenSoFar /\ ChildrenAll /\ ChildAfterParent

(* A child and its parent are kernel interfaces, and different ones. *)
LEMMA ChildFacts ==
  ASSUME TypeOK, NEW i \in Ifaces, Child(i)
  PROVE  /\ i \in Kernel /\ want.parent[i] \in Kernel
         /\ want.parent[i] \in want.changed /\ i \in want.changed
         /\ Name[i] # Name[want.parent[i]]
<1>1. want.parent[i] \in Ifaces /\ want.parent[i] # None
  BY WantFacts, OrderFacts DEF Child
<1>2. i \in Kernel /\ want.parent[i] \in Kernel
  BY <1>1, WantFacts DEF TypeOK, IsInput
<1>3. i # want.parent[i]
  BY OrderInjective DEF Child, Before
<1>. QED
  BY <1>2, <1>3, OrderInjective DEF Child, Active

(* What the second loop does to its interface touches no other. *)
LEMMA ParentStepTouches ==
  ASSUME TypeOK, ParentStep, NEW j \in Kernel, j # Order[k]
  PROVE  pending'[Name[j]] = pending[Name[j]]
<1>1. CASE pending' = pending
  BY <1>1
<1>2. CASE pending' # pending
  <2>1. Order[k] \in Ifaces /\ want.parent[Order[k]] # None
    BY <1>2, OrderFacts DEF ParentStep, TypeOK
  <2>2. Order[k] \in Kernel
    BY <2>1 DEF TypeOK, IsInput
  <2>3. \E v : pending' = [pending EXCEPT ![Name[Order[k]]] = v]
    BY SMTT(30), <1>2 DEF ParentStep
  <2>. QED
    BY <2>2, <2>3, OrderInjective, OrderFacts, NameIn DEF TypeOK
<1>. QED
  BY <1>1, <1>2

(* The second loop: the interface it is at follows its parent, which it    *)
(* has passed, as it has the parents of those behind it.                   *)
LEMMA ParentStepChild ==
  ASSUME TypeOK, TypeOK', ChildInv, ParentStep PROVE ChildInv'
<1>0. /\ Order[k] \in Ifaces /\ k \in 1..Len(Order) /\ k' = k + 1
      /\ pc = "parent" /\ pc' = "parent"
      /\ UNCHANGED <<want, tries, ret, prio>>
  BY OrderFacts DEF ParentStep, TypeOK
<1>1. ASSUME NEW m \in 1..k, Child(Order[m]) PROVE Follows(Order[m])'
  <2>. DEFINE i == Order[m]
              p == want.parent[i]
  <2>1. i \in Ifaces /\ m \in 1..Len(Order)
    BY <1>0, OrderFacts
  <2>2. /\ i \in Kernel /\ p \in Kernel /\ p \in want.changed
        /\ Name[i] # Name[p] /\ Active(i)
    BY <1>1, <2>1, ChildFacts DEF Child
  <2>3. p # Order[k]
    <3>1. PICK a, b \in 1..Len(Order) : a < b /\ Order[a] = p /\ Order[b] = i
      BY <1>1 DEF Child, Before
    <3>2. b = m
      BY <2>1, <3>1, OrderInjective
    <3>. QED
      BY <1>0, <2>1, <3>1, <3>2, OrderInjective
  <2>4. pending'[Name[p]] = pending[Name[p]]
    BY <2>2, <2>3, ParentStepTouches
  <2>5. Valid(p)' = Valid(p)
    BY <1>0 DEF Valid
  <2>6. CASE m = k
    <3>1. p # None /\ pending[Name[p]] \in Nat /\ prio[p] \in Nat
      BY SMTT(30), <2>2, OrderFacts, NameIn DEF TypeOK
    <3>2. CASE pending[Name[p]] # 0
      <4>1. pending' = [pending EXCEPT ![Name[i]] = pending[Name[p]] + 1]
        BY <2>2, <2>6, <3>1, <3>2 DEF ParentStep
      <4>2. pending'[Name[i]] = pending[Name[p]] + 1
        BY <2>1, <4>1, NameIn DEF TypeOK
      <4>. QED
        BY <1>0, <2>4, <3>1, <3>2, <4>2 DEF Follows
    <3>3. CASE pending[Name[p]] = 0 /\ Valid(p)
      <4>1. pending' = [pending EXCEPT ![Name[i]] = prio[p] + 1]
        BY <2>2, <2>6, <3>1, <3>3 DEF ParentStep
      <4>2. pending'[Name[i]] = prio[p] + 1
        BY <2>1, <4>1, NameIn DEF TypeOK
      <4>. QED
        BY <1>0, <2>4, <3>1, <3>3, <4>2 DEF Follows
    <3>4. CASE pending[Name[p]] = 0 /\ ~Valid(p)
      BY <1>0, <2>4, <2>5, <3>4 DEF Follows
    <3>. QED
      BY <3>2, <3>3, <3>4
  <2>7. CASE m # k
    <3>1. i # Order[k]
      BY <1>0, <2>1, <2>7, OrderInjective
    <3>2. pending'[Name[i]] = pending[Name[i]]
      BY <2>2, <3>1, ParentStepTouches
    <3>3. Follows(i)
      BY <1>0, <1>1, <2>7 DEF ChildInv, ChildrenSoFar
    <3>. QED
      BY <1>0, <2>4, <2>5, <3>2, <3>3 DEF Follows
  <2>. QED
    BY <2>6, <2>7
<1>2. \A m \in 1..k : Child(Order[m])' = Child(Order[m])
  BY <1>0 DEF Child, Active
<1>3. ChildrenSoFar'
  <2>1. (k + 1) - 1 = k
    BY <1>0
  <2>. QED
    BY <1>0, <1>1, <1>2, <2>1 DEF ChildrenSoFar
<1>. QED
  BY <1>0, <1>3 DEF ChildInv, ChildrenAll, ChildAfterParent

LEMMA ParentsDoneChild ==
  ASSUME TypeOK, TypeOK', ChildInv, ParentsDone PROVE ChildInv'
<1>0. /\ pc = "parent" /\ pc' = "set" /\ k > Len(Order)
      /\ UNCHANGED <<want, tries, k, ret, pending, prio>>
  BY DEF ParentsDone
<1>1. ASSUME NEW i \in Ifaces, Child(i) PROVE Follows(i)
  <2>1. PICK m \in 1..Len(Order) : Order[m] = i
    BY OrderInjective
  <2>2. m \in 1..(k - 1)
    BY <1>0, OrderFacts DEF TypeOK
  <2>. QED
    BY <1>0, <1>1, <2>1, <2>2 DEF ChildInv, ChildrenSoFar
<1>2. \A i \in Ifaces : Child(i)' = Child(i) /\ Follows(i)' = Follows(i)
  BY <1>0 DEF Child, Active, Follows, Valid
<1>. QED
  BY <1>0, <1>1, <1>2 DEF ChildInv, ChildrenSoFar, ChildrenAll, ChildAfterParent

(* The end of a pass: a child and its parent get their priorities          *)
(* together, or the parent keeps the one the child follows.                *)
LEMMA SetPrioritiesChild ==
  ASSUME TypeOK, TypeOK', ChildInv, SetPriorities PROVE ChildInv'
<1>0. /\ pc = "set" /\ pc' \in {"ok", "err", "ctrl"}
      /\ pc' = "ok" => ret
      /\ want' = want
      /\ \A i \in Ifaces :
           prio'[i] = IF i \in Kernel /\ i \in want.changed /\ pending[Name[i]] # 0
                      THEN pending[Name[i]] ELSE prio[i]
  BY DEF SetPriorities
<1>1. ChildAfterParent'
  <2>. SUFFICES ASSUME pc' = "ok", NEW i \in Ifaces, Child(i),
                       Valid(want.parent[i])'
                PROVE  prio'[i] > prio'[want.parent[i]]
    BY <1>0 DEF ChildAfterParent, Child, Active
  <2>. DEFINE p == want.parent[i]
  <2>1. /\ i \in Kernel /\ p \in Kernel /\ p \in want.changed
        /\ i \in want.changed /\ p \in Ifaces
    BY ChildFacts, OrderFacts
  <2>2. Follows(i)
    BY <1>0 DEF ChildInv, ChildrenAll
  <2>3. /\ pending[Name[i]] \in Nat /\ pending[Name[p]] \in Nat
        /\ prio[p] \in Nat /\ prio[i] \in Nat
    BY <2>1, NameIn DEF TypeOK
  <2>4. prio'[p] = IF pending[Name[p]] # 0 THEN pending[Name[p]] ELSE prio[p]
    BY <1>0, <2>1
  <2>5. pending[Name[p]] # 0 \/ Valid(p)
    BY <1>0, <2>4 DEF Valid
  <2>6. pending[Name[i]] > prio'[p]
    BY <2>2, <2>4, <2>5 DEF Follows
  <2>7. prio'[i] = pending[Name[i]]
    BY <1>0, <2>1, <2>3, <2>4, <2>6
  <2>. QED
    BY <2>6, <2>7
<1>. QED
  BY <1>0, <1>1 DEF ChildInv, ChildrenSoFar, ChildrenAll

(* The first loop sets up nothing about children. *)
LEMMA ControllersChild ==
  ASSUME TypeOK, TypeOK', ChildInv, ControllerStep \/ ControllersDone
  PROVE  ChildInv'
<1>1. CASE ControllerStep
  BY <1>1 DEF ControllerStep, ChildInv, ChildrenSoFar, ChildrenAll,
              ChildAfterParent
<1>2. CASE ControllersDone
  <2>1. k' = 1 /\ (pc' = "set" => ~ret') /\ pc' \in {"parent", "set"}
    BY <1>2 DEF ControllersDone
  <2>. QED
    BY <2>1 DEF ChildInv, ChildrenSoFar, ChildrenAll, ChildAfterParent
<1>. QED
  BY <1>1, <1>2

(* When set_ifaces_up_priority() succeeds, every child listed after its    *)
(* parent is brought up after it, for any interfaces and any nesting; that *)
(* holds even for the ports PortAfterController leaves out.                *)
THEOREM ChildrenFollowParents == Spec => []ChildAfterParent
<1>1. Init => TypeOK /\ ChildInv
  BY InitUp DEF UpInv, Init, ChildInv, ChildrenSoFar, ChildrenAll,
                ChildAfterParent
<1>2. TypeOK /\ ChildInv /\ [Next]_vars => TypeOK' /\ ChildInv'
  <2>. SUFFICES ASSUME TypeOK, ChildInv, [Next]_vars PROVE TypeOK' /\ ChildInv'
    OBVIOUS
  <2>1. TypeOK'
    BY SMTT(30), TypeStep
  <2>2. CASE UNCHANGED vars
    BY <2>1, <2>2
       DEF vars, ChildInv, ChildrenSoFar, ChildrenAll, ChildAfterParent,
           Child, Active, Follows, Valid
  <2>. QED
    BY <2>1, <2>2, ControllersChild, ParentStepChild, ParentsDoneChild,
       SetPrioritiesChild DEF Next
<1>3. ChildInv => ChildAfterParent
  BY DEF ChildInv
<1>. QED
  BY <1>1, <1>2, <1>3, PTL DEF Spec

-----------------------------------------------------------------------------
(* Nesting.                                                                *)

(* A bound on the controllers above each interface that is brought up. *)
Ranks(d) ==
  \A i \in Ifaces : Active(i) /\ want.ctrl[i] # None => d[want.ctrl[i]] < d[i]

(* The interface has a valid priority, or will have when the pass ends. *)
Settled(i) == Valid(i) \/ pending[Name[i]] # 0

(* The inductive invariant.  Each pass reaches one level further down; and *)
(* where controllers come first in the order, the first pass reaches all.  *)
LevelsValid(d) == \A i \in Ifaces : Active(i) /\ d[i] <= tries => Valid(i)
LevelsSoFar(d) ==
  pc = "ctrl" => \A m \in 1..(k - 1) :
    Active(Order[m]) /\ d[Order[m]] <= tries + 1 => Settled(Order[m])
LevelsAll(d) ==
  pc \in {"parent", "set"} => \A i \in Ifaces :
    Active(i) /\ d[i] <= tries + 1 => Settled(i)
LastPass == tries = MaxRetry - 1 => ret
LevelInv(d) ==
  /\ pc # "err"
  /\ Running => LevelsValid(d) /\ LevelsSoFar(d) /\ LevelsAll(d) /\ LastPass
OrderInv ==
  /\ pc # "err"
  /\ Running => ret
  /\ pc = "ctrl" => \A m \in 1..(k - 1) : Active(Order[m]) => Settled(Order[m])

Depths == [Ifaces -> 0..MaxRetry]
NestInv ==
  Closed => /\ \A d \in Depths : Ranks(d) => LevelInv(d)
            /\ Ordered => OrderInv

(* In a closed state the first loop looks at every port without a valid    *)
(* priority, and gives it one if its controller is settled.                *)
LEMMA LookedAt ==
  ASSUME TypeOK, Closed, ControllerStep, NEW i \in Ifaces, i = Order[k],
         Active(i), ~Valid(i)
  PROVE  /\ want.ctrl[i] \in Ifaces /\ want.ctrl[i] # None
         /\ Active(want.ctrl[i])
         /\ Settled(want.ctrl[i]) => Settled(i)' /\ ret' = ret
<1>. DEFINE c == want.ctrl[i]
<1>1. c \in Ifaces /\ c # None /\ Active(c)
  BY WantFacts, OrderFacts DEF Closed, Valid
<1>2. ASSUME Settled(c) PROVE Settled(i)' /\ ret' = ret
  <2>1. /\ pending' = [pending EXCEPT ![Name[i]] = PortPriority(i)]
        /\ ret' = ret
    BY <1>1, <1>2 DEF ControllerStep, Settled, Active
  <2>2. PortPriority(i) # 0
    <3>1. pending[Name[c]] \in Nat /\ prio[c] \in Nat
      BY <1>1, NameIn DEF TypeOK
    <3>2. PortPriority(i) =
            (IF pending[Name[c]] # 0 THEN pending[Name[c]] ELSE prio[c]) + 1
      BY Zenon DEF PortPriority
    <3>. QED
      BY <3>1, <3>2
  <2>. QED
    BY <2>1, <2>2, NameIn DEF Settled, TypeOK
<1>. QED
  BY <1>1, <1>2

(* Both loops are at one of the interfaces. *)
LEMMA StepPlace ==
  ASSUME TypeOK, ControllerStep \/ ParentStep
  PROVE  /\ k \in 1..Len(Order) /\ Order[k] \in Ifaces
         /\ k' = k + 1 /\ UNCHANGED <<want, pc, tries, prio>>
<1>1. k <= Len(Order) /\ k' = k + 1 /\ UNCHANGED <<want, pc, tries, prio>>
  BY Zenon DEF ControllerStep, ParentStep
<1>2. k \in Nat \ {0}
  BY SMTT(30) DEF TypeOK
<1>3. k \in 1..Len(Order)
  BY SMTT(30), <1>1, <1>2, OrderFacts
<1>. QED
  BY Zenon, <1>1, <1>3, OrderFacts

(* What is settled stays so to the end of the pass. *)
LEMMA SettledStays ==
  ASSUME TypeOK, ControllerStep \/ ParentStep, NEW i \in Ifaces, Settled(i)
  PROVE  Settled(i)'
<1>1. Valid(i)' = Valid(i)
  BY DEF ControllerStep, ParentStep, Valid
<1>2. ASSUME pending[Name[i]] # 0 PROVE pending'[Name[i]] # 0
  <2>1. Order[k] \in Ifaces
    BY Zenon, StepPlace
  <2>2. \/ pending' = pending
        \/ \E v \in Nat \ {0} : pending' = [pending EXCEPT ![Name[Order[k]]] = v]
    <3>1. CASE ControllerStep
      <4>1. CASE pending' # pending
        <5>1. /\ pending' = [pending EXCEPT ![Name[Order[k]]] = PortPriority(Order[k])]
              /\ want.ctrl[Order[k]] \in Ifaces
          BY <3>1, <4>1, WantFacts DEF ControllerStep
        <5>2. /\ pending[Name[want.ctrl[Order[k]]]] \in Nat
              /\ prio[want.ctrl[Order[k]]] \in Nat
          BY <5>1, NameIn DEF TypeOK
        <5>3. PortPriority(Order[k]) \in Nat \ {0}
          BY <5>2 DEF PortPriority
        <5>. QED
          BY Zenon, <5>1, <5>3
      <4>. QED
        BY <4>1
    <3>2. CASE ParentStep
      <4>1. CASE pending' # pending
        <5>1. want.parent[Order[k]] \in Ifaces
          BY <2>1, <3>2, <4>1, WantFacts, OrderFacts DEF ParentStep
        <5>2. /\ pending[Name[want.parent[Order[k]]]] \in Nat
              /\ prio[want.parent[Order[k]]] \in Nat
          BY <5>1, NameIn DEF TypeOK
        <5>3. \E v : /\ pending' = [pending EXCEPT ![Name[Order[k]]] = v]
                     /\ v \in {pending[Name[want.parent[Order[k]]]] + 1,
                               prio[want.parent[Order[k]]] + 1}
          BY Zenon, <3>2, <4>1 DEF ParentStep
        <5>4. \A v \in {pending[Name[want.parent[Order[k]]]] + 1,
                        prio[want.parent[Order[k]]] + 1} : v \in Nat \ {0}
          BY SMTT(30), <5>2
        <5>. QED
          BY Zenon, <5>3, <5>4
      <4>. QED
        BY <4>1
    <3>. QED
      BY <3>1, <3>2
  <2>. QED
    BY <1>2, <2>2, NameIn DEF TypeOK
<1>. QED
  BY <1>1, <1>2 DEF Settled

(* The end of a pass makes the settled priorities valid. *)
LEMMA SettledSet ==
  ASSUME TypeOK, SetPriorities, NEW i \in Ifaces, Active(i), Settled(i)
  PROVE  Valid(i)'
<1>1. CASE want.ctrl[i] = None
  BY <1>1 DEF SetPriorities, Valid
<1>2. CASE want.ctrl[i] # None
  <2>1. i \in Kernel /\ i \in want.changed
    BY <1>2 DEF TypeOK, IsInput, Active
  <2>2. prio'[i] = IF pending[Name[i]] # 0 THEN pending[Name[i]] ELSE prio[i]
    BY <2>1 DEF SetPriorities
  <2>3. want' = want
    BY DEF SetPriorities
  <2>. QED
    BY <1>2, <2>2, <2>3 DEF Settled, Valid
<1>. QED
  BY <1>1, <1>2

LEMMA OrderInvStep ==
  ASSUME TypeOK, Closed, Ordered, OrderInv, Next PROVE OrderInv'
<1>1. CASE ControllerStep
  <2>0. /\ Order[k] \in Ifaces /\ k \in 1..Len(Order) /\ k' = k + 1
        /\ pc = "ctrl" /\ pc' = "ctrl" /\ UNCHANGED <<want, prio>>
    BY <1>1, OrderFacts DEF ControllerStep, TypeOK
  <2>1. ASSUME NEW i \in Ifaces, i = Order[k], Active(i)
        PROVE  Settled(i)' /\ ret'
    <3>1. CASE Valid(i)
      <4>1. ret' = ret
        BY <1>1, <2>1, <3>1 DEF ControllerStep
      <4>2. Settled(i)'
        BY <2>0, <3>1 DEF Settled, Valid
      <4>. QED
        BY <2>0, <4>1, <4>2 DEF OrderInv, Running
    <3>2. CASE ~Valid(i)
      <4>. DEFINE c == want.ctrl[i]
      <4>1. c \in Ifaces /\ c # None /\ Active(c)
        BY <1>1, <2>1, <3>2, LookedAt
      <4>2. PICK a, b \in 1..Len(Order) :
              a < b /\ Order[a] = c /\ Order[b] = i
        BY <2>0, <2>1, <4>1 DEF Ordered, Before
      <4>3. a \in 1..(k - 1)
        BY <2>0, <2>1, <4>2, OrderInjective
      <4>4. Settled(c)
        BY <2>0, <4>1, <4>2, <4>3 DEF OrderInv
      <4>. QED
        BY Zenon, <1>1, <2>0, <2>1, <3>2, <4>4, LookedAt DEF OrderInv, Running
    <3>. QED
      BY <3>1, <3>2
  <2>2. ASSUME ~Active(Order[k]) PROVE ret'
    <3>1. ret' = ret
      BY <1>1, <2>2 DEF ControllerStep
    <3>. QED
      BY <2>0, <3>1 DEF OrderInv, Running
  <2>3. ASSUME NEW m \in 1..k, Active(Order[m]) PROVE Settled(Order[m])'
    <3>1. CASE m = k
      BY <2>0, <2>1, <2>3, <3>1
    <3>2. CASE m # k
      <4>1. Settled(Order[m]) /\ Order[m] \in Ifaces
        BY <2>0, <2>3, <3>2, OrderFacts DEF OrderInv
      <4>. QED
        BY <1>1, <4>1, SettledStays
    <3>. QED
      BY <3>1, <3>2
  <2>4. \A m \in 1..k : Active(Order[m])' = Active(Order[m])
    BY <2>0 DEF Active
  <2>5. (k + 1) - 1 = k
    BY <2>0
  <2>. QED
    BY <2>0, <2>1, <2>2, <2>3, <2>4, <2>5 DEF OrderInv
<1>2. CASE ControllersDone \/ ParentStep \/ ParentsDone
  BY <1>2 DEF ControllersDone, ParentStep, ParentsDone, OrderInv, Running
<1>3. CASE SetPriorities
  BY <1>3 DEF SetPriorities, OrderInv, Running
<1>. QED
  BY <1>1, <1>2, <1>3 DEF Next

(* Each pass settles the next level, because the level above it is valid   *)
(* when the pass starts.                                                   *)
LEMMA LevelInvStep ==
  ASSUME TypeOK, TypeOK', Closed, NEW d \in Depths, Ranks(d), LevelInv(d), Next
  PROVE  LevelInv(d)'
<1>. USE DEF Running
<1>0. \A i \in Ifaces : d[i] \in 0..MaxRetry
  BY DEF Depths
<1>1. CASE ControllerStep
  <2>0. /\ Order[k] \in Ifaces /\ k \in 1..Len(Order) /\ k' = k + 1
        /\ pc = "ctrl" /\ pc' = "ctrl" /\ UNCHANGED <<want, prio, tries>>
        /\ tries \in Nat /\ tries < MaxRetry
    <3>1. pc = "ctrl"
      BY Zenon, <1>1 DEF ControllerStep
    <3>2. tries \in Nat /\ tries < MaxRetry
      BY SMTT(30), <3>1, OrderFacts DEF TypeOK
    <3>. QED
      BY Zenon, <1>1, <3>1, <3>2, StepPlace
  <2>1. ASSUME NEW i \in Ifaces, i = Order[k], Active(i), d[i] <= tries + 1
        PROVE  Settled(i)' /\ ret' = ret
    <3>1. CASE Valid(i)
      BY <1>1, <2>0, <2>1, <3>1 DEF ControllerStep, Settled, Valid
    <3>2. CASE ~Valid(i)
      <4>. DEFINE c == want.ctrl[i]
      <4>1. c \in Ifaces /\ c # None /\ Active(c)
        BY <1>1, <2>1, <3>2, LookedAt
      <4>2. d[c] < d[i]
        BY <2>0, <2>1, <4>1 DEF Ranks
      <4>3. d[c] <= tries
        BY <1>0, <2>0, <2>1, <4>1, <4>2
      <4>4. Settled(c)
        BY <2>0, <4>1, <4>3 DEF LevelInv, LevelsValid, Settled
      <4>. QED
        BY <1>1, <2>1, <3>2, <4>4, LookedAt
    <3>. QED
      BY <3>1, <3>2
  <2>2. LevelsValid(d)'
    BY <2>0 DEF LevelInv, LevelsValid, Active, Valid
  <2>3. LevelsSoFar(d)'
    <3>1. ASSUME NEW m \in 1..k, Active(Order[m]), d[Order[m]] <= tries + 1
          PROVE  Settled(Order[m])'
      <4>1. CASE m = k
        BY <2>0, <2>1, <3>1, <4>1
      <4>2. CASE m # k
        <5>1. Settled(Order[m]) /\ Order[m] \in Ifaces
          BY <2>0, <3>1, <4>2, OrderFacts DEF LevelInv, LevelsSoFar
        <5>. QED
          BY <1>1, <5>1, SettledStays
      <4>. QED
        BY <4>1, <4>2
    <3>2. \A m \in 1..k : Active(Order[m])' = Active(Order[m])
      BY <2>0 DEF Active
    <3>3. (k + 1) - 1 = k
      BY <2>0
    <3>. QED
      BY <2>0, <3>1, <3>2, <3>3 DEF LevelsSoFar
  <2>4. LastPass'
    <3>1. CASE ret' = ret
      BY <2>0, <3>1 DEF LevelInv, LastPass
    <3>2. CASE ret' # ret
      <4>1. Active(Order[k])
        BY <1>1, <3>2 DEF ControllerStep
      <4>2. ~(d[Order[k]] <= tries + 1)
        BY <2>0, <2>1, <3>2, <4>1
      <4>. QED
        BY <1>0, <2>0, <4>2, OrderFacts DEF LastPass
    <3>. QED
      BY <3>1, <3>2
  <2>. QED
    BY <2>0, <2>2, <2>3, <2>4 DEF LevelInv, LevelsAll
<1>2. CASE ControllersDone
  <2>0. /\ pc = "ctrl" /\ pc' \in {"parent", "set"} /\ k > Len(Order)
        /\ UNCHANGED <<want, tries, ret, pending, prio>>
    BY <1>2 DEF ControllersDone
  <2>1. LevelsAll(d)'
    <3>. SUFFICES ASSUME NEW i \in Ifaces, Active(i), d[i] <= tries + 1
                  PROVE  Settled(i)
      BY <2>0 DEF LevelsAll, Settled, Active, Valid
    <3>1. PICK m \in 1..Len(Order) : Order[m] = i
      BY OrderInjective
    <3>2. m \in 1..(k - 1)
      BY <2>0, OrderFacts DEF TypeOK
    <3>. QED
      BY <2>0, <3>1, <3>2 DEF LevelInv, LevelsSoFar
  <2>2. LevelsValid(d)' /\ LastPass'
    BY <2>0 DEF LevelInv, LevelsValid, LastPass, Active, Valid
  <2>. QED
    BY <2>0, <2>1, <2>2 DEF LevelInv, LevelsSoFar
<1>3. CASE ParentStep \/ ParentsDone
  <2>0. /\ pc = "parent" /\ pc' \in {"parent", "set"}
        /\ UNCHANGED <<want, tries, ret, prio>>
    BY <1>3 DEF ParentStep, ParentsDone
  <2>1. ASSUME NEW i \in Ifaces, Settled(i) PROVE Settled(i)'
    <3>1. CASE ParentStep
      BY <2>1, <3>1, SettledStays
    <3>2. CASE ParentsDone
      BY <2>1, <3>2 DEF ParentsDone, Settled, Valid
    <3>. QED
      BY <1>3, <3>1, <3>2
  <2>2. LevelsAll(d)'
    BY <2>0, <2>1 DEF LevelInv, LevelsAll, Active
  <2>3. LevelsValid(d)' /\ LastPass'
    BY <2>0 DEF LevelInv, LevelsValid, LastPass, Active, Valid
  <2>. QED
    BY <2>0, <2>2, <2>3 DEF LevelInv, LevelsSoFar
<1>4. CASE SetPriorities
  <2>0. /\ pc = "set" /\ want' = want /\ tries' = tries + 1 /\ k' = 1 /\ ret'
        /\ pc' = IF ret THEN "ok" ELSE IF tries + 1 = MaxRetry THEN "err" ELSE "ctrl"
        /\ tries \in Nat
    BY <1>4 DEF SetPriorities, TypeOK
  <2>1. tries = MaxRetry - 1 => ret
    BY <2>0 DEF LevelInv, LastPass
  <2>2. pc' # "err"
    BY <2>0, <2>1, OrderFacts
  <2>3. LevelsValid(d)'
    <3>. SUFFICES ASSUME NEW i \in Ifaces, Active(i), d[i] <= tries + 1
                  PROVE  Valid(i)'
      BY <2>0 DEF LevelsValid, Active
    <3>1. Settled(i)
      BY <2>0 DEF LevelInv, LevelsAll
    <3>. QED
      BY <1>4, <3>1, SettledSet
  <2>. QED
    BY <2>0, <2>2, <2>3 DEF LevelInv, LevelsSoFar, LevelsAll, LastPass
<1>. QED
  BY <1>1, <1>2, <1>3, <1>4 DEF Next

(* In a state where everything above an interface that is brought up is    *)
(* brought up too, set_ifaces_up_priority() never gives up when at most    *)
(* MaxRetry controllers are above each, or when all are listed after their *)
(* controllers, for any number of interfaces and of passes.                *)
LEMMA NestInvariant == Spec => []NestInv
<1>1. Init => NestInv
  <2>. SUFFICES ASSUME Init PROVE NestInv
    OBVIOUS
  <2>1. TypeOK
    BY InitUp DEF UpInv
  <2>2. ASSUME NEW d \in Depths, Ranks(d) PROVE LevelInv(d)
    <3>1. ASSUME NEW i \in Ifaces, Active(i), d[i] <= 0 PROVE Valid(i)
      <4>1. want.ctrl[i] # None => want.ctrl[i] \in Ifaces /\ d[want.ctrl[i]] < d[i]
        BY <2>1, <2>2, <3>1, WantFacts DEF Ranks
      <4>. QED
        BY <3>1, <4>1, OrderFacts DEF Depths, Valid
    <3>. QED
      BY <3>1 DEF Init, LevelInv, LevelsValid, LevelsSoFar, LevelsAll, LastPass,
                  Running
  <2>3. OrderInv
    BY DEF Init, OrderInv, Running
  <2>. QED
    BY <2>2, <2>3 DEF NestInv
<1>2. TypeOK /\ TypeOK' /\ NestInv /\ [Next]_vars => NestInv'
  <2>. SUFFICES ASSUME TypeOK, TypeOK', NestInv, [Next]_vars PROVE NestInv'
    OBVIOUS
  <2>1. want' = want
    BY DEF Next, ControllerStep, ControllersDone, ParentStep, ParentsDone,
           SetPriorities, vars
  <2>2. /\ Closed' = Closed /\ Ordered' = Ordered
        /\ \A d \in Depths : Ranks(d)' = Ranks(d)
    BY <2>1 DEF Closed, Ordered, Ranks, Active
  <2>3. CASE UNCHANGED vars
    <3>1. \A d \in Depths : LevelInv(d)' = LevelInv(d)
      BY <2>3 DEF vars, LevelInv, LevelsValid, LevelsSoFar, LevelsAll, LastPass,
                  Running, Settled, Valid, Active
    <3>2. OrderInv' = OrderInv
      BY <2>3 DEF vars, OrderInv, Running, Settled, Valid, Active
    <3>. QED
      BY <2>2, <3>1, <3>2 DEF NestInv
  <2>4. CASE Next
    BY <2>2, <2>4, LevelInvStep, OrderInvStep DEF NestInv
  <2>. QED
    BY <2>3, <2>4
<1>. QED
  BY <1>1, <1>2, PriorityTypes, PTL DEF Spec

(* Four controllers above an interface make a rank of at most four. *)
LEMMA ShallowRanks ==
  ASSUME TypeOK, MaxRetry >= 4, Closed, Shallow
  PROVE  \E d \in Depths : Ranks(d)
<1>. DEFINE Rank(i) == CASE Up(i) = None -> 0
                         [] Up(i) # None /\ Up(Up(i)) = None -> 1
                         [] Up(Up(i)) # None /\ Up(Up(Up(i))) = None -> 2
                         [] Up(Up(Up(i))) # None /\ Up(Up(Up(Up(i)))) = None -> 3
                         [] OTHER -> 4
            d == [i \in Ifaces |-> Rank(i)]
<1>1. Up(None) = None
  BY DEF Up
<1>2. \A i \in Ifaces : Rank(i) \in 0..4
  OBVIOUS
<1>3. d \in Depths
  BY <1>2, OrderFacts DEF Depths
<1>4. ASSUME NEW i \in Ifaces, Active(i), want.ctrl[i] # None
      PROVE  d[want.ctrl[i]] < d[i]
  <2>1. want.ctrl[i] \in Ifaces /\ Up(i) = want.ctrl[i] /\ Up(i) # None
    BY <1>4, WantFacts, OrderFacts DEF Up
  <2>2. Up(Up(Up(Up(Up(i))))) = None
    BY <1>4 DEF Shallow
  <2>3. Rank(Up(i)) < Rank(i)
    BY <1>1, <2>1, <2>2
  <2>. QED
    BY <2>1, <2>3
<1>. QED
  BY <1>3, <1>4 DEF Ranks

(* With the four passes of the code (or more), set_ifaces_up_priority()    *)
(* never refuses four levels of controllers that are all brought up, nor   *)
(* any number of levels when the state lists controllers first; the bound  *)
(* is the number of passes whatever it is (NestInvariant).                 *)
THEOREM NestingIsAccepted ==
  ASSUME MaxRetry >= 4 PROVE Spec => []NestingAccepted
<1>1. TypeOK /\ NestInv => NestingAccepted
  <2>. SUFFICES ASSUME TypeOK, NestInv, pc = "err", Closed
                PROVE  ~Shallow /\ ~Ordered
    BY DEF NestingAccepted
  <2>1. ~Ordered
    BY DEF NestInv, OrderInv
  <2>2. ~Shallow
    BY ShallowRanks DEF NestInv, LevelInv
  <2>. QED
    BY <2>1, <2>2
<1>. QED
  BY <1>1, NestInvariant, PriorityTypes, PTL
=============================================================================
