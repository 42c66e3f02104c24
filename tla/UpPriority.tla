------------------------------ MODULE UpPriority ------------------------------
(***************************************************************************)
(* The order in which interfaces are brought up                            *)
(* (MergedInterfaces::_set_up_priority() in inter_ifaces.rs and            *)
(* set_ifaces_up_priority() in inter_ifaces_controller.rs).                *)
(*                                                                         *)
(* Each pass walks the interfaces in the order of the desired state and    *)
(* gives a port the priority that follows its controller's, if that is     *)
(* known by then.  A pass that leaves none out walks them once more and    *)
(* puts each child after its parent.  Up to MaxRetry passes are made.      *)
(***************************************************************************)
EXTENDS Naturals, Sequences

CONSTANTS
  Ifaces,     \* the merged interfaces
  Kernel,     \* those that are no OVS bridges
  Order,      \* insert_order
  Name,       \* an OVS bridge may have the name of a kernel interface
  None,       \* no controller, no parent
  MaxRetry,   \* INTERFACES_SET_PRIORITY_MAX_RETRY
  Inputs      \* what is asked for: [ctrl, parent, changed, up]

(* OVS bridges have neither controllers nor parents. *)
IsInput(w) ==
  /\ w.ctrl \in [Ifaces -> Ifaces \cup {None}]
  /\ w.parent \in [Ifaces -> Kernel \cup {None}]
  /\ w.changed \subseteq Ifaces /\ w.up \subseteq Ifaces
  /\ \A i \in Ifaces \ Kernel : w.ctrl[i] = None /\ w.parent[i] = None

ASSUME PriorityAssumption ==
  /\ None \notin Ifaces /\ Kernel \subseteq Ifaces
  /\ Order \in Seq(Ifaces)
  /\ \A i \in Ifaces : \E m \in 1..Len(Order) : Order[m] = i
  /\ \A m, n \in 1..Len(Order) : Order[m] = Order[n] => m = n
  /\ DOMAIN Name = Ifaces
  /\ \A i, j \in Kernel : Name[i] = Name[j] => i = j
  /\ MaxRetry \in Nat \ {0}
  /\ \A w \in Inputs : IsInput(w)

VARIABLES
  want,     \* the input; never changes
  pc,
  tries,    \* passes done
  k,        \* place in Order
  ret,      \* no port was left out in this pass
  pending,  \* pending_changes, by name; 0 stands for no entry
  prio      \* up_priority

vars == <<want, pc, tries, k, ret, pending, prio>>

Names == {Name[i] : i \in Ifaces}
NoChanges == [n \in Names |-> 0]

(* BaseInterface::is_up_priority_valid() *)
Valid(i) == want.ctrl[i] # None => prio[i] # 0

Active(i) == i \in want.changed /\ i \in want.up

Init ==
  /\ want \in Inputs
  /\ pc = "ctrl" /\ tries = 0 /\ k = 1 /\ ret = TRUE
  /\ pending = NoChanges
  /\ prio = [i \in Ifaces |-> 0]

(* Mutant: a port takes its controller's priority. *)
PortPrioritySame(i) ==
  LET c == want.ctrl[i]
  IN IF pending[Name[c]] # 0 THEN pending[Name[c]] ELSE prio[c]

(* The priority of a port whose controller's is known. *)
PortPriority(i) ==
  LET c == want.ctrl[i]
  IN (IF pending[Name[c]] # 0 THEN pending[Name[c]] ELSE prio[c]) + 1

(* One interface of the first loop. *)
ControllerStep ==
  LET i == Order[k]
      c == want.ctrl[i]
      Looked == Active(i) /\ ~Valid(i) /\ c \in want.changed
      Known == pending[Name[c]] # 0 \/ Valid(c)
  IN /\ pc = "ctrl" /\ k <= Len(Order)
     /\ k' = k + 1
     /\ \/ ~Looked /\ UNCHANGED <<pending, ret>>
        \/ /\ Looked /\ Known
           /\ pending' = [pending EXCEPT ![Name[i]] = PortPriority(i)]
           /\ UNCHANGED ret
        \/ Looked /\ ~Known /\ ret' = FALSE /\ UNCHANGED pending
     /\ UNCHANGED <<want, pc, tries, prio>>

ControllersDone ==
  /\ pc = "ctrl" /\ k > Len(Order)
  /\ pc' = IF ret THEN "parent" ELSE "set"
  /\ k' = 1
  /\ UNCHANGED <<want, tries, ret, pending, prio>>

(* Mutant: a child takes its parent's priority from before this pass. *)
ParentStepStale ==
  LET i == Order[k]
      p == want.parent[i]
      Looked == Active(i) /\ p # None /\ p \in want.changed
  IN /\ pc = "parent" /\ k <= Len(Order)
     /\ k' = k + 1
     /\ \/ /\ Looked /\ Valid(p)
           /\ pending' = [pending EXCEPT ![Name[i]] = prio[p] + 1]
        \/ ~(Looked /\ Valid(p)) /\ UNCHANGED pending
     /\ UNCHANGED <<want, pc, tries, ret, prio>>

(* One interface of the second loop. *)
ParentStep ==
  LET i == Order[k]
      p == want.parent[i]
      Looked == Active(i) /\ p # None
  IN /\ pc = "parent" /\ k <= Len(Order)
     /\ k' = k + 1
     /\ \/ /\ Looked /\ pending[Name[p]] # 0
           /\ pending' = [pending EXCEPT ![Name[i]] = pending[Name[p]] + 1]
        \/ /\ Looked /\ pending[Name[p]] = 0 /\ p \in want.changed /\ Valid(p)
           /\ pending' = [pending EXCEPT ![Name[i]] = prio[p] + 1]
        \/ /\ Looked => pending[Name[p]] = 0 /\ ~(p \in want.changed /\ Valid(p))
           /\ UNCHANGED pending
     /\ UNCHANGED <<want, pc, tries, ret, prio>>

ParentsDone ==
  /\ pc = "parent" /\ k > Len(Order)
  /\ pc' = "set"
  /\ UNCHANGED <<want, tries, k, ret, pending, prio>>

(* Mutant: one pass less. *)
SetPrioritiesEarly ==
  /\ pc = "set"
  /\ prio' = [i \in Ifaces |->
                IF i \in Kernel /\ i \in want.changed /\ pending[Name[i]] # 0
                THEN pending[Name[i]] ELSE prio[i]]
  /\ tries' = tries + 1
  /\ pc' = IF ret THEN "ok" ELSE IF tries + 2 >= MaxRetry THEN "err" ELSE "ctrl"
  /\ k' = 1 /\ ret' = TRUE /\ pending' = NoChanges
  /\ UNCHANGED want

(* Mutant: one pass more. *)
SetPrioritiesLate ==
  /\ pc = "set"
  /\ prio' = [i \in Ifaces |->
                IF i \in Kernel /\ i \in want.changed /\ pending[Name[i]] # 0
                THEN pending[Name[i]] ELSE prio[i]]
  /\ tries' = tries + 1
  /\ pc' = IF ret THEN "ok" ELSE IF tries = MaxRetry THEN "err" ELSE "ctrl"
  /\ k' = 1 /\ ret' = TRUE /\ pending' = NoChanges
  /\ UNCHANGED want

(* The end of a pass: the priorities are set, and the next pass starts     *)
(* unless this one left out none or was the last.                          *)
SetPriorities ==
  /\ pc = "set"
  /\ prio' = [i \in Ifaces |->
                IF i \in Kernel /\ i \in want.changed /\ pending[Name[i]] # 0
                THEN pending[Name[i]] ELSE prio[i]]
  /\ tries' = tries + 1
  /\ pc' = IF ret THEN "ok" ELSE IF tries + 1 = MaxRetry THEN "err" ELSE "ctrl"
  /\ k' = 1 /\ ret' = TRUE /\ pending' = NoChanges
  /\ UNCHANGED want

Next == \/ ControllerStep \/ ControllersDone \/ ParentStep \/ ParentsDone
        \/ SetPriorities

Spec == Init /\ [][Next]_vars

(* Types; _set_up_priority() makes at most MaxRetry passes. *)
TypeOK ==
  /\ IsInput(want)
  /\ pc \in {"ctrl", "parent", "set", "ok", "err"}
  /\ tries \in 0..MaxRetry
  /\ pc \in {"ctrl", "parent", "set"} => tries < MaxRetry
  /\ k \in 1..(Len(Order) + 1)
  /\ ret \in BOOLEAN
  /\ pending \in [Names -> Nat]
  /\ prio \in [Ifaces -> Nat]
-----------------------------------------------------------------------------
Before(i, j) == \E m, n \in 1..Len(Order) :
                  m < n /\ Order[m] = i /\ Order[n] = j

(* The controller of an interface, if there is one. *)
Up(i) == IF i = None THEN None ELSE want.ctrl[i]

(* No controller has a parent, and no port of a kernel controller has one  *)
(* (what is a VLAN, a MAC VLAN and so on is no such port).  The parent of  *)
(* an OVS interface is the kernel interface of its bridge's name.          *)
Plain ==
  \A i \in Ifaces :
    want.parent[i] # None =>
      want.ctrl[i] \notin Kernel /\ \A j \in Ifaces : want.ctrl[j] # i

(* Everything above an interface that is brought up is brought up too.     *)
Closed == \A i \in Ifaces : Active(i) /\ want.ctrl[i] # None => Active(want.ctrl[i])

(* At most four controllers are above an interface that is brought up. *)
Shallow == \A i \in Ifaces : Active(i) => Up(Up(Up(Up(Up(i))))) = None

Ordered ==
  \A i \in Ifaces :
    Active(i) /\ want.ctrl[i] # None => Before(want.ctrl[i], i)

(* A port is brought up after its controller, in whatever order the        *)
(* desired state lists them and whichever of them it changes.  (Ports of   *)
(* kernel controllers without parents.)                                    *)
PortAfterController ==
  pc = "ok" /\ Plain =>
    \A i \in Ifaces :
      Active(i) /\ want.ctrl[i] \in want.changed => prio[i] > prio[want.ctrl[i]]

(* A child listed after its parent is brought up after it, however deep    *)
(* below controllers the parent is and whatever controls the child.        *)
ChildAfterParent ==
  pc = "ok" =>
    \A i \in Ifaces :
      LET p == want.parent[i] IN
      Active(i) /\ p \in want.changed /\ Before(p, i) /\ Valid(p)
        => prio[i] > prio[p]

(* Four levels of controllers are never refused when all of them are       *)
(* brought up, and any number is not when the state lists controllers      *)
(* first.                                                                  *)
NestingAccepted == pc = "err" /\ Closed => ~Shallow /\ ~Ordered

(* "The up_priority should be its controller's up_priority plus one": a    *)
(* port that has a parent is no exception.                                 *)
DocPortAfterController ==
  pc = "ok" =>
    \A i \in Ifaces :
      Active(i) /\ want.ctrl[i] \in want.changed => prio[i] > prio[want.ctrl[i]]
=============================================================================
