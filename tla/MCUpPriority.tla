---------------------------- MODULE MCUpPriority ----------------------------
(* A small instance of UpPriority.  Interfaces are numbers in the order of *)
(* the desired state, so that every order is one of the inputs.            *)
EXTENDS UpPriority
CONSTANTS
  N,  \* the last interface, an OVS bridge
  M   \* the OVS interface that has the name of the OVS bridge

MCIfaces == 1..N
MCOrder == [i \in 1..N |-> i]
MCKernel == 1..(N - 1)
Twins == [i \in 1..N |-> IF i = N THEN M ELSE i]
Nobody == [i \in 1..N |-> None]

(* Every way to nest the kernel interfaces that are all brought up. *)
Nestings ==
  LET Ctrl(f) == [i \in 1..N |-> IF i = N THEN None ELSE f[i]]
  IN [ctrl : {Ctrl(f) : f \in {g \in [MCKernel -> MCKernel \cup {None}] :
                                  \A i \in MCKernel : g[i] # i}},
      parent : {Nobody}, changed : {MCKernel}, up : {MCKernel}]

(* Each of the first M kernel interfaces is a port, a child, an OVS        *)
(* interface (whose controller is the OVS bridge and whose parent is the   *)
(* kernel interface of that name) or neither, and is unchanged, up or      *)
(* down, which the OVS bridge may be too.                                  *)
Mixed ==
  LET Own == 1..M
      Roles == {r \in [Own -> ({"port"} \X (Own \cup {N})) \cup
                              ({"child"} \X Own) \cup
                              {<<"ovs", None>>, <<"top", None>>}] :
                  \A i \in Own : r[i][2] # i}
      Ctrl(r, i) == IF r[i][1] = "port" THEN r[i][2]
                    ELSE IF r[i][1] = "ovs" THEN N ELSE None
      Parent(r, i) == IF r[i][1] = "child" THEN r[i][2]
                      ELSE IF r[i][1] = "ovs" THEN M ELSE None
  IN {[ctrl |-> [i \in 1..N |-> IF i \in Own THEN Ctrl(r, i) ELSE None],
       parent |-> [i \in 1..N |-> IF i \in Own THEN Parent(r, i) ELSE None],
       changed |-> {i \in Own \cup {N} : s[i] # "same"},
       up |-> {i \in Own \cup {N} : s[i] = "up"}] :
        r \in Roles, s \in [Own \cup {N} -> {"same", "up", "down"}]}

MixedAndNested == Mixed \cup Nestings

(* A bridge over a bond over a VLAN of an Ethernet interface. *)
Example ==
  [ctrl : {[Nobody EXCEPT ![2] = 1, ![3] = 2]}, parent : {[Nobody EXCEPT ![3] = 4]},
   changed : {1..4}, up : {1..4}]
=============================================================================
