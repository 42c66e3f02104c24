--------------------------- MODULE MCControllers ---------------------------
(* A small instance of Controllers. *)
EXTENDS Controllers

CONSTANTS br0, br1, ovs0, int0, p1, p2, p3, p4

InternalOfOvs0 == [b \in {ovs0} |-> int0]
(* p2 is a VLAN of br1, p3 one of int0 *)
Vlans == [p \in Ports |-> IF p = p2 THEN br1 ELSE IF p = p3 THEN int0 ELSE Unset]

(* ports move between two controllers of the kernel *)
Moves == [ifaces |-> {br0, br1, p1, p2}, cur |-> {"up"}, des |-> {"up", "absent"}]
(* a port that is on top of a controller, which may be down *)
Downs == [ifaces |-> {br0, br1, p2}, cur |-> {"up"}, des |-> {"up", "down", "absent"}]
(* an OVS bridge, its internal interface, and something on top of that *)
Ovs == [ifaces |-> {br0, ovs0, int0, p3}, cur |-> {"up"}, des |-> {"up", "absent"}]
(* interfaces that were or are to be ignored *)
Ignored == [ifaces |-> {br0, p1, p4}, cur |-> {"up", "ignore"},
            des |-> {"up", "absent", "ignore"}]
(* controllers that were ignored until now, with ports *)
Returning == [ifaces |-> {br0, br1, p1}, cur |-> {"up", "ignore"},
              des |-> {"up", "down", "absent"}]
(* an OVS bridge or its internal interface may be ignored *)
IgnoredOvs == [ifaces |-> {ovs0, int0}, cur |-> {"up", "ignore"},
               des |-> {"up", "absent", "ignore"}]
AllScenarios == {Moves, Downs, Ovs, Ignored, Returning, IgnoredOvs}
=============================================================================
