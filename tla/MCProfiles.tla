----------------------------- MODULE MCProfiles -----------------------------
(***************************************************************************)
(* Instances of Profiles: a port that moves between two controllers; two   *)
(* ports of one controller, where all have a profile or none has; and a    *)
(* controller and a port that may be unmanaged, with two profiles or a     *)
(* volatile one.                                                           *)
(***************************************************************************)
EXTENDS Profiles

Managed == {"none", "up"}

MCScenarios ==
  {[ifaces |-> {"br0", "br1", "eth1"}, sets |-> {{}, {1}}, seen |-> Managed],
   [ifaces |-> {"br0", "eth1", "dummy1"}, sets |-> {{}}, seen |-> Managed],
   [ifaces |-> {"br0", "eth1", "dummy1"}, sets |-> {{1}}, seen |-> Managed],
   [ifaces |-> {"br0", "eth1"}, sets |-> {{}, {1}, {1, 2}, {3}},
    seen |-> Managed \cup {"ignore"}]}
=============================================================================
