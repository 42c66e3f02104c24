----------------------------- MODULE MCService -----------------------------
(* Small instances of Service. *)
EXTENDS Service
CONSTANTS v1, v2, bad, blob \* contents

TwoNames == <<<<"01">>, <<"02">>>>
(* A file of a VLAN, and the name nmstatectl takes it for. *)
DottedNames == <<<<"eth0">>, <<"eth0", "100">>>>
=============================================================================
