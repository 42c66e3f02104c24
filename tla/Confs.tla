------------------------------- MODULE Confs -------------------------------
(***************************************************************************)
(* The objects nmstate, NetworkManager and the kernel exchange, and the    *)
(* few operations the program performs on all of them.                     *)
(*                                                                         *)
(* A configuration (what serde makes of a part of a state), a setting of a *)
(* NetworkManager profile and a D-Bus dictionary are functions from field  *)
(* names to values.  The domain holds the fields that are said: a Rust     *)
(* field that is None, a missing JSON key and a missing dictionary key are *)
(* all a name outside of it.  An object inside an object is flattened, its *)
(* field being named after its own name.                                   *)
(***************************************************************************)
EXTENDS Integers, Sequences, FiniteSets, TLC

CONSTANTS
  Hidden,    \* NetworkState::PASSWORD_HID_BY_NMSTATE, shown for a password
  Rejected   \* what a function returning Err(NmstateError) leaves

ASSUME ConfsAssumption == Hidden # Rejected

Unset == <<>>

IsConf(c) == c = [f \in DOMAIN c |-> c[f]]

Get(c, f, default) == IF f \in DOMAIN c THEN c[f] ELSE default

Says(c, f) == f \in DOMAIN c

Only(c, fields) == [f \in DOMAIN c \cap fields |-> c[f]]

Without(c, fields) == [f \in DOMAIN c \ fields |-> c[f]]

(* The fields of one, and those of the other that it does not have: `@@`, *)
(* defined here where a proof has to know what it is.                     *)
Over(c, d) == [f \in DOMAIN c \cup DOMAIN d |-> IF f \in DOMAIN c THEN c[f] ELSE d[f]]

(* `dst.x.clone_from(&src.y)`: the field is set, or cleared when src has none. *)
Cloned(dst, f, src, g) ==
  IF Says(src, g) THEN (f :> src[g]) @@ dst ELSE Without(dst, {f})

(* `if let Some(v) = src.y { dst.x = Some(v) }` *)
SetIfSaid(dst, f, src, g) == IF Says(src, g) THEN (f :> src[g]) @@ dst ELSE dst

-----------------------------------------------------------------------------
(* merge_json_value(): what is desired, and the current value of the rest. *)
Merge(desired, current) == Over(desired, current)

(* Fields that hold lists of objects, which are compared one by one. *)
ListFields == {"vfs", "ports_config", "ports"}
ElementAgrees(desired, current) ==
  \A f \in DOMAIN desired :
    /\ Says(current, f)
    /\ IF f = "vlan" THEN desired[f] = Only(current[f], DOMAIN desired[f]) ELSE desired[f] = current[f]
ListAgrees(desired, current) ==
  /\ Len(desired) = Len(current)
  /\ \A i \in DOMAIN desired : ElementAgrees(desired[i], current[i])

(* get_json_value_difference() finds nothing: every desired field is shown  *)
(* with that value, a hidden password standing for any.                    *)
Agrees(desired, current) ==
  \A f \in DOMAIN desired :
    /\ Says(current, f)
    /\ \/ desired[f] = Hidden
       \/ f \in ListFields /\ ListAgrees(desired[f], current[f])
       \/ desired[f] = current[f]

(* gen_diff_json_value(): the desired fields that are not so already. *)
Diff(desired, current) ==
  Only(desired, {f \in DOMAIN desired :
                   ~(Says(current, f) /\ current[f] = desired[f])})

(* gen_revert_state(): the current values of the fields that are desired. *)
RevertOf(desired, current) == Only(current, DOMAIN desired)

-----------------------------------------------------------------------------
(* A setting of a profile as the D-Bus client holds it: the keys it knows   *)
(* by name, and the rest of the dictionary in `_other`.                    *)
Setting(known, other) == [known |-> known, other |-> other]

NewSetting == Setting(Unset, Unset)

FromDict(dict, keys) == Setting(Only(dict, keys), Without(dict, keys))

(* to_value(): the known keys are inserted first, then extended with _other. *)
ToDict(s) == Over(s.other, s.known)

WithKnown(s, known) == [s EXCEPT !.known = known]
=============================================================================
