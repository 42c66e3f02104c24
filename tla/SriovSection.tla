---------------------------- MODULE SriovSection ----------------------------
(***************************************************************************)
(* The SR-IOV settings of a physical function (PF), laid out as in         *)
(* VirtualKinds.  A virtual function (VF) is a configuration of its own    *)
(* with the field `id`; `vfs` is a list of them.                           *)
(***************************************************************************)
EXTENDS BaseSections

MaxVfs == 3

(* Lists of VFs: empty, partial, unsorted, beyond the total, with a VLAN. *)
SriovVfLists ==
  {<<>>, <<[id |-> 0, trust |-> TRUE]>>, <<[id |-> 1, mac |-> "aa"]>>,
   <<[id |-> 1, trust |-> TRUE], [id |-> 0, vlan_id |-> 7]>>,
   <<[id |-> 0, vlan_proto |-> "802.1ad"]>>,
   <<[id |-> 0, vlan_proto |-> "802.1ad", vlan_id |-> 7, qos |-> 3]>>}

SriovConfig == [drivers_autoprobe |-> BOOLEAN, total_vfs |-> {0, 1, 2}, vfs |-> SriovVfLists]

VfUppercase(vf) == IF Says(vf, "mac") THEN [vf EXCEPT !.mac = Uppercase(@)] ELSE vf

SortedById(vfs) == SortSeq([i \in DOMAIN vfs |-> VfUppercase(vfs[i])], LAMBDA a, b : a.id < b.id)

(* SrIovConfig::sanitize() *)
SriovSanitize(c) ==
  IF ~Says(c, "vfs") THEN c
  ELSE IF \E i \in DOMAIN c.vfs :
            /\ Get(c.vfs[i], "vlan_proto", "802.1q") = "802.1ad"
            /\ Get(c.vfs[i], "vlan_id", 0) = 0 /\ Get(c.vfs[i], "qos", 0) = 0
       THEN Rejected
  ELSE [c EXCEPT !.vfs = SortedById(@)]

(* auto_fill_unmentioned_vf_id(): a VF of the list outside of the total is   *)
(* dropped when the list is filled.                                         *)
SriovFilled(c, cur) ==
  IF ~Says(c, "vfs") \/ Get(c, "vfs", <<>>) = <<>> THEN c
  ELSE LET vfs == SortedById(c.vfs)
           total == Get(c, "total_vfs", Get(cur, "total_vfs", vfs[Len(vfs)].id + 1))
           Named(id) == {i \in DOMAIN vfs : vfs[i].id = id}
           filled == [n \in 1..total |->
                        IF Named(n - 1) = {} THEN [id |-> n - 1]
                        ELSE vfs[CHOOSE i \in Named(n - 1) : \A j \in Named(n - 1) : j <= i]]
       IN  [total_vfs |-> total, vfs |-> IF total = Len(vfs) THEN vfs ELSE filled] @@ c

SriovApplied(c, cur) ==
  LET sane == SriovSanitize(c)
  IN  IF sane = Rejected THEN Rejected ELSE SriovFilled(sane, cur)

(* sanitize_desired_for_verify(): an empty list is not compared. *)
SriovVerified(c, cur) ==
  LET filled == SriovFilled(SriovSanitize(c), cur)
  IN  IF Get(filled, "vfs", <<1>>) = <<>> THEN Without(filled, {"vfs"}) ELSE filled

(* gen_nm_vfs(): the n-th VF on top of the n-th one of the profile. *)
NmVf(vf, old) ==
  LET vlan == IF ~Says(vf, "vlan_id") THEN Unset
              ELSE [vlans |-> <<[id |-> vf.vlan_id, qos |-> Get(vf, "qos", 0),
                                 protocol |-> Get(vf, "vlan_proto", "802.1q")]>>]
  IN  [index |-> vf.id] @@ Only(vf, {"mac", "trust"}) @@ vlan @@ old

GenNmVfs(vfs, old) ==
  [n \in DOMAIN vfs |-> NmVf(vfs[n], IF n \in DOMAIN old THEN old[n] ELSE Unset)]

(* gen_nm_sriov_setting(): no VF at all removes the section. *)
SriovSetting(c, s) ==
  IF Get(c, "total_vfs", MaxVfs) = 0 THEN NewSetting
  ELSE WithKnown(s, SetIfSaid(Unset, "total-vfs", c, "total_vfs")
                      @@ SetIfSaid(Unset, "autoprobe-drivers", c, "drivers_autoprobe")
                      @@ (IF Says(c, "vfs") THEN [vfs |-> GenNmVfs(c.vfs, Get(s.known, "vfs", <<>>))]
                          ELSE Unset)
                      @@ s.known)

SriovKeys == {"total-vfs", "autoprobe-drivers", "vfs"}

(* Every VF of the total exists; the profile may name some of them. *)
NmSriovDefaults == "autoprobe-drivers" :> TRUE
NmSriov(dict) ==
  LET d == dict @@ NmSriovDefaults
      stored == Get(d, "vfs", <<>>)
      Of(id) == {i \in DOMAIN stored : stored[i].index = id}
      Vf(id) == IF Of(id) = {} THEN Unset ELSE stored[CHOOSE i \in Of(id) : TRUE]
      Vlan(vf) == Get(vf, "vlans", <<[id |-> 0, qos |-> 0, protocol |-> "802.1q"]>>)[1]
  IN  [autoprobe |-> d["autoprobe-drivers"],
       vfs |-> [n \in 1..Get(d, "total-vfs", 0) |->
                  [id |-> n - 1, mac |-> Get(Vf(n - 1), "mac", "00"),
                   trust |-> Get(Vf(n - 1), "trust", FALSE), vlan_id |-> Vlan(Vf(n - 1)).id,
                   qos |-> Vlan(Vf(n - 1)).qos, vlan_proto |-> Vlan(Vf(n - 1)).protocol]]]

(* gen_sriov_conf() *)
SriovShown(k) == [drivers_autoprobe |-> k.autoprobe, total_vfs |-> Len(k.vfs), vfs |-> k.vfs]

(* generate_revert_extra(): SR-IOV that was off is turned off again. *)
SriovRevertExtra(reverted, c, cur) ==
  IF Get(c, "total_vfs", 0) > 0 /\ Get(cur, "total_vfs", 0) = 0 /\ DOMAIN reverted = {}
  THEN [total_vfs |-> 0] ELSE reverted
=============================================================================
