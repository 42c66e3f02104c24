---------------------------- MODULE OvsDbSection ----------------------------
(***************************************************************************)
(* The global configuration of the Open vSwitch database and the OVN       *)
(* bridge mappings.  Both are in one row of one table: the mappings are    *)
(* the value of one key of its `external_ids`, which a state shows as a    *)
(* section of its own.  Both columns of the row are written as a whole.    *)
(*                                                                         *)
(* Localnets and bridges are numbers, in the order of their names.         *)
(***************************************************************************)
EXTENDS BaseSections

OvnKey == "ovn-bridge-mappings"
Columns == {"external_ids", "other_config"}

(* The row of the database as it is stored. *)
IsRow(dict) ==
  /\ IsConf(dict) /\ DOMAIN dict = {"row"}
  /\ IsConf(dict.row) /\ DOMAIN dict.row = Columns

(* The value of a key that a desired state removes: `None`. *)
NoValue == "none"

OvnMapping(localnet, bridge) == [localnet |-> localnet, bridge |-> bridge]
OvnAbsent(localnet) == [localnet |-> localnet, state |-> "absent"]

(* What a desired state may say: values, keys to remove, a column or all to   *)
(* purge, and what is refused: the key of OVN, a mapping without a bridge and *)
(* two mappings of one localnet.                                              *)
OvsDbConfig ==
  [ovsdb |-> {Unset, [c \in Columns |-> Unset],
              [external_ids |-> Unset],
              [external_ids |-> [a |-> "1", b |-> NoValue]],
              [external_ids |-> [a |-> "2"], other_config |-> [d |-> "1"]],
              [external_ids |-> Unset, other_config |-> [c |-> NoValue]],
              [external_ids |-> OvnKey :> NoValue]},
   ovn |-> {<<>>, <<OvnMapping(1, 2)>>, <<OvnAbsent(1)>>, <<[localnet |-> 1]>>,
            <<OvnMapping(2, 1), OvnMapping(1, 1) @@ [state |-> "present"]>>,
            <<OvnMapping(3, 1), OvnAbsent(2), OvnAbsent(1)>>,
            <<OvnMapping(1, 1), OvnMapping(1, 2)>>}]

-----------------------------------------------------------------------------
(* OvnConfiguration *)

OvnIsAbsent(map) == Get(map, "state", "present") = "absent"

OvnMaps(c) == Get(c, "ovn", <<>>)

Localnets(maps) == {maps[i].localnet : i \in DOMAIN maps}

OvnSanitize(maps) ==
  IF \/ Cardinality(Localnets(maps)) < Len(maps)
     \/ \E i \in DOMAIN maps : ~OvnIsAbsent(maps[i]) /\ ~Says(maps[i], "bridge")
  THEN Rejected
  ELSE [i \in DOMAIN maps |-> IF OvnIsAbsent(maps[i]) THEN maps[i] ELSE Without(maps[i], {"state"})]

(* OvnBridgeMapping::sort_key() *)
OvnPrecedes(x, y) ==
  \/ OvnIsAbsent(x) /\ ~OvnIsAbsent(y)
  \/ /\ OvnIsAbsent(x) = OvnIsAbsent(y)
     /\ \/ x.localnet < y.localnet
        \/ x.localnet = y.localnet /\ Get(x, "bridge", 0) < Get(y, "bridge", 0)

OvnSorted(maps) == SortSeq(maps, OvnPrecedes)

(* to_ovsdb_external_id_value() and the conversion back: only neighbours are *)
(* compared to find what is there twice.                                     *)
OvnValue(maps) == OvnSorted(Dedup(maps))

(* MergedOvnConfiguration::new(): a BTreeMap, later mappings replacing earlier. *)
MergedOvn(maps, current) ==
  LET deleted == {maps[i].localnet : i \in {j \in DOMAIN maps : OvnIsAbsent(maps[j])}}
      all == SelectSeq(current, LAMBDA m : m.localnet \notin deleted) \o SelectSeq(maps, LAMBDA m : ~OvnIsAbsent(m))
      last == {i \in DOMAIN all : \A j \in DOMAIN all : all[j].localnet = all[i].localnet => j <= i}
  IN  SortedList({all[i] : i \in last}, OvnPrecedes)

-----------------------------------------------------------------------------
(* OvsDbGlobalConfig *)

OvsDbIsPurge(conf) == conf = Unset \/ conf = [c \in Columns |-> Unset]

CurrentColumn(cur, column) == Get(Get(cur, "ovsdb", Unset), column, Unset)

(* The keys of a column a desired state says. *)
SaidKeys(c, column) == DOMAIN Get(Get(c, "ovsdb", Unset), column, Unset)

WithValue(said) == Only(said, {k \in DOMAIN said : said[k] # NoValue})

MergeOvsDbConfs(conf, column, current) ==
  IF ~Says(conf, column) THEN current
  ELSE IF conf[column] = Unset THEN Unset
  ELSE Over(WithValue(conf[column]), Without(current, DOMAIN conf[column]))

(* The mappings are inserted as the value of their key, if there are any. *)
WithOvn(ids, maps) == IF maps = <<>> THEN ids ELSE Over([k \in {OvnKey} |-> maps], ids)

(* MergedOvsDbGlobalConfig::new(), of what is said and of what is current. *)
MergedRow(c, cur) ==
  LET Merged(column) ==
        IF ~Says(c, "ovsdb") THEN CurrentColumn(cur, column)
        ELSE IF OvsDbIsPurge(c.ovsdb) THEN Unset
        ELSE MergeOvsDbConfs(c.ovsdb, column, CurrentColumn(cur, column))
  IN  [external_ids |-> WithOvn(Merged("external_ids"), MergedOvn(OvnMaps(c), OvnMaps(cur))),
       other_config |-> Merged("other_config")]

CurrentRow(cur) ==
  [external_ids |-> WithOvn(CurrentColumn(cur, "external_ids"), OvnValue(OvnMaps(cur))),
   other_config |-> CurrentColumn(cur, "other_config")]

OvsDbIsChanged(c, cur) == MergedRow(c, cur) # CurrentRow(cur)

OvnIsChanged(c, cur) == MergedOvn(OvnMaps(c), OvnMaps(cur)) # OvnValue(OvnMaps(cur))

OvsDbApplied(c, cur) ==
  LET maps == OvnSanitize(OvnMaps(c))
  IN  IF maps = Rejected \/ OvnKey \in SaidKeys(c, "external_ids") THEN Rejected
      ELSE IF Says(c, "ovn") THEN [c EXCEPT !.ovn = maps] ELSE c

-----------------------------------------------------------------------------
(* ovsdb_apply(): the row as the merged configuration has it, if it differs. *)
OvsDbSetting(c, set, cur) ==
  IF OvsDbIsChanged(c, cur) THEN WithKnown(set, [row |-> MergedRow(c, cur)]) ELSE set

(* get_ovsdb_global_conf() and isolate_ovn() *)
OvsDbShown(attrs) ==
  LET ids == attrs.row.external_ids
      maps == OvnValue(Get(ids, OvnKey, <<>>))
  IN  Over([ovsdb |-> [attrs.row EXCEPT !.external_ids = Without(ids, {OvnKey})]],
           IF maps = <<>> THEN Unset ELSE [ovn |-> maps])

(* update_state() of the state that verify() compares with: it is a copy of *)
(* the one that was current, whose mappings stay when there are none now.   *)
OvsDbUpdated(cur, shown) == shown @@ Only(cur, {"ovn"})

(* Only what is said to be there is compared. *)
OvnVerified(maps, current) ==
  LET said == SelectSeq(maps, LAMBDA m : ~OvnIsAbsent(m))
  IN  OvnSorted(said) = OvnSorted(SelectSeq(current, LAMBDA m : m.localnet \in Localnets(said)))

OvsDbVerified(c, cur) ==
  \A column \in Columns : \A k \in SaidKeys(c, column) :
    c.ovsdb[column][k] # NoValue => Get(CurrentColumn(cur, column), k, NoValue) = c.ovsdb[column][k]

OvsDbDiff(c, cur) ==
  Only(c, (IF OvsDbIsChanged(c, cur) THEN {"ovsdb"} ELSE {}) \cup (IF OvnIsChanged(c, cur) THEN {"ovn"} ELSE {}))

-----------------------------------------------------------------------------
(* generate_revert() of both. *)
OvnRevert(maps, current) ==
  LET Was(m) == SelectSeq(current, LAMBDA o : o.localnet = m.localnet)
  IN  OvnSorted(Concat([i \in DOMAIN maps |->
        IF Was(maps[i]) = <<>> THEN <<OvnAbsent(maps[i].localnet)>> ELSE Was(maps[i])]))

OvsDbRevert(c, cur) ==
  LET Was(column) == [k \in SaidKeys(c, column) |-> Get(CurrentColumn(cur, column), k, NoValue)]
      maps == OvnRevert(OvnMaps(c), OvnMaps(cur))
  IN  (IF \A column \in Columns : SaidKeys(c, column) = {} THEN Unset
       ELSE [ovsdb |-> [column \in Columns |-> Was(column)]])
        @@ IF maps = <<>> THEN Unset ELSE [ovn |-> maps]
=============================================================================
