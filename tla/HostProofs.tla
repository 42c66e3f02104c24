---------------------------- MODULE HostProofs -----------------------------
(***************************************************************************)
(* Proofs about the configuration of the host that an apply leaves out:    *)
(* the keys of the Open vSwitch database and the routes, from the merge    *)
(* through what is stored to the state that is shown again.                *)
(*                                                                         *)
(* The OVN bridge mappings, the route rules and the DNS configuration,     *)
(* which are sorted and folded, are left to the model checker.             *)
(***************************************************************************)
EXTENDS Sections, TLAPS

-----------------------------------------------------------------------------
(* The columns of the Open vSwitch database. *)

LEMMA SameConf ==
  ASSUME NEW c, NEW d, IsConf(c), IsConf(d),
         DOMAIN c = DOMAIN d, \A f \in DOMAIN c : c[f] = d[f]
  PROVE  c = d
BY DEF IsConf

(* The keys of a column that a desired state does not say stay as they are,   *)
(* and none is added (merge_ovsdb_confs()), unless it says the column empty,  *)
(* which purges it.                                                           *)
THEOREM UnsaidColumnKeysStay ==
  ASSUME NEW conf, NEW column, NEW cur, Says(conf, column) => conf[column] # Unset
  PROVE  LET said == DOMAIN Get(conf, column, Unset)
         IN  Without(MergeOvsDbConfs(conf, column, cur), said) = Without(cur, said)
<1>1. CASE ~Says(conf, column)
  BY <1>1 DEF MergeOvsDbConfs
<1>2. CASE Says(conf, column)
  <2> DEFINE said == DOMAIN conf[column]
             m == Over(WithValue(conf[column]), Without(cur, said))
  <2>1. MergeOvsDbConfs(conf, column, cur) = m /\ Get(conf, column, Unset) = conf[column]
    BY ZenonT(30), <1>2 DEF MergeOvsDbConfs, Get, Says
  <2>2. DOMAIN m \ said = DOMAIN cur \ said /\ \A k \in DOMAIN cur \ said : m[k] = cur[k]
    BY DEF Over, WithValue, Only, Without
  <2> HIDE DEF said, m
  <2>3. Without(m, said) = Without(cur, said)
    BY <2>2 DEF Without
  <2> QED
    BY <2>1, <2>3 DEF said
<1> QED
  BY ZenonT(30), <1>1, <1>2

(* Merging the column that generate_revert() makes, of the current values of  *)
(* the keys said and a removal of those there were not, brings back what the  *)
(* column was.                                                                *)
THEOREM ColumnRevertRestores ==
  ASSUME NEW conf, NEW column, Says(conf, column), DOMAIN conf[column] # {},
         NEW cur, IsConf(cur), \A k \in DOMAIN cur : cur[k] # NoValue,
         NEW revert, Says(revert, column),
         revert[column] = [k \in DOMAIN conf[column] |-> Get(cur, k, NoValue)]
  PROVE  MergeOvsDbConfs(revert, column, MergeOvsDbConfs(conf, column, cur)) = cur
<1> DEFINE said == DOMAIN conf[column]
           m == Over(WithValue(conf[column]), Without(cur, said))
           r == Over(WithValue(revert[column]), Without(m, said))
<1>1. MergeOvsDbConfs(conf, column, cur) = m
  BY SMTT(30) DEF MergeOvsDbConfs, Unset
<1>2. MergeOvsDbConfs(revert, column, m) = r
  BY SMTT(30) DEF MergeOvsDbConfs, Unset
<1>3. DOMAIN m \ said = DOMAIN cur \ said /\ \A k \in DOMAIN cur \ said : m[k] = cur[k]
  BY DEF Over, WithValue, Only, Without
<1> HIDE DEF m
<1>4. DOMAIN WithValue(revert[column]) = said \cap DOMAIN cur
  BY DEF WithValue, Only, Get
<1>5. \A k \in said \cap DOMAIN cur : WithValue(revert[column])[k] = cur[k]
  BY ZenonT(30) DEF WithValue, Only, Get
<1>6. DOMAIN r = DOMAIN cur /\ \A k \in DOMAIN cur : r[k] = cur[k]
  BY ZenonT(30), <1>3, <1>4, <1>5 DEF Over, Without
<1>7. IsConf(r)
  BY DEF Over, IsConf
<1> HIDE DEF r
<1> QED
  BY ZenonT(30), <1>1, <1>2, <1>6, <1>7, SameConf

(* The state that is shown of it. *)
OvsNow(attrs) == Serialized(OvsDbShown(attrs))

(* What is shown of the row: the mappings are not among its keys. *)
LEMMA RowIsShown ==
  ASSUME kind = "ovsdb", NEW attrs, IsRow(attrs)
  PROVE  /\ Report(attrs) = OvsNow(attrs) /\ Current(attrs) = OvsNow(attrs)
         /\ CurrentColumn(OvsNow(attrs), "external_ids") = Without(attrs.row.external_ids, {OvnKey})
         /\ CurrentColumn(OvsNow(attrs), "other_config") = attrs.row.other_config
         /\ \A column \in Columns : OvsNow(attrs).ovsdb[column] = CurrentColumn(OvsNow(attrs), column)
<1> DEFINE ids == attrs.row.external_ids
           row == [attrs.row EXCEPT !.external_ids = Without(ids, {OvnKey})]
           shown == OvsDbShown(attrs)
<1>1. Shown(kind, attrs) = shown
  <2>1. attrs # Unset
    BY SMTT(30) DEF IsRow, Unset
  <2> QED
    BY ZenonT(30), <2>1 DEF Shown, RoutingKinds, NameOf
<1>2. /\ DOMAIN shown \subseteq {"ovsdb", "ovn"} /\ "ovsdb" \in DOMAIN shown
      /\ shown.ovsdb = row
  BY SMTT(30) DEF OvsDbShown, Over, Unset
<1>3. /\ DOMAIN row = Columns /\ row["external_ids"] = Without(ids, {OvnKey})
      /\ row["other_config"] = attrs.row["other_config"]
  BY DEF IsRow, Columns
<1> HIDE DEF shown, row
<1>4. Says(OvsNow(attrs), "ovsdb") /\ OvsNow(attrs).ovsdb = row
  BY ZenonT(30), <1>2 DEF OvsNow, shown, Serialized, Without, Get, Says
<1>5. Report(attrs) = OvsNow(attrs) /\ Current(attrs) = OvsNow(attrs)
  BY ZenonT(30), <1>1 DEF Report, Current, OvsNow, shown, SanitizedAs
<1>6. \A column \in Columns : CurrentColumn(OvsNow(attrs), column) = row[column]
  BY ZenonT(30), <1>3, <1>4 DEF CurrentColumn, Get, Says
<1> QED
  BY ZenonT(30), <1>3, <1>4, <1>5, <1>6 DEF Columns

(* No other step changes what is desired of the database. *)
LEMMA OvsDbForApply ==
  ASSUME kind = "ovsdb", NEW c, NEW cur
  PROVE  ForApply(kind, c, cur) = OvsDbApplied(c, cur)
<1>1. Completed(kind, c, cur) = OvsDbApplied(c, cur)
  BY DEF Completed, IpKinds, RoutingKinds
<1>2. SanitizedAs(kind, OvsDbApplied(c, cur), TRUE) = OvsDbApplied(c, cur)
  BY DEF SanitizedAs
<1> QED
  BY ZenonT(30), <1>1, <1>2 DEF ForApply

(* MergedOvsDbGlobalConfig::new() refuses the key of the mappings, and leaves *)
(* the columns as they are said.                                              *)
LEMMA OvsDbIsApplied ==
  ASSUME NEW d, NEW cur, NEW c, c = OvsDbApplied(d, cur), c # Rejected
  PROVE  /\ OvnKey \notin SaidKeys(c, "external_ids")
         /\ \A column : SaidKeys(c, column) = SaidKeys(d, column)
         /\ PurgedColumns(c) = PurgedColumns(d)
         /\ \A column : \A k \in SaidKeys(d, column) : c.ovsdb[column][k] = d.ovsdb[column][k]
<1>1. /\ OvnKey \notin SaidKeys(d, "external_ids")
      /\ Says(c, "ovsdb") <=> Says(d, "ovsdb")
      /\ Says(d, "ovsdb") => c.ovsdb = d.ovsdb
  BY DEF OvsDbApplied, Says
<1>2. \A column : SaidKeys(c, column) = SaidKeys(d, column)
  BY ZenonT(30), <1>1 DEF SaidKeys, Get, Says
<1>3. PurgedColumns(c) = PurgedColumns(d)
  BY <1>1 DEF PurgedColumns
<1>4. \A column : \A k \in SaidKeys(d, column) : Says(d, "ovsdb")
  BY SMTT(30) DEF SaidKeys, Get, Says, Unset
<1> QED
  BY ZenonT(30), <1>1, <1>2, <1>3, <1>4

(* What becomes of a column (MergedOvsDbGlobalConfig::new()). *)
ColumnMade(c, cur, column) ==
  IF ~Says(c, "ovsdb") THEN CurrentColumn(cur, column)
  ELSE IF OvsDbIsPurge(c.ovsdb) THEN Unset
  ELSE MergeOvsDbConfs(c.ovsdb, column, CurrentColumn(cur, column))

(* The keys that are not said stay unless the column is purged, those that  *)
(* are said get their value or go, and there are no others.                 *)
LEMMA ColumnIsMade ==
  ASSUME NEW c, NEW cur, NEW column
  PROVE  LET said == SaidKeys(c, column)
             made == ColumnMade(c, cur, column)
         IN  /\ column \in PurgedColumns(c) => Without(made, said) = Unset
             /\ column \in Columns \ PurgedColumns(c) =>
                  Without(made, said) = Without(CurrentColumn(cur, column), said)
             /\ \A k \in said : Get(made, k, NoValue) = c.ovsdb[column][k]
             /\ DOMAIN made \subseteq said \cup DOMAIN CurrentColumn(cur, column)
<1> DEFINE said == SaidKeys(c, column)
           made == ColumnMade(c, cur, column)
           was == CurrentColumn(cur, column)
<1>0. \A S : Without(Unset, S) = Unset
  BY SMTT(30) DEF Without, Unset
<1>1. CASE ~Says(c, "ovsdb")
  <2>1. said = {} /\ made = was /\ column \notin PurgedColumns(c)
    BY SMTT(30), <1>1 DEF SaidKeys, Get, Says, Unset, ColumnMade, PurgedColumns
  <2> QED
    BY ZenonT(30), <2>1
<1>2. CASE Says(c, "ovsdb") /\ OvsDbIsPurge(c.ovsdb)
  <2>1. said = {}
    BY SMTT(30), <1>2 DEF SaidKeys, Get, Says, Unset, OvsDbIsPurge
  <2>2. made = Unset /\ DOMAIN Unset = {} /\ (column \in Columns => column \in PurgedColumns(c))
    BY SMTT(30), <1>2 DEF ColumnMade, PurgedColumns, Unset
  <2> QED
    BY ZenonT(30), <1>0, <2>1, <2>2
<1>3. CASE Says(c, "ovsdb") /\ ~OvsDbIsPurge(c.ovsdb)
  <2>1. made = MergeOvsDbConfs(c.ovsdb, column, was) /\ said = DOMAIN Get(c.ovsdb, column, Unset)
    BY ZenonT(30), <1>3 DEF ColumnMade, SaidKeys, Get, Says
  <2>2. column \in Columns =>
          (column \in PurgedColumns(c) <=> Says(c.ovsdb, column) /\ c.ovsdb[column] = Unset)
    BY ZenonT(30), <1>3 DEF PurgedColumns
  <2>3. PurgedColumns(c) \subseteq Columns
    BY ZenonT(30) DEF PurgedColumns
  <2> HIDE DEF said, made, was
  <2>4. CASE Says(c.ovsdb, column) /\ c.ovsdb[column] = Unset
    <3>1. made = Unset /\ said = {} /\ DOMAIN Unset = {}
      BY SMTT(30), <2>1, <2>4 DEF MergeOvsDbConfs, Get, Says, Unset
    <3> QED
      BY ZenonT(30), <1>0, <2>2, <2>4, <3>1 DEF said, made, was
  <2>5. CASE ~Says(c.ovsdb, column)
    <3>1. made = was /\ said = {}
      BY SMTT(30), <2>1, <2>5 DEF MergeOvsDbConfs, Get, Says, Unset
    <3> QED
      BY ZenonT(30), <2>2, <2>3, <2>5, <3>1 DEF said, made, was
  <2>6. CASE Says(c.ovsdb, column) /\ c.ovsdb[column] # Unset
    <3>1. Without(made, said) = Without(was, said)
      BY ZenonT(30), <2>1, <2>6, UnsaidColumnKeysStay
    <3>2. /\ made = Over(WithValue(c.ovsdb[column]), Without(was, said))
          /\ said = DOMAIN c.ovsdb[column]
      BY ZenonT(30), <2>1, <2>6 DEF MergeOvsDbConfs, Get, Says
    <3>3. DOMAIN made \subseteq said \cup DOMAIN was
      BY ZenonT(30), <3>2 DEF Over, WithValue, Only, Without
    <3>4. \A k \in said : Get(made, k, NoValue) = c.ovsdb[column][k]
      BY ZenonT(30), <3>2 DEF Over, WithValue, Only, Without, Get
    <3> QED
      BY ZenonT(30), <2>2, <2>3, <2>6, <3>1, <3>3, <3>4 DEF said, made, was
  <2> QED
    BY ZenonT(30), <2>4, <2>5, <2>6
<1> QED
  BY ZenonT(30), <1>1, <1>2, <1>3

(* The mappings are not shown among the keys. *)
LEMMA OvnIsNotShown ==
  ASSUME NEW ids, NEW maps, OvnKey \notin DOMAIN ids
  PROVE  LET shown == Without(WithOvn(ids, maps), {OvnKey})
         IN  DOMAIN shown = DOMAIN ids /\ \A k \in DOMAIN ids : shown[k] = ids[k]
BY ZenonT(30) DEF WithOvn, Without, Over

(* The row that an apply leaves: ovsdb_apply() writes it if it differs. *)
RowMade(d, attrs) ==
  LET cur == OvsNow(attrs)
      c == OvsDbApplied(d, cur)
  IN  IF OvsDbIsChanged(c, cur) THEN MergedRow(c, cur) ELSE attrs.row

(* The columns that are shown before an apply and after it. *)
LEMMA RowIsMade ==
  ASSUME kind = "ovsdb", NEW d, NEW old, NEW new, IsRow(old), IsRow(new),
         OvsDbApplied(d, OvsNow(old)) # Rejected, new.row = RowMade(d, old), NEW column \in Columns
  PROVE  LET said == SaidKeys(d, column)
             was == Report(old).ovsdb[column]
             now == Report(new).ovsdb[column]
         IN  /\ Without(now, said) = IF column \in PurgedColumns(d) THEN Unset ELSE Without(was, said)
             /\ \A k \in said : Get(now, k, NoValue) = d.ovsdb[column][k]
<1> DEFINE cur == OvsNow(old)
           c == OvsDbApplied(d, cur)
           said == SaidKeys(d, column)
           was == Report(old).ovsdb[column]
           now == Report(new).ovsdb[column]
           made == ColumnMade(c, cur, column)
<1>1. /\ SaidKeys(c, column) = said /\ (column \in PurgedColumns(c) <=> column \in PurgedColumns(d))
      /\ \A k \in said : c.ovsdb[column][k] = d.ovsdb[column][k]
      /\ OvnKey \notin SaidKeys(c, "external_ids")
  BY SMTT(30), OvsDbIsApplied
<1>2. was = CurrentColumn(cur, column)
  BY ZenonT(30), RowIsShown
<1>3. OvnKey \notin DOMAIN CurrentColumn(cur, "external_ids")
  BY ZenonT(30), RowIsShown DEF Without
<1>4. OvnKey \notin DOMAIN ColumnMade(c, cur, "external_ids")
  BY <1>1, <1>3, ColumnIsMade DEF Columns
<1>5. DOMAIN now = DOMAIN made /\ \A k \in DOMAIN now : now[k] = made[k]
  <2>1. CASE OvsDbIsChanged(c, cur)
    <3>1. new.row = MergedRow(c, cur)
      BY <2>1 DEF RowMade
    <3>2. CASE column = "external_ids"
      <4>1. now = Without(MergedRow(c, cur).external_ids, {OvnKey})
        BY ZenonT(30), <3>1, <3>2, RowIsShown
      <4>2. \E maps : MergedRow(c, cur).external_ids = WithOvn(ColumnMade(c, cur, "external_ids"), maps)
        BY DEF MergedRow, ColumnMade
      <4> QED
        BY SMTT(30), <1>4, <3>2, <4>1, <4>2, OvnIsNotShown
    <3>3. CASE column = "other_config"
      BY SMTT(30), <3>1, <3>3, RowIsShown DEF MergedRow, ColumnMade
    <3> QED
      BY <3>2, <3>3 DEF Columns
  <2>2. CASE ~OvsDbIsChanged(c, cur)
    <3>1. new.row = old.row /\ MergedRow(c, cur) = CurrentRow(cur)
      BY ZenonT(30), <2>2 DEF RowMade, OvsDbIsChanged
    <3>2. now = CurrentColumn(cur, column)
      BY ZenonT(30), <3>1, RowIsShown DEF Columns
    <3>3. CASE column = "external_ids"
      <4>1. \E m, n : WithOvn(ColumnMade(c, cur, "external_ids"), m) = WithOvn(CurrentColumn(cur, "external_ids"), n)
        BY ZenonT(30), <3>1 DEF MergedRow, ColumnMade, CurrentRow
      <4> QED
        BY SMTT(30), <1>3, <1>4, <3>2, <3>3, <4>1, OvnIsNotShown
    <3>4. CASE column = "other_config"
      BY ZenonT(30), <3>1, <3>2, <3>4 DEF MergedRow, ColumnMade, CurrentRow
    <3> QED
      BY <3>3, <3>4 DEF Columns
  <2> QED
    BY <2>1, <2>2
<1>6. /\ column \in PurgedColumns(c) => Without(made, said) = Unset
      /\ column \notin PurgedColumns(c) => Without(made, said) = Without(was, said)
      /\ \A k \in said : Get(made, k, NoValue) = c.ovsdb[column][k]
  BY SMTT(30), <1>1, <1>2, ColumnIsMade
<1> HIDE DEF made, now, was, said, c
<1>7. Without(now, said) = Without(made, said)
  BY ZenonT(30), <1>5 DEF Without
<1>8. \A k \in said : Get(now, k, NoValue) = Get(made, k, NoValue)
  BY ZenonT(30), <1>5 DEF Get
<1>9. /\ Without(now, said) = IF column \in PurgedColumns(d) THEN Unset ELSE Without(was, said)
      /\ \A k \in said : Get(now, k, NoValue) = d.ovsdb[column][k]
  BY ZenonT(30), <1>1, <1>6, <1>7, <1>8
<1> QED
  BY ZenonT(30), <1>9 DEF now, was, said

(* What ovsdb_apply() stores. *)
LEMMA RowIsStored ==
  ASSUME kind = "ovsdb", IsRow(profile), kernel = profile, OvsDbApplied(desired, OvsNow(kernel)) # Rejected,
         NEW merged, NewDict(profile, merged) # Rejected
  PROVE  IsRow(NewDict(profile, merged)) /\ NewDict(profile, merged).row = RowMade(desired, kernel)
<1> DEFINE cur == OvsNow(kernel)
           c == OvsDbApplied(desired, cur)
           set == FromDict(profile, {"row"})
           made == OvsDbSetting(c, set, cur)
<1>1. NewDict(profile, merged) = IF made = Rejected THEN Rejected ELSE ToDict(made)
  <2>1. Current(kernel) = cur /\ ForApply(kind, desired, cur) = c
    BY ZenonT(30), RowIsShown, OvsDbForApply
  <2>2. KeysOf[kind] = {"row"}
    BY ZenonT(30) DEF KeysOf
  <2>3. SettingOf(kind, c, set, cur, merged) = made
    BY DEF SettingOf, RoutingKinds, NameOf
  <2>4. ToValue(kind, made) = ToDict(made)
    BY ZenonT(30) DEF ToValue
  <2> HIDE DEF cur, c, set, made
  <2> QED
    BY ZenonT(30), <2>1, <2>2, <2>3, <2>4 DEF NewDict, set
<1>2. /\ made.other = Without(profile, {"row"})
      /\ made.known = [row |-> RowMade(desired, kernel)]
  <2>1. set = [known |-> Only(profile, {"row"}), other |-> Without(profile, {"row"})]
    BY ZenonT(30) DEF FromDict, Setting
  <2>2. Only(profile, {"row"}) = [row |-> profile.row]
    BY SMTT(30) DEF Only, IsRow
  <2>3. CASE OvsDbIsChanged(c, cur)
    BY SMTT(30), <2>1, <2>3 DEF OvsDbSetting, WithKnown, RowMade
  <2>4. CASE ~OvsDbIsChanged(c, cur)
    BY SMTT(30), <2>1, <2>2, <2>4 DEF OvsDbSetting, RowMade
  <2> QED
    BY ZenonT(30), <2>3, <2>4
<1>3. IsConf(RowMade(desired, kernel)) /\ DOMAIN RowMade(desired, kernel) = Columns
  BY ZenonT(30) DEF RowMade, MergedRow, IsRow, IsConf, Columns
<1> HIDE DEF made
<1>4. DOMAIN made.other = {}
  BY ZenonT(30), <1>2 DEF Without, IsRow
<1>5. /\ IsConf(ToDict(made)) /\ DOMAIN ToDict(made) = {"row"}
      /\ ToDict(made).row = RowMade(desired, kernel)
  BY SMTT(30), <1>2, <1>4 DEF ToDict, Over, IsConf
<1> QED
  BY ZenonT(30), <1>1, <1>3, <1>5 DEF IsRow

(* The database holds and returns what is stored. *)
LEMMA RowIsRead ==
  ASSUME kind = "ovsdb", NEW dict, IsRow(dict)
  PROVE  GetSettings(kind, dict) = dict /\ NmAttributes(kind, dict) = dict
<1>1. DOMAIN NmDefaults["ovsdb"] = {}
  <2>1. "ovsdb" \in DOMAIN ConfigOf
    BY SMTT(30) DEF ConfigOf
  <2>2. NmDefaults["ovsdb"] = Unset
    BY SMTT(30), <2>1 DEF NmDefaults, Over
  <2> QED
    BY <2>2 DEF Unset
<1>2. Without(dict, {}) = dict
  BY ZenonT(30) DEF Without, IsRow, IsConf
<1>3. GetSettings(kind, dict) = dict
  BY ZenonT(30), <1>1, <1>2 DEF GetSettings
<1>4. NmAttributes(kind, dict) = dict
  BY ZenonT(30) DEF NmAttributes, IpKinds, RoutingKinds, NameOf
<1> QED
  BY ZenonT(30), <1>3, <1>4

LEMMA RowIsActivated ==
  ASSUME kind = "ovsdb", NEW dict, IsRow(dict), Activated(dict, Nothing)
  PROVE  profile' = dict /\ kernel' = dict /\ lost' = Nothing
<1>1. NmAttributes(kind, dict) = dict /\ GetSettings(kind, dict) = dict
  BY ZenonT(30), RowIsRead
<1>2. Fixed(kind, profile) = {} /\ Nothing = "nothing"
  BY ZenonT(30) DEF Fixed, Nothing, NameOf
<1>3. Reached("row", dict) = dict.row
  BY ZenonT(30), <1>1 DEF Reached
<1>4. kernel' = [a \in {"row"} |-> dict.row]
  BY ZenonT(30), <1>1, <1>2, <1>3 DEF Activated, IsRow
<1>5. kernel' = dict
  BY ZenonT(30), <1>4 DEF IsRow, IsConf
<1> QED
  BY ZenonT(30), <1>1, <1>5 DEF Activated

-----------------------------------------------------------------------------
(* The applies of the configuration of the database. *)

(* The new state is there, whether it was found so or not. *)
HasApplied == stage = "activated" \/ (stage = "idle" /\ way # "adopt" /\ outcome \in {"verified", "mismatch"})

Rejects(d, attrs) == OvsDbApplied(d, OvsNow(attrs)) = Rejected

(* The row is as it was stored unless the change was lost, and it is what   *)
(* the desired state makes of the one there was before the apply.           *)
OvsInv ==
  kind = "ovsdb" =>
    /\ round \in Nat
    /\ round = 0 => stage = "idle" /\ outcome = "none"
    /\ round < 2 => lost = Nothing
    /\ round > 0 => IsRow(profile)
    /\ round > 0 /\ lost = Nothing => kernel = profile
    /\ stage \in {"asked", "merged", "read"} => before = kernel /\ lost = Nothing
    /\ stage \in {"merged", "read"} => ~Rejects(desired, before)
    /\ stage = "read" => read = profile
    /\ HasApplied /\ lost = Nothing =>
         IsRow(before) /\ ~Rejects(desired, before) /\ kernel.row = RowMade(desired, before)

(* Every step of an apply keeps it. *)
LEMMA OvsInvariant == Spec => []OvsInv
<1>1. Init => OvsInv
  BY SMTT(30) DEF Init, OvsInv, HasApplied
<1>2. ASSUME OvsInv, [Next]_vars
      PROVE  OvsInv'
  <2> SUFFICES ASSUME kind = "ovsdb", kind' = "ovsdb"
               PROVE  OvsInv'
    <3>1. kind' # "ovsdb" => OvsInv'
      BY ZenonT(30) DEF OvsInv
    <3>2. kind' = kind
      BY ZenonT(30), <1>2 DEF Next, Create, Adopt, Change, Follow, Merged, Read, Apply, Verify, OtherKeyStored, Done, Begin, vars
    <3> QED
      BY ZenonT(30), <3>1, <3>2
  <2>0. Nothing = "nothing" /\ Nothing' = "nothing"
    BY ZenonT(30) DEF Nothing, NameOf
  <2>1. CASE UNCHANGED vars
    BY ZenonT(30), <1>2, <2>0, <2>1 DEF OvsInv, HasApplied, vars
  <2>2. ASSUME NEW w, NEW d, Begin(w, d), round > 0, lost = Nothing
        PROVE  OvsInv'
    BY SMTT(30), <1>2, <2>0, <2>2 DEF OvsInv, Begin, HasApplied
  <2>3. CASE Create
    BY ZenonT(30), <2>3, HostIsThere DEF Create
  <2>4. CASE Adopt
    <3>1. PICK dict \in Adopted["ovsdb"] :
            profile' = GetSettings(kind, dict) /\ kernel' = NmAttributes(kind, dict)
      BY ZenonT(30), <2>4 DEF Adopt
    <3>2. IsRow(dict) /\ profile' = dict /\ kernel' = dict
      BY ZenonT(30), <3>1, RowIsRead, HostIsThere
    <3>3. round' = 1 /\ stage' = "idle" /\ way' = "adopt" /\ lost' = "nothing"
      BY SMTT(30), <1>2, <2>0, <2>4 DEF Adopt, OvsInv
    <3> QED
      BY SMTT(30), <2>0, <3>2, <3>3 DEF OvsInv, HasApplied
  <2>5. CASE Change
    <3>1. round = 1 /\ \E w, d : Begin(w, d)
      BY ZenonT(30), <2>5 DEF Change
    <3> QED
      BY SMTT(30), <1>2, <2>2, <3>1 DEF OvsInv
  <2>6. CASE Follow
    <3>1. round = 2 /\ lost = Nothing /\ \E w, d : Begin(w, d)
      BY ZenonT(30), <2>6 DEF Follow
    <3> QED
      BY SMTT(30), <2>2, <3>1
  <2>7. CASE Merged
    <3>1. /\ stage = "asked" /\ UNCHANGED <<round, way, desired, profile, kernel, before, lost>>
          /\ \/ stage' = "idle" /\ outcome' = "rejected"
             \/ stage' = "merged" /\ ForApply(kind, desired, Current(kernel)) # Rejected
      BY ZenonT(30), <2>7 DEF Merged, Ending
    <3>2. round > 0 /\ IsRow(kernel) /\ before = kernel
      BY SMTT(30), <1>2, <3>1 DEF OvsInv
    <3>3. ForApply(kind, desired, Current(kernel)) = OvsDbApplied(desired, OvsNow(kernel))
      BY ZenonT(30), <3>2, RowIsShown, OvsDbForApply
    <3> QED
      BY ZenonT(30), <1>2, <2>0, <3>1, <3>2, <3>3 DEF OvsInv, HasApplied, Rejects
  <2>8. CASE Apply
    <3>1. PICK merged :
            /\ stage = "read" /\ UNCHANGED <<round, way, desired, before>>
            /\ \/ /\ NewDict(read, merged) # Rejected /\ stage' = "activated"
                  /\ \E a : Activated(NewDict(read, merged), a) /\ (a = Nothing \/ round = 2)
               \/ stage' = "idle" /\ outcome' = "refused" /\ UNCHANGED <<profile, kernel, lost>>
      BY ZenonT(30), <2>8 DEF Apply, Ending
    <3>2. /\ round > 0 /\ IsRow(profile) /\ kernel = profile /\ before = kernel /\ ~Rejects(desired, before)
          /\ read = profile
      BY SMTT(30), <1>2, <3>1 DEF OvsInv
    <3>3. CASE stage' = "idle"
      BY ZenonT(30), <1>2, <2>0, <3>1, <3>2, <3>3 DEF OvsInv, HasApplied
    <3>4. CASE stage' # "idle"
      <4> DEFINE new == NewDict(profile, merged)
      <4>1. IsRow(new) /\ new.row = RowMade(desired, kernel)
        BY ZenonT(30), <3>1, <3>2, <3>4, RowIsStored DEF Rejects
      <4> HIDE DEF new
      <4>2. PICK a : Activated(new, a) /\ (a = Nothing \/ round = 2)
        BY ZenonT(30), <3>1, <3>2, <3>4 DEF new
      <4>3. lost' = a /\ profile' = new
        BY ZenonT(30), <4>1, <4>2, RowIsRead DEF Activated
      <4>4. CASE a = Nothing
        <5>1. kernel' = new
          BY ZenonT(30), <4>1, <4>2, <4>4, RowIsActivated
        <5> QED
          BY ZenonT(30), <1>2, <2>0, <3>1, <3>2, <3>4, <4>1, <4>3, <4>4, <5>1 DEF OvsInv, HasApplied
      <4>5. CASE a # Nothing
        BY SMTT(30), <1>2, <2>0, <3>1, <3>2, <3>4, <4>1, <4>2, <4>3, <4>5 DEF OvsInv, HasApplied
      <4> QED
        BY ZenonT(30), <4>4, <4>5
    <3> QED
      BY ZenonT(30), <3>3, <3>4
  <2>9. CASE Verify
    BY ZenonT(30), <1>2, <2>0, <2>9 DEF Verify, Ending, OvsInv, HasApplied
  <2>10. CASE OtherKeyStored
    BY ZenonT(30), <2>10 DEF OtherKeyStored, HostKinds
  <2>11. CASE Read
    BY ZenonT(30), <1>2, <2>0, <2>11 DEF Read, OvsInv, HasApplied, Rejects
  <2> QED
    BY SMTT(30), <1>2, <2>1, <2>3, <2>4, <2>5, <2>6, <2>7, <2>8, <2>9, <2>10, <2>11 DEF Next, Done
<1> QED
  BY <1>1, <1>2, PTL DEF Spec

(* The keys that a desired state says are shown with their value afterwards,  *)
(* and those that it removes are gone, whatever the state that was applied    *)
(* was made from.                                                             *)
OvsKeysRealised ==
  /\ Ended /\ way # "adopt" /\ outcome \in {"verified", "mismatch"} /\ lost = Nothing /\ kind = "ovsdb"
  => \A column \in Columns : \A k \in SaidKeys(desired, column) :
       Get(Report(kernel).ovsdb[column], k, NoValue) = desired.ovsdb[column][k]

(* What both theorems say of one column. *)
LEMMA OvsKeys ==
  ASSUME OvsInv, Ended, kind = "ovsdb", way # "adopt", outcome \in {"verified", "mismatch"}, lost = Nothing,
         NEW column \in Columns
  PROVE  LET said == SaidKeys(desired, column)
             was == Report(before).ovsdb[column]
             now == Report(kernel).ovsdb[column]
         IN  /\ Without(now, said) = IF column \in PurgedColumns(desired) THEN Unset ELSE Without(was, said)
             /\ \A k \in said : Get(now, k, NoValue) = desired.ovsdb[column][k]
<1>1. /\ IsRow(before) /\ IsRow(kernel) /\ OvsDbApplied(desired, OvsNow(before)) # Rejected
      /\ kernel.row = RowMade(desired, before)
  BY DEF OvsInv, Ended, HasApplied, Rejects
<1> QED
  BY SMTT(30), <1>1, RowIsMade

(* A desired state leaves the keys of the database that it does not say as   *)
(* they are and adds none, unless it empties their column: from the merge    *)
(* (MergedOvsDbGlobalConfig::new()) through ovsdb_apply(), which writes both  *)
(* columns as a whole and the mappings among them, to what is shown again    *)
(* (get_ovsdb_global_conf(), isolate_ovn()), for any row and any state.      *)
THEOREM OvsKeysAreKept == Spec => []OvsKeysKept
<1>1. OvsInv => OvsKeysKept
  <2> SUFFICES ASSUME OvsInv, Ended, way \in {"change", "diff"}, outcome = "verified", lost = Nothing,
                      kind = "ovsdb", NEW column \in Columns
               PROVE  Without(Report(kernel).ovsdb[column], SaidKeys(desired, column)) =
                        IF column \in PurgedColumns(desired) THEN Unset
                        ELSE Without(Report(before).ovsdb[column], SaidKeys(desired, column))
    BY ZenonT(30) DEF OvsKeysKept
  <2> QED
    BY ZenonT(30), OvsKeys
<1> QED
  BY <1>1, OvsInvariant, PTL

(* What a desired state says of the keys of the database is shown when the   *)
(* apply is over, so that verify() has nothing to find in the columns: the   *)
(* mappings that are written into one of them replace none of its keys.      *)
THEOREM OvsKeysAreRealised == Spec => []OvsKeysRealised
<1>1. OvsInv => OvsKeysRealised
  BY ZenonT(30), OvsKeys DEF OvsKeysRealised
<1> QED
  BY <1>1, OvsInvariant, PTL

-----------------------------------------------------------------------------
(* The routes. *)

(* A route as NetworkManager has added it to an interface. *)
IsFull(r) == IsNmRoute(r) /\ Says(r, "table") /\ Says(r, "metric")

LEMMA FullIsFull ==
  ASSUME NEW r, IsNmRoute(r)
  PROVE  IsFull(FullRoute(r)) /\ RouteIsIpv6(FullRoute(r)) = RouteIsIpv6(r) /\ (Says(FullRoute(r), "type") <=> Says(r, "type"))
<1> DEFINE added == [table |-> DefaultTable, metric |-> IF RouteIsIpv6(r) THEN 1024 ELSE 100]
           full == FullRoute(r)
<1>1. /\ DOMAIN full = DOMAIN r \cup {"table", "metric"} /\ IsConf(full)
      /\ \A f \in DOMAIN r : full[f] = r[f]
      /\ "table" \notin DOMAIN r => full["table"] = DefaultTable
      /\ "metric" \notin DOMAIN r => full["metric"] = IF RouteIsIpv6(r) THEN 1024 ELSE 100
  BY SMTT(30) DEF FullRoute, Over, IsConf
<1> HIDE DEF full
<1>2. RouteIsIpv6(full) = RouteIsIpv6(r)
  BY ZenonT(30), <1>1 DEF RouteIsIpv6, Get
<1>3. IsFull(full)
  BY SMTT(30), <1>1, <1>2 DEF IsFull, IsNmRoute, Get, Says, DefaultTable
<1> QED
  BY ZenonT(30), <1>1, <1>2, <1>3 DEF Says, full

LEMMA FullStays == ASSUME NEW r, IsFull(r) PROVE FullRoute(r) = r
BY SMTT(30) DEF FullRoute, IsFull, IsNmRoute, Over, IsConf, Says

(* A route that is shown, and stored as it is shown, is the same route. *)
LEMMA RouteRoundTrip ==
  ASSUME NEW i, NEW r, IsFull(r), ~(Says(r, "type") /\ ~RouteIsIpv6(r))
  PROVE  NmRoute(RouteShown(i, r)) = r
<1> DEFINE shown == RouteShown(i, r)
           made == NmRoute(shown)
<1>0. /\ {"dest", "metric", "table"} \subseteq DOMAIN r /\ DOMAIN r \subseteq {"dest", "metric", "table", "via", "type", "cwnd"}
      /\ r["table"] # 0 /\ (RouteIsIpv6(r) => r["metric"] # 0)
      /\ "via" \in DOMAIN r => r["via"] # "none" /\ "type" \notin DOMAIN r
  BY SMTT(30) DEF IsFull, IsNmRoute, Says, Get
<1>1. /\ DOMAIN shown = {"iface"} \cup (DOMAIN r \ (IF r["metric"] = 0 THEN {"metric"} ELSE {}))
                          \cup (IF "type" \in DOMAIN r THEN {} ELSE {"via"})
      /\ \A f \in DOMAIN r \cap DOMAIN shown : shown[f] = r[f]
      /\ "via" \notin DOMAIN r /\ "type" \notin DOMAIN r => shown["via"] = "none"
  <2> DEFINE said == Without(r, IF r["metric"] = 0 THEN {"metric"} ELSE {})
             via == IF "type" \in DOMAIN r THEN Unset ELSE [via |-> "none"]
             below == Over(said, via)
  <2>1. shown = Over([iface |-> i], below)
    BY ZenonT(30) DEF RouteShown, Says
  <2>2. DOMAIN said = DOMAIN r \ (IF r["metric"] = 0 THEN {"metric"} ELSE {}) /\ \A f \in DOMAIN said : said[f] = r[f]
    BY ZenonT(30) DEF Without
  <2>3. DOMAIN via = (IF "type" \in DOMAIN r THEN {} ELSE {"via"}) /\ ("type" \notin DOMAIN r => via["via"] = "none")
    BY SMTT(30) DEF Unset
  <2> HIDE DEF said, via, shown
  <2>4. DOMAIN below = DOMAIN said \cup DOMAIN via /\ \A f \in DOMAIN below : below[f] = IF f \in DOMAIN said THEN said[f] ELSE via[f]
    BY ZenonT(30) DEF Over
  <2> HIDE DEF below
  <2>5. DOMAIN shown = {"iface"} \cup DOMAIN below /\ \A f \in DOMAIN below \ {"iface"} : shown[f] = below[f]
    BY ZenonT(30), <2>1 DEF Over
  <2> QED
    BY ZenonT(30), <1>0, <2>2, <2>3, <2>4, <2>5
<1> HIDE DEF shown
<1>2. /\ shown["dest"] = r["dest"] /\ "dest" \in DOMAIN shown
      /\ shown["table"] = r["table"] /\ "table" \in DOMAIN shown
      /\ Get(shown, "via", "none") = IF "via" \in DOMAIN r THEN r["via"] ELSE "none"
      /\ "via" \in DOMAIN r => "via" \in DOMAIN shown /\ shown["via"] = r["via"]
  BY ZenonT(30), <1>0, <1>1 DEF Get
<1>3. RouteIsIpv6(shown) = RouteIsIpv6(r)
  BY ZenonT(30), <1>0, <1>2 DEF RouteIsIpv6, Get
<1>4. Get(shown, "metric", IF RouteIsIpv6(shown) THEN 1024 ELSE 0) = r["metric"]
  BY SMTT(30), <1>0, <1>1, <1>3 DEF Get
<1>5. (IF Get(shown, "table", 0) = 0 THEN DefaultTable ELSE shown.table) = r["table"]
  BY ZenonT(30), <1>0, <1>2 DEF Get
<1> DEFINE kept == {"type", "cwnd"} \cup IF Get(shown, "via", "none") = "none" THEN {} ELSE {"via"}
<1>6. DOMAIN shown \cap kept = DOMAIN r \cap {"type", "cwnd", "via"}
  BY ZenonT(30), <1>0, <1>1, <1>2
<1>7. \A f \in DOMAIN shown \cap kept : shown[f] = r[f]
  BY ZenonT(30), <1>1, <1>6
<1>8. made = Over([dest |-> r["dest"], metric |-> r["metric"], table |-> r["table"]], Only(shown, kept))
  BY SMTT(30), <1>2, <1>4, <1>5 DEF NmRoute, Get
<1> HIDE DEF kept, made
<1>9. DOMAIN made = DOMAIN r /\ (\A f \in DOMAIN r : made[f] = r[f]) /\ IsConf(made)
  BY SMTT(30), <1>0, <1>6, <1>7, <1>8 DEF Over, Only, IsConf
<1>10. IsConf(r)
  BY ZenonT(30) DEF IsFull, IsNmRoute
<1> QED
  BY ZenonT(30), <1>9, <1>10 DEF IsConf, made, shown

-----------------------------------------------------------------------------
(* What is shown of the host. *)
LEMMA RoutingIsShown ==
  ASSUME kind \in RoutingKinds, NEW host, DOMAIN host # {}
  PROVE  Report(host) = RoutingShown(host) /\ Current(host) = RoutingShown(host)
<1>1. host # Unset
  BY SMTT(30) DEF Unset
<1>2. Shown(kind, host) = RoutingShown(host)
  BY <1>1 DEF Shown, RoutingKinds, NameOf
<1>3. SanitizedAs(kind, RoutingShown(host), FALSE) = RoutingShown(host)
  BY ZenonT(30) DEF SanitizedAs, RoutingKinds
<1>4. IsConf(RoutingShown(host)) /\ DOMAIN RoutingShown(host) \subseteq {"eth1", "routes", "rules"}
  BY SMTT(30) DEF RoutingShown, Over, IsConf, Unset
<1>5. Serialized(RoutingShown(host)) = RoutingShown(host)
  <2> DEFINE c == RoutingShown(host)
  <2> HIDE DEF c
  <2>1. "base_iface" \notin DOMAIN c /\ "inherited" \notin DOMAIN c /\ IsConf(c)
    BY ZenonT(30), <1>4 DEF c
  <2>2. Serialized(c) = Without(c, {})
    BY ZenonT(30), <2>1 DEF Serialized, Get, Says
  <2>3. Without(c, {}) = c
    BY ZenonT(30), <2>1 DEF Without, IsConf
  <2> QED
    BY ZenonT(30), <2>2, <2>3 DEF c
<1> QED
  BY ZenonT(30), <1>2, <1>3, <1>5 DEF Report, Current

LEMMA RoutingFields ==
  ASSUME NEW host
  PROVE  /\ RoutingShown(host).routes = RoutesShown(host)
         /\ Says(RoutingShown(host), "eth1") <=> Says(host, "eth1")
BY SMTT(30) DEF RoutingShown, Over, Says, Unset

(* No other step changes what is desired. *)
LEMMA RoutingForApply ==
  ASSUME kind \in RoutingKinds, NEW c, NEW cur
  PROVE  ForApply(kind, c, cur) = RoutingApplied(c, cur)
<1>1. Completed(kind, c, cur) = RoutingApplied(c, cur)
  BY DEF Completed, IpKinds, RoutingKinds
<1>2. SanitizedAs(kind, RoutingApplied(c, cur), TRUE) = RoutingApplied(c, cur)
  BY ZenonT(30) DEF SanitizedAs, RoutingKinds
<1> QED
  BY ZenonT(30), <1>1, <1>2 DEF ForApply

(* What NetworkManager makes of a host. *)
LEMMA HostIsRouted ==
  ASSUME NEW host, IsHost(host)
  PROVE  /\ DOMAIN NmRouting(host) = DOMAIN host
         /\ \A i \in DOMAIN host : NmRouting(host)[i].routes = {FullRoute(r) : r \in host[i].routes}
<1>1. DOMAIN host \cap RouteIfaces = DOMAIN host
  BY DEF IsHost
<1>2. \A i \in DOMAIN host : "routes" \in DOMAIN host[i]
  BY DEF IsHost, Says
<1> QED
  BY <1>1, <1>2 DEF NmRouting, FullRoute

(* The keys of interfaces have no default. *)
LEMMA HostIsRead ==
  ASSUME kind \in RoutingKinds, NEW host, IsConf(host)
  PROVE  GetSettings(kind, host) = host /\ NmAttributes(kind, host) = NmRouting(host)
<1>1. DOMAIN NmDefaults[kind] = {}
  <2>1. "routes" \in DOMAIN ConfigOf /\ "rules" \in DOMAIN ConfigOf
    BY ZenonT(30) DEF ConfigOf
  <2>2. NmDefaults["routes"] = Unset /\ NmDefaults["rules"] = Unset
    BY ZenonT(30), <2>1 DEF NmDefaults, Over
  <2>3. DOMAIN Unset = {}
    BY SMTT(30) DEF Unset
  <2> QED
    BY <2>2, <2>3 DEF RoutingKinds
<1>2. Without(host, {}) = host
  BY ZenonT(30) DEF Without, IsConf
<1>3. GetSettings(kind, host) = host
  BY ZenonT(30), <1>1, <1>2 DEF GetSettings, RoutingKinds
<1>4. NmAttributes(kind, host) = NmRouting(host)
  BY ZenonT(30) DEF NmAttributes, IpKinds, RoutingKinds, NameOf
<1> QED
  BY <1>3, <1>4

(* What is shown of a route that NetworkManager has added. *)
LEMMA ShownRoute ==
  ASSUME NEW i, NEW k, IsFull(k)
  PROVE  LET r == RouteShown(i, k)
             v4type == Says(k, "type") /\ ~RouteIsIpv6(k)
         IN  /\ Says(r, "iface") <=> ~v4type
             /\ Says(r, "iface") => r.iface = i
             /\ Says(r, "dest") /\ r.dest = k.dest /\ Says(r, "table") /\ r.table = k.table
             /\ RouteIsIpv6(r) = RouteIsIpv6(k)
             /\ Says(r, "type") <=> Says(k, "type")
<1> DEFINE r == RouteShown(i, k)
           v4type == Says(k, "type") /\ ~RouteIsIpv6(k)
           named == IF v4type THEN Unset ELSE [iface |-> i]
           via == IF Says(k, "type") THEN Unset ELSE [via |-> "none"]
           below == Over(Without(k, IF k.metric = 0 THEN {"metric"} ELSE {}), via)
<1>1. Says(k, "dest") /\ Says(k, "table") /\ ~Says(k, "iface")
  BY ZenonT(30) DEF IsFull, IsNmRoute, Says
<1>2. r = Over(named, below)
  BY ZenonT(30) DEF RouteShown
<1>3. DOMAIN named = (IF v4type THEN {} ELSE {"iface"}) /\ (~v4type => named["iface"] = i)
  BY SMTT(30) DEF Unset
<1>4. DOMAIN via \subseteq {"via"}
  BY SMTT(30) DEF Unset
<1> HIDE DEF via
<1>5. /\ Says(below, "dest") /\ below["dest"] = k["dest"] /\ Says(below, "table") /\ below["table"] = k["table"]
      /\ ~Says(below, "iface") /\ (Says(below, "type") <=> Says(k, "type"))
  BY ZenonT(30), <1>1, <1>4 DEF Over, Without, Says
<1> HIDE DEF named, below, v4type, r
<1>6. /\ DOMAIN r = DOMAIN named \cup DOMAIN below
      /\ \A f \in DOMAIN r : r[f] = IF f \in DOMAIN named THEN named[f] ELSE below[f]
  BY ZenonT(30), <1>2 DEF Over
<1>7. /\ Says(r, "iface") <=> ~v4type
      /\ Says(r, "iface") => r["iface"] = i
      /\ Says(r, "dest") /\ r["dest"] = k["dest"] /\ Says(r, "table") /\ r["table"] = k["table"]
      /\ Says(r, "type") <=> Says(k, "type")
  BY SMTT(30), <1>3, <1>5, <1>6 DEF Says
<1>8. RouteIsIpv6(r) = RouteIsIpv6(k)
  BY ZenonT(30), <1>1, <1>7 DEF RouteIsIpv6, Get, Says
<1> QED
  BY ZenonT(30), <1>7, <1>8 DEF r, v4type

(* A desired route that is stored instead of one that it is equal to leads    *)
(* where that one did.                                                        *)
LEMMA EqualRoute ==
  ASSUME NEW i, NEW o, NEW r, RouteKey(o) = RouteKey(r), RouteIface(r) = i,
         Says(r, "dest"), Says(r, "table"), r.table # 0,
         Says(o, "type") /\ ~RouteIsIpv6(o) => i = "lo"
  PROVE  /\ RouteIface(o) = i /\ RouteIsIpv6(NmRoute(o)) = RouteIsIpv6(r)
         /\ SameTarget(RouteShown(i, FullRoute(NmRoute(o))), r)
<1> DEFINE s == NmRoute(o)
           k == FullRoute(s)
           shown == RouteShown(i, k)
<1>1. /\ RouteIface(o) = RouteIface(r) /\ RouteIsIpv6(o) = RouteIsIpv6(r)
      /\ Get(o, "table", DefaultTable) = r["table"] /\ Get(o, "dest", "") = r["dest"]
  BY ZenonT(30) DEF RouteKey, Get, Says
<1>2. (IF Get(o, "table", 0) = 0 THEN DefaultTable ELSE o["table"]) = r["table"]
  <2>1. CASE "table" \in DOMAIN o
    <3>1. Get(o, "table", 0) = r["table"] /\ o["table"] = r["table"]
      BY ZenonT(30), <1>1, <2>1 DEF Get
    <3> QED
      BY ZenonT(30), <3>1
  <2>2. CASE "table" \notin DOMAIN o
    <3>1. Get(o, "table", 0) = 0 /\ DefaultTable = r["table"]
      BY ZenonT(30), <1>1, <2>2 DEF Get
    <3> QED
      BY ZenonT(30), <3>1
  <2> QED
    BY ZenonT(30), <2>1, <2>2
<1>3. /\ Says(s, "dest") /\ s["dest"] = r["dest"] /\ Says(s, "table") /\ s["table"] = r["table"] /\ Says(s, "metric")
      /\ ~Says(s, "iface") /\ (Says(s, "type") => Says(o, "type"))
  <2> DEFINE kept == {"type", "cwnd"} \cup IF Get(o, "via", "none") = "none" THEN {} ELSE {"via"}
             metric == Get(o, "metric", IF RouteIsIpv6(o) THEN 1024 ELSE 0)
             first == [dest |-> r["dest"], metric |-> metric, table |-> r["table"]]
  <2>1. s = Over(first, Only(o, kept))
    <3> DEFINE dest == Get(o, "dest", "")
               table == IF Get(o, "table", 0) = 0 THEN DefaultTable ELSE o["table"]
    <3>1. s = Over([dest |-> dest, metric |-> metric, table |-> table], Only(o, kept))
      BY ZenonT(30) DEF NmRoute
    <3>2. dest = r["dest"] /\ table = r["table"]
      BY ZenonT(30), <1>1, <1>2
    <3> HIDE DEF dest, table, metric, kept
    <3> QED
      BY ZenonT(30), <3>1, <3>2
  <2>2. DOMAIN first = {"dest", "metric", "table"} /\ first["dest"] = r["dest"] /\ first["table"] = r["table"]
    BY SMTT(30)
  <2> HIDE DEF first, kept, s
  <2> QED
    <3>1. DOMAIN Only(o, kept) \subseteq {"type", "cwnd", "via"} /\ DOMAIN Only(o, kept) \subseteq DOMAIN o
      BY SMTT(30) DEF Only, kept
    <3> QED
      BY SMTT(30), <2>1, <2>2, <3>1 DEF Over, Says
<1> HIDE DEF s
<1>4. /\ Says(k, "dest") /\ k["dest"] = r["dest"] /\ Says(k, "table") /\ k["table"] = r["table"]
      /\ ~Says(k, "iface") /\ (Says(k, "type") => Says(o, "type"))
  BY SMTT(30), <1>3 DEF FullRoute, Over, Says
<1> HIDE DEF k
<1>5. RouteIsIpv6(k) = RouteIsIpv6(r) /\ RouteIsIpv6(s) = RouteIsIpv6(r)
  BY ZenonT(30), <1>3, <1>4 DEF RouteIsIpv6, Get, Says
<1>6. /\ Says(shown, "dest") /\ shown["dest"] = r["dest"] /\ Says(shown, "table") /\ shown["table"] = r["table"]
      /\ Says(shown, "iface") => shown["iface"] = i
      /\ ~Says(shown, "iface") => i = "lo"
  <2> DEFINE v4type == Says(k, "type") /\ ~RouteIsIpv6(k)
             named == IF v4type THEN Unset ELSE [iface |-> i]
             via == IF Says(k, "type") THEN Unset ELSE [via |-> "none"]
             below == Over(Without(k, IF k.metric = 0 THEN {"metric"} ELSE {}), via)
  <2>1. shown = Over(named, below)
    BY ZenonT(30) DEF RouteShown
  <2>2. DOMAIN named = (IF v4type THEN {} ELSE {"iface"}) /\ (~v4type => named["iface"] = i)
    BY SMTT(30) DEF Unset
  <2>3. v4type => i = "lo"
    BY ZenonT(30), <1>1, <1>4, <1>5
  <2>6. DOMAIN via \subseteq {"via"}
    BY SMTT(30) DEF Unset
  <2> HIDE DEF named, via, v4type
  <2>4. /\ Says(below, "dest") /\ below["dest"] = r["dest"] /\ Says(below, "table") /\ below["table"] = r["table"]
        /\ ~Says(below, "iface")
    BY ZenonT(30), <1>4, <2>6 DEF Over, Without, Says
  <2> HIDE DEF below, shown
  <2>5. /\ DOMAIN shown = DOMAIN named \cup DOMAIN below
        /\ \A f \in DOMAIN shown : shown[f] = IF f \in DOMAIN named THEN named[f] ELSE below[f]
    BY ZenonT(30), <2>1 DEF Over
  <2> QED
    <3>1. "iface" \in DOMAIN named \/ i = "lo"
      BY ZenonT(30), <2>2, <2>3
    <3>2. "iface" \in DOMAIN named => "iface" \in DOMAIN shown /\ shown["iface"] = i
      BY ZenonT(30), <2>2, <2>5
    <3>3. "dest" \notin DOMAIN named /\ "table" \notin DOMAIN named
      BY SMTT(30), <2>2
    <3>4. ~Says(below, "iface")
      BY ZenonT(30), <2>4
    <3> QED
      BY ZenonT(30), <2>4, <2>5, <3>1, <3>2, <3>3, <3>4 DEF Says
<1> HIDE DEF shown
<1>7. RouteIface(shown) = i
  BY ZenonT(30), <1>6 DEF RouteIface, Get, Says
<1>8. SameTarget(shown, r)
  BY ZenonT(30), <1>6, <1>7 DEF SameTarget
<1> QED
  BY ZenonT(30), <1>1, <1>5, <1>8 DEF shown, k, s

(* A route that c does not remove and that its interface can still have. *)
IsToStay(c, cur, r) ==
  /\ ~CannotHave(c, cur, r) /\ ~RemovedBy(Get(c, "routes", {}), r)
  /\ Says(r, "iface") \/ RouteIface(r) \notin RouteChangedIfaces(c, cur)

(* It may be replaced by one that it is equal to. *)
IsToReplace(c, cur, r) ==
  RouteIface(r) \in RouteChangedIfaces(c, cur) /\ RouteIsDoubled(r, RoutesToMerge(c, cur))

(* The typed IPv4 routes are the loopback's, also those that are desired. *)
LEMMA TypedAreLoopbacks ==
  ASSUME NEW host, IsHost(host), NEW d, NEW cur, cur.routes = RoutesShown(NmRouting(host)),
         NEW c, c = RoutingApplied(d, cur), c # Rejected,
         NEW o \in RoutesToMerge(c, cur), Says(o, "type"), ~RouteIsIpv6(o)
  PROVE  RouteIface(o) = "lo"
<1>1. CASE o \in cur.routes /\ Says(o, "iface")
  <2>1. PICK i \in DOMAIN host : \E q \in host[i].routes : o = RouteShown(i, FullRoute(q))
    BY SMTT(30), <1>1, HostIsRouted DEF RoutesShown
  <2>2. PICK q \in host[i].routes : o = RouteShown(i, FullRoute(q))
    BY ZenonT(30), <2>1
  <2>3. IsFull(FullRoute(q))
    BY ZenonT(30), FullIsFull DEF IsHost
  <2> QED
    BY ZenonT(30), <1>1, <2>2, <2>3, ShownRoute
<1>2. CASE o \in Present(Get(c, "routes", {}))
  <2>1. c = RoutesApplied(d, cur)
    BY ZenonT(30) DEF RoutingApplied
  <2>2. PICK e \in Get(d, "routes", {}) : o = RouteSanitize(e)
    <3>1. o \in Get(c, "routes", {})
      BY ZenonT(30), <1>2 DEF Present
    <3>2. CASE Says(d, "routes")
      <4>1. Get(c, "routes", {}) = {RouteSanitize(e) : e \in Get(d, "routes", {})}
        BY ZenonT(30), <2>1, <3>2 DEF RoutesApplied, Get, Says
      <4> QED
        BY ZenonT(30), <3>1, <4>1
    <3>3. CASE ~Says(d, "routes")
      BY ZenonT(30), <2>1, <3>1, <3>3 DEF RoutesApplied, Get, Says
    <3> QED
      BY ZenonT(30), <3>2, <3>3
  <2>3. ~RouteIsInvalid(e)
    BY ZenonT(30), <2>1 DEF RoutesApplied
  <2>4. ~IsAbsent(o)
    BY ZenonT(30), <1>2 DEF Present
  <2>5. /\ IsAbsent(e) = IsAbsent(o) /\ (Says(e, "type") <=> Says(o, "type")) /\ RouteIface(e) = RouteIface(o)
    BY ZenonT(30), <2>2 DEF RouteSanitize, IsAbsent, Says, RouteIface, Get, Without
  <2> QED
    BY ZenonT(30), <2>3, <2>4, <2>5 DEF RouteIsInvalid
<1> QED
  BY ZenonT(30), <1>1, <1>2 DEF RoutesToMerge

(* A route that nothing removes is stored again: with what was stored, if no  *)
(* route of its interface changes, and as it is shown otherwise, unless it is *)
(* another one that is left of those it is equal to.                          *)
LEMMA RouteIsStored ==
  ASSUME NEW host, IsHost(host), NEW d, NEW cur, cur.routes = RoutesShown(NmRouting(host)),
         NEW c, c = RoutingApplied(d, cur), c # Rejected,
         Says(cur, "eth1") <=> Says(host, "eth1"), NEW merged \in MergedRoutes(c, cur),
         NEW i \in DOMAIN host, NEW q \in host[i].routes, IsToStay(c, cur, RouteShown(i, FullRoute(q)))
  PROVE  LET r == RouteShown(i, FullRoute(q))
         IN  /\ i \in MergedIfaces(c, cur)
             /\ \E s \in StoredRoutes(c, cur, merged, i, host[i].routes) :
                  \/ FullRoute(s) = FullRoute(q)
                  \/ IsToReplace(c, cur, r) /\ SameTarget(RouteShown(i, FullRoute(s)), r)
<1> DEFINE k == FullRoute(q)
           r == RouteShown(i, k)
<1>0. /\ ~CannotHave(c, cur, r) /\ ~RemovedBy(Get(c, "routes", {}), r)
      /\ Says(r, "iface") \/ RouteIface(r) \notin RouteChangedIfaces(c, cur)
  BY DEF IsToStay
<1>1. IsNmRoute(q) /\ (Says(q, "type") /\ ~RouteIsIpv6(q) => i = "lo") /\ i \in RouteIfaces
  BY ZenonT(30) DEF IsHost
<1>2. IsFull(k) /\ RouteIsIpv6(k) = RouteIsIpv6(q) /\ (Says(k, "type") <=> Says(q, "type"))
  BY ZenonT(30), <1>1, FullIsFull
<1> HIDE DEF k
<1>3. /\ Says(r, "iface") <=> ~(Says(k, "type") /\ ~RouteIsIpv6(k))
      /\ Says(r, "iface") => r.iface = i
      /\ Says(r, "dest") /\ Says(r, "table") /\ r.table = k.table
      /\ RouteIsIpv6(r) = RouteIsIpv6(k)
  BY ZenonT(30), <1>2, ShownRoute
<1>4. RouteIface(r) = i
  BY ZenonT(30), <1>1, <1>2, <1>3 DEF RouteIface, Get, Says
<1>6. /\ MergedStack(c, cur, i) # "absent"
      /\ MergedStack(c, cur, i) # IF RouteIsIpv6(k) THEN "v6off" ELSE "v4off"
  BY ZenonT(30), <1>0, <1>3, <1>4 DEF CannotHave
<1>7. i \in MergedIfaces(c, cur)
  BY ZenonT(30), <1>1, <1>6 DEF MergedIfaces, Says
<1>8. CASE i \notin RouteChangedIfaces(c, cur)
  <2>1. q \in StoredRoutes(c, cur, merged, i, host[i].routes)
    BY ZenonT(30), <1>2, <1>6, <1>8 DEF StoredRoutes
  <2> QED
    BY ZenonT(30), <1>7, <2>1
<1>9. CASE i \in RouteChangedIfaces(c, cur)
  <2>1. Says(r, "iface")
    BY ZenonT(30), <1>0, <1>4, <1>9
  <2>2. r \in cur.routes
    BY SMTT(30), HostIsRouted DEF RoutesShown, k
  <2>3. r \in RoutesToMerge(c, cur)
    BY ZenonT(30), <1>0, <2>1, <2>2 DEF RoutesToMerge
  <2>4. CASE r \in merged
    <3>1. NmRoute(r) = k
      BY ZenonT(30), <1>2, <1>3, <2>1, RouteRoundTrip DEF k
    <3>2. k \in {NmRoute(m) : m \in {n \in merged : RouteIface(n) = i}}
      BY ZenonT(30), <1>4, <2>4, <3>1
    <3>3. k \in StoredRoutes(c, cur, merged, i, host[i].routes)
      BY ZenonT(30), <1>6, <1>9, <3>2 DEF StoredRoutes
    <3>4. FullRoute(k) = k
      BY ZenonT(30), <1>2, FullStays
    <3> QED
      BY ZenonT(30), <1>7, <3>3, <3>4 DEF k
  <2>5. CASE r \notin merged
    <3>1. /\ RouteIsDoubled(r, RoutesToMerge(c, cur)) /\ merged \subseteq RoutesToMerge(c, cur)
          /\ \E o \in merged : RouteKey(o) = RouteKey(r)
      BY ZenonT(30), <2>3, <2>5 DEF MergedRoutes
    <3>2. PICK o \in merged : RouteKey(o) = RouteKey(r)
      BY ZenonT(30), <3>1
    <3>3. Says(o, "type") /\ ~RouteIsIpv6(o) => RouteIface(o) = "lo"
      BY ZenonT(30), <3>1, <3>2, TypedAreLoopbacks
    <3>4. RouteIface(o) = RouteIface(r)
      BY ZenonT(30), <3>2 DEF RouteKey
    <3>5. r.table # 0
      BY SMTT(30), <1>2, <1>3 DEF IsFull, IsNmRoute, Get, Says
    <3> DEFINE s == NmRoute(o)
    <3> HIDE DEF r
    <3>6. /\ RouteIface(o) = i /\ RouteIsIpv6(s) = RouteIsIpv6(r)
          /\ SameTarget(RouteShown(i, FullRoute(s)), r)
      BY ZenonT(30), <1>3, <1>4, <3>2, <3>3, <3>4, <3>5, EqualRoute
    <3>7. s \in {NmRoute(m) : m \in {n \in merged : RouteIface(n) = i}}
      BY ZenonT(30), <3>2, <3>6
    <3> HIDE DEF s
    <3>8. s \in StoredRoutes(c, cur, merged, i, host[i].routes)
      BY ZenonT(30), <1>3, <1>6, <1>9, <3>6, <3>7 DEF StoredRoutes
    <3>9. IsToReplace(c, cur, r)
      BY ZenonT(30), <1>4, <1>9, <3>1 DEF IsToReplace
    <3> QED
      BY ZenonT(30), <1>7, <3>6, <3>8, <3>9 DEF r, k
  <2> QED
    BY ZenonT(30), <2>4, <2>5
<1> QED
  BY ZenonT(30), <1>8, <1>9

(* The profiles as they are stored. *)
LEMMA HostIsStored ==
  ASSUME kind \in RoutingKinds, IsHost(profile), kernel = NmRouting(profile), NEW merged, NewDict(profile, merged) # Rejected,
         NEW c, NEW cur, cur = RoutingShown(kernel), c = RoutingApplied(desired, cur)
  PROVE  LET new == NewDict(profile, merged)
         IN  /\ IsConf(new) /\ DOMAIN new = MergedIfaces(c, cur)
             /\ \A i \in DOMAIN new :
                  /\ Says(new[i], "routes")
                  /\ new[i].routes = StoredRoutes(c, cur, merged, i, Get(profile, i, NewIface).routes)
<1> DEFINE set == FromDict(profile, RouteIfaces)
           made == RoutingSetting(c, set, cur, merged, variant)
           new == NewDict(profile, merged)
<1>1. NewDict(profile, merged) = IF made = Rejected THEN Rejected ELSE ToDict(made)
  <2>1. DOMAIN kernel # {}
    BY ZenonT(30), HostIsRouted DEF IsHost, Says
  <2>2. Current(kernel) = cur /\ ForApply(kind, desired, cur) = c
    BY ZenonT(30), <2>1, RoutingIsShown, RoutingForApply
  <2>3. KeysOf[kind] = RouteIfaces
    BY SMTT(30) DEF KeysOf, RoutingKinds
  <2>4. SettingOf(kind, c, set, cur, merged) = made
    BY ZenonT(30) DEF SettingOf, RoutingKinds, IpKinds, NameOf
  <2>5. ToValue(kind, made) = ToDict(made)
    BY ZenonT(30) DEF ToValue, RoutingKinds
  <2> HIDE DEF set, made
  <2> QED
    BY ZenonT(30), <2>2, <2>3, <2>4, <2>5 DEF NewDict, set
<1>2. set = [known |-> Only(profile, RouteIfaces), other |-> Without(profile, RouteIfaces)]
  BY ZenonT(30) DEF FromDict, Setting
<1>3. Only(profile, RouteIfaces) = profile
  <2>1. RouteIfaces \cap DOMAIN profile = DOMAIN profile /\ DOMAIN profile \cap RouteIfaces = DOMAIN profile
    BY ZenonT(30) DEF IsHost
  <2> QED
    BY ZenonT(30), <2>1 DEF Only, IsHost, IsConf
<1>4. made.other = Without(profile, RouteIfaces)
  BY SMTT(30), <1>2 DEF RoutingSetting, WithKnown
<1> DEFINE Old(i) == Get(profile, i, NewIface)
           rules == RulesStored(c, cur, merged, [i \in RouteIfaces |-> Old(i).rules], variant)
<1>5. made.known = [i \in MergedIfaces(c, cur) |->
                        [stack |-> MergedStack(c, cur, i),
                         routes |-> StoredRoutes(c, cur, merged, i, Old(i).routes),
                         rules |-> [j \in DOMAIN rules[i] |-> NmRule(rules[i][j])]]]
  <2>1. set.known = profile
    BY SMTT(30), <1>2, <1>3
  <2> HIDE DEF set
  <2> QED
    BY SMTT(30), <1>2, <2>1 DEF RoutingSetting, WithKnown
<1> HIDE DEF made, rules
<1>6. DOMAIN made.other = {}
  BY ZenonT(30), <1>4 DEF Without, IsHost
<1>7. /\ IsConf(ToDict(made)) /\ DOMAIN ToDict(made) = DOMAIN made.known
      /\ \A i \in DOMAIN made.known : ToDict(made)[i] = made.known[i]
  BY ZenonT(30), <1>6 DEF ToDict, Over, IsConf
<1>8. new = ToDict(made)
  BY ZenonT(30), <1>1
<1>9. /\ DOMAIN made.known = MergedIfaces(c, cur)
      /\ \A i \in MergedIfaces(c, cur) :
           Says(made.known[i], "routes") /\ made.known[i].routes = StoredRoutes(c, cur, merged, i, Old(i).routes)
  <2> HIDE DEF Old
  <2>1. \A x, y, z : LET iface == [stack |-> x, routes |-> y, rules |-> z]
                     IN  Says(iface, "routes") /\ iface.routes = y
    BY ZenonT(30) DEF Says
  <2> QED
    BY SMTT(30), <1>5, <2>1
<1> HIDE DEF Old
<1> HIDE DEF new
<1>10. /\ IsConf(new) /\ DOMAIN new = MergedIfaces(c, cur)
       /\ \A i \in DOMAIN new :
            Says(new[i], "routes") /\ new[i].routes = StoredRoutes(c, cur, merged, i, Old(i).routes)
  BY ZenonT(30), <1>7, <1>8, <1>9
<1> QED
  BY ZenonT(30), <1>10 DEF Old, new

(* A link that NetworkManager keeps may have more routes than its profile. *)
LEMMA HostIsActivated ==
  ASSUME kind \in RoutingKinds, NEW new, DOMAIN new \subseteq RouteIfaces,
         \A i \in DOMAIN new : Says(new[i], "routes"), Activated(new, Nothing)
  PROVE  /\ DOMAIN kernel' = DOMAIN new /\ lost' = Nothing
         /\ \A i \in DOMAIN new : \A s \in new[i].routes : FullRoute(s) \in kernel'[i].routes
<1> DEFINE goal == NmRouting(new)
<1>1. NmAttributes(kind, new) = goal
  BY ZenonT(30) DEF NmAttributes, IpKinds, RoutingKinds, NameOf
<1>2. Fixed(kind, profile) = {} /\ Nothing = "nothing"
  BY ZenonT(30) DEF Fixed, Nothing, NameOf, RoutingKinds
<1>3. DOMAIN goal = DOMAIN new /\ \A i \in DOMAIN new : goal[i] = [new[i] EXCEPT !.routes = {FullRoute(r) : r \in @}]
  <2>1. DOMAIN new \cap RouteIfaces = DOMAIN new
    OBVIOUS
  <2> QED
    BY ZenonT(30), <2>1 DEF NmRouting, FullRoute
<1> HIDE DEF goal
<1>4. \A i \in DOMAIN new : /\ Says(goal[i], "routes") /\ goal[i].routes = {FullRoute(r) : r \in new[i].routes}
  BY ZenonT(30), <1>3 DEF Says
<1>5. kernel' = [i \in DOMAIN new |-> Reached(i, new)]
  BY ZenonT(30), <1>1, <1>2, <1>3 DEF Activated, RouteIfaces
<1>6. \A i \in DOMAIN new : goal[i].routes \subseteq Reached(i, new).routes
  BY ZenonT(30), <1>1, <1>4 DEF Reached, NmReapplied, Says
<1> QED
  BY ZenonT(30), <1>4, <1>5, <1>6 DEF Activated

-----------------------------------------------------------------------------
(* The applies of the routes. *)

IsHosted == IsHost(profile) /\ kernel = NmRouting(profile)

LEMMA HostedIsShown ==
  ASSUME kind \in RoutingKinds, IsHosted
  PROVE  Current(kernel) = RoutingShown(kernel)
<1>1. DOMAIN kernel # {}
  BY ZenonT(30), HostIsRouted DEF IsHosted, IsHost, Says
<1> QED
  BY ZenonT(30), <1>1, RoutingIsShown

(* The routes that d does not remove are shown of both kernels, or others of  *)
(* those that they are equal to.                                              *)
RoutesStay(d, old, new) ==
  LET cur == RoutingShown(old)
      c == RoutingApplied(d, cur)
  IN  /\ Says(old, "lo") /\ Says(new, "lo")
      /\ \A r \in RoutesShown(old) : IsToStay(c, cur, r) =>
           \/ r \in RoutesShown(new)
           \/ IsToReplace(c, cur, r) /\ \E o \in RoutesShown(new) : SameTarget(o, r)

(* The change is made to the profiles that were found, and the routes that it *)
(* shall keep are there once it is activated.                                 *)
RouteInv ==
  kind \in RoutingKinds =>
    /\ round = 1 => stage = "idle" /\ IsHosted
    /\ way = "change" /\ stage \in {"asked", "merged", "read"} => IsHosted /\ before = kernel
    /\ way = "change" /\ stage \in {"merged", "read"} => RoutingApplied(desired, RoutingShown(kernel)) # Rejected
    /\ stage = "read" => read = profile
    /\ way = "change" /\ HasApplied /\ lost = Nothing => RoutesStay(desired, before, kernel)

(* What the activation of the new profiles leaves. *)
LEMMA RoutesAreActivated ==
  ASSUME kind \in RoutingKinds, IsHosted, RoutingApplied(desired, RoutingShown(kernel)) # Rejected,
         NEW merged \in MergedRoutes(RoutingApplied(desired, RoutingShown(kernel)), RoutingShown(kernel)),
         NewDict(profile, merged) # Rejected, Activated(NewDict(profile, merged), Nothing)
  PROVE  RoutesStay(desired, kernel, kernel')
<1> DEFINE cur == RoutingShown(kernel)
           c == RoutingApplied(desired, cur)
           new == NewDict(profile, merged)
<1>0. IsHost(profile) /\ kernel = NmRouting(profile)
  BY ZenonT(30) DEF IsHosted
<1>1. /\ DOMAIN new = MergedIfaces(c, cur)
      /\ \A i \in DOMAIN new :
           /\ Says(new[i], "routes")
           /\ new[i].routes = StoredRoutes(c, cur, merged, i, Get(profile, i, NewIface).routes)
  BY ZenonT(30), <1>0, HostIsStored
<1> HIDE DEF cur, c, new
<1>2. MergedIfaces(c, cur) \subseteq RouteIfaces
  BY ZenonT(30) DEF MergedIfaces
<1>3. /\ DOMAIN kernel' = MergedIfaces(c, cur)
      /\ \A i \in MergedIfaces(c, cur) : \A s \in new[i].routes : FullRoute(s) \in kernel'[i].routes
  BY ZenonT(30), <1>1, <1>2, HostIsActivated DEF new
<1>4. Says(kernel, "lo") /\ Says(kernel', "lo")
  <2>1. "lo" \in MergedIfaces(c, cur)
    BY ZenonT(30) DEF MergedIfaces, MergedStack, RouteIfaces
  <2> QED
    BY ZenonT(30), <1>0, <1>3, <2>1, HostIsRouted DEF Says, IsHost
<1>5. ASSUME NEW r \in RoutesShown(kernel), IsToStay(c, cur, r)
      PROVE  \/ r \in RoutesShown(kernel')
             \/ IsToReplace(c, cur, r) /\ \E o \in RoutesShown(kernel') : SameTarget(o, r)
  <2>1. PICK i \in DOMAIN profile : \E p \in profile[i].routes : r = RouteShown(i, FullRoute(p))
    BY SMTT(30), <1>0, HostIsRouted DEF RoutesShown
  <2>2. PICK q \in profile[i].routes : r = RouteShown(i, FullRoute(q))
    BY ZenonT(30), <2>1
  <2>3. cur.routes = RoutesShown(NmRouting(profile)) /\ (Says(cur, "eth1") <=> Says(profile, "eth1"))
    BY ZenonT(30), <1>0, RoutingFields, HostIsRouted DEF cur, Says
  <2>4. /\ i \in MergedIfaces(c, cur)
        /\ \E s \in StoredRoutes(c, cur, merged, i, profile[i].routes) :
             \/ FullRoute(s) = FullRoute(q)
             \/ IsToReplace(c, cur, r) /\ SameTarget(RouteShown(i, FullRoute(s)), r)
    <3>1. c = RoutingApplied(desired, cur) /\ c # Rejected /\ merged \in MergedRoutes(c, cur)
      BY ZenonT(30) DEF c, cur
    <3> QED
      BY SMTT(30), <1>0, <1>5, <2>2, <2>3, <3>1, RouteIsStored
  <2>5. PICK s \in StoredRoutes(c, cur, merged, i, profile[i].routes) :
          \/ FullRoute(s) = FullRoute(q)
          \/ IsToReplace(c, cur, r) /\ SameTarget(RouteShown(i, FullRoute(s)), r)
    BY ZenonT(30), <2>4
  <2>6. new[i].routes = StoredRoutes(c, cur, merged, i, profile[i].routes)
    BY ZenonT(30), <1>1, <2>1, <2>4 DEF Get, Says
  <2>7. FullRoute(s) \in kernel'[i].routes
    BY ZenonT(30), <1>3, <2>4, <2>5, <2>6
  <2>8. RouteShown(i, FullRoute(s)) \in RoutesShown(kernel')
    BY SMTT(30), <1>3, <2>4, <2>7 DEF RoutesShown
  <2> QED
    BY ZenonT(30), <2>2, <2>5, <2>8
<1> QED
  BY ZenonT(30), <1>4, <1>5 DEF RoutesStay, cur, c

(* Every step of an apply keeps it. *)
LEMMA RouteInvariant == Spec => []RouteInv
<1>1. Init => RouteInv
  BY SMTT(30) DEF Init, RouteInv, HasApplied
<1>2. ASSUME RouteInv, [Next]_vars
      PROVE  RouteInv'
  <2> SUFFICES ASSUME kind \in RoutingKinds, kind' = kind
               PROVE  RouteInv'
    <3>1. kind' \notin RoutingKinds => RouteInv'
      BY ZenonT(30) DEF RouteInv
    <3>2. kind' = kind
      BY ZenonT(30), <1>2 DEF Next, Create, Adopt, Change, Follow, Merged, Read, Apply, Verify, OtherKeyStored, Done, Begin, vars
    <3> QED
      BY ZenonT(30), <3>1, <3>2
  <2>0. Nothing = "nothing" /\ Nothing' = "nothing"
    BY ZenonT(30) DEF Nothing, NameOf, RoutingKinds
  <2>1. CASE UNCHANGED vars
    BY ZenonT(30), <1>2, <2>0, <2>1 DEF RouteInv, IsHosted, HasApplied, vars
  <2>2. ASSUME NEW w, NEW d, Begin(w, d), round \in {1, 2}, w = "change" => round = 1
        PROVE  RouteInv'
    BY SMTT(30), <1>2, <2>0, <2>2 DEF RouteInv, Begin, IsHosted, HasApplied
  <2>3. CASE Create
    BY ZenonT(30), <2>3, HostIsThere DEF Create
  <2>4. CASE Adopt
    <3>1. PICK dict \in Adopted[kind] :
            profile' = GetSettings(kind, dict) /\ kernel' = NmAttributes(kind, dict)
      BY ZenonT(30), <2>4 DEF Adopt
    <3>2. IsHost(dict) /\ IsConf(dict)
      BY ZenonT(30), <3>1, HostIsThere DEF IsHost
    <3>3. profile' = dict /\ kernel' = NmRouting(dict)
      BY ZenonT(30), <3>1, <3>2, HostIsRead
    <3>4. stage' = "idle" /\ way' = "adopt"
      BY ZenonT(30), <2>4 DEF Adopt
    <3> QED
      BY ZenonT(30), <2>0, <3>2, <3>3, <3>4 DEF RouteInv, IsHosted, HasApplied
  <2>5. CASE Change
    <3>1. round = 1 /\ \E w, d : Begin(w, d)
      BY ZenonT(30), <2>5 DEF Change
    <3> QED
      BY ZenonT(30), <2>2, <3>1
  <2>6. CASE Follow
    <3>1. round = 2 /\ \E w, d : Begin(w, d) /\ w # "change"
      BY SMTT(30), <2>6 DEF Follow
    <3> QED
      BY ZenonT(30), <2>2, <3>1
  <2>7. CASE Merged
    <3>1. /\ stage = "asked" /\ UNCHANGED <<round, way, desired, profile, kernel, before, lost>>
          /\ \/ stage' = "idle" /\ outcome' = "rejected"
             \/ stage' = "merged" /\ ForApply(kind, desired, Current(kernel)) # Rejected
      BY ZenonT(30), <2>7 DEF Merged, Ending
    <3>2. way = "change" /\ stage' = "merged" => RoutingApplied(desired, RoutingShown(kernel)) # Rejected
      <4> SUFFICES ASSUME way = "change", stage' = "merged"
                   PROVE  RoutingApplied(desired, RoutingShown(kernel)) # Rejected
        OBVIOUS
      <4>1. Current(kernel) = RoutingShown(kernel)
        BY ZenonT(30), <1>2, <3>1, HostedIsShown DEF RouteInv
      <4> QED
        BY ZenonT(30), <3>1, <4>1, RoutingForApply
    <3> QED
      BY ZenonT(30), <1>2, <2>0, <3>1, <3>2 DEF RouteInv, IsHosted, HasApplied
  <2>8. CASE Apply
    <3>1. PICK merged \in MergedLists(ForApply(kind, desired, Current(kernel)), Current(kernel)) :
            /\ stage = "read" /\ UNCHANGED <<round, way, desired, before>>
            /\ \/ /\ NewDict(read, merged) # Rejected /\ stage' = "activated"
                  /\ \E a : Activated(NewDict(read, merged), a)
               \/ stage' = "idle" /\ outcome' = "refused"
      BY ZenonT(30), <2>8 DEF Apply, Ending
    <3>2. round # 1 /\ read = profile
      BY ZenonT(30), <1>2, <3>1 DEF RouteInv
    <3>3. CASE stage' = "idle"
      BY ZenonT(30), <1>2, <2>0, <3>1, <3>2, <3>3 DEF RouteInv, HasApplied
    <3>4. CASE stage' = "activated"
      <4>1. PICK a : Activated(NewDict(profile, merged), a)
        BY ZenonT(30), <3>1, <3>2, <3>4
      <4>2. lost' = a
        BY ZenonT(30), <4>1 DEF Activated
      <4>3. a = Nothing /\ way = "change" => RoutesStay(desired, before, kernel')
        <5> SUFFICES ASSUME a = Nothing, way = "change"
                     PROVE  RoutesStay(desired, before, kernel')
          OBVIOUS
        <5>1. /\ IsHosted /\ before = kernel /\ RoutingApplied(desired, RoutingShown(kernel)) # Rejected
          BY ZenonT(30), <1>2, <3>1 DEF RouteInv
        <5>2. Current(kernel) = RoutingShown(kernel)
          BY ZenonT(30), <5>1, HostedIsShown
        <5>3. merged \in MergedRoutes(RoutingApplied(desired, RoutingShown(kernel)), RoutingShown(kernel))
          BY ZenonT(30), <3>1, <5>1, <5>2, RoutingForApply DEF MergedLists
        <5> QED
          BY ZenonT(30), <3>1, <3>2, <3>4, <4>1, <5>1, <5>3, RoutesAreActivated
      <4>4. RoutesStay(desired, before, kernel)' = RoutesStay(desired, before, kernel')
        BY ZenonT(30), <3>1 DEF RoutesStay
      <4> QED
        BY SMTT(30), <2>0, <3>1, <3>2, <3>4, <4>2, <4>3, <4>4 DEF RouteInv, HasApplied
    <3> QED
      BY ZenonT(30), <3>1, <3>3, <3>4
  <2>9. CASE Verify
    BY ZenonT(30), <1>2, <2>0, <2>9 DEF Verify, Ending, RouteInv, HasApplied
  <2>10. CASE OtherKeyStored
    BY ZenonT(30), <2>10 DEF OtherKeyStored, HostKinds, RoutingKinds
  <2>11. CASE Read
    BY ZenonT(30), <1>2, <2>0, <2>11 DEF Read, RouteInv, IsHosted, HasApplied
  <2> QED
    BY ZenonT(30), <1>2, <2>1, <2>3, <2>4, <2>5, <2>6, <2>7, <2>8, <2>9, <2>10, <2>11 DEF Next, Done
<1> QED
  BY <1>1, <1>2, PTL DEF Spec

(* A route that no absent entry matches, on an interface that keeps its IP     *)
(* stack, is shown after an apply as it was before (MergedRoutes::new(),       *)
(* store_route_config(), gen_nm_ip_setting(), np_route_to_nmstate()), for any  *)
(* routes of the host and any desired state: where a route of its interface    *)
(* changes, every route of that interface is written anew from what was shown  *)
(* of it, and becomes the same route.  Two are excepted there: a typed IPv4    *)
(* route, which is shown without its interface; and one that dedup() takes for *)
(* equal to another, of which one to the same destination is left.             *)
THEOREM RoutesAreKept == Spec => []RoutesKept
<1>1. RouteInv => RoutesKept
  <2> SUFFICES ASSUME RouteInv, Ended, way = "change", outcome = "verified", lost = Nothing, kind \in RoutingKinds,
                      NEW r \in Report(before).routes,
                      ~CannotHave(ForApply(kind, desired, Report(before)), Report(before), r),
                      ~RemovedBy(Get(ForApply(kind, desired, Report(before)), "routes", {}), r)
               PROVE  LET applied == ForApply(kind, desired, Report(before))
                          IsRewritten == RouteIface(r) \in RouteChangedIfaces(applied, Report(before))
                          IsDoubled == RouteIsDoubled(r, RoutesToMerge(applied, Report(before)))
                      IN  \/ r \in Report(kernel).routes
                          \/ IsRewritten /\ ~Says(r, "iface")
                          \/ IsRewritten /\ IsDoubled /\ \E o \in Report(kernel).routes : SameTarget(o, r)
    BY ZenonT(30) DEF RoutesKept
  <2>1. RoutesStay(desired, before, kernel)
    BY ZenonT(30) DEF RouteInv, HasApplied, Ended
  <2>2. DOMAIN before # {} /\ DOMAIN kernel # {}
    BY ZenonT(30), <2>1 DEF RoutesStay, Says
  <2>3. /\ Report(before) = RoutingShown(before) /\ Report(before).routes = RoutesShown(before)
        /\ Report(kernel).routes = RoutesShown(kernel)
    BY ZenonT(30), <2>2, RoutingIsShown, RoutingFields
  <2>4. ForApply(kind, desired, Report(before)) = RoutingApplied(desired, Report(before))
    BY RoutingForApply
  <2> QED
    BY ZenonT(30), <2>1, <2>3, <2>4 DEF RoutesStay, IsToStay, IsToReplace
<1> QED
  BY <1>1, RouteInvariant, PTL
=============================================================================
