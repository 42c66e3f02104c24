--------------------------- MODULE SectionsProofs ---------------------------
(***************************************************************************)
(* Proofs about sections: the laws of the operations on configurations, of *)
(* which verify(), gen_diff() and generate_revert() are made, and that the *)
(* keys of a profile that nmstate does not know survive every apply.       *)
(*                                                                         *)
(* What a whole section becomes on its way through NetworkManager and back *)
(* is left to the model checker.                                           *)
(***************************************************************************)
EXTENDS Sections, TLAPS

-----------------------------------------------------------------------------
(* Configurations. *)

LEMMA OverFacts ==
  ASSUME NEW c, NEW d
  PROVE  /\ DOMAIN Over(c, d) = DOMAIN c \cup DOMAIN d
         /\ \A f \in DOMAIN c : Over(c, d)[f] = c[f]
         /\ \A f \in DOMAIN d \ DOMAIN c : Over(c, d)[f] = d[f]
         /\ IsConf(Over(c, d))
BY DEF Over, IsConf

LEMMA SameConf ==
  ASSUME NEW c, NEW d, IsConf(c), IsConf(d),
         DOMAIN c = DOMAIN d, \A f \in DOMAIN c : c[f] = d[f]
  PROVE  c = d
BY DEF IsConf

(* What merge_json_value() makes of a desired and a current configuration    *)
(* passes the comparison of get_json_value_difference() with the desired one. *)
THEOREM MergedAgrees ==
  ASSUME NEW d, NEW c
  PROVE  Agrees(d, Merge(d, c))
BY ZenonT(30), OverFacts DEF Agrees, Merge, Says

(* The difference gen_diff_json_value() makes is enough: merged with what is  *)
(* current it gives what the whole desired configuration gives.               *)
THEOREM DiffSuffices ==
  ASSUME NEW d, NEW c
  PROVE  Merge(Diff(d, c), c) = Merge(d, c)
<1>1. DOMAIN Merge(Diff(d, c), c) = DOMAIN Merge(d, c)
  BY DEF Merge, Over, Diff, Only, Says
<1>2. \A f \in DOMAIN Merge(d, c) : Merge(Diff(d, c), c)[f] = Merge(d, c)[f]
  BY DEF Merge, Over, Diff, Only, Says
<1>3. IsConf(Merge(Diff(d, c), c)) /\ IsConf(Merge(d, c))
  BY DEF Merge, Over, IsConf
<1> QED
  BY <1>1, <1>2, <1>3, SameConf

(* And it is needed: nothing is left of it once it has been merged, and every *)
(* field of it is missing from what is current or has another value there.    *)
THEOREM DiffIsNeeded ==
  ASSUME NEW d, NEW c
  PROVE  /\ DOMAIN Diff(d, Merge(d, c)) = {}
         /\ \A f \in DOMAIN Diff(d, c) : Says(c, f) => c[f] # d[f]
<1>1. \A f \in DOMAIN d : Says(Merge(d, c), f) /\ Merge(d, c)[f] = d[f]
  BY DEF Merge, Over, Says
<1> QED
  BY <1>1 DEF Diff, Only

(* Merging what gen_revert_state() makes of a desired configuration brings    *)
(* back the configuration there was, when that had all the fields desired.    *)
THEOREM RevertUndoes ==
  ASSUME NEW d, NEW c, IsConf(c), DOMAIN d \subseteq DOMAIN c
  PROVE  Merge(RevertOf(d, c), Merge(d, c)) = c
<1> DEFINE r == Merge(RevertOf(d, c), Merge(d, c))
<1>1. DOMAIN r = DOMAIN c /\ \A f \in DOMAIN c : r[f] = c[f]
  BY DEF Merge, Over, RevertOf, Only
<1>2. IsConf(r)
  BY DEF Merge, Over, IsConf
<1> QED
  BY <1>1, <1>2, SameConf

-----------------------------------------------------------------------------
(* The settings of a profile. *)

(* Reading a setting and writing it back gives the dictionary there was:     *)
(* no key is lost between the known ones and `_other`.                       *)
THEOREM SettingRoundTrip ==
  ASSUME NEW dict, NEW keys, IsConf(dict)
  PROVE  ToDict(FromDict(dict, keys)) = dict
<1> DEFINE r == ToDict(FromDict(dict, keys))
<1>1. DOMAIN r = DOMAIN dict /\ \A f \in DOMAIN dict : r[f] = dict[f]
  BY DEF ToDict, FromDict, Setting, Over, Only, Without
<1>2. IsConf(r)
  BY DEF ToDict, Over, IsConf
<1> QED
  BY <1>1, <1>2, SameConf

(* The kinds whose setting is made on top of the stored one. *)
KeepingKinds ==
  {"vlan", "macsec", "hsr", "ipvlan", "infiniband", "connection", "wired", "dispatch", "ovsbridge"}

Holds(s, other) == "other" \in DOMAIN s /\ s.other = other

LEMMA WithKnownHolds ==
  ASSUME NEW s, NEW other, Holds(s, other), NEW known
  PROVE  Holds(WithKnown(s, known), other)
BY DEF WithKnown, Holds

(* iface_to_nm_connections() writes the known keys of the setting only. *)
LEMMA SettingHolds ==
  ASSUME NEW k \in KeepingKinds, NEW c, NEW s, NEW other, Holds(s, other), NEW cur, NEW merged
  PROVE  Holds(SettingOf(k, c, s, cur, merged), other)
<1>1. CASE k = "vlan"
  <2>1. SettingOf(k, c, s, cur, merged) = VlanSetting(c, s)
    BY <1>1 DEF SettingOf, NameOf, RoutingKinds
  <2>2. Holds(VlanSetting(c, s), other)
    BY DEF VlanSetting, WithKnown, Holds
  <2> QED
    BY <2>1, <2>2
<1>2. CASE k = "macsec"
  <2>1. SettingOf(k, c, s, cur, merged) = MacSecSetting(c, s)
    BY <1>2 DEF SettingOf, NameOf, RoutingKinds
  <2>2. Holds(MacSecSetting(c, s), other)
    BY DEF MacSecSetting, WithKnown, Holds
  <2> QED
    BY <2>1, <2>2
<1>3. CASE k = "hsr"
  <2>1. SettingOf(k, c, s, cur, merged) = HsrSetting(c, s)
    BY <1>3 DEF SettingOf, NameOf, RoutingKinds
  <2>2. Holds(HsrSetting(c, s), other)
    BY DEF HsrSetting, WithKnown, Holds
  <2> QED
    BY <2>1, <2>2
<1>4. CASE k = "ipvlan"
  <2>1. SettingOf(k, c, s, cur, merged) = IpVlanSetting(c, s)
    BY <1>4 DEF SettingOf, NameOf, RoutingKinds
  <2>2. Holds(IpVlanSetting(c, s), other)
    BY DEF IpVlanSetting, WithKnown, Holds
  <2> QED
    BY <2>1, <2>2
<1>5. CASE k = "infiniband"
  <2>1. SettingOf(k, c, s, cur, merged) = IbSetting(c, s)
    BY <1>5 DEF SettingOf, NameOf, RoutingKinds
  <2>2. Holds(IbSetting(c, s), other)
    BY DEF IbSetting, WithKnown, Holds
  <2> QED
    BY <2>1, <2>2
<1>6. CASE k = "connection"
  <2>1. SettingOf(k, c, s, cur, merged) = ConnSetting(c, s)
    BY <1>6 DEF SettingOf, NameOf, RoutingKinds
  <2>2. Holds(ConnSetting(c, s), other)
    BY DEF ConnSetting, WithKnown, Holds
  <2> QED
    BY <2>1, <2>2
<1>7. CASE k = "wired"
  <2>1. SettingOf(k, c, s, cur, merged) = WiredSetting(c, s)
    BY <1>7 DEF SettingOf, NameOf, RoutingKinds
  <2>2. Holds(WiredSetting(c, s), other)
    BY DEF WiredSetting, WithKnown, Holds
  <2> QED
    BY <2>1, <2>2
<1>8. CASE k = "dispatch"
  <2>1. SettingOf(k, c, s, cur, merged) = WithKnown(s, DispatchFiles(NameOf[k], c, s.known))
    BY <1>8 DEF SettingOf, NameOf, RoutingKinds
  <2> QED
    BY <2>1, WithKnownHolds
<1>9. CASE k = "ovsbridge"
  <2>1. SettingOf(k, c, s, cur, merged) = OvsBridgeSetting(c, s, cur)
    BY <1>9 DEF SettingOf, NameOf, RoutingKinds
  <2>2. Holds(OvsBridgeSetting(c, s, cur), other)
    BY Zenon DEF OvsBridgeSetting, WithKnown, Holds
  <2> QED
    BY <2>1, <2>2
<1> QED
  BY <1>1, <1>2, <1>3, <1>4, <1>5, <1>6, <1>7, <1>8, <1>9 DEF KeepingKinds

(* to_value() writes what is in `_other`. *)
LEMMA ToValueHolds ==
  ASSUME NEW k \in KeepingKinds, NEW s, NEW other, Holds(s, other)
  PROVE  DOMAIN other \subseteq DOMAIN ToValue(k, s)
<1>1. \A t : Holds(t, other) => DOMAIN other \subseteq DOMAIN ToDict(t)
  BY DEF Holds, ToDict, Over
<1>2. CASE k = "macsec"
  <2>1. ToValue(k, s) = MacSecToValue(s)
    BY <1>2 DEF ToValue
  <2> QED
    BY <1>1, <2>1, WithKnownHolds DEF MacSecToValue
<1>3. CASE k = "hsr"
  <2>1. ToValue(k, s) = HsrToValue(s)
    BY <1>3 DEF ToValue
  <2> QED
    BY <1>1, <2>1, WithKnownHolds DEF HsrToValue
<1>4. CASE k = "connection"
  <2>1. ToValue(k, s) = ConnToValue(s)
    BY <1>4 DEF ToValue
  <2> QED
    BY <2>1 DEF ConnToValue, Holds, Over
<1>5. CASE k \notin {"macsec", "hsr", "connection"}
  <2>1. ToValue(k, s) = ToDict(s)
    BY <1>5 DEF ToValue, KeepingKinds
  <2> QED
    BY <1>1, <2>1
<1> QED
  BY <1>2, <1>3, <1>4, <1>5

-----------------------------------------------------------------------------
(* Keys nmstate does not know. *)

LEMMA OtherKeyIsUnknown ==
  ASSUME kind \in KeepingKinds
  PROVE  OtherKey \notin KeysOf[kind]
<1>1. CASE kind = "dispatch"
  <2>1. /\ OtherKey = <<"other">>
        /\ KeysOf[kind] = {DispatchFile(<<"eth1">>, f) : f \in DOMAIN DispatchConfig}
    BY <1>1 DEF OtherKey, NameOf, KeysOf
  <2>2. \A f : DispatchFile(<<"eth1">>, f)[1] = "nmstate"
    BY SMTT(30) DEF DispatchFile
  <2> QED
    BY SMTT(30), <2>1, <2>2
<1>2. CASE kind = "ovsbridge"
  <2>1. OtherKey = "unknown" /\ KeysOf[kind] = OvsBridgeKeys
    BY <1>2 DEF OtherKey, NameOf, KeysOf
  <2>2. "unknown" \notin OvsPortKeys
    BY DEF OvsPortKeys, Range, OvsNames
  <2> QED
    BY SMTT(30), <2>1, <2>2 DEF OvsBridgeKeys, OvsKeyOf, OvsNameKeyOf, Columns
<1>3. CASE kind \notin {"dispatch", "ovsbridge"}
  <2>1. OtherKey = "unknown"
    BY <1>3 DEF OtherKey, NameOf, KeepingKinds
  <2> QED
    BY SMTT(30), <1>3, <2>1 DEF KeepingKinds, KeysOf, VlanKeys, MacSecKeys, HsrKeys, IpVlanKeys,
         IbKeys, ConnKeys, WiredKeys
<1> QED
  BY <1>1, <1>2, <1>3

LEMMA OtherKeyHasNoDefault ==
  ASSUME kind \in KeepingKinds
  PROVE  OtherKey \notin DOMAIN NmDefaults[kind]
<1>1. CASE kind = "dispatch"
  BY SMTT(30), <1>1 DEF NmDefaults, Over, ConfigOf, Unset
<1>2. CASE kind # "dispatch"
  <2>1. OtherKey = "unknown"
    BY <1>2 DEF OtherKey, NameOf, KeepingKinds
  <2>2. CASE kind = "vlan"
    BY <2>1, <2>2 DEF NmDefaults, Over, NmVlanDefaults
  <2>3. CASE kind = "macsec"
    BY <2>1, <2>3 DEF NmDefaults, Over, NmMacSecDefaults
  <2>4. CASE kind = "hsr"
    BY <2>1, <2>4 DEF NmDefaults, Over, NmHsrDefaults
  <2>5. CASE kind = "ipvlan"
    BY <2>1, <2>5 DEF NmDefaults, Over, NmIpVlanDefaults
  <2>6. CASE kind = "infiniband"
    BY SMTT(30), <2>1, <2>6 DEF NmDefaults, Over, ConfigOf, Unset
  <2>7. CASE kind = "connection"
    BY <2>1, <2>7 DEF NmDefaults, Over, NmConnDefaults
  <2>8. CASE kind = "wired"
    BY <2>1, <2>8 DEF NmDefaults, Over, NmWiredDefaults
  <2>9. CASE kind = "ovsbridge"
    BY SMTT(30), <2>1, <2>9 DEF NmDefaults, Over, NmOvsBridgeDefaults, OvsKeyOf
  <2> QED
    BY <1>2, <2>2, <2>3, <2>4, <2>5, <2>6, <2>7, <2>8, <2>9 DEF KeepingKinds
<1> QED
  BY <1>1, <1>2

(* GetSettings() returns the keys that were stored, but for defaults. *)
LEMMA GetSettingsKeeps ==
  ASSUME kind \in KeepingKinds, NEW dict, Says(dict, OtherKey)
  PROVE  Says(GetSettings(kind, dict), OtherKey)
BY OtherKeyHasNoDefault DEF GetSettings, Says, Without, KeepingKinds

(* The dictionary that is stored has the unknown keys of the one it is made of. *)
LEMMA NewDictKeeps ==
  ASSUME NEW old, NEW merged, kind \in KeepingKinds, Says(old, OtherKey), NewDict(old, merged) # Rejected
  PROVE  Says(NewDict(old, merged), OtherKey)
<1> DEFINE set == FromDict(old, KeysOf[kind])
           c == ForApply(kind, desired, Current(kernel))
           made == SettingOf(kind, c, set, Current(kernel), merged)
<1>1. Holds(set, Without(old, KeysOf[kind]))
  BY Zenon DEF FromDict, Setting, Holds
<1>2. OtherKey \in DOMAIN Without(old, KeysOf[kind])
  BY OtherKeyIsUnknown DEF Without, Says
<1>3. NewDict(old, merged) = IF made = Rejected THEN Rejected ELSE ToValue(kind, made)
  BY Zenon DEF NewDict
<1> HIDE DEF set, c
<1>4. Holds(made, Without(old, KeysOf[kind]))
  BY <1>1, SettingHolds
<1> HIDE DEF made
<1> QED
  BY <1>2, <1>3, <1>4, ToValueHolds DEF Says

(* Before the first apply there is no profile to lose a key of. *)
Fresh == round \in Nat /\ (round = 0 => stage = "idle" /\ profile = Unset)

LEMMA FreshInvariant == Spec => []Fresh
<1>1. Init => Fresh
  BY SMTT(30) DEF Init, Fresh
<1>2. ASSUME Fresh, [Next]_vars
      PROVE  Fresh'
  <2>1. CASE Adopt
    BY SMTT(30), <2>1 DEF Adopt, Fresh
  <2>2. ASSUME NEW w, NEW d, Begin(w, d)
        PROVE  Fresh'
    BY SMTT(30), <1>2, <2>2 DEF Begin, Fresh
  <2>3. CASE Create
    BY <2>2, <2>3 DEF Create
  <2>4. CASE Change
    BY <2>2, <2>4 DEF Change
  <2>5. CASE Follow
    BY <2>2, <2>5 DEF Follow
  <2>6. CASE Merged
    BY <1>2, <2>6 DEF Merged, Fresh
  <2>7. CASE Apply
    BY <1>2, <2>7 DEF Apply, Fresh
  <2>8. CASE Verify
    BY <1>2, <2>8 DEF Verify, Fresh
  <2>9. CASE OtherKeyStored
    BY SMTT(30), <1>2, <2>9 DEF OtherKeyStored, Fresh
  <2>10. CASE UNCHANGED vars
    BY <1>2, <2>10 DEF vars, Fresh
  <2>11. CASE Read
    BY <1>2, <2>11 DEF Read, Fresh
  <2> QED
    BY <1>2, <2>1, <2>3, <2>4, <2>5, <2>6, <2>7, <2>8, <2>9, <2>10, <2>11 DEF Next, Done
<1> QED
  BY <1>1, <1>2, PTL DEF Spec

(* A key of the profile that nmstate does not know survives every apply, in   *)
(* the kinds whose setting is made on top of the stored one, if it was there  *)
(* when nm_apply() got the profiles: whatever the desired states, the         *)
(* profiles that were adopted and the bounds are, even when NetworkManager    *)
(* leaves defaults out.  Nothing keeps a key that is stored after that, until *)
(* the profile is saved.                                                      *)
THEOREM UnknownKeysSurvive == Spec => OtherKeysKept
<1> DEFINE Keeps == /\ Says(profile, OtherKey)
                    /\ stage = "read" => Says(read, OtherKey)
                    /\ kind \in KeepingKinds
                    => Says(profile', OtherKey)
<1>1. ASSUME Fresh, Next
      PROVE  Keeps
  <2>1. SUFFICES ASSUME Says(profile, OtherKey), kind \in KeepingKinds, stage = "read" => Says(read, OtherKey)
                 PROVE  Says(profile', OtherKey)
    OBVIOUS
  <2>2. round # 0
    BY SMTT(30), <1>1, <2>1 DEF Fresh, Says, Unset
  <2>3. ASSUME profile' = profile
        PROVE  Says(profile', OtherKey)
    BY <2>1, <2>3
  <2>4. CASE Apply
    <3>0. PICK merged : \E new \in {NewDict(read, merged)} :
            IF new # Rejected /\ NmAccepts(kind, new) /\ ~IsBlocked(new)
            THEN \E a : Activated(new, a)
            ELSE profile' = profile
      BY <2>4 DEF Apply
    <3>1. PICK new \in {NewDict(read, merged)} :
            IF new # Rejected /\ NmAccepts(kind, new) /\ ~IsBlocked(new)
            THEN \E a : Activated(new, a)
            ELSE profile' = profile
      BY <3>0
    <3>2. CASE new # Rejected /\ \E a : Activated(new, a)
      <4>1. profile' = GetSettings(kind, new)
        BY <3>2 DEF Activated
      <4>2. Says(read, OtherKey)
        BY <2>1, <2>4 DEF Apply
      <4>3. Says(new, OtherKey)
        BY <2>1, <3>1, <3>2, <4>2, NewDictKeeps
      <4> QED
        BY <2>1, <4>1, <4>3, GetSettingsKeeps
    <3> QED
      BY <2>3, <3>1, <3>2
  <2>5. CASE Create
    BY <2>2, <2>5 DEF Create
  <2>6. CASE Adopt
    BY <2>2, <2>6 DEF Adopt
  <2>7. CASE Change
    BY <2>3, <2>7 DEF Change, Begin
  <2>8. CASE Follow
    BY <2>3, <2>8 DEF Follow, Begin
  <2>9. CASE Merged
    BY <2>3, <2>9 DEF Merged
  <2>10. CASE Verify
    BY <2>3, <2>10 DEF Verify
  <2>11. CASE OtherKeyStored
    BY <2>1, <2>11 DEF OtherKeyStored
  <2>12. CASE Done
    BY <2>3, <2>12 DEF Done, vars
  <2>13. CASE Read
    BY <2>3, <2>13 DEF Read
  <2> QED
    BY <1>1, <2>4, <2>5, <2>6, <2>7, <2>8, <2>9, <2>10, <2>11, <2>12, <2>13 DEF Next
<1>2. Fresh /\ [Next]_vars => [Keeps]_vars
  BY <1>1
<1>3. Spec => [][Keeps]_vars
  BY <1>2, FreshInvariant, PTL DEF Spec
<1> QED
  BY <1>3 DEF OtherKeysKept, KeepingKinds
=============================================================================
