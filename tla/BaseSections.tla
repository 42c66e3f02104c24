---------------------------- MODULE BaseSections ----------------------------
(***************************************************************************)
(* The blocks of settings every interface may carry: the [connection]      *)
(* section (profile name, LLDP, MPTCP, controller), the description, the   *)
(* Ethernet link, ethtool, 802.1X and the dispatch scripts.  The           *)
(* definitions are laid out as in VirtualKinds.                            *)
(***************************************************************************)
EXTENDS Confs, FiniteSetsExt

-----------------------------------------------------------------------------
(* Lists.  SequencesExt has these too, but it brings with it so much that the *)
(* proofs about Sections take three times as long.                            *)

(* The elements of a set, in some order or sorted. *)
ListOf(S) == CHOOSE list \in [1 .. Cardinality(S) -> S] : IsInjective(list)
SortedList(S, Precedes(_, _)) == SortSeq(ListOf(S), Precedes)

(* A list from its first element to its last. *)
FoldList(Step(_, _), start, list) ==
  MapThenFoldSet(LAMBDA x, acc : Step(acc, x), start, LAMBDA i : list[i], Max, DOMAIN list)
Concat(lists) == FoldList(\o, <<>>, lists)
-----------------------------------------------------------------------------

(* The set of the pairs of a table, as a function. *)
TableOf(pairs) == [k \in {p[1] : p \in pairs} |-> (CHOOSE p \in pairs : p[1] = k)[2]]

-----------------------------------------------------------------------------
(* MPTCP: the flags are numbered as MptcpAddressFlag orders them. *)

Signal == 1
Subflow == 2
Backup == 3
Fullmesh == 4

MptcpConfig == {<<>>, <<Signal>>, <<Backup, Subflow>>, <<Subflow, Subflow>>,
                <<Subflow, Backup, Subflow>>, <<Signal, Fullmesh>>}

MptcpApplied(flags) ==
  IF {Signal, Fullmesh} \subseteq Range(flags) THEN Rejected ELSE flags

(* apply_mptcp_conf(): no flag at all means MPTCP disabled, 0x01. *)
MptcpDisabled == {1}
MptcpFlags(flags) ==
  LET Bit == <<16, 32, 64, 128>>
  IN  IF flags = <<>> THEN MptcpDisabled ELSE {8} \cup {Bit[f] : f \in Range(flags)}

(* Vec::dedup() removes repetitions that are next to each other. *)
Dedup(s) ==
  LET kept == {i \in DOMAIN s : i = 1 \/ s[i] # s[i - 1]}
      order == SortedList(kept, <)
  IN  [i \in DOMAIN order |-> s[order[i]]]

(* sanitize_desired_for_verify(), the same for the current flags *)
MptcpVerified(flags) == SortSeq(Dedup(flags), <)

NmMptcp(flags) == flags \ {1, 8}
MptcpShown(bits) ==
  LET Flag == (16 :> Signal) @@ (32 :> Subflow) @@ (64 :> Backup) @@ (128 :> Fullmesh)
  IN  SortedList({Flag[b] : b \in bits}, <)

-----------------------------------------------------------------------------
(* The [connection] section of the profile of interface eth1 *)

ConnConfig == [profile_name |-> {"eth1", "office"}, lldp_enabled |-> BOOLEAN,
               address_flags |-> MptcpConfig, controller |-> {"", "br0"}]

(* The controller is preserved, preserve_current_controller_info(). *)
ConnApplied(c, cur) ==
  IF Says(c, "address_flags") /\ MptcpApplied(c.address_flags) = Rejected THEN Rejected
  ELSE c @@ Only(cur, {"controller"})

(* A profile named after its interface is shown without a name. *)
ConnVerified(c) ==
  LET d == IF Says(c, "address_flags")
           THEN [c EXCEPT !.address_flags = MptcpVerified(@)] ELSE c
  IN  IF Get(c, "profile_name", "") = "eth1" THEN Without(d, {"profile_name"}) ELSE d

ConnController(c, known) ==
  IF ~Says(c, "controller") THEN Only(known, {"master", "slave-type"})
  ELSE IF c.controller = "" THEN Unset
  ELSE [master |-> c.controller] @@ ("slave-type" :> "bridge")

ConnSetting(c, s) ==
  LET fresh == IF s.known = Unset THEN [id |-> "eth1"] ELSE Unset
      flags == IF Says(c, "address_flags") THEN "mptcp-flags" :> MptcpFlags(c.address_flags) ELSE Unset
  IN  WithKnown(s, SetIfSaid(Unset, "id", c, "profile_name")
                     @@ SetIfSaid(Unset, "lldp", c, "lldp_enabled")
                     @@ flags @@ ConnController(c, s.known) @@ [autoconnect |-> TRUE]
                     @@ Only(s.known, {"id", "lldp", "mptcp-flags"}) @@ fresh)

ConnKeys == {"id", "master", "slave-type", "autoconnect", "lldp", "mptcp-flags"}

(* The link is not a controller: autoconnect-slaves is always the default. *)
ConnToValue(s) ==
  Over(s.other, [autoconnect |-> Get(s.known, "autoconnect", TRUE)]
                  @@ ("autoconnect-slaves" :> "default") @@ s.known)

NmConnDefaults == Over([lldp |-> FALSE, autoconnect |-> TRUE], [k \in {"autoconnect-slaves"} |-> "default"])
NmConn(dict) ==
  LET d == dict @@ NmConnDefaults
  IN  [id |-> d.id, lldp |-> d.lldp, controller |-> Get(d, "master", ""),
       mptcp |-> NmMptcp(Get(d, "mptcp-flags", MptcpDisabled))]

(* nm_conn_to_base_iface(), nispor for the rest *)
ConnShown(k) ==
  (IF k.id = "eth1" THEN Unset ELSE [profile_name |-> k.id])
    @@ (IF k.controller = "" THEN Unset ELSE [controller |-> k.controller])
    @@ [lldp_enabled |-> k.lldp, address_flags |-> MptcpShown(k.mptcp)]

IsMptcpFlagsChanged(new, old) ==
  /\ Says(new, "mptcp-flags") /\ Says(old, "mptcp-flags")
  /\ new["mptcp-flags"] # old["mptcp-flags"]

-----------------------------------------------------------------------------
(* The description, kept in the profile's [user] section *)

UserConfig == [description |-> {"", "uplink", "lab"}]

UserSetting(c, s) ==
  IF ~Says(c, "description") THEN s
  ELSE Setting(IF c.description = "" THEN Unset ELSE [data |-> c.description], Unset)

UserKeys == {"data"}

NmUser(dict) == [data |-> Get(dict, "data", "")]

UserShown(k) == [description |-> k.data]

-----------------------------------------------------------------------------
(* The Ethernet link: MAC address, MTU, promiscuity and link mode *)

WiredConfig == [mac_address |-> {"aa", "AA", "BB"}, mtu |-> {1500, 9000},
                accept_all_mac_addresses |-> BOOLEAN, auto_neg |-> BOOLEAN,
                speed |-> {100, 1000}, duplex |-> {"full", "half"}]

Uppercase(mac) == IF mac = "aa" THEN "AA" ELSE mac

(* BaseInterface::sanitize(), of what is applied and of what is verified *)
WiredSanitize(c) ==
  IF Says(c, "mac_address") THEN [c EXCEPT !.mac_address = Uppercase(@)] ELSE c

WiredSetting(c, s) ==
  LET old == s.known
      link == CASE ~Says(c, "auto_neg") -> Only(old, {"auto-negotiate", "speed", "duplex"})
                [] Says(c, "auto_neg") /\ c.auto_neg -> "auto-negotiate" :> TRUE
                [] OTHER -> ("auto-negotiate" :> FALSE) @@ Only(c, {"speed", "duplex"})
                              @@ Only(old, {"speed", "duplex"})
      rest == SetIfSaid(Only(old, {"cloned-mac-address"}), "cloned-mac-address", c, "mac_address")
                @@ SetIfSaid(Only(old, {"mtu"}), "mtu", c, "mtu")
                @@ SetIfSaid(Only(old, {"accept-all-mac-addresses"}), "accept-all-mac-addresses",
                             c, "accept_all_mac_addresses")
  IN  WithKnown(s, rest @@ link)

WiredKeys == {"cloned-mac-address", "mac-address", "mtu", "accept-all-mac-addresses", "speed",
              "duplex", "auto-negotiate"}

NmWiredDefaults == Over([mtu |-> 1500], [k \in {"auto-negotiate", "accept-all-mac-addresses"} |-> k = "auto-negotiate"])
NmWired(dict) ==
  LET d == dict @@ NmWiredDefaults
      fixed == ~d["auto-negotiate"]
  IN  [mac |-> Get(d, "cloned-mac-address", "CC"), mtu |-> d.mtu,
       promiscuous |-> d["accept-all-mac-addresses"], auto_neg |-> ~fixed,
       speed |-> IF fixed THEN Get(d, "speed", 1000) ELSE 1000,
       duplex |-> IF fixed THEN Get(d, "duplex", "full") ELSE "full"]

WiredShown(k) ==
  [mac_address |-> k.mac, mtu |-> k.mtu, accept_all_mac_addresses |-> k.promiscuous,
   auto_neg |-> k.auto_neg, speed |-> k.speed, duplex |-> k.duplex]

-----------------------------------------------------------------------------
(* ethtool.  A field is named after the key NetworkManager has for it, a     *)
(* feature after the kernel or by its command line alias.                   *)

PauseKeys == {"pause-rx", "pause-tx", "pause-autoneg"}
CoalesceKeys ==
  {"coalesce-adaptive-rx", "coalesce-adaptive-tx", "coalesce-pkt-rate-high",
   "coalesce-pkt-rate-low", "coalesce-rx-frames", "coalesce-rx-frames-high",
   "coalesce-rx-frames-irq", "coalesce-rx-frames-low", "coalesce-rx-usecs",
   "coalesce-rx-usecs-high", "coalesce-rx-usecs-irq", "coalesce-rx-usecs-low",
   "coalesce-sample-interval", "coalesce-stats-block-usecs", "coalesce-tx-frames",
   "coalesce-tx-frames-high", "coalesce-tx-frames-irq", "coalesce-tx-frames-low",
   "coalesce-tx-usecs", "coalesce-tx-usecs-high", "coalesce-tx-usecs-irq",
   "coalesce-tx-usecs-low"}
RingKeys == {"ring-rx", "ring-rx-jumbo", "ring-rx-mini", "ring-tx"}

(* The features whose names differ, one that is the same, one unknown to NM. *)
FeatureAlias == TableOf({<<"gro", "rx-gro">>, <<"rx", "rx-checksum">>})
FeatureToNm == TableOf({<<"rx-gro", "feature-gro">>, <<"rx-checksum", "feature-rx">>,
                        <<"rx-all", "feature-rx-all">>, <<"wake-up", "feature-wake-up">>})
ValidFeatures == {"feature-gro", "feature-rx", "feature-rx-all"}
FeatureNames == DOMAIN FeatureAlias \cup DOMAIN FeatureToNm

EthtoolConfig ==
  [f \in PauseKeys \cup FeatureNames |-> BOOLEAN]
    @@ [f \in (CoalesceKeys \cup RingKeys) \ {"coalesce-adaptive-rx", "coalesce-adaptive-tx"} |-> {32, 64}]
    @@ [f \in {"coalesce-adaptive-rx", "coalesce-adaptive-tx"} |-> BOOLEAN]

(* apply_feature_alias(): the alias replaces the kernel's name. *)
EthtoolApplied(c) ==
  LET Named(f) == IF f \in DOMAIN FeatureAlias THEN FeatureAlias[f] ELSE f
      aliases == DOMAIN c \cap DOMAIN FeatureAlias
  IN  [n \in {Named(f) : f \in DOMAIN c} |->
         IF \E f \in aliases : Named(f) = n THEN c[CHOOSE f \in aliases : Named(f) = n] ELSE c[n]]

FeatureSetting(c) ==
  LET said == DOMAIN c \cap FeatureNames
  IN  [n \in {FeatureToNm[f] : f \in said} |-> c[CHOOSE f \in said : FeatureToNm[f] = n]]

PauseSetting(c, old) ==
  Only(c, {"pause-autoneg"})
    @@ Only(IF Get(c, "pause-autoneg", TRUE) THEN old ELSE c, {"pause-rx", "pause-tx"})

EthtoolSetting(c, s) ==
  LET old == s.known
      IsSaid(group) == DOMAIN c \cap group # {}
      Group(group) == Only(IF IsSaid(group) THEN c ELSE old, group)
      pause == IF IsSaid(PauseKeys) THEN PauseSetting(c, old) ELSE Only(old, PauseKeys)
      features == IF IsSaid(FeatureNames) THEN FeatureSetting(c) ELSE Only(old, ValidFeatures)
  IN  IF DOMAIN features \subseteq ValidFeatures
      THEN WithKnown(s, pause @@ features @@ Group(CoalesceKeys) @@ Group(RingKeys))
      ELSE Rejected

EthtoolKeys == PauseKeys \cup CoalesceKeys \cup RingKeys \cup ValidFeatures

(* Neither two of the coalesce options nor the keys of _other are written. *)
EthtoolToValue(s) == Without(s.known, {"coalesce-sample-interval", "coalesce-stats-block-usecs"})

(* Every option has a value in the hardware; 0 and off where nobody set it. *)
NmEthtool(dict) ==
  [a \in EthtoolKeys |->
     IF a \in {"pause-rx", "pause-tx"} /\ Get(dict, "pause-autoneg", TRUE) THEN FALSE
     ELSE Get(dict, a, IF a = "pause-autoneg" THEN TRUE
                       ELSE IF a \in CoalesceKeys \cup RingKeys
                               /\ a \notin {"coalesce-adaptive-rx", "coalesce-adaptive-tx"} THEN 0
                       ELSE FALSE)]

(* np_ethtool_to_nmstate(); rx-frames-irq is not read. *)
EthtoolShown(k) ==
  Only(k, (PauseKeys \cup CoalesceKeys \cup RingKeys) \ {"coalesce-rx-frames-irq"})
    @@ [f \in {n \in DOMAIN FeatureToNm : FeatureToNm[n] \in ValidFeatures} |-> k[FeatureToNm[f]]]

-----------------------------------------------------------------------------
(* 802.1X *)

Ieee8021XConfig == [identity |-> {"host", "guest"}, eap |-> {<<"tls">>, <<"peap", "tls">>},
                    private_key |-> {"/key"}, client_cert |-> {"/cert"}, ca_cert |-> {"/ca"},
                    private_key_password |-> {"secret"}, phase2_auth |-> {"mschapv2"},
                    password |-> {"pass", Hidden}]

PasswordFields == {"private_key_password", "password"}
PathFields == {"private_key", "client_cert", "ca_cert"}
Ieee8021XKey == [identity |-> "identity", eap |-> "eap", private_key |-> "private-key",
                 client_cert |-> "client-cert", ca_cert |-> "ca-cert",
                 private_key_password |-> "private-key-password", phase2_auth |-> "phase2-auth",
                 password |-> "password"]

(* file_path_to_glib_bytes(): the scheme before, a zero byte behind. *)
GlibBytes(path) == <<"file://", path, "NUL">>

(* A password shown as hidden stays the one the profile has. *)
Ieee8021XSettingStoresMark(c, s) ==
  Setting([key \in {Ieee8021XKey[f] : f \in DOMAIN c} |->
             LET f == CHOOSE g \in DOMAIN c : Ieee8021XKey[g] = key
             IN  IF f \in PathFields THEN GlibBytes(c[f]) ELSE c[f]], Unset)
Ieee8021XSetting(c, s) ==
  LET IsKept(f) == f \in PasswordFields /\ c[f] = Hidden
      said == {f \in DOMAIN c : IsKept(f) => Says(s.known, Ieee8021XKey[f])}
  IN  Setting([key \in {Ieee8021XKey[f] : f \in said} |->
                 LET f == CHOOSE g \in said : Ieee8021XKey[g] = key
                 IN  IF IsKept(f) THEN s.known[key]
                     ELSE IF f \in PathFields THEN GlibBytes(c[f]) ELSE c[f]], Unset)

Ieee8021XKeys == {Ieee8021XKey[f] : f \in DOMAIN Ieee8021XKey}

(* NetworkManager keeps the section; GetSecrets() returns the passwords. *)
NmIeee8021X(dict) == Only(dict, Ieee8021XKeys)

(* nm_802_1x_to_nmstate() and glib_bytes_to_file_path() *)
Ieee8021XShown(k) ==
  [f \in {g \in DOMAIN Ieee8021XKey : Says(k, Ieee8021XKey[g])} |->
     IF f \in PathFields THEN k[Ieee8021XKey[f]][2] ELSE k[Ieee8021XKey[f]]]

Ieee8021XHideSecrets(c) == [f \in DOMAIN c |-> IF f \in PasswordFields THEN Hidden ELSE c[f]]

-----------------------------------------------------------------------------
(* Dispatch scripts: files named nmstate-<interface>-<action>.sh; a name is  *)
(* the sequence of its parts between dashes.                                *)

DispatchConfig == [post_activation |-> {"", "echo up", "ip route"},
                   post_deactivation |-> {"", "echo down"}]

DispatchAction == [post_activation |-> "up.sh", post_deactivation |-> "down.sh"]
DispatchFile(name, f) == <<"nmstate">> \o name \o <<DispatchAction[f]>>

ScriptStart == "## NMSTATE DISPATCH SCRIPT START"
ScriptEnd == "## NMSTATE DISPATCH SCRIPT END"

(* create_dispatch_script(), as the sequence of its lines *)
DispatchScript(content) ==
  <<"#!/usr/bin/bash", "if", ScriptStart, content, ScriptEnd, "fi">>

(* apply_dispatch_script(): empty text deletes the file. *)
DispatchFiles(name, c, files) ==
  LET written == {f \in DOMAIN c : c[f] # ""}
  IN  [p \in {DispatchFile(name, f) : f \in written} |->
         DispatchScript(c[CHOOSE f \in written : DispatchFile(name, f) = p])]
        @@ Without(files, {DispatchFile(name, f) : f \in DOMAIN c})

(* read_dispatch_script(): what is between the two marks. *)
ReadDispatchScript(lines) ==
  LET Find(mark) == Min({i \in DOMAIN lines : lines[i] = mark})
  IN  SubSeq(lines, Find(ScriptStart) + 1, Find(ScriptEnd) - 1)[1]

(* get_dispatches(): the files whose name has three parts. *)
GetDispatches(name, files) ==
  LET read == {p \in DOMAIN files : Len(p) = 3 /\ <<p[2]>> = name}
      Script(f) == {p \in read : p[3] = DispatchAction[f]}
  IN  [f \in {g \in DOMAIN DispatchConfig : Script(g) # {}} |->
         ReadDispatchScript(files[CHOOSE p \in Script(f) : TRUE])]
=============================================================================
