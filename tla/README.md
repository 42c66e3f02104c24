# A TLA+ verification of nmstate

nmstate takes a description of the network a host should have (the *desired
state*), compares it with what the host has (the *current state*), and makes
NetworkManager, the kernel and Open vSwitch change the difference.  This
directory holds TLA+ models of the parts of it where the outcome depends on
ordering, on failures or on several processes, TLC configurations that check
them on small instances, and proofs that TLAPS checks.  Paths below are
relative to `src/rust/src/`.

## The system

| Part | Source | Modelled in |
|---|---|---|
| Applying under a checkpoint, retries, verification, Ctrl-C | `lib/query_apply/net_state.rs`, `lib/nm/checkpoint.rs`, `cli/apply.rs` | `NetApply`, `NetTransaction` |
| The timeout of the checkpoint | `lib/nm/nm_dbus/nm_api.rs`, `lib/query_apply/net_state.rs` | `CheckpointTimer` |
| `nmstatectl service` | `cli/service.rs` | `Service` |
| Order of activation | `lib/ifaces/inter_ifaces.rs`, `lib/ifaces/inter_ifaces_controller.rs` | `UpPriority` |
| Controllers and ports, ignored interfaces, orphans | the same, `lib/iface.rs`, `lib/ifaces/ovs.rs` | `Controllers` |
| Settings of an interface: merging, validating, storing, showing, comparing | `lib/ifaces/*.rs`, `lib/ip.rs`, `lib/nm/settings/*.rs`, `lib/nm/nm_dbus/connection/*.rs`, `lib/nispor/*.rs`, `lib/query_apply/*.rs` | `Confs`, `VirtualKinds`, `BaseSections`, `SriovSection`, `BondSection`, `BridgeSection`, `IpSection`, joined by `Sections` |
| Routes and route rules | `lib/route.rs`, `lib/route_rule.rs`, `lib/nm/route.rs`, `lib/nm/route_rule.rs` | `RouteSection`, `Sections` |
| DNS | `lib/dns.rs`, `lib/nm/dns.rs`, `lib/nm/query_apply/dns.rs` | `DnsSection`, `Sections` |
| Global OVS configuration, OVN bridge mappings | `lib/ovs.rs`, `lib/ovn.rs`, `lib/ovsdb/global_conf.rs` | `OvsDbSection`, `Sections` |
| OVS bridges, their ports and bonds | `lib/ifaces/ovs.rs`, `lib/nm/settings/ovs.rs`, `lib/nm/query_apply/ovs.rs`, `lib/ovsdb/show.rs` | `OvsSection`, `Sections` |
| Differences and reverts | `lib/state.rs`, `lib/revert/*.rs` | `Confs`, `Sections` |
| Dispatch scripts | `lib/nm/query_apply/dispatch.rs` | `BaseSections`, `Sections` |
| Sending profiles to NetworkManager | `lib/nm/query_apply/*.rs`, `lib/nm/profile.rs` | `Profiles`; a few steps of `NetApply` |
| Policies, host name, persistent NIC names, autoconf | `lib/policy/*.rs`, `lib/hostname.rs`, `cli/persist_nic.rs`, `cli/autoconf.rs` | no, see below |
| Parsing, bindings, statistics | `lib/deserializer.rs`, `clib/`, `lib/statistic/` | no: conversions without state |

`PROJECT.json` has the complete list with the reason for each part that is left
out, and the hazards, each with its source line.

How the parts interact: `nmstatectl service` and `nmstatectl apply` call
`NetworkState::apply()`.  That retrieves the current state, merges the desired
one into it (where `Controllers` and, as its last part, `UpPriority` come in),
opens a NetworkManager checkpoint (`NetApply`), whose timer runs meanwhile
(`CheckpointTimer`), sends profiles (`Profiles`), verifies, and closes the checkpoint.
What those profiles hold, and what verification compares, is the subject of
`Sections`.

## The modules

### NetTransaction and NetApply

`NetTransaction` is what applying promises about the configuration that
NetworkManager holds: it changes only inside a transaction, of which one is
open at a time, and closing one keeps the new configuration or puts back the
old one.

`NetApply` is `apply_with_nm_backend()` run by several processes.  `pc` is where
a process is; each call that NetworkManager, the OVS database or the kernel
sees is an action of its own, so that processes interleave there.

| Action | Code |
|---|---|
| `Retrieve`, `RetrieveAgain` | `retrieve_async()` and the merge, retried once |
| `CreateCheckpoint`, `CreateCheckpointAgain` | `nm_checkpoint_create()`: refused while another checkpoint exists |
| `ExtendTimeout`, `VerifyExtendTimeout` | `nm_checkpoint_timeout_extend()` before each try |
| `SaveProfiles`, `ActivateProfiles`, `ActivateAgain`, `FinishNmApply` | `nm_apply()` |
| `OvsdbApply`, `SetRunningHostname` | what the checkpoint does not cover |
| `Verify`, `VerifyAgain`, `ApplyAgain` | the two nested `with_retry()` |
| `CheckCapability`, `RefreshCurrent` | the two passes of an SR-IOV apply |
| `DestroyCheckpoint`, `RollbackCheckpoint` | `with_nm_checkpoint()` |
| `Interrupt`, `UserCommit`, `UserRollback` | `cli/apply.rs` |
| `Crash`, `SleepPanics`, `Expire`, `Settle` | the process dies; NetworkManager's timer; activation going on |

A configuration is abstracted to who asked for it and in which pass
(`nm.goal`), and to what of it is up already (`nm.ready`).  `side` is who wrote
last to the dispatch scripts, the OVS database and the running host name.
An OVS database that does not run is skipped by `OvsdbApply`, as the guard
`ovsdb_is_running()` does.  Verification stops at its first error: of the host
name, then of the interfaces, in the order of a hash map, then of the rest
(`VerifyOutcomes`).

`Disturbances` says what may go wrong around an apply beyond crashes, Ctrl-C
and errors of the backend: `"fault"`, a call to NetworkManager fails for no
reason of its own; `"slow"`, a checkpoint may expire under a running apply;
`"sigint"`, the `rollback("")` of Ctrl-C takes another process's checkpoint;
`"user"`, somebody runs `nmstatectl commit` or `rollback` meanwhile.

### CheckpointTimer

Two clocks: `spent` since NetworkManager last set its timer, `elapsed` on the
client's `cp_refresh_time`.  Calls extend the timer once half of it has gone by
on the client's clock; retrievals, sleeps and what happens outside
NetworkManager do not.  The durations are bounded by constants.

### Service

The folder (`yml`, `applied`), what one run of the service knows of it
(`entries`, `found`, `marks`, `queue`, `current`, `opened`), an administrator
who edits files and `nmstate.conf` at any time, and a machine that goes down at
any step.  File names are sequences of the parts between dots, because the code
removes an extension and sets it again.

### UpPriority

The loops of `set_ifaces_up_priority()` interface by interface, in the order of
the desired state, and the passes of `_set_up_priority()`.  `want` is the input.
`pending` is kept by name, as in the code, where an OVS bridge and its internal
interface share one.

### Controllers

`MergedInterfaces::new()` and `process()` as far as they decide who is a port of
whom: one action per stage, and one per pending port, since the maps are hashed
and their order is arbitrary.  `cur`, `des`, `merged` and `apply` are the four
copies of an interface that the code keeps.  `Scenarios` says which interfaces
there may be, which states they are found in and which are asked for; `Init`
takes every current and every desired state of one of them.

`SetUpPriority` has both loops of `set_ifaces_up_priority()`, over controllers and
over parents, for any `insert_order`.  No controller here has a controller or a
parent, so one pass finds everything; deeper nesting is in `UpPriority`.
`Ignore` follows `Interface::remove_port()`, which does nothing for VRFs and
forgets `ports-config` of bonds: which of the desired bonds say their ports there
is a free choice.

### Profiles

`nm_apply()` for kernel interfaces, profile by profile.  `pc` and `todo` are the
place and the calls left there; `stored`, `start` and `stop` are what
`perpare_nm_conns()` returns; `acs`, `news`, `failed` and `round` belong to the
retries of `activate_nm_profiles()`.

| Action | Code |
|---|---|
| `Begin`, `DeleteConn`, `DeleteDevices` | `delete_ifaces()` |
| `Prepare` | `perpare_nm_conns()`, `gen_nm_conn_need_to_deactivate_first()` |
| `DeactivateConn` | both calls of `deactivate_nm_profiles()` |
| `Save`, `DropExist` | `save_nm_profiles()`, `delete_exist_profiles()` |
| `Activate`, `TryOk`, `TryFails`, `Retry`, `GiveUp` | `activate_nm_profiles()` |
| `Stop`, `Finish`, `Fail` | the rest of `nm_apply()`, and its errors |
| `NmBringsPorts` | NetworkManager, in its own time |

NetworkManager (the operators `Nm...`) is modelled from what the code relies on:
`autoconnect_ports` is always set, so activating a controller brings up the ports
whose profiles name it, but later; activating a port activates its controller
(the comment at `lib/nm/profile.rs:125`); activating a controller again takes its
ports down first; a volatile profile is gone when it is deactivated.  `Init` takes every set of
profiles and every request that satisfies what `Controllers` shows of
`for_apply`.

### Sections

Every kind of settings goes the same way, and `Sections` is that way: the desired
configuration is completed and checked with the current one (`ForApply`), made
into a section of a NetworkManager profile on top of the section that is stored
(`SettingOf`), written (`ToValue`), activated (`NmAttributes`), shown (`Shown`)
and compared (`Verified`).  The operators that differ from kind to kind are in
the modules it extends, named after the functions of the code:

| Module | Kinds |
|---|---|
| `Confs` | no kind: objects as functions from the fields that are said to values, `merge_json_value()`, `get_json_value_difference()`, `gen_diff_json_value()`, `gen_revert_state()` |
| `VirtualKinds` | VLAN, VXLAN, VRF, MAC VLAN and VTAP, MACsec, HSR, IPVLAN, InfiniBand, veth |
| `BaseSections` | the `[connection]` section, descriptions, the Ethernet link, ethtool, 802.1X, dispatch scripts |
| `SriovSection` | VFs of a PF |
| `BondSection`, `BridgeSection` | options and port lists of bonds and Linux bridges, VLAN filtering |
| `IpSection` | IPv4, IPv6, and how both depend on a controller and on `wait-ip` |
| `RouteSection` | routes and rules of a host with three interfaces |
| `DnsSection` | DNS of a host with two interfaces |
| `OvsDbSection` | the global row of the OVS database and the OVN mappings in it |
| `OvsSection` | options, ports, bonds and external ids of an OVS bridge, with the profiles of its ports and of the interfaces in them |

`kind` is chosen at the start; a kind is a configuration of one interface or of
the host, and kinds do not interact in one behaviour except where the code makes
them: IP with the controller (`stack`), rules with routes and interfaces that go
(`routes`, `rules`), DNS with the IP stacks and routes of interfaces (`dns`), OVN
with the other external ids (`ovsdb`), an OVS bridge with the interfaces that join
and leave it (`ovsbridge`).  `profile` is the section as
NetworkManager returns it, `kernel` what became of it.

| Action | Code |
|---|---|
| `Create`, `Change` | an apply of a state, or of the `gen_diff()` of one, begins |
| `Follow` | an apply of the state that is shown now, or of the `generate_revert()` of the last one, begins |
| `Adopt` | the profile, or the configuration of the host, was made by another program |
| `Merged` | `MergedNetworkState::new()`; what it rejects ends the apply |
| `Read` | `connections_get()` at the start of `nm_apply()`: `read` is what the profile holds then |
| `Apply` | `iface_to_nm_connections()` on top of `read`, saving, deactivating and activating; NetworkManager may refuse, and may silently leave one attribute as it was |
| `Verify` | `MergedNetworkState::verify()` |
| `OtherKeyStored` | another program adds a key to the profile, also in the middle of an apply, before or after `Read` |

Two routes with the same `sort_key()`, which has neither metric nor type, are
equal for `MergedRoutes::new()`.  It sorts them with `sort_unstable()` and removes
all but one with `dedup()`, so `MergedRoutes` is the set of the lists it may come
to, and `Apply` and the differences take any of them.

NetworkManager, the kernel and the OVS database (the operators `Nm...`, `Fixed`,
`GetSettings`, `Reached`) are modelled from what the code relies on: default values of
settings, which it may or may not return (`variant`); properties that a link
cannot change without being made anew, which is what
`gen_nm_conn_need_to_deactivate_first()` is for; the refusals that the code works
around (bond options of another mode, queues that are taken); a global DNS
configuration that hides those of interfaces; servers of an address family that
is disabled, which are not used.  That one attribute stays as it was also stands
for an OVS database that `ovsdb_apply()` is not called for because it is not running.

## What TLC checks

| Run | Module, configuration | Shows |
|---|---|---|
| `transactions` | `MCNetApply`, `NetApply_transactions.cfg` | Two processes, three kinds of apply, crashes, Ctrl-C, failing calls: `Atomic`, `FailedNotInPlace`; the refinement `Transaction` with its liveness; every apply ends (`ApplyEnds`) |
| `verified` | `MCNetApply`, `NetApply_verified.cfg` | Dispatch scripts, OVSDB, host name, SR-IOV in one pass and two: `CommitIsVerified`; `ErrLeavesNoCheckpoint` |
| `disturbed` | `MCNetApply`, `NetApply_disturbed.cfg` | Expiring checkpoints, foreign rollbacks and commits: still `OkMeansCommitted` |
| `timer` | `CheckpointTimer` | `NeverExpires` |
| `service_boots` | `MCService`, `Service_boots.cfg` | `MarkedWasApplied`, `AppliedOnce`, `EveryFileApplied` under edits, crashes and failing calls |
| `priorities` | `MCUpPriority`, `UpPriority.cfg` | `PortAfterController`, `ChildAfterParent`, `NestingAccepted` |
| `controllers` | `MCControllers`, `Controllers.cfg` | `ListedPortsJoin`, `NamedControllerWins`, `NoStaleController`, `OvsInterfaceHasBridge`, `NoOrphans`, `IgnoredUntouched`, `NewPortAfterController` |
| `profiles` | `MCProfiles`, `Profiles.cfg` | `WantedIsActive`, `DownIsDown`, `OneProfile` |
| `sections` | `MCSections`, `Sections.cfg` | all kinds of settings, see the next table |

What `sections` shows:

| Question | Properties |
|---|---|
| Does verification pass when the state was realised, and fail when it was not? | `RealisedStateVerifies`, `LossIsNoticed` |
| Does what is not said stay? | `UnsaidKept` for interfaces (`SettingsKept`, `UnsaidVlansKept`, `LeaseBecomesStatic`), `HostKept` for the host (`RoutesKept`, `RulesKept`, `DnsKept`, `OvsKeysKept`, `OvnMapsKept`), `OtherKeysKept` for keys of other programs |
| Can what is shown be applied again? | `AgainChangesNothing` |
| Does a revert restore? | `RevertRestores` (`SettingsRestored`, `RoutingRestored`, `DnsRestored`, `OvsDbRestored`) |
| Does a difference do what the state it is made of would? | `DiffReachesDesired` |
| What becomes of what an earlier apply left? | `UnsaidKept`, `RefusedOnlyForCause`, `NewRulesLast` |

Each of them names its exceptions (`IneffectiveFields`, `UnverifiedFields`,
`ShownIsRejected`, `KeptFields`); what they mean for a user is listed below.

Three runs state what a document or comment says and are violated:

| Run | Disagreement |
|---|---|
| `middle_vfs` | `get_proper_verify_retry_count()` divides integers: for 17 to 63 VFs there is no try at all, and the state is committed unverified |
| `service_dotted` | a file `eth0.100.yml` is looked for as `eth0.yml` and never applied |
| `priority_example` | the priority a port gets from its parent overwrites the one it has from its controller |

Other places where code and documentation differ, or where a property holds
only with an exception, were met without a run of their own.  The property that
names the exception is in parentheses.

- An ignorable VF error at the last try, `lib/query_apply/net_state.rs:440`, ends
  the loop over the interfaces, which is in the order of a hash map: every
  interface it had not reached, and the routes, rules, DNS and OVSDB, are committed
  without having been compared.  Only the host name, which is compared before, is
  sure to match (`CommitIsVerified`).
- Scripts, OVSDB and the running host name are not rolled back.
- `rollback("")` after Ctrl-C takes the first checkpoint listed
  (`cli/apply.rs:280`), which is why `"sigint"` is a disturbance.
- An edit that races with `nmstatectl service` can be marked without having been
  applied (`MarkedWasApplied`, `AppliedOnce`).
- A single unreadable file ends the scan for all (`EveryFileApplied`).
- Controllers that are to be down are left out of the checks for conflicting
  lists; so are the ports that such a controller has if it was ignored until now
  (`ListedPortsJoin`).
- An ignored port stays in the list of a VRF, since `Interface::remove_port()`
  (`lib/iface.rs:737`) does not know VRFs (`IgnoredUntouched`, `ListedPortsJoin`).
  A desired bond that lists one in `ports-config` is refused.
- An OVS bridge that is left without ports is given its internal interface also when
  that one is ignored (`IgnoredUntouched`).
- A port that becomes managed because it is listed keeps priority zero
  (`NewPortAfterController`).
- A controller that was ignored until now is not asked which ports it loses
  (`NoStaleController`).
- An OVS interface that the desired state itself detaches is not refused
  (`OvsInterfaceHasBridge`).
- A port whose controller is not changed keeps priority zero, and ports below it
  are refused (`NestingAccepted`).
- An interface that is to be up and does not mention a controller is given back
  to the one that its inactive profile names, which is brought up with it even if
  it is to be down (`DownIsDown`).

Met in `Sections`, with the operator that names the exception:

*Bridges and bonds.*

- `lib/nm/nm_dbus/connection/bridge.rs:358` reads `hairpin_mode` and writes
  `hairpin-mode`: a hairpin mode that is stored cannot be changed
  (`HairpinModeKept`).
- Ports are not activated again when only the default VLAN of their bridge
  changes, `lib/nm/query_apply/apply.rs:416` (`KeptFields`).
- `vlan: {}` for a bridge port is not verified (`UnverifiedFields`), an access tag
  that is the default VLAN is shown as no VLAN, and the revert of giving VLANs to a
  port without any keeps them.
- The checks for a queue that two bond ports share and for the default VLAN look
  at the ports of the desired state only.
- The revert of another bond mode, or of `options: {}`, does not restore options;
  a difference that has the mode loses the options that stay (`KeptFields`).
- No option of a bond is verified, `should_ignore()` in `lib/state.rs:97`
  (`UnverifiedFields`).
- `arp_ip_target: ""` as the only option resets all of them.
- A bond with `fail_over_mac: active` is shown with a MAC address and then
  rejected (`ShownIsRejected`).  A mode change away from `balance-slb` is rejected
  when options are said with it.

*IP.*

- `lib/ip.rs:140` says "When applying with `None`, current IP address will be
  preserved"; on a static interface an IP section without addresses drops them.
- `dhcp: false, address: []` keeps the lease as static address, and the revert of
  `dhcp: false` leaves no IPv4 at all (`RevertRestores`).
- `enabled: true` alone fails verification for IPv4; a DUID, a token and an address
  generation mode fail it while they have no effect (`IneffectiveFields`).
- A token that is left when autoconf is switched off, and `wait-ip` for a family
  that is disabled later, make a state that is shown and then rejected
  (`ShownIsRejected`).
- `address: []` with `allow-extra-address` is never verified; the difference of two
  IP sections loses what is not said.
- The check of `dhcp-client-id` in an IPv6 section looks for `dhcp_client_id`.

*Keys of other programs.*

- What another program stores in a profile between `connections_get()` and the save
  (`lib/nm/query_apply/apply.rs:72` and `:165`) is overwritten (`OtherKeysKept`).

*Routes and rules.*

- Of two routes that differ in metric or type only, one is lost when a route of
  their interface changes, `lib/route.rs:623`; which one depends on
  `sort_unstable()` (`RoutesKept`, `HasDoubledRoutes`).  So applying what is shown,
  or a revert, may change or not restore such a pair.
- An IPv4 blackhole, unreachable or prohibit route takes away the others of its
  kind (`RoutesKept`), and reverting one said with `iface: lo` leaves it
  (`RoutingRestored`).
- A revert marks routes and rules absent that were there already when they were
  said; routes of a removed interface do not come back (`RoutingRestored`).
- An absent route with a metric removes those with other metrics too; a difference
  loses absent routes (`DiffReachesDesired`).
- The key by which rules are sorted lacks `iif`.  Rules without a priority
  accumulate, one for each apply.
- Rules in the profile of a removed interface vanish, also one that the same state
  adds (`RulesKept`, `IneffectiveFields`).

*DNS.*

- Search domains or options without servers are stored next to what other
  interfaces hold instead of replacing it (`DnsIsSearchOnly`).
- When a route of the interface of a link-local server changes, the server that
  is read as `fe80::1%eth1` cannot be stored again and the apply fails
  (`RefusedOnlyForCause`, `DnsKept`).  Two such servers of one interface are rejected.
- DNS held by a removed interface vanishes (`IneffectiveFields`); one whose
  address family is disabled moves to the global configuration while the profile
  keeps it.
- The revert of adding options where there were none leaves them (`DnsRestored`).
- DNS that moves without being changed is not verified.

*Open vSwitch.*

- The revert of a state that says keys of `external_ids` only has an empty
  `other_config`, `lib/revert/ovsdb.rs:54`, which `lib/ovs.rs:268` takes for "User
  want to purge this section": reverting removes every other configuration, and
  the same the other way round (`OvsDbRestored`).
- What `ovs-db: {}` or an empty column purges is not restored by the revert
  (`OvsDbRestored`).
- Neither a removed key, a purged column nor an absent mapping is verified
  (`UnverifiedFields`); when no mapping is left, verification compares with those
  read before the apply (`OvsDbUpdated`).
- Two mappings of one localnet that another program stored are made one by any
  apply (`LocalnetRepeated`); only neighbours are compared to find them
  (`OvnValue`).
- A state that says any option of an OVS bridge resets STP, RSTP and multicast
  snooping where it does not say them, `lib/nm/settings/ovs.rs:116`, and so does
  a difference, which leaves out what does not change (`KeptFields`,
  `DiffReachesDesired`).  An empty `fail-mode` or `datapath` keeps the stored one.
- `lib/ovs.rs:91` says that an `other_config` that is not said is preserved, but
  `apply_iface_ovsdb_conf()` writes both columns of a bridge or bond anew: a
  state, a difference or a revert that says some keys removes the others
  (`OvsDbLoses`, `OvsBondLoses`, `UnrevertedFields`).
- `allow-extra-patch-ports: false` is never shown and so fails verification; the revert
  of a state with `true` lists the ports without the extra ones and removes them
  (`IneffectiveFields`, `UnrevertedFields`).
- An interface that moves from one port of a bridge to another, or into a bond, is
  not changed by `get_changed_ports()`: its profile goes on naming the old port
  (`OvsPortUnshown`).
- Bonds of one interface, delays of zero, LACP over another stored mode
  (`OvsBondUnshown`), VLANs without a mode and trunk ranges that could be joined
  (`OvsVlanUnshown`) are not shown the way they are said, and fail verification.
  The tag of an access port stays as native VLAN when it becomes a trunk.
- The revert of adding a VLAN to a port, or a delay to a bond, keeps it
  (`UnrevertedFields`).
- By reading only: `compress_vlan_trunk_tags()` computes `min - 1` of an unsigned
  number, which VLAN 0 makes negative; the deserializer of `stp` takes the strings
  `no`, `off` and `false` for enabled.
- The two columns of the global row are written as a whole from the state read at the start: a key
  that another program adds meanwhile is lost.  `OtherKeyStored` is not for this
  kind therefore.

*Others.*  VFs that the PF has not, its driver probe without VFs, ethtool options
that are never written (`coalesce-sample-interval`, `stats-block-usecs`) or never
read, scripts of an interface with a dash in its name, and a MACsec key shown as
hidden (`IneffectiveFields`, `ShownIsRejected`).

### Bounds

- `NetApply`: two processes, since a third adds no kind of conflict over one
  checkpoint; two tries of each loop, so that a first, a repeated and a last one
  differ (in `disturbed` one try of activation and verification, because the
  processes are free to lose their checkpoints at every step).  16 and 64 VFs are
  the two limits of the retry count, 32 lies between.
- `CheckpointTimer`: seconds, with a timeout that just satisfies `LongEnough`.
- `Service`: two files, one valid and one invalid content and one that is no
  text, one mishap (crash or failed call).  Each further one multiplies the
  states without a new order of events for one file.
- `UpPriority`: every nesting of six kernel interfaces that are all up, which
  includes chains deeper than the four passes reach; and three of them as ports,
  children, OVS interfaces or neither, unchanged, up or down, next to an OVS
  bridge.
- `Controllers`: two bridges with two ports, one of them a VLAN of a bridge, all to be
  up or absent; the same with only the VLAN, and with `down` (a port meets the others
  only in the lists of its controllers, so that one port is enough for this state); an
  OVS bridge, its internal interface, a VLAN on that, and a Linux bridge; a bridge
  and two ports that may be ignored; two bridges and a port that were ignored or
  not, and are to be up, down or absent; an OVS bridge and its internal interface,
  either of which may be ignored.  Of the two bridges one stands for a bond and
  the other one for a VRF.  There are 934,690 distinct states.
- `Profiles`: a port and two bridges; two ports and a bridge, all with a profile
  or none; a port and a bridge with no profile, one, two, or a volatile one.  Two
  passes of activation instead of six: a first one and a last one.

- `Sections`: three applies, because the first gives the second something to
  meet and the third is the revert of the second or the repetition of what is
  shown.  The second says every combination of at most two fields of a kind
  (three for `stack` and `dns`, which relate more than two), each with every value of
  its type; the types hold one value for each way the code treats.  Lists have up
  to three elements.  One attribute is lost in the second apply at most.
  An OVS bridge starts without ports, with an access port and a patch, or with a
  bond and its internal interface.  There are 850,063 distinct states.

Deadlock is checked everywhere but in `UpPriority`, which is an algorithm that
ends.

### Fairness

`NetApply`: weak fairness of each process (`ClientStep`: it runs until it
returns, and its sleeps end) and of the checkpoint timer of NetworkManager
(`Expire`).  None on Ctrl-C, crashes, users, or on anything coming up in the
kernel.  `Service`: weak fairness of the service, which systemd starts at every
boot; none on the administrator.

## What is proved

| Theorem | Module | For every |
|---|---|---|
| `TypeCorrect`: `Spec => []TypeOK` | `NetApplyProofs` | number of processes, set of desired states, retry counts |
| `Atomicity`: `Spec => []Atomic` | `NetApplyProofs` | the same, undisturbed |
| `FailuresLeaveNothing`: `Spec => []FailedNotInPlace` | `NetApplyProofs` | the same, undisturbed |
| `Refinement`: `Spec => TransactionSafety` | `NetApplyProofs` | the same, undisturbed |
| `SuccessIsCommitted`: `Spec => []OkMeansCommitted` | `NetApplyProofs` | the same, with every disturbance |
| `CommitsAreVerified`: `Spec => []CommitIsVerified` | `NetApplyProofs` | undisturbed, no desired state with 17 to 63 VFs |
| `ErrorsReleaseCheckpoint`: `Spec => []ErrLeavesNoCheckpoint` | `NetApplyProofs` | every disturbance but failing calls (`~Faulty`) |
| `TimeoutSuffices`: `Spec => []NeverExpires` | `CheckpointTimer` | timeout and durations with `LongEnough` |
| `PriorityTypes`: `Spec => []TypeOK` | `UpPriorityProofs` | interfaces, nesting, order, number of passes |
| `PortsFollowControllers`: `Spec => []PortAfterController` | `UpPriorityProofs` | the same |
| `ChildrenFollowParents`: `Spec => []ChildAfterParent` | `UpPriorityProofs` | the same |
| `NestingIsAccepted`: `Spec => []NestingAccepted` | `UpPriorityProofs` | the same, four passes or more |
| `ServiceTypes`: `Spec => []TypeOK` | `ServiceProofs` | files, contents, number of mishaps |
| `MarksAreOfWhatWasApplied`: `Spec => []MarkedWasApplied` | `ServiceProofs` | the same; names without dots of their own, or no configuration that keeps files (`"keep"` not in `Modes`) |
| `FilesAreAppliedOnce`: `Spec => []AppliedOnce` | `ServiceProofs` | the same; names without dots of their own |
| `ControllersTypes`: `Spec => []TypeOK` | `ControllersProofs` | interfaces, current and desired states, orders of the hash maps |
| `NamedControllersWin`: `Spec => []NamedControllerWins` | `ControllersProofs` | the same |
| `ListedPortsDoJoin`: `Spec => []ListedPortsJoin` | `ControllersProofs` | the same |
| `NoControllerIsStale`: `Spec => []NoStaleController` | `ControllersProofs` | the same |
| `OvsInterfacesKeepABridge`: `Spec => []OvsInterfaceHasBridge` | `ControllersProofs` | the same |
| `NothingIsOrphaned`: `Spec => []NoOrphans` | `ControllersProofs` | the same, with one level of orphans (`OneLevel`) |
| `IgnoredAreUntouched`: `Spec => []IgnoredUntouched` | `ControllersProofs` | the same |
| `NewPortsFollow`: `Spec => []NewPortAfterController` | `ControllersProofs` | the same |
| `ProfilesTypes`: `Spec => []TypeOK` | `ProfilesProofs` | interfaces, profiles, requests, number of passes |
| `WantedAreActive`: `Spec => []WantedIsActive` | `ProfilesProofs` | the same |
| `DownAreDown`: `Spec => []DownIsDown` | `ProfilesProofs` | the same |
| `OneProfileIsLeft`: `Spec => []OneProfile` | `ProfilesProofs` | the same |
| `UnknownKeysSurvive`: `Spec => OtherKeysKept` | `SectionsProofs` | desired states, adopted profiles, bounds; keys stored at any moment but between `Read` and `Apply` |
| `MergedAgrees`, `DiffSuffices`, `DiffIsNeeded`, `RevertUndoes`, `SettingRoundTrip` | `SectionsProofs` | configurations and dictionaries |
| `UnsaidColumnKeysStay`, `ColumnRevertRestores` | `HostProofs` | keys and values of a column of the OVS database |
| `OvsKeysAreKept`: `Spec => []OvsKeysKept` | `HostProofs` | rows of the OVS database, desired states |
| `OvsKeysAreRealised`: `Spec => []OvsKeysRealised` | `HostProofs` | the same |
| `RoutesAreKept`: `Spec => []RoutesKept` | `HostProofs` | routes that the profiles of the three interfaces hold, desired states |

*Undisturbed* is `Disturbances \subseteq {"fault"}`: calls may fail, processes
may be interrupted and die, but a checkpoint neither expires under a running
apply nor is closed by others.  `TimeoutSuffices` says when the first of these is
justified.

**NetApply.**  `Atomic` is not inductive: that nothing is left behind when no
checkpoint is open follows from what checkpoints hold while one is.  `TxInv`
adds that at most one is live, that a process between creating and closing holds
its own, that a live one holds the last committed configuration, and that what
NetworkManager runs belongs to a process that returned Ok or whose checkpoint is
live.  Most steps of a process change neither configuration nor checkpoints; the
lemmas classify the steps by their effect (keeping everything, writing, creating,
committing, rolling back), prove `TxInv` for each class, and map each class to a
step of `NetTransaction` or a stutter.  `CommitIsVerified` then follows from
`TxInv`: between the last successful comparison and the end, nobody else can
write; and an apply that comes to its end without one wants VFs and is at its last
try, after a comparison that had passed the host name.  `ErrLeavesNoCheckpoint` needs less: that no process holds a checkpoint
before it asks for one or after it returned an error is kept by every step, as long
as the call that rolls back does not fail (`NothingHeld`).

**CheckpointTimer.**  `TimerInv` bounds `spent` at each place: by `elapsed` plus
one lag while calls are made, by a lag and a retrieval after a verification, by
half of the timeout plus the unextended tail before the next pass.

**UpPriority.**  `UpInv` follows one pass: a priority that is pending or set is
higher than its controller's, which is known and does not change any more; what
the first loop has not reached has nothing pending; what it has passed has a
priority, unless the pass left out a port.  It is for states in which no
controller, and no port of a kernel controller, has a parent (`Plain`);
`priority_example` shows that the others can go wrong.  It assumes that the
desired state lists no interface twice, as `insert_order` guarantees.

`ChildInv` follows the second loop in the same way, for all states.
`NestInv` explains the number of passes: each pass settles one more level, so for
every assignment of depths in which a port is deeper than its controller
(`Ranks`), after `n` passes all interfaces of a depth up to `n` are settled; and
when controllers are listed first, one pass settles all.  The depth an interface
has is not computed but quantified over, which avoids a recursive definition.

**Service.**  `MarkInv`: what is found, queued and read again for the apply is what
the file holds, unless it was edited meanwhile, and what is about to be marked was
applied.  With dots in names the file that is looked up may be another one, so
the part about what was found and queued is for names without; where no files are
kept, the rest is enough.  `OnceInv` counts: the applications so far of a file that
is queued, or not done, are all excused by mishaps and racing edits, so that one
more is allowed; a file is found, queued and applied once in a run; and the mark of a
file that was applied is found before the scan ends.

**Controllers.**  `Inv` says at each stage what has happened to a port so far.
The core is `Outcome`: `handle_changed_ports()` leaves a port as it was if no
controller gets or loses it, makes it a port of a controller that may get it, or
detaches it (deletes it, for an OVS interface) if controllers only lose it,
whichever order the hash maps had; finiteness of the controllers is needed
there, for a first and a last one in that order.  `ListsChecked` and `OneHasIt`
record what the two checks of the lists have excluded, `Marked` that what is up on
top of something deleted can only be on the second level.  The code looks at one
level, so `NoOrphans` needs `OneLevel`: a parent that can be an orphan is itself on top of
nothing that can be deleted.  `ListedPortsJoin` has an exception that needs a
scenario of its own (`Returning`), a controller to be down that was ignored until
now and has the port.  For `NewPortAfterController` the two loops are taken apart:
after the first one every waiting port has a positive priority, which the loop over
the parents can only replace by another one, while controllers keep 0.

**Profiles.**  `Inv` carries what `perpare_nm_conns()` plans (`Plan`) to the end.
`Stored`: the stored profile is there, names the desired controller, and the
others are on a list of those still to delete.  `Passes` is the hard part: a port
that was skipped because its controller is being activated is up where it
belongs, on its way, or its controller is still to be activated and was not active
before; and a controller that is not left over from an earlier pass has brought
its ports.  `Kept` and `Stopped` say that the last deactivations undo none of it
and that nothing else brings up what is to be down.

**Sections.**  The operations that all kinds share obey the laws one expects of
them: a merged state passes the comparison, a difference is enough and holds
nothing superfluous, a revert brings back what was there if the fields existed, and a
setting that is read and written is the same.  For the columns of the OVS database,
where keys can be removed, the corresponding laws hold unless the column is said
to be empty, which purges it.  `UnknownKeysSurvive` puts together that each of nine kinds writes only the known
keys of the stored setting (`SettingHolds`, `ToValueHolds`), that the unknown
key is none of those and has no default, and that no profile exists before the
first apply (`Fresh`).  What is saved is made of `read`, so the key has to be in
there, which is what the property asks for while an apply is between the two.

**The host.**  Two of the five parts of `HostKept` are proved for any host, in
`HostProofs`: the keys of the OVS database and the routes.  Both follow an apply from
the merge through what is stored to what is shown again, and neither says anything of
one step alone, so an invariant has to carry the state of the host from the moment it
is read to the end of the apply.

- `OvsInv`: the row is what was stored unless the change was lost, and after an apply
  it is `RowMade` of the desired state and of the row there was before.  `RowIsMade`
  is the argument about one apply: the two columns are written as a whole, the mappings
  go into one of them under a key of their own that is never shown among the others
  (`OvnIsNotShown`), and a row that is not written because nothing differs
  (`OvsDbIsChanged`) is the one that would have been written.  `OvsKeysRealised` is the
  converse of `OvsKeysKept`: what is said is shown.  It also covers differences and
  reverts.
- `RouteInv`: a change is made to profiles whose routes are in the kernel as
  NetworkManager completes them, and the routes that shall stay are there once it is
  activated.  `RouteIsStored` has the two cases of `store_route_config()`: where no
  route of an interface changes, its profile keeps what it holds; where one does,
  every other route of it is written anew from what was shown, and
  `RouteRoundTrip` says that this is the same route: a metric of 0 is not shown, a next
  hop that is not there is shown as 0.0.0.0, and both come back.  A typed IPv4 route is
  shown without its interface and does not come back, which is one exception that
  `RoutesKept` makes.  The other one is a route with an equal one: `EqualRoute`
  shows that whichever `dedup()` leaves has its interface, table and destination.

Both rest on `HostIsThere`: the host exists before the first apply and its profiles
hold what NetworkManager lets them hold (`IsRow`, `IsHost`; no route has table 0, a
next hop 0.0.0.0, or both a type and a next hop, and no IPv6 route has metric 0).

The assumptions on constants are in the modules that declare them and are
evaluated by TLC: sets of interfaces are disjoint by role, markers such as `Unset` and
`None` are no interfaces, profiles or lists of ports, names of files are closed
under `PathOf`, the order of the desired state lists nothing twice, and
interfaces are finitely many.  TLC finds no violation of the inductive
invariants either (`TxInv`, `NothingHeld`, `TimerInv`, `UpInv`, `ChildInv`,
`MarkInv`, `OnceInv`, the two `Inv`, `Fresh`, `OvsInv`, `RouteInv`, and `OvsKeysRealised` with them) on the instances of the runs above
that satisfy what the theorem assumes.
`NestInv` ranges over all assignments of depths, too many for the seven interfaces
of `priorities`; it was checked with five interfaces and three passes.

Only model-checked:

- Liveness: `ApplyEnds`, the fairness of `Transaction`, `EveryFileApplied`.
- The ten invariants of `Sections`, but for `OvsKeysKept` and `RoutesKept` of `HostKept`.
  They are about what the translations of 28 kinds
  make of each value: functions given by tables, sorted and deduplicated lists,
  folds over rules and servers.  Induction over such data is out of reach of the
  provers, and `@@` and `:>` of the `TLC` module, in which many of the tables are
  written, have no definition they know.  (`Confs` defines `Over`, which is `@@`, for
  the operators the proofs are about.)  Rules, DNS and OVN mappings, the other parts of
  `HostKept`, are such lists.

## What is not modelled

- A restart of NetworkManager, which forgets its checkpoints.
- The content of a configuration in `NetApply`: two desired states that differ
  are different configurations, whatever they have in common.
- The kernel-only backend, which has no checkpoint.
- In `Controllers`: InfiniBand, veth peers, copied MAC addresses, orphans of
  orphans, and the offline generation of profiles.
- In `Profiles`: OVS ports, whose profiles are named by UUID (what becomes of them
  is in `OvsSection`); `memory_only`, which
  leaves other profiles in place for NetworkManager to choose; profiles bound by
  MAC address.
- In `Sections`: two interfaces that change at once, other than where a kind says
  so (above); an interface that is removed and its revert; FEC, veth peers, copied
  MAC addresses and references to VFs; the deactivation of bridge ports for a new
  default VLAN; how verification waits; source and weight of routes, which are
  treated as the congestion window is; ranges of VLANs, which are lists of pairs;
  offline key files.
- OVS interfaces: their patch and DPDK settings, and external ids of interfaces other
  than a bridge; errors between the calls that replace the profiles of OVS ports.
- The host name: two strings that are set and compared; setting the configured one
  makes systemd change the running one, which is not in this repository.
- Policies (`lib/policy/`): a capture is a function of the current state, evaluated
  once before an apply; nothing it does interleaves with anything.
- `nmstatectl persist-nic-names` and `autoconf`: one pass over files and LLDP
  neighbours, with no state kept.
- The framing of OVSDB messages: `lib/ovsdb/json_rpc.rs` ends a message at the
  first read that is not full.
- Formatting, parsing and logging.

## Plan

- `Profiles` for OVS bridges, their ports and interfaces, call by call; and that its
  steps implement those from `SaveProfiles` to `FinishNmApply` of `NetApply`.
- Policies: captures that refer to each other, and templates.
- Theorems: that desired routes are realised and that a revert restores the keys of
  the OVS database and the routes, from the laws in `HostProofs`.
