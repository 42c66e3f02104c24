------------------------------ MODULE NetApply ------------------------------
(***************************************************************************)
(* NetworkState::apply() with the NetworkManager backend: several nmstate  *)
(* processes apply their desired states under NetworkManager checkpoints.  *)
(*                                                                         *)
(* A client is one process running apply_with_nm_backend()                 *)
(* (rust/src/lib/query_apply/net_state.rs).  It retrieves the current      *)
(* state, creates a checkpoint, writes and activates profiles, writes what *)
(* lives outside NetworkManager (dispatch scripts, OVSDB, the running      *)
(* hostname), verifies the outcome with retries, and destroys the          *)
(* checkpoint or rolls back to it.  NetworkManager holds at most one       *)
(* checkpoint, so a checkpoint is named by the client that created it.     *)
(***************************************************************************)
EXTENDS Naturals, FiniteSets

CONSTANTS
  Clients,       \* the processes; each runs one apply
  NoClient,      \* stands for whoever configured the host before
  Options,       \* what a desired state and its flags may ask for
  Disturbances,  \* what may go wrong around an apply, see below
  RETRY_NM_COUNT,
  ACTIVATION_RETRY_COUNT,
  VERIFY_RETRY_COUNT_DEFAULT,
  VERIFY_RETRY_COUNT_OVS,
  VERIFY_RETRY_COUNT_SRIOV_MIN,
  VERIFY_RETRY_COUNT_SRIOV_MAX

(* What a checkpoint does not cover: files in dispatcher.d, the OVS        *)
(* database, and the kernel's running hostname.                            *)
Sides == {"dispatch", "ovsdb", "hostname"}

(* The two passes of an apply that enables SR-IOV and uses the VFs: the    *)
(* physical functions alone first, then the whole desired state.           *)
Phases == {"pf", "main"}

(* What NetworkManager and the kernel bring up after a profile is active,  *)
(* in the order verification looks at it.                                  *)
Parts == {"ifaces", "vfs", "rest"}

OptionType == [noVerify : BOOLEAN, noCommit : BOOLEAN, timer : BOOLEAN,
               touches : SUBSET Sides, vfs : Nat, pf : BOOLEAN, ovs : BOOLEAN]

ASSUME ClientsAssumption == NoClient \notin Clients /\ IsFiniteSet(Clients)
ASSUME OptionsAssumption == Options \subseteq OptionType
(* "slow":   a step may outlast the timeout of the client's checkpoint      *)
(* "sigint": Ctrl-C may roll back the checkpoint of another client         *)
(* "user":   a user may commit or roll back while an apply is running      *)
(* "fault":  a call to NetworkManager may fail for no reason of its own    *)
ASSUME DisturbancesAssumption ==
  Disturbances \subseteq {"slow", "sigint", "user", "fault"}
ASSUME CountsAssumption ==
  /\ RETRY_NM_COUNT \in Nat \ {0}
  /\ ACTIVATION_RETRY_COUNT \in Nat \ {0}
  /\ {VERIFY_RETRY_COUNT_DEFAULT, VERIFY_RETRY_COUNT_OVS,
      VERIFY_RETRY_COUNT_SRIOV_MIN, VERIFY_RETRY_COUNT_SRIOV_MAX}
       \subseteq Nat \ {0}

VARIABLES
  pc,        \* where each client is
  opts,      \* what each client asks for
  phase,     \* which pass of the apply it is in
  outer,     \* failed tries of the apply-and-verify loop
  inner,     \* failed tries of the verify loop
  act,       \* number of the current activation attempt
  cp,        \* what became of each client's checkpoint
  snap,      \* the NetworkManager state its checkpoint holds
  nm,        \* the NetworkManager state: whose profiles, and what is up
  side,      \* who wrote last to each thing outside the checkpoint
  committed  \* (history) the profiles in place at the last commit

vars == <<pc, opts, phase, outer, inner, act, cp, snap, nm, side, committed>>
counters == <<outer, inner, act>>

Goals == (Clients \cup {NoClient}) \X Phases
NmStates == [goal : Goals, ready : SUBSET Parts]
InitialNm == [goal |-> <<NoClient, "main">>, ready |-> Parts]

(* Places where the code is inside an .await: tokio can drop the future    *)
(* there, so only there does Ctrl-C take effect.                           *)
Sleeping == {"retrieveSleep", "createSleep", "outerSleep", "actSleep",
             "verifySleep"}
Awaiting == Sleeping \cup {"retrieve", "refresh", "verifyRetrieve"}

(* Inside with_nm_checkpoint(). *)
UnderCheckpoint ==
  {"capability", "extend", "save", "activate", "actSleep", "finish", "ovsdb",
   "setHostname", "verifyExtend", "verifyRetrieve", "verifySleep",
   "outerSleep", "refresh", "destroy", "rollback"}
Before == {"retrieve", "retrieveSleep", "create", "createSleep"}
Ended == {"Ok", "Err", "interrupted", "crashed"}
Failed == {"Err", "interrupted", "crashed"}

Goal(c) == <<c, phase[c]>>
Live == {c \in Clients : cp[c] = "live"}

-----------------------------------------------------------------------------
(* Retries.                                                                *)

CanRetry(e) ==
  e \in {"PluginFailure", "Bug", "VerificationError", "SrIovVfNotFound"}

CanIgnore(e) == e = "SrIovVfNotFound"

(* Mutant: an error that can be ignored is ignored at every try. *)
RetryVerdictIgnores(n, count, e) ==
  CASE CanIgnore(e) -> "ok"
    [] n = count - 1 \/ ~CanRetry(e) -> "err"
    [] OTHER -> "again"

(* Mutant: one try too many. *)
RetryVerdictOneMore(n, count, e) ==
  IF n = count \/ ~CanRetry(e)
  THEN IF CanIgnore(e) THEN "ok" ELSE "err"
  ELSE "again"

(* What with_retry() does about the error e of try n (from 0) of count. *)
RetryVerdict(n, count, e) ==
  IF n = count - 1 \/ ~CanRetry(e)
  THEN IF CanIgnore(e) THEN "ok" ELSE "err"
  ELSE "again"

(* An error the backend returns: one that is retried, one that is not. *)
BackendErrors == {"Bug", "InvalidArgument"}

ProperVerifyRetryCount(vfs, ovs) ==
  CASE vfs = 0 /\ ovs -> VERIFY_RETRY_COUNT_OVS
    [] vfs = 0 /\ ~ovs -> VERIFY_RETRY_COUNT_DEFAULT
    [] vfs >= 64 -> VERIFY_RETRY_COUNT_SRIOV_MAX
    [] vfs \in 1..16 -> VERIFY_RETRY_COUNT_SRIOV_MIN
    [] OTHER -> (vfs \div 64) * VERIFY_RETRY_COUNT_SRIOV_MAX

VerifyRetryCount(c) ==
  ProperVerifyRetryCount(opts[c].vfs, phase[c] = "main" /\ opts[c].ovs)

(* Where the client goes when apply_with_nm_backend_and_under_checkpoint() *)
(* returns Ok.                                                             *)
AfterPhase(c) ==
  CASE phase[c] = "pf" -> "refresh"
    [] phase[c] = "main" /\ opts[c].noCommit -> "Ok"
    [] OTHER -> "destroy"

(* The closure of the outer loop returns the error e. *)
OuterFails(c, e) ==
  LET verdict == RetryVerdict(outer[c], RETRY_NM_COUNT, e)
  IN /\ pc' = [pc EXCEPT ![c] =
                 CASE verdict = "again" -> "outerSleep"
                   [] verdict = "ok" -> AfterPhase(c)
                   [] OTHER -> "rollback"]
     /\ outer' = [outer EXCEPT ![c] = IF verdict = "again" THEN @ + 1 ELSE @]

(* Mutant: the tries are not counted. *)
VerifyFailsUncounted(c, e) ==
  /\ IF CanRetry(e)
     THEN pc' = [pc EXCEPT ![c] = "verifySleep"] /\ UNCHANGED outer
     ELSE OuterFails(c, e)
  /\ UNCHANGED inner

(* The closure of the verify loop returns the error e. *)
VerifyFails(c, e) ==
  LET verdict == RetryVerdict(inner[c], VerifyRetryCount(c), e)
  IN CASE verdict = "again" ->
            /\ pc' = [pc EXCEPT ![c] = "verifySleep"]
            /\ inner' = [inner EXCEPT ![c] = @ + 1]
            /\ UNCHANGED outer
       [] verdict = "ok" ->
            /\ pc' = [pc EXCEPT ![c] = AfterPhase(c)]
            /\ UNCHANGED <<inner, outer>>
       [] OTHER -> OuterFails(c, e) /\ UNCHANGED inner
-----------------------------------------------------------------------------
(* NetworkManager, as the code uses it.                                    *)

Faulty == "fault" \in Disturbances

(* A call that names c's checkpoint succeeds, or fails without an effect. *)
CallOk(c) == cp[c] = "live"
CallFails(c) == cp[c] # "live" \/ Faulty

(* NetworkManager puts the checkpoint's state back and drops it. *)
RollBack(c) ==
  /\ nm' = snap[c]
  /\ cp' = [cp EXCEPT ![c] = "rolledback"]
  /\ UNCHANGED <<snap, committed>>

(* NetworkManager drops the checkpoint and keeps the configuration. *)
DropCheckpoint(c) ==
  /\ cp' = [cp EXCEPT ![c] = "destroyed"]
  /\ committed' = nm.goal
  /\ UNCHANGED <<snap, nm>>

(* Any call that adds, changes, (de)activates or deletes a profile makes   *)
(* the configuration the client's; what it asks for comes up later.        *)
WriteNm(c) == nm' = [goal |-> Goal(c), ready |-> {}]

TouchNm(c) ==
  nm' = IF nm.goal = Goal(c) THEN nm ELSE [goal |-> Goal(c), ready |-> {}]

-----------------------------------------------------------------------------
Init ==
  /\ opts \in [Clients -> Options]
  /\ pc = [c \in Clients |-> "retrieve"]
  /\ phase = [c \in Clients |-> IF opts[c].pf THEN "pf" ELSE "main"]
  /\ outer = [c \in Clients |-> 0]
  /\ inner = [c \in Clients |-> 0]
  /\ act = [c \in Clients |-> 0]
  /\ cp = [c \in Clients |-> "none"]
  /\ snap = [c \in Clients |-> InitialNm]
  /\ nm = InitialNm
  /\ side = [d \in Sides |-> NoClient]
  /\ committed = InitialNm.goal

(* retrieve_async() and, unless the physical functions come first, the     *)
(* merge and validation of the desired state.  One retry.                  *)
Retrieve(c) ==
  /\ pc[c] = "retrieve"
  /\ \/ pc' = [pc EXCEPT ![c] = "create"]
     \/ \E e \in BackendErrors :
          pc' = [pc EXCEPT ![c] = IF CanRetry(e) THEN "retrieveSleep" ELSE "Err"]
     \/ /\ phase[c] = "main"
        /\ pc' = [pc EXCEPT ![c] = "Err"]
  /\ UNCHANGED <<opts, phase, counters, cp, snap, nm, side, committed>>

RetrieveAgain(c) ==
  /\ pc[c] = "retrieveSleep"
  /\ opts[c].timer
  /\ pc' \in {[pc EXCEPT ![c] = "create"], [pc EXCEPT ![c] = "Err"]}
  /\ UNCHANGED <<opts, phase, counters, cp, snap, nm, side, committed>>

(* Mutant: a second checkpoint is created next to the first. *)
CheckpointCreatedAnyway(c) ==
  /\ cp' = [cp EXCEPT ![c] = "live"]
  /\ snap' = [snap EXCEPT ![c] = nm]
  /\ pc' = [pc EXCEPT ![c] = "extend"]

(* NetworkManager refuses a checkpoint while another one exists, and to a  *)
(* caller that is not authorized; the first is retried once.  Merging the  *)
(* physical functions happens under the checkpoint and may fail.           *)
CheckpointCreated(c) ==
  /\ Live = {}
  /\ cp' = [cp EXCEPT ![c] = "live"]
  /\ snap' = [snap EXCEPT ![c] = nm]
  /\ \/ /\ phase[c] = "main"
        /\ pc' = [pc EXCEPT ![c] = "capability"]
     \/ /\ phase[c] = "pf"
        /\ pc' \in {[pc EXCEPT ![c] = "extend"], [pc EXCEPT ![c] = "rollback"]}

CreateCheckpoint(c) ==
  /\ pc[c] = "create"
  /\ \/ CheckpointCreated(c)
     \/ /\ Live # {} \/ Faulty
        /\ pc' = [pc EXCEPT ![c] = "createSleep"]
        /\ UNCHANGED <<cp, snap>>
     \/ /\ Faulty
        /\ pc' = [pc EXCEPT ![c] = "Err"]
        /\ UNCHANGED <<cp, snap>>
  /\ UNCHANGED <<opts, phase, counters, nm, side, committed>>

CreateCheckpointAgain(c) ==
  /\ pc[c] = "createSleep"
  /\ opts[c].timer
  /\ \/ CheckpointCreated(c)
     \/ /\ Live # {} \/ Faulty
        /\ pc' = [pc EXCEPT ![c] = "Err"]
        /\ UNCHANGED <<cp, snap>>
  /\ UNCHANGED <<opts, phase, counters, nm, side, committed>>

(* check_sriov_capability() *)
CheckCapability(c) ==
  /\ pc[c] = "capability"
  /\ \/ pc' = [pc EXCEPT ![c] = "extend"]
     \/ opts[c].vfs > 0 /\ pc' = [pc EXCEPT ![c] = "rollback"]
  /\ UNCHANGED <<opts, phase, counters, cp, snap, nm, side, committed>>

(* Every try of the outer loop first extends the checkpoint's timeout. *)
ExtendTimeout(c) ==
  /\ pc[c] = "extend"
  /\ \/ CallOk(c) /\ pc' = [pc EXCEPT ![c] = "save"] /\ UNCHANGED outer
     \/ CallFails(c) /\ OuterFails(c, "Bug")
  /\ UNCHANGED <<opts, phase, inner, act, cp, snap, nm, side, committed>>

(* nm_apply() up to the activation: deletes interfaces, sets the hostname, *)
(* deactivates, saves and deletes profiles.  It may fail halfway.          *)
SaveProfiles(c) ==
  /\ pc[c] = "save"
  /\ \/ /\ TouchNm(c)
        /\ pc' = [pc EXCEPT ![c] = "activate"]
        /\ act' = [act EXCEPT ![c] = 1]
        /\ UNCHANGED outer
     \/ /\ TouchNm(c) \/ UNCHANGED nm
        /\ \E e \in BackendErrors : OuterFails(c, e)
        /\ UNCHANGED act
  /\ UNCHANGED <<opts, phase, inner, cp, snap, side, committed>>

(* One pass of activate_nm_profiles() over the profiles that remain. *)
ActivateProfiles(c) ==
  /\ pc[c] = "activate"
  /\ WriteNm(c)
  /\ \/ pc' = [pc EXCEPT ![c] = "finish"] /\ UNCHANGED <<act, outer>>
     \/ /\ act[c] < ACTIVATION_RETRY_COUNT
        /\ pc' = [pc EXCEPT ![c] = "actSleep"]
        /\ act' = [act EXCEPT ![c] = @ + 1]
        /\ UNCHANGED outer
     \/ /\ act[c] = ACTIVATION_RETRY_COUNT
        /\ OuterFails(c, "Bug")
        /\ UNCHANGED act
     \/ OuterFails(c, "InvalidArgument") /\ UNCHANGED act
  /\ UNCHANGED <<opts, phase, inner, cp, snap, side, committed>>

(* The wait before the next pass.  extend_timeout_if_required() calls      *)
(* NetworkManager only after half of the timeout, so a lost checkpoint may *)
(* go unnoticed.                                                           *)
ActivateAgain(c) ==
  /\ pc[c] = "actSleep"
  /\ opts[c].timer
  /\ \/ pc' = [pc EXCEPT ![c] = "activate"] /\ UNCHANGED outer
     \/ CallFails(c) /\ OuterFails(c, "Bug")
  /\ UNCHANGED <<opts, phase, inner, act, cp, snap, nm, side, committed>>

(* The end of nm_apply(): deactivation, then the dispatch scripts.  The    *)
(* pass over the physical functions carries no scripts.                    *)
FinishNmApply(c) ==
  /\ pc[c] = "finish"
  /\ \/ /\ TouchNm(c)
        /\ side' = IF "dispatch" \in opts[c].touches /\ phase[c] = "main"
                   THEN [side EXCEPT !["dispatch"] = c] ELSE side
        /\ pc' = [pc EXCEPT ![c] = "ovsdb"]
        /\ UNCHANGED outer
     \/ /\ TouchNm(c)
        /\ \E e \in BackendErrors : OuterFails(c, e)
        /\ UNCHANGED side
  /\ UNCHANGED <<opts, phase, inner, act, cp, snap, committed>>

(* ovsdb_apply(), when the desired state changes the OVS database and      *)
(* ovsdb_is_running().  A database that is not running is skipped.         *)
OvsdbApply(c) ==
  /\ pc[c] = "ovsdb"
  /\ \/ /\ "ovsdb" \in opts[c].touches /\ phase[c] = "main"
        /\ \/ /\ side' = [side EXCEPT !["ovsdb"] = c]
              /\ pc' = [pc EXCEPT ![c] = "setHostname"]
              /\ UNCHANGED outer
           \/ OuterFails(c, "Bug") /\ UNCHANGED side
     \/ /\ pc' = [pc EXCEPT ![c] = "setHostname"]
        /\ UNCHANGED <<side, outer>>
  /\ UNCHANGED <<opts, phase, inner, act, cp, snap, nm, committed>>

(* set_running_hostname() comes from the whole desired state, so both      *)
(* passes do it.  The verify loop is entered unless verification is off or *)
(* the number of tries is zero.                                            *)
HostnameDone(c) ==
  /\ pc' = [pc EXCEPT ![c] =
              IF opts[c].noVerify \/ VerifyRetryCount(c) = 0
              THEN AfterPhase(c) ELSE "verifyExtend"]
  /\ inner' = [inner EXCEPT ![c] = 0]
  /\ UNCHANGED outer

SetRunningHostname(c) ==
  /\ pc[c] = "setHostname"
  /\ \/ /\ "hostname" \in opts[c].touches
        /\ \/ side' = [side EXCEPT !["hostname"] = c] /\ HostnameDone(c)
           \/ OuterFails(c, "InvalidArgument") /\ UNCHANGED <<side, inner>>
     \/ /\ "hostname" \notin opts[c].touches
        /\ HostnameDone(c)
        /\ UNCHANGED side
  /\ UNCHANGED <<opts, phase, act, cp, snap, nm, committed>>
-----------------------------------------------------------------------------
(* Verification.                                                           *)

Wants(c, d) == d \in opts[c].touches /\ phase[c] = "main"

(* The loop of MergedInterfaces::verify() over the desired interfaces      *)
(* stops at the first error: of an interface (with its scripts), or of the *)
(* VFs of a physical function, which are looked at right after that one.   *)
(* A hash map orders the loop, so with both in error either may be met.    *)
IfaceErrors(c) ==
  (IF \/ nm.goal # Goal(c) \/ "ifaces" \notin nm.ready
      \/ Wants(c, "dispatch") /\ side["dispatch"] # c
   THEN {"VerificationError"} ELSE {})
  \cup
  (IF opts[c].vfs > 0 /\ "vfs" \notin nm.ready
   THEN {"SrIovVfNotFound"} ELSE {})

(* What MergedNetworkState::verify() may return: it stops at the first     *)
(* mismatch, of the hostname, then of the interfaces, then of routes,      *)
(* rules, DNS and OVSDB.                                                   *)
VerifyOutcomes(c) ==
  CASE Wants(c, "hostname") /\ side["hostname"] # c -> {"VerificationError"}
    [] ~(Wants(c, "hostname") /\ side["hostname"] # c)
       /\ IfaceErrors(c) # {} -> IfaceErrors(c)
    [] OTHER ->
       IF \/ phase[c] = "main" /\ "rest" \notin nm.ready
          \/ Wants(c, "ovsdb") /\ side["ovsdb"] # c
       THEN {"VerificationError"} ELSE {"ok"}

VerifyExtendTimeout(c) ==
  /\ pc[c] = "verifyExtend"
  /\ \/ /\ CallOk(c)
        /\ pc' = [pc EXCEPT ![c] = "verifyRetrieve"]
        /\ UNCHANGED <<outer, inner>>
     \/ CallFails(c) /\ VerifyFails(c, "Bug")
  /\ UNCHANGED <<opts, phase, act, cp, snap, nm, side, committed>>

(* Retrieve the state again and compare.  An OVS database that no longer   *)
(* runs is one of the errors that are retried.                             *)
Verify(c) ==
  /\ pc[c] = "verifyRetrieve"
  /\ \/ /\ "ok" \in VerifyOutcomes(c)
        /\ pc' = [pc EXCEPT ![c] = AfterPhase(c)]
        /\ UNCHANGED <<outer, inner>>
     \/ \E e \in VerifyOutcomes(c) \ {"ok"} : VerifyFails(c, e)
     \/ \E e \in BackendErrors : VerifyFails(c, e)
  /\ UNCHANGED <<opts, phase, act, cp, snap, nm, side, committed>>

VerifyAgain(c) ==
  /\ pc[c] = "verifySleep"
  /\ opts[c].timer
  /\ pc' = [pc EXCEPT ![c] = "verifyExtend"]
  /\ UNCHANGED <<opts, phase, counters, cp, snap, nm, side, committed>>

ApplyAgain(c) ==
  /\ pc[c] = "outerSleep"
  /\ opts[c].timer
  /\ pc' = [pc EXCEPT ![c] = "extend"]
  /\ UNCHANGED <<opts, phase, counters, cp, snap, nm, side, committed>>

(* Mutant: the error returns without a rollback. *)
RefreshCurrentNoRollback(c) ==
  /\ pc[c] = "refresh"
  /\ \/ /\ pc' = [pc EXCEPT ![c] = "capability"]
        /\ phase' = [phase EXCEPT ![c] = "main"]
        /\ outer' = [outer EXCEPT ![c] = 0]
     \/ /\ pc' = [pc EXCEPT ![c] = "Err"]
        /\ UNCHANGED <<phase, outer>>
  /\ UNCHANGED <<opts, inner, act, cp, snap, nm, side, committed>>

(* Between the passes: retrieve again and merge the whole desired state. *)
RefreshCurrent(c) ==
  /\ pc[c] = "refresh"
  /\ \/ /\ pc' = [pc EXCEPT ![c] = "capability"]
        /\ phase' = [phase EXCEPT ![c] = "main"]
        /\ outer' = [outer EXCEPT ![c] = 0]
     \/ /\ pc' = [pc EXCEPT ![c] = "rollback"]
        /\ UNCHANGED <<phase, outer>>
  /\ UNCHANGED <<opts, inner, act, cp, snap, nm, side, committed>>

-----------------------------------------------------------------------------
(* The end of with_nm_checkpoint().                                        *)

(* Mutant: a checkpoint that cannot be destroyed is only logged. *)
DestroyCheckpointLogged(c) ==
  /\ pc[c] = "destroy"
  /\ \/ CallOk(c) /\ DropCheckpoint(c)
     \/ CallFails(c) /\ UNCHANGED <<cp, snap, nm, committed>>
  /\ pc' = [pc EXCEPT ![c] = "Ok"]
  /\ UNCHANGED <<opts, phase, counters, side>>

DestroyCheckpoint(c) ==
  /\ pc[c] = "destroy"
  /\ \/ /\ CallOk(c)
        /\ DropCheckpoint(c)
        /\ pc' = [pc EXCEPT ![c] = "Ok"]
     \/ /\ CallFails(c)
        /\ pc' = [pc EXCEPT ![c] = "Err"]
        /\ UNCHANGED <<cp, snap, nm, committed>>
  /\ UNCHANGED <<opts, phase, counters, side>>

(* Mutant: the checkpoint is destroyed instead. *)
RollbackCheckpointDestroys(c) ==
  /\ pc[c] = "rollback"
  /\ \/ CallOk(c) /\ DropCheckpoint(c)
     \/ CallFails(c) /\ UNCHANGED <<cp, snap, nm, committed>>
  /\ pc' = [pc EXCEPT ![c] = "Err"]
  /\ UNCHANGED <<opts, phase, counters, side>>

(* A rollback that fails is only logged. *)
RollbackCheckpoint(c) ==
  /\ pc[c] = "rollback"
  /\ \/ CallOk(c) /\ RollBack(c)
     \/ CallFails(c) /\ UNCHANGED <<cp, snap, nm, committed>>
  /\ pc' = [pc EXCEPT ![c] = "Err"]
  /\ UNCHANGED <<opts, phase, counters, side>>

-----------------------------------------------------------------------------
(* Everybody else.                                                         *)

(* Mutant: Ctrl-C rolls back and lets the apply go on. *)
InterruptKeepsApplying(c) ==
  /\ pc[c] \in Awaiting
  /\ c \in Live
  /\ RollBack(c)
  /\ UNCHANGED <<pc, opts, phase, counters, side>>

(* Ctrl-C in nmstatectl: the apply is dropped and rollback("") takes the   *)
(* first checkpoint NetworkManager lists, whoever created it.              *)
Interrupt(c) ==
  /\ pc[c] \in Awaiting
  /\ pc' = [pc EXCEPT ![c] = "interrupted"]
  /\ \/ \E o \in Live : (o = c \/ "sigint" \in Disturbances) /\ RollBack(o)
     \/ /\ Live = {} \/ Faulty \/ (Live # {c} /\ "sigint" \notin Disturbances)
        /\ UNCHANGED <<cp, snap, nm, committed>>
  /\ UNCHANGED <<opts, phase, counters, side>>

(* The process dies.  `nmstatectl edit` builds its runtime without a       *)
(* timer, so there every tokio::time::sleep() panics.                      *)
Crash(c) ==
  /\ pc[c] \notin Ended
  /\ pc' = [pc EXCEPT ![c] = "crashed"]
  /\ UNCHANGED <<opts, phase, counters, cp, snap, nm, side, committed>>

SleepPanics(c) == pc[c] \in Sleeping /\ ~opts[c].timer /\ Crash(c)

(* The rollback timer of the checkpoint fires in NetworkManager. *)
Expire(c) ==
  /\ cp[c] = "live"
  /\ pc[c] \in Ended \/ "slow" \in Disturbances
  /\ RollBack(c)
  /\ UNCHANGED <<pc, opts, phase, counters, side>>

(* nmstatectl commit | rollback, with or without the checkpoint's name. *)
UserMayClose(c) ==
  cp[c] = "live" /\ (pc[c] = "Ok" \/ "user" \in Disturbances)

UserCommit(c) ==
  /\ UserMayClose(c)
  /\ DropCheckpoint(c)
  /\ UNCHANGED <<pc, opts, phase, counters, side>>

UserRollback(c) ==
  /\ UserMayClose(c)
  /\ RollBack(c)
  /\ UNCHANGED <<pc, opts, phase, counters, side>>

(* Activation goes on after the call that asked for it returned. *)
Settle ==
  /\ \E p \in Parts \ nm.ready : nm' = [nm EXCEPT !.ready = @ \cup {p}]
  /\ UNCHANGED <<pc, opts, phase, counters, cp, snap, side, committed>>

ClientStep(c) ==
  \/ Retrieve(c) \/ RetrieveAgain(c)
  \/ CreateCheckpoint(c) \/ CreateCheckpointAgain(c)
  \/ CheckCapability(c) \/ ExtendTimeout(c)
  \/ SaveProfiles(c) \/ ActivateProfiles(c) \/ ActivateAgain(c)
  \/ FinishNmApply(c) \/ OvsdbApply(c) \/ SetRunningHostname(c)
  \/ VerifyExtendTimeout(c) \/ Verify(c) \/ VerifyAgain(c)
  \/ ApplyAgain(c) \/ RefreshCurrent(c)
  \/ DestroyCheckpoint(c) \/ RollbackCheckpoint(c)
  \/ SleepPanics(c)

(* Every process has ended and no checkpoint is left. *)
AllEnded ==
  /\ \A c \in Clients : pc[c] \in Ended
  /\ Live = {}
  /\ UNCHANGED vars

Next ==
  \/ \E c \in Clients :
       \/ ClientStep(c) \/ Interrupt(c) \/ Crash(c)
       \/ Expire(c) \/ UserCommit(c) \/ UserRollback(c)
  \/ Settle
  \/ AllEnded

(* A process keeps running and a checkpoint's timer keeps counting.  No    *)
(* fairness on Ctrl-C, crashes, users or the kernel.                       *)
Fairness ==
  \A c \in Clients : WF_vars(ClientStep(c)) /\ WF_vars(Expire(c))

Spec == Init /\ [][Next]_vars
FairSpec == Spec /\ Fairness

(* Types; the counters of with_retry() and activate_nm_profiles() never    *)
(* reach past the last try.                                                *)
TypeOK ==
  /\ pc \in [Clients -> Before \cup UnderCheckpoint \cup Ended]
  /\ opts \in [Clients -> Options]
  /\ phase \in [Clients -> Phases]
  /\ outer \in [Clients -> 0..RETRY_NM_COUNT - 1]
  /\ inner \in [Clients -> Nat]
  /\ act \in [Clients -> 0..ACTIVATION_RETRY_COUNT]
  /\ cp \in [Clients -> {"none", "live", "destroyed", "rolledback"}]
  /\ snap \in [Clients -> NmStates]
  /\ nm \in NmStates
  /\ side \in [Sides -> Clients \cup {NoClient}]
  /\ committed \in Goals
-----------------------------------------------------------------------------
(* Properties.                                                             *)

(* While nobody holds a checkpoint, NetworkManager's configuration is the  *)
(* one of the last commit: whatever fails, is interrupted, crashes or      *)
(* times out in apply_with_nm_backend() leaves nothing behind, and no      *)
(* client writes outside its checkpoint.  (Undisturbed.)                   *)
Atomic == Live = {} => nm.goal = committed

(* An apply that returned an error or died, and whose checkpoint is gone,  *)
(* is not what NetworkManager runs: with_nm_checkpoint() rolled it back or *)
(* NetworkManager did.  (Undisturbed.)                                     *)
FailedNotInPlace ==
  \A c \in Clients :
    pc[c] \in Failed /\ c \notin Live => nm.goal[1] # c

(* When with_nm_checkpoint() is about to destroy the checkpoint of an      *)
(* apply with verification, the system still matches the desired state,    *)
(* or VFs are wanted and all tries of the verification are used up: only   *)
(* then is SrIovVfNotFound ignored, and with it whatever the loop over the *)
(* interfaces had not reached yet.  The hostname, which is compared first, *)
(* matches even then.  (Undisturbed.)                                      *)
CommitIsVerified ==
  \A c \in Clients :
    pc[c] = "destroy" /\ ~opts[c].noVerify =>
      /\ "hostname" \in opts[c].touches => side["hostname"] = c
      /\ \/ VerifyOutcomes(c) = {"ok"}
         \/ opts[c].vfs > 0 /\ inner[c] = VerifyRetryCount(c) - 1

(* An apply that returns an error has given its checkpoint back: the next  *)
(* apply need not wait for its timeout.  (No faults.)                      *)
ErrLeavesNoCheckpoint == \A c \in Clients : pc[c] = "Err" => c \notin Live

(* An apply that returns Ok and was to be committed was committed by       *)
(* itself or by a user: a checkpoint lost to its timer or to someone       *)
(* else's rollback never goes unnoticed.                                   *)
OkMeansCommitted ==
  \A c \in Clients :
    pc[c] = "Ok" /\ ~opts[c].noCommit => cp[c] = "destroyed"

(* Whatever the retries of with_retry() meet, every apply ends. *)
ApplyEnds == \A c \in Clients : <>(pc[c] \in Ended)

(* Seen from NetworkManager's configuration, the processes implement       *)
(* one-at-a-time transactions that are always closed.                      *)
T == INSTANCE NetTransaction WITH
       Configs <- Goals, InitialConfig <- InitialNm.goal,
       conf <- nm.goal, tx <- {snap[c].goal : c \in Live}
TransactionSafety == T!TxSafety
Transaction == T!TxSpec

(* "By default(true), after applied the network state, nmstate will verify *)
(* whether the outcome network configuration matches with desired, if not, *)
(* will rollback to state before apply": an apply with verification that   *)
(* is committed matches.                                                   *)
DocCommittedMatches ==
  \A c \in Clients :
    pc[c] = "destroy" /\ ~opts[c].noVerify => VerifyOutcomes(c) = {"ok"}
=============================================================================
