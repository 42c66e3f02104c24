--------------------------- MODULE NetApplyProofs ---------------------------
(***************************************************************************)
(* Theorems about NetApply, for any number of processes, any desired       *)
(* states and any number of retries.                                       *)
(***************************************************************************)
EXTENDS NetApply, TLAPS

Places == Before \cup UnderCheckpoint \cup Ended

-----------------------------------------------------------------------------
(* Where an error takes a client.                                          *)

(* AfterPhase() leads to the next pass, to the end of with_nm_checkpoint() *)
(* or, without commit, out of it.                                          *)
LEMMA AfterPhasePlaces ==
  ASSUME TypeOK, NEW c \in Clients
  PROVE  /\ AfterPhase(c) \in {"refresh", "destroy", "Ok"}
         /\ AfterPhase(c) = "Ok" => opts[c].noCommit
         /\ AfterPhase(c) = "destroy" => phase[c] = "main"
BY DEF TypeOK, AfterPhase, Phases

(* An error that is not ignored sends the outer loop to its next try or to *)
(* the rollback, and never past its last try.                              *)
LEMMA OuterFailsStep ==
  ASSUME TypeOK, NEW c \in Clients, NEW e, ~CanIgnore(e), OuterFails(c, e)
  PROVE  /\ \E p \in {"outerSleep", "rollback"} : pc' = [pc EXCEPT ![c] = p]
         /\ outer' \in [Clients -> 0..RETRY_NM_COUNT - 1]
<1>1. RetryVerdict(outer[c], RETRY_NM_COUNT, e) \in {"again", "err"}
  BY DEF RetryVerdict
<1>2. CASE RetryVerdict(outer[c], RETRY_NM_COUNT, e) = "again"
  <2>1. pc' = [pc EXCEPT ![c] = "outerSleep"]
    BY <1>2 DEF OuterFails
  <2>2. outer' = [outer EXCEPT ![c] = outer[c] + 1]
    BY <1>2 DEF OuterFails
  <2>3. outer[c] # RETRY_NM_COUNT - 1
    BY <1>2 DEF RetryVerdict
  <2>4. outer[c] + 1 \in 0..RETRY_NM_COUNT - 1
    BY <2>3, CountsAssumption DEF TypeOK
  <2>. QED
    BY <2>1, <2>2, <2>4 DEF TypeOK
<1>3. CASE RetryVerdict(outer[c], RETRY_NM_COUNT, e) = "err"
  <2>1. pc' = [pc EXCEPT ![c] = "rollback"]
    BY <1>3 DEF OuterFails
  <2>2. outer' = [outer EXCEPT ![c] = outer[c]]
    BY <1>3 DEF OuterFails
  <2>. QED
    BY <2>1, <2>2 DEF TypeOK
<1>. QED
  BY <1>1, <1>2, <1>3

(* An error of the verify loop is retried there, handed to the outer loop, *)
(* or, when it may be ignored, taken for success.                          *)
LEMMA VerifyFailsStep ==
  ASSUME TypeOK, NEW c \in Clients, NEW e, VerifyFails(c, e)
  PROVE  /\ \/ \E p \in {"verifySleep", "outerSleep", "rollback"} :
                 pc' = [pc EXCEPT ![c] = p]
            \/ CanIgnore(e) /\ pc' = [pc EXCEPT ![c] = AfterPhase(c)]
         /\ outer' \in [Clients -> 0..RETRY_NM_COUNT - 1]
         /\ inner' \in [Clients -> Nat]
<1>. DEFINE verdict == RetryVerdict(inner[c], VerifyRetryCount(c), e)
<1>1. verdict \in {"again", "err", "ok"}
  BY DEF RetryVerdict
<1>2. CASE verdict = "again"
  <2>1. /\ pc' = [pc EXCEPT ![c] = "verifySleep"]
        /\ inner' = [inner EXCEPT ![c] = inner[c] + 1]
        /\ outer' = outer
    BY <1>2 DEF VerifyFails
  <2>. QED
    BY <2>1 DEF TypeOK
<1>3. CASE verdict = "ok"
  <2>1. pc' = [pc EXCEPT ![c] = AfterPhase(c)] /\ UNCHANGED <<inner, outer>>
    BY <1>3 DEF VerifyFails
  <2>2. CanIgnore(e)
    BY <1>3 DEF RetryVerdict
  <2>. QED
    BY <2>1, <2>2 DEF TypeOK
<1>4. CASE verdict = "err"
  <2>1. OuterFails(c, e) /\ UNCHANGED inner
    BY <1>4 DEF VerifyFails
  <2>2. ~CanIgnore(e)
    BY <1>4 DEF RetryVerdict
  <2>. QED
    BY <2>1, <2>2, OuterFailsStep DEF TypeOK
<1>. QED
  BY <1>1, <1>2, <1>3, <1>4

-----------------------------------------------------------------------------
(* Types.                                                                  *)

(* What a client asks NetworkManager for is a configuration. *)
LEMMA GoalType ==
  ASSUME TypeOK, NEW c \in Clients
  PROVE  [goal |-> Goal(c), ready |-> {}] \in NmStates
BY DEF TypeOK, Goal, Goals, NmStates

(* The errors of the backend are never ignored. *)
LEMMA BackendErrorsCount ==
  ~CanIgnore("Bug") /\ \A e \in BackendErrors : ~CanIgnore(e)
BY DEF BackendErrors, CanIgnore

(* Every step of a client or about its checkpoint keeps the types. *)
LEMMA TypeClientStep ==
  ASSUME TypeOK, NEW c \in Clients,
         \/ ClientStep(c) \/ Interrupt(c) \/ Crash(c)
         \/ Expire(c) \/ UserCommit(c) \/ UserRollback(c)
  PROVE  TypeOK'
<1>1. CASE Retrieve(c)
  BY <1>1 DEF Retrieve, TypeOK, Before, Ended, counters
<1>2. CASE RetrieveAgain(c)
  BY <1>2 DEF RetrieveAgain, TypeOK, Before, Ended, counters
<1>3. CASE CreateCheckpoint(c)
  BY <1>3 DEF CreateCheckpoint, CheckpointCreated, TypeOK, Before,
              UnderCheckpoint, Ended, counters
<1>4. CASE CreateCheckpointAgain(c)
  BY <1>4 DEF CreateCheckpointAgain, CheckpointCreated, TypeOK,
              UnderCheckpoint, Ended, counters
<1>5. CASE CheckCapability(c)
  BY <1>5 DEF CheckCapability, TypeOK, UnderCheckpoint, counters
<1>6. CASE ExtendTimeout(c)
  BY <1>6, OuterFailsStep, BackendErrorsCount
     DEF ExtendTimeout, TypeOK, UnderCheckpoint
<1>7. CASE SaveProfiles(c)
  <2>1. act' \in [Clients -> 0..ACTIVATION_RETRY_COUNT]
    BY <1>7, CountsAssumption DEF SaveProfiles, TypeOK
  <2>2. nm' \in NmStates
    BY <1>7, GoalType DEF SaveProfiles, TouchNm, TypeOK
  <2>. QED
    BY <1>7, <2>1, <2>2, OuterFailsStep, BackendErrorsCount
       DEF SaveProfiles, TypeOK, UnderCheckpoint
<1>8. CASE ActivateProfiles(c)
  <2>1. act' \in [Clients -> 0..ACTIVATION_RETRY_COUNT]
    BY <1>8, CountsAssumption DEF ActivateProfiles, TypeOK
  <2>2. nm' \in NmStates
    BY <1>8, GoalType DEF ActivateProfiles, WriteNm
  <2>3. ~CanIgnore("InvalidArgument")
    BY DEF CanIgnore
  <2>. QED
    BY <1>8, <2>1, <2>2, <2>3, OuterFailsStep, BackendErrorsCount
       DEF ActivateProfiles, TypeOK, UnderCheckpoint
<1>9. CASE ActivateAgain(c)
  BY <1>9, OuterFailsStep, BackendErrorsCount
     DEF ActivateAgain, TypeOK, UnderCheckpoint
<1>10. CASE FinishNmApply(c)
  <2>1. nm' \in NmStates
    BY <1>10, GoalType DEF FinishNmApply, TouchNm, TypeOK
  <2>2. side' \in [Sides -> Clients \cup {NoClient}]
    BY <1>10 DEF FinishNmApply, TypeOK
  <2>. QED
    BY <1>10, <2>1, <2>2, OuterFailsStep, BackendErrorsCount
       DEF FinishNmApply, TypeOK, UnderCheckpoint
<1>11. CASE OvsdbApply(c)
  <2>1. side' \in [Sides -> Clients \cup {NoClient}]
    BY <1>11 DEF OvsdbApply, TypeOK
  <2>. QED
    BY <1>11, <2>1, OuterFailsStep, BackendErrorsCount
       DEF OvsdbApply, TypeOK, UnderCheckpoint
<1>12. CASE SetRunningHostname(c)
  <2>1. side' \in [Sides -> Clients \cup {NoClient}]
    BY <1>12 DEF SetRunningHostname, TypeOK
  <2>2. CASE HostnameDone(c)
    <3>1. AfterPhase(c) \in Places
      BY AfterPhasePlaces DEF Places, UnderCheckpoint, Ended
    <3>2. pc' \in [Clients -> Places]
      BY <2>2, <3>1 DEF HostnameDone, TypeOK, Places, UnderCheckpoint
    <3>. QED
      BY <1>12, <2>1, <2>2, <3>2
         DEF SetRunningHostname, HostnameDone, TypeOK, Places
  <2>3. CASE OuterFails(c, "InvalidArgument") /\ UNCHANGED <<side, inner>>
    <3>1. ~CanIgnore("InvalidArgument")
      BY DEF CanIgnore
    <3>. QED
      BY <1>12, <2>1, <2>3, <3>1, OuterFailsStep
         DEF SetRunningHostname, TypeOK, UnderCheckpoint
  <2>. QED
    BY <1>12, <2>2, <2>3 DEF SetRunningHostname
<1>13. CASE VerifyExtendTimeout(c)
  BY <1>13, VerifyFailsStep, BackendErrorsCount
     DEF VerifyExtendTimeout, TypeOK, UnderCheckpoint
<1>14. CASE Verify(c)
  <2>1. AfterPhase(c) \in Places
    BY AfterPhasePlaces DEF Places, UnderCheckpoint, Ended
  <2>2. ASSUME NEW e, VerifyFails(c, e)
        PROVE  /\ pc' \in [Clients -> Places]
               /\ outer' \in [Clients -> 0..RETRY_NM_COUNT - 1]
               /\ inner' \in [Clients -> Nat]
    BY <2>1, <2>2, VerifyFailsStep DEF TypeOK, Places, UnderCheckpoint
  <2>3. /\ pc' \in [Clients -> Places]
        /\ outer' \in [Clients -> 0..RETRY_NM_COUNT - 1]
        /\ inner' \in [Clients -> Nat]
    BY <1>14, <2>1, <2>2 DEF Verify, TypeOK, Places
  <2>. QED
    BY <1>14, <2>3 DEF Verify, TypeOK, Places
<1>15. CASE VerifyAgain(c)
  BY <1>15 DEF VerifyAgain, TypeOK, UnderCheckpoint, counters
<1>16. CASE ApplyAgain(c)
  BY <1>16 DEF ApplyAgain, TypeOK, UnderCheckpoint, counters
<1>17. CASE RefreshCurrent(c)
  BY <1>17, CountsAssumption
     DEF RefreshCurrent, TypeOK, UnderCheckpoint, Phases
<1>18. CASE DestroyCheckpoint(c)
  BY SMTT(30), <1>18 DEF DestroyCheckpoint, DropCheckpoint, TypeOK, Ended, counters,
               NmStates
<1>19. CASE RollbackCheckpoint(c)
  BY <1>19 DEF RollbackCheckpoint, RollBack, TypeOK, Ended, counters
<1>20. CASE SleepPanics(c) \/ Crash(c)
  BY <1>20 DEF SleepPanics, Crash, TypeOK, Ended, counters
<1>21. CASE Interrupt(c)
  BY <1>21 DEF Interrupt, RollBack, Live, TypeOK, Ended, counters
<1>22. CASE Expire(c) \/ UserRollback(c)
  BY <1>22 DEF Expire, UserRollback, RollBack, TypeOK, counters
<1>23. CASE UserCommit(c)
  BY <1>23 DEF UserCommit, DropCheckpoint, TypeOK, counters, NmStates
<1>. QED
  BY <1>1, <1>2, <1>3, <1>4, <1>5, <1>6, <1>7, <1>8, <1>9, <1>10, <1>11,
     <1>12, <1>13, <1>14, <1>15, <1>16, <1>17, <1>18, <1>19, <1>20, <1>21,
     <1>22, <1>23 DEF ClientStep

(* The initial state has the types. *)
LEMMA TypeInit == Init => TypeOK
<1>. SUFFICES ASSUME Init PROVE TypeOK
  OBVIOUS
<1>1. InitialNm \in NmStates
  BY DEF InitialNm, NmStates, Goals, Phases
<1>2. InitialNm.goal \in Goals
  BY DEF InitialNm, Goals, Phases
<1>. QED
  BY <1>1, <1>2, CountsAssumption DEF Init, TypeOK, Before, Phases

(* So does every step. *)
LEMMA TypeStep == TypeOK /\ [Next]_vars => TypeOK'
<1>. SUFFICES ASSUME TypeOK, [Next]_vars PROVE TypeOK'
  OBVIOUS
<1>1. CASE Settle
  BY <1>1 DEF Settle, TypeOK, NmStates, counters
<1>2. CASE UNCHANGED vars
  BY <1>2 DEF vars, TypeOK
<1>. QED
  BY <1>1, <1>2, TypeClientStep DEF Next, AllEnded

(* Every variable of an apply keeps its type, whatever disturbs it; in     *)
(* particular with_retry() never goes past its last try.                   *)
THEOREM TypeCorrect == Spec => []TypeOK
<1>1. Init => TypeOK
  BY TypeInit
<1>2. TypeOK /\ [Next]_vars => TypeOK'
  BY TypeStep
<1>. QED
  BY <1>1, <1>2, PTL DEF Spec

-----------------------------------------------------------------------------
(* The configuration of NetworkManager.                                    *)

(* Neither does a checkpoint expire under a running apply, nor do others   *)
(* close it.  Calls to NetworkManager may fail, processes may be           *)
(* interrupted and may crash.                                              *)
Undisturbed == Disturbances \subseteq {"fault"}

(* A client that stays or gets under a checkpoint is of the set S, or was  *)
(* under it before and is not of the set Out; Ok is final.                 *)
Moves(S, Out) ==
  \A d \in Clients :
    /\ pc'[d] \in UnderCheckpoint =>
         d \in S \/ (pc[d] \in UnderCheckpoint /\ d \notin Out)
    /\ pc[d] = "Ok" => pc'[d] = "Ok"

(* The five things a step can do to the configuration and the checkpoints. *)
KeepsAll == /\ UNCHANGED <<cp, snap, committed>> /\ nm'.goal = nm.goal
            /\ Moves({}, {})
Opens(c) == /\ Live = {}
            /\ cp' = [cp EXCEPT ![c] = "live"]
            /\ snap' = [snap EXCEPT ![c] = nm]
            /\ UNCHANGED <<nm, committed>>
            /\ Moves({c}, {})
Writes(c) == /\ cp[c] = "live"
             /\ nm'.goal = Goal(c)
             /\ UNCHANGED <<cp, snap, committed>>
             /\ Moves({}, {})
Commits(c) == /\ cp[c] = "live"
              /\ DropCheckpoint(c)
              /\ Moves({}, {c})
              /\ pc'[c] = "Ok"
Aborts(c) == cp[c] = "live" /\ RollBack(c) /\ Moves({}, {c})

(* The inductive invariant: who is under a checkpoint holds the only one;  *)
(* it goes back to what was committed; without one the configuration is    *)
(* what was committed; and the configuration belongs to whoever holds the  *)
(* checkpoint or has succeeded.                                            *)
TxInv ==
  /\ \A c, d \in Clients : cp[c] = "live" /\ cp[d] = "live" => c = d
  /\ \A c \in Clients : pc[c] \in UnderCheckpoint => cp[c] = "live"
  /\ \A c \in Clients : cp[c] = "live" => snap[c].goal = committed
  /\ Live = {} => nm.goal = committed
  /\ committed[1] \in Clients => pc[committed[1]] = "Ok"
  /\ nm.goal[1] \in Clients =>
       pc[nm.goal[1]] = "Ok" \/ cp[nm.goal[1]] = "live"

(* A step of one client that has not ended moves that client only. *)
LEMMA OneMoves ==
  ASSUME TypeOK, NEW c \in Clients, NEW p,
         pc' = [pc EXCEPT ![c] = p], pc[c] # "Ok"
  PROVE  /\ Moves({c}, {})
         /\ pc[c] \in UnderCheckpoint => Moves({}, {})
         /\ p \notin UnderCheckpoint => Moves({}, {c})
         /\ p \notin UnderCheckpoint => Moves({}, {})
<1>1. \A d \in Clients : pc'[d] = IF d = c THEN p ELSE pc[d]
  BY DEF TypeOK
<1>. QED
  BY <1>1 DEF Moves

(* A step that leaves the processes alone. *)
LEMMA NoneMoves ==
  ASSUME TypeOK, UNCHANGED pc
  PROVE  /\ Moves({}, {})
         /\ \A c \in Clients : pc[c] \notin UnderCheckpoint => Moves({}, {c})
BY DEF Moves

(* A client under a checkpoint that touches no configuration. *)
LEMMA UnderKeepsAll ==
  ASSUME TypeOK, NEW c \in Clients, NEW p, pc[c] \in UnderCheckpoint,
         pc' = [pc EXCEPT ![c] = p], UNCHANGED <<cp, snap, nm, committed>>
  PROVE  KeepsAll
<1>1. pc[c] # "Ok"
  BY DEF UnderCheckpoint
<1>. QED
  BY Zenon, <1>1, OneMoves DEF KeepsAll

(* A client under its checkpoint that writes to NetworkManager, or to      *)
(* nothing.                                                                *)
LEMMA UnderWrites ==
  ASSUME TypeOK, TxInv, NEW c \in Clients, NEW p, pc[c] \in UnderCheckpoint,
         pc' = [pc EXCEPT ![c] = p], UNCHANGED <<cp, snap, committed>>,
         TouchNm(c) \/ WriteNm(c) \/ UNCHANGED nm
  PROVE  KeepsAll \/ Writes(c)
<1>1. pc[c] # "Ok"
  BY DEF UnderCheckpoint
<1>2. cp[c] = "live"
  BY DEF TxInv
<1>3. nm'.goal = nm.goal \/ nm'.goal = Goal(c)
  BY DEF TouchNm, WriteNm
<1>. QED
  BY Zenon, <1>1, <1>2, <1>3, OneMoves DEF KeepsAll, Writes

(* Every step does one of the five things. *)
LEMMA ClientKinds ==
  ASSUME Undisturbed, TypeOK, TxInv, NEW c \in Clients,
         \/ ClientStep(c) \/ Interrupt(c) \/ Crash(c)
         \/ Expire(c) \/ UserCommit(c) \/ UserRollback(c)
  PROVE  KeepsAll \/ Opens(c) \/ Writes(c) \/ Commits(c) \/ Aborts(c)
<1>. USE BackendErrorsCount
<1>0. {"create", "createSleep", "retrieveSleep", "Ok", "Err", "crashed",
       "interrupted"} \cap UnderCheckpoint = {}
  BY DEF UnderCheckpoint
<1>1. CASE Retrieve(c) \/ RetrieveAgain(c)
  <2>1. \E p \in {"create", "Err", "retrieveSleep"} : pc' = [pc EXCEPT ![c] = p]
    BY <1>1 DEF Retrieve, RetrieveAgain
  <2>2. pc[c] # "Ok" /\ UNCHANGED <<cp, snap, nm, committed>>
    BY <1>1 DEF Retrieve, RetrieveAgain
  <2>3. Moves({}, {})
    BY Zenon, <1>0, <2>1, <2>2, OneMoves
  <2>. QED
    BY <2>2, <2>3 DEF KeepsAll
<1>2. CASE CreateCheckpoint(c) \/ CreateCheckpointAgain(c)
  <2>1. pc[c] # "Ok" /\ UNCHANGED <<nm, committed>>
    BY <1>2 DEF CreateCheckpoint, CreateCheckpointAgain
  <2>2. CASE CheckpointCreated(c)
    <3>1. \E p \in UnderCheckpoint : pc' = [pc EXCEPT ![c] = p]
      BY <2>2 DEF CheckpointCreated, UnderCheckpoint
    <3>2. Moves({c}, {})
      BY Zenon, <2>1, <3>1, OneMoves
    <3>. QED
      BY <2>1, <2>2, <3>2 DEF CheckpointCreated, Opens
  <2>3. CASE /\ \E p \in {"createSleep", "Err"} : pc' = [pc EXCEPT ![c] = p]
             /\ UNCHANGED <<cp, snap>>
    <3>1. Moves({}, {})
      BY Zenon, <1>0, <2>1, <2>3, OneMoves
    <3>. QED
      BY <2>1, <2>3, <3>1 DEF KeepsAll
  <2>. QED
    BY <1>2, <2>2, <2>3 DEF CreateCheckpoint, CreateCheckpointAgain
<1>3. CASE CheckCapability(c) \/ VerifyAgain(c) \/ ApplyAgain(c)
           \/ RefreshCurrent(c)
  <2>1. /\ \E p : pc' = [pc EXCEPT ![c] = p]
        /\ pc[c] \in UnderCheckpoint /\ UNCHANGED <<cp, snap, nm, committed>>
    BY <1>3 DEF CheckCapability, VerifyAgain, ApplyAgain, RefreshCurrent,
                UnderCheckpoint
  <2>. QED
    BY Zenon, <2>1, UnderKeepsAll
<1>4. CASE ExtendTimeout(c) \/ ActivateAgain(c)
  <2>1. \E p : pc' = [pc EXCEPT ![c] = p]
    BY <1>4, OuterFailsStep DEF ExtendTimeout, ActivateAgain
  <2>2. pc[c] \in UnderCheckpoint /\ UNCHANGED <<cp, snap, nm, committed>>
    BY <1>4 DEF ExtendTimeout, ActivateAgain, UnderCheckpoint
  <2>. QED
    BY Zenon, <2>1, <2>2, UnderKeepsAll
<1>5. CASE SaveProfiles(c) \/ FinishNmApply(c)
  <2>1. \E p : pc' = [pc EXCEPT ![c] = p]
    BY <1>5, OuterFailsStep DEF SaveProfiles, FinishNmApply
  <2>2. /\ pc[c] \in UnderCheckpoint /\ UNCHANGED <<cp, snap, committed>>
        /\ TouchNm(c) \/ UNCHANGED nm
    BY <1>5 DEF SaveProfiles, FinishNmApply, UnderCheckpoint
  <2>. QED
    BY Zenon, <2>1, <2>2, UnderWrites
<1>6. CASE ActivateProfiles(c)
  <2>1. ~CanIgnore("InvalidArgument")
    BY DEF CanIgnore
  <2>2. \E p : pc' = [pc EXCEPT ![c] = p]
    BY <1>6, <2>1, OuterFailsStep DEF ActivateProfiles
  <2>3. /\ pc[c] \in UnderCheckpoint /\ UNCHANGED <<cp, snap, committed>>
        /\ WriteNm(c)
    BY <1>6 DEF ActivateProfiles, UnderCheckpoint
  <2>. QED
    BY Zenon, <2>2, <2>3, UnderWrites
<1>7. CASE OvsdbApply(c) \/ SetRunningHostname(c)
  <2>1. ~CanIgnore("InvalidArgument")
    BY DEF CanIgnore
  <2>2. \E p : pc' = [pc EXCEPT ![c] = p]
    BY <1>7, <2>1, OuterFailsStep
       DEF OvsdbApply, SetRunningHostname, HostnameDone
  <2>3. pc[c] \in UnderCheckpoint /\ UNCHANGED <<cp, snap, nm, committed>>
    BY <1>7 DEF OvsdbApply, SetRunningHostname, UnderCheckpoint
  <2>. QED
    BY Zenon, <2>2, <2>3, UnderKeepsAll
<1>8. CASE VerifyExtendTimeout(c) \/ Verify(c)
  <2>1. \E p : pc' = [pc EXCEPT ![c] = p]
    BY <1>8, VerifyFailsStep DEF VerifyExtendTimeout, Verify
  <2>2. pc[c] \in UnderCheckpoint /\ UNCHANGED <<cp, snap, nm, committed>>
    BY <1>8 DEF VerifyExtendTimeout, Verify, UnderCheckpoint
  <2>. QED
    BY Zenon, <2>1, <2>2, UnderKeepsAll
<1>9. CASE DestroyCheckpoint(c)
  <2>1. pc[c] # "Ok" /\ pc[c] \in UnderCheckpoint
    BY <1>9 DEF DestroyCheckpoint, UnderCheckpoint
  <2>2. CASE /\ CallOk(c) /\ DropCheckpoint(c)
             /\ pc' = [pc EXCEPT ![c] = "Ok"]
    <3>1. pc'[c] = "Ok"
      BY <2>2 DEF TypeOK
    <3>2. Moves({}, {c})
      BY Zenon, <1>0, <2>1, <2>2, OneMoves
    <3>. QED
      BY <2>2, <3>1, <3>2 DEF Commits, CallOk
  <2>3. CASE /\ pc' = [pc EXCEPT ![c] = "Err"]
             /\ UNCHANGED <<cp, snap, nm, committed>>
    BY Zenon, <2>1, <2>3, UnderKeepsAll
  <2>. QED
    BY <1>9, <2>2, <2>3 DEF DestroyCheckpoint
<1>10. CASE RollbackCheckpoint(c)
  <2>1. /\ pc[c] # "Ok" /\ pc[c] \in UnderCheckpoint
        /\ pc' = [pc EXCEPT ![c] = "Err"]
    BY <1>10 DEF RollbackCheckpoint, UnderCheckpoint
  <2>2. CASE CallOk(c) /\ RollBack(c)
    <3>1. Moves({}, {c})
      BY Zenon, <1>0, <2>1, OneMoves
    <3>. QED
      BY <2>2, <3>1 DEF Aborts, CallOk
  <2>3. CASE UNCHANGED <<cp, snap, nm, committed>>
    BY Zenon, <2>1, <2>3, UnderKeepsAll
  <2>. QED
    BY <1>10, <2>2, <2>3 DEF RollbackCheckpoint
<1>11. CASE SleepPanics(c) \/ Crash(c)
  <2>1. /\ pc[c] # "Ok" /\ pc' = [pc EXCEPT ![c] = "crashed"]
        /\ UNCHANGED <<cp, snap, nm, committed>>
    BY <1>11 DEF SleepPanics, Crash, Ended
  <2>2. Moves({}, {})
    BY Zenon, <1>0, <2>1, OneMoves
  <2>. QED
    BY <2>1, <2>2 DEF KeepsAll
<1>12. CASE Interrupt(c)
  <2>1. pc[c] # "Ok" /\ pc' = [pc EXCEPT ![c] = "interrupted"]
    BY <1>12 DEF Interrupt, Awaiting, Sleeping
  <2>2. Moves({}, {}) /\ Moves({}, {c})
    BY ZenonT(30), <1>0, <2>1, OneMoves
  <2>3. "sigint" \notin Disturbances
    BY DEF Undisturbed
  <2>. QED
    BY <1>12, <2>2, <2>3 DEF Interrupt, KeepsAll, Aborts, Live
<1>13. CASE Expire(c) \/ UserRollback(c)
  <2>1. pc[c] \in Ended /\ UNCHANGED pc /\ cp[c] = "live" /\ RollBack(c)
    BY <1>13 DEF Expire, UserRollback, UserMayClose, Undisturbed, Ended
  <2>2. Moves({}, {c})
    BY <2>1, NoneMoves DEF Ended, UnderCheckpoint
  <2>. QED
    BY <2>1, <2>2 DEF Aborts
<1>14. CASE UserCommit(c)
  <2>1. pc[c] = "Ok" /\ UNCHANGED pc /\ cp[c] = "live" /\ DropCheckpoint(c)
    BY <1>14 DEF UserCommit, UserMayClose, Undisturbed
  <2>2. Moves({}, {c})
    BY <2>1, NoneMoves DEF UnderCheckpoint
  <2>. QED
    BY <2>1, <2>2 DEF Commits
<1>. QED
  BY <1>1, <1>2, <1>3, <1>4, <1>5, <1>6, <1>7, <1>8, <1>9, <1>10, <1>11,
     <1>12, <1>13, <1>14 DEF ClientStep

(* The same for every step of the system. *)
LEMMA StepKinds ==
  ASSUME Undisturbed, TypeOK, TxInv, [Next]_vars
  PROVE  \/ KeepsAll
         \/ \E c \in Clients : Opens(c) \/ Writes(c) \/ Commits(c) \/ Aborts(c)
<1>1. CASE Settle
  BY <1>1, NoneMoves DEF Settle, KeepsAll, TypeOK, NmStates
<1>2. CASE UNCHANGED vars
  BY <1>2, NoneMoves DEF vars, KeepsAll
<1>. QED
  BY <1>1, <1>2, ClientKinds DEF Next, AllEnded

(* Each of them keeps the invariant. *)
LEMMA TxInvStep ==
  ASSUME Undisturbed, TypeOK, TypeOK', TxInv, [Next]_vars
  PROVE  TxInv'
<1>1. CASE KeepsAll
  BY <1>1 DEF KeepsAll, TxInv, Moves, Live, TypeOK
<1>2. ASSUME NEW c \in Clients, Opens(c) PROVE TxInv'
  <2>1. \A d \in Clients : cp[d] # "live"
    BY <1>2 DEF Opens, Live
  <2>2. \A d \in Clients : cp'[d] = "live" <=> d = c
    BY <1>2, <2>1 DEF Opens, TypeOK
  <2>3. snap'[c].goal = committed /\ committed' = committed /\ nm' = nm
    BY <1>2 DEF Opens, TxInv, TypeOK
  <2>4. nm.goal = committed
    BY SMTT(30), <1>2 DEF Opens, TxInv
  <2>. QED
    BY <1>2, <2>1, <2>2, <2>3, <2>4 DEF Opens, Moves, TxInv, Live
<1>3. ASSUME NEW c \in Clients, Writes(c) PROVE TxInv'
  <2>1. nm'.goal[1] = c
    BY <1>3 DEF Writes, Goal
  <2>. QED
    BY <1>3, <2>1 DEF Writes, Moves, TxInv, Live
<1>4. ASSUME NEW c \in Clients, Commits(c) PROVE TxInv'
  <2>1. \A d \in Clients : cp'[d] # "live"
    BY <1>4 DEF Commits, DropCheckpoint, TxInv, TypeOK
  <2>2. committed' = nm.goal /\ nm' = nm /\ pc'[c] = "Ok"
    BY <1>4 DEF Commits, DropCheckpoint
  <2>3. nm.goal[1] \in Clients => pc'[nm.goal[1]] = "Ok"
    BY SMTT(30), <1>4, <2>2 DEF Commits, Moves, TxInv
  <2>4. \A d \in Clients : pc'[d] \notin UnderCheckpoint
    BY SMTT(30), <1>4 DEF Commits, Moves, TxInv
  <2>. QED
    BY <2>1, <2>2, <2>3, <2>4 DEF TxInv, Live
<1>5. ASSUME NEW c \in Clients, Aborts(c) PROVE TxInv'
  <2>1. \A d \in Clients : cp'[d] # "live"
    BY <1>5 DEF Aborts, RollBack, TxInv, TypeOK
  <2>2. nm'.goal = committed /\ committed' = committed
    BY <1>5 DEF Aborts, RollBack, TxInv
  <2>3. committed[1] \in Clients => pc'[committed[1]] = "Ok"
    BY <1>5 DEF Aborts, Moves, TxInv
  <2>4. \A d \in Clients : pc'[d] \notin UnderCheckpoint
    BY <1>5 DEF Aborts, Moves, TxInv
  <2>. QED
    BY <2>1, <2>2, <2>3, <2>4 DEF TxInv, Live
<1>. QED
  BY <1>1, <1>2, <1>3, <1>4, <1>5, StepKinds

(* The initial state has it. *)
LEMMA TxInvInit == Init => TxInv
BY ClientsAssumption DEF Init, TxInv, InitialNm, UnderCheckpoint, Live

(* The invariant holds in every undisturbed execution. *)
LEMMA TxInvariant == ASSUME Undisturbed PROVE Spec => [](TypeOK /\ TxInv)
<1>1. Init => TypeOK /\ TxInv
  BY TypeInit, TxInvInit
<1>2. TypeOK /\ TxInv /\ [Next]_vars => TypeOK' /\ TxInv'
  BY TypeStep, TxInvStep
<1>. QED
  BY <1>1, <1>2, PTL DEF Spec

(* Undisturbed, the configuration NetworkManager runs without a checkpoint *)
(* is the one last committed, however many processes apply, fail, are      *)
(* interrupted and crash.                                                  *)
THEOREM Atomicity == ASSUME Undisturbed PROVE Spec => []Atomic
<1>1. TypeOK /\ TxInv => Atomic
  BY DEF TxInv, Atomic
<1>. QED
  BY <1>1, TxInvariant, PTL

(* Undisturbed, nothing of an apply that failed stays with NetworkManager  *)
(* once its checkpoint is gone.                                            *)
THEOREM FailuresLeaveNothing ==
  ASSUME Undisturbed PROVE Spec => []FailedNotInPlace
<1>1. TypeOK /\ TxInv => FailedNotInPlace
  BY DEF TxInv, FailedNotInPlace, Failed, Live
<1>. QED
  BY <1>1, TxInvariant, PTL

(* Undisturbed, the applies implement transactions one at a time.          *)
THEOREM Refinement == ASSUME Undisturbed PROVE Spec => TransactionSafety
<1>. DEFINE tx == {snap[c].goal : c \in Live}
<1>1. Init => T!TxInit
  BY DEF Init, T!TxInit, Live
<1>2. ASSUME TypeOK, TypeOK', TxInv, [Next]_vars
      PROVE  [T!TxNext]_(T!tvars)
  <2>1. CASE KeepsAll
    <3>1. tx' = tx /\ nm'.goal = nm.goal
      BY <2>1 DEF KeepsAll, Live
    <3>. QED
      BY Zenon, <3>1 DEF T!tvars
  <2>2. ASSUME NEW c \in Clients, Opens(c) PROVE T!Begin
    <3>1. Live = {} /\ Live' = {c}
      BY <1>2, <2>2 DEF Opens, Live, TypeOK
    <3>2. snap'[c] = nm /\ nm' = nm
      BY <1>2, <2>2 DEF Opens, TypeOK
    <3>. QED
      BY <3>1, <3>2 DEF T!Begin
  <2>3. ASSUME NEW c \in Clients, Writes(c) PROVE T!Change
    <3>1. c \in Live /\ Live' = Live /\ snap' = snap
      BY <2>3 DEF Writes, Live
    <3>2. nm'.goal \in Goals
      BY <1>2 DEF TypeOK, NmStates
    <3>. QED
      BY <3>1, <3>2 DEF T!Change
  <2>4. ASSUME NEW c \in Clients, Commits(c) PROVE T!Commit
    <3>1. c \in Live /\ Live' = {} /\ nm' = nm
      BY <1>2, <2>4 DEF Commits, DropCheckpoint, Live, TxInv, TypeOK
    <3>. QED
      BY SMTT(30), <3>1 DEF T!Commit
  <2>5. ASSUME NEW c \in Clients, Aborts(c) PROVE T!Abort
    <3>1. c \in Live /\ Live' = {} /\ nm' = snap[c]
      BY <1>2, <2>5 DEF Aborts, RollBack, Live, TxInv, TypeOK
    <3>. QED
      BY SMTT(30), <3>1 DEF T!Abort
  <2>. QED
    BY <1>2, <2>1, <2>2, <2>3, <2>4, <2>5, StepKinds DEF T!TxNext
<1>. QED
  BY <1>1, <1>2, TxInvariant, PTL DEF Spec, TransactionSafety, T!TxSafety

-----------------------------------------------------------------------------
(* Losing a checkpoint.                                                    *)

(* A step of client c, or about its checkpoint, in terms of its outcome:   *)
(* only a client that need not commit or just committed ends in Ok, and a  *)
(* destroyed checkpoint stays so.                                          *)
OkStep(c) ==
  /\ UNCHANGED opts
  /\ \A d \in Clients \ {c} : pc'[d] = pc[d]
  /\ \A d \in Clients : cp[d] = "destroyed" /\ pc[d] \in Ended =>
                        cp'[d] = "destroyed"
  /\ \/ pc'[c] # "Ok"
     \/ pc'[c] = pc[c] /\ pc[c] = "Ok"
     \/ opts[c].noCommit
     \/ cp'[c] = "destroyed"

(* A client under a checkpoint that does not close it. *)
LEMMA OkStepUnder ==
  ASSUME TypeOK, NEW c \in Clients, NEW p, UNCHANGED <<opts, cp>>,
         pc' = [pc EXCEPT ![c] = p],
         p # "Ok" \/ opts[c].noCommit
  PROVE  OkStep(c)
BY DEF OkStep, TypeOK

(* Every step of a client, whatever disturbs it, is of that kind. *)
LEMMA ClientOkStep ==
  ASSUME TypeOK, NEW c \in Clients,
         \/ ClientStep(c) \/ Interrupt(c) \/ Crash(c)
         \/ Expire(c) \/ UserCommit(c) \/ UserRollback(c)
  PROVE  OkStep(c)
<1>. USE BackendErrorsCount
<1>1. ~CanIgnore("InvalidArgument")
  BY DEF CanIgnore
<1>2. CASE CreateCheckpoint(c) \/ CreateCheckpointAgain(c)
  <2>1. /\ \E p : p # "Ok" /\ pc' = [pc EXCEPT ![c] = p]
        /\ UNCHANGED opts /\ pc[c] \notin Ended
        /\ UNCHANGED cp \/ cp' = [cp EXCEPT ![c] = "live"]
    BY Zenon, <1>2 DEF CreateCheckpoint, CreateCheckpointAgain, CheckpointCreated,
                Ended
  <2>. QED
    BY <2>1 DEF OkStep, TypeOK
<1>3. CASE \/ Retrieve(c) \/ RetrieveAgain(c) \/ CheckCapability(c)
           \/ VerifyAgain(c) \/ ApplyAgain(c) \/ RefreshCurrent(c)
           \/ SleepPanics(c) \/ Crash(c)
  <2>1. /\ \E p : p # "Ok" /\ pc' = [pc EXCEPT ![c] = p]
        /\ UNCHANGED <<opts, cp>>
    BY ZenonT(30), <1>3 DEF Retrieve, RetrieveAgain, CheckCapability, VerifyAgain,
                ApplyAgain, RefreshCurrent, SleepPanics, Crash
  <2>. QED
    BY ZenonT(30), <2>1, OkStepUnder
<1>4. CASE \/ ExtendTimeout(c) \/ ActivateAgain(c) \/ SaveProfiles(c)
           \/ FinishNmApply(c) \/ ActivateProfiles(c) \/ OvsdbApply(c)
  <2>1. \E p : p # "Ok" /\ pc' = [pc EXCEPT ![c] = p]
    BY ZenonT(30), <1>1, <1>4, OuterFailsStep
       DEF ExtendTimeout, ActivateAgain, SaveProfiles, FinishNmApply,
           ActivateProfiles, OvsdbApply
  <2>2. UNCHANGED <<opts, cp>>
    BY ZenonT(30), <1>4 DEF ExtendTimeout, ActivateAgain, SaveProfiles, FinishNmApply,
                ActivateProfiles, OvsdbApply
  <2>. QED
    BY Zenon, <2>1, <2>2, OkStepUnder
<1>5. CASE SetRunningHostname(c)
  <2>1. \E p : pc' = [pc EXCEPT ![c] = p] /\ (p # "Ok" \/ opts[c].noCommit)
    <3>1. CASE HostnameDone(c)
      <4>1. \/ pc' = [pc EXCEPT ![c] = AfterPhase(c)]
            \/ pc' = [pc EXCEPT ![c] = "verifyExtend"]
        BY Zenon, <3>1 DEF HostnameDone
      <4>. QED
        BY <4>1, AfterPhasePlaces
    <3>2. CASE OuterFails(c, "InvalidArgument")
      BY <1>1, <3>2, OuterFailsStep
    <3>. QED
      BY ZenonT(30), <1>5, <3>1, <3>2 DEF SetRunningHostname
  <2>2. UNCHANGED <<opts, cp>>
    BY <1>5 DEF SetRunningHostname
  <2>. QED
    BY ZenonT(30), <2>1, <2>2, OkStepUnder
<1>6. CASE VerifyExtendTimeout(c) \/ Verify(c)
  <2>1. ASSUME NEW e, VerifyFails(c, e)
        PROVE  \E p : pc' = [pc EXCEPT ![c] = p] /\ (p # "Ok" \/ opts[c].noCommit)
    BY ZenonT(30), <2>1, VerifyFailsStep, AfterPhasePlaces
  <2>2. \E p : pc' = [pc EXCEPT ![c] = p] /\ (p # "Ok" \/ opts[c].noCommit)
    BY <1>6, <2>1, AfterPhasePlaces DEF VerifyExtendTimeout, Verify
  <2>3. UNCHANGED <<opts, cp>>
    BY <1>6 DEF VerifyExtendTimeout, Verify
  <2>. QED
    BY Zenon, <2>2, <2>3, OkStepUnder
<1>7. CASE DestroyCheckpoint(c)
  BY <1>7 DEF DestroyCheckpoint, DropCheckpoint, OkStep, TypeOK
<1>8. CASE RollbackCheckpoint(c)
  BY <1>8 DEF RollbackCheckpoint, RollBack, CallOk, OkStep, TypeOK
<1>9. CASE Interrupt(c)
  BY <1>9 DEF Interrupt, RollBack, Live, OkStep, TypeOK
<1>10. CASE Expire(c) \/ UserRollback(c)
  BY <1>10 DEF Expire, UserRollback, UserMayClose, RollBack, OkStep, TypeOK
<1>11. CASE UserCommit(c)
  BY <1>11 DEF UserCommit, UserMayClose, DropCheckpoint, OkStep, TypeOK
<1>. QED
  BY <1>2, <1>3, <1>4, <1>5, <1>6, <1>7, <1>8, <1>9, <1>10, <1>11
     DEF ClientStep

(* Whatever disturbs it, even its checkpoint's timeout, Ctrl-C elsewhere   *)
(* or a user's rollback, an apply that was to commit and returns Ok was    *)
(* committed.                                                              *)
THEOREM SuccessIsCommitted == Spec => []OkMeansCommitted
<1>1. Init => OkMeansCommitted
  BY DEF Init, OkMeansCommitted
<1>2. ASSUME TypeOK, OkMeansCommitted, [Next]_vars PROVE OkMeansCommitted'
  <2>1. CASE UNCHANGED <<pc, opts, cp>>
    BY <1>2, <2>1 DEF OkMeansCommitted
  <2>2. ASSUME NEW c \in Clients, OkStep(c) PROVE OkMeansCommitted'
    BY <1>2, <2>2 DEF OkStep, OkMeansCommitted, Ended
  <2>. QED
    BY <1>2, <2>1, <2>2, ClientOkStep DEF Next, Settle, AllEnded, vars
<1>. QED
  BY <1>1, <1>2, TypeCorrect, PTL DEF Spec

-----------------------------------------------------------------------------
(* Committing what was verified.                                           *)

(* No desired state has a number of VFs for which                          *)
(* get_proper_verify_retry_count() returns zero.                           *)
NoMiddleVfs == \A o \in Options : o.vfs \notin 17..63

(* Client c has verified the system, or used up the tries for its VFs. *)
Verified(c) ==
  /\ "hostname" \in opts[c].touches => side["hostname"] = c
  /\ \/ VerifyOutcomes(c) = {"ok"}
     \/ opts[c].vfs > 0 /\ inner[c] = VerifyRetryCount(c) - 1

(* Then there is at least one try of the verification. *)
LEMMA SomeTry ==
  ASSUME TypeOK, NoMiddleVfs, NEW c \in Clients
  PROVE  VerifyRetryCount(c) # 0
<1>1. opts[c].vfs \in Nat /\ opts[c].vfs \notin 17..63
  BY OptionsAssumption DEF TypeOK, OptionType, NoMiddleVfs
<1>2. \A v \in Nat, o \in BOOLEAN :
        v \notin 17..63 => ProperVerifyRetryCount(v, o) # 0
  BY CountsAssumption DEF ProperVerifyRetryCount
<1>. QED
  BY ZenonT(30), <1>1, <1>2, OptionsAssumption
     DEF VerifyRetryCount, TypeOK, OptionType, Phases

(* A verification that may succeed cannot do anything else. *)
LEMMA OkIsOnlyOutcome ==
  ASSUME NEW c \in Clients, "ok" \in VerifyOutcomes(c)
  PROVE  VerifyOutcomes(c) = {"ok"}
<1>1. "ok" \notin IfaceErrors(c)
  BY DEF IfaceErrors
<1>. QED
  BY <1>1 DEF VerifyOutcomes

(* One that succeeds, or fails for want of VFs, has seen the hostname, and *)
(* only a desired state with VFs misses any.                               *)
LEMMA OutcomeMeans ==
  ASSUME NEW c \in Clients, phase[c] = "main",
         NEW e \in {"ok", "SrIovVfNotFound"}, e \in VerifyOutcomes(c)
  PROVE  /\ "hostname" \in opts[c].touches => side["hostname"] = c
         /\ e = "SrIovVfNotFound" => opts[c].vfs > 0
<1>1. "SrIovVfNotFound" \in IfaceErrors(c) => opts[c].vfs > 0
  BY DEF IfaceErrors
<1>2. ~(Wants(c, "hostname") /\ side["hostname"] # c)
  BY DEF VerifyOutcomes
<1>3. e = "SrIovVfNotFound" => e \in IfaceErrors(c)
  BY <1>2 DEF VerifyOutcomes
<1>. QED
  BY <1>1, <1>2, <1>3 DEF Wants

(* It stays so while nobody writes; what comes up later does no harm. *)
LEMMA VerifiedStays ==
  ASSUME TypeOK, NEW c \in Clients, Verified(c), UNCHANGED <<opts, side>>,
         phase'[c] = phase[c], inner'[c] = inner[c], nm'.goal = nm.goal,
         nm.ready \subseteq nm'.ready
  PROVE  Verified(c)'
<1>1. VerifyOutcomes(c) = {"ok"} => VerifyOutcomes(c)' = {"ok"}
  <2>. SUFFICES ASSUME VerifyOutcomes(c) = {"ok"}
                PROVE  VerifyOutcomes(c)' = {"ok"}
    OBVIOUS
  <2>1. "ok" \notin IfaceErrors(c)
    BY DEF IfaceErrors
  <2>2. /\ ~(Wants(c, "hostname") /\ side["hostname"] # c)
        /\ IfaceErrors(c) = {}
        /\ phase[c] = "main" => "rest" \in nm.ready
        /\ Wants(c, "ovsdb") => side["ovsdb"] = c
    BY <2>1 DEF VerifyOutcomes
  <2>3. IfaceErrors(c)' = {}
    BY <2>2 DEF IfaceErrors, Wants, Goal
  <2>. QED
    BY <2>2, <2>3 DEF VerifyOutcomes, Wants
<1>2. VerifyRetryCount(c)' = VerifyRetryCount(c)
  BY DEF VerifyRetryCount, ProperVerifyRetryCount
<1>. QED
  BY <1>1, <1>2 DEF Verified

(* While c is about to commit, the other clients write nothing. *)
LEMMA OthersWait ==
  ASSUME Undisturbed, TypeOK, TxInv,
         NEW c \in Clients, NEW d \in Clients, d # c, pc[c] = "destroy",
         \/ ClientStep(d) \/ Interrupt(d) \/ Crash(d)
         \/ Expire(d) \/ UserCommit(d) \/ UserRollback(d)
  PROVE  UNCHANGED <<opts, side, phase, inner, nm>> /\ pc'[c] = pc[c]
<1>1. cp[c] = "live" /\ cp[d] # "live" /\ pc[d] \notin UnderCheckpoint
  BY DEF TxInv, UnderCheckpoint
<1>2. CASE Retrieve(d) \/ RetrieveAgain(d) \/ Crash(d) \/ SleepPanics(d)
  BY <1>2 DEF Retrieve, RetrieveAgain, Crash, SleepPanics, counters, TypeOK
<1>3. CASE CreateCheckpoint(d) \/ CreateCheckpointAgain(d)
  BY <1>1, <1>3 DEF CreateCheckpoint, CreateCheckpointAgain,
                    CheckpointCreated, Live, counters, TypeOK
<1>4. CASE Interrupt(d)
  BY SMTT(30), <1>1, <1>4 DEF Interrupt, Live, Undisturbed, counters, TypeOK
<1>5. CASE Expire(d) \/ UserCommit(d) \/ UserRollback(d)
  <2>1. cp[d] = "live"
    BY ZenonT(30), <1>5 DEF Expire, UserCommit, UserRollback, UserMayClose
  <2>. QED
    BY <1>1, <2>1
<1>6. CASE \/ CheckCapability(d) \/ ExtendTimeout(d) \/ SaveProfiles(d)
           \/ ActivateProfiles(d) \/ ActivateAgain(d) \/ FinishNmApply(d)
           \/ OvsdbApply(d) \/ SetRunningHostname(d)
           \/ VerifyExtendTimeout(d) \/ Verify(d) \/ VerifyAgain(d)
           \/ ApplyAgain(d) \/ RefreshCurrent(d)
           \/ DestroyCheckpoint(d) \/ RollbackCheckpoint(d)
  <2>1. pc[d] \in UnderCheckpoint
    BY Zenon, <1>6 DEF CheckCapability, ExtendTimeout, SaveProfiles,
          ActivateProfiles, ActivateAgain, FinishNmApply, OvsdbApply,
          SetRunningHostname, VerifyExtendTimeout, Verify, VerifyAgain,
          ApplyAgain, RefreshCurrent, DestroyCheckpoint, RollbackCheckpoint,
          UnderCheckpoint
  <2>. QED
    BY <1>1, <2>1
<1>. QED
  BY ZenonT(30), <1>2, <1>3, <1>4, <1>5, <1>6 DEF ClientStep

(* A client gets to the commit only from a verification, if it has one. *)
LEMMA CommitAfterVerify ==
  ASSUME Undisturbed, NoMiddleVfs, TypeOK, TxInv, NEW c \in Clients,
         \/ ClientStep(c) \/ Interrupt(c) \/ Crash(c)
         \/ Expire(c) \/ UserCommit(c) \/ UserRollback(c),
         pc'[c] = "destroy", ~opts[c].noVerify
  PROVE  /\ Verified(c)
         /\ UNCHANGED <<opts, side, phase, inner, nm>>
<1>. USE BackendErrorsCount
<1>1. ~CanIgnore("InvalidArgument")
  BY DEF CanIgnore
<1>2. CASE \/ Retrieve(c) \/ RetrieveAgain(c) \/ CheckCapability(c)
           \/ CreateCheckpoint(c) \/ CreateCheckpointAgain(c)
           \/ VerifyAgain(c) \/ ApplyAgain(c) \/ RefreshCurrent(c)
           \/ SleepPanics(c) \/ Crash(c) \/ Interrupt(c)
           \/ DestroyCheckpoint(c) \/ RollbackCheckpoint(c)
  <2>1. \E p : p # "destroy" /\ pc' = [pc EXCEPT ![c] = p]
    BY Zenon, <1>2 DEF Retrieve, RetrieveAgain, CheckCapability, CreateCheckpoint,
          CreateCheckpointAgain, CheckpointCreated, VerifyAgain, ApplyAgain,
          RefreshCurrent, SleepPanics, Crash, Interrupt, DestroyCheckpoint,
          RollbackCheckpoint
  <2>. QED
    BY <2>1 DEF TypeOK
<1>3. CASE \/ ExtendTimeout(c) \/ ActivateAgain(c) \/ SaveProfiles(c)
           \/ FinishNmApply(c) \/ ActivateProfiles(c) \/ OvsdbApply(c)
  <2>1. \E p : p # "destroy" /\ pc' = [pc EXCEPT ![c] = p]
    BY Zenon, <1>1, <1>3, OuterFailsStep
       DEF ExtendTimeout, ActivateAgain, SaveProfiles, FinishNmApply,
           ActivateProfiles, OvsdbApply
  <2>. QED
    BY <2>1 DEF TypeOK
<1>4. CASE SetRunningHostname(c)
  <2>1. CASE HostnameDone(c)
    <3>1. pc' = [pc EXCEPT ![c] = "verifyExtend"]
      BY ZenonT(30), <2>1, SomeTry DEF HostnameDone
    <3>. QED
      BY <3>1 DEF TypeOK
  <2>2. CASE OuterFails(c, "InvalidArgument")
    <3>1. \E p \in {"outerSleep", "rollback"} : pc' = [pc EXCEPT ![c] = p]
      BY <1>1, <2>2, OuterFailsStep
    <3>. QED
      BY <3>1 DEF TypeOK
  <2>. QED
    BY <1>4, <2>1, <2>2 DEF SetRunningHostname
<1>5. ASSUME NEW e, VerifyFails(c, e)
      PROVE  /\ CanIgnore(e) /\ phase[c] = "main" /\ UNCHANGED inner
             /\ inner[c] = VerifyRetryCount(c) - 1 \/ ~CanRetry(e)
  <2>1. ASSUME NEW p \in {"verifySleep", "outerSleep", "rollback"},
               pc' = [pc EXCEPT ![c] = p]
        PROVE  FALSE
    BY <2>1 DEF TypeOK
  <2>2. CanIgnore(e) /\ pc' = [pc EXCEPT ![c] = AfterPhase(c)]
    BY <1>5, <2>1, VerifyFailsStep
  <2>3. AfterPhase(c) = "destroy"
    BY <2>2 DEF TypeOK
  <2>4. RetryVerdict(inner[c], VerifyRetryCount(c), e) # "again"
    BY <1>5, <2>1 DEF VerifyFails
  <2>5. /\ UNCHANGED inner
        /\ inner[c] = VerifyRetryCount(c) - 1 \/ ~CanRetry(e)
    BY <1>5, <2>4 DEF VerifyFails, RetryVerdict
  <2>. QED
    BY <2>2, <2>3, <2>5, AfterPhasePlaces
<1>6. CASE VerifyExtendTimeout(c)
  <2>1. CASE pc' = [pc EXCEPT ![c] = "verifyRetrieve"]
    BY <2>1 DEF TypeOK
  <2>. QED
    BY <1>5, <1>6, <2>1 DEF VerifyExtendTimeout, CanIgnore
<1>7. CASE Verify(c)
  <2>1. CASE /\ "ok" \in VerifyOutcomes(c)
             /\ pc' = [pc EXCEPT ![c] = AfterPhase(c)] /\ UNCHANGED inner
    <3>1. AfterPhase(c) = "destroy"
      BY SMTT(30), <2>1 DEF TypeOK
    <3>2. phase[c] = "main"
      BY <3>1, AfterPhasePlaces
    <3>. QED
      BY <1>7, <2>1, <3>2, OutcomeMeans, OkIsOnlyOutcome DEF Verify, Verified
  <2>2. ASSUME NEW e \in VerifyOutcomes(c) \ {"ok"}, VerifyFails(c, e)
        PROVE  Verified(c) /\ UNCHANGED inner
    <3>1. /\ e = "SrIovVfNotFound" /\ phase[c] = "main" /\ UNCHANGED inner
          /\ inner[c] = VerifyRetryCount(c) - 1
      BY <1>5, <2>2 DEF CanIgnore, CanRetry
    <3>. QED
      BY <2>2, <3>1, OutcomeMeans DEF Verified
  <2>3. CASE \E e \in BackendErrors : VerifyFails(c, e)
    BY Zenon, <1>5, <2>3
  <2>4. UNCHANGED <<opts, side, phase, nm>>
    BY <1>7 DEF Verify
  <2>. QED
    BY ZenonT(30), <1>7, <2>1, <2>2, <2>3, <2>4 DEF Verify
<1>8. CASE Expire(c) \/ UserCommit(c) \/ UserRollback(c)
  BY <1>8 DEF Expire, UserCommit, UserRollback, UserMayClose, Undisturbed,
              Ended
<1>. QED
  BY Zenon, <1>2, <1>3, <1>4, <1>6, <1>7, <1>8 DEF ClientStep

(* Undisturbed and away from 17 to 63 VFs, an apply with verification      *)
(* destroys its checkpoint only while the system matches what it asks for, *)
(* or when the last try of the verification missed VFs it wants.           *)
THEOREM CommitsAreVerified ==
  ASSUME Undisturbed, NoMiddleVfs PROVE Spec => []CommitIsVerified
<1>1. Init => CommitIsVerified
  BY DEF Init, CommitIsVerified
<1>2. ASSUME TypeOK, TxInv, CommitIsVerified, [Next]_vars
      PROVE  CommitIsVerified'
  <2>. SUFFICES ASSUME NEW c \in Clients, pc'[c] = "destroy",
                       ~opts'[c].noVerify
                PROVE  Verified(c)'
    BY DEF CommitIsVerified, Verified
  <2>1. pc[c] = "destroy" /\ ~opts[c].noVerify => Verified(c)
    BY <1>2 DEF CommitIsVerified, Verified
  <2>2. CASE Settle \/ UNCHANGED vars
    <3>1. /\ UNCHANGED <<pc, opts, side, phase, inner>>
          /\ nm'.goal = nm.goal /\ nm.ready \subseteq nm'.ready
      BY <1>2, <2>2 DEF Settle, vars, counters, TypeOK, NmStates
    <3>. QED
      BY <1>2, <2>1, <3>1, VerifiedStays
  <2>3. ASSUME NEW d \in Clients,
               \/ ClientStep(d) \/ Interrupt(d) \/ Crash(d)
               \/ Expire(d) \/ UserCommit(d) \/ UserRollback(d)
        PROVE  Verified(c)'
    <3>1. opts' = opts
      BY SMTT(30), <1>2, <2>3, ClientOkStep DEF OkStep
    <3>2. CASE d = c
      BY <1>2, <2>3, <3>1, <3>2, CommitAfterVerify, VerifiedStays
    <3>3. CASE d # c
      <4>1. pc'[c] = pc[c]
        BY <1>2, <2>3, <3>3, ClientOkStep DEF OkStep
      <4>2. UNCHANGED <<opts, side, phase, inner, nm>> /\ Verified(c)
        BY <1>2, <2>1, <2>3, <3>1, <3>3, <4>1, OthersWait
      <4>. QED
        BY <1>2, <4>2, VerifiedStays
    <3>. QED
      BY <3>2, <3>3
  <2>. QED
    BY <1>2, <2>2, <2>3 DEF Next, AllEnded
<1>. QED
  BY <1>1, <1>2, TxInvariant, PTL DEF Spec

-----------------------------------------------------------------------------
(* What an error leaves behind.                                            *)

(* The inductive invariant: neither a client that has not asked for its    *)
(* checkpoint yet nor one that returned an error holds one.                *)
NothingHeld ==
  \A c \in Clients : pc[c] \in Before \cup {"Err"} => cp[c] # "live"

(* A step that gives the checkpoint away or goes on under it. *)
HoldsUnderway ==
  \A d \in Clients :
    pc'[d] \in Before \cup {"Err"} /\ cp'[d] = "live" =>
      pc[d] \in Before \cup {"Err"} /\ cp[d] = "live"

(* A client that moves under its checkpoint and leaves all of them alone. *)
LEMMA UnderwayMoves ==
  ASSUME TypeOK, NEW c \in Clients, NEW p,
         p \in UnderCheckpoint \cup {"Ok", "crashed", "interrupted"},
         pc' = [pc EXCEPT ![c] = p], UNCHANGED cp
  PROVE  HoldsUnderway
BY DEF HoldsUnderway, TypeOK, Before, UnderCheckpoint

(* A step that closes at most one checkpoint, and after which the client   *)
(* that moved has none or has not failed.                                  *)
LEMMA UnderwayEnds ==
  ASSUME TypeOK, NEW c \in Clients,
         \/ pc' = pc
         \/ /\ \E p : pc' = [pc EXCEPT ![c] = p]
            /\ cp'[c] # "live" \/ pc'[c] \notin Before \cup {"Err"},
         \/ cp' = cp
         \/ \E o \in Clients : \E q \in {"destroyed", "rolledback"} :
               cp' = [cp EXCEPT ![o] = q]
  PROVE  HoldsUnderway
<1> SUFFICES ASSUME NEW d \in Clients, pc'[d] \in Before \cup {"Err"}, cp'[d] = "live"
             PROVE  pc[d] \in Before \cup {"Err"} /\ cp[d] = "live"
  BY Zenon DEF HoldsUnderway
<1>1. cp[d] = "live"
  BY DEF TypeOK
<1>2. pc[d] = pc'[d]
  BY DEF TypeOK
<1> QED
  BY Zenon, <1>1, <1>2

(* Every step of a client is such a step, unless calls to NetworkManager   *)
(* fail while its checkpoint is there.                                     *)
LEMMA ClientsRelease ==
  ASSUME ~Faulty, TypeOK, NothingHeld, NEW c \in Clients,
         \/ ClientStep(c) \/ Interrupt(c) \/ Crash(c)
         \/ Expire(c) \/ UserCommit(c) \/ UserRollback(c)
  PROVE  HoldsUnderway
<1>. USE BackendErrorsCount
<1>1. ~CanIgnore("InvalidArgument")
  BY DEF CanIgnore
<1>2. CASE Retrieve(c) \/ RetrieveAgain(c)
  BY SMTT(30), <1>2
     DEF Retrieve, RetrieveAgain, HoldsUnderway, TypeOK, Before
<1>3. CASE CreateCheckpoint(c)
  BY SMTT(30), <1>3 DEF CreateCheckpoint, CheckpointCreated, HoldsUnderway,
                        TypeOK, Before
<1>4. CASE CreateCheckpointAgain(c)
  BY SMTT(30), <1>4 DEF CreateCheckpointAgain, CheckpointCreated,
                        HoldsUnderway, TypeOK, Before
<1>5. CASE \/ CheckCapability(c) \/ VerifyAgain(c) \/ ApplyAgain(c)
           \/ RefreshCurrent(c) \/ SleepPanics(c) \/ Crash(c)
  <2>1. /\ \E p \in UnderCheckpoint \cup {"crashed"} :
             pc' = [pc EXCEPT ![c] = p]
        /\ UNCHANGED cp
    BY SMTT(30), <1>5 DEF CheckCapability, VerifyAgain, ApplyAgain,
          RefreshCurrent, SleepPanics, Crash, UnderCheckpoint
  <2>. QED
    BY <2>1, UnderwayMoves
<1>6. CASE \/ ExtendTimeout(c) \/ ActivateAgain(c) \/ SaveProfiles(c)
           \/ FinishNmApply(c) \/ ActivateProfiles(c) \/ OvsdbApply(c)
  <2>1. /\ \E p \in UnderCheckpoint : pc' = [pc EXCEPT ![c] = p]
        /\ UNCHANGED cp
    BY ZenonT(30), <1>1, <1>6, OuterFailsStep
       DEF ExtendTimeout, ActivateAgain, SaveProfiles, FinishNmApply,
           ActivateProfiles, OvsdbApply, UnderCheckpoint
  <2>. QED
    BY <2>1, UnderwayMoves
<1>7. AfterPhase(c) \in UnderCheckpoint \cup {"Ok"}
  BY AfterPhasePlaces DEF UnderCheckpoint
<1>8. CASE SetRunningHostname(c)
  <2>1. CASE HostnameDone(c)
    <3>1. \E p \in UnderCheckpoint \cup {"Ok"} : pc' = [pc EXCEPT ![c] = p]
      BY <1>7, <2>1 DEF HostnameDone, UnderCheckpoint
    <3>. QED
      BY <1>8, <3>1, UnderwayMoves DEF SetRunningHostname
  <2>2. CASE OuterFails(c, "InvalidArgument")
    <3>1. \E p \in UnderCheckpoint : pc' = [pc EXCEPT ![c] = p]
      BY <1>1, <2>2, OuterFailsStep DEF UnderCheckpoint
    <3>. QED
      BY <1>8, <3>1, UnderwayMoves DEF SetRunningHostname
  <2>. QED
    BY <1>8, <2>1, <2>2 DEF SetRunningHostname
<1>9. CASE VerifyExtendTimeout(c) \/ Verify(c)
  <2>1. ASSUME NEW e, VerifyFails(c, e)
        PROVE  \E p \in UnderCheckpoint \cup {"Ok"} : pc' = [pc EXCEPT ![c] = p]
    BY <1>7, <2>1, VerifyFailsStep DEF UnderCheckpoint
  <2>2. "verifyRetrieve" \in UnderCheckpoint
    BY DEF UnderCheckpoint
  <2>3. /\ \E p \in UnderCheckpoint \cup {"Ok"} : pc' = [pc EXCEPT ![c] = p]
        /\ UNCHANGED cp
    BY ZenonT(30), <1>7, <1>9, <2>1, <2>2 DEF VerifyExtendTimeout, Verify
  <2>. QED
    BY <2>3, UnderwayMoves
<1>10. CASE DestroyCheckpoint(c) \/ RollbackCheckpoint(c)
  <2>1. /\ \E p : pc' = [pc EXCEPT ![c] = p]
        /\ \/ cp[c] # "live" /\ cp' = cp
           \/ \E q \in {"destroyed", "rolledback"} : cp' = [cp EXCEPT ![c] = q]
    BY Zenon, <1>10 DEF DestroyCheckpoint, RollbackCheckpoint, DropCheckpoint,
          RollBack, CallFails
  <2>2. cp'[c] # "live"
    BY <2>1 DEF TypeOK
  <2>. QED
    BY Zenon, <2>1, <2>2, UnderwayEnds
<1>11. CASE Interrupt(c)
  <2>1. /\ pc' = [pc EXCEPT ![c] = "interrupted"]
        /\ \/ cp' = cp
           \/ \E o \in Clients : cp' = [cp EXCEPT ![o] = "rolledback"]
    BY Zenon, <1>11 DEF Interrupt, RollBack, Live
  <2>2. pc'[c] = "interrupted"
    BY <2>1 DEF TypeOK
  <2>3. pc'[c] \notin Before \cup {"Err"}
    BY <2>2 DEF Before
  <2>. QED
    BY Zenon, <2>1, <2>3, UnderwayEnds
<1>12. CASE Expire(c) \/ UserCommit(c) \/ UserRollback(c)
  <2>1. /\ pc' = pc
        /\ \E q \in {"destroyed", "rolledback"} : cp' = [cp EXCEPT ![c] = q]
    BY Zenon, <1>12 DEF Expire, UserCommit, UserRollback, RollBack, DropCheckpoint
  <2>. QED
    BY Zenon, <2>1, UnderwayEnds
<1>. QED
  BY ZenonT(30), <1>2, <1>3, <1>4, <1>5, <1>6, <1>8, <1>9, <1>10, <1>11, <1>12
     DEF ClientStep

(* While the calls to NetworkManager do what they are asked to, an apply   *)
(* that returns an error has given its checkpoint back, even if it expired *)
(* under the apply or somebody else closed it.                             *)
THEOREM ErrorsReleaseCheckpoint ==
  ASSUME ~Faulty PROVE Spec => []ErrLeavesNoCheckpoint
<1>1. Init => NothingHeld
  BY DEF Init, NothingHeld
<1>2. ASSUME TypeOK, NothingHeld, [Next]_vars PROVE NothingHeld'
  <2>1. CASE Settle \/ UNCHANGED vars
    BY <1>2, <2>1 DEF Settle, vars, NothingHeld
  <2>2. CASE \E c \in Clients :
               \/ ClientStep(c) \/ Interrupt(c) \/ Crash(c)
               \/ Expire(c) \/ UserCommit(c) \/ UserRollback(c)
    <3>1. HoldsUnderway
      BY <1>2, <2>2, ClientsRelease
    <3>. QED
      BY <1>2, <3>1 DEF NothingHeld, HoldsUnderway, Before
  <2>. QED
    BY <1>2, <2>1, <2>2 DEF Next, AllEnded
<1>3. NothingHeld => ErrLeavesNoCheckpoint
  BY DEF NothingHeld, ErrLeavesNoCheckpoint, Live
<1>. QED
  BY <1>1, <1>2, <1>3, TypeCorrect, PTL DEF Spec
=============================================================================
