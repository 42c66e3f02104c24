--------------------------- MODULE CheckpointTimer ---------------------------
(***************************************************************************)
(* The rollback timer of a checkpoint while an apply runs.                 *)
(*                                                                         *)
(* NetworkManager rolls a checkpoint back T seconds after it was created   *)
(* or last extended.  apply_with_nm_backend_and_under_checkpoint() extends *)
(* it before each try and each verification; inside nm_apply(), NmApi      *)
(* extends it before a call once half of T has gone by on its own clock,   *)
(* which starts when the extension has returned.  Everything else runs     *)
(* unextended.                                                             *)
(***************************************************************************)
EXTENDS Integers, TLAPS

CONSTANTS
  T,               \* the timeout, in seconds
  MaxLag,          \* longest from NetworkManager's clock to the client's
  MaxOp,           \* longest call of NmApi
  MaxTail,         \* longest for dispatch scripts, OVSDB and hostname
  MaxRetrieve,     \* longest retrieval of the current state
  VerifyInterval,  \* VERIFY_RETRY_INTERVAL_MILLISECONDS
  RetryInterval    \* RETRY_NM_INTERVAL_MILLISECONDS

Half == T \div 2

ASSUME TimesAssumption ==
  /\ T \in Nat
  /\ {MaxLag, MaxOp, MaxTail, MaxRetrieve, VerifyInterval, RetryInterval}
       \subseteq Nat
(* What makes the timeout long enough. *)
ASSUME LongEnough ==
  /\ MaxLag + Half + MaxOp + MaxTail + RetryInterval < T
  /\ MaxLag + Half + MaxOp + MaxTail + MaxRetrieve < T
  /\ MaxLag + 2 * MaxRetrieve < T
  /\ MaxLag + MaxRetrieve + VerifyInterval < T
  /\ MaxLag + MaxRetrieve + RetryInterval < T

VARIABLES
  pc,      \* where the apply is
  spent,   \* seconds since NetworkManager's timer was last set
  elapsed  \* the same by NmApi's cp_refresh_time

tvars == <<pc, spent, elapsed>>

Sleep(p, d) == pc' = p /\ spent' = spent + d /\ UNCHANGED elapsed

(* NmApi::checkpoint_create() *)
Init == pc = "created" /\ spent \in 0..MaxLag /\ elapsed = 0

(* The desired state is merged, or not, before the first try. *)
Prepare == pc = "created" /\ \E d \in 0..MaxOp : Sleep("extend", d)

(* nm_checkpoint_timeout_extend(), then nm_apply() sets its own clock. *)
ExtendTimeout ==
  /\ pc = "extend"
  /\ pc' = "calls"
  /\ \E lag \in 0..MaxLag : spent' = lag
  /\ elapsed' = 0

(* Mutant: the client waits for all of the timeout. *)
CallTooLate(d) ==
  /\ pc = "calls"
  /\ UNCHANGED pc
  /\ IF elapsed >= T
     THEN \E lag \in 0..MaxLag : spent' = lag + d /\ elapsed' = d
     ELSE spent' = spent + d /\ elapsed' = elapsed + d

(* A call of NmApi, or a second of the wait between two activations:       *)
(* extend_timeout_if_required(), then d seconds.                           *)
Call(d) ==
  /\ pc = "calls"
  /\ UNCHANGED pc
  /\ IF elapsed >= Half
     THEN \E lag \in 0..MaxLag : spent' = lag + d /\ elapsed' = d
     ELSE spent' = spent + d /\ elapsed' = elapsed + d

(* nm_apply() fails. *)
CallsFail == pc = "calls" /\ Sleep("extend", RetryInterval)

(* The end of nm_apply(), OVSDB and the hostname; then verification, the   *)
(* next pass or the end.                                                   *)
Tail ==
  /\ pc = "calls"
  /\ \E d \in 0..MaxTail, p \in {"verify", "refresh", "close"} : Sleep(p, d)

TailFails ==
  pc = "calls" /\ \E d \in 0..MaxTail : Sleep("extend", d + RetryInterval)

(* One try of the verification: extend and retrieve. *)
Verify ==
  /\ pc = "verify"
  /\ pc' = "compare"
  /\ \E lag \in 0..MaxLag, d \in 0..MaxRetrieve : spent' = lag + d
  /\ UNCHANGED elapsed

VerifyOk == pc = "compare" /\ \E p \in {"refresh", "close"} : Sleep(p, 0)
VerifyAgain == pc = "compare" /\ Sleep("verify", VerifyInterval)
ApplyAgain == pc = "compare" /\ Sleep("extend", RetryInterval)

(* Between the two passes of an SR-IOV apply. *)
Refresh == pc = "refresh" /\ \E d \in 0..MaxRetrieve : Sleep("extend", d)

Done == pc = "close" /\ UNCHANGED tvars

Next ==
  \/ Prepare \/ ExtendTimeout \/ (\E d \in 0..MaxOp : Call(d))
  \/ CallsFail \/ Tail \/ TailFails
  \/ Verify \/ VerifyOk \/ VerifyAgain \/ ApplyAgain \/ Refresh \/ Done

Spec == Init /\ [][Next]_tvars

(* While the apply runs its checkpoint does not expire: a timeout that     *)
(* covers what happens between two extensions is long enough for any       *)
(* number of calls, retries and verifications.                             *)
NeverExpires == spent < T

-----------------------------------------------------------------------------
(* How much of the timeout can be gone at each place.                      *)
TimerInv ==
  /\ pc \in {"created", "extend", "calls", "verify", "compare", "refresh",
            "close"}
  /\ spent \in Nat /\ elapsed \in Nat
  /\ pc = "created" => spent <= MaxLag
  /\ pc = "calls" => spent <= MaxLag + elapsed /\ elapsed <= Half + MaxOp
  /\ pc = "compare" => spent <= MaxLag + MaxRetrieve
  /\ pc = "refresh" => \/ spent <= MaxLag + Half + MaxOp + MaxTail
                       \/ spent <= MaxLag + MaxRetrieve
  /\ spent < T

(* A timeout that is long enough between two extensions is long enough for *)
(* the whole apply, whatever it is and however long each step takes within *)
(* its bound.                                                              *)
THEOREM TimeoutSuffices == Spec => []NeverExpires
<1>0. /\ T \in Nat /\ Half \in Nat /\ MaxLag \in Nat /\ MaxOp \in Nat
      /\ MaxTail \in Nat /\ MaxRetrieve \in Nat
      /\ VerifyInterval \in Nat /\ RetryInterval \in Nat
  BY TimesAssumption DEF Half
<1>1. Init => TimerInv
  BY <1>0, LongEnough DEF Init, TimerInv
<1>2. TimerInv /\ [Next]_tvars => TimerInv'
  <2>. SUFFICES ASSUME TimerInv, [Next]_tvars PROVE TimerInv'
    OBVIOUS
  <2>. USE <1>0, LongEnough DEF TimerInv, Sleep
  <2>1. CASE Prepare
    BY <2>1 DEF Prepare
  <2>2. CASE ExtendTimeout
    BY <2>2 DEF ExtendTimeout
  <2>3. ASSUME NEW d \in 0..MaxOp, Call(d) PROVE TimerInv'
    BY <2>3 DEF Call
  <2>4. CASE CallsFail
    BY <2>4 DEF CallsFail
  <2>5. CASE Tail
    BY <2>5 DEF Tail
  <2>6. CASE TailFails
    BY <2>6 DEF TailFails
  <2>7. CASE Verify
    BY <2>7 DEF Verify
  <2>8. CASE VerifyOk \/ VerifyAgain \/ ApplyAgain
    BY <2>8 DEF VerifyOk, VerifyAgain, ApplyAgain
  <2>9. CASE Refresh
    BY <2>9 DEF Refresh
  <2>10. CASE UNCHANGED tvars
    BY <2>10 DEF tvars
  <2>. QED
    BY <2>1, <2>2, <2>3, <2>4, <2>5, <2>6, <2>7, <2>8, <2>9, <2>10
       DEF Next, Done
<1>3. TimerInv => NeverExpires
  BY DEF TimerInv, NeverExpires
<1>. QED
  BY <1>1, <1>2, <1>3, PTL DEF Spec
=============================================================================
