--------------------------- MODULE NetTransaction ---------------------------
(***************************************************************************)
(* What applying a desired state promises about the configuration that     *)
(* NetworkManager holds: it changes only inside a transaction, at most one *)
(* transaction is open at a time, and closing it either keeps the new      *)
(* configuration or puts back the one it started from.                     *)
(*                                                                         *)
(* NetApply implements this specification (NetApply!Transaction).          *)
(***************************************************************************)
CONSTANTS Configs,      \* the configurations NetworkManager can hold
          InitialConfig \* the one it holds at the start

VARIABLES conf,  \* the configuration NetworkManager holds
          tx     \* the configurations to go back to: {} or {conf at Begin}

tvars == <<conf, tx>>

TxInit == conf = InitialConfig /\ tx = {}

Begin == tx = {} /\ tx' = {conf} /\ UNCHANGED conf

Change == tx # {} /\ conf' \in Configs /\ UNCHANGED tx

Commit == tx # {} /\ tx' = {} /\ UNCHANGED conf

Abort == tx # {} /\ tx' = {} /\ conf' \in tx

TxNext == Begin \/ Change \/ Commit \/ Abort

(* Safety alone, and with the promise that a transaction is closed. *)
TxSafety == TxInit /\ [][TxNext]_tvars
TxSpec == TxSafety /\ WF_tvars(Commit \/ Abort)
=============================================================================
