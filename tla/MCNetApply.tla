----------------------------- MODULE MCNetApply -----------------------------
(* Small instances of NetApply. *)
EXTENDS NetApply
CONSTANTS c1, c2 \* processes

Plain == [noVerify |-> FALSE, noCommit |-> FALSE, timer |-> TRUE,
          touches |-> {}, vfs |-> 0, pf |-> FALSE, ovs |-> FALSE]

(* The defaults, an apply left uncommitted and unverified, and an edit. *)
CommonOptions ==
  {Plain,
   [Plain EXCEPT !.noCommit = TRUE, !.noVerify = TRUE],
   [Plain EXCEPT !.timer = FALSE, !.touches = {"dispatch"}]}

(* Something outside the checkpoint of each kind. *)
SideOptions == {[Plain EXCEPT !.touches = Sides, !.ovs = TRUE]}

(* SR-IOV in one pass and in two, with few and with many VFs. *)
SriovOptions ==
  {[Plain EXCEPT !.vfs = 16],
   [Plain EXCEPT !.vfs = 64, !.pf = TRUE, !.touches = Sides]}

VerifiedOptions == SideOptions \cup SriovOptions

(* A number of VFs between the two limits of the retry count. *)
MiddleVfOptions == {[Plain EXCEPT !.vfs = 32]}

PlainOptions == {Plain}
=============================================================================
