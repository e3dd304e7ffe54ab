---------------------------- MODULE MCCtrlServer ----------------------------
(* CtrlServer with a few clients. *)
EXTENDS CtrlServer, TLC

CONSTANTS web, set, rec

(* A recorder, a client that changes its settings, and one that asks. *)
AllKinds == (web :> "ask") @@ (set :> "rec") @@ (rec :> "keep")
=============================================================================
