----------------------------- MODULE MCP2PSession -----------------------------
(* Instances of P2PSession for TLC. *)
EXTENDS P2PSession

(* The commands about the video, and those about the list of recordings:   *)
(* they share nothing.                                                     *)
VideoOrList == {{"start", "stop"}, {"list", "play"}}
=============================================================================
