----------------------------- MODULE MCBsEvent -----------------------------
(* Small instances of BsEvent for TLC. *)
EXTENDS BsEvent

(* The main stream of each channel, as the default configuration has it. *)
MainStreams == Channels \X {MAIN_BS_NUM}

(* One channel with a second stream, as rtspd.cfg may have it. *)
MainAndSub == MainStreams \cup {<<0, 1>>}
=============================================================================
