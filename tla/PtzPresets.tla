------------------------------ MODULE PtzPresets ------------------------------
(***************************************************************************)
(* The presets of the pan-tilt head (src/src/processMsg.c): a table in     *)
(* memory, its file, and the board that turns the head, which keeps the    *)
(* positions themselves.  A message may set, clear and visit presets; the  *)
(* board is told of each at once, in a datagram that may be lost without   *)
(* an error, and the file is written when the message has been handled.    *)
(* init_system marks the first presets as set at every start, and naming   *)
(* one names the special ones of the board too, so memory and board need   *)
(* not agree about those.                                                  *)
(*                                                                         *)
(* Abstracted: an entry is not set, set without a name, or has a name, of  *)
(* which only what precedes its digits is kept; the answers; movements and *)
(* the commands of the other keys.  A Set with index 0 takes the number    *)
(* from the digits of the name.  One without digits, or with a number      *)
(* behind the last preset, is written beside the table: it is not          *)
(* modelled, and neither is a Set with an index and no name, whose name is *)
(* what the stack holds.  External: the board; PTZ_PRESET_ALLNUM.          *)
(***************************************************************************)
EXTENDS Integers, FiniteSets

CONSTANTS
  PTZ_PRESET_ALLNUM,
  Marked,     \* marked at every start: 1 .. 55 in the code
  Special,    \* spe_preset_index
  Clear,      \* the special one that clears the board: 95 in the code
  Names,
  MaxLost,    \* bound: datagrams lost
  MaxCuts     \* bound: power cuts

Presets == 1 .. PTZ_PRESET_ALLNUM

ASSUME PresetsAssumption ==
  /\ PTZ_PRESET_ALLNUM \in Nat
  /\ Marked \subseteq Presets /\ Special \subseteq Presets /\ Clear \in Special
  /\ Names \cap {"unset", "unnamed"} = {}
  /\ MaxLost \in Nat /\ MaxCuts \in Nat

VARIABLES
  mem,      \* g_stPtzpreset_file
  disk,     \* its file
  changed,  \* e_PTZ_PRESET_FILE in file_changed_flag
  srv,      \* av_server: where it is in the message, the command it sends
  reboot,
  board,    \* the presets the board has a position for
  touched,  \* history: presets changed by the message that is handled
  unsure,   \* history: presets whose last change was lost or cut off
  want,     \* history: the name a client gave
  lost, cuts

bounds == <<lost, cuts>>
vars == <<mem, disk, changed, srv, reboot, board, touched, unsure, want, bounds>>

Entries == Names \cup {"unset", "unnamed"}
Blank   == [n \in Presets |-> "unset"]
Rest    == [pc |-> "keys", cmd |-> "none", n |-> 0]

(* Mutant: every entry is marked. *)
MarkAll(table) == [n \in Presets |-> IF table[n] = "unset" THEN "unnamed" ELSE table[n]]

(* init_system, after the files were read *)
Mark(table) ==
  [n \in Presets |-> IF n \in Marked /\ table[n] = "unset" THEN "unnamed" ELSE table[n]]

Init ==
  /\ disk = Blank /\ mem = Mark(Blank) /\ changed = FALSE
  /\ srv = Rest /\ reboot = FALSE
  /\ board = {} /\ touched = {} /\ unsure = {} /\ want = Blank
  /\ lost = 0 /\ cuts = 0

------------------------------------------------------------------------------
(* The board *)

Affected(cmd, n) == IF cmd \in {"SET_PRESET", "CLE_PRESET"} THEN {n}
                    ELSE IF n = Clear THEN Presets ELSE {}
After(cmd, n) == CASE cmd = "SET_PRESET"  -> board \cup {n}
                   [] cmd = "CLE_PRESET"  -> board \ {n}
                   [] cmd = "GOTO_PRESET" -> IF n = Clear THEN {} ELSE board

(* Where av_server goes on when the board has been told. *)
Onward(pc) == CASE pc = "goto" -> "keys" [] pc = "delete" -> "keys"
                [] pc = "index" -> "save" [] pc = "number" -> "name"
                [] pc = "reset" -> "default"

(* mctp_cmd_cb, sent_ptz_cmd: nobody looks at the result. *)
SendCmd ==
  /\ srv.cmd # "none"
  /\ srv' = [pc |-> Onward(srv.pc), cmd |-> "none", n |-> IF srv.pc = "number" THEN srv.n ELSE 0]
  /\ \/ /\ board' = After(srv.cmd, srv.n)
        /\ unsure' = unsure \ Affected(srv.cmd, srv.n)
        /\ UNCHANGED lost
     \/ /\ lost < MaxLost /\ lost' = lost + 1
        /\ unsure' = unsure \cup Affected(srv.cmd, srv.n)
        /\ UNCHANGED board
  /\ touched' = touched \cup Affected(srv.cmd, srv.n)
  /\ UNCHANGED <<mem, disk, changed, reboot, want, cuts>>

------------------------------------------------------------------------------
(* The keys of a message: processMsg *)

(* Mutant: the memory keeps what was cleared. *)
ClearedNot(s) == mem

Cleared(s) == [n \in Presets |-> IF n \in s THEN "unset" ELSE mem[n]]

Forget(s) ==
  /\ mem' = Cleared(s) /\ changed' = TRUE /\ touched' = touched \cup s
  /\ want' = [n \in Presets |-> IF n \in s THEN "unset" ELSE want[n]]

(* e_ptz_goto_preset: visiting the special preset Clear forgets them all.  *)
GotoPreset(n) ==
  /\ srv.pc = "keys" /\ mem[n] # "unset"
  /\ srv' = [pc |-> "goto", cmd |-> "GOTO_PRESET", n |-> n]
  /\ IF n = Clear THEN Forget(Presets) ELSE UNCHANGED <<mem, changed, touched, want>>
  /\ UNCHANGED <<disk, reboot, board, unsure, bounds>>

(* e_ptz_deletepreset *)
DeletePreset(n) ==
  /\ srv.pc = "keys" /\ mem[n] # "unset"
  /\ Forget({n})
  /\ srv' = [pc |-> "delete", cmd |-> "CLE_PRESET", n |-> n]
  /\ UNCHANGED <<disk, reboot, board, unsure, bounds>>

(* Mutant: the special presets are named again. *)
NamedAgain(n, name) ==
  [k \in Presets |-> IF k = n \/ k \in Special THEN name ELSE mem[k]]

(* A special preset that is not set gets a name like the one given.        *)
Named(n, name) ==
  [k \in Presets |-> IF k = n \/ (k \in Special /\ mem[k] = "unset") THEN name ELSE mem[k]]

SetMem(n, name) ==
  /\ mem' = Named(n, name) /\ changed' = TRUE /\ touched' = touched \cup {n}
  /\ want' = [want EXCEPT ![n] = name]

(* deal_ptz_preset, after the other keys: with an index, first the memory, *)
SetIndex(n, name) ==
  /\ srv.pc = "keys"
  /\ SetMem(n, name)
  /\ srv' = [pc |-> "index", cmd |-> "SET_PRESET", n |-> n]
  /\ UNCHANGED <<disk, reboot, board, unsure, bounds>>

(* and with the number in the name, first the board.                       *)
SetNumber(n) ==
  /\ srv.pc = "keys"
  /\ srv' = [pc |-> "number", cmd |-> "SET_PRESET", n |-> n]
  /\ UNCHANGED <<mem, disk, changed, reboot, board, touched, unsure, want, bounds>>

SetName(name) ==
  /\ srv.pc = "name"
  /\ SetMem(srv.n, name)
  /\ srv' = [Rest EXCEPT !.pc = "save"]
  /\ UNCHANGED <<disk, reboot, board, unsure, bounds>>

(* e_reset: the board is cleared, then do_reset copies and reads the       *)
(* default file; the program is started again after the message.           *)
Reset ==
  /\ srv.pc = "keys"
  /\ srv' = [pc |-> "reset", cmd |-> "GOTO_PRESET", n |-> Clear]
  /\ UNCHANGED <<mem, disk, changed, reboot, board, touched, unsure, want, bounds>>

DoReset ==
  /\ srv.pc = "default"
  /\ mem' = Blank /\ disk' = Blank /\ want' = Blank /\ touched' = {}
  /\ reboot' = TRUE /\ srv' = Rest
  /\ UNCHANGED <<changed, board, unsure, bounds>>

EndMessage ==
  /\ srv.pc = "keys" /\ (changed \/ reboot)
  /\ srv' = [Rest EXCEPT !.pc = "save"]
  /\ UNCHANGED <<mem, disk, changed, reboot, board, touched, unsure, want, bounds>>

(* The file is written; after a reset the program starts again.            *)
Save ==
  /\ srv.pc = "save" /\ srv' = Rest
  /\ disk' = IF changed THEN mem ELSE disk
  /\ mem' = IF reboot THEN Mark(disk') ELSE mem
  /\ changed' = FALSE /\ reboot' = FALSE /\ touched' = {}
  /\ UNCHANGED <<board, unsure, want, bounds>>

PowerCut ==
  /\ cuts < MaxCuts /\ cuts' = cuts + 1
  /\ mem' = Mark(disk) /\ changed' = FALSE /\ srv' = Rest /\ reboot' = FALSE
  /\ unsure' = unsure \cup touched /\ touched' = {}
  /\ UNCHANGED <<disk, board, want, lost>>

Next ==
  \/ \E n \in Presets : \/ GotoPreset(n) \/ DeletePreset(n) \/ SetNumber(n)
                        \/ \E name \in Names : SetIndex(n, name)
  \/ \E name \in Names : SetName(name)
  \/ Reset \/ DoReset \/ SendCmd \/ EndMessage \/ Save \/ PowerCut

Spec == Init /\ [][Next]_vars

------------------------------------------------------------------------------
(* Properties *)

TypeOK ==
  /\ mem \in [Presets -> Entries] /\ disk \in [Presets -> Entries]
  /\ want \in [Presets -> Names \cup {"unset"}]
  /\ changed \in BOOLEAN /\ reboot \in BOOLEAN
  /\ srv \in [pc : {"keys", "goto", "delete", "index", "number", "name", "reset",
                    "default", "save"},
              cmd : {"none", "SET_PRESET", "CLE_PRESET", "GOTO_PRESET"},
              n : Presets \cup {0}]
  /\ board \subseteq Presets /\ touched \subseteq Presets /\ unsure \subseteq Presets
  /\ lost \in 0 .. MaxLost /\ cuts \in 0 .. MaxCuts

(* What a client is told of the presets is what the board has.  Between    *)
(* two keys a preset of the board is set in memory, and one that is set in *)
(* memory is on the board or among those nobody need have set; except one  *)
(* whose last change was in a lost datagram or in a message that a power   *)
(* cut ended, until it is changed again.                                   *)
BoardKnown ==
  srv.pc = "keys" =>
    \A n \in Presets \ unsure :
      /\ n \in board => mem[n] # "unset"
      /\ mem[n] # "unset" => n \in board \cup Marked \cup Special

(* A preset has the name a client gave it last, through the naming of the  *)
(* special ones, restarts and what is done to other presets.               *)
NamesKept ==
  srv.pc = "keys" =>
    \A n \in Presets \ unsure : want[n] # "unset" => mem[n] = want[n]

(* A power cut between messages changes no preset, but those that were     *)
(* cleared and are among the first come back, without a name.              *)
RestartKeeps ==
  [][cuts' # cuts /\ srv = Rest /\ ~changed =>
       \A n \in Presets :
         mem'[n] # mem[n] => n \in Marked /\ mem[n] = "unset" /\ mem'[n] = "unnamed"]_vars
=============================================================================
