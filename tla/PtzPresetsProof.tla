--------------------------- MODULE PtzPresetsProof ---------------------------
(***************************************************************************)
(* The presets of the PTZ board: proofs that memory and board agree, that  *)
(* names stay and that a restart keeps what was saved, for any number of   *)
(* presets, any of them special or marked at the start, any names and any  *)
(* number of lost datagrams and power cuts.                                *)
(*                                                                         *)
(* The properties speak of the moments between two keys, where nothing is  *)
(* under way, and of memory; they are not inductive.  IInv says of every   *)
(* step of a message which presets are in flight (changed in memory or on  *)
(* the board, not yet on both) and what the file holds of those that were  *)
(* not touched, which is what a power cut falls back on.                   *)
(***************************************************************************)
EXTENDS PtzPresets, TLAPS

(* The presets that memory and board do not agree about at the moment.     *)
FlightOf(s) ==
  {n \in Presets : \/ s.pc \in {"goto", "delete", "index"} /\ n \in Affected(s.cmd, s.n)
                   \/ s.pc = "name" /\ n = s.n
                   \/ s.pc = "default"}
InFlight == FlightOf(srv)

(* av_server: the command it sends is that of the key it handles. *)
SrvInv ==
  /\ srv.pc \in {"keys", "save", "name", "default"} => srv.cmd = "none"
  /\ srv.pc \in {"goto", "reset"} => srv.cmd = "GOTO_PRESET"
  /\ srv.pc = "delete" => srv.cmd = "CLE_PRESET"
  /\ srv.pc \in {"index", "number"} => srv.cmd = "SET_PRESET"
  /\ srv.pc \in {"goto", "delete", "index", "number", "name", "reset"} => srv.n \in Presets
  /\ srv.pc = "reset" => srv.n = Clear

(* What has happened so far in a message that is handled. *)
StepInv ==
  /\ InFlight \subseteq touched
  /\ srv.pc \in {"delete", "index"} => changed
  /\ srv.pc = "goto" /\ srv.n = Clear => changed
  /\ ~changed /\ srv.pc \notin {"name", "default"} => touched = {}
  /\ srv.pc = "name" => srv.n \in board \cup unsure
  /\ srv.pc = "default" => board = {} \/ unsure = Presets
  /\ srv.pc \in {"goto", "delete"} =>
       \A n \in InFlight : mem[n] = "unset" /\ want[n] = "unset"
  /\ srv.pc = "index" =>
       \A n \in InFlight : mem[n] = want[n] /\ mem[n] # "unset"

(* Memory, board and names. *)
Agree(n, table) ==
  /\ n \in board => table[n] # "unset"
  /\ table[n] # "unset" => n \in board \cup Marked \cup Special
  /\ want[n] # "unset" => table[n] = want[n]

MemInv == \A n \in Presets \ (unsure \cup InFlight) : Agree(n, mem)

(* What a start would make of the file. *)
DiskInv == \A n \in Presets \ (unsure \cup touched) : Agree(n, Mark(disk))

(* The file lags behind only with what a start marks. *)
SavedInv ==
  ~changed => \A n \in Presets : mem[n] = disk[n] \/ mem[n] = Mark(disk)[n]

IInv == TypeOK /\ SrvInv /\ StepInv /\ MemInv /\ DiskInv /\ SavedInv
------------------------------------------------------------------------------
(* What is in flight, step by step. *)
LEMMA FlightCases ==
  ASSUME NEW s
  PROVE  /\ s.pc \in {"keys", "save", "number", "reset"} => FlightOf(s) = {}
         /\ s.pc = "goto" /\ s.cmd = "GOTO_PRESET" =>
              FlightOf(s) = IF s.n = Clear THEN Presets ELSE {}
         /\ s.pc = "delete" /\ s.cmd = "CLE_PRESET" /\ s.n \in Presets => FlightOf(s) = {s.n}
         /\ s.pc = "index" /\ s.cmd = "SET_PRESET" /\ s.n \in Presets => FlightOf(s) = {s.n}
         /\ s.pc = "name" /\ s.n \in Presets => FlightOf(s) = {s.n}
         /\ s.pc = "default" => FlightOf(s) = Presets
  BY DEF FlightOf, Affected

LEMMA MarkType ==
  ASSUME NEW table \in [Presets -> Entries]
  PROVE  Mark(table) \in [Presets -> Entries]
  BY DEF Mark, Entries

(* A start makes no preset of one that agrees into one that does not. *)
LEMMA MarkAgrees ==
  ASSUME NEW table \in [Presets -> Entries], NEW n \in Presets, Agree(n, table)
  PROVE  Agree(n, Mark(table))
  BY DEF Agree, Mark

LEMMA BlankType == Blank \in [Presets -> Entries]
  BY DEF Blank, Entries

LEMMA InitInv == Init => IInv
<1> SUFFICES ASSUME Init PROVE IInv
  OBVIOUS
<1> USE PresetsAssumption DEF Init
<1>1. TypeOK
  <2>1. mem \in [Presets -> Entries] /\ disk \in [Presets -> Entries]
    BY BlankType, MarkType
  <2>2. want \in [Presets -> Names \cup {"unset"}]
    BY DEF Blank
  <2>3. lost \in 0 .. MaxLost /\ cuts \in 0 .. MaxCuts
    BY DEF PresetsAssumption
  <2> QED
    BY <2>1, <2>2, <2>3 DEF TypeOK, Rest
<1>2. SrvInv
  BY DEF SrvInv, Rest
<1>3. InFlight = {}
  BY FlightCases DEF InFlight, Rest
<1>4. StepInv
  BY <1>3 DEF StepInv, Rest
<1>5. \A n \in Presets : Agree(n, Mark(disk))
  BY DEF Agree, Mark, Blank
<1>6. MemInv /\ DiskInv /\ SavedInv
  BY <1>5 DEF MemInv, DiskInv, SavedInv
<1> QED
  BY <1>1, <1>2, <1>4, <1>6 DEF IInv

(* The board is told. *)
LEMMA SendCmdInv == IInv /\ SendCmd => IInv'
<1> SUFFICES ASSUME IInv, SendCmd PROVE IInv'
  OBVIOUS
<1> USE PresetsAssumption
<1> DEFINE aff == Affected(srv.cmd, srv.n)
<1>1. /\ srv.pc \in {"goto", "delete", "index", "number", "reset"}
      /\ srv.n \in Presets
      /\ srv.cmd \in {"SET_PRESET", "CLE_PRESET", "GOTO_PRESET"}
  BY DEF IInv, TypeOK, SrvInv, SendCmd
<1>2. aff \subseteq Presets /\ After(srv.cmd, srv.n) \subseteq Presets
  BY <1>1 DEF IInv, TypeOK, Affected, After
<1>3. TypeOK'
  <2>1. srv' \in [pc : {"keys", "goto", "delete", "index", "number", "name", "reset",
                        "default", "save"},
                  cmd : {"none", "SET_PRESET", "CLE_PRESET", "GOTO_PRESET"},
                  n : Presets \cup {0}]
    BY <1>1 DEF SendCmd, Onward
  <2>2. lost' \in 0 .. MaxLost
    BY DEF SendCmd, IInv, TypeOK
  <2> QED
    BY <2>1, <2>2, <1>2 DEF SendCmd, IInv, TypeOK
<1>4. SrvInv'
  BY <1>1 DEF SendCmd, SrvInv, Onward
<1>5. CASE srv.pc = "number"
  <2>1. /\ srv.cmd = "SET_PRESET" /\ aff = {srv.n} /\ InFlight = {}
        /\ srv'.pc = "name" /\ srv'.n = srv.n /\ InFlight' = {srv.n}
    BY <1>1, <1>5, FlightCases DEF IInv, SrvInv, SendCmd, Onward, Affected, InFlight
  <2>2. \A n \in Presets \ {srv.n} : n \in board' <=> n \in board
    BY <2>1 DEF SendCmd, After
  <2>3. \A n \in Presets \ {srv.n} : n \in unsure' <=> n \in unsure
    BY <2>1 DEF SendCmd
  <2>4. srv.n \in board' \cup unsure' /\ touched' = touched \cup {srv.n}
    BY <2>1 DEF SendCmd, After
  <2>5. StepInv'
    BY <2>1, <2>4 DEF StepInv
  <2>6. MemInv'
    BY <2>1, <2>2, <2>3 DEF SendCmd, IInv, MemInv, Agree
  <2>7. DiskInv'
    BY <2>1, <2>2, <2>3, <2>4 DEF SendCmd, IInv, DiskInv, Agree
  <2>8. SavedInv'
    BY DEF SendCmd, IInv, SavedInv
  <2> QED
    BY <1>3, <1>4, <2>5, <2>6, <2>7, <2>8 DEF IInv
<1>6. CASE srv.pc = "reset"
  <2>1. /\ srv.cmd = "GOTO_PRESET" /\ srv.n = Clear /\ aff = Presets
        /\ srv'.pc = "default" /\ InFlight' = Presets
    BY <1>1, <1>6, FlightCases DEF IInv, SrvInv, SendCmd, Onward, Affected, InFlight
  <2>2. touched' = Presets
    BY <2>1 DEF SendCmd, IInv, TypeOK
  <2>3. board' = {} \/ unsure' = Presets
    BY <2>1 DEF SendCmd, After, IInv, TypeOK
  <2>4. StepInv'
    BY <2>1, <2>2, <2>3 DEF StepInv
  <2>5. MemInv' /\ DiskInv'
    BY <2>1, <2>2 DEF MemInv, DiskInv
  <2>6. SavedInv'
    BY DEF SendCmd, IInv, SavedInv
  <2> QED
    BY <1>3, <1>4, <2>4, <2>5, <2>6 DEF IInv
<1>7. CASE srv.pc \in {"goto", "delete", "index"}
  <2>1. InFlight = aff
    BY <1>2, <1>7 DEF InFlight, FlightOf
  <2>2. srv'.pc \in {"keys", "save"} /\ InFlight' = {}
    BY <1>7, FlightCases DEF SendCmd, Onward, InFlight
  <2>3. aff \subseteq touched /\ touched' = touched
    BY <2>1 DEF IInv, StepInv, SendCmd
  <2>4. \A n \in Presets \ aff : (n \in board' <=> n \in board) /\ (n \in unsure' <=> n \in unsure)
    BY <1>1 DEF SendCmd, After, Affected
  <2>5. StepInv'
    BY <2>2, <2>3, <1>7 DEF StepInv, IInv, SendCmd
  <2>6. \A n \in aff \ unsure' : Agree(n, mem)'
    <3> SUFFICES ASSUME NEW n \in aff \ unsure' PROVE Agree(n, mem)'
      OBVIOUS
    <3>1. board' = After(srv.cmd, srv.n)
      BY DEF SendCmd
    <3>2. CASE srv.pc = "index"
      BY <3>1, <3>2, <2>1 DEF IInv, SrvInv, StepInv, SendCmd, After, Affected, Agree
    <3>3. CASE srv.pc \in {"goto", "delete"}
      <4>1. n \notin board'
        BY <3>1, <3>3, <1>1 DEF IInv, SrvInv, After, Affected
      <4> QED
        BY <4>1, <3>3, <2>1 DEF IInv, StepInv, SendCmd, Agree
    <3> QED
      BY <3>2, <3>3, <1>7
  <2>7. MemInv'
    <3> SUFFICES ASSUME NEW n \in Presets \ unsure' PROVE Agree(n, mem)'
      BY <2>2 DEF MemInv
    <3>1. CASE n \in aff
      BY <3>1, <2>6
    <3>2. CASE n \notin aff
      BY <3>2, <2>1, <2>4 DEF IInv, MemInv, Agree, SendCmd
    <3> QED
      BY <3>1, <3>2
  <2>8. DiskInv'
    BY <2>3, <2>4 DEF SendCmd, IInv, DiskInv, Agree
  <2>9. SavedInv'
    BY DEF SendCmd, IInv, SavedInv
  <2> QED
    BY <1>3, <1>4, <2>5, <2>7, <2>8, <2>9 DEF IInv
<1> QED
  BY <1>1, <1>5, <1>6, <1>7

(* A key that changes nothing yet, and the end of the keys: only the place *)
(* of av_server changes.                                                   *)
LEMMA StartsInv ==
  /\ IInv /\ srv.pc = "keys"
  /\ UNCHANGED <<mem, disk, changed, reboot, board, touched, unsure, want, bounds>>
  /\ \/ \E n \in Presets \ {Clear} : srv' = [pc |-> "goto", cmd |-> "GOTO_PRESET", n |-> n]
     \/ \E n \in Presets : srv' = [pc |-> "number", cmd |-> "SET_PRESET", n |-> n]
     \/ srv' = [pc |-> "reset", cmd |-> "GOTO_PRESET", n |-> Clear]
     \/ srv' = [pc |-> "save", cmd |-> "none", n |-> 0]
  => IInv'
<1> SUFFICES ASSUME IInv, srv.pc = "keys",
                    UNCHANGED <<mem, disk, changed, reboot, board, touched, unsure, want, bounds>>,
                    \/ \E n \in Presets \ {Clear} : srv' = [pc |-> "goto", cmd |-> "GOTO_PRESET", n |-> n]
                    \/ \E n \in Presets : srv' = [pc |-> "number", cmd |-> "SET_PRESET", n |-> n]
                    \/ srv' = [pc |-> "reset", cmd |-> "GOTO_PRESET", n |-> Clear]
                    \/ srv' = [pc |-> "save", cmd |-> "none", n |-> 0]
             PROVE  IInv'
  OBVIOUS
<1>1. TypeOK'
  BY PresetsAssumption DEF IInv, TypeOK, bounds
<1>2. SrvInv'
  BY PresetsAssumption DEF SrvInv
<1>3. InFlight = {} /\ InFlight' = {}
  BY FlightCases DEF InFlight
<1>4. StepInv'
  BY <1>3 DEF IInv, StepInv
<1>5. MemInv' /\ DiskInv' /\ SavedInv'
  BY <1>3 DEF IInv, MemInv, DiskInv, SavedInv, Agree
<1> QED
  BY <1>1, <1>2, <1>4, <1>5 DEF IInv

(* Presets are forgotten, by a delete or by the special preset that clears *)
(* the board: those are in flight, the others are as they were.            *)
LEMMA ForgetInv ==
  ASSUME NEW s \in SUBSET Presets, IInv, srv.pc = "keys", Forget(s), InFlight' = s,
         srv'.pc \in {"goto", "delete"}, SrvInv',
         srv' \in [pc : {"goto", "delete"}, cmd : {"CLE_PRESET", "GOTO_PRESET"}, n : Presets],
         UNCHANGED <<disk, reboot, board, unsure, bounds>>
  PROVE  IInv'
<1>1. mem' \in [Presets -> Entries] /\ want' \in [Presets -> Names \cup {"unset"}]
  BY DEF Forget, Cleared, IInv, TypeOK, Entries
<1>2. TypeOK'
  BY <1>1 DEF Forget, IInv, TypeOK, bounds
<1>3. \A n \in s : mem'[n] = "unset" /\ want'[n] = "unset"
  BY DEF Forget, Cleared
<1>4. \A n \in Presets \ s : mem'[n] = mem[n] /\ want'[n] = want[n]
  BY DEF Forget, Cleared
<1>5. InFlight = {}
  BY FlightCases DEF InFlight
<1>6. StepInv'
  BY <1>3 DEF Forget, StepInv
<1>7. MemInv'
  BY <1>4, <1>5 DEF IInv, MemInv, Agree
<1>8. DiskInv'
  BY <1>4 DEF Forget, IInv, DiskInv, Agree
<1>9. SavedInv'
  BY DEF Forget, SavedInv
<1> QED
  BY <1>2, <1>6, <1>7, <1>8, <1>9 DEF IInv

(* A preset is named: the special ones that are named with it had no name  *)
(* to keep.                                                                *)
LEMMA SetMemInv ==
  ASSUME NEW n \in Presets, NEW name \in Names, IInv, SetMem(n, name),
         InFlight \subseteq {n}, UNCHANGED <<disk, reboot, board, unsure, bounds>>
  PROVE  /\ mem' \in [Presets -> Entries] /\ want' \in [Presets -> Names \cup {"unset"}]
         /\ touched' \subseteq Presets
         /\ mem'[n] = name /\ want'[n] = name /\ name # "unset"
         /\ \A k \in Presets \ (unsure \cup {n}) : Agree(k, mem)'
         /\ DiskInv'
<1>1. name # "unset" /\ name \in Entries
  BY PresetsAssumption DEF Entries
<1>2. mem' = Named(n, name) /\ want' = [want EXCEPT ![n] = name] /\ touched' = touched \cup {n}
  BY DEF SetMem
<1>3. mem' \in [Presets -> Entries] /\ want' \in [Presets -> Names \cup {"unset"}]
  BY <1>1, <1>2 DEF Named, IInv, TypeOK
<1>4. touched' \subseteq Presets
  BY <1>2 DEF IInv, TypeOK
<1>5. mem'[n] = name /\ want'[n] = name
  BY <1>2 DEF Named, IInv, TypeOK
<1>6. \A k \in Presets \ {n} : want'[k] = want[k]
  BY <1>2 DEF IInv, TypeOK
<1>7. ASSUME NEW k \in Presets \ (unsure \cup {n})
      PROVE  Agree(k, mem)'
  <2>1. Agree(k, mem)
    BY DEF IInv, MemInv
  <2>2. \/ mem'[k] = mem[k]
        \/ mem'[k] = name /\ mem[k] = "unset" /\ k \in Special
    BY <1>2 DEF Named
  <2> QED
    BY <2>1, <2>2, <1>1, <1>6 DEF Agree
<1>8. DiskInv'
  BY <1>2, <1>6 DEF IInv, DiskInv, Agree
<1> QED
  BY <1>1, <1>3, <1>4, <1>5, <1>7, <1>8

(* A preset is visited. *)
LEMMA GotoInv ==
  ASSUME NEW n \in Presets, IInv, GotoPreset(n)
  PROVE  IInv'
<1>1. CASE n = Clear
  <2>1. Forget(Presets) /\ srv.pc = "keys" /\ srv' = [pc |-> "goto", cmd |-> "GOTO_PRESET", n |-> n]
    BY <1>1 DEF GotoPreset
  <2>2. InFlight' = Presets
    BY <2>1, <1>1, FlightCases DEF InFlight
  <2>3. SrvInv'
    BY <2>1 DEF SrvInv
  <2> QED
    BY <2>1, <2>2, <2>3, ForgetInv DEF GotoPreset
<1>2. CASE n # Clear
  BY <1>2, StartsInv DEF GotoPreset
<1> QED
  BY <1>1, <1>2

(* A preset is cleared. *)
LEMMA DeleteInv ==
  ASSUME NEW n \in Presets, IInv, DeletePreset(n)
  PROVE  IInv'
<1>1. Forget({n}) /\ srv.pc = "keys" /\ srv' = [pc |-> "delete", cmd |-> "CLE_PRESET", n |-> n]
  BY DEF DeletePreset
<1>2. InFlight' = {n}
  BY <1>1, FlightCases DEF InFlight
<1>3. SrvInv'
  BY <1>1 DEF SrvInv
<1> QED
  BY <1>1, <1>2, <1>3, ForgetInv DEF DeletePreset

(* A preset is set with an index: memory first. *)
LEMMA SetIndexInv ==
  ASSUME NEW n \in Presets, NEW name \in Names, IInv, SetIndex(n, name)
  PROVE  IInv'
<1>1. /\ srv.pc = "keys" /\ SetMem(n, name)
      /\ srv' = [pc |-> "index", cmd |-> "SET_PRESET", n |-> n]
      /\ UNCHANGED <<disk, reboot, board, unsure, bounds>>
  BY DEF SetIndex
<1>2. InFlight = {} /\ InFlight' = {n}
  BY <1>1, FlightCases DEF InFlight
<1>3. /\ mem' \in [Presets -> Entries] /\ want' \in [Presets -> Names \cup {"unset"}]
      /\ touched' \subseteq Presets
      /\ mem'[n] = name /\ want'[n] = name /\ name # "unset"
      /\ \A k \in Presets \ (unsure \cup {n}) : Agree(k, mem)'
      /\ DiskInv'
  BY <1>1, <1>2, SetMemInv
<1>4. TypeOK'
  BY <1>1, <1>3 DEF SetMem, IInv, TypeOK, bounds
<1>5. SrvInv'
  BY <1>1 DEF SrvInv
<1>6. StepInv'
  BY <1>1, <1>2, <1>3 DEF SetMem, StepInv
<1>7. MemInv'
  BY <1>1, <1>2, <1>3 DEF MemInv
<1>8. SavedInv'
  BY <1>1 DEF SetMem, SavedInv
<1> QED
  BY <1>3, <1>4, <1>5, <1>6, <1>7, <1>8 DEF IInv

(* The name of a preset the board was told of before. *)
LEMMA SetNameInv ==
  ASSUME NEW name \in Names, IInv, SetName(name)
  PROVE  IInv'
<1>1. /\ srv.pc = "name" /\ srv.n \in Presets /\ SetMem(srv.n, name)
      /\ srv' = [pc |-> "save", cmd |-> "none", n |-> 0]
      /\ UNCHANGED <<disk, reboot, board, unsure, bounds>>
  BY DEF SetName, IInv, SrvInv, Rest
<1>2. InFlight = {srv.n} /\ InFlight' = {}
  BY <1>1, FlightCases DEF InFlight
<1>3. /\ mem' \in [Presets -> Entries] /\ want' \in [Presets -> Names \cup {"unset"}]
      /\ touched' \subseteq Presets
      /\ mem'[srv.n] = name /\ want'[srv.n] = name /\ name # "unset"
      /\ \A k \in Presets \ (unsure \cup {srv.n}) : Agree(k, mem)'
      /\ DiskInv'
  BY <1>1, <1>2, SetMemInv
<1>4. TypeOK'
  BY <1>1, <1>3 DEF SetMem, IInv, TypeOK, bounds
<1>5. SrvInv'
  BY <1>1 DEF SrvInv
<1>6. StepInv'
  BY <1>1, <1>2 DEF SetMem, StepInv
<1>7. MemInv'
  <2>1. srv.n \in board' \cup unsure'
    BY <1>1 DEF IInv, StepInv
  <2>2. ASSUME NEW n \in Presets \ unsure', n = srv.n PROVE Agree(n, mem)'
    BY <2>1, <2>2, <1>3 DEF Agree
  <2>3. ASSUME NEW n \in Presets \ unsure', n # srv.n PROVE Agree(n, mem)'
    <3> DEFINE m == srv.n
    <3>1. \A k \in Presets \ (unsure \cup {m}) : Agree(k, mem)'
      BY <1>3
    <3> QED
      BY <3>1, <2>3, <1>1
  <2> QED
    BY <2>2, <2>3, <1>2 DEF MemInv
<1>8. SavedInv'
  BY <1>1 DEF SetMem, SavedInv
<1> QED
  BY <1>3, <1>4, <1>5, <1>6, <1>7, <1>8 DEF IInv

(* A reset, once the board was told: memory, file and names start again.   *)
LEMMA DoResetInv == IInv /\ DoReset => IInv'
<1> SUFFICES ASSUME IInv, DoReset PROVE IInv'
  OBVIOUS
<1>1. /\ srv.pc = "default" /\ mem' = Blank /\ disk' = Blank /\ want' = Blank /\ touched' = {}
      /\ reboot' = TRUE /\ srv' = [pc |-> "keys", cmd |-> "none", n |-> 0]
      /\ UNCHANGED <<changed, board, unsure, bounds>>
  BY DEF DoReset, Rest
<1>2. InFlight' = {}
  BY <1>1, FlightCases DEF InFlight
<1>3. TypeOK'
  <2>1. Blank \in [Presets -> Names \cup {"unset"}]
    BY DEF Blank
  <2> QED
    BY <2>1, <1>1, BlankType DEF IInv, TypeOK, bounds
<1>4. SrvInv' /\ StepInv'
  BY <1>1, <1>2 DEF SrvInv, StepInv
<1>5. \A n \in Presets : n \in board' => n \in unsure'
  BY <1>1 DEF IInv, StepInv, TypeOK
<1>6. MemInv' /\ DiskInv'
  BY <1>1, <1>5 DEF MemInv, DiskInv, Agree, Mark, Blank
<1>7. SavedInv'
  BY <1>1 DEF SavedInv
<1> QED
  BY <1>3, <1>4, <1>6, <1>7 DEF IInv

(* The end of a message: its file, and after a reset a start. *)
LEMMA SaveInv == IInv /\ Save => IInv'
<1> SUFFICES ASSUME IInv, Save PROVE IInv'
  OBVIOUS
<1>1. /\ srv.pc = "save" /\ srv' = [pc |-> "keys", cmd |-> "none", n |-> 0]
      /\ disk' = IF changed THEN mem ELSE disk
      /\ mem' = IF reboot THEN Mark(disk') ELSE mem
      /\ changed' = FALSE /\ reboot' = FALSE /\ touched' = {}
      /\ UNCHANGED <<board, unsure, want, bounds>>
  BY DEF Save, Rest
<1>2. InFlight = {} /\ InFlight' = {}
  BY <1>1, FlightCases DEF InFlight
<1>3. disk' \in [Presets -> Entries]
  BY <1>1 DEF IInv, TypeOK
<1>4. mem' \in [Presets -> Entries]
  BY <1>1, <1>3, MarkType DEF IInv, TypeOK
<1>5. TypeOK'
  BY <1>1, <1>3, <1>4 DEF IInv, TypeOK, bounds
<1>6. SrvInv' /\ StepInv'
  BY <1>1, <1>2 DEF SrvInv, StepInv
<1>7. \A n \in Presets \ unsure : Agree(n, Mark(disk'))
  <2>1. CASE changed
    <3>1. \A n \in Presets \ unsure : Agree(n, mem)
      BY <1>2 DEF IInv, MemInv
    <3> QED
      BY <3>1, <2>1, <1>1, MarkAgrees DEF IInv, TypeOK
  <2>2. CASE ~changed
    <3>1. touched = {}
      BY <2>2, <1>1 DEF IInv, StepInv
    <3> QED
      BY <3>1, <2>2, <1>1 DEF IInv, DiskInv
  <2> QED
    BY <2>1, <2>2
<1>8. DiskInv'
  BY <1>7, <1>1 DEF DiskInv, Agree
<1>9. MemInv'
  <2>1. CASE reboot
    <3>1. mem' = Mark(disk')
      BY <2>1, <1>1
    <3> QED
      BY <3>1, <1>7, <1>1 DEF MemInv, Agree
  <2>2. CASE ~reboot
    <3>1. mem' = mem
      BY <2>2, <1>1
    <3> QED
      BY <3>1, <1>1, <1>2 DEF IInv, MemInv, Agree
  <2> QED
    BY <2>1, <2>2
<1>10. SavedInv'
  BY <1>1 DEF IInv, SavedInv
<1> QED
  BY <1>5, <1>6, <1>8, <1>9, <1>10 DEF IInv

(* A power cut: what the message had touched may be half done. *)
LEMMA PowerCutInv == IInv /\ PowerCut => IInv'
<1> SUFFICES ASSUME IInv, PowerCut PROVE IInv'
  OBVIOUS
<1>1. /\ cuts < MaxCuts /\ cuts' = cuts + 1
      /\ mem' = Mark(disk) /\ changed' = FALSE /\ reboot' = FALSE
      /\ srv' = [pc |-> "keys", cmd |-> "none", n |-> 0]
      /\ unsure' = unsure \cup touched /\ touched' = {}
      /\ UNCHANGED <<disk, board, want, lost>>
  BY DEF PowerCut, Rest
<1>2. InFlight' = {}
  BY <1>1, FlightCases DEF InFlight
<1>3. cuts' \in 0 .. MaxCuts
  BY <1>1, PresetsAssumption DEF IInv, TypeOK
<1>4. TypeOK'
  BY <1>1, <1>3, MarkType DEF IInv, TypeOK
<1>5. SrvInv' /\ StepInv'
  BY <1>1, <1>2 DEF SrvInv, StepInv
<1>6. MemInv' /\ DiskInv'
  BY <1>1 DEF IInv, MemInv, DiskInv, Agree
<1>7. SavedInv'
  BY <1>1 DEF SavedInv
<1> QED
  BY <1>4, <1>5, <1>6, <1>7 DEF IInv

(* Every step of av_server and every power cut keeps the invariant.        *)
LEMMA NextInv == IInv /\ [Next]_vars => IInv'
<1> SUFFICES ASSUME IInv, [Next]_vars PROVE IInv'
  OBVIOUS
<1>1. ASSUME NEW n \in Presets, GotoPreset(n) PROVE IInv'
  BY <1>1, GotoInv
<1>2. ASSUME NEW n \in Presets, DeletePreset(n) PROVE IInv'
  BY <1>2, DeleteInv
<1>3. ASSUME NEW n \in Presets, SetNumber(n) PROVE IInv'
  BY <1>3, StartsInv DEF SetNumber
<1>4. ASSUME NEW n \in Presets, NEW name \in Names, SetIndex(n, name) PROVE IInv'
  BY <1>4, SetIndexInv
<1>5. ASSUME NEW name \in Names, SetName(name) PROVE IInv'
  BY <1>5, SetNameInv
<1>6. CASE Reset
  BY <1>6, StartsInv DEF Reset
<1>7. CASE EndMessage
  BY <1>7, StartsInv DEF EndMessage, Rest
<1>8. CASE UNCHANGED vars
  <2>1. InFlight' = InFlight
    BY <1>8 DEF vars, InFlight
  <2> QED
    BY <2>1, <1>8 DEF vars, bounds, IInv, TypeOK, SrvInv, StepInv, MemInv, DiskInv, SavedInv, Agree
<1> QED
  BY <1>1, <1>2, <1>3, <1>4, <1>5, <1>6, <1>7, <1>8,
     DoResetInv, SendCmdInv, SaveInv, PowerCutInv DEF Next
------------------------------------------------------------------------------
(* The theorems *)

(* The invariant holds in every state av_server can be in. *)
THEOREM Invariance == Spec => []IInv
  BY InitInv, NextInv, PTL DEF Spec

(* The variables have their types. *)
THEOREM TypeCorrect == Spec => []TypeOK
<1>1. IInv => TypeOK
  BY DEF IInv
<1> QED
  BY <1>1, Invariance, PTL

(* What a client is told of a preset between two keys of a message         *)
(* (g_stPtzpreset_file) is what the board has of it.                       *)
THEOREM BoardIsKnown == Spec => []BoardKnown
<1>1. IInv => BoardKnown
  BY FlightCases DEF IInv, MemInv, Agree, BoardKnown, InFlight
<1> QED
  BY <1>1, Invariance, PTL

(* The name a client gave a preset last (deal_ptz_preset) is its name.     *)
THEOREM NamesAreKept == Spec => []NamesKept
<1>1. IInv => NamesKept
  BY FlightCases DEF IInv, MemInv, Agree, NamesKept, InFlight
<1> QED
  BY <1>1, Invariance, PTL

(* A power cut between messages changes nothing but presets that           *)
(* init_system marks.                                                      *)
THEOREM RestartsKeep == Spec => RestartKeeps
<1>1. IInv /\ [Next]_vars =>
        [cuts' # cuts /\ srv = Rest /\ ~changed =>
           \A n \in Presets :
             mem'[n] # mem[n] => n \in Marked /\ mem[n] = "unset" /\ mem'[n] = "unnamed"]_vars
  <2> SUFFICES ASSUME IInv, PowerCut, ~changed, NEW n \in Presets, mem'[n] # mem[n]
               PROVE  n \in Marked /\ mem[n] = "unset" /\ mem'[n] = "unnamed"
    BY DEF Next, GotoPreset, DeletePreset, SetIndex, SetNumber, SetName, Reset, DoReset,
           SendCmd, EndMessage, Save, bounds, vars
  <2>1. mem' = Mark(disk)
    BY DEF PowerCut
  <2>2. mem[n] = disk[n] \/ mem[n] = Mark(disk)[n]
    BY DEF IInv, SavedInv
  <2> QED
    BY <2>1, <2>2 DEF Mark
<1> QED
  BY <1>1, Invariance, PTL DEF Spec, RestartKeeps
=============================================================================
