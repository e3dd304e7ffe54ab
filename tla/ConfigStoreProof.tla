--------------------------- MODULE ConfigStoreProof ---------------------------
(***************************************************************************)
(* What ConfigStore promises, for every set of keys, values and indices:   *)
(* the types, and that between messages the files, the processes the       *)
(* settings are passed to and if.cfg agree with the settings (Saved,       *)
(* TargetsFollow, AddressKept), and that a reset takes (ResetTakes).       *)
(*                                                                         *)
(* The properties speak of the time between messages only, and are not     *)
(* inductive.  IInv says what holds within one, and who will settle what   *)
(* is open: the flag of a file, the region to show, if_cfg, the file the   *)
(* reset has not yet read.  It leans on the tables of the keys: the        *)
(* recorder's settings and the address are in files of their own, which    *)
(* no reset touches (NotReset).                                            *)
(***************************************************************************)
EXTENDS ConfigStore, SequenceTheorems, TLAPS

(* The files of reset_table, and the types of the locals and of past. *)
Names  == {"ENC_0", "ENC_1", "OVERLAY", "CLOUD"}
Locals == [type : {"none", "get", "set"}, yl_set : BOOLEAN, chn : {-1, 0, 1},
           sub : Subs \cup {Min(Subs)}, region : Regions \cup {-1}, index : Areas \cup {-1},
           flags : SUBSET Range(FileOrder), touched : SUBSET Regions, if_cfg : BOOLEAN,
           reboot : BOOLEAN, left : Seq(Names), reset : BOOLEAN, kept : SUBSET Places,
           since : SUBSET Places]

Pasts == [unsaved : SUBSET Places, missed : SUBSET Places, behind : SUBSET Regions,
          untold : BOOLEAN, unwritten : BOOLEAN]

(* What TypeOK leaves out: which places encoder, overlay, recorder and     *)
(* interface have.                                                         *)
Shapes ==
  /\ TypeOK /\ loc \in Locals /\ past \in Pasts
  /\ enc = [p \in Only(EncLive) |-> enc[p]] /\ osd = [p \in Only(OsdKeys) |-> osd[p]]
  /\ told = [p \in Only(RecKeys) |-> told[p]]
  /\ ifcfg \in [Only(AddrKeys) -> Int] /\ hw \in [Only(AddrKeys) -> Int]
  /\ pc \in {"idle", "off"} => loc = Fresh

(* A difference between a file and its structure is wanted, or the file is *)
(* flagged, or it is the one a reset has just failed to read.              *)
SavedInv ==
  pc # "off" => \A p \in Places : disk[p] # mem[p] =>
    \/ p \in past.unsaved \/ p[1] \in loc.flags
    \/ pc = "reset" /\ loc.left # <<>> /\ p[1] = Head(loc.left)

EncoderInv ==
  pc \notin {"off", "reset"} /\ ~down /\ ~loc.reboot =>
    \A p \in Only(EncLive) : enc[p] # mem[p] => p \in past.missed

OverlayInv ==
  pc \notin {"off", "reset"} /\ ~down /\ ~loc.reboot =>
    \A p \in Only(OsdKeys) : osd[p] # mem[p] =>
      p[3] \in past.behind \/ (pc \in {"parse", "ifcfg", "tell", "osd"} /\ p[3] \in loc.touched)

RecorderInv ==
  pc # "off" /\ ~past.untold =>
    \A p \in Only(RecKeys) : told[p] # mem[p] =>
      pc \in {"parse", "reset", "ifcfg", "tell"} /\ "REC" \in loc.flags

AddressInv ==
  pc # "off" /\ ~past.unwritten =>
    \A p \in Only({"e_net_ip"}) : ifcfg[p] # mem[p] =>
      pc \in {"parse", "reset", "ifcfg"} /\ loc.if_cfg

(* What a reset has restored stays restored until something is set. *)
Restored(f) ==
  \A p \in InFile(f) :
    (mem[p] = Factory(p[2]) /\ disk[p] = Factory(p[2])) \/ p \in loc.kept
ToDo == Len(loc.left)

ResetInv ==
  /\ pc = "reset" =>
       /\ ToDo \in 0 .. 4 /\ \A i \in 1 .. ToDo : loc.left[i] = ResetTable[4 - ToDo + i]
       /\ \A i \in 1 .. 4 - ToDo : Restored(ResetTable[i])
  /\ pc \in {"parse", "ifcfg", "tell", "osd", "flush"} /\ loc.reset =>
       \A p \in Places : p[1] \in Range(ResetTable) /\ (mem[p] # Factory(p[2]) \/ disk[p] # Factory(p[2]))
         => p \in loc.since \cup loc.kept

IInv == /\ Shapes /\ SavedInv /\ EncoderInv /\ OverlayInv /\ RecorderInv /\ AddressInv
        /\ ResetInv

------------------------------------------------------------------------------
(* The tables of the keys *)

LEMMA RecFile == \A k \in RecKeys : FileOf(k) = "REC" /\ k \notin EncKeys \cup OsdKeys \cup AddrKeys
<1>1. \A k \in RecKeys : k \notin EncKeys \cup OsdKeys \cup AddrKeys
  BY DEF RecKeys, EncKeys, EncSource, EncStream, EncLive, EncSize, EncRate, EncRoi, OsdKeys, AddrKeys
<1>2. \A k \in RecKeys, f \in DOMAIN KeysOf : k \in KeysOf[f] <=> f = "REC"
  BY DEF RecKeys, KeysOf, ImgTone, ImgBalance, OsdKeys, NetKeys, AddrKeys, PortKeys, WfKeys,
         DdnsKeys, PtzComKeys, MdAlarm, MdSchedule, MdArea, SnapKeys, FtpKeys, SmtpKeys,
         MaskKeys, SysKeys, TimeKeys, CloudKeys, WfSearch
<1>3. "REC" \in DOMAIN KeysOf
  BY DEF KeysOf
<1> QED BY <1>1, <1>2, <1>3 DEF FileOf

LEMMA AddrFile == \A k \in AddrKeys : FileOf(k) = "NET" /\ k \notin EncKeys \cup OsdKeys
<1>1. \A k \in AddrKeys : k \notin EncKeys \cup OsdKeys
  BY DEF EncKeys, EncSource, EncStream, EncLive, EncSize, EncRate, EncRoi, OsdKeys, AddrKeys
<1>2. \A k \in AddrKeys, f \in DOMAIN KeysOf : k \in KeysOf[f] <=> f = "NET"
  BY DEF RecKeys, KeysOf, ImgTone, ImgBalance, OsdKeys, NetKeys, AddrKeys, PortKeys, WfKeys,
         DdnsKeys, PtzComKeys, MdAlarm, MdSchedule, MdArea, SnapKeys, FtpKeys, SmtpKeys,
         MaskKeys, SysKeys, TimeKeys, CloudKeys, WfSearch
<1>3. "NET" \in DOMAIN KeysOf
  BY DEF KeysOf
<1> QED BY <1>1, <1>2, <1>3 DEF FileOf

LEMMA OsdKey == \A k \in OsdKeys : k \notin EncKeys \cup Indexed
  BY DEF OsdKeys, EncKeys, EncSource, EncStream, EncLive, EncSize, EncRate, EncRoi, Indexed,
         WfSearch, MdArea, MaskKeys

LEMMA OsdFile == \A k \in OsdKeys : FileOf(k) = "OVERLAY" /\ k \notin EncKeys
<1>1. \A k \in OsdKeys, f \in DOMAIN KeysOf : k \in KeysOf[f] <=> f = "OVERLAY"
  BY DEF RecKeys, KeysOf, ImgTone, ImgBalance, OsdKeys, NetKeys, AddrKeys, PortKeys, WfKeys,
         DdnsKeys, PtzComKeys, MdAlarm, MdSchedule, MdArea, SnapKeys, FtpKeys, SmtpKeys,
         MaskKeys, SysKeys, TimeKeys, CloudKeys, WfSearch
<1>2. "OVERLAY" \in DOMAIN KeysOf
  BY DEF KeysOf
<1> QED BY <1>1, <1>2, OsdKey DEF FileOf

LEMMA FileNames ==
  /\ {"ENC_0", "ENC_1"} \subseteq Range(FileOrder)
  /\ DOMAIN KeysOf \ {"PROTOCOL", "WFSEARCH"} \subseteq Range(FileOrder)
<1>1. \A i \in 1 .. 21 : FileOrder[i] \in Range(FileOrder)
  BY DEF FileOrder, Range
<1> QED BY <1>1 DEF FileOrder, KeysOf

LEMMA SettingFile ==
  ASSUME NEW k \in Settings, k \notin EncKeys \cup {"e_sys_protocol"}
  PROVE  FileOf(k) \in Range(FileOrder)
<1>1. \E f \in DOMAIN KeysOf : k \in KeysOf[f]
  BY DEF Settings, Range
<1>2. FileOf(k) \in DOMAIN KeysOf /\ k \in KeysOf[FileOf(k)]
  BY <1>1 DEF FileOf
<1>3. k \notin KeysOf.WFSEARCH /\ k \notin KeysOf.PROTOCOL
  BY DEF KeysOf, Settings, ReadOnly
<1>4. FileOf(k) \notin {"PROTOCOL", "WFSEARCH"}
  BY <1>2, <1>3
<1> QED BY <1>2, <1>4, FileNames
(* A place is in the file of its key, at an index the key has. *)
LEMMA PlaceShape ==
  ASSUME TypeOK, NEW p \in Places
  PROVE  \E k \in Settings \cup ReadOnly :
           p[2] = k /\ p[1] \in FilesOf(k) /\ p[3] \in IndicesOf(k)
<1>1. p \in Stored(used)
  BY DEF TypeOK, Places
<1>2. PICK k \in Settings \cup ReadOnly : p \in FilesOf(k) \X {k} \X IndicesOf(k)
  BY <1>1 DEF Stored, PlacesOf
<1>3. p[2] = k /\ p[1] \in FilesOf(k) /\ p[3] \in IndicesOf(k)
  BY <1>2
<1> QED BY <1>3

LEMMA OsdRegions == TypeOK => \A p \in Only(OsdKeys) : p[3] \in Regions
<1>1. \A k \in OsdKeys : IndicesOf(k) = Regions
  BY OsdKey DEF IndicesOf
<1> QED BY <1>1, PlaceShape DEF Only

(* What the recorder has and the address are in no file a reset restores. *)
LEMMA NotReset ==
  TypeOK => \A p \in Only(RecKeys \cup AddrKeys) : p[1] \notin Range(ResetTable)
<1>1. \A k \in RecKeys \cup AddrKeys : FilesOf(k) \subseteq {"REC", "NET"}
  BY RecFile, AddrFile DEF FilesOf
<1>2. Range(ResetTable) = {"ENC_0", "ENC_1", "OVERLAY", "CLOUD"}
  BY DEF Range, ResetTable
<1> QED BY <1>1, <1>2, PlaceShape DEF Only

(* The places stay the same. *)
LEMMA SamePlaces ==
  ASSUME TypeOK, UNCHANGED used, mem' \in [Stored(used) -> Int]
  PROVE  /\ Places' = Places /\ \A K : Only(K)' = Only(K)
         /\ \A f : InFile(f)' = InFile(f)
<1>1. Places' = Places
  BY DEF TypeOK, Places
<1> QED BY <1>1 DEF Only, InFile

LEMMA FactoryInt == \A k : Factory(k) \in Int
  BY DEF Factory

LEMMA HomeOf ==
  \A k : Home(k)[1] = (IF k \in EncKeys THEN EncFile ELSE FileOf(k)) /\ Home(k)[2] = k
         /\ Home(k)[3] = IndexOf(k)
  BY DEF Home

(* A Set changes one place of the structures. *)
LEMMA StoreEffect ==
  ASSUME Shapes, NEW k, NEW v \in ValuesOf(k), Store(k, v), NEW p, p = Home(k)
  PROVE  /\ pc = "parse" /\ p \in Places /\ p[2] = k
         /\ mem' \in [Stored(used) -> Int]
         /\ \A q \in Places : q # p => mem'[q] = mem[q]
         /\ UNCHANGED <<used, disk, pc, down, osd, told, ifcfg, hw>>
         /\ Places' = Places
<1>1. p \in Places /\ k \in Settings /\ p[2] = k /\ pc = "parse"
  BY HomeOf DEF Store, Usable
<1>2. v \in Int
  BY <1>1, ValuesAssumption
<1>3. Norm(k, v, loc.chn) \in Int
  BY <1>2 DEF Norm, Clamp
<1> HIDE DEF Norm
<1>4. /\ mem' = [mem EXCEPT ![p] = Norm(k, v, loc.chn)]
      /\ UNCHANGED <<used, disk, pc, down, osd, told, ifcfg, hw>>
  BY DEF Store
<1>5. mem' \in [Stored(used) -> Int] /\ Places = Stored(used)
  BY <1>3, <1>4 DEF Shapes, TypeOK, Places
<1>6. \A q \in Places : q # p => mem'[q] = mem[q]
  BY <1>1, <1>4, <1>5 DEF Shapes, TypeOK
<1>7. Places' = Places
  BY <1>4, <1>5, SamePlaces DEF Shapes
<1> QED BY <1>1, <1>4, <1>5, <1>6, <1>7

LEMMA FlagOf ==
  ASSUME TypeOK, NEW k \in Settings \ {"e_sys_protocol"}
  PROVE  /\ Flagged(k) \subseteq Range(FileOrder)
         /\ Flagged(k) = {} \/ Flagged(k) = {Home(k)[1]}
         /\ k \in RecKeys => Flagged(k) = {"REC"}
<1>1. EncFile \in {"ENC_0", "ENC_1"}
  BY DEF EncFile
<1>2. Home(k)[1] \in Range(FileOrder)
  BY <1>1, HomeOf, SettingFile, FileNames
<1>3. k \in RecKeys => k \notin EncLive \cup {"e_time_systime"} /\ Home(k)[1] = "REC"
  BY HomeOf, RecFile DEF EncKeys, RecKeys
<1> QED BY <1>2, <1>3 DEF Flagged

(* What it notes; the encoder may take the value or not. *)
LEMMA StoreNotes ==
  ASSUME Shapes, NEW k, NEW v \in ValuesOf(k), Store(k, v), NEW p, p = Home(k)
  PROVE  /\ loc' \in Locals /\ past' \in Pasts
         /\ loc'.flags = loc.flags \cup Flagged(k)
         /\ loc'.touched = IF k \in OsdKeys THEN loc.touched \cup {p[3]} ELSE loc.touched
         /\ loc'.since = IF loc.reset THEN loc.since \cup {p} ELSE loc.since
         /\ loc'.if_cfg = (loc.if_cfg \/ k \in AddrKeys)
         /\ loc.reboot => loc'.reboot
         /\ loc'.left = loc.left /\ loc'.reset = loc.reset /\ loc'.kept = loc.kept
         /\ past'.unsaved = IF Flagged(k) = {} THEN past.unsaved \cup {p} ELSE past.unsaved
         /\ past'.behind = past.behind /\ past'.untold = past.untold
         /\ past'.unwritten = past.unwritten
         /\ \E taken \in BOOLEAN :
              /\ taken => k \in EncLive
              /\ enc' = IF taken THEN [enc EXCEPT ![p] = mem'[p]] ELSE enc
              /\ past'.missed = IF k \notin EncLive THEN past.missed
                                ELSE IF taken THEN past.missed \ {p}
                                ELSE past.missed \cup {p}
<1>1. p \in Places /\ k \in Settings \ {"e_sys_protocol"} /\ p[2] = k /\ Places' = Places
  BY StoreEffect, Zenon DEF Store
<1>0. PICK taken \in BOOLEAN :
        /\ taken => ReachesEncoder(k)
        /\ enc' = IF taken THEN [enc EXCEPT ![p] = mem'[p]] ELSE enc
        /\ past' = [past EXCEPT
                      !.unsaved = IF Flagged(k) = {} THEN past.unsaved \cup {p}
                                  ELSE past.unsaved,
                      !.missed = IF k \notin EncLive THEN past.missed
                                 ELSE IF taken THEN past.missed \ {p}
                                 ELSE past.missed \cup {p}]
  BY DEF Store
<1> DEFINE fl == loc.flags \cup Flagged(k)
           to == IF k \in OsdKeys THEN loc.touched \cup {loc.region} ELSE loc.touched
           si == IF loc.reset THEN loc.since \cup {p} ELSE loc.since
           ic == loc.if_cfg \/ k \in AddrKeys
           rb == loc.reboot \/ k \in CloudKeys
           un == IF Flagged(k) = {} THEN past.unsaved \cup {p} ELSE past.unsaved
           ms == IF k \notin EncLive THEN past.missed
                 ELSE IF taken THEN past.missed \ {p} ELSE past.missed \cup {p}
<1>2. loc \in Locals /\ past \in Pasts
  BY DEF Shapes
<1>3. k \in OsdKeys => loc.region = p[3] /\ loc.region \in Regions
<2>1. k \in OsdKeys => IndexOf(k) = loc.region
  BY OsdKey DEF IndexOf
<2> QED BY <1>1, <2>1, HomeOf, OsdRegions DEF Only, Shapes
<1>4. fl \in SUBSET Range(FileOrder) /\ to \in SUBSET Regions /\ si \in SUBSET Places
  BY <1>1, <1>2, <1>3, FlagOf DEF Locals, Shapes
<1>5. ic \in BOOLEAN /\ rb \in BOOLEAN
  BY <1>2 DEF Locals
<1>6. un \in SUBSET Places /\ ms \in SUBSET Places
  BY <1>1, <1>2 DEF Pasts
<1>7. loc' = [loc EXCEPT !.flags = fl, !.since = si, !.touched = to, !.if_cfg = ic, !.reboot = rb]
  BY DEF Store
<1>8. past' = [past EXCEPT !.unsaved = un, !.missed = ms]
  BY <1>0
<1>9. rb = (loc.reboot \/ k \in CloudKeys)
  OBVIOUS
<1>10. ic = (loc.if_cfg \/ k \in AddrKeys)
  OBVIOUS
<1>11. to = IF k \in OsdKeys THEN loc.touched \cup {p[3]} ELSE loc.touched
  BY <1>3
<1> HIDE DEF rb, ic
<1>12. /\ loc' \in [type : {"none", "get", "set"}, yl_set : BOOLEAN, chn : {-1, 0, 1},
                    sub : Subs \cup {Min(Subs)}, region : Regions \cup {-1},
                    index : Areas \cup {-1}, flags : SUBSET Range(FileOrder),
                    touched : SUBSET Regions, if_cfg : BOOLEAN, reboot : BOOLEAN,
                    left : Seq(Names), reset : BOOLEAN, kept : SUBSET Places,
                    since : SUBSET Places]
       /\ loc'.flags = fl /\ loc'.since = si /\ loc'.touched = to /\ loc'.if_cfg = ic
       /\ loc'.reboot = rb /\ loc'.left = loc.left /\ loc'.reset = loc.reset
       /\ loc'.kept = loc.kept
  <2> HIDE DEF fl, si, to
  <2> QED BY <1>2, <1>4, <1>5, <1>7 DEF Locals
<1>13. /\ past' \in [unsaved : SUBSET Places, missed : SUBSET Places, behind : SUBSET Regions,
                     untold : BOOLEAN, unwritten : BOOLEAN]
       /\ past'.unsaved = un /\ past'.missed = ms /\ past'.unwritten = past.unwritten
       /\ past'.behind = past.behind /\ past'.untold = past.untold
  <2> HIDE DEF un, ms
  <2> QED BY <1>2, <1>6, <1>8 DEF Pasts
<1>14. loc' \in Locals /\ past' \in Pasts
  BY <1>1, <1>12, <1>13 DEF Locals, Pasts
<1>15. /\ taken => k \in EncLive
       /\ past'.missed = IF k \notin EncLive THEN past.missed
                         ELSE IF taken THEN past.missed \ {p} ELSE past.missed \cup {p}
  BY <1>0, <1>13 DEF ReachesEncoder
<1> QED BY <1>0, <1>9, <1>10, <1>11, <1>12, <1>13, <1>14, <1>15
------------------------------------------------------------------------------
LEMMA FreshType == Fresh \in Locals
<1>1. -1 \in Regions \cup {-1} /\ -1 \in Areas \cup {-1} /\ <<>> \in Seq(Names)
  OBVIOUS
<1> QED BY <1>1 DEF Fresh, Locals

LEMMA InitInv == Init => IInv
<1> SUFFICES ASSUME Init PROVE IInv
  OBVIOUS
<1>1. mem \in [Stored(used) -> Int] /\ disk = mem /\ Places = Stored(used)
  BY FactoryInt DEF Init, Places
<1>2. loc \in Locals /\ loc = Fresh /\ past \in Pasts
      /\ past = [unsaved |-> {}, missed |-> {}, behind |-> {}, untold |-> FALSE,
                 unwritten |-> FALSE]
  BY FreshType DEF Init, Pasts
<1>3. loc.type = "none" /\ loc.chn = -1 /\ loc.flags = {} /\ loc.touched = {} /\ loc.left = <<>>
  BY <1>2 DEF Fresh
<1>4. TypeOK
<2>1. past.unsaved \subseteq Places /\ pc = "idle" /\ down = FALSE
  BY <1>2 DEF Init
<2> QED BY <1>1, <1>3, <2>1 DEF TypeOK
<1>5. \A K : Only(K) \subseteq Places
  BY DEF Only
<1>6. /\ enc = [p \in Only(EncLive) |-> enc[p]] /\ osd = [p \in Only(OsdKeys) |-> osd[p]]
      /\ told = [p \in Only(RecKeys) |-> told[p]]
  BY DEF Init, Restricted
<1>7. ifcfg \in [Only(AddrKeys) -> Int] /\ hw \in [Only(AddrKeys) -> Int]
  BY <1>1, <1>5 DEF Init, Restricted
<1>8. Shapes
  BY <1>2, <1>4, <1>6, <1>7 DEF Shapes
<1>9. SavedInv /\ EncoderInv /\ OverlayInv /\ RecorderInv
  BY <1>1 DEF Init, SavedInv, EncoderInv, OverlayInv, RecorderInv, Restricted
<1>10. AddressInv
<2>1. Only({"e_net_ip"}) \subseteq Only(AddrKeys)
  BY DEF Only, AddrKeys
<2> QED BY <2>1 DEF Init, AddressInv, Restricted
<1>11. ResetInv
  BY DEF Init, ResetInv
<1> QED BY <1>8, <1>9, <1>10, <1>11 DEF IInv

(* The steps that handle a pair without a Set, an answer or a reset.       *)
LEMMA HeaderInv ==
  ASSUME IInv, Header(loc'), loc' \in Locals,
         /\ loc'.flags = loc.flags /\ loc'.touched = loc.touched /\ loc'.if_cfg = loc.if_cfg
         /\ loc'.left = loc.left /\ loc'.reset = loc.reset /\ loc'.since = loc.since
         /\ loc'.kept = loc.kept /\ (loc.reboot => loc'.reboot)
  PROVE  IInv'
<1>1. pc = "parse" /\ UNCHANGED <<used, mem, disk, pc, down, past>>
      /\ UNCHANGED <<enc, osd, told, ifcfg, hw>>
  BY DEF Header, outside
<1>2. /\ Places' = Places /\ \A K : Only(K)' = Only(K)
      /\ \A f : InFile(f)' = InFile(f)
  BY <1>1 DEF Places, Only, InFile
<1>3. Shapes'
<2>1. loc'.type \in {"none", "get", "set"} /\ loc'.chn \in {-1, 0, 1} /\ loc' \in Locals'
      /\ past' \in Pasts'
  BY <1>1, <1>2 DEF Locals, Pasts, IInv, Shapes
<2>2. TypeOK'
  BY <1>1, <1>2, <2>1 DEF IInv, Shapes, TypeOK
<2> QED BY <1>1, <1>2, <2>1, <2>2 DEF IInv, Shapes
<1>4. SavedInv'
  BY <1>1, <1>2 DEF IInv, SavedInv
<1>5. EncoderInv' /\ OverlayInv'
  BY <1>1, <1>2 DEF IInv, EncoderInv, OverlayInv
<1>6. RecorderInv' /\ AddressInv'
  BY <1>1, <1>2 DEF IInv, RecorderInv, AddressInv
<1>7. ResetInv'
  BY <1>1, <1>2 DEF IInv, ResetInv
<1> QED BY <1>3, <1>4, <1>5, <1>6, <1>7 DEF IInv

LEMMA PairInv ==
  ASSUME IInv, \/ \E t \in {"get", "set", "cloud"} : SetType(t)
               \/ \E c \in {0, 1} : SetChannel(c)
               \/ \E s \in Subs : SetSub(s)
               \/ \E r \in Regions : SetRegion(r)
               \/ \E i \in Areas : SetIndex(i)
               \/ Reboot
  PROVE  IInv'
<1>1. loc \in Locals
  BY DEF IInv, Shapes
<1>2. ASSUME NEW t \in {"get", "set", "cloud"}, SetType(t) PROVE IInv'
<2> DEFINE y == (t = "cloud")
           ty == IF t = "cloud" THEN "set" ELSE t
<2>1. y \in BOOLEAN /\ ty \in {"none", "get", "set"}
  OBVIOUS
<2>2. loc' = [loc EXCEPT !.type = ty, !.yl_set = y]
  BY <1>2 DEF SetType, Header
<2> HIDE DEF y, ty
<2>3. loc' \in Locals
  BY <1>1, <2>1, <2>2 DEF Locals
<2>4. Header(loc')
  BY <1>2 DEF SetType, Header
<2> QED BY <1>1, <2>2, <2>3, <2>4, HeaderInv DEF Locals
<1>3. ASSUME NEW c \in {0, 1}, SetChannel(c) PROVE IInv'
  BY <1>1, <1>3, HeaderInv DEF SetChannel, Header, Locals
<1>4. ASSUME NEW s \in Subs, SetSub(s) PROVE IInv'
  BY <1>1, <1>4, HeaderInv DEF SetSub, Header, Locals
<1>5. ASSUME NEW r \in Regions, SetRegion(r) PROVE IInv'
  BY <1>1, <1>5, HeaderInv DEF SetRegion, Header, Locals
<1>6. ASSUME NEW i \in Areas, SetIndex(i) PROVE IInv'
  BY <1>1, <1>6, HeaderInv DEF SetIndex, Header, Locals
<1>7. CASE Reboot
  BY <1>1, <1>7, HeaderInv DEF Reboot, Header, Locals
<1> QED BY <1>2, <1>3, <1>4, <1>5, <1>6, <1>7
LEMMA ShapesKept ==
  ASSUME Shapes, UNCHANGED used,
         mem' \in [Stored(used) -> Int], disk' \in [Stored(used) -> Int],
         pc' \in {"idle", "parse", "reset", "ifcfg", "tell", "osd", "flush", "off"},
         loc' \in Locals, loc'.left # <<>> => pc' = "reset",
         pc' \in {"idle", "off"} => loc' = Fresh,
         down' \in BOOLEAN, past' \in Pasts,
         enc' = [p \in Only(EncLive) |-> enc'[p]], osd' = [p \in Only(OsdKeys) |-> osd'[p]],
         told' = [p \in Only(RecKeys) |-> told'[p]],
         ifcfg' \in [Only(AddrKeys) -> Int], hw' \in [Only(AddrKeys) -> Int]
  PROVE  Shapes'
<1>1. Places' = Places /\ \A K : Only(K)' = Only(K)
  BY SamePlaces DEF Shapes
<1>2. loc' \in Locals' /\ past' \in Pasts'
  BY <1>1 DEF Locals, Pasts
<1>3. loc'.type \in {"none", "get", "set"} /\ loc'.chn \in {-1, 0, 1}
      /\ loc'.flags \subseteq Range(FileOrder) /\ loc'.touched \subseteq Regions
      /\ past'.unsaved \subseteq Places
  BY DEF Locals, Pasts
<1>4. TypeOK'
  BY <1>1, <1>3 DEF TypeOK
<1> QED BY <1>1, <1>2, <1>4 DEF Shapes

LEMMA StoreInv ==
  ASSUME IInv, NEW k, NEW v \in ValuesOf(k), Store(k, v)
  PROVE  IInv'
<1> DEFINE p == Home(k)
<1>0. Shapes
  BY DEF IInv
<1>1. /\ pc = "parse" /\ p \in Places /\ p[2] = k /\ k \in Settings
      /\ k # "e_sys_protocol" /\ mem' \in [Stored(used) -> Int]
      /\ \A q \in Places : q # p => mem'[q] = mem[q]
      /\ UNCHANGED <<used, disk, pc, down, osd, told, ifcfg, hw>>
<2>1. k \in Settings /\ k # "e_sys_protocol"
  BY DEF Store
<2>2. p = Home(k)
  OBVIOUS
<2> HIDE DEF p
<2> QED BY <1>0, <2>1, <2>2, StoreEffect
<1>2. /\ loc' \in Locals /\ past' \in Pasts
      /\ loc'.flags = loc.flags \cup Flagged(k)
      /\ loc'.touched = IF k \in OsdKeys THEN loc.touched \cup {p[3]} ELSE loc.touched
      /\ loc'.since = IF loc.reset THEN loc.since \cup {p} ELSE loc.since
      /\ loc'.if_cfg = (loc.if_cfg \/ k \in AddrKeys)
      /\ loc.reboot => loc'.reboot
      /\ loc'.left = loc.left /\ loc'.reset = loc.reset /\ loc'.kept = loc.kept
      /\ past'.unsaved = IF Flagged(k) = {} THEN past.unsaved \cup {p} ELSE past.unsaved
      /\ past'.behind = past.behind /\ past'.untold = past.untold
      /\ past'.unwritten = past.unwritten
  BY <1>0, StoreNotes
<1>3. /\ Flagged(k) = {} \/ Flagged(k) = {p[1]}
      /\ k \in RecKeys => Flagged(k) = {"REC"}
  BY <1>0, <1>1, FlagOf DEF Shapes
<1>4. PICK taken \in BOOLEAN :
        /\ taken => k \in EncLive
        /\ enc' = IF taken THEN [enc EXCEPT ![p] = mem'[p]] ELSE enc
        /\ past'.missed = IF k \notin EncLive THEN past.missed
                          ELSE IF taken THEN past.missed \ {p} ELSE past.missed \cup {p}
  BY <1>0, StoreNotes
<1>5. Places' = Places /\ \A K : Only(K)' = Only(K)
  BY <1>0, <1>1, SamePlaces DEF Shapes
<1>6. \A K : p \in Only(K) <=> k \in K
  BY <1>1 DEF Only
<1> HIDE DEF p
<1>7. enc' = [q \in Only(EncLive) |-> enc'[q]]
      /\ \A q \in Only(EncLive) :
           enc'[q] = IF q = p /\ taken THEN mem'[p] ELSE enc[q]
<2>1. enc = [q \in Only(EncLive) |-> enc[q]]
  BY <1>0 DEF Shapes
<2> QED BY <1>4, <1>6, <2>1
<1>8. Shapes'
<2>1. loc'.left # <<>> => pc' = "reset"
  BY <1>0, <1>1, <1>2 DEF Shapes, TypeOK
<2> QED BY <1>0, <1>1, <1>2, <1>7, <2>1, ShapesKept DEF Shapes, TypeOK
<1>9. SavedInv'
<2> SUFFICES ASSUME NEW q \in Places, disk'[q] # mem'[q]
             PROVE  q \in past'.unsaved \/ q[1] \in loc'.flags
  BY <1>5 DEF SavedInv
<2>1. CASE q = p
  BY <1>1, <1>2, <1>3, <2>1
<2>2. CASE q # p
<3>1. q \in past.unsaved \/ q[1] \in loc.flags
  BY <1>1, <2>2 DEF IInv, SavedInv
<3> QED BY <1>2, <3>1
<2> QED BY <2>1, <2>2
<1>10. EncoderInv'
<2> SUFFICES ASSUME ~down', ~loc'.reboot, NEW q \in Only(EncLive), enc'[q] # mem'[q]
             PROVE  q \in past'.missed
  BY <1>5 DEF EncoderInv
<2>1. CASE q = p
  BY <1>4, <1>6, <1>7, <2>1
<2>2. CASE q # p
<3>1. enc[q] # mem[q] /\ q \in Places
  BY <1>1, <1>7, <2>2 DEF Only
<3>2. q \in past.missed
  BY <1>1, <1>2, <3>1 DEF IInv, EncoderInv
<3> QED BY <1>4, <2>2, <3>2
<2> QED BY <2>1, <2>2
<1>11. OverlayInv'
<2> SUFFICES ASSUME ~down', ~loc'.reboot, NEW q \in Only(OsdKeys), osd'[q] # mem'[q]
             PROVE  q[3] \in past'.behind \/ q[3] \in loc'.touched
  BY <1>1, <1>5 DEF OverlayInv
<2>1. CASE q = p
  BY <1>2, <1>6, <2>1
<2>2. CASE q # p
<3>1. osd[q] # mem[q] /\ q \in Places
  BY <1>1, <2>2 DEF Only
<3>2. q[3] \in past.behind \/ q[3] \in loc.touched
  BY <1>1, <1>2, <3>1 DEF IInv, OverlayInv
<3> QED BY <1>2, <3>2
<2> QED BY <2>1, <2>2
<1>12. RecorderInv'
<2> SUFFICES ASSUME ~past'.untold, NEW q \in Only(RecKeys), told'[q] # mem'[q]
             PROVE  "REC" \in loc'.flags
  BY <1>1, <1>5 DEF RecorderInv
<2>1. CASE q = p
  BY <1>2, <1>3, <1>6, <2>1
<2>2. CASE q # p
<3>1. told[q] # mem[q] /\ q \in Places
  BY <1>1, <2>2 DEF Only
<3>2. "REC" \in loc.flags
  BY <1>1, <1>2, <3>1 DEF IInv, RecorderInv
<3> QED BY <1>2, <3>2
<2> QED BY <2>1, <2>2
<1>13. AddressInv'
<2> SUFFICES ASSUME ~past'.unwritten, NEW q \in Only({"e_net_ip"}),
                    ifcfg'[q] # mem'[q]
             PROVE  loc'.if_cfg
  BY <1>1, <1>5 DEF AddressInv
<2>1. CASE q = p
<3>1. k \in AddrKeys
  BY <1>6, <2>1 DEF AddrKeys
<3>2. loc'.if_cfg = (loc.if_cfg \/ k \in AddrKeys)
  BY <1>2
<3> QED BY <3>1, <3>2
<2>2. CASE q # p
<3>1. ifcfg[q] # mem[q] /\ q \in Places
  BY <1>1, <2>2 DEF Only
<3>2. loc.if_cfg
  BY <1>1, <1>2, <3>1 DEF IInv, AddressInv
<3> QED BY <1>2, <3>2
<2> QED BY <2>1, <2>2
<1>14. ResetInv'
<2> SUFFICES ASSUME loc'.reset, NEW q \in Places, q[1] \in Range(ResetTable),
                    mem'[q] # Factory(q[2]) \/ disk'[q] # Factory(q[2])
             PROVE  q \in loc'.since \cup loc'.kept
  BY <1>1, <1>5 DEF ResetInv
<2>1. CASE q = p
  BY <1>2, <2>1
<2>2. CASE q # p
<3>1. mem[q] # Factory(q[2]) \/ disk[q] # Factory(q[2])
  BY <1>1, <2>2
<3>2. q \in loc.since \cup loc.kept
  BY <1>1, <1>2, <3>1 DEF IInv, ResetInv
<3> QED BY <1>2, <3>2
<2> QED BY <2>1, <2>2
<1> QED BY <1>8, <1>9, <1>10, <1>11, <1>12, <1>13, <1>14 DEF IInv

(* The protocol is in no file that is flagged or reset, and in no process. *)
LEMMA SetProtocolInv ==
  ASSUME IInv, NEW v \in ValuesOf("e_sys_protocol"), SetProtocol(v)
  PROVE  IInv'
<1> DEFINE p == <<"PROTOCOL", "e_sys_protocol", 0>>
<1>0. Shapes
  BY DEF IInv
<1>1. /\ pc = "parse" /\ p \in Places /\ loc' = [loc EXCEPT !.reboot = TRUE]
      /\ UNCHANGED <<used, pc, down, enc, osd, told, ifcfg, hw, past>>
      /\ \/ /\ mem' = [mem EXCEPT ![p] = IF v = 0 THEN 0 ELSE 1]
            /\ disk' = [disk EXCEPT ![p] = mem'[p]]
         \/ UNCHANGED <<mem, disk>>
  BY DEF SetProtocol, outside
<1>2. /\ p[1] \notin Range(ResetTable)
      /\ p \notin Only(EncLive \cup OsdKeys \cup RecKeys \cup {"e_net_ip"})
  BY DEF ResetTable, Range, Only, EncLive, OsdKeys, RecKeys
<1> HIDE DEF p
<1>3. /\ mem' \in [Stored(used) -> Int] /\ disk' \in [Stored(used) -> Int]
      /\ \A q \in Places : q # p => mem'[q] = mem[q] /\ disk'[q] = disk[q]
      /\ disk'[p] = mem'[p] \/ UNCHANGED <<mem, disk>>
  BY <1>0, <1>1 DEF Shapes, TypeOK, Places
<1>4. /\ loc' \in Locals /\ loc'.left = loc.left /\ loc'.flags = loc.flags /\ loc'.reboot
      /\ loc'.if_cfg = loc.if_cfg /\ loc'.touched = loc.touched /\ loc'.reset = loc.reset
      /\ loc'.since = loc.since /\ loc'.kept = loc.kept
  BY <1>0, <1>1 DEF Shapes, Locals
<1>5. Places' = Places /\ \A K : Only(K)' = Only(K)
  BY <1>0, <1>1, <1>3, SamePlaces DEF Shapes
<1>6. Shapes'
  BY <1>0, <1>1, <1>3, <1>4, ShapesKept DEF Shapes, TypeOK
<1>7. SavedInv'
  BY <1>1, <1>3, <1>4, <1>5 DEF IInv, SavedInv
<1>8. EncoderInv' /\ OverlayInv'
  BY <1>4 DEF EncoderInv, OverlayInv
<1>9. \A q \in Only(RecKeys) \cup Only({"e_net_ip"}) : mem'[q] = mem[q]
  BY <1>2, <1>3 DEF Only
<1>10. RecorderInv' /\ AddressInv'
  BY <1>1, <1>4, <1>5, <1>9 DEF IInv, RecorderInv, AddressInv
<1>11. ResetInv'
  BY <1>1, <1>2, <1>3, <1>4, <1>5 DEF IInv, ResetInv
<1> QED BY <1>6, <1>7, <1>8, <1>10, <1>11 DEF IInv

(* Asking for the MAC reads it from the interface.                         *)
LEMMA GetMacInv ==
  ASSUME IInv, GetMac
  PROVE  IInv'
<1> DEFINE p == <<"NET", "e_net_macaddr", 0>>
<1>0. Shapes
  BY DEF IInv
<1>1. pc = "parse" /\ p \in Places /\ p[2] = "e_net_macaddr"
  BY DEF GetMac
<1>2. p \in Only(AddrKeys) /\ p \notin Only(EncLive \cup OsdKeys \cup RecKeys \cup {"e_net_ip"})
  BY <1>1, AddrFile, RecFile DEF Only, AddrKeys, EncKeys
<1>3. p[1] \notin Range(ResetTable)
  BY <1>0, <1>2, NotReset DEF Only, Shapes
<1>4. mem' = [mem EXCEPT ![p] = hw[p]] /\ past' = [past EXCEPT !.unsaved = @ \cup {p}]
      /\ UNCHANGED <<used, disk, pc, loc, down, enc, osd, told, ifcfg, hw>>
  BY DEF GetMac, outside
<1> HIDE DEF p
<1>5. mem' \in [Stored(used) -> Int] /\ \A q \in Places : q # p => mem'[q] = mem[q]
  BY <1>0, <1>2, <1>4 DEF Shapes, TypeOK, Places
<1>6. /\ past' \in Pasts /\ past'.unsaved = past.unsaved \cup {p}
      /\ past'.missed = past.missed /\ past'.behind = past.behind /\ past'.untold = past.untold
      /\ past'.unwritten = past.unwritten
  BY <1>0, <1>1, <1>4 DEF Shapes, Pasts
<1>7. Places' = Places /\ \A K : Only(K)' = Only(K)
  BY <1>0, <1>4, <1>5, SamePlaces DEF Shapes
<1>8. Shapes'
  BY <1>0, <1>4, <1>5, <1>6, ShapesKept DEF Shapes, TypeOK
<1>9. SavedInv'
  BY <1>1, <1>4, <1>5, <1>6, <1>7 DEF IInv, SavedInv
<1>10. \A q \in Only(EncLive) \cup Only(OsdKeys) \cup Only(RecKeys) \cup Only({"e_net_ip"}) :
         mem'[q] = mem[q]
  BY <1>2, <1>5 DEF Only
<1>11. EncoderInv' /\ OverlayInv'
  BY <1>1, <1>4, <1>6, <1>7, <1>10 DEF IInv, EncoderInv, OverlayInv
<1>12. RecorderInv' /\ AddressInv'
  BY <1>1, <1>4, <1>6, <1>7, <1>10 DEF IInv, RecorderInv, AddressInv
<1>13. ResetInv'
  BY <1>1, <1>3, <1>4, <1>5, <1>7 DEF IInv, ResetInv
<1> QED BY <1>8, <1>9, <1>11, <1>12, <1>13 DEF IInv
------------------------------------------------------------------------------
(* The reset *)

LEMMA ResetStarts ==
  ASSUME IInv, Reset
  PROVE  IInv'
<1>0. Shapes
  BY DEF IInv
<1>1. /\ pc = "parse" /\ pc' = "reset" /\ loc' = [loc EXCEPT !.left = ResetTable, !.kept = {}]
      /\ UNCHANGED <<used, mem, disk, down, enc, osd, told, ifcfg, hw, past>>
  BY DEF Reset, outside
<1>2. ResetTable \in Seq(Names) /\ Len(ResetTable) = 4
  BY DEF ResetTable, Names
<1>3. /\ loc' \in Locals /\ loc'.left = ResetTable /\ loc'.flags = loc.flags
      /\ loc'.if_cfg = loc.if_cfg
  BY <1>0, <1>1, <1>2 DEF Shapes, Locals
<1>4. Places' = Places /\ (\A K : Only(K)' = Only(K)) /\ (\A f : InFile(f)' = InFile(f))
  BY <1>1 DEF Places, Only, InFile
<1>5. Shapes'
  BY <1>0, <1>1, <1>3, ShapesKept DEF Shapes, TypeOK
<1>6. SavedInv' /\ EncoderInv' /\ OverlayInv'
  BY <1>1, <1>3, <1>4 DEF IInv, SavedInv, EncoderInv, OverlayInv
<1>7. RecorderInv' /\ AddressInv'
  BY <1>1, <1>3, <1>4 DEF IInv, RecorderInv, AddressInv
<1>8. ResetInv'
<2>1. ToDo' = 4
  BY <1>2, <1>3 DEF ToDo
<2> QED BY <1>1, <1>3, <2>1 DEF ResetInv
<1> QED BY <1>5, <1>6, <1>7, <1>8 DEF IInv

(* Which file comes next, and which have been restored. *)
LEMMA NextFile ==
  ASSUME IInv, pc = "reset", loc.left # <<>>
  PROVE  /\ ToDo \in 1 .. 4 /\ Head(loc.left) = ResetTable[5 - ToDo]
         /\ Tail(loc.left) \in Seq(Names) /\ Len(Tail(loc.left)) = ToDo - 1
         /\ \A i \in 1 .. ToDo - 1 : Tail(loc.left)[i] = ResetTable[5 - ToDo + i]
         /\ ResetTable[5 - ToDo] \in Range(ResetTable)
<1>1. loc.left \in Seq(Names) /\ loc.left # <<>>
  BY DEF IInv, Shapes, Locals
<1>2. ToDo \in 1 .. 4 /\ \A i \in 1 .. ToDo : loc.left[i] = ResetTable[4 - ToDo + i]
<2>1. ToDo \in 0 .. 4 /\ \A i \in 1 .. ToDo : loc.left[i] = ResetTable[4 - ToDo + i]
  BY DEF IInv, ResetInv
<2>2. ToDo # 0
  BY <1>1, EmptySeq DEF ToDo
<2> QED BY <2>1, <2>2
<1>3. /\ Head(loc.left) = loc.left[1] /\ Tail(loc.left) \in Seq(Names)
      /\ Len(Tail(loc.left)) = ToDo - 1
      /\ \A i \in 1 .. ToDo - 1 : Tail(loc.left)[i] = loc.left[i + 1]
<2>1. /\ Tail(loc.left) \in Seq(Names) /\ Len(Tail(loc.left)) = Len(loc.left) - 1
      /\ \A i \in 1 .. Len(loc.left) - 1 : Tail(loc.left)[i] = loc.left[i + 1]
  BY <1>1, HeadTailProperties
<2> QED BY <1>1, <2>1 DEF ToDo
<1>4. \A i \in 1 .. 4 : ResetTable[i] \in Range(ResetTable)
  BY DEF ResetTable, Range
<1>5. Head(loc.left) = ResetTable[5 - ToDo]
<2>1. 1 \in 1 .. ToDo /\ 4 - ToDo + 1 = 5 - ToDo
  BY <1>2
<2> QED BY <1>2, <1>3, <2>1
<1>6. ASSUME NEW i \in 1 .. ToDo - 1 PROVE Tail(loc.left)[i] = ResetTable[5 - ToDo + i]
<2>1. i + 1 \in 1 .. ToDo /\ 4 - ToDo + (i + 1) = 5 - ToDo + i
  BY <1>2
<2>2. loc.left[i + 1] = ResetTable[5 - ToDo + i]
  BY <1>2, <2>1
<2> QED BY <1>3, <2>2
<1>7. 5 - ToDo \in 1 .. 4
  BY <1>2
<1> QED BY <1>2, <1>3, <1>4, <1>5, <1>6, <1>7

LEMMA ResetFileInv ==
  ASSUME IInv, ResetFile
  PROVE  IInv'
<1> DEFINE f == Head(loc.left)
<1>0. Shapes
  BY DEF IInv
<1>a. PICK restored \in BOOLEAN :
        /\ disk' = IF restored THEN Default(f) ELSE disk
        /\ loc' = [loc EXCEPT !.left = Tail(loc.left),
                             !.kept = IF restored THEN loc.kept ELSE loc.kept \cup InFile(f)]
  BY DEF ResetFile
<1> DEFINE kp == IF restored THEN loc.kept ELSE loc.kept \cup InFile(f)
<1>1. /\ pc = "reset" /\ loc.left # <<>>
      /\ disk' = IF restored THEN Default(f) ELSE disk
      /\ mem' = [p \in Places |-> IF p \in InFile(f) THEN disk'[p] ELSE mem[p]]
      /\ loc' = [loc EXCEPT !.left = Tail(loc.left), !.kept = kp]
      /\ past' = [past EXCEPT !.unsaved = past.unsaved \ InFile(f)]
      /\ UNCHANGED <<used, pc, down, enc, osd, told, ifcfg, hw>>
  BY <1>a DEF ResetFile, outside
<1>2. /\ ToDo \in 1 .. 4 /\ f = ResetTable[5 - ToDo] /\ f \in Range(ResetTable)
      /\ Tail(loc.left) \in Seq(Names) /\ Len(Tail(loc.left)) = ToDo - 1
      /\ \A i \in 1 .. ToDo - 1 : Tail(loc.left)[i] = ResetTable[5 - ToDo + i]
  BY <1>1, NextFile
<1> HIDE DEF f
<1>3. Places = Stored(used)
  BY <1>0 DEF Shapes, TypeOK, Places
<1>4. /\ loc.kept \subseteq kp
      /\ \A p \in Places : /\ p \in InFile(f) =>
                                /\ mem'[p] = disk'[p]
                                /\ disk'[p] = Factory(p[2]) \/ p \in kp
                           /\ p \notin InFile(f) => mem'[p] = mem[p] /\ disk'[p] = disk[p]
  BY <1>1 DEF Default
<1>5. mem' \in [Stored(used) -> Int] /\ disk' \in [Stored(used) -> Int]
<2>1. disk' \in [Stored(used) -> Int]
  BY <1>0, <1>1, <1>3, FactoryInt DEF Default, Shapes, TypeOK
<2> QED BY <1>0, <1>1, <1>3, <2>1 DEF Shapes, TypeOK
<1>6. /\ loc' \in Locals /\ loc'.left = Tail(loc.left) /\ loc'.flags = loc.flags
      /\ loc'.if_cfg = loc.if_cfg /\ loc'.kept = kp
<2>1. kp \in SUBSET Places
  BY <1>0 DEF Shapes, Locals, InFile
<2> HIDE DEF kp
<2> QED BY <1>0, <1>1, <1>2, <2>1 DEF Shapes, Locals
<1> HIDE DEF kp
<1>7. past' \in Pasts /\ past'.unsaved = past.unsaved \ InFile(f) /\ past'.untold = past.untold
      /\ past'.unwritten = past.unwritten
  BY <1>0, <1>1 DEF Shapes, Pasts
<1>8. Places' = Places /\ (\A K : Only(K)' = Only(K)) /\ (\A g : InFile(g)' = InFile(g))
  BY <1>0, <1>1, <1>5, SamePlaces DEF Shapes
<1>9. Shapes'
  BY <1>0, <1>1, <1>5, <1>6, <1>7, ShapesKept DEF Shapes, TypeOK
<1>10. SavedInv'
<2> SUFFICES ASSUME NEW p \in Places, disk'[p] # mem'[p]
             PROVE  p \in past'.unsaved \/ p[1] \in loc'.flags
  BY <1>8 DEF SavedInv
<2>1. p \notin InFile(f) /\ disk[p] # mem[p] /\ p[1] # Head(loc.left)
  BY <1>4 DEF f, InFile
<2> QED BY <1>1, <1>6, <1>7, <2>1 DEF IInv, SavedInv
<1>11. EncoderInv' /\ OverlayInv'
  BY <1>1 DEF EncoderInv, OverlayInv
<1>12. \A p \in Only(RecKeys) \cup Only({"e_net_ip"}) : mem'[p] = mem[p]
<2>1. \A p \in Only(RecKeys \cup AddrKeys) : p \in Places /\ p \notin InFile(f)
  BY <1>0, <1>2, NotReset DEF Shapes, InFile, Only
<2>2. Only(RecKeys) \cup Only({"e_net_ip"}) \subseteq Only(RecKeys \cup AddrKeys)
  BY DEF Only, AddrKeys
<2> QED BY <1>4, <2>1, <2>2
<1>13. RecorderInv' /\ AddressInv'
  BY <1>1, <1>6, <1>7, <1>8, <1>12 DEF IInv, RecorderInv, AddressInv
<1>14. ResetInv'
<2>0. ToDo' = ToDo - 1
  BY <1>2, <1>6 DEF ToDo
<2>1. ToDo' = ToDo - 1 /\ \A i \in 1 .. ToDo' : loc'.left[i] = ResetTable[4 - ToDo' + i]
  BY <1>2, <1>6, <2>0
<2>2. ASSUME NEW i \in 1 .. 4 - ToDo' PROVE Restored(ResetTable[i])'
<3>1. i \in 1 .. 4 - ToDo \/ ResetTable[i] = f
  BY <1>2, <2>1
<3>2. \A p \in InFile(ResetTable[i]) : p \in Places
  BY DEF InFile
<3>3. i \in 1 .. 4 - ToDo => Restored(ResetTable[i])
  BY <1>1 DEF IInv, ResetInv
<3> SUFFICES ASSUME NEW p \in InFile(ResetTable[i])
             PROVE  (mem'[p] = Factory(p[2]) /\ disk'[p] = Factory(p[2])) \/ p \in kp
  BY <1>6, <1>8 DEF Restored
<3>4. CASE p \in InFile(f)
  BY <1>4, <3>2, <3>4
<3>5. CASE p \notin InFile(f)
<4>1. Restored(ResetTable[i])
  BY <3>1, <3>3, <3>5
<4>2. (mem[p] = Factory(p[2]) /\ disk[p] = Factory(p[2])) \/ p \in loc.kept
  BY <4>1 DEF Restored
<4> QED BY <1>4, <3>2, <3>5, <4>2
<3> QED BY <3>4, <3>5
<2> QED BY <1>1, <1>2, <2>1, <2>2 DEF ResetInv
<1> QED BY <1>9, <1>10, <1>11, <1>13, <1>14 DEF IInv

(* The file holds the default, the structure not yet. *)
LEMMA ResetFailsInv ==
  ASSUME IInv, ResetFails
  PROVE  IInv'
<1> DEFINE f == Head(loc.left)
<1>0. Shapes
  BY DEF IInv
<1>1. /\ pc = "reset" /\ loc.left # <<>> /\ disk' = Default(f)
      /\ UNCHANGED <<used, mem, pc, loc, down, enc, osd, told, ifcfg, hw, past>>
  BY DEF ResetFails, outside
<1>2. ToDo \in 1 .. 4 /\ f = ResetTable[5 - ToDo]
  BY <1>1, NextFile
<1> HIDE DEF f
<1>3. Places = Stored(used)
  BY <1>0 DEF Shapes, TypeOK, Places
<1>4. \A p \in Places : /\ p \in InFile(f) => disk'[p] = Factory(p[2])
                        /\ p \notin InFile(f) => disk'[p] = disk[p]
  BY <1>1 DEF Default
<1>5. disk' \in [Stored(used) -> Int]
  BY <1>0, <1>1, <1>3, FactoryInt DEF Default, Shapes, TypeOK
<1>6. Places' = Places /\ (\A K : Only(K)' = Only(K)) /\ (\A g : InFile(g)' = InFile(g))
  BY <1>1 DEF Places, Only, InFile
<1>7. Shapes'
  BY <1>0, <1>1, <1>5, ShapesKept DEF Shapes, TypeOK
<1>8. SavedInv'
<2> SUFFICES ASSUME NEW p \in Places, disk'[p] # mem[p]
             PROVE  p \in past.unsaved \/ p[1] \in loc.flags \/ p[1] = Head(loc.left)
  BY <1>1, <1>6 DEF SavedInv
<2>1. p \in InFile(f) => p[1] = Head(loc.left)
  BY DEF f, InFile
<2>2. p \notin InFile(f) => disk[p] # mem[p]
  BY <1>4
<2> QED BY <1>1, <2>1, <2>2 DEF IInv, SavedInv
<1>9. EncoderInv' /\ OverlayInv'
  BY <1>1 DEF EncoderInv, OverlayInv
<1>10. RecorderInv' /\ AddressInv'
  BY <1>1, <1>6 DEF IInv, RecorderInv, AddressInv
<1>11. ResetInv'
<2>1. ToDo' = ToDo
  BY <1>1 DEF ToDo
<2>2. ASSUME NEW i \in 1 .. 4 - ToDo PROVE Restored(ResetTable[i])'
<3>1. Restored(ResetTable[i]) /\ \A p \in InFile(ResetTable[i]) : p \in Places
  BY <1>1 DEF IInv, ResetInv, InFile
<3> QED BY <1>1, <1>4, <1>6, <3>1 DEF Restored
<2> QED BY <1>1, <2>1, <2>2 DEF IInv, ResetInv
<1> QED BY <1>7, <1>8, <1>9, <1>10, <1>11 DEF IInv

LEMMA ResetDoneInv ==
  ASSUME IInv, ResetDone
  PROVE  IInv'
<1>0. Shapes
  BY DEF IInv
<1>1. /\ pc = "reset" /\ loc.left = <<>> /\ pc' = "parse"
      /\ loc' = [loc EXCEPT !.reset = TRUE, !.since = {}, !.reboot = TRUE]
      /\ UNCHANGED <<used, mem, disk, down, enc, osd, told, ifcfg, hw, past>>
  BY DEF ResetDone, outside
<1>2. /\ loc' \in Locals /\ loc'.left = <<>> /\ loc'.flags = loc.flags /\ loc'.reboot
      /\ loc'.if_cfg = loc.if_cfg /\ loc'.kept = loc.kept
  BY <1>0, <1>1 DEF Shapes, Locals
<1>3. Places' = Places /\ (\A K : Only(K)' = Only(K)) /\ (\A f : InFile(f)' = InFile(f))
  BY <1>1 DEF Places, Only, InFile
<1>4. Shapes'
  BY <1>0, <1>1, <1>2, ShapesKept DEF Shapes, TypeOK
<1>5. SavedInv' /\ EncoderInv' /\ OverlayInv'
  BY <1>1, <1>2, <1>3 DEF IInv, SavedInv, EncoderInv, OverlayInv
<1>6. RecorderInv' /\ AddressInv'
  BY <1>1, <1>2, <1>3 DEF IInv, RecorderInv, AddressInv
<1>7. ResetInv'
<2>1. ToDo = 0
  BY <1>1 DEF ToDo
<2>2. \A f \in Range(ResetTable) : \E i \in 1 .. 4 : f = ResetTable[i]
  BY DEF ResetTable, Range
<2>3. \A f \in Range(ResetTable) : Restored(f)
  BY <1>1, <2>1, <2>2 DEF IInv, ResetInv
<2>4. \A p \in Places : p[1] \in Range(ResetTable) =>
        (mem[p] = Factory(p[2]) /\ disk[p] = Factory(p[2])) \/ p \in loc.kept
  BY <2>3 DEF Restored, InFile
<2> QED BY <1>1, <1>2, <1>3, <2>4 DEF ResetInv
<1> QED BY <1>4, <1>5, <1>6, <1>7 DEF IInv
------------------------------------------------------------------------------
(* The start and the end of a message *)

LEMMA ReceiveInv ==
  ASSUME IInv, Receive
  PROVE  IInv'
<1>0. Shapes
  BY DEF IInv
<1>1. /\ pc = "idle" /\ pc' = "parse" /\ loc' = Fresh /\ loc = Fresh
      /\ UNCHANGED <<used, mem, disk, down, enc, osd, told, ifcfg, hw, past>>
  BY <1>0 DEF Receive, outside, Shapes
<1>2. loc' \in Locals /\ loc'.left = <<>> /\ ~loc'.reset /\ loc' = loc
  BY <1>0, <1>1 DEF Shapes, Fresh
<1>3. Places' = Places /\ (\A K : Only(K)' = Only(K)) /\ (\A f : InFile(f)' = InFile(f))
  BY <1>1 DEF Places, Only, InFile
<1>4. Shapes'
  BY <1>0, <1>1, <1>2, ShapesKept DEF Shapes, TypeOK
<1>5. SavedInv' /\ EncoderInv' /\ OverlayInv'
  BY <1>1, <1>2, <1>3 DEF IInv, SavedInv, EncoderInv, OverlayInv
<1>6. RecorderInv' /\ AddressInv' /\ ResetInv'
  BY <1>1, <1>2, <1>3 DEF IInv, RecorderInv, AddressInv, ResetInv
<1> QED BY <1>4, <1>5, <1>6 DEF IInv

LEMMA EndOfMessageInv ==
  ASSUME IInv, EndOfMessage
  PROVE  IInv'
<1>0. Shapes
  BY DEF IInv
<1>1. /\ pc = "parse" /\ pc' = "ifcfg"
      /\ UNCHANGED <<used, mem, disk, loc, down, enc, osd, told, ifcfg, hw, past>>
  BY DEF EndOfMessage, outside
<1>2. Places' = Places /\ (\A K : Only(K)' = Only(K)) /\ (\A f : InFile(f)' = InFile(f))
  BY <1>1 DEF Places, Only, InFile
<1>3. Shapes'
  BY <1>0, <1>1, ShapesKept DEF Shapes, TypeOK
<1>4. SavedInv' /\ EncoderInv' /\ OverlayInv'
  BY <1>1, <1>2 DEF IInv, SavedInv, EncoderInv, OverlayInv
<1>5. RecorderInv' /\ AddressInv' /\ ResetInv'
  BY <1>1, <1>2 DEF IInv, RecorderInv, AddressInv, ResetInv
<1> QED BY <1>3, <1>4, <1>5 DEF IInv

(* From here on if.cfg has the address of the settings, or is marked. *)
LEMMA GenIfCfgInv ==
  ASSUME IInv, GenIfCfg
  PROVE  IInv'
<1>0. Shapes
  BY DEF IInv
<1>1. /\ pc = "ifcfg" /\ pc' = "tell"
      /\ UNCHANGED <<used, mem, disk, loc, down, enc, osd, told, hw>>
  BY DEF GenIfCfg
<1>2. Places' = Places /\ (\A K : Only(K)' = Only(K)) /\ (\A f : InFile(f)' = InFile(f))
  BY <1>1 DEF Places, Only, InFile
<1>3. /\ ifcfg' \in [Only(AddrKeys) -> Int] /\ past' \in Pasts
      /\ past'.unsaved = past.unsaved /\ past'.missed = past.missed
      /\ past'.behind = past.behind /\ past'.untold = past.untold
      /\ ~past'.unwritten =>
           \/ \A p \in Only(AddrKeys) : ifcfg'[p] = mem[p]
           \/ ~loc.if_cfg /\ ~past.unwritten /\ ifcfg' = ifcfg
<2>1. /\ DOMAIN ifcfg = Only(AddrKeys) /\ Only(AddrKeys) \subseteq Stored(used)
      /\ ifcfg \in [Only(AddrKeys) -> Int] /\ mem \in [Stored(used) -> Int] /\ past \in Pasts
  BY <1>0 DEF Shapes, TypeOK, Places, Only
<2>2. CASE ifcfg' = Restricted(mem, DOMAIN ifcfg) /\ past' = [past EXCEPT !.unwritten = FALSE]
  BY <2>1, <2>2 DEF Restricted, Pasts
<2>3. CASE past' = [past EXCEPT !.unwritten = TRUE] /\ UNCHANGED ifcfg
  BY <2>1, <2>3 DEF Pasts
<2>4. CASE ~loc.if_cfg /\ UNCHANGED <<ifcfg, past>>
  BY <2>1, <2>4
<2> QED BY <2>2, <2>3, <2>4 DEF GenIfCfg
<1>4. Shapes'
  BY <1>0, <1>1, <1>3, ShapesKept DEF Shapes, TypeOK
<1>5. SavedInv' /\ EncoderInv' /\ OverlayInv'
  BY <1>1, <1>2, <1>3 DEF IInv, SavedInv, EncoderInv, OverlayInv
<1>6. RecorderInv' /\ ResetInv'
  BY <1>1, <1>2, <1>3 DEF IInv, RecorderInv, ResetInv
<1>7. AddressInv'
<2>1. Only({"e_net_ip"}) \subseteq Only(AddrKeys)
  BY DEF Only, AddrKeys
<2> QED BY <1>1, <1>2, <1>3, <2>1 DEF IInv, AddressInv
<1> QED BY <1>4, <1>5, <1>6, <1>7 DEF IInv

LEMMA TellRecorderInv ==
  ASSUME IInv, TellRecorder
  PROVE  IInv'
<1>0. Shapes
  BY DEF IInv
<1>1. /\ pc = "tell" /\ pc' = "osd"
      /\ UNCHANGED <<used, mem, disk, loc, down, enc, osd, ifcfg, hw>>
  BY DEF TellRecorder
<1>2. Places' = Places /\ (\A K : Only(K)' = Only(K)) /\ (\A f : InFile(f)' = InFile(f))
  BY <1>1 DEF Places, Only, InFile
<1>3. /\ past' \in Pasts /\ told' = [p \in Only(RecKeys) |-> told'[p]]
      /\ past'.unsaved = past.unsaved /\ past'.missed = past.missed
      /\ past'.behind = past.behind /\ past'.unwritten = past.unwritten
      /\ ~past'.untold => \A p \in Only(RecKeys) : told'[p] = mem[p]
<2>1. past \in Pasts /\ DOMAIN told = Only(RecKeys) /\ told = [p \in Only(RecKeys) |-> told[p]]
  BY <1>0 DEF Shapes
<2>2. CASE told' = Restricted(mem, DOMAIN told) /\ past' = [past EXCEPT !.untold = FALSE]
  BY <2>1, <2>2 DEF Restricted, Pasts
<2>3. CASE past' = [past EXCEPT !.untold = TRUE] /\ UNCHANGED told
  BY <2>1, <2>3 DEF Pasts
<2>4. CASE "REC" \notin loc.flags /\ UNCHANGED <<told, past>>
  BY <1>1, <2>1, <2>4 DEF IInv, RecorderInv
<2> QED BY <2>2, <2>3, <2>4 DEF TellRecorder
<1>4. Shapes'
  BY <1>0, <1>1, <1>3, ShapesKept DEF Shapes, TypeOK
<1>5. SavedInv' /\ EncoderInv' /\ OverlayInv'
  BY <1>1, <1>2, <1>3 DEF IInv, SavedInv, EncoderInv, OverlayInv
<1>6. RecorderInv' /\ AddressInv' /\ ResetInv'
  BY <1>1, <1>2, <1>3 DEF IInv, RecorderInv, AddressInv, ResetInv
<1> QED BY <1>4, <1>5, <1>6 DEF IInv

LEMMA TellOverlayInv ==
  ASSUME IInv, TellOverlay
  PROVE  IInv'
<1>0. Shapes
  BY DEF IInv
<1>1. /\ pc = "osd" /\ pc' = "flush"
      /\ UNCHANGED <<used, mem, disk, loc, down, enc, told, ifcfg, hw>>
  BY DEF TellOverlay
<1>2. Places' = Places /\ (\A K : Only(K)' = Only(K)) /\ (\A f : InFile(f)' = InFile(f))
  BY <1>1 DEF Places, Only, InFile
<1>3. /\ past' \in Pasts /\ osd' = [p \in Only(OsdKeys) |-> osd'[p]]
      /\ past'.unsaved = past.unsaved /\ past'.missed = past.missed
      /\ past'.untold = past.untold /\ past'.unwritten = past.unwritten
      /\ \A p \in Only(OsdKeys) : osd'[p] # mem[p] /\ p[3] \notin past'.behind =>
           osd[p] # mem[p] /\ p[3] \notin past.behind \cup loc.touched
<2>1. past \in Pasts /\ DOMAIN osd = Only(OsdKeys) /\ osd = [p \in Only(OsdKeys) |-> osd[p]]
      /\ loc.touched \subseteq Regions
  BY <1>0 DEF Shapes, TypeOK
<2>2. CASE /\ osd' = [p \in DOMAIN osd |-> IF p[3] = ToShow THEN mem[p] ELSE osd[p]]
           /\ past' = [past EXCEPT !.behind = (past.behind \cup loc.touched) \ {loc.region}]
  BY <2>1, <2>2 DEF Pasts, ToShow
<2>3. CASE past' = [past EXCEPT !.behind = past.behind \cup loc.touched] /\ UNCHANGED osd
  BY <2>1, <2>3 DEF Pasts
<2>4. CASE loc.touched = {} /\ UNCHANGED <<osd, past>>
  BY <2>1, <2>4
<2> QED BY <2>2, <2>3, <2>4 DEF TellOverlay
<1>4. Shapes'
  BY <1>0, <1>1, <1>3, ShapesKept DEF Shapes, TypeOK
<1>5. SavedInv' /\ EncoderInv'
  BY <1>1, <1>2, <1>3 DEF IInv, SavedInv, EncoderInv
<1>6. OverlayInv'
  BY <1>1, <1>2, <1>3 DEF IInv, OverlayInv
<1>7. RecorderInv' /\ AddressInv' /\ ResetInv'
  BY <1>1, <1>2, <1>3 DEF IInv, RecorderInv, AddressInv, ResetInv
<1> QED BY <1>4, <1>5, <1>6, <1>7 DEF IInv

(* A file is saved whole, or what differs is marked; in either case it is  *)
(* no longer flagged.                                                      *)
LEMMA FlushInv ==
  ASSUME IInv, Flush
  PROVE  IInv'
<1> DEFINE f == SelectSeq(FileOrder, LAMBDA g : g \in loc.flags)[1]
<1>0. Shapes
  BY DEF IInv
<1>1. /\ pc = "flush" /\ loc' = [loc EXCEPT !.flags = loc.flags \ {f}]
      /\ UNCHANGED <<used, mem, pc, down, enc, osd, told, ifcfg, hw>>
  BY DEF Flush, outside
<1>2. \/ /\ disk' = [p \in Places |-> IF p \in InFile(f) THEN mem[p] ELSE disk[p]]
         /\ past' = [past EXCEPT !.unsaved = past.unsaved \ InFile(f)]
      \/ /\ past' = [past EXCEPT
                      !.unsaved = past.unsaved \cup {p \in InFile(f) : disk[p] # mem[p]}]
         /\ UNCHANGED disk
  BY DEF Flush
<1> HIDE DEF f
<1>3. Places' = Places /\ (\A K : Only(K)' = Only(K)) /\ (\A g : InFile(g)' = InFile(g))
  BY <1>1 DEF Places, Only, InFile
<1>4. /\ loc' \in Locals /\ loc'.flags = loc.flags \ {f} /\ loc'.left = loc.left
      /\ loc'.reset = loc.reset /\ loc'.since = loc.since /\ loc'.reboot = loc.reboot
      /\ loc'.touched = loc.touched /\ loc'.if_cfg = loc.if_cfg /\ loc'.kept = loc.kept
  BY <1>0, <1>1 DEF Shapes, Locals
<1>5. /\ past' \in Pasts /\ past'.missed = past.missed /\ past'.behind = past.behind
      /\ past'.untold = past.untold /\ past'.unwritten = past.unwritten
<2>1. past \in Pasts /\ InFile(f) \subseteq Places
  BY <1>0 DEF Shapes, InFile
<2> QED BY <1>2, <2>1 DEF Pasts
<1>6. /\ disk' \in [Stored(used) -> Int]
      /\ \A p \in Places : /\ disk'[p] = disk[p] \/ disk'[p] = mem[p]
                           /\ p \notin InFile(f) => disk'[p] = disk[p]
<2>1. Places = Stored(used) /\ mem \in [Stored(used) -> Int] /\ disk \in [Stored(used) -> Int]
  BY <1>0 DEF Shapes, TypeOK, Places
<2> QED BY <1>2, <2>1
<1>7. \A p \in Places : disk'[p] # mem[p] =>
        \/ p \in InFile(f) /\ p \in past'.unsaved
        \/ /\ p \notin InFile(f) /\ disk[p] # mem[p]
           /\ p \in past.unsaved => p \in past'.unsaved
<2>1. past \in Pasts
  BY <1>0 DEF Shapes
<2> QED BY <1>2, <2>1 DEF Pasts
<1>8. Shapes'
  BY <1>0, <1>1, <1>4, <1>5, <1>6, ShapesKept DEF Shapes, TypeOK
<1>9. SavedInv'
<2> SUFFICES ASSUME NEW p \in Places, disk'[p] # mem[p]
             PROVE  p \in past'.unsaved \/ p[1] \in loc'.flags
  BY <1>1, <1>3 DEF SavedInv
<2>1. p \notin InFile(f) => p[1] # f
  BY DEF InFile
<2> QED BY <1>1, <1>4, <1>7, <2>1 DEF IInv, SavedInv
<1>10. EncoderInv' /\ OverlayInv'
  BY <1>1, <1>3, <1>4, <1>5 DEF IInv, EncoderInv, OverlayInv
<1>11. RecorderInv' /\ AddressInv'
  BY <1>1, <1>3, <1>4, <1>5 DEF IInv, RecorderInv, AddressInv
<1>12. ResetInv'
  BY <1>1, <1>3, <1>4, <1>6 DEF IInv, ResetInv
<1> QED BY <1>8, <1>9, <1>10, <1>11, <1>12 DEF IInv

LEMMA FinishInv ==
  ASSUME IInv, Finish
  PROVE  IInv'
<1>0. Shapes
  BY DEF IInv
<1>1. /\ pc = "flush" /\ loc.flags = {} /\ pc' = "idle" /\ loc' = Fresh
      /\ down' = (down \/ loc.reboot)
      /\ UNCHANGED <<used, mem, disk, enc, osd, told, ifcfg, hw, past>>
  BY DEF Finish, outside
<1>2. Places' = Places /\ (\A K : Only(K)' = Only(K)) /\ (\A f : InFile(f)' = InFile(f))
  BY <1>1 DEF Places, Only, InFile
<1>3. loc' \in Locals /\ loc'.left = <<>> /\ ~loc'.reset
  BY <1>1, FreshType DEF Fresh
<1>4. down' \in BOOLEAN /\ (~down' => ~down /\ ~loc.reboot)
  BY <1>0, <1>1 DEF Shapes, TypeOK, Locals
<1>5. Shapes'
  BY <1>0, <1>1, <1>3, <1>4, ShapesKept DEF Shapes, TypeOK
<1>6. SavedInv'
  BY <1>1, <1>2 DEF IInv, SavedInv
<1>7. EncoderInv' /\ OverlayInv'
  BY <1>1, <1>2, <1>4 DEF IInv, EncoderInv, OverlayInv
<1>8. RecorderInv' /\ AddressInv' /\ ResetInv'
  BY <1>1, <1>2 DEF IInv, RecorderInv, AddressInv, ResetInv
<1> QED BY <1>5, <1>6, <1>7, <1>8 DEF IInv

------------------------------------------------------------------------------
(* A restart forgets what was not saved, and reads what was. *)
LEMMA StopInv ==
  ASSUME IInv, Stop
  PROVE  IInv'
<1>0. Shapes
  BY DEF IInv
<1>1. /\ pc' = "off" /\ loc' = Fresh
      /\ UNCHANGED <<used, mem, disk, down, enc, osd, told, ifcfg, hw, past>>
  BY DEF Stop, outside
<1>2. loc' \in Locals /\ loc'.left = <<>>
  BY <1>1, FreshType DEF Fresh
<1>3. Shapes'
  BY <1>0, <1>1, <1>2, ShapesKept DEF Shapes, TypeOK
<1> QED BY <1>1, <1>3 DEF IInv, SavedInv, EncoderInv, OverlayInv, RecorderInv, AddressInv, ResetInv

LEMMA BootInv ==
  ASSUME IInv, Boot
  PROVE  IInv'
<1>0. Shapes
  BY DEF IInv
<1>a. PICK found \in BOOLEAN, shown \in BOOLEAN, reached \in BOOLEAN, unread \in Unread :
      Started(found, shown, reached, unread)
  BY DEF Boot
<1>1. /\ mem' = [p \in Places |-> AtStart(p, found, unread)]
      /\ enc' = [p \in DOMAIN enc |-> EncoderStart(p, unread)]
      /\ osd' = [p \in DOMAIN osd |-> IF shown /\ p[3] = 0 THEN disk[p] ELSE osd[p]]
      /\ told' = IF reached THEN Restricted(mem', DOMAIN told) ELSE told
      /\ past' = [unsaved |-> Only(RecKeys \cup AddrKeys \cup {"e_sys_swversion"})
                               \cup {p \in Places : p[1] \in unread},
                  missed  |-> {p \in DOMAIN enc : mem'[p] # enc'[p]},
                  behind  |-> Regions \ (IF shown THEN {0} ELSE {}),
                  untold  |-> ~reached, unwritten |-> FALSE]
  BY <1>a DEF Started
<1>2. /\ pc = "off" /\ pc' = "idle" /\ down' = FALSE /\ hw' = ifcfg
      /\ UNCHANGED <<used, disk, loc, ifcfg>>
  BY DEF Boot
<1>3. /\ Places = Stored(used) /\ disk \in [Stored(used) -> Int] /\ loc = Fresh
      /\ DOMAIN enc = Only(EncLive) /\ DOMAIN osd = Only(OsdKeys) /\ DOMAIN told = Only(RecKeys)
      /\ ifcfg \in [Only(AddrKeys) -> Int] /\ \A K : Only(K) \subseteq Places
  BY <1>0, <1>2 DEF Shapes, TypeOK, Places, Only
<1>4. \A p \in Places :
        /\ mem'[p] \in Int
        /\ mem'[p] # disk[p] => p[2] \in RecKeys \cup AddrKeys \cup {"e_sys_swversion"}
                               \/ p[1] \in unread
        /\ p[2] = "e_net_ip" => mem'[p] = ifcfg[p]
<2> SUFFICES ASSUME NEW p \in Places
             PROVE  /\ mem'[p] \in Int
                    /\ mem'[p] # disk[p] =>
                         p[2] \in RecKeys \cup AddrKeys \cup {"e_sys_swversion"} \/ p[1] \in unread
                    /\ p[2] = "e_net_ip" => mem'[p] = ifcfg[p]
  OBVIOUS
<2>1. mem'[p] = AtStart(p, found, unread)
  BY <1>1
<2>2. CASE p[2] \in AddrKeys
<3>1. AtStart(p, found, unread) = ifcfg[p]
  BY <2>2 DEF AtStart, AddrKeys
<3>2. ifcfg[p] \in Int
  BY <1>3, <2>2 DEF Only
<3> QED BY <2>1, <2>2, <3>1, <3>2
<2>3. CASE p[2] \in RecKeys \cup {"e_sys_swversion"}
<3>1. AtStart(p, found, unread) \in {0, 1, 5, 16777215, disk[p]}
  BY <2>3 DEF AtStart, RecKeys, AddrKeys
<3>2. p[2] # "e_net_ip" /\ disk[p] \in Int
  BY <1>3, <2>3 DEF RecKeys
<3> QED BY <2>1, <2>3, <3>1, <3>2
<2>4. CASE p[2] \notin RecKeys \cup AddrKeys \cup {"e_sys_swversion"}
<3>1. AtStart(p, found, unread) = IF p[1] \in unread THEN 0 ELSE disk[p]
  BY <2>4 DEF AtStart, RecKeys, AddrKeys
<3>2. p[2] # "e_net_ip" /\ disk[p] \in Int
  BY <1>3, <2>4 DEF AddrKeys
<3> QED BY <2>1, <3>1, <3>2
<2> QED BY <2>2, <2>3, <2>4
<1>5. mem' \in [Stored(used) -> Int]
  BY <1>1, <1>3, <1>4
<1>6. Places' = Places /\ (\A K : Only(K)' = Only(K))
  BY <1>0, <1>2, <1>5, SamePlaces DEF Shapes
<1>7. past' \in Pasts
  BY <1>1, <1>3 DEF Pasts
<1>8. /\ enc' = [p \in Only(EncLive) |-> enc'[p]] /\ osd' = [p \in Only(OsdKeys) |-> osd'[p]]
  BY <1>1, <1>3
<1>9. /\ told' = [p \in Only(RecKeys) |-> told'[p]]
      /\ reached => \A p \in Only(RecKeys) : told'[p] = mem'[p]
  BY <1>0, <1>1, <1>3 DEF Restricted, Shapes
<1>10. Shapes'
<2>1. /\ loc' \in Locals /\ loc'.left = <<>> /\ loc' = Fresh
      /\ ifcfg' \in [Only(AddrKeys) -> Int] /\ hw' \in [Only(AddrKeys) -> Int]
  BY <1>0, <1>2, <1>3 DEF Shapes, TypeOK
<2>2. /\ UNCHANGED used /\ disk' \in [Stored(used) -> Int] /\ down' \in BOOLEAN
      /\ pc' \in {"idle", "parse", "reset", "ifcfg", "tell", "osd", "flush", "off"}
      /\ told' = [p \in Only(RecKeys) |-> told'[p]]
  BY <1>2, <1>3, <1>9
<2> QED BY <1>0, <1>5, <1>7, <1>8, <2>1, <2>2, ShapesKept
<1>11. SavedInv'
  BY <1>1, <1>2, <1>3, <1>4, <1>6 DEF SavedInv, Only
<1>12. \A p \in Only(OsdKeys) : mem'[p] = disk[p] /\ p[3] \in Regions
<2>1. \A k \in OsdKeys : FileOf(k) = "OVERLAY" /\ k \notin EncKeys
  BY OsdFile
<2>2. \A p \in Only(OsdKeys) : p[1] = "OVERLAY"
  BY <1>0, <2>1, PlaceShape DEF Only, FilesOf, Shapes
<2>3. "OVERLAY" \notin unread
  BY DEF Unread
<2>4. \A k \in OsdKeys : k \notin RecKeys \cup AddrKeys \cup {"e_sys_swversion"}
  BY DEF OsdKeys, RecKeys, AddrKeys
<2> QED BY <1>0, <1>3, <1>4, <2>2, <2>3, <2>4, OsdRegions DEF Only, Shapes
<1>13. EncoderInv'
  BY <1>1, <1>3, <1>6 DEF EncoderInv
<1>14. OverlayInv'
  BY <1>1, <1>3, <1>6, <1>12 DEF OverlayInv
<1>15. RecorderInv'
<2>1. ~past'.untold => reached
  BY <1>1
<2>2. Only(RecKeys)' = Only(RecKeys)
  BY <1>6
<2>3. SUFFICES ASSUME ~past'.untold, NEW p \in Only(RecKeys)'
               PROVE  told'[p] = mem'[p]
  BY DEF RecorderInv
<2>4. reached /\ p \in Only(RecKeys)
  BY <2>1, <2>2, <2>3
<2> QED BY <1>9, <2>4
<1>16. AddressInv'
  BY <1>2, <1>4, <1>6 DEF AddressInv, Only
<1>17. ResetInv'
  BY <1>2 DEF ResetInv
<1> QED BY <1>10, <1>11, <1>13, <1>14, <1>15, <1>16, <1>17 DEF IInv

------------------------------------------------------------------------------
LEMMA NextInv ==
  ASSUME IInv, [Next]_vars
  PROVE  IInv'
<1>1. CASE UNCHANGED vars
<2>1. UNCHANGED <<used, mem, disk, pc, loc, down, enc, osd, told, ifcfg, hw, past>>
  BY <1>1 DEF vars
<2>2. Places' = Places /\ (\A K : Only(K)' = Only(K)) /\ (\A f : InFile(f)' = InFile(f))
  BY <2>1 DEF Places, Only, InFile
<2>3. Shapes'
<3>1. Shapes
  BY DEF IInv
<3>2. /\ mem \in [Stored(used) -> Int] /\ disk \in [Stored(used) -> Int]
      /\ pc \in {"idle", "parse", "reset", "ifcfg", "tell", "osd", "flush", "off"}
      /\ down \in BOOLEAN /\ (loc.left # <<>> => pc = "reset")
      /\ loc \in Locals /\ past \in Pasts
      /\ (pc \in {"idle", "off"} => loc = Fresh)
  BY <3>1 DEF Shapes, TypeOK
<3>3. /\ enc = [p \in Only(EncLive) |-> enc[p]] /\ osd = [p \in Only(OsdKeys) |-> osd[p]]
      /\ told = [p \in Only(RecKeys) |-> told[p]]
      /\ ifcfg \in [Only(AddrKeys) -> Int] /\ hw \in [Only(AddrKeys) -> Int]
  BY <3>1 DEF Shapes
<3>4. TypeOK'
  BY <2>1, <2>2, <3>1 DEF Shapes, TypeOK
<3>5. loc' \in Locals' /\ past' \in Pasts'
  BY <2>1, <2>2, <3>2 DEF Locals, Pasts
<3> QED BY <2>1, <2>2, <3>2, <3>3, <3>4, <3>5 DEF Shapes
<2>4. SavedInv' /\ EncoderInv' /\ OverlayInv' /\ RecorderInv' /\ AddressInv'
  BY <2>1, <2>2 DEF IInv, SavedInv, EncoderInv, OverlayInv, RecorderInv, AddressInv
<2>5. ResetInv'
  BY <2>1, <2>2 DEF IInv, ResetInv, Restored, ToDo
<2> QED BY <2>3, <2>4, <2>5 DEF IInv
<1>2. CASE Next
<2>1. CASE HandlePair
  BY <2>1, PairInv, StoreInv, SetProtocolInv, GetMacInv, ResetStarts DEF HandlePair
<2>2. CASE DoReset
  BY <2>2, ResetFileInv, ResetFailsInv, ResetDoneInv DEF DoReset
<2>3. CASE EndSteps
  BY <2>3, EndOfMessageInv, GenIfCfgInv, TellRecorderInv, TellOverlayInv, FlushInv, FinishInv
  DEF EndSteps
<2> QED BY <1>2, <2>1, <2>2, <2>3, ReceiveInv, StopInv, BootInv DEF Next
<1> QED BY <1>1, <1>2

LEMMA Invariant == Spec => []IInv
  BY InitInv, NextInv, PTL DEF Spec

(* The variables have their types; only do_reset leaves files to restore.  *)
THEOREM TypeCorrect == Spec => []TypeOK
<1>1. IInv => TypeOK
  BY DEF IInv, Shapes
<1> QED BY <1>1, Invariant, PTL

(* What processMsg acknowledged is in the files before the next message    *)
(* (SET_FILE_CHANGED, the loop over the flags at its end), resets that     *)
(* fail half way and power cuts at any step included; but for what         *)
(* past.unsaved names, the files that could not be written among it.       *)
THEOREM SettingsAreSaved == Spec => []Saved
<1>1. Fresh.flags = {}
  BY DEF Fresh
<1>2. IInv /\ pc = "idle" => loc.flags = {}
  BY <1>1 DEF IInv, Shapes
<1>3. IInv => Saved
  BY <1>2 DEF IInv, SavedInv, Saved
<1> QED BY <1>3, Invariant, PTL

(* Encoder, overlay process and recorder work with the stored settings,    *)
(* but for what the client, a failure (an ioctl, a connect, a send, at a   *)
(* message or at the start) or the start itself kept from them, which past *)
(* names: set_fps and its like, the overlay message, rec_cfg_set.          *)
THEOREM TargetsAreTold == Spec => []TargetsFollow
<1>1. IInv =>
        /\ DOMAIN enc = Only(EncLive) /\ DOMAIN osd = Only(OsdKeys)
        /\ DOMAIN told = Only(RecKeys) /\ (pc = "idle" => ~loc.reboot)
  BY DEF IInv, Shapes, Fresh
<1>2. IInv => EncoderFollows
  BY <1>1 DEF IInv, EncoderInv, EncoderFollows
<1>3. IInv => OverlayFollows
  BY <1>1 DEF IInv, OverlayInv, OverlayFollows
<1>4. IInv => RecorderFollows
  BY <1>1 DEF IInv, RecorderInv, RecorderFollows
<1>5. IInv => TargetsFollow
  BY <1>2, <1>3, <1>4 DEF TargetsFollow
<1> QED BY <1>5, Invariant, PTL

(* if.cfg, from which the next start takes the address, has the address of *)
(* the settings whenever no message is handled (gen_if_cfg before the file *)
(* of the settings is saved), unless gen_if_cfg could not write it since.  *)
THEOREM AddressIsKept == Spec => []AddressKept
<1>1. IInv => AddressKept
  BY DEF IInv, AddressInv, AddressKept
<1> QED BY <1>1, Invariant, PTL

(* do_reset takes effect: the flags raised before it in the same message   *)
(* save no old value over the defaults that default_setting put back.      *)
THEOREM ResetsTake == Spec => []ResetTakes
<1>1. IInv => ResetTakes
  BY DEF IInv, ResetInv, ResetTakes, InFile
<1> QED BY <1>1, Invariant, PTL
===============================================================================
