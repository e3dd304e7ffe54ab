----------------------------- MODULE PictureProof -----------------------------
(***************************************************************************)
(* The picture: proofs that registers and infrared thread have what the    *)
(* clients set, that a power cut brings it back and that saturation and    *)
(* lamp are switched together; for any values, messages, lights and any    *)
(* number of failing calls and power cuts.                                 *)
(*                                                                         *)
(* The invariant adds what the properties leave open: the key that is      *)
(* under way is the only one whose register or field may lag behind, a     *)
(* file that is not flagged is what is in memory, and what the infrared    *)
(* thread has in its hands and has set at each of its steps.               *)
(***************************************************************************)
EXTENDS Picture, FiniteSetTheorems, TLAPS

(* The key av_server has stored and not yet passed on. *)
UnderWay(k) == srv.pc \in {"device", "global"} /\ srv.key = k

SrvInv ==
  /\ srv.pc = "device" => srv.key \in Registers
  /\ srv.pc = "global" => srv.key \in InfradKeys \cup {"saturation"}

DiskInv == \A k \in Keys : File(k) \notin changed => disk[k] = mem[k]

DevInv == \A r \in Registers \ {"saturation"} :
            told[r] = "done" /\ ~UnderWay(r) => dev[r] = mem[r]

GblInv ==
  /\ ~UnderWay("stat") => gbl.status = mem["stat"]
  /\ ~UnderWay("imgctow") => gbl.imgCtoW_th = mem["imgctow"]
  /\ ~UnderWay("imgwtoc") => gbl.imgWtoC_th = mem["imgwtoc"]
  /\ ~UnderWay("saturation") => gbl.img_saturation = mem["saturation"]

(* The infrared thread, as long as no saturation was set meanwhile. *)
SwitchInv ==
  ~touched =>
    /\ inf.pc = "tint" => inf.val = gbl.img_saturation
    /\ told["saturation"] = "done" =>
         /\ inf.pc = "off" => dev["saturation"] = gbl.img_saturation
         /\ inf.pc = "on" => dev["saturation"] = 0
         /\ inf.pc \in Round /\ told["lamp"] = "done" =>
              dev["saturation"] = IF lamp = "on" THEN 0 ELSE gbl.img_saturation

IInv == TypeOK /\ SrvInv /\ DiskInv /\ DevInv /\ GblInv /\ SwitchInv
------------------------------------------------------------------------------
(* A call that fails is one of finitely many. *)
LEMMA RegistersFinite == IsFiniteSet(Registers)
<1>1. IsFiniteSet({})
  BY FS_EmptySet
<1>2. IsFiniteSet({} \cup {"FW"})
  BY <1>1, FS_AddElement
<1>3. IsFiniteSet({} \cup {"FW"} \cup {"brightness"})
  BY <1>2, FS_AddElement
<1>4. IsFiniteSet({} \cup {"FW"} \cup {"brightness"} \cup {"saturation"})
  BY <1>3, FS_AddElement
<1>5. IsFiniteSet({} \cup {"FW"} \cup {"brightness"} \cup {"saturation"} \cup {"hue"})
  BY <1>4, FS_AddElement
<1>6. IsFiniteSet({} \cup {"FW"} \cup {"brightness"} \cup {"saturation"} \cup {"hue"}
                  \cup {"contrast"})
  BY <1>5, FS_AddElement
<1>7. IsFiniteSet({} \cup {"FW"} \cup {"brightness"} \cup {"saturation"} \cup {"hue"}
                  \cup {"contrast"} \cup {"flip"})
  BY <1>6, FS_AddElement
<1>8. IsFiniteSet({} \cup {"FW"} \cup {"brightness"} \cup {"saturation"} \cup {"hue"}
                  \cup {"contrast"} \cup {"flip"} \cup {"scene"})
  BY <1>7, FS_AddElement
<1>9. IsFiniteSet({} \cup {"FW"} \cup {"brightness"} \cup {"saturation"} \cup {"hue"}
                  \cup {"contrast"} \cup {"flip"} \cup {"scene"} \cup {"mirror"})
  BY <1>8, FS_AddElement
<1>10. Registers = {} \cup {"FW"} \cup {"brightness"} \cup {"saturation"} \cup {"hue"}
                   \cup {"contrast"} \cup {"flip"} \cup {"scene"} \cup {"mirror"}
  BY DEF Registers
<1> QED
  BY <1>9, <1>10

(* What it means to have told the registers: a register that was told has  *)
(* the value, the others are as they were.                                 *)
LEMMA TellSets ==
  ASSUME NEW rs \in SUBSET Registers, NEW f, NEW before \in [Registers -> Int],
         NEW known \in [Targets -> Outcomes], \A r \in rs : f[r] \in Int,
         TypeOK, Tell(rs, f, before, known)
  PROVE  /\ fails' \in 0 .. MaxFails
         /\ dev' \in [Registers -> Int] /\ told' \in [Targets -> Outcomes]
         /\ \A r \in rs : told'[r] = "done" => dev'[r] = f[r]
         /\ \A r \in Registers \ rs : dev'[r] = before[r]
         /\ \A r \in Targets \ rs : told'[r] = known[r]
<1>1. PICK bad \in SUBSET {r \in rs \cap {p[1] : p \in pairs} : Fits(r, f[r])} :
        LET done == {r \in rs : Fits(r, f[r])} \ bad IN
        /\ fails + Cardinality(bad) <= MaxFails
        /\ fails' = fails + Cardinality(bad)
        /\ dev' = [r \in Registers |-> IF r \in done THEN f[r] ELSE before[r]]
        /\ told' = [r \in Targets |-> IF r \in done THEN "done"
                                      ELSE IF r \in rs THEN "failed" ELSE known[r]]
  BY DEF Tell
<1> DEFINE done == {r \in rs : Fits(r, f[r])} \ bad
<1>2. done \subseteq rs /\ rs \subseteq Targets
  BY DEF Targets
<1>3. IsFiniteSet(bad)
  BY RegistersFinite, FS_Subset
<1>4. Cardinality(bad) \in Nat
  BY <1>3, FS_CardinalityType
<1>5. fails' \in 0 .. MaxFails
  BY <1>1, <1>4, PictureAssumption DEF TypeOK
<1>6. /\ dev' = [r \in Registers |-> IF r \in done THEN f[r] ELSE before[r]]
      /\ told' = [r \in Targets |-> IF r \in done THEN "done"
                                    ELSE IF r \in rs THEN "failed" ELSE known[r]]
  BY <1>1
<1> HIDE DEF done
<1>7. dev' \in [Registers -> Int] /\ told' \in [Targets -> Outcomes]
  BY <1>2, <1>6 DEF Outcomes
<1>8. \A r \in rs : told'[r] = "done" => dev'[r] = f[r]
  BY <1>2, <1>6
<1>9. /\ \A r \in Registers \ rs : dev'[r] = before[r]
      /\ \A r \in Targets \ rs : told'[r] = known[r]
  BY <1>2, <1>6
<1> QED
  BY <1>5, <1>7, <1>8, <1>9

LEMMA KeyTypes ==
  /\ Registers \subseteq Keys /\ InfradKeys \subseteq Keys /\ Registers \subseteq Targets
  /\ "lamp" \in Targets /\ "lamp" \notin Registers /\ "saturation" \in Registers
  /\ AtStart \subseteq Registers
  /\ \A k \in Keys : File(k) \in Files
  BY DEF Registers, InfradKeys, Keys, Targets, AtStart, File, Files

LEMMA InitInv == Init => IInv
<1> SUFFICES ASSUME Init PROVE IInv
  OBVIOUS
<1>1. 0 \in 0 .. MaxFails /\ 0 \in 0 .. MaxCuts
  BY PictureAssumption
<1>2. dev \in [Registers -> Int] /\ told \in [Targets -> Outcomes]
  BY KeyTypes, PictureAssumption DEF Init, Outcomes
<1>3. Factory \in [Keys -> Int] /\ "stat" \in Keys /\ "imgctow" \in Keys /\ "imgwtoc" \in Keys /\ "saturation" \in Keys
  BY PictureAssumption DEF Keys, InfradKeys, Registers
<1>4. TypeOK
  <2>1. gbl \in [status : Int, imgCtoW_th : Int, imgWtoC_th : Int, img_saturation : Int]
    BY <1>3 DEF Init
  <2>2. srv \in [pc : {"pair", "device", "global", "save"}, key : Keys \cup {"none"}]
    BY DEF Init
  <2>3. inf \in [pc : {"open", "gone", "look", "sense", "bright", "dark", "color", "tint",
                      "off", "white", "on"}, val : Int]
    BY DEF Init
  <2> QED
    BY <1>1, <1>2, <1>3, <2>1, <2>2, <2>3 DEF Init, TypeOK
<1>5. DevInv
  BY KeyTypes DEF Init, DevInv
<1> QED
  BY <1>4, <1>5 DEF Init, IInv, SrvInv, DiskInv, GblInv, SwitchInv, Round
------------------------------------------------------------------------------
(* A pair is stored: its key is under way. *)
LEMMA SetInv ==
  ASSUME NEW p \in pairs, IInv, Set(p[1], p[2])
  PROVE  IInv'
<1>1. p[1] \in Keys /\ p[2] \in Int
  BY PictureAssumption DEF IInv, TypeOK
<1> DEFINE k == p[1]
           v == p[2]
<1> HIDE DEF k, v
<1>2. /\ srv.pc = "pair" /\ k \in Keys /\ v \in Int
      /\ mem' = [mem EXCEPT ![k] = v] /\ changed' = changed \cup {File(k)}
      /\ srv' = [pc |-> IF k \in Registers THEN "device" ELSE "global", key |-> k]
      /\ UNCHANGED <<pairs, disk, gbl, inf, light, dev, lamp, told, touched, bounds>>
  BY <1>1 DEF Set, k, v
<1>3. mem' \in [Keys -> Int] /\ changed' \subseteq Files
  BY <1>2, KeyTypes DEF IInv, TypeOK
<1>4. TypeOK'
  BY <1>2, <1>3 DEF IInv, TypeOK, bounds
<1>5. SrvInv'
  BY <1>2 DEF SrvInv, Keys
<1>6. \A j \in Keys \ {k} : mem'[j] = mem[j]
  BY <1>2 DEF IInv, TypeOK
<1>7. \A j \in Keys \ {k} : ~UnderWay(j) /\ ~UnderWay(j)'
  BY <1>2 DEF UnderWay
<1>8. UnderWay(k)' 
  BY <1>2 DEF UnderWay
<1>9. DiskInv'
  BY <1>2, <1>6 DEF IInv, DiskInv
<1>10. DevInv'
  BY <1>2, <1>6, <1>7, KeyTypes DEF IInv, DevInv, UnderWay
<1>11. GblInv'
  BY <1>2, <1>6 DEF IInv, GblInv, UnderWay, Keys, Registers, InfradKeys
<1>12. SwitchInv'
  BY <1>2 DEF IInv, SwitchInv
<1> QED
  BY <1>4, <1>5, <1>9, <1>10, <1>11, <1>12 DEF IInv

(* The register of the key is set; the infrared thread still reads the old *)
(* saturation.                                                             *)
LEMMA SetDeviceInv ==
  ASSUME IInv, SetDevice
  PROVE  IInv'
<1>1. /\ srv.pc = "device" /\ srv.key \in Registers
      /\ srv' = IF srv.key = "saturation" THEN [srv EXCEPT !.pc = "global"]
                ELSE [pc |-> "pair", key |-> "none"]
      /\ Tell({srv.key}, mem, dev, told)
      /\ touched' = (touched \/ srv.key = "saturation")
      /\ UNCHANGED <<pairs, mem, changed, disk, gbl, inf, light, lamp, cuts>>
  BY DEF SetDevice, IInv, SrvInv
<1>2. /\ fails' \in 0 .. MaxFails
      /\ dev' \in [Registers -> Int] /\ told' \in [Targets -> Outcomes]
      /\ \A r \in {srv.key} : told'[r] = "done" => dev'[r] = mem[r]
      /\ \A r \in Registers \ {srv.key} : dev'[r] = dev[r]
      /\ \A r \in Targets \ {srv.key} : told'[r] = told[r]
  <2>1. \A r \in {srv.key} : mem[r] \in Int
    BY <1>1, KeyTypes DEF IInv, TypeOK
  <2>2. {srv.key} \in SUBSET Registers
    BY <1>1
  <2>3. TypeOK /\ dev \in [Registers -> Int] /\ told \in [Targets -> Outcomes]
    BY DEF IInv, TypeOK
  <2> QED
    BY <1>1, <2>1, <2>2, <2>3, TellSets
<1>3. /\ srv' \in [pc : {"pair", "global"}, key : Keys \cup {"none"}]
      /\ srv'.pc = "global" => srv'.key = "saturation" /\ srv.key = "saturation"
      /\ srv.key = "saturation" => srv'.pc = "global" /\ srv'.key = "saturation"
  BY <1>1 DEF IInv, TypeOK
<1>4. TypeOK'
  BY <1>1, <1>2, <1>3 DEF IInv, TypeOK
<1>5. SrvInv' /\ DiskInv'
  BY <1>1, <1>3 DEF IInv, SrvInv, DiskInv
<1>6. DevInv'
  BY <1>1, <1>2, <1>3, KeyTypes DEF IInv, DevInv, UnderWay
<1>7. GblInv'
  BY <1>1, <1>3, KeyTypes DEF IInv, GblInv, UnderWay, Registers
<1>8. SwitchInv'
  <2>1. CASE srv.key = "saturation"
    BY <2>1, <1>1 DEF SwitchInv
  <2>2. CASE srv.key # "saturation"
    BY <2>2, <1>1, <1>2, KeyTypes DEF IInv, SwitchInv
  <2> QED
    BY <2>1, <2>2
<1> QED
  BY <1>4, <1>5, <1>6, <1>7, <1>8 DEF IInv

(* The infrared thread is left what it needs. *)
LEMMA SetGlobalInv ==
  ASSUME IInv, SetGlobal
  PROVE  IInv'
<1>1. /\ srv.pc = "global" /\ srv' = [pc |-> "pair", key |-> "none"]
      /\ touched' = (touched \/ srv.key = "saturation")
      /\ UNCHANGED <<pairs, mem, changed, disk, inf, light, dev, lamp, told, bounds>>
  BY DEF SetGlobal
<1>2. mem["saturation"] \in Int /\ mem["stat"] \in Int /\ mem["imgctow"] \in Int /\ mem["imgwtoc"] \in Int
  BY DEF IInv, TypeOK, Keys, Registers, InfradKeys
<1>3. srv.key \in {"saturation", "stat", "imgctow", "imgwtoc"}
  BY <1>1 DEF IInv, SrvInv, InfradKeys
<1>4. gbl' \in [status : Int, imgCtoW_th : Int, imgWtoC_th : Int, img_saturation : Int]
  BY <1>2, <1>3 DEF SetGlobal, IInv, TypeOK
<1>5. GblInv'
  BY <1>1, <1>3 DEF SetGlobal, IInv, TypeOK, GblInv, UnderWay
<1>6. TypeOK'
  BY <1>1, <1>4 DEF IInv, TypeOK, bounds
<1>7. SrvInv' /\ DiskInv'
  BY <1>1 DEF IInv, SrvInv, DiskInv
<1>8. DevInv'
  BY <1>1, <1>3 DEF IInv, DevInv, UnderWay, Registers
<1>9. SwitchInv'
  <2>1. CASE srv.key = "saturation"
    BY <2>1, <1>1 DEF SwitchInv
  <2>2. CASE srv.key # "saturation"
    <3>1. gbl'.img_saturation = gbl.img_saturation
      BY <2>2, <1>3 DEF SetGlobal, IInv, TypeOK
    <3> QED
      BY <3>1, <2>2, <1>1 DEF IInv, SwitchInv
  <2> QED
    BY <2>1, <2>2
<1> QED
  BY <1>5, <1>6, <1>7, <1>8, <1>9 DEF IInv

(* The files of the message are written. *)
LEMMA SaveInv ==
  ASSUME IInv, EndMessage \/ \E f \in Files : SaveFile(f)
  PROVE  IInv'
<1>1. /\ srv.pc \in {"pair", "save"} /\ srv' = [srv EXCEPT !.pc = srv'.pc] /\ srv'.pc \in {"pair", "save"}
      /\ UNCHANGED <<pairs, mem, gbl, inf, light, dev, lamp, told, touched, bounds>>
  BY DEF IInv, TypeOK, EndMessage, SaveFile
<1>2. disk' \in [Keys -> Int] /\ changed' \subseteq Files
  BY DEF IInv, TypeOK, EndMessage, SaveFile
<1>3. TypeOK'
  BY <1>1, <1>2 DEF IInv, TypeOK, bounds
<1>4. DiskInv'
  <2>1. CASE EndMessage
    BY <2>1 DEF EndMessage, IInv, DiskInv
  <2>2. ASSUME NEW f \in Files, SaveFile(f) PROVE DiskInv'
    BY <2>2 DEF SaveFile, IInv, DiskInv
  <2> QED
    BY <2>1, <2>2
<1> QED
  BY <1>1, <1>3, <1>4 DEF IInv, SrvInv, DevInv, GblInv, SwitchInv, UnderWay

(* Between the switchings the infrared thread changes nothing. *)
LEMMA LookInv ==
  ASSUME IInv, OpenDevices \/ Look \/ Sense \/ Compare
  PROVE  IInv'
<1>1. /\ UNCHANGED <<pairs, srvVars, gbl, light, dev, lamp, told, touched, cuts>>
      /\ inf.pc \in {"open", "look", "sense", "bright", "dark"}
      /\ inf' \in [pc : {"color", "gone", "white", "sense", "bright", "look", "dark"}, val : Int]
      /\ inf'.pc \in Round => inf.pc \in Round
  <2> DEFINE Goal == /\ UNCHANGED <<pairs, srvVars, gbl, light, dev, lamp, told, touched, cuts>>
                     /\ inf.pc \in {"open", "look", "sense", "bright", "dark"}
                     /\ inf' \in [pc : {"color", "gone", "white", "sense", "bright", "look", "dark"},
                                 val : Int]
                     /\ inf'.pc \in Round => inf.pc \in Round
  <2>1. CASE OpenDevices
    BY <2>1 DEF OpenDevices, InfStep, Round
  <2>2. CASE Look
    BY <2>2 DEF Look, InfStep, Round, bounds
  <2>3. CASE Sense
    <3>1. light \in Int
      BY PictureAssumption DEF IInv, TypeOK
    <3> QED
      BY <3>1, <2>3 DEF Sense, InfStep, Round
  <2>4. CASE Compare
    <3>1. inf.val \in Int
      BY DEF IInv, TypeOK
    <3> QED
      BY <3>1, <2>4 DEF Compare, InfStep, Round, bounds
  <2> QED
    BY <2>1, <2>2, <2>3, <2>4
<1>2. fails' \in 0 .. MaxFails
  <2>1. fails' = fails \/ (fails < MaxFails /\ fails' = fails + 1)
    BY DEF OpenDevices, InfStep, Look, Sense, Compare, bounds
  <2>2. fails \in 0 .. MaxFails /\ MaxFails \in Nat
    BY PictureAssumption DEF IInv, TypeOK
  <2> QED
    BY <2>1, <2>2
<1>3. TypeOK'
  BY <1>1, <1>2 DEF IInv, TypeOK, srvVars
<1>4. SwitchInv'
  BY <1>1 DEF IInv, SwitchInv
<1> QED
  BY <1>1, <1>3, <1>4 DEF IInv, srvVars, SrvInv, DiskInv, DevInv, GblInv, UnderWay

(* set_to_Color and set_to_White, call by call. *)
LEMMA ReadSaturationInv ==
  ASSUME IInv, ReadSaturation
  PROVE  IInv'
  BY DEF IInv, ReadSaturation, srvVars, bounds, TypeOK, SrvInv, DiskInv, DevInv, GblInv,
         SwitchInv, UnderWay, Round

LEMMA TintInv ==
  ASSUME IInv, TintColor \/ TintWhite
  PROVE  IInv'
<1> DEFINE new == IF inf.pc = "tint" THEN inf.val ELSE 0
<1>1. Tell({"saturation"}, [saturation |-> new], dev, told) /\ new \in Int
  BY DEF IInv, TypeOK, TintColor, TintWhite, InfStep
<1>2. /\ fails' \in 0 .. MaxFails
      /\ dev' \in [Registers -> Int] /\ told' \in [Targets -> Outcomes]
      /\ told'["saturation"] = "done" => dev'["saturation"] = new
      /\ \A r \in Registers \ {"saturation"} : dev'[r] = dev[r]
      /\ \A r \in Targets \ {"saturation"} : told'[r] = told[r]
  <2> DEFINE f == [saturation |-> new]
  <2>1. \A r \in {"saturation"} : f[r] \in Int
    BY <1>1
  <2>2. {"saturation"} \in SUBSET Registers
    BY KeyTypes
  <2>3. f["saturation"] = new
    OBVIOUS
  <2> HIDE DEF f
  <2>4. Tell({"saturation"}, f, dev, told)
    BY <1>1 DEF f
  <2>5. TypeOK /\ dev \in [Registers -> Int] /\ told \in [Targets -> Outcomes]
    BY DEF IInv, TypeOK
  <2>6. /\ fails' \in 0 .. MaxFails
        /\ dev' \in [Registers -> Int] /\ told' \in [Targets -> Outcomes]
        /\ \A r \in {"saturation"} : told'[r] = "done" => dev'[r] = f[r]
        /\ \A r \in Registers \ {"saturation"} : dev'[r] = dev[r]
        /\ \A r \in Targets \ {"saturation"} : told'[r] = told[r]
    BY <2>1, <2>2, <2>4, <2>5, TellSets
  <2> QED
    BY <2>3, <2>6
<1>3. /\ UNCHANGED <<pairs, srvVars, gbl, light, lamp, cuts>>
      /\ \/ inf.pc = "tint" /\ inf' = [pc |-> "off", val |-> 0] /\ touched' = touched
         \/ inf.pc = "white" /\ inf' = [pc |-> "on", val |-> 0] /\ touched' = FALSE
  BY DEF TintColor, TintWhite, InfStep
<1> HIDE DEF new
<1>4. TypeOK'
  <2>1. inf' \in [pc : {"off", "on"}, val : Int]
    BY <1>3
  <2>2. touched' \in BOOLEAN
    BY <1>3 DEF IInv, TypeOK
  <2> QED
    BY <2>1, <2>2, <1>2, <1>3 DEF IInv, TypeOK, srvVars
<1>5. DevInv'
  BY <1>2, <1>3, KeyTypes DEF IInv, DevInv, srvVars, UnderWay
<1>6. SwitchInv'
  BY <1>2, <1>3 DEF IInv, SwitchInv, Round, new
<1> QED
  BY <1>3, <1>4, <1>5, <1>6 DEF IInv, srvVars, SrvInv, DiskInv, GblInv, UnderWay

LEMMA LampInv ==
  ASSUME IInv, LampOff \/ LampOn
  PROVE  IInv'
<1>1. /\ inf.pc \in {"on", "off"} /\ inf' = [pc |-> "look", val |-> 0]
      /\ \/ lamp' = inf.pc /\ told' = [told EXCEPT !["lamp"] = "done"] /\ fails' = fails
         \/ /\ fails < MaxFails /\ fails' = fails + 1
            /\ told' = [told EXCEPT !["lamp"] = "failed"] /\ lamp' = lamp
      /\ UNCHANGED <<pairs, srvVars, gbl, light, dev, touched, cuts>>
  BY DEF LampOff, LampOn, SwitchLamp, InfStep
<1>2. /\ fails' \in 0 .. MaxFails /\ lamp' \in {"on", "off"}
      /\ told' \in [Targets -> Outcomes] /\ \A r \in Registers : told'[r] = told[r]
      /\ told'["lamp"] = "done" => lamp' = inf.pc
  BY <1>1, KeyTypes, PictureAssumption DEF IInv, TypeOK, Outcomes
<1>3. TypeOK'
  BY <1>1, <1>2 DEF IInv, TypeOK, srvVars
<1>4. DevInv'
  BY <1>1, <1>2 DEF IInv, DevInv, srvVars, UnderWay
<1>5. SwitchInv'
  BY <1>1, <1>2, KeyTypes DEF IInv, SwitchInv, Round
<1> QED
  BY <1>1, <1>3, <1>4, <1>5 DEF IInv, srvVars, SrvInv, DiskInv, GblInv, UnderWay

(* After a power cut init_system and init_isp start from the files. *)
LEMMA PowerCutInv ==
  ASSUME IInv, PowerCut
  PROVE  IInv'
<1> DEFINE start == [r \in Registers |-> PowerOn]
           unknown == [r \in Targets |-> "never"]
<1>1. Tell(AtStart, disk, start, unknown) /\ StartFrom(disk)
  BY DEF PowerCut
<1>2. start \in [Registers -> Int] /\ unknown \in [Targets -> Outcomes]
  BY PictureAssumption DEF Outcomes
<1>3. \A r \in AtStart : disk[r] \in Int
  BY KeyTypes DEF IInv, TypeOK
<1>4. \A r \in Targets \ AtStart : unknown[r] = "never"
  OBVIOUS
<1> HIDE DEF start, unknown
<1>5. /\ fails' \in 0 .. MaxFails
      /\ dev' \in [Registers -> Int] /\ told' \in [Targets -> Outcomes]
      /\ \A r \in AtStart : told'[r] = "done" => dev'[r] = disk[r]
      /\ \A r \in Targets \ AtStart : told'[r] = "never"
  BY <1>1, <1>2, <1>3, <1>4, KeyTypes, TellSets DEF IInv
<1>6. /\ mem' = disk /\ changed' = {} /\ srv' = [pc |-> "pair", key |-> "none"]
      /\ gbl' = [status |-> disk["stat"], imgCtoW_th |-> disk["imgctow"],
                 imgWtoC_th |-> disk["imgwtoc"], img_saturation |-> disk["saturation"]]
      /\ inf' = [pc |-> "open", val |-> 0] /\ lamp' = "off" /\ touched' = FALSE
      /\ cuts' \in 0 .. MaxCuts /\ UNCHANGED <<pairs, disk, light>>
  BY PictureAssumption DEF PowerCut, StartFrom, IInv, TypeOK
<1>7. disk["saturation"] \in Int /\ disk["stat"] \in Int /\ disk["imgctow"] \in Int /\ disk["imgwtoc"] \in Int
  BY DEF IInv, TypeOK, Keys, Registers, InfradKeys
<1>8. TypeOK'
  <2>1. gbl' \in [status : Int, imgCtoW_th : Int, imgWtoC_th : Int, img_saturation : Int]
    BY <1>6, <1>7
  <2>2. /\ srv' \in [pc : {"pair", "device", "global", "save"}, key : Keys \cup {"none"}]
        /\ inf' \in [pc : {"open"}, val : Int]
    BY <1>6
  <2> QED
    BY <1>5, <1>6, <2>1, <2>2 DEF IInv, TypeOK
<1>9. DevInv'
  BY <1>5, <1>6, KeyTypes DEF DevInv
<1> QED
  BY <1>6, <1>8, <1>9 DEF IInv, SrvInv, DiskInv, GblInv, SwitchInv, Round

LEMMA NextInv == IInv /\ [Next]_vars => IInv'
<1> SUFFICES ASSUME IInv, [Next]_vars PROVE IInv'
  OBVIOUS
<1>1. CASE LightChanges
  BY <1>1 DEF LightChanges, IInv, srvVars, bounds, TypeOK, SrvInv, DiskInv, DevInv, GblInv,
              SwitchInv, UnderWay
<1>2. CASE UNCHANGED vars
  BY <1>2 DEF vars, IInv, srvVars, bounds, TypeOK, SrvInv, DiskInv, DevInv, GblInv,
              SwitchInv, UnderWay
<1>3. ASSUME NEW p \in pairs, Set(p[1], p[2]) PROVE IInv'
  BY <1>3, SetInv
<1> QED
  BY <1>1, <1>2, <1>3, SetDeviceInv, SetGlobalInv, SaveInv, LookInv, ReadSaturationInv,
     TintInv, LampInv, PowerCutInv DEF Next, AvServer, Infrad
------------------------------------------------------------------------------
(* The theorems *)

(* The invariant holds in every state of the program. *)
THEOREM Invariance == Spec => []IInv
  BY InitInv, NextInv, PTL DEF Spec

(* Between the pairs of a message registers and infrared thread have what  *)
(* processMsg stored.                                                      *)
THEOREM SettingsAreApplied == Spec => []SettingsApplied
<1>1. IInv => SettingsApplied
  <2> SUFFICES ASSUME IInv PROVE SettingsApplied
    OBVIOUS
  <2>1. ASSUME srv.pc \in {"pair", "save"}
        PROVE  gbl = [status |-> mem["stat"], imgCtoW_th |-> mem["imgctow"],
                      imgWtoC_th |-> mem["imgwtoc"], img_saturation |-> mem["saturation"]]
    BY <2>1 DEF IInv, TypeOK, GblInv, UnderWay
  <2> QED
    BY <2>1 DEF IInv, DevInv, UnderWay, SettingsApplied, PictureFollows
<1> QED
  BY <1>1, Invariance, PTL

(* The two calls of set_to_Color and set_to_White end in a picture that    *)
(* fits the lamp.                                                          *)
THEOREM SwitchesTogether == Spec => []SwitchedTogether
<1>1. IInv => SwitchedTogether
  BY DEF IInv, SwitchInv, SwitchedTogether
<1> QED
  BY <1>1, Invariance, PTL

(* What was handled and saved survives a power cut (init_isp).             *)
THEOREM RestartsKeepPicture == Spec => RestartKeepsPicture
<1>1. IInv /\ [Next]_vars =>
        [PowerCut /\ srv.pc = "pair" /\ changed = {} =>
           \A r \in Registers \ NotRestored :
             told[r] = "done" /\ told'[r] # "failed" => dev'[r] = dev[r]]_vars
  <2> SUFFICES ASSUME IInv, PowerCut, srv.pc = "pair", changed = {},
                      NEW r \in Registers \ NotRestored, told[r] = "done", told'[r] # "failed"
               PROVE  dev'[r] = dev[r]
    OBVIOUS
  <2>1. r \in AtStart /\ r # "saturation" /\ r \in Keys
    BY KeyTypes DEF Registers, NotRestored, AtStart
  <2>2. dev[r] = mem[r] /\ mem[r] = disk[r]
    BY <2>1 DEF IInv, DevInv, DiskInv, UnderWay
  <2>3. told'[r] = "done" /\ dev'[r] = disk[r]
    <3>1. PICK bad \in SUBSET {k \in AtStart \cap {p[1] : p \in pairs} : Fits(k, disk[k])} :
            LET done == {k \in AtStart : Fits(k, disk[k])} \ bad IN
            /\ dev' = [k \in Registers |-> IF k \in done THEN disk[k]
                                          ELSE [q \in Registers |-> PowerOn][k]]
            /\ told' = [k \in Targets |-> IF k \in done THEN "done"
                                          ELSE IF k \in AtStart THEN "failed"
                                          ELSE [q \in Targets |-> "never"][k]]
      BY DEF PowerCut, Tell
    <3> QED
      BY <3>1, <2>1, KeyTypes
  <2> QED
    BY <2>2, <2>3
<1> QED
  BY <1>1, Invariance, PTL DEF Spec, RestartKeepsPicture
=============================================================================
