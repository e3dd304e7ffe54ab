-------------------------------- MODULE Picture --------------------------------
(***************************************************************************)
(* The picture: colour and infrared lamp (src/src/infrad_ctrl.c), the      *)
(* registers of the image processor (src/src/isp.c) and the messages that  *)
(* set them (src/src/processMsg.c).                                        *)
(*                                                                         *)
(* Two threads write the registers.  av_server handles one pair of a       *)
(* message at a time: it stores the value, tells the image processor, and  *)
(* leaves what the infrared thread needs in g_stInfrad_ctl                 *)
(* (src/src/av_globle.c), whose fields are read and written one by one     *)
(* under its mutex.  The infrared thread looks every two seconds at the    *)
(* forced mode or at the light and switches saturation and lamp together,  *)
(* in two calls.  A power cut leaves the files, from which init_system and *)
(* init_isp set the registers again.                                       *)
(*                                                                         *)
(* Abstracted: the reset button, whose message reset_sys overwrites with   *)
(* "#" before it is sent, so that av_server finds no pair in it; the white *)
(* balance gains, which are stored and given to no device; the copies that *)
(* init_isp and init_gbl take.  External: the registers and the lamp after *)
(* power on (PowerOn), which calls to the driver fail (MaxFails).          *)
(***************************************************************************)
EXTENDS Integers, FiniteSets

CONSTANTS
  Messages,    \* the clients of a behaviour send the pairs of one of these
  Factory,     \* the values in the files at the first start
  PowerOn,     \* external: what a register holds after power on
  Lights,      \* the readings of the light sensor
  MaxFails,    \* bound: calls to a driver that fail
  MaxCuts      \* bound: power cuts

(* What the keys set: registers of the image processor, and thresholds and *)
(* mode of the infrared thread.                                            *)
Registers  == {"FW", "brightness", "saturation", "hue", "contrast", "flip",
               "scene", "mirror"}
InfradKeys == {"imgctow", "imgwtoc", "stat"}
Keys       == Registers \cup InfradKeys
Targets    == Registers \cup {"lamp"}

ASSUME PictureAssumption ==
  /\ \A m \in Messages : m \subseteq Keys \X Int
  /\ Factory \in [Keys -> Int] /\ PowerOn \in Int
  /\ Lights \subseteq Nat /\ Lights # {}
  /\ MaxFails \in Nat /\ MaxCuts \in Nat

VARIABLES
  pairs,    \* the pairs the clients send in this behaviour
  mem,      \* g_iFw, g_stImg_file and g_stInfrad_file
  changed,  \* file_changed_flag
  disk,     \* the three files
  srv,      \* av_server: where it is, and the key it handles
  gbl,      \* g_stInfrad_ctl
  inf,      \* the infrared thread: where it is, the value it will use
  light,    \* what the sensor sees
  dev,      \* the registers
  lamp,
  told,     \* history: how the last attempt to set each of them went
  touched,  \* history: a saturation was set since the lamp was last switched
  fails, cuts

bounds  == <<fails, cuts>>
srvVars == <<mem, changed, disk, srv>>
vars == <<pairs, srvVars, gbl, inf, light, dev, lamp, told, touched, bounds>>

(* The files in the order of File_array. *)
Files   == 1 .. 3
File(k) == CASE k = "FW" -> 1 [] k = "stat" -> 3 [] OTHER -> 2

(* What a branch of processMsg stores, and what a function of isp.c passes *)
(* on to the driver.                                                       *)
Storable(k, v) == k = "FW" => v \in {50, 60}
Fits(r, v) == CASE r = "mirror" -> TRUE
                [] r = "FW"     -> v \in {50, 60}
                [] r = "scene"  -> v \in 0 .. 5
                [] OTHER        -> v \in 0 .. 255

(* Mutant: the sharpness, which is kept in flip, is forgotten. *)
AtStartNoFlip == {"FW", "brightness", "saturation", "hue", "contrast"}

(* What init_isp sets: not the scene, not the mirror. *)
AtStart == {"FW", "brightness", "saturation", "hue", "contrast", "flip"}

(* The outcomes of setting the registers in rs to f, some of them with a   *)
(* driver that fails (bound: only for what the clients set); nobody looks  *)
(* at the results.                                                         *)
Tell(rs, f, before, known) ==
  \E bad \in SUBSET {r \in rs \cap {p[1] : p \in pairs} : Fits(r, f[r])} :
    LET done == {r \in rs : Fits(r, f[r])} \ bad IN
    /\ fails + Cardinality(bad) <= MaxFails
    /\ fails' = fails + Cardinality(bad)
    /\ dev' = [r \in Registers |-> IF r \in done THEN f[r] ELSE before[r]]
    /\ told' = [r \in Targets |-> IF r \in done THEN "done"
                                  ELSE IF r \in rs THEN "failed" ELSE known[r]]

(* init_system, init_isp and init_gbl, after power on. *)
StartFrom(stored) ==
  /\ mem' = stored /\ changed' = {} /\ srv' = [pc |-> "pair", key |-> "none"]
  /\ gbl' = [status |-> stored["stat"], imgCtoW_th |-> stored["imgctow"],
             imgWtoC_th |-> stored["imgwtoc"], img_saturation |-> stored["saturation"]]
  /\ inf' = [pc |-> "open", val |-> 0]
  /\ lamp' = "off" /\ touched' = FALSE

Init ==
  /\ pairs \in Messages
  /\ mem = Factory /\ disk = Factory /\ changed = {}
  /\ srv = [pc |-> "pair", key |-> "none"]
  /\ gbl = [status |-> Factory["stat"], imgCtoW_th |-> Factory["imgctow"],
            imgWtoC_th |-> Factory["imgwtoc"], img_saturation |-> Factory["saturation"]]
  /\ inf = [pc |-> "open", val |-> 0]
  /\ light \in Lights /\ lamp = "off" /\ touched = FALSE
  /\ dev = [r \in Registers |-> IF r \in AtStart /\ Fits(r, Factory[r])
                                THEN Factory[r] ELSE PowerOn]
  /\ told = [r \in Targets |-> IF r \notin AtStart THEN "never"
                               ELSE IF Fits(r, Factory[r]) THEN "done" ELSE "failed"]
  /\ fails = 0 /\ cuts = 0

------------------------------------------------------------------------------
(* av_server: processMsg *)

(* A pair with the value the setting has is skipped. *)
Set(k, v) ==
  /\ srv.pc = "pair" /\ Storable(k, v) /\ mem[k] # v
  /\ mem' = [mem EXCEPT ![k] = v] /\ changed' = changed \cup {File(k)}
  /\ srv' = [pc |-> IF k \in Registers THEN "device" ELSE "global", key |-> k]
  /\ UNCHANGED <<pairs, disk, gbl, inf, light, dev, lamp, told, touched, bounds>>

SetDevice ==
  /\ srv.pc = "device"
  /\ srv' = IF srv.key = "saturation" THEN [srv EXCEPT !.pc = "global"]
            ELSE [pc |-> "pair", key |-> "none"]
  /\ Tell({srv.key}, mem, dev, told)
  /\ touched' = (touched \/ srv.key = "saturation")
  /\ UNCHANGED <<pairs, mem, changed, disk, gbl, inf, light, lamp, cuts>>

(* Mutant: the infrared thread is not told of the saturation. *)
SetGlobalNot ==
  /\ srv.pc = "global" /\ srv' = [pc |-> "pair", key |-> "none"]
  /\ gbl' = CASE srv.key = "saturation" -> gbl
              [] srv.key = "imgctow"    -> [gbl EXCEPT !.imgCtoW_th = mem["imgctow"]]
              [] srv.key = "imgwtoc"    -> [gbl EXCEPT !.imgWtoC_th = mem["imgwtoc"]]
              [] srv.key = "stat"       -> [gbl EXCEPT !.status = mem["stat"]]
  /\ touched' = (touched \/ srv.key = "saturation")
  /\ UNCHANGED <<pairs, mem, changed, disk, inf, light, dev, lamp, told, bounds>>

(* set_Img_saturation, set_imgCtoW, set_imgWtoC, set_infradstatus *)
SetGlobal ==
  /\ srv.pc = "global" /\ srv' = [pc |-> "pair", key |-> "none"]
  /\ gbl' = CASE srv.key = "saturation" -> [gbl EXCEPT !.img_saturation = mem["saturation"]]
              [] srv.key = "imgctow"    -> [gbl EXCEPT !.imgCtoW_th = mem["imgctow"]]
              [] srv.key = "imgwtoc"    -> [gbl EXCEPT !.imgWtoC_th = mem["imgwtoc"]]
              [] srv.key = "stat"       -> [gbl EXCEPT !.status = mem["stat"]]
  /\ touched' = (touched \/ srv.key = "saturation")
  /\ UNCHANGED <<pairs, mem, changed, disk, inf, light, dev, lamp, told, bounds>>

EndMessage ==
  /\ srv.pc = "pair" /\ changed # {} /\ srv' = [srv EXCEPT !.pc = "save"]
  /\ UNCHANGED <<pairs, mem, changed, disk, gbl, inf, light, dev, lamp, told, touched, bounds>>

SaveFile(f) ==
  /\ srv.pc = "save" /\ f \in changed /\ \A g \in changed : f <= g
  /\ disk' = [k \in Keys |-> IF File(k) = f THEN mem[k] ELSE disk[k]]
  /\ changed' = changed \ {f}
  /\ srv' = IF changed' = {} THEN [srv EXCEPT !.pc = "pair"] ELSE srv
  /\ UNCHANGED <<pairs, mem, gbl, inf, light, dev, lamp, told, touched, bounds>>

------------------------------------------------------------------------------
(* The infrared thread: infrad_ctrl *)

InfStep(from, to) ==
  /\ inf.pc = from
  /\ inf' = [pc |-> to, val |-> IF to = "dark" THEN inf.val ELSE 0]

(* One of the two devices cannot be opened: there is no infrared thread.   *)
(* Otherwise it starts with the colour picture.                            *)
OpenDevices ==
  /\ \/ InfStep("open", "color")
     \/ fails < MaxFails /\ InfStep("open", "gone")
  /\ fails' = IF inf'.pc = "gone" THEN fails + 1 ELSE fails
  /\ UNCHANGED <<pairs, srvVars, gbl, light, dev, lamp, told, touched, cuts>>

(* getInfradStatue: any number but 1 and 2 is automatic. *)
Look ==
  /\ InfStep("look", CASE gbl.status = 1 -> "color"
                       [] gbl.status = 2 -> "white"
                       [] OTHER          -> "sense")
  /\ UNCHANGED <<pairs, srvVars, gbl, light, dev, lamp, told, touched, bounds>>

Sense ==
  /\ inf.pc = "sense"
  /\ \/ inf' = [pc |-> "bright", val |-> light] /\ UNCHANGED fails
     \/ /\ fails < MaxFails /\ fails' = fails + 1
        /\ InfStep("sense", "look")
  /\ UNCHANGED <<pairs, srvVars, gbl, light, dev, lamp, told, touched, cuts>>

(* Mutant: the two thresholds are mixed up. *)
CompareSwapped ==
  /\ \/ InfStep("bright", IF inf.val > gbl.imgCtoW_th THEN "color" ELSE "dark")
     \/ InfStep("dark", IF inf.val < gbl.imgWtoC_th THEN "white" ELSE "look")
  /\ UNCHANGED <<pairs, srvVars, gbl, light, dev, lamp, told, touched, bounds>>

(* Between the thresholds the picture stays as it is. *)
Compare ==
  /\ \/ InfStep("bright", IF inf.val > gbl.imgWtoC_th THEN "color" ELSE "dark")
     \/ InfStep("dark", IF inf.val < gbl.imgCtoW_th THEN "white" ELSE "look")
  /\ UNCHANGED <<pairs, srvVars, gbl, light, dev, lamp, told, touched, bounds>>

(* set_to_Color: getImg_saturation, adjust_saturation, INFRAD_SET_OFF *)
ReadSaturation ==
  /\ inf.pc = "color"
  /\ inf' = [pc |-> "tint", val |-> gbl.img_saturation] /\ touched' = FALSE
  /\ UNCHANGED <<pairs, srvVars, gbl, light, dev, lamp, told, bounds>>

TintColor ==
  /\ InfStep("tint", "off")
  /\ Tell({"saturation"}, [saturation |-> inf.val], dev, told)
  /\ UNCHANGED <<pairs, srvVars, gbl, light, lamp, touched, cuts>>

(* The ioctl for the lamp may fail as well. *)
SwitchLamp(from, to) ==
  /\ InfStep(from, "look")
  /\ \/ /\ lamp' = to /\ told' = [told EXCEPT !["lamp"] = "done"]
        /\ UNCHANGED fails
     \/ /\ fails < MaxFails /\ fails' = fails + 1
        /\ told' = [told EXCEPT !["lamp"] = "failed"]
        /\ UNCHANGED lamp
  /\ UNCHANGED <<pairs, srvVars, gbl, light, dev, touched, cuts>>

LampOff == SwitchLamp("off", "off")

(* Mutant: the picture stays coloured. *)
TintWhiteNot ==
  /\ InfStep("white", "on") /\ touched' = FALSE
  /\ UNCHANGED <<pairs, srvVars, gbl, light, dev, lamp, told, bounds>>

(* set_to_White: adjust_saturation(0), INFRAD_SET_ON *)
TintWhite ==
  /\ InfStep("white", "on") /\ touched' = FALSE
  /\ Tell({"saturation"}, [saturation |-> 0], dev, told)
  /\ UNCHANGED <<pairs, srvVars, gbl, light, lamp, cuts>>

LampOn == SwitchLamp("on", "on")

------------------------------------------------------------------------------
LightChanges ==
  /\ light' \in Lights \ {light}
  /\ UNCHANGED <<pairs, srvVars, gbl, inf, dev, lamp, told, touched, bounds>>

PowerCut ==
  /\ cuts < MaxCuts /\ cuts' = cuts + 1
  /\ StartFrom(disk)
  /\ Tell(AtStart, disk, [r \in Registers |-> PowerOn], [r \in Targets |-> "never"])
  /\ UNCHANGED <<pairs, disk, light>>

AvServer == SetDevice \/ SetGlobal \/ EndMessage \/ \E f \in Files : SaveFile(f)
Infrad   == \/ OpenDevices \/ Look \/ Sense \/ Compare
            \/ ReadSaturation \/ TintColor \/ LampOff \/ TintWhite \/ LampOn

Next == \/ \E p \in pairs : Set(p[1], p[2])
        \/ AvServer \/ Infrad \/ LightChanges \/ PowerCut

Spec == Init /\ [][Next]_vars

(* Both threads go on, whatever the clients and the light do. *)
FairSpec == Spec /\ WF_vars(AvServer) /\ WF_vars(Infrad)
------------------------------------------------------------------------------
(* Properties *)

Outcomes == {"never", "done", "failed"}

TypeOK ==
  /\ pairs \in Messages
  /\ mem \in [Keys -> Int] /\ disk \in [Keys -> Int] /\ changed \subseteq Files
  /\ srv \in [pc : {"pair", "device", "global", "save"}, key : Keys \cup {"none"}]
  /\ gbl \in [status : Int, imgCtoW_th : Int, imgWtoC_th : Int, img_saturation : Int]
  /\ inf \in [pc : {"open", "gone", "look", "sense", "bright", "dark", "color", "tint",
                    "off", "white", "on"}, val : Int]
  /\ light \in Lights /\ lamp \in {"on", "off"} /\ touched \in BOOLEAN
  /\ dev \in [Registers -> Int] /\ told \in [Targets -> Outcomes]
  /\ fails \in 0 .. MaxFails /\ cuts \in 0 .. MaxCuts

(* Between the pairs of a message every register holds the setting, unless *)
(* the driver failed or the value is none it takes, or it was not set at   *)
(* the start; what the infrared thread reads is the setting, always.       *)
PictureFollows ==
  srv.pc \in {"pair", "save"} =>
    /\ \A r \in Registers \ {"saturation"} : told[r] = "done" => dev[r] = mem[r]
    /\ gbl = [status |-> mem["stat"], imgCtoW_th |-> mem["imgctow"],
              imgWtoC_th |-> mem["imgwtoc"], img_saturation |-> mem["saturation"]]

(* The settings are stored as what they are, and applied. *)
SettingsApplied == TypeOK /\ PictureFollows

(* A power cut after a message was handled changes nothing in the picture: *)
(* what was saved is what was set, and init_isp sets it again.  The scene  *)
(* and the mirror are not set again, and a white picture starts coloured.  *)
NotRestored == {"scene", "mirror", "saturation"}
RestartKeepsPicture ==
  [][PowerCut /\ srv.pc = "pair" /\ changed = {} =>
       \A r \in Registers \ NotRestored :
         told[r] = "done" /\ told'[r] # "failed" => dev'[r] = dev[r]]_vars

(* Saturation and lamp are switched in two calls and the saturation is set *)
(* by two threads.  Whenever the infrared thread has gone round, the lamp  *)
(* is on with a picture in black and white and off with the saturation     *)
(* that was set, unless a call failed or a client has set the saturation   *)
(* since: then the picture is wrong until the next switching, which        *)
(* between the thresholds does not come.                                   *)
Round == {"look", "sense", "bright", "dark"}
SwitchedTogether ==
  inf.pc \in Round /\ ~touched /\ told["saturation"] = "done" /\ told["lamp"] = "done" =>
    dev["saturation"] = IF lamp = "on" THEN 0 ELSE gbl.img_saturation

(* What a forced mode asks for, and in the automatic mode the light; with  *)
(* crossed thresholds it may be above the one and below the other.         *)
AtLight == gbl.status \notin {1, 2}
Bright  == AtLight /\ light > gbl.imgWtoC_th
Dark    == AtLight /\ light <= gbl.imgWtoC_th /\ light < gbl.imgCtoW_th
White   == lamp = "on" /\ dev["saturation"] = 0
Colour  == /\ lamp = "off"
           /\ \/ dev["saturation"] = gbl.img_saturation
              \/ ~Fits("saturation", gbl.img_saturation)
NoInfrad == inf.pc = "gone"

(* However the clients' messages and failing calls interfere, the picture  *)
(* comes to what the mode or the light asks for, if it goes on asking.     *)
NightFollows ==
  /\ gbl.status = 2 ~> (White \/ gbl.status # 2 \/ NoInfrad)
  /\ \A l \in Lights : Dark /\ light = l ~> (White \/ ~Dark \/ light # l \/ NoInfrad)
DayFollows ==
  /\ gbl.status = 1 ~> (Colour \/ gbl.status # 1 \/ NoInfrad)
  /\ \A l \in Lights : Bright /\ light = l ~> (Colour \/ ~Bright \/ light # l \/ NoInfrad)

(* Day and night, forced or not, come to the picture in the end. *)
LightFollowed == NightFollows /\ DayFollows
=============================================================================
