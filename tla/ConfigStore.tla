------------------------------ MODULE ConfigStore ------------------------------
(***************************************************************************)
(* The settings of the camera: processMsg (src/src/processMsg.c), which    *)
(* handles one message of key=value pairs at a time, init_system and       *)
(* do_reset (src/src/init_system.c), which read the files the settings are *)
(* kept in, and what a setting is passed on to: the encoder, the overlay   *)
(* process, the recorder and the network interface.                        *)
(*                                                                         *)
(* A place <<file, key, index>> is one field of the structures g_st*: mem  *)
(* is the structure, disk the file it is saved in.  The branches of the    *)
(* switch over the keys are nearly all the same, so they are tables here:  *)
(* what file and field a key belongs to (KeysOf, Home), and what a Set     *)
(* stores (Norm).                                                          *)
(*                                                                         *)
(* Abstracted: a text or number is an integer; what a Get answers, as only *)
(* that of the MAC changes anything kept here; the image, PTZ and port     *)
(* settings reach the device by a call that keeps no state here; start_ntp *)
(* is left out; the address is a fixed one, not from DHCP; a stream is     *)
(* enabled.  Not here: users, presets (and their file in a reset) and PTZ  *)
(* movements.  External: write_cfg_file, default_setting and mv replace a  *)
(* file at once or leave it as it was; the boot scripts configure the      *)
(* interface from if.cfg.  Clients give an index before a key that needs   *)
(* one (the code uses index -1 otherwise).                                 *)
(*                                                                         *)
(* The code hardly looks at the result of a write, a connect, a send or an *)
(* ioctl.  With Failures each may fail, and past records what was lost     *)
(* then: the properties hold but for that.                                 *)
(***************************************************************************)
EXTENDS Integers, FiniteSets, FiniteSetsExt, Sequences, SequencesExt

CONSTANTS
  KeyGroups,  \* sets of keys: the clients of a behaviour use the keys of one
  ValuesOf(_), \* the numbers they set a key to
  Subs,       \* the streams of a channel
  Regions,    \* the overlay regions, 0 .. REGION_NUM - 1
  Areas,      \* indices of motion areas, masks and access points
  Failures    \* files, sockets and the encoder's ioctls may fail

------------------------------------------------------------------------------
(* The keys *)

EncSource == {"e_denoise", "e_input_system", "e_de_interlace"}
EncStream == {"e_Stream_enable", "e_enc_type"}
EncLive   == {"e_frame_rate", "e_bit_rate", "e_ip_interval"}
EncSize   == {"e_width", "e_height"}
EncRate   == {"e_rate_ctl_type", "e_target_rate_max", "e_reaction_delay_max",
              "e_init_quant", "e_max_quant", "e_min_quant"}
EncRoi    == {"e_mjpeg_quality", "e_enable_roi", "e_roi_x", "e_roi_y", "e_roi_w", "e_roi_h"}
EncKeys   == EncSource \cup EncStream \cup EncLive \cup EncSize \cup EncRate \cup EncRoi

ImgTone    == {"e_brightness", "e_saturation", "e_contrast", "e_hue", "e_scene", "e_flip"}
ImgBalance == {"e_mirror", "e_imgctow", "e_imgwtoc", "e_wb_r", "e_wb_g", "e_wb_b"}
OsdKeys    == {"e_osd_region_name", "e_osd_enable", "e_osd_x", "e_osd_y", "e_osd_w", "e_osd_h"}
AddrKeys   == {"e_net_ip", "e_net_macaddr"}
NetKeys    == AddrKeys \cup {"e_net_dhcpflag", "e_net_netmask", "e_net_gateway",
                "e_net_dnsstat", "e_net_fdnsip", "e_net_sdnsip", "e_net_nettype"}
PortKeys   == {"e_port_httpport", "e_port_rtspport"}
DdnsKeys   == {"e_ddns_d3thenable", "e_ddns_d3thservice", "e_ddns_d3thuname",
               "e_ddns_d3thpasswd", "e_ddns_domain"}
WfKeys     == {"e_wf_enable", "e_wf_ssid", "e_wf_auth", "e_wf_key", "e_wf_enc", "e_wf_mode"}
WfSearch   == {"e_wfsearch_channel", "e_wfsearch_rssi", "e_wfsearch_essid",
               "e_wfsearch_enc", "e_wfsearch_auth", "e_wfsearch_net"}
PtzComKeys == {"e_ptz_protocal", "e_ptz_address", "e_ptz_baud", "e_ptz_databit",
               "e_ptz_stopbit", "e_ptz_check"}
MdAlarm    == {"e_md_io_alarm_enable", "e_md_io_alarm_flag", "e_md_email_switch",
               "e_md_snap_switch", "e_md_record_switch", "e_md_ftp_switch",
               "e_md_relay_switch", "e_md_relay_time", "e_md_schedule_type"}
MdSchedule == {"e_md_schedule_ename", "e_md_schedule_etm",
               "e_md_schedule_workday_Tend", "e_md_schedule_workday_Tstart",
               "e_md_schedule_workend_Tstart", "e_md_schedule_workend_Tend",
               "e_md_schedule_week_Tstart", "e_md_schedule_week_Tend"}
MdArea     == {"e_md_area_eable", "e_md_area_s", "e_md_area_method", "e_md_area_x",
               "e_md_area_y", "e_md_area_w", "e_md_area_h"}
SnapKeys   == {"e_snapT_enable", "e_snapT_interval", "e_snapT_type"}
FtpKeys    == {"e_ft_serverip", "e_ft_port", "e_ft_username", "e_ft_password",
               "e_ft_mode", "e_ft_dirname"}
SmtpKeys   == {"e_smtp_serverip", "e_smtp_port", "e_smtp_sslflag", "e_smtp_logintype",
               "e_smtp_username", "e_smtp_password", "e_smtp_from", "e_smtp_to",
               "e_smtp_subject", "e_smtp_text"}
MaskKeys   == {"e_vdmask_enable", "e_vdmask_x", "e_vdmask_y", "e_vdmask_w", "e_vdmask_h",
               "e_vdmask_color"}
TimeKeys   == {"e_time_Zone", "e_time_dstmode", "e_time_ntpenable", "e_time_ntpserver",
               "e_time_ntpinterval", "e_time_systime"}
SysKeys    == {"e_sys_model", "e_sys_hdversion", "e_sys_swversion",
               "e_sys_devname", "e_sys_startdate", "e_sys_runtimes", "e_sys_sdstatus",
               "e_sys_sdfreespace", "e_sys_sdtotalspace"}
CloudKeys  == {"e_cld_enable", "e_cld_id", "e_cld_pw", "e_cld_srv_prt", "e_cld_srv_addr",
               "e_cld_dev_name"}
RecKeys    == {"e_rec_enable", "e_rec_len", "e_rec_time"}

(* The file each key is kept in; the encoder's has one file per channel. *)
KeysOf ==
  [ENC_FW |-> {"e_FW"},            IMAGE_ATTR |-> ImgTone \cup ImgBalance,
   OVERLAY |-> OsdKeys,            INFRARED |-> {"e_infrad_stat"},
   NET |-> NetKeys,                PORT |-> PortKeys,
   UPNP |-> {"e_upnp_upmenable"},  WF |-> WfKeys,
   DDNS |-> DdnsKeys,              PTZCOM |-> PtzComKeys,
   MD |-> MdAlarm \cup MdSchedule \cup MdArea, SNAPTIMER |-> SnapKeys,
   FTP |-> FtpKeys,                SMTP |-> SmtpKeys,
   VIDMASK |-> MaskKeys,           SYS |-> SysKeys,
   SYS_TIMER |-> TimeKeys,         CLOUD |-> CloudKeys,
   REC |-> RecKeys,                PROTOCOL |-> {"e_sys_protocol"},
   WFSEARCH |-> WfSearch]

FileOf(k) == CHOOSE f \in DOMAIN KeysOf : k \in KeysOf[f]

(* The order of the enumeration of the files, in which they are saved. *)
FileOrder == <<"ENC_0", "ENC_1", "ENC_FW", "IMAGE_ATTR", "OVERLAY", "INFRARED", "NET",
               "PORT", "UPNP", "WF", "DDNS", "PTZCOM", "MD", "SNAPTIMER", "FTP", "SMTP",
               "VIDMASK", "SYS", "SYS_TIMER", "CLOUD", "REC">>
ResetTable == <<"ENC_0", "ENC_1", "OVERLAY", "CLOUD">>

Indexed   == WfSearch \cup MdArea \cup MaskKeys
ReadOnly  == EncSize \cup WfSearch \cup SysKeys
Settings  == (EncKeys \cup UNION Range(KeysOf)) \ ReadOnly

(* A text or a number is an integer. *)
ASSUME ValuesAssumption == \A k \in Settings : ValuesOf(k) \subseteq Int

(* What a Set stores: only these keys check or change their value (and the *)
(* protocol, see SetProtocol).                                             *)
Admissible(k, v) == k = "e_FW" => v \in {50, 60}

Clamp(lo, hi, v) == IF v > hi THEN hi ELSE IF v < lo THEN lo ELSE v

Norm(k, v, chn) ==
  CASE k = "e_frame_rate" -> Clamp(4, 150, v)
    [] k = "e_bit_rate"   -> Clamp(IF chn = 0 THEN 512 ELSE 100, 5000, v)
    [] k = "e_rec_enable" -> IF v = 0 THEN 0 ELSE 1
    [] k = "e_cld_enable" -> IF v > 0 THEN 1 ELSE 0
    [] OTHER -> v

(* The constants below stand for the default files and ipc.cfg.  Without   *)
(* its file the protocol is 1.                                             *)
Factory(k) == CASE k = "e_frame_rate" -> 25
                [] k = "e_bit_rate"   -> 1000
                [] k = "e_FW"         -> 50
                [] k \in {"e_rec_enable", "e_sys_protocol"} -> 1
                [] OTHER -> 0

------------------------------------------------------------------------------
VARIABLES
  used,    \* the keys of this behaviour
  mem,     \* the structures g_st*
  disk,    \* the files
  pc,      \* where processMsg is; "idle" between messages, "off" while restarting
  loc,     \* its local variables, see Fresh
  down,    \* /sbin/reboot has been called
  enc,     \* the values the encoder runs with
  osd,     \* the overlay settings the overlay process has
  told,    \* the recording settings the recorder has
  ifcfg,   \* if.cfg: the address and the MAC for the next start
  hw,      \* the address and the MAC the interface has
  past     \* history, see Init

vars == <<used, mem, disk, pc, loc, down, enc, osd, told, ifcfg, hw, past>>
outside == <<enc, osd, told, ifcfg, hw>>

IndicesOf(k) == CASE k \in EncKeys \ EncSource -> Subs
                  [] k \in OsdKeys -> Regions
                  [] k \in Indexed -> Areas
                  [] OTHER -> {0}
FilesOf(k) == IF k \in EncKeys THEN {"ENC_0", "ENC_1"} ELSE {FileOf(k)}

PlacesOf(K)  == UNION {FilesOf(k) \X {k} \X IndicesOf(k) : k \in K}
Related(k)   == {k} \cup IF k = "e_ip_interval" THEN {"e_frame_rate"} ELSE {}
Stored(K)    == PlacesOf((UNION {Related(k) : k \in K}) \cap (Settings \cup ReadOnly))
Places       == DOMAIN mem
InFile(f)    == {p \in Places : p[1] = f}
Only(K)      == {p \in Places : p[2] \in K}
Restricted(g, S) == [p \in S |-> g[p]]

(* chn and region are -1 until the message names one.  flags are the files *)
(* to save, touched the regions that changed (osd_cfg), left the files     *)
(* do_reset still has to restore.  History: kept, what it could not put a  *)
(* default in place of; since, what was changed after it.                  *)
Fresh == [type |-> "none", yl_set |-> FALSE, chn |-> -1, sub |-> Min(Subs), region |-> -1,
          index |-> -1, flags |-> {}, touched |-> {}, if_cfg |-> FALSE, reboot |-> FALSE,
          left |-> <<>>, reset |-> FALSE, kept |-> {}, since |-> {}]

(* past.unsaved: places changed on purpose without a save, or whose file   *)
(* could not be written; past.missed: the encoder was not told, or did not *)
(* take it; past.behind: regions the overlay process was not told about;   *)
(* past.untold: the recorder could not be reached; past.unwritten: nor     *)
(* could if.cfg be written.                                                *)
Init ==
  /\ used \in KeyGroups
  /\ mem = [p \in Stored(used) |-> Factory(p[2])]
  /\ disk = mem
  /\ pc = "idle" /\ loc = Fresh /\ down = FALSE
  /\ enc = Restricted(mem, Only(EncLive)) /\ osd = Restricted(mem, Only(OsdKeys))
  /\ told = Restricted(mem, Only(RecKeys))
  /\ ifcfg = Restricted(mem, Only(AddrKeys)) /\ hw = ifcfg
  /\ past = [unsaved |-> {}, missed |-> {}, behind |-> {}, untold |-> FALSE,
             unwritten |-> FALSE]

------------------------------------------------------------------------------
(* One message, pair by pair *)

Receive ==
  /\ pc = "idle" /\ pc' = "parse"
  /\ loc' = Fresh
  /\ UNCHANGED <<used, mem, disk, down, outside, past>>

Header(new) ==
  /\ pc = "parse" /\ loc' = new
  /\ UNCHANGED <<used, mem, disk, pc, down, outside, past>>

(* A type above 1 is a Set that came through the cloud. *)
SetType(t) == Header([loc EXCEPT !.type = IF t = "cloud" THEN "set" ELSE t,
                                 !.yl_set = (t = "cloud")])
SetChannel(c) == used \cap EncKeys # {} /\ Header([loc EXCEPT !.chn = c])
SetSub(s)     == used \cap EncKeys # {} /\ Header([loc EXCEPT !.sub = s])
SetRegion(r)  == used \cap OsdKeys # {} /\ Header([loc EXCEPT !.region = r])
SetIndex(i)   == used \cap Indexed # {} /\ Header([loc EXCEPT !.index = i])

IndexOf(k) == CASE k \in EncKeys \ EncSource -> loc.sub
                [] k \in OsdKeys -> loc.region
                [] k \in Indexed -> loc.index
                [] OTHER -> 0

(* Every channel but 0 is channel 1, one that is not given too. *)
EncFile  == IF loc.chn = 0 THEN "ENC_0" ELSE "ENC_1"
Home(k)  == <<IF k \in EncKeys THEN EncFile ELSE FileOf(k), k, IndexOf(k)>>
Usable(k) == Home(k) \in Places     \* the check of osd_region; an index was given

(* Mutant: witch_file is the file of the main channel. *)
FlaggedMain(k) ==
  IF k = "e_time_systime" \/ (k \in EncLive /\ loc.yl_set)
  THEN {} ELSE {IF k \in EncKeys THEN "ENC_0" ELSE FileOf(k)}

(* The clock and what the cloud changes in the running stream are not      *)
(* flagged.                                                                *)
Flagged(k) ==
  IF k = "e_time_systime" \/ (k \in EncLive /\ loc.yl_set)
  THEN {} ELSE {Home(k)[1]}

(* enable is compared before it is turned into 0 or 1. *)
Differs(k, v) == mem[Home(k)] # IF k = "e_rec_enable" THEN v ELSE Norm(k, v, loc.chn)

(* set_fps, set_bps and set_ip_int return at once without a valid channel. *)
ReachesEncoder(k) == k \in EncLive /\ loc.chn \in {0, 1}

(* The results of the ioctls are not looked at: the stored value changes   *)
(* whether the encoder has taken it or not.  (A control it took and was    *)
(* not told to apply counts as not taken; the next apply may bring it.)    *)
Store(k, v) ==
  LET p == Home(k) IN
  /\ pc = "parse" /\ loc.type = "set"
  /\ k \in Settings \ {"e_sys_protocol"}
  /\ Usable(k) /\ Admissible(k, v) /\ Differs(k, v)
  /\ mem' = [mem EXCEPT ![p] = Norm(k, v, loc.chn)]
  /\ loc' = [loc EXCEPT !.flags = @ \cup Flagged(k), !.since = IF loc.reset THEN @ \cup {p} ELSE @,
                !.touched = IF k \in OsdKeys THEN @ \cup {loc.region} ELSE @,
                !.if_cfg = @ \/ k \in AddrKeys,
                !.reboot = @ \/ k \in CloudKeys]
  /\ \E taken \in BOOLEAN :
       /\ taken => ReachesEncoder(k)
       /\ ReachesEncoder(k) => taken \/ Failures
       /\ enc' = IF taken THEN [enc EXCEPT ![p] = mem'[p]] ELSE enc
       /\ past' = [past EXCEPT
                     !.unsaved = IF Flagged(k) = {} THEN @ \cup {p} ELSE @,
                     !.missed = IF k \notin EncLive THEN @
                                ELSE IF taken THEN @ \ {p} ELSE @ \cup {p}]
  /\ UNCHANGED <<used, disk, pc, down, osd, told, ifcfg, hw>>

(* The protocol is in a file of its own and in no structure (mem is that   *)
(* file).  The value is compared as the client gave it, with 1 if the file *)
(* cannot be read, and written as 0 or 1; the camera restarts in any case. *)
SetProtocol(v) ==
  LET p == <<"PROTOCOL", "e_sys_protocol", 0>> IN
  /\ pc = "parse" /\ loc.type = "set" /\ p \in Places
  /\ v # mem[p] \/ (Failures /\ v # 1)
  /\ \/ /\ mem' = [mem EXCEPT ![p] = IF v = 0 THEN 0 ELSE 1]
        /\ disk' = [disk EXCEPT ![p] = mem'[p]]
     \/ Failures /\ UNCHANGED <<mem, disk>>
  /\ loc' = [loc EXCEPT !.reboot = TRUE]
  /\ UNCHANGED <<used, pc, down, outside, past>>

(* A Get of the MAC reads it from the interface into the settings. *)
GetMac ==
  LET p == <<"NET", "e_net_macaddr", 0>> IN
  /\ pc = "parse" /\ loc.type = "get" /\ p \in Places
  /\ mem' = [mem EXCEPT ![p] = hw[p]]
  /\ past' = [past EXCEPT !.unsaved = @ \cup {p}]
  /\ UNCHANGED <<used, disk, pc, loc, down, outside>>

Reboot ==
  /\ "e_reboot" \in used /\ loc.type = "set"
  /\ Header([loc EXCEPT !.reboot = TRUE])

------------------------------------------------------------------------------
(* do_reset: file by file the default is put back, which may fail unseen,  *)
(* and read; a file that cannot be read is tried again and again.          *)

Reset ==
  /\ pc = "parse" /\ "e_reset" \in used /\ loc.type = "set"
  /\ pc' = "reset"
  /\ loc' = [loc EXCEPT !.left = ResetTable, !.kept = {}]
  /\ UNCHANGED <<used, mem, disk, down, outside, past>>

Default(f) == [p \in Places |-> IF p \in InFile(f) THEN Factory(p[2]) ELSE disk[p]]

(* Mutant: the file is not read again. *)
ResetFileOnly ==
  /\ pc = "reset" /\ loc.left # <<>>
  /\ disk' = Default(Head(loc.left))
  /\ loc' = [loc EXCEPT !.left = Tail(@)]
  /\ UNCHANGED <<used, mem, pc, down, outside, past>>

(* Mutant: the index is not advanced. *)
ResetFileStays ==
  /\ pc = "reset" /\ loc.left # <<>>
  /\ disk' = Default(Head(loc.left))
  /\ mem' = [p \in Places |-> IF p \in InFile(Head(loc.left)) THEN disk'[p] ELSE mem[p]]
  /\ UNCHANGED <<used, pc, loc, down, outside, past>>

ResetFile ==
  LET f == Head(loc.left) IN
  /\ pc = "reset" /\ loc.left # <<>>
  /\ \E restored \in BOOLEAN :
       /\ restored \/ Failures
       /\ disk' = IF restored THEN Default(f) ELSE disk
       /\ loc' = [loc EXCEPT !.left = Tail(@), !.kept = IF restored THEN @ ELSE @ \cup InFile(f)]
  /\ mem' = [p \in Places |-> IF p \in InFile(f) THEN disk'[p] ELSE mem[p]]
  /\ past' = [past EXCEPT !.unsaved = @ \ InFile(f)]
  /\ UNCHANGED <<used, pc, down, outside>>

ResetFails ==
  /\ Failures /\ pc = "reset" /\ loc.left # <<>>
  /\ disk' = Default(Head(loc.left))
  /\ UNCHANGED <<used, mem, pc, loc, down, outside, past>>

ResetDone ==
  /\ pc = "reset" /\ loc.left = <<>>
  /\ pc' = "parse" /\ loc' = [loc EXCEPT !.reset = TRUE, !.since = {}, !.reboot = TRUE]
  /\ UNCHANGED <<used, mem, disk, down, outside, past>>

------------------------------------------------------------------------------
(* The end of processMsg *)

EndOfMessage ==
  /\ pc = "parse" /\ pc' = "ifcfg"
  /\ UNCHANGED <<used, mem, disk, loc, down, outside, past>>

(* Mutant: it writes what the file holds, which is saved later. *)
GenIfCfgSaved ==
  /\ pc = "ifcfg" /\ pc' = "tell"
  /\ ifcfg' = IF loc.if_cfg THEN Restricted(disk, DOMAIN ifcfg) ELSE ifcfg
  /\ past' = IF loc.if_cfg THEN [past EXCEPT !.unwritten = FALSE] ELSE past
  /\ UNCHANGED <<used, mem, disk, loc, down, enc, osd, told, hw>>

(* gen_if_cfg writes the address and the MAC the settings hold now, unless *)
(* if.tmp cannot be opened or moved: nobody is told then.                  *)
GenIfCfg ==
  /\ pc = "ifcfg" /\ pc' = "tell"
  /\ \/ /\ loc.if_cfg
        /\ ifcfg' = Restricted(mem, DOMAIN ifcfg)
        /\ past' = [past EXCEPT !.unwritten = FALSE]
     \/ /\ loc.if_cfg /\ Failures
        /\ past' = [past EXCEPT !.unwritten = TRUE]
        /\ UNCHANGED ifcfg
     \/ ~loc.if_cfg /\ UNCHANGED <<ifcfg, past>>
  /\ UNCHANGED <<used, mem, disk, loc, down, enc, osd, told, hw>>

(* The recorder is told before the settings are saved. *)
TellRecorder ==
  /\ pc = "tell" /\ pc' = "osd"
  /\ \/ /\ "REC" \in loc.flags
        /\ told' = Restricted(mem, DOMAIN told)
        /\ past' = [past EXCEPT !.untold = FALSE]
     \/ /\ "REC" \in loc.flags /\ Failures
        /\ past' = [past EXCEPT !.untold = TRUE]
        /\ UNCHANGED told
     \/ "REC" \notin loc.flags /\ UNCHANGED <<told, past>>
  /\ UNCHANGED <<used, mem, disk, loc, down, enc, osd, ifcfg, hw>>

(* Mutant: the overlay process gets the first region. *)
ToShowFirst == Min(Regions)

(* One message goes to the overlay process, for the last region named. *)
ToShow == loc.region

TellOverlay ==
  /\ pc = "osd" /\ pc' = "flush"
  /\ \/ /\ loc.touched # {}
        /\ osd' = [p \in DOMAIN osd |-> IF p[3] = ToShow THEN mem[p] ELSE osd[p]]
        /\ past' = [past EXCEPT !.behind = (@ \cup loc.touched) \ {loc.region}]
     \/ /\ loc.touched # {} /\ Failures
        /\ past' = [past EXCEPT !.behind = @ \cup loc.touched]
        /\ UNCHANGED osd
     \/ loc.touched = {} /\ UNCHANGED <<osd, past>>
  /\ UNCHANGED <<used, mem, disk, loc, down, enc, told, ifcfg, hw>>

(* The whole structure is written, whoever changed it; the flag is cleared *)
(* even if it could not be.                                                *)
Flush ==
  LET f == SelectSeq(FileOrder, LAMBDA g : g \in loc.flags)[1] IN
  /\ pc = "flush" /\ loc.flags # {}
  /\ \/ /\ disk' = [p \in Places |-> IF p \in InFile(f) THEN mem[p] ELSE disk[p]]
        /\ past' = [past EXCEPT !.unsaved = @ \ InFile(f)]
     \/ /\ Failures
        /\ past' = [past EXCEPT !.unsaved = @ \cup {p \in InFile(f) : disk[p] # mem[p]}]
        /\ UNCHANGED disk
  /\ loc' = [loc EXCEPT !.flags = @ \ {f}]
  /\ UNCHANGED <<used, mem, pc, down, outside>>

(* system("/sbin/reboot") returns: the next message may still be handled. *)
Finish ==
  /\ pc = "flush" /\ loc.flags = {}
  /\ pc' = "idle" /\ loc' = Fresh /\ down' = (down \/ loc.reboot)
  /\ UNCHANGED <<used, mem, disk, outside, past>>

------------------------------------------------------------------------------
(* A restart, ordered or after a power cut, can hit any step *)

Stop ==
  /\ pc # "off" /\ pc' = "off" /\ loc' = Fresh
  /\ UNCHANGED <<used, mem, disk, down, outside, past>>

(* The interface comes up as if.cfg says, init_system takes its address;   *)
(* av_server starts with its own recording settings and forwards them; the *)
(* version is that of the installed software, 1, if its file is found; the *)
(* structure of an encoder file that was not read stays empty.             *)
AtStart(p, found, unread) ==
  CASE p[2] \in AddrKeys -> ifcfg[p]
    [] p[2] = "e_rec_enable" -> 1
    [] p[2] = "e_rec_len"  -> 5
    [] p[2] = "e_rec_time" -> 16777215
    [] p[2] = "e_sys_swversion" -> IF found THEN 1 ELSE disk[p]
    [] OTHER -> IF p[1] \in unread THEN 0 ELSE disk[p]

(* At the start the encoder gets at most 25 frames per second, and a key   *)
(* frame at least every two seconds; what ipc.cfg says without the file.   *)
StartRate(p) == Min({25, disk[[p EXCEPT ![2] = "e_frame_rate"]]})

EncoderStart(p, unread) ==
  IF p[1] \in unread THEN Factory(p[2])
  ELSE CASE p[2] = "e_frame_rate"  -> StartRate(p)
         [] p[2] = "e_ip_interval" -> Min({2 * StartRate(p), disk[p]})
         [] OTHER -> disk[p]

(* env_cfg_init leaves the loop over the channels at a file it cannot open.*)
Unread == {{}} \cup IF Failures THEN {{"ENC_1"}, {"ENC_0", "ENC_1"}} ELSE {}

(* The overlay process gets region 0, and the recorder its settings, if    *)
(* they can be reached.                                                    *)
Started(found, shown, reached, unread) ==
  /\ mem' = [p \in Places |-> AtStart(p, found, unread)]
  /\ enc' = [p \in DOMAIN enc |-> EncoderStart(p, unread)]
  /\ osd' = [p \in DOMAIN osd |-> IF shown /\ p[3] = 0 THEN disk[p] ELSE osd[p]]
  /\ told' = IF reached THEN Restricted(mem', DOMAIN told) ELSE told
  /\ past' = [unsaved |-> Only(RecKeys \cup AddrKeys \cup {"e_sys_swversion"})
                          \cup {p \in Places : p[1] \in unread},
              missed  |-> {p \in DOMAIN enc : mem'[p] # enc'[p]},
              behind  |-> Regions \ (IF shown THEN {0} ELSE {}),
              untold  |-> ~reached, unwritten |-> FALSE]

Boot ==
  /\ pc = "off" /\ pc' = "idle" /\ down' = FALSE /\ hw' = ifcfg
  /\ \E found, shown, reached \in BOOLEAN, unread \in Unread :
       /\ Failures \/ (found /\ shown /\ reached)
       /\ Started(found, shown, reached, unread)
  /\ UNCHANGED <<used, disk, loc, ifcfg>>

------------------------------------------------------------------------------
HandlePair ==
  \/ \E t \in {"get", "set", "cloud"} : SetType(t)
  \/ \E c \in {0, 1} : SetChannel(c)
  \/ \E s \in Subs : SetSub(s)
  \/ \E r \in Regions : SetRegion(r)
  \/ \E i \in Areas : SetIndex(i)
  \/ \E k \in used : \E v \in ValuesOf(k) : Store(k, v)
  \/ \E v \in ValuesOf("e_sys_protocol") : SetProtocol(v)
  \/ GetMac \/ Reboot \/ Reset

DoReset == ResetFile \/ ResetFails \/ ResetDone
EndSteps == EndOfMessage \/ GenIfCfg \/ TellRecorder \/ TellOverlay \/ Flush \/ Finish

Next == Receive \/ HandlePair \/ DoReset \/ EndSteps \/ Stop \/ Boot

(* A message ends, however often it resets; reading a file works out some  *)
(* time; the thread goes on.                                               *)
Fairness == /\ SF_vars(EndOfMessage) /\ SF_vars(ResetFile)
            /\ WF_vars(ResetDone) /\ WF_vars(EndSteps)

Spec     == Init /\ [][Next]_vars
LiveSpec == Spec /\ Fairness

------------------------------------------------------------------------------
(* Properties *)

(* The variables have their types, and a message that is being finished    *)
(* has no reset left to do.                                                *)
TypeOK ==
  /\ mem \in [Stored(used) -> Int] /\ disk \in [Stored(used) -> Int]
  /\ pc \in {"idle", "parse", "reset", "ifcfg", "tell", "osd", "flush", "off"}
  /\ loc.type \in {"none", "get", "set"} /\ loc.chn \in {-1, 0, 1}
  /\ loc.flags \subseteq Range(FileOrder) /\ loc.touched \subseteq Regions
  /\ loc.left # <<>> => pc = "reset"
  /\ down \in BOOLEAN /\ past.unsaved \subseteq Places

(* Between messages every file holds what the program works with, so what  *)
(* was acknowledged survives a restart at any time; only what the cloud    *)
(* tuned, the clock, what the start put in itself and what could not be    *)
(* written may differ.  (SET_FILE_CHANGED in each branch, the loop at the  *)
(* end.)                                                                   *)
Saved ==
  pc = "idle" => \A p \in Places : disk[p] # mem[p] => p \in past.unsaved

(* Between messages the encoder runs what the settings say, unless the     *)
(* client named no channel, an ioctl failed or the start limited it.       *)
(* (set_fps, set_bps, set_ip_int only when the stored value changes.)      *)
EncoderFollows ==
  (pc = "idle" /\ ~down) => \A p \in DOMAIN enc : enc[p] # mem[p] => p \in past.missed

(* Between messages the overlay shows the settings of every region, but    *)
(* those a message left for another one, those the start does not send,    *)
(* and those lost by a failure.                                            *)
OverlayFollows ==
  (pc = "idle" /\ ~down) =>
    \A p \in DOMAIN osd : osd[p] # mem[p] => p[3] \in past.behind

(* Between messages the recorder works with the stored settings, unless it *)
(* could not be reached (rec_cfg_set, before the files are saved).         *)
RecorderFollows ==
  (pc = "idle" /\ ~past.untold) => \A p \in DOMAIN told : told[p] = mem[p]

(* What runs follows what is stored: encoder, overlay and recorder. *)
TargetsFollow == EncoderFollows /\ OverlayFollows /\ RecorderFollows

(* Between messages if.cfg holds the address the settings hold: the next   *)
(* start comes up where the client has put the camera, wherever the power  *)
(* fails while the two files are written.  The exception is the if.cfg that *)
(* gen_if_cfg could not write; it lasts until the address or the MAC is    *)
(* changed again, or the next start, which goes back to the old address.   *)
AddressKept ==
  (pc = "idle" /\ ~past.unwritten) => \A p \in Only({"e_net_ip"}) : ifcfg[p] = mem[p]

(* When the message of a reset has been saved, the files of reset_table    *)
(* hold the defaults, but for what default_setting could not replace and   *)
(* what the same message changed after it: the flags raised before the     *)
(* reset do not bring old values back.                                     *)
ResetTakes ==
  (pc = "flush" /\ loc.flags = {} /\ loc.reset) =>
    \A f \in Range(ResetTable) : \A p \in InFile(f) :
      disk[p] # Factory(p[2]) => p \in loc.since \cup loc.kept

(* Every message comes to its end, or the camera is restarted. *)
MessageEnds == (pc \notin {"idle", "off"}) ~> (pc \in {"idle", "off"})
=============================================================================
