---------------------------- MODULE MCConfigStore ----------------------------
(* Instances for TLC: the keys the clients of a behaviour use, and the     *)
(* values they give them.  60 is above the limits of the stream's settings *)
(* but one, 0 below them.                                                  *)
EXTENDS ConfigStore

FewValues(k) == IF k \in EncLive \cup OsdKeys THEN {60} ELSE {0, 60}

\* one key of each shape a branch of the switch has
OneKey == {{k} : k \in {"e_FW", "e_frame_rate", "e_bit_rate", "e_ip_interval",
                        "e_width", "e_max_quant",
                        "e_osd_w", "e_infrad_stat", "e_upnp_upmenable", "e_wfsearch_rssi",
                        "e_md_area_x", "e_vdmask_x", "e_time_systime", "e_sys_swversion",
                        "e_cld_id", "e_rec_len", "e_net_dhcpflag"}}

\* keys that meet in a message: of one structure, of two, or with a reset
Together == {{"e_net_ip", "e_net_macaddr"}, {"e_rec_enable", "e_sys_protocol"},
             {"e_cld_enable", "e_reset"}, {"e_osd_x", "e_reset"}, {"e_denoise", "e_reset"},
             {"e_brightness", "e_reset", "e_reboot"}}

Messages == OneKey \cup Together
=============================================================================
