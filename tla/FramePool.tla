------------------------------ MODULE FramePool ------------------------------
(***************************************************************************)
(* The video frame pool of one live stream (src/src/rtspd.c).              *)
(*                                                                         *)
(* Three parties share it:                                                 *)
(*   - enq_thread polls the encoder, takes a bitstream buffer from the     *)
(*     driver, records it in a slot of the pool and enqueues it in librtsp *)
(*     (do_poll_event, write_rtp_frame); it also opens and closes the      *)
(*     stream when an event was posted for it (bs_new_event);              *)
(*   - the librtsp server thread calls frm_cb when a frame was sent: the   *)
(*     slot is found again by the address of the data, the buffer goes     *)
(*     back to the driver and the slot to the avail list; the library also *)
(*     reports PLAY and TEARDOWN through cmd_cb;                           *)
(*   - any thread may post START, UPDATE or STOP for the stream            *)
(*     (env_set_bs_new_event).                                             *)
(*                                                                         *)
(* Only the list operations run under frame_info[qno].mutex.  The key of a *)
(* slot is written after take_video_frame released it, so between          *)
(* TakeVideoFrame and FillSlot the slot sits at the head of the used list  *)
(* with the key of the frame it held before.  "mishit" remembers that a    *)
(* callback was served that slot; the properties below say what holds in   *)
(* the behaviours without such a callback.                                 *)
(*                                                                         *)
(* Abstracted: a buffer stands for its address and for the driver's queue  *)
(* entry (search_key and vf->queue are written together); the rotation of  *)
(* bs_event over the event types and the flag rtspd_set_event are in       *)
(* BsEvent; the copies to the recorder and to the NVR are not shown.       *)
(***************************************************************************)
EXTENDS Integers, SequencesExt

CONSTANTS
  Bufs,          \* the driver's bitstream buffers, by address
  NoBuf,         \* no buffer address
  HeapKeys,      \* what freshly malloc'ed memory may hold in place of a key
  VQ_LEN,        \* capacity of a librtsp video queue (inc/rtspd.h)
  HeldWhileSent, \* external: a frame counts as queued until its callback ends
  ControlEvents  \* the events other threads may post

ASSUME PoolAssumption ==
  /\ VQ_LEN \in Nat \ {0}
  /\ NoBuf \notin Bufs
  /\ HeapKeys \subseteq Bufs \cup {NoBuf} /\ HeapKeys # {}
  /\ HeldWhileSent \in BOOLEAN
  /\ ControlEvents \subseteq {"START", "UPDATE", "STOP"}

VARIABLES
  avail,         \* frame_info[qno].avail, head first
  used,          \* frame_info[qno].used, head first
  key,           \* vf->search_key (and vf->queue) of each slot
  fresh,         \* the slots not written since they were malloc'ed
  held,          \* buffers the driver has handed out and not taken back
  libq,          \* the librtsp queue of this stream, oldest first
  play,          \* pb->play
  event,         \* b->event
  hooks,         \* pb->read, pb->write and pb->open are set
  closeHook,     \* pb->close is set
  enabled,       \* b->enabled
  pool,          \* what qno and sr say of the stream: see PoolStates
  enq, data, fs, \* enq_thread: where it is, its buffer, its slot
  cb, cbfs,      \* frm_cb: where it is, the slot it found
  mishit,        \* history: a callback was served a slot not yet keyed
  crash          \* the undefined behaviour the process ran into, or "none"

listVars   == <<avail, used, key, fresh>>
streamVars == <<play, event, hooks, closeHook, enabled, pool>>
enqVars    == <<enq, data, fs>>
cbVars     == <<cb, cbfs>>
vars == <<listVars, held, libq, streamVars, enqVars, cbVars, mishit, crash>>

(* Mutant: a pool no larger than the library's queue. *)
ShortPool == VQ_LEN

(* VIDEO_FRAME_NUMBER slots, numbered in the order they are malloc'ed. *)
VIDEO_FRAME_NUMBER == VQ_LEN + 1
Slots  == 1 .. VIDEO_FRAME_NUMBER
NoSlot == 0

(* qno and sr are both set ("ready"); only qno, stream_reg having failed   *)
(* ("failed"); still both, stream_dereg having failed ("stale"); neither   *)
(* ("none").  Slots exist only in a "ready" pool.                          *)
PoolStates == {"none", "ready", "failed", "stale"}

EnqStates == {"event", "poll", "write", "play", "take", "fill", "enqueue",
              "putback", "drop"}

EnqAt(from, to) == enq = from /\ enq' = to

Init ==
  /\ avail = <<>> /\ used = <<>> /\ libq = <<>>
  /\ key = [s \in Slots |-> NoBuf] /\ fresh = {}
  /\ held = {}
  /\ play = 0 /\ event = "NONE"
  /\ hooks = FALSE /\ closeHook = FALSE /\ enabled = FALSE
  /\ pool = "none"
  /\ enq = "event" /\ data = NoBuf /\ fs = NoSlot
  /\ cb = "idle" /\ cbfs = NoSlot
  /\ mishit = FALSE /\ crash = "none"

------------------------------------------------------------------------------
(* Other threads *)

(* env_set_bs_new_event for a main stream: START needs a disabled stream,  *)
(* STOP some enabled stream, this one or another (is_bs_all_disable); an   *)
(* event still pending is overwritten.                                     *)
PostEvent(e) ==
  /\ e = "START" => ~enabled
  /\ event' = e
  /\ UNCHANGED <<listVars, held, libq, play, hooks, closeHook, enabled, pool,
                 enqVars, cbVars, mishit, crash>>

(* cmd_cb: PLAY and TEARDOWN reach a registered stream only (find_file_sr). *)
SetPlay(p) ==
  /\ pool \in {"ready", "stale"}
  /\ play' = p
  /\ UNCHANGED <<listVars, held, libq, event, hooks, closeHook, enabled, pool,
                 enqVars, cbVars, mishit, crash>>

------------------------------------------------------------------------------
(* enq_thread: the events of the stream (bs_new_event, under ubs_mutex) *)

NoEvent ==
  /\ event = "NONE"
  /\ EnqAt("event", "poll")
  /\ UNCHANGED <<listVars, held, libq, streamVars, data, fs, cbVars, mishit, crash>>

(* Mutant: ask the library, not the list of used slots. *)
NoneQueued == libq = <<>>

(* get_num_of_used_video_frame == 0 *)
NoneUsed == used = <<>>

(* open_live_streaming: stream_reg may fail, with a queue or without one.  *)
(* Otherwise init_video_frame pushes the new slots one by one; malloc may  *)
(* return the memory of an old pool, so their keys can be any address.     *)
OpenLiveStreaming ==
  /\ used' = <<>> /\ libq' = <<>>
  /\ \/ /\ pool' = "ready"
        /\ avail' = Reverse([i \in Slots |-> i])
        /\ key' \in [Slots -> HeapKeys] /\ fresh' = Slots
     \/ /\ pool' \in {"failed", "none"}
        /\ avail' = <<>> /\ UNCHANGED <<key, fresh>>

(* close_live_streaming: the pool is freed before stream_dereg, which      *)
(* empties the library's queue and may fail; a stream that was never       *)
(* registered keeps its qno.                                               *)
CloseLiveStreaming ==
  /\ avail' = <<>> /\ used' = <<>> /\ libq' = <<>>
  /\ pool' \in (IF pool = "failed" THEN {"failed"} ELSE {"none", "stale"})
  /\ UNCHANGED <<key, fresh>>

(* START is posted only for a stream that is not enabled, whose hooks are  *)
(* NULL: a failing open_bs leaves them so, but set_main_bs may already     *)
(* have marked the stream enabled.                                         *)
StartEvent ==
  /\ event = "START"
  /\ EnqAt("event", "poll")
  /\ event' = "NONE"
  /\ \/ /\ enabled' = TRUE /\ hooks' = TRUE /\ closeHook' = TRUE
        /\ OpenLiveStreaming
     \/ /\ enabled' \in BOOLEAN
        /\ UNCHANGED <<hooks, closeHook, listVars, libq, pool>>
  /\ UNCHANGED <<held, play, data, fs, cbVars, mishit, crash>>

(* UPDATE of a drained stream: close, then open again if the hook is set.  *)
UpdateEvent ==
  /\ event = "UPDATE" /\ pool # "none" /\ NoneUsed
  /\ EnqAt("event", "poll")
  /\ event' = "NONE"
  /\ \/ hooks /\ OpenLiveStreaming
     \/ ~hooks /\ closeHook /\ CloseLiveStreaming
     \/ ~hooks /\ ~closeHook /\ UNCHANGED <<listVars, libq, pool>>
  /\ UNCHANGED <<held, play, hooks, closeHook, enabled, data, fs, cbVars, mishit, crash>>

(* While a frame is out UPDATE stays pending, as it does without a queue. *)
UpdateWaits ==
  /\ event = "UPDATE" /\ (pool = "none" \/ ~NoneUsed)
  /\ EnqAt("event", "poll")
  /\ UNCHANGED <<listVars, held, libq, streamVars, data, fs, cbVars, mishit, crash>>

(* STOP drops the hooks at once, and closes the stream when it is drained; *)
(* close_bs may fail to stop the encoder.  With a close hook and no queue  *)
(* free_video_frame runs on frame_info[-1].                                *)
StopEvent ==
  /\ event = "STOP" /\ (pool = "none" \/ NoneUsed)
  /\ EnqAt("event", "poll")
  /\ event' = "NONE" /\ hooks' = FALSE /\ closeHook' = FALSE
  /\ \/ /\ closeHook /\ pool # "none"
        /\ CloseLiveStreaming
        /\ enabled' \in BOOLEAN /\ (enabled' => enabled)
        /\ UNCHANGED crash
     \/ /\ closeHook /\ pool = "none"
        /\ crash' = "close"
        /\ UNCHANGED <<listVars, libq, pool, enabled>>
     \/ /\ ~closeHook
        /\ enabled' \in (IF pool = "none" THEN {enabled} ELSE {enabled, FALSE})
        /\ UNCHANGED <<listVars, libq, pool, crash>>
  /\ UNCHANGED <<held, play, data, fs, cbVars, mishit>>

StopWaits ==
  /\ event = "STOP" /\ pool # "none" /\ ~NoneUsed
  /\ EnqAt("event", "poll")
  /\ hooks' = FALSE
  /\ UNCHANGED <<listVars, held, libq, play, event, closeHook, enabled, pool,
                 data, fs, cbVars, mishit, crash>>

------------------------------------------------------------------------------
(* enq_thread: one frame (do_poll_event, write_rtp_frame) *)

(* poll reports nothing to read, or get_bs_data fails. *)
PollNothing ==
  /\ EnqAt("poll", "event")
  /\ UNCHANGED <<listVars, held, libq, streamVars, data, fs, cbVars, mishit, crash>>

(* get_bs_data: the driver hands out a buffer it owns. *)
GetBsData(b) ==
  /\ EnqAt("poll", "write")
  /\ hooks /\ b \notin held
  /\ data' = b /\ held' = held \cup {b}
  /\ UNCHANGED <<listVars, libq, streamVars, fs, cbVars, mishit, crash>>

(* Mutant: the pending event is not looked at. *)
CheckEventNever ==
  /\ EnqAt("write", "play")
  /\ UNCHANGED <<listVars, held, libq, streamVars, data, fs, cbVars, mishit, crash>>

(* write_rtp_frame gives the buffer back at once while an event is pending *)
(* and, after the copy to the NVR, when nobody plays the stream.           *)
CheckEvent ==
  /\ enq = "write"
  /\ enq' = IF event = "NONE" THEN "play" ELSE "drop"
  /\ UNCHANGED <<listVars, held, libq, streamVars, data, fs, cbVars, mishit, crash>>

CheckPlay ==
  /\ enq = "play"
  /\ enq' = IF play = 1 THEN "take" ELSE "drop"
  /\ UNCHANGED <<listVars, held, libq, streamVars, data, fs, cbVars, mishit, crash>>

(* take_video_frame: the head of avail becomes the head of used.  Nobody   *)
(* checks that there is one: remove_from_listhead reads fs->next of NULL.  *)
TakeVideoFrame ==
  /\ \/ /\ avail # <<>>
        /\ EnqAt("take", "fill")
        /\ fs' = Head(avail)
        /\ avail' = Tail(avail) /\ used' = Cons(Head(avail), used)
        /\ UNCHANGED crash
     \/ /\ avail = <<>>
        /\ EnqAt("take", "take")
        /\ crash' = "take"
        /\ UNCHANGED <<fs, avail, used>>
  /\ UNCHANGED <<key, fresh, held, libq, streamVars, data, cbVars, mishit>>

(* Mutant: the slot keeps the key of its last frame. *)
FillSlotStale ==
  /\ EnqAt("fill", "enqueue")
  /\ fresh' = fresh \ {fs}
  /\ UNCHANGED <<avail, used, key, held, libq, streamVars, data, fs, cbVars, mishit, crash>>

(* Without the mutex: the key, the channel and the queue entry. *)
FillSlot ==
  /\ EnqAt("fill", "enqueue")
  /\ key' = [key EXCEPT ![fs] = data] /\ fresh' = fresh \ {fs}
  /\ UNCHANGED <<avail, used, held, libq, streamVars, data, fs, cbVars, mishit, crash>>

(* What the library counts against VQ_LEN. *)
Queued == Len(libq) + (IF HeldWhileSent /\ cb # "idle" THEN 1 ELSE 0)

(* stream_media_enqueue refuses a frame when the queue is full, and for    *)
(* reasons of its own (not initialised, not running, mutex).               *)
Enqueue ==
  /\ \/ /\ Queued < VQ_LEN /\ pool = "ready"
        /\ EnqAt("enqueue", "event")
        /\ libq' = Append(libq, data)
        /\ data' = NoBuf /\ fs' = NoSlot
     \/ EnqAt("enqueue", "putback") /\ UNCHANGED <<libq, data, fs>>
  /\ UNCHANGED <<listVars, held, streamVars, cbVars, mishit, crash>>

(* Mutant: the slot is pushed on avail but stays in used. *)
PutVideoFrameKept(s) == avail' = Cons(s, avail) /\ UNCHANGED <<used, crash>>

(* put_video_frame(qno, s): unlink s from used, push it on avail; a slot   *)
(* that is not in used corrupts the lists.                                 *)
PutVideoFrame(s) ==
  \/ \E i \in DOMAIN used :
       /\ used[i] = s
       /\ used' = RemoveAt(used, i) /\ avail' = Cons(s, avail)
       /\ UNCHANGED crash
  \/ /\ \A i \in DOMAIN used : used[i] # s
     /\ crash' = "corrupt"
     /\ UNCHANGED <<used, avail>>

PutBack ==
  /\ EnqAt("putback", "drop")
  /\ fs' = NoSlot
  /\ PutVideoFrame(fs)
  /\ UNCHANGED <<key, fresh, held, libq, streamVars, data, cbVars, mishit>>

(* free_bs_data: the driver takes its buffer back. *)
FreeBsData ==
  /\ EnqAt("drop", "event")
  /\ held' = held \ {data} /\ data' = NoBuf
  /\ UNCHANGED <<listVars, libq, streamVars, fs, cbVars, mishit, crash>>

------------------------------------------------------------------------------
(* The librtsp server thread: frm_cb *)

(* Mutant: the head of used is taken for the frame that was sent. *)
HeadMatch(i, b) == i \in DOMAIN used /\ i = 1

(* The oldest frame was sent; search_video_frame looks for its slot from   *)
(* the head of used and frm_cb follows the result, NULL or not.  A slot    *)
(* never written yet may hold any channel number, and                      *)
(* CHECK_CHANNUM_AND_SUBNUM may then return before anything is released.   *)
FirstMatch(i, b) ==
  /\ i \in DOMAIN used /\ key[used[i]] = b
  /\ \A j \in 1 .. i - 1 : key[used[j]] # b

NotKeyedYet(s) == enq = "fill" /\ s = fs

FrmCb ==
  /\ cb = "idle" /\ libq # <<>>
  /\ libq' = Tail(libq)
  /\ \/ \E i \in DOMAIN used :
          /\ FirstMatch(i, Head(libq))
          /\ mishit' = (mishit \/ NotKeyedYet(used[i]))
          /\ \/ cb' = "free" /\ cbfs' = used[i]
             \/ used[i] \in fresh /\ UNCHANGED cbVars
          /\ UNCHANGED crash
     \/ /\ \A i \in DOMAIN used : key[used[i]] # Head(libq)
        /\ crash' = "search"
        /\ UNCHANGED <<cbVars, mishit>>
  /\ UNCHANGED <<listVars, held, streamVars, enqVars>>

(* Mutant: the callback only releases the slot. *)
FrmCbFreeNot ==
  /\ cb = "free" /\ cb' = "put"
  /\ UNCHANGED <<listVars, held, libq, streamVars, enqVars, cbfs, mishit, crash>>

(* free_bs_data on the queue entry the slot holds by now. *)
FrmCbFree ==
  /\ cb = "free" /\ cb' = "put"
  /\ held' = held \ {key[cbfs]}
  /\ UNCHANGED <<listVars, libq, streamVars, enqVars, cbfs, mishit, crash>>

FrmCbPut ==
  /\ cb = "put" /\ cb' = "idle" /\ cbfs' = NoSlot
  /\ PutVideoFrame(cbfs)
  /\ UNCHANGED <<key, fresh, held, libq, streamVars, enqVars, mishit>>

------------------------------------------------------------------------------
EnqEvent == \/ NoEvent \/ StartEvent
            \/ UpdateEvent \/ UpdateWaits
            \/ StopEvent \/ StopWaits

EnqFrame == \/ PollNothing \/ \E b \in Bufs : GetBsData(b)
            \/ CheckEvent \/ CheckPlay \/ TakeVideoFrame \/ FillSlot
            \/ Enqueue \/ PutBack \/ FreeBsData

EnqThread == crash = "none" /\ (EnqEvent \/ EnqFrame)
RtspThread == crash = "none" /\ (FrmCb \/ FrmCbFree \/ FrmCbPut)
Others == crash = "none" /\ (\/ \E e \in ControlEvents : PostEvent(e)
                             \/ \E p \in {0, 1} : SetPlay(p))

Next == EnqThread \/ RtspThread \/ Others

Spec == Init /\ [][Next]_vars

(* enq_thread never blocks for good (poll has a timeout) and the library   *)
(* sends, or gives up, every frame it was handed.                          *)
FairSpec == Spec /\ WF_vars(EnqThread) /\ WF_vars(RtspThread)

------------------------------------------------------------------------------
(* Properties *)

TypeOK ==
  /\ avail \in Seq(Slots) /\ used \in Seq(Slots)
  /\ key \in [Slots -> Bufs \cup {NoBuf}] /\ fresh \subseteq Slots
  /\ held \subseteq Bufs /\ libq \in Seq(Bufs)
  /\ play \in {0, 1} /\ event \in {"NONE", "START", "UPDATE", "STOP"}
  /\ hooks \in BOOLEAN /\ closeHook \in BOOLEAN /\ enabled \in BOOLEAN
  /\ pool \in PoolStates
  /\ enq \in EnqStates /\ data \in Bufs \cup {NoBuf} /\ fs \in Slots \cup {NoSlot}
  /\ cb \in {"idle", "free", "put"} /\ cbfs \in Slots \cup {NoSlot}
  /\ mishit \in BOOLEAN
  /\ crash \in {"none", "take", "search", "corrupt", "close"}

(* No callback was served a slot before its key was written. *)
Sound == ~mishit /\ crash = "none"

(* take_video_frame and put_video_frame, called from two threads, neither  *)
(* lose nor duplicate a slot: an open pool always has its                  *)
(* VIDEO_FRAME_NUMBER slots, each in exactly one of the two lists (what    *)
(* free_video_frame counts on), and a closed stream has none.              *)
SlotsConserved ==
  /\ TypeOK
  /\ Sound =>
       IF pool = "ready"
       THEN /\ Range(avail) \cup Range(used) = Slots
            /\ Len(avail) + Len(used) = VIDEO_FRAME_NUMBER
       ELSE avail = <<>> /\ used = <<>>

(* Every buffer taken from the driver is in exactly one place - queued in  *)
(* librtsp, in enq_thread's hands or in those of the callback - so none is *)
(* leaked and none is put back to the driver twice.                        *)
InHand == (IF data = NoBuf THEN <<>> ELSE <<data>>) \o
          (IF cb = "free" THEN <<key[cbfs]>> ELSE <<>>)
BuffersAccounted ==
  Sound => /\ held = Range(libq \o InHand)
           /\ IsInjective(libq \o InHand)

(* Every frame the library holds is recorded in exactly one slot that is   *)
(* in use and keyed, so that frm_cb will release the right one.            *)
FramesRecorded ==
  Sound => \A b \in Range(libq) :
             \E s \in Range(used) :
               /\ key[s] = b /\ ~NotKeyedYet(s) /\ s # cbfs
               /\ \A t \in Range(used) \ {s} : key[t] = b => NotKeyedYet(t) \/ t = cbfs

(* The pool is one slot larger than the library's queue: as long as the    *)
(* library counts the frame it is sending, an open pool never runs dry,    *)
(* and the NULL pointers that take_video_frame and frm_cb would follow are *)
(* met only after a callback was served a slot not yet keyed.              *)
CrashCauses ==
  /\ crash \in {"search", "corrupt"} => mishit
  /\ crash = "take" => mishit \/ pool # "ready" \/ ~HeldWhileSent

(* UPDATE and STOP free the slots only when neither the library nor one of *)
(* the two threads can still reach one.                                    *)
FreedWhenDrained ==
  [][Sound /\ pool = "ready" /\ (UpdateEvent \/ StopEvent) =>
       /\ libq = <<>> /\ cb = "idle" /\ fs = NoSlot]_vars

(* write_rtp_frame refuses frames while an event is pending, so the used   *)
(* list drains and an event posted for an open stream is served.           *)
EventServed ==
  (event # "NONE" /\ pool = "ready") ~> (event = "NONE" \/ ~Sound)

(* Every buffer goes back to the driver. *)
BufferReturns == \A b \in Bufs : b \in held ~> (b \notin held \/ ~Sound)

(* The slots, their keys and the search in frm_cb do what they are for:    *)
(* frames leave in the order they were queued, and the buffer given back   *)
(* after a frame was sent is the one it is in, whatever was taken, refused *)
(* or reopened meanwhile.                                                  *)
Sending == IF cb = "free" THEN key[cbfs] ELSE NoBuf

Lending == INSTANCE FrameLending WITH
  lent <- held, hand <- data, queue <- libq, sending <- Sending, broken <- ~Sound

LendsInOrder == Lending!Spec

(* To BsEvent and to whoever posts events the pool is the number of frames *)
(* out of it: it is opened and closed at 0, and grows only while no event  *)
(* is pending.  A frame counts from when write_rtp_frame has looked at the *)
(* event; what is posted after that comes after the frame.                 *)
Leaving == enq \in {"play", "take"} /\ pool = "ready"

Life == INSTANCE StreamLife WITH
  Main <- TRUE, queue <- (pool # "none"),
  out <- Len(used) + (IF Leaving THEN 1 ELSE 0), broken <- ~Sound

PoolLives == Life!Spec
=============================================================================
