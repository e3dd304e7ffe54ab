------------------------------- MODULE BsEvent -------------------------------
(***************************************************************************)
(* How streams are started, updated and stopped (src/src/rtspd.c).         *)
(*                                                                         *)
(* Any thread may leave an event in a stream (env_set_bs_new_event) and    *)
(* raise rtspd_set_event, holding the channel's ubs_mutex as env_bs_start  *)
(* and env_bs_stop do; enq_thread looks at the flag before each frame and  *)
(* carries the events out (bs_new_event), one type at a time, in the       *)
(* rotation START, STOP, UPDATE.  bs_new_event looks for pending events    *)
(* and takes the flag down without the mutex.                              *)
(*                                                                         *)
(* Abstracted: of a stream's frame pool only the number of frames that are *)
(* out is kept (FramePool has the rest); opt_type is a constant; the       *)
(* encoder is its descriptor and what it refuses.                          *)
(***************************************************************************)
EXTENDS Integers, FiniteSets

CONSTANTS
  CHANNEL_NUM,          \* encoder channels
  DVR_ENC_REPD_BT_NUM,  \* streams of a channel; stream 0 is the main one
  Streaming,            \* the streams whose opt_type is not OPT_NONE
  Calls,                \* what other threads ask for
  MaxCalls,             \* bound: how many times they do
  MaxOut                \* bound: frames of a stream out at a time

ASSUME BsAssumption ==
  /\ CHANNEL_NUM \in Nat \ {0} /\ DVR_ENC_REPD_BT_NUM \in Nat \ {0}
  /\ Streaming \subseteq (0 .. CHANNEL_NUM - 1) \X (0 .. DVR_ENC_REPD_BT_NUM - 1)
  /\ Calls \subseteq {"START", "UPDATE", "STOP"}
  /\ MaxCalls \in Nat /\ MaxOut \in Nat

Channels  == 0 .. CHANNEL_NUM - 1
Subs      == 0 .. DVR_ENC_REPD_BT_NUM - 1
MAIN_BS_NUM == 0
Streams   == Channels \X Subs
Events    == {"START", "UPDATE", "STOP"}

VARIABLES
  event,      \* b->event of each stream
  enabled,    \* b->enabled (and b->video.enabled)
  hooks,      \* pb->open, pb->read and pb->write are set
  closeHook,  \* pb->close is set
  queue,      \* pb->video.qno >= 0
  out,        \* get_num_of_used_video_frame
  channel,    \* enc[ch].enabled: the encoder channel is open
  mutex,      \* who holds enc[ch].ubs_mutex: "free", "enq" or "caller"
  flag,       \* rtspd_set_event
  bs_event,   \* the event type whose turn it is
  enq, at,    \* enq_thread: where it is, the stream it looks at
  call, pc, to, calls,  \* the caller: its request, where it is, its stream
  lost,       \* history: the flag was taken down over a pending event
  crash       \* close_live_streaming ran without a queue: frame_info[-1]

streamVars == <<enabled, hooks, closeHook, queue, channel>>
callVars   == <<call, pc, to, calls>>
vars == <<event, streamVars, out, mutex, flag, bs_event, enq, at, callVars, lost, crash>>

Init ==
  /\ event = [s \in Streams |-> "NONE"]
  /\ enabled = [s \in Streams |-> FALSE]
  /\ hooks = [s \in Streams |-> FALSE] /\ closeHook = [s \in Streams |-> FALSE]
  /\ queue = [s \in Streams |-> FALSE] /\ out = [s \in Streams |-> 0]
  /\ channel = [c \in Channels |-> FALSE] /\ mutex = [c \in Channels |-> "free"]
  /\ flag = 0 /\ bs_event = "START"
  /\ enq = "flag" /\ at = <<0, 0>>
  /\ call = "NONE" /\ pc = "idle" /\ to = <<0, 0>> /\ calls = 0
  /\ lost = FALSE /\ crash = FALSE

------------------------------------------------------------------------------
(* The caller: env_bs_start, env_bs_stop, or an update of one stream *)

BeginCall(k, s) ==
  /\ pc = "idle" /\ calls < MaxCalls
  /\ k \in {"START", "STOP"} => s = <<0, 0>>
  /\ call' = k /\ to' = s /\ pc' = "lock" /\ calls' = calls + 1
  /\ UNCHANGED <<event, streamVars, out, mutex, flag, bs_event, enq, at, lost, crash>>

LockChannel ==
  /\ pc = "lock" /\ mutex[to[1]] = "free"
  /\ mutex' = [mutex EXCEPT ![to[1]] = "caller"]
  /\ pc' = "post"
  /\ UNCHANGED <<event, streamVars, out, flag, bs_event, enq, at, call, to, calls,
                 lost, crash>>

MoreSubs(s) == s[2] + 1 \in Subs

(* START goes to every stream of every channel, STOP to the main streams;  *)
(* the mutex is released after the last stream of a channel.               *)
NextTarget ==
  IF call = "START" /\ MoreSubs(to)
  THEN /\ to' = <<to[1], to[2] + 1>> /\ pc' = "post"
       /\ UNCHANGED <<call, mutex>>
  ELSE /\ mutex' = [mutex EXCEPT ![to[1]] = "free"]
       /\ IF call # "UPDATE" /\ to[1] + 1 \in Channels
          THEN to' = <<to[1] + 1, 0>> /\ pc' = "lock" /\ UNCHANGED call
          ELSE to' = <<0, 0>> /\ pc' = "idle" /\ call' = "NONE"

is_bs_all_disable == \A s \in Streams : ~enabled[s]

(* env_set_bs_new_event: an event still pending is overwritten. *)
Accepted ==
  CASE call = "START"  -> to \in Streaming /\ ~enabled[to]
    [] call = "UPDATE" -> TRUE
    [] call = "STOP"   -> ~is_bs_all_disable

SetEvent ==
  /\ pc = "post"
  /\ \/ /\ Accepted
        /\ event' = [event EXCEPT ![to] = call]
        /\ pc' = "flag" /\ UNCHANGED <<call, to, mutex>>
     \/ ~Accepted /\ NextTarget /\ UNCHANGED event
  /\ UNCHANGED <<streamVars, out, flag, bs_event, enq, at, calls, lost, crash>>

(* Mutant: only START raises the flag. *)
RaiseFlagStart ==
  /\ pc = "flag" /\ flag' = IF call = "START" THEN 1 ELSE flag
  /\ NextTarget
  /\ UNCHANGED <<event, streamVars, out, bs_event, enq, at, calls, lost, crash>>

RaiseFlag ==
  /\ pc = "flag" /\ flag' = 1
  /\ NextTarget
  /\ UNCHANGED <<event, streamVars, out, bs_event, enq, at, calls, lost, crash>>

------------------------------------------------------------------------------
(* enq_thread *)

EnqStep(from, next) == enq = from /\ enq' = next

Pending(e) == \E s \in Streams : event[s] = e
AnyPending == \E e \in Events : Pending(e)

ReadFlag ==
  /\ EnqStep("flag", IF flag = 1 THEN "check" ELSE "poll")
  /\ UNCHANGED <<event, streamVars, out, mutex, flag, bs_event, at, callVars, lost, crash>>

(* bs_check_event, without the mutex. *)
CheckEvents ==
  /\ EnqStep("check", IF AnyPending THEN "lock" ELSE "clear")
  /\ at' = <<0, 0>>
  /\ UNCHANGED <<event, streamVars, out, mutex, flag, bs_event, callVars, lost, crash>>

(* What was posted since is overlooked from here on. *)
ClearFlag ==
  /\ EnqStep("clear", "poll")
  /\ flag' = 0 /\ bs_event' = "START"
  /\ lost' = (lost \/ AnyPending)
  /\ UNCHANGED <<event, streamVars, out, mutex, at, callVars, crash>>

LockStreams ==
  /\ EnqStep("lock", "handle") /\ mutex[at[1]] = "free"
  /\ mutex' = [mutex EXCEPT ![at[1]] = "enq"]
  /\ UNCHANGED <<event, streamVars, out, flag, bs_event, at, callVars, lost, crash>>

(* The two loops of bs_new_event go on to the next stream. *)
NextStream ==
  /\ enq = "handle"
  /\ IF MoreSubs(at)
     THEN at' = <<at[1], at[2] + 1>> /\ UNCHANGED <<enq, mutex>>
     ELSE /\ mutex' = [mutex EXCEPT ![at[1]] = "free"]
          /\ IF at[1] + 1 \in Channels
             THEN at' = <<at[1] + 1, 0>> /\ enq' = "lock"
             ELSE at' = <<0, 0>> /\ enq' = "rotate"

Skip ==
  /\ event[at] # bs_event
  /\ NextStream
  /\ UNCHANGED <<event, streamVars, out, flag, bs_event, callVars, lost, crash>>

(* open_bs: set_main_bs opens the channel and refuses an open one, and     *)
(* set_sub_bs needs it.  The encoder may refuse the parameters (the stream *)
(* is enabled already if it is the main one) or the start (enabled too),   *)
(* and then the hooks are not set.  With them open_live_streaming runs,    *)
(* which may get no queue.                                                 *)
StartEvent ==
  /\ event[at] = "START" /\ bs_event = "START"
  /\ NextStream
  /\ event' = [event EXCEPT ![at] = "NONE"]
  /\ \/ UNCHANGED streamVars
     \/ /\ at[2] = MAIN_BS_NUM <=> ~channel[at[1]]
        /\ channel' = [channel EXCEPT ![at[1]] = TRUE]
        /\ enabled' = [enabled EXCEPT ![at] = TRUE]
        /\ \/ UNCHANGED <<hooks, closeHook, queue>>
           \/ /\ hooks' = [hooks EXCEPT ![at] = TRUE]
              /\ closeHook' = [closeHook EXCEPT ![at] = TRUE]
              /\ \E q \in BOOLEAN : queue' = [queue EXCEPT ![at] = q]
  /\ UNCHANGED <<out, flag, bs_event, callVars, lost, crash>>

(* Only a drained stream with a queue is updated; any other UPDATE stays.  *)
(* Closing may fail (stream_dereg) and keep the queue.                     *)
UpdateEvent ==
  /\ event[at] = "UPDATE" /\ bs_event = "UPDATE"
  /\ NextStream
  /\ \/ /\ queue[at] /\ out[at] = 0
        /\ event' = [event EXCEPT ![at] = "NONE"]
        /\ \E q \in BOOLEAN :
             /\ hooks[at] \/ closeHook[at] \/ q
             /\ queue' = [queue EXCEPT ![at] = q]
     \/ /\ ~queue[at] \/ out[at] > 0
        /\ UNCHANGED <<event, queue>>
  /\ UNCHANGED <<enabled, hooks, closeHook, channel, out, flag, bs_event, callVars,
                 lost, crash>>

(* Mutants: STOP of the main stream forgets the others; a last frame out   *)
(* does not count.                                                         *)
WalkOne == {at}
UndrainedOffByOne(s) == queue[s] /\ out[s] > 1

(* STOP of the main stream walks the channel from its last stream down and *)
(* breaks off at one that still has frames out; that one has lost its      *)
(* hooks but not its event.                                                *)
Walk == IF at[2] = MAIN_BS_NUM THEN {<<at[1], i>> : i \in Subs} ELSE {at}
Undrained(s) == queue[s] /\ out[s] > 0
Unhooked == {s \in Walk : \A t \in Walk : Undrained(t) => t[2] <= s[2]}
Walked   == {s \in Unhooked : ~Undrained(s)}

(* close_bs of the streams in done: those not in refused are disabled, and *)
(* the channel is closed with the last of them.                            *)
CloseBs(done, refused) ==
  LET off == {s \in done : enabled[s]} \ refused IN
  /\ enabled' = [s \in Streams |-> enabled[s] /\ s \notin off]
  /\ channel' = [channel EXCEPT ![at[1]] =
       @ /\ (off = {} \/ \E i \in Subs : enabled'[<<at[1], i>>])]

StopEvent ==
  /\ event[at] = "STOP" /\ bs_event = "STOP"
  /\ NextStream
  /\ event' = [s \in Streams |-> IF s \in Walked THEN "NONE" ELSE event[s]]
  /\ hooks' = [s \in Streams |-> hooks[s] /\ s \notin Unhooked]
  /\ closeHook' = [s \in Streams |-> closeHook[s] /\ s \notin Walked]
  /\ \E refused \in SUBSET Walked, kept \in SUBSET Walked :
       /\ CloseBs({s \in Walked : queue[s] \/ closeHook[s]}, refused)
       /\ queue' = [s \in Streams |->
            queue[s] /\ (s \in Walked /\ closeHook[s] => s \in kept)]
  /\ crash' = (\E s \in Walked : ~queue[s] /\ closeHook[s])
  /\ UNCHANGED <<out, flag, bs_event, callVars, lost>>

(* Mutant: the rotation leaves STOP out. *)
NextTypeNoStop == [START |-> "UPDATE", STOP |-> "UPDATE", UPDATE |-> "START"]

(* The next type's turn comes when no event of this type is left. *)
NextType == [START |-> "STOP", STOP |-> "UPDATE", UPDATE |-> "START"]

Rotate ==
  /\ EnqStep("rotate", "poll")
  /\ bs_event' = IF Pending(bs_event) THEN bs_event ELSE NextType[bs_event]
  /\ UNCHANGED <<event, streamVars, out, mutex, flag, at, callVars, lost, crash>>

(* Mutant: the frame is handed on although an event is pending. *)
PollEventAlways ==
  /\ EnqStep("poll", "flag")
  /\ \E sent \in SUBSET {s \in Streams : /\ s[2] = MAIN_BS_NUM /\ hooks[s] /\ queue[s]
                                         /\ out[s] < MaxOut} :
       out' = [s \in Streams |-> IF s \in sent THEN out[s] + 1 ELSE out[s]]
  /\ UNCHANGED <<event, streamVars, mutex, flag, bs_event, at, callVars, lost, crash>>

(* do_poll_event: at most one frame of each main stream is handed to the   *)
(* library; while an event is pending write_rtp_frame gives it back.       *)
PollEvent ==
  /\ EnqStep("poll", "flag")
  /\ \E sent \in SUBSET {s \in Streams : /\ s[2] = MAIN_BS_NUM /\ hooks[s] /\ queue[s]
                                         /\ event[s] = "NONE" /\ out[s] < MaxOut} :
       out' = [s \in Streams |-> IF s \in sent THEN out[s] + 1 ELSE out[s]]
  /\ UNCHANGED <<event, streamVars, mutex, flag, bs_event, at, callVars, lost, crash>>

------------------------------------------------------------------------------
(* The librtsp server thread: a frame was sent. *)
FrmCb(s) ==
  /\ out[s] > 0
  /\ out' = [out EXCEPT ![s] = @ - 1]
  /\ UNCHANGED <<event, streamVars, mutex, flag, bs_event, enq, at, callVars, lost, crash>>

------------------------------------------------------------------------------
Caller == ~crash /\ (LockChannel \/ SetEvent \/ RaiseFlag)
EnqThread ==
  /\ ~crash
  /\ \/ ReadFlag \/ CheckEvents \/ ClearFlag \/ LockStreams \/ Skip
     \/ StartEvent \/ UpdateEvent \/ StopEvent \/ Rotate \/ PollEvent
Sent(s) == ~crash /\ FrmCb(s)

Next == \/ ~crash /\ \E k \in Calls, s \in Streams : BeginCall(k, s)
        \/ Caller \/ EnqThread \/ \E s \in Streams : Sent(s)

Spec == Init /\ [][Next]_vars

(* enq_thread never sleeps for good, no thread keeps a mutex, and the      *)
(* library gives up every frame in the end.                                *)
FairSpec == Spec /\ WF_vars(EnqThread) /\ WF_vars(Caller)
                 /\ \A s \in Streams : WF_vars(Sent(s))

------------------------------------------------------------------------------
(* Properties *)

TypeOK ==
  /\ event \in [Streams -> Events \cup {"NONE"}]
  /\ enabled \in [Streams -> BOOLEAN] /\ hooks \in [Streams -> BOOLEAN]
  /\ closeHook \in [Streams -> BOOLEAN] /\ queue \in [Streams -> BOOLEAN]
  /\ out \in [Streams -> 0 .. MaxOut]
  /\ channel \in [Channels -> BOOLEAN]
  /\ mutex \in [Channels -> {"free", "enq", "caller"}]
  /\ flag \in {0, 1} /\ bs_event \in Events
  /\ enq \in {"flag", "check", "clear", "lock", "handle", "rotate", "poll"}
  /\ at \in Streams
  /\ call \in Events \cup {"NONE"} /\ pc \in {"idle", "lock", "post", "flag"}
  /\ to \in Streams /\ calls \in 0 .. MaxCalls
  /\ lost \in BOOLEAN /\ crash \in BOOLEAN

(* close_bs closes the encoder channel with the last enabled stream only,  *)
(* also when STOP breaks off or an encoder refuses: enq_thread never reads *)
(* a stream (pb->read) whose encoder is closed.                            *)
EncoderHeld ==
  \A s \in Streams : /\ enabled[s] => channel[s[1]]
                     /\ hooks[s] => enabled[s] /\ closeHook[s]

(* No queue is given up while the library still has a frame of it: UPDATE  *)
(* and STOP wait for get_num_of_used_video_frame to be 0, and START meets  *)
(* only streams that have no frame out.                                    *)
FramesHaveQueue == \A s \in Streams : out[s] > 0 => queue[s]

(* What enq_thread and the library find in a stream fits together: an      *)
(* encoder behind every stream that is read, a queue behind every frame    *)
(* that is out.                                                            *)
StreamsConsistent == TypeOK /\ EncoderHeld /\ FramesHaveQueue

(* An event never waits for a flag that is down, but for the one window in *)
(* which bs_new_event takes the flag down after it has looked.             *)
FlagCoversEvents == AnyPending => flag = 1 \/ pc = "flag" \/ lost

(* STOP of a main stream is taken off only when every stream of the        *)
(* channel has lost its hooks and its frames are back.                     *)
StopReleases ==
  [][\A c \in Channels :
       event[<<c, MAIN_BS_NUM>>] = "STOP" /\ event'[<<c, MAIN_BS_NUM>>] = "NONE" =>
         \A i \in Subs : /\ ~hooks'[<<c, i>>] /\ ~closeHook'[<<c, i>>]
                        /\ out'[<<c, i>>] = 0]_vars

(* Every event is carried out in the end, whatever was posted first: the   *)
(* rotation starves none, and an undrained stream drains because           *)
(* write_rtp_frame sends nothing more while its event is pending.  Only an *)
(* UPDATE of a stream without a queue stays, and while it does its type    *)
(* keeps the turn and holds up the others.                                 *)
EventServed ==
  \A s \in Streams :
    event[s] # "NONE" ~> \/ event[s] = "NONE" \/ lost \/ crash
                         \/ \E u \in Streams : event[u] = "UPDATE" /\ ~queue[u]

(* Each stream, seen by itself, behaves as one with a frame pool does,     *)
(* whatever the other streams of its channel do, the flag, the rotation of *)
(* the types and the walk over the channel.                                *)
Life(s) == INSTANCE StreamLife WITH
  Main <- s[2] = MAIN_BS_NUM, event <- event[s], enabled <- enabled[s], hooks <- hooks[s],
  closeHook <- closeHook[s], queue <- queue[s], out <- out[s], broken <- crash

StreamsLive ==
  /\ \A s \in Streams : Life(s)!Init
  /\ [][\A s \in Streams : Life(s)!Next \/ UNCHANGED Life(s)!vars]_vars

(* What the declaration of avbs_t says of its event: "config change please *)
(* set 1 for enq_thread to config this".                                   *)
EventIsConfigured ==
  \A s \in Streams : event[s] = "START" ~> event[s] # "START"
=============================================================================
