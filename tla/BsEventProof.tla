----------------------------- MODULE BsEventProof -----------------------------
(***************************************************************************)
(* Stream events: proofs that what enq_thread and the library find in a    *)
(* stream fits together, that a pending event has its flag, and that STOP  *)
(* gives up a channel only when all of it is released; for any number of   *)
(* channels and streams and any calls.                                     *)
(*                                                                         *)
(* FramesHaveQueue is not inductive: START replaces a queue, so it must be *)
(* known that a stream with a START pending has no frame out.  It has none *)
(* because only an enabled stream has (FramesEnabled) and START is posted  *)
(* to streams that are not (StartsFresh).                                  *)
(*                                                                         *)
(* The last part shows every single stream to implement StreamLife.        *)
(***************************************************************************)
EXTENDS BsEvent, TLAPS

FramesEnabled == \A s \in Streams : out[s] > 0 => enabled[s]
StartsFresh   == \A s \in Streams : event[s] = "START" => ~enabled[s]

(* A caller that is under way has a request. *)
CallKnown == pc # "idle" => call \in Events

TInv == TypeOK /\ CallKnown
IInv == TInv /\ EncoderHeld /\ FramesHaveQueue /\ FramesEnabled /\ StartsFresh
------------------------------------------------------------------------------
(* The walks over the streams stay among the streams. *)
LEMMA StreamType ==
  /\ <<0, 0>> \in Streams
  /\ \A s \in Streams : /\ s = <<s[1], s[2]>> /\ s[1] \in Channels /\ s[2] \in Subs
                        /\ MoreSubs(s) => <<s[1], s[2] + 1>> \in Streams
                        /\ s[1] + 1 \in Channels => <<s[1] + 1, 0>> \in Streams
  BY BsAssumption DEF Streams, Channels, Subs, MoreSubs

LEMMA WalkType ==
  ASSUME TypeOK
  PROVE  Walked \subseteq Unhooked /\ Unhooked \subseteq Walk /\ Walk \subseteq Streams
  BY StreamType DEF TypeOK, Walked, Unhooked, Walk, Streams

(* The caller goes on to the next stream of its call. *)
LEMMA NextTargetType ==
  ASSUME TInv, pc # "idle", NextTarget
  PROVE  /\ mutex' \in [Channels -> {"free", "enq", "caller"}]
         /\ call' \in Events \cup {"NONE"} /\ pc' \in {"idle", "lock", "post", "flag"}
         /\ to' \in Streams /\ CallKnown'
  BY StreamType DEF TInv, CallKnown, TypeOK, NextTarget

(* bs_new_event goes on to the next stream. *)
LEMMA NextStreamType ==
  ASSUME TypeOK, NextStream
  PROVE  /\ mutex' \in [Channels -> {"free", "enq", "caller"}]
         /\ enq' \in {"flag", "check", "clear", "lock", "handle", "rotate", "poll"}
         /\ at' \in Streams
  BY StreamType DEF TypeOK, NextStream

(* What the events and the frames do to the streams: the steps that touch  *)
(* them; every other step leaves streams, events and frames as they are.   *)
Quiet == UNCHANGED <<event, streamVars, out>>

LEMMA QuietInv ==
  ASSUME IInv, Quiet, TInv'
  PROVE  IInv'
  BY DEF IInv, Quiet, streamVars, EncoderHeld, FramesHaveQueue, FramesEnabled, StartsFresh

(* Steps that touch no stream keep the types. *)
LEMMA QuietType ==
  ASSUME TInv,
         \/ \E k \in Calls, s \in Streams : BeginCall(k, s)
         \/ LockChannel \/ RaiseFlag \/ ReadFlag \/ CheckEvents \/ ClearFlag
         \/ LockStreams \/ Skip \/ Rotate
  PROVE  TInv' /\ Quiet
<1>1. ASSUME NEW k \in Calls, NEW s \in Streams, BeginCall(k, s) PROVE TInv' /\ Quiet
  BY <1>1, BsAssumption DEF BeginCall, TInv, CallKnown, TypeOK, Quiet, streamVars, Events
<1>2. CASE LockChannel
  BY <1>2 DEF LockChannel, TInv, CallKnown, TypeOK, Quiet, streamVars
<1>3. CASE RaiseFlag
  BY <1>3, NextTargetType DEF RaiseFlag, TInv, CallKnown, TypeOK, Quiet, streamVars
<1>4. CASE ReadFlag
  BY <1>4 DEF ReadFlag, EnqStep, TInv, CallKnown, TypeOK, Quiet, streamVars, callVars
<1>5. CASE CheckEvents
  BY <1>5, StreamType DEF CheckEvents, EnqStep, TInv, CallKnown, TypeOK, Quiet, streamVars, callVars
<1>6. CASE ClearFlag
  BY <1>6 DEF ClearFlag, EnqStep, TInv, CallKnown, TypeOK, Quiet, streamVars, callVars, Events, AnyPending, Pending
<1>7. CASE LockStreams
  BY <1>7 DEF LockStreams, EnqStep, TInv, CallKnown, TypeOK, Quiet, streamVars, callVars
<1>8. CASE Skip
  BY <1>8, NextStreamType DEF Skip, TInv, CallKnown, TypeOK, Quiet, streamVars, callVars
<1>9. CASE Rotate
  BY <1>9 DEF Rotate, EnqStep, TInv, CallKnown, TypeOK, Quiet, streamVars, callVars, Events, NextType
<1> QED
  BY <1>1, <1>2, <1>3, <1>4, <1>5, <1>6, <1>7, <1>8, <1>9

LEMMA InitInv == Init => IInv
<1> SUFFICES ASSUME Init PROVE IInv
  OBVIOUS
<1>1. 0 \in 0 .. MaxOut /\ 0 \in 0 .. MaxCalls
  BY BsAssumption
<1>2. out \in [Streams -> 0 .. MaxOut] /\ calls \in 0 .. MaxCalls
  BY <1>1 DEF Init
<1>3. TypeOK
  BY <1>2, StreamType DEF Init, TypeOK, Events
<1> QED
  BY <1>3 DEF Init, TInv, CallKnown, IInv, EncoderHeld, FramesHaveQueue, FramesEnabled, StartsFresh

(* An event is posted: START only to a stream that is not enabled. *)
LEMMA SetEventInv ==
  ASSUME IInv, SetEvent
  PROVE  IInv'
<1>1. CASE Accepted /\ event' = [event EXCEPT ![to] = call] /\ pc' = "flag" /\ UNCHANGED <<call, to, mutex>>
  <2>1. call \in Events
    BY DEF IInv, TInv, CallKnown, SetEvent
  <2>2. TInv'
    BY <1>1, <2>1 DEF SetEvent, IInv, TInv, CallKnown, TypeOK, streamVars
  <2>3. StartsFresh'
    BY <1>1 DEF SetEvent, IInv, TInv, TypeOK, StartsFresh, Accepted, streamVars
  <2> QED
    BY <2>2, <2>3 DEF SetEvent, IInv, streamVars, EncoderHeld, FramesHaveQueue, FramesEnabled
<1>2. CASE NextTarget /\ UNCHANGED event
  <2>1. TInv'
    BY <1>2, NextTargetType DEF SetEvent, IInv, TInv, TypeOK, streamVars
  <2> QED
    BY <2>1, <1>2, QuietInv DEF SetEvent, Quiet
<1> QED
  BY <1>1, <1>2 DEF SetEvent

(* START, carried out or not, takes the event off.  It meets a stream that *)
(* is not enabled and so has no frame out, whatever queue it gets.         *)
LEMMA StartEventInv ==
  ASSUME IInv, StartEvent
  PROVE  IInv'
<1>1. at \in Streams /\ at[1] \in Channels /\ event[at] = "START" /\ ~enabled[at]
  BY StreamType DEF IInv, TInv, TypeOK, StartEvent, StartsFresh
<1>2. out' = out /\ out[at] = 0
  <2>1. out[at] \in Nat
    BY <1>1, BsAssumption DEF IInv, TInv, TypeOK
  <2> QED
    BY <2>1, <1>1 DEF StartEvent, IInv, FramesEnabled
<1>3. /\ event' = [event EXCEPT ![at] = "NONE"]
      /\ enabled' \in [Streams -> BOOLEAN] /\ hooks' \in [Streams -> BOOLEAN]
      /\ closeHook' \in [Streams -> BOOLEAN] /\ queue' \in [Streams -> BOOLEAN]
      /\ channel' \in [Channels -> BOOLEAN]
      /\ \A s \in Streams \ {at} : /\ enabled'[s] = enabled[s] /\ hooks'[s] = hooks[s]
                                   /\ closeHook'[s] = closeHook[s] /\ queue'[s] = queue[s]
      /\ \A c \in Channels : channel[c] => channel'[c]
      /\ enabled'[at] => channel'[at[1]]
      /\ hooks'[at] => enabled'[at] /\ closeHook'[at]
  <2>1. CASE UNCHANGED streamVars
    BY <2>1, <1>1 DEF streamVars, StartEvent, IInv, TInv, TypeOK, EncoderHeld
  <2>2. CASE /\ channel' = [channel EXCEPT ![at[1]] = TRUE]
             /\ enabled' = [enabled EXCEPT ![at] = TRUE]
             /\ UNCHANGED <<hooks, closeHook, queue>>
    BY <2>2, <1>1 DEF StartEvent, IInv, TInv, TypeOK, EncoderHeld
  <2>3. CASE /\ channel' = [channel EXCEPT ![at[1]] = TRUE]
             /\ enabled' = [enabled EXCEPT ![at] = TRUE]
             /\ hooks' = [hooks EXCEPT ![at] = TRUE]
             /\ closeHook' = [closeHook EXCEPT ![at] = TRUE]
             /\ \E q \in BOOLEAN : queue' = [queue EXCEPT ![at] = q]
    <3>1. PICK q \in BOOLEAN : queue' = [queue EXCEPT ![at] = q]
      BY <2>3
    <3>2. queue' \in [Streams -> BOOLEAN] /\ \A s \in Streams \ {at} : queue'[s] = queue[s]
      BY <3>1 DEF IInv, TInv, TypeOK
    <3>3. event' = [event EXCEPT ![at] = "NONE"]
      BY DEF StartEvent
    <3> QED
      BY <3>2, <3>3, <2>3, <1>1 DEF IInv, TInv, TypeOK
  <2> QED
    BY <2>1, <2>2, <2>3 DEF StartEvent
<1>4. TInv'
  BY <1>2, <1>3, NextStreamType DEF StartEvent, IInv, TInv, TypeOK, CallKnown, callVars
<1>5. EncoderHeld'
  BY <1>3, StreamType DEF IInv, EncoderHeld
<1>6. FramesHaveQueue' /\ FramesEnabled'
  BY <1>2, <1>3 DEF IInv, FramesHaveQueue, FramesEnabled
<1>7. StartsFresh'
  BY <1>3 DEF IInv, TInv, TypeOK, StartsFresh
<1> QED
  BY <1>4, <1>5, <1>6, <1>7 DEF IInv

(* UPDATE changes the queue of a drained stream only. *)
LEMMA UpdateEventInv ==
  ASSUME IInv, UpdateEvent
  PROVE  IInv'
<1>1. at \in Streams /\ UNCHANGED <<enabled, hooks, closeHook, channel, out>>
  BY DEF IInv, TInv, TypeOK, UpdateEvent
<1>2. /\ event' \in [Streams -> Events \cup {"NONE"}] /\ queue' \in [Streams -> BOOLEAN]
      /\ \A s \in Streams : /\ event'[s] = "START" => event[s] = "START"
                            /\ out[s] > 0 => queue'[s] = queue[s]
  <2>1. CASE /\ queue[at] /\ out[at] = 0
             /\ event' = [event EXCEPT ![at] = "NONE"]
             /\ \E q \in BOOLEAN : queue' = [queue EXCEPT ![at] = q]
    BY <2>1, <1>1 DEF IInv, TInv, TypeOK
  <2>2. CASE UNCHANGED <<event, queue>>
    BY <2>2 DEF IInv, TInv, TypeOK
  <2> QED
    BY <2>1, <2>2 DEF UpdateEvent
<1>3. TInv'
  BY <1>1, <1>2, NextStreamType DEF UpdateEvent, IInv, TInv, TypeOK, CallKnown, callVars
<1> QED
  BY <1>1, <1>2, <1>3 DEF IInv, EncoderHeld, FramesHaveQueue, FramesEnabled, StartsFresh

(* What STOP leaves: the streams it has passed are not undrained, have no  *)
(* hooks and are disabled unless the encoder refused.                      *)
LEMMA StopEventInv ==
  ASSUME IInv, StopEvent
  PROVE  IInv'
<1>1. Walked \subseteq Unhooked /\ Unhooked \subseteq Streams /\ at \in Streams /\ at[1] \in Channels
  BY WalkType, StreamType DEF IInv, TInv, TypeOK
<1>2. PICK refused \in SUBSET Walked, kept \in SUBSET Walked :
        /\ CloseBs({s \in Walked : queue[s] \/ closeHook[s]}, refused)
        /\ queue' = [s \in Streams |->
              queue[s] /\ (s \in Walked /\ closeHook[s] => s \in kept)]
  BY DEF StopEvent
<1>3. /\ event' = [s \in Streams |-> IF s \in Walked THEN "NONE" ELSE event[s]]
      /\ hooks' = [s \in Streams |-> hooks[s] /\ s \notin Unhooked]
      /\ closeHook' = [s \in Streams |-> closeHook[s] /\ s \notin Walked]
      /\ out' = out
  BY DEF StopEvent
<1> DEFINE off == {s \in Walked : (queue[s] \/ closeHook[s]) /\ enabled[s]} \ refused
<1>4. /\ enabled' = [s \in Streams |-> enabled[s] /\ s \notin off]
      /\ channel' = [channel EXCEPT ![at[1]] =
           @ /\ (off = {} \/ \E i \in Subs : enabled'[<<at[1], i>>])]
  <2>1. {s \in {s \in Walked : queue[s] \/ closeHook[s]} : enabled[s]} \ refused = off
    OBVIOUS
  <2> QED
    BY <2>1, <1>2 DEF CloseBs
<1>5. \A s \in Walked : ~(out[s] > 0)
  BY <1>1 DEF Walked, Undrained, IInv, FramesHaveQueue
<1>6. /\ event' \in [Streams -> Events \cup {"NONE"}] /\ hooks' \in [Streams -> BOOLEAN]
      /\ closeHook' \in [Streams -> BOOLEAN] /\ enabled' \in [Streams -> BOOLEAN]
      /\ queue' \in [Streams -> BOOLEAN] /\ channel' \in [Channels -> BOOLEAN]
      /\ crash' \in BOOLEAN
  <2>1. event' \in [Streams -> Events \cup {"NONE"}]
    BY <1>3 DEF IInv, TInv, TypeOK
  <2>2. hooks' \in [Streams -> BOOLEAN] /\ closeHook' \in [Streams -> BOOLEAN]
    BY <1>3 DEF IInv, TInv, TypeOK
  <2>3. enabled' \in [Streams -> BOOLEAN] /\ channel' \in [Channels -> BOOLEAN]
    BY <1>4 DEF IInv, TInv, TypeOK
  <2>4. queue' \in [Streams -> BOOLEAN]
    BY <1>2 DEF IInv, TInv, TypeOK
  <2>5. crash' \in BOOLEAN
    BY DEF StopEvent
  <2> QED
    BY <2>1, <2>2, <2>3, <2>4, <2>5
<1>7. TInv'
  BY <1>3, <1>6, NextStreamType DEF StopEvent, IInv, TInv, TypeOK, CallKnown, callVars
<1>8. EncoderHeld'
  <2> SUFFICES ASSUME NEW s \in Streams
               PROVE  /\ enabled'[s] => channel'[s[1]]
                      /\ hooks'[s] => enabled'[s] /\ closeHook'[s]
    BY DEF EncoderHeld
  <2>1. s[1] \in Channels /\ s[2] \in Subs /\ s = <<s[1], s[2]>>
    BY StreamType
  <2>2. enabled'[s] => channel'[s[1]]
    BY <2>1, <1>1, <1>4 DEF IInv, TInv, TypeOK, EncoderHeld
  <2>3. hooks'[s] => enabled'[s] /\ closeHook'[s]
    BY <1>1, <1>3, <1>4 DEF IInv, EncoderHeld
  <2> QED
    BY <2>2, <2>3
<1>9. FramesHaveQueue' /\ FramesEnabled'
  BY <1>2, <1>3, <1>4, <1>5 DEF IInv, FramesHaveQueue, FramesEnabled
<1>10. StartsFresh'
  BY <1>3, <1>4 DEF IInv, StartsFresh
<1> QED
  BY <1>7, <1>8, <1>9, <1>10 DEF IInv

(* Frames go to the library only from streams with hooks and a queue.      *)
LEMMA PollEventInv ==
  ASSUME IInv, PollEvent
  PROVE  IInv'
<1>1. PICK sent \in SUBSET {s \in Streams : /\ s[2] = MAIN_BS_NUM /\ hooks[s] /\ queue[s]
                                           /\ event[s] = "NONE" /\ out[s] < MaxOut} :
        out' = [s \in Streams |-> IF s \in sent THEN out[s] + 1 ELSE out[s]]
  BY DEF PollEvent
<1>2. out' \in [Streams -> 0 .. MaxOut]
  <2> SUFFICES ASSUME NEW s \in Streams
               PROVE  (IF s \in sent THEN out[s] + 1 ELSE out[s]) \in 0 .. MaxOut
    BY <1>1
  <2>1. out[s] \in 0 .. MaxOut /\ (s \in sent => out[s] < MaxOut)
    BY <1>1 DEF IInv, TInv, TypeOK
  <2> QED
    BY <2>1, BsAssumption
<1>3. \A s \in Streams : out'[s] > 0 => out[s] > 0 \/ (hooks[s] /\ queue[s])
  BY <1>1
<1>4. TInv'
  BY <1>2 DEF PollEvent, EnqStep, IInv, TInv, TypeOK, CallKnown, streamVars, callVars
<1> QED
  BY <1>3, <1>4 DEF PollEvent, streamVars, IInv, EncoderHeld, FramesHaveQueue, FramesEnabled, StartsFresh

LEMMA FrmCbInv ==
  ASSUME NEW s \in Streams, IInv, FrmCb(s)
  PROVE  IInv'
<1>1. out' = [out EXCEPT ![s] = @ - 1] /\ out[s] > 0
  BY DEF FrmCb
<1>2. out[s] \in 0 .. MaxOut /\ MaxOut \in Nat
  BY BsAssumption DEF IInv, TInv, TypeOK
<1>3. out[s] - 1 \in 0 .. MaxOut
  BY <1>1, <1>2
<1>4. out' \in [Streams -> 0 .. MaxOut] /\ \A u \in Streams : out'[u] > 0 => out[u] > 0
  BY <1>1, <1>3 DEF IInv, TInv, TypeOK
<1>5. TInv'
  BY <1>4 DEF FrmCb, IInv, TInv, TypeOK, CallKnown, streamVars, callVars
<1> QED
  BY <1>4, <1>5 DEF FrmCb, streamVars, IInv, EncoderHeld, FramesHaveQueue, FramesEnabled, StartsFresh

(* Every step of every thread keeps the invariant. *)
LEMMA NextInv == IInv /\ [Next]_vars => IInv'
<1> SUFFICES ASSUME IInv, [Next]_vars PROVE IInv'
  OBVIOUS
<1>1. CASE \/ \E k \in Calls, s \in Streams : BeginCall(k, s)
           \/ LockChannel \/ RaiseFlag \/ ReadFlag \/ CheckEvents \/ ClearFlag
           \/ LockStreams \/ Skip \/ Rotate
  BY <1>1, QuietType, QuietInv DEF IInv
<1>2. CASE UNCHANGED vars
  <2>1. Quiet /\ TInv'
    BY <1>2 DEF vars, streamVars, callVars, Quiet, IInv, TInv, TypeOK, CallKnown
  <2> QED
    BY <2>1, QuietInv
<1>3. CASE SetEvent \/ StartEvent \/ UpdateEvent \/ StopEvent \/ PollEvent
  BY <1>3, SetEventInv, StartEventInv, UpdateEventInv, StopEventInv, PollEventInv
<1>4. ASSUME NEW s \in Streams, FrmCb(s) PROVE IInv'
  BY <1>4, FrmCbInv
<1> QED
  BY <1>1, <1>2, <1>3, <1>4 DEF Next, Caller, EnqThread, Sent
------------------------------------------------------------------------------
(* The theorems *)

(* The invariant holds in every state the threads can bring about. *)
THEOREM Invariance == Spec => []IInv
  BY InitInv, NextInv, PTL DEF Spec

(* Behind every stream that enq_thread reads there is an open encoder, and *)
(* a queue behind every frame the library has (close_bs, open_bs,          *)
(* bs_new_event).                                                          *)
THEOREM StreamsFit == Spec => []StreamsConsistent
<1>1. IInv => StreamsConsistent
  BY DEF IInv, TInv, StreamsConsistent
<1> QED
  BY <1>1, Invariance, PTL

(* An event that waits has its flag up (env_set_bs_new_event), unless      *)
(* bs_new_event took the flag down over it.                                *)
THEOREM EventsAreFlagged == Spec => []FlagCoversEvents
<1>1. Init => FlagCoversEvents
  BY DEF Init, FlagCoversEvents, AnyPending, Pending, Events
<1>2. IInv /\ FlagCoversEvents /\ [Next]_vars => FlagCoversEvents'
  <2> SUFFICES ASSUME IInv, FlagCoversEvents, [Next]_vars PROVE FlagCoversEvents'
    OBVIOUS
  <2>1. CASE SetEvent
    <3>1. CASE pc' = "flag"
      BY <3>1 DEF FlagCoversEvents
    <3>2. CASE NextTarget /\ UNCHANGED event
      BY <3>2, <2>1 DEF SetEvent, FlagCoversEvents, AnyPending, Pending
    <3> QED
      BY <3>1, <3>2, <2>1 DEF SetEvent
  <2>2. CASE RaiseFlag
    BY <2>2 DEF RaiseFlag, FlagCoversEvents
  <2>3. CASE ClearFlag
    BY <2>3 DEF ClearFlag, FlagCoversEvents, AnyPending, Pending, EnqStep, callVars
  <2>4. CASE \/ \E k \in Calls, s \in Streams : BeginCall(k, s)
             \/ LockChannel \/ ReadFlag \/ CheckEvents \/ LockStreams \/ Skip \/ Rotate
             \/ PollEvent \/ (\E s \in Streams : FrmCb(s)) \/ UNCHANGED vars
    <3>1. event' = event /\ flag' = flag /\ lost' = lost /\ (pc = "flag" => pc' = "flag")
      BY <2>4 DEF BeginCall, LockChannel, ReadFlag, CheckEvents, LockStreams, Skip, Rotate,
                  PollEvent, FrmCb, EnqStep, callVars, vars
    <3> QED
      BY <3>1 DEF FlagCoversEvents, AnyPending, Pending
  <2>5. CASE StartEvent \/ UpdateEvent \/ StopEvent
    <3>1. flag' = flag /\ lost' = lost /\ pc' = pc
      BY <2>5 DEF StartEvent, UpdateEvent, StopEvent, callVars
    <3>2. \A s \in Streams : event'[s] \in {event[s], "NONE"}
      BY <2>5 DEF StartEvent, UpdateEvent, StopEvent, IInv, TInv, TypeOK
    <3> QED
      BY <3>1, <3>2 DEF FlagCoversEvents, AnyPending, Pending, Events
  <2> QED
    BY <2>1, <2>2, <2>3, <2>4, <2>5 DEF Next, Caller, EnqThread, Sent
<1> QED
  BY <1>1, <1>2, Invariance, PTL DEF Spec

(* STOP of a main stream (bs_new_event) is done with only when every       *)
(* stream of the channel is released.                                      *)
THEOREM StopsRelease == Spec => StopReleases
<1>1. IInv /\ [Next]_vars =>
        [\A c \in Channels :
           event[<<c, MAIN_BS_NUM>>] = "STOP" /\ event'[<<c, MAIN_BS_NUM>>] = "NONE" =>
             \A i \in Subs : /\ ~hooks'[<<c, i>>] /\ ~closeHook'[<<c, i>>]
                            /\ out'[<<c, i>>] = 0]_vars
  <2> SUFFICES ASSUME IInv, [Next]_vars, NEW c \in Channels, NEW i \in Subs,
                      event[<<c, MAIN_BS_NUM>>] = "STOP", event'[<<c, MAIN_BS_NUM>>] = "NONE"
               PROVE  ~hooks'[<<c, i>>] /\ ~closeHook'[<<c, i>>] /\ out'[<<c, i>>] = 0
    OBVIOUS
  <2> DEFINE m == <<c, MAIN_BS_NUM>>
             s == <<c, i>>
  <2>1. m \in Streams /\ s \in Streams /\ m[1] = c /\ m[2] = 0 /\ s[2] >= 0 /\ at \in Streams
    BY BsAssumption DEF Streams, Subs, Channels, MAIN_BS_NUM, IInv, TInv, TypeOK
  <2>2. StopEvent /\ m \in Walked
    <3>1. CASE SetEvent
      BY <3>1, <2>1 DEF SetEvent, IInv, TInv, CallKnown, TypeOK, Events
    <3>2. CASE StartEvent \/ UpdateEvent
      BY <3>2, <2>1 DEF StartEvent, UpdateEvent, IInv, TInv, TypeOK
    <3>3. CASE StopEvent
      BY <3>3, <2>1 DEF StopEvent
    <3>4. CASE event' = event
      BY <3>4
    <3>5. event' = event \/ SetEvent \/ StartEvent \/ UpdateEvent \/ StopEvent
      BY DEF Next, Caller, EnqThread, Sent, BeginCall, LockChannel, RaiseFlag, ReadFlag,
             CheckEvents, ClearFlag, LockStreams, Skip, Rotate, PollEvent, FrmCb, vars
    <3> QED
      BY <3>1, <3>2, <3>3, <3>4, <3>5
  <2>3. at[2] = MAIN_BS_NUM /\ at[1] = c
    <3>1. m \in Walk
      BY <2>2 DEF Walked, Unhooked
    <3>2. CASE at[2] = MAIN_BS_NUM
      BY <3>1, <3>2 DEF Walk
    <3>3. CASE at[2] # MAIN_BS_NUM
      BY <3>1, <3>3 DEF Walk
    <3> QED
      BY <3>2, <3>3
  <2>4. s \in Walk
    BY <2>3 DEF Walk
  <2>5. \A t \in Walk : ~Undrained(t)
    <3> SUFFICES ASSUME NEW t \in Walk, Undrained(t) PROVE FALSE
      OBVIOUS
    <3>1. t[2] <= m[2]
      BY <2>2 DEF Walked, Unhooked
    <3>2. PICK k \in Subs : t = <<at[1], k>>
      BY <2>3 DEF Walk
    <3>3. k = 0
      BY <3>1, <3>2, <2>1, BsAssumption DEF Subs
    <3> QED
      BY <3>2, <3>3, <2>2, <2>3 DEF Walked, MAIN_BS_NUM
  <2>6. s \in Walked /\ s \in Unhooked
    BY <2>4, <2>5 DEF Walked, Unhooked
  <2>7. out[s] = 0
    <3>1. out[s] \in Nat
      BY <2>1, BsAssumption DEF IInv, TInv, TypeOK
    <3> QED
      BY <3>1, <2>1, <2>4, <2>5 DEF Undrained, IInv, FramesHaveQueue
  <2> QED
    BY <2>1, <2>2, <2>6, <2>7 DEF StopEvent
<1> QED
  BY <1>1, Invariance, PTL DEF Spec, StopReleases

------------------------------------------------------------------------------
(* Every stream implements StreamLife *)

(* STOP is asked for main streams only. *)
StopToMain == call = "STOP" => to[2] = MAIN_BS_NUM

LEMMA StopsGoToMain == Spec => []StopToMain
<1>1. Init => StopToMain
  BY DEF Init, StopToMain
<1>2. StopToMain /\ [Next]_vars => StopToMain'
  <2> SUFFICES ASSUME StopToMain, [Next]_vars PROVE StopToMain'
    OBVIOUS
  <2>1. ASSUME NEW k \in Calls, NEW s \in Streams, BeginCall(k, s) PROVE StopToMain'
    BY <2>1 DEF BeginCall, StopToMain, MAIN_BS_NUM
  <2>2. CASE NextTarget
    BY <2>2 DEF NextTarget, StopToMain, MAIN_BS_NUM
  <2>3. CASE UNCHANGED <<call, to>>
    BY <2>3 DEF StopToMain
  <2>4. \/ \E k \in Calls, s \in Streams : BeginCall(k, s)
        \/ NextTarget \/ UNCHANGED <<call, to>>
    BY DEF Next, Caller, EnqThread, Sent, LockChannel, SetEvent, RaiseFlag, ReadFlag,
           CheckEvents, ClearFlag, LockStreams, Skip, StartEvent, UpdateEvent, StopEvent,
           Rotate, PollEvent, FrmCb, callVars, vars
  <2> QED
    BY <2>1, <2>2, <2>3, <2>4
<1> QED
  BY <1>1, <1>2, PTL DEF Spec

(* A step as one stream sees it. *)
Lives(s) == Life(s)!Next \/ UNCHANGED Life(s)!vars

(* Steps that leave everything of the streams as it is. *)
LEMMA QuietLives ==
  ASSUME NEW s \in Streams, Quiet, UNCHANGED crash
  PROVE  Lives(s)
  BY DEF Quiet, streamVars, Lives, Life!vars, Life!stream

(* env_set_bs_new_event posts to one stream, and asks first. *)
LEMMA SetEventLives ==
  ASSUME IInv, StopToMain, ~crash, SetEvent, NEW s \in Streams
  PROVE  Lives(s)
<1>1. UNCHANGED <<enabled, hooks, closeHook, queue, out, crash>>
  BY DEF SetEvent, streamVars
<1>2. CASE event'[s] = event[s]
  BY <1>1, <1>2 DEF Lives, Life!vars, Life!stream
<1>3. CASE event'[s] # event[s]
  <2>1. Accepted /\ s = to /\ event'[s] = call /\ call \in Events
    BY <1>3 DEF SetEvent, IInv, TInv, TypeOK, CallKnown
  <2>2. Life(s)!Post
    BY <1>1, <2>1 DEF Accepted, StopToMain, Life!Post, Life!stream, Events
  <2> QED
    BY <1>1, <2>2 DEF Lives, Life!Next
<1> QED
  BY <1>2, <1>3

(* START meets a stream that is off and has no frame out. *)
LEMMA StartEventLives ==
  ASSUME IInv, ~crash, StartEvent, NEW s \in Streams
  PROVE  Lives(s)
<1>1. /\ at \in Streams /\ UNCHANGED <<out, crash>> /\ event[at] = "START"
      /\ event' = [event EXCEPT ![at] = "NONE"]
  BY DEF StartEvent, IInv, TInv, TypeOK
<1>2. CASE s = at
  <2>1. ~enabled[s] /\ out[s] = 0 /\ event[s] = "START" /\ event'[s] = "NONE"
    <3>1. out[s] \in Nat
      BY BsAssumption DEF IInv, TInv, TypeOK
    <3> QED
      BY <1>1, <1>2, <3>1 DEF IInv, TInv, TypeOK, StartsFresh, FramesEnabled
  <2>2. \/ enabled'[s] /\ hooks'[s] /\ closeHook'[s] /\ queue'[s] \in BOOLEAN
        \/ /\ enabled'[s] \in BOOLEAN
           /\ UNCHANGED <<hooks[s], closeHook[s], queue[s]>>
    BY <1>1, <1>2 DEF StartEvent, streamVars, IInv, TInv, TypeOK
  <2>3. Life(s)!Start
    BY <1>1, <2>1, <2>2 DEF Life!Start
  <2> QED
    BY <1>1, <2>3 DEF Lives, Life!Next
<1>3. CASE s # at
  <2>1. UNCHANGED <<event[s], enabled[s], hooks[s], closeHook[s], queue[s], out[s], crash>>
    BY <1>1, <1>3 DEF StartEvent, streamVars, IInv, TInv, TypeOK
  <2> QED
    BY <2>1 DEF Lives, Life!vars, Life!stream
<1> QED
  BY <1>2, <1>3

(* UPDATE is carried out on a drained stream with a queue, or it waits. *)
LEMMA UpdateEventLives ==
  ASSUME IInv, ~crash, UpdateEvent, NEW s \in Streams
  PROVE  Lives(s)
<1>1. /\ at \in Streams /\ event[at] = "UPDATE"
      /\ UNCHANGED <<enabled, hooks, closeHook, out, crash>>
  BY DEF UpdateEvent, IInv, TInv, TypeOK
<1>2. CASE event'[s] = event[s] /\ queue'[s] = queue[s]
  BY <1>1, <1>2 DEF Lives, Life!vars, Life!stream
<1>3. CASE ~(event'[s] = event[s] /\ queue'[s] = queue[s])
  <2>1. s = at
    BY <1>1, <1>3 DEF UpdateEvent, IInv, TInv, TypeOK
  <2>2. PICK q \in BOOLEAN :
          /\ queue[at] /\ out[at] = 0 /\ event' = [event EXCEPT ![at] = "NONE"]
          /\ hooks[at] \/ closeHook[at] \/ q
          /\ queue' = [queue EXCEPT ![at] = q]
    BY <1>3 DEF UpdateEvent
  <2>3. event'[s] = "NONE" /\ queue'[s] = q
    BY <1>1, <2>1, <2>2 DEF IInv, TInv, TypeOK
  <2>4. Life(s)!Update
    BY <1>1, <2>1, <2>2, <2>3 DEF Life!Update
  <2> QED
    BY <1>1, <2>4 DEF Lives, Life!Next
<1> QED
  BY <1>2, <1>3

(* The streams the walk has passed are stopped, the one it breaks off at   *)
(* only loses its hooks, the others see nothing of it.                     *)
LEMMA StopEventLives ==
  ASSUME IInv, ~crash, StopEvent, NEW s \in Streams
  PROVE  Lives(s)
<1>1. PICK refused \in SUBSET Walked, kept \in SUBSET Walked :
        /\ CloseBs({t \in Walked : queue[t] \/ closeHook[t]}, refused)
        /\ queue' = [t \in Streams |->
              queue[t] /\ (t \in Walked /\ closeHook[t] => t \in kept)]
  BY DEF StopEvent
<1>2. /\ event'[s] = IF s \in Walked THEN "NONE" ELSE event[s]
      /\ hooks'[s] = (hooks[s] /\ s \notin Unhooked)
      /\ closeHook'[s] = (closeHook[s] /\ s \notin Walked)
      /\ out'[s] = out[s] /\ event[at] = "STOP"
  BY DEF StopEvent
<1>3. /\ queue'[s] = (queue[s] /\ (s \in Walked /\ closeHook[s] => s \in kept))
      /\ enabled'[s] =
           (enabled[s] /\ (s \notin Walked \/ s \in refused \/ ~(queue[s] \/ closeHook[s])))
  BY <1>1 DEF CloseBs
<1>4. /\ enabled[s] \in BOOLEAN /\ hooks[s] \in BOOLEAN /\ closeHook[s] \in BOOLEAN
      /\ queue[s] \in BOOLEAN /\ out[s] \in Nat /\ crash' \in BOOLEAN
  <2>1. out[s] \in 0 .. MaxOut
    BY DEF IInv, TInv, TypeOK
  <2> QED
    BY <2>1, BsAssumption DEF IInv, TInv, TypeOK, StopEvent
<1>5. Walked \subseteq Unhooked /\ Unhooked \subseteq Walk
  BY WalkType DEF IInv, TInv
<1>6. s \in Unhooked /\ s[2] = MAIN_BS_NUM => event[s] = "STOP"
  <2> SUFFICES ASSUME s \in Walk, s[2] = MAIN_BS_NUM PROVE s = at
    BY <1>2, <1>5
  <2>1. at = <<at[1], at[2]>>
    BY StreamType DEF IInv, TInv, TypeOK
  <2> QED
    BY <2>1 DEF Walk
<1>7. CASE crash'
  BY <1>7 DEF Lives, Life!Next
<1>8. CASE ~crash' /\ s \in Walked
  <2>1. out[s] = 0
    BY <1>4, <1>8 DEF Walked, Undrained, IInv, FramesHaveQueue
  <2>2. s \in Unhooked
    BY <1>5, <1>8
  <2>3. Life(s)!Stopping
    BY <1>6, <2>2 DEF Life!Stopping
  <2>4. Life(s)!Stop
    BY <1>2, <1>3, <1>4, <1>8, <2>1, <2>2, <2>3 DEF Life!Stop
  <2> QED
    BY <1>8, <2>4 DEF Lives, Life!Next
<1>9. CASE ~crash' /\ s \in Unhooked \ Walked
  <2>1. out[s] > 0
    BY <1>9 DEF Walked, Undrained
  <2>2. Life(s)!Stopping
    BY <1>6, <1>9 DEF Life!Stopping
  <2>3. Life(s)!Unhook
    BY <1>2, <1>3, <1>4, <1>9, <2>1, <2>2 DEF Life!Unhook
  <2> QED
    BY <1>9, <2>3 DEF Lives, Life!Next
<1>10. CASE ~crash' /\ s \notin Unhooked
  <2>1. s \notin Walked
    BY <1>5, <1>10
  <2>2. event'[s] = event[s] /\ hooks'[s] = hooks[s] /\ closeHook'[s] = closeHook[s]
    BY <1>2, <1>4, <1>10, <2>1
  <2>3. enabled'[s] = enabled[s] /\ queue'[s] = queue[s] /\ out'[s] = out[s]
    BY <1>2, <1>3, <1>4, <2>1
  <2>4. crash' = crash
    BY <1>4, <1>10 DEF IInv, TInv, TypeOK
  <2> QED
    BY <2>2, <2>3, <2>4 DEF Lives, Life!vars, Life!stream
<1> QED
  BY <1>7, <1>8, <1>9, <1>10

(* do_poll_event sends of main streams that are read and await no event. *)
LEMMA PollEventLives ==
  ASSUME IInv, ~crash, PollEvent, NEW s \in Streams
  PROVE  Lives(s)
<1>1. UNCHANGED <<event, enabled, hooks, closeHook, queue, crash>>
  BY DEF PollEvent, streamVars
<1>2. PICK sent \in SUBSET {t \in Streams : /\ t[2] = MAIN_BS_NUM /\ hooks[t] /\ queue[t]
                                           /\ event[t] = "NONE" /\ out[t] < MaxOut} :
        out' = [t \in Streams |-> IF t \in sent THEN out[t] + 1 ELSE out[t]]
  BY DEF PollEvent
<1>3. CASE s \in sent
  <2>1. Life(s)!Send
    BY <1>1, <1>2, <1>3 DEF Life!Send, Life!stream
  <2> QED
    BY <1>1, <2>1 DEF Lives, Life!Next
<1>4. CASE s \notin sent
  BY <1>1, <1>2, <1>4 DEF Lives, Life!vars, Life!stream
<1> QED
  BY <1>3, <1>4

LEMMA FrmCbLives ==
  ASSUME IInv, ~crash, NEW u \in Streams, FrmCb(u), NEW s \in Streams
  PROVE  Lives(s)
<1>1. CASE s = u
  <2>1. Life(s)!Return
    BY <1>1 DEF FrmCb, Life!Return, Life!stream, streamVars, IInv, TInv, TypeOK
  <2> QED
    BY <2>1 DEF Lives, Life!Next, FrmCb
<1>2. CASE s # u
  BY <1>2 DEF FrmCb, streamVars, IInv, TInv, TypeOK, Lives, Life!vars, Life!stream
<1> QED
  BY <1>1, <1>2

LEMMA StepLives ==
  ASSUME IInv, StopToMain, [Next]_vars, NEW s \in Streams
  PROVE  Lives(s)
<1>1. CASE \/ \E k \in Calls, u \in Streams : BeginCall(k, u)
           \/ LockChannel \/ RaiseFlag \/ ReadFlag \/ CheckEvents \/ ClearFlag
           \/ LockStreams \/ Skip \/ Rotate
  <2>1. UNCHANGED crash
    BY <1>1 DEF BeginCall, LockChannel, RaiseFlag, ReadFlag, CheckEvents, ClearFlag,
                LockStreams, Skip, Rotate
  <2> QED
    BY <1>1, <2>1, QuietType, QuietLives DEF IInv
<1>2. CASE UNCHANGED vars
  BY <1>2, QuietLives DEF vars, streamVars, Quiet
<1>3. CASE ~crash /\ (SetEvent \/ StartEvent \/ UpdateEvent \/ StopEvent \/ PollEvent)
  BY <1>3, SetEventLives, StartEventLives, UpdateEventLives, StopEventLives, PollEventLives
<1>4. ASSUME NEW u \in Streams, ~crash, FrmCb(u) PROVE Lives(s)
  BY <1>4, FrmCbLives
<1> QED
  BY <1>1, <1>2, <1>3, <1>4 DEF Next, Caller, EnqThread, Sent

(* bs_new_event's rotation, its walk over the channel and the flag add     *)
(* nothing to what one stream is promised, for any number of them: it is   *)
(* opened, closed and updated with no frame out, and sends none while an   *)
(* event is pending.                                                       *)
THEOREM StreamsLiveOn == Spec => StreamsLive
<1>1. Init => \A s \in Streams : Life(s)!Init
  <2> SUFFICES ASSUME Init, NEW s \in Streams PROVE Life(s)!Init
    OBVIOUS
  <2> QED
    BY DEF Init, Life!Init
<1>2. IInv /\ StopToMain /\ [Next]_vars =>
        [\A s \in Streams : Life(s)!Next \/ UNCHANGED Life(s)!vars]_vars
  BY StepLives DEF Lives
<1> QED
  BY <1>1, <1>2, Invariance, StopsGoToMain, PTL DEF Spec, StreamsLive
=============================================================================
