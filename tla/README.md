# A TLA+ model of avserver

avserver is the program of a network camera: it takes bitstreams from a
hardware encoder, serves them over RTSP and to peer-to-peer clients, records
them on an SD card, and takes its settings from local clients over Unix
sockets.  This directory holds TLA+ modules of its parts, the TLC runs that
check them on small instances, and proofs checked by TLAPS.

`PROJECT.json` lists the runs, the mutants every property is tested with, the
source lines each definition stands for, the findings, the hazards and the
theorems.

## 1. The system

| Part | Source | State | Operations and actors |
|---|---|---|---|
| Video frame pool | `rtspd.c` 920-1070, 2569-2907, 3280 | per queue: `avail` and `used` lists of slots; the driver's buffers; the librtsp queue | `enq_thread` takes and fills slots (`write_rtp_frame`); the librtsp thread releases them (`frm_cb`) |
| Stream events and encoder channels | `rtspd.c` 2911-3189, 3406-3520 | per stream: `event`, `enabled`, hooks, `qno`; per channel: `enc_fd`, `ubs_mutex`; `rtspd_set_event` | any thread posts START, UPDATE, STOP; `enq_thread` carries them out |
| AVI recorder | `avi_save.c` | `g_rec_enable`, `g_rec_status`, `AVI_stream_status`; frames locked in the shared frame memory | `Avi_Ctrl` handles messages and starts `Avi_save` threads |
| Control servers | `av_server.c`, `avi_save.c` 495-615 | a fixed table of client descriptors | accept, read, `processMsg`, close |
| P2P server | `p2p.c` | `gClientInfo[128]`, `gOnlineNum`, `p2p_send_status` | listener, login thread, a thread for each session, the frame sender |
| Configuration messages | `processMsg.c` | the `g_st*_file` structures, changed flags, presets | Set and Get by key; save, reset, reboot |
| Infrared and day/night | `infrad_ctrl.c`, `av_globle.c` | mode, sensor state, button counter | a polling thread |
| Recording directory | `sd_file.c` | the directories of the SD card | create, find oldest, delete |
| Audio | `rtspd.c` 210-660, `g711s.s` | device descriptors, a ring buffer nobody calls | `enq_thread`, P2P callback |
| Image processor | `isp.c` | the device's registers | ioctls |
| Start | `main.c`, `init_system.c` | configuration files | sequential |

The parts meet in a few places.  `enq_thread` feeds the same frame to librtsp
(`stream_media_enqueue`), to the recorder's frame memory (`mt_write`) and to
the NVR.  librtsp calls back into the program (`frm_cb`, `cmd_cb`) from a
thread of its own.  `processMsg` starts and configures the recorder through
the socket of `Avi_Ctrl` (`rec_cfg_set`), and the recorder asks `av_server`
for the video parameters through its socket (`GetVideoInfo`).

What is hard here: slots and buffers owned by two threads in turn, with a key
written outside the lock; events posted to a thread that takes its flag down
without the lock; multi-step start and stop whose steps may fail; recorder
threads that share a status word and the lock protocol of the frame memory;
sessions whose numbers are given away while the frame sender still works with
them, and counters that threads change without a lock; a picture that two
threads set, and settings that are in a structure, a file, a thread's copy and a
device at once; fixed tables (`VQ_LEN`, descriptors, sessions) at their limit.

## 2. Modules

### FramePool

The pool of one live stream.  `avail`, `used` and `key` are the two lists of
`frame_info[qno]` and the `search_key` of the slots; `held` is what the driver
has handed out, `libq` the library's queue.  `enq`, `data`, `fs` are
`enq_thread`'s program counter and locals, `cb`, `cbfs` those of `frm_cb`.
Every critical section is one action: `TakeVideoFrame`, `PutVideoFrame`, the
search in `FrmCb`; the writes after `take_video_frame` are an action of their
own, `FillSlot`, because another thread can run in between.  `StartEvent`,
`UpdateEvent`, `StopEvent` are the cases of `bs_new_event` for this stream,
with every failure `stream_reg`, `stream_dereg`, `open_bs` and `close_bs` can
return.

`mishit` is a history variable: it is set when a callback is served the slot
that was taken but not yet keyed.  That race exists in the code (a new slot
sits at the head of `used` with the key of its last frame, and the same buffer
address may be in flight); after it the lists may be wrong in every way, so
the properties speak of the behaviours without it (`Sound`), and `CrashCauses`
says that the NULL and stale pointers of `take_video_frame` and `frm_cb` are met
only after it.  It leaves open the crash of a STOP that frees a pool that was
never made (`rtspd.c:3086`), which the model takes and stops at.

What librtsp counts against `VQ_LEN` is not in this repository, so it is a
constant, `HeldWhileSent`: the pool of `VQ_LEN + 1` slots suffices if the
library counts a frame until its callback has returned, and does not if it
takes the frame off first.

### FrameLending

What the pool promises, without slots, keys and search: a buffer the driver has
lent is in the hand, in the queue or with the callback; it is given back
refused or sent, in the order of the queue.  `FramePool!LendsInOrder` maps
`held`, `data` and `libq` to it and the key of the slot the callback holds to
the frame that is sent, and says that the pool implements it until the race
(`broken`).

### StreamLife

The life of one stream as its neighbours see it: an event is posted and carried
out, frames go out and come back.  It has no threads, flags or mutexes; its
promise is that a stream with a frame out is neither opened, updated nor closed,
that no frame goes out while an event is pending, and that only a stream that is off
is opened.  It is what joins FramePool and BsEvent: FramePool has one stream
with all of its pool, BsEvent all streams with a number in place of each pool,
and both implement it.  `FramePool!PoolLives` takes for `out` the slots in use
and the frame `write_rtp_frame` has in hand after it looked at the event and
before its slot is in the list (an event posted in between comes after the
frame); `BsEvent!StreamsLive` takes every stream's variables by themselves,
with an instance for each stream (`Life(s)`).

### BsEvent

All streams of all channels with their events.  The caller's thread and
`enq_thread` take `ubs_mutex` as the code does; `bs_check_event` and the
clearing of `rtspd_set_event` are separate, unlocked actions (`CheckEvents`,
`ClearFlag`).  Of a frame pool only the number of frames out is kept (what
StreamLife says a pool may do with it is what FramePool does).  In this
version only `env_bs_start` is called; `env_bs_stop` has no caller and nobody
posts UPDATE, but `bs_new_event` and `env_set_bs_new_event` implement them and
they are modelled as the interface offers them.  The runs that report a
finding use START alone.

### AviRecorder

`Avi_Ctrl` with its three keys (`SetEnable`, `SetTimeL`, `SetSchedule`), the
`Avi_save` threads and the frame memory they share.  A recorder's `pc` names
the step of the loop: `start` (mounting the card), `loop`, `open`, `frames`,
`got`, `full`, `exit`.  `g_rec_status` is set only after the card was mounted,
so two recorders can be started; `overlap` is a history variable that
remembers it, and the invariants say what holds as long as it has not
happened.  With two of them the status is released by the first that ends while
the other one goes on writing, and both walk the stream with one
`AVI_stream_status`.  Two other windows are findings: the frame count of a file
outlives the file, and an enable can fall between a recorder's last look and
its exit.  The frame memory is external: an array of frames with a lock count.

### CtrlServer

The two loops over `select`, `av_server` and `Avi_Ctrl`, with the kernel's
connections (`conn`, `backlog`) and the clients.  A round is `Select`, then at
most one `Accept`, then a `Serve` or `HangUp` for each reported slot.  The two
servers are joined as in the code: a message about recording makes `av_server`
a client of `Avi_Ctrl`, and a client of kind `keep` (the recorder's
`GetVideoInfo`) leaves its connection open for ever.  `refused` remembers that
a client was closed for want of a slot, and `RefusedMeansKept` says how many
slots are needed for that not to happen.

### Service

What a client may count on, without sockets, queues, tables and rounds: a call is
made, taken up at most once, dropped if there is no room, and ended by its
client, who, if it waits for an answer, ends it only when it was taken up or
dropped.  A client that does not wait can be gone before either.  `ServesCalls`
says that both servers of CtrlServer together implement it; `CallOf` reads the state
of a call off its connection: it is made while the message is unsent or unread,
taken once it was read, over when the server has closed its end and there is no
answer left to read.  ConfigStore and AviRecorder, where messages come one at a
time, each once and with no client to be seen, rest on this.

### ConfigStore

The stored settings.  A place is a file, a key and an index (stream, region,
area); `mem` is the structure in memory, `disk` the file.  The branches of the
switch in `processMsg` are tables (which file, which index, what a Set stores),
with every branch that differs from its neighbours entered as it is in the code:
a clamped bit rate, a boolean compared before it is normalised.  Two have an
action of their own: the protocol, which is compared raw and stored as 0 or 1
(`SetProtocol`), and a Get of the MAC, which overwrites the stored one
(`GetMac`); the other Gets change nothing and are left out.  A message is
handled pair by pair (`SetType`, `SetChannel`, ..., `Store`, `Reset`), then the
end of `processMsg` step by step: if.cfg, the recorder, the overlay process, the
files one by one, the reboot.  `Stop`, a power cut, is possible between any two
of them, `Boot` reads everything again.

The code ignores nearly every error.  With `Failures` each of these may fail,
leaving its target as it was: the ioctls of `set_fps`, `set_bps` and `set_ip_int`
(`Store`), `gen_if_cfg`, the message to the recorder and the one to the overlay
process, during a message and at the start, the writing of a settings file
(`Flush`) and of the protocol's, the copy of a default and its reading
(`ResetFile`, `ResetFails`), and at the start the files of the version and of
the encoder.

The properties compare two places that should agree between messages.  Where
the code lets them differ on purpose, by an omission that is visible in it or by
a failure it does not see, history says which: places the cloud or a Get
changed without saving, that the start filled in, or whose file could not be
written (`past.unsaved`); stream settings that did not reach the encoder
(`missed`); overlay regions the message did not name last, the start does not
send, or whose message was lost (`behind`); a recorder that could not be reached
(`untold`); an if.cfg that could not be written (`unwritten`); files a reset
could not replace (`loc.kept`).  An exception ends when the two agree again by
a later write, message or start.

### Picture

The image registers, the infrared lamp and the two threads that set them.
`mem`, `disk` and `changed` are the settings of the picture as in ConfigStore;
`gbl` is `g_stInfrad_ctl`, the infrared thread's copy, whose fields are read and
written one by one; `dev` and `lamp` are the devices.  `Set` stores a pair, then
`SetDevice` and `SetGlobal` pass it on, each a step of its own; the infrared thread
goes `look`, `sense`, `bright` or `dark`, and switches in two calls (`TintColor`
and `LampOff`, `TintWhite` and `LampOn`).  A driver call may fail and is not repeated
(`told` remembers its outcome); `PowerCut` loses memory and registers and starts
again as `init_system` and `init_isp` do.  `touched` is a history variable: a
client has set the saturation since the last switching.

### P2PSession

The sessions of viewers: the listener that accepts them, a thread for each, and
`send_frame_p2p`, which gives a frame to every client with video (its only call,
`rtspd.c:2802`, is commented out; it is modelled as the header declares it).
A session number and an index go to the next client once they are closed.
`gOnlineNum++` and `p2p_send_status++` are a read and a write; `torn` remembers
that two threads were between them at once.  `surplus` remembers that a client
was taken off that was off already, `struck` the session numbers the sender was
still sending to when they were given away, and `raced` that two sessions were
the first to ask for the list of recordings: each is a state the code can reach,
and the properties say that nothing else makes a counter, a flag or the list
wrong.

### PtzPresets

The table of presets in memory and in the file, and the board, which has the
positions.  The steps of a message are those of `processMsg` and of
`deal_ptz_preset`: the table is changed, the board is told in a datagram that may be
lost (`lost`), and the file is written at the end; a name is given in a step of
its own, and the special presets are named with it.  `Mark` is what
`init_system` does to the table at every start.  `want` is the name a client
gave last, `unsure` the presets whose last change was lost or cut off.

### Proof modules

Each component has one, which extends it: `FramePoolProof` (with the refinements
of FrameLending and StreamLife, and lemmas about heads, tails, removal and concatenation of
sequences in terms of their elements), `BsEventProof` (with that of StreamLife), `AviRecorderProof`,
`CtrlServerProof` (with that of Service), `ConfigStoreProof`, `PictureProof`,
`P2PSessionProof` and `PtzPresetsProof`.

## 3. Runs

| Run | Shows |
|---|---|
| `frame_pool` | slots conserved, frames recorded, causes of the crashes, pool freed only when drained, the pool implements FrameLending and StreamLife (`PoolLives`), events served, buffers returned; 3 buffers, `VQ_LEN = 1` (2 slots), all events, any heap contents |
| `bs_event` | encoders, hooks, queues agree (`StreamsConsistent`), the flag covers the events, a STOP gives everything back, every stream implements StreamLife (`StreamsLive`), events are served; the main streams of 2 channels and a sub stream of one, START, UPDATE and STOP, 2 calls |
| `avi_recorder` | honest status, frame locks held and at most one forgotten for each file (`LocksAccounted`), decodable files; 2 recorders, 5 frames, 2 files, 4 messages, every failure |
| `ctrl_server` | tables hold what was accepted (`TablesHonest`), no read blocks, when clients are turned away; 3 clients, `MAX_LIST_FD = 4`, 5 connections, failing accepts and connects |
| `ctrl_server_live` | everybody is answered, slots come back, the servers implement Service (`ServesCalls`); `MAX_LIST_FD = 3`, 4 connections |
| `config_store` | between messages files, encoder, recorder, overlay (`TargetsFollow`) and if.cfg follow the settings, a reset takes, messages end; one key of each shape alone, and pairs that share a structure, a target or a reset; values 0 and 60, restarts at any step, any write, message or ioctl may fail |
| `picture` | registers and infrared thread follow the settings, lamp and saturation are switched together, a restart brings the picture back, the picture comes to what mode or light asks for; 8 messages, 3 lights, one failing call, one power cut |
| `p2p_session` | when the counters are right (`CountersHonest`), who gets frames (`WantedOnly`), what takes the video from a viewer, when the list is whole, sessions end; 2 sessions on 2 numbers and 2 indexes, 2 commands |
| `ptz_presets` | memory and board agree, names stay, what a restart changes; 4 presets, one marked at the start, two special, 2 names, one lost datagram, one power cut |
| `bs_event_lost` | finding: an event posted while the flag is being cleared waits for ever |
| `avi_length` | finding: from the second file on, a file ends after one pass |
| `avi_restart` | finding: an enable can be lost between a recorder's last look and its exit |

Bounds.  With `VQ_LEN = 1` the library's queue can be full and empty, a frame
can be refused after its slot was taken, both slots can be in use, and one
frame can be in the callback while the next is being taken; the third buffer
is one the driver still has.  The proofs cover every other size.  A run with
liveness uses no symmetry; `avi_recorder` and `ptz_presets`, which have none,
take the recorder threads and the names, which are only compared, as
symmetric.  Two channels, one of them with a second stream, are enough for the main/sub and the
last-of-the-channel cases; `MaxCalls` bounds the number of requests, `MaxOut`
the frames of a stream that are out.

The recorder's `AVI_TO_CHECK`, lag and lengths are scaled down so that a look
at the lag, a skip and the end of a file all happen within five frames and two
files.  `MAX_LIST_FD` and `AVI_LISTEN` are scaled down so that the tables fill;
`MaxConns` bounds the connections a behaviour makes, so that no table stays
full for ever: that clients who come again and again, and keep it full, starve
the others is not excluded.  In ConfigStore a
behaviour uses the keys of one group (`KeyGroups`): one key for each shape a
branch has (a branch that stores with its neighbours' code adds nothing to the
state space but its name), and pairs that share a structure, a target or a
reset.  Of the values (`ValuesOf`), 0 is below the lower limits, which is where
clamping changes what is stored, and 60 is above the 25 frames a second the
encoder starts with.

In `picture` a behaviour's clients send the pairs of one message of `FewPairs`
again and again: the settings two threads write, the thresholds in and out of
order, a value that fits no register, one a register takes and `init_isp` does
not set.  The three lights are below, between and above the thresholds.  Two
sessions are enough for one to inherit the number, the index or the frame of the
other and for a counter to be torn; the commands about the video and those about
the list share no state (`VideoOrList`).  Four presets are one that is marked, one
that is plain, one that is special, and the special one that clears the board;
several presets are touched in one message, and a message is as long as its
client likes.  `MaxFails`, `MaxLost` and `MaxCuts` bound the failures of a
behaviour; the proofs have no such bound.

Deadlock is not checked in runs whose model stops where the process would be
killed or where the callers run out of calls.

Fairness.  `FairSpec` gives weak fairness to `enq_thread` (its loop never
blocks for good: `poll` has a timeout), to the librtsp thread (it sends or
gives up every frame) and to a caller that has begun (it only waits for a
mutex that is always released).  Nothing makes other threads post events or
clients play.

CtrlServer: weak fairness for the two loops, which `select` wakes, and for a
client that has connected to go on to its close, which its code does without
waiting for anything but its answer; of the connections only the forwarding one
of `av_server` is made to happen.  AviRecorder: weak fairness of the recorder
threads, which never block for good.  ConfigStore: the handling thread goes on,
a message has an end (strong fairness of `EndOfMessage`: a message may hold
several resets, but finitely many), and a file that is read again and again is
read some time (strong fairness of `ResetFile`).  If a default file is missing
for good, `do_reset` never returns: the last assumption is what the code needs
and does not enforce.  Picture: weak fairness of av_server, which only waits
for mutexes that are held for an assignment, and of the infrared thread, whose
loop has a sleep of two seconds; clients may stay silent and the light may stay
as it is.  P2PSession: weak fairness of the sender and of the session threads
taken together, whose receive has a timeout, and strong fairness of the steps
that wait for a session's lock, which the sender takes and gives back again and
again.

## 4. Proofs

Each proof module defines an `IInv` that is inductive, has one lemma for each
action or group of actions, and combines them in `Invariance`; the theorems
follow from it.  Together they state every invariant and every safety action
property of the runs that pass, and the four refinements.  Where a run has no
type invariant of its own, the module's `TypeOK` is part of another invariant or
is proved alone (`ConfigStoreProof`, `PtzPresetsProof`).

The assumptions are those of the modules about their constants
(`PoolAssumption`, `BsAssumption`, ...), which the runs evaluate.  Beyond the
types of the constants they say: there are finitely many session numbers and
indexes, and no more sessions than indexes (`P2PAssumption`); the two names the
model gives to `av_server` as a client and to nobody are no clients
(`ServerAssumption`); and the values of the settings are integers
(`ValuesAssumption`).

`FramePoolProof` proves every safety property of `frame_pool` for any
`VQ_LEN`, any set of buffers and any control events.  None of them is inductive
alone: that a callback finds its frame needs that every queued frame is in a
used slot, which needs that no two used slots carry the same key, which needs
that a buffer has one owner, which needs that slots are never lost.  `IInv` is
the conjunction

- `HandInv`: the program counters agree with the locals (`data`, `fs`, `cbfs`);
- `HookInv`: a stream that is read, or whose pool is open, is enabled and will be
  closed; a START waits only for one that is neither;
- `ListInv`: `avail` and `used` share no slot, repeat none, and together are
  the pool;
- `RecordInv`, `OwnerInv`: every queued frame, and no other, is in a keyed
  used slot;
- `BufferInv`: `held` is the disjoint union of the queue and the two hands.

The proofs cover both values of `HeldWhileSent`.

Its last part proves `LendsInOrder` from it: the steps that move no
buffer are stutters of FrameLending, and take, accept, refuse, send and give
back are its steps; that the callback gives back the frame that was sent is
`OwnerInv`.

`PoolLives` needs two facts more (`PostedInv`): a START waits only for a stream
that is off, and a frame `write_rtp_frame` is asked to write is of a stream with
hooks.  The frame goes out of the stream when `write_rtp_frame` sees no event
(`CheckEventLife`), `take_video_frame` only moves it into the list (`TakeLife`),
and it is back when nobody plays (`CheckPlayLife`) or when `put_video_frame` takes
its slot out of the list, whichever thread calls it (`PutLife`).

`BsEventProof` (any channels, streams and requests): that a frame which is out
belongs to a stream with a queue is not inductive, because START makes a new
queue; START is posted only to streams that are not enabled (`StartsFresh`), and
only enabled ones have frames out (`FramesEnabled`).  `StreamsLive` follows from
the same invariant and from STOP going to main streams only (`StopToMain`): the
walk of a STOP is, for the streams it has passed, their stop, for the one it
breaks off at, the loss of its hooks, and nothing for the others
(`StopEventLives`).

`AviRecorderProof` (any number of threads, frames, files and messages): all of
it speaks of one recorder at a time, so `IInv` begins with there being one while
`overlap` is false (`Alone`).  `BookInv` follows its place in the stream through
`SerialBook` and `streamFlag`, which is what makes files decodable; `HeldInv`
counts the locks of the frame written last and the one to be written next.
That at most one lock is forgotten for each file (`LeakBound`) is a count over
all frames, so the locks are counted as a set of pairs, the frame and the number
of the lock: a step adds or takes one pair.  `LeakInv` has the two terms the bound
leaves out, the frame held and the frame just got; a file that is opened makes
the bound larger by the lock its predecessor leaves behind.

`CtrlServerProof` (any clients, any sizes of the tables): that a table is exact
needs that what is queued is in no table and queued once (`QueueHonest`); that no
read blocks needs the exact tables, since only they show that nobody else reads
a client's message between `Select` and `Serve`.

`RefusedMeansKept` is a second induction (`RInv`) on top of that one.  When a
client is refused, every slot has a connection, and the connections that are not
left open must be shown to be of different clients.  They are not at all times:
a client that has its answer closes and comes back before `av_server` has looked
at its old slot.  `PairInv` says that of two such slots one is reported by the
`select` of this round and is freed in it, `HeadInv` that the client at the head
of the queue has no other slot when `accept` takes it, and `ConnInv` follows each
connection through its states, which is where it is used that the clients wait
for their answers.

That the servers implement Service (`CallsAreServed`) needs in addition that what is
queued is either not sent yet or unread, that only those are answered who wait, and
that a client that has stopped waiting had its answer or was closed (`CallShape`).  `CallInv` adds that
`av_server` is in the middle of a message whenever it is a client itself.
Connecting begins a call, reading a message takes it up, and closing it for want
of a slot or, if nobody waited, when its end of stream is read, drops it; every
other step of the servers and of the kernel leaves the calls as they are.

`ConfigStoreProof` (any group of keys, values and indices): the properties
speak of the time between messages, and `IInv` of every step of one.  For each pair
of things that should agree it has a conjunct that names whoever will make them agree
again: the flag of the file, or the reset that is about to read it
(`SavedInv`); the region that is still to be shown (`OverlayInv`); the flag of
the recorder's file (`RecorderInv`); `if_cfg` (`AddressInv`).  An action that may
fail either settles its pair or enters it in `past`, which is the second case of
each step of the proof.  `ResetInv` says which files of `reset_table` are done or
could not be replaced (`loc.kept`), and that nothing but a pair of the same
message changes them afterwards.  All of it rests on what the tables say of
keys and files: the recorder's settings and the address are in files no reset
reads, and none of them is a setting of the encoder or the overlay.

`P2PSessionProof` (any sessions, numbers, indexes and commands): numbers and
indexes are reused, so every conjunct says whose they are.  `SessionInv`: of the
sessions that have had a number only the latest is open, and an index has one owner;
`VideoInv`: an entry whose video is on belongs to a session that is being
served, with its index; `SenderInv`: what the sender knows of the session it is
sending to, at each of its steps and after that session has ended;
`WantInv`: who may have taken a viewer's video; `EventListInv`: which
session makes the list.  The counters (`OnlineHonest`, `StatusHonest`) are
cardinalities of these sets, and each step changes set and counter by one or is
remembered in `torn` or `surplus`.

`PictureProof` (any settings, lights, failures and power cuts): the setting under way
is the only one whose register or copy may lag (`DevInv`, `GblInv`), a file that
is not flagged is the memory (`DiskInv`), which is what a restart needs, and
`SwitchInv` says what the infrared thread has in its hands at each step of a
switching.

`PtzPresetsProof` (any presets, marks, special ones and names): the properties
speak of the moments between two keys.  `StepInv` says which presets are in
flight at each step of a message, `MemInv` that all others agree with the board,
`DiskInv` and `SavedInv` what the file has of those that were not touched, which
is what a power cut falls back on.

Only model-checked: liveness, which is out of the reach of the provers
(`EventServed` of the pool and of the streams, `BufferReturns`, `Answered`,
`Reclaimed`, `MessageEnds`, `LightFollowed`, `SessionEnds`), and the three
findings, which are counterexamples.

Some properties hold but for a race or a failure that is visible in the code, and
a history variable or a guard names that case: `Sound` and `mishit` (FramePool),
the flag that was lost (BsEvent), overlapping recorders (`StatusHonest`,
`LocksAccounted`), torn counts (P2PSession), a saturation set while the lamp is
switched (`SwitchedTogether`), the presets a start marks (`RestartKeeps`), and
the failures of ConfigStore.  They say that nothing else breaks the property;
they do not show that the case named is harmless.

## 5. Not modelled

- `isp.c` beyond the registers of Picture: exposure, gamma and gain pass a value
  to a device and keep nothing.  `g711s.s` and audio: one thread with blocking
  device calls and no state shared with another part.
- The recording directory: the test at `sd_file.c:216`, which is to skip what is
  not a directory of recordings, is true for every name, so no directory is ever
  found and nothing is deleted; the recording ends instead (`CannotOpen` in
  AviRecorder).
- Of `processMsg`: the users (a name that is not found leads beside the table,
  and the change is not flagged for saving), PTZ movements, which keep nothing,
  and the resolution commands, which run a script.  What a Get answers is left out but for that of the
  MAC, which changes the stored one (1970).  The socket to the overlay process is
  closed twice (3703, 3715).  Addresses from DHCP are not
  modelled.
- The reset button: the message that `reset_sys` sends is overwritten with its end
  mark (`infrad_ctrl.c:84`), so that no pair is in it.
- The login thread of the P2P server, which changes no state, and its audio and
  playback flags, which no compiled code reads.
- `Avi_stop` and `adata_fifo`, which have no caller; the order in which `main`
  starts the parts; the parameters of the encoder; logging; the external
  libraries beyond what their callers rely on.

## 6. Plan

| | Module | State |
|---|---|---|
| 1 | FramePool, FrameLending | checked, safety and refinement proved |
| 2 | BsEvent | checked, safety proved, refinement of StreamLife too |
| 3 | AviRecorder | checked, safety proved |
| 4 | CtrlServer, Service | checked, safety and refinement proved |
| 5 | ConfigStore | checked, safety proved; left: an abstract specification in which a message takes effect as a whole or, after a power cut, file by file. It needs the settings at the start of the message, which neither the code nor the model keeps |
| 6 | PtzPresets | checked and proved; the users would stand beside it |
| 7 | P2PSession | checked, safety proved |
| 8 | Picture | checked, safety proved |
| 9 | StreamLife, which joins FramePool and BsEvent | checked and proved: both implement it |
