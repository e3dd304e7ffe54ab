------------------------------ MODULE AviRecorder ------------------------------
(***************************************************************************)
(* The AVI recorder (src/src/avi_save.c).                                  *)
(*                                                                         *)
(* Avi_Ctrl takes messages from local clients, key by key, and starts an   *)
(* Avi_save thread when recording is enabled and g_rec_status says that    *)
(* none is busy.  A recorder writes file after file: it locks a frame in   *)
(* the shared frame memory (mt_get), writes it, and unlocks the frame it   *)
(* wrote before.  Where it is in the stream is kept in AVI_stream_status,  *)
(* a global that all recorders share, and so is g_rec_status.              *)
(*                                                                         *)
(* A recorder sets the status long after it was started (CheckSDCard       *)
(* mounts the card first), so a second one may be started meanwhile;       *)
(* "overlap" remembers that, and the properties say what holds without it. *)
(*                                                                         *)
(* Abstracted: a frame is its serial number; the length of a recording is  *)
(* in frames; the schedule has no hours or some; the file is the number of *)
(* its frames and the last one.  The frame memory is external: a lock by   *)
(* serial gives that frame, a lock of the newest I-frame that one, and any *)
(* lock may be refused.  Avi_stop, which nobody calls, is not shown.       *)
(***************************************************************************)
EXTENDS Integers, FiniteSets

CONSTANTS
  Recorders,         \* the Avi_save threads there may be at a time
  AVI_TO_CHECK,      \* how many frames until the next look at the lag
  MaxLag,            \* the lag a recorder tolerates (25 in the code)
  MIN_REC_TIME_LEN, MAX_REC_TIME_LEN,
  Gop,               \* external: every Gop-th frame is an I-frame
  Failures,          \* a file or a lock may be refused
  MaxSerial, MaxFiles, MaxMsgs  \* bounds: frames, files, messages

ASSUME RecorderAssumption ==
  /\ AVI_TO_CHECK \in Nat \ {0} /\ MaxLag \in Nat /\ Gop \in Nat \ {0}
  /\ MIN_REC_TIME_LEN \in Nat \ {0}
  /\ MAX_REC_TIME_LEN \in Nat /\ MIN_REC_TIME_LEN <= MAX_REC_TIME_LEN
  /\ Failures \in BOOLEAN
  /\ MaxSerial \in Nat /\ MaxFiles \in Nat /\ MaxMsgs \in Nat

VARIABLES
  g_rec_enable, g_rec_status, g_rec_TimeL, g_rec_schdule,
  streamFlag, SerialBook, SerialLock, check,   \* AVI_stream_status
  cur,      \* serial of the newest frame in the frame memory
  locks,    \* how often each frame is locked there
  rec,      \* the locals of each recorder, see Off
  files,    \* files opened so far
  msgs,     \* messages handled so far
  overlap   \* history: a recorder was started while another one ran

ctrlVars   == <<g_rec_enable, g_rec_TimeL, g_rec_schdule, msgs>>
streamVars == <<streamFlag, SerialBook, SerialLock, check>>
vars == <<ctrlVars, g_rec_status, streamVars, cur, locks, rec, files, overlap>>

Serials   == 1 .. MaxSerial
IFrame(s) == (s - 1) % Gop = 0
LatestI   == cur - ((cur - 1) % Gop)

(* A recorder that does not run: rec_frames and totelFrames, the frame it  *)
(* has locked and not written, the frames in its file and the last one.    *)
Off == [pc |-> "off", rec_frames |-> 0, totelFrames |-> 0, got |-> 0,
        written |-> 0, last |-> 0]

Active(t) == rec[t].pc # "off"

Init ==
  /\ g_rec_enable = 0 /\ g_rec_status = 0
  /\ g_rec_TimeL = MAX_REC_TIME_LEN /\ g_rec_schdule = "never"
  /\ streamFlag = 0 /\ SerialBook = 0 /\ SerialLock = 0 /\ check = 0
  /\ cur = 0 /\ locks = [s \in Serials |-> 0]
  /\ rec = [t \in Recorders |-> Off]
  /\ files = 0 /\ msgs = 0 /\ overlap = FALSE

------------------------------------------------------------------------------
(* Avi_Ctrl: the keys of a message, one at a time (processMsg_avi) *)

(* pthread_create may fail, and so does it when no thread is left. *)
NoThread ==
  /\ Failures \/ \A t \in Recorders : Active(t)
  /\ UNCHANGED <<rec, overlap>>

StartRecorder(t) ==
  /\ ~Active(t)
  /\ rec' = [rec EXCEPT ![t] = [Off EXCEPT !.pc = "start"]]
  /\ overlap' = (overlap \/ \E u \in Recorders : Active(u))

SetEnable(v) ==
  /\ msgs < MaxMsgs /\ msgs' = msgs + 1
  /\ g_rec_enable' = v
  /\ \/ /\ v = 1 /\ g_rec_status = 0
        /\ NoThread \/ \E t \in Recorders : StartRecorder(t)
     \/ /\ v = 0 \/ g_rec_status = 1
        /\ UNCHANGED <<rec, overlap>>
  /\ UNCHANGED <<g_rec_TimeL, g_rec_schdule, g_rec_status, streamVars, cur, locks, files>>

(* Mutant: the upper limit is not enforced. *)
ClampMinOnly(v) == IF v < MIN_REC_TIME_LEN THEN MIN_REC_TIME_LEN ELSE v

Clamp(v) == IF v > MAX_REC_TIME_LEN THEN MAX_REC_TIME_LEN
            ELSE IF v < MIN_REC_TIME_LEN THEN MIN_REC_TIME_LEN ELSE v

SetTimeL(v) ==
  /\ msgs < MaxMsgs /\ msgs' = msgs + 1
  /\ g_rec_TimeL' = Clamp(v)
  /\ UNCHANGED <<g_rec_enable, g_rec_schdule, g_rec_status, streamVars, cur, locks,
                 rec, files, overlap>>

SetSchedule(v) ==
  /\ msgs < MaxMsgs /\ msgs' = msgs + 1
  /\ g_rec_schdule' = v
  /\ UNCHANGED <<g_rec_enable, g_rec_TimeL, g_rec_status, streamVars, cur, locks,
                 rec, files, overlap>>

------------------------------------------------------------------------------
(* Avi_save *)

RecStep(t, from, to) == rec[t].pc = from /\ rec' = [rec EXCEPT ![t].pc = to]

(* The card is mounted; only now the status says busy. *)
SetBusy(t) ==
  /\ RecStep(t, "start", "loop")
  /\ g_rec_status' = 1
  /\ UNCHANGED <<ctrlVars, streamVars, cur, locks, files, overlap>>

(* while (g_rec_enable), save_schedule: outside the schedule it sleeps. *)
TestEnable(t) ==
  /\ \/ g_rec_enable = 0 /\ RecStep(t, "loop", "exit")
     \/ g_rec_enable = 1 /\ g_rec_schdule # "never" /\ RecStep(t, "loop", "open")
  /\ UNCHANGED <<ctrlVars, g_rec_status, streamVars, cur, locks, files, overlap>>

(* Space on the card, the file and its headers, or avi_save_exit_1 and _2. *)
CannotOpen(t) ==
  /\ Failures /\ RecStep(t, "open", "exit")
  /\ UNCHANGED <<ctrlVars, g_rec_status, streamVars, cur, locks, files, overlap>>

(* A new file starts a new stream, but rec_frames goes on counting and the *)
(* frame that is still locked is forgotten.                                *)
OpenFile(t) ==
  /\ rec[t].pc = "open"
  /\ files < MaxFiles /\ files' = files + 1
  /\ rec' = [rec EXCEPT ![t].pc = "frames", ![t].totelFrames = g_rec_TimeL,
                        ![t].written = 0, ![t].last = 0]
  /\ streamFlag' = 1 /\ SerialBook' = -1 /\ SerialLock' = 0
  /\ check' = AVI_TO_CHECK
  /\ UNCHANGED <<ctrlVars, g_rec_status, cur, locks, overlap>>

Lock(s)   == [locks EXCEPT ![s] = @ + 1]
Unlock(s) == [i \in Serials |-> IF i = s /\ locks[i] > 0 THEN locks[i] - 1 ELSE locks[i]]

(* Mutant: a new stream starts with the newest frame, whatever it is. *)
LockNewest(t) ==
  /\ rec[t].pc = "frames" /\ streamFlag = 1 /\ cur > 0
  /\ rec' = [rec EXCEPT ![t].pc = "got", ![t].got = cur]
  /\ locks' = Lock(cur)
  /\ SerialBook' = cur /\ streamFlag' = 0
  /\ UNCHANGED <<ctrlVars, g_rec_status, SerialLock, check, cur, files, overlap>>

(* A new stream starts with the newest I-frame ... *)
LockIFrame(t) ==
  /\ rec[t].pc = "frames" /\ streamFlag = 1 /\ cur > 0
  /\ rec' = [rec EXCEPT ![t].pc = "got", ![t].got = LatestI]
  /\ locks' = Lock(LatestI)
  /\ SerialBook' = LatestI /\ streamFlag' = 0
  /\ UNCHANGED <<ctrlVars, g_rec_status, SerialLock, check, cur, files, overlap>>

(* ... and goes on with the next serial; one not there yet is waited for. *)
LockNext(t) ==
  /\ rec[t].pc = "frames" /\ streamFlag = 0 /\ SerialBook \in 1 .. cur
  /\ rec' = [rec EXCEPT ![t].pc = "got", ![t].got = SerialBook]
  /\ locks' = Lock(SerialBook)
  /\ UNCHANGED <<ctrlVars, g_rec_status, streamVars, cur, files, overlap>>

LockFails(t) ==
  /\ Failures \/ cur = 0
  /\ RecStep(t, "frames", "full")
  /\ streamFlag' = 1 /\ SerialBook' = -1 /\ check' = AVI_TO_CHECK
  /\ UNCHANGED <<ctrlVars, g_rec_status, SerialLock, cur, locks, files, overlap>>

LooksAtLag(t) == IFrame(rec[t].got) /\ check = 0

(* Mutant: the frame written before is unlocked instead. *)
SkipLagWrong(t) ==
  /\ rec[t].pc = "got" /\ LooksAtLag(t) /\ cur - SerialBook > MaxLag
  /\ rec' = [rec EXCEPT ![t].pc = "frames", ![t].got = 0]
  /\ locks' = Unlock(SerialLock)
  /\ streamFlag' = 1 /\ check' = AVI_TO_CHECK
  /\ UNCHANGED <<ctrlVars, g_rec_status, SerialBook, SerialLock, cur, files, overlap>>

(* A recorder that is too far behind drops the I-frame and starts a new    *)
(* stream.  It looks only if the count is 0 just at an I-frame; once the   *)
(* count is -1 it never looks again.                                       *)
SkipLag(t) ==
  /\ rec[t].pc = "got" /\ LooksAtLag(t) /\ cur - SerialBook > MaxLag
  /\ rec' = [rec EXCEPT ![t].pc = "frames", ![t].got = 0]
  /\ locks' = Unlock(SerialBook)
  /\ streamFlag' = 1 /\ check' = AVI_TO_CHECK
  /\ UNCHANGED <<ctrlVars, g_rec_status, SerialBook, SerialLock, cur, files, overlap>>

UnlockPrevious == IF SerialLock > 0 THEN Unlock(SerialLock) ELSE locks

(* rec_frames is compared with totelFrames only: it may stop counting at   *)
(* the longest recording.                                                  *)
Count(n) == IF n < MAX_REC_TIME_LEN THEN n + 1 ELSE n

WriteFrame(t) ==
  /\ rec[t].pc = "got" /\ ~(LooksAtLag(t) /\ cur - SerialBook > MaxLag)
  /\ rec' = [rec EXCEPT ![t].pc = "full", ![t].got = 0, ![t].last = rec[t].got,
                        ![t].rec_frames = Count(@), ![t].written = @ + 1]
  /\ check' = IF LooksAtLag(t) THEN AVI_TO_CHECK
              ELSE IF check >= 0 THEN check - 1 ELSE check
  /\ locks' = UnlockPrevious
  /\ SerialLock' = SerialBook /\ SerialBook' = SerialBook + 1
  /\ UNCHANGED <<ctrlVars, g_rec_status, streamFlag, cur, files, overlap>>

Full(t) == rec[t].rec_frames >= rec[t].totelFrames

TestFull(t) ==
  /\ RecStep(t, "full", IF Full(t) THEN "loop" ELSE "frames")
  /\ UNCHANGED <<ctrlVars, g_rec_status, streamVars, cur, locks, files, overlap>>

(* Mutant: the thread ends without releasing the status. *)
ExitBusy(t) ==
  /\ rec[t].pc = "exit" /\ rec' = [rec EXCEPT ![t] = Off]
  /\ UNCHANGED <<g_rec_status, ctrlVars, streamVars, cur, locks, files, overlap>>

Exit(t) ==
  /\ rec[t].pc = "exit" /\ rec' = [rec EXCEPT ![t] = Off]
  /\ g_rec_status' = 0
  /\ UNCHANGED <<ctrlVars, streamVars, cur, locks, files, overlap>>

------------------------------------------------------------------------------
(* write_rtp_frame puts a frame into the frame memory (mt_write). *)
mt_write ==
  /\ cur < MaxSerial /\ cur' = cur + 1
  /\ UNCHANGED <<ctrlVars, g_rec_status, streamVars, locks, rec, files, overlap>>

AviCtrl == \/ \E v \in {0, 1} : SetEnable(v)
           \/ \E v \in 0 .. MAX_REC_TIME_LEN + 1 : SetTimeL(v)
           \/ \E v \in {"never", "some"} : SetSchedule(v)

AviSave(t) == \/ SetBusy(t) \/ TestEnable(t) \/ CannotOpen(t) \/ OpenFile(t)
              \/ LockIFrame(t) \/ LockNext(t) \/ LockFails(t)
              \/ SkipLag(t) \/ WriteFrame(t) \/ TestFull(t) \/ Exit(t)

Next == AviCtrl \/ (\E t \in Recorders : AviSave(t)) \/ mt_write

Spec == Init /\ [][Next]_vars

(* No recorder sleeps for good. *)
FairSpec == Spec /\ \A t \in Recorders : WF_vars(AviSave(t))

------------------------------------------------------------------------------
(* Properties *)

Pcs == {"off", "start", "loop", "open", "frames", "got", "full", "exit"}

TypeOK ==
  /\ g_rec_enable \in {0, 1} /\ g_rec_status \in {0, 1}
  /\ g_rec_TimeL \in MIN_REC_TIME_LEN .. MAX_REC_TIME_LEN
  /\ g_rec_schdule \in {"never", "some"}
  /\ streamFlag \in {0, 1} /\ SerialBook \in Int
  /\ SerialLock \in Int /\ check \in -1 .. AVI_TO_CHECK
  /\ cur \in 0 .. MaxSerial /\ locks \in [Serials -> Nat]
  /\ rec \in [Recorders -> [pc : Pcs, rec_frames : Nat, totelFrames : Nat,
                            got : 0 .. MaxSerial, written : Nat, last : 0 .. MaxSerial]]
  /\ files \in 0 .. MaxFiles /\ msgs \in 0 .. MaxMsgs /\ overlap \in BOOLEAN

Busy == {"loop", "open", "frames", "got", "full", "exit"}

(* As long as no second recorder was started while the first was mounting  *)
(* the card, every way out of Avi_save releases the status, and it is 1    *)
(* exactly while a recorder is at work.                                    *)
StatusHonest ==
  ~overlap => (g_rec_status = 1 <=> \E t \in Recorders : rec[t].pc \in Busy)

(* A lone recorder never unlocks a frame it does not hold: the frame it is *)
(* about to write and the one it wrote before are locked, also when it has *)
(* locked one frame twice after a new start of the stream.                 *)
LocksHeld ==
  ~overlap =>
    \A s \in Serials :
      locks[s] >= (IF SerialLock = s THEN 1 ELSE 0) +
                  (IF \E t \in Recorders : rec[t].got = s THEN 1 ELSE 0)

(* It holds at most two frames of the frame memory, and one more for each  *)
(* file it has finished, which nobody will ever unlock.                    *)
LocksOf(l) == UNION {{s} \X (1 .. l[s]) : s \in Serials}
LeakBound == ~overlap => Cardinality(LocksOf(locks)) <= files + 1

(* The locks the recorder leaves in the frame memory are those it holds    *)
(* and those it has forgotten, one for each file.                          *)
LocksAccounted == LocksHeld /\ LeakBound

(* What is written to a file can be decoded: a frame follows the one       *)
(* written before it or is an I-frame, also after a refused lock and after *)
(* frames were skipped.                                                    *)
Decodable ==
  [][~overlap' =>
       \A t \in Recorders :
         rec'[t].last \notin {0, rec[t].last} =>
           IFrame(rec'[t].last) \/ rec'[t].last = rec[t].last + 1]_vars

(* What the declaration of g_rec_TimeL says: a file is closed when it has  *)
(* the "record time length".                                               *)
FileHasRecordLength ==
  [][\A t \in Recorders :
       rec[t].pc = "full" /\ rec'[t].pc = "loop" =>
         rec[t].written >= rec[t].totelFrames]_vars

(* What processMsg_avi says it does when recording is enabled and nobody   *)
(* is busy: "start to record thread".                                      *)
EnabledRecords ==
  g_rec_enable = 1 ~> (g_rec_enable = 0 \/ \E t \in Recorders : Active(t))
=============================================================================
