--------------------------- MODULE AviRecorderProof ---------------------------
(***************************************************************************)
(* The recorder: proofs that g_rec_status is honest, that frames which are *)
(* used are locked and that every file can be decoded, as long as no       *)
(* recorder was started while another one ran; for any number of threads,  *)
(* frames, files and messages, any lag that is tolerated and any distance  *)
(* of I-frames.                                                            *)
(*                                                                         *)
(* What AVI_stream_status says of the stream is right for one recorder     *)
(* only: the invariant starts from there being one (Alone), and follows    *)
(* its place in the stream through SerialBook and streamFlag (BookInv).    *)
(***************************************************************************)
EXTENDS AviRecorder, FiniteSetTheorems, TLAPS

Alone == \A t, u \in Recorders : Active(t) /\ Active(u) => t = u

BusyInv == g_rec_status = 1 <=> \E t \in Recorders : rec[t].pc \in Busy

(* The frame that was locked is the one that is booked; a stream that goes *)
(* on follows the frame written last.                                      *)
BookOf(t) ==
  /\ rec[t].pc # "got" => rec[t].got = 0
  /\ rec[t].pc = "got" =>
       /\ rec[t].got \in Serials /\ rec[t].got = SerialBook /\ streamFlag = 0
       /\ IFrame(rec[t].got) \/ (rec[t].last # 0 /\ rec[t].got = rec[t].last + 1)
  /\ rec[t].pc \in {"frames", "full"} /\ streamFlag = 0 =>
       rec[t].last # 0 /\ SerialBook = rec[t].last + 1
BookInv == \A t \in Recorders : BookOf(t)

(* What is locked: the frame written last, and that to be written next.    *)
HeldBy(t) ==
  \A s \in Serials :
    /\ SerialLock = s => locks[s] >= 1
    /\ rec[t].got = s => locks[s] >= (IF SerialLock = s THEN 2 ELSE 1)
HeldInv == /\ \A s \in Serials : SerialLock = s => locks[s] >= 1
           /\ \A t \in Recorders : HeldBy(t)

LoneInv == ~overlap => Alone /\ BusyInv /\ BookInv /\ HeldInv

IInv == TypeOK /\ LoneInv
------------------------------------------------------------------------------
(* Arithmetic of I-frames *)

LEMMA Remainder ==
  ASSUME NEW n \in Nat, NEW g \in Nat \ {0}
  PROVE  n % g \in 0 .. n /\ (n - (n % g)) % g = 0
<1>1. n % g \in 0 .. n
  BY SMT
<1>2. n = g * (n \div g) + (n % g) /\ n \div g \in Nat
  BY SMT
<1>3. \A q \in Nat : (g * q) % g = 0 /\ g * q \in Nat
  BY SMT
<1>4. n - (n % g) = g * (n \div g)
  BY <1>1, <1>2, <1>3, SMT
<1> QED
  BY <1>1, <1>2, <1>3, <1>4

(* The newest I-frame is there, and is one. *)
LEMMA LatestIsI ==
  ASSUME TypeOK, cur > 0
  PROVE  LatestI \in Serials /\ LatestI \in 1 .. cur /\ IFrame(LatestI)
<1> DEFINE n == cur - 1
<1>1. n \in Nat /\ cur \in Nat /\ cur <= MaxSerial /\ Gop \in Nat \ {0}
  BY RecorderAssumption DEF TypeOK
<1>2. n % Gop \in 0 .. n /\ (n - (n % Gop)) % Gop = 0
  BY <1>1, Remainder
<1>3. LatestI = cur - (n % Gop) /\ LatestI - 1 = n - (n % Gop)
  BY <1>1, <1>2 DEF LatestI
<1>4. LatestI \in 1 .. cur
  BY <1>1, <1>2, <1>3
<1> QED
  BY <1>1, <1>2, <1>3, <1>4, RecorderAssumption DEF IFrame, Serials
------------------------------------------------------------------------------
(* Types *)

RecType == [pc : Pcs, rec_frames : Nat, totelFrames : Nat, got : 0 .. MaxSerial,
            written : Nat, last : 0 .. MaxSerial]

(* What the steps of a recorder make of its locals. *)
LEMMA LocalsType ==
  ASSUME NEW r \in RecType
  PROVE  /\ \A g \in Serials : [r EXCEPT !.pc = "got", !.got = g] \in RecType
         /\ [r EXCEPT !.pc = "frames", !.got = 0] \in RecType
         /\ \A n \in Nat : [r EXCEPT !.pc = "frames", !.totelFrames = n,
                                   !.written = 0, !.last = 0] \in RecType
         /\ \A n, w \in Nat : [r EXCEPT !.pc = "full", !.got = 0, !.last = r.got,
                                      !.rec_frames = n, !.written = w] \in RecType
<1>1. 0 \in 0 .. MaxSerial /\ "frames" \in Pcs /\ "full" \in Pcs /\ "got" \in Pcs
  BY RecorderAssumption DEF Pcs
<1>2. \A g \in Serials : g \in 0 .. MaxSerial
  BY RecorderAssumption DEF Serials
<1>3. /\ \A g \in Serials : [r EXCEPT !.pc = "got", !.got = g] \in RecType
      /\ [r EXCEPT !.pc = "frames", !.got = 0] \in RecType
  BY <1>1, <1>2, Zenon DEF RecType
<1>4. \A n \in Nat : [r EXCEPT !.pc = "frames", !.totelFrames = n,
                             !.written = 0, !.last = 0] \in RecType
  BY <1>1 DEF RecType
<1>5. \A n, w \in Nat : [r EXCEPT !.pc = "full", !.got = 0, !.last = r.got,
                                !.rec_frames = n, !.written = w] \in RecType
  BY <1>1, Zenon DEF RecType
<1> QED
  BY <1>3, <1>4, <1>5

LEMMA InitType == Init => TypeOK
<1> SUFFICES ASSUME Init PROVE TypeOK
  OBVIOUS
<1>1. Off \in RecType
  BY RecorderAssumption DEF Off, RecType, Pcs
<1>2. /\ 0 \in 0 .. MaxSerial /\ 0 \in 0 .. MaxFiles /\ 0 \in 0 .. MaxMsgs
      /\ 0 \in -1 .. AVI_TO_CHECK /\ MAX_REC_TIME_LEN \in MIN_REC_TIME_LEN .. MAX_REC_TIME_LEN
  BY RecorderAssumption
<1>3. rec \in [Recorders -> RecType] /\ locks \in [Serials -> Nat]
  BY <1>1 DEF Init
<1>4. /\ check \in -1 .. AVI_TO_CHECK /\ g_rec_TimeL \in MIN_REC_TIME_LEN .. MAX_REC_TIME_LEN
      /\ cur \in 0 .. MaxSerial /\ files \in 0 .. MaxFiles /\ msgs \in 0 .. MaxMsgs
      /\ overlap \in BOOLEAN
  BY <1>2 DEF Init
<1>5. /\ g_rec_enable \in {0, 1} /\ g_rec_status \in {0, 1} /\ streamFlag \in {0, 1}
      /\ g_rec_schdule \in {"never", "some"} /\ SerialBook \in Int /\ SerialLock \in Int
  BY DEF Init
<1> QED
  BY <1>3, <1>4, <1>5 DEF TypeOK, RecType

(* What becomes of a recorder keeps its type. *)
LEMMA CtrlType ==
  ASSUME TypeOK, AviCtrl
  PROVE  TypeOK'
<1>1. /\ msgs < MaxMsgs /\ msgs' = msgs + 1 /\ msgs \in Nat /\ MaxMsgs \in Nat
      /\ UNCHANGED <<g_rec_status, streamVars, cur, locks, files>>
  <2>1. /\ msgs < MaxMsgs /\ msgs' = msgs + 1
        /\ UNCHANGED <<g_rec_status, streamVars, cur, locks, files>>
    BY DEF AviCtrl, SetEnable, SetTimeL, SetSchedule, streamVars
  <2> QED
    BY <2>1, RecorderAssumption DEF TypeOK
<1>2. msgs' \in 0 .. MaxMsgs
  BY <1>1
<1>3. ASSUME NEW v \in {0, 1}, SetEnable(v) PROVE TypeOK'
  <2>1. g_rec_enable' \in {0, 1} /\ UNCHANGED <<g_rec_TimeL, g_rec_schdule>>
    BY <1>3 DEF SetEnable
  <2>2. rec' \in [Recorders -> RecType] /\ overlap' \in BOOLEAN
    <3>1. CASE UNCHANGED <<rec, overlap>>
      BY <3>1 DEF TypeOK, RecType
    <3>2. ASSUME NEW t \in Recorders, StartRecorder(t) PROVE rec' \in [Recorders -> RecType]
      <4>1. [Off EXCEPT !.pc = "start"] \in RecType
        BY RecorderAssumption DEF Off, RecType, Pcs
      <4> QED
        BY <4>1, <3>2 DEF StartRecorder, TypeOK, RecType
    <3>3. ASSUME NEW t \in Recorders, StartRecorder(t) PROVE overlap' \in BOOLEAN
      BY <3>3 DEF StartRecorder, TypeOK
    <3> QED
      BY <1>3, <3>1, <3>2, <3>3 DEF SetEnable, NoThread
  <2> QED
    BY <1>1, <1>2, <2>1, <2>2 DEF TypeOK, RecType, streamVars
<1>4. ASSUME NEW v \in 0 .. MAX_REC_TIME_LEN + 1, SetTimeL(v) PROVE TypeOK'
  <2>1. Clamp(v) \in MIN_REC_TIME_LEN .. MAX_REC_TIME_LEN
    BY RecorderAssumption DEF Clamp
  <2> QED
    BY <1>4, <1>1, <1>2, <2>1 DEF SetTimeL, TypeOK, streamVars
<1>5. ASSUME NEW v \in {"never", "some"}, SetSchedule(v) PROVE TypeOK'
  BY <1>5, <1>1, <1>2 DEF SetSchedule, TypeOK, streamVars
<1> QED
  BY <1>3, <1>4, <1>5 DEF AviCtrl

LEMMA StepType ==
  ASSUME TypeOK, NEW t \in Recorders, NEW to \in Pcs, NEW from, RecStep(t, from, to)
  PROVE  rec' \in [Recorders -> RecType]
  BY DEF TypeOK, RecStep, RecType

LEMMA UnlockType ==
  ASSUME TypeOK, NEW s
  PROVE  Unlock(s) \in [Serials -> Nat]
  BY DEF TypeOK, Unlock

LEMMA LockType ==
  ASSUME TypeOK, NEW s \in Serials
  PROVE  Lock(s) \in [Serials -> Nat] /\ Lock(s) = [locks EXCEPT ![s] = locks[s] + 1]
  BY DEF TypeOK, Lock

(* What the steps ask of the constants. *)
LEMMA Bounds ==
  /\ MaxSerial \in Nat /\ AVI_TO_CHECK \in -1 .. AVI_TO_CHECK
  /\ MIN_REC_TIME_LEN .. MAX_REC_TIME_LEN \subseteq Nat
  /\ 0 \in -1 .. AVI_TO_CHECK
  BY RecorderAssumption

(* A recorder's step that moves it on and leaves the rest of it. *)
LEMMA SaveType ==
  ASSUME TypeOK, NEW t \in Recorders, AviSave(t)
  PROVE  TypeOK'
<1>1. rec[t] \in RecType
  BY DEF TypeOK, RecType
<1>2. UNCHANGED <<g_rec_enable, g_rec_TimeL, g_rec_schdule, msgs, cur, overlap>>
  BY DEF AviSave, SetBusy, TestEnable, CannotOpen, OpenFile, LockIFrame, LockNext, LockFails,
         SkipLag, WriteFrame, TestFull, Exit, ctrlVars
<1>3. CASE SetBusy(t)
  BY <1>2, <1>3, StepType DEF SetBusy, Pcs, streamVars, TypeOK, RecType
<1>4. CASE TestEnable(t)
  BY <1>2, <1>4, StepType DEF TestEnable, Pcs, streamVars, TypeOK, RecType
<1>5. CASE CannotOpen(t)
  BY <1>2, <1>5, StepType DEF CannotOpen, Pcs, streamVars, TypeOK, RecType
<1>6. CASE OpenFile(t)
  <2>1. files' \in 0 .. MaxFiles /\ check' \in -1 .. AVI_TO_CHECK
    BY <1>6, RecorderAssumption DEF OpenFile, TypeOK
  <2>2. g_rec_TimeL \in Nat
    BY Bounds DEF TypeOK
  <2>3. [rec[t] EXCEPT !.pc = "frames", !.totelFrames = g_rec_TimeL,
                       !.written = 0, !.last = 0] \in RecType
    BY <1>1, <2>2, LocalsType, Zenon
  <2>4. rec' \in [Recorders -> RecType]
    BY <1>6, <2>3 DEF OpenFile, TypeOK, RecType
  <2> QED
    BY <1>2, <1>6, <2>1, <2>4 DEF OpenFile, TypeOK, RecType
<1>7. CASE LockIFrame(t)
  <2>1. LatestI \in Serials
    BY <1>7, LatestIsI DEF LockIFrame
  <2>2. [rec[t] EXCEPT !.pc = "got", !.got = LatestI] \in RecType
    BY <1>1, <2>1, LocalsType, Zenon
  <2>3. rec' \in [Recorders -> RecType] /\ locks' \in [Serials -> Nat]
    BY <1>7, <2>1, <2>2, LockType DEF LockIFrame, TypeOK, RecType
  <2>4. SerialBook' \in Int
    BY <1>7, <2>1 DEF LockIFrame, Serials
  <2> QED
    BY <1>2, <1>7, <2>3, <2>4 DEF LockIFrame, TypeOK, RecType
<1>8. CASE LockNext(t)
  <2>1. SerialBook \in Serials
    <3>1. SerialBook \in 1 .. cur
      BY <1>8 DEF LockNext
    <3>2. cur \in 0 .. MaxSerial
      BY DEF TypeOK
    <3> QED BY <3>1, <3>2, Bounds DEF Serials
  <2>2. [rec[t] EXCEPT !.pc = "got", !.got = SerialBook] \in RecType
    BY <1>1, <2>1, LocalsType, Zenon
  <2>3. rec' \in [Recorders -> RecType] /\ locks' \in [Serials -> Nat]
    BY <1>8, <2>1, <2>2, LockType DEF LockNext, TypeOK, RecType
  <2> QED
    BY <1>2, <1>8, <2>3 DEF LockNext, TypeOK, RecType, streamVars
<1>9. CASE LockFails(t)
  <2>1. check' \in -1 .. AVI_TO_CHECK
    BY <1>9, Bounds DEF LockFails
  <2> QED
    BY <1>2, <1>9, <2>1, StepType DEF LockFails, Pcs, TypeOK, RecType
<1>10. CASE SkipLag(t)
  <2>1. check' \in -1 .. AVI_TO_CHECK
    BY <1>10, Bounds DEF SkipLag
  <2>2. [rec[t] EXCEPT !.pc = "frames", !.got = 0] \in RecType
    BY <1>1, LocalsType, Zenon
  <2>3. rec' \in [Recorders -> RecType] /\ locks' \in [Serials -> Nat]
    BY <1>10, <2>2, UnlockType DEF SkipLag, TypeOK, RecType
  <2> QED
    BY <1>2, <1>10, <2>1, <2>3 DEF SkipLag, TypeOK, RecType
<1>11. CASE WriteFrame(t)
  <2>1. check' \in -1 .. AVI_TO_CHECK
    BY <1>11, RecorderAssumption DEF WriteFrame, TypeOK
  <2>2. Count(rec[t].rec_frames) \in Nat /\ rec[t].written + 1 \in Nat
    BY <1>1 DEF RecType, Count
  <2>3. [rec[t] EXCEPT !.pc = "full", !.got = 0, !.last = rec[t].got,
                       !.rec_frames = Count(@), !.written = @ + 1] \in RecType
    BY <1>1, <2>2, LocalsType, Zenon
  <2>4. rec' \in [Recorders -> RecType]
    BY <1>11, <2>3 DEF WriteFrame, TypeOK, RecType
  <2>5. locks' \in [Serials -> Nat]
    BY <1>11, UnlockType DEF WriteFrame, UnlockPrevious, TypeOK
  <2>6. SerialLock' \in Int /\ SerialBook' \in Int
    BY <1>11 DEF WriteFrame, TypeOK
  <2> QED
    BY <1>2, <1>11, <2>1, <2>4, <2>5, <2>6 DEF WriteFrame, TypeOK, RecType
<1>12. CASE TestFull(t)
  BY <1>2, <1>12, StepType DEF TestFull, Pcs, streamVars, TypeOK, RecType
<1>13. CASE Exit(t)
  <2>1. Off \in RecType
    BY RecorderAssumption DEF Off, RecType, Pcs
  <2> QED
    BY <1>2, <1>13, <2>1 DEF Exit, streamVars, TypeOK, RecType
<1> QED
  BY <1>3, <1>4, <1>5, <1>6, <1>7, <1>8, <1>9, <1>10, <1>11, <1>12, <1>13 DEF AviSave

LEMMA NextType == TypeOK /\ [Next]_vars => TypeOK'
<1> SUFFICES ASSUME TypeOK, [Next]_vars PROVE TypeOK'
  OBVIOUS
<1>1. CASE mt_write
  BY <1>1, RecorderAssumption DEF mt_write, ctrlVars, streamVars, TypeOK
<1>2. CASE UNCHANGED vars
  BY <1>2 DEF vars, ctrlVars, streamVars, TypeOK
<1> QED
  BY <1>1, <1>2, CtrlType, SaveType DEF Next
------------------------------------------------------------------------------
(* One recorder *)

(* A step is that of a recorder that runs, and leaves the others alone. *)
LEMMA StepOfOne ==
  ASSUME TypeOK, NEW t \in Recorders, AviSave(t)
  PROVE  Active(t) /\ \A u \in Recorders \ {t} : rec'[u] = rec[u]
  BY DEF TypeOK, AviSave, SetBusy, TestEnable, CannotOpen, OpenFile, LockIFrame, LockNext,
         LockFails, SkipLag, WriteFrame, TestFull, Exit, RecStep, Active

(* The steps that lock, write and unlock frames. *)
LEMMA FrameSteps ==
  ASSUME TypeOK, NEW t \in Recorders, BookOf(t), HeldBy(t),
         LockIFrame(t) \/ LockNext(t) \/ SkipLag(t) \/ WriteFrame(t)
  PROVE  BookOf(t)' /\ HeldBy(t)' /\ rec'[t].pc \in Busy /\ g_rec_status' = g_rec_status
<1> DEFINE r == rec[t]
<1>1. r \in RecType /\ locks \in [Serials -> Nat] /\ SerialBook \in Int /\ SerialLock \in Int
  BY DEF TypeOK, RecType
<1>2. CASE LockIFrame(t)
  <2>1. LatestI \in Serials /\ IFrame(LatestI)
    BY <1>2, LatestIsI DEF LockIFrame
  <2> DEFINE s == LatestI
  <2> HIDE DEF s
  <2>2. /\ rec'[t].pc = "got" /\ rec'[t].got = s /\ rec'[t].last = r.last
        /\ locks' = [locks EXCEPT ![s] = locks[s] + 1] /\ SerialBook' = s /\ streamFlag' = 0
        /\ SerialLock' = SerialLock /\ g_rec_status' = g_rec_status
        /\ s \in Serials /\ IFrame(s)
    BY <1>1, <1>2, <2>1, LockType DEF LockIFrame, TypeOK, s
  <2>3. BookOf(t)'
    BY <2>2 DEF BookOf, IFrame
  <2>4. HeldBy(t)'
    BY <1>1, <2>2 DEF HeldBy
  <2> QED
    BY <2>2, <2>3, <2>4 DEF Busy
<1>3. CASE LockNext(t)
  <2>1. SerialBook \in Serials /\ r.pc = "frames" /\ streamFlag = 0
    <3>1. /\ SerialBook \in 1 .. cur /\ cur \in 0 .. MaxSerial /\ MaxSerial \in Nat
          /\ r.pc = "frames" /\ streamFlag = 0
      BY <1>3, RecorderAssumption DEF LockNext, TypeOK
    <3> QED
      BY <3>1 DEF Serials
  <2>2. /\ rec'[t].pc = "got" /\ rec'[t].got = SerialBook /\ rec'[t].last = r.last
        /\ locks' = [locks EXCEPT ![SerialBook] = locks[SerialBook] + 1]
        /\ SerialBook' = SerialBook /\ streamFlag' = streamFlag
        /\ SerialLock' = SerialLock /\ g_rec_status' = g_rec_status
    BY <1>1, <1>3, <2>1, LockType DEF LockNext, TypeOK, streamVars
  <2>3. BookOf(t)'
    BY <2>1, <2>2 DEF BookOf
  <2>4. HeldBy(t)'
    BY <1>1, <2>1, <2>2 DEF HeldBy
  <2> QED
    BY <2>2, <2>3, <2>4 DEF Busy
<1>4. CASE SkipLag(t)
  <2>1. /\ r.pc = "got" /\ r.got = SerialBook /\ r.got \in Serials
        /\ rec'[t].pc = "frames" /\ rec'[t].got = 0 /\ streamFlag' = 1
        /\ locks' = Unlock(SerialBook) /\ SerialLock' = SerialLock /\ g_rec_status' = g_rec_status
    BY <1>4 DEF SkipLag, BookOf, TypeOK
  <2>2. BookOf(t)'
    BY <2>1 DEF BookOf
  <2>3. HeldBy(t)'
    BY <1>1, <2>1, RecorderAssumption DEF HeldBy, Unlock, Serials
  <2> QED
    BY <2>1, <2>2, <2>3 DEF Busy
<1>5. CASE WriteFrame(t)
  <2>1. /\ r.pc = "got" /\ r.got = SerialBook /\ r.got \in Serials /\ streamFlag = 0
        /\ rec'[t].pc = "full" /\ rec'[t].got = 0 /\ rec'[t].last = r.got /\ streamFlag' = streamFlag
        /\ locks' = UnlockPrevious /\ SerialLock' = SerialBook /\ SerialBook' = SerialBook + 1
        /\ g_rec_status' = g_rec_status
    BY <1>5 DEF WriteFrame, BookOf, TypeOK
  <2>2. r.got # 0 /\ 0 \notin Serials
    BY <2>1, RecorderAssumption DEF Serials
  <2>3. BookOf(t)'
    BY <2>1, <2>2 DEF BookOf
  <2>4. HeldBy(t)'
    BY <1>1, <2>1, <2>2 DEF HeldBy, Unlock, UnlockPrevious
  <2> QED
    BY <2>1, <2>3, <2>4 DEF Busy
<1> QED
  BY <1>2, <1>3, <1>4, <1>5

(* The other steps: a new file and a refused lock start a new stream. *)
LEMMA OtherSteps ==
  ASSUME TypeOK, NEW t \in Recorders, BookOf(t), HeldBy(t),
         g_rec_status = 1 <=> rec[t].pc \in Busy,
         \/ SetBusy(t) \/ TestEnable(t) \/ CannotOpen(t) \/ OpenFile(t)
         \/ LockFails(t) \/ TestFull(t) \/ Exit(t)
  PROVE  BookOf(t)' /\ HeldBy(t)' /\ (g_rec_status' = 1 <=> rec'[t].pc \in Busy)
<1>1. rec[t] \in RecType /\ 0 \notin Serials
  BY RecorderAssumption DEF TypeOK, RecType, Serials
<1>2. CASE SetBusy(t)
  BY <1>1, <1>2 DEF SetBusy, RecStep, TypeOK, streamVars, BookOf, HeldBy, Busy
<1>3. CASE TestEnable(t)
  BY <1>1, <1>3 DEF TestEnable, RecStep, TypeOK, streamVars, BookOf, HeldBy, Busy
<1>4. CASE CannotOpen(t)
  BY <1>1, <1>4 DEF CannotOpen, RecStep, TypeOK, streamVars, BookOf, HeldBy, Busy
<1>5. CASE OpenFile(t)
  <2>1. /\ rec[t].pc = "open" /\ rec'[t].pc = "frames" /\ rec'[t].got = rec[t].got
        /\ streamFlag' = 1 /\ SerialLock' = 0 /\ locks' = locks /\ g_rec_status' = g_rec_status
    BY <1>5, <1>1 DEF OpenFile, TypeOK
  <2> QED
    BY <2>1, <1>1 DEF BookOf, HeldBy, Busy
<1>6. CASE LockFails(t)
  BY <1>1, <1>6 DEF LockFails, RecStep, TypeOK, BookOf, HeldBy, Busy
<1>7. CASE TestFull(t)
  BY <1>1, <1>7 DEF TestFull, RecStep, TypeOK, streamVars, BookOf, HeldBy, Busy
<1>8. CASE Exit(t)
  BY <1>1, <1>8 DEF Exit, Off, TypeOK, streamVars, BookOf, HeldBy, Busy
<1> QED
  BY <1>2, <1>3, <1>4, <1>5, <1>6, <1>7, <1>8

(* The others, if there is one recorder, have nothing. *)
LEMMA SaveLone ==
  ASSUME TypeOK, LoneInv, NEW t \in Recorders, AviSave(t)
  PROVE  LoneInv'
<1> SUFFICES ASSUME ~overlap' PROVE Alone' /\ BusyInv' /\ BookInv' /\ HeldInv'
  BY DEF LoneInv
<1>1. ~overlap
  BY DEF AviSave, SetBusy, TestEnable, CannotOpen, OpenFile, LockIFrame, LockNext, LockFails,
         SkipLag, WriteFrame, TestFull, Exit
<1>2. Alone /\ BusyInv /\ BookOf(t) /\ HeldBy(t) /\ BookInv
  BY <1>1 DEF LoneInv, BookInv, HeldInv
<1>3. \A u \in Recorders \ {t} : rec[u].pc = "off" /\ rec[u].got = 0 /\ rec'[u] = rec[u]
  <2>1. Active(t) /\ \A u \in Recorders \ {t} : rec'[u] = rec[u]
    BY StepOfOne
  <2>2. \A u \in Recorders \ {t} : rec[u].pc = "off"
    BY <2>1, <1>2 DEF Alone, Active
  <2> QED
    BY <2>1, <2>2, <1>2 DEF BookInv, BookOf
<1>4. g_rec_status = 1 <=> rec[t].pc \in Busy
  BY <1>2, <1>3 DEF BusyInv, Busy
<1>5. BookOf(t)' /\ HeldBy(t)' /\ (g_rec_status' = 1 <=> rec'[t].pc \in Busy)
  <2>1. CASE LockIFrame(t) \/ LockNext(t) \/ SkipLag(t) \/ WriteFrame(t)
    <3>1. rec[t].pc \in Busy
      BY <2>1 DEF LockIFrame, LockNext, SkipLag, WriteFrame, Busy
    <3> QED
      BY <2>1, <3>1, <1>2, <1>4, FrameSteps
  <2>2. CASE \/ SetBusy(t) \/ TestEnable(t) \/ CannotOpen(t) \/ OpenFile(t)
             \/ LockFails(t) \/ TestFull(t) \/ Exit(t)
    BY <2>2, <1>2, <1>4, OtherSteps
  <2> QED
    BY <2>1, <2>2 DEF AviSave
<1>6. Alone'
  BY <1>3 DEF Alone, Active
<1>7. BusyInv'
  BY <1>3, <1>5 DEF BusyInv, Busy
<1>8. BookInv'
  BY <1>3, <1>5 DEF BookInv, BookOf
<1>9. HeldInv'
  <2>1. 0 \notin Serials
    BY RecorderAssumption DEF Serials
  <2>2. \A s \in Serials : SerialLock' = s => locks'[s] >= 1
    BY <1>5 DEF HeldBy
  <2> QED
    BY <2>1, <2>2, <1>3, <1>5 DEF HeldInv, HeldBy
<1> QED
  BY <1>6, <1>7, <1>8, <1>9

(* Avi_Ctrl starts a recorder when none is busy; that none is at all is    *)
(* what overlap remembers.                                                 *)
LEMMA CtrlLone ==
  ASSUME TypeOK, LoneInv, AviCtrl
  PROVE  LoneInv'
<1> SUFFICES ASSUME ~overlap' PROVE Alone' /\ BusyInv' /\ BookInv' /\ HeldInv'
  BY DEF LoneInv
<1>1. UNCHANGED <<g_rec_status, streamFlag, SerialBook, SerialLock, locks>>
  BY DEF AviCtrl, SetEnable, SetTimeL, SetSchedule, streamVars
<1>2. CASE UNCHANGED <<rec, overlap>>
  BY <1>1, <1>2 DEF LoneInv, Alone, Active, BusyInv, BookInv, BookOf, HeldInv, HeldBy
<1>3. ASSUME NEW t \in Recorders, StartRecorder(t)
      PROVE  Alone' /\ BusyInv' /\ BookInv' /\ HeldInv'
  <2>1. ~overlap /\ \A u \in Recorders : rec[u].pc = "off"
    BY <1>3 DEF StartRecorder, Active
  <2>2. /\ \A u \in Recorders \ {t} : rec'[u] = rec[u]
        /\ rec'[t].pc = "start" /\ rec'[t].got = 0
    BY <1>3 DEF StartRecorder, TypeOK, Off
  <2>3. Alone' /\ BusyInv'
    BY <1>1, <2>1, <2>2 DEF LoneInv, Alone, Active, BusyInv, Busy
  <2>4. BookInv'
    BY <1>1, <2>1, <2>2 DEF LoneInv, BookInv, BookOf
  <2>5. HeldInv'
    <3>1. \A u \in Recorders : rec'[u].got = 0
      BY <2>1, <2>2 DEF LoneInv, BookInv, BookOf
    <3> QED
      BY <3>1, <1>1, <2>1, RecorderAssumption DEF LoneInv, HeldInv, HeldBy, Serials
  <2> QED
    BY <2>3, <2>4, <2>5
<1> QED
  BY <1>2, <1>3 DEF AviCtrl, SetEnable, SetTimeL, SetSchedule, NoThread

LEMMA InitLone == Init => LoneInv
  BY RecorderAssumption
  DEF Init, Off, LoneInv, Alone, Active, BusyInv, Busy, BookInv, BookOf, HeldInv, HeldBy, Serials

LEMMA NextInv == IInv /\ [Next]_vars => IInv'
<1> SUFFICES ASSUME IInv, [Next]_vars PROVE IInv'
  OBVIOUS
<1>1. CASE mt_write \/ UNCHANGED vars
  <2>1. UNCHANGED <<g_rec_status, streamFlag, SerialBook, SerialLock, locks, rec, overlap>>
    BY <1>1 DEF mt_write, vars, streamVars
  <2>2. LoneInv'
    BY <2>1 DEF IInv, LoneInv, Alone, Active, BusyInv, BookInv, BookOf, HeldInv, HeldBy
  <2> QED
    BY <2>2, NextType DEF IInv
<1>2. CASE AviCtrl
  BY <1>2, CtrlLone, CtrlType DEF IInv
<1>3. ASSUME NEW t \in Recorders, AviSave(t) PROVE IInv'
  BY <1>3, SaveLone, SaveType DEF IInv
<1> QED
  BY <1>1, <1>2, <1>3 DEF Next
------------------------------------------------------------------------------
(* The theorems *)

(* The invariant holds in every state of recorders and clients. *)
THEOREM Invariance == Spec => []IInv
<1>1. Init => IInv
  BY InitType, InitLone DEF IInv
<1> QED
  BY <1>1, NextInv, PTL DEF Spec

(* The variables have their types. *)
THEOREM TypeCorrect == Spec => []TypeOK
<1>1. IInv => TypeOK
  BY DEF IInv
<1> QED
  BY <1>1, Invariance, PTL

(* g_rec_status is 1 exactly while the one recorder is at work.            *)
THEOREM StatusIsHonest == Spec => []StatusHonest
<1>1. IInv => StatusHonest
  BY DEF IInv, LoneInv, BusyInv, StatusHonest
<1> QED
  BY <1>1, Invariance, PTL

(* Avi_save unlocks no frame it does not hold.                             *)
THEOREM UsedFramesLocked == Spec => []LocksHeld
<1>1. IInv => LocksHeld
  <2> SUFFICES ASSUME IInv, ~overlap, NEW s \in Serials
               PROVE  locks[s] >= (IF SerialLock = s THEN 1 ELSE 0) +
                                  (IF \E t \in Recorders : rec[t].got = s THEN 1 ELSE 0)
    BY DEF LocksHeld
  <2>1. locks[s] \in Nat
    BY DEF IInv, TypeOK
  <2>2. HeldInv
    BY DEF IInv, LoneInv
  <2> QED
    BY <2>1, <2>2 DEF HeldInv, HeldBy
<1> QED
  BY <1>1, Invariance, PTL

(* The locks that are forgotten: all but the frame that is written and the *)
(* one written before.  Each file but the last has left at most one.       *)
Holds == IF SerialLock # 0 THEN 1 ELSE 0
Gets  == IF \E t \in Recorders : rec[t].got # 0 THEN 1 ELSE 0
LeakInv ==
  ~overlap =>
    /\ SerialLock \in Serials \cup {0} /\ IsFiniteSet(LocksOf(locks))
    /\ files = 0 => /\ Cardinality(LocksOf(locks)) = 0 /\ SerialLock = 0
                    /\ \A t \in Recorders : rec[t].pc \notin {"frames", "got", "full"}
    /\ files > 0 => Cardinality(LocksOf(locks)) + 1 <= files + Holds + Gets

LEMMA OneMoreLock ==
  ASSUME TypeOK, IsFiniteSet(LocksOf(locks)), NEW s \in Serials
  PROVE  /\ IsFiniteSet(LocksOf(Lock(s)))
         /\ Cardinality(LocksOf(Lock(s))) = Cardinality(LocksOf(locks)) + 1
<1> DEFINE new == <<s, locks[s] + 1>>
<1>1. locks \in [Serials -> Nat] /\ Lock(s) = [locks EXCEPT ![s] = locks[s] + 1]
  BY DEF TypeOK, Lock
<1>2. new \notin LocksOf(locks)
  BY <1>1 DEF LocksOf
<1>3. \A u \in Serials : {u} \X (1 .. Lock(s)[u]) =
                        IF u = s THEN ({u} \X (1 .. locks[u])) \cup {new}
                        ELSE {u} \X (1 .. locks[u])
  BY <1>1
<1>4. LocksOf(Lock(s)) = LocksOf(locks) \cup {new}
  BY <1>3 DEF LocksOf
<1> QED
  BY <1>2, <1>4, FS_AddElement

LEMMA OneLockLess ==
  ASSUME TypeOK, IsFiniteSet(LocksOf(locks)), NEW s \in Serials, locks[s] >= 1
  PROVE  /\ IsFiniteSet(LocksOf(Unlock(s)))
         /\ Cardinality(LocksOf(Unlock(s))) = Cardinality(LocksOf(locks)) - 1
<1> DEFINE old == <<s, locks[s]>>
<1>1. /\ locks \in [Serials -> Nat] /\ Unlock(s)[s] = locks[s] - 1
      /\ \A u \in Serials : u # s => Unlock(s)[u] = locks[u]
  BY DEF TypeOK, Unlock
<1>2. old \in LocksOf(locks)
  BY <1>1 DEF LocksOf
<1>3. \A u \in Serials : {u} \X (1 .. Unlock(s)[u]) = ({u} \X (1 .. locks[u])) \ {old}
  BY <1>1
<1>4. LocksOf(Unlock(s)) = LocksOf(locks) \ {old}
  BY <1>3 DEF LocksOf
<1> QED
  BY <1>2, <1>4, FS_RemoveElement

(* A recorder alone, and what it has locked and not yet written. *)
LEMMA LeakStep ==
  ASSUME IInv, LeakInv, NEW t \in Recorders, AviSave(t)
  PROVE  LeakInv'
<1> DEFINE C == Cardinality(LocksOf(locks))
           Using(u) == rec[u].pc \in {"frames", "got", "full"}
<1> SUFFICES ASSUME ~overlap'
             PROVE  /\ SerialLock' \in Serials \cup {0} /\ IsFiniteSet(LocksOf(locks'))
                    /\ files' = 0 => /\ Cardinality(LocksOf(locks')) = 0 /\ SerialLock' = 0
                                     /\ \A u \in Recorders : ~Using(u)'
                    /\ files' > 0 => Cardinality(LocksOf(locks')) + 1 <= files' + Holds' + Gets'
  BY DEF LeakInv, LocksOf, Serials
<1>1. ~overlap
  BY DEF AviSave, SetBusy, TestEnable, CannotOpen, OpenFile, LockIFrame, LockNext, LockFails,
         SkipLag, WriteFrame, TestFull, Exit
<1>2. /\ Alone /\ BookInv /\ HeldInv /\ TypeOK /\ BookOf(t)
      /\ \A s \in Serials : SerialLock = s => locks[s] >= 1
  BY <1>1 DEF IInv, LoneInv, BookInv, HeldInv
<1>3. /\ SerialLock \in Serials \cup {0} /\ IsFiniteSet(LocksOf(locks)) /\ C \in Nat
      /\ files = 0 => C = 0 /\ SerialLock = 0 /\ \A u \in Recorders : ~Using(u)
      /\ files > 0 => C + 1 <= files + Holds + Gets
      /\ files \in Nat /\ 0 \notin Serials
  BY <1>1, <1>2, FS_CardinalityType, RecorderAssumption DEF LeakInv, TypeOK, Serials
<1>4. \A u \in Recorders \ {t} : rec[u].pc = "off" /\ rec[u].got = 0 /\ rec'[u] = rec[u]
  <2>1. Active(t) /\ \A u \in Recorders \ {t} : rec'[u] = rec[u]
    BY <1>2, StepOfOne
  <2>2. \A u \in Recorders \ {t} : rec[u].pc = "off"
    BY <2>1, <1>2 DEF Alone, Active
  <2> QED
    BY <2>1, <2>2, <1>2 DEF BookInv, BookOf
<1>5. /\ Gets = (IF rec[t].got # 0 THEN 1 ELSE 0) /\ Gets' = (IF rec'[t].got # 0 THEN 1 ELSE 0)
      /\ \A u \in Recorders \ {t} : ~Using(u)'
  BY <1>4 DEF Gets
<1>6. CASE SetBusy(t) \/ TestEnable(t) \/ CannotOpen(t) \/ LockFails(t) \/ TestFull(t) \/ Exit(t)
  <2>1. UNCHANGED <<files, locks, SerialLock>>
    BY <1>6 DEF SetBusy, TestEnable, CannotOpen, LockFails, TestFull, Exit, streamVars
  <2>2. rec'[t].got = rec[t].got
    BY <1>2, <1>6 DEF SetBusy, TestEnable, CannotOpen, LockFails, TestFull, Exit, RecStep,
                      TypeOK, Off, BookOf
  <2>3. Using(t)' => Using(t)
    BY <1>2, <1>6 DEF SetBusy, TestEnable, CannotOpen, LockFails, TestFull, Exit, RecStep,
                      TypeOK, Off
  <2> QED
    BY <1>3, <1>5, <2>1, <2>2, <2>3 DEF Holds
<1>7. CASE OpenFile(t)
  <2>1. /\ files' = files + 1 /\ locks' = locks /\ SerialLock' = 0
        /\ rec[t].pc = "open" /\ rec'[t].got = rec[t].got
    BY <1>2, <1>7 DEF OpenFile, TypeOK
  <2>2. rec[t].got = 0
    BY <1>2, <2>1 DEF BookOf
  <2> QED
    BY <1>3, <1>5, <2>1, <2>2 DEF Holds
<1>8. CASE LockIFrame(t) \/ LockNext(t)
  <2>1. PICK s \in Serials : rec'[t].got = s /\ locks' = Lock(s)
    <3>1. CASE LockIFrame(t)
      BY <1>2, <3>1, LatestIsI DEF LockIFrame, TypeOK
    <3>2. CASE LockNext(t)
      <4>1. SerialBook \in 1 .. cur /\ cur \in 0 .. MaxSerial /\ MaxSerial \in Nat
        BY <1>2, <3>2, RecorderAssumption DEF LockNext, TypeOK
      <4>2. SerialBook \in Serials
        BY <4>1 DEF Serials
      <4> QED
        BY <1>2, <3>2, <4>2 DEF LockNext, TypeOK
    <3> QED
      BY <1>8, <3>1, <3>2
  <2>2. /\ rec[t].pc = "frames" /\ files' = files /\ SerialLock' = SerialLock
    BY <1>8 DEF LockIFrame, LockNext, streamVars
  <2>3. IsFiniteSet(LocksOf(locks')) /\ Cardinality(LocksOf(locks')) = C + 1
    BY <1>2, <1>3, <2>1, OneMoreLock
  <2>4. rec[t].got = 0 /\ files > 0 /\ Holds' = Holds
    BY <1>2, <1>3, <2>2 DEF BookOf, Holds
  <2> QED
    BY <1>3, <1>5, <2>1, <2>2, <2>3, <2>4 DEF Holds
<1>9. CASE SkipLag(t)
  <2>1. /\ rec[t].pc = "got" /\ rec[t].got \in Serials /\ rec[t].got = SerialBook
        /\ rec'[t].got = 0 /\ locks' = Unlock(rec[t].got) /\ files' = files
        /\ SerialLock' = SerialLock
    BY <1>2, <1>9 DEF SkipLag, BookOf, TypeOK
  <2>2. locks[rec[t].got] >= 1
    BY <1>2, <2>1 DEF HeldInv, HeldBy, TypeOK
  <2>3. IsFiniteSet(LocksOf(locks')) /\ Cardinality(LocksOf(locks')) = C - 1
    BY <1>2, <1>3, <2>1, <2>2, OneLockLess
  <2>4. rec[t].got # 0 /\ files > 0
    BY <1>3, <2>1
  <2> QED
    BY <1>3, <1>5, <2>1, <2>3, <2>4 DEF Holds
<1>10. CASE WriteFrame(t)
  <2>1. /\ rec[t].pc = "got" /\ rec[t].got \in Serials /\ rec'[t].got = 0
        /\ locks' = UnlockPrevious /\ files' = files /\ SerialLock' = rec[t].got
    BY <1>2, <1>10 DEF WriteFrame, BookOf, TypeOK
  <2>2. rec[t].got # 0 /\ files > 0 /\ SerialLock' # 0 /\ SerialLock' \in Serials
    BY <1>3, <2>1
  <2>3. CASE SerialLock = 0
    <3>1. locks' = locks
      BY <2>1, <2>3 DEF UnlockPrevious
    <3> QED
      BY <1>3, <1>5, <2>1, <2>2, <2>3, <3>1 DEF Holds
  <2>4. CASE SerialLock # 0
    <3>1. SerialLock \in Serials /\ locks[SerialLock] >= 1
      BY <1>2, <1>3, <2>4
    <3>2. locks' = Unlock(SerialLock)
      BY <2>1, <3>1 DEF UnlockPrevious, Serials
    <3>3. IsFiniteSet(LocksOf(locks')) /\ Cardinality(LocksOf(locks')) = C - 1
      BY <1>2, <1>3, <3>1, <3>2, OneLockLess
    <3> QED
      BY <1>3, <1>5, <2>1, <2>2, <2>4, <3>3 DEF Holds
  <2> QED
    BY <2>3, <2>4
<1> QED
  BY <1>6, <1>7, <1>8, <1>9, <1>10 DEF AviSave

(* No more locks than files, and one, stay in the frame memory, none of    *)
(* them on a frame that is used: what Avi_save locks it unlocks after the  *)
(* next frame, but for the last of a file.                                 *)
THEOREM LocksAreAccounted == Spec => []LocksAccounted
<1>1. Init => LeakInv
  <2> SUFFICES ASSUME Init PROVE LeakInv
    OBVIOUS
  <2>1. /\ SerialLock = 0 /\ files = 0 /\ locks = [s \in Serials |-> 0]
        /\ \A t \in Recorders : rec[t].pc = "off"
    BY DEF Init, Off
  <2>2. LocksOf(locks) = {}
    BY <2>1 DEF LocksOf
  <2>3. IsFiniteSet(LocksOf(locks)) /\ Cardinality(LocksOf(locks)) = 0
    BY <2>2, FS_EmptySet
  <2> QED
    BY <2>1, <2>3 DEF LeakInv
<1>2. IInv /\ LeakInv /\ [Next]_vars => LeakInv'
  <2> SUFFICES ASSUME IInv, LeakInv, [Next]_vars PROVE LeakInv'
    OBVIOUS
  <2>1. CASE UNCHANGED <<SerialLock, files, locks, overlap, rec>>
    BY <2>1 DEF LeakInv, LocksOf, Holds, Gets
  <2>2. ASSUME NEW t \in Recorders, StartRecorder(t), UNCHANGED <<SerialLock, files, locks>>
        PROVE  LeakInv'
    <3>1. /\ \A u \in Recorders \ {t} : rec'[u] = rec[u]
          /\ rec'[t].pc = "start" /\ rec'[t].got = 0
      BY <2>2 DEF StartRecorder, Off, IInv, TypeOK
    <3>2. SUFFICES ASSUME ~overlap' PROVE LeakInv'
      BY DEF LeakInv
    <3>3. ~overlap /\ \A u \in Recorders : rec[u].pc = "off"
      BY <2>2, <3>2 DEF StartRecorder, Active
    <3>4. \A u \in Recorders : rec[u].got = 0 /\ rec'[u].got = 0
      BY <3>1, <3>3 DEF IInv, LoneInv, BookInv, BookOf
    <3>5. Holds' = Holds /\ Gets' = Gets /\ LocksOf(locks)' = LocksOf(locks)
      BY <2>2, <3>4 DEF Holds, Gets, LocksOf
    <3> QED
      BY <2>2, <3>1, <3>3, <3>5 DEF LeakInv
  <2>3. AviCtrl => UNCHANGED <<SerialLock, files, locks>> /\
                   (UNCHANGED <<rec, overlap>> \/ \E t \in Recorders : StartRecorder(t))
    BY DEF AviCtrl, SetEnable, SetTimeL, SetSchedule, NoThread, streamVars
  <2>4. mt_write \/ UNCHANGED vars => UNCHANGED <<SerialLock, files, locks, overlap, rec>>
    BY DEF mt_write, vars, streamVars
  <2> QED
    BY <2>1, <2>2, <2>3, <2>4, LeakStep DEF Next
<1>3. IInv /\ LeakInv => LeakBound
  <2> SUFFICES ASSUME IInv, LeakInv, ~overlap
               PROVE  Cardinality(LocksOf(locks)) <= files + 1
    BY DEF LeakBound
  <2>1. Cardinality(LocksOf(locks)) \in Nat /\ files \in Nat
    BY FS_CardinalityType DEF LeakInv, IInv, TypeOK
  <2> QED
    BY <2>1 DEF LeakInv, Holds, Gets
<1> QED
  BY <1>1, <1>2, <1>3, Invariance, UsedFramesLocked, PTL DEF Spec, LocksAccounted

(* Avi_save writes the frame after the last one or an I-frame.             *)
THEOREM FilesDecode == Spec => Decodable
<1>1. IInv /\ [Next]_vars =>
        [~overlap' =>
           \A t \in Recorders :
             rec'[t].last \notin {0, rec[t].last} =>
               IFrame(rec'[t].last) \/ rec'[t].last = rec[t].last + 1]_vars
  <2> SUFFICES ASSUME IInv, [Next]_vars, ~overlap', NEW t \in Recorders,
                      rec'[t].last \notin {0, rec[t].last}
               PROVE  IFrame(rec'[t].last) \/ rec'[t].last = rec[t].last + 1
    OBVIOUS
  <2>1. CASE AviCtrl
    <3>1. rec' = rec \/ \E u \in Recorders : StartRecorder(u)
      BY <2>1 DEF AviCtrl, SetEnable, SetTimeL, SetSchedule, NoThread
    <3> QED
      BY <3>1 DEF StartRecorder, Off, IInv, TypeOK
  <2>2. CASE mt_write \/ UNCHANGED vars
    BY <2>2 DEF mt_write, vars
  <2>3. ASSUME NEW u \in Recorders, AviSave(u)
        PROVE  IFrame(rec'[t].last) \/ rec'[t].last = rec[t].last + 1
    <3>1. u = t
      BY <2>3, StepOfOne DEF IInv
    <3>2. ~overlap
      BY <2>3 DEF AviSave, SetBusy, TestEnable, CannotOpen, OpenFile, LockIFrame, LockNext,
                  LockFails, SkipLag, WriteFrame, TestFull, Exit
    <3>3. WriteFrame(t)
      BY <2>3, <3>1 DEF AviSave, SetBusy, TestEnable, CannotOpen, OpenFile, LockIFrame, LockNext,
                        LockFails, SkipLag, TestFull, Exit, RecStep, Off, IInv, TypeOK
    <3>4. rec'[t].last = rec[t].got /\ rec[t].pc = "got"
      BY <3>3 DEF WriteFrame, IInv, TypeOK
    <3> QED
      BY <3>2, <3>4 DEF IInv, LoneInv, BookInv, BookOf
  <2> QED
    BY <2>1, <2>2, <2>3 DEF Next
<1> QED
  BY <1>1, Invariance, PTL DEF Spec, Decodable
=============================================================================
