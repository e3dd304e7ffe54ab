------------------------------ MODULE P2PSession ------------------------------
(***************************************************************************)
(* The server for viewers over the Internet (src/src/p2p.c): a listener    *)
(* accepts sessions of the IOTC library and starts a thread for each, the  *)
(* thread handles what its client sends until the client is gone, and the  *)
(* thread of the encoder gives every frame to the sessions that asked for  *)
(* video.  The sessions share the table gClientInfo, one entry and one     *)
(* lock per session number, and, without a lock, the counters              *)
(* p2p_send_status and gOnlineNum and the list of recordings gEventList.   *)
(* `x++' is a read and a write, and other threads come in between.         *)
(*                                                                         *)
(* send_frame_p2p is modelled as GM8126_p2p.h declares it; its only call,  *)
(* rtspd.c:2802, is commented out.  Abstracted: the login, the speaker and *)
(* play back fields of gClientInfo, which no code that is compiled reads,  *)
(* and the PTZ commands, which change no state here.  External: the        *)
(* library, which gives session numbers (Sids) and indexes (Avs) again     *)
(* once they are closed, and whose calls fail when the client is gone.     *)
(***************************************************************************)
EXTENDS Integers, FiniteSets

CONSTANTS
  Sids,        \* session numbers: MAX_CLIENT_NUMBER in the code
  Avs,         \* the library's indexes, more than there are sessions
  MaxSessions, \* bound: sessions accepted
  MaxCmds,     \* bound: commands the clients send
  Uses         \* the clients of a behaviour use the commands in one of these

ASSUME P2PAssumption ==
  /\ Sids \subseteq Nat /\ IsFiniteSet(Sids) /\ Avs \subseteq Nat /\ IsFiniteSet(Avs)
  /\ MaxSessions \in Nat /\ MaxCmds \in Nat
  /\ MaxSessions <= Cardinality(Avs)
  /\ Uses \subseteq SUBSET {"start", "stop", "list", "play"}

VARIABLES
  use,          \* the commands of this behaviour
  listener,     \* p2p_start: where it is, and gOnlineNum as it read it
  accepted,     \* the sessions accepted are 1 .. accepted
  pc,           \* per session: where its thread is
  sid, av,      \* per session: its number, its index
  tmp,          \* per session: a counter as its thread read it
  gone,         \* the sessions whose client is gone
  client,       \* gClientInfo: avIndex, bEnableVideo
  gOnlineNum,
  p2p_send_status,
  gEventList,   \* "none", or what is in it: "blank", "full"
  gbSearchEvent,
  sender,       \* send_frame_p2p: where it is, its client, index and counter;
                \* history: the session it is sending to
  crashed,      \* the program is down
  cmds,
  (* histories: *)
  want,         \* the sessions that asked for video, and did not stop it
  short,        \* the sessions that got a list without the recordings
  asked,        \* the sessions that got a list
  torn,         \* the counters that were changed between a read and its write
  surplus,      \* a session came on that was on, or went off that was not
                \* on, or not counted yet
  struck,       \* the numbers switched off for a session that was there before
  raced         \* a list was made while another one was there

sessionVars == <<accepted, pc, sid, av, tmp, gone>>
tableVars   == <<client, gOnlineNum, p2p_send_status>>
listVars    == <<gEventList, gbSearchEvent, short, asked, raced>>
histVars    == <<want, torn, surplus, struck>>
rest == <<use, listener, accepted, sid, gone, sender, crashed>>
vars == <<use, listener, sessionVars, tableVars, listVars, sender, crashed, cmds, histVars>>

Sessions == 1 .. MaxSessions
NoIndex  == -1

(* The threads that hold the write lock of their entry: a START or a STOP  *)
(* that is not finished.  send_frame_p2p holds the read lock while it      *)
(* sends.                                                                  *)
Locked(i)  == \E t \in Sessions : sid[t] = i /\ pc[t] \in {"started", "stopped"}
Sending(i) == sender.pc = "send" /\ sender.i = i

(* The library: numbers and indexes that are in use.                       *)
Open   == {t \in Sessions : pc[t] \notin {"none", "online", "offline", "done"}}
HasAv  == {t \in Sessions :
             /\ pc[t] \in {"recv", "start", "started", "stop", "stopped", "listreq", "fill",
                           "flag", "answer", "off", "wentoff", "close"}
             /\ av[t] # NoIndex}

(* Which of the free ones it gives is not known; the model: the smallest.  *)
Free(all, used) == CHOOSE i \in all \ used : \A j \in all \ used : i <= j

Init ==
  /\ use \in Uses
  /\ listener = [pc |-> "init", val |-> 0]
  /\ accepted = 0 /\ gone = {}
  /\ pc = [t \in Sessions |-> "none"] /\ tmp = [t \in Sessions |-> 0]
  /\ sid = [t \in Sessions |-> NoIndex] /\ av = [t \in Sessions |-> NoIndex]
  /\ client = [i \in Sids |-> [avIndex |-> NoIndex, video |-> FALSE]]
  /\ gOnlineNum = 0 /\ p2p_send_status = 0
  /\ gEventList = "none" /\ gbSearchEvent = FALSE
  /\ sender = [pc |-> "idle", i |-> NoIndex, av |-> NoIndex, val |-> 0, t |-> 0]
  /\ crashed = FALSE /\ cmds = 0
  /\ want = {} /\ torn = {} /\ surplus = FALSE /\ struck = {}
  /\ short = {} /\ asked = {} /\ raced = FALSE

------------------------------------------------------------------------------
(* The listener: p2p_start *)

(* Without the library or the file of the UID there are no sessions.       *)
Start ==
  /\ listener.pc = "init"
  /\ \E to \in {"listen", "off"} : listener' = [listener EXCEPT !.pc = to]
  /\ UNCHANGED <<use, sessionVars, tableVars, listVars, sender, crashed, cmds,
                 histVars>>

(* IOTC_Listen and pthread_create, which returns no negative number: when  *)
(* there is no thread the session is counted all the same, and stays.      *)
Accept ==
  /\ listener.pc = "listen" /\ accepted < MaxSessions
  /\ Sids \ {sid[t] : t \in Open} # {}
  /\ accepted' = accepted + 1
  /\ sid' = [sid EXCEPT ![accepted'] = Free(Sids, {sid[t] : t \in Open})]
  /\ \E to \in {"serve", "orphan"} : pc' = [pc EXCEPT ![accepted'] = to]
  /\ listener' = [listener EXCEPT !.pc = "count"]
  /\ UNCHANGED <<use, av, tmp, gone, tableVars, listVars, sender, crashed, cmds,
                 histVars>>

(* gOnlineNum++ *)
Count ==
  \/ /\ listener.pc = "count"
     /\ listener' = [pc |-> "add", val |-> gOnlineNum]
     /\ UNCHANGED <<use, sessionVars, tableVars, listVars, sender, crashed, cmds,
                    histVars>>
  \/ /\ listener.pc = "add"
     /\ gOnlineNum' = listener.val + 1 /\ listener' = [pc |-> "listen", val |-> 0]
     /\ torn' = IF gOnlineNum = listener.val THEN torn ELSE torn \cup {"online"}
     /\ UNCHANGED <<use, sessionVars, client, p2p_send_status, listVars, sender,
                    crashed, cmds, want, surplus, struck>>

------------------------------------------------------------------------------
(* The thread of a session: thread_ForAVServerStart, Handle_IOCTRL_Cmd *)

Goto(t, from, to) == pc[t] = from /\ pc' = [pc EXCEPT ![t] = to]

(* avServStart3 waits for the client, which may be refused.                *)
ServStart(t) ==
  /\ \/ Goto(t, "serve", "close") /\ UNCHANGED av
     \/ /\ Goto(t, "serve", "recv")
        /\ av' = [av EXCEPT ![t] = Free(Avs, {av[u] : u \in HasAv})]
  /\ UNCHANGED <<rest, tmp, tableVars, listVars, cmds, histVars>>

(* Mutant: every error is taken for a timeout. *)
RecvOn(t) ==
  /\ t \notin gone /\ cmds < MaxCmds /\ cmds' = cmds + 1
  /\ \E c \in use \cap {"start", "stop"} : Goto(t, "recv", c)
  /\ UNCHANGED <<rest, av, tmp, tableVars, listVars, histVars>>

(* PLAY_START goes through gEventList whether there is one or not. *)
PlayStart(t) == Goto(t, "recv", "recv") /\ crashed' = (gEventList = "none")

(* avRecvIOCtrl: a command, or an error once the client is gone; nothing   *)
(* happens when it times out.                                              *)
Recv(t) ==
  \/ /\ t \notin gone /\ cmds < MaxCmds /\ cmds' = cmds + 1
     /\ \/ "start" \in use /\ Goto(t, "recv", "start") /\ UNCHANGED crashed
        \/ "stop" \in use /\ Goto(t, "recv", "stop") /\ UNCHANGED crashed
        \/ "list" \in use /\ Goto(t, "recv", "listreq") /\ UNCHANGED crashed
        \/ "play" \in use /\ PlayStart(t)
     /\ UNCHANGED <<use, listener, accepted, sid, av, tmp, gone, tableVars,
                    listVars, sender, histVars>>
  \/ /\ t \in gone /\ Goto(t, "recv", "off")
     /\ UNCHANGED <<rest, av, tmp, tableVars, listVars, cmds, histVars>>

(* Mutant: START does not count. *)
RegeditNot(t) ==
  \/ /\ Goto(t, "start", "started") /\ ~Sending(sid[t])
     /\ client' = [client EXCEPT ![sid[t]] = [avIndex |-> av[t], video |-> TRUE]]
     /\ surplus' = (surplus \/ client[sid[t]].video)
     /\ want' = want \cup {t} /\ struck' = struck \ {sid[t]}
     /\ UNCHANGED <<rest, av, tmp, gOnlineNum, p2p_send_status, listVars, cmds,
                    torn>>
  \/ /\ Goto(t, "started", "recv")
     /\ UNCHANGED <<rest, av, tmp, tableVars, listVars, cmds, histVars>>

(* START: regedit_client_to_video, under the lock *)
Regedit(t) ==
  \/ /\ Goto(t, "start", "started") /\ ~Sending(sid[t])
     /\ client' = [client EXCEPT ![sid[t]] = [avIndex |-> av[t], video |-> TRUE]]
     /\ tmp' = [tmp EXCEPT ![t] = p2p_send_status]
     /\ surplus' = (surplus \/ client[sid[t]].video)
     /\ want' = want \cup {t} /\ struck' = struck \ {sid[t]}
     /\ UNCHANGED <<rest, av, gOnlineNum, p2p_send_status, listVars, cmds, torn>>
  \/ /\ Goto(t, "started", "recv")
     /\ p2p_send_status' = tmp[t] + 1 /\ tmp' = [tmp EXCEPT ![t] = 0]
     /\ torn' = IF p2p_send_status = tmp[t] THEN torn ELSE torn \cup {"status"}
     /\ UNCHANGED <<rest, av, client, gOnlineNum, listVars, cmds, want, surplus,
                    struck>>

(* unregedit_client_from_video: bEnableVideo, then a counter that is not 0 *)
Off(t, from, to) ==
  /\ Goto(t, from, to)
  /\ client' = [client EXCEPT ![sid[t]].video = FALSE]
  /\ tmp' = [tmp EXCEPT ![t] = p2p_send_status]
  /\ surplus' = (surplus \/ client[sid[t]].video # (p2p_send_status > 0))
  /\ want' = want \ {t}
  /\ UNCHANGED <<rest, av, gOnlineNum, p2p_send_status, listVars, cmds, torn,
                 struck>>

CountOff(t, from, to) ==
  /\ Goto(t, from, to) /\ tmp' = [tmp EXCEPT ![t] = 0]
  /\ p2p_send_status' = IF tmp[t] > 0 THEN tmp[t] - 1 ELSE p2p_send_status
  /\ torn' = IF tmp[t] = 0 \/ p2p_send_status = tmp[t] THEN torn ELSE torn \cup {"status"}
  /\ UNCHANGED <<rest, av, client, gOnlineNum, listVars, cmds, want, surplus,
                 struck>>

(* Mutant: without the lock. *)
StopUnlocked(t) == Off(t, "stop", "stopped") \/ CountOff(t, "stopped", "recv")

(* STOP waits for a frame that is being sent. *)
Stop(t) ==
  \/ ~Sending(sid[t]) /\ Off(t, "stop", "stopped")
  \/ CountOff(t, "stopped", "recv")

(* Mutant: gbSearchEvent is set first. *)
ListFlagFirst(t) ==
  \/ /\ Goto(t, "listreq", IF gbSearchEvent THEN "answer" ELSE "fill")
     /\ gEventList' = IF gbSearchEvent THEN gEventList ELSE "blank"
     /\ gbSearchEvent' = TRUE /\ UNCHANGED <<short, asked, raced>>
  \/ /\ Goto(t, "fill", "answer") /\ gEventList' = "full"
     /\ UNCHANGED <<gbSearchEvent, short, asked, raced>>
  \/ /\ Goto(t, "answer", "recv")
     /\ asked' = asked \cup {t}
     /\ short' = IF gEventList = "full" THEN short ELSE short \cup {t}
     /\ UNCHANGED <<gEventList, gbSearchEvent, raced>>

(* LISTEVENT_REQ: the list is made for the first session that asks: memory *)
(* without recordings, the recordings, gbSearchEvent; then it is sent.     *)
ListEvent(t) ==
  \/ /\ Goto(t, "listreq", IF gbSearchEvent THEN "answer" ELSE "fill")
     /\ gEventList' = IF gbSearchEvent THEN gEventList ELSE "blank"
     /\ raced' = (raced \/ (~gbSearchEvent /\ gEventList # "none"))
     /\ UNCHANGED <<gbSearchEvent, short, asked>>
  \/ /\ Goto(t, "fill", "flag") /\ gEventList' = "full"
     /\ UNCHANGED <<gbSearchEvent, short, asked, raced>>
  \/ /\ Goto(t, "flag", "answer") /\ gbSearchEvent' = TRUE
     /\ UNCHANGED <<gEventList, short, asked, raced>>
  \/ /\ Goto(t, "answer", "recv")
     /\ asked' = asked \cup {t}
     /\ short' = IF gEventList = "full" THEN short ELSE short \cup {t}
     /\ UNCHANGED <<gEventList, gbSearchEvent, raced>>

List(t) ==
  /\ ListEvent(t)
  /\ UNCHANGED <<rest, av, tmp, tableVars, cmds, histVars>>

(* The end of a session: unregedit_client_from_video, without the lock     *)
End(t) == Off(t, "off", "wentoff") \/ CountOff(t, "wentoff", "close")

(* avServStop and IOTC_Session_Close: index and number may be given again. *)
Close(t) ==
  /\ Goto(t, "close", "online")
  /\ UNCHANGED <<rest, av, tmp, tableVars, listVars, cmds, histVars>>

(* gOnlineNum-- *)
CountDown(t) ==
  \/ /\ Goto(t, "online", "offline") /\ tmp' = [tmp EXCEPT ![t] = gOnlineNum]
     /\ UNCHANGED <<rest, av, tableVars, listVars, cmds, histVars>>
  \/ /\ Goto(t, "offline", "done") /\ tmp' = [tmp EXCEPT ![t] = 0]
     /\ gOnlineNum' = tmp[t] - 1
     /\ torn' = IF gOnlineNum = tmp[t] THEN torn ELSE torn \cup {"online"}
     /\ UNCHANGED <<rest, av, client, p2p_send_status, listVars, cmds, want,
                    surplus, struck>>

------------------------------------------------------------------------------
(* The thread of the encoder: send_frame_p2p *)

Idle == [pc |-> "idle", i |-> NoIndex, av |-> NoIndex, val |-> 0, t |-> 0]

(* The client after i, or the end of the frame.                            *)
NextClient(i) ==
  IF \E j \in Sids : j > i
  THEN [Idle EXCEPT !.pc = "look", !.i = CHOOSE j \in Sids : j > i /\ \A k \in Sids : k > i => k >= j]
  ELSE Idle

NewFrame ==
  /\ sender.pc = "idle" /\ p2p_send_status # 0
  /\ sender' = NextClient(NoIndex)
  /\ UNCHANGED <<use, listener, sessionVars, tableVars, listVars, crashed, cmds,
                 histVars>>

(* Under the read lock: is there someone to send to?                       *)
Look ==
  /\ sender.pc = "look" /\ ~Locked(sender.i)
  /\ LET c == client[sender.i] IN
     sender' = IF c.avIndex < 0 \/ ~c.video THEN NextClient(sender.i)
               ELSE [sender EXCEPT !.pc = "send", !.av = c.avIndex,
                       !.t = CHOOSE t \in Sessions : /\ sid[t] = sender.i /\ av[t] = c.avIndex
                                                     /\ \A u \in Sessions : sid[u] = sender.i => u <= t]
  /\ UNCHANGED <<use, listener, sessionVars, tableVars, listVars, crashed, cmds,
                 histVars>>

(* The index may be closed, or of another session by now.                  *)
Reaches == {t \in HasAv : av[t] = sender.av}

(* Mutant: the queue of a client that is full counts as an error. *)
SendFullIsError ==
  /\ sender.pc = "send"
  /\ \/ sender' = NextClient(sender.i)
     \/ sender' = [sender EXCEPT !.pc = "unreg"]
  /\ UNCHANGED <<use, listener, sessionVars, tableVars, listVars, crashed, cmds,
                 histVars>>

(* avSendFrameData, and the lock is given back.  An error that says the    *)
(* client or the session is gone takes the client off.                     *)
Send ==
  /\ sender.pc = "send"
  /\ \/ sender' = NextClient(sender.i)
     \/ Reaches \subseteq gone /\ sender' = [sender EXCEPT !.pc = "unreg"]
  /\ UNCHANGED <<use, listener, sessionVars, tableVars, listVars, crashed, cmds,
                 histVars>>

(* unregedit_client_from_video, without the lock                           *)
TakeOff ==
  \/ /\ sender.pc = "unreg"
     /\ client' = [client EXCEPT ![sender.i].video = FALSE]
     /\ sender' = [sender EXCEPT !.pc = "count", !.val = p2p_send_status]
     /\ surplus' = (surplus \/ client[sender.i].video # (p2p_send_status > 0))
     /\ struck' = IF \E t \in Sessions : sid[t] = sender.i /\ t > sender.t
                  THEN struck \cup {sender.i} ELSE struck
     /\ UNCHANGED <<use, listener, sessionVars, gOnlineNum, p2p_send_status,
                    listVars, crashed, cmds, want, torn>>
  \/ /\ sender.pc = "count" /\ sender' = NextClient(sender.i)
     /\ p2p_send_status' = IF sender.val > 0 THEN sender.val - 1 ELSE p2p_send_status
     /\ torn' = IF sender.val = 0 \/ p2p_send_status = sender.val THEN torn
                ELSE torn \cup {"status"}
     /\ UNCHANGED <<use, listener, sessionVars, client, gOnlineNum, listVars,
                    crashed, cmds, want, surplus, struck>>

------------------------------------------------------------------------------
(* A client disconnects, or its network is gone.                           *)
Leave(t) ==
  /\ t \in Open /\ pc[t] \notin {"orphan", "close"} /\ t \notin gone /\ gone' = gone \cup {t}
  /\ UNCHANGED <<use, listener, accepted, pc, sid, av, tmp, tableVars, listVars,
                 sender, crashed, cmds, histVars>>

Thread(t) == \/ ServStart(t) \/ Recv(t) \/ Regedit(t) \/ Stop(t) \/ List(t)
             \/ End(t) \/ Close(t) \/ CountDown(t)
Listener  == Start \/ Count \/ Accept
Sender    == NewFrame \/ Look \/ Send \/ TakeOff

Next == /\ ~crashed
        /\ Listener \/ Sender \/ \E t \in Sessions : Thread(t) \/ Leave(t)

Spec == Init /\ [][Next]_vars

(* The threads run; one that waits for a lock gets it, for the sender holds *)
(* one lock only while it copies a frame.                                  *)
FairSpec ==
  /\ Spec /\ WF_vars(~crashed /\ Sender)
  /\ WF_vars(~crashed /\ \E t \in Sessions : Thread(t))
  /\ SF_vars(~crashed /\ \E t \in Sessions : Regedit(t) \/ Stop(t))
------------------------------------------------------------------------------
(* Properties *)

Points == {"none", "serve", "orphan", "recv", "start", "started", "stop", "stopped",
           "listreq", "fill", "flag", "answer", "off", "wentoff", "close",
           "online", "offline", "done"}

TypeOK ==
  /\ use \in Uses /\ cmds \in 0 .. MaxCmds /\ crashed \in BOOLEAN
  /\ listener \in [pc : {"init", "listen", "off", "count", "add"}, val : Int]
  /\ accepted \in 0 .. MaxSessions /\ gone \subseteq Sessions
  /\ pc \in [Sessions -> Points] /\ tmp \in [Sessions -> Int]
  /\ sid \in [Sessions -> Sids \cup {NoIndex}] /\ av \in [Sessions -> Avs \cup {NoIndex}]
  /\ client \in [Sids -> [avIndex : Avs \cup {NoIndex}, video : BOOLEAN]]
  /\ gOnlineNum \in Int /\ p2p_send_status \in Nat
  /\ gEventList \in {"none", "blank", "full"} /\ gbSearchEvent \in BOOLEAN
  /\ sender \in [pc : {"idle", "look", "send", "unreg", "count"}, i : Sids \cup {NoIndex},
                 av : Avs \cup {NoIndex}, val : Nat, t : Sessions \cup {0}]
  /\ want \subseteq Sessions /\ short \subseteq Sessions /\ asked \subseteq Sessions
  /\ torn \subseteq {"online", "status"} /\ struck \subseteq Sids
  /\ surplus \in BOOLEAN /\ raced \in BOOLEAN

(* gOnlineNum is the number of the sessions, less the one the listener has *)
(* started and not counted yet (so it may be -1), until two threads count  *)
(* at the same moment: from then on it is wrong.                           *)
OnlineHonest ==
  "online" \notin torn =>
    gOnlineNum = Cardinality({t \in 1 .. accepted : pc[t] # "done"})
                 - (IF listener.pc \in {"count", "add"} THEN 1 ELSE 0)

(* Whether frames are sent at all hangs on p2p_send_status.  It is the     *)
(* number of the clients with video, those being counted apart, until two  *)
(* threads count at the same moment, or a client that was off went off: a  *)
(* STOP and then the end of the session take two away, and the other       *)
(* clients get no more frames.                                             *)
Counting(P(_)) == Cardinality({t \in Sessions : P(t)})
GoingOff(t)  == pc[t] \in {"stopped", "wentoff"} /\ tmp[t] > 0
StatusHonest ==
  "status" \notin torn /\ ~surplus =>
    p2p_send_status = Cardinality({i \in Sids : client[i].video})
                      - Counting(LAMBDA t : pc[t] = "started") + Counting(GoingOff)
                      + (IF sender.pc = "count" /\ sender.val > 0 THEN 1 ELSE 0)

(* The two counters that threads change without a lock say what they are   *)
(* for: how many sessions there are, and how many frames are sent to.      *)
CountersHonest == TypeOK /\ OnlineHonest /\ StatusHonest

(* A session that stopped the video gets no frame after its STOP, and no   *)
(* session gets one it did not ask for, but for this: when a session ends, *)
(* which takes no lock, the frame that is on its way to it may reach the   *)
(* session that has its index next.                                        *)
FrameWanted ==
  sender.pc = "send" /\ pc[sender.t] \in {"recv", "start", "started", "stop", "stopped"} =>
    \A t \in Reaches : client[sid[t]].video

(* What a session asked for it keeps: only the loss of its client takes    *)
(* the video from it, or the end of a session that had its number before   *)
(* and to which the sender was sending.                                    *)
VideoKept ==
  \A t \in want : pc[t] = "recv" /\ ~client[sid[t]].video => t \in gone \/ sid[t] \in struck

(* A session number comes to the next client with its video off.           *)
NewSessionClean == \A t \in Sessions : pc[t] = "serve" => ~client[sid[t]].video

(* Nobody is sent frames it has not asked for, and nobody inherits them. *)
WantedOnly == FrameWanted /\ NewSessionClean

(* The list of recordings is made once and lent to every session.  All of  *)
(* it reaches every session, unless two of them were the first to ask; and *)
(* a session that has got it can play without bringing the program down.   *)
ListComplete ==
  /\ short # {} => raced
  /\ asked # {} => ~crashed

(* Every session whose client is gone is closed and counted off, unless    *)
(* its thread could not be created.                                        *)
SessionEnds ==
  \A t \in Sessions : t \in gone ~> (pc[t] \in {"done", "orphan"} \/ crashed)
=============================================================================
