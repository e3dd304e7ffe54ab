---------------------------- MODULE P2PSessionProof ----------------------------
(***************************************************************************)
(* The sessions of viewers: proofs that the counters are right as long as  *)
(* no two threads count at once, that frames go to those who want them,    *)
(* that what a viewer asked for it keeps, and that the list of recordings  *)
(* is whole; for any number of sessions, numbers, indexes and commands.    *)
(*                                                                         *)
(* A number and an index are given again as soon as they are closed, so    *)
(* all of it rests on who has them: of the sessions with one number only   *)
(* the latest is open (SessionInv), the video of an entry is that of the   *)
(* open one (VideoInv), and the sender, which works with what it read,     *)
(* knows which session that was (SenderInv).                               *)
(***************************************************************************)
EXTENDS P2PSession, FiniteSetTheorems, TLAPS

(* A session that can be asked for video: its thread reads and handles the *)
(* commands, and has not gone through unregedit_client_from_video yet.     *)
Active == {"recv", "start", "started", "stop", "listreq", "fill", "flag", "answer", "off"}

Unserved == {"none", "serve", "orphan"}
Counts   == {"started", "stopped", "wentoff"}

SessionInv ==
  /\ \A t \in Sessions : /\ pc[t] = "none" <=> t > accepted
                         /\ sid[t] \in Sids <=> pc[t] # "none"
                         /\ pc[t] \in Unserved => av[t] = NoIndex
                         /\ pc[t] \in Active \cup {"stopped", "wentoff"} => av[t] \in Avs
                         /\ pc[t] \in Counts => tmp[t] \in Nat
  /\ \A t \in Open : \A u \in Sessions : sid[u] = sid[t] => u <= t
  /\ \A t, u \in HasAv : av[t] = av[u] => t = u

VideoInv ==
  \A i \in Sids : client[i].video =>
    \E t \in Sessions : pc[t] \in Active /\ sid[t] = i /\ av[t] = client[i].avIndex

SenderInv ==
  /\ sender.pc # "idle" => sender.i \in Sids
  /\ sender.pc \in {"send", "unreg"} =>
       /\ sender.t \in Sessions /\ sid[sender.t] = sender.i
       /\ av[sender.t] = sender.av /\ pc[sender.t] \notin Unserved
  /\ sender.pc = "send" =>
       /\ pc[sender.t] # "stopped"
       /\ pc[sender.t] \in Active => client[sender.i].video
  /\ sender.pc = "unreg" /\ pc[sender.t] \in Active \cup {"stopped"} => sender.t \in gone

WantInv ==
  \A t \in want : /\ pc[t] \in Active
                  /\ client[sid[t]].video \/ t \in gone \/ sid[t] \in struck

(* The one thread that makes the list, as long as only one does. *)
EventListInv ==
  /\ crashed => gEventList = "none"
  /\ gEventList = "none" => /\ asked = {} /\ ~gbSearchEvent
                            /\ \A t \in Sessions : pc[t] \notin {"fill", "flag", "answer"}
  /\ ~raced =>
       /\ short = {} /\ (gbSearchEvent => gEventList = "full")
       /\ \A t \in Sessions : /\ pc[t] = "fill" => gEventList = "blank"
                              /\ pc[t] \in {"flag", "answer"} => gEventList = "full"
       /\ \A t, u \in Sessions : pc[t] = "fill" /\ pc[u] = "fill" => t = u

IInv == /\ TypeOK /\ SessionInv /\ VideoInv /\ SenderInv /\ WantInv /\ EventListInv
        /\ OnlineHonest /\ StatusHonest
------------------------------------------------------------------------------
(* A set of numbers that is not empty has a first one. *)
LEMMA FirstOf ==
  ASSUME NEW T, T \subseteq Nat, T # {}
  PROVE  \E x \in T : \A y \in T : x <= y
<1> DEFINE Less == {ss \in Nat \X Nat : ss[1] < ss[2]}
<1>1. IsWellFoundedOn(Less, Nat)
  BY NatLessThanWellFounded DEF OpToRel
<1>2. \E x \in T : \A y \in T : <<y, x>> \notin Less
  <2> HIDE DEF Less
  <2> QED BY <1>1, WFMin
<1>3. PICK x \in T : \A y \in T : <<y, x>> \notin Less
  BY <1>2
<1>4. ASSUME NEW y \in T PROVE x <= y
<2>1. <<y, x>> \in Nat \X Nat /\ <<y, x>>[1] = y /\ <<y, x>>[2] = x
  OBVIOUS
<2>2. ~(y < x)
  BY <1>3, <2>1
<2> QED BY <2>2
<1> QED BY <1>4

(* Of the numbers that are free the library gives one. *)
LEMMA FreeIsFree ==
  ASSUME NEW all, NEW used, all \subseteq Nat, all \ used # {}
  PROVE  Free(all, used) \in all \ used
<1>1. \E x \in all \ used : \A y \in all \ used : x <= y
  BY FirstOf
<1> QED BY <1>1 DEF Free

(* The sender goes on with a client or is idle. *)
LEMMA NextClientShape ==
  ASSUME NEW i \in Sids \cup {NoIndex}
  PROVE  \/ NextClient(i) = Idle
         \/ \E j \in Sids : NextClient(i) = [pc |-> "look", i |-> j, av |-> NoIndex,
                                             val |-> 0, t |-> 0]
<1> DEFINE T == {j \in Sids : j > i}
<1>1. CASE T = {}
  BY <1>1, Zenon DEF NextClient
<1>2. CASE T # {}
<2>1. T \subseteq Nat
  BY P2PAssumption
<2>2. \E j \in T : \A k \in T : j <= k
  BY <1>2, <2>1, FirstOf
<2>3. Sids \subseteq Nat /\ i \in Int
  BY P2PAssumption DEF NoIndex
<2>4. \E j0 \in Sids : j0 > i /\ \A k \in Sids : k > i => k >= j0
  BY <2>2, <2>3
<2> DEFINE j0 == CHOOSE j0 \in Sids : j0 > i /\ \A k \in Sids : k > i => k >= j0
<2>5. j0 \in Sids
  BY <2>4
<2>6. NextClient(i) = [Idle EXCEPT !.pc = "look", !.i = j0]
  BY <2>4 DEF NextClient
<2> HIDE DEF j0
<2>7. NextClient(i) = [pc |-> "look", i |-> j0, av |-> NoIndex, val |-> 0, t |-> 0]
  BY <2>6 DEF Idle
<2> QED BY <2>5, <2>7
<1> QED BY <1>1, <1>2
(* There are more indexes than sessions, so one that starts gets one. *)
LEMMA IndexLeft ==
  ASSUME TypeOK, NEW t \in Sessions, pc[t] = "serve"
  PROVE  Free(Avs, {av[u] : u \in HasAv}) \in Avs \ {av[u] : u \in HasAv}
<1> DEFINE Used == {av[u] : u \in HasAv}
<1>1. Avs \subseteq Nat /\ IsFiniteSet(Avs) /\ Cardinality(Avs) >= MaxSessions
      /\ MaxSessions \in Nat /\ Cardinality(Avs) \in Nat
  BY P2PAssumption, FS_CardinalityType
<1>2. IsFiniteSet(Sessions) /\ Cardinality(Sessions) = MaxSessions
  BY <1>1, FS_Interval DEF Sessions
<1>3. IsFiniteSet(Sessions \ {t}) /\ Cardinality(Sessions \ {t}) = MaxSessions - 1
  BY <1>2, FS_RemoveElement
<1>4. HasAv \in SUBSET (Sessions \ {t})
  BY DEF HasAv
<1>5. IsFiniteSet(HasAv) /\ Cardinality(HasAv) <= MaxSessions - 1
      /\ Cardinality(HasAv) \in Nat
  BY <1>3, <1>4, FS_Subset, FS_CardinalityType
<1>6. Avs \ Used # {} => Free(Avs, Used) \in Avs \ Used
<2> HIDE DEF Used
<2> QED BY <1>1, FreeIsFree
<1>7. SUFFICES ASSUME Avs \subseteq Used PROVE FALSE
  BY <1>6
<1> DEFINE f == [u \in HasAv |-> av[u]]
<1>8. f \in Surjection(HasAv, Avs)
<2>1. f \in [HasAv -> Avs]
  BY DEF HasAv, TypeOK
<2>2. \A i \in Avs : \E u \in HasAv : f[u] = i
  BY <1>7
<2> QED BY <2>1, <2>2 DEF Surjection
<1>9. Cardinality(Avs) <= Cardinality(HasAv)
  <2> HIDE DEF f
  <2> QED BY <1>5, <1>8, FS_Surjection
<1> QED BY <1>1, <1>5, <1>9

LEMMA IndexGiven ==
  ASSUME TypeOK, NEW t \in Sessions, ServStart(t)
  PROVE  \/ Goto(t, "serve", "close") /\ UNCHANGED av
         \/ /\ Goto(t, "serve", "recv")
            /\ \E n \in Avs : av' = [av EXCEPT ![t] = n] /\ \A u \in HasAv : av[u] # n
<1>1. CASE Goto(t, "serve", "close") /\ UNCHANGED av
  BY <1>1
<1>2. CASE Goto(t, "serve", "recv")
           /\ av' = [av EXCEPT ![t] = Free(Avs, {av[u] : u \in HasAv})]
<2>1. Free(Avs, {av[u] : u \in HasAv}) \in Avs \ {av[u] : u \in HasAv}
  BY <1>2, IndexLeft DEF Goto
<2> QED BY <1>2, <2>1
<1> QED BY <1>1, <1>2 DEF ServStart

(* A number that is given is one no open session has. *)
LEMMA NumberGiven ==
  ASSUME TypeOK, Accept
  PROVE  /\ accepted + 1 \in Sessions
         /\ \E n \in Sids : /\ \A u \in Open : sid[u] # n
                            /\ sid' = [sid EXCEPT ![accepted + 1] = n]
<1> DEFINE Used == {sid[u] : u \in Open}
<1>1. Free(Sids, Used) \in Sids \ Used
<2>1. Sids \ Used # {}
  BY DEF Accept
<2>2. Sids \subseteq Nat
  BY P2PAssumption
<2> HIDE DEF Used
<2> QED BY <2>1, <2>2, FreeIsFree
<1>2. accepted + 1 \in Sessions
<2>1. MaxSessions \in Nat
  BY P2PAssumption
<2>2. accepted \in 0 .. MaxSessions
  BY DEF TypeOK
<2>3. accepted < MaxSessions
  BY DEF Accept
<2> QED BY <2>1, <2>2, <2>3 DEF Sessions
<1> QED BY <1>1, <1>2 DEF Accept

------------------------------------------------------------------------------
(* TypeOK in four parts. *)
ThreadTypes ==
  /\ use \in Uses /\ cmds \in 0 .. MaxCmds /\ crashed \in BOOLEAN
  /\ listener \in [pc : {"init", "listen", "off", "count", "add"}, val : Int]
  /\ accepted \in 0 .. MaxSessions /\ gone \subseteq Sessions
  /\ pc \in [Sessions -> Points] /\ tmp \in [Sessions -> Int]
  /\ sid \in [Sessions -> Sids \cup {NoIndex}] /\ av \in [Sessions -> Avs \cup {NoIndex}]

TableTypes ==
  /\ client \in [Sids -> [avIndex : Avs \cup {NoIndex}, video : BOOLEAN]]
  /\ gOnlineNum \in Int /\ p2p_send_status \in Nat

SenderType ==
  sender \in [pc : {"idle", "look", "send", "unreg", "count"}, i : Sids \cup {NoIndex},
              av : Avs \cup {NoIndex}, val : Nat, t : Sessions \cup {0}]

HistoryTypes ==
  /\ gEventList \in {"none", "blank", "full"} /\ gbSearchEvent \in BOOLEAN
  /\ want \subseteq Sessions /\ short \subseteq Sessions /\ asked \subseteq Sessions
  /\ torn \subseteq {"online", "status"} /\ struck \subseteq Sids
  /\ surplus \in BOOLEAN /\ raced \in BOOLEAN

LEMMA TypeParts == TypeOK <=> ThreadTypes /\ TableTypes /\ SenderType /\ HistoryTypes
<1>1. TypeOK => ThreadTypes
  BY DEF TypeOK, ThreadTypes
<1>2. TypeOK => TableTypes /\ SenderType
  BY DEF TypeOK, TableTypes, SenderType
<1>3. TypeOK => HistoryTypes
  BY DEF TypeOK, HistoryTypes
<1>4. ThreadTypes /\ TableTypes /\ SenderType /\ HistoryTypes => TypeOK
  BY ZenonT(60) DEF TypeOK, ThreadTypes, TableTypes, SenderType, HistoryTypes
<1> QED BY <1>1, <1>2, <1>3, <1>4

(* What taking a client off does to the table. *)
LEMMA TakenOff ==
  ASSUME TableTypes, NEW i \in Sids, client' = [client EXCEPT ![i].video = FALSE]
  PROVE  /\ client' \in [Sids -> [avIndex : Avs \cup {NoIndex}, video : BOOLEAN]]
         /\ ~client'[i].video
         /\ \A j \in Sids : /\ client'[j].avIndex = client[j].avIndex
                            /\ j # i => client'[j].video = client[j].video
<1>1. /\ ~client'[i].video
      /\ \A j \in Sids : /\ client'[j].avIndex = client[j].avIndex
                         /\ j # i => client'[j].video = client[j].video
  BY DEF TableTypes
<1>2. \A j \in Sids : [client[j] EXCEPT !.video = FALSE]
                        \in [avIndex : Avs \cup {NoIndex}, video : BOOLEAN]
  BY DEF TableTypes
<1>3. client' \in [Sids -> [avIndex : Avs \cup {NoIndex}, video : BOOLEAN]]
  BY <1>2 DEF TableTypes
<1> QED BY <1>1, <1>3

(* What asking for video does to it. *)
LEMMA PutOn ==
  ASSUME TableTypes, NEW i \in Sids, NEW a \in Avs,
         client' = [client EXCEPT ![i] = [avIndex |-> a, video |-> TRUE]]
  PROVE  /\ client' \in [Sids -> [avIndex : Avs \cup {NoIndex}, video : BOOLEAN]]
         /\ client'[i].video /\ client'[i].avIndex = a
         /\ \A j \in Sids : j # i => client'[j] = client[j]
  BY DEF TableTypes

(* The look at a client with video finds who it is. *)
LEMMA LookFinds ==
  ASSUME TypeOK, SessionInv, VideoInv, SenderInv, Look
  PROVE  \/ sender' = NextClient(sender.i) /\ sender.i \in Sids
         \/ \E t \in Sessions :
              /\ sid[t] = sender.i /\ pc[t] \in Active \ {"started"}
              /\ av[t] \in Avs /\ client[sender.i].video
              /\ sender' = [pc |-> "send", i |-> sender.i, av |-> av[t], val |-> sender.val,
                            t |-> t]
<1> DEFINE c == client[sender.i]
<1>1. sender.i \in Sids /\ sender.pc = "look" /\ ~Locked(sender.i)
  BY DEF SenderInv, Look
<1>2. CASE c.avIndex < 0 \/ ~c.video
  BY <1>1, <1>2, Zenon DEF Look
<1>3. CASE ~(c.avIndex < 0 \/ ~c.video)
<2>1. PICK t \in Sessions : pc[t] \in Active /\ sid[t] = sender.i /\ av[t] = c.avIndex
  BY <1>1, <1>3 DEF VideoInv
<2>2. \A u \in Sessions : sid[u] = sender.i => u <= t
  BY <2>1 DEF SessionInv, Open, Active
<2>3. pc[t] # "started" /\ av[t] \in Avs
  BY <1>1, <2>1 DEF Locked, SessionInv
<2> DEFINE Is(t0) == /\ sid[t0] = sender.i /\ av[t0] = c.avIndex
                     /\ \A u \in Sessions : sid[u] = sender.i => u <= t0
<2>4. Is(t) /\ \A t0 \in Sessions : Is(t0) => t0 = t
  <3>1. \A t0 \in Sessions : Is(t0) => t0 <= t /\ t <= t0
    BY <2>1, <2>2
  <3>2. Sessions \subseteq Int
    BY DEF Sessions
  <3> QED BY <2>1, <2>2, <3>1, <3>2
<2>5. (CHOOSE t0 \in Sessions : Is(t0)) = t
  <3> HIDE DEF Is
  <3> QED BY <2>4
<2>6. sender' = [sender EXCEPT !.pc = "send", !.av = c.avIndex, !.t = t]
  BY <1>3, <2>5 DEF Look
<2>7. sender' = [pc |-> "send", i |-> sender.i, av |-> av[t], val |-> sender.val, t |-> t]
  BY <2>1, <2>6 DEF TypeOK
<2> QED BY <1>3, <2>1, <2>3, <2>7
<1> QED BY <1>2, <1>3

LEMMA InitType == Init => TypeOK
<1> SUFFICES ASSUME Init PROVE TypeOK
  OBVIOUS
<1>1. ThreadTypes
<2>1. accepted \in 0 .. MaxSessions /\ cmds \in 0 .. MaxCmds
  BY P2PAssumption DEF Init
<2>2. /\ pc \in [Sessions -> Points] /\ tmp \in [Sessions -> Int]
      /\ sid \in [Sessions -> Sids \cup {NoIndex}] /\ av \in [Sessions -> Avs \cup {NoIndex}]
  BY DEF Init, Points
<2>3. listener \in [pc : {"init", "listen", "off", "count", "add"}, val : Int]
  BY DEF Init
<2>4. use \in Uses /\ crashed \in BOOLEAN /\ gone \subseteq Sessions
  BY DEF Init
<2> QED BY <2>1, <2>2, <2>3, <2>4 DEF ThreadTypes
<1>2. TableTypes
  BY DEF Init, TableTypes
<1>3. SenderType
  BY DEF Init, SenderType
<1>4. HistoryTypes
  BY DEF Init, HistoryTypes
<1> QED BY <1>1, <1>2, <1>3, <1>4, TypeParts

LEMMA ThreadTypesKept ==
  ASSUME TypeOK, Next
  PROVE  ThreadTypes'
<1>0. ThreadTypes
  BY TypeParts
<1> USE P2PAssumption DEF ThreadTypes, Points
<1>1. CASE Start
  BY <1>0, <1>1 DEF Start, sessionVars
<1>2. CASE Accept
<2>1. PICK n \in Sids : accepted + 1 \in Sessions /\ sid' = [sid EXCEPT ![accepted + 1] = n]
  BY <1>2, NumberGiven
<2> QED BY <1>0, <1>2, <2>1 DEF Accept
<1>3. CASE Count
  BY <1>0, <1>3, TypeParts DEF Count, sessionVars, TableTypes
<1>4. CASE Sender
  BY <1>0, <1>4 DEF Sender, NewFrame, Look, Send, TakeOff, sessionVars
<1>5. ASSUME NEW t \in Sessions, ServStart(t) PROVE ThreadTypes'
  BY <1>0, <1>5, IndexLeft DEF ServStart, Goto, rest
<1>6. ASSUME NEW t \in Sessions, Recv(t) PROVE ThreadTypes'
<2>1. crashed' \in BOOLEAN
  BY <1>0, <1>6 DEF Recv, PlayStart, rest
<2>2. cmds' \in 0 .. MaxCmds
  BY <1>0, <1>6 DEF Recv
<2>3. pc' \in [Sessions -> Points]
  BY <1>0, <1>6 DEF Recv, PlayStart, Goto
<2> QED BY <1>0, <1>6, <2>1, <2>2, <2>3 DEF Recv, rest
<1>7. ASSUME NEW t \in Sessions, Regedit(t) PROVE ThreadTypes'
  BY <1>0, <1>7, TypeParts DEF Regedit, Goto, rest, TableTypes
<1>8. ASSUME NEW t \in Sessions, Stop(t) \/ End(t) PROVE ThreadTypes'
  BY <1>0, <1>8, TypeParts DEF Stop, End, Off, CountOff, Goto, rest, TableTypes
<1>9. ASSUME NEW t \in Sessions, List(t) PROVE ThreadTypes'
  BY <1>0, <1>9 DEF List, ListEvent, Goto, rest
<1>10. ASSUME NEW t \in Sessions, Close(t) \/ CountDown(t) \/ Leave(t) PROVE ThreadTypes'
  BY <1>0, <1>10, TypeParts DEF Close, CountDown, Leave, Goto, rest, TableTypes
<1> QED
  BY <1>1, <1>2, <1>3, <1>4, <1>5, <1>6, <1>7, <1>8, <1>9, <1>10
  DEF Next, Listener, Thread
LEMMA TableTypesKept ==
  ASSUME TypeOK, SessionInv, SenderInv, Next
  PROVE  TableTypes'
<1>0. ThreadTypes /\ TableTypes /\ SenderType
  BY TypeParts
<1> USE DEF TableTypes
<1>1. CASE Listener
  BY <1>0, <1>1 DEF Listener, Start, Accept, Count, tableVars, ThreadTypes
<1>2. CASE NewFrame \/ Look \/ Send
  BY <1>0, <1>2 DEF NewFrame, Look, Send, tableVars
<1>3. CASE TakeOff
<2>1. CASE sender.pc = "unreg"
  BY <1>0, <1>3, <2>1, TakenOff DEF TakeOff, SenderInv
<2>2. CASE sender.pc = "count"
  BY <1>0, <1>3, <2>2 DEF TakeOff, SenderType
<2> QED BY <1>3, <2>1, <2>2 DEF TakeOff
<1>4. ASSUME NEW t \in Sessions, Regedit(t) PROVE TableTypes'
<2>1. sid[t] \in Sids \/ pc[t] # "start"
  BY DEF SessionInv
<2>2. av[t] \in Avs \/ pc[t] # "start"
  BY DEF SessionInv, Active
<2>3. tmp[t] \in Nat \/ pc[t] # "started"
  BY DEF SessionInv, Counts
<2>4. CASE pc[t] = "start"
  BY <1>0, <1>4, <2>1, <2>2, <2>4, PutOn DEF Regedit, Goto
<2>5. CASE pc[t] = "started"
  BY <1>0, <1>4, <2>3, <2>5 DEF Regedit, Goto
<2> QED BY <1>4, <2>4, <2>5 DEF Regedit, Goto
<1>5. ASSUME NEW t \in Sessions, Stop(t) \/ End(t) PROVE TableTypes'
<2>1. sid[t] \in Sids \/ pc[t] \notin {"stop", "off"}
  BY DEF SessionInv
<2>2. tmp[t] \in Nat \/ pc[t] \notin {"stopped", "wentoff"}
  BY DEF SessionInv, Counts
<2>3. CASE pc[t] \in {"stop", "off"}
<3>1. /\ client' = [client EXCEPT ![sid[t]].video = FALSE]
      /\ UNCHANGED <<gOnlineNum, p2p_send_status>>
  BY <1>5, <2>3 DEF Stop, End, Off, CountOff, Goto
<3> QED BY <1>0, <2>1, <2>3, <3>1, TakenOff
<2>4. CASE pc[t] \in {"stopped", "wentoff"}
  BY <1>0, <1>5, <2>2, <2>4 DEF Stop, End, Off, CountOff, Goto
<2> QED BY <1>5, <2>3, <2>4 DEF Stop, End, Off, CountOff, Goto
<1>6. ASSUME NEW t \in Sessions,
             ServStart(t) \/ Recv(t) \/ List(t) \/ Close(t) \/ CountDown(t) \/ Leave(t)
      PROVE  TableTypes'
  BY <1>0, <1>6 DEF ServStart, Recv, List, Close, CountDown, Leave, tableVars, ThreadTypes
<1> QED BY <1>1, <1>2, <1>3, <1>4, <1>5, <1>6 DEF Next, Sender, Thread

LEMMA SenderTypeKept ==
  ASSUME TypeOK, SessionInv, VideoInv, SenderInv, Next
  PROVE  SenderType'
<1>0. TableTypes /\ SenderType
  BY TypeParts
<1> USE DEF SenderType
<1>1. ASSUME NEW i \in Sids \cup {NoIndex}, sender' = NextClient(i)
      PROVE  SenderType'
  BY <1>1, NextClientShape DEF Idle
<1>2. CASE NewFrame
<2>1. sender' = NextClient(NoIndex) /\ NoIndex \in Sids \cup {NoIndex}
  BY <1>2 DEF NewFrame
<2> QED BY <1>1, <2>1
<1>3. CASE Look
  BY <1>0, <1>1, <1>3, LookFinds
<1>4. CASE Send \/ TakeOff
  BY <1>0, <1>1, <1>4 DEF Send, TakeOff, SenderInv, TableTypes
<1>5. CASE Listener
  BY <1>0, <1>5 DEF Listener, Start, Accept, Count
<1>6. ASSUME NEW t \in Sessions, Thread(t) \/ Leave(t) PROVE SenderType'
  BY <1>0, <1>6 DEF Thread, ServStart, Recv, Regedit, Stop, End, Off, CountOff, List, Close,
                    CountDown, Leave, rest
<1> QED BY <1>2, <1>3, <1>4, <1>5, <1>6 DEF Next, Sender

LEMMA HistoryTypesKept ==
  ASSUME TypeOK, SessionInv, SenderInv, Next
  PROVE  HistoryTypes'
<1>0. TableTypes /\ SenderType /\ HistoryTypes
  BY TypeParts
<1> USE DEF HistoryTypes
<1>1. CASE Listener
  BY <1>0, <1>1 DEF Listener, Start, Accept, Count, listVars, histVars
<1>2. CASE NewFrame \/ Look \/ Send
  BY <1>0, <1>2 DEF NewFrame, Look, Send, listVars, histVars
<1>3. CASE TakeOff
  BY <1>0, <1>3 DEF TakeOff, SenderInv, listVars
<1>4. ASSUME NEW t \in Sessions, Regedit(t) PROVE HistoryTypes'
  BY <1>0, <1>4 DEF Regedit, listVars, histVars, SessionInv
<1>5. ASSUME NEW t \in Sessions, Stop(t) \/ End(t) PROVE HistoryTypes'
  BY <1>0, <1>5 DEF Stop, End, Off, CountOff, listVars
<1>6. ASSUME NEW t \in Sessions, List(t) PROVE HistoryTypes'
  BY <1>0, <1>6 DEF List, ListEvent, histVars
<1>7. ASSUME NEW t \in Sessions, ServStart(t) \/ Recv(t) \/ Close(t) \/ CountDown(t) \/ Leave(t)
      PROVE  HistoryTypes'
  BY <1>0, <1>7 DEF ServStart, Recv, Close, CountDown, Leave, listVars, histVars
<1> QED BY <1>1, <1>2, <1>3, <1>4, <1>5, <1>6, <1>7 DEF Next, Sender, Thread
------------------------------------------------------------------------------
LEMMA InitSession == Init => SessionInv
  BY P2PAssumption DEF Init, SessionInv, Sessions, Open, HasAv, Active, Counts, Unserved, NoIndex

(* A number goes to a session when no open one has it, an index when no    *)
(* other has it.                                                           *)
LEMMA SessionKept ==
  ASSUME TypeOK, SessionInv, Next
  PROVE  SessionInv'
<1>0. ThreadTypes /\ TableTypes
  BY TypeParts
<1> USE DEF SessionInv, Open, HasAv, Active, Counts, Unserved
<1>1. CASE UNCHANGED <<accepted, pc, sid, av, tmp>>
  BY <1>1
<1>2. CASE Accept
<2>1. PICK n \in Sids : /\ accepted + 1 \in Sessions /\ \A u \in Open : sid[u] # n
                        /\ sid' = [sid EXCEPT ![accepted + 1] = n]
  BY <1>2, NumberGiven
<2>2. accepted \in Nat /\ Sessions \subseteq Int /\ NoIndex \notin Sids
  BY <1>0, P2PAssumption DEF ThreadTypes, Sessions, NoIndex
<2>3. pc[accepted + 1] = "none" /\ sid[accepted + 1] \notin Sids /\ av[accepted + 1] = NoIndex
  BY <2>1, <2>2
<2>4. /\ pc'[accepted + 1] \in {"serve", "orphan"} /\ sid'[accepted + 1] = n
      /\ \A u \in Sessions \ {accepted + 1} : pc'[u] = pc[u] /\ sid'[u] = sid[u]
      /\ accepted' = accepted + 1 /\ UNCHANGED <<av, tmp>>
  BY <1>0, <1>2, <2>1 DEF Accept, ThreadTypes
<2>5. \A u \in Sessions : /\ pc'[u] = "none" <=> u > accepted'
                          /\ sid'[u] \in Sids <=> pc'[u] # "none"
                          /\ pc'[u] \in Unserved => av'[u] = NoIndex
                          /\ pc'[u] \in Active \cup {"stopped", "wentoff"} => av'[u] \in Avs
                          /\ pc'[u] \in Counts => tmp'[u] \in Nat
  BY <2>1, <2>2, <2>3, <2>4
<2>6. \A u \in Open' : \A v \in Sessions : sid'[v] = sid'[u] => v <= u
<3> SUFFICES ASSUME NEW u \in Sessions, u \in Open', NEW v \in Sessions, sid'[v] = sid'[u]
             PROVE  v <= u
  OBVIOUS
<3>1. CASE u = accepted + 1
  BY <2>1, <2>2, <2>4, <2>5, <3>1
<3>2. CASE u # accepted + 1
<4>1. u \in Open /\ v # accepted + 1
  BY <2>1, <2>4, <3>2
<4> QED BY <2>4, <3>2, <4>1
<3> QED BY <3>1, <3>2
<2>7. \A u, v \in HasAv' : av'[u] = av'[v] => u = v
  BY <2>3, <2>4
<2> QED BY <2>5, <2>6, <2>7
<1>3. ASSUME NEW t \in Sessions, ServStart(t) PROVE SessionInv'
<2>1. CASE Goto(t, "serve", "close") /\ UNCHANGED av
  BY <1>0, <1>3, <2>1 DEF ServStart, Goto, rest, ThreadTypes
<2>2. ASSUME Goto(t, "serve", "recv"),
             NEW n \in Avs, av' = [av EXCEPT ![t] = n] /\ \A u \in HasAv : av[u] # n
      PROVE  SessionInv'
<3>1. av' = [av EXCEPT ![t] = n] /\ \A u \in HasAv : av[u] # n
  BY <2>2
<3>2. /\ pc[t] = "serve" /\ pc'[t] = "recv" /\ av'[t] = n
      /\ \A u \in Sessions \ {t} : pc'[u] = pc[u] /\ av'[u] = av[u]
      /\ UNCHANGED <<accepted, sid, tmp>>
  BY <1>0, <1>3, <2>2, <3>1 DEF ServStart, Goto, rest, ThreadTypes
<3>3. HasAv' \subseteq HasAv \cup {t} /\ Open' \subseteq Open
  BY <3>2
<3>4. \A u, v \in HasAv' : av'[u] = av'[v] => u = v
  BY <3>1, <3>2, <3>3
<3> QED BY <3>2, <3>3, <3>4
<2> QED BY <1>3, <2>1, <2>2, IndexGiven
<1>4. ASSUME NEW t \in Sessions, Recv(t) \/ List(t) \/ Close(t) PROVE SessionInv'
  BY <1>0, <1>4 DEF Recv, PlayStart, List, ListEvent, Close, Goto, rest, ThreadTypes
<1>5. ASSUME NEW t \in Sessions, Regedit(t) PROVE SessionInv'
  BY <1>0, <1>5 DEF Regedit, Goto, rest, ThreadTypes, TableTypes
<1>6. ASSUME NEW t \in Sessions, Stop(t) \/ End(t) PROVE SessionInv'
<2>1. /\ \/ pc[t] = "stop" /\ pc'[t] = "stopped" /\ tmp'[t] = p2p_send_status
         \/ pc[t] = "off" /\ pc'[t] = "wentoff" /\ tmp'[t] = p2p_send_status
         \/ pc[t] = "stopped" /\ pc'[t] = "recv"
         \/ pc[t] = "wentoff" /\ pc'[t] = "close"
      /\ \A u \in Sessions \ {t} : pc'[u] = pc[u] /\ tmp'[u] = tmp[u]
      /\ UNCHANGED <<accepted, sid, av>>
  BY <1>0, <1>6 DEF Stop, End, Off, CountOff, Goto, rest, ThreadTypes
<2>2. HasAv' = HasAv /\ Open' = Open /\ p2p_send_status \in Nat
  BY <1>0, <2>1 DEF TableTypes
<2> QED BY <2>1, <2>2
<1>7. ASSUME NEW t \in Sessions, CountDown(t) PROVE SessionInv'
  BY <1>0, <1>7 DEF CountDown, Goto, rest, ThreadTypes, TableTypes
<1>8. CASE Start \/ Count \/ Sender \/ \E t \in Sessions : Leave(t)
  BY <1>1, <1>8 DEF Start, Count, Sender, NewFrame, Look, Send, TakeOff, Leave, sessionVars
<1> QED BY <1>2, <1>3, <1>4, <1>5, <1>6, <1>7, <1>8 DEF Next, Listener, Thread
(* Of the sessions with one number only one is served. *)
LEMMA OneServed ==
  ASSUME SessionInv, NEW t \in Sessions, NEW u \in Sessions, sid[t] = sid[u],
         pc[t] \in Active \cup {"stopped"}, pc[u] \in Active \cup {"stopped"}
  PROVE  t = u
<1>1. t \in Open /\ u \in Open
  BY DEF Open, Active
<1>2. t <= u /\ u <= t /\ t \in Int /\ u \in Int
  BY <1>1 DEF SessionInv, Sessions
<1> QED BY <1>2

(* The end of a STOP or of a session. *)
LEMMA OffStep ==
  ASSUME TypeOK, SessionInv, NEW t \in Sessions, Stop(t) \/ End(t), pc[t] \in {"stop", "off"}
  PROVE  /\ pc'[t] \in {"stopped", "wentoff"} /\ sid[t] \in Sids
         /\ pc[t] = "stop" => pc'[t] = "stopped" /\ ~Sending(sid[t])
         /\ pc[t] = "off" => pc'[t] = "wentoff"
         /\ \A u \in Sessions \ {t} : pc'[u] = pc[u] /\ tmp'[u] = tmp[u]
         /\ tmp'[t] = p2p_send_status /\ want' = want \ {t}
         /\ surplus' = (surplus \/ client[sid[t]].video # (p2p_send_status > 0))
         /\ client' = [client EXCEPT ![sid[t]].video = FALSE]
         /\ UNCHANGED <<rest, av, p2p_send_status, torn, struck>>
<1>0. ThreadTypes
  BY TypeParts
<1>1. \/ pc[t] = "stop" /\ Off(t, "stop", "stopped") /\ ~Sending(sid[t])
      \/ pc[t] = "off" /\ Off(t, "off", "wentoff")
  BY DEF Stop, End, CountOff, Off, Goto
<1>2. sid[t] \in Sids
  BY DEF SessionInv
<1> QED BY <1>0, <1>1, <1>2 DEF Off, Goto, ThreadTypes

(* Their second step takes nobody's video. *)
LEMMA OffCounted ==
  ASSUME TypeOK, NEW t \in Sessions, Stop(t) \/ End(t), pc[t] \notin {"stop", "off"}
  PROVE  /\ \/ pc[t] = "stopped" /\ pc'[t] = "recv"
            \/ pc[t] = "wentoff" /\ pc'[t] = "close"
         /\ \A u \in Sessions \ {t} : pc'[u] = pc[u] /\ tmp'[u] = tmp[u]
         /\ tmp'[t] = 0
         /\ p2p_send_status' = IF tmp[t] > 0 THEN tmp[t] - 1 ELSE p2p_send_status
         /\ torn' = IF tmp[t] = 0 \/ p2p_send_status = tmp[t] THEN torn ELSE torn \cup {"status"}
         /\ UNCHANGED <<rest, av, client, want, surplus, struck>>
<1>0. ThreadTypes
  BY TypeParts
<1>1. CountOff(t, "stopped", "recv") \/ CountOff(t, "wentoff", "close")
  BY DEF Stop, End, Off, Goto
<1> QED BY <1>0, <1>1 DEF CountOff, Goto, ThreadTypes

(* The first step of a START. *)
LEMMA StartStep ==
  ASSUME TypeOK, SessionInv, NEW t \in Sessions, Regedit(t), pc[t] = "start"
  PROVE  /\ pc'[t] = "started" /\ sid[t] \in Sids /\ av[t] \in Avs /\ ~Sending(sid[t])
         /\ \A u \in Sessions \ {t} : pc'[u] = pc[u] /\ tmp'[u] = tmp[u]
         /\ tmp'[t] = p2p_send_status
         /\ client'[sid[t]].video /\ client'[sid[t]].avIndex = av[t]
         /\ \A j \in Sids : j # sid[t] => client'[j] = client[j]
         /\ surplus' = (surplus \/ client[sid[t]].video)
         /\ want' = want \cup {t} /\ struck' = struck \ {sid[t]}
         /\ UNCHANGED <<rest, av, p2p_send_status, torn>>
<1>0. ThreadTypes /\ TableTypes
  BY TypeParts
<1>1. sid[t] \in Sids /\ av[t] \in Avs
  BY DEF SessionInv, Active
<1>2. client' = [client EXCEPT ![sid[t]] = [avIndex |-> av[t], video |-> TRUE]]
  BY DEF Regedit, Goto
<1>3. /\ client'[sid[t]].video /\ client'[sid[t]].avIndex = av[t]
      /\ \A j \in Sids : j # sid[t] => client'[j] = client[j]
  BY <1>0, <1>1, <1>2, PutOn
<1> QED BY <1>0, <1>1, <1>3 DEF Regedit, Goto, ThreadTypes

(* Every step but these leaves the video of the clients alone, and no      *)
(* thread stops being active by one.                                       *)
QuietStep ==
  /\ client' = client /\ want' = want /\ struck' = struck
  /\ \A u \in Sessions :
       pc[u] \in Active => pc'[u] \in Active /\ sid'[u] = sid[u] /\ av'[u] = av[u]
  /\ gone \subseteq gone'

LEMMA Steps ==
  ASSUME TypeOK, SessionInv, Next
  PROVE  \/ QuietStep
         \/ \E t \in Sessions : (Stop(t) \/ End(t)) /\ pc[t] \in {"stop", "off"}
         \/ \E t \in Sessions : Regedit(t) /\ pc[t] = "start"
         \/ TakeOff /\ sender.pc = "unreg"
<1>0. ThreadTypes
  BY TypeParts
<1> USE DEF QuietStep, Active
<1>1. CASE Start \/ Count \/ NewFrame \/ Look \/ Send
  BY <1>1 DEF Start, Count, NewFrame, Look, Send, sessionVars, tableVars, histVars
<1>2. CASE Accept
<2>1. PICK n \in Sids : accepted + 1 \in Sessions /\ sid' = [sid EXCEPT ![accepted + 1] = n]
  BY <1>2, NumberGiven
<2>2. pc[accepted + 1] = "none"
  BY <1>0, <2>1 DEF SessionInv, ThreadTypes
<2> QED BY <1>0, <1>2, <2>1, <2>2 DEF Accept, tableVars, histVars, ThreadTypes
<1>3. CASE TakeOff /\ sender.pc # "unreg"
  BY <1>3 DEF TakeOff, sessionVars
<1>4. ASSUME NEW t \in Sessions, ServStart(t) PROVE QuietStep
  BY <1>0, <1>4, IndexGiven DEF ServStart, Goto, ThreadTypes, rest, tableVars, histVars
<1>5. ASSUME NEW t \in Sessions, Recv(t) \/ List(t) PROVE QuietStep
  BY <1>0, <1>5 DEF Recv, PlayStart, List, ListEvent, Goto, ThreadTypes, rest, tableVars, histVars
<1>6. ASSUME NEW t \in Sessions, Regedit(t), pc[t] # "start" PROVE QuietStep
  BY <1>0, <1>6 DEF Regedit, Goto, ThreadTypes, rest
<1>7. ASSUME NEW t \in Sessions, Stop(t) \/ End(t), pc[t] \notin {"stop", "off"} PROVE QuietStep
  BY <1>0, <1>7, OffCounted DEF rest
<1>8. ASSUME NEW t \in Sessions, Close(t) \/ CountDown(t) \/ Leave(t) PROVE QuietStep
  BY <1>0, <1>8 DEF Close, CountDown, Leave, Goto, ThreadTypes, rest, tableVars, histVars
<1> QED BY <1>1, <1>2, <1>3, <1>4, <1>5, <1>6, <1>7, <1>8 DEF Next, Listener, Sender, Thread

LEMMA VideoKeptInv ==
  ASSUME TypeOK, SessionInv, VideoInv, SenderInv, Next
  PROVE  VideoInv'
<1>0. TableTypes
  BY TypeParts
<1> USE DEF VideoInv
<1>1. CASE QuietStep
  BY <1>1 DEF QuietStep
<1>2. ASSUME NEW t \in Sessions, Stop(t) \/ End(t), pc[t] \in {"stop", "off"}
      PROVE  VideoInv'
<2>1. /\ sid[t] \in Sids /\ client' = [client EXCEPT ![sid[t]].video = FALSE]
      /\ \A u \in Sessions \ {t} : pc'[u] = pc[u]
      /\ UNCHANGED <<sid, av>>
  BY <1>2, OffStep DEF rest
<2>2. SUFFICES ASSUME NEW j \in Sids, client'[j].video
               PROVE  \E u \in Sessions : pc'[u] \in Active /\ sid[u] = j /\ av[u] = client'[j].avIndex
  BY <2>1
<2>3. j # sid[t] /\ client[j].video /\ client'[j].avIndex = client[j].avIndex
  BY <1>0, <2>1, <2>2, TakenOff
<2> QED BY <2>1, <2>3
<1>3. ASSUME NEW t \in Sessions, Regedit(t), pc[t] = "start"
      PROVE  VideoInv'
<2>1. "start" \in Active /\ "started" \in Active
  BY DEF Active
<2> QED BY <1>3, <2>1, StartStep DEF rest
<1>4. CASE TakeOff /\ sender.pc = "unreg"
<2>1. sender.i \in Sids /\ client' = [client EXCEPT ![sender.i].video = FALSE]
      /\ UNCHANGED <<pc, sid, av>>
  BY <1>4 DEF TakeOff, SenderInv, sessionVars
<2> QED BY <1>0, <2>1, TakenOff
<1> QED BY <1>1, <1>2, <1>3, <1>4, Steps
LEMMA SenderKept ==
  ASSUME TypeOK, SessionInv, VideoInv, SenderInv, Next
  PROVE  SenderInv'
<1>0. ThreadTypes /\ TableTypes /\ SenderType
  BY TypeParts
<1> USE DEF SenderInv
<1>1. ASSUME NEW i \in Sids \cup {NoIndex}, sender' = NextClient(i)
      PROVE  SenderInv'
  BY <1>1, NextClientShape DEF Idle
<1>2. CASE NewFrame
<2>1. sender' = NextClient(NoIndex) /\ NoIndex \in Sids \cup {NoIndex}
  BY <1>2 DEF NewFrame
<2> QED BY <1>1, <2>1
<1>3. CASE Look
<2>1. CASE sender' = NextClient(sender.i) /\ sender.i \in Sids
  BY <1>1, <2>1
<2>2. UNCHANGED <<pc, sid, av, client>>
  BY <1>3 DEF Look, sessionVars, tableVars
<2>3. ASSUME NEW t \in Sessions, sid[t] = sender.i, pc[t] \in Active \ {"started"},
             client[sender.i].video,
             sender' = [pc |-> "send", i |-> sender.i, av |-> av[t], val |-> sender.val, t |-> t]
      PROVE  SenderInv'
<3>1. sender.i \in Sids /\ pc[t] \notin Unserved \cup {"stopped"}
  BY <1>3, <2>3 DEF Look, Active, Unserved
<3>2. /\ sender'.pc = "send" /\ sender'.i = sender.i /\ sender'.av = av[t] /\ sender'.t = t
      /\ UNCHANGED <<pc, sid, av, client>>
  BY <2>2, <2>3
<3> QED BY <2>3, <3>1, <3>2
<2> QED BY <1>3, <2>1, <2>3, LookFinds
<1>4. CASE Send
<2>1. UNCHANGED <<pc, sid, av, gone>>
  BY <1>4 DEF Send, sessionVars
<2>2. CASE sender' = NextClient(sender.i)
  BY <1>1, <1>4, <2>2 DEF Send
<2>3. CASE Reaches \subseteq gone /\ sender' = [sender EXCEPT !.pc = "unreg"]
<3>1. pc[sender.t] \in Active => sender.t \in Reaches
  BY <1>4, P2PAssumption DEF Send, SessionInv, Reaches, HasAv, Active, NoIndex
<3>2. pc[sender.t] \in Active => sender.t \in gone
  BY <2>3, <3>1
<3> QED BY <1>0, <1>4, <2>1, <2>3, <3>2 DEF Send, SenderType
<2> QED BY <1>4, <2>2, <2>3 DEF Send
<1>5. CASE TakeOff
<2>1. CASE sender.pc = "unreg"
  BY <1>0, <1>5, <2>1 DEF TakeOff, SenderType
<2>2. CASE sender.pc = "count"
  BY <1>1, <1>5, <2>2 DEF TakeOff
<2> QED BY <1>5, <2>1, <2>2 DEF TakeOff
<1>6. ASSUME UNCHANGED <<sender, client>>,
             sender.pc \in {"send", "unreg"} =>
               /\ sid'[sender.t] = sid[sender.t] /\ av'[sender.t] = av[sender.t]
               /\ \/ pc'[sender.t] \notin Unserved \cup {"stopped"}
                  \/ pc'[sender.t] = pc[sender.t]
               /\ pc'[sender.t] \in Active =>
                    pc[sender.t] \in Active \cup {"stopped"},
             gone \subseteq gone'
      PROVE  SenderInv'
  BY <1>6
<1>7. CASE Start \/ Count \/ \E t \in Sessions : Leave(t)
  BY <1>6, <1>7 DEF Start, Count, Leave, sessionVars, tableVars
<1>8. CASE Accept
<2>1. PICK n \in Sids : accepted + 1 \in Sessions /\ sid' = [sid EXCEPT ![accepted + 1] = n]
  BY <1>8, NumberGiven
<2>2. pc[accepted + 1] = "none" /\ accepted \in Nat
  BY <1>0, <2>1 DEF SessionInv, ThreadTypes
<2>3. sender.pc \in {"send", "unreg"} => sender.t # accepted + 1
  BY <2>2 DEF Unserved
<2> QED BY <1>0, <1>6, <1>8, <2>1, <2>3 DEF Accept, ThreadTypes, tableVars
<1>9. ASSUME NEW t \in Sessions, ServStart(t) PROVE SenderInv'
<2>1. sender.pc \in {"send", "unreg"} => sender.t # t
  BY <1>9 DEF ServStart, Goto, Unserved
<2> QED BY <1>0, <1>6, <1>9, <2>1, IndexGiven DEF ServStart, Goto, ThreadTypes, rest, tableVars
<1>10. ASSUME NEW t \in Sessions, Recv(t) \/ List(t) \/ Close(t) \/ CountDown(t)
       PROVE  SenderInv'
  BY <1>0, <1>6, <1>10
  DEF Recv, PlayStart, List, ListEvent, Close, CountDown, Goto, ThreadTypes, rest, tableVars,
      Active, Unserved
<1>11. ASSUME NEW t \in Sessions, Regedit(t) PROVE SenderInv'
<2>1. CASE pc[t] = "start"
<3>1. \A u \in Sessions : pc'[u] # pc[u] => u = t /\ pc[u] = "start" /\ pc'[u] = "started"
  BY <1>11, <2>1, StartStep
<3>2. \A i \in Sids : client[i].video => client'[i].video
  BY <1>11, <2>1, StartStep
<3> QED BY <1>11, <2>1, <3>1, <3>2, StartStep DEF rest, Active, Unserved
<2>2. CASE pc[t] = "started"
  BY <1>0, <1>6, <1>11, <2>2 DEF Regedit, Goto, ThreadTypes, rest, Active, Unserved
<2> QED BY <1>11, <2>1, <2>2 DEF Regedit, Goto
<1>12. ASSUME NEW t \in Sessions, Stop(t) \/ End(t) PROVE SenderInv'
<2>1. CASE pc[t] \in {"stop", "off"}
<3>1. /\ UNCHANGED <<sender, sid, av, gone>> /\ sid[t] \in Sids
      /\ \A u \in Sessions \ {t} : pc'[u] = pc[u]
      /\ pc[t] = "stop" => pc'[t] = "stopped" /\ ~Sending(sid[t])
      /\ pc[t] = "off" => pc'[t] = "wentoff"
      /\ client' = [client EXCEPT ![sid[t]].video = FALSE]
  BY <1>12, <2>1, OffStep DEF rest
<3>2. sender.pc = "send" => pc'[sender.t] # "stopped"
  BY <2>1, <3>1 DEF Sending
<3>3. ASSUME sender.pc = "send", pc'[sender.t] \in Active
      PROVE  client'[sender.i].video
<4>1. sender.t # t /\ pc[sender.t] \in Active
  BY <2>1, <3>1, <3>3 DEF Active
<4>2. sid[sender.t] # sid[t]
  BY <2>1, <3>3, <4>1, OneServed DEF Active
<4> QED BY <1>0, <3>1, <3>3, <4>1, <4>2, TakenOff
<3>4. sender.pc \in {"send", "unreg"} =>
        /\ pc'[sender.t] \notin Unserved
        /\ pc'[sender.t] \in Active \cup {"stopped"} => pc[sender.t] \in Active \cup {"stopped"}
  BY <2>1, <3>1 DEF Active, Unserved
<3> QED BY <3>1, <3>2, <3>3, <3>4
<2>2. CASE pc[t] \notin {"stop", "off"}
  BY <1>6, <1>12, <2>2, OffCounted DEF rest, Active, Unserved
<2> QED BY <2>1, <2>2
<1> QED
  BY <1>2, <1>3, <1>4, <1>5, <1>7, <1>8, <1>9, <1>10, <1>11, <1>12
  DEF Next, Listener, Sender, Thread

LEMMA WantKept ==
  ASSUME TypeOK, SessionInv, VideoInv, SenderInv, WantInv, Next
  PROVE  WantInv'
<1>0. ThreadTypes /\ TableTypes /\ want \subseteq Sessions
  BY TypeParts DEF HistoryTypes
<1> USE DEF WantInv
<1>1. CASE QuietStep
  BY <1>0, <1>1 DEF QuietStep
<1>2. ASSUME NEW t \in Sessions, Stop(t) \/ End(t), pc[t] \in {"stop", "off"}
      PROVE  WantInv'
<2>1. /\ sid[t] \in Sids /\ client' = [client EXCEPT ![sid[t]].video = FALSE]
      /\ \A u \in Sessions \ {t} : pc'[u] = pc[u]
      /\ want' = want \ {t} /\ UNCHANGED <<sid, gone, struck>>
  BY <1>2, OffStep DEF rest
<2>2. \A u \in want' : u # t /\ pc[u] \in Active /\ sid[u] # sid[t]
  BY <1>0, <1>2, <2>1, OneServed DEF Active
<2>3. \A u \in want' : sid[u] \in Sids
  BY <1>0, <2>1, <2>2 DEF SessionInv, Active
<2> QED BY <1>0, <2>1, <2>2, <2>3, TakenOff
<1>3. ASSUME NEW t \in Sessions, Regedit(t), pc[t] = "start"
      PROVE  WantInv'
<2>1. \A u \in want : u # t => pc[u] \in Active /\ sid[u] # sid[t] /\ sid[u] \in Sids
  BY <1>0, <1>3, OneServed DEF Active, SessionInv
<2>2. "started" \in Active
  BY DEF Active
<2> QED BY <1>0, <1>3, <2>1, <2>2, StartStep DEF rest
<1>4. CASE TakeOff /\ sender.pc = "unreg"
<2>1. /\ sender.i \in Sids /\ client' = [client EXCEPT ![sender.i].video = FALSE]
      /\ UNCHANGED <<pc, sid, gone, want>> /\ struck \subseteq struck'
      /\ (\E t \in Sessions : sid[t] = sender.i /\ t > sender.t) => sender.i \in struck'
  BY <1>4 DEF TakeOff, SenderInv, sessionVars
<2>2. ASSUME NEW t \in want, sid[t] = sender.i
      PROVE  t \in gone \/ sid[t] \in struck'
<3>1. t \in Open /\ sender.t \in Sessions /\ sid[sender.t] = sid[t]
  BY <1>0, <1>4, <2>2 DEF Open, Active, SenderInv
<3>2. sender.t <= t /\ t \in Int /\ sender.t \in Int
  BY <1>0, <3>1 DEF SessionInv, Sessions
<3>3. CASE sender.t = t
  BY <1>4, <3>3 DEF SenderInv
<3>4. CASE t > sender.t
  BY <1>0, <2>1, <2>2, <3>4
<3> QED BY <3>2, <3>3, <3>4
<2>3. \A t \in want : sid[t] \in Sids /\ t \in Sessions
  BY <1>0 DEF SessionInv, Active
<2> QED BY <1>0, <2>1, <2>2, <2>3, TakenOff
<1> QED BY <1>1, <1>2, <1>3, <1>4, Steps
(* The list is made while there is none, so by one thread. *)
LEMMA ListKept ==
  ASSUME TypeOK, SessionInv, EventListInv, Next
  PROVE  EventListInv'
<1>0. ThreadTypes
  BY TypeParts
<1> USE DEF EventListInv
<1>1. ASSUME UNCHANGED <<crashed, listVars>>,
             \A u \in Sessions : pc'[u] \in {"fill", "flag", "answer"} => pc[u] = pc'[u]
      PROVE  EventListInv'
  BY <1>1 DEF listVars
<1>2. CASE Start \/ Count \/ Sender
  BY <1>1, <1>2 DEF Start, Count, Sender, NewFrame, Look, Send, TakeOff, sessionVars
<1>3. CASE Accept
  BY <1>0, <1>1, <1>3, NumberGiven DEF Accept, ThreadTypes
<1>4. ASSUME NEW t \in Sessions, Recv(t) PROVE EventListInv'
<2>1. CASE PlayStart(t) /\ UNCHANGED listVars
<3>1. UNCHANGED pc
  BY <1>0, <2>1 DEF PlayStart, Goto, ThreadTypes
<3> QED BY <2>1, <3>1 DEF PlayStart, listVars
<2>2. CASE UNCHANGED crashed
  BY <1>0, <1>1, <1>4, <2>2 DEF Recv, PlayStart, Goto, ThreadTypes
<2> QED BY <1>4, <2>1, <2>2 DEF Recv, rest
<1>5. ASSUME NEW t \in Sessions, List(t) PROVE EventListInv'
<2>1. ~crashed /\ ~crashed' /\ (\A u \in Sessions \ {t} : pc'[u] = pc[u])
  BY <1>0, <1>5 DEF Next, List, ListEvent, Goto, ThreadTypes, rest
<2>2. CASE pc[t] = "listreq"
<3>1. /\ pc'[t] = IF gbSearchEvent THEN "answer" ELSE "fill"
      /\ gEventList' = IF gbSearchEvent THEN gEventList ELSE "blank"
      /\ raced' = (raced \/ (~gbSearchEvent /\ gEventList # "none"))
      /\ UNCHANGED <<gbSearchEvent, short, asked>>
  BY <1>0, <1>5, <2>2 DEF List, ListEvent, Goto, ThreadTypes
<3> QED BY <2>1, <2>2, <3>1
<2>3. CASE pc[t] = "fill"
<3>1. /\ pc'[t] = "flag" /\ gEventList' = "full"
      /\ UNCHANGED <<gbSearchEvent, short, asked, raced>>
  BY <1>0, <1>5, <2>3 DEF List, ListEvent, Goto, ThreadTypes
<3> QED BY <2>1, <2>3, <3>1
<2>4. CASE pc[t] = "flag"
<3>1. /\ pc'[t] = "answer" /\ gbSearchEvent' = TRUE
      /\ UNCHANGED <<gEventList, short, asked, raced>>
  BY <1>0, <1>5, <2>4 DEF List, ListEvent, Goto, ThreadTypes
<3> QED BY <2>1, <2>4, <3>1
<2>5. CASE pc[t] = "answer"
<3>1. /\ pc'[t] = "recv" /\ asked' = asked \cup {t}
      /\ short' = IF gEventList = "full" THEN short ELSE short \cup {t}
      /\ UNCHANGED <<gEventList, gbSearchEvent, raced>>
  BY <1>0, <1>5, <2>5 DEF List, ListEvent, Goto, ThreadTypes
<3> QED BY <2>1, <2>5, <3>1
<2> QED BY <1>5, <2>2, <2>3, <2>4, <2>5 DEF List, ListEvent, Goto
<1>6. ASSUME NEW t \in Sessions, ServStart(t) PROVE EventListInv'
  BY <1>0, <1>1, <1>6 DEF ServStart, Goto, ThreadTypes, rest
<1>7. ASSUME NEW t \in Sessions, Regedit(t) PROVE EventListInv'
  BY <1>0, <1>1, <1>7 DEF Regedit, Goto, ThreadTypes, rest
<1>8. ASSUME NEW t \in Sessions, Stop(t) \/ End(t) PROVE EventListInv'
  BY <1>0, <1>1, <1>8 DEF Stop, End, Off, CountOff, Goto, ThreadTypes, rest
<1>9. ASSUME NEW t \in Sessions, Close(t) \/ CountDown(t) \/ Leave(t) PROVE EventListInv'
  BY <1>0, <1>1, <1>9 DEF Close, CountDown, Leave, Goto, ThreadTypes, rest
<1> QED
  BY <1>2, <1>3, <1>4, <1>5, <1>6, <1>7, <1>8, <1>9 DEF Next, Listener, Thread

------------------------------------------------------------------------------
(* Counters and the sets they count *)

LEMMA SessionsFinite ==
  /\ IsFiniteSet(Sessions)
  /\ \A T \in SUBSET Sessions : IsFiniteSet(T) /\ Cardinality(T) \in Nat
<1>1. IsFiniteSet(Sessions)
  BY P2PAssumption, FS_Interval DEF Sessions
<1>2. \A T \in SUBSET Sessions : IsFiniteSet(T) /\ Cardinality(T) \in Nat
  BY <1>1, FS_Subset, FS_CardinalityType
<1> QED BY <1>1, <1>2

Online == {t \in 1 .. accepted : pc[t] # "done"}

(* An addition and a subtraction that nothing came between. *)
LEMMA OnlineKept ==
  ASSUME TypeOK, SessionInv, OnlineHonest, Next
  PROVE  OnlineHonest'
<1>0. ThreadTypes /\ TableTypes /\ torn \subseteq {"online", "status"}
  BY TypeParts DEF HistoryTypes
<1>1. Online \subseteq Sessions
  BY <1>0, P2PAssumption DEF Online, Sessions, ThreadTypes
<1>2. IsFiniteSet(Online) /\ Cardinality(Online) \in Nat
  BY <1>1, SessionsFinite
<1>3. /\ OnlineHonest <=>
           ("online" \notin torn =>
              gOnlineNum = Cardinality(Online)
                           - (IF listener.pc \in {"count", "add"} THEN 1 ELSE 0))
      /\ OnlineHonest' <=>
           ("online" \notin torn' =>
              gOnlineNum' = Cardinality(Online')
                            - (IF listener'.pc \in {"count", "add"} THEN 1 ELSE 0))
  BY DEF OnlineHonest, Online
<1>4. ASSUME accepted' = accepted, UNCHANGED gOnlineNum, torn \subseteq torn',
             listener'.pc = listener.pc
             \/ {listener.pc, listener'.pc} \subseteq {"count", "add"}
             \/ {listener.pc, listener'.pc} \subseteq {"init", "listen", "off"},
             \A u \in Sessions : pc'[u] = "done" <=> pc[u] = "done"
      PROVE  OnlineHonest'
<2>1. Online' = Online
  BY <1>0, <1>1, <1>4, P2PAssumption DEF Online, Sessions, ThreadTypes
<2> QED BY <1>3, <1>4, <2>1
<1>5. CASE Start
  BY <1>4, <1>5 DEF Start, sessionVars, tableVars, histVars
<1>6. CASE Accept
<2>1. /\ accepted + 1 \in Sessions /\ pc[accepted + 1] = "none" /\ accepted \in Nat
  BY <1>0, <1>6, NumberGiven DEF SessionInv, ThreadTypes
<2>2. /\ accepted' = accepted + 1 /\ pc'[accepted + 1] # "done"
      /\ \A u \in Sessions \ {accepted + 1} : pc'[u] = pc[u]
      /\ listener.pc = "listen" /\ listener'.pc = "count" /\ UNCHANGED <<gOnlineNum, torn>>
  BY <1>0, <1>6, <2>1 DEF Accept, ThreadTypes, tableVars, histVars
<2>3. Online' = Online \cup {accepted + 1} /\ accepted + 1 \notin Online
  BY <1>0, <2>1, <2>2, P2PAssumption DEF Online, Sessions, ThreadTypes
<2>4. Cardinality(Online') = Cardinality(Online) + 1
  BY <1>2, <2>3, FS_AddElement
<2> QED BY <1>2, <1>3, <2>2, <2>4
<1>7. CASE Count
<2>1. CASE listener.pc = "count"
  BY <1>0, <1>4, <1>7, <2>1 DEF Count, sessionVars, tableVars, histVars
<2>2. CASE listener.pc = "add"
<3>1. /\ gOnlineNum' = listener.val + 1 /\ listener'.pc = "listen"
      /\ torn' = IF gOnlineNum = listener.val THEN torn ELSE torn \cup {"online"}
      /\ UNCHANGED <<accepted, pc>>
  BY <1>7, <2>2 DEF Count, sessionVars
<3>2. Online' = Online /\ gOnlineNum \in Int
  BY <1>0, <3>1 DEF Online, TableTypes
<3> QED BY <1>2, <1>3, <2>2, <3>1, <3>2
<2> QED BY <1>7, <2>1, <2>2 DEF Count
<1>8. CASE Sender
  BY <1>4, <1>8 DEF Sender, NewFrame, Look, Send, TakeOff, sessionVars, tableVars, histVars
<1>9. ASSUME NEW t \in Sessions, CountDown(t) PROVE OnlineHonest'
<2>1. CASE pc[t] = "online"
  BY <1>0, <1>4, <1>9, <2>1 DEF CountDown, Goto, ThreadTypes, rest, tableVars, histVars
<2>2. CASE pc[t] = "offline"
<3>1. /\ gOnlineNum' = tmp[t] - 1 /\ pc'[t] = "done"
      /\ torn' = IF gOnlineNum = tmp[t] THEN torn ELSE torn \cup {"online"}
      /\ \A u \in Sessions \ {t} : pc'[u] = pc[u]
      /\ UNCHANGED <<accepted, listener>>
  BY <1>0, <1>9, <2>2 DEF CountDown, Goto, ThreadTypes, rest
<3>2. Online' = Online \ {t} /\ t \in Online
  BY <1>0, <1>1, <2>2, <3>1, P2PAssumption DEF Online, Sessions, ThreadTypes, SessionInv
<3>3. Cardinality(Online') = Cardinality(Online) - 1 /\ gOnlineNum \in Int
  BY <1>0, <1>2, <3>2, FS_RemoveElement DEF TableTypes
<3> QED BY <1>2, <1>3, <3>1, <3>3
<2> QED BY <1>9, <2>1, <2>2 DEF CountDown, Goto
<1>10. ASSUME NEW t \in Sessions, ServStart(t) \/ Recv(t) \/ List(t) \/ Close(t) \/ Leave(t)
       PROVE  OnlineHonest'
  BY <1>0, <1>4, <1>10
  DEF ServStart, Recv, PlayStart, List, ListEvent, Close, Leave, Goto, ThreadTypes, rest,
      tableVars, histVars
<1>11. ASSUME NEW t \in Sessions, Regedit(t) PROVE OnlineHonest'
  BY <1>0, <1>4, <1>11 DEF Regedit, Goto, ThreadTypes, rest
<1>12. ASSUME NEW t \in Sessions, Stop(t) \/ End(t) PROVE OnlineHonest'
  BY <1>0, <1>4, <1>12 DEF Stop, End, Off, CountOff, Goto, ThreadTypes, rest
<1> QED
  BY <1>5, <1>6, <1>7, <1>8, <1>9, <1>10, <1>11, <1>12 DEF Next, Listener, Thread
VideoOn  == {i \in Sids : client[i].video}
Starting == {t \in Sessions : pc[t] = "started"}
Going    == {t \in Sessions : GoingOff(t)}
Taking   == IF sender.pc = "count" /\ sender.val > 0 THEN 1 ELSE 0
Counted  == Cardinality(VideoOn) - Cardinality(Starting) + Cardinality(Going) + Taking

LEMMA StatusCounts ==
  /\ StatusHonest <=> ("status" \notin torn /\ ~surplus => p2p_send_status = Counted)
  /\ StatusHonest' <=> ("status" \notin torn' /\ ~surplus' => p2p_send_status' = Counted')
<1>1. Cardinality(Starting) = Counting(LAMBDA t : pc[t] = "started")
  BY DEF Starting, Counting
<1>2. Cardinality(Going) = Counting(GoingOff)
  BY DEF Going, Counting
<1>3. Cardinality(Starting)' = Counting(LAMBDA t : pc[t] = "started")'
  BY DEF Starting, Counting
<1>4. Cardinality(Going)' = Counting(GoingOff)'
  BY DEF Going, Counting
<1> QED BY <1>1, <1>2, <1>3, <1>4 DEF StatusHonest, Counted, VideoOn, Taking

LEMMA SetsFinite ==
  /\ IsFiniteSet(VideoOn) /\ Cardinality(VideoOn) \in Nat
  /\ IsFiniteSet(Starting) /\ Cardinality(Starting) \in Nat
  /\ IsFiniteSet(Going) /\ Cardinality(Going) \in Nat
<1>1. Starting \in SUBSET Sessions /\ Going \in SUBSET Sessions /\ VideoOn \in SUBSET Sids
  BY DEF Starting, Going, VideoOn
<1>2. IsFiniteSet(VideoOn) /\ Cardinality(VideoOn) \in Nat
  BY <1>1, P2PAssumption, FS_Subset, FS_CardinalityType
<1> QED BY <1>1, <1>2, SessionsFinite

(* What a thread or the sender adds or takes away it wrote down before.    *)
LEMMA StatusKept ==
  ASSUME TypeOK, SessionInv, SenderInv, StatusHonest, Next
  PROVE  StatusHonest'
<1>0. ThreadTypes /\ TableTypes /\ SenderType /\ torn \subseteq {"online", "status"}
  BY TypeParts DEF HistoryTypes
<1>1. p2p_send_status \in Nat /\ Counted \in Int
  BY <1>0, SetsFinite DEF TableTypes, Counted, Taking
<1>2. ASSUME UNCHANGED <<client, p2p_send_status, surplus>>,
             "status" \in torn => "status" \in torn',
             Taking' = Taking,
             \A u \in Sessions :
               /\ pc[u] \in Counts \/ pc'[u] \in Counts => pc'[u] = pc[u] /\ tmp'[u] = tmp[u]
      PROVE  StatusHonest'
<2>1. VideoOn' = VideoOn
  BY <1>2 DEF VideoOn
<2>2. Starting' = Starting /\ Going' = Going
  BY <1>2 DEF Starting, Going, GoingOff, Counts
<2>3. Counted' = Counted
  BY <1>2, <2>1, <2>2 DEF Counted
<2> QED BY <1>2, <2>3, StatusCounts
<1>3. CASE Start \/ Count \/ \E t \in Sessions : Leave(t)
  BY <1>2, <1>3 DEF Start, Count, Leave, sessionVars, tableVars, histVars, Taking
<1>4. CASE Accept
  BY <1>0, <1>2, <1>4, NumberGiven
  DEF Accept, ThreadTypes, SessionInv, Counts, tableVars, histVars, Taking
<1>5. CASE NewFrame \/ Look \/ Send
<2>1. sender.pc # "count" /\ sender'.pc # "count"
<3>1. \A i \in Sids \cup {NoIndex} : NextClient(i).pc # "count"
  BY NextClientShape DEF Idle
<3>2. sender.pc \in {"look", "send"} => sender.i \in Sids
  BY DEF SenderInv
<3>3. CASE NewFrame
  BY <3>1, <3>3 DEF NewFrame
<3>4. CASE Look
  BY <1>0, <3>1, <3>2, <3>4 DEF Look, SenderType
<3>5. CASE Send
  BY <1>0, <3>1, <3>2, <3>5 DEF Send, SenderType
<3> QED BY <1>5, <3>3, <3>4, <3>5
<2> QED BY <1>2, <1>5, <2>1 DEF NewFrame, Look, Send, sessionVars, tableVars, histVars, Taking
<1>6. CASE TakeOff
<2>1. UNCHANGED <<pc, tmp>> /\ Starting' = Starting /\ Going' = Going
  BY <1>6 DEF TakeOff, sessionVars, Starting, Going, GoingOff
<2>2. CASE sender.pc = "unreg"
<3>1. /\ client' = [client EXCEPT ![sender.i].video = FALSE] /\ sender.i \in Sids
      /\ sender'.pc = "count" /\ sender'.val = p2p_send_status
      /\ surplus' = (surplus \/ client[sender.i].video # (p2p_send_status > 0))
      /\ UNCHANGED <<p2p_send_status, torn>>
  BY <1>0, <1>6, <2>2 DEF TakeOff, SenderInv, SenderType
<3>2. VideoOn' = VideoOn \ {sender.i}
  BY <1>0, <3>1, TakenOff DEF VideoOn
<3>3. Cardinality(VideoOn') = IF client[sender.i].video THEN Cardinality(VideoOn) - 1
                              ELSE Cardinality(VideoOn)
  BY <3>1, <3>2, SetsFinite, FS_RemoveElement DEF VideoOn
<3>4. Taking = 0 /\ Taking' = IF p2p_send_status > 0 THEN 1 ELSE 0
  BY <2>2, <3>1 DEF Taking
<3>5. ~surplus' => ~surplus /\ (client[sender.i].video <=> p2p_send_status > 0)
  BY <1>0, <3>1 DEF TableTypes
<3>6. ASSUME ~surplus' PROVE Counted' = Counted
  <4>1. CASE p2p_send_status > 0
    BY <2>1, <3>3, <3>4, <3>5, <3>6, <4>1, SetsFinite DEF Counted
  <4>2. CASE ~(p2p_send_status > 0)
    BY <2>1, <3>3, <3>4, <3>5, <3>6, <4>2, SetsFinite DEF Counted
  <4> QED BY <4>1, <4>2
<3> QED BY <3>1, <3>5, <3>6, StatusCounts
<2>3. CASE sender.pc = "count"
<3>1. /\ p2p_send_status' = IF sender.val > 0 THEN sender.val - 1 ELSE p2p_send_status
      /\ torn' = IF sender.val = 0 \/ p2p_send_status = sender.val THEN torn
                 ELSE torn \cup {"status"}
      /\ UNCHANGED <<client, surplus>> /\ sender' = NextClient(sender.i)
  BY <1>6, <2>3 DEF TakeOff
<3>2. VideoOn' = VideoOn /\ sender.val \in Nat /\ sender.i \in Sids
  BY <1>0, <2>3, <3>1 DEF VideoOn, SenderType, SenderInv
<3>3. Taking' = 0 /\ Taking = IF sender.val > 0 THEN 1 ELSE 0
  BY <2>3, <3>1, <3>2, NextClientShape DEF Taking, Idle
<3>4. Counted' = Counted - Taking
  BY <2>1, <3>2, <3>3, SetsFinite DEF Counted
<3> QED BY <1>1, <3>1, <3>2, <3>3, <3>4, StatusCounts
<2> QED BY <1>6, <2>2, <2>3 DEF TakeOff
<1>7. ASSUME NEW t \in Sessions,
             ServStart(t) \/ Recv(t) \/ List(t) \/ Close(t) \/ CountDown(t)
      PROVE  StatusHonest'
<2>1. UNCHANGED <<client, p2p_send_status, surplus, sender>>
      /\ ("status" \in torn => "status" \in torn')
  BY <1>0, <1>7
  DEF ServStart, Recv, List, Close, CountDown, rest, tableVars, histVars
<2>2. \A u \in Sessions :
        pc[u] \in Counts \/ pc'[u] \in Counts => pc'[u] = pc[u] /\ tmp'[u] = tmp[u]
  BY <1>0, <1>7
  DEF ServStart, Recv, PlayStart, List, ListEvent, Close, CountDown, Goto, ThreadTypes, Counts
<2> QED BY <1>2, <2>1, <2>2 DEF Taking
<1>8. ASSUME NEW t \in Sessions, Regedit(t) PROVE StatusHonest'
<2>1. UNCHANGED sender /\ Taking' = Taking
  BY <1>8 DEF Regedit, rest, Taking
<2>2. CASE pc[t] = "start"
<3>1. VideoOn' = VideoOn \cup {sid[t]}
  BY <1>8, <2>2, StartStep DEF VideoOn
<3>2. Starting' = Starting \cup {t} /\ t \notin Starting /\ Going' = Going
  BY <1>8, <2>2, StartStep DEF Starting, Going, GoingOff
<3>3. ~surplus' => ~surplus /\ sid[t] \notin VideoOn
  BY <1>8, <2>2, StartStep DEF VideoOn
<3>4. ~surplus' => Cardinality(VideoOn') = Cardinality(VideoOn) + 1
  BY <3>1, <3>3, SetsFinite, FS_AddElement
<3>5. Cardinality(Starting') = Cardinality(Starting) + 1
  BY <3>2, SetsFinite, FS_AddElement
<3>6. ~surplus' => Counted' = Counted
  BY <2>1, <3>2, <3>4, <3>5, SetsFinite DEF Counted, Taking
<3> QED BY <1>8, <2>2, <3>3, <3>6, StatusCounts, StartStep
<2>3. CASE pc[t] = "started"
<3>1. /\ pc'[t] = "recv" /\ \A u \in Sessions \ {t} : pc'[u] = pc[u] /\ tmp'[u] = tmp[u]
      /\ p2p_send_status' = tmp[t] + 1
      /\ torn' = IF p2p_send_status = tmp[t] THEN torn ELSE torn \cup {"status"}
      /\ UNCHANGED <<client, surplus>>
  BY <1>0, <1>8, <2>3 DEF Regedit, Goto, ThreadTypes
<3>2. VideoOn' = VideoOn /\ Starting' = Starting \ {t} /\ t \in Starting /\ Going' = Going
  BY <2>3, <3>1 DEF VideoOn, Starting, Going, GoingOff
<3>3. Cardinality(Starting') = Cardinality(Starting) - 1
  BY <3>2, SetsFinite, FS_RemoveElement
<3>4. Counted' = Counted + 1
  BY <2>1, <3>2, <3>3, SetsFinite DEF Counted, Taking
<3> QED BY <1>1, <3>1, <3>4, StatusCounts
<2> QED BY <1>8, <2>2, <2>3 DEF Regedit, Goto
<1>9. ASSUME NEW t \in Sessions, Stop(t) \/ End(t) PROVE StatusHonest'
<2>1. CASE pc[t] \in {"stop", "off"}
<3>1. /\ pc'[t] \in {"stopped", "wentoff"} /\ sid[t] \in Sids
      /\ \A u \in Sessions \ {t} : pc'[u] = pc[u] /\ tmp'[u] = tmp[u]
      /\ tmp'[t] = p2p_send_status
      /\ surplus' = (surplus \/ client[sid[t]].video # (p2p_send_status > 0))
      /\ client' = [client EXCEPT ![sid[t]].video = FALSE]
      /\ UNCHANGED <<sender, p2p_send_status, torn>>
  BY <1>9, <2>1, OffStep DEF rest
<3>2. VideoOn' = VideoOn \ {sid[t]}
  BY <1>0, <3>1, TakenOff DEF VideoOn
<3>3. Cardinality(VideoOn') = IF client[sid[t]].video THEN Cardinality(VideoOn) - 1
                              ELSE Cardinality(VideoOn)
  BY <3>1, <3>2, SetsFinite, FS_RemoveElement DEF VideoOn
<3>4. Starting' = Starting /\ t \notin Going
      /\ Going' = IF p2p_send_status > 0 THEN Going \cup {t} ELSE Going
  BY <2>1, <3>1 DEF Starting, Going, GoingOff
<3>5. Cardinality(Going') = IF p2p_send_status > 0 THEN Cardinality(Going) + 1
                            ELSE Cardinality(Going)
  BY <3>4, SetsFinite, FS_AddElement
<3>6. ~surplus' => ~surplus /\ (client[sid[t]].video <=> p2p_send_status > 0)
  BY <1>0, <3>1 DEF TableTypes
<3>7. Taking' = Taking /\ Taking \in Nat
  BY <3>1 DEF Taking
<3>8. ASSUME ~surplus' PROVE Counted' = Counted
  <4>1. CASE p2p_send_status > 0
    BY <3>3, <3>4, <3>5, <3>6, <3>7, <3>8, <4>1, SetsFinite DEF Counted
  <4>2. CASE ~(p2p_send_status > 0)
    BY <3>3, <3>4, <3>5, <3>6, <3>7, <3>8, <4>2, SetsFinite DEF Counted
  <4> QED BY <4>1, <4>2
<3> QED BY <3>1, <3>6, <3>8, StatusCounts
<2>2. CASE pc[t] \notin {"stop", "off"}
<3>1. tmp[t] \in Nat /\ pc[t] \in {"stopped", "wentoff"} /\ pc'[t] \notin Counts
  BY <1>9, <2>2, OffCounted DEF SessionInv, Counts
<3>2. VideoOn' = VideoOn /\ Starting' = Starting /\ Taking' = Taking
  BY <1>9, <2>2, <3>1, OffCounted DEF VideoOn, Starting, Taking, Counts, rest
<3>3. Going' = Going \ {t} /\ (t \in Going <=> tmp[t] > 0)
  BY <1>9, <2>2, <3>1, OffCounted DEF Going, GoingOff, Counts
<3>4. Cardinality(Going') = IF tmp[t] > 0 THEN Cardinality(Going) - 1 ELSE Cardinality(Going)
  BY <3>3, SetsFinite, FS_RemoveElement
<3>5. Counted' = IF tmp[t] > 0 THEN Counted - 1 ELSE Counted
  BY <3>2, <3>4, SetsFinite DEF Counted, Taking
<3> QED BY <1>1, <1>9, <2>2, <3>1, <3>5, StatusCounts, OffCounted
<2> QED BY <2>1, <2>2
<1> QED
  BY <1>3, <1>4, <1>5, <1>6, <1>7, <1>8, <1>9 DEF Next, Listener, Sender, Thread

------------------------------------------------------------------------------
LEMMA InitInv == Init => IInv
<1> SUFFICES ASSUME Init PROVE IInv
  OBVIOUS
<1>1. TypeOK /\ SessionInv
  BY InitType, InitSession
<1>2. VideoInv /\ SenderInv /\ WantInv
  BY DEF Init, VideoInv, SenderInv, WantInv
<1>3. EventListInv
  BY DEF Init, EventListInv
<1>4. OnlineHonest
<2>1. Online = {}
  BY DEF Init, Online
<2> QED BY <2>1, FS_EmptySet DEF Init, OnlineHonest, Online
<1>5. StatusHonest
<2>1. VideoOn = {} /\ Starting = {} /\ Going = {}
  BY DEF Init, VideoOn, Starting, Going, GoingOff
<2>2. Counted = 0
  BY <2>1, FS_EmptySet DEF Init, Counted, Taking
<2> QED BY <2>2, StatusCounts DEF Init
<1> QED BY <1>1, <1>2, <1>3, <1>4, <1>5 DEF IInv

LEMMA NextInv ==
  ASSUME IInv, [Next]_vars
  PROVE  IInv'
<1>1. CASE Next
<2>1. ThreadTypes' /\ TableTypes' /\ SenderType' /\ HistoryTypes'
  BY <1>1, ThreadTypesKept, TableTypesKept, SenderTypeKept, HistoryTypesKept DEF IInv
<2>2. TypeOK'
  BY <2>1 DEF TypeOK, ThreadTypes, TableTypes, SenderType, HistoryTypes
<2>3. SessionInv' /\ VideoInv' /\ SenderInv' /\ WantInv' /\ EventListInv'
  BY <1>1, SessionKept, VideoKeptInv, SenderKept, WantKept, ListKept DEF IInv
<2>4. OnlineHonest' /\ StatusHonest'
  BY <1>1, OnlineKept, StatusKept DEF IInv
<2> QED BY <2>2, <2>3, <2>4 DEF IInv
<1>2. CASE UNCHANGED vars
<2>1. UNCHANGED <<use, listener, accepted, pc, sid, av, tmp, gone>>
  BY <1>2 DEF vars, sessionVars
<2>2. UNCHANGED <<client, gOnlineNum, p2p_send_status, sender, crashed, cmds>>
  BY <1>2 DEF vars, tableVars
<2>3. UNCHANGED <<gEventList, gbSearchEvent, short, asked, raced, want, torn, surplus, struck>>
  BY <1>2 DEF vars, listVars, histVars
<2>4. TypeOK'
  BY <2>1, <2>2, <2>3 DEF IInv, TypeOK
<2>5. SessionInv' /\ VideoInv' /\ WantInv'
  BY <2>1, <2>2, <2>3 DEF IInv, SessionInv, VideoInv, WantInv, Open, HasAv
<2>6. SenderInv' /\ EventListInv'
  BY <2>1, <2>2, <2>3 DEF IInv, SenderInv, EventListInv
<2>7. OnlineHonest'
  BY <2>1, <2>2, <2>3 DEF IInv, OnlineHonest
<2>8. StatusHonest'
<3>1. Counted' = Counted
  BY <2>1, <2>2, <2>3 DEF Counted, VideoOn, Starting, Going, GoingOff, Taking
<3> QED BY <2>2, <2>3, <3>1, StatusCounts DEF IInv
<2> QED BY <2>4, <2>5, <2>6, <2>7, <2>8 DEF IInv
<1> QED BY <1>1, <1>2

LEMMA Invariant == Spec => []IInv
  BY InitInv, NextInv, PTL DEF Spec

(* Type correctness, and what the two counters say: p2p.c changes          *)
(* gOnlineNum and p2p_send_status from several threads without a lock, and *)
(* they are right until two of them count at the same moment or a client   *)
(* that is off goes off.                                                   *)
THEOREM CountersAreHonest == Spec => []CountersHonest
<1>1. IInv => CountersHonest
  BY DEF IInv, CountersHonest
<1> QED BY <1>1, Invariant, PTL

(* A frame send_frame_p2p is sending reaches only a session that has video *)
(* on, while the session it was for is served; and no session inherits the *)
(* video of the one that had its number before.                            *)
THEOREM OnlyWantedFrames == Spec => []WantedOnly
<1> SUFFICES ASSUME IInv PROVE WantedOnly
  BY Invariant, PTL
<1>1. FrameWanted
<2> SUFFICES ASSUME sender.pc = "send",
                    pc[sender.t] \in {"recv", "start", "started", "stop", "stopped"},
                    NEW t \in Reaches
             PROVE  client[sid[t]].video
  BY DEF FrameWanted
<2>1. sender.t \in Sessions /\ sid[sender.t] = sender.i /\ av[sender.t] = sender.av
      /\ pc[sender.t] \in Active /\ client[sender.i].video
  BY DEF IInv, SenderInv, Active
<2>2. sender.t \in HasAv
  BY <2>1, P2PAssumption DEF IInv, SessionInv, HasAv, NoIndex
<2>3. t = sender.t
  BY <2>1, <2>2 DEF IInv, SessionInv, Reaches
<2> QED BY <2>1, <2>3
<1>2. NewSessionClean
<2> SUFFICES ASSUME NEW t \in Sessions, pc[t] = "serve", client[sid[t]].video
             PROVE  FALSE
  BY DEF NewSessionClean
<2>1. sid[t] \in Sids
  BY DEF IInv, SessionInv
<2>2. PICK u \in Sessions : pc[u] \in Active /\ sid[u] = sid[t]
  BY <2>1 DEF IInv, VideoInv
<2>3. t \in Open /\ u \in Open
  BY <2>2 DEF Open, Active
<2>4. t <= u /\ u <= t /\ t \in Int /\ u \in Int
  BY <2>2, <2>3 DEF IInv, SessionInv, Sessions
<2> QED BY <2>2, <2>4 DEF Active
<1> QED BY <1>1, <1>2 DEF WantedOnly

(* A START of a viewer holds until its STOP, its end, the loss of its      *)
(* client, or the late end of the session that had its number before.      *)
THEOREM VideoIsKept == Spec => []VideoKept
<1>1. IInv => VideoKept
  BY DEF IInv, WantInv, VideoKept
<1> QED BY <1>1, Invariant, PTL

(* LISTEVENT_REQ makes the list of recordings once; every viewer gets all  *)
(* of it, unless two of them asked first at once, and who has got it can   *)
(* start to play.                                                          *)
THEOREM ListIsComplete == Spec => []ListComplete
<1>1. IInv => ListComplete
  BY DEF IInv, EventListInv, ListComplete
<1> QED BY <1>1, Invariant, PTL
===============================================================================
