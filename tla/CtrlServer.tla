------------------------------ MODULE CtrlServer ------------------------------
(***************************************************************************)
(* The two servers on Unix sockets: av_server (src/src/av_server.c), which *)
(* hands the messages to processMsg, and Avi_Ctrl (src/src/avi_save.c),    *)
(* which hands them to processMsg_avi.  Both are the same loop: select on  *)
(* a fixed table of descriptors, accept at most one client, then read the  *)
(* clients that were ready.  They are joined: a message that changes the   *)
(* recording makes av_server a client of Avi_Ctrl (rec_cfg_set), and the   *)
(* recorder asks av_server for the video parameters (GetVideoInfo) and     *)
(* never closes that connection.                                           *)
(*                                                                         *)
(* Abstracted: a message is the kind of its sender; a connection carries   *)
(* one.  What processMsg does with a message is in ConfigStore, what       *)
(* processMsg_avi does in AviRecorder.  The kernel's side of a connection  *)
(* (conn, backlog) is external.  A connection has a number of its own:     *)
(* descriptors are not reused within a round, nothing is accepted after    *)
(* the first close.                                                        *)
(***************************************************************************)
EXTENDS Integers, FiniteSets, Sequences, SequencesExt, FiniteSetsExt

CONSTANTS
  Clients,         \* the programs and threads that talk to av_server
  Kind,            \* what each of them does, see Kinds
  MAX_LIST_FD,     \* the table of av_server, with the listening descriptor
  AVI_LISTEN,      \* the table of Avi_Ctrl
  Failures,        \* connect and accept may fail
  MaxConns         \* bound: connections made

(* "ask" waits for its answer and closes, "tell" closes at once (reset_sys *)
(* and other settings), "rec" tells something about recording, "keep" asks *)
(* and leaves the connection open (GetVideoInfo).                          *)
Kinds == {"ask", "tell", "rec", "keep"}

ASSUME ServerAssumption ==
  /\ Kind \in [Clients -> Kinds] /\ Clients \cap {"av", "nobody"} = {}
  /\ MAX_LIST_FD \in Nat \ {0} /\ AVI_LISTEN \in Nat \ {0}
  /\ Failures \in BOOLEAN /\ MaxConns \in Nat

VARIABLES
  conn,      \* the connections, see Unused
  backlog,   \* per server: connected and not yet accepted
  arrClient_fd,
  pc,        \* per server: where it is in its loop
  readfset,  \* per server: the clients select has reported
  cur,       \* the connection each client is busy with, 0 if none
  refused    \* history: a server has closed a client it had no slot for

vars == <<conn, backlog, arrClient_fd, pc, readfset, cur, refused>>

Servers  == {"av", "avi"}
Conns    == 1 .. MaxConns
Actors   == Clients \cup {"av"}      \* av_server is a client of Avi_Ctrl
Size(s)  == IF s = "av" THEN MAX_LIST_FD ELSE AVI_LISTEN
Slots(s) == 1 .. Size(s) - 1
Peer(p)  == IF p = "av" THEN "avi" ELSE "av"
What(p)  == IF p = "av" THEN "tell" ELSE Kind[p]

(* cl and sv are the two ends, msg the unread message, reply an unread     *)
(* answer.                                                                 *)
Unused == [by |-> "nobody", to |-> "av", cl |-> "none", sv |-> "none",
           msg |-> "none", reply |-> FALSE]

Init ==
  /\ conn = [n \in Conns |-> Unused]
  /\ backlog = [s \in Servers |-> <<>>]
  /\ arrClient_fd = [s \in Servers |-> [i \in Slots(s) |-> 0]]
  /\ pc = [s \in Servers |-> "select"]
  /\ readfset = [s \in Servers |-> {}]
  /\ cur = [p \in Actors |-> 0]
  /\ refused = FALSE

------------------------------------------------------------------------------
(* A client: connect_local, send_local, recv_local, close_local *)

(* av_server is a client only while it forwards the recording settings. *)
MayConnect(p) == cur[p] = 0 /\ (p = "av" => pc["av"] = "forward")

(* connect waits while the queue of the listening socket is full. *)
Connect(p) ==
  /\ MayConnect(p)
  /\ Len(backlog[Peer(p)]) < Size(Peer(p))
  /\ \E n \in Conns :
       /\ conn[n] = Unused /\ \A m \in 1 .. n - 1 : conn[m] # Unused
       /\ conn' = [conn EXCEPT ![n] = [Unused EXCEPT !.by = p, !.to = Peer(p),
                                                     !.cl = "open", !.sv = "queued"]]
       /\ cur' = [cur EXCEPT ![p] = n]
       /\ backlog' = [backlog EXCEPT ![Peer(p)] = Append(@, n)]
  /\ UNCHANGED <<arrClient_fd, pc, readfset, refused>>

(* Back to the clients select has reported, or to select. *)
Resume(s) == IF readfset'[s] = {} THEN "select" ELSE "scan"

(* rec_cfg_set is done with its connection or has not got one. *)
ForwardDone(p) ==
  IF p = "av" THEN pc' = [pc EXCEPT !["av"] = Resume("av")] ELSE UNCHANGED pc

(* There is no socket yet, or no descriptor left. *)
CannotConnect(p) ==
  /\ p = "av" /\ MayConnect(p)
  /\ Failures \/ \A n \in Conns : conn[n] # Unused
  /\ UNCHANGED readfset /\ ForwardDone(p)
  /\ UNCHANGED <<conn, backlog, arrClient_fd, cur, refused>>

(* A refused client's message goes nowhere. *)
SendLocal(p) ==
  /\ cur[p] # 0
  /\ LET n == cur[p] IN
       /\ conn[n].cl = "open"
       /\ conn' = [conn EXCEPT ![n].msg = IF conn[n].sv = "closed" THEN @ ELSE What(p),
                               ![n].cl = "sent"]
  /\ UNCHANGED <<backlog, arrClient_fd, pc, readfset, cur, refused>>

(* Mutant: nobody waits for an answer. *)
FinishEarly(p) ==
  /\ cur[p] # 0 /\ conn[cur[p]].cl = "sent"
  /\ conn' = [conn EXCEPT ![cur[p]].cl = IF What(p) = "keep" THEN "kept" ELSE "closed"]
  /\ cur' = [cur EXCEPT ![p] = 0]
  /\ UNCHANGED readfset /\ ForwardDone(p)
  /\ UNCHANGED <<backlog, arrClient_fd, refused>>

(* What waits for an answer goes on when it has one or the other end is    *)
(* closed; GetVideoInfo returns without closing, whatever it got.          *)
Finish(p) ==
  /\ cur[p] # 0
  /\ LET n == cur[p] IN
       /\ conn[n].cl = "sent"
       /\ What(p) \in {"ask", "keep"} => conn[n].reply \/ conn[n].sv = "closed"
       /\ conn' = [conn EXCEPT ![n].cl = IF What(p) = "keep" THEN "kept" ELSE "closed"]
  /\ cur' = [cur EXCEPT ![p] = 0]
  /\ UNCHANGED readfset /\ ForwardDone(p)
  /\ UNCHANGED <<backlog, arrClient_fd, refused>>

------------------------------------------------------------------------------
(* A server: av_server, Avi_Ctrl *)

(* There is something to read: a message, or the end of the stream. *)
Readable(n) == conn[n].msg # "none" \/ conn[n].cl = "closed"

Table(s) == {arrClient_fd[s][i] : i \in Slots(s)} \ {0}

(* Mutant: the set that goes into select is scanned, not what select left in it. *)
SelectKeepsSet(s) ==
  /\ pc[s] = "select"
  /\ backlog[s] # <<>> \/ \E n \in Table(s) : Readable(n)
  /\ readfset' = [readfset EXCEPT ![s] = Table(s)]
  /\ pc' = [pc EXCEPT ![s] = IF backlog[s] # <<>> THEN "accept" ELSE "scan"]
  /\ UNCHANGED <<conn, backlog, arrClient_fd, cur, refused>>

Select(s) ==
  /\ pc[s] = "select"
  /\ backlog[s] # <<>> \/ \E n \in Table(s) : Readable(n)
  /\ readfset' = [readfset EXCEPT ![s] = {n \in Table(s) : Readable(n)}]
  /\ pc' = [pc EXCEPT ![s] = IF backlog[s] # <<>> THEN "accept" ELSE "scan"]
  /\ UNCHANGED <<conn, backlog, arrClient_fd, cur, refused>>

AcceptFails(s) ==
  /\ Failures /\ pc[s] = "accept"
  /\ pc' = [pc EXCEPT ![s] = "select"]
  /\ UNCHANGED <<conn, backlog, arrClient_fd, readfset, cur, refused>>

Free(s) == {i \in Slots(s) : arrClient_fd[s][i] = 0}

(* Mutant: a client there is no slot for is accepted and forgotten. *)
AcceptLeaks(s) ==
  /\ pc[s] = "accept"
  /\ backlog' = [backlog EXCEPT ![s] = Tail(@)]
  /\ conn' = [conn EXCEPT ![Head(backlog[s])].sv = "accepted"]
  /\ IF Free(s) # {}
       THEN /\ arrClient_fd' = [arrClient_fd EXCEPT ![s][Min(Free(s))] = Head(backlog[s])]
            /\ pc' = [pc EXCEPT ![s] = IF readfset[s] = {} THEN "select" ELSE "scan"]
       ELSE /\ pc' = [pc EXCEPT ![s] = "select"]
            /\ UNCHANGED arrClient_fd
  /\ UNCHANGED <<readfset, cur, refused>>

(* The first free slot, or the client is closed and the others wait for    *)
(* the next round.                                                         *)
Accept(s) ==
  /\ pc[s] = "accept"
  /\ backlog' = [backlog EXCEPT ![s] = Tail(@)]
  /\ LET n == Head(backlog[s]) IN
       \/ /\ Free(s) # {}
          /\ arrClient_fd' = [arrClient_fd EXCEPT ![s][Min(Free(s))] = n]
          /\ conn' = [conn EXCEPT ![n].sv = "accepted"]
          /\ pc' = [pc EXCEPT ![s] = IF readfset[s] = {} THEN "select" ELSE "scan"]
          /\ UNCHANGED refused
       \/ /\ Free(s) = {}
          /\ conn' = [conn EXCEPT ![n].sv = "closed"]
          /\ pc' = [pc EXCEPT ![s] = "select"]
          /\ refused' = TRUE
          /\ UNCHANGED arrClient_fd
  /\ UNCHANGED <<readfset, cur>>

(* The next client of the round, in the order of the table. *)
NextSlot(s) == Min({i \in Slots(s) : arrClient_fd[s][i] \in readfset[s]})
NextConn(s) == arrClient_fd[s][NextSlot(s)]

(* Read, process, answer.  An answer nobody reads any more is an EPIPE and *)
(* not an EBADF: the slot stays until the end of the stream is read.       *)
Serve(s) ==
  /\ pc[s] = "scan"
  /\ LET n == NextConn(s) IN
       /\ conn[n].msg # "none"
       /\ conn' = [conn EXCEPT ![n].msg = "none",
                               ![n].reply = (conn[n].msg \in {"ask", "keep"})]
       /\ readfset' = [readfset EXCEPT ![s] = @ \ {n}]
       /\ pc' = [pc EXCEPT ![s] = IF conn[n].msg = "rec" THEN "forward" ELSE Resume(s)]
  /\ UNCHANGED <<backlog, arrClient_fd, cur, refused>>

(* Mutant: the end of the stream is taken for a message without answer. *)
HangUpIgnored(s) ==
  /\ pc[s] = "scan"
  /\ LET n == NextConn(s) IN
       /\ conn[n].msg = "none" /\ conn[n].cl = "closed"
       /\ readfset' = [readfset EXCEPT ![s] = @ \ {n}]
       /\ pc' = [pc EXCEPT ![s] = Resume(s)]
  /\ UNCHANGED <<conn, backlog, arrClient_fd, cur, refused>>

(* readlen <= 3: the client has closed its end. *)
HangUp(s) ==
  /\ pc[s] = "scan"
  /\ LET n == NextConn(s) IN
       /\ conn[n].msg = "none" /\ conn[n].cl = "closed"
       /\ conn' = [conn EXCEPT ![n].sv = "closed"]
       /\ arrClient_fd' = [arrClient_fd EXCEPT ![s][NextSlot(s)] = 0]
       /\ readfset' = [readfset EXCEPT ![s] = @ \ {n}]
       /\ pc' = [pc EXCEPT ![s] = Resume(s)]
  /\ UNCHANGED <<backlog, cur, refused>>

ServerStep(s) == Select(s) \/ AcceptFails(s) \/ Accept(s) \/ Serve(s) \/ HangUp(s)
ClientStep(p) == CannotConnect(p) \/ SendLocal(p) \/ Finish(p)

Next ==
  \/ \E p \in Actors : Connect(p) \/ ClientStep(p)
  \/ \E s \in Servers : ServerStep(s)

Spec == Init /\ [][Next]_vars

(* The servers go on while there is something to do, and so does whoever   *)
(* has begun to talk to one; av_server always takes up what it forwards.   *)
FairSpec ==
  /\ Spec
  /\ \A s \in Servers : WF_vars(ServerStep(s))
  /\ \A p \in Actors : WF_vars(ClientStep(p))
  /\ WF_vars(Connect("av"))

------------------------------------------------------------------------------
TypeOK ==
  /\ conn \in [Conns -> [by : Actors \cup {"nobody"}, to : Servers,
                         cl : {"none", "open", "sent", "kept", "closed"},
                         sv : {"none", "queued", "accepted", "closed"},
                         msg : Kinds \cup {"none"}, reply : BOOLEAN]]
  /\ backlog \in [Servers -> Seq(Conns)]
  /\ DOMAIN arrClient_fd = Servers
  /\ \A s \in Servers : arrClient_fd[s] \in [Slots(s) -> {0} \cup Conns]
  /\ pc \in [Servers -> {"select", "accept", "scan", "forward"}]
  /\ readfset \in [Servers -> SUBSET Conns]
  /\ cur \in [Actors -> {0} \cup Conns]
  /\ refused \in BOOLEAN

(* No descriptor is lost or kept after its close: the connections a server *)
(* has accepted and not closed are those of its table, each in one slot.   *)
SlotsHonest ==
  \A s \in Servers :
    /\ Table(s) = {n \in Conns : conn[n].to = s /\ conn[n].sv = "accepted"}
    /\ \A i, j \in Slots(s) :
         arrClient_fd[s][i] = arrClient_fd[s][j] /\ arrClient_fd[s][i] # 0 => i = j

(* The tables are what select and accept take them for. *)
TablesHonest == TypeOK /\ SlotsHonest

(* A server of one thread must not wait in read: every client it is still  *)
(* going to read in this round, with whatever happened since select, is in *)
(* its table and has something to read.                                    *)
ReadNeverBlocks ==
  \A s \in Servers :
    /\ \A n \in readfset[s] : n \in Table(s) /\ Readable(n)
    /\ pc[s] = "scan" => readfset[s] # {}

(* A slot is lost to a connection that is never closed, as the recorder's  *)
(* for each file it opens, and to nothing else.  As long as all clients    *)
(* have waited for their answer, one is refused only when the connections  *)
(* left open and one for each client fill the table; a slot to spare makes *)
(* up for the accept that comes before the slots of the clients that are   *)
(* gone are freed.                                                         *)
Waiting(p) == p \in Clients /\ Kind[p] \in {"ask", "keep"}
Talked     == {conn[n].by : n \in Conns} \ {"nobody"}

RefusedMeansKept ==
  refused /\ (\A p \in Talked : Waiting(p))
  => Cardinality({n \in Conns : conn[n].cl = "kept"}) + Cardinality(Talked)
       >= Cardinality(Slots("av"))

(* Sockets, queues, tables and rounds together are a service: whatever the *)
(* order in which a server accepts, reads and closes, every call is taken  *)
(* up at most once, a client that waits goes on with the answer to its own *)
(* message or because it was refused and nothing was done, and av_server   *)
(* takes nothing up while it talks to Avi_Ctrl.                            *)
CallOf(n) ==
  LET c == conn[n] IN
  IF c.by = "nobody" THEN "unused"
  ELSE IF c.reply THEN "taken"
  ELSE IF c.sv = "closed" THEN "over"
  ELSE IF c.cl = "open" \/ c.msg # "none" THEN "made"
  ELSE "taken"

Calls == INSTANCE Service WITH
  Callers <- Actors, Waiters <- {p \in Clients : Waiting(p)}, Server <- "av",
  Calls <- Conns, NoCall <- 0,
  by <- [n \in Conns |-> conn[n].by], state <- [n \in Conns |-> CallOf(n)], busy <- cur

ServesCalls == Calls!Spec

(* Whoever talks to a server is done with it some time, with an answer or  *)
(* without; av_server too, when it forwards to Avi_Ctrl.                   *)
Answered == \A p \in Actors : cur[p] # 0 ~> cur[p] = 0

(* The slot of a client that has closed its end is free again some time. *)
Reclaimed ==
  \A n \in Conns :
    conn[n].cl = "closed" /\ conn[n].sv = "accepted" ~> conn[n].sv = "closed"
==============================================================================
