--------------------------- MODULE CtrlServerProof ---------------------------
(***************************************************************************)
(* The servers on Unix sockets: proofs that their tables hold exactly the  *)
(* connections they have accepted and not closed, that they never wait in  *)
(* read, and that av_server refuses a client only when connections left    *)
(* open have used its table up; for any clients, any sizes of the tables,  *)
(* and connects and accepts that may fail.                                 *)
(*                                                                         *)
(* That the tables are exact needs that what is still queued is in no      *)
(* table and queued once (QueueHonest); that no read blocks needs that the *)
(* tables are exact: a connection belongs to one server and sits in one    *)
(* slot, so nobody else reads its message between select and read.         *)
(*                                                                         *)
(* That a refusal is due is a count of the table when accept finds it      *)
(* full.  A client may have two slots for a while, for it can come back    *)
(* before its old slot is freed; that this is over when the server accepts *)
(* again takes a second invariant (RoundInv), of what select has reported. *)
(*                                                                         *)
(* That all of it is a service (module Service) is a matter of what one    *)
(* connection can be like (Shape, CallShape).                              *)
(***************************************************************************)
EXTENDS CtrlServer, SequenceTheorems, FiniteSetTheorems, WellFoundedInduction, TLAPS

(* What is connected and not yet accepted waits at its server, once. *)
Holds(q, n) == \E i \in DOMAIN q : q[i] = n
Once(q)     == \A i, j \in DOMAIN q : q[i] = q[j] => i = j
QueueHonest ==
  \A s \in Servers :
    /\ \A n \in Conns : Holds(backlog[s], n) <=> conn[n].to = s /\ conn[n].sv = "queued"
    /\ Once(backlog[s])

(* A server tries to accept only when somebody waits. *)
SomebodyWaits == \A s \in Servers : pc[s] = "accept" => backlog[s] # <<>>

IInv == TypeOK /\ SlotsHonest /\ QueueHonest /\ SomebodyWaits /\ ReadNeverBlocks

(* What TypeOK says of one connection. *)
Connection == [by : Actors \cup {"nobody"}, to : Servers,
               cl : {"none", "open", "sent", "kept", "closed"},
               sv : {"none", "queued", "accepted", "closed"},
               msg : Kinds \cup {"none"}, reply : BOOLEAN]
------------------------------------------------------------------------------
(* A set of slots that is not empty has a first one. *)
LEMMA FirstSlot ==
  ASSUME NEW T, T \subseteq Nat, T # {}
  PROVE  Min(T) \in T
<1> DEFINE Less == {ss \in Nat \X Nat : ss[1] < ss[2]}
<1>1. IsWellFoundedOn(Less, Nat)
  BY NatLessThanWellFounded DEF OpToRel
<1>2. \E x \in T : \A y \in T : <<y, x>> \notin Less
  <2> HIDE DEF Less
  <2> QED BY <1>1, WFMin
<1>3. PICK x \in T : \A y \in T : <<y, x>> \notin Less
  BY <1>2
<1>4. ASSUME NEW y \in T PROVE x <= y
<2>1. <<y, x>> \in Nat \X Nat /\ <<y, x>>[1] = y /\ <<y, x>>[2] = x
  OBVIOUS
<2>2. ~(y < x)
  BY <1>3, <2>1
<2> QED BY <2>2
<1> QED BY <1>4 DEF Min

(* connect and accept: the last and the first of a queue. *)
LEMMA QueueAppend ==
  ASSUME NEW q \in Seq(Conns), NEW n \in Conns
  PROVE  /\ Append(q, n) \in Seq(Conns) /\ Append(q, n) # <<>>
         /\ q # <<>> => Head(Append(q, n)) = Head(q)
         /\ \A m : Holds(Append(q, n), m) <=> Holds(q, m) \/ m = n
         /\ Once(q) /\ ~Holds(q, n) => Once(Append(q, n))
<1> DEFINE t == Append(q, n)
<1>1. /\ t \in Seq(Conns) /\ DOMAIN t = 1 .. Len(q) + 1 /\ t[Len(q) + 1] = n
      /\ DOMAIN q = 1 .. Len(q) /\ Len(q) \in Nat
      /\ \A i \in DOMAIN q : t[i] = q[i]
  OBVIOUS
<1>2. \A i \in DOMAIN t : i = Len(q) + 1 \/ (i \in DOMAIN q /\ t[i] = q[i])
  BY <1>1
<1>3. (\A i \in DOMAIN q : i \in DOMAIN t) /\ Len(q) + 1 \in DOMAIN t
  BY <1>1
<1> HIDE DEF t
<1>4. t # <<>> /\ (q # <<>> => Head(t) = Head(q))
  <2>1. t # <<>>
    BY <1>1, <1>3
  <2>2. ASSUME q # <<>> PROVE Head(t) = Head(q)
    <3>1. Head(q) = q[1] /\ 1 \in DOMAIN q
      BY <2>2
    <3>2. Head(t) = t[1]
      BY <1>1, <2>1
    <3> QED BY <1>1, <3>1, <3>2
  <2> QED BY <2>1, <2>2
<1>5. \A m : Holds(t, m) <=> Holds(q, m) \/ m = n
  BY <1>1, <1>2, <1>3 DEF Holds
<1>6. Once(q) /\ ~Holds(q, n) => Once(t)
  BY <1>1, <1>2 DEF Holds, Once
<1> QED BY <1>1, <1>4, <1>5, <1>6 DEF t

LEMMA QueueTail ==
  ASSUME NEW q \in Seq(Conns), q # <<>>
  PROVE  /\ Head(q) \in Conns /\ Tail(q) \in Seq(Conns) /\ Holds(q, Head(q))
         /\ Once(q) => /\ Once(Tail(q))
                       /\ \A m : Holds(Tail(q), m) <=> Holds(q, m) /\ m # Head(q)
<1> DEFINE t == Tail(q)
<1>1. /\ t \in Seq(Conns) /\ DOMAIN t = 1 .. Len(q) - 1 /\ Head(q) = q[1] /\ q[1] \in Conns
      /\ DOMAIN q = 1 .. Len(q) /\ Len(q) \in Nat /\ Len(q) >= 1
      /\ \A i \in DOMAIN t : t[i] = q[i + 1]
  OBVIOUS
<1> HIDE DEF t
<1>2. \A i \in DOMAIN q : i = 1 \/ (i - 1 \in DOMAIN t /\ q[i] = t[i - 1])
  BY <1>1
<1>3. 1 \in DOMAIN q /\ \A i \in DOMAIN t : i + 1 \in DOMAIN q /\ i + 1 # 1 /\ i \in Int
  BY <1>1
<1>4. Holds(q, Head(q))
  BY <1>1, <1>3 DEF Holds
<1>5. ASSUME Once(q) PROVE Once(t)
  <2> SUFFICES ASSUME NEW i \in DOMAIN t, NEW j \in DOMAIN t, t[i] = t[j] PROVE i = j
    BY DEF Once
  <2>1. i + 1 = j + 1
    BY <1>1, <1>3, <1>5 DEF Once
  <2> QED BY <1>3, <2>1
<1>6. ASSUME Once(q), NEW m PROVE Holds(t, m) <=> Holds(q, m) /\ m # Head(q)
  <2>1. Holds(t, m) => Holds(q, m) /\ m # Head(q)
    BY <1>1, <1>3, <1>6 DEF Holds, Once
  <2>2. Holds(q, m) /\ m # Head(q) => Holds(t, m)
    BY <1>1, <1>2 DEF Holds
  <2> QED BY <2>1, <2>2
<1> QED BY <1>1, <1>4, <1>5, <1>6 DEF t

LEMMA SlotsAreNumbers == \A s \in Servers : Slots(s) \subseteq Nat
  BY ServerAssumption DEF Slots, Size, Servers

(* Accept finds a free slot, the round its next client. *)
LEMMA FreeSlot ==
  ASSUME NEW s \in Servers, Free(s) # {}
  PROVE  Min(Free(s)) \in Slots(s) /\ arrClient_fd[s][Min(Free(s))] = 0
<1>1. Free(s) \subseteq Nat
  BY SlotsAreNumbers DEF Free
<1>2. Min(Free(s)) \in Free(s)
  BY <1>1, FirstSlot
<1> QED BY <1>2 DEF Free

LEMMA NextInRound ==
  ASSUME IInv, NEW s \in Servers, pc[s] = "scan"
  PROVE  /\ NextSlot(s) \in Slots(s) /\ NextConn(s) = arrClient_fd[s][NextSlot(s)]
         /\ NextConn(s) \in readfset[s] /\ NextConn(s) \in Conns
         /\ conn[NextConn(s)].to = s /\ conn[NextConn(s)].sv = "accepted"
<1> DEFINE T == {i \in Slots(s) : arrClient_fd[s][i] \in readfset[s]}
<1>1. PICK n \in readfset[s] : n \in Table(s)
  BY DEF IInv, ReadNeverBlocks
<1>2. T # {} /\ T \subseteq Nat
  BY <1>1, SlotsAreNumbers DEF Table
<1>3. NextSlot(s) \in T
  BY <1>2, FirstSlot DEF NextSlot
<1>4. NextConn(s) \in readfset[s]
  BY <1>3 DEF NextConn
<1>5. NextConn(s) \in Table(s)
  BY <1>4 DEF IInv, ReadNeverBlocks
<1> QED BY <1>3, <1>4, <1>5 DEF NextConn, IInv, SlotsHonest

------------------------------------------------------------------------------
LEMMA InitInv == Init => IInv
<1> SUFFICES ASSUME Init PROVE IInv
  OBVIOUS
<1>1. TypeOK
<2>1. \A s \in Servers : [i \in Slots(s) |-> 0] \in [Slots(s) -> {0} \cup Conns]
  OBVIOUS
<2>2. conn \in [Conns -> [by : Actors \cup {"nobody"}, to : Servers,
                         cl : {"none", "open", "sent", "kept", "closed"},
                         sv : {"none", "queued", "accepted", "closed"},
                         msg : Kinds \cup {"none"}, reply : BOOLEAN]]
  BY DEF Init, Unused, Servers
<2>3. backlog \in [Servers -> Seq(Conns)]
  BY DEF Init
<2> QED BY <2>1, <2>2, <2>3 DEF Init, TypeOK
<1>2. \A s \in Servers : Table(s) = {}
  BY DEF Init, Table
<1>3. SlotsHonest
  BY <1>2 DEF Init, SlotsHonest, Unused
<1>4. QueueHonest
  BY DEF Init, QueueHonest, Unused, Holds, Once
<1> QED BY <1>1, <1>3, <1>4 DEF IInv, Init, SomebodyWaits, ReadNeverBlocks

(* A new connection is in nobody's table and in nobody's queue. *)
LEMMA ConnectInv ==
  ASSUME IInv, NEW p \in Actors, Connect(p)
  PROVE  IInv'
<1> DEFINE s == Peer(p)
<1>1. PICK n \in Conns :
        /\ conn[n] = Unused
        /\ conn' = [conn EXCEPT ![n] = [Unused EXCEPT !.by = p, !.to = s,
                                                      !.cl = "open", !.sv = "queued"]]
        /\ cur' = [cur EXCEPT ![p] = n]
        /\ backlog' = [backlog EXCEPT ![s] = Append(@, n)]
  BY DEF Connect
<1>2. s \in Servers /\ UNCHANGED <<arrClient_fd, pc, readfset, refused>>
  BY DEF Connect, Peer, Servers
<1>3. /\ Append(backlog[s], n) \in Seq(Conns) /\ Append(backlog[s], n) # <<>>
      /\ \A m : Holds(Append(backlog[s], n), m) <=> Holds(backlog[s], m) \/ m = n
      /\ Once(Append(backlog[s], n))
<2>1. backlog[s] \in Seq(Conns) /\ ~Holds(backlog[s], n) /\ Once(backlog[s])
  BY <1>1, <1>2 DEF IInv, TypeOK, QueueHonest, Unused
<2> QED BY <2>1, QueueAppend
<1>4. TypeOK'
  BY <1>1, <1>2, <1>3 DEF IInv, TypeOK, Unused
<1>5. SlotsHonest' /\ ReadNeverBlocks'
  BY <1>1, <1>2 DEF IInv, TypeOK, SlotsHonest, ReadNeverBlocks, Table, Readable, Unused
<1>6. QueueHonest'
  BY <1>1, <1>2, <1>3 DEF IInv, TypeOK, QueueHonest, Unused
<1>7. SomebodyWaits'
  BY <1>1, <1>2, <1>3 DEF IInv, TypeOK, SomebodyWaits
<1> QED BY <1>4, <1>5, <1>6, <1>7 DEF IInv

(* The client's end takes nothing away that there was to read, and leaves  *)
(* the server's end alone.                                                 *)
LEMMA ClientEndInv ==
  ASSUME IInv, TypeOK', UNCHANGED <<backlog, arrClient_fd, readfset>>,
         \A n \in Conns : /\ conn'[n].to = conn[n].to /\ conn'[n].sv = conn[n].sv
                          /\ Readable(n) => Readable(n)',
         \/ UNCHANGED pc
         \/ pc' = [pc EXCEPT !["av"] = Resume("av")]
  PROVE  IInv'
<1>1. SlotsHonest'
  BY DEF IInv, TypeOK, SlotsHonest, Table
<1>2. QueueHonest'
  BY DEF IInv, QueueHonest
<1>3. SomebodyWaits'
  BY DEF IInv, TypeOK, SomebodyWaits, Resume
<1>4. \A s \in Servers : \A n \in readfset'[s] : n \in Table(s)' /\ Readable(n)'
  BY DEF IInv, TypeOK, ReadNeverBlocks, Table
<1>5. \A s \in Servers : pc'[s] = "scan" => readfset'[s] # {}
  BY DEF IInv, TypeOK, ReadNeverBlocks, Resume
<1> QED BY <1>1, <1>2, <1>3, <1>4, <1>5 DEF IInv, ReadNeverBlocks

LEMMA ResumeType == \A s \in Servers : Resume(s) \in {"select", "accept", "scan", "forward"}
  BY DEF Resume

LEMMA ClientInv ==
  ASSUME IInv, NEW p \in Actors, ClientStep(p)
  PROVE  IInv'
<1>1. CASE CannotConnect(p)
<2>1. /\ UNCHANGED <<conn, backlog, arrClient_fd, readfset, cur, refused>>
      /\ pc' = [pc EXCEPT !["av"] = Resume("av")]
  BY <1>1 DEF CannotConnect, ForwardDone
<2>2. TypeOK'
  BY <2>1, ResumeType DEF IInv, TypeOK, Servers
<2>3. \A m \in Conns : /\ conn'[m].to = conn[m].to /\ conn'[m].sv = conn[m].sv
                       /\ Readable(m) => Readable(m)'
  BY <2>1 DEF Readable
<2> QED BY <2>1, <2>2, <2>3, ClientEndInv
<1>2. CASE SendLocal(p)
<2> DEFINE n == cur[p]
<2>1. /\ n \in Conns /\ conn[n].cl = "open"
      /\ conn' = [conn EXCEPT ![n].msg = IF conn[n].sv = "closed" THEN @ ELSE What(p),
                              ![n].cl = "sent"]
      /\ UNCHANGED <<backlog, arrClient_fd, pc, readfset, cur, refused>>
  BY <1>2 DEF SendLocal, IInv, TypeOK
<2>2. What(p) \in Kinds
  BY ServerAssumption DEF What, Actors, Kinds
<2>3. TypeOK'
<3> DEFINE x == IF conn[n].sv = "closed" THEN conn[n].msg ELSE What(p)
<3>1. conn[n] \in Connection /\ conn \in [Conns -> Connection]
  BY <2>1 DEF IInv, TypeOK, Connection
<3>2. x \in Kinds \cup {"none"}
  BY <2>2, <3>1 DEF Connection
<3>3. [conn[n] EXCEPT !.msg = x, !.cl = "sent"] \in Connection
  <4> HIDE DEF x, n
  <4> QED BY <3>1, <3>2 DEF Connection
<3>4. conn' = [conn EXCEPT ![n] = [conn[n] EXCEPT !.msg = x, !.cl = "sent"]]
  BY <2>1, <3>1
<3>5. conn' \in [Conns -> Connection]
  BY <3>1, <3>3, <3>4
<3> QED BY <2>1, <3>5 DEF IInv, TypeOK, Connection
<2>4. \A m \in Conns : /\ conn'[m].to = conn[m].to /\ conn'[m].sv = conn[m].sv
                       /\ Readable(m) => Readable(m)'
  BY <2>1, <2>2 DEF IInv, TypeOK, Readable, Kinds
<2>5. UNCHANGED <<backlog, arrClient_fd, readfset>> /\ UNCHANGED pc
  BY <2>1
<2> QED BY <2>3, <2>4, <2>5, ClientEndInv
<1>3. CASE Finish(p)
<2> DEFINE n == cur[p]
<2>1. /\ n \in Conns /\ conn[n].cl = "sent"
      /\ conn' = [conn EXCEPT ![n].cl = IF What(p) = "keep" THEN "kept" ELSE "closed"]
      /\ cur' = [cur EXCEPT ![p] = 0]
      /\ UNCHANGED <<backlog, arrClient_fd, readfset, refused>>
  BY <1>3 DEF Finish, IInv, TypeOK
<2>2. UNCHANGED pc \/ pc' = [pc EXCEPT !["av"] = Resume("av")]
  BY <1>3 DEF Finish, ForwardDone
<2>3. TypeOK'
  BY <2>1, <2>2, ResumeType DEF IInv, TypeOK, Servers
<2>4. \A m \in Conns : /\ conn'[m].to = conn[m].to /\ conn'[m].sv = conn[m].sv
                       /\ Readable(m) => Readable(m)'
  BY <2>1 DEF IInv, TypeOK, Readable
<2> QED BY <2>1, <2>2, <2>3, <2>4, ClientEndInv
<1> QED BY <1>1, <1>2, <1>3 DEF ClientStep

------------------------------------------------------------------------------
(* select reports what is in the table and readable, and one of the two    *)
(* kinds of work is there.                                                 *)
LEMMA SelectInv ==
  ASSUME IInv, NEW s \in Servers, Select(s)
  PROVE  IInv'
<1> USE DEF Select, IInv
<1>1. Table(s) \subseteq Conns
  BY DEF TypeOK, Table
<1>2. TypeOK'
  BY <1>1 DEF TypeOK
<1>3. SlotsHonest' /\ QueueHonest'
  BY DEF SlotsHonest, QueueHonest, Table
<1>4. SomebodyWaits'
  BY DEF SomebodyWaits, TypeOK
<1>5. ReadNeverBlocks'
  BY <1>1 DEF ReadNeverBlocks, TypeOK, Table, Readable
<1> QED BY <1>2, <1>3, <1>4, <1>5

LEMMA AcceptFailsInv ==
  ASSUME IInv, NEW s \in Servers, AcceptFails(s)
  PROVE  IInv'
<1> USE DEF AcceptFails, IInv
<1>1. TypeOK'
  BY DEF TypeOK
<1>2. SlotsHonest' /\ QueueHonest'
  BY DEF SlotsHonest, QueueHonest, Table
<1>3. SomebodyWaits'
  BY DEF SomebodyWaits, TypeOK
<1>4. ReadNeverBlocks'
  BY DEF ReadNeverBlocks, TypeOK, Table, Readable
<1> QED BY <1>1, <1>2, <1>3, <1>4

(* The server's end of a connection is accepted or closed. *)
LEMMA ServerEndType ==
  ASSUME IInv, NEW n \in Conns, NEW e \in {"accepted", "closed"},
         conn' = [conn EXCEPT ![n].sv = e]
  PROVE  conn' \in [Conns -> Connection]
<1>1. conn \in [Conns -> Connection] /\ conn[n] \in Connection
  BY DEF IInv, TypeOK, Connection
<1>2. [conn[n] EXCEPT !.sv = e] \in Connection
  BY <1>1 DEF Connection
<1> QED BY <1>1, <1>2

(* The first that waits goes from the queue to a free slot, or is closed.  *)
LEMMA AcceptInv ==
  ASSUME IInv, NEW s \in Servers, Accept(s)
  PROVE  IInv'
<1> DEFINE n == Head(backlog[s])
<1>1. /\ pc[s] = "accept"
      /\ backlog' = [backlog EXCEPT ![s] = Tail(@)]
      /\ UNCHANGED <<readfset, cur>>
  BY DEF Accept
<1>2. /\ n \in Conns /\ conn[n].to = s /\ conn[n].sv = "queued"
      /\ Tail(backlog[s]) \in Seq(Conns) /\ Once(Tail(backlog[s]))
      /\ \A m : Holds(Tail(backlog[s]), m) <=> Holds(backlog[s], m) /\ m # n
<2>1. backlog[s] \in Seq(Conns) /\ backlog[s] # <<>> /\ Once(backlog[s])
  BY <1>1 DEF IInv, TypeOK, SomebodyWaits, QueueHonest
<2>2. n \in Conns /\ Holds(backlog[s], n)
  BY <2>1, QueueTail
<2>3. conn[n].to = s /\ conn[n].sv = "queued"
  BY <2>2 DEF IInv, QueueHonest
<2> QED BY <2>1, <2>2, <2>3, QueueTail
<1>3. /\ \A u \in Servers : n \notin Table(u)
      /\ \A u \in Servers : n \notin readfset[u]
  BY <1>2 DEF IInv, SlotsHonest, ReadNeverBlocks
<1>4. \/ /\ Free(s) # {}
         /\ arrClient_fd' = [arrClient_fd EXCEPT ![s][Min(Free(s))] = n]
         /\ conn' = [conn EXCEPT ![n].sv = "accepted"]
         /\ pc' = [pc EXCEPT ![s] = IF readfset[s] = {} THEN "select" ELSE "scan"]
         /\ UNCHANGED refused
      \/ /\ conn' = [conn EXCEPT ![n].sv = "closed"]
         /\ pc' = [pc EXCEPT ![s] = "select"]
         /\ refused' = TRUE
         /\ UNCHANGED arrClient_fd
  BY DEF Accept
<1> HIDE DEF n
<1>5. QueueHonest' /\ SomebodyWaits'
<2>1. QueueHonest'
<3>1. \A m \in Conns : /\ conn'[m].to = conn[m].to
                       /\ m # n => conn'[m].sv = conn[m].sv
                       /\ conn'[n].sv # "queued"
  BY <1>2, <1>4 DEF IInv, TypeOK
<3>2. backlog'[s] = Tail(backlog[s]) /\ \A u \in Servers \ {s} : backlog'[u] = backlog[u]
  BY <1>1 DEF IInv, TypeOK
<3>3. \A u \in Servers : Once(backlog'[u])
  BY <1>2, <3>2 DEF IInv, QueueHonest
<3>4. ASSUME NEW u \in Servers, NEW m \in Conns
      PROVE  Holds(backlog'[u], m) <=> conn'[m].to = u /\ conn'[m].sv = "queued"
  BY <1>2, <3>1, <3>2 DEF IInv, QueueHonest
<3> QED BY <3>3, <3>4 DEF QueueHonest
<2>2. SomebodyWaits'
  BY <1>1, <1>4 DEF IInv, TypeOK, SomebodyWaits
<2> QED BY <2>1, <2>2
<1>6. CASE /\ Free(s) # {}
           /\ arrClient_fd' = [arrClient_fd EXCEPT ![s][Min(Free(s))] = n]
           /\ conn' = [conn EXCEPT ![n].sv = "accepted"]
           /\ pc' = [pc EXCEPT ![s] = IF readfset[s] = {} THEN "select" ELSE "scan"]
           /\ UNCHANGED refused
<2> DEFINE k == Min(Free(s))
<2>1. k \in Slots(s) /\ arrClient_fd[s][k] = 0
  BY <1>6, FreeSlot
<2> HIDE DEF k
<2>2. /\ arrClient_fd' = [arrClient_fd EXCEPT ![s] = [@ EXCEPT ![k] = n]]
      /\ arrClient_fd'[s] \in [Slots(s) -> {0} \cup Conns]
      /\ \A i \in Slots(s) : arrClient_fd'[s][i] = IF i = k THEN n ELSE arrClient_fd[s][i]
      /\ \A u \in Servers \ {s} : arrClient_fd'[u] = arrClient_fd[u]
  BY <1>2, <1>6, <2>1 DEF IInv, TypeOK, k
<2>3. TypeOK'
<3>1. conn' \in [Conns -> Connection]
  BY <1>2, <1>6, ServerEndType
<3> QED BY <1>1, <1>2, <1>6, <2>2, <3>1 DEF IInv, TypeOK, Connection
<2>4. /\ Table(s)' = Table(s) \cup {n}
      /\ \A u \in Servers \ {s} : Table(u)' = Table(u)
  BY <1>2, <2>1, <2>2, ServerAssumption DEF Table, Conns
<2>5. SlotsHonest'
<3>1. ASSUME NEW u \in Servers
      PROVE  Table(u)' = {m \in Conns : conn'[m].to = u /\ conn'[m].sv = "accepted"}
  BY <1>2, <1>6, <2>4 DEF IInv, TypeOK, SlotsHonest
<3>2. ASSUME NEW u \in Servers, NEW i \in Slots(u), NEW j \in Slots(u),
             arrClient_fd'[u][i] = arrClient_fd'[u][j], arrClient_fd'[u][i] # 0
      PROVE  i = j
<4>1. \A m \in Slots(u) : arrClient_fd[u][m] # n
  BY <1>2, <1>3, ServerAssumption DEF Table, Conns
<4>2. i # k /\ j # k => i = j
  BY <2>2, <3>2 DEF IInv, SlotsHonest
<4> QED BY <2>1, <2>2, <3>2, <4>1, <4>2 DEF IInv, SlotsHonest
<3> QED BY <3>1, <3>2 DEF SlotsHonest
<2>6. ReadNeverBlocks'
  BY <1>1, <1>2, <1>3, <1>6, <2>4 DEF IInv, TypeOK, ReadNeverBlocks, Readable
<2> QED BY <1>5, <2>3, <2>5, <2>6 DEF IInv
<1>7. CASE /\ conn' = [conn EXCEPT ![n].sv = "closed"]
           /\ pc' = [pc EXCEPT ![s] = "select"]
           /\ refused' = TRUE
           /\ UNCHANGED arrClient_fd
<2>1. TypeOK'
<3>1. conn' \in [Conns -> Connection]
  BY <1>2, <1>7, ServerEndType
<3> QED BY <1>1, <1>2, <1>7, <3>1 DEF IInv, TypeOK, Connection
<2>2. SlotsHonest'
  BY <1>2, <1>7 DEF IInv, TypeOK, SlotsHonest, Table
<2>3. ReadNeverBlocks'
  BY <1>1, <1>2, <1>3, <1>7 DEF IInv, TypeOK, ReadNeverBlocks, Readable, Table
<2> QED BY <1>5, <2>1, <2>2, <2>3 DEF IInv
<1> QED BY <1>4, <1>6, <1>7

(* Where a server goes after a client: back to scan only for another one.  *)
LEMMA RoundGoesOn ==
  ASSUME IInv, NEW s \in Servers, NEW n \in Conns, NEW w,
         readfset' = [readfset EXCEPT ![s] = @ \ {n}],
         pc' = [pc EXCEPT ![s] = w], w \in {Resume(s), "forward"}
  PROVE  /\ pc' \in [Servers -> {"select", "accept", "scan", "forward"}]
         /\ readfset' \in [Servers -> SUBSET Conns]
         /\ \A u \in Servers : pc'[u] = "scan" => readfset'[u] # {}
         /\ \A u \in Servers : pc'[u] = "accept" => pc[u] = "accept"
         /\ \A u \in Servers : readfset'[u] = IF u = s THEN readfset[s] \ {n} ELSE readfset[u]
  BY DEF IInv, TypeOK, ReadNeverBlocks, Resume

(* The message that is read was this server's, and only it has the client  *)
(* among those it still is to read.                                        *)
LEMMA ServeInv ==
  ASSUME IInv, NEW s \in Servers, Serve(s)
  PROVE  IInv'
<1> DEFINE n == NextConn(s)
           w == IF conn[n].msg = "rec" THEN "forward" ELSE Resume(s)
           answer == conn[n].msg \in {"ask", "keep"}
           r == [conn[n] EXCEPT !.msg = "none", !.reply = answer]
<1>1. /\ conn' = [conn EXCEPT ![n] = r]
      /\ readfset' = [readfset EXCEPT ![s] = @ \ {n}]
      /\ pc' = [pc EXCEPT ![s] = w] /\ w \in {Resume(s), "forward"}
      /\ UNCHANGED <<backlog, arrClient_fd, cur, refused>>
  BY DEF Serve
<1>2. n \in Conns /\ conn[n].to = s /\ conn[n].sv = "accepted"
  BY NextInRound DEF Serve
<1>3. conn \in [Conns -> Connection] /\ conn[n] \in Connection
  BY <1>2 DEF IInv, TypeOK, Connection
<1>0. answer \in BOOLEAN
  OBVIOUS
<1> HIDE DEF n, w, answer
<1>4. r \in Connection /\ r.to = conn[n].to /\ r.sv = conn[n].sv
  BY <1>0, <1>3 DEF Connection
<1>5. \A m \in Conns : /\ conn'[m].to = conn[m].to /\ conn'[m].sv = conn[m].sv
                       /\ m # n => conn'[m] = conn[m]
<2> HIDE DEF r
<2> QED BY <1>1, <1>3, <1>4
<1>6. /\ pc' \in [Servers -> {"select", "accept", "scan", "forward"}]
      /\ readfset' \in [Servers -> SUBSET Conns]
      /\ \A u \in Servers : pc'[u] = "scan" => readfset'[u] # {}
      /\ \A u \in Servers : pc'[u] = "accept" => pc[u] = "accept"
      /\ \A u \in Servers : readfset'[u] = IF u = s THEN readfset[s] \ {n} ELSE readfset[u]
<2> HIDE DEF r
<2> QED BY <1>1, <1>2, RoundGoesOn
<1>7. TypeOK'
<2>1. conn' \in [Conns -> Connection]
  <3> HIDE DEF r
  <3> QED BY <1>1, <1>3, <1>4
<2> QED BY <1>1, <1>6, <2>1 DEF IInv, TypeOK, Connection
<1>8. SlotsHonest' /\ QueueHonest' /\ SomebodyWaits'
  BY <1>1, <1>5, <1>6 DEF IInv, SlotsHonest, QueueHonest, SomebodyWaits, Table
<1>9. ReadNeverBlocks'
<2>1. ASSUME NEW u \in Servers, NEW m \in readfset'[u]
      PROVE  m # n /\ m \in readfset[u] /\ m \in Conns
  BY <1>2, <1>6 DEF IInv, TypeOK, SlotsHonest, ReadNeverBlocks
<2>2. ASSUME NEW u \in Servers, NEW m \in readfset'[u]
      PROVE  m \in Table(u)' /\ Readable(m)'
  BY <1>1, <1>5, <2>1 DEF IInv, ReadNeverBlocks, Table, Readable
<2> QED BY <1>6, <2>2 DEF ReadNeverBlocks
<1> QED BY <1>7, <1>8, <1>9 DEF IInv

(* The slot is emptied with the close. *)
LEMMA HangUpInv ==
  ASSUME IInv, NEW s \in Servers, HangUp(s)
  PROVE  IInv'
<1> DEFINE n == NextConn(s)
           k == NextSlot(s)
<1>1. /\ pc[s] = "scan"
      /\ conn' = [conn EXCEPT ![n].sv = "closed"]
      /\ arrClient_fd' = [arrClient_fd EXCEPT ![s][k] = 0]
      /\ readfset' = [readfset EXCEPT ![s] = @ \ {n}]
      /\ pc' = [pc EXCEPT ![s] = Resume(s)]
      /\ UNCHANGED <<backlog, cur, refused>>
  BY DEF HangUp
<1>2. /\ n \in Conns /\ conn[n].to = s /\ conn[n].sv = "accepted"
      /\ k \in Slots(s) /\ arrClient_fd[s][k] = n
  BY <1>1, NextInRound
<1> HIDE DEF n, k
<1>3. \A m \in Conns : /\ conn'[m].to = conn[m].to /\ conn'[n].sv = "closed"
                       /\ m # n => conn'[m] = conn[m]
  BY <1>1, <1>2 DEF IInv, TypeOK
<1>4. /\ pc' \in [Servers -> {"select", "accept", "scan", "forward"}]
      /\ readfset' \in [Servers -> SUBSET Conns]
      /\ \A u \in Servers : pc'[u] = "scan" => readfset'[u] # {}
      /\ \A u \in Servers : pc'[u] = "accept" => pc[u] = "accept"
      /\ \A u \in Servers : readfset'[u] = IF u = s THEN readfset[s] \ {n} ELSE readfset[u]
  BY <1>1, <1>2, RoundGoesOn
<1>5. /\ arrClient_fd'[s] \in [Slots(s) -> {0} \cup Conns]
      /\ \A i \in Slots(s) : arrClient_fd'[s][i] = IF i = k THEN 0 ELSE arrClient_fd[s][i]
      /\ \A u \in Servers \ {s} : arrClient_fd'[u] = arrClient_fd[u]
      /\ DOMAIN arrClient_fd' = Servers
  BY <1>1, <1>2 DEF IInv, TypeOK
<1>6. TypeOK'
<2>1. conn' \in [Conns -> Connection]
  BY <1>1, <1>2, ServerEndType
<2> QED BY <1>1, <1>4, <1>5, <2>1 DEF IInv, TypeOK, Connection
<1>7. \A i \in Slots(s) : i # k => arrClient_fd[s][i] # n
  BY <1>2 DEF IInv, SlotsHonest, Conns
<1>8. /\ Table(s)' = Table(s) \ {n}
      /\ \A u \in Servers \ {s} : Table(u)' = Table(u)
  BY <1>2, <1>5, <1>7 DEF Table, Conns
<1>9. SlotsHonest'
<2>1. \A u \in Servers : Table(u)' = {m \in Conns : conn'[m].to = u /\ conn'[m].sv = "accepted"}
  BY <1>2, <1>3, <1>8 DEF IInv, SlotsHonest
<2>2. \A u \in Servers : \A i, j \in Slots(u) :
        arrClient_fd'[u][i] = arrClient_fd'[u][j] /\ arrClient_fd'[u][i] # 0 => i = j
  BY <1>5 DEF IInv, SlotsHonest
<2> QED BY <2>1, <2>2 DEF SlotsHonest
<1>10. QueueHonest' /\ SomebodyWaits'
  BY <1>1, <1>2, <1>3, <1>4 DEF IInv, QueueHonest, SomebodyWaits
<1>11. ReadNeverBlocks'
<2>1. ASSUME NEW u \in Servers, NEW m \in readfset'[u]
      PROVE  m # n /\ m \in readfset[u] /\ m \in Conns
<3>1. m \in readfset[u] /\ (u = s => m # n)
  BY <1>4
<3>2. m \in Conns /\ conn[m].to = u
  BY <3>1 DEF IInv, ReadNeverBlocks, SlotsHonest
<3> QED BY <1>2, <3>1, <3>2
<2>2. ASSUME NEW u \in Servers, NEW m \in readfset'[u]
      PROVE  m \in Table(u)' /\ Readable(m)'
  BY <1>3, <1>8, <2>1 DEF IInv, ReadNeverBlocks, Readable
<2> QED BY <1>4, <2>2 DEF ReadNeverBlocks
<1> QED BY <1>6, <1>9, <1>10, <1>11 DEF IInv
------------------------------------------------------------------------------
LEMMA NextInv == IInv /\ [Next]_vars => IInv'
<1> SUFFICES ASSUME IInv, [Next]_vars PROVE IInv'
  OBVIOUS
<1>1. ASSUME NEW p \in Actors, Connect(p) \/ ClientStep(p) PROVE IInv'
  BY <1>1, ConnectInv, ClientInv
<1>2. ASSUME NEW s \in Servers, ServerStep(s) PROVE IInv'
  BY <1>2, SelectInv, AcceptFailsInv, AcceptInv, ServeInv, HangUpInv DEF ServerStep
<1>3. CASE UNCHANGED vars
  BY <1>3 DEF vars, IInv, TypeOK, SlotsHonest, QueueHonest, SomebodyWaits,
              ReadNeverBlocks, Table, Readable
<1> QED BY <1>1, <1>2, <1>3 DEF Next

(* Whatever the order of connects, messages, closes and failures. *)
THEOREM Invariance == Spec => []IInv
  BY InitInv, NextInv, PTL DEF Spec

(* The connections a server has accepted and not closed are those of its   *)
(* table, each in one slot (the two loops of av_server and Avi_Ctrl).      *)
THEOREM TablesAreHonest == Spec => []TablesHonest
<1>1. IInv => TablesHonest
  BY DEF IInv, TablesHonest
<1> QED BY <1>1, Invariance, PTL

(* Every client that is still to be read in a round has something to read, *)
(* so the one thread of a server never waits in recv.                      *)
THEOREM ReadsNeverBlock == Spec => []ReadNeverBlocks
<1>1. IInv => ReadNeverBlocks
  BY DEF IInv
<1> QED BY <1>1, Invariance, PTL

------------------------------------------------------------------------------
(* The connections, seen from the clients                                  *)

(* What one connection has been through: a message is sent once and        *)
(* answered after it was read; a client that waits gives a connection up   *)
(* only when it was accepted and answered, or refused.                     *)
Shape(n) ==
  LET c == conn[n] IN
  /\ c = Unused \/ (c.by \in Actors /\ c.to = Peer(c.by) /\ c.cl # "none" /\ c.sv # "none")
  /\ c.cl = "open" => c.msg = "none" /\ ~c.reply
  /\ c.reply => c.msg = "none" /\ c.sv # "queued"
  /\ c.msg # "none" => c.msg = What(c.by)
  /\ c.cl \in {"open", "sent"} => cur[c.by] = n
  /\ Waiting(c.by) /\ c.sv = "queued" => c.cl \in {"open", "sent"}
  /\ Waiting(c.by) /\ c.cl = "closed" /\ c.sv # "closed" => c.msg = "none"

ConnInv ==
  /\ \A n \in Conns : Shape(n)
  /\ \A p \in Actors : cur[p] # 0 =>
       conn[cur[p]].by = p /\ conn[cur[p]].cl \in {"open", "sent"}

(* Of two connections of one client in the table of av_server, one is      *)
(* closed at the client's end and will be found so in this round; when a   *)
(* client is about to be accepted, its older connection is.                *)
AllWait   == \A p \in Talked : Waiting(p)
Sits(n)   == conn[n].to = "av" /\ conn[n].sv = "accepted" /\ conn[n].cl # "kept"
Leaves(n) == conn[n].cl = "closed" /\ n \in readfset["av"]

PairInv ==
  \A m, n \in Conns : Sits(m) /\ Sits(n) /\ m # n /\ conn[m].by = conn[n].by =>
    pc["av"] = "scan" /\ (Leaves(m) \/ Leaves(n))
HeadInv ==
  pc["av"] = "accept" =>
    \A n \in Conns : Sits(n) /\ conn[n].by = conn[Head(backlog["av"])].by => Leaves(n)
RoundInv == AllWait => pc["av"] # "forward" /\ PairInv /\ HeadInv

RInv == IInv /\ ConnInv /\ RoundInv /\ RefusedMeansKept

LEMMA InitR == Init => ConnInv /\ RoundInv /\ RefusedMeansKept
<1> SUFFICES ASSUME Init PROVE ConnInv /\ RoundInv /\ RefusedMeansKept
  OBVIOUS
<1>1. /\ \A n \in Conns : conn[n] = Unused
      /\ \A p \in Actors : cur[p] = 0
      /\ pc["av"] = "select" /\ refused = FALSE
  BY DEF Init, Servers
<1>2. ConnInv
  BY <1>1 DEF ConnInv, Shape, Unused
<1>3. RoundInv
  BY <1>1 DEF RoundInv, PairInv, HeadInv, Sits, Unused
<1> QED BY <1>1, <1>2, <1>3 DEF RefusedMeansKept

------------------------------------------------------------------------------
(* Finite sets: the connections, the clients, what is left open. *)
LEMMA FiniteImage ==
  ASSUME NEW S, IsFiniteSet(S), NEW f
  PROVE  IsFiniteSet({f[n] : n \in S})
<1> DEFINE T == {f[n] : n \in S}
           g == [n \in S |-> f[n]]
<1>1. g \in Surjection(S, T)
  BY DEF Surjection
<1> HIDE DEF g, T
<1>2. IsFiniteSet(T)
  BY <1>1, FS_Surjection
<1> QED BY <1>2 DEF T

LEMMA Finite ==
  /\ IsFiniteSet(Conns) /\ \A T \in SUBSET Conns : IsFiniteSet(T)
  /\ IsFiniteSet(Talked) /\ IsFiniteSet(Talked')
<1>1. IsFiniteSet(Conns)
  BY ServerAssumption, FS_Interval DEF Conns
<1>2. \A T \in SUBSET Conns : IsFiniteSet(T)
  BY <1>1, FS_Subset
<1>3. IsFiniteSet({conn[n].by : n \in Conns})
<2> DEFINE f == [n \in Conns |-> conn[n].by]
<2>1. IsFiniteSet({f[n] : n \in Conns})
  <3> HIDE DEF f
  <3> QED BY <1>1, FiniteImage
<2>2. {f[n] : n \in Conns} = {conn[n].by : n \in Conns}
  OBVIOUS
<2> QED BY <2>1, <2>2
<1>4. IsFiniteSet({conn'[n].by : n \in Conns})
<2> DEFINE f == [n \in Conns |-> conn'[n].by]
<2>1. IsFiniteSet({f[n] : n \in Conns})
  <3> HIDE DEF f
  <3> QED BY <1>1, FiniteImage
<2>2. {f[n] : n \in Conns} = {conn'[n].by : n \in Conns}
  OBVIOUS
<2> QED BY <2>1, <2>2
<1>5. Talked \subseteq {conn[n].by : n \in Conns} /\ Talked' \subseteq {conn'[n].by : n \in Conns}
  BY DEF Talked
<1>6. IsFiniteSet(Talked) /\ IsFiniteSet(Talked')
  BY <1>3, <1>4, <1>5, FS_Subset
<1> QED BY <1>1, <1>2, <1>6

(* Who has talked to a server never changes back, and no connection that   *)
(* was left open is closed.                                                *)
LEMMA TalkedGrows ==
  ASSUME \A n \in Conns : conn'[n].by = conn[n].by \/ conn[n].by = "nobody"
  PROVE  Talked \subseteq Talked' /\ (AllWait' => AllWait)
<1>1. Talked \subseteq Talked'
  BY DEF Talked
<1> QED BY <1>1 DEF AllWait, Waiting

LEMMA KeptGrows ==
  ASSUME RefusedMeansKept, UNCHANGED refused,
         \A n \in Conns : /\ conn'[n].by = conn[n].by \/ conn[n].by = "nobody"
                          /\ conn[n].cl = "kept" => conn'[n].cl = "kept"
  PROVE  RefusedMeansKept'
<1> DEFINE K == {n \in Conns : conn[n].cl = "kept"}
           L == {n \in Conns : conn'[n].cl = "kept"}
<1> SUFFICES ASSUME refused', AllWait'
             PROVE  Cardinality(L) + Cardinality(Talked') >= Cardinality(Slots("av"))
  BY DEF RefusedMeansKept, AllWait, Waiting
<1>1. Talked \subseteq Talked' /\ AllWait
  BY TalkedGrows
<1>2. K \subseteq L /\ K \in SUBSET Conns /\ L \in SUBSET Conns
  OBVIOUS
<1>3. Cardinality(K) + Cardinality(Talked) >= Cardinality(Slots("av"))
  BY <1>1 DEF RefusedMeansKept, AllWait
<1> HIDE DEF K, L
<1>4. /\ IsFiniteSet(K) /\ IsFiniteSet(L) /\ IsFiniteSet(Talked) /\ IsFiniteSet(Talked')
  BY <1>2, Finite
<1>5. Cardinality(K) <= Cardinality(L) /\ Cardinality(Talked) <= Cardinality(Talked')
  BY <1>1, <1>2, <1>4, FS_Subset
<1>6. IsFiniteSet(Slots("av"))
  BY ServerAssumption, FS_Interval DEF Slots, Size
<1>7. /\ Cardinality(K) \in Nat /\ Cardinality(L) \in Nat /\ Cardinality(Talked) \in Nat
      /\ Cardinality(Talked') \in Nat /\ Cardinality(Slots("av")) \in Nat
  BY <1>4, <1>6, FS_CardinalityType
<1> QED BY <1>3, <1>5, <1>7

(* A table without a free slot: what is kept, and one for each client. *)
LEMMA FullMeansKept ==
  ASSUME IInv, ConnInv, PairInv, pc["av"] = "accept", Free("av") = {}
  PROVE  Cardinality({n \in Conns : conn[n].cl = "kept"}) + Cardinality(Talked)
           >= Cardinality(Slots("av"))
<1> DEFINE K == {n \in Conns : conn[n].cl = "kept"}
           N == {n \in Conns : Sits(n)}
           f == [i \in Slots("av") |-> arrClient_fd["av"][i]]
           g == [n \in N |-> conn[n].by]
<1>1. K \in SUBSET Conns /\ N \in SUBSET Conns
  OBVIOUS
<1>2. f \in Injection(Slots("av"), K \cup N)
<2>1. "av" \in Servers
  BY DEF Servers
<2>2. \A i \in Slots("av") : arrClient_fd["av"][i] \in Table("av") /\ arrClient_fd["av"][i] # 0
  BY <2>1 DEF Free, Table, IInv, TypeOK
<2>3. Table("av") \subseteq K \cup N
  BY <2>1 DEF IInv, SlotsHonest, Sits
<2>4. \A i, j \in Slots("av") : f[i] = f[j] => i = j
  BY <2>1, <2>2 DEF IInv, SlotsHonest
<2>5. f \in [Slots("av") -> K \cup N]
  <3> HIDE DEF K, N
  <3> QED BY <2>2, <2>3
<2> HIDE DEF f, K, N
<2> QED BY <2>4, <2>5 DEF Injection, IsInjective
<1>3. g \in Injection(N, Talked)
<2>1. \A n \in N : conn[n].by \in Talked
  <3> SUFFICES ASSUME NEW n \in N PROVE conn[n].by \in Talked
    OBVIOUS
  <3>1. conn[n] # Unused
    BY DEF Sits, Unused
  <3>2. conn[n].by \in Actors
    BY <3>1 DEF ConnInv, Shape
  <3> QED BY <3>2, ServerAssumption DEF Talked, Actors
<2>2. \A m, n \in N : conn[m].by = conn[n].by => m = n
  BY DEF PairInv
<2>3. g \in [N -> Talked] /\ \A m, n \in N : g[m] = g[n] => m = n
  <3> HIDE DEF N
  <3> QED BY <2>1, <2>2
<2> HIDE DEF g, N
<2> QED BY <2>3 DEF Injection, IsInjective
<1>4. IsFiniteSet(K) /\ IsFiniteSet(N) /\ IsFiniteSet(Talked)
  <2> HIDE DEF K, N
  <2> QED BY <1>1, Finite
<1> HIDE DEF K, N, f, g
<1>5. Cardinality(N) <= Cardinality(Talked)
  BY <1>3, <1>4, FS_Injection
<1>6. /\ IsFiniteSet(K \cup N)
      /\ Cardinality(K \cup N) = Cardinality(K) + Cardinality(N) - Cardinality(K \cap N)
  BY <1>4, FS_Union
<1>7. IsFiniteSet(Slots("av")) /\ Cardinality(Slots("av")) <= Cardinality(K \cup N)
  BY <1>2, <1>6, FS_Injection
<1>8. IsFiniteSet(K \cap N)
  BY <1>4, FS_Subset
<1>9. /\ Cardinality(K) \in Nat /\ Cardinality(N) \in Nat /\ Cardinality(K \cap N) \in Nat
      /\ Cardinality(Talked) \in Nat /\ Cardinality(Slots("av")) \in Nat
  BY <1>4, <1>7, <1>8, FS_CardinalityType
<1>10. Cardinality(K) + Cardinality(Talked) >= Cardinality(Slots("av"))
  BY <1>5, <1>6, <1>7, <1>9
<1> QED BY <1>10 DEF K

------------------------------------------------------------------------------
(* A step that leaves av_server where it is, puts nobody in its table and  *)
(* opens nothing that was closed.                                          *)
LEMMA OtherRound ==
  ASSUME RoundInv, AllWait' => AllWait,
         pc'["av"] = pc["av"], readfset'["av"] = readfset["av"],
         pc["av"] = "accept" => /\ Head(backlog'["av"]) = Head(backlog["av"])
                                /\ conn'[Head(backlog["av"])].by = conn[Head(backlog["av"])].by,
         \A n \in Conns : Sits(n)' => /\ Sits(n) /\ conn'[n].by = conn[n].by
                                      /\ conn[n].cl = "closed" => conn'[n].cl = "closed"
  PROVE  RoundInv'
<1> SUFFICES ASSUME AllWait' PROVE pc'["av"] # "forward" /\ PairInv' /\ HeadInv'
  BY DEF RoundInv
<1>1. pc["av"] # "forward" /\ PairInv /\ HeadInv
  BY DEF RoundInv
<1>2. \A n \in Conns : Sits(n)' /\ Leaves(n) => Leaves(n)'
  BY DEF Leaves
<1>3. PairInv'
  BY <1>1, <1>2 DEF PairInv
<1>4. HeadInv'
  BY <1>1, <1>2 DEF HeadInv
<1> QED BY <1>1, <1>3, <1>4

(* Who waits at av_server when it accepts. *)
LEMMA HeadWaits ==
  ASSUME IInv, NEW s \in Servers, backlog[s] # <<>>
  PROVE  LET h == Head(backlog[s])
         IN  h \in Conns /\ conn[h].to = s /\ conn[h].sv = "queued"
<1> DEFINE h == Head(backlog[s])
<1>1. backlog[s] \in Seq(Conns)
  BY DEF IInv, TypeOK
<1>2. h \in Conns /\ Holds(backlog[s], h)
  BY <1>1, QueueTail
<1> QED BY <1>2 DEF IInv, QueueHonest

LEMMA ConnectR ==
  ASSUME IInv, ConnInv, RoundInv, RefusedMeansKept, NEW p \in Actors, Connect(p)
  PROVE  ConnInv' /\ RoundInv' /\ RefusedMeansKept'
<1>1. PICK n \in Conns :
        /\ conn[n] = Unused
        /\ conn' = [conn EXCEPT ![n] = [Unused EXCEPT !.by = p, !.to = Peer(p),
                                                      !.cl = "open", !.sv = "queued"]]
        /\ cur' = [cur EXCEPT ![p] = n]
        /\ backlog' = [backlog EXCEPT ![Peer(p)] = Append(@, n)]
  BY DEF Connect
<1>2. cur[p] = 0 /\ UNCHANGED <<arrClient_fd, pc, readfset, refused>> /\ Peer(p) \in Servers
  BY DEF Connect, MayConnect, Peer, Servers
<1>3. /\ \A m \in Conns : m # n => conn'[m] = conn[m]
      /\ conn'[n].by = p /\ conn'[n].to = Peer(p) /\ conn'[n].cl = "open"
      /\ conn'[n].sv = "queued" /\ conn'[n].msg = "none" /\ conn'[n].reply = FALSE
      /\ conn[n].by = "nobody" /\ conn[n].sv = "none" /\ conn[n].cl = "none"
  BY <1>1 DEF IInv, TypeOK, Unused
<1>4. cur'[p] = n /\ \A q \in Actors : q # p => cur'[q] = cur[q]
  BY <1>1 DEF IInv, TypeOK
<1>5. ConnInv'
<2>1. Shape(n)'
  BY <1>3, <1>4 DEF Shape
<2>2. ASSUME NEW m \in Conns, m # n PROVE Shape(m)'
  <3>1. Shape(m) /\ conn'[m] = conn[m] /\ m # 0
    BY <1>3, <2>2, ServerAssumption DEF ConnInv, Conns
  <3>2. conn[m].cl \in {"open", "sent"} => cur'[conn[m].by] = m
    <4> SUFFICES ASSUME conn[m].cl \in {"open", "sent"} PROVE cur'[conn[m].by] = m
      OBVIOUS
    <4>1. conn[m].by \in Actors /\ cur[conn[m].by] = m
      BY <3>1 DEF Shape, Unused
    <4> QED BY <1>2, <1>4, <3>1, <4>1
  <3> QED BY <3>1, <3>2 DEF Shape
<2>3. \A q \in Actors : cur'[q] # 0 => conn'[cur'[q]].by = q /\ conn'[cur'[q]].cl \in {"open", "sent"}
  <3> SUFFICES ASSUME NEW q \in Actors, cur'[q] # 0
               PROVE  conn'[cur'[q]].by = q /\ conn'[cur'[q]].cl \in {"open", "sent"}
    OBVIOUS
  <3>1. CASE q = p
    BY <1>3, <1>4, <3>1
  <3>2. CASE q # p
    <4>1. cur'[q] = cur[q] /\ cur[q] \in Conns /\ conn[cur[q]].cl \in {"open", "sent"}
          /\ conn[cur[q]].by = q
      BY <1>4, <3>2 DEF ConnInv, IInv, TypeOK
    <4> QED BY <1>3, <4>1
  <3> QED BY <3>1, <3>2
<2> QED BY <2>1, <2>2, <2>3 DEF ConnInv
<1>6. AllWait' => AllWait
  BY <1>3, TalkedGrows
<1>7. RoundInv'
<2>1. pc["av"] = "accept" => /\ Head(backlog'["av"]) = Head(backlog["av"])
                             /\ conn'[Head(backlog["av"])].by = conn[Head(backlog["av"])].by
  <3> SUFFICES ASSUME pc["av"] = "accept"
               PROVE  /\ Head(backlog'["av"]) = Head(backlog["av"])
                      /\ conn'[Head(backlog["av"])].by = conn[Head(backlog["av"])].by
    OBVIOUS
  <3>1. "av" \in Servers /\ backlog["av"] # <<>> /\ backlog["av"] \in Seq(Conns)
    BY DEF IInv, TypeOK, SomebodyWaits, Servers
  <3>2. backlog'["av"] \in {backlog["av"], Append(backlog["av"], n)}
    BY <1>1, <1>2, <3>1 DEF IInv, TypeOK
  <3>3. Head(backlog'["av"]) = Head(backlog["av"])
    BY <3>1, <3>2, QueueAppend
  <3>4. Head(backlog["av"]) \in Conns /\ conn[Head(backlog["av"])].sv = "queued"
    BY <3>1, HeadWaits
  <3> QED BY <1>3, <3>3, <3>4
<2>2. \A m \in Conns : Sits(m)' => /\ Sits(m) /\ conn'[m].by = conn[m].by
                                   /\ conn[m].cl = "closed" => conn'[m].cl = "closed"
  BY <1>3 DEF Sits
<2> QED BY <1>2, <1>6, <2>1, <2>2, OtherRound
<1>8. RefusedMeansKept'
  BY <1>2, <1>3, KeptGrows
<1> QED BY <1>5, <1>7, <1>8

(* The client's end. *)
LEMMA ClientR ==
  ASSUME IInv, ConnInv, RoundInv, RefusedMeansKept, NEW p \in Actors, ClientStep(p)
  PROVE  ConnInv' /\ RoundInv' /\ RefusedMeansKept'
<1>1. CASE CannotConnect(p)
<2>1. UNCHANGED <<conn, cur, refused>> /\ p = "av" /\ pc["av"] = "forward"
  BY <1>1 DEF CannotConnect, MayConnect
<2>2. ConnInv'
  BY <2>1 DEF ConnInv, Shape
<2>3. ~AllWait'
  BY <2>1 DEF RoundInv, AllWait, Talked
<2>4. RefusedMeansKept'
  BY <2>1, KeptGrows
<2> QED BY <2>2, <2>3, <2>4 DEF RoundInv
<1>2. CASE SendLocal(p)
<2>0. PICK n \in Conns : n = cur[p]
  BY <1>2 DEF SendLocal, IInv, TypeOK
<2> DEFINE x == IF conn[n].sv = "closed" THEN conn[n].msg ELSE What(p)
<2>1. /\ n \in Conns /\ conn[n].cl = "open" /\ conn[n].by = p /\ Shape(n)
      /\ conn' = [conn EXCEPT ![n].msg = x, ![n].cl = "sent"]
      /\ UNCHANGED <<backlog, arrClient_fd, pc, readfset, cur, refused>>
  BY <1>2, <2>0 DEF SendLocal, ConnInv, IInv, TypeOK
<2>2. /\ \A m \in Conns : m # n => conn'[m] = conn[m]
      /\ conn'[n].by = p /\ conn'[n].to = conn[n].to /\ conn'[n].cl = "sent"
      /\ conn'[n].sv = conn[n].sv /\ conn'[n].msg = x /\ conn'[n].reply = conn[n].reply
  <3> HIDE DEF x
  <3> QED BY <2>1 DEF IInv, TypeOK
<2>3. x \in {"none", What(p)} /\ conn[n].msg = "none" /\ ~conn[n].reply
  BY <2>1 DEF Shape
<2> HIDE DEF x
<2>4. ConnInv'
<3>1. Shape(n)'
  BY <2>1, <2>2, <2>3 DEF Shape, Unused
<3>2. ASSUME NEW m \in Conns, m # n PROVE Shape(m)'
  <4>1. Shape(m) /\ conn'[m] = conn[m] /\ cur' = cur
    BY <2>1, <2>2, <3>2 DEF ConnInv
  <4> QED BY <4>1 DEF Shape
<3>3. ASSUME NEW q \in Actors, cur'[q] # 0
      PROVE  conn'[cur'[q]].by = q /\ conn'[cur'[q]].cl \in {"open", "sent"}
  <4>1. cur[q] \in Conns /\ conn[cur[q]].by = q /\ conn[cur[q]].cl \in {"open", "sent"}
        /\ cur'[q] = cur[q]
    BY <2>1, <3>3 DEF ConnInv, IInv, TypeOK
  <4> QED BY <2>1, <2>2, <4>1
<3> QED BY <3>1, <3>2, <3>3 DEF ConnInv
<2>5. \A m \in Conns : /\ conn'[m].by = conn[m].by /\ conn'[m].to = conn[m].to
                       /\ conn'[m].sv = conn[m].sv
                       /\ conn[m].cl \in {"kept", "closed"} => conn'[m].cl = conn[m].cl
  BY <2>1, <2>2
<2>6. AllWait' => AllWait
  BY <2>5, TalkedGrows
<2>7. pc["av"] = "accept" => Head(backlog["av"]) \in Conns
  BY HeadWaits DEF IInv, SomebodyWaits, Servers
<2>8. \A m \in Conns : Sits(m)' => Sits(m) /\ (conn[m].cl = "closed" => conn'[m].cl = "closed")
  BY <2>5 DEF Sits
<2>9. RoundInv'
  BY <2>1, <2>5, <2>6, <2>7, <2>8, OtherRound
<2>10. RefusedMeansKept'
  BY <2>1, <2>5, KeptGrows
<2> QED BY <2>4, <2>9, <2>10
<1>3. CASE Finish(p)
<2>0. PICK n \in Conns : n = cur[p]
  BY <1>3 DEF Finish, IInv, TypeOK
<2> DEFINE e == IF What(p) = "keep" THEN "kept" ELSE "closed"
<2>1. /\ n \in Conns /\ conn[n].cl = "sent" /\ conn[n].by = p /\ Shape(n)
      /\ What(p) \in {"ask", "keep"} => conn[n].reply \/ conn[n].sv = "closed"
      /\ conn' = [conn EXCEPT ![n].cl = e]
      /\ cur' = [cur EXCEPT ![p] = 0]
      /\ UNCHANGED <<backlog, arrClient_fd, readfset, refused>>
  BY <1>3, <2>0 DEF Finish, ConnInv, IInv, TypeOK
<2>2. /\ \A m \in Conns : m # n => conn'[m] = conn[m]
      /\ conn'[n].by = p /\ conn'[n].to = conn[n].to /\ conn'[n].cl = e
      /\ conn'[n].sv = conn[n].sv /\ conn'[n].msg = conn[n].msg /\ conn'[n].reply = conn[n].reply
      /\ e \in {"kept", "closed"}
  BY <2>1 DEF IInv, TypeOK
<2> HIDE DEF e
<2>3. cur'[p] = 0 /\ \A q \in Actors : q # p => cur'[q] = cur[q]
  BY <2>1 DEF IInv, TypeOK
<2>4. ConnInv'
<3>1. Shape(n)'
  <4>1. Waiting(p) => What(p) \in {"ask", "keep"}
    BY ServerAssumption DEF Waiting, What
  <4> QED BY <2>1, <2>2, <4>1 DEF Shape, Unused
<3>2. ASSUME NEW m \in Conns, m # n PROVE Shape(m)'
  <4>1. Shape(m) /\ conn'[m] = conn[m] /\ m # 0
    BY <2>2, <3>2, ServerAssumption DEF ConnInv, Conns
  <4>2. conn[m].cl \in {"open", "sent"} => cur'[conn[m].by] = m
    <5> SUFFICES ASSUME conn[m].cl \in {"open", "sent"} PROVE cur'[conn[m].by] = m
      OBVIOUS
    <5>1. conn[m].by \in Actors /\ cur[conn[m].by] = m
      BY <4>1 DEF Shape, Unused
    <5> QED BY <2>0, <2>3, <3>2, <5>1
  <4> QED BY <4>1, <4>2 DEF Shape
<3>3. ASSUME NEW q \in Actors, cur'[q] # 0
      PROVE  conn'[cur'[q]].by = q /\ conn'[cur'[q]].cl \in {"open", "sent"}
  <4>1. cur[q] \in Conns /\ conn[cur[q]].by = q /\ conn[cur[q]].cl \in {"open", "sent"}
        /\ cur'[q] = cur[q] /\ q # p /\ cur[q] # n
    BY <2>1, <2>3, <3>3 DEF ConnInv, IInv, TypeOK
  <4> QED BY <2>1, <2>2, <4>1
<3> QED BY <3>1, <3>2, <3>3 DEF ConnInv
<2>5. \A m \in Conns : /\ conn'[m].by = conn[m].by /\ conn'[m].to = conn[m].to
                       /\ conn'[m].sv = conn[m].sv
                       /\ conn[m].cl \in {"kept", "closed"} => conn'[m].cl = conn[m].cl
  BY <2>1, <2>2
<2>6. AllWait' => AllWait
  BY <2>5, TalkedGrows
<2>7. pc["av"] = "accept" => Head(backlog["av"]) \in Conns
  BY HeadWaits DEF IInv, SomebodyWaits, Servers
<2>8. \A m \in Conns : Sits(m)' => Sits(m) /\ (conn[m].cl = "closed" => conn'[m].cl = "closed")
  BY <2>5 DEF Sits
<2>9. RoundInv'
  <3>1. CASE p = "av"
    <4>1. "av" \in Talked'
      BY <2>1, <2>2, <3>1, ServerAssumption DEF Talked
    <4>2. ~AllWait'
      BY <4>1, ServerAssumption DEF AllWait, Waiting
    <4> QED BY <4>2 DEF RoundInv
  <3>2. CASE p # "av"
    <4>1. UNCHANGED pc
      BY <1>3, <3>2 DEF Finish, ForwardDone
    <4> QED BY <2>1, <2>5, <2>6, <2>7, <2>8, <4>1, OtherRound
  <3> QED BY <3>1, <3>2
<2>10. RefusedMeansKept'
  BY <2>1, <2>5, KeptGrows
<2> QED BY <2>4, <2>9, <2>10
<1> QED BY <1>1, <1>2, <1>3 DEF ClientStep

------------------------------------------------------------------------------
(* The server's end of a connection is accepted or closed, or its message  *)
(* is read.                                                                *)
LEMMA ServerEndR ==
  ASSUME ConnInv, TypeOK, NEW n \in Conns, UNCHANGED cur,
         \A m \in Conns : m # n => conn'[m] = conn[m],
         conn[n].sv \in {"queued", "accepted"}, conn'[n].sv \in {"accepted", "closed"},
         conn'[n].by = conn[n].by, conn'[n].to = conn[n].to, conn'[n].cl = conn[n].cl,
         \/ conn'[n].msg = conn[n].msg /\ conn'[n].reply = conn[n].reply
         \/ conn'[n].msg = "none" /\ conn[n].msg # "none"
  PROVE  ConnInv'
<1>1. Shape(n) /\ conn[n] # Unused
  BY DEF ConnInv, Unused
<1>2. Shape(n)'
  BY <1>1 DEF Shape
<1>3. ASSUME NEW m \in Conns, m # n PROVE Shape(m)'
  <2>1. Shape(m) /\ conn'[m] = conn[m] /\ cur' = cur
    BY <1>3 DEF ConnInv
  <2> QED BY <2>1 DEF Shape
<1>4. ASSUME NEW q \in Actors, cur'[q] # 0
      PROVE  conn'[cur'[q]].by = q /\ conn'[cur'[q]].cl \in {"open", "sent"}
  <2>1. cur[q] \in Conns /\ conn[cur[q]].by = q /\ conn[cur[q]].cl \in {"open", "sent"}
        /\ cur'[q] = cur[q]
    BY <1>4 DEF ConnInv, TypeOK
  <2> QED BY <2>1
<1> QED BY <1>2, <1>3, <1>4 DEF ConnInv

(* select sees what was closed before the client it will accept came. *)
LEMMA SelectR ==
  ASSUME IInv, ConnInv, RoundInv, RefusedMeansKept, NEW s \in Servers, Select(s)
  PROVE  ConnInv' /\ RoundInv' /\ RefusedMeansKept'
<1>1. /\ pc[s] = "select" /\ UNCHANGED <<conn, backlog, arrClient_fd, cur, refused>>
      /\ readfset' = [readfset EXCEPT ![s] = {n \in Table(s) : Readable(n)}]
      /\ pc' = [pc EXCEPT ![s] = IF backlog[s] # <<>> THEN "accept" ELSE "scan"]
  BY DEF Select
<1>2. ConnInv'
  BY <1>1 DEF ConnInv, Shape
<1>3. RefusedMeansKept'
  BY <1>1, KeptGrows
<1>4. CASE s # "av"
<2>1. /\ pc'["av"] = pc["av"] /\ readfset'["av"] = readfset["av"] /\ UNCHANGED <<conn, backlog>>
  BY <1>1, <1>4 DEF IInv, TypeOK, Servers
<2>2. (AllWait' => AllWait) /\ \A n \in Conns : Sits(n)' => Sits(n)
  BY <2>1 DEF AllWait, Talked, Sits
<2> QED BY <1>2, <1>3, <2>1, <2>2, OtherRound
<1>5. CASE s = "av"
<2> SUFFICES ASSUME AllWait' PROVE pc'["av"] # "forward" /\ PairInv' /\ HeadInv'
  BY <1>2, <1>3 DEF RoundInv
<2>1. PairInv /\ pc["av"] = "select"
  BY <1>1, <1>5 DEF RoundInv, AllWait, Talked
<2>2. /\ pc'["av"] = IF backlog["av"] # <<>> THEN "accept" ELSE "scan"
      /\ readfset'["av"] = {n \in Table("av") : Readable(n)}
  BY <1>1, <1>5 DEF IInv, TypeOK, Servers
<2>3. PairInv'
  BY <1>1, <2>1 DEF PairInv, Sits
<2>4. ASSUME pc'["av"] = "accept", NEW n \in Conns, Sits(n),
             conn[n].by = conn[Head(backlog["av"])].by
      PROVE  Leaves(n)'
  <3> DEFINE h == Head(backlog["av"])
  <3>1. h \in Conns /\ conn[h].sv = "queued"
    BY <2>2, <2>4, HeadWaits DEF Servers
  <3> HIDE DEF h
  <3>2. Waiting(conn[h].by)
    <4>1. conn[h].by \in Talked
      BY <3>1, ServerAssumption DEF ConnInv, Shape, Unused, Talked, Actors
    <4> QED BY <1>1, <4>1 DEF AllWait, Talked
  <3>3. cur[conn[h].by] = h
    BY <3>1, <3>2 DEF ConnInv, Shape
  <3>4. n # h /\ conn[n].by = conn[h].by /\ conn[n].cl # "kept" /\ conn[n].sv = "accepted"
    BY <2>4, <3>1 DEF Sits, h
  <3>5. conn[n].cl = "closed"
    <4>1. conn[n].cl \notin {"open", "sent"}
      BY <3>3, <3>4 DEF ConnInv, Shape
    <4>2. conn[n].cl \in {"none", "open", "sent", "kept", "closed"}
      BY DEF IInv, TypeOK
    <4>3. conn[n].cl # "none"
      BY <3>4 DEF ConnInv, Shape, Unused
    <4> QED BY <3>4, <4>1, <4>2, <4>3
  <3>6. n \in Table("av")
    BY <2>4 DEF IInv, SlotsHonest, Sits, Servers
  <3> QED BY <1>1, <2>2, <3>5, <3>6 DEF Leaves, Readable
<2>5. HeadInv'
  BY <1>1, <2>4 DEF HeadInv, Sits
<2> QED BY <2>2, <2>3, <2>5
<1> QED BY <1>4, <1>5

LEMMA AcceptFailsR ==
  ASSUME IInv, ConnInv, RoundInv, RefusedMeansKept, NEW s \in Servers, AcceptFails(s)
  PROVE  ConnInv' /\ RoundInv' /\ RefusedMeansKept'
<1>1. /\ pc[s] = "accept" /\ pc' = [pc EXCEPT ![s] = "select"]
      /\ UNCHANGED <<conn, backlog, arrClient_fd, readfset, cur, refused>>
  BY DEF AcceptFails
<1>2. ConnInv'
  BY <1>1 DEF ConnInv, Shape
<1>3. RefusedMeansKept'
  BY <1>1, KeptGrows
<1>4. /\ (pc'["av"] = pc["av"] \/ (pc["av"] = "accept" /\ pc'["av"] = "select"))
      /\ AllWait' => AllWait
  BY <1>1 DEF IInv, TypeOK, Servers, AllWait, Talked
<1>5. RoundInv'
  BY <1>1, <1>4 DEF RoundInv, PairInv, HeadInv, Sits, Leaves
<1> QED BY <1>2, <1>3, <1>5

(* Only av_server is a client of Avi_Ctrl, and it does not wait. *)
LEMMA AviServesAv ==
  ASSUME IInv, ConnInv, NEW n \in Conns, conn[n].to = "avi", conn[n].sv # "none"
  PROVE  ~AllWait
<1>1. conn[n].by \in Actors /\ Peer(conn[n].by) = "avi"
  BY DEF ConnInv, Shape, Unused
<1>2. conn[n].by = "av"
  BY <1>1 DEF Peer
<1>3. "av" \in Talked
  BY <1>2, ServerAssumption DEF Talked
<1> QED BY <1>3, ServerAssumption DEF AllWait, Waiting

(* The older connection of the client that is accepted is in the round.    *)
LEMMA AcceptR ==
  ASSUME IInv, ConnInv, RoundInv, RefusedMeansKept, NEW s \in Servers, Accept(s)
  PROVE  ConnInv' /\ RoundInv' /\ RefusedMeansKept'
<1>0. PICK n \in Conns : n = Head(backlog[s]) /\ conn[n].to = s /\ conn[n].sv = "queued"
  BY HeadWaits DEF Accept, IInv, SomebodyWaits
<1>1. /\ pc[s] = "accept" /\ UNCHANGED <<readfset, cur>>
      /\ \/ /\ conn' = [conn EXCEPT ![n].sv = "accepted"]
            /\ pc' = [pc EXCEPT ![s] = IF readfset[s] = {} THEN "select" ELSE "scan"]
            /\ UNCHANGED refused
         \/ /\ Free(s) = {} /\ conn' = [conn EXCEPT ![n].sv = "closed"]
            /\ pc' = [pc EXCEPT ![s] = "select"]
            /\ refused' = TRUE
  BY <1>0 DEF Accept
<1>2. /\ \A m \in Conns : /\ conn'[m].by = conn[m].by /\ conn'[m].to = conn[m].to
                          /\ conn'[m].cl = conn[m].cl
                          /\ m # n => conn'[m] = conn[m]
      /\ conn'[n].sv \in {"accepted", "closed"}
      /\ conn'[n].msg = conn[n].msg /\ conn'[n].reply = conn[n].reply
  BY <1>1 DEF IInv, TypeOK
<1>3. ConnInv'
  BY <1>0, <1>1, <1>2, ServerEndR DEF IInv
<1>4. AllWait' => AllWait
  BY <1>2, TalkedGrows
<1>5. CASE s # "av"
<2>1. ~AllWait
  BY <1>0, <1>5, AviServesAv DEF Servers
<2> QED BY <1>3, <1>4, <2>1 DEF RoundInv, RefusedMeansKept, AllWait
<1>6. CASE s = "av"
<2>1. SUFFICES ASSUME AllWait'
               PROVE  /\ pc'["av"] # "forward" /\ PairInv' /\ HeadInv'
                      /\ refused' => Cardinality({m \in Conns : conn'[m].cl = "kept"})
                                       + Cardinality(Talked') >= Cardinality(Slots("av"))
  BY <1>3 DEF RoundInv, RefusedMeansKept, AllWait
<2>2. PairInv /\ HeadInv /\ pc["av"] = "accept" /\ AllWait
  BY <1>1, <1>4, <1>6, <2>1 DEF RoundInv
<2>3. {m \in Conns : conn'[m].cl = "kept"} = {m \in Conns : conn[m].cl = "kept"}
  BY <1>2
<2>4. Talked' = Talked
  BY <1>2 DEF Talked
<2>5. \A m \in Conns : m # n => (Sits(m)' <=> Sits(m))
  BY <1>2 DEF Sits
<2>6. CASE /\ conn' = [conn EXCEPT ![n].sv = "accepted"]
           /\ pc' = [pc EXCEPT ![s] = IF readfset[s] = {} THEN "select" ELSE "scan"]
           /\ UNCHANGED refused
  <3>1. pc'["av"] = IF readfset["av"] = {} THEN "select" ELSE "scan"
    BY <1>6, <2>6 DEF IInv, TypeOK, Servers
  <3>2. HeadInv' /\ pc'["av"] # "forward"
    BY <3>1 DEF HeadInv
  <3>3. ASSUME NEW m \in Conns, Sits(m)', m # n, conn'[m].by = conn'[n].by
        PROVE  pc'["av"] = "scan" /\ Leaves(m)'
    <4>1. Leaves(m)
      BY <1>0, <1>2, <1>6, <2>2, <2>5, <3>3 DEF HeadInv
    <4> QED BY <1>1, <1>2, <3>1, <4>1 DEF Leaves
  <3>4. PairInv'
    <4> SUFFICES ASSUME NEW m \in Conns, NEW k \in Conns, Sits(m)', Sits(k)', m # k,
                        conn'[m].by = conn'[k].by
                 PROVE  pc'["av"] = "scan" /\ (Leaves(m) \/ Leaves(k))'
      BY DEF PairInv
    <4>1. m = n \/ k = n
      BY <1>2, <2>2, <2>5 DEF PairInv
    <4> QED BY <3>3, <4>1
  <3>5. refused => Cardinality({m \in Conns : conn[m].cl = "kept"}) + Cardinality(Talked)
                     >= Cardinality(Slots("av"))
    BY <2>2 DEF RefusedMeansKept, AllWait
  <3> QED BY <2>3, <2>4, <2>6, <3>2, <3>4, <3>5
<2>7. CASE /\ Free(s) = {} /\ conn' = [conn EXCEPT ![n].sv = "closed"]
           /\ pc' = [pc EXCEPT ![s] = "select"]
           /\ refused' = TRUE
  <3>1. pc'["av"] = "select"
    BY <1>6, <2>7 DEF IInv, TypeOK, Servers
  <3>2. conn'[n].sv = "closed"
    BY <2>7 DEF IInv, TypeOK
  <3>3. \A m \in Conns : Sits(m)' => Sits(m)
    BY <2>5, <3>2 DEF Sits
  <3>4. PairInv'
    BY <1>2, <2>2, <3>3 DEF PairInv
  <3>5. HeadInv'
    BY <3>1 DEF HeadInv
  <3>6. Cardinality({m \in Conns : conn[m].cl = "kept"}) + Cardinality(Talked)
          >= Cardinality(Slots("av"))
    BY <1>6, <2>2, <2>7, FullMeansKept
  <3> QED BY <2>3, <2>4, <3>1, <3>4, <3>5, <3>6
<2> QED BY <1>1, <2>6, <2>7
<1> QED BY <1>5, <1>6

(* What is read was a message, so the client's end is not closed; what is  *)
(* not in the table any more is in no pair.                                *)
LEMMA ReadR ==
  ASSUME IInv, ConnInv, RoundInv, RefusedMeansKept, NEW s \in Servers, Serve(s) \/ HangUp(s)
  PROVE  ConnInv' /\ RoundInv' /\ RefusedMeansKept'
<1>0. PICK n \in Conns : /\ n = NextConn(s) /\ pc[s] = "scan" /\ n \in readfset[s]
                         /\ conn[n].to = s /\ conn[n].sv = "accepted"
  BY NextInRound DEF Serve, HangUp
<1>1. /\ readfset' = [readfset EXCEPT ![s] = @ \ {n}] /\ UNCHANGED <<backlog, cur, refused>>
      /\ pc' = [pc EXCEPT ![s] = IF Serve(s) /\ conn[n].msg = "rec" THEN "forward" ELSE Resume(s)]
  BY <1>0 DEF Serve, HangUp
<1>2. /\ \A m \in Conns : /\ conn'[m].by = conn[m].by /\ conn'[m].to = conn[m].to
                          /\ conn'[m].cl = conn[m].cl
                          /\ m # n => conn'[m] = conn[m]
      /\ conn'[n].sv \in {"accepted", "closed"}
      /\ \/ Serve(s) /\ conn'[n].msg = "none" /\ conn[n].msg # "none"
         \/ /\ HangUp(s) /\ conn'[n].msg = conn[n].msg /\ conn'[n].reply = conn[n].reply
            /\ conn[n].msg = "none" /\ conn'[n].sv = "closed"
<2>1. CASE Serve(s)
  <3> DEFINE a == conn[n].msg \in {"ask", "keep"}
  <3>1. /\ conn' = [conn EXCEPT ![n].msg = "none", ![n].reply = a] /\ conn[n].msg # "none"
    BY <1>0, <2>1 DEF Serve
  <3> HIDE DEF a
  <3> QED BY <1>0, <2>1, <3>1 DEF IInv, TypeOK
<2>2. CASE HangUp(s)
  BY <1>0, <2>2 DEF HangUp, IInv, TypeOK
<2> QED BY <2>1, <2>2
<1>3. ConnInv'
  BY <1>0, <1>1, <1>2, ServerEndR DEF IInv
<1>4. AllWait' => AllWait
  BY <1>2, TalkedGrows
<1>5. RefusedMeansKept'
  BY <1>1, <1>2, KeptGrows
<1>6. RoundInv'
<2>1. CASE s # "av"
  <3>1. ~AllWait
    BY <1>0, <2>1, AviServesAv DEF Servers
  <3> QED BY <1>4, <3>1 DEF RoundInv
<2>2. CASE s = "av"
  <3> SUFFICES ASSUME AllWait' PROVE pc'["av"] # "forward" /\ PairInv' /\ HeadInv'
    BY DEF RoundInv
  <3>1. PairInv /\ AllWait
    BY <1>4 DEF RoundInv
  <3>2. readfset'["av"] = readfset["av"] \ {n} /\ pc["av"] = "scan"
    BY <1>0, <1>1, <2>2 DEF IInv, TypeOK, Servers
  <3>3. conn[n].msg # "rec"
    <4> SUFFICES ASSUME conn[n].msg = "rec" PROVE FALSE
      OBVIOUS
    <4>1. conn[n].by \in Actors /\ What(conn[n].by) = "rec"
      BY DEF ConnInv, Shape, Unused
    <4>2. conn[n].by \in Talked
      BY <4>1, ServerAssumption DEF Talked, Actors
    <4>3. Waiting(conn[n].by)
      BY <3>1, <4>2 DEF AllWait
    <4> QED BY <4>1, <4>3, ServerAssumption DEF Waiting, What
  <3>4. pc'["av"] = IF readfset'["av"] = {} THEN "select" ELSE "scan"
    BY <1>1, <2>2, <3>3 DEF Resume, IInv, TypeOK, Servers
  <3>5. HeadInv' /\ pc'["av"] # "forward"
    BY <3>4 DEF HeadInv
  <3>6. \A m \in Conns : Sits(m)' => Sits(m)
    BY <1>0, <1>2, <2>2 DEF Sits
  <3>7. ASSUME NEW m \in Conns, Leaves(m), Sits(m)' PROVE Leaves(m)' /\ pc'["av"] = "scan"
    <4>1. m # n
      <5>1. CASE Serve(s)
        <6>1. conn[n].msg # "none" /\ Sits(m)
          BY <1>0, <3>6, <3>7, <5>1 DEF Serve
        <6>2. conn[m].cl = "closed" /\ conn[m].sv = "accepted"
          BY <3>7, <6>1 DEF Leaves, Sits
        <6>3. conn[m].by \in Talked
          BY <6>2, ServerAssumption DEF ConnInv, Shape, Unused, Talked, Actors
        <6>4. Waiting(conn[m].by)
          BY <3>1, <6>3 DEF AllWait
        <6> QED BY <6>1, <6>2, <6>4 DEF ConnInv, Shape
      <5>2. CASE HangUp(s)
        <6>1. conn'[n].sv = "closed"
          BY <1>0, <5>2 DEF HangUp, IInv, TypeOK
        <6> QED BY <3>7, <6>1 DEF Sits
      <5> QED BY <5>1, <5>2
    <4> QED BY <1>2, <3>2, <3>4, <3>7, <4>1 DEF Leaves
  <3>8. PairInv'
    <4> SUFFICES ASSUME NEW m \in Conns, NEW k \in Conns, Sits(m)', Sits(k)', m # k,
                        conn'[m].by = conn'[k].by
                 PROVE  pc'["av"] = "scan" /\ (Leaves(m) \/ Leaves(k))'
      BY DEF PairInv
    <4>1. Leaves(m) \/ Leaves(k)
      BY <1>2, <3>1, <3>6 DEF PairInv
    <4> QED BY <3>7, <4>1
  <3> QED BY <3>5, <3>8
<2> QED BY <2>1, <2>2
<1> QED BY <1>3, <1>5, <1>6

LEMMA NextR == RInv /\ [Next]_vars => RInv'
<1> SUFFICES ASSUME RInv, [Next]_vars PROVE RInv'
  OBVIOUS
<1>1. IInv'
  BY NextInv DEF RInv
<1>2. ASSUME NEW p \in Actors, Connect(p) \/ ClientStep(p) PROVE RInv'
  BY <1>1, <1>2, ConnectR, ClientR DEF RInv
<1>3. ASSUME NEW s \in Servers, ServerStep(s) PROVE RInv'
  BY <1>1, <1>3, SelectR, AcceptFailsR, AcceptR, ReadR DEF RInv, ServerStep
<1>4. CASE UNCHANGED vars
<2>1. UNCHANGED <<conn, backlog, pc, readfset, cur, refused>>
  BY <1>4 DEF vars
<2>2. ConnInv' /\ RoundInv'
  BY <2>1 DEF RInv, ConnInv, Shape, RoundInv, AllWait, Talked, PairInv, HeadInv, Sits, Leaves
<2>3. RefusedMeansKept'
  BY <2>1, KeptGrows DEF RInv
<2> QED BY <1>1, <2>2, <2>3 DEF RInv
<1> QED BY <1>2, <1>3, <1>4 DEF Next

(* av_server refuses a client whose slot it has not lost: as long as all   *)
(* clients wait for their answers, the table is full only of connections   *)
(* that were left open (GetVideoInfo) and one of each client.              *)
THEOREM RefusalsAreDue == Spec => []RefusedMeansKept
<1>1. Init => RInv
  BY InitInv, InitR DEF RInv
<1>2. RInv => RefusedMeansKept
  BY DEF RInv
<1> QED BY <1>1, <1>2, NextR, PTL DEF Spec

------------------------------------------------------------------------------
(* The servers as a service                                                *)

(* Who is answered waits, whoever waits gives up only what was answered or *)
(* refused, and what a client has sent is unread as long as it queues.     *)
CallShape(n) ==
  LET c == conn[n] IN
  /\ c.reply => Waiting(c.by)
  /\ Waiting(c.by) /\ c.cl \in {"kept", "closed"} => c.reply \/ c.sv = "closed"
  /\ c.sv = "queued" => c.cl = "open" \/ c.msg # "none"

(* av_server reads nobody while it talks to Avi_Ctrl. *)
CallInv ==
  /\ \A n \in Conns : CallShape(n)
  /\ cur["av"] # 0 => pc["av"] = "forward"

(* A step with one connection that goes on with the client it had. *)
LEMMA OneConnection ==
  ASSUME CallInv, NEW n \in Conns, CallShape(n)',
         \A m \in Conns : m # n => conn'[m] = conn[m],
         cur'["av"] # 0 => pc'["av"] = "forward"
  PROVE  CallInv'
<1>1. ASSUME NEW m \in Conns, m # n PROVE CallShape(m)'
  BY <1>1 DEF CallInv, CallShape, Waiting
<1> QED BY <1>1 DEF CallInv

LEMMA SameCalls ==
  ASSUME NEW n \in Conns, UNCHANGED cur, CallOf(n)' = CallOf(n), conn'[n].by = conn[n].by,
         \A m \in Conns : m # n => conn'[m] = conn[m]
  PROVE  UNCHANGED Calls!vars
<1>1. \A m \in Conns : CallOf(m)' = CallOf(m) /\ conn'[m].by = conn[m].by
  BY DEF CallOf
<1> QED BY <1>1 DEF Calls!vars

LEMMA OneCall ==
  ASSUME NEW n \in Conns, conn'[n].by = conn[n].by,
         \A m \in Conns : m # n => conn'[m] = conn[m]
  PROVE  /\ [m \in Conns |-> conn'[m].by] = [m \in Conns |-> conn[m].by]
         /\ [m \in Conns |-> CallOf(m)'] = [[m \in Conns |-> CallOf(m)] EXCEPT ![n] = CallOf(n)']
<1>1. \A m \in Conns : m # n => CallOf(m)' = CallOf(m)
  BY DEF CallOf
<1> QED BY <1>1

(* connect: a call begins. *)
LEMMA ConnectCalls ==
  ASSUME IInv, ConnInv, CallInv, NEW p \in Actors, Connect(p)
  PROVE  CallInv' /\ Calls!Next
<1>1. PICK n \in Conns :
        /\ conn[n] = Unused
        /\ conn' = [conn EXCEPT ![n] = [Unused EXCEPT !.by = p, !.to = Peer(p),
                                                      !.cl = "open", !.sv = "queued"]]
        /\ cur' = [cur EXCEPT ![p] = n]
  BY DEF Connect
<1>2. /\ \A m \in Conns : m # n => conn'[m] = conn[m]
      /\ conn'[n].by = p /\ conn'[n].cl = "open" /\ conn'[n].sv = "queued"
      /\ conn'[n].reply = FALSE /\ conn[n].by = "nobody"
  BY <1>1 DEF IInv, TypeOK, Unused
<1>3. cur[p] = 0 /\ (p = "av" => pc["av"] = "forward") /\ UNCHANGED pc
  BY DEF Connect, MayConnect
<1>4. p # "nobody"
  BY ServerAssumption DEF Actors
<1>5. CallInv'
  <2>1. CallShape(n)'
    BY <1>2 DEF CallShape
  <2>2. cur'["av"] # 0 => pc'["av"] = "forward"
    BY <1>1, <1>3 DEF IInv, TypeOK, CallInv, Actors
  <2> QED BY <1>2, <2>1, <2>2, OneConnection
<1>6. CallOf(n) = "unused" /\ CallOf(n)' = "made"
  BY <1>2, <1>4 DEF CallOf
<1>7. [m \in Conns |-> conn'[m].by] = [[m \in Conns |-> conn[m].by] EXCEPT ![n] = p]
  BY <1>2
<1>8. [m \in Conns |-> CallOf(m)'] = [[m \in Conns |-> CallOf(m)] EXCEPT ![n] = "made"]
  <2>1. \A m \in Conns : m # n => CallOf(m)' = CallOf(m)
    BY <1>2 DEF CallOf
  <2> QED BY <1>6, <2>1
<1>9. Calls!Begin(p)
  BY <1>1, <1>3, <1>6, <1>7, <1>8 DEF Calls!Begin
<1> QED BY <1>5, <1>9 DEF Calls!Next

(* send_local changes nothing of the call, recv_local and close_local end  *)
(* it.                                                                     *)
LEMMA ClientCalls ==
  ASSUME IInv, ConnInv, CallInv, NEW p \in Actors, ClientStep(p)
  PROVE  CallInv' /\ [Calls!Next]_(Calls!vars)
<1>1. CASE CannotConnect(p)
  <2>1. UNCHANGED <<conn, cur>> /\ cur["av"] = 0
    BY <1>1 DEF CannotConnect, MayConnect
  <2>2. CallInv'
    BY <2>1 DEF CallInv, CallShape, Waiting
  <2>3. UNCHANGED Calls!vars
    BY <2>1 DEF Calls!vars, CallOf
  <2> QED BY <2>2, <2>3
<1>2. CASE SendLocal(p)
  <2>0. PICK n \in Conns : n = cur[p]
    BY <1>2 DEF SendLocal, IInv, TypeOK
  <2> DEFINE x == IF conn[n].sv = "closed" THEN conn[n].msg ELSE What(p)
  <2>1. /\ conn[n].cl = "open" /\ conn[n].by = p /\ p # "nobody" /\ Shape(n)
        /\ conn' = [conn EXCEPT ![n].msg = x, ![n].cl = "sent"] /\ UNCHANGED <<pc, cur>>
    BY <1>2, <2>0, ServerAssumption DEF SendLocal, ConnInv, IInv, TypeOK, Actors
  <2>2. /\ \A m \in Conns : m # n => conn'[m] = conn[m]
        /\ conn'[n].by = p /\ conn'[n].cl = "sent" /\ conn'[n].sv = conn[n].sv
        /\ conn'[n].msg = x /\ conn'[n].reply = conn[n].reply
    <3> HIDE DEF x
    <3> QED BY <2>1 DEF IInv, TypeOK
  <2>3. ~conn[n].reply /\ (conn[n].sv # "closed" => x # "none")
    BY <2>1, ServerAssumption DEF Shape, What, Actors, Kinds
  <2> HIDE DEF x
  <2>4. CallShape(n)'
    BY <2>2, <2>3 DEF CallShape
  <2>5. CallOf(n)' = CallOf(n)
    BY <2>1, <2>2, <2>3 DEF CallOf
  <2> QED BY <2>1, <2>2, <2>4, <2>5, OneConnection, SameCalls DEF CallInv
<1>3. CASE Finish(p)
  <2>0. PICK n \in Conns : n = cur[p]
    BY <1>3 DEF Finish, IInv, TypeOK
  <2> DEFINE e == IF What(p) = "keep" THEN "kept" ELSE "closed"
  <2>1. /\ conn[n].cl = "sent" /\ conn[n].by = p /\ p # "nobody" /\ cur[p] # 0
        /\ What(p) \in {"ask", "keep"} => conn[n].reply \/ conn[n].sv = "closed"
        /\ conn' = [conn EXCEPT ![n].cl = e] /\ cur' = [cur EXCEPT ![p] = 0]
        /\ p # "av" => UNCHANGED pc
    BY <1>3, <2>0, ServerAssumption DEF Finish, ForwardDone, ConnInv, IInv, TypeOK, Actors
  <2>2. /\ \A m \in Conns : m # n => conn'[m] = conn[m]
        /\ conn'[n].by = p /\ conn'[n].cl = e /\ conn'[n].sv = conn[n].sv
        /\ conn'[n].msg = conn[n].msg /\ conn'[n].reply = conn[n].reply
    <3> HIDE DEF e
    <3> QED BY <2>1 DEF IInv, TypeOK
  <2>3. e # "open" /\ (Waiting(p) => What(p) \in {"ask", "keep"})
    BY ServerAssumption DEF Waiting, What
  <2> HIDE DEF e
  <2>4. CallShape(n)'
    BY <2>1, <2>2, <2>3 DEF CallInv, CallShape, Waiting
  <2>5. cur'["av"] # 0 => pc'["av"] = "forward"
    BY <2>1 DEF CallInv, IInv, TypeOK, Actors
  <2>6. CallInv'
    BY <2>2, <2>4, <2>5, OneConnection
  <2>7. CallOf(n)' = CallOf(n)
    BY <2>1, <2>2, <2>3 DEF CallOf
  <2>8. \A m \in Conns : CallOf(m)' = CallOf(m) /\ conn'[m].by = conn[m].by
    BY <2>1, <2>2, <2>7 DEF CallOf
  <2>9. Waiting(p) => CallOf(n) \in {"taken", "over"}
    BY <2>1, <2>3 DEF CallOf
  <2>10. Calls!End(p)
    BY <2>0, <2>1, <2>8, <2>9 DEF Calls!End
  <2> QED BY <2>6, <2>10 DEF Calls!Next
<1> QED BY <1>1, <1>2, <1>3 DEF ClientStep

(* select and accept: only a refusal is to be seen from outside. *)
LEMMA WaitCalls ==
  ASSUME IInv, ConnInv, CallInv, NEW s \in Servers, Select(s) \/ AcceptFails(s)
  PROVE  CallInv' /\ UNCHANGED Calls!vars
<1>1. UNCHANGED <<conn, cur>> /\ pc[s] \in {"select", "accept"} /\ pc' = [pc EXCEPT ![s] = pc'[s]]
  BY DEF Select, AcceptFails, IInv, TypeOK
<1>2. cur'["av"] # 0 => pc'["av"] = "forward"
  BY <1>1 DEF CallInv, IInv, TypeOK, Servers
<1>3. \A n \in Conns : CallShape(n)'
  BY <1>1 DEF CallInv, CallShape, Waiting
<1>4. UNCHANGED Calls!vars
  BY <1>1 DEF Calls!vars, CallOf
<1> QED BY <1>2, <1>3, <1>4 DEF CallInv

LEMMA AcceptCalls ==
  ASSUME IInv, ConnInv, CallInv, NEW s \in Servers, Accept(s)
  PROVE  CallInv' /\ [Calls!Next]_(Calls!vars)
<1>0. PICK n \in Conns : n = Head(backlog[s]) /\ conn[n].sv = "queued"
  BY HeadWaits DEF Accept, IInv, SomebodyWaits
<1>1. PICK e \in {"accepted", "closed"} : conn' = [conn EXCEPT ![n].sv = e]
  BY <1>0 DEF Accept
<1>2. pc[s] = "accept" /\ pc' = [pc EXCEPT ![s] = pc'[s]] /\ UNCHANGED cur
  BY DEF Accept, IInv, TypeOK
<1>3. /\ \A m \in Conns : m # n => conn'[m] = conn[m]
      /\ conn'[n].sv = e /\ conn'[n].by = conn[n].by /\ conn'[n].cl = conn[n].cl
      /\ conn'[n].msg = conn[n].msg /\ conn'[n].reply = conn[n].reply
  BY <1>1 DEF IInv, TypeOK
<1>4. Shape(n) /\ CallShape(n) /\ conn[n].by # "nobody" /\ ~conn[n].reply
  BY <1>0, ServerAssumption DEF ConnInv, CallInv, Shape, Unused, Actors
<1>5. CallInv'
  <2>1. CallShape(n)'
    BY <1>0, <1>3, <1>4 DEF Shape, CallShape, Waiting
  <2>2. cur'["av"] # 0 => pc'["av"] = "forward"
    BY <1>2 DEF CallInv, IInv, TypeOK, Servers
  <2> QED BY <1>3, <2>1, <2>2, OneConnection
<1>6. CallOf(n) = "made"
  BY <1>0, <1>4 DEF CallOf, CallShape
<1>7. CASE e = "accepted"
  <2>1. CallOf(n)' = CallOf(n)
    BY <1>0, <1>3, <1>4, <1>6, <1>7 DEF CallOf, CallShape
  <2> QED BY <1>2, <1>3, <1>5, <2>1, SameCalls
<1>8. CASE e = "closed"
  <2>1. CallOf(n)' = "over"
    BY <1>3, <1>4, <1>8 DEF CallOf
  <2>2. Calls!Drop(n)
    BY <1>2, <1>3, <1>6, <2>1, OneCall DEF Calls!Drop
  <2> QED BY <1>5, <2>2 DEF Calls!Next
<1> QED BY <1>7, <1>8

(* A message is read: its call is taken up.  av_server talks to nobody     *)
(* then, and a client that waits is still there.                           *)
LEMMA ServeCalls ==
  ASSUME IInv, ConnInv, CallInv, NEW s \in Servers, Serve(s)
  PROVE  CallInv' /\ Calls!Next
<1>0. PICK n \in Conns : /\ n = NextConn(s) /\ pc[s] = "scan"
                         /\ conn[n].to = s /\ conn[n].sv = "accepted"
  BY NextInRound DEF Serve
<1> DEFINE a == conn[n].msg \in {"ask", "keep"}
<1>1. /\ conn' = [conn EXCEPT ![n].msg = "none", ![n].reply = a] /\ conn[n].msg # "none"
      /\ pc' = [pc EXCEPT ![s] = pc'[s]] /\ UNCHANGED cur
  BY <1>0 DEF Serve, IInv, TypeOK
<1>2. /\ \A m \in Conns : m # n => conn'[m] = conn[m]
      /\ conn'[n].sv = "accepted" /\ conn'[n].by = conn[n].by /\ conn'[n].cl = conn[n].cl
      /\ conn'[n].msg = "none" /\ conn'[n].reply = a
  <2> HIDE DEF a
  <2> QED BY <1>0, <1>1 DEF IInv, TypeOK
<1>3. /\ Shape(n) /\ CallShape(n) /\ conn[n].by \in Actors /\ conn[n].by # "nobody"
      /\ conn[n].to = Peer(conn[n].by) /\ ~conn[n].reply
  BY <1>0, <1>1, ServerAssumption DEF ConnInv, CallInv, Shape, Unused, Actors
<1>4. a => Waiting(conn[n].by)
  <2>1. conn[n].msg = What(conn[n].by)
    BY <1>1, <1>3 DEF Shape
  <2>2. conn[n].by = "av" \/ conn[n].by \in Clients
    BY <1>3 DEF Actors
  <2>3. What(conn[n].by) \in {"ask", "keep"} => Waiting(conn[n].by)
    BY <2>2 DEF What, Waiting
  <2> QED BY <2>1, <2>3
<1> HIDE DEF a
<1>5. Waiting(conn[n].by) => conn[n].cl = "sent"
  <2>1. conn[n].cl \in {"none", "sent", "open", "kept", "closed"}
    BY DEF IInv, TypeOK
  <2>2. conn[n].cl # "none"
    BY <1>0, <1>3 DEF Shape, Unused
  <2> QED BY <1>0, <1>1, <1>3, <2>1, <2>2 DEF Shape, CallShape
<1>6. CallInv'
  <2>1. CallShape(n)'
    BY <1>2, <1>4, <1>5 DEF CallShape, Waiting
  <2>2. cur'["av"] # 0 => pc'["av"] = "forward"
    <3>1. "av" \in DOMAIN pc
      BY DEF IInv, TypeOK, Servers
    <3>2. pc' = [pc EXCEPT ![s] = pc'[s]] /\ cur' = cur
      BY <1>1
    <3>3. s # "av" => pc'["av"] = pc["av"]
      BY <3>1, <3>2
    <3>4. pc[s] = "scan"
      BY <1>0
    <3>5. cur["av"] # 0 => pc["av"] = "forward"
      BY DEF CallInv
    <3> QED BY <3>2, <3>3, <3>4, <3>5
  <2> QED BY <1>2, <2>1, <2>2, OneConnection
<1>7. CallOf(n) = "made" /\ CallOf(n)' = "taken"
  BY <1>0, <1>1, <1>2, <1>3 DEF CallOf, Shape
<1>8. Waiting(conn[n].by) => cur[conn[n].by] = n
  BY <1>3, <1>5 DEF Shape
<1>9. conn[n].by # "av" => cur["av"] = 0
  BY <1>0, <1>3 DEF Peer, CallInv
<1>10. Calls!Take(n)
  BY <1>1, <1>2, <1>7, <1>8, <1>9, OneCall DEF Calls!Take
<1> QED BY <1>6, <1>10 DEF Calls!Next

(* The end of the stream is read: a call nobody waits for is forgotten. *)
LEMMA HangUpCalls ==
  ASSUME IInv, ConnInv, CallInv, NEW s \in Servers, HangUp(s)
  PROVE  CallInv' /\ [Calls!Next]_(Calls!vars)
<1>0. PICK n \in Conns : /\ n = NextConn(s) /\ pc[s] = "scan" /\ conn[n].sv = "accepted"
  BY NextInRound DEF HangUp
<1>1. /\ conn' = [conn EXCEPT ![n].sv = "closed"] /\ conn[n].msg = "none" /\ conn[n].cl = "closed"
      /\ pc' = [pc EXCEPT ![s] = pc'[s]] /\ UNCHANGED cur
  BY <1>0 DEF HangUp, IInv, TypeOK
<1>2. /\ \A m \in Conns : m # n => conn'[m] = conn[m]
      /\ conn'[n].sv = "closed" /\ conn'[n].by = conn[n].by /\ conn'[n].cl = conn[n].cl
      /\ conn'[n].msg = conn[n].msg /\ conn'[n].reply = conn[n].reply
  BY <1>1 DEF IInv, TypeOK
<1>3. /\ CallShape(n) /\ conn[n].by \in Actors /\ conn[n].by # "nobody"
  BY <1>0, ServerAssumption DEF ConnInv, CallInv, Shape, Unused, Actors
<1>4. CallInv'
  <2>1. CallShape(n)'
    BY <1>2, <1>3 DEF CallShape, Waiting
  <2>2. cur'["av"] # 0 => pc'["av"] = "forward"
    <3>1. "av" \in DOMAIN pc
      BY DEF IInv, TypeOK, Servers
    <3>2. pc' = [pc EXCEPT ![s] = pc'[s]] /\ cur' = cur
      BY <1>1
    <3>3. s # "av" => pc'["av"] = pc["av"]
      BY <3>1, <3>2
    <3>4. pc[s] = "scan"
      BY <1>0
    <3>5. cur["av"] # 0 => pc["av"] = "forward"
      BY DEF CallInv
    <3> QED BY <3>2, <3>3, <3>4, <3>5
  <2> QED BY <1>2, <2>1, <2>2, OneConnection
<1>5. CallOf(n) = "taken"
  BY <1>0, <1>1, <1>3 DEF CallOf
<1>6. CASE conn[n].reply
  <2>1. CallOf(n)' = CallOf(n)
    BY <1>2, <1>3, <1>5, <1>6 DEF CallOf
  <2> QED BY <1>1, <1>2, <1>4, <2>1, SameCalls
<1>7. CASE ~conn[n].reply
  <2>1. CallOf(n)' = "over"
    BY <1>2, <1>3, <1>7 DEF CallOf
  <2>2. ~Waiting(conn[n].by)
    BY <1>0, <1>1, <1>3, <1>7 DEF CallShape
  <2>3. cur[conn[n].by] # n
    BY <1>1, <1>3 DEF ConnInv, Conns
  <2>4. Calls!Drop(n)
    BY <1>1, <1>2, <1>5, <2>1, <2>2, <2>3, OneCall DEF Calls!Drop
  <2> QED BY <1>4, <2>4 DEF Calls!Next
<1> QED BY <1>6, <1>7

LEMMA StepCalls == RInv /\ CallInv /\ [Next]_vars => CallInv' /\ [Calls!Next]_(Calls!vars)
<1> SUFFICES ASSUME RInv, CallInv, [Next]_vars PROVE CallInv' /\ [Calls!Next]_(Calls!vars)
  OBVIOUS
<1>1. ASSUME NEW p \in Actors, Connect(p) \/ ClientStep(p)
      PROVE  CallInv' /\ [Calls!Next]_(Calls!vars)
  BY <1>1, ConnectCalls, ClientCalls DEF RInv
<1>2. ASSUME NEW s \in Servers, ServerStep(s)
      PROVE  CallInv' /\ [Calls!Next]_(Calls!vars)
  BY <1>2, WaitCalls, AcceptCalls, ServeCalls, HangUpCalls DEF RInv, ServerStep
<1>3. CASE UNCHANGED vars
  BY <1>3 DEF vars, CallInv, CallShape, Waiting, Calls!vars, CallOf
<1> QED BY <1>1, <1>2, <1>3 DEF Next

(* Whatever the order of accepts, reads, answers and closes: a message is  *)
(* processed at most once, a client that waits is there when it is, and    *)
(* goes on only with the answer or because its connection was closed.      *)
THEOREM CallsAreServed == Spec => ServesCalls
<1>1. Init => RInv
  BY InitInv, InitR DEF RInv
<1>2. Init => CallInv /\ Calls!Init
  <2> SUFFICES ASSUME Init PROVE CallInv /\ Calls!Init
    OBVIOUS
  <2>1. /\ \A n \in Conns : conn[n] = Unused
        /\ cur = [p \in Actors |-> 0] /\ "av" \in Actors
    BY DEF Init, Actors
  <2>2. \A n \in Conns : conn[n].by = "nobody" /\ CallOf(n) = "unused"
    BY <2>1 DEF CallOf, Unused
  <2>3. CallInv
    BY <2>1, ServerAssumption DEF CallInv, CallShape, Unused, Waiting
  <2>4. Calls!Init
    BY <2>1, <2>2 DEF Calls!Init, Calls!Nobody
  <2> QED BY <2>3, <2>4
<1> QED BY <1>1, <1>2, NextR, StepCalls, PTL DEF Spec, ServesCalls, Calls!Spec
==============================================================================
