--------------------------- MODULE FramePoolProof ---------------------------
(***************************************************************************)
(* Proofs about FramePool, for every queue length and every set of         *)
(* buffers: first what the operations on lists do to the elements of a     *)
(* list, then the inductive invariant and what follows from it, and last   *)
(* that FramePool implements FrameLending and StreamLife.                  *)
(***************************************************************************)
EXTENDS FramePool, SequenceTheorems, TLAPS

------------------------------------------------------------------------------
(* The operations on lists *)

(* add_to_list: one more element, at the head. *)
LEMMA ConsElements ==
  ASSUME NEW S, NEW s \in Seq(S), NEW x \in S
  PROVE  /\ Cons(x, s) \in Seq(S)
         /\ Len(Cons(x, s)) = Len(s) + 1
         /\ Range(Cons(x, s)) = {x} \cup Range(s)
         /\ IsInjective(s) /\ x \notin Range(s) => IsInjective(Cons(x, s))
<1> DEFINE t == Cons(x, s)
<1>1. /\ t \in Seq(S) /\ Len(t) = Len(s) + 1 /\ t[1] = x
      /\ \A i \in 1 .. Len(s) : t[i + 1] = s[i]
  BY DEF Cons
<1>2. \A i \in DOMAIN t : i = 1 \/ (i - 1 \in DOMAIN s /\ t[i] = s[i - 1])
  <2> SUFFICES ASSUME NEW i \in DOMAIN t, i # 1
               PROVE  i - 1 \in DOMAIN s /\ t[i] = s[i - 1]
    OBVIOUS
  <2> HIDE DEF t
  <2>1. DOMAIN t = 1 .. Len(s) + 1 /\ DOMAIN s = 1 .. Len(s) /\ Len(s) \in Nat
    BY <1>1
  <2>2. i - 1 \in 1 .. Len(s) /\ (i - 1) + 1 = i
    BY <2>1
  <2> QED BY <1>1, <2>1, <2>2
<1>3. Range(t) = {x} \cup Range(s)
  <2>1. Range(t) \subseteq {x} \cup Range(s)
    BY <1>1, <1>2 DEF Range
  <2>2. x \in Range(t)
    BY <1>1 DEF Range
  <2>3. Range(s) \subseteq Range(t)
    <3>1. ASSUME NEW i \in DOMAIN s PROVE s[i] \in Range(t)
      <4>1. i + 1 \in DOMAIN t /\ t[i + 1] = s[i]
        BY <1>1
      <4> QED BY <4>1 DEF Range
    <3> QED BY <3>1 DEF Range
  <2> QED BY <2>1, <2>2, <2>3
<1>4. IsInjective(s) /\ x \notin Range(s) => IsInjective(t)
  BY <1>1, <1>2 DEF IsInjective, Range
<1> QED BY <1>1, <1>3, <1>4

(* remove_from_listhead: the head leaves the list. *)
LEMMA TailElements ==
  ASSUME NEW S, NEW s \in Seq(S), s # <<>>
  PROVE  /\ Head(s) \in S /\ Tail(s) \in Seq(S)
         /\ Len(Tail(s)) = Len(s) - 1
         /\ Range(s) = {Head(s)} \cup Range(Tail(s))
         /\ IsInjective(s) => IsInjective(Tail(s)) /\ Head(s) \notin Range(Tail(s))
<1> DEFINE t == Tail(s)
<1>1. /\ Head(s) = s[1] /\ Head(s) \in S /\ t \in Seq(S) /\ Len(t) = Len(s) - 1
      /\ Len(s) \in Nat /\ Len(s) >= 1
      /\ \A i \in 1 .. Len(t) : t[i] = s[i + 1]
  OBVIOUS
<1>2. \A i \in DOMAIN s : i = 1 \/ (i - 1 \in DOMAIN t /\ s[i] = t[i - 1])
  BY <1>1
<1>3. Range(s) = {Head(s)} \cup Range(t)
  <2>1. Range(s) \subseteq {Head(s)} \cup Range(t)
    <3>1. ASSUME NEW i \in DOMAIN s PROVE s[i] \in {Head(s)} \cup Range(t)
      <4>1. CASE i = 1
        BY <1>1, <4>1
      <4>2. CASE i - 1 \in DOMAIN t /\ s[i] = t[i - 1]
        BY <4>2 DEF Range
      <4> QED BY <1>2, <4>1, <4>2
    <3> QED BY <3>1 DEF Range
  <2>2. Head(s) \in Range(s)
    BY <1>1 DEF Range
  <2>3. Range(t) \subseteq Range(s)
    <3>1. ASSUME NEW i \in DOMAIN t PROVE t[i] \in Range(s)
      <4>1. i + 1 \in DOMAIN s /\ s[i + 1] = t[i]
        BY <1>1
      <4> QED BY <4>1 DEF Range
    <3> QED BY <3>1 DEF Range
  <2> QED BY <2>1, <2>2, <2>3
<1>4. IsInjective(s) => IsInjective(t) /\ Head(s) \notin Range(t)
  <2>1. \A i \in DOMAIN t : i + 1 \in DOMAIN s /\ t[i] = s[i + 1] /\ i + 1 # 1
    BY <1>1
  <2> QED BY <1>1, <2>1 DEF IsInjective, Range
<1> QED BY <1>1, <1>3, <1>4

(* The place of an element behind the removed one, counted from there. *)
LEMMA PastRemoved ==
  ASSUME NEW n \in Nat, NEW i \in 1 .. n, NEW j \in Int,
         j \in 1 .. (i - 1) + (n - i), ~(j < i)
  PROVE  /\ ~(j <= i - 1)
         /\ j - (i - 1) \in 1 .. n - i
         /\ i + (j - (i - 1)) = j + 1
OBVIOUS

(* remove_from_list: the element leaves the list, wherever it is. *)
LEMMA RemoveAtElements ==
  ASSUME NEW S, NEW s \in Seq(S), NEW i \in DOMAIN s
  PROVE  /\ RemoveAt(s, i) \in Seq(S)
         /\ Len(RemoveAt(s, i)) = Len(s) - 1
         /\ IsInjective(s) => /\ IsInjective(RemoveAt(s, i))
                              /\ Range(RemoveAt(s, i)) = Range(s) \ {s[i]}
<1> DEFINE t == RemoveAt(s, i)
<1>0. Len(s) \in Nat /\ i \in 1 .. Len(s)
  OBVIOUS
<1>1. /\ SubSeq(s, 1, i - 1) \in Seq(S) /\ Len(SubSeq(s, 1, i - 1)) = i - 1
      /\ \A j \in 1 .. i - 1 : SubSeq(s, 1, i - 1)[j] = s[j]
  BY <1>0
<1>2. /\ SubSeq(s, i + 1, Len(s)) \in Seq(S)
      /\ Len(SubSeq(s, i + 1, Len(s))) = Len(s) - i
      /\ \A j \in 1 .. Len(s) - i : SubSeq(s, i + 1, Len(s))[j] = s[i + j]
  BY <1>0
<1> DEFINE u == SubSeq(s, 1, i - 1)
           v == SubSeq(s, i + 1, Len(s))
<1>3. /\ t \in Seq(S) /\ Len(t) = Len(s) - 1
      /\ \A j \in 1 .. Len(t) : t[j] = IF j < i THEN s[j] ELSE s[j + 1]
  <2>1. t = u \o v
    BY DEF RemoveAt
  <2> HIDE DEF t, u, v
  <2>2. /\ u \in Seq(S) /\ Len(u) = i - 1 /\ \A j \in 1 .. i - 1 : u[j] = s[j]
        /\ v \in Seq(S) /\ Len(v) = Len(s) - i
        /\ \A j \in 1 .. Len(s) - i : v[j] = s[i + j]
    BY <1>1, <1>2 DEF u, v
  <2>3. /\ t \in Seq(S) /\ Len(t) = Len(u) + Len(v)
        /\ \A j \in 1 .. Len(u) + Len(v) :
             t[j] = IF j <= Len(u) THEN u[j] ELSE v[j - Len(u)]
    BY <2>1, <2>2, ConcatProperties
  <2>4. ASSUME NEW j \in 1 .. Len(t)
        PROVE  t[j] = IF j < i THEN s[j] ELSE s[j + 1]
    <3>0. j \in Int /\ j \in 1 .. Len(u) + Len(v)
      BY <1>0, <2>2, <2>3
    <3>1. CASE j < i
      <4>1. j <= Len(u) /\ j \in 1 .. i - 1
        BY <1>0, <2>2, <3>0, <3>1
      <4> QED BY <2>2, <2>3, <3>0, <3>1, <4>1
    <3>2. CASE ~(j < i)
      <4> DEFINE m == j - (i - 1)
      <4>0. Len(u) = i - 1 /\ Len(v) = Len(s) - i /\ i \in Int /\ Len(s) \in Int
        BY <1>0, <2>2
      <4>1. /\ ~(j <= i - 1) /\ j \in 1 .. (i - 1) + (Len(s) - i)
            /\ m \in 1 .. Len(s) - i /\ i + m = j + 1
        <5>1. j \in 1 .. (i - 1) + (Len(s) - i)
          BY <3>0, <4>0
        <5> QED BY <1>0, <3>0, <3>2, <5>1, PastRemoved
      <4>2. t[j] = v[m]
        BY <2>3, <4>0, <4>1
      <4> HIDE DEF m
      <4>3. v[m] = s[i + m]
        BY <2>2, <4>1
      <4> QED BY <3>2, <4>1, <4>2, <4>3
    <3> QED BY <3>1, <3>2
  <2> QED BY <1>0, <2>2, <2>3, <2>4
<1>4. ASSUME IsInjective(s)
      PROVE  IsInjective(t) /\ Range(t) = Range(s) \ {s[i]}
  <2>1. \A j \in DOMAIN t : \E k \in DOMAIN s : /\ t[j] = s[k] /\ k # i
                                                /\ k = IF j < i THEN j ELSE j + 1
    BY <1>0, <1>3
  <2>2. \A k \in DOMAIN s : k # i => \E j \in DOMAIN t : t[j] = s[k]
    <3> SUFFICES ASSUME NEW k \in DOMAIN s, k # i PROVE \E j \in DOMAIN t : t[j] = s[k]
      OBVIOUS
    <3>1. CASE k < i
      <4>1. k \in DOMAIN t /\ t[k] = s[k]
        BY <1>0, <1>3, <3>1
      <4> QED BY <4>1
    <3>2. CASE k > i
      <4>1. k - 1 \in DOMAIN t /\ t[k - 1] = s[k]
        BY <1>0, <1>3, <3>2
      <4> QED BY <4>1
    <3> QED BY <1>0, <3>1, <3>2
  <2>3. IsInjective(t)
    BY <2>1, <1>4, <1>0, <1>3 DEF IsInjective
  <2>4. Range(t) = Range(s) \ {s[i]}
    BY <2>1, <2>2, <1>4, <1>0 DEF IsInjective, Range
  <2> QED BY <2>3, <2>4
<1> QED BY <1>3, <1>4

(* The librtsp queue: one more element, at the end. *)
LEMMA AppendElements ==
  ASSUME NEW S, NEW s \in Seq(S), NEW x \in S
  PROVE  /\ Append(s, x) \in Seq(S)
         /\ Len(Append(s, x)) = Len(s) + 1
         /\ Range(Append(s, x)) = Range(s) \cup {x}
         /\ IsInjective(s) /\ x \notin Range(s) => IsInjective(Append(s, x))
<1> DEFINE t == Append(s, x)
<1>1. /\ t \in Seq(S) /\ Len(t) = Len(s) + 1 /\ t[Len(s) + 1] = x
      /\ \A i \in 1 .. Len(s) : t[i] = s[i]
  OBVIOUS
<1>2. \A i \in DOMAIN t : i = Len(s) + 1 \/ (i \in DOMAIN s /\ t[i] = s[i])
  BY <1>1
<1>3. \A i \in DOMAIN s : i \in DOMAIN t
  BY <1>1
<1>4. Len(s) + 1 \in DOMAIN t
  BY <1>1
<1>5. Range(t) = Range(s) \cup {x}
  BY <1>1, <1>2, <1>3, <1>4 DEF Range
<1>6. IsInjective(s) /\ x \notin Range(s) => IsInjective(t)
  BY <1>1, <1>2 DEF IsInjective, Range
<1> QED BY <1>1, <1>5, <1>6

(* An empty list has no elements, and only an empty list has none. *)
LEMMA EmptyElements ==
  /\ Range(<<>>) = {} /\ IsInjective(<<>>) /\ Len(<<>>) = 0
  /\ \A S : \A s \in Seq(S) : Range(s) = {} => s = <<>>
<1>1. Range(<<>>) = {} /\ IsInjective(<<>>) /\ Len(<<>>) = 0
  BY DEF Range, IsInjective
<1>2. ASSUME NEW S, NEW s \in Seq(S), Range(s) = {}
      PROVE  s = <<>>
  <2>1. Len(s) \in Nat /\ DOMAIN s = 1 .. Len(s)
    OBVIOUS
  <2>2. \A i \in DOMAIN s : FALSE
    BY <1>2 DEF Range
  <2>3. Len(s) = 0
    <3>1. CASE Len(s) >= 1
      <4>1. 1 \in DOMAIN s
        BY <2>1, <3>1
      <4> QED BY <2>2, <4>1
    <3> QED BY <2>1, <3>1
  <2> QED BY <2>3
<1> QED BY <1>1, <1>2

(* The elements of a list come from the set it is a list over. *)
LEMMA ElementsInSet ==
  ASSUME NEW S, NEW s \in Seq(S)
  PROVE  Range(s) \subseteq S
<1>1. \A i \in DOMAIN s : s[i] \in S
  OBVIOUS
<1> QED BY <1>1 DEF Range

(* Two lists one after the other. *)
LEMMA ConcatElements ==
  ASSUME NEW S, NEW s \in Seq(S), NEW t \in Seq(S)
  PROVE  /\ Range(s \o t) = Range(s) \cup Range(t)
         /\ IsInjective(s) /\ IsInjective(t) /\ Range(s) \cap Range(t) = {}
              => IsInjective(s \o t)
<1> DEFINE u == s \o t
<1>1. /\ u \in Seq(S) /\ Len(u) = Len(s) + Len(t)
      /\ \A i \in 1 .. Len(s) + Len(t) :
           u[i] = IF i <= Len(s) THEN s[i] ELSE t[i - Len(s)]
  BY ConcatProperties
<1>2. Len(s) \in Nat /\ Len(t) \in Nat
  OBVIOUS
<1> HIDE DEF u
<1>3. ASSUME NEW i \in DOMAIN u
      PROVE  \/ i \in DOMAIN s /\ u[i] = s[i]
             \/ i - Len(s) \in DOMAIN t /\ u[i] = t[i - Len(s)]
  <2>1. i \in 1 .. Len(s) + Len(t)
    BY <1>1, <1>2
  <2>2. CASE i <= Len(s)
    BY <1>1, <1>2, <2>1, <2>2
  <2>3. CASE ~(i <= Len(s))
    <3>1. u[i] = t[i - Len(s)]
      BY <1>1, <2>1, <2>3
    <3>2. i - Len(s) \in 1 .. Len(t)
      BY <1>2, <2>1, <2>3
    <3> QED BY <3>1, <3>2
  <2> QED BY <2>2, <2>3
<1>4. \A i \in DOMAIN s : i \in DOMAIN u /\ u[i] = s[i]
  BY <1>1, <1>2
<1>5. ASSUME NEW i \in DOMAIN t PROVE i + Len(s) \in DOMAIN u /\ u[i + Len(s)] = t[i]
  <2>1. i \in Nat /\ i >= 1 /\ i <= Len(t)
    BY <1>2
  <2>2. /\ i + Len(s) \in 1 .. Len(s) + Len(t) /\ ~(i + Len(s) <= Len(s))
        /\ (i + Len(s)) - Len(s) = i
    BY <1>2, <2>1, SMT
  <2> DEFINE m == i + Len(s)
  <2>3. m \in 1 .. Len(s) + Len(t) /\ ~(m <= Len(s)) /\ m - Len(s) = i
    BY <2>2
  <2> HIDE DEF m
  <2>4. m \in DOMAIN u /\ u[m] = t[i]
    BY <1>1, <1>2, <2>3
  <2> QED BY <2>4 DEF m
<1>6. Range(u) = Range(s) \cup Range(t)
  <2>1. Range(u) \subseteq Range(s) \cup Range(t)
    BY <1>3 DEF Range
  <2>2. Range(s) \subseteq Range(u)
    BY <1>4 DEF Range
  <2>3. Range(t) \subseteq Range(u)
    BY <1>5 DEF Range
  <2> QED BY <2>1, <2>2, <2>3
<1>7. ASSUME IsInjective(s), IsInjective(t), Range(s) \cap Range(t) = {}
      PROVE  IsInjective(u)
  <2> SUFFICES ASSUME NEW i \in DOMAIN u, NEW j \in DOMAIN u, u[i] = u[j] PROVE i = j
    BY DEF IsInjective
  <2>0. i \in Int /\ j \in Int
    BY <1>1
  <2>1. CASE i \in DOMAIN s /\ u[i] = s[i] /\ j \in DOMAIN s /\ u[j] = s[j]
    BY <1>7, <2>1 DEF IsInjective
  <2>2. CASE /\ i - Len(s) \in DOMAIN t /\ u[i] = t[i - Len(s)]
             /\ j - Len(s) \in DOMAIN t /\ u[j] = t[j - Len(s)]
    <3>1. i - Len(s) = j - Len(s)
      BY <1>7, <2>2 DEF IsInjective
    <3> QED BY <1>2, <2>0, <3>1
  <2>3. CASE i \in DOMAIN s /\ u[i] = s[i] /\ j - Len(s) \in DOMAIN t /\ u[j] = t[j - Len(s)]
    BY <1>7, <2>3 DEF Range
  <2>4. CASE i - Len(s) \in DOMAIN t /\ u[i] = t[i - Len(s)] /\ j \in DOMAIN s /\ u[j] = s[j]
    BY <1>7, <2>4 DEF Range
  <2> QED BY <1>3, <2>1, <2>2, <2>3, <2>4
<1> QED BY <1>6, <1>7 DEF u

(* A list of one element. *)
LEMMA OneElement ==
  ASSUME NEW S, NEW x \in S
  PROVE  <<x>> \in Seq(S) /\ Range(<<x>>) = {x} /\ IsInjective(<<x>>)
<1>1. <<x>> \in Seq(S) /\ DOMAIN <<x>> = {1} /\ <<x>>[1] = x
  OBVIOUS
<1>2. Range(<<x>>) = {x}
  BY <1>1 DEF Range
<1>3. IsInjective(<<x>>)
  BY <1>1 DEF IsInjective
<1> QED BY <1>1, <1>2, <1>3

------------------------------------------------------------------------------
(* init_video_frame: every slot is in avail, once. *)
LEMMA FreshElements ==
  LET a == Reverse([i \in Slots |-> i])
  IN  /\ a \in Seq(Slots) /\ Len(a) = VIDEO_FRAME_NUMBER
      /\ Range(a) = Slots /\ IsInjective(a)
<1> DEFINE a == Reverse([i \in Slots |-> i])
<1>1. VIDEO_FRAME_NUMBER \in Nat
  BY PoolAssumption DEF VIDEO_FRAME_NUMBER
<1>2. [i \in Slots |-> i] \in Seq(Slots) /\ Len([i \in Slots |-> i]) = VIDEO_FRAME_NUMBER
  BY <1>1 DEF Slots
<1>3. a = [i \in Slots |-> (VIDEO_FRAME_NUMBER - i) + 1]
  BY <1>1, <1>2 DEF Reverse, Slots
<1>4. a \in Seq(Slots) /\ Len(a) = VIDEO_FRAME_NUMBER
  BY <1>1, <1>3 DEF Slots
<1>5. \A i \in Slots : (VIDEO_FRAME_NUMBER - i) + 1 \in Slots /\ a[(VIDEO_FRAME_NUMBER - i) + 1] = i
  BY <1>1, <1>3 DEF Slots
<1>6. Range(a) = Slots
  <2>1. DOMAIN a = Slots /\ \A i \in DOMAIN a : a[i] \in Slots
    BY <1>1, <1>3 DEF Slots
  <2>2. \A x \in Slots : \E i \in DOMAIN a : a[i] = x
    BY <1>5, <2>1
  <2> QED BY <2>1, <2>2 DEF Range
<1>7. IsInjective(a)
  <2> SUFFICES ASSUME NEW i \in Slots, NEW j \in Slots, a[i] = a[j]
               PROVE  i = j
    BY <1>3 DEF IsInjective
  <2>1. i \in Int /\ j \in Int /\ (VIDEO_FRAME_NUMBER - i) + 1 = (VIDEO_FRAME_NUMBER - j) + 1
    BY <1>1, <1>3 DEF Slots
  <2> QED BY <1>1, <2>1
<1> QED BY <1>4, <1>6, <1>7

------------------------------------------------------------------------------
(* The inductive invariant *)

(* A thread has a buffer or a slot in hand exactly where its code does. *)
HandInv ==
  /\ (data # NoBuf) <=> enq \notin {"event", "poll"}
  /\ (fs # NoSlot) <=> enq \in {"fill", "enqueue", "putback"}
  /\ (cbfs # NoSlot) <=> cb # "idle"

(* The hooks say what is open, and START waits for a closed stream only. *)
HookInv ==
  /\ hooks \/ pool = "ready" => closeHook /\ enabled
  /\ event = "START" => ~hooks /\ pool # "ready"

(* The two lists share out the slots of an open pool. *)
ListInv ==
  IF pool = "ready"
  THEN /\ Range(avail) \cup Range(used) = Slots
       /\ Range(avail) \cap Range(used) = {}
       /\ IsInjective(avail) /\ IsInjective(used)
       /\ Len(avail) + Len(used) = VIDEO_FRAME_NUMBER
  ELSE avail = <<>> /\ used = <<>>

(* The slots of the frames the library holds: used, in no thread's hand. *)
Recorded == Range(used) \ {fs, cbfs}

One(P) == IF P THEN 1 ELSE 0

(* Those slots and the library's frames correspond one to one. *)
RecordInv ==
  /\ {key[s] : s \in Recorded} = Range(libq)
  /\ \A s, t \in Recorded : key[s] = key[t] => s = t
  /\ IsInjective(libq)
  /\ Len(used) = Len(libq) + One(fs # NoSlot) + One(cbfs # NoSlot)
  /\ HeldWhileSent => Len(libq) + One(cbfs # NoSlot) <= VQ_LEN
  /\ Recorded \cap fresh = {}

(* A slot in a thread's hand is in use; two threads never hold the same. *)
OwnerInv ==
  /\ fs # NoSlot => fs \in Range(used) /\ fs # cbfs
  /\ cbfs # NoSlot => cbfs \in Range(used)
  /\ enq \in {"enqueue", "putback"} => key[fs] = data /\ fs \notin fresh

(* Every buffer out of the driver is in one place. *)
Freeing == IF cb = "free" THEN {key[cbfs]} ELSE {}
BufferInv ==
  /\ held = Range(libq) \cup ({data} \ {NoBuf}) \cup Freeing
  /\ data \notin Range(libq) \cup Freeing
  /\ Range(libq) \cap Freeing = {} /\ NoBuf \notin Freeing

IInv ==
  /\ TypeOK /\ HandInv /\ HookInv /\ CrashCauses
  /\ Sound => ListInv /\ RecordInv /\ OwnerInv /\ BufferInv

------------------------------------------------------------------------------
(* Every step preserves it: one lemma for each kind of step. *)


LEMMA InitInv == Init => IInv
<1> SUFFICES ASSUME Init PROVE IInv
  OBVIOUS
<1>1. TypeOK
  <2>1. avail \in Seq(Slots) /\ used \in Seq(Slots) /\ libq \in Seq(Bufs)
    BY EmptySeq DEF Init
  <2>2. key \in [Slots -> Bufs \cup {NoBuf}] /\ held \subseteq Bufs /\ fresh \subseteq Slots
    BY DEF Init
  <2> QED BY <2>1, <2>2 DEF Init, TypeOK, PoolStates, EnqStates
<1>2. HandInv /\ HookInv /\ CrashCauses
  BY DEF Init, HandInv, HookInv, CrashCauses
<1>3. Range(used) = {} /\ Range(libq) = {} /\ Recorded = {} /\ IsInjective(libq)
  BY EmptyElements DEF Init, Recorded
<1>4. RecordInv
  BY <1>3, PoolAssumption DEF Init, RecordInv, One
<1>5. ListInv /\ OwnerInv /\ BufferInv
  BY <1>3 DEF Init, ListInv, OwnerInv, BufferInv, Freeing
<1> QED BY <1>1, <1>2, <1>4, <1>5 DEF IInv

(* Steps that touch neither the lists nor the queue nor a buffer. *)
LEMMA QuietStep ==
  ASSUME IInv, crash = "none",
         NoEvent \/ UpdateWaits \/ StopWaits \/ PollNothing \/ CheckEvent \/ CheckPlay
         \/ (\E e \in ControlEvents : PostEvent(e)) \/ (\E p \in {0, 1} : SetPlay(p))
  PROVE  IInv'
<1>1. UNCHANGED <<listVars, held, libq, closeHook, enabled, pool, data, fs, cbVars, mishit, crash>>
  BY DEF NoEvent, UpdateWaits, StopWaits, PollNothing, CheckEvent, CheckPlay,
         PostEvent, SetPlay, streamVars, enqVars
<1>2. TypeOK'
  <2>1. enq' \in EnqStates
    BY DEF IInv, TypeOK, NoEvent, UpdateWaits, StopWaits, PollNothing, CheckEvent,
           CheckPlay, PostEvent, SetPlay, enqVars, EnqAt, EnqStates
  <2>2. event' \in {"NONE", "START", "UPDATE", "STOP"}
    BY PoolAssumption
       DEF IInv, TypeOK, NoEvent, UpdateWaits, StopWaits, PollNothing, CheckEvent,
           CheckPlay, PostEvent, SetPlay, streamVars
  <2>3. play' \in {0, 1} /\ hooks' \in BOOLEAN
    BY DEF IInv, TypeOK, NoEvent, UpdateWaits, StopWaits, PollNothing, CheckEvent,
           CheckPlay, PostEvent, SetPlay, streamVars
  <2> QED BY <1>1, <2>1, <2>2, <2>3 DEF IInv, TypeOK, listVars, cbVars
<1>3. HandInv'
  BY <1>1 DEF IInv, HandInv, NoEvent, UpdateWaits, StopWaits, PollNothing, CheckEvent,
         CheckPlay, PostEvent, SetPlay, enqVars, cbVars, EnqAt
<1>4. HookInv'
  BY <1>1 DEF IInv, HookInv, NoEvent, UpdateWaits, StopWaits, PollNothing, CheckEvent,
         CheckPlay, PostEvent, SetPlay, streamVars
<1>5. CrashCauses'
  BY <1>1 DEF IInv, CrashCauses
<1>6. ASSUME Sound' PROVE ListInv' /\ RecordInv' /\ OwnerInv' /\ BufferInv'
  <2>1. ListInv /\ RecordInv /\ OwnerInv /\ BufferInv
    BY <1>1, <1>6 DEF Sound, IInv
  <2>2. ListInv' /\ RecordInv' /\ BufferInv'
    BY <1>1, <2>1 DEF ListInv, RecordInv, BufferInv, Recorded, Freeing, listVars, cbVars
  <2>3. enq' \in {"enqueue", "putback"} => enq = enq'
    BY DEF NoEvent, UpdateWaits, StopWaits, PollNothing, CheckEvent, CheckPlay,
           PostEvent, SetPlay, enqVars, EnqAt
  <2>4. OwnerInv'
    BY <1>1, <2>1, <2>3 DEF OwnerInv, listVars, cbVars
  <2> QED BY <2>2, <2>4
<1> QED BY <1>2, <1>3, <1>4, <1>5, <1>6 DEF IInv

(* A stream that is drained has no frame in the library or a callback. *)
LEMMA Drained ==
  ASSUME IInv, Sound, enq = "event", used = <<>>
  PROVE  libq = <<>> /\ fs = NoSlot /\ cbfs = NoSlot /\ cb = "idle" /\ data = NoBuf
<1>1. Range(used) = {} /\ Recorded = {}
  BY EmptyElements DEF Recorded
<1>2. fs = NoSlot /\ data = NoBuf
  BY DEF IInv, HandInv
<1>3. cbfs = NoSlot /\ cb = "idle"
  BY <1>1 DEF IInv, OwnerInv, HandInv
<1>4. Range(libq) = {}
  BY <1>1 DEF IInv, RecordInv
<1> QED BY <1>2, <1>3, <1>4, EmptyElements DEF IInv, TypeOK

(* Opening and closing leave the lists of a new pool, or none. *)
LEMMA NewLists ==
  ASSUME TypeOK, OpenLiveStreaming \/ CloseLiveStreaming
  PROVE  /\ used' = <<>> /\ libq' = <<>>
         /\ avail' \in Seq(Slots) /\ used' \in Seq(Slots) /\ libq' \in Seq(Bufs)
         /\ key' \in [Slots -> Bufs \cup {NoBuf}] /\ fresh' \subseteq Slots
         /\ pool' \in PoolStates /\ ListInv'
<1>1. used' = <<>> /\ libq' = <<>> /\ used' \in Seq(Slots) /\ libq' \in Seq(Bufs)
  BY EmptySeq DEF OpenLiveStreaming, CloseLiveStreaming
<1>2. CASE /\ OpenLiveStreaming /\ pool' = "ready"
  <2>1. avail' = Reverse([j \in Slots |-> j]) /\ key' \in [Slots -> HeapKeys] /\ fresh' = Slots
    BY <1>2 DEF OpenLiveStreaming
  <2>2. /\ avail' \in Seq(Slots) /\ Len(avail') = VIDEO_FRAME_NUMBER
        /\ Range(avail') = Slots /\ IsInjective(avail')
    BY <2>1, FreshElements
  <2>3. key' \in [Slots -> Bufs \cup {NoBuf}]
    BY <2>1, PoolAssumption
  <2>4. ListInv'
    <3>1. Len(avail') + Len(used') = VIDEO_FRAME_NUMBER
      BY <1>1, <2>2, EmptyElements, PoolAssumption DEF VIDEO_FRAME_NUMBER
    <3> QED BY <1>1, <1>2, <2>2, <3>1, EmptyElements DEF ListInv
  <2> QED BY <1>1, <1>2, <2>1, <2>2, <2>3, <2>4 DEF PoolStates
<1>3. CASE pool' # "ready"
  <2>1. /\ avail' = <<>> /\ UNCHANGED <<key, fresh>>
        /\ pool' \in {"failed", "none", "stale"}
    BY <1>3 DEF OpenLiveStreaming, CloseLiveStreaming
  <2>2. avail' \in Seq(Slots)
    BY <2>1, EmptySeq
  <2> QED BY <1>1, <1>3, <2>1, <2>2 DEF TypeOK, PoolStates, ListInv
<1> QED BY <1>2, <1>3 DEF CloseLiveStreaming

(* The events that open or close the stream. *)
LEMMA EventStep ==
  ASSUME IInv, crash = "none", StartEvent \/ UpdateEvent \/ StopEvent
  PROVE  IInv'
<1>1. /\ enq = "event" /\ enq' = "poll" /\ event' = "NONE"
      /\ UNCHANGED <<held, play, data, fs, cb, cbfs, mishit>>
  BY DEF StartEvent, UpdateEvent, StopEvent, EnqAt, cbVars
<1>2. \/ OpenLiveStreaming \/ CloseLiveStreaming
      \/ UNCHANGED <<avail, used, key, fresh, libq, pool>>
  BY DEF StartEvent, UpdateEvent, StopEvent, listVars
<1>3. /\ hooks' \in BOOLEAN /\ closeHook' \in BOOLEAN /\ enabled' \in BOOLEAN
      /\ crash' \in {"none", "close"}
  BY DEF StartEvent, UpdateEvent, StopEvent, IInv, TypeOK
<1>4. TypeOK'
  <2>1. CASE OpenLiveStreaming \/ CloseLiveStreaming
    BY <1>1, <1>3, <2>1, NewLists DEF IInv, TypeOK, EnqStates
  <2>2. CASE UNCHANGED <<avail, used, key, fresh, libq, pool>>
    BY <1>1, <1>3, <2>2 DEF IInv, TypeOK, EnqStates
  <2> QED BY <1>2, <2>1, <2>2
<1>5. HandInv'
  BY <1>1 DEF IInv, HandInv
<1>6. HookInv'
  <2>1. CASE StartEvent
    BY <2>1, <1>1 DEF StartEvent, IInv, HookInv, TypeOK, listVars
  <2>2. CASE UpdateEvent
    BY <2>2, <1>1 DEF UpdateEvent, CloseLiveStreaming, IInv, HookInv, TypeOK, listVars
  <2>3. CASE StopEvent
    BY <2>3, <1>1 DEF StopEvent, CloseLiveStreaming, IInv, HookInv, TypeOK, listVars
  <2> QED BY <2>1, <2>2, <2>3
<1>7. CrashCauses'
  BY <1>3 DEF CrashCauses
<1>8. ASSUME Sound' PROVE ListInv' /\ RecordInv' /\ OwnerInv' /\ BufferInv'
  <2>1. Sound /\ ListInv /\ RecordInv /\ OwnerInv /\ BufferInv
    BY <1>1, <1>8 DEF Sound, IInv
  <2>2. CASE UNCHANGED <<avail, used, key, fresh, libq, pool>>
    BY <1>1, <2>1, <2>2
       DEF ListInv, RecordInv, OwnerInv, BufferInv, Recorded, Freeing
  <2>3. CASE OpenLiveStreaming \/ CloseLiveStreaming
    <3>1. used' = <<>> /\ libq' = <<>> /\ ListInv'
      BY <2>3, NewLists DEF IInv
    <3>2. CASE UNCHANGED <<avail, used, key, fresh, libq, pool>>
      BY <2>2, <3>2
    <3>3. CASE ~UNCHANGED <<avail, used, key, fresh, libq, pool>>
      <4>1. used = <<>>
        BY <2>1, <3>3 DEF NoneUsed, StartEvent, UpdateEvent, StopEvent, ListInv, HookInv, IInv, listVars
      <4>2. /\ libq = <<>> /\ fs = NoSlot /\ cbfs = NoSlot /\ cb = "idle" /\ data = NoBuf
        BY <1>1, <2>1, <4>1, Drained
      <4>3. Range(used') = {} /\ Range(libq') = {} /\ Range(libq) = {}
        BY <3>1, <4>2, EmptyElements
      <4>4. RecordInv'
        BY <1>1, <3>1, <4>2, <4>3, EmptyElements, PoolAssumption DEF RecordInv, Recorded, One
      <4>5. OwnerInv' /\ BufferInv'
        BY <1>1, <2>1, <4>2, <4>3 DEF OwnerInv, BufferInv, Freeing
      <4> QED BY <3>1, <4>4, <4>5
    <3> QED BY <3>2, <3>3
  <2> QED BY <1>2, <2>2, <2>3
<1> QED BY <1>4, <1>5, <1>6, <1>7, <1>8 DEF IInv

(* get_bs_data: the buffer was the driver's, so it is nowhere else. *)
LEMMA GetStep ==
  ASSUME IInv, crash = "none", NEW b \in Bufs, GetBsData(b)
  PROVE  IInv'
<1>1. /\ enq = "poll" /\ enq' = "write" /\ data' = b /\ held' = held \cup {b}
      /\ b \notin held /\ data = NoBuf /\ fs = NoSlot
      /\ UNCHANGED <<avail, used, key, fresh, libq, play, event, hooks, closeHook,
                     enabled, pool, fs, cb, cbfs, mishit, crash>>
  BY DEF GetBsData, EnqAt, IInv, HandInv, listVars, streamVars, cbVars
<1>2. b # NoBuf
  BY PoolAssumption
<1>3. TypeOK'
  BY <1>1 DEF IInv, TypeOK, EnqStates
<1>4. HandInv' /\ HookInv' /\ CrashCauses'
  BY <1>1, <1>2 DEF IInv, HandInv, HookInv, CrashCauses
<1>5. ASSUME Sound' PROVE ListInv' /\ RecordInv' /\ OwnerInv' /\ BufferInv'
  <2>1. ListInv /\ RecordInv /\ OwnerInv /\ BufferInv
    BY <1>1, <1>5 DEF Sound, IInv
  <2>2. ListInv' /\ RecordInv' /\ OwnerInv'
    BY <1>1, <2>1 DEF ListInv, RecordInv, OwnerInv, Recorded
  <2>3. BufferInv'
    BY <1>1, <1>2, <2>1 DEF BufferInv, Freeing
  <2> QED BY <2>2, <2>3
<1> QED BY <1>3, <1>4, <1>5 DEF IInv

(* take_video_frame: the counts show that avail cannot be empty. *)
LEMMA TakeStep ==
  ASSUME IInv, crash = "none", TakeVideoFrame
  PROVE  IInv'
<1>1. /\ enq = "take" /\ fs = NoSlot /\ data # NoBuf
      /\ UNCHANGED <<key, fresh, held, libq, play, event, hooks, closeHook,
                     enabled, pool, data, cb, cbfs, mishit>>
  BY DEF TakeVideoFrame, EnqAt, IInv, HandInv, streamVars, cbVars
<1>2. CASE avail = <<>>
  <2>1. enq' = "take" /\ crash' = "take" /\ UNCHANGED <<fs, avail, used>>
    BY <1>2 DEF TakeVideoFrame, EnqAt
  <2>2. TypeOK' /\ HandInv' /\ HookInv'
    BY <1>1, <2>1 DEF IInv, TypeOK, HandInv, HookInv
  <2>3. mishit \/ pool # "ready" \/ ~HeldWhileSent
    <3> SUFFICES ASSUME ~mishit, pool = "ready", HeldWhileSent PROVE FALSE
      OBVIOUS
    <3>1. ListInv /\ RecordInv
      BY DEF Sound, IInv
    <3>2. Len(avail) = 0 /\ Len(used) \in Nat /\ Len(libq) \in Nat
      BY <1>2, EmptyElements DEF IInv, TypeOK
    <3>3. Len(used) = VQ_LEN + 1
      BY <3>1, <3>2, PoolAssumption DEF ListInv, VIDEO_FRAME_NUMBER
    <3>4. Len(used) <= VQ_LEN
      BY <1>1, <3>1, <3>2 DEF RecordInv, One
    <3> QED BY <3>3, <3>4, PoolAssumption
  <2>4. CrashCauses'
    BY <1>1, <2>1, <2>3 DEF CrashCauses
  <2>5. ~Sound'
    BY <2>1 DEF Sound
  <2> QED BY <2>2, <2>4, <2>5 DEF IInv
<1>3. CASE avail # <<>>
  <2> DEFINE s == Head(avail)
  <2>1. /\ enq' = "fill" /\ fs' = s /\ avail' = Tail(avail) /\ used' = Cons(s, used)
        /\ UNCHANGED crash
    BY <1>3 DEF TakeVideoFrame, EnqAt
  <2>2. /\ s \in Slots /\ avail' \in Seq(Slots) /\ Len(avail') = Len(avail) - 1
        /\ Range(avail) = {s} \cup Range(avail')
        /\ IsInjective(avail) => IsInjective(avail') /\ s \notin Range(avail')
    BY <1>3, <2>1, TailElements DEF IInv, TypeOK
  <2>3. /\ used' \in Seq(Slots) /\ Len(used') = Len(used) + 1
        /\ Range(used') = {s} \cup Range(used)
        /\ IsInjective(used) /\ s \notin Range(used) => IsInjective(used')
    BY <2>1, <2>2, ConsElements DEF IInv, TypeOK
  <2> HIDE DEF s
  <2>4. s # NoSlot
    BY <2>2, PoolAssumption DEF Slots, NoSlot, VIDEO_FRAME_NUMBER
  <2>5. TypeOK'
    BY <1>1, <2>1, <2>2, <2>3 DEF IInv, TypeOK, EnqStates
  <2>6. HandInv' /\ HookInv' /\ CrashCauses'
    BY <1>1, <2>1, <2>4 DEF IInv, HandInv, HookInv, CrashCauses
  <2>7. ASSUME Sound' PROVE ListInv' /\ RecordInv' /\ OwnerInv' /\ BufferInv'
    <3>1. ListInv /\ RecordInv /\ OwnerInv /\ BufferInv
      BY <1>1, <2>1, <2>7 DEF Sound, IInv
    <3>2. pool = "ready" /\ s \notin Range(used)
      BY <1>3, <2>2, <3>1 DEF ListInv
    <3>3. Len(avail) \in Nat /\ Len(used) \in Nat /\ Len(libq) \in Nat
      BY DEF IInv, TypeOK
    <3>4. ListInv'
      <4>1. Len(avail') + Len(used') = VIDEO_FRAME_NUMBER
        BY <2>2, <2>3, <3>1, <3>2, <3>3 DEF ListInv
      <4> QED BY <1>1, <2>2, <2>3, <3>1, <3>2, <4>1 DEF ListInv
    <3>5. NoSlot \notin Range(used) /\ s # cbfs
      BY <1>1, <2>4, <3>1, <3>2, ElementsInSet, PoolAssumption
         DEF OwnerInv, IInv, TypeOK, Slots, NoSlot, VIDEO_FRAME_NUMBER
    <3>6. Recorded' = Recorded
      BY <1>1, <2>1, <2>3, <3>2, <3>5 DEF Recorded
    <3>7. RecordInv'
      <4>1. Len(used') = Len(libq') + One(fs' # NoSlot) + One(cbfs' # NoSlot)
        BY <1>1, <2>1, <2>3, <2>4, <3>1, <3>3 DEF RecordInv, One
      <4> QED BY <1>1, <3>1, <3>6, <4>1 DEF RecordInv
    <3>8. OwnerInv'
      BY <1>1, <2>1, <2>3, <3>1, <3>5 DEF OwnerInv
    <3>9. BufferInv'
      BY <1>1, <3>1 DEF BufferInv, Freeing
    <3> QED BY <3>4, <3>7, <3>8, <3>9
  <2> QED BY <2>5, <2>6, <2>7 DEF IInv
<1> QED BY <1>2, <1>3

(* The slot in enq_thread's hand gets its key. *)
LEMMA FillStep ==
  ASSUME IInv, crash = "none", FillSlot
  PROVE  IInv'
<1>1. /\ enq = "fill" /\ enq' = "enqueue" /\ fs \in Slots /\ fs # NoSlot
      /\ data # NoBuf /\ data \in Bufs
      /\ key' = [key EXCEPT ![fs] = data] /\ fresh' = fresh \ {fs}
      /\ UNCHANGED <<avail, used, held, libq, play, event, hooks, closeHook,
                     enabled, pool, data, fs, cb, cbfs, mishit, crash>>
  BY DEF FillSlot, EnqAt, IInv, TypeOK, HandInv, streamVars, cbVars
<1>2. /\ key' \in [Slots -> Bufs \cup {NoBuf}] /\ key'[fs] = data
      /\ \A s \in Slots \ {fs} : key'[s] = key[s]
  BY <1>1 DEF IInv, TypeOK
<1>3. TypeOK'
  BY <1>1, <1>2 DEF IInv, TypeOK, EnqStates
<1>4. HandInv' /\ HookInv' /\ CrashCauses'
  BY <1>1 DEF IInv, HandInv, HookInv, CrashCauses
<1>5. ASSUME Sound' PROVE ListInv' /\ RecordInv' /\ OwnerInv' /\ BufferInv'
  <2>1. ListInv /\ RecordInv /\ OwnerInv /\ BufferInv
    BY <1>1, <1>5 DEF Sound, IInv
  <2>2. Recorded' = Recorded /\ Recorded \subseteq Slots \ {fs}
    BY <1>1, ElementsInSet DEF Recorded, IInv, TypeOK
  <2>3. {key'[s] : s \in Recorded} = {key[s] : s \in Recorded}
    BY <1>2, <2>2
  <2>4. \A s, t \in Recorded : key'[s] = key'[t] => s = t
    BY <1>2, <2>1, <2>2 DEF RecordInv
  <2>5. RecordInv'
    BY <1>1, <2>1, <2>2, <2>3, <2>4 DEF RecordInv
  <2>6. ListInv' /\ OwnerInv'
    BY <1>1, <1>2, <2>1 DEF ListInv, OwnerInv
  <2>7. cb = "free" => cbfs \in Slots \ {fs}
    BY <1>1, <2>1 DEF OwnerInv, IInv, TypeOK, HandInv
  <2>8. Freeing' = Freeing
    BY <1>1, <1>2, <2>7 DEF Freeing
  <2>9. BufferInv'
    BY <1>1, <2>1, <2>8 DEF BufferInv
  <2> QED BY <2>5, <2>6, <2>9
<1> QED BY <1>3, <1>4, <1>5 DEF IInv

(* stream_media_enqueue: the slot goes from the thread to the library. *)
LEMMA EnqueueStep ==
  ASSUME IInv, crash = "none", Enqueue
  PROVE  IInv'
<1>1. /\ enq = "enqueue" /\ fs \in Slots /\ fs # NoSlot
      /\ data # NoBuf /\ data \in Bufs
      /\ UNCHANGED <<avail, used, key, fresh, held, play, event, hooks, closeHook,
                     enabled, pool, cb, cbfs, mishit, crash>>
  BY DEF Enqueue, EnqAt, IInv, TypeOK, HandInv, listVars, streamVars, cbVars
<1>2. CASE enq' = "putback" /\ UNCHANGED <<libq, data, fs>>
  <2>1. TypeOK' /\ HandInv' /\ HookInv' /\ CrashCauses'
    BY <1>1, <1>2 DEF IInv, TypeOK, EnqStates, HandInv, HookInv, CrashCauses
  <2>2. ASSUME Sound' PROVE ListInv' /\ RecordInv' /\ OwnerInv' /\ BufferInv'
    BY <1>1, <1>2, <2>2
       DEF Sound, IInv, ListInv, RecordInv, OwnerInv, BufferInv, Recorded, Freeing
  <2> QED BY <2>1, <2>2 DEF IInv
<1>3. CASE /\ Queued < VQ_LEN /\ enq' = "event" /\ libq' = Append(libq, data)
           /\ data' = NoBuf /\ fs' = NoSlot
  <2>1. /\ libq' \in Seq(Bufs) /\ Len(libq') = Len(libq) + 1
        /\ Range(libq') = Range(libq) \cup {data}
        /\ IsInjective(libq) /\ data \notin Range(libq) => IsInjective(libq')
    BY <1>1, <1>3, AppendElements DEF IInv, TypeOK
  <2>2. TypeOK'
    BY <1>1, <1>3, <2>1 DEF IInv, TypeOK, EnqStates
  <2>3. HandInv' /\ HookInv' /\ CrashCauses'
    BY <1>1, <1>3 DEF IInv, HandInv, HookInv, CrashCauses
  <2>4. ASSUME Sound' PROVE ListInv' /\ RecordInv' /\ OwnerInv' /\ BufferInv'
    <3>1. ListInv /\ RecordInv /\ OwnerInv /\ BufferInv
      BY <1>1, <2>4 DEF Sound, IInv
    <3>2. data \notin Range(libq) \cup Freeing /\ fs \in Range(used) /\ fs # cbfs
          /\ key[fs] = data /\ fs \notin fresh
      BY <1>1, <3>1 DEF OwnerInv, BufferInv
    <3>3. Recorded' = Recorded \cup {fs} /\ fs \notin Recorded
      <4>1. NoSlot \notin Range(used)
        BY ElementsInSet, PoolAssumption
           DEF IInv, TypeOK, Slots, NoSlot, VIDEO_FRAME_NUMBER
      <4> QED BY <1>1, <1>3, <3>2, <4>1 DEF Recorded
    <3>4. {key[s] : s \in Recorded \cup {fs}} = Range(libq')
      BY <2>1, <3>1, <3>2 DEF RecordInv
    <3>5. \A s, t \in Recorded \cup {fs} : key[s] = key[t] => s = t
      <4>1. \A s \in Recorded : key[s] # key[fs]
        BY <3>1, <3>2 DEF RecordInv
      <4> QED BY <3>1, <4>1 DEF RecordInv
    <3>6. IsInjective(libq')
      BY <2>1, <3>1, <3>2 DEF RecordInv
    <3>7. /\ Len(libq) \in Nat
          /\ cb # "idle" <=> cbfs # NoSlot
      BY DEF IInv, TypeOK, HandInv
    <3>8. Len(used') = Len(libq') + One(fs' # NoSlot) + One(cbfs' # NoSlot)
      BY <1>1, <1>3, <2>1, <3>1, <3>7 DEF RecordInv, One
    <3>9. HeldWhileSent => Len(libq') + One(cbfs' # NoSlot) <= VQ_LEN
      BY <1>1, <1>3, <2>1, <3>7, PoolAssumption DEF Queued, One
    <3>10. (Recorded \cup {fs}) \cap fresh = {}
      BY <3>1, <3>2 DEF RecordInv
    <3>11. RecordInv'
      <4> HIDE DEF Recorded
      <4> QED BY <1>1, <3>3, <3>4, <3>5, <3>6, <3>8, <3>9, <3>10 DEF RecordInv
    <3>12. ListInv' /\ OwnerInv'
      BY <1>1, <1>3, <3>1 DEF ListInv, OwnerInv
    <3>13. BufferInv'
      <4>1. NoBuf \notin Range(libq')
        BY <2>1, ElementsInSet, PoolAssumption
      <4> QED BY <1>1, <1>3, <2>1, <3>1, <3>2, <4>1 DEF BufferInv, Freeing
    <3> QED BY <3>11, <3>12, <3>13
  <2> QED BY <2>2, <2>3, <2>4 DEF IInv
<1> QED BY <1>2, <1>3 DEF Enqueue, EnqAt

(* put_video_frame of a slot that is in use moves it from used to avail. *)
LEMMA PutMoves ==
  ASSUME TypeOK, NEW s \in Slots, PutVideoFrame(s)
  PROVE  /\ used' \in Seq(Slots) /\ avail' \in Seq(Slots)
         /\ crash' \in {crash, "corrupt"}
         /\ s \in Range(used) => crash' = crash
         /\ ListInv /\ s \in Range(used) /\ UNCHANGED pool =>
              ListInv' /\ Range(used') = Range(used) \ {s} /\ Len(used') = Len(used) - 1
<1>1. CASE /\ \A i \in DOMAIN used : used[i] # s
           /\ crash' = "corrupt" /\ UNCHANGED <<used, avail>>
  <2>1. s \notin Range(used)
    BY <1>1 DEF Range
  <2> QED BY <1>1, <2>1 DEF TypeOK
<1>2. ASSUME NEW i \in DOMAIN used, used[i] = s,
             used' = RemoveAt(used, i), avail' = Cons(s, avail), crash' = crash
      PROVE  /\ used' \in Seq(Slots) /\ avail' \in Seq(Slots)
             /\ crash' \in {crash, "corrupt"}
             /\ s \in Range(used) => crash' = crash
             /\ ListInv /\ s \in Range(used) /\ UNCHANGED pool =>
                  ListInv' /\ Range(used') = Range(used) \ {s} /\ Len(used') = Len(used) - 1
  <2>1. /\ used' \in Seq(Slots) /\ Len(used') = Len(used) - 1
        /\ IsInjective(used) => IsInjective(used') /\ Range(used') = Range(used) \ {s}
    BY <1>2, RemoveAtElements DEF TypeOK
  <2>2. /\ avail' \in Seq(Slots) /\ Len(avail') = Len(avail) + 1
        /\ Range(avail') = {s} \cup Range(avail)
        /\ IsInjective(avail) /\ s \notin Range(avail) => IsInjective(avail')
    BY <1>2, ConsElements DEF TypeOK
  <2>3. ASSUME ListInv, s \in Range(used), UNCHANGED pool
        PROVE  ListInv' /\ Range(used') = Range(used) \ {s}
    <3>1. pool = "ready"
      BY <2>3, EmptyElements DEF ListInv
    <3>2. Len(avail) \in Nat /\ Len(used) \in Nat
      BY DEF TypeOK
    <3>3. s \notin Range(avail) /\ IsInjective(used) /\ IsInjective(avail)
      BY <2>3, <3>1 DEF ListInv
    <3>4. Len(avail') + Len(used') = VIDEO_FRAME_NUMBER
      BY <2>1, <2>2, <2>3, <3>1, <3>2 DEF ListInv
    <3>5. Range(used') = Range(used) \ {s}
      BY <2>1, <3>3
    <3> QED BY <2>1, <2>2, <2>3, <3>1, <3>3, <3>4, <3>5 DEF ListInv
  <2> QED BY <1>2, <2>1, <2>2, <2>3
<1> QED BY <1>1, <1>2 DEF PutVideoFrame

(* A refused frame: its slot is put back, its buffer stays in hand. *)
LEMMA PutBackStep ==
  ASSUME IInv, crash = "none", PutBack
  PROVE  IInv'
<1>1. /\ enq = "putback" /\ enq' = "drop" /\ fs \in Slots /\ fs # NoSlot /\ fs' = NoSlot
      /\ data # NoBuf /\ PutVideoFrame(fs)
      /\ UNCHANGED <<key, fresh, held, libq, play, event, hooks, closeHook,
                     enabled, pool, data, cb, cbfs, mishit>>
  BY DEF PutBack, EnqAt, IInv, TypeOK, HandInv, streamVars, cbVars
<1>2. /\ used' \in Seq(Slots) /\ avail' \in Seq(Slots)
      /\ crash' \in {"none", "corrupt"}
      /\ fs \in Range(used) => crash' = "none"
      /\ ListInv /\ fs \in Range(used) =>
           ListInv' /\ Range(used') = Range(used) \ {fs} /\ Len(used') = Len(used) - 1
  BY <1>1, PutMoves DEF IInv
<1>3. TypeOK'
  BY <1>1, <1>2 DEF IInv, TypeOK, EnqStates
<1>4. HandInv' /\ HookInv'
  BY <1>1 DEF IInv, HandInv, HookInv
<1>5. CrashCauses'
  <2>1. ~mishit => fs \in Range(used)
    BY <1>1 DEF IInv, Sound, OwnerInv
  <2> QED BY <1>1, <1>2, <2>1 DEF CrashCauses
<1>6. ASSUME Sound' PROVE ListInv' /\ RecordInv' /\ OwnerInv' /\ BufferInv'
  <2>1. ListInv /\ RecordInv /\ OwnerInv /\ BufferInv
    BY <1>1, <1>6 DEF Sound, IInv
  <2>2. fs \in Range(used) /\ fs # cbfs
    BY <1>1, <2>1 DEF OwnerInv
  <2>3. ListInv' /\ Range(used') = Range(used) \ {fs} /\ Len(used') = Len(used) - 1
    BY <1>2, <2>1, <2>2
  <2>4. Recorded' = Recorded
    <3>1. NoSlot \notin Range(used)
      BY ElementsInSet, PoolAssumption
         DEF IInv, TypeOK, Slots, NoSlot, VIDEO_FRAME_NUMBER
    <3> QED BY <1>1, <2>3, <3>1 DEF Recorded
  <2>5. Len(used') = Len(libq') + One(fs' # NoSlot) + One(cbfs' # NoSlot)
    <3>1. Len(used) \in Nat /\ Len(libq) \in Nat
      BY DEF IInv, TypeOK
    <3> QED BY <1>1, <2>1, <2>3, <3>1 DEF RecordInv, One
  <2>6. RecordInv'
    BY <1>1, <2>1, <2>4, <2>5 DEF RecordInv
  <2>7. OwnerInv'
    BY <1>1, <2>1, <2>2, <2>3 DEF OwnerInv
  <2>8. BufferInv'
    BY <1>1, <2>1 DEF BufferInv, Freeing
  <2> QED BY <2>3, <2>6, <2>7, <2>8
<1> QED BY <1>3, <1>4, <1>5, <1>6 DEF IInv

(* free_bs_data by enq_thread: the buffer it holds is nowhere else. *)
LEMMA FreeStep ==
  ASSUME IInv, crash = "none", FreeBsData
  PROVE  IInv'
<1>1. /\ enq = "drop" /\ enq' = "event" /\ fs = NoSlot
      /\ data # NoBuf /\ held' = held \ {data} /\ data' = NoBuf
      /\ UNCHANGED <<avail, used, key, fresh, libq, play, event, hooks, closeHook,
                     enabled, pool, fs, cb, cbfs, mishit, crash>>
  BY DEF FreeBsData, EnqAt, IInv, HandInv, listVars, streamVars, cbVars
<1>2. TypeOK' /\ HandInv' /\ HookInv' /\ CrashCauses'
  BY <1>1 DEF IInv, TypeOK, EnqStates, HandInv, HookInv, CrashCauses
<1>3. ASSUME Sound' PROVE ListInv' /\ RecordInv' /\ OwnerInv' /\ BufferInv'
  <2>1. ListInv /\ RecordInv /\ OwnerInv /\ BufferInv
    BY <1>1, <1>3 DEF Sound, IInv
  <2>2. ListInv' /\ RecordInv' /\ OwnerInv'
    BY <1>1, <2>1 DEF ListInv, RecordInv, OwnerInv, Recorded
  <2>3. NoBuf \notin Range(libq)
    BY ElementsInSet, PoolAssumption DEF IInv, TypeOK
  <2>4. BufferInv'
    BY <1>1, <2>1, <2>3 DEF BufferInv, Freeing
  <2> QED BY <2>2, <2>4
<1> QED BY <1>2, <1>3 DEF IInv

(* frm_cb finds the one slot that records the frame; without a slot that   *)
(* is not keyed yet there is one, and only one, to find.                   *)
LEMMA FrmCbStep ==
  ASSUME IInv, crash = "none", FrmCb
  PROVE  IInv'
<1> DEFINE b == Head(libq)
<1>1. /\ cb = "idle" /\ cbfs = NoSlot /\ libq # <<>> /\ libq' = Tail(libq)
      /\ UNCHANGED <<avail, used, key, fresh, held, play, event, hooks, closeHook,
                     enabled, pool, enq, data, fs>>
  BY DEF FrmCb, IInv, HandInv, listVars, streamVars, enqVars
<1>2. /\ b \in Bufs /\ libq' \in Seq(Bufs) /\ Len(libq') = Len(libq) - 1
      /\ Range(libq) = {b} \cup Range(libq')
      /\ IsInjective(libq) => IsInjective(libq') /\ b \notin Range(libq')
  BY <1>1, TailElements DEF IInv, TypeOK
<1>3. CASE /\ \A i \in DOMAIN used : key[used[i]] # b
           /\ crash' = "search" /\ UNCHANGED <<cbVars, mishit>>
  <2>1. TypeOK' /\ HandInv' /\ HookInv'
    BY <1>1, <1>2, <1>3 DEF IInv, TypeOK, HandInv, HookInv, cbVars
  <2>2. mishit
    <3> SUFFICES ASSUME ~mishit PROVE FALSE
      BY DEF IInv, TypeOK
    <3>1. RecordInv
      BY DEF Sound, IInv
    <3>2. PICK s \in Recorded : key[s] = b
      BY <1>2, <3>1 DEF RecordInv
    <3>3. PICK i \in DOMAIN used : used[i] = s
      BY DEF Recorded, Range
    <3> QED BY <1>3, <3>2, <3>3
  <2>3. CrashCauses' /\ ~Sound'
    BY <1>3, <2>2 DEF CrashCauses, Sound
  <2> QED BY <2>1, <2>3 DEF IInv
<1>4. ASSUME NEW i \in DOMAIN used, key[used[i]] = b,
             mishit' = (mishit \/ NotKeyedYet(used[i])), crash' = crash,
             \/ cb' = "free" /\ cbfs' = used[i]
             \/ used[i] \in fresh /\ UNCHANGED cbVars
      PROVE  IInv'
  <2> DEFINE s == used[i]
  <2>1. s \in Slots /\ s \in Range(used) /\ s # NoSlot
    <3>1. s \in Slots /\ s \in Range(used)
      BY DEF IInv, TypeOK, Range
    <3> QED BY <3>1, PoolAssumption DEF Slots, NoSlot, VIDEO_FRAME_NUMBER
  <2> HIDE DEF b
  <2>2. mishit' \in BOOLEAN
    BY <1>4 DEF NotKeyedYet, IInv, TypeOK
  <2>3. \/ cb' = "free" /\ cbfs' = s
        \/ s \in fresh /\ cb' = cb /\ cbfs' = cbfs
    BY <1>4 DEF cbVars
  <2> HIDE DEF s
  <2>4. TypeOK'
    BY <1>1, <1>2, <1>4, <2>1, <2>2, <2>3 DEF IInv, TypeOK
  <2>5. HandInv' /\ HookInv' /\ CrashCauses'
    BY <1>1, <1>4, <2>1, <2>3 DEF IInv, HandInv, HookInv, CrashCauses
  <2>6. ASSUME Sound' PROVE ListInv' /\ RecordInv' /\ OwnerInv' /\ BufferInv'
    <3>1. ~mishit' /\ ~mishit /\ ~NotKeyedYet(s)
      BY <1>4, <2>6 DEF Sound, s, NotKeyedYet
    <3>2. ListInv /\ RecordInv /\ OwnerInv /\ BufferInv
      BY <3>1 DEF Sound, IInv
    <3>3. key[s] = b
      BY <1>4 DEF s
    <3>4. s # fs
      <4> SUFFICES ASSUME s = fs PROVE FALSE
        OBVIOUS
      <4>1. enq \in {"enqueue", "putback"}
        BY <2>1, <3>1 DEF NotKeyedYet, IInv, HandInv
      <4>2. key[fs] = data /\ data \notin Range(libq)
        BY <3>2, <4>1 DEF OwnerInv, BufferInv
      <4> QED BY <1>2, <3>3, <4>2
    <3>5. s \in Recorded /\ s \notin fresh
      BY <1>1, <2>1, <3>2, <3>4 DEF Recorded, RecordInv
    <3>6. cb' = "free" /\ cbfs' = s
      BY <2>3, <3>5
    <3>7. Recorded' = Recorded \ {s}
      BY <1>1, <2>1, <3>6, ElementsInSet, PoolAssumption
         DEF Recorded, IInv, TypeOK, Slots, NoSlot, VIDEO_FRAME_NUMBER
    <3>8. RecordInv'
      <4> HIDE DEF Recorded
      <4>1. IsInjective(libq') /\ b \notin Range(libq')
        BY <1>2, <3>2 DEF RecordInv
      <4>2. {key[r] : r \in Recorded \ {s}} = Range(libq')
        BY <1>2, <3>2, <3>3, <3>5, <4>1 DEF RecordInv
      <4>3. \A r, t \in Recorded \ {s} : key[r] = key[t] => r = t
        BY <3>2 DEF RecordInv
      <4>4. Len(libq) \in Nat /\ Len(used) \in Nat
        BY DEF IInv, TypeOK
      <4>5. Len(used') = Len(libq') + One(fs' # NoSlot) + One(cbfs' # NoSlot)
        BY <1>1, <1>2, <2>1, <3>2, <3>6, <4>4 DEF RecordInv, One
      <4>6. HeldWhileSent => Len(libq') + One(cbfs' # NoSlot) <= VQ_LEN
        BY <1>1, <1>2, <2>1, <3>2, <3>6, <4>4 DEF RecordInv, One
      <4>7. (Recorded \ {s}) \cap fresh = {}
        BY <3>2 DEF RecordInv
      <4> QED BY <1>1, <3>7, <4>1, <4>2, <4>3, <4>5, <4>6, <4>7 DEF RecordInv
    <3>9. ListInv' /\ OwnerInv'
      BY <1>1, <2>1, <3>2, <3>4, <3>6 DEF ListInv, OwnerInv
    <3>10. BufferInv'
      <4>1. Freeing' = {b} /\ Freeing = {}
        BY <1>1, <3>3, <3>6 DEF Freeing
      <4>2. b \notin Range(libq') /\ b # NoBuf /\ data # b
        BY <1>2, <3>2, PoolAssumption DEF RecordInv, BufferInv
      <4> QED BY <1>1, <1>2, <3>2, <4>1, <4>2 DEF BufferInv
    <3> QED BY <3>8, <3>9, <3>10
  <2> QED BY <2>4, <2>5, <2>6 DEF IInv
<1> QED BY <1>3, <1>4 DEF FrmCb, FirstMatch

(* free_bs_data by frm_cb: the buffer recorded by the slot it found. *)
LEMMA FrmCbFreeStep ==
  ASSUME IInv, crash = "none", FrmCbFree
  PROVE  IInv'
<1>1. /\ cb = "free" /\ cb' = "put" /\ held' = held \ {key[cbfs]} /\ cbfs # NoSlot
      /\ UNCHANGED <<avail, used, key, fresh, libq, play, event, hooks, closeHook,
                     enabled, pool, enq, data, fs, cbfs, mishit, crash>>
  BY DEF FrmCbFree, IInv, HandInv, listVars, streamVars, enqVars
<1>2. TypeOK' /\ HandInv' /\ HookInv' /\ CrashCauses'
  BY <1>1 DEF IInv, TypeOK, HandInv, HookInv, CrashCauses
<1>3. ASSUME Sound' PROVE ListInv' /\ RecordInv' /\ OwnerInv' /\ BufferInv'
  <2>1. ListInv /\ RecordInv /\ OwnerInv /\ BufferInv
    BY <1>1, <1>3 DEF Sound, IInv
  <2>2. ListInv' /\ RecordInv' /\ OwnerInv'
    BY <1>1, <2>1 DEF ListInv, RecordInv, OwnerInv, Recorded
  <2>3. BufferInv'
    BY <1>1, <2>1 DEF BufferInv, Freeing
  <2> QED BY <2>2, <2>3
<1> QED BY <1>2, <1>3 DEF IInv

(* frm_cb puts the slot it found back. *)
LEMMA FrmCbPutStep ==
  ASSUME IInv, crash = "none", FrmCbPut
  PROVE  IInv'
<1>1. /\ cb = "put" /\ cb' = "idle" /\ cbfs \in Slots /\ cbfs # NoSlot /\ cbfs' = NoSlot
      /\ PutVideoFrame(cbfs)
      /\ UNCHANGED <<key, fresh, held, libq, play, event, hooks, closeHook,
                     enabled, pool, enq, data, fs, mishit>>
  BY DEF FrmCbPut, IInv, TypeOK, HandInv, streamVars, enqVars
<1>2. /\ used' \in Seq(Slots) /\ avail' \in Seq(Slots)
      /\ crash' \in {"none", "corrupt"}
      /\ cbfs \in Range(used) => crash' = "none"
      /\ ListInv /\ cbfs \in Range(used) =>
           ListInv' /\ Range(used') = Range(used) \ {cbfs} /\ Len(used') = Len(used) - 1
  BY <1>1, PutMoves DEF IInv
<1>3. TypeOK'
  BY <1>1, <1>2 DEF IInv, TypeOK
<1>4. HandInv' /\ HookInv'
  BY <1>1 DEF IInv, HandInv, HookInv
<1>5. CrashCauses'
  <2>1. ~mishit => cbfs \in Range(used)
    BY <1>1 DEF IInv, Sound, OwnerInv
  <2> QED BY <1>1, <1>2, <2>1 DEF CrashCauses
<1>6. ASSUME Sound' PROVE ListInv' /\ RecordInv' /\ OwnerInv' /\ BufferInv'
  <2>1. ListInv /\ RecordInv /\ OwnerInv /\ BufferInv
    BY <1>1, <1>6 DEF Sound, IInv
  <2>2. cbfs \in Range(used) /\ fs # cbfs
    BY <1>1, <2>1 DEF OwnerInv
  <2>3. ListInv' /\ Range(used') = Range(used) \ {cbfs} /\ Len(used') = Len(used) - 1
    BY <1>2, <2>1, <2>2
  <2>4. Recorded' = Recorded
    <3>1. NoSlot \notin Range(used)
      BY ElementsInSet, PoolAssumption
         DEF IInv, TypeOK, Slots, NoSlot, VIDEO_FRAME_NUMBER
    <3> QED BY <1>1, <2>3, <3>1 DEF Recorded
  <2>5. /\ Len(used') = Len(libq') + One(fs' # NoSlot) + One(cbfs' # NoSlot)
        /\ HeldWhileSent => Len(libq') + One(cbfs' # NoSlot) <= VQ_LEN
    <3>1. Len(used) \in Nat /\ Len(libq) \in Nat
      BY DEF IInv, TypeOK
    <3> QED BY <1>1, <2>1, <2>3, <3>1, PoolAssumption DEF RecordInv, One
  <2>6. RecordInv'
    BY <1>1, <2>1, <2>4, <2>5 DEF RecordInv
  <2>7. OwnerInv'
    BY <1>1, <2>1, <2>2, <2>3 DEF OwnerInv
  <2>8. BufferInv'
    BY <1>1, <2>1 DEF BufferInv, Freeing
  <2> QED BY <2>3, <2>6, <2>7, <2>8
<1> QED BY <1>3, <1>4, <1>5, <1>6 DEF IInv

(* The invariant is inductive. *)
LEMMA NextInv == IInv /\ [Next]_vars => IInv'
<1> SUFFICES ASSUME IInv, [Next]_vars PROVE IInv'
  OBVIOUS
<1>1. CASE UNCHANGED vars
  BY <1>1 DEF vars, listVars, streamVars, enqVars, cbVars, IInv, TypeOK, HandInv, HookInv,
              CrashCauses, Sound, ListInv, RecordInv, OwnerInv, BufferInv, Recorded, Freeing
<1>2. CASE EnqThread
  <2>1. CASE crash = "none" /\ EnqEvent
    BY <2>1, QuietStep, EventStep DEF EnqEvent
  <2>2. CASE crash = "none" /\ EnqFrame
    BY <2>2, QuietStep, GetStep, TakeStep, FillStep, EnqueueStep, PutBackStep, FreeStep
       DEF EnqFrame
  <2> QED BY <1>2, <2>1, <2>2 DEF EnqThread
<1>3. CASE RtspThread
  BY <1>3, FrmCbStep, FrmCbFreeStep, FrmCbPutStep DEF RtspThread
<1>4. CASE Others
  BY <1>4, QuietStep DEF Others
<1> QED BY <1>1, <1>2, <1>3, <1>4 DEF Next

------------------------------------------------------------------------------
(* What it implies *)

(* Every reachable state satisfies the invariant. *)
THEOREM Invariance == Spec => []IInv
<1>1. Init => IInv
  BY InitInv
<1>2. IInv /\ [Next]_vars => IInv'
  BY NextInv
<1> QED BY <1>1, <1>2, PTL DEF Spec

(* The values every variable of rtspd.c's stream may take. *)
THEOREM TypeCorrect == Spec => []TypeOK
<1>1. IInv => TypeOK
  BY DEF IInv
<1> QED BY <1>1, Invariance, PTL

(* take_video_frame and put_video_frame lose and duplicate no slot, for    *)
(* any VQ_LEN and any interleaving of enq_thread and frm_cb.               *)
THEOREM SlotsAreConserved == Spec => []SlotsConserved
<1>1. IInv => SlotsConserved
  BY DEF IInv, ListInv, SlotsConserved
<1> QED BY <1>1, Invariance, PTL

(* A slot too few for frm_cb or for take_video_frame is met only after a   *)
(* callback was served a slot whose key was not written yet, on a pool     *)
(* that stream_reg or stream_dereg left half open, or with a library that  *)
(* takes a new frame while it still sends one.                             *)
THEOREM CrashesExplained == Spec => []CrashCauses
<1>1. IInv => CrashCauses
  BY DEF IInv
<1> QED BY <1>1, Invariance, PTL

(* get_bs_data and free_bs_data pair up: no buffer leaks, none is freed    *)
(* twice.                                                                  *)
THEOREM BuffersAreAccounted == Spec => []BuffersAccounted
<1>1. ASSUME IInv, Sound
      PROVE  held = Range(libq \o InHand) /\ IsInjective(libq \o InHand)
  <2> DEFINE d == IF data = NoBuf THEN <<>> ELSE <<data>>
             c == IF cb = "free" THEN <<key[cbfs]>> ELSE <<>>
  <2>1. BufferInv /\ IsInjective(libq) /\ libq \in Seq(Bufs)
    BY <1>1 DEF IInv, RecordInv, TypeOK
  <2>2. d \in Seq(Bufs) /\ Range(d) = {data} \ {NoBuf} /\ IsInjective(d)
    <3>1. CASE data = NoBuf
      BY <3>1, EmptyElements, EmptySeq
    <3>2. CASE data # NoBuf
      <4>1. data \in Bufs
        BY <1>1, <3>2 DEF IInv, TypeOK
      <4> QED BY <3>2, <4>1, OneElement
    <3> QED BY <3>1, <3>2
  <2>3. c \in Seq(Bufs) /\ Range(c) = Freeing /\ IsInjective(c)
    <3>1. CASE cb # "free"
      BY <3>1, EmptyElements, EmptySeq DEF Freeing
    <3>2. CASE cb = "free"
      <4>1. key[cbfs] \in Bufs
        BY <1>1, <2>1, <3>2 DEF IInv, TypeOK, HandInv, BufferInv, Freeing
      <4> QED BY <3>2, <4>1, OneElement DEF Freeing
    <3> QED BY <3>1, <3>2
  <2>4. InHand = d \o c
    BY DEF InHand
  <2> HIDE DEF d, c
  <2>5. d \o c \in Seq(Bufs) /\ Range(d \o c) = Range(d) \cup Range(c) /\ IsInjective(d \o c)
    BY <2>1, <2>2, <2>3, ConcatElements, ConcatProperties DEF BufferInv
  <2>6. /\ Range(libq \o (d \o c)) = Range(libq) \cup Range(d \o c)
        /\ IsInjective(libq \o (d \o c))
    <3>1. Range(libq) \cap Range(d \o c) = {}
      BY <2>1, <2>2, <2>3, <2>5 DEF BufferInv
    <3> DEFINE e == d \o c
    <3>2. e \in Seq(Bufs) /\ IsInjective(e) /\ Range(libq) \cap Range(e) = {}
      BY <2>5, <3>1
    <3> HIDE DEF e
    <3>3. /\ Range(libq \o e) = Range(libq) \cup Range(e)
          /\ IsInjective(libq \o e)
      BY <2>1, <3>2, ConcatElements
    <3> QED BY <3>3 DEF e
  <2> QED BY <2>1, <2>2, <2>3, <2>4, <2>5, <2>6 DEF BufferInv
<1>2. IInv => BuffersAccounted
  BY <1>1 DEF BuffersAccounted
<1> QED BY <1>2, Invariance, PTL

(* search_video_frame can find the slot of every frame the library holds,  *)
(* and no other keyed slot in use answers to the frame's address.          *)
THEOREM FramesAreRecorded == Spec => []FramesRecorded
<1>1. ASSUME IInv, Sound, NEW b \in Range(libq)
      PROVE  \E s \in Range(used) :
               /\ key[s] = b /\ ~NotKeyedYet(s) /\ s # cbfs
               /\ \A t \in Range(used) \ {s} : key[t] = b => NotKeyedYet(t) \/ t = cbfs
  <2>1. HandInv /\ RecordInv /\ OwnerInv /\ BufferInv
    BY <1>1 DEF IInv
  <2>2. PICK s \in Recorded : key[s] = b
    BY <1>1, <2>1 DEF RecordInv
  <2>3. s \in Range(used) /\ ~NotKeyedYet(s) /\ s # cbfs
    BY DEF Recorded, NotKeyedYet
  <2>4. ASSUME NEW t \in Range(used) \ {s}, key[t] = b, t # cbfs
        PROVE  NotKeyedYet(t)
    <3>1. t = fs
      BY <2>1, <2>2, <2>4 DEF RecordInv, Recorded
    <3>2. fs # NoSlot
      BY <1>1, <2>4, <3>1, ElementsInSet, PoolAssumption
         DEF IInv, TypeOK, Slots, NoSlot, VIDEO_FRAME_NUMBER
    <3>3. enq \notin {"enqueue", "putback"}
      BY <1>1, <2>1, <2>4, <3>1 DEF OwnerInv, BufferInv
    <3> QED BY <2>1, <3>1, <3>2, <3>3 DEF HandInv, NotKeyedYet
  <2> QED BY <2>2, <2>3, <2>4
<1>2. IInv => FramesRecorded
  BY <1>1 DEF FramesRecorded
<1> QED BY <1>2, Invariance, PTL

(* bs_new_event frees the slots of an open pool only when no frame is in   *)
(* the library, in frm_cb or in enq_thread's hands.                        *)
THEOREM FreedOnlyWhenDrained == Spec => FreedWhenDrained
<1>1. ASSUME IInv, Sound, pool = "ready", UpdateEvent \/ StopEvent
      PROVE  libq = <<>> /\ cb = "idle" /\ fs = NoSlot
  <2>1. enq = "event" /\ used = <<>>
    BY <1>1 DEF UpdateEvent, StopEvent, EnqAt, NoneUsed
  <2> QED BY <1>1, <2>1, Drained
<1>2. IInv => [Sound /\ pool = "ready" /\ (UpdateEvent \/ StopEvent) =>
                 /\ libq = <<>> /\ cb = "idle" /\ fs = NoSlot]_vars
  BY <1>1
<1> QED BY <1>2, Invariance, PTL DEF FreedWhenDrained

------------------------------------------------------------------------------
(* FramePool implements FrameLending *)

(* What the promise speaks of. *)
lendingVars == <<held, data, libq, Sending, Sound>>

(* Steps of enq_thread and of other threads that move no buffer. *)
LEMMA UnseenStep ==
  ASSUME IInv, crash = "none", Sound',
         NoEvent \/ UpdateWaits \/ StopWaits \/ PollNothing \/ CheckEvent \/ CheckPlay
         \/ TakeVideoFrame \/ PutBack
         \/ (\E e \in ControlEvents : PostEvent(e)) \/ (\E p \in {0, 1} : SetPlay(p))
  PROVE  Sound /\ UNCHANGED lendingVars
<1>1. UNCHANGED <<held, data, libq, key, cb, cbfs, mishit>>
  BY DEF NoEvent, UpdateWaits, StopWaits, PollNothing, CheckEvent, CheckPlay, TakeVideoFrame,
         PutBack, PostEvent, SetPlay, streamVars, enqVars, listVars, cbVars
<1> QED BY <1>1 DEF Sound, Sending, lendingVars

(* The slot enq_thread fills is not the one the callback works on. *)
LEMMA FillUnseen ==
  ASSUME IInv, crash = "none", Sound', FillSlot
  PROVE  Sound /\ UNCHANGED lendingVars
<1>1. key' = [key EXCEPT ![fs] = data] /\ UNCHANGED <<held, data, libq, cb, cbfs, mishit, crash>>
  BY DEF FillSlot, cbVars
<1>2. Sound
  BY <1>1 DEF Sound
<1>3. cb = "free" => key'[cbfs] = key[cbfs]
  <2> SUFFICES ASSUME cb = "free" PROVE key'[cbfs] = key[cbfs]
    OBVIOUS
  <2>1. cbfs # fs /\ cbfs \in Slots
    BY <1>2 DEF IInv, HandInv, OwnerInv, TypeOK
  <2> QED BY <1>1, <2>1 DEF IInv, TypeOK
<1> QED BY <1>1, <1>2, <1>3 DEF Sound, Sending, lendingVars

(* Opening and closing the pool: the library has nothing of the stream. *)
LEMMA EventUnseen ==
  ASSUME IInv, crash = "none", Sound', StartEvent \/ UpdateEvent \/ StopEvent
  PROVE  Sound /\ UNCHANGED lendingVars
<1>1. enq = "event" /\ UNCHANGED <<held, data, cb, cbfs, mishit>>
  BY DEF StartEvent, UpdateEvent, StopEvent, EnqAt, cbVars
<1>2. Sound
  BY <1>1 DEF Sound
<1>3. CASE UNCHANGED <<libq, key>>
  BY <1>1, <1>2, <1>3 DEF Sound, Sending, lendingVars
<1>4. CASE OpenLiveStreaming \/ CloseLiveStreaming
  <2>1. used = <<>>
    <3>1. CASE StartEvent
      BY <1>2, <3>1 DEF StartEvent, IInv, HookInv, ListInv
    <3>2. CASE pool # "ready"
      BY <1>2, <3>2 DEF IInv, ListInv
    <3>3. CASE (UpdateEvent \/ StopEvent) /\ pool = "ready"
      BY <3>3 DEF UpdateEvent, StopEvent, NoneUsed
    <3> QED BY <3>1, <3>2, <3>3
  <2>2. libq = <<>> /\ cb = "idle"
    BY <1>1, <1>2, <2>1, Drained
  <2>3. libq' = <<>>
    BY <1>4 DEF OpenLiveStreaming, CloseLiveStreaming
  <2> QED BY <1>1, <1>2, <2>2, <2>3 DEF Sound, Sending, lendingVars
<1>5. UNCHANGED <<libq, key>> \/ OpenLiveStreaming \/ CloseLiveStreaming
  BY DEF StartEvent, UpdateEvent, StopEvent, listVars
<1> QED BY <1>3, <1>4, <1>5

(* FrmCbPut: the buffer is back already. *)
LEMMA FrmCbPutUnseen ==
  ASSUME IInv, crash = "none", Sound', FrmCbPut
  PROVE  Sound /\ UNCHANGED lendingVars
BY DEF FrmCbPut, Sound, Sending, lendingVars, streamVars, enqVars

LEMMA GetTakes ==
  ASSUME IInv, crash = "none", Sound', NEW b \in Bufs, GetBsData(b)
  PROVE  Sound /\ Lending!Take
<1>1. /\ data = NoBuf /\ data' = b /\ b \notin held /\ held' = held \cup {b}
      /\ UNCHANGED <<libq, key, cb, cbfs, mishit, crash>>
  BY DEF GetBsData, EnqAt, IInv, HandInv, listVars, cbVars
<1> QED BY <1>1 DEF Sound, Sending, Lending!Take

LEMMA FreeRefuses ==
  ASSUME IInv, crash = "none", Sound', FreeBsData
  PROVE  Sound /\ Lending!Refuse
<1>1. /\ data # NoBuf /\ data' = NoBuf /\ held' = held \ {data}
      /\ UNCHANGED <<libq, key, cb, cbfs, mishit, crash>>
  BY DEF FreeBsData, EnqAt, IInv, HandInv, listVars, cbVars
<1> QED BY <1>1 DEF Sound, Sending, Lending!Refuse

LEMMA EnqueueAccepts ==
  ASSUME IInv, crash = "none", Sound', Enqueue
  PROVE  Sound /\ (Lending!Accept \/ UNCHANGED lendingVars)
<1>1. enq = "enqueue" /\ data # NoBuf /\ UNCHANGED <<held, key, cb, cbfs, mishit, crash>>
  BY DEF Enqueue, EnqAt, IInv, HandInv, listVars, cbVars
<1>2. CASE UNCHANGED <<libq, data>>
  BY <1>1, <1>2 DEF Sound, Sending, lendingVars
<1>3. CASE libq' = Append(libq, data) /\ data' = NoBuf
  BY <1>1, <1>3 DEF Sound, Sending, Lending!Accept
<1> QED BY <1>1, <1>2, <1>3 DEF Enqueue

(* The slot that frm_cb finds is the one of the frame that was sent. *)
LEMMA FrmCbSends ==
  ASSUME IInv, crash = "none", Sound', FrmCb
  PROVE  Sound /\ Lending!Send
<1>1. /\ cb = "idle" /\ libq # <<>> /\ libq' = Tail(libq)
      /\ UNCHANGED <<key, held, data, fresh, used, enq, fs>>
  BY DEF FrmCb, listVars, enqVars
<1>2. Sound /\ crash' = "none"
  BY DEF FrmCb, Sound
<1>3. PICK i \in DOMAIN used :
        /\ FirstMatch(i, Head(libq))
        /\ mishit' = (mishit \/ NotKeyedYet(used[i]))
        /\ \/ cb' = "free" /\ cbfs' = used[i]
           \/ used[i] \in fresh /\ UNCHANGED cbVars
  BY <1>2 DEF FrmCb
<1>4. used[i] \in Range(used) /\ used[i] \in Slots
  BY DEF Range, IInv, TypeOK
<1>5. ~NotKeyedYet(used[i])
  BY <1>3 DEF Sound
<1>6. used[i] \notin fresh
  <2>1. CASE used[i] = fs
    BY <1>2, <1>4, <1>5, <2>1, PoolAssumption
       DEF NotKeyedYet, IInv, HandInv, OwnerInv, Slots, NoSlot, VIDEO_FRAME_NUMBER
  <2>2. CASE used[i] # fs
    <3>1. cbfs = NoSlot
      BY <1>1 DEF IInv, HandInv
    <3>2. used[i] \in Recorded
      BY <1>4, <2>2, <3>1, PoolAssumption DEF Recorded, Slots, NoSlot, VIDEO_FRAME_NUMBER
    <3> QED BY <1>2, <3>2 DEF IInv, RecordInv
  <2> QED BY <2>1, <2>2
<1>7. cb' = "free" /\ key'[cbfs'] = Head(libq)
  BY <1>1, <1>3, <1>6 DEF FirstMatch
<1> QED BY <1>1, <1>2, <1>7 DEF Sound, Sending, Lending!Send

LEMMA FrmCbFreeReturns ==
  ASSUME IInv, crash = "none", Sound', FrmCbFree
  PROVE  Sound /\ Lending!Return
<1>1. /\ cb = "free" /\ cb' = "put" /\ held' = held \ {key[cbfs]}
      /\ UNCHANGED <<data, libq, key, mishit, crash>>
  BY DEF FrmCbFree, listVars, enqVars
<1>2. Sound
  BY <1>1 DEF Sound
<1>3. key[cbfs] # NoBuf
  BY <1>1, <1>2 DEF IInv, BufferInv, Freeing
<1> QED BY <1>1, <1>2, <1>3 DEF Sending, Lending!Return

------------------------------------------------------------------------------
LEMMA StepLends == IInv /\ [Next]_vars => [Lending!Next]_(Lending!vars)
<1> SUFFICES ASSUME IInv, [Next]_vars PROVE [Lending!Next]_(Lending!vars)
  OBVIOUS
<1>1. CASE ~Sound'
  BY <1>1 DEF Lending!Next
<1>2. CASE UNCHANGED vars
  BY <1>2 DEF vars, listVars, enqVars, cbVars, Lending!vars, Sending, Sound
<1>3. CASE Sound' /\ Next
  <2>1. \/ Sound /\ UNCHANGED lendingVars
        \/ Sound /\ \/ Lending!Take \/ Lending!Refuse \/ Lending!Accept
                    \/ Lending!Send \/ Lending!Return
    <3>1. CASE EnqThread
      <4>1. CASE crash = "none" /\ EnqEvent
        BY <1>3, <4>1, UnseenStep, EventUnseen DEF EnqEvent
      <4>2. CASE crash = "none" /\ EnqFrame
        BY <1>3, <4>2, UnseenStep, FillUnseen, GetTakes, FreeRefuses, EnqueueAccepts
           DEF EnqFrame
      <4> QED BY <3>1, <4>1, <4>2 DEF EnqThread
    <3>2. CASE RtspThread
      BY <1>3, <3>2, FrmCbSends, FrmCbFreeReturns, FrmCbPutUnseen DEF RtspThread
    <3>3. CASE Others
      BY <1>3, <3>3, UnseenStep DEF Others
    <3> QED BY <1>3, <3>1, <3>2, <3>3 DEF Next
  <2>2. CASE UNCHANGED lendingVars
    BY <2>2 DEF lendingVars, Lending!vars
  <2> QED BY <1>3, <2>1, <2>2 DEF Lending!Next
<1> QED BY <1>1, <1>2, <1>3

(* The slots with their keys, the two lists and the search of frm_cb give  *)
(* the driver the buffers back as if the library kept them itself.         *)
THEOREM PoolLendsInOrder == Spec => LendsInOrder
<1>1. Init => Lending!Init
  BY DEF Init, Lending!Init, Sending, Sound
<1>2. IInv /\ [Next]_vars => [Lending!Next]_(Lending!vars)
  BY StepLends
<1> QED BY <1>1, <1>2, Invariance, PTL DEF Spec, LendsInOrder, Lending!Spec

------------------------------------------------------------------------------
(* FramePool implements StreamLife *)

(* START waits for a stream that is off, and a frame that write_rtp_frame  *)
(* is asked to write comes from a stream that is read.                     *)
PostedInv ==
  /\ event = "START" => ~enabled
  /\ enq = "write" => hooks

LEMMA AsPosted == Spec => []PostedInv
<1>1. Init => PostedInv
  BY DEF Init, PostedInv
<1>2. PostedInv /\ [Next]_vars => PostedInv'
  <2> SUFFICES ASSUME PostedInv, [Next]_vars PROVE PostedInv'
    OBVIOUS
  <2>1. ASSUME NEW e \in ControlEvents, PostEvent(e) PROVE PostedInv'
    BY <2>1 DEF PostEvent, PostedInv, enqVars
  <2>2. CASE EnqEvent
    BY <2>2 DEF EnqEvent, NoEvent, StartEvent, UpdateEvent, UpdateWaits, StopEvent, StopWaits,
                EnqAt, streamVars, PostedInv
  <2>3. ASSUME NEW b \in Bufs, GetBsData(b) PROVE PostedInv'
    BY <2>3 DEF GetBsData, EnqAt, streamVars, PostedInv
  <2>4. CASE UNCHANGED <<event, enabled, hooks>> /\ (enq' = "write" => enq = "write")
    BY <2>4 DEF PostedInv
  <2>5. \/ \E e \in ControlEvents : PostEvent(e)
        \/ EnqEvent \/ \E b \in Bufs : GetBsData(b)
        \/ UNCHANGED <<event, enabled, hooks>> /\ (enq' = "write" => enq = "write")
    <3>1. CASE EnqFrame
      BY <3>1 DEF EnqFrame, PollNothing, CheckEvent, CheckPlay, TakeVideoFrame, FillSlot,
                  Enqueue, PutBack, FreeBsData, EnqAt, streamVars
    <3>2. CASE RtspThread
      BY <3>2 DEF RtspThread, FrmCb, FrmCbFree, FrmCbPut, streamVars, enqVars
    <3>3. ASSUME NEW p \in {0, 1}, SetPlay(p)
          PROVE  UNCHANGED <<event, enabled, hooks>> /\ (enq' = "write" => enq = "write")
      BY <3>3 DEF SetPlay, enqVars
    <3>4. CASE UNCHANGED vars
      BY <3>4 DEF vars, streamVars, enqVars
    <3> QED BY <3>1, <3>2, <3>3, <3>4 DEF Next, EnqThread, Others
  <2> QED BY <2>1, <2>2, <2>3, <2>4, <2>5
<1> QED BY <1>1, <1>2, PTL DEF Spec

(* What the life of a stream speaks of. *)
frames   == Len(used) + (IF Leaving THEN 1 ELSE 0)
lifeVars == <<event, enabled, hooks, closeHook, pool>>

(* Steps that leave the stream and its frames as they are. *)
LEMMA SameLife ==
  ASSUME Sound, Sound', UNCHANGED lifeVars, frames' = frames
  PROVE  UNCHANGED Life!vars
  BY DEF Sound, lifeVars, frames, Life!vars, Life!stream

(* The list of used slots is empty exactly when it counts none. *)
LEMMA UsedCount ==
  ASSUME TypeOK
  PROVE  Len(used) \in Nat /\ (Len(used) = 0 <=> used = <<>>)
  BY EmptySeq DEF TypeOK

(* Steps that touch none of the lists, nor whether a frame is on its way.  *)
LEMMA QuietLife ==
  ASSUME IInv, crash = "none", Sound',
         NoEvent \/ UpdateWaits \/ PollNothing \/ FillSlot \/ Enqueue \/ FreeBsData
         \/ (\E b \in Bufs : GetBsData(b)) \/ (\E p \in {0, 1} : SetPlay(p))
         \/ FrmCb \/ FrmCbFree
  PROVE  UNCHANGED Life!vars
<1>1. UNCHANGED <<lifeVars, used>>
  BY DEF NoEvent, UpdateWaits, PollNothing, FillSlot, Enqueue, FreeBsData, GetBsData, SetPlay,
         FrmCb, FrmCbFree, streamVars, listVars, lifeVars
<1>2. Leaving' <=> Leaving
  <2>1. (enq' \in {"play", "take"}) <=> (enq \in {"play", "take"})
    BY DEF NoEvent, UpdateWaits, PollNothing, FillSlot, Enqueue, FreeBsData, GetBsData, SetPlay,
           FrmCb, FrmCbFree, EnqAt, enqVars
  <2> QED BY <1>1, <2>1 DEF Leaving, lifeVars
<1>3. Sound
  <2>1. CASE FrmCb
    BY <2>1 DEF FrmCb, Sound
  <2>2. CASE ~FrmCb
    <3>1. UNCHANGED mishit
      BY <2>2 DEF NoEvent, UpdateWaits, PollNothing, FillSlot, Enqueue, FreeBsData, GetBsData,
                  SetPlay, FrmCbFree
    <3> QED BY <3>1 DEF Sound
  <2> QED BY <2>1, <2>2
<1>4. frames' = frames
  BY <1>1, <1>2 DEF frames
<1> QED BY <1>1, <1>3, <1>4, SameLife

(* Any thread posts an event. *)
LEMMA PostEventLife ==
  ASSUME IInv, crash = "none", Sound', NEW e \in ControlEvents, PostEvent(e)
  PROVE  Sound /\ Life!Post
<1>1. /\ e \in {"START", "UPDATE", "STOP"} /\ (e = "START" => ~enabled) /\ event' = e
      /\ UNCHANGED <<used, hooks, closeHook, enabled, pool, enq, mishit, crash>>
  BY PoolAssumption DEF PostEvent, listVars, enqVars
<1> QED BY <1>1 DEF Sound, Leaving, Life!Post, Life!stream

(* START, UPDATE and STOP, carried out: the lists are empty before, so     *)
(* they are empty after.                                                   *)
LEMMA EventLife ==
  ASSUME IInv, PostedInv, crash = "none", Sound', StartEvent \/ UpdateEvent \/ StopEvent
  PROVE  Sound /\ (Life!Start \/ Life!Update \/ Life!Stop)
<1>1. enq = "event" /\ enq' = "poll" /\ event' = "NONE" /\ mishit' = mishit
  BY DEF StartEvent, UpdateEvent, StopEvent, EnqAt
<1>2. Sound /\ crash' = "none"
  BY <1>1 DEF Sound
<1>3. TypeOK /\ ListInv /\ HookInv
  BY <1>2 DEF IInv
<1>4. used = <<>>
  BY <1>3 DEF StartEvent, UpdateEvent, StopEvent, NoneUsed, ListInv, HookInv
<1>5. used' = <<>>
  BY <1>4 DEF StartEvent, UpdateEvent, StopEvent, OpenLiveStreaming, CloseLiveStreaming, listVars
<1>6. ~Leaving /\ ~Leaving' /\ Len(used) = 0 /\ Len(used') = 0
  BY <1>1, <1>4, <1>5, EmptyElements DEF Leaving
<1> DEFINE o == Len(used) + (IF Leaving THEN 1 ELSE 0)
<1>7. o = 0 /\ o' = 0
  BY <1>6
<1> HIDE DEF o
<1>8. CASE StartEvent
  <2>1. event = "START" /\ ~enabled
    BY <1>8 DEF StartEvent, PostedInv
  <2>2. \/ enabled' /\ hooks' /\ closeHook' /\ (pool # "none")' \in BOOLEAN
        \/ enabled' \in BOOLEAN /\ UNCHANGED <<hooks, closeHook, pool>>
    BY <1>8 DEF StartEvent
  <2>3. o = 0 /\ o' = 0 => Life!Start
    BY <1>1, <2>1, <2>2, Zenon DEF Life!Start, o
  <2> QED BY <1>2, <1>7, <2>3
<1>9. CASE UpdateEvent
  <2>1. /\ event = "UPDATE" /\ pool # "none" /\ UNCHANGED <<hooks, closeHook, enabled>>
        /\ hooks \/ closeHook \/ pool' # "none"
    BY <1>9 DEF UpdateEvent
  <2>2. o = 0 /\ o' = 0 => Life!Update
    BY <1>1, <2>1 DEF Life!Update, o
  <2> QED BY <1>2, <1>7, <2>2
<1>10. CASE StopEvent
  <2>1. /\ event = "STOP" /\ ~hooks' /\ ~closeHook' /\ (enabled' => enabled)
        /\ pool' # "none" => pool # "none"
        /\ ~closeHook => pool' = pool /\ (enabled' = enabled \/ pool # "none")
    BY <1>2, <1>10 DEF StopEvent, CloseLiveStreaming
  <2>2. o = 0 /\ o' = 0 => Life!Stop
    BY <1>1, <2>1 DEF Life!Stop, Life!Stopping, o
  <2> QED BY <1>2, <1>7, <2>2
<1> QED BY <1>8, <1>9, <1>10

(* STOP meets frames that are still out. *)
LEMMA StopWaitsLife ==
  ASSUME IInv, crash = "none", Sound', StopWaits
  PROVE  Sound /\ Life!Unhook
<1>1. /\ event = "STOP" /\ used # <<>> /\ enq = "event" /\ enq' = "poll" /\ hooks' = FALSE
      /\ UNCHANGED <<used, event, closeHook, enabled, pool, mishit, crash>>
  BY DEF StopWaits, NoneUsed, EnqAt, listVars
<1>2. ~Leaving /\ ~Leaving' /\ Len(used) \in Nat /\ Len(used) # 0
  BY <1>1, UsedCount DEF IInv, Leaving
<1> QED BY <1>1, <1>2 DEF Sound, Life!Unhook, Life!Stopping

(* The frame is sent from when write_rtp_frame saw no event; without an    *)
(* open pool it gets no further.                                           *)
LEMMA CheckEventLife ==
  ASSUME IInv, PostedInv, crash = "none", Sound', CheckEvent
  PROVE  Sound /\ (Life!Send \/ UNCHANGED Life!vars)
<1>1. /\ enq = "write" /\ hooks /\ UNCHANGED <<lifeVars, used, mishit, crash>>
      /\ enq' = IF event = "NONE" THEN "play" ELSE "drop"
  BY DEF CheckEvent, PostedInv, lifeVars, streamVars, listVars
<1>2. Sound /\ Len(used) \in Nat /\ ~Leaving
  BY <1>1, UsedCount DEF Sound, IInv, Leaving
<1>3. CASE event = "NONE" /\ pool = "ready"
  <2>1. Leaving' /\ pool # "none"
    BY <1>1, <1>3 DEF Leaving, lifeVars
  <2>2. Life!Send
    BY <1>1, <1>2, <1>3, <2>1 DEF Life!Send, Life!stream, lifeVars
  <2> QED BY <1>2, <2>2
<1>4. CASE ~(event = "NONE" /\ pool = "ready")
  <2>1. ~Leaving'
    BY <1>1, <1>4 DEF Leaving, lifeVars
  <2>2. frames' = frames
    BY <1>1, <1>2, <2>1 DEF frames
  <2> QED BY <1>1, <1>2, <2>2, SameLife
<1> QED BY <1>3, <1>4

(* Nobody plays: the frame comes back without having been in the pool. *)
LEMMA CheckPlayLife ==
  ASSUME IInv, crash = "none", Sound', CheckPlay
  PROVE  Sound /\ (Life!Return \/ UNCHANGED Life!vars)
<1>1. /\ enq = "play" /\ UNCHANGED <<lifeVars, used, mishit, crash>>
      /\ enq' = IF play = 1 THEN "take" ELSE "drop"
  BY DEF CheckPlay, lifeVars, streamVars, listVars
<1>2. Sound /\ Len(used) \in Nat
  BY <1>1, UsedCount DEF Sound, IInv
<1>3. CASE play = 1 \/ pool # "ready"
  <2>1. Leaving' <=> Leaving
    BY <1>1, <1>3 DEF Leaving, lifeVars
  <2>2. frames' = frames
    BY <1>1, <2>1 DEF frames
  <2> QED BY <1>1, <1>2, <2>2, SameLife
<1>4. CASE play # 1 /\ pool = "ready"
  <2>1. Leaving /\ ~Leaving'
    BY <1>1, <1>4 DEF Leaving
  <2>2. Life!Return
    BY <1>1, <1>2, <2>1 DEF Life!Return, Life!stream, lifeVars
  <2> QED BY <1>2, <2>2
<1> QED BY <1>3, <1>4

(* take_video_frame: the frame that was on its way is in the list. *)
LEMMA TakeLife ==
  ASSUME IInv, crash = "none", Sound', TakeVideoFrame
  PROVE  Sound /\ UNCHANGED Life!vars
<1>1. /\ avail # <<>> /\ enq = "take" /\ enq' = "fill" /\ used' = Cons(Head(avail), used)
      /\ UNCHANGED <<lifeVars, mishit>>
  BY DEF TakeVideoFrame, EnqAt, Sound, lifeVars, streamVars
<1>2. Sound
  BY <1>1 DEF Sound
<1>3. pool = "ready"
  BY <1>1, <1>2 DEF IInv, ListInv
<1>4. Leaving /\ ~Leaving'
  BY <1>1, <1>3 DEF Leaving
<1>5. Len(used) \in Nat /\ Len(used') = Len(used) + 1
  <2>1. Head(avail) \in Slots /\ used \in Seq(Slots)
    BY <1>1, TailElements DEF IInv, TypeOK
  <2> QED BY <1>1, <2>1, ConsElements, UsedCount DEF IInv
<1>6. frames' = frames
  BY <1>4, <1>5 DEF frames
<1> QED BY <1>1, <1>2, <1>6, SameLife

(* put_video_frame, by either thread: one frame less is out. *)
LEMMA PutLife ==
  ASSUME IInv, crash = "none", Sound', PutBack \/ FrmCbPut
  PROVE  Sound /\ Life!Return
<1>1. /\ UNCHANGED <<lifeVars, mishit>>
      /\ \E s \in Slots \cup {NoSlot} : PutVideoFrame(s)
  BY DEF PutBack, FrmCbPut, IInv, TypeOK, lifeVars, streamVars
<1>2. Sound /\ crash' = "none"
  BY <1>1 DEF Sound
<1>3. PICK i \in DOMAIN used : used' = RemoveAt(used, i)
  BY <1>1, <1>2 DEF PutVideoFrame
<1>4. Len(used') = Len(used) - 1 /\ Len(used) \in Nat /\ Len(used) # 0
  <2>1. used \in Seq(Slots)
    BY DEF IInv, TypeOK
  <2>2. Len(used') = Len(used) - 1
    BY <1>3, <2>1, RemoveAtElements
  <2>3. Len(used) \in Nat /\ Len(used) # 0
    BY <1>3, <2>1
  <2> QED BY <2>2, <2>3
<1>5. Leaving' <=> Leaving
  BY <1>1 DEF PutBack, FrmCbPut, EnqAt, enqVars, Leaving, lifeVars
<1> DEFINE o == Len(used) + (IF Leaving THEN 1 ELSE 0)
<1>6. o > 0 /\ o' = o - 1
  BY <1>4, <1>5
<1> HIDE DEF o
<1>7. o > 0 /\ o' = o - 1 => Life!Return
  BY <1>1 DEF Life!Return, Life!stream, lifeVars, o
<1> QED BY <1>2, <1>6, <1>7

LEMMA StepLives == IInv /\ PostedInv /\ [Next]_vars => [Life!Next]_(Life!vars)
<1> SUFFICES ASSUME IInv, PostedInv, [Next]_vars PROVE [Life!Next]_(Life!vars)
  OBVIOUS
<1>1. CASE ~Sound'
  BY <1>1 DEF Life!Next
<1>2. CASE UNCHANGED vars
  BY <1>2 DEF vars, listVars, streamVars, enqVars, cbVars, Life!vars, Life!stream,
              Leaving, Sound
<1>3. CASE Sound' /\ Next
  <2>1. \/ UNCHANGED Life!vars
        \/ Sound /\ \/ Life!Post \/ Life!Start \/ Life!Update \/ Life!Stop
                    \/ Life!Unhook \/ Life!Send \/ Life!Return
    <3>1. CASE EnqThread
      <4>1. CASE crash = "none" /\ EnqEvent
        BY <1>3, <4>1, QuietLife, EventLife, StopWaitsLife DEF EnqEvent
      <4>2. CASE crash = "none" /\ EnqFrame
        BY <1>3, <4>2, QuietLife, CheckEventLife, CheckPlayLife, TakeLife, PutLife
           DEF EnqFrame
      <4> QED BY <3>1, <4>1, <4>2 DEF EnqThread
    <3>2. CASE RtspThread
      BY <1>3, <3>2, QuietLife, PutLife DEF RtspThread
    <3>3. CASE Others
      BY <1>3, <3>3, QuietLife, PostEventLife DEF Others
    <3> QED BY <1>3, <3>1, <3>2, <3>3 DEF Next
  <2> QED BY <1>3, <2>1 DEF Life!Next
<1> QED BY <1>1, <1>2, <1>3

(* The lists, the slots and the two threads add up to a number of frames   *)
(* out that is 0 when bs_new_event opens, updates or closes the stream and *)
(* does not grow while an event is pending.                                *)
THEOREM PoolLivesAsStream == Spec => PoolLives
<1>1. Init => Life!Init
  BY EmptyElements DEF Init, Life!Init, Leaving, Sound
<1>2. IInv /\ PostedInv /\ [Next]_vars => [Life!Next]_(Life!vars)
  BY StepLives
<1> QED BY <1>1, <1>2, Invariance, AsPosted, PTL DEF Spec, PoolLives, Life!Spec
=============================================================================
