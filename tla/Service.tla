-------------------------------- MODULE Service --------------------------------
(***************************************************************************)
(* What a caller may count on when it talks to a server: its call is taken *)
(* up at most once; if the caller waits, while it waits, and it goes on    *)
(* with an answer only when the call was taken up, and without one only    *)
(* when it never will be.  A caller that does not wait may be gone before  *)
(* its call is taken up or dropped.  While a server is a caller itself it  *)
(* takes nothing up.                                                       *)
(*                                                                         *)
(* There are no sockets, queues, tables and rounds here: the servers of    *)
(* CtrlServer, which have them, implement this.                            *)
(***************************************************************************)
CONSTANTS
  Callers,  \* who calls
  Waiters,  \* those of them that wait for an answer
  Server,   \* the caller that is a server
  Calls, NoCall

VARIABLES
  by,       \* who made each call
  state,    \* "unused", "made", "taken", or "over": dropped or forgotten
  busy      \* the call each caller is in

vars == <<by, state, busy>>

Nobody == "nobody"

Init ==
  /\ by = [c \in Calls |-> Nobody] /\ state = [c \in Calls |-> "unused"]
  /\ busy = [p \in Callers |-> NoCall]

Begin(p) == \E c \in Calls :
  /\ busy[p] = NoCall /\ state[c] = "unused"
  /\ by' = [by EXCEPT ![c] = p]
  /\ state' = [state EXCEPT ![c] = "made"]
  /\ busy' = [busy EXCEPT ![p] = c]

(* It is processed, and answered if somebody waits. *)
Take(c) ==
  /\ state[c] = "made"
  /\ by[c] \in Waiters => busy[by[c]] = c
  /\ by[c] # Server => busy[Server] = NoCall
  /\ state' = [state EXCEPT ![c] = "taken"]
  /\ UNCHANGED <<by, busy>>

(* Refused, or, if nobody waits for an answer, forgotten once it was taken *)
(* up and its caller has gone on.                                          *)
Drop(c) ==
  /\ \/ state[c] = "made"
     \/ state[c] = "taken" /\ by[c] \notin Waiters /\ busy[by[c]] # c
  /\ state' = [state EXCEPT ![c] = "over"]
  /\ UNCHANGED <<by, busy>>

End(p) ==
  /\ busy[p] # NoCall
  /\ p \in Waiters => state[busy[p]] \in {"taken", "over"}
  /\ busy' = [busy EXCEPT ![p] = NoCall]
  /\ UNCHANGED <<by, state>>

Next == (\E p \in Callers : Begin(p) \/ End(p)) \/ (\E c \in Calls : Take(c) \/ Drop(c))

Spec == Init /\ [][Next]_vars
=============================================================================
