---------------------------- MODULE ReplyService ----------------------------
(***************************************************************************)
(* What process1 owes each of its clients, without threads, slots or       *)
(* shared buffers: the responses a client receives answer requests of its  *)
(* own, each at most once and in the order it asked.  A request may go     *)
(* unanswered.                                                             *)
(***************************************************************************)
EXTENDS Integers, Sequences

CONSTANTS Conns, MaxReq

VARIABLES asked,     \* connection -> number of requests made
          answered   \* connection -> the requests answered, as received

vars == <<asked, answered>>

Last(c) == IF answered[c] = <<>> THEN 0 ELSE answered[c][Len(answered[c])]

Init == /\ asked = [c \in Conns |-> 0]
        /\ answered = [c \in Conns |-> <<>>]

Ask(c) == /\ asked[c] < MaxReq
          /\ asked' = [asked EXCEPT ![c] = @ + 1]
          /\ UNCHANGED answered

Answer(c) == /\ \E r \in (Last(c) + 1) .. asked[c] :
                  answered' = [answered EXCEPT ![c] = Append(@, r)]
             /\ UNCHANGED asked

Next == \E c \in Conns : Ask(c) \/ Answer(c)

Spec == Init /\ [][Next]_vars
=============================================================================
