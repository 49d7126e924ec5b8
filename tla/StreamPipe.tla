----------------------------- MODULE StreamPipe -----------------------------
(***************************************************************************)
(* What process3 promises of each of its two paths, without threads, pipes *)
(* or buffers: main reads the stream the server has sent, in order and     *)
(* without gaps, cut wherever it likes, and in the end all of it.          *)
(***************************************************************************)
EXTENDS Integers, Sequences

CONSTANTS Paths, MsgLen, MaxMsgs

VARIABLES sent,       \* path -> messages its server has sent
          delivered   \* path -> what main has read

vars == <<sent, delivered>>

\* The first n units of a path's stream; a unit is its path and place.
Stream(k, n) == [i \in 1 .. n |-> <<k, i>>]

Init == /\ sent = [k \in Paths |-> 0]
        /\ delivered = [k \in Paths |-> <<>>]

Send(k) == /\ sent[k] < MaxMsgs
           /\ sent' = [sent EXCEPT ![k] = @ + 1]
           /\ UNCHANGED delivered

Deliver(k) == /\ \E n \in Len(delivered[k]) + 1 .. sent[k] * MsgLen :
                   delivered' = [delivered EXCEPT ![k] = Stream(k, n)]
              /\ UNCHANGED sent

Next == \E k \in Paths : Send(k) \/ Deliver(k)

Spec == Init /\ [][Next]_vars

FairSpec == Spec /\ \A k \in Paths : WF_vars(Deliver(k))
=============================================================================
