--------------------------- MODULE FusionService ---------------------------
(***************************************************************************)
(* What process2 promises the consumer of its results, without threads,    *)
(* locks or sockets: the latest sample of every sensor is kept, and each   *)
(* result is computed from one consistent picture of all the sensors.      *)
(* Samples and pictures may be skipped; on one connection time never runs  *)
(* backwards, but a sensor that reconnects may have its old samples come   *)
(* after the new ones.  Only a consumer that has left misses a result.     *)
(***************************************************************************)
EXTENDS Integers, Sequences

CONSTANTS Sensors, Conns, MaxSamples

VARIABLES seen,     \* connection -> number of its latest sample, 0 before any
          latest,   \* sensor -> number of its latest sample, 0 before any
          taken,    \* the picture being worked on, if there is one
          left,     \* has the consumer left
          results   \* the pictures the consumer's results were made from

vars == <<seen, latest, taken, left, results>>

Init == /\ seen = [c \in Conns |-> 0]
        /\ latest = [s \in Sensors |-> 0]
        /\ taken = {}
        /\ left = FALSE
        /\ results = <<>>

Sample(c) == \E n \in seen[c] + 1 .. MaxSamples :
               /\ seen' = [seen EXCEPT ![c] = n]
               /\ latest' = [latest EXCEPT ![c[1]] = n]
               /\ UNCHANGED <<taken, left, results>>

Take == /\ taken = {}
        /\ taken' = {latest}
        /\ UNCHANGED <<seen, latest, left, results>>

Publish == \E p \in taken :
             /\ results' = IF left THEN results ELSE Append(results, p)
             /\ taken' = {}
             /\ UNCHANGED <<seen, latest, left>>

Leave == /\ left' = TRUE
         /\ UNCHANGED <<seen, latest, taken, results>>

Next == (\E c \in Conns : Sample(c)) \/ Take \/ Publish \/ Leave

Spec == Init /\ [][Next]_vars
=============================================================================
