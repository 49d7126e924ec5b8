----------------------------- MODULE MCFraming -----------------------------
(***************************************************************************)
(* Framing with the value sets of its runs.                                *)
(***************************************************************************)
EXTENDS Framing

\* A chunk may end behind any byte, or only between packets.
AnyCut    == 0 .. REQUEST_SIZE - 1
WholeOnly == {0}

\* Any byte value that FramingAssumption leaves: those that would turn the
\* command of a request into a sensor command are not among them.
AnyByte == Byte \ SENSOR_COMMANDS
=============================================================================
