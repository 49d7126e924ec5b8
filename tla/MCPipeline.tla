----------------------------- MODULE MCPipeline -----------------------------
(***************************************************************************)
(* Pipeline with the connections of its run.                               *)
(***************************************************************************)
EXTENDS Pipeline

\* EXTERN4, whose samples are signalled, and its second connection.
EXTERN4Reconnecting == {<<4, 1>>, <<4, 2>>}
=============================================================================
