--------------------------- MODULE MCCollaboration ---------------------------
(***************************************************************************)
(* Small instances of Collaboration for TLC.                               *)
(***************************************************************************)
EXTENDS Collaboration, MCSaga

\* Everything the partners may say about one order, the message outside the
\* contract included.
PeerInputs ==
  HappyPath(o1) \cup FailurePath(o1)
  \cup {m \in Misfits(o1) : m.type = "EXECUTION_QUEUED"}
=============================================================================
