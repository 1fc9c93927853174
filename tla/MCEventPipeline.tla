-------------------------- MODULE MCEventPipeline --------------------------
(***************************************************************************)
(* The instance of EventPipeline for TLC.                                  *)
(***************************************************************************)
EXTENDS EventPipeline, TLC

CONSTANTS o1, o2, r1, s1

\* Request and socket are about the same order.
FirstOrder == [x \in Requests \cup Sockets |-> o1]
=============================================================================
