--------------------------- MODULE MCOutputStream ---------------------------
(***************************************************************************)
(* Instances of OutputStream for TLC.  The queue holds two or three        *)
(* messages, a turn takes one or two of them, and the stream is a few      *)
(* messages longer than the queue, so that it overflows with and without   *)
(* a connection and a snapshot finds it in every condition.                *)
(***************************************************************************)
EXTENDS OutputStream, TLC

\* Terminal sizes, and viewers, are interchangeable.
Symmetry == Permutations(Size) \cup Permutations(Viewer)
=============================================================================
