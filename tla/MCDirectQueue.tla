--------------------------- MODULE MCDirectQueue ---------------------------
(***************************************************************************)
(* A small instance of OperationQueue driven without QueueBackgroundTask:  *)
(* two tasks made of start(), and stop().                                  *)
(***************************************************************************)
EXTENDS OperationQueue

MCBackoff == [n \in 0 .. MaxRetries |-> 2 ^ n]

=============================================================================
