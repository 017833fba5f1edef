------------------------------- MODULE MCBoard -------------------------------
(***************************************************************************)
(* The periods are the code's in units of 100 ms, but for the fifteen      *)
(* minutes the node asks for, which become two and a half.                 *)
(***************************************************************************)
EXTENDS Board

\* Two colours asked for; faults for all five samples of a measurement; 100 ms
\* during which the task or the daemon is late.
FewOfEach == [update |-> 2, fault |-> 5, lag |-> 1]
=============================================================================
