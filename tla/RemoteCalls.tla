---------------------------- MODULE RemoteCalls -----------------------------
(***************************************************************************)
(* What the simulator interface promises to the program that calls it:     *)
(* remote calls made one at a time, each executed once, in the order of    *)
(* the program, and finished before the call returns.                      *)
(***************************************************************************)
EXTENDS Naturals

VARIABLES calls,     \* the number of calls of the program
          executed,  \* how many calls the simulator has executed
          returned   \* how many calls have returned to the program

vars == <<calls, executed, returned>>

Init == calls \in Nat /\ executed = 0 /\ returned = 0

Execute ==
  /\ executed = returned /\ executed < calls
  /\ executed' = executed + 1
  /\ UNCHANGED <<calls, returned>>

Return ==
  /\ returned < executed
  /\ returned' = executed
  /\ UNCHANGED <<calls, executed>>

Next == Execute \/ Return

\* Nothing is promised of when.
SafeSpec == Init /\ [][Next]_vars

Spec == SafeSpec /\ WF_vars(Next)
=============================================================================
