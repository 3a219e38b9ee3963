--------------------------- MODULE WritePriority ---------------------------
(***************************************************************************)
(* What the gateway promises about writes and reads on the shared bus,     *)
(* without saying how: a caller that asks for priority gets a window of    *)
(* Timeout clock steps in which no read cycle starts, and the cycle that   *)
(* was under way when it asked is told to stop.  ReadGate implements this. *)
(***************************************************************************)
EXTENDS Naturals

CONSTANTS
  Holders,   \* goroutines that put writes ahead of reads
  Timeout    \* write_priority_timeout, in clock steps

VARIABLES
  window,    \* window[h]: clock steps of priority h still has, 0 if none
  cycle      \* the read cycle: "none", "running" or "preempted"

vars == <<window, cycle>>

Init ==
  /\ window = [h \in Holders |-> 0]
  /\ cycle = "none"

\* A cycle starts only when nobody has priority.
Begin ==
  /\ cycle = "none"
  /\ \A h \in Holders : window[h] = 0
  /\ cycle' = "running"
  /\ UNCHANGED window

End ==
  /\ cycle # "none"
  /\ cycle' = "none"
  /\ UNCHANGED window

\* Taking priority also stops the cycle under way.
Take(h) ==
  /\ window' = [window EXCEPT ![h] = Timeout]
  /\ cycle' = IF cycle = "running" THEN "preempted" ELSE cycle

Drop(h) ==
  /\ window' = [window EXCEPT ![h] = 0]
  /\ UNCHANGED cycle

Tick ==
  /\ window' = [h \in Holders |-> IF window[h] > 0 THEN window[h] - 1 ELSE 0]
  /\ UNCHANGED cycle

Next ==
  \/ Begin
  \/ End
  \/ Tick
  \/ \E h \in Holders : Take(h) \/ Drop(h)

Spec == Init /\ [][Next]_vars
=============================================================================
