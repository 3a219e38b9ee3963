----------------------------- MODULE MCReadCycle -----------------------------
(***************************************************************************)
(* Instance of ReadCycle: the defaults, and configurations near the limits *)
(* of the budget on either side.  Attempts take the shortest or the        *)
(* longest time their configuration allows.                                *)
(***************************************************************************)
EXTENDS ReadCycle

File(retries, gap, maxWait, readTimeout, responseTimeout, backoff, interval,
     registers) ==
  [retries |-> retries, gap |-> gap, maxWait |-> maxWait,
   readTimeout |-> readTimeout, responseTimeout |-> responseTimeout,
   backoff |-> backoff, interval |-> interval, registers |-> registers]

MCConfigs ==
  { File(0, 0, 0, 0, 0, 0, 0, 2),           \* everything left out
    File(0, 0, 0, 0, 0, 0, 4, 2),           \* close to the budget
    File(2, 0, 0, 0, 0, 66, 1, 1),          \* 998 of 1000 ms
    File(1, 20, 10, 200, 100, 51, 2, 3),    \* limits below their minima
    File(1, 20, 10, 200, 100, 51, 1, 2),    \* too much: two attempts each
    File(2, 0, 0, 0, 0, 200, 1, 1) }        \* too much: the backoff

MCDurations(c, n) == {Shortest(c, n), Longest(c, n)}
=============================================================================
