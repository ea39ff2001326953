------------------------------- MODULE MCDos -------------------------------
(***************************************************************************)
(* DosMachine on a stack of six words, a table of four handles with one    *)
(* device, one file of two bytes, one handler, and timers of 5 and 7       *)
(* microseconds per count that overflow after four counts.  The guest may  *)
(* hook the time interrupt: its handler is interrupted again and makes     *)
(* served calls of INT 21h.                                                *)
(***************************************************************************)
EXTENDS DosMachine

MCPeriod(t) == IF t = 1 THEN 5 ELSE 7
MCLen(f) == 2
MCPrograms == {{"cpu"}, {"files"}, {"ports"}}
Config(r, k, s) == [reset |-> r, mask |-> k, start |-> s]
MCConfigs == {Config(TRUE, {}, {}), Config(FALSE, {}, {1}), Config(FALSE, {}, {1, 2}),
              Config(FALSE, {1}, {1, 2}), Config(FALSE, {}, {})}
MCSeeks == {-1, 0, 1}
Bounded == \A h \in Slots : handles[h].pos <= 2
=============================================================================
