----------------------------- MODULE MCHostDriver -----------------------------
(***************************************************************************)
(* Instances of HostDriver for TLC.  Functions are numbers: 0 is main, 1   *)
(* and 2 hooked functions, 3 plain guest code (or a raw-code slot), 5 to 7 *)
(* overlay functions behind stubs of the same number.                      *)
(***************************************************************************)
EXTENDS HostNesting

\* Where hooks call and jump: a plain function, and a hooked one.
MCTargets == {Entry(3), Entry(1)}
MCNoStubs == [s \in {} |-> 0]
MCTwoOverlays == [s \in {5, 6, 7} |-> IF s = 7 THEN 2 ELSE 1]
MCCapture == Entry(3)
MCRestore == Entry(0)
=============================================================================
