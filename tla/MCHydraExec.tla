----------------------------- MODULE MCHydraExec -----------------------------
(***************************************************************************)
(* Instances of HydraExec for TLC.  The 16-bit address space is scaled     *)
(* down: segments 2 and 3 hold the program, 4 a resident library, 5 and 6  *)
(* the overlay area, 8 the ROM, 9 is the segment of the far magic          *)
(* addresses; offsets from 10 on are the near magic window.                *)
(***************************************************************************)
EXTENDS HydraExec

A(cs, ip) == [cs |-> cs, ip |-> ip]

MCMain == A(2, 1)
MCNone == {}

\* Two hooks in two segments, guest functions beside them.
MCHooks == {A(2, 2), A(3, 2)}

\* Functions in the near magic window of the library's segment and above the
\* last far magic address, besides an ordinary one.
MCHighFns == {A(2, 4), A(4, 10), A(9, 6)}

\* Overlays: two stubs, two places for a body.
MCStubs == {A(2, 6), A(3, 6)}
MCBodies == {A(5, 0), A(6, 0)}
MCOverlayFns == {A(5, 4), A(6, 4)}

\* Capture at a guest function, restore at a hooked one.
MCCapture == A(2, 4)
MCEntry == A(2, 2)

MCBoth == {FALSE, TRUE}
MCNoReloc == {FALSE}

=============================================================================
