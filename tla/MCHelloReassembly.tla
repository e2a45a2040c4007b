------------------------- MODULE MCHelloReassembly -------------------------
(* A small instance of HelloReassembly for TLC: eight sequence numbers,    *)
(* and an initial one from which a connection crosses their wrap; a        *)
(* ClientHello of two units, with a unit before and one after; servers     *)
(* whose window does not take a whole hello, or does.                      *)
EXTENDS HelloReassembly, TLC

MCIsns == {5}
MCHello == 2 :> 2
MCWindows == {1, 2}
MCLargeWindow == {2}
=============================================================================
