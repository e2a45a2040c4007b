------------------------------ MODULE MCNfqMain ------------------------------
(***************************************************************************)
(* Instances of NfqMain: two names for timers, two periods.                *)
(***************************************************************************)
EXTENDS NfqMain

CONSTANTS t1, t2

MCNames == {t1, t2}
MCPeriods == {1, 2}
MCSystems == {"nfq", "offline", "divert", "windivert"}
MCGarbage == {"ENOBUFS", "other"}
=============================================================================
