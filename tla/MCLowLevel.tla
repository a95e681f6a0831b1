----------------------------- MODULE MCLowLevel -----------------------------
(* Values for the constants of LowLevel that a cfg cannot write.           *)
EXTENDS LowLevel

\* The programs that compute, each beside the console, and two that print beside
\* each other.  P5 ends, the others do not.
MCSessions == {<<main_P3>>, <<main_P4>>, <<main_P5>>, <<main_P2, main_P1>>}
=============================================================================
