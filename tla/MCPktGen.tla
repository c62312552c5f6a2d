------------------------------ MODULE MCPktGen -------------------------------
(* Small instances of PktGen.                                               *)
EXTENDS PktGen

\* Packets of two and three beats, with a full and a padded last beat.
TwoTraces == {<<5>>, <<8, 9>>, <<7, 5, 11>>}
=============================================================================
