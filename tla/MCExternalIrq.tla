--------------------------- MODULE MCExternalIrq ---------------------------
(* Instance of ExternalIrq for TLC: two single lines above one port. *)
EXTENDS ExternalIrq

MCSingles == {1, 2}
MCPorts == {3}
=============================================================================
