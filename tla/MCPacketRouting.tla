--------------------------- MODULE MCPacketRouting ---------------------------
(* Two characters one after the other, and two packets per update.         *)
EXTENDS PacketRouting
=============================================================================
