--------------------------- MODULE MCUDPReceiver ---------------------------
(***************************************************************************)
(* A receiver on host 1, whose application sends from port 1, with senders *)
(* on the same port of another host, on another port of the same host, and *)
(* itself.                                                                 *)
(***************************************************************************)
EXTENDS UDPReceiver

MCSources == {<<1, 1>>, <<1, 2>>, <<2, 1>>}
MCLocalIPs == {1}
OtherSender == {<<2, 2>>}
=============================================================================
