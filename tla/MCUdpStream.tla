---------------------------- MODULE MCUdpStream ----------------------------
(* Instances of UdpStream for TLC. *)
EXTENDS UdpStream
=============================================================================
