--------------------------- MODULE MCIperfScreen ---------------------------
(* Instances of IperfScreen for TLC. *)
EXTENDS IperfScreen
=============================================================================
