--------------------------- MODULE MCIperfControl ---------------------------
(* Instances of IperfControl for TLC. *)
EXTENDS IperfControl, TLC

\* Launches of the client are interchangeable (not used for liveness).
Symmetry == Permutations(Clients)

\* Both launches use one transfer mode: a bound of the liveness run.
OneMode ==
    \A c, d \in Clients :
        cl[c].mode = cl[d].mode \/ "unset" \in {cl[c].mode, cl[d].mode}
=============================================================================
