-------------------------- MODULE MCIperfSettings --------------------------
(* Instances of IperfSettings for TLC. *)
EXTENDS IperfSettings

Plain(flag, arg) == Opt(flag, arg, None)

\* A server's own options, one that only a client may give, and the wrong role.
OfServers ==
    {Plain("s", 1), Plain("B", 1), Plain("D", 1), Plain("p", 5202), Plain("n", 7),
     Plain("c", 1)}

\* Every option that has limits or reaches the server, with arguments on both sides
\* of its limits; of those that stay in their process, some.
OfClients ==
    {Plain("c", 1), Plain("s", 1), Plain("D", 1), Plain("h", 1), Plain("V", 1)}
    \cup {Plain("u", 1), Plain("sctp", 1), Plain("R", 1), Plain("N", 1), Plain("T", 1)}
    \cup {Plain("t", a) : a \in {0, 5, 3600, 3601}}
    \cup {Plain("b", a) : a \in {0, 9}} \cup {Opt("b", 9, m) : m \in {0, 4, 1001}}
    \cup {Plain("n", 7), Plain("k", 3), Plain("S", 16)}
    \cup {Plain("l", a) : a \in {-1, 1, MAX_BLOCKSIZE, MAX_BLOCKSIZE + 1}}
    \cup {Plain("P", a) : a \in {2, 129}}
    \cup {Plain("w", 4096), Plain("M", 1400), Plain("C", 1), Plain("Z", 1)}
    \cup {Plain("L", a) : a \in {0, 77}}
    \cup {Plain("O", a) : a \in {2, 61}}
    \cup {Opt("A", 1, m) : m \in {None, 3, 1025}}
    \cup {Plain("i", a) : a \in {0, 5, 50}}
=============================================================================
