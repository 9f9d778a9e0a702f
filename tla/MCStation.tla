------------------------------ MODULE MCStation ------------------------------
(* Instances of Station for TLC: the frames a remote station may send.     *)
EXTENDS Station

CONSTANTS NRs, NSs, Kinds, p1, d1

MCPeers == {p1}
MCData == {d1}

\* Only S and I frames carry N(R); only I frames carry N(S) and data.
MCFrames ==
    LET F(kinds, pfs, nss, nrs, ds) ==
            [kind : kinds \cap Kinds, peer : Peers, pf : pfs,
             ns : nss, nr : nrs, data : ds]
    IN  F(UKind, BOOLEAN, {0}, {0}, {Empty})
          \cup F({"UI"}, {FALSE}, {0}, {0}, {Empty})
          \cup F(SKind, BOOLEAN, {0}, NRs, {Empty})
          \cup F({"I"}, BOOLEAN, NSs, NRs, Payload)
=============================================================================
