---------------------------- MODULE MCDhcpClient -----------------------------
(***************************************************************************)
(* DhcpClient for TLC.                                                     *)
(***************************************************************************)
EXTENDS DhcpClient, TLC

Symmetry == Permutations(Servers)

\* A short lease with the times of the server, and one with a network mask of
\* 32 bits and the times of the client: its T1 and T2 are equal.
ShortGrants == {[lease |-> 4, t1 |-> 1, t2 |-> 2, mask |-> 24],
                [lease |-> 2, t1 |-> 0, t2 |-> 0, mask |-> 32]}

\* A longer lease, whose times are in order, and one that does not end.
AllGrants == ShortGrants \cup
                {[lease |-> 3, t1 |-> 0, t2 |-> 0, mask |-> 24],
                 [lease |-> 31, t1 |-> 0, t2 |-> 0, mask |-> 24]}
=============================================================================
