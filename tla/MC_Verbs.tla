------------------------------ MODULE MC_Verbs ------------------------------
(* One host with two application threads, and the driver of its peer. *)
EXTENDS Verbs

CONSTANTS p1, p2, p3

MCPage == {p1, p2, p3}

\* No memory, a page, and an area that takes two commands
MCAreas == {<<>>, <<p1>>, <<p2, p3>>}

MCThreads == {"memory", "queue pairs"}

\* Everything a command may say in this instance
MCCmds ==
    [op : {"mtt"}, key : 0 .. 1023, base : 0 .. PGT_LEN - 1]
    \cup [op : {"pgt"}, index : 0 .. PGT_LEN - 1, count : 1 .. 2] \cup {[op |-> "qp"]}

Qp(n, k, p, r) == [node |-> n, key |-> k, peer |-> p, recvs |-> r]

Use(plan, handshake, destroy) == [plan |-> plan, handshake |-> handshake, destroy |-> destroy]

NoPairs == Use(<<>>, TRUE, FALSE)
One     == Use(<<Qp(1, 1, 0, 0)>>, TRUE, FALSE)

\* A pair of queue pairs, where each side posts receives
Pair(r, handshake, destroy) == Use(<<Qp(1, 1, 2, r), Qp(2, 3, 1, r)>>, handshake, destroy)

\* Two pairs: with k = 26 the two numbers on node 1 have the same port.
Two(k) ==
    Use(<<Qp(1, 1, 3, 1), Qp(1, k, 4, 0), Qp(2, 3, 1, 0), Qp(2, 4, 2, 1)>>, TRUE, FALSE)

\* A pair, and then another one with the same indices
Again == Use(<<Qp(1, 1, 2, 1), Qp(2, 3, 1, 1), Qp(1, 5, 4, 1), Qp(2, 6, 3, 1)>>, TRUE, TRUE)

Scenario(r, u, device, d) == [regs |-> r, use |-> u, device |-> device, debug |-> d]

MCScenarios ==
    {Scenario(2, One, FALSE, d) : d \in BOOLEAN}
    \cup {Scenario(2, NoPairs, TRUE, TRUE)}
    \cup {Scenario(0, u, FALSE, TRUE) :
             u \in {Pair(2, TRUE, FALSE), Pair(1, FALSE, FALSE), Pair(1, TRUE, TRUE),
                    Two(9), Two(26)}}

MCReuse == {Scenario(0, Again, FALSE, TRUE)}
=============================================================================
