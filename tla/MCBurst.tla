------------------------------- MODULE MCBurst -------------------------------
EXTENDS Burst, TLC
CONSTANTS Ann, Bob

Post(u, t) == [uid |-> u, ts |-> t, direct |-> FALSE, edit |-> FALSE, command |-> FALSE,
               replay |-> FALSE]
Kinds(u) ==
    {Post(u, t) : t \in 1..2} \cup {[Post(u, t) EXCEPT !.direct = TRUE] : t \in 1..2}
    \cup {[Post(u, 2) EXCEPT !.edit = TRUE], [Post(u, 2) EXCEPT !.edit = TRUE, !.direct = TRUE],
          [Post(u, 1) EXCEPT !.command = TRUE], [Post(u, 1) EXCEPT !.replay = TRUE]}
MCEntries == Kinds(Ann) \cup Kinds(Bob)
Symmetry == Permutations({Ann, Bob})
=============================================================================
