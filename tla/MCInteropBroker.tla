---------------------------- MODULE MCInteropBroker ----------------------------
(* Small instances of InteropBroker. *)
EXTENDS InteropBroker, TLC

CONSTANTS c1, c2, t1, w1, w2, h1, h2, m1, m2, big

\* Connections, prefixes, channels and the messages of legal size are
\* interchangeable: the specification only compares them.
Symmetry ==
    Permutations({c1, c2}) \union Permutations({w1, w2})
        \union Permutations({h1, h2}) \union Permutations({m1, m2})
================================================================================
