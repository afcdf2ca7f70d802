------------------------- MODULE MCSessionLifecycle -------------------------
EXTENDS SessionLifecycle, TLC

CONSTANTS s1, s2, c1, c2, t1, t2

OneSession == {s1}
MCSession == {s1, s2}
OneConnection == {c1}
MCConnection == {c1, c2}
OneTarget == {t1}
MCTarget == {t1, t2}

\* Connections are interchangeable.
MCSymmetry == Permutations(MCConnection) \cup Permutations(MCTarget)
=============================================================================
