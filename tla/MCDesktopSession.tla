-------------------------- MODULE MCDesktopSession --------------------------
EXTENDS DesktopSession, TLC

CONSTANTS w1, w2, p1, p2, fresh, mine, theirs

MCWindow == {w1, w2}
MCProject == {p1, p2}
MCRevision == {fresh, mine, theirs}
MCSymmetry == Permutations(MCWindow) \cup Permutations(MCProject)
                \cup Permutations({mine, theirs})
=============================================================================
