--------------------------- MODULE MCExtendedQuery ---------------------------
EXTENDS ExtendedQuery, TLC

CONSTANTS select1, select2, returning, blocked

MCText == {select1, select2, returning, blocked}
MCSelects == {select1, select2}
MCWithRows == {select1, select2, returning}
MCBlocked == {blocked}

MCSymmetry == Permutations(Name) \cup Permutations(Portal) \cup Permutations(MCSelects)
=============================================================================
