-------------------------- MODULE MCMySqlPipeline ---------------------------
EXTENDS MySqlPipeline, TLC

CONSTANTS q1, q2

TwoStatements == {q1, q2}
MCRowCounts == {1, 2}

\* Statements are interchangeable until they are sent.
MCSymmetry == Permutations(TwoStatements)
=============================================================================
