------------------------ MODULE MCStatementPipeline -------------------------
EXTENDS StatementPipeline, TLC

CONSTANTS q1, q2, q3

OneStatement == {q1}
ThreeStatements == {q1, q2, q3}
MCRowCounts == {1, 2}

\* Statements are interchangeable until they are sent.
MCSymmetry == Permutations(ThreeStatements)
=============================================================================
