--------------------------- MODULE MCAccessTokens ---------------------------
EXTENDS AccessTokens, TLC

CONSTANTS d1, d2, r1, r2, i1, i2

MCDelivery == {d1, d2}
MCRedeemer == {r1, r2}
NoRedeemer == {}
OneIssue == {i1}
TwoIssues == {i1, i2}
BothSignals == <<"github_issue_open", "github_issue_labels">>
LabelsOnly == <<"github_issue_labels">>
NoSignals == << >>

\* Deliveries are interchangeable, and so are requests.
MCSymmetry == Permutations(MCDelivery) \cup Permutations(MCRedeemer)
=============================================================================
