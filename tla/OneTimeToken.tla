---------------------------- MODULE OneTimeToken ----------------------------
(***************************************************************************)
(* What the broker promises about a one-time access token, with nothing of *)
(* how it keeps the promise: a token is issued once, is redeemed by at     *)
(* most one request, and only the request that redeemed it may open a      *)
(* session for it.  AccessTokens implements this specification.            *)
(***************************************************************************)
CONSTANTS Token,    \* every token that can ever be issued
          Holder,   \* requests that try to redeem a token
          None      \* neither a token nor a holder

VARIABLES status,   \* where each token is in its life
          holder,   \* the request that redeemed each token, or None
          opened    \* the token for which each request opened a session, or None

abstractVars == <<status, holder, opened>>

Init ==
  /\ status = [t \in Token |-> "unissued"]
  /\ holder = [t \in Token |-> None]
  /\ opened = [h \in Holder |-> None]

\* The broker writes the token down.
IssueToken(t) ==
  /\ status[t] = "unissued"
  /\ status' = [status EXCEPT ![t] = "issued"]
  /\ UNCHANGED <<holder, opened>>

\* One request takes the token; no other request can take it afterwards.
Redeem(t, h) ==
  /\ status[t] = "issued"
  /\ \A u \in Token : holder[u] # h
  /\ status' = [status EXCEPT ![t] = "redeemed"]
  /\ holder' = [holder EXCEPT ![t] = h]
  /\ UNCHANGED opened

\* Tokens nobody redeemed are forgotten.
Withdraw(T) ==
  /\ \A t \in T : status[t] = "issued"
  /\ status' = [t \in Token |-> IF t \in T THEN "withdrawn" ELSE status[t]]
  /\ UNCHANGED <<holder, opened>>

\* The request that holds a token opens its session.
Open(h, t) ==
  /\ holder[t] = h
  /\ opened[h] = None
  /\ opened' = [opened EXCEPT ![h] = t]
  /\ UNCHANGED <<status, holder>>

Next ==
  \/ \E t \in Token : IssueToken(t)
  \/ \E t \in Token, h \in Holder : Redeem(t, h) \/ Open(h, t)
  \/ \E T \in SUBSET Token : Withdraw(T)

Spec == Init /\ [][Next]_abstractVars
=============================================================================
