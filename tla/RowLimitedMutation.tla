------------------------- MODULE RowLimitedMutation -------------------------
(***************************************************************************)
(* What the proxy promises of a row-limited mutation, with nothing of how  *)
(* it keeps the promise: it runs in a transaction, never by itself; it is  *)
(* committed only if it changed no more rows than the policy allows and    *)
(* nothing else was said of it; what is said of it is said once and is     *)
(* what became of it, for good.  StatementPipeline and MySqlPipeline       *)
(* implement this specification.                                           *)
(***************************************************************************)
CONSTANT Statement   \* statements a client may send

VARIABLES stage,     \* "new", or is the statement "held" to the promise or "free"
          effect,    \* its change: none, open within or over the limit, durable
          word       \* what the audit event and the client are told of it

abstractVars == <<stage, effect, word>>

Held == {s \in Statement : stage[s] = "held"}

Init ==
  /\ stage = [s \in Statement |-> "new"]
  /\ effect = [s \in Statement |-> "none"]
  /\ word = [s \in Statement |-> "none"]

Arrive(s, t) ==
  /\ stage[s] = "new"
  /\ stage' = [stage EXCEPT ![s] = t]
  /\ UNCHANGED <<effect, word>>

\* The statement runs, though it may have been given up before.
Change(s, e) ==
  /\ s \in Held
  /\ effect[s] = "none"
  /\ effect' = [effect EXCEPT ![s] = e]
  /\ UNCHANGED <<stage, word>>

Becomes(S, e) ==
  /\ effect' = [s \in Statement |-> IF s \in S THEN e ELSE effect[s]]
  /\ UNCHANGED <<stage, word>>

Commit(S) ==
  /\ \A s \in S : s \in Held /\ effect[s] = "open" /\ word[s] = "none"
  /\ Becomes(S, "durable")

Undo(S) ==
  /\ \A s \in S : s \in Held /\ effect[s] \in {"open", "over"}
  /\ Becomes(S, "none")

\* It is said to be allowed exactly if it is committed.
Say(s, w) ==
  /\ s \in Held
  /\ word[s] = "none"
  /\ w = "allowed" <=> effect[s] = "durable"
  /\ word' = [word EXCEPT ![s] = w]
  /\ UNCHANGED <<stage, effect>>

\* Until something was said of it a statement may be let go: what the proxy
\* then hears of it need not be its answer.
LetGo(s) ==
  /\ s \in Held
  /\ word[s] = "none"
  /\ stage' = [stage EXCEPT ![s] = "free"]
  /\ effect' = [effect EXCEPT ![s] = "none"]
  /\ UNCHANGED word

Next ==
  \/ \E S \in SUBSET Statement : Commit(S) \/ Undo(S)
  \/ \E s \in Statement : \/ \E t \in {"held", "free"} : Arrive(s, t)
                          \/ \E e \in {"open", "over"} : Change(s, e)
                          \/ \E w \in {"allowed", "denied"} : Say(s, w)
                          \/ LetGo(s)

Spec == Init /\ [][Next]_abstractVars
=============================================================================
