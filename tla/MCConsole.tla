----------------------------- MODULE MCConsole -----------------------------
EXTENDS Console, TLC

MCStored ==
  [l \in Lists |-> CASE l = "audits" -> 1 .. 4 [] l = "sessions" -> {} [] OTHER -> {1}]
MCComes ==
  [l \in Lists |-> CASE l = "audits" -> {5} [] l = "sessions" -> {} [] OTHER -> {2}]
MCMatches == [f \in {"any", "odd"} |-> IF f = "odd" THEN {1, 3} ELSE 1 .. 5]

\* A user keeps to the sessions and one other page.
MCVisits == {{Sessions, t} : t \in TABS \ {Sessions}}

\* Before-rows of the captured events: the characters a CSV file gives a meaning
\* to, at the ends of a text and side by side, in keys and in values; null, the
\* empty text and keys that only some of the rows have.  An INSERT has no rows.
MCBefore ==
  3 :> << [keys |-> <<<<"a">>, <<"quote">>>>,
           at |-> <<"a">> :> Null @@ <<"quote">> :> <<"quote", "comma", "quote">>],
          [keys |-> <<<<"quote">>, <<"newline">>>>,
           at |-> <<"quote">> :> <<"newline", "quote">> @@ <<"newline">> :> << >>] >>
  @@ 4 :> << >>
=============================================================================
