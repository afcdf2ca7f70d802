---------------------------- MODULE ExtendedQuery ----------------------------
(***************************************************************************)
(* Prepared statements on one connection of the Postgres proxy: the four   *)
(* maps of ExtendedQueryState and the messages that change them.  The      *)
(* message loop handles one message at a time, so a message is one action; *)
(* what an Execute does upstream is StatementPipeline.                     *)
(*                                                                         *)
(* The client is modelled with what it has been told, since the proxy      *)
(* answers Execute with a RowDescription only if it believes that the      *)
(* client has none yet.                                                    *)
(***************************************************************************)
CONSTANTS Name,       \* names of prepared statements
          Portal,     \* names of portals
          Text,       \* SQL texts
          Selects,    \* those that start with SELECT
          WithRows,   \* those that return rows
          Blocked,    \* those the policy refuses
          Pipelines,  \* does the client send on before it has read the answers
          None,       \* no text
          Refused     \* the client's last Bind of a portal was refused

\* What the client asked for by a Bind: the name of the statement, the text it
\* had then, and whether that had changed since it was last described.
Request == [name : Name, text : Text, stale : BOOLEAN]

ASSUME TextAssumption == Selects \subseteq WithRows /\ WithRows \subseteq Text
ASSUME PipelinesAssumption == Pipelines \in BOOLEAN
ASSUME NoneAssumption ==
  None # Refused /\ {None, Refused} \cap (Text \cup Request) = {}

VARIABLES
  statements,           \* the text of each prepared statement
  portals,              \* the text each portal was bound to
  describedStatements,  \* described_statements
  describedPortals,     \* described_portals
  connected,            \* is the connection open
  inError,              \* client: has there been an error since its last Sync
  asked,                \* client: what its last Bind of each portal asked for
  shownFor,             \* client: the text each statement's description is of
  shown,                \* client: the text each portal's description is of
  reparsed              \* history: statements parsed again since their description

proxyVars == <<statements, portals, describedStatements, describedPortals>>
clientVars == <<inError, asked, shownFor, shown>>
vars == <<proxyVars, connected, clientVars, reparsed>>

Init ==
  /\ statements = [n \in Name |-> None]
  /\ portals = [p \in Portal |-> None]
  /\ describedStatements = {}
  /\ describedPortals = {}
  /\ connected = TRUE
  /\ inError = FALSE
  /\ asked = [p \in Portal |-> None]
  /\ shownFor = [n \in Name |-> None]
  /\ shown = [p \in Portal |-> None]
  /\ reparsed = {}

-----------------------------------------------------------------------------
\* A client that does not pipeline has read every answer: after an error it
\* sends nothing but Sync.
Sends == connected /\ (Pipelines \/ ~inError)

\* An ErrorResponse; the loop goes on with the next message.
Error ==
  /\ inError' = TRUE
  /\ UNCHANGED <<proxyVars, connected, asked, shownFor, shown, reparsed>>

\* Parse: always accepted, the policy is not asked and the description of an
\* earlier statement of the name is kept.
Parse(n, text) ==
  /\ Sends
  /\ statements' = [statements EXCEPT ![n] = text]
  /\ reparsed' = IF shownFor[n] \in {None, text} THEN reparsed \ {n} ELSE reparsed \cup {n}
  /\ UNCHANGED <<portals, describedStatements, describedPortals, connected, clientVars>>

\* The definitions named Faulty... are not part of the model. Each one is the
\* definition that follows it with one plausible mistake, used to confirm that
\* the properties tell the two apart.

\* The mark of the portal's earlier statement is kept.
FaultyMarks(p, n) ==
  describedPortals \cup (IF n \in describedStatements THEN {p} ELSE {})

\* described_portals after a Bind.
Marks(p, n) ==
  (describedPortals \ {p}) \cup (IF n \in describedStatements THEN {p} ELSE {})

\* Bind of a known statement without parameters: the portal gets the text the
\* statement has now.
Bind(p, n) ==
  /\ Sends
  /\ statements[n] # None
  /\ portals' = [portals EXCEPT ![p] = statements[n]]
  /\ describedPortals' = Marks(p, n)
  /\ asked' = [asked EXCEPT ![p] = [name |-> n, text |-> statements[n],
                                    stale |-> n \in reparsed]]
  /\ shown' = [shown EXCEPT ![p] = shownFor[n]]
  /\ UNCHANGED <<statements, describedStatements, connected, inError, shownFor, reparsed>>

\* Bind with parameters, or of an unknown statement: an error, and an earlier
\* portal of the name stays.
RefuseBind(p) ==
  /\ Sends
  /\ asked' = [asked EXCEPT ![p] = Refused]
  /\ inError' = TRUE
  /\ UNCHANGED <<proxyVars, connected, shownFor, shown, reparsed>>

\* Describe of a portal or a statement that is a SELECT: the upstream is asked
\* for its columns. Anything else, or no columns: NoData.
Describable(text) == text \in Selects \ Blocked

DescribePortal(p) ==
  /\ Sends
  /\ Describable(portals[p])
  /\ describedPortals' = describedPortals \cup {p}
  /\ shown' = [shown EXCEPT ![p] = portals[p]]
  /\ UNCHANGED <<statements, portals, describedStatements, connected, inError,
                 asked, shownFor, reparsed>>

\* The mark goes to the other set.
FaultyDescribeStatement(n) ==
  /\ Sends
  /\ Describable(statements[n])
  /\ describedPortals' = describedPortals \cup {n}
  /\ shownFor' = [shownFor EXCEPT ![n] = statements[n]]
  /\ reparsed' = reparsed \ {n}
  /\ UNCHANGED <<statements, portals, describedStatements, connected, inError, asked, shown>>

DescribeStatement(n) ==
  /\ Sends
  /\ Describable(statements[n])
  /\ describedStatements' = describedStatements \cup {n}
  /\ shownFor' = [shownFor EXCEPT ![n] = statements[n]]
  /\ reparsed' = reparsed \ {n}
  /\ UNCHANGED <<statements, portals, describedPortals, connected, inError, asked, shown>>

\* An unknown name, a refusal by the policy, an upstream error or timeout; an
\* unknown portal in Execute; a message or a target that is not supported.
RefuseMessage == Sends /\ Error

\* A client does not execute a portal whose Bind it knows to have failed.
MayExecute(p) == Sends /\ (Pipelines \/ asked[p] # Refused)

\* The portal is looked up by the statement it came from.
FaultyTextOf(p) ==
  IF asked[p] \in {None, Refused} THEN portals[p]
  ELSE IF statements[asked[p].name] # None THEN statements[asked[p].name] ELSE portals[p]

\* The text an Execute runs.
TextOf(p) == portals[p]

Runs(p) == MayExecute(p) /\ TextOf(p) \in Text \ Blocked

\* emit_row_description.
Emits(p) == p \notin describedPortals

\* The statement of the portal runs; the mark of its description is used up.
Execute(p) ==
  /\ Runs(p)
  /\ describedPortals' = describedPortals \ {p}
  /\ shown' = [shown EXCEPT ![p] = None]
  /\ UNCHANGED <<statements, portals, describedStatements, connected, inError,
                 asked, shownFor, reparsed>>

\* The policy refuses it, or it fails: an error, and the mark is used up too.
ExecuteFails(p) ==
  /\ MayExecute(p)
  /\ TextOf(p) \in Text
  /\ describedPortals' = describedPortals \ {p}
  /\ shown' = [shown EXCEPT ![p] = None]
  /\ inError' = TRUE
  /\ UNCHANGED <<statements, portals, describedStatements, connected,
                 asked, shownFor, reparsed>>

\* Portals bound to the statement stay.
CloseStatement(n) ==
  /\ Sends
  /\ statements' = [statements EXCEPT ![n] = None]
  /\ describedStatements' = describedStatements \ {n}
  /\ shownFor' = [shownFor EXCEPT ![n] = None]
  /\ reparsed' = reparsed \ {n}
  /\ UNCHANGED <<portals, describedPortals, connected, inError, asked, shown>>

ClosePortal(p) ==
  /\ Sends
  /\ portals' = [portals EXCEPT ![p] = None]
  /\ describedPortals' = describedPortals \ {p}
  /\ asked' = [asked EXCEPT ![p] = None]
  /\ shown' = [shown EXCEPT ![p] = None]
  /\ UNCHANGED <<statements, describedStatements, connected, inError, shownFor, reparsed>>

\* Sync, or a Query message: ReadyForQuery. Statements and portals stay.
Sync ==
  /\ connected
  /\ inError' = FALSE
  /\ UNCHANGED <<proxyVars, connected, asked, shownFor, shown, reparsed>>

\* Terminate, a malformed message, the end of the session or of the client.
Disconnect ==
  /\ connected
  /\ connected' = FALSE
  /\ UNCHANGED <<proxyVars, clientVars, reparsed>>

Next ==
  \/ \E n \in Name, text \in Text : Parse(n, text)
  \/ \E p \in Portal, n \in Name : Bind(p, n)
  \/ \E p \in Portal : \/ RefuseBind(p) \/ DescribePortal(p) \/ ClosePortal(p)
                       \/ Execute(p) \/ ExecuteFails(p)
  \/ \E n \in Name : DescribeStatement(n) \/ CloseStatement(n)
  \/ RefuseMessage
  \/ Sync
  \/ Disconnect

Spec == Init /\ [][Next]_vars

-----------------------------------------------------------------------------
(* Properties. *)

\* Types of the variables.
TypeOK ==
  /\ statements \in [Name -> Text \cup {None}]
  /\ portals \in [Portal -> Text \cup {None}]
  /\ describedStatements \subseteq Name
  /\ describedPortals \subseteq Portal
  /\ connected \in BOOLEAN
  /\ inError \in BOOLEAN
  /\ asked \in [Portal -> Request \cup {None, Refused}]
  /\ shownFor \in [Name -> Text \cup {None}]
  /\ shown \in [Portal -> Text \cup {None}]
  /\ reparsed \subseteq Name

\* What an Execute runs is the text its statement had when the portal was
\* bound, whatever became of the statement since: parsed again, closed,
\* described.
RunsWhatWasBound ==
  \A p \in Portal : Runs(p) => asked[p] \in Request /\ TextOf(p) = asked[p].text

\* Rows reach the client after exactly one description of them since the
\* portal was last executed: the one Execute adds, or the one the client asked for. The
\* exception is a statement parsed again under its name without being closed:
\* the mark of the old description is kept and the new rows come without one.
RowsDescribedOnce ==
  \A p \in Portal :
    Runs(p) /\ TextOf(p) \in WithRows =>
      IF Emits(p) THEN shown[p] = None
      ELSE shown[p] = TextOf(p) \/ (shown[p] # None /\ asked[p].stale)

\* Unsupported protocol features fail closed: behind a Bind that was refused,
\* an Execute of the portal runs nothing.
UnsupportedFailsClosed ==
  \A p \in Portal : asked[p] = Refused => ~Runs(p)
=============================================================================
