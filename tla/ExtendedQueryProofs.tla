------------------------- MODULE ExtendedQueryProofs -------------------------
(***************************************************************************)
(* The prepared statements of a client that reads every answer before it   *)
(* sends on: what an Execute runs, and that its rows are described once.   *)
(***************************************************************************)
EXTENDS ExtendedQuery, TLAPS

\* A portal holds what its last accepted Bind asked for.
PortalHoldsBound ==
  \A p \in Portal :
    /\ asked[p] = None => portals[p] = None
    /\ asked[p] \in Request => portals[p] = asked[p].text

\* The proxy's marks are what the client has been told.
MarksAreTold ==
  /\ \A n \in Name : n \in describedStatements <=> shownFor[n] # None
  /\ \A p \in Portal : p \in describedPortals <=> shown[p] # None

\* A description the client holds is of the present text, or of one that was
\* replaced by a Parse.
StaleIsReparsed ==
  /\ \A n \in Name : shownFor[n] \in {None, statements[n]} \/ n \in reparsed
  /\ \A p \in Portal :
       asked[p] \in Request => shown[p] \in {None, portals[p]} \/ asked[p].stale

IInv == TypeOK /\ PortalHoldsBound /\ MarksAreTold /\ StaleIsReparsed

USE NoneAssumption, TextAssumption, PipelinesAssumption

-----------------------------------------------------------------------------
LEMMA InitIInv == Init => IInv
BY DEF Init, IInv, TypeOK, PortalHoldsBound, MarksAreTold, StaleIsReparsed, Request

LEMMA NextType == TypeOK /\ [Next]_vars => TypeOK'
<1> SUFFICES ASSUME TypeOK, [Next]_vars PROVE TypeOK'
  OBVIOUS
<1> USE DEF TypeOK, proxyVars, clientVars, Request
<1>1. ASSUME NEW n \in Name, NEW text \in Text, Parse(n, text) PROVE TypeOK'
  BY <1>1 DEF Parse
<1>2. ASSUME NEW p \in Portal, NEW n \in Name, Bind(p, n) PROVE TypeOK'
  <2>1. [name |-> n, text |-> statements[n], stale |-> n \in reparsed] \in Request
    BY <1>2 DEF Bind
  <2> QED
    BY <1>2, <2>1 DEF Bind, Marks
<1>3. ASSUME NEW p \in Portal, RefuseBind(p) PROVE TypeOK'
  BY <1>3 DEF RefuseBind
<1>4. ASSUME NEW p \in Portal, DescribePortal(p) PROVE TypeOK'
  BY <1>4 DEF DescribePortal, Describable
<1>5. ASSUME NEW n \in Name, DescribeStatement(n) PROVE TypeOK'
  BY <1>5 DEF DescribeStatement, Describable
<1>6. ASSUME NEW p \in Portal, Execute(p) \/ ExecuteFails(p) \/ ClosePortal(p) PROVE TypeOK'
  BY <1>6 DEF Execute, ExecuteFails, ClosePortal
<1>7. ASSUME NEW n \in Name, CloseStatement(n) PROVE TypeOK'
  BY <1>7 DEF CloseStatement
<1>8. CASE RefuseMessage \/ Sync \/ Disconnect \/ UNCHANGED vars
  BY <1>8 DEF RefuseMessage, Error, Sync, Disconnect, vars
<1> QED
  BY <1>1, <1>2, <1>3, <1>4, <1>5, <1>6, <1>7, <1>8 DEF Next

LEMMA NextIInv == IInv /\ [Next]_vars => IInv'
<1> SUFFICES ASSUME IInv, [Next]_vars
             PROVE (PortalHoldsBound /\ MarksAreTold /\ StaleIsReparsed)'
  BY NextType DEF IInv
<1> USE DEF PortalHoldsBound, MarksAreTold, StaleIsReparsed, proxyVars, clientVars
<1>t. TypeOK /\ PortalHoldsBound /\ MarksAreTold /\ StaleIsReparsed
  BY DEF IInv
<1> DEFINE Goal == (PortalHoldsBound /\ MarksAreTold /\ StaleIsReparsed)'
<1>1. ASSUME NEW n \in Name, NEW text \in Text, Parse(n, text) PROVE Goal
  BY <1>1, <1>t DEF Parse, TypeOK
<1>2. ASSUME NEW p \in Portal, NEW n \in Name, Bind(p, n) PROVE Goal
  <2> DEFINE req == [name |-> n, text |-> statements[n], stale |-> n \in reparsed]
  <2>1. /\ req \in Request /\ req # None /\ req # Refused
        /\ req.text = statements[n] /\ req.stale = (n \in reparsed)
    <3>1. statements[n] \in Text
      BY <1>2, <1>t DEF Bind, TypeOK
    <3>2. req \in Request
      BY <3>1 DEF Request
    <3> QED
      BY <3>2
  <2>2. /\ asked' = [asked EXCEPT ![p] = req]
        /\ portals' = [portals EXCEPT ![p] = statements[n]]
        /\ shown' = [shown EXCEPT ![p] = shownFor[n]]
        /\ describedPortals' = Marks(p, n)
        /\ UNCHANGED <<statements, describedStatements, shownFor, reparsed>>
    BY <1>2 DEF Bind
  <2> HIDE DEF req
  <2>3. PortalHoldsBound'
    BY <1>t, <2>1, <2>2 DEF TypeOK
  <2>4. MarksAreTold'
    BY <1>t, <2>2 DEF TypeOK, Marks
  <2>5. StaleIsReparsed'
    BY <1>t, <2>1, <2>2 DEF TypeOK
  <2> QED
    BY <2>3, <2>4, <2>5
<1>3. ASSUME NEW p \in Portal, RefuseBind(p) PROVE Goal
  BY <1>3, <1>t DEF RefuseBind, TypeOK
<1>4. ASSUME NEW p \in Portal, DescribePortal(p) PROVE Goal
  BY <1>4, <1>t DEF DescribePortal, Describable, TypeOK
<1>5. ASSUME NEW n \in Name, DescribeStatement(n) PROVE Goal
  BY <1>5, <1>t DEF DescribeStatement, Describable, TypeOK
<1>6. ASSUME NEW p \in Portal, Execute(p) \/ ExecuteFails(p) \/ ClosePortal(p) PROVE Goal
  BY <1>6, <1>t DEF Execute, ExecuteFails, ClosePortal, TypeOK
<1>7. ASSUME NEW n \in Name, CloseStatement(n) PROVE Goal
  BY <1>7, <1>t DEF CloseStatement, TypeOK
<1>8. CASE RefuseMessage \/ Sync \/ Disconnect \/ UNCHANGED vars
  BY <1>8, <1>t DEF RefuseMessage, Error, Sync, Disconnect, vars
<1> QED
  BY <1>1, <1>2, <1>3, <1>4, <1>5, <1>6, <1>7, <1>8 DEF Next

LEMMA InductiveInvariant == Spec => []IInv
BY InitIInv, NextIInv, PTL DEF Spec

-----------------------------------------------------------------------------
\* The maps of the message loop keep their types.
THEOREM PreparedTypesCorrect == Spec => []TypeOK
<1>1. IInv => TypeOK
  BY DEF IInv
<1> QED
  BY <1>1, InductiveInvariant, PTL

\* An Execute runs the text its portal was bound to.
THEOREM ExecuteRunsWhatWasBound == ~Pipelines /\ Spec => []RunsWhatWasBound
<1> SUFFICES ASSUME ~Pipelines PROVE Spec => []RunsWhatWasBound
  OBVIOUS
<1>1. IInv => RunsWhatWasBound
  BY DEF IInv, PortalHoldsBound, RunsWhatWasBound, Runs, MayExecute, TextOf, TypeOK
<1> QED
  BY <1>1, InductiveInvariant, PTL

\* The rows of an Execute are described exactly once, except those of a
\* statement that was parsed again under its name.
THEOREM RowsAreDescribedOnce == ~Pipelines /\ Spec => []RowsDescribedOnce
<1> SUFFICES ASSUME ~Pipelines PROVE Spec => []RowsDescribedOnce
  OBVIOUS
<1>1. IInv => RowsDescribedOnce
  BY DEF IInv, PortalHoldsBound, MarksAreTold, StaleIsReparsed, RowsDescribedOnce,
         Runs, Emits, MayExecute, TextOf, TypeOK
<1> QED
  BY <1>1, InductiveInvariant, PTL
=============================================================================
