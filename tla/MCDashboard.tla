----------------------------- MODULE MCDashboard -------------------------------
(***************************************************************************)
(* The dashboard in three scopes, each with all of the loop and one part   *)
(* of what a user can do: the rows (the tree, searches, filters, pages;    *)
(* the cluster lists two pods in any order), the panel (two pods come and  *)
(* go under the selection while their metrics are asked for) and the       *)
(* screen (menus, shells, children, resizes over a list that changes).     *)
(***************************************************************************)
EXTENDS Dashboard

VARIABLE scope

MCNamespaces == <<"x", "y">>
MCKinds == <<"pods", "events">>

Rec(id, ns, hit) == [id |-> id, namespace |-> ns, matches |-> hit, passes |-> hit]
P1 == Rec("p1", "y", TRUE)
P2 == Rec("p2", "x", FALSE)
E1 == Rec("e1", "y", TRUE)
E2 == Rec("e2", "y", FALSE)

\* The second pod comes and goes, and with it the first namespace.
MCClusters ==
    {[rows |-> [pods |-> s, events |-> <<E2, E1>>, nodes |-> <<>>], namespaces |-> {}] :
       s \in {<<P1>>, <<P2, P1>>}}

Listing == app'.resource = "pods" /\ app'.namespace = All /\ ~app'.treeFocus
Within ==
    CASE scope = "rows"   -> ~app'.panel /\ ~app'.view /\ ~app'.shell /\ ~app'.menu /\ ~resized'
                             /\ app'.expanded \in {{}, {All}, {"y"}}
      [] scope = "panel"  -> Listing /\ ~app'.shell /\ ~app'.menu /\ ~app'.searching
                             /\ ~app'.view /\ ~resized'
      [] scope = "screen" -> Listing /\ ~app'.panel

MCInit ==
    /\ scope \in {"rows", "panel", "screen"}
    /\ Init
MCNext == Next /\ Within /\ UNCHANGED scope
MCSpec == MCInit /\ [][MCNext]_<<vars, scope>>
=============================================================================
