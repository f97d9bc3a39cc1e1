------------------------------ MODULE MCRoutes ------------------------------
(***************************************************************************)
(* Two of the dashboard's routes for TLC, one of them per behaviour: the   *)
(* hosted gateway, and the pairing of a wallet with a browser.             *)
(***************************************************************************)
EXTENDS HostedGateway, Pairing, TLC

CONSTANTS r1, r2, r3, e1, e2

MCRoute == r1 :> e1 @@ r2 :> e1 @@ r3 :> e1

VARIABLE part

routeVars == <<part, hostedVars, vars>>

\* The part that is not at work is in its initial state.
RoutesInit ==
    /\ part \in {"hosted", "pairing"}
    /\ HostedInit /\ Init

Hosted(A) == part = "hosted" /\ A /\ UNCHANGED <<part, vars>>
Paired(A) == part = "pairing" /\ A /\ UNCHANGED <<part, hostedVars>>

RoutesNext == Hosted(HostedNext) \/ Paired(Next)

\* The fairness of each part, where that part is at work.
RoutesSpec ==
    /\ RoutesInit /\ [][RoutesNext]_routeVars
    /\ \A r \in Request : WF_routeVars(Hosted(handle(r)))
    /\ \A c \in Codes : /\ WF_routeVars(Paired(Poll(c)))
                        /\ WF_routeVars(Paired(Answer(c)))
                        /\ WF_routeVars(Paired(CleanUp(c)))
=============================================================================
