------------------------------ MODULE OutboundMC ------------------------------
(***************************************************************************)
(* One instance for what Central Admin calls: the breaker around an        *)
(* adapter, the adapter's reads through SafeHttp, the Keycloak client, the *)
(* sign-in flow and the Firebase bridge.  They share no state, so only the *)
(* component in focus moves: the graph is the sum of theirs.               *)
(***************************************************************************)
EXTENDS ResilientCall, StockRead, KeycloakClient, OidcFlow, FirebaseBridge

VARIABLE focus

\* SafeHttp: the first and last addresses of the ranges that ssrf.ts draws, in
\* every form, alone and as a second answer.
Documentation == V4(<<203, 0, 113, 10>>)

Inward ==
    {V4(<<0, 0, 0, 0>>), V4(<<10, 0, 0, 1>>), V4(<<100, 64, 0, 0>>),
     V4(<<100, 127, 255, 255>>), V4(<<127, 0, 0, 1>>), V4(<<169, 254, 169, 254>>),
     V4(<<172, 16, 0, 0>>), V4(<<172, 31, 255, 255>>), V4(<<192, 168, 0, 1>>),
     V6(<<>>, TRUE, <<>>, <<>>), V6(<<>>, TRUE, <<1>>, <<>>),
     V6(<<>>, TRUE, <<65535, 2560, 1>>, <<>>), V6(<<>>, TRUE, <<65535>>, <<10, 0, 0, 1>>),
     V6(<<65152>>, TRUE, <<1>>, <<>>), V6(<<65215>>, TRUE, <<1>>, <<>>),
     V6(<<64512>>, TRUE, <<1>>, <<>>), V6(<<65023>>, TRUE, <<1>>, <<>>),
     V6(<<8193, 3512>>, FALSE, <<>>, <<>>), NotAnIp}

\* A name may also not resolve; a public answer does not make up for others.
Names ==
    {<<>>, <<Documentation>>, <<Documentation, V4(<<10, 0, 0, 1>>)>>}
        \cup {<<ip>> : ip \in Inward}

-----------------------------------------------------------------------------
OutboundInit ==
    /\ Init /\ StockInit /\ KcInit /\ OidcInit /\ BridgeInit
    /\ focus \in {"breaker", "stock", "keycloak", "oidc", "bridge"}

Frame(f, rest) == focus = f /\ UNCHANGED <<focus, rest>>

OutboundNext ==
    \/ Frame("breaker", <<stockVars, kcVars, oidcVars, bridgeVars>>) /\ Next
    \/ Frame("stock", <<vars, kcVars, oidcVars, bridgeVars>>) /\ StockNext
    \/ Frame("keycloak", <<vars, stockVars, oidcVars, bridgeVars>>) /\ KcNext
    \/ Frame("oidc", <<vars, stockVars, kcVars, bridgeVars>>) /\ OidcNext
    \/ Frame("bridge", <<vars, stockVars, kcVars, oidcVars>>) /\ BridgeNext

OutboundSpec ==
    /\ OutboundInit
    /\ [][OutboundNext]_<<vars, stockVars, kcVars, oidcVars, bridgeVars, focus>>
    /\ Fairness /\ StockFairness /\ KcFairness /\ OidcFairness
-----------------------------------------------------------------------------
(* Properties *)

\* Every variable of each component has its type, those of the breaker apart.
OutboundTypeOK == StockTypeOK /\ KcTypeOK /\ OidcTypeOK /\ BridgeTypeOK

(***************************************************************************)
(* What is sent again is bounded: the adapter and kcRequest implement the  *)
(* same contract, one repetition after a 401, with another token.          *)
(***************************************************************************)
RetriesAreBounded == RereadsAreBounded /\ ResendIsBounded

(***************************************************************************)
(* Reads of the adapter and requests to Keycloak end, but for a body that  *)
(* nobody times.                                                           *)
(***************************************************************************)
OutboundCallsEnd == ReadEnds /\ KcRequestEnds
=============================================================================
