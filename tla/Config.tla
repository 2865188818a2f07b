--------------------------------- MODULE Config ---------------------------------
(***************************************************************************)
(* config/env.ts: the environment that a deployment gives the API, and     *)
(* what the API makes of it.  Each rule looks at two or three settings; a  *)
(* set of them is accepted when no rule objects.  The properties are about *)
(* what the accepted configuration lets the routes do.                     *)
(***************************************************************************)

VARIABLES
    env,         \* the settings of the last start
    state,       \* of the API: "down" before, "up" or "refused" after it
    service      \* the configuration that it runs with

configVars == <<env, state, service>>

Flag == {"unset", "on", "off"}

\* A group of settings that belong together.
Group == {"none", "part", "all"}

\* How an address begins: "HTTP" is http: in another spelling (capitals, a space
\* before it), which the schema keeps and the URL parser reads as http.
Scheme == {"http", "HTTP", "https"}

\* stage: on a developer's machine, deployed in production or staging, or that
\* without DATABASE_URL.  oidc: the issuer's scheme once the group is complete;
\* realm: its address ends in /realms/<realm>; base, named: KEYCLOAK_BASE_URL and
\* KEYCLOAK_REALM are set.
Env ==
    [stage: {"local", "deployed", "bare"}, secure: BOOLEAN, sameSiteNone: BOOLEAN,
     oidc: {"none", "part"} \cup Scheme, realm: BOOLEAN,
     password: Flag, allowed: BOOLEAN, mfa: Flag, key: {"none", "bad", "good"},
     keycloak: Group, base: {"none"} \cup Scheme, named: BOOLEAN, bridge: Group]

SomeEnv ==
    [stage |-> "local", secure |-> TRUE, sameSiteNone |-> FALSE,
     oidc |-> "none", realm |-> FALSE,
     password |-> "unset", allowed |-> FALSE, mfa |-> "unset", key |-> "none",
     keycloak |-> "none", base |-> "none", named |-> FALSE, bridge |-> "none"]

Running ==
    [sso: BOOLEAN, password: BOOLEAN, requireMfa: BOOLEAN, restricted: BOOLEAN,
     mfaKey: BOOLEAN, keycloak: {"none"} \cup Scheme, bridge: BOOLEAN]

-----------------------------------------------------------------------------
Default(flag, value) == IF flag = "unset" THEN value ELSE flag = "on"

Deployed(e) == e.stage # "local"

Sso(e) == e.oidc \in Scheme

Password(e) == Default(e.password, ~Sso(e))

RequireMfa(e) == Default(e.mfa, Deployed(e))

\* The issuer's address also tells where Keycloak is; the pattern that takes it
\* apart knows http and https in small letters.
Locates(e) == e.oidc \in {"http", "https"} /\ e.realm

KeycloakBase(e) ==
    IF e.base # "none" THEN e.base ELSE IF Locates(e) THEN e.oidc ELSE "none"

DatabaseRule(e) == e.stage # "bare"

CookieRules(e) == Deployed(e) \/ e.sameSiteNone => e.secure

\* The two rules about http know it in small letters and at the very beginning
\* only: "HTTP" passes.
\* Mutant: the last rule, the key, looks at deployments only.
SignInRulesWithoutKey(e) ==
    /\ e.oidc # "part"
    /\ Deployed(e) => e.oidc # "http"
    /\ Sso(e) \/ Password(e)
    /\ Deployed(e) /\ Sso(e) /\ Password(e) => e.allowed
    /\ Deployed(e) /\ Password(e) => RequireMfa(e)
    /\ e.key # "bad"
    /\ Deployed(e) /\ Password(e) /\ RequireMfa(e) => e.key # "none"

SignInRules(e) ==
    /\ e.oidc # "part"
    /\ Deployed(e) => e.oidc # "http"
    /\ Sso(e) \/ Password(e)
    /\ Deployed(e) /\ Sso(e) /\ Password(e) => e.allowed
    /\ Deployed(e) /\ Password(e) => RequireMfa(e)
    /\ e.key # "bad"
    /\ Password(e) /\ RequireMfa(e) => e.key # "none"

KeycloakRules(e) ==
    /\ e.keycloak # "part"
    /\ e.keycloak = "all" => KeycloakBase(e) # "none" /\ (e.named \/ Locates(e))
    /\ Deployed(e) /\ e.keycloak = "all" => KeycloakBase(e) # "http"

\* An entry, or the service account that it names, that cannot be used.
BridgeRules(e) ==
    /\ e.bridge # "part"
    /\ e.bridge = "all" => Sso(e)

Configuration(e) ==
    [sso |-> Sso(e), password |-> Password(e), requireMfa |-> RequireMfa(e),
     restricted |-> e.allowed, mfaKey |-> e.key # "none",
     keycloak |-> IF e.keycloak = "all" THEN KeycloakBase(e) ELSE "none",
     bridge |-> e.bridge = "all"]

Accepts(e) == DatabaseRule(e) /\ CookieRules(e) /\ SignInRules(e) /\ KeycloakRules(e) /\ BridgeRules(e)

ConfigInit == env = SomeEnv /\ state = "down" /\ service = Configuration(SomeEnv)

\* A refused start ends the process.
Boot(e) ==
    /\ env' = e
    /\ state' = IF Accepts(e) THEN "up" ELSE "refused"
    /\ service' = IF Accepts(e) THEN Configuration(e) ELSE service

ConfigNext == state = "down" /\ \E e \in Env : Boot(e)

ConfigSpec == ConfigInit /\ [][ConfigNext]_configVars

-----------------------------------------------------------------------------
ConfigTypeOK ==
    /\ env \in Env
    /\ state \in {"down", "up", "refused"}
    /\ service \in Running

\* The routes of a running service let somebody in: through SSO, or with a
\* password, which takes an authenticator's key where a code is required.  A
\* deployment beside SSO opens the password form to the accounts on its list
\* only, and to nobody without a code; its cookies are sent over https only; a
\* bridge has a provider to verify tokens with.
SignInIsSound ==
    state = "up" =>
        /\ service.sso \/ (service.password /\ (service.requireMfa => service.mfaKey))
        /\ service.bridge => service.sso
        /\ Deployed(env) =>
              /\ env.secure
              /\ service.password => service.requireMfa /\ service.mfaKey
              /\ service.password /\ service.sso => service.restricted

\* getOidcConfiguration: the client takes requests over plain http for granted
\* where the URL parser finds that protocol in the issuer's address.
AllowsInsecureRequests == service.sso /\ env.oidc \in {"http", "HTTP"}

\* The comment at oidcClient.ts:37: "Plain http is only ever permitted outside
\* production/staging (validated in env.ts)."
PlainHttpStaysOutside == state = "up" /\ Deployed(env) => ~AllowsInsecureRequests
=============================================================================
