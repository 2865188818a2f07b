------------------------------- MODULE RecordsMC -------------------------------
(***************************************************************************)
(* One instance for the records that Central Admin keeps or administers:   *)
(* those of the field applications (one record of any kind, the requests   *)
(* and application steps that it may meet), the unique rows, the registry, *)
(* the roles and the seed, the credential references; the settings that    *)
(* the API starts with, the pages and buttons that a role is shown, and    *)
(* the live check of Keycloak.  They share no state, so only the one in    *)
(* focus moves: the graph is the sum of theirs.                            *)
(***************************************************************************)
EXTENDS NearSip, UniqueRow, Registry, RoleSeed, CredentialRefs, Config, PageAccess, LiveCheck,
        TLC

VARIABLE focus

RecordsInit ==
    /\ FieldInit /\ UniqueInit /\ RegistryInit /\ SeedInit /\ RefsInit /\ ConfigInit
    /\ AccessInit /\ LiveInit
    /\ focus \in {"field", "unique", "registry", "seed", "refs", "config", "access",
                 "live"}
    \* What is not in focus need not start in each of its states.
    /\ focus # "field" => kind = "vet"
    /\ focus # "seed" => permission = {}

\* Bounds: of two pages that edit the registry one may have failed to load, and
\* an admin's roles change once before the browser asks for them again.  A
\* setting that no rule looks at, because of another one, is left out.
RegistryBounded == RegistryNext /\ \E e \in Form : ~form'[e].failed
AccessBounded == AccessNext /\ (held' # held => held = told)
ConfigBounded ==
    /\ ConfigNext
    /\ env'.realm => env'.oidc \in {"http", "https"}
    /\ env'.base # "none" \/ env'.named => env'.keycloak = "all"

Frame(f, rest) == focus = f /\ UNCHANGED <<focus, rest>>

RecordsNext ==
    \/ /\ Frame("field", <<uniqueVars, registryVars, seedVars, refVars, configVars, accessVars,
                          liveVars>>)
       /\ FieldNext
    \/ /\ Frame("unique", <<fieldVars, registryVars, seedVars, refVars, configVars, accessVars,
                          liveVars>>)
       /\ UniqueNext
    \/ /\ Frame("registry", <<fieldVars, uniqueVars, seedVars, refVars, configVars, accessVars,
                          liveVars>>)
       /\ RegistryBounded
    \/ /\ Frame("seed", <<fieldVars, uniqueVars, registryVars, refVars, configVars, accessVars,
                          liveVars>>)
       /\ SeedNext
    \/ /\ Frame("refs", <<fieldVars, uniqueVars, registryVars, seedVars, configVars, accessVars,
                          liveVars>>)
       /\ RefsNext
    \/ /\ Frame("config", <<fieldVars, uniqueVars, registryVars, seedVars, refVars, accessVars,
                          liveVars>>)
       /\ ConfigBounded
    \/ /\ Frame("access", <<fieldVars, uniqueVars, registryVars, seedVars, refVars, configVars,
                          liveVars>>)
       /\ AccessBounded
    \/ /\ Frame("live", <<fieldVars, uniqueVars, registryVars, seedVars, refVars, configVars,
                        accessVars>>)
       /\ LiveNext

RecordsSpec ==
    /\ RecordsInit
    /\ [][RecordsNext]_<<fieldVars, uniqueVars, registryVars, seedVars, refVars, configVars,
                         accessVars, liveVars, focus>>

Symmetry == Permutations(Worker) \cup Permutations(Form)
-----------------------------------------------------------------------------
\* Every variable of each component has its type.
RecordsTypeOK ==
    /\ FieldTypeOK /\ UniqueTypeOK /\ RegistryTypeOK /\ SeedTypeOK
    /\ RefsTypeOK /\ ConfigTypeOK /\ AccessTypeOK /\ LiveTypeOK
=============================================================================
