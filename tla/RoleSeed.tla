-------------------------------- MODULE RoleSeed --------------------------------
(***************************************************************************)
(* prisma/seed.ts, as a deployment runs it beside the service: for every   *)
(* role in turn its permissions are deleted and inserted again, in two     *)
(* statements and no transaction.  Every request that the service          *)
(* authorises reads these rows.  A seed may break off after any statement, *)
(* and two deployments of one version may run it at the same time.         *)
(***************************************************************************)
EXTENDS Naturals

CONSTANTS
    Seeder,       \* runs of the seed at the same time
    Perm,         \* permission keys
    RoleCount     \* roles, in the order in which they are seeded

ASSUME RoleCountAssumption == RoleCount \in Nat \ {0}

\* The catalog is not empty.
ASSUME PermAssumption == Perm # {}

VARIABLES
    permission,   \* the Permission rows
    mapping,      \* mapping[r]: the RolePermission rows of role r
    seeder,       \* seeder[s]: where run s stands
    torn          \* history: roles whose deleted rows nobody is left to insert

seedVars == <<permission, mapping, seeder, torn>>

SeedRole == 1..RoleCount

\* ROLE_PERMISSIONS of the version that is deployed: some role has them all
\* (SUPER_ADMIN), the next ones fewer.
RolePermissions ==
    [r \in SeedRole |-> IF r = 1 THEN Perm ELSE {CHOOSE p \in Perm : TRUE}]

\* role is the one that the run is working on; it writes the ids that it read.
Run ==
    [pc: {"idle", "permissions", "find", "delete", "insert"},
     role: SeedRole, ids: SUBSET Perm]

NotRunning == [pc |-> "idle", role |-> 1, ids |-> {}]

\* An earlier version may have left any mapping.
SeedInit ==
    /\ permission \in SUBSET Perm
    /\ mapping \in [SeedRole -> SUBSET permission]
    /\ seeder = [s \in Seeder |-> NotRunning]
    /\ torn = SeedRole

-----------------------------------------------------------------------------
StartSeed(s) ==
    /\ seeder[s].pc = "idle"
    /\ seeder' = [seeder EXCEPT ![s] = [NotRunning EXCEPT !.pc = "permissions"]]
    /\ UNCHANGED <<permission, mapping, torn>>

\* One upsert for each key of the catalog.
SeedPermission(s) ==
    /\ seeder[s].pc = "permissions"
    /\ \/ \E p \in Perm \ permission :
             permission' = permission \cup {p} /\ UNCHANGED seeder
       \/ /\ permission = Perm
          /\ seeder' = [seeder EXCEPT ![s].pc = "find"]
          /\ UNCHANGED permission
    /\ UNCHANGED <<mapping, torn>>

\* The ids of the role's permissions.
FindPermissions(s) ==
    /\ seeder[s].pc = "find"
    /\ LET r == seeder[s].role
       IN  seeder' = [seeder EXCEPT ![s] =
               [pc |-> "delete", role |-> r, ids |-> RolePermissions[r] \cap permission]]
    /\ UNCHANGED <<permission, mapping, torn>>

\* Mutant: the rows that the role should have are left out.
DeleteWhatIsNew(s) ==
    /\ seeder[s].pc = "delete"
    /\ mapping' = [mapping EXCEPT ![seeder[s].role] = @ \ seeder[s].ids]
    /\ seeder' = [seeder EXCEPT ![s].pc = "insert"]
    /\ UNCHANGED <<permission, torn>>

DeleteMapping(s) ==
    /\ seeder[s].pc = "delete"
    /\ mapping' = [mapping EXCEPT ![seeder[s].role] = {}]
    /\ seeder' = [seeder EXCEPT ![s].pc = "insert"]
    /\ UNCHANGED <<permission, torn>>

\* Mutant: the last role has a next one.
InsertAndOn(s) ==
    /\ seeder[s].pc = "insert"
    /\ LET r == seeder[s].role
       IN  /\ mapping' = [mapping EXCEPT ![r] = @ \cup seeder[s].ids]
           /\ torn' = torn \ {r}
           /\ seeder' = [seeder EXCEPT ![s] = [pc |-> "find", role |-> r + 1, ids |-> {}]]
    /\ UNCHANGED permission

\* createMany, skipDuplicates: rows that another run inserted are no error.
InsertMapping(s) ==
    /\ seeder[s].pc = "insert"
    /\ LET r == seeder[s].role
       IN  /\ mapping' = [mapping EXCEPT ![r] = @ \cup seeder[s].ids]
           /\ torn' = torn \ {r}
           /\ seeder' = [seeder EXCEPT ![s] =
                  IF r = RoleCount THEN NotRunning
                  ELSE [pc |-> "find", role |-> r + 1, ids |-> {}]]
    /\ UNCHANGED permission

\* The run is killed, or loses the database; its next run starts over.
SeedBreaks(s) ==
    /\ seeder[s].pc # "idle"
    /\ seeder' = [seeder EXCEPT ![s] = NotRunning]
    /\ torn' = IF seeder[s].pc = "insert" THEN torn \cup {seeder[s].role} ELSE torn
    /\ UNCHANGED <<permission, mapping>>

SeedNext ==
    \E s \in Seeder :
        \/ StartSeed(s) \/ SeedPermission(s) \/ FindPermissions(s)
        \/ DeleteMapping(s) \/ InsertMapping(s) \/ SeedBreaks(s)

SeedSpec == SeedInit /\ [][SeedNext]_seedVars
-----------------------------------------------------------------------------
SeedTypeOK ==
    /\ permission \subseteq Perm
    /\ mapping \in [SeedRole -> SUBSET permission]
    /\ seeder \in [Seeder -> Run]
    /\ torn \subseteq SeedRole

\* A run is working on the role, and has deleted what the role may do.
InHand(r) == \E s \in Seeder : seeder[s].pc = "insert" /\ seeder[s].role = r

\* Once seeded, a role may do what the catalog says, nothing less and nothing
\* more, whatever runs overlap: except while a run is between its two
\* statements, and after one broke off there (until the next).
RolesAreSeeded ==
    \A r \in SeedRole : r \notin torn /\ ~InHand(r) => mapping[r] = RolePermissions[r]
=============================================================================
