------------------------- MODULE DatabaseProvisioning -------------------------
(***************************************************************************)
(* Creating databases, users and grants on the managed MySQL server,       *)
(* backend/src/modules/database/application/database-provisioning.service.ts*)
(*                                                                         *)
(* POST /databases, /databases/users and /databases/grants run one         *)
(* statement each; POST /databases/provision runs the three and, when one  *)
(* fails, drops what it knows it created.  Requests interleave between any *)
(* two statements.                                                         *)
(*                                                                         *)
(* The server is external.  CREATE fails when the object exists, DROP and  *)
(* GRANT when the database or account does not; DROP USER takes the grants *)
(* of the account along, DROP DATABASE leaves those on its name.  A        *)
(* statement the executor rejects has had its effect or not: the           *)
(* connection may be lost before or after the server ran it.               *)
(***************************************************************************)
EXTENDS FiniteSets

CONSTANTS
  Req,         \* requests of the four routes
  Database,    \* database names
  Account,     \* username and host pairs
  None,        \* whoever created what was there before
  Input,       \* the bodies the requests of an instance carry
  HadDatabase, \* databases the server starts with
  HadAccount   \* accounts the server starts with

Kinds  == {"database", "user", "grant", "provision"}
Faults == {"name", "account", "privileges"}

ASSUME ProvisioningAssumption ==
  /\ None \notin Req
  /\ Input \subseteq [kind : Kinds, name : Database, account : Account,
                      faults : SUBSET Faults]
  /\ HadDatabase \subseteq Database /\ HadAccount \subseteq Account

VARIABLES
  databases,  \* databases of the server
  accounts,   \* accounts of the server
  grants,     \* pairs of an account and a database name
  input,      \* the body of each request
  pc,         \* the statement each request runs next, or its answer
  created,    \* databaseCreated and userCreated of a provision
  databaseBy, \* history: the request that created a database
  accountBy,  \* history: the request that created an account
  unheard     \* history: what a request created without being told

server  == <<databases, accounts, grants, databaseBy, accountBy>>
vars    == <<databases, accounts, grants, input, pc, created, databaseBy,
             accountBy, unheard>>

Answers == {"ok", "rejected", "rollbackFailed"}

Start(kind) == IF kind = "user" THEN "createUser"
               ELSE IF kind = "grant" THEN "grant" ELSE "createDatabase"

Init ==
  /\ databases = HadDatabase /\ accounts = HadAccount /\ grants = {}
  /\ input \in [Req -> Input]
  /\ pc = [r \in Req |-> Start(input[r].kind)]
  /\ created = [r \in Req |-> {}]
  /\ databaseBy = [d \in Database |-> None]
  /\ accountBy = [a \in Account |-> None]
  /\ unheard = [r \in Req |-> {}]

Name(r)  == input[r].name
Acct(r)  == input[r].account
Whole(r) == input[r].kind = "provision"

-----------------------------------------------------------------------------
(* The server, as the statements change it *)

CreatesDatabase(r) ==
  /\ Name(r) \notin databases
  /\ databases' = databases \cup {Name(r)}
  /\ databaseBy' = [databaseBy EXCEPT ![Name(r)] = r]
  /\ UNCHANGED <<accounts, grants, accountBy>>

CreatesUser(r) ==
  /\ Acct(r) \notin accounts
  /\ accounts' = accounts \cup {Acct(r)}
  /\ accountBy' = [accountBy EXCEPT ![Acct(r)] = r]
  /\ UNCHANGED <<databases, grants, databaseBy>>

Grants(r) ==
  /\ Acct(r) \in accounts
  /\ grants' = grants \cup {<<Acct(r), Name(r)>>}
  /\ UNCHANGED <<databases, accounts, databaseBy, accountBy>>

DropsUser(r) ==
  /\ Acct(r) \in accounts
  /\ accounts' = accounts \ {Acct(r)}
  /\ grants' = {g \in grants : g[1] # Acct(r)}
  /\ UNCHANGED <<databases, databaseBy, accountBy>>

DropsDatabase(r) ==
  /\ Name(r) \in databases
  /\ databases' = databases \ {Name(r)}
  /\ UNCHANGED <<accounts, grants, databaseBy, accountBy>>

-----------------------------------------------------------------------------
(* The handlers *)

Goto(r, next) == pc' = [pc EXCEPT ![r] = next]

\* rollbackProvisioning starts with what was created last.
Undo(r) ==
  IF "user" \in created[r] THEN "dropUser"
  ELSE IF "database" \in created[r] THEN "dropDatabase" ELSE "rejected"

Then(r, next) == IF Whole(r) THEN next ELSE "ok"

\* Mutant: a database counts as created before the statement has succeeded,
\* so "it exists already" is answered by dropping it.
CreateDatabaseFailsEager(r) ==
  /\ pc[r] = "createDatabase"
  /\ created' = [created EXCEPT ![r] = @ \cup {"database"}]
  /\ \/ UNCHANGED <<server, unheard>>
     \/ /\ "name" \notin input[r].faults /\ CreatesDatabase(r)
        /\ unheard' = [unheard EXCEPT ![r] = @ \cup {"database"}]
  /\ Goto(r, IF Whole(r) THEN "dropDatabase" ELSE "rejected")
  /\ UNCHANGED input

\* A refused name or statement, or one the server ran unheard.
CreateDatabaseFails(r) ==
  /\ pc[r] = "createDatabase"
  /\ \/ UNCHANGED <<server, unheard>>
     \/ /\ "name" \notin input[r].faults /\ CreatesDatabase(r)
        /\ unheard' = [unheard EXCEPT ![r] = @ \cup {"database"}]
  /\ Goto(r, Undo(r))
  /\ UNCHANGED <<input, created>>

CreateDatabaseOk(r) ==
  /\ pc[r] = "createDatabase" /\ "name" \notin input[r].faults
  /\ CreatesDatabase(r)
  /\ created' = [created EXCEPT ![r] =
                   IF Whole(r) THEN @ \cup {"database"} ELSE @]
  /\ Goto(r, Then(r, "createUser"))
  /\ UNCHANGED <<input, unheard>>

CreateUserOk(r) ==
  /\ pc[r] = "createUser" /\ "account" \notin input[r].faults
  /\ CreatesUser(r)
  /\ created' = [created EXCEPT ![r] = IF Whole(r) THEN @ \cup {"user"} ELSE @]
  /\ Goto(r, Then(r, "grant"))
  /\ UNCHANGED <<input, unheard>>

\* Mutant: "the account exists already" is answered by dropping it.
CreateUserFailsEager(r) ==
  /\ pc[r] = "createUser"
  /\ \/ UNCHANGED <<server, unheard>>
     \/ /\ "account" \notin input[r].faults /\ CreatesUser(r)
        /\ unheard' = [unheard EXCEPT ![r] = @ \cup {"user"}]
  /\ Goto(r, IF Whole(r) THEN "dropUser" ELSE "rejected")
  /\ UNCHANGED <<input, created>>

CreateUserFails(r) ==
  /\ pc[r] = "createUser"
  /\ \/ UNCHANGED <<server, unheard>>
     \/ /\ "account" \notin input[r].faults /\ CreatesUser(r)
        /\ unheard' = [unheard EXCEPT ![r] = @ \cup {"user"}]
  /\ Goto(r, Undo(r))
  /\ UNCHANGED <<input, created>>

GrantOk(r) ==
  /\ pc[r] = "grant" /\ input[r].faults = {}
  /\ Grants(r)
  /\ Goto(r, "ok")
  /\ UNCHANGED <<input, created, unheard>>

\* Mutant: the rollback of a failed grant leaves the account.
GrantFailsHalfUndone(r) ==
  /\ pc[r] = "grant"
  /\ UNCHANGED server \/ (input[r].faults = {} /\ Grants(r))
  /\ Goto(r, IF Whole(r) THEN "dropDatabase" ELSE "rejected")
  /\ UNCHANGED <<input, created, unheard>>

GrantFails(r) ==
  /\ pc[r] = "grant"
  /\ UNCHANGED server \/ (input[r].faults = {} /\ Grants(r))
  /\ Goto(r, Undo(r))
  /\ UNCHANGED <<input, created, unheard>>

DropUserOk(r) ==
  /\ pc[r] = "dropUser"
  /\ DropsUser(r)
  /\ Goto(r, "dropDatabase")
  /\ UNCHANGED <<input, created, unheard>>

DropDatabaseOk(r) ==
  /\ pc[r] = "dropDatabase"
  /\ DropsDatabase(r)
  /\ Goto(r, "rejected")
  /\ UNCHANGED <<input, created, unheard>>

\* DATABASE_ROLLBACK_FAILED: what comes after the failed DROP is kept.
DropFails(r) ==
  /\ \/ pc[r] = "dropUser" /\ (UNCHANGED server \/ DropsUser(r))
     \/ pc[r] = "dropDatabase" /\ (UNCHANGED server \/ DropsDatabase(r))
  /\ Goto(r, "rollbackFailed")
  /\ UNCHANGED <<input, created, unheard>>

Step(r) ==
  \/ CreateDatabaseOk(r) \/ CreateDatabaseFails(r)
  \/ CreateUserOk(r) \/ CreateUserFails(r)
  \/ GrantOk(r) \/ GrantFails(r)
  \/ DropUserOk(r) \/ DropDatabaseOk(r) \/ DropFails(r)

Next == \E r \in Req : Step(r)

Spec == Init /\ [][Next]_vars

-----------------------------------------------------------------------------
(* Properties *)

TypeOK ==
  /\ databases \subseteq Database /\ accounts \subseteq Account
  /\ grants \subseteq Account \X Database
  /\ input \in [Req -> Input]
  /\ pc \in [Req -> {"createDatabase", "createUser", "grant", "dropUser",
                     "dropDatabase"} \cup Answers]
  /\ created \in [Req -> SUBSET {"database", "user"}]
  /\ unheard \in [Req -> SUBSET {"database", "user"}]
  /\ databaseBy \in [Database -> Req \cup {None}]
  /\ accountBy \in [Account -> Req \cup {None}]

OwnsDatabase(r) == Name(r) \in databases /\ databaseBy[Name(r)] = r
OwnsAccount(r)  == Acct(r) \in accounts /\ accountBy[Acct(r)] = r

\* A rollback about to drop a database or an account drops one that this
\* request created and that nobody dropped or created again since: a CREATE
\* that failed because the object exists never makes it droppable.
RollbackDropsOwn ==
  \A r \in Req :
    /\ pc[r] = "dropUser" => OwnsAccount(r) /\ OwnsDatabase(r)
    /\ pc[r] = "dropDatabase" => OwnsDatabase(r)

\* What was answered with success is there and stays, whatever the
\* rollbacks of other requests drop: no provision is left with a missing
\* database, account or grant.
AcknowledgedStays ==
  \A r \in Req : pc[r] = "ok" =>
    /\ input[r].kind \in {"database", "provision"} => OwnsDatabase(r)
    /\ input[r].kind \in {"user", "provision"} => OwnsAccount(r)
    /\ Whole(r) => <<Acct(r), Name(r)>> \in grants

\* A rejected request, rolled back or not, has left nothing behind but what
\* the server created without the request hearing of it.
RejectedLeavesOnlyUnheard ==
  \A r \in Req : pc[r] = "rejected" =>
    /\ OwnsDatabase(r) => "database" \in unheard[r]
    /\ OwnsAccount(r) => "user" \in unheard[r]

\* A grant answered with success holds until its account is dropped by the
\* rollback of a provision that created the account: no other request's
\* failure takes it along.
GrantStaysUnlessUserDropped ==
  \A r \in Req : (input[r].kind = "grant" /\ pc[r] = "ok") =>
    \/ <<Acct(r), Name(r)>> \in grants
    \/ \E q \in Req : /\ Acct(q) = Acct(r) /\ "user" \in created[q]
                       /\ pc[q] \notin {"grant", "ok"}
=============================================================================
