----------------------------- MODULE DatabaseProofs -----------------------------
(***************************************************************************)
(* What a rollback may drop and what a rejected or acknowledged request    *)
(* leaves, for any number of requests, databases and accounts.             *)
(*                                                                         *)
(* Between its statements a provision owns what it has created: the        *)
(* database from the first statement on, the account from the second.      *)
(* CREATE fails on what exists, so an object has one owner; a rollback     *)
(* removes only what its request owns, so ownership is never lost to       *)
(* another request.  Conversely, what a request owns and does not hold any *)
(* more it was never told of, or its rollback failed.                      *)
(*                                                                         *)
(* The second half is about the backups and restores of those databases.   *)
(***************************************************************************)
EXTENDS DatabaseProvisioning, DatabaseBackup, Naturals, TLAPS

Kind(r) == input[r].kind

\* Between which answers a request counts on its database and its account.
HoldsDatabase(r) ==
  \/ Whole(r) /\ pc[r] \in {"createUser", "grant", "dropUser", "dropDatabase"}
  \/ pc[r] = "ok" /\ Kind(r) \in {"database", "provision"}

HoldsAccount(r) ==
  \/ Whole(r) /\ pc[r] \in {"grant", "dropUser"}
  \/ pc[r] = "ok" /\ Kind(r) \in {"user", "provision"}

\* The flags of a provision follow its program counter, so that the first
\* statement of a rollback is determined by the statement that failed.
Flags(r) ==
  /\ ~Whole(r) => created[r] = {} /\ pc[r] \notin {"dropUser", "dropDatabase"}
  /\ ~Whole(r) /\ pc[r] = "createDatabase" => Kind(r) = "database"
  /\ ~Whole(r) /\ pc[r] = "createUser" => Kind(r) = "user"
  /\ ~Whole(r) /\ pc[r] = "grant" => Kind(r) = "grant"
  /\ Whole(r) /\ pc[r] = "createDatabase" => created[r] = {}
  /\ Whole(r) /\ pc[r] = "createUser" => created[r] = {"database"}
  /\ Whole(r) /\ pc[r] = "grant" => created[r] = {"database", "user"}

Held(r) ==
  /\ HoldsDatabase(r) => OwnsDatabase(r)
  /\ HoldsAccount(r) => OwnsAccount(r)

Left(r) ==
  /\ OwnsDatabase(r) =>
       HoldsDatabase(r) \/ "database" \in unheard[r] \/ pc[r] = "rollbackFailed"
  /\ OwnsAccount(r) =>
       HoldsAccount(r) \/ "user" \in unheard[r] \/ pc[r] = "rollbackFailed"

Granted(r) == pc[r] = "ok" /\ Whole(r) => <<Acct(r), Name(r)>> \in grants

\* The inductive invariant.
IInv ==
  /\ TypeOK
  /\ \A r \in Req : Flags(r) /\ Held(r) /\ Left(r) /\ Granted(r)

\* The initial states satisfy the invariant.
LEMMA InitInv == Init => IInv
<1> SUFFICES ASSUME Init PROVE IInv
  OBVIOUS
<1>1. \A r \in Req : /\ input[r] \in Input /\ Kind(r) \in Kinds
                     /\ Name(r) \in Database /\ Acct(r) \in Account
  BY ProvisioningAssumption DEF Init, Kind, Name, Acct
<1>2. TypeOK
  BY <1>1, ProvisioningAssumption DEF Init, TypeOK, Start, Answers
<1>3. ASSUME NEW r \in Req PROVE Flags(r) /\ Held(r) /\ Left(r) /\ Granted(r)
  BY <1>1, <1>3, ProvisioningAssumption
  DEF Init, Start, Kinds, Kind, Whole, Flags, Held, Left, Granted,
      HoldsDatabase,
      HoldsAccount, OwnsDatabase, OwnsAccount
<1> QED
  BY <1>2, <1>3 DEF IInv

\* The fields of a body.
LEMMA InputFields ==
  ASSUME input \in [Req -> Input], NEW r \in Req
  PROVE  /\ Name(r) \in Database /\ Acct(r) \in Account /\ Kind(r) \in Kinds
         /\ Whole(r) <=> Kind(r) = "provision"
  BY ProvisioningAssumption DEF Name, Acct, Kind, Whole

\* Every statement keeps the shape of the state.
LEMMA StepType == ASSUME TypeOK, NEW r \in Req, Step(r) PROVE TypeOK'
<1>1. input' = input
  BY DEF Step, CreateDatabaseOk, CreateDatabaseFails, CreateUserOk,
         CreateUserFails, GrantOk, GrantFails, DropUserOk, DropDatabaseOk,
         DropFails
<1>2. Name(r) \in Database /\ Acct(r) \in Account
  BY InputFields DEF TypeOK
<1> USE <1>1, <1>2 DEF TypeOK, Goto, Undo, Then, server, Answers
<1>3. CASE CreateDatabaseOk(r)
  BY <1>3 DEF CreateDatabaseOk, CreatesDatabase
<1>4. CASE CreateDatabaseFails(r)
  BY <1>4 DEF CreateDatabaseFails, CreatesDatabase
<1>5. CASE CreateUserOk(r)
  BY <1>5 DEF CreateUserOk, CreatesUser
<1>6. CASE CreateUserFails(r)
  BY <1>6 DEF CreateUserFails, CreatesUser
<1>7. CASE GrantOk(r)
  BY <1>7 DEF GrantOk, Grants
<1>8. CASE GrantFails(r)
  BY <1>8 DEF GrantFails, Grants
<1>9. CASE DropUserOk(r)
  BY <1>9 DEF DropUserOk, DropsUser
<1>10. CASE DropDatabaseOk(r)
  BY <1>10 DEF DropDatabaseOk, DropsDatabase
<1>11. CASE DropFails(r)
  BY <1>11 DEF DropFails, DropsUser, DropsDatabase
<1> QED
  BY <1>3, <1>4, <1>5, <1>6, <1>7, <1>8, <1>9, <1>10, <1>11 DEF Step

\* Every statement keeps, for every request q, what q counts on and what it
\* has left: its own by what the statement did, another one's because the
\* statement changed no object that q owns.
LEMMA StepCreateDatabaseOk ==
  ASSUME IInv, NEW r \in Req, CreateDatabaseOk(r), NEW q \in Req
  PROVE  (Flags(q) /\ Held(q) /\ Left(q) /\ Granted(q))'
<1>1. input' = input
  BY DEF CreateDatabaseOk
<1>2. /\ Name(r) \in Database /\ Acct(r) \in Account /\ Kind(r) \in Kinds
      /\ Name(q) \in Database /\ Acct(q) \in Account /\ Kind(q) \in Kinds
  BY InputFields DEF IInv, TypeOK
<1>3. /\ Flags(r) /\ Held(r) /\ Left(r) /\ Granted(r)
      /\ Flags(q) /\ Held(q) /\ Left(q) /\ Granted(q)
  BY DEF IInv
<1> USE <1>1, <1>2, <1>3, ProvisioningAssumption
      DEF IInv, TypeOK, server, Kinds, Kind, Whole, Name, Acct, Goto, Flags,
          Held, Left, Granted, HoldsDatabase, HoldsAccount, OwnsDatabase,
          OwnsAccount
<1>4. CASE q = r
  BY <1>4 DEF CreateDatabaseOk, CreatesDatabase, Then
<1>5. CASE q # r
  BY <1>5 DEF CreateDatabaseOk, CreatesDatabase, Then
<1> QED
  BY <1>4, <1>5

\* CREATE DATABASE fails.
LEMMA StepCreateDatabaseFails ==
  ASSUME IInv, NEW r \in Req, CreateDatabaseFails(r), NEW q \in Req
  PROVE  (Flags(q) /\ Held(q) /\ Left(q) /\ Granted(q))'
<1>1. input' = input
  BY DEF CreateDatabaseFails
<1>2. /\ Name(r) \in Database /\ Acct(r) \in Account /\ Kind(r) \in Kinds
      /\ Name(q) \in Database /\ Acct(q) \in Account /\ Kind(q) \in Kinds
  BY InputFields DEF IInv, TypeOK
<1>3. /\ Flags(r) /\ Held(r) /\ Left(r) /\ Granted(r)
      /\ Flags(q) /\ Held(q) /\ Left(q) /\ Granted(q)
  BY DEF IInv
<1> USE <1>1, <1>2, <1>3, ProvisioningAssumption
      DEF IInv, TypeOK, server, Kinds, Kind, Whole, Name, Acct, Goto, Flags,
          Held, Left, Granted, HoldsDatabase, HoldsAccount, OwnsDatabase,
          OwnsAccount
<1>4. CASE q = r
  BY <1>4 DEF CreateDatabaseFails, CreatesDatabase, Undo
<1>5. CASE q # r
  BY <1>5 DEF CreateDatabaseFails, CreatesDatabase, Undo
<1> QED
  BY <1>4, <1>5

\* CREATE USER succeeds.
LEMMA StepCreateUserOk ==
  ASSUME IInv, NEW r \in Req, CreateUserOk(r), NEW q \in Req
  PROVE  (Flags(q) /\ Held(q) /\ Left(q) /\ Granted(q))'
<1>1. input' = input
  BY DEF CreateUserOk
<1>2. /\ Name(r) \in Database /\ Acct(r) \in Account /\ Kind(r) \in Kinds
      /\ Name(q) \in Database /\ Acct(q) \in Account /\ Kind(q) \in Kinds
  BY InputFields DEF IInv, TypeOK
<1>3. /\ Flags(r) /\ Held(r) /\ Left(r) /\ Granted(r)
      /\ Flags(q) /\ Held(q) /\ Left(q) /\ Granted(q)
  BY DEF IInv
<1> USE <1>1, <1>2, <1>3, ProvisioningAssumption
      DEF IInv, TypeOK, server, Kinds, Kind, Whole, Name, Acct, Goto, Flags,
          Held, Left, Granted, HoldsDatabase, HoldsAccount, OwnsDatabase,
          OwnsAccount
<1>4. CASE q = r
  BY <1>4 DEF CreateUserOk, CreatesUser, Then
<1>5. CASE q # r
  BY <1>5 DEF CreateUserOk, CreatesUser, Then
<1> QED
  BY <1>4, <1>5

\* CREATE USER fails.
LEMMA StepCreateUserFails ==
  ASSUME IInv, NEW r \in Req, CreateUserFails(r), NEW q \in Req
  PROVE  (Flags(q) /\ Held(q) /\ Left(q) /\ Granted(q))'
<1>1. input' = input
  BY DEF CreateUserFails
<1>2. /\ Name(r) \in Database /\ Acct(r) \in Account /\ Kind(r) \in Kinds
      /\ Name(q) \in Database /\ Acct(q) \in Account /\ Kind(q) \in Kinds
  BY InputFields DEF IInv, TypeOK
<1>3. /\ Flags(r) /\ Held(r) /\ Left(r) /\ Granted(r)
      /\ Flags(q) /\ Held(q) /\ Left(q) /\ Granted(q)
  BY DEF IInv
<1> USE <1>1, <1>2, <1>3, ProvisioningAssumption
      DEF IInv, TypeOK, server, Kinds, Kind, Whole, Name, Acct, Goto, Flags,
          Held, Left, Granted, HoldsDatabase, HoldsAccount, OwnsDatabase,
          OwnsAccount
<1>4. CASE q = r
  BY <1>4 DEF CreateUserFails, CreatesUser, Undo
<1>5. CASE q # r
  BY <1>5 DEF CreateUserFails, CreatesUser, Undo
<1> QED
  BY <1>4, <1>5

\* GRANT succeeds, and the request is answered.
LEMMA StepGrantOk ==
  ASSUME IInv, NEW r \in Req, GrantOk(r), NEW q \in Req
  PROVE  (Flags(q) /\ Held(q) /\ Left(q) /\ Granted(q))'
<1>1. input' = input
  BY DEF GrantOk
<1>2. /\ Name(r) \in Database /\ Acct(r) \in Account /\ Kind(r) \in Kinds
      /\ Name(q) \in Database /\ Acct(q) \in Account /\ Kind(q) \in Kinds
  BY InputFields DEF IInv, TypeOK
<1>3. /\ Flags(r) /\ Held(r) /\ Left(r) /\ Granted(r)
      /\ Flags(q) /\ Held(q) /\ Left(q) /\ Granted(q)
  BY DEF IInv
<1> USE <1>1, <1>2, <1>3, ProvisioningAssumption
      DEF IInv, TypeOK, server, Kinds, Kind, Whole, Name, Acct, Goto, Flags,
          Held, Left, Granted, HoldsDatabase, HoldsAccount, OwnsDatabase,
          OwnsAccount
<1>4. CASE q = r
  BY <1>4 DEF GrantOk, Grants
<1>5. CASE q # r
  BY <1>5 DEF GrantOk, Grants
<1> QED
  BY <1>4, <1>5

\* GRANT fails.
LEMMA StepGrantFails ==
  ASSUME IInv, NEW r \in Req, GrantFails(r), NEW q \in Req
  PROVE  (Flags(q) /\ Held(q) /\ Left(q) /\ Granted(q))'
<1>1. input' = input
  BY DEF GrantFails
<1>2. /\ Name(r) \in Database /\ Acct(r) \in Account /\ Kind(r) \in Kinds
      /\ Name(q) \in Database /\ Acct(q) \in Account /\ Kind(q) \in Kinds
  BY InputFields DEF IInv, TypeOK
<1>3. /\ Flags(r) /\ Held(r) /\ Left(r) /\ Granted(r)
      /\ Flags(q) /\ Held(q) /\ Left(q) /\ Granted(q)
  BY DEF IInv
<1> USE <1>1, <1>2, <1>3, ProvisioningAssumption
      DEF IInv, TypeOK, server, Kinds, Kind, Whole, Name, Acct, Goto, Flags,
          Held, Left, Granted, HoldsDatabase, HoldsAccount, OwnsDatabase,
          OwnsAccount
<1>4. CASE q = r
  BY <1>4 DEF GrantFails, Grants, Undo
<1>5. CASE q # r
  BY <1>5 DEF GrantFails, Grants, Undo
<1> QED
  BY <1>4, <1>5

\* The rollback drops the user its request created.
LEMMA StepDropUserOk ==
  ASSUME IInv, NEW r \in Req, DropUserOk(r), NEW q \in Req
  PROVE  (Flags(q) /\ Held(q) /\ Left(q) /\ Granted(q))'
<1>1. input' = input
  BY DEF DropUserOk
<1>2. /\ Name(r) \in Database /\ Acct(r) \in Account /\ Kind(r) \in Kinds
      /\ Name(q) \in Database /\ Acct(q) \in Account /\ Kind(q) \in Kinds
  BY InputFields DEF IInv, TypeOK
<1>3. /\ Flags(r) /\ Held(r) /\ Left(r) /\ Granted(r)
      /\ Flags(q) /\ Held(q) /\ Left(q) /\ Granted(q)
  BY DEF IInv
<1> USE <1>1, <1>2, <1>3, ProvisioningAssumption
      DEF IInv, TypeOK, server, Kinds, Kind, Whole, Name, Acct, Goto, Flags,
          Held, Left, Granted, HoldsDatabase, HoldsAccount, OwnsDatabase,
          OwnsAccount
<1>4. CASE q = r
  BY <1>4 DEF DropUserOk, DropsUser
<1>5. CASE q # r
  BY <1>5 DEF DropUserOk, DropsUser
<1> QED
  BY <1>4, <1>5

\* The rollback drops the database its request created.
LEMMA StepDropDatabaseOk ==
  ASSUME IInv, NEW r \in Req, DropDatabaseOk(r), NEW q \in Req
  PROVE  (Flags(q) /\ Held(q) /\ Left(q) /\ Granted(q))'
<1>1. input' = input
  BY DEF DropDatabaseOk
<1>2. /\ Name(r) \in Database /\ Acct(r) \in Account /\ Kind(r) \in Kinds
      /\ Name(q) \in Database /\ Acct(q) \in Account /\ Kind(q) \in Kinds
  BY InputFields DEF IInv, TypeOK
<1>3. /\ Flags(r) /\ Held(r) /\ Left(r) /\ Granted(r)
      /\ Flags(q) /\ Held(q) /\ Left(q) /\ Granted(q)
  BY DEF IInv
<1> USE <1>1, <1>2, <1>3, ProvisioningAssumption
      DEF IInv, TypeOK, server, Kinds, Kind, Whole, Name, Acct, Goto, Flags,
          Held, Left, Granted, HoldsDatabase, HoldsAccount, OwnsDatabase,
          OwnsAccount
<1>4. CASE q = r
  BY <1>4 DEF DropDatabaseOk, DropsDatabase
<1>5. CASE q # r
  BY <1>5 DEF DropDatabaseOk, DropsDatabase
<1> QED
  BY <1>4, <1>5

\* A statement of the rollback fails.
LEMMA StepDropFails ==
  ASSUME IInv, NEW r \in Req, DropFails(r), NEW q \in Req
  PROVE  (Flags(q) /\ Held(q) /\ Left(q) /\ Granted(q))'
<1>1. input' = input
  BY DEF DropFails
<1>2. /\ Name(r) \in Database /\ Acct(r) \in Account /\ Kind(r) \in Kinds
      /\ Name(q) \in Database /\ Acct(q) \in Account /\ Kind(q) \in Kinds
  BY InputFields DEF IInv, TypeOK
<1>3. /\ Flags(r) /\ Held(r) /\ Left(r) /\ Granted(r)
      /\ Flags(q) /\ Held(q) /\ Left(q) /\ Granted(q)
  BY DEF IInv
<1> USE <1>1, <1>2, <1>3, ProvisioningAssumption
      DEF IInv, TypeOK, server, Kinds, Kind, Whole, Name, Acct, Goto, Flags,
          Held, Left, Granted, HoldsDatabase, HoldsAccount, OwnsDatabase,
          OwnsAccount
<1>4. CASE q = r
  BY <1>4 DEF DropFails, DropsUser, DropsDatabase
<1>5. CASE q # r
  BY <1>5 DEF DropFails, DropsUser, DropsDatabase
<1> QED
  BY <1>4, <1>5


\* Every step keeps the invariant.
LEMMA NextInv == IInv /\ [Next]_vars => IInv'
<1> SUFFICES ASSUME IInv, [Next]_vars PROVE IInv'
  OBVIOUS
<1>1. CASE UNCHANGED vars
  BY <1>1 DEF vars, IInv, TypeOK, Flags, Held, Left, Granted, HoldsDatabase,
      HoldsAccount, OwnsDatabase, OwnsAccount, Kind, Whole, Name, Acct
<1>2. ASSUME NEW r \in Req, Step(r) PROVE IInv'
  <2>1. TypeOK'
    BY <1>2, StepType DEF IInv
  <2>2. ASSUME NEW q \in Req PROVE (Flags(q) /\ Held(q) /\ Left(q) /\ Granted(q))'
    BY <1>2, StepCreateDatabaseOk,
       StepCreateDatabaseFails,
       StepCreateUserOk,
       StepCreateUserFails,
       StepGrantOk,
       StepGrantFails,
       StepDropUserOk,
       StepDropDatabaseOk,
       StepDropFails DEF Step
  <2> QED
    BY <2>1, <2>2 DEF IInv
<1> QED
  BY <1>1, <1>2 DEF Next

\* The invariant holds in every reachable state.
LEMMA InvAlways == Spec => []IInv
BY InitInv, NextInv, PTL DEF Spec

\* A rollback only ever drops what its own request created and nobody
\* dropped or created again since, however many requests interleave.
THEOREM RollbackCorrect == Spec => []RollbackDropsOwn
<1>1. IInv => RollbackDropsOwn
  BY DEF IInv, Flags, Held, HoldsDatabase, HoldsAccount, RollbackDropsOwn
<1> QED
  BY <1>1, InvAlways, PTL

\* The objects of a request answered with success are there and its own, and
\* so is the grant of a provision, whatever the others roll back.
THEOREM ProvisioningCorrect == Spec => [](TypeOK /\ AcknowledgedStays)
<1>1. IInv => TypeOK /\ AcknowledgedStays
  BY DEF IInv, Held, Granted, HoldsDatabase, HoldsAccount, Kind, Whole,
         AcknowledgedStays
<1> QED
  BY <1>1, InvAlways, PTL

\* A rejected request has left nothing but what it was never told of.
THEOREM RejectionCorrect == Spec => []RejectedLeavesOnlyUnheard
<1>1. IInv => RejectedLeavesOnlyUnheard
  BY DEF IInv, Left, HoldsDatabase, HoldsAccount, RejectedLeavesOnlyUnheard
<1> QED
  BY <1>1, InvAlways, PTL

-----------------------------------------------------------------------------
(* A grant is nobody's own: the rollback of the provision that created its  *)
(* account takes it along.                                                  *)

\* The rollback of a provision that created the account has begun.
UserUndone(q) == "user" \in created[q] /\ pc[q] \notin {"grant", "ok"}

Standing(r) ==
  Kind(r) = "grant" /\ pc[r] = "ok" =>
    \/ <<Acct(r), Name(r)>> \in grants
    \/ \E q \in Req : Acct(q) = Acct(r) /\ UserUndone(q)

GrantInv ==
  \A r \in Req : Standing(r) /\ (pc[r] = "dropUser" => "user" \in created[r])

\* Nothing has been granted.
LEMMA GrantInvInit == Init => GrantInv
<1> SUFFICES ASSUME Init, NEW r \in Req
             PROVE  pc[r] \notin {"ok", "dropUser"}
  BY DEF GrantInv, Standing
<1> QED
  BY DEF Init, Start

\* A rollback that has begun is never taken back.
LEMMA UndoneStays ==
  ASSUME IInv, NEW r \in Req, Step(r), NEW q \in Req, UserUndone(q)
  PROVE  UserUndone(q)'
<1>1. Flags(q) /\ Kind(q) \in Kinds /\ (Whole(q) <=> Kind(q) = "provision")
  BY InputFields DEF IInv, TypeOK
<1>2. "user" \in created'[q]
  BY DEF IInv, TypeOK, UserUndone, Step, CreateDatabaseOk,
         CreateDatabaseFails, CreateUserOk, CreateUserFails, GrantOk,
         GrantFails, DropUserOk, DropDatabaseOk, DropFails
<1>3. pc[q] \notin {"createDatabase", "createUser", "grant", "ok"}
  BY <1>1 DEF Flags, UserUndone
<1>4. pc'[q] \notin {"grant", "ok"}
  BY <1>3
  DEF IInv, TypeOK, Goto, Step, CreateDatabaseOk, CreateDatabaseFails,
      CreateUserOk, CreateUserFails, GrantOk, GrantFails, DropUserOk,
      DropDatabaseOk, DropFails
<1> QED
  BY <1>2, <1>4 DEF UserUndone

\* The only step that takes grants away is the DROP USER of a rollback.
LEMMA GrantsTaken ==
  ASSUME IInv, GrantInv, NEW r \in Req, Step(r)
  PROVE  \/ grants \subseteq grants'
         \/ /\ \A g \in grants : g[1] # Acct(r) => g \in grants'
            /\ UserUndone(r)'
<1>1. ASSUME DropsUser(r), pc[r] = "dropUser",
             pc'[r] \in {"dropDatabase", "rollbackFailed"}, created' = created
      PROVE  /\ \A g \in grants : g[1] # Acct(r) => g \in grants'
             /\ UserUndone(r)'
  BY <1>1 DEF DropsUser, UserUndone, GrantInv
<1>2. CASE DropUserOk(r)
  BY <1>1, <1>2 DEF DropUserOk, Goto, IInv, TypeOK
<1>3. CASE DropFails(r)
  <2>1. pc'[r] = "rollbackFailed" /\ created' = created
    BY <1>3 DEF DropFails, Goto, IInv, TypeOK
  <2>2. grants' = grants \/ (pc[r] = "dropUser" /\ DropsUser(r))
    BY <1>3 DEF DropFails, server, DropsDatabase
  <2> QED
    BY <1>1, <2>1, <2>2
<1>4. CASE \/ CreateDatabaseOk(r) \/ CreateDatabaseFails(r) \/ CreateUserOk(r)
           \/ CreateUserFails(r) \/ GrantOk(r) \/ GrantFails(r)
           \/ DropDatabaseOk(r)
  BY <1>4
  DEF CreateDatabaseOk, CreateDatabaseFails, CreateUserOk, CreateUserFails,
      GrantOk, GrantFails, DropDatabaseOk, CreatesDatabase, CreatesUser, Grants,
      DropsDatabase, server
<1> QED
  BY <1>2, <1>3, <1>4 DEF Step

\* Every step keeps what is known of grants.
LEMMA GrantInvStep ==
  ASSUME IInv, GrantInv, NEW r \in Req, Step(r), NEW q \in Req
  PROVE  Standing(q)' /\ (pc'[q] = "dropUser" => "user" \in created'[q])
<1>1. input' = input
  BY DEF Step, CreateDatabaseOk, CreateDatabaseFails, CreateUserOk,
         CreateUserFails, GrantOk, GrantFails, DropUserOk, DropDatabaseOk,
         DropFails
<1>2. \A p \in Req : Acct(p)' = Acct(p) /\ Name(p)' = Name(p) /\ Kind(p)' = Kind(p)
  BY <1>1 DEF Acct, Name, Kind
<1>3. pc'[q] = "dropUser" => "user" \in created'[q]
  BY DEF GrantInv, IInv, TypeOK, Goto, Undo, Then, Step, CreateDatabaseOk,
         CreateDatabaseFails, CreateUserOk, CreateUserFails, GrantOk,
         GrantFails, DropUserOk, DropDatabaseOk, DropFails
<1>4. ASSUME Kind(q) = "grant", pc'[q] = "ok", pc[q] # "ok"
      PROVE  <<Acct(q), Name(q)>> \in grants'
  <2>1. Flags(q) /\ ~Whole(q)
    BY <1>4, InputFields DEF IInv, TypeOK
  <2>2. q = r /\ pc[q] \notin {"createDatabase", "createUser"}
    BY <1>4, <2>1
    DEF Flags, IInv, TypeOK, Goto, Step, CreateDatabaseOk, CreateDatabaseFails,
        CreateUserOk, CreateUserFails, GrantOk, GrantFails, DropUserOk,
        DropDatabaseOk, DropFails
  <2>3. GrantOk(q)
    BY <1>4, <2>1, <2>2
    DEF Flags, IInv, TypeOK, Goto, Undo, Step, CreateDatabaseOk,
        CreateDatabaseFails, CreateUserOk, CreateUserFails, GrantFails,
        DropUserOk, DropDatabaseOk, DropFails
  <2> QED
    BY <2>3 DEF GrantOk, Grants
<1>5. ASSUME Kind(q) = "grant", pc[q] = "ok", <<Acct(q), Name(q)>> \in grants
      PROVE  \/ <<Acct(q), Name(q)>> \in grants'
             \/ \E p \in Req : Acct(p) = Acct(q) /\ UserUndone(p)'
  BY <1>5, GrantsTaken
<1>6. Standing(q)'
  BY <1>2, <1>4, <1>5, UndoneStays DEF GrantInv, Standing
<1> QED
  BY <1>3, <1>6

\* A grant answered with success is lost only to the rollback of the
\* provision that created its account, for any number of requests.
THEOREM GrantCorrect == Spec => []GrantStaysUnlessUserDropped
<1>1. IInv /\ GrantInv /\ [Next]_vars => GrantInv'
  <2>1. ASSUME GrantInv, UNCHANGED vars PROVE GrantInv'
    BY <2>1 DEF GrantInv, Standing, UserUndone, Kind, Acct, Name, vars
  <2> QED
    BY <2>1, GrantInvStep DEF Next, GrantInv
<1>2. GrantInv => GrantStaysUnlessUserDropped
  BY DEF GrantInv, Standing, UserUndone, Kind, GrantStaysUnlessUserDropped
<1> QED
  BY <1>1, <1>2, InvAlways, GrantInvInit, PTL DEF Spec

-----------------------------------------------------------------------------
(* Backups and restores of databases.  No fact of DatabaseProvisioning is used. *)

\* The texts that are as they would be read.
Readable == {text \in Text : Decoded(text) = text}

\* Which request is where, and what of it never changes.
Placed(r) ==
  /\ job[r].pc \in {"dump", "open", "write"} => Backup(r)
  /\ job[r].pc \in {"open", "write"} => job[r].text \in Readable
  /\ Backup(r) /\ Active(r) => job[r].stamp # ByHand
  /\ job[r].pc \in {"read", "import", "audit"} => Restore(r)
  /\ job[r].ok => job[r].pc \in {"cleanup", "audit"}
  /\ Backup(r) => ~job[r].managed
  /\ job[r].given \in Checksums \cup {NoText}

\* Where a request has written no password yet, or has removed it.
Hidden(r) ==
  /\ job[r].pc \in {"new", "audit"} => temp[r] # "password"
  /\ Restore(r) /\ job[r].pc = "metadata" => temp[r] # "password"
  /\ temp[r] = "password" => Active(r) \/ job[r].pc \in {"lost", "unremoved"}

\* A file a restore has found stays.
Found(r) ==
  Restore(r) /\ job[r].pc \in {"metadata", "defaults", "read"} => file[NamedBy(r)] \in Text

\* A file that was not put there by hand is there only if a backup has been
\* started under its name, and is as it would be read.
Named ==
  \A p \in Path : p[2] # ByHand /\ file[p] # NoText =>
    /\ \E q \in BackupReq : job[q].pc # "new" /\ NamedBy(q) = p
    /\ file[p] \in Readable

\* A text collected from a dump while r runs.
Dumped(r, text) == \E v \in seen[r] : text = Collected(v)

\* What is in the file of a backup that shares it with no other.
Writes(r) ==
  Backup(r) /\ ~Clash(NamedBy(r)) =>
       /\ job[r].pc \in {"defaults", "dump", "open"} => file[NamedBy(r)] = NoText
       /\ job[r].pc = "write" => file[NamedBy(r)] = Empty
       /\ job[r].pc \in {"open", "write"} => Dumped(r, job[r].text)
       /\ job[r].pc = "metadata" =>
            file[NamedBy(r)] = job[r].text /\ Dumped(r, job[r].text)
       /\ job[r].pc = "done" \/ job[r].ok =>
            file[NamedBy(r)] = job[r].sum /\ Dumped(r, job[r].sum)

\* A backup under way has seen the state its database is in.
Sees(r) == Backup(r) /\ Active(r) => db[Target(r)] \in seen[r]

\* What a restore that was given a checksum goes by.
Checked(r) ==
  Restore(r) /\ job[r].given # NoText /\ ~Clash(NamedBy(r)) =>
       /\ job[r].pc \in {"defaults", "read"} =>
            file[NamedBy(r)] = job[r].given /\ job[r].sum = job[r].given
       /\ job[r].pc \in {"import", "audit"} \/ job[r].ok =>
            /\ job[r].sum = job[r].given
            /\ job[r].text = Decoded(job[r].given)
            /\ job[r].stamp # ByHand => job[r].text = job[r].given

\* A rollback's event is in the log when it is answered.
Logged(r) ==
  /\ r \in audit => job[r].pc = "done"
  /\ Restore(r) /\ job[r].managed /\ job[r].pc = "done" => r \in audit

\* The inductive invariant of backups and restores.
BackupInv ==
       /\ BackupsTypeOK
       /\ \A r \in Requests : Placed(r) /\ Hidden(r)
       /\ Named
       /\ \A r \in Requests : Found(r) /\ Writes(r) /\ Sees(r) /\ Checked(r) /\ Logged(r)

JobRecord == [base : Schema, stamp : Stamp, given : Dumps \cup {NoText},
              managed : BOOLEAN, pc : Pcs, ok : BOOLEAN,
              text : Text \cup {NoText}, sum : Text \cup {NoText}]

\* No backup is named like a file put there by hand.
LEMMA StampFacts == /\ ByHand \in Stamp /\ 0..MaxTime \subseteq Stamp
                    /\ ByHand \notin 0..MaxTime
BY BackupAssumption DEF BackupAssumption, Stamp, ByHand

\* Decoding makes a text readable and leaves a readable one as it is.
LEMMA DecodedFacts ==
  ASSUME NEW text \in Text
  PROVE  Decoded(text) \in Readable
BY DEF Decoded, Readable, Text, Dumps, Empty, Mixed

\* What is dumped and collected of a state is a text, which no file lacks.
LEMMA DumpFacts ==
         /\ \A v \in State : Dump(v) \in Dumps /\ Collected(v) \in Dumps /\ Collected(v) \in Readable
         /\ Empty \in Readable /\ Mixed \in Readable /\ Dumps \subseteq Text
         /\ Readable \subseteq Text
         /\ \A sum \in Checksums : sum \in Dumps /\ sum # NoText /\ sum # Empty
<1>1. ASSUME NEW v \in State
      PROVE  /\ Dump(v) \in Dumps /\ Collected(v) \in Dumps
             /\ Dump(v).of = v /\ Collected(v).of = v
  <2>1. PICK form \in {"utf8", "bytes"} : Dump(v) = [of |-> v, cut |-> FALSE, form |-> form]
    BY DEF Dump
  <2>3. [Dump(v) EXCEPT !.cut = v \in Long] = [of |-> v, cut |-> v \in Long, form |-> form]
    BY <2>1
  <2>4. PICK last \in {"utf8", "replaced"} :
          Collected(v) = [of |-> v, cut |-> v \in Long, form |-> last]
    BY <2>3 DEF Collected, Decoded
  <2> QED
    BY <2>1, <2>4 DEF Dumps
<1>2. /\ Empty \in Readable /\ Mixed \in Readable /\ Dumps \subseteq Text
      /\ Readable \subseteq Text
  BY DEF Readable, Decoded, Empty, Mixed, Text
<1>3. ASSUME NEW v \in State PROVE Collected(v) \in Readable
  <2>1. [Dump(v) EXCEPT !.cut = v \in Long] \in Dumps
    <3>1. PICK form \in {"utf8", "bytes"} : Dump(v) = [of |-> v, cut |-> FALSE, form |-> form]
      BY DEF Dump
    <3>2. [Dump(v) EXCEPT !.cut = v \in Long] = [of |-> v, cut |-> v \in Long, form |-> form]
      BY <3>1
    <3>3. [of |-> v, cut |-> v \in Long, form |-> form] \in Dumps
      BY DEF Dumps
    <3> QED
      BY <3>2, <3>3
  <2> QED
    BY <2>1, <1>2, DecodedFacts DEF Collected
<1>4. ASSUME NEW sum \in Checksums PROVE sum \in Dumps /\ sum # NoText /\ sum # Empty
  <2>1. PICK v \in Version : sum = Dump(v) \/ sum = Collected(v)
    BY DEF Checksums
  <2>2. v \in State /\ v # NoState
    BY BackupAssumption DEF BackupAssumption, State
  <2>3. sum \in Dumps /\ sum.of # NoState
    BY <2>1, <2>2, <1>1
  <2> QED
    BY <2>3 DEF NoText, Empty
<1> QED
  BY <1>1, <1>2, <1>3, <1>4

\* Before any request.
LEMMA BackupInit == BackupsInit => BackupInv
<1> SUFFICES ASSUME BackupsInit PROVE BackupInv
  OBVIOUS
<1>1. /\ job \in [Requests -> NewJobs]
      /\ \A r \in BackupReq : job[r].stamp = ByHand /\ job[r].given = NoText /\ ~job[r].managed
  BY DEF BackupsInit
<1>2. NewJobs \subseteq JobRecord
  <2>1. Checksums \subseteq Dumps
    BY DumpFacts
  <2> SUFFICES ASSUME NEW x \in NewJobs PROVE x \in JobRecord
    OBVIOUS
  <2> QED
    BY <2>1 DEF NewJobs, JobRecord, Pcs
<1>3. \A r \in Requests : /\ job[r].pc = "new" /\ job[r].ok = FALSE
                          /\ job[r].given \in Checksums \cup {NoText}
  BY <1>1 DEF NewJobs
<1>4. job \in [Requests -> JobRecord]
  BY <1>1, <1>2
<1>5. BackupsTypeOK
  <2>1. file \in [Path -> Text \cup {NoText}]
    <3>1. {Dump(v) : v \in Version} \subseteq Text
      BY DumpFacts DEF State
    <3> QED
      BY <3>1 DEF BackupsInit
  <2> QED
    BY <1>3, <1>4, <2>1, BackupAssumption DEF BackupsInit, BackupsTypeOK, JobRecord,
       State, BackupAssumption
<1>6. \A r \in Requests : Placed(r) /\ Hidden(r)
  BY <1>1, <1>3 DEF Placed, Hidden, BackupsInit, Backup, Active
<1>7. Named
  BY DEF Named, BackupsInit
<1>8. \A r \in Requests : Found(r) /\ Writes(r) /\ Sees(r) /\ Checked(r) /\ Logged(r)
  BY <1>3 DEF Found, Writes, Sees, Checked, Logged, BackupsInit, Active
<1> QED
  BY <1>5, <1>6, <1>7, <1>8 DEF BackupInv

-----------------------------------------------------------------------------
(* What a step changes *)

\* The name of a backup that has started never changes.
KeepsNames ==
  \A r \in Requests :
    /\ job'[r].base = job[r].base /\ job'[r].managed = job[r].managed
    /\ job'[r].given = job[r].given
    /\ job'[r].stamp = job[r].stamp \/ (Backup(r) /\ job[r].pc = "new")
    /\ job[r].pc # "new" => job'[r].pc # "new"

\* Two that share a name always will.
LEMMA ClashStays ==
  ASSUME KeepsNames, NEW r \in Requests, job[r].pc # "new" \/ ~Backup(r)
  PROVE  /\ NamedBy(r)' = NamedBy(r)
         /\ Clash(NamedBy(r)) => Clash(NamedBy(r))'
<1>1. /\ NamedBy(r)' = NamedBy(r)
      /\ <<job'[r].base, job'[r].stamp>> = <<job[r].base, job[r].stamp>>
  BY DEF KeepsNames, NamedBy
<1>2. ASSUME Clash(NamedBy(r)) PROVE Clash(NamedBy(r))'
  <2>1. PICK a, b \in Requests :
          /\ a # b /\ Backup(a) /\ Backup(b)
          /\ job[a].pc # "new" /\ job[b].pc # "new"
          /\ <<job[a].base, job[a].stamp>> = NamedBy(r)
          /\ <<job[b].base, job[b].stamp>> = NamedBy(r)
    BY <1>2 DEF Clash
  <2>2. /\ job'[a].pc # "new" /\ job'[b].pc # "new"
        /\ <<job'[a].base, job'[a].stamp>> = NamedBy(r)'
        /\ <<job'[b].base, job'[b].stamp>> = NamedBy(r)'
    BY <1>1, <2>1 DEF KeepsNames
  <2>3. (NamedBy(r)[2] # ByHand)'
    BY <1>1, <1>2 DEF Clash
  <2> QED
    BY <2>1, <2>2, <2>3 DEF Clash, Backup
<1> QED
  BY <1>1, <1>2

\* A step of a request is of its own record, file and password.
StepOf(q) ==
  /\ \E j \in JobRecord :
       /\ job' = [job EXCEPT ![q] = j]
       /\ j.base = job[q].base /\ j.given = job[q].given /\ j.managed = job[q].managed
       /\ j.stamp = job[q].stamp \/ (Backup(q) /\ job[q].pc = "new")
       /\ j.pc # "new"
       /\ j.pc = "import" => j.text \in Text
  /\ clock' \in 0..MaxTime
  /\ db' \in [Schema -> State]
  /\ file' \in [Path -> Text \cup {NoText}]
  /\ \A p \in Path : file'[p] # file[p] =>
       /\ Backup(q) /\ NamedBy(q) = p /\ job[q].pc \in {"open", "write"}
       /\ p[2] # ByHand /\ file'[p] \in Readable
  /\ temp' \in [Requests -> {"none", "password"}]
  /\ \A r \in Requests \ {q} : temp'[r] = temp[r]
  /\ audit' \subseteq RestoreReq
  /\ audit \subseteq audit' /\ audit' \subseteq audit \cup {q}
  /\ seen' \in [Requests -> SUBSET State]
  /\ \A r \in Requests : job[r].pc # "new" => seen[r] \subseteq seen'[r]
  /\ \A r \in Requests \ {q} : Sees(r) => Sees(r)'

\* A database changes in the sight of all who are under way.
LEMMA BecomesFacts ==
  ASSUME BackupsTypeOK, NEW d \in Schema, NEW v \in State, Becomes(d, v)
  PROVE  /\ db' \in [Schema -> State] /\ seen' \in [Requests -> SUBSET State]
         /\ \A r \in Requests : seen[r] \subseteq seen'[r]
         /\ \A r \in Requests : Backup(r) /\ Active(r) /\ db[Target(r)] \in seen[r] =>
              db'[Target(r)] \in seen'[r]
<1>1. db' = [db EXCEPT ![d] = v] /\ db \in [Schema -> State]
  BY DEF Becomes, BackupsTypeOK
<1>2. /\ \A r \in Requests : seen'[r] = IF Backup(r) /\ Active(r) /\ Target(r) = d THEN seen[r] \cup {v}
                                      ELSE seen[r]
      /\ seen \in [Requests -> SUBSET State]
  BY DEF Becomes, BackupsTypeOK
<1>3. seen' \in [Requests -> SUBSET State]
  BY <1>2 DEF Becomes
<1>4. \A r \in Requests : Target(r) \in Schema
  BY DEF BackupsTypeOK, Target
<1> QED
  BY <1>1, <1>2, <1>3, <1>4

\* What a restore leaves is a state.
LEMMA ImportedType ==
  ASSUME BackupsTypeOK, NEW q \in Requests, job[q].pc = "import"
  PROVE  Imported(q) \in State
BY DEF BackupsTypeOK, Imported, Result, Target, State, Text, Dumps

\* Every step of a request is of that form.
LEMMA StepEffects ==
  ASSUME BackupInv, NEW q \in Requests, RequestStep(q)
  PROVE  StepOf(q)
<1> DEFINE P(j) == /\ j \in JobRecord
                   /\ job' = [job EXCEPT ![q] = j]
                   /\ j.base = job[q].base /\ j.given = job[q].given
                   /\ j.managed = job[q].managed
                   /\ j.stamp = job[q].stamp \/ (Backup(q) /\ job[q].pc = "new")
                   /\ j.pc # "new"
                   /\ j.pc = "import" => j.text \in Text
<1>1. BackupsTypeOK /\ Placed(q) /\ Found(q)
  BY DEF BackupInv
<1>2. job \in [Requests -> JobRecord] /\ job[q] \in JobRecord /\ job[q].text \in Text \cup {NoText}
  BY <1>1 DEF BackupsTypeOK, JobRecord
<1>3. /\ clock \in 0..MaxTime /\ db \in [Schema -> State]
      /\ file \in [Path -> Text \cup {NoText}]
      /\ temp \in [Requests -> {"none", "password"}]
      /\ audit \subseteq RestoreReq /\ seen \in [Requests -> SUBSET State]
      /\ NamedBy(q) \in Path /\ Target(q) \in Schema
  BY <1>1 DEF BackupsTypeOK, NamedBy, Path, Target
<1>g. ASSUME NEW p \in Pcs \ {"new", "import"}, Continue(q, p) PROVE \E j : P(j)
  <2>1. PICK j : j = [job[q] EXCEPT !.pc = p]
    OBVIOUS
  <2>2. /\ j \in JobRecord /\ j.pc = p /\ j.base = job[q].base
        /\ j.given = job[q].given /\ j.managed = job[q].managed /\ j.stamp = job[q].stamp
    BY <1>2, <2>1 DEF JobRecord
  <2>3. job' = [job EXCEPT ![q] = j]
    BY <1>2, <1>g, <2>1 DEF Continue
  <2> QED
    BY <1>g, <2>2, <2>3
<1>t. ASSUME NEW p \in Pcs \ {"new"}, NEW text \in Text, Take(q, text, p) PROVE \E j : P(j)
  <2>1. PICK j : j = [job[q] EXCEPT !.pc = p, !.text = text]
    OBVIOUS
  <2>2. j \in JobRecord /\ j.pc = p /\ j.text = text /\ j.base = job[q].base
        /\ j.given = job[q].given /\ j.managed = job[q].managed /\ j.stamp = job[q].stamp
    BY <1>2, <2>1 DEF JobRecord
  <2>3. job' = [job EXCEPT ![q] = j]
    BY <1>2, <1>t, <2>1 DEF Take
  <2> QED
    BY <1>t, <2>2, <2>3
<1>e. ASSUME NEW how \in {"done", "failed", "unremoved"}, job' = [job EXCEPT ![q] = Ended(q, how)]
      PROVE  \E j : P(j)
  <2>1. PICK j : j = Ended(q, how)
    OBVIOUS
  <2>2. /\ j \in JobRecord /\ j.pc = how /\ j.base = job[q].base
        /\ j.given = job[q].given /\ j.managed = job[q].managed /\ j.stamp = job[q].stamp
    BY <1>2, <2>1 DEF JobRecord, Ended, Pcs
  <2> QED
    BY <1>e, <2>1, <2>2
<1>s. ASSUME NEW j, P(j), NEW r \in Requests \ {q}
      PROVE  Active(r)' = Active(r) /\ Target(r)' = Target(r)
  BY <1>2, <1>s DEF Active, Target
<1>f. ASSUME \E j : P(j), UNCHANGED <<clock, db, file, logs>>,
             \/ UNCHANGED temp
             \/ \E x \in {"none", "password"} : temp' = [temp EXCEPT ![q] = x]
      PROVE  StepOf(q)
  <2>1. PICK j : P(j)
    BY <1>f
  <2>2. \A r \in Requests \ {q} : Sees(r) => Sees(r)'
    BY <2>1, <1>f, <1>s DEF Sees, logs, Backup
  <2>3. /\ temp' \in [Requests -> {"none", "password"}]
        /\ \A r \in Requests \ {q} : temp'[r] = temp[r]
    BY <1>f, <1>3
  <2> QED
    BY <2>1, <2>2, <2>3, <1>f, <1>3 DEF StepOf, logs
<1>d. ASSUME NEW j, P(j), UNCHANGED <<clock, file, temp, audit>>,
             NEW v \in State, Becomes(Target(q), v)
      PROVE  StepOf(q)
  <2>1. /\ db' \in [Schema -> State] /\ seen' \in [Requests -> SUBSET State]
        /\ \A r \in Requests : seen[r] \subseteq seen'[r]
        /\ \A r \in Requests : Backup(r) /\ Active(r) /\ db[Target(r)] \in seen[r] =>
             db'[Target(r)] \in seen'[r]
    BY <1>d, <1>1, <1>3, BecomesFacts
  <2>2. \A r \in Requests \ {q} : Sees(r) => Sees(r)'
    BY <2>1, <1>d, <1>s DEF Sees, Backup
  <2> QED
    BY <2>1, <2>2, <1>d, <1>3 DEF StepOf
<1>w. ASSUME NEW j, P(j), UNCHANGED <<clock, db, temp, logs>>, NEW text \in Readable,
             file' = [file EXCEPT ![File(q)] = text], job[q].pc \in {"open", "write"}
      PROVE  StepOf(q)
  <2>1. \A r \in Requests \ {q} : Sees(r) => Sees(r)'
    <3>1. \A r \in Requests \ {q} : Active(r)' = Active(r) /\ Target(r)' = Target(r)
      BY <1>w, <1>s
    <3>2. UNCHANGED <<db, seen>>
      BY <1>w DEF logs
    <3> QED
      BY <3>1, <3>2 DEF Sees, Backup
  <2>2. Backup(q) /\ File(q) = NamedBy(q) /\ NamedBy(q)[2] # ByHand
    BY <1>w, <1>1 DEF Placed, File, NamedBy, Active
  <2>3. text \in Text
    BY DumpFacts
  <2> QED
    BY <2>1, <2>2, <2>3, <1>w, <1>3 DEF StepOf, logs
<1> HIDE DEF P
<1>4. CASE StartBackup(q)
  <2>1. PICK j : j = [job[q] EXCEPT !.pc = "defaults", !.stamp = clock]
    OBVIOUS
  <2>2. /\ j \in JobRecord /\ j.pc = "defaults" /\ j.base = job[q].base
        /\ j.given = job[q].given /\ j.managed = job[q].managed
    BY <1>2, <1>3, <2>1, StampFacts DEF JobRecord, Pcs
  <2>3. job' = [job EXCEPT ![q] = j] /\ Backup(q) /\ job[q].pc = "new"
    BY <1>2, <1>4, <2>1 DEF StartBackup, Arrives
  <2>4. P(j)
    BY <2>2, <2>3 DEF P
  <2>5. /\ UNCHANGED <<clock, db, file, temp, audit>>
        /\ seen' = [seen EXCEPT ![q] = {db[Target(q)]}]
    BY <1>4 DEF StartBackup, Arrives
  <2>6. \A r \in Requests \ {q} : Sees(r) => Sees(r)'
    BY <2>4, <2>5, <1>3, <1>s DEF Sees, Backup
  <2>7. seen' \in [Requests -> SUBSET State] /\ \A r \in Requests \ {q} : seen'[r] = seen[r]
    BY <2>5, <1>3
  <2>8. \A r \in Requests : job[r].pc # "new" => seen[r] \subseteq seen'[r]
    BY <2>3, <2>7
  <2> QED
    BY <2>3, <2>4, <2>5, <2>6, <2>7, <2>8, <1>3 DEF StepOf, P
<1>5. CASE DumpOk(q)
  <2>1. Collected(db[Target(q)]) \in Text
    BY <1>3, DumpFacts
  <2> QED
    BY <1>5, <2>1, <1>t, <1>f DEF DumpOk, Pcs
<1>6. CASE DumpFails(q) \/ WriteFails(q) \/ StartFails(q) \/ ReadFails(q)
  BY <1>6, <1>g, <1>f DEF DumpFails, WriteFails, StartFails, ReadFails, Pcs
<1>7. CASE OpenBackup(q)
  <2>1. PICK j : P(j)
    BY <1>7, <1>g DEF OpenBackup, Pcs
  <2> QED
    BY <1>7, <2>1, <1>w, DumpFacts DEF OpenBackup
<1>8. CASE WriteBackup(q)
  <2>1. PICK j : P(j)
    BY <1>8, <1>g DEF WriteBackup, Pcs
  <2> QED
    BY <1>8, <2>1, <1>1, <1>w, DumpFacts DEF WriteBackup, Placed
<1>9. CASE BackupMetadata(q)
  <2>1. PICK j : j = [job[q] EXCEPT !.pc = "cleanup", !.ok = TRUE, !.sum = file[File(q)]]
    OBVIOUS
  <2>2. file[File(q)] \in Text \cup {NoText}
    BY <1>3 DEF File, NamedBy
  <2>3. /\ j \in JobRecord /\ j.pc = "cleanup" /\ j.base = job[q].base
        /\ j.given = job[q].given /\ j.managed = job[q].managed /\ j.stamp = job[q].stamp
    BY <1>2, <2>1, <2>2 DEF JobRecord, Pcs
  <2>4. job' = [job EXCEPT ![q] = j]
    BY <1>2, <1>9, <2>1 DEF BackupMetadata
  <2>5. P(j)
    BY <2>3, <2>4 DEF P
  <2> QED
    BY <1>9, <2>5, <1>f DEF BackupMetadata
<1>10. CASE Resolve(q)
  <2>1. PICK next \in {"metadata", "failed"} : Continue(q, next)
    BY <1>10 DEF Resolve
  <2> QED
    BY <1>10, <2>1, <1>g, <1>f DEF Resolve, Pcs
<1>11. CASE RestoreMetadata(q)
  <2>1. PICK p \in {"defaults", "failed"} :
          job' = [job EXCEPT ![q].sum = file[File(q)], ![q].pc = p]
    BY <1>11 DEF RestoreMetadata
  <2>2. PICK j : j = [job[q] EXCEPT !.sum = file[File(q)], !.pc = p]
    OBVIOUS
  <2>3. file[File(q)] \in Text \cup {NoText}
    BY <1>3 DEF File, NamedBy
  <2>4. /\ j \in JobRecord /\ j.pc = p /\ j.base = job[q].base
        /\ j.given = job[q].given /\ j.managed = job[q].managed /\ j.stamp = job[q].stamp
    BY <1>2, <2>2, <2>3 DEF JobRecord, Pcs
  <2>5. job' = [job EXCEPT ![q] = j]
    BY <1>2, <2>1, <2>2
  <2>6. P(j)
    BY <2>4, <2>5 DEF P
  <2> QED
    BY <1>11, <2>6, <1>f DEF RestoreMetadata
<1>12. CASE ReadBackup(q)
  <2>1. Decoded(file[File(q)]) \in Text
    BY <1>12, <1>1, DecodedFacts DEF ReadBackup, Found, Placed, File, NamedBy, Readable
  <2> QED
    BY <1>12, <2>1, <1>t, <1>f DEF ReadBackup, Pcs
<1>13. CASE ImportOk(q)
  <2>1. PICK j : j = [job[q] EXCEPT !.pc = "cleanup", !.ok = TRUE]
    OBVIOUS
  <2>2. /\ j \in JobRecord /\ j.pc = "cleanup" /\ j.base = job[q].base
        /\ j.given = job[q].given /\ j.managed = job[q].managed /\ j.stamp = job[q].stamp
    BY <1>2, <2>1 DEF JobRecord, Pcs
  <2>3. job' = [job EXCEPT ![q] = j]
    BY <1>2, <1>13, <2>1 DEF ImportOk
  <2>4. P(j)
    BY <2>2, <2>3 DEF P
  <2> QED
    BY <1>13, <2>4, <1>d, <1>1, ImportedType DEF ImportOk
<1>14. CASE ImportFails(q)
  <2>1. PICK j : P(j)
    BY <1>14, <1>g DEF ImportFails, Pcs
  <2>2. PICK v \in {db[Target(q)], Broken, Imported(q)} : Becomes(Target(q), v)
    BY <1>14 DEF ImportFails
  <2>3. v \in State
    BY <2>2, <1>14, <1>1, <1>3, ImportedType DEF State, ImportFails
  <2> QED
    BY <1>14, <2>1, <2>2, <2>3, <1>d DEF ImportFails
<1>15. CASE WriteDefaults(q)
  BY <1>15, <1>g, <1>f DEF WriteDefaults, Pcs
<1>16. CASE WriteDefaultsFails(q) \/ CleanupFails(q)
  BY <1>16, <1>e, <1>f DEF WriteDefaultsFails, CleanupFails
<1>17. CASE Cleanup(q)
  <2>1. \E j : P(j)
    BY <1>17, <1>g, <1>e DEF Cleanup, Pcs
  <2> QED
    BY <1>17, <2>1, <1>f DEF Cleanup
<1>18. CASE AuditRestore(q)
  <2>1. PICK j : P(j)
    BY <1>18, <1>e DEF AuditRestore
  <2>2. q \in RestoreReq
    BY <1>18, <1>1 DEF AuditRestore, Placed, Restore
  <2>3. \A r \in Requests \ {q} : Sees(r) => Sees(r)'
    BY <1>18, <2>1, <1>s DEF Sees, AuditRestore, Backup
  <2> QED
    BY <1>18, <2>1, <2>2, <2>3, <1>3 DEF StepOf, AuditRestore, P
<1>19. CASE AuditFails(q)
  BY <1>19, <1>e, <1>f DEF AuditFails
<1> QED
  BY <1>4, <1>5, <1>6, <1>7, <1>8, <1>9, <1>10, <1>11, <1>12, <1>13, <1>14,
     <1>15, <1>16,
     <1>17, <1>18, <1>19 DEF RequestStep

LEMMA NamesStay ==
  ASSUME BackupsTypeOK, NEW q \in Requests, StepOf(q)
  PROVE  KeepsNames
BY DEF StepOf, KeepsNames, BackupsTypeOK

\* The others keep what holds of them.
LEMMA OthersKeep ==
  ASSUME BackupInv, NEW q \in Requests, StepOf(q), NEW r \in Requests \ {q}
  PROVE  (Placed(r) /\ Hidden(r) /\ Found(r) /\ Writes(r) /\ Sees(r) /\ Checked(r) /\ Logged(r))'
<1>1. /\ BackupsTypeOK /\ Placed(r) /\ Hidden(r) /\ Found(r) /\ Writes(r) /\ Writes(q) /\ Sees(r)
      /\ Checked(r) /\ Logged(r) /\ Placed(q) /\ KeepsNames
  BY NamesStay DEF BackupInv
<1>2. job'[r] = job[r] /\ temp'[r] = temp[r] /\ NamedBy(r)' = NamedBy(r)
  BY <1>1 DEF StepOf, BackupsTypeOK, NamedBy
<1>3. NamedBy(r) \in Path
  BY <1>1 DEF BackupsTypeOK, NamedBy, Path
<1>4. Placed(r)' /\ Hidden(r)' /\ Sees(r)'
  BY <1>1, <1>2 DEF Placed, Hidden, Active, StepOf, Backup, Restore
<1>5. Found(r)'
  BY <1>1, <1>2, <1>3, DumpFacts DEF Found, StepOf, Restore
<1>6. Logged(r)'
  BY <1>1, <1>2 DEF Logged, StepOf, Restore
<1>7. Writes(r)'
  <2> SUFFICES ASSUME Backup(r), ~Clash(NamedBy(r))', job[r].pc # "new"
               PROVE  Writes(r)'
    BY <1>1, <1>2 DEF Writes, Backup, Placed
  <2>1. ~Clash(NamedBy(r))
    BY <1>1, ClashStays
  <2>2. file'[NamedBy(r)] = file[NamedBy(r)]
    BY <1>3, <2>1 DEF StepOf, Clash, NamedBy
  <2>3. seen[r] \subseteq seen'[r]
    BY DEF StepOf
  <2> QED
    BY <1>1, <1>2, <2>1, <2>2, <2>3 DEF Writes, Dumped
<1>8. Checked(r)'
  <2> SUFFICES ASSUME Restore(r), ~Clash(NamedBy(r))', job[r].given # NoText
               PROVE  Checked(r)'
    BY <1>2 DEF Checked, Restore
  <2>1. ~Clash(NamedBy(r))
    BY <1>1, ClashStays, BackupAssumption DEF BackupAssumption,
       Backup, Restore
  <2>2. ASSUME job[r].pc \in {"defaults", "read"}, file'[NamedBy(r)] # file[NamedBy(r)]
        PROVE  FALSE
    <3>1. Backup(q) /\ NamedBy(q) = NamedBy(r) /\ job[q].pc \in {"open", "write"}
      BY <1>3, <2>2 DEF StepOf
    <3>2. file[NamedBy(r)] \in {NoText, Empty}
      BY <1>1, <2>1, <3>1 DEF Writes
    <3>3. file[NamedBy(r)] = job[r].given
      BY <1>1, <2>1, <2>2 DEF Checked
    <3> QED
      BY <1>1, <3>2, <3>3, DumpFacts DEF Placed
  <2> QED
    BY <1>1, <1>2, <2>1, <2>2 DEF Checked
<1> QED
  BY <1>4, <1>5, <1>6, <1>7, <1>8

\* The request that takes a step keeps what holds of it.
LEMMA OwnKeeps ==
  ASSUME BackupInv, NEW q \in Requests, RequestStep(q), StepOf(q)
  PROVE  (Placed(q) /\ Hidden(q) /\ Found(q) /\ Writes(q) /\ Sees(q) /\ Checked(q) /\ Logged(q))'
<1> DEFINE Same == UNCHANGED <<clock, db, file, temp, logs>>
           After(p) == job'[q].pc = p
           Holds == (Placed(q) /\ Hidden(q) /\ Found(q) /\ Writes(q) /\ Sees(q) /\ Checked(q)
                      /\ Logged(q))'
<1>1. /\ BackupsTypeOK /\ Placed(q) /\ Hidden(q) /\ Found(q) /\ Writes(q) /\ Sees(q) /\ Checked(q)
      /\ Logged(q) /\ KeepsNames /\ Named
  BY NamesStay DEF BackupInv
<1>2. job \in [Requests -> JobRecord] /\ job[q] \in JobRecord
  BY <1>1 DEF BackupsTypeOK, JobRecord
<1>3. /\ NamedBy(q) \in Path /\ File(q) = NamedBy(q)
      /\ file \in [Path -> Text \cup {NoText}]
      /\ temp \in [Requests -> {"none", "password"}]
      /\ seen \in [Requests -> SUBSET State]
      /\ Backup(q) <=> ~Restore(q)
      /\ Target(q) = job[q].base
  BY <1>1, BackupAssumption
  DEF BackupsTypeOK, NamedBy, Path, File, BackupAssumption, Backup,
      Restore, Requests, Target
<1>4. /\ job'[q].base = job[q].base /\ job'[q].given = job[q].given
      /\ job'[q].managed = job[q].managed /\ Target(q)' = Target(q)
  BY <1>1 DEF KeepsNames, Target
<1>5. /\ job[q].pc # "new" \/ ~Backup(q) =>
           /\ NamedBy(q)' = NamedBy(q) /\ job'[q].stamp = job[q].stamp
           /\ ~Clash(NamedBy(q))' => ~Clash(NamedBy(q))
      /\ job[q].pc # "new" => seen[q] \subseteq seen'[q]
  BY <1>1, ClashStays DEF StepOf, KeepsNames
<1>g. ASSUME NEW p, Continue(q, p)
      PROVE  /\ After(p) /\ job'[q].ok = job[q].ok /\ job'[q].text = job[q].text
             /\ job'[q].sum = job[q].sum
  BY <1>2, <1>g DEF Continue, JobRecord
<1>t. ASSUME NEW p, NEW text, Take(q, text, p)
      PROVE  /\ After(p) /\ job'[q].ok = job[q].ok /\ job'[q].text = text
             /\ job'[q].sum = job[q].sum
  BY <1>2, <1>t DEF Take, JobRecord
<1>e. ASSUME NEW how, job' = [job EXCEPT ![q] = Ended(q, how)]
      PROVE  /\ After(how) /\ job'[q].ok = FALSE /\ job'[q].text = NoText
             /\ job'[q].sum = IF how = "done" /\ Backup(q) THEN job[q].sum ELSE NoText
  BY <1>2, <1>e DEF Ended, JobRecord
<1>f. ASSUME NEW p \in {"failed", "lost", "unremoved"}, After(p), ~job'[q].ok,
             temp'[q] # "password" \/ p # "failed", q \notin audit'
      PROVE  Holds
  BY <1>f, <1>1, <1>4 DEF Placed, Hidden, Found, Writes, Sees, Checked, Logged,
                          Active, Backup
<1>a. job[q].pc # "done" => q \notin audit
  BY <1>1 DEF Logged
<1>6. CASE StartBackup(q)
  <2>1. /\ job'[q] = [job[q] EXCEPT !.pc = "defaults", !.stamp = clock]
        /\ Backup(q) /\ job[q].pc = "new" /\ file' = file /\ temp' = temp /\ audit' = audit
        /\ db' = db /\ seen'[q] = {db[Target(q)]}
    BY <1>2, <1>3, <1>6 DEF StartBackup, Arrives
  <2>2. After("defaults") /\ job'[q].ok = job[q].ok /\ job'[q].stamp = clock
    BY <2>1, <1>2 DEF JobRecord
  <2>3. ~Clash(NamedBy(q))' => file'[NamedBy(q)'] = NoText
    <3> SUFFICES ASSUME file[NamedBy(q)'] # NoText PROVE Clash(NamedBy(q))'
      BY <2>1
    <3>1. NamedBy(q)' \in Path /\ NamedBy(q)'[2] # ByHand
      BY <1>1, <1>2, <1>4, <2>2, StampFacts DEF NamedBy, Path, JobRecord, BackupsTypeOK
    <3>2. PICK b \in BackupReq : job[b].pc # "new" /\ NamedBy(b) = NamedBy(q)'
      BY <1>1, <3>1 DEF Named
    <3>3. /\ b # q /\ b \in Requests /\ job'[b].pc # "new"
          /\ <<job'[b].base, job'[b].stamp>> = NamedBy(q)'
      BY <1>1, <2>1, <3>2 DEF KeepsNames, NamedBy, Requests
    <3>4. job'[q].pc # "new" /\ <<job'[q].base, job'[q].stamp>> = NamedBy(q)'
      BY <2>2 DEF NamedBy
    <3> QED
      BY <2>1, <3>1, <3>2, <3>3, <3>4 DEF Clash, Backup
  <2>4. job'[q].stamp # ByHand
    BY <2>2, <1>1, StampFacts DEF BackupsTypeOK
  <2> QED
    BY <2>1, <2>2, <2>3, <2>4, <1>1, <1>3, <1>4
    DEF Placed, Hidden, Found, Writes, Sees, Checked, Logged, Active,
        Backup, Restore
<1>7. CASE DumpOk(q)
  <2>1. /\ After("open") /\ job'[q].text = Collected(db[Target(q)]) /\ job'[q].ok = job[q].ok
        /\ job[q].pc = "dump" /\ Backup(q) /\ Same
    BY <1>1, <1>7, <1>t DEF DumpOk, Placed
  <2>2. Dumped(q, job[q].text)'
    BY <2>1, <1>1 DEF Sees, Active, Dumped, logs
  <2>3. job'[q].text \in Readable
    BY <2>1, <1>1, <1>3, DumpFacts DEF BackupsTypeOK, Target
  <2> QED
    BY <2>1, <2>2, <2>3, DumpFacts, <1>1, <1>3, <1>4, <1>5, <1>a
    DEF Placed, Hidden, Found, Writes, Sees, Checked, Logged, Active,
        Backup, Restore, logs
<1>c. ASSUME After("cleanup"), job'[q].ok = job[q].ok, Same, ~job[q].ok, Active(q)
      PROVE  Holds
  BY <1>c, <1>1, <1>3, <1>4, <1>5, <1>a
  DEF Placed, Hidden, Found, Writes, Sees, Checked, Logged, Active,
      Backup, Restore, logs
<1>8. CASE DumpFails(q) \/ WriteFails(q)
  <2>1. After("cleanup") /\ job'[q].ok = job[q].ok /\ Same /\ ~job[q].ok /\ Active(q)
    BY <1>1, <1>8, <1>g DEF DumpFails, WriteFails, Placed, Active
  <2> QED
    BY <2>1, <1>c
<1>s. CASE StartFails(q)
  <2>1. After("failed") /\ ~job'[q].ok /\ temp'[q] # "password" /\ q \notin audit'
    BY <1>s, <1>1, <1>a, <1>g DEF StartFails, Arrives, Placed, Hidden, logs
  <2> QED
    BY <2>1, <1>f
<1>r. CASE ReadFails(q)
  <2>1. CASE Restore(q) /\ job[q].pc = "metadata"
    <3>1. After("failed") /\ ~job'[q].ok /\ temp'[q] # "password" /\ q \notin audit'
      BY <1>r, <2>1, <1>1, <1>a, <1>g DEF ReadFails, Placed, Hidden, logs
    <3> QED
      BY <3>1, <1>f
  <2>2. CASE ~(Restore(q) /\ job[q].pc = "metadata")
    <3>1. After("cleanup") /\ job'[q].ok = job[q].ok /\ Same /\ ~job[q].ok /\ Active(q)
      BY <1>r, <2>2, <1>1, <1>g DEF ReadFails, Placed, Active
    <3> QED
      BY <3>1, <1>c
  <2> QED
    BY <2>1, <2>2
<1>9. CASE OpenBackup(q) \/ WriteBackup(q)
  <2>1. /\ UNCHANGED <<clock, db, temp, logs>> /\ Backup(q) /\ job[q].pc \in {"open", "write"}
        /\ ~job[q].ok
    BY <1>1, <1>9 DEF OpenBackup, WriteBackup, Placed
  <2>2. CASE OpenBackup(q)
    <3>1. /\ After("write") /\ job'[q].text = job[q].text /\ job'[q].ok = job[q].ok
          /\ file'[NamedBy(q)] = Empty /\ job[q].pc = "open"
      BY <2>2, <1>3, <1>g DEF OpenBackup
    <3> QED
      BY <2>1, <3>1, <1>1, <1>3, <1>4, <1>5, <1>a, DumpFacts
      DEF Placed, Hidden, Found, Writes, Sees, Checked, Logged, Active,
          Backup, Restore, logs,
          Dumped
  <2>3. CASE WriteBackup(q)
    <3>1. PICK text \in {job[q].text, Mixed} :
             /\ file[File(q)] \in {Empty, job[q].text} => text = job[q].text
             /\ file' = [file EXCEPT ![File(q)] = text]
      BY <2>3 DEF WriteBackup
    <3>2. /\ After("metadata") /\ job'[q].text = job[q].text /\ job'[q].ok = job[q].ok
          /\ file'[NamedBy(q)] = text /\ job[q].pc = "write"
      BY <2>3, <3>1, <1>3, <1>g DEF WriteBackup
    <3>3. ~Clash(NamedBy(q)) => text = job[q].text
      BY <2>1, <3>1, <3>2, <1>1, <1>3 DEF Writes
    <3> QED
      BY <2>1, <3>2, <3>3, <1>1, <1>3, <1>4, <1>5, <1>a
      DEF Placed, Hidden, Found, Writes, Sees, Checked, Logged, Active,
          Backup, Restore, logs,
          Dumped
  <2> QED
    BY <1>9, <2>2, <2>3
<1>10. CASE BackupMetadata(q)
  <2>1. /\ job'[q] = [job[q] EXCEPT !.pc = "cleanup", !.ok = TRUE, !.sum = file[File(q)]]
        /\ Same /\ Backup(q) /\ job[q].pc = "metadata"
    BY <1>2, <1>10 DEF BackupMetadata
  <2>2. After("cleanup") /\ job'[q].ok /\ job'[q].sum = file[NamedBy(q)]
    BY <2>1, <1>2, <1>3 DEF JobRecord
  <2> QED
    BY <2>1, <2>2, <1>1, <1>3, <1>4, <1>5, <1>a
    DEF Placed, Hidden, Found, Writes, Sees, Checked, Logged, Active,
        Backup, Restore, logs,
        Dumped
<1>11. CASE Resolve(q)
  <2>1. /\ \/ Continue(q, "failed")
           \/ Continue(q, "metadata") /\ file[File(q)] # NoText
        /\ Same /\ Restore(q) /\ ~Backup(q) /\ job[q].pc = "new" /\ ~job[q].ok
        /\ temp[q] # "password"
    BY <1>11, <1>1, <1>3 DEF Resolve, Arrives, Placed, Hidden
  <2>2. CASE Continue(q, "failed")
    <3>1. After("failed") /\ ~job'[q].ok /\ temp'[q] # "password" /\ q \notin audit'
      BY <2>1, <2>2, <1>g, <1>a DEF logs
    <3> QED
      BY <3>1, <1>f
  <2>3. CASE Continue(q, "metadata") /\ file[File(q)] # NoText
    <3>1. After("metadata") /\ job'[q].ok = job[q].ok /\ file[NamedBy(q)] \in Text
      BY <2>1, <2>3, <1>g, <1>3
    <3> QED
      BY <2>1, <3>1, <1>1, <1>3, <1>4, <1>5, <1>a
      DEF Placed, Hidden, Found, Writes, Sees, Checked, Logged, Active,
          Backup, Restore, logs
  <2> QED
    BY <2>1, <2>2, <2>3
<1>12. CASE RestoreMetadata(q)
  <2>1. /\ job'[q] = [job[q] EXCEPT !.sum = file[File(q)],
                          !.pc = IF Matches(q, file[File(q)]) THEN "defaults" ELSE "failed"]
        /\ Same /\ Restore(q) /\ ~Backup(q) /\ job[q].pc = "metadata" /\ ~job[q].ok
        /\ temp[q] # "password"
    BY <1>2, <1>12, <1>1, <1>3 DEF RestoreMetadata, Placed, Hidden
  <2>2. /\ After(IF Matches(q, file[File(q)]) THEN "defaults" ELSE "failed")
        /\ job'[q].ok = job[q].ok /\ job'[q].sum = file[NamedBy(q)]
    BY <2>1, <1>2, <1>3 DEF JobRecord
  <2>3. CASE Matches(q, file[File(q)])
    <3>1. After("defaults") /\ (job[q].given # NoText => file[NamedBy(q)] = job[q].given)
      BY <2>2, <2>3, <1>3 DEF Matches
    <3> QED
      BY <2>1, <2>2, <3>1, <1>1, <1>3, <1>4, <1>5, <1>a
      DEF Placed, Hidden, Found, Writes, Sees, Checked, Logged, Active,
          Backup, Restore, logs
  <2>4. CASE ~Matches(q, file[File(q)])
    <3>1. After("failed") /\ ~job'[q].ok /\ temp'[q] # "password" /\ q \notin audit'
      BY <2>1, <2>2, <2>4, <1>a DEF logs
    <3> QED
      BY <3>1, <1>f
  <2> QED
    BY <2>3, <2>4
<1>13. CASE ReadBackup(q)
  <2>1. /\ After("import") /\ job'[q].text = Decoded(file[NamedBy(q)]) /\ job'[q].ok = job[q].ok
        /\ job'[q].sum = job[q].sum
        /\ Same /\ job[q].pc = "read" /\ Restore(q) /\ ~Backup(q)
    BY <1>13, <1>1, <1>3, <1>t DEF ReadBackup, Placed
  <2>2. file[NamedBy(q)] \in Text /\ job[q].stamp = NamedBy(q)[2]
    BY <2>1, <1>1 DEF Found, NamedBy
  <2>3. job[q].stamp # ByHand => Decoded(file[NamedBy(q)]) = file[NamedBy(q)]
    <3>1. NoText \notin Text
      BY BackupAssumption DEF BackupAssumption, NoText, Text, Dumps, Empty, Mixed
    <3> QED
      BY <2>2, <3>1, <1>1, <1>3 DEF Named, Readable
  <2> QED
    BY <2>1, <2>2, <2>3, <1>1, <1>3, <1>4, <1>5, <1>a
    DEF Placed, Hidden, Found, Writes, Sees, Checked, Logged, Active,
        Backup, Restore, logs
<1>14. CASE ImportOk(q)
  <2>1. /\ job'[q] = [job[q] EXCEPT !.pc = "cleanup", !.ok = TRUE]
        /\ UNCHANGED <<clock, file, temp, audit>>
        /\ job[q].pc = "import" /\ Restore(q) /\ ~Backup(q)
    BY <1>14, <1>1, <1>2, <1>3 DEF ImportOk, Placed
  <2>2. /\ After("cleanup") /\ job'[q].ok /\ job'[q].text = job[q].text
        /\ job'[q].sum = job[q].sum
    BY <2>1, <1>2 DEF JobRecord
  <2> QED
    BY <2>1, <2>2, <1>1, <1>3, <1>4, <1>5, <1>a
    DEF Placed, Hidden, Found, Writes, Sees, Checked, Logged, Active,
        Backup, Restore
<1>15. CASE ImportFails(q)
  <2>1. /\ After("cleanup") /\ job'[q].ok = job[q].ok /\ UNCHANGED <<clock, file, temp, audit>>
        /\ job[q].pc = "import" /\ Restore(q) /\ ~Backup(q) /\ ~job[q].ok
    BY <1>15, <1>1, <1>3, <1>g DEF ImportFails, Placed
  <2> QED
    BY <2>1, <1>1, <1>3, <1>4, <1>5, <1>a
    DEF Placed, Hidden, Found, Writes, Sees, Checked, Logged, Active,
        Backup, Restore
<1>16. CASE WriteDefaults(q)
  <2>1. /\ After(IF Backup(q) THEN "dump" ELSE "read") /\ UNCHANGED <<clock, db, file, logs>>
        /\ job'[q].ok = job[q].ok /\ job'[q].sum = job[q].sum /\ ~job[q].ok
        /\ job[q].pc = "defaults"
    BY <1>16, <1>1, <1>g DEF WriteDefaults, Placed
  <2>2. CASE Backup(q)
    BY <2>1, <2>2, <1>1, <1>3, <1>4, <1>5, <1>a
    DEF Placed, Hidden, Found, Writes, Sees, Checked, Logged, Active,
        Backup, Restore, logs
  <2>3. CASE ~Backup(q)
    BY <2>1, <2>3, <1>1, <1>3, <1>4, <1>5, <1>a
    DEF Placed, Hidden, Found, Writes, Sees, Checked, Logged, Active,
        Backup, Restore, logs
  <2> QED
    BY <2>2, <2>3
<1>17. CASE WriteDefaultsFails(q) \/ CleanupFails(q)
  <2>1. q \notin audit' /\ After("unremoved") /\ job'[q].ok = FALSE
    BY <1>17, <1>3, <1>a, <1>e DEF WriteDefaultsFails, CleanupFails, logs
  <2> QED
    BY <2>1, <1>f
<1>18. CASE Cleanup(q)
  <2>1. /\ temp'[q] = "none" /\ UNCHANGED <<clock, db, file, logs>> /\ q \notin audit'
        /\ job[q].pc = "cleanup"
    BY <1>18, <1>3, <1>a DEF Cleanup, logs
  <2>2. CASE job[q].ok /\ job[q].managed
    <3>1. /\ After("audit") /\ job'[q].ok = job[q].ok /\ job'[q].text = job[q].text
          /\ job'[q].sum = job[q].sum /\ Restore(q) /\ ~Backup(q)
      BY <1>18, <2>2, <1>1, <1>3, <1>g DEF Cleanup, Placed
    <3> QED
      BY <2>1, <2>2, <3>1, <1>1, <1>3, <1>4, <1>5
      DEF Placed, Hidden, Found, Writes, Sees, Checked, Logged, Active,
          Backup, Restore, logs
  <2>3. CASE job[q].ok /\ ~job[q].managed
    <3>1. /\ After("done") /\ job'[q].ok = FALSE
          /\ Backup(q) => job'[q].sum = job[q].sum
      BY <1>18, <2>3, <1>e DEF Cleanup
    <3> QED
      BY <2>1, <2>3, <3>1, <1>1, <1>3, <1>4, <1>5
      DEF Placed, Hidden, Found, Writes, Sees, Checked, Logged, Active,
          Backup, Restore, logs,
          Dumped
  <2>4. CASE ~job[q].ok
    BY <1>18, <2>1, <2>4, <1>e, <1>f DEF Cleanup
  <2> QED
    BY <2>2, <2>3, <2>4
<1>19. CASE AuditRestore(q)
  <2>1. /\ After("done") /\ job'[q].ok = FALSE /\ UNCHANGED <<clock, db, file, temp, seen>>
        /\ q \in audit' /\ Restore(q) /\ ~Backup(q) /\ temp[q] # "password"
    BY <1>19, <1>1, <1>3, <1>e DEF AuditRestore, Placed, Hidden
  <2> QED
    BY <2>1, <1>1, <1>3, <1>4
    DEF Placed, Hidden, Found, Writes, Sees, Checked, Logged, Active,
        Backup, Restore
<1>20. CASE AuditFails(q)
  <2>1. temp'[q] # "password" /\ q \notin audit' /\ After("failed") /\ job'[q].ok = FALSE
    BY <1>20, <1>1, <1>a, <1>e DEF AuditFails, Hidden, logs
  <2> QED
    BY <2>1, <1>f
<1> QED
  BY <1>6, <1>7, <1>8, <1>9, <1>10, <1>11, <1>12, <1>13, <1>14, <1>15, <1>16,
     <1>17, <1>18, <1>19, <1>20, <1>s, <1>r DEF RequestStep

\* A step of a request keeps the invariant.
LEMMA StepKeeps ==
  ASSUME BackupInv, NEW q \in Requests, RequestStep(q)
  PROVE  BackupInv'
<1>1. StepOf(q) /\ BackupsTypeOK /\ KeepsNames
  BY StepEffects, NamesStay DEF BackupInv
<1>2. \A r \in Requests : (Placed(r) /\ Hidden(r) /\ Found(r) /\ Writes(r) /\ Sees(r) /\ Checked(r)
                           /\ Logged(r))'
  BY <1>1, OwnKeeps, OthersKeep
<1>3. BackupsTypeOK'
  <2>1. PICK j \in JobRecord : /\ job' = [job EXCEPT ![q] = j]
                               /\ j.pc = "import" => j.text \in Text
    BY <1>1 DEF StepOf
  <2>2. job' \in [Requests -> JobRecord]
    BY <1>1, <2>1 DEF BackupsTypeOK, JobRecord
  <2>3. \A r \in Requests : job'[r].pc = "import" => job'[r].text \in Text
    BY <1>1, <2>1 DEF BackupsTypeOK
  <2> QED
    BY <1>1, <2>2, <2>3 DEF StepOf, BackupsTypeOK, JobRecord
<1>4. Named'
  <2> SUFFICES ASSUME NEW p \in Path, p[2] # ByHand, file'[p] # NoText
               PROVE  /\ \E b \in BackupReq : job'[b].pc # "new" /\ NamedBy(b)' = p
                      /\ file'[p] \in Readable
    BY DEF Named
  <2>1. CASE file'[p] = file[p]
    <3>1. PICK b \in BackupReq : job[b].pc # "new" /\ NamedBy(b) = p
      BY <2>1 DEF BackupInv, Named
    <3>2. file[p] \in Readable
      BY <2>1 DEF BackupInv, Named
    <3> QED
      BY <1>1, <2>1, <3>1, <3>2 DEF KeepsNames, NamedBy, Requests
  <2>2. CASE file'[p] # file[p]
    <3>1. q \in BackupReq /\ job[q].pc # "new" /\ NamedBy(q) = p /\ file'[p] \in Readable
      BY <1>1, <2>2 DEF StepOf, Backup
    <3> QED
      BY <1>1, <3>1 DEF KeepsNames, NamedBy
  <2> QED
    BY <2>1, <2>2
<1> QED
  BY <1>2, <1>3, <1>4 DEF BackupInv

\* The process dies: what was under way is lost, the rest stays.
LEMMA CrashKeeps ==
  ASSUME BackupInv, Crash
  PROVE  BackupInv'
<1>1. BackupsTypeOK /\ UNCHANGED <<clock, file, temp, audit>> /\ job \in [Requests -> JobRecord]
  BY DEF BackupInv, Crash, BackupsTypeOK, JobRecord
<1>2. \A r \in Requests : job'[r] = IF Active(r) THEN Ended(r, "lost") ELSE job[r]
  BY DEF Crash
<1>3. ASSUME NEW r \in Requests, Active(r)
      PROVE  /\ job'[r] \in JobRecord /\ job'[r].pc = "lost" /\ ~job'[r].ok
             /\ job'[r].base = job[r].base /\ job'[r].given = job[r].given
             /\ job'[r].managed = job[r].managed /\ job'[r].stamp = job[r].stamp
  <2>1. job[r] \in JobRecord /\ job'[r] = Ended(r, "lost")
    BY <1>1, <1>2, <1>3
  <2>2. "lost" \in Pcs
    BY DEF Pcs
  <2> QED
    BY <2>1, <2>2 DEF Ended, JobRecord
<1>4. job' \in [Requests -> JobRecord]
  <2>1. \A r \in Requests : job'[r] \in JobRecord
    BY <1>1, <1>2, <1>3
  <2> QED
    BY <2>1 DEF Crash
<1>5. KeepsNames
  BY <1>2, <1>3 DEF KeepsNames, Active
<1>6. /\ db' \in [Schema -> State] /\ seen' \in [Requests -> SUBSET State]
      /\ \A r \in Requests : seen[r] \subseteq seen'[r]
  <2>1. CASE UNCHANGED <<db, seen>>
    BY <1>1, <2>1 DEF BackupsTypeOK
  <2>2. CASE \E r \in Requests : job[r].pc = "import" /\ Becomes(Target(r), Broken)
    <3>1. PICK r \in Requests : Becomes(Target(r), Broken)
      BY <2>2
    <3>2. Target(r) \in Schema /\ Broken \in State
      BY <1>1 DEF BackupsTypeOK, Target, State
    <3> QED
      BY <1>1, <3>1, <3>2, BecomesFacts
  <2> QED
    BY <2>1, <2>2 DEF Crash
<1>7. BackupsTypeOK'
  <2>1. \A r \in Requests : job'[r].pc = "import" => job'[r].text \in Text
    BY <1>1, <1>2, <1>3 DEF BackupsTypeOK
  <2> QED
    BY <1>1, <1>4, <1>6, <2>1 DEF BackupsTypeOK, JobRecord
<1>8. ASSUME NEW r \in Requests
      PROVE  (Placed(r) /\ Hidden(r) /\ Found(r) /\ Writes(r) /\ Sees(r) /\ Checked(r) /\ Logged(r))'
  <2>1. /\ Placed(r) /\ Hidden(r) /\ Found(r) /\ Writes(r) /\ Sees(r) /\ Checked(r) /\ Logged(r)
    BY DEF BackupInv
  <2>2. CASE Active(r)
    <3>1. r \notin audit'
      BY <1>1, <2>1, <2>2 DEF Logged, Active
    <3> QED
      BY <1>3, <2>1, <2>2, <3>1
      DEF Placed, Hidden, Found, Writes, Sees, Checked, Logged, Active,
          Backup, Restore
  <2>3. CASE ~Active(r)
    <3>1. job'[r] = job[r] /\ NamedBy(r)' = NamedBy(r) /\ Active(r)' = Active(r)
      BY <1>2, <2>3 DEF NamedBy, Active
    <3>2. job[r].pc # "new" => (~Clash(NamedBy(r))' => ~Clash(NamedBy(r)))
      BY <1>5, ClashStays
    <3>3. ~job[r].ok
      BY <2>1, <2>3 DEF Placed, Active
    <3> QED
      BY <1>1, <1>6, <2>1, <2>3, <3>1, <3>2, <3>3
      DEF Placed, Hidden, Found, Writes, Sees, Checked, Logged, Active,
          Backup, Restore, Dumped
  <2> QED
    BY <2>2, <2>3
<1>9. Named'
  BY <1>1, <1>5 DEF BackupInv, Named, KeepsNames, NamedBy, Requests
<1> QED
  BY <1>7, <1>8, <1>9 DEF BackupInv

\* A database changes by other hands.
LEMMA ChangeKeeps ==
  ASSUME BackupInv, DatabaseChanges
  PROVE  BackupInv'
<1>1. BackupsTypeOK /\ UNCHANGED <<clock, file, temp, job, audit>>
  BY DEF BackupInv, DatabaseChanges
<1>2. PICK d \in Schema, v \in Version : Becomes(d, v)
  BY DEF DatabaseChanges
<1>3. /\ db' \in [Schema -> State] /\ seen' \in [Requests -> SUBSET State]
      /\ \A r \in Requests : seen[r] \subseteq seen'[r]
      /\ \A r \in Requests : Backup(r) /\ Active(r) /\ db[Target(r)] \in seen[r] =>
             db'[Target(r)] \in seen'[r]
  BY <1>1, <1>2, BecomesFacts DEF State
<1>4. BackupsTypeOK'
  BY <1>1, <1>3 DEF BackupsTypeOK
<1>5. ASSUME NEW r \in Requests
      PROVE  (Placed(r) /\ Hidden(r) /\ Found(r) /\ Writes(r) /\ Sees(r) /\ Checked(r) /\ Logged(r))'
  <2>1. /\ Placed(r) /\ Hidden(r) /\ Found(r) /\ Writes(r) /\ Sees(r) /\ Checked(r) /\ Logged(r)
    BY DEF BackupInv
  <2>2. (Placed(r) /\ Hidden(r) /\ Found(r) /\ Checked(r) /\ Logged(r))'
    BY <1>1, <2>1 DEF Placed, Hidden, Found, Checked, Logged, Clash,
                      NamedBy, Active, Backup, Restore
  <2>3. Sees(r)'
    BY <1>1, <1>3, <2>1 DEF Sees, Active, Target, Backup
  <2>4. /\ Clash(NamedBy(r))' = Clash(NamedBy(r)) /\ NamedBy(r)' = NamedBy(r)
    BY <1>1 DEF Clash, NamedBy, Backup
  <2>5. Writes(r)'
    BY <1>1, <1>3, <2>1, <2>4 DEF Writes, Dumped, Backup
  <2> QED
    BY <2>2, <2>3, <2>5
<1>6. Named'
  BY <1>1 DEF BackupInv, Named, NamedBy
<1> QED
  BY <1>4, <1>5, <1>6 DEF BackupInv

\* A millisecond passes, or nothing happens.
LEMMA TickKeeps ==
  ASSUME BackupInv, Tick \/ UNCHANGED backupVars
  PROVE  BackupInv'
<1>1. UNCHANGED <<db, file, temp, job, audit, seen>> /\ clock' \in 0..MaxTime
  BY BackupAssumption DEF BackupInv, BackupsTypeOK, Tick, backupVars, logs,
                             BackupAssumption
<1>2. BackupsTypeOK' /\ Named'
  BY <1>1 DEF BackupInv, BackupsTypeOK, Named, NamedBy
<1>3. ASSUME NEW r \in Requests
      PROVE  (Placed(r) /\ Hidden(r) /\ Found(r) /\ Writes(r) /\ Sees(r) /\ Checked(r) /\ Logged(r))'
  <2>1. /\ Placed(r) /\ Hidden(r) /\ Found(r) /\ Writes(r) /\ Sees(r) /\ Checked(r) /\ Logged(r)
    BY DEF BackupInv
  <2>2. (Placed(r) /\ Hidden(r) /\ Found(r) /\ Checked(r) /\ Logged(r) /\ Sees(r))'
    BY <1>1, <2>1
    DEF Placed, Hidden, Found, Checked, Logged, Clash, NamedBy,
        Active, Backup, Restore, Sees, Target
  <2>3. Writes(r)'
    BY <1>1, <2>1 DEF Writes, Dumped, Backup, Clash, NamedBy
  <2> QED
    BY <2>2, <2>3
<1> QED
  BY <1>2, <1>3 DEF BackupInv

\* The invariant holds throughout.
LEMMA Invariant == BackupsSpec => []BackupInv
<1>1. BackupInv /\ [BackupsNext]_backupVars => BackupInv'
  BY StepKeeps, CrashKeeps, ChangeKeeps, TickKeeps DEF BackupsNext
<1> QED
  BY <1>1, BackupInit, PTL DEF BackupsSpec

\* What has been collected of a dump brings its state back exactly if the dump
\* was neither cut nor had bytes that are not UTF-8.
LEMMA CollectedRestores ==
  ASSUME NEW v \in State
  PROVE  Result(Decoded(Collected(v)), Broken) = v <=> v \notin Long \cup Binary
<1>1. v \notin Long \cup Binary \/ v # Broken
  BY BackupAssumption DEF BackupAssumption
<1>2. v # NoState
  BY BackupAssumption DEF BackupAssumption, State
<1>3. PICK form \in {"utf8", "bytes"} :
        /\ Dump(v) = [of |-> v, cut |-> FALSE, form |-> form]
        /\ form = "bytes" <=> v \in Binary
  BY DEF Dump
<1>4. [Dump(v) EXCEPT !.cut = v \in Long] = [of |-> v, cut |-> v \in Long, form |-> form]
  BY <1>3
<1>5. PICK last \in {"utf8", "replaced"} :
        /\ Collected(v) = [of |-> v, cut |-> v \in Long, form |-> last]
        /\ last = "replaced" <=> v \in Binary
  BY <1>3, <1>4 DEF Collected, Decoded
<1>6. Decoded(Collected(v)) = Collected(v)
  BY <1>5 DEF Decoded
<1>7. /\ Collected(v).of = v /\ Collected(v).cut = (v \in Long)
      /\ Collected(v).form # "utf8" <=> v \in Binary
  BY <1>5
<1>8. Collected(v) # Empty /\ Collected(v) # Mixed
  BY <1>2, <1>7 DEF Empty, Mixed
<1> QED
  BY <1>1, <1>6, <1>7, <1>8 DEF Result

\* A backup that was answered, and shares its name with no other, keeps its
\* file, which is what the command runner collects of a dump of a state its
\* database had while the request ran, whatever fails or dies since; restoring
\* it brings that state back exactly if the dump was neither cut nor had bytes
\* that are not UTF-8 (backupDatabase).
THEOREM BackupCorrect == BackupsSpec => []AnsweredBackupStays
<1>1. BackupInv => AnsweredBackupStays
  <2> SUFFICES ASSUME BackupInv, NEW r \in Requests,
                      Backup(r), job[r].pc = "done", ~Clash(NamedBy(r))
               PROVE  /\ file[NamedBy(r)] = job[r].sum
                      /\ \E v \in seen[r] :
                           /\ job[r].sum = Collected(v)
                           /\ Result(Decoded(job[r].sum), Broken) = v
                                <=> v \notin Long \cup Binary
    BY DEF AnsweredBackupStays
  <2>1. file[NamedBy(r)] = job[r].sum /\ Dumped(r, job[r].sum)
    BY DEF BackupInv, Writes
  <2>2. PICK v \in seen[r] : job[r].sum = Collected(v)
    BY <2>1 DEF Dumped
  <2>3. v \in State
    BY DEF BackupInv, BackupsTypeOK
  <2> QED
    BY <2>1, <2>2, <2>3, CollectedRestores
<1> QED
  BY <1>1, Invariant, PTL

\* Only the text a checksum was given for reaches mysql, though it is read
\* once to be hashed and once more to be imported: exactly it if a backup wrote
\* it, its decoding if not.  And a rollback is answered exactly when its event
\* is in the log (restoreDatabase of both classes).
THEOREM RestoreCorrect == BackupsSpec => []OnlyCheckedTextImported
<1>1. ASSUME BackupInv PROVE OnlyCheckedTextImported
  <2> SUFFICES ASSUME NEW r \in RestoreReq
               PROVE  /\ (job[r].pc \in {"import", "audit"} /\ job[r].given # NoText
                            /\ ~Clash(NamedBy(r)))
                          => /\ job[r].sum = job[r].given
                             /\ job[r].text = Decoded(job[r].given)
                             /\ job[r].stamp # ByHand => job[r].text = job[r].given
                      /\ job[r].managed => (job[r].pc = "done" <=> r \in audit)
    BY DEF OnlyCheckedTextImported
  <2>1. Restore(r) /\ Checked(r) /\ Logged(r)
    BY <1>1 DEF BackupInv, Requests, Restore
  <2> QED
    BY <2>1 DEF Checked, Logged
<1> QED
  BY <1>1, Invariant, PTL

\* The password of the database is on disk only while its request is under
\* way, or the process died under it, or it failed because the directory of
\* the password could not be written or removed (the finally blocks).
THEOREM PasswordCorrect == BackupsSpec => []PasswordsRemoved
<1>1. BackupInv => PasswordsRemoved
  BY DEF BackupInv, PasswordsRemoved, Hidden
<1> QED
  BY <1>1, Invariant, PTL
=============================================================================
