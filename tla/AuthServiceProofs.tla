-------------------------- MODULE AuthServiceProofs --------------------------
(***************************************************************************)
(* Proofs about AuthService, for every set of users and logins and every   *)
(* threshold: the state is typed, the lock is exactly the threshold rule   *)
(* of LockMatchesThreshold, disabled users hold no session, a lock nobody  *)
(* is verifying against is final (LockInv), and a guard that lets a        *)
(* request in had a session in force when it began (GuardInv).             *)
(*                                                                         *)
(* And about the second factor: secrets of every length survive base32,    *)
(* tokens expire and recovery codes verify, however long their groups.     *)
(* Induction follows from the pigeonhole principle, and what a recursion   *)
(* over a text does from there being one solution of its equations.        *)
(***************************************************************************)
EXTENDS SecondFactor, FiniteSetTheorems, SequenceTheorems, TLAPS

\* Facts about the constants the state predicates need.
LEMMA ConstantFacts ==
  /\ None \notin User /\ None \notin Login /\ None \notin Nat
  /\ MaxFailedLogins \in Nat /\ LockoutTime \in Nat /\ SessionTtl \in Nat
  /\ SeedStatus \in [User -> {"active", "disabled", "pending"}]
BY AuthAssumption DEF AuthAssumption

\* When a lock ends is a time, or none.
LEMMA LockForType ==
  ASSUME TypeOK, NEW l \in Login, login[l].pc = "verify"
  PROVE  LockFor(l) \in Nat \cup {None}
BY ConstantFacts
DEF LockFor, TypeOK, StoreType, LoginsType, Logins, Time, Snapshots

\* The steps that change accounts, sessions and requests, by what they do.
\* A login step leaves the requests alone and a request step the accounts.
LEMMA LoginFindType ==
  ASSUME TypeOK, NEW l \in Login, NEW u \in User, NEW correct \in BOOLEAN,
         LoginFind(l, u, correct)
  PROVE  TypeOK'
<1>1. Snapshot(u) \in Snapshots
  BY DEF Snapshot, Snapshots, TypeOK, StoreType
<1>2. LoginsType'
  BY <1>1 DEF LoginFind, TypeOK, StoreType, LoginsType, Logins, LoginPc, Time
<1> QED
  BY <1>2 DEF LoginFind, TypeOK, StoreType, ReqsType, Issued, users

\* A login of an unknown user, or of an error, keeps the state typed.
LEMMA LoginEndType ==
  ASSUME TypeOK, NEW l \in Login, LoginUnknown(l) \/ LoginVerifyError(l)
  PROVE  TypeOK'
<1>1. LoginsType'
  BY DEF LoginUnknown, LoginVerifyError, TypeOK, LoginsType, Logins, LoginPc
<1> QED
  BY <1>1
  DEF LoginUnknown, LoginVerifyError, TypeOK, StoreType, ReqsType, Issued, users

\* A verified password keeps the state typed, whatever comes next.
LEMMA LoginVerifiedType ==
  ASSUME TypeOK, NEW l \in Login, LoginWrongPassword(l) \/ LoginReset(l)
  PROVE  TypeOK'
<1>1. login[l].user \in User /\ LockFor(l) \in Nat \cup {None}
  BY LockForType DEF LoginWrongPassword, LoginReset, TypeOK, LoginsType
<1>2. /\ status' \in [User -> Statuses]
      /\ failedLoginCount' \in [User -> Nat]
      /\ lockedUntil' \in [User -> Nat \cup {None}]
      /\ failedSince' \in [User -> SUBSET Login]
  BY <1>1
  DEF LoginWrongPassword, LoginReset, IncrementFailedLogin, ResetLoginState,
      TypeOK, StoreType, Statuses, Time
<1>3. LoginsType'
  <2>1. CASE LoginWrongPassword(l)
    <3>1. login' = [login EXCEPT ![l] =
                      [login[l] EXCEPT !.pc = "failed", !.at = clock]]
      BY <2>1 DEF LoginWrongPassword, TypeOK, LoginsType, Logins
    <3>2. [login[l] EXCEPT !.pc = "failed", !.at = clock] \in Logins
      BY DEF TypeOK, StoreType, LoginsType, Logins, LoginPc, Time
    <3> QED
      BY <2>1, <3>1, <3>2 DEF LoginWrongPassword, TypeOK, LoginsType, Logins
  <2>2. CASE LoginReset(l)
    <3>1. login' = [login EXCEPT ![l] =
                      [login[l] EXCEPT !.pc = "reset", !.at = clock]]
      BY <2>2 DEF LoginReset, TypeOK, LoginsType, Logins
    <3>2. [login[l] EXCEPT !.pc = "reset", !.at = clock] \in Logins
      BY DEF TypeOK, StoreType, LoginsType, Logins, LoginPc, Time
    <3> QED
      BY <2>2, <3>1, <3>2 DEF LoginReset, TypeOK, LoginsType, Logins
  <2> QED
    BY <2>1, <2>2
<1>4. session' = session /\ req' = req /\ clock' = clock
  BY DEF LoginWrongPassword, LoginReset
<1>5. Issued' = Issued
  BY <1>4 DEF Issued
<1>6. StoreType'
  BY <1>2, <1>4, <1>5 DEF TypeOK, StoreType, Time
<1>7. ReqsType'
  BY <1>4, <1>5 DEF TypeOK, ReqsType
<1> QED
  BY <1>3, <1>6, <1>7 DEF TypeOK

\* A new session keeps the state typed, and is the only one issued.
LEMMA LoginCreateSessionType ==
  ASSUME TypeOK, NEW l \in Login, LoginCreateSession(l)
  PROVE  TypeOK' /\ Issued' = Issued \cup {l}
<1>1. login[l].user \in User /\ login[l].at + SessionTtl \in Nat
  BY ConstantFacts DEF LoginCreateSession, TypeOK, LoginsType, Logins, Time
<1>2. session' \in [Login -> Sessions] /\ Issued' = Issued \cup {l}
  BY <1>1
  DEF LoginCreateSession, TypeOK, StoreType, Sessions, Issued, Time
<1>3. \A s \in Issued' : session'[s].userId \in User
  BY <1>1, <1>2 DEF LoginCreateSession, TypeOK, StoreType, Issued
<1>4. LoginsType'
  BY DEF LoginCreateSession, TypeOK, LoginsType, Logins, LoginPc
<1> QED
  BY <1>2, <1>3, <1>4
  DEF LoginCreateSession, TypeOK, StoreType, ReqsType, users

\* A guard that takes a copy of a session keeps the state typed.
LEMMA FindSessionType ==
  ASSUME TypeOK, NEW r \in Req, NEW s \in Issued,
         NEW next \in {"found", "leaving"}, FindSession(r, s, next)
  PROVE  TypeOK'
<1>1. /\ session[s].userId \in User /\ session[s].expiresAt \in Nat
      /\ LoggedOut(s) \subseteq Req
  BY DEF TypeOK, StoreType, Sessions, Issued, LoggedOut, Time
<1> DEFINE found == [pc        |-> next,
                     token     |-> s,
                     owner     |-> session[s].userId,
                     expiresAt |-> session[s].expiresAt,
                     revoked   |-> session[s].state = "revoked",
                     began     |-> clock,
                     after     |-> LoggedOut(s)]
<1>2. UNCHANGED <<clock, users, session, login, failedSince>>
  BY DEF FindSession
<1>3. Issued' = Issued
  BY <1>2 DEF Issued
<1>4. found \in Reqs /\ found.token = s /\ found.owner \in User
  <2>1. (session[s].state = "revoked") \in BOOLEAN
    OBVIOUS
  <2>2. found \in Reqs
    BY <1>1, <2>1, Zenon DEF Reqs, ReqPc, TypeOK, StoreType, Time, Issued
  <2> QED
    BY <1>1, <2>2
<1>5. req' = [req EXCEPT ![r] = found]
  BY DEF FindSession
<1> HIDE DEF found
<1>6. ReqsType'
  BY <1>3, <1>4, <1>5 DEF ReqsType, TypeOK
<1>7. StoreType' /\ LoginsType'
  BY <1>2, <1>3 DEF TypeOK, StoreType, LoginsType, users
<1> QED
  BY <1>6, <1>7 DEF TypeOK

\* The steps of a guard keep the state typed.
LEMMA GuardStepType ==
  ASSUME TypeOK, NEW r \in Req,
         GuardUnknownToken(r) \/ GuardCheckSession(r) \/ GuardPermission(r)
  PROVE  TypeOK'
<1>1. ReqsType'
  BY DEF GuardUnknownToken, GuardCheckSession, GuardPermission, TypeOK,
         ReqsType, Reqs, ReqPc, Issued
<1> QED
  BY <1>1
  DEF GuardUnknownToken, GuardCheckSession, GuardPermission, TypeOK, StoreType,
      LoginsType, Issued, users

\* A revoked session keeps the state typed.
LEMMA LogoutRevokeType ==
  ASSUME TypeOK, NEW r \in Req, LogoutRevoke(r)
  PROVE  TypeOK' /\ Issued' = Issued
<1>1. req[r].token \in Issued
  BY DEF LogoutRevoke, TypeOK, ReqsType
<1>2. session' \in [Login -> Sessions] /\ Issued' = Issued
  BY <1>1 DEF LogoutRevoke, RevokeSession, TypeOK, StoreType, Sessions, Issued
<1>3. \A s \in Issued' : session'[s].userId \in User
  BY <1>1, <1>2 DEF LogoutRevoke, RevokeSession, TypeOK, StoreType, Sessions,
                    Issued
<1>4. ReqsType'
  BY <1>2 DEF LogoutRevoke, TypeOK, ReqsType, Reqs, ReqPc
<1> QED
  BY <1>2, <1>3, <1>4 DEF LogoutRevoke, TypeOK, StoreType, LoginsType, users

\* The state keeps its shape: no interleaving of logins, guards and logouts
\* leaves a request without the user or session its next step works on.
THEOREM TypeCorrect == Spec => []TypeOK
<1>1. Init => TypeOK
  <2> SUFFICES ASSUME Init PROVE TypeOK
    OBVIOUS
  <2>1. status \in [User -> Statuses]
    BY ConstantFacts DEF Init, Statuses
  <2>2. NoSession \in Sessions /\ Issued = {}
    BY DEF Init, NoSession, Sessions, Issued, Time
  <2>3. NewLogin \in Logins /\ NewLogin.pc = "new"
    BY DEF Logins, NewLogin, LoginPc, Time
  <2>4. NewReq \in Reqs /\ NewReq.pc = "new"
    BY DEF Reqs, NewReq, ReqPc, Time
  <2> QED
    BY <2>1, <2>2, <2>3, <2>4
    DEF Init, TypeOK, StoreType, LoginsType, ReqsType, Time
<1>2. TypeOK /\ [Next]_vars => TypeOK'
  <2> SUFFICES ASSUME TypeOK, [Next]_vars PROVE TypeOK'
    OBVIOUS
  <2>1. CASE Tick
    BY <2>1 DEF Tick, TypeOK, StoreType, LoginsType, ReqsType, Issued, Time,
                users
  <2>2. ASSUME NEW l \in Login, LoginStep(l) PROVE TypeOK'
    BY <2>2, LoginFindType, LoginEndType, LoginVerifiedType,
       LoginCreateSessionType
    DEF LoginStep
  <2>3. ASSUME NEW r \in Req, ReqStep(r) PROVE TypeOK'
    BY <2>3, FindSessionType, GuardStepType, LogoutRevokeType
    DEF ReqStep, GuardFindSession, LogoutFind
  <2>4. CASE UNCHANGED vars
    BY <2>4 DEF vars, TypeOK, StoreType, LoginsType, ReqsType, Issued
  <2> QED
    BY <2>1, <2>2, <2>3, <2>4 DEF Next
<1> QED
  BY <1>1, <1>2, PTL DEF Spec
-----------------------------------------------------------------------------
(* The lock.  LockMatchesThreshold is not inductive by itself: a failing    *)
(* login must still be the one that was checked against an open account.    *)

\* The failures recorded for a user are its own and are over.
FailedArePast ==
  \A u \in User : \A l \in failedSince[u] :
    login[l].pc = "failed" /\ login[l].user = u

\* Only an enabled user's password is ever checked.
CheckedAreEnabled ==
  \A l \in Login : login[l].pc \in {"verify", "failed", "reset", "done"} =>
    Enabled(login[l].user)

\* An account that was seeded disabled is as it was seeded.
DisabledUntouched ==
  \A u \in User : ~Enabled(u) => status[u] = SeedStatus[u]

LockInv ==
  /\ FailedArePast
  /\ CheckedAreEnabled
  /\ DisabledUntouched
  /\ LockMatchesThreshold
  /\ FailuresAllCounted
  /\ OnlyEnabledUsersHoldSessions

\* Nobody has failed, nobody is locked, no login is in flight.
LEMMA LockInvInit == Init => LockInv
<1> SUFFICES ASSUME Init PROVE LockInv
  OBVIOUS
<1>1. \A u \in User : status[u] # "locked" /\ status[u] = SeedStatus[u]
  BY ConstantFacts DEF Init
<1>2. FailuresAllCounted
  BY FS_EmptySet DEF Init, FailuresAllCounted
<1> QED
  BY <1>1, <1>2
  DEF Init, LockInv, FailedArePast, CheckedAreEnabled, DisabledUntouched,
      LockMatchesThreshold, OnlyEnabledUsersHoldSessions, NewLogin, Issued,
      NoSession

\* A lookup and an aborted verification touch no account; a login that gets
\* past the check has an enabled user.
LEMMA LockInvCheck ==
  ASSUME TypeOK, LockInv, NEW l \in Login,
         \/ \E u \in User, correct \in BOOLEAN : LoginFind(l, u, correct)
         \/ LoginUnknown(l)
         \/ LoginVerifyError(l)
  PROVE  LockInv'
<1>1. UNCHANGED <<users, session, failedSince>>
  BY DEF LoginFind, LoginUnknown, LoginVerifyError
<1>2. \A m \in Login : m # l => login'[m] = login[m]
  BY DEF LoginFind, LoginUnknown, LoginVerifyError, TypeOK, LoginsType
<1>3. \A u \in User : l \notin failedSince[u]
  BY DEF LockInv, FailedArePast, LoginFind, LoginUnknown, LoginVerifyError
<1>4. CheckedAreEnabled'
  <2>1. login'[l].pc \in {"refused", "error"} \/ Enabled(login'[l].user)
    BY DEF LoginFind, LoginUnknown, LoginVerifyError, AllowedToLogin, TypeOK,
           LoginsType, Logins, LockInv, DisabledUntouched, Enabled
  <2> QED
    BY <1>2, <2>1 DEF LockInv, CheckedAreEnabled, Enabled
<1>5. \A u \in User : \A m \in failedSince[u] : m \in Login /\ login'[m] = login[m]
  BY <1>2, <1>3 DEF TypeOK, StoreType
<1>6. FailedArePast' /\ LockMatchesThreshold'
  BY <1>1, <1>5 DEF LockInv, FailedArePast, LockMatchesThreshold, SawThreshold,
                    users
<1>7. DisabledUntouched' /\ FailuresAllCounted' /\ OnlyEnabledUsersHoldSessions'
  BY <1>1
  DEF LockInv, DisabledUntouched, FailuresAllCounted,
      OnlyEnabledUsersHoldSessions, Enabled, Issued, users
<1> QED
  BY <1>4, <1>6, <1>7 DEF LockInv

\* A failure is new to its user, so the counter and the history grow
\* together, and the lock it asks for is the threshold rule of the history.
LEMMA LockInvWrongPassword ==
  ASSUME TypeOK, LockInv, NEW l \in Login, LoginWrongPassword(l)
  PROVE  LockInv'
<1> DEFINE u == login[l].user
<1>1. u \in User /\ Enabled(u) /\ \A v \in User : l \notin failedSince[v]
  BY DEF LoginWrongPassword, LockInv, FailedArePast, CheckedAreEnabled, TypeOK,
         LoginsType
<1>2. /\ failedSince' = [failedSince EXCEPT ![u] = @ \cup {l}]
      /\ failedLoginCount' = [failedLoginCount EXCEPT ![u] = @ + 1]
      /\ status' = [status EXCEPT ![u] = IF LockFor(l) # None THEN "locked" ELSE @]
      /\ session' = session
  BY DEF LoginWrongPassword, IncrementFailedLogin
<1>3. \A m \in Login : m # l => login'[m] = login[m]
  BY DEF LoginWrongPassword, TypeOK, LoginsType
<1>4. login'[l].pc = "failed" /\ login'[l].user = u /\ login'[l].saw = login[l].saw
  BY DEF LoginWrongPassword, TypeOK, LoginsType, Logins
<1>5. LockFor(l) # None <=> SawThreshold(l)
  BY ConstantFacts DEF LockFor, SawThreshold, TypeOK, StoreType, Time
<1>6. \A m \in Login : SawThreshold(m)' <=> SawThreshold(m)
  BY <1>3, <1>4 DEF SawThreshold
<1> HIDE DEF u
<1>7. \A v \in User : failedSince'[v] = IF v = u THEN failedSince[u] \cup {l}
                                                ELSE failedSince[v]
  BY <1>1, <1>2 DEF TypeOK, StoreType
<1>8. FailedArePast' /\ CheckedAreEnabled'
  BY <1>1, <1>3, <1>4, <1>7
  DEF LockInv, FailedArePast, CheckedAreEnabled, Enabled, TypeOK, StoreType
<1>9. LockMatchesThreshold'
  BY <1>1, <1>2, <1>5, <1>6, <1>7
  DEF LockInv, LockMatchesThreshold, TypeOK, StoreType
<1>10. FailuresAllCounted'
  <2>1. IsFiniteSet(failedSince[u])
    BY <1>1, FS_Subset, AuthAssumption DEF AuthAssumption, TypeOK, StoreType
  <2>2. Cardinality(failedSince[u] \cup {l}) = Cardinality(failedSince[u]) + 1
    BY <1>1, <2>1, FS_AddElement
  <2> QED
    BY <1>1, <1>2, <1>7, <2>2
    DEF LockInv, FailuresAllCounted, TypeOK, StoreType
<1>11. DisabledUntouched' /\ OnlyEnabledUsersHoldSessions'
  BY <1>1, <1>2
  DEF LockInv, DisabledUntouched, OnlyEnabledUsersHoldSessions, Enabled, Issued,
      TypeOK, StoreType
<1> QED
  BY <1>8, <1>9, <1>10, <1>11 DEF LockInv

\* A success empties the history, the counter and the lock together.
LEMMA LockInvReset ==
  ASSUME TypeOK, LockInv, NEW l \in Login, LoginReset(l)
  PROVE  LockInv'
<1> DEFINE u == login[l].user
<1>1. u \in User /\ Enabled(u) /\ \A v \in User : l \notin failedSince[v]
  BY DEF LoginReset, LockInv, FailedArePast, CheckedAreEnabled, TypeOK,
         LoginsType
<1>2. /\ failedSince' = [failedSince EXCEPT ![u] = {}]
      /\ failedLoginCount' = [failedLoginCount EXCEPT ![u] = 0]
      /\ status' = [status EXCEPT ![u] = IF @ = "locked" THEN "active" ELSE @]
      /\ session' = session
  BY DEF LoginReset, ResetLoginState
<1>3. \A m \in Login : m # l => login'[m] = login[m]
  BY DEF LoginReset, TypeOK, LoginsType
<1>4. login'[l].user = u
  BY DEF LoginReset, TypeOK, LoginsType, Logins
<1> HIDE DEF u
<1>5. \A v \in User : failedSince'[v] = IF v = u THEN {} ELSE failedSince[v]
  BY <1>1, <1>2 DEF TypeOK, StoreType
<1>6. \A v \in User : \A m \in failedSince'[v] :
        m \in failedSince[v] /\ m \in Login /\ login'[m] = login[m]
  BY <1>1, <1>3, <1>5 DEF TypeOK, StoreType
<1>7. FailedArePast' /\ CheckedAreEnabled'
  BY <1>1, <1>3, <1>4, <1>6
  DEF LockInv, FailedArePast, CheckedAreEnabled, Enabled
<1>8. LockMatchesThreshold'
  BY <1>1, <1>2, <1>5, <1>6
  DEF LockInv, LockMatchesThreshold, SawThreshold, TypeOK, StoreType
<1>9. FailuresAllCounted'
  BY <1>1, <1>2, <1>5, FS_EmptySet
  DEF LockInv, FailuresAllCounted, TypeOK, StoreType
<1>10. DisabledUntouched' /\ OnlyEnabledUsersHoldSessions'
  BY <1>1, <1>2
  DEF LockInv, DisabledUntouched, OnlyEnabledUsersHoldSessions, Enabled, Issued,
      TypeOK, StoreType
<1> QED
  BY <1>7, <1>8, <1>9, <1>10 DEF LockInv

\* A login that ends in a session changes no lock.
LEMMA LockInvCreateSession ==
  ASSUME TypeOK, LockInv, NEW l \in Login, LoginCreateSession(l)
  PROVE  LockInv'
<1>1. UNCHANGED <<users, failedSince>>
  BY DEF LoginCreateSession
<1>2. \A m \in Login : m # l => login'[m] = login[m]
  BY DEF LoginCreateSession, TypeOK, LoginsType
<1>3. Enabled(login[l].user) /\ \A v \in User : l \notin failedSince[v]
  BY DEF LoginCreateSession, LockInv, FailedArePast, CheckedAreEnabled
<1>4. login'[l].user = login[l].user
  BY DEF LoginCreateSession, TypeOK, LoginsType, Logins
<1>5. \A v \in User : \A m \in failedSince[v] : m \in Login /\ login'[m] = login[m]
  BY <1>2, <1>3 DEF TypeOK, StoreType
<1>6. /\ FailedArePast' /\ LockMatchesThreshold'
      /\ DisabledUntouched' /\ FailuresAllCounted'
  BY <1>1, <1>5
  DEF LockInv, FailedArePast, LockMatchesThreshold, DisabledUntouched,
      FailuresAllCounted, SawThreshold, Enabled, users
<1>7. CheckedAreEnabled'
  BY <1>2, <1>3, <1>4 DEF LockInv, CheckedAreEnabled, Enabled
<1>8. OnlyEnabledUsersHoldSessions'
  BY <1>3 DEF LoginCreateSession, LockInv, OnlyEnabledUsersHoldSessions,
              Enabled,
              Issued, TypeOK, StoreType
<1> QED
  BY <1>6, <1>7, <1>8 DEF LockInv

\* Requests and time change neither accounts nor logins, and a logout
\* changes no session's owner.
LEMMA LockInvOther ==
  ASSUME TypeOK, LockInv,
         Tick \/ (\E r \in Req : ReqStep(r)) \/ UNCHANGED vars
  PROVE  LockInv'
<1>1. UNCHANGED <<users, login, failedSince>>
  BY DEF Tick, ReqStep, GuardFindSession, LogoutFind, FindSession,
         GuardUnknownToken, GuardCheckSession, GuardPermission, LogoutRevoke,
         vars, users
<1>2. \A s \in Issued' : s \in Issued /\ session'[s].userId = session[s].userId
  <2>1. CASE session' = session
    BY <2>1 DEF Issued
  <2>2. ASSUME NEW r \in Req, LogoutRevoke(r)
        PROVE  \A s \in Issued' :
                 s \in Issued /\ session'[s].userId = session[s].userId
    BY <2>2, LogoutRevokeType
    DEF LogoutRevoke, RevokeSession, TypeOK, StoreType, Sessions, ReqsType,
        Issued
  <2> QED
    BY <2>1, <2>2
    DEF Tick, ReqStep, GuardFindSession, LogoutFind, FindSession,
        GuardUnknownToken, GuardCheckSession, GuardPermission, vars
<1> QED
  BY <1>1, <1>2
  DEF LockInv, FailedArePast, CheckedAreEnabled, DisabledUntouched,
      LockMatchesThreshold, FailuresAllCounted, OnlyEnabledUsersHoldSessions,
      SawThreshold, Enabled, users

\* The counter and the lock are right, and only enabled users hold sessions,
\* for any number of users and of concurrent logins.
THEOREM LockCorrect == Spec => []LockIsRight
<1>1. TypeOK /\ LockInv /\ [Next]_vars => LockInv'
  BY LockInvCheck, LockInvWrongPassword, LockInvReset, LockInvCreateSession,
     LockInvOther
  DEF Next, LoginStep
<1>2. LockInv => LockIsRight
  BY DEF LockInv, LockIsRight
<1> QED
  BY <1>1, <1>2, LockInvInit, TypeCorrect, PTL DEF Spec

\* While a lockout runs, the lookup of a login of that user refuses it.
THEOREM LockoutCorrect == Spec => LockoutHolds
<1>1. TypeOK /\ LockInv /\ [Next]_vars => LockInv'
  BY LockInvCheck, LockInvWrongPassword, LockInvReset, LockInvCreateSession,
     LockInvOther
  DEF Next, LoginStep
<1>2. ASSUME TypeOK, LockInv, [Next]_vars,
             NEW l \in Login, login[l].pc = "new", login'[l].pc = "verify"
      PROVE  ~LockoutRuns(login'[l].user)
  <2>1. PICK m \in Login, u \in User, correct \in BOOLEAN : LoginFind(m, u, correct)
    BY <1>2
    DEF Next, LoginStep, LoginUnknown, LoginVerifyError, LoginWrongPassword,
        LoginReset, LoginCreateSession, ReqStep, Tick, GuardFindSession, LogoutFind,
        FindSession, GuardUnknownToken, GuardCheckSession, GuardPermission,
        LogoutRevoke, vars, TypeOK, LoginsType, Logins
  <2>2. m = l /\ login'[l].user = u /\ AllowedToLogin(u)
    BY <1>2, <2>1 DEF LoginFind, TypeOK, LoginsType
  <2>3. \A f \in failedSince[u] : ~SawThreshold(f)
    BY <1>2, <2>2 DEF AllowedToLogin, LockInv, LockMatchesThreshold
  <2> QED
    BY <2>2, <2>3 DEF LockoutRuns
<1>3. TypeOK /\ LockInv /\ [Next]_vars =>
        [\A l \in Login : login[l].pc = "new" /\ login'[l].pc = "verify" =>
           ~LockoutRuns(login'[l].user)]_vars
  BY <1>2
<1> QED
  BY <1>1, <1>3, LockInvInit, TypeCorrect, PTL DEF Spec, LockoutHolds

-----------------------------------------------------------------------------
(* The guard.  What it admits rests on the copy of a session it has taken,  *)
(* so the copies in flight must agree with the sessions they were taken of. *)

\* A session is made by a login that is over, and lives SESSION_TTL_MINUTES
\* from the time of its password check.
SessionsDated ==
  \A s \in Issued : /\ login[s].pc = "done"
                    /\ session[s].expiresAt = login[s].at + SessionTtl

\* A copy shows the session's end, and a revocation that happened; the
\* logouts that had answered when it was taken are a revocation it shows.
CopyAgrees(r) ==
  /\ req[r].expiresAt = session[req[r].token].expiresAt
  /\ req[r].began <= clock
  /\ req[r].revoked => session[req[r].token].state = "revoked"
  /\ req[r].after # {} => req[r].revoked

CopiesAgree == \A r \in Req : req[r].pc \notin {"new", "refused"} => CopyAgrees(r)

\* A logout that has answered has revoked its session.
LogoutsRevoke ==
  \A r \in Req : req[r].pc = "left" => session[req[r].token].state = "revoked"

\* A request goes on to its handler with a copy that was usable.
PassedUsable ==
  \A r \in Req : req[r].pc \in {"touch", "admitted"} =>
    ~req[r].revoked /\ req[r].began < req[r].expiresAt

GuardInv == SessionsDated /\ CopiesAgree /\ LogoutsRevoke /\ PassedUsable

\* There is no session and no guard has looked for one.
LEMMA GuardInvInit == Init => GuardInv
BY DEF Init, GuardInv, SessionsDated, CopiesAgree, CopyAgrees, LogoutsRevoke,
       PassedUsable,
       Issued, NoSession, NewReq

\* A login step changes no session that exists; a step of another kind
\* changes no login that is over.
LEMMA GuardInvLogin ==
  ASSUME TypeOK, GuardInv, NEW l \in Login, LoginStep(l)
  PROVE  GuardInv'
<1>1. UNCHANGED <<clock, req>>
  BY DEF LoginStep, LoginFind, LoginUnknown, LoginVerifyError,
         LoginWrongPassword, LoginReset, LoginCreateSession
<1>2. login[l].pc # "done" /\ l \notin Issued
  BY DEF LoginStep, LoginFind, LoginUnknown, LoginVerifyError,
         LoginWrongPassword, LoginReset, LoginCreateSession,
         GuardInv, SessionsDated
<1>3. \A m \in Login : m # l => login'[m] = login[m] /\ session'[m] = session[m]
  BY DEF LoginStep, LoginFind, LoginUnknown, LoginVerifyError,
         LoginWrongPassword, LoginReset, LoginCreateSession,
         TypeOK, StoreType, LoginsType
<1>4. l \in Issued' => login'[l].pc = "done"
                       /\ session'[l].expiresAt = login'[l].at + SessionTtl
  <2>1. CASE LoginCreateSession(l)
    BY <2>1 DEF LoginCreateSession, TypeOK, StoreType, LoginsType, Logins
  <2>2. CASE session' = session
    BY <1>2, <2>2 DEF Issued
  <2> QED
    BY <2>1, <2>2
    DEF LoginStep, LoginFind, LoginUnknown, LoginVerifyError,
        LoginWrongPassword, LoginReset
<1>5. SessionsDated'
  BY <1>3, <1>4 DEF GuardInv, SessionsDated, Issued
<1>6. \A r \in Req : req[r].pc \notin {"new", "refused"} =>
        session'[req[r].token] = session[req[r].token]
  BY <1>2, <1>3 DEF TypeOK, ReqsType, Issued
<1> QED
  BY <1>1, <1>5, <1>6
  DEF GuardInv, CopiesAgree, CopyAgrees, LogoutsRevoke, PassedUsable

\* The copy a guard takes of a session agrees with it.
LEMMA GuardInvFind ==
  ASSUME TypeOK, GuardInv, NEW r \in Req, NEW s \in Issued,
         NEW next \in {"found", "leaving"}, FindSession(r, s, next)
  PROVE  GuardInv'
<1>1. UNCHANGED <<clock, session, login>>
  BY DEF FindSession
<1>2. \A q \in Req : q # r => req'[q] = req[q]
  BY DEF FindSession, TypeOK, ReqsType
<1>3. req'[r] = [pc        |-> next,
                 token     |-> s,
                 owner     |-> session[s].userId,
                 expiresAt |-> session[s].expiresAt,
                 revoked   |-> session[s].state = "revoked",
                 began     |-> clock,
                 after     |-> LoggedOut(s)]
  BY DEF FindSession, TypeOK, ReqsType
<1>4. LoggedOut(s) # {} => session[s].state = "revoked"
  BY DEF LoggedOut, GuardInv, LogoutsRevoke
<1>5. CopiesAgree'
  <2>1. /\ req'[r].token = s /\ req'[r].expiresAt = session[s].expiresAt
        /\ req'[r].began = clock /\ req'[r].after = LoggedOut(s)
        /\ req'[r].revoked = (session[s].state = "revoked")
    BY <1>3
  <2>2. CopyAgrees(r)'
    <3>1. /\ req'[r].revoked => session'[s].state = "revoked"
          /\ LoggedOut(s) # {} => req'[r].revoked
      BY <1>1, <1>4, <2>1, Zenon
    <3> QED
      BY <1>1, <2>1, <3>1 DEF CopyAgrees, TypeOK, StoreType, Time
  <2>3. ASSUME NEW q \in Req, q # r, CopyAgrees(q) PROVE CopyAgrees(q)'
    BY <1>1, <1>2, <2>3 DEF CopyAgrees
  <2> QED
    BY <1>2, <2>2, <2>3 DEF GuardInv, CopiesAgree
<1>6. SessionsDated' /\ LogoutsRevoke' /\ PassedUsable'
  BY <1>1, <1>2, <1>3
  DEF GuardInv, SessionsDated, LogoutsRevoke, PassedUsable, Issued
<1> QED
  BY <1>5, <1>6 DEF GuardInv

\* A guard decides by its copy.
LEMMA GuardInvCheck ==
  ASSUME TypeOK, GuardInv, NEW r \in Req,
         GuardUnknownToken(r) \/ GuardCheckSession(r) \/ GuardPermission(r)
  PROVE  GuardInv'
<1>1. UNCHANGED <<clock, session, login>>
  BY DEF GuardUnknownToken, GuardCheckSession, GuardPermission
<1>2. \A q \in Req : q # r => req'[q] = req[q]
  BY DEF GuardUnknownToken, GuardCheckSession, GuardPermission, TypeOK, ReqsType
<1>3. \E next \in {"refused", "touch", "admitted", "forbidden"} :
        /\ req'[r] = [req[r] EXCEPT !.pc = next]
        /\ req[r].pc = "new" => next = "refused"
        /\ next = "touch" => SessionUsable(r)
        /\ next = "admitted" => req[r].pc = "touch"
  BY DEF GuardUnknownToken, GuardCheckSession, GuardPermission, TypeOK, ReqsType
<1>4. ASSUME NEW q \in Req
      PROVE  /\ req'[q].pc \notin {"new", "refused"} => req[q].pc \notin {"new", "refused"}
             /\ req'[q].pc = "left" => req[q].pc = "left"
             /\ CopyAgrees(q) => CopyAgrees(q)'
             /\ req'[q].token = req[q].token
  <2>1. CASE q = r
    BY <1>1, <1>3, <2>1 DEF CopyAgrees, TypeOK, ReqsType, Reqs,
                            GuardUnknownToken,
                            GuardCheckSession, GuardPermission
  <2>2. CASE q # r
    BY <1>1, <1>2, <2>2 DEF CopyAgrees
  <2> QED
    BY <2>1, <2>2
<1>7. CopiesAgree' /\ LogoutsRevoke'
  BY <1>1, <1>4 DEF GuardInv, CopiesAgree, LogoutsRevoke
<1>5. PassedUsable'
  <2>1. SessionUsable(r) /\ req[r].pc # "new" =>
          ~req[r].revoked /\ (req[r].pc # "refused" => req[r].began < req[r].expiresAt)
    BY DEF SessionUsable, GuardInv, CopiesAgree, CopyAgrees, TypeOK, StoreType,
           ReqsType,
           Reqs, Time
  <2>2. req[r].pc # "refused"
    BY DEF GuardUnknownToken, GuardCheckSession, GuardPermission
  <2> QED
    BY <1>2, <1>3, <2>1, <2>2
    DEF GuardInv, PassedUsable, TypeOK, ReqsType, Reqs
<1>6. SessionsDated'
  BY <1>1 DEF GuardInv, SessionsDated, Issued
<1> QED
  BY <1>5, <1>6, <1>7 DEF GuardInv

\* A logout revokes its session, also under the guards in flight.
LEMMA GuardInvRevoke ==
  ASSUME TypeOK, GuardInv, NEW r \in Req, LogoutRevoke(r)
  PROVE  GuardInv'
<1>1. UNCHANGED <<clock, login>> /\ req[r].token \in Issued /\ Issued' = Issued
  BY LogoutRevokeType DEF LogoutRevoke, TypeOK, ReqsType
<1>2. \A q \in Req : q # r => req'[q] = req[q]
  BY DEF LogoutRevoke, TypeOK, ReqsType
<1>3. req'[r] = [req[r] EXCEPT !.pc = "left"]
  BY DEF LogoutRevoke, TypeOK, ReqsType
<1>4. session'[req[r].token].state = "revoked"
  BY <1>1 DEF LogoutRevoke, RevokeSession, GuardInv, CopiesAgree, CopyAgrees,
              TypeOK,
              StoreType, Sessions, Issued
<1>5. \A s \in Login : /\ session'[s].expiresAt = session[s].expiresAt
                       /\ session[s].state = "revoked" => session'[s].state = "revoked"
  BY <1>1 DEF LogoutRevoke, RevokeSession, TypeOK, StoreType, Sessions, Issued
<1>6. SessionsDated'
  BY <1>1, <1>5 DEF GuardInv, SessionsDated, Issued
<1>7. \A q \in Req : req[q].pc \notin {"new", "refused"} => req[q].token \in Login
  BY DEF TypeOK, ReqsType, Issued
<1>8. CopiesAgree'
  BY <1>1, <1>2, <1>3, <1>5, <1>7
  DEF LogoutRevoke, GuardInv, CopiesAgree, CopyAgrees, TypeOK, ReqsType, Reqs
<1>9. LogoutsRevoke' /\ PassedUsable'
  BY <1>2, <1>3, <1>4, <1>5, <1>7
  DEF GuardInv, LogoutsRevoke, PassedUsable, TypeOK, ReqsType, Reqs
<1> QED
  BY <1>6, <1>8, <1>9 DEF GuardInv

\* No request reaches its handler on a copy of a session that was over when
\* the request came, for any number of sessions, requests and logouts.
THEOREM AdmissionCorrect == Spec => []NoStaleAdmission
<1>1. TypeOK /\ GuardInv /\ [Next]_vars => GuardInv'
  <2> SUFFICES ASSUME TypeOK, GuardInv, [Next]_vars PROVE GuardInv'
    OBVIOUS
  <2>1. CASE Tick
    BY <2>1
    DEF Tick, GuardInv, SessionsDated, CopiesAgree, CopyAgrees, LogoutsRevoke,
        PassedUsable,
        Issued, TypeOK, StoreType, ReqsType, Reqs, Time
  <2>2. ASSUME NEW r \in Req, ReqStep(r) PROVE GuardInv'
    BY <2>2, GuardInvFind, GuardInvCheck, GuardInvRevoke
    DEF ReqStep, GuardFindSession, LogoutFind
  <2>3. CASE UNCHANGED vars
    BY <2>3
    DEF vars, GuardInv, SessionsDated, CopiesAgree, CopyAgrees, LogoutsRevoke,
        PassedUsable,
        Issued
  <2> QED
    BY <2>1, <2>2, <2>3, GuardInvLogin DEF Next
<1>2. TypeOK /\ GuardInv => NoStaleAdmission
  <2> SUFFICES ASSUME TypeOK, GuardInv, NEW r \in Req, req[r].pc = "admitted"
               PROVE  /\ req[r].after = {}
                      /\ req[r].began < session[req[r].token].expiresAt
                      /\ session[req[r].token].expiresAt
                           <= login[req[r].token].at + SessionTtl
    BY DEF NoStaleAdmission
  <2>1. req[r].token \in Issued /\ CopyAgrees(r)
    BY DEF TypeOK, ReqsType, GuardInv, CopiesAgree
  <2>2. session[req[r].token].expiresAt = login[req[r].token].at + SessionTtl
    BY <2>1 DEF GuardInv, SessionsDated
  <2>3. session[req[r].token].expiresAt \in Nat
    BY <2>1 DEF TypeOK, StoreType, Sessions, Issued, Time
  <2> QED
    BY <2>1, <2>2, <2>3 DEF CopyAgrees, GuardInv, PassedUsable
<1> QED
  BY <1>1, <1>2, GuardInvInit, TypeCorrect, PTL DEF Spec

-----------------------------------------------------------------------------
(* The second factor: induction and recursion *)

\* A set that holds 0 and the successor of each of its numbers holds them all.
LEMMA Induction ==
  ASSUME NEW T, 0 \in T, \A k \in Nat : k \in T => k + 1 \in T
  PROVE  \A n \in Nat : n \in T
<1> SUFFICES ASSUME NEW n \in Nat, n \notin T PROVE FALSE
  OBVIOUS
<1> DEFINE I == T \cap 0..n
           next == [k \in I |-> k + 1]
<1>1. IsFiniteSet(I) /\ Cardinality(I) \in Nat
  <2>1. IsFiniteSet(0..n)
    BY FS_Interval
  <2> QED
    BY <2>1, FS_Subset, FS_CardinalityType
<1>2. IsFiniteSet(I \ {0}) /\ Cardinality(I \ {0}) = Cardinality(I) - 1
  BY <1>1, FS_RemoveElement, 0 \in I
<1>3. next \in [I -> I \ {0}]
  BY n \notin I
<1>4. \A x, y \in I : x # y => next[x] # next[y]
  OBVIOUS
<1> HIDE DEF I, next
<1>5. Cardinality(I \ {0}) < Cardinality(I)
  BY <1>1, <1>2
<1> QED
  BY <1>1, <1>2, <1>3, <1>4, <1>5, FS_PigeonHole

\* f is what n steps within S make of b.
Steps(f, n, S, b, step) ==
  f \in [0..n -> S] /\ f[0] = b /\ \A k \in 1..n : f[k] = step[k][f[k - 1]]

\* A recursion of n steps within S has a solution.
LEMMA Recursion ==
  ASSUME NEW n \in Nat, NEW S, NEW b \in S, NEW step \in [1..n -> [S -> S]]
  PROVE  \E f : Steps(f, n, S, b, step)
<1> DEFINE Solves(f, m) ==
             f \in [0..m -> S] /\ f[0] = b /\ \A k \in 1..m : f[k] = step[k][f[k - 1]]
           T == {m \in Nat : m \in 0..n => \E f : Solves(f, m)}
<1>1. 0 \in T
  <2>1. Solves([k \in 0..0 |-> b], 0)
    OBVIOUS
  <2> QED
    BY <2>1
<1>2. ASSUME NEW m \in Nat, m \in T PROVE m + 1 \in T
  <2> SUFFICES ASSUME m + 1 \in 0..n PROVE \E f : Solves(f, m + 1)
    OBVIOUS
  <2>1. PICK f : Solves(f, m)
    BY <1>2
  <2> DEFINE g == [k \in 0..(m + 1) |-> IF k = m + 1 THEN step[k][f[m]] ELSE f[k]]
  <2>2. f[m] \in S /\ m + 1 \in 1..n
    BY <2>1
  <2>3. g \in [0..(m + 1) -> S]
    <3>1. step[m + 1][f[m]] \in S
      BY <2>2
    <3>2. \A k \in 0..(m + 1) : k # m + 1 => k \in 0..m
      OBVIOUS
    <3>3. \A k \in 0..m : f[k] \in S
      BY <2>1
    <3> QED
      BY <3>1, <3>2, <3>3
  <2>4. g[0] = b /\ g[m + 1] = step[m + 1][f[m]] /\ \A k \in 0..m : g[k] = f[k]
    BY <2>1
  <2>5. ASSUME NEW k \in 1..(m + 1) PROVE g[k] = step[k][g[k - 1]]
    <3>1. CASE k = m + 1
      <4>1. k - 1 = m /\ m \in 0..m
        BY <3>1
      <4> HIDE DEF g
      <4> QED
        BY <2>4, <3>1, <4>1
    <3>2. CASE k # m + 1
      <4>1. k \in 1..m /\ k - 1 \in 0..m /\ k \in 0..m
        BY <3>2
      <4> HIDE DEF g
      <4> QED
        BY <2>1, <2>4, <4>1
    <3> QED
      BY <3>1, <3>2
  <2>6. Solves(g, m + 1)
    <3> HIDE DEF g
    <3> QED
      BY <2>3, <2>4, <2>5
  <2> QED
    BY <2>6
<1>3. \A m \in Nat : m \in T
  <2> HIDE DEF T
  <2> QED
    BY <1>1, <1>2, Induction
<1>4. PICK f : Solves(f, n)
  BY <1>3
<1> QED
  BY <1>4 DEF Steps

\* What the same steps make of the same beginning is the same.
Alike(f, g, n) ==
  f[0] = g[0] /\ \A k \in 1..n : f[k - 1] = g[k - 1] => f[k] = g[k]

LEMMA SameSteps ==
  ASSUME NEW n \in Nat, NEW f, NEW g, Alike(f, g, n)
  PROVE  \A k \in 0..n : f[k] = g[k]
<1> USE DEF Alike
<1> DEFINE T == {m \in Nat : m \in 0..n => f[m] = g[m]}
<1>1. ASSUME NEW m \in Nat, m \in T PROVE m + 1 \in T
  <2> SUFFICES ASSUME m + 1 \in 0..n PROVE f[m + 1] = g[m + 1]
    OBVIOUS
  <2>1. m + 1 \in 1..n /\ f[(m + 1) - 1] = g[(m + 1) - 1]
    BY <1>1
  <2>2. (m + 1) - 1 = m
    OBVIOUS
  <2> QED
    BY <2>1, <2>2
<1>2. 0 \in T
  OBVIOUS
<1>3. \A m \in Nat : m \in T
  <2> HIDE DEF T
  <2> QED
    BY <1>1, <1>2, Induction
<1> QED
  BY <1>3


-----------------------------------------------------------------------------
(* The second factor: tokens *)

LEMMA FactorConstants ==
  /\ Words \in Nat \ {0} /\ Words % 4096 = 0 /\ Bytes \subseteq 0..255
  /\ Period \in Nat \ {0} /\ Window \in Nat /\ Seconds \subseteq Nat
  /\ MaxBytes \in Nat /\ Group \in Nat \ {0}
BY TwoFactorAssumption

LEMMA PeriodsAway ==
  ASSUME NEW P \in Nat \ {0}, NEW t \in Nat, NEW o \in Int
  PROVE  (t + o * P) \div P = (t \div P) + o
OBVIOUS

LEMMA TokensExpireHolds == TokensExpire
<1> SUFFICES ASSUME NEW made \in Seconds, NEW now \in Seconds
             PROVE  VerifyToken(GenerateToken(made), now) <=>
                      \E c \in (Counter(now) - Window)..(Counter(now) + Window) :
                        Token[c] = Token[Counter(made)]
  BY DEF TokensExpire
<1>1. Period \in Nat \ {0} /\ Window \in Nat /\ now \in Nat
  BY FactorConstants
<1>2. PICK c \in Int : c = Counter(now)
  BY <1>1 DEF Counter
<1>3. ASSUME NEW offset \in (-Window)..Window
      PROVE  GenerateToken(now + offset * Period) = Token[c + offset]
  <2>1. offset \in Int
    BY <1>1
  <2>2. (now + offset * Period) \div Period = (now \div Period) + offset
    BY <1>1, <2>1, PeriodsAway
  <2> QED
    BY <1>2, <2>2 DEF GenerateToken, Counter
<1>4. VerifyToken(GenerateToken(made), now) <=>
        \E offset \in (-Window)..Window : Token[c + offset] = Token[Counter(made)]
  BY <1>3 DEF VerifyToken, GenerateToken
<1>5. ASSUME NEW offset \in (-Window)..Window
      PROVE  c + offset \in (c - Window)..(c + Window)
  BY <1>1, <1>2
<1>6. ASSUME NEW d \in (c - Window)..(c + Window)
      PROVE  d - c \in (-Window)..Window /\ c + (d - c) = d
  BY <1>1, <1>2
<1> QED
  BY <1>2, <1>4, <1>5, <1>6

-----------------------------------------------------------------------------
(* The second factor: bits *)

LEMMA PowerSteps ==
  Power2[0] = 1 /\ \A k \in 1..12 : Power2[k] = 2 * Power2[k - 1]
<1> DEFINE F(g) == [n \in 0..12 |-> IF n = 0 THEN 1 ELSE 2 * g[n - 1]]
<1>1. \E g : g = F(g)
  <2>1. PICK step \in [1..12 -> [Nat -> Nat]] :
               step = [k \in 1..12 |-> [x \in Nat |-> 2 * x]]
    <3>1. [k \in 1..12 |-> [x \in Nat |-> 2 * x]] \in [1..12 -> [Nat -> Nat]]
      OBVIOUS
    <3> QED
      BY <3>1, Zenon
  <2>2. PICK g : Steps(g, 12, Nat, 1, step)
    BY Recursion
  <2>3. g \in [0..12 -> Nat] /\ g[0] = 1 /\ \A k \in 1..12 : g[k] = step[k][g[k - 1]]
    BY <2>2 DEF Steps
  <2>4. ASSUME NEW k \in 1..12 PROVE g[k] = 2 * g[k - 1]
    <3>1. k - 1 \in 0..12
      OBVIOUS
    <3>2. g[k - 1] \in Nat
      BY <2>3, <3>1
    <3> QED
      BY <2>1, <2>3, <3>2
  <2>5. \A k \in 0..12 : k # 0 => k \in 1..12
    OBVIOUS
  <2>6. \A k \in 0..12 : g[k] = IF k = 0 THEN 1 ELSE 2 * g[k - 1]
    BY <2>3, <2>4, <2>5
  <2>7. g = [k \in 0..12 |-> g[k]]
    BY <2>3
  <2>8. g = F(g)
    BY <2>6, <2>7
  <2> QED
    BY <2>8
<1>2. Power2 = F(Power2)
  <2>1. Power2 = CHOOSE g : g = F(g)
    BY DEF Power2
  <2> HIDE DEF F
  <2> QED
    BY <1>1, <2>1
<1> QED
  BY <1>2

LEMMA Powers ==
  /\ Power2[0] = 1 /\ Power2[1] = 2 /\ Power2[2] = 4 /\ Power2[3] = 8
  /\ Power2[4] = 16 /\ Power2[5] = 32 /\ Power2[6] = 64 /\ Power2[7] = 128
  /\ Power2[8] = 256 /\ Power2[9] = 512 /\ Power2[10] = 1024 /\ Power2[11] = 2048
  /\ Power2[12] = 4096
<1>1. Power2[0] = 1 /\ Power2[1] = 2 /\ Power2[2] = 4 /\ Power2[3] = 8
  BY PowerSteps
<1>2. Power2[4] = 16 /\ Power2[5] = 32 /\ Power2[6] = 64 /\ Power2[7] = 128
  BY PowerSteps, <1>1
<1>3. Power2[8] = 256 /\ Power2[9] = 512 /\ Power2[10] = 1024 /\ Power2[11] = 2048
      /\ Power2[12] = 4096
  BY PowerSteps, <1>2
<1> QED
  BY <1>1, <1>2, <1>3

LEMMA PowerType == \A k \in 0..12 : Power2[k] \in Nat \ {0}
<1> SUFFICES ASSUME NEW k \in 0..12 PROVE Power2[k] \in Nat \ {0}
  OBVIOUS
<1>1. \/ k = 0 \/ k = 1 \/ k = 2 \/ k = 3 \/ k = 4 \/ k = 5
      \/ k = 6 \/ k = 7 \/ k = 8 \/ k = 9 \/ k = 10 \/ k = 11 \/ k = 12
  OBVIOUS
<1> QED
  BY <1>1, Powers

LEMMA PowerSum ==
  ASSUME NEW s \in 0..12
  PROVE  \A n \in 0..12 : s + n <= 12 => Power2[s + n] = Power2[s] * Power2[n]
<1> DEFINE T == {n \in Nat : s + n <= 12 => Power2[s + n] = Power2[s] * Power2[n]}
<1>1. 0 \in T
  BY PowerSteps, PowerType
<1>2. ASSUME NEW n \in Nat, n \in T PROVE n + 1 \in T
  <2> SUFFICES ASSUME s + (n + 1) <= 12
               PROVE  Power2[s + (n + 1)] = Power2[s] * Power2[n + 1]
    OBVIOUS
  <2>1. /\ s + (n + 1) \in 1..12 /\ (s + (n + 1)) - 1 = s + n
        /\ n + 1 \in 1..12 /\ (n + 1) - 1 = n /\ n \in 0..12
    OBVIOUS
  <2>2. Power2[s + (n + 1)] = 2 * Power2[s + n] /\ Power2[n + 1] = 2 * Power2[n]
    BY PowerSteps, <2>1
  <2>3. Power2[s + n] = Power2[s] * Power2[n]
    BY <1>2
  <2>4. PICK a \in Nat, b \in Nat : a = Power2[s] /\ b = Power2[n]
    BY PowerType, <2>1
  <2>5. 2 * (a * b) = a * (2 * b)
    OBVIOUS
  <2> QED
    BY <2>2, <2>3, <2>4, <2>5
<1>3. \A n \in Nat : n \in T
  <2> HIDE DEF T
  <2> QED
    BY <1>1, <1>2, Induction
<1> QED
  BY <1>3

\* The five bits of a letter, and the eight of a byte, from s on.
LEMMA FiveBits ==
  ASSUME NEW y \in Nat
  PROVE  y % 32 = 16 * ((y \div 16) % 2) + 8 * ((y \div 8) % 2) + 4 * ((y \div 4) % 2)
                    + 2 * ((y \div 2) % 2) + (y % 2)
<1>1. PICK a \in Nat, e \in 0..1 : y = 2 * a + e
  BY y = 2 * (y \div 2) + (y % 2)
<1>2. PICK b \in Nat, d \in 0..1 : a = 2 * b + d
  BY a = 2 * (a \div 2) + (a % 2)
<1>3. PICK g \in Nat, h \in 0..1 : b = 2 * g + h
  BY b = 2 * (b \div 2) + (b % 2)
<1>4. PICK i \in Nat, j \in 0..1 : g = 2 * i + j
  BY g = 2 * (g \div 2) + (g % 2)
<1>5. PICK k \in Nat, l \in 0..1 : i = 2 * k + l
  BY i = 2 * (i \div 2) + (i % 2)
<1>6. y \div 2 = a /\ y % 2 = e /\ a % 2 = d
  BY <1>1, <1>2
<1>7. y \div 4 = b /\ b % 2 = h
  BY <1>1, <1>2, <1>3
<1>8. y \div 8 = g /\ g % 2 = j
  BY <1>1, <1>2, <1>3, <1>4
<1>9. y \div 16 = i /\ i % 2 = l
  BY <1>1, <1>2, <1>3, <1>4, <1>5
<1>10. y = 32 * k + (16 * l + 8 * j + 4 * h + 2 * d + e)
  BY <1>1, <1>2, <1>3, <1>4, <1>5
<1>11. y % 32 = 16 * l + 8 * j + 4 * h + 2 * d + e
  BY <1>10
<1> QED
  BY <1>6, <1>7, <1>8, <1>9, <1>11

LEMMA EightBits ==
  ASSUME NEW y \in Nat
  PROVE  y % 256 = 128 * ((y \div 128) % 2) + 64 * ((y \div 64) % 2)
                     + 32 * ((y \div 32) % 2) + (y % 32)
<1>1. PICK z \in Nat, r \in 0..31 : y = 32 * z + r
  BY y = 32 * (y \div 32) + (y % 32)
<1>2. PICK a \in Nat, e \in 0..1 : z = 2 * a + e
  BY z = 2 * (z \div 2) + (z % 2)
<1>3. PICK b \in Nat, d \in 0..1 : a = 2 * b + d
  BY a = 2 * (a \div 2) + (a % 2)
<1>4. PICK g \in Nat, h \in 0..1 : b = 2 * g + h
  BY b = 2 * (b \div 2) + (b % 2)
<1>5. y \div 32 = z /\ z % 2 = e /\ y % 32 = r
  BY <1>1, <1>2
<1>6. y \div 64 = a /\ a % 2 = d
  BY <1>1, <1>2, <1>3
<1>7. y \div 128 = b /\ b % 2 = h
  BY <1>1, <1>2, <1>3, <1>4
<1>8. y = 256 * g + (128 * h + 64 * d + 32 * e + r)
  BY <1>1, <1>2, <1>3, <1>4
<1>9. y % 256 = 128 * h + 64 * d + 32 * e + r
  BY <1>8
<1> QED
  BY <1>5, <1>6, <1>7, <1>9

\* A shift by s and by n is one by s + n.
LEMMA TwoDivisions ==
  ASSUME NEW x \in Nat, NEW a \in Nat \ {0}, NEW b \in Nat \ {0}
  PROVE  x \div (a * b) = (x \div a) \div b /\ x \div a \in Nat
OBVIOUS

LEMMA TwoShifts ==
  ASSUME NEW x \in Nat, NEW s \in 0..12, NEW n \in 0..12, s + n <= 12
  PROVE  Shr(x, s + n) = Shr(x, s) \div Power2[n] /\ Shr(x, s) \in Nat
<1>1. PICK a \in Nat \ {0}, b \in Nat \ {0} : a = Power2[s] /\ b = Power2[n]
  BY PowerType
<1>2. Power2[s + n] = a * b
  BY <1>1, PowerSum
<1>3. x \div (a * b) = (x \div a) \div b /\ x \div a \in Nat
  BY TwoDivisions
<1> QED
  BY <1>1, <1>2, <1>3 DEF Shr

\* What is added above a bit leaves it alone.
LEMMA BitBelow ==
  ASSUME NEW x \in Nat, NEW t \in 0..12, NEW o \in Int, x + (2 * o) * Power2[t] \in Nat
  PROVE  Shr(x + (2 * o) * Power2[t], t) % 2 = Shr(x, t) % 2
<1>1. PICK p \in Nat \ {0} : p = Power2[t]
  BY PowerType
<1>2. (x + (2 * o) * p) \div p = (x \div p) + 2 * o
  <2>1. PICK e \in Int : e = 2 * o
    OBVIOUS
  <2>2. (x + e * p) \div p = (x \div p) + e
    BY PeriodsAway
  <2> QED
    BY <2>1, <2>2
<1>3. PICK y \in Nat : y = x \div p
  OBVIOUS
<1>4. (y + 2 * o) % 2 = y % 2
  OBVIOUS
<1> QED
  BY <1>1, <1>2, <1>3, <1>4 DEF Shr

\* The accumulator, n more bits shifted in: its low bits are those of low, and
\* those above, while in the last 12, are the low ones it had.
LEMMA ShiftedBits ==
  ASSUME NEW v \in Nat, NEW n \in 1..12, NEW low \in Nat, low < Power2[n]
  PROVE  /\ Shl(v, n) + low \in Nat
         /\ \A t \in 0..(n - 1) : Shr(Shl(v, n) + low, t) % 2 = Shr(low, t) % 2
         /\ \A t \in 0..(11 - n) : Shr(Shl(v, n) + low, n + t) % 2 = Shr(v, t) % 2
<1>1. PICK q \in Nat \ {0} : q = Power2[n]
  BY PowerType
<1>2. PICK m \in Nat : Words = 4096 * m
  <2>1. Words \in Nat /\ Words % 4096 = 0
    BY FactorConstants
  <2>2. Words = 4096 * (Words \div 4096) /\ Words \div 4096 \in Nat
    BY <2>1
  <2> QED
    BY <2>2
<1>3. PICK w \in Nat, z \in Int : w = Shl(v, n) + low /\ w = v * q + 4096 * z + low
  <2>1. PICK x \in Nat : x = v * q
    OBVIOUS
  <2>2. Words \in Nat \ {0}
    BY FactorConstants
  <2>3. x = Words * (x \div Words) + (x % Words) /\ x % Words \in Nat
          /\ x \div Words \in Nat
    BY <2>2
  <2>4. PICK d \in Nat : d = x \div Words
    BY <2>3
  <2>5. Words * d = 4096 * (m * d)
    BY <1>2
  <2>6. PICK e \in Nat : e = m * d
    OBVIOUS
  <2>7. x % Words = x + 4096 * (-e)
    BY <2>3, <2>4, <2>5, <2>6
  <2>8. Shl(v, n) = x % Words
    BY <1>1, <2>1 DEF Shl
  <2>9. PICK y \in Nat : y = x % Words
    BY <2>3
  <2>10. PICK z \in Int : z = -e
    OBVIOUS
  <2>11. PICK w \in Nat : w = y + low
    OBVIOUS
  <2>12. w = v * q + 4096 * z + low
    BY <2>1, <2>7, <2>9, <2>10, <2>11
  <2>13. w = Shl(v, n) + low
    BY <2>8, <2>9, <2>11
  <2> QED
    BY <2>12, <2>13
<1>4. ASSUME NEW t \in 0..(n - 1) PROVE Shr(w, t) % 2 = Shr(low, t) % 2
  <2>1. PICK p \in Nat \ {0}, r \in Nat \ {0}, h \in Nat \ {0} :
          p = Power2[t] /\ r = Power2[n - t - 1] /\ h = Power2[12 - t - 1]
    <3>1. t \in 0..12 /\ n - t - 1 \in 0..12 /\ 12 - t - 1 \in 0..12
      OBVIOUS
    <3> QED
      BY <3>1, PowerType
  <2>2. Power2[t + 1] = 2 * p
    BY <2>1, PowerSteps
  <2>3. q = (2 * p) * r /\ 4096 = (2 * p) * h
    <3>1. (t + 1) + (n - t - 1) = n /\ (t + 1) + (12 - t - 1) = 12
      OBVIOUS
    <3>2. t + 1 \in 0..12 /\ n - t - 1 \in 0..12 /\ 12 - t - 1 \in 0..12
      OBVIOUS
    <3>3. Power2[n] = Power2[t + 1] * Power2[n - t - 1]
      BY <3>1, <3>2, PowerSum
    <3>4. Power2[12] = Power2[t + 1] * Power2[12 - t - 1]
      BY <3>1, <3>2, PowerSum
    <3> QED
      BY <1>1, <2>1, <2>2, <3>3, <3>4, Powers
  <2>4. v * q + 4096 * z + low = low + (2 * (v * r + h * z)) * p
    <3>1. v * ((2 * p) * r) = (2 * (v * r)) * p
      OBVIOUS
    <3>2. ((2 * p) * h) * z = (2 * (h * z)) * p
      OBVIOUS
    <3>3. (2 * (v * r)) * p + (2 * (h * z)) * p = (2 * (v * r + h * z)) * p
      OBVIOUS
    <3> QED
      BY <2>3, <3>1, <3>2, <3>3
  <2>5. PICK o \in Int : o = v * r + h * z
    OBVIOUS
  <2>6. w = low + (2 * o) * Power2[t]
    BY <1>3, <2>1, <2>4, <2>5
  <2> QED
    BY <2>6, BitBelow
<1>5. ASSUME NEW t \in 0..(11 - n) PROVE Shr(w, n + t) % 2 = Shr(v, t) % 2
  <2>1. PICK p \in Nat \ {0}, h \in Nat \ {0} :
               p = Power2[t] /\ h = Power2[12 - (n + t + 1)]
    BY PowerType
  <2>2. 4096 = (q * (2 * p)) * h
    <3>1. /\ n + (t + 1) \in 0..12 /\ 12 - (n + t + 1) \in 0..12
          /\ (n + (t + 1)) + (12 - (n + t + 1)) = 12 /\ t + 1 \in 1..12
          /\ (t + 1) - 1 = t
      OBVIOUS
    <3>2. Power2[t + 1] = 2 * p
      BY <2>1, <3>1, PowerSteps
    <3>3. n \in 0..12 /\ t + 1 \in 0..12 /\ n + (t + 1) <= 12
      OBVIOUS
    <3>4. Power2[n + (t + 1)] = Power2[n] * Power2[t + 1]
      BY <3>3, PowerSum
    <3>5. Power2[12] = Power2[n + (t + 1)] * Power2[12 - (n + t + 1)]
      BY <3>1, PowerSum
    <3> QED
      BY <1>1, <2>1, <3>2, <3>4, <3>5, Powers
  <2>3. PICK o \in Int : o = h * z
    OBVIOUS
  <2>4. w = low + (v + (2 * o) * p) * q
    <3>1. ((q * (2 * p)) * h) * z = ((2 * (h * z)) * p) * q
      OBVIOUS
    <3>2. v * q + ((2 * o) * p) * q = (v + (2 * o) * p) * q
      OBVIOUS
    <3> QED
      BY <1>3, <2>2, <2>3, <3>1, <3>2
  <2>5. w \div q = v + (2 * o) * p
    <3>1. PICK y \in Int : y = v + (2 * o) * p
      OBVIOUS
    <3>2. low \div q = 0
      BY <1>1
    <3>3. (low + y * q) \div q = (low \div q) + y
      BY PeriodsAway
    <3> QED
      BY <2>4, <3>1, <3>2, <3>3
  <2>6. Shr(w, n + t) = Shr(w, n) \div Power2[t] /\ Shr(w, n) \in Nat
    <3>1. n \in 0..12 /\ t \in 0..12 /\ n + t <= 12
      OBVIOUS
    <3> QED
      BY <3>1, TwoShifts
  <2>7. Shr(w, n) = v + (2 * o) * Power2[t]
    BY <1>1, <2>1, <2>5 DEF Shr
  <2>8. Shr(v + (2 * o) * Power2[t], t) % 2 = Shr(v, t) % 2
    BY <2>6, <2>7, BitBelow
  <2> QED
    BY <2>6, <2>7, <2>8 DEF Shr
<1> QED
  BY <1>3, <1>4, <1>5

\* The low w bits of v are the last w of the first i bits of bytes.
Reads(v, bytes, i, w) ==
  \A t \in 0..(w - 1) : t < i => Shr(v, t) % 2 = Bit(bytes, i - 1 - t)

LEMMA ReadsLess ==
  ASSUME NEW bytes, NEW v, NEW i, NEW w \in Nat,
         NEW u \in Nat, u <= w, Reads(v, bytes, i, w)
  PROVE  Reads(v, bytes, i, u)
<1>1. \A t \in 0..(u - 1) : t \in 0..(w - 1)
  OBVIOUS
<1> QED
  BY <1>1 DEF Reads

LEMMA BitOfByte ==
  ASSUME NEW bytes \in Seq(0..255), NEW n \in Nat, n < Len(bytes), NEW t \in 0..7
  PROVE  Bit(bytes, 8 * (n + 1) - 1 - t) = Shr(bytes[n + 1], t) % 2
<1>1. PICK i \in Nat : i = 8 * (n + 1) - 1 - t
  OBVIOUS
<1>2. i < 8 * Len(bytes) /\ 1 + (i \div 8) = n + 1 /\ 7 - (i % 8) = t
  BY <1>1
<1> QED
  BY <1>1, <1>2 DEF Bit

LEMMA ByteIsRead ==
  ASSUME NEW bytes \in Seq(0..255), NEW n \in Nat, n < Len(bytes)
  PROVE  Reads(bytes[n + 1], bytes, 8 * n + 8, 8)
<1>1. PICK i \in Nat, w \in Nat : i = 8 * n + 8 /\ w = 8
  OBVIOUS
<1>2. ASSUME NEW t \in 0..(w - 1)
      PROVE  Shr(bytes[n + 1], t) % 2 = Bit(bytes, i - 1 - t)
  <2>1. t \in 0..7 /\ i - 1 - t = 8 * (n + 1) - 1 - t
    BY <1>1
  <2> QED
    BY <2>1, BitOfByte
<1>3. Reads(bytes[n + 1], bytes, i, w)
  BY <1>2 DEF Reads
<1> QED
  BY <1>1, <1>3

LEMMA BitType ==
  ASSUME NEW bytes \in Seq(0..255), NEW i \in Nat
  PROVE  Bit(bytes, i) \in 0..1
<1>1. CASE i < 8 * Len(bytes)
  <2>1. PICK n \in Nat, t \in 0..7 : i = 8 * (n + 1) - 1 - t
    <3>1. i = 8 * ((i \div 8) + 1) - 1 - (7 - (i % 8)) /\ i \div 8 \in Nat
            /\ 7 - (i % 8) \in 0..7
      OBVIOUS
    <3> QED
      BY <3>1
  <2>2. n < Len(bytes)
    BY <1>1, <2>1
  <2>3. PICK x \in Nat : x = bytes[n + 1]
    <3>1. n + 1 \in 1..Len(bytes)
      BY <2>2
    <3> QED
      BY <3>1, ElementOfSeq
  <2>4. Shr(x, t) % 2 \in 0..1
    <3>1. PICK p \in Nat \ {0} : p = Power2[t]
      BY t \in 0..12, PowerType
    <3>2. PICK y \in Nat : y = x \div p
      <4>1. x \div p \in Nat
        BY TwoDivisions
      <4> QED
        BY <4>1
    <3> QED
      BY <3>1, <3>2 DEF Shr
  <2> QED
    BY <2>1, <2>2, <2>3, <2>4, BitOfByte
<1>2. CASE ~(i < 8 * Len(bytes))
  BY <1>2 DEF Bit
<1> QED
  BY <1>1, <1>2

\* One bit that is read, s + n bits from the end of i.
LEMMA BitRead ==
  ASSUME NEW bytes, NEW v \in Nat, NEW i \in Nat, Reads(v, bytes, i, 12),
         NEW s \in 0..11, NEW n \in 0..11, s + n <= 11, s + n < i
  PROVE  (Shr(v, s) \div Power2[n]) % 2 = Bit(bytes, i - s - 1 - n)
<1>1. Shr(v, s + n) = Shr(v, s) \div Power2[n]
  <2>1. s \in 0..12 /\ n \in 0..12 /\ s + n <= 12
    OBVIOUS
  <2> QED
    BY <2>1, TwoShifts
<1>2. s + n \in 0..11 /\ i - 1 - (s + n) = i - s - 1 - n
  OBVIOUS
<1> QED
  BY <1>1, <1>2 DEF Reads

\* Five bits are a letter, eight a byte.
LEMMA LetterRead ==
  ASSUME NEW bytes, NEW v \in Nat, NEW i \in Nat, Reads(v, bytes, i, 12),
         NEW s \in 0..7, i >= s + 5
  PROVE  Shr(v, s) % 32 = 16 * Bit(bytes, i - s - 5) + 8 * Bit(bytes, i - s - 4)
           + 4 * Bit(bytes, i - s - 3) + 2 * Bit(bytes, i - s - 2)
             + Bit(bytes, i - s - 1)
<1>1. PICK y \in Nat : y = Shr(v, s)
  BY PowerType DEF Shr
<1>2. (y \div 16) % 2 = Bit(bytes, i - s - 1 - 4)
        /\ (y \div 8) % 2 = Bit(bytes, i - s - 1 - 3)
  BY <1>1, BitRead, Powers
<1>3. (y \div 4) % 2 = Bit(bytes, i - s - 1 - 2)
        /\ (y \div 2) % 2 = Bit(bytes, i - s - 1 - 1)
  BY <1>1, BitRead, Powers
<1>4. (y \div 1) % 2 = Bit(bytes, i - s - 1 - 0) /\ y \div 1 = y
  BY <1>1, BitRead, Powers
<1>5. /\ i - s - 1 - 4 = i - s - 5 /\ i - s - 1 - 3 = i - s - 4
      /\ i - s - 1 - 2 = i - s - 3
      /\ i - s - 1 - 1 = i - s - 2 /\ i - s - 1 - 0 = i - s - 1
  OBVIOUS
<1>6. y % 32 = 16 * ((y \div 16) % 2) + 8 * ((y \div 8) % 2) + 4 * ((y \div 4) % 2)
                 + 2 * ((y \div 2) % 2) + (y % 2)
  BY FiveBits
<1> QED
  BY <1>1, <1>2, <1>3, <1>4, <1>5, <1>6

LEMMA ByteRead ==
  ASSUME NEW bytes, NEW v \in Nat, NEW i \in Nat, Reads(v, bytes, i, 12),
         NEW s \in 0..4, i >= s + 8
  PROVE  Shr(v, s) % 256 = 128 * Bit(bytes, i - s - 8) + 64 * Bit(bytes, i - s - 7)
           + 32 * Bit(bytes, i - s - 6)
           + (16 * Bit(bytes, i - s - 5) + 8 * Bit(bytes, i - s - 4)
              + 4 * Bit(bytes, i - s - 3) + 2 * Bit(bytes, i - s - 2)
                + Bit(bytes, i - s - 1))
<1>1. PICK y \in Nat : y = Shr(v, s)
  BY PowerType DEF Shr
<1>2. (y \div 128) % 2 = Bit(bytes, i - s - 1 - 7)
        /\ (y \div 64) % 2 = Bit(bytes, i - s - 1 - 6)
  BY <1>1, BitRead, Powers
<1>3. (y \div 32) % 2 = Bit(bytes, i - s - 1 - 5)
  BY <1>1, BitRead, Powers
<1>4. /\ i - s - 1 - 7 = i - s - 8 /\ i - s - 1 - 6 = i - s - 7
      /\ i - s - 1 - 5 = i - s - 6
      /\ i >= s + 5 /\ s \in 0..7
  OBVIOUS
<1>5. y % 32 = 16 * Bit(bytes, i - s - 5) + 8 * Bit(bytes, i - s - 4)
           + 4 * Bit(bytes, i - s - 3) + 2 * Bit(bytes, i - s - 2)
             + Bit(bytes, i - s - 1)
  BY <1>1, <1>4, LetterRead
<1>6. y % 256 = 128 * ((y \div 128) % 2) + 64 * ((y \div 64) % 2)
                  + 32 * ((y \div 32) % 2) + (y % 32)
  BY EightBits
<1> QED
  BY <1>1, <1>2, <1>3, <1>4, <1>5, <1>6

\* n more bits, those of low, are shifted in: what is read grows by n.
LEMMA ReadsOn ==
  ASSUME NEW bytes, NEW v \in Nat, NEW i \in Nat, NEW n \in 1..12, NEW low \in Nat,
         low < Power2[n], Reads(v, bytes, i, 12 - n), Reads(low, bytes, i + n, n)
  PROVE  Shl(v, n) + low \in Nat /\ Reads(Shl(v, n) + low, bytes, i + n, 12)
<1>1. /\ Shl(v, n) + low \in Nat
      /\ \A t \in 0..(n - 1) : Shr(Shl(v, n) + low, t) % 2 = Shr(low, t) % 2
      /\ \A t \in 0..(11 - n) : Shr(Shl(v, n) + low, n + t) % 2 = Shr(v, t) % 2
  BY ShiftedBits
<1>2. ASSUME NEW t \in 0..11, t < i + n
      PROVE  Shr(Shl(v, n) + low, t) % 2 = Bit(bytes, i + n - 1 - t)
  <2>1. CASE t < n
    BY <1>1, <1>2, <2>1 DEF Reads
  <2>2. CASE t >= n
    <3>1. /\ t - n \in 0..(11 - n) /\ n + (t - n) = t /\ t - n < i
          /\ 11 - n = (12 - n) - 1
          /\ i - 1 - (t - n) = i + n - 1 - t
      BY <1>2, <2>2
    <3>2. Shr(v, t - n) % 2 = Bit(bytes, i - 1 - (t - n))
      BY <3>1 DEF Reads
    <3> QED
      BY <1>1, <3>1, <3>2
  <2> QED
    BY <2>1, <2>2
<1> QED
  BY <1>1, <1>2 DEF Reads

-----------------------------------------------------------------------------
(* The second factor: base32 *)

Encoding == [bits : 0..4, value : Nat, out : Seq(0..31)]
Decoding == [bits : 0..7, value : Nat, out : Seq(0..255)]

LEMMA ShiftType ==
  ASSUME NEW x \in Nat, NEW n \in 0..12
  PROVE  Shr(x, n) \in Nat
<1>1. PICK p \in Nat \ {0} : p = Power2[n]
  BY PowerType
<1>2. x \div p \in Nat
  BY TwoDivisions
<1> QED
  BY <1>1, <1>2 DEF Shr

LEMMA LettersType ==
  ASSUME NEW value \in Nat, NEW bits \in 8..12
  PROVE  /\ Letters(value, bits) \in Seq(0..31)
         /\ Len(Letters(value, bits)) = bits \div 5
         /\ \A i \in 1..(bits \div 5) :
              bits - 5 * i \in 0..7
                /\ Letters(value, bits)[i] = Shr(value, bits - 5 * i) % 32
<1>1. bits \div 5 \in Nat /\ \A i \in 1..(bits \div 5) : bits - 5 * i \in 0..7
  OBVIOUS
<1>2. ASSUME NEW i \in 1..(bits \div 5) PROVE Shr(value, bits - 5 * i) % 32 \in 0..31
  <2>1. bits - 5 * i \in 0..12
    BY <1>1
  <2>2. PICK y \in Nat : y = Shr(value, bits - 5 * i)
    BY <2>1, ShiftType
  <2> QED
    BY <2>2
<1>3. PICK n \in Nat : n = bits \div 5
  BY <1>1
<1> QED
  BY <1>1, <1>2, <1>3 DEF Letters

LEMMA EncodeByteType ==
  ASSUME NEW acc \in Encoding, NEW byte \in 0..255
  PROVE  EncodeByte(acc, byte) \in Encoding
<1>1. PICK value \in Nat : value = Shl(acc.value, 8) + byte
  <2>1. acc.value \in Nat /\ 8 \in 1..12 /\ byte \in Nat /\ byte < Power2[8]
    BY Powers DEF Encoding
  <2> QED
    BY <2>1, ShiftedBits
<1>2. PICK bits \in 8..12 : bits = acc.bits + 8
  BY DEF Encoding
<1>3. acc.out \o Letters(value, bits) \in Seq(0..31)
  <2>1. acc.out \in Seq(0..31) /\ Letters(value, bits) \in Seq(0..31)
    BY LettersType DEF Encoding
  <2> QED
    BY <2>1
<1>4. bits % 5 \in 0..4
  OBVIOUS
<1>5. EncodeByte(acc, byte) =
        [bits |-> bits % 5, value |-> value, out |-> acc.out \o Letters(value, bits)]
  BY <1>1, <1>2 DEF EncodeByte
<1> QED
  BY <1>3, <1>4, <1>5 DEF Encoding

LEMMA DecodeLetterType ==
  ASSUME NEW acc \in Decoding, NEW letter \in 0..31
  PROVE  DecodeLetter(acc, letter) \in Decoding
<1>1. PICK value \in Nat : value = Shl(acc.value, 5) + letter
  <2>1. acc.value \in Nat /\ 5 \in 1..12 /\ letter \in Nat /\ letter < Power2[5]
    BY Powers DEF Decoding
  <2> QED
    BY <2>1, ShiftedBits
<1>2. PICK bits \in 5..12 : bits = acc.bits + 5
  BY DEF Decoding
<1>3. CASE bits < 8
  <2>1. DecodeLetter(acc, letter) = [acc EXCEPT !.bits = bits, !.value = value]
    BY <1>1, <1>2, <1>3 DEF DecodeLetter
  <2>2. bits \in 0..7
    BY <1>3
  <2> QED
    BY <2>1, <2>2 DEF Decoding
<1>4. CASE ~(bits < 8)
  <2>1. DecodeLetter(acc, letter) =
          [bits |-> bits - 8, value |-> value,
           out |-> Append(acc.out, Shr(value, bits - 8) % 256)]
    BY <1>1, <1>2, <1>4 DEF DecodeLetter
  <2>2. bits - 8 \in 0..7 /\ bits - 8 \in 0..12
    BY <1>4
  <2>3. PICK y \in Nat : y = Shr(value, bits - 8)
    BY <2>2, ShiftType
  <2>4. y % 256 \in 0..255
    OBVIOUS
  <2>5. Append(acc.out, y % 256) \in Seq(0..255)
    BY <2>4 DEF Decoding
  <2> QED
    BY <2>1, <2>2, <2>3, <2>5 DEF Decoding
<1> QED
  BY <1>3, <1>4

\* The accumulator of a conversion after each byte, or letter.
LEMMA EncodeSteps ==
  ASSUME NEW bytes \in Seq(0..255)
  PROVE  \E f \in [0..Len(bytes) -> Encoding] :
           /\ f[0] = Start /\ EncodeBase32(bytes) =
                IF f[Len(bytes)].bits = 0 THEN f[Len(bytes)].out
                ELSE Append(f[Len(bytes)].out,
                            Shl(f[Len(bytes)].value, 5 - f[Len(bytes)].bits) % 32)
           /\ \A k \in 1..Len(bytes) : f[k] = EncodeByte(f[k - 1], bytes[k])
<1> DEFINE F(g) == [k \in 0..Len(bytes) |-> IF k = 0 THEN Start
             ELSE EncodeByte(g[k - 1], bytes[k])]
           acc == CHOOSE g : g = F(g)
<1>1. Len(bytes) \in Nat /\ \A k \in 1..Len(bytes) : bytes[k] \in 0..255
  BY ElementOfSeq
<1>2. \A k \in 1..Len(bytes), x \in Encoding : EncodeByte(x, bytes[k]) \in Encoding
  BY <1>1, EncodeByteType
<1>3. Start \in Encoding
  BY DEF Start, Encoding
<1>4. \E g : g = F(g)
  <2>1. PICK step :
               step
                 = [k \in 1..Len(bytes)
                   |-> [x \in Encoding |-> EncodeByte(x, bytes[k])]]
    OBVIOUS
  <2>2. \A k \in 1..Len(bytes), x \in Encoding :
          step[k][x] \in Encoding /\ step[k][x] = EncodeByte(x, bytes[k])
    BY <1>2, <2>1
  <2>3. \E g \in [0..Len(bytes) -> Encoding] :
          g[0] = Start /\ \A k \in 1..Len(bytes) : g[k] = step[k][g[k - 1]]
    <3>1. PICK n, S, b : n = Len(bytes) /\ S = Encoding /\ b = Start
      OBVIOUS
    <3>2. n \in Nat /\ b \in S /\ step \in [1..n -> [S -> S]]
      BY <1>1, <1>2, <1>3, <2>1, <3>1
    <3>3. PICK g : Steps(g, n, S, b, step)
      BY <3>2, Recursion
    <3> QED
      BY <3>1, <3>3 DEF Steps
  <2>4. PICK g \in [0..Len(bytes) -> Encoding] :
          g[0] = Start /\ \A k \in 1..Len(bytes) : g[k] = step[k][g[k - 1]]
    BY <2>3
  <2>5. \A k \in 1..Len(bytes) : g[k] = EncodeByte(g[k - 1], bytes[k])
    <3> SUFFICES ASSUME NEW k \in 1..Len(bytes)
                 PROVE g[k] = EncodeByte(g[k - 1], bytes[k])
      OBVIOUS
    <3>1. k - 1 \in 0..Len(bytes)
      BY <1>1
    <3>2. g[k - 1] \in Encoding
      BY <3>1
    <3> QED
      BY <2>2, <2>4, <3>2
  <2>6. g = F(g)
    <3>1. \A k \in 0..Len(bytes) : k # 0 => k \in 1..Len(bytes)
      BY <1>1
    <3>2. \A k \in 0..Len(bytes) :
            g[k] = IF k = 0 THEN Start ELSE EncodeByte(g[k - 1], bytes[k])
      BY <2>4, <2>5, <3>1
    <3>3. g = [k \in 0..Len(bytes) |-> g[k]]
      OBVIOUS
    <3> QED
      BY <3>2, <3>3
  <2> QED
    BY <2>6
<1>5. acc = F(acc)
  <2> HIDE DEF F
  <2> QED
    BY <1>4
<1>6. EncodeBase32(bytes) =
                IF acc[Len(bytes)].bits = 0 THEN acc[Len(bytes)].out
                ELSE Append(acc[Len(bytes)].out,
                            Shl(acc[Len(bytes)].value, 5 - acc[Len(bytes)].bits) % 32)
  BY DEF EncodeBase32
<1> HIDE DEF acc
<1>7. acc[0] = Start /\ \A k \in 1..Len(bytes) :
        acc[k] = EncodeByte(acc[k - 1], bytes[k])
  BY <1>1, <1>5
<1>8. acc = [k \in 0..Len(bytes) |-> acc[k]]
  BY <1>5
<1>9. \A k \in 0..Len(bytes) : acc[k] \in Encoding
  <2> DEFINE T == {k \in Nat : k \in 0..Len(bytes) => acc[k] \in Encoding}
  <2>1. 0 \in T
    BY <1>3, <1>7
  <2>2. ASSUME NEW k \in Nat, k \in T PROVE k + 1 \in T
    <3> SUFFICES ASSUME k + 1 \in 0..Len(bytes) PROVE acc[k + 1] \in Encoding
      OBVIOUS
    <3>1. k + 1 \in 1..Len(bytes) /\ acc[k] \in Encoding /\ (k + 1) - 1 = k
      BY <2>2, <1>1
    <3> QED
      BY <1>2, <1>7, <3>1
  <2>3. \A k \in Nat : k \in T
    <3> HIDE DEF T
    <3> QED
      BY <2>1, <2>2, Induction
  <2> QED
    BY <1>1, <2>3
<1> QED
  BY <1>1, <1>6, <1>7, <1>8, <1>9

LEMMA DecodeSteps ==
  ASSUME NEW letters \in Seq(0..31)
  PROVE  \E f \in [0..Len(letters) -> Decoding] :
           /\ f[0] = Start /\ DecodeBase32(letters) = f[Len(letters)].out
           /\ \A k \in 1..Len(letters) : f[k] = DecodeLetter(f[k - 1], letters[k])
<1> DEFINE F(g) == [k \in 0..Len(letters) |-> IF k = 0 THEN Start
             ELSE DecodeLetter(g[k - 1], letters[k])]
           acc == CHOOSE g : g = F(g)
<1>1. Len(letters) \in Nat /\ \A k \in 1..Len(letters) : letters[k] \in 0..31
  BY ElementOfSeq
<1>2. \A k \in 1..Len(letters), x \in Decoding :
        DecodeLetter(x, letters[k]) \in Decoding
  BY <1>1, DecodeLetterType
<1>3. Start \in Decoding
  BY DEF Start, Decoding
<1>4. \E g : g = F(g)
  <2>1. PICK step : step
               = [k \in 1..Len(letters)
                 |-> [x \in Decoding |-> DecodeLetter(x, letters[k])]]
    OBVIOUS
  <2>2. \A k \in 1..Len(letters), x \in Decoding :
          step[k][x] \in Decoding /\ step[k][x] = DecodeLetter(x, letters[k])
    BY <1>2, <2>1
  <2>3. \E g \in [0..Len(letters) -> Decoding] :
          g[0] = Start /\ \A k \in 1..Len(letters) : g[k] = step[k][g[k - 1]]
    <3>1. PICK n, S, b : n = Len(letters) /\ S = Decoding /\ b = Start
      OBVIOUS
    <3>2. n \in Nat /\ b \in S /\ step \in [1..n -> [S -> S]]
      BY <1>1, <1>2, <1>3, <2>1, <3>1
    <3>3. PICK g : Steps(g, n, S, b, step)
      BY <3>2, Recursion
    <3> QED
      BY <3>1, <3>3 DEF Steps
  <2>4. PICK g \in [0..Len(letters) -> Decoding] :
          g[0] = Start /\ \A k \in 1..Len(letters) : g[k] = step[k][g[k - 1]]
    BY <2>3
  <2>5. \A k \in 1..Len(letters) : g[k] = DecodeLetter(g[k - 1], letters[k])
    <3> SUFFICES ASSUME NEW k \in 1..Len(letters)
                 PROVE g[k] = DecodeLetter(g[k - 1], letters[k])
      OBVIOUS
    <3>1. k - 1 \in 0..Len(letters)
      BY <1>1
    <3>2. g[k - 1] \in Decoding
      BY <3>1
    <3> QED
      BY <2>2, <2>4, <3>2
  <2>6. g = F(g)
    <3>1. \A k \in 0..Len(letters) : k # 0 => k \in 1..Len(letters)
      BY <1>1
    <3>2. \A k \in 0..Len(letters) :
            g[k] = IF k = 0 THEN Start ELSE DecodeLetter(g[k - 1], letters[k])
      BY <2>4, <2>5, <3>1
    <3>3. g = [k \in 0..Len(letters) |-> g[k]]
      OBVIOUS
    <3> QED
      BY <3>2, <3>3
  <2> QED
    BY <2>6
<1>5. acc = F(acc)
  <2> HIDE DEF F
  <2> QED
    BY <1>4
<1>6. DecodeBase32(letters) = acc[Len(letters)].out
  BY DEF DecodeBase32
<1> HIDE DEF acc
<1>7. acc[0] = Start /\ \A k \in 1..Len(letters) :
        acc[k] = DecodeLetter(acc[k - 1], letters[k])
  BY <1>1, <1>5
<1>8. acc = [k \in 0..Len(letters) |-> acc[k]]
  BY <1>5
<1>9. \A k \in 0..Len(letters) : acc[k] \in Decoding
  <2> DEFINE T == {k \in Nat : k \in 0..Len(letters) => acc[k] \in Decoding}
  <2>1. 0 \in T
    BY <1>3, <1>7
  <2>2. ASSUME NEW k \in Nat, k \in T PROVE k + 1 \in T
    <3> SUFFICES ASSUME k + 1 \in 0..Len(letters) PROVE acc[k + 1] \in Decoding
      OBVIOUS
    <3>1. k + 1 \in 1..Len(letters) /\ acc[k] \in Decoding /\ (k + 1) - 1 = k
      BY <2>2, <1>1
    <3> QED
      BY <1>2, <1>7, <3>1
  <2>3. \A k \in Nat : k \in T
    <3> HIDE DEF T
    <3> QED
      BY <2>1, <2>2, Induction
  <2> QED
    BY <1>1, <2>3
<1> QED
  BY <1>1, <1>6, <1>7, <1>8, <1>9

LEMMA Base32Letters ==
  ASSUME NEW bytes \in Seq(0..255)
  PROVE  /\ Base32(bytes) \in Seq(0..31)
         /\ Len(Base32(bytes)) = (8 * Len(bytes) + 4) \div 5
         /\ \A k \in 1..((8 * Len(bytes) + 4) \div 5) :
              Base32(bytes)[k]
                = 16 * Bit(bytes, 5 * (k - 1) + 0) + 8 * Bit(bytes, 5 * (k - 1) + 1)
                + 4 * Bit(bytes, 5 * (k - 1) + 2) + 2 * Bit(bytes, 5 * (k - 1) + 3)
                + Bit(bytes, 5 * (k - 1) + 4)
<1>1. PICK n \in Nat : n = (8 * Len(bytes) + 4) \div 5
  OBVIOUS
<1> DEFINE letter(k) == 16 * Bit(bytes, 5 * (k - 1) + 0)
             + 8 * Bit(bytes, 5 * (k - 1) + 1)
                + 4 * Bit(bytes, 5 * (k - 1) + 2) + 2 * Bit(bytes, 5 * (k - 1) + 3)
                + Bit(bytes, 5 * (k - 1) + 4)
<1>2. ASSUME NEW k \in 1..n PROVE letter(k) \in 0..31
  <2>1. \A j \in 0..4 : 5 * (k - 1) + j \in Nat
    OBVIOUS
  <2>2. \A j \in 0..4 : Bit(bytes, 5 * (k - 1) + j) \in 0..1
    BY <2>1, BitType
  <2>3. PICK b0 \in 0..1, b1 \in 0..1, b2 \in 0..1, b3 \in 0..1, b4 \in 0..1 :
          /\ b0 = Bit(bytes, 5 * (k - 1) + 0) /\ b1 = Bit(bytes, 5 * (k - 1) + 1)
          /\ b2 = Bit(bytes, 5 * (k - 1) + 2) /\ b3 = Bit(bytes, 5 * (k - 1) + 3)
          /\ b4 = Bit(bytes, 5 * (k - 1) + 4)
    BY <2>2
  <2>4. letter(k) = 16 * b0 + 8 * b1 + 4 * b2 + 2 * b3 + b4
    BY <2>3
  <2>5. 16 * b0 + 8 * b1 + 4 * b2 + 2 * b3 + b4 \in 0..31
    OBVIOUS
  <2> QED
    BY <2>4, <2>5
<1>3. Base32(bytes) = [k \in 1..n |-> letter(k)]
  BY <1>1 DEF Base32
<1> HIDE DEF letter
<1>4. [k \in 1..n |-> letter(k)] \in Seq(0..31) /\ Len([k \in 1..n |-> letter(k)]) = n
  BY <1>2
<1>5. \A k \in 1..n : Base32(bytes)[k] = letter(k)
  BY <1>3
<1> QED
  BY <1>1, <1>3, <1>4, <1>5 DEF letter

\* The accumulator after n bytes.
Encoded(acc, bytes, n) ==
  /\ acc.bits = (8 * n) % 5 /\ Len(acc.out) = (8 * n) \div 5
  /\ \A k \in 1..Len(acc.out) : acc.out[k] = Base32(bytes)[k]
  /\ Reads(acc.value, bytes, 8 * n, 12)

LEMMA EncodeStep ==
  ASSUME NEW bytes \in Seq(0..255), NEW n \in Nat, n < Len(bytes),
         NEW acc \in Encoding, Encoded(acc, bytes, n)
  PROVE  Encoded(EncodeByte(acc, bytes[n + 1]), bytes, n + 1)
<1>1. PICK byte \in 0..255 : byte = bytes[n + 1]
  BY n + 1 \in 1..Len(bytes), ElementOfSeq
<1>2. PICK value \in Nat : /\ value = Shl(acc.value, 8) + byte
                           /\ Reads(value, bytes, 8 * (n + 1), 12)
  <2>1. PICK v \in Nat : v = acc.value
    BY DEF Encoding
  <2>2. Reads(v, bytes, 8 * n, 12 - 8)
    BY <2>1, ReadsLess DEF Encoded
  <2>3. Reads(byte, bytes, 8 * n + 8, 8)
    BY <1>1, ByteIsRead
  <2>4. PICK i \in Nat : i = 8 * n
    OBVIOUS
  <2>5. byte \in Nat /\ byte < Power2[8] /\ 8 \in 1..12
    BY Powers
  <2>6. Shl(v, 8) + byte \in Nat /\ Reads(Shl(v, 8) + byte, bytes, i + 8, 12)
    BY <2>2, <2>3, <2>4, <2>5, ReadsOn
  <2>7. i + 8 = 8 * (n + 1)
    BY <2>4
  <2> QED
    BY <2>1, <2>6, <2>7
<1>3. PICK bits \in 8..12 : bits = acc.bits + 8
  BY DEF Encoding
<1>4. PICK new \in Encoding : new = EncodeByte(acc, bytes[n + 1])
  BY <1>1, EncodeByteType
<1>5. /\ new.bits = bits % 5 /\ new.value = value
      /\ new.out = acc.out \o Letters(value, bits)
  BY <1>1, <1>2, <1>3, <1>4 DEF EncodeByte
<1>6. PICK m \in Nat, b \in 0..4 : 8 * n = 5 * m + b /\ Len(acc.out) = m /\ bits = b + 8
  <2>1. 8 * n = 5 * ((8 * n) \div 5) + ((8 * n) % 5) /\ (8 * n) \div 5 \in Nat
    OBVIOUS
  <2> QED
    BY <1>3, <2>1 DEF Encoding, Encoded
<1>7. /\ Letters(value, bits) \in Seq(0..31) /\ Len(Letters(value, bits)) = bits \div 5
      /\ \A i \in 1..(bits \div 5) :
           bits - 5 * i \in 0..7
             /\ Letters(value, bits)[i] = Shr(value, bits - 5 * i) % 32
  BY LettersType
<1>8. /\ Len(new.out) = m + (bits \div 5)
      /\ \A k \in 1..(m + (bits \div 5)) :
           new.out[k] = IF k <= m THEN acc.out[k] ELSE Letters(value, bits)[k - m]
  <2>1. PICK s \in Seq(0..31), t \in Seq(0..31) :
               s = acc.out /\ t = Letters(value, bits)
    BY <1>7 DEF Encoding
  <2>2. /\ Len(s \o t) = Len(s) + Len(t)
        /\ \A k \in 1..(Len(s) + Len(t)) :
             (s \o t)[k] = IF k <= Len(s) THEN s[k] ELSE t[k - Len(s)]
    BY ConcatProperties
  <2>3. new.out = s \o t /\ Len(s) = m /\ Len(t) = bits \div 5
    BY <1>5, <1>6, <1>7, <2>1
  <2> QED
    BY <2>1, <2>2, <2>3
<1>9. (8 * (n + 1)) % 5 = bits % 5 /\ (8 * (n + 1)) \div 5 = m + (bits \div 5)
  BY <1>6
<1>10. ASSUME NEW k \in 1..(m + (bits \div 5))
       PROVE  new.out[k] = Base32(bytes)[k]
  <2>1. CASE k <= m
    BY <1>6, <1>8, <2>1 DEF Encoded
  <2>2. CASE k > m
    <3>1. PICK i \in 1..(bits \div 5) : k = m + i
      <4>1. k - m \in 1..(bits \div 5) /\ k = m + (k - m)
        BY <2>2
      <4> QED
        BY <4>1
    <3>2. PICK s \in 0..7 : s = bits - 5 * i
      BY <1>7
    <3>3. new.out[k] = Shr(value, s) % 32
      <4>1. ~(k <= m) /\ k - m = i
        BY <3>1
      <4> QED
        BY <1>7, <1>8, <3>2, <4>1
    <3>4. PICK e \in Nat : e = 8 * (n + 1)
      OBVIOUS
    <3>5. e >= s + 5
      BY <1>6, <3>1, <3>2, <3>4
    <3>6. Shr(value, s) % 32 = 16 * Bit(bytes, e - s - 5) + 8 * Bit(bytes, e - s - 4)
            + 4 * Bit(bytes, e - s - 3) + 2 * Bit(bytes, e - s - 2)
              + Bit(bytes, e - s - 1)
      <4>1. Reads(value, bytes, e, 12)
        BY <1>2, <3>4
      <4> QED
        BY <3>5, <4>1, LetterRead
    <3>7. /\ e - s - 5 = 5 * (k - 1) + 0 /\ e - s - 4 = 5 * (k - 1) + 1
          /\ e - s - 3 = 5 * (k - 1) + 2 /\ e - s - 2 = 5 * (k - 1) + 3
          /\ e - s - 1 = 5 * (k - 1) + 4
      BY <1>6, <3>1, <3>2, <3>4
    <3>8. k \in 1..((8 * Len(bytes) + 4) \div 5)
      BY <1>6, <1>9
    <3> QED
      BY <3>3, <3>6, <3>7, <3>8, Base32Letters
  <2> QED
    BY <2>1, <2>2
<1> QED
  BY <1>2, <1>4, <1>5, <1>8, <1>9, <1>10 DEF Encoded

\* Every secret is encoded as RFC 4648 says.
LEMMA EncodeHolds ==
  ASSUME NEW bytes \in Seq(0..255)
  PROVE  EncodeBase32(bytes) = Base32(bytes)
<1>1. PICK f \in [0..Len(bytes) -> Encoding] :
        /\ f[0] = Start
        /\ EncodeBase32(bytes) = IF f[Len(bytes)].bits = 0 THEN f[Len(bytes)].out
                                 ELSE Append(f[Len(bytes)].out,
                                             Shl(f[Len(bytes)].value,
                                               5 - f[Len(bytes)].bits) % 32)
        /\ \A k \in 1..Len(bytes) : f[k] = EncodeByte(f[k - 1], bytes[k])
  BY EncodeSteps
<1> DEFINE T == {n \in Nat : n <= Len(bytes) => Encoded(f[n], bytes, n)}
<1>2. 0 \in T
  <2>1. Reads(Start.value, bytes, 0, 12)
    BY DEF Reads
  <2>2. Start.bits = 0 /\ Len(Start.out) = 0
    BY DEF Start
  <2>3. (8 * 0) % 5 = 0 /\ (8 * 0) \div 5 = 0 /\ 8 * 0 = 0
    OBVIOUS
  <2> QED
    BY <1>1, <2>1, <2>2, <2>3 DEF Encoded
<1>3. ASSUME NEW n \in Nat, n \in T PROVE n + 1 \in T
  <2> SUFFICES ASSUME n + 1 <= Len(bytes) PROVE Encoded(f[n + 1], bytes, n + 1)
    OBVIOUS
  <2>1. n < Len(bytes) /\ n + 1 \in 1..Len(bytes) /\ (n + 1) - 1 = n
          /\ n \in 0..Len(bytes)
    OBVIOUS
  <2>2. PICK acc \in Encoding : acc = f[n]
    BY <2>1
  <2>3. Encoded(acc, bytes, n)
    BY <1>3, <2>1, <2>2
  <2>4. f[n + 1] = EncodeByte(acc, bytes[n + 1])
    BY <1>1, <2>1, <2>2
  <2> QED
    BY <2>1, <2>3, <2>4, EncodeStep
<1>4. Encoded(f[Len(bytes)], bytes, Len(bytes))
  <2>1. \A n \in Nat : n \in T
    <3> HIDE DEF T
    <3> QED
      BY <1>2, <1>3, Induction
  <2> QED
    BY <2>1
<1>5. PICK acc \in Encoding : acc = f[Len(bytes)]
  BY Len(bytes) \in 0..Len(bytes)
<1>6. PICK n \in Nat, m \in Nat, b \in 0..4 :
        n = Len(bytes) /\ 8 * n = 5 * m + b /\ Len(acc.out) = m /\ acc.bits = b
  <2>1. PICK n \in Nat : n = Len(bytes)
    OBVIOUS
  <2>2. 8 * n = 5 * ((8 * n) \div 5) + ((8 * n) % 5) /\ (8 * n) \div 5 \in Nat
        /\ (8 * n) % 5 \in 0..4
    OBVIOUS
  <2> QED
    BY <1>4, <1>5, <2>1, <2>2 DEF Encoded
<1>7. /\ Base32(bytes) \in Seq(0..31) /\ Len(Base32(bytes)) = (8 * n + 4) \div 5
      /\ acc.out \in Seq(0..31)
      /\ \A k \in 1..m : acc.out[k] = Base32(bytes)[k]
  BY <1>4, <1>5, <1>6, Base32Letters DEF Encoded, Encoding
<1>8. CASE b = 0
  <2>1. (8 * n + 4) \div 5 = m
    BY <1>6, <1>8
  <2>2. EncodeBase32(bytes) = acc.out
    BY <1>1, <1>5, <1>6, <1>8
  <2> QED
    BY <1>6, <1>7, <2>1, <2>2, SeqEqual
<1>9. CASE b # 0
  <2>1. (8 * n + 4) \div 5 = m + 1
    BY <1>6, <1>9
  <2>2. PICK v \in Nat, d \in 1..4 : v = acc.value /\ d = 5 - b
    BY <1>9 DEF Encoding
  <2>3. PICK last : last = Shl(v, d) % 32
    OBVIOUS
  <2>4. EncodeBase32(bytes) = Append(acc.out, last)
    BY <1>1, <1>5, <1>6, <1>9, <2>2, <2>3
  <2>5. PICK w \in Nat : w = Shl(v, d) + 0 /\ Reads(w, bytes, 8 * n + d, 12)
    <3>1. Reads(v, bytes, 8 * n, 12 - d)
      <4>1. 12 - d \in Nat /\ 12 - d <= 12
        OBVIOUS
      <4>2. Reads(v, bytes, 8 * n, 12)
        BY <1>4, <1>5, <1>6, <2>2 DEF Encoded
      <4> QED
        BY <4>1, <4>2, ReadsLess
    <3>2. Reads(0, bytes, 8 * n + d, d)
      <4> SUFFICES ASSUME NEW t \in 0..(d - 1)
                   PROVE  Shr(0, t) % 2 = Bit(bytes, 8 * n + d - 1 - t)
        BY DEF Reads
      <4>1. ~(8 * n + d - 1 - t < 8 * Len(bytes))
        BY <1>6
      <4>2. PICK p \in Nat \ {0} : p = Power2[t]
        BY t \in 0..12, PowerType
      <4>3. (0 \div p) % 2 = 0
        OBVIOUS
      <4> QED
        BY <4>1, <4>2, <4>3 DEF Bit, Shr
    <3>3. PICK i \in Nat : i = 8 * n
      OBVIOUS
    <3>4. 0 < Power2[d] /\ d \in 1..12
      <4>1. d \in 0..12 /\ d \in 1..12
        OBVIOUS
      <4>2. PICK p \in Nat \ {0} : p = Power2[d]
        BY <4>1, PowerType
      <4> QED
        BY <4>1, <4>2
    <3>5. Shl(v, d) + 0 \in Nat /\ Reads(Shl(v, d) + 0, bytes, i + d, 12)
      BY <3>1, <3>2, <3>3, <3>4, ReadsOn
    <3> QED
      BY <3>3, <3>5
  <2>6. w = Shl(v, d) /\ Shr(w, 0) = w
    <3>1. Shl(v, d) \in Nat
      <4>1. PICK p \in Nat \ {0} : p = Power2[d]
        BY d \in 0..12, PowerType
      <4>2. PICK x \in Nat, y \in Nat \ {0} : x = v * p /\ y = Words
        BY FactorConstants
      <4>3. x % y \in Nat
        OBVIOUS
      <4> QED
        BY <4>1, <4>2, <4>3 DEF Shl
    <3> QED
      BY <2>5, <3>1, Powers DEF Shr
  <2>7. PICK e \in Nat : e = 8 * n + d /\ e = 5 * (m + 1)
    BY <1>6, <2>2
  <2>8. Shr(w, 0) % 32 = 16 * Bit(bytes, e - 0 - 5) + 8 * Bit(bytes, e - 0 - 4)
          + 4 * Bit(bytes, e - 0 - 3) + 2 * Bit(bytes, e - 0 - 2)
            + Bit(bytes, e - 0 - 1)
    <3>1. Reads(w, bytes, e, 12) /\ e >= 0 + 5 /\ 0 \in 0..7
      BY <2>5, <2>7
    <3> QED
      BY <3>1, LetterRead
  <2>9. /\ e - 0 - 5 = 5 * ((m + 1) - 1) + 0 /\ e - 0 - 4 = 5 * ((m + 1) - 1) + 1
        /\ e - 0 - 3 = 5 * ((m + 1) - 1) + 2 /\ e - 0 - 2 = 5 * ((m + 1) - 1) + 3
        /\ e - 0 - 1 = 5 * ((m + 1) - 1) + 4
    BY <2>7
  <2>10. m + 1 \in 1..((8 * Len(bytes) + 4) \div 5)
    BY <1>6, <2>1
  <2>11. last = Base32(bytes)[m + 1]
    BY <2>3, <2>6, <2>8, <2>9, <2>10, Base32Letters
  <2>12. last \in 0..31
    BY <1>7, <1>6, <2>10, <2>11, ElementOfSeq
  <2>13. /\ Append(acc.out, last) \in Seq(0..31) /\ Len(Append(acc.out, last)) = m + 1
         /\ \A k \in 1..(m + 1) : Append(acc.out, last)[k] = Base32(bytes)[k]
    <3>1. PICK s \in Seq(0..31) : s = acc.out /\ Len(s) = m
      BY <1>6, <1>7
    <3>2. /\ Append(s, last) \in Seq(0..31) /\ Len(Append(s, last)) = m + 1
          /\ \A k \in 1..m : Append(s, last)[k] = s[k]
          /\ Append(s, last)[m + 1] = last
      BY <2>12, <3>1, AppendProperties
    <3>3. \A k \in 1..(m + 1) : k = m + 1 \/ k \in 1..m
      OBVIOUS
    <3> QED
      BY <1>7, <2>11, <3>1, <3>2, <3>3
  <2> QED
    BY <1>6, <1>7, <2>1, <2>4, <2>13, SeqEqual
<1> QED
  BY <1>8, <1>9

\* A letter is five bits of the bytes, a byte eight of its own.
LEMMA LetterIsRead ==
  ASSUME NEW bytes \in Seq(0..255), NEW k \in Nat, k < Len(Base32(bytes))
  PROVE  Reads(Base32(bytes)[k + 1], bytes, 5 * k + 5, 5)
<1>1. PICK e \in Nat, w \in Nat : e = 5 * k + 5 /\ w = 5
  OBVIOUS
<1>2. PICK b0 \in 0..1, b1 \in 0..1, b2 \in 0..1, b3 \in 0..1, b4 \in 0..1 :
        /\ b0 = Bit(bytes, e - 1 - 4) /\ b1 = Bit(bytes, e - 1 - 3)
        /\ b2 = Bit(bytes, e - 1 - 2) /\ b3 = Bit(bytes, e - 1 - 1)
        /\ b4 = Bit(bytes, e - 1 - 0)
  <2>1. \A t \in 0..4 : e - 1 - t \in Nat
    BY <1>1
  <2>2. \A t \in 0..4 : Bit(bytes, e - 1 - t) \in 0..1
    BY <2>1, BitType
  <2> QED
    BY <2>2
<1>3. PICK x : x = Base32(bytes)[k + 1]
  OBVIOUS
<1>4. x = 16 * b0 + 8 * b1 + 4 * b2 + 2 * b3 + b4
  <2>1. k + 1 \in 1..((8 * Len(bytes) + 4) \div 5)
    BY Base32Letters
  <2>2. /\ 5 * ((k + 1) - 1) + 0 = e - 1 - 4 /\ 5 * ((k + 1) - 1) + 1 = e - 1 - 3
        /\ 5 * ((k + 1) - 1) + 2 = e - 1 - 2 /\ 5 * ((k + 1) - 1) + 3 = e - 1 - 1
        /\ 5 * ((k + 1) - 1) + 4 = e - 1 - 0
    BY <1>1
  <2> QED
    BY <1>2, <1>3, <2>1, <2>2, Base32Letters
<1>5. /\ (x \div 1) % 2 = b4 /\ (x \div 2) % 2 = b3 /\ (x \div 4) % 2 = b2
      /\ (x \div 8) % 2 = b1 /\ (x \div 16) % 2 = b0
  <2>1. PICK y \in Nat : y = 16 * b0 + 8 * b1 + 4 * b2 + 2 * b3 + b4
    OBVIOUS
  <2>2. /\ (y \div 1) % 2 = b4 /\ (y \div 2) % 2 = b3 /\ (y \div 4) % 2 = b2
        /\ (y \div 8) % 2 = b1 /\ (y \div 16) % 2 = b0
    <3>1. y \div 1 = y /\ y \div 2 = 8 * b0 + 4 * b1 + 2 * b2 + b3
          /\ y \div 4 = 4 * b0 + 2 * b1 + b2 /\ y \div 8 = 2 * b0 + b1 /\ y \div 16 = b0
      BY <2>1
    <3> QED
      BY <2>1, <3>1
  <2> QED
    BY ONLY <1>4, <2>1, <2>2
<1>6. ASSUME NEW t \in 0..(w - 1) PROVE Shr(x, t) % 2 = Bit(bytes, e - 1 - t)
  <2>1. t = 0 \/ t = 1 \/ t = 2 \/ t = 3 \/ t = 4
    BY <1>1
  <2>2. /\ Shr(x, 0) % 2 = b4 /\ Shr(x, 1) % 2 = b3 /\ Shr(x, 2) % 2 = b2
        /\ Shr(x, 3) % 2 = b1 /\ Shr(x, 4) % 2 = b0
    BY ONLY <1>5, Powers DEF Shr
  <2> QED
    BY <1>2, <2>1, <2>2
<1>7. Reads(x, bytes, e, w)
  BY <1>6 DEF Reads
<1> QED
  BY <1>1, <1>3, <1>7

LEMMA SmallByte ==
  ASSUME NEW x \in 0..255
  PROVE  x % 256 = x /\ x % 2 = (x \div 1) % 2
OBVIOUS

LEMMA ByteSum ==
  ASSUME NEW x \in 0..255
  PROVE  x = 128 * ((x \div 128) % 2) + 64 * ((x \div 64) % 2) + 32 * ((x \div 32) % 2)
               + (16 * ((x \div 16) % 2) + 8 * ((x \div 8) % 2) + 4 * ((x \div 4) % 2)
                  + 2 * ((x \div 2) % 2) + ((x \div 1) % 2))
<1>1. x % 256 = x /\ x % 2 = (x \div 1) % 2 /\ x \in Nat
  BY SmallByte
<1> QED
  BY ONLY <1>1, EightBits, FiveBits

LEMMA ByteOfBits ==
  ASSUME NEW bytes \in Seq(0..255), NEW n \in Nat, n < Len(bytes),
         NEW e \in Nat, e = 8 * n + 8
  PROVE  bytes[n + 1] = 128 * Bit(bytes, e - 8) + 64 * Bit(bytes, e - 7)
           + 32 * Bit(bytes, e - 6)
           + (16 * Bit(bytes, e - 5) + 8 * Bit(bytes, e - 4)
              + 4 * Bit(bytes, e - 3) + 2 * Bit(bytes, e - 2) + Bit(bytes, e - 1))
<1>1. PICK x \in 0..255 : x = bytes[n + 1]
  BY n + 1 \in 1..Len(bytes), ElementOfSeq
<1>2. \A t \in 0..7 : Bit(bytes, 8 * (n + 1) - 1 - t) = Shr(x, t) % 2
  BY <1>1, BitOfByte
<1>3. /\ e - 8 = 8 * (n + 1) - 1 - 7 /\ e - 7 = 8 * (n + 1) - 1 - 6
      /\ e - 6 = 8 * (n + 1) - 1 - 5 /\ e - 5 = 8 * (n + 1) - 1 - 4
      /\ e - 4 = 8 * (n + 1) - 1 - 3 /\ e - 3 = 8 * (n + 1) - 1 - 2
      /\ e - 2 = 8 * (n + 1) - 1 - 1 /\ e - 1 = 8 * (n + 1) - 1 - 0
  OBVIOUS
<1>4. /\ Bit(bytes, e - 8) = (x \div 128) % 2 /\ Bit(bytes, e - 7) = (x \div 64) % 2
      /\ Bit(bytes, e - 6) = (x \div 32) % 2 /\ Bit(bytes, e - 5) = (x \div 16) % 2
      /\ Bit(bytes, e - 4) = (x \div 8) % 2 /\ Bit(bytes, e - 3) = (x \div 4) % 2
      /\ Bit(bytes, e - 2) = (x \div 2) % 2 /\ Bit(bytes, e - 1) = (x \div 1) % 2
  <2>1. /\ Shr(x, 0) = x \div 1 /\ Shr(x, 1) = x \div 2 /\ Shr(x, 2) = x \div 4
        /\ Shr(x, 3) = x \div 8 /\ Shr(x, 4) = x \div 16 /\ Shr(x, 5) = x \div 32
        /\ Shr(x, 6) = x \div 64 /\ Shr(x, 7) = x \div 128
    BY ONLY Powers DEF Shr
  <2>2. /\ Bit(bytes, e - 8) = Shr(x, 7) % 2 /\ Bit(bytes, e - 7) = Shr(x, 6) % 2
        /\ Bit(bytes, e - 6) = Shr(x, 5) % 2 /\ Bit(bytes, e - 5) = Shr(x, 4) % 2
        /\ Bit(bytes, e - 4) = Shr(x, 3) % 2 /\ Bit(bytes, e - 3) = Shr(x, 2) % 2
        /\ Bit(bytes, e - 2) = Shr(x, 1) % 2 /\ Bit(bytes, e - 1) = Shr(x, 0) % 2
    BY <1>2, <1>3
  <2> QED
    BY ONLY <2>1, <2>2
<1> QED
  BY ONLY <1>1, <1>4, ByteSum

LEMMA ByteAgain ==
  ASSUME NEW bytes \in Seq(0..255), NEW m \in Nat, m < Len(bytes),
         NEW v \in Nat, NEW i \in Nat, Reads(v, bytes, i, 12), NEW s \in 0..4,
         i >= s + 8, i - s = 8 * m + 8
  PROVE  Shr(v, s) % 256 = bytes[m + 1]
<1>1. Shr(v, s) % 256 = 128 * Bit(bytes, i - s - 8) + 64 * Bit(bytes, i - s - 7)
        + 32 * Bit(bytes, i - s - 6)
        + (16 * Bit(bytes, i - s - 5) + 8 * Bit(bytes, i - s - 4)
           + 4 * Bit(bytes, i - s - 3) + 2 * Bit(bytes, i - s - 2)
             + Bit(bytes, i - s - 1))
  BY ONLY ByteRead, v \in Nat, i \in Nat, s \in 0..4, i >= s + 8, Reads(v, bytes, i, 12)
<1>2. PICK d \in Nat : d = i - s /\ d = 8 * m + 8
  OBVIOUS
<1> QED
  BY <1>1, <1>2, ByteOfBits

LEMMA EightParts ==
  ASSUME NEW x, NEW m \in Nat, NEW b \in 0..7, x = 8 * m + b
  PROVE  x % 8 = b /\ x \div 8 = m
OBVIOUS

LEMMA FiveParts ==
  ASSUME NEW n \in Nat, NEW m \in Nat, m = (8 * n + 4) \div 5
  PROVE  (5 * m) \div 8 = n /\ 5 * m <= 8 * n + 4
<1>1. PICK x \in Nat, r \in 0..4 : 8 * n + 4 = 5 * x + r /\ x = (8 * n + 4) \div 5
  <2>1. PICK y \in Nat : y = 8 * n + 4
    OBVIOUS
  <2>2. y = 5 * (y \div 5) + (y % 5) /\ y \div 5 \in Nat /\ y % 5 \in 0..4
    OBVIOUS
  <2> QED
    BY <2>1, <2>2
<1>2. 5 * m = 8 * n + (4 - r) /\ 4 - r \in 0..7
  BY <1>1
<1> QED
  BY <1>2, EightParts

\* The accumulator after k letters.
Decoded(acc, bytes, k) ==
  /\ acc.bits = (5 * k) % 8 /\ Len(acc.out) = (5 * k) \div 8
  /\ \A q \in 1..Len(acc.out) : acc.out[q] = bytes[q]
  /\ Reads(acc.value, bytes, 5 * k, 12)

LEMMA DecodeStep ==
  ASSUME NEW bytes \in Seq(0..255), NEW k \in Nat, k < Len(Base32(bytes)),
         NEW acc \in Decoding, Decoded(acc, bytes, k)
  PROVE  Decoded(DecodeLetter(acc, Base32(bytes)[k + 1]), bytes, k + 1)
<1>1. PICK letter \in 0..31 : letter = Base32(bytes)[k + 1]
  <2>1. k + 1 \in 1..Len(Base32(bytes)) /\ Base32(bytes) \in Seq(0..31)
    BY Base32Letters
  <2> QED
    BY <2>1, ElementOfSeq
<1>2. PICK e \in Nat : e = 5 * (k + 1)
  OBVIOUS
<1>3. PICK value \in Nat : /\ value = Shl(acc.value, 5) + letter
                           /\ Reads(value, bytes, e, 12)
  <2>1. PICK v \in Nat : v = acc.value
    BY DEF Decoding
  <2>2. PICK i \in Nat : i = 5 * k /\ i + 5 = e /\ i + 5 = 5 * k + 5
    BY <1>2
  <2>3. Reads(v, bytes, i, 12 - 5)
    <3>1. Reads(v, bytes, i, 12) /\ 12 - 5 \in Nat /\ 12 - 5 <= 12 /\ 12 \in Nat
      BY <2>1, <2>2 DEF Decoded
    <3> QED
      BY <3>1, ReadsLess
  <2>4. Reads(letter, bytes, i + 5, 5)
    BY <1>1, <2>2, LetterIsRead
  <2>5. letter \in Nat /\ letter < Power2[5] /\ 5 \in 1..12
    BY Powers
  <2>6. Shl(v, 5) + letter \in Nat /\ Reads(Shl(v, 5) + letter, bytes, i + 5, 12)
    BY <2>3, <2>4, <2>5, ReadsOn
  <2> QED
    BY <2>1, <2>2, <2>6
<1>4. PICK m \in Nat, b \in 0..7 :
        5 * k = 8 * m + b /\ Len(acc.out) = m /\ acc.bits = b
  <2>1. 5 * k = 8 * ((5 * k) \div 8) + ((5 * k) % 8) /\ (5 * k) \div 8 \in Nat
        /\ (5 * k) % 8 \in 0..7
    OBVIOUS
  <2> QED
    BY <2>1 DEF Decoded
<1>5. CASE b + 5 < 8
  <2>1. DecodeLetter(acc, letter) = [acc EXCEPT !.bits = b + 5, !.value = value]
    BY <1>3, <1>4, <1>5 DEF DecodeLetter
  <2>2. PICK new : new = DecodeLetter(acc, letter)
    OBVIOUS
  <2>3. new.bits = b + 5 /\ new.value = value /\ new.out = acc.out
    BY <2>1, <2>2 DEF Decoding
  <2>4. (5 * (k + 1)) % 8 = b + 5 /\ (5 * (k + 1)) \div 8 = m
    <3>1. b + 5 \in 0..7 /\ 5 * (k + 1) = 8 * m + (b + 5)
      BY <1>4, <1>5
    <3> QED
      BY <3>1, EightParts
  <2>5. Decoded(new, bytes, k + 1)
    BY <1>2, <1>3, <1>4, <2>3, <2>4 DEF Decoded
  <2> QED
    BY <1>1, <2>2, <2>5
<1>6. CASE b + 5 >= 8
  <2>1. PICK s \in 0..4 : s = b + 5 - 8
    BY <1>6
  <2>2. PICK byte : byte = Shr(value, s) % 256
    OBVIOUS
  <2>3. DecodeLetter(acc, letter)
          = [bits |-> s, value |-> value, out |-> Append(acc.out, byte)]
    <3>1. PICK bits \in 5..12 : bits = acc.bits + 5 /\ bits = b + 5
      BY <1>4
    <3>2. ~(bits < 8) /\ bits - 8 = s
      BY <1>6, <2>1, <3>1
    <3>3. DecodeLetter(acc, letter) =
            [bits |-> bits - 8, value |-> value,
             out |-> Append(acc.out, Shr(value, bits - 8) % 256)]
      BY <1>3, <3>1, <3>2 DEF DecodeLetter
    <3> QED
      BY <2>2, <3>2, <3>3
  <2>4. e - s = 8 * m + 8 /\ e >= s + 8 /\ m < Len(bytes)
    <3>1. e - s = 8 * m + 8
      BY <1>2, <1>4, <2>1
    <3>2. PICK n \in Nat, l \in Nat :
            n = Len(bytes) /\ l = Len(Base32(bytes)) /\ l = (8 * n + 4) \div 5
      BY Base32Letters
    <3>3. 5 * l <= 8 * n + 4
      BY <3>2, FiveParts
    <3>4. e <= 8 * n + 4
      BY <1>2, <3>2, <3>3
    <3>5. m < n /\ e >= s + 8
      BY <3>1, <3>4
    <3> QED
      BY <3>1, <3>2, <3>5
  <2>5. byte = bytes[m + 1]
    BY <1>3, <2>2, <2>4, ByteAgain
  <2>6. byte \in 0..255
    BY <2>4, <2>5, m + 1 \in 1..Len(bytes), ElementOfSeq
  <2>7. PICK new : new = DecodeLetter(acc, letter)
    OBVIOUS
  <2>8. new.bits = s /\ new.value = value /\ new.out = Append(acc.out, byte)
    BY <2>3, <2>7
  <2>9. /\ Len(new.out) = m + 1 /\ \A q \in 1..m : new.out[q] = acc.out[q]
        /\ new.out[m + 1] = byte
    <3>1. PICK t \in Seq(0..255) : t = acc.out /\ Len(t) = m
      BY <1>4 DEF Decoding
    <3> QED
      BY <2>6, <2>8, <3>1, AppendProperties
  <2>10. (5 * (k + 1)) % 8 = s /\ (5 * (k + 1)) \div 8 = m + 1
    <3>1. s \in 0..7 /\ m + 1 \in Nat /\ 5 * (k + 1) = 8 * (m + 1) + s
      BY <1>4, <2>1
    <3> QED
      BY <3>1, EightParts
  <2>11. ASSUME NEW q \in 1..Len(new.out) PROVE new.out[q] = bytes[q]
    <3>1. q = m + 1 \/ q \in 1..m
      BY <2>9
    <3> QED
      BY <1>4, <2>5, <2>9, <3>1 DEF Decoded
  <2>12. Decoded(new, bytes, k + 1)
    BY <1>2, <1>3, <2>8, <2>9, <2>10, <2>11 DEF Decoded
  <2> QED
    BY <1>1, <2>7, <2>12
<1> QED
  BY <1>4, <1>5, <1>6

\* What was encoded is decoded.
LEMMA DecodeHolds ==
  ASSUME NEW bytes \in Seq(0..255)
  PROVE  DecodeBase32(Base32(bytes)) = bytes
<1>1. PICK letters \in Seq(0..31), n \in Nat, m \in Nat :
        /\ letters = Base32(bytes) /\ m = Len(letters) /\ n = Len(bytes)
        /\ m = (8 * n + 4) \div 5
  BY Base32Letters
<1>2. PICK f \in [0..Len(letters) -> Decoding] :
        /\ f[0] = Start /\ DecodeBase32(letters) = f[Len(letters)].out
        /\ \A k \in 1..Len(letters) : f[k] = DecodeLetter(f[k - 1], letters[k])
  BY DecodeSteps
<1> DEFINE T == {k \in Nat : k <= m => Decoded(f[k], bytes, k)}
<1>3. 0 \in T
  <2>1. Reads(Start.value, bytes, 0, 12)
    BY DEF Reads
  <2>2. Start.bits = 0 /\ Len(Start.out) = 0
    BY DEF Start
  <2>3. (5 * 0) % 8 = 0 /\ (5 * 0) \div 8 = 0 /\ 5 * 0 = 0
    OBVIOUS
  <2> QED
    BY <1>2, <2>1, <2>2, <2>3 DEF Decoded
<1>4. ASSUME NEW k \in Nat, k \in T PROVE k + 1 \in T
  <2> SUFFICES ASSUME k + 1 <= m PROVE Decoded(f[k + 1], bytes, k + 1)
    OBVIOUS
  <2>1. k < Len(letters) /\ k + 1 \in 1..Len(letters) /\ (k + 1) - 1 = k
          /\ k \in 0..Len(letters)
    BY <1>1
  <2>2. PICK acc \in Decoding : acc = f[k]
    BY <2>1
  <2>3. Decoded(acc, bytes, k)
    BY <1>4, <2>2
  <2>4. f[k + 1] = DecodeLetter(acc, letters[k + 1])
    BY <1>2, <2>1, <2>2
  <2> QED
    BY <1>1, <2>1, <2>3, <2>4, DecodeStep
<1>5. Decoded(f[m], bytes, m)
  <2>1. \A k \in Nat : k \in T
    <3> HIDE DEF T
    <3> QED
      BY <1>3, <1>4, Induction
  <2> QED
    BY <2>1
<1>6. PICK out \in Seq(0..255) : out = f[m].out
  <2>1. m \in 0..Len(letters)
    BY <1>1
  <2> QED
    BY <2>1 DEF Decoding
<1>7. (5 * m) \div 8 = n
  BY <1>1, FiveParts
<1>8. Len(out) = n /\ \A q \in 1..n : out[q] = bytes[q]
  BY <1>5, <1>6, <1>7 DEF Decoded
<1>9. out = bytes
  BY <1>1, <1>8, SeqEqual
<1> QED
  BY <1>1, <1>2, <1>6, <1>9

LEMMA SecretsSurviveHolds == SecretsSurvive
<1> SUFFICES ASSUME NEW bytes \in SeqOf(Bytes, MaxBytes)
             PROVE  EncodeBase32(bytes) = Base32(bytes)
                      /\ DecodeBase32(EncodeBase32(bytes)) = bytes
  BY DEF SecretsSurvive
<1>1. bytes \in Seq(0..255)
  <2>1. PICK m \in 0..MaxBytes : bytes \in [1..m -> Bytes]
    BY DEF SeqOf
  <2>2. m \in Nat
    BY <2>1, FactorConstants
  <2>3. bytes \in [1..m -> 0..255]
    <3>1. \A n \in 1..m : bytes[n] \in Bytes /\ Bytes \subseteq 0..255
      BY <2>1, FactorConstants
    <3> QED
      BY <2>1, <3>1
  <2> QED
    BY <2>2, <2>3
<1> QED
  BY <1>1, EncodeHolds, DecodeHolds

-----------------------------------------------------------------------------
(* The second factor: recovery codes *)

\* u is s, followed by t.
Together(u, s, t) == u = s \o t

Keep(x, char, c) == IF char = c THEN x ELSE Append(x, char)

\* f is what is kept of s without c, character by character.
Keeps(f, C, s, c) ==
  /\ f \in [0..Len(s) -> Seq(C \ {c})] /\ f[0] = <<>>
  /\ \A k \in 1..Len(s) : f[k] = Keep(f[k - 1], s[k], c)

LEMMA WithoutKeeps ==
  ASSUME NEW C, NEW s \in Seq(C), NEW c
  PROVE  \E f : Keeps(f, C, s, c) /\ Without(s, c) = f[Len(s)]
<1> DEFINE F(g) == [k \in 0..Len(s) |-> IF k = 0 THEN <<>> ELSE Keep(g[k - 1], s[k], c)]
           acc == CHOOSE g : g = F(g)
<1>1. Len(s) \in Nat /\ \A k \in 1..Len(s) : s[k] \in C
  BY ElementOfSeq
<1>2. \A k \in 1..Len(s), x \in Seq(C \ {c}) : Keep(x, s[k], c) \in Seq(C \ {c})
  <2> SUFFICES ASSUME NEW k \in 1..Len(s), NEW x \in Seq(C \ {c}), s[k] # c
               PROVE  Append(x, s[k]) \in Seq(C \ {c})
    BY DEF Keep
  <2>1. s[k] \in C \ {c}
    BY <1>1
  <2> QED
    BY <2>1, AppendProperties
<1>3. <<>> \in Seq(C \ {c})
  OBVIOUS
<1>4. \E g : g = F(g)
  <2>1. PICK step :
               step = [k \in 1..Len(s) |-> [x \in Seq(C \ {c}) |-> Keep(x, s[k], c)]]
    OBVIOUS
  <2>2. \A k \in 1..Len(s), x \in Seq(C \ {c}) :
          step[k][x] \in Seq(C \ {c}) /\ step[k][x] = Keep(x, s[k], c)
    BY <1>2, <2>1
  <2>3. \E g \in [0..Len(s) -> Seq(C \ {c})] :
          g[0] = <<>> /\ \A k \in 1..Len(s) : g[k] = step[k][g[k - 1]]
    <3>1. PICK n, S, b : n = Len(s) /\ S = Seq(C \ {c}) /\ b = <<>>
      OBVIOUS
    <3>2. n \in Nat /\ b \in S /\ step \in [1..n -> [S -> S]]
      BY <1>1, <1>2, <1>3, <2>1, <3>1
    <3>3. PICK g : Steps(g, n, S, b, step)
      BY <3>2, Recursion
    <3> QED
      BY <3>1, <3>3 DEF Steps
  <2>4. PICK g \in [0..Len(s) -> Seq(C \ {c})] :
          g[0] = <<>> /\ \A k \in 1..Len(s) : g[k] = step[k][g[k - 1]]
    BY <2>3
  <2>5. \A k \in 1..Len(s) : g[k] = Keep(g[k - 1], s[k], c)
    <3> SUFFICES ASSUME NEW k \in 1..Len(s) PROVE g[k] = Keep(g[k - 1], s[k], c)
      OBVIOUS
    <3>1. k - 1 \in 0..Len(s)
      BY <1>1
    <3>2. g[k - 1] \in Seq(C \ {c})
      BY <3>1
    <3> QED
      BY <2>2, <2>4, <3>2
  <2>6. g = F(g)
    <3>1. \A k \in 0..Len(s) : k # 0 => k \in 1..Len(s)
      BY <1>1
    <3>2. \A k \in 0..Len(s) : g[k] = IF k = 0 THEN <<>> ELSE Keep(g[k - 1], s[k], c)
      BY <2>4, <2>5, <3>1
    <3>3. g = [k \in 0..Len(s) |-> g[k]]
      OBVIOUS
    <3> QED
      BY <3>2, <3>3
  <2> QED
    BY <2>6
<1>5. acc = F(acc)
  <2> HIDE DEF F
  <2> QED
    BY <1>4
<1>6. Without(s, c) = acc[Len(s)]
  BY DEF Without, Keep
<1> HIDE DEF acc
<1>7. acc[0] = <<>> /\ \A k \in 1..Len(s) : acc[k] = Keep(acc[k - 1], s[k], c)
  BY <1>1, <1>5
<1>8. acc = [k \in 0..Len(s) |-> acc[k]]
  BY <1>5
<1>9. \A k \in 0..Len(s) : acc[k] \in Seq(C \ {c})
  <2> DEFINE T == {k \in Nat : k \in 0..Len(s) => acc[k] \in Seq(C \ {c})}
  <2>1. 0 \in T
    BY <1>3, <1>7
  <2>2. ASSUME NEW k \in Nat, k \in T PROVE k + 1 \in T
    <3> SUFFICES ASSUME k + 1 \in 0..Len(s) PROVE acc[k + 1] \in Seq(C \ {c})
      OBVIOUS
    <3>1. k + 1 \in 1..Len(s) /\ acc[k] \in Seq(C \ {c}) /\ (k + 1) - 1 = k
      BY <2>2, <1>1
    <3> QED
      BY <1>2, <1>7, <3>1
  <2>3. \A k \in Nat : k \in T
    <3> HIDE DEF T
    <3> QED
      BY <2>1, <2>2, Induction
  <2> QED
    BY <1>1, <2>3
<1>10. Keeps(acc, C, s, c)
  BY <1>7, <1>8, <1>9 DEF Keeps
<1> QED
  BY <1>6, <1>10

LEMMA WithoutType ==
  ASSUME NEW C, NEW s \in Seq(C), NEW c
  PROVE  Without(s, c) \in Seq(C \ {c})
<1>1. PICK f : Keeps(f, C, s, c) /\ Without(s, c) = f[Len(s)]
  BY WithoutKeeps
<1>2. Len(s) \in 0..Len(s)
  OBVIOUS
<1> QED
  BY <1>1, <1>2 DEF Keeps

LEMMA WithoutNone ==
  ASSUME NEW C, NEW s \in Seq(C), NEW c, c \notin C
  PROVE  Without(s, c) = s
<1>1. PICK f : Keeps(f, C, s, c) /\ Without(s, c) = f[Len(s)]
  BY WithoutKeeps
<1>2. Len(s) \in Nat /\ \A k \in 1..Len(s) : s[k] \in C
  BY ElementOfSeq
<1> DEFINE Same(k) == Len(f[k]) = k /\ \A q \in 1..k : f[k][q] = s[q]
           T == {k \in Nat : k <= Len(s) => Same(k)}
<1>3. 0 \in T
  BY <1>1 DEF Keeps
<1>4. ASSUME NEW k \in Nat, k \in T PROVE k + 1 \in T
  <2> SUFFICES ASSUME k + 1 <= Len(s) PROVE Same(k + 1)
    OBVIOUS
  <2>1. k + 1 \in 1..Len(s) /\ (k + 1) - 1 = k /\ k \in 0..Len(s)
    BY <1>2
  <2>2. PICK t \in Seq(C) : t = f[k]
    <3>1. f[k] \in Seq(C \ {c})
      BY <1>1, <2>1 DEF Keeps
    <3> QED
      BY <3>1
  <2>3. Len(t) = k /\ \A q \in 1..k : t[q] = s[q]
    BY <1>4, <1>2, <2>1, <2>2
  <2>4. f[k + 1] = Append(t, s[k + 1]) /\ s[k + 1] \in C
    <3>1. f[k + 1] = Keep(t, s[k + 1], c) /\ s[k + 1] \in C
      BY <1>1, <1>2, <2>1, <2>2 DEF Keeps
    <3> QED
      BY <3>1 DEF Keep
  <2>5. /\ Len(Append(t, s[k + 1])) = k + 1
        /\ \A q \in 1..k : Append(t, s[k + 1])[q] = t[q]
        /\ Append(t, s[k + 1])[k + 1] = s[k + 1]
    BY <2>3, <2>4, AppendProperties
  <2>6. \A q \in 1..(k + 1) : q = k + 1 \/ q \in 1..k
    OBVIOUS
  <2> QED
    BY <2>3, <2>4, <2>5, <2>6
<1>5. \A k \in Nat : k \in T
  <2> HIDE DEF T
  <2> QED
    BY <1>3, <1>4, Induction
<1>6. PICK t \in Seq(C) : t = f[Len(s)]
  <2>1. f[Len(s)] \in Seq(C \ {c})
    BY <1>1, <1>2 DEF Keeps
  <2> QED
    BY <2>1
<1>7. Len(t) = Len(s) /\ \A q \in 1..Len(s) : t[q] = s[q]
  BY <1>2, <1>5, <1>6
<1> QED
  BY <1>1, <1>6, <1>7, SeqEqual

LEMMA WithoutOne ==
  ASSUME NEW c
  PROVE  Without(<<c>>, c) = <<>>
<1>1. <<c>> \in Seq({c}) /\ Len(<<c>>) = 1 /\ <<c>>[1] = c
  OBVIOUS
<1>2. PICK s \in Seq({c}) : s = <<c>> /\ Len(s) = 1 /\ s[1] = c
  BY <1>1
<1>3. PICK f : Keeps(f, {c}, s, c) /\ Without(s, c) = f[Len(s)]
  BY WithoutKeeps
<1>4. f[1] = Keep(f[0], c, c) /\ f[0] = <<>>
  <2>1. 1 \in 1..Len(s) /\ 1 - 1 = 0
    BY <1>2
  <2> QED
    BY <1>2, <1>3, <2>1 DEF Keeps
<1> QED
  BY <1>2, <1>3, <1>4 DEF Keep

LEMMA AppendOfConcat ==
  ASSUME NEW C, NEW u \in Seq(C), NEW v \in Seq(C), NEW x \in C
  PROVE  u \o Append(v, x) = Append(u \o v, x)
<1>1. PICK l \in Seq(C), r \in Seq(C) : l = Append(u \o v, x) /\ r = u \o Append(v, x)
  <2>1. u \o v \in Seq(C) /\ Append(v, x) \in Seq(C)
    OBVIOUS
  <2>2. Append(u \o v, x) \in Seq(C) /\ u \o Append(v, x) \in Seq(C)
    BY <2>1
  <2> QED
    BY <2>2
<1>2. Len(l) = Len(r) /\ \A i \in 1..Len(l) : l[i] = r[i]
  BY <1>1
<1> QED
  BY <1>1, <1>2, SeqEqual

\* What is removed from a text is removed from its parts.
LEMMA WithoutConcat ==
  ASSUME NEW C, NEW s \in Seq(C), NEW t \in Seq(C), NEW c, NEW v, Together(v, s, t)
  PROVE  Together(Without(v, c), Without(s, c), Without(t, c))
<1>1. PICK a \in Nat, b \in Nat : a = Len(s) /\ b = Len(t)
  OBVIOUS
<1>2. PICK st \in Seq(C) : /\ st = s \o t /\ Len(st) = a + b
                           /\ \A i \in 1..(a + b) :
                                st[i] = IF i <= a THEN s[i] ELSE t[i - a]
  <2>1. /\ s \o t \in Seq(C) /\ Len(s \o t) = Len(s) + Len(t)
        /\ \A i \in 1..Len(s) + Len(t) :
             (s \o t)[i] = IF i <= Len(s) THEN s[i] ELSE t[i - Len(s)]
    BY ConcatProperties, Zenon
  <2> QED
    BY <1>1, <2>1
<1>3. PICK f : Keeps(f, C, s, c) /\ Without(s, c) = f[a]
  BY <1>1, WithoutKeeps
<1>4. PICK g : Keeps(g, C, t, c) /\ Without(t, c) = g[b]
  BY <1>1, WithoutKeeps
<1>5. PICK h : Keeps(h, C, st, c) /\ Without(st, c) = h[a + b]
  BY <1>2, WithoutKeeps
<1> DEFINE T == {k \in Nat : k <= a => h[k] = f[k]}
           R == {k \in Nat : k <= b => h[a + k] = f[a] \o g[k]}
<1>6. h[a] = f[a]
  <2>1. 0 \in T
    BY <1>3, <1>5 DEF Keeps
  <2>2. ASSUME NEW k \in Nat, k \in T PROVE k + 1 \in T
    <3> SUFFICES ASSUME k + 1 <= a PROVE h[k + 1] = f[k + 1]
      OBVIOUS
    <3>1. k + 1 \in 1..a /\ k + 1 \in 1..(a + b) /\ (k + 1) - 1 = k /\ k + 1 <= a
      OBVIOUS
    <3>2. st[k + 1] = s[k + 1] /\ h[k] = f[k]
      BY <1>2, <2>2, <3>1
    <3>3. f[k + 1] = Keep(f[k], s[k + 1], c)
      BY <1>1, <1>3, <3>1 DEF Keeps
    <3>4. h[k + 1] = Keep(h[k], st[k + 1], c)
      BY <1>2, <1>5, <3>1 DEF Keeps
    <3> QED
      BY <3>2, <3>3, <3>4
  <2>3. \A k \in Nat : k \in T
    <3> HIDE DEF T
    <3> QED
      BY <2>1, <2>2, Induction
  <2> QED
    BY <2>3
<1>7. PICK u \in Seq(C \ {c}) : u = f[a]
  BY <1>1, <1>3, a \in 0..a DEF Keeps
<1>8. h[a + b] = f[a] \o g[b]
  <2>1. 0 \in R
    <3>1. a + 0 = a /\ u \o <<>> = u
      BY ConcatEmptySeq
    <3> QED
      BY <1>4, <1>6, <1>7, <3>1 DEF Keeps
  <2>2. ASSUME NEW k \in Nat, k \in R PROVE k + 1 \in R
    <3> SUFFICES ASSUME k + 1 <= b PROVE h[a + (k + 1)] = f[a] \o g[k + 1]
      BY k + 1 \in Nat, Zenon
    <3>1. /\ k <= b /\ k + 1 \in 1..b /\ (k + 1) - 1 = k /\ k \in 0..b
          /\ a + (k + 1) \in 1..(a + b) /\ (a + (k + 1)) - 1 = a + k
          /\ (a + (k + 1)) - a = k + 1 /\ ~(a + (k + 1) <= a)
      OBVIOUS
    <3>2. PICK w \in Seq(C \ {c}), x \in C : w = g[k] /\ x = t[k + 1]
      <4>1. t[k + 1] \in C
        BY <1>1, <3>1, ElementOfSeq
      <4>2. g[k] \in Seq(C \ {c})
        BY <1>1, <1>4, <3>1 DEF Keeps
      <4> QED
        BY <4>1, <4>2
    <3>3. st[a + (k + 1)] = x /\ h[a + k] = u \o w
      <4>1. h[a + k] = f[a] \o g[k]
        BY <2>2, <3>1, Zenon
      <4>2. st[a + (k + 1)] = t[k + 1]
        BY <1>2, <3>1
      <4> QED
        BY <1>7, <3>2, <4>1, <4>2, Zenon
    <3>4. h[a + (k + 1)] = Keep(h[a + k], st[a + (k + 1)], c)
      BY <1>2, <1>5, <3>1 DEF Keeps
    <3>5. g[k + 1] = Keep(g[k], t[k + 1], c)
      BY <1>1, <1>4, <3>1 DEF Keeps
    <3>6. h[a + (k + 1)] = Keep(u \o w, x, c) /\ g[k + 1] = Keep(w, x, c)
      BY <3>2, <3>3, <3>4, <3>5
    <3>7. u \o Append(w, x) = Append(u \o w, x)
      <4>1. u \in Seq(C) /\ w \in Seq(C)
        OBVIOUS
      <4> QED
        BY <4>1, <3>2, AppendOfConcat
    <3>8. Keep(u \o w, x, c) = u \o Keep(w, x, c)
      BY <3>7 DEF Keep
    <3> QED
      BY <1>7, <3>6, <3>8
  <2>3. \A k \in Nat : k \in R
    <3> HIDE DEF R
    <3> QED
      BY <2>1, <2>2, Induction
  <2>4. b \in R
    <3> HIDE DEF R
    <3> QED
      BY <2>3
  <2>5. b <= b
    OBVIOUS
  <2> QED
    BY <2>4, <2>5, Zenon
<1>9. Without(v, c) = h[a + b]
  BY <1>2, <1>5, Zenon DEF Together
<1> QED
  BY ONLY <1>3, <1>4, <1>8, <1>9 DEF Together

\* Characters: any, those of the texts codes are made of, those of their groups.
LetterSymbols == {c.symbol : c \in Letter}
Chars ==
  [symbol : LetterSymbols \cup {"dash", "underscore", "space"}, upper : BOOLEAN]
Plain    == [symbol : LetterSymbols, upper : BOOLEAN]
Capitals == [symbol : LetterSymbols, upper : {TRUE}]

LEMMA CharFacts ==
  /\ Letter \subseteq Plain /\ Plain \subseteq Chars /\ Capitals \subseteq Plain
  /\ Dash \in Chars /\ Underscore \in Chars /\ Space \in Chars
  /\ Dash \notin Plain /\ Underscore \notin Plain /\ Space \notin Plain
  /\ Dash # Space
<1>1. ASSUME NEW c \in Letter PROVE c \in Plain
  <2>1. c = [symbol |-> c.symbol, upper |-> c.upper] /\ c.upper \in BOOLEAN
    BY TwoFactorAssumption
  <2>2. c.symbol \in LetterSymbols
    BY DEF LetterSymbols
  <2>3. [symbol |-> c.symbol, upper |-> c.upper] \in Plain
    BY <2>1, <2>2 DEF Plain
  <2> QED
    BY <2>1, <2>3
<1>2. "dash" \notin LetterSymbols /\ "underscore" \notin LetterSymbols
        /\ "space" \notin LetterSymbols
  BY TwoFactorAssumption DEF LetterSymbols
<1>3. Plain \subseteq Chars /\ Capitals \subseteq Plain
  BY DEF Plain, Chars, Capitals
<1>4. Dash \in Chars /\ Underscore \in Chars /\ Space \in Chars
  BY DEF Dash, Underscore, Space, Sign, Chars
<1>5. Dash.symbol = "dash" /\ Underscore.symbol = "underscore" /\ Space.symbol = "space"
  BY DEF Dash, Underscore, Space, Sign
<1>6. \A c \in Plain : c.symbol \in LetterSymbols
  BY DEF Plain
<1>7. Dash # Space
  BY <1>5
<1> QED
  BY <1>1, <1>2, <1>3, <1>4, <1>5, <1>6, <1>7

\* A text, character by character.
Mapped(f, s) == [i \in DOMAIN s |-> f[s[i]]]

LEMMA MappedEach ==
  ASSUME NEW A, NEW f, NEW s \in Seq(A)
  PROVE  /\ Len(Mapped(f, s)) = Len(s)
         /\ \A i \in 1..Len(s) : Mapped(f, s)[i] = f[s[i]]
<1>1. PICK n \in Nat : n = Len(s) /\ DOMAIN s = 1..n
  OBVIOUS
<1>2. Mapped(f, s) = [i \in 1..n |-> f[s[i]]]
  BY <1>1 DEF Mapped
<1>3. Len([i \in 1..n |-> f[s[i]]]) = n
  OBVIOUS
<1> QED
  BY <1>1, <1>2, <1>3

LEMMA MappedType ==
  ASSUME NEW A, NEW B, NEW f, NEW s \in Seq(A), \A x \in A : f[x] \in B
  PROVE  Mapped(f, s) \in Seq(B)
<1>1. PICK n \in Nat : n = Len(s) /\ DOMAIN s = 1..n
  OBVIOUS
<1>2. \A i \in 1..n : s[i] \in A
  BY <1>1, ElementOfSeq
<1>3. Mapped(f, s) = [i \in 1..n |-> f[s[i]]]
  BY <1>1 DEF Mapped
<1>4. [i \in 1..n |-> f[s[i]]] \in Seq(B)
  BY <1>2
<1> QED
  BY <1>3, <1>4

LEMMA MappedConcat ==
  ASSUME NEW A, NEW f, NEW s \in Seq(A), NEW t \in Seq(A),
         NEW v, Together(v, s, t)
  PROVE  Together(Mapped(f, v), Mapped(f, s), Mapped(f, t))
<1>0. PICK B : \A x \in A : f[x] \in B
  <2>1. \A x \in A : f[x] \in {f[y] : y \in A}
    OBVIOUS
  <2> QED
    BY <2>1
<1>1. PICK a \in Nat, b \in Nat : a = Len(s) /\ b = Len(t)
  OBVIOUS
<1>2. PICK u \in Seq(A) : u = s \o t
  <2>1. s \o t \in Seq(A)
    BY ConcatProperties
  <2> QED
    BY <2>1
<1>3. Len(u) = a + b /\ \A i \in 1..(a + b) : u[i] = IF i <= a THEN s[i] ELSE t[i - a]
  <2>1. /\ Len(s \o t) = Len(s) + Len(t)
        /\ \A i \in 1..Len(s) + Len(t) :
             (s \o t)[i] = IF i <= Len(s) THEN s[i] ELSE t[i - Len(s)]
    BY ConcatProperties, Zenon
  <2> QED
    BY <1>1, <1>2, <2>1
<1>4. PICK ms \in Seq(B), mt \in Seq(B), mu \in Seq(B) :
        ms = Mapped(f, s) /\ mt = Mapped(f, t) /\ mu = Mapped(f, u)
  BY <1>0, MappedType
<1>5. /\ Len(ms) = a /\ \A i \in 1..a : ms[i] = f[s[i]]
      /\ Len(mt) = b /\ \A i \in 1..b : mt[i] = f[t[i]]
      /\ Len(mu) = a + b /\ \A i \in 1..(a + b) : mu[i] = f[u[i]]
  <2>1. Len(ms) = a /\ \A i \in 1..a : ms[i] = f[s[i]]
    BY <1>1, <1>4, MappedEach
  <2>2. Len(mt) = b /\ \A i \in 1..b : mt[i] = f[t[i]]
    <3>1. /\ Len(Mapped(f, t)) = Len(t)
          /\ \A i \in 1..Len(t) : Mapped(f, t)[i] = f[t[i]]
      BY MappedEach
    <3> QED
      BY <1>1, <1>4, <3>1
  <2>3. Len(mu) = a + b /\ \A i \in 1..(a + b) : mu[i] = f[u[i]]
    <3>1. /\ Len(Mapped(f, u)) = Len(u)
          /\ \A i \in 1..Len(u) : Mapped(f, u)[i] = f[u[i]]
      BY MappedEach
    <3> QED
      BY <1>3, <1>4, <3>1
  <2> QED
    BY <2>1, <2>2, <2>3
<1>6. PICK l \in Seq(B) : l = ms \o mt
  <2>1. ms \o mt \in Seq(B)
    BY ConcatProperties
  <2> QED
    BY <2>1
<1>7. Len(l) = a + b /\ \A i \in 1..(a + b) : l[i] = IF i <= a THEN ms[i] ELSE mt[i - a]
  <2>1. /\ Len(ms \o mt) = Len(ms) + Len(mt)
        /\ \A i \in 1..Len(ms) + Len(mt) :
             (ms \o mt)[i] = IF i <= Len(ms) THEN ms[i] ELSE mt[i - Len(ms)]
    BY ConcatProperties, Zenon
  <2> QED
    BY <1>5, <1>6, <2>1
<1>8. ASSUME NEW i \in 1..(a + b) PROVE l[i] = mu[i]
  <2>1. CASE i <= a
    <3>1. i \in 1..a
      BY <2>1
    <3>2. u[i] = s[i] /\ l[i] = ms[i]
      BY <1>3, <1>7, <2>1
    <3>3. mu[i] = f[u[i]] /\ ms[i] = f[s[i]]
      BY <1>5, <3>1
    <3> QED
      BY <3>2, <3>3
  <2>2. CASE ~(i <= a)
    <3>1. i - a \in 1..b
      BY <2>2
    <3>2. u[i] = t[i - a] /\ l[i] = mt[i - a]
      BY <1>3, <1>7, <2>2
    <3>3. mu[i] = f[u[i]] /\ mt[i - a] = f[t[i - a]]
      BY <1>5, <3>1
    <3> QED
      BY <3>2, <3>3
  <2> QED
    BY <2>1, <2>2
<1>9. l = mu
  BY <1>5, <1>7, <1>8, SeqEqual
<1>10. v = u
  BY <1>2 DEF Together
<1> QED
  BY <1>4, <1>6, <1>9, <1>10 DEF Together

LEMMA MappedOne ==
  ASSUME NEW f, NEW x
  PROVE  Mapped(f, <<x>>) = <<f[x]>>
BY DEF Mapped

\* The changes of case and of dashes.
Upper  == [c \in Chars |-> [c EXCEPT !.upper = TRUE]]
Lower  == [c \in Chars |-> [c EXCEPT !.upper = c = Dash]]
Spaced == [c \in Chars |-> IF c = Dash THEN Space ELSE c]

LEMMA Changes ==
  /\ Upper \in [Chars -> Chars] /\ Lower \in [Chars -> Chars]
  /\ Spaced \in [Chars -> Chars]
  /\ Upper[Dash] = Dash /\ Lower[Dash] = Dash /\ Spaced[Dash] = Space
  /\ \A c \in Plain : Upper[c] \in Capitals
  /\ \A c \in Capitals :
       Upper[c] = c /\ Spaced[c] = c /\ Lower[c] \in Plain /\ Upper[Lower[c]] = c
<1>1. Upper \in [Chars -> Chars] /\ Lower \in [Chars -> Chars]
  <2>1. \A c \in Chars : [c EXCEPT !.upper = TRUE] \in Chars
    BY DEF Chars
  <2>2. \A c \in Chars : [c EXCEPT !.upper = c = Dash] \in Chars
    BY DEF Chars
  <2> QED
    BY <2>1, <2>2 DEF Upper, Lower
<1>2. Spaced \in [Chars -> Chars]
  BY CharFacts DEF Spaced
<1>3. Upper[Dash] = Dash /\ Lower[Dash] = Dash
  <2>1. [Dash EXCEPT !.upper = TRUE] = Dash
    <3>1. Dash \in [symbol : {"dash"}, upper : {TRUE}]
      BY DEF Dash, Sign
    <3> QED
      BY <3>1
  <2>2. Upper[Dash] = [Dash EXCEPT !.upper = TRUE]
    BY CharFacts DEF Upper
  <2>3. Lower[Dash] = [Dash EXCEPT !.upper = Dash = Dash]
    BY CharFacts DEF Lower
  <2>4. (Dash = Dash) = TRUE
    OBVIOUS
  <2> QED
    BY <2>1, <2>2, <2>3, <2>4
<1>4. Spaced[Dash] = Space
  BY CharFacts DEF Spaced
<1>5. ASSUME NEW c \in Plain PROVE Upper[c] \in Capitals
  <2>1. Upper[c] = [c EXCEPT !.upper = TRUE]
    BY CharFacts DEF Upper
  <2>2. [c EXCEPT !.upper = TRUE] \in Capitals
    BY DEF Plain, Capitals
  <2> QED
    BY <2>1, <2>2
<1>6. ASSUME NEW c \in Capitals
      PROVE  Upper[c] = c /\ Spaced[c] = c /\ Lower[c] \in Plain /\ Upper[Lower[c]] = c
  <2>1. c \in Chars /\ c \in Plain /\ c # Dash
    BY CharFacts
  <2>2. Upper[c] = [c EXCEPT !.upper = TRUE] /\ Spaced[c] = c
    BY <2>1 DEF Upper, Spaced
  <2>3. [c EXCEPT !.upper = TRUE] = c
    BY DEF Capitals
  <2>4. Lower[c] = [c EXCEPT !.upper = c = Dash]
    BY <2>1 DEF Lower
  <2>5. (c = Dash) = FALSE
    BY <2>1
  <2>6. PICK d : d = [c EXCEPT !.upper = FALSE]
    OBVIOUS
  <2>7. Lower[c] = d
    BY <2>4, <2>5, <2>6
  <2>8. d \in Plain /\ [d EXCEPT !.upper = TRUE] = c
    BY <2>6 DEF Capitals, Plain
  <2>9. Upper[d] = [d EXCEPT !.upper = TRUE]
    BY <2>8, CharFacts DEF Upper
  <2> QED
    BY <2>2, <2>3, <2>7, <2>8, <2>9
<1> QED
  BY <1>1, <1>2, <1>3, <1>4, <1>5, <1>6

\* What NormalizeCode makes of a text, from what it makes of its parts.
LEMMA NormalSteps ==
  ASSUME NEW s \in Seq(Chars)
  PROVE  /\ Without(s, Dash) \in Seq(Chars)
         /\ Without(Without(s, Dash), Space) \in Seq(Chars)
         /\ NormalizeCode(s) = Mapped(Upper, Without(Without(s, Dash), Space))
         /\ NormalizeCode(s) \in Seq(Chars)
<1>1. ASSUME NEW t \in Seq(Chars), NEW c PROVE Without(t, c) \in Seq(Chars)
  <2>1. Without(t, c) \in Seq(Chars \ {c})
    BY WithoutType
  <2> QED
    BY <2>1
<1>2. Without(s, Dash) \in Seq(Chars) /\ Without(Without(s, Dash), Space) \in Seq(Chars)
  BY <1>1
<1>3. ASSUME NEW t \in Seq(Chars)
      PROVE  ToUpper(t) = Mapped(Upper, t) /\ Mapped(Upper, t) \in Seq(Chars)
  <2>1. PICK n \in Nat : n = Len(t) /\ DOMAIN t = 1..n
    OBVIOUS
  <2>2. \A i \in 1..n : t[i] \in Chars
    BY <2>1, ElementOfSeq
  <2>3. \A i \in 1..n : Upper[t[i]] = [t[i] EXCEPT !.upper = TRUE]
    BY <2>2 DEF Upper
  <2>4. ToUpper(t) = Mapped(Upper, t)
    BY <2>1, <2>3 DEF ToUpper, Mapped
  <2>5. \A x \in Chars : Upper[x] \in Chars
    BY Changes
  <2> QED
    BY <2>4, <2>5, MappedType
<1> QED
  BY <1>2, <1>3 DEF NormalizeCode

LEMMA UpperText ==
  ASSUME NEW s \in Seq(Chars)
  PROVE  ToUpper(s) = Mapped(Upper, s)
<1>1. PICK n \in Nat : n = Len(s) /\ DOMAIN s = 1..n
  OBVIOUS
<1>2. \A i \in 1..n : s[i] \in Chars
  BY <1>1, ElementOfSeq
<1>3. \A i \in 1..n : Upper[s[i]] = [s[i] EXCEPT !.upper = TRUE]
  BY <1>2 DEF Upper
<1> QED
  BY <1>1, <1>3 DEF ToUpper, Mapped

LEMMA NormalConcat ==
  ASSUME NEW s \in Seq(Chars), NEW t \in Seq(Chars), NEW u, Together(u, s, t)
  PROVE  Together(NormalizeCode(u), NormalizeCode(s), NormalizeCode(t))
<1>1. PICK st \in Seq(Chars) : st = u
  <2>1. s \o t \in Seq(Chars)
    BY ConcatProperties
  <2> QED
    BY <2>1 DEF Together
<1>2. PICK a \in Seq(Chars), b \in Seq(Chars), ab \in Seq(Chars) :
        a = Without(s, Dash) /\ b = Without(t, Dash) /\ ab = Without(st, Dash)
  BY NormalSteps
<1>3. Together(ab, a, b)
  BY <1>1, <1>2, WithoutConcat
<1>4. PICK d \in Seq(Chars), e \in Seq(Chars), de \in Seq(Chars) :
        d = Without(a, Space) /\ e = Without(b, Space) /\ de = Without(ab, Space)
  BY <1>2, NormalSteps
<1>5. Together(de, d, e)
  BY <1>3, <1>4, WithoutConcat
<1>6. Together(Mapped(Upper, de), Mapped(Upper, d), Mapped(Upper, e))
  BY <1>5, MappedConcat
<1>7. /\ NormalizeCode(s) = Mapped(Upper, d) /\ NormalizeCode(t) = Mapped(Upper, e)
      /\ NormalizeCode(st) = Mapped(Upper, de)
  BY <1>2, <1>4, NormalSteps
<1> QED
  BY ONLY <1>1, <1>6, <1>7

LEMMA NormalSign ==
  ASSUME NEW x \in {Dash, Space}
  PROVE  NormalizeCode(<<x>>) = <<>>
<1>1. Mapped(Upper, <<>>) = <<>>
  BY DEF Mapped
<1>2. PICK s \in Seq(Chars) :
             s = <<x>>
               /\ NormalizeCode(s) = Mapped(Upper, Without(Without(s, Dash), Space))
  <2>1. <<x>> \in Seq(Chars)
    BY CharFacts
  <2> QED
    BY <2>1, NormalSteps
<1>3. CASE x = Dash
  <2>1. Without(s, Dash) = <<>>
    BY <1>2, <1>3, WithoutOne
  <2>2. Without(<<>>, Space) = <<>>
    <3>1. <<>> \in Seq(Plain) /\ Space \notin Plain
      BY CharFacts
    <3> QED
      BY <3>1, WithoutNone
  <2> QED
    BY <1>1, <1>2, <2>1, <2>2
<1>4. CASE x = Space
  <2>1. Without(<<Space>>, Dash) = <<Space>>
    <3>1. <<Space>> \in Seq({Space}) /\ Dash \notin {Space}
      BY CharFacts
    <3> QED
      BY <3>1, WithoutNone
  <2>2. Without(<<Space>>, Space) = <<>>
    BY WithoutOne
  <2> QED
    BY <1>1, <1>2, <1>4, <2>1, <2>2
<1> QED
  BY <1>3, <1>4

LEMMA PlainText ==
  ASSUME NEW s \in Seq(Plain)
  PROVE  s \in Seq(Chars) /\ NormalizeCode(s) = Mapped(Upper, s)
           /\ Mapped(Upper, s) \in Seq(Capitals)
<1>1. s \in Seq(Chars)
  BY CharFacts
<1>2. Without(s, Dash) = s /\ Without(s, Space) = s
  BY CharFacts, WithoutNone
<1>3. NormalizeCode(s) = Mapped(Upper, s)
  BY <1>1, <1>2, NormalSteps
<1>4. \A x \in Plain : Upper[x] \in Capitals
  BY Changes
<1> QED
  BY <1>1, <1>3, <1>4, MappedType

\* A text in capitals is left alone, put in lower case and back too.
LEMMA CapitalText ==
  ASSUME NEW s \in Seq(Capitals)
  PROVE  /\ s \in Seq(Plain) /\ s \in Seq(Chars)
         /\ Mapped(Upper, s) = s /\ Mapped(Spaced, s) = s
         /\ Mapped(Lower, s) \in Seq(Plain) /\ Mapped(Upper, Mapped(Lower, s)) = s
<1>1. PICK n \in Nat : n = Len(s) /\ DOMAIN s = 1..n /\ s = [i \in 1..n |-> s[i]]
  OBVIOUS
<1>2. \A i \in 1..n : s[i] \in Capitals
  BY <1>1, ElementOfSeq
<1>3. \A i \in 1..n : /\ Upper[s[i]] = s[i] /\ Spaced[s[i]] = s[i]
                      /\ Lower[s[i]] \in Plain /\ Upper[Lower[s[i]]] = s[i]
  BY <1>2, Changes
<1>4. Mapped(Upper, s) = s /\ Mapped(Spaced, s) = s
  BY <1>1, <1>3 DEF Mapped
<1>5. Mapped(Lower, s) = [i \in 1..n |-> Lower[s[i]]]
  BY <1>1 DEF Mapped
<1>6. Mapped(Upper, Mapped(Lower, s)) = [i \in 1..n |-> Upper[Lower[s[i]]]]
  BY <1>5 DEF Mapped
<1>7. Mapped(Lower, s) \in Seq(Plain)
  BY <1>3, <1>5
<1>8. s \in Seq(Plain) /\ s \in Seq(Chars)
  BY CharFacts
<1>9. [i \in 1..n |-> Upper[Lower[s[i]]]] = [i \in 1..n |-> s[i]]
  BY <1>3
<1> QED
  BY <1>1, <1>4, <1>6, <1>7, <1>8, <1>9

\* Three groups with a sign between them.
Joined(a, b, c, x) == a \o <<x>> \o b \o <<x>> \o c

LEMMA JoinedMapped ==
  ASSUME NEW a \in Seq(Chars), NEW b \in Seq(Chars), NEW c \in Seq(Chars),
         NEW x \in Chars,
         NEW f \in [Chars -> Chars]
  PROVE  Joined(Mapped(f, a), Mapped(f, b), Mapped(f, c), f[x])
           = Mapped(f, Joined(a, b, c, x))
<1>1. PICK o \in Seq(Chars) : o = <<x>> /\ Mapped(f, o) = <<f[x]>>
  <2>1. <<x>> \in Seq(Chars)
    OBVIOUS
  <2> QED
    BY <2>1, MappedOne
<1>2. PICK p \in Seq(Chars), q \in Seq(Chars), r \in Seq(Chars), w \in Seq(Chars) :
        p = a \o o /\ q = p \o b /\ r = q \o o /\ w = r \o c
  <2>1. ASSUME NEW s \in Seq(Chars), NEW t \in Seq(Chars) PROVE s \o t \in Seq(Chars)
    BY ConcatProperties
  <2>2. a \o o \in Seq(Chars)
    BY <1>1, <2>1
  <2>3. a \o o \o b \in Seq(Chars)
    BY <1>1, <2>1, <2>2
  <2>4. a \o o \o b \o o \in Seq(Chars)
    BY <2>1, <2>3
  <2>5. a \o o \o b \o o \o c \in Seq(Chars)
    BY <1>1, <2>1, <2>4
  <2> QED
    BY <2>2, <2>3, <2>4, <2>5
<1>3. /\ Together(p, a, o) /\ Together(q, p, b) /\ Together(r, q, o)
      /\ Together(w, r, c)
  BY <1>2 DEF Together
<1>4. /\ Together(Mapped(f, p), Mapped(f, a), Mapped(f, o))
      /\ Together(Mapped(f, q), Mapped(f, p), Mapped(f, b))
      /\ Together(Mapped(f, r), Mapped(f, q), Mapped(f, o))
      /\ Together(Mapped(f, w), Mapped(f, r), Mapped(f, c))
  <2>1. Together(Mapped(f, p), Mapped(f, a), Mapped(f, o))
    BY <1>3, MappedConcat
  <2>2. Together(Mapped(f, q), Mapped(f, p), Mapped(f, b))
    BY <1>3, MappedConcat
  <2>3. Together(Mapped(f, r), Mapped(f, q), Mapped(f, o))
    BY <1>3, MappedConcat
  <2>4. Together(Mapped(f, w), Mapped(f, r), Mapped(f, c))
    BY <1>3, MappedConcat
  <2> QED
    BY <2>1, <2>2, <2>3, <2>4
<1>5. Joined(a, b, c, x) = w
  BY <1>1, <1>2 DEF Joined
<1>6. Joined(Mapped(f, a), Mapped(f, b), Mapped(f, c), f[x]) = Mapped(f, w)
  BY ONLY <1>1, <1>4 DEF Joined, Together
<1> QED
  BY <1>5, <1>6

LEMMA JoinedNormal ==
  ASSUME NEW a \in Seq(Plain), NEW b \in Seq(Plain), NEW c \in Seq(Plain),
         NEW x \in {Dash, Space}
  PROVE  /\ Joined(a, b, c, x) \in Seq(Chars)
         /\ NormalizeCode(Joined(a, b, c, x))
              = Mapped(Upper, a) \o Mapped(Upper, b) \o Mapped(Upper, c)
<1>1. PICK o \in Seq(Chars) : o = <<x>> /\ NormalizeCode(o) = <<>>
  <2>1. <<x>> \in Seq(Chars)
    BY CharFacts
  <2> QED
    BY <2>1, NormalSign
<1>2. a \in Seq(Chars) /\ b \in Seq(Chars) /\ c \in Seq(Chars)
  BY PlainText
<1>3. PICK p \in Seq(Chars), q \in Seq(Chars), r \in Seq(Chars), w \in Seq(Chars) :
        p = a \o o /\ q = p \o b /\ r = q \o o /\ w = r \o c
  <2>1. ASSUME NEW s \in Seq(Chars), NEW t \in Seq(Chars) PROVE s \o t \in Seq(Chars)
    BY ConcatProperties
  <2>2. a \o o \in Seq(Chars)
    BY <1>2, <2>1
  <2>3. a \o o \o b \in Seq(Chars)
    BY <1>2, <2>1, <2>2
  <2>4. a \o o \o b \o o \in Seq(Chars)
    BY <2>1, <2>3
  <2>5. a \o o \o b \o o \o c \in Seq(Chars)
    BY <1>2, <2>1, <2>4
  <2> QED
    BY <2>2, <2>3, <2>4, <2>5
<1>4. /\ Together(NormalizeCode(p), NormalizeCode(a), NormalizeCode(o))
      /\ Together(NormalizeCode(q), NormalizeCode(p), NormalizeCode(b))
      /\ Together(NormalizeCode(r), NormalizeCode(q), NormalizeCode(o))
      /\ Together(NormalizeCode(w), NormalizeCode(r), NormalizeCode(c))
  <2>1. Together(p, a, o) /\ Together(q, p, b) /\ Together(r, q, o) /\ Together(w, r, c)
    BY <1>3 DEF Together
  <2>2. Together(NormalizeCode(p), NormalizeCode(a), NormalizeCode(o))
    BY <1>2, <2>1, NormalConcat
  <2>3. Together(NormalizeCode(q), NormalizeCode(p), NormalizeCode(b))
    BY <1>2, <2>1, NormalConcat
  <2>4. Together(NormalizeCode(r), NormalizeCode(q), NormalizeCode(o))
    BY <2>1, NormalConcat
  <2>5. Together(NormalizeCode(w), NormalizeCode(r), NormalizeCode(c))
    BY <1>2, <2>1, NormalConcat
  <2> QED
    BY <2>2, <2>3, <2>4, <2>5
<1>5. PICK na \in Seq(Chars), nb \in Seq(Chars), nc \in Seq(Chars), nq \in Seq(Chars) :
        /\ na = NormalizeCode(a) /\ nb = NormalizeCode(b) /\ nc = NormalizeCode(c)
        /\ nq = NormalizeCode(q)
  BY <1>2, NormalSteps
<1>6. na \o <<>> = na /\ nq \o <<>> = nq
  BY ConcatEmptySeq
<1>7. NormalizeCode(w) = na \o nb \o nc
  BY ONLY <1>1, <1>4, <1>5, <1>6 DEF Together
<1>8. Joined(a, b, c, x) = w
  BY <1>1, <1>3 DEF Joined
<1>9. na = Mapped(Upper, a) /\ nb = Mapped(Upper, b) /\ nc = Mapped(Upper, c)
  BY <1>5, PlainText
<1> QED
  BY <1>3, <1>7, <1>8, <1>9

\* How long a group that ends at k is, in a text of l characters.
Share(l, k) == IF k <= l THEN Group ELSE IF k - Group <= l THEN l - (k - Group) ELSE 0

LEMMA SliceShare ==
  ASSUME NEW C, NEW text \in Seq(C), NEW n \in 1..3
  PROVE  Slice(text, n) \in Seq(C) /\ Len(Slice(text, n)) = Share(Len(text), n * Group)
<1>1. PICK l \in Nat, g \in Nat \ {0}, k \in Nat :
        l = Len(text) /\ g = Group /\ k = n * Group /\ k >= g
  <2>1. PICK g \in Nat \ {0} : g = Group
    BY FactorConstants
  <2>2. n = 1 \/ n = 2 \/ n = 3
    OBVIOUS
  <2>3. n * g \in Nat /\ n * g >= g
    BY <2>2
  <2>4. Len(text) \in Nat
    OBVIOUS
  <2> QED
    BY <2>1, <2>3, <2>4
<1>2. PICK m \in Int, e \in Int : m = k - g + 1 /\ e = IF k < l THEN k ELSE l
  OBVIOUS
<1>3. Slice(text, n) = SubSeq(text, m, e)
  BY <1>1, <1>2 DEF Slice
<1>4. \A i \in m..e : text[i] \in C
  <2> SUFFICES ASSUME NEW i \in m..e PROVE text[i] \in C
    OBVIOUS
  <2>1. i \in 1..Len(text)
    BY <1>1, <1>2
  <2> QED
    BY <2>1, ElementOfSeq
<1>5. /\ SubSeq(text, m, e) \in Seq(C)
      /\ Len(SubSeq(text, m, e)) = IF m <= e THEN e - m + 1 ELSE 0
  BY <1>4, SubSeqProperties
<1>6. (IF m <= e THEN e - m + 1 ELSE 0)
        = IF k <= l THEN g ELSE IF k - g <= l THEN l - (k - g) ELSE 0
  <2>1. CASE k <= l
    BY <1>1, <1>2, <2>1
  <2>2. CASE ~(k <= l) /\ k - g <= l
    <3>1. e = l /\ e - m + 1 = l - (k - g)
      BY <1>2, <2>2
    <3>2. ~(m <= e) => l - (k - g) = 0
      BY <1>2, <2>2, <3>1
    <3> QED
      BY <2>2, <3>1, <3>2
  <2>3. CASE ~(k <= l) /\ ~(k - g <= l)
    BY <1>1, <1>2, <2>3
  <2> QED
    BY <2>1, <2>2, <2>3
<1> QED
  BY <1>1, <1>3, <1>5, <1>6 DEF Share

\* As long as all three together are the same, each is.
LEMMA SharesEqual ==
  ASSUME NEW l \in Nat, NEW m \in Nat,
         Share(l, 1 * Group) + Share(l, 2 * Group) + Share(l, 3 * Group)
           = Share(m, 1 * Group) + Share(m, 2 * Group) + Share(m, 3 * Group)
  PROVE  /\ Share(l, 1 * Group) = Share(m, 1 * Group)
         /\ Share(l, 2 * Group) = Share(m, 2 * Group)
         /\ Share(l, 3 * Group) = Share(m, 3 * Group)
<1>1. PICK g \in Nat \ {0} : g = Group
  BY FactorConstants
<1> QED
  BY <1>1 DEF Share

\* A code: its groups, and the length of the text they were cut from.
IsCode(code, a, b, c, l) ==
  /\ a \in Seq(Capitals) /\ b \in Seq(Capitals) /\ c \in Seq(Capitals) /\ l \in Nat
  /\ Len(a) = Share(l, 1 * Group) /\ Len(b) = Share(l, 2 * Group)
  /\ Len(c) = Share(l, 3 * Group)
  /\ code = Joined(a, b, c, Dash)

LEMMA CodeGenerated ==
  ASSUME NEW random \in RandomTexts
  PROVE  \E a, b, c, l : IsCode(GenerateCode(random), a, b, c, l)
<1>1. PICK value \in Seq(Plain) : value = Without(Without(random, Dash), Underscore)
  <2>1. PICK D : D = Letter \cup {Dash, Underscore}
    OBVIOUS
  <2>2. random \in Seq(D)
    <3>1. PICK n \in Nat : n = 3 * Group + 2
      BY FactorConstants
    <3>2. random \in [1..n -> D]
      BY <2>1, <3>1 DEF RandomTexts
    <3> QED
      BY <3>2
  <2>3. Without(random, Dash) \in Seq(D \ {Dash})
    BY <2>2, WithoutType
  <2>4. Without(Without(random, Dash), Underscore) \in Seq((D \ {Dash}) \ {Underscore})
    BY <2>3, WithoutType
  <2>5. (D \ {Dash}) \ {Underscore} \subseteq Plain
    BY <2>1, CharFacts
  <2> QED
    BY <2>4, <2>5
<1>2. PICK r \in Seq(Plain), s \in Seq(Plain), t \in Seq(Plain), l \in Nat :
        /\ r = Slice(value, 1) /\ s = Slice(value, 2) /\ t = Slice(value, 3)
        /\ Len(r) = Share(l, 1 * Group) /\ Len(s) = Share(l, 2 * Group)
        /\ Len(t) = Share(l, 3 * Group)
  <2>1. Slice(value, 1) \in Seq(Plain)
          /\ Len(Slice(value, 1)) = Share(Len(value), 1 * Group)
    BY 1 \in 1..3, SliceShare
  <2>2. Slice(value, 2) \in Seq(Plain)
          /\ Len(Slice(value, 2)) = Share(Len(value), 2 * Group)
    BY 2 \in 1..3, SliceShare
  <2>3. Slice(value, 3) \in Seq(Plain)
          /\ Len(Slice(value, 3)) = Share(Len(value), 3 * Group)
    BY 3 \in 1..3, SliceShare
  <2>4. Len(value) \in Nat
    OBVIOUS
  <2> QED
    BY <2>1, <2>2, <2>3, <2>4
<1>3. PICK a \in Seq(Capitals), b \in Seq(Capitals), c \in Seq(Capitals) :
        a = Mapped(Upper, r) /\ b = Mapped(Upper, s) /\ c = Mapped(Upper, t)
  BY PlainText
<1>4. Len(a) = Len(r) /\ Len(b) = Len(s) /\ Len(c) = Len(t)
  BY <1>3, MappedEach
<1>5. r \in Seq(Chars) /\ s \in Seq(Chars) /\ t \in Seq(Chars)
        /\ Joined(r, s, t, Dash) \in Seq(Chars)
  BY PlainText, JoinedNormal
<1>6. Joined(a, b, c, Upper[Dash]) = Mapped(Upper, Joined(r, s, t, Dash))
  <2>1. Dash \in Chars /\ Upper \in [Chars -> Chars]
    BY CharFacts, Changes
  <2>2. Joined(Mapped(Upper, r), Mapped(Upper, s), Mapped(Upper, t), Upper[Dash])
          = Mapped(Upper, Joined(r, s, t, Dash))
    BY <1>5, <2>1, JoinedMapped
  <2> QED
    BY <1>3, <2>2
<1>7. GenerateCode(random) = ToUpper(Joined(r, s, t, Dash))
  BY <1>1, <1>2 DEF GenerateCode, Joined
<1>8. GenerateCode(random) = Joined(a, b, c, Dash)
  BY <1>5, <1>6, <1>7, UpperText, Changes
<1>9. IsCode(GenerateCode(random), a, b, c, l)
  BY <1>2, <1>4, <1>8 DEF IsCode
<1> QED
  BY <1>9

\* What may be typed for a code has its groups, and only they are compared.
LEMMA TypedNormal ==
  ASSUME NEW code, NEW a, NEW b, NEW c, NEW l, IsCode(code, a, b, c, l),
         NEW typed \in Typed(code)
  PROVE  NormalizeCode(typed) = a \o b \o c
<1>1. a \in Seq(Capitals) /\ b \in Seq(Capitals) /\ c \in Seq(Capitals)
  BY DEF IsCode
<1>2. PICK p : p = a \o b \o c
  OBVIOUS
<1>3. /\ a \in Seq(Plain) /\ b \in Seq(Plain) /\ c \in Seq(Plain)
      /\ a \in Seq(Chars) /\ b \in Seq(Chars) /\ c \in Seq(Chars)
      /\ Mapped(Upper, a) = a /\ Mapped(Upper, b) = b /\ Mapped(Upper, c) = c
      /\ Mapped(Spaced, a) = a /\ Mapped(Spaced, b) = b /\ Mapped(Spaced, c) = c
  BY <1>1, CapitalText
<1>4. code \in Seq(Chars) /\ NormalizeCode(code) = p
  <2>1. code = Joined(a, b, c, Dash) /\ Dash \in {Dash, Space}
    BY DEF IsCode
  <2>2. code \in Seq(Chars)
          /\ NormalizeCode(code)
               = Mapped(Upper, a) \o Mapped(Upper, b) \o Mapped(Upper, c)
    BY <1>3, <2>1, JoinedNormal
  <2> QED
    BY <1>2, <1>3, <2>2
<1>5. NormalizeCode(Without(code, Dash)) = p
  <2>1. PICK s \in Seq(Chars \ {Dash}) : s = Without(code, Dash)
    BY <1>4, WithoutType
  <2>2. s \in Seq(Chars) /\ Dash \notin Chars \ {Dash}
    OBVIOUS
  <2>3. Without(s, Dash) = s
    BY <2>2, WithoutNone
  <2>4. /\ NormalizeCode(s) = Mapped(Upper, Without(Without(s, Dash), Space))
        /\ NormalizeCode(code) = Mapped(Upper, Without(Without(code, Dash), Space))
    BY <1>4, <2>2, NormalSteps
  <2> QED
    BY <1>4, <2>1, <2>3, <2>4
<1>6. NormalizeCode(<<Space>> \o code) = p
  <2>1. PICK o \in Seq(Chars) : o = <<Space>>
    <3>1. <<Space>> \in Seq(Chars)
      BY CharFacts
    <3> QED
      BY <3>1
  <2>2. Together(o \o code, o, code)
    BY DEF Together
  <2>3. Together(NormalizeCode(o \o code), NormalizeCode(o), NormalizeCode(code))
    BY <1>4, <2>2, NormalConcat
  <2>4. NormalizeCode(o) = <<>>
    BY <2>1, NormalSign
  <2>5. NormalizeCode(code) \in Seq(Chars)
    BY <1>4, NormalSteps
  <2>6. <<>> \o NormalizeCode(code) = NormalizeCode(code)
    BY <2>5, ConcatEmptySeq
  <2> QED
    BY ONLY <1>4, <2>1, <2>3, <2>4, <2>6 DEF Together
<1>7. /\ [i \in DOMAIN code |-> IF code[i] = Dash THEN Space ELSE code[i]]
           = Mapped(Spaced, code)
      /\ [i \in DOMAIN code |-> [code[i] EXCEPT !.upper = code[i] = Dash]]
           = Mapped(Lower, code)
  <2>1. PICK n \in Nat : n = Len(code) /\ DOMAIN code = 1..n
    BY <1>4
  <2>2. \A i \in 1..n : code[i] \in Chars
    BY <1>4, <2>1, ElementOfSeq
  <2>3. \A i \in 1..n : Spaced[code[i]] = IF code[i] = Dash THEN Space ELSE code[i]
    BY <2>2 DEF Spaced
  <2>4. \A i \in 1..n : Lower[code[i]] = [code[i] EXCEPT !.upper = code[i] = Dash]
    BY <2>2 DEF Lower
  <2> QED
    BY <2>1, <2>3, <2>4 DEF Mapped
<1>8. NormalizeCode(Mapped(Spaced, code)) = p
  <2>1. Dash \in Chars /\ Spaced \in [Chars -> Chars] /\ Spaced[Dash] = Space
    BY CharFacts, Changes
  <2>2. Joined(Mapped(Spaced, a), Mapped(Spaced, b), Mapped(Spaced, c), Spaced[Dash])
          = Mapped(Spaced, Joined(a, b, c, Dash))
    BY <1>3, <2>1, JoinedMapped
  <2>3. Mapped(Spaced, code) = Joined(a, b, c, Space)
    BY <1>3, <2>1, <2>2 DEF IsCode
  <2>4. NormalizeCode(Joined(a, b, c, Space))
          = Mapped(Upper, a) \o Mapped(Upper, b) \o Mapped(Upper, c)
    BY <1>3, JoinedNormal
  <2> QED
    BY <1>2, <1>3, <2>3, <2>4
<1>9. NormalizeCode(Mapped(Lower, code)) = p
  <2>1. Dash \in Chars /\ Lower \in [Chars -> Chars] /\ Lower[Dash] = Dash
    BY CharFacts, Changes
  <2>2. Joined(Mapped(Lower, a), Mapped(Lower, b), Mapped(Lower, c), Lower[Dash])
          = Mapped(Lower, Joined(a, b, c, Dash))
    BY <1>3, <2>1, JoinedMapped
  <2>3. PICK d \in Seq(Plain), e \in Seq(Plain), f \in Seq(Plain) :
          /\ d = Mapped(Lower, a) /\ e = Mapped(Lower, b) /\ f = Mapped(Lower, c)
          /\ Mapped(Upper, d) = a /\ Mapped(Upper, e) = b /\ Mapped(Upper, f) = c
    BY <1>1, CapitalText
  <2>4. Mapped(Lower, code) = Joined(d, e, f, Dash)
    BY <2>1, <2>2, <2>3 DEF IsCode
  <2>5. NormalizeCode(Joined(d, e, f, Dash))
          = Mapped(Upper, d) \o Mapped(Upper, e) \o Mapped(Upper, f)
    BY JoinedNormal
  <2> QED
    BY <1>2, <2>3, <2>4, <2>5
<1>10. NormalizeCode(typed) = p
  <2>1. \/ typed = code \/ typed = Without(code, Dash) \/ typed = <<Space>> \o code
        \/ typed = Mapped(Spaced, code) \/ typed = Mapped(Lower, code)
    BY <1>7 DEF Typed
  <2> QED
    BY <1>4, <1>5, <1>6, <1>8, <1>9, <2>1
<1> QED
  BY <1>2, <1>10

\* Two texts that are cut alike have the same parts.
LEMMA PartsEqual ==
  ASSUME NEW C, NEW s \in Seq(C), NEW t \in Seq(C), NEW u \in Seq(C), NEW v \in Seq(C),
         s \o t = u \o v, Len(s) = Len(u)
  PROVE  s = u /\ t = v
<1>1. PICK a \in Nat, b \in Nat, d \in Nat :
        a = Len(s) /\ a = Len(u) /\ b = Len(t) /\ d = Len(v)
  OBVIOUS
<1>2. PICK w : w = s \o t /\ w = u \o v
  OBVIOUS
<1>3. Len(w) = a + b /\ \A i \in 1..(a + b) : w[i] = IF i <= a THEN s[i] ELSE t[i - a]
  <2>1. /\ Len(s \o t) = Len(s) + Len(t)
        /\ \A i \in 1..Len(s) + Len(t) :
             (s \o t)[i] = IF i <= Len(s) THEN s[i] ELSE t[i - Len(s)]
    BY ConcatProperties, Zenon
  <2> QED
    BY <1>1, <1>2, <2>1
<1>4. Len(w) = a + d /\ \A i \in 1..(a + d) : w[i] = IF i <= a THEN u[i] ELSE v[i - a]
  <2>1. /\ Len(u \o v) = Len(u) + Len(v)
        /\ \A i \in 1..Len(u) + Len(v) :
             (u \o v)[i] = IF i <= Len(u) THEN u[i] ELSE v[i - Len(u)]
    BY ConcatProperties, Zenon
  <2> QED
    BY <1>1, <1>2, <2>1
<1>5. b = d
  BY <1>3, <1>4
<1>6. \A i \in 1..a : s[i] = u[i]
  <2> SUFFICES ASSUME NEW i \in 1..a PROVE s[i] = u[i]
    OBVIOUS
  <2>1. i \in 1..(a + b) /\ i \in 1..(a + d) /\ i <= a
    OBVIOUS
  <2> QED
    BY <1>3, <1>4, <2>1
<1>7. \A i \in 1..b : t[i] = v[i]
  <2> SUFFICES ASSUME NEW i \in 1..b PROVE t[i] = v[i]
    OBVIOUS
  <2>1. a + i \in 1..(a + b) /\ a + i \in 1..(a + d) /\ ~(a + i <= a) /\ (a + i) - a = i
    BY <1>5
  <2> QED
    BY <1>3, <1>4, <2>1
<1>8. s = u
  BY <1>1, <1>6, SeqEqual
<1>9. t = v
  BY <1>1, <1>5, <1>7, SeqEqual
<1> QED
  BY <1>8, <1>9

LEMMA SameGroups ==
  ASSUME NEW code, NEW a, NEW b, NEW c, NEW l, IsCode(code, a, b, c, l),
         NEW other, NEW d, NEW e, NEW f, NEW m, IsCode(other, d, e, f, m),
         a \o b \o c = d \o e \o f
  PROVE  code = other
<1>1. PICK ab \in Seq(Capitals), de \in Seq(Capitals) :
        /\ ab = a \o b /\ de = d \o e
        /\ Len(ab) = Len(a) + Len(b) /\ Len(de) = Len(d) + Len(e)
  <2>1. a \o b \in Seq(Capitals) /\ Len(a \o b) = Len(a) + Len(b)
    BY ConcatProperties DEF IsCode
  <2>2. d \o e \in Seq(Capitals) /\ Len(d \o e) = Len(d) + Len(e)
    BY ConcatProperties DEF IsCode
  <2> QED
    BY <2>1, <2>2
<1>2. Len(ab \o c) = Len(a) + Len(b) + Len(c) /\ Len(de \o f) = Len(d) + Len(e) + Len(f)
  <2>1. Len(ab \o c) = Len(ab) + Len(c)
    BY ConcatProperties DEF IsCode
  <2>2. Len(de \o f) = Len(de) + Len(f)
    BY ConcatProperties DEF IsCode
  <2> QED
    BY <1>1, <2>1, <2>2
<1>3. Len(a) + Len(b) + Len(c) = Len(d) + Len(e) + Len(f)
  BY <1>1, <1>2
<1>4. Len(a) = Len(d) /\ Len(b) = Len(e) /\ Len(c) = Len(f)
  BY <1>3, SharesEqual DEF IsCode
<1>5. ab = de /\ c = f
  <2>1. c \in Seq(Capitals) /\ f \in Seq(Capitals) /\ ab \o c = de \o f
          /\ Len(ab) = Len(de)
    BY <1>1, <1>4 DEF IsCode
  <2> QED
    BY <2>1, PartsEqual
<1>6. a = d /\ b = e
  <2>1. /\ a \in Seq(Capitals) /\ b \in Seq(Capitals) /\ d \in Seq(Capitals)
        /\ e \in Seq(Capitals)
        /\ a \o b = d \o e
    BY <1>1, <1>5 DEF IsCode
  <2> QED
    BY <1>4, <2>1, PartsEqual
<1> QED
  BY <1>5, <1>6 DEF IsCode

LEMMA CodesVerifyHolds == CodesVerify
<1> SUFFICES ASSUME NEW x \in RandomTexts, NEW y \in RandomTexts,
                    NEW typed \in Typed(GenerateCode(y))
             PROVE  VerifyCode(typed, HashCode(GenerateCode(x)))
                      <=> GenerateCode(x) = GenerateCode(y)
  BY DEF CodesVerify
<1>1. PICK code, a, b, c, l : code = GenerateCode(x) /\ IsCode(code, a, b, c, l)
  BY CodeGenerated
<1>2. PICK other, d, e, f, m : other = GenerateCode(y) /\ IsCode(other, d, e, f, m)
  BY CodeGenerated
<1>3. NormalizeCode(typed) = d \o e \o f
  BY <1>2, TypedNormal
<1>4. NormalizeCode(code) = a \o b \o c
  <2>1. code \in Typed(code)
    BY DEF Typed
  <2> QED
    BY <1>1, <2>1, TypedNormal
<1>5. NormalizeCode(other) = d \o e \o f
  <2>1. other \in Typed(other)
    BY DEF Typed
  <2> QED
    BY <1>2, <2>1, TypedNormal
<1>6. VerifyCode(typed, HashCode(code)) <=> d \o e \o f = a \o b \o c
  BY <1>3, <1>4 DEF VerifyCode, HashCode
<1>7. a \o b \o c = d \o e \o f => code = other
  BY <1>1, <1>2, SameGroups
<1>8. code = other => a \o b \o c = d \o e \o f
  BY <1>4, <1>5
<1> QED
  BY <1>1, <1>2, <1>6, <1>7, <1>8

\* The second factor is right, for secrets of every length, every period and
\* window and every length of a group: what is encoded is the standard's
\* base32 and decodes to the secret, although the accumulator is never
\* cleared; a token is accepted in its window of periods only; and a recovery
\* code is accepted however it is typed, and no other for it.
THEOREM SecondFactorCorrect == Spec => []SecondFactorWorks
<1>1. SecondFactorWorks
  BY SecretsSurviveHolds, TokensExpireHolds, CodesVerifyHolds DEF SecondFactorWorks
<1> QED
  BY <1>1, PTL
=============================================================================
