----------------------------- MODULE AuthService -----------------------------
(***************************************************************************)
(* Accounts, login sessions and guarded requests.                          *)
(*                                                                         *)
(*   backend/src/modules/auth/application/auth.service.ts                  *)
(*   backend/src/modules/auth/infrastructure/in-memory-auth.repository.ts  *)
(*   backend/src/modules/auth/http/{auth.routes,rbac.guard}.ts             *)
(*                                                                         *)
(* The process is one event loop, so two handlers interleave exactly at    *)
(* their awaits: an action is the code one handler runs between two of     *)
(* them.  The long await of a login is the scrypt verification, which runs *)
(* on the thread pool while other requests are served; the repository      *)
(* calls are awaits too, because AuthRepository is an asynchronous         *)
(* interface.  find* calls return clones, so a handler decides on what it  *)
(* saw and not on what the store holds by then.                            *)
(*                                                                         *)
(* A login that succeeds creates one session with a fresh random id, so a  *)
(* session is named by the login that created it.  lastSeenAt, updatedAt   *)
(* and lastLoginAt are written and never read, and are left out.           *)
(***************************************************************************)
EXTENDS Integers, FiniteSets

CONSTANTS
  User,              \* ids of the seeded users; nothing adds or removes one
  Login,             \* POST /auth/login requests, and the sessions they create
  Req,               \* guarded requests and POST /auth/logout requests
  None,              \* null, and the token or identifier that nobody has
  SeedStatus,        \* the status each user is seeded with
  Deleted,           \* users seeded with a deletedAt
  Permitted,         \* users whose permission keys grant what the guards ask
  MaxFailedLogins,   \* MAX_FAILED_LOGINS
  LockoutTime,       \* LOCKOUT_MINUTES
  SessionTtl,        \* SESSION_TTL_MINUTES
  MaxTime            \* bound on the clock

ASSUME AuthAssumption ==
  /\ IsFiniteSet(Login)
  /\ None \notin User /\ None \notin Login /\ None \notin Nat
  /\ SeedStatus \in [User -> {"active", "disabled", "pending"}]
  /\ Deleted \subseteq User
  /\ Permitted \subseteq User
  /\ MaxFailedLogins \in Nat \ {0}
  /\ LockoutTime \in Nat \ {0}
  /\ SessionTtl \in Nat \ {0}
  /\ MaxTime \in Nat

VARIABLES
  clock,             \* Date.now()
  status,            \* user.status
  failedLoginCount,  \* user.failedLoginCount
  lockedUntil,       \* user.lockedUntil
  session,           \* the sessions map, and what became of each session
  login,             \* one record per login request
  req,               \* one record per guarded or logout request
  failedSince        \* history: the logins of a user that failed on the
                     \* password since its last successful login

users == <<status, failedLoginCount, lockedUntil>>
vars  == <<clock, status, failedLoginCount, lockedUntil, session, login, req,
           failedSince>>

Time == Nat
Statuses == {"active", "disabled", "pending", "locked"}

\* What findUserByIdentifier returns: a copy of the row.
Snapshot(u) == [status           |-> status[u],
                failedLoginCount |-> failedLoginCount[u],
                lockedUntil      |-> lockedUntil[u]]

Snapshots == [status : Statuses, failedLoginCount : Nat,
              lockedUntil : Time \cup {None}]

NewLogin == [pc |-> "new", user |-> None, correct |-> FALSE, saw |-> None,
             at |-> 0]

NoSession == [state |-> "none", userId |-> None, expiresAt |-> 0]

NewReq == [pc |-> "new", token |-> None, owner |-> None, expiresAt |-> 0,
           revoked |-> FALSE, began |-> 0, after |-> {}]

Init ==
  /\ clock = 0
  /\ status = SeedStatus
  /\ failedLoginCount = [u \in User |-> 0]
  /\ lockedUntil = [u \in User |-> None]
  /\ session = [s \in Login |-> NoSession]
  /\ login = [l \in Login |-> NewLogin]
  /\ req = [r \in Req |-> NewReq]
  /\ failedSince = [u \in User |-> {}]

-----------------------------------------------------------------------------
(* POST /auth/login *)

\* Mutant: the status is not looked at, only lockedUntil, which a slower
\* failure may have cleared.
AllowedToLoginByLock(u) ==
  /\ u \notin Deleted
  /\ lockedUntil[u] = None \/ lockedUntil[u] <= clock

\* isUserAllowedToLogin, evaluated on the snapshot taken by the lookup.
AllowedToLogin(u) ==
  /\ status[u] = "active"
  /\ u \notin Deleted
  /\ lockedUntil[u] = None \/ lockedUntil[u] <= clock

\* The lookup and the check of what it returned; the password is the right
\* one or not, and a request that passes starts scrypt.
LoginFind(l, u, correct) ==
  /\ login[l].pc = "new"
  /\ login' = [login EXCEPT ![l] =
                 [pc      |-> IF AllowedToLogin(u) THEN "verify" ELSE "refused",
                  user    |-> u,
                  correct |-> correct,
                  saw     |-> Snapshot(u),
                  at      |-> clock]]
  /\ UNCHANGED <<clock, users, session, req, failedSince>>

\* No user has this identifier.
LoginUnknown(l) ==
  /\ login[l].pc = "new"
  /\ login' = [login EXCEPT ![l].pc = "refused"]
  /\ UNCHANGED <<clock, users, session, req, failedSince>>

\* scrypt reports an error: verify rejects, the handler answers 500.
LoginVerifyError(l) ==
  /\ login[l].pc = "verify"
  /\ login' = [login EXCEPT ![l].pc = "error"]
  /\ UNCHANGED <<clock, users, session, req, failedSince>>

\* The lock a failed login asks for: decided from the count it saw.
LockFor(l) ==
  IF login[l].saw.failedLoginCount + 1 >= MaxFailedLogins
    THEN clock + LockoutTime ELSE None

\* Mutant: the status follows the lock, so a null lock reopens the account.
IncrementFailedLoginReopens(u, lock) ==
  /\ failedLoginCount' = [failedLoginCount EXCEPT ![u] = @ + 1]
  /\ lockedUntil' = [lockedUntil EXCEPT ![u] = lock]
  /\ status' = [status EXCEPT ![u] = IF lock # None THEN "locked" ELSE "active"]

\* The count is the store's own, the lock the caller's; a null lock clears
\* lockedUntil and keeps the status.
IncrementFailedLogin(u, lock) ==
  /\ failedLoginCount' = [failedLoginCount EXCEPT ![u] = @ + 1]
  /\ lockedUntil' = [lockedUntil EXCEPT ![u] = lock]
  /\ status' = [status EXCEPT ![u] = IF lock # None THEN "locked" ELSE @]

\* Mutant: a success takes one failure back instead of clearing them.
ResetLoginStateByOne(u) ==
  /\ failedLoginCount' = [failedLoginCount EXCEPT ![u] = @ - 1]
  /\ lockedUntil' = [lockedUntil EXCEPT ![u] = None]
  /\ status' = [status EXCEPT ![u] = IF @ = "locked" THEN "active" ELSE @]

\* Whatever the row holds by now, the account is open again.
ResetLoginState(u) ==
  /\ failedLoginCount' = [failedLoginCount EXCEPT ![u] = 0]
  /\ lockedUntil' = [lockedUntil EXCEPT ![u] = None]
  /\ status' = [status EXCEPT ![u] = IF @ = "locked" THEN "active" ELSE @]

LoginWrongPassword(l) ==
  /\ login[l].pc = "verify" /\ ~login[l].correct
  /\ IncrementFailedLogin(login[l].user, LockFor(l))
  /\ login' = [login EXCEPT ![l].pc = "failed", ![l].at = clock]
  /\ failedSince' = [failedSince EXCEPT ![login[l].user] = @ \cup {l}]
  /\ UNCHANGED <<clock, session, req>>

LoginReset(l) ==
  /\ login[l].pc = "verify" /\ login[l].correct
  /\ ResetLoginState(login[l].user)
  /\ login' = [login EXCEPT ![l].pc = "reset", ![l].at = clock]
  /\ failedSince' = [failedSince EXCEPT ![login[l].user] = {}]
  /\ UNCHANGED <<clock, session, req>>

\* createSession; the expiry counts from the time read before the reset.
LoginCreateSession(l) ==
  /\ login[l].pc = "reset"
  /\ session' = [session EXCEPT ![l] =
                   [state     |-> "live",
                    userId    |-> login[l].user,
                    expiresAt |-> login[l].at + SessionTtl]]
  /\ login' = [login EXCEPT ![l].pc = "done"]
  /\ UNCHANGED <<clock, users, req, failedSince>>

-----------------------------------------------------------------------------
(* The guard of a request (authenticate, then assertPermission), and logout. *)

Issued == {s \in Login : session[s].state # "none"}

\* Logouts with token s that have answered.
LoggedOut(s) == {q \in Req : req[q].pc = "left" /\ req[q].token = s}

\* findSessionByTokenHash, on behalf of a guard or of a logout.
FindSession(r, s, next) ==
  /\ req[r].pc = "new"
  /\ req' = [req EXCEPT ![r] =
               [pc        |-> next,
                token     |-> s,
                owner     |-> session[s].userId,
                expiresAt |-> session[s].expiresAt,
                revoked   |-> session[s].state = "revoked",
                began     |-> clock,
                after     |-> LoggedOut(s)]]
  /\ UNCHANGED <<clock, users, session, login, failedSince>>

GuardFindSession(r, s) == s \in Issued /\ FindSession(r, s, "found")

\* No cookie, or a token no session has.
GuardUnknownToken(r) ==
  /\ req[r].pc = "new"
  /\ req' = [req EXCEPT ![r].pc = "refused"]
  /\ UNCHANGED <<clock, users, session, login, failedSince>>

\* Mutant: the revocation is not looked at.
SessionNotExpired(r) == req[r].expiresAt > clock

\* The session the guard looked up, when it looks at it.
SessionUsable(r) == ~req[r].revoked /\ req[r].expiresAt > clock

\* isUserAllowedToUseSession, on the user findUserById returns.
AllowedToUseSession(u) == status[u] = "active" /\ u \notin Deleted

GuardCheckSession(r) ==
  /\ req[r].pc = "found"
  /\ req' = [req EXCEPT ![r].pc =
               IF SessionUsable(r) /\ AllowedToUseSession(req[r].owner)
                 THEN "touch" ELSE "refused"]
  /\ UNCHANGED <<clock, users, session, login, failedSince>>

\* touchSession and the permission lookup have answered: the request is
\* handed to its handler, or answered 403.
GuardPermission(r) ==
  /\ req[r].pc = "touch"
  /\ req' = [req EXCEPT ![r].pc =
               IF req[r].owner \in Permitted THEN "admitted" ELSE "forbidden"]
  /\ UNCHANGED <<clock, users, session, login, failedSince>>

LogoutFind(r, s) == s \in Issued /\ FindSession(r, s, "leaving")

RevokeSession(s) == [session EXCEPT ![s].state = "revoked"]

LogoutRevoke(r) ==
  /\ req[r].pc = "leaving"
  /\ session' = IF req[r].revoked THEN session ELSE RevokeSession(req[r].token)
  /\ req' = [req EXCEPT ![r].pc = "left"]
  /\ UNCHANGED <<clock, users, login, failedSince>>

-----------------------------------------------------------------------------
Tick ==
  /\ clock < MaxTime
  /\ clock' = clock + 1
  /\ UNCHANGED <<users, session, login, req, failedSince>>

LoginStep(l) ==
  \/ \E u \in User, correct \in BOOLEAN : LoginFind(l, u, correct)
  \/ LoginUnknown(l)
  \/ LoginVerifyError(l)
  \/ LoginWrongPassword(l)
  \/ LoginReset(l)
  \/ LoginCreateSession(l)

ReqStep(r) ==
  \/ \E s \in Login : GuardFindSession(r, s) \/ LogoutFind(r, s)
  \/ GuardUnknownToken(r)
  \/ GuardCheckSession(r)
  \/ GuardPermission(r)
  \/ LogoutRevoke(r)

Next == Tick \/ (\E l \in Login : LoginStep(l)) \/ (\E r \in Req : ReqStep(r))

Spec == Init /\ [][Next]_vars

-----------------------------------------------------------------------------
(* Properties *)

LoginPc == {"new", "refused", "verify", "error", "failed", "reset", "done"}
ReqPc   == {"new", "found", "touch", "refused", "forbidden", "admitted",
            "leaving", "left"}

Logins == [pc : LoginPc, user : User \cup {None}, correct : BOOLEAN,
           saw : Snapshots \cup {None}, at : Time]

Sessions == [state : {"none", "live", "revoked"}, userId : User \cup {None},
             expiresAt : Time]

Reqs == [pc : ReqPc, token : Login \cup {None}, owner : User \cup {None},
         expiresAt : Time, revoked : BOOLEAN, began : Time, after : SUBSET Req]

StoreType ==
  /\ clock \in Time
  /\ status \in [User -> Statuses]
  /\ failedLoginCount \in [User -> Nat]
  /\ lockedUntil \in [User -> Time \cup {None}]
  /\ session \in [Login -> Sessions]
  /\ \A s \in Issued : session[s].userId \in User
  /\ failedSince \in [User -> SUBSET Login]

LoginsType ==
  /\ login \in [Login -> Logins]
  /\ \A l \in Login : login[l].pc \notin {"new", "refused"} =>
       login[l].user \in User /\ login[l].saw \in Snapshots

ReqsType ==
  /\ req \in [Req -> Reqs]
  /\ \A r \in Req : req[r].pc \notin {"new", "refused"} =>
       req[r].token \in Issued /\ req[r].owner \in User

\* The shape of the state: the rows, the requests in flight, and what a
\* request past its first await has at hand (a user and what was seen of it,
\* or a session that exists).
TypeOK == StoreType /\ LoginsType /\ ReqsType

Enabled(u) == SeedStatus[u] = "active" /\ u \notin Deleted

\* A failed login is one the threshold applies to when the count it saw was
\* already the last one allowed.
SawThreshold(l) == login[l].saw.failedLoginCount + 1 >= MaxFailedLogins

\* An account is locked exactly when, since its last successful login, some
\* login failed that had seen MAX_FAILED_LOGINS - 1 failures: the lock is
\* decided from a snapshot taken before scrypt, and a slower failure that
\* saw fewer failures clears lockedUntil but never the lock.
LockMatchesThreshold ==
  \A u \in User :
    status[u] = "locked" <=> \E l \in failedSince[u] : SawThreshold(l)

\* No failed login is lost or counted twice, however many are verified at
\* once: the counter is the number of failures since the last success.
FailuresAllCounted ==
  \A u \in User : failedLoginCount[u] = Cardinality(failedSince[u])

\* A disabled, pending or deleted user never holds a session, in whatever
\* order its logins, failures and the logins of others come.
OnlyEnabledUsersHoldSessions ==
  \A s \in Issued : Enabled(session[s].userId)

\* All three: the counter, the lock and the sessions agree with the failures
\* and with the seed, though each login decides on the copy of the user it
\* read before scrypt.
LockIsRight ==
  LockMatchesThreshold /\ FailuresAllCounted /\ OnlyEnabledUsersHoldSessions

\* A request that reaches its handler was sent before the logout of its
\* session answered and while its session had time left, which is
\* SESSION_TTL_MINUTES from the successful password check at most: no guard
\* lets a request pass on an older copy of the session.
NoStaleAdmission ==
  \A r \in Req : req[r].pc = "admitted" =>
    /\ req[r].after = {}
    /\ req[r].began < session[req[r].token].expiresAt
    /\ session[req[r].token].expiresAt <= login[req[r].token].at + SessionTtl

\* A failure of u since its last success that saw the threshold reached, less
\* than LOCKOUT_MINUTES ago.
LockoutRuns(u) ==
  \E m \in failedSince[u] : SawThreshold(m) /\ clock < login[m].at + LockoutTime

\* Until LOCKOUT_MINUTES have passed since a failure that reached the
\* threshold, no login of the user gets as far as its password, also when a
\* slower failure, which saw fewer, has cleared lockedUntil meanwhile; unless a
\* login that was being verified at the time succeeds.
LockoutHolds ==
  [][\A l \in Login : login[l].pc = "new" /\ login'[l].pc = "verify" =>
       ~LockoutRuns(login'[l].user)]_vars

\* auth.service.ts:26 and :128: a lock lasts LOCKOUT_MINUTES, so the right
\* password of an enabled user is not refused once lockedUntil has passed.
\* The code tests status = "active" first, which a lock ended for good.
LockoutExpires ==
  \A l \in Login :
    (login[l].pc = "refused" /\ login[l].user # None /\ login[l].correct) =>
      LET x == login[l] IN
      Enabled(x.user) => x.saw.lockedUntil # None /\ x.saw.lockedUntil > x.at
=============================================================================
