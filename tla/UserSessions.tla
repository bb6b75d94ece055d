---------------------------- MODULE UserSessions ----------------------------
(***************************************************************************)
(* Accounts and login sessions: AuthService, UsersService and their        *)
(* repositories.                                                           *)
(*                                                                         *)
(* A browser logs in and out and, for an administrator or an owner,        *)
(* creates, updates, resets and deletes accounts.  Each request resolves   *)
(* its session by two reads, reads the account it is about, and then runs  *)
(* a transaction; update and disable take an advisory lock first, and      *)
(* their statements are steps of their own, because all other requests run *)
(* in between.                                                             *)
(*                                                                         *)
(* A session that is revoked or has expired is found by nobody, so it is   *)
(* not kept.  Names are left out: a name that is taken is one way the      *)
(* statement that writes it fails.  The audit events of this component are *)
(* no state of the model; what an update will report as the state before   *)
(* it is in req.                                                           *)
(***************************************************************************)
EXTENDS TLC

CONSTANTS
    Browsers,         \* browsers, one request of each at a time
    Users,            \* the accounts there can be
    Roles,            \* the roles given to accounts
    Passwords,
    Tokens,           \* bound: sessions that are open at the same time
    None,             \* no account, session or request
    RequestsMayFail   \* whether a request may die before it is answered

Assignable == Roles \cap {"OWNER", "LEAD_DESIGNER", "WOODWORK_DESIGNER"}
Managers == {"ADMIN", "OWNER"}

VARIABLES
    user,         \* the rows of users, None where there is no row yet
    credential,   \* user_credentials
    session,      \* sessions that are neither revoked nor expired, by token
    cookie,       \* the token a browser holds
    advisory,     \* the browser whose transaction holds the advisory lock
    req           \* the request a browser waits for

vars == <<user, credential, session, cookie, advisory, req>>

UserRow == [status : {"ACTIVE", "DISABLED"}, role : Roles]
SessionRow == [user : Users, password : Passwords]

Operations == {"create", "update", "resetPassword", "remove"}

\* Where a request stands: the statement it runs next.
Steps == {"createSession", "actor", "target", "insert", "reset", "lock",
          "row", "write"}

Request ==
    [op : Operations \cup {"login"}, at : Steps, token : Tokens \cup {None},
     actor : Users \cup {None}, actorRole : Roles \cup {None},
     target : Users, role : Roles \cup {None},
     password : Passwords \cup {None}, before : UserRow \cup {None},
     disabledBefore : SUBSET Users]

ASSUME ConstantsAssumption ==
    /\ "ADMIN" \in Roles
    /\ None \notin Browsers \cup Users \cup Roles \cup Passwords \cup Tokens
    /\ None \notin UserRow \cup SessionRow \cup Request
    /\ RequestsMayFail \in BOOLEAN

Exists(u) == user[u] # None
Active(u) == Exists(u) /\ user[u].status = "ACTIVE"
Disabled == {u \in Users : Exists(u) /\ user[u].status = "DISABLED"}
ActiveAdministrators == {u \in Users : Active(u) /\ user[u].role = "ADMIN"}

\* A step of the transaction that holds the advisory lock.
InManagement(b) == req[b] # None /\ req[b].at \in {"row", "write"}

TypeOK ==
    /\ user \in [Users -> UserRow \cup {None}]
    /\ credential \in [Users -> Passwords \cup {None}]
    /\ \A u \in Users : Exists(u) <=> credential[u] # None
    /\ session \in [Tokens -> SessionRow \cup {None}]
    /\ cookie \in [Browsers -> Tokens \cup {None}]
    /\ advisory \in Browsers \cup {None}
    /\ req \in [Browsers -> Request \cup {None}]

\* The tables after the migrations: no account.
Init ==
    /\ user = [u \in Users |-> None]
    /\ credential = [u \in Users |-> None]
    /\ session = [t \in Tokens |-> None]
    /\ cookie = [b \in Browsers |-> None]
    /\ advisory = None
    /\ req = [b \in Browsers |-> None]

-----------------------------------------------------------------------------
(***************************************************************************)
(* Requests.                                                               *)
(***************************************************************************)
At(b, op, step) == req[b] # None /\ req[b].op \in op /\ req[b].at = step

GoesOn(b, step) == req' = [req EXCEPT ![b].at = step]

\* The answer ends the request, COMMIT or ROLLBACK its transaction, and with
\* the transaction the advisory lock is free.
Answered(b) ==
    /\ req' = [req EXCEPT ![b] = None]
    /\ advisory' = IF advisory = b THEN None ELSE advisory

\* An error ends the request and leaves the tables alone.
Refused(b) == Answered(b) /\ UNCHANGED <<user, credential, session, cookie>>

Reads == UNCHANGED <<user, credential, session, cookie, advisory>>

\* UPDATE auth_sessions SET revoked_at for every session of the account.
Revoked(u) ==
    session' = [t \in Tokens |->
                  IF session[t] # None /\ session[t].user = u
                  THEN None ELSE session[t]]

\* A token nobody holds any more can stand for a new random one.
Fresh(b, t) ==
    /\ session[t] = None
    /\ \A d \in Browsers \ {b} :
          cookie[d] # t /\ (req[d] # None => req[d].token # t)

-----------------------------------------------------------------------------
(***************************************************************************)
(* Login and logout.                                                       *)
(***************************************************************************)

\* findUserByIdentifier and verifyPassword: everything is decided on this one
\* read, and a token is drawn.  A login that fails here writes nothing but an
\* audit event.
Login(b, u, p, t) ==
    /\ req[b] = None
    /\ Fresh(b, t)
    /\ Active(u)
    /\ credential[u] = p
    /\ req' = [req EXCEPT ![b] =
                 [op |-> "login", at |-> "createSession", token |-> t,
                  actor |-> None, actorRole |-> None, target |-> u,
                  role |-> None, password |-> p, before |-> None,
                  disabledBefore |-> Disabled]]
    /\ Reads

\* The row of a user that update or disable has locked; the foreign key of a
\* new session needs it.
RowLocked(u) == \E b \in Browsers : /\ InManagement(b)
                                    /\ req[b].at = "write"
                                    /\ req[b].target = u

CreateSession(b) ==
    /\ At(b, {"login"}, "createSession")
    /\ ~RowLocked(req[b].target)
    /\ session' = [session EXCEPT ![req[b].token] =
                     [user |-> req[b].target, password |-> req[b].password]]
    /\ cookie' = [cookie EXCEPT ![b] = req[b].token]
    /\ Answered(b)
    /\ UNCHANGED <<user, credential>>

\* logout clears the cookie only if the session was still there.
Logout(b) ==
    /\ req[b] = None
    /\ cookie[b] # None
    /\ session[cookie[b]] # None
    /\ session' = [session EXCEPT ![cookie[b]] = None]
    /\ cookie' = [cookie EXCEPT ![b] = None]
    /\ UNCHANGED <<user, credential, advisory, req>>

\* Time passes: expires_at of a session is reached.
Expire(t) ==
    /\ session[t] # None
    /\ session' = [session EXCEPT ![t] = None]
    /\ UNCHANGED <<user, credential, cookie, advisory, req>>

-----------------------------------------------------------------------------
(***************************************************************************)
(* Managing accounts.                                                      *)
(***************************************************************************)

\* A request of /users, about an account of the page's list or a new id;
\* getSessionUser reads the session of its cookie.
Manage(b, op, u, role, p) ==
    /\ req[b] = None
    /\ op = "create" <=> ~Exists(u)
    /\ cookie[b] # None
    /\ session[cookie[b]] # None
    /\ req' = [req EXCEPT ![b] =
                 [op |-> op, at |-> "actor", token |-> None,
                  actor |-> session[cookie[b]].user, actorRole |-> None,
                  target |-> u, role |-> role, password |-> p,
                  before |-> None, disabledBefore |-> Disabled]]
    /\ Reads

AnyUserMayAct(u) == Exists(u)

\* The status test of getSessionUser, on the user's row.
MayAct(u) == Active(u)

\* assertCanAssignRole; an update of the role or a new account.
MayAssign(actorRole, role) == actorRole = "ADMIN" \/ role \in Assignable

\* The user of the session, then assertCanManageUsers and, for create, the
\* role.
FindActor(b) ==
    /\ At(b, Operations, "actor")
    /\ LET u == req[b].actor
           r == user[u].role
           create == req[b].op = "create"
       IN  IF /\ MayAct(u)
              /\ r \in Managers
              /\ create => MayAssign(r, req[b].role)
           THEN /\ req' = [req EXCEPT ![b].actorRole = r,
                                      ![b].at = IF create THEN "insert" ELSE "target"]
                /\ Reads
           ELSE Refused(b)

CreateWithoutCredential(b) ==
    /\ At(b, {"create"}, "insert")
    /\ ~Exists(req[b].target)
    /\ user' = [user EXCEPT ![req[b].target] =
                  [status |-> "ACTIVE", role |-> req[b].role]]
    /\ Answered(b)
    /\ UNCHANGED <<credential, session, cookie>>

\* One statement inserts user and credential, unless a name is taken.
Create(b) ==
    /\ At(b, {"create"}, "insert")
    /\ LET u == req[b].target
       IN  \/ /\ ~Exists(u)
              /\ user' = [user EXCEPT ![u] = [status |-> "ACTIVE", role |-> req[b].role]]
              /\ credential' = [credential EXCEPT ![u] = req[b].password]
              /\ Answered(b)
              /\ UNCHANGED <<session, cookie>>
           \/ Refused(b)

\* findManageableTarget, assertCanAssignRole and assertActive, all on one read
\* of the account.
FindTarget(b) ==
    /\ At(b, Operations, "target")
    /\ LET u == req[b].target
           op == req[b].op
           owner == req[b].actorRole = "OWNER"
       IN  IF /\ Active(u)
              /\ owner => user[u].role # "ADMIN" /\ u # req[b].actor
              /\ op = "update" => MayAssign(req[b].actorRole, req[b].role)
           THEN /\ req' = IF op = "resetPassword"
                          THEN [req EXCEPT ![b].at = "reset"]
                          ELSE [req EXCEPT ![b].at = "lock", ![b].before = user[u]]
                /\ Reads
           ELSE Refused(b)

\* One transaction: the new hash, then every session of the account.
ResetPassword(b) ==
    /\ At(b, {"resetPassword"}, "reset")
    /\ credential' = [credential EXCEPT ![req[b].target] = req[b].password]
    /\ Revoked(req[b].target)
    /\ Answered(b)
    /\ UNCHANGED <<user, cookie>>

LockNothing(b) ==
    /\ At(b, {"update", "remove"}, "lock")
    /\ GoesOn(b, "row")
    /\ Reads

\* lockUserManagement: pg_advisory_xact_lock.
LockUserManagement(b) ==
    /\ At(b, {"update", "remove"}, "lock")
    /\ advisory = None
    /\ advisory' = b
    /\ GoesOn(b, "row")
    /\ UNCHANGED <<user, credential, session, cookie>>

\* The last active administrator is in question: disable asks for any such
\* account, update for one that is to lose the role.
EndsAdministrator(b) ==
    LET row == user[req[b].target]
    IN  /\ row.role = "ADMIN"
        /\ row.status = "ACTIVE"
        /\ req[b].op = "update" => req[b].role # "ADMIN"

\* SELECT ... FOR UPDATE of the account, and assertAnotherActiveAdministrator.
LockRow(b) ==
    /\ At(b, {"update", "remove"}, "row")
    /\ IF EndsAdministrator(b) => ActiveAdministrators \ {req[b].target} # {}
       THEN GoesOn(b, "write") /\ Reads
       ELSE Refused(b)

\* The new role, unless the new account name is taken.  The status the account
\* had when the service read it is not compared again.
Update(b) ==
    /\ At(b, {"update"}, "write")
    /\ \/ /\ user' = [user EXCEPT ![req[b].target].role = req[b].role]
          /\ Answered(b)
          /\ UNCHANGED <<credential, session, cookie>>
       \/ Refused(b)

\* The account and all its sessions, in one transaction.
Disable(b) ==
    /\ At(b, {"remove"}, "write")
    /\ user' = [user EXCEPT ![req[b].target].status = "DISABLED"]
    /\ Revoked(req[b].target)
    /\ Answered(b)
    /\ UNCHANGED <<credential, cookie>>

-----------------------------------------------------------------------------
\* bootstrap-admin.mjs: the operator makes the first administrator, and does
\* nothing where there is one, active or not.
Bootstrap(u, p) ==
    /\ \A v \in Users : Exists(v) => user[v].role # "ADMIN"
    /\ ~Exists(u)
    /\ user' = [user EXCEPT ![u] = [status |-> "ACTIVE", role |-> "ADMIN"]]
    /\ credential' = [credential EXCEPT ![u] = p]
    /\ UNCHANGED <<session, cookie, advisory, req>>

\* The connection is lost before the commit, or the answer is.
Fail(b) == RequestsMayFail /\ req[b] # None /\ Refused(b)

Serve(b) ==
    \/ CreateSession(b) \/ FindActor(b)
    \/ FindTarget(b) \/ Create(b) \/ ResetPassword(b)
    \/ LockUserManagement(b) \/ LockRow(b) \/ Update(b) \/ Disable(b)

Browse(b) ==
    \/ \E u \in Users, p \in Passwords :
          \/ \E t \in Tokens : Login(b, u, p, t)
          \/ Manage(b, "resetPassword", u, None, p)
    \/ Logout(b)
    \/ \E u \in Users, r \in Roles :
          \/ \E p \in Passwords : Manage(b, "create", u, r, p)
          \/ Manage(b, "update", u, r, None)
    \/ \E u \in Users : Manage(b, "remove", u, None, None)

Next ==
    \/ \E b \in Browsers : Serve(b) \/ Browse(b) \/ Fail(b)
    \/ \E t \in Tokens : Expire(t)
    \/ \E u \in Users, p \in Passwords : Bootstrap(u, p)

Spec == Init /\ [][Next]_vars

-----------------------------------------------------------------------------
(***************************************************************************)
(* Properties that hold.                                                   *)
(***************************************************************************)

\* Once there is an account there is an administrator who can log in, whoever
\* demotes or deletes whom at the same time (LastActiveAdministratorError).
AdministratorRemains ==
    (\A u \in Users : ~Exists(u)) \/ ActiveAdministrators # {}

\* Nothing a browser sends after its user was deleted is carried out in that
\* user's name, even with a session the deletion did not revoke.
DeletedActNoMore ==
    \A b \in Browsers :
        (req[b] # None /\ req[b].actorRole # None)
            => req[b].actor \notin req[b].disabledBefore

\* Whatever ends a request, an error, a lost connection or its success, the
\* advisory lock is held by a transaction that goes on or by none, and no two
\* transactions are past it.
OneManagesAtATime ==
    \A b \in Browsers : InManagement(b) <=> advisory = b

(***************************************************************************)
(* What the user interface says and the code does not do.                  *)
(***************************************************************************)

\* After a reset no session lives that was opened with another password.
ResetEndsSessions ==
    \A t \in Tokens :
        session[t] # None => session[t].password = credential[session[t].user]

=============================================================================
