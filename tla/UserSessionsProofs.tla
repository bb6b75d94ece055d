------------------------- MODULE UserSessionsProofs -------------------------
(***************************************************************************)
(* Proofs about UserSessions, for any browsers, accounts, roles and        *)
(* passwords, and with or without requests that get lost.                  *)
(***************************************************************************)
EXTENDS UserSessions, TLAPS

\* What a request carries from one step to the next.
Carries(r) ==
    /\ r.op = "login" => r.token \in Tokens /\ user[r.target] # None
    /\ r.op # "login" => r.actor \in Users /\ user[r.actor] # None
    /\ r.op \in {"login", "create", "resetPassword"} => r.password \in Passwords
    /\ r.op \in {"create", "update"} => r.role \in Roles
    /\ r.at = "target" => r.op # "create"
    /\ r.at \in {"reset", "lock", "row", "write"} => user[r.target] # None
    /\ r.at \in {"lock", "row", "write"} => r.op \in {"update", "remove"}

Carried == \A b \in Browsers : req[b] # None => Carries(req[b])

\* The foreign key of auth_sessions.
SessionsHaveUsers ==
    \A t \in Tokens : session[t] # None => user[session[t].user] # None

\* Between the check for another administrator and the write that relies on it.
AnotherRemains ==
    \A b \in Browsers :
        (At(b, {"update", "remove"}, "write") /\ EndsAdministrator(b))
            => ActiveAdministrators \ {req[b].target} # {}

\* The inductive invariant.  AdministratorRemains alone is not inductive: the
\* write does not repeat the check, so it needs what was checked to stay true
\* (AnotherRemains), which holds as nobody else writes (OneManagesAtATime).
IInv ==
    /\ TypeOK
    /\ SessionsHaveUsers
    /\ Carried
    /\ OneManagesAtATime
    /\ AnotherRemains
    /\ AdministratorRemains

-----------------------------------------------------------------------------
LEMMA InitInvariant == Init => IInv
  BY ConstantsAssumption
  DEF Init, IInv, TypeOK, SessionsHaveUsers, Exists, Carried, OneManagesAtATime, InManagement,
      AnotherRemains, At, AdministratorRemains

\* The accounts a step leaves alone: nothing else can break the last two parts.
LEMMA AccountsUntouched ==
    ASSUME IInv, UNCHANGED user,
           \A b \in Browsers :
              At(b, {"update", "remove"}, "write")' =>
                 \/ /\ At(b, {"update", "remove"}, "write")
                    /\ req'[b] = req[b]
                 \/ /\ EndsAdministrator(b)' =>
                          ActiveAdministrators \ {req'[b].target} # {}
    PROVE  AnotherRemains' /\ AdministratorRemains'
  <1>1. ActiveAdministrators' = ActiveAdministrators
    BY DEF ActiveAdministrators, Active, Exists
  <1>2. AdministratorRemains'
    BY <1>1 DEF IInv, AdministratorRemains, Exists
  <1>3. ASSUME NEW b \in Browsers, At(b, {"update", "remove"}, "write")',
               EndsAdministrator(b)'
        PROVE  (ActiveAdministrators \ {req[b].target})' # {}
    <2>1. CASE At(b, {"update", "remove"}, "write") /\ req'[b] = req[b]
      <3>1. EndsAdministrator(b)
        BY <1>3, <2>1 DEF EndsAdministrator
      <3> QED BY <1>1, <2>1, <3>1 DEF IInv, AnotherRemains
    <2>2. CASE ActiveAdministrators \ {req'[b].target} # {}
      BY <1>1, <2>2
    <2> QED BY <1>3, <2>1, <2>2
  <1> QED BY <1>2, <1>3 DEF AnotherRemains

\* A new account never takes an administrator away, and it is nobody's target.
LEMMA AccountAdded ==
    ASSUME IInv, NEW u \in Users, ~Exists(u), NEW r \in UserRow,
           user' = [user EXCEPT ![u] = r],
           (r.role = "ADMIN" /\ r.status = "ACTIVE") \/ ActiveAdministrators # {},
           \A b \in Browsers :
              At(b, {"update", "remove"}, "write")' =>
                 At(b, {"update", "remove"}, "write") /\ req'[b] = req[b]
    PROVE  AnotherRemains' /\ AdministratorRemains'
  <1>1. user \in [Users -> UserRow \cup {None}]
    BY DEF IInv, TypeOK
  <1>2. None \notin UserRow
    BY ConstantsAssumption
  <1>3. ActiveAdministrators \subseteq ActiveAdministrators'
    BY <1>1, <1>2 DEF ActiveAdministrators, Active, Exists
  <1>4. AdministratorRemains'
    <2>1. CASE ActiveAdministrators # {}
      BY <1>3, <2>1 DEF AdministratorRemains
    <2>2. CASE r.role = "ADMIN" /\ r.status = "ACTIVE"
      <3>1. u \in ActiveAdministrators'
        BY <1>1, <1>2, <2>2 DEF ActiveAdministrators, Active, Exists
      <3> QED BY <3>1 DEF AdministratorRemains
    <2> QED BY <2>1, <2>2
  <1>5. ASSUME NEW b \in Browsers, At(b, {"update", "remove"}, "write")',
               EndsAdministrator(b)'
        PROVE  (ActiveAdministrators \ {req[b].target})' # {}
    <2>1. At(b, {"update", "remove"}, "write") /\ req'[b] = req[b]
      BY <1>5
    <2>2. user[req[b].target] # None
      BY <2>1 DEF At, IInv, Carried, Carries
    <2>3. req[b].target \in Users
      BY <2>1 DEF At, IInv, TypeOK, Request
    <2>4. user'[req[b].target] = user[req[b].target]
      BY <1>1, <2>2, <2>3 DEF Exists
    <2>5. EndsAdministrator(b)
      BY <1>5, <2>1, <2>4 DEF EndsAdministrator
    <2>6. ActiveAdministrators \ {req[b].target} # {}
      BY <2>1, <2>5 DEF IInv, AnotherRemains
    <2> QED BY <1>3, <2>1, <2>6
  <1> QED BY <1>4, <1>5 DEF AnotherRemains

-----------------------------------------------------------------------------
(***************************************************************************)
(* A request that ends, and one that goes on.                              *)
(***************************************************************************)
LEMMA AnsweredKeeps ==
    ASSUME IInv, NEW b \in Browsers, Answered(b),
           \A u \in Users : user[u] # None => user'[u] # None
    PROVE  /\ req' \in [Browsers -> Request \cup {None}]
           /\ advisory' \in Browsers \cup {None}
           /\ Carried'
           /\ OneManagesAtATime'
           /\ \A d \in Browsers :
                 At(d, {"update", "remove"}, "write")' =>
                    /\ At(d, {"update", "remove"}, "write")
                    /\ req'[d] = req[d]
                    /\ d # b
  <1>1. /\ req \in [Browsers -> Request \cup {None}]
        /\ advisory \in Browsers \cup {None}
    BY DEF IInv, TypeOK
  <1>2. req' = [req EXCEPT ![b] = None]
    BY DEF Answered
  <1>3. req' \in [Browsers -> Request \cup {None}] /\ advisory' \in Browsers \cup {None}
    BY <1>1 DEF Answered
  <1>4. \A d \in Browsers : req'[d] # None => d # b /\ req'[d] = req[d]
    BY <1>1, <1>2
  <1>5. Carried'
    <2> SUFFICES ASSUME NEW d \in Browsers, req'[d] # None
                 PROVE  Carries(req[d])'
      BY DEF Carried
    <2>1. req'[d] = req[d] /\ Carries(req[d]) /\ req[d] \in Request
      BY <1>1, <1>4 DEF IInv, Carried
    <2>2. req[d].target \in Users
      BY <2>1 DEF Request
    <2> QED BY <2>1, <2>2 DEF Carries
  <1>6. OneManagesAtATime'
    <2>1. \A d \in Browsers : InManagement(d) <=> advisory = d
      BY DEF IInv, OneManagesAtATime
    <2>2. None \notin Browsers
      BY ConstantsAssumption
    <2> QED BY <1>1, <1>2, <1>4, <2>1, <2>2
        DEF OneManagesAtATime, InManagement, Answered
  <1> QED BY <1>3, <1>4, <1>5, <1>6 DEF At

\* An error changes nothing but the request.
LEMMA RefusedKeeps ==
    ASSUME IInv, NEW b \in Browsers, Refused(b)
    PROVE  IInv'
  <1>1. Answered(b) /\ UNCHANGED <<user, credential, session, cookie>>
    BY DEF Refused
  <1>2. TypeOK'
    BY <1>1, AnsweredKeeps DEF IInv, TypeOK, Exists
  <1>3. Carried' /\ OneManagesAtATime' /\ SessionsHaveUsers'
    BY <1>1, AnsweredKeeps DEF IInv, SessionsHaveUsers
  <1>4. AnotherRemains' /\ AdministratorRemains'
    BY <1>1, AnsweredKeeps, AccountsUntouched
  <1> QED BY <1>2, <1>3, <1>4 DEF IInv

\* A request that begins or goes on and is not past the advisory lock.
LEMMA GoingOnKeeps ==
    ASSUME IInv, NEW b \in Browsers, NEW r \in Request, Reads,
           req' = [req EXCEPT ![b] = r], Carries(r),
           r.at \notin {"row", "write"},
           ~InManagement(b)
    PROVE  IInv'
  <1>1. /\ req \in [Browsers -> Request \cup {None}]
        /\ UNCHANGED <<user, credential, session, cookie, advisory>>
    BY DEF IInv, TypeOK, Reads
  <1>2. TypeOK'
    BY <1>1 DEF IInv, TypeOK, Exists
  <1>3. \A d \in Browsers : req'[d] = IF d = b THEN r ELSE req[d]
    BY <1>1
  <1>4. Carried'
    <2> SUFFICES ASSUME NEW d \in Browsers, req'[d] # None
                 PROVE  Carries(req[d])'
      BY DEF Carried
    <2>1. Carries(req'[d])
      BY <1>3 DEF IInv, Carried
    <2> QED BY <1>1, <2>1 DEF Carries
  <1>5. OneManagesAtATime' /\ SessionsHaveUsers'
    BY <1>1, <1>3 DEF IInv, OneManagesAtATime, InManagement, SessionsHaveUsers
  <1>6. \A d \in Browsers :
           At(d, {"update", "remove"}, "write")' =>
              At(d, {"update", "remove"}, "write") /\ req'[d] = req[d]
    BY <1>3 DEF At
  <1>7. AnotherRemains' /\ AdministratorRemains'
    BY <1>1, <1>6, AccountsUntouched
  <1> QED BY <1>2, <1>4, <1>5, <1>7 DEF IInv

-----------------------------------------------------------------------------
(***************************************************************************)
(* Each action.                                                            *)
(***************************************************************************)
LEMMA LoginKeeps ==
    ASSUME IInv, NEW b \in Browsers, NEW u \in Users, NEW p \in Passwords,
           NEW t \in Tokens, Login(b, u, p, t)
    PROVE  IInv'
  <1> DEFINE r == [op |-> "login", at |-> "createSession", token |-> t,
                   actor |-> None, actorRole |-> None, target |-> u,
                   role |-> None, password |-> p, before |-> None,
                   disabledBefore |-> Disabled]
  <1>1. r \in Request
    BY DEF Request, Steps, Operations, Disabled
  <1>2. Carries(r)
    BY DEF Carries, Login, Active, Exists
  <1>3. ~InManagement(b)
    BY DEF Login, InManagement
  <1>4. Reads /\ req' = [req EXCEPT ![b] = r]
    BY DEF Login
  <1> QED BY <1>1, <1>2, <1>3, <1>4, GoingOnKeeps

LEMMA ManageKeeps ==
    ASSUME IInv, NEW b \in Browsers, NEW op \in Operations, NEW u \in Users,
           NEW role \in Roles \cup {None}, NEW p \in Passwords \cup {None},
           op \in {"create", "update"} => role \in Roles,
           op \in {"create", "resetPassword"} => p \in Passwords,
           Manage(b, op, u, role, p)
    PROVE  IInv'
  <1> DEFINE a == session[cookie[b]].user
             r == [op |-> op, at |-> "actor", token |-> None,
                   actor |-> a, actorRole |-> None,
                   target |-> u, role |-> role, password |-> p,
                   before |-> None, disabledBefore |-> Disabled]
  <1>1. cookie[b] \in Tokens /\ session[cookie[b]] \in SessionRow
    BY DEF Manage, IInv, TypeOK
  <1>2. a \in Users /\ user[a] # None
    BY <1>1 DEF SessionRow, Manage, IInv, SessionsHaveUsers
  <1>3. r \in Request
    BY <1>2 DEF Request, Steps, Operations, Disabled
  <1>4. Carries(r)
    BY <1>2 DEF Carries, Operations
  <1>5. ~InManagement(b)
    BY DEF Manage, InManagement
  <1>6. Reads /\ req' = [req EXCEPT ![b] = r]
    BY DEF Manage
  <1> QED BY <1>3, <1>4, <1>5, <1>6, GoingOnKeeps

\* The statements before the advisory lock that only read.
LEMMA FindingKeeps ==
    ASSUME IInv, NEW b \in Browsers, FindActor(b) \/ FindTarget(b)
    PROVE  IInv'
  <1>1. req[b] \in Request /\ req \in [Browsers -> Request \cup {None}]
    BY DEF FindActor, FindTarget, At, IInv, TypeOK
  <1>2. Carries(req[b])
    BY DEF FindActor, FindTarget, At, IInv, Carried
  <1>3. ~InManagement(b)
    BY DEF FindActor, FindTarget, At, InManagement
  <1>4. CASE Refused(b)
    BY <1>4, RefusedKeeps
  <1>5. CASE FindActor(b) /\ ~Refused(b)
    <2> DEFINE u == req[b].actor
               at == IF req[b].op = "create" THEN "insert" ELSE "target"
               r == [req[b] EXCEPT !.actorRole = user[u].role, !.at = at]
    <2>1. req[b].op \in Operations /\ req[b].at = "actor"
      BY <1>5 DEF FindActor, At
    <2>2. u \in Users /\ user[u] # None
      BY <1>2, <2>1 DEF Carries, Operations
    <2>3. user[u].role \in Roles
      BY <2>2 DEF IInv, TypeOK, UserRow
    <2>a. at \in Steps
      BY DEF Steps
    <2>4. r \in Request
      BY <1>1, <2>3, <2>a DEF Request
    <2>5. Carries(r)
      BY <1>1, <1>2 DEF Carries, Request
    <2>6. Reads /\ req' = [req EXCEPT ![b] = r]
      BY <1>1, <1>5 DEF FindActor
    <2>7. r.at \notin {"row", "write"}
      BY <1>1 DEF Request
    <2> QED BY <1>3, <2>4, <2>5, <2>6, <2>7, GoingOnKeeps
  <1>6. CASE FindTarget(b) /\ ~Refused(b)
    <2> DEFINE u == req[b].target
               reset == [req[b] EXCEPT !.at = "reset"]
               lock == [req[b] EXCEPT !.at = "lock", !.before = user[u]]
    <2>1. req[b].op \in Operations /\ req[b].at = "target"
      BY <1>6 DEF FindTarget, At
    <2>3. u \in Users /\ user[u] # None
      BY <1>1, <1>6 DEF FindTarget, Active, Exists, Request
    <2>4. user[u] \in UserRow
      BY <2>3 DEF IInv, TypeOK
    <2>5. reset \in Request /\ lock \in Request
      BY <1>1, <2>4 DEF Request, Steps
    <2>6. Reads
      BY <1>6 DEF FindTarget
    <2>7. CASE req[b].op = "resetPassword"
      <3>1. req' = [req EXCEPT ![b] = reset]
        BY <1>1, <1>6, <2>7 DEF FindTarget
      <3>2. Carries(reset)
        BY <1>1, <1>2, <2>3 DEF Carries, Request
      <3>3. reset.at \notin {"row", "write"}
        BY <1>1 DEF Request
      <3> QED BY <1>3, <2>5, <2>6, <3>1, <3>2, <3>3, GoingOnKeeps
    <2>8. CASE req[b].op # "resetPassword"
      <3>1. req' = [req EXCEPT ![b] = lock]
        BY <1>1, <1>6, <2>8 DEF FindTarget
      <3>2. Carries(lock)
        BY <1>1, <1>2, <2>1, <2>3, <2>8 DEF Carries, Request, Operations
      <3>3. lock.at \notin {"row", "write"}
        BY <1>1 DEF Request
      <3> QED BY <1>3, <2>5, <2>6, <3>1, <3>2, <3>3, GoingOnKeeps
    <2> QED BY <2>7, <2>8
  <1> QED BY <1>4, <1>5, <1>6

LEMMA LockKeeps ==
    ASSUME IInv, NEW b \in Browsers, LockUserManagement(b)
    PROVE  IInv'
  <1>1. /\ req \in [Browsers -> Request \cup {None}]
        /\ req[b] \in Request
        /\ req[b].op \in {"update", "remove"} /\ req[b].at = "lock"
        /\ advisory = None /\ advisory' = b
        /\ UNCHANGED <<user, credential, session, cookie>>
    BY DEF IInv, TypeOK, LockUserManagement, At
  <1> DEFINE r == [req[b] EXCEPT !.at = "row"]
  <1>2. req' = [req EXCEPT ![b] = r]
    BY <1>1 DEF LockUserManagement, GoesOn
  <1>3. r \in Request /\ r.at = "row" /\ Carries(r)
    <2>1. Carries(req[b]) /\ "row" \in Steps
      BY <1>1 DEF LockUserManagement, At, IInv, Carried, Steps
    <2>2. r \in Request /\ r.at = "row"
      BY <1>1, <2>1 DEF Request
    <2> QED BY <1>1, <2>1, <2>2 DEF Request, Carries
  <1>4. \A d \in Browsers : req'[d] = IF d = b THEN r ELSE req[d]
    BY <1>1, <1>2
  <1>5. TypeOK'
    BY <1>1, <1>2, <1>3 DEF IInv, TypeOK, Exists
  <1>6. Carried'
    <2> SUFFICES ASSUME NEW d \in Browsers, req'[d] # None
                 PROVE  Carries(req[d])'
      BY DEF Carried
    <2>1. Carries(req'[d])
      BY <1>3, <1>4 DEF IInv, Carried
    <2> QED BY <1>1, <2>1 DEF Carries
  <1>7. OneManagesAtATime'
    <2>1. None \notin Request /\ None \notin Browsers
      BY ConstantsAssumption
    <2>2. \A d \in Browsers : ~InManagement(d)
      BY <1>1, <2>1 DEF IInv, OneManagesAtATime
    <2> QED BY <1>1, <1>3, <1>4, <2>1, <2>2 DEF OneManagesAtATime, InManagement
  <1>8. SessionsHaveUsers'
    BY <1>1 DEF IInv, SessionsHaveUsers
  <1>9. AnotherRemains' /\ AdministratorRemains'
    BY <1>1, <1>3, <1>4, AccountsUntouched DEF At
  <1> QED BY <1>5, <1>6, <1>7, <1>8, <1>9 DEF IInv

\* The check for another administrator, which AnotherRemains remembers.
LEMMA LockRowKeeps ==
    ASSUME IInv, NEW b \in Browsers, LockRow(b)
    PROVE  IInv'
  <1>1. CASE Refused(b)
    BY <1>1, RefusedKeeps
  <1>2. CASE ~Refused(b)
    <2>1. /\ req \in [Browsers -> Request \cup {None}]
          /\ req[b] \in Request
          /\ req[b].op \in {"update", "remove"} /\ req[b].at = "row"
          /\ UNCHANGED <<user, credential, session, cookie, advisory>>
          /\ EndsAdministrator(b) => ActiveAdministrators \ {req[b].target} # {}
      BY <1>2 DEF IInv, TypeOK, LockRow, At, Reads
    <2> DEFINE r == [req[b] EXCEPT !.at = "write"]
    <2>2. req' = [req EXCEPT ![b] = r]
      BY <1>2, <2>1 DEF LockRow, GoesOn
    <2>3. /\ r \in Request /\ r.at = "write" /\ Carries(r)
          /\ r.op = req[b].op /\ r.target = req[b].target /\ r.role = req[b].role
      <3>1. Carries(req[b]) /\ "write" \in Steps
        BY <2>1 DEF LockRow, At, IInv, Carried, Steps
      <3>2. r \in Request /\ r.at = "write"
        BY <2>1, <3>1 DEF Request
      <3> QED BY <2>1, <3>1, <3>2 DEF Request, Carries
    <2>4. \A d \in Browsers : req'[d] = IF d = b THEN r ELSE req[d]
      BY <2>1, <2>2
    <2>5. TypeOK'
      BY <2>1, <2>2, <2>3 DEF IInv, TypeOK, Exists
    <2>6. Carried'
      <3> SUFFICES ASSUME NEW d \in Browsers, req'[d] # None
                   PROVE  Carries(req[d])'
        BY DEF Carried
      <3>1. Carries(req'[d])
        BY <2>3, <2>4 DEF IInv, Carried
      <3> QED BY <2>1, <3>1 DEF Carries
    <2>7. OneManagesAtATime'
      <3>1. None \notin Request
        BY ConstantsAssumption
      <3>2. InManagement(b) /\ \A d \in Browsers : InManagement(d) <=> advisory = d
        BY <2>1, <3>1 DEF IInv, OneManagesAtATime, InManagement
      <3> QED BY <2>1, <2>3, <2>4, <3>1, <3>2 DEF OneManagesAtATime, InManagement
    <2>8. SessionsHaveUsers'
      BY <2>1 DEF IInv, SessionsHaveUsers
    <2>9. EndsAdministrator(b)' => ActiveAdministrators \ {req'[b].target} # {}
      BY <2>1, <2>3, <2>4 DEF EndsAdministrator
    <2>10. AnotherRemains' /\ AdministratorRemains'
      BY <2>1, <2>4, <2>9, AccountsUntouched DEF At
    <2> QED BY <2>5, <2>6, <2>7, <2>8, <2>10 DEF IInv
  <1> QED BY <1>1, <1>2

\* Sessions begin and end without touching an account.
LEMMA SessionsKeep ==
    ASSUME IInv,
           \/ \E b \in Browsers : CreateSession(b) \/ Logout(b) \/ ResetPassword(b)
           \/ \E t \in Tokens : Expire(t)
    PROVE  IInv'
  <1>1. ASSUME NEW b \in Browsers, CreateSession(b)
        PROVE  IInv'
    <2>1. req[b] \in Request /\ Carries(req[b]) /\ req[b].op = "login"
      BY <1>1 DEF CreateSession, At, IInv, TypeOK, Carried
    <2>2. /\ req[b].token \in Tokens /\ req[b].password \in Passwords
          /\ req[b].target \in Users /\ user[req[b].target] # None
      BY <2>1 DEF Carries, Request
    <2>3. Answered(b) /\ UNCHANGED <<user, credential>>
      BY <1>1 DEF CreateSession
    <2>4. SessionsHaveUsers' /\ session' \in [Tokens -> SessionRow \cup {None}]
      BY <1>1, <2>2 DEF CreateSession, IInv, TypeOK, SessionsHaveUsers, SessionRow
    <2>5. cookie' \in [Browsers -> Tokens \cup {None}]
      BY <1>1, <2>2 DEF CreateSession, IInv, TypeOK
    <2>6. TypeOK' /\ Carried' /\ OneManagesAtATime'
      BY <2>3, <2>4, <2>5, AnsweredKeeps DEF IInv, TypeOK, Exists
    <2>7. AnotherRemains' /\ AdministratorRemains'
      BY <2>3, AnsweredKeeps, AccountsUntouched
    <2> QED BY <2>4, <2>6, <2>7 DEF IInv
  <1>2. ASSUME NEW b \in Browsers, ResetPassword(b)
        PROVE  IInv'
    <2>1. req[b] \in Request /\ Carries(req[b])
          /\ req[b].op = "resetPassword" /\ req[b].at = "reset"
      BY <1>2 DEF ResetPassword, At, IInv, TypeOK, Carried
    <2>2. /\ req[b].password \in Passwords
          /\ req[b].target \in Users /\ user[req[b].target] # None
      BY <2>1 DEF Carries, Request
    <2>3. Answered(b) /\ UNCHANGED <<user, cookie>>
      BY <1>2 DEF ResetPassword
    <2>4. SessionsHaveUsers' /\ session' \in [Tokens -> SessionRow \cup {None}]
      BY <1>2, <2>3 DEF ResetPassword, Revoked, IInv, TypeOK, SessionsHaveUsers
    <2>5. /\ credential' \in [Users -> Passwords \cup {None}]
          /\ \A u \in Users : user[u] # None <=> credential'[u] # None
      BY <1>2, <2>2, ConstantsAssumption DEF ResetPassword, IInv, TypeOK, Exists
    <2>6. TypeOK' /\ Carried' /\ OneManagesAtATime'
      BY <2>3, <2>4, <2>5, AnsweredKeeps DEF IInv, TypeOK, Exists
    <2>7. AnotherRemains' /\ AdministratorRemains'
      BY <2>3, AnsweredKeeps, AccountsUntouched
    <2> QED BY <2>4, <2>6, <2>7 DEF IInv
  <1>3. ASSUME NEW t \in Tokens, session' = [session EXCEPT ![t] = None],
               cookie' \in [Browsers -> Tokens \cup {None}],
               UNCHANGED <<user, credential, advisory, req>>
        PROVE  IInv'
    <2>1. TypeOK'
      BY <1>3 DEF IInv, TypeOK, Exists
    <2>2. SessionsHaveUsers'
      BY <1>3 DEF IInv, TypeOK, SessionsHaveUsers
    <2>3. Carried'
      BY <1>3 DEF IInv, Carried, Carries
    <2>4. OneManagesAtATime'
      BY <1>3 DEF IInv, OneManagesAtATime, InManagement
    <2>5. AnotherRemains' /\ AdministratorRemains'
      BY <1>3, AccountsUntouched DEF At
    <2> QED BY <2>1, <2>2, <2>3, <2>4, <2>5 DEF IInv
  <1>4. ASSUME NEW b \in Browsers, Logout(b)
        PROVE  IInv'
    <2>1. cookie[b] \in Tokens /\ cookie' \in [Browsers -> Tokens \cup {None}]
      BY <1>4 DEF Logout, IInv, TypeOK
    <2> QED BY <1>3, <1>4, <2>1 DEF Logout
  <1>5. ASSUME NEW t \in Tokens, Expire(t)
        PROVE  IInv'
    BY <1>3, <1>5 DEF Expire, IInv, TypeOK
  <1> QED BY <1>1, <1>2, <1>4, <1>5

-----------------------------------------------------------------------------
(***************************************************************************)
(* The actions that write accounts.                                        *)
(***************************************************************************)
LEMMA CreateKeeps ==
    ASSUME IInv, NEW b \in Browsers, Create(b)
    PROVE  IInv'
  <1>1. CASE Refused(b)
    BY <1>1, RefusedKeeps
  <1>2. CASE ~Refused(b)
    <2> DEFINE u == req[b].target
               r == [status |-> "ACTIVE", role |-> req[b].role]
    <2>1. req[b] \in Request /\ Carries(req[b]) /\ req[b].op = "create"
      BY <1>2 DEF Create, At, IInv, TypeOK, Carried
    <2>2. u \in Users /\ r \in UserRow /\ req[b].password \in Passwords
      BY <2>1 DEF Request, Carries, UserRow
    <2>3. /\ ~Exists(u)
          /\ user' = [user EXCEPT ![u] = r]
          /\ credential' = [credential EXCEPT ![u] = req[b].password]
          /\ Answered(b)
          /\ UNCHANGED <<session, cookie>>
      BY <1>2 DEF Create
    <2>4. /\ user \in [Users -> UserRow \cup {None}]
          /\ credential \in [Users -> Passwords \cup {None}]
          /\ None \notin UserRow /\ None \notin Passwords
      BY ConstantsAssumption DEF IInv, TypeOK
    <2>5. \A v \in Users : user[v] # None => user'[v] # None
      BY <2>2, <2>3, <2>4
    <2>6. /\ user' \in [Users -> UserRow \cup {None}]
          /\ credential' \in [Users -> Passwords \cup {None}]
          /\ \A v \in Users : user'[v] # None <=> credential'[v] # None
      BY <2>2, <2>3, <2>4 DEF IInv, TypeOK, Exists
    <2>7. TypeOK' /\ Carried' /\ OneManagesAtATime'
      BY <2>3, <2>5, <2>6, AnsweredKeeps DEF IInv, TypeOK, Exists
    <2>8. SessionsHaveUsers'
      BY <2>3, <2>5 DEF IInv, TypeOK, SessionsHaveUsers, SessionRow
    <2>9. ActiveAdministrators # {}
      BY <2>1 DEF Carries, IInv, AdministratorRemains, Exists
    <2>10. AnotherRemains' /\ AdministratorRemains'
      BY <2>2, <2>3, <2>5, <2>9, AnsweredKeeps, AccountAdded
    <2> QED BY <2>7, <2>8, <2>10 DEF IInv
  <1> QED BY <1>1, <1>2

LEMMA BootstrapKeeps ==
    ASSUME IInv, NEW u \in Users, NEW p \in Passwords, Bootstrap(u, p)
    PROVE  IInv'
  <1> DEFINE r == [status |-> "ACTIVE", role |-> "ADMIN"]
  <1>1. /\ user \in [Users -> UserRow \cup {None}]
        /\ credential \in [Users -> Passwords \cup {None}]
        /\ None \notin UserRow /\ None \notin Passwords
        /\ r \in UserRow
    BY ConstantsAssumption DEF IInv, TypeOK, UserRow
  <1>2. /\ ~Exists(u)
        /\ user' = [user EXCEPT ![u] = r]
        /\ credential' = [credential EXCEPT ![u] = p]
        /\ UNCHANGED <<session, cookie, advisory, req>>
    BY DEF Bootstrap
  <1>3. \A v \in Users : user[v] # None => user'[v] # None
    BY <1>1, <1>2
  <1>4. TypeOK'
    BY <1>1, <1>2 DEF IInv, TypeOK, Exists
  <1>5. SessionsHaveUsers'
    BY <1>2, <1>3 DEF IInv, TypeOK, SessionsHaveUsers, SessionRow
  <1>6. Carried'
    <2> SUFFICES ASSUME NEW b \in Browsers, req[b] # None
                 PROVE  Carries(req[b])'
      BY <1>2 DEF Carried
    <2>1. Carries(req[b]) /\ req[b].target \in Users
      BY DEF IInv, Carried, TypeOK, Request
    <2> QED BY <1>2, <1>3, <2>1 DEF Carries
  <1>7. OneManagesAtATime'
    BY <1>2 DEF IInv, OneManagesAtATime, InManagement
  <1>8. AnotherRemains' /\ AdministratorRemains'
    BY <1>1, <1>2, AccountAdded DEF At
  <1> QED BY <1>4, <1>5, <1>6, <1>7, <1>8 DEF IInv

\* The two writes that can take an administrator away, under the lock.
LEMMA ManagementKeeps ==
    ASSUME IInv, NEW b \in Browsers, Update(b) \/ Disable(b)
    PROVE  IInv'
  <1>1. CASE Refused(b)
    BY <1>1, RefusedKeeps
  <1>2. CASE ~Refused(b)
    <2> DEFINE u == req[b].target
               r == IF req[b].op = "update"
                    THEN [user[u] EXCEPT !.role = req[b].role]
                    ELSE [user[u] EXCEPT !.status = "DISABLED"]
    <2>1. /\ req[b] \in Request /\ Carries(req[b])
          /\ req[b].op \in {"update", "remove"} /\ req[b].at = "write"
          /\ At(b, {"update", "remove"}, "write")
      BY <1>2 DEF Update, Disable, At, IInv, TypeOK, Carried
    <2>2. /\ u \in Users /\ user[u] # None
          /\ req[b].op = "update" => req[b].role \in Roles
      BY <2>1 DEF Request, Carries
    <2>3. /\ user \in [Users -> UserRow \cup {None}]
          /\ None \notin UserRow /\ None \notin Request
          /\ user[u] \in UserRow
      BY <2>2, ConstantsAssumption DEF IInv, TypeOK
    <2>4. r \in UserRow
      BY <2>2, <2>3 DEF UserRow
    <2>5. /\ user' = [user EXCEPT ![u] = r]
          /\ Answered(b)
          /\ UNCHANGED <<credential, cookie>>
      BY <1>2, <2>1 DEF Update, Disable, At
    <2>6. \A t \in Tokens : session'[t] # None => session'[t] = session[t]
      BY <1>2 DEF Update, Disable, Revoked
    <2>7. session' \in [Tokens -> SessionRow \cup {None}]
      BY <1>2 DEF Update, Disable, Revoked, IInv, TypeOK
    <2>8. \A v \in Users : user[v] # None <=> user'[v] # None
      BY <2>2, <2>3, <2>4, <2>5
    <2>9. user' \in [Users -> UserRow \cup {None}]
      BY <2>3, <2>4, <2>5
    <2>10. TypeOK' /\ Carried' /\ OneManagesAtATime'
      BY <2>5, <2>7, <2>8, <2>9, AnsweredKeeps DEF IInv, TypeOK, Exists
    <2>11. SessionsHaveUsers'
      BY <2>6, <2>7, <2>8 DEF IInv, TypeOK, SessionsHaveUsers, SessionRow
    <2>12. AnotherRemains'
      <3>1. \A d \in Browsers \ {b} : ~At(d, {"update", "remove"}, "write")
        BY <2>1 DEF IInv, OneManagesAtATime, InManagement, At
      <3>2. \A d \in Browsers : ~At(d, {"update", "remove"}, "write")'
        BY <2>5, <2>8, <3>1, AnsweredKeeps
      <3> QED BY <3>2 DEF AnotherRemains
    <2>13. AdministratorRemains'
      <3>1. \A v \in Users \ {u} : user'[v] = user[v]
        BY <2>3, <2>5
      <3>2. CASE EndsAdministrator(b)
        <4>1. PICK v \in ActiveAdministrators : v # u
          BY <2>1, <3>2 DEF IInv, AnotherRemains
        <4>2. v \in ActiveAdministrators'
          BY <3>1, <4>1 DEF ActiveAdministrators, Active, Exists
        <4> QED BY <4>2 DEF AdministratorRemains
      <3>3. CASE ~EndsAdministrator(b)
        <4>1. PICK v \in ActiveAdministrators : TRUE
          BY <2>2 DEF IInv, AdministratorRemains, Exists
        <4>2. CASE v # u
          <5>1. v \in ActiveAdministrators'
            BY <3>1, <4>1, <4>2 DEF ActiveAdministrators, Active, Exists
          <5> QED BY <5>1 DEF AdministratorRemains
        <4>3. CASE v = u
          <5>1. user[u].role = "ADMIN" /\ user[u].status = "ACTIVE"
            BY <4>1, <4>3 DEF ActiveAdministrators, Active
          <5>2. req[b].op = "update" /\ req[b].role = "ADMIN"
            BY <2>1, <3>3, <5>1 DEF EndsAdministrator
          <5>3. user'[u].role = "ADMIN" /\ user'[u].status = "ACTIVE"
            BY <2>2, <2>3, <2>5, <5>1, <5>2 DEF UserRow
          <5>4. u \in ActiveAdministrators'
            BY <2>2, <2>8, <5>3 DEF ActiveAdministrators, Active, Exists
          <5> QED BY <5>4 DEF AdministratorRemains
        <4> QED BY <4>2, <4>3
      <3> QED BY <3>2, <3>3
    <2> QED BY <2>10, <2>11, <2>12, <2>13 DEF IInv
  <1> QED BY <1>1, <1>2

-----------------------------------------------------------------------------
LEMMA StepKeeps ==
    ASSUME IInv, [Next]_vars
    PROVE  IInv'
  <1>1. CASE UNCHANGED vars
    BY <1>1 DEF vars, IInv, TypeOK, Exists, SessionsHaveUsers, Carried, Carries,
                OneManagesAtATime, InManagement, AnotherRemains, At,
                EndsAdministrator, AdministratorRemains, ActiveAdministrators,
                Active
  <1>2. ASSUME NEW b \in Browsers, Serve(b)
        PROVE  IInv'
    BY <1>2, SessionsKeep, FindingKeeps, CreateKeeps, LockKeeps, LockRowKeeps,
       ManagementKeeps DEF Serve
  <1>3. ASSUME NEW b \in Browsers, Browse(b)
        PROVE  IInv'
    <2>1. {"create", "update", "remove", "resetPassword"} \subseteq Operations
      BY DEF Operations
    <2>2. CASE \E u \in Users, p \in Passwords, t \in Tokens : Login(b, u, p, t)
      BY <2>2, LoginKeeps
    <2>3. CASE \E u \in Users, p \in Passwords : Manage(b, "resetPassword", u, None, p)
      <3>1. PICK u \in Users, p \in Passwords : Manage(b, "resetPassword", u, None, p)
        BY <2>3
      <3> QED BY <2>1, <3>1, ManageKeeps
    <2>4. CASE Logout(b)
      BY <2>4, SessionsKeep
    <2>5. CASE \E u \in Users, r \in Roles, p \in Passwords : Manage(b, "create", u, r, p)
      BY <2>1, <2>5, ManageKeeps
    <2>6. CASE \E u \in Users, r \in Roles : Manage(b, "update", u, r, None)
      BY <2>1, <2>6, ManageKeeps
    <2>7. CASE \E u \in Users : Manage(b, "remove", u, None, None)
      BY <2>1, <2>7, ManageKeeps
    <2> QED BY <1>3, <2>2, <2>3, <2>4, <2>5, <2>6, <2>7 DEF Browse
  <1>4. ASSUME NEW b \in Browsers, Fail(b)
        PROVE  IInv'
    BY <1>4, RefusedKeeps DEF Fail
  <1>5. ASSUME NEW t \in Tokens, Expire(t)
        PROVE  IInv'
    BY <1>5, SessionsKeep
  <1>6. ASSUME NEW u \in Users, NEW p \in Passwords, Bootstrap(u, p)
        PROVE  IInv'
    BY <1>6, BootstrapKeeps
  <1> QED BY <1>1, <1>2, <1>3, <1>4, <1>5, <1>6 DEF Next

\* The invariant that ties the lock, the checks made under it and the accounts.
THEOREM Invariance == Spec => []IInv
  BY InitInvariant, StepKeeps, PTL DEF Spec

\* Accounts, credentials, sessions and requests keep their types, and every
\* account has its credential (create writes both by one statement).
THEOREM TypeCorrect == Spec => []TypeOK
  <1>1. IInv => TypeOK
    BY DEF IInv
  <1> QED BY <1>1, Invariance, PTL

\* assertAnotherActiveAdministrator under the advisory lock keeps an
\* administrator, whatever update, disable and create run concurrently.
THEOREM AnAdministratorRemains == Spec => []AdministratorRemains
  <1>1. IInv => AdministratorRemains
    BY DEF IInv
  <1> QED BY <1>1, Invariance, PTL

\* pg_advisory_xact_lock: at most one transaction of user management is past
\* it, and it is never left behind.
THEOREM OneManager == Spec => []OneManagesAtATime
  <1>1. IInv => OneManagesAtATime
    BY DEF IInv
  <1> QED BY <1>1, Invariance, PTL

-----------------------------------------------------------------------------
(***************************************************************************)
(* What deleted accounts can still do.                                     *)
(***************************************************************************)
BeforeIsPast == \A b \in Browsers : req[b] # None => req[b].disabledBefore \subseteq Disabled

\* No write makes a deleted account active again.
LEMMA DisabledGrows ==
    ASSUME IInv, [Next]_vars
    PROVE  Disabled \subseteq Disabled'
  <1>1. /\ user \in [Users -> UserRow \cup {None}]
        /\ None \notin UserRow
    BY ConstantsAssumption DEF IInv, TypeOK
  <1>2. CASE UNCHANGED user
    BY <1>2 DEF Disabled, Exists
  <1>3. ASSUME NEW u \in Users, NEW r \in UserRow, user' = [user EXCEPT ![u] = r],
               u \in Disabled => r.status = "DISABLED"
        PROVE  Disabled \subseteq Disabled'
    BY <1>1, <1>3 DEF Disabled, Exists
  <1>4. ASSUME NEW b \in Browsers, Create(b), ~Refused(b)
        PROVE  Disabled \subseteq Disabled'
    <2>1. req[b] \in Request /\ Carries(req[b]) /\ req[b].op = "create"
      BY <1>4 DEF Create, At, IInv, TypeOK, Carried
    <2>2. req[b].target \in Users /\ [status |-> "ACTIVE", role |-> req[b].role] \in UserRow
      BY <2>1 DEF Request, Carries, UserRow
    <2> QED BY <1>3, <1>4, <2>2 DEF Create, Disabled
  <1>5. ASSUME NEW b \in Browsers, Update(b) \/ Disable(b), ~Refused(b)
        PROVE  Disabled \subseteq Disabled'
    <2>1. req[b] \in Request /\ Carries(req[b]) /\ req[b].at = "write"
      BY <1>5 DEF Update, Disable, At, IInv, TypeOK, Carried
    <2> DEFINE u == req[b].target
    <2>2. u \in Users /\ user[u] \in UserRow
      BY <1>1, <2>1 DEF Request, Carries
    <2>3. CASE Update(b)
      <3>1. req[b].role \in Roles
        BY <2>1, <2>3 DEF Update, At, Carries
      <3>2. [user[u] EXCEPT !.role = req[b].role] \in UserRow
        BY <2>2, <3>1 DEF UserRow
      <3>3. u \in Disabled => [user[u] EXCEPT !.role = req[b].role].status = "DISABLED"
        BY <2>2 DEF Disabled, UserRow
      <3>4. user' = [user EXCEPT ![u] = [user[u] EXCEPT !.role = req[b].role]]
        BY <1>5, <2>3 DEF Update
      <3> QED BY <1>3, <2>2, <3>2, <3>3, <3>4
    <2>4. CASE Disable(b)
      <3>1. [user[u] EXCEPT !.status = "DISABLED"] \in UserRow
        BY <2>2 DEF UserRow
      <3>2. [user[u] EXCEPT !.status = "DISABLED"].status = "DISABLED"
        BY <2>2 DEF UserRow
      <3>3. user' = [user EXCEPT ![u] = [user[u] EXCEPT !.status = "DISABLED"]]
        BY <2>4 DEF Disable
      <3> QED BY <1>3, <2>2, <3>1, <3>2, <3>3
    <2> QED BY <1>5, <2>3, <2>4
  <1>6. ASSUME NEW u \in Users, NEW p \in Passwords, Bootstrap(u, p)
        PROVE  Disabled \subseteq Disabled'
    <2>1. [status |-> "ACTIVE", role |-> "ADMIN"] \in UserRow
      BY ConstantsAssumption DEF UserRow
    <2> QED BY <1>3, <1>6, <2>1 DEF Bootstrap, Disabled
  <1>7. ASSUME NEW b \in Browsers, Refused(b)
        PROVE  UNCHANGED user
    BY <1>7 DEF Refused
  <1>8. ASSUME NEW b \in Browsers, Serve(b)
        PROVE  UNCHANGED user \/ Create(b) \/ Update(b) \/ Disable(b)
    BY <1>8 DEF Serve, CreateSession, FindActor, FindTarget, ResetPassword,
                LockUserManagement, LockRow, Refused, Reads
  <1>9. ASSUME NEW b \in Browsers, Browse(b) \/ Fail(b)
        PROVE  UNCHANGED user
    BY <1>9 DEF Browse, Fail, Login, Manage, Logout, Refused, Reads
  <1> QED BY <1>2, <1>4, <1>5, <1>6, <1>7, <1>8, <1>9 DEF Next, vars, Expire

\* How a step changes a request: it begins, ends, finds its actor, or goes on.
LEMMA RequestSteps ==
    ASSUME IInv, [Next]_vars, NEW b \in Browsers, req'[b] # None
    PROVE  \/ /\ req'[b].disabledBefore = Disabled
              /\ req'[b].actorRole = None
           \/ /\ req[b] # None
              /\ req'[b].disabledBefore = req[b].disabledBefore
              /\ req'[b].actor = req[b].actor
              /\ \/ req'[b].actorRole = req[b].actorRole
                 \/ Active(req[b].actor)
  <1> DEFINE Keeps == /\ req[b] # None
                      /\ req'[b].disabledBefore = req[b].disabledBefore
                      /\ req'[b].actor = req[b].actor
                      /\ req'[b].actorRole = req[b].actorRole
  <1>1. /\ req \in [Browsers -> Request \cup {None}]
        /\ req[b] # None => req[b] \in Request
    BY DEF IInv, TypeOK
  <1>2. CASE req' = req
    BY <1>2
  <1>3. ASSUME NEW d \in Browsers, Answered(d)
        PROVE  Keeps
    BY <1>1, <1>3 DEF Answered
  <1>4. ASSUME NEW d \in Browsers, NEW r, req' = [req EXCEPT ![d] = r], d # b
        PROVE  Keeps
    BY <1>1, <1>4
  <1>5. ASSUME Browse(b)
        PROVE  req' = req \/ (req'[b].disabledBefore = Disabled /\ req'[b].actorRole = None)
    BY <1>1, <1>5 DEF Browse, Login, Manage, Logout
  <1>6. ASSUME NEW d \in Browsers, Browse(d), d # b
        PROVE  Keeps
    BY <1>1, <1>6 DEF Browse, Login, Manage, Logout
  <1>7. ASSUME NEW d \in Browsers,
               FindTarget(d) \/ LockUserManagement(d) \/ LockRow(d)
        PROVE  Keeps
    <2>1. req[d] \in Request
      BY <1>7 DEF FindTarget, LockUserManagement, LockRow, At, IInv, TypeOK
    <2>2. CASE Refused(d)
      BY <1>3, <2>2 DEF Refused
    <2>3. CASE ~Refused(d)
      <3>1. ASSUME NEW at, NEW before,
                   req' = [req EXCEPT ![d] = [req[d] EXCEPT !.at = at, !.before = before]]
            PROVE  Keeps
        <4>1. CASE d = b
          BY <1>1, <2>1, <3>1, <4>1, ConstantsAssumption DEF Request
        <4>2. CASE d # b
          BY <1>4, <3>1, <4>2
        <4> QED BY <4>1, <4>2
      <3>2. ASSUME NEW at, req' = [req EXCEPT ![d].at = at]
            PROVE  Keeps
        <4>1. req' = [req EXCEPT ![d] = [req[d] EXCEPT !.at = at, !.before = req[d].before]]
          BY <1>1, <2>1, <3>2 DEF Request
        <4> QED BY <3>1, <4>1
      <3>3. ASSUME NEW before, req' = [req EXCEPT ![d].at = "lock", ![d].before = before]
            PROVE  Keeps
        <4>1. req' = [req EXCEPT ![d] = [req[d] EXCEPT !.at = "lock", !.before = before]]
          BY <1>1, <2>1, <3>3 DEF Request
        <4> QED BY <3>1, <4>1
      <3> QED BY <1>7, <2>3, <3>2, <3>3
          DEF FindTarget, LockUserManagement, LockRow, GoesOn
    <2> QED BY <2>2, <2>3
  <1>8. ASSUME NEW d \in Browsers, FindActor(d)
        PROVE  \/ Keeps
               \/ /\ req[b] # None
                  /\ req'[b].disabledBefore = req[b].disabledBefore
                  /\ req'[b].actor = req[b].actor
                  /\ Active(req[b].actor)
    <2>1. CASE Refused(d)
      BY <1>3, <2>1 DEF Refused
    <2>2. CASE ~Refused(d)
      <3>1. /\ Active(req[d].actor)
            /\ req[d] # None /\ req[d] \in Request
            /\ \E r, at : req' = [req EXCEPT ![d].actorRole = r, ![d].at = at]
        BY <1>8, <2>2 DEF FindActor, MayAct, At, IInv, TypeOK
      <3>2. PICK r, at : req' = [req EXCEPT ![d].actorRole = r, ![d].at = at]
        BY <3>1
      <3>3. req' = [req EXCEPT ![d] = [req[d] EXCEPT !.actorRole = r, !.at = at]]
        BY <1>1, <3>1, <3>2 DEF Request
      <3>4. CASE d = b
        BY <1>1, <3>1, <3>3, <3>4 DEF Request
      <3>5. CASE d # b
        BY <1>4, <3>3, <3>5
      <3> QED BY <3>4, <3>5
    <2> QED BY <2>1, <2>2
  <1>9. ASSUME NEW d \in Browsers,
               \/ CreateSession(d) \/ Create(d) \/ ResetPassword(d)
               \/ Update(d) \/ Disable(d) \/ Fail(d)
        PROVE  Keeps
    BY <1>3, <1>9 DEF CreateSession, Create, ResetPassword, Update, Disable, Fail, Refused
  <1>10. CASE \E t \in Tokens : Expire(t)
    BY <1>2, <1>10 DEF Expire
  <1>11. CASE \E u \in Users, p \in Passwords : Bootstrap(u, p)
    BY <1>2, <1>11 DEF Bootstrap
  <1>12. ASSUME NEW d \in Browsers, Serve(d)
         PROVE  \/ Keeps
                \/ /\ req[b] # None
                   /\ req'[b].disabledBefore = req[b].disabledBefore
                   /\ req'[b].actor = req[b].actor
                   /\ Active(req[b].actor)
    BY <1>7, <1>8, <1>9, <1>12 DEF Serve
  <1> QED BY <1>2, <1>5, <1>6, <1>9, <1>10, <1>11, <1>12 DEF Next, vars

\* Requests of a user that was deleted before they were sent are refused: the
\* status test of getSessionUser reads after the deletion, for any session.
THEOREM DeletedUsersActNoMore == Spec => []DeletedActNoMore
  <1> DEFINE Inv == IInv /\ BeforeIsPast /\ DeletedActNoMore
  <1>1. Init => Inv
    BY InitInvariant DEF Init, BeforeIsPast, DeletedActNoMore
  <1>2. Inv /\ [Next]_vars => Inv'
    <2> SUFFICES ASSUME Inv, [Next]_vars
                 PROVE  Inv'
      OBVIOUS
    <2>1. IInv'
      BY StepKeeps
    <2>2. Disabled \subseteq Disabled'
      BY DisabledGrows
    <2>3. ASSUME NEW b \in Browsers, req'[b] # None
          PROVE  /\ req'[b].disabledBefore \subseteq Disabled'
                 /\ req'[b].actorRole # None => req'[b].actor \notin req'[b].disabledBefore
      BY <2>2, <2>3, RequestSteps DEF BeforeIsPast, DeletedActNoMore, Active, Disabled
    <2> QED BY <2>1, <2>3 DEF BeforeIsPast, DeletedActNoMore
  <1>3. Inv => DeletedActNoMore
    OBVIOUS
  <1> QED BY <1>1, <1>2, <1>3, PTL DEF Spec
=============================================================================
