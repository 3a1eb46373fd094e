------------------------------ MODULE Accounts ------------------------------
(***************************************************************************)
(* Users, their credentials and how they log in: the login throttle        *)
(* (throttle.go), password login, activation and reset tokens, refresh,    *)
(* user administration (crud_user.go) and OIDC login with users created on *)
(* the fly (oidc.go).                                                      *)
(*                                                                         *)
(* No handler but the delete uses a transaction: each statement is an      *)
(* action of its own, and what one has read the next one writes.  A        *)
(* session is what an access token says of its user, and stays as it was   *)
(* issued.  The fields that Allow reads outside the lock are read in one   *)
(* step: the two grow, and are read in the order in which they are tested, *)
(* so whatever it reads is what an earlier or a later Allow would find.    *)
(***************************************************************************)
EXTENDS Naturals, FiniteSets

CONSTANTS
  AccountRequests,
  Users,          \* uuids
  Emails,
  Passwords,
  AccountTenants,
  Identities,     \* [provider, issuer, subject] of an external login
  Addresses,      \* client IPs
  \* what clients ask for
  Logins,         \* [ip, email, password]
  UserSaves,      \* [target, authority, email]: target None to create
  PasswordChanges, \* [user, old, new]
  Callbacks,      \* [identity, email]
  Forgotten,      \* emails a reset is asked for
  NewPasswords,   \* passwords set with a token
  MaxFails, MaxAttempts, Window, TokenTTL,
  DefaultTenant, DefaultAuthority, \* of users created by an OIDC login
  UserAtStart, CredentialAtStart, SessionsAtStart,
  Areas,          \* "guess", "manage": the kinds of requests of one behaviour
  MaxTime, MaxAccountStarts, MaxLogins, \* bounds
  Unguessable,    \* a password nobody knows
  Null

Roles == {"SYS_ADMIN", "TENANT_ADMIN", "CUSTOMER_USER"}
UserRow == [tenant : AccountTenants, authority : Roles, email : Emails]
UserToken == [n : Nat, expires : Nat]
UserCredential ==
  [password : Passwords \cup {Unguessable, Null}, enabled : BOOLEAN,
   reset : UserToken \cup {Null}, activate : UserToken \cup {Null}]
Claims == [user : Users, tenant : AccountTenants, authority : Roles]
Counter == [distinct : SUBSET (Emails \X Passwords), attempts : Nat, first : Nat]

\* Users who were invited and have not set a password yet.
Invited(c) == {u \in Users : c[u] # Null /\ c[u].activate # Null}

ASSUME AccountsAssumption ==
  /\ MaxFails \in Nat \ {0} /\ MaxAttempts \in Nat \ {0} /\ Window \in Nat \ {0}
  /\ TokenTTL \in Nat \ {0} /\ MaxTime \in Nat /\ MaxAccountStarts \in Nat
  /\ IsFiniteSet(AccountRequests) /\ IsFiniteSet(Users)
  /\ Null \notin UserRow \cup UserToken \cup UserCredential \cup Counter

\* What clients send has been parsed, and what the tables hold at the start
\* meets their constraints.
ASSUME AccountsInputAssumption ==
  /\ Logins \subseteq [ip : Addresses, email : Emails, password : Passwords]
  /\ UserSaves \subseteq [target : Users \cup {Null}, authority : Roles, email : Emails]
  /\ PasswordChanges \subseteq [user : Users, old : Passwords, new : Passwords]
  /\ Callbacks \subseteq [identity : Identities, email : Emails]
  /\ Forgotten \subseteq Emails /\ NewPasswords \subseteq Passwords
  /\ DefaultTenant \in AccountTenants /\ DefaultAuthority \in Roles
  /\ UserAtStart \in [Users -> UserRow \cup {Null}]
  /\ CredentialAtStart \in [Users -> UserCredential \cup {Null}]
  /\ SessionsAtStart \subseteq Claims
  /\ \A u, v \in Users :
       (UserAtStart[u] # Null /\ UserAtStart[v] # Null /\ UserAtStart[u].email = UserAtStart[v].email) => u = v
  /\ \A u \in Users : CredentialAtStart[u] # Null => CredentialAtStart[u].reset = Null
  /\ \A u \in Invited(CredentialAtStart) :
       CredentialAtStart[u].activate.n \in 1..Cardinality(Invited(CredentialAtStart))
  /\ \A u, v \in Invited(CredentialAtStart) :
       CredentialAtStart[u].activate.n = CredentialAtStart[v].activate.n => u = v

VARIABLES
  user,       \* table tb_user: [tenant, authority, email] or Null
  credential, \* table user_credentials: [password, enabled, reset, activate] or Null
  identity,   \* table external_identity: the user of each, or Null
  session,    \* access tokens issued: [user, tenant, authority]
  counter,    \* throttle.attempts: [distinct, attempts, first] or Null
  issued,     \* tokens issued so far; a token is its number
  used,       \* tokens whose use has been committed (history)
  guessed,    \* credentials checked and rejected since a counter began (history)
  granted,    \* users made SYS_ADMIN by a SYS_ADMIN or by the provider's configuration, and not
              \* demoted since but for a demotion that an edit under way writes back (history)
  work, area, now, started

accounts == <<user, credential, identity, session, issued, used, granted>>
throttle == <<counter, guessed>>
accountVars == <<accounts, throttle, work, area, now, started>>

NoTask == [op |-> "none", pc |-> "idle", user |-> Null, email |-> Null, old |-> Null, password |-> Null,
           ip |-> Null, identity |-> Null, caller |-> Null, authority |-> Null, token |-> 0,
           found |-> Null, late |-> FALSE]
Asks(op, pc) == [NoTask EXCEPT !.op = op, !.pc = pc]

Step(r, task) == work' = [work EXCEPT ![r] = task]
Goes(r, pc) == [work[r] EXCEPT !.pc = pc]
Finish(r) == Step(r, NoTask)

Begin(r, a, task) ==
  /\ area = a /\ work[r].pc = "idle" /\ started < (IF a = "guess" THEN MaxLogins ELSE MaxAccountStarts)
  /\ started' = started + 1
  /\ Step(r, task)
  /\ UNCHANGED <<accounts, throttle, area, now>>

\* A statement that only reads.
Reads(r, ok, task) ==
  /\ Step(r, IF ok THEN task ELSE NoTask)
  /\ UNCHANGED <<accounts, throttle, area, now, started>>

Existing == {u \in Users : user[u] # Null}

\* The join of the two tables that every lookup of a user reads.
Known == {u \in Existing : credential[u] # Null}
SessionOf(u) == [user |-> u, tenant |-> user[u].tenant, authority |-> user[u].authority]

-----------------------------------------------------------------------------
(* The throttle.                                                           *)

\* A counter whose window has not passed.
Current(ip) == counter[ip] # Null /\ now <= counter[ip].first + Window

\* Mutant: one credential more than the cap.
AllowedInclusive(ip) ==
  Current(ip) => Cardinality(counter[ip].distinct) <= MaxFails /\ counter[ip].attempts < MaxAttempts

Allow(ip) ==
  Current(ip) => Cardinality(counter[ip].distinct) < MaxFails /\ counter[ip].attempts < MaxAttempts

RecordFail(r) ==
  LET ip == work[r].ip
      pair == <<work[r].email, work[r].password>>
      c == IF Current(ip) THEN counter[ip] ELSE [distinct |-> {}, attempts |-> 0, first |-> now]
      g == IF Current(ip) THEN guessed[ip] ELSE [distinct |-> {}, attempts |-> 0]
  IN /\ work[r].pc = "fail"
     /\ counter' = [counter EXCEPT ![ip] =
          [c EXCEPT !.attempts = @ + 1,
                    !.distinct = IF Cardinality(@) >= MaxFails THEN @ ELSE @ \cup {pair}]]
     /\ guessed' = [guessed EXCEPT ![ip] = [distinct |-> g.distinct \cup {pair}, attempts |-> g.attempts + 1]]
     /\ Finish(r)
     /\ UNCHANGED <<accounts, area, now, started>>

\* The counter goes, and the user is given tokens.
RecordSuccess(r) ==
  /\ work[r].pc = "success"
  /\ counter' = [counter EXCEPT ![work[r].ip] = Null]
  /\ session' = session \cup {work[r].found}
  /\ Finish(r)
  /\ UNCHANGED <<user, credential, identity, issued, used, granted, guessed, area, now, started>>

\* janitor: counters two windows old.
Prune ==
  /\ \E ip \in Addresses : counter[ip] # Null /\ now > counter[ip].first + 2 * Window
  /\ counter' = [ip \in Addresses |->
       IF counter[ip] # Null /\ now > counter[ip].first + 2 * Window THEN Null ELSE counter[ip]]
  /\ UNCHANGED <<accounts, guessed, work, area, now, started>>

-----------------------------------------------------------------------------
(* Login and refresh.                                                      *)

HandleLogin(r, i) ==
  /\ Allow(i.ip)
  /\ Begin(r, "guess", [Asks("login", "lookup") EXCEPT !.ip = i.ip, !.email = i.email, !.password = i.password])

Accepted(u, password) == credential[u].enabled /\ credential[u].password = password

\* findUserByEmail and the comparison with the hash it returned; a row without
\* a password cannot be read.
FindUserByEmail(r) ==
  LET known == {u \in Known : user[u].email = work[r].email /\ credential[u].password # Null}
  IN /\ work[r].pc = "lookup"
     /\ IF \E u \in known : Accepted(u, work[r].password)
        THEN \E u \in known :
               Accepted(u, work[r].password) /\ Reads(r, TRUE, [Goes(r, "success") EXCEPT !.found = SessionOf(u)])
        ELSE Reads(r, TRUE, Goes(r, "fail"))

\* Any token that was issued can be refreshed, with what the user is now.
HandleTokenRefresh(r, s) ==
  Begin(r, "manage", [Asks("refresh", "session") EXCEPT !.user = s.user])

\* FindByID before the tokens are issued; a refresh asks for an enabled user.
IssueTokens(r) ==
  LET u == work[r].user
      ok == u \in Known /\ (work[r].op = "refresh" => credential[u].enabled)
  IN /\ work[r].pc = "session"
     /\ session' = IF ok THEN session \cup {SessionOf(u)} ELSE session
     /\ Finish(r)
     /\ UNCHANGED <<user, credential, identity, issued, used, granted, throttle, area, now, started>>

-----------------------------------------------------------------------------
(* Activation and reset.                                                   *)

NewToken == [n |-> issued + 1, expires |-> now + TokenTTL]

HandleResetPasswordByEmail(r, e) ==
  Begin(r, "manage", [Asks("forgot", "findForgetful") EXCEPT !.email = e])

FindForgetful(r) ==
  LET known == {u \in Known : user[u].email = work[r].email /\ credential[u].password # Null}
  IN /\ work[r].pc = "findForgetful"
     /\ IF known = {} THEN Reads(r, FALSE, NoTask)
        ELSE \E u \in known : Reads(r, TRUE, [Goes(r, "writeReset") EXCEPT !.user = u])

\* What an UPDATE by user_id does: nothing, when the row is gone.
UpdateCredential(u, row) ==
  credential' = IF credential[u] = Null THEN credential ELSE [credential EXCEPT ![u] = row]

WriteResetToken(r) ==
  /\ work[r].pc = "writeReset"
  /\ UpdateCredential(work[r].user, [credential[work[r].user] EXCEPT !.reset = NewToken])
  /\ issued' = issued + 1
  /\ Finish(r)
  /\ UNCHANGED <<user, identity, session, used, granted, throttle, area, now, started>>

HandleResetPassword(r, n, p) ==
  Begin(r, "manage", [Asks("reset", "token") EXCEPT !.token = n, !.password = p])
HandleActivate(r, n, p) ==
  Begin(r, "manage", [Asks("activate", "token") EXCEPT !.token = n, !.password = p])

TokenOf(u, op) == IF op = "reset" THEN credential[u].reset ELSE credential[u].activate
Holders(r) ==
  {u \in Users : /\ credential[u] # Null
                 /\ TokenOf(u, work[r].op) # Null
                 /\ TokenOf(u, work[r].op).n = work[r].token
                 /\ TokenOf(u, work[r].op).expires >= now}

\* The SELECT by token, with its expiry.
SelectToken(r) ==
  /\ work[r].pc = "token"
  /\ IF Holders(r) = {} THEN Reads(r, FALSE, NoTask)
     ELSE \E u \in Holders(r) :
            Reads(r, TRUE, [Goes(r, "setPassword") EXCEPT !.user = u, !.late = work[r].token \in used])

\* Mutant: the reset leaves its token in place.
ResetWritesNoReset(r, c) == [c EXCEPT !.password = work[r].password, !.enabled = TRUE, !.activate = Null]

\* The UPDATE is by user_id and not by token.
ResetWrites(r, c) == [c EXCEPT !.password = work[r].password, !.enabled = TRUE, !.reset = Null, !.activate = Null]
ActivateWrites(r, c) == [c EXCEPT !.password = work[r].password, !.enabled = TRUE, !.activate = Null]

\* HandleActivate ignores that the user is gone and panics; either way no
\* tokens are issued then.
UseToken(r) ==
  LET u == work[r].user
  IN /\ work[r].pc = "setPassword"
     /\ UpdateCredential(u, IF work[r].op = "reset" THEN ResetWrites(r, credential[u]) ELSE ActivateWrites(r, credential[u]))
     /\ used' = used \cup {work[r].token}
     /\ Step(r, Goes(r, "session"))
     /\ UNCHANGED <<user, identity, session, issued, granted, throttle, area, now, started>>

HandleChangePassword(r, i) ==
  /\ \E s \in session : s.user = i.user
  /\ Begin(r, "manage", [Asks("change", "hash") EXCEPT !.user = i.user, !.old = i.old, !.password = i.new])

SelectHash(r) ==
  LET u == work[r].user
  IN /\ work[r].pc = "hash"
     /\ Reads(r, credential[u] # Null /\ credential[u].password # Null /\ credential[u].password = work[r].old,
              Goes(r, "changePassword"))

UpdatePassword(r) ==
  /\ work[r].pc = "changePassword"
  /\ UpdateCredential(work[r].user,
       [credential[work[r].user] EXCEPT !.password = work[r].password, !.reset = Null])
  /\ Step(r, Goes(r, "session"))
  /\ UNCHANGED <<user, identity, session, issued, used, granted, throttle, area, now, started>>

-----------------------------------------------------------------------------
(* User administration.                                                    *)

\* Mutant: a TENANT_ADMIN may write any authority in its tenant.
AuthorizeAnyAuthority(c, target, tenant, isSelf, changing) ==
  ~changing \/ c.authority = "SYS_ADMIN" \/ (~isSelf /\ c.authority = "TENANT_ADMIN" /\ tenant = c.tenant)

AuthorizeAuthority(c, target, tenant, isSelf, changing) ==
  \/ ~changing
  \/ c.authority = "SYS_ADMIN"
  \/ /\ ~isSelf /\ target \in {"TENANT_ADMIN", "CUSTOMER_USER"}
     /\ c.authority = "TENANT_ADMIN" /\ c.tenant # Null /\ tenant = c.tenant

HandleUserCreateOrUpdate(r, s, i) ==
  /\ s \in session
  /\ i.target = Null => AuthorizeAuthority(s, i.authority, s.tenant, FALSE, TRUE)
  /\ Begin(r, "manage", [Asks("user", IF i.target = Null THEN "insertUser" ELSE "mayEdit") EXCEPT
       !.caller = s, !.user = i.target, !.email = i.email, !.authority = i.authority])

\* Who may edit the row, and whether its authority may change, as it is read.
CheckEdit(r) ==
  LET u == work[r].user
      c == work[r].caller
  IN /\ work[r].pc = "mayEdit"
     /\ Reads(r, /\ u \in Existing
                 /\ user[u].tenant = c.tenant \/ c.authority = "SYS_ADMIN"
                 /\ c.authority \in {"SYS_ADMIN", "TENANT_ADMIN"} \/ u = c.user
                 /\ AuthorizeAuthority(c, work[r].authority, user[u].tenant, u = c.user,
                                       work[r].authority # user[u].authority),
              Goes(r, "updateUser"))

EmailFree(e, u) == \A x \in Existing \ {u} : user[x].email # e

\* A SYS_ADMIN, or the configuration of a provider, makes a user SYS_ADMIN.
Grants(r) ==
  work[r].authority = "SYS_ADMIN" /\ (work[r].op = "oidc" \/ work[r].caller.authority = "SYS_ADMIN")

\* An edit that read the user as a SYS_ADMIN and was let through because it
\* leaves the authority alone: its UPDATE names the authority all the same.
WritesBack(r, u) ==
  \E x \in AccountRequests \ {r} :
    work[x].pc = "updateUser" /\ work[x].user = u /\ work[x].authority = "SYS_ADMIN" /\ ~Grants(x)

\* A demotion revokes the grant, except under an edit that writes it back.
GrantedAfter(r, u) ==
  IF Grants(r) THEN granted \cup {u}
  ELSE IF work[r].authority # "SYS_ADMIN" /\ ~WritesBack(r, u) THEN granted \ {u}
  ELSE granted

UpdateUser(r) ==
  LET u == work[r].user
      ok == u \in Existing /\ EmailFree(work[r].email, u)
  IN /\ work[r].pc = "updateUser"
     /\ user' = IF ok THEN [user EXCEPT ![u].email = work[r].email, ![u].authority = work[r].authority] ELSE user
     /\ granted' = IF ok THEN GrantedAfter(r, u) ELSE granted
     /\ Finish(r)
     /\ UNCHANGED <<credential, identity, session, issued, used, throttle, area, now, started>>

\* The quota may refuse; the credentials follow in a statement of their own.
InsertUser(r) ==
  LET free == {u \in Users : user[u] = Null /\ credential[u] = Null /\ \A x \in AccountRequests : work[x].user # u}
      u == CHOOSE x \in free : TRUE
  IN /\ work[r].pc = "insertUser" /\ free # {}
     /\ \/ work[r].op = "user" /\ Finish(r) /\ UNCHANGED <<user, granted>>
        \/ ~EmailFree(work[r].email, u) /\ Finish(r) /\ UNCHANGED <<user, granted>>
        \/ /\ EmailFree(work[r].email, u)
           /\ user' = [user EXCEPT ![u] = [tenant |-> IF work[r].op = "user" THEN work[r].caller.tenant ELSE DefaultTenant,
                                           authority |-> work[r].authority, email |-> work[r].email]]
           /\ granted' = IF Grants(r) THEN granted \cup {u} ELSE granted
           /\ Step(r, [Goes(r, "insertCredential") EXCEPT !.user = u])
     /\ UNCHANGED <<credential, identity, session, issued, used, throttle, area, now, started>>

\* A user created over REST has a token to activate the account with, one
\* created by a login a password that nobody knows.
NewCredential(op) ==
  IF op = "user" THEN [password |-> Null, enabled |-> FALSE, reset |-> Null, activate |-> NewToken]
  ELSE [password |-> Unguessable, enabled |-> TRUE, reset |-> Null, activate |-> Null]

\* A failure is a warning to the one and ends the other.
InsertCredential(r) ==
  LET u == work[r].user
  IN /\ work[r].pc = "insertCredential"
     /\ credential' = [credential EXCEPT ![u] = NewCredential(work[r].op)]
     /\ issued' = IF work[r].op = "user" THEN issued + 1 ELSE issued
     /\ Step(r, IF work[r].op = "user" THEN NoTask ELSE Goes(r, "findCreated"))
     /\ UNCHANGED <<user, identity, session, used, granted, throttle, area, now, started>>

CredentialFails(r) ==
  /\ work[r].pc = "insertCredential"
  /\ Finish(r)
  /\ UNCHANGED <<accounts, throttle, area, now, started>>

HandleUserDelete(r, s, u) ==
  /\ s \in session
  /\ Begin(r, "manage", [Asks("delete", "mayDelete") EXCEPT !.caller = s, !.user = u])

CheckDelete(r) ==
  /\ work[r].pc = "mayDelete"
  /\ Reads(r, work[r].user \in Existing /\ user[work[r].user].tenant = work[r].caller.tenant, Goes(r, "deleteUser"))

\* Rows of external_identity go with their user.
WithoutUsers(gone) == [i \in Identities |-> IF identity[i] \in gone THEN Null ELSE identity[i]]

DeleteUser(r) ==
  LET u == work[r].user
  IN /\ work[r].pc = "deleteUser"
     /\ user' = [user EXCEPT ![u] = Null] /\ credential' = [credential EXCEPT ![u] = Null]
     /\ identity' = WithoutUsers({u}) /\ granted' = granted \ {u}
     /\ Finish(r)
     /\ UNCHANGED <<session, issued, used, throttle, area, now, started>>

\* The users of a tenant that is deleted; user_credentials has no foreign key.
HandleTenantDelete(t) ==
  LET gone == {u \in Existing : user[u].tenant = t}
  IN /\ area = "manage" /\ gone # {} /\ started < MaxAccountStarts
     /\ \E s \in session : s.authority = "SYS_ADMIN" /\ s.tenant # t
     /\ user' = [u \in Users |-> IF u \in gone THEN Null ELSE user[u]]
     /\ identity' = WithoutUsers(gone) /\ granted' = granted \ gone
     /\ started' = started + 1
     /\ UNCHANGED <<credential, session, issued, used, throttle, work, area, now>>

-----------------------------------------------------------------------------
(* OIDC.                                                                   *)

\* The provider has vouched for the identity and its email.
HandleCallback(r, i) ==
  Begin(r, "manage", [Asks("oidc", "identity") EXCEPT
    !.identity = i.identity, !.email = i.email, !.authority = DefaultAuthority])

FindIdentity(r) ==
  LET u == identity[work[r].identity]
  IN /\ work[r].pc = "identity"
     /\ Reads(r, TRUE, IF u # Null THEN [Goes(r, "session") EXCEPT !.user = u] ELSE Goes(r, "byEmail"))

FindByEmail(r) ==
  LET known == {u \in Known : user[u].email = work[r].email /\ credential[u].password # Null}
  IN /\ work[r].pc = "byEmail"
     /\ IF known = {} THEN Reads(r, TRUE, Goes(r, "insertUser"))
        ELSE \E u \in known : Reads(r, TRUE, [Goes(r, "link") EXCEPT !.user = u, !.found = SessionOf(u)])

FindCreated(r) ==
  LET u == work[r].user
  IN /\ work[r].pc = "findCreated"
     /\ Reads(r, u \in Known, [Goes(r, "link") EXCEPT !.found = SessionOf(u)])

\* The upsert, under the foreign key to tb_user, and then the tokens.
LinkIdentity(r) ==
  LET u == work[r].user
      ok == u \in Existing
  IN /\ work[r].pc = "link"
     /\ identity' = IF ok THEN [identity EXCEPT ![work[r].identity] = u] ELSE identity
     /\ session' = IF ok THEN session \cup {work[r].found} ELSE session
     /\ Finish(r)
     /\ UNCHANGED <<user, credential, issued, used, granted, throttle, area, now, started>>

-----------------------------------------------------------------------------
Pass ==
  /\ now < MaxTime
  /\ now' = now + 1
  /\ UNCHANGED <<accounts, throttle, work, area, started>>

AccountsInit ==
  /\ user = UserAtStart /\ credential = CredentialAtStart /\ session = SessionsAtStart
  /\ identity = [i \in Identities |-> Null]
  /\ issued = Cardinality(Invited(CredentialAtStart))
  /\ used = {} /\ granted = {u \in Users : UserAtStart[u] # Null /\ UserAtStart[u].authority = "SYS_ADMIN"}
  /\ counter = [ip \in Addresses |-> Null]
  /\ guessed = [ip \in Addresses |-> [distinct |-> {}, attempts |-> 0]]
  /\ work = [r \in AccountRequests |-> NoTask]
  /\ area \in Areas /\ now = 0 /\ started = 0

AccountRequest(r) ==
  \/ \E i \in Logins : HandleLogin(r, i)
  \/ \E s \in session : HandleTokenRefresh(r, s)
  \/ \E e \in Forgotten : HandleResetPasswordByEmail(r, e)
  \/ \E n \in 1..issued, p \in NewPasswords : HandleResetPassword(r, n, p) \/ HandleActivate(r, n, p)
  \/ \E i \in PasswordChanges : HandleChangePassword(r, i)
  \/ \E s \in session, i \in UserSaves : HandleUserCreateOrUpdate(r, s, i)
  \/ \E s \in session, u \in Users : HandleUserDelete(r, s, u)
  \/ \E i \in Callbacks : HandleCallback(r, i)

AccountStep(r) ==
  \/ FindUserByEmail(r) \/ RecordFail(r) \/ RecordSuccess(r) \/ IssueTokens(r)
  \/ FindForgetful(r) \/ WriteResetToken(r) \/ SelectToken(r) \/ UseToken(r)
  \/ SelectHash(r) \/ UpdatePassword(r)
  \/ CheckEdit(r) \/ UpdateUser(r) \/ InsertUser(r) \/ InsertCredential(r) \/ CredentialFails(r)
  \/ CheckDelete(r) \/ DeleteUser(r)
  \/ FindIdentity(r) \/ FindByEmail(r) \/ FindCreated(r) \/ LinkIdentity(r)

AccountsNext ==
  \/ Pass \/ Prune
  \/ \E t \in {user[u].tenant : u \in Existing} : HandleTenantDelete(t)
  \/ \E r \in AccountRequests : AccountRequest(r) \/ AccountStep(r)

AccountsSpec == AccountsInit /\ [][AccountsNext]_accountVars

-----------------------------------------------------------------------------
(* Properties.                                                             *)

\* Whoever is created, renamed, promoted and deleted at once: there is one account
\* per email, an identity leads to a user, and whoever is SYS_ADMIN was made so by a
\* SYS_ADMIN (or the provider's configuration) and was not demoted since, unless an
\* edit that leaves the authority alone had read the row and not yet written it when
\* the demotion did: the UPDATE of such an edit gives SYS_ADMIN back.
AccountsHold ==
  /\ \A u, v \in Existing : user[u].email = user[v].email => u = v
  /\ \A i \in Identities : identity[i] # Null => identity[i] \in Existing
  /\ \A u \in Existing : user[u].authority = "SYS_ADMIN" => u \in granted

\* However many logins an address has in flight, what is checked and rejected
\* between the first failure and the end of its window exceeds the two caps of
\* the throttle by the other requests in flight at most.
GuessesBounded ==
  \A ip \in Addresses :
    /\ Cardinality(guessed[ip].distinct) <= MaxFails + Cardinality(AccountRequests) - 1
    /\ guessed[ip].attempts <= MaxAttempts + Cardinality(AccountRequests) - 1

\* No request is admitted by an activation or reset token that has been used.
TokensEndWithTheirUse == \A r \in AccountRequests : ~work[r].late
=============================================================================
