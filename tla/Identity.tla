------------------------------ MODULE Identity ------------------------------
(***************************************************************************)
(* Accounts, roles and sessions: login and logout, the check that every    *)
(* call passes before its handler runs, and UserAdministrationService.     *)
(*                                                                         *)
(* A call resolves its session, account and roles in READ COMMITTED        *)
(* queries that lock nothing; what its handler then does belongs to a      *)
(* later step, and the handler does not look at the caller's row again.    *)
(***************************************************************************)
EXTENDS Integers, FiniteSets

CONSTANTS
  Accounts,            \* usernames
  FirstAdministrator,  \* the administrator of the seed data
  Nobody,              \* no account
  Sessions,            \* bound: sessions that exist at a time
  Calls                \* bound: calls under way at a time

ASSUME IdentityAssumption ==
  /\ FirstAdministrator \in Accounts
  /\ Nobody \notin Accounts

VARIABLES
  account,  \* User rows with their RoleAssignment rows
  session,  \* UserSession rows: whose session it is
  call      \* calls that passed the check, and logins

identityVars == <<account, session, call>>

\* The other roles open nothing in the back office: an account that has only
\* those has no role here.
Roles == {"system_administrator", "inventory_manager"}

Account == [status : {"absent", "active", "disabled"}, roles : SUBSET Roles]

\* What the handler of a call is about.
Kinds == {"idle", "login", "users", "location", "label", "scan"}

Call == [doing : Kinds, by : Accounts \union {Nobody}]

IdleCall == [doing |-> "idle", by |-> Nobody]

IdentityTypeOK ==
  /\ account \in [Accounts -> Account]
  /\ session \in [Sessions -> Accounts \union {Nobody}]
  /\ call \in [Calls -> Call]

IdentityInit ==
  /\ account = [a \in Accounts |->
                  IF a = FirstAdministrator
                  THEN [status |-> "active", roles |-> Roles]
                  ELSE [status |-> "absent", roles |-> {}]]
  /\ session = [s \in Sessions |-> Nobody]
  /\ call = [c \in Calls |-> IdleCall]

-----------------------------------------------------------------------------
IsActive(a) == a # Nobody /\ account[a].status = "active"

Administrators ==
  {a \in Accounts : IsActive(a) /\ "system_administrator" \in account[a].roles}

Ended(c) == [call EXCEPT ![c] = IdleCall]

\* authenticate_local_user finds an active account and verifies the password,
\* which takes a while; it then inserts the session without a second look.
StartLogin(c, a) ==
  /\ call[c] = IdleCall
  /\ IsActive(a)
  /\ call' = [call EXCEPT ![c] = [doing |-> "login", by |-> a]]
  /\ UNCHANGED <<account, session>>

FinishLogin(c, s) ==
  /\ call[c].doing = "login"
  /\ session[s] = Nobody
  /\ session' = [session EXCEPT ![s] = call[c].by]
  /\ call' = Ended(c)
  /\ UNCHANGED account

Logout(s) ==
  /\ IsActive(session[s])
  /\ session' = [session EXCEPT ![s] = Nobody]
  /\ UNCHANGED <<account, call>>

\* expires_at passes; a later login deletes the row.
SessionExpires(s) ==
  /\ session[s] # Nobody
  /\ session' = [session EXCEPT ![s] = Nobody]
  /\ UNCHANGED <<account, call>>

\* Whether the routers let an account with these roles through.
Permitted(roles, kind) ==
  \/ kind \in {"users", "location"} /\ "system_administrator" \in roles
  \/ kind = "label" /\ roles # {}
  \/ kind = "scan"

\* resolve_session and require_roles.
Begin(c, s, kind) ==
  /\ call[c] = IdleCall
  /\ IsActive(session[s])
  /\ Permitted(account[session[s]].roles, kind)
  /\ call' = [call EXCEPT ![c] = [doing |-> kind, by |-> session[s]]]
  /\ UNCHANGED <<account, session>>

-----------------------------------------------------------------------------
\* create: the username is looked up, and the unique constraint stops a second
\* account that was created meanwhile.
CreateUser(c, a, roles) ==
  /\ call[c].doing = "users"
  /\ account[a].status = "absent"
  /\ account' = [account EXCEPT ![a] = [status |-> "active", roles |-> roles]]
  /\ call' = Ended(c)
  /\ UNCHANGED session

\* Mistake: only an administrator who disables the account is stopped.
KeepsOwnAccount(by, a, status, roles) == a = by => status = "active"

\* "You cannot disable your own administrator access"
KeepsOwnAccess(by, a, status, roles) ==
  a = by => status = "active" /\ "system_administrator" \in roles

\* Mistake: only disabling an account ends its sessions.
SessionsIfActive(a, status) ==
  [s \in Sessions |-> IF session[s] = a /\ status = "disabled" THEN Nobody ELSE session[s]]

\* The sessions an update of account a leaves.
SessionsAfterUpdate(a, status) ==
  [s \in Sessions |-> IF session[s] = a THEN Nobody ELSE session[s]]

\* update locks the account, writes the whole payload, replaces the roles and
\* deletes the sessions.
UpdateUser(c, a, status, roles) ==
  /\ call[c].doing = "users"
  /\ account[a].status # "absent"
  /\ KeepsOwnAccess(call[c].by, a, status, roles)
  /\ account' = [account EXCEPT ![a] = [status |-> status, roles |-> roles]]
  /\ session' = SessionsAfterUpdate(a, status)
  /\ call' = Ended(c)

IdentityNext ==
  \/ \E c \in Calls, a \in Accounts :
       \/ StartLogin(c, a)
       \/ \E roles \in SUBSET Roles :
            \/ CreateUser(c, a, roles)
            \/ \E status \in {"active", "disabled"} : UpdateUser(c, a, status, roles)
  \/ \E s \in Sessions :
       \/ Logout(s) \/ SessionExpires(s)
       \/ \E c \in Calls :
            FinishLogin(c, s) \/ \E kind \in Kinds : Begin(c, s, kind)
=============================================================================
