------------------------------ MODULE Accounts -------------------------------
(***************************************************************************)
(* auth.service.ts, users.service.ts, the JWT strategy and the roles guard:*)
(* who has an account, who gets into it, and who is an administrator.      *)
(***************************************************************************)
EXTENDS Handlers

CONSTANTS
  AccountIds,   \* bound: accounts ever created
  Emails,
  Passwords,
  GoogleIds,
  FirstAdmins   \* the administrators there are at the start

(* No endpoint makes the first administrator: there is one before.         *)
ASSUME AccountsAssumption ==
  FirstAdmins # {} /\ FirstAdmins \subseteq AccountIds /\ None \notin Emails

VARIABLES
  accounts,     \* the table users: id -> account
  tokens,       \* <<id, secret>>: who has been given tokens, and for what
  together,     \* history: two role changes have been in progress at once
  accountHandlers

accountVars == <<accounts, tokens, together, accountHandlers>>

Account(email, provider, secret) ==
  [email |-> email, provider |-> provider, secret |-> secret, role |-> "cliente"]

AccountsInit ==
  /\ accounts = [a \in FirstAdmins |->
                   [email |-> None, provider |-> "local", secret |-> None,
                    role |-> "admin"]]
  /\ tokens = {} /\ together = FALSE
  /\ accountHandlers = [p \in Handlers |-> Waiting]

AccountGo(p, to) == accountHandlers' = Goes(accountHandlers, p, to)
AccountAt(p, step) == At(accountHandlers, p, step)
AccountEnd(p) == accountHandlers' = Ends(accountHandlers, p)

Users == DOMAIN accounts
Admins == {a \in Users : accounts[a].role = "admin"}
ByEmail(e) == {a \in Users : accounts[a].email = e}
ByGoogleId(g) == {a \in Users : accounts[a].provider = "google" /\ accounts[a].secret = g}

(* generateTokens(): for the account a, to whoever knows the secret.       *)
GenerateTokens(a, secret) == tokens' = tokens \cup {<<a, secret>>}

(***************************************************************************)
(* register(), login(), googleLogin().                                     *)
(***************************************************************************)
(* findByEmail; the password is hashed while others register.              *)
StartRegister(p, e, password) ==
  /\ AccountAt(p, "waiting")
  /\ ByEmail(e) = {}
  /\ AccountGo(p, [step |-> "create", email |-> e, provider |-> "local",
                   secret |-> password])
  /\ UNCHANGED <<accounts, tokens, together>>

(* An existing googleId logs in; an email that is taken is not merged.     *)
GoogleLogin(p, e, g) ==
  /\ AccountAt(p, "waiting")
  /\ \/ /\ \E a \in ByGoogleId(g) : GenerateTokens(a, g)
        /\ UNCHANGED accountHandlers
     \/ /\ ByGoogleId(g) = {}
        /\ AccountGo(p, [step |-> "email", email |-> e, provider |-> "google",
                         secret |-> g])
        /\ UNCHANGED tokens
  /\ UNCHANGED <<accounts, together>>

GoogleEmail(p) ==
  /\ AccountAt(p, "email")
  /\ IF ByEmail(accountHandlers[p].email) = {}
     THEN AccountGo(p, [accountHandlers[p] EXCEPT !.step = "create"])
     ELSE AccountEnd(p)
  /\ UNCHANGED <<accounts, tokens, together>>

Add(a, account) ==
  accounts' = [b \in Users \cup {a} |-> IF b = a THEN account ELSE accounts[b]]

(* Mutant: the columns of users are not UNIQUE.                            *)
CreateAnother(p) ==
  LET h == accountHandlers[p] IN
  /\ AccountAt(p, "create")
  /\ \E a \in AccountIds \ Users :
       /\ Add(a, Account(h.email, h.provider, h.secret))
       /\ GenerateTokens(a, h.secret)
  /\ AccountEnd(p)
  /\ UNCHANGED together

(* INSERT: UNIQUE email and googleId refuse what has appeared since.       *)
Create(p) ==
  LET h == accountHandlers[p] IN
  /\ AccountAt(p, "create")
  /\ \/ /\ ByEmail(h.email) = {}
        /\ h.provider = "google" => ByGoogleId(h.secret) = {}
        /\ \E a \in AccountIds \ Users :
             /\ Add(a, Account(h.email, h.provider, h.secret))
             /\ GenerateTokens(a, h.secret)
     \/ /\ \/ ByEmail(h.email) # {}
           \/ h.provider = "google" /\ ByGoogleId(h.secret) # {}
           \/ AccountIds = Users
        /\ UNCHANGED <<accounts, tokens>>
  /\ AccountEnd(p)
  /\ UNCHANGED together

Login(e, password) ==
  /\ \E a \in ByEmail(e) :
       /\ accounts[a].provider = "local" /\ accounts[a].secret = password
       /\ GenerateTokens(a, password)
  /\ UNCHANGED <<accounts, together, accountHandlers>>

(***************************************************************************)
(* updateRole().                                                           *)
(***************************************************************************)
RoleSteps == {"find", "update"}

(* Mutant: administrators may resign.                                      *)
StartAnyRole(p, actor, target, role) ==
  /\ AccountAt(p, "waiting")
  /\ actor \in Admins
  /\ AccountGo(p, [step |-> "find", target |-> target, role |-> role])
  /\ together' = (together \/ \E q \in Handlers : accountHandlers[q].step \in RoleSteps)
  /\ UNCHANGED <<accounts, tokens>>

(* JwtStrategy.validate() reads the role, RolesGuard compares it.          *)
StartUpdateRole(p, actor, target, role) ==
  /\ AccountAt(p, "waiting")
  /\ actor \in Admins
  /\ ~(actor = target /\ role # "admin")
  /\ AccountGo(p, [step |-> "find", target |-> target, role |-> role])
  /\ together' = (together \/ \E q \in Handlers : accountHandlers[q].step \in RoleSteps)
  /\ UNCHANGED <<accounts, tokens>>

FindTarget(p) ==
  /\ AccountAt(p, "find")
  /\ IF accountHandlers[p].target \in Users
     THEN AccountGo(p, [accountHandlers[p] EXCEPT !.step = "update"])
     ELSE AccountEnd(p)
  /\ UNCHANGED <<accounts, tokens, together>>

UpdateRole(p) ==
  LET h == accountHandlers[p] IN
  /\ AccountAt(p, "update")
  /\ accounts' = [accounts EXCEPT ![h.target].role = h.role]
  /\ AccountEnd(p)
  /\ UNCHANGED <<tokens, together>>

AccountsNext ==
  \/ \E p \in Handlers :
       \/ \E e \in Emails, w \in Passwords : StartRegister(p, e, w)
       \/ \E e \in Emails, g \in GoogleIds : GoogleLogin(p, e, g)
       \/ GoogleEmail(p) \/ Create(p)
       \/ \E actor, target \in AccountIds, role \in {"cliente", "admin"} :
            StartUpdateRole(p, actor, target, role)
       \/ FindTarget(p) \/ UpdateRole(p)
  \/ \E e \in Emails, w \in Passwords : Login(e, w)

(***************************************************************************)
(* Properties.                                                             *)
(***************************************************************************)
(* auth.service.ts:34,90,97: registrations and Google logins that overlap  *)
(* never make two accounts of one email or one Google identity, so that no *)
(* later login can get into an account made with another secret.           *)
AccountsAreNotMerged ==
  /\ \A e \in Emails : Cardinality(ByEmail(e)) <= 1
  /\ \A g \in GoogleIds : Cardinality(ByGoogleId(g)) <= 1
  /\ \A t \in tokens : accounts[t[1]].secret = t[2]

(* users.service.ts:298: the system is left without administrators only by *)
(* two of them taking the role from each other at the same time.           *)
AdminsAreLostOnlyTogether == Admins = {} => together

=============================================================================
