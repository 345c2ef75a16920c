------------------------------ MODULE Accounts ------------------------------
(***************************************************************************)
(* Accounts, sessions and two-factor login: user administration, password  *)
(* stage, challenges, TOTP and recovery codes, factor replacement, session *)
(* revocation and the per-account limit on failed second factors.          *)
(*                                                                         *)
(* A request is read in one transaction and decided in another.  flight    *)
(* holds what a request took from its first reads: the MFA routes run on   *)
(* worker threads and open their deciding transaction with BEGIN IMMEDIATE,*)
(* so each of those is one step here; the user routes run on the event     *)
(* loop without an await between check and commit, but the authorisation   *)
(* they rest on was read earlier, in a dependency on a worker thread.      *)
(*                                                                         *)
(* A password is the number of times it was changed (hash and              *)
(* password_changed_at change together).  A challenge token names the      *)
(* challenge, the TOTP secret that it may carry, and the session it may    *)
(* turn into.  TOTP steps are 30 s; a code of a secret is the step it is   *)
(* for.  Only the account key of the limiter is kept, not the address key. *)
(***************************************************************************)
EXTENDS Naturals, FiniteSets, Bags

CONSTANTS Users, NoUser,
          Initial,       \* administrators at the start
          Requests,      \* requests being served at the same time
          Codes,         \* recovery codes of a batch
          MaxAttempts,   \* MFA limiter, failures per window
          MaxToken,      \* bound: challenges and demo sessions of a behaviour
          MaxServed,     \* bound: requests begun in a behaviour
          MaxStep,       \* bound: the last TOTP step the clock reaches
          MaxPassword    \* bound: password changes of a user

ASSUME InitialAssumption == Initial \subseteq Users /\ Initial # {}
ASSUME NoUserAssumption  == NoUser \notin Users
ASSUME FiniteAssumption  == IsFiniteSet(Users) /\ IsFiniteSet(Requests)
\* The limiter cannot be set to no attempt at all: check() would look for the
\* oldest of no failures.
ASSUME LimitAssumption   == MaxAttempts \in Nat \ {0}
ASSUME BoundsAssumption  == {MaxToken, MaxServed, MaxStep, MaxPassword} \subseteq Nat

VARIABLES
  role,       \* "none" while the account does not exist
  active,     \* User.is_active
  password,
  cred,       \* MfaCredential and its unconsumed MfaRecoveryCode rows
  challenge,  \* the account's MfaChallenge row
  sessions,   \* AuthSession rows neither revoked nor expired
  failures,   \* failures of the account inside the limiter's window
  flight,     \* per request: what it read and passed so far
  nextToken,
  served,     \* requests begun so far
  now,        \* the TOTP step of the clock
  spent       \* history: a bag of the one-time proofs accepted

vars == <<role, active, password, cred, challenge, sessions, failures, flight,
          nextToken, served, now, spent>>

NoChallenge == [token |-> 0, purpose |-> "none", version |-> 0, password |-> 0, proof |-> 0]
Idle        == [kind |-> "idle", user |-> NoUser, token |-> 0, password |-> 0]
Unenrolled  == [state |-> "unenrolled", version |-> 0, secret |-> 0, last |-> 0,
                generation |-> 0, codes |-> {}]

ActiveAdmins == {u \in Users : role[u] = "Admin" /\ active[u]}
Proof(p)     == SetToBag({p})

\* A request is received by a free thread.
Begins(r, f) ==
  /\ flight[r] = Idle /\ served < MaxServed
  /\ served' = served + 1
  /\ flight' = [flight EXCEPT ![r] = f]

\* matching_totp_step: the steps whose code the clock accepts.
Window == (now - 1)..(now + 1)

(***************************************************************************)
(* Sessions.                                                               *)
(***************************************************************************)

\* authenticate_session_token and _load_management_actor.
Authenticates(s) ==
  /\ s \in sessions
  /\ active[s.user]
  /\ s.method = "totp" => /\ cred[s.user].state = "enrolled"
                          /\ s.version = cred[s.user].version

\* revoke_all_for_user.
Without(u) == {s \in sessions : s.user # u}

Totp(u, c, proof) == [id |-> c.token, user |-> u, method |-> "totp",
                      version |-> cred[u].version, proof |-> proof]

\* A logout, or the clean-up of an expired session.
Logout(s) ==
  /\ s \in sessions
  /\ sessions' = sessions \ {s}
  /\ UNCHANGED <<role, active, password, cred, challenge, failures, flight, nextToken,
                 served, now, spent>>

\* dev_login_as: an authenticated user changes to another active account.
HopRead(r, s, u) ==
  /\ Authenticates(s) /\ active[u]
  /\ Begins(r, [kind |-> "hop", user |-> u, token |-> s.id, password |-> 0])
  /\ UNCHANGED <<role, active, password, cred, challenge, sessions, failures, nextToken,
                 now, spent>>

Hop(r) ==
  LET f == flight[r] IN
  /\ f.kind = "hop" /\ nextToken <= MaxToken
  /\ sessions' = {s \in sessions : s.id # f.token}
                   \cup {[id |-> nextToken, user |-> f.user, method |-> "demo",
                          version |-> 0, proof |-> 0]}
  /\ nextToken' = nextToken + 1
  /\ flight' = [flight EXCEPT ![r] = Idle]
  /\ UNCHANGED <<role, active, password, cred, challenge, failures,
                 served, now, spent>>

(***************************************************************************)
(* The password stage of a login.                                          *)
(***************************************************************************)

\* begin_password_login up to the password check.
PasswordStage(r, u) ==
  /\ role[u] # "none" /\ active[u]
  /\ Begins(r, [kind |-> "login", user |-> u, token |-> 0, password |-> password[u]])
  /\ UNCHANGED <<role, active, password, cred, challenge, sessions, failures, nextToken,
                 now, spent>>

PurposeOf(state) ==
  CASE state = "unenrolled"       -> "enroll"
    [] state = "enrolled"         -> "login"
    [] state = "recovery_pending" -> "recovery_verify"

NewChallenge(u, purpose, version, proof) ==
  [token |-> nextToken, purpose |-> purpose, version |-> version,
   password |-> password[u], proof |-> proof]

\* Mutant: the second look at the hash is left out.
PasswordNotCompared(f) == active[f.user]

\* The account and its hash are still what the password was compared with.
PasswordStillRight(f) == active[f.user] /\ password[f.user] = f.password

\* begin_password_login from BEGIN IMMEDIATE on.
StartChallenge(r) ==
  LET f == flight[r] IN
  /\ f.kind = "login" /\ nextToken <= MaxToken
  /\ flight' = [flight EXCEPT ![r] = Idle]
  /\ \/ /\ PasswordStillRight(f)
        /\ challenge' = [challenge EXCEPT ![f.user] =
             NewChallenge(f.user, PurposeOf(cred[f.user].state), cred[f.user].version, f.password)]
        /\ nextToken' = nextToken + 1
     \/ ~PasswordStillRight(f) /\ UNCHANGED <<challenge, nextToken>>
  /\ UNCHANGED <<role, active, password, cred, sessions, failures,
                 served, now, spent>>

\* cancel_challenge; a challenge past its deadline is as good as deleted.
CancelChallenge(u) ==
  /\ challenge[u] # NoChallenge
  /\ challenge' = [challenge EXCEPT ![u] = NoChallenge]
  /\ UNCHANGED <<role, active, password, cred, sessions, failures, flight, nextToken,
                 served, now, spent>>

(***************************************************************************)
(* The second factor.                                                      *)
(***************************************************************************)

\* Mutant: the limiter is not asked.
ProofUnlimited(r, u) ==
  /\ challenge[u] # NoChallenge
  /\ Begins(r, [kind |-> "prove", user |-> u, token |-> challenge[u].token, password |-> 0])
  /\ UNCHANGED <<role, active, password, cred, challenge, sessions, failures, nextToken,
                 now, spent>>

\* verify_challenge and confirm_enrollment up to the limiter.
ProofStage(r, u) ==
  /\ challenge[u] # NoChallenge
  /\ failures[u] < MaxAttempts
  /\ Begins(r, [kind |-> "prove", user |-> u, token |-> challenge[u].token, password |-> 0])
  /\ UNCHANGED <<role, active, password, cred, challenge, sessions, failures, nextToken,
                 now, spent>>

RequiredState(purpose) ==
  CASE purpose \in {"login", "replace"}                   -> "enrolled"
    [] purpose = "enroll"                                 -> "unenrolled"
    [] purpose \in {"recovery_verify", "recovery_enroll"} -> "recovery_pending"
    [] OTHER                                              -> "none"

\* _load_challenge.
Loads(f) ==
  LET c == challenge[f.user] IN
  /\ c.token = f.token /\ f.token # 0
  /\ active[f.user]
  /\ c.password = password[f.user]
  /\ c.version = cred[f.user].version
  /\ cred[f.user].state = RequiredState(c.purpose)

\* The request is over; _reset_mfa_account still has to run.
Succeeds(r) == flight' = [flight EXCEPT ![r] = [kind |-> "reset", user |-> flight[r].user,
                                                token |-> 0, password |-> 0]]

\* Mutant: a code of the window is accepted again.
Replayed(u, n) == n \in Window

\* The last accepted step must be exceeded.
Unused(u, n) == n \in Window /\ n > cred[u].last

VerifyTotp(r, n) ==
  LET f == flight[r]
      u == f.user
      c == challenge[u]
  IN /\ f.kind = "prove" /\ Loads(f) /\ c.purpose = "login"
     /\ Unused(u, n)
     /\ cred' = [cred EXCEPT ![u].last = n]
     /\ challenge' = [challenge EXCEPT ![u] = NoChallenge]
     /\ sessions' = sessions \cup {Totp(u, c, c.proof)}
     /\ spent' = spent (+) Proof(<<"totp", cred[u].secret, n>>) (+) Proof(<<"challenge", c.token>>)
     /\ Succeeds(r)
     /\ UNCHANGED <<role, active, password, failures, nextToken, served, now>>

Matching(u, k) == k \in cred[u].codes

\* verify_challenge with a recovery code: the factor is gone, a new one must
\* be enrolled, and every session of the account ends.
VerifyRecovery(r, k) ==
  LET f == flight[r]
      u == f.user
      c == challenge[u]
  IN /\ f.kind = "prove" /\ Loads(f) /\ c.purpose \in {"login", "recovery_verify"}
     /\ nextToken <= MaxToken
     /\ Matching(u, k)
     /\ cred' = [cred EXCEPT ![u] = [state |-> "recovery_pending", version |-> @.version + 1,
                                     secret |-> 0, last |-> 0, generation |-> @.generation,
                                     codes |-> @.codes \ {k}]]
     /\ challenge' = [challenge EXCEPT ![u] =
                        NewChallenge(u, "recovery_enroll", cred[u].version + 1, c.proof)]
     /\ nextToken' = nextToken + 1
     /\ sessions' = Without(u)
     /\ spent' = spent (+) Proof(<<"code", u, cred[u].generation, k>>)
                       (+) Proof(<<"challenge", c.token>>)
     /\ Succeeds(r)
     /\ UNCHANGED <<role, active, password, failures, served, now>>

\* Mutant: the new factor keeps the version of the old one.
SameVersion(u, n) ==
  [state |-> "enrolled", version |-> cred[u].version, secret |-> challenge[u].token,
   last |-> n, generation |-> cred[u].generation + 1, codes |-> Codes]

\* The factor a confirmed challenge leaves: its pending secret becomes the
\* active one, with a new batch of recovery codes (_add_recovery_batch).
Enrolled(u, n) ==
  [state |-> "enrolled", version |-> cred[u].version + 1, secret |-> challenge[u].token,
   last |-> n, generation |-> cred[u].generation + 1, codes |-> Codes]

\* confirm_enrollment of a first or a recovered factor: it also logs in.
ConfirmEnrollment(r, n) ==
  LET f == flight[r]
      u == f.user
      c == challenge[u]
  IN /\ f.kind = "prove" /\ Loads(f) /\ c.purpose \in {"enroll", "recovery_enroll"}
     /\ n \in Window
     /\ cred' = [cred EXCEPT ![u] = Enrolled(u, n)]
     /\ challenge' = [challenge EXCEPT ![u] = NoChallenge]
     /\ sessions' = Without(u) \cup {[Totp(u, c, c.proof) EXCEPT !.version = cred[u].version + 1]}
     /\ spent' = spent (+) Proof(<<"totp", c.token, n>>) (+) Proof(<<"challenge", c.token>>)
     /\ Succeeds(r)
     /\ UNCHANGED <<role, active, password, failures, nextToken, served, now>>

\* confirm_enrollment of a replacement: every session of the account ends.
ConfirmReplacement(r, n) ==
  LET f == flight[r]
      u == f.user
      c == challenge[u]
  IN /\ f.kind = "prove" /\ Loads(f) /\ c.purpose = "replace"
     /\ n \in Window
     /\ cred' = [cred EXCEPT ![u] = Enrolled(u, n)]
     /\ challenge' = [challenge EXCEPT ![u] = NoChallenge]
     /\ sessions' = Without(u)
     /\ spent' = spent (+) Proof(<<"totp", c.token, n>>) (+) Proof(<<"challenge", c.token>>)
     /\ Succeeds(r)
     /\ UNCHANGED <<role, active, password, failures, nextToken, served, now>>

\* A wrong or used code, or a wrong password of a management request.
RecordFailure(r) ==
  LET f == flight[r] IN
  /\ f.kind = "manage" \/ (f.kind = "prove" /\ Loads(f))
  /\ failures' = [failures EXCEPT ![f.user] = @ + 1]
  /\ flight' = [flight EXCEPT ![r] = Idle]
  /\ UNCHANGED <<role, active, password, cred, challenge, sessions, nextToken, served, now,
                 spent>>

\* The challenge is no longer valid, or the conditions of a management
\* request no longer hold, when the deciding transaction looks again.
Deny(r) ==
  LET f == flight[r] IN
  /\ \/ f.kind = "prove" /\ ~Loads(f)
     \/ f.kind = "manage" /\ ~(/\ PasswordStillRight(f)
                               /\ \E s \in sessions : s.id = f.token /\ Authenticates(s))
  /\ flight' = [flight EXCEPT ![r] = Idle]
  /\ UNCHANGED <<role, active, password, cred, challenge, sessions, failures, nextToken, served,
                 now, spent>>

\* _reset_mfa_account, after the commit.
ResetFailures(r) ==
  /\ flight[r].kind = "reset"
  /\ failures' = [failures EXCEPT ![flight[r].user] = 0]
  /\ flight' = [flight EXCEPT ![r] = Idle]
  /\ UNCHANGED <<role, active, password, cred, challenge, sessions, nextToken, served, now,
                 spent>>

\* A failure leaves the sliding window.
FailureAges(u) ==
  /\ failures[u] > 0
  /\ failures' = [failures EXCEPT ![u] = @ - 1]
  /\ UNCHANGED <<role, active, password, cred, challenge, sessions, flight, nextToken,
                 served, now, spent>>

(***************************************************************************)
(* Managing the factor from a session.                                     *)
(***************************************************************************)

\* _verify_management_password: the session, the limiter and the hash read.
ManageStage(r, s) ==
  /\ Authenticates(s)
  /\ failures[s.user] < MaxAttempts
  /\ Begins(r, [kind |-> "manage", user |-> s.user, token |-> s.id, password |-> password[s.user]])
  /\ UNCHANGED <<role, active, password, cred, challenge, sessions, failures, nextToken,
                 now, spent>>

\* _load_management_actor and the second look at the hash.
Manages(f) ==
  /\ f.kind = "manage"
  /\ PasswordStillRight(f)
  /\ \E s \in sessions : s.id = f.token /\ Authenticates(s)

\* begin_replacement: the old factor stays usable.
BeginReplacement(r, n) ==
  LET f == flight[r]
      u == f.user
  IN /\ Manages(f) /\ cred[u].state = "enrolled" /\ Unused(u, n)
     /\ nextToken <= MaxToken
     /\ cred' = [cred EXCEPT ![u].last = n]
     /\ challenge' = [challenge EXCEPT ![u] =
                        NewChallenge(u, "replace", cred[u].version, f.password)]
     /\ nextToken' = nextToken + 1
     /\ spent' = spent (+) Proof(<<"totp", cred[u].secret, n>>)
     /\ Succeeds(r)
     /\ UNCHANGED <<role, active, password, sessions, failures, served, now>>

RotateRecoveryCodes(r, n) ==
  LET f == flight[r]
      u == f.user
  IN /\ Manages(f) /\ cred[u].state = "enrolled" /\ Unused(u, n)
     /\ cred' = [cred EXCEPT ![u].last = n, ![u].generation = @ + 1, ![u].codes = Codes]
     /\ challenge' = [challenge EXCEPT ![u] = NoChallenge]
     /\ spent' = spent (+) Proof(<<"totp", cred[u].secret, n>>)
     /\ Succeeds(r)
     /\ UNCHANGED <<role, active, password, sessions, failures, nextToken, served, now>>

\* begin_enrollment_from_session: only from a demo session.
BeginDemoEnrollment(r) ==
  LET f == flight[r]
      u == f.user
  IN /\ Manages(f) /\ cred[u].state = "unenrolled"
     /\ \E s \in sessions : s.id = f.token /\ s.method = "demo"
     /\ nextToken <= MaxToken
     /\ challenge' = [challenge EXCEPT ![u] =
                        NewChallenge(u, "enroll", cred[u].version, f.password)]
     /\ nextToken' = nextToken + 1
     /\ flight' = [flight EXCEPT ![r] = Idle]
     /\ UNCHANGED <<role, active, password, cred, sessions, failures,
                 served, now, spent>>

(***************************************************************************)
(* User administration.                                                    *)
(***************************************************************************)

\* require_admin, and get_current_user of change_my_password.
AuthorizeAdmin(r, s) ==
  /\ Authenticates(s) /\ role[s.user] = "Admin"
  /\ Begins(r, [kind |-> "admin", user |-> s.user, token |-> 0, password |-> 0])
  /\ UNCHANGED <<role, active, password, cred, challenge, sessions, failures, nextToken,
                 now, spent>>

AuthorizeSelf(r, s) ==
  /\ Authenticates(s)
  /\ Begins(r, [kind |-> "self", user |-> s.user, token |-> 0, password |-> 0])
  /\ UNCHANGED <<role, active, password, cred, challenge, sessions, failures, nextToken,
                 now, spent>>

\* invalidate_user_challenge and revoke_all_for_user.
Evict(u) ==
  /\ challenge' = [challenge EXCEPT ![u] = NoChallenge]
  /\ sessions' = Without(u)

CreateUser(r, u, new) ==
  /\ flight[r].kind = "admin"
  /\ role[u] = "none"
  /\ role' = [role EXCEPT ![u] = new]
  /\ active' = [active EXCEPT ![u] = TRUE]
  /\ flight' = [flight EXCEPT ![r] = Idle]
  /\ UNCHANGED <<password, cred, challenge, sessions, failures, nextToken, served, now, spent>>

\* Mutant: an off-by-one in the count of the administrators left.
LastAdminOffByOne(seenRole) == seenRole = "Admin" /\ Cardinality(ActiveAdmins) < 1

\* _get_active_admin_count as the guards use it.
LastAdmin(seenRole) == seenRole = "Admin" /\ Cardinality(ActiveAdmins) <= 1

\* The actor's own row is the one the dependency loaded: the session's
\* identity map still shows it as an active administrator.  A column is
\* written only when it differs from what was loaded.
UpdateUser(r, u, newRole, newActive) ==
  LET seenRole    == IF u = flight[r].user THEN "Admin" ELSE role[u]
      seenActive  == IF u = flight[r].user THEN TRUE ELSE active[u]
      deactivated == seenActive /\ ~newActive
      roleChanged == newRole # seenRole
  IN /\ flight[r].kind = "admin"
     /\ role[u] # "none"
     /\ ~(LastAdmin(seenRole) /\ (newRole = "Operator" \/ ~newActive))
     /\ role' = IF roleChanged THEN [role EXCEPT ![u] = newRole] ELSE role
     /\ active' = IF newActive # seenActive THEN [active EXCEPT ![u] = newActive] ELSE active
     /\ IF deactivated \/ roleChanged THEN Evict(u) ELSE UNCHANGED <<challenge, sessions>>
     /\ flight' = [flight EXCEPT ![r] = Idle]
     /\ UNCHANGED <<password, cred, failures, nextToken, served, now, spent>>

DeleteUser(r, u) ==
  /\ flight[r].kind = "admin"
  /\ active[u] /\ u # flight[r].user
  /\ ~LastAdmin(role[u])
  /\ active' = [active EXCEPT ![u] = FALSE]
  /\ Evict(u)
  /\ flight' = [flight EXCEPT ![r] = Idle]
  /\ UNCHANGED <<role, password, cred, failures, nextToken, served, now, spent>>

ResetPassword(r, u) ==
  /\ flight[r].kind = "admin"
  /\ active[u] /\ password[u] < MaxPassword
  /\ password' = [password EXCEPT ![u] = @ + 1]
  /\ Evict(u)
  /\ flight' = [flight EXCEPT ![r] = Idle]
  /\ UNCHANGED <<role, active, cred, failures, nextToken, served, now, spent>>

\* change_my_password: the old password is compared with the hash that the
\* dependency loaded, whatever the row holds by now.
ChangeMyPassword(r) ==
  LET u == flight[r].user IN
  /\ flight[r].kind = "self" /\ password[u] < MaxPassword
  /\ password' = [password EXCEPT ![u] = @ + 1]
  /\ Evict(u)
  /\ flight' = [flight EXCEPT ![r] = Idle]
  /\ UNCHANGED <<role, active, cred, failures, nextToken, served, now, spent>>

\* An authorised request is refused: a wrong old password, a 404, a guard.
Refuse(r) ==
  /\ flight[r].kind \in {"admin", "self", "hop", "login"}
  /\ flight' = [flight EXCEPT ![r] = Idle]
  /\ UNCHANGED <<role, active, password, cred, challenge, sessions, failures, nextToken, served,
                 now, spent>>

(***************************************************************************)
(* The specification.                                                      *)
(***************************************************************************)

Tick ==
  /\ now < MaxStep
  /\ now' = now + 1
  /\ UNCHANGED <<role, active, password, cred, challenge, sessions, failures, flight,
                 nextToken, served, spent>>

\* init_db has seeded the administrators; nobody has a factor yet.
Init ==
  /\ role = [u \in Users |-> IF u \in Initial THEN "Admin" ELSE "none"]
  /\ active = [u \in Users |-> u \in Initial]
  /\ password = [u \in Users |-> 0]
  /\ cred = [u \in Users |-> Unenrolled]
  /\ challenge = [u \in Users |-> NoChallenge]
  /\ sessions = {}
  /\ failures = [u \in Users |-> 0]
  /\ flight = [r \in Requests |-> Idle]
  /\ nextToken = 1 /\ served = 0
  /\ now = 1
  /\ spent = EmptyBag

SessionStep ==
  \/ \E s \in sessions : Logout(s)
  \/ \E r \in Requests, s \in sessions, u \in Users : HopRead(r, s, u)
  \/ \E r \in Requests : Hop(r)

LoginStep ==
  \/ \E r \in Requests, u \in Users : PasswordStage(r, u)
  \/ \E r \in Requests : StartChallenge(r)
  \/ \E u \in Users : CancelChallenge(u)
  \/ \E r \in Requests, u \in Users : ProofStage(r, u)
  \/ \E r \in Requests, n \in Window : VerifyTotp(r, n)
  \/ \E r \in Requests, k \in Codes : VerifyRecovery(r, k)
  \/ \E r \in Requests, n \in Window : ConfirmEnrollment(r, n)
  \/ \E r \in Requests, n \in Window : ConfirmReplacement(r, n)
  \/ \E r \in Requests : RecordFailure(r)
  \/ \E r \in Requests : Deny(r)
  \/ \E r \in Requests : ResetFailures(r)
  \/ \E u \in Users : FailureAges(u)

ManageStep ==
  \/ \E r \in Requests, s \in sessions : ManageStage(r, s)
  \/ \E r \in Requests, n \in Window : BeginReplacement(r, n)
  \/ \E r \in Requests, n \in Window : RotateRecoveryCodes(r, n)
  \/ \E r \in Requests : BeginDemoEnrollment(r)

AdminStep ==
  \/ \E r \in Requests, s \in sessions : AuthorizeAdmin(r, s)
  \/ \E r \in Requests, s \in sessions : AuthorizeSelf(r, s)
  \/ \E r \in Requests, u \in Users, new \in {"Operator", "Admin"} : CreateUser(r, u, new)
  \/ \E r \in Requests, u \in Users, new \in {"Operator", "Admin"}, on \in BOOLEAN :
       UpdateUser(r, u, new, on)
  \/ \E r \in Requests, u \in Users : DeleteUser(r, u)
  \/ \E r \in Requests, u \in Users : ResetPassword(r, u)
  \/ \E r \in Requests : ChangeMyPassword(r)
  \/ \E r \in Requests : Refuse(r)

Next == SessionStep \/ LoginStep \/ ManageStep \/ AdminStep \/ Tick

Spec == Init /\ [][Next]_vars

(***************************************************************************)
(* Properties.                                                             *)
(***************************************************************************)

CredType == [state: {"unenrolled", "enrolled", "recovery_pending"}, version: Nat,
             secret: Nat, last: Nat, generation: Nat, codes: SUBSET Codes]
ChallengeType == [token: Nat, version: Nat, password: Nat, proof: Nat,
                  purpose: {"none", "enroll", "login", "recovery_verify", "recovery_enroll",
                            "replace"}]
SessionType == [id: Nat, user: Users, method: {"totp", "demo"}, version: Nat, proof: Nat]
FlightType == [kind: {"idle", "hop", "login", "prove", "manage", "reset", "admin", "self"},
               user: Users \cup {NoUser}, token: Nat, password: Nat]

\* Every row has the columns and values of its table, no challenge, session
\* or factor carries a token that was not issued yet, and only a request
\* being served names a user.
TypeOK ==
  /\ role \in [Users -> {"none", "Operator", "Admin"}]
  /\ active \in [Users -> BOOLEAN]
  /\ password \in [Users -> Nat]
  /\ cred \in [Users -> CredType]
  /\ challenge \in [Users -> ChallengeType]
  /\ sessions \subseteq SessionType
  /\ failures \in [Users -> Nat]
  /\ flight \in [Requests -> FlightType]
  /\ nextToken \in Nat \ {0} /\ now \in Nat \ {0} /\ served \in Nat
  /\ IsABag(spent)
  /\ \A u \in Users : active[u] => role[u] # "none"
  /\ \A u \in Users : challenge[u].token < nextToken /\ cred[u].secret < nextToken
  /\ \A s \in sessions : s.id < nextToken
  /\ \A r \in Requests : flight[r].kind # "idle" => flight[r].user \in Users

\* Whatever administrators do to each other and to themselves at the same
\* time, also on an authorisation that is no longer true, the system keeps
\* an active administrator (the guards of update_user and delete_user).
ActiveAdminRemains == ActiveAdmins # {}

\* A session that came from a login belongs to an active account and to the
\* password the account has now: no login begun before a password change, a
\* reset or a deactivation survives it or is completed after it.
SessionsFollowAccount ==
  \A s \in sessions : s.method = "totp" => active[s.user] /\ s.proof = password[s.user]

\* ... and to the factor the account has now: after a recovery or a
\* replacement no older session is left, and an account in recovery has none.
SessionsFollowFactor ==
  \A s \in sessions : s.method = "totp" =>
    cred[s.user].state = "enrolled" /\ s.version = cred[s.user].version

\* No TOTP code, no recovery code and no challenge is ever accepted twice,
\* by whichever of the operations that accept them.
ProofsAreSpentOnce == \A p \in DOMAIN spent : spent[p] = 1

\* The limiter is asked before a proof is examined and told after: requests
\* served at the same time may overshoot it, by one each but the first.
OvershootIsBounded ==
  \A u \in Users : failures[u] <= (MaxAttempts - 1) + Cardinality(Requests)
=============================================================================
