--------------------------- MODULE Accounts_proofs ---------------------------
(***************************************************************************)
(* Proofs about Accounts, for any number of users and of requests served   *)
(* at the same time.                                                       *)
(***************************************************************************)
EXTENDS Accounts, FiniteSetTheorems, TLAPS

-----------------------------------------------------------------------------
(* The inductive invariant *)

\* A login keeps the password it was begun with, next to the one the challenge
\* was issued for.
ChallengeInv == \A u \in Users : challenge[u].proof = challenge[u].password

\* A token is given out once: no two challenges, no two factors, and no factor
\* and challenge have the same.
TokenInv ==
  /\ \A u, v \in Users : challenge[u].token # 0 /\ challenge[u].token = challenge[v].token => u = v
  /\ \A u, v \in Users : cred[u].secret # 0 => cred[u].secret # challenge[v].token
  /\ \A u, v \in Users : cred[u].secret # 0 /\ cred[u].secret = cred[v].secret => u = v
  /\ \A u \in Users : cred[u].state = "enrolled" => cred[u].secret # 0

\* A proof that was accepted cannot be accepted again: the challenge is gone, the
\* factor is gone or past the step, the code is gone from its batch.
ChallengeOver(t) == /\ t \in Nat /\ t < nextToken /\ t # 0
                    /\ \A u \in Users : challenge[u].token # t
CodeOver(t, n)   == /\ ChallengeOver(t) /\ n \in Nat
                    /\ \A u \in Users : cred[u].secret = t => n <= cred[u].last
RecoveryOver(u, g, k) == /\ u \in Users /\ g \in Nat /\ g <= cred[u].generation
                         /\ g = cred[u].generation => k \notin cred[u].codes

Over(p) == /\ p[1] \in {"challenge", "totp", "code"}
           /\ p[1] = "challenge" => ChallengeOver(p[2])
           /\ p[1] = "totp" => CodeOver(p[2], p[3])
           /\ p[1] = "code" => RecoveryOver(p[2], p[3], p[4])

SpentInv == ProofsAreSpentOnce /\ \A p \in DOMAIN spent : Over(p)

\* Requests past the limiter that have not told it the outcome yet.
Undecided(u) == {r \in Requests : flight[r].user = u /\ flight[r].kind \in {"prove", "manage"}}

\* What the limiter will know at the most.
Within(u) == failures[u] + Cardinality(Undecided(u)) <= (MaxAttempts - 1) + Cardinality(Requests)

LimitInv == \A u \in Users : Within(u)

IInv == /\ ActiveAdminRemains /\ ChallengeInv /\ SessionsFollowAccount /\ SessionsFollowFactor
        /\ TokenInv /\ SpentInv /\ LimitInv

-----------------------------------------------------------------------------
(* Bags, rows and functions of rows *)

\* A proof that is not in a bag of single proofs makes another one.
With(B, x) == B (+) Proof(x)
Single(B)  == IsABag(B) /\ \A p \in DOMAIN B : B[p] = 1

LEMMA BagAdd ==
  ASSUME NEW B, IsABag(B), NEW x
  PROVE  /\ IsABag(With(B, x)) /\ DOMAIN With(B, x) = DOMAIN B \cup {x}
         /\ Single(B) /\ x \notin DOMAIN B => Single(With(B, x))
<1> DEFINE P == Proof(x)
           both == [e \in DOMAIN B \cup DOMAIN P |->
                     (IF e \in DOMAIN B THEN B[e] ELSE 0) + (IF e \in DOMAIN P THEN P[e] ELSE 0)]
<1>1. DOMAIN P = {x} /\ P[x] = 1
  BY DEF Proof, SetToBag
<1>2. B (+) P = both
  BY DEF (+)
<1>3. \A e \in DOMAIN B : B[e] \in Nat /\ B[e] > 0
  BY DEF IsABag
<1> HIDE DEF P
<1>4. DOMAIN both = DOMAIN B \cup {x}
  BY <1>1
<1>5. \A p \in DOMAIN B : p # x => both[p] = B[p]
  BY <1>1, <1>3
<1>6. x \notin DOMAIN B => both[x] = 1
  BY <1>1
<1>7. \A p \in DOMAIN both : both[p] \in Nat /\ both[p] > 0
  BY <1>1, <1>3
<1>8. both \in [DOMAIN both -> {n \in Nat : n > 0}]
  BY <1>7
<1>9. With(B, x) = both
  BY <1>2 DEF With, P
<1> HIDE DEF both
<1>10. IsABag(both)
  BY <1>8 DEF IsABag
<1>11. Single(B) /\ x \notin DOMAIN B => Single(both)
  BY <1>4, <1>5, <1>6, <1>10 DEF Single
<1> QED BY <1>4, <1>9, <1>10, <1>11

\* One row of a table is written.
LEMMA RowSet ==
  ASSUME NEW D, NEW T, NEW f \in [D -> T], NEW u \in D, NEW row \in T, NEW g,
         g = [f EXCEPT ![u] = row]
  PROVE  g \in [D -> T] /\ g[u] = row /\ \A v \in D \ {u} : g[v] = f[v]
OBVIOUS

LEMMA CredRows ==
  ASSUME NEW c \in CredType, NEW n \in Nat
  PROVE  /\ [c EXCEPT !.last = n] \in CredType
         /\ [c EXCEPT !.last = n].last = n
         /\ [c EXCEPT !.last = n].state = c.state /\ [c EXCEPT !.last = n].version = c.version
         /\ [c EXCEPT !.last = n].secret = c.secret
         /\ [c EXCEPT !.last = n].generation = c.generation
         /\ [c EXCEPT !.last = n].codes = c.codes
BY DEF CredType

-----------------------------------------------------------------------------
(* Type correctness, in the parts that change together *)

AccountType   == /\ role \in [Users -> {"none", "Operator", "Admin"}]
                 /\ active \in [Users -> BOOLEAN]
                 /\ \A u \in Users : active[u] => role[u] # "none"
PasswordOK    == password \in [Users -> Nat]
CredOK        == cred \in [Users -> CredType] /\ \A u \in Users : cred[u].secret < nextToken
ChallengeOK   == /\ challenge \in [Users -> ChallengeType]
                 /\ \A u \in Users : challenge[u].token < nextToken
SessionsOK    == sessions \subseteq SessionType /\ \A s \in sessions : s.id < nextToken
FlightOK      == /\ flight \in [Requests -> FlightType]
                 /\ \A r \in Requests : flight[r].kind # "idle" => flight[r].user \in Users
FailuresOK    == failures \in [Users -> Nat]
CountersOK    == nextToken \in Nat \ {0} /\ now \in Nat \ {0} /\ served \in Nat
SpentOK       == IsABag(spent)

LEMMA TypeParts ==
  /\ TypeOK <=> /\ AccountType /\ PasswordOK /\ CredOK /\ ChallengeOK /\ SessionsOK /\ FlightOK
                /\ FailuresOK /\ CountersOK /\ SpentOK
  /\ TypeOK' <=> /\ AccountType' /\ PasswordOK' /\ CredOK' /\ ChallengeOK' /\ SessionsOK'
                 /\ FlightOK' /\ FailuresOK' /\ CountersOK' /\ SpentOK'
BY DEF TypeOK, AccountType, PasswordOK, CredOK, ChallengeOK, SessionsOK, FlightOK, FailuresOK,
       CountersOK, SpentOK

\* A part whose variables stay, or whose tokens are only more, stays right.
LEMMA Unchanged ==
  /\ AccountType /\ UNCHANGED <<role, active>> => AccountType'
  /\ PasswordOK /\ UNCHANGED password => PasswordOK'
  /\ FlightOK /\ UNCHANGED flight => FlightOK'
  /\ FailuresOK /\ UNCHANGED failures => FailuresOK'
  /\ CountersOK /\ UNCHANGED <<nextToken, now, served>> => CountersOK'
  /\ SpentOK /\ UNCHANGED spent => SpentOK'
BY DEF AccountType, PasswordOK, FlightOK, FailuresOK, CountersOK, SpentOK

LEMMA UnchangedRows ==
  ASSUME CountersOK, nextToken' \in {nextToken, nextToken + 1}
  PROVE  /\ CredOK /\ UNCHANGED cred => CredOK'
         /\ ChallengeOK /\ UNCHANGED challenge => ChallengeOK'
         /\ SessionsOK /\ UNCHANGED sessions => SessionsOK'
<1>1. nextToken \in Nat /\ nextToken' >= nextToken /\ nextToken' \in Nat
  BY DEF CountersOK
<1>2. ASSUME CredOK, UNCHANGED cred PROVE CredOK'
  BY <1>1, <1>2 DEF CredOK, CredType
<1>3. ASSUME ChallengeOK, UNCHANGED challenge PROVE ChallengeOK'
  BY <1>1, <1>3 DEF ChallengeOK, ChallengeType
<1>4. ASSUME SessionsOK, UNCHANGED sessions PROVE SessionsOK'
  BY <1>1, <1>4 DEF SessionsOK, SessionType
<1> QED BY <1>2, <1>3, <1>4

\* The row of one user is replaced by one of the right type.
LEMMA CredSet ==
  ASSUME CountersOK, nextToken' \in {nextToken, nextToken + 1}, CredOK, NEW u \in Users,
         NEW row \in CredType, row.secret < nextToken', cred' = [cred EXCEPT ![u] = row]
  PROVE  CredOK' /\ cred'[u] = row /\ \A v \in Users \ {u} : cred'[v] = cred[v]
<1>1. cred \in [Users -> CredType]
  BY DEF CredOK
<1>2. cred' \in [Users -> CredType] /\ cred'[u] = row /\ \A v \in Users \ {u} : cred'[v] = cred[v]
  BY <1>1, RowSet
<1>3. nextToken \in Nat /\ nextToken' >= nextToken /\ nextToken' \in Nat
  BY DEF CountersOK
<1>4. \A v \in Users : cred[v].secret \in Nat /\ cred[v].secret < nextToken
  BY <1>1 DEF CredOK, CredType
<1>5. \A v \in Users : cred'[v].secret < nextToken'
  BY <1>2, <1>3, <1>4
<1> QED BY <1>2, <1>5 DEF CredOK

LEMMA ChallengeSet ==
  ASSUME CountersOK, nextToken' \in {nextToken, nextToken + 1}, ChallengeOK, NEW u \in Users,
         NEW row \in ChallengeType, row.token < nextToken',
         challenge' = [challenge EXCEPT ![u] = row]
  PROVE  /\ ChallengeOK' /\ challenge'[u] = row
         /\ \A v \in Users \ {u} : challenge'[v] = challenge[v]
<1>1. challenge \in [Users -> ChallengeType]
  BY DEF ChallengeOK
<1>2. /\ challenge' \in [Users -> ChallengeType] /\ challenge'[u] = row
      /\ \A v \in Users \ {u} : challenge'[v] = challenge[v]
  BY <1>1, RowSet
<1>3. nextToken \in Nat /\ nextToken' >= nextToken /\ nextToken' \in Nat
  BY DEF CountersOK
<1>4. \A v \in Users : challenge[v].token \in Nat /\ challenge[v].token < nextToken
  BY <1>1 DEF ChallengeOK, ChallengeType
<1>5. \A v \in Users : challenge'[v].token < nextToken'
  BY <1>2, <1>3, <1>4
<1> QED BY <1>2, <1>5 DEF ChallengeOK

LEMMA NoChallengeRow == CountersOK => NoChallenge \in ChallengeType /\ NoChallenge.token < nextToken
                                      /\ NoChallenge.token = 0
                                      /\ NoChallenge.proof = NoChallenge.password
BY DEF NoChallenge, ChallengeType, CountersOK

LEMMA NewChallengeRow ==
  ASSUME CountersOK, PasswordOK, NEW u \in Users, NEW version \in Nat, NEW proof \in Nat,
         NEW purpose \in {"enroll", "login", "recovery_verify", "recovery_enroll", "replace"}
  PROVE  /\ NewChallenge(u, purpose, version, proof) \in ChallengeType
         /\ NewChallenge(u, purpose, version, proof).token = nextToken
BY DEF NewChallenge, ChallengeType, CountersOK, PasswordOK

\* A request ends, or is left with the reset.
LEMMA FlightSet ==
  ASSUME FlightOK, NEW r \in Requests, NEW f \in FlightType, f.kind # "idle" => f.user \in Users,
         flight' = [flight EXCEPT ![r] = f]
  PROVE  FlightOK' /\ flight'[r] = f /\ \A q \in Requests \ {r} : flight'[q] = flight[q]
<1>1. flight \in [Requests -> FlightType]
  BY DEF FlightOK
<1>2. /\ flight' \in [Requests -> FlightType] /\ flight'[r] = f
      /\ \A q \in Requests \ {r} : flight'[q] = flight[q]
  BY <1>1, RowSet
<1> QED BY <1>2 DEF FlightOK

LEMMA RequestEnds ==
  ASSUME FlightOK, NEW r \in Requests,
         flight' = [flight EXCEPT ![r] = Idle] \/ (Succeeds(r) /\ flight[r].kind # "idle")
  PROVE  /\ FlightOK' /\ \A q \in Requests \ {r} : flight'[q] = flight[q]
         /\ flight'[r].kind \in {"idle", "reset"}
<1>1. CASE flight' = [flight EXCEPT ![r] = Idle]
  <2>1. Idle \in FlightType /\ Idle.kind = "idle"
    BY DEF Idle, FlightType
  <2> QED BY <1>1, <2>1, FlightSet
<1>2. CASE Succeeds(r) /\ flight[r].kind # "idle"
  <2> DEFINE f == [kind |-> "reset", user |-> flight[r].user, token |-> 0, password |-> 0]
  <2>1. f \in FlightType /\ f.user \in Users /\ f.kind = "reset"
    BY <1>2 DEF FlightOK, FlightType
  <2>2. flight' = [flight EXCEPT ![r] = f]
    BY <1>2 DEF Succeeds
  <2> HIDE DEF f
  <2> QED BY <2>1, <2>2, FlightSet
<1> QED BY <1>1, <1>2

LEMMA TypeInit == Init => TypeOK
<1> SUFFICES ASSUME Init PROVE TypeOK
  OBVIOUS
<1>1. AccountType
  <2>1. role \in [Users -> {"none", "Operator", "Admin"}]
    BY DEF Init
  <2>2. active \in [Users -> BOOLEAN]
    <3>1. ASSUME NEW u \in Users PROVE (u \in Initial) \in BOOLEAN
      <4>1. CASE u \in Initial
        BY <4>1
      <4>2. CASE u \notin Initial
        BY <4>2
      <4> QED BY <4>1, <4>2
    <3>2. active = [u \in Users |-> u \in Initial]
      BY DEF Init
    <3> QED BY <3>1, <3>2, Zenon
  <2>3. \A u \in Users : active[u] => role[u] # "none"
    BY DEF Init
  <2> QED BY <2>1, <2>2, <2>3 DEF AccountType
<1>2. PasswordOK /\ FailuresOK
  BY DEF Init, PasswordOK, FailuresOK
<1>3. CountersOK
  BY DEF Init, CountersOK
<1>4. CredOK
  BY DEF Init, CredOK, Unenrolled, CredType
<1>5. ChallengeOK
  BY DEF Init, ChallengeOK, NoChallenge, ChallengeType
<1>6. SessionsOK
  BY DEF Init, SessionsOK
<1>7. FlightOK
  BY DEF Init, FlightOK, Idle, FlightType
<1>8. SpentOK
  BY DEF Init, SpentOK, EmptyBag, SetToBag, IsABag
<1> QED BY <1>1, <1>4, <1>5, <1>6, <1>7, <1>8, <1>2, <1>3, TypeParts

\* A request that begins only takes its place among the requests.
LEMMA Beginnings ==
  ASSUME TypeOK,
         \/ \E r \in Requests, s \in sessions, u \in Users : HopRead(r, s, u)
         \/ \E r \in Requests, u \in Users : PasswordStage(r, u) \/ ProofStage(r, u)
         \/ \E r \in Requests, s \in sessions :
              ManageStage(r, s) \/ AuthorizeAdmin(r, s) \/ AuthorizeSelf(r, s)
  PROVE  /\ UNCHANGED <<role, active, password, cred, challenge, sessions, failures, nextToken, now,
                        spent>>
         /\ served' = served + 1
         /\ \E r \in Requests, f \in FlightType :
              /\ flight[r] = Idle /\ flight' = [flight EXCEPT ![r] = f]
              /\ f.kind # "idle" /\ f.user \in Users
              /\ f.kind \in {"prove", "manage"} => failures[f.user] < MaxAttempts
<1> DEFINE Started(r, f) ==
      /\ UNCHANGED <<role, active, password, cred, challenge, sessions, failures, nextToken, now,
                     spent>>
      /\ Begins(r, f) /\ f \in FlightType /\ f.kind # "idle" /\ f.user \in Users
      /\ f.kind \in {"prove", "manage"} => failures[f.user] < MaxAttempts
<1>1. /\ \A s \in sessions : s.user \in Users /\ s.id \in Nat
      /\ \A u \in Users : password[u] \in Nat /\ challenge[u].token \in Nat
  BY DEF TypeOK, SessionType, ChallengeType
<1>2. ASSUME NEW r \in Requests, NEW s \in sessions, NEW u \in Users, HopRead(r, s, u)
      PROVE  \E f : Started(r, f)
  <2> DEFINE f == [kind |-> "hop", user |-> u, token |-> s.id, password |-> 0]
  <2>1. Started(r, f)
    BY <1>1, <1>2 DEF HopRead, FlightType
  <2> QED BY <2>1
<1>3. ASSUME NEW r \in Requests, NEW u \in Users, PasswordStage(r, u) PROVE \E f : Started(r, f)
  <2> DEFINE f == [kind |-> "login", user |-> u, token |-> 0, password |-> password[u]]
  <2>1. Started(r, f)
    BY <1>1, <1>3 DEF PasswordStage, FlightType
  <2> QED BY <2>1
<1>4. ASSUME NEW r \in Requests, NEW u \in Users, ProofStage(r, u) PROVE \E f : Started(r, f)
  <2> DEFINE f == [kind |-> "prove", user |-> u, token |-> challenge[u].token, password |-> 0]
  <2>1. Started(r, f)
    BY <1>1, <1>4 DEF ProofStage, FlightType
  <2> QED BY <2>1
<1>5. ASSUME NEW r \in Requests, NEW s \in sessions, ManageStage(r, s) PROVE \E f : Started(r, f)
  <2> DEFINE f == [kind |-> "manage", user |-> s.user, token |-> s.id,
                   password |-> password[s.user]]
  <2>1. Started(r, f)
    BY <1>1, <1>5 DEF ManageStage, FlightType
  <2> QED BY <2>1
<1>6. ASSUME NEW r \in Requests, NEW s \in sessions, AuthorizeAdmin(r, s)
      PROVE  \E f : Started(r, f)
  <2> DEFINE f == [kind |-> "admin", user |-> s.user, token |-> 0, password |-> 0]
  <2>1. Started(r, f)
    BY <1>1, <1>6 DEF AuthorizeAdmin, FlightType
  <2> QED BY <2>1
<1>7. ASSUME NEW r \in Requests, NEW s \in sessions, AuthorizeSelf(r, s)
      PROVE  \E f : Started(r, f)
  <2> DEFINE f == [kind |-> "self", user |-> s.user, token |-> 0, password |-> 0]
  <2>1. Started(r, f)
    BY <1>1, <1>7 DEF AuthorizeSelf, FlightType
  <2> QED BY <2>1
<1>8. \E r \in Requests : \E f : Started(r, f)
  BY <1>2, <1>3, <1>4, <1>5, <1>6, <1>7
<1> QED BY <1>8 DEF Begins

\* The steps that change a factor, an account or its sessions see the clock and
\* the account as they are.
LEMMA LastBumped ==
  ASSUME CountersOK, nextToken' \in {nextToken, nextToken + 1}, CredOK, NEW u \in Users,
         NEW n \in Nat, cred' = [cred EXCEPT ![u].last = n]
  PROVE  /\ CredOK' /\ \A v \in Users \ {u} : cred'[v] = cred[v]
         /\ cred'[u].last = n /\ cred'[u].state = cred[u].state
         /\ cred'[u].version = cred[u].version /\ cred'[u].secret = cred[u].secret
         /\ cred'[u].generation = cred[u].generation /\ cred'[u].codes = cred[u].codes
<1> DEFINE row == [cred[u] EXCEPT !.last = n]
<1>1. cred[u] \in CredType
  BY DEF CredOK
<1>2. /\ row \in CredType /\ row.last = n /\ row.state = cred[u].state
      /\ row.version = cred[u].version /\ row.secret = cred[u].secret
      /\ row.generation = cred[u].generation /\ row.codes = cred[u].codes
  BY <1>1, CredRows
<1>3. cred' = [cred EXCEPT ![u] = row]
  OBVIOUS
<1>4. row.secret < nextToken'
  <2>1. cred[u].secret < nextToken /\ cred[u].secret \in Nat /\ nextToken \in Nat
    BY DEF CredOK, CountersOK, CredType
  <2> QED BY <1>2, <2>1
<1> HIDE DEF row
<1>5. CredOK' /\ cred'[u] = row /\ \A v \in Users \ {u} : cred'[v] = cred[v]
  BY <1>2, <1>3, <1>4, CredSet
<1> QED BY <1>2, <1>5

LEMMA Rotated ==
  ASSUME CountersOK, nextToken' = nextToken, CredOK, NEW u \in Users, NEW n \in Nat,
         cred' = [cred EXCEPT ![u].last = n, ![u].generation = @ + 1, ![u].codes = Codes]
  PROVE  /\ CredOK' /\ \A v \in Users \ {u} : cred'[v] = cred[v]
         /\ cred'[u].last = n /\ cred'[u].state = cred[u].state
         /\ cred'[u].version = cred[u].version /\ cred'[u].secret = cred[u].secret
         /\ cred'[u].generation = cred[u].generation + 1
<1> DEFINE row == [cred[u] EXCEPT !.last = n, !.generation = @ + 1, !.codes = Codes]
<1>1. PICK c \in CredType : c = cred[u]
  BY DEF CredOK
<1>2. c.generation + 1 \in Nat
  BY DEF CredType
<1>3. /\ row \in CredType /\ row.last = n /\ row.state = c.state /\ row.version = c.version
      /\ row.secret = c.secret /\ row.generation = c.generation + 1
  <2>1. row = [c EXCEPT !.last = n, !.generation = @ + 1, !.codes = Codes]
    BY <1>1
  <2> QED BY <1>1, <1>2, <2>1 DEF CredType
<1>4. cred' = [cred EXCEPT ![u] = row]
  OBVIOUS
<1>5. row.secret < nextToken'
  BY <1>1, <1>3 DEF CredOK
<1> HIDE DEF row
<1>6. CredOK' /\ cred'[u] = row /\ \A v \in Users \ {u} : cred'[v] = cred[v]
  BY <1>3, <1>4, <1>5, CredSet
<1> QED BY <1>1, <1>3, <1>6

\* The account of a request at work, and the clock.
LEMMA RequestFacts ==
  ASSUME TypeOK
  PROVE  /\ \A r \in Requests : flight[r].kind # "idle" => flight[r].user \in Users
         /\ \A r \in Requests : flight[r].password \in Nat
         /\ \A n \in Window : n \in Nat
         /\ \A u \in Users : /\ challenge[u].token \in Nat /\ challenge[u].proof \in Nat
                             /\ cred[u].version \in Nat /\ password[u] \in Nat
                             /\ cred[u].secret \in Nat /\ cred[u].generation \in Nat
                             /\ cred[u].last \in Nat /\ cred[u].codes \in SUBSET Codes
                             /\ challenge[u].token < nextToken /\ cred[u].secret < nextToken
                             /\ cred[u] \in CredType
         /\ nextToken \in Nat
<1>1. now \in Nat \ {0} /\ nextToken \in Nat
  BY DEF TypeOK
<1>2. \A n \in Window : n \in Nat
  BY <1>1 DEF Window
<1>3. \A r \in Requests : /\ flight[r].kind # "idle" => flight[r].user \in Users
                          /\ flight[r].password \in Nat
  BY DEF TypeOK, FlightType
<1>4. \A u \in Users : cred[u] \in CredType /\ challenge[u] \in ChallengeType
  BY DEF TypeOK
<1>5. \A u \in Users : password[u] \in Nat /\ challenge[u].token < nextToken
                       /\ cred[u].secret < nextToken
  BY DEF TypeOK
<1>6. \A u \in Users : /\ cred[u].version \in Nat /\ cred[u].secret \in Nat
                       /\ cred[u].generation \in Nat /\ cred[u].last \in Nat
                       /\ cred[u].codes \in SUBSET Codes
                       /\ challenge[u].token \in Nat /\ challenge[u].proof \in Nat
  BY <1>4 DEF CredType, ChallengeType
<1> QED BY <1>1, <1>2, <1>3, <1>4, <1>5, <1>6

\* The session that a login opens.
LEMMA TotpSession ==
  ASSUME TypeOK, NEW u \in Users, NEW version \in Nat, NEW s,
         s = [Totp(u, challenge[u], challenge[u].proof) EXCEPT !.version = version]
  PROVE  /\ s \in SessionType /\ s.id < nextToken /\ s.user = u /\ s.method = "totp"
         /\ s.proof = challenge[u].proof /\ s.version = version
<1>1. /\ challenge[u].token \in Nat /\ challenge[u].proof \in Nat
      /\ challenge[u].token < nextToken
  BY RequestFacts
<1> QED BY <1>1 DEF Totp, SessionType

\* What becomes of the sessions of an account that is evicted.
LEMMA EvictEffect ==
  ASSUME ChallengeOK, SessionsOK, CountersOK, NEW u \in Users, Evict(u), UNCHANGED nextToken
  PROVE  /\ ChallengeOK' /\ challenge'[u] = NoChallenge
         /\ \A v \in Users \ {u} : challenge'[v] = challenge[v]
         /\ SessionsOK' /\ sessions' = Without(u)
<1>1. /\ ChallengeOK' /\ challenge'[u] = NoChallenge
      /\ \A v \in Users \ {u} : challenge'[v] = challenge[v]
  BY ChallengeSet, NoChallengeRow DEF Evict
<1>2. SessionsOK'
  BY DEF SessionsOK, Evict, Without
<1> QED BY <1>1, <1>2 DEF Evict

LEMMA TypeNext == TypeOK /\ [Next]_vars => TypeOK'
<1> SUFFICES ASSUME TypeOK, [Next]_vars PROVE TypeOK'
  OBVIOUS
<1>0. /\ AccountType /\ PasswordOK /\ CredOK /\ ChallengeOK /\ SessionsOK /\ FlightOK
      /\ FailuresOK /\ CountersOK /\ SpentOK
  BY TypeParts
<1>1. ASSUME \/ \E r \in Requests, s \in sessions, u \in Users : HopRead(r, s, u)
             \/ \E r \in Requests, u \in Users : PasswordStage(r, u) \/ ProofStage(r, u)
             \/ \E r \in Requests, s \in sessions :
                  ManageStage(r, s) \/ AuthorizeAdmin(r, s) \/ AuthorizeSelf(r, s)
      PROVE  TypeOK'
  <2>1. /\ UNCHANGED <<role, active, password, cred, challenge, sessions, failures, nextToken, now,
                       spent>>
        /\ served' = served + 1
    BY <1>1, Beginnings
  <2>2. PICK r \in Requests, f \in FlightType :
           flight' = [flight EXCEPT ![r] = f] /\ f.user \in Users
    BY <1>1, Beginnings
  <2>3. FlightOK'
    BY <1>0, <2>2, FlightSet
  <2>4. CountersOK'
    BY <1>0, <2>1 DEF CountersOK
  <2> QED BY <1>0, <2>1, <2>3, <2>4, Unchanged, UnchangedRows, TypeParts
<1>2. ASSUME NEW s \in sessions, Logout(s) PROVE TypeOK'
  <2>1. SessionsOK'
    BY <1>0, <1>2 DEF Logout, SessionsOK
  <2> QED BY <1>0, <1>2, <2>1, Unchanged, UnchangedRows, TypeParts DEF Logout
<1>3. ASSUME NEW r \in Requests, Hop(r) PROVE TypeOK'
  <2> DEFINE s == [id |-> nextToken, user |-> flight[r].user, method |-> "demo", version |-> 0,
                   proof |-> 0]
  <2>1. nextToken' = nextToken + 1 /\ sessions' \subseteq sessions \cup {s}
    BY <1>3 DEF Hop
  <2>2. s \in SessionType /\ s.id = nextToken
    BY <1>3, RequestFacts DEF Hop, SessionType
  <2> HIDE DEF s
  <2>3. SessionsOK'
    BY <1>0, <2>1, <2>2 DEF SessionsOK, CountersOK, SessionType
  <2>4. CountersOK'
    BY <1>0, <1>3 DEF Hop, CountersOK
  <2>5. FlightOK'
    BY <1>0, <1>3, RequestEnds DEF Hop
  <2> QED BY <1>0, <1>3, <2>1, <2>3, <2>4, <2>5, Unchanged, UnchangedRows, TypeParts DEF Hop
<1>4. ASSUME NEW r \in Requests, StartChallenge(r) PROVE TypeOK'
  <2> DEFINE u == flight[r].user
             c == NewChallenge(u, PurposeOf(cred[u].state), cred[u].version, flight[r].password)
  <2>1. u \in Users /\ FlightOK'
    BY <1>0, <1>4, RequestFacts, RequestEnds DEF StartChallenge
  <2>2. /\ nextToken' \in {nextToken, nextToken + 1}
        /\ \/ challenge' = [challenge EXCEPT ![u] = c] /\ nextToken' = nextToken + 1
           \/ UNCHANGED <<challenge, nextToken>>
    BY <1>4 DEF StartChallenge
  <2>3. c \in ChallengeType /\ c.token = nextToken
    <3>1. cred[u].state \in {"unenrolled", "enrolled", "recovery_pending"}
      BY <2>1 DEF TypeOK, CredType
    <3>2. PurposeOf(cred[u].state) \in {"enroll", "login", "recovery_verify", "recovery_enroll",
                                        "replace"}
      BY <3>1 DEF PurposeOf
    <3>3. cred[u].version \in Nat /\ flight[r].password \in Nat
      BY <2>1, RequestFacts
    <3> QED BY <1>0, <2>1, <3>2, <3>3, NewChallengeRow
  <2> HIDE DEF u, c
  <2>4. ChallengeOK'
    BY <1>0, <2>1, <2>2, <2>3, ChallengeSet, UnchangedRows DEF CountersOK
  <2>5. CountersOK'
    BY <1>0, <1>4, <2>2 DEF StartChallenge, CountersOK
  <2>6. UNCHANGED <<role, active, password, cred, sessions, failures, spent>>
    BY <1>4 DEF StartChallenge
  <2> QED BY <1>0, <2>1, <2>2, <2>4, <2>5, <2>6, Unchanged, UnchangedRows, TypeParts
<1>5. ASSUME NEW u \in Users, CancelChallenge(u) PROVE TypeOK'
  <2>1. ChallengeOK'
    BY <1>0, <1>5, ChallengeSet, NoChallengeRow DEF CancelChallenge
  <2> QED BY <1>0, <1>5, <2>1, Unchanged, UnchangedRows, TypeParts DEF CancelChallenge
<1>6. ASSUME NEW r \in Requests, NEW n \in Window, VerifyTotp(r, n) PROVE TypeOK'
  <2> DEFINE u == flight[r].user
             s == Totp(u, challenge[u], challenge[u].proof)
  <2>1. u \in Users /\ flight[r].kind # "idle" /\ n \in Nat
    BY <1>6, RequestFacts DEF VerifyTotp
  <2>2. /\ cred' = [cred EXCEPT ![u].last = n] /\ challenge' = [challenge EXCEPT ![u] = NoChallenge]
        /\ sessions' = sessions \cup {s} /\ Succeeds(r)
        /\ spent' = spent (+) Proof(<<"totp", cred[u].secret, n>>)
                          (+) Proof(<<"challenge", challenge[u].token>>)
        /\ UNCHANGED <<role, active, password, failures, nextToken, served, now>>
    BY <1>6 DEF VerifyTotp
  <2>3. s \in SessionType /\ s.id < nextToken
    BY <2>1, RequestFacts DEF Totp, SessionType
  <2> HIDE DEF u, s
  <2>4. SessionsOK'
    BY <1>0, <2>2, <2>3 DEF SessionsOK
  <2>5. CredOK'
    BY <1>0, <2>1, <2>2, LastBumped
  <2>6. ChallengeOK'
    BY <1>0, <2>1, <2>2, ChallengeSet, NoChallengeRow
  <2>7. SpentOK'
    BY <1>0, <2>2, BagAdd DEF SpentOK, With
  <2>8. FlightOK'
    BY <1>0, <2>1, <2>2, RequestEnds
  <2> QED BY <1>0, <2>2, <2>4, <2>5, <2>6, <2>7, <2>8, Unchanged, TypeParts
<1>7. ASSUME NEW r \in Requests, NEW k \in Codes, VerifyRecovery(r, k) PROVE TypeOK'
  <2> DEFINE u == flight[r].user
             row == [state |-> "recovery_pending", version |-> cred[u].version + 1, secret |-> 0,
                     last |-> 0, generation |-> cred[u].generation, codes |-> cred[u].codes \ {k}]
             c == NewChallenge(u, "recovery_enroll", cred[u].version + 1, challenge[u].proof)
  <2>1. u \in Users /\ flight[r].kind # "idle"
    BY <1>7, RequestFacts DEF VerifyRecovery
  <2>2. /\ cred' = [cred EXCEPT ![u] = row] /\ challenge' = [challenge EXCEPT ![u] = c]
        /\ sessions' = Without(u) /\ Succeeds(r) /\ nextToken' = nextToken + 1
        /\ spent' = spent (+) Proof(<<"code", u, cred[u].generation, k>>)
                          (+) Proof(<<"challenge", challenge[u].token>>)
        /\ UNCHANGED <<role, active, password, failures, served, now>>
    BY <1>7 DEF VerifyRecovery
  <2>3. row \in CredType /\ row.secret < nextToken'
    BY <1>0, <2>1, <2>2, RequestFacts DEF CredType, CountersOK
  <2>4. c \in ChallengeType /\ c.token < nextToken'
    <3>1. cred[u].version + 1 \in Nat /\ challenge[u].proof \in Nat /\ nextToken \in Nat
      BY <2>1, RequestFacts
    <3>2. c \in ChallengeType /\ c.token = nextToken
      BY <1>0, <2>1, <3>1, NewChallengeRow
    <3> QED BY <2>2, <3>1, <3>2
  <2> HIDE DEF u, row, c
  <2>5. CredOK'
    BY <1>0, <2>1, <2>2, <2>3, CredSet
  <2>6. ChallengeOK'
    BY <1>0, <2>1, <2>2, <2>4, ChallengeSet
  <2>7. SpentOK'
    BY <1>0, <2>2, BagAdd DEF SpentOK, With
  <2>8. FlightOK'
    BY <1>0, <2>1, <2>2, RequestEnds
  <2>9. CountersOK'
    BY <1>0, <2>2 DEF CountersOK
  <2>10. SessionsOK'
    BY <1>0, <2>2 DEF SessionsOK, Without, CountersOK, SessionType
  <2> QED BY <1>0, <2>2, <2>5, <2>6, <2>7, <2>8, <2>9, <2>10, Unchanged, TypeParts
<1>8. ASSUME NEW r \in Requests, NEW n \in Window,
             ConfirmEnrollment(r, n) \/ ConfirmReplacement(r, n)
      PROVE  TypeOK'
  <2> DEFINE u == flight[r].user
             row == Enrolled(u, n)
             s == [Totp(u, challenge[u], challenge[u].proof) EXCEPT !.version = cred[u].version + 1]
  <2>1. u \in Users /\ flight[r].kind # "idle" /\ n \in Nat
    BY <1>8, RequestFacts DEF ConfirmEnrollment, ConfirmReplacement
  <2>2. /\ cred' = [cred EXCEPT ![u] = row] /\ challenge' = [challenge EXCEPT ![u] = NoChallenge]
        /\ sessions' \subseteq sessions \cup {s} /\ Succeeds(r)
        /\ spent' = spent (+) Proof(<<"totp", challenge[u].token, n>>)
                          (+) Proof(<<"challenge", challenge[u].token>>)
        /\ UNCHANGED <<role, active, password, failures, nextToken, served, now>>
    BY <1>8 DEF ConfirmEnrollment, ConfirmReplacement, Without
  <2>3. row \in CredType /\ row.secret < nextToken
    BY <2>1, RequestFacts DEF Enrolled, CredType
  <2>4. s \in SessionType /\ s.id < nextToken
    <3>1. cred[u].version + 1 \in Nat
      BY <2>1, RequestFacts
    <3>2. /\ challenge[u].token \in Nat /\ challenge[u].proof \in Nat
          /\ challenge[u].token < nextToken
      BY <2>1, RequestFacts
    <3> HIDE DEF u
    <3> QED BY <2>1, <3>1, <3>2 DEF Totp, SessionType
  <2> HIDE DEF u, row, s
  <2>5. CredOK'
    BY <1>0, <2>1, <2>2, <2>3, CredSet
  <2>6. ChallengeOK'
    BY <1>0, <2>1, <2>2, ChallengeSet, NoChallengeRow
  <2>7. SpentOK'
    BY <1>0, <2>2, BagAdd DEF SpentOK, With
  <2>8. FlightOK'
    BY <1>0, <2>1, <2>2, RequestEnds
  <2>9. SessionsOK'
    BY <1>0, <2>2, <2>4 DEF SessionsOK
  <2> QED BY <1>0, <2>2, <2>5, <2>6, <2>7, <2>8, <2>9, Unchanged, TypeParts
<1>9. ASSUME NEW r \in Requests, RecordFailure(r) PROVE TypeOK'
  <2>1. flight[r].user \in Users /\ FlightOK'
    BY <1>0, <1>9, RequestFacts, RequestEnds DEF RecordFailure
  <2>2. FailuresOK'
    BY <1>0, <1>9, <2>1 DEF RecordFailure, FailuresOK
  <2> QED BY <1>0, <1>9, <2>1, <2>2, Unchanged, UnchangedRows, TypeParts DEF RecordFailure
<1>10. ASSUME NEW r \in Requests, Deny(r) \/ Refuse(r) PROVE TypeOK'
  <2>1. /\ flight' = [flight EXCEPT ![r] = Idle]
        /\ UNCHANGED <<role, active, password, cred, challenge, sessions, failures, nextToken, served,
                       now, spent>>
    BY <1>10 DEF Deny, Refuse
  <2>2. FlightOK'
    BY <1>0, <2>1, RequestEnds
  <2> QED BY <1>0, <2>1, <2>2, Unchanged, UnchangedRows, TypeParts
<1>11. ASSUME NEW r \in Requests, ResetFailures(r) PROVE TypeOK'
  <2>1. flight[r].user \in Users /\ FlightOK'
    BY <1>0, <1>11, RequestFacts, RequestEnds DEF ResetFailures
  <2>2. FailuresOK'
    BY <1>0, <1>11, <2>1 DEF ResetFailures, FailuresOK
  <2> QED BY <1>0, <1>11, <2>1, <2>2, Unchanged, UnchangedRows, TypeParts DEF ResetFailures
<1>12. ASSUME NEW u \in Users, FailureAges(u) PROVE TypeOK'
  <2>1. FailuresOK'
    BY <1>0, <1>12 DEF FailureAges, FailuresOK
  <2> QED BY <1>0, <1>12, <2>1, Unchanged, UnchangedRows, TypeParts DEF FailureAges
<1>13. ASSUME NEW r \in Requests, NEW n \in Window, BeginReplacement(r, n) PROVE TypeOK'
  <2> DEFINE u == flight[r].user
             c == NewChallenge(u, "replace", cred[u].version, flight[r].password)
  <2>1. u \in Users /\ flight[r].kind # "idle" /\ n \in Nat
    BY <1>13, RequestFacts DEF BeginReplacement, Manages
  <2>2. /\ cred' = [cred EXCEPT ![u].last = n] /\ challenge' = [challenge EXCEPT ![u] = c]
        /\ Succeeds(r) /\ nextToken' = nextToken + 1
        /\ spent' = spent (+) Proof(<<"totp", cred[u].secret, n>>)
        /\ UNCHANGED <<role, active, password, sessions, failures, served, now>>
    BY <1>13 DEF BeginReplacement
  <2>3. c \in ChallengeType /\ c.token < nextToken'
    <3>1. cred[u].version \in Nat /\ flight[r].password \in Nat /\ nextToken \in Nat
      BY <2>1, RequestFacts
    <3>2. c \in ChallengeType /\ c.token = nextToken
      BY <1>0, <2>1, <3>1, NewChallengeRow
    <3> QED BY <2>2, <3>1, <3>2
  <2> HIDE DEF u, c
  <2>4. CredOK'
    BY <1>0, <2>1, <2>2, LastBumped
  <2>5. ChallengeOK'
    BY <1>0, <2>1, <2>2, <2>3, ChallengeSet
  <2>6. SpentOK'
    BY <1>0, <2>2, BagAdd DEF SpentOK, With
  <2>7. FlightOK'
    BY <1>0, <2>1, <2>2, RequestEnds
  <2>8. CountersOK'
    BY <1>0, <2>2 DEF CountersOK
  <2> QED BY <1>0, <2>2, <2>4, <2>5, <2>6, <2>7, <2>8, Unchanged, UnchangedRows, TypeParts
<1>14. ASSUME NEW r \in Requests, NEW n \in Window, RotateRecoveryCodes(r, n) PROVE TypeOK'
  <2> DEFINE u == flight[r].user
  <2>1. u \in Users /\ flight[r].kind # "idle" /\ n \in Nat
    BY <1>14, RequestFacts DEF RotateRecoveryCodes, Manages
  <2>2. /\ cred' = [cred EXCEPT ![u].last = n, ![u].generation = @ + 1, ![u].codes = Codes]
        /\ challenge' = [challenge EXCEPT ![u] = NoChallenge]
        /\ Succeeds(r) /\ spent' = spent (+) Proof(<<"totp", cred[u].secret, n>>)
        /\ UNCHANGED <<role, active, password, sessions, failures, nextToken, served, now>>
    BY <1>14 DEF RotateRecoveryCodes
  <2> HIDE DEF u
  <2>3. CredOK'
    BY <1>0, <2>1, <2>2, Rotated
  <2>4. ChallengeOK'
    BY <1>0, <2>1, <2>2, ChallengeSet, NoChallengeRow
  <2>5. SpentOK'
    BY <1>0, <2>2, BagAdd DEF SpentOK, With
  <2>6. FlightOK'
    BY <1>0, <2>1, <2>2, RequestEnds
  <2> QED BY <1>0, <2>2, <2>3, <2>4, <2>5, <2>6, Unchanged, UnchangedRows, TypeParts
<1>15. ASSUME NEW r \in Requests, BeginDemoEnrollment(r) PROVE TypeOK'
  <2> DEFINE u == flight[r].user
             c == NewChallenge(u, "enroll", cred[u].version, flight[r].password)
  <2>1. u \in Users
    BY <1>15, RequestFacts DEF BeginDemoEnrollment, Manages
  <2>2. /\ challenge' = [challenge EXCEPT ![u] = c] /\ nextToken' = nextToken + 1
        /\ flight' = [flight EXCEPT ![r] = Idle]
        /\ UNCHANGED <<role, active, password, cred, sessions, failures, served, now, spent>>
    BY <1>15 DEF BeginDemoEnrollment
  <2>3. c \in ChallengeType /\ c.token < nextToken'
    <3>1. cred[u].version \in Nat /\ flight[r].password \in Nat /\ nextToken \in Nat
      BY <2>1, RequestFacts
    <3>2. c \in ChallengeType /\ c.token = nextToken
      BY <1>0, <2>1, <3>1, NewChallengeRow
    <3> QED BY <2>2, <3>1, <3>2
  <2> HIDE DEF u, c
  <2>4. ChallengeOK'
    BY <1>0, <2>1, <2>2, <2>3, ChallengeSet
  <2>5. FlightOK'
    BY <1>0, <2>1, <2>2, RequestEnds
  <2>6. CountersOK'
    BY <1>0, <2>2 DEF CountersOK
  <2> QED BY <1>0, <2>2, <2>4, <2>5, <2>6, Unchanged, UnchangedRows, TypeParts
<1>16. ASSUME NEW r \in Requests, NEW u \in Users, NEW new \in {"Operator", "Admin"},
              CreateUser(r, u, new)
       PROVE  TypeOK'
  <2>1. AccountType'
    BY <1>0, <1>16 DEF CreateUser, AccountType
  <2>2. FlightOK'
    BY <1>0, <1>16, RequestEnds DEF CreateUser
  <2> QED BY <1>0, <1>16, <2>1, <2>2, Unchanged, UnchangedRows, TypeParts DEF CreateUser
<1>17. ASSUME NEW r \in Requests, NEW u \in Users, NEW new \in {"Operator", "Admin"},
              NEW on \in BOOLEAN, UpdateUser(r, u, new, on)
       PROVE  TypeOK'
  <2>1. AccountType'
    <3>1. /\ role' = role \/ role' = [role EXCEPT ![u] = new]
          /\ active' = active \/ active' = [active EXCEPT ![u] = on]
          /\ role[u] # "none"
      BY <1>17 DEF UpdateUser
    <3> QED BY <1>0, <1>17, <3>1 DEF AccountType
  <2>2. FlightOK' /\ UNCHANGED <<password, cred, failures, nextToken, served, now, spent>>
    BY <1>0, <1>17, RequestEnds DEF UpdateUser
  <2>3. Evict(u) \/ UNCHANGED <<challenge, sessions>>
    BY <1>17 DEF UpdateUser
  <2>4. ChallengeOK' /\ SessionsOK'
    BY <1>0, <2>2, <2>3, EvictEffect, UnchangedRows
  <2> QED BY <1>0, <2>1, <2>2, <2>4, Unchanged, UnchangedRows, TypeParts
<1>18. ASSUME NEW r \in Requests, NEW u \in Users, DeleteUser(r, u) PROVE TypeOK'
  <2>1. AccountType'
    BY <1>0, <1>18 DEF DeleteUser, AccountType
  <2>2. FlightOK' /\ Evict(u) /\ UNCHANGED <<password, cred, failures, nextToken, served, now, spent>>
    BY <1>0, <1>18, RequestEnds DEF DeleteUser
  <2>3. ChallengeOK' /\ SessionsOK'
    BY <1>0, <2>2, EvictEffect
  <2> QED BY <1>0, <2>1, <2>2, <2>3, Unchanged, UnchangedRows, TypeParts
<1>19. ASSUME NEW r \in Requests, \/ \E v \in Users : ResetPassword(r, v)
                                  \/ ChangeMyPassword(r)
       PROVE  TypeOK'
  <2>1. PICK u \in Users : /\ password' = [password EXCEPT ![u] = password[u] + 1] /\ Evict(u)
                           /\ flight' = [flight EXCEPT ![r] = Idle]
                           /\ UNCHANGED <<role, active, cred, failures, nextToken, served, now, spent>>
    BY <1>19, RequestFacts DEF ResetPassword, ChangeMyPassword
  <2>2. PasswordOK'
    BY <1>0, <2>1 DEF PasswordOK
  <2>3. FlightOK'
    BY <1>0, <2>1, RequestEnds
  <2>4. ChallengeOK' /\ SessionsOK'
    BY <1>0, <2>1, EvictEffect
  <2> QED BY <1>0, <2>1, <2>2, <2>3, <2>4, Unchanged, UnchangedRows, TypeParts
<1>20. CASE Tick
  <2>1. CountersOK'
    BY <1>0, <1>20 DEF Tick, CountersOK
  <2> QED BY <1>0, <1>20, <2>1, Unchanged, UnchangedRows, TypeParts DEF Tick
<1>21. CASE UNCHANGED vars
  BY <1>0, <1>21, Unchanged, UnchangedRows, TypeParts DEF vars
<1>22. CASE SessionStep
  BY <1>22, <1>1, <1>2, <1>3 DEF SessionStep
<1>23. CASE LoginStep
  BY <1>23, <1>1, <1>4, <1>5, <1>6, <1>7, <1>8, <1>9, <1>10, <1>11, <1>12 DEF LoginStep
<1>24. CASE ManageStep
  BY <1>24, <1>1, <1>13, <1>14, <1>15 DEF ManageStep
<1>25. CASE AdminStep
  BY <1>25, <1>1, <1>10, <1>16, <1>17, <1>18, <1>19 DEF AdminStep
<1> QED BY <1>20, <1>21, <1>22, <1>23, <1>24, <1>25 DEF Next

-----------------------------------------------------------------------------
(* One user's rows advance *)

\* What a step may do to the challenge and the factor of the one user it is about:
\* a token is new, kept or gone; a secret is kept, gone, or the one the challenge
\* carried; the last step and the batch of recovery codes only advance.
Advances(u) ==
  /\ nextToken' \in {nextToken, nextToken + 1}
  /\ \A v \in Users \ {u} : challenge'[v] = challenge[v] /\ cred'[v] = cred[v]
  /\ challenge'[u].token \in {challenge[u].token, 0, nextToken}
  /\ \/ cred'[u].secret = cred[u].secret /\ cred'[u].last >= cred[u].last
     \/ cred'[u].secret = 0
     \/ cred'[u].secret = challenge[u].token /\ challenge[u].token # 0 /\ challenge'[u].token = 0
  /\ \/ cred'[u].generation = cred[u].generation /\ cred'[u].codes \subseteq cred[u].codes
     \/ cred'[u].generation > cred[u].generation
  /\ cred'[u].state = "enrolled" => cred'[u].secret # 0

LEMMA TokenFacts ==
  ASSUME TypeOK
  PROVE  /\ \A u \in Users : /\ challenge[u].token \in Nat /\ cred[u].secret \in Nat
                             /\ cred[u].generation \in Nat /\ cred[u].last \in Nat
                             /\ challenge[u].token < nextToken /\ cred[u].secret < nextToken
         /\ nextToken \in Nat \ {0}
<1>1. nextToken \in Nat \ {0}
  BY DEF TypeOK
<1> QED BY <1>1, RequestFacts

LEMMA TokensAdvance ==
  ASSUME TypeOK, TypeOK', TokenInv, NEW u \in Users, Advances(u)
  PROVE  TokenInv'
<1>1. /\ \A v \in Users : /\ challenge[v].token \in Nat /\ challenge[v].token < nextToken
                          /\ cred[v].secret \in Nat /\ cred[v].secret < nextToken
      /\ nextToken \in Nat \ {0}
  BY TokenFacts
<1>2. /\ \A v \in Users \ {u} : challenge'[v] = challenge[v] /\ cred'[v] = cred[v]
      /\ challenge'[u].token \in {challenge[u].token, 0, nextToken}
      /\ \/ cred'[u].secret \in {cred[u].secret, 0}
         \/ cred'[u].secret = challenge[u].token /\ challenge[u].token # 0 /\ challenge'[u].token = 0
      /\ cred'[u].state = "enrolled" => cred'[u].secret # 0
  BY DEF Advances
<1>3. \A v, w \in Users : challenge'[v].token # 0 /\ challenge'[v].token = challenge'[w].token => v = w
  BY <1>1, <1>2 DEF TokenInv
<1>4. \A v, w \in Users : cred'[v].secret # 0 => cred'[v].secret # challenge'[w].token
  BY <1>1, <1>2 DEF TokenInv
<1>5. \A v, w \in Users : cred'[v].secret # 0 /\ cred'[v].secret = cred'[w].secret => v = w
  BY <1>1, <1>2 DEF TokenInv
<1>6. \A v \in Users : cred'[v].state = "enrolled" => cred'[v].secret # 0
  BY <1>2 DEF TokenInv
<1> QED BY <1>3, <1>4, <1>5, <1>6 DEF TokenInv

\* What is over stays over.
LEMMA OverAdvances ==
  ASSUME TypeOK, TypeOK', NEW u \in Users, Advances(u), NEW p, Over(p)
  PROVE  Over(p)'
<1>1. /\ \A v \in Users : /\ challenge[v].token \in Nat /\ challenge[v].token < nextToken
                          /\ cred[v].secret \in Nat /\ cred[v].secret < nextToken
                          /\ cred[v].generation \in Nat /\ cred[v].last \in Nat
      /\ nextToken \in Nat \ {0}
  BY TokenFacts
<1>2. \A v \in Users : cred'[v].generation \in Nat /\ cred'[v].last \in Nat
  BY DEF TypeOK, CredType
<1>3. ASSUME NEW t, ChallengeOver(t) PROVE ChallengeOver(t)'
  BY <1>1, <1>3 DEF ChallengeOver, Advances
<1>4. ASSUME NEW t, NEW n, CodeOver(t, n) PROVE CodeOver(t, n)'
  <2>1. ChallengeOver(t)' /\ n \in Nat /\ ChallengeOver(t)
    BY <1>3, <1>4 DEF CodeOver
  <2>2. \A v \in Users : cred'[v].secret = t => n <= cred'[v].last
    BY <1>1, <1>2, <1>4, <2>1 DEF CodeOver, ChallengeOver, Advances
  <2> QED BY <2>1, <2>2 DEF CodeOver
<1>5. ASSUME NEW v, NEW g, NEW k, RecoveryOver(v, g, k) PROVE RecoveryOver(v, g, k)'
  <2>1. v \in Users /\ g \in Nat /\ g <= cred[v].generation
        /\ (g = cred[v].generation => k \notin cred[v].codes)
    BY <1>5 DEF RecoveryOver
  <2>2. \/ cred'[v].generation = cred[v].generation /\ cred'[v].codes \subseteq cred[v].codes
        \/ cred'[v].generation > cred[v].generation
    BY <2>1 DEF Advances
  <2> QED BY <1>1, <1>2, <2>1, <2>2 DEF RecoveryOver
<1> QED BY <1>3, <1>4, <1>5 DEF Over

\* A proof is spent that was not spent before, and cannot be again.
LEMMA SpentOnce ==
  ASSUME TypeOK, TypeOK', SpentInv, NEW u \in Users, Advances(u),
         NEW x, x \notin DOMAIN spent, Over(x)', spent' = spent (+) Proof(x)
  PROVE  SpentInv'
<1>1. Single(spent) /\ IsABag(spent) /\ spent' = With(spent, x)
  BY DEF TypeOK, With, Single, SpentInv, ProofsAreSpentOnce
<1>2. Single(spent') /\ DOMAIN spent' = DOMAIN spent \cup {x}
  <2>1. Single(With(spent, x)) /\ DOMAIN With(spent, x) = DOMAIN spent \cup {x}
    BY <1>1, BagAdd
  <2> QED BY <1>1, <2>1, Zenon
<1>3. \A p \in DOMAIN spent : Over(p)'
  BY OverAdvances DEF SpentInv
<1> QED BY <1>2, <1>3 DEF SpentInv, ProofsAreSpentOnce, Single

LEMMA SpentTwo ==
  ASSUME TypeOK, TypeOK', SpentInv, NEW u \in Users, Advances(u),
         NEW x, x \notin DOMAIN spent, Over(x)', NEW y, y \notin DOMAIN spent, Over(y)', x # y,
         spent' = spent (+) Proof(x) (+) Proof(y)
  PROVE  SpentInv'
<1> DEFINE B == With(spent, x)
<1>1. Single(spent) /\ IsABag(spent) /\ B = With(spent, x) /\ spent' = With(B, y)
  BY DEF TypeOK, With, Single, SpentInv, ProofsAreSpentOnce
<1> HIDE DEF B
<1>2. Single(B) /\ IsABag(B) /\ DOMAIN B = DOMAIN spent \cup {x}
  BY <1>1, BagAdd
<1>3. Single(spent') /\ DOMAIN spent' = DOMAIN B \cup {y}
  <2>1. y \notin DOMAIN B
    BY <1>2
  <2>2. Single(With(B, y)) /\ DOMAIN With(B, y) = DOMAIN B \cup {y}
    BY <1>2, <2>1, BagAdd
  <2> QED BY <1>1, <2>2, Zenon
<1>4. \A p \in DOMAIN spent : Over(p)'
  BY OverAdvances DEF SpentInv
<1> QED BY <1>2, <1>3, <1>4 DEF SpentInv, ProofsAreSpentOnce, Single

LEMMA SpentKept ==
  ASSUME TypeOK, TypeOK', SpentInv, NEW u \in Users, Advances(u), spent' = spent
  PROVE  SpentInv'
<1>1. \A p \in DOMAIN spent : Over(p)'
  BY OverAdvances DEF SpentInv
<1> QED BY <1>1 DEF SpentInv, ProofsAreSpentOnce

-----------------------------------------------------------------------------
(* Challenges, factors and sessions, step by step *)

Rows == ChallengeInv /\ TokenInv /\ SpentInv /\ SessionsFollowAccount /\ SessionsFollowFactor

\* A session that the account and its factor stand behind; an account whose
\* sessions may go on.
Current(s)  == /\ active[s.user] /\ s.proof = password[s.user]
               /\ cred[s.user].state = "enrolled" /\ s.version = cred[s.user].version
Goes(u)     == /\ active[u] => active'[u]
               /\ password'[u] = password[u]
               /\ cred'[u].state = cred[u].state /\ cred'[u].version = cred[u].version

LEMMA SessionsFollow ==
  ASSUME SessionsFollowAccount, SessionsFollowFactor,
         \A s \in sessions' : s.method = "demo" \/ Current(s)' \/ (s \in sessions /\ Goes(s.user))
  PROVE  SessionsFollowAccount' /\ SessionsFollowFactor'
<1>1. ASSUME NEW s \in sessions', s.method = "totp" PROVE Current(s)'
  <2>1. CASE s \in sessions /\ Goes(s.user)
    BY <1>1, <2>1 DEF Goes, Current, SessionsFollowAccount, SessionsFollowFactor
  <2> QED BY <1>1, <2>1
<1> QED BY <1>1 DEF Current, SessionsFollowAccount, SessionsFollowFactor

\* A step that touches neither challenge nor factor, and opens demo sessions at most.
LEMMA QuietRows ==
  ASSUME TypeOK, TypeOK', Rows, UNCHANGED <<cred, challenge, spent, password>>,
         nextToken' \in {nextToken, nextToken + 1},
         \A u \in Users : active[u] => active'[u],
         \A s \in sessions' : s.method = "demo" \/ s \in sessions
  PROVE  Rows'
<1>1. PICK u \in Users : TRUE
  BY InitialAssumption
<1>2. Advances(u)
  BY RequestFacts DEF Advances, Rows, TokenInv
<1>3. TokenInv' /\ SpentInv'
  BY <1>2, TokensAdvance, SpentKept DEF Rows
<1>4. \A s \in sessions : s.user \in Users
  BY DEF TypeOK, SessionType
<1>5. SessionsFollowAccount' /\ SessionsFollowFactor'
  BY <1>4, SessionsFollow DEF Rows, Goes
<1> QED BY <1>3, <1>5 DEF Rows, ChallengeInv

\* What _load_challenge has found.
LEMMA LoadsFacts ==
  ASSUME TypeOK, NEW r \in Requests, flight[r].kind = "prove", Loads(flight[r]), NEW u,
         u = flight[r].user
  PROVE  /\ u \in Users /\ active[u] /\ challenge[u].token # 0
         /\ challenge[u].password = password[u]
         /\ cred[u].version = challenge[u].version
         /\ cred[u].state = RequiredState(challenge[u].purpose)
BY RequestFacts DEF Loads

\* A challenge is spent, or a code of a factor in use, and was not before.
LEMMA FreshChallenge ==
  ASSUME TypeOK, TypeOK', Rows, NEW u \in Users, Advances(u), challenge[u].token # 0,
         challenge'[u].token # challenge[u].token, NEW t, t = challenge[u].token
  PROVE  /\ <<"challenge", t>> \notin DOMAIN spent
         /\ ChallengeOver(t)' /\ Over(<<"challenge", t>>)'
<1>1. ASSUME <<"challenge", t>> \in DOMAIN spent PROVE FALSE
  <2>1. Over(<<"challenge", t>>)
    BY <1>1 DEF Rows, SpentInv
  <2> QED BY <2>1 DEF Over, ChallengeOver
<1>2. ChallengeOver(t)'
  <2>1. t \in Nat /\ t < nextToken' /\ t # 0
    BY TokenFacts DEF Advances
  <2>2. \A v \in Users : challenge'[v].token # t
    BY DEF Advances, Rows, TokenInv
  <2> QED BY <2>1, <2>2 DEF ChallengeOver
<1> QED BY <1>1, <1>2 DEF Over

\* The code that enrols the secret of a challenge.
LEMMA FreshEnrollment ==
  ASSUME TypeOK, TypeOK', Rows, NEW u \in Users, Advances(u), challenge[u].token # 0,
         challenge'[u].token # challenge[u].token, NEW t, t = challenge[u].token,
         NEW n \in Nat, cred'[u].last = n
  PROVE  <<"totp", t, n>> \notin DOMAIN spent /\ Over(<<"totp", t, n>>)'
<1>1. ASSUME <<"totp", t, n>> \in DOMAIN spent PROVE FALSE
  <2>1. Over(<<"totp", t, n>>)
    BY <1>1 DEF Rows, SpentInv
  <2> QED BY <2>1 DEF Over, CodeOver, ChallengeOver
<1>2. CodeOver(t, n)'
  <2>1. ChallengeOver(t)'
    BY FreshChallenge
  <2>2. \A v \in Users \ {u} : cred'[v].secret # t
    BY TokenFacts DEF Advances, Rows, TokenInv
  <2> QED BY <2>1, <2>2 DEF CodeOver
<1> QED BY <1>1, <1>2 DEF Over

\* The code of the secret in use, for a step after the last one accepted.
LEMMA FreshCode ==
  ASSUME TypeOK, TypeOK', Rows, NEW u \in Users, Advances(u), cred[u].state = "enrolled",
         NEW n \in Nat, n > cred[u].last, cred'[u].last = n, cred'[u].secret = cred[u].secret,
         NEW t, t = cred[u].secret
  PROVE  <<"totp", t, n>> \notin DOMAIN spent /\ Over(<<"totp", t, n>>)'
<1>0. cred[u].last \in Nat /\ t \in Nat /\ t < nextToken /\ nextToken \in Nat /\ t # 0
  BY TokenFacts DEF Rows, TokenInv
<1>1. ASSUME <<"totp", t, n>> \in DOMAIN spent PROVE FALSE
  <2>1. Over(<<"totp", t, n>>)
    BY <1>1 DEF Rows, SpentInv
  <2> QED BY <1>0, <2>1 DEF Over, CodeOver
<1>2. CodeOver(t, n)'
  <2>1. \A v \in Users : challenge'[v].token # t
    BY <1>0 DEF Advances, Rows, TokenInv
  <2>2. \A v \in Users \ {u} : cred'[v].secret # t
    BY <1>0 DEF Advances, Rows, TokenInv
  <2>3. nextToken' \in Nat /\ nextToken' >= nextToken
    BY <1>0, TokenFacts DEF Advances
  <2> QED BY <1>0, <2>1, <2>2, <2>3 DEF CodeOver, ChallengeOver
<1> QED BY <1>1, <1>2 DEF Over

\* A recovery code leaves its batch.
LEMMA FreshRecovery ==
  ASSUME TypeOK, Rows, NEW u \in Users, NEW k, k \in cred[u].codes, NEW g, g = cred[u].generation,
         cred'[u].generation = cred[u].generation, cred'[u].codes = cred[u].codes \ {k}
  PROVE  <<"code", u, g, k>> \notin DOMAIN spent /\ Over(<<"code", u, g, k>>)'
<1>1. ASSUME <<"code", u, g, k>> \in DOMAIN spent PROVE FALSE
  <2>1. Over(<<"code", u, g, k>>)
    BY <1>1 DEF Rows, SpentInv
  <2> QED BY <2>1 DEF Over, RecoveryOver
<1>2. RecoveryOver(u, g, k)'
  BY TokenFacts DEF RecoveryOver
<1> QED BY <1>1, <1>2 DEF Over

LEMMA RowsNext == TypeOK /\ TypeOK' /\ Rows /\ [Next]_vars => Rows'
<1> SUFFICES ASSUME TypeOK, TypeOK', Rows, [Next]_vars PROVE Rows'
  OBVIOUS
<1>0. /\ CountersOK /\ PasswordOK /\ CredOK /\ ChallengeOK /\ SessionsOK
      /\ \A s \in sessions : s.user \in Users
      /\ \A u \in Users : cred[u].last \in Nat
  BY TypeParts, RequestFacts DEF SessionsOK, SessionType
<1>1. ASSUME UNCHANGED <<cred, challenge, spent, password>>,
             nextToken' \in {nextToken, nextToken + 1}, UNCHANGED active,
             \A s \in sessions' : s.method = "demo" \/ s \in sessions
      PROVE  Rows'
  BY <1>1, QuietRows
<1>2. ASSUME NEW r \in Requests, StartChallenge(r) PROVE Rows'
  <2> DEFINE u == flight[r].user
             c == NewChallenge(u, PurposeOf(cred[u].state), cred[u].version, flight[r].password)
  <2>1. CASE ~PasswordStillRight(flight[r])
    BY <1>2, <2>1, <1>1 DEF StartChallenge
  <2>2. CASE PasswordStillRight(flight[r])
    <3>1. u \in Users
      BY <1>2, RequestFacts DEF StartChallenge
    <3>2. c.token = nextToken /\ c.proof = c.password
      BY <2>2 DEF NewChallenge, PasswordStillRight
    <3>3. challenge' = [challenge EXCEPT ![u] = c] /\ nextToken' = nextToken + 1
          /\ UNCHANGED <<cred, password, active, sessions, spent>>
      BY <1>2, <2>2 DEF StartChallenge
    <3> HIDE DEF u, c
    <3>4. challenge'[u] = c /\ \A v \in Users \ {u} : challenge'[v] = challenge[v]
      BY <1>0, <3>1, <3>3 DEF ChallengeOK
    <3>5. Advances(u)
      BY <1>0, <3>1, <3>2, <3>3, <3>4 DEF Advances, Rows, TokenInv
    <3>6. TokenInv' /\ SpentInv'
      BY <3>1, <3>3, <3>5, TokensAdvance, SpentKept DEF Rows
    <3>7. ChallengeInv'
      BY <3>2, <3>4 DEF Rows, ChallengeInv
    <3>8. SessionsFollowAccount' /\ SessionsFollowFactor'
      BY <1>0, <3>3, SessionsFollow DEF Rows, Goes
    <3> QED BY <3>6, <3>7, <3>8 DEF Rows
  <2> QED BY <2>1, <2>2
<1>3. ASSUME NEW u \in Users, CancelChallenge(u) PROVE Rows'
  <2>1. /\ UNCHANGED <<cred, password, active, sessions, spent, nextToken>>
        /\ challenge' = [challenge EXCEPT ![u] = NoChallenge]
    BY <1>3 DEF CancelChallenge
  <2>2. challenge'[u] = NoChallenge /\ \A v \in Users \ {u} : challenge'[v] = challenge[v]
    BY <1>0, <2>1 DEF ChallengeOK
  <2>3. NoChallenge.token = 0 /\ NoChallenge.proof = NoChallenge.password
    BY <1>0, NoChallengeRow
  <2>4. Advances(u)
    BY <1>0, <2>1, <2>2, <2>3 DEF Advances, Rows, TokenInv
  <2>5. TokenInv' /\ SpentInv'
    BY <2>1, <2>4, TokensAdvance, SpentKept DEF Rows
  <2>6. ChallengeInv'
    BY <2>2, <2>3 DEF Rows, ChallengeInv
  <2>7. SessionsFollowAccount' /\ SessionsFollowFactor'
    BY <1>0, <2>1, SessionsFollow DEF Rows, Goes
  <2> QED BY <2>5, <2>6, <2>7 DEF Rows
<1>4. ASSUME NEW r \in Requests, NEW n \in Window, VerifyTotp(r, n) PROVE Rows'
  <2> DEFINE u == flight[r].user
             c == challenge[u]
             s == Totp(u, c, c.proof)
  <2>1. /\ u \in Users /\ active[u] /\ c.token # 0 /\ c.password = password[u]
        /\ cred[u].state = "enrolled" /\ n \in Nat /\ n > cred[u].last
    BY <1>4, LoadsFacts, RequestFacts DEF VerifyTotp, RequiredState, Unused
  <2>2. /\ cred' = [cred EXCEPT ![u].last = n] /\ challenge' = [challenge EXCEPT ![u] = NoChallenge]
        /\ sessions' = sessions \cup {s}
        /\ spent' = spent (+) Proof(<<"totp", cred[u].secret, n>>) (+) Proof(<<"challenge", c.token>>)
        /\ UNCHANGED <<active, password, nextToken>>
    BY <1>4 DEF VerifyTotp
  <2>3. s.user = u /\ s.proof = c.proof /\ s.version = cred[u].version
    BY DEF Totp
  <2>4. c.proof = c.password
    BY <2>1 DEF Rows, ChallengeInv
  <2>5. PICK t \in Nat, h \in Nat : t = c.token /\ h = cred[u].secret
    BY <2>1, RequestFacts
  <2>6. PICK x : x = s
    OBVIOUS
  <2> HIDE DEF u, c, s
  <2>7. challenge'[u] = NoChallenge /\ \A v \in Users \ {u} : challenge'[v] = challenge[v]
    BY <1>0, <2>1, <2>2 DEF ChallengeOK
  <2>8. NoChallenge.token = 0 /\ NoChallenge.proof = NoChallenge.password
    BY <1>0, NoChallengeRow
  <2>9. /\ \A v \in Users \ {u} : cred'[v] = cred[v]
        /\ cred'[u].last = n /\ cred'[u].state = cred[u].state
        /\ cred'[u].version = cred[u].version /\ cred'[u].secret = cred[u].secret
        /\ cred'[u].generation = cred[u].generation /\ cred'[u].codes = cred[u].codes
    BY <1>0, <2>1, <2>2, LastBumped
  <2>10. Advances(u)
    BY <1>0, <2>1, <2>2, <2>7, <2>8, <2>9 DEF Advances, Rows, TokenInv
  <2>11. <<"challenge", t>> \notin DOMAIN spent /\ Over(<<"challenge", t>>)'
    BY <2>1, <2>5, <2>7, <2>8, <2>10, FreshChallenge DEF c
  <2>12. <<"totp", h, n>> \notin DOMAIN spent /\ Over(<<"totp", h, n>>)'
    BY <2>1, <2>5, <2>9, <2>10, FreshCode
  <2>13. SpentInv'
    BY <2>1, <2>2, <2>5, <2>10, <2>11, <2>12, SpentTwo DEF Rows
  <2>14. TokenInv'
    BY <2>1, <2>10, TokensAdvance DEF Rows
  <2>15. ChallengeInv'
    BY <2>7, <2>8 DEF Rows, ChallengeInv
  <2>16. Current(x)'
    BY <2>1, <2>2, <2>3, <2>9, <2>4, <2>6 DEF Current
  <2>17. \A v \in Users : Goes(v)
    BY <2>2, <2>9 DEF Goes
  <2>18. SessionsFollowAccount' /\ SessionsFollowFactor'
    <3>1. sessions' = sessions \cup {x}
      BY <2>2, <2>6
    <3>2. \A y \in sessions : Goes(y.user)
      BY <1>0, <2>17
    <3>3. \A y \in sessions' : Current(y)' \/ (y \in sessions /\ Goes(y.user))
      BY <2>16, <3>1, <3>2
    <3> QED BY <3>3, SessionsFollow DEF Rows
  <2> QED BY <2>13, <2>14, <2>15, <2>18 DEF Rows
<1>5. ASSUME NEW r \in Requests, NEW k \in Codes, VerifyRecovery(r, k) PROVE Rows'
  <2> DEFINE f == flight[r]
             new == NewChallenge(f.user, "recovery_enroll", cred[f.user].version + 1,
                                 challenge[f.user].proof)
  <2>1. PICK u \in Users, t \in Nat, g \in Nat :
             u = f.user /\ t = challenge[u].token /\ g = cred[u].generation
    BY <1>5, LoadsFacts, RequestFacts DEF VerifyRecovery
  <2>2. /\ active[u] /\ t # 0 /\ challenge[u].password = password[u] /\ k \in cred[u].codes
        /\ challenge[u].proof = challenge[u].password
    BY <1>5, <2>1, LoadsFacts DEF VerifyRecovery, Matching, Rows, ChallengeInv
  <2>3. new.token = nextToken /\ new.proof = new.password
    BY <2>1, <2>2 DEF NewChallenge
  <2>4. /\ cred' = [cred EXCEPT ![u] = [state |-> "recovery_pending", version |-> @.version + 1,
                                        secret |-> 0, last |-> 0, generation |-> @.generation,
                                        codes |-> @.codes \ {k}]]
        /\ challenge' = [challenge EXCEPT ![u] = new]
        /\ nextToken' = nextToken + 1 /\ sessions' = Without(u)
        /\ spent' = spent (+) Proof(<<"code", u, g, k>>) (+) Proof(<<"challenge", t>>)
        /\ UNCHANGED <<active, password>>
    BY <1>5, <2>1 DEF VerifyRecovery
  <2> HIDE DEF f, new
  <2>5. challenge'[u] = new /\ \A v \in Users \ {u} : challenge'[v] = challenge[v]
    BY <1>0, <2>4 DEF ChallengeOK
  <2>6. /\ \A v \in Users \ {u} : cred'[v] = cred[v]
        /\ cred'[u].state = "recovery_pending" /\ cred'[u].secret = 0
        /\ cred'[u].generation = cred[u].generation /\ cred'[u].codes = cred[u].codes \ {k}
    BY <1>0, <2>4 DEF CredOK
  <2>7. Advances(u)
    BY <2>3, <2>4, <2>5, <2>6 DEF Advances
  <2>8. challenge'[u].token # challenge[u].token
    BY <2>3, <2>5, TokenFacts
  <2>9. <<"challenge", t>> \notin DOMAIN spent /\ Over(<<"challenge", t>>)'
    BY <2>1, <2>2, <2>7, <2>8, FreshChallenge
  <2>10. <<"code", u, g, k>> \notin DOMAIN spent /\ Over(<<"code", u, g, k>>)'
    BY <2>1, <2>2, <2>6, FreshRecovery
  <2>11. SpentInv'
    BY <2>4, <2>7, <2>9, <2>10, SpentTwo DEF Rows
  <2>12. TokenInv'
    BY <2>7, TokensAdvance DEF Rows
  <2>13. ChallengeInv'
    BY <2>3, <2>5 DEF Rows, ChallengeInv
  <2>14. SessionsFollowAccount' /\ SessionsFollowFactor'
    BY <1>0, <2>4, <2>6, SessionsFollow DEF Rows, Goes, Without
  <2> QED BY <2>11, <2>12, <2>13, <2>14 DEF Rows
<1>6. ASSUME NEW r \in Requests, NEW n \in Window,
             ConfirmEnrollment(r, n) \/ ConfirmReplacement(r, n)
      PROVE  Rows'
  <2> DEFINE f == flight[r]
  <2>1. PICK u \in Users, t \in Nat : u = f.user /\ t = challenge[u].token
    BY <1>6, LoadsFacts, RequestFacts DEF ConfirmEnrollment, ConfirmReplacement
  <2>2. PICK s : s = [Totp(u, challenge[u], challenge[u].proof) EXCEPT !.version = cred[u].version + 1]
    OBVIOUS
  <2>3. /\ active[u] /\ t # 0 /\ challenge[u].password = password[u] /\ n \in Nat
        /\ challenge[u].proof = challenge[u].password
    BY <1>6, <2>1, LoadsFacts, RequestFacts DEF ConfirmEnrollment, ConfirmReplacement, Rows, ChallengeInv
  <2>4. /\ cred' = [cred EXCEPT ![u] = Enrolled(u, n)]
        /\ challenge' = [challenge EXCEPT ![u] = NoChallenge]
        /\ sessions' = Without(u) \cup {s} \/ sessions' = Without(u)
        /\ spent' = spent (+) Proof(<<"totp", t, n>>) (+) Proof(<<"challenge", t>>)
        /\ UNCHANGED <<active, password, nextToken>>
    BY <1>6, <2>1, <2>2 DEF ConfirmEnrollment, ConfirmReplacement
  <2>5. s.user = u /\ s.proof = challenge[u].proof /\ s.version = cred[u].version + 1
    BY <2>2 DEF Totp
  <2> HIDE DEF f
  <2>6. challenge'[u] = NoChallenge /\ \A v \in Users \ {u} : challenge'[v] = challenge[v]
    BY <1>0, <2>4 DEF ChallengeOK
  <2>7. NoChallenge.token = 0 /\ NoChallenge.proof = NoChallenge.password
    BY <1>0, NoChallengeRow
  <2>8. /\ \A v \in Users \ {u} : cred'[v] = cred[v]
        /\ cred'[u].state = "enrolled" /\ cred'[u].secret = t /\ cred'[u].last = n
        /\ cred'[u].generation = cred[u].generation + 1 /\ cred'[u].version = cred[u].version + 1
    BY <1>0, <2>1, <2>4 DEF CredOK, Enrolled
  <2>9. Advances(u)
    BY <2>1, <2>3, <2>4, <2>6, <2>7, <2>8, TokenFacts DEF Advances
  <2>10. <<"challenge", t>> \notin DOMAIN spent /\ Over(<<"challenge", t>>)'
    BY <2>1, <2>3, <2>6, <2>7, <2>9, FreshChallenge
  <2>11. <<"totp", t, n>> \notin DOMAIN spent /\ Over(<<"totp", t, n>>)'
    BY <2>1, <2>3, <2>6, <2>7, <2>8, <2>9, FreshEnrollment
  <2>12. SpentInv'
    BY <2>4, <2>9, <2>10, <2>11, SpentTwo DEF Rows
  <2>13. TokenInv'
    BY <2>9, TokensAdvance DEF Rows
  <2>14. ChallengeInv'
    BY <2>6, <2>7 DEF Rows, ChallengeInv
  <2>15. Current(s)'
    BY <2>3, <2>4, <2>5, <2>8 DEF Current
  <2>16. SessionsFollowAccount' /\ SessionsFollowFactor'
    <3>1. \A y \in Without(u) : y \in sessions /\ Goes(y.user)
      BY <1>0, <2>4, <2>8 DEF Goes, Without
    <3>2. \A y \in sessions' : Current(y)' \/ (y \in sessions /\ Goes(y.user))
      BY <2>4, <2>15, <3>1
    <3> QED BY <3>2, SessionsFollow DEF Rows
  <2> QED BY <2>12, <2>13, <2>14, <2>16 DEF Rows
<1>7. ASSUME NEW r \in Requests, NEW n \in Window, BeginReplacement(r, n) PROVE Rows'
  <2> DEFINE f == flight[r]
             new == NewChallenge(f.user, "replace", cred[f.user].version, f.password)
  <2>1. PICK u \in Users, h \in Nat : u = f.user /\ h = cred[u].secret
    BY <1>7, RequestFacts DEF BeginReplacement, Manages
  <2>2. cred[u].state = "enrolled" /\ n \in Nat /\ n > cred[u].last /\ f.password = password[u]
    BY <1>7, <2>1, RequestFacts DEF BeginReplacement, Manages, PasswordStillRight, Unused
  <2>3. new.token = nextToken /\ new.proof = new.password
    BY <2>1, <2>2 DEF NewChallenge
  <2>4. /\ cred' = [cred EXCEPT ![u].last = n] /\ challenge' = [challenge EXCEPT ![u] = new]
        /\ nextToken' = nextToken + 1 /\ spent' = spent (+) Proof(<<"totp", h, n>>)
        /\ UNCHANGED <<active, password, sessions>>
    BY <1>7, <2>1 DEF BeginReplacement
  <2> HIDE DEF f, new
  <2>5. challenge'[u] = new /\ \A v \in Users \ {u} : challenge'[v] = challenge[v]
    BY <1>0, <2>4 DEF ChallengeOK
  <2>6. /\ \A v \in Users \ {u} : cred'[v] = cred[v]
        /\ cred'[u].last = n /\ cred'[u].state = cred[u].state
        /\ cred'[u].version = cred[u].version /\ cred'[u].secret = cred[u].secret
        /\ cred'[u].generation = cred[u].generation /\ cred'[u].codes = cred[u].codes
    BY <1>0, <2>2, <2>4, LastBumped
  <2>7. Advances(u)
    BY <1>0, <2>2, <2>3, <2>4, <2>5, <2>6 DEF Advances, Rows, TokenInv
  <2>8. <<"totp", h, n>> \notin DOMAIN spent /\ Over(<<"totp", h, n>>)'
    BY <2>1, <2>2, <2>6, <2>7, FreshCode
  <2>9. SpentInv' /\ TokenInv'
    BY <2>4, <2>7, <2>8, SpentOnce, TokensAdvance DEF Rows
  <2>10. ChallengeInv'
    BY <2>3, <2>5 DEF Rows, ChallengeInv
  <2>11. SessionsFollowAccount' /\ SessionsFollowFactor'
    BY <1>0, <2>4, <2>6, SessionsFollow DEF Rows, Goes
  <2> QED BY <2>9, <2>10, <2>11 DEF Rows
<1>8. ASSUME NEW r \in Requests, NEW n \in Window, RotateRecoveryCodes(r, n) PROVE Rows'
  <2> DEFINE f == flight[r]
  <2>1. PICK u \in Users, h \in Nat : u = f.user /\ h = cred[u].secret
    BY <1>8, RequestFacts DEF RotateRecoveryCodes, Manages
  <2>2. cred[u].state = "enrolled" /\ n \in Nat /\ n > cred[u].last
    BY <1>8, <2>1, RequestFacts DEF RotateRecoveryCodes, Unused
  <2>3. /\ cred' = [cred EXCEPT ![u].last = n, ![u].generation = @ + 1, ![u].codes = Codes]
        /\ challenge' = [challenge EXCEPT ![u] = NoChallenge]
        /\ spent' = spent (+) Proof(<<"totp", h, n>>)
        /\ UNCHANGED <<active, password, sessions, nextToken>>
    BY <1>8, <2>1 DEF RotateRecoveryCodes
  <2> HIDE DEF f
  <2>4. challenge'[u] = NoChallenge /\ \A v \in Users \ {u} : challenge'[v] = challenge[v]
    BY <1>0, <2>3 DEF ChallengeOK
  <2>5. NoChallenge.token = 0 /\ NoChallenge.proof = NoChallenge.password
    BY <1>0, NoChallengeRow
  <2>6. /\ \A v \in Users \ {u} : cred'[v] = cred[v]
        /\ cred'[u].last = n /\ cred'[u].state = cred[u].state
        /\ cred'[u].version = cred[u].version /\ cred'[u].secret = cred[u].secret
        /\ cred'[u].generation = cred[u].generation + 1
    BY <1>0, <2>2, <2>3, Rotated
  <2>7. Advances(u)
    <3>1. cred'[u].generation > cred[u].generation /\ cred'[u].last >= cred[u].last
      BY <1>0, <2>2, <2>6, TokenFacts
    <3> QED BY <2>2, <2>3, <2>4, <2>5, <2>6, <3>1 DEF Advances, Rows, TokenInv
  <2>8. <<"totp", h, n>> \notin DOMAIN spent /\ Over(<<"totp", h, n>>)'
    BY <2>1, <2>2, <2>6, <2>7, FreshCode
  <2>9. SpentInv' /\ TokenInv'
    BY <2>3, <2>7, <2>8, SpentOnce, TokensAdvance DEF Rows
  <2>10. ChallengeInv'
    BY <2>4, <2>5 DEF Rows, ChallengeInv
  <2>11. SessionsFollowAccount' /\ SessionsFollowFactor'
    BY <1>0, <2>3, <2>6, SessionsFollow DEF Rows, Goes
  <2> QED BY <2>9, <2>10, <2>11 DEF Rows
<1>9. ASSUME NEW r \in Requests, BeginDemoEnrollment(r) PROVE Rows'
  <2> DEFINE f == flight[r]
             new == NewChallenge(f.user, "enroll", cred[f.user].version, f.password)
  <2>1. PICK u \in Users : u = f.user
    BY <1>9, RequestFacts DEF BeginDemoEnrollment, Manages
  <2>2. new.token = nextToken /\ new.proof = new.password
    BY <1>9 DEF NewChallenge, BeginDemoEnrollment, Manages, PasswordStillRight
  <2>3. /\ challenge' = [challenge EXCEPT ![u] = new] /\ nextToken' = nextToken + 1
        /\ UNCHANGED <<active, password, cred, sessions, spent>>
    BY <1>9, <2>1 DEF BeginDemoEnrollment
  <2> HIDE DEF f, new
  <2>4. challenge'[u] = new /\ \A v \in Users \ {u} : challenge'[v] = challenge[v]
    BY <1>0, <2>3 DEF ChallengeOK
  <2>5. Advances(u)
    BY <1>0, <2>2, <2>3, <2>4 DEF Advances, Rows, TokenInv
  <2>6. SpentInv' /\ TokenInv'
    BY <2>3, <2>5, SpentKept, TokensAdvance DEF Rows
  <2>7. ChallengeInv'
    BY <2>2, <2>4 DEF Rows, ChallengeInv
  <2>8. SessionsFollowAccount' /\ SessionsFollowFactor'
    BY <1>0, <2>3, SessionsFollow DEF Rows, Goes
  <2> QED BY <2>6, <2>7, <2>8 DEF Rows
<1>10. ASSUME NEW u \in Users, Evict(u), UNCHANGED <<cred, spent, nextToken>>,
              \A v \in Users \ {u} : (active[v] => active'[v]) /\ password'[v] = password[v]
       PROVE  Rows'
  <2>1. /\ challenge'[u] = NoChallenge /\ \A v \in Users \ {u} : challenge'[v] = challenge[v]
        /\ sessions' = Without(u)
    BY <1>0, <1>10, EvictEffect
  <2>2. NoChallenge.token = 0 /\ NoChallenge.proof = NoChallenge.password
    BY <1>0, NoChallengeRow
  <2>3. Advances(u)
    BY <1>0, <1>10, <2>1, <2>2 DEF Advances, Rows, TokenInv
  <2>4. SpentInv' /\ TokenInv'
    BY <1>10, <2>3, SpentKept, TokensAdvance DEF Rows
  <2>5. ChallengeInv'
    BY <2>1, <2>2 DEF Rows, ChallengeInv
  <2>6. SessionsFollowAccount' /\ SessionsFollowFactor'
    BY <1>0, <1>10, <2>1, SessionsFollow DEF Rows, Goes, Without
  <2> QED BY <2>4, <2>5, <2>6 DEF Rows
<1>11. ASSUME NEW r \in Requests, NEW u \in Users, NEW new \in {"Operator", "Admin"},
              CreateUser(r, u, new)
       PROVE  Rows'
  <2>1. /\ UNCHANGED <<cred, challenge, spent, password, nextToken, sessions>>
        /\ active' = [active EXCEPT ![u] = TRUE] /\ active \in [Users -> BOOLEAN]
    BY <1>11 DEF CreateUser, TypeOK
  <2>2. \A v \in Users : active[v] => active'[v]
    BY <2>1
  <2> QED BY <2>1, <2>2, QuietRows
<1>12. ASSUME NEW r \in Requests, NEW u \in Users, NEW new \in {"Operator", "Admin"},
              NEW on \in BOOLEAN, UpdateUser(r, u, new, on)
       PROVE  Rows'
  <2>1. /\ UNCHANGED <<cred, spent, password, nextToken>>
        /\ active' = active \/ active' = [active EXCEPT ![u] = on]
        /\ \/ Evict(u)
           \/ UNCHANGED <<challenge, sessions>> /\ (active' = active \/ on)
    <3> DEFINE seen == IF u = flight[r].user THEN TRUE ELSE active[u]
    <3>1. seen \in BOOLEAN
      BY DEF TypeOK
    <3>2. /\ UNCHANGED <<cred, spent, password, nextToken>>
          /\ active' = IF on # seen THEN [active EXCEPT ![u] = on] ELSE active
          /\ Evict(u) \/ (UNCHANGED <<challenge, sessions>> /\ ~(seen /\ ~on))
      BY <1>12 DEF UpdateUser
    <3> HIDE DEF seen
    <3>3. CASE on = TRUE
      BY <3>2, <3>3
    <3>4. CASE on = FALSE
      BY <3>1, <3>2, <3>4
    <3> QED BY <3>3, <3>4
  <2>2. active \in [Users -> BOOLEAN]
    BY DEF TypeOK
  <2>3. \A v \in Users \ {u} : active[v] => active'[v]
    BY <2>1, <2>2
  <2>4. active' = active \/ on => \A v \in Users : active[v] => active'[v]
    BY <2>1, <2>2
  <2> QED BY <1>10, <2>1, <2>3, <2>4, QuietRows
<1>13. ASSUME NEW r \in Requests, NEW u \in Users, DeleteUser(r, u) PROVE Rows'
  <2>1. /\ UNCHANGED <<cred, spent, password, nextToken>> /\ Evict(u)
        /\ active' = [active EXCEPT ![u] = FALSE] /\ active \in [Users -> BOOLEAN]
    BY <1>13 DEF DeleteUser, TypeOK
  <2>2. \A v \in Users \ {u} : active[v] => active'[v]
    BY <2>1
  <2> QED BY <1>10, <2>1, <2>2
<1>14. ASSUME NEW r \in Requests, NEW u \in Users, u = flight[r].user \/ ResetPassword(r, u),
              ChangeMyPassword(r) \/ ResetPassword(r, u)
       PROVE  Rows'
  <2>1. /\ UNCHANGED <<cred, spent, active, nextToken>> /\ Evict(u)
        /\ password' = [password EXCEPT ![u] = password[u] + 1] /\ password \in [Users -> Nat]
    BY <1>14 DEF ResetPassword, ChangeMyPassword, TypeOK
  <2>2. \A v \in Users \ {u} : password'[v] = password[v]
    BY <2>1
  <2> QED BY <1>10, <2>1, <2>2
<1>15. ASSUME NEW r \in Requests, ChangeMyPassword(r) PROVE Rows'
  <2>1. flight[r].user \in Users
    BY <1>15, RequestFacts DEF ChangeMyPassword
  <2> QED BY <1>14, <1>15, <2>1
<1>16. CASE SessionStep
  <2>1. ASSUME NEW s \in sessions, Logout(s) PROVE Rows'
    BY <1>1, <2>1 DEF Logout
  <2>2. ASSUME NEW r \in Requests, Hop(r) PROVE Rows'
    <3>1. \A s \in sessions' : s.method = "demo" \/ s \in sessions
      BY <2>2 DEF Hop
    <3> QED BY <1>1, <2>2, <3>1 DEF Hop
  <2>3. ASSUME NEW r \in Requests, NEW s \in sessions, NEW u \in Users, HopRead(r, s, u) PROVE Rows'
    BY <1>1, <2>3 DEF HopRead
  <2> QED BY <1>16, <2>1, <2>2, <2>3 DEF SessionStep
<1>17. CASE LoginStep
  <2>1. ASSUME NEW r \in Requests, NEW u \in Users, PasswordStage(r, u) \/ ProofStage(r, u)
        PROVE  Rows'
    BY <1>1, <2>1 DEF PasswordStage, ProofStage
  <2>2. ASSUME NEW r \in Requests, RecordFailure(r) \/ Deny(r) \/ ResetFailures(r) PROVE Rows'
    BY <1>1, <2>2 DEF RecordFailure, Deny, ResetFailures
  <2>3. ASSUME NEW u \in Users, FailureAges(u) PROVE Rows'
    BY <1>1, <2>3 DEF FailureAges
  <2> QED BY <1>2, <1>3, <1>4, <1>5, <1>6, <1>17, <2>1, <2>2, <2>3 DEF LoginStep
<1>18. CASE ManageStep
  <2>1. ASSUME NEW r \in Requests, NEW s \in sessions, ManageStage(r, s) PROVE Rows'
    BY <1>1, <2>1 DEF ManageStage
  <2> QED BY <1>7, <1>8, <1>9, <1>18, <2>1 DEF ManageStep
<1>19. CASE AdminStep
  <2>1. ASSUME NEW r \in Requests, NEW s \in sessions, AuthorizeAdmin(r, s) \/ AuthorizeSelf(r, s)
        PROVE  Rows'
    BY <1>1, <2>1 DEF AuthorizeAdmin, AuthorizeSelf
  <2>2. ASSUME NEW r \in Requests, Refuse(r) PROVE Rows'
    BY <1>1, <2>2 DEF Refuse
  <2> QED BY <1>11, <1>12, <1>13, <1>14, <1>15, <1>19, <2>1, <2>2 DEF AdminStep
<1>20. CASE Tick
  BY <1>1, <1>20 DEF Tick
<1>21. CASE UNCHANGED vars
  BY <1>1, <1>21 DEF vars
<1> QED BY <1>16, <1>17, <1>18, <1>19, <1>20, <1>21 DEF Next

-----------------------------------------------------------------------------
(* The administrators *)

LEMMA AnotherAdmin ==
  ASSUME ActiveAdminRemains, NEW u, ~(Cardinality(ActiveAdmins) <= 1) \/ u \notin ActiveAdmins
  PROVE  \E v \in ActiveAdmins : v # u
<1>1. CASE u \notin ActiveAdmins
  BY <1>1 DEF ActiveAdminRemains
<1>2. ASSUME ~(Cardinality(ActiveAdmins) <= 1), ActiveAdmins \subseteq {u} PROVE FALSE
  <2>1. Cardinality({u}) = 1 /\ IsFiniteSet({u})
    BY FS_Singleton
  <2>2. Cardinality(ActiveAdmins) <= Cardinality({u})
    BY <1>2, <2>1, FS_Subset
  <2> QED BY <1>2, <2>1, <2>2
<1> QED BY <1>1, <1>2

\* An administrator that a step leaves alone, or that stays one.
LEMMA AdminStays ==
  ASSUME NEW v \in Users, v \in ActiveAdmins, role'[v] = role[v], active'[v] = active[v]
  PROVE  ActiveAdminRemains'
BY DEF ActiveAdminRemains, ActiveAdmins

LEMMA AdminNext == TypeOK /\ ActiveAdminRemains /\ [Next]_vars => ActiveAdminRemains'
<1> SUFFICES ASSUME TypeOK, ActiveAdminRemains, [Next]_vars PROVE ActiveAdminRemains'
  OBVIOUS
<1>0. /\ role \in [Users -> {"none", "Operator", "Admin"}] /\ active \in [Users -> BOOLEAN]
      /\ ActiveAdmins \subseteq Users
  BY DEF TypeOK, ActiveAdmins
<1>1. ASSUME NEW u \in Users, NEW v \in ActiveAdmins, v # u,
             role' = role \/ \E x : role' = [role EXCEPT ![u] = x],
             active' = active \/ \E x : active' = [active EXCEPT ![u] = x]
      PROVE  ActiveAdminRemains'
  <2>1. v \in Users /\ role'[v] = role[v] /\ active'[v] = active[v]
    BY <1>0, <1>1
  <2> QED BY <2>1, AdminStays
<1>2. ASSUME UNCHANGED <<role, active>> PROVE ActiveAdminRemains'
  BY <1>2 DEF ActiveAdminRemains, ActiveAdmins
<1>3. ASSUME NEW r \in Requests, NEW u \in Users, NEW new \in {"Operator", "Admin"},
             CreateUser(r, u, new)
      PROVE  ActiveAdminRemains'
  <2>1. u \notin ActiveAdmins /\ role' = [role EXCEPT ![u] = new]
        /\ active' = [active EXCEPT ![u] = TRUE]
    BY <1>3 DEF CreateUser, ActiveAdmins
  <2>2. PICK v \in ActiveAdmins : v # u
    BY <2>1, AnotherAdmin
  <2> QED BY <1>1, <2>1, <2>2
<1>4. ASSUME NEW r \in Requests, NEW u \in Users, NEW new \in {"Operator", "Admin"},
             NEW on \in BOOLEAN, UpdateUser(r, u, new, on)
      PROVE  ActiveAdminRemains'
  <2> DEFINE seen == IF u = flight[r].user THEN "Admin" ELSE role[u]
             here == IF u = flight[r].user THEN TRUE ELSE active[u]
  <2>1. /\ ~(LastAdmin(seen) /\ (new = "Operator" \/ ~on))
        /\ role' = IF new # seen THEN [role EXCEPT ![u] = new] ELSE role
        /\ active' = IF on # here THEN [active EXCEPT ![u] = on] ELSE active
    BY <1>4 DEF UpdateUser
  <2>2. u \in ActiveAdmins => seen = "Admin"
    BY DEF ActiveAdmins
  <2>3. here \in BOOLEAN
    BY <1>0
  <2>4. u \in ActiveAdmins => here = TRUE
    BY <1>0 DEF ActiveAdmins
  <2> HIDE DEF seen, here
  <2>5. ASSUME NEW v \in ActiveAdmins, v # u PROVE ActiveAdminRemains'
    BY <1>1, <2>1, <2>5
  <2>6. CASE new = "Operator" \/ ~on
    <3>1. ~(Cardinality(ActiveAdmins) <= 1) \/ u \notin ActiveAdmins
      BY <2>1, <2>2, <2>6 DEF LastAdmin
    <3> QED BY <2>5, <3>1, AnotherAdmin
  <2>7. CASE ~(new = "Operator" \/ ~on)
    <3>1. new = "Admin" /\ on = TRUE
      BY <2>7
    <3>2. CASE u \in ActiveAdmins
      <4>1. role' = role /\ active' = active
        BY <2>1, <2>2, <2>4, <3>1, <3>2
      <4> QED BY <1>2, <4>1
    <3>3. CASE u \notin ActiveAdmins
      BY <2>5, <3>3, AnotherAdmin
    <3> QED BY <3>2, <3>3
  <2> QED BY <2>6, <2>7
<1>5. ASSUME NEW r \in Requests, NEW u \in Users, DeleteUser(r, u) PROVE ActiveAdminRemains'
  <2>1. /\ ~(Cardinality(ActiveAdmins) <= 1) \/ u \notin ActiveAdmins
        /\ role' = role /\ active' = [active EXCEPT ![u] = FALSE]
    BY <1>5 DEF DeleteUser, LastAdmin, ActiveAdmins
  <2>2. PICK v \in ActiveAdmins : v # u
    BY <2>1, AnotherAdmin
  <2> QED BY <1>1, <2>1, <2>2
<1>6. CASE SessionStep
  BY <1>2, <1>6 DEF SessionStep, Logout, HopRead, Hop
<1>7. CASE LoginStep
  BY <1>2, <1>7 DEF LoginStep, PasswordStage, StartChallenge, CancelChallenge, ProofStage, VerifyTotp,
                    VerifyRecovery, ConfirmEnrollment, ConfirmReplacement, RecordFailure, Deny,
                    ResetFailures, FailureAges
<1>8. CASE ManageStep
  BY <1>2, <1>8 DEF ManageStep, ManageStage, BeginReplacement, RotateRecoveryCodes,
                    BeginDemoEnrollment
<1>9. CASE AdminStep
  BY <1>2, <1>3, <1>4, <1>5, <1>9 DEF AdminStep, AuthorizeAdmin, AuthorizeSelf, ResetPassword,
                                      ChangeMyPassword, Refuse
<1>10. CASE Tick
  BY <1>2, <1>10 DEF Tick
<1>11. CASE UNCHANGED vars
  BY <1>2, <1>11 DEF vars
<1> QED BY <1>6, <1>7, <1>8, <1>9, <1>10, <1>11 DEF Next

-----------------------------------------------------------------------------
(* The limiter *)

LEMMA Counts ==
  \A u : /\ IsFiniteSet(Undecided(u)) /\ Cardinality(Undecided(u)) \in Nat
         /\ IsFiniteSet(Undecided(u)') /\ Cardinality(Undecided(u)') \in Nat
         /\ Cardinality(Undecided(u)') <= Cardinality(Requests)
         /\ Cardinality(Requests) \in Nat
         /\ Undecided(u)' \subseteq Undecided(u) =>
              Cardinality(Undecided(u)') <= Cardinality(Undecided(u))
<1> SUFFICES ASSUME NEW u
             PROVE  /\ IsFiniteSet(Undecided(u)) /\ Cardinality(Undecided(u)) \in Nat
                    /\ IsFiniteSet(Undecided(u)') /\ Cardinality(Undecided(u)') \in Nat
                    /\ Cardinality(Undecided(u)') <= Cardinality(Requests)
                    /\ Cardinality(Requests) \in Nat
                    /\ Undecided(u)' \subseteq Undecided(u) =>
                         Cardinality(Undecided(u)') <= Cardinality(Undecided(u))
  OBVIOUS
<1>1. Undecided(u) \subseteq Requests /\ Undecided(u)' \subseteq Requests
  BY DEF Undecided
<1>2. /\ IsFiniteSet(Undecided(u)) /\ IsFiniteSet(Undecided(u)')
      /\ Cardinality(Undecided(u)') <= Cardinality(Requests)
  BY <1>1, FS_Subset, FiniteAssumption
<1>3. /\ Cardinality(Undecided(u)) \in Nat /\ Cardinality(Undecided(u)') \in Nat
      /\ Cardinality(Requests) \in Nat
  BY <1>2, FS_CardinalityType, FiniteAssumption
<1>4. Undecided(u)' \subseteq Undecided(u) => Cardinality(Undecided(u)') <= Cardinality(Undecided(u))
  BY <1>2, FS_Subset
<1> QED BY <1>2, <1>3, <1>4

\* Neither more failures nor more undecided requests.
LEMMA LimitKept ==
  ASSUME LimitInv, NEW u \in Users, failures[u] \in Nat, failures'[u] \in Nat,
         failures'[u] <= failures[u], Undecided(u)' \subseteq Undecided(u)
  PROVE  Within(u)'
<1>1. /\ Cardinality(Undecided(u)) \in Nat /\ Cardinality(Undecided(u)') \in Nat
      /\ Cardinality(Requests) \in Nat
      /\ Cardinality(Undecided(u)') <= Cardinality(Undecided(u))
  BY Counts
<1>2. failures[u] + Cardinality(Undecided(u)) <= (MaxAttempts - 1) + Cardinality(Requests)
  BY DEF LimitInv, Within
<1> QED BY <1>1, <1>2, LimitAssumption DEF Within

LEMMA LimitNext == TypeOK /\ TypeOK' /\ LimitInv /\ [Next]_vars => LimitInv'
<1> SUFFICES ASSUME TypeOK, TypeOK', LimitInv, [Next]_vars, NEW u \in Users PROVE Within(u)'
  BY DEF LimitInv
<1>0. failures[u] \in Nat /\ failures'[u] \in Nat /\ FlightOK
  BY TypeParts DEF TypeOK
<1>1. ASSUME UNCHANGED flight, failures'[u] <= failures[u] PROVE Within(u)'
  BY <1>0, <1>1, LimitKept DEF Undecided
<1>2. ASSUME NEW r \in Requests, failures'[u] <= failures[u],
             flight' = [flight EXCEPT ![r] = Idle] \/ (Succeeds(r) /\ flight[r].kind # "idle")
      PROVE  Within(u)'
  <2>1. /\ \A q \in Requests \ {r} : flight'[q] = flight[q]
        /\ flight'[r].kind \in {"idle", "reset"}
    BY <1>0, <1>2, RequestEnds
  <2>2. Undecided(u)' \subseteq Undecided(u)
    BY <2>1 DEF Undecided
  <2> QED BY <1>0, <1>2, <2>2, LimitKept
<1>3. ASSUME \/ \E r \in Requests, s \in sessions, w \in Users : HopRead(r, s, w)
             \/ \E r \in Requests, w \in Users : PasswordStage(r, w) \/ ProofStage(r, w)
             \/ \E r \in Requests, s \in sessions :
                  ManageStage(r, s) \/ AuthorizeAdmin(r, s) \/ AuthorizeSelf(r, s)
      PROVE  Within(u)'
  <2>1. PICK r \in Requests, f \in FlightType :
           /\ UNCHANGED failures
           /\ flight[r] = Idle /\ flight' = [flight EXCEPT ![r] = f]
           /\ f.kind \in {"prove", "manage"} => failures[f.user] < MaxAttempts
    BY <1>3, Beginnings
  <2>2. flight'[r] = f /\ \A q \in Requests \ {r} : flight'[q] = flight[q]
    BY <1>0, <2>1 DEF FlightOK
  <2>3. CASE f.kind \in {"prove", "manage"} /\ f.user = u
    <3>1. failures'[u] < MaxAttempts
      BY <2>1, <2>3
    <3> QED BY <1>0, <3>1, Counts, LimitAssumption DEF Within
  <2>4. CASE ~(f.kind \in {"prove", "manage"} /\ f.user = u)
    <3>1. Undecided(u)' \subseteq Undecided(u)
      BY <2>2, <2>4 DEF Undecided
    <3>2. failures'[u] <= failures[u]
      BY <1>0, <2>1
    <3> QED BY <1>0, <3>1, <3>2, LimitKept
  <2> QED BY <2>3, <2>4
<1>4. ASSUME NEW r \in Requests, RecordFailure(r) PROVE Within(u)'
  <2>1. /\ flight' = [flight EXCEPT ![r] = Idle] /\ flight[r].user \in Users
        /\ flight[r].kind \in {"prove", "manage"}
        /\ failures' = [failures EXCEPT ![flight[r].user] = failures[flight[r].user] + 1]
    BY <1>4, RequestFacts DEF RecordFailure
  <2>2. failures \in [Users -> Nat]
    BY DEF TypeOK
  <2>3. CASE flight[r].user # u
    <3>1. failures'[u] <= failures[u]
      BY <1>0, <2>1, <2>2, <2>3
    <3> QED BY <1>2, <2>1, <3>1
  <2>4. CASE flight[r].user = u
    <3>1. failures'[u] = failures[u] + 1
      BY <2>1, <2>2, <2>4
    <3>2. /\ \A q \in Requests \ {r} : flight'[q] = flight[q]
          /\ flight'[r].kind \in {"idle", "reset"}
      BY <1>0, <2>1, RequestEnds
    <3>3. r \in Undecided(u) /\ Undecided(u)' = Undecided(u) \ {r}
      BY <2>1, <2>4, <3>2 DEF Undecided
    <3>4. Cardinality(Undecided(u)') = Cardinality(Undecided(u)) - 1
      BY <3>3, Counts, FS_RemoveElement
    <3>5. failures[u] + Cardinality(Undecided(u)) <= (MaxAttempts - 1) + Cardinality(Requests)
      BY DEF LimitInv, Within
    <3> QED BY <1>0, <3>1, <3>4, <3>5, Counts, LimitAssumption DEF Within
  <2> QED BY <2>3, <2>4
<1>5. ASSUME NEW r \in Requests, ResetFailures(r) PROVE Within(u)'
  <2>1. failures'[u] <= failures[u]
    BY <1>0, <1>5 DEF ResetFailures, TypeOK
  <2> QED BY <1>2, <1>5, <2>1 DEF ResetFailures
<1>6. ASSUME NEW w \in Users, FailureAges(w) PROVE Within(u)'
  <2>1. failures'[u] <= failures[u]
    BY <1>0, <1>6 DEF FailureAges, TypeOK
  <2> QED BY <1>1, <1>6, <2>1 DEF FailureAges
<1>7. UNCHANGED failures => failures'[u] <= failures[u]
  BY <1>0
<1>8. CASE SessionStep
  BY <1>1, <1>2, <1>3, <1>7, <1>8 DEF SessionStep, Logout, Hop
<1>9. CASE LoginStep
  BY <1>1, <1>2, <1>3, <1>4, <1>5, <1>6, <1>7, <1>9
     DEF LoginStep, StartChallenge, CancelChallenge, VerifyTotp, VerifyRecovery, ConfirmEnrollment,
         ConfirmReplacement, Deny
<1>10. CASE ManageStep
  BY <1>1, <1>2, <1>3, <1>7, <1>10 DEF ManageStep, BeginReplacement, RotateRecoveryCodes,
                                       BeginDemoEnrollment, Manages
<1>11. CASE AdminStep
  <2>1. ASSUME NEW r \in Requests, NEW w \in Users, NEW new \in {"Operator", "Admin"},
               NEW on \in BOOLEAN, CreateUser(r, w, new) \/ UpdateUser(r, w, new, on)
        PROVE  Within(u)'
    BY <1>2, <1>7, <2>1 DEF CreateUser, UpdateUser
  <2>2. ASSUME NEW r \in Requests, NEW w \in Users, DeleteUser(r, w) \/ ResetPassword(r, w)
        PROVE  Within(u)'
    BY <1>2, <1>7, <2>2 DEF DeleteUser, ResetPassword
  <2>3. ASSUME NEW r \in Requests, ChangeMyPassword(r) \/ Refuse(r) PROVE Within(u)'
    BY <1>2, <1>7, <2>3 DEF ChangeMyPassword, Refuse
  <2> QED BY <1>3, <1>11, <2>1, <2>2, <2>3 DEF AdminStep
<1>12. CASE Tick
  BY <1>1, <1>7, <1>12 DEF Tick
<1>13. CASE UNCHANGED vars
  BY <1>1, <1>7, <1>13 DEF vars
<1> QED BY <1>8, <1>9, <1>10, <1>11, <1>12, <1>13 DEF Next

-----------------------------------------------------------------------------
(* The theorems *)

LEMMA InvInit == Init => IInv
<1> SUFFICES ASSUME Init PROVE IInv
  OBVIOUS
<1>1. ActiveAdminRemains
  <2>1. PICK u \in Initial : u \in Users
    BY InitialAssumption
  <2>2. role[u] = "Admin" /\ active[u]
    BY <2>1 DEF Init
  <2> QED BY <2>1, <2>2 DEF ActiveAdminRemains, ActiveAdmins
<1>2. SessionsFollowAccount /\ SessionsFollowFactor
  BY DEF Init, SessionsFollowAccount, SessionsFollowFactor
<1>3. ChallengeInv
  BY DEF Init, ChallengeInv, NoChallenge
<1>4. TokenInv
  BY DEF Init, TokenInv, NoChallenge, Unenrolled
<1>5. SpentInv
  <2>1. DOMAIN spent = {}
    BY DEF Init, EmptyBag, SetToBag
  <2> QED BY <2>1 DEF SpentInv, ProofsAreSpentOnce
<1>6. ASSUME NEW u \in Users PROVE Within(u)
  <2>1. failures[u] = 0 /\ Undecided(u) = {}
    BY DEF Init, Undecided, Idle
  <2>2. Cardinality(Undecided(u)) = 0
    BY <2>1, FS_EmptySet
  <2>3. Cardinality(Requests) \in Nat
    BY Counts
  <2> QED BY <2>1, <2>2, <2>3, LimitAssumption DEF Within
<1> QED BY <1>1, <1>2, <1>3, <1>4, <1>5, <1>6 DEF IInv, LimitInv

LEMMA InvNext == TypeOK /\ TypeOK' /\ IInv /\ [Next]_vars => IInv'
BY AdminNext, RowsNext, LimitNext DEF IInv, Rows

\* Every row has the columns and values of its table, and no token is in use
\* before it was issued.
THEOREM TypeCorrect == Spec => []TypeOK
<1> QED BY TypeInit, TypeNext, PTL DEF Spec

LEMMA InvAlways == Spec => []IInv
<1> QED BY InvInit, InvNext, TypeCorrect, PTL DEF Spec

\* Whatever administrators do to each other at the same time, on whatever
\* authorisation, an active administrator is left (update_user, delete_user).
THEOREM AnAdminRemains == Spec => []ActiveAdminRemains
<1>1. IInv => ActiveAdminRemains
  BY DEF IInv
<1> QED BY <1>1, InvAlways, PTL

\* A session of a login belongs to an active account with the password the login
\* was begun with: no change of password and no deactivation leaves one behind or
\* is overtaken by one.
THEOREM SessionsOfTheAccount == Spec => []SessionsFollowAccount
<1>1. IInv => SessionsFollowAccount
  BY DEF IInv
<1> QED BY <1>1, InvAlways, PTL

\* ... and with the factor that it passed: none is left after a recovery or a
\* replacement.
THEOREM SessionsOfTheFactor == Spec => []SessionsFollowFactor
<1>1. IInv => SessionsFollowFactor
  BY DEF IInv
<1> QED BY <1>1, InvAlways, PTL

\* No TOTP code, recovery code or challenge is accepted twice by any of the
\* operations that accept one.
THEOREM ProofsSpentOnce == Spec => []ProofsAreSpentOnce
<1>1. IInv => ProofsAreSpentOnce
  BY DEF IInv, SpentInv
<1> QED BY <1>1, InvAlways, PTL

\* The limiter is overshot by the requests served at the same time, and by no more.
THEOREM BoundedOvershoot == Spec => []OvershootIsBounded
<1>1. TypeOK /\ IInv => OvershootIsBounded
  <2> SUFFICES ASSUME TypeOK, IInv, NEW u \in Users
               PROVE  failures[u] <= (MaxAttempts - 1) + Cardinality(Requests)
    BY DEF OvershootIsBounded
  <2>1. Within(u) /\ failures[u] \in Nat
    BY DEF IInv, LimitInv, TypeOK
  <2>2. Cardinality(Undecided(u)) \in Nat /\ Cardinality(Requests) \in Nat
    BY Counts
  <2> QED BY <2>1, <2>2, LimitAssumption DEF Within
<1> QED BY <1>1, InvAlways, TypeCorrect, PTL
=============================================================================
