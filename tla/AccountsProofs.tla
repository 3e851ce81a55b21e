---------------------------- MODULE AccountsProofs ----------------------------
(* Theorems about Accounts: sessions end with their password, a session has *)
(* one token and a user one code, and a letter is the newest, for any       *)
(* number of requests, users, tokens and codes.                             *)
EXTENDS Accounts, FiniteSetTheorems, TLAPS

USE AccountsAssumption DEF AccountsAssumption

-----------------------------------------------------------------------------
(* The inductive invariant. *)

Steps == {"idle", "wrong", "issue", "token", "password", "forgot", "mail",
          "commit", "asked", "edit", "upload", "clean", "delete"}

(* Users: a password is the number of its changes, and so is the version   *)
(* that goes into tokens, until the account is closed.                     *)
UserTypes ==
    /\ status \in [Users -> {"none", "active", "deleted"}]
    /\ email \in [Users -> Emails \cup {None}]
    /\ password \in [Users -> Passwords \cup {None}]
    /\ version \in [Users -> 0 .. MaxPasswords + 1]
    /\ reserved \subseteq Emails

UserStands(u) ==
    /\ status[u] = "active" => email[u] \in Emails
    /\ status[u] # "deleted" =>
           password[u] = version[u] /\ version[u] <= MaxPasswords

UserInv ==
    /\ UserTypes
    /\ \A u \in Users : UserStands(u)
    /\ \A u, v \in Users : email[u] = email[v] /\ email[u] # None => u = v

(* Requests that hold a user: what they checked under the lock stands.     *)
Holding == {"password", "delete", "edit", "upload", "mail", "commit"}

CodeHolderStands(r) ==
    LET q == call[r] IN
    /\ q.op \in {"forgot", "register"} /\ q.email \in Emails
    /\ q.op = "forgot" => /\ q.user \in Users /\ status[q.user] = "active"
                          /\ email[q.user] = q.email
    /\ q.op = "register" => q.user = None

HolderStands(r) ==
    LET q == call[r] IN
    /\ pc[r] \in {"password", "delete", "edit", "upload"} =>
           q.user \in Users /\ status[q.user] = "active"
    /\ pc[r] = "password" => password[q.user] < MaxPasswords
    /\ pc[r] \in {"edit", "forgot"} => q.email \in Emails
    /\ pc[r] \in {"mail", "commit"} => CodeHolderStands(r)

LockInv ==
    /\ pc \in [Requests -> Steps] /\ DOMAIN call = Requests
    /\ \A r \in Requests : HolderStands(r)
    /\ \A r, s \in Requests :
           pc[r] \in Holding /\ pc[s] \in Holding /\ call[r].user = call[s].user
               => r = s \/ call[r].user = None

(* A token, or a login on its way to one, knows the password of a version, *)
(* and the version is the present one only of an active user.              *)
Known(u, v, p) ==
    /\ v \in Nat /\ v = p /\ v <= version[u]
    /\ v = version[u] => status[u] = "active"

Token == [user : Users \cup {None}, session : Nat, version : Nat, password : Nat,
          valid : BOOLEAN]

TokenStands(t) ==
    LET k == tokens[t] IN
    /\ k.valid => k.user # None
    /\ k.user # None => /\ Known(k.user, k.version, k.password)
                        /\ k.session \in Tokens /\ tokens[k.session].user # None

TokenRequestStands(r) ==
    LET q == call[r] IN
    /\ pc[r] = "issue" => q.user \in Users /\ Known(q.user, q.version, q.password)
    /\ pc[r] = "token" => q.token \in Tokens /\ tokens[q.token].valid

TokenInv ==
    /\ tokens \in [Tokens -> Token]
    /\ \A t \in Tokens : TokenStands(t)
    /\ OneTokenPerSession
    /\ \A r \in Requests : TokenRequestStands(r)
    /\ \A r, s \in Requests :
           pc[r] = "token" /\ pc[s] = "token" /\ call[r].token = call[s].token => r = s

(* Files: nobody else refers to an avatar, to a file that is uploaded or   *)
(* to one that is about to be deleted.                                     *)
Uploads(r) ==
    LET q == call[r] IN
    /\ q.new \in files /\ q.old = avatar[q.user]
    /\ \A u \in Users : avatar[u] # q.new

Cleans(r) ==
    LET f == call[r].file IN
    /\ f \in 1 .. saved \cup {None}
    /\ f # None => \A u \in Users : avatar[u] # f
    /\ \A s \in Requests : pc[s] = "upload" => call[s].new # f

FileInv ==
    /\ saved \in 0 .. MaxFiles /\ files \subseteq 1 .. saved
    /\ avatar \in [Users -> 1 .. saved \cup {None}]
    /\ AvatarExists
    /\ \A u, v \in Users : avatar[u] = avatar[v] /\ avatar[u] # None => u = v
    /\ \A r \in Requests : /\ pc[r] = "upload" => Uploads(r)
                           /\ pc[r] = "clean" => Cleans(r)
    /\ \A r, s \in Requests :
           pc[r] = "upload" /\ pc[s] = "upload" /\ call[r].new = call[s].new => r = s

(* Codes: those a request closes are all the open ones of the user it      *)
(* holds, and the one it will store is not there yet.                      *)
Code_ == [purpose : {"none", "reset", "registration"}, email : Emails \cup {None},
          user : Users \cup {None}, guesses : Nat, open : BOOLEAN,
          confirmed : BOOLEAN, expired : BOOLEAN, uses : Nat]

CodeTypes ==
    /\ codes \in [Codes -> Code_]
    /\ drawn \in 0 .. MaxCodes
    /\ registration \in [Emails -> Codes \cup {None}]
    /\ doomed \subseteq Emails

CodeStands(c) ==
    /\ codes[c].open => codes[c].uses = 0
    /\ codes[c].uses <= 1
    /\ c > drawn => codes[c] = NoCode

RegistrationStands(e) ==
    LET c == registration[e] IN
    c # None => codes[c].open /\ codes[c].purpose = "registration" /\ codes[c].email = e

Closes(r) ==
    LET q == call[r] IN
    /\ q.closes \subseteq Codes
    /\ q.op = "forgot" => OpenResets(q.user) \subseteq q.closes
    /\ \A c \in q.closes : codes[c].purpose = "reset" /\ codes[c].user = q.user

CodeRequestStands(r) ==
    LET q == call[r] IN
    /\ pc[r] = "password" => q.code = None \/ q.code \in OpenResets(q.user)
    /\ pc[r] \in {"mail", "commit"} => Closes(r)
    /\ pc[r] = "commit" => q.code \in 1 .. drawn /\ codes[q.code] = NoCode

CodeInv ==
    /\ CodeTypes
    /\ \A c \in Codes : CodeStands(c)
    /\ \A e \in Emails : RegistrationStands(e)
    /\ \A u \in Users : \A c, d \in OpenResets(u) : c = d
    /\ \A r \in Requests : CodeRequestStands(r)
    /\ \A r, s \in Requests :
           pc[r] = "commit" /\ pc[s] = "commit" /\ call[r].code = call[s].code => r = s

(* Letters: a pending one is of the newest code of its kind, and a request *)
(* cancels all the pending ones of the kind of its own.                    *)
LetterTypes ==
    /\ letters \in [Codes -> {"none", "pending", "sent", "failed", "cancelled", "expired"}]
    /\ sends \in [Codes -> 0 .. MaxSends]
    /\ mailed \in [Emails -> Codes \cup {None}]
    /\ batch \subseteq Codes /\ late \subseteq batch /\ cur \in Codes \cup {None}

NoneAfter(c, e, p) ==
    \A d \in Codes : d > c => ~(codes[d].email = e /\ codes[d].purpose = p)

LetterStands(c) ==
    /\ letters[c] = "pending" =>
           sends[c] < MaxSends /\ NoneAfter(c, codes[c].email, codes[c].purpose)
    /\ c > drawn => letters[c] = "none" /\ sends[c] = 0

Cancels(r) ==
    LET q == call[r] IN
    /\ q.cancels \subseteq Codes /\ cur \notin q.cancels /\ q.sent \in BOOLEAN
    /\ \A c \in q.cancels : codes[c].purpose # "none"
    /\ letters[q.code] = "none" /\ sends[q.code] = 0
    /\ PendingFor(q.email, Purpose(q.op)) \subseteq q.cancels
    /\ NoneAfter(q.code, q.email, Purpose(q.op))

LetterInv ==
    /\ LetterTypes
    /\ \A c \in Codes : LetterStands(c)
    /\ cur # None => letters[cur] = "pending"
    /\ \A r \in Requests : pc[r] = "commit" => Cancels(r)
    /\ \A r, s \in Requests :
           pc[r] = "commit" /\ pc[s] = "commit" /\ call[r].op = "register"
               /\ call[s].op = "register" /\ call[r].email = call[s].email => r = s

(* Counters: the requests that were let through leave room for themselves. *)
Wrong == {r \in Requests : pc[r] = "wrong"}
Askers == {r \in Requests : \/ pc[r] \in {"forgot", "asked"}
                            \/ pc[r] \in {"mail", "commit"} /\ call[r].op = "forgot"}

CountInv ==
    /\ failures \in Nat /\ asked \in Nat /\ faults \in 0 .. MaxFaults
    /\ failures + Cardinality(Wrong) < LoginLimit + Cardinality(Requests)
    /\ asked + Cardinality(Askers) < AskLimit + Cardinality(Requests)

IInv ==
    /\ menu \in Menus
    /\ UserInv /\ LockInv /\ TokenInv /\ FileInv /\ CodeInv /\ LetterInv /\ CountInv
-----------------------------------------------------------------------------
(* Facts about sets. *)

LEMMA Least ==
    ASSUME NEW S, S \subseteq Nat, S # {}
    PROVE  Free(S) \in S
<1> DEFINE R == StrictSubsetOrdering(Nat)
           T == {1 .. c : c \in S}
<1>1. PICK A \in T : \A B \in T : <<B, A>> \notin R
  <2>1. IsWellFoundedOn(R, FiniteSubsetsOf(Nat)) BY FS_StrictSubsetOrderingWellFounded
  <2>2. T \subseteq FiniteSubsetsOf(Nat)
    <3>1. \A c \in S : IsFiniteSet(1 .. c) BY FS_Interval
    <3>2. \A c \in S : 1 .. c \in SUBSET Nat OBVIOUS
    <3> QED BY <3>1, <3>2 DEF FiniteSubsetsOf
  <2>3. T # {} OBVIOUS
  <2> HIDE DEF R, T
  <2> QED BY <2>1, <2>2, <2>3, WFMin
<1>2. PICK c \in S : A = 1 .. c OBVIOUS
<1>3. ASSUME NEW d \in S, d < c PROVE FALSE
  <2>1. 1 .. d \in T /\ 1 .. d \subseteq A /\ c \in A /\ c \notin 1 .. d
    BY <1>2, <1>3
  <2>2. <<1 .. d, A>> \in R BY <2>1, <1>2 DEF StrictSubsetOrdering
  <2> QED BY <1>1, <2>1, <2>2
<1>4. \E m \in S : \A d \in S : m <= d BY <1>3
<1> QED BY <1>4 DEF Free

LEMMA Handlers ==
    ASSUME NEW S, S \subseteq Requests
    PROVE  /\ IsFiniteSet(S) /\ Cardinality(S) \in Nat
           /\ Cardinality(S) <= Cardinality(Requests)
           /\ \A T \in SUBSET S : Cardinality(T) <= Cardinality(S)
           /\ \A r \in S : Cardinality(S \ {r}) = Cardinality(S) - 1
<1>1. IsFiniteSet(S) /\ Cardinality(S) \in Nat /\ Cardinality(S) <= Cardinality(Requests)
  BY FS_Subset, FS_CardinalityType
<1>2. \A T \in SUBSET S : Cardinality(T) <= Cardinality(S) BY <1>1, FS_Subset
<1>3. \A r \in S : Cardinality(S \ {r}) = Cardinality(S) - 1
  BY <1>1, FS_RemoveElement
<1> QED BY <1>1, <1>2, <1>3

LEMMA AtMostOne ==
    ASSUME NEW S, \A c, d \in S : c = d
    PROVE  Cardinality(S) <= 1
<1>1. CASE S = {} BY <1>1, FS_EmptySet
<1>2. ASSUME NEW c \in S PROVE Cardinality(S) <= 1
  <2>1. S = {c} BY <1>2
  <2>2. Cardinality({c}) = 1 BY FS_Singleton
  <2>3. Cardinality(S) = 1 BY <2>1, <2>2
  <2> QED BY <2>3
<1>3. S = {} \/ \E c \in S : TRUE OBVIOUS
<1> QED BY <1>1, <1>2, <1>3

-----------------------------------------------------------------------------
(* What is left alone. *)

Kept(S) == \A r \in Requests : (pc'[r] = pc[r] /\ call'[r] = call[r]) \/ pc'[r] \notin S
StepTypes == pc \in [Requests -> Steps] /\ DOMAIN call = Requests

LEMMA UserKept ==
    ASSUME UserInv, UNCHANGED <<userVars, reserved>> PROVE UserInv'
BY DEF UserInv, UserTypes, UserStands, userVars

LEMMA LockKept ==
    ASSUME LockInv, StepTypes', Kept(Holding \cup {"forgot"}),
           \A r \in Requests, u \in Users : pc'[r] \in Holding /\ call'[r].user = u =>
               UNCHANGED <<status[u], email[u], password[u]>>
    PROVE  LockInv'
<1>1. ASSUME NEW r \in Requests PROVE HolderStands(r)'
  <2>0. HolderStands(r) BY DEF LockInv
  <2>1. CASE pc'[r] \notin Holding \cup {"forgot"}
    BY <2>1 DEF HolderStands, Holding
  <2>2. CASE pc'[r] = "forgot" /\ pc[r] = "forgot" /\ call'[r] = call[r]
    BY <2>0, <2>2 DEF HolderStands
  <2>3. CASE pc'[r] \in Holding /\ pc'[r] = pc[r] /\ call'[r] = call[r]
    <3>1. \A u \in Users : u = call[r].user =>
              UNCHANGED <<status[u], email[u], password[u]>>
      BY <2>3
    <3>2. CodeHolderStands(r) => CodeHolderStands(r)'
      BY <2>3, <3>1 DEF CodeHolderStands
    <3> QED BY <2>0, <2>3, <3>1, <3>2 DEF HolderStands
  <2> QED BY <2>1, <2>2, <2>3 DEF Kept
<1>2. ASSUME NEW r \in Requests, NEW s \in Requests,
             pc'[r] \in Holding, pc'[s] \in Holding, call'[r].user = call'[s].user
      PROVE  r = s \/ call'[r].user = None
  BY <1>2 DEF LockInv, Kept
<1> QED BY <1>1, <1>2 DEF LockInv, StepTypes

Ages ==
    \A u \in Users :
        /\ version[u] \in Nat /\ version'[u] \in Nat /\ version[u] <= version'[u]
        /\ version'[u] = version[u] /\ status[u] = "active" => status'[u] = "active"

LEMMA KnownAged ==
    ASSUME NEW u \in Users, NEW v, NEW p, Ages, Known(u, v, p)
    PROVE  Known(u, v, p)'
BY DEF Ages, Known

LEMMA AgesAlone ==
    ASSUME UserInv, UNCHANGED userVars PROVE Ages
BY DEF UserInv, UserTypes, Ages, userVars

LEMMA TokenStandsKept ==
    ASSUME TokenInv, Ages, UNCHANGED tokens, NEW t \in Tokens PROVE TokenStands(t)'
<1>1. TokenStands(t) /\ tokens[t] \in Token BY DEF TokenInv
<1>2. tokens[t].user # None => tokens[t].user \in Users BY <1>1 DEF Token
<1>3. tokens[t].user # None =>
          Known(tokens[t].user, tokens[t].version, tokens[t].password)'
  BY <1>1, <1>2, KnownAged DEF TokenStands
<1> QED BY <1>1, <1>3 DEF TokenStands

LEMMA TokenRequestKept ==
    ASSUME TokenInv, Ages, NEW r \in Requests, pc'[r] = pc[r], call'[r] = call[r],
           \A t \in Tokens : tokens'[t].valid = tokens[t].valid
    PROVE  TokenRequestStands(r)'
<1>1. TokenRequestStands(r) BY DEF TokenInv
<1>2. pc[r] = "issue" => call[r].user \in Users
          /\ Known(call[r].user, call[r].version, call[r].password)'
  BY <1>1, KnownAged DEF TokenRequestStands
<1> QED BY <1>1, <1>2 DEF TokenRequestStands

LEMMA TokenKept ==
    ASSUME TokenInv, Ages, Kept({"issue", "token"}), UNCHANGED tokens
    PROVE  TokenInv'
<1>1. \A t \in Tokens : TokenStands(t)' BY TokenStandsKept
<1>2. ASSUME NEW r \in Requests PROVE TokenRequestStands(r)'
  <2>1. CASE pc'[r] = pc[r] /\ call'[r] = call[r] BY <2>1, TokenRequestKept
  <2>2. CASE pc'[r] \notin {"issue", "token"} BY <2>2 DEF TokenRequestStands
  <2> QED BY <2>1, <2>2 DEF Kept
<1>3. OneTokenPerSession' BY DEF TokenInv, OneTokenPerSession
<1>4. \A r, s \in Requests :
          pc'[r] = "token" /\ pc'[s] = "token" /\ call'[r].token = call'[s].token => r = s
  BY DEF TokenInv, Kept
<1> QED BY <1>1, <1>2, <1>3, <1>4 DEF TokenInv

LEMMA FileKept ==
    ASSUME FileInv, Kept({"upload", "clean"}), UNCHANGED avatarVars
    PROVE  FileInv'
<1> USE DEF avatarVars
<1>1. ASSUME NEW r \in Requests
      PROVE  (pc'[r] = "upload" => Uploads(r)') /\ (pc'[r] = "clean" => Cleans(r)')
  <2>1. /\ pc[r] = "upload" => Uploads(r)
        /\ pc[r] = "clean" => Cleans(r)
    BY DEF FileInv
  <2>2. pc'[r] = "upload" => Uploads(r)' BY <2>1 DEF Kept, Uploads
  <2>3. pc'[r] = "clean" => Cleans(r)' BY <2>1 DEF Kept, Cleans
  <2> QED BY <2>2, <2>3
<1>2. AvatarExists' BY DEF FileInv, AvatarExists
<1>3. \A r, s \in Requests :
          pc'[r] = "upload" /\ pc'[s] = "upload" /\ call'[r].new = call'[s].new => r = s
  BY DEF FileInv, Kept
<1> QED BY <1>1, <1>2, <1>3 DEF FileInv

LEMMA CodeKept ==
    ASSUME CodeInv, Kept({"password", "mail", "commit"}), UNCHANGED codeVars
    PROVE  CodeInv'
<1> USE DEF codeVars
<1>1. \A u : OpenResets(u)' = OpenResets(u) BY DEF OpenResets
<1>2. ASSUME NEW r \in Requests PROVE CodeRequestStands(r)'
  <2>1. CodeRequestStands(r) BY DEF CodeInv
  <2>2. CASE pc'[r] = pc[r] /\ call'[r] = call[r]
    BY <1>1, <2>1, <2>2 DEF CodeRequestStands, Closes, OpenResets
  <2>3. CASE pc'[r] \notin {"password", "mail", "commit"}
    BY <2>3 DEF CodeRequestStands
  <2> QED BY <2>2, <2>3 DEF Kept
<1>3. CodeTypes' /\ (\A c \in Codes : CodeStands(c)') /\ (\A e \in Emails : RegistrationStands(e)')
  BY DEF CodeInv, CodeTypes, CodeStands, RegistrationStands
<1>4. \A u \in Users : \A c, d \in OpenResets(u)' : c = d BY <1>1 DEF CodeInv
<1>5. \A r, s \in Requests :
          pc'[r] = "commit" /\ pc'[s] = "commit" /\ call'[r].code = call'[s].code => r = s
  BY DEF CodeInv, Kept
<1> QED BY <1>2, <1>3, <1>4, <1>5 DEF CodeInv

Labels ==
    \A c \in Codes : UNCHANGED <<codes[c].email, codes[c].purpose>>

LEMMA LetterKept ==
    ASSUME LetterInv, Kept({"commit"}), Labels,
           UNCHANGED <<letterVars, mailed, workerVars, drawn>>
    PROVE  LetterInv'
<1> USE DEF letterVars, workerVars
<1>1. LetterTypes' BY DEF LetterInv, LetterTypes
<1>2. \A c \in Codes : LetterStands(c)' BY DEF LetterInv, LetterStands, NoneAfter, Labels
<1>3. ASSUME NEW r \in Requests, pc'[r] = "commit" PROVE Cancels(r)'
  <2>1. pc[r] = "commit" /\ call'[r] = call[r] /\ Cancels(r)
    BY <1>3 DEF Kept, LetterInv
  <2>2. PendingFor(call[r].email, Purpose(call[r].op))'
            = PendingFor(call[r].email, Purpose(call[r].op))
    BY <2>1 DEF PendingFor, Labels, Purpose
  <2>3. NoneAfter(call[r].code, call[r].email, Purpose(call[r].op))'
    BY <2>1 DEF Cancels, NoneAfter, Labels, Purpose
  <2>4. \A c \in call[r].cancels : c \in Codes /\ codes'[c].purpose # "none"
    BY <2>1 DEF Cancels, Labels
  <2> QED BY <2>1, <2>2, <2>3, <2>4 DEF Cancels
<1>4. \A r, s \in Requests :
          pc'[r] = "commit" /\ pc'[s] = "commit" /\ call'[r].op = "register"
              /\ call'[s].op = "register" /\ call'[r].email = call'[s].email => r = s
  BY DEF LetterInv, Kept
<1> QED BY <1>1, <1>2, <1>3, <1>4 DEF LetterInv

LEMMA CountKept ==
    ASSUME CountInv, UNCHANGED counterVars, faults' \in 0 .. MaxFaults,
           Wrong' \subseteq Wrong, Askers' \subseteq Askers
    PROVE  CountInv'
<1>1. Wrong \subseteq Requests /\ Askers \subseteq Requests BY DEF Wrong, Askers
<1>2. /\ Cardinality(Wrong') \in Nat /\ Cardinality(Wrong') <= Cardinality(Wrong)
      /\ Cardinality(Askers') \in Nat /\ Cardinality(Askers') <= Cardinality(Askers)
      /\ Cardinality(Wrong) \in Nat /\ Cardinality(Askers) \in Nat
      /\ Cardinality(Requests) \in Nat
  BY <1>1, Handlers
<1> QED BY <1>2 DEF CountInv, counterVars

LEMMA Moves ==
    ASSUME LockInv, NEW r \in Requests, NEW step \in Steps, NEW c, Go(r, step, c)
    PROVE  /\ StepTypes' /\ pc'[r] = step /\ call'[r] = c
           /\ \A s \in Requests : s # r => pc'[s] = pc[s] /\ call'[s] = call[s]
           /\ \A S : step \notin S => Kept(S)
BY DEF LockInv, Go, StepTypes, Kept

(* A step of a request leaves alone what is not about its new place.       *)
LEMMA MoveStep ==
    ASSUME IInv, NEW r \in Requests, NEW step \in Steps, NEW c, Go(r, step, c)
    PROVE  /\ UNCHANGED <<userVars, reserved>> => UserInv'
           /\ step \notin Holding \cup {"forgot"} /\ UNCHANGED userVars => LockInv'
           /\ step \notin {"issue", "token"} /\ UNCHANGED <<userVars, tokens>> => TokenInv'
           /\ step \notin {"upload", "clean"} /\ UNCHANGED avatarVars => FileInv'
           /\ step \notin {"password", "mail", "commit"} /\ UNCHANGED codeVars => CodeInv'
           /\ step # "commit" /\ UNCHANGED <<letterVars, mailed, workerVars, codeVars>>
                  => LetterInv'
           /\ /\ step \notin {"wrong", "forgot", "asked", "mail", "commit"}
              /\ UNCHANGED counterVars /\ faults' \in 0 .. MaxFaults
              => CountInv'
<1>0. UserInv /\ LockInv /\ TokenInv /\ FileInv /\ CodeInv /\ LetterInv /\ CountInv
  BY DEF IInv
<1>1. StepTypes' /\ (\A S : step \notin S => Kept(S)) BY <1>0, Moves
<1>2. UNCHANGED <<userVars, reserved>> => UserInv' BY <1>0, UserKept
<1>3. ASSUME step \notin Holding \cup {"forgot"}, UNCHANGED userVars PROVE LockInv'
  BY <1>0, <1>1, <1>3, LockKept DEF userVars
<1>4. ASSUME step \notin {"issue", "token"}, UNCHANGED <<userVars, tokens>> PROVE TokenInv'
  <2>1. Ages BY <1>0, <1>4, AgesAlone
  <2> QED BY <1>0, <1>1, <1>4, <2>1, TokenKept
<1>5. ASSUME step \notin {"upload", "clean"}, UNCHANGED avatarVars PROVE FileInv'
  BY <1>0, <1>1, <1>5, FileKept
<1>6. ASSUME step \notin {"password", "mail", "commit"}, UNCHANGED codeVars PROVE CodeInv'
  BY <1>0, <1>1, <1>6, CodeKept
<1>7. ASSUME step # "commit", UNCHANGED <<letterVars, mailed, workerVars, codeVars>>
      PROVE  LetterInv'
  <2>1. Labels /\ UNCHANGED drawn BY <1>7 DEF Labels, codeVars
  <2>2. Kept({"commit"}) BY <1>1, <1>7
  <2> QED BY <1>0, <1>7, <2>1, <2>2, LetterKept
<1>8. ASSUME step \notin {"wrong", "forgot", "asked", "mail", "commit"},
             UNCHANGED counterVars, faults' \in 0 .. MaxFaults
      PROVE  CountInv'
  <2>1. Wrong' \subseteq Wrong /\ Askers' \subseteq Askers
    BY <1>0, <1>8, Moves DEF Wrong, Askers
  <2> QED BY <1>0, <1>8, <2>1, CountKept
<1> QED BY <1>2, <1>3, <1>4, <1>5, <1>6, <1>7, <1>8

(* So does a step that moves no request. *)
LEMMA StillStep ==
    ASSUME IInv, UNCHANGED requestVars
    PROVE  /\ UNCHANGED <<userVars, reserved>> => UserInv'
           /\ UNCHANGED userVars => LockInv'
           /\ UNCHANGED <<userVars, tokens>> => TokenInv'
           /\ UNCHANGED avatarVars => FileInv'
           /\ UNCHANGED codeVars => CodeInv'
           /\ Labels /\ UNCHANGED <<letterVars, mailed, workerVars, drawn>> => LetterInv'
           /\ UNCHANGED counterVars /\ faults' \in 0 .. MaxFaults => CountInv'
<1>0. UserInv /\ LockInv /\ TokenInv /\ FileInv /\ CodeInv /\ LetterInv /\ CountInv
  BY DEF IInv
<1>1. StepTypes' /\ (\A S : Kept(S)) BY <1>0 DEF LockInv, StepTypes, Kept, requestVars
<1>2. UNCHANGED <<userVars, reserved>> => UserInv' BY <1>0, UserKept
<1>3. UNCHANGED userVars => LockInv' BY <1>0, <1>1, LockKept DEF userVars
<1>4. ASSUME UNCHANGED <<userVars, tokens>> PROVE TokenInv'
  <2>1. Ages BY <1>0, <1>4, AgesAlone
  <2> QED BY <1>0, <1>1, <1>4, <2>1, TokenKept
<1>5. UNCHANGED avatarVars => FileInv' BY <1>0, <1>1, FileKept
<1>6. UNCHANGED codeVars => CodeInv' BY <1>0, <1>1, CodeKept
<1>7. Labels /\ UNCHANGED <<letterVars, mailed, workerVars, drawn>> => LetterInv'
  BY <1>0, <1>1, LetterKept
<1>8. UNCHANGED counterVars /\ faults' \in 0 .. MaxFaults => CountInv'
  <2>1. Wrong' = Wrong /\ Askers' = Askers BY DEF Wrong, Askers, requestVars
  <2> QED BY <1>0, <2>1, CountKept
<1> QED BY <1>2, <1>3, <1>4, <1>5, <1>6, <1>7, <1>8

(* A request takes a user whom nobody else holds. *)
LEMMA LockTaken ==
    ASSUME LockInv, NEW r \in Requests, NEW step \in Holding, NEW c, Go(r, step, c),
           \A s \in Requests : s # r /\ pc[s] \in Holding =>
               call[s].user # c.user \/ c.user = None,
           UNCHANGED userVars, HolderStands(r)'
    PROVE  LockInv'
<1>1. step \in Steps BY DEF Steps, Holding
<1>2. /\ StepTypes' /\ pc'[r] = step /\ call'[r] = c
      /\ \A s \in Requests : s # r => pc'[s] = pc[s] /\ call'[s] = call[s]
  BY <1>1, Moves
<1>3. ASSUME NEW s \in Requests, s # r PROVE HolderStands(s)'
  BY <1>2, <1>3 DEF LockInv, HolderStands, CodeHolderStands, userVars
<1>4. ASSUME NEW s \in Requests, NEW q \in Requests, pc'[s] \in Holding, pc'[q] \in Holding,
             call'[s].user = call'[q].user
      PROVE  s = q \/ call'[s].user = None
  BY <1>2, <1>4 DEF LockInv
<1> QED BY <1>2, <1>3, <1>4 DEF LockInv, StepTypes
-----------------------------------------------------------------------------
(* Init. *)

LEMMA InitInv == Init => IInv
<1> SUFFICES ASSUME Init PROVE IInv OBVIOUS
<1>0. /\ menu \in Menus /\ failures = 0 /\ asked = 0 /\ faults = 0
      /\ pc = [r \in Requests |-> "idle"] /\ call = [r \in Requests |-> None]
      /\ drawn = 0 /\ saved = 0 /\ files = {} /\ reserved = {} /\ doomed = {}
      /\ batch = {} /\ late = {} /\ cur = None
      /\ password = [u \in Users |-> 0] /\ version = [u \in Users |-> 0]
      /\ avatar = [u \in Users |-> None]
      /\ tokens = [t \in Tokens |-> NoToken] /\ codes = [c \in Codes |-> NoCode]
      /\ registration = [e \in Emails |-> None] /\ mailed = [e \in Emails |-> None]
      /\ letters = [c \in Codes |-> "none"] /\ sends = [c \in Codes |-> 0]
  BY DEF Init
<1>1. UserInv
  <2>1. PICK u \in Users, e \in [Users -> Emails] :
            /\ \A v, w \in Users : e[v] = e[w] => v = w
            /\ status \in {[v \in Users |-> IF v = u THEN "active" ELSE s] :
                               s \in {"none", "active"}}
            /\ email = [v \in Users |-> IF status[v] = "none" THEN None ELSE e[v]]
    BY DEF Init
  <2>2. PICK s \in {"none", "active"} :
            status = [v \in Users |-> IF v = u THEN "active" ELSE s]
    BY <2>1
  <2>3. \A v \in Users : /\ status[v] \in {"none", "active"}
                         /\ email[v] = IF status[v] = "none" THEN None ELSE e[v]
    BY <2>1, <2>2
  <2>4. UserTypes BY <1>0, <2>1, <2>2, <2>3 DEF UserTypes, Passwords
  <2>5. \A v \in Users : UserStands(v) BY <1>0, <2>3 DEF UserStands
  <2>6. \A v, w \in Users : email[v] = email[w] /\ email[v] # None => v = w
    BY <2>1, <2>3
  <2> QED BY <2>4, <2>5, <2>6 DEF UserInv
<1>2. LockInv BY <1>0 DEF LockInv, Steps, HolderStands, Holding
<1>3. TokenInv
  <2>1. /\ tokens \in [Tokens -> Token]
        /\ \A t \in Tokens : tokens[t].user = None /\ ~tokens[t].valid
    BY <1>0 DEF NoToken, Token
  <2>2. OneTokenPerSession BY <2>1 DEF OneTokenPerSession
  <2>3. \A r \in Requests : TokenRequestStands(r) BY <1>0 DEF TokenRequestStands
  <2> QED BY <1>0, <2>1, <2>2, <2>3 DEF TokenInv, TokenStands
<1>4. FileInv BY <1>0 DEF FileInv, AvatarExists
<1>5. CodeInv
  <2>1. CodeTypes BY <1>0 DEF CodeTypes, Code_, NoCode
  <2>2. \A c \in Codes : CodeStands(c) BY <1>0 DEF CodeStands, NoCode
  <2>3. \A u : OpenResets(u) = {} BY <1>0 DEF OpenResets, NoCode
  <2> QED BY <1>0, <2>1, <2>2, <2>3 DEF CodeInv, RegistrationStands, CodeRequestStands
<1>6. LetterInv BY <1>0 DEF LetterInv, LetterTypes, LetterStands
<1>7. CountInv
  <2>1. Wrong = {} /\ Askers = {} BY <1>0 DEF Wrong, Askers
  <2>2. Cardinality({}) = 0 /\ Cardinality(Requests) \in Nat
    BY FS_EmptySet, FS_CardinalityType
  <2> QED BY <1>0, <2>1, <2>2 DEF CountInv
<1> QED BY <1>0, <1>1, <1>2, <1>3, <1>4, <1>5, <1>6, <1>7 DEF IInv

-----------------------------------------------------------------------------
(* Sessions. *)

LEMMA LoginStep ==
    ASSUME IInv, NEW r \in Requests, NEW e \in Emails, NEW p \in Passwords, Login(r, e, p)
    PROVE  IInv'
<1>0. UserInv /\ LockInv /\ TokenInv /\ CountInv BY DEF IInv
<1>1. /\ pc[r] = "idle" /\ failures < LoginLimit
      /\ UNCHANGED <<menu, userVars, reserved, avatarVars, tokens, codeVars, letterVars,
                     mailed, counterVars, workerVars, faults>>
  BY <1>0 DEF Login, Begin, LoginBlocked, CountInv
<1>2. PICK u \in ActiveUser(e) :
          IF password[u] = p
          THEN Go(r, "issue", [user |-> u, version |-> version[u], password |-> p])
          ELSE Go(r, "wrong", None)
  BY DEF Login
<1>3. u \in Users /\ status[u] = "active" /\ UserStands(u) /\ version[u] \in Nat
  BY <1>0 DEF ActiveUser, UserInv, UserTypes
<1>4. faults' \in 0 .. MaxFaults /\ menu' \in Menus BY <1>0, <1>1 DEF CountInv, IInv
<1>5. "issue" \in Steps /\ "wrong" \in Steps BY DEF Steps
<1>6. CASE password[u] = p
  <2> DEFINE q == [user |-> u, version |-> version[u], password |-> p]
  <2>1. Go(r, "issue", q) BY <1>2, <1>6
  <2>2. Known(u, version[u], p) BY <1>3, <1>6 DEF Known, UserStands
  <2>3. q.user = u /\ q.version = version[u] /\ q.password = p OBVIOUS
  <2> HIDE DEF q
  <2>4. /\ pc'[r] = "issue" /\ call'[r] = q
        /\ \A s \in Requests : s # r => pc'[s] = pc[s] /\ call'[s] = call[s]
    BY <1>0, <1>5, <2>1, Moves
  <2>5. TokenRequestStands(r)'
    BY <1>1, <1>3, <2>2, <2>3, <2>4 DEF TokenRequestStands, Known, userVars
  <2>6. TokenInv'
    <3>1. Ages BY <1>0, <1>1, AgesAlone
    <3>2. \A t \in Tokens : TokenStands(t)' BY <1>0, <1>1, <3>1, TokenStandsKept
    <3>3. \A s \in Requests : s # r => TokenRequestStands(s)'
      BY <1>0, <1>1, <2>4, <3>1, TokenRequestKept
    <3>4. OneTokenPerSession' BY <1>0, <1>1 DEF TokenInv, OneTokenPerSession
    <3>5. \A s, v \in Requests :
              pc'[s] = "token" /\ pc'[v] = "token" /\ call'[s].token = call'[v].token
                  => s = v
      BY <1>0, <2>4 DEF TokenInv
    <3> QED BY <1>0, <1>1, <2>5, <3>2, <3>3, <3>4, <3>5 DEF TokenInv
  <2> QED BY <1>1, <1>4, <1>5, <2>1, <2>6, MoveStep DEF IInv, Holding
<1>7. CASE password[u] # p
  <2>1. Go(r, "wrong", None) BY <1>2, <1>7
  <2>2. CountInv'
    <3>1. Askers' \subseteq Askers /\ Wrong' \subseteq Requests /\ Askers \subseteq Requests
      BY <1>0, <1>5, <2>1, Moves DEF Askers, Wrong
    <3>2. /\ Cardinality(Wrong') \in Nat /\ Cardinality(Wrong') <= Cardinality(Requests)
          /\ Cardinality(Askers') \in Nat /\ Cardinality(Askers') <= Cardinality(Askers)
          /\ Cardinality(Askers) \in Nat /\ Cardinality(Requests) \in Nat
      BY <3>1, Handlers
    <3>3. failures' = failures /\ asked' = asked BY <1>1 DEF counterVars
    <3> QED BY <1>0, <1>1, <1>4, <3>2, <3>3 DEF CountInv
  <2> QED BY <1>1, <1>4, <1>5, <2>1, <2>2, MoveStep DEF IInv, Holding
<1> QED BY <1>6, <1>7
LEMMA RecordFailedLoginStep ==
    ASSUME IInv, NEW r \in Requests, RecordFailedLogin(r) PROVE IInv'
<1>0. LockInv /\ CountInv BY DEF IInv
<1>1. /\ pc[r] = "wrong" /\ failures' = failures + 1 /\ Go(r, "idle", None)
      /\ UNCHANGED <<menu, userVars, reserved, avatarVars, tokens, codeVars, letterVars,
                     mailed, asked, workerVars, faults>>
  BY DEF RecordFailedLogin, End
<1>2. "idle" \in Steps BY DEF Steps
<1>3. CountInv'
  <2>1. /\ Wrong' = Wrong \ {r} /\ r \in Wrong /\ Askers' \subseteq Askers
        /\ Wrong \subseteq Requests /\ Askers \subseteq Requests
    BY <1>0, <1>1, <1>2, Moves DEF Wrong, Askers
  <2>2. /\ Cardinality(Wrong) \in Nat /\ Cardinality(Wrong') = Cardinality(Wrong) - 1
        /\ Cardinality(Wrong') \in Nat /\ Cardinality(Requests) \in Nat
        /\ Cardinality(Askers') \in Nat /\ Cardinality(Askers') <= Cardinality(Askers)
        /\ Cardinality(Askers) \in Nat
    BY <2>1, Handlers
  <2> QED BY <1>0, <1>1, <2>2 DEF CountInv
<1> QED BY <1>1, <1>2, <1>3, MoveStep DEF IInv, Holding

LEMMA RecordRequestStep ==
    ASSUME IInv, NEW r \in Requests, RecordRequest(r) PROVE IInv'
<1>0. LockInv /\ CountInv BY DEF IInv
<1>1. /\ pc[r] = "asked" /\ asked' = asked + 1 /\ Go(r, "idle", None)
      /\ UNCHANGED <<menu, userVars, reserved, avatarVars, tokens, codeVars, letterVars,
                     mailed, failures, workerVars, faults>>
  BY DEF RecordRequest, End
<1>2. "idle" \in Steps BY DEF Steps
<1>3. CountInv'
  <2>1. /\ Askers' = Askers \ {r} /\ r \in Askers /\ Wrong' \subseteq Wrong
        /\ Wrong \subseteq Requests /\ Askers \subseteq Requests
    BY <1>0, <1>1, <1>2, Moves DEF Wrong, Askers
  <2>2. /\ Cardinality(Askers) \in Nat /\ Cardinality(Askers') = Cardinality(Askers) - 1
        /\ Cardinality(Askers') \in Nat /\ Cardinality(Requests) \in Nat
        /\ Cardinality(Wrong') \in Nat /\ Cardinality(Wrong') <= Cardinality(Wrong)
        /\ Cardinality(Wrong) \in Nat
    BY <2>1, Handlers
  <2> QED BY <1>0, <1>1, <2>2 DEF CountInv
<1> QED BY <1>1, <1>2, <1>3, MoveStep DEF IInv, Holding

LEMMA ForgetCountsStep == ASSUME IInv, ForgetCounts PROVE IInv'
<1>0. CountInv BY DEF IInv
<1>1. UNCHANGED <<menu, userVars, reserved, avatarVars, tokens, codeVars, letterVars,
                  mailed, requestVars, workerVars, faults>>
  BY DEF ForgetCounts
<1>2. CountInv'
  <2>1. /\ failures' \in Nat /\ failures' <= failures
        /\ asked' \in Nat /\ asked' <= asked
    BY <1>0 DEF ForgetCounts, CountInv
  <2>2. Wrong' = Wrong /\ Askers' = Askers BY <1>1 DEF Wrong, Askers, requestVars
  <2>3. /\ Cardinality(Wrong) \in Nat /\ Cardinality(Askers) \in Nat
        /\ Cardinality(Requests) \in Nat
    BY Handlers DEF Wrong, Askers
  <2> QED BY <1>0, <1>1, <2>1, <2>2, <2>3 DEF CountInv
<1>3. Labels BY <1>1 DEF Labels, codeVars
<1> QED BY <1>1, <1>2, <1>3, StillStep DEF IInv, codeVars

(* A new token of a session that is not open, or of the one whose token it *)
(* takes the place of.                                                     *)
LEMMA NewToken ==
    ASSUME TokenInv, Ages, Kept({"issue", "token"}),
           NEW t \in Unissued, NEW k \in Token,
           k.valid, k.user # None, Known(k.user, k.version, k.password)',
           k.session = t,
           tokens' = [tokens EXCEPT ![t] = k]
    PROVE  TokenInv'
<1>0. /\ t \in Tokens /\ tokens[t].user = None /\ tokens'[t] = k
      /\ \A s \in Tokens : s # t => tokens'[s] = tokens[s] /\ tokens[s] \in Token
      /\ tokens' \in [Tokens -> Token]
  BY DEF Unissued, TokenInv
<1>1. ASSUME NEW s \in Tokens PROVE TokenStands(s)'
  <2>1. CASE s = t BY <1>0, <2>1 DEF TokenStands
  <2>2. CASE s # t
    <3>1. TokenStands(s) /\ tokens'[s] = tokens[s] /\ tokens[s] \in Token
      BY <1>0, <2>2 DEF TokenInv
    <3>2. tokens[s].user # None =>
              /\ Known(tokens[s].user, tokens[s].version, tokens[s].password)'
              /\ tokens'[tokens[s].session].user # None
      BY <1>0, <3>1, KnownAged DEF TokenStands, Token
    <3> QED BY <3>1, <3>2 DEF TokenStands
  <2> QED BY <2>1, <2>2
<1>2. OneTokenPerSession'
  <2>1. \A s \in Tokens : s # t /\ tokens[s].valid => tokens[s].session # t
    BY <1>0 DEF TokenInv, TokenStands
  <2> QED BY <1>0, <2>1 DEF TokenInv, OneTokenPerSession
<1>3. ASSUME NEW r \in Requests PROVE TokenRequestStands(r)'
  <2>1. CASE pc'[r] = pc[r] /\ call'[r] = call[r]
    <3>1. TokenRequestStands(r) /\ ~tokens[t].valid
      BY <1>0 DEF TokenInv, TokenStands
    <3>2. pc[r] = "issue" => call[r].user \in Users
              /\ Known(call[r].user, call[r].version, call[r].password)'
      BY <2>1, <3>1, KnownAged DEF TokenRequestStands
    <3>3. pc[r] = "token" => call[r].token \in Tokens /\ tokens'[call[r].token].valid
      BY <1>0, <3>1 DEF TokenRequestStands
    <3> QED BY <2>1, <3>2, <3>3 DEF TokenRequestStands
  <2>2. CASE pc'[r] \notin {"issue", "token"} BY <2>2 DEF TokenRequestStands
  <2> QED BY <2>1, <2>2 DEF Kept
<1>4. \A r, s \in Requests :
          pc'[r] = "token" /\ pc'[s] = "token" /\ call'[r].token = call'[s].token => r = s
  BY DEF TokenInv, Kept
<1> QED BY <1>0, <1>1, <1>2, <1>3, <1>4 DEF TokenInv

LEMMA IssueTokensStep ==
    ASSUME IInv, NEW r \in Requests, IssueTokens(r) PROVE IInv'
<1>0. UserInv /\ LockInv /\ TokenInv /\ CountInv BY DEF IInv
<1> DEFINE q == call[r]
           t == Free(Unissued)
           k == [user |-> q.user, session |-> t, version |-> q.version,
                 password |-> q.password, valid |-> TRUE]
<1>1. /\ pc[r] = "issue" /\ Unissued # {} /\ tokens' = [tokens EXCEPT ![t] = k]
      /\ failures' = 0 /\ Go(r, "idle", None)
      /\ UNCHANGED <<menu, userVars, reserved, avatarVars, codeVars, letterVars,
                     mailed, asked, workerVars, faults>>
  BY DEF IssueTokens, VersionKnown, End
<1>2. "idle" \in Steps BY DEF Steps
<1>3. t \in Unissued /\ t \in Nat BY <1>1, Least DEF Unissued, Tokens
<1>4. q.user \in Users /\ Known(q.user, q.version, q.password)
  BY <1>0, <1>1 DEF TokenInv, TokenRequestStands
<1>5. k \in Token /\ k.valid /\ k.user # None /\ k.session = t
      /\ Known(k.user, k.version, k.password)
  BY <1>3, <1>4 DEF Token, Known
<1> HIDE DEF t, k
<1>6. TokenInv'
  <2>1. Ages BY <1>0, <1>1, AgesAlone
  <2>2. Kept({"issue", "token"}) BY <1>0, <1>1, <1>2, Moves
  <2>3. PICK j \in Token : j = k BY <1>5
  <2>4. Known(j.user, j.version, j.password)'
    BY <1>5, <1>1, <2>3 DEF Known, userVars
  <2> QED BY <1>0, <1>1, <1>3, <1>5, <2>1, <2>2, <2>3, <2>4, NewToken
<1>7. CountInv'
  <2>1. Wrong' \subseteq Requests /\ Askers' \subseteq Askers /\ Askers \subseteq Requests
    BY <1>0, <1>1, <1>2, Moves DEF Wrong, Askers
  <2>2. /\ Cardinality(Wrong') \in Nat /\ Cardinality(Wrong') <= Cardinality(Requests)
        /\ Cardinality(Askers') \in Nat /\ Cardinality(Askers') <= Cardinality(Askers)
        /\ Cardinality(Askers) \in Nat /\ Cardinality(Requests) \in Nat
    BY <2>1, Handlers
  <2> QED BY <1>0, <1>1, <2>2 DEF CountInv
<1> QED BY <1>1, <1>2, <1>6, <1>7, MoveStep DEF IInv, Holding
LEMMA LockTokenStep ==
    ASSUME IInv, NEW r \in Requests, NEW op \in {"refresh", "logout"}, NEW t \in Tokens,
           LockToken(r, op, t)
    PROVE  IInv'
<1>0. UserInv /\ LockInv /\ TokenInv /\ CountInv BY DEF IInv
<1> DEFINE q == [op |-> op, token |-> t]
<1>1. /\ tokens[t].valid /\ TokenFree(t) /\ Go(r, "token", q)
      /\ UNCHANGED <<menu, userVars, reserved, avatarVars, tokens, codeVars, letterVars,
                     mailed, counterVars, workerVars, faults>>
  BY DEF LockToken
<1>2. q.token = t OBVIOUS
<1> HIDE DEF q
<1>3. "token" \in Steps BY DEF Steps
<1>4. /\ pc'[r] = "token" /\ call'[r] = q
      /\ \A s \in Requests : s # r => pc'[s] = pc[s] /\ call'[s] = call[s]
  BY <1>0, <1>1, <1>3, Moves
<1>5. TokenInv'
  <2>1. Ages BY <1>0, <1>1, AgesAlone
  <2>2. \A s \in Tokens : TokenStands(s)' BY <1>0, <1>1, <2>1, TokenStandsKept
  <2>3. \A s \in Requests : s # r => TokenRequestStands(s)'
    BY <1>0, <1>1, <1>4, <2>1, TokenRequestKept
  <2>4. TokenRequestStands(r)' BY <1>1, <1>2, <1>4 DEF TokenRequestStands
  <2>5. OneTokenPerSession' BY <1>0, <1>1 DEF TokenInv, OneTokenPerSession
  <2>6. \A s, v \in Requests :
            pc'[s] = "token" /\ pc'[v] = "token" /\ call'[s].token = call'[v].token => s = v
    BY <1>0, <1>1, <1>2, <1>4 DEF TokenInv, TokenFree
  <2> QED BY <1>0, <1>1, <2>2, <2>3, <2>4, <2>5, <2>6 DEF TokenInv
<1>6. faults' \in 0 .. MaxFaults BY <1>0, <1>1 DEF CountInv
<1> QED BY <1>1, <1>3, <1>5, <1>6, MoveStep DEF IInv, Holding

(* Tokens that nobody has locked are closed. *)
LEMMA ClosedTokens ==
    ASSUME TokenInv, Ages, Kept({"issue", "token"}), NEW S \in SUBSET Tokens,
           tokens' = [t \in Tokens |-> IF t \in S THEN [tokens[t] EXCEPT !.valid = FALSE]
                                                  ELSE tokens[t]],
           \A r \in Requests : pc'[r] = "token" => call'[r].token \notin S
    PROVE  TokenInv'
<1>1. \A t \in Tokens :
          /\ tokens[t] \in Token /\ tokens'[t] \in Token
          /\ tokens'[t].valid => tokens[t].valid
          /\ t \notin S => tokens'[t].valid = tokens[t].valid
          /\ tokens'[t].user = tokens[t].user /\ tokens'[t].session = tokens[t].session
          /\ tokens'[t].version = tokens[t].version
          /\ tokens'[t].password = tokens[t].password
  BY DEF TokenInv, Token
<1>2. tokens' \in [Tokens -> Token] BY <1>1
<1>3. ASSUME NEW t \in Tokens PROVE TokenStands(t)'
  <2>1. TokenStands(t) BY DEF TokenInv
  <2>2. tokens[t].user # None =>
            Known(tokens[t].user, tokens[t].version, tokens[t].password)'
    <3>1. PICK u, v, p : u = tokens[t].user /\ v = tokens[t].version
                         /\ p = tokens[t].password
      OBVIOUS
    <3>2. u # None => u \in Users BY <1>1, <3>1 DEF Token
    <3>3. u # None => Known(u, v, p)' BY <2>1, <3>1, <3>2, KnownAged DEF TokenStands
    <3> QED BY <1>1, <3>1, <3>3 DEF Known
  <2>3. tokens'[t].user # None =>
            tokens'[t].session \in Tokens /\ tokens'[tokens'[t].session].user # None
    BY <1>1, <2>1 DEF TokenStands
  <2> QED BY <1>1, <2>1, <2>2, <2>3 DEF TokenStands
<1>4. OneTokenPerSession' BY <1>1 DEF TokenInv, OneTokenPerSession
<1>5. ASSUME NEW r \in Requests PROVE TokenRequestStands(r)'
  <2>1. CASE pc'[r] = pc[r] /\ call'[r] = call[r]
    <3>1. TokenRequestStands(r) BY DEF TokenInv
    <3>2. pc[r] = "issue" => call[r].user \in Users
              /\ Known(call[r].user, call[r].version, call[r].password)'
      BY <2>1, <3>1, KnownAged DEF TokenRequestStands
    <3>3. pc[r] = "token" => call[r].token \in Tokens /\ tokens'[call[r].token].valid
      BY <1>1, <2>1, <3>1 DEF TokenRequestStands
    <3> QED BY <2>1, <3>2, <3>3 DEF TokenRequestStands
  <2>2. CASE pc'[r] \notin {"issue", "token"} BY <2>2 DEF TokenRequestStands
  <2> QED BY <2>1, <2>2 DEF Kept
<1>6. \A r, s \in Requests :
          pc'[r] = "token" /\ pc'[s] = "token" /\ call'[r].token = call'[s].token => r = s
  BY DEF TokenInv, Kept
<1> QED BY <1>2, <1>3, <1>4, <1>5, <1>6 DEF TokenInv

(* The tokens of a user are closed when nobody has locked one of them.     *)
LEMMA RevokedTokens ==
    ASSUME TokenInv, Ages, Kept({"issue", "token"}), NEW u \in Users,
           TokensFree(u), RevokeTokens(u)
    PROVE  TokenInv'
<1>1. \A r \in Requests : pc'[r] = "token" => call'[r].token \notin TokensOf(u)
  BY DEF Kept, TokensFree, TokenFree
<1>2. PICK S \in SUBSET Tokens : S = TokensOf(u) BY DEF TokensOf
<1>3. tokens' = [t \in Tokens |-> IF t \in S THEN [tokens[t] EXCEPT !.valid = FALSE]
                                              ELSE tokens[t]]
  BY <1>2 DEF RevokeTokens
<1>4. \A r \in Requests : pc'[r] = "token" => call'[r].token \notin S BY <1>1, <1>2
<1> QED BY <1>3, <1>4, ClosedTokens

(* The token of a request is exchanged for a new one of the same session.  *)
LEMMA ExchangedToken ==
    ASSUME TokenInv, Ages, Kept({"issue", "token"}),
           NEW old \in Tokens, NEW new \in Unissued, tokens[old].valid,
           \A r \in Requests : pc'[r] = "token" => call'[r].token # old,
           tokens' = [tokens EXCEPT ![old].valid = FALSE,
                                    ![new] = [tokens[old] EXCEPT !.valid = TRUE]]
    PROVE  TokenInv'
<1>1. /\ new \in Tokens /\ new # old /\ ~tokens[new].valid /\ tokens[new].user = None
      /\ tokens[old] \in Token /\ tokens[old].user # None
  BY DEF Unissued, TokenInv, TokenStands
<1>2. /\ \A t \in Tokens : tokens[t] \in Token /\ tokens'[t] \in Token
      /\ \A t \in Tokens \ {old, new} : tokens'[t] = tokens[t]
      /\ tokens'[old] = [tokens[old] EXCEPT !.valid = FALSE]
      /\ tokens'[new] = [tokens[old] EXCEPT !.valid = TRUE]
      /\ tokens' \in [Tokens -> Token]
  BY <1>1 DEF TokenInv, Token
<1>3. \A t \in Tokens : tokens[t].user # None => tokens'[t].user # None
  BY <1>1, <1>2 DEF Token
<1>4. ASSUME NEW t \in Tokens PROVE TokenStands(t)'
  <2>1. PICK s \in Tokens : /\ s = (IF t = new THEN old ELSE t)
                            /\ tokens'[t].user = tokens[s].user
                            /\ tokens'[t].session = tokens[s].session
                            /\ tokens'[t].version = tokens[s].version
                            /\ tokens'[t].password = tokens[s].password
                            /\ tokens'[t].valid => tokens[s].valid
    BY <1>1, <1>2 DEF Token
  <2>2. TokenStands(s) /\ tokens[s] \in Token BY <1>2 DEF TokenInv
  <2>3. PICK u, v, p : u = tokens[s].user /\ v = tokens[s].version
                       /\ p = tokens[s].password
    OBVIOUS
  <2>4. u # None => u \in Users BY <2>2, <2>3 DEF Token
  <2>5. u # None => Known(u, v, p)' BY <2>2, <2>3, <2>4, KnownAged DEF TokenStands
  <2>6. tokens'[t].user # None =>
            Known(tokens[t].user, tokens[t].version, tokens[t].password)'
    BY <2>1, <2>3, <2>5 DEF Known
  <2>7. tokens'[t].user # None =>
            tokens'[t].session \in Tokens /\ tokens'[tokens'[t].session].user # None
    BY <1>3, <2>1, <2>2 DEF TokenStands
  <2>8. tokens'[t].valid => tokens'[t].user # None BY <2>1, <2>2 DEF TokenStands
  <2> QED BY <2>6, <2>7, <2>8 DEF TokenStands
<1>5. OneTokenPerSession'
  <2>1. /\ ~tokens'[old].valid /\ tokens'[new].session = tokens[old].session
    BY <1>1, <1>2 DEF Token
  <2>2. \A s \in Tokens : tokens[s].valid /\ tokens[s].session = tokens[old].session
            => s = old
    BY DEF TokenInv, OneTokenPerSession
  <2>3. \A s, t \in Tokens : tokens[s].valid /\ tokens[t].valid
            /\ tokens[s].session = tokens[t].session => s = t
    BY DEF TokenInv, OneTokenPerSession
  <2> QED BY <1>2, <2>1, <2>2, <2>3 DEF OneTokenPerSession
<1>6. ASSUME NEW r \in Requests PROVE TokenRequestStands(r)'
  <2>1. CASE pc'[r] = pc[r] /\ call'[r] = call[r]
    <3>1. TokenRequestStands(r) BY DEF TokenInv
    <3>2. pc[r] = "issue" => call[r].user \in Users
              /\ Known(call[r].user, call[r].version, call[r].password)'
      BY <2>1, <3>1, KnownAged DEF TokenRequestStands
    <3>3. pc[r] = "token" => call[r].token \in Tokens /\ tokens'[call[r].token].valid
      BY <1>1, <1>2, <2>1, <3>1 DEF TokenRequestStands
    <3> QED BY <2>1, <3>2, <3>3 DEF TokenRequestStands
  <2>2. CASE pc'[r] \notin {"issue", "token"} BY <2>2 DEF TokenRequestStands
  <2> QED BY <2>1, <2>2 DEF Kept
<1>7. \A r, s \in Requests :
          pc'[r] = "token" /\ pc'[s] = "token" /\ call'[r].token = call'[s].token => r = s
  BY DEF TokenInv, Kept
<1> QED BY <1>2, <1>4, <1>5, <1>6, <1>7 DEF TokenInv

LEMMA RotateStep == ASSUME IInv, NEW r \in Requests, Rotate(r) PROVE IInv'
<1>0. UserInv /\ LockInv /\ TokenInv /\ CountInv BY DEF IInv
<1>1. /\ pc[r] = "token" /\ Go(r, "idle", None)
      /\ UNCHANGED <<menu, userVars, reserved, avatarVars, codeVars, letterVars, mailed,
                     counterVars, workerVars, faults>>
  BY DEF Rotate, End
<1>2. "idle" \in Steps BY DEF Steps
<1>3. /\ Kept({"issue", "token"})
      /\ pc'[r] = "idle"
      /\ \A s \in Requests : s # r => pc'[s] = pc[s] /\ call'[s] = call[s]
  BY <1>0, <1>1, <1>2, Moves
<1>4. PICK old \in Tokens : old = call[r].token /\ tokens[old].valid
  BY <1>0, <1>1 DEF TokenInv, TokenRequestStands
<1>5. \A s \in Requests : pc'[s] = "token" => call'[s].token # old
  BY <1>0, <1>1, <1>3, <1>4 DEF TokenInv
<1>6. Ages BY <1>0, <1>1, AgesAlone
<1>7. faults' \in 0 .. MaxFaults BY <1>0, <1>1 DEF CountInv
<1>8. TokenInv'
  <2>1. CASE UNCHANGED tokens BY <1>0, <1>3, <1>6, <2>1, TokenKept
  <2>2. CASE tokens' = [tokens EXCEPT ![old].valid = FALSE]
    <3>1. PICK S \in SUBSET Tokens : S = {old} OBVIOUS
    <3>2. tokens' = [t \in Tokens |-> IF t \in S THEN [tokens[t] EXCEPT !.valid = FALSE]
                                                  ELSE tokens[t]]
      BY <1>0, <2>2, <3>1 DEF TokenInv
    <3>3. \A s \in Requests : pc'[s] = "token" => call'[s].token \notin S
      BY <1>5, <3>1
    <3> QED BY <1>0, <1>3, <1>6, <3>2, <3>3, ClosedTokens
  <2>3. CASE /\ Unissued # {}
             /\ tokens' = [tokens EXCEPT ![old].valid = FALSE,
                               ![Free(Unissued)] = [tokens[old] EXCEPT !.valid = TRUE]]
    <3>1. Free(Unissued) \in Unissued BY <2>3, Least DEF Unissued, Tokens
    <3> QED BY <1>0, <1>3, <1>4, <1>5, <1>6, <2>3, <3>1, ExchangedToken
  <2> QED BY <1>4, <2>1, <2>2, <2>3 DEF Rotate
<1> QED BY <1>1, <1>2, <1>7, <1>8, MoveStep DEF IInv, Holding
(* A request goes to a place where it has found codes. *)
LEMMA CodeTaken ==
    ASSUME CodeInv, UNCHANGED codeVars, NEW r \in Requests,
           pc'[r] # "commit", CodeRequestStands(r)',
           \A s \in Requests : s # r => pc'[s] = pc[s] /\ call'[s] = call[s]
    PROVE  CodeInv'
<1>1. ASSUME NEW s \in Requests, s # r PROVE CodeRequestStands(s)'
  <2>1. CodeRequestStands(s) BY DEF CodeInv
  <2> QED BY <1>1, <2>1 DEF CodeRequestStands, Closes, OpenResets, codeVars
<1>2. CodeTypes' /\ (\A d \in Codes : CodeStands(d)') /\ (\A e \in Emails : RegistrationStands(e)')
  BY DEF CodeInv, CodeTypes, CodeStands, RegistrationStands, codeVars
<1>3. \A v \in Users : \A d, e \in OpenResets(v)' : d = e
  BY DEF CodeInv, OpenResets, codeVars
<1>4. \A s, t \in Requests :
          pc'[s] = "commit" /\ pc'[t] = "commit" /\ call'[s].code = call'[t].code => s = t
  BY DEF CodeInv
<1> QED BY <1>1, <1>2, <1>3, <1>4 DEF CodeInv

(* A request takes a user to change it, and touches nothing yet. *)
LEMMA LockForPasswordStep ==
    ASSUME IInv, NEW r \in Requests, NEW op \in {"change", "reset"}, NEW u \in Users,
           NEW c \in Codes \cup {None}, status[u] = "active",
           c = None \/ c \in OpenResets(u), LockForPassword(r, op, u, c)
    PROVE  IInv'
<1>0. UserInv /\ LockInv /\ CodeInv /\ CountInv BY DEF IInv
<1> DEFINE q == [op |-> op, user |-> u, code |-> c]
<1>1. /\ UserFree(u) /\ password[u] < MaxPasswords /\ Go(r, "password", q)
      /\ UNCHANGED <<menu, userVars, reserved, avatarVars, tokens, codeVars, letterVars,
                     mailed, counterVars, workerVars, faults>>
  BY DEF LockForPassword
<1>2. q.user = u /\ q.code = c OBVIOUS
<1> HIDE DEF q
<1>3. "password" \in Steps /\ "password" \in Holding BY DEF Steps, Holding
<1>4. /\ pc'[r] = "password" /\ call'[r] = q
      /\ \A s \in Requests : s # r => pc'[s] = pc[s] /\ call'[s] = call[s]
  BY <1>0, <1>1, <1>3, Moves
<1>5. LockInv'
  <2>1. HolderStands(r)' BY <1>1, <1>2, <1>4 DEF HolderStands, userVars
  <2>2. \A s \in Requests : s # r /\ pc[s] \in Holding => call[s].user # q.user
    BY <1>1, <1>2 DEF UserFree, Holding
  <2>3. UNCHANGED userVars BY <1>1
  <2> QED BY <1>0, <1>1, <1>3, <2>1, <2>2, <2>3, LockTaken
<1>6. CodeInv'
  <2>1. UNCHANGED codeVars BY <1>1
  <2>2. CodeRequestStands(r)' BY <1>2, <1>4, <2>1 DEF CodeRequestStands, OpenResets, codeVars
  <2> QED BY <1>0, <1>4, <2>1, <2>2, CodeTaken
<1>7. faults' \in 0 .. MaxFaults BY <1>0, <1>1 DEF CountInv
<1> QED BY <1>1, <1>3, <1>5, <1>6, <1>7, MoveStep DEF IInv

LEMMA ChangePasswordStep ==
    ASSUME IInv, NEW r \in Requests, NEW u \in Users, ChangePassword(r, u) PROVE IInv'
<1>1. status[u] = "active" /\ LockForPassword(r, "change", u, None)
  BY DEF ChangePassword
<1> QED BY <1>1, LockForPasswordStep

LEMMA ResetPasswordStep ==
    ASSUME IInv, NEW r \in Requests, NEW e \in Emails, ResetPassword(r, e) PROVE IInv'
<1>1. PICK u \in ActiveUser(e) :
          \E c \in OpenResets(u) : LockForPassword(r, "reset", u, c)
  BY DEF ResetPassword
<1>2. PICK c \in OpenResets(u) : LockForPassword(r, "reset", u, c) BY <1>1
<1>3. u \in Users /\ status[u] = "active" /\ c \in Codes \cup {None}
  BY DEF ActiveUser, OpenResets
<1> QED BY <1>2, <1>3, LockForPasswordStep

(* Codes are closed, counted or expire; none is opened, and none that a    *)
(* request has locked is closed.                                           *)
LEMMA CodesSettle ==
    ASSUME CodeInv, Kept({"password", "mail", "commit"}),
           codes' \in [Codes -> Code_], drawn' = drawn, doomed' \subseteq Emails,
           registration' \in [Emails -> Codes \cup {None}],
           \A c \in Codes :
               /\ codes[c] = NoCode => codes'[c] = NoCode
               /\ UNCHANGED <<codes[c].purpose, codes[c].email, codes[c].user>>
               /\ codes'[c].open => codes[c].open /\ codes'[c].uses = codes[c].uses
               /\ \/ codes'[c].uses = codes[c].uses
                  \/ codes[c].open /\ codes'[c].uses = codes[c].uses + 1,
           \A e \in Emails : registration'[e] # None =>
               registration'[e] = registration[e] /\ codes'[registration[e]].open,
           \A r \in Requests, c \in Codes :
               pc'[r] = "password" /\ call'[r].code = c => UNCHANGED codes[c].open
    PROVE  CodeInv' /\ Labels
<1>1. \A u : OpenResets(u)' \subseteq OpenResets(u) BY DEF OpenResets
<1>2. ASSUME NEW r \in Requests PROVE CodeRequestStands(r)'
  <2>1. CASE pc'[r] = pc[r] /\ call'[r] = call[r]
    <3>0. CodeRequestStands(r) BY DEF CodeInv
    <3>1. pc[r] = "password" =>
              call[r].code = None \/ call[r].code \in OpenResets(call[r].user)'
      BY <2>1, <3>0 DEF CodeRequestStands, OpenResets
    <3>2. pc[r] \in {"mail", "commit"} => Closes(r)'
      <4>1. OpenResets(call[r].user)' \subseteq OpenResets(call[r].user)
        BY <2>1 DEF OpenResets
      <4> QED BY <2>1, <3>0, <4>1 DEF CodeRequestStands, Closes
    <3>3. pc[r] = "commit" => call[r].code \in 1 .. drawn /\ codes'[call[r].code] = NoCode
      BY <3>0 DEF CodeRequestStands, CodeInv, CodeTypes, Codes
    <3> QED BY <2>1, <3>1, <3>2, <3>3 DEF CodeRequestStands
  <2>2. CASE pc'[r] \notin {"password", "mail", "commit"}
    BY <2>2 DEF CodeRequestStands
  <2> QED BY <2>1, <2>2 DEF Kept
<1>3. ASSUME NEW c \in Codes PROVE CodeStands(c)'
  <2>1. CodeStands(c) /\ codes[c].uses \in Nat BY DEF CodeInv, CodeTypes, Code_
  <2> QED BY <2>1 DEF CodeStands
<1>4. \A e \in Emails : RegistrationStands(e)'
  BY DEF CodeInv, CodeTypes, RegistrationStands
<1>5. CodeTypes' BY DEF CodeInv, CodeTypes
<1>6. \A u \in Users : \A c, d \in OpenResets(u)' : c = d BY <1>1 DEF CodeInv
<1>7. \A r, s \in Requests :
          pc'[r] = "commit" /\ pc'[s] = "commit" /\ call'[r].code = call'[s].code => r = s
  BY DEF CodeInv, Kept
<1>8. Labels BY DEF Labels
<1> QED BY <1>2, <1>3, <1>4, <1>5, <1>6, <1>7, <1>8 DEF CodeInv

LEMMA SetPasswordStep == ASSUME IInv, NEW r \in Requests, SetPassword(r) PROVE IInv'
<1>0. UserInv /\ LockInv /\ TokenInv /\ CodeInv /\ CountInv BY DEF IInv
<1>1. PICK u \in Users, c \in Codes \cup {None} :
          /\ u = call[r].user /\ c = call[r].code /\ status[u] = "active"
          /\ c = None \/ c \in OpenResets(u)
          /\ password[u] < MaxPasswords /\ pc[r] = "password"
  BY <1>0 DEF SetPassword, LockInv, HolderStands, CodeInv, CodeRequestStands, OpenResets
<1>2. /\ TokensFree(u) /\ RevokeTokens(u) /\ Go(r, "idle", None)
      /\ password' = [password EXCEPT ![u] = @ + 1]
      /\ version' = [version EXCEPT ![u] = @ + 1]
      /\ codes' = IF c = None THEN codes
                  ELSE [codes EXCEPT ![c].open = FALSE, ![c].uses = @ + 1]
      /\ UNCHANGED <<menu, status, email, reserved, avatarVars, drawn, registration,
                     doomed, letterVars, mailed, counterVars, workerVars, faults>>
  BY <1>1 DEF SetPassword, End
<1>3. "idle" \in Steps BY DEF Steps
<1>4. /\ \A S : "idle" \notin S => Kept(S)
      /\ StepTypes' /\ pc'[r] = "idle"
      /\ \A s \in Requests : s # r => pc'[s] = pc[s] /\ call'[s] = call[s]
  BY <1>0, <1>2, <1>3, Moves
<1>5. /\ UserStands(u) /\ password[u] = version[u] /\ version[u] \in Nat
      /\ password'[u] = version[u] + 1 /\ version'[u] = version[u] + 1
      /\ \A v \in Users \ {u} : password'[v] = password[v] /\ version'[v] = version[v]
  BY <1>0, <1>1, <1>2 DEF UserInv, UserTypes, UserStands
<1>6. UserInv'
  <2>1. UserTypes'
    BY <1>0, <1>1, <1>2, <1>5 DEF UserInv, UserTypes, Passwords
  <2>2. \A v \in Users : UserStands(v)'
    BY <1>0, <1>1, <1>2, <1>5 DEF UserInv, UserStands
  <2> QED BY <1>0, <1>2, <2>1, <2>2 DEF UserInv
<1>7. LockInv'
  <2>1. \A s \in Requests : pc'[s] \in Holding => call'[s].user # u
    BY <1>0, <1>1, <1>4 DEF LockInv, Holding
  <2>2. Kept(Holding \cup {"forgot"}) BY <1>4 DEF Holding
  <2> QED BY <1>0, <1>2, <1>4, <1>5, <2>1, <2>2, LockKept
<1>8. TokenInv'
  <2>1. Ages BY <1>0, <1>2, <1>5 DEF Ages, UserInv, UserTypes
  <2> QED BY <1>0, <1>2, <1>4, <2>1, RevokedTokens
<1>9. CodeInv' /\ Labels
  <2>1. Kept({"password", "mail", "commit"}) BY <1>4
  <2>2. CASE c = None BY <1>0, <1>2, <2>1, <2>2, CodeKept DEF codeVars, Labels
  <2>3. CASE c \in OpenResets(u)
    <3>1. /\ c \in Codes /\ c # None /\ codes[c].open /\ codes[c].purpose = "reset"
          /\ codes[c].user = u
      BY <2>3 DEF OpenResets, Codes
    <3>2. codes' = [codes EXCEPT ![c].open = FALSE, ![c].uses = @ + 1]
      BY <1>2, <3>1
    <3>3. \A s \in Requests : pc'[s] \in Holding => call'[s].user # u
      BY <1>0, <1>1, <1>4 DEF LockInv, Holding
    <3>4. \A q \in Requests, d \in Codes :
              pc'[q] = "password" /\ call'[q].code = d => d # c
      BY <1>0, <1>4, <3>1, <3>3 DEF CodeInv, CodeRequestStands, OpenResets, Holding
    <3>5. /\ codes[c] \in Code_ /\ codes[c] # NoCode /\ codes[c].uses = 0
          /\ codes'[c] = [codes[c] EXCEPT !.open = FALSE, !.uses = @ + 1]
          /\ \A d \in Codes \ {c} : codes'[d] = codes[d]
      BY <1>0, <3>1, <3>2 DEF CodeInv, CodeTypes, CodeStands, NoCode
    <3>6. /\ codes'[c] \in Code_ /\ ~codes'[c].open /\ codes'[c].uses = codes[c].uses + 1
          /\ UNCHANGED <<codes[c].purpose, codes[c].email, codes[c].user>>
      <4>1. PICK k \in Code_ : k = codes[c] BY <3>5
      <4>2. codes'[c] = [k EXCEPT !.open = FALSE, !.uses = k.uses + 1] BY <3>5, <4>1
      <4>3. k.uses + 1 \in Nat BY DEF Code_
      <4> QED BY <4>1, <4>2, <4>3 DEF Code_
    <3>10. codes' \in [Codes -> Code_]
      <4>1. codes' = [d \in Codes |-> codes'[d]] BY <1>0, <3>2 DEF CodeInv, CodeTypes
      <4>2. \A d \in Codes : codes'[d] \in Code_
        BY <1>0, <3>5, <3>6 DEF CodeInv, CodeTypes
      <4> QED BY <4>1, <4>2
    <3>7. \A d \in Codes :
              /\ codes[d] = NoCode => codes'[d] = NoCode
              /\ UNCHANGED <<codes[d].purpose, codes[d].email, codes[d].user>>
              /\ codes'[d].open => codes[d].open /\ codes'[d].uses = codes[d].uses
              /\ \/ codes'[d].uses = codes[d].uses
                 \/ codes[d].open /\ codes'[d].uses = codes[d].uses + 1
      BY <3>1, <3>5, <3>6
    <3>8. \A e \in Emails : registration'[e] # None =>
              registration'[e] = registration[e] /\ codes'[registration[e]].open
      BY <1>0, <1>2, <3>1, <3>5 DEF CodeInv, CodeTypes, RegistrationStands
    <3>9. \A q \in Requests, d \in Codes :
              pc'[q] = "password" /\ call'[q].code = d => UNCHANGED codes[d].open
      BY <3>4, <3>5
    <3> QED BY <1>0, <1>2, <2>1, <3>7, <3>8, <3>9, <3>10, CodesSettle DEF CodeInv, CodeTypes
  <2> QED BY <1>1, <2>2, <2>3
<1>10. LetterInv'
  <2>1. Kept({"commit"}) /\ LetterInv BY <1>4 DEF IInv
  <2> QED BY <1>2, <1>9, <2>1, LetterKept
<1>11. faults' \in 0 .. MaxFaults BY <1>0, <1>2 DEF CountInv
<1> QED BY <1>2, <1>3, <1>6, <1>7, <1>8, <1>9, <1>10, <1>11, MoveStep DEF IInv
-----------------------------------------------------------------------------
(* Codes. *)

LEMMA ForgotPasswordStep ==
    ASSUME IInv, NEW r \in Requests, NEW e \in Emails, ForgotPassword(r, e) PROVE IInv'
<1>0. LockInv /\ CountInv BY DEF IInv
<1> DEFINE q == [email |-> e]
<1>1. /\ asked < AskLimit /\ Go(r, "forgot", q) /\ q.email = e
      /\ UNCHANGED <<menu, userVars, reserved, avatarVars, tokens, codeVars, letterVars,
                     mailed, counterVars, workerVars, faults>>
  BY DEF ForgotPassword
<1> HIDE DEF q
<1>2. "forgot" \in Steps BY DEF Steps
<1>3. /\ StepTypes' /\ pc'[r] = "forgot" /\ call'[r] = q
      /\ \A s \in Requests : s # r => pc'[s] = pc[s] /\ call'[s] = call[s]
  BY <1>0, <1>1, <1>2, Moves
<1>4. LockInv'
  <2>1. HolderStands(r)' BY <1>1, <1>3 DEF HolderStands
  <2>2. ASSUME NEW s \in Requests, s # r PROVE HolderStands(s)'
    BY <1>0, <1>1, <1>3, <2>2 DEF LockInv, HolderStands, CodeHolderStands, userVars
  <2>3. ASSUME NEW s \in Requests, NEW t \in Requests, pc'[s] \in Holding,
               pc'[t] \in Holding, call'[s].user = call'[t].user
        PROVE  s = t \/ call'[s].user = None
    BY <1>0, <1>3, <2>3 DEF LockInv, Holding
  <2> QED BY <1>3, <2>1, <2>2, <2>3 DEF LockInv, StepTypes
<1>5. CountInv'
  <2>1. Wrong' \subseteq Wrong /\ Askers' \subseteq Requests /\ Wrong \subseteq Requests
    BY <1>3 DEF Wrong, Askers
  <2>2. /\ Cardinality(Wrong') \in Nat /\ Cardinality(Wrong') <= Cardinality(Wrong)
        /\ Cardinality(Askers') \in Nat /\ Cardinality(Askers') <= Cardinality(Requests)
        /\ Cardinality(Wrong) \in Nat /\ Cardinality(Requests) \in Nat
    BY <2>1, Handlers
  <2>3. UNCHANGED <<failures, asked, faults>> BY <1>1 DEF counterVars
  <2> QED BY <1>0, <1>1, <2>2, <2>3 DEF CountInv
<1> QED BY <1>1, <1>2, <1>4, <1>5, MoveStep DEF IInv

(* A request finds the codes it will replace: the user is held, or, in a   *)
(* registration, there is none.                                            *)
LEMMA BeginCode ==
    ASSUME IInv, NEW r \in Requests, NEW q, Go(r, "mail", q),
           UNCHANGED <<menu, userVars, reserved, avatarVars, tokens, codeVars, letterVars,
                       mailed, counterVars, workerVars, faults>>,
           q.user = None \/ (q.user \in Users /\ UserFree(q.user)),
           q.op = "forgot" => pc[r] = "forgot",
           CodeHolderStands(r)', Closes(r)'
    PROVE  IInv'
<1>0. LockInv /\ CodeInv /\ CountInv BY DEF IInv
<1>1. "mail" \in Steps /\ "mail" \in Holding BY DEF Steps, Holding
<1>2. /\ pc'[r] = "mail" /\ call'[r] = q
      /\ \A s \in Requests : s # r => pc'[s] = pc[s] /\ call'[s] = call[s]
  BY <1>0, <1>1, Moves
<1>3. LockInv'
  <2>1. HolderStands(r)' BY <1>2 DEF HolderStands
  <2>2. \A s \in Requests : s # r /\ pc[s] \in Holding =>
            call[s].user # q.user \/ q.user = None
    BY DEF UserFree, Holding
  <2> QED BY <1>0, <1>1, <2>1, <2>2, LockTaken
<1>4. CodeInv'
  <2>1. CodeRequestStands(r)' BY <1>2 DEF CodeRequestStands
  <2> QED BY <1>0, <1>2, <2>1, CodeTaken
<1>5. CountInv'
  <2>1. Wrong' \subseteq Wrong /\ Askers' \subseteq Askers BY <1>2 DEF Wrong, Askers
  <2>2. faults' \in 0 .. MaxFaults BY <1>0 DEF CountInv
  <2> QED BY <1>0, <2>1, <2>2, CountKept
<1> QED BY <1>1, <1>3, <1>4, <1>5, MoveStep DEF IInv

LEMMA LockForgottenStep ==
    ASSUME IInv, NEW r \in Requests, LockForgotten(r) PROVE IInv'
<1>0. LockInv /\ CountInv BY DEF IInv
<1>1. /\ pc[r] = "forgot" /\ call[r].email \in Emails
      /\ UNCHANGED <<menu, userVars, reserved, avatarVars, tokens, codeVars, letterVars,
                     mailed, counterVars, workerVars, faults>>
  BY <1>0 DEF LockForgotten, LockInv, HolderStands
<1>2. CASE Go(r, "idle", None)
  <2>1. "idle" \in Steps BY DEF Steps
  <2>2. faults' \in 0 .. MaxFaults BY <1>0, <1>1 DEF CountInv
  <2> QED BY <1>1, <1>2, <2>1, <2>2, MoveStep DEF IInv, Holding
<1>3. ASSUME NEW u \in ActiveUser(call[r].email), MayReset(u),
             Go(r, "mail", [op |-> "forgot", email |-> call[r].email, user |-> u,
                            closes |-> OpenResets(u)])
      PROVE  IInv'
  <2>1. PICK e \in Emails : e = call[r].email BY <1>1
  <2>2. PICK S : S = OpenResets(u) OBVIOUS
  <2>3. PICK q : q = [op |-> "forgot", email |-> e, user |-> u, closes |-> S] OBVIOUS
  <2>4. q.op = "forgot" /\ q.email = e /\ q.user = u /\ q.closes = S BY <2>3
  <2>5. Go(r, "mail", q) BY <1>3, <2>1, <2>2, <2>3
  <2>6. "mail" \in Steps BY DEF Steps
  <2>7. pc'[r] = "mail" /\ call'[r] = q BY <1>0, <2>5, <2>6, Moves
  <2>8. u \in Users /\ status[u] = "active" /\ email[u] = e
    BY <1>3, <2>1 DEF ActiveUser
  <2>9. CodeHolderStands(r)'
    BY <1>1, <2>4, <2>7, <2>8 DEF CodeHolderStands, userVars
  <2>10. Closes(r)'
    <3>1. OpenResets(u)' = S BY <1>1, <2>2 DEF OpenResets, codeVars
    <3>2. \A c \in S : c \in Codes /\ codes'[c].purpose = "reset" /\ codes'[c].user = u
      BY <3>1 DEF OpenResets
    <3>3. OpenResets(call[r].user)' = S BY <2>4, <2>7, <3>1 DEF OpenResets
    <3> QED BY <2>4, <2>7, <3>2, <3>3 DEF Closes
  <2> QED BY <1>1, <1>3, <2>4, <2>5, <2>8, <2>9, <2>10, BeginCode DEF MayReset
<1> QED BY <1>2, <1>3 DEF LockForgotten, End

LEMMA RegisterStep ==
    ASSUME IInv, NEW r \in Requests, NEW e \in Emails, Register(r, e) PROVE IInv'
<1>0. LockInv BY DEF IInv
<1>1. PICK q : q = [op |-> "register", email |-> e, user |-> None, closes |-> {}] OBVIOUS
<1>2. q.op = "register" /\ q.email = e /\ q.user = None /\ q.closes = {} BY <1>1
<1>3. /\ Go(r, "mail", q)
      /\ UNCHANGED <<menu, userVars, reserved, avatarVars, tokens, codeVars, letterVars,
                     mailed, counterVars, workerVars, faults>>
  BY <1>1 DEF Register
<1>4. "mail" \in Steps BY DEF Steps
<1>5. call'[r] = q BY <1>0, <1>3, <1>4, Moves
<1>6. CodeHolderStands(r)' /\ Closes(r)'
  <2>1. CodeHolderStands(r)' BY <1>2, <1>5 DEF CodeHolderStands
  <2>2. call'[r].op = "register" /\ call'[r].closes = {} BY <1>2, <1>5
  <2>3. call'[r].op # "forgot" BY <2>2
  <2>4. Closes(r)' BY <2>2, <2>3 DEF Closes
  <2> QED BY <2>1, <2>4
<1>7. q.user = None \/ (q.user \in Users /\ UserFree(q.user)) BY <1>2
<1>8. q.op = "forgot" => pc[r] = "forgot" BY <1>2
<1> QED BY <1>3, <1>6, <1>7, <1>8, BeginCode
(* The requests that store a code exclude each other by its e-mail and     *)
(* purpose.                                                                *)
LEMMA OneCommit ==
    ASSUME IInv, NEW r \in Requests, NEW s \in Requests,
           pc[r] = "commit", pc[s] = "commit",
           call[r].op = call[s].op, call[r].email = call[s].email
    PROVE  r = s
<1>1. UserInv /\ LockInv /\ LetterInv BY DEF IInv
<1>2. CodeHolderStands(r) /\ CodeHolderStands(s) BY <1>1 DEF LockInv, HolderStands
<1>3. CASE call[r].op = "register" BY <1>1, <1>3 DEF LetterInv
<1>4. CASE call[r].op = "forgot"
  <2>1. /\ call[r].user \in Users /\ call[s].user \in Users
        /\ email[call[r].user] = email[call[s].user] /\ email[call[r].user] # None
    BY <1>2, <1>4 DEF CodeHolderStands
  <2>2. call[r].user = call[s].user /\ call[r].user # None BY <1>1, <2>1 DEF UserInv
  <2> QED BY <1>1, <2>2 DEF LockInv, Holding
<1> QED BY <1>2, <1>3, <1>4 DEF CodeHolderStands

LEMMA MailStep ==
    ASSUME IInv, NEW r \in Requests, NEW ok \in BOOLEAN, Mail(r, ok) PROVE IInv'
<1>0. UserInv /\ LockInv /\ CodeInv /\ LetterInv /\ CountInv BY DEF IInv
<1> DEFINE q == call[r]
           d == [op |-> q.op, email |-> q.email, user |-> q.user, code |-> drawn + 1,
                 closes |-> q.closes, cancels |-> Superseded(q.email, Purpose(q.op)),
                 sent |-> ok]
<1>1. /\ pc[r] = "mail" /\ drawn < MaxCodes /\ drawn' = drawn + 1
      /\ cur \notin d.cancels
      /\ q.op = "register" => RegistrationFree(q.email)
      /\ Go(r, "commit", d)
      /\ mailed' = IF ok THEN [mailed EXCEPT ![q.email] = drawn + 1] ELSE mailed
      /\ UNCHANGED <<menu, userVars, reserved, avatarVars, tokens, codes, registration,
                     doomed, letterVars, counterVars, workerVars, faults>>
  BY DEF Mail
<1>2. /\ d.op = q.op /\ d.email = q.email /\ d.user = q.user /\ d.code = drawn + 1
      /\ d.closes = q.closes /\ d.sent = ok
      /\ d.cancels = PendingFor(q.email, Purpose(q.op))
  BY DEF Superseded
<1> HIDE DEF d
<1>3. "commit" \in Steps /\ "commit" \in Holding BY DEF Steps, Holding
<1>4. /\ pc'[r] = "commit" /\ call'[r] = d
      /\ \A s \in Requests : s # r => pc'[s] = pc[s] /\ call'[s] = call[s]
  BY <1>0, <1>1, <1>3, Moves
<1>5. CodeHolderStands(r) /\ Closes(r)
  BY <1>0, <1>1 DEF LockInv, HolderStands, CodeInv, CodeRequestStands
<1>6. drawn + 1 \in Codes /\ drawn \in Nat BY <1>0, <1>1 DEF CodeInv, CodeTypes, Codes
<1>7. \A c \in Codes : c > drawn => /\ codes[c] = NoCode /\ letters[c] = "none"
                                    /\ sends[c] = 0
  BY <1>0 DEF CodeInv, CodeStands, LetterInv, LetterStands
<1>8. LockInv'
  <2>1. HolderStands(r)'
    BY <1>1, <1>2, <1>4, <1>5 DEF HolderStands, CodeHolderStands, userVars
  <2>2. \A s \in Requests : s # r /\ pc[s] \in Holding =>
            call[s].user # d.user \/ d.user = None
    BY <1>0, <1>1, <1>2 DEF LockInv, Holding
  <2>3. UNCHANGED userVars BY <1>1
  <2> QED BY <1>0, <1>1, <1>3, <2>1, <2>2, <2>3, LockTaken
<1>9. CodeInv'
  <2>1. CodeTypes' BY <1>0, <1>1, <1>6 DEF CodeInv, CodeTypes, Codes
  <2>2. \A c \in Codes : CodeStands(c)'
    BY <1>0, <1>1, <1>6 DEF CodeInv, CodeStands, Codes
  <2>3. \A e \in Emails : RegistrationStands(e)'
    BY <1>0, <1>1 DEF CodeInv, RegistrationStands
  <2>4. \A u : OpenResets(u)' = OpenResets(u) BY <1>1 DEF OpenResets
  <2>5. CodeRequestStands(r)'
    <3>1. OpenResets(call[r].user)' = OpenResets(call[r].user)
      BY <1>1, <1>2, <1>4 DEF OpenResets
    <3>2. Closes(r)' BY <1>1, <1>2, <1>4, <1>5, <3>1 DEF Closes
    <3>3. d.code \in 1 .. drawn' /\ codes'[d.code] = NoCode BY <1>1, <1>2, <1>6, <1>7
    <3> QED BY <1>4, <3>2, <3>3 DEF CodeRequestStands
  <2>6. ASSUME NEW s \in Requests, s # r PROVE CodeRequestStands(s)'
    <3>1. CodeRequestStands(s) BY <1>0 DEF CodeInv
    <3>2. OpenResets(call[s].user)' = OpenResets(call[s].user)
      BY <1>1, <1>4, <2>6 DEF OpenResets
    <3>3. Closes(s) => Closes(s)' BY <1>1, <1>4, <2>6, <3>2 DEF Closes
    <3>4. pc[s] = "commit" => call[s].code \in 1 .. drawn' /\ codes'[call[s].code] = NoCode
      BY <1>1, <1>6, <3>1 DEF CodeRequestStands
    <3>5. pc[s] = "password" =>
              call[s].code = None \/ call[s].code \in OpenResets(call[s].user)'
      BY <3>1, <3>2 DEF CodeRequestStands
    <3> QED BY <1>4, <2>6, <3>1, <3>3, <3>4, <3>5 DEF CodeRequestStands
  <2>7. ASSUME NEW s \in Requests, NEW t \in Requests, pc'[s] = "commit",
               pc'[t] = "commit", call'[s].code = call'[t].code
        PROVE  s = t
    <3>1. \A v \in Requests : v # r /\ pc[v] = "commit" => call[v].code \in 1 .. drawn
      BY <1>0 DEF CodeInv, CodeRequestStands
    <3>2. drawn + 1 \notin 1 .. drawn BY <1>6
    <3>3. CASE s # r /\ t # r BY <1>0, <1>4, <2>7, <3>3 DEF CodeInv
    <3>4. CASE s = r /\ t # r BY <1>2, <1>4, <2>7, <3>1, <3>2, <3>4
    <3>5. CASE s # r /\ t = r BY <1>2, <1>4, <2>7, <3>1, <3>2, <3>5
    <3> QED BY <3>3, <3>4, <3>5
  <2>8. \A u \in Users : \A c, e \in OpenResets(u)' : c = e BY <1>0, <2>4 DEF CodeInv
  <2> QED BY <2>1, <2>2, <2>3, <2>5, <2>6, <2>7, <2>8 DEF CodeInv
<1>10. LetterInv'
  <2>1. LetterTypes' BY <1>0, <1>1, <1>6 DEF LetterInv, LetterTypes, letterVars, workerVars
  <2>2. \A c \in Codes : LetterStands(c)'
    BY <1>0, <1>1, <1>6 DEF LetterInv, LetterStands, NoneAfter, letterVars, Codes
  <2>3. ASSUME NEW s \in Requests, s # r, pc'[s] = "commit" PROVE Cancels(s)'
    <3>1. pc[s] = "commit" /\ call'[s] = call[s] /\ Cancels(s)
      BY <1>0, <1>4, <2>3 DEF LetterInv
    <3>2. PendingFor(call[s].email, Purpose(call[s].op))'
              = PendingFor(call[s].email, Purpose(call[s].op))
      BY <1>1, <3>1 DEF PendingFor, Purpose, letterVars
    <3>3. NoneAfter(call[s].code, call[s].email, Purpose(call[s].op))'
      BY <1>1, <3>1 DEF Cancels, NoneAfter, Purpose
    <3> QED BY <1>1, <3>1, <3>2, <3>3 DEF Cancels, letterVars, workerVars
  <2>4. Cancels(r)'
    <3>1. PendingFor(call[r].email, Purpose(call[r].op))' = d.cancels
      BY <1>1, <1>2, <1>4 DEF PendingFor, Purpose, letterVars
    <3>2. NoneAfter(call[r].code, call[r].email, Purpose(call[r].op))'
      <4>1. Purpose(q.op) # "none" BY DEF Purpose
      <4>2. \A c \in Codes : c > drawn + 1 => codes'[c].purpose = "none"
        BY <1>1, <1>6, <1>7 DEF NoCode, Codes
      <4>3. Purpose(call[r].op)' = Purpose(q.op) BY <1>2, <1>4 DEF Purpose
      <4> QED BY <1>2, <1>4, <4>1, <4>2, <4>3 DEF NoneAfter
    <3>3. d.cancels \subseteq Codes /\ d.sent \in BOOLEAN BY <1>2 DEF PendingFor
    <3>5. \A c \in d.cancels : codes'[c].purpose # "none"
      BY <1>1, <1>2 DEF PendingFor, Purpose
    <3>4. letters'[d.code] = "none" /\ sends'[d.code] = 0
      BY <1>1, <1>2, <1>6, <1>7 DEF letterVars
    <3> QED BY <1>1, <1>4, <3>1, <3>2, <3>3, <3>4, <3>5 DEF Cancels, workerVars
  <2>5. cur' # None => letters'[cur'] = "pending"
    BY <1>0, <1>1 DEF LetterInv, letterVars, workerVars
  <2>6. ASSUME NEW s \in Requests, NEW t \in Requests, pc'[s] = "commit", pc'[t] = "commit",
               call'[s].op = "register", call'[t].op = "register",
               call'[s].email = call'[t].email
        PROVE  s = t
    BY <1>0, <1>1, <1>2, <1>4, <2>6 DEF LetterInv, RegistrationFree
  <2> QED BY <2>1, <2>2, <2>3, <2>4, <2>5, <2>6 DEF LetterInv
<1>11. CountInv'
  <2>1. Wrong' \subseteq Wrong /\ Askers' \subseteq Askers
    BY <1>1, <1>2, <1>4 DEF Wrong, Askers
  <2>2. faults' \in 0 .. MaxFaults BY <1>0, <1>1 DEF CountInv
  <2> QED BY <1>0, <1>1, <2>1, <2>2, CountKept
<1> QED BY <1>1, <1>3, <1>8, <1>9, <1>10, <1>11, MoveStep DEF IInv
(* What the commit of a code changes, code by code. *)
CommitEffect(q) ==
    /\ codes' \in [Codes -> Code_]
    /\ codes'[q.code] = [NoCode EXCEPT !.purpose = Purpose(q.op), !.email = q.email,
                                       !.user = q.user, !.open = TRUE]
    /\ \A c \in Codes \ {q.code} :
           /\ UNCHANGED <<codes[c].purpose, codes[c].email, codes[c].user, codes[c].uses>>
           /\ codes'[c].open => codes[c].open /\ c \notin q.closes
           /\ codes'[c] = codes[c] \/ c \in q.closes
              \/ (q.op = "register" /\ c = registration[q.email])

LEMMA CommitCodes ==
    ASSUME CodeInv, NEW r \in Requests, NEW q, q = call[r], pc[r] = "commit",
           CodeHolderStands(r), CommitCode(r)
    PROVE  CommitEffect(q)
<1>1. /\ q.op \in {"forgot", "register"} /\ q.email \in Emails
      /\ q.user \in Users \cup {None}
  BY DEF CodeHolderStands
<1>2. q.code \in Codes BY DEF CodeInv, CodeRequestStands, CodeTypes, Codes
<1> DEFINE new == [NoCode EXCEPT !.purpose = Purpose(q.op), !.email = q.email,
                                 !.user = q.user, !.open = TRUE]
<1>3. new \in Code_ BY <1>1 DEF NoCode, Code_, Purpose
<1> HIDE DEF new
<1>4. codes' = [c \in Codes |->
          IF c = q.code THEN new
          ELSE IF c \in q.closes \/ (q.op = "register" /\ c = registration[q.email])
          THEN [codes[c] EXCEPT !.open = FALSE] ELSE codes[c]]
  BY DEF CommitCode, new
<1>5. ASSUME NEW c \in Codes \ {q.code}
      PROVE  /\ codes'[c] \in Code_
             /\ UNCHANGED <<codes[c].purpose, codes[c].email, codes[c].user, codes[c].uses>>
             /\ codes'[c].open => codes[c].open /\ c \notin q.closes
             /\ codes'[c] = codes[c] \/ c \in q.closes
                \/ (q.op = "register" /\ c = registration[q.email])
  <2>1. PICK k \in Code_ : k = codes[c] BY DEF CodeInv, CodeTypes
  <2>2. CASE c \in q.closes \/ (q.op = "register" /\ c = registration[q.email])
    <3>1. codes'[c] = [k EXCEPT !.open = FALSE] BY <1>4, <1>5, <2>1, <2>2
    <3> QED BY <2>1, <2>2, <3>1 DEF Code_
  <2>3. CASE ~(c \in q.closes \/ (q.op = "register" /\ c = registration[q.email]))
    <3>1. codes'[c] = k BY <1>4, <1>5, <2>1, <2>3
    <3> QED BY <2>1, <2>3, <3>1
  <2> QED BY <2>2, <2>3
<1>6. codes'[q.code] = new BY <1>2, <1>4
<1>7. codes' \in [Codes -> Code_] BY <1>3, <1>4, <1>5, <1>6
<1> QED BY <1>5, <1>6, <1>7 DEF CommitEffect, new

LEMMA CommitCodeStep == ASSUME IInv, NEW r \in Requests, CommitCode(r) PROVE IInv'
<1>0. UserInv /\ LockInv /\ CodeInv /\ LetterInv /\ CountInv BY DEF IInv
<1>1. PICK q : q = call[r] OBVIOUS
<1>2. /\ pc[r] = "commit"
      /\ Go(r, IF q.op = "forgot" THEN "asked" ELSE "idle", None)
      /\ registration' = IF q.op = "register"
                         THEN [registration EXCEPT ![q.email] = q.code] ELSE registration
      /\ letters' = [c \in Codes |->
             IF c = q.code THEN IF q.sent THEN "none" ELSE "pending"
             ELSE IF c \in q.cancels THEN "cancelled" ELSE letters[c]]
      /\ UNCHANGED <<menu, userVars, reserved, avatarVars, tokens, drawn, doomed, sends,
                     mailed, counterVars, workerVars, faults>>
  BY <1>1 DEF CommitCode, End
<1>3. CodeHolderStands(r) /\ Closes(r) /\ Cancels(r)
  BY <1>0, <1>2 DEF LockInv, HolderStands, CodeInv, CodeRequestStands, LetterInv
<1>4. /\ q.op \in {"forgot", "register"} /\ q.email \in Emails
      /\ q.op = "forgot" => q.user \in Users
      /\ q.code \in Codes /\ q.code <= drawn /\ codes[q.code] = NoCode
  BY <1>0, <1>1, <1>2, <1>3
     DEF CodeHolderStands, CodeInv, CodeRequestStands, CodeTypes, Codes
<1>5. CommitEffect(q) BY <1>0, <1>1, <1>2, <1>3, CommitCodes
<1> DEFINE step == IF q.op = "forgot" THEN "asked" ELSE "idle"
<1>6. /\ step \in {"asked", "idle"} /\ step \in Steps /\ Go(r, step, None)
      /\ step = "asked" => q.op = "forgot"
  BY <1>2 DEF Steps
<1> HIDE DEF step
<1>7. /\ pc'[r] = step
      /\ \A s \in Requests : s # r => pc'[s] = pc[s] /\ call'[s] = call[s]
  BY <1>0, <1>6, Moves
<1>8. /\ codes'[q.code].purpose = Purpose(q.op) /\ codes'[q.code].email = q.email
      /\ codes'[q.code].user = q.user /\ codes'[q.code].open
      /\ codes'[q.code].uses = 0
  BY <1>5 DEF CommitEffect, NoCode
<1>9. \A c \in Codes : codes[c] = NoCode /\ c # q.code => codes'[c] = NoCode
  <2>1. \A c \in q.closes : codes[c].purpose = "reset" BY <1>1, <1>3 DEF Closes
  <2>2. q.op = "register" /\ registration[q.email] # None =>
            codes[registration[q.email]].purpose = "registration"
    BY <1>0, <1>4 DEF CodeInv, RegistrationStands
  <2>3. \A c \in Codes : c # None BY DEF Codes
  <2> QED BY <1>5, <2>1, <2>2, <2>3 DEF CommitEffect, NoCode
<1>10. \A u \in Users : q.op = "register" \/ u # q.user =>
           OpenResets(u)' \subseteq OpenResets(u)
  BY <1>4, <1>5, <1>8 DEF CommitEffect, OpenResets, Purpose
<1>11. CodeInv'
  <2>1. CodeTypes'
    BY <1>0, <1>2, <1>4, <1>5 DEF CommitEffect, CodeInv, CodeTypes
  <2>2. ASSUME NEW c \in Codes PROVE CodeStands(c)'
    <3>1. CodeStands(c) /\ (c > drawn => c # q.code)
      BY <1>0, <1>4 DEF CodeInv, CodeTypes, Codes
    <3>2. CASE c = q.code BY <1>2, <1>8, <3>1, <3>2 DEF CodeStands
    <3>3. CASE c # q.code
      <4>1. /\ codes'[c].open => codes[c].open
            /\ codes'[c].uses = codes[c].uses
        BY <1>5, <3>3 DEF CommitEffect
      <4>2. c > drawn' => codes'[c] = NoCode BY <1>2, <1>9, <3>1, <3>3 DEF CodeStands
      <4> QED BY <3>1, <4>1, <4>2 DEF CodeStands
    <3> QED BY <3>2, <3>3
  <2>3. ASSUME NEW e \in Emails PROVE RegistrationStands(e)'
    <3>1. CASE q.op = "register" /\ e = q.email
      <4>1. registration'[e] = q.code BY <1>0, <1>2, <3>1 DEF CodeInv, CodeTypes
      <4> QED BY <1>8, <3>1, <4>1 DEF RegistrationStands, Purpose
    <3>2. CASE ~(q.op = "register" /\ e = q.email) /\ registration[e] # None
      <4>1. PICK c \in Codes : c = registration[e] BY <1>0, <3>2 DEF CodeInv, CodeTypes
      <4>2. /\ codes[c].open /\ codes[c].purpose = "registration"
            /\ codes[c].email = e
        BY <1>0, <3>2, <4>1 DEF CodeInv, RegistrationStands
      <4>3. c # q.code /\ c \notin q.closes
        BY <1>1, <1>3, <1>4, <4>2 DEF Closes, NoCode
      <4>4. ~(q.op = "register" /\ c = registration[q.email])
        BY <1>0, <1>4, <3>2, <4>1, <4>2 DEF CodeInv, RegistrationStands
      <4>5. codes'[c] = codes[c] BY <1>5, <4>3, <4>4 DEF CommitEffect
      <4>6. registration'[e] = c BY <1>0, <1>2, <3>2, <4>1 DEF CodeInv, CodeTypes
      <4> QED BY <4>2, <4>5, <4>6 DEF RegistrationStands
    <3>3. CASE ~(q.op = "register" /\ e = q.email) /\ registration[e] = None
      <4>1. registration'[e] = None BY <1>0, <1>2, <3>3 DEF CodeInv, CodeTypes
      <4> QED BY <4>1 DEF RegistrationStands
    <3> QED BY <3>1, <3>2, <3>3
  <2>4. ASSUME NEW u \in Users, NEW c \in OpenResets(u)', NEW d \in OpenResets(u)'
        PROVE  c = d
    <3>1. CASE q.op = "register" \/ u # q.user
      BY <1>0, <1>10, <2>4, <3>1 DEF CodeInv
    <3>2. CASE q.op = "forgot" /\ u = q.user
      <4>1. ASSUME NEW x \in OpenResets(u)' PROVE x = q.code
        <5>1. SUFFICES ASSUME x # q.code PROVE FALSE OBVIOUS
        <5>2. x \in OpenResets(u) /\ x \notin q.closes
          BY <1>5, <4>1, <5>1 DEF CommitEffect, OpenResets
        <5> QED BY <1>1, <1>3, <3>2, <5>2 DEF Closes
      <4> QED BY <2>4, <4>1
    <3> QED BY <1>4, <3>1, <3>2
  <2>5. ASSUME NEW s \in Requests PROVE CodeRequestStands(s)'
    <3>1. CASE s = r BY <1>6, <1>7, <3>1 DEF CodeRequestStands
    <3>2. CASE s # r /\ pc[s] \in {"password", "mail", "commit"}
      <4>0. PICK k : k = call[s] OBVIOUS
      <4>1. pc'[s] = pc[s] /\ call'[s] = k /\ CodeRequestStands(s)
        BY <1>0, <1>7, <3>2, <4>0 DEF CodeInv
      <4>2. k.user = q.user => k.user = None
        BY <1>0, <1>1, <1>2, <3>2, <4>0 DEF LockInv, Holding
      <4>3. pc[s] = "password" => k.code = None \/ k.code \in OpenResets(k.user)'
        <5>1. SUFFICES ASSUME pc[s] = "password", k.code # None
                       PROVE  k.code \in OpenResets(k.user)'
          OBVIOUS
        <5>2. /\ k.code \in Codes /\ codes[k.code].open /\ k.user \in Users
              /\ codes[k.code].purpose = "reset" /\ codes[k.code].user = k.user
          BY <1>0, <4>0, <4>1, <5>1
             DEF CodeRequestStands, OpenResets, LockInv, HolderStands
        <5>3. k.code # q.code /\ k.code \notin q.closes
          BY <1>1, <1>3, <1>4, <4>2, <5>2 DEF Closes, NoCode
        <5>4. ~(q.op = "register" /\ k.code = registration[q.email])
          BY <1>0, <1>4, <5>2 DEF CodeInv, RegistrationStands, Codes
        <5>5. codes'[k.code] = codes[k.code] BY <1>5, <5>2, <5>3, <5>4 DEF CommitEffect
        <5> QED BY <5>2, <5>5 DEF OpenResets
      <4>4. pc[s] \in {"mail", "commit"} => Closes(s)'
        <5>1. SUFFICES ASSUME pc[s] \in {"mail", "commit"} PROVE Closes(s)' OBVIOUS
        <5>2. Closes(s) /\ CodeHolderStands(s)
          BY <1>0, <4>1, <5>1 DEF CodeRequestStands, LockInv, HolderStands
        <5>3. k.op = "forgot" => OpenResets(k.user)' \subseteq k.closes
          <6>1. k.op = "forgot" => k.user \in Users /\ k.user # q.user
            BY <4>0, <4>2, <5>2 DEF CodeHolderStands
          <6>2. k.op = "forgot" => OpenResets(k.user) \subseteq k.closes
            BY <4>0, <5>2 DEF Closes
          <6>3. k.op = "forgot" => OpenResets(k.user)' \subseteq OpenResets(k.user)
            BY <1>10, <6>1
          <6> QED BY <6>2, <6>3
        <5>4. \A c \in k.closes : /\ c \in Codes /\ codes'[c].purpose = "reset"
                                  /\ codes'[c].user = k.user
          BY <1>4, <1>5, <4>0, <5>2 DEF Closes, CommitEffect, NoCode
        <5> QED BY <4>1, <5>3, <5>4 DEF Closes
      <4>5. pc[s] = "commit" => k.code \in 1 .. drawn /\ codes'[k.code] = NoCode
        <5>1. SUFFICES ASSUME pc[s] = "commit"
                       PROVE  k.code \in 1 .. drawn /\ codes'[k.code] = NoCode
          OBVIOUS
        <5>2. k.code \in 1 .. drawn /\ codes[k.code] = NoCode /\ k.code \in Codes
          BY <1>0, <4>0, <4>1, <5>1 DEF CodeRequestStands, CodeInv, CodeTypes, Codes
        <5>3. k.code # q.code BY <1>0, <1>1, <1>2, <3>2, <4>0, <5>1 DEF CodeInv
        <5> QED BY <1>9, <5>2, <5>3
      <4> QED BY <1>2, <4>1, <4>3, <4>4, <4>5 DEF CodeRequestStands
    <3>3. CASE s # r /\ pc[s] \notin {"password", "mail", "commit"}
      BY <1>7, <3>3 DEF CodeRequestStands
    <3> QED BY <3>1, <3>2, <3>3
  <2>6. \A s, t \in Requests :
            pc'[s] = "commit" /\ pc'[t] = "commit" /\ call'[s].code = call'[t].code => s = t
    BY <1>0, <1>6, <1>7 DEF CodeInv
  <2> QED BY <2>1, <2>2, <2>3, <2>4, <2>5, <2>6 DEF CodeInv
<1>12. LetterInv'
  <2>1. LetterTypes'
    <3>1. letters' \in [Codes -> {"none", "pending", "sent", "failed", "cancelled", "expired"}]
      BY <1>0, <1>2 DEF LetterInv, LetterTypes
    <3> QED BY <1>0, <1>2, <3>1 DEF LetterInv, LetterTypes, workerVars
  <2>2. \A c \in Codes :
            c # q.code => UNCHANGED <<codes[c].purpose, codes[c].email>>
    BY <1>5 DEF CommitEffect
  <2>3. /\ \A c \in Codes : letters'[c] = "pending" =>
                c = q.code \/ (letters[c] = "pending" /\ c \notin q.cancels)
        /\ letters'[q.code] \in {"none", "pending"}
        /\ \A c \in Codes : c # q.code /\ c \notin q.cancels => letters'[c] = letters[c]
    BY <1>2, <1>4
  <2>4. /\ sends[q.code] = 0 /\ letters[q.code] = "none" /\ cur \notin q.cancels
        /\ \A c \in q.cancels : codes[c].purpose # "none"
        /\ PendingFor(q.email, Purpose(q.op)) \subseteq q.cancels
        /\ NoneAfter(q.code, q.email, Purpose(q.op))
    BY <1>1, <1>3 DEF Cancels
  <2>5. \A c \in Codes : codes[c] = NoCode => c \notin q.cancels BY <2>4 DEF NoCode
  <2>6. ASSUME NEW c \in Codes PROVE LetterStands(c)'
    <3>1. LetterStands(c) /\ CodeStands(c) BY <1>0 DEF LetterInv, CodeInv
    <3>2. ASSUME letters'[c] = "pending"
          PROVE  sends[c] < MaxSends /\ NoneAfter(c, codes[c].email, codes[c].purpose)'
      <4>1. CASE c = q.code
        <5>1. NoneAfter(c, codes[c].email, codes[c].purpose)'
          BY <1>4, <1>8, <2>2, <2>4, <4>1 DEF NoneAfter, Codes
        <5> QED BY <2>4, <4>1, <5>1
      <4>2. CASE c # q.code /\ letters[c] = "pending" /\ c \notin q.cancels
        <5>1. sends[c] < MaxSends /\ NoneAfter(c, codes[c].email, codes[c].purpose)
          BY <3>1, <4>2 DEF LetterStands
        <5>2. ~(codes[c].email = q.email /\ codes[c].purpose = Purpose(q.op))
          BY <2>4, <4>2 DEF PendingFor
        <5>3. NoneAfter(c, codes[c].email, codes[c].purpose)'
          BY <1>4, <1>8, <2>2, <4>2, <5>1, <5>2 DEF NoneAfter
        <5> QED BY <5>1, <5>3
      <4> QED BY <2>3, <3>2, <4>1, <4>2
    <3>3. ASSUME c > drawn PROVE letters'[c] = "none" /\ sends[c] = 0
      <4>1. c # q.code /\ c \notin q.cancels
        BY <1>0, <1>4, <2>5, <3>1, <3>3 DEF CodeStands, CodeInv, CodeTypes, Codes
      <4> QED BY <2>3, <3>1, <3>3, <4>1 DEF LetterStands
    <3> QED BY <1>2, <3>2, <3>3 DEF LetterStands
  <2>7. cur' # None => letters'[cur'] = "pending"
    <3>1. cur # None => cur \in Codes /\ letters[cur] = "pending" /\ cur # q.code
      BY <1>0, <2>4 DEF LetterInv, LetterTypes
    <3> QED BY <1>2, <2>3, <2>4, <3>1 DEF workerVars
  <2>8. ASSUME NEW s \in Requests, pc'[s] = "commit" PROVE Cancels(s)'
    <3>0. PICK k : k = call[s] OBVIOUS
    <3>1. /\ s # r /\ pc[s] = "commit" /\ call'[s] = k /\ Cancels(s)
          /\ CodeHolderStands(s)
      BY <1>0, <1>6, <1>7, <2>8, <3>0 DEF LetterInv, LockInv, HolderStands
    <3>2. k.code \in Codes /\ codes[k.code] = NoCode /\ k.code # q.code
      BY <1>0, <1>1, <1>2, <3>0, <3>1
         DEF CodeInv, CodeRequestStands, CodeTypes, Codes
    <3>3. ~(k.email = q.email /\ Purpose(k.op) = Purpose(q.op))
      <4>1. k.op = q.op /\ k.email = q.email => r = s
        BY <1>1, <1>2, <3>0, <3>1, OneCommit
      <4>2. k.op \in {"forgot", "register"} BY <3>0, <3>1 DEF CodeHolderStands
      <4> QED BY <1>4, <3>1, <4>1, <4>2 DEF Purpose
    <3>4. letters'[k.code] = "none" /\ sends'[k.code] = 0
      <4>1. letters[k.code] = "none" /\ sends[k.code] = 0 BY <3>0, <3>1 DEF Cancels
      <4> QED BY <1>2, <2>3, <2>5, <3>2, <4>1
    <3>5. PendingFor(k.email, Purpose(k.op))' \subseteq k.cancels
      <4>1. PICK e, p : e = k.email /\ p = Purpose(k.op) OBVIOUS
      <4>2. PendingFor(e, p)' \subseteq PendingFor(e, p)
        BY <1>8, <2>2, <2>3, <3>3, <4>1 DEF PendingFor
      <4>3. PendingFor(e, p) \subseteq k.cancels BY <3>0, <3>1, <4>1 DEF Cancels
      <4> QED BY <4>1, <4>2, <4>3 DEF PendingFor
    <3>6. NoneAfter(k.code, k.email, Purpose(k.op))'
      <4>1. PICK e, p : e = k.email /\ p = Purpose(k.op) OBVIOUS
      <4>2. NoneAfter(k.code, e, p) BY <3>0, <3>1, <4>1 DEF Cancels
      <4>3. \A d \in Codes : d > k.code => ~(codes'[d].email = e /\ codes'[d].purpose = p)
        BY <1>8, <2>2, <3>3, <4>1, <4>2 DEF NoneAfter
      <4> QED BY <4>1, <4>3 DEF NoneAfter
    <3>7. /\ k.cancels \subseteq Codes /\ cur' \notin k.cancels /\ k.sent \in BOOLEAN
          /\ \A c \in k.cancels : codes'[c].purpose # "none"
      <4>1. /\ k.cancels \subseteq Codes /\ cur \notin k.cancels /\ k.sent \in BOOLEAN
            /\ \A c \in k.cancels : codes[c].purpose # "none"
        BY <3>0, <3>1 DEF Cancels
      <4>2. Purpose(q.op) # "none" BY DEF Purpose
      <4> QED BY <1>2, <1>8, <2>2, <4>1, <4>2 DEF workerVars
    <3>8. Purpose(k.op)' = Purpose(k.op) BY DEF Purpose
    <3> QED BY <3>1, <3>4, <3>5, <3>6, <3>7, <3>8 DEF Cancels
  <2>9. \A s, t \in Requests :
            pc'[s] = "commit" /\ pc'[t] = "commit" /\ call'[s].op = "register"
                /\ call'[t].op = "register" /\ call'[s].email = call'[t].email => s = t
    BY <1>0, <1>6, <1>7 DEF LetterInv
  <2> QED BY <2>1, <2>6, <2>7, <2>8, <2>9 DEF LetterInv
<1>13. CountInv'
  <2>1. Wrong' \subseteq Wrong /\ Askers' \subseteq Askers
    BY <1>1, <1>2, <1>6, <1>7 DEF Wrong, Askers
  <2>2. faults' \in 0 .. MaxFaults BY <1>0, <1>2 DEF CountInv
  <2> QED BY <1>0, <1>2, <2>1, <2>2, CountKept
<1> QED BY <1>2, <1>6, <1>11, <1>12, <1>13, MoveStep DEF IInv, Holding
(* A code that is open is tried, confirmed or expires, and stays open.     *)
LEMMA CodeTouched ==
    ASSUME IInv, NEW c \in Codes, codes[c].open, NEW k \in Code_,
           k.purpose = codes[c].purpose, k.email = codes[c].email,
           k.user = codes[c].user, k.uses = codes[c].uses, k.open,
           codes' = [codes EXCEPT ![c] = k],
           UNCHANGED <<menu, userVars, reserved, avatarVars, tokens, drawn, registration,
                       doomed, letterVars, mailed, counterVars, requestVars, workerVars,
                       faults>>
    PROVE  IInv'
<1>0. LockInv /\ CodeInv /\ LetterInv /\ CountInv BY DEF IInv
<1>1. Kept({"password", "mail", "commit"}) /\ Kept({"commit"}) BY DEF Kept, requestVars
<1>2. codes'[c] = k /\ \A d \in Codes \ {c} : codes'[d] = codes[d]
  BY <1>0 DEF CodeInv, CodeTypes
<1>3. codes' \in [Codes -> Code_] BY <1>0 DEF CodeInv, CodeTypes
<1>4. codes[c] # NoCode BY DEF NoCode
<1>5. \A d \in Codes :
          /\ codes[d] = NoCode => codes'[d] = NoCode
          /\ UNCHANGED <<codes[d].purpose, codes[d].email, codes[d].user>>
          /\ codes'[d].open => codes[d].open /\ codes'[d].uses = codes[d].uses
          /\ \/ codes'[d].uses = codes[d].uses
             \/ codes[d].open /\ codes'[d].uses = codes[d].uses + 1
          /\ codes'[d].open = codes[d].open
  <2>1. CASE TRUE
    <3>1. ASSUME NEW d \in Codes \ {c} PROVE codes'[d] = codes[d] BY <1>2
    <3>2. codes'[c].open = codes[c].open
      BY <1>0, <1>2 DEF CodeInv, CodeTypes, Code_
    <3> QED BY <1>2, <1>4, <3>1, <3>2
  <2> QED BY <2>1
<1>6. \A e \in Emails : registration'[e] # None =>
          registration'[e] = registration[e] /\ codes'[registration[e]].open
  BY <1>0, <1>5 DEF CodeInv, CodeTypes, RegistrationStands
<1>7. \A r \in Requests, d \in Codes :
          pc'[r] = "password" /\ call'[r].code = d => UNCHANGED codes[d].open
  BY <1>5
<1>8. CodeInv' /\ Labels
  <2>1. doomed' \subseteq Emails /\ registration' \in [Emails -> Codes \cup {None}]
    BY <1>0 DEF CodeInv, CodeTypes
  <2> QED BY <1>0, <1>1, <1>3, <1>5, <1>6, <1>7, <2>1, CodesSettle
<1>9. faults' \in 0 .. MaxFaults BY <1>0 DEF CountInv
<1> QED BY <1>8, <1>9, StillStep DEF IInv

LEMMA ConfirmResetStep ==
    ASSUME IInv, NEW r \in Requests, NEW e \in Emails, NEW right \in BOOLEAN,
           ConfirmReset(r, e, right)
    PROVE  IInv'
<1>1. PICK u \in ActiveUser(e) : \E c \in OpenResets(u) :
          codes' = IF right THEN [codes EXCEPT ![c].confirmed = TRUE]
                            ELSE [codes EXCEPT ![c].guesses = @ + 1]
  BY DEF ConfirmReset
<1>2. PICK c \in OpenResets(u) :
          codes' = IF right THEN [codes EXCEPT ![c].confirmed = TRUE]
                            ELSE [codes EXCEPT ![c].guesses = @ + 1]
  BY <1>1
<1>3. c \in Codes /\ codes[c].open /\ codes[c] \in Code_
  BY DEF IInv, CodeInv, CodeTypes, OpenResets
<1>4. PICK n \in Code_ : n = codes[c] BY <1>3
<1> DEFINE k == IF right THEN [n EXCEPT !.confirmed = TRUE]
                         ELSE [n EXCEPT !.guesses = n.guesses + 1]
<1>7. /\ k \in Code_ /\ k.purpose = n.purpose /\ k.email = n.email /\ k.user = n.user
      /\ k.uses = n.uses /\ k.open = n.open
  <2>1. n.guesses + 1 \in Nat BY DEF Code_
  <2>2. CASE right BY <2>2 DEF Code_
  <2>3. CASE ~right BY <2>1, <2>3 DEF Code_
  <2> QED BY <2>2, <2>3
<1>5. codes' = [codes EXCEPT ![c] = k] BY <1>2, <1>4
<1>6. UNCHANGED <<menu, userVars, reserved, avatarVars, tokens, drawn, registration,
                  doomed, letterVars, mailed, counterVars, requestVars, workerVars, faults>>
  BY DEF ConfirmReset
<1> HIDE DEF k
<1> QED BY <1>3, <1>4, <1>5, <1>6, <1>7, CodeTouched

LEMMA ExpireCodeStep == ASSUME IInv, NEW c \in Codes, ExpireCode(c) PROVE IInv'
<1>1. codes[c].open /\ codes[c] \in Code_ /\ codes' = [codes EXCEPT ![c].expired = TRUE]
  BY DEF ExpireCode, IInv, CodeInv, CodeTypes
<1>2. PICK n \in Code_ : n = codes[c] BY <1>1
<1> DEFINE k == [n EXCEPT !.expired = TRUE]
<1>5. /\ k \in Code_ /\ k.purpose = n.purpose /\ k.email = n.email /\ k.user = n.user
      /\ k.uses = n.uses /\ k.open = n.open
  BY DEF Code_
<1>3. codes' = [codes EXCEPT ![c] = k] BY <1>1, <1>2
<1>4. UNCHANGED <<menu, userVars, reserved, avatarVars, tokens, drawn, registration,
                  doomed, letterVars, mailed, counterVars, requestVars, workerVars, faults>>
  BY DEF ExpireCode
<1> HIDE DEF k
<1> QED BY <1>1, <1>2, <1>3, <1>4, <1>5, CodeTouched

LEMMA SelectExpiredStep == ASSUME IInv, SelectExpired PROVE IInv'
<1>0. CodeInv /\ CountInv BY DEF IInv
<1>1. /\ doomed' \subseteq Emails
      /\ UNCHANGED <<menu, userVars, reserved, avatarVars, tokens, codes, drawn,
                     registration, letterVars, mailed, counterVars, requestVars,
                     workerVars, faults>>
  BY DEF SelectExpired
<1>2. CodeInv' /\ Labels
  <2>1. Kept({"password", "mail", "commit"}) BY <1>1 DEF Kept, requestVars
  <2>2. \A c \in Codes :
            /\ codes[c] = NoCode => codes'[c] = NoCode
            /\ UNCHANGED <<codes[c].purpose, codes[c].email, codes[c].user>>
            /\ codes'[c].open => codes[c].open /\ codes'[c].uses = codes[c].uses
            /\ \/ codes'[c].uses = codes[c].uses
               \/ codes[c].open /\ codes'[c].uses = codes[c].uses + 1
    BY <1>1
  <2>3. \A e \in Emails : registration'[e] # None =>
            registration'[e] = registration[e] /\ codes'[registration[e]].open
    BY <1>0, <1>1 DEF CodeInv, RegistrationStands
  <2>4. \A r \in Requests, d \in Codes :
            pc'[r] = "password" /\ call'[r].code = d => UNCHANGED codes[d].open
    BY <1>1
  <2>5. codes' \in [Codes -> Code_] /\ registration' \in [Emails -> Codes \cup {None}]
    BY <1>0, <1>1 DEF CodeInv, CodeTypes
  <2> QED BY <1>0, <1>1, <2>1, <2>2, <2>3, <2>4, <2>5, CodesSettle
<1>3. faults' \in 0 .. MaxFaults BY <1>0, <1>1 DEF CountInv
<1> QED BY <1>1, <1>2, <1>3, StillStep DEF IInv

(* The codes of registrations are not those that a request has locked.     *)
LEMMA ResetsAreOther ==
    ASSUME CodeInv, NEW r \in Requests, pc[r] = "password", NEW e \in Emails,
           registration[e] # None
    PROVE  call[r].code # registration[e]
BY DEF CodeInv, CodeRequestStands, RegistrationStands, OpenResets

LEMMA DeleteSelectedStep == ASSUME IInv, DeleteSelected PROVE IInv'
<1>0. CodeInv /\ CountInv BY DEF IInv
<1>1. /\ codes' = [c \in Codes |-> IF \E e \in doomed : registration[e] = c
                                   THEN [codes[c] EXCEPT !.open = FALSE] ELSE codes[c]]
      /\ registration' = [e \in Emails |-> IF e \in doomed THEN None ELSE registration[e]]
      /\ doomed' = {} /\ doomed \subseteq Emails
      /\ UNCHANGED <<menu, userVars, reserved, avatarVars, tokens, drawn, letterVars, mailed,
                     counterVars, requestVars, workerVars, faults>>
  BY <1>0 DEF DeleteSelected, CodeInv, CodeTypes
<1>2. ASSUME NEW c \in Codes
      PROVE  /\ codes'[c] \in Code_
             /\ UNCHANGED <<codes[c].purpose, codes[c].email, codes[c].user, codes[c].uses>>
             /\ codes'[c].open => codes[c].open
             /\ codes'[c] = codes[c] \/ \E e \in doomed : registration[e] = c
             /\ codes'[c] = codes[c] \/ ~codes'[c].open
  <2>1. PICK k \in Code_ : k = codes[c] BY <1>0 DEF CodeInv, CodeTypes
  <2>2. CASE \E e \in doomed : registration[e] = c
    <3>1. codes'[c] = [k EXCEPT !.open = FALSE] BY <1>1, <2>1, <2>2
    <3> QED BY <2>1, <2>2, <3>1 DEF Code_
  <2>3. CASE ~\E e \in doomed : registration[e] = c
    <3>1. codes'[c] = k BY <1>1, <2>1, <2>3
    <3> QED BY <2>1, <3>1
  <2> QED BY <2>2, <2>3
<1>3. CodeInv' /\ Labels
  <2>1. Kept({"password", "mail", "commit"}) BY <1>1 DEF Kept, requestVars
  <2>2. ASSUME NEW c \in Codes
        PROVE  /\ codes[c] = NoCode => codes'[c] = NoCode
               /\ UNCHANGED <<codes[c].purpose, codes[c].email, codes[c].user>>
               /\ codes'[c].open => codes[c].open /\ codes'[c].uses = codes[c].uses
               /\ \/ codes'[c].uses = codes[c].uses
                  \/ codes[c].open /\ codes'[c].uses = codes[c].uses + 1
    <3>1. codes[c] = NoCode => codes'[c] = codes[c]
      <4>1. \A e \in doomed : registration[e] = c => codes[c].open
        BY <1>0, <1>1 DEF CodeInv, RegistrationStands, Codes
      <4> QED BY <1>2, <4>1 DEF NoCode
    <3> QED BY <1>2, <3>1
  <2>3. ASSUME NEW e \in Emails, registration'[e] # None
        PROVE  registration'[e] = registration[e] /\ codes'[registration[e]].open
    <3>1. e \notin doomed /\ registration'[e] = registration[e] /\ registration[e] \in Codes
      BY <1>0, <1>1, <2>3 DEF CodeInv, CodeTypes
    <3>2. codes[registration[e]].open /\ codes[registration[e]].email = e
      BY <1>0, <2>3, <3>1 DEF CodeInv, RegistrationStands
    <3>3. ~\E d \in doomed : registration[d] = registration[e]
      BY <1>0, <1>1, <2>3, <3>1, <3>2 DEF CodeInv, RegistrationStands
    <3> QED BY <1>2, <3>1, <3>2, <3>3
  <2>4. ASSUME NEW r \in Requests, NEW d \in Codes, pc'[r] = "password", call'[r].code = d
        PROVE  UNCHANGED codes[d].open
    <3>1. pc[r] = "password" /\ call[r].code = d BY <1>1, <2>4 DEF requestVars
    <3>2. ~\E e \in doomed : registration[e] = d
      BY <1>0, <1>1, <3>1, ResetsAreOther DEF Codes
    <3> QED BY <1>2, <3>2
  <2>5. /\ codes' \in [Codes -> Code_] /\ doomed' \subseteq Emails
        /\ registration' \in [Emails -> Codes \cup {None}]
    BY <1>0, <1>1, <1>2 DEF CodeInv, CodeTypes
  <2>6. drawn' = drawn BY <1>1
  <2> QED BY <1>0, <2>1, <2>2, <2>3, <2>4, <2>5, <2>6, CodesSettle
<1>4. faults' \in 0 .. MaxFaults BY <1>0, <1>1 DEF CountInv
<1> QED BY <1>1, <1>3, <1>4, StillStep DEF IInv
(* The users that requests hold are active. *)
LEMMA HeldIsActive ==
    ASSUME LockInv, NEW r \in Requests, NEW u \in Users, pc[r] \in Holding, call[r].user = u
    PROVE  status[u] = "active"
<1>1. HolderStands(r) BY DEF LockInv
<1> QED BY <1>1 DEF HolderStands, CodeHolderStands, Holding

LEMMA WrongRegistrationCode ==
    ASSUME IInv, NEW r \in Requests, NEW e \in Emails, ConfirmRegistration(r, e, FALSE)
    PROVE  IInv'
<1>1. PICK c \in Codes : c = registration[e] /\ codes[c].open
  BY DEF ConfirmRegistration, IInv, CodeInv, CodeTypes, RegistrationStands
<1>2. /\ codes' = [codes EXCEPT ![c].guesses = @ + 1]
      /\ UNCHANGED <<menu, userVars, reserved, avatarVars, tokens, drawn, registration,
                     doomed, letterVars, mailed, counterVars, requestVars, workerVars, faults>>
  BY <1>1 DEF ConfirmRegistration
<1>3. PICK n \in Code_ : n = codes[c] BY DEF IInv, CodeInv, CodeTypes
<1> DEFINE k == [n EXCEPT !.guesses = n.guesses + 1]
<1>4. /\ k \in Code_ /\ k.purpose = n.purpose /\ k.email = n.email /\ k.user = n.user
      /\ k.uses = n.uses /\ k.open = n.open
  <2>1. n.guesses + 1 \in Nat BY DEF Code_
  <2> QED BY <2>1 DEF Code_
<1>5. codes' = [codes EXCEPT ![c] = k] BY <1>2, <1>3
<1> HIDE DEF k
<1> QED BY <1>1, <1>2, <1>3, <1>4, <1>5, CodeTouched

LEMMA RightRegistrationCode ==
    ASSUME IInv, NEW r \in Requests, NEW e \in Emails, ConfirmRegistration(r, e, TRUE)
    PROVE  IInv'
<1>0. UserInv /\ LockInv /\ TokenInv /\ CodeInv /\ LetterInv /\ CountInv BY DEF IInv
<1>1. PICK c \in Codes : /\ c = registration[e] /\ codes[c].open
                         /\ codes[c].purpose = "registration" /\ codes[c].email = e
  BY <1>0 DEF ConfirmRegistration, CodeInv, CodeTypes, RegistrationStands
<1> DEFINE t == Free(Unissued)
<1>2. /\ Available(e) /\ Unissued # {}
      /\ codes' = [codes EXCEPT ![c].open = FALSE, ![c].uses = @ + 1]
      /\ registration' = [registration EXCEPT ![e] = None]
      /\ doomed' = doomed \ {e}
      /\ UNCHANGED <<password, version>>
      /\ UNCHANGED <<menu, reserved, avatarVars, drawn, letterVars, mailed, counterVars,
                     requestVars, workerVars, faults>>
  BY <1>1 DEF ConfirmRegistration
<1>3. PICK u \in Users :
          /\ status[u] = "none"
          /\ status' = [status EXCEPT ![u] = "active"]
          /\ email' = [email EXCEPT ![u] = e]
          /\ tokens' = [tokens EXCEPT ![t] =
                 [user |-> u, session |-> t, version |-> version[u],
                  password |-> password[u], valid |-> TRUE]]
  BY DEF ConfirmRegistration
<1>4. t \in Unissued /\ t \in Nat BY <1>2, Least DEF Unissued, Tokens
<1>5. /\ version[u] = password[u] /\ version[u] \in Nat /\ version[u] <= MaxPasswords
  BY <1>0, <1>3 DEF UserInv, UserTypes, UserStands
<1>6. /\ status'[u] = "active" /\ email'[u] = e
      /\ \A v \in Users \ {u} : status'[v] = status[v] /\ email'[v] = email[v]
  BY <1>0, <1>3 DEF UserInv, UserTypes
<1> HIDE DEF t
<1>7. \A S : Kept(S) BY <1>2 DEF Kept, requestVars
<1>8. UserInv'
  <2>1. UserTypes' BY <1>0, <1>2, <1>3 DEF UserInv, UserTypes
  <2>2. \A v \in Users : UserStands(v)' BY <1>0, <1>2, <1>5, <1>6 DEF UserInv, UserStands
  <2>3. \A v, w \in Users : email'[v] = email'[w] /\ email'[v] # None => v = w
    BY <1>0, <1>2, <1>6 DEF UserInv, Available
  <2> QED BY <2>1, <2>2, <2>3 DEF UserInv
<1>9. LockInv'
  <2>1. ASSUME NEW s \in Requests, NEW v \in Users, pc'[s] \in Holding, call'[s].user = v
        PROVE  UNCHANGED <<status[v], email[v], password[v]>>
    <3>1. v # u BY <1>0, <1>2, <1>3, <2>1, HeldIsActive DEF requestVars
    <3> QED BY <1>2, <1>6, <3>1
  <2>2. StepTypes' BY <1>0, <1>2 DEF LockInv, StepTypes, requestVars
  <2> QED BY <1>0, <1>7, <2>1, <2>2, LockKept
<1>10. TokenInv'
  <2>1. Ages BY <1>0, <1>2, <1>6 DEF Ages, UserInv, UserTypes
  <2>2. PICK k \in Token : k = [user |-> u, session |-> t, version |-> version[u],
                                password |-> password[u], valid |-> TRUE]
    BY <1>4, <1>5 DEF Token
  <2>3. /\ k.valid /\ k.user = u /\ k.user # None /\ k.session = t
        /\ k.version = version[u] /\ k.password = password[u]
    BY <2>2
  <2>4. Known(k.user, k.version, k.password)' BY <1>2, <1>5, <1>6, <2>3 DEF Known
  <2>5. tokens' = [tokens EXCEPT ![t] = k] BY <1>3, <2>2
  <2> QED BY <1>0, <1>4, <1>7, <2>1, <2>3, <2>4, <2>5, NewToken
<1>11. CodeInv' /\ Labels
  <2>1. PICK n \in Code_ : n = codes[c] /\ n.uses = 0 /\ n # NoCode
    BY <1>0, <1>1 DEF CodeInv, CodeTypes, CodeStands, NoCode
  <2>2. codes'[c] = [n EXCEPT !.open = FALSE, !.uses = n.uses + 1]
    BY <1>0, <1>2, <2>1 DEF CodeInv, CodeTypes
  <2>3. /\ codes'[c] \in Code_ /\ ~codes'[c].open /\ codes'[c].uses = codes[c].uses + 1
        /\ UNCHANGED <<codes[c].purpose, codes[c].email, codes[c].user>>
    <3>1. n.uses + 1 \in Nat BY <2>1
    <3> QED BY <2>1, <2>2, <3>1 DEF Code_
  <2>4. \A d \in Codes \ {c} : codes'[d] = codes[d]
    BY <1>0, <1>2 DEF CodeInv, CodeTypes
  <2>5. codes' \in [Codes -> Code_]
    <3>1. codes' = [d \in Codes |-> codes'[d]] BY <1>0, <1>2 DEF CodeInv, CodeTypes
    <3>2. \A d \in Codes : codes'[d] \in Code_ BY <1>0, <2>3, <2>4 DEF CodeInv, CodeTypes
    <3> QED BY <3>1, <3>2
  <2>6. ASSUME NEW d \in Codes
        PROVE  /\ codes[d] = NoCode => codes'[d] = NoCode
               /\ UNCHANGED <<codes[d].purpose, codes[d].email, codes[d].user>>
               /\ codes'[d].open => codes[d].open /\ codes'[d].uses = codes[d].uses
               /\ \/ codes'[d].uses = codes[d].uses
                  \/ codes[d].open /\ codes'[d].uses = codes[d].uses + 1
    <3>1. CASE d = c BY <1>1, <2>1, <2>3, <3>1
    <3>2. CASE d # c BY <2>4, <3>2
    <3> QED BY <3>1, <3>2
  <2>7. ASSUME NEW d \in Emails, registration'[d] # None
        PROVE  registration'[d] = registration[d] /\ codes'[registration[d]].open
    <3>1. d # e /\ registration'[d] = registration[d] /\ registration[d] \in Codes
      BY <1>0, <1>2, <2>7 DEF CodeInv, CodeTypes
    <3>2. codes[registration[d]].open /\ codes[registration[d]].email = d
      BY <1>0, <2>7, <3>1 DEF CodeInv, RegistrationStands
    <3> QED BY <1>1, <2>4, <3>1, <3>2
  <2>8. ASSUME NEW s \in Requests, NEW d \in Codes, pc'[s] = "password", call'[s].code = d
        PROVE  UNCHANGED codes[d].open
    <3>1. d # c
      BY <1>0, <1>1, <1>2, <2>8, ResetsAreOther DEF requestVars, Codes
    <3> QED BY <2>4, <3>1
  <2>9. /\ doomed' \subseteq Emails /\ registration' \in [Emails -> Codes \cup {None}]
        /\ drawn' = drawn
    BY <1>0, <1>2 DEF CodeInv, CodeTypes
  <2> QED BY <1>0, <1>7, <2>5, <2>6, <2>7, <2>8, <2>9, CodesSettle
<1>12. faults' \in 0 .. MaxFaults BY <1>0, <1>2 DEF CountInv
<1> QED BY <1>2, <1>8, <1>9, <1>10, <1>11, <1>12, StillStep DEF IInv

LEMMA ConfirmRegistrationStep ==
    ASSUME IInv, NEW r \in Requests, NEW e \in Emails, NEW right \in BOOLEAN,
           ConfirmRegistration(r, e, right)
    PROVE  IInv'
<1>1. CASE right
  <2>1. ConfirmRegistration(r, e, TRUE) BY <1>1
  <2> QED BY <2>1, RightRegistrationCode
<1>2. CASE ~right
  <2>1. ConfirmRegistration(r, e, FALSE) BY <1>2
  <2> QED BY <2>1, WrongRegistrationCode
<1> QED BY <1>1, <1>2
-----------------------------------------------------------------------------
(* The profile. *)

LEMMA EditEmailStep ==
    ASSUME IInv, NEW r \in Requests, NEW u \in Users, NEW e \in Emails, EditEmail(r, u, e)
    PROVE  IInv'
<1>0. LockInv /\ CountInv BY DEF IInv
<1> DEFINE q == [user |-> u, email |-> e]
<1>1. /\ status[u] = "active" /\ UserFree(u) /\ Go(r, "edit", q)
      /\ q.user = u /\ q.email = e
      /\ UNCHANGED <<menu, userVars, reserved, avatarVars, tokens, codeVars, letterVars,
                     mailed, counterVars, workerVars, faults>>
  BY DEF EditEmail, LockProfile
<1> HIDE DEF q
<1>2. "edit" \in Steps /\ "edit" \in Holding BY DEF Steps, Holding
<1>3. pc'[r] = "edit" /\ call'[r] = q BY <1>0, <1>1, <1>2, Moves
<1>4. LockInv'
  <2>1. HolderStands(r)' BY <1>1, <1>3 DEF HolderStands, userVars
  <2>2. \A s \in Requests : s # r /\ pc[s] \in Holding => call[s].user # q.user
    BY <1>1 DEF UserFree, Holding
  <2>3. UNCHANGED userVars BY <1>1
  <2> QED BY <1>0, <1>1, <1>2, <2>1, <2>2, <2>3, LockTaken
<1>5. faults' \in 0 .. MaxFaults BY <1>0, <1>1 DEF CountInv
<1> QED BY <1>1, <1>2, <1>4, <1>5, MoveStep DEF IInv

LEMMA DeleteProfileStep ==
    ASSUME IInv, NEW r \in Requests, NEW u \in Users, DeleteProfile(r, u)
    PROVE  IInv'
<1>0. LockInv /\ CountInv BY DEF IInv
<1> DEFINE q == [op |-> "delete", user |-> u]
<1>1. /\ status[u] = "active" /\ UserFree(u) /\ Go(r, "delete", q) /\ q.user = u
      /\ UNCHANGED <<menu, userVars, reserved, avatarVars, tokens, codeVars, letterVars,
                     mailed, counterVars, workerVars, faults>>
  BY DEF DeleteProfile, LockProfile
<1> HIDE DEF q
<1>2. "delete" \in Steps /\ "delete" \in Holding BY DEF Steps, Holding
<1>3. pc'[r] = "delete" /\ call'[r] = q BY <1>0, <1>1, <1>2, Moves
<1>4. LockInv'
  <2>1. HolderStands(r)' BY <1>1, <1>3 DEF HolderStands, userVars
  <2>2. \A s \in Requests : s # r /\ pc[s] \in Holding => call[s].user # q.user
    BY <1>1 DEF UserFree, Holding
  <2>3. UNCHANGED userVars BY <1>1
  <2> QED BY <1>0, <1>1, <1>2, <2>1, <2>2, <2>3, LockTaken
<1>5. faults' \in 0 .. MaxFaults BY <1>0, <1>1 DEF CountInv
<1> QED BY <1>1, <1>2, <1>4, <1>5, MoveStep DEF IInv

(* What the others hold is not the user that is held and changed here.     *)
LEMMA OthersHold ==
    ASSUME LockInv, NEW r \in Requests, NEW u \in Users, pc[r] \in Holding,
           call[r].user = u, pc'[r] \notin Holding,
           \A s \in Requests : s # r => pc'[s] = pc[s] /\ call'[s] = call[s]
    PROVE  \A s \in Requests : pc'[s] \in Holding => call'[s].user # u
BY DEF LockInv

LEMMA SaveProfileStep == ASSUME IInv, NEW r \in Requests, SaveProfile(r) PROVE IInv'
<1>0. UserInv /\ LockInv /\ TokenInv /\ CountInv BY DEF IInv
<1>1. PICK u \in Users, e \in Emails :
          u = call[r].user /\ e = call[r].email /\ status[u] = "active" /\ pc[r] = "edit"
  BY <1>0 DEF SaveProfile, LockInv, HolderStands
<1>2. /\ email' = IF \E v \in Users : email[v] = e THEN email ELSE [email EXCEPT ![u] = e]
      /\ Go(r, "idle", None)
      /\ UNCHANGED <<menu, status, password, version, reserved, avatarVars, tokens,
                     codeVars, letterVars, mailed, counterVars, workerVars, faults>>
  BY <1>1 DEF SaveProfile, End
<1>3. "idle" \in Steps /\ "idle" \notin Holding /\ "edit" \in Holding
  BY DEF Steps, Holding
<1>4. /\ StepTypes' /\ pc'[r] = "idle" /\ \A S : "idle" \notin S => Kept(S)
      /\ \A s \in Requests : s # r => pc'[s] = pc[s] /\ call'[s] = call[s]
  BY <1>0, <1>2, <1>3, Moves
<1>5. /\ \A v \in Users \ {u} : email'[v] = email[v]
      /\ email'[u] = email[u] \/ (email'[u] = e /\ \A v \in Users : email[v] # e)
  BY <1>0, <1>2 DEF UserInv, UserTypes
<1>6. UserInv'
  <2>1. UserTypes' BY <1>0, <1>2 DEF UserInv, UserTypes
  <2>2. \A v \in Users : UserStands(v)' BY <1>0, <1>2, <1>5 DEF UserInv, UserStands
  <2>3. \A v, w \in Users : email'[v] = email'[w] /\ email'[v] # None => v = w
    BY <1>0, <1>5 DEF UserInv
  <2> QED BY <2>1, <2>2, <2>3 DEF UserInv
<1>7. LockInv'
  <2>1. \A s \in Requests : pc'[s] \in Holding => call'[s].user # u
    BY <1>0, <1>1, <1>3, <1>4, OthersHold
  <2>2. Kept(Holding \cup {"forgot"}) BY <1>4 DEF Holding
  <2> QED BY <1>0, <1>2, <1>4, <1>5, <2>1, <2>2, LockKept
<1>8. TokenInv'
  <2>1. Ages BY <1>0, <1>2 DEF Ages, UserInv, UserTypes
  <2> QED BY <1>0, <1>2, <1>4, <2>1, TokenKept
<1>9. faults' \in 0 .. MaxFaults BY <1>0, <1>2 DEF CountInv
<1> QED BY <1>2, <1>3, <1>6, <1>7, <1>8, <1>9, MoveStep DEF IInv

LEMMA UploadAvatarStep ==
    ASSUME IInv, NEW r \in Requests, NEW u \in Users, UploadAvatar(r, u)
    PROVE  IInv'
<1>0. LockInv /\ FileInv /\ CountInv BY DEF IInv
<1> DEFINE q == [user |-> u, new |-> saved + 1, old |-> avatar[u]]
<1>1. /\ status[u] = "active" /\ UserFree(u) /\ Go(r, "upload", q)
      /\ q.user = u /\ q.new = saved + 1 /\ q.old = avatar[u]
      /\ saved < MaxFiles /\ saved' = saved + 1 /\ files' = files \cup {saved + 1}
      /\ UNCHANGED <<menu, userVars, avatar, reserved, tokens, codeVars, letterVars,
                     mailed, counterVars, workerVars, faults>>
  BY DEF UploadAvatar, LockProfile
<1> HIDE DEF q
<1>2. "upload" \in Steps /\ "upload" \in Holding BY DEF Steps, Holding
<1>3. /\ pc'[r] = "upload" /\ call'[r] = q
      /\ \A s \in Requests : s # r => pc'[s] = pc[s] /\ call'[s] = call[s]
  BY <1>0, <1>1, <1>2, Moves
<1>4. LockInv'
  <2>1. HolderStands(r)' BY <1>1, <1>3 DEF HolderStands, userVars
  <2>2. \A s \in Requests : s # r /\ pc[s] \in Holding => call[s].user # q.user
    BY <1>1 DEF UserFree, Holding
  <2>3. UNCHANGED userVars BY <1>1
  <2> QED BY <1>0, <1>1, <1>2, <2>1, <2>2, <2>3, LockTaken
<1>5. FileInv'
  <2>1. /\ saved \in Nat /\ saved' \in 0 .. MaxFiles /\ files' \subseteq 1 .. saved'
        /\ avatar' \in [Users -> 1 .. saved' \cup {None}]
        /\ saved + 1 \notin 1 .. saved /\ files \subseteq 1 .. saved
        /\ \A v \in Users : avatar[v] \in 1 .. saved \cup {None} /\ avatar[v] # saved + 1
    BY <1>0, <1>1 DEF FileInv
  <2>2. AvatarExists' BY <1>0, <1>1 DEF FileInv, AvatarExists
  <2>3. Uploads(r)' BY <1>1, <1>3, <2>1 DEF Uploads
  <2>4. ASSUME NEW s \in Requests, s # r
        PROVE  /\ pc'[s] = "upload" => Uploads(s)' /\ call'[s].new # saved + 1
               /\ pc'[s] = "clean" => Cleans(s)'
    <3>1. (pc[s] = "upload" => Uploads(s)) /\ (pc[s] = "clean" => Cleans(s))
      BY <1>0 DEF FileInv
    <3>2. pc'[s] = "upload" => Uploads(s)' /\ call'[s].new # saved + 1
      BY <1>1, <1>3, <2>1, <2>4, <3>1 DEF Uploads
    <3>3. pc'[s] = "clean" => Cleans(s)'
      <4>1. SUFFICES ASSUME pc[s] = "clean" PROVE Cleans(s)' BY <1>3, <2>4
      <4>2. /\ call'[s].file \in 1 .. saved \cup {None} /\ call'[s].file # saved + 1
            /\ call'[s].file # None => \A v \in Users : avatar[v] # call'[s].file
            /\ \A v \in Requests : pc[v] = "upload" => call[v].new # call'[s].file
        BY <1>3, <2>1, <2>4, <3>1, <4>1 DEF Cleans
      <4>3. call'[s].file \in 1 .. saved' \cup {None} BY <1>1, <2>1, <4>2
      <4>4. \A v \in Requests : pc'[v] = "upload" => call'[v].new # call'[s].file
        BY <1>1, <1>3, <4>2
      <4> QED BY <1>1, <4>2, <4>3, <4>4 DEF Cleans
    <3> QED BY <3>2, <3>3
  <2>5. \A s, v \in Requests :
            pc'[s] = "upload" /\ pc'[v] = "upload" /\ call'[s].new = call'[v].new => s = v
    BY <1>0, <1>1, <1>3, <2>4 DEF FileInv
  <2>6. \A v, w \in Users : avatar'[v] = avatar'[w] /\ avatar'[v] # None => v = w
    BY <1>0, <1>1 DEF FileInv
  <2> QED BY <1>3, <2>1, <2>2, <2>3, <2>4, <2>5, <2>6 DEF FileInv
<1>6. faults' \in 0 .. MaxFaults BY <1>0, <1>1 DEF CountInv
<1> QED BY <1>1, <1>2, <1>4, <1>5, <1>6, MoveStep DEF IInv

LEMMA SaveAvatarStep == ASSUME IInv, NEW r \in Requests, SaveAvatar(r) PROVE IInv'
<1>0. LockInv /\ FileInv /\ CountInv BY DEF IInv
<1>1. PICK u \in Users : u = call[r].user /\ pc[r] = "upload"
  BY <1>0 DEF SaveAvatar, LockInv, HolderStands
<1> DEFINE n == call[r].new
           q == [file |-> call[r].old]
<1>2. /\ avatar' = [avatar EXCEPT ![u] = n] /\ Go(r, "clean", q)
      /\ q.file = call[r].old
      /\ UNCHANGED <<menu, userVars, files, saved, reserved, tokens, codeVars,
                     letterVars, mailed, counterVars, workerVars, faults>>
  BY <1>1 DEF SaveAvatar
<1> HIDE DEF q
<1>3. "clean" \in Steps /\ "upload" \in Holding /\ "clean" \notin Holding
  BY DEF Steps, Holding
<1>4. /\ pc'[r] = "clean" /\ call'[r] = q
      /\ \A s \in Requests : s # r => pc'[s] = pc[s] /\ call'[s] = call[s]
  BY <1>0, <1>2, <1>3, Moves
<1>5. FileInv'
  <2>1. /\ n \in files /\ n \in 1 .. saved /\ n # None /\ q.file = avatar[u]
        /\ \A v \in Users : avatar[v] # n
    <3>1. Uploads(r) /\ files \subseteq 1 .. saved BY <1>0, <1>1 DEF FileInv
    <3>2. 1 .. saved \subseteq Nat BY <1>0 DEF FileInv
    <3> QED BY <1>1, <1>2, <3>1, <3>2 DEF Uploads
  <2>2. PICK m : m = n OBVIOUS
  <2>3. /\ avatar'[u] = m /\ \A v \in Users \ {u} : avatar'[v] = avatar[v]
        /\ avatar' \in [Users -> 1 .. saved \cup {None}]
    BY <1>0, <1>2, <2>1, <2>2 DEF FileInv
  <2>4. \A s \in Requests : s # r /\ pc[s] = "upload" => call[s].new # m
    BY <1>0, <1>1, <2>2 DEF FileInv
  <2>5. \A s \in Requests : s # r /\ pc[s] = "upload" => call[s].user # u
    BY <1>0, <1>1, <1>3, <1>4, OthersHold
  <2>6. AvatarExists' BY <1>0, <1>2, <2>1, <2>2, <2>3 DEF FileInv, AvatarExists
  <2>7. ASSUME NEW s \in Requests, s # r, pc[s] = "upload" PROVE Uploads(s)'
    <3>1. Uploads(s) BY <1>0, <2>7 DEF FileInv
    <3>2. call[s].user \in Users BY <1>0, <2>7 DEF LockInv, HolderStands
    <3> QED BY <1>2, <1>4, <2>3, <2>4, <2>5, <2>7, <3>1, <3>2 DEF Uploads
  <2>8. ASSUME NEW s \in Requests, s # r, pc[s] = "clean" PROVE Cleans(s)'
    <3>1. Cleans(s) BY <1>0, <2>8 DEF FileInv
    <3>2. call[s].file # m BY <1>1, <2>2, <3>1 DEF Cleans
    <3> QED BY <1>2, <1>4, <2>3, <2>8, <3>1, <3>2 DEF Cleans
  <2>9. Cleans(r)'
    <3>1. \A s \in Requests : s # r /\ pc[s] = "upload" => call[s].new # avatar[u]
      BY <1>0 DEF FileInv, Uploads
    <3>2. avatar[u] \in 1 .. saved \cup {None} BY <1>0 DEF FileInv
    <3>3. avatar[u] # None => \A v \in Users : avatar'[v] # avatar[u]
      BY <1>0, <2>1, <2>2, <2>3 DEF FileInv
    <3> QED BY <1>2, <1>4, <2>1, <3>1, <3>2, <3>3 DEF Cleans
  <2>10. \A v, w \in Users : avatar'[v] = avatar'[w] /\ avatar'[v] # None => v = w
    BY <1>0, <2>1, <2>2, <2>3 DEF FileInv
  <2>11. \A s, v \in Requests :
             pc'[s] = "upload" /\ pc'[v] = "upload" /\ call'[s].new = call'[v].new => s = v
    BY <1>0, <1>4 DEF FileInv
  <2>12. ASSUME NEW s \in Requests
         PROVE  /\ pc'[s] = "upload" => Uploads(s)'
                /\ pc'[s] = "clean" => Cleans(s)'
    BY <1>4, <2>7, <2>8, <2>9
  <2> QED BY <1>0, <1>2, <2>3, <2>6, <2>10, <2>11, <2>12 DEF FileInv
<1>6. faults' \in 0 .. MaxFaults BY <1>0, <1>2 DEF CountInv
<1> QED BY <1>2, <1>3, <1>5, <1>6, MoveStep DEF IInv, Holding
(* Files of requests that nobody else refers to are deleted. *)
LEMMA FilesDeleted ==
    ASSUME FileInv, NEW r \in Requests, NEW f,
           \/ pc[r] = "upload" /\ f = call[r].new
           \/ pc[r] = "clean" /\ f = call[r].file,
           files' = files \ {f}, UNCHANGED <<avatar, saved>>,
           pc'[r] = "idle",
           \A s \in Requests : s # r => pc'[s] = pc[s] /\ call'[s] = call[s]
    PROVE  FileInv'
<1>1. /\ pc[r] = "upload" => Uploads(r)
      /\ pc[r] = "clean" => Cleans(r)
  BY DEF FileInv
<1>2. \A u \in Users : avatar[u] # None => avatar[u] # f
  BY <1>1 DEF Uploads, Cleans
<1>3. \A s \in Requests : s # r /\ pc[s] = "upload" => call[s].new # f
  BY <1>1 DEF FileInv, Cleans
<1>4. AvatarExists' BY <1>2 DEF FileInv, AvatarExists
<1>5. ASSUME NEW s \in Requests
      PROVE  (pc'[s] = "upload" => Uploads(s)') /\ (pc'[s] = "clean" => Cleans(s)')
  <2>1. (pc[s] = "upload" => Uploads(s)) /\ (pc[s] = "clean" => Cleans(s))
    BY DEF FileInv
  <2>2. pc'[s] = "upload" => Uploads(s)'
    <3>1. SUFFICES ASSUME pc'[s] = "upload" PROVE Uploads(s)' OBVIOUS
    <3>2. s # r /\ pc[s] = "upload" /\ call'[s] = call[s] BY <3>1
    <3>3. call[s].new \in files' BY <1>3, <2>1, <3>2 DEF Uploads
    <3> QED BY <2>1, <3>2, <3>3 DEF Uploads
  <2>3. pc'[s] = "clean" => Cleans(s)'
    <3>1. SUFFICES ASSUME pc'[s] = "clean" PROVE Cleans(s)' OBVIOUS
    <3>2. s # r /\ pc[s] = "clean" /\ call'[s] = call[s] BY <3>1
    <3> QED BY <2>1, <3>2 DEF Cleans
  <2> QED BY <2>2, <2>3
<1>6. \A s, v \in Requests :
          pc'[s] = "upload" /\ pc'[v] = "upload" /\ call'[s].new = call'[v].new => s = v
  BY DEF FileInv
<1> QED BY <1>4, <1>5, <1>6 DEF FileInv

LEMMA UploadFailsStep == ASSUME IInv, NEW r \in Requests, UploadFails(r) PROVE IInv'
<1>0. LockInv /\ FileInv /\ CountInv BY DEF IInv
<1>1. /\ pc[r] = "upload" /\ files' = files \ {call[r].new} /\ Go(r, "idle", None)
      /\ faults < MaxFaults /\ faults' = faults + 1
      /\ UNCHANGED <<menu, userVars, avatar, saved, reserved, tokens, codeVars, letterVars,
                     mailed, counterVars, workerVars>>
  BY DEF UploadFails, Abandoned, End
<1>2. "idle" \in Steps BY DEF Steps
<1>3. pc'[r] = "idle" /\ \A s \in Requests : s # r => pc'[s] = pc[s] /\ call'[s] = call[s]
  BY <1>0, <1>1, <1>2, Moves
<1>4. PICK f : f = call[r].new OBVIOUS
<1>5. FileInv' BY <1>0, <1>1, <1>3, <1>4, FilesDeleted
<1>6. faults' \in 0 .. MaxFaults BY <1>0, <1>1 DEF CountInv
<1> QED BY <1>1, <1>2, <1>5, <1>6, MoveStep DEF IInv, Holding

LEMMA DeleteFilesStep == ASSUME IInv, NEW r \in Requests, DeleteFiles(r) PROVE IInv'
<1>0. LockInv /\ FileInv /\ CountInv BY DEF IInv
<1>1. /\ pc[r] = "clean" /\ files' = files \ {call[r].file} /\ Go(r, "idle", None)
      /\ UNCHANGED <<menu, userVars, avatar, saved, reserved, tokens, codeVars, letterVars,
                     mailed, counterVars, workerVars, faults>>
  BY DEF DeleteFiles, End
<1>2. "idle" \in Steps BY DEF Steps
<1>3. pc'[r] = "idle" /\ \A s \in Requests : s # r => pc'[s] = pc[s] /\ call'[s] = call[s]
  BY <1>0, <1>1, <1>2, Moves
<1>4. PICK f : f = call[r].file OBVIOUS
<1>5. FileInv' BY <1>0, <1>1, <1>3, <1>4, FilesDeleted
<1>6. faults' \in 0 .. MaxFaults BY <1>0, <1>1 DEF CountInv
<1> QED BY <1>1, <1>2, <1>5, <1>6, MoveStep DEF IInv, Holding

(* A user whom nobody else holds loses the avatar, whose file is to go.    *)
LEMMA AvatarRemoved ==
    ASSUME FileInv, LockInv, NEW r \in Requests, NEW u \in Users,
           avatar' = [avatar EXCEPT ![u] = None], UNCHANGED <<files, saved>>,
           pc'[r] = "clean", call'[r].file = avatar[u],
           \A s \in Requests : s # r => pc'[s] = pc[s] /\ call'[s] = call[s],
           \A s \in Requests : s # r /\ pc[s] = "upload" => call[s].user # u
    PROVE  FileInv'
<1>1. /\ avatar'[u] = None /\ \A v \in Users \ {u} : avatar'[v] = avatar[v]
      /\ avatar' \in [Users -> 1 .. saved \cup {None}]
      /\ files \subseteq 1 .. saved /\ saved \in Nat
  BY DEF FileInv
<1>2. AvatarExists' BY <1>1 DEF FileInv, AvatarExists
<1>3. ASSUME NEW s \in Requests, s # r, pc[s] = "upload" PROVE Uploads(s)'
  <2>1. Uploads(s) BY <1>3 DEF FileInv
  <2>2. call[s].user \in Users /\ call[s].user # u BY <1>3 DEF LockInv, HolderStands
  <2> DEFINE f == call[s].new
  <2>3. f \in Nat
    <3>1. f \in files BY <2>1 DEF Uploads
    <3> HIDE DEF f
    <3>2. f \in 1 .. saved BY <1>1, <3>1
    <3> QED BY <1>1, <3>2
  <2>4. f # None BY <2>3
  <2> QED BY <1>1, <1>3, <2>1, <2>2, <2>4 DEF Uploads
<1>4. ASSUME NEW s \in Requests, s # r, pc[s] = "clean" PROVE Cleans(s)'
  <2>1. Cleans(s) BY <1>4 DEF FileInv
  <2> QED BY <1>1, <1>4, <2>1 DEF Cleans
<1>5. Cleans(r)'
  <2>1. \A s \in Requests : pc[s] = "upload" => call[s].new # avatar[u]
    BY DEF FileInv, Uploads
  <2>2. avatar[u] \in 1 .. saved \cup {None} BY DEF FileInv
  <2>3. avatar[u] # None => \A v \in Users : avatar'[v] # avatar[u]
    BY <1>1 DEF FileInv
  <2> QED BY <1>1, <2>1, <2>2, <2>3 DEF Cleans
<1>6. \A v, w \in Users : avatar'[v] = avatar'[w] /\ avatar'[v] # None => v = w
  BY <1>1 DEF FileInv
<1>7. \A s, v \in Requests :
          pc'[s] = "upload" /\ pc'[v] = "upload" /\ call'[s].new = call'[v].new => s = v
  BY DEF FileInv
<1>8. ASSUME NEW s \in Requests
      PROVE  (pc'[s] = "upload" => Uploads(s)') /\ (pc'[s] = "clean" => Cleans(s)')
  BY <1>3, <1>4, <1>5
<1> QED BY <1>1, <1>2, <1>6, <1>7, <1>8 DEF FileInv

LEMMA RemoveAvatarStep ==
    ASSUME IInv, NEW r \in Requests, NEW u \in Users, RemoveAvatar(r, u)
    PROVE  IInv'
<1>0. LockInv /\ FileInv /\ CountInv BY DEF IInv
<1> DEFINE q == [file |-> avatar[u]]
<1>1. /\ UserFree(u) /\ avatar' = [avatar EXCEPT ![u] = None] /\ Go(r, "clean", q)
      /\ q.file = avatar[u]
      /\ UNCHANGED <<menu, userVars, files, saved, reserved, tokens, codeVars,
                     letterVars, mailed, counterVars, workerVars, faults>>
  BY DEF RemoveAvatar, LockProfile
<1> HIDE DEF q
<1>2. "clean" \in Steps BY DEF Steps
<1>3. /\ pc'[r] = "clean" /\ call'[r] = q
      /\ \A s \in Requests : s # r => pc'[s] = pc[s] /\ call'[s] = call[s]
  BY <1>0, <1>1, <1>2, Moves
<1>4. FileInv'
  <2>1. \A s \in Requests : s # r /\ pc[s] = "upload" => call[s].user # u
    BY <1>1 DEF UserFree
  <2>2. call'[r].file = avatar[u] BY <1>1, <1>3
  <2> QED BY <1>0, <1>1, <1>3, <2>1, <2>2, AvatarRemoved
<1>5. faults' \in 0 .. MaxFaults BY <1>0, <1>1 DEF CountInv
<1> QED BY <1>1, <1>2, <1>4, <1>5, MoveStep DEF IInv, Holding

LEMMA CloseAccountStep == ASSUME IInv, NEW r \in Requests, CloseAccount(r) PROVE IInv'
<1>0. UserInv /\ LockInv /\ TokenInv /\ FileInv /\ CountInv BY DEF IInv
<1>1. PICK u \in Users : u = call[r].user /\ status[u] = "active" /\ pc[r] = "delete"
  BY <1>0 DEF CloseAccount, LockInv, HolderStands
<1> DEFINE q == [file |-> avatar[u]]
<1>2. /\ TokensFree(u) /\ RevokeTokens(u) /\ Go(r, "clean", q) /\ q.file = avatar[u]
      /\ reserved' = reserved \cup {email[u]}
      /\ status' = [status EXCEPT ![u] = "deleted"]
      /\ email' = [email EXCEPT ![u] = None]
      /\ password' = [password EXCEPT ![u] = None]
      /\ version' = [version EXCEPT ![u] = @ + 1]
      /\ avatar' = [avatar EXCEPT ![u] = None]
      /\ UNCHANGED <<menu, files, saved, codeVars, letterVars, mailed, counterVars,
                     workerVars, faults>>
  BY <1>1 DEF CloseAccount
<1> HIDE DEF q
<1>3. "clean" \in Steps /\ "clean" \notin Holding /\ "delete" \in Holding
  BY DEF Steps, Holding
<1>4. /\ StepTypes' /\ pc'[r] = "clean" /\ call'[r] = q
      /\ \A S : "clean" \notin S => Kept(S)
      /\ \A s \in Requests : s # r => pc'[s] = pc[s] /\ call'[s] = call[s]
  BY <1>0, <1>2, <1>3, Moves
<1>5. /\ version[u] \in Nat /\ version[u] <= MaxPasswords /\ email[u] \in Emails
      /\ status'[u] = "deleted" /\ email'[u] = None /\ version'[u] = version[u] + 1
      /\ \A v \in Users \ {u} :
             UNCHANGED <<status[v], email[v], password[v], version[v]>>
  BY <1>0, <1>1, <1>2 DEF UserInv, UserTypes, UserStands
<1>6. UserInv'
  <2>1. UserTypes' BY <1>0, <1>2, <1>5 DEF UserInv, UserTypes
  <2>2. \A v \in Users : UserStands(v)' BY <1>0, <1>5 DEF UserInv, UserStands
  <2>3. \A v, w \in Users : email'[v] = email'[w] /\ email'[v] # None => v = w
    BY <1>0, <1>5 DEF UserInv
  <2> QED BY <2>1, <2>2, <2>3 DEF UserInv
<1>7. \A s \in Requests : pc'[s] \in Holding => call'[s].user # u
  BY <1>0, <1>1, <1>3, <1>4, OthersHold
<1>8. LockInv'
  <2>1. Kept(Holding \cup {"forgot"}) BY <1>4 DEF Holding
  <2> QED BY <1>0, <1>4, <1>5, <1>7, <2>1, LockKept
<1>9. TokenInv'
  <2>1. Ages BY <1>0, <1>5 DEF Ages, UserInv, UserTypes
  <2> QED BY <1>0, <1>2, <1>4, <2>1, RevokedTokens
<1>10. FileInv'
  <2>1. \A s \in Requests : s # r /\ pc[s] = "upload" => call[s].user # u
    BY <1>4, <1>7 DEF Holding
  <2>2. call'[r].file = avatar[u] BY <1>2, <1>4
  <2> QED BY <1>0, <1>2, <1>4, <2>1, <2>2, AvatarRemoved
<1>11. faults' \in 0 .. MaxFaults BY <1>0, <1>2 DEF CountInv
<1> QED BY <1>2, <1>3, <1>6, <1>8, <1>9, <1>10, <1>11, MoveStep DEF IInv

LEMMA ReleaseEmailStep == ASSUME IInv, NEW e \in Emails, ReleaseEmail(e) PROVE IInv'
<1>0. UserInv /\ CountInv BY DEF IInv
<1>1. /\ reserved' = reserved \ {e}
      /\ UNCHANGED <<menu, userVars, avatarVars, tokens, codeVars, letterVars, mailed,
                     counterVars, requestVars, workerVars, faults>>
  BY DEF ReleaseEmail
<1>2. UserInv' BY <1>0, <1>1 DEF UserInv, UserTypes, UserStands, userVars
<1>3. faults' \in 0 .. MaxFaults /\ Labels BY <1>0, <1>1 DEF CountInv, Labels, codeVars
<1> QED BY <1>1, <1>2, <1>3, StillStep DEF IInv, codeVars
-----------------------------------------------------------------------------
(* The worker. *)

(* A letter leaves the queue once, and a request that cancels letters does *)
(* not have the one in the hands of the worker among them.                 *)
LEMMA WorkerKept ==
    ASSUME CodeInv, LetterInv, UNCHANGED <<codes, drawn, requestVars>>, LetterTypes',
           \A c \in Codes : /\ letters'[c] = "pending" =>
                                   letters[c] = "pending" /\ sends'[c] < MaxSends
                            /\ letters[c] = "none" =>
                                   UNCHANGED <<letters[c], sends[c]>>,
           cur' # None => letters'[cur'] = "pending",
           \A r \in Requests : pc[r] = "commit" => cur' \notin call[r].cancels
    PROVE  LetterInv'
<1>1. \A c \in Codes : LetterStands(c)' BY DEF LetterInv, LetterStands, NoneAfter
<1>2. ASSUME NEW r \in Requests, pc'[r] = "commit" PROVE Cancels(r)'
  <2>1. pc[r] = "commit" /\ call'[r] = call[r] /\ Cancels(r)
    BY <1>2 DEF LetterInv, requestVars
  <2>2. PendingFor(call[r].email, Purpose(call[r].op))'
            \subseteq PendingFor(call[r].email, Purpose(call[r].op))
    BY <2>1 DEF PendingFor, Purpose
  <2>3. NoneAfter(call[r].code, call[r].email, Purpose(call[r].op))'
    BY <2>1 DEF Cancels, NoneAfter, Purpose
  <2>4. call[r].code \in Codes
    BY <2>1 DEF CodeInv, CodeTypes, CodeRequestStands, Codes
  <2>5. letters'[call[r].code] = "none" /\ sends'[call[r].code] = 0
    BY <2>1, <2>4 DEF Cancels
  <2> QED BY <2>1, <2>2, <2>3, <2>5 DEF Cancels
<1>3. \A r, s \in Requests :
          pc'[r] = "commit" /\ pc'[s] = "commit" /\ call'[r].op = "register"
              /\ call'[s].op = "register" /\ call'[r].email = call'[s].email => r = s
  BY DEF LetterInv, requestVars
<1> QED BY <1>1, <1>2, <1>3 DEF LetterInv

LEMMA WorkerStep ==
    ASSUME IInv, LetterInv', faults' \in 0 .. MaxFaults,
           UNCHANGED <<menu, userVars, reserved, avatarVars, tokens, codeVars, counterVars,
                       requestVars>>
    PROVE  IInv'
<1>1. menu' \in Menus BY DEF IInv
<1> QED BY <1>1, StillStep DEF IInv

LEMMA SelectLettersStep == ASSUME IInv, SelectLetters PROVE IInv'
<1>0. CodeInv /\ LetterInv /\ CountInv BY DEF IInv
<1>1. /\ batch' = {c \in Codes : letters[c] = "pending"}
      /\ late' = {c \in batch' : codes[c].expired}
      /\ UNCHANGED <<menu, userVars, reserved, avatarVars, tokens, codeVars,
                     letterVars, mailed, counterVars, requestVars, cur, faults>>
  BY DEF SelectLetters
<1>2. LetterInv'
  <2>1. LetterTypes' BY <1>0, <1>1 DEF LetterInv, LetterTypes, letterVars
  <2>2. \A c \in Codes : letters[c] = "pending" => sends[c] < MaxSends
    BY <1>0 DEF LetterInv, LetterStands
  <2>3. \A r \in Requests : pc[r] = "commit" => cur' \notin call[r].cancels
    BY <1>0, <1>1 DEF LetterInv, Cancels
  <2>4. cur' # None => letters'[cur'] = "pending"
    BY <1>0, <1>1 DEF LetterInv, letterVars
  <2> QED BY <1>0, <1>1, <2>1, <2>2, <2>3, <2>4, WorkerKept DEF letterVars, codeVars
<1>3. faults' \in 0 .. MaxFaults BY <1>0, <1>1 DEF CountInv
<1> QED BY <1>1, <1>2, <1>3, WorkerStep

LEMMA TakeLetterStep == ASSUME IInv, NEW c \in Codes, TakeLetter(c) PROVE IInv'
<1>0. CodeInv /\ LetterInv /\ CountInv BY DEF IInv
<1>1. /\ cur = None /\ c \in batch /\ LetterFree(c)
      /\ batch' = batch \ {c} /\ late' = late \ {c}
      /\ \/ letters[c] = "pending" /\ cur' = c /\ letters' = letters
         \/ /\ cur' = None
            /\ \/ letters' = letters
               \/ letters[c] = "pending" /\ letters' = [letters EXCEPT ![c] = "expired"]
      /\ UNCHANGED <<menu, userVars, reserved, avatarVars, tokens, codeVars, sends,
                     mailed, counterVars, requestVars, faults>>
  <2>1. CASE letters[c] = "pending" /\ c \notin late BY <2>1 DEF TakeLetter
  <2>2. CASE letters[c] = "pending" /\ c \in late BY <2>2 DEF TakeLetter
  <2>3. CASE letters[c] # "pending" BY <2>3 DEF TakeLetter
  <2> QED BY <2>1, <2>2, <2>3
<1>2. LetterInv'
  <2>0. LetterTypes BY <1>0 DEF LetterInv
  <2>1. LetterTypes' BY <1>1, <2>0 DEF LetterTypes
  <2>2. \A d \in Codes : letters[d] = "pending" => sends[d] < MaxSends
    BY <1>0 DEF LetterInv, LetterStands
  <2>3. \A d \in Codes : /\ letters'[d] = "pending" =>
                                letters[d] = "pending" /\ sends'[d] < MaxSends
                         /\ letters[d] = "none" => UNCHANGED <<letters[d], sends[d]>>
    BY <1>1, <2>0, <2>2 DEF LetterTypes
  <2>4. cur' # None => letters'[cur'] = "pending" BY <1>1
  <2>5. \A r \in Requests : pc[r] = "commit" => cur' \notin call[r].cancels
    BY <1>0, <1>1 DEF LetterInv, Cancels, LetterFree
  <2> QED BY <1>0, <1>1, <2>1, <2>3, <2>4, <2>5, WorkerKept DEF codeVars
<1>3. faults' \in 0 .. MaxFaults BY <1>0, <1>1 DEF CountInv
<1> QED BY <1>1, <1>2, <1>3, WorkerStep

(* No letter is waiting with the worker any more. *)
LEMMA NotCancelled ==
    ASSUME CodeInv, LetterInv
    PROVE  \A r \in Requests : pc[r] = "commit" => None \notin call[r].cancels
BY DEF LetterInv, Cancels, Codes

LEMMA SendLetterStep == ASSUME IInv, NEW ok \in BOOLEAN, SendLetter(ok) PROVE IInv'
<1>0. CodeInv /\ LetterInv /\ CountInv BY DEF IInv
<1> DEFINE done == IF ok THEN "sent"
                   ELSE IF sends[cur] + 1 >= MaxSends THEN "failed" ELSE letters[cur]
<1>1. /\ cur # None /\ cur' = None
      /\ sends' = [sends EXCEPT ![cur] = @ + 1]
      /\ letters' = [letters EXCEPT ![cur] = done]
      /\ mailed' = IF ok THEN [mailed EXCEPT ![codes[cur].email] = cur] ELSE mailed
      /\ UNCHANGED <<menu, userVars, reserved, avatarVars, tokens, codeVars, counterVars,
                     requestVars, batch, late, faults>>
  BY DEF SendLetter
<1>2. LetterInv'
  <2>0. LetterTypes BY <1>0 DEF LetterInv
  <2>1. cur \in Codes /\ letters[cur] = "pending" /\ sends[cur] < MaxSends
    BY <1>0, <1>1 DEF LetterInv, LetterTypes, LetterStands
  <2>2. /\ done \in {"sent", "failed", "pending"}
        /\ done = "pending" => sends[cur] + 1 < MaxSends
        /\ sends[cur] \in Nat /\ sends[cur] + 1 \in 0 .. MaxSends
    BY <2>0, <2>1 DEF LetterTypes
  <2> HIDE DEF done
  <2>3. LetterTypes'
    <3>1. /\ letters' \in [Codes -> {"none", "pending", "sent", "failed", "cancelled", "expired"}]
          /\ sends' \in [Codes -> 0 .. MaxSends]
      BY <1>1, <2>0, <2>1, <2>2 DEF LetterTypes
    <3>2. mailed' \in [Emails -> Codes \cup {None}]
      BY <1>1, <2>0, <2>1 DEF LetterTypes
    <3>3. batch' \subseteq Codes /\ late' \subseteq batch' /\ cur' \in Codes \cup {None}
      BY <1>1, <2>0 DEF LetterTypes
    <3> QED BY <3>1, <3>2, <3>3 DEF LetterTypes
  <2>4. \A d \in Codes : letters[d] = "pending" => sends[d] < MaxSends
    BY <1>0 DEF LetterInv, LetterStands
  <2>5. \A d \in Codes : /\ letters'[d] = "pending" =>
                                letters[d] = "pending" /\ sends'[d] < MaxSends
                         /\ letters[d] = "none" => UNCHANGED <<letters[d], sends[d]>>
    BY <1>1, <2>0, <2>1, <2>2, <2>4 DEF LetterTypes
  <2>6. \A r \in Requests : pc[r] = "commit" => cur' \notin call[r].cancels
    BY <1>0, <1>1, NotCancelled
  <2> QED BY <1>0, <1>1, <2>3, <2>5, <2>6, WorkerKept DEF codeVars
<1>3. faults' \in 0 .. MaxFaults BY <1>0, <1>1 DEF CountInv
<1> HIDE DEF done
<1> QED BY <1>1, <1>2, <1>3, WorkerStep

LEMMA WorkerDiesStep == ASSUME IInv, WorkerDies PROVE IInv'
<1>0. CodeInv /\ LetterInv /\ CountInv BY DEF IInv
<1>1. /\ cur # None /\ faults < MaxFaults /\ faults' = faults + 1
      /\ mailed' = [mailed EXCEPT ![codes[cur].email] = cur]
      /\ batch' = {} /\ late' = {} /\ cur' = None
      /\ UNCHANGED <<menu, userVars, reserved, avatarVars, tokens, codeVars,
                     letterVars, counterVars, requestVars>>
  BY DEF WorkerDies
<1>2. LetterInv'
  <2>1. LetterTypes'
    <3>1. mailed' \in [Emails -> Codes \cup {None}]
      BY <1>0, <1>1 DEF LetterInv, LetterTypes
    <3> QED BY <1>0, <1>1, <3>1 DEF LetterInv, LetterTypes, letterVars
  <2>2. \A d \in Codes : letters[d] = "pending" => sends[d] < MaxSends
    BY <1>0 DEF LetterInv, LetterStands
  <2>3. \A r \in Requests : pc[r] = "commit" => cur' \notin call[r].cancels
    BY <1>0, <1>1, NotCancelled
  <2> QED BY <1>0, <1>1, <2>1, <2>2, <2>3, WorkerKept DEF letterVars, codeVars
<1>3. faults' \in 0 .. MaxFaults BY <1>0, <1>1 DEF CountInv
<1> QED BY <1>1, <1>2, <1>3, WorkerStep

-----------------------------------------------------------------------------
(* Handlers that die or are cancelled. *)

LEMMA EndStep ==
    ASSUME IInv, NEW r \in Requests, End(r), faults' \in 0 .. MaxFaults,
           UNCHANGED <<menu, userVars, reserved, avatarVars, tokens, codeVars,
                       letterVars, mailed, counterVars, workerVars>>
    PROVE  IInv'
<1>1. "idle" \in Steps /\ "idle" \notin Holding BY DEF Steps, Holding
<1>2. Go(r, "idle", None) BY DEF End
<1>3. menu' \in Menus BY DEF IInv
<1> QED BY <1>1, <1>2, <1>3, MoveStep DEF IInv

LEMMA RequestDiesStep == ASSUME IInv, NEW r \in Requests, RequestDies(r) PROVE IInv'
<1>1. faults \in 0 .. MaxFaults BY DEF IInv, CountInv
<1>2. faults' \in 0 .. MaxFaults BY <1>1 DEF RequestDies
<1> QED BY <1>2, EndStep DEF RequestDies

LEMMA BreakDeadlockStep ==
    ASSUME IInv, NEW r \in Requests, NEW s \in Requests, BreakDeadlock(r, s)
    PROVE  IInv'
<1>1. faults' \in 0 .. MaxFaults BY DEF IInv, CountInv, BreakDeadlock
<1> QED BY <1>1, EndStep DEF BreakDeadlock
-----------------------------------------------------------------------------
(* The invariant is inductive, and it says more than the checked ones. *)

LEMMA InductiveStep == IInv /\ [Next]_vars => IInv'
<1> SUFFICES ASSUME IInv, [Next]_vars PROVE IInv' OBVIOUS
<1>1. ASSUME NEW r \in Requests, Session(r) PROVE IInv'
  <2>1. CASE \E e \in Emails, p \in Passwords : Login(r, e, p) BY <2>1, LoginStep
  <2>2. CASE RecordFailedLogin(r) BY <2>2, RecordFailedLoginStep
  <2>3. CASE IssueTokens(r) BY <2>3, IssueTokensStep
  <2>4. CASE \E op \in {"refresh", "logout"}, t \in Tokens : LockToken(r, op, t)
    BY <2>4, LockTokenStep
  <2>5. CASE Rotate(r) BY <2>5, RotateStep
  <2>6. CASE \E u \in Users : ChangePassword(r, u) BY <2>6, ChangePasswordStep
  <2>7. CASE \E e \in Emails : ResetPassword(r, e) BY <2>7, ResetPasswordStep
  <2>8. CASE SetPassword(r) BY <2>8, SetPasswordStep
  <2> QED BY <1>1, <2>1, <2>2, <2>3, <2>4, <2>5, <2>6, <2>7, <2>8 DEF Session
<1>2. ASSUME NEW r \in Requests, Code(r) PROVE IInv'
  <2>1. CASE \E e \in Emails : ForgotPassword(r, e) BY <2>1, ForgotPasswordStep
  <2>2. CASE \E e \in Emails : Register(r, e) BY <2>2, RegisterStep
  <2>3. CASE LockForgotten(r) BY <2>3, LockForgottenStep
  <2>4. CASE RecordRequest(r) BY <2>4, RecordRequestStep
  <2>5. CASE \E ok \in BOOLEAN : Mail(r, ok) BY <2>5, MailStep
  <2>6. CASE CommitCode(r) BY <2>6, CommitCodeStep
  <2>7. CASE \E e \in Emails, right \in BOOLEAN : ConfirmReset(r, e, right)
    BY <2>7, ConfirmResetStep
  <2>8. CASE \E e \in Emails, right \in BOOLEAN : ConfirmRegistration(r, e, right)
    BY <2>8, ConfirmRegistrationStep
  <2> QED BY <1>2, <2>1, <2>2, <2>3, <2>4, <2>5, <2>6, <2>7, <2>8 DEF Code
<1>3. ASSUME NEW r \in Requests, Profile(r) PROVE IInv'
  <2>1. CASE \E u \in Users, e \in Emails : EditEmail(r, u, e) BY <2>1, EditEmailStep
  <2>2. CASE \E u \in Users : UploadAvatar(r, u) BY <2>2, UploadAvatarStep
  <2>3. CASE \E u \in Users : RemoveAvatar(r, u) BY <2>3, RemoveAvatarStep
  <2>4. CASE \E u \in Users : DeleteProfile(r, u) BY <2>4, DeleteProfileStep
  <2>5. CASE SaveProfile(r) BY <2>5, SaveProfileStep
  <2>6. CASE SaveAvatar(r) BY <2>6, SaveAvatarStep
  <2>7. CASE UploadFails(r) BY <2>7, UploadFailsStep
  <2>8. CASE DeleteFiles(r) BY <2>8, DeleteFilesStep
  <2>9. CASE CloseAccount(r) BY <2>9, CloseAccountStep
  <2> QED BY <1>3, <2>1, <2>2, <2>3, <2>4, <2>5, <2>6, <2>7, <2>8, <2>9 DEF Profile
<1>4. ASSUME NEW r \in Requests, RequestDies(r) PROVE IInv' BY <1>4, RequestDiesStep
<1>5. ASSUME NEW r \in Requests, NEW s \in Requests, BreakDeadlock(r, s) PROVE IInv'
  BY <1>5, BreakDeadlockStep
<1>6. CASE Passing
  <2>1. CASE ForgetCounts BY <2>1, ForgetCountsStep
  <2>2. CASE \E c \in Codes : ExpireCode(c) BY <2>2, ExpireCodeStep
  <2>3. CASE \E e \in Emails : ReleaseEmail(e) BY <2>3, ReleaseEmailStep
  <2> QED BY <1>6, <2>1, <2>2, <2>3 DEF Passing
<1>7. CASE Cleanup BY <1>7, SelectExpiredStep, DeleteSelectedStep DEF Cleanup
<1>8. CASE Worker
  <2>1. CASE SelectLetters BY <2>1, SelectLettersStep
  <2>2. CASE \E c \in Codes : TakeLetter(c) BY <2>2, TakeLetterStep
  <2>3. CASE \E ok \in BOOLEAN : SendLetter(ok) BY <2>3, SendLetterStep
  <2>4. CASE WorkerDies BY <2>4, WorkerDiesStep
  <2> QED BY <1>8, <2>1, <2>2, <2>3, <2>4 DEF Worker
<1>9. CASE UNCHANGED vars
  <2>1. UNCHANGED <<menu, userVars, reserved, avatarVars, tokens, codeVars, letterVars,
                    mailed, counterVars, requestVars, workerVars, faults>>
    BY <1>9 DEF vars
  <2>2. Labels /\ UNCHANGED drawn BY <2>1 DEF Labels, codeVars
  <2>3. faults' \in 0 .. MaxFaults /\ menu' \in Menus BY <2>1 DEF IInv, CountInv
  <2> QED BY <2>1, <2>2, <2>3, StillStep DEF IInv
<1> QED BY <1>1, <1>2, <1>3, <1>4, <1>5, <1>6, <1>7, <1>8, <1>9 DEF Next

LEMMA Implied == IInv => Inv
<1> SUFFICES ASSUME IInv PROVE Inv OBVIOUS
<1>0. UserInv /\ LockInv /\ TokenInv /\ FileInv /\ CodeInv /\ LetterInv /\ CountInv
  BY DEF IInv
<1>1. failures \in 0 .. LoginLimit + Cardinality(Requests) - 1
      /\ asked \in 0 .. AskLimit + Cardinality(Requests) - 1
  <2>1. Wrong \subseteq Requests /\ Askers \subseteq Requests /\ Requests \subseteq Requests
    BY DEF Wrong, Askers
  <2>2. /\ Cardinality(Wrong) \in Nat /\ Cardinality(Askers) \in Nat
        /\ Cardinality(Requests) \in Nat
    BY <2>1, Handlers
  <2> QED BY <1>0, <2>2 DEF CountInv
<1>2. avatar \in [Users -> Files \cup {None}] /\ files \subseteq Files /\ saved \in 0 .. MaxFiles
  <2>1. saved \in 0 .. MaxFiles BY <1>0 DEF FileInv
  <2>2. 1 .. saved \subseteq Files BY <2>1 DEF Files
  <2> QED BY <1>0, <2>1, <2>2 DEF FileInv
<1>3. TypeOK
  <2>1. pc \in [Requests -> Steps] BY <1>0 DEF LockInv
  <2>2. UserTypes /\ CodeTypes /\ LetterTypes BY <1>0 DEF UserInv, CodeInv, LetterInv
  <2>3. DOMAIN tokens = Tokens BY <1>0 DEF TokenInv
  <2>4. menu \in Menus /\ faults \in 0 .. MaxFaults BY <1>0 DEF IInv, CountInv
  <2> QED BY <1>1, <1>2, <2>1, <2>2, <2>3, <2>4
          DEF TypeOK, Steps, UserTypes, CodeTypes, LetterTypes
<1>4. OneTokenPerSession BY <1>0 DEF TokenInv
<1>5. OneCodeInForce
  <2>1. \A u \in Users : Cardinality(OpenResets(u)) <= 1 BY <1>0, AtMostOne DEF CodeInv
  <2>2. \A c \in Codes : codes[c].uses <= 1 BY <1>0 DEF CodeInv, CodeStands
  <2> QED BY <2>1, <2>2 DEF OneCodeInForce
<1>6. AvatarExists BY <1>0 DEF FileInv
<1> QED BY <1>3, <1>4, <1>5, <1>6 DEF Inv

(* Whatever the requests, a session has one token that is accepted, a user *)
(* one reset code and an e-mail one registration in force, a code is       *)
(* redeemed once, an avatar is in the storage, and the counters of         *)
(* failures pass their limits by the requests under way at most            *)
(* (refresh_session, start_password_reset, confirm_registration,           *)
(* upload_avatar, record_failed_login).                                    *)
THEOREM Invariance == Spec => []Inv
<1>1. IInv => Inv BY Implied
<1> QED BY <1>1, InitInv, InductiveStep, PTL DEF Spec

(* A refresh token that would be accepted was opened with the password the *)
(* user has now, however logins and refreshes cross a change of the        *)
(* password or the end of the account (change_password, reset_password,    *)
(* delete_profile): the version of a token is never ahead of its user's.   *)
THEOREM SessionsEnd == Spec => []SessionsKnowPassword
<1>1. IInv => SessionsKnowPassword
  <2> SUFFICES ASSUME IInv, NEW t \in Tokens, tokens[t].valid,
                      tokens[t].version = version[tokens[t].user]
               PROVE  /\ status[tokens[t].user] = "active"
                      /\ tokens[t].password = password[tokens[t].user]
    BY DEF SessionsKnowPassword
  <2>1. TokenStands(t) /\ tokens[t] \in Token BY DEF IInv, TokenInv
  <2>2. /\ tokens[t].user \in Users
        /\ Known(tokens[t].user, tokens[t].version, tokens[t].password)
    BY <2>1 DEF TokenStands, Token
  <2>3. UserStands(tokens[t].user) BY <2>2 DEF IInv, UserInv
  <2> QED BY <2>2, <2>3 DEF Known, UserStands
<1> QED BY <1>1, InitInv, InductiveStep, PTL DEF Spec

-----------------------------------------------------------------------------
(* The newest letter. *)

Newest ==
    \A e \in Emails : mailed'[e] # mailed[e] =>
        \A c \in Codes :
            c > mailed'[e] /\ codes[mailed'[e]].purpose # "none" =>
                ~(codes[c].email = e /\ codes[c].purpose = codes[mailed'[e]].purpose)

(* The letter in the hands of the worker is of the newest code of its kind. *)
LEMMA CurIsNewest ==
    ASSUME IInv, cur # None, mailed' = [mailed EXCEPT ![codes[cur].email] = cur]
    PROVE  Newest
<1>0. LetterInv /\ LetterTypes BY DEF IInv, LetterInv
<1>1. cur \in Codes /\ letters[cur] = "pending" BY <1>0 DEF LetterInv, LetterTypes
<1>2. NoneAfter(cur, codes[cur].email, codes[cur].purpose)
  BY <1>0, <1>1 DEF LetterInv, LetterStands
<1>3. mailed \in [Emails -> Codes \cup {None}] BY <1>0 DEF LetterTypes
<1>4. ASSUME NEW e \in Emails, mailed'[e] # mailed[e]
      PROVE  mailed'[e] = cur /\ codes[cur].email = e
  BY <1>3, <1>4
<1> QED BY <1>2, <1>4 DEF Newest, NoneAfter

LEMMA OthersMailNothing == ASSUME Next PROVE
    \/ UNCHANGED mailed
    \/ \E r \in Requests, ok \in BOOLEAN : Mail(r, ok)
    \/ \E ok \in BOOLEAN : SendLetter(ok)
    \/ WorkerDies
<1>1. ASSUME NEW r \in Requests, Session(r) PROVE UNCHANGED mailed
  BY <1>1 DEF Session, Login, RecordFailedLogin, IssueTokens, LockToken, Rotate,
     ChangePassword, ResetPassword, LockForPassword, SetPassword
<1>2. ASSUME NEW r \in Requests, Code(r), \A ok \in BOOLEAN : ~Mail(r, ok)
      PROVE  UNCHANGED mailed
  BY <1>2 DEF Code, ForgotPassword, Register, LockForgotten, RecordRequest, CommitCode,
     ConfirmReset, ConfirmRegistration
<1>3. ASSUME NEW r \in Requests, Profile(r) PROVE UNCHANGED mailed
  BY <1>3 DEF Profile, EditEmail, UploadAvatar, RemoveAvatar, DeleteProfile, SaveProfile,
     SaveAvatar, UploadFails, DeleteFiles, CloseAccount
<1>4. ASSUME NEW r \in Requests, RequestDies(r) PROVE UNCHANGED mailed
  BY <1>4 DEF RequestDies
<1>5. ASSUME NEW r \in Requests, NEW s \in Requests, BreakDeadlock(r, s)
      PROVE  UNCHANGED mailed
  BY <1>5 DEF BreakDeadlock
<1>6. Passing \/ Cleanup => UNCHANGED mailed
  BY DEF Passing, ForgetCounts, ExpireCode, ReleaseEmail, Cleanup, SelectExpired,
     DeleteSelected
<1>7. ASSUME NEW c \in Codes, TakeLetter(c) PROVE UNCHANGED mailed BY <1>7 DEF TakeLetter
<1>8. SelectLetters => UNCHANGED mailed BY DEF SelectLetters
<1> QED BY <1>1, <1>2, <1>3, <1>4, <1>5, <1>6, <1>7, <1>8 DEF Next, Worker

LEMMA NewestStep == IInv /\ [Next]_vars => [Newest]_vars
<1> SUFFICES ASSUME IInv, Next PROVE Newest BY DEF Newest
<1>0. LetterInv /\ LetterTypes /\ CodeInv /\ CodeTypes
  BY DEF IInv, LetterInv, CodeInv
<1>1. CASE UNCHANGED mailed BY <1>1 DEF Newest
<1>2. ASSUME NEW r \in Requests, NEW ok \in BOOLEAN, Mail(r, ok) PROVE Newest
  <2>1. /\ drawn < MaxCodes
        /\ mailed' = IF ok THEN [mailed EXCEPT ![call[r].email] = drawn + 1] ELSE mailed
    BY <1>2 DEF Mail
  <2>2. drawn \in Nat /\ drawn + 1 \in Codes BY <1>0, <2>1 DEF CodeTypes, Codes
  <2>3. codes[drawn + 1].purpose = "none"
    BY <1>0, <2>2 DEF CodeInv, CodeStands, NoCode
  <2>4. mailed \in [Emails -> Codes \cup {None}] BY <1>0 DEF LetterTypes
  <2>5. \A e \in Emails : mailed'[e] # mailed[e] => mailed'[e] = drawn + 1
    BY <2>1, <2>4
  <2> QED BY <2>3, <2>5 DEF Newest
<1>3. ASSUME NEW ok \in BOOLEAN, SendLetter(ok) PROVE Newest
  <2>1. cur # None /\ (\/ mailed' = mailed
                       \/ mailed' = [mailed EXCEPT ![codes[cur].email] = cur])
    BY <1>3 DEF SendLetter
  <2> QED BY <1>1, <2>1, CurIsNewest
<1>4. CASE WorkerDies BY <1>4, CurIsNewest DEF WorkerDies
<1> QED BY <1>1, <1>2, <1>3, <1>4, OthersMailNothing

(* Neither the queue nor a worker that dies and sends a letter again mails *)
(* a code when a newer one of its purpose is stored for the e-mail         *)
(* (deliver_or_enqueue_auth_email, process_auth_email_queue).              *)
THEOREM LettersAreNewest == Spec => NoStaleLetter
<1>1. [Newest]_vars <=> [\A e \in Emails : mailed'[e] # mailed[e] =>
           \A c \in Codes :
               c > mailed'[e] /\ codes[mailed'[e]].purpose # "none" =>
                   ~(codes[c].email = e /\ codes[c].purpose = codes[mailed'[e]].purpose)]_vars
  BY DEF Newest
<1> QED BY <1>1, InitInv, InductiveStep, NewestStep, PTL DEF Spec, NoStaleLetter
=============================================================================
