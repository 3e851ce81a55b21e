------------------------------ MODULE Accounts ------------------------------
(***************************************************************************)
(* Accounts: sessions and codes (users/services.py), the letters that      *)
(* carry the codes (users/email_delivery.py), the profile with its avatar  *)
(* (users/profile_services.py) and the clean-up (users/maintenance.py).    *)
(*                                                                         *)
(* A request is a few steps between which others run: it holds the rows it *)
(* has locked from one step to the next and writes when it commits.  What  *)
(* leaves the database, a letter or a file, leaves it before the commit.   *)
(* A request that is refused changes nothing and is not a step.            *)
(***************************************************************************)
EXTENDS Naturals, FiniteSets

CONSTANTS
    Requests,               \* handlers of the API that run at a time
    Users, Emails,
    Menus,                  \* bound: sets of operations that are mixed
    MaxTokens, MaxCodes, MaxFiles, MaxPasswords,    \* bounds
    LoginLimit,             \* LOGIN_FAILURE_LIMIT
    AskLimit,               \* PASSWORD_RESET_REQUEST_LIMIT
    MaxGuesses,             \* MAX_ATTEMPTS of a code
    MaxSends,               \* MAX_RETRY_ATTEMPTS of a letter
    MaxFaults,              \* bound: requests and workers that die
    None

Tokens == 1 .. MaxTokens    \* refresh tokens in the order of their creation
Codes == 1 .. MaxCodes      \* codes in the order they are drawn
Files == 1 .. MaxFiles
Passwords == 0 .. MaxPasswords

ASSUME AccountsAssumption ==
    /\ MaxTokens \in Nat /\ MaxCodes \in Nat /\ MaxFiles \in Nat
    /\ MaxPasswords \in Nat /\ MaxFaults \in Nat
    /\ LoginLimit \in Nat \ {0} /\ AskLimit \in Nat \ {0}
    /\ MaxGuesses \in Nat \ {0} /\ MaxSends \in Nat \ {0}
    /\ IsFiniteSet(Requests)
    /\ None \notin Nat /\ None \notin Emails /\ None \notin Users

VARIABLES
    menu,                   \* the operations of this behaviour
    status, email, password, version, avatar,   \* User; version is token_version
    reserved,               \* e-mails of DeletedEmailReservation
    files,                  \* avatars in the storage
    saved, drawn,           \* numbers of files and codes that there ever were
    tokens,                 \* RefreshToken
    codes,                  \* PasswordResetToken and the codes of registrations
    registration,           \* RegistrationToken of an e-mail: its code
    doomed,                 \* registrations that a clean-up is about to delete
    letters, sends,         \* AuthEmailDelivery of a code: status, attempts
    mailed,                 \* the last code that was mailed to an e-mail
    failures, asked,        \* counters of failed logins and of reset requests
    pc, call,               \* requests
    batch, late, cur,       \* process_auth_email_queue: letters, expired ones
    faults

userVars == <<status, email, password, version>>
avatarVars == <<avatar, files, saved>>
codeVars == <<codes, drawn, registration, doomed>>
letterVars == <<letters, sends>>
counterVars == <<failures, asked>>
requestVars == <<pc, call>>
workerVars == <<batch, late, cur>>
vars == <<menu, userVars, reserved, avatarVars, tokens, codeVars, letterVars,
          mailed, counterVars, requestVars, workerVars, faults>>

NoToken == [user |-> None, session |-> 0, version |-> 0, password |-> 0,
            valid |-> FALSE]
NoCode == [purpose |-> "none", email |-> None, user |-> None, guesses |-> 0,
           open |-> FALSE, confirmed |-> FALSE, expired |-> FALSE, uses |-> 0]

(* One user is registered, another one may be. *)
Init ==
    /\ menu \in Menus
    /\ \E u \in Users, e \in [Users -> Emails] :
           /\ \A v, w \in Users : e[v] = e[w] => v = w
           /\ status \in {[v \in Users |-> IF v = u THEN "active" ELSE s] :
                              s \in {"none", "active"}}
           /\ email = [v \in Users |-> IF status[v] = "none" THEN None ELSE e[v]]
    /\ password = [u \in Users |-> 0]
    /\ version = [u \in Users |-> 0]
    /\ avatar = [u \in Users |-> None]
    /\ reserved = {} /\ files = {} /\ saved = 0 /\ drawn = 0
    /\ tokens = [t \in Tokens |-> NoToken]
    /\ codes = [c \in Codes |-> NoCode]
    /\ registration = [e \in Emails |-> None]
    /\ doomed = {}
    /\ letters = [c \in Codes |-> "none"]
    /\ sends = [c \in Codes |-> 0]
    /\ mailed = [e \in Emails |-> None]
    /\ failures = 0 /\ asked = 0
    /\ pc = [r \in Requests |-> "idle"]
    /\ call = [r \in Requests |-> None]
    /\ batch = {} /\ late = {} /\ cur = None
    /\ faults = 0

-----------------------------------------------------------------------------
(* Row locks. *)

UserFree(u) ==
    \A r \in Requests :
        pc[r] \in {"password", "delete", "edit", "upload", "mail", "commit"} =>
            call[r].user # u

(* Mutant: _validated_stored_refresh(refresh_value) without for_update.    *)
TokenFree_NotLocked(t) == TRUE

TokenFree(t) == \A r \in Requests : pc[r] = "token" => call[r].token # t

TokensOf(u) == {t \in Tokens : tokens[t].user = u /\ tokens[t].valid}
TokensFree(u) == \A t \in TokensOf(u) : TokenFree(t)

(* The reset code of a user is locked by those who have locked the user.   *)
ResetFree(u) ==
    \A r \in Requests :
        /\ pc[r] \in {"mail", "commit"} => call[r].user # u
        /\ pc[r] = "password" => ~(call[r].op = "reset" /\ call[r].user = u)

(* The row of a registration is locked once its letter is on the way.      *)
RegistrationFree(e) ==
    \A r \in Requests :
        pc[r] = "commit" => ~(call[r].op = "register" /\ call[r].email = e)

PendingFor(e, p) ==
    {c \in Codes : letters[c] = "pending" /\ codes[c].email = e /\ codes[c].purpose = p}
LetterFree(c) == \A r \in Requests : pc[r] = "commit" => c \notin call[r].cancels

-----------------------------------------------------------------------------
(* Requests *)

Begin(r, op) == pc[r] = "idle" /\ op \in menu
Go(r, step, c) == pc' = [pc EXCEPT ![r] = step] /\ call' = [call EXCEPT ![r] = c]
End(r) == Go(r, "idle", None)

ActiveUser(e) == {u \in Users : status[u] = "active" /\ email[u] = e}
Free(S) == CHOOSE i \in S : \A j \in S : i <= j
Unissued == {t \in Tokens : tokens[t].user = None}

-----------------------------------------------------------------------------
(* Sessions *)

LoginBlocked == failures >= LoginLimit

(* LoginView: the counter is checked and the user is read, unlocked.       *)
Login(r, e, p) ==
    /\ Begin(r, "login")
    /\ ~LoginBlocked
    /\ \E u \in ActiveUser(e) :
           /\ password[u] # p => "mistype" \in menu
           /\ IF password[u] = p
              THEN Go(r, "issue", [user |-> u, version |-> version[u], password |-> p])
              ELSE Go(r, "wrong", None)
    /\ UNCHANGED <<menu, userVars, reserved, avatarVars, tokens, codeVars,
                   letterVars, mailed, counterVars, workerVars, faults>>

RecordFailedLogin(r) ==
    /\ pc[r] = "wrong"
    /\ failures' = failures + 1
    /\ End(r)
    /\ UNCHANGED <<menu, userVars, reserved, avatarVars, tokens, codeVars,
                   letterVars, mailed, asked, workerVars, faults>>

(* The window of a counter has passed. *)
ForgetCounts ==
    /\ "wait" \in menu
    /\ \/ failures > 0 /\ failures' = 0 /\ UNCHANGED asked
       \/ asked > 0 /\ asked' = 0 /\ UNCHANGED failures
    /\ UNCHANGED <<menu, userVars, reserved, avatarVars, tokens, codeVars,
                   letterVars, mailed, requestVars, workerVars, faults>>

(* Mutant: the token carries the version the user has now.                 *)
VersionKnown_ReadAgain(r) == version[call[r].user]

VersionKnown(r) == call[r].version

(* The end of LoginView: the new token refers to the user and waits for    *)
(* its lock, but the version in it is the one that was read.               *)
IssueTokens(r) ==
    LET u == call[r].user
        t == Free(Unissued) IN
    /\ pc[r] = "issue" /\ Unissued # {}
    /\ UserFree(u)
    /\ tokens' = [tokens EXCEPT ![t] =
           [user |-> u, session |-> t, version |-> VersionKnown(r),
            password |-> call[r].password, valid |-> TRUE]]
    /\ failures' = 0
    /\ End(r)
    /\ UNCHANGED <<menu, userVars, reserved, avatarVars, codeVars, letterVars,
                   mailed, asked, workerVars, faults>>

(* refresh_session and logout_session lock the token, then the user that   *)
(* the query joins.                                                        *)
LockToken(r, op, t) ==
    /\ Begin(r, op)
    /\ tokens[t].valid /\ TokenFree(t)
    /\ Go(r, "token", [op |-> op, token |-> t])
    /\ UNCHANGED <<menu, userVars, reserved, avatarVars, tokens, codeVars,
                   letterVars, mailed, counterVars, workerVars, faults>>

(* A stale version or a closed account is an error that changes nothing.   *)
Rotate(r) ==
    LET old == call[r].token
        u == tokens[old].user
        new == Free(Unissued) IN
    /\ pc[r] = "token" /\ UserFree(u)
    /\ IF tokens[old].version # version[u] \/ status[u] # "active"
       THEN UNCHANGED tokens
       ELSE IF call[r].op = "logout"
       THEN tokens' = [tokens EXCEPT ![old].valid = FALSE]
       ELSE /\ Unissued # {}
            /\ tokens' = [tokens EXCEPT ![old].valid = FALSE,
                                        ![new] = [tokens[old] EXCEPT !.valid = TRUE]]
    /\ End(r)
    /\ UNCHANGED <<menu, userVars, reserved, avatarVars, codeVars, letterVars,
                   mailed, counterVars, workerVars, faults>>

(* change_password has locked the user, reset_password its code as well.   *)
LockForPassword(r, op, u, c) ==
    /\ Begin(r, op)
    /\ UserFree(u)
    /\ password[u] < MaxPasswords
    /\ Go(r, "password", [op |-> op, user |-> u, code |-> c])
    /\ UNCHANGED <<menu, userVars, reserved, avatarVars, tokens, codeVars,
                   letterVars, mailed, counterVars, workerVars, faults>>

ChangePassword(r, u) ==
    status[u] = "active" /\ LockForPassword(r, "change", u, None)

OpenResets(u) ==
    {c \in Codes : codes[c].purpose = "reset" /\ codes[c].user = u /\ codes[c].open}

ResetPassword(r, e) ==
    \E u \in ActiveUser(e) : \E c \in OpenResets(u) :
        /\ ResetFree(u)
        /\ codes[c].confirmed /\ ~codes[c].expired
        /\ LockForPassword(r, "reset", u, c)

RevokeTokens(u) ==
    tokens' = [t \in Tokens |-> IF t \in TokensOf(u)
                                THEN [tokens[t] EXCEPT !.valid = FALSE]
                                ELSE tokens[t]]

SetPassword(r) ==
    LET u == call[r].user
        c == call[r].code IN
    /\ pc[r] = "password" /\ TokensFree(u)
    /\ password' = [password EXCEPT ![u] = @ + 1]
    /\ version' = [version EXCEPT ![u] = @ + 1]
    /\ RevokeTokens(u)
    /\ codes' = IF c = None THEN codes
                ELSE [codes EXCEPT ![c].open = FALSE, ![c].uses = @ + 1]
    /\ End(r)
    /\ UNCHANGED <<menu, status, email, reserved, avatarVars, drawn, registration, doomed,
                   letterVars, mailed, counterVars, workerVars, faults>>

-----------------------------------------------------------------------------
(* Codes *)

MayReset(u) == UserFree(u)

(* start_password_reset compares the counter of requests first ...         *)
ForgotPassword(r, e) ==
    /\ Begin(r, "forgot")
    /\ asked < AskLimit
    /\ Go(r, "forgot", [email |-> e])
    /\ UNCHANGED <<menu, userVars, reserved, avatarVars, tokens, codeVars,
                   letterVars, mailed, counterVars, workerVars, faults>>

(* ... and locks the user.  The codes it will close are those open now.    *)
LockForgotten(r) ==
    /\ pc[r] = "forgot"
    /\ LET e == call[r].email IN
       IF ActiveUser(e) = {}
       THEN End(r)
       ELSE \E u \in ActiveUser(e) :
                /\ MayReset(u)
                /\ Go(r, "mail", [op |-> "forgot", email |-> e, user |-> u,
                                  closes |-> OpenResets(u)])
    /\ UNCHANGED <<menu, userVars, reserved, avatarVars, tokens, codeVars,
                   letterVars, mailed, counterVars, workerVars, faults>>

(* Both are read here at once.  The code reads the reservation first, then *)
(* may wait for the row of the user: a delete_profile that commits between *)
(* the two is left out, and would let a reserved e-mail be registered.     *)
Available(e) == e \notin reserved /\ \A u \in Users : email[u] # e

(* start_registration has found the e-mail free; no row is locked yet.     *)
Register(r, e) ==
    /\ Begin(r, "register")
    /\ Available(e)
    /\ Go(r, "mail", [op |-> "register", email |-> e, user |-> None,
                      closes |-> {}])
    /\ UNCHANGED <<menu, userVars, reserved, avatarVars, tokens, codeVars,
                   letterVars, mailed, counterVars, workerVars, faults>>

(* Mutant: the letters of older codes stay in the queue.                   *)
Superseded_Kept(e, p) == {}

Superseded(e, p) == PendingFor(e, p)

Purpose(op) == IF op = "forgot" THEN "reset" ELSE "registration"

(* deliver_or_enqueue_auth_email inside the transaction: the letters of    *)
(* the older codes are locked, then the new letter goes out or fails.      *)
Mail(r, ok) ==
    LET q == call[r]
        c == drawn + 1
        old == Superseded(q.email, Purpose(q.op)) IN
    /\ pc[r] = "mail" /\ drawn < MaxCodes
    /\ cur \notin old /\ \A d \in old : LetterFree(d)
    /\ q.op = "register" => RegistrationFree(q.email)
    /\ Go(r, "commit", [op |-> q.op, email |-> q.email, user |-> q.user,
                        code |-> c, closes |-> q.closes, cancels |-> old, sent |-> ok])
    /\ drawn' = drawn + 1
    /\ mailed' = IF ok THEN [mailed EXCEPT ![q.email] = c] ELSE mailed
    /\ UNCHANGED <<menu, userVars, reserved, avatarVars, tokens, codes,
                   registration, doomed, letterVars, counterVars, workerVars, faults>>

CommitCode(r) ==
    LET q == call[r] IN
    /\ pc[r] = "commit"
    /\ codes' = [c \in Codes |->
           IF c = q.code
           THEN [NoCode EXCEPT !.purpose = Purpose(q.op), !.email = q.email,
                               !.user = q.user, !.open = TRUE]
           ELSE IF c \in q.closes \/ (q.op = "register" /\ c = registration[q.email])
           THEN [codes[c] EXCEPT !.open = FALSE] ELSE codes[c]]
    /\ registration' = IF q.op = "register"
                       THEN [registration EXCEPT ![q.email] = q.code]
                       ELSE registration
    /\ letters' = [c \in Codes |->
           IF c = q.code THEN IF q.sent THEN "none" ELSE "pending"
           ELSE IF c \in q.cancels THEN "cancelled" ELSE letters[c]]
    /\ IF q.op = "forgot" THEN Go(r, "asked", None) ELSE End(r)
    /\ UNCHANGED <<menu, userVars, reserved, avatarVars, tokens, drawn, doomed, sends,
                   mailed, counterVars, workerVars, faults>>

RecordRequest(r) ==
    /\ pc[r] = "asked"
    /\ asked' = asked + 1
    /\ End(r)
    /\ UNCHANGED <<menu, userVars, reserved, avatarVars, tokens, codeVars,
                   letterVars, mailed, failures, workerVars, faults>>

CanGuess(c) == ~codes[c].expired /\ codes[c].guesses < MaxGuesses

(* confirm_password_reset_code *)
ConfirmReset(r, e, right) ==
    /\ Begin(r, "confirm")
    /\ right \/ "mistype" \in menu
    /\ \E u \in ActiveUser(e) : \E c \in OpenResets(u) :
           /\ ResetFree(u)
           /\ CanGuess(c)
           /\ codes' = IF right THEN [codes EXCEPT ![c].confirmed = TRUE]
                                ELSE [codes EXCEPT ![c].guesses = @ + 1]
    /\ UNCHANGED <<menu, userVars, reserved, avatarVars, tokens, drawn, registration,
                   doomed, letterVars, mailed, counterVars, requestVars, workerVars,
                   faults>>

(* confirm_registration: the wrong code is counted, the right one makes a  *)
(* workspace, its user and a session, unless the e-mail is taken by now.   *)
ConfirmRegistration(r, e, right) ==
    LET c == registration[e]
        t == Free(Unissued) IN
    /\ Begin(r, "confirm")
    /\ right \/ "mistype" \in menu
    /\ c # None /\ RegistrationFree(e) /\ CanGuess(c)
    /\ IF ~right
       THEN /\ codes' = [codes EXCEPT ![c].guesses = @ + 1]
            /\ UNCHANGED <<userVars, tokens, registration, doomed>>
       ELSE /\ Available(e) /\ Unissued # {}
            /\ \E u \in Users :
                   /\ status[u] = "none"
                   /\ status' = [status EXCEPT ![u] = "active"]
                   /\ email' = [email EXCEPT ![u] = e]
                   /\ tokens' = [tokens EXCEPT ![t] =
                          [user |-> u, session |-> t, version |-> version[u],
                           password |-> password[u], valid |-> TRUE]]
            /\ codes' = [codes EXCEPT ![c].open = FALSE, ![c].uses = @ + 1]
            /\ registration' = [registration EXCEPT ![e] = None]
            /\ doomed' = doomed \ {e}
            /\ UNCHANGED <<password, version>>
    /\ UNCHANGED <<menu, reserved, avatarVars, drawn, letterVars, mailed, counterVars,
                   requestVars, workerVars, faults>>

ExpireCode(c) ==
    /\ codes[c].open /\ ~codes[c].expired
    /\ codes' = [codes EXCEPT ![c].expired = TRUE]
    /\ UNCHANGED <<menu, userVars, reserved, avatarVars, tokens, drawn, registration,
                   doomed, letterVars, mailed, counterVars, requestVars, workerVars,
                   faults>>

(* cleanup_expired_auth_records reads the keys of expired registrations    *)
(* and deletes these rows, renewed or not.  Of the other rows it deletes,  *)
(* closed tokens and codes and settled letters could not be used any more. *)
(* A released reservation could: delete_profile may renew it between the   *)
(* two steps, and that the clean-up then deletes it is left out.           *)
SelectExpired ==
    LET old == {e \in Emails : registration[e] # None /\ codes[registration[e]].expired} IN
    /\ "cleanup" \in menu /\ doomed = {} /\ old # {}
    /\ doomed' = old
    /\ UNCHANGED <<menu, userVars, reserved, avatarVars, tokens, codes, drawn, registration,
                   letterVars, mailed, counterVars, requestVars, workerVars, faults>>

DeleteSelected ==
    /\ doomed # {} /\ \A e \in doomed : RegistrationFree(e)
    /\ codes' = [c \in Codes |-> IF \E e \in doomed : registration[e] = c
                                 THEN [codes[c] EXCEPT !.open = FALSE] ELSE codes[c]]
    /\ registration' = [e \in Emails |-> IF e \in doomed THEN None ELSE registration[e]]
    /\ doomed' = {}
    /\ UNCHANGED <<menu, userVars, reserved, avatarVars, tokens, drawn, letterVars, mailed,
                   counterVars, requestVars, workerVars, faults>>

-----------------------------------------------------------------------------
(* The profile *)

LockProfile(r, op, u) == Begin(r, op) /\ status[u] = "active" /\ UserFree(u)

(* update_profile: the reservation is looked for first ...                 *)
EditEmail(r, u, e) ==
    /\ LockProfile(r, "edit", u)
    /\ email[u] # e /\ e \notin reserved
    /\ Go(r, "edit", [user |-> u, email |-> e])
    /\ UNCHANGED <<menu, userVars, reserved, avatarVars, tokens, codeVars,
                   letterVars, mailed, counterVars, workerVars, faults>>

(* ... and another user afterwards.                                        *)
SaveProfile(r) ==
    LET u == call[r].user
        e == call[r].email IN
    /\ pc[r] = "edit"
    /\ email' = IF \E v \in Users : email[v] = e THEN email ELSE [email EXCEPT ![u] = e]
    /\ End(r)
    /\ UNCHANGED <<menu, status, password, version, reserved, avatarVars, tokens,
                   codeVars, letterVars, mailed, counterVars, workerVars, faults>>

(* upload_avatar writes its files while it holds the user. *)
UploadAvatar(r, u) ==
    /\ LockProfile(r, "upload", u)
    /\ saved < MaxFiles
    /\ saved' = saved + 1
    /\ files' = files \cup {saved + 1}
    /\ Go(r, "upload", [user |-> u, new |-> saved + 1, old |-> avatar[u]])
    /\ UNCHANGED <<menu, userVars, avatar, reserved, tokens, codeVars, letterVars,
                   mailed, counterVars, workerVars, faults>>

SaveAvatar(r) ==
    /\ pc[r] = "upload"
    /\ avatar' = [avatar EXCEPT ![call[r].user] = call[r].new]
    /\ Go(r, "clean", [file |-> call[r].old])
    /\ UNCHANGED <<menu, userVars, files, saved, reserved, tokens, codeVars,
                   letterVars, mailed, counterVars, workerVars, faults>>

Abandoned(r) == call[r].new

(* An exception rolls the upload back and its files are deleted. *)
UploadFails(r) ==
    /\ pc[r] = "upload"
    /\ faults < MaxFaults /\ faults' = faults + 1
    /\ files' = files \ {Abandoned(r)}
    /\ End(r)
    /\ UNCHANGED <<menu, userVars, avatar, saved, reserved, tokens, codeVars,
                   letterVars, mailed, counterVars, workerVars>>

(* delete_avatar *)
RemoveAvatar(r, u) ==
    /\ LockProfile(r, "upload", u) /\ avatar[u] # None
    /\ avatar' = [avatar EXCEPT ![u] = None]
    /\ Go(r, "clean", [file |-> avatar[u]])
    /\ UNCHANGED <<menu, userVars, files, saved, reserved, tokens, codeVars,
                   letterVars, mailed, counterVars, workerVars, faults>>

(* _delete_file_references(old_references), after the commit.              *)
DeleteFiles(r) ==
    /\ pc[r] = "clean"
    /\ files' = files \ {call[r].file}
    /\ End(r)
    /\ UNCHANGED <<menu, userVars, avatar, saved, reserved, tokens, codeVars,
                   letterVars, mailed, counterVars, workerVars, faults>>

DeleteProfile(r, u) ==
    /\ LockProfile(r, "delete", u)
    /\ Go(r, "delete", [op |-> "delete", user |-> u])
    /\ UNCHANGED <<menu, userVars, reserved, avatarVars, tokens, codeVars,
                   letterVars, mailed, counterVars, workerVars, faults>>

CloseAccount(r) ==
    LET u == call[r].user IN
    /\ pc[r] = "delete" /\ TokensFree(u)
    /\ reserved' = reserved \cup {email[u]}
    /\ status' = [status EXCEPT ![u] = "deleted"]
    /\ email' = [email EXCEPT ![u] = None]
    /\ password' = [password EXCEPT ![u] = None]
    /\ version' = [version EXCEPT ![u] = @ + 1]
    /\ RevokeTokens(u)
    /\ avatar' = [avatar EXCEPT ![u] = None]
    /\ Go(r, "clean", [file |-> avatar[u]])
    /\ UNCHANGED <<menu, files, saved, codeVars, letterVars, mailed, counterVars,
                   workerVars, faults>>

(* EMAIL_REUSE_DELAY has passed. *)
ReleaseEmail(e) ==
    /\ e \in reserved
    /\ reserved' = reserved \ {e}
    /\ UNCHANGED <<menu, userVars, avatarVars, tokens, codeVars, letterVars, mailed,
                   counterVars, requestVars, workerVars, faults>>

-----------------------------------------------------------------------------
(* process_auth_email_queue *)

(* The time of the batch decides for all its letters what has expired.     *)
SelectLetters ==
    /\ "queue" \in menu /\ batch = {}
    /\ batch' = {c \in Codes : letters[c] = "pending"}
    /\ batch' # {}
    /\ late' = {c \in batch' : codes[c].expired}
    /\ UNCHANGED <<menu, userVars, reserved, avatarVars, tokens, codeVars,
                   letterVars, mailed, counterVars, requestVars, cur, faults>>

(* The row is locked and read again. *)
TakeLetter(c) ==
    /\ cur = None /\ c \in batch /\ LetterFree(c)
    /\ batch' = batch \ {c}
    /\ late' = late \ {c}
    /\ IF letters[c] = "pending" /\ c \notin late
       THEN cur' = c /\ UNCHANGED letters
       ELSE /\ letters' = IF letters[c] = "pending"
                          THEN [letters EXCEPT ![c] = "expired"] ELSE letters
            /\ UNCHANGED cur
    /\ UNCHANGED <<menu, userVars, reserved, avatarVars, tokens, codeVars, sends,
                   mailed, counterVars, requestVars, faults>>

SendLetter(ok) ==
    /\ cur # None
    /\ sends' = [sends EXCEPT ![cur] = @ + 1]
    /\ letters' = [letters EXCEPT ![cur] =
           IF ok THEN "sent" ELSE IF sends[cur] + 1 >= MaxSends THEN "failed" ELSE @]
    /\ mailed' = IF ok THEN [mailed EXCEPT ![codes[cur].email] = cur] ELSE mailed
    /\ cur' = None
    /\ UNCHANGED <<menu, userVars, reserved, avatarVars, tokens, codeVars, counterVars,
                   requestVars, batch, late, faults>>

(* The worker dies between a letter and its commit: the letter is pending  *)
(* again and will be sent again.                                           *)
WorkerDies ==
    /\ cur # None
    /\ faults < MaxFaults /\ faults' = faults + 1
    /\ mailed' = [mailed EXCEPT ![codes[cur].email] = cur]
    /\ batch' = {} /\ late' = {} /\ cur' = None
    /\ UNCHANGED <<menu, userVars, reserved, avatarVars, tokens, codeVars,
                   letterVars, counterVars, requestVars>>

-----------------------------------------------------------------------------
(* A handler dies: its transaction is rolled back.                         *)
RequestDies(r) ==
    /\ "stop" \in menu /\ pc[r] # "idle"
    /\ faults < MaxFaults /\ faults' = faults + 1
    /\ End(r)
    /\ UNCHANGED <<menu, userVars, reserved, avatarVars, tokens, codeVars,
                   letterVars, mailed, counterVars, workerVars>>

(* One request holds a token and waits for its user, another one holds the *)
(* user and waits for its tokens: PostgreSQL cancels one of them.          *)
BreakDeadlock(r, s) ==
    /\ pc[r] = "token" /\ pc[s] \in {"password", "delete"}
    /\ tokens[call[r].token].user = call[s].user
    /\ End(r) \/ End(s)
    /\ UNCHANGED <<menu, userVars, reserved, avatarVars, tokens, codeVars,
                   letterVars, mailed, counterVars, workerVars, faults>>

Session(r) ==
    \/ \E e \in Emails, p \in Passwords : Login(r, e, p)
    \/ RecordFailedLogin(r) \/ IssueTokens(r)
    \/ \E op \in {"refresh", "logout"}, t \in Tokens : LockToken(r, op, t)
    \/ Rotate(r)
    \/ \E u \in Users : ChangePassword(r, u)
    \/ \E e \in Emails : ResetPassword(r, e)
    \/ SetPassword(r)

Code(r) ==
    \/ \E e \in Emails : ForgotPassword(r, e) \/ Register(r, e)
    \/ LockForgotten(r) \/ RecordRequest(r)
    \/ \E ok \in BOOLEAN : Mail(r, ok)
    \/ CommitCode(r)
    \/ \E e \in Emails, right \in BOOLEAN :
           ConfirmReset(r, e, right) \/ ConfirmRegistration(r, e, right)

Profile(r) ==
    \/ \E u \in Users, e \in Emails : EditEmail(r, u, e)
    \/ \E u \in Users : UploadAvatar(r, u) \/ RemoveAvatar(r, u) \/ DeleteProfile(r, u)
    \/ SaveProfile(r) \/ SaveAvatar(r) \/ UploadFails(r)
    \/ DeleteFiles(r) \/ CloseAccount(r)

Passing ==
    \/ ForgetCounts
    \/ \E c \in Codes : ExpireCode(c)
    \/ \E e \in Emails : ReleaseEmail(e)

Cleanup == SelectExpired \/ DeleteSelected

Worker ==
    \/ SelectLetters
    \/ \E c \in Codes : TakeLetter(c)
    \/ \E ok \in BOOLEAN : SendLetter(ok)
    \/ WorkerDies

Next ==
    \/ \E r \in Requests : Session(r) \/ Code(r) \/ Profile(r) \/ RequestDies(r)
    \/ \E r, s \in Requests : BreakDeadlock(r, s)
    \/ Passing \/ Cleanup \/ Worker

Spec == Init /\ [][Next]_vars

-----------------------------------------------------------------------------
(* Properties *)

(* The variables have their types.  The counters of failed logins and of   *)
(* reset requests pass their limits only by the requests that had been let *)
(* through before the last one was counted (login_is_blocked,              *)
(* record_failed_login, start_password_reset).                             *)
TypeOK ==
    /\ menu \in Menus
    /\ status \in [Users -> {"none", "active", "deleted"}]
    /\ email \in [Users -> Emails \cup {None}]
    /\ password \in [Users -> Passwords \cup {None}]
    /\ version \in [Users -> 0 .. MaxPasswords + 1]
    /\ avatar \in [Users -> Files \cup {None}]
    /\ reserved \subseteq Emails /\ files \subseteq Files /\ saved \in 0 .. MaxFiles
    /\ drawn \in 0 .. MaxCodes
    /\ DOMAIN tokens = Tokens /\ DOMAIN codes = Codes
    /\ registration \in [Emails -> Codes \cup {None}]
    /\ doomed \subseteq Emails
    /\ letters \in [Codes -> {"none", "pending", "sent", "failed", "cancelled", "expired"}]
    /\ sends \in [Codes -> 0 .. MaxSends]
    /\ mailed \in [Emails -> Codes \cup {None}]
    /\ failures \in 0 .. LoginLimit + Cardinality(Requests) - 1
    /\ asked \in 0 .. AskLimit + Cardinality(Requests) - 1
    /\ pc \in [Requests -> {"idle", "wrong", "issue", "token", "password", "forgot",
                            "mail", "commit", "asked", "edit", "upload", "clean", "delete"}]
    /\ batch \subseteq Codes /\ late \subseteq batch /\ cur \in Codes \cup {None}
    /\ faults \in 0 .. MaxFaults

(* A refresh token that would still be accepted was opened with the        *)
(* password its user has now: neither a login that read the user before a  *)
(* change, nor a refresh that crosses it, survives change_password,        *)
(* reset_password or delete_profile.                                       *)
SessionsKnowPassword ==
    \A t \in Tokens : LET u == tokens[t].user IN
        tokens[t].valid /\ tokens[t].version = version[u] =>
            status[u] = "active" /\ tokens[t].password = password[u]

(* A login has at most one token that is accepted, however many requests   *)
(* exchange it at the same time (refresh_session), and none after a logout *)
(* of the last one.                                                        *)
OneTokenPerSession ==
    \A s, t \in Tokens :
        tokens[s].valid /\ tokens[t].valid /\ tokens[s].session = tokens[t].session
            => s = t

(* A user has one open reset code, an e-mail one open registration, and a  *)
(* code is redeemed once, by whatever requests that overlap                *)
(* (start_password_reset, reset_password, confirm_registration).           *)
OneCodeInForce ==
    /\ \A u \in Users : Cardinality(OpenResets(u)) <= 1
    /\ \A c \in Codes : codes[c].uses <= 1

(* The queue never mails a code after a newer one of the same purpose was  *)
(* stored for the same e-mail: the letters of older codes are cancelled in *)
(* the transaction that stores the newer one.                              *)
NoStaleLetter ==
    [][\A e \in Emails : mailed'[e] # mailed[e] =>
           \A c \in Codes :
               c > mailed'[e] /\ codes[mailed'[e]].purpose # "none" =>
                   ~(codes[c].email = e /\ codes[c].purpose = codes[mailed'[e]].purpose)]_vars

(* The avatar of a user is in the storage: its files are deleted only      *)
(* after the commit that replaces them (upload_avatar, delete_avatar,      *)
(* delete_profile), and a failed upload deletes its own.                   *)
AvatarExists == \A u \in Users : avatar[u] # None => avatar[u] \in files

(* The state of accounts is sound: types, tokens, codes, avatars.          *)
Inv == TypeOK /\ OneTokenPerSession /\ OneCodeInForce /\ AvatarExists

(* The properties below do not hold. *)

(* An e-mail under EMAIL_REUSE_DELAY is not taken by an edit: update_profile *)
(* looks for the reservation before, and for the user after, the commit of *)
(* delete_profile.                                                         *)
ReservedEmailNotTaken == \A u \in Users : email[u] \notin reserved

(* Every file in the storage belongs to a user or a request: a handler     *)
(* that dies leaves its files.                                             *)
NoLostFile ==
    \A f \in files : \/ \E u \in Users : avatar[u] = f
                     \/ \E r \in Requests : \/ pc[r] = "upload" /\ call[r].new = f
                                            \/ pc[r] = "clean" /\ call[r].file = f

(* The clean-up deletes expired registrations only: it deletes one that    *)
(* was renewed after its key was read.                                     *)
CleanupTakesExpired ==
    [][\A e \in Emails : doomed # {} /\ doomed' = {} /\ registration[e] # registration'[e] =>
           codes[registration[e]].expired \/ codes'[registration[e]].uses > 0]_vars

(* A letter is not sent after its code has expired: the worker compares    *)
(* the expiry with the time its batch began.                               *)
NoLateLetter ==
    [][\A c \in Codes : letters'[c] = "sent" /\ letters[c] # "sent" => ~codes[c].expired]_vars

=============================================================================
