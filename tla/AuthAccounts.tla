---------------------------- MODULE AuthAccounts ----------------------------
(***************************************************************************)
(* The account of one e-mail address: registration and its one-time codes, *)
(* sign-in by password and by Google, password resets, session tokens and  *)
(* the deletion of the account.  Each handler reads in one statement and   *)
(* writes in a later one; what holds between the two are the unique        *)
(* constraint on users.email and the row locks of Postgres.                *)
(* (backend/app/services/auth_service.py, routes/auth.py,                  *)
(* core/security.py, services/email_service.py)                            *)
(*                                                                         *)
(* Handlers are slots that serve one request after the other.  A refused   *)
(* request (wrong or expired code, weak or reused password, wrong          *)
(* password) changes nothing and is left out, and so are the passwords.    *)
(***************************************************************************)
EXTENDS Integers

CONSTANTS
  Handlers,    \* the requests served at once
  MaxBirths,   \* bound: the accounts the address has had
  MaxCodes,    \* bound: the one-time codes generated
  MaxEras      \* bound: the accounts created and passwords reset

ASSUME BoundsAssumption == MaxBirths \in Nat /\ MaxCodes \in Nat /\ MaxEras \in Nat

VARIABLES
  \* The tables.
  users,           \* users with this address
  registrations,   \* email_otps
  resetCodes,      \* password_reset_otps
  \* What people hold.
  mailed,          \* codes that have arrived by mail
  tokens,          \* session tokens issued
  resetToken,      \* somebody has a password reset token that has not expired
  \* The server.
  handlers,        \* what each handler is doing
  nextCode,        \* orders the codes and stands for their values
  births,          \* accounts created so far; the id of a new account
  \* History.
  era,             \* counts the accounts created and the passwords reset
  overlapped,      \* a reset wrote a token_version computed from an outdated row
  left,            \* ids of deleted accounts
  stored,          \* codes that were ever committed
  taken            \* registrations removed with an account

vars == <<users, registrations, resetCodes, mailed, tokens, resetToken, handlers,
          nextCode, births, era, overlapped, left, stored, taken>>

tables == <<users, registrations, resetCodes>>
held == <<mailed, tokens, resetToken>>
history == <<era, overlapped, left, stored, taken>>

NoUser == -1
GoogleUser == 0   \* the id usr_<google id>; others are random, never used twice

\* from (history): the registration last verified for it; birth (history): how many
\* accounts there had been; since (history): the era of its creation or last reset.
User == [id : Nat, version : Nat, from : Nat, birth : Nat, since : Nat]

\* at: created_at, which is when the transaction began; asked (history): the accounts
\* there had been when the request looked for one.
Registration == [at : Nat, code : Nat, used : BOOLEAN, asked : Nat]

\* late (history): inserted when the account was gone or being deleted.
ResetCode == [at : Nat, used : BOOLEAN, late : BOOLEAN]

\* issued (history): the era it was issued in.
Token == [user : Nat, version : Nat, issued : Nat]

Steps == {"register", "resend", "forgot", "mail", "verify", "verified", "google",
          "sign", "resetCode", "reset", "delete", "deleting"}

\* rows: the code rows loaded, locked or deleted; code: a code generated; user and
\* version: the users row as loaded; asked (history) as in a registration.
Working == [pc : Steps, rows : SUBSET Nat, code : Nat, user : Nat \cup {NoUser},
            version : Nat, asked : Nat]
Idle == [pc |-> "idle", rows |-> {}, code |-> 0, user |-> NoUser, version |-> 0, asked |-> 0]

Init ==
  /\ users = {} /\ registrations = {} /\ resetCodes = {}
  /\ mailed = {} /\ tokens = {} /\ resetToken = FALSE
  /\ handlers = [h \in Handlers |-> Idle]
  /\ nextCode = 1 /\ births = 0
  /\ era = 0 /\ overlapped = FALSE /\ left = {} /\ stored = {} /\ taken = {}

-----------------------------------------------------------------------------
(* What handlers share.                                                    *)

Begins(h, work) == handlers[h].pc = "idle" /\ handlers' = [handlers EXCEPT ![h] = work]
Continues(h, pc) == handlers' = [handlers EXCEPT ![h].pc = pc]
Ends(h) == handlers' = [handlers EXCEPT ![h] = Idle]

UserExists(id) == \E u \in users : u.id = id

\* The row a code is compared with.
Newest(rows) ==
  {r \in rows : ~r.used /\ \A other \in rows : ~other.used => other.at <= r.at}

\* A verification has flushed is_used, or a deletion its DELETE, and not yet committed:
\* who wants to write the row waits.
LockedFor(h, row) ==
  \E other \in Handlers \ {h} :
    handlers[other].pc \in {"verified", "deleting"} /\ row \in handlers[other].rows

\* get_current_user: the token's user exists and has the token's version.
Accepted(t) == \E u \in users : u.id = t.user /\ u.version = t.version

\* create_access_token
IssueFor(u) == tokens' = tokens \cup {[user |-> u.id, version |-> u.version, issued |-> era]}

\* The client goes away, the process dies, or a statement fails because its row is gone
\* or a constraint does not hold: an open transaction is rolled back.
Abort(h) ==
  /\ handlers[h].pc # "idle"
  /\ Ends(h)
  /\ UNCHANGED <<tables, held, nextCode, births, history>>

-----------------------------------------------------------------------------
(* Registration.                                                           *)

\* Mutant: the address is not looked up.
AnyAddress(h) == TRUE

AddressFree(h) == users = {}

\* create_pending_registration, up to its insert.
RegisterLooks(h) ==
  /\ AddressFree(h)
  /\ nextCode <= MaxCodes
  /\ Begins(h, [Idle EXCEPT !.pc = "register", !.code = nextCode, !.asked = births])
  /\ nextCode' = nextCode + 1
  /\ UNCHANGED <<tables, held, births, history>>

\* Mutant: the mail goes out before the row is committed.
MailsFirst(h) ==
  /\ handlers[h].pc = "register"
  /\ mailed' = mailed \cup {handlers[h].code}
  /\ Continues(h, "register")
  /\ UNCHANGED <<tables, tokens, resetToken, nextCode, births, history>>

RegisterCommits(h) ==
  /\ handlers[h].pc = "register"
  /\ registrations' =
       registrations \cup {[at |-> handlers[h].code, code |-> handlers[h].code,
                            used |-> FALSE, asked |-> handlers[h].asked]}
  /\ stored' = stored \cup {handlers[h].code}
  /\ Continues(h, "mail")
  /\ UNCHANGED <<users, resetCodes, held, nextCode, births, era, overlapped, left, taken>>

\* resend_registration_otp
ResendLooks(h) ==
  /\ nextCode <= MaxCodes
  /\ \E row \in Newest(registrations) :
       Begins(h, [Idle EXCEPT !.pc = "resend", !.rows = {row.at}, !.code = nextCode])
  /\ nextCode' = nextCode + 1
  /\ UNCHANGED <<tables, held, births, history>>

\* The row's code is replaced, even if the row was used in the meantime.
ResendCommits(h) ==
  /\ handlers[h].pc = "resend"
  /\ \E row \in registrations :
       /\ row.at \in handlers[h].rows
       /\ ~LockedFor(h, row.at)
       /\ registrations' =
            (registrations \ {row}) \cup {[row EXCEPT !.code = handlers[h].code]}
  /\ stored' = stored \cup {handlers[h].code}
  /\ Continues(h, "mail")
  /\ UNCHANGED <<users, resetCodes, held, nextCode, births, era, overlapped, left, taken>>

\* Sending fails without the request failing.
Mail(h) ==
  /\ handlers[h].pc = "mail"
  /\ mailed' \in {mailed, mailed \cup {handlers[h].code}}
  /\ Ends(h)
  /\ UNCHANGED <<tables, tokens, resetToken, nextCode, births, history>>

-----------------------------------------------------------------------------
(* Verification of a registration: verify_otp_and_create_user.             *)

\* The code entered is the newest row's.
VerifyLooks(h) ==
  /\ \E row \in Newest(registrations) :
       /\ row.code \in mailed
       /\ Begins(h, [Idle EXCEPT !.pc = "verify", !.rows = {row.at}])
  /\ UNCHANGED <<tables, held, nextCode, births, history>>

\* Mutant: the row is marked without looking whether it is still there.
AnyRow(h) == TRUE

RowThere(h) == handlers[h].rows \subseteq {row.at : row \in registrations}

\* The query for the user flushes is_used first, so that the row is locked from here on.
VerifyFlushes(h) ==
  /\ handlers[h].pc = "verify"
  /\ RowThere(h)
  /\ \A row \in handlers[h].rows : ~LockedFor(h, row)
  /\ handlers' = [handlers EXCEPT
                    ![h].pc = "verified",
                    ![h].user = IF users = {} THEN NoUser ELSE (CHOOSE u \in users : TRUE).id,
                    ![h].version =
                      IF users = {} THEN 0 ELSE (CHOOSE u \in users : TRUE).version]
  /\ UNCHANGED <<tables, held, nextCode, births, history>>

MarkUsed(h) ==
  registrations' = {[row EXCEPT !.used = @ \/ row.at \in handlers[h].rows] : row \in registrations}

Verified(h) == CHOOSE row \in handlers[h].rows : TRUE

\* Another account: its id is new, its tokens start from version 0.
Create(id, from) ==
  /\ births < MaxBirths /\ era < MaxEras
  /\ births' = births + 1
  /\ era' = era + 1
  /\ users' = users \cup {[id |-> id, version |-> 0, from |-> from, birth |-> births + 1,
                           since |-> era + 1]}

\* Mutant: no unique constraint on the address.
NoConstraint == TRUE

\* The unique constraints on the address, the id and google_id.
Unique == users = {}

VerifyCreates(h) ==
  /\ handlers[h].pc = "verified" /\ handlers[h].user = NoUser
  /\ Unique
  /\ Create(births + 1, Verified(h))
  /\ MarkUsed(h)
  /\ handlers' = [handlers EXCEPT ![h].pc = "sign", ![h].user = births + 1, ![h].rows = {}]
  /\ UNCHANGED <<resetCodes, held, nextCode, overlapped, left, stored, taken>>

\* Mutant: the whole row is written back, as it was loaded.
Overwritten(h, u) == [u EXCEPT !.from = Verified(h), !.version = handlers[h].version]

\* Name and password of the registration; the version of the tokens stays.
Reverified(h, u) == [u EXCEPT !.from = Verified(h)]

VerifyUpdates(h) ==
  /\ handlers[h].pc = "verified"
  /\ \E u \in users :
       /\ u.id = handlers[h].user
       /\ users' = (users \ {u}) \cup {Reverified(h, u)}
  /\ MarkUsed(h)
  /\ handlers' = [handlers EXCEPT ![h].pc = "sign", ![h].rows = {}]
  /\ UNCHANGED <<resetCodes, held, nextCode, births, history>>

\* session.refresh and create_access_token: the version is read after the commit.
Sign(h) ==
  /\ handlers[h].pc = "sign"
  /\ \E u \in users : u.id = handlers[h].user /\ IssueFor(u)
  /\ Ends(h)
  /\ UNCHANGED <<tables, mailed, resetToken, nextCode, births, history>>

-----------------------------------------------------------------------------
(* Signing in.                                                             *)

\* authenticate_email_user: one query.
LogIn ==
  /\ \E u \in users : IssueFor(u)
  /\ UNCHANGED <<tables, mailed, resetToken, handlers, nextCode, births, history>>

\* authenticate_or_create_google_user: an account of the address made by mail is refused.
GoogleLooks(h) ==
  /\ \A u \in users : u.id = GoogleUser
  /\ Begins(h, [Idle EXCEPT !.pc = "google",
                            !.user = IF users = {} THEN NoUser ELSE GoogleUser])
  /\ UNCHANGED <<tables, held, nextCode, births, history>>

\* Profile and picture are not modelled, so that an existing account stays as it is.
GoogleCommits(h) ==
  /\ handlers[h].pc = "google"
  /\ \/ /\ handlers[h].user = NoUser
        /\ Unique
        /\ Create(GoogleUser, 0)
     \/ /\ handlers[h].user = GoogleUser
        /\ UserExists(GoogleUser)
        /\ UNCHANGED <<users, births, era>>
  /\ handlers' = [handlers EXCEPT ![h].pc = "sign", ![h].user = GoogleUser]
  /\ UNCHANGED <<registrations, resetCodes, held, nextCode, overlapped, left, stored, taken>>

-----------------------------------------------------------------------------
(* Resetting the password.                                                 *)

\* request_password_reset, up to its insert.
ForgotLooks(h) ==
  /\ users # {}
  /\ nextCode <= MaxCodes
  /\ Begins(h, [Idle EXCEPT !.pc = "forgot", !.code = nextCode])
  /\ nextCode' = nextCode + 1
  /\ UNCHANGED <<tables, held, births, history>>

Deleting == {h \in Handlers : handlers[h].pc = "deleting"}

ForgotCommits(h) ==
  /\ handlers[h].pc = "forgot"
  /\ resetCodes' =
       resetCodes \cup {[at |-> handlers[h].code, used |-> FALSE,
                         late |-> users = {} \/ Deleting # {}]}
  /\ stored' = stored \cup {handlers[h].code}
  /\ Continues(h, "mail")
  /\ UNCHANGED <<users, registrations, held, nextCode, births, era, overlapped, left, taken>>

\* verify_reset_code
ResetCodeLooks(h) ==
  /\ \E row \in Newest(resetCodes) :
       /\ row.at \in mailed
       /\ Begins(h, [Idle EXCEPT !.pc = "resetCode", !.rows = {row.at}])
  /\ UNCHANGED <<tables, held, nextCode, births, history>>

ResetCodeCommits(h) ==
  /\ handlers[h].pc = "resetCode"
  /\ \E row \in resetCodes :
       /\ row.at \in handlers[h].rows
       /\ ~LockedFor(h, row.at)
       /\ resetCodes' = (resetCodes \ {row}) \cup {[row EXCEPT !.used = TRUE]}
  /\ resetToken' = TRUE
  /\ Ends(h)
  /\ UNCHANGED <<users, registrations, mailed, tokens, nextCode, births, history>>

\* The token names the address, may be used again, and expires.
ResetTokenExpires ==
  /\ resetToken
  /\ resetToken' = FALSE
  /\ UNCHANGED <<tables, mailed, tokens, handlers, nextCode, births, history>>

\* reset_password, up to its update.
ResetLoads(h) ==
  /\ resetToken
  /\ \E u \in users : Begins(h, [Idle EXCEPT !.pc = "reset", !.user = u.id,
                                             !.version = u.version])
  /\ UNCHANGED <<tables, held, nextCode, births, history>>

\* Computed from the row as loaded.
NextVersion(h) == handlers[h].version + 1

ResetCommits(h) ==
  /\ handlers[h].pc = "reset"
  /\ era < MaxEras
  /\ \E u \in users :
       /\ u.id = handlers[h].user
       /\ users' = (users \ {u}) \cup
                   {[u EXCEPT !.version = NextVersion(h), !.since = era + 1]}
       /\ overlapped' = (overlapped \/ u.version # handlers[h].version)
  /\ era' = era + 1
  /\ Ends(h)
  /\ UNCHANGED <<registrations, resetCodes, held, nextCode, births, left, stored, taken>>

-----------------------------------------------------------------------------
(* Deleting the account: delete_account.                                   *)

DeleteLooks(h) ==
  /\ \E t \in tokens :
       /\ Accepted(t)
       /\ Begins(h, [Idle EXCEPT !.pc = "delete", !.user = t.user])
  /\ UNCHANGED <<tables, held, nextCode, births, history>>

\* Mutant: only the codes of registrations are deleted.
RegistrationRows == {row.at : row \in registrations}

CodeRows == {row.at : row \in registrations \cup resetCodes}

\* The code rows are deleted, and stay locked and visible to others until the commit.
DeleteCodes(h) ==
  /\ handlers[h].pc = "delete"
  /\ \A row \in CodeRows : ~LockedFor(h, row)
  /\ handlers' = [handlers EXCEPT ![h].pc = "deleting", ![h].rows = CodeRows]
  /\ UNCHANGED <<tables, held, nextCode, births, history>>

\* The user goes and all is committed; a user already gone is no error.
DeleteCommits(h) ==
  /\ handlers[h].pc = "deleting"
  /\ users' = {u \in users : u.id # handlers[h].user}
  /\ registrations' = {row \in registrations : row.at \notin handlers[h].rows}
  /\ resetCodes' = {row \in resetCodes : row.at \notin handlers[h].rows}
  /\ left' = left \cup {handlers[h].user}
  /\ taken' = taken \cup (handlers[h].rows \cap {row.at : row \in registrations})
  /\ Ends(h)
  /\ UNCHANGED <<held, nextCode, births, era, overlapped, stored>>

-----------------------------------------------------------------------------

Register(h) == RegisterLooks(h) \/ RegisterCommits(h)
ResendOtp(h) == ResendLooks(h) \/ ResendCommits(h)
VerifyOtp(h) == VerifyLooks(h) \/ VerifyFlushes(h) \/ VerifyCreates(h) \/ VerifyUpdates(h)
GoogleAuth(h) == GoogleLooks(h) \/ GoogleCommits(h)
ForgotPassword(h) == ForgotLooks(h) \/ ForgotCommits(h)
VerifyResetCode(h) == ResetCodeLooks(h) \/ ResetCodeCommits(h)
ResetPassword(h) == ResetLoads(h) \/ ResetCommits(h)
DeleteUser(h) == DeleteLooks(h) \/ DeleteCodes(h) \/ DeleteCommits(h)

\* A request of any endpoint; those that mail a code or answer with a token end so.
Handler(h) ==
  \/ Register(h) \/ ResendOtp(h) \/ Mail(h)
  \/ VerifyOtp(h) \/ GoogleAuth(h) \/ Sign(h)
  \/ ForgotPassword(h) \/ VerifyResetCode(h) \/ ResetPassword(h)
  \/ DeleteUser(h)
  \/ Abort(h)

Next == LogIn \/ ResetTokenExpires \/ \E h \in Handlers : Handler(h)

Spec == Init /\ [][Next]_vars

-----------------------------------------------------------------------------
(* Properties.                                                             *)

\* Types, and at most one account for the address, whoever registers, verifies and
\* signs in with Google at the same time (verify_otp_and_create_user,
\* authenticate_or_create_google_user).
TypeOK ==
  /\ users \in SUBSET User /\ \A u, other \in users : u = other
  /\ registrations \in SUBSET Registration
  /\ resetCodes \in SUBSET ResetCode
  /\ mailed \in SUBSET Nat /\ tokens \in SUBSET Token /\ resetToken \in BOOLEAN
  /\ handlers \in [Handlers -> Working \cup {Idle}]
  /\ nextCode \in Nat \ {0} /\ births \in Nat
  /\ era \in Nat /\ overlapped \in BOOLEAN /\ left \in SUBSET Nat
  /\ stored \in SUBSET Nat /\ taken \in SUBSET Nat

\* A session token that is accepted was issued since the last password reset of its
\* account, and to this account and not to an earlier one of the address (reset_password,
\* get_current_user).  There are two exceptions: resets that overlapped, whose
\* token_version is computed from a copy, and a Google account deleted and made again,
\* which has the id and the versions of the earlier one.
TokensFollowResets ==
  \A t \in tokens, u \in users :
    t.user = u.id /\ t.version = u.version =>
      t.issued >= u.since \/ overlapped \/ (u.id = GoogleUser /\ u.id \in left)

\* A registration that was removed with an account is not verified any more, even by a
\* verification that has loaded it before (delete_account, verify_otp_and_create_user).
TakenCodesStayDead ==
  [][\A u \in users' : u.from \in taken => \E old \in users : old.from = u.from]_vars

\* Every registration that can be verified over an account was asked for before the
\* account came about: nothing registers an address that has an account, also not while
\* it is being verified (create_pending_registration).
NoRegistrationOverAccount ==
  \A u \in users, row \in registrations : row.asked < u.birth

\* A code that arrives by mail is or was in the tables (create_pending_registration,
\* resend_registration_otp, request_password_reset).
MailedCodesAreStored == mailed \subseteq stored

\* When there is no account, the reset codes there are were requested before the
\* deletion and inserted during or after it (delete_account, request_password_reset).
AccountLeavesNoCodes == users = {} => \A row \in resetCodes : row.late
=============================================================================
