------------------------ MODULE AuthAccounts_proofs ------------------------
(***************************************************************************)
(* What AuthAccounts promises, for any number of requests at once and any  *)
(* bounds: session tokens follow the password resets, a registration that  *)
(* went with its account stays dead, no registration comes over an         *)
(* account, mailed codes are in the tables, and no reset codes stay.       *)
(***************************************************************************)
EXTENDS AuthAccounts, TLAPS

\* The row's number is given out before it is inserted, once.
CodesInv ==
  /\ \A row \in registrations : row.at < nextCode /\ row.at # 0
  /\ \A h \in Handlers : handlers[h].code < nextCode
  /\ \A h \in Handlers : handlers[h].pc = "register" =>
       /\ handlers[h].code # 0
       /\ handlers[h].code \notin taken
       /\ \A row \in registrations : row.at # handlers[h].code
       /\ \A other \in Handlers :
            other # h /\ handlers[other].pc = "register" =>
              handlers[other].code # handlers[h].code
  /\ \A c \in taken : c < nextCode /\ c # 0

\* Who has asked saw only the accounts before this one.
BirthsInv ==
  /\ \A row \in registrations : row.asked <= births
  /\ \A h \in Handlers : handlers[h].asked <= births
  /\ \A h \in Handlers, u \in users :
       handlers[h].pc = "register" => handlers[h].asked < u.birth
  /\ NoRegistrationOverAccount

\* The versions of tokens and users only grow, as long as resets do not overlap.
TokensInv ==
  /\ \A t \in tokens :
       /\ t.user <= births /\ t.issued <= era
       /\ t.user \in left \/ UserExists(t.user)
  /\ \A u \in users : u.id <= births /\ u.since <= era
  /\ \A t \in tokens, u \in users :
       t.user = u.id /\ ~overlapped /\ ~(u.id = GoogleUser /\ u.id \in left) =>
         /\ t.version <= u.version
         /\ t.issued < u.since => t.version < u.version

\* Verifications and deletions lock rows that are there, and never the same.
LocksInv ==
  /\ \A row \in registrations : row.at \notin taken
  /\ \A h \in Handlers : handlers[h].pc = "verified" =>
       /\ handlers[h].rows \cap taken = {}
       /\ \E row \in registrations : handlers[h].rows = {row.at}
       /\ \A other \in Handlers :
            handlers[other].pc = "deleting" => handlers[h].rows \cap handlers[other].rows = {}
  /\ \A h \in Handlers : handlers[h].pc = "verify" =>
       handlers[h].rows # {} /\ \A a, b \in handlers[h].rows : a = b

\* A deletion has all reset codes but those inserted after it, and somebody to delete.
LeftoverInv ==
  /\ \A h \in Handlers :
       handlers[h].pc \in {"delete", "deleting"} => handlers[h].user \in Nat
  /\ \A h \in Handlers : handlers[h].pc = "deleting" =>
       \A row \in resetCodes : row.at \in handlers[h].rows \/ row.late
  /\ AccountLeavesNoCodes

MailInv ==
  /\ \A h \in Handlers : handlers[h].pc = "mail" => handlers[h].code \in stored
  /\ MailedCodesAreStored

IInv == TypeOK /\ CodesInv /\ BirthsInv /\ TokensInv /\ LocksInv /\ LeftoverInv /\ MailInv

-----------------------------------------------------------------------------
(* Lemmas about the handlers.                                              *)

\* The parts of the type invariant: the handlers, and the rest.
HandlersOK == handlers \in [Handlers -> Working \cup {Idle}]

RowsOK ==
  /\ users \in SUBSET User /\ \A u, other \in users : u = other
  /\ registrations \in SUBSET Registration /\ resetCodes \in SUBSET ResetCode
  /\ mailed \in SUBSET Nat /\ tokens \in SUBSET Token /\ resetToken \in BOOLEAN
  /\ nextCode \in Nat \ {0} /\ births \in Nat
  /\ era \in Nat /\ overlapped \in BOOLEAN /\ left \in SUBSET Nat
  /\ stored \in SUBSET Nat /\ taken \in SUBSET Nat

USE DEF tables, held, history, NoUser, GoogleUser, Begins, Continues, Ends, Idle

\* A handler that is at work has a well-typed record of it.
LEMMA Busy ==
  ASSUME HandlersOK, NEW h \in Handlers, handlers[h].pc # "idle"
  PROVE  /\ handlers[h] \in Working
         /\ handlers[h].rows \in SUBSET Nat /\ handlers[h].code \in Nat
         /\ handlers[h].user \in Nat \cup {NoUser} /\ handlers[h].version \in Nat
         /\ handlers[h].asked \in Nat
BY DEF HandlersOK, Working

\* What a verification keeps when it has flushed.
LEMMA Flushed ==
  ASSUME HandlersOK, NEW h \in Handlers, VerifyFlushes(h)
  PROVE  /\ handlers[h].pc = "verify" /\ handlers'[h].pc = "verified"
         /\ handlers'[h].rows = handlers[h].rows /\ handlers'[h].code = handlers[h].code
         /\ handlers'[h].asked = handlers[h].asked
         /\ \A other \in Handlers \ {h} : handlers'[other] = handlers[other]
         /\ UNCHANGED <<users, registrations, resetCodes, mailed, tokens, nextCode, births,
                        era, overlapped, left, stored, taken>>
<1>1. PICK user, version :
        handlers' = [handlers EXCEPT ![h].pc = "verified", ![h].user = user,
                                     ![h].version = version]
  BY DEF VerifyFlushes
<1>2. handlers[h].pc = "verify" /\ handlers[h] \in Working BY Busy DEF VerifyFlushes
<1>3. handlers'[h] = [handlers[h] EXCEPT !.pc = "verified", !.user = user, !.version = version]
  BY <1>1 DEF HandlersOK
<1>4. \A other \in Handlers \ {h} : handlers'[other] = handlers[other] BY <1>1 DEF HandlersOK
<1>5. /\ handlers'[h].pc = "verified" /\ handlers'[h].rows = handlers[h].rows
      /\ handlers'[h].code = handlers[h].code /\ handlers'[h].asked = handlers[h].asked
  BY <1>2, <1>3 DEF Working
<1> QED BY <1>2, <1>4, <1>5 DEF VerifyFlushes

\* Taking a request, going on and ending keep the records of the handlers well-typed.
LEMMA BeginsType ==
  ASSUME HandlersOK, NEW h \in Handlers, NEW work \in Working, Begins(h, work)
  PROVE  HandlersOK'
BY DEF HandlersOK

LEMMA ContinuesType ==
  ASSUME HandlersOK, NEW h \in Handlers, NEW pc \in Steps, handlers[h].pc # "idle",
         Continues(h, pc)
  PROVE  HandlersOK'
<1>1. handlers[h] \in Working BY Busy
<1>2. [handlers[h] EXCEPT !.pc = pc] \in Working BY <1>1 DEF Working
<1> QED BY <1>2 DEF HandlersOK

LEMMA EndsType ==
  ASSUME HandlersOK, NEW h \in Handlers, Ends(h)
  PROVE  HandlersOK'
BY DEF HandlersOK

\* A verification that has flushed has the number of its row.
LEMMA Locked ==
  ASSUME RowsOK, LocksInv, NEW h \in Handlers, handlers[h].pc = "verified"
  PROVE  Verified(h) \in Nat
<1>1. PICK row \in registrations : handlers[h].rows = {row.at} BY DEF LocksInv
<1>2. row.at \in Nat BY DEF RowsOK, Registration
<1> QED BY <1>1, <1>2 DEF Verified

\* It is the number of a row that has not gone with an account.
LEMMA TakenFree ==
  ASSUME LocksInv, NEW h \in Handlers, handlers[h].pc = "verified"
  PROVE  Verified(h) \notin taken
<1>1. PICK row \in registrations : handlers[h].rows = {row.at} BY DEF LocksInv
<1>2. handlers[h].rows \cap taken = {} BY DEF LocksInv
<1> QED BY <1>1, <1>2 DEF Verified

-----------------------------------------------------------------------------
(* Every part of the invariant is kept by every action.                    *)

\* A code is mailed by a handler that has stored it.
LEMMA MailStep ==
  ASSUME IInv, [Next]_vars
  PROVE  MailInv'
<1>1. HandlersOK /\ MailInv
  BY DEF IInv, TypeOK, HandlersOK
<1> USE <1>1 DEF HandlersOK, Working, MailInv, MailedCodesAreStored
<1>2. CASE LogIn BY <1>2 DEF LogIn, IssueFor
<1>3. CASE ResetTokenExpires BY <1>3 DEF ResetTokenExpires
<1>4. ASSUME NEW h \in Handlers, Handler(h) PROVE MailInv'
  <2>1. CASE RegisterLooks(h) BY <2>1 DEF RegisterLooks, AddressFree
  <2>2. CASE RegisterCommits(h) BY <2>2 DEF RegisterCommits
  <2>3. CASE ResendLooks(h) BY <2>3 DEF ResendLooks
  <2>4. CASE ResendCommits(h) BY <2>4 DEF ResendCommits, LockedFor
  <2>5. CASE Mail(h) BY <2>5 DEF Mail
  <2>6. CASE VerifyLooks(h) BY <2>6 DEF VerifyLooks
  <2>7. CASE VerifyFlushes(h) BY <2>7, Flushed
  <2>8. CASE VerifyCreates(h) BY <2>8 DEF VerifyCreates, Create, MarkUsed, Unique
  <2>9. CASE VerifyUpdates(h) BY <2>9 DEF VerifyUpdates, MarkUsed, Reverified
  <2>10. CASE GoogleLooks(h) BY <2>10 DEF GoogleLooks
  <2>11. CASE GoogleCommits(h) BY <2>11 DEF GoogleCommits, Create, Unique
  <2>12. CASE Sign(h) BY <2>12 DEF Sign, IssueFor
  <2>13. CASE ForgotLooks(h) BY <2>13 DEF ForgotLooks
  <2>14. CASE ForgotCommits(h) BY <2>14 DEF ForgotCommits, Deleting
  <2>15. CASE ResetCodeLooks(h) BY <2>15 DEF ResetCodeLooks
  <2>16. CASE ResetCodeCommits(h) BY <2>16 DEF ResetCodeCommits
  <2>17. CASE ResetLoads(h) BY <2>17 DEF ResetLoads
  <2>18. CASE ResetCommits(h) BY <2>18 DEF ResetCommits, NextVersion
  <2>19. CASE DeleteLooks(h) BY <2>19 DEF DeleteLooks, Accepted
  <2>20. CASE DeleteCodes(h) BY <2>20 DEF DeleteCodes, CodeRows, LockedFor
  <2>21. CASE DeleteCommits(h) BY <2>21 DEF DeleteCommits
  <2>22. CASE Abort(h) BY <2>22 DEF Abort
  <2> QED
    BY <1>4, <2>1, <2>2, <2>3, <2>4, <2>5, <2>6, <2>7, <2>8, <2>9, <2>10, <2>11,
       <2>12, <2>13, <2>14, <2>15, <2>16, <2>17, <2>18, <2>19, <2>20, <2>21, <2>22
     DEF Handler, Register, ResendOtp, VerifyOtp, GoogleAuth, ForgotPassword,
         VerifyResetCode, ResetPassword, DeleteUser
<1>5. CASE UNCHANGED vars BY <1>5 DEF vars
<1> QED BY <1>2, <1>3, <1>4, <1>5 DEF Next

\* A deletion has the reset codes there are, and later ones know of it.
LEMMA LeftoverStep ==
  ASSUME IInv, [Next]_vars
  PROVE  LeftoverInv'
<1>1. HandlersOK /\ LeftoverInv /\ resetCodes \in SUBSET ResetCode
      /\ tokens \in SUBSET Token
  BY DEF IInv, TypeOK, HandlersOK
<1> USE <1>1 DEF HandlersOK, Working, LeftoverInv, AccountLeavesNoCodes, ResetCode, Token
<1>2. CASE LogIn BY <1>2 DEF LogIn, IssueFor
<1>3. CASE ResetTokenExpires BY <1>3 DEF ResetTokenExpires
<1>4. ASSUME NEW h \in Handlers, Handler(h) PROVE LeftoverInv'
  <2>1. CASE RegisterLooks(h) BY <2>1 DEF RegisterLooks, AddressFree
  <2>2. CASE RegisterCommits(h) BY <2>2 DEF RegisterCommits
  <2>3. CASE ResendLooks(h) BY <2>3 DEF ResendLooks
  <2>4. CASE ResendCommits(h) BY <2>4 DEF ResendCommits, LockedFor
  <2>5. CASE Mail(h) BY <2>5 DEF Mail
  <2>6. CASE VerifyLooks(h) BY <2>6 DEF VerifyLooks
  <2>7. CASE VerifyFlushes(h) BY <2>7, Flushed
  <2>8. CASE VerifyCreates(h) BY <2>8 DEF VerifyCreates, Create, MarkUsed, Unique
  <2>9. CASE VerifyUpdates(h)
    <3>1. users # {} /\ users' # {} /\ UNCHANGED resetCodes BY <2>9 DEF VerifyUpdates
    <3>2. \A other \in Handlers : handlers'[other].pc \in {"delete", "deleting"} =>
            handlers'[other] = handlers[other]
      BY <2>9 DEF VerifyUpdates
    <3> QED BY <3>1, <3>2
  <2>10. CASE GoogleLooks(h) BY <2>10 DEF GoogleLooks
  <2>11. CASE GoogleCommits(h) BY <2>11 DEF GoogleCommits, Create, Unique
  <2>12. CASE Sign(h) BY <2>12 DEF Sign, IssueFor
  <2>13. CASE ForgotLooks(h) BY <2>13 DEF ForgotLooks
  <2>14. CASE ForgotCommits(h)
    <3>1. \A other \in Handlers : handlers'[other].pc \in {"delete", "deleting"} =>
            handlers'[other] = handlers[other]
      BY <2>14 DEF ForgotCommits
    <3>2. \A row \in resetCodes' : row \in resetCodes \/ row.late = (users = {} \/ Deleting # {})
      BY <2>14 DEF ForgotCommits
    <3> QED BY <2>14, <3>1, <3>2 DEF Deleting, ForgotCommits
  <2>15. CASE ResetCodeLooks(h) BY <2>15 DEF ResetCodeLooks
  <2>16. CASE ResetCodeCommits(h) BY <2>16 DEF ResetCodeCommits
  <2>17. CASE ResetLoads(h) BY <2>17 DEF ResetLoads
  <2>18. CASE ResetCommits(h) BY <2>18 DEF ResetCommits, NextVersion
  <2>19. CASE DeleteLooks(h) BY <2>19 DEF DeleteLooks, Accepted
  <2>20. CASE DeleteCodes(h) BY <2>20 DEF DeleteCodes, CodeRows, LockedFor
  <2>21. CASE DeleteCommits(h) BY <2>21 DEF DeleteCommits
  <2>22. CASE Abort(h) BY <2>22 DEF Abort
  <2> QED
    BY <1>4, <2>1, <2>2, <2>3, <2>4, <2>5, <2>6, <2>7, <2>8, <2>9, <2>10, <2>11,
       <2>12, <2>13, <2>14, <2>15, <2>16, <2>17, <2>18, <2>19, <2>20, <2>21, <2>22
     DEF Handler, Register, ResendOtp, VerifyOtp, GoogleAuth, ForgotPassword,
         VerifyResetCode, ResetPassword, DeleteUser
<1>5. CASE UNCHANGED vars BY <1>5 DEF vars
<1> QED BY <1>2, <1>3, <1>4, <1>5 DEF Next

\* A code's number is given out once.
LEMMA CodesStep ==
  ASSUME IInv, [Next]_vars
  PROVE  CodesInv'
<1>1. HandlersOK /\ CodesInv /\ registrations \in SUBSET Registration /\ nextCode \in Nat \ {0}
      /\ taken \in SUBSET Nat
  BY DEF IInv, TypeOK, HandlersOK
<1> USE <1>1 DEF HandlersOK, Working, CodesInv, Registration
<1>2. CASE LogIn BY <1>2 DEF LogIn, IssueFor
<1>3. CASE ResetTokenExpires BY <1>3 DEF ResetTokenExpires
<1>4. ASSUME NEW h \in Handlers, Handler(h) PROVE CodesInv'
  <2>1. CASE RegisterLooks(h) BY <2>1 DEF RegisterLooks, AddressFree
  <2>2. CASE RegisterCommits(h) BY <2>2 DEF RegisterCommits
  <2>3. CASE ResendLooks(h) BY <2>3 DEF ResendLooks
  <2>4. CASE ResendCommits(h) BY <2>4 DEF ResendCommits, LockedFor
  <2>5. CASE Mail(h)
    <3>1. handlers'[h].code = 0 /\ handlers'[h].pc = "idle" BY <2>5 DEF Mail
    <3>2. \A other \in Handlers \ {h} : handlers'[other] = handlers[other] BY <2>5 DEF Mail
    <3>3. UNCHANGED <<registrations, nextCode, taken>> BY <2>5 DEF Mail
    <3> QED BY <3>1, <3>2, <3>3
  <2>6. CASE VerifyLooks(h) BY <2>6 DEF VerifyLooks
  <2>7. CASE VerifyFlushes(h)
    <3>1. UNCHANGED <<registrations, nextCode, taken>> BY <2>7, Flushed
    <3>2. \A other \in Handlers : handlers'[other].code = handlers[other].code
      BY <2>7, Flushed
    <3>3. \A other \in Handlers :
            handlers'[other].pc = "register" => handlers[other].pc = "register"
      BY <2>7, Flushed
    <3> QED BY <3>1, <3>2, <3>3
  <2>8. CASE VerifyCreates(h) BY <2>8 DEF VerifyCreates, Create, MarkUsed, Unique
  <2>9. CASE VerifyUpdates(h) BY <2>9 DEF VerifyUpdates, MarkUsed, Reverified
  <2>10. CASE GoogleLooks(h) BY <2>10 DEF GoogleLooks
  <2>11. CASE GoogleCommits(h) BY <2>11 DEF GoogleCommits, Create, Unique
  <2>12. CASE Sign(h) BY <2>12 DEF Sign, IssueFor
  <2>13. CASE ForgotLooks(h) BY <2>13 DEF ForgotLooks
  <2>14. CASE ForgotCommits(h) BY <2>14 DEF ForgotCommits, Deleting
  <2>15. CASE ResetCodeLooks(h) BY <2>15 DEF ResetCodeLooks
  <2>16. CASE ResetCodeCommits(h) BY <2>16 DEF ResetCodeCommits
  <2>17. CASE ResetLoads(h) BY <2>17 DEF ResetLoads
  <2>18. CASE ResetCommits(h) BY <2>18 DEF ResetCommits, NextVersion
  <2>19. CASE DeleteLooks(h) BY <2>19 DEF DeleteLooks, Accepted
  <2>20. CASE DeleteCodes(h) BY <2>20 DEF DeleteCodes, CodeRows, LockedFor
  <2>21. CASE DeleteCommits(h) BY <2>21 DEF DeleteCommits
  <2>22. CASE Abort(h) BY <2>22 DEF Abort
  <2> QED
    BY <1>4, <2>1, <2>2, <2>3, <2>4, <2>5, <2>6, <2>7, <2>8, <2>9, <2>10, <2>11,
       <2>12, <2>13, <2>14, <2>15, <2>16, <2>17, <2>18, <2>19, <2>20, <2>21, <2>22
     DEF Handler, Register, ResendOtp, VerifyOtp, GoogleAuth, ForgotPassword,
         VerifyResetCode, ResetPassword, DeleteUser
<1>5. CASE UNCHANGED vars BY <1>5 DEF vars
<1> QED BY <1>2, <1>3, <1>4, <1>5 DEF Next

\* A registration is older than an account it was asked for without.
LEMMA BirthsStep ==
  ASSUME IInv, [Next]_vars
  PROVE  BirthsInv'
<1>1. HandlersOK /\ BirthsInv /\ registrations \in SUBSET Registration /\ births \in Nat
      /\ users \in SUBSET User
  BY DEF IInv, TypeOK, HandlersOK
<1> USE <1>1 DEF HandlersOK, Working, BirthsInv, NoRegistrationOverAccount, Registration, User
<1>2. CASE LogIn BY <1>2 DEF LogIn, IssueFor
<1>3. CASE ResetTokenExpires BY <1>3 DEF ResetTokenExpires
<1>4. ASSUME NEW h \in Handlers, Handler(h) PROVE BirthsInv'
  <2>1. CASE RegisterLooks(h) BY <2>1 DEF RegisterLooks, AddressFree
  <2>2. CASE RegisterCommits(h) BY <2>2 DEF RegisterCommits
  <2>3. CASE ResendLooks(h) BY <2>3 DEF ResendLooks
  <2>4. CASE ResendCommits(h) BY <2>4 DEF ResendCommits, LockedFor
  <2>5. CASE Mail(h) BY <2>5 DEF Mail
  <2>6. CASE VerifyLooks(h) BY <2>6 DEF VerifyLooks
  <2>7. CASE VerifyFlushes(h) BY <2>7, Flushed
  <2>8. CASE VerifyCreates(h) BY <2>8 DEF VerifyCreates, Create, MarkUsed, Unique
  <2>9. CASE VerifyUpdates(h) BY <2>9 DEF VerifyUpdates, MarkUsed, Reverified
  <2>10. CASE GoogleLooks(h) BY <2>10 DEF GoogleLooks
  <2>11. CASE GoogleCommits(h) BY <2>11 DEF GoogleCommits, Create, Unique
  <2>12. CASE Sign(h) BY <2>12 DEF Sign, IssueFor
  <2>13. CASE ForgotLooks(h) BY <2>13 DEF ForgotLooks
  <2>14. CASE ForgotCommits(h) BY <2>14 DEF ForgotCommits, Deleting
  <2>15. CASE ResetCodeLooks(h) BY <2>15 DEF ResetCodeLooks
  <2>16. CASE ResetCodeCommits(h) BY <2>16 DEF ResetCodeCommits
  <2>17. CASE ResetLoads(h) BY <2>17 DEF ResetLoads
  <2>18. CASE ResetCommits(h)
    <3>1. \A v \in users' : \E u \in users : v.birth = u.birth BY <2>18 DEF ResetCommits
    <3>2. handlers'[h] = Idle /\ \A other \in Handlers \ {h} : handlers'[other] = handlers[other]
      BY <2>18 DEF ResetCommits
    <3>3. UNCHANGED <<registrations, births>> BY <2>18 DEF ResetCommits
    <3> QED BY <3>1, <3>2, <3>3
  <2>19. CASE DeleteLooks(h) BY <2>19 DEF DeleteLooks, Accepted
  <2>20. CASE DeleteCodes(h) BY <2>20 DEF DeleteCodes, CodeRows, LockedFor
  <2>21. CASE DeleteCommits(h) BY <2>21 DEF DeleteCommits
  <2>22. CASE Abort(h) BY <2>22 DEF Abort
  <2> QED
    BY <1>4, <2>1, <2>2, <2>3, <2>4, <2>5, <2>6, <2>7, <2>8, <2>9, <2>10, <2>11,
       <2>12, <2>13, <2>14, <2>15, <2>16, <2>17, <2>18, <2>19, <2>20, <2>21, <2>22
     DEF Handler, Register, ResendOtp, VerifyOtp, GoogleAuth, ForgotPassword,
         VerifyResetCode, ResetPassword, DeleteUser
<1>5. CASE UNCHANGED vars BY <1>5 DEF vars
<1> QED BY <1>2, <1>3, <1>4, <1>5 DEF Next

\* Versions grow with the resets, and ids are new.
LEMMA TokensStep ==
  ASSUME IInv, [Next]_vars
  PROVE  TokensInv'
<1>1. HandlersOK /\ TokensInv /\ tokens \in SUBSET Token /\ births \in Nat /\ era \in Nat
      /\ users \in SUBSET User /\ \A u, v \in users : u = v
  BY DEF IInv, TypeOK, HandlersOK
<1> USE <1>1 DEF HandlersOK, Working, TokensInv, Token, User, UserExists
<1>2. CASE LogIn BY <1>2 DEF LogIn, IssueFor
<1>3. CASE ResetTokenExpires BY <1>3 DEF ResetTokenExpires
<1>4. ASSUME NEW h \in Handlers, Handler(h) PROVE TokensInv'
  <2>1. CASE RegisterLooks(h) BY <2>1 DEF RegisterLooks, AddressFree
  <2>2. CASE RegisterCommits(h) BY <2>2 DEF RegisterCommits
  <2>3. CASE ResendLooks(h) BY <2>3 DEF ResendLooks
  <2>4. CASE ResendCommits(h) BY <2>4 DEF ResendCommits, LockedFor
  <2>5. CASE Mail(h) BY <2>5 DEF Mail
  <2>6. CASE VerifyLooks(h) BY <2>6 DEF VerifyLooks
  <2>7. CASE VerifyFlushes(h) BY <2>7, Flushed
  <2>8. CASE VerifyCreates(h) BY <2>8 DEF VerifyCreates, Create, MarkUsed, Unique
  <2>9. CASE VerifyUpdates(h)
    <3>1. \A v \in users' : \E u \in users :
            v.id = u.id /\ v.version = u.version /\ v.since = u.since
      BY <2>9 DEF VerifyUpdates, Reverified
    <3>2. \A u \in users : \E v \in users' : v.id = u.id BY <2>9 DEF VerifyUpdates, Reverified
    <3>3. UNCHANGED <<tokens, births, era, overlapped, left>> BY <2>9 DEF VerifyUpdates
    <3> QED BY <3>1, <3>2, <3>3
  <2>10. CASE GoogleLooks(h) BY <2>10 DEF GoogleLooks
  <2>11. CASE GoogleCommits(h) BY <2>11 DEF GoogleCommits, Create, Unique
  <2>12. CASE Sign(h) BY <2>12 DEF Sign, IssueFor
  <2>13. CASE ForgotLooks(h) BY <2>13 DEF ForgotLooks
  <2>14. CASE ForgotCommits(h) BY <2>14 DEF ForgotCommits, Deleting
  <2>15. CASE ResetCodeLooks(h) BY <2>15 DEF ResetCodeLooks
  <2>16. CASE ResetCodeCommits(h) BY <2>16 DEF ResetCodeCommits
  <2>17. CASE ResetLoads(h) BY <2>17 DEF ResetLoads
  <2>18. CASE ResetCommits(h)
    <3>1. PICK u \in users :
            /\ users' = (users \ {u}) \cup
                        {[u EXCEPT !.version = handlers[h].version + 1, !.since = era + 1]}
            /\ overlapped' = (overlapped \/ u.version # handlers[h].version)
      BY <2>18 DEF ResetCommits, NextVersion
    <3>2. \A v \in users' :
            v.id = u.id /\ v.since = era + 1 /\ v.version = handlers[h].version + 1
      BY <3>1
    <3>3. ~overlapped' => ~overlapped /\ u.version = handlers[h].version BY <3>1
    <3>4. [u EXCEPT !.version = handlers[h].version + 1, !.since = era + 1] \in users' BY <3>1
    <3>5. \E v \in users' : v.id = u.id BY <3>2, <3>4
    <3>6. era' = era + 1 /\ UNCHANGED <<tokens, births, left>> BY <2>18 DEF ResetCommits
    <3>7. \A v \in users' : v.id <= births' /\ v.since <= era'
      <4>1. u.id <= births OBVIOUS
      <4> QED BY <3>2, <3>6, <4>1
    <3>8. \A t \in tokens' :
            /\ t.user <= births' /\ t.issued <= era'
            /\ t.user \in left' \/ \E v \in users' : v.id = t.user
      <4>1. \A t \in tokens : t.user \in left \/ t.user = u.id OBVIOUS
      <4> QED BY <3>5, <3>6, <4>1
    <3>9. \A t \in tokens', v \in users' :
            t.user = v.id /\ ~overlapped' /\ ~(v.id = 0 /\ v.id \in left') =>
              /\ t.version <= v.version
              /\ t.issued < v.since => t.version < v.version
      <4>1. SUFFICES ASSUME NEW t \in tokens, NEW v \in users', t.user = u.id, ~overlapped',
                            ~(u.id = 0 /\ u.id \in left)
                     PROVE  t.version < v.version /\ t.version <= v.version
        BY <3>2, <3>6
      <4>2. t.version <= u.version BY <3>3, <4>1
      <4>3. v.version = u.version + 1 BY <3>2, <3>3, <4>1
      <4>4. t.version \in Nat /\ u.version \in Nat OBVIOUS
      <4> QED BY <4>2, <4>3, <4>4
    <3> QED BY <3>7, <3>8, <3>9
  <2>19. CASE DeleteLooks(h) BY <2>19 DEF DeleteLooks, Accepted
  <2>20. CASE DeleteCodes(h) BY <2>20 DEF DeleteCodes, CodeRows, LockedFor
  <2>21. CASE DeleteCommits(h) BY <2>21 DEF DeleteCommits
  <2>22. CASE Abort(h) BY <2>22 DEF Abort
  <2> QED
    BY <1>4, <2>1, <2>2, <2>3, <2>4, <2>5, <2>6, <2>7, <2>8, <2>9, <2>10, <2>11,
       <2>12, <2>13, <2>14, <2>15, <2>16, <2>17, <2>18, <2>19, <2>20, <2>21, <2>22
     DEF Handler, Register, ResendOtp, VerifyOtp, GoogleAuth, ForgotPassword,
         VerifyResetCode, ResetPassword, DeleteUser
<1>5. CASE UNCHANGED vars BY <1>5 DEF vars
<1> QED BY <1>2, <1>3, <1>4, <1>5 DEF Next

\* Verifications and deletions never have the same row.
LEMMA LocksStep ==
  ASSUME IInv, [Next]_vars
  PROVE  LocksInv'
<1>1. HandlersOK /\ LocksInv /\ CodesInv /\ registrations \in SUBSET Registration
  BY DEF IInv, TypeOK, HandlersOK
<1> USE <1>1 DEF HandlersOK, Working, LocksInv, Registration, CodesInv
<1>2. CASE LogIn BY <1>2 DEF LogIn, IssueFor
<1>3. CASE ResetTokenExpires BY <1>3 DEF ResetTokenExpires
<1>4. ASSUME NEW h \in Handlers, Handler(h) PROVE LocksInv'
  <2>1. CASE RegisterLooks(h) BY <2>1 DEF RegisterLooks, AddressFree
  <2>2. CASE RegisterCommits(h) BY <2>2 DEF RegisterCommits
  <2>3. CASE ResendLooks(h) BY <2>3 DEF ResendLooks
  <2>4. CASE ResendCommits(h) BY <2>4 DEF ResendCommits, LockedFor
  <2>5. CASE Mail(h) BY <2>5 DEF Mail
  <2>6. CASE VerifyLooks(h) BY <2>6, SMTT(30) DEF VerifyLooks
  <2>7. CASE VerifyFlushes(h)
    <3>1. handlers[h].rows # {} /\ \A a, b \in handlers[h].rows : a = b BY <2>7, Flushed
    <3>2. handlers[h].rows \subseteq {row.at : row \in registrations}
      BY <2>7 DEF VerifyFlushes, RowThere
    <3>3. PICK row \in registrations : row.at \in handlers[h].rows BY <3>1, <3>2
    <3>4. handlers[h].rows = {row.at} BY <3>1, <3>3
    <3>5. \A other \in Handlers \ {h} :
            handlers[other].pc = "deleting" => handlers[h].rows \cap handlers[other].rows = {}
      BY <2>7, Flushed DEF VerifyFlushes, LockedFor
    <3> QED BY <2>7, <3>4, <3>5, Flushed
  <2>8. CASE VerifyCreates(h) BY <2>8 DEF VerifyCreates, Create, MarkUsed, Unique
  <2>9. CASE VerifyUpdates(h) BY <2>9, SMTT(30) DEF VerifyUpdates, MarkUsed, Reverified
  <2>10. CASE GoogleLooks(h) BY <2>10 DEF GoogleLooks
  <2>11. CASE GoogleCommits(h) BY <2>11 DEF GoogleCommits, Create, Unique
  <2>12. CASE Sign(h) BY <2>12 DEF Sign, IssueFor
  <2>13. CASE ForgotLooks(h) BY <2>13 DEF ForgotLooks
  <2>14. CASE ForgotCommits(h) BY <2>14 DEF ForgotCommits, Deleting
  <2>15. CASE ResetCodeLooks(h) BY <2>15 DEF ResetCodeLooks
  <2>16. CASE ResetCodeCommits(h) BY <2>16 DEF ResetCodeCommits
  <2>17. CASE ResetLoads(h) BY <2>17 DEF ResetLoads
  <2>18. CASE ResetCommits(h) BY <2>18 DEF ResetCommits, NextVersion
  <2>19. CASE DeleteLooks(h) BY <2>19 DEF DeleteLooks, Accepted
  <2>20. CASE DeleteCodes(h) BY <2>20 DEF DeleteCodes, CodeRows, LockedFor
  <2>21. CASE DeleteCommits(h) BY <2>21 DEF DeleteCommits
  <2>22. CASE Abort(h) BY <2>22 DEF Abort
  <2> QED
    BY <1>4, <2>1, <2>2, <2>3, <2>4, <2>5, <2>6, <2>7, <2>8, <2>9, <2>10, <2>11,
       <2>12, <2>13, <2>14, <2>15, <2>16, <2>17, <2>18, <2>19, <2>20, <2>21, <2>22
     DEF Handler, Register, ResendOtp, VerifyOtp, GoogleAuth, ForgotPassword,
         VerifyResetCode, ResetPassword, DeleteUser
<1>5. CASE UNCHANGED vars BY <1>5 DEF vars
<1> QED BY <1>2, <1>3, <1>4, <1>5 DEF Next

\* The records of the handlers stay well-typed.
LEMMA HandlersStep ==
  ASSUME IInv, [Next]_vars
  PROVE  HandlersOK'
<1>1. /\ HandlersOK /\ nextCode \in Nat /\ births \in Nat /\ users \in SUBSET User
      /\ registrations \in SUBSET Registration /\ resetCodes \in SUBSET ResetCode
      /\ tokens \in SUBSET Token
  BY DEF IInv, TypeOK, HandlersOK, LocksInv
<1> USE <1>1
<1>2. CASE LogIn BY <1>2 DEF LogIn, IssueFor, HandlersOK
<1>3. CASE ResetTokenExpires BY <1>3 DEF ResetTokenExpires, HandlersOK
<1>4. ASSUME NEW h \in Handlers, Handler(h) PROVE HandlersOK'
  <2>1. CASE RegisterLooks(h)
    <3>1. [Idle EXCEPT !.pc = "register", !.code = nextCode, !.asked = births] \in Working
      BY DEF Working, Steps
    <3> QED BY <2>1, <3>1, BeginsType DEF RegisterLooks
  <2>2. CASE RegisterCommits(h)
    BY <2>2, ContinuesType DEF RegisterCommits, Steps
  <2>3. CASE ResendLooks(h)
    <3>1. PICK row \in Newest(registrations) :
            Begins(h, [Idle EXCEPT !.pc = "resend", !.rows = {row.at}, !.code = nextCode])
      BY <2>3 DEF ResendLooks
    <3>2. [Idle EXCEPT !.pc = "resend", !.rows = {row.at}, !.code = nextCode] \in Working
      BY DEF Working, Steps, Newest, Registration, ResetCode, User, Token
    <3> QED BY <3>1, <3>2, BeginsType
  <2>4. CASE ResendCommits(h)
    BY <2>4, ContinuesType DEF ResendCommits, Steps
  <2>5. CASE Mail(h)
    BY <2>5, EndsType DEF Mail
  <2>6. CASE VerifyLooks(h)
    <3>1. PICK row \in Newest(registrations) :
            Begins(h, [Idle EXCEPT !.pc = "verify", !.rows = {row.at}])
      BY <2>6 DEF VerifyLooks
    <3>2. [Idle EXCEPT !.pc = "verify", !.rows = {row.at}] \in Working
      BY DEF Working, Steps, Newest, Registration, ResetCode, User, Token
    <3> QED BY <3>1, <3>2, BeginsType
  <2>7. CASE VerifyFlushes(h)
    <3>1. PICK user \in Nat \cup {NoUser}, version \in Nat :
            handlers' = [handlers EXCEPT ![h].pc = "verified", ![h].user = user,
                                         ![h].version = version]
      <4>1. CASE users = {} BY <2>7, <4>1 DEF VerifyFlushes
      <4>2. CASE users # {}
        <5>1. (CHOOSE u \in users : TRUE) \in users BY <4>2
        <5>2. /\ (CHOOSE u \in users : TRUE).id \in Nat
              /\ (CHOOSE u \in users : TRUE).version \in Nat
          BY <5>1 DEF User
        <5> QED BY <2>7, <4>2, <5>2 DEF VerifyFlushes
      <4> QED BY <4>1, <4>2
    <3>2. handlers[h] \in Working BY <2>7, Busy DEF VerifyFlushes
    <3>3. [handlers[h] EXCEPT !.pc = "verified", !.user = user, !.version = version] \in Working
      BY <3>2 DEF Working, Steps
    <3> QED BY <3>1, <3>3 DEF HandlersOK
  <2>8. CASE VerifyCreates(h)
    <3>1. handlers[h] \in Working BY <2>8, Busy DEF VerifyCreates
    <3>2. births + 1 \in Nat OBVIOUS
    <3>3. [handlers[h] EXCEPT !.pc = "sign", !.user = births + 1, !.rows = {}] \in Working
      BY <3>1, <3>2 DEF Working, Steps
    <3> QED BY <2>8, <3>3 DEF VerifyCreates, HandlersOK
  <2>9. CASE VerifyUpdates(h)
    <3>1. handlers[h] \in Working BY <2>9, Busy DEF VerifyUpdates
    <3>2. [handlers[h] EXCEPT !.pc = "sign", !.rows = {}] \in Working
      BY <3>1 DEF Working, Steps
    <3> QED BY <2>9, <3>2 DEF VerifyUpdates, HandlersOK
  <2>10. CASE GoogleLooks(h)
    <3>1. PICK user \in Nat \cup {NoUser} :
            Begins(h, [Idle EXCEPT !.pc = "google", !.user = user])
      BY <2>10 DEF GoogleLooks
    <3>2. [Idle EXCEPT !.pc = "google", !.user = user] \in Working BY DEF Working, Steps
    <3> QED BY <3>1, <3>2, BeginsType
  <2>11. CASE GoogleCommits(h)
    <3>1. handlers[h] \in Working BY <2>11, Busy DEF GoogleCommits
    <3>2. [handlers[h] EXCEPT !.pc = "sign", !.user = GoogleUser] \in Working
      BY <3>1 DEF Working, Steps
    <3> QED BY <2>11, <3>2 DEF GoogleCommits, HandlersOK
  <2>12. CASE Sign(h)
    BY <2>12, EndsType DEF Sign
  <2>13. CASE ForgotLooks(h)
    <3>1. [Idle EXCEPT !.pc = "forgot", !.code = nextCode] \in Working
      BY DEF Working, Steps
    <3> QED BY <2>13, <3>1, BeginsType DEF ForgotLooks
  <2>14. CASE ForgotCommits(h)
    BY <2>14, ContinuesType DEF ForgotCommits, Steps
  <2>15. CASE ResetCodeLooks(h)
    <3>1. PICK row \in Newest(resetCodes) :
            Begins(h, [Idle EXCEPT !.pc = "resetCode", !.rows = {row.at}])
      BY <2>15 DEF ResetCodeLooks
    <3>2. [Idle EXCEPT !.pc = "resetCode", !.rows = {row.at}] \in Working
      BY DEF Working, Steps, Newest, Registration, ResetCode, User, Token
    <3> QED BY <3>1, <3>2, BeginsType
  <2>16. CASE ResetCodeCommits(h)
    BY <2>16, EndsType DEF ResetCodeCommits
  <2>17. CASE ResetLoads(h)
    <3>1. PICK u \in users :
            Begins(h, [Idle EXCEPT !.pc = "reset", !.user = u.id, !.version = u.version])
      BY <2>17 DEF ResetLoads
    <3>2. [Idle EXCEPT !.pc = "reset", !.user = u.id, !.version = u.version] \in Working
      BY DEF Working, Steps, Newest, Registration, ResetCode, User, Token
    <3> QED BY <3>1, <3>2, BeginsType
  <2>18. CASE ResetCommits(h)
    BY <2>18, EndsType DEF ResetCommits
  <2>19. CASE DeleteLooks(h)
    <3>1. PICK t \in tokens :
            Begins(h, [Idle EXCEPT !.pc = "delete", !.user = t.user])
      BY <2>19 DEF DeleteLooks
    <3>2. [Idle EXCEPT !.pc = "delete", !.user = t.user] \in Working
      BY DEF Working, Steps, Newest, Registration, ResetCode, User, Token
    <3> QED BY <3>1, <3>2, BeginsType
  <2>20. CASE DeleteCodes(h)
    <3>1. handlers[h] \in Working BY <2>20, Busy DEF DeleteCodes
    <3>2. CodeRows \in SUBSET Nat BY DEF CodeRows, Registration, ResetCode
    <3>3. [handlers[h] EXCEPT !.pc = "deleting", !.rows = CodeRows] \in Working
      BY <3>1, <3>2 DEF Working, Steps
    <3> QED BY <2>20, <3>3 DEF DeleteCodes, HandlersOK
  <2>21. CASE DeleteCommits(h)
    BY <2>21, EndsType DEF DeleteCommits
  <2>22. CASE Abort(h)
    BY <2>22, EndsType DEF Abort
  <2> QED
    BY <1>4, <2>1, <2>2, <2>3, <2>4, <2>5, <2>6, <2>7, <2>8, <2>9, <2>10, <2>11,
       <2>12, <2>13, <2>14, <2>15, <2>16, <2>17, <2>18, <2>19, <2>20, <2>21, <2>22
     DEF Handler, Register, ResendOtp, VerifyOtp, GoogleAuth, ForgotPassword,
         VerifyResetCode, ResetPassword, DeleteUser
<1>5. CASE UNCHANGED vars BY <1>5 DEF vars, HandlersOK
<1> QED BY <1>2, <1>3, <1>4, <1>5 DEF Next

\* The tables, the codes and the tokens stay well-typed.
LEMMA RowsStep ==
  ASSUME IInv, [Next]_vars
  PROVE  RowsOK'
<1>1. RowsOK /\ HandlersOK /\ LocksInv /\ LeftoverInv
  BY DEF IInv, TypeOK, HandlersOK, RowsOK
<1> USE <1>1 DEF RowsOK
<1>2. CASE LogIn
  <2>1. PICK u \in users : IssueFor(u) BY <1>2 DEF LogIn
  <2>2. tokens' \in SUBSET Token BY <2>1 DEF IssueFor, User, Token
  <2> QED BY <1>2, <2>2 DEF LogIn
<1>3. CASE ResetTokenExpires BY <1>3 DEF ResetTokenExpires
<1>4. ASSUME NEW h \in Handlers, Handler(h) PROVE RowsOK'
  <2>1. CASE RegisterLooks(h) BY <2>1 DEF RegisterLooks
  <2>2. CASE RegisterCommits(h)
    <3>1. handlers[h].code \in Nat /\ handlers[h].asked \in Nat BY <2>2, Busy DEF RegisterCommits
    <3>2. [at |-> handlers[h].code, code |-> handlers[h].code, used |-> FALSE,
           asked |-> handlers[h].asked] \in Registration
      BY <3>1 DEF Registration
    <3>3. registrations' \in SUBSET Registration BY <2>2, <3>2 DEF RegisterCommits
    <3> QED BY <2>2, <3>1, <3>3 DEF RegisterCommits
  <2>3. CASE ResendLooks(h) BY <2>3 DEF ResendLooks
  <2>4. CASE ResendCommits(h)
    <3>1. handlers[h].code \in Nat /\ handlers[h].asked \in Nat BY <2>4, Busy DEF ResendCommits
    <3>2. registrations' \in SUBSET Registration BY <2>4, <3>1 DEF ResendCommits, Registration
    <3> QED BY <2>4, <3>1, <3>2 DEF ResendCommits, RowsOK
  <2>5. CASE Mail(h)
    <3>1. handlers[h].code \in Nat BY <2>5, Busy DEF Mail
    <3> QED BY <2>5, <3>1 DEF Mail, RowsOK
  <2>6. CASE VerifyLooks(h) BY <2>6 DEF VerifyLooks
  <2>7. CASE VerifyFlushes(h) BY <2>7 DEF VerifyFlushes
  <2>8. CASE VerifyCreates(h)
    <3>1. Verified(h) \in Nat BY <2>8, Locked DEF VerifyCreates
    <3>2. users' \in SUBSET User /\ \A u, other \in users' : u = other
      BY <2>8, <3>1 DEF VerifyCreates, Create, Unique, User
    <3>3. registrations' \in SUBSET Registration BY <2>8 DEF VerifyCreates, MarkUsed, Registration
    <3> QED BY <2>8, <3>2, <3>3 DEF VerifyCreates, Create, RowsOK
  <2>9. CASE VerifyUpdates(h)
    <3>1. Verified(h) \in Nat BY <2>9, Locked DEF VerifyUpdates
    <3>2. users' \in SUBSET User /\ \A u, other \in users' : u = other
      BY <2>9, <3>1 DEF VerifyUpdates, Reverified, User
    <3>3. registrations' \in SUBSET Registration BY <2>9 DEF VerifyUpdates, MarkUsed, Registration
    <3> QED BY <2>9, <3>2, <3>3 DEF VerifyUpdates, RowsOK
  <2>10. CASE GoogleLooks(h) BY <2>10 DEF GoogleLooks
  <2>11. CASE GoogleCommits(h)
    <3>1. users' \in SUBSET User /\ \A u, other \in users' : u = other
      BY <2>11 DEF GoogleCommits, Create, Unique, User
    <3> QED BY <2>11, <3>1 DEF GoogleCommits, Create, RowsOK
  <2>12. CASE Sign(h)
    <3>1. PICK u \in users : IssueFor(u) BY <2>12 DEF Sign
    <3>2. tokens' \in SUBSET Token BY <3>1 DEF IssueFor, User, Token
    <3> QED BY <2>12, <3>2 DEF Sign, RowsOK
  <2>13. CASE ForgotLooks(h) BY <2>13 DEF ForgotLooks
  <2>14. CASE ForgotCommits(h)
    <3>1. handlers[h].code \in Nat BY <2>14, Busy DEF ForgotCommits
    <3>2. \A late \in BOOLEAN :
            [at |-> handlers[h].code, used |-> FALSE, late |-> late] \in ResetCode
      BY <3>1 DEF ResetCode
    <3>3. resetCodes' \in SUBSET ResetCode BY <2>14, <3>2 DEF ForgotCommits
    <3> QED BY <2>14, <3>1, <3>3 DEF ForgotCommits
  <2>15. CASE ResetCodeLooks(h) BY <2>15 DEF ResetCodeLooks
  <2>16. CASE ResetCodeCommits(h)
    <3>1. resetCodes' \in SUBSET ResetCode BY <2>16 DEF ResetCodeCommits, ResetCode
    <3> QED BY <2>16, <3>1 DEF ResetCodeCommits, RowsOK
  <2>17. CASE ResetLoads(h) BY <2>17 DEF ResetLoads
  <2>18. CASE ResetCommits(h)
    <3>1. handlers[h].version \in Nat BY <2>18, Busy DEF ResetCommits
    <3>2. PICK u \in users :
            /\ users' = (users \ {u}) \cup
                        {[u EXCEPT !.version = handlers[h].version + 1, !.since = era + 1]}
            /\ overlapped' = (overlapped \/ u.version # handlers[h].version)
      BY <2>18 DEF ResetCommits, NextVersion
    <3>3. [u EXCEPT !.version = handlers[h].version + 1, !.since = era + 1] \in User
      <4>1. u \in User /\ handlers[h].version + 1 \in Nat /\ era + 1 \in Nat BY <3>1
      <4> QED BY <4>1 DEF User
    <3>4. users' \in SUBSET User /\ \A v, other \in users' : v = other BY <3>2, <3>3
    <3> QED BY <2>18, <3>2, <3>4 DEF ResetCommits, RowsOK
  <2>19. CASE DeleteLooks(h) BY <2>19 DEF DeleteLooks
  <2>20. CASE DeleteCodes(h) BY <2>20 DEF DeleteCodes
  <2>21. CASE DeleteCommits(h)
    <3>1. handlers[h].user \in Nat BY <2>21 DEF DeleteCommits, LeftoverInv
    <3> QED BY <2>21, <3>1 DEF DeleteCommits, RowsOK, Registration
  <2>22. CASE Abort(h) BY <2>22 DEF Abort
  <2> QED
    BY <1>4, <2>1, <2>2, <2>3, <2>4, <2>5, <2>6, <2>7, <2>8, <2>9, <2>10, <2>11,
       <2>12, <2>13, <2>14, <2>15, <2>16, <2>17, <2>18, <2>19, <2>20, <2>21, <2>22
     DEF Handler, Register, ResendOtp, VerifyOtp, GoogleAuth, ForgotPassword,
         VerifyResetCode, ResetPassword, DeleteUser
<1>5. CASE UNCHANGED vars BY <1>5 DEF vars
<1> QED BY <1>2, <1>3, <1>4, <1>5 DEF Next

-----------------------------------------------------------------------------
(* The invariant, and what follows from it.                                *)

\* The first state has no accounts, no codes and nobody at work.
LEMMA InitIInv == Init => IInv
<1> SUFFICES ASSUME Init PROVE IInv OBVIOUS
<1> USE DEF Init
<1>1. HandlersOK BY DEF HandlersOK
<1>2. RowsOK
  <2>1. users \in SUBSET User /\ \A u, other \in users : u = other OBVIOUS
  <2>2. registrations \in SUBSET Registration /\ resetCodes \in SUBSET ResetCode OBVIOUS
  <2>3. mailed \in SUBSET Nat /\ tokens \in SUBSET Token /\ resetToken \in BOOLEAN OBVIOUS
  <2>4. nextCode \in Nat \ {0} /\ births \in Nat /\ era \in Nat OBVIOUS
  <2>5. overlapped \in BOOLEAN /\ left \in SUBSET Nat OBVIOUS
  <2>6. stored \in SUBSET Nat /\ taken \in SUBSET Nat OBVIOUS
  <2> QED BY <2>1, <2>2, <2>3, <2>4, <2>5, <2>6 DEF RowsOK
<1>3. CodesInv /\ BirthsInv /\ TokensInv
  BY DEF CodesInv, BirthsInv, NoRegistrationOverAccount, TokensInv
<1>4. LocksInv /\ LeftoverInv /\ MailInv
  BY DEF LocksInv, LeftoverInv, AccountLeavesNoCodes, MailInv, MailedCodesAreStored
<1> QED BY <1>1, <1>2, <1>3, <1>4 DEF IInv, TypeOK, HandlersOK, RowsOK

LEMMA NextIInv == IInv /\ [Next]_vars => IInv'
<1> SUFFICES ASSUME IInv, [Next]_vars PROVE IInv' OBVIOUS
<1>1. HandlersOK' BY HandlersStep
<1>2. RowsOK' BY RowsStep
<1>3. TypeOK' BY <1>1, <1>2 DEF TypeOK, HandlersOK, RowsOK
<1>4. CodesInv' /\ BirthsInv' /\ TokensInv' BY CodesStep, BirthsStep, TokensStep
<1>5. LocksInv' /\ LeftoverInv' /\ MailInv' BY LocksStep, LeftoverStep, MailStep
<1> QED BY <1>3, <1>4, <1>5 DEF IInv

\* The invariant holds in every state the handlers can reach.
THEOREM Invariance == Spec => []IInv
<1>1. Init => IInv BY InitIInv
<1>2. IInv /\ [Next]_vars => IInv' BY NextIInv
<1> QED BY <1>1, <1>2, PTL DEF Spec

\* The types hold, and the address has at most one account, however many registrations,
\* verifications and Google sign-ins run at once.
THEOREM TypeCorrect == Spec => []TypeOK
<1>1. IInv => TypeOK BY DEF IInv
<1> QED BY <1>1, Invariance, PTL

\* A session token that is accepted was issued since the last password reset, but for
\* resets that overlapped and Google accounts made again.
THEOREM TokensFollow == Spec => []TokensFollowResets
<1>1. ASSUME IInv PROVE TokensFollowResets
  <2>1. SUFFICES ASSUME NEW t \in tokens, NEW u \in users, t.user = u.id,
                        t.version = u.version, ~overlapped,
                        ~(u.id = GoogleUser /\ u.id \in left), t.issued < u.since
                 PROVE  FALSE
    <3>1. \A t \in tokens, u \in users : t.issued \in Nat /\ u.since \in Nat
      BY <1>1 DEF IInv, TypeOK, Token, User
    <3> QED BY <3>1 DEF TokensFollowResets
  <2>2. t.version < u.version BY <1>1, <2>1 DEF IInv, TokensInv
  <2>3. t.version \in Nat BY <1>1 DEF IInv, TypeOK, Token
  <2> QED BY <2>1, <2>2, <2>3
<1> QED BY <1>1, Invariance, PTL

\* Nothing registers an address that has an account, also not while it is verified.
THEOREM RegistrationsBehind == Spec => []NoRegistrationOverAccount
<1>1. IInv => NoRegistrationOverAccount BY DEF IInv, BirthsInv
<1> QED BY <1>1, Invariance, PTL

\* A code that arrives is or was in the tables.
THEOREM MailStored == Spec => []MailedCodesAreStored
<1>1. IInv => MailedCodesAreStored BY DEF IInv, MailInv
<1> QED BY <1>1, Invariance, PTL

\* Without an account there are only the reset codes inserted since its deletion began.
THEOREM NoCodesLeft == Spec => []AccountLeavesNoCodes
<1>1. IInv => AccountLeavesNoCodes BY DEF IInv, LeftoverInv
<1> QED BY <1>1, Invariance, PTL

\* Only a verification gives an account another registration, and its row is not taken.
LEMMA TakenStep ==
  ASSUME IInv, [Next]_vars
  PROVE  \A u \in users' : u.from \in taken => \E old \in users : old.from = u.from
<1> DEFINE Dead == \A u \in users' : u.from \in taken => \E old \in users : old.from = u.from
<1>1. HandlersOK /\ RowsOK /\ LocksInv /\ \A c \in taken : c \in Nat
  BY DEF IInv, TypeOK, HandlersOK, RowsOK
<1>2. CASE UNCHANGED users BY <1>2
<1>3. ASSUME NEW h \in Handlers, VerifyCreates(h) PROVE Dead
  <2>1. users = {} /\ \A u \in users' : u.from = Verified(h)
    BY <1>3 DEF VerifyCreates, Unique, Create
  <2>2. Verified(h) \notin taken BY <1>1, <1>3, TakenFree DEF VerifyCreates
  <2> QED BY <2>1, <2>2
<1>4. ASSUME NEW h \in Handlers, VerifyUpdates(h) PROVE Dead
  <2>1. \A u \in users' : u \in users \/ u.from = Verified(h)
    <3>1. \A u \in users : u \in User BY <1>1 DEF RowsOK
    <3> QED BY <1>4, <3>1 DEF VerifyUpdates, Reverified, User
  <2>2. Verified(h) \notin taken BY <1>1, <1>4, TakenFree DEF VerifyUpdates
  <2> QED BY <2>1, <2>2
<1>5. ASSUME NEW h \in Handlers, GoogleCommits(h) PROVE Dead
  <2>1. CASE UNCHANGED users BY <2>1
  <2>2. CASE Unique /\ Create(GoogleUser, 0)
    <3>1. \A u \in users' : u.from = 0 BY <2>2 DEF Unique, Create
    <3>2. 0 \notin taken BY DEF IInv, CodesInv
    <3> QED BY <3>1, <3>2
  <2> QED BY <1>5, <2>1, <2>2 DEF GoogleCommits
<1>6. ASSUME NEW h \in Handlers, ResetCommits(h) PROVE Dead
  <2>1. \A u \in users : u \in User BY <1>1 DEF RowsOK
  <2>2. \A u \in users' : \E old \in users : u.from = old.from
    BY <1>6, <2>1 DEF ResetCommits, User
  <2> QED BY <2>2
<1>7. ASSUME NEW h \in Handlers, DeleteCommits(h) PROVE Dead
  BY <1>7 DEF DeleteCommits
<1>8. UNCHANGED users
      \/ \E h \in Handlers : VerifyCreates(h) \/ VerifyUpdates(h) \/ GoogleCommits(h)
                             \/ ResetCommits(h) \/ DeleteCommits(h)
  <2>1. CASE UNCHANGED vars BY <2>1 DEF vars
  <2>2. CASE LogIn \/ ResetTokenExpires BY <2>2 DEF LogIn, ResetTokenExpires
  <2>3. ASSUME NEW h \in Handlers, Handler(h)
        PROVE  \/ UNCHANGED users \/ VerifyCreates(h) \/ VerifyUpdates(h) \/ GoogleCommits(h)
               \/ ResetCommits(h) \/ DeleteCommits(h)
    <3>1. CASE RegisterLooks(h) \/ RegisterCommits(h) \/ ResendLooks(h) \/ ResendCommits(h)
               \/ Mail(h) \/ VerifyLooks(h) \/ GoogleLooks(h) \/ Sign(h)
      BY <3>1 DEF RegisterLooks, RegisterCommits, ResendLooks, ResendCommits, Mail, VerifyLooks,
                  GoogleLooks, Sign
    <3>2. CASE VerifyFlushes(h) BY <1>1, <3>2, Flushed
    <3>3. CASE ForgotLooks(h) \/ ForgotCommits(h) \/ ResetCodeLooks(h) \/ ResetCodeCommits(h)
               \/ ResetLoads(h) \/ DeleteLooks(h) \/ DeleteCodes(h) \/ Abort(h)
      BY <3>3 DEF ForgotLooks, ForgotCommits, ResetCodeLooks, ResetCodeCommits, ResetLoads,
                  DeleteLooks, DeleteCodes, Abort
    <3> QED BY <2>3, <3>1, <3>2, <3>3
     DEF Handler, Register, ResendOtp, VerifyOtp, GoogleAuth, ForgotPassword,
         VerifyResetCode, ResetPassword, DeleteUser
  <2> QED BY <2>1, <2>2, <2>3 DEF Next
<1> QED BY <1>2, <1>3, <1>4, <1>5, <1>6, <1>7, <1>8

\* A registration that went with its account is not verified any more.
THEOREM TakenStayDead == Spec => TakenCodesStayDead
<1>1. IInv /\ [Next]_vars =>
        [\A u \in users' : u.from \in taken => \E old \in users : old.from = u.from]_vars
  BY TakenStep
<1> QED BY <1>1, Invariance, PTL DEF Spec, TakenCodesStayDead
=============================================================================
