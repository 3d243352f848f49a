----------------------- MODULE InterviewRecords_proofs ----------------------
(***************************************************************************)
(* Theorems about InterviewRecords, for any number of requests and any     *)
(* set of documents: what foreign keys, the unique constraint and the      *)
(* order of the account's deletion keep true whatever runs side by side.   *)
(***************************************************************************)
EXTENDS InterviewRecords, TLAPS

\* A row gets an id nobody has, and the deletion of the account dooms every call that
\* is linked to an interview when it begins.
Fresh == \A d \in documents : d.id < nextId.document

Doomed ==
  /\ removal.pc = "calls" => removal.known \subseteq removal.doomed
  /\ account = "gone" => removal.pc = "done"

\* Session ids are fresh and tell sessions apart, a turn is in an interview in progress,
\* and what a deletion has found to be over stays so until it deletes.
SessionIds ==
  /\ \A x \in sessions : x.id < nextId.session
  /\ \A x, y \in sessions : x.id = y.id => x = y

TurnsInProgress ==
  \A b \in busy, x \in sessions :
    b.by = "turn" /\ b.session = x.id => x.status = "in_progress"

Spared(d) ==
  deletions[d].pc = "checked" =>
    /\ \A id \in deletions[d].known : id < nextId.session
    /\ \A x \in sessions :
         Uses(x, deletions[d].document) /\ x.id \in deletions[d].known =>
           x.status = "finished"

DeletionInv == SessionIds /\ TurnsInProgress /\ \A d \in Deletions : Spared(d)

IInv ==
  /\ TypeOK
  /\ Fresh
  /\ NoDuplicateDocuments
  /\ SessionsKeepDocuments
  /\ Doomed
  /\ AccountLeavesNothingLinked
  /\ DeletionInv

-----------------------------------------------------------------------------
(* Lemmas on the helpers.                                                  *)

\* A call that is logged names a session that is there.
LEMMA LoggedType ==
  ASSUME TypeOK, NEW id
  PROVE  /\ Logged(id) \subseteq Call
         /\ \A c \in Logged(id) : c.session = NULL \/ Exists(c.session)
         /\ sessions = {} => Logged(id) = calls
<1>1. CASE Exists(id)
  <2> DEFINE new == [id |-> nextId.call, session |-> id]
  <2>1. id \in Id /\ nextId.call \in Id
    BY <1>1 DEF Exists, TypeOK, Session
  <2>2. new \in Call /\ new.session = id
    BY <2>1 DEF Call
  <2>3. Logged(id) = calls \cup {new} /\ sessions # {}
    BY <1>1 DEF Logged, Exists
  <2> HIDE DEF new
  <2> QED
    BY <1>1, <2>2, <2>3 DEF TypeOK
<1>2. CASE ~Exists(id)
  BY <1>2 DEF Logged, TypeOK
<1> QED
  BY <1>1, <1>2

\* Deleting sessions leaves no call that names one of them, and no new call.
LEMMA UnlinkedType ==
  ASSUME TypeOK, NEW gone \in SUBSET sessions
  PROVE  /\ Unlinked(gone) \subseteq Call
         /\ \A c \in Unlinked(gone) :
              \/ c.session = NULL
              \/ \E x \in sessions \ gone : x.id = c.session
         /\ {c.id : c \in Unlinked(gone)} \subseteq {c.id : c \in calls}
<1>1. ASSUME NEW c \in Unlinked(gone)
      PROVE  \E k \in calls : /\ c = [k EXCEPT !.session = IF k.session \in {x.id : x \in gone}
                                                           THEN NULL ELSE k.session]
                              /\ k \in Call
                              /\ k.session = NULL \/ Exists(k.session)
  BY <1>1 DEF Unlinked, TypeOK
<1>2. ASSUME NEW c \in Unlinked(gone)
      PROVE  /\ c \in Call
             /\ c.id \in {k.id : k \in calls}
             /\ c.session = NULL \/ \E x \in sessions \ gone : x.id = c.session
  <2>1. PICK k \in calls : /\ c = [k EXCEPT !.session = IF k.session \in {x.id : x \in gone}
                                                        THEN NULL ELSE k.session]
                           /\ k \in Call
                           /\ k.session = NULL \/ Exists(k.session)
    BY <1>1
  <2>2. c.id = k.id /\ c.session = IF k.session \in {x.id : x \in gone} THEN NULL ELSE k.session
    BY <2>1 DEF Call
  <2>3. c \in Call
    BY <2>1 DEF Call, Id, NULL
  <2> QED
    BY <2>1, <2>2, <2>3 DEF Exists
<1> QED
  BY <1>2

-----------------------------------------------------------------------------
(* The initial states.                                                     *)

LEMMA InitIInv == Init => IInv
<1> SUFFICES ASSUME Init PROVE IInv
  OBVIOUS
<1>1. TypeOK
  <2>1. uploads \in [Uploads -> Upload]
    BY DEF Init, Upload
  <2>2. starts \in [Starts -> Start]
    BY DEF Init, Start
  <2>3. deletions \in [Deletions -> Deletion]
    BY DEF Init, Deletion
  <2>4. removal \in Removal
    BY DEF Init, Removal
  <2>5. nextId \in [document : Id, session : Id, call : Id]
    <3>1. 1 \in Id
      BY DEF Id
    <3> QED
      BY <3>1 DEF Init
  <2> QED
    BY <2>1, <2>2, <2>3, <2>4, <2>5 DEF Init, TypeOK
<1> QED
  BY <1>1 DEF Init, IInv, Fresh, NoDuplicateDocuments, SessionsKeepDocuments, Doomed,
              AccountLeavesNothingLinked, DeletionInv, SessionIds, TurnsInProgress, Spared

-----------------------------------------------------------------------------
(* Type correctness of each step.                                          *)

LEMMA UploadType ==
  ASSUME TypeOK, NEW u \in Uploads, UploadChecks(u) \/ UploadCommits(u) \/ UploadFails(u)
  PROVE  TypeOK'
<1>1. CASE UploadChecks(u)
  <2>1. PICK c \in Contents :
          uploads' = [uploads EXCEPT
                        ![u] = [pc |-> IF \E d \in documents : d.content = c THEN "done"
                                       ELSE "extracting",
                                content |-> c]]
    BY <1>1 DEF UploadChecks
  <2>2. uploads' \in [Uploads -> Upload]
    BY <2>1 DEF TypeOK, Upload
  <2> QED
    BY <1>1, <2>2 DEF UploadChecks, tables, TypeOK, Exists
<1>2. CASE UploadCommits(u)
  <2>1. uploads' \in [Uploads -> Upload]
    BY <1>2 DEF UploadCommits, TypeOK, Upload
  <2>2. [id |-> nextId.document, content |-> uploads[u].content] \in Document
    <3>1. uploads[u].content \in Contents
      BY <1>2 DEF UploadCommits, TypeOK, Upload
    <3>2. nextId.document \in Id
      BY DEF TypeOK
    <3> QED
      BY <3>1, <3>2 DEF Document
  <2>3. nextId' \in [document : Id, session : Id, call : Id]
    BY <1>2 DEF UploadCommits, TypeOK, Id
  <2> QED
    BY <1>2, <2>1, <2>2, <2>3 DEF UploadCommits, TypeOK, Exists
<1>3. CASE UploadFails(u)
  <2>1. uploads' \in [Uploads -> Upload]
    BY <1>3 DEF UploadFails, TypeOK, Upload
  <2> QED
    BY <1>3, <2>1 DEF UploadFails, tables, TypeOK, Exists
<1> QED
  BY <1>1, <1>2, <1>3

LEMMA StartType ==
  ASSUME TypeOK, NEW s \in Starts,
         \/ StartLoads(s) \/ StartCommits(s) \/ StartRefused(s) \/ OpeningEnds(s)
         \/ StartStores(s) \/ StartDiscards(s)
  PROVE  TypeOK'
<1>1. CASE StartLoads(s)
  <2>1. PICK resume \in documents, job \in documents :
          starts' = [starts EXCEPT ![s] = [pc |-> "planned", resume |-> resume.id,
                                           job |-> job.id, session |-> 0]]
    BY <1>1 DEF StartLoads
  <2>2. resume.id \in Nat /\ job.id \in Nat
    BY DEF TypeOK, Document, Id
  <2>3. starts' \in [Starts -> Start]
    BY <2>1, <2>2 DEF TypeOK, Start
  <2> QED
    BY <1>1, <2>3 DEF StartLoads, tables, TypeOK, Exists
<1>2. CASE StartCommits(s)
  <2> DEFINE x == [id |-> nextId.session, resume |-> starts[s].resume,
                   job |-> starts[s].job, status |-> "in_progress"]
  <2>1. nextId.session \in Id /\ nextId.session \in Nat
    BY DEF TypeOK, Id
  <2>2. x \in Session
    <3>1. starts[s].resume \in Id /\ starts[s].job \in Id
      BY <1>2 DEF StartCommits, Insertable, Present, TypeOK, Document
    <3> QED
      BY <2>1, <3>1 DEF Session
  <2>3. starts' \in [Starts -> Start]
    BY <1>2, <2>1 DEF StartCommits, TypeOK, Start
  <2>4. nextId' \in [document : Id, session : Id, call : Id]
    BY <1>2 DEF StartCommits, TypeOK, Id
  <2>5. sessions' = sessions \cup {x}
    BY <1>2 DEF StartCommits
  <2> HIDE DEF x
  <2> QED
    BY <1>2, <2>2, <2>3, <2>4, <2>5 DEF StartCommits, TypeOK, Exists
<1>3. CASE StartRefused(s) \/ StartStores(s)
  <2>1. starts' \in [Starts -> Start]
    BY <1>3 DEF StartRefused, StartStores, TypeOK, Start
  <2> QED
    BY <1>3, <2>1 DEF StartRefused, StartStores, tables, TypeOK, Exists
<1>4. CASE OpeningEnds(s)
  <2>1. PICK pc \in {"storing", "discarding"} : starts' = [starts EXCEPT ![s].pc = pc]
    BY <1>4 DEF OpeningEnds
  <2>2. starts' \in [Starts -> Start]
    BY <2>1 DEF TypeOK, Start
  <2>3. nextId' \in [document : Id, session : Id, call : Id]
    BY <1>4 DEF OpeningEnds, TypeOK, Id
  <2>4. calls' = Logged(starts[s].session) /\ sessions' = sessions
    BY <1>4 DEF OpeningEnds
  <2>5. calls' \subseteq Call /\ \A c \in calls' : c.session = NULL \/ Exists(c.session)'
    BY <2>4, LoggedType DEF Exists
  <2> QED
    BY <1>4, <2>2, <2>3, <2>5 DEF OpeningEnds, TypeOK
<1>5. CASE StartDiscards(s)
  <2>1. starts' \in [Starts -> Start]
    BY <1>5 DEF StartDiscards, TypeOK, Start
  <2>2. PICK gone \in SUBSET sessions : sessions' = sessions \ gone /\ calls' = Unlinked(gone)
    BY <1>5 DEF StartDiscards
  <2>3. calls' \subseteq Call /\ \A c \in calls' : c.session = NULL \/ Exists(c.session)'
    BY <2>2, UnlinkedType DEF Exists
  <2> QED
    BY <1>5, <2>1, <2>2, <2>3 DEF StartDiscards, TypeOK
<1> QED
  BY <1>1, <1>2, <1>3, <1>4, <1>5

LEMMA InterviewType ==
  ASSUME TypeOK,
         \/ \E x \in sessions : TurnBegins(x) \/ JudgeBegins(x)
         \/ \E b \in busy : CallEnds(b)
  PROVE  TypeOK'
<1>1. CASE \E x \in sessions : TurnBegins(x) \/ JudgeBegins(x)
  <2>1. PICK x \in sessions : TurnBegins(x) \/ JudgeBegins(x)
    BY <1>1
  <2>2. x.id \in Id
    BY DEF TypeOK, Session
  <2>3. busy' \subseteq [session : Id, by : {"turn", "judge"}]
    BY <2>1, <2>2 DEF TurnBegins, JudgeBegins, TypeOK
  <2> QED
    BY <2>1, <2>3 DEF TurnBegins, JudgeBegins, TypeOK, Exists
<1>2. CASE \E b \in busy : CallEnds(b)
  <2>1. PICK b \in busy : CallEnds(b)
    BY <1>2
  <2>2. PICK status \in {"in_progress", "finished"} :
          sessions' = {IF b.by = "turn" /\ x.id = b.session THEN [x EXCEPT !.status = status]
                       ELSE x : x \in sessions}
    BY <2>1 DEF CallEnds
  <2>3. ASSUME NEW x \in sessions
        PROVE  /\ [x EXCEPT !.status = status] \in Session
               /\ [x EXCEPT !.status = status].id = x.id
    BY DEF TypeOK, Session
  <2>4. sessions' \subseteq Session /\ \A x \in sessions : \E y \in sessions' : y.id = x.id
    <3> DEFINE f(x) == IF b.by = "turn" /\ x.id = b.session
                       THEN [x EXCEPT !.status = status] ELSE x
    <3>1. \A x \in sessions : f(x) \in Session /\ f(x).id = x.id
      BY <2>3 DEF TypeOK
    <3>2. sessions' = {f(x) : x \in sessions}
      BY <2>2
    <3> HIDE DEF f
    <3> QED
      BY <3>1, <3>2
  <2>5. nextId' \in [document : Id, session : Id, call : Id]
    BY <2>1 DEF CallEnds, TypeOK, Id
  <2>6. calls' = Logged(b.session)
    BY <2>1 DEF CallEnds
  <2>7. calls' \subseteq Call /\ \A c \in calls' : c.session = NULL \/ Exists(c.session)'
    BY <2>4, <2>6, LoggedType DEF Exists
  <2> QED
    BY <2>1, <2>4, <2>5, <2>7 DEF CallEnds, TypeOK
<1> QED
  BY <1>1, <1>2

LEMMA DeletionType ==
  ASSUME TypeOK, NEW d \in Deletions, DeletionChecks(d) \/ DeletionCommits(d)
  PROVE  TypeOK'
<1>1. CASE DeletionChecks(d)
  <2>1. PICK document \in documents :
          deletions' = [deletions EXCEPT
                          ![d] = [pc |-> IF InUse(document.id) THEN "done" ELSE "checked",
                                  document |-> document.id,
                                  known |-> {x.id : x \in sessions}]]
    BY <1>1 DEF DeletionChecks
  <2>2. document.id \in Nat /\ {x.id : x \in sessions} \subseteq Id
    BY DEF TypeOK, Document, Session, Id
  <2>3. deletions' \in [Deletions -> Deletion]
    BY <2>1, <2>2 DEF TypeOK, Deletion
  <2> QED
    BY <1>1, <2>3 DEF DeletionChecks, tables, TypeOK, Exists
<1>2. CASE DeletionCommits(d)
  <2>1. deletions' \in [Deletions -> Deletion]
    BY <1>2 DEF DeletionCommits, TypeOK, Deletion
  <2>2. PICK gone \in SUBSET sessions : sessions' = sessions \ gone /\ calls' = Unlinked(gone)
    BY <1>2 DEF DeletionCommits
  <2>3. calls' \subseteq Call /\ \A c \in calls' : c.session = NULL \/ Exists(c.session)'
    BY <2>2, UnlinkedType DEF Exists
  <2> QED
    BY <1>2, <2>1, <2>2, <2>3 DEF DeletionCommits, TypeOK
<1> QED
  BY <1>1, <1>2

LEMMA AccountType ==
  ASSUME TypeOK, AccountDeletesCalls \/ AccountGoes \/ AccountRollsBack
  PROVE  TypeOK'
<1>1. CASE AccountDeletesCalls
  <2>1. \A c \in calls : c.id \in Id
    BY DEF TypeOK, Call
  <2>2. removal' \in Removal
    BY <1>1, <2>1 DEF AccountDeletesCalls, LinkedCalls, Removal
  <2> QED
    BY <1>1, <2>2 DEF AccountDeletesCalls, tables, TypeOK, Exists
<1>2. CASE AccountGoes
  <2>1. removal' \in Removal
    BY <1>2 DEF AccountGoes, TypeOK, Removal
  <2>2. calls' \subseteq Call /\ \A c \in calls' : c.session = NULL
    BY <1>2, UnlinkedType DEF AccountGoes
  <2> QED
    BY <1>2, <2>1, <2>2 DEF AccountGoes, TypeOK
<1>3. CASE AccountRollsBack
  <2>1. removal' \in Removal
    BY <1>3 DEF AccountRollsBack, Removal
  <2> QED
    BY <1>3, <2>1 DEF AccountRollsBack, tables, TypeOK, Exists
<1> QED
  BY <1>1, <1>2, <1>3

LEMMA NextType == TypeOK /\ [Next]_vars => TypeOK'
<1> SUFFICES ASSUME TypeOK, [Next]_vars
             PROVE  TypeOK'
  OBVIOUS
<1>1. CASE UNCHANGED vars
  BY <1>1 DEF vars, TypeOK, Exists
<1>2. CASE Next
  BY <1>2, UploadType, StartType, InterviewType, DeletionType, AccountType DEF Next
<1> QED
  BY <1>1, <1>2

-----------------------------------------------------------------------------
(* The rest of the invariant.                                              *)

\* Only an upload that finds no equal document adds one; it takes a fresh id.
LEMMA NextDocuments ==
  TypeOK /\ Fresh /\ NoDuplicateDocuments /\ [Next]_vars => (Fresh /\ NoDuplicateDocuments)'
<1> SUFFICES ASSUME TypeOK, Fresh, NoDuplicateDocuments, [Next]_vars
             PROVE  Fresh' /\ NoDuplicateDocuments'
  OBVIOUS
<1>1. nextId.document \in Nat /\ \A d \in documents : d.id \in Nat
  BY DEF TypeOK, Document, Id
<1>2. CASE \E u \in Uploads : UploadCommits(u)
  <2>1. PICK u \in Uploads : UploadCommits(u)
    BY <1>2
  <2> DEFINE new == [id |-> nextId.document, content |-> uploads[u].content]
  <2>2. documents' = documents \cup {new} /\ nextId'.document = nextId.document + 1
    BY <2>1 DEF UploadCommits, TypeOK
  <2>3. \A d \in documents : d.content # new.content /\ d.id # new.id
    BY <1>1, <2>1 DEF UploadCommits, Duplicate, Fresh
  <2>4. new.id = nextId.document
    OBVIOUS
  <2> HIDE DEF new
  <2>5. NoDuplicateDocuments'
    BY <2>2, <2>3 DEF NoDuplicateDocuments
  <2> QED
    BY <1>1, <2>2, <2>4, <2>5 DEF Fresh
<1>3. CASE ~\E u \in Uploads : UploadCommits(u)
  <2>1. documents' \subseteq documents /\ nextId'.document = nextId.document
    <3>1. CASE UNCHANGED vars
      BY <3>1 DEF vars
    <3>2. CASE Next
      BY <1>3, <3>2
      DEF Next, UploadChecks, UploadFails, StartLoads, StartCommits, StartRefused,
          OpeningEnds, StartStores, StartDiscards, TurnBegins, JudgeBegins, CallEnds,
          DeletionChecks, DeletionCommits, AccountDeletesCalls, AccountGoes,
          AccountRollsBack, tables, TypeOK
    <3> QED
      BY <3>1, <3>2
  <2> QED
    BY <2>1 DEF Fresh, NoDuplicateDocuments
<1> QED
  BY <1>2, <1>3

\* A session is inserted only while its documents are there, and a document takes its
\* sessions with it.
LEMMA NextSessions ==
  TypeOK /\ SessionsKeepDocuments /\ [Next]_vars => SessionsKeepDocuments'
<1> SUFFICES ASSUME TypeOK, SessionsKeepDocuments, [Next]_vars
             PROVE  SessionsKeepDocuments'
  OBVIOUS
<1>1. CASE \E s \in Starts : StartCommits(s)
  <2>1. PICK s \in Starts : StartCommits(s)
    BY <1>1
  <2>2. ASSUME NEW x \in sessions'
        PROVE  \/ x \in sessions
               \/ x.resume = starts[s].resume /\ x.job = starts[s].job
    BY <2>1, <2>2 DEF StartCommits
  <2> QED
    BY <2>1, <2>2 DEF StartCommits, Insertable, SessionsKeepDocuments, Present
<1>2. CASE \E b \in busy : CallEnds(b)
  <2>1. PICK b \in busy : CallEnds(b)
    BY <1>2
  <2>2. PICK status :
          sessions' = {IF b.by = "turn" /\ x.id = b.session THEN [x EXCEPT !.status = status]
                       ELSE x : x \in sessions}
    BY <2>1 DEF CallEnds
  <2>3. ASSUME NEW y \in sessions'
        PROVE  \E x \in sessions : y.resume = x.resume /\ y.job = x.job
    <3>1. PICK x \in sessions : y = x \/ y = [x EXCEPT !.status = status]
      BY <2>2
    <3> QED
      BY <3>1 DEF TypeOK, Session
  <2> QED
    BY <2>1, <2>3 DEF CallEnds, SessionsKeepDocuments, Present
<1>3. CASE \E d \in Deletions : DeletionCommits(d)
  <2>1. PICK d \in Deletions : DeletionCommits(d)
    BY <1>3
  <2>2. /\ sessions' = {x \in sessions : ~Uses(x, deletions[d].document)}
        /\ documents' = {x \in documents : x.id # deletions[d].document}
    BY <2>1 DEF DeletionCommits
  <2> QED
    BY <2>2 DEF Uses, SessionsKeepDocuments, Present
<1>4. CASE AccountGoes
  BY <1>4 DEF AccountGoes, SessionsKeepDocuments
<1>5. CASE /\ ~\E s \in Starts : StartCommits(s)
           /\ ~\E b \in busy : CallEnds(b)
           /\ ~\E d \in Deletions : DeletionCommits(d)
           /\ ~AccountGoes
  <2>1. sessions' \subseteq sessions /\ documents \subseteq documents'
    <3>1. CASE UNCHANGED vars
      BY <3>1 DEF vars
    <3>2. CASE Next
      BY <1>5, <3>2
      DEF Next, UploadChecks, UploadCommits, UploadFails, StartLoads, StartRefused,
          OpeningEnds, StartStores, StartDiscards, TurnBegins, JudgeBegins,
          DeletionChecks, AccountDeletesCalls, AccountRollsBack, tables
    <3> QED
      BY <3>1, <3>2
  <2> QED
    BY <2>1 DEF SessionsKeepDocuments, Present
<1> QED
  BY <1>1, <1>2, <1>3, <1>4, <1>5

\* Once the account is gone there is no session, so that no call can be logged; and the
\* calls linked to one when the deletion began were deleted in its first statement.
LEMMA NextAccount ==
  /\ TypeOK /\ Doomed /\ AccountLeavesNothingLinked
  /\ [Next]_vars
  => (Doomed /\ AccountLeavesNothingLinked)'
<1> SUFFICES ASSUME TypeOK, Doomed, AccountLeavesNothingLinked, [Next]_vars
             PROVE  Doomed' /\ AccountLeavesNothingLinked'
  OBVIOUS
<1>1. CASE AccountDeletesCalls
  <2>1. account # "gone" /\ account' = account
    BY <1>1 DEF AccountDeletesCalls, Doomed, tables
  <2>2. \A c \in calls : Exists(c.session) => c.session # NULL
    BY DEF TypeOK, Exists, Session, Id, NULL
  <2>3. removal'.known \subseteq removal'.doomed
    BY <1>1, <2>2 DEF AccountDeletesCalls, LinkedCalls
  <2> QED
    BY <2>1, <2>3 DEF Doomed, AccountLeavesNothingLinked
<1>2. CASE AccountGoes
  <2>1. removal.known \subseteq removal.doomed
    BY <1>2 DEF AccountGoes, Doomed
  <2>2. removal'.pc = "done" /\ removal'.known = removal.known
    BY <1>2 DEF AccountGoes, TypeOK, Removal
  <2>3. \A c \in calls' : c.session = NULL /\ c.id \notin removal.doomed
    BY <1>2, UnlinkedType DEF AccountGoes
  <2>4. documents' = {} /\ sessions' = {}
    BY <1>2 DEF AccountGoes
  <2> QED
    BY <2>1, <2>2, <2>3, <2>4 DEF Doomed, AccountLeavesNothingLinked
<1>3. CASE AccountRollsBack
  <2>1. account # "gone" /\ account' = account
    BY <1>3 DEF AccountRollsBack, Doomed, tables
  <2>2. removal'.pc = "done"
    BY <1>3 DEF AccountRollsBack
  <2> QED
    BY <2>1, <2>2 DEF Doomed, AccountLeavesNothingLinked
<1>4. CASE ~AccountDeletesCalls /\ ~AccountGoes /\ ~AccountRollsBack
  <2>1. account' = account /\ removal' = removal
    <3>1. CASE UNCHANGED vars
      BY <3>1 DEF vars
    <3>2. CASE Next
      BY <1>4, <3>2
      DEF Next, UploadChecks, UploadCommits, UploadFails, StartLoads, StartCommits,
          StartRefused, OpeningEnds, StartStores, StartDiscards, TurnBegins, JudgeBegins,
          CallEnds, DeletionChecks, DeletionCommits, tables
    <3> QED
      BY <3>1, <3>2
  <2>2. ASSUME account = "gone"
        PROVE  /\ documents' = {} /\ sessions' = {}
               /\ \A c \in calls' : \E k \in calls : c.id = k.id
               /\ \A c \in calls' : c.session = NULL
    <3>1. documents = {} /\ sessions = {} /\ \A c \in calls : c.session = NULL
      BY <2>2 DEF AccountLeavesNothingLinked
    <3>2. \A id : Logged(id) = calls
      BY <3>1, LoggedType
    <3>3. /\ {c.id : c \in Unlinked({})} \subseteq {c.id : c \in calls}
          /\ \A c \in Unlinked({}) : c.session = NULL
      BY <3>1, UnlinkedType
    <3>4. CASE UNCHANGED vars
      BY <3>1, <3>4 DEF vars
    <3>5. CASE \E s \in Starts : StartDiscards(s)
      BY <3>1, <3>3, <3>5 DEF StartDiscards
    <3>6. CASE \E d \in Deletions : DeletionCommits(d)
      BY <3>1, <3>3, <3>6 DEF DeletionCommits
    <3>7. CASE /\ Next
               /\ ~\E s \in Starts : StartDiscards(s)
               /\ ~\E d \in Deletions : DeletionCommits(d)
      <4>1. documents' = {} /\ sessions' = {} /\ calls' = calls
        BY <1>4, <2>2, <3>1, <3>2, <3>7
        DEF Next, UploadChecks, UploadCommits, UploadFails, StartLoads, StartCommits,
            StartRefused, OpeningEnds, StartStores, TurnBegins, JudgeBegins, CallEnds,
            DeletionChecks, Insertable, tables
      <4> QED
        BY <3>1, <4>1
    <3> QED
      BY <3>4, <3>5, <3>6, <3>7
  <2> QED
    BY <2>1, <2>2 DEF Doomed, AccountLeavesNothingLinked
<1> QED
  BY <1>1, <1>2, <1>3, <1>4

\* Deleting sessions, or leaving them alone, keeps what deletions know.
LEMMA FewerSessions ==
  ASSUME TypeOK, DeletionInv, sessions' \subseteq sessions, busy' \subseteq busy,
         nextId'.session = nextId.session,
         \A d \in Deletions :
           deletions'[d].pc = "checked" => deletions'[d] = deletions[d]
  PROVE  DeletionInv'
<1>1. SessionIds' /\ TurnsInProgress'
  BY DEF DeletionInv, SessionIds, TurnsInProgress
<1>2. ASSUME NEW d \in Deletions
      PROVE  Spared(d)'
  BY DEF DeletionInv, Spared, Uses
<1> QED
  BY <1>1, <1>2 DEF DeletionInv

LEMMA NextDeletion == TypeOK /\ DeletionInv /\ [Next]_vars => DeletionInv'
<1> SUFFICES ASSUME TypeOK, DeletionInv, [Next]_vars
             PROVE  DeletionInv'
  OBVIOUS
<1>0. nextId.session \in Nat /\ \A x \in sessions : x.id \in Nat
  BY DEF TypeOK, Session, Id
<1>1. CASE \E s \in Starts : StartCommits(s)
  <2>1. PICK s \in Starts : StartCommits(s)
    BY <1>1
  <2> DEFINE new == [id |-> nextId.session, resume |-> starts[s].resume,
                     job |-> starts[s].job, status |-> "in_progress"]
  <2>2. /\ sessions' = sessions \cup {new}
        /\ nextId'.session = nextId.session + 1
        /\ busy' = busy /\ deletions' = deletions
    BY <2>1 DEF StartCommits, TypeOK
  <2>3. new.id = nextId.session /\ new.status = "in_progress"
    OBVIOUS
  <2> HIDE DEF new
  <2>4. SessionIds' /\ TurnsInProgress'
    BY <1>0, <2>2, <2>3 DEF DeletionInv, SessionIds, TurnsInProgress
  <2>5. ASSUME NEW d \in Deletions
        PROVE  Spared(d)'
    <3>1. deletions[d].known \subseteq Nat
      BY DEF TypeOK, Deletion, Id
    <3> QED
      BY <1>0, <2>2, <2>3, <3>1 DEF DeletionInv, Spared, Uses
  <2> QED
    BY <2>4, <2>5 DEF DeletionInv
<1>2. CASE \E x \in sessions : TurnBegins(x) \/ JudgeBegins(x)
  <2>1. PICK x \in sessions : TurnBegins(x) \/ JudgeBegins(x)
    BY <1>2
  <2>2. /\ sessions' = sessions /\ nextId' = nextId /\ deletions' = deletions
        /\ \/ busy' = busy \cup {[session |-> x.id, by |-> "judge"]}
           \/ /\ busy' = busy \cup {[session |-> x.id, by |-> "turn"]}
              /\ x.status = "in_progress"
    BY <2>1 DEF TurnBegins, JudgeBegins
  <2>3. TurnsInProgress'
    BY <2>2 DEF DeletionInv, SessionIds, TurnsInProgress
  <2> QED
    BY <2>2, <2>3 DEF DeletionInv, SessionIds, Spared, Uses
<1>3. CASE \E b \in busy : CallEnds(b)
  <2>1. PICK b \in busy : CallEnds(b)
    BY <1>3
  <2>2. PICK status \in {"in_progress", "finished"} :
          sessions' = {IF b.by = "turn" /\ x.id = b.session THEN [x EXCEPT !.status = status]
                       ELSE x : x \in sessions}
    BY <2>1 DEF CallEnds
  <2>3. nextId'.session = nextId.session /\ busy' = busy \ {b} /\ deletions' = deletions
    BY <2>1 DEF CallEnds, TypeOK
  <2>4. ASSUME NEW y \in sessions'
        PROVE  \E x \in sessions :
                 /\ y.id = x.id /\ y.resume = x.resume /\ y.job = x.job
                 /\ y # x => b.by = "turn" /\ x.id = b.session
                 /\ y = IF b.by = "turn" /\ x.id = b.session
                        THEN [x EXCEPT !.status = status] ELSE x
    <3>1. PICK x \in sessions : y = IF b.by = "turn" /\ x.id = b.session
                                    THEN [x EXCEPT !.status = status] ELSE x
      BY <2>2
    <3>2. /\ [x EXCEPT !.status = status].id = x.id
          /\ [x EXCEPT !.status = status].resume = x.resume
          /\ [x EXCEPT !.status = status].job = x.job
      BY DEF TypeOK, Session
    <3> QED
      BY <3>1, <3>2
  <2>5. SessionIds'
    BY <2>3, <2>4 DEF DeletionInv, SessionIds
  <2>6. TurnsInProgress'
    <3> SUFFICES ASSUME NEW c \in busy', NEW y \in sessions', c.by = "turn", c.session = y.id
                 PROVE  y.status = "in_progress"
      BY DEF TurnsInProgress
    <3>1. PICK x \in sessions : y.id = x.id /\ (y # x => b.by = "turn" /\ x.id = b.session)
      BY <2>4
    <3>2. c \in busy /\ c # b
      BY <2>3
    <3>3. y = x
      <4>1. /\ b \in [session : Id, by : {"turn", "judge"}]
            /\ c \in [session : Id, by : {"turn", "judge"}]
        BY <3>2 DEF TypeOK
      <4>2. b.by # "turn" \/ b.session # c.session
        BY <3>2, <4>1
      <4> QED
        BY <3>1, <4>2
    <3> QED
      BY <3>1, <3>2, <3>3 DEF DeletionInv, TurnsInProgress
  <2>7. ASSUME NEW d \in Deletions
        PROVE  Spared(d)'
    <3> SUFFICES ASSUME NEW y \in sessions', deletions[d].pc = "checked",
                        Uses(y, deletions[d].document), y.id \in deletions[d].known
                 PROVE  y.status = "finished"
      BY <2>3 DEF Spared, DeletionInv, Uses
    <3>1. PICK x \in sessions :
            /\ y.id = x.id /\ y.resume = x.resume /\ y.job = x.job
            /\ y # x => b.by = "turn" /\ x.id = b.session
      BY <2>4
    <3>2. x.status = "finished"
      BY <3>1 DEF DeletionInv, Spared, Uses
    <3>3. y = x
      BY <3>1, <3>2 DEF DeletionInv, TurnsInProgress
    <3> QED
      BY <3>2, <3>3
  <2> QED
    BY <2>5, <2>6, <2>7 DEF DeletionInv
<1>4. CASE \E d \in Deletions : DeletionChecks(d)
  <2>1. PICK d \in Deletions : DeletionChecks(d)
    BY <1>4
  <2>2. PICK document \in documents :
          deletions' = [deletions EXCEPT
                          ![d] = [pc |-> IF InUse(document.id) THEN "done" ELSE "checked",
                                  document |-> document.id,
                                  known |-> {x.id : x \in sessions}]]
    BY <2>1 DEF DeletionChecks
  <2>3. sessions' = sessions /\ nextId' = nextId /\ busy' = busy
    BY <2>1 DEF DeletionChecks, tables
  <2>4. Spared(d)'
    <3>1. deletions'[d] = [pc |-> IF InUse(document.id) THEN "done" ELSE "checked",
                           document |-> document.id, known |-> {x.id : x \in sessions}]
      BY <2>2 DEF TypeOK
    <3>2. \A x \in sessions : x.status \in {"in_progress", "finished"}
      BY DEF TypeOK, Session
    <3> QED
      BY <2>3, <3>1, <3>2 DEF Spared, InUse, DeletionInv, SessionIds, Uses
  <2>5. \A e \in Deletions \ {d} : Spared(e)'
    BY <2>2, <2>3 DEF DeletionInv, Spared, TypeOK, Uses
  <2> QED
    BY <2>3, <2>4, <2>5 DEF DeletionInv, SessionIds, TurnsInProgress
<1>5. CASE \E d \in Deletions : DeletionCommits(d)
  <2>1. PICK d \in Deletions : DeletionCommits(d)
    BY <1>5
  <2>2. /\ sessions' \subseteq sessions /\ busy' = busy /\ nextId' = nextId
        /\ deletions' = [deletions EXCEPT ![d].pc = "done"]
    BY <2>1 DEF DeletionCommits
  <2>3. \A e \in Deletions : deletions'[e].pc = "checked" => deletions'[e] = deletions[e]
    BY <2>2 DEF TypeOK, Deletion
  <2> QED
    BY <2>2, <2>3, FewerSessions
<1>6. CASE /\ ~\E s \in Starts : StartCommits(s)
           /\ ~\E x \in sessions : TurnBegins(x) \/ JudgeBegins(x)
           /\ ~\E b \in busy : CallEnds(b)
           /\ ~\E d \in Deletions : DeletionChecks(d) \/ DeletionCommits(d)
  <2>1. /\ sessions' \subseteq sessions /\ busy' = busy /\ deletions' = deletions
        /\ nextId'.session = nextId.session
    <3>1. CASE UNCHANGED vars
      BY <3>1 DEF vars
    <3>2. CASE Next
      BY <1>6, <3>2
      DEF Next, UploadChecks, UploadCommits, UploadFails, StartLoads, StartRefused,
          OpeningEnds, StartStores, StartDiscards, AccountDeletesCalls, AccountGoes,
          AccountRollsBack, tables, TypeOK
    <3> QED
      BY <3>1, <3>2
  <2> QED
    BY <2>1, FewerSessions
<1> QED
  BY <1>1, <1>2, <1>3, <1>4, <1>5, <1>6

LEMMA NextIInv == IInv /\ [Next]_vars => IInv'
BY NextType, NextDocuments, NextSessions, NextAccount, NextDeletion DEF IInv

-----------------------------------------------------------------------------
(* The theorems.                                                           *)

\* The inductive invariant holds in every reachable state.
THEOREM Invariance == Spec => []IInv
<1>1. Init => IInv
  BY InitIInv
<1>2. IInv /\ [Next]_vars => IInv'
  BY NextIInv
<1> QED
  BY <1>1, <1>2, PTL DEF Spec

\* Rows and requests are well typed, and no logged call names a session that is gone:
\* the foreign key of llm_calls with ON DELETE SET NULL.
THEOREM TypeCorrect == Spec => []TypeOK
<1>1. IInv => TypeOK
  BY DEF IInv
<1> QED
  BY <1>1, Invariance, PTL

\* The unique constraint on owner and content hash makes the check before the model
\* call safe: however many uploads race, a document is stored once.
THEOREM DocumentsUnique == Spec => []NoDuplicateDocuments
<1>1. IInv => NoDuplicateDocuments
  BY DEF IInv
<1> QED
  BY <1>1, Invariance, PTL

\* However start requests and deletions interleave, an interview has its documents.
THEOREM SessionsComplete == Spec => []SessionsKeepDocuments
<1>1. IInv => SessionsKeepDocuments
  BY DEF IInv
<1> QED
  BY <1>1, Invariance, PTL

\* Deleting the account removes everything linked to it when the deletion begins,
\* whatever turns, judges, uploads and other deletions are under way (delete_account).
THEOREM AccountRemoved == Spec => []AccountLeavesNothingLinked
<1>1. IInv => AccountLeavesNothingLinked
  BY DEF IInv
<1> QED
  BY <1>1, Invariance, PTL

\* The deletion of a document spares the interviews in progress it knew of and those a
\* turn is being answered for; what it may take is an interview started since.
THEOREM KnownSpared == Spec => DeletionSparesKnown
<1> DEFINE Safe ==
      \A d \in Deletions :
        deletions[d].pc = "checked" /\ deletions'[d].pc = "done" =>
          \A x \in sessions \ sessions' :
            ~Held(x) /\ (x.id \in deletions[d].known => x.status = "finished")
<1>1. IInv /\ [Next]_vars => [Safe]_vars
  <2> SUFFICES ASSUME IInv, [Next]_vars, NEW d \in Deletions,
                      deletions[d].pc = "checked", deletions'[d].pc = "done"
               PROVE  \A x \in sessions \ sessions' :
                        ~Held(x) /\ (x.id \in deletions[d].known => x.status = "finished")
    OBVIOUS
  <2>1. deletions \in [Deletions -> Deletion]
    BY DEF IInv, TypeOK
  <2>2. deletions' # deletions
    OBVIOUS
  <2>3. PICK e \in Deletions : DeletionChecks(e) \/ DeletionCommits(e)
    BY <2>2
    DEF Next, vars, UploadChecks, UploadCommits, UploadFails, StartLoads, StartCommits,
        StartRefused, OpeningEnds, StartStores, StartDiscards, TurnBegins, JudgeBegins,
        CallEnds, AccountDeletesCalls, AccountGoes, AccountRollsBack
  <2>4. DeletionCommits(d)
    BY <2>1, <2>3 DEF DeletionChecks, DeletionCommits
  <2>5. \A x \in sessions \ sessions' : Uses(x, deletions[d].document) /\ ~Held(x)
    BY <2>4 DEF DeletionCommits, Deletable
  <2> QED
    BY <2>5 DEF IInv, DeletionInv, Spared
<1> QED
  BY <1>1, Invariance, PTL DEF Spec, DeletionSparesKnown
=============================================================================
