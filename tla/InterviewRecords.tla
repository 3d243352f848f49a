-------------------------- MODULE InterviewRecords --------------------------
(***************************************************************************)
(* What one account owns and how it goes: resumes and job descriptions,    *)
(* the interviews held with them, and the log of the model calls made for  *)
(* those interviews.  Uploading, starting and deleting each look at the    *)
(* tables in one statement and write them in another, with a model call or *)
(* other requests in between; only foreign keys, a unique constraint and   *)
(* row locks hold across the gap.                                          *)
(* (backend/app/services/document_service.py, resume_service.py,           *)
(* jd_service.py, interview_service.py, auth_service.delete_account)       *)
(***************************************************************************)
EXTENDS Integers, FiniteSets

CONSTANTS
  Uploads,        \* requests POST /resume/upload and POST /jd
  Starts,         \* requests POST /interview/start
  Deletions,      \* requests DELETE /resume/{id} and DELETE /jd/{id}
  Contents,       \* the files and texts a user may upload, by their hash
  Kind(_),        \* "resume" or "job"
  MaxCalls        \* bound: the model calls logged

Kinds == {"resume", "job"}

ASSUME KindAssumption == \A c \in Contents : Kind(c) \in Kinds
ASSUME BoundAssumption == MaxCalls \in Nat

VARIABLES
  account,     \* is the user still there?
  documents,   \* candidate_profiles and job_descriptions
  sessions,    \* interview_sessions
  calls,       \* llm_calls
  busy,        \* the model calls being made for a turn or by a judge
  nextId,      \* the sequences behind the primary keys
  uploads,     \* the upload requests
  starts,      \* the start requests
  deletions,   \* the document deletions
  removal      \* the deletion of the account

vars == <<account, documents, sessions, calls, busy, nextId, uploads, starts,
          deletions, removal>>

Id == Nat \ {0}
NULL == 0

Document == [id : Id, content : Contents]
Session == [id : Id, resume : Id, job : Id, status : {"in_progress", "finished"}]
Call == [id : Id, session : Id \cup {NULL}]

Upload ==
  [pc : {"idle"}, content : {""}] \cup [pc : {"extracting", "done"}, content : Contents]
Start == [pc : {"idle", "planned", "opening", "storing", "discarding", "done"},
          resume : Nat, job : Nat, session : Nat]
\* known: the sessions there were when the deletion looked for those in progress.
Deletion == [pc : {"idle", "checked", "done"}, document : Nat, known : SUBSET Id]
\* doomed: the calls the first statement of the account's deletion has deleted;
\* known (history): those that were linked to an interview of the user then.
Removal == [pc : {"idle", "calls", "done"}, doomed : SUBSET Id, known : SUBSET Id]

Present(id) == \E d \in documents : d.id = id
Uses(x, id) == x.resume = id \/ x.job = id
Exists(id) == \E x \in sessions : x.id = id

\* Postgres lets nobody delete a session row while a turn holds it.
Held(x) == \E b \in busy : b.session = x.id /\ b.by = "turn"

\* Sessions can be deleted at once: no turn holds one, and no deletion of the account
\* has already deleted a call the cascade would have to update.
Deletable(gone) ==
  /\ \A x \in gone : ~Held(x)
  /\ \A c \in calls : c.session \in {x.id : x \in gone} => c.id \notin removal.doomed

\* ON DELETE SET NULL: what becomes of the calls when sessions are deleted.
Unlinked(gone) ==
  {[c EXCEPT !.session = IF @ \in {x.id : x \in gone} THEN NULL ELSE @] : c \in calls}

\* Mutant: the log has no foreign key to the session.
LoggedAlways(id) == calls \cup {[id |-> nextId.call, session |-> id]}

\* A call is logged on a connection of its own, after the fact; if the session is
\* gone the foreign key refuses the row and the gateway swallows the error.
Logged(id) ==
  IF Exists(id) THEN calls \cup {[id |-> nextId.call, session |-> id]} ELSE calls

Init ==
  /\ account = "present"
  /\ documents = {}
  /\ sessions = {}
  /\ calls = {}
  /\ busy = {}
  /\ nextId = [document |-> 1, session |-> 1, call |-> 1]
  /\ uploads = [u \in Uploads |-> [pc |-> "idle", content |-> ""]]
  /\ starts = [s \in Starts |-> [pc |-> "idle", resume |-> 0, job |-> 0, session |-> 0]]
  /\ deletions = [d \in Deletions |-> [pc |-> "idle", document |-> 0, known |-> {}]]
  /\ removal = [pc |-> "idle", doomed |-> {}, known |-> {}]

-----------------------------------------------------------------------------
(* Uploading a document.                                                   *)

tables == <<account, documents, sessions, calls, busy, nextId>>

\* ensure_not_duplicate, before the document is sent to the model.
UploadChecks(u) ==
  /\ uploads[u].pc = "idle"
  /\ account = "present"
  /\ \E c \in Contents :
       uploads' = [uploads EXCEPT
                     ![u] = [pc |-> IF \E d \in documents : d.content = c THEN "done"
                                    ELSE "extracting",
                             content |-> c]]
  /\ UNCHANGED <<tables, starts, deletions, removal>>

\* Mutant: the table has no unique constraint on owner and content hash.
NotUnique(c) == FALSE

Duplicate(c) == \E d \in documents : d.content = c

UploadCommits(u) ==
  /\ uploads[u].pc = "extracting"
  /\ account = "present"
  /\ ~Duplicate(uploads[u].content)
  /\ documents' = documents \cup {[id |-> nextId.document, content |-> uploads[u].content]}
  /\ nextId' = [nextId EXCEPT !.document = @ + 1]
  /\ uploads' = [uploads EXCEPT ![u].pc = "done"]
  /\ UNCHANGED <<account, sessions, calls, busy, starts, deletions, removal>>

\* The document is no resume or job description, the model fails, or the insert is
\* refused because of another upload or a deleted account.
UploadFails(u) ==
  /\ uploads[u].pc = "extracting"
  /\ uploads' = [uploads EXCEPT ![u].pc = "done"]
  /\ UNCHANGED <<tables, starts, deletions, removal>>

-----------------------------------------------------------------------------
(* Starting an interview.                                                  *)

StartLoads(s) ==
  /\ starts[s].pc = "idle"
  /\ account = "present"
  /\ \E resume, job \in documents :
       /\ Kind(resume.content) = "resume" /\ Kind(job.content) = "job"
       /\ starts' = [starts EXCEPT ![s] = [pc |-> "planned", resume |-> resume.id,
                                           job |-> job.id, session |-> 0]]
  /\ UNCHANGED <<tables, uploads, deletions, removal>>

\* Mutant: the session's references to its documents are plain numbers.
AlwaysInsertable(s) == account = "present"

\* The foreign keys of the session hold when it is inserted.
Insertable(s) ==
  account = "present" /\ Present(starts[s].resume) /\ Present(starts[s].job)

StartCommits(s) ==
  /\ starts[s].pc = "planned"
  /\ Insertable(s)
  /\ sessions' = sessions \cup {[id |-> nextId.session, resume |-> starts[s].resume,
                                 job |-> starts[s].job, status |-> "in_progress"]}
  /\ nextId' = [nextId EXCEPT !.session = @ + 1]
  /\ starts' = [starts EXCEPT ![s].pc = "opening", ![s].session = nextId.session]
  /\ UNCHANGED <<account, documents, calls, busy, uploads, deletions, removal>>

StartRefused(s) ==
  /\ starts[s].pc = "planned"
  /\ ~Insertable(s)
  /\ starts' = [starts EXCEPT ![s].pc = "done"]
  /\ UNCHANGED <<tables, uploads, deletions, removal>>

\* The opening was generated, or not: logged either way.
OpeningEnds(s) ==
  /\ starts[s].pc = "opening"
  /\ nextId.call <= MaxCalls
  /\ calls' = Logged(starts[s].session)
  /\ nextId' = [nextId EXCEPT !.call = @ + 1]
  /\ \E pc \in {"storing", "discarding"} : starts' = [starts EXCEPT ![s].pc = pc]
  /\ UNCHANGED <<account, documents, sessions, busy, uploads, deletions, removal>>

\* The opening is stored, or storing fails because the session is gone.
StartStores(s) ==
  /\ starts[s].pc = "storing"
  /\ starts' = [starts EXCEPT ![s].pc = "done"]
  /\ UNCHANGED <<tables, uploads, deletions, removal>>

StartDiscards(s) ==
  /\ starts[s].pc = "discarding"
  /\ LET gone == {x \in sessions : x.id = starts[s].session}
     IN  /\ Deletable(gone)
         /\ sessions' = sessions \ gone
         /\ calls' = Unlinked(gone)
  /\ starts' = [starts EXCEPT ![s].pc = "done"]
  /\ UNCHANGED <<account, documents, busy, nextId, uploads, deletions, removal>>

-----------------------------------------------------------------------------
(* The interview and its evaluation.                                       *)

\* A turn holds its session while the model is called ...
TurnBegins(x) ==
  /\ x.status = "in_progress"
  /\ ~Held(x)
  /\ busy' = busy \cup {[session |-> x.id, by |-> "turn"]}
  /\ UNCHANGED <<account, documents, sessions, calls, nextId, uploads, starts,
                 deletions, removal>>

\* ... and a judge reads a finished one without holding it (the inserts that do are in
\* ReportGeneration).
JudgeBegins(x) ==
  /\ x.status = "finished"
  /\ busy' = busy \cup {[session |-> x.id, by |-> "judge"]}
  /\ UNCHANGED <<account, documents, sessions, calls, nextId, uploads, starts,
                 deletions, removal>>

CallEnds(b) ==
  /\ nextId.call <= MaxCalls
  /\ calls' = Logged(b.session)
  /\ nextId' = [nextId EXCEPT !.call = @ + 1]
  /\ busy' = busy \ {b}
  /\ \E status \in {"in_progress", "finished"} :
       sessions' = {IF b.by = "turn" /\ x.id = b.session THEN [x EXCEPT !.status = status]
                    ELSE x : x \in sessions}
  /\ UNCHANGED <<account, documents, uploads, starts, deletions, removal>>

-----------------------------------------------------------------------------
(* Deleting a document.                                                    *)

\* Mutant: any interview in progress that uses the document is overlooked.
NoneInUse(id) == FALSE

InUse(id) == \E x \in sessions : Uses(x, id) /\ x.status = "in_progress"

DeletionChecks(d) ==
  /\ deletions[d].pc = "idle"
  /\ \E document \in documents :
       deletions' = [deletions EXCEPT
                       ![d] = [pc |-> IF InUse(document.id) THEN "done" ELSE "checked",
                               document |-> document.id,
                               known |-> {x.id : x \in sessions}]]
  /\ UNCHANGED <<tables, uploads, starts, removal>>

DeletionCommits(d) ==
  /\ deletions[d].pc = "checked"
  /\ LET gone == {x \in sessions : Uses(x, deletions[d].document)}
     IN  /\ Deletable(gone)
         /\ sessions' = sessions \ gone
         /\ calls' = Unlinked(gone)
  /\ documents' = {x \in documents : x.id # deletions[d].document}
  /\ deletions' = [deletions EXCEPT ![d].pc = "done"]
  /\ UNCHANGED <<account, busy, nextId, uploads, starts, removal>>

-----------------------------------------------------------------------------
(* Deleting the account.                                                   *)

\* Mutant: the calls are deleted after the sessions, when none is linked any more.
LinkedToNone == {}

LinkedCalls == {c.id : c \in {k \in calls : k.session # NULL}}

AccountDeletesCalls ==
  /\ removal.pc = "idle"
  /\ removal' = [pc |-> "calls", doomed |-> LinkedCalls,
                 known |-> {c.id : c \in {k \in calls : Exists(k.session)}}]
  /\ UNCHANGED <<tables, uploads, starts, deletions>>

\* The user row goes, and all that refers to it; the cascade waits for turns.
AccountGoes ==
  /\ removal.pc = "calls"
  /\ \A x \in sessions : ~Held(x)
  /\ account' = "gone"
  /\ documents' = {}
  /\ sessions' = {}
  /\ calls' = {c \in Unlinked(sessions) : c.id \notin removal.doomed}
  /\ removal' = [removal EXCEPT !.pc = "done"]
  /\ UNCHANGED <<busy, nextId, uploads, starts, deletions>>

\* Postgres aborts one of two deletions that wait for each other.
AccountRollsBack ==
  /\ removal.pc = "calls"
  /\ removal' = [pc |-> "done", doomed |-> {}, known |-> {}]
  /\ UNCHANGED <<tables, uploads, starts, deletions>>

-----------------------------------------------------------------------------
Next ==
  \/ \E u \in Uploads : UploadChecks(u) \/ UploadCommits(u) \/ UploadFails(u)
  \/ \E s \in Starts :
       \/ StartLoads(s) \/ StartCommits(s) \/ StartRefused(s) \/ OpeningEnds(s)
       \/ StartStores(s) \/ StartDiscards(s)
  \/ \E x \in sessions : TurnBegins(x) \/ JudgeBegins(x)
  \/ \E b \in busy : CallEnds(b)
  \/ \E d \in Deletions : DeletionChecks(d) \/ DeletionCommits(d)
  \/ AccountDeletesCalls
  \/ AccountGoes
  \/ AccountRollsBack

Spec == Init /\ [][Next]_vars

-----------------------------------------------------------------------------
(* Properties.                                                             *)

\* Rows and requests are well typed, and a call that names a session names one that is
\* there, whenever it was logged.
TypeOK ==
  /\ account \in {"present", "gone"}
  /\ documents \subseteq Document
  /\ sessions \subseteq Session
  /\ calls \subseteq Call
  /\ \A c \in calls : c.session = NULL \/ Exists(c.session)
  /\ busy \subseteq [session : Id, by : {"turn", "judge"}]
  /\ nextId \in [document : Id, session : Id, call : Id]
  /\ uploads \in [Uploads -> Upload]
  /\ starts \in [Starts -> Start]
  /\ deletions \in [Deletions -> Deletion]
  /\ removal \in Removal

\* However many uploads of one document pass the check while none is stored yet, one
\* copy is stored, and what refers to it can tell it from every other row.
NoDuplicateDocuments ==
  \A d, e \in documents : d.content = e.content \/ d.id = e.id => d = e

\* An interview never outlives its resume or its job description, although both were
\* loaded before it was inserted and may be deleted while it runs.
SessionsKeepDocuments ==
  \A x \in sessions : Present(x.resume) /\ Present(x.job)

\* A document deletion never takes an interview in progress that was there when it
\* looked, nor one a turn is being answered for.
DeletionSparesKnown ==
  [][\A d \in Deletions :
       deletions[d].pc = "checked" /\ deletions'[d].pc = "done" =>
         \A x \in sessions \ sessions' :
           ~Held(x) /\ (x.id \in deletions[d].known => x.status = "finished")]_vars

\* With the account everything goes that is linked to it when the deletion begins:
\* its documents, its interviews, and the logged calls of those interviews; and no
\* request still running puts anything back.
AccountLeavesNothingLinked ==
  account = "gone" =>
    /\ documents = {} /\ sessions = {}
    /\ \A c \in calls : c.session = NULL /\ c.id \notin removal.known

\* Deleting the account "permanently removes the user and everything tied to them".
AccountLeavesNothing == account = "gone" => calls = {}
=============================================================================
