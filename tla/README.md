# A formal model of the interview server and its live page

PrepWise (the program in this repository) holds mock job interviews: a user uploads a resume and a job
description, starts a timed interview, answers an interviewer played by a language model, and gets a
report written by a panel of model "judges". This directory holds TLA+ modules that model the server's
own logic and the live interview page that talks to it, TLC configurations that check them on small
instances, and theorems about them that TLAPS checks for every instance.

Paths below are relative to `backend/app/` unless they start with `frontend/`.

## 1. The system

| Component | State it keeps | Operations | Talks to |
|---|---|---|---|
| Interview turns and start (`services/interview_service.py`, `core/session_lookup.py`) | one `interview_sessions` row per interview: status, plan, current phase, transcript, counters, question batches | `start_interview`, `submit_turn` | LLM gateway, question bank, presets; Postgres row locks |
| LLM gateway (`core/llm_gateway.py`, `routes/voice.py`) | `llm_calls`, written on connections of its own | structured calls, tool calls, speech in both directions, streaming, `_log_call` | Gemini, ElevenLabs |
| Gemini client and tool loop (`core/gemini_client.py`, `core/github_tools.py`) | the history of one loop; calls counted per session | `run_tool_loop`, retries | Gemini, GitHub, web search |
| Presets and time budgets (`services/interview_presets.py`, `constants/interview.py`) | none; the plan it makes is stored in the session | list presets, check a request, split the minutes, classify the clock | turns and start |
| Judges and reports (`services/judge_service.py`, `services/report_summary.py`) | `judge_evaluations`, `interview_reports` | generate a report, read the latest, summarise | LLM gateway, the session row (unlocked) |
| Documents (`services/document_service.py`, `resume_service.py`, `jd_service.py`) | `candidate_profiles`, `job_descriptions` | upload, check for duplicates, list, delete with cascade | Gemini client (without the gateway), sessions through foreign keys |
| Accounts, one-time codes and tokens (`services/auth_service.py`, `core/security.py`) | `users`, `email_otps`, `password_reset_otps`, `token_version` | register, verify, resend, sign in (password, Google), reset, delete the account | everything, through cascades |
| Question bank (`services/question_bank_service.py`, `core/embeddings.py`) | a read-only table with vectors | prefetch a pool | start |
| Prompts, PDF, e-mail, external clients, server frame | none of their own (transactions: `core/db.py`) | text, layout, HTTP, start-up | – |
| Live interview screen (`frontend/src/features/interview-chat/`) | the turn being sent, the transcript shown, recorder, playback, clock | send, retry, resend on reconnect, record, speak, leave | `/interview/{id}/turn`, `/voice/*` |
| Browser session and cache (`frontend/src/lib/`) | user and token in `localStorage`, query cache | sign in and out, expiry on 401, fetching again, with one retry | all routes |
| Other screens, component library | rendering state | – | – |

Each request has one database transaction (`core/db.py`), which rolls back if the handler raises. Handlers
are coroutines of one event loop, and several processes may run; what keeps them apart is Postgres.

**What is hard.** Handlers read a row, await a model for seconds, and write back what they computed from
the copy they read. A turn holds a row lock across the wait; starting an interview, generating a report,
uploading and deleting do not. The gateway logs each call on a second connection, whose foreign key check
meets the first one's lock. A model call may fail after part of its work was done (tool calls, four
judges of five). Deletions cascade under requests in flight. Red flags, hints, phases and budgets
accumulate over many turns. One-time codes are looked up in one statement, consumed in another and mailed
after a commit; accounts of an address come, go and come again. Requests hold one of the pool's
connections while they wait for a second. In the browser, responses are lost and answers sent again,
replies wait for their audio, the interview is fetched again by a page beside it or replaced by an error, and the page
may be left while all of this goes on. The complete list,
with lines, is under `hazards` in `PROJECT.json`, together with the properties that would catch each one.

**What makes it correct.**
- Turns: acknowledged turns stay in the transcript, once and in order; counters agree with the
  transcript; nobody is thrown out unwarned; phases follow the plan; finished is final; every request ends.
- Presets: minutes add up, shares are fair, what is offered is accepted, the clock only grows more urgent.
- Reports: stored evaluations and reports correspond exactly, each is of the whole interview, failures
  leave nothing, readers never go back in time, scores respect weights, penalties and caps.
- Documents: no duplicates, no interview without its documents, deletions take what they may and no more.
- Accounts: one per address; session tokens end with a password reset; registrations and reset codes neither
  come over an account nor survive it; what is mailed is stored.
- Gateway: every call through it is logged, with or without success, but for a tool round that raises; tool calls are paired with responses; an interview
  keeps one voice; every request ends although all compete for connections.
- Live page: an answer is doubled only when its response was lost; what is shown was taken and stays shown while the
  interview is, but for what arrives late; only the last message asked for, or the greeting, is heard; the microphone is
  let go.

## 2. Modules

| Module | Lines of code it stands for | Role |
|---|---|---|
| `InterviewTurns` | `interview_service.py`, `session_lookup.py`, `llm_gateway._log_call`, `models/interview_session.py` | the core: one session and all that writes it |
| `InterviewLifecycle` | – (abstract) | what a session promises its candidate |
| `InterviewTurnsRefinement` | – | the refinement mapping from the first to the second |
| `InterviewTurns_proofs` | – | theorems about `InterviewTurns`: types, locks, flags, the GitHub budget |
| `InterviewTranscript_proofs` | – | theorems about what it stores, and the refinement |
| `InterviewPresets` | `interview_presets.py`, `constants/interview.py`, `phase_time_status` | plan, budgets and clock |
| `ReportScoring` | `judge_service.py` (scores) | arithmetic of one report |
| `Algorithms_proofs` | – | theorems about `InterviewPresets` and `ReportScoring` |
| `ReportGeneration` | `judge_service.py` (transactions), `routes/interview.py` | report requests beside turns, readers and deletion |
| `ReportGeneration_proofs` | – | theorems about `ReportGeneration` |
| `AuthAccounts` | `auth_service.py`, `routes/auth.py`, tokens of `security.py` | the account of one address: codes, sign-in, resets, deletion |
| `AuthAccounts_proofs` | – | theorems about `AuthAccounts` |
| `LlmGateway` | `llm_gateway.py`, `gemini_client.py`, `routes/voice.py`, the pool of `db.py`, the extraction of uploads | requests, model calls, tools, voices and the log |
| `LlmGateway_proofs` | – | theorems about `LlmGateway` |
| `InterviewScreen` | `frontend/src/features/interview-chat/`, `useInterview`, `ReportPage` (its fetch) | the live page: answers, transcript, voice, microphone |
| `InterviewScreen_proofs` | – | theorems about `InterviewScreen` |
| `InterviewRecords` | documents, start, deletion of documents and account, `llm_calls` | the tables of one account across requests |
| `InterviewRecords_proofs` | – | theorems about `InterviewRecords` |
| `MCInterviewTurns`, `MCAlgorithms`, `MCReportGeneration`, `MCInterviewRecords`, `MCAuthAccounts`, `MCLlmGateway`, `MCInterviewScreen` | – | constants, symmetry, the union of the two sequential modules (`MCAlgorithms`) and a bound (`MCInterviewScreen`) |

Definitions whose comment begins with "Mutant" are plausible bugs in the definition after them. Nothing
uses them; substituted for the real one they make a property fail, which shows that the property depends
on that piece of code. `PROJECT.json` pairs each property with one.

### InterviewTurns
Each `POST /interview/{id}/turn` is a handler `h` with a program counter:

| Action | Code |
|---|---|
| `TurnArrives` | the route is called; the session may be any state |
| `TurnLocks` / `TurnRejected` | `get_interview_session_or_404(..., for_update)`, status check, batch selection, time status and GitHub availability, all before the first await of the model |
| `ModelAnswers` / `ModelFails` | the tool loop and the structured call; verdict and number of tool calls are free |
| `TurnLogs` | `_log_call` on its own connection: it needs the session row FOR KEY SHARE, which the turn's FOR NO KEY UPDATE lets through |
| `TurnCommits` | red flags, hint, transcript entry, advancing the phase, in the code's order, and the commit |
| `TurnRollsBack` | the exception, of the model call or of the commit: batch and tool call count are lost, `githubSpent` (a history variable) is not |

`StartCreates`, `OpeningSucceeds`, `OpeningFails`, `StartStores`, `StartDiscards` are the start request with
its two commits. The second commit is outside the `try`, and may fail (`StartStoreFails`; `startPc` is then `"unstored"`).
So may the discard (`StartDiscardFails`): its DELETE uses the same database session without a rollback, in a transaction
that a failed prefetch has aborted or on a connection the prefetch still uses. Both leave the row as the first commit
wrote it. `overwritten` (history) are the turns answered before the opening was stored over them. `OwnerDeletes` is the cascade from a deleted account (or document), `PhaseOverruns` the
clock passing 1.5 times a phase's budget, `Crash` the end of the process at any point. `row` is the
committed row, `work[h].row` the handler's in-memory copy: the two are separate, so a lost update can happen
in the model wherever it can in the code. Texts are left out; an exchange keeps the turn's number, phase,
flag, hint and notice. Question batches are sets of pool positions. Sessions share no state in these
requests, so one row is enough. `EarlyTurns` says whether a client may post a turn before the start
request has answered (the row is committed and listed by then, so it can; the shipped screen does not).

### InterviewPresets and ReportScoring
The constants are the program's own. Shares are exact rational arithmetic (whole part and remainder), the
elapsed time is counted in tenths of a minute, and looked at when a turn arrives, as `submit_turn` does: `Pauses` are the times from one
turn's arrival to the next one's, or from the phase's beginning to its first (a turn that fails is part of the pause). `turn`
is what the turn being served has found out, which its reply is held to however long the model takes; scores are counted
in hundredths as the columns store them. Where
Python's `round` of a floating point value can go either way at a tie, `Nearest` allows both. Both modules are
small state machines so that histories (a phase's clock, five judges one after another) can be
stated about. What the code computes by a loop is written without recursion where it can be, so that it
can be proved about: a plan's n-th phase is the wanted one that n - 1 wanted ones come before, the
leftover minutes go to the phases by their rank, sums are over the seven phases or five judges there
are, and a phase with n hints is charged for each level up to n.

### ReportGeneration
A report request begins its transaction, loads the session without a lock, calls each judge with material,
flushes one evaluation each (the first insert takes a key share lock on the session row, hence `Holders`),
commits evaluations and report together, and reads them back. `created_at` is Postgres' `now()`: the
time the transaction began. Turns, readers and the deletion of the session run in between.

### InterviewRecords
The tables of one account with their foreign keys (`CASCADE` and `SET NULL`), the unique constraint on
content, and every request that looks in one statement and writes in another: uploads, starts, turns and
judges with their logged calls, document deletions, and the deletion of the account.
The duplicate check and the constraint are both there; `Held` and `removal.doomed` say whom Postgres makes
wait.

### AuthAccounts
Handlers are slots, each serving one request after another. `Register`, `VerifyOtp`, `ResetPassword` and the
others are the endpoints' steps, as `routes/auth.py` has them. A request looks (`RegisterLooks`,
`VerifyLooks`, `ForgotLooks`, ...), and writes in a later step (`RegisterCommits`, `VerifyFlushes` then
`VerifyCreates` or `VerifyUpdates`, ...), so any other request fits in between. Three facts of the code
shape it:
- SQLAlchemy's autoflush sends the update of `is_used` before `verify_otp_and_create_user` queries the user:
  the code row is locked from then on (`LockedFor`), and a second verification waits and fails.
- `is_verified` is true of every row that is ever inserted, so the branches on it cannot be taken.
- A resend changes the newest unused row in place (`ResendCommits`): code and time are new, the row is not.

`births`, `era` and `asked` are history: which account of the address a registration or a token belongs to.
The version of a token is what the code compares; `issued` is what the properties compare. Mail is sent after the
commit, as a step of its own. Refused requests (a wrong or expired code, a weak or reused password)
change nothing and have no action. Expiry of a code is the same as its never being used; expiry of
the reset token is `ResetTokenExpires`.

### LlmGateway
A request waits for a connection, loads what it needs, makes its model calls, and after each of them waits for a
second connection to write the log row. `Kinds` are a structured call (start, judge), a turn with
GitHub tools, a synthesis (ElevenLabs, then Gemini), a transcription, and the extraction of an upload, which calls the Gemini
client itself (`resume_service.py`, `jd_service.py`) and has no log row (`PrepareExtraction`, `ExtractionCall`). Failures are those the clients
classify: network, server, rate limit, rejected, unexpected; `Status` is what the exception handlers make of
them. A turn's loop (`RoundCall`, `AfterRound`, `Dispatch`, `EndRound`) keeps the history as a
sequence of model and user entries, each with the names called; a name may be one the model invented.
A round that raises ends the request without a row (`RoundFails`). `made` and `lost` are history: the model calls a request
set out on, and the rows of them that could not be written.

### InterviewScreen
One live interview in the browser, composed with an abstract server that takes or refuses a turn as a whole, as
`InterviewTurns` shows it does. A *view* is one mounting of `InterviewView`: each has its own mutation (`submits[v]`) and
its own player (`speech[v]`), and those of earlier views go on. The page may be left and opened again, and
while the query is in error (`failed`) it shows `ErrorState` instead of the interview, which unmounts the view
with the answer, the recording and the speech it holds (`Shown`, `Unmount`).

The query library (TanStack Query) is modelled from its use: a mutation is not sent while offline, its callbacks are
those of the last rendering (`Rendered`), data never becomes stale but by an invalidation, a failed fetch is
retried once and then keeps the data but puts the query in error, `setQueryData` ends the error but
does not cancel a fetch under way, and the cache outlives the page. A fetch is handled by the server
(`FetchHandled`) some time before its answer arrives (`Fetched`), so an older interview can be put over a newer one. It is begun
by a 409, by opening the page or coming online when the data are stale, by `ErrorState`'s button, and by
the report page (`OpenReport`), which shares the query.

The greeting is due when the voice is on and nothing but the opening was said; its audio is loaded on mounting and
played when it comes (`GreetingArrives`), whatever was stopped or recorded meanwhile: it is the one clip that is not
compared with what was asked for last. `VoiceOff` and `VoiceOn` keep it back and make it due again.
`Granted` and `GrantedLate` are `getUserMedia` answering while the composer is still there or no longer.
`givenUp`, `replies`, `greetings` and `astray` are history and name the exceptions the properties make.

## 3. Runs

| Run | Question | Bounds | Distinct states |
|---|---|---|---|
| `turns` | Do acknowledged turns survive, do red flags, phases, clocks, hints, question batches and the GitHub budget work over an interview, and does the model implement `InterviewLifecycle`? | 2 handlers, 4 turns, plans of 1 and 2 phases, threshold 1, pool of 0 to 2 with batches of 1, budget 1 with up to 2 calls a turn, failures, crashes | 2 917 000 |
| `turns_live` | Is every request answered, and what may be lost, with turns allowed during the opening? | 2 handlers, 3 turns, failing commits and discards, fairness, no crashes | 13 600 |
| `algorithms` | Are plans, clocks and scores right? | every preset, durations 1 to 42 (beyond every one offered), pauses of 0.3, 2.6 and 17 minutes; every prefix of a plan, 3 scores per judge, hint counts 1 and 4 | 81 000 |
| `reports` | Do overlapping report requests, readers, turns and a deletion leave the tables whole? | 2 generators, 1 reader, all 5 judges, 2 turns | 538 000 |
| `records` | Do uploads, interviews and deletions respect each other? | 3 uploads (2 contents), 2 starts, 1 document deletion, 1 account deletion, 3 logged calls | 968 000 |
| `accounts` | Do registrations, codes, sign-ins, resets and deletions of one address respect each other? | 2 requests at once, any number one after another; 2 accounts, 3 codes, 3 creations and resets | 2 980 000 |
| `gateway` | Are calls logged and paired, is one voice kept, does every request end? | 3 requests on 2 connections, uploads among them, 2 rounds, 2 tool calls, 1 tool and 1 invented name, fairness | 756 000 |
| `screen` | What do lost responses, late replies, late and failing fetches, late audio, the greeting and a late microphone do? | 2 views; 2 answers in 3 posts without voice, or 1 answer with 3 clips and 1 microphone request, or 1 clip and 2 | 8 476 000 |
| `turns_early_lost`, `turns_crash_start`, `records_outlive`, `screen_unsaved` | violations, see section 5 | smaller | – |

**Why the bounds are enough.**
- Two handlers: the lock serialises turns, and a third waiter behaves like the second. The theorems below hold for any number.
- Four turns reach warning and ending with one unflagged turn to spare (threshold 1 needs two flags), and
  the end of both phases after a rejected, failed or crashed turn.
- A pool of two with batches of one gives both a batch in each phase and an exhausted pool. A prefetch that fails
  fails the opening (`OpeningFails`), and with it, it may be, the discard (`StartDiscardFails`).
- The verdicts of `turns` are a flag, or any of a hint and an end of the phase: the two meet in one interview, in
  different turns.
- One call of budget and two per turn is the smallest setting in which a turn overshoots.
- Presets and durations are exhaustive. The pauses are turns within seconds, within minutes, and after a long answer: 17
  minutes are more than 1.5 times many budgets, so a phase is taken from comfortable to its forced end in one step,
  and the shorter ones take it through every stage. A phase's clock ends by itself at its forced end. Scores are the ends of the scale and the value one hundredth below the
  bar for a strength, so that all comparisons occur; 4 hints is one more than the levels charged.
- Two generators and a reader overlap in every order; a third generator adds no new relation between two reports.
- Three uploads of two contents give a race for one content beside a second document; two interviews
  give one in progress and one finished; one deletion races the other requests. Ids are not reused, so three
  logged calls suffice for one before, one between and one after each deletion step.
- Two account requests at once interleave every pair of handlers at every step; the hazards are all of two. Two
  accounts give one deleted and made again; three codes an old, a newest and a resent or reset one; three eras a
  creation and two resets, or two creations and a reset. The theorems hold for any number of each.
- Three requests on two connections: two can hold both and wait for a third, which is the case the pool's
  timeout is for; two of them may be syntheses. Two rounds end the loop by its limit and before it.
- Two views give one gone and one shown; two answers in three posts give a resend of one and a first send after it; three
  clips are a message asked for, the greeting and a reply; two microphone requests one over another. A recording only
  holds an answer back, and voice and microphone do not depend on how many answers there were, so
  `Bounded` (`MCInterviewScreen`) explores many answers without voice and one answer with it. The theorems hold without it.

Symmetry is used for interchangeable requests, and only in runs without liveness.
Deadlock checking is off in every run: clients may stop asking, and each request ends once. What must not
get stuck is stated as liveness instead (`EveryRequestEnds` of the turns and of the gateway).

**Fairness** (`InterviewTurns!Fairness`). Weak fairness on the model's answer or failure (the client has
a timeout and bounded retries), on the log write and on commit or rollback (the event loop runs every ready
coroutine). Strong fairness on what waits for the row lock, a turn's look at the row and the start request's second commit
or discard, in success or failure: others may take it in between, but Postgres
queues waiters, so none is passed over for ever. Nothing is assumed of the outside world: nobody has to
post a turn, let a phase overrun, delete an account or crash. The run has no crashes because a
dead process answers nobody by definition.

`LlmGateway!Fairness` is weak fairness on a request's next step once it has arrived. A provider's client
has a timeout; the pool's wait for a connection has one too (`PoolTimesOut`), so a step of a waiting request stays
enabled; the event loop runs what is ready. Whether the connection or the timeout comes is left open. Nobody has
to send a request.

`InterviewScreen!FairSpec` adds that a fetch that is asked is answered or given up; only the violation `screen_unsaved` uses it.

## 4. What the checks show
- **The read-await-write of a turn is safe** (`SnapshotIsCurrent`), and therefore turns are serial,
  counters match the transcript and phases walk the plan. The lock *mode* matters: with `FOR UPDATE` in the place of
  `FOR NO KEY UPDATE` each turn would wait for its own log row and never end (the mutant of `EveryRequestEnds`).
- **Crashes and failures of a turn** leave the committed row untouched; those of the start request leave a session behind
  that cannot be loaded (section 5).
- **Whoever posts when**, the only answered turns that are lost are those the start request stored its opening over
  (`LaterTurnsKept`), and a finished interview is changed by nothing but that commit, which replaces its transcript and pool, and its
  deletion (`FinishedIsFinal`). `BatchesSettled` says that a phase's questions are drawn once and for it alone.
- **The warning rule is exact** (`WarnedAtThreshold`): a warning, in an earlier reply, before anybody is ended
  for accumulated flags.
- **The GitHub budget is a soft limit**: it is looked at once a turn, so it is exceeded by less than one turn's calls
  (`GithubOvershootBounded`); calls of a turn that failed are never charged.
- **The server is the refinement of a simple life cycle** as long as turns come after the start has answered
  (`ImplementsLifecycle`); that no answered turn is lost is one of the things the life cycle promises.
- **However turns are spaced**, a phase's turns are told of growing urgency, a forced end comes only with a reply that
  was itself told to wrap up, and no reply past 1.5 budgets leaves its phase open (`UrgencyEscalates`). Stages may be skipped:
  that reply may be the first to be told (section 5).
- **Reports are all or nothing** (`EvaluationsAreReported`), of complete interviews (`JudgedInFull`; the late second commit of a
  start request is not modelled beside a report, see section 7), and do
  not outlive their session (`NothingOutlivesSession`), all without a lock held while judging.
- **Constraints, not checks, carry the record invariants**: the duplicate check and the in-use check both
  race, the unique constraint and foreign keys do not.
- **Tokens follow resets** (`TokensFollowResets`) with two exceptions, which the property names: two resets that overlap
  write the same version, so a token of the first survives the second; and a Google account that is deleted and
  made again has its old id and version 0, so its old tokens are good again.
- **A registration left behind stays harmless** (`NoRegistrationOverAccount`, `TakenCodesStayDead`): one that can be
  verified although the address has an account by now was asked for before there was one, and nothing that the deletion
  of an account took comes back, even through a verification that had already loaded it.
- **Mail never announces what was not stored** (`MailedCodesAreStored`), because it is sent after the commit.
- **Every model call leaves its log row** (`CallsAreLogged`, which counts calls made against rows and lost writes), but for
  one still pending and for the two kinds of call the code has no row for: an upload's extraction, which does not pass the gateway, and a
  round of tools that raises (section 5). **Every function call of the history has its response**
  (`HistoryPaired`), also for a name the model made up; **one voice per interview** (`OneVoice`) but for first syntheses
  that overlap and for log rows that were lost. Two connections and three requests come to an end only because waiting
  for a connection has a timeout (`EveryRequestEnds` of the gateway).
- **An answer is sent again only if its response was lost** (`SentAgainOnlyIfLost`): an answer is in the
  transcript once, and once more at most for each post of it that was given up without the server's answer. The server has
  no key to recognise it by.
- **What the page shows is never ahead of the server**, and stays shown as long as the interview is on the screen, with two
  exceptions that `ShownStays` names: the late reply of an earlier view replaces newer turns, and so does a fetch that the server
  handled before it took the last turn. When the query is in error, the interview goes from the screen as a whole.
- **What is heard** is the message last asked for, the reply after it, or the greeting if nothing was asked for since it came
  (`SpeechIsCurrent`). The greeting alone may begin after playback was stopped, also over a recording. **The microphone
  is released** (`MicReleased`), except when it is granted too late.

## 5. Disagreements between the code and what it says of itself
Shown by a run that violates a property:
1. `turns_early_lost`: a turn answered while the opening is being generated is overwritten by
   `start_interview`'s second commit (`NoAnsweredTurnLost`).
2. `turns_crash_start`: a crash between its two commits leaves an interview in progress with an empty
   transcript, which the resume endpoint cannot load (`ResumableOnceStarted`). No crash is needed: the model also reaches this state
   when the second commit fails, and when the opening fails and its discard does too. That happens when the prefetch's query is what
   failed (`services/question_bank_service.py:36`; the transaction is aborted and the DELETE refused), or when the company research
   failed and `asyncio.gather` left the prefetch running on the same `AsyncSession`. `tests/services/test_interview_service.py:1224`
   (`test_start_interview_removes_the_session_when_the_opening_fails`) uses a database that cannot fail.
3. `records_outlive`: logged calls whose link was cut before the account was deleted, or which were logged
   meanwhile, stay after it (`AccountLeavesNothing`). What does hold is `AccountLeavesNothingLinked`.
4. `screen_unsaved`: an answer whose connection was lost is "saved here, retry to send it"
   (`InterviewChatPage.tsx:192`), and is gone when a fetch under way fails and the error takes the place of the interview that
   holds it (`LostAnswerIsSaved`). The reconnection that would have sent it finds no view that has it.

`PROJECT.json` has the lines and quotes.

Met while modelling, built into the models and named as exceptions of their properties, without a run of their own
(paths under `src/backend/app/` or `src/frontend/src/features/interview-chat/`):
- The "most recently generated" report (`services/judge_service.py:344`) is the one whose transaction began last
  (`:353`), not the one generated last.
- An interview started between the in-use check of a document's deletion (`services/document_service.py:63`) and the
  deletion itself (`:86`) is deleted in progress.
- A resend changes the newest code row in place (`services/auth_service.py:364`), while `models/email_otp.py:12-14` calls
  the table insert-only.
- Overlapping resets write the same `token_version` (`services/auth_service.py:491`), so a token issued between them is
  not invalidated, as the comment at `:469-471` says every one is; a reset code can be
  exchanged by two overlapping checks; a reset token can be used again until it expires.
- A failed round of the tool loop is not logged (`core/gemini_client.py:252` raises before `on_round`), while
  `core/llm_gateway.py:78` says every gateway call is, "success or failure". Uploads call the Gemini client directly
  (`services/resume_service.py:105`, `services/jd_service.py:99`) and log nothing, while `models/llm_call.py:11-12` says that "every agent call
  (Interviewer, Judges, extraction) logs here".
- A phase that overran is ended by force "despite the wrap-up instruction" (`services/interview_presets.py:106-107`), but the clock is read
  once a turn (`services/interview_service.py:328`): after one long answer the first turn that is told to wrap up is
  also the phase's last.
- "Kept to one voice per interview" (`core/llm_gateway.py:463`) does not hold for first syntheses that overlap.
- The answer that is sent again on reconnection (`InterviewChatPage.tsx:74-77`), or with Retry, may already have been
  taken by the server: it is then in the transcript twice.
- The mutation of a page that was left writes its reply over turns that a later opening has loaded
  (`InterviewChatPage.tsx:57`), and plays it.
- A fetch of the interview that the server handled before a turn arrives after the turn's reply was shown, and takes
  it off the screen (`frontend/src/lib/queries.ts:42`; the report page fetches the same query).
- The greeting is played when it comes, although playback was stopped or a recording begun meanwhile
  (`InterviewChatPage.tsx:104`).
- A microphone granted after the composer is gone, or over another request, is not released; two recorders
  that overlap collect into one list of chunks (`useVoiceRecorder.ts`).

## 6. What is proved

All theorems hold for every value of the constants under the modules' named assumptions, which TLC also
evaluates in each run. Each proof is three facts (initial, step by action, consequence) and one temporal step; each
`IInv` (or its parts) was checked with TLC before.

`InterviewTurns_proofs` (from `ActorsAssumption`, `PlansAssumption`, `LimitsAssumption` and
`EnvironmentAssumption`; plans without repeated phases, limits natural numbers, a positive
threshold):
- `TypeCorrect`: `Spec => []TypeOK`.
- `TurnsAreSerial`: `Spec => []SnapshotIsCurrent`. It is not inductive alone. `LockInv` adds that a lock is
  only held by a turn that is past it (so that it is always given back by the one who has it), that there is no
  row before the start request, and that a row's current phase is in its plan. Every other writer waits for
  `RowFree`, so while a turn is past the lock nothing but the turn itself changes the row.
- `WarningPrecedesEnd`: `Spec => []WarnedAtThreshold`. It is about the *committed* row, while the rule
  is applied to the handler's copy; `SnapshotIsCurrent` connects the two.
- `GithubOvershoot`: `Spec => []GithubOvershootBounded`. `GithubInv` adds what a turn in flight will charge:
  it has tools only if the budget was not used up, and the calls it holds were made and are not yet charged.
- `Invariance`: `Spec => []IInv`.

`InterviewTranscript_proofs` (from the same assumptions; with further invariants on top of `IInv`):
- If clients wait for the start request's answer (`~EarlyTurns`): `TranscriptWalksThePlan`, `OverrunPhaseCloses`,
  `CountersAreTallies`, `AnsweredTurnsAreKept`, from `TranscriptInv`, which says of the stored row that its
  transcript has walked the plan up to the row's phase (`Walked`), that its counters are those of the transcript
  (`Tallied`), that before the start has answered there is nothing to lose, and that the transcript is the opening
  followed by the turns acknowledged (`Keeps`). `TurnsInv` keeps the turns in flight apart from those.
  `TurnCommitsGrows` is the lemma all of it rests on: the row a turn commits is the *stored* row grown by one
  entry, although it is computed from a copy; it needs `SnapshotIsCurrent`.
- `LifecycleImplemented`: `Spec => ImplementsLifecycle` under the same hypothesis, one lemma per kind of step: the creation, the
  opening, a turn's commit and a deletion are steps of the life cycle, everything else stutters.
- With no such hypothesis, crashes and failing commits included: `LaterTurnsStay` (`LaterTurnsKept`, by `LaterInv`: what is stored
  has been acknowledged, and what has been acknowledged since the opening is stored), `FinishedStays` (`FinishedIsFinal`) and
  `BatchesAreSettled` (`BatchesSettled`).

The hypothesis is not for the prover's sake: without it `turns_early_lost` violates `NoAnsweredTurnLost`. `turns` runs
under it, `turns_live` does not.

`ReportGeneration_proofs` (from `JudgesAssumption`, `RequestsAssumption`, `MaxTurnsAssumption`; finitely many
requests of two kinds, judges in a fixed order without repetition):
- `EvaluationsReported`, `FullyJudged`, `NothingOutlives`, `ProgressSeen`, `AnswersWhole`: the five properties of the run.
- `JudgingInv` carries them: a judging request has read a finished interview, which is what it was until it is gone; its
  evaluations are those of the judges with material it has passed, in order; and once it has one, the session
  cannot be gone. The last judges are passed when it commits, so the report is complete and, as the attitude
  judge always has material, not empty: this is why no report is committed for a deleted session.
- `IdsInv`: no two evaluations, stored or in a transaction, have one id. `BegunInv` and `ReportsInv`: who had ended before
  whom, and that an answered request's report is stored under the number of its beginning.
- `ReadingInv`: until the session goes, the report a request is about to read is stored; so an empty answer is that of a
  session deleted meanwhile, and any other shows every evaluation the report was committed with, in the judges' order.

`Algorithms_proofs` (the scores from `RawScoresAssumption` and `HintCountsAssumption`; the presets from `DurationsAssumption` and `PausesAssumption`; for any durations requested,
scores, hint counts and phases reached):
- `MinutesAreShared`: `BudgetsAreShares`. `Ranking` shows that in any order of a finite set k members have
  a rank below k; `Leftover` that the minutes left over are fewer than the phases with a fraction, so that handing them
  out by rank hands out each exactly once; `LargestFirst` that a phase which weighs more is never passed over for one that weighs less.
- `PlanFollowed`: what a session has is the plan and the split of the request it was accepted with. `Presets` is the one
  place that goes through the presets: each has phases, and none of
  its durations has fewer minutes than its phases weigh together. A preset with nothing left for a job without coding is
  neither offered for it nor accepted.
- `OffersAccepted`: `OfferIsAccepted`. `UrgencyGrows`: `UrgencyEscalates`, for any pauses between turns, from `ClockInv`: each stage told is
  the clock's at a time that is past, and an open phase has not used 1.5 times its budget; that begins with a
  budget of at least one minute.
- `ScoresKeepRules`, `OverallEarned`: `OverallIsEarned`. The attitude judge is never skipped (`Judged`), so the weights left
  are not zero; a rounded weighted mean above (below) all scores would be above (below) their mean by a half.

`InterviewRecords_proofs` (from `KindAssumption` and `BoundAssumption`):
- `TypeCorrect`, `DocumentsUnique`, `SessionsComplete`: typing with no dangling link, `NoDuplicateDocuments`,
  `SessionsKeepDocuments`. They need `Fresh` (ids are below their sequence).
- `AccountRemoved`: `AccountLeavesNothingLinked`, with `Doomed`: what was linked when the deletion began
  is among what its first statement deleted, and the account is gone only once its deletion is done.
- `KnownSpared`: the action property `DeletionSparesKnown`, from `DeletionInv`: session ids tell sessions
  apart, turns are in interviews in progress, and an interview a deletion has counted as finished
  stays finished, since no action takes a session back to in progress.

`AuthAccounts_proofs` (from `BoundsAssumption`), all six properties of the run:
- `TypeCorrect`, `TokensFollow`, `RegistrationsBehind`, `MailStored`, `NoCodesLeft`, `TakenStayDead`.
- `CodesInv` and `BirthsInv` say which registrations there can be at which creation of the account, `TokensInv` that the
  versions of tokens are those of resets that have happened, `LocksInv` that a code row a verification has flushed is
  changed by nobody else, `LeftoverInv` what a deletion has claimed and not yet deleted, `MailInv` that what is about to be
  mailed has been stored.

`LlmGateway_proofs` (from the module's assumptions; any number of requests, connections, rounds, tools and calls):
- `CallsLogged`: `LogInv` counts a request's rows in the log against the calls it has made, less the writes that were lost and the call
  that is pending or has no row; `FreshInv` that before its first call it has made none.
- `HistoriesPaired`: `LoopInv` says that a history is as many pairs of calls and responses as there were rounds,
  that in a round being dispatched the calls still to make continue the responses made, and that the
  calls counted are those of tools that exist among them.
- `OneVoiceKept`: `SpeechInv` traces the voice a request found in the log to a request that had found none.
- `Invariance`: `IInv`, these with the types.

`InterviewScreen_proofs`:
- `ShownTurnsStay`, `SpeechCurrent`, `MicrophoneReleased`, `AnswersSentOnce`: the action property and the invariants of the page.
- `PostsInv` and `TurnsInv` say that a reply in flight is one the server gave, `SpeechInv` which player may hold which clip,
  `MicInv` which stream belongs to which recorder, `FetchInv` that what is being fetched was taken, however old it is.
- `OnceInv` carries `SentAgainOnlyIfLost` by counting: the copies of an answer the server has or may still get are at
  most one more than the requests with it that were given up, and no more than those while it waits to be sent or
  sent again. `OwnersInv` says that an answer and a post belong to one view, so that no other response settles it.

**Only model-checked**: liveness, `EveryRequestEnds` of the turns and of the gateway, since fairness and ENABLED are
outside what the prover does. Every invariant and action property of the passing runs is proved. Of the properties the
violation runs refute, `NoAnsweredTurnLost` is proved under the hypothesis above; the others do not hold. No proof needs induction over data: the
filters, sums and loops the theorems are about are written as sets and ranks (section 2).

## 7. What is not modelled
- Text: prompts, replies, evidence, strengths and findings of a report, the PDF, e-mail. They have no influence on
  the control modelled.
- The vector search of the question bank: a database query; its result is any pool up to the limit.
- The extraction of a document's content: success or failure.
- The second commit of a start request over an interview that early turns have finished is modelled with the turns, not
  beside reports: `JudgedInFull` is about interviews whose start has answered.
- Bodies of external clients: HTTP with a timeout; failure is a choice at each use.
- Streaming of a model's text (`stream_text`): nothing calls it.
- Several sessions at once: they share only the connection pool (`LlmGateway`) and the documents (`InterviewRecords`).
- Accounts: changing the preferred name, and requests that are refused and change nothing.
- The browser's session: which token it keeps, signing in and out, what it does with a 401. Of the live page: the gradual
  reveal of the greeting, the transcription of a recording, the phase clock, and a reload of the page or the eviction of its
  cache after a long absence, after which it starts as at first.
- The other screens (setup, documents, reports, settings) and the component library: forms and lists over the same
  endpoints.

## 8. Plan

Every component that is modelled has its proofs. Left, in order:

1. The browser's session: the token it stores, a 401 for a token from before a reset, sign-out in another tab.
2. The tool loop of `LlmGateway` shown to refine the single model step of `InterviewTurns`, and the page's server
   (`InterviewScreen`) to be implemented by its turns.
3. The late second commit of a start request beside a report that judges the interview.
