-------------------------- MODULE InterviewScreen --------------------------
(***************************************************************************)
(* The live interview in the browser: answers sent, lost and sent again,   *)
(* the transcript on the screen, the interviewer's voice and the           *)
(* candidate's microphone.  The page may be left and opened again while    *)
(* all of these are under way; what it had begun goes on.                  *)
(* (frontend/src/features/interview-chat: InterviewChatPage.tsx,           *)
(* interviewTranscript.ts, Composer.tsx, useVoiceRecorder.ts,              *)
(* useSpeechPlayback.ts)                                                   *)
(*                                                                         *)
(* A turn is the number of its answer.  The server takes a turn as a whole *)
(* (InterviewTurns), whether or not the browser still waits for it.        *)
(***************************************************************************)
EXTENDS Integers, SequencesExt

CONSTANTS
  MaxViews,     \* bound: times the interview is put on the screen
  MaxAnswers,   \* bound: answers composed
  MaxPosts,     \* bound: requests sent with them
  MaxClips,     \* bound: messages to be spoken
  MaxAsks       \* bound: requests for the microphone

ASSUME BoundsAssumption ==
  MaxViews \in Nat \ {0} /\ {MaxAnswers, MaxPosts, MaxClips, MaxAsks} \subseteq Nat

VARIABLES
  \* The server.
  transcript,   \* the turns it has taken
  ended,        \* the interview is over
  requests,     \* posts it has not handled
  responses,    \* what it answered, not yet arrived
  \* The browser.
  online,       \* navigator.onLine
  view,         \* how often InterviewView was mounted; the latest of these views
  open,         \* the page is open
  cache,        \* the interview in the query cache
  stale,        \* invalidated by a 409 or a failed fetch
  failed,       \* the query is in error: the page shows that instead of the interview
  fetch,        \* the interview being fetched again
  submits,      \* the mutation of each view
  answers,      \* answers composed so far
  posts,        \* requests sent so far
  speech,       \* useSpeechPlayback of each view
  loads,        \* messages asked to be spoken, whose audio is being loaded
  clips,        \* numbers the messages to be spoken
  greeting,     \* of the view shown: due, kept back (voice off) or done
  mic,          \* useVoiceRecorder of the composer that is shown
  live,         \* microphone streams that are on
  \* History.
  givenUp,      \* posts that failed in the browser without the server's answer
  replies,      \* clips of replies that arrived
  greetings,    \* clips of greetings that arrived
  astray        \* streams granted to no composer, or over another recording

server == <<transcript, ended, requests, responses>>
page == <<online, view, open>>
shown == <<cache, stale, failed, fetch>>
sending == <<submits, answers, posts>>
voice == <<speech, loads, clips, replies, greeting, greetings>>
microphone == <<mic, live, astray>>
vars == <<server, page, shown, sending, voice, microphone, givenUp>>

Views == 1..MaxViews

\* waiting: pending, the request is not out (paused while offline); post: the request
\* awaited; lost: the error is one of the network; final: the turn ended the interview;
\* seen: what the view showed when it was unmounted.
NoSubmit == [pc |-> "idle", answer |-> 0, post |-> 0, lost |-> FALSE, final |-> FALSE,
             seen |-> <<>>]

\* asked: the message last asked for (0: stopped since); wanted: its audio is awaited
\* (requestRef is still what it was); heard: the clip that plays.
Silent == [asked |-> 0, wanted |-> 0, heard |-> 0]

\* asked: sent, or paused while offline; answered: the interview as it was when the server
\* handled the request.
NoFetch == [pc |-> "none", turns |-> <<>>, ended |-> FALSE]
Asked == [NoFetch EXCEPT !.pc = "asked"]

\* asking: getUserMedia calls of the composer that is shown; orphans: of composers gone.
NoMic == [asking |-> 0, recording |-> FALSE, orphans |-> 0]

Init ==
  /\ transcript = <<>> /\ ended = FALSE /\ requests = {} /\ responses = {}
  /\ online = TRUE /\ view = 1 /\ open = TRUE
  /\ cache = [turns |-> <<>>, ended |-> FALSE]
  /\ stale = FALSE /\ failed = FALSE /\ fetch = NoFetch
  /\ submits = [v \in Views |-> NoSubmit] /\ answers = 0 /\ posts = 0
  /\ speech = [v \in Views |-> Silent] /\ loads = {} /\ clips = 0 /\ greeting = "due"
  /\ mic = NoMic /\ live = 0
  /\ givenUp = {} /\ replies = {} /\ greetings = {} /\ astray = 0

-----------------------------------------------------------------------------
(* The server: the promise of POST /interview/{id}/turn.                   *)

\* Who has given up does not get the answer.
Answers(r, result, final) ==
  IF \E v \in Views : submits[v].post = r.post
  THEN responses' = responses \cup {[post |-> r.post, result |-> result, final |-> final]}
  ELSE UNCHANGED responses

Take(r) ==
  /\ r \in requests /\ ~ended
  /\ transcript' = Append(transcript, r.answer)
  /\ ended' \in BOOLEAN
  /\ requests' = requests \ {r}
  /\ Answers(r, "turn", ended')
  /\ UNCHANGED <<page, shown, sending, voice, microphone, givenUp>>

\* 409 when the interview is over; any other error keeps nothing of the turn.
Refuse(r) ==
  /\ r \in requests
  /\ requests' = requests \ {r}
  /\ Answers(r, IF ended THEN "over" ELSE "error", FALSE)
  /\ UNCHANGED <<transcript, ended, page, shown, sending, voice, microphone, givenUp>>

-----------------------------------------------------------------------------
(* Helpers.                                                                *)

Sends(v) == submits[v].pc \in {"waiting", "posting", "speaking"}

\* InterviewView is mounted: a query in error puts ErrorState in its place.
Shown == open /\ ~failed

\* The composer is shown; without it its recorder is gone.
Composing == Shown /\ ~cache.ended

ReleasesStream == IF mic.recording THEN live - 1 ELSE live

\* Mutant: nothing is cleaned up.
ComposerForgets == UNCHANGED microphone

\* The composer is unmounted: microphone requests under way belong to nobody.
ComposerGoes ==
  /\ live' = ReleasesStream
  /\ mic' = [asking |-> 0, recording |-> FALSE, orphans |-> mic.orphans + mic.asking]
  /\ UNCHANGED astray

\* InterviewView is mounted, without what an earlier view had: its greeting is to be spoken.
Mount ==
  /\ view < MaxViews
  /\ view' = view + 1
  /\ greeting' = "due"

\* The cache gets another copy of the interview, which is shown also in place of an error.
Renders(interview) ==
  /\ cache' = interview
  /\ stale' = FALSE /\ failed' = FALSE
  /\ IF Composing /\ interview.ended THEN ComposerGoes ELSE UNCHANGED microphone
  /\ IF open /\ failed THEN Mount ELSE UNCHANGED <<view, greeting>>

Hush(v) == speech' = [speech EXCEPT ![v] = Silent]

\* InterviewView is unmounted: speech stops and the recorder goes; requests go on.
Unmount ==
  /\ Hush(view)
  /\ IF Composing THEN ComposerGoes ELSE UNCHANGED microphone

-----------------------------------------------------------------------------
(* Answers.                                                                *)

\* Composer.send
Send ==
  /\ Composing /\ ~Sends(view) /\ ~mic.recording
  /\ answers < MaxAnswers /\ posts < MaxPosts
  /\ answers' = answers + 1
  /\ submits' = [submits EXCEPT ![view].pc = "waiting", ![view].answer = answers + 1]
  /\ UNCHANGED <<server, page, shown, posts, voice, microphone, givenUp>>

\* The button below an error.
Retry ==
  /\ Shown /\ online
  /\ submits[view].pc = "failed" /\ posts < MaxPosts
  /\ submits' = [submits EXCEPT ![view].pc = "waiting"]
  /\ UNCHANGED <<server, page, shown, answers, posts, voice, microphone, givenUp>>

\* The query library starts a mutation only while online, also that of a page left.
Post(v) ==
  /\ submits[v].pc = "waiting"
  /\ online /\ posts < MaxPosts
  /\ posts' = posts + 1
  /\ submits' = [submits EXCEPT ![v].pc = "posting", ![v].post = posts + 1, ![v].lost = FALSE]
  /\ requests' = requests \cup {[post |-> posts + 1, answer |-> submits[v].answer]}
  /\ UNCHANGED <<transcript, ended, responses, page, shown, answers, voice, microphone, givenUp>>

Arrive(v, r) ==
  /\ submits[v].pc = "posting"
  /\ r \in responses /\ r.post = submits[v].post
  /\ responses' = responses \ {r}

TurnArrives(v) ==
  /\ \E r \in responses :
       /\ Arrive(v, r) /\ r.result = "turn"
       /\ submits' = [submits EXCEPT ![v].pc = "speaking", ![v].post = 0, ![v].final = r.final]
  /\ UNCHANGED <<transcript, ended, requests, page, shown, answers, posts, voice, microphone,
                 givenUp>>

\* submit.onError: a 409 makes the page that is open fetch the interview (again), which
\* may be the report's.
ErrorArrives(v) ==
  /\ \E r \in responses :
       /\ Arrive(v, r) /\ r.result # "turn"
       /\ submits' = [submits EXCEPT ![v].pc = "failed", ![v].post = 0]
       /\ \/ r.result = "error" /\ UNCHANGED <<stale, fetch>>
          \/ r.result = "over" /\ stale' = TRUE /\ fetch' = Asked
          \/ r.result = "over" /\ stale' = TRUE /\ ~open /\ UNCHANGED fetch
  /\ UNCHANGED <<transcript, ended, requests, page, cache, failed, answers, posts, voice,
                 microphone, givenUp>>

\* The connection breaks, or something in between answers in the server's place.
NoAnswer(v) ==
  /\ submits[v].pc = "posting"
  /\ \E lost \in BOOLEAN :
       submits' = [submits EXCEPT ![v].pc = "failed", ![v].post = 0, ![v].lost = lost]
  /\ givenUp' = givenUp \cup {[post |-> submits[v].post, answer |-> submits[v].answer]}
  /\ responses' = {r \in responses : r.post # submits[v].post}
  /\ UNCHANGED <<transcript, ended, requests, page, shown, answers, posts, voice, microphone>>

\* Mutant: the callback keeps the interview that was rendered first.
AsOpened(v) == submits[v].seen

\* The interview in the callback's closure: that of the last rendering.
Rendered(v) == IF Shown /\ v = view THEN cache.turns ELSE submits[v].seen

\* submit.onSuccess, when the audio has come or will not: appendTurn, setQueryData, play.
Show(v) ==
  /\ submits[v].pc = "speaking"
  /\ Renders([turns |-> Append(Rendered(v), submits[v].answer), ended |-> submits[v].final])
  /\ submits' = [submits EXCEPT ![v].pc = "idle", ![v].final = FALSE]
  /\ \/ /\ clips < MaxClips
        /\ clips' = clips + 1
        /\ speech' = [speech EXCEPT ![v] =
                        [asked |-> clips + 1, wanted |-> 0, heard |-> clips + 1]]
        /\ replies' = replies \cup {clips + 1}
     \/ UNCHANGED <<clips, speech, replies>>
  /\ UNCHANGED <<server, online, open, fetch, answers, posts, loads, greetings, givenUp>>

-----------------------------------------------------------------------------
(* The interview fetched again.                                            *)

FetchHandled ==
  /\ fetch.pc = "asked" /\ online
  /\ fetch' = [pc |-> "answered", turns |-> transcript, ended |-> ended]
  /\ UNCHANGED <<server, page, cache, stale, failed, sending, voice, microphone, givenUp>>

\* The answer may be older than what was shown since.

Fetched ==
  /\ fetch.pc = "answered"
  /\ fetch' = NoFetch
  /\ Renders([turns |-> fetch.turns, ended |-> fetch.ended])
  /\ UNCHANGED <<server, online, open, sending, speech, loads, clips, replies, greetings,
                 givenUp>>

\* Twice in a row (an answer lost once is that of a request handled later): the data stay
\* in the cache, but the error replaces the interview and what its view held.
FetchFails ==
  /\ fetch.pc # "none" /\ online
  /\ fetch' = NoFetch /\ stale' = TRUE /\ failed' = TRUE
  /\ IF Shown
     THEN Unmount /\ submits' = [submits EXCEPT ![view].seen = cache.turns]
     ELSE UNCHANGED <<speech, microphone, submits>>
  /\ UNCHANGED <<server, page, cache, answers, posts, loads, clips, replies, greeting,
                 greetings, givenUp>>

\* ErrorState's button, or the window in focus again.
Refetch ==
  /\ open /\ failed
  /\ fetch' = Asked
  /\ UNCHANGED <<server, page, cache, stale, failed, sending, voice, microphone, givenUp>>

\* The report page shares the query and fetches whenever it is opened.
OpenReport ==
  /\ ~open /\ fetch.pc = "none"
  /\ fetch' = Asked
  /\ UNCHANGED <<server, page, cache, stale, failed, sending, voice, microphone, givenUp>>

-----------------------------------------------------------------------------
(* The connection and the page.                                            *)

GoOffline ==
  /\ online
  /\ online' = FALSE
  /\ UNCHANGED <<server, view, open, shown, sending, voice, microphone, givenUp>>

\* Mutant: what was submitted last is sent again, whatever became of it.
Submitted(v) == ~Sends(v) /\ submits[v].answer # 0

Unsent(v) == submits[v].pc = "failed" /\ submits[v].lost

FetchesIfStale(shows) ==
  IF shows /\ stale /\ fetch.pc = "none" THEN fetch' = Asked ELSE UNCHANGED fetch

\* The page resends the answer; the query library refetches what is stale.
GoOnline ==
  /\ ~online
  /\ online' = TRUE
  /\ submits' = IF Shown /\ Unsent(view) THEN [submits EXCEPT ![view].pc = "waiting"]
                ELSE submits
  /\ FetchesIfStale(open)
  /\ UNCHANGED <<server, view, open, cache, stale, failed, answers, posts, voice, microphone,
                 givenUp>>

Leave ==
  /\ Shown
  /\ open' = FALSE
  /\ Unmount
  /\ submits' = [submits EXCEPT ![view].seen = cache.turns]
  /\ UNCHANGED <<server, online, view, shown, answers, posts, loads, clips, replies, greeting,
                 greetings, givenUp>>

\* ErrorState has nothing to clean up.
LeaveError ==
  /\ open /\ failed
  /\ open' = FALSE
  /\ UNCHANGED <<server, online, view, shown, sending, voice, microphone, givenUp>>

\* The cache is kept while the page is closed, an error with it.
Open ==
  /\ ~open
  /\ open' = TRUE
  /\ IF failed THEN UNCHANGED <<view, greeting>> ELSE Mount
  /\ FetchesIfStale(TRUE)
  /\ UNCHANGED <<server, online, cache, stale, failed, sending, speech, loads, clips, replies,
                 greetings, microphone, givenUp>>

-----------------------------------------------------------------------------
(* The interviewer's voice.                                                *)

\* The messages are not shown until the greeting has come: only it was said so far, the
\* voice is on and this view has not played it.
Pending == Shown /\ cache.turns = <<>> /\ greeting = "due"

\* Its audio comes, or null after ten seconds: it is played then, whatever was asked for
\* or stopped meanwhile; what was asked for will not be played any more.
GreetingArrives ==
  /\ Pending
  /\ greeting' = "done"
  /\ \/ /\ clips < MaxClips
        /\ clips' = clips + 1
        /\ speech' = [speech EXCEPT ![view].wanted = 0, ![view].heard = clips + 1]
        /\ greetings' = greetings \cup {clips + 1}
     \/ UNCHANGED <<clips, speech, greetings>>
  /\ UNCHANGED <<server, page, shown, sending, loads, replies, microphone, givenUp>>

VoiceOff ==
  /\ Shown /\ greeting = "due"
  /\ greeting' = "off"
  /\ Hush(view)
  /\ UNCHANGED <<server, page, shown, sending, loads, clips, replies, greetings, microphone,
                 givenUp>>

VoiceOn ==
  /\ Shown /\ greeting = "off"
  /\ greeting' = "due"
  /\ UNCHANGED <<server, page, shown, sending, speech, loads, clips, replies, greetings,
                 microphone, givenUp>>

\* speak: a message is asked for by its button.
Replay ==
  /\ Shown /\ ~Pending /\ clips < MaxClips
  /\ clips' = clips + 1
  /\ speech' = [speech EXCEPT ![view] =
                  [asked |-> clips + 1, wanted |-> clips + 1, heard |-> 0]]
  /\ loads' = loads \cup {[view |-> view, clip |-> clips + 1]}
  /\ UNCHANGED <<server, page, shown, sending, replies, greeting, greetings, microphone, givenUp>>

\* Mutant: audio is played when it comes.
Whatever(l) == TRUE

Wanted(l) == speech[l.view].wanted = l.clip

\* The audio comes, or null after ten seconds.
Loaded(l) ==
  /\ l \in loads
  /\ loads' = loads \ {l}
  /\ IF Wanted(l)
     THEN \/ Hush(l.view)
          \/ speech' = [speech EXCEPT ![l.view].wanted = 0, ![l.view].heard = l.clip]
     ELSE UNCHANGED speech
  /\ UNCHANGED <<server, page, shown, sending, clips, replies, greeting, greetings, microphone,
                 givenUp>>

\* The clip ends or is refused, an earlier clip's refusal comes late, or the voice is
\* switched off.
Stop(v) ==
  /\ speech[v] # Silent
  /\ Hush(v)
  /\ UNCHANGED <<server, page, shown, sending, loads, clips, replies, greeting, greetings,
                 microphone, givenUp>>

-----------------------------------------------------------------------------
(* The candidate's microphone.                                             *)

AskMic ==
  /\ Composing /\ ~Sends(view) /\ ~mic.recording
  /\ live + mic.asking + mic.orphans < MaxAsks
  /\ mic' = [mic EXCEPT !.asking = @ + 1]
  /\ UNCHANGED <<server, page, shown, sending, voice, live, astray, givenUp>>

\* A stream granted over a recording takes its place in the refs.
Granted ==
  /\ mic.asking > 0
  /\ mic' = [mic EXCEPT !.asking = @ - 1, !.recording = TRUE]
  /\ live' = live + 1
  /\ astray' = IF mic.recording THEN astray + 1 ELSE astray
  /\ Hush(view)
  /\ UNCHANGED <<server, page, shown, sending, loads, clips, replies, greeting, greetings,
                 givenUp>>

GrantedLate ==
  /\ mic.orphans > 0
  /\ mic' = [mic EXCEPT !.orphans = @ - 1]
  /\ live' = live + 1
  /\ astray' = astray + 1
  /\ \E v \in 1..view : Hush(v)
  /\ UNCHANGED <<server, page, shown, sending, loads, clips, replies, greeting, greetings,
                 givenUp>>

Denied ==
  /\ \/ mic.asking > 0 /\ mic' = [mic EXCEPT !.asking = @ - 1]
     \/ mic.orphans > 0 /\ mic' = [mic EXCEPT !.orphans = @ - 1]
  /\ UNCHANGED <<server, page, shown, sending, voice, live, astray, givenUp>>

\* By the button or at max_answer_seconds.
StopRecording ==
  /\ mic.recording
  /\ mic' = [mic EXCEPT !.recording = FALSE]
  /\ live' = ReleasesStream
  /\ UNCHANGED <<server, page, shown, sending, voice, astray, givenUp>>

-----------------------------------------------------------------------------

Submit(v) == Post(v) \/ TurnArrives(v) \/ ErrorArrives(v) \/ NoAnswer(v) \/ Show(v)

Next ==
  \/ \E r \in requests : Take(r) \/ Refuse(r)
  \/ Send \/ Retry
  \/ FetchHandled \/ Fetched \/ FetchFails \/ Refetch \/ OpenReport
  \/ \E v \in Views : Submit(v) \/ Stop(v)
  \/ GoOffline \/ GoOnline \/ Leave \/ LeaveError \/ Open
  \/ GreetingArrives \/ VoiceOff \/ VoiceOn
  \/ Replay \/ \E l \in loads : Loaded(l)
  \/ AskMic \/ Granted \/ GrantedLate \/ Denied \/ StopRecording

Spec == Init /\ [][Next]_vars

\* What was sent is answered, or fails.
FairSpec == Spec /\ WF_vars(FetchHandled) /\ WF_vars(Fetched)

-----------------------------------------------------------------------------
(* Properties.                                                             *)

Copies(a) == {i \in DOMAIN transcript : transcript[i] = a}

\* An answer is in the transcript once, and once more for every request for it that was
\* given up without the server's answer: retrying, reconnecting and leaving the page do
\* not send again what was answered (submit.mutate, the reconnect effect).
SentAgainOnlyIfLost ==
  \A a \in 1..answers :
    Cardinality(Copies(a)) <= 1 + Cardinality({p \in givenUp : p.answer = a})

\* What the page shows was taken by the server.  It does not go away again while the
\* interview stays on the screen (an error of the query takes it away as a whole), unless
\* a reply arrives that an earlier view had waited for (appendTurn over the interview
\* that view last showed), or the answer to a fetch that the server handled before it took
\* what is shown (setQueryData does not cancel a fetch under way).
ShownStays ==
  [][/\ ToSet(cache'.turns) \subseteq ToSet(transcript')
     /\ Shown /\ Shown' =>
          \/ ToSet(cache.turns) \subseteq ToSet(cache'.turns)
          \/ \E v \in 1..view - 1 :
               submits[v].pc = "speaking" /\ submits'[v].pc = "idle"
          \/ fetch.pc = "answered" /\ fetch'.pc = "none" /\ fetch.turns # transcript]_vars

\* What is heard is the message last asked for, or the reply that came after it, or the
\* greeting, if nothing was asked for since it came: it alone is played when it comes,
\* also over a recording.  A view that is gone speaks only a reply it was still waiting
\* for (useSpeechPlayback, the opening effect of InterviewView).
SpeechIsCurrent ==
  \A v \in Views : speech[v].heard # 0 =>
    /\ \/ speech[v].heard = speech[v].asked
       \/ speech[v].heard \in greetings /\ speech[v].asked < speech[v].heard
    /\ (Shown /\ v = view) \/ speech[v].heard \in replies

\* An answer that the connection lost is "saved here, retry to send it": while the page
\* is open, it stays on the screen with its button (InterviewChatPage.tsx, the banner).
LostAnswerIsSaved == [][Shown /\ Unsent(view) /\ open' => Shown']_vars

\* A microphone is on only for a recording that the page shows, but for streams granted
\* when their composer was gone and streams replaced by another: leaving the page, the
\* end of the interview and a stopped recording release it (useVoiceRecorder).
MicReleased == live - astray = (IF Composing /\ mic.recording THEN 1 ELSE 0)
=============================================================================
