----------------------- MODULE InterviewScreen_proofs -----------------------
(***************************************************************************)
(* What InterviewScreen promises, for any number of openings, answers,     *)
(* posts, clips and microphones: an answer is doubled only if a request    *)
(* with it was lost, turns shown are taken and stay on the screen, what is *)
(* heard is what was asked for, and the microphone is released.            *)
(***************************************************************************)
EXTENDS InterviewScreen, FiniteSetTheorems, TLAPS

\* The types: the server, the page with its mutations, the voice and the microphone.
Submission == [pc : {"idle", "waiting", "posting", "speaking", "failed"}, answer : Nat,
               post : Nat, lost : BOOLEAN, final : BOOLEAN, seen : Seq(Nat)]
Speech == [asked : Nat, wanted : Nat, heard : Nat]

ServerOK ==
  /\ transcript \in Seq(Nat) /\ ended \in BOOLEAN
  /\ requests \in SUBSET [post : Nat, answer : Nat]
  /\ responses \in SUBSET [post : Nat, result : {"turn", "over", "error"}, final : BOOLEAN]

PageOK ==
  /\ view \in Views /\ open \in BOOLEAN
  /\ cache \in [turns : Seq(Nat), ended : BOOLEAN]
  /\ submits \in [Views -> Submission] /\ answers \in Nat /\ posts \in Nat

MicOK ==
  /\ mic \in [asking : Nat, recording : BOOLEAN, orphans : Nat]
  /\ live \in Int /\ astray \in Int

VoiceOK ==
  /\ speech \in [Views -> Speech] /\ clips \in Nat
  /\ loads \in SUBSET [view : Views, clip : Nat]
  /\ MicOK

Types == ServerOK /\ PageOK /\ VoiceOK

\* Recording, and asking for it, take a composer.
MicInv ==
  /\ MicReleased
  /\ mic.recording \/ mic.asking > 0 => Composing

\* Audio that is awaited is that of the message last asked for, on the page that is open.
SpeechInv ==
  /\ SpeechIsCurrent
  /\ \A v \in Views :
       /\ speech[v].wanted # 0 => /\ speech[v].asked = speech[v].wanted
                                 /\ speech[v].heard = 0
                                 /\ Shown /\ v = view
       /\ speech[v].asked <= clips

\* A post is awaited by one view only, and with the answer it was sent with.
PostsInv ==
  /\ \A r \in requests : r.post \in 1..posts
  /\ \A r \in responses : r.post \in 1..posts
  /\ \A v \in Views :
       /\ submits[v].post <= posts
       /\ submits[v].pc # "posting" => submits[v].post = 0
       /\ v > view => submits[v].pc = "idle"
       /\ \A r \in requests : r.post = submits[v].post => r.answer = submits[v].answer

Taken == ToSet(transcript)

\* What is shown, was shown or is about to be shown has been taken.
TurnsInv ==
  /\ ToSet(cache.turns) \subseteq Taken
  /\ \A v \in Views :
       /\ ToSet(submits[v].seen) \subseteq Taken
       /\ submits[v].pc = "speaking" => submits[v].answer \in Taken
       /\ \A r \in responses :
            r.result = "turn" /\ r.post = submits[v].post => submits[v].answer \in Taken

\* What is fetched was taken, however old it is when it arrives.
Fetch == [pc : {"none", "asked", "answered"}, turns : Seq(Nat), ended : BOOLEAN]

FetchInv ==
  /\ failed \in BOOLEAN /\ fetch \in Fetch
  /\ ToSet(fetch.turns) \subseteq Taken

\* An answer and a post belong to one view, and a post that was given up to none.
OwnersInv ==
  /\ \A v \in Views :
       /\ submits[v].answer <= answers
       /\ submits[v].pc # "idle" => submits[v].answer # 0
       /\ submits[v].pc = "posting" => submits[v].post # 0
       /\ \A w \in Views \ {v} :
            /\ submits[v].answer = submits[w].answer => submits[v].answer = 0
            /\ submits[v].post = submits[w].post => submits[v].post = 0
  /\ \A r \in requests : r.answer <= answers
  /\ Taken \subseteq 0..answers
  /\ \A p \in givenUp :
       /\ p.post \in 1..posts /\ p.answer \in 0..answers
       /\ \A v \in Views : submits[v].post # p.post

\* How often an answer was taken, and with how many of these requests it was sent.
Times(turns, a) == Cardinality({i \in DOMAIN turns : turns[i] = a})
Count(sent, a) == Cardinality({r \in sent : r.answer = a})

\* Of the copies that the server has or may get of an answer, each is that of a request
\* that was given up, or all but one are.
Settled(a) == Times(transcript, a) + Count(requests, a) <= Count(givenUp, a)
AtMostOne(a) == Times(transcript, a) + Count(requests, a) <= 1 + Count(givenUp, a)

\* Only an answer that is settled is sent, or sent again.
OnceInv ==
  /\ IsFiniteSet(requests) /\ IsFiniteSet(givenUp)
  /\ \A a \in 1..answers : AtMostOne(a)
  /\ \A v \in Views :
       /\ submits[v].pc \in {"waiting", "failed"} => Settled(submits[v].answer)
       /\ \A r \in responses :
            r.post = submits[v].post /\ r.result # "turn" => Settled(submits[v].answer)

IInv ==
  Types /\ MicInv /\ SpeechInv /\ PostsInv /\ TurnsInv /\ FetchInv /\ OwnersInv /\ OnceInv

USE DEF server, page, shown, sending, voice, microphone

-----------------------------------------------------------------------------
(* Lemmas.                                                                 *)

\* A turn appended is one turn more.
LEMMA AppendToSet ==
  ASSUME NEW turns \in Seq(Nat), NEW answer \in Nat
  PROVE  /\ Append(turns, answer) \in Seq(Nat)
         /\ ToSet(Append(turns, answer)) = ToSet(turns) \cup {answer}
<1>1. DOMAIN Append(turns, answer) = 1..Len(turns) + 1 /\ DOMAIN turns = 1..Len(turns)
      /\ Len(turns) \in Nat
  OBVIOUS
<1>2. \A i \in 1..Len(turns) : Append(turns, answer)[i] = turns[i] OBVIOUS
<1>3. Append(turns, answer)[Len(turns) + 1] = answer OBVIOUS
<1> QED BY <1>1, <1>2, <1>3 DEF ToSet

\* Nothing is asked for, awaited or heard.
LEMMA HushType ==
  ASSUME speech \in [Views -> Speech], NEW v \in Views, Hush(v)
  PROVE  speech' \in [Views -> Speech]
BY DEF Hush, Silent, Speech

\* The composer goes by itself, or because the interview that is shown has ended.
LEMMA GoesType ==
  ASSUME MicOK, ComposerGoes
  PROVE  MicOK'
<1>1. mic.orphans + mic.asking \in Nat BY DEF MicOK
<1>2. mic' \in [asking : Nat, recording : BOOLEAN, orphans : Nat] BY <1>1 DEF ComposerGoes
<1>3. live' \in Int BY DEF MicOK, ComposerGoes, ReleasesStream
<1> QED BY <1>2, <1>3 DEF MicOK, ComposerGoes

LEMMA RendersType ==
  ASSUME MicOK, NEW interview, Renders(interview)
  PROVE  MicOK'
BY GoesType DEF MicOK, Renders

\* The interview is shown by the view that shows it, or by a new one in place of an error.
LEMMA RendersView ==
  ASSUME view \in Views, NEW interview, Renders(interview)
  PROVE  /\ view' \in Views /\ cache' = interview /\ ~failed'
         /\ view' = view \/ (view' = view + 1 /\ ~Shown)
<1>1. CASE open /\ failed
  <2>1. view' = view + 1 /\ view < MaxViews BY <1>1 DEF Renders, Mount
  <2>2. view + 1 \in Views BY <2>1, BoundsAssumption DEF Views
  <2> QED BY <1>1, <2>1, <2>2 DEF Renders, Shown
<1>2. CASE ~(open /\ failed) BY <1>2 DEF Renders
<1> QED BY <1>1, <1>2

\* A view that an error replaces keeps what it sends.
LEMMA SeenOnly ==
  ASSUME PageOK, FetchFails, NEW v \in Views
  PROVE  /\ submits'[v].post = submits[v].post /\ submits'[v].pc = submits[v].pc
         /\ submits'[v].answer = submits[v].answer
         /\ submits'[v].seen \in {submits[v].seen, cache.turns}
<1>1. submits' = submits \/ submits' = [submits EXCEPT ![view].seen = cache.turns]
  BY DEF FetchFails
<1>2. CASE submits' = submits BY <1>2
<1>3. CASE submits' = [submits EXCEPT ![view].seen = cache.turns]
  <2>1. submits'[v] = IF v = view THEN [submits[v] EXCEPT !.seen = cache.turns] ELSE submits[v]
    BY <1>3 DEF PageOK
  <2>2. submits[v] \in Submission BY DEF PageOK
  <2> QED BY <2>1, <2>2 DEF Submission
<1> QED BY <1>1, <1>2, <1>3

-----------------------------------------------------------------------------
(* Every part of the invariant is kept by every action.                    *)

\* The server's state stays well-typed.
LEMMA ServerStep ==
  ASSUME IInv, [Next]_vars
  PROVE  ServerOK'
<1>0. ServerOK /\ PageOK BY DEF IInv, Types
<1> USE <1>0 DEF ServerOK, PageOK, Submission
<1>1. ASSUME NEW r \in requests, Take(r) PROVE ServerOK'
  <2>1. r.answer \in Nat BY DEF ServerOK
  <2>2. Append(transcript, r.answer) \in Seq(Nat) BY <2>1, AppendToSet
  <2>3. responses' \in SUBSET [post : Nat, result : {"turn", "over", "error"}, final : BOOLEAN]
    BY <1>1 DEF Take, Answers
  <2> QED BY <1>1, <2>2, <2>3 DEF Take
<1>2. ASSUME NEW r \in requests, Refuse(r) PROVE ServerOK'
  <2>1. responses' \in SUBSET [post : Nat, result : {"turn", "over", "error"}, final : BOOLEAN]
    <3>1. CASE UNCHANGED responses BY <3>1
    <3>2. \A result \in {"turn", "over", "error"} :
            [post |-> r.post, result |-> result, final |-> FALSE]
              \in [post : Nat, result : {"turn", "over", "error"}, final : BOOLEAN]
      OBVIOUS
    <3>3. PICK result \in {"turn", "over", "error"} : Answers(r, result, FALSE)
      BY <1>2 DEF Refuse
    <3> QED BY <3>1, <3>2, <3>3 DEF Answers
  <2> QED BY <1>2, <2>1 DEF Refuse
<1>3. CASE Send BY <1>3 DEF Send
<1>4. CASE Retry BY <1>4 DEF Retry
<1>5. CASE Fetched BY <1>5 DEF Fetched
<1>6. CASE FetchFails BY <1>6 DEF FetchFails, Unmount
<1>7. ASSUME NEW v \in Views, Post(v) PROVE ServerOK'
  <2>1. [post |-> posts + 1, answer |-> submits[v].answer] \in [post : Nat, answer : Nat] OBVIOUS
  <2> QED BY <1>7, <2>1 DEF Post
<1>8. ASSUME NEW v \in Views, TurnArrives(v) PROVE ServerOK' BY <1>8 DEF TurnArrives, Arrive
<1>9. ASSUME NEW v \in Views, ErrorArrives(v) PROVE ServerOK'
  BY <1>9 DEF ErrorArrives, Arrive
<1>10. ASSUME NEW v \in Views, NoAnswer(v) PROVE ServerOK' BY <1>10 DEF NoAnswer
<1>11. ASSUME NEW v \in Views, Show(v) PROVE ServerOK' BY <1>11 DEF Show
<1>12. ASSUME NEW v \in Views, Stop(v) PROVE ServerOK' BY <1>12 DEF Stop, Hush
<1>13. CASE GoOffline BY <1>13 DEF GoOffline
<1>14. CASE GoOnline BY <1>14 DEF GoOnline
<1>15. CASE Leave BY <1>15 DEF Leave, Hush, Unmount
<1>16. CASE Open BY <1>16 DEF Open, Mount
<1>17. CASE Replay BY <1>17 DEF Replay
<1>18. ASSUME NEW l \in loads, Loaded(l) PROVE ServerOK' BY <1>18 DEF Loaded
<1>19. CASE AskMic BY <1>19 DEF AskMic
<1>20. CASE Granted BY <1>20 DEF Granted, Hush
<1>21. CASE GrantedLate BY <1>21 DEF GrantedLate, Hush
<1>22. CASE Denied BY <1>22 DEF Denied
<1>23. CASE StopRecording BY <1>23 DEF StopRecording
<1>24. CASE UNCHANGED vars BY <1>24 DEF vars
<1>25. CASE FetchHandled \/ Refetch \/ OpenReport \/ LeaveError
  BY <1>25 DEF FetchHandled, Refetch, OpenReport, LeaveError
<1>26. CASE GreetingArrives BY <1>26 DEF GreetingArrives
<1>27. CASE VoiceOff \/ VoiceOn BY <1>27 DEF VoiceOff, VoiceOn, Hush
<1> QED
  BY <1>1, <1>2, <1>3, <1>4, <1>5, <1>6, <1>7, <1>8, <1>9, <1>10, <1>11, <1>12, <1>13,
     <1>14, <1>15, <1>16, <1>17, <1>18, <1>19, <1>20, <1>21, <1>22, <1>23, <1>24, <1>25,
     <1>26, <1>27 DEF Next, Submit

\* The page's state stays well-typed.
LEMMA PageStep ==
  ASSUME IInv, [Next]_vars
  PROVE  PageOK'
<1>0. ServerOK /\ PageOK BY DEF IInv, Types
<1> USE <1>0 DEF ServerOK, PageOK
<1>1. ASSUME NEW r \in requests, Take(r) PROVE PageOK' BY <1>1 DEF Take
<1>2. ASSUME NEW r \in requests, Refuse(r) PROVE PageOK' BY <1>2 DEF Refuse
<1>3. CASE Send
  <2>1. answers + 1 \in Nat OBVIOUS
  <2>2. [submits[view] EXCEPT !.pc = "waiting", !.answer = answers + 1] \in Submission
    BY <2>1 DEF Submission
  <2> QED BY <1>3, <2>2 DEF Send
<1>4. CASE Retry
  <2>1. [submits[view] EXCEPT !.pc = "waiting"] \in Submission
    BY DEF Submission
  <2> QED BY <1>4, <2>1 DEF Retry
<1>5. CASE Fetched
  <2>1. Renders([turns |-> fetch.turns, ended |-> fetch.ended]) BY <1>5 DEF Fetched
  <2>2. fetch.turns \in Seq(Nat) /\ fetch.ended \in BOOLEAN BY DEF IInv, FetchInv, Fetch
  <2> QED BY <1>5, <2>1, <2>2, RendersView DEF Fetched
<1>6. CASE FetchFails
  <2>1. [submits[view] EXCEPT !.seen = cache.turns] \in Submission BY DEF Submission
  <2> QED BY <1>6, <2>1 DEF FetchFails
<1>7. ASSUME NEW v \in Views, Post(v) PROVE PageOK'
  <2>1. posts + 1 \in Nat OBVIOUS
  <2>2. [submits[v] EXCEPT !.pc = "posting", !.post = posts + 1, !.lost = FALSE] \in Submission
    BY <2>1 DEF Submission
  <2> QED BY <1>7, <2>2 DEF Post
<1>8. ASSUME NEW v \in Views, TurnArrives(v) PROVE PageOK'
  <2>1. PICK r \in responses :
          submits' = [submits EXCEPT ![v].pc = "speaking", ![v].post = 0, ![v].final = r.final]
    BY <1>8 DEF TurnArrives
  <2>2. r.final \in BOOLEAN OBVIOUS
  <2>3. [submits[v] EXCEPT !.pc = "speaking", !.post = 0, !.final = r.final] \in Submission
    BY <2>2 DEF Submission
  <2> QED BY <1>8, <2>1, <2>3 DEF TurnArrives
<1>9. ASSUME NEW v \in Views, ErrorArrives(v) PROVE PageOK'
  <2>1. [submits[v] EXCEPT !.pc = "failed", !.post = 0] \in Submission
    BY DEF Submission
  <2> QED BY <1>9, <2>1 DEF ErrorArrives
<1>10. ASSUME NEW v \in Views, NoAnswer(v) PROVE PageOK'
  <2>1. \A lost \in BOOLEAN :
          [submits[v] EXCEPT !.pc = "failed", !.post = 0, !.lost = lost] \in Submission
    BY DEF Submission
  <2> QED BY <1>10, <2>1 DEF NoAnswer
<1>11. ASSUME NEW v \in Views, Show(v) PROVE PageOK'
  <2>1. Rendered(v) \in Seq(Nat) /\ submits[v].answer \in Nat
        /\ submits[v].final \in BOOLEAN
    BY DEF Rendered, Submission
  <2>2. Append(Rendered(v), submits[v].answer) \in Seq(Nat) BY <2>1, AppendToSet
  <2>3. Renders([turns |-> Append(Rendered(v), submits[v].answer), ended |-> submits[v].final])
    BY <1>11 DEF Show
  <2>4. view' \in Views
        /\ cache' = [turns |-> Append(Rendered(v), submits[v].answer), ended |-> submits[v].final]
    BY <2>3, RendersView
  <2>5. [submits[v] EXCEPT !.pc = "idle", !.final = FALSE] \in Submission BY DEF Submission
  <2>6. submits' \in [Views -> Submission] /\ UNCHANGED <<open, answers, posts>>
    BY <1>11, <2>5 DEF Show
  <2>7. cache' \in [turns : Seq(Nat), ended : BOOLEAN] BY <2>1, <2>2, <2>4
  <2> QED BY <2>4, <2>6, <2>7
<1>12. ASSUME NEW v \in Views, Stop(v) PROVE PageOK' BY <1>12 DEF Stop
<1>13. CASE GoOffline BY <1>13 DEF GoOffline
<1>14. CASE GoOnline
  <2>1. [submits[view] EXCEPT !.pc = "waiting"] \in Submission
    BY DEF Submission
  <2> QED BY <1>14, <2>1 DEF GoOnline
<1>15. CASE Leave
  <2>1. [submits[view] EXCEPT !.seen = cache.turns] \in Submission
    BY DEF Submission
  <2> QED BY <1>15, <2>1 DEF Leave, Unmount
<1>16. CASE Open
  <2>1. CASE failed BY <1>16, <2>1 DEF Open
  <2>2. CASE ~failed
    <3>1. view' \in Views BY <1>16, <2>2, BoundsAssumption DEF Open, Views, Mount
    <3> QED BY <1>16, <3>1 DEF Open
  <2> QED BY <2>1, <2>2
<1>17. CASE Replay BY <1>17 DEF Replay
<1>18. ASSUME NEW l \in loads, Loaded(l) PROVE PageOK' BY <1>18 DEF Loaded
<1>19. CASE AskMic BY <1>19 DEF AskMic
<1>20. CASE Granted BY <1>20 DEF Granted
<1>21. CASE GrantedLate BY <1>21 DEF GrantedLate
<1>22. CASE Denied BY <1>22 DEF Denied
<1>23. CASE StopRecording BY <1>23 DEF StopRecording
<1>24. CASE UNCHANGED vars BY <1>24 DEF vars
<1>25. CASE FetchHandled \/ Refetch \/ OpenReport \/ LeaveError
  BY <1>25 DEF FetchHandled, Refetch, OpenReport, LeaveError
<1>26. CASE GreetingArrives BY <1>26 DEF GreetingArrives
<1>27. CASE VoiceOff \/ VoiceOn BY <1>27 DEF VoiceOff, VoiceOn, Hush
<1> QED
  BY <1>1, <1>2, <1>3, <1>4, <1>5, <1>6, <1>7, <1>8, <1>9, <1>10, <1>11, <1>12, <1>13,
     <1>14, <1>15, <1>16, <1>17, <1>18, <1>19, <1>20, <1>21, <1>22, <1>23, <1>24, <1>25,
     <1>26, <1>27 DEF Next, Submit

\* Speech and microphone stay well-typed.
LEMMA VoiceStep ==
  ASSUME IInv, [Next]_vars
  PROVE  VoiceOK'
<1>0. VoiceOK /\ PageOK BY DEF IInv, Types
<1> USE <1>0 DEF VoiceOK, MicOK
<1>1. ASSUME NEW r \in requests, Take(r) PROVE VoiceOK' BY <1>1 DEF Take
<1>2. ASSUME NEW r \in requests, Refuse(r) PROVE VoiceOK' BY <1>2 DEF Refuse
<1>3. CASE Send BY <1>3 DEF Send
<1>4. CASE Retry BY <1>4 DEF Retry
<1>5. CASE Fetched
  <2>1. MicOK' BY <1>5, RendersType DEF Fetched, VoiceOK
  <2> QED BY <1>5, <2>1 DEF Fetched, MicOK
<1>6. CASE FetchFails
  <2>1. MicOK' BY <1>6, GoesType DEF FetchFails, Unmount, MicOK
  <2>2. speech' \in [Views -> Speech] BY <1>6, HushType DEF FetchFails, Unmount, PageOK
  <2> QED BY <1>6, <2>1, <2>2 DEF FetchFails, MicOK
<1>7. ASSUME NEW v \in Views, Post(v) PROVE VoiceOK' BY <1>7 DEF Post
<1>8. ASSUME NEW v \in Views, TurnArrives(v) PROVE VoiceOK' BY <1>8 DEF TurnArrives, Arrive
<1>9. ASSUME NEW v \in Views, ErrorArrives(v) PROVE VoiceOK' BY <1>9 DEF ErrorArrives, Arrive
<1>10. ASSUME NEW v \in Views, NoAnswer(v) PROVE VoiceOK' BY <1>10 DEF NoAnswer
<1>11. ASSUME NEW v \in Views, Show(v) PROVE VoiceOK'
  <2>1. MicOK' BY <1>11, RendersType DEF Show
  <2>2. speech' \in [Views -> Speech] /\ clips' \in Nat /\ UNCHANGED loads
    <3>1. clips + 1 \in Nat OBVIOUS
    <3>2. [asked |-> clips + 1, wanted |-> 0, heard |-> clips + 1] \in Speech BY <3>1 DEF Speech
    <3> QED BY <1>11, <3>1, <3>2 DEF Show
  <2> QED BY <2>1, <2>2 DEF MicOK
<1>12. ASSUME NEW v \in Views, Stop(v) PROVE VoiceOK'
  BY <1>12, HushType DEF Stop
<1>13. CASE GoOffline BY <1>13 DEF GoOffline
<1>14. CASE GoOnline BY <1>14 DEF GoOnline
<1>15. CASE Leave
  <2>1. MicOK' BY <1>15, GoesType DEF Leave, MicOK, Unmount
  <2>2. speech' \in [Views -> Speech] BY <1>15, HushType DEF Leave, PageOK, Unmount
  <2> QED BY <1>15, <2>1, <2>2 DEF Leave, MicOK, Unmount
<1>16. CASE Open BY <1>16 DEF Open, Mount
<1>17. CASE Replay
  <2>1. clips + 1 \in Nat /\ view \in Views BY DEF PageOK
  <2>2. [asked |-> clips + 1, wanted |-> clips + 1, heard |-> 0] \in Speech BY <2>1 DEF Speech
  <2>3. [view |-> view, clip |-> clips + 1] \in [view : Views, clip : Nat] BY <2>1
  <2> QED BY <1>17, <2>1, <2>2, <2>3 DEF Replay
<1>18. ASSUME NEW l \in loads, Loaded(l) PROVE VoiceOK'
  <2>1. l.view \in Views /\ l.clip \in Nat OBVIOUS
  <2>2. [speech[l.view] EXCEPT !.wanted = 0, !.heard = l.clip] \in Speech BY <2>1 DEF Speech
  <2>3. CASE Hush(l.view) BY <1>18, <2>1, <2>3, HushType DEF Loaded
  <2>4. CASE speech' = [speech EXCEPT ![l.view].wanted = 0, ![l.view].heard = l.clip]
    BY <1>18, <2>2, <2>4 DEF Loaded
  <2>5. CASE UNCHANGED speech BY <1>18, <2>5 DEF Loaded
  <2> QED BY <1>18, <2>3, <2>4, <2>5 DEF Loaded
<1>19. CASE AskMic
  <2>1. MicOK' BY <1>19 DEF AskMic, MicOK
  <2> QED BY <1>19, <2>1 DEF AskMic, MicOK
<1>20. CASE Granted
  <2>1. [mic EXCEPT !.asking = mic.asking - 1, !.recording = TRUE]
          \in [asking : Nat, recording : BOOLEAN, orphans : Nat]
    <3>1. mic.asking - 1 \in Nat BY <1>20 DEF Granted, MicOK
    <3> QED BY <3>1 DEF MicOK
  <2>3. MicOK' BY <1>20, <2>1 DEF Granted, MicOK
  <2>2. speech' \in [Views -> Speech] BY <1>20, HushType DEF Granted, PageOK
  <2> QED BY <1>20, <2>2, <2>3 DEF Granted
<1>21. CASE GrantedLate
  <2>1. MicOK' BY <1>21 DEF GrantedLate, MicOK
  <2>2. PICK v \in 1..view : Hush(v) BY <1>21 DEF GrantedLate
  <2>3. v \in Views BY BoundsAssumption DEF Views, PageOK
  <2>4. speech' \in [Views -> Speech] BY <2>2, <2>3, HushType
  <2> QED BY <1>21, <2>1, <2>4 DEF GrantedLate, MicOK
<1>22. CASE Denied
  <2>1. MicOK' BY <1>22 DEF Denied, MicOK
  <2> QED BY <1>22, <2>1 DEF Denied, MicOK
<1>23. CASE StopRecording
  <2>1. mic' \in [asking : Nat, recording : BOOLEAN, orphans : Nat]
    BY <1>23 DEF StopRecording, MicOK
  <2>2. live' \in Int BY <1>23 DEF StopRecording, ReleasesStream, MicOK
  <2> QED BY <1>23, <2>1, <2>2 DEF StopRecording, MicOK
<1>24. CASE UNCHANGED vars BY <1>24 DEF vars
<1>25. CASE FetchHandled \/ Refetch \/ OpenReport \/ LeaveError
  BY <1>25 DEF FetchHandled, Refetch, OpenReport, LeaveError
<1>26. CASE GreetingArrives
  <2>1. view \in Views /\ clips + 1 \in Nat BY DEF PageOK
  <2>2. [speech[view] EXCEPT !.wanted = 0, !.heard = clips + 1] \in Speech BY <2>1 DEF Speech
  <2> QED BY <1>26, <2>1, <2>2 DEF GreetingArrives
<1>27. CASE VoiceOff \/ VoiceOn
  <2>1. CASE VoiceOff BY <2>1, HushType DEF VoiceOff, PageOK
  <2> QED BY <1>27, <2>1 DEF VoiceOn
<1> QED
  BY <1>1, <1>2, <1>3, <1>4, <1>5, <1>6, <1>7, <1>8, <1>9, <1>10, <1>11, <1>12, <1>13,
     <1>14, <1>15, <1>16, <1>17, <1>18, <1>19, <1>20, <1>21, <1>22, <1>23, <1>24, <1>25,
     <1>26, <1>27 DEF Next, Submit

\* The microphone follows the recording.
LEMMA MicStep ==
  ASSUME IInv, [Next]_vars
  PROVE  MicInv'
<1>0. VoiceOK /\ PageOK /\ MicInv BY DEF IInv, Types
<1> USE <1>0 DEF VoiceOK, MicOK, PageOK, MicInv, MicReleased, Composing, Shown, ComposerGoes,
                 ReleasesStream
<1>1. ASSUME NEW r \in requests, Take(r) PROVE MicInv' BY <1>1 DEF Take
<1>2. ASSUME NEW r \in requests, Refuse(r) PROVE MicInv' BY <1>2 DEF Refuse
<1>3. CASE Send BY <1>3 DEF Send
<1>4. CASE Retry BY <1>4 DEF Retry
<1>5. CASE Fetched BY <1>5 DEF Fetched, Renders
<1>6. CASE FetchFails BY <1>6 DEF FetchFails, Unmount
<1>7. ASSUME NEW v \in Views, Post(v) PROVE MicInv' BY <1>7 DEF Post
<1>8. ASSUME NEW v \in Views, TurnArrives(v) PROVE MicInv' BY <1>8 DEF TurnArrives, Arrive
<1>9. ASSUME NEW v \in Views, ErrorArrives(v) PROVE MicInv' BY <1>9 DEF ErrorArrives, Arrive
<1>10. ASSUME NEW v \in Views, NoAnswer(v) PROVE MicInv' BY <1>10 DEF NoAnswer
<1>11. ASSUME NEW v \in Views, Show(v) PROVE MicInv' BY <1>11 DEF Show, Renders
<1>12. ASSUME NEW v \in Views, Stop(v) PROVE MicInv' BY <1>12 DEF Stop
<1>13. CASE GoOffline BY <1>13 DEF GoOffline
<1>14. CASE GoOnline BY <1>14 DEF GoOnline
<1>15. CASE Leave BY <1>15 DEF Leave, Unmount
<1>16. CASE Open BY <1>16 DEF Open, Mount
<1>17. CASE Replay BY <1>17 DEF Replay
<1>18. ASSUME NEW l \in loads, Loaded(l) PROVE MicInv' BY <1>18 DEF Loaded
<1>19. CASE AskMic BY <1>19 DEF AskMic
<1>20. CASE Granted BY <1>20 DEF Granted
<1>21. CASE GrantedLate BY <1>21 DEF GrantedLate
<1>22. CASE Denied BY <1>22 DEF Denied
<1>23. CASE StopRecording BY <1>23 DEF StopRecording
<1>24. CASE UNCHANGED vars BY <1>24 DEF vars
<1>25. CASE FetchHandled \/ Refetch \/ OpenReport \/ LeaveError
  BY <1>25 DEF FetchHandled, Refetch, OpenReport, LeaveError
<1>26. CASE GreetingArrives BY <1>26 DEF GreetingArrives
<1>27. CASE VoiceOff \/ VoiceOn BY <1>27 DEF VoiceOff, VoiceOn, Hush
<1> QED
  BY <1>1, <1>2, <1>3, <1>4, <1>5, <1>6, <1>7, <1>8, <1>9, <1>10, <1>11, <1>12, <1>13,
     <1>14, <1>15, <1>16, <1>17, <1>18, <1>19, <1>20, <1>21, <1>22, <1>23, <1>24, <1>25,
     <1>26, <1>27 DEF Next, Submit

\* Speech is as good as it was while its view stays on the screen.
LEMMA SpeechKept ==
  ASSUME SpeechInv, UNCHANGED <<speech, clips, replies, greetings>>,
         Shown => Shown' /\ view' = view
  PROVE  SpeechInv'
BY DEF SpeechInv, SpeechIsCurrent

\* A view may be silenced, and the one silenced may be unmounted.
LEMMA SpeechHushed ==
  ASSUME SpeechInv, speech \in [Views -> Speech], clips \in Nat, NEW w \in Views, Hush(w),
         UNCHANGED <<clips, replies, greetings>>,
         Shown => (Shown' /\ view' = view) \/ w = view
  PROVE  SpeechInv'
<1>1. speech'[w] = Silent /\ \A v \in Views \ {w} : speech'[v] = speech[v] BY DEF Hush
<1>2. Silent.heard = 0 /\ Silent.wanted = 0 /\ Silent.asked <= clips BY DEF Silent
<1>3. \A v \in Views \ {w} : Shown /\ v = view => Shown' /\ v = view' OBVIOUS
<1> QED BY <1>1, <1>2, <1>3 DEF SpeechInv, SpeechIsCurrent

\* A view whose audio is not awaited may play the message just numbered.
LEMMA SpeechNew ==
  ASSUME SpeechInv, speech \in [Views -> Speech], clips \in Nat, NEW w \in Views,
         clips' = clips + 1, replies \subseteq replies', greetings \subseteq greetings',
         Shown => Shown' /\ view' = view,
         \A v \in Views \ {w} : speech'[v] = speech[v],
         speech'[w].wanted = 0, speech'[w].heard = clips + 1,
         \/ speech'[w].asked = clips + 1
         \/ speech'[w].asked = speech[w].asked /\ clips + 1 \in greetings',
         (Shown' /\ w = view') \/ clips + 1 \in replies'
  PROVE  SpeechInv'
<1>1. \A v \in Views : speech[v].asked \in Nat /\ speech[v].asked <= clips
  BY DEF SpeechInv, Speech
<1>2. speech'[w].asked <= clips' /\ clips <= clips' BY <1>1
<1>3. speech'[w].heard = speech'[w].asked
        \/ (speech'[w].heard \in greetings' /\ speech'[w].asked < speech'[w].heard)
  BY <1>1
<1>4. \A v \in Views : speech[v].asked <= clips' BY <1>1
<1>5. SpeechIsCurrent'
  <2>1. ASSUME NEW v \in Views \ {w}, speech'[v].heard # 0
        PROVE  /\ \/ speech'[v].heard = speech'[v].asked
                  \/ speech'[v].heard \in greetings' /\ speech'[v].asked < speech'[v].heard
               /\ (Shown' /\ v = view') \/ speech'[v].heard \in replies'
    BY <2>1 DEF SpeechInv, SpeechIsCurrent
  <2> QED BY <1>3, <2>1 DEF SpeechIsCurrent
<1> QED BY <1>2, <1>4, <1>5 DEF SpeechInv

\* Speech follows what is asked for.
LEMMA SpeechStep ==
  ASSUME IInv, [Next]_vars
  PROVE  SpeechInv'
<1>0. SpeechInv BY DEF IInv
<1>a. speech \in [Views -> Speech] /\ clips \in Nat /\ view \in Views
  BY DEF IInv, Types, VoiceOK, PageOK
<1> USE <1>0
<1>1. ASSUME NEW r \in requests, Take(r) \/ Refuse(r) PROVE SpeechInv'
  <2>1. UNCHANGED <<speech, clips, replies, greetings, view, open, failed>>
    BY <1>1 DEF Take, Refuse
  <2> QED BY <2>1, SpeechKept DEF Shown
<1>2. CASE Send \/ Retry BY <1>2, SpeechKept DEF Send, Retry, Shown
<1>3. CASE FetchHandled \/ Refetch BY <1>3, SpeechKept DEF FetchHandled, Refetch, Shown
<1>4. CASE OpenReport \/ LeaveError BY <1>4, SpeechKept DEF OpenReport, LeaveError, Shown
<1>5. CASE Fetched
  <2>1. Renders([turns |-> fetch.turns, ended |-> fetch.ended]) BY <1>5 DEF Fetched
  <2>2. ~failed' /\ (view' = view \/ ~Shown) BY <1>a, <2>1, RendersView
  <2> QED BY <1>5, <2>2, SpeechKept DEF Fetched, Shown
<1>6. CASE FetchFails
  <2>1. CASE Shown
    <3>1. Hush(view) BY <1>6, <2>1 DEF FetchFails, Unmount
    <3> QED BY <1>6, <1>a, <3>1, SpeechHushed DEF FetchFails
  <2>2. CASE ~Shown BY <1>6, <2>2, SpeechKept DEF FetchFails
  <2> QED BY <2>1, <2>2
<1>7. ASSUME NEW v \in Views, Post(v) \/ TurnArrives(v) \/ NoAnswer(v) PROVE SpeechInv'
  BY <1>7, SpeechKept DEF Post, TurnArrives, NoAnswer, Shown
<1>8. ASSUME NEW v \in Views, ErrorArrives(v) PROVE SpeechInv'
  BY <1>8, SpeechKept DEF ErrorArrives, Shown
<1>9. ASSUME NEW v \in Views, Show(v) PROVE SpeechInv'
  <2>1. /\ Renders([turns |-> Append(Rendered(v), submits[v].answer),
                    ended |-> submits[v].final])
        /\ UNCHANGED <<open, greetings>>
    BY <1>9 DEF Show
  <2>2. ~failed' /\ (view' = view \/ ~Shown) BY <1>a, <2>1, RendersView
  <2>3. Shown => Shown' /\ view' = view BY <2>1, <2>2 DEF Shown
  <2>4. CASE UNCHANGED <<clips, speech, replies>> BY <2>1, <2>3, <2>4, SpeechKept
  <2>5. CASE /\ clips' = clips + 1
             /\ speech' = [speech EXCEPT ![v] =
                             [asked |-> clips + 1, wanted |-> 0, heard |-> clips + 1]]
             /\ replies' = replies \cup {clips + 1}
    BY <1>a, <2>1, <2>3, <2>5, SpeechNew
  <2> QED BY <1>9, <2>4, <2>5 DEF Show
<1>10. ASSUME NEW v \in Views, Stop(v) PROVE SpeechInv'
  BY <1>10, <1>a, SpeechHushed DEF Stop, Shown
<1>11. CASE GoOffline \/ GoOnline BY <1>11, SpeechKept DEF GoOffline, GoOnline, Shown
<1>12. CASE Leave BY <1>12, <1>a, SpeechHushed DEF Leave, Unmount
<1>13. CASE Open BY <1>13, SpeechKept DEF Open, Shown
<1>14. CASE GreetingArrives
  <2>1. UNCHANGED <<view, open, failed, replies>> /\ Shown
    BY <1>14 DEF GreetingArrives, Pending
  <2>2. CASE UNCHANGED <<clips, speech, greetings>> BY <2>1, <2>2, SpeechKept DEF Shown
  <2>3. CASE /\ clips' = clips + 1 /\ greetings' = greetings \cup {clips + 1}
             /\ speech' = [speech EXCEPT ![view].wanted = 0, ![view].heard = clips + 1]
    <3>1. /\ speech'[view].wanted = 0 /\ speech'[view].heard = clips + 1
          /\ speech'[view].asked = speech[view].asked
          /\ \A v \in Views \ {view} : speech'[v] = speech[v]
      BY <1>a, <2>3 DEF Speech
    <3> QED BY <1>a, <2>1, <2>3, <3>1, SpeechNew DEF Shown
  <2> QED BY <1>14, <2>2, <2>3 DEF GreetingArrives
<1>15. CASE VoiceOff BY <1>15, <1>a, SpeechHushed DEF VoiceOff, Shown
<1>16. CASE VoiceOn BY <1>16, SpeechKept DEF VoiceOn, Shown
<1>17. CASE Replay
  <2>1. UNCHANGED <<view, open, failed, replies, greetings>> /\ Shown /\ clips' = clips + 1
    BY <1>17 DEF Replay
  <2>2. /\ speech'[view].wanted = clips + 1 /\ speech'[view].heard = 0
        /\ speech'[view].asked = clips + 1
        /\ \A v \in Views \ {view} : speech'[v] = speech[v]
    BY <1>17, <1>a DEF Replay
  <2>3. \A v \in Views : speech[v].asked \in Nat /\ speech[v].asked <= clips
    BY <1>a DEF SpeechInv, Speech
  <2>4. clips + 1 <= clips' /\ \A v \in Views : speech[v].asked <= clips' BY <1>a, <2>1, <2>3
  <2>5. SpeechIsCurrent' BY <2>1, <2>2 DEF SpeechInv, SpeechIsCurrent, Shown
  <2> QED BY <2>1, <2>2, <2>4, <2>5 DEF SpeechInv, Shown
<1>18. ASSUME NEW l \in loads, Loaded(l) PROVE SpeechInv'
  <2>1. UNCHANGED <<view, open, failed, clips, replies, greetings>> /\ l.view \in Views
    BY <1>18 DEF Loaded, IInv, Types, VoiceOK
  <2>2. CASE Hush(l.view) BY <1>a, <2>1, <2>2, SpeechHushed DEF Shown
  <2>3. CASE /\ Wanted(l)
             /\ speech' = [speech EXCEPT ![l.view].wanted = 0, ![l.view].heard = l.clip]
    <3>1. speech[l.view].wanted = l.clip BY <2>3 DEF Wanted
    <3>2. /\ speech'[l.view].wanted = 0 /\ speech'[l.view].heard = l.clip
          /\ speech'[l.view].asked = speech[l.view].asked
          /\ \A v \in Views \ {l.view} : speech'[v] = speech[v]
      BY <1>a, <2>1, <2>3 DEF Speech
    <3>3. SpeechIsCurrent' BY <2>1, <3>1, <3>2 DEF SpeechInv, SpeechIsCurrent, Shown
    <3> QED BY <2>1, <3>2, <3>3 DEF SpeechInv, Shown
  <2>4. CASE UNCHANGED speech BY <2>1, <2>4, SpeechKept DEF Shown
  <2> QED BY <1>18, <2>2, <2>3, <2>4 DEF Loaded
<1>19. CASE AskMic BY <1>19, SpeechKept DEF AskMic, Shown
<1>20. CASE Granted BY <1>20, <1>a, SpeechHushed DEF Granted, Shown
<1>21. CASE GrantedLate
  <2>1. PICK v \in 1..view : Hush(v) BY <1>21 DEF GrantedLate
  <2>2. v \in Views BY <1>a, BoundsAssumption DEF Views
  <2> QED BY <1>21, <1>a, <2>1, <2>2, SpeechHushed DEF GrantedLate, Shown
<1>22. CASE Denied \/ StopRecording BY <1>22, SpeechKept DEF Denied, StopRecording, Shown
<1>23. CASE UNCHANGED vars BY <1>23, SpeechKept DEF vars, Shown
<1> QED
  BY <1>1, <1>2, <1>3, <1>4, <1>5, <1>6, <1>7, <1>8, <1>9, <1>10, <1>11, <1>12, <1>13,
     <1>14, <1>15, <1>16, <1>17, <1>18, <1>19, <1>20, <1>21, <1>22, <1>23 DEF Next, Submit

\* A post is sent once and belongs to one view.
LEMMA PostsStep ==
  ASSUME IInv, [Next]_vars
  PROVE  PostsInv'
<1>0. ServerOK /\ PageOK /\ PostsInv BY DEF IInv, Types
<1> USE <1>0 DEF ServerOK, PageOK, PostsInv, Submission
<1>1. ASSUME NEW r \in requests, Take(r) PROVE PostsInv' BY <1>1 DEF Take, Answers
<1>2. ASSUME NEW r \in requests, Refuse(r) PROVE PostsInv' BY <1>2 DEF Refuse, Answers
<1>3. CASE Send
  <2>1. submits[view].post = 0 BY <1>3 DEF Send, Sends
  <2>2. /\ submits'[view].post = 0 /\ submits'[view].pc = "waiting"
        /\ \A v \in Views \ {view} : submits'[v] = submits[v]
    BY <1>3, <2>1 DEF Send
  <2>3. UNCHANGED <<requests, responses, posts, view>> BY <1>3 DEF Send
  <2>4. ~(view > view) BY DEF Views
  <2>5. ASSUME NEW v \in Views
        PROVE  /\ submits'[v].post <= posts
               /\ submits'[v].pc # "posting" => submits'[v].post = 0
               /\ v > view => submits'[v].pc = "idle"
               /\ \A r \in requests :
                    r.post = submits'[v].post => r.answer = submits'[v].answer
    <3>1. CASE v = view
      <4>1. 0 <= posts /\ \A r \in requests : r.post # 0 OBVIOUS
      <4> QED BY <2>2, <2>4, <3>1, <4>1
    <3>2. CASE v # view
      <4>1. submits'[v] = submits[v] BY <2>2, <3>2
      <4> QED BY <4>1
    <3> QED BY <3>1, <3>2
  <2> QED BY <2>3, <2>5
<1>4. CASE Retry BY <1>4 DEF Retry
<1>5. CASE Fetched
  <2>1. UNCHANGED <<requests, responses, submits, posts>> BY <1>5 DEF Fetched
  <2>2. view' \in Views /\ (view' = view \/ view' = view + 1) BY <1>5, RendersView DEF Fetched
  <2>3. \A v \in Views : v > view' => v > view BY <2>2 DEF Views
  <2> QED BY <2>1, <2>3
<1>6. CASE FetchFails
  <2>1. UNCHANGED <<requests, responses, posts, view>> BY <1>6 DEF FetchFails
  <2>2. \A v \in Views : /\ submits'[v].post = submits[v].post /\ submits'[v].pc = submits[v].pc
                         /\ submits'[v].answer = submits[v].answer
    BY <1>0, <1>6, SeenOnly
  <2> QED BY <2>1, <2>2
<1>7. ASSUME NEW v \in Views, Post(v) PROVE PostsInv' BY <1>7, SMTT(30) DEF Post
<1>8. ASSUME NEW v \in Views, TurnArrives(v) PROVE PostsInv' BY <1>8 DEF TurnArrives, Arrive
<1>9. ASSUME NEW v \in Views, ErrorArrives(v) PROVE PostsInv'
  BY <1>9 DEF ErrorArrives, Arrive
<1>10. ASSUME NEW v \in Views, NoAnswer(v) PROVE PostsInv' BY <1>10 DEF NoAnswer
<1>11. ASSUME NEW v \in Views, Show(v) PROVE PostsInv'
  <2>1. UNCHANGED <<requests, responses, posts>> /\ submits[v].pc = "speaking" BY <1>11 DEF Show
  <2>2. view' \in Views /\ (view' = view \/ view' = view + 1) BY <1>11, RendersView DEF Show
  <2>3. \A w \in Views : w > view' => w > view BY <2>2 DEF Views
  <2>4. \A w \in Views :
          /\ submits'[w].post = submits[w].post /\ submits'[w].answer = submits[w].answer
          /\ submits'[w].pc = IF w = v THEN "idle" ELSE submits[w].pc
    BY <1>11 DEF Show
  <2> QED BY <2>1, <2>3, <2>4
<1>12. ASSUME NEW v \in Views, Stop(v) PROVE PostsInv' BY <1>12 DEF Stop
<1>13. CASE GoOffline BY <1>13 DEF GoOffline
<1>14. CASE GoOnline BY <1>14 DEF GoOnline, Unsent
<1>15. CASE Leave BY <1>15 DEF Leave, Unmount
<1>16. CASE Open
  <2>1. UNCHANGED <<requests, responses, posts, submits>> BY <1>16 DEF Open
  <2>2. view' = view \/ view' = view + 1 BY <1>16 DEF Open, Mount
  <2>3. \A v \in Views : v > view' => v > view BY <2>2 DEF Views
  <2> QED BY <2>1, <2>3
<1>17. CASE Replay BY <1>17 DEF Replay
<1>18. ASSUME NEW l \in loads, Loaded(l) PROVE PostsInv' BY <1>18 DEF Loaded
<1>19. CASE AskMic BY <1>19 DEF AskMic
<1>20. CASE Granted BY <1>20 DEF Granted
<1>21. CASE GrantedLate BY <1>21 DEF GrantedLate
<1>22. CASE Denied BY <1>22 DEF Denied
<1>23. CASE StopRecording BY <1>23 DEF StopRecording
<1>24. CASE UNCHANGED vars BY <1>24 DEF vars
<1>25. CASE FetchHandled \/ Refetch \/ OpenReport \/ LeaveError
  BY <1>25 DEF FetchHandled, Refetch, OpenReport, LeaveError
<1>26. CASE GreetingArrives BY <1>26 DEF GreetingArrives
<1>27. CASE VoiceOff \/ VoiceOn BY <1>27 DEF VoiceOff, VoiceOn, Hush
<1> QED
  BY <1>1, <1>2, <1>3, <1>4, <1>5, <1>6, <1>7, <1>8, <1>9, <1>10, <1>11, <1>12, <1>13,
     <1>14, <1>15, <1>16, <1>17, <1>18, <1>19, <1>20, <1>21, <1>22, <1>23, <1>24, <1>25,
     <1>26, <1>27 DEF Next, Submit

\* Only turns that were taken get on the screen.
LEMMA TurnsStep ==
  ASSUME IInv, [Next]_vars
  PROVE  TurnsInv'
<1>0. ServerOK /\ PageOK /\ PostsInv /\ TurnsInv BY DEF IInv, Types
<1> USE <1>0 DEF ServerOK, PageOK, PostsInv, TurnsInv, Submission, Taken
<1>1. ASSUME NEW r \in requests, Take(r) PROVE TurnsInv'
  <2>1. Taken' = Taken \cup {r.answer} BY <1>1, AppendToSet DEF Take
  <2> QED BY <1>1, <2>1 DEF Take, Answers
<1>2. ASSUME NEW r \in requests, Refuse(r) PROVE TurnsInv'
  <2>1. UNCHANGED <<transcript, cache, submits>> BY <1>2 DEF Refuse
  <2>2. \A s \in responses' : s \in responses \/ s.result # "turn"
    <3>1. PICK result \in {"over", "error"} : Answers(r, result, FALSE) BY <1>2 DEF Refuse
    <3> QED BY <3>1 DEF Answers
  <2> QED BY <2>1, <2>2
<1>3. CASE Send BY <1>3 DEF Send, Sends
<1>4. CASE Retry BY <1>4 DEF Retry
<1>5. CASE Fetched
  <2>1. cache'.turns = fetch.turns BY <1>5 DEF Fetched, Renders
  <2>2. ToSet(fetch.turns) \subseteq Taken BY DEF IInv, FetchInv
  <2> QED BY <1>5, <2>1, <2>2 DEF Fetched
<1>6. CASE FetchFails
  <2>1. UNCHANGED <<transcript, responses, cache>> BY <1>6 DEF FetchFails
  <2>2. \A v \in Views : /\ submits'[v].post = submits[v].post /\ submits'[v].pc = submits[v].pc
                         /\ submits'[v].answer = submits[v].answer
                         /\ submits'[v].seen \in {submits[v].seen, cache.turns}
    BY <1>0, <1>6, SeenOnly
  <2> QED BY <2>1, <2>2
<1>7. ASSUME NEW v \in Views, Post(v) PROVE TurnsInv' BY <1>7 DEF Post
<1>8. ASSUME NEW v \in Views, TurnArrives(v) PROVE TurnsInv' BY <1>8 DEF TurnArrives, Arrive
<1>9. ASSUME NEW v \in Views, ErrorArrives(v) PROVE TurnsInv'
  BY <1>9 DEF ErrorArrives, Arrive
<1>10. ASSUME NEW v \in Views, NoAnswer(v) PROVE TurnsInv' BY <1>10 DEF NoAnswer
<1>11. ASSUME NEW v \in Views, Show(v) PROVE TurnsInv'
  <2>1. Rendered(v) \in Seq(Nat) /\ ToSet(Rendered(v)) \subseteq Taken BY DEF Rendered
  <2>2. cache'.turns = Append(Rendered(v), submits[v].answer) BY <1>11 DEF Show, Renders
  <2>3. ToSet(cache'.turns) \subseteq Taken BY <1>11, <2>1, <2>2, AppendToSet DEF Show
  <2> QED BY <1>11, <2>3 DEF Show
<1>12. ASSUME NEW v \in Views, Stop(v) PROVE TurnsInv' BY <1>12 DEF Stop
<1>13. CASE GoOffline BY <1>13 DEF GoOffline
<1>14. CASE GoOnline BY <1>14 DEF GoOnline, Unsent
<1>15. CASE Leave BY <1>15 DEF Leave, Unmount
<1>16. CASE Open BY <1>16 DEF Open, Mount
<1>17. CASE Replay BY <1>17 DEF Replay
<1>18. ASSUME NEW l \in loads, Loaded(l) PROVE TurnsInv' BY <1>18 DEF Loaded
<1>19. CASE AskMic BY <1>19 DEF AskMic
<1>20. CASE Granted BY <1>20 DEF Granted
<1>21. CASE GrantedLate BY <1>21 DEF GrantedLate
<1>22. CASE Denied BY <1>22 DEF Denied
<1>23. CASE StopRecording BY <1>23 DEF StopRecording
<1>24. CASE UNCHANGED vars BY <1>24 DEF vars
<1>25. CASE FetchHandled \/ Refetch \/ OpenReport \/ LeaveError
  BY <1>25 DEF FetchHandled, Refetch, OpenReport, LeaveError
<1>26. CASE GreetingArrives BY <1>26 DEF GreetingArrives
<1>27. CASE VoiceOff \/ VoiceOn BY <1>27 DEF VoiceOff, VoiceOn, Hush
<1> QED
  BY <1>1, <1>2, <1>3, <1>4, <1>5, <1>6, <1>7, <1>8, <1>9, <1>10, <1>11, <1>12, <1>13,
     <1>14, <1>15, <1>16, <1>17, <1>18, <1>19, <1>20, <1>21, <1>22, <1>23, <1>24, <1>25,
     <1>26, <1>27 DEF Next, Submit

\* What a fetch carries was taken when the server handled it, and stays taken.
LEMMA FetchMoves ==
  ASSUME [Next]_vars
  PROVE  \/ UNCHANGED <<failed, fetch>>
         \/ failed' = TRUE /\ fetch' = NoFetch
         \/ failed' = FALSE /\ fetch' \in {fetch, NoFetch}
         \/ UNCHANGED failed /\ fetch' = Asked
         \/ FetchHandled
<1>1. ASSUME NEW r \in requests, Take(r) \/ Refuse(r) PROVE UNCHANGED <<failed, fetch>>
  BY <1>1 DEF Take, Refuse
<1>2. ASSUME NEW v \in Views, Post(v) \/ TurnArrives(v) \/ NoAnswer(v) \/ Stop(v)
      PROVE  UNCHANGED <<failed, fetch>>
  BY <1>2 DEF Post, TurnArrives, NoAnswer, Stop
<1>3. ASSUME NEW v \in Views, ErrorArrives(v)
      PROVE  UNCHANGED <<failed, fetch>> \/ (UNCHANGED failed /\ fetch' = Asked)
  BY <1>3 DEF ErrorArrives
<1>4. ASSUME NEW v \in Views, Show(v) PROVE failed' = FALSE /\ fetch' = fetch
  BY <1>4 DEF Show, Renders
<1>5. CASE Fetched BY <1>5 DEF Fetched, Renders
<1>6. CASE FetchFails BY <1>6 DEF FetchFails
<1>7. CASE Refetch \/ OpenReport BY <1>7 DEF Refetch, OpenReport
<1>8. CASE GoOnline \/ Open BY <1>8 DEF GoOnline, Open, FetchesIfStale
<1>9. CASE Send \/ Retry \/ GoOffline \/ Leave \/ LeaveError
  BY <1>9 DEF Send, Retry, GoOffline, Leave, LeaveError
<1>10. CASE GreetingArrives \/ VoiceOff \/ VoiceOn \/ Replay
  BY <1>10 DEF GreetingArrives, VoiceOff, VoiceOn, Replay
<1>11. ASSUME NEW l \in loads, Loaded(l) PROVE UNCHANGED <<failed, fetch>> BY <1>11 DEF Loaded
<1>12. CASE AskMic \/ Granted \/ GrantedLate \/ Denied \/ StopRecording
  BY <1>12 DEF AskMic, Granted, GrantedLate, Denied, StopRecording
<1>13. CASE UNCHANGED vars BY <1>13 DEF vars
<1> QED
  BY <1>1, <1>2, <1>3, <1>4, <1>5, <1>6, <1>7, <1>8, <1>9, <1>10, <1>11, <1>12, <1>13
  DEF Next, Submit

\* The server keeps every turn it took.
LEMMA TakenGrows ==
  ASSUME IInv, [Next]_vars
  PROVE  Taken \subseteq Taken'
<1>1. ASSUME NEW r \in requests, Take(r) PROVE Taken \subseteq Taken'
  <2>1. transcript \in Seq(Nat) /\ r.answer \in Nat BY DEF IInv, Types, ServerOK
  <2> QED BY <1>1, <2>1, AppendToSet DEF Take, Taken
<1>2. ASSUME NEW r \in requests, Refuse(r) PROVE UNCHANGED transcript BY <1>2 DEF Refuse
<1>3. ASSUME NEW v \in Views, Submit(v) \/ Stop(v) PROVE UNCHANGED transcript
  BY <1>3 DEF Submit, Post, TurnArrives, ErrorArrives, NoAnswer, Show, Stop
<1>4. CASE FetchHandled \/ Fetched \/ FetchFails \/ Refetch \/ OpenReport
  BY <1>4 DEF FetchHandled, Fetched, FetchFails, Refetch, OpenReport, Taken
<1>5. CASE Send \/ Retry \/ GoOffline \/ GoOnline \/ Leave \/ LeaveError \/ Open
  BY <1>5 DEF Send, Retry, GoOffline, GoOnline, Leave, LeaveError, Open, Taken
<1>6. CASE GreetingArrives \/ VoiceOff \/ VoiceOn \/ Replay
  BY <1>6 DEF GreetingArrives, VoiceOff, VoiceOn, Replay, Taken
<1>7. ASSUME NEW l \in loads, Loaded(l) PROVE UNCHANGED transcript BY <1>7 DEF Loaded
<1>8. CASE AskMic \/ Granted \/ GrantedLate \/ Denied \/ StopRecording
  BY <1>8 DEF AskMic, Granted, GrantedLate, Denied, StopRecording, Taken
<1>9. CASE UNCHANGED vars BY <1>9 DEF vars, Taken
<1>10. UNCHANGED transcript => Taken \subseteq Taken' BY DEF Taken
<1> QED BY <1>1, <1>2, <1>3, <1>4, <1>5, <1>6, <1>7, <1>8, <1>9, <1>10 DEF Next

LEMMA FetchStep ==
  ASSUME IInv, [Next]_vars
  PROVE  FetchInv'
<1>0. FetchInv /\ transcript \in Seq(Nat) /\ ended \in BOOLEAN BY DEF IInv, Types, ServerOK
<1>1. Taken \subseteq Taken' BY TakenGrows
<1>2. /\ NoFetch \in Fetch /\ Asked \in Fetch
      /\ ToSet(NoFetch.turns) = {} /\ ToSet(Asked.turns) = {}
  <2>1. <<>> \in Seq(Nat) /\ ToSet(<<>>) = {} BY DEF ToSet
  <2> QED BY <2>1 DEF NoFetch, Asked, Fetch
<1>3. CASE FetchHandled
  <2>1. fetch' \in Fetch BY <1>0, <1>3 DEF FetchHandled, Fetch
  <2>2. ToSet(fetch'.turns) = Taken BY <1>3 DEF FetchHandled, Taken
  <2> QED BY <1>0, <1>1, <1>3, <2>1, <2>2 DEF FetchHandled, FetchInv
<1>4. CASE failed' \in BOOLEAN /\ fetch' \in {fetch, NoFetch, Asked}
  BY <1>0, <1>1, <1>2, <1>4 DEF FetchInv
<1> QED BY <1>0, <1>3, <1>4, FetchMoves DEF FetchInv

\* Counting the turns with an answer, and the requests with it.
LEMMA TimesOf ==
  ASSUME NEW turns \in Seq(Nat), NEW a
  PROVE  /\ Times(turns, a) \in Nat
         /\ a \notin ToSet(turns) => Times(turns, a) = 0
<1> DEFINE copies == {i \in DOMAIN turns : turns[i] = a}
<1>1. IsFiniteSet(1..Len(turns)) /\ DOMAIN turns = 1..Len(turns) BY FS_Interval
<1>2. IsFiniteSet(copies) BY <1>1, FS_Subset
<1>3. a \notin ToSet(turns) => copies = {} BY DEF ToSet
<1> QED BY <1>2, <1>3, FS_CardinalityType, FS_EmptySet DEF Times

LEMMA TimesAppended ==
  ASSUME NEW turns \in Seq(Nat), NEW answer \in Nat, NEW a
  PROVE  Times(Append(turns, answer), a)
           = IF answer = a THEN Times(turns, a) + 1 ELSE Times(turns, a)
<1> DEFINE copies == {i \in DOMAIN turns : turns[i] = a}
           more == {i \in DOMAIN Append(turns, answer) : Append(turns, answer)[i] = a}
<1>1. DOMAIN Append(turns, answer) = 1..Len(turns) + 1 /\ DOMAIN turns = 1..Len(turns)
      /\ Len(turns) \in Nat
  OBVIOUS
<1>2. \A i \in 1..Len(turns) : Append(turns, answer)[i] = turns[i] OBVIOUS
<1>3. Append(turns, answer)[Len(turns) + 1] = answer OBVIOUS
<1>4. IsFiniteSet(1..Len(turns)) BY <1>1, FS_Interval
<1>5. IsFiniteSet(copies) BY <1>1, <1>4, FS_Subset
<1>6. CASE answer = a
  <2>1. more = copies \cup {Len(turns) + 1} BY <1>1, <1>2, <1>3, <1>6
  <2>2. Len(turns) + 1 \notin copies BY <1>1
  <2> QED BY <1>5, <1>6, <2>1, <2>2, FS_AddElement DEF Times
<1>7. CASE answer # a
  <2>1. more = copies BY <1>1, <1>2, <1>3, <1>7
  <2> QED BY <1>7, <2>1 DEF Times
<1> QED BY <1>6, <1>7

LEMMA CountOf ==
  ASSUME NEW sent, IsFiniteSet(sent), NEW a
  PROVE  /\ Count(sent, a) \in Nat
         /\ (\A r \in sent : r.answer # a) => Count(sent, a) = 0
<1> DEFINE those == {r \in sent : r.answer = a}
<1>1. IsFiniteSet(those) BY FS_Subset
<1>2. (\A r \in sent : r.answer # a) => those = {} OBVIOUS
<1> QED BY <1>1, <1>2, FS_CardinalityType, FS_EmptySet DEF Count

LEMMA CountAdded ==
  ASSUME NEW sent, IsFiniteSet(sent), NEW r, r \notin sent, NEW a
  PROVE  /\ IsFiniteSet(sent \cup {r})
         /\ Count(sent \cup {r}, a) = IF r.answer = a THEN Count(sent, a) + 1 ELSE Count(sent, a)
<1> DEFINE those == {q \in sent : q.answer = a}
           more == {q \in sent \cup {r} : q.answer = a}
<1>1. IsFiniteSet(sent \cup {r}) BY FS_AddElement
<1>2. IsFiniteSet(those) BY FS_Subset
<1>3. more = IF r.answer = a THEN those \cup {r} ELSE those OBVIOUS
<1>4. r \notin those OBVIOUS
<1>5. Cardinality(those \cup {r}) = Cardinality(those) + 1 BY <1>2, <1>4, FS_AddElement
<1> QED BY <1>1, <1>3, <1>5 DEF Count

LEMMA CountRemoved ==
  ASSUME NEW sent, IsFiniteSet(sent), NEW r \in sent, NEW a
  PROVE  /\ IsFiniteSet(sent \ {r})
         /\ Count(sent \ {r}, a) = IF r.answer = a THEN Count(sent, a) - 1 ELSE Count(sent, a)
<1> DEFINE those == {q \in sent : q.answer = a}
           less == {q \in sent \ {r} : q.answer = a}
<1>1. IsFiniteSet(sent \ {r}) BY FS_RemoveElement
<1>2. IsFiniteSet(those) BY FS_Subset
<1>3. less = IF r.answer = a THEN those \ {r} ELSE those OBVIOUS
<1>4. r.answer = a => Cardinality(those \ {r}) = Cardinality(those) - 1
  BY <1>2, FS_RemoveElement
<1> QED BY <1>1, <1>3, <1>4 DEF Count

\* The rest of the steps move no request: at most a failed answer waits again, or a reply
\* is shown.
Quiet ==
  /\ UNCHANGED <<transcript, requests, responses, answers, posts, givenUp>>
  /\ \A v \in Views :
       /\ submits'[v].answer = submits[v].answer /\ submits'[v].post = submits[v].post
       /\ \/ submits'[v].pc \in {submits[v].pc, "idle"} /\ submits[v].pc # "posting"
          \/ submits'[v].pc = submits[v].pc
          \/ submits[v].pc = "failed" /\ submits'[v].pc = "waiting"

LEMMA SendingSteps ==
  ASSUME IInv, [Next]_vars
  PROVE  \/ \E r \in requests : Take(r) \/ Refuse(r)
         \/ Send
         \/ \E v \in Views : Post(v) \/ TurnArrives(v) \/ ErrorArrives(v) \/ NoAnswer(v)
         \/ Quiet
<1>0. PageOK BY DEF IInv, Types
<1> USE <1>0 DEF PageOK, Submission, Quiet
<1>1. CASE Retry BY <1>1 DEF Retry
<1>2. CASE Fetched BY <1>2 DEF Fetched
<1>3. CASE FetchFails BY <1>0, <1>3, SeenOnly DEF FetchFails
<1>14. CASE FetchHandled \/ Refetch \/ OpenReport \/ LeaveError
  BY <1>14 DEF FetchHandled, Refetch, OpenReport, LeaveError
<1>15. CASE GreetingArrives \/ VoiceOff \/ VoiceOn
  BY <1>15 DEF GreetingArrives, VoiceOff, VoiceOn
<1>4. ASSUME NEW v \in Views, Show(v) PROVE Quiet BY <1>4 DEF Show
<1>5. ASSUME NEW v \in Views, Stop(v) PROVE Quiet BY <1>5 DEF Stop
<1>6. CASE GoOffline BY <1>6 DEF GoOffline
<1>7. CASE GoOnline BY <1>7 DEF GoOnline, Unsent
<1>8. CASE Leave BY <1>8 DEF Leave, Unmount
<1>9. CASE Open BY <1>9 DEF Open, Mount
<1>10. CASE Replay BY <1>10 DEF Replay
<1>11. ASSUME NEW l \in loads, Loaded(l) PROVE Quiet BY <1>11 DEF Loaded
<1>12. CASE AskMic \/ Granted \/ GrantedLate \/ Denied \/ StopRecording
  BY <1>12 DEF AskMic, Granted, GrantedLate, Denied, StopRecording
<1>13. CASE UNCHANGED vars BY <1>13 DEF vars
<1> QED
  BY <1>1, <1>2, <1>3, <1>4, <1>5, <1>6, <1>7, <1>8, <1>9, <1>10, <1>11, <1>12, <1>13,
     <1>14, <1>15
  DEF Next, Submit

\* Answers and posts are numbered, so no two views share one.
LEMMA OwnersStep ==
  ASSUME IInv, [Next]_vars
  PROVE  OwnersInv'
<1>0. ServerOK /\ PageOK /\ PostsInv /\ OwnersInv BY DEF IInv, Types
<1> USE <1>0 DEF ServerOK, PageOK, PostsInv, OwnersInv, Submission
<1>1. ASSUME NEW r \in requests, Take(r) PROVE OwnersInv'
  <2>1. Taken' = Taken \cup {r.answer} BY <1>1, AppendToSet DEF Take, Taken
  <2>2. r.answer \in 0..answers OBVIOUS
  <2>3. UNCHANGED <<submits, answers, posts, givenUp>> /\ requests' \subseteq requests
    BY <1>1 DEF Take
  <2> QED BY <2>1, <2>2, <2>3
<1>2. ASSUME NEW r \in requests, Refuse(r) PROVE OwnersInv'
  <2>1. UNCHANGED <<transcript, submits, answers, posts, givenUp>> /\ requests' \subseteq requests
    BY <1>2 DEF Refuse
  <2> QED BY <2>1 DEF Taken
<1>3. CASE Send
  <2>1. UNCHANGED <<transcript, requests, posts, givenUp>> /\ answers' = answers + 1
    BY <1>3 DEF Send
  <2>2. /\ submits'[view].post = submits[view].post /\ submits'[view].pc = "waiting"
        /\ submits'[view].answer = answers + 1
        /\ \A v \in Views \ {view} : submits'[v] = submits[v]
    BY <1>3 DEF Send
  <2>3. \A v \in Views : submits[v].answer \in 0..answers /\ submits[v].answer # answers + 1
    OBVIOUS
  <2>4. submits'[view].answer <= answers' /\ submits'[view].answer # 0 BY <2>1, <2>2
  <2>5. \A v \in Views \ {view} : submits'[v].answer <= answers' BY <2>1, <2>2
  <2>6. ASSUME NEW v \in Views, NEW w \in Views \ {v}
        PROVE  /\ submits'[v].answer = submits'[w].answer => submits'[v].answer = 0
               /\ submits'[v].post = submits'[w].post => submits'[v].post = 0
    <3>1. CASE v = view BY <2>2, <2>3, <3>1
    <3>2. CASE w = view BY <2>2, <2>3, <3>2
    <3>3. CASE v # view /\ w # view BY <2>2, <3>3
    <3> QED BY <3>1, <3>2, <3>3
  <2>7. \A r \in requests' : r.answer <= answers' BY <2>1
  <2>8. Taken' \subseteq 0..answers' BY <2>1 DEF Taken
  <2>9. \A v \in Views : submits'[v].post = submits[v].post BY <2>2
  <2>10. \A p \in givenUp' : /\ p.post \in 1..posts' /\ p.answer \in 0..answers'
                             /\ \A v \in Views : submits'[v].post # p.post
    BY <2>1, <2>9
  <2> QED BY <2>2, <2>4, <2>5, <2>6, <2>7, <2>8, <2>10
<1>4. ASSUME NEW v \in Views, Post(v) PROVE OwnersInv'
  <2>1. UNCHANGED <<transcript, answers, givenUp>> /\ posts' = posts + 1
        /\ requests' = requests \cup {[post |-> posts + 1, answer |-> submits[v].answer]}
    BY <1>4 DEF Post
  <2>2. /\ submits'[v].post = posts + 1 /\ submits'[v].pc = "posting"
        /\ submits'[v].answer = submits[v].answer /\ submits[v].pc = "waiting"
        /\ \A w \in Views \ {v} : submits'[w] = submits[w]
    BY <1>4 DEF Post
  <2>3. posts + 1 # 0 /\ \A w \in Views : submits[w].post # posts + 1 OBVIOUS
  <2>4. ASSUME NEW w \in Views
        PROVE  /\ submits'[w].answer = submits[w].answer
               /\ submits'[w].pc # "idle" => submits[w].pc # "idle"
               /\ submits'[w].pc = "posting" => submits'[w].post # 0
    <3>1. CASE w = v BY <2>2, <2>3, <3>1
    <3>2. CASE w # v
      <4>1. submits'[w] = submits[w] BY <2>2, <3>2
      <4> QED BY <4>1
    <3> QED BY <3>1, <3>2
  <2>5. ASSUME NEW w \in Views, NEW x \in Views \ {w}, submits'[w].post = submits'[x].post
        PROVE  submits'[w].post = 0
    <3>1. CASE w = v BY <2>2, <2>3, <2>5, <3>1
    <3>2. CASE x = v BY <2>2, <2>3, <2>5, <3>2
    <3>3. CASE w # v /\ x # v BY <2>2, <2>5, <3>3
    <3> QED BY <3>1, <3>2, <3>3
  <2>6. \A r \in requests' : r.answer <= answers' BY <2>1
  <2>7. \A p \in givenUp : p.post \in 1..posts + 1 /\ p.post # posts + 1 OBVIOUS
  <2>8. ASSUME NEW p \in givenUp, NEW w \in Views PROVE submits'[w].post # p.post
    <3>1. CASE w = v BY <2>2, <2>7, <3>1
    <3>2. CASE w # v BY <2>2, <3>2
    <3> QED BY <3>1, <3>2
  <2> QED BY <2>1, <2>4, <2>5, <2>6, <2>7, <2>8 DEF Taken
<1>5. ASSUME NEW v \in Views, TurnArrives(v) \/ ErrorArrives(v) PROVE OwnersInv'
  <2>1. UNCHANGED <<transcript, requests, answers, posts, givenUp>>
    BY <1>5 DEF TurnArrives, ErrorArrives
  <2>2. /\ submits'[v].post = 0 /\ submits'[v].pc \in {"speaking", "failed"}
        /\ submits'[v].answer = submits[v].answer /\ submits[v].pc = "posting"
        /\ \A w \in Views \ {v} : submits'[w] = submits[w]
    BY <1>5 DEF TurnArrives, ErrorArrives, Arrive
  <2>3. ASSUME NEW w \in Views
        PROVE  /\ submits'[w].answer = submits[w].answer
               /\ submits'[w].pc # "idle" => submits[w].pc # "idle"
               /\ submits'[w].pc = "posting" => submits'[w].post # 0
               /\ submits'[w].post \in {0, submits[w].post}
    <3>1. CASE w = v BY ONLY <2>2, <3>1
    <3>2. CASE w # v
      <4>1. submits'[w] = submits[w] BY <2>2, <3>2
      <4> QED BY <4>1
    <3> QED BY <3>1, <3>2
  <2>4. \A w \in Views : \A x \in Views \ {w} :
          submits'[w].post = submits'[x].post => submits'[w].post = 0
    BY <2>3
  <2>5. \A p \in givenUp : \A w \in Views : submits'[w].post # p.post BY <2>3
  <2> QED BY <2>1, <2>3, <2>4, <2>5 DEF Taken
<1>6. ASSUME NEW v \in Views, NoAnswer(v) PROVE OwnersInv'
  <2>1. UNCHANGED <<transcript, requests, answers, posts>>
        /\ givenUp' = givenUp \cup {[post |-> submits[v].post, answer |-> submits[v].answer]}
    BY <1>6 DEF NoAnswer
  <2>2. /\ submits'[v].post = 0 /\ submits'[v].pc = "failed"
        /\ submits'[v].answer = submits[v].answer /\ submits[v].pc = "posting"
        /\ \A w \in Views \ {v} : submits'[w] = submits[w]
    BY <1>6 DEF NoAnswer
  <2>3. submits[v].post \in 1..posts /\ submits[v].answer \in 0..answers BY <2>2
  <2>4. ASSUME NEW w \in Views PROVE submits'[w].post # submits[v].post
    <3>1. CASE w = v BY <2>2, <2>3, <3>1
    <3>2. CASE w # v
      <4>1. submits'[w].post = submits[w].post BY <2>2, <3>2
      <4>2. submits[v].post # 0 /\ w \in Views \ {v} BY <2>3, <3>2
      <4> QED BY <4>1, <4>2
    <3> QED BY <3>1, <3>2
  <2>5. ASSUME NEW w \in Views
        PROVE  /\ submits'[w].answer = submits[w].answer
               /\ submits'[w].pc # "idle" => submits[w].pc # "idle"
               /\ submits'[w].pc = "posting" => submits'[w].post # 0
               /\ submits'[w].post \in {0, submits[w].post}
    <3>1. CASE w = v BY ONLY <2>2, <3>1
    <3>2. CASE w # v
      <4>1. submits'[w] = submits[w] BY <2>2, <3>2
      <4> QED BY <4>1
    <3> QED BY <3>1, <3>2
  <2>6. \A w \in Views : \A x \in Views \ {w} :
          submits'[w].post = submits'[x].post => submits'[w].post = 0
    BY <2>5
  <2>7. \A p \in givenUp : \A w \in Views : submits'[w].post # p.post BY <2>5
  <2>8. \A p \in givenUp' : /\ p.post \in 1..posts' /\ p.answer \in 0..answers'
                            /\ \A w \in Views : submits'[w].post # p.post
    BY <2>1, <2>3, <2>4, <2>7
  <2> QED BY <2>1, <2>5, <2>6, <2>8 DEF Taken
<1>7. CASE Quiet
  <2>1. \A v \in Views : /\ submits'[v].answer = submits[v].answer
                         /\ submits'[v].post = submits[v].post
                         /\ submits'[v].pc # "idle" => submits[v].pc # "idle"
                         /\ submits'[v].pc = "posting" => submits[v].pc = "posting"
    BY <1>7 DEF Quiet
  <2> QED BY <1>7, <2>1 DEF Quiet, Taken
<1> QED BY <1>1, <1>2, <1>3, <1>4, <1>5, <1>6, <1>7, SendingSteps

\* An answer is sent when no copy of it, or none but those of requests given up, can be
\* or become a turn.
LEMMA OnceStep ==
  ASSUME IInv, [Next]_vars
  PROVE  OnceInv'
<1>0. ServerOK /\ PageOK /\ PostsInv /\ OwnersInv /\ OnceInv BY DEF IInv, Types
<1> USE DEF Settled, AtMostOne
<1>a. /\ IsFiniteSet(requests) /\ IsFiniteSet(givenUp) /\ transcript \in Seq(Nat)
      /\ answers \in Nat /\ posts \in Nat
  BY <1>0 DEF OnceInv, ServerOK, PageOK
<1>b. \A a : Times(transcript, a) \in Nat /\ Count(requests, a) \in Nat /\ Count(givenUp, a) \in Nat
  BY <1>a, TimesOf, CountOf
<1>c. \A v \in Views : /\ submits[v].answer \in 0..answers /\ submits[v].post \in 0..posts
                       /\ submits[v].pc # "idle" => submits[v].answer \in 1..answers
  BY <1>0 DEF PageOK, PostsInv, OwnersInv, Submission
<1>1. ASSUME NEW r \in requests, Take(r) PROVE OnceInv'
  <2>1. /\ transcript' = Append(transcript, r.answer) /\ requests' = requests \ {r}
        /\ UNCHANGED <<submits, answers, givenUp>>
    BY <1>1 DEF Take
  <2>2. r.answer \in Nat BY <1>0 DEF ServerOK
  <2>3. IsFiniteSet(requests') BY <1>a, <2>1, CountRemoved
  <2>4. \A a : Times(transcript', a) + Count(requests', a) = Times(transcript, a) + Count(requests, a)
    <3> TAKE a
    <3>1. Times(transcript', a) = IF r.answer = a THEN Times(transcript, a) + 1
                                  ELSE Times(transcript, a)
      BY <1>a, <2>1, <2>2, TimesAppended
    <3>2. Count(requests', a) = IF r.answer = a THEN Count(requests, a) - 1 ELSE Count(requests, a)
      BY <1>a, <2>1, CountRemoved
    <3> QED BY <3>1, <3>2, <1>b
  <2>5. \A s \in responses' : s \in responses \/ s.result = "turn" BY <1>1 DEF Take, Answers
  <2> QED BY <1>0, <2>1, <2>3, <2>4, <2>5 DEF OnceInv
<1>2. ASSUME NEW r \in requests, Refuse(r) PROVE OnceInv'
  <2>1. requests' = requests \ {r} /\ UNCHANGED <<transcript, submits, answers, givenUp>>
    BY <1>2 DEF Refuse
  <2>3. IsFiniteSet(requests') BY <1>a, <2>1, CountRemoved
  <2>4. \A a : Count(requests', a) = IF r.answer = a THEN Count(requests, a) - 1
                                     ELSE Count(requests, a)
    BY <1>a, <2>1, CountRemoved
  <2>5. \A s \in responses' : s \in responses \/ s.post = r.post
    <3>1. PICK result, final : Answers(r, result, final) BY <1>2 DEF Refuse
    <3> QED BY <3>1 DEF Answers
  <2>6. ASSUME NEW v \in Views, r.post = submits[v].post
        PROVE  Settled(submits[v].answer)'
    <3>1. r.answer = submits[v].answer /\ r.post \in 1..posts BY <1>0, <2>6 DEF PostsInv
    <3>2. submits[v].pc = "posting" BY <1>0, <1>a, <2>6, <3>1 DEF PostsInv
    <3>3. submits[v].answer \in 1..answers BY <1>c, <3>2
    <3>4. AtMostOne(submits[v].answer) BY <1>0, <3>3 DEF OnceInv
    <3>5. Count(requests', r.answer) = Count(requests, r.answer) - 1 BY <2>4
    <3>6. submits'[v].answer = r.answer BY <2>1, <3>1
    <3>7. /\ Times(transcript, r.answer) \in Nat /\ Count(requests, r.answer) \in Nat
          /\ Count(givenUp, r.answer) \in Nat
      BY <1>b
    <3>8. Times(transcript, r.answer) + Count(requests, r.answer) <= 1 + Count(givenUp, r.answer)
      BY <3>1, <3>4
    <3> QED BY <2>1, <3>5, <3>6, <3>7, <3>8
  <2>7. ASSUME NEW a
        PROVE  /\ AtMostOne(a) => AtMostOne(a)'
               /\ Settled(a) => Settled(a)'
    <3>1. /\ Times(transcript, a) \in Nat /\ Count(requests, a) \in Nat
          /\ Count(givenUp, a) \in Nat
      BY <1>b
    <3>2. Count(requests', a) \in Int /\ Count(requests', a) <= Count(requests, a)
      BY <2>4, <3>1
    <3> QED BY <2>1, <3>1, <3>2
  <2>8. ASSUME NEW v \in Views
        PROVE  /\ submits'[v].pc \in {"waiting", "failed"} => Settled(submits[v].answer)'
               /\ \A s \in responses' :
                    s.post = submits'[v].post /\ s.result # "turn" => Settled(submits[v].answer)'
    <3>1. Settled(submits[v].answer) => Settled(submits[v].answer)' BY <2>1, <2>7
    <3> QED BY <1>0, <2>1, <2>5, <2>6, <3>1 DEF OnceInv
  <2>9. \A a \in 1..answers' : AtMostOne(a)' BY <1>0, <2>1, <2>7 DEF OnceInv
  <2> QED BY <1>a, <2>1, <2>3, <2>8, <2>9 DEF OnceInv
<1>3. CASE Send
  <2>1. UNCHANGED <<transcript, requests, responses, givenUp>> /\ answers' = answers + 1
    BY <1>3 DEF Send
  <2>2. /\ submits'[view].post = submits[view].post /\ submits'[view].pc = "waiting"
        /\ submits'[view].answer = answers + 1
        /\ \A v \in Views \ {view} : submits'[v] = submits[v]
    BY <1>0, <1>3 DEF Send, PageOK, Submission
  <2>3. submits[view].post = 0 BY <1>0, <1>3 DEF Send, Sends, PostsInv, PageOK
  <2>4. \A r \in responses : r.post # 0 BY <1>0 DEF PostsInv
  <2>5. Times(transcript, answers + 1) = 0
    <3>1. answers + 1 \notin ToSet(transcript) BY <1>0, <1>a DEF OwnersInv, Taken
    <3> QED BY <1>a, <3>1, TimesOf
  <2>6. Count(requests, answers + 1) = 0
    <3>1. \A r \in requests : r.answer # answers + 1 BY <1>0, <1>a DEF OwnersInv, ServerOK
    <3> QED BY <1>a, <3>1, CountOf
  <2>7. Settled(answers + 1) BY <1>b, <2>5, <2>6
  <2>8. ASSUME NEW a \in 1..answers + 1 PROVE AtMostOne(a)
    <3>1. CASE a = answers + 1 BY <1>b, <2>5, <2>6, <3>1
    <3>2. CASE a # answers + 1
      <4>1. a \in 1..answers BY <1>a, <3>2
      <4> QED BY <1>0, <4>1 DEF OnceInv
    <3> QED BY <3>1, <3>2
  <2>9. \A v \in Views \ {view} :
          /\ submits'[v].pc \in {"waiting", "failed"} => Settled(submits[v].answer)
          /\ \A r \in responses :
               r.post = submits'[v].post /\ r.result # "turn" => Settled(submits[v].answer)
    BY <1>0, <2>2 DEF OnceInv
  <2> QED BY <1>a, <2>1, <2>2, <2>3, <2>4, <2>7, <2>8, <2>9 DEF OnceInv
<1>4. ASSUME NEW v \in Views, Post(v) PROVE OnceInv'
  <2> DEFINE q == [post |-> posts + 1, answer |-> submits[v].answer]
  <2>1. UNCHANGED <<transcript, answers, givenUp, responses>> /\ requests' = requests \cup {q}
    BY <1>4 DEF Post
  <2>2. /\ submits'[v].post = posts + 1 /\ submits'[v].pc = "posting"
        /\ submits'[v].answer = submits[v].answer /\ submits[v].pc = "waiting"
        /\ \A w \in Views \ {v} : submits'[w] = submits[w]
    BY <1>0, <1>4 DEF Post, PageOK, Submission
  <2>3. q.answer = submits[v].answer /\ q.post = posts + 1 OBVIOUS
  <2>4. q \notin requests BY <1>0, <1>a, <2>3 DEF PostsInv
  <2> HIDE DEF q
  <2>5. IsFiniteSet(requests') BY <1>a, <2>1, <2>4, CountAdded
  <2>6. \A a : Count(requests', a) = IF submits[v].answer = a THEN Count(requests, a) + 1
                                     ELSE Count(requests, a)
    <3> TAKE a
    <3>1. Count(requests', a) = IF q.answer = a THEN Count(requests, a) + 1
                                ELSE Count(requests, a)
      BY <1>a, <2>1, <2>4, CountAdded
    <3> QED BY <2>3, <3>1
  <2>7. Settled(submits[v].answer) BY <1>0, <2>2 DEF OnceInv
  <2>8. ASSUME NEW a \in 1..answers' PROVE AtMostOne(a)'
    <3>1. AtMostOne(a) BY <1>0, <2>1 DEF OnceInv
    <3>2. /\ Times(transcript, a) \in Nat /\ Count(requests, a) \in Nat
          /\ Count(givenUp, a) \in Nat
      BY <1>b
    <3>3. CASE a = submits[v].answer
      <4>1. Count(requests', a) = Count(requests, a) + 1 BY <2>6, <3>3
      <4>2. Times(transcript, a) + Count(requests, a) <= Count(givenUp, a) BY <2>7, <3>3
      <4> QED BY <2>1, <3>2, <4>1, <4>2
    <3>4. CASE a # submits[v].answer BY <2>1, <2>6, <3>1, <3>4
    <3> QED BY <3>3, <3>4
  <2>9. ASSUME NEW w \in Views
        PROVE  /\ submits'[w].pc \in {"waiting", "failed"} => Settled(submits[w].answer)'
               /\ \A r \in responses' : r.post = submits'[w].post /\ r.result # "turn" =>
                    Settled(submits[w].answer)'
    <3>1. CASE w = v
      <4>1. \A r \in responses : r.post # posts + 1 BY <1>0, <1>a DEF PostsInv
      <4> QED BY <2>1, <2>2, <3>1, <4>1
    <3>2. CASE w # v
      <4>1. submits'[w] = submits[w] BY <2>2, <3>2
      <4>2. submits[v].answer # 0 /\ submits[v].answer # submits[w].answer
        BY <1>0, <2>2, <3>2 DEF OwnersInv
      <4>3. Count(requests', submits[w].answer) = Count(requests, submits[w].answer)
        BY <2>6, <4>2
      <4> QED BY <1>0, <2>1, <4>1, <4>3 DEF OnceInv
    <3> QED BY <3>1, <3>2
  <2> QED BY <1>a, <2>1, <2>5, <2>8, <2>9 DEF OnceInv
<1>5. ASSUME NEW v \in Views, TurnArrives(v) \/ ErrorArrives(v) PROVE OnceInv'
  <2>1. UNCHANGED <<transcript, requests, answers, givenUp>> /\ responses' \subseteq responses
    BY <1>5 DEF TurnArrives, ErrorArrives, Arrive
  <2>2. /\ submits'[v].post = 0 /\ submits'[v].answer = submits[v].answer
        /\ submits'[v].pc \in {"speaking", "failed"}
        /\ \A w \in Views \ {v} : submits'[w] = submits[w]
    BY <1>0, <1>5 DEF TurnArrives, ErrorArrives, PageOK, Submission
  <2>3. submits'[v].pc = "failed" => Settled(submits[v].answer)
    BY <1>0, <1>5 DEF TurnArrives, ErrorArrives, Arrive, PageOK, Submission, OnceInv
  <2>4. \A r \in responses : r.post # 0 BY <1>0 DEF PostsInv
  <2> QED BY <1>0, <2>1, <2>2, <2>3, <2>4 DEF OnceInv
<1>6. ASSUME NEW v \in Views, NoAnswer(v) PROVE OnceInv'
  <2> DEFINE p == [post |-> submits[v].post, answer |-> submits[v].answer]
  <2>1. UNCHANGED <<transcript, requests, answers>> /\ responses' \subseteq responses
        /\ givenUp' = givenUp \cup {p}
    BY <1>6 DEF NoAnswer
  <2>2. /\ submits'[v].post = 0 /\ submits'[v].pc = "failed"
        /\ submits'[v].answer = submits[v].answer /\ submits[v].pc = "posting"
        /\ \A w \in Views \ {v} : submits'[w] = submits[w]
    BY <1>0, <1>6 DEF NoAnswer, PageOK, Submission
  <2>3. p.answer = submits[v].answer /\ p.post = submits[v].post OBVIOUS
  <2>4. p \notin givenUp BY <1>0, <2>3 DEF OwnersInv
  <2> HIDE DEF p
  <2>5. IsFiniteSet(givenUp') BY <1>a, <2>1, <2>4, CountAdded
  <2>6. \A a : Count(givenUp', a) = IF submits[v].answer = a THEN Count(givenUp, a) + 1
                                    ELSE Count(givenUp, a)
    <3> TAKE a
    <3>1. Count(givenUp', a) = IF p.answer = a THEN Count(givenUp, a) + 1
                               ELSE Count(givenUp, a)
      BY <1>a, <2>1, <2>4, CountAdded
    <3> QED BY <2>3, <3>1
  <2>7. AtMostOne(submits[v].answer) BY <1>0, <1>c, <2>2 DEF OnceInv
  <2>8. Settled(submits[v].answer)'
    <3> DEFINE a == submits[v].answer
    <3>1. Count(givenUp', a) = Count(givenUp, a) + 1 BY <2>6
    <3>2. /\ Times(transcript, a) \in Nat /\ Count(requests, a) \in Nat
          /\ Count(givenUp, a) \in Nat
      BY <1>b
    <3> QED BY <2>1, <2>2, <2>7, <3>1, <3>2
  <2>9. \A a \in 1..answers' : AtMostOne(a)'
    <3>1. ASSUME NEW a \in 1..answers' PROVE AtMostOne(a)'
      <4>1. AtMostOne(a) BY <1>0, <2>1, <3>1 DEF OnceInv
      <4>2. /\ Times(transcript, a) \in Nat /\ Count(requests, a) \in Nat
            /\ Count(givenUp, a) \in Nat
        BY <1>b
      <4>3. Count(givenUp', a) \in Nat /\ Count(givenUp, a) <= Count(givenUp', a)
        BY <2>6, <4>2
      <4> QED BY <2>1, <4>1, <4>2, <4>3
    <3> QED BY <3>1
  <2>10. \A r \in responses : r.post # 0 BY <1>0 DEF PostsInv
  <2>11. ASSUME NEW w \in Views \ {v}
         PROVE  /\ submits'[w].pc \in {"waiting", "failed"} => Settled(submits[w].answer)'
                /\ \A r \in responses' : r.post = submits'[w].post /\ r.result # "turn" =>
                     Settled(submits[w].answer)'
    <3>1. submits'[w] = submits[w] BY <2>2
    <3>2. Settled(submits[w].answer) => Settled(submits[w].answer)' BY <1>b, <2>1, <2>6, <3>1
    <3> QED BY <1>0, <2>1, <3>1, <3>2 DEF OnceInv
  <2> QED BY <1>a, <2>1, <2>2, <2>5, <2>8, <2>9, <2>10, <2>11 DEF OnceInv
<1>7. CASE Quiet
  <2>1. UNCHANGED <<transcript, requests, responses, answers, givenUp>> BY <1>7 DEF Quiet
  <2>2. \A v \in Views : /\ submits'[v].answer = submits[v].answer
                         /\ submits'[v].post = submits[v].post
                         /\ submits'[v].pc \in {"waiting", "failed"} =>
                              submits[v].pc \in {"waiting", "failed"}
    BY <1>7 DEF Quiet
  <2> QED BY <1>0, <2>1, <2>2 DEF OnceInv
<1> QED BY <1>1, <1>2, <1>3, <1>4, <1>5, <1>6, <1>7, SendingSteps

-----------------------------------------------------------------------------
(* The invariant, and what follows from it.                                *)

\* The page is opened for the first time, and nothing has been said.
LEMMA InitIInv == Init => IInv
<1> SUFFICES ASSUME Init PROVE IInv OBVIOUS
<1> USE DEF Init
<1>1. 1 \in Views BY BoundsAssumption DEF Views
<1>2. <<>> \in Seq(Nat) /\ ToSet(<<>>) = {} BY DEF ToSet
<1>3. ServerOK BY <1>2 DEF ServerOK
<1>4. PageOK
  <2>1. NoSubmit \in Submission BY <1>2 DEF NoSubmit, Submission
  <2>2. cache \in [turns : Seq(Nat), ended : BOOLEAN] BY <1>2
  <2> QED BY <1>1, <2>1, <2>2 DEF PageOK
<1>5. VoiceOK
  <2>1. speech \in [Views -> Speech] BY DEF Silent, Speech
  <2>2. MicOK BY DEF MicOK, NoMic
  <2> QED BY <2>1, <2>2 DEF VoiceOK
<1>6. MicInv BY DEF MicInv, MicReleased, NoMic
<1>7. SpeechInv BY DEF SpeechInv, SpeechIsCurrent, Silent
<1>8. PostsInv BY DEF PostsInv, NoSubmit
<1>9. TurnsInv BY <1>2 DEF TurnsInv, Taken, NoSubmit
<1>10. OwnersInv BY <1>2 DEF OwnersInv, Taken, NoSubmit
<1>12. FetchInv BY <1>2 DEF FetchInv, Fetch, NoFetch
<1>11. OnceInv BY FS_EmptySet DEF OnceInv, NoSubmit
<1> QED BY <1>3, <1>4, <1>5, <1>6, <1>7, <1>8, <1>9, <1>10, <1>11, <1>12 DEF IInv, Types

LEMMA NextIInv == IInv /\ [Next]_vars => IInv'
<1> SUFFICES ASSUME IInv, [Next]_vars PROVE IInv' OBVIOUS
<1>1. ServerOK' BY ServerStep
<1>2. PageOK' BY PageStep
<1>3. VoiceOK' BY VoiceStep
<1>4. MicInv' BY MicStep
<1>5. SpeechInv' BY SpeechStep
<1>6. PostsInv' BY PostsStep
<1>7. TurnsInv' BY TurnsStep
<1>8. OwnersInv' BY OwnersStep
<1>9. OnceInv' BY OnceStep
<1>10. FetchInv' BY FetchStep
<1> QED BY <1>1, <1>2, <1>3, <1>4, <1>5, <1>6, <1>7, <1>8, <1>9, <1>10 DEF IInv, Types

\* The invariant holds however often the page is left and opened.
THEOREM Invariance == Spec => []IInv
<1>1. Init => IInv BY InitIInv
<1>2. IInv /\ [Next]_vars => IInv' BY NextIInv
<1> QED BY <1>1, <1>2, PTL DEF Spec

\* Reconnecting, retrying and leaving the page send an answer again only if the answer to
\* its request was lost.
THEOREM AnswersSentOnce == Spec => []SentAgainOnlyIfLost
<1>1. ASSUME IInv PROVE SentAgainOnlyIfLost
  <2>1. SUFFICES ASSUME NEW a \in 1..answers
                 PROVE  Times(transcript, a) <= 1 + Count(givenUp, a)
    BY DEF SentAgainOnlyIfLost, Copies, Times, Count
  <2>2. AtMostOne(a) BY <1>1 DEF IInv, OnceInv
  <2>3. /\ Times(transcript, a) \in Nat /\ Count(requests, a) \in Nat
        /\ Count(givenUp, a) \in Nat
    BY <1>1, TimesOf, CountOf DEF IInv, Types, ServerOK, OnceInv
  <2> QED BY <2>2, <2>3 DEF AtMostOne
<1> QED BY <1>1, Invariance, PTL

\* The microphone is on only for a recording that the page shows, or astray.
THEOREM MicrophoneReleased == Spec => []MicReleased
<1>1. IInv => MicReleased BY DEF IInv, MicInv
<1> QED BY <1>1, Invariance, PTL

\* What is heard was asked for last, and on the page that is open or as a late reply.
THEOREM SpeechCurrent == Spec => []SpeechIsCurrent
<1>1. IInv => SpeechIsCurrent BY DEF IInv, SpeechInv
<1> QED BY <1>1, Invariance, PTL

\* The cache changes when a reply is shown and when the interview was fetched again.
LEMMA CacheStep ==
  ASSUME [Next]_vars
  PROVE  \/ UNCHANGED cache
         \/ Fetched
         \/ \E v \in Views : Show(v)
<1>1. ASSUME NEW r \in requests, Take(r) \/ Refuse(r) PROVE UNCHANGED cache
  BY <1>1 DEF Take, Refuse
<1>2. ASSUME NEW v \in Views,
             Post(v) \/ TurnArrives(v) \/ ErrorArrives(v) \/ NoAnswer(v) \/ Stop(v)
      PROVE  UNCHANGED cache
  BY <1>2 DEF Post, TurnArrives, ErrorArrives, NoAnswer, Stop
<1>3. CASE Send \/ Retry \/ GoOffline \/ GoOnline \/ Leave \/ LeaveError \/ Open
  BY <1>3 DEF Send, Retry, GoOffline, GoOnline, Leave, LeaveError, Open
<1>4. CASE FetchHandled \/ FetchFails \/ Refetch \/ OpenReport
  BY <1>4 DEF FetchHandled, FetchFails, Refetch, OpenReport
<1>5. CASE GreetingArrives \/ VoiceOff \/ VoiceOn \/ Replay
  BY <1>5 DEF GreetingArrives, VoiceOff, VoiceOn, Replay
<1>6. ASSUME NEW l \in loads, Loaded(l) PROVE UNCHANGED cache BY <1>6 DEF Loaded
<1>7. CASE AskMic \/ Granted \/ GrantedLate \/ Denied \/ StopRecording
  BY <1>7 DEF AskMic, Granted, GrantedLate, Denied, StopRecording
<1>8. CASE UNCHANGED vars BY <1>8 DEF vars
<1> QED BY <1>1, <1>2, <1>3, <1>4, <1>5, <1>6, <1>7, <1>8 DEF Next, Submit

\* A reply is appended to what its page showed last.
LEMMA ShowKeeps ==
  ASSUME IInv, NEW v \in Views, Show(v)
  PROVE  \/ ToSet(cache.turns) \subseteq ToSet(cache'.turns)
         \/ ~Shown
         \/ v \in 1..view - 1 /\ submits[v].pc = "speaking" /\ submits'[v].pc = "idle"
<1> USE DEF IInv, Types, PageOK
<1>1. submits[v].answer \in Nat /\ cache.turns \in Seq(Nat) BY DEF Submission
<1>2. cache'.turns = Append(Rendered(v), submits[v].answer) BY DEF Show, Renders
<1>3. CASE Shown /\ v = view
  <2>1. cache'.turns = Append(cache.turns, submits[v].answer) BY <1>2, <1>3 DEF Rendered
  <2> QED BY <1>1, <2>1, AppendToSet
<1>4. CASE v # view
  <2>1. v \in Nat /\ v >= 1 /\ view \in Nat BY BoundsAssumption DEF Views
  <2>2. submits[v].pc = "speaking" BY DEF Show
  <2>3. ~(v > view) BY <2>2 DEF PostsInv
  <2>4. v \in 1..view - 1 BY <1>4, <2>1, <2>3
  <2>5. submits'[v].pc = "idle" BY DEF Show, Submission
  <2> QED BY <2>2, <2>4, <2>5
<1> QED BY <1>3, <1>4

\* A fetch brings what was shown, or is older than the last turn that was taken.
LEMMA FetchedKeeps ==
  ASSUME IInv, Fetched
  PROVE  \/ ToSet(cache.turns) \subseteq ToSet(cache'.turns)
         \/ fetch.pc = "answered" /\ fetch'.pc = "none" /\ fetch.turns # transcript
<1>1. cache'.turns = fetch.turns /\ fetch.pc = "answered" /\ fetch'.pc = "none"
  BY DEF Fetched, Renders, NoFetch
<1>2. ToSet(cache.turns) \subseteq ToSet(transcript) BY DEF IInv, TurnsInv, Taken
<1> QED BY <1>1, <1>2

\* The page shows only turns that the server took, and while the interview is on the
\* screen they stay, but for late replies and late fetches.
THEOREM ShownTurnsStay == Spec => ShownStays
<1> DEFINE Stays ==
      /\ ToSet(cache'.turns) \subseteq ToSet(transcript')
      /\ Shown /\ Shown' =>
           \/ ToSet(cache.turns) \subseteq ToSet(cache'.turns)
           \/ \E v \in 1..view - 1 :
                submits[v].pc = "speaking" /\ submits'[v].pc = "idle"
           \/ fetch.pc = "answered" /\ fetch'.pc = "none" /\ fetch.turns # transcript
<1>1. ASSUME IInv, [Next]_vars PROVE Stays
  <2>1. ToSet(cache'.turns) \subseteq ToSet(transcript') BY <1>1, TurnsStep DEF TurnsInv, Taken
  <2>2. CASE UNCHANGED cache BY <2>1, <2>2
  <2>3. CASE Fetched BY <1>1, <2>1, <2>3, FetchedKeeps
  <2>4. ASSUME NEW v \in Views, Show(v) PROVE Stays BY <1>1, <2>1, <2>4, ShowKeeps
  <2> QED BY <1>1, <2>2, <2>3, <2>4, CacheStep
<1>2. IInv /\ [Next]_vars => [Stays]_vars BY <1>1
<1> QED BY <1>2, Invariance, PTL DEF Spec, ShownStays
=============================================================================
