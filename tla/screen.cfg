\* The interview shown twice: two answers in three requests, or one with its voice and
\* microphones.
SPECIFICATION Spec
CONSTANTS
  MaxViews = 2
  MaxAnswers = 2
  MaxPosts = 3
  MaxClips = 3
  MaxAsks = 2
CONSTRAINT Bounded
INVARIANTS
  SentAgainOnlyIfLost
  SpeechIsCurrent
  MicReleased
PROPERTIES
  ShownStays
\* The candidate may stop answering.
CHECK_DEADLOCK FALSE
