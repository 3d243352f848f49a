\* The interview opened twice, one answer in one request, no voice and no microphone.
SPECIFICATION FairSpec
CONSTANTS
  MaxViews = 2
  MaxAnswers = 1
  MaxPosts = 1
  MaxClips = 0
  MaxAsks = 0
PROPERTIES
  LostAnswerIsSaved
\* The candidate may stop answering.
CHECK_DEADLOCK FALSE
