---------------------------- MODULE MCLlmGateway ----------------------------
(* A turn or synthesis, a synthesis or judge, and a transcription or upload, *)
(* for TLC.                                                                  *)
EXTENDS LlmGateway

CONSTANTS turn, speech, other, listRepos, invented

TheRequests == {turn, speech, other}
KindsOf(r) ==
  IF r = turn THEN {"turn", "speech"}
  ELSE IF r = speech THEN {"speech", "structured"}
  ELSE {"transcription", "extraction"}
TheTools == {listRepos}
NoSuchTool == {invented}
=============================================================================
