--------------------------- MODULE MCChatRequest ---------------------------
(***************************************************************************)
(* Instances of the chat endpoint for TLC.  Requests are interchangeable.  *)
(***************************************************************************)
EXTENDS ChatRequest, TLC

RequestSymmetry == Permutations(Requests)
=============================================================================
