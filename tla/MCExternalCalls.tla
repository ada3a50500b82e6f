-------------------------- MODULE MCExternalCalls --------------------------
(* Two turns beside each other, three in all, over one midnight; a list of   *)
(* fallbacks that names the primary, an unknown provider and one twice.     *)
EXTENDS ExternalCalls

MCFallbackList == <<"qwen", "deepseek", "qwen", "other">>
=============================================================================
