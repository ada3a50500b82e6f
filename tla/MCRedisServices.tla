--------------------------- MODULE MCRedisServices ---------------------------
(* An instance for TLC: Redis configured by its URL, or switched off.       *)
EXTENDS RedisServices

Environments == {[url |-> TRUE, enabled |-> "unset"], [url |-> TRUE, enabled |-> "false"]}
=============================================================================
