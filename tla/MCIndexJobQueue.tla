--------------------------- MODULE MCIndexJobQueue ---------------------------
EXTENDS IndexJobQueue

\* Every kind of request the callers make, and one that joins a queued warm job with a more
\* urgent priority and a signal of its own.
Search == [priority |-> "interactive", key |-> NoKey, signal |-> TRUE]
Reindex(key) == [priority |-> "reindex", key |-> key, signal |-> TRUE]
Warm(key) == [priority |-> "warm", key |-> key, signal |-> FALSE]
Upgrade(key) == [priority |-> "interactive", key |-> key, signal |-> TRUE]

CONSTANTS ReindexKey, WarmKey
MCKeys == {ReindexKey, WarmKey}
MCRequests == {Search, Reindex(ReindexKey), Warm(WarmKey), Upgrade(WarmKey)}
=============================================================================
