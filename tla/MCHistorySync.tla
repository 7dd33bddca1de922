--------------------------- MODULE MCHistorySync ---------------------------
(* Small instances of HistorySync for TLC. *)
EXTENDS HistorySync

CONSTANTS alice, group, status, m1, m2, m3, m4, bad, f1, f2

\* Batches overlap: m2 is sent twice.  One conversation is untracked, one
\* has nothing to cache.  alice gets more than one chunk.
Bootstrap == [type |-> "bootstrap", complete |-> FALSE,
              convs |-> <<[chat |-> alice, msgs |-> <<m1, m2>>],
                          [chat |-> status, msgs |-> <<m4>>]>>]
Recent    == [type |-> "recent", complete |-> TRUE,
              convs |-> <<[chat |-> group, msgs |-> <<bad>>],
                          [chat |-> alice, msgs |-> <<m2, bad, m3, m4>>],
                          [chat |-> group, msgs |-> <<m1>>]>>]
Names     == [type |-> "other", complete |-> FALSE, convs |-> <<>>]
OnDemand  == [type |-> "on_demand", complete |-> FALSE,
              convs |-> <<[chat |-> group, msgs |-> <<m4, bad>>]>>]
Again     == [type |-> "recent", complete |-> TRUE,
              convs |-> <<[chat |-> group, msgs |-> <<m2>>]>>]

\* As wiki/History-Sync.md tells it: RECENT comes last.
AsDocumented == <<Bootstrap, Names, Recent, OnDemand>>
\* Batches that overlap, and two RECENT batches that say they are complete.
First        == [type |-> "recent", complete |-> TRUE,
                 convs |-> <<[chat |-> alice, msgs |-> <<m1, m2, m3>>]>>]
Second       == [type |-> "full", complete |-> FALSE,
                 convs |-> <<[chat |-> alice, msgs |-> <<m3, m4>>]>>]
Overlapping  == <<First, Second>>
Repeated     == <<Again, Again>>

Play(history, flushes, faults) == [history |-> history, flushes |-> flushes, faults |-> faults]
PassScenarios ==
    <<Play(AsDocumented, {f1, f2}, {}),
      Play(AsDocumented, {f1, f2}, {"context", "logout"}),
      Play(Repeated, {f1}, {"early", "store", "publish", "expiry", "logout"}),
      Play(Overlapping, {f1}, {"early", "store", "publish", "context", "expiry", "restart"})>>
PublishFails == <<Play(AsDocumented, {f1}, {"publish"})>>
LogsOut      == <<Play(AsDocumented, {f1}, {"logout"})>>
=============================================================================
