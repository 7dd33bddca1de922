-------------------------- MODULE MCEventPipeline --------------------------
(* Small instances of EventPipeline for TLC. *)
EXTENDS EventPipeline

CONSTANTS logged_in, message, history_sync, u1, u2, w1, w2

\* No filters, a system event alone, a system event beside another type.
PlainLists == {{}, {Exactly(logged_in)}, {Exactly(message), Exactly(logged_in)}}

\* An empty entry, one with spaces around it beside a plain one, two in one.
Padded(type)  == {[name |-> type, padded |-> TRUE]}
Both(t, type) == Exactly(t) \cup Padded(type)
RoughLists    == {{}, {Exactly(Blank)}, {Padded(message), Exactly(history_sync)},
                  {Both(message, logged_in)}}

Default(url, filters, publish) == [webhook |-> url, filters |-> filters, publish |-> publish]
PlainDefaults  == {Default(u1, {Exactly(message)}, "unset"), Default(NoUrl, {}, "off")}
SystemDefaults == {Default(u1, {Exactly(logged_in), Exactly(message)}, "on"),
                   Default(u1, {Exactly(logged_in)}, "on")}
RoughDefaults  == {Default(u1, {Padded(message)}, "on"), Default(u1, {}, "on")}
OneDefault     == {Default(u1, {Exactly(message)}, "unset")}

FewLists == {{}, {Exactly(message), Exactly(logged_in)}}

Play(multi, values, lists, workers, events) ==
    [multi |-> multi, defaults |-> values, lists |-> lists, workers |-> workers,
     events |-> events]
PassScenarios ==
    <<Play(TRUE, PlainDefaults, PlainLists, {w1}, {"publish", "update", "restart", "flush"}),
      Play(TRUE, SystemDefaults, PlainLists, {w1}, {"store", "update"}),
      Play(TRUE, OneDefault, FewLists, {w1, w2}, {"publish"}),
      Play(TRUE, RoughDefaults, RoughLists, {w1}, {"update"}),
      Play(FALSE, SystemDefaults \cup RoughDefaults, {{}}, {w1}, {"publish", "flush"})>>
SystemDefaultsInMultiMode == <<Play(TRUE, SystemDefaults, PlainLists, {w1}, {})>>
Rough == <<Play(TRUE, RoughDefaults, RoughLists, {w1}, {})>>
=============================================================================
