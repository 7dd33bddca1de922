--------------------------- MODULE MCEventTracking ---------------------------
(* Small instances of EventTracking for TLC. *)
EXTENDS EventTracking

\* Chats with failing statements; app state with and without failures.
PassScenes == {
    [chats |-> TRUE,  appState |-> FALSE, reliable |-> FALSE, renames |-> 0],
    [chats |-> FALSE, appState |-> TRUE,  reliable |-> FALSE, renames |-> 1],
    [chats |-> FALSE, appState |-> TRUE,  reliable |-> TRUE,  renames |-> 2]}
=============================================================================
