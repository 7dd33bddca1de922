------------------------------- MODULE Limiter -------------------------------
(***************************************************************************)
(* What a limiter promises: at most cap callers are busy at a time (any    *)
(* number if cap is 0), and those who wait are let in in the order in      *)
(* which they came, as soon as somebody leaves.                            *)
(***************************************************************************)
EXTENDS Naturals, Sequences, FiniteSets

CONSTANT Callers

VARIABLES
    cap,   \* how many may be busy
    line,  \* who waits, in order
    busy   \* who has been let in

limiterVars == <<cap, line, busy>>

Waiting == {line[i] : i \in DOMAIN line}
Full    == cap # 0 /\ Cardinality(busy) >= cap

Init == cap \in Nat /\ line = <<>> /\ busy = {}

Enter(c) ==
    /\ c \notin busy \cup Waiting
    /\ ~Full
    /\ busy' = busy \cup {c}
    /\ UNCHANGED <<cap, line>>

Wait(c) ==
    /\ c \notin busy \cup Waiting
    /\ Full
    /\ line' = Append(line, c)
    /\ UNCHANGED <<cap, busy>>

GiveUp(c) ==
    /\ \E i \in DOMAIN line :
         /\ line[i] = c
         /\ line' = SubSeq(line, 1, i - 1) \o SubSeq(line, i + 1, Len(line))
    /\ UNCHANGED <<cap, busy>>

\* Whoever is first in line takes the place at once.
Leave(c) ==
    /\ c \in busy
    /\ IF line = <<>>
       THEN busy' = busy \ {c} /\ UNCHANGED line
       ELSE busy' = (busy \ {c}) \cup {Head(line)} /\ line' = Tail(line)
    /\ UNCHANGED cap

Next == \E c \in Callers : Enter(c) \/ Wait(c) \/ GiveUp(c) \/ Leave(c)

Spec == Init /\ [][Next]_limiterVars
=============================================================================
