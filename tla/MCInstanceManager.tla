------------------------- MODULE MCInstanceManager -------------------------
(* Small instances of InstanceManager for TLC. *)
EXTENDS InstanceManager, TLC

\* Structs, clients and requests of a kind are interchangeable; nothing
\* orders them.
Symmetry == Permutations(Objects) \cup Permutations(Clients)
            \cup Permutations(Devices) \cup Permutations(Deletes)
            \cup Permutations(Logouts) \cup Permutations(Polls)

\* Structs and clients that something still refers to.
InUse(o) ==
    \/ \E id \in Ids : instances[id] = o
    \/ \E d \in Deletes : del[d].inst = o
    \/ \E l \in Logouts : lo[l].inst = o
    \/ \E p \in Polls : po[p].inst = o

Busy(c) ==
    \/ client[c].ws # "off" \/ handler[c].pc # "idle" \/ connects[c] > 0
    \/ \E o \in Objects : InUse(o) /\ object[o].service = c
    \/ \E p \in Polls : po[p].client = c

\* Two states with the same Core differ in garbage, in Dedup, which no step
\* reads, and in the histories, which no step reads either; a view adds the
\* ones that the properties of the run read.
Core ==
    <<phase, instances, handler, connects, rebuilds, request, rows, registered,
      linked, paired,
      [o \in Objects |-> IF InUse(o) THEN [object[o] EXCEPT !.dedup = FALSE]
                         ELSE [FreeObject EXCEPT !.id = object[o].id]],
      [c \in Clients |-> IF Busy(c) THEN client[c]
                         ELSE [FreeClient EXCEPT !.id = client[c].id]]>>

DeleteView == <<Core, {c \in loose : Busy(c)}>>
SingleView == <<Core, announced, stray = {}>>

\* What is going on: requests, events that a handler is working on, lost
\* connections.  The bounds leave any two, or three, of them at a time.
Activity ==
    Cardinality({d \in Deletes : del[d].pc # "idle"})
      + Cardinality({l \in Logouts : lo[l].pc # "idle"})
      + Cardinality({p \in Polls : po[p].pc # "idle"})
      + Cardinality({c \in Clients : handler[c].pc # "idle"})
      + Cardinality({c \in Clients : client[c].ws = "lost"})

TwoAtATime   == Activity <= 2
ThreeAtATime == Activity <= 3
=============================================================================
