--------------------------- MODULE SourceBuffers ---------------------------
(***************************************************************************)
(* What the event buffer promises of each source: its events are in the    *)
(* order they were read; an insertion appends a batch and may evict, from  *)
(* any source, the oldest events, never one that is newer than an event it *)
(* keeps; every other operation cuts one end of one source.                *)
(***************************************************************************)
EXTENDS Naturals, Sequences, SequencesExt

CONSTANTS Sources, Events

VARIABLES
    buffer,     \* the events of each source, oldest first
    pending     \* the events of each source that are read and not inserted

vars == <<buffer, pending>>

Init ==
    /\ buffer = [s \in Sources |-> <<>>]
    /\ pending = [s \in Sources |-> <<>>]

Read(s) ==
    /\ \E e \in Events : pending' = [pending EXCEPT ![s] = Append(@, e)]
    /\ UNCHANGED buffer

Insert(s) ==
    /\ pending' = [pending EXCEPT ![s] = <<>>]
    /\ IsSuffix(buffer'[s], buffer[s] \o pending[s])
    /\ \A t \in Sources \ {s} : IsSuffix(buffer'[t], buffer[t])

CutOldest(s) ==
    /\ \E k \in 0..Len(buffer[s]) :
           buffer' = [buffer EXCEPT ![s] = SubSeq(@, k + 1, Len(@))]
    /\ UNCHANGED pending

CutNewest(s) ==
    /\ \E k \in 0..Len(buffer[s]) :
           buffer' = [buffer EXCEPT ![s] = SubSeq(@, 1, k)]
    /\ UNCHANGED pending

Next ==
    \E s \in Sources : Read(s) \/ Insert(s) \/ CutOldest(s) \/ CutNewest(s)

Spec == Init /\ [][Next]_vars
=============================================================================
