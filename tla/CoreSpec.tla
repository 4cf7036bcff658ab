------------------------------- MODULE CoreSpec -------------------------------
(* What a Core promises to the FxManager: it accepts subintegrations until it *)
(* is told to stop, holds at most RECEIVE_RING_LENGTH of them, and returns    *)
(* for each one, in the order they were dispatched and exactly once, the      *)
(* accumulated result of all its process threads.                             *)
EXTENDS Naturals, Sequences

CONSTANTS
    Threads,        \* the process threads of this Core
    MaxSubints,     \* bound: subintegrations the manager may dispatch to it
    ConfigOf        \* configuration of the scan each subintegration belongs to

VARIABLES
    received,       \* number of subintegrations accepted so far
    sent,           \* the results returned so far
    stopped         \* the terminate message has arrived

vars == <<received, sent, stopped>>

RECEIVE_RING_LENGTH == 4

\* A thread's contribution to a result: on its k-th pass it worked on the data
\* of subintegration k, set up for that subintegration's configuration.
Contribution(k, t) == <<k, t, k, ConfigOf[k]>>

\* The result of subintegration k: one contribution of every thread, no more.
Whole(k) == {Contribution(k, t) : t \in Threads}

Init == received = 0 /\ sent = <<>> /\ stopped = FALSE

Receive == /\ ~stopped
           /\ received < MaxSubints
           /\ received - Len(sent) < RECEIVE_RING_LENGTH
           /\ received' = received + 1
           /\ UNCHANGED <<sent, stopped>>

Return == /\ Len(sent) < received
          /\ sent' = Append(sent, Whole(Len(sent)))
          /\ UNCHANGED <<received, stopped>>

Stop == /\ ~stopped
        /\ stopped' = TRUE
        /\ UNCHANGED <<received, sent>>

Next == Receive \/ Return \/ Stop

Safety == Init /\ [][Next]_vars

\* Once stopped, everything that was accepted is returned.
Spec == Safety /\ WF_vars(stopped /\ Return)
===============================================================================
