--------------------------- MODULE CommandStream ---------------------------
(***************************************************************************)
(* What a client of the TCP command server sees of it: the bytes it writes *)
(* are commands, executed one at a time, whole, once, in the order they    *)
(* were written and from the first byte of its session; a question is      *)
(* answered, a call at most once and before the next command is begun.     *)
(***************************************************************************)
EXTENDS Integers, Sequences

CONSTANTS
    Length,         \* action -> bytes of its command, operands included
    Questions,      \* the actions that are answered at once
    Calls           \* the actions that are answered when a function returned

VARIABLES
    stream,         \* the bytes the client of this session wrote
    done,           \* how many of them were executed
    calling,        \* a call has not returned
    answers         \* bytes written to this client

vars == <<stream, done, calling, answers>>

Init == stream = <<>> /\ done = 0 /\ calling = FALSE /\ answers = 0

Write ==
    /\ Len(stream') >= Len(stream)
    /\ \A i \in 1..Len(stream) : stream'[i] = stream[i]
    /\ UNCHANGED <<done, calling, answers>>

Execute ==
    /\ ~calling /\ done < Len(stream)
    /\ LET action == stream[done + 1] IN
       /\ action \in DOMAIN Length
       /\ done' = done + Length[action] /\ done' <= Len(stream)
       /\ calling' = (action \in Calls)
       /\ answers' = IF action \in Questions THEN answers + 1 ELSE answers
    /\ UNCHANGED stream

Return ==
    /\ calling /\ calling' = FALSE
    /\ answers' \in {answers, answers + 1}
    /\ UNCHANGED <<stream, done>>

\* The session ends, or the server is reset.
EndSession == stream' = <<>> /\ done' = 0 /\ calling' = FALSE /\ answers' = 0

Next == Write \/ Execute \/ Return \/ EndSession

Spec == Init /\ [][Next]_vars
=============================================================================
