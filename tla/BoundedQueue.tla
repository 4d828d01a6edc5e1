---------------------------- MODULE BoundedQueue ----------------------------
(***************************************************************************)
(* What a ring of packets promises: a queue, first in first out, that      *)
(* refuses an element only when Capacity of them wait, says so, and says   *)
(* when it has nothing to give.  RingHost implements two of these.         *)
(***************************************************************************)
EXTENDS Integers, Sequences

CONSTANTS Elements,    \* what may be queued
          Capacity     \* how much of it

VARIABLES items,       \* what waits, the oldest first
          answer       \* the answer to the last operation, <<>> if there was none

bqVars == <<items, answer>>

Init == items = <<>> /\ answer = <<>>

\* An element comes with the answer it gets.
Accept == /\ Len(items) < Capacity
          /\ answer' \in {"put"} \X Elements \X {TRUE}
          /\ items' = Append(items, answer'[2])

Refuse == /\ Len(items) = Capacity
          /\ answer' \in {"put"} \X Elements \X {FALSE}
          /\ UNCHANGED items

Take == /\ items # <<>>
        /\ items' = Tail(items)
        /\ answer' = <<"get", Head(items), TRUE>>

TakeNothing == /\ items = <<>>
               /\ answer' = <<"nothing">>
               /\ UNCHANGED items

Rest == answer' = <<>> /\ UNCHANGED items

\* The ring is made empty.
Clear == items' = <<>> /\ answer' = <<"clear">>

Next == Accept \/ Refuse \/ Take \/ TakeNothing \/ Rest \/ Clear

Spec == Init /\ [][Next]_bqVars
=============================================================================
