----------------------------- MODULE FrameQueue -----------------------------
(***************************************************************************)
(* FrameQueue<T> (view_base.hpp): the frames of a differential video       *)
(* stream on their way from the network thread to the view.  Every method  *)
(* holds the mutex from beginning to end.                                  *)
(***************************************************************************)
EXTENDS Naturals, Sequences

CONSTANT MaxQueued   \* kMaxQueued

ASSUME MaxQueuedAssumption == MaxQueued \in Nat \ {0}

VARIABLES
  queue,      \* queue_
  overflowed  \* overflowed_

queueVars == <<queue, overflowed>>

QueueInit ==
  /\ queue = <<>>
  /\ overflowed = FALSE

\* Another one: the oldest frame goes without a word.
PublishSilently(frame) ==
  /\ queue' = IF Len(queue) = MaxQueued
              THEN Append(Tail(queue), frame)
              ELSE Append(queue, frame)
  /\ UNCHANGED overflowed

\* publish(): when the queue is full the oldest frame makes room.
Publish(frame) ==
  /\ queue' = IF Len(queue) = MaxQueued
              THEN Append(Tail(queue), frame)
              ELSE Append(queue, frame)
  /\ overflowed' = (overflowed \/ Len(queue) = MaxQueued)

\* drain()
Drain ==
  /\ queue' = <<>>
  /\ UNCHANGED overflowed

\* overflowed(): true once.
TakeOverflowed ==
  /\ overflowed' = FALSE
  /\ UNCHANGED queue

\* clear()
ClearFrames ==
  /\ queue' = <<>>
  /\ overflowed' = FALSE

=============================================================================
