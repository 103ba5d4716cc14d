---------------------------- MODULE AudioStream ----------------------------
(***************************************************************************)
(* What a BufferAudioSource promises to the audio thread and the program:  *)
(* a bounded queue of bytes that ends.  The program offers the bytes 1, 2, *)
(* ... in this order; of every write the bytes that fit are taken, and come *)
(* out once, unchanged and in order.  The end (read() = -1) is told only   *)
(* after finish() and when every taken byte is out; none is taken later.   *)
(***************************************************************************)
EXTENDS Naturals, Sequences

CONSTANT Room  \* bytes the stream holds at most

VARIABLES
  offered,   \* bytes offered so far
  queue,     \* accepted and not yet out
  out,       \* every byte that read() has returned
  finished,  \* finish() was called
  ended      \* read() has returned -1

vars == <<offered, queue, out, finished, ended>>

Init ==
  /\ offered = 0 /\ queue = <<>> /\ out = <<>>
  /\ finished = FALSE /\ ended = FALSE

(* The bytes of a write of k bytes that fit, the first ones.               *)
Taken(k) ==
  LET room == Room - Len(queue)
  IN [i \in 1 .. IF k < room THEN k ELSE room |-> offered + i]

Accept ==
  /\ ~ended
  /\ LET k == offered' - offered
     IN k \in Nat /\ queue' = queue \o Taken(k)
  /\ UNCHANGED <<out, finished, ended>>

TakeAll ==
  /\ out' = out \o queue /\ queue' = <<>>
  /\ UNCHANGED <<offered, finished, ended>>

Finish == finished' = TRUE /\ UNCHANGED <<offered, queue, out, ended>>

End ==
  /\ finished /\ queue = <<>>
  /\ ended' = TRUE
  /\ UNCHANGED <<offered, queue, out, finished>>

Next == Accept \/ TakeAll \/ Finish \/ End

Spec == Init /\ [][Next]_vars
=============================================================================
