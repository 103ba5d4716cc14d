------------------------- MODULE BufferAudioSource -------------------------
(***************************************************************************)
(* BufferAudioSource: the program's threads write audio into a ring and    *)
(* one of them finishes it, while the audio thread of the recognizer reads *)
(* it.  mtx_ makes write() and read() exclude each other; finish() takes   *)
(* no lock, so it may fall between the test of finished_ and the rest.     *)
(***************************************************************************)
EXTENDS RingBuffer

CONSTANTS
  Writers,   \* threads of the program that write
  Reader,    \* the audio thread of the recognizer
  Free,      \* mtx_ is not locked
  Chunks,    \* sizes of the writes
  MaxBytes   \* bytes the program has to offer

ASSUME ThreadsAssumption ==
  /\ Reader \notin Writers /\ Free \notin Writers \cup {Reader}
  /\ Chunks \subseteq Nat
  /\ MaxBytes \in Nat

VARIABLES
  ring,      \* ring_buffer_
  finished,  \* finished_
  toRead,    \* to_read_
  mtx,       \* the thread that holds mtx_
  offered,   \* bytes passed to write() so far; the k-th one is the number k
  chunk,     \* size of the write in progress
  out,       \* ghost: every byte read() has returned
  ended      \* read() has returned -1

vars == <<ring, finished, toRead, mtx, offered, chunk, out, ended>>

Byte == 0 .. MaxBytes

Init ==
  /\ ring = NewRing(0)
  /\ finished = FALSE /\ toRead = FALSE
  /\ mtx = Free
  /\ offered = 0 /\ chunk = 0
  /\ out = <<>> /\ ended = FALSE

-----------------------------------------------------------------------------
(* Faulty variants of the actions below.                                   *)

(* write() looks at finished_ before it locks mtx_, and not again.         *)
WriteBeginUnlocked(w, k) ==
  /\ mtx = Free /\ offered + k <= MaxBytes
  /\ mtx' = w /\ chunk' = k
  /\ UNCHANGED <<ring, finished, toRead, offered, out, ended>>

(* read() does not lower to_read_.                                         *)
ReadEndKeepsFlag ==
  /\ mtx = Reader /\ mtx' = Free
  /\ out' = out \o BytesOfAll(ring)
  /\ ring' = RingAfterAll(ring)
  /\ UNCHANGED <<finished, toRead, offered, chunk, ended>>

(* read() tells the end as soon as the source is finished.                 *)
ReadBeginImpatient ==
  /\ mtx = Free
  /\ IF finished THEN ended' = TRUE /\ UNCHANGED mtx
     ELSE mtx' = Reader /\ UNCHANGED ended
  /\ UNCHANGED <<ring, finished, toRead, offered, chunk, out>>

-----------------------------------------------------------------------------
(* write(): after finish() it returns false and changes nothing.           *)
WriteBegin(w, k) ==
  /\ mtx = Free /\ ~finished /\ offered + k <= MaxBytes
  /\ mtx' = w /\ chunk' = k
  /\ UNCHANGED <<ring, finished, toRead, offered, out, ended>>

(* What does not fit is dropped; write() returns true all the same.        *)
WriteEnd(w) ==
  /\ mtx = w /\ mtx' = Free
  /\ ring' = Write(ring, [i \in 1 .. chunk |-> offered + i])
  /\ offered' = offered + chunk
  /\ toRead' = TRUE
  /\ UNCHANGED <<finished, chunk, out, ended>>

ReadBegin ==
  /\ mtx = Free
  /\ IF finished /\ ~toRead THEN ended' = TRUE /\ UNCHANGED mtx
     ELSE mtx' = Reader /\ UNCHANGED ended
  /\ UNCHANGED <<ring, finished, toRead, offered, chunk, out>>

ReadEnd ==
  /\ mtx = Reader /\ mtx' = Free
  /\ out' = out \o BytesOfAll(ring)
  /\ ring' = RingAfterAll(ring)
  /\ toRead' = FALSE
  /\ UNCHANGED <<finished, offered, chunk, ended>>

Finish ==
  /\ finished' = TRUE
  /\ UNCHANGED <<ring, toRead, mtx, offered, chunk, out, ended>>

WriteStep == \E w \in Writers : WriteEnd(w)
ReadStep == ReadBegin \/ ReadEnd

Next ==
  \/ \E w \in Writers, k \in Chunks : WriteBegin(w, k)
  \/ WriteStep
  \/ ReadStep
  \/ Finish

Spec == Init /\ [][Next]_vars

(* sendAudioMessage keeps reading until -1, and a write in progress ends;  *)
(* nobody has to write or to finish.                                       *)
FairSpec == Spec /\ WF_vars(WriteStep) /\ WF_vars(ReadStep)

-----------------------------------------------------------------------------
(* Every variable keeps to its domain; the indices stay inside data_.      *)
TypeOK ==
  /\ ring \in RingType(Byte)
  /\ finished \in BOOLEAN /\ toRead \in BOOLEAN /\ ended \in BOOLEAN
  /\ mtx \in Writers \cup {Reader, Free}
  /\ offered \in Byte /\ chunk \in Nat
  /\ mtx \in Writers => offered + chunk <= MaxBytes
  /\ out \in Seq(Byte)

(***************************************************************************)
(* The end of the audio is told only when nothing is left to read, though  *)
(* finish() may fall inside a write() or a read(): the last packet of a    *)
(* recognition never cuts off bytes that write() took.                     *)
(***************************************************************************)
NothingAfterEnd == ended => finished /\ GetReadAvail(ring) = 0

(* Why: to_read_ is down only over an empty ring, and no write is under way *)
(* once the end was told.                                                  *)
DrainInv ==
  /\ ~toRead => ring.readPtr = ring.writePtr
  /\ ended => finished /\ ~toRead /\ mtx \notin Writers \cup {Reader}

(* The ring is a queue: every write, read and finish maps to a step of     *)
(* AudioStream, so no unread byte is overwritten, lost, repeated or moved. *)
Stream == INSTANCE AudioStream WITH Room <- Capacity, queue <- Unread(ring)
ImplementsStream == Stream!Spec

(* A write drops bytes only when it leaves the ring full.                  *)
DropsOnlyWhenFull ==
  [][offered' # offered =>
       \/ GetReadAvail(ring') = GetReadAvail(ring) + (offered' - offered)
       \/ GetReadAvail(ring') = Capacity]_vars

(* After finish() the reader is told the end, so the audio thread ends.    *)
EndReached == finished ~> ended
=============================================================================
