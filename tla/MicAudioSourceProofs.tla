------------------------ MODULE MicAudioSourceProofs ------------------------
(***************************************************************************)
(* Theorems about MicAudioSource, for every number of recognitions, every  *)
(* size of a chunk and of a buffer, and whatever PortAudio answers.        *)
(***************************************************************************)
EXTENDS MicAudioSource, SequenceTheorems, TLAPS

(* Typing needs to know that a buffer is full when read() returns it: the   *)
(* last sample of it is what the next read() goes on from.                  *)
FullWhenRead == reader = "read" => Len(buffer) = BufferSize
TypeInv == TypeOK /\ FullWhenRead

(* What Take moves from data_ to the buffer, and what it leaves.           *)
LEMMA TakeType ==
  ASSUME NEW b \in Seq(Sample), NEW d \in Seq(Sample), Len(b) <= BufferSize,
         NEW k, k = Least(BufferSize - Len(b), Len(d))
  PROVE  /\ k \in 0 .. Len(d)
         /\ b \o SubSeq(d, 1, k) \in Seq(Sample)
         /\ SubSeq(d, k + 1, Len(d)) \in Seq(Sample)
         /\ Len(b \o SubSeq(d, 1, k)) = Len(b) + k
         /\ Len(b) + k <= BufferSize
<1>1. k \in 0 .. Len(d) /\ Len(b) + k <= BufferSize
  BY MicAssumption DEF Least
<1>2. SubSeq(d, 1, k) \in Seq(Sample) /\ Len(SubSeq(d, 1, k)) = k
  BY <1>1
<1>3. SubSeq(d, k + 1, Len(d)) \in Seq(Sample)
  BY <1>1
<1>4. QED BY <1>1, <1>2, <1>3

(* A function on 1 .. m is a sequence.                                     *)
LEMMA SequenceOf ==
  ASSUME NEW B, NEW m \in Nat, NEW f \in [1 .. m -> B]
  PROVE  f \in Seq(B)
OBVIOUS

(* A chunk of numbered samples.                                            *)
LEMMA ChunkType ==
  ASSUME number \in 0 .. Modulus - 1, turn \in 0 .. MaxTurns
  PROVE  [i \in 1 .. Chunk |-> [turn |-> turn, no |-> (number + i - 1) % Modulus]]
           \in Seq(Sample)
<1>1. \A i \in 1 .. Chunk : (number + i - 1) % Modulus \in 0 .. Modulus - 1
  BY MicAssumption
<1>2. \A i \in 1 .. Chunk :
        [turn |-> turn, no |-> (number + i - 1) % Modulus] \in Sample
  BY <1>1 DEF Sample
<1>3. [i \in 1 .. Chunk |-> [turn |-> turn, no |-> (number + i - 1) % Modulus]]
        \in [1 .. Chunk -> Sample]
  BY <1>2
<1>4. QED BY <1>3, SequenceOf, MicAssumption

(* A sequence of samples without any.                                      *)
LEMMA NoSamples == <<>> \in Seq(Sample) /\ Len(<<>>) = 0
OBVIOUS

(* The members of a source that was just constructed.                      *)
LEMMA InitType == Init => TypeInv
<1> SUFFICES ASSUME Init PROVE TypeInv
  OBVIOUS
<1>1. data \in Seq(Sample) /\ buffer \in Seq(Sample) /\ last \in Seq(Sample)
  BY NoSamples DEF Init
<1>2. Len(buffer) <= BufferSize /\ reader # "read"
  BY NoSamples, MicAssumption DEF Init
<1>3. number \in 0 .. Modulus - 1 /\ turn \in 0 .. MaxTurns
  BY MicAssumption DEF Init
<1>4. since \in 0 .. MaxTurns + 1
  BY MicAssumption DEF Init
<1>5. QED BY <1>1, <1>2, <1>3, <1>4 DEF Init, TypeInv, TypeOK, FullWhenRead, Callers

(* Every step keeps every member in its domain.                            *)
LEMMA StepType == TypeInv /\ [Next]_vars => TypeInv'
<1> SUFFICES ASSUME TypeInv, [Next]_vars PROVE TypeInv'
  OBVIOUS
<1> USE MicAssumption
    DEF TypeInv, TypeOK, FullWhenRead, Up, members, queue, readerVars, closeVars,
        appVars
<1>1. CASE ReaderStep
  <2>1. CASE ReadEnd
    <3>1. /\ data' \in {<<>>, data} /\ buffer' = <<>> /\ last' = <<>>
          /\ finish' = FALSE /\ reader' = "done"
      BY <2>1 DEF ReadEnd
    <3>2. data' \in Seq(Sample) /\ buffer' \in Seq(Sample) /\ last' \in Seq(Sample)
      BY <3>1, NoSamples
    <3>3. Len(buffer') <= BufferSize
      BY <3>1, NoSamples
    <3>4. UNCHANGED <<isOpen, threadJoin, thread, stream, number, enq, turn, closeVars,
                      appVars, failed, crashed>>
      BY <2>1 DEF ReadEnd
    <3>5. reader' = "done" /\ finish' \in BOOLEAN /\ FullWhenRead'
      BY <3>1
    <3>6. /\ isOpen' \in BOOLEAN /\ threadJoin' \in BOOLEAN /\ thread' \in BOOLEAN
          /\ overlapped' \in BOOLEAN /\ stop' \in BOOLEAN
          /\ failed' \in BOOLEAN /\ crashed' \in BOOLEAN
      BY <3>4
    <3>7. UNCHANGED <<stream, number, enq, turn, since, app, caller>>
      BY <3>4
    <3>8. QED BY <3>2, <3>3, <3>5, <3>6, <3>7
  <2>2. CASE ReadBegin
    BY <2>2 DEF ReadBegin
  <2>3. CASE OpenStream
    BY <2>3 DEF OpenStream
  <2>4. CASE OpenFlag
    <3>1. threadJoin' = FALSE /\ reader' = "flagged"
      BY <2>4 DEF OpenFlag
    <3>2. UNCHANGED <<finish, isOpen, thread, stream, queue, enq, buffer, last, turn,
                      closeVars, appVars, failed, crashed>>
      BY <2>4 DEF OpenFlag
    <3>3. threadJoin' \in BOOLEAN
      BY <3>1, Zenon
    <3>4. QED BY <3>1, <3>2, <3>3
  <2>5. CASE OpenThread
    <3>1. crashed' = thread /\ thread' = TRUE
      BY <2>5 DEF OpenThread
    <3>2. enq' = "starting" /\ reader' = "opened"
      BY <2>5 DEF OpenThread
    <3>3. UNCHANGED <<finish, isOpen, threadJoin, stream, queue, buffer, last, turn,
                      closeVars, appVars, failed>>
      BY <2>5 DEF OpenThread
    <3>4. crashed' \in BOOLEAN
      BY <3>1, Zenon
    <3>5. QED BY <3>1, <3>2, <3>3, <3>4
  <2>6. CASE OpenDone
    BY <2>6 DEF OpenDone
  <2>7. CASE Take
    <3> DEFINE k == Least(BufferSize - Len(buffer), Len(data))
    <3>1. /\ buffer' = buffer \o SubSeq(data, 1, k)
          /\ data' = SubSeq(data, k + 1, Len(data))
          /\ reader' = Filled(buffer')
          /\ UNCHANGED <<members, number, enq, last, turn, closeVars, appVars,
                         failed, crashed>>
      BY <2>7 DEF Take
    <3>2. buffer \in Seq(Sample) /\ data \in Seq(Sample) /\ Len(buffer) <= BufferSize
      OBVIOUS
    <3> HIDE DEF k
    <3>3. buffer' \in Seq(Sample) /\ data' \in Seq(Sample) /\ Len(buffer') <= BufferSize
      <4>1. /\ buffer \o SubSeq(data, 1, k) \in Seq(Sample)
            /\ SubSeq(data, k + 1, Len(data)) \in Seq(Sample)
            /\ Len(buffer \o SubSeq(data, 1, k)) = Len(buffer) + k
            /\ Len(buffer) + k <= BufferSize
        BY <3>2, TakeType, Zenon DEF k
      <4>2. QED BY <3>1, <4>1
    <3>4. /\ reader' \in {"filling", "read"}
          /\ reader' = "read" => Len(buffer') = BufferSize
      BY <3>1 DEF Filled
    <3>5. QED BY <3>1, <3>3, <3>4
  <2>8. CASE ReadReturn
    <3>1. Len(buffer) = BufferSize /\ buffer[Len(buffer)] \in Sample
      BY <2>8 DEF ReadReturn
    <3>2. <<buffer[Len(buffer)]>> \in Seq(Sample)
      BY <3>1
    <3>3. last' \in Seq(Sample)
      BY <2>8, <3>2, NoSamples DEF ReadReturn
    <3>4. buffer' \in Seq(Sample) /\ Len(buffer') <= BufferSize
      BY <2>8, NoSamples DEF ReadReturn
    <3>5. reader' \in {"done", "calling"}
      BY <2>8 DEF ReadReturn
    <3>6. QED BY <2>8, <3>3, <3>4, <3>5 DEF ReadReturn
  <2>9. QED
    BY <1>1, <2>1, <2>2, <2>3, <2>4, <2>5, <2>6, <2>7, <2>8 DEF ReaderStep
<1>2. CASE EnqStep
  <2>1. CASE EnqStart
    BY <2>1 DEF EnqStart
  <2>2. CASE EnqCapture
    BY <2>2 DEF EnqCapture
  <2>3. CASE EnqPush
    <3> DEFINE chunk == [i \in 1 .. Chunk |->
                           [turn |-> turn, no |-> (number + i - 1) % Modulus]]
    <3>1. chunk \in Seq(Sample)
      BY ChunkType
    <3>2. data' = data \o chunk
      BY <2>3 DEF EnqPush
    <3> HIDE DEF chunk
    <3>3. data' \in Seq(Sample)
      BY <3>1, <3>2
    <3>4. number' \in 0 .. Modulus - 1
      BY <2>3 DEF EnqPush
    <3>5. /\ enq' = "looping"
          /\ UNCHANGED <<members, readerVars, closeVars, appVars, failed, crashed>>
      BY <2>3 DEF EnqPush
    <3>6. QED BY <3>3, <3>4, <3>5
  <2>4. CASE EnqStop
    BY <2>4 DEF EnqStop
  <2>5. QED BY <1>2, <2>1, <2>2, <2>3, <2>4 DEF EnqStep
<1>3. CASE CloseStep
  <2>1. CASE JoinReader
    BY <2>1 DEF JoinReader
  <2>2. CASE RaiseThreadJoin
    BY <2>2 DEF RaiseThreadJoin
  <2>3. CASE JoinEnq
    <3>1. thread' \in {thread, FALSE} /\ enq' \in {enq, "none"}
      BY <2>3 DEF JoinEnq
    <3>2. /\ app' = "waitJoin"
          /\ UNCHANGED <<finish, isOpen, threadJoin, stream, queue, readerVars,
                         closeVars, caller, stop, failed, crashed>>
      BY <2>3 DEF JoinEnq
    <3>3. thread' \in BOOLEAN
      BY <3>1, Zenon
    <3>4. enq' \in {"none", "starting", "looping", "pushing", "exited"}
      BY <3>1
    <3>5. QED BY <3>2, <3>3, <3>4
  <2>4. CASE WaitJoin
    BY <2>4 DEF WaitJoin
  <2>5. CASE TestStream
    <3>1. app' \in {app, "clear", "idle"} /\ caller' \in {caller, "none"}
      BY <2>5 DEF TestStream
    <3>2. crashed' \in BOOLEAN
      BY <2>5, Zenon DEF TestStream
    <3>3. UNCHANGED <<members, queue, enq, readerVars, closeVars, stop, failed>>
      BY <2>5 DEF TestStream
    <3>4. app' \in {"idle", "test", "clear"} /\ caller' \in Callers
      BY <2>5, <3>1 DEF TestStream, Callers
    <3>5. QED BY <3>2, <3>3, <3>4
  <2>6. CASE ClearData
    <3>1. /\ data' \in {<<>>, data} /\ since' = turn + 1 /\ app' = "lower"
          /\ UNCHANGED <<members, number, enq, readerVars, overlapped, caller, stop,
                         failed, crashed>>
      BY <2>6 DEF ClearData
    <3>2. data' \in Seq(Sample)
      BY <3>1, NoSamples
    <3>3. since' \in 0 .. MaxTurns + 1
      BY <3>1
    <3>4. QED BY <3>1, <3>2, <3>3
  <2>7. CASE LowerOpen
    <3>1. isOpen' = FALSE /\ app' = "end"
      BY <2>7 DEF LowerOpen
    <3>2. UNCHANGED <<finish, threadJoin, thread, stream, queue, enq, readerVars,
                      closeVars, caller, stop, failed, crashed>>
      BY <2>7 DEF LowerOpen
    <3>3. isOpen' \in BOOLEAN
      BY <3>1, Zenon
    <3>4. QED BY <3>1, <3>2, <3>3
  <2>8. CASE EndClose
    <3>1. app' \in {"idle", "gone"} /\ caller' = "none"
      BY <2>8 DEF EndClose
    <3>2. stop' \in BOOLEAN /\ crashed' \in BOOLEAN
      BY <2>8, Zenon DEF EndClose
    <3>3. UNCHANGED <<members, queue, enq, readerVars, closeVars, failed>>
      BY <2>8 DEF EndClose
    <3>4. caller' \in Callers
      BY <3>1 DEF Callers
    <3>5. QED BY <3>1, <3>2, <3>3, <3>4
  <2>9. QED
    BY <1>3, <2>1, <2>2, <2>3, <2>4, <2>5, <2>6, <2>7, <2>8 DEF CloseStep
<1>4. CASE ProgramStep
  <2>1. CASE StartTurn
    <3>1. /\ reader' = "calling" /\ turn' = turn + 1 /\ turn < MaxTurns /\ last' = <<>>
          /\ UNCHANGED <<members, queue, enq, buffer, since, appVars, failed, crashed>>
      BY <2>1 DEF StartTurn
    <3>2. overlapped' \in BOOLEAN
      BY <2>1, Zenon DEF StartTurn
    <3>3. turn' \in 0 .. MaxTurns /\ last' \in Seq(Sample)
      BY <3>1, NoSamples
    <3>4. QED BY <3>1, <3>2, <3>3
  <2>2. CASE Finish
    BY <2>2 DEF Finish
  <2>3. CASE StopAudio
    BY <2>3 DEF StopAudio, Callers
  <2>4. CASE StopNothing
    BY <2>4 DEF StopNothing, Callers
  <2>5. CASE CloseBegin
    <3>1. /\ app' = "threadJoin" /\ caller' \in Callers
          /\ UNCHANGED <<members, queue, enq, readerVars, since, stop, failed, crashed>>
      BY <2>5 DEF CloseBegin, Callers
    <3>2. overlapped' \in BOOLEAN
      BY <2>5, Zenon DEF CloseBegin
    <3>3. QED BY <3>1, <3>2
  <2>6. QED BY <1>4, <2>1, <2>2, <2>3, <2>4, <2>5 DEF ProgramStep
<1>5. CASE PortAudioFails
  BY <1>5 DEF PortAudioFails
<1>6. CASE UNCHANGED vars
  BY <1>6 DEF vars
<1>7. QED BY <1>1, <1>2, <1>3, <1>4, <1>5, <1>6 DEF Next

(* Typing, with the buffer that is full when it is read.                   *)
LEMMA TypeInvHolds == Spec => []TypeInv
BY InitType, StepType, PTL DEF Spec

(* Every member keeps to its domain, and a buffer to its size.             *)
THEOREM Typing == Spec => []TypeOK
<1>1. TypeInv => TypeOK
  BY DEF TypeInv
<1>2. QED BY <1>1, TypeInvHolds, PTL

-----------------------------------------------------------------------------
(***************************************************************************)
(* The inductive invariant behind ClosedIsQuiet and EndsByErrorOnly.  Who   *)
(* closes, and how far it is, go together; a close() past the join of the   *)
(* audio thread finds no read() unless it met one; and then a thread and a  *)
(* stream exist only under a joinable thread_, or inside open(), and only   *)
(* for an open source or one whose read() is past opening it.              *)
(***************************************************************************)
CallerOf ==
  /\ caller = "none" <=> app \in {"idle", "gone"}
  /\ app = "joinReader" => caller \in {"cancel", "stop", "destroy"}
  /\ app \in {"threadJoin", "joinEnq", "waitJoin", "test", "clear", "lower"} =>
       caller # "cancel"
ClosingUnread ==
  app \notin {"idle", "joinReader", "gone"} /\ caller # "cancel" =>
    \/ reader = "none"
    \/ reader = "done" /\ caller = "program"
Owned ==
  ~thread => /\ enq = "none"
             /\ stream = "open" => reader \in {"streaming", "flagged"}
ExitedClosed == enq = "exited" => stream = "null"
OpeningIsClosed ==
  reader \in {"opening", "streaming", "flagged", "opened"} => ~isOpen
ClosedJoined == ~isOpen /\ reader # "opened" => ~thread
JoinedFirst == app \in {"test", "clear", "lower"} => ~thread
QuietInv ==
  /\ CallerOf
  /\ ~overlapped => ClosingUnread
  /\ ~crashed /\ ~overlapped =>
       Owned /\ ExitedClosed /\ OpeningIsClosed /\ ClosedJoined /\ JoinedFirst
  /\ EndsByErrorOnly

(* A source that was just constructed has neither thread nor stream.       *)
LEMMA InitQuiet == Init => QuietInv
BY DEF Init, QuietInv, CallerOf, ClosingUnread, Owned, ExitedClosed, OpeningIsClosed,
       ClosedJoined, JoinedFirst, EndsByErrorOnly

(* Every step of the audio thread: the one that starts enqueueThread finds  *)
(* no joinable thread_ to write over.                                      *)
LEMMA ReaderQuiet == QuietInv /\ ReaderStep => QuietInv'
<1> SUFFICES ASSUME QuietInv, ReaderStep PROVE QuietInv'
  OBVIOUS
<1> USE DEF QuietInv, CallerOf, ClosingUnread, Owned, ExitedClosed, OpeningIsClosed,
            ClosedJoined, JoinedFirst, EndsByErrorOnly, Up, members, queue, closeVars,
            appVars
<1>1. CASE ReadEnd
  BY <1>1 DEF ReadEnd
<1>2. CASE ReadBegin
  BY <1>2 DEF ReadBegin
<1>3. CASE OpenStream
  BY <1>3 DEF OpenStream
<1>4. CASE OpenFlag
  BY <1>4 DEF OpenFlag
<1>5. CASE OpenThread
  <2>1. CASE overlapped
    BY <1>5, <2>1 DEF OpenThread
  <2>2. CASE ~overlapped
    <3>1. ~thread /\ ~isOpen /\ app \notin {"test", "clear", "lower"}
      BY <1>5, <2>2 DEF OpenThread
    <3>2. ~crashed' /\ reader' = "opened" /\ enq' = "starting" /\ thread'
      BY <1>5, <3>1 DEF OpenThread
    <3>3. QED BY <1>5, <2>2, <3>1, <3>2 DEF OpenThread
  <2>3. QED BY <2>1, <2>2
<1>6. CASE OpenDone
  BY <1>6 DEF OpenDone
<1>7. CASE Take
  <2>1. reader = "filling" /\ reader' \in {"filling", "read"}
    BY <1>7 DEF Take, Filled
  <2>2. QED BY <1>7, <2>1 DEF Take
<1>8. CASE ReadReturn
  BY <1>8 DEF ReadReturn
<1>9. QED BY <1>1, <1>2, <1>3, <1>4, <1>5, <1>6, <1>7, <1>8 DEF ReaderStep

(* Every step of enqueueThread, which closes the stream before it ends.    *)
LEMMA EnqQuiet == QuietInv /\ EnqStep => QuietInv'
<1> SUFFICES ASSUME QuietInv, EnqStep PROVE QuietInv'
  OBVIOUS
<1> USE DEF QuietInv, CallerOf, ClosingUnread, Owned, ExitedClosed, OpeningIsClosed,
            ClosedJoined, JoinedFirst, EndsByErrorOnly, Up, members, queue, readerVars,
            closeVars, appVars
<1>1. CASE EnqStart
  BY <1>1 DEF EnqStart
<1>2. CASE EnqCapture
  BY <1>2 DEF EnqCapture
<1>3. CASE EnqPush
  BY <1>3 DEF EnqPush
<1>4. CASE EnqStop
  BY <1>4 DEF EnqStop
<1>5. QED BY <1>1, <1>2, <1>3, <1>4 DEF EnqStep

(* Every step of a close(): is_open_ is lowered only after the join, and   *)
(* only a stream_ that was never opened ends the process.                  *)
LEMMA CloseQuiet == TypeOK /\ QuietInv /\ CloseStep => QuietInv'
<1> SUFFICES ASSUME TypeOK, QuietInv, CloseStep PROVE QuietInv'
  OBVIOUS
<1> USE DEF QuietInv, CallerOf, ClosingUnread, Owned, ExitedClosed, OpeningIsClosed,
            ClosedJoined, JoinedFirst, EndsByErrorOnly, Up, members, queue, readerVars,
            closeVars
<1>1. CASE JoinReader
  <2>1. CASE caller = "cancel"
    BY <1>1, <2>1 DEF JoinReader
  <2>2. CASE caller # "cancel"
    <3>1. /\ app' = "threadJoin" /\ reader' = "none" /\ ~crashed
          /\ app = "joinReader" /\ reader = "done"
      BY <1>1, <2>2 DEF JoinReader
    <3>2. UNCHANGED <<isOpen, thread, stream, enq, overlapped, caller, failed, crashed>>
      BY <1>1 DEF JoinReader
    <3>3. CallerOf' /\ ClosingUnread'
      BY <2>2, <3>1, <3>2
    <3>4. ~overlapped' =>
            (Owned /\ ExitedClosed /\ OpeningIsClosed /\ ClosedJoined /\ JoinedFirst)'
      BY <3>1, <3>2
    <3>5. EndsByErrorOnly'
      BY <3>1, <3>2
    <3>6. QED BY <3>3, <3>4, <3>5
  <2>3. QED BY <2>1, <2>2
<1>2. CASE RaiseThreadJoin
  BY <1>2 DEF RaiseThreadJoin
<1>3. CASE JoinEnq
  BY <1>3 DEF JoinEnq
<1>4. CASE WaitJoin
  BY <1>4 DEF WaitJoin
<1>5. CASE TestStream
  <2>1. CASE stream = "null"
    BY <1>5, <2>1 DEF TestStream
  <2>2. CASE stream # "null" /\ caller \in {"stop", "program"}
    BY <1>5, <2>2 DEF TestStream
  <2>3. CASE stream # "null" /\ caller \in {"destroy", "dying"}
    <3>1. overlapped \/ stream = "garbage"
      BY <1>5, <2>3 DEF TestStream, TypeOK
    <3>2. QED BY <1>5, <2>3, <3>1 DEF TestStream
  <2>4. QED BY <1>5, <2>1, <2>2, <2>3 DEF TestStream
<1>6. CASE ClearData
  BY <1>6 DEF ClearData
<1>7. CASE LowerOpen
  BY <1>7 DEF LowerOpen
<1>8. CASE EndClose
  <2>1. CASE overlapped
    BY <1>8, <2>1 DEF EndClose
  <2>2. CASE ~overlapped
    <3>1. ~crashed'
      BY <1>8, <2>2 DEF EndClose
    <3>2. QED BY <1>8, <2>2, <3>1 DEF EndClose
  <2>3. QED BY <2>1, <2>2
<1>9. QED BY <1>1, <1>2, <1>3, <1>4, <1>5, <1>6, <1>7, <1>8 DEF CloseStep

(* Every step the program begins, and a PortAudio error.                   *)
LEMMA ProgramQuiet == QuietInv /\ (ProgramStep \/ PortAudioFails) => QuietInv'
<1> SUFFICES ASSUME QuietInv, ProgramStep \/ PortAudioFails PROVE QuietInv'
  OBVIOUS
<1> USE DEF QuietInv, CallerOf, ClosingUnread, Owned, ExitedClosed, OpeningIsClosed,
            ClosedJoined, JoinedFirst, EndsByErrorOnly, Up, members, queue, readerVars,
            closeVars, appVars
<1>1. CASE StartTurn
  BY <1>1 DEF StartTurn
<1>2. CASE Finish
  BY <1>2 DEF Finish
<1>3. CASE StopAudio
  BY <1>3 DEF StopAudio
<1>4. CASE StopNothing
  <2>1. CASE caller' = "cancel" /\ app' = "end"
    BY <1>4, <2>1 DEF StopNothing
  <2>2. CASE caller' \in {"stop", "destroy"} /\ app' = "threadJoin"
    <3>1. UNCHANGED <<isOpen, thread, stream, enq, reader, overlapped, failed, crashed>>
      BY <1>4 DEF StopNothing
    <3>2. app = "idle" /\ reader = "none" /\ ~crashed
      BY <1>4 DEF StopNothing
    <3>3. CallerOf' /\ ClosingUnread'
      BY <2>2, <3>1, <3>2
    <3>4. ~overlapped' =>
            (Owned /\ ExitedClosed /\ OpeningIsClosed /\ ClosedJoined /\ JoinedFirst)'
      BY <2>2, <3>1, <3>2
    <3>5. EndsByErrorOnly'
      BY <3>1, <3>2
    <3>6. QED BY <3>3, <3>4, <3>5
  <2>3. QED BY <1>4, <2>1, <2>2 DEF StopNothing
<1>5. CASE CloseBegin
  <2>1. /\ app = "idle" /\ app' = "threadJoin" /\ caller' \in {"program", "dying"}
        /\ UNCHANGED <<members, queue, enq, readerVars, since, stop, failed, crashed>>
    BY <1>5 DEF CloseBegin
  <2>2. overlapped => overlapped'
    BY <1>5, Zenon DEF CloseBegin
  <2>3. ~overlapped' => \/ reader = "none"
                        \/ reader = "done" /\ caller' = "program"
    BY <1>5, Zenon DEF CloseBegin
  <2>4. CASE overlapped'
    BY <2>1, <2>4
  <2>5. CASE ~overlapped'
    BY <2>1, <2>2, <2>3, <2>5
  <2>6. QED BY <2>4, <2>5
<1>6. CASE PortAudioFails
  BY <1>6 DEF PortAudioFails
<1>7. QED BY <1>1, <1>2, <1>3, <1>4, <1>5, <1>6 DEF ProgramStep

(* The invariant holds in every state of every run.                        *)
THEOREM Quiet == Spec => []QuietInv
<1>1. TypeOK /\ QuietInv /\ [Next]_vars => QuietInv'
  <2> SUFFICES ASSUME TypeOK, QuietInv, [Next]_vars PROVE QuietInv'
    OBVIOUS
  <2>1. CASE UNCHANGED vars
    BY <2>1 DEF vars, members, queue, readerVars, closeVars, appVars, QuietInv, CallerOf,
                ClosingUnread, Owned, ExitedClosed, OpeningIsClosed, ClosedJoined,
                JoinedFirst, EndsByErrorOnly
  <2>2. QED
    BY <2>1, ReaderQuiet, EnqQuiet, CloseQuiet, ProgramQuiet DEF Next
<1>2. QED BY <1>1, InitQuiet, Typing, PTL DEF Spec

(***************************************************************************)
(* A closed microphone has no thread and no open stream, however finish(), *)
(* close(), cancels and the recognitions fall together, as long as no      *)
(* close() meets a recognition's reads.                                    *)
(***************************************************************************)
THEOREM ClosedIsQuietHolds == Spec => []ClosedIsQuiet
<1>1. QuietInv => ClosedIsQuiet
  BY DEF QuietInv, Owned, ClosedJoined, ClosedIsQuiet, Opening
<1>2. QED BY <1>1, Quiet, PTL

(***************************************************************************)
(* Only a PortAudio error, or a destructor that closes a microphone never  *)
(* opened, ends the process, unless a close() met a recognition's reads:   *)
(* no thread is written over or destroyed.                                 *)
(***************************************************************************)
THEOREM EndsByErrorOnlyHolds == Spec => []EndsByErrorOnly
<1>1. QuietInv => EndsByErrorOnly
  BY DEF QuietInv
<1>2. QED BY <1>1, Quiet, PTL

-----------------------------------------------------------------------------
(* The quotient and the remainder of a division are the only ones.         *)
LEMMA ModUnique ==
  ASSUME NEW m \in Nat \ {0}, NEW k \in Nat, NEW s \in 0 .. m - 1, NEW y,
         y = m * k + s
  PROVE  y % m = s
OBVIOUS

(* The successor of a sample's number does not depend on whether the wrap    *)
(* is taken before or after it.                                            *)
LEMMA ModStep ==
  ASSUME NEW x \in Nat, NEW m \in Nat \ {0} 
  PROVE  ((x % m) + 1) % m = (x + 1) % m
<1> DEFINE r == x % m
<1>1. r \in 0 .. m - 1
  OBVIOUS
<1>2. \E q \in Nat : x - (x % m) = q * m
  OBVIOUS
<1>3. PICK q \in Nat : x - r = q * m
  BY <1>2
<1> HIDE DEF r
<1>5. CASE r + 1 < m
  <2>1. x + 1 = m * q + (r + 1) 
    BY <1>1, <1>3
  <2>2. r + 1 \in 0 .. m - 1
    BY <1>1, <1>5
  <2>3. (x + 1) % m = r + 1
    <3>1. \A s \in 0 .. m - 1 : \A y : y = m * q + s => y % m = s
      BY ModUnique
    <3>2. QED BY <2>1, <2>2, <3>1, Zenon
  <2>4. (r + 1) % m = r + 1
    <3>1. r + 1 = m * 0 + (r + 1)
      BY <1>1
    <3>2. QED BY <2>2, <3>1, ModUnique
  <2>5. QED BY <2>3, <2>4 DEF r
<1>6. CASE r + 1 = m
  <2>1. x + 1 = m * (q + 1) + 0
    BY <1>1, <1>3, <1>6
  <2>2. 0 \in 0 .. m - 1 /\ q + 1 \in Nat
    OBVIOUS
  <2>3. (x + 1) % m = 0
    <3>1. \A y : y = m * (q + 1) + 0 => y % m = 0
      BY <2>2, ModUnique
    <3>2. QED BY <2>1, <2>2, <3>1, Zenon
  <2>4. (r + 1) % m = 0
    <3>1. r + 1 = m * 1 + 0 /\ 1 \in Nat
      BY <1>1, <1>6
    <3>2. QED BY <2>2, <3>1, ModUnique
  <2>5. QED BY <2>3, <2>4 DEF r
<1>7. QED BY <1>1, <1>5, <1>6

(* How three sequences are put together makes no difference.               *)
LEMMA ThreeInARow ==
  \A s, t, u \in Seq(Sample) : (s \o t) \o u = s \o (t \o u)
<1> TAKE s, t, u \in Seq(Sample)
<1> QED BY ConcatAssociative

(* Take moves samples from data_ to the buffer: what the two hold together  *)
(* does not change.                                                        *)
LEMMA TakeKeeps ==
  ASSUME NEW b \in Seq(Sample), NEW d \in Seq(Sample), NEW k \in 0 .. Len(d)
  PROVE  (b \o SubSeq(d, 1, k)) \o SubSeq(d, k + 1, Len(d)) = b \o d
<1> DEFINE x == SubSeq(d, 1, k)
           y == SubSeq(d, k + 1, Len(d))
<1>1. x \in Seq(Sample) /\ y \in Seq(Sample)
  OBVIOUS
<1>2. x \o y = SubSeq(d, 1, Len(d))
  <2>1. 1 \in 1 .. Len(d) + 1 /\ k \in 1 - 1 .. Len(d) /\ Len(d) \in k .. Len(d)
    OBVIOUS
  <2>2. QED BY <2>1, ConcatAdjacentSubSeq
<1>3. SubSeq(d, 1, Len(d)) = d
  BY SubSeqFull
<1> HIDE DEF x, y
<1>4. (b \o x) \o y = b \o (x \o y)
  BY <1>1, ThreeInARow, Zenon
<1>5. (b \o x) \o y = b \o d
  BY <1>2, <1>3, <1>4
<1>6. QED BY <1>5 DEF x, y

(***************************************************************************)
(* A run of samples that the one numbered n continues.                     *)
(***************************************************************************)
Chain(s, n) ==
  /\ Unbroken(s)
  /\ s # <<>> => n = (s[Len(s)].no + 1) % Modulus

(* The chunk that one Pa_ReadStream delivers.                              *)
ChunkOf(t, n) ==
  [i \in 1 .. Chunk |-> [turn |-> t, no |-> (n + i - 1) % Modulus]]

(* What read() has already handed over may be taken off the front.         *)
LEMMA SuffixChain ==
  ASSUME NEW s \in Seq(Sample), NEW t \in Seq(Sample), NEW n, Chain(s \o t, n)
  PROVE  Chain(t, n)
<1>1. /\ Len(s \o t) = Len(s) + Len(t)
      /\ \A i \in 1 .. Len(t) : (s \o t)[Len(s) + i] = t[i]
  OBVIOUS
<1>2. Unbroken(t)
  <2> SUFFICES ASSUME NEW i \in 1 .. Len(t) - 1
               PROVE  t[i + 1].no = (t[i].no + 1) % Modulus
    BY DEF Unbroken
  <2>1. Len(s) + i \in 1 .. Len(s \o t) - 1
    BY <1>1
  <2>2. (s \o t)[Len(s) + i + 1].no = ((s \o t)[Len(s) + i].no + 1) % Modulus
    BY <2>1 DEF Chain, Unbroken
  <2>3. (s \o t)[Len(s) + i + 1] = t[i + 1] /\ (s \o t)[Len(s) + i] = t[i]
    BY <1>1
  <2>4. QED BY <2>2, <2>3
<1>3. ASSUME t # <<>>
      PROVE  n = (t[Len(t)].no + 1) % Modulus
  <2>1. Len(t) \in 1 .. Len(t)
    BY <1>3
  <2>2. s \o t # <<>> /\ (s \o t)[Len(s \o t)] = t[Len(t)]
    BY <1>1, <2>1
  <2>3. QED BY <2>2 DEF Chain
<1>4. QED BY <1>2, <1>3 DEF Chain

(* Within a chunk the numbers go on one by one, and past its end too.      *)
LEMMA ChunkChain ==
  ASSUME NEW t, NEW n \in 0 .. Modulus - 1
  PROVE  /\ ChunkOf(t, n)[1].no = n
         /\ \A i \in 1 .. Chunk - 1 :
              ChunkOf(t, n)[i + 1].no = (ChunkOf(t, n)[i].no + 1) % Modulus
         /\ (n + Chunk) % Modulus = (ChunkOf(t, n)[Chunk].no + 1) % Modulus
<1> USE MicAssumption
<1>1. \A i \in 1 .. Chunk : ChunkOf(t, n)[i].no = (n + i - 1) % Modulus
  BY DEF ChunkOf
<1>2. \A i \in 1 .. Chunk : (ChunkOf(t, n)[i].no + 1) % Modulus = (n + i) % Modulus
  <2> SUFFICES ASSUME NEW i \in 1 .. Chunk
               PROVE  (ChunkOf(t, n)[i].no + 1) % Modulus = (n + i) % Modulus
    OBVIOUS
  <2> DEFINE x == n + i - 1
  <2>1. x \in Nat /\ x + 1 = n + i
    OBVIOUS
  <2>2. ((x % Modulus) + 1) % Modulus = (x + 1) % Modulus
    BY <2>1, ModStep
  <2>3. ChunkOf(t, n)[i].no = x % Modulus
    BY <1>1
  <2> HIDE DEF x
  <2>4. QED BY <2>1, <2>2, <2>3
<1>3. ChunkOf(t, n)[1].no = n
  <2>1. ChunkOf(t, n)[1].no = (n + 1 - 1) % Modulus
    BY <1>1
  <2>2. n % Modulus = n
    OBVIOUS
  <2>3. QED BY <2>1, <2>2
<1>4. ASSUME NEW i \in 1 .. Chunk - 1
      PROVE  ChunkOf(t, n)[i + 1].no = (ChunkOf(t, n)[i].no + 1) % Modulus
  <2>1. i \in 1 .. Chunk /\ i + 1 \in 1 .. Chunk /\ n + (i + 1) - 1 = n + i
    OBVIOUS
  <2>2. ChunkOf(t, n)[i + 1].no = (n + i) % Modulus
    BY <1>1, <2>1
  <2>3. QED BY <1>2, <2>1, <2>2
<1>5. (n + Chunk) % Modulus = (ChunkOf(t, n)[Chunk].no + 1) % Modulus
  <2>1. Chunk \in 1 .. Chunk
    OBVIOUS
  <2>2. QED BY <1>2, <2>1
<1>6. QED BY <1>3, <1>4, <1>5

(* A chunk is pushed behind the samples whose numbers it continues.        *)
LEMMA PushChain ==
  ASSUME NEW s \in Seq(Sample), NEW t, NEW n \in 0 .. Modulus - 1, Chain(s, n),
         ChunkOf(t, n) \in Seq(Sample)
  PROVE  Chain(s \o ChunkOf(t, n), (n + Chunk) % Modulus)
<1> DEFINE c == ChunkOf(t, n)
<1>1. /\ c[1].no = n
      /\ \A i \in 1 .. Chunk - 1 : c[i + 1].no = (c[i].no + 1) % Modulus
      /\ (n + Chunk) % Modulus = (c[Chunk].no + 1) % Modulus
  BY ChunkChain
<1>2. c \in Seq(Sample) /\ Len(c) = Chunk
  <2>1. DOMAIN c = 1 .. Chunk
    BY DEF ChunkOf
  <2>2. QED BY <2>1, MicAssumption
<1> HIDE DEF c
<1>3. /\ Len(s \o c) = Len(s) + Chunk
      /\ \A i \in 1 .. Len(s) : (s \o c)[i] = s[i]
      /\ \A i \in 1 .. Chunk : (s \o c)[Len(s) + i] = c[i]
  BY <1>2, MicAssumption
<1>4. Unbroken(s \o c)
  <2> SUFFICES ASSUME NEW i \in 1 .. Len(s \o c) - 1
               PROVE  (s \o c)[i + 1].no = ((s \o c)[i].no + 1) % Modulus
    BY DEF Unbroken
  <2> i \in 1 .. Len(s) + Chunk - 1
    BY <1>3, MicAssumption
  <2>1. CASE i < Len(s)
    <3>1. i \in 1 .. Len(s) - 1 /\ i \in 1 .. Len(s) /\ i + 1 \in 1 .. Len(s)
      BY <2>1
    <3>2. s[i + 1].no = (s[i].no + 1) % Modulus
      BY <3>1 DEF Chain, Unbroken
    <3>3. QED BY <1>3, <3>1, <3>2
  <2>2. CASE i = Len(s)
    <3>1. s # <<>> /\ i \in 1 .. Len(s) /\ 1 \in 1 .. Chunk
      BY <2>2, MicAssumption
    <3>2. n = (s[i].no + 1) % Modulus
      BY <2>2, <3>1 DEF Chain
    <3>3. (s \o c)[i + 1] = c[1] /\ (s \o c)[i] = s[i]
      BY <1>3, <2>2, <3>1
    <3>4. QED BY <1>1, <3>2, <3>3
  <2>3. CASE i > Len(s)
    <3> DEFINE j == i - Len(s)
    <3>1. /\ j \in 1 .. Chunk - 1 /\ j \in 1 .. Chunk /\ j + 1 \in 1 .. Chunk
          /\ i = Len(s) + j /\ i + 1 = Len(s) + (j + 1)
      BY <2>3, MicAssumption
    <3> HIDE DEF j
    <3>2. (s \o c)[i] = c[j] /\ (s \o c)[i + 1] = c[j + 1]
      BY <1>3, <3>1
    <3>3. c[j + 1].no = (c[j].no + 1) % Modulus
      BY <1>1, <3>1
    <3>4. QED BY <3>2, <3>3
  <2>4. QED BY <2>1, <2>2, <2>3
<1>5. (s \o c)[Len(s \o c)] = c[Chunk]
  <2>1. Chunk \in 1 .. Chunk /\ Len(s) + Chunk = Len(s \o c)
    BY <1>3, MicAssumption
  <2>2. QED BY <1>3, <2>1
<1>6. QED BY <1>1, <1>4, <1>5 DEF Chain, c

-----------------------------------------------------------------------------
(***************************************************************************)
(* Where samples can be.  read() leaves nothing in its buffer between two   *)
(* calls, and a recognition leaves nothing of what it heard behind; as long *)
(* as no close() meets a recognition's reads, whatever captures or reads   *)
(* belongs to a recognition that began after the last close().             *)
(***************************************************************************)
BufferInRead ==
  reader \in {"none", "calling", "opening", "streaming", "flagged", "opened", "done"} =>
    buffer = <<>>
LastInTurn == reader \in {"none", "done"} => last = <<>>
Since ==
  /\ since <= turn + 1
  /\ ~overlapped /\ reader \notin {"none", "done"} => since <= turn
  /\ ~overlapped /\ ~crashed /\ thread => since <= turn
PlacesInv == BufferInRead /\ LastInTurn /\ Since

(* A source that was just constructed holds no sample.                     *)
LEMMA InitPlaces == Init => PlacesInv
BY DEF Init, PlacesInv, BufferInRead, LastInTurn, Since

(* Every step of the audio thread, which runs while reader is not "none".  *)
LEMMA ReaderPlaces == TypeOK /\ PlacesInv /\ ReaderStep => PlacesInv'
<1> SUFFICES ASSUME TypeOK, PlacesInv, ReaderStep PROVE PlacesInv'
  OBVIOUS
<1> USE DEF PlacesInv, BufferInRead, LastInTurn, Since, Up, members, queue, closeVars,
            appVars
<1>1. CASE ReadEnd
  <2>1. /\ buffer' = <<>> /\ last' = <<>> /\ reader' = "done"
        /\ UNCHANGED <<thread, turn, since, overlapped, crashed>>
    BY <1>1 DEF ReadEnd
  <2>2. QED BY <2>1
<1>2. CASE ReadBegin
  BY <1>2 DEF ReadBegin
<1>3. CASE OpenStream \/ OpenFlag \/ OpenDone
  BY <1>3 DEF OpenStream, OpenFlag, OpenDone
<1>4. CASE OpenThread
  BY <1>4 DEF OpenThread
<1>5. CASE Take
  <2>1. /\ reader = "filling" /\ reader' \in {"filling", "read"}
        /\ UNCHANGED <<last, thread, turn, since, overlapped, crashed>>
    BY <1>5 DEF Take, Filled
  <2>2. QED BY <2>1
<1>6. CASE ReadReturn
  BY <1>6 DEF ReadReturn
<1>7. QED BY <1>1, <1>2, <1>3, <1>4, <1>5, <1>6 DEF ReaderStep

(* Every step of a close(): once it clears data_ nobody reads and nothing  *)
(* captures.                                                               *)
LEMMA ClosePlaces == TypeOK /\ QuietInv /\ PlacesInv /\ CloseStep => PlacesInv'
<1> SUFFICES ASSUME TypeOK, QuietInv, PlacesInv, CloseStep PROVE PlacesInv'
  OBVIOUS
<1> USE DEF PlacesInv, BufferInRead, LastInTurn, Since, Up, members, queue, readerVars,
            closeVars
<1>1. CASE JoinReader
  BY <1>1 DEF JoinReader
<1>2. CASE RaiseThreadJoin \/ WaitJoin \/ LowerOpen
  BY <1>2 DEF RaiseThreadJoin, WaitJoin, LowerOpen
<1>3. CASE JoinEnq
  BY <1>3 DEF JoinEnq
<1>4. CASE TestStream
  BY <1>4 DEF TestStream
<1>5. CASE ClearData
  <2>1. /\ since' = turn + 1 /\ turn' = turn /\ turn \in Nat /\ app = "clear"
        /\ UNCHANGED <<thread, reader, buffer, last, overlapped, crashed>> /\ ~crashed
    BY <1>5, MicAssumption DEF ClearData, TypeOK
  <2>2. ~overlapped => ~thread /\ reader \in {"none", "done"}
    BY <2>1 DEF QuietInv, CallerOf, ClosingUnread, JoinedFirst
  <2>3. QED BY <2>1, <2>2
<1>6. CASE EndClose
  BY <1>6 DEF EndClose
<1>7. QED BY <1>1, <1>2, <1>3, <1>4, <1>5, <1>6 DEF CloseStep

(* Every step of enqueueThread, of the program, and a PortAudio error.     *)
LEMMA OtherPlaces ==
  TypeOK /\ PlacesInv /\ (EnqStep \/ ProgramStep \/ PortAudioFails) => PlacesInv'
<1> SUFFICES ASSUME TypeOK, PlacesInv, EnqStep \/ ProgramStep \/ PortAudioFails
             PROVE  PlacesInv'
  OBVIOUS
<1> USE DEF PlacesInv, BufferInRead, LastInTurn, Since, Up, members, queue, readerVars,
            closeVars, appVars
<1>1. CASE EnqStep
  BY <1>1 DEF EnqStep, EnqStart, EnqCapture, EnqPush, EnqStop
<1>2. CASE StartTurn
  <2>1. /\ turn' = turn + 1 /\ turn \in Nat /\ since \in Nat /\ since' = since
        /\ reader' = "calling" /\ last' = <<>> /\ reader = "none"
        /\ UNCHANGED <<thread, buffer, crashed>>
    BY <1>2 DEF StartTurn, TypeOK
  <2>2. QED BY <2>1
<1>3. CASE Finish \/ StopAudio \/ StopNothing
  BY <1>3 DEF Finish, StopAudio, StopNothing
<1>4. CASE CloseBegin
  <2>1. UNCHANGED <<members, readerVars, since, crashed>>
    BY <1>4 DEF CloseBegin
  <2>2. overlapped => overlapped'
    BY <1>4, Zenon DEF CloseBegin
  <2>3. QED BY <2>1, <2>2
<1>5. CASE PortAudioFails
  BY <1>5 DEF PortAudioFails
<1>6. QED BY <1>1, <1>2, <1>3, <1>4, <1>5 DEF ProgramStep

(* The invariant holds in every state of every run.                        *)
LEMMA Places == Spec => []PlacesInv
<1>1. TypeOK /\ QuietInv /\ PlacesInv /\ [Next]_vars => PlacesInv'
  <2> SUFFICES ASSUME TypeOK, QuietInv, PlacesInv, [Next]_vars PROVE PlacesInv'
    OBVIOUS
  <2>1. CASE UNCHANGED vars
    BY <2>1 DEF vars, members, queue, readerVars, closeVars, appVars, PlacesInv,
                BufferInRead, LastInTurn, Since
  <2>2. QED
    BY <2>1, ReaderPlaces, ClosePlaces, OtherPlaces DEF Next
<1>2. QED BY <1>1, InitPlaces, Typing, Quiet, PTL DEF Spec

-----------------------------------------------------------------------------
(* What a step does with the samples, the number of the next one, and the  *)
(* recognition they are tagged with.                                       *)
SamplesKept ==
  /\ last' = last /\ buffer' \o data' = buffer \o data /\ number' = number
  /\ (last' \o buffer') \o data' = (last \o buffer) \o data
  /\ since' = since /\ (overlapped => overlapped')

(* Each step keeps the samples, or is one of the five that change them.    *)
LEMMA SampleSteps ==
  TypeInv /\ PlacesInv /\ [Next]_vars =>
    SamplesKept \/ ReadEnd \/ ReadReturn \/ EnqPush \/ ClearData \/ StartTurn
<1> SUFFICES ASSUME TypeInv, PlacesInv, [Next]_vars, ~ReadEnd, ~ReadReturn, ~EnqPush,
                    ~ClearData, ~StartTurn
             PROVE  SamplesKept
  OBVIOUS
<1> USE DEF SamplesKept, members, queue, readerVars, closeVars, appVars
<1>1. CASE ReadBegin
  BY <1>1 DEF ReadBegin, PlacesInv, BufferInRead
<1>2. CASE OpenStream \/ OpenFlag \/ OpenThread \/ OpenDone
  BY <1>2 DEF OpenStream, OpenFlag, OpenThread, OpenDone
<1>3. CASE Take
  <2> DEFINE k == Least(BufferSize - Len(buffer), Len(data))
             b == buffer \o SubSeq(data, 1, k)
             d == SubSeq(data, k + 1, Len(data))
  <2>1. buffer' = b /\ data' = d /\ reader = "filling"
    BY <1>3 DEF Take
  <2>2. UNCHANGED <<last, number, since, overlapped>>
    BY <1>3 DEF Take
  <2>3. buffer \in Seq(Sample) /\ data \in Seq(Sample) /\ last \in Seq(Sample)
    BY DEF TypeInv, TypeOK
  <2>4. k \in 0 .. Len(data) /\ b \in Seq(Sample) /\ d \in Seq(Sample)
    BY <2>3, TakeType DEF TypeInv, TypeOK
  <2> HIDE DEF k
  <2>5. b \o d = buffer \o data
    BY <2>3, <2>4, TakeKeeps
  <2> HIDE DEF b, d
  <2>6. (last \o b) \o d = last \o (b \o d)
    <3>1. last \in Seq(Sample) /\ b \in Seq(Sample) /\ d \in Seq(Sample)
      BY <2>3, <2>4
    <3>2. QED BY <3>1, ThreeInARow, Zenon
  <2>7. (last \o buffer) \o data = last \o (buffer \o data)
    BY <2>3, ThreeInARow, Zenon
  <2>8. QED BY <2>1, <2>2, <2>5, <2>6, <2>7
<1>4. CASE EnqStart \/ EnqCapture \/ EnqStop
  BY <1>4 DEF EnqStart, EnqCapture, EnqStop
<1>5. CASE JoinReader \/ RaiseThreadJoin \/ JoinEnq \/ WaitJoin \/ LowerOpen
  BY <1>5 DEF JoinReader, RaiseThreadJoin, JoinEnq, WaitJoin, LowerOpen
<1>6. CASE TestStream
  BY <1>6 DEF TestStream
<1>7. CASE EndClose
  <2>1. UNCHANGED <<queue, readerVars, closeVars>>
    BY <1>7 DEF EndClose
  <2>2. QED BY <2>1
<1>8. CASE Finish \/ StopAudio \/ StopNothing \/ PortAudioFails
  BY <1>8 DEF Finish, StopAudio, StopNothing, PortAudioFails
<1>9. CASE CloseBegin
  <2>1. UNCHANGED <<queue, readerVars, since>>
    BY <1>9 DEF CloseBegin
  <2>2. overlapped => overlapped'
    BY <1>9, Zenon DEF CloseBegin
  <2>3. QED BY <2>1, <2>2
<1>10. CASE UNCHANGED vars
  BY <1>10 DEF vars
<1>11. QED
  BY <1>1, <1>2, <1>3, <1>4, <1>5, <1>6, <1>7, <1>8, <1>9, <1>10
     DEF Next, ReaderStep, EnqStep, CloseStep, ProgramStep

(* Samples that were all captured in recognition t or later.               *)
CapturedSince(s, t) == \A i \in 1 .. Len(s) : s[i].turn >= t

(* A chunk that is pushed behind them, in such a recognition, is one too.  *)
LEMMA ChunkCaptured ==
  ASSUME NEW s \in Seq(Sample), NEW t, NEW r, NEW n, CapturedSince(s, t), r >= t,
         ChunkOf(r, n) \in Seq(Sample)
  PROVE  CapturedSince(s \o ChunkOf(r, n), t)
<1> DEFINE c == ChunkOf(r, n)
<1>1. \A i \in 1 .. Chunk : c[i].turn = r
  BY DEF ChunkOf
<1>2. c \in Seq(Sample) /\ Len(c) = Chunk
  <2>1. DOMAIN c = 1 .. Chunk
    BY DEF ChunkOf
  <2>2. QED BY <2>1, MicAssumption
<1> HIDE DEF c
<1>3. CapturedSince(s \o c, t)
  <2> SUFFICES ASSUME NEW i \in 1 .. Len(s \o c) PROVE (s \o c)[i].turn >= t
    BY DEF CapturedSince
  <2>1. CASE i <= Len(s)
    BY <1>2, <2>1 DEF CapturedSince
  <2>2. CASE i > Len(s)
    <3>1. i - Len(s) \in 1 .. Chunk /\ (s \o c)[i] = c[i - Len(s)]
      BY <1>2, <2>2, MicAssumption
    <3>2. QED BY <1>1, <3>1
  <2>3. QED BY <2>1, <2>2
<1>4. QED BY <1>3 DEF c

(* A tail of such samples consists of such samples.                        *)
LEMMA TailCaptured ==
  ASSUME NEW s \in Seq(Sample), NEW u \in Seq(Sample), NEW t, CapturedSince(s \o u, t)
  PROVE  CapturedSince(u, t)
<1> SUFFICES ASSUME NEW i \in 1 .. Len(u) PROVE u[i].turn >= t
  BY DEF CapturedSince
<1>1. Len(s) + i \in 1 .. Len(s \o u) /\ (s \o u)[Len(s) + i] = u[i]
  OBVIOUS
<1>2. QED BY <1>1 DEF CapturedSince

(* No samples, in either order.                                            *)
LEMMA Nothing ==
  ASSUME NEW s \in Seq(Sample)
  PROVE  /\ <<>> \o s = s /\ s \o <<>> = s
         /\ \A t : CapturedSince(<<>>, t)
         /\ \A n : Chain(<<>>, n)
<1>1. <<>> \o s = s /\ s \o <<>> = s
  OBVIOUS
<1>2. \A t : CapturedSince(<<>>, t)
  BY DEF CapturedSince
<1>3. \A n : Chain(<<>>, n)
  BY DEF Chain, Unbroken
<1>4. QED BY <1>1, <1>2, <1>3

(***************************************************************************)
(* A recognition hears nothing captured before the last close(), however   *)
(* finish(), close(), cancels and the three threads fall together, as long *)
(* as no close() meets a recognition's reads.                              *)
(***************************************************************************)
THEOREM FreshAudioHolds == Spec => []FreshAudio
<1> DEFINE Fresh == ~overlapped => CapturedSince(buffer \o data, since)
<1>1. Fresh => FreshAudio
  BY DEF FreshAudio, CapturedSince
<1>2. Init => Fresh
  <2> SUFFICES ASSUME Init PROVE CapturedSince(buffer \o data, since)
    OBVIOUS
  <2>1. buffer \o data = <<>>
    BY NoSamples, Nothing DEF Init
  <2>2. QED BY <2>1, NoSamples, Nothing
<1>3. TypeInv /\ QuietInv /\ PlacesInv /\ Fresh /\ [Next]_vars => Fresh'
  <2> SUFFICES ASSUME TypeInv, QuietInv, PlacesInv, Fresh, [Next]_vars, ~overlapped'
               PROVE  CapturedSince(buffer' \o data', since')
    OBVIOUS
  <2>1. buffer \in Seq(Sample) /\ data \in Seq(Sample)
    BY DEF TypeInv, TypeOK
  <2>2. CASE SamplesKept
    BY <2>2 DEF SamplesKept
  <2>3. CASE ReadEnd
    <3>1. /\ buffer = <<>> /\ buffer' = <<>> /\ data' \in {<<>>, data}
          /\ since' = since /\ ~overlapped
      BY <2>3 DEF ReadEnd, PlacesInv, BufferInRead, closeVars
    <3>2. CapturedSince(data, since) /\ CapturedSince(<<>>, since)
      BY <2>1, <3>1, Nothing
    <3>3. buffer' \o data' = data'
      BY <2>1, <3>1, NoSamples, Nothing
    <3>4. QED BY <3>1, <3>2, <3>3
  <2>4. CASE ReadReturn
    <3>1. /\ buffer' = <<>> /\ data' = data /\ since' = since /\ ~overlapped
      BY <2>4 DEF ReadReturn, queue, closeVars
    <3>2. CapturedSince(data, since)
      BY <2>1, <3>1, TailCaptured
    <3>3. QED BY <2>1, <3>1, <3>2, Nothing
  <2>5. CASE EnqPush
    <3>1. /\ data' = data \o ChunkOf(turn, number) /\ buffer' = buffer
          /\ since' = since /\ ~overlapped /\ enq = "pushing" /\ ~crashed
      BY <2>5 DEF EnqPush, ChunkOf, readerVars, closeVars, Up
    <3>2. ChunkOf(turn, number) \in Seq(Sample)
      BY ChunkType DEF ChunkOf, TypeInv, TypeOK
    <3>3. buffer \o data \in Seq(Sample)
      BY <2>1
    <3>4. thread
      BY <3>1 DEF QuietInv, Owned
    <3>5. turn \in Nat /\ since \in Nat /\ turn >= since
      BY <3>1, <3>4 DEF TypeInv, TypeOK, PlacesInv, Since
    <3>6. CapturedSince((buffer \o data) \o ChunkOf(turn, number), since)
      BY <3>1, <3>2, <3>3, <3>5, ChunkCaptured
    <3>7. (buffer \o data) \o ChunkOf(turn, number)
            = buffer \o (data \o ChunkOf(turn, number))
      BY <2>1, <3>2, ThreeInARow, Zenon
    <3>8. QED BY <3>1, <3>6, <3>7
  <2>6. CASE ClearData
    <3>1. /\ app = "clear" /\ ~overlapped /\ ~crashed /\ buffer' = buffer
          /\ data' \in IF Locked THEN {<<>>, data} ELSE {<<>>}
      BY <2>6 DEF ClearData, readerVars, Up
    <3>2. reader \in {"none", "done"} /\ ~Locked
      BY <3>1 DEF QuietInv, CallerOf, ClosingUnread, JoinedFirst, Owned, Locked
    <3>3. buffer' = <<>> /\ data' = <<>>
      BY <3>1, <3>2 DEF PlacesInv, BufferInRead
    <3>4. QED BY <3>3, NoSamples, Nothing
  <2>7. CASE StartTurn
    BY <2>7 DEF StartTurn, queue
  <2>8. QED BY <2>2, <2>3, <2>4, <2>5, <2>6, <2>7, SampleSteps
<1>4. Spec => []Fresh
  BY <1>2, <1>3, TypeInvHolds, Quiet, Places, PTL DEF Spec
<1>5. QED BY <1>1, <1>4, PTL

(***************************************************************************)
(* What a recognition heard, what its buffer holds and what waits in data_  *)
(* is one unbroken run of samples, and the next one that PortAudio delivers *)
(* continues it: the chain is what makes the property inductive.           *)
(***************************************************************************)
THEOREM SamplesInOrderHolds == Spec => []SamplesInOrder
<1> DEFINE Run == ~overlapped => Chain((last \o buffer) \o data, number)
<1>1. Run => SamplesInOrder
  BY DEF SamplesInOrder, Chain
<1>2. Init => Run
  <2> SUFFICES ASSUME Init PROVE Chain((last \o buffer) \o data, number)
    OBVIOUS
  <2>1. (last \o buffer) \o data = <<>>
    BY NoSamples, Nothing DEF Init
  <2>2. QED BY <2>1, NoSamples, Nothing
<1>3. TypeInv /\ QuietInv /\ PlacesInv /\ Run /\ [Next]_vars => Run'
  <2> SUFFICES ASSUME TypeInv, QuietInv, PlacesInv, Run, [Next]_vars, ~overlapped'
               PROVE  Chain((last' \o buffer') \o data', number')
    OBVIOUS
  <2>1. /\ buffer \in Seq(Sample) /\ data \in Seq(Sample) /\ last \in Seq(Sample)
        /\ last \o buffer \in Seq(Sample)
    BY DEF TypeInv, TypeOK
  <2>2. CASE SamplesKept
    BY <2>2 DEF SamplesKept
  <2>3. ASSUME ~overlapped, last' = <<>>, buffer' = <<>>, data' \in {<<>>, data},
               number' = number
        PROVE  Chain((last' \o buffer') \o data', number')
    <3>1. Chain(data, number)
      BY <2>1, <2>3, SuffixChain
    <3>2. (last' \o buffer') \o data' = data'
      BY <2>1, <2>3, NoSamples, Nothing
    <3>3. Chain(<<>>, number)
      BY NoSamples, Nothing
    <3>4. Chain(data', number)
      BY <2>3, <3>1, <3>3, Zenon
    <3>5. QED BY <2>3, <3>2, <3>4, Zenon
  <2>4. CASE ReadEnd
    <3>1. /\ ~overlapped /\ last' = <<>> /\ buffer' = <<>> /\ data' \in {<<>>, data}
          /\ number' = number
      BY <2>4 DEF ReadEnd, closeVars
    <3>2. QED BY <2>3, <3>1
  <2>5. CASE ReadReturn /\ stop
    <3>1. /\ ~overlapped /\ last' = <<>> /\ buffer' = <<>> /\ data' = data
          /\ number' = number
      BY <2>5 DEF ReadReturn, queue, closeVars
    <3>2. QED BY <2>3, <3>1
  <2>6. CASE ReadReturn /\ ~stop
    <3> DEFINE e == <<buffer[Len(buffer)]>>
               f == SubSeq(buffer, 1, Len(buffer) - 1)
    <3>1. /\ ~overlapped /\ last' = e /\ buffer' = <<>> /\ data' = data
          /\ number' = number /\ reader = "read"
      BY <2>6 DEF ReadReturn, queue, closeVars
    <3>2. Len(buffer) \in Nat /\ Len(buffer) > 0
      BY <3>1, MicAssumption DEF TypeInv, TypeOK, FullWhenRead
    <3>3. f \in Seq(Sample) /\ e \in Seq(Sample) /\ f \o e = buffer
      BY <2>1, <3>2
    <3> HIDE DEF e, f
    <3>4. last \o f \in Seq(Sample) /\ e \o data \in Seq(Sample)
      BY <2>1, <3>3
    <3>5. (last \o f) \o e = last \o (f \o e)
      <4>1. last \in Seq(Sample) /\ f \in Seq(Sample) /\ e \in Seq(Sample)
        BY <2>1, <3>3
      <4>2. QED BY <4>1, ThreeInARow, Zenon
    <3>6. ((last \o f) \o e) \o data = (last \o f) \o (e \o data)
      <4> DEFINE g == last \o f
      <4>1. g \in Seq(Sample) /\ e \in Seq(Sample) /\ data \in Seq(Sample)
        BY <2>1, <3>3, <3>4
      <4> HIDE DEF g
      <4>2. (g \o e) \o data = g \o (e \o data)
        BY <4>1, ThreeInARow, Zenon
      <4>3. QED BY <4>2 DEF g
    <3>7. Chain((last \o f) \o (e \o data), number)
      BY <3>1, <3>3, <3>5, <3>6
    <3>8. Chain(e \o data, number)
      BY <3>4, <3>7, SuffixChain
    <3>9. (last' \o buffer') \o data' = e \o data
      BY <3>1, <3>3, Nothing
    <3>10. QED BY <3>1, <3>8, <3>9
  <2>7. CASE EnqPush
    <3>1. /\ data' = data \o ChunkOf(turn, number) /\ buffer' = buffer /\ last' = last
          /\ number' = (number + Chunk) % Modulus /\ ~overlapped
      BY <2>7 DEF EnqPush, ChunkOf, readerVars, closeVars
    <3>2. ChunkOf(turn, number) \in Seq(Sample) /\ number \in 0 .. Modulus - 1
      BY ChunkType DEF ChunkOf, TypeInv, TypeOK
    <3>3. (last \o buffer) \o data \in Seq(Sample)
      BY <2>1
    <3>4. Chain(((last \o buffer) \o data) \o ChunkOf(turn, number), number')
      BY <3>1, <3>2, <3>3, PushChain
    <3>5. ((last \o buffer) \o data) \o ChunkOf(turn, number)
            = (last \o buffer) \o (data \o ChunkOf(turn, number))
      <4> DEFINE g == last \o buffer
                 c == ChunkOf(turn, number)
      <4>1. g \in Seq(Sample) /\ data \in Seq(Sample) /\ c \in Seq(Sample)
        BY <2>1, <3>2
      <4> HIDE DEF g, c
      <4>2. (g \o data) \o c = g \o (data \o c)
        BY <4>1, ThreeInARow, Zenon
      <4>3. QED BY <4>2 DEF g, c
    <3>6. QED BY <3>1, <3>4, <3>5
  <2>8. CASE ClearData
    <3>1. /\ ~overlapped /\ app = "clear" /\ last' = last /\ buffer' = buffer
          /\ data' \in {<<>>, data} /\ number' = number
      BY <2>8 DEF ClearData, readerVars
    <3>2. reader \in {"none", "done"}
      BY <3>1 DEF QuietInv, CallerOf, ClosingUnread
    <3>3. last = <<>> /\ buffer = <<>>
      BY <3>2 DEF PlacesInv, LastInTurn, BufferInRead
    <3>4. QED BY <2>3, <3>1, <3>3
  <2>9. CASE StartTurn
    <3>1. /\ ~overlapped /\ reader = "none" /\ last' = <<>> /\ buffer' = buffer
          /\ data' = data /\ number' = number
      BY <2>9 DEF StartTurn, queue
    <3>2. buffer = <<>>
      BY <3>1 DEF PlacesInv, BufferInRead
    <3>3. QED BY <2>3, <3>1, <3>2
  <2>10. QED BY <2>2, <2>4, <2>5, <2>6, <2>7, <2>8, <2>9, SampleSteps
<1>4. Spec => []Run
  BY <1>2, <1>3, TypeInvHolds, Quiet, Places, PTL DEF Spec
<1>5. QED BY <1>1, <1>4, PTL
=============================================================================
