--------------------------- MODULE MicAudioSource ---------------------------
(***************************************************************************)
(* src/src/mic_audio_source.cc between the three threads that meet in it:  *)
(*   app     the thread of the program: its own finish() and close(), the  *)
(*           recognizer's calls and the destructor,                        *)
(*   reader  the audio thread of a recognition, which calls read(),        *)
(*   enq     enqueueThread, which moves samples from PortAudio to data_.   *)
(***************************************************************************)
EXTENDS Naturals, Sequences

CONSTANTS
  Chunk,       \* samples of one Pa_ReadStream, MIC_BUFFER_SIZE_BYTES
  BufferSize,  \* buffer_size_
  MaxTurns,    \* recognitions that use the microphone
  Room,        \* bound: enqueueThread adds no chunk over this many samples
  Modulus      \* bound: samples are numbered modulo this

ASSUME MicAssumption ==
  /\ Chunk \in Nat \ {0} /\ BufferSize \in Nat \ {0} /\ MaxTurns \in Nat
  /\ Room \in Nat /\ Modulus \in Nat \ {0}

VARIABLES
  finish,      \* finish_
  isOpen,      \* is_open_
  threadJoin,  \* thread_join_
  thread,      \* thread_ is joinable
  stream,      \* stream_; the constructor leaves it as it finds it
  data,        \* data_, the samples captured and not yet read
  enq,         \* where enqueueThread is
  reader,      \* where the audio thread is
  buffer,      \* the buffer that read() fills
  last,        \* ghost: the last sample read() handed over in this turn
  turn,        \* ghost: recognitions begun with this source
  number,      \* ghost: the number of the next sample
  since,       \* ghost: the first recognition after the last close()
  overlapped,  \* ghost: a close() and a recognition's reads met
  app,         \* where the program is
  caller,      \* for whom: "cancel" stops the audio thread and closes nothing
  stop,        \* sendAudioMessage_terminate_ of the recognizer
  failed,      \* PortAudio returned an error
  crashed      \* std::terminate was called

members == <<finish, isOpen, threadJoin, thread, stream>>
queue == <<data, number>>
readerVars == <<reader, buffer, last, turn>>
closeVars == <<since, overlapped>>
appVars == <<app, caller, stop>>
vars == <<members, queue, enq, readerVars, closeVars, appVars, failed, crashed>>

(***************************************************************************)
(* Who stops the audio thread or closes the source: cancelRecognition();   *)
(* terminateSendMessageThread() in a call ("stop") or in a destructor of   *)
(* the recognizer ("destroy"); a close() of the program's own; and the     *)
(* destructor of the source ("dying").                                     *)
(***************************************************************************)
Callers == {"none", "cancel", "stop", "destroy", "program", "dying"}

Sample == [turn : 0 .. MaxTurns, no : 0 .. Modulus - 1]

(* An uninitialised pointer may happen to be null.                         *)
Init ==
  /\ finish = FALSE /\ isOpen = FALSE /\ threadJoin = TRUE /\ thread = FALSE
  /\ stream \in {"garbage", "null"}
  /\ data = <<>> /\ number = 0 /\ enq = "none"
  /\ reader = "none" /\ buffer = <<>> /\ last = <<>> /\ turn = 0
  /\ since = 0 /\ overlapped = FALSE
  /\ app = "idle" /\ caller = "none" /\ stop = FALSE
  /\ failed = FALSE /\ crashed = FALSE

Least(a, b) == IF a < b THEN a ELSE b
Up == ~crashed

(* mtx_ is held by enqueueThread while it pushes.                          *)
Locked == enq = "pushing"

-----------------------------------------------------------------------------
(* Faulty variants of actions below, one for each property to notice.      *)

(* read() takes all there is into its buffer.                              *)
TakeEverything ==
  /\ Up /\ reader = "filling" /\ ~Locked /\ data # <<>>
  /\ buffer' = buffer \o data /\ data' = <<>>
  /\ reader' = IF Len(buffer') < BufferSize THEN "filling" ELSE "read"
  /\ UNCHANGED <<members, number, enq, last, turn, closeVars, appVars, failed,
                 crashed>>

(* read() forgets what a full buffer had no room for.                      *)
TakeAndClear ==
  /\ Up /\ reader = "filling" /\ ~Locked /\ data # <<>>
  /\ buffer' = buffer \o SubSeq(data, 1, Least(BufferSize - Len(buffer), Len(data)))
  /\ data' = <<>>
  /\ reader' = IF Len(buffer') < BufferSize THEN "filling" ELSE "read"
  /\ UNCHANGED <<members, number, enq, last, turn, closeVars, appVars, failed,
                 crashed>>

(* finish_ is looked at only before the microphone is opened.              *)
ReadEndUnopened ==
  /\ Up /\ reader = "calling" /\ finish /\ ~isOpen
  /\ finish' = FALSE
  /\ data' \in IF Locked THEN {<<>>, data} ELSE {<<>>}
  /\ buffer' = <<>> /\ last' = <<>> /\ reader' = "done"
  /\ UNCHANGED <<isOpen, threadJoin, thread, stream, number, enq, turn,
                 closeVars, appVars, failed, crashed>>

(* close() does not raise thread_join_.                                    *)
JoinWithoutFlag ==
  /\ Up /\ app = "threadJoin"
  /\ app' = "joinEnq"
  /\ UNCHANGED <<members, queue, enq, readerVars, closeVars, caller, stop, failed, crashed>>

(* close() lowers is_open_ before it has joined thread_.                   *)
ClosedTooEarly ==
  /\ Up /\ app = "threadJoin"
  /\ threadJoin' = TRUE /\ isOpen' = FALSE /\ app' = "joinEnq"
  /\ UNCHANGED <<finish, thread, stream, queue, enq, readerVars, closeVars, caller, stop,
                 failed, crashed>>

(* enqueueThread closes the stream and leaves the pointer.                 *)
StreamKept ==
  /\ Up /\ enq = "looping" /\ threadJoin
  /\ enq' = "exited"
  /\ UNCHANGED <<members, queue, readerVars, closeVars, appVars, failed, crashed>>

(* close() leaves the samples in data_.                                    *)
ClearNothing ==
  /\ Up /\ app = "clear"
  /\ since' = turn + 1 /\ app' = "lower"
  /\ UNCHANGED <<members, queue, enq, readerVars, overlapped, caller, stop, failed,
                 crashed>>

-----------------------------------------------------------------------------
(* The audio thread.                                                       *)

(* A START_RECOGNITION response starts it: also while the recognizer closes *)
(* the source, when cancelRecognition() did not wait for that response.    *)
StartTurn ==
  /\ Up /\ reader = "none" /\ turn < MaxTurns /\ caller # "dying" /\ app # "gone"
  /\ overlapped' = (overlapped \/ caller \notin {"none", "cancel"})
  /\ reader' = "calling" /\ turn' = turn + 1 /\ last' = <<>>
  /\ UNCHANGED <<members, queue, enq, buffer, since, appVars, failed, crashed>>

(* read() after finish().  data_ is cleared without mtx_: when it races     *)
(* with a push, what is left is not determined.                            *)
ReadEnd ==
  /\ Up /\ reader = "calling" /\ finish
  /\ finish' = FALSE
  /\ data' \in IF Locked THEN {<<>>, data} ELSE {<<>>}
  /\ buffer' = <<>> /\ last' = <<>> /\ reader' = "done"
  /\ UNCHANGED <<isOpen, threadJoin, thread, stream, number, enq, turn,
                 closeVars, appVars, failed, crashed>>

ReadBegin ==
  /\ Up /\ reader = "calling" /\ ~finish
  /\ buffer' = <<>>
  /\ reader' = IF isOpen THEN "filling" ELSE "opening"
  /\ UNCHANGED <<members, queue, enq, last, turn, closeVars, appVars, failed,
                 crashed>>

(* open(): the stream, the flag, the thread; over a joinable one it         *)
(* terminates.                                                             *)
OpenStream ==
  /\ Up /\ reader = "opening"
  /\ stream' = "open" /\ reader' = "streaming"
  /\ UNCHANGED <<finish, isOpen, threadJoin, thread, queue, enq, buffer, last, turn,
                 closeVars, appVars, failed, crashed>>

OpenFlag ==
  /\ Up /\ reader = "streaming"
  /\ threadJoin' = FALSE /\ reader' = "flagged"
  /\ UNCHANGED <<finish, isOpen, thread, stream, queue, enq, buffer, last, turn,
                 closeVars, appVars, failed, crashed>>

OpenThread ==
  /\ Up /\ reader = "flagged"
  /\ crashed' = thread
  /\ thread' = TRUE /\ enq' = "starting" /\ reader' = "opened"
  /\ UNCHANGED <<finish, isOpen, threadJoin, stream, queue, buffer, last, turn,
                 closeVars, appVars, failed>>

OpenDone ==
  /\ Up /\ reader = "opened"
  /\ isOpen' = TRUE /\ reader' = "filling"
  /\ UNCHANGED <<finish, threadJoin, thread, stream, queue, enq, buffer, last,
                 turn, closeVars, appVars, failed, crashed>>

Filled(b) == IF Len(b) = BufferSize THEN "read" ELSE "filling"

(* The loop of read(): as much as there is, under mtx_, until it is full.  *)
Take ==
  /\ Up /\ reader = "filling" /\ ~Locked /\ data # <<>>
  /\ LET k == Least(BufferSize - Len(buffer), Len(data))
     IN /\ buffer' = buffer \o SubSeq(data, 1, k)
        /\ data' = SubSeq(data, k + 1, Len(data))
  /\ reader' = Filled(buffer')
  /\ UNCHANGED <<members, number, enq, last, turn, closeVars, appVars, failed,
                 crashed>>

(* sendAudioMessage after read(): a raised flag ends the thread.           *)
ReadReturn ==
  /\ Up /\ reader = "read"
  /\ IF stop THEN reader' = "done" /\ last' = <<>>
     ELSE reader' = "calling" /\ last' = <<buffer[Len(buffer)]>>
  /\ buffer' = <<>>
  /\ UNCHANGED <<members, queue, enq, turn, closeVars, appVars, failed, crashed>>

-----------------------------------------------------------------------------
(* enqueueThread.                                                          *)

EnqStart ==
  /\ Up /\ enq = "starting"
  /\ enq' = "looping"
  /\ UNCHANGED <<members, queue, readerVars, closeVars, appVars, failed, crashed>>

(* Pa_ReadStream delivers a chunk and mtx_ is taken.                       *)
EnqCapture ==
  /\ Up /\ enq = "looping" /\ ~threadJoin
  /\ Len(data) + Chunk <= Room
  /\ enq' = "pushing"
  /\ UNCHANGED <<members, queue, readerVars, closeVars, appVars, failed, crashed>>

EnqPush ==
  /\ Up /\ enq = "pushing"
  /\ data' = data \o [i \in 1 .. Chunk |->
                        [turn |-> turn, no |-> (number + i - 1) % Modulus]]
  /\ number' = (number + Chunk) % Modulus
  /\ enq' = "looping"
  /\ UNCHANGED <<members, readerVars, closeVars, appVars, failed, crashed>>

EnqStop ==
  /\ Up /\ enq = "looping" /\ threadJoin
  /\ stream' = "null" /\ enq' = "exited"
  /\ UNCHANGED <<finish, isOpen, threadJoin, thread, queue, readerVars, closeVars, appVars,
                 failed, crashed>>

(* A PortAudio error is thrown on a thread where nothing catches it.       *)
PortAudioFails ==
  /\ Up
  /\ reader = "opening" \/ enq \in {"starting", "looping"}
  /\ failed' = TRUE /\ crashed' = TRUE
  /\ UNCHANGED <<members, queue, enq, readerVars, closeVars, appVars>>

-----------------------------------------------------------------------------
(* The program and what it calls.                                          *)

Finish ==
  /\ Up /\ app # "gone"
  /\ finish' = TRUE
  /\ UNCHANGED <<isOpen, threadJoin, thread, stream, queue, enq, readerVars,
                 closeVars, appVars, failed, crashed>>

(* terminateSendMessageThread() and cancelRecognition(), with an audio      *)
(* thread to join and with none.                                           *)
StopAudio ==
  /\ Up /\ app = "idle" /\ reader # "none"
  /\ stop' = TRUE /\ app' = "joinReader"
  /\ caller' \in {"cancel", "stop", "destroy"}
  /\ UNCHANGED <<members, queue, enq, readerVars, closeVars, failed, crashed>>

StopNothing ==
  /\ Up /\ app = "idle" /\ reader = "none"
  /\ \/ caller' = "cancel" /\ app' = "end"
     \/ caller' \in {"stop", "destroy"} /\ app' = "threadJoin"
  /\ UNCHANGED <<members, queue, enq, readerVars, closeVars, stop, failed, crashed>>

(* Only terminateSendMessageThread() goes on to close the source.          *)
JoinReader ==
  /\ Up /\ app = "joinReader" /\ reader = "done"
  /\ reader' = "none"
  /\ app' = IF caller = "cancel" THEN "end" ELSE "threadJoin"
  /\ UNCHANGED <<members, queue, enq, buffer, last, turn, closeVars, caller, stop,
                 failed, crashed>>

(* A close() of the program's own, whatever the audio thread is doing, or  *)
(* the destructor, when nobody holds the source any more.                  *)
CloseBegin ==
  /\ Up /\ app = "idle"
  /\ \/ /\ caller' = "program"
        /\ overlapped' = (overlapped \/ reader \notin {"none", "done"})
     \/ caller' = "dying" /\ reader = "none" /\ UNCHANGED overlapped
  /\ app' = "threadJoin"
  /\ UNCHANGED <<members, queue, enq, readerVars, since, stop, failed, crashed>>

(* threadJoin(): the flag, then the join of a joinable thread_.            *)
RaiseThreadJoin ==
  /\ Up /\ app = "threadJoin"
  /\ threadJoin' = TRUE /\ app' = "joinEnq"
  /\ UNCHANGED <<finish, isOpen, thread, stream, queue, enq, readerVars, closeVars,
                 caller, stop, failed, crashed>>

JoinEnq ==
  /\ Up /\ app = "joinEnq"
  /\ \/ ~thread /\ UNCHANGED <<thread, enq>>
     \/ thread /\ enq = "exited" /\ thread' = FALSE /\ enq' = "none"
  /\ app' = "waitJoin"
  /\ UNCHANGED <<finish, isOpen, threadJoin, stream, queue, readerVars, closeVars,
                 caller, stop, failed, crashed>>

(* threadWaitJoin().                                                       *)
WaitJoin ==
  /\ Up /\ app = "waitJoin" /\ ~thread
  /\ app' = "test"
  /\ UNCHANGED <<members, queue, enq, readerVars, closeVars, caller, stop, failed,
                 crashed>>

(* A stream_ that is not null makes close() throw: to a call, which leaves  *)
(* the stop flag as it is, or out of a destructor.                         *)
TestStream ==
  /\ Up /\ app = "test"
  /\ \/ /\ stream = "null"
        /\ app' = "clear" /\ UNCHANGED <<caller, crashed>>
     \/ /\ stream # "null" /\ caller \in {"stop", "program"}
        /\ app' = "idle" /\ caller' = "none" /\ UNCHANGED crashed
     \/ /\ stream # "null" /\ caller \in {"destroy", "dying"}
        /\ crashed' = TRUE /\ UNCHANGED <<app, caller>>
  /\ UNCHANGED <<members, queue, enq, readerVars, closeVars, stop, failed>>

(* data_ is cleared without mtx_ here, too.                                *)
ClearData ==
  /\ Up /\ app = "clear"
  /\ data' \in IF Locked THEN {<<>>, data} ELSE {<<>>}
  /\ since' = turn + 1 /\ app' = "lower"
  /\ UNCHANGED <<members, number, enq, readerVars, overlapped, caller, stop, failed,
                 crashed>>

LowerOpen ==
  /\ Up /\ app = "lower"
  /\ isOpen' = FALSE /\ app' = "end"
  /\ UNCHANGED <<finish, threadJoin, thread, stream, queue, enq, readerVars,
                 closeVars, caller, stop, failed, crashed>>

(* The caller goes on: terminateSendMessageThread() and cancelRecognition() *)
(* lower the stop flag, and a recognizer that dies with an audio thread     *)
(* started meanwhile takes the process along.                              *)
EndClose ==
  /\ Up /\ app = "end"
  /\ stop' = (stop /\ caller \notin {"cancel", "stop", "destroy"})
  /\ app' = IF caller = "dying" THEN "gone" ELSE "idle"
  /\ caller' = "none"
  /\ crashed' = (caller = "destroy" /\ reader # "none")
  /\ UNCHANGED <<members, queue, enq, readerVars, closeVars, failed>>

-----------------------------------------------------------------------------
ReaderStep ==
  \/ ReadEnd
  \/ ReadBegin
  \/ OpenStream
  \/ OpenFlag
  \/ OpenThread
  \/ OpenDone
  \/ Take
  \/ ReadReturn

EnqStep == EnqStart \/ EnqCapture \/ EnqPush \/ EnqStop

CloseStep ==
  \/ JoinReader
  \/ RaiseThreadJoin
  \/ JoinEnq
  \/ WaitJoin
  \/ TestStream
  \/ ClearData
  \/ LowerOpen
  \/ EndClose

ProgramStep == StartTurn \/ Finish \/ StopAudio \/ StopNothing \/ CloseBegin

Next == ReaderStep \/ EnqStep \/ PortAudioFails \/ CloseStep \/ ProgramStep

Spec == Init /\ [][Next]_vars

(* Threads that can run do, and the device keeps delivering samples.       *)
FairSpec == Spec /\ WF_vars(ReaderStep) /\ WF_vars(EnqStep) /\ WF_vars(CloseStep)

-----------------------------------------------------------------------------
(* Every member keeps to its domain; a buffer never outgrows buffer_size_. *)
TypeOK ==
  /\ finish \in BOOLEAN /\ isOpen \in BOOLEAN /\ threadJoin \in BOOLEAN
  /\ thread \in BOOLEAN /\ stream \in {"garbage", "null", "open"}
  /\ data \in Seq(Sample) /\ number \in 0 .. Modulus - 1
  /\ enq \in {"none", "starting", "looping", "pushing", "exited"}
  /\ reader \in {"none", "calling", "opening", "streaming", "flagged", "opened",
                 "filling", "read", "done"}
  /\ buffer \in Seq(Sample) /\ Len(buffer) <= BufferSize
  /\ last \in Seq(Sample) /\ turn \in 0 .. MaxTurns
  /\ since \in 0 .. MaxTurns + 1 /\ overlapped \in BOOLEAN
  /\ app \in {"idle", "joinReader", "threadJoin", "joinEnq", "waitJoin", "test",
              "clear", "lower", "end", "gone"}
  /\ caller \in Callers /\ stop \in BOOLEAN
  /\ failed \in BOOLEAN /\ crashed \in BOOLEAN

(***************************************************************************)
(* What a recognition hears of the microphone, and what waits to be read,  *)
(* is one unbroken run of samples: none lost, repeated or swapped between  *)
(* the two threads, across reads, finish() and cancels.  (A close() that    *)
(* meets a recognition's reads empties data_ under their feet.)            *)
(***************************************************************************)
Unbroken(s) ==
  \A i \in 1 .. Len(s) - 1 : s[i + 1].no = (s[i].no + 1) % Modulus
SamplesInOrder == ~overlapped => Unbroken(last \o buffer \o data)

(***************************************************************************)
(* A recognition hears nothing captured before the last close().  After    *)
(* cancelRecognition() the microphone stays open: the next recognition     *)
(* hears what was captured since the canceled one began, and after a       *)
(* close() what was captured since it began itself.                        *)
(***************************************************************************)
FreshAudio ==
  reader # "none" /\ ~overlapped =>
    LET heard == buffer \o data
    IN \A i \in 1 .. Len(heard) : heard[i].turn >= since

(* read() is inside open(), past Pa_OpenStream.                            *)
Opening == reader \in {"streaming", "flagged", "opened"}

(***************************************************************************)
(* A source that is not open, and that no read() is opening, has no        *)
(* enqueueThread and no PortAudio stream: close() leaves nothing behind,   *)
(* unless it met a recognition's reads.                                    *)
(***************************************************************************)
ClosedIsQuiet ==
  ~isOpen /\ ~Opening /\ ~overlapped /\ ~crashed =>
    ~thread /\ enq = "none" /\ stream # "open"

(* The process ends only by a PortAudio error, by a destructor that closes  *)
(* a microphone never opened, or where a close() met a recognition's reads. *)
EndsByErrorOnly ==
  crashed => \/ failed
             \/ caller \in {"destroy", "dying"} /\ stream = "garbage"
             \/ overlapped

(* After finish() the recognition that is reading comes to its end: its     *)
(* read() fills the buffer first.                                          *)
FinishHeard ==
  finish /\ reader # "none" ~>
    reader \in {"none", "done"} \/ crashed \/ overlapped

(***************************************************************************)
(* close(), cancelRecognition() and the destructors return, and so does    *)
(* the stop before them.  (With a read() that opens the microphone in       *)
(* between, the flag that close() raised is lowered again and its join     *)
(* never ends.)                                                            *)
(***************************************************************************)
CloseReturns ==
  app \notin {"idle", "gone"} ~>
    app \in {"idle", "gone"} \/ crashed \/ overlapped
=============================================================================
