# A specification of the CPqD ASR client library

TLA+ modules, TLC configurations and TLAPS proofs for `asr-sdk-cpp`, the C++
client of the CPqD speech recognition server. Paths below are relative to the
repository (`src/src/speech_recog.cc` is the file `src/speech_recog.cc` of the
library).

    tlc -config Turns.cfg MCRecognizer        # any run of the table below
    tlapm RecognizerProofs.tla                # any *Proofs module

## 1. The system

A program builds a `SpeechRecognizer`, calls `recognize(source, model)`, and
collects results with `waitRecognitionResult()`. The library holds one websocket
connection to the server per recognizer and three threads work on one `Impl`:

| thread | runs | started by | ended by |
|---|---|---|---|
| the program's (`App`) | the public methods | the program | |
| asio (`Net`) | `WsClient::onOpen/onFail/onClose/onMessage`, and from these the message handlers | `WsClient::init` | the end of the connection; joined by `WsClient::close` |
| audio (`Audio`) | `sendAudioMessage` | the handler of a START_RECOGNITION response | the end of the source, or `terminate_send_message_`; joined by `terminateSendMessageThread` |

One recognition is a conversation, driven by responses: `recognize` sends
CREATE_SESSION (or, in a session, START_RECOGNITION); the response to it sends
SET_PARAMETERS if there is a configuration, else START_RECOGNITION; the response
to SET_PARAMETERS sends START_RECOGNITION; the response to that starts the audio
thread; results come until one marked last, which lowers `recognizing_`.

### Components

| component | state | operations | what makes it correct | hard part |
|---|---|---|---|---|
| SpeechRecognizer and its Impl (`speech_recog.cc`, `speech_recog_impl.*`) | `properties_`, `impl_` (`recognizing_`, `open_`, `session_status_`, `result_`, `eptr_`, `audio_src_`, `terminate_send_message_`, `lock_`, `cv_`) | constructor, `recognize`, `waitRecognitionResult`, `cancelRecognition`, `close`, destructor, `resetImpl` | each call ends; results belong to the recognition waited for, once and in order; no thread outlives its Impl | fields shared with two other threads; `lock_` held across a join; auto-close replaces the Impl |
| WsClient (`websocket_client.h`) | the endpoint, the asio thread, the connection status | `init`, `send_msg`, `close`, four handlers | no handler runs on a closed Impl; `close` ends | connection lost, refused or late |
| message handlers (`process_msg.cc`, `process_result.cc`) | through Impl | one per response, `sendAudioMessage`, `ASRProcessResult::handle` | the server has a prepared session before it recognizes; audio in order | each response arrives between any two steps of the program |
| request builders (`send_message.cc`, `message_utils.cc`) | none | one per request | which request follows which response | a throw on the asio thread |
| RingBuffer (`ringbuffer.cc`) | `data_`, `read_pos_`, `write_pos_` | `Write`, `ReadAll`, counts | bytes out = bytes in, in order | wrap-around, full against empty |
| BufferAudioSource (`buffer_audio_source.cc`) | ring, `to_read_`, `finished_` | `write`, `read`, `finish`, `close` | every stored byte is read; the end is told once and after the last byte | a reader and several writers, an unlocked `finish` |
| MicAudioSource (`mic_audio_source.cc`) | `data_` (a deque), `finish_`, `is_open_`, `thread_join_`, `thread_`, `stream_` | `open`, `read`, `close`, `finish`, destructor, `enqueueThread` | what is heard was said since the last `close`, unbroken; `close` leaves no thread and no stream | three threads, flags that `read` consumes, `data_.clear()` without the lock, errors thrown on threads |
| FileAudioSource (`file_audio_source.cc`) | a file's position | `read` | blocks, then -1 for ever | used again it is at its end |
| message parser (`ws_parser.cc`, `asr_message_*.cc`) | command, headers, body | constructor, `Get`, `Str`, `raw`, `get_header` | the headers that were sent are the headers that are read | an unreadable character ends the reading |
| RecognitionConfig (`recognition_config.cc`) | 22 parameters | setters, getters, `getConfigFromEvironment` | what the program wants is what the server is told | defaults, zeros and parameters that depend on others |
| LanguageModelList, RecognitionResult, `SpeechRecognizer::Builder` | plain data | setters and getters; a result's code | one model; a result's code is the server's | |
| mock server (`ws_mock/server.cc`) | `audio_counter` per connection, `session_status` and `parser_` for all | `on_open`, `echo_handler` | one result for a recognition | its counter is not that of a recognition |
| errors, tests, examples | | | | |
| the ASR server and the network | external | | | drops, refusals, failures |

`PROJECT.json` lists the components with the files of each, and the hazards: the
places where one of these parts can go wrong in a way a test would hardly reach,
each with the properties that watch it.

## 2. Modules and the code they stand for

    AsrServer <- Recognizer <- MCRecognizer          (EXTENDS)
                 Recognizer <- RecognizerProofs <- RecognitionProofs
                               RecognitionProofs <- TurnsProofs, ServiceProofs
    RecognitionService <- Recognizer                 (INSTANCE ... WITH)
    RingBuffer  <- BufferAudioSource <- BufferAudioSourceProofs
    AudioStream <- BufferAudioSource                 (INSTANCE ... WITH)
    MicAudioSource <- MicAudioSourceProofs
    WsParser <- Builders, MockServer <- Conversation <- MCConversation
                                        Conversation <- ConversationProofs <- ProtocolProofs

**AsrServer** is the outside world (external): a connection `conn`, a queue
in each direction (`c2s`, `s2c`), and what the server knows (`srv`). It is a server that
keeps to the protocol: requests in order, one response each, one last result
per recognition, none after it accepted a cancel. It may be slow, and a
connection attempt may always outlast the client's ten seconds. `Faults` says which
of the following can happen: a connection is refused (`refuse`) or dropped (`drop`), a request
is answered FAILURE (`reject`), a cancel is followed by a CANCELED result
(`cancelResult`); and, of what the program brings, a url for which there is no
connection to try (`badUrl`) and an audio source whose `close` throws (`sourceThrows`).

**Recognizer** is one SpeechRecognizer with its three threads. `pc` is where
`App` is, `cont` which public method it is in and so where the shared parts
(`Stop`/`Join`/`CloseThrows`/`Joined`, `WsClose`/`JoinNet`) continue; `outcome` is how its latest
call ended. An action is a stretch of code up to the next point at which another
thread can change what it reads:

| actions | code |
|---|---|
| `RecognizeRefuse`, `RecognizeBegin`, `Connect`, `Opened`, `SendRequest` | `recognize`, `Impl::open`, `WsClient::init`; the wait for the connection is `Check`/`Block`/`Timeout` |
| `WaitClosed`, `WaitBegin`, `Check`, `Block`, `Timeout`, `Stop`, `Join`, `CloseThrows`, `Joined`, `CopyResults`, `ClearResults` | `waitRecognitionResult` with `terminateSendMessageThread`; the last one enters `resetImpl` under auto-close |
| `CancelBegin`, `CloseBegin`, `DestroyBegin`, `WsClose`, `JoinNet` | `cancelRecognition`, `close`, the destructor, `Impl::close`, `WsClient::close` |
| `NetOpen`, `NetFail`, `NetClosed`, `NetExit` | the handlers of the connection's life and the end of `run()` |
| `NetTake`, `HandleFailure`, `HandleCreateSession`, `HandleSetParameters`, `HandleStart`, `HandleCancel`, `PushResult`, `FinishResult`, `HandleCanceled` | `onMessage` and what it dispatches to; `PushResult`/`FinishResult` are the two halves of `ASRProcessResult::handle`, between which a waiting program can see the result and not yet the end |
| `AudioRead`, `AudioReady`, `AudioLog`, `AudioSend` | the loop of `sendAudioMessage`: read, test of the stop flag, the log line under `lock_`, the send |

`crashed` is a call of `std::terminate`: a joinable `std::thread` overwritten or
destroyed, an exception that leaves a thread, or one that a source's `close`
throws into a destructor (`pc` is then "thrown"). To any other call the source's
exception goes through, past the reset of the stop flag; the ghost `threw` says of
an Impl that this happened and the flag is up. `Connect` has the start of the
asio thread and `open_ = true` in one step: no handler reads `open_`, so nothing can tell
them apart. `n`, `given`, `pos` and the `rec`
fields on the wire are ghosts (or the caller's own memory): they say which
recognition something belongs to and change no guard.
Three variables group fields of one object (`props`, `impl`, `srv`).

What a program does is the constant `Usage`: which call may follow which
outcome. `MCRecognizer` names the programs the runs consider: any call at any
time (`AnyUsage`), any but cancels (`NoCancelUsage`), those of them that wait once
`recognize` returned, until a wait returns results or throws (`TurnsUsage`), and the
loop of the README and the tests (`TurnUsage`). What a theorem asks of a program
is a condition on `Usage` in the module itself: `NeverCancels`, and `TakesTurns`, which adds
the waiting and a language model that `recognize` accepts.

**RecognitionService** is what a program that never cancels sees of all this:
the present recognition is `idle`, `asked`, `served` or `answered`; its results are
heard one by one, each of a later segment, and handed out once. Recognizer
implements it under the mapping at `Service`: `Phase` is read off the server and the
messages on their way rather than off `recognizing_`, and `Kept` hides what arrives
between the copy and the clear of `result_`, since no wait will return it (`LostSegment`).
`Reset` lets auto-close forget a recognition, and the service does not promise that every result
reaches the program: neither does the code.

**RingBuffer** has the index arithmetic of `ringbuffer.cc` as operators on a
record; `Unread` is the reference definition they are compared with (the bytes between
`read_pos_` and `write_pos_`). **BufferAudioSource** is the source used with
`recognize` by programs that feed audio themselves: `write` and `read` exclude
each other by `mtx_`, and `finish` takes no lock, so it falls anywhere between
their test of `finished_` (`WriteBegin`, `ReadBegin`) and their effect (`WriteEnd`,
`ReadEnd`).
**AudioStream** is what they promise together: a bounded queue
that ends. The bytes of a write are the next ones of those `offered`, the
first that fit are taken, and these come out.

**MicAudioSource** is the source on the microphone, between the program
(`app`), the audio thread of a recognition (`reader`) and its own
`enqueueThread` (`enq`). A sample has a serial number and the recognition in which
it was captured. Members that two threads write are one step each:

| actions | code |
|---|---|
| `ReadEnd`, `ReadBegin`, `Take`, `ReadReturn` | `read`: the two cases of `finish_`, a turn of its loop; and the test of the stop flag in `sendAudioMessage` |
| `OpenStream`, `OpenFlag`, `OpenThread`, `OpenDone` | `open`: the stream, `thread_join_ = false`, `thread_`, `is_open_ = true` |
| `RaiseThreadJoin`, `JoinEnq`, `WaitJoin`, `TestStream`, `ClearData`, `LowerOpen`, `EndClose` | `close`: `threadJoin`, `threadWaitJoin`, the test of `stream_`, which may throw, `data_.clear()`, `is_open_ = false`, and what its caller does next |
| `StopAudio`, `StopNothing`, `JoinReader` | `terminateSendMessageThread`, with an audio thread to join or none, which goes on to `close`; and `cancelRecognition`, which does not |
| `CloseBegin` | a `close` of the program's own, whatever the audio thread is doing, and the source's destructor |
| `EnqStart`, `EnqCapture`, `EnqPush`, `EnqStop`, `PortAudioFails` | `enqueueThread`, and the errors of PortAudio |

`caller` is who closes, since an exception of `close` does different things to
a call (`stop`, `program`), which fails, and to a destructor (`destroy`, `dying`), where the process ends.
`overlapped` is a ghost: a `close` has met the reads of a recognition. `since` is one
more: the first recognition that can have begun after the last `close`.
`mtx_` is held between `EnqCapture` and
`EnqPush`; what `data_.clear()` leaves when it falls in between is not determined.
`stream_` is uninitialised until the first `open`, so it may or may not be null.

**Conversation** has what Recognizer leaves out: the contents of the messages. Here
a call of the program, a handler and a packet is one step, since their interleavings
are in Recognizer, and the rest is made of operators in three modules:

| module | code |
|---|---|
| `WsParser` | `Raw`: how a request is written, headers in the order of `std::map`; `Parse`: what is read of a text, by the token rules of `GetNext` and the grammar of `Stm`, for both sides |
| `Builders` | `Config`, `GetConfigFromEnvironment`: a configuration from setters and environment; `SetParameters`, `CreateSession`, `StartRecognition`, `SendAudio`, `CancelRecognition`: the requests; `LanguageModelList`, `UrlAccepted`: what builders refuse |
| `MockServer` | the two queues, and `echo_handler` of the tests' server: `MockAnswer`, `MockAudio`, `ByCounter` |
| `Conversation` | the program (`Build`, `Recognize`, `Wait`, `Cancel`), one `Handle...` per handler and branch of `process_msg.cc` and `process_result.cc`, `AudioSend` with a `FileAudioSource` (`ReadBlock`; a stopped audio thread has read one more block, `StopAudio`), and a server of the protocol that sends every form of result the handlers read |

A text is a sequence of headers whose values are pieces: words, spaces, and
`Illegal`, any character the tokenizer has no token for. Each message to the client
carries a ghost `means`, what the server means by it, which no handler reads; `owed`
lists the final results meant and not yet taken by a wait, a new
`recognize` or a cancel, `lasts` counts the last results. The mock's `session_status`
and `parser_` outlive a connection and its `audio_counter` is not initialised by
`on_open`, so `UsedMocks` has what earlier connections can leave; CREATE_SESSION
resets it.

Abstractions, each deliberate:

- Audio content is the index of a packet (Recognizer) or a serial number per
  byte or sample (the sources); Conversation counts packets. In Recognizer
  headers and JSON and the partial-result and start/end-of-speech messages are left
  out; Conversation has them. Listeners are called and change nothing in the library:
  they, and logging, are left out everywhere but for the log line of the audio
  thread, which takes `lock_`.
- Conversation leaves out the body's bytes (a body is its JSON fields, or
  nothing), auto-close, lost connections and time limits; a program there
  calls `recognize` when it has waited for the recognition before, and cancels at most once.
- `recognizing_` and the other shared fields are read and written atomically.
  `eptr_`, `result_` and `audio_src_` are plain objects accessed by two threads;
  a torn access of one is not modelled, an interleaving of whole accesses is.
- A `send` on a connection that is not open is caught by `send_msg` and stored in
  `eptr_`.
- After an auto-close `lk` unlocks a mutex that `resetImpl` destroyed with the old
  Impl; the model lets that unlock do nothing.
- A ring has at least one byte (`SizeAssumption`): the index arithmetic of one of size 0 would
  divide by zero.

## 3. Runs

| run | program | bounds | shows |
|---|---|---|---|
| `Turns` | any calls but `cancelRecognition`, of a program that waits for what it began; eager, lazy, auto-closing | 2 recognitions, 2 segments, 1 packet; connection dropped, refused, late or impossible, requests rejected, sources that throw | no thread is lost or overwritten, and only a source that throws into a destructor ends the process; what the server hears is the source's audio, in order; auto-close leaves nothing behind; a stop hits the next audio thread only where a source threw; and the invariant their proofs rest on (`TurnsInv`) |
| `NoCancel` | any calls but `cancelRecognition` | 2 recognitions, 2 segments, 1 packet; as in `Turns` | a recognition is accepted only when the server runs none; results are of the recognition waited for, in order and once; Recognizer implements RecognitionService; and the invariants their proofs rest on (`PreparedInv`, `OneRecognition`) |
| `Liveness` | any calls | 1 recognition; connection dropped, refused, late or impossible, CANCELED results, sources that throw | no handler on a closed Impl; `recognize` ends, and the constructor, `close`, cancel and the destructor do unless the connection is late (`Late`) |
| `BufferSource` | two writers, a reader, finish at any time | a ring of 4 (3 usable), writes of 0..4 bytes, 9 bytes in all | the ring under its lock is the abstract stream; a write drops bytes only into a full ring; after finish the reader reaches the end |
| `Microphone` | recognitions, cancels, `finish`, `close` and the destructors at any time | 2 recognitions, chunks of 2, buffers of 3, at most 4 samples waiting, numbered modulo 6 | as long as no `close` meets a recognition's reads: samples arrive unbroken and none from before the last `close`; a closed source has no thread and no stream; `close` returns and `finish` is heard; the process ends only by a PortAudio error or in a destructor that closes a source never opened |
| `Conversation` | over a hundred programs: each parameter alone, each documented variable alone, those that depend on one another, unreadable texts and texts with spaces, the environment, configurations with several turns and cancels, one or two files for two or three recognitions, mistakes of the program and empty texts, cancels, a server that rejects | 3 recognitions, a mock that counts to 5 | the mock is told what the program, or its environment as documented, wants; every message is heard as it was meant, and results are stored once and in order; one recognition is under way at a time and one request of it (`OneTurn`), so `recognizing_` is up until the last result; the mock's counter and the file never come past the limit together (`MockTurn`), so there is one result for each recognition; calls fail for a reason; every recognition on the mock ends |

Two recognitions are what it takes for something of one to reach the next;
two segments for a result that is not the last; one data packet, with the last
packet, for the stop flag to fall between two packets, and the number of packets only
repeats the audio loop; `MaxInFlight` bounds only
how far the server may run ahead of a client that does not read. `Turns`
includes every kind of build. A ring of 4 with 9 bytes wraps around at least
twice, is full, empty, and split in two pieces; chunks of 4 exceed its capacity
of 3. Chunks of 2 and buffers of 3 make `read` leave a rest behind, so
that 4 samples are more than one `read` takes; what can be lost at once is at most a buffer's 3 or
the 4 that wait, fewer than the 6 that serial numbers go round in. The second recognition is
what it takes to find an open source, left by a cancel, or a flag left by `finish`, and to begin while another one's source is being closed. The mock counts to 5 instead of 20: its start
of speech is at a fifth of that, and files have 0 to 5 blocks, fewer, as many and
one more packets with the last. `CHECK_DEADLOCK` is off in all runs: a program that has destroyed its
recognizer, or a process that ended, does nothing more.

Six runs look for what a test, a comment or a message of the repository says
and the code does not do; each finds a counterexample, and `PROJECT.json`
"findings" quotes the sentence:

| run | the counterexample |
|---|---|
| `WaitDeadlock` | `waitRecognitionResult` joins the audio thread with `lock_` held while that thread waits for `lock_` to log |
| `LostSegment` | a segment stored between the copy and the clear of `result_` is never returned |
| `StuckRecognizing` | after a failed connection `recognize` is refused for ever |
| `CanceledResults` | a wait after `cancelRecognition` returns a result that was on its way |
| `LostConfiguration` | after auto-close the next session gets no parameters |
| `CloseRace` | `close` while START_RECOGNITION is answered leaves a joinable thread: `std::terminate` |

They explain the limits of the passing runs: `NoTerminate` and
`StreamNotAbandoned` are checked for programs that take turns (a program that
closes or cancels in the middle of a recognition meets `CloseRace`),
`ResultsInOrder` and `IdleMeansIdle` without cancels (`CanceledResults`),
`RecognizeReturns` of the constructor and `CloseReturns` but for late connections (`Late`), and
`ParametersArrive` but for the parameters whose variable is misread (`Misread`); these two are described next.

Some properties say where the code is at its limit:

- `terminateSendMessageThread` closes the audio source before it lowers the stop flag, and a source may
  throw: a microphone does that was never opened, because its session was refused or it was finished
  before its first read. `NoTerminate` and `StreamNotAbandoned` except what follows of it, the end of the process in a
  destructor and an audio thread that finds the flag up, and nothing else.
- `close` of a connection that is still being tried begins no closing handshake (`websocket_client.h:97-102`). If
  it opens then, the join of the asio thread waits until the peer closes (`Late`): the constructor that gave up on it
  after 10 s hangs and never throws what `speech_recog_impl.cc:74-77` insists on. `RecognizeReturns`, for
  the constructor, and `CloseReturns` end there too; without `Late` the run `Liveness` violates both.
- `OneTurn`, `MockTurn`, `EndedTogether`, `OneResultEach` and what `FailsForAReason` says of the end of the
  process leave cancels out (`Regular`). A cancel in
  Conversation that is heard before the session is created lowers `recognizing_`, the
  next `recognize` sends CREATE_SESSION again, both responses start a recognition and the
  second audio thread is assigned over the first (`process_msg.cc:135`): the process ends. And
  the mock does not stop on a cancel.
- On the mock they ask for files shorter than `END_RECOGNIZE`: with more it
  sends a result at the limit and another at the last packet. The second is heard in the next
  recognition and taken for its end, and from a third one on the process may end at
  the same line: the recognition that was taken for ended still gets its START_RECOGNITION response.
- `FailsForAReason` counts an empty text as no model: `addFromURI("")` is accepted, and is then refused by
  `startRecognition` as if nothing had been added (`send_message.cc:179`).
- `ParametersArrive` leaves out what follows a text that cannot be read: one with a character that
  the parser has no token for (an account tag with `@`), one that begins with a colon, or one that is the word
  `ASR`, which is taken for the title of a message. The reading of headers
  ends there (`ws_parser.cc:121`), and the model has the first two as `Illegal`. The spaces a text
  begins with are not told either. What the environment asks for is read by the table of the library's README
  (`src/README.md:50-77`; `Documented`, `AsDocumented`). Where the code contradicts it (`IsMisread`) the
  parameter is left out, with those that depend on it:

  | the library's README | the code |
  |---|---|
  | `INFER_EMOTION_ENABLED` is Infer-emotion-enabled, `INFER_GENDER_ENABLED` is Infer-gender-enabled (:60-61) | each constant holds the other's name (`recognition_config.h:29-30`) |
  | `CONTINUOUS_MODE` is decoder.continuousMode (:65) | `INFER_AGE_ENABLED` is read (`recognition_config.cc:336`) |
  | a Bool is true if its variable exists (:77) | it is true only if the variable spells TRUE, and false otherwise (`recognition_config.cc:268-273`) |
- The microphone's properties, but for its type invariant, leave out what happens once a `close` and the reads of a recognition have
  met (`overlapped`): a recognition that begins while the recognizer closes the source for another one, or a
  program's own `close` during a `read`. `data_` is then emptied under the `read`; `open` lowers the flag that the `close` raised,
  and its join never ends; or `is_open_` goes down over a running thread, and the next `open` assigns over it.
- `FreshAudio` counts from the last `close`, not from the beginning of the recognition: `cancelRecognition` leaves the source open,
  and the recognition after it hears what was captured since the canceled one began.

### Fairness

`FairSpec` of Recognizer: weak fairness of each thread's step. A thread that can
run without pause eventually does, the operating system sees to it; it may still miss
a lock each time the lock is free for a moment. `Timeout` belongs to `AppStep`: the
waits are `wait_for` calls and do end. Nothing is assumed of the program's calls or of
the server; `NetFail`, `NetClosed` and `NetExit` are in `NetStep` because the asio
library itself ends an attempt or a closing handshake that gets no answer, by
timers of its own. A connection that did open is closed by the peer only if the peer wants to, so nothing
ends the join of a `Late` one: the properties say so. Nothing is claimed of a
`waitRecognitionResult`: it may never return (`WaitDeadlock`).
In MicAudioSource each of the two threads and a `close` that has begun are
fair, and the device delivers samples: `enqueueThread` is blocked in `Pa_ReadStream` for
at most a chunk's time. `FinishHeard` and `CloseReturns` need it, since `read` fills its
buffer before it looks at a flag again.
Conversation assumes weak fairness of the library's two threads and of the
mock, which answers each message before it takes the next; nothing of the program or of
the other server. It is written as `<>[]Ready => []<><<Step>>_vars` with what
enables each step by hand, which is what WF means and what TLC evaluates faster.
In BufferAudioSource the steps of the one reader and of a
writer are fair; `finish` is not, and `EndReached` starts from it. The
reader is the audio thread, which calls `read` until -1.

## 4. Proofs

Proved by TLAPS for every value of the constants (any number of recognitions,
segments, packets, any faults, builds and programs; any ring size), from the named assumptions
`BoundsAssumption`, `FaultsAssumption`, `UsageAssumption`, `SizeAssumption`,
`ThreadsAssumption`, `MicAssumption`, `MockAssumption`, `ProgramsAssumption`,
`MeaningsAssumption`, `ParametersAssumption` (what is set has the parameter's type; numbers go up to any
`MaxNumber`) and `NumeralsAssumption` (`std::to_string` gives different numbers different words):

| theorem | statement |
|---|---|
| `Typing` | `Spec => []TypeOK` of Recognizer |
| `NoHandlerAfterCloseHolds` | an Impl that reports itself closed has no running asio thread |
| `ServerPreparedHolds`, `PreparedInvHolds` | the server recognizes only in a session that has the parameters |
| `OneRecognitionHolds` | without cancels, a recognition is at one place at a time |
| `IdleMeansIdleHolds` | without cancels, `recognize` accepts a recognition only when the server runs none and none is asked for |
| `ResultsInOrderHolds` | without cancels, waits hand out results of their recognition, in order and once |
| `RecognizerImplementsService` | without cancels, Recognizer implements RecognitionService |
| `TurnsInvHolds` | in turns, what the threads know of each other and of the connection |
| `NoTerminateHolds` | in turns, no thread is overwritten or destroyed while joinable, and no handler throws: only a source that throws into a destructor ends the process |
| `AudioInOrderHolds` | in turns, the server hears a prefix of the recognition's own source |
| `AutoCloseLeavesNothingHolds` | in turns, auto-close leaves no connection, handler or thread |
| `StreamNotAbandonedHolds` | in turns, the audio thread gives up early only while it is being joined, or where a source threw (an action property) |
| `SourceTyping` | the indices of the ring stay in range |
| `Drained` | `to_read_` is down only over an empty ring |
| `EndIsLast` | -1 comes after every stored byte |
| `DropsWhenFull` | a write that drops bytes leaves the ring full |
| `SourceImplementsStream` | BufferAudioSource implements AudioStream |
| `MicAudioSourceProofs!Typing` | the microphone's members stay in their domains, and a buffer in its size |
| `ClosedIsQuietHolds` | a microphone that is not open nor being opened has no thread and no stream |
| `EndsByErrorOnlyHolds` | only a PortAudio error, or a destructor that closes a source never opened, ends the process |
| `FreshAudioHolds` | a recognition hears nothing captured before the last `close` |
| `SamplesInOrderHolds` | what it hears and what waits for it is one unbroken run of samples |
| `ConversationProofs!Typing` | the conversation's variables stay in their domains, and the queues in their bound |
| `HeardAsItIsMeant` | what the handlers make of a message is what its sender means by it |
| `Faithful` | the results stored or under way are those sent as final and not yet taken, with their codes and in order |
| `OneTurnAtATime` | one recognition at a time and one request of it, on the mock and on a server that may reject |
| `MockCountsRight` | the mock's count, the packets under way and the blocks left stay within `END_RECOGNIZE`, or the count is past it |
| `TakenForRunning` | `recognizing_` is set exactly from `recognize` to the last result heard |
| `ResultForEach` | the mock has sent one result for each recognition whenever none is running, and never one too many |
| `ReasonForEach` | the process ends, and a call raises, only for a reason (`FailsForAReason`) |
| `ConfigurationArrives` | a mock that is sent audio was told the parameters the program, or its environment as documented, wants and no other one (`ParametersArrive`) |

"Without cancels" is the hypothesis `NeverCancels`, "in turns" `TakesTurns`: the
theorems read `NeverCancels /\ Spec => []...`. Both are conditions on what the program calls and none on
the threads, the faults or the bounds, and both are needed: `CanceledResults`
and `CloseRace` are runs of the same model in which a program that cancels, or closes in the middle of a
recognition, gets what these theorems exclude. The four theorems on the microphone's safety hold
as long as no `close` has met the reads of a recognition (`overlapped`), with no other hypothesis.

*ServerPrepared* is not inductive: nothing in it says why a response that is
still on the wire, or being handled, may trigger the next request. `PreparedInv`
adds that every message **proves** what the server has done (a positive
CREATE_SESSION response proves a session, one to SET_PARAMETERS the parameters, a
result both), that `session_status_` is evidence of the same kind, and that
no message survives its connection (`QuietWhenClosed`) - without which a response of an
old connection could speak for the new server session. The run `NoCancel` checks
it, and the theorem holds for cancels as well. The proof has one step per action and
a lemma for each of the two queues (what appending and taking preserve).

*One recognition.* `recognizing_` is raised by the program and lowered by the asio
thread, so that it is down says nothing by itself about the server. `OneRecognition`
follows the recognition instead: `recognize` is at work on it (`Asking`), one request for it is in
`c2s`, one response to such a request is inbound, the server runs it, or its last result is inbound, and
at each of these places there is nothing of it at the earlier ones (`OneRequest`, `FreshStart`). `Inbound` is the message being handled
followed by those behind it: a handler then consumes the head, and taking the next message changes nothing.
The segments ascend from what was handed out over what is stored and what is inbound
to the server's next one (`StoredInOrder`, `LaterSegments`, `InboundInOrder`), which gives `ResultsInOrder`; `NothingWhenIdle`
gives `IdleMeansIdle`. Every part is used to prove another.

*The service* needs one fact more, that a recognition the server has ended still has
its last result inbound (`EndedByLast`), or its phase would fall back from `served` to
`asked`. The proof maps each action to one step of the service: `RecognizeBegin` to
`Begin`, the server's START_RECOGNITION to `Serve`, its last result to `Answer`, `PushResult` to
`Hear` (or, between copy and clear, to nothing), `FinishResult` to `End`, the copy or the throw of a wait to
`Take`, `resetImpl` to `Reset`, and all others to a stutter.

*Turns.* `TurnsInv` says what makes App's stopping of threads safe. A handler starts an audio thread on a
START_RECOGNITION response, whatever App does at that time, so App may join, close
or begin the next turn only when no request or response of that kind is left (`Settled`): `AppSettled` derives it from
what ended the wait - a result, an error or `recognizing_` - and `OneRecognition` says that there
is no second one. `OneAudioThread` then has no thread where App believes that it joined it, and the stop flag
up only while App joins, or where a source threw. `ConnectionKnown` is needed for lost and refused connections, and for the
constructor that throws. `AudioTrail` ties the source's position, the packet in hand, the packets
on the wire and those heard into one count.

The *refinement* of the ring maps the abstract queue to `Unread(ring)`, so it needs
what the wrap-around does: `Wrap` (the index arithmetic), `UnreadAt` (the
i-th unread byte), `WriteAppends` and `ReadAllTakes` (a write in two pieces
appends, a read in two pieces takes everything). `DrainInv` is the strengthening
that makes the reader's -1 an abstract end: the code returns -1 from flags, the
abstract stream ends only when it is empty.

The *microphone* rests on `QuietInv`, which knows who is closing at each step (`CallerOf`) and that
no `read` is under way then unless the two overlapped (`ClosingUnread`). From these: a thread
and a stream exist only under a joinable `thread_` (`Owned`), the thread has closed the stream when it ends
(`ExitedClosed`), `open` runs only on a source without a thread (`OpeningIsClosed`), a
closed source has nothing to join (`ClosedJoined`), and a `close` past its join has no thread left (`JoinedFirst`). What `close` does
by lowering `is_open_` last is `ClosedJoined`, and it is what makes the thread that `open`
assigns never write over another; none of these is inductive without the others.
Its *samples* rest on `PlacesInv`: what the buffer holds at each point of `read` (`BufferInRead`), that nothing
was heard last where no recognition reads (`LastInTurn`), and that whatever captures or reads does so in a
recognition begun after the last `close` (`Since`), so that every sample captured from now on is fresh. Serial numbers run modulo a bound, so "unbroken" is that each sample is
the successor of the one before it (`Chain`), from what was last heard over `buffer` and `data_` to the next number.

The *conversation* is proved for any set of programs and of meanings, and so for texts and lists of any
length. `WordAfterSpace` and `WordAlone` say what the tokenizer makes of a value, `AllRead`, `FirstOfKey` and
`LegalParse` what is read of a list of headers that have no illegal character, and `ResultRead`
what of a result. `MeaningsAssumption` is what the protocol asks of a server: the last result is final, a result
without a body ends its recognition, one without the fields is a RECOGNIZED. The handlers disagree with a
server that breaks it (a last result that is not final leaves `recognizing_` up). `ResultsFaithful` needs `MeaningKept` of
the message at the head of the queue, and of `Finals` that it splits at any place of a sequence (`FinalsConcat`);
`RestIsUnderWay` is the same for what `Leave` drops. These are inductions over a
sequence: the library's theorems for it take a predicate, so `AllNaturals` derives, from the well-foundedness of
`<`, that a *set* with 0 and closed under successors has every natural number,
and `FoldExists` and `FoldUnique` that a recursive function on `0 .. k` exists and
is what its equations say.

The *turns of the conversation* are in ProtocolProofs. `EndedTogether` is not inductive: that `recognizing_` is down
when the last result was heard says nothing of a request that could still be answered. `OneTurn` says what is under way
in each direction: the newest request is the only one that asks for an answer, while its response is under way nothing
is asked and no audio sent, a server that is asked to start is not running, and the response to the start comes before the
last result. It is proved together with typing and meaning (`Inv`) and with `ClientSays` (what the present turn's `recognize` was
given), `ServersSay` (who refuses, and what each server sends) and `FilesLeft` (the blocks that are left).
What is read of a request or an answer must then be known for every text: `AnswerRead` (a response), `OnlyWritten` (of a refusal, whose
Message ends the reading, only what was written is read), `PacketRead` (the last packet's mark), `ModelSays` (which models `recognize` refuses).
On the mock `OneTurn` needs the counter, since there a result comes when it is due and not when one was asked for:
`MockTurn` bounds the counter, the packets under way and the blocks left in the file by `END_RECOGNIZE`, or has the counter past
it, which is what makes the last packet answered and no earlier one; `Short` is what this asks of the files. The
conjunction of these is `PInv`; its proof has a lemma per action. `FailsForAReason` has its first clause from
`OneTurn` (no second start while an audio thread runs) and its second from `ClientSays` and `ServersSay`
(no refusal on the mock, nor from a server that does not reject).

The *parameters* go from setters and environment to the mock in two halves, and the theorem has no hypothesis on
cancels or files. That the mock is told the right message is `Settings`: the program keeps to one configuration
(`Built`), every SET_PARAMETERS under way is the one made of it (`SaidOnly`), and until the mock has read it (`Untold`)
only earlier requests and their answers are under way, so that no audio is sent. `ParametersArrive` alone is
not inductive, since the mock outlives a connection: a counter that an earlier one left would end a recognition nobody asked for, unless
CREATE_SESSION, which resets it, is still at the head of the queue. That the message says the right thing is
`ToldRight`: the headers are those of the parameters that are sent, in the order of their names (`SetHeaders`, an
induction over the recursive function that picks them); what is read is this list up to its first text that cannot be
read (`PrefixRead`), so a key is told with its value (`ToldOf`, `TextRead` for a text with spaces) or not at all (`NotTold`);
`Written` and `SentWhenWanted` bring it back to what the program wants, where a parameter that is zero, false or empty,
or depends on another one, is not written. That the code's reading of the environment is the documented one, for the
parameters that are not `Misread`, is part of it.

### Only model-checked

Liveness (`RecognizeReturns`, `CloseReturns`, `EndReached`, `FinishHeard`,
`RecognitionEnds`), which is out of the prover's reach. Every safety property of a passing run is proved.

## 5. Not modelled

- Errors (`recognition_error.cc`, `expected.h`): values; what is thrown is an
  outcome of a call. Texts, scores, words and classifiers of results: data nothing reads.
- The listeners' callbacks, and a listener that calls the recognizer. A result
  with an empty body makes them hear all stored results again (`process_result.cc:114`).
- Two threads of the program that close one microphone at a time, or call one recognizer.
- Several recognizers: they share no state. A builder that is used again after `build()` has
  no properties left.
- Of the mock: GET_PARAMETERS, RELEASE_SESSION and InvalidParam, which the library never
  sends, its TLS and its dump of messages.
- A start line that cannot be read, and a Content-Length that is no number, which
  the parser does not catch (`ws_parser.cc:270`); no server of the model sends either.
- JSON with no alternatives in a partial result: `array_items()[0]` is then
  out of bounds (`process_result.cc:67`).
- `RingBuffer::Read` and `Empty`, which nothing in the library calls.

Seen while reading and not in a model: a 4000 byte write into a `BufferAudioSource` of 4000
loses one byte, since one slot stays free; the copy of a result kept for the wait is taken
before `setLastSpeechSegment` (`src/src/process_result.cc:147`).

## 6. Plan

Done: AsrServer and Recognizer, with proofs of typing, closing, preparation, of one recognition at a time
and its results, of turns, and of the refinement of RecognitionService;
RingBuffer, BufferAudioSource and AudioStream with the refinement proof;
MicAudioSource with its proofs of typing, closing and samples; WsParser, Builders, MockServer and
Conversation, with proofs of typing, of what is heard and of what is stored, of
turns, of the mock's count, of how it fails and of the parameters.

Next: a Conversation that loses its connection, which now is only in Recognizer.
