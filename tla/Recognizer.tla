----------------------------- MODULE Recognizer -----------------------------
(***************************************************************************)
(* One SpeechRecognizer of the client library and its three threads:       *)
(*   App    the thread of the program that calls the public methods,       *)
(*   Net    the asio thread that runs the websocket handlers,              *)
(*   Audio  the thread that sends the audio of one recognition.            *)
(* An action is a stretch of code between two points where another thread  *)
(* can change what the code reads next.                                    *)
(***************************************************************************)
EXTENDS AsrServer, FiniteSets

CONSTANTS
  Builds,  \* what SpeechRecognizer::Builder may have been told
  Lms,     \* language models a program passes: "given" or "empty"
  Usage    \* pairs <<outcome, call>>: which call may follow which outcome

Outcomes == {"built", "started", "refused", "results", "timeout", "error",
             "canceled", "closed"}
Calls == {"recognize", "wait", "cancel", "close", "destroy"}

ASSUME UsageAssumption ==
  /\ Builds \subseteq [autoClose : BOOLEAN, lazy : BOOLEAN, config : BOOLEAN]
  /\ Lms \subseteq {"given", "empty"}
  /\ Usage \subseteq Outcomes \X Calls

VARIABLES
  pc,        \* where App is
  cont,      \* the public method (or destructor) App is inside
  outcome,   \* how App's latest call ended
  n,         \* recognitions begun so far
  given,     \* ghost: results handed to the program for recognition n
  props,     \* SpeechRecognizer::Properties
  impl,      \* SpeechRecognizer::Impl
  pos,       \* data packets already read from impl.source
  net,       \* the asio thread
  handling,  \* the message Net is handling
  audio,     \* the audio thread; joinable unless "none"
  packet,    \* the packet the audio thread has just read
  crashed    \* std::terminate was called

appVars == <<pc, cont, outcome, n, given>>
implVars == <<props, impl, pos>>
netVars == <<net, handling>>
audioVars == <<audio, packet>>
vars == <<appVars, implVars, netVars, audioVars, crashed, wireVars>>

-----------------------------------------------------------------------------
Segment == [rec : Recogs, seg : 1 .. Segments]
None == [kind |-> "none"]
Pushed == [kind |-> "PUSHED"]      \* a last result stored, its end not yet told
LastPacket == Packets + 1
NoPacket == 0                      \* read() returned no bytes, and not -1

PropsType == [autoClose : BOOLEAN, lazy : BOOLEAN, wanted : BOOLEAN]

ImplType ==
  [recognizing : BOOLEAN, terminate : BOOLEAN, threw : BOOLEAN, open : BOOLEAN,
   status : {"connecting", "open", "closed", "failed"},
   session : {"none", "idle"}, source : Recogs, lm : {"none", "given", "empty"},
   config : BOOLEAN, result : Seq(Segment), eptr : BOOLEAN]

(* threw is a ghost: a source's close() threw and left terminate raised.    *)
NewImpl(config) ==
  [recognizing |-> FALSE, terminate |-> FALSE, threw |-> FALSE, open |-> FALSE,
   status |-> "connecting", session |-> "none", source |-> 0, lm |-> "none",
   config |-> config, result |-> <<>>, eptr |-> FALSE]

(* The constructor: resetImpl takes the configuration out of the properties *)
(* and connects unless connect_on_recognize_ is set.                        *)
Init ==
  /\ WireInit
  /\ \E b \in Builds :
       /\ props = [autoClose |-> b.autoClose, lazy |-> b.lazy, wanted |-> b.config]
       /\ impl = NewImpl(b.config)
       /\ pc = IF b.lazy THEN "idle" ELSE "connect"
  /\ cont = "construct" /\ outcome = "built" /\ n = 0 /\ given = <<>> /\ pos = 0
  /\ net = "none" /\ handling = None
  /\ audio = "none" /\ packet = NoPacket
  /\ crashed = FALSE

-----------------------------------------------------------------------------
(* Helpers.                                                                *)

(* cv_.notify_one: App is the only thread that ever waits on cv_.          *)
Notify == pc' = IF pc = "blocked" THEN "check" ELSE pc

(* Faulty variant: close() takes lock_ as waitRecognitionResult does.       *)
LockHeldByClose ==
  \/ pc = "doze"
  \/ cont \in {"wait", "reset", "close"}
     /\ pc \in {"stop", "join", "joined", "copy", "clear", "wsClose", "joinNet"}

(* impl_->lock_ is held by App: across the predicate of a wait, and in     *)
(* waitRecognitionResult until it returns, resetImpl included.             *)
LockHeld ==
  \/ pc = "doze"
  \/ cont \in {"wait", "reset"}
     /\ pc \in {"stop", "join", "joined", "copy", "clear", "wsClose", "joinNet"}

(* The predicates of the two wait_for calls.                               *)
Ready ==
  IF cont = "wait"
  THEN impl.result # <<>> \/ impl.eptr \/ ~impl.recognizing
  ELSE impl.status # "connecting"

AfterWait == IF cont = "wait" THEN "stop" ELSE "opened"

(* WsClient::send_msg: a failing send is caught and stored in eptr_.       *)
Sent(m) == c2s' = IF conn = "open" THEN Append(c2s, m) ELSE c2s
Trouble == conn # "open"

(* What ASRSendMessage sends; headers and bodies are left out.             *)
CreateSession == Sent(Request("CREATE_SESSION", 0, 0))
SetParameters == Sent(Request("SET_PARAMETERS", 0, 0))
StartRecognition == Sent(Request("START_RECOGNITION", n, 0))

(* Each thread's place, in a process that std::terminate has not ended.    *)
At(p) == pc = p /\ ~crashed
Call(c) == At("idle") /\ <<outcome, c>> \in Usage
Return(o) == pc' = "idle" /\ outcome' = o
NetUp == net = "run" /\ ~crashed
Handling(kind) == handling.kind = kind /\ ~crashed
AudioAt(a) == audio = a /\ ~crashed

-----------------------------------------------------------------------------
(***************************************************************************)
(* Faulty variants of actions below, one for each property: each is a bug  *)
(* the code could have had, and the property notices it.                   *)
(***************************************************************************)

(* recognize() keeps the audio source of the first recognition.            *)
RecognizeKeepsSource(lm) ==
  /\ Call("recognize") /\ ~impl.recognizing /\ n < MaxRecog
  /\ n' = n + 1 /\ given' = <<>> /\ pos' = IF n = 0 THEN 0 ELSE pos
  /\ impl' = [impl EXCEPT !.recognizing = TRUE, !.eptr = FALSE, !.result = <<>>,
                          !.source = IF @ = 0 THEN n + 1 ELSE @, !.lm = lm]
  /\ cont' = "recognize"
  /\ pc' = IF impl.open THEN "request" ELSE "connect"
  /\ UNCHANGED <<outcome, props, netVars, audioVars, crashed, wireVars>>

(* recognize() does not clear the stored results.                          *)
RecognizeKeepsResults(lm) ==
  /\ Call("recognize") /\ ~impl.recognizing /\ n < MaxRecog
  /\ n' = n + 1 /\ given' = <<>> /\ pos' = 0
  /\ impl' = [impl EXCEPT !.recognizing = TRUE, !.eptr = FALSE,
                          !.source = n + 1, !.lm = lm]
  /\ cont' = "recognize"
  /\ pc' = IF impl.open THEN "request" ELSE "connect"
  /\ UNCHANGED <<outcome, props, netVars, audioVars, crashed, wireVars>>

(* recognize() creates a session for the first recognition only.           *)
SendRequestByCount ==
  /\ At("request") /\ Return("started")
  /\ IF n = 1 THEN CreateSession ELSE StartRecognition
  /\ impl' = [impl EXCEPT !.eptr = @ \/ Trouble]
  /\ UNCHANGED <<cont, n, given, props, pos, netVars, audioVars, crashed,
                 conn, s2c, srv>>

(* Impl::open waits for the connection without a limit.                    *)
TimeoutOfWaitOnly ==
  /\ At("blocked") /\ cont = "wait"
  /\ IF Ready THEN pc' = AfterWait /\ UNCHANGED outcome ELSE Return("timeout")
  /\ UNCHANGED <<cont, n, given, implVars, netVars, audioVars, crashed, wireVars>>

(* terminateSendMessageThread raises its flag and joins nothing.           *)
StopWithoutJoin ==
  /\ At("stop") /\ pc' = "joined"
  /\ impl' = [impl EXCEPT !.terminate = audio # "none"]
  /\ UNCHANGED <<cont, outcome, n, given, props, pos, netVars, audioVars, crashed,
                 wireVars>>

(* terminateSendMessageThread does not lower its flag.                     *)
JoinedKeepsFlag ==
  /\ At("joined")
  /\ IF cont = "wait" THEN pc' = "copy" ELSE pc' = "wsClose"
  /\ UNCHANGED <<cont, outcome, n, given, implVars, netVars, audioVars, crashed,
                 wireVars>>

(* waitRecognitionResult forgets auto-close.                               *)
ClearResultsOnly ==
  /\ At("clear")
  /\ impl' = [impl EXCEPT !.result = <<>>]
  /\ Return(IF impl.eptr THEN "error" ELSE "results")
  /\ UNCHANGED <<cont, n, given, props, pos, netVars, audioVars, crashed, wireVars>>

(* waitRecognitionResult leaves what it hands out where it is.             *)
ClearNothing ==
  /\ At("clear")
  /\ IF impl.eptr THEN Return("error") /\ UNCHANGED cont
     ELSE IF props.autoClose /\ impl.open
     THEN pc' = "stop" /\ cont' = "reset" /\ UNCHANGED outcome
     ELSE Return("results") /\ UNCHANGED cont
  /\ UNCHANGED <<n, given, implVars, netVars, audioVars, crashed, wireVars>>

(* WsClient::close clears open_ before it joins the asio thread.           *)
WsCloseClearsOpen ==
  /\ At("wsClose")
  /\ conn' = IF conn = "open" THEN "closing" ELSE conn
  /\ impl' = [impl EXCEPT !.open = FALSE]
  /\ pc' = "joinNet"
  /\ UNCHANGED <<cont, outcome, n, given, props, pos, netVars, audioVars, crashed,
                 c2s, s2c, srv>>

(* The parameters of the configuration are never sent.                     *)
HandleCreateSessionStarts ==
  /\ Handling("RESPONSE") /\ handling.method = "CREATE_SESSION" /\ handling.ok
  /\ handling' = None /\ StartRecognition
  /\ UNCHANGED <<appVars, implVars, net, audioVars, crashed, conn, s2c, srv>>

(* Any result ends the recognition, whatever its last_segment.             *)
PushResultAsLast ==
  /\ Handling("RESULT")
  /\ impl' = [impl EXCEPT !.result = Append(@, [rec |-> handling.rec,
                                                seg |-> handling.seg]),
                          !.session = "idle"]
  /\ handling' = Pushed
  /\ UNCHANGED <<appVars, props, pos, net, audioVars, crashed, wireVars>>

(* The audio source counts one packet past its end.                        *)
AudioReadPastEnd ==
  /\ AudioAt("reading") /\ audio' = "ready"
  /\ packet' = pos + 1 /\ pos' = pos + 1
  /\ UNCHANGED <<appVars, props, impl, netVars, crashed, wireVars>>

-----------------------------------------------------------------------------
(* App: recognize(), Impl::open and the connection.                        *)

RecognizeRefuse ==
  /\ Call("recognize") /\ impl.recognizing
  /\ Return("refused")
  /\ UNCHANGED <<cont, n, given, implVars, netVars, audioVars, crashed, wireVars>>

RecognizeBegin(lm) ==
  /\ Call("recognize") /\ ~impl.recognizing /\ n < MaxRecog
  /\ n' = n + 1 /\ given' = <<>> /\ pos' = 0
  /\ impl' = [impl EXCEPT !.recognizing = TRUE, !.eptr = FALSE,
                          !.result = <<>>, !.source = n + 1, !.lm = lm]
  /\ cont' = "recognize"
  /\ pc' = IF impl.open THEN "request" ELSE "connect"
  /\ UNCHANGED <<outcome, props, netVars, audioVars, crashed, wireVars>>

(***************************************************************************)
(* Impl::open up to its wait.  A websocketpp endpoint is initialised once: *)
(* init_asio throws on the endpoint of an Impl that connected before.      *)
(* Without a connection for the URL no thread starts, and the wait begins  *)
(* all the same.  The asio thread starts just before open_ is set, which   *)
(* no handler reads: the two are one step.                                 *)
(***************************************************************************)
Connect ==
  /\ At("connect")
  /\ \/ /\ conn = "none"
        /\ conn' = "connecting" /\ net' = "run"
        /\ impl' = [impl EXCEPT !.open = TRUE]
        /\ pc' = "check" /\ UNCHANGED outcome
     \/ /\ conn = "none" /\ "badUrl" \in Faults
        /\ pc' = "check" /\ UNCHANGED <<outcome, conn, net, impl>>
     \/ /\ conn # "none"
        /\ Return("error") /\ UNCHANGED <<conn, net, impl>>
  /\ UNCHANGED <<cont, n, given, props, pos, handling, audioVars, crashed,
                 c2s, s2c, srv>>

(* Impl::open after its wait: a failed one leaves open_ set.  In the       *)
(* constructor the exception destroys the Impl, which closes itself if     *)
(* open_ is set.                                                           *)
Opened ==
  /\ At("opened")
  /\ \/ /\ impl.status = "open" /\ cont = "recognize"
        /\ pc' = "request" /\ UNCHANGED <<cont, outcome, props>>
     \/ /\ impl.status = "open" /\ cont = "construct"
        /\ Return("built")
        /\ props' = [props EXCEPT !.lazy = @ \/ props.autoClose]
        /\ UNCHANGED cont
     \/ /\ impl.status # "open" /\ cont = "recognize"
        /\ Return("error") /\ UNCHANGED <<cont, props>>
     \/ /\ impl.status # "open" /\ cont = "construct"
        /\ pc' = IF impl.open THEN "stop" ELSE "gone"
        /\ cont' = "abort" /\ UNCHANGED <<outcome, props>>
  /\ UNCHANGED <<n, given, impl, pos, netVars, audioVars, crashed, wireVars>>

(* The end of recognize(): a session first, if there is none.              *)
SendRequest ==
  /\ At("request")
  /\ IF impl.session # "none" /\ impl.lm = "empty"
     THEN Return("error") /\ UNCHANGED <<impl, c2s>>
     ELSE /\ Return("started")
          /\ IF impl.session = "none" THEN CreateSession ELSE StartRecognition
          /\ impl' = [impl EXCEPT !.eptr = @ \/ Trouble]
  /\ UNCHANGED <<cont, n, given, props, pos, netVars, audioVars, crashed,
                 conn, s2c, srv>>

-----------------------------------------------------------------------------
(* App: the wait on cv_ shared by Impl::open and waitRecognitionResult.    *)

(* The predicate, evaluated with lock_ held.  Handlers do not take lock_:  *)
(* one that notifies between a false predicate and the block is not heard. *)
Check ==
  /\ At("check")
  /\ pc' = IF Ready THEN AfterWait ELSE "doze"
  /\ UNCHANGED <<cont, outcome, n, given, implVars, netVars, audioVars, crashed,
                 wireVars>>

Block ==
  /\ At("doze")
  /\ pc' = "blocked"
  /\ UNCHANGED <<cont, outcome, n, given, implVars, netVars, audioVars, crashed,
                 wireVars>>

(* wait_for gives up and evaluates the predicate a last time: 10 s may not  *)
(* be enough for a connection, nor the program's limit for a result.       *)
Timeout ==
  /\ At("blocked")
  /\ IF Ready THEN pc' = AfterWait /\ UNCHANGED outcome
     ELSE IF cont = "wait" THEN Return("timeout")
     ELSE pc' = "opened" /\ UNCHANGED outcome
  /\ UNCHANGED <<cont, n, given, implVars, netVars, audioVars, crashed, wireVars>>

-----------------------------------------------------------------------------
(* App: waitRecognitionResult(), cancelRecognition(), close(), destruction. *)

(* With no connection the stored results are returned at once.             *)
WaitClosed ==
  /\ Call("wait") /\ ~impl.open
  /\ Return(IF impl.eptr THEN "error" ELSE "results")
  /\ given' = IF impl.eptr THEN given ELSE given \o impl.result
  /\ impl' = [impl EXCEPT !.result = <<>>]
  /\ cont' = "wait"
  /\ UNCHANGED <<n, props, pos, netVars, audioVars, crashed, wireVars>>

WaitBegin ==
  /\ Call("wait") /\ impl.open
  /\ cont' = "wait" /\ pc' = "check"
  /\ UNCHANGED <<outcome, n, given, implVars, netVars, audioVars, crashed,
                 wireVars>>

(* The bound on c2s keeps repeated cancels finite.                         *)
CancelBegin ==
  /\ Call("cancel") /\ Len(c2s) < MaxInFlight
  /\ Sent(Request("CANCEL_RECOGNITION", 0, 0))
  /\ impl' = [impl EXCEPT !.eptr = @ \/ Trouble]
  /\ cont' = "cancel" /\ pc' = "stop"
  /\ UNCHANGED <<outcome, n, given, props, pos, netVars, audioVars, crashed,
                 conn, s2c, srv>>

CloseBegin ==
  /\ Call("close")
  /\ cont' = "close"
  /\ IF impl.open THEN pc' = "stop" /\ UNCHANGED outcome ELSE Return("closed")
  /\ UNCHANGED <<n, given, implVars, netVars, audioVars, crashed, wireVars>>

(* The destructor.  A std::thread destroyed while joinable terminates.     *)
DestroyBegin ==
  /\ Call("destroy")
  /\ cont' = "destroy"
  /\ IF impl.open THEN pc' = "stop" /\ UNCHANGED crashed
     ELSE pc' = "gone" /\ crashed' = (audio # "none")
  /\ UNCHANGED <<outcome, n, given, implVars, netVars, audioVars, wireVars>>

(* terminateSendMessageThread: the flag, the join, the close() of the      *)
(* source (none for cancelRecognition), the flag again.                    *)
Stop ==
  /\ At("stop")
  /\ IF audio = "none" THEN pc' = "joined" /\ UNCHANGED impl
     ELSE pc' = "join" /\ impl' = [impl EXCEPT !.terminate = TRUE]
  /\ UNCHANGED <<cont, outcome, n, given, props, pos, netVars, audioVars, crashed,
                 wireVars>>

Join ==
  /\ At("join") /\ AudioAt("done")
  /\ audio' = "none" /\ pc' = "joined"
  /\ UNCHANGED <<cont, outcome, n, given, implVars, netVars, packet, crashed,
                 wireVars>>

(* A source may throw when it is closed, as a microphone does that was     *)
(* never opened.  The flag stays up and the call throws; a destructor lets *)
(* nothing out, and the process ends.                                      *)
CloseThrows ==
  /\ At("joined") /\ cont # "cancel" /\ impl.source # 0
  /\ "sourceThrows" \in Faults
  /\ impl' = [impl EXCEPT !.threw = impl.terminate]
  /\ IF cont \in {"destroy", "reset", "abort"}
     THEN pc' = "thrown" /\ crashed' = TRUE /\ UNCHANGED outcome
     ELSE Return("error") /\ UNCHANGED crashed
  /\ UNCHANGED <<cont, n, given, props, pos, netVars, audioVars, wireVars>>

Joined ==
  /\ At("joined")
  /\ impl' = [impl EXCEPT !.terminate = FALSE, !.threw = FALSE]
  /\ CASE cont = "wait" -> pc' = "copy" /\ UNCHANGED <<cont, outcome>>
       [] cont = "cancel" ->
            IF props.autoClose /\ impl.open
            THEN pc' = "stop" /\ cont' = "cancelClose" /\ UNCHANGED outcome
            ELSE Return("canceled") /\ UNCHANGED cont
       [] OTHER -> pc' = "wsClose" /\ UNCHANGED <<cont, outcome>>
  /\ UNCHANGED <<n, given, props, pos, netVars, audioVars, crashed, wireVars>>

(* waitRecognitionResult copies the stored results and then clears them,   *)
(* while the handlers that store and clear them take no lock.              *)
CopyResults ==
  /\ At("copy")
  /\ given' = IF impl.eptr THEN given ELSE given \o impl.result
  /\ pc' = "clear"
  /\ UNCHANGED <<cont, outcome, n, implVars, netVars, audioVars, crashed, wireVars>>

ClearResults ==
  /\ At("clear")
  /\ impl' = [impl EXCEPT !.result = <<>>]
  /\ IF impl.eptr THEN Return("error") /\ UNCHANGED cont
     ELSE IF props.autoClose /\ impl.open
     THEN pc' = "stop" /\ cont' = "reset" /\ UNCHANGED outcome
     ELSE Return("results") /\ UNCHANGED cont
  /\ UNCHANGED <<n, given, props, pos, netVars, audioVars, crashed, wireVars>>

(* WsClient::close: the closing handshake starts if there is a connection.  *)
WsClose ==
  /\ At("wsClose")
  /\ conn' = IF conn = "open" THEN "closing" ELSE conn
  /\ pc' = "joinNet"
  /\ UNCHANGED <<cont, outcome, n, given, implVars, netVars, audioVars, crashed,
                 c2s, s2c, srv>>

(* The asio thread is joined; then the method returns or the Impl dies.    *)
JoinNet ==
  /\ At("joinNet") /\ net = "done"
  /\ \/ /\ cont \in {"close", "cancelClose"}
        /\ impl' = [impl EXCEPT !.open = FALSE]
        /\ Return(IF cont = "close" THEN "closed" ELSE "canceled")
        /\ UNCHANGED <<net, conn, c2s, s2c, srv, crashed>>
     \/ /\ cont \in {"destroy", "abort"}
        /\ impl' = [impl EXCEPT !.open = FALSE]
        /\ pc' = "gone" /\ crashed' = (audio # "none")
        /\ UNCHANGED <<outcome, net, conn, c2s, s2c, srv>>
     \/ /\ cont = "reset" /\ audio # "none"
        /\ pc' = "gone" /\ crashed' = TRUE
        /\ UNCHANGED <<outcome, impl, net, conn, c2s, s2c, srv>>
     \/ /\ cont = "reset" /\ audio = "none"
        /\ impl' = NewImpl(FALSE)
        /\ net' = "none"
        /\ conn' = "none" /\ c2s' = <<>> /\ s2c' = <<>> /\ srv' = NewServer
        /\ Return("results") /\ UNCHANGED crashed
  /\ UNCHANGED <<cont, n, given, props, pos, handling, audioVars>>

-----------------------------------------------------------------------------
(* Net: the websocket handlers.                                            *)

NetOpen ==
  /\ NetUp /\ conn = "connecting"
  /\ conn' = "open"
  /\ impl' = [impl EXCEPT !.status = "open"]
  /\ Notify
  /\ UNCHANGED <<cont, outcome, n, given, props, pos, netVars, audioVars, crashed,
                 c2s, s2c, srv>>

NetFail ==
  /\ "refuse" \in Faults
  /\ NetUp /\ conn = "connecting"
  /\ conn' = "failed"
  /\ impl' = [impl EXCEPT !.status = "failed", !.eptr = TRUE]
  /\ Notify
  /\ UNCHANGED <<cont, outcome, n, given, props, pos, netVars, audioVars, crashed,
                 c2s, s2c, srv>>

NetClosed ==
  /\ NetUp /\ conn \in {"closing", "dropped"} /\ handling = None
  /\ conn' = "closed"
  /\ impl' = [impl EXCEPT !.status = "closed"]
  /\ Notify
  /\ UNCHANGED <<cont, outcome, n, given, props, pos, netVars, audioVars, crashed,
                 c2s, s2c, srv>>

(* run() returns once stop_perpetual was called and no connection is left. *)
NetExit ==
  /\ NetUp /\ At("joinNet") /\ conn \in {"closed", "failed"}
  /\ net' = "done"
  /\ UNCHANGED <<appVars, implVars, handling, audioVars, crashed, wireVars>>

(* websocketpp hands over a message only while the connection is open.     *)
NetTake ==
  /\ NetUp /\ conn = "open" /\ handling = None /\ s2c # <<>>
  /\ handling' = Head(s2c) /\ s2c' = Tail(s2c)
  /\ UNCHANGED <<appVars, implVars, net, audioVars, crashed, conn, c2s, srv>>

Handles(method) ==
  Handling("RESPONSE") /\ handling.method = method /\ handling.ok

(* generateError, then recognitionError.                                   *)
HandleFailure ==
  /\ Handling("RESPONSE") /\ ~handling.ok
  /\ handling' = None
  /\ impl' = [impl EXCEPT !.eptr = TRUE]
  /\ Notify
  /\ UNCHANGED <<cont, outcome, n, given, props, pos, net, audioVars, crashed,
                 wireVars>>

(* startRecognition on the asio thread: what it throws, nothing catches.   *)
NetStart ==
  IF impl.lm = "empty"
  THEN crashed' = TRUE /\ UNCHANGED <<pc, impl, c2s>>
  ELSE /\ StartRecognition
       /\ impl' = [impl EXCEPT !.eptr = @ \/ Trouble]
       /\ IF Trouble THEN Notify ELSE UNCHANGED pc
       /\ UNCHANGED crashed

HandleCreateSession ==
  /\ Handles("CREATE_SESSION")
  /\ handling' = None
  /\ IF impl.config
     THEN /\ SetParameters
          /\ impl' = [impl EXCEPT !.eptr = @ \/ Trouble]
          /\ IF Trouble THEN Notify ELSE UNCHANGED pc
          /\ UNCHANGED crashed
     ELSE NetStart
  /\ UNCHANGED <<cont, outcome, n, given, props, pos, net, audioVars, conn, s2c,
                 srv>>

HandleSetParameters ==
  /\ Handles("SET_PARAMETERS")
  /\ handling' = None
  /\ NetStart
  /\ UNCHANGED <<cont, outcome, n, given, props, pos, net, audioVars, conn, s2c,
                 srv>>

(* startRecog: assigning a std::thread over a joinable one terminates.     *)
HandleStart ==
  /\ Handles("START_RECOGNITION")
  /\ handling' = None
  /\ IF impl.source = 0 THEN UNCHANGED <<audioVars, crashed>>
     ELSE IF audio = "none"
     THEN audio' = "reading" /\ packet' = NoPacket /\ UNCHANGED crashed
     ELSE crashed' = TRUE /\ UNCHANGED audioVars
  /\ UNCHANGED <<appVars, implVars, net, wireVars>>

HandleCancel ==
  /\ Handles("CANCEL_RECOGNITION")
  /\ handling' = None
  /\ impl' = [impl EXCEPT !.result = <<>>, !.recognizing = FALSE]
  /\ Notify
  /\ UNCHANGED <<cont, outcome, n, given, props, pos, net, audioVars, crashed,
                 wireVars>>

(* ASRProcessResult: a result is stored first and, if it is the last, the  *)
(* end of the recognition is told after the listeners ran.                 *)
PushResult ==
  /\ Handling("RESULT")
  /\ LET last == handling.seg = Segments
     IN /\ impl' = [impl EXCEPT !.result = Append(@, [rec |-> handling.rec,
                                                      seg |-> handling.seg]),
                                !.session = IF last THEN "idle" ELSE @]
        /\ handling' = IF last THEN Pushed ELSE None
  /\ UNCHANGED <<appVars, props, pos, net, audioVars, crashed, wireVars>>

EndRecognition ==
  /\ handling' = None
  /\ Notify
  /\ UNCHANGED <<cont, outcome, n, given, props, pos, net, audioVars, crashed,
                 wireVars>>

FinishResult ==
  /\ Handling("PUSHED")
  /\ impl' = [impl EXCEPT !.recognizing = FALSE]
  /\ EndRecognition

HandleCanceled ==
  /\ Handling("CANCELED")
  /\ impl' = [impl EXCEPT !.recognizing = FALSE, !.session = "idle"]
  /\ EndRecognition

-----------------------------------------------------------------------------
(* Audio: sendAudioMessage, started by a START_RECOGNITION response.       *)

(* AudioSource::read: the next packet, none yet, or -1 at the end.         *)
AudioRead ==
  /\ AudioAt("reading")
  /\ audio' = "ready"
  /\ \/ pos < Packets /\ packet' = pos + 1 /\ pos' = pos + 1
     \/ pos < Packets /\ packet' = NoPacket /\ UNCHANGED pos
     \/ pos = Packets /\ packet' = LastPacket /\ UNCHANGED pos
  /\ UNCHANGED <<appVars, props, impl, netVars, crashed, wireVars>>

AudioReady ==
  /\ AudioAt("ready")
  /\ audio' = IF impl.terminate THEN "done"
              ELSE IF packet = NoPacket THEN "reading" ELSE "logging"
  /\ UNCHANGED <<appVars, implVars, netVars, packet, crashed, wireVars>>

AudioLog ==
  /\ AudioAt("logging") /\ ~LockHeld
  /\ audio' = "sending"
  /\ UNCHANGED <<appVars, implVars, netVars, packet, crashed, wireVars>>

AudioSend ==
  /\ AudioAt("sending")
  /\ audio' = IF packet = LastPacket THEN "done" ELSE "reading"
  /\ Sent(Request("SEND_AUDIO", impl.source, packet))
  /\ impl' = [impl EXCEPT !.eptr = @ \/ Trouble]
  /\ IF Trouble THEN Notify ELSE UNCHANGED pc
  /\ UNCHANGED <<cont, outcome, n, given, props, pos, netVars, packet, crashed,
                 conn, s2c, srv>>

-----------------------------------------------------------------------------
PublicCall ==
  \/ RecognizeRefuse
  \/ \E lm \in Lms : RecognizeBegin(lm)
  \/ WaitClosed
  \/ WaitBegin
  \/ CancelBegin
  \/ CloseBegin
  \/ DestroyBegin

AppStep ==
  \/ Connect
  \/ Opened
  \/ SendRequest
  \/ Check
  \/ Block
  \/ Timeout
  \/ Stop
  \/ Join
  \/ CloseThrows
  \/ Joined
  \/ CopyResults
  \/ ClearResults
  \/ WsClose
  \/ JoinNet

NetStep ==
  \/ NetOpen
  \/ NetFail
  \/ NetClosed
  \/ NetExit
  \/ NetTake
  \/ HandleFailure
  \/ HandleCreateSession
  \/ HandleSetParameters
  \/ HandleStart
  \/ HandleCancel
  \/ PushResult
  \/ FinishResult
  \/ HandleCanceled

AudioStep ==
  \/ AudioRead
  \/ AudioReady
  \/ AudioLog
  \/ AudioSend

World ==
  /\ ~crashed
  /\ ServerStep
  /\ UNCHANGED <<appVars, implVars, netVars, audioVars, crashed>>

Next ==
  \/ PublicCall
  \/ AppStep
  \/ NetStep
  \/ AudioStep
  \/ World

Spec == Init /\ [][Next]_vars

(***************************************************************************)
(* Every thread that can run does run, and the closing of a connection     *)
(* ends.  Nothing is assumed of the program's calls or of the server.      *)
(***************************************************************************)
FairSpec ==
  /\ Spec
  /\ WF_vars(AppStep)
  /\ WF_vars(NetStep)
  /\ WF_vars(AudioStep)

-----------------------------------------------------------------------------
(* Every variable keeps to its domain, whatever the threads do.            *)
TypeOK ==
  /\ WireTypeOK
  /\ pc \in {"idle", "connect", "check", "doze", "blocked", "opened", "request",
             "stop", "join", "joined", "copy", "clear", "wsClose", "joinNet",
             "gone", "thrown"}
  /\ cont \in {"construct", "recognize", "wait", "cancel", "cancelClose", "close",
               "destroy", "reset", "abort"}
  /\ outcome \in Outcomes
  /\ n \in Recogs
  /\ given \in Seq(Segment)
  /\ props \in PropsType
  /\ impl \in ImplType
  /\ pos \in 0 .. Packets
  /\ net \in {"none", "run", "done"}
  /\ handling \in Messages \cup {None, Pushed}
  /\ audio \in {"none", "reading", "ready", "logging", "sending", "done"}
  /\ packet \in Indices
  /\ crashed \in BOOLEAN

-----------------------------------------------------------------------------
(* Safety.                                                                 *)

(* No websocket handler can run on an Impl that reports itself closed: an  *)
(* Impl may be destroyed then, and its destructor no longer closes it.     *)
NoHandlerAfterClose == ~impl.open => net # "run"

(***************************************************************************)
(* The server runs a recognition only in a session and, when the program   *)
(* configured this Impl, only after it took the parameters, however        *)
(* responses, cancels and new recognize() calls interleave; and no         *)
(* START_RECOGNITION reaches it before.                                    *)
(***************************************************************************)
Prepared == srv.session /\ (impl.config => srv.params)
ServerPrepared ==
  /\ srv.rec # 0 => Prepared
  /\ c2s # <<>> /\ Head(c2s).method = "START_RECOGNITION" => Prepared

(***************************************************************************)
(* Why ServerPrepared holds, as an inductive invariant: every message that *)
(* makes the client ask for the next thing proves that the server has done *)
(* the one before, and no message of an old connection outlives it.        *)
(***************************************************************************)
Proves(m) ==
  /\ m.kind = "RESPONSE" /\ m.ok =>
       /\ m.method = "CREATE_SESSION" => srv.session
       /\ m.method = "SET_PARAMETERS" => srv.session /\ srv.params
  /\ m.kind \in {"RESULT", "CANCELED"} => Prepared

RequestsPrepared ==
  \A i \in 1 .. Len(c2s) : c2s[i].method = "START_RECOGNITION" => Prepared

ResponsesPrepared == Proves(handling) /\ \A i \in 1 .. Len(s2c) : Proves(s2c[i])

QuietWhenClosed ==
  /\ conn \notin {"open", "closing", "dropped"} => handling = None
  /\ net = "done" => conn \in {"closed", "failed"}

PreparedInv ==
  /\ QuietWhenClosed
  /\ srv.rec # 0 => Prepared
  /\ impl.session = "idle" => Prepared
  /\ RequestsPrepared
  /\ ResponsesPrepared

(***************************************************************************)
(* Unless the program cancels, recognize() accepts a recognition only when *)
(* the server runs none and none is on its way to it.                      *)
(***************************************************************************)
IdleMeansIdle ==
  ~impl.recognizing =>
    /\ srv.rec = 0
    /\ \A i \in 1 .. Len(c2s) : c2s[i].method # "START_RECOGNITION"

(***************************************************************************)
(* Unless the program cancels, the waits of recognition n hand out, and    *)
(* the Impl stores, results of recognition n only, in the order of their   *)
(* segments and none twice.                                                *)
(***************************************************************************)
Ascending(s) == \A i, j \in 1 .. Len(s) : i < j => s[i].seg < s[j].seg
ResultsInOrder ==
  LET all == IF pc = "clear" THEN given ELSE given \o impl.result
  IN /\ \A i \in 1 .. Len(all) : all[i].rec = n
     /\ Ascending(all)
     /\ \A i \in 1 .. Len(impl.result) : impl.result[i].rec = n

(***************************************************************************)
(* Why these two hold in a program that never cancels, as an inductive     *)
(* invariant.  A recognition is at one place at a time: recognize() is at  *)
(* work on it, a request for it is on its way, the server runs it, or its  *)
(* last result is on its way back.  What comes back passes Inbound, the    *)
(* message being handled and those behind it.                              *)
(***************************************************************************)
NeverCancels == \A o \in Outcomes : <<o, "cancel">> \notin Usage

Inbound == <<handling>> \o s2c
Coming == 1 .. Len(Inbound)
InResponse(i) == Inbound[i].kind = "RESPONSE"
InAnswer(i) == Inbound[i].kind \in {"RESULT", "PUSHED"}
InSeg(i) == IF Inbound[i].kind = "PUSHED" THEN Segments ELSE Inbound[i].seg
Stored == {given[i] : i \in 1 .. Len(given)}
          \cup {impl.result[i] : i \in 1 .. Len(impl.result)}

Asking ==
  \/ cont = "recognize" /\ pc \in {"connect", "check", "doze", "blocked", "opened"}
  \/ pc = "request"
Asks(i) == c2s[i].method # "SEND_AUDIO"
Requested == \E i \in 1 .. Len(c2s) : Asks(i)
Preparing ==
  \/ Asking
  \/ Requested
  \/ \E i \in Coming : InResponse(i) /\ Inbound[i].method # "START_RECOGNITION"

(* No cancel is on its way to the server, and none of its answers back.    *)
NoCancelUnderway ==
  /\ \A i \in 1 .. Len(c2s) : c2s[i].method # "CANCEL_RECOGNITION"
  /\ \A i \in Coming : /\ Inbound[i].kind # "CANCELED"
                       /\ InResponse(i) => Inbound[i].method # "CANCEL_RECOGNITION"

OneRequest ==
  /\ \A i, j \in 1 .. Len(c2s) : Asks(i) /\ Asks(j) => i = j
  /\ \A i \in 1 .. Len(c2s) : c2s[i].method = "START_RECOGNITION" => c2s[i].rec = n
  /\ Asking => ~Requested
  /\ Asking \/ Requested => \A i \in Coming : ~InResponse(i)

(* One response, then the results, each of a later segment.                *)
InboundInOrder ==
  \A i, j \in Coming :
    /\ InResponse(i) /\ InResponse(j) => i = j
    /\ InResponse(i) /\ InAnswer(j) => i < j
    /\ InAnswer(i) /\ InAnswer(j) /\ i < j => InSeg(i) < InSeg(j)

(* Before a recognition starts there is nothing of another one.            *)
FreshStart ==
  /\ Preparing => srv.rec = 0 /\ \A i \in Coming : ~InAnswer(i)
  /\ Preparing \/ (\E i \in Coming : InResponse(i)) => Stored = {}

(* What is to come is of recognition n and later than what came.           *)
LaterSegments ==
  /\ \A i \in Coming : Inbound[i].kind = "RESULT" =>
       Inbound[i].rec = n /\ \A x \in Stored : x.seg < Inbound[i].seg
  /\ srv.rec # 0 => /\ srv.rec = n
                    /\ \A x \in Stored : x.seg < srv.seg
                    /\ \A i \in Coming : InAnswer(i) => InSeg(i) < srv.seg

StoredInOrder ==
  /\ \A x \in Stored : x.rec = n
  /\ Ascending(given) /\ Ascending(impl.result)
  /\ pc # "clear" => \A i \in 1 .. Len(given), j \in 1 .. Len(impl.result) :
                       given[i].seg < impl.result[j].seg

NothingWhenIdle ==
  ~impl.recognizing =>
    /\ ~Asking /\ ~Requested /\ srv.rec = 0
    /\ \A i \in Coming : ~InResponse(i) /\ ~InAnswer(i)

OneRecognition ==
  /\ NoCancelUnderway
  /\ OneRequest
  /\ InboundInOrder
  /\ FreshStart
  /\ LaterSegments
  /\ StoredInOrder
  /\ NothingWhenIdle

(***************************************************************************)
(* Such a program sees a RecognitionService.  A recognition is served while *)
(* the server runs it and answered while its last result is on its way or  *)
(* being told, whatever recognizing_ says; results that arrive between the  *)
(* copy and the clear of result_ are not stored, since no wait gets them.  *)
(***************************************************************************)
LastComing == \E i \in Coming : InAnswer(i) /\ InSeg(i) = Segments
Phase ==
  IF srv.rec # 0 THEN "served"
  ELSE IF LastComing THEN "answered"
  ELSE IF impl.recognizing THEN "asked" ELSE "idle"
Kept == IF pc = "clear" THEN <<>> ELSE impl.result

Service == INSTANCE RecognitionService WITH
             asked <- n, phase <- Phase, stored <- Kept, out <- given
ImplementsService == Service!Spec

(* What the server hears of a recognition is a prefix of the audio source  *)
(* of that recognition: nothing missing, repeated, swapped or foreign.     *)
AudioInOrder ==
  srv.rec # 0 => srv.heard = [i \in 1 .. Len(srv.heard) |-> <<srv.rec, i>>]

(* No thread object is overwritten or destroyed while it is joinable, and  *)
(* no handler throws: only an audio source that throws into a destructor   *)
(* ends the process.                                                       *)
NoTerminate == crashed => pc = "thrown"

(* With auto-close a wait that returned leaves no connection and no thread *)
(* behind, and nothing of the old connection for the next recognition.     *)
AutoCloseLeavesNothing ==
  props.autoClose /\ pc = "idle" /\ cont \in {"wait", "reset"} /\ outcome = "results"
    => ~impl.open /\ net # "run" /\ conn \in {"none", "closed"} /\ audio = "none"

(***************************************************************************)
(* Why these three hold in a program that takes turns: it never cancels,   *)
(* and once recognize() returned it waits until a wait returns results or  *)
(* throws, before it does anything else.                                   *)
(***************************************************************************)
TakesTurns ==
  /\ NeverCancels
  /\ \A u \in Usage : u[1] \in {"started", "timeout", "refused"} => u[2] = "wait"
  /\ "empty" \notin Lms

(* No request for a recognition is on its way, and no response to one.     *)
Settled == ~Requested /\ \A i \in Coming : ~InResponse(i)

Stopping == pc \in {"stop", "join", "joined", "copy", "clear", "wsClose", "joinNet"}
Stopped == pc \in {"joined", "copy", "clear", "wsClose", "joinNet"}
Between == pc = "idle" /\ outcome \in {"built", "results", "error", "closed"}

(* Where App can be in each of its calls.                                  *)
InItsCall ==
  /\ pc \in {"connect", "opened"} => cont \in {"construct", "recognize"}
  /\ pc \in {"check", "doze", "blocked"} => cont \in {"construct", "recognize", "wait"}
  /\ pc = "request" => cont = "recognize"
  /\ pc \in {"copy", "clear"} => cont = "wait"
  /\ Stopping => cont \in {"wait", "close", "destroy", "reset", "abort"}
  /\ pc \in {"wsClose", "joinNet"} => cont # "wait"
  /\ cont = "abort" => Stopping \/ pc \in {"gone", "thrown"}
  /\ cont \notin {"cancel", "cancelClose"} /\ outcome # "canceled"

(* App stops threads, or is between two turns, only when nothing can start *)
(* one: a result, an error or the end of the recognition came before.      *)
AppSettled ==
  /\ Stopping \/ Between \/ ~impl.open => Settled
  /\ impl.eptr => Settled /\ (Asking => conn = "failed")
  /\ Stopping \/ pc = "request" => impl.open
  /\ pc \in {"check", "doze", "blocked", "opened"} =>
       impl.open \/ (conn = "none" /\ cont # "wait")
  /\ cont = "construct" => ~impl.recognizing
  /\ impl.lm # "empty"

(* One audio thread at a time, none where App believes that it joined it,  *)
(* and a stop flag only while App joins or where a source threw.           *)
OneAudioThread ==
  /\ audio # "none" => Settled /\ ~Asking /\ cont # "construct"
  /\ Stopped \/ Between \/ ~impl.open => audio = "none"
  /\ impl.terminate => pc \in {"join", "joined"} \/ impl.threw
  /\ NoTerminate

(* A connection starts with nothing on it, and one that failed is left in  *)
(* a recognizer that says so.                                              *)
ConnectionKnown ==
  /\ conn \in {"none", "connecting"} =>
       c2s = <<>> /\ s2c = <<>> /\ srv = NewServer /\ impl.status = "connecting"
  /\ net = "none" => conn = "none"
  /\ conn = "connecting" => impl.recognizing \/ cont \in {"construct", "abort"}
  /\ conn = "failed" => /\ impl.status = "failed"
                        /\ \/ impl.recognizing /\ impl.eptr
                           \/ cont \in {"construct", "abort"}
  /\ cont = "construct" =>
       /\ pc = "connect" => conn = "none"
       /\ pc = "idle" => conn \notin {"connecting", "failed"}

(* What is sent of the audio follows what is heard, and the source and the *)
(* audio thread are just behind it.                                        *)
SentAudio == Len(srv.heard) + Len(c2s)
NextPacket ==
  /\ packet = SentAudio + 1
  /\ packet = pos \/ (packet = LastPacket /\ pos = Packets)
Behind ==
  /\ audio = "reading" => pos = SentAudio
  /\ audio = "ready" /\ packet = NoPacket => pos = SentAudio
  /\ audio = "ready" /\ packet # NoPacket => NextPacket
  /\ audio \in {"logging", "sending"} => NextPacket
AudioTrail ==
  /\ \A i \in 1 .. Len(c2s) : Asks(i) => i = Len(c2s)
  /\ Asking \/ ~Settled => pos = 0 /\ impl.source = n
  /\ audio # "none" => impl.source = n
  /\ srv.rec # 0 /\ conn = "open" =>
       /\ \A i \in 1 .. Len(c2s) :
            c2s[i] = Request("SEND_AUDIO", n, Len(srv.heard) + i)
       /\ ~Settled => SentAudio = 0
       /\ Behind

TurnsInv ==
  /\ InItsCall
  /\ AppSettled
  /\ OneAudioThread
  /\ ConnectionKnown
  /\ AudioTrail
  /\ AudioInOrder

-----------------------------------------------------------------------------
(* Action properties.                                                      *)

(* The audio thread gives up before the last packet only while some call   *)
(* is joining it: a stop meant for one thread hits the next one only where *)
(* the close() of an audio source threw and left it standing.              *)
StreamNotAbandoned ==
  [][audio = "ready" /\ audio' = "done" => pc = "join" \/ impl.threw]_vars

-----------------------------------------------------------------------------
(* Liveness.                                                               *)

Out == pc \in {"idle", "gone"} \/ crashed

(* close() on a connection that is not open yet closes nothing: if it then *)
(* opens, the join of the asio thread waits for an end nobody began.       *)
Late == pc = "joinNet" /\ conn = "open"

(* The constructor and recognize() return or throw even if the             *)
(* notification of the connection is missed, or no connection exists; the  *)
(* constructor only if the connection does not open after its 10 s.        *)
RecognizeReturns ==
  /\ cont = "recognize" /\ ~Out ~> Out
  /\ cont = "construct" /\ ~Out ~> Out \/ Late

(* close(), the destructor and cancelRecognition() return, unless the      *)
(* connection was late: the audio thread ends and so does the asio thread. *)
CloseReturns ==
  cont \in {"close", "cancel", "cancelClose", "destroy", "abort"} /\ ~Out ~> Out \/ Late

-----------------------------------------------------------------------------
(* What the tests and comments of the repository say and the code does not. *)

(* waitRecognitionResult returns or throws.                                *)
WaitReturns == cont = "wait" /\ ~Out ~> Out

(* The waits of an ended recognition, taken together, hand out every       *)
(* segment: none is lost on the way.                                       *)
NoSegmentLost ==
  pc = "idle" /\ ~impl.recognizing /\ n # 0 /\ outcome = "results"
    => Len(given \o impl.result) = Segments

(* recognize() is refused only while a recognition is running: one the     *)
(* server has, will have, or whose last result is on its way.              *)
Active ==
  \/ srv.rec # 0
  \/ handling # None
  \/ conn = "open" /\ (s2c # <<>> \/ c2s # <<>>)
RefusedOnlyWhenActive ==
  [][pc = "idle" /\ outcome' = "refused" => Active]_vars

(* A wait after cancelRecognition returns no results.                      *)
CanceledHasNoResults == pc = "clear" /\ outcome = "canceled" => given = <<>>

(* A configured recognizer configures every session it recognizes in.      *)
ConfigurationApplies == srv.rec # 0 /\ props.wanted => srv.params
=============================================================================
