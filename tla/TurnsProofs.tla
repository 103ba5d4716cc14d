---------------------------- MODULE TurnsProofs ----------------------------
(***************************************************************************)
(* What Recognizer promises to a program that takes turns, for every value *)
(* of the constants: no std::terminate, the audio of each recognition      *)
(* complete and in order, and nothing left behind by auto-close.           *)
(***************************************************************************)
EXTENDS RecognitionProofs

(* What is known already, and what this module proves of every step.       *)
Known == TypeOK /\ PreparedInv /\ NoHandlerAfterClose /\ OneRecognition
Turning == TakesTurns /\ Known /\ TurnsInv

-----------------------------------------------------------------------------
(* What the place of the recognition says about the threads.               *)

(* While recognize() is at work nothing else is under way.                 *)
LEMMA AskingSettled ==
  ASSUME TypeOK, OneRecognition, Asking
  PROVE  Settled /\ srv.rec = 0 /\ impl.recognizing
<1>1. Settled
  BY DEF OneRecognition, OneRequest, Settled
<1>2. srv.rec = 0
  BY DEF OneRecognition, FreshStart, Preparing
<1>3. impl.recognizing
  BY Types DEF OneRecognition, NothingWhenIdle, ImplType
<1>4. QED
  BY <1>1, <1>2, <1>3

(* Nor is it when no recognition is.                                       *)
LEMMA IdleSettled ==
  ASSUME OneRecognition, ~impl.recognizing
  PROVE  Settled /\ srv.rec = 0 /\ ~Asking
BY DEF OneRecognition, NothingWhenIdle, Settled

(* A request or its response under way excludes everything App could do    *)
(* to the threads.                                                         *)
LEMMA Unsettled ==
  ASSUME Known, TurnsInv, ~Settled
  PROVE  /\ impl.recognizing /\ impl.open /\ ~impl.eptr
         /\ cont # "construct" /\ ~Stopping /\ ~Between /\ ~Asking
         /\ audio = "none" /\ pos = 0 /\ impl.source = n
         /\ conn \notin {"none", "connecting"}
<1>1. impl.recognizing
  BY IdleSettled, Types DEF Known, ImplType
<1>2. ~Asking
  BY AskingSettled DEF Known
<1>3. impl.open /\ ~impl.eptr /\ cont # "construct" /\ ~Stopping /\ ~Between
  BY <1>1, Types DEF Known, TurnsInv, AppSettled, ImplType
<1>4. audio = "none"
  BY DEF TurnsInv, OneAudioThread
<1>5. pos = 0 /\ impl.source = n
  BY DEF TurnsInv, AudioTrail
<1>6. conn \notin {"none", "connecting"}
  <2>1. SUFFICES ASSUME conn \in {"none", "connecting"} PROVE Settled
    OBVIOUS
  <2>2. c2s = <<>> /\ s2c = <<>> /\ handling = None
    BY <2>1 DEF TurnsInv, ConnectionKnown, Known, PreparedInv, QuietWhenClosed
  <2>3. Coming = {1} /\ Inbound[1] = None
    BY <2>2, InboundIs DEF Known
  <2>4. QED
    BY <2>2, <2>3 DEF Settled, Requested, InResponse, None
<1>7. QED
  BY <1>1, <1>2, <1>3, <1>4, <1>5, <1>6

(* A wait goes on to stop the audio thread only when it may.               *)
LEMMA ReadySettles ==
  ASSUME Known, TurnsInv, cont = "wait", Ready
  PROVE  Settled
<1>1. CASE impl.result # <<>>
  <2>1. impl.result \in Seq(Segment)
    BY Types DEF Known
  <2>2. 1 \in 1 .. Len(impl.result)
    BY <1>1, <2>1
  <2>3. Stored # {}
    BY <2>2 DEF Stored
  <2>4. QED
    BY <2>3 DEF Known, OneRecognition, FreshStart, Preparing, Settled
<1>2. CASE impl.eptr
  BY <1>2 DEF TurnsInv, AppSettled
<1>3. CASE ~impl.recognizing
  BY <1>3, IdleSettled DEF Known
<1>4. QED
  BY <1>1, <1>2, <1>3 DEF Ready

(* A program that takes turns recognizes and ends between turns only.      *)
LEMMA BetweenCalls ==
  ASSUME Turning, NEW c \in Calls, c # "wait", Call(c)
  PROVE  Between
<1>1. outcome \in Outcomes /\ outcome # "canceled"
  BY DEF Turning, Known, TypeOK, TurnsInv, InItsCall
<1>2. <<outcome, c>> \in Usage /\ pc = "idle"
  BY DEF Call, At
<1>3. outcome \notin {"started", "timeout", "refused"}
  BY <1>2 DEF Turning, TakesTurns
<1>4. QED
  BY <1>1, <1>2, <1>3 DEF Between, Outcomes

-----------------------------------------------------------------------------
(* What is settled stays settled until recognize() sends its request.      *)

LEMMA SettledSame ==
  ASSUME UNCHANGED <<c2s, s2c, handling>>
  PROVE  Settled' = Settled
<1>1. Inbound' = Inbound /\ Coming' = Coming
  BY DEF Inbound, Coming
<1>2. Requested' = Requested
  BY DEF Requested, Asks
<1>3. QED
  BY <1>1, <1>2 DEF Settled, InResponse

(* A handler that is done leaves no response behind.                       *)
LEMMA HandledSettled ==
  ASSUME TypeOK, UNCHANGED s2c, handling' \in {None, Pushed}, ~Requested',
         \A i \in Coming : i # 1 => ~InResponse(i)
  PROVE  Settled'
<1>1. /\ Coming' = Coming /\ Inbound'[1] = handling'
      /\ \A i \in Coming : i # 1 => Inbound'[i] = Inbound[i]
  BY InboundHandled
<1>2. \A i \in Coming' : ~InResponse(i)'
  BY <1>1 DEF InResponse, None, Pushed
<1>3. QED
  BY <1>2 DEF Settled

(* Audio is no request for a recognition.                                  *)
LEMMA AudioSettled ==
  ASSUME TypeOK, Settled, UNCHANGED <<s2c, handling>>,
         NEW m \in Requests, m.method = "SEND_AUDIO", Sent(m)
  PROVE  Settled'
<1>1. ~Requested'
  BY RequestSent DEF Settled, Requested, Asks
<1>2. Inbound' = Inbound /\ Coming' = Coming
  BY DEF Inbound, Coming
<1>3. QED
  BY <1>1, <1>2 DEF Settled, InResponse

(* The steps of the other threads and of the server.                       *)
LEMMA OthersSettled ==
  ASSUME NeverCancels, Known, Settled, NetStep \/ AudioStep \/ World
  PROVE  Settled'
<1>1. TypeOK /\ OneRecognition
  BY DEF Known
<1>2. ~Requested /\ handling.kind # "RESPONSE"
  BY <1>1, InboundIs DEF Settled, InResponse
<1>3. CASE \/ NetOpen \/ NetFail \/ NetClosed \/ NetExit
           \/ AudioRead \/ AudioReady \/ AudioLog \/ (World /\ Drop)
  <2>1. UNCHANGED <<c2s, s2c, handling>>
    BY <1>3 DEF NetOpen, NetFail, NetClosed, NetExit, AudioRead, AudioReady, AudioLog,
       World, Drop, netVars, wireVars
  <2>2. QED
    BY <2>1, SettledSame
<1>4. CASE NetTake
  <2>1. s2c # <<>> /\ handling' = Head(s2c) /\ s2c' = Tail(s2c) /\ c2s' = c2s
    BY <1>4 DEF NetTake
  <2>2. \A i \in Coming' : ~InResponse(i)'
    BY <1>1, <2>1, InboundTaken DEF Settled, InResponse
  <2>3. ~Requested'
    BY <1>2, <2>1 DEF Requested, Asks
  <2>4. QED
    BY <2>2, <2>3 DEF Settled
<1>5. CASE PushResult \/ FinishResult
  <2>1. UNCHANGED <<c2s, s2c>> /\ handling' \in {None, Pushed}
    BY <1>5 DEF PushResult, FinishResult, EndRecognition, wireVars
  <2>2. ~Requested'
    BY <1>2, <2>1 DEF Requested, Asks
  <2>3. QED
    BY <1>1, <2>1, <2>2, HandledSettled DEF Settled
<1>6. ~(HandleFailure \/ HandleCreateSession \/ HandleSetParameters \/ HandleStart)
  BY <1>2 DEF HandleFailure, HandleCreateSession, HandleSetParameters, HandleStart,
     Handles, Handling
<1>7. CASE AudioSend
  <2>1. Request("SEND_AUDIO", impl.source, packet) \in Requests
    BY <1>1, ClientRequests
  <2>2. QED
    BY <1>1, <1>7, <2>1, AudioSettled DEF AudioSend, Request, netVars
<1>8. ~(World /\ ServeRequest)
  <2>1. c2s # <<>> => 1 \in 1 .. Len(c2s) /\ Head(c2s) = c2s[1]
    BY <1>1, Types
  <2>2. QED
    BY <1>2, <2>1 DEF World, ServeRequest, Methods, Requested, Asks
<1>9. CASE World /\ ServeAudio
  <2>1. c2s # <<>> /\ c2s' = Tail(c2s) /\ UNCHANGED <<s2c, handling>>
    BY <1>9 DEF World, ServeAudio, netVars
  <2>2. ~Requested'
    BY <1>1, <1>2, <2>1, RequestTaken DEF Requested, Asks
  <2>3. Inbound' = Inbound /\ Coming' = Coming
    BY <2>1 DEF Inbound, Coming
  <2>4. QED
    BY <2>2, <2>3 DEF Settled, InResponse
<1>10. CASE World /\ ServeResult
  <2>1. /\ UNCHANGED <<c2s, handling>> /\ Result(srv.rec, srv.seg) \in Messages
        /\ s2c' = Append(s2c, Result(srv.rec, srv.seg))
    BY <1>1, <1>10, Types DEF World, ServeResult, netVars, Result, Messages, Results,
       ServerType
  <2>2. \A i \in Coming' : ~InResponse(i)'
    BY <1>1, <2>1, InboundArrived DEF Settled, InResponse, Result
  <2>3. ~Requested'
    BY <1>2, <2>1 DEF Requested, Asks
  <2>4. QED
    BY <2>2, <2>3 DEF Settled
<1>11. QED
  BY <1>1, <1>3, <1>4, <1>5, <1>6, <1>7, <1>8, <1>9, <1>10, NobodyCancels
     DEF NetStep, AudioStep, World, ServerStep

(* The steps of App but the one that asks.                                 *)
LEMMA AppStaysSettled ==
  ASSUME NeverCancels, Known, Settled, PublicCall \/ AppStep, ~SendRequest
  PROVE  Settled'
<1>1. TypeOK /\ OneRecognition /\ ~CancelBegin
  BY NobodyCancels DEF Known
<1>2. CASE JoinNet /\ cont = "reset" /\ audio = "none"
  <2>1. /\ c2s' = <<>> /\ s2c' = <<>> /\ handling' = handling
    BY <1>2 DEF JoinNet
  <2>2. handling.kind # "RESPONSE"
    BY <1>1, InboundIs DEF Settled, InResponse
  <2>3. Coming' = {1} /\ Inbound'[1] = handling
    BY <2>1 DEF Coming, Inbound
  <2>4. QED
    BY <2>1, <2>2, <2>3 DEF Settled, Requested, InResponse
<1>3. CASE ~(JoinNet /\ cont = "reset" /\ audio = "none")
  <2>1. UNCHANGED <<c2s, s2c, handling>>
    <3>1. CASE PublicCall
      BY <1>1, <3>1 DEF PublicCall, RecognizeRefuse, RecognizeBegin, WaitClosed, WaitBegin,
         CloseBegin, DestroyBegin, netVars, wireVars
    <3>2. CASE AppStep
      BY <1>3, <3>2 DEF AppStep, Connect, Opened, Check, Block, Timeout, Stop, Join, CloseThrows, Joined,
         CopyResults, ClearResults, WsClose, JoinNet, netVars, wireVars
    <3>3. QED
      BY <3>1, <3>2
  <2>2. QED
    BY <2>1, SettledSame
<1>4. QED
  BY <1>2, <1>3

-----------------------------------------------------------------------------
(* What the other threads leave alone.                                     *)

(* A notification moves App to the predicate of the wait it is in.         *)
LEMMA Notified ==
  ASSUME Notify \/ UNCHANGED pc
  PROVE  pc' = pc \/ (pc = "blocked" /\ pc' = "check")
BY DEF Notify

(* A step of another thread moves App at most to the predicate of its      *)
(* wait, and changes of Impl what is received and the failures only.       *)
LEMMA OthersLeave ==
  ASSUME Turning, NetStep \/ AudioStep \/ World
  PROVE  /\ UNCHANGED <<cont, outcome, n, given, props, crashed>>
         /\ pc' = pc \/ (pc = "blocked" /\ pc' = "check")
         /\ impl'.open = impl.open /\ impl'.lm = impl.lm
         /\ impl'.source = impl.source /\ impl'.terminate = impl.terminate
         /\ impl'.threw = impl.threw
<1>1. impl \in ImplType /\ impl.lm # "empty" /\ TypeOK /\ OneRecognition /\ NeverCancels
  BY Types DEF Turning, Known, TurnsInv, AppSettled, TakesTurns
<1>2. handling.kind = "RESPONSE" => audio = "none"
  <2>1. 1 \in Coming /\ Inbound[1] = handling
    BY <1>1, InboundIs
  <2>2. handling.kind = "RESPONSE" => ~Settled
    BY <2>1 DEF Settled, InResponse
  <2>3. QED
    BY <2>2, Unsettled DEF Turning
<1>3. CASE NetOpen \/ NetFail \/ NetClosed \/ NetExit \/ NetTake
  <2>1. Notify \/ UNCHANGED pc
    BY <1>3 DEF NetOpen, NetFail, NetClosed, NetExit, NetTake, appVars
  <2>2. QED
    BY <1>1, <1>3, <2>1, Notified DEF NetOpen, NetFail, NetClosed, NetExit, NetTake, appVars,
       implVars, ImplType
<1>4. CASE HandleFailure \/ HandleCreateSession \/ HandleSetParameters
  <2>1. Notify \/ UNCHANGED pc
    BY <1>1, <1>4 DEF HandleFailure, HandleCreateSession, HandleSetParameters, NetStart
  <2>2. /\ UNCHANGED <<cont, outcome, n, given, props, crashed>>
        /\ \E b \in BOOLEAN : impl' = [impl EXCEPT !.eptr = b]
    BY <1>1, <1>4 DEF HandleFailure, HandleCreateSession, HandleSetParameters, NetStart, ImplType,
       Trouble
  <2>3. QED
    BY <1>1, <2>1, <2>2, Notified DEF ImplType
<1>5. CASE HandleStart
  BY <1>2, <1>5 DEF HandleStart, Handles, Handling, appVars, implVars
<1>6. CASE PushResult \/ FinishResult
  <2>1. Notify \/ UNCHANGED pc
    BY <1>6 DEF PushResult, FinishResult, EndRecognition, appVars
  <2>2. QED
    BY <1>1, <1>6, <2>1, Notified DEF PushResult, FinishResult, EndRecognition, appVars, ImplType
<1>7. CASE AudioStep
  <2>1. Notify \/ UNCHANGED pc
    BY <1>7 DEF AudioStep, AudioRead, AudioReady, AudioLog, AudioSend, appVars
  <2>2. QED
    BY <1>1, <1>7, <2>1, Notified DEF AudioStep, AudioRead, AudioReady, AudioLog, AudioSend,
       appVars, implVars, ImplType
<1>8. CASE World
  BY <1>8 DEF World, appVars, implVars
<1>9. QED
  BY <1>1, <1>3, <1>4, <1>5, <1>6, <1>7, <1>8, NobodyCancels DEF NetStep

(* So it leaves what is said of App's place.                               *)
LEMMA OthersLeaveApp ==
  ASSUME Turning, NetStep \/ AudioStep \/ World
  PROVE  /\ Asking' = Asking /\ Stopping' = Stopping /\ Stopped' = Stopped
         /\ Between' = Between
<1>1. /\ cont' = cont /\ outcome' = outcome
      /\ pc' = pc \/ (pc = "blocked" /\ pc' = "check")
  BY OthersLeave
<1>2. Asking' = Asking
  BY <1>1 DEF Asking
<1>3. Stopping' = Stopping /\ Stopped' = Stopped
  BY <1>1 DEF Stopping, Stopped
<1>4. Between' = Between
  BY <1>1 DEF Between
<1>5. QED
  BY <1>2, <1>3, <1>4

(* A step that changes the connection, and how.                            *)
LEMMA ConnectionSteps ==
  ASSUME Turning, Next
  PROVE  \/ conn' = conn /\ net' = net
         \/ Connect /\ conn = "none" /\ conn' = "connecting" /\ net' = "run"
         \/ NetOpen /\ conn = "connecting" /\ conn' = "open" /\ net' = net /\ net = "run"
         \/ NetFail /\ conn = "connecting" /\ conn' = "failed" /\ net' = net /\ net = "run"
         \/ conn' \notin {"connecting", "failed"} /\ net' = net /\ conn # "none"
         \/ conn' = conn /\ NetExit /\ conn # "none"
         \/ JoinNet /\ conn' = "none" /\ net' = "none"
<1>1. ~CancelBegin /\ NeverCancels /\ TypeOK /\ OneRecognition
  BY NobodyCancels DEF Turning, Known, TakesTurns
<1>2. CASE PublicCall
  BY <1>1, <1>2 DEF PublicCall, RecognizeRefuse, RecognizeBegin, WaitClosed, WaitBegin,
     CloseBegin, DestroyBegin, wireVars, netVars
<1>3. CASE AppStep
  <2>1. CASE Connect
    BY <2>1 DEF Connect
  <2>2. CASE WsClose
    BY <2>2 DEF WsClose, wireVars, netVars
  <2>3. CASE JoinNet
    BY <2>3 DEF JoinNet
  <2>4. CASE ~Connect /\ ~WsClose /\ ~JoinNet
    BY <1>3, <2>4 DEF AppStep, Opened, SendRequest, Check, Block, Timeout, Stop, Join, CloseThrows, Joined,
       CopyResults, ClearResults, wireVars, netVars
  <2>5. QED
    BY <2>1, <2>2, <2>3, <2>4
<1>4. CASE NetStep
  BY <1>1, <1>4, NobodyCancels DEF NetStep, NetOpen, NetFail, NetClosed, NetExit, NetTake,
     NetUp, HandleFailure, HandleCreateSession, HandleSetParameters, HandleStart, PushResult,
     FinishResult, EndRecognition, wireVars, netVars
<1>5. CASE AudioStep
  BY <1>5 DEF AudioStep, AudioRead, AudioReady, AudioLog, AudioSend, wireVars, netVars
<1>6. CASE World
  BY <1>6 DEF World, ServerStep, ServeRequest, ServeCancel, ServeAudio, ServeResult, Drop,
     netVars
<1>7. QED
  BY <1>2, <1>3, <1>4, <1>5, <1>6 DEF Next

-----------------------------------------------------------------------------
(* Every step keeps InItsCall.                                             *)

LEMMA StepInItsCall ==
  ASSUME Turning, Next
  PROVE  InItsCall'
<1>1. InItsCall /\ ~CancelBegin
  BY NobodyCancels DEF Turning, Known, TurnsInv, TakesTurns
<1>2. CASE PublicCall
  BY <1>1, <1>2 DEF InItsCall, Stopping, PublicCall, RecognizeRefuse, RecognizeBegin,
     WaitClosed, WaitBegin, CloseBegin, DestroyBegin, Call, At, Return
<1>3. CASE Connect \/ Opened \/ SendRequest \/ Check \/ Block \/ Timeout
  BY <1>1, <1>3 DEF InItsCall, Stopping, Connect, Opened, SendRequest, Check, Block, Timeout,
     AfterWait, At, Return
<1>4. CASE Stop \/ Join \/ CopyResults \/ ClearResults \/ WsClose
  BY <1>1, <1>4 DEF InItsCall, Stopping, Stop, Join, CopyResults, ClearResults, WsClose,
     At, Return
<1>5. CASE CloseThrows \/ Joined
  BY <1>1, <1>5 DEF InItsCall, Stopping, CloseThrows, Joined, At, Return
<1>6. CASE JoinNet
  BY <1>1, <1>6 DEF InItsCall, Stopping, JoinNet, At, Return
<1>7. CASE NetStep \/ AudioStep \/ World
  <2>1. /\ cont' = cont /\ outcome' = outcome
        /\ pc' = pc \/ (pc = "blocked" /\ pc' = "check")
    BY <1>7, OthersLeave
  <2>2. QED
    BY <1>1, <2>1 DEF InItsCall, Stopping
<1>8. QED
  BY <1>2, <1>3, <1>4, <1>5, <1>6, <1>7 DEF Next, AppStep

-----------------------------------------------------------------------------
(* Every step keeps AppSettled.                                            *)

(* App gets to stopping threads, to the end of a turn or to a recognizer   *)
(* without a connection only from where nothing is under way.              *)
LEMMA AppStops ==
  ASSUME Turning, PublicCall \/ AppStep, Stopping' \/ Between' \/ ~impl'.open
  PROVE  Settled /\ ~SendRequest
<1>1. /\ TypeOK /\ OneRecognition /\ InItsCall /\ AppSettled /\ ~CancelBegin
      /\ impl \in ImplType
  BY NobodyCancels, Types DEF Turning, Known, TurnsInv, TakesTurns
<1>2. SUFFICES ASSUME ~Settled \/ SendRequest PROVE FALSE
  OBVIOUS
<1>3. CASE ~Settled
  <2>1. /\ impl.open /\ cont # "construct" /\ ~Asking /\ ~Stopping /\ ~Between
    BY <1>3, Unsettled DEF Turning
  <2>2. ~(Ready /\ cont = "wait")
    BY <1>3, ReadySettles DEF Turning
  <2>3. ~(Connect \/ Opened \/ SendRequest)
    BY <1>1, <2>1 DEF Connect, Opened, SendRequest, At, Asking, InItsCall
  <2>4. ~(CloseBegin \/ DestroyBegin)
    BY <2>1, BetweenCalls DEF CloseBegin, DestroyBegin, Calls
  <2>5. ~(\E lm \in Lms : RecognizeBegin(lm))
    BY <2>1, BetweenCalls DEF RecognizeBegin, Calls
  <2>6. ~(Stop \/ Join \/ CloseThrows \/ Joined \/ CopyResults \/ ClearResults \/ WsClose \/ JoinNet)
    BY <2>1 DEF Stop, Join, CloseThrows, Joined, CopyResults, ClearResults, WsClose, JoinNet, At, Stopping
  <2>7. CASE RecognizeRefuse \/ WaitClosed \/ WaitBegin
    BY <2>1, <2>7 DEF RecognizeRefuse, WaitClosed, WaitBegin, implVars, Return, Call, At,
       Stopping, Between
  <2>8. CASE Check \/ Block \/ Timeout
    BY <1>1, <2>1, <2>2, <2>8 DEF Check, Block, Timeout, implVars, AfterWait, Return, At,
       Stopping, Between, InItsCall
  <2>9. QED
    BY <1>1, <2>3, <2>4, <2>5, <2>6, <2>7, <2>8 DEF PublicCall, AppStep
<1>4. CASE SendRequest
  <2>1. impl.open /\ impl.lm # "empty" /\ pc = "request"
    BY <1>1, <1>4 DEF AppSettled, SendRequest, At
  <2>2. impl'.open /\ pc' = "idle" /\ outcome' = "started"
    BY <1>1, <1>4, <2>1 DEF SendRequest, Return, ImplType
  <2>3. QED
    BY <2>2 DEF Stopping, Between
<1>5. QED
  BY <1>2, <1>3, <1>4

(* A failure is stored only when nothing is under way; a connection that   *)
(* fails is the only failure while recognize() is at work.                 *)
LEMMA EptrSettled ==
  ASSUME Turning, NetStep \/ AudioStep \/ World, impl'.eptr
  PROVE  Settled' /\ (Asking' => conn' = "failed")
<1>1. /\ TypeOK /\ OneRecognition /\ PreparedInv /\ NeverCancels /\ impl \in ImplType
      /\ Known /\ TurnsInv /\ impl.lm # "empty"
  BY Types DEF Turning, Known, TurnsInv, TakesTurns, AppSettled
<1>2. Asking' = Asking
  BY OthersLeaveApp
<1>3. impl.eptr => Settled /\ (Asking => conn = "failed")
  BY <1>1 DEF TurnsInv, AppSettled
<1>4. 1 \in Coming /\ Inbound[1] = handling
  BY <1>1, InboundIs
<1>5. handling.kind = "RESPONSE" =>
        /\ ~Requested /\ ~Asking /\ ~impl.eptr
        /\ \A i \in Coming : i # 1 => ~InResponse(i)
  BY <1>1, <1>3, <1>4 DEF OneRecognition, OneRequest, InboundInOrder, InResponse, Settled
<1>6. CASE impl'.eptr = impl.eptr
  <2>1. Settled'
    BY <1>1, <1>3, <1>6, OthersSettled
  <2>2. conn = "failed" => conn' = "failed"
    BY DEF NetStep, NetOpen, NetFail, NetClosed, NetExit, NetTake, HandleFailure,
       HandleCreateSession, HandleSetParameters, HandleStart, HandleCancel, PushResult,
       FinishResult, HandleCanceled, EndRecognition, AudioStep, AudioRead, AudioReady, AudioLog,
       AudioSend, World, ServerStep, ServeRequest, ServeCancel, ServeAudio, ServeResult, Drop,
       wireVars
  <2>3. QED
    BY <1>2, <1>3, <1>6, <2>1, <2>2
<1>7. CASE NetFail
  <2>1. conn = "connecting" /\ UNCHANGED <<c2s, s2c, handling>> /\ conn' = "failed"
    BY <1>7 DEF NetFail, netVars
  <2>2. Settled
    BY <1>1, <2>1, Unsettled
  <2>3. QED
    BY <2>1, <2>2, SettledSame
<1>8. CASE HandleFailure
  <2>1. UNCHANGED <<c2s, s2c>> /\ handling' = None /\ handling.kind = "RESPONSE"
    BY <1>8 DEF HandleFailure, Handling, wireVars
  <2>2. ~Requested'
    BY <1>5, <2>1 DEF Requested, Asks
  <2>3. QED
    BY <1>1, <1>2, <1>5, <2>1, <2>2, HandledSettled
<1>9. CASE HandleCreateSession \/ HandleSetParameters
  <2>1. handling' = None /\ handling.kind = "RESPONSE" /\ s2c' = s2c
    BY <1>9 DEF HandleCreateSession, HandleSetParameters, Handles, Handling
  <2>2. impl'.eptr = (impl.eptr \/ Trouble) /\ (Trouble => c2s' = c2s)
    BY <1>1, <1>9 DEF HandleCreateSession, HandleSetParameters, NetStart, ImplType, Trouble,
       Sent, SetParameters, StartRecognition
  <2>3. c2s' = c2s
    BY <1>5, <2>1, <2>2
  <2>4. ~Requested'
    BY <1>5, <2>1, <2>3 DEF Requested, Asks
  <2>5. QED
    BY <1>1, <1>2, <1>5, <2>1, <2>4, HandledSettled
<1>10. CASE AudioSend
  <2>1. audio # "none"
    BY <1>10 DEF AudioSend, AudioAt
  <2>2. Settled /\ ~Asking
    BY <1>1, <2>1 DEF TurnsInv, OneAudioThread
  <2>3. QED
    BY <1>1, <1>2, <1>10, <2>2, OthersSettled DEF AudioStep
<1>11. impl'.eptr = impl.eptr \/ NetFail \/ HandleFailure \/ HandleCreateSession
       \/ HandleSetParameters \/ AudioSend
  BY <1>1, NobodyCancels DEF NetStep, NetOpen, NetClosed, NetExit, NetTake, HandleStart,
     PushResult, FinishResult, EndRecognition, AudioStep, AudioRead, AudioReady, AudioLog,
     World, implVars, ImplType
<1>12. QED
  BY <1>6, <1>7, <1>8, <1>9, <1>10, <1>11

LEMMA StepAppSettled ==
  ASSUME Turning, Next
  PROVE  AppSettled'
<1>1. /\ TypeOK /\ OneRecognition /\ NeverCancels /\ impl \in ImplType
      /\ Known /\ InItsCall /\ AppSettled /\ ConnectionKnown /\ ~CancelBegin
      /\ "empty" \notin Lms
  BY NobodyCancels, Types DEF Turning, Known, TurnsInv, TakesTurns
<1>2. (Stopping \/ Between \/ ~impl.open => Settled)'
  <2>1. CASE PublicCall \/ AppStep
    BY <1>1, <2>1, AppStops, AppStaysSettled
  <2>2. CASE NetStep \/ AudioStep \/ World
    BY <1>1, <2>2, OthersLeave, OthersLeaveApp, OthersSettled DEF AppSettled
  <2>3. QED
    BY <2>1, <2>2 DEF Next
<1>3. (impl.eptr => Settled /\ (Asking => conn = "failed"))'
  <2>1. CASE SendRequest
    <3>1. Asking /\ pc' = "idle" /\ conn' = conn
      BY <2>1 DEF SendRequest, At, Asking, Return
    <3>2. ~Asking' /\ Settled
      BY <1>1, <3>1, AskingSettled DEF Asking
    <3>3. impl.lm # "empty"
      BY <1>1 DEF AppSettled
    <3>4. impl'.eptr = (impl.eptr \/ Trouble) /\ (Trouble => c2s' = c2s)
          /\ UNCHANGED <<s2c, handling>>
      BY <1>1, <2>1, <3>3 DEF SendRequest, ImplType, Trouble, Sent, CreateSession,
         StartRecognition, netVars
    <3>5. impl.eptr => Trouble
      BY <1>1, <3>1 DEF AppSettled, Trouble
    <3>6. impl'.eptr => UNCHANGED <<c2s, s2c, handling>>
      BY <3>4, <3>5
    <3>7. QED
      BY <3>2, <3>6, SettledSame
  <2>2. CASE (PublicCall \/ AppStep) /\ ~SendRequest
    <3>1. impl'.eptr => impl.eptr
      <4>1. CASE PublicCall
        BY <1>1, <4>1 DEF PublicCall, RecognizeRefuse, RecognizeBegin, WaitClosed, WaitBegin,
           CloseBegin, DestroyBegin, implVars, ImplType
      <4>2. CASE Connect \/ Opened \/ Check \/ Block \/ Timeout
        BY <1>1, <4>2 DEF Connect, Opened, Check, Block, Timeout, implVars, ImplType
      <4>3. CASE Stop \/ Join \/ CopyResults \/ ClearResults \/ WsClose
        BY <1>1, <4>3 DEF Stop, Join, CopyResults, ClearResults, WsClose, implVars, ImplType
      <4>4. CASE CloseThrows \/ Joined
        BY <1>1, <4>4 DEF CloseThrows, Joined, ImplType
      <4>5. CASE JoinNet
        BY <1>1, <4>5 DEF JoinNet, ImplType, NewImpl
      <4>6. QED
        BY <2>2, <4>1, <4>2, <4>3, <4>4, <4>5 DEF AppStep
    <3>2. impl.eptr => Settled'
      BY <1>1, <2>2, AppStaysSettled DEF AppSettled
    <3>3. CASE \E lm \in Lms : RecognizeBegin(lm)
      BY <1>1, <3>3 DEF RecognizeBegin, ImplType
    <3>4. CASE ~\E lm \in Lms : RecognizeBegin(lm)
      <4>1. Asking' => Asking
        BY <1>1, <2>2, <3>4 DEF PublicCall, RecognizeRefuse, WaitClosed, WaitBegin,
           CloseBegin, DestroyBegin, AppStep, Connect, Opened, Check, Block, Timeout, Stop, Join,
           CloseThrows, Joined, CopyResults, ClearResults, WsClose, JoinNet, Call, At, Return, AfterWait,
           Asking
      <4>2. Asking /\ conn = "failed" => conn' = "failed"
        BY <1>1, <2>2, <3>4 DEF PublicCall, RecognizeRefuse, WaitClosed, WaitBegin,
           CloseBegin, DestroyBegin, AppStep, Connect, Opened, Check, Block, Timeout, Stop, Join,
           CloseThrows, Joined, CopyResults, ClearResults, WsClose, JoinNet, At, Asking, wireVars
      <4>3. QED
        BY <1>1, <3>1, <3>2, <4>1, <4>2 DEF AppSettled
    <3>5. QED
      BY <3>3, <3>4
  <2>3. CASE NetStep \/ AudioStep \/ World
    BY <2>3, EptrSettled
  <2>4. QED
    BY <2>1, <2>2, <2>3 DEF Next
<1>4. (Stopping \/ pc = "request" => impl.open)'
  <2>1. CASE PublicCall
    BY <1>1, <2>1 DEF AppSettled, Stopping, PublicCall, RecognizeRefuse, RecognizeBegin,
       WaitClosed, WaitBegin, CloseBegin, DestroyBegin, Call, At, Return, implVars, ImplType
  <2>2. CASE Connect \/ Opened \/ SendRequest \/ Check \/ Block \/ Timeout
    <3>1. impl.status = "open" => conn # "none"
      BY <1>1 DEF ConnectionKnown
    <3>2. QED
      BY <1>1, <2>2, <3>1 DEF AppSettled, Stopping, Connect, Opened, SendRequest, Check,
         Block, Timeout, AfterWait, At, Return, implVars, ImplType
  <2>3. CASE Stop \/ Join \/ CloseThrows \/ Joined \/ CopyResults \/ ClearResults
             \/ WsClose \/ JoinNet
    BY <1>1, <2>3 DEF AppSettled, Stopping, Stop, Join, CloseThrows, Joined, CopyResults,
       ClearResults, WsClose, JoinNet, At, Return, implVars, ImplType
  <2>4. CASE NetStep \/ AudioStep \/ World
    <3>1. /\ impl'.open = impl.open /\ Stopping' = Stopping
          /\ pc' = pc \/ (pc = "blocked" /\ pc' = "check")
      BY <2>4, OthersLeave, OthersLeaveApp
    <3>2. QED
      BY <1>1, <3>1 DEF AppSettled
  <2>5. QED
    BY <2>1, <2>2, <2>3, <2>4 DEF Next, AppStep
<1>7. (pc \in {"check", "doze", "blocked", "opened"} =>
         impl.open \/ (conn = "none" /\ cont # "wait"))'
  <2>1. CASE PublicCall
    BY <1>1, <2>1 DEF PublicCall, RecognizeRefuse, RecognizeBegin,
       WaitClosed, WaitBegin, CloseBegin, DestroyBegin, Call, At, Return, implVars
  <2>2. CASE Connect
    BY <1>1, <2>2 DEF Connect, At, InItsCall, Return, ImplType
  <2>3. CASE Opened \/ SendRequest \/ Check \/ Block \/ Timeout
    BY <1>1, <2>3 DEF AppSettled, Opened, SendRequest, Check, Block, Timeout, AfterWait, At,
       Return, implVars, wireVars
  <2>4. CASE Stop \/ Join \/ CloseThrows \/ Joined \/ CopyResults \/ ClearResults
             \/ WsClose \/ JoinNet
    BY <2>4 DEF Stop, Join, CloseThrows, Joined, CopyResults, ClearResults, WsClose, JoinNet,
       At, Return
  <2>5. CASE NetStep \/ AudioStep \/ World
    <3>1. /\ impl'.open = impl.open /\ cont' = cont
          /\ pc' = pc \/ (pc = "blocked" /\ pc' = "check")
      BY <2>5, OthersLeave
    <3>2. conn = "none" => conn' = "none"
      <4>1. ~(Connect /\ conn' = "connecting")
        BY <3>1 DEF Connect, At, Return
      <4>2. QED
        BY <2>5, <4>1, ConnectionSteps DEF Next, NetOpen, NetFail, JoinNet
    <3>3. QED
      BY <1>1, <3>1, <3>2 DEF AppSettled
  <2>6. QED
    BY <2>1, <2>2, <2>3, <2>4, <2>5 DEF Next, AppStep
<1>5. (cont = "construct" => ~impl.recognizing)'
  <2>1. CASE PublicCall
    BY <1>1, <2>1 DEF AppSettled, PublicCall, RecognizeRefuse, RecognizeBegin,
       WaitClosed, WaitBegin, CloseBegin, DestroyBegin, implVars, ImplType
  <2>2. CASE AppStep
    BY <1>1, <2>2 DEF AppSettled, AppStep, Connect, Opened, SendRequest, Check,
       Block, Timeout, Stop, Join, CloseThrows, Joined, CopyResults, ClearResults, WsClose, JoinNet,
       implVars, ImplType, NewImpl
  <2>3. CASE NetStep \/ AudioStep \/ World
    <3>1. cont' = cont
      BY <2>3, OthersLeave
    <3>2. impl'.recognizing => impl.recognizing
      BY <1>1, <2>3, NobodyCancels DEF NetStep, NetOpen, NetFail, NetClosed, NetExit, NetTake,
         HandleFailure, HandleCreateSession, HandleSetParameters, NetStart, HandleStart,
         PushResult, FinishResult, EndRecognition, AudioStep, AudioRead, AudioReady, AudioLog,
         AudioSend, World, implVars, ImplType
    <3>3. QED
      BY <1>1, <3>1, <3>2 DEF AppSettled
  <2>4. QED
    BY <2>1, <2>2, <2>3 DEF Next
<1>6. (impl.lm # "empty")'
  <2>1. CASE PublicCall
    <3>1. ASSUME NEW lm \in Lms, RecognizeBegin(lm) PROVE impl'.lm = lm
      BY <1>1, <3>1 DEF RecognizeBegin, ImplType
    <3>2. \/ \E lm \in Lms : RecognizeBegin(lm)
          \/ impl'.lm = impl.lm
      BY <1>1, <2>1 DEF PublicCall, RecognizeRefuse, WaitClosed, WaitBegin, CloseBegin,
         DestroyBegin, implVars, ImplType
    <3>3. QED
      BY <1>1, <3>1, <3>2 DEF AppSettled
  <2>2. CASE AppStep
    <3>1. CASE Connect \/ Opened \/ SendRequest \/ Check \/ Block \/ Timeout
      BY <1>1, <3>1 DEF AppSettled, Connect, Opened, SendRequest, Check, Block, Timeout,
         implVars, ImplType
    <3>2. CASE Stop \/ Join \/ CloseThrows \/ Joined \/ CopyResults \/ ClearResults \/ WsClose
      BY <1>1, <3>2 DEF AppSettled, Stop, Join, CloseThrows, Joined, CopyResults, ClearResults,
         WsClose, implVars, ImplType
    <3>3. CASE JoinNet
      BY <1>1, <3>3 DEF AppSettled, JoinNet, ImplType, NewImpl
    <3>4. QED
      BY <2>2, <3>1, <3>2, <3>3 DEF AppStep
  <2>3. CASE NetStep \/ AudioStep \/ World
    BY <1>1, <2>3, OthersLeave DEF AppSettled
  <2>4. QED
    BY <2>1, <2>2, <2>3 DEF Next
<1>8. QED
  BY <1>2, <1>3, <1>4, <1>5, <1>6, <1>7 DEF AppSettled

-----------------------------------------------------------------------------
(* Every step keeps OneAudioThread.                                        *)

(* No thread runs while recognize() or the constructor is at work, nor     *)
(* when recognize() begins.                                                *)
LEMMA NoThreadWhileOpening ==
  ASSUME Turning,
         pc \in {"connect", "opened", "request"} \/ \E lm \in Lms : RecognizeBegin(lm)
  PROVE  audio = "none"
<1>1. CASE pc \in {"connect", "opened", "request"}
  BY <1>1 DEF Turning, TurnsInv, InItsCall, OneAudioThread, Asking
<1>2. CASE \E lm \in Lms : RecognizeBegin(lm)
  <2>1. Between
    BY <1>2, BetweenCalls DEF RecognizeBegin, Calls
  <2>2. QED
    BY <2>1 DEF Turning, TurnsInv, OneAudioThread
<1>3. QED
  BY <1>1, <1>2

(* A thread is started by the answer to START_RECOGNITION alone.           *)
LEMMA ThreadStarted ==
  ASSUME Turning, audio = "none", audio' # "none", Next
  PROVE  HandleStart /\ ~Settled /\ ~Requested' /\ Settled'
<1>1. TypeOK /\ OneRecognition /\ NeverCancels
  BY DEF Turning, Known, TakesTurns
<1>2. HandleStart
  BY <1>1, NobodyCancels DEF Next, PublicCall, RecognizeRefuse, RecognizeBegin, WaitClosed,
     WaitBegin, CloseBegin, DestroyBegin, AppStep, Connect, Opened, SendRequest, Check, Block,
     Timeout, Stop, Join, CloseThrows, Joined, CopyResults, ClearResults, WsClose, JoinNet, NetStep, NetOpen,
     NetFail, NetClosed, NetExit, NetTake, HandleFailure, HandleCreateSession,
     HandleSetParameters, PushResult, FinishResult, EndRecognition, AudioStep, AudioRead,
     AudioReady, AudioLog, AudioSend, AudioAt, World, audioVars
<1>3. 1 \in Coming /\ Inbound[1] = handling
  BY <1>1, InboundIs
<1>4. handling.kind = "RESPONSE" /\ handling' = None /\ UNCHANGED <<c2s, s2c>>
  BY <1>2 DEF HandleStart, Handles, Handling, wireVars
<1>5. ~Settled /\ ~Requested /\ \A i \in Coming : i # 1 => ~InResponse(i)
  BY <1>1, <1>3, <1>4 DEF OneRecognition, OneRequest, InboundInOrder, InResponse, Settled
<1>6. ~Requested'
  BY <1>4, <1>5 DEF Requested, Asks
<1>7. QED
  BY <1>1, <1>2, <1>4, <1>5, <1>6, HandledSettled

LEMMA StepOneAudioThread ==
  ASSUME Turning, Next
  PROVE  OneAudioThread'
<1>1. /\ TypeOK /\ OneRecognition /\ NeverCancels /\ impl \in ImplType
      /\ Known /\ TurnsInv /\ InItsCall /\ OneAudioThread /\ ~CancelBegin
  BY NobodyCancels, Types DEF Turning, Known, TurnsInv, TakesTurns
<1>2. (audio # "none" => Settled /\ ~Asking /\ cont # "construct")'
  <2>1. SUFFICES ASSUME audio' # "none"
                 PROVE  Settled' /\ ~Asking' /\ cont' # "construct"
    OBVIOUS
  <2>2. CASE audio = "none"
    <3>1. HandleStart /\ ~Settled /\ Settled'
      BY <2>1, <2>2, ThreadStarted
    <3>2. ~Asking /\ cont # "construct" /\ Asking' = Asking /\ cont' = cont
      BY <1>1, <3>1, Unsettled, OthersLeave, OthersLeaveApp DEF NetStep
    <3>3. QED
      BY <3>1, <3>2
  <2>3. CASE audio # "none" /\ (PublicCall \/ AppStep)
    <3>1. Settled /\ ~Asking /\ cont # "construct"
      BY <1>1, <2>3 DEF OneAudioThread
    <3>2. /\ pc \notin {"connect", "opened", "request"}
          /\ ~\E lm \in Lms : RecognizeBegin(lm)
      BY <2>3, NoThreadWhileOpening
    <3>3. ~Connect /\ ~Opened /\ ~SendRequest
      BY <3>2 DEF Connect, Opened, SendRequest, At
    <3>4. Settled'
      BY <1>1, <2>3, <3>1, <3>3, AppStaysSettled
    <3>5. ~Asking' /\ cont' # "construct"
      BY <1>1, <2>3, <3>1, <3>2, <3>3 DEF PublicCall, RecognizeRefuse, WaitClosed, WaitBegin,
         CloseBegin, DestroyBegin, AppStep, Check, Block, Timeout, Stop, Join, CloseThrows, Joined,
         CopyResults, ClearResults, WsClose, JoinNet, Call, At, Return, AfterWait, Asking
    <3>6. QED
      BY <3>4, <3>5
  <2>4. CASE audio # "none" /\ (NetStep \/ AudioStep \/ World)
    BY <1>1, <2>4, OthersSettled, OthersLeave, OthersLeaveApp DEF OneAudioThread
  <2>5. QED
    BY <2>2, <2>3, <2>4 DEF Next
<1>3. (Stopped \/ Between \/ ~impl.open => audio = "none")'
  <2>1. SUFFICES ASSUME Stopped' \/ Between' \/ ~impl'.open PROVE audio' = "none"
    OBVIOUS
  <2>2. CASE PublicCall
    <3>1. ~Stopped' /\ ~Between' => ~impl.open
      BY <1>1, <2>1, <2>2 DEF PublicCall, RecognizeRefuse, RecognizeBegin, WaitClosed,
         WaitBegin, CloseBegin, DestroyBegin, implVars, ImplType
    <3>2. Stopped' \/ Between' => ~impl.open
      BY <1>1, <2>1, <2>2 DEF PublicCall, RecognizeRefuse, RecognizeBegin, WaitClosed,
         WaitBegin, CloseBegin, DestroyBegin, Return, Stopped, Between
    <3>3. audio' = audio
      BY <1>1, <2>2 DEF PublicCall, RecognizeRefuse, RecognizeBegin, WaitClosed,
         WaitBegin, CloseBegin, DestroyBegin, audioVars
    <3>4. QED
      BY <1>1, <2>1, <3>1, <3>2, <3>3 DEF OneAudioThread
  <2>3. CASE Connect \/ Opened \/ SendRequest
    <3>1. audio = "none"
      BY <2>3, NoThreadWhileOpening DEF Connect, Opened, SendRequest, At
    <3>2. QED
      BY <2>3, <3>1 DEF Connect, Opened, SendRequest, audioVars
  <2>4. CASE Check \/ Block \/ Timeout
    <3>1. ~Stopped' /\ ~Between' /\ impl' = impl /\ audio' = audio
      BY <2>4 DEF Check, Block, Timeout, Return, AfterWait, Stopped, Between, implVars, audioVars
    <3>2. QED
      BY <1>1, <2>1, <3>1 DEF OneAudioThread
  <2>5. CASE Stop
    <3>1. audio' = audio /\ impl'.open = impl.open /\ (audio = "none" \/ pc' = "join")
      BY <1>1, <2>5 DEF Stop, audioVars, ImplType
    <3>2. QED
      BY <1>1, <2>1, <3>1 DEF OneAudioThread, Stopped, Between
  <2>6. CASE Join
    BY <2>6 DEF Join
  <2>7. CASE CloseThrows \/ Joined \/ CopyResults \/ ClearResults \/ WsClose \/ JoinNet
    <3>1. Stopped /\ audio' = audio
      BY <2>7 DEF CloseThrows, Joined, CopyResults, ClearResults, WsClose, JoinNet, At, Stopped, audioVars
    <3>2. QED
      BY <1>1, <3>1 DEF OneAudioThread
  <2>8. CASE NetStep \/ AudioStep \/ World
    <3>1. Stopped \/ Between \/ ~impl.open
      BY <2>1, <2>8, OthersLeave, OthersLeaveApp
    <3>2. audio = "none"
      BY <1>1, <3>1 DEF OneAudioThread
    <3>3. ~HandleStart \/ Settled
      BY <1>1, <3>1, Unsettled DEF Stopped, Stopping
    <3>4. QED
      BY <3>2, <3>3, ThreadStarted
  <2>9. QED
    BY <2>2, <2>3, <2>4, <2>5, <2>6, <2>7, <2>8 DEF Next, AppStep
<1>4. (impl.terminate => pc \in {"join", "joined"} \/ impl.threw)'
  <2>1. CASE PublicCall
    BY <1>1, <2>1 DEF OneAudioThread, PublicCall, RecognizeRefuse, RecognizeBegin,
       WaitClosed, WaitBegin, CloseBegin, DestroyBegin, Call, At, implVars, ImplType
  <2>2. CASE Connect \/ Opened \/ SendRequest \/ Check \/ Block \/ Timeout
    BY <1>1, <2>2 DEF OneAudioThread, Connect, Opened, SendRequest, Check, Block, Timeout, At,
       implVars, ImplType
  <2>3. CASE Stop \/ Join \/ CopyResults \/ ClearResults \/ WsClose \/ JoinNet
    BY <1>1, <2>3 DEF OneAudioThread, Stop, Join, CopyResults, ClearResults, WsClose,
       JoinNet, At, implVars, ImplType, NewImpl
  <2>6. CASE CloseThrows \/ Joined
    BY <1>1, <2>6 DEF CloseThrows, Joined, ImplType
  <2>4. CASE NetStep \/ AudioStep \/ World
    BY <1>1, <2>4, OthersLeave DEF OneAudioThread
  <2>7. QED
    BY <2>1, <2>2, <2>3, <2>4, <2>6 DEF Next, AppStep
<1>5. NoTerminate'
  <2>1. CASE PublicCall
    <3>1. ~impl.open => audio = "none"
      BY <1>1 DEF OneAudioThread
    <3>2. ~crashed'
      BY <1>1, <2>1, <3>1 DEF PublicCall, RecognizeRefuse, RecognizeBegin,
         WaitClosed, WaitBegin, CloseBegin, DestroyBegin, Call, At
    <3>3. QED
      BY <3>2 DEF NoTerminate
  <2>2. CASE Connect \/ Opened \/ SendRequest \/ Check \/ Block \/ Timeout
    BY <2>2 DEF NoTerminate, Connect, Opened, SendRequest, Check, Block, Timeout, At
  <2>3. CASE Stop \/ Join \/ Joined \/ CopyResults \/ ClearResults \/ WsClose
    BY <2>3 DEF NoTerminate, Stop, Join, Joined, CopyResults, ClearResults, WsClose, At
  <2>4. CASE JoinNet
    <3>1. audio = "none"
      BY <1>1, <2>4 DEF OneAudioThread, JoinNet, At, Stopped
    <3>2. QED
      BY <2>4, <3>1 DEF NoTerminate, JoinNet, At
  <2>5. CASE CloseThrows
    BY <2>5 DEF NoTerminate, CloseThrows, At
  <2>6. CASE NetStep \/ AudioStep \/ World
    BY <1>1, <2>6, OthersLeave DEF OneAudioThread, NoTerminate
  <2>7. QED
    BY <2>1, <2>2, <2>3, <2>4, <2>5, <2>6 DEF Next, AppStep
<1>6. QED
  BY <1>2, <1>3, <1>4, <1>5 DEF OneAudioThread

-----------------------------------------------------------------------------
(* Every step keeps ConnectionKnown.                                       *)

(* On a connection that is not open yet nothing is sent or received.       *)
LEMMA NothingOnNewConnection ==
  ASSUME Turning, Next, conn' \in {"none", "connecting"}
  PROVE  c2s' = <<>> /\ s2c' = <<>> /\ srv' = NewServer /\ impl'.status = "connecting"
<1>1. /\ TypeOK /\ OneRecognition /\ impl \in ImplType /\ ConnectionKnown /\ QuietWhenClosed
      /\ ~CancelBegin /\ audio \in {"none", "reading", "ready", "logging", "sending", "done"}
  BY NobodyCancels, Types DEF Turning, Known, TurnsInv, TakesTurns, PreparedInv, TypeOK
<1>2. CASE JoinNet /\ cont = "reset" /\ audio = "none"
  BY <1>2 DEF JoinNet, NewImpl
<1>3. CASE ~(JoinNet /\ cont = "reset" /\ audio = "none")
  <2>1. conn \in {"none", "connecting"}
    BY <1>1, <1>3, NobodyCancels DEF Turning, Known, TakesTurns, Next, PublicCall,
       RecognizeRefuse, RecognizeBegin, WaitClosed,
       WaitBegin, CloseBegin, DestroyBegin, AppStep, Connect, Opened, SendRequest, Check, Block,
       Timeout, Stop, Join, CloseThrows, Joined, CopyResults, ClearResults, WsClose, JoinNet, NetStep, NetOpen,
       NetFail, NetClosed, NetExit, NetTake, HandleFailure, HandleCreateSession,
       HandleSetParameters, HandleStart, PushResult, FinishResult, EndRecognition, AudioStep,
       AudioRead, AudioReady, AudioLog, AudioSend, World, ServerStep, ServeRequest, ServeCancel,
       ServeAudio, ServeResult, Drop, wireVars
  <2>2. /\ c2s = <<>> /\ s2c = <<>> /\ srv = NewServer /\ impl.status = "connecting"
        /\ handling = None
    BY <1>1, <2>1 DEF ConnectionKnown, QuietWhenClosed
  <2>3. CASE PublicCall
    BY <1>1, <2>2, <2>3 DEF PublicCall, RecognizeRefuse, RecognizeBegin, WaitClosed, WaitBegin,
       CloseBegin, DestroyBegin, wireVars, implVars, ImplType
  <2>4. CASE AppStep
    <3>1. CASE Connect
      BY <1>1, <2>2, <3>1 DEF Connect, Return, ImplType
    <3>2. CASE SendRequest
      <4>1. impl'.status = impl.status
        BY <1>1, <3>2 DEF SendRequest, ImplType
      <4>2. c2s' = c2s
        BY <2>1, <3>2 DEF SendRequest, CreateSession, StartRecognition, Sent
      <4>3. s2c' = s2c /\ srv' = srv
        BY <3>2 DEF SendRequest
      <4>4. QED
        BY <2>2, <4>1, <4>2, <4>3
    <3>3. CASE JoinNet
      <4>1. ~(cont = "reset" /\ audio = "none")
        BY <1>3, <3>3
      <4>2. c2s' = c2s /\ s2c' = s2c /\ srv' = srv
        BY <3>3, <4>1 DEF JoinNet
      <4>3. impl' = impl \/ impl' = [impl EXCEPT !.open = FALSE]
        BY <3>3, <4>1 DEF JoinNet
      <4>4. impl'.status = impl.status
        BY <1>1, <4>3 DEF ImplType
      <4>5. QED
        BY <2>2, <4>2, <4>4
    <3>4. CASE Opened \/ Check \/ Block \/ Timeout \/ Stop
      BY <1>1, <2>2, <3>4 DEF Opened, Check, Block, Timeout, Stop, wireVars, implVars, ImplType
    <3>5. CASE Join \/ CloseThrows \/ Joined \/ CopyResults \/ ClearResults \/ WsClose
      BY <1>1, <2>2, <3>5 DEF Join, CloseThrows, Joined, CopyResults, ClearResults, WsClose, wireVars,
         implVars, ImplType
    <3>6. QED
      BY <2>4, <3>1, <3>2, <3>3, <3>4, <3>5 DEF AppStep
  <2>5. ~NetStep
    BY <1>1, <2>1, <2>2 DEF NetStep, NetOpen, NetFail, NetClosed, NetExit, NetTake,
       HandleFailure, HandleCreateSession, HandleSetParameters, HandleStart, HandleCancel,
       PushResult, FinishResult, HandleCanceled, Handles, Handling, None
  <2>6. CASE AudioStep
    BY <1>1, <2>1, <2>2, <2>6 DEF AudioStep, AudioRead, AudioReady, AudioLog, AudioSend, Sent,
       wireVars, implVars, ImplType
  <2>7. ~World
    BY <2>1 DEF World, ServerStep, ServeRequest, ServeCancel, ServeAudio, ServeResult, Drop
  <2>8. QED
    BY <2>3, <2>4, <2>5, <2>6, <2>7 DEF Next
<1>4. QED
  BY <1>2, <1>3

(* A recognizer knows that its connection failed until it is told to try   *)
(* again, and it is not told before.                                       *)
LEMMA FailureKept ==
  ASSUME Turning, Next, conn' = conn, conn \in {"connecting", "failed"}
  PROVE  /\ impl'.status = impl.status
         /\ impl.recognizing => impl'.recognizing
         /\ impl.recognizing /\ impl.eptr => impl'.eptr
         /\ cont \in {"construct", "abort"} => cont' \in {"construct", "abort"}
<1>1. /\ TypeOK /\ OneRecognition /\ NeverCancels /\ impl \in ImplType /\ ConnectionKnown
      /\ QuietWhenClosed /\ InItsCall /\ AppSettled /\ ~CancelBegin
  BY NobodyCancels, Types DEF Turning, Known, TurnsInv, TakesTurns, PreparedInv
<1>2. handling = None
  BY <1>1 DEF QuietWhenClosed
<1>3. CASE PublicCall
  <2>1. pc = "idle" /\ cont \notin {"construct", "abort"}
    BY <1>1, <1>3 DEF PublicCall, RecognizeRefuse, RecognizeBegin, WaitClosed, WaitBegin,
       CloseBegin, DestroyBegin, Call, At, ConnectionKnown, InItsCall, Stopping
  <2>2. QED
    BY <1>1, <1>3, <2>1 DEF PublicCall, RecognizeRefuse, RecognizeBegin, WaitClosed, WaitBegin,
       CloseBegin, DestroyBegin, implVars, ImplType
<1>4. CASE AppStep
  <2>1. ~(JoinNet /\ cont = "reset" /\ audio = "none")
    BY DEF JoinNet
  <2>2. cont \in {"construct", "abort"} => cont' \in {"construct", "abort"}
    BY <1>1, <1>4 DEF AppStep, Connect, Opened, SendRequest, Check, Block, Timeout, Stop, Join,
       CloseThrows, Joined, CopyResults, ClearResults, WsClose, JoinNet, At, InItsCall
  <2>3. QED
    BY <1>1, <1>4, <2>1, <2>2 DEF AppStep, Connect, Opened, SendRequest, Check, Block, Timeout,
       Stop, Join, CloseThrows, Joined, CopyResults, ClearResults, WsClose, JoinNet, implVars, ImplType
<1>5. CASE NetStep
  BY <1>1, <1>2, <1>5 DEF NetStep, NetOpen, NetFail, NetClosed, NetExit, NetTake,
     HandleFailure, HandleCreateSession, HandleSetParameters, HandleStart, HandleCancel,
     PushResult, FinishResult, HandleCanceled, Handles, Handling, None, implVars, appVars
<1>6. CASE AudioStep
  BY <1>1, <1>6 DEF AudioStep, AudioRead, AudioReady, AudioLog, AudioSend, implVars, appVars,
     ImplType
<1>7. CASE World
  BY <1>7 DEF World, implVars, appVars
<1>8. QED
  BY <1>3, <1>4, <1>5, <1>6, <1>7 DEF Next

LEMMA StepConnectionKnown ==
  ASSUME Turning, Next
  PROVE  ConnectionKnown'
<1>1. /\ TypeOK /\ OneRecognition /\ NeverCancels /\ impl \in ImplType /\ ConnectionKnown
      /\ QuietWhenClosed /\ InItsCall /\ AppSettled /\ ~CancelBegin
  BY NobodyCancels, Types DEF Turning, Known, TurnsInv, TakesTurns, PreparedInv
<1>2. (conn \in {"none", "connecting"} =>
        c2s = <<>> /\ s2c = <<>> /\ srv = NewServer /\ impl.status = "connecting")'
  BY NothingOnNewConnection
<1>3. (net = "none" => conn = "none")'
  BY <1>1, ConnectionSteps DEF ConnectionKnown, NetExit
<1>4. /\ (conn = "connecting" => impl.recognizing \/ cont \in {"construct", "abort"})'
      /\ (conn = "failed" => /\ impl.status = "failed"
                             /\ \/ impl.recognizing /\ impl.eptr
                                \/ cont \in {"construct", "abort"})'
  <2>1. CASE conn' = conn
    BY <1>1, <2>1, FailureKept DEF ConnectionKnown
  <2>2. CASE Connect /\ conn = "none" /\ conn' = "connecting"
    <3>1. pc = "connect" /\ cont' = cont /\ impl'.recognizing = impl.recognizing
          /\ conn' = "connecting"
      BY <1>1, <2>2 DEF Connect, At, ImplType
    <3>2. cont = "construct" \/ Asking
      BY <1>1, <3>1 DEF InItsCall, Asking
    <3>3. QED
      BY <1>1, <3>1, <3>2, AskingSettled
  <2>3. CASE NetFail
    BY <1>1, <2>3 DEF NetFail, ConnectionKnown, ImplType
  <2>4. CASE conn' \notin {"connecting", "failed"}
    BY <2>4
  <2>5. QED
    BY <2>1, <2>2, <2>3, <2>4, ConnectionSteps
<1>5. (cont = "construct" =>
         /\ pc = "connect" => conn = "none"
         /\ pc = "idle" => conn \notin {"connecting", "failed"})'
  <2>1. SUFFICES ASSUME cont' = "construct"
                 PROVE  /\ pc' = "connect" => conn' = "none"
                        /\ pc' = "idle" => conn' \notin {"connecting", "failed"}
    OBVIOUS
  <2>2. CASE PublicCall
    <3>1. RecognizeRefuse
      BY <1>1, <2>1, <2>2 DEF PublicCall, RecognizeBegin, WaitClosed, WaitBegin, CloseBegin,
         DestroyBegin
    <3>2. QED
      BY <1>1, <2>1, <3>1 DEF RecognizeRefuse, Call, At, Return, ConnectionKnown, wireVars
  <2>3. CASE Opened
    BY <1>1, <2>1, <2>3 DEF Opened, Return, ConnectionKnown, wireVars
  <2>4. CASE Connect
    BY <1>1, <2>1, <2>4 DEF Connect, At, Return, ConnectionKnown
  <2>5. CASE SendRequest \/ Check \/ Block \/ Timeout
    BY <1>1, <2>1, <2>5 DEF SendRequest, Check, Block, Timeout, At, Return, AfterWait,
       InItsCall
  <2>6. CASE Stop \/ Join \/ CloseThrows \/ Joined \/ CopyResults \/ ClearResults \/ WsClose \/ JoinNet
    BY <1>1, <2>1, <2>6 DEF Stop, Join, CloseThrows, Joined, CopyResults, ClearResults, WsClose, JoinNet, At,
       InItsCall, Stopping
  <2>7. CASE NetStep \/ AudioStep \/ World
    <3>1. cont' = cont /\ (pc' = pc \/ (pc = "blocked" /\ pc' = "check"))
      BY <2>7, OthersLeave
    <3>2. ~Connect /\ ~JoinNet
      BY <2>7, <3>1 DEF Connect, JoinNet, At, Return
    <3>3. CASE pc' = "connect"
      BY <1>1, <2>1, <3>1, <3>2, <3>3, ConnectionSteps DEF ConnectionKnown, NetOpen, NetFail
    <3>4. CASE pc' = "idle"
      BY <1>1, <2>1, <3>1, <3>2, <3>4, ConnectionSteps DEF ConnectionKnown, NetOpen, NetFail
    <3>5. QED
      BY <3>3, <3>4
  <2>8. QED
    BY <2>2, <2>3, <2>4, <2>5, <2>6, <2>7 DEF Next, AppStep
<1>6. QED
  BY <1>2, <1>3, <1>4, <1>5 DEF ConnectionKnown

-----------------------------------------------------------------------------
(* Every step keeps AudioTrail and AudioInOrder.                           *)

(* What is running is not prepared any more, and nothing is sent to it but *)
(* audio.                                                                  *)
LEMMA RunningHears ==
  ASSUME TypeOK, OneRecognition, srv.rec # 0
  PROVE  /\ ~Asking /\ ~Requested /\ srv.rec = n /\ impl.recognizing
         /\ handling.kind = "RESPONSE" => handling.method = "START_RECOGNITION"
<1>1. ~Preparing
  BY DEF OneRecognition, FreshStart
<1>2. 1 \in Coming /\ Inbound[1] = handling
  BY InboundIs
<1>3. srv.rec = n /\ impl.recognizing
  BY IdleSettled, Types DEF OneRecognition, LaterSegments, ImplType
<1>4. QED
  BY <1>1, <1>2, <1>3 DEF Preparing, InResponse

(* How the queue to the server changes.                                    *)
LEMMA QueueSteps ==
  ASSUME Turning, Next
  PROVE  \/ c2s' = c2s
         \/ JoinNet /\ c2s' = <<>> /\ srv' = NewServer
         \/ /\ srv.rec = 0 /\ srv' = srv /\ ~Requested
            /\ \E m \in Requests : c2s' = Append(c2s, m)
         \/ /\ AudioSend /\ ~Requested /\ srv' = srv
            /\ c2s' = Append(c2s, Request("SEND_AUDIO", impl.source, packet))
         \/ World /\ (ServeRequest \/ ServeAudio) /\ c2s # <<>> /\ c2s' = Tail(c2s)
<1>1. /\ TypeOK /\ OneRecognition /\ NeverCancels /\ impl \in ImplType /\ ~CancelBegin
      /\ 1 \in Coming /\ Inbound[1] = handling /\ Known /\ TurnsInv
  BY NobodyCancels, Types, InboundIs DEF Turning, Known, TakesTurns
<1>2. CASE PublicCall
  BY <1>1, <1>2 DEF PublicCall, RecognizeRefuse, RecognizeBegin, WaitClosed, WaitBegin,
     CloseBegin, DestroyBegin, wireVars
<1>3. CASE SendRequest
  <2>1. Asking /\ srv' = srv
    BY <1>3 DEF SendRequest, At, Asking
  <2>2. ~Requested /\ srv.rec = 0
    BY <1>1, <2>1, AskingSettled DEF Settled
  <2>3. c2s' = c2s \/ \E m \in Requests : c2s' = Append(c2s, m)
    BY <1>1, <1>3, ClientRequests DEF SendRequest, CreateSession, StartRecognition, Sent
  <2>4. QED
    BY <2>1, <2>2, <2>3
<1>4. CASE AppStep /\ ~SendRequest
  BY <1>4 DEF AppStep, Connect, Opened, Check, Block, Timeout, Stop, Join, CloseThrows, Joined,
     CopyResults, ClearResults, WsClose, JoinNet, wireVars
<1>5. CASE HandleCreateSession \/ HandleSetParameters
  <2>1. /\ handling.kind = "RESPONSE" /\ handling.method # "START_RECOGNITION" /\ srv' = srv
    BY <1>5 DEF HandleCreateSession, HandleSetParameters, Handles, Handling
  <2>2. srv.rec = 0
    BY <1>1, <2>1, RunningHears
  <2>3. ~Requested
    BY <1>1, <2>1 DEF OneRecognition, OneRequest, InResponse
  <2>4. c2s' = c2s \/ \E m \in Requests : c2s' = Append(c2s, m)
    BY <1>1, <1>5, ClientRequests DEF HandleCreateSession, HandleSetParameters, NetStart,
       SetParameters, StartRecognition, Sent
  <2>5. QED
    BY <2>1, <2>2, <2>3, <2>4
<1>6. CASE NetStep /\ ~HandleCreateSession /\ ~HandleSetParameters
  BY <1>1, <1>6, NobodyCancels DEF NetStep, NetOpen, NetFail, NetClosed, NetExit, NetTake,
     HandleFailure, HandleStart, PushResult, FinishResult, EndRecognition, wireVars
<1>7. CASE AudioSend
  <2>1. ~Requested
    BY <1>1, <1>7 DEF AudioSend, AudioAt, TurnsInv, OneAudioThread, Settled
  <2>2. QED
    BY <1>7, <2>1 DEF AudioSend, Sent
<1>8. CASE AudioStep /\ ~AudioSend
  BY <1>8 DEF AudioStep, AudioRead, AudioReady, AudioLog, wireVars
<1>9. CASE World
  BY <1>1, <1>9, NobodyCancels DEF World, ServerStep, ServeRequest, ServeAudio, ServeResult, Drop
<1>10. QED
  BY <1>2, <1>3, <1>4, <1>5, <1>6, <1>7, <1>8, <1>9 DEF Next, AppStep

(* A request for a recognition is the last message of the queue.           *)
LEMMA StepAskIsLast ==
  ASSUME Turning, Next
  PROVE  (\A i \in 1 .. Len(c2s) : Asks(i) => i = Len(c2s))'
<1>1. /\ TypeOK /\ c2s \in Seq(Requests)
      /\ \A i \in 1 .. Len(c2s) : Asks(i) => i = Len(c2s)
  BY Types DEF Turning, Known, TurnsInv, AudioTrail
<1>2. CASE c2s' = c2s
  BY <1>1, <1>2 DEF Asks
<1>3. CASE c2s' = <<>>
  BY <1>3
<1>4. CASE ~Requested /\ \E m : c2s' = Append(c2s, m)
  BY <1>1, <1>4 DEF Requested, Asks
<1>5. CASE c2s # <<>> /\ c2s' = Tail(c2s)
  <2>1. Len(c2s') = Len(c2s) - 1 /\ Len(c2s) \in Nat
    BY <1>1, <1>5
  <2>2. ASSUME NEW i \in 1 .. Len(c2s'), c2s'[i].method # "SEND_AUDIO"
        PROVE  i = Len(c2s')
    <3>1. i + 1 \in 1 .. Len(c2s) /\ c2s'[i] = c2s[i + 1]
      BY <1>1, <1>5, <2>2, RequestTaken
    <3>2. i + 1 = Len(c2s)
      BY <1>1, <2>2, <3>1 DEF Asks
    <3>3. QED
      BY <2>1, <3>2
  <2>3. QED
    BY <2>2 DEF Asks
<1>6. QED
  BY <1>2, <1>3, <1>4, <1>5, QueueSteps

(* Before the answer to START_RECOGNITION the source has not been read.    *)
LEMMA StepSourceFresh ==
  ASSUME Turning, Next, Asking' \/ ~Settled'
  PROVE  pos' = 0 /\ impl'.source = n'
<1>1. /\ TypeOK /\ OneRecognition /\ NeverCancels /\ impl \in ImplType /\ Known /\ TurnsInv
      /\ AudioTrail /\ InItsCall /\ ~CancelBegin
  BY NobodyCancels, Types DEF Turning, Known, TurnsInv, TakesTurns
<1>2. CASE \E lm \in Lms : RecognizeBegin(lm)
  BY <1>1, <1>2 DEF RecognizeBegin, ImplType
<1>3. CASE (PublicCall \/ AppStep) /\ ~\E lm \in Lms : RecognizeBegin(lm)
  <2>1. ~Settled' => ~Settled \/ SendRequest
    BY <1>1, <1>3, AppStaysSettled
  <2>2. SendRequest => Asking
    BY DEF SendRequest, At, Asking
  <2>3. Asking' => Asking
    BY <1>1, <1>3 DEF PublicCall, RecognizeRefuse, WaitClosed, WaitBegin,
       CloseBegin, DestroyBegin, AppStep, Connect, Opened, SendRequest, Check, Block, Timeout,
       Stop, Join, CloseThrows, Joined, CopyResults, ClearResults, WsClose, JoinNet, Call, At, Return,
       AfterWait, Asking
  <2>4. pos = 0 /\ impl.source = n
    BY <1>1, <2>1, <2>2, <2>3 DEF AudioTrail
  <2>5. ~JoinNet
    BY <1>1, <2>1, <2>2, <2>3, Unsettled DEF JoinNet, At, Asking, Stopping
  <2>6. QED
    BY <1>1, <1>3, <2>4, <2>5 DEF PublicCall, RecognizeRefuse, WaitClosed, WaitBegin,
       CloseBegin, DestroyBegin, AppStep, Connect, Opened, SendRequest, Check, Block, Timeout,
       Stop, Join, CloseThrows, Joined, CopyResults, ClearResults, WsClose, implVars, ImplType
<1>4. CASE NetStep \/ AudioStep \/ World
  <2>1. Asking \/ ~Settled
    BY <1>1, <1>4, OthersSettled, OthersLeaveApp
  <2>2. audio = "none"
    BY <1>1, <2>1 DEF TurnsInv, OneAudioThread
  <2>3. pos' = pos
    BY <1>1, <1>4, <2>2, NobodyCancels DEF NetStep, NetOpen, NetFail, NetClosed, NetExit,
       NetTake, HandleFailure, HandleCreateSession, HandleSetParameters, HandleStart, PushResult,
       FinishResult, EndRecognition, AudioStep, AudioRead, AudioReady, AudioLog, AudioSend,
       AudioAt, World, implVars
  <2>4. QED
    BY <1>1, <1>4, <2>1, <2>3, OthersLeave DEF AudioTrail
<1>5. QED
  BY <1>2, <1>3, <1>4 DEF Next

(* The audio thread reads the source of the recognition it was started for.*)
LEMMA StepOwnSource ==
  ASSUME Turning, Next, audio' # "none"
  PROVE  impl'.source = n'
<1>1. /\ TypeOK /\ OneRecognition /\ NeverCancels /\ impl \in ImplType /\ TurnsInv /\ Known
      /\ ~CancelBegin
  BY NobodyCancels, Types DEF Turning, Known, TurnsInv, TakesTurns
<1>2. CASE audio = "none"
  <2>1. HandleStart /\ ~Settled
    BY <1>2, ThreadStarted
  <2>2. impl.source = n
    BY <1>1, <2>1 DEF TurnsInv, AudioTrail
  <2>3. QED
    BY <2>1, <2>2, OthersLeave DEF NetStep
<1>3. CASE audio # "none"
  <2>1. impl.source = n
    BY <1>1, <1>3 DEF TurnsInv, AudioTrail
  <2>2. CASE NetStep \/ AudioStep \/ World
    BY <2>1, <2>2, OthersLeave
  <2>3. CASE PublicCall \/ AppStep
    <3>1. ~\E lm \in Lms : RecognizeBegin(lm)
      BY <1>3, NoThreadWhileOpening
    <3>2. ~JoinNet
      BY <1>1, <1>3 DEF TurnsInv, OneAudioThread, JoinNet, At, Stopped
    <3>3. QED
      BY <1>1, <2>1, <2>3, <3>1, <3>2 DEF PublicCall, RecognizeRefuse, WaitClosed, WaitBegin,
         CloseBegin, DestroyBegin, AppStep, Connect, Opened, SendRequest, Check, Block, Timeout,
         Stop, Join, CloseThrows, Joined, CopyResults, ClearResults, WsClose, implVars, ImplType
  <2>4. QED
    BY <2>2, <2>3 DEF Next
<1>4. QED
  BY <1>2, <1>3

(* Only the server changes what the server knows, except that a new Impl   *)
(* has a new connection.                                                   *)
LEMMA ServerActs ==
  ASSUME Turning, Next
  PROVE  srv' = srv \/ (JoinNet /\ srv' = NewServer) \/ World
<1>1. ~CancelBegin
  BY NobodyCancels DEF Turning, Known, TakesTurns
<1>2. CASE PublicCall
  BY <1>1, <1>2 DEF PublicCall, RecognizeRefuse, RecognizeBegin, WaitClosed, WaitBegin,
     CloseBegin, DestroyBegin, wireVars
<1>3. CASE AppStep
  BY <1>3 DEF AppStep, Connect, Opened, SendRequest, Check, Block, Timeout, Stop, Join, CloseThrows, Joined,
     CopyResults, ClearResults, WsClose, JoinNet, wireVars
<1>4. CASE NetStep
  BY <1>4 DEF NetStep, NetOpen, NetFail, NetClosed, NetExit, NetTake, HandleFailure,
     HandleCreateSession, HandleSetParameters, HandleStart, HandleCancel, PushResult,
     FinishResult, HandleCanceled, EndRecognition, wireVars
<1>5. CASE AudioStep
  BY <1>5 DEF AudioStep, AudioRead, AudioReady, AudioLog, AudioSend, wireVars
<1>6. QED
  BY <1>2, <1>3, <1>4, <1>5 DEF Next

(* A recognition starts with the request for it, and that was all there    *)
(* was in the queue.                                                       *)
LEMMA ServerStarts ==
  ASSUME Turning, Next, srv.rec = 0, srv'.rec # 0
  PROVE  c2s' = <<>> /\ srv'.heard = <<>> /\ audio' = "none"
<1>1. /\ TypeOK /\ OneRecognition /\ NeverCancels /\ srv \in ServerType /\ ~CancelBegin
      /\ c2s \in Seq(Requests) /\ Known /\ TurnsInv /\ AudioTrail
  BY NobodyCancels, Types DEF Turning, Known, TurnsInv, TakesTurns
<1>2. World /\ ServeRequest
  <2>1. World
    BY ServerActs DEF NewServer
  <2>2. ~ServeAudio
    BY <1>1 DEF ServeAudio
  <2>3. ~ServeResult /\ ~Drop /\ ~ServeCancel
    BY <1>1, <2>1, NobodyCancels DEF ServeResult, Drop
  <2>4. QED
    BY <2>1, <2>2, <2>3 DEF World, ServerStep
<1>3. 1 \in 1 .. Len(c2s) /\ c2s[1] = Head(c2s) /\ c2s' = Tail(c2s)
  BY <1>1, <1>2, RequestTaken DEF ServeRequest
<1>4. Asks(1)
  BY <1>2, <1>3 DEF ServeRequest, Methods, Asks
<1>5. Len(c2s) = 1
  BY <1>1, <1>3, <1>4 DEF AudioTrail
<1>6. c2s' = <<>>
  BY <1>1, <1>3, <1>5
<1>7. audio' = "none"
  <2>1. ~Settled
    BY <1>3, <1>4 DEF Settled, Requested
  <2>2. QED
    BY <1>1, <1>2, <2>1, Unsettled DEF World, audioVars
<1>8. srv'.heard = <<>>
  BY <1>1, <1>2 DEF ServeRequest, ServerType
<1>9. QED
  BY <1>6, <1>7, <1>8

(* What can happen to a recognition that runs on.                          *)
LEMMA ServerRuns ==
  ASSUME Turning, Next, srv.rec # 0, srv'.rec # 0
  PROVE  /\ n' = n /\ srv'.rec = srv.rec
         /\ conn' = "open" => conn = "open"
         /\ ~Settled' => ~Settled
         /\ \/ AudioSend /\ srv' = srv
            \/ World /\ ServeAudio
            \/ c2s' = c2s /\ srv'.heard = srv.heard
<1>1. /\ TypeOK /\ OneRecognition /\ NeverCancels /\ srv \in ServerType /\ ~CancelBegin
      /\ c2s \in Seq(Requests) /\ Known /\ TurnsInv /\ ConnectionKnown
      /\ ~Asking /\ ~Requested /\ impl.recognizing
  BY NobodyCancels, Types, RunningHears DEF Turning, Known, TurnsInv, TakesTurns
<1>2. ~SendRequest
  BY <1>1 DEF SendRequest, At, Asking
<1>3. ~(World /\ ServeRequest)
  <2>1. c2s # <<>> => 1 \in 1 .. Len(c2s) /\ Head(c2s) = c2s[1]
    BY <1>1
  <2>2. QED
    BY <1>1, <2>1 DEF World, ServeRequest, Methods, Requested, Asks
<1>4. n' = n
  BY <1>1, OthersLeave DEF Next, PublicCall, RecognizeRefuse, RecognizeBegin, WaitClosed,
     WaitBegin, CloseBegin, DestroyBegin, AppStep, Connect, Opened, SendRequest, Check, Block,
     Timeout, Stop, Join, CloseThrows, Joined, CopyResults, ClearResults, WsClose, JoinNet
<1>5. ~Settled' => ~Settled
  BY <1>1, <1>2, AppStaysSettled, OthersSettled DEF Next
<1>6. conn' = "open" => conn = "open"
  <2>1. conn # "connecting" /\ conn # "none"
    BY <1>1 DEF ConnectionKnown, NewServer
  <2>2. SUFFICES ASSUME conn' = "open", conn # "open" PROVE FALSE
    OBVIOUS
  <2>3. QED
    BY <1>1, <2>1, <2>2, NobodyCancels DEF Next, PublicCall,
       RecognizeRefuse, RecognizeBegin, WaitClosed,
       WaitBegin, CloseBegin, DestroyBegin, AppStep, Connect, Opened, SendRequest, Check, Block,
       Timeout, Stop, Join, CloseThrows, Joined, CopyResults, ClearResults, WsClose, JoinNet, NetStep, NetOpen,
       NetFail, NetClosed, NetExit, NetTake, HandleFailure, HandleCreateSession,
       HandleSetParameters, HandleStart, PushResult, FinishResult, EndRecognition, AudioStep,
       AudioRead, AudioReady, AudioLog, AudioSend, World, ServerStep, ServeRequest, ServeCancel,
       ServeAudio, ServeResult, Drop, wireVars
<1>7. srv' = srv \/ World
  BY ServerActs DEF NewServer
<1>8. srv'.rec = srv.rec /\ (srv'.heard = srv.heard \/ (World /\ ServeAudio))
  <2>1. CASE World /\ ServeAudio
    BY <1>1, <2>1 DEF ServeAudio, ServerType
  <2>2. CASE World /\ ServeResult
    BY <1>1, <2>2 DEF ServeResult, ServerType
  <2>3. CASE World /\ Drop
    BY <2>3 DEF Drop
  <2>4. QED
    BY <1>1, <1>3, <1>7, <2>1, <2>2, <2>3, NobodyCancels DEF World, ServerStep
<1>9. \/ AudioSend /\ srv' = srv
      \/ World /\ ServeAudio
      \/ c2s' = c2s
  BY <1>1, <1>3, QueueSteps DEF NewServer
<1>10. QED
  BY <1>4, <1>5, <1>6, <1>8, <1>9

(* The server hears the next packet of its recognition.                    *)
LEMMA AudioHeard ==
  ASSUME Turning, World, ServeAudio, srv.rec # 0
  PROVE  /\ srv.heard \in Seq(Recogs \X Indices) /\ c2s \in Seq(Requests) /\ Len(c2s) > 0
         /\ Len(srv'.heard) = Len(srv.heard) + 1 /\ Len(c2s') = Len(c2s) - 1
         /\ \A i \in 1 .. Len(c2s') : i + 1 \in 1 .. Len(c2s) /\ c2s'[i] = c2s[i + 1]
         /\ srv'.heard = Append(srv.heard, <<n, Len(srv.heard) + 1>>)
<1>1. /\ TypeOK /\ OneRecognition /\ srv \in ServerType /\ c2s \in Seq(Requests) /\ AudioTrail
      /\ srv.heard \in Seq(Recogs \X Indices)
  BY Types DEF Turning, Known, TurnsInv, ServerType
<1>2. c2s # <<>> /\ c2s' = Tail(c2s) /\ conn = "open"
  BY DEF ServeAudio
<1>3. 1 \in 1 .. Len(c2s) /\ c2s[1] = Head(c2s)
  BY <1>1, <1>2
<1>4. Head(c2s) = Request("SEND_AUDIO", n, Len(srv.heard) + 1)
  BY <1>1, <1>2, <1>3 DEF AudioTrail
<1>5. srv'.heard = Append(srv.heard, <<n, Len(srv.heard) + 1>>)
  BY <1>1, <1>4 DEF ServeAudio, Request, ServerType
<1>6. \A i \in 1 .. Len(c2s') : i + 1 \in 1 .. Len(c2s) /\ c2s'[i] = c2s[i + 1]
  BY <1>1, <1>2, RequestTaken
<1>7. Len(c2s) > 0 /\ Len(c2s') = Len(c2s) - 1
  BY <1>1, <1>2
<1>8. Len(srv'.heard) = Len(srv.heard) + 1
  BY <1>1, <1>5
<1>9. QED
  BY <1>1, <1>5, <1>6, <1>7, <1>8

LEMMA StepAudioInOrder ==
  ASSUME Turning, Next
  PROVE  AudioInOrder'
<1>1. SUFFICES ASSUME srv'.rec # 0
               PROVE  srv'.heard = [i \in 1 .. Len(srv'.heard) |-> <<srv'.rec, i>>]
  BY DEF AudioInOrder
<1>2. TypeOK /\ OneRecognition /\ srv \in ServerType /\ AudioInOrder
      /\ srv.heard \in Seq(Recogs \X Indices)
  BY Types DEF Turning, Known, TurnsInv, ServerType
<1>3. CASE srv.rec = 0
  <2>1. srv'.heard = <<>>
    BY <1>1, <1>3, ServerStarts
  <2>2. QED
    BY <2>1
<1>4. CASE srv.rec # 0 /\ ~(World /\ ServeAudio)
  <2>1. srv'.rec = srv.rec /\ srv'.heard = srv.heard
    BY <1>1, <1>4, ServerRuns
  <2>2. QED
    BY <1>2, <1>4, <2>1 DEF AudioInOrder
<1>5. CASE srv.rec # 0 /\ World /\ ServeAudio
  <2>1. srv'.rec = srv.rec /\ srv.rec = n
    BY <1>1, <1>2, <1>5, ServerRuns, RunningHears
  <2>2. /\ srv'.heard = Append(srv.heard, <<n, Len(srv.heard) + 1>>)
        /\ Len(srv'.heard) = Len(srv.heard) + 1
    BY <1>5, AudioHeard
  <2>3. srv.heard = [i \in 1 .. Len(srv.heard) |-> <<n, i>>]
    BY <1>2, <1>5, <2>1 DEF AudioInOrder
  <2>4. \A i \in 1 .. Len(srv.heard) + 1 : srv'.heard[i] = <<n, i>>
    BY <1>2, <2>2, <2>3
  <2>5. srv'.heard = [i \in 1 .. Len(srv'.heard) |-> srv'.heard[i]]
    BY <1>2, <2>2
  <2>6. QED
    BY <2>1, <2>2, <2>4, <2>5
<1>6. QED
  BY <1>3, <1>4, <1>5

(* How the audio thread moves on while its recognition runs.               *)
LEMMA ThreadSteps ==
  ASSUME Turning, Next
  PROVE  \/ audio' = "none"
         \/ audio' = audio /\ packet' = packet /\ (audio # "none" => pos' = pos)
         \/ HandleStart /\ ~Settled /\ audio' = "reading" /\ pos' = pos /\ UNCHANGED wireVars
         \/ AudioRead \/ AudioReady \/ AudioLog \/ AudioSend
<1>1. /\ TypeOK /\ OneRecognition /\ NeverCancels /\ ~CancelBegin
  BY NobodyCancels DEF Turning, Known, TakesTurns
<1>2. CASE audio' = "none"
  BY <1>2
<1>3. CASE audio = "none" /\ audio' # "none"
  <2>1. HandleStart /\ ~Settled
    BY <1>3, ThreadStarted
  <2>2. QED
    BY <1>3, <2>1 DEF HandleStart, implVars, audioVars
<1>4. CASE audio # "none" /\ audio' # "none"
  <2>1. CASE PublicCall
    <3>1. ~\E lm \in Lms : RecognizeBegin(lm)
      BY <1>4, NoThreadWhileOpening
    <3>2. QED
      BY <1>1, <2>1, <3>1 DEF PublicCall, RecognizeRefuse, WaitClosed, WaitBegin,
         CloseBegin, DestroyBegin, audioVars, implVars
  <2>2. CASE AppStep
    BY <1>4, <2>2 DEF AppStep, Connect, Opened, SendRequest, Check, Block, Timeout, Stop, Join,
       CloseThrows, Joined, CopyResults, ClearResults, WsClose, JoinNet, audioVars, implVars
  <2>3. CASE NetStep
    <3>1. ~HandleStart
      <4>1. Settled
        BY <1>4 DEF Turning, TurnsInv, OneAudioThread
      <4>2. 1 \in Coming /\ Inbound[1] = handling
        BY <1>1, InboundIs
      <4>3. QED
        BY <4>1, <4>2 DEF Settled, InResponse, HandleStart, Handles, Handling
    <3>2. QED
      BY <1>1, <2>3, <3>1, NobodyCancels DEF NetStep, NetOpen, NetFail, NetClosed, NetExit,
         NetTake, HandleFailure, HandleCreateSession, HandleSetParameters, PushResult,
         FinishResult, EndRecognition, audioVars, implVars
  <2>4. CASE AudioStep
    BY <2>4 DEF AudioStep
  <2>5. CASE World
    BY <2>5 DEF World, audioVars, implVars
  <2>6. QED
    BY <2>1, <2>2, <2>3, <2>4, <2>5 DEF Next
<1>5. QED
  BY <1>2, <1>3, <1>4

(* What is sent to a recognition that runs, and what will be next.         *)
LEMMA StepSent ==
  ASSUME Turning, Next, srv'.rec # 0, conn' = "open"
  PROVE  /\ \A i \in 1 .. Len(c2s') :
              c2s'[i] = Request("SEND_AUDIO", n', Len(srv'.heard) + i)
         /\ ~Settled' => SentAudio' = 0
         /\ Behind'
<1>1. /\ TypeOK /\ srv \in ServerType /\ c2s \in Seq(Requests)
      /\ srv.heard \in Seq(Recogs \X Indices) /\ pos \in 0 .. Packets /\ packet \in Indices
      /\ TurnsInv /\ AudioTrail /\ Len(c2s) \in Nat /\ Len(srv.heard) \in Nat
      /\ Packets \in Nat
  BY Types, BoundsAssumption DEF Turning, Known, TurnsInv, ServerType, TypeOK
<1>2. Len(c2s) \in Nat /\ Len(srv.heard) \in Nat
  BY <1>1
<1>3. CASE srv.rec = 0
  <2>1. c2s' = <<>> /\ srv'.heard = <<>> /\ audio' = "none"
    BY <1>3, ServerStarts
  <2>2. QED
    BY <2>1 DEF SentAudio, Behind
<1>4. CASE srv.rec # 0
  <2>1. /\ n' = n /\ conn = "open" /\ (~Settled' => ~Settled)
        /\ \/ AudioSend /\ srv' = srv
           \/ World /\ ServeAudio
           \/ c2s' = c2s /\ srv'.heard = srv.heard
    BY <1>4, ServerRuns
  <2>2. /\ \A i \in 1 .. Len(c2s) : c2s[i] = Request("SEND_AUDIO", n, Len(srv.heard) + i)
        /\ ~Settled => SentAudio = 0
        /\ Behind
    BY <1>1, <1>4, <2>1 DEF AudioTrail
  <2>3. CASE AudioSend /\ srv' = srv
    <3>1. /\ audio = "sending" /\ impl.source = n /\ Settled
          /\ packet' = packet /\ pos' = pos
          /\ audio' = (IF packet = LastPacket THEN "done" ELSE "reading")
      BY <1>1, <2>3 DEF AudioSend, AudioAt, AudioTrail, TurnsInv, OneAudioThread
    <3>2. c2s' = Append(c2s, Request("SEND_AUDIO", n, packet))
      BY <2>1, <2>3, <3>1 DEF AudioSend, Sent
    <3>3. packet = SentAudio + 1 /\ (packet # LastPacket => packet = pos)
      BY <2>2, <3>1 DEF Behind, NextPacket
    <3>4. Len(c2s') = Len(c2s) + 1 /\ SentAudio' = SentAudio + 1
      <4>1. Request("SEND_AUDIO", n, packet) \in Requests
        BY <1>1, <3>1, ClientRequests
      <4>2. Len(c2s') = Len(c2s) + 1
        BY <1>1, <3>2, <4>1
      <4>3. \A h, k \in Nat : h + (k + 1) = (h + k) + 1
        OBVIOUS
      <4>4. QED
        BY <1>2, <2>3, <4>2, <4>3 DEF SentAudio
    <3>5. \A i \in 1 .. Len(c2s') :
            c2s'[i] = Request("SEND_AUDIO", n', Len(srv'.heard) + i)
      <4>1. TAKE i \in 1 .. Len(c2s')
      <4>2. CASE i = Len(c2s) + 1
        <5>1. c2s'[i] = Request("SEND_AUDIO", n, packet)
          BY <1>1, <3>2, <4>2
        <5>2. packet = Len(srv.heard) + i
          <6>1. \A h, k \in Nat : h + (k + 1) = (h + k) + 1
            OBVIOUS
          <6>2. QED
            BY <1>2, <3>3, <4>2, <6>1 DEF SentAudio
        <5>3. QED
          BY <2>1, <2>3, <5>1, <5>2
      <4>3. CASE i \in 1 .. Len(c2s)
        <5>1. c2s'[i] = c2s[i]
          BY <1>1, <3>2, <4>3
        <5>2. QED
          BY <2>1, <2>2, <2>3, <4>3, <5>1
      <4>4. QED
        BY <1>1, <3>4, <4>2, <4>3
    <3>6. Behind'
      BY <3>1, <3>3, <3>4 DEF Behind
    <3>7. QED
      BY <2>1, <3>1, <3>5, <3>6
  <2>4. CASE World /\ ServeAudio
    <3>1. /\ Len(c2s) > 0 /\ Len(srv'.heard) = Len(srv.heard) + 1 /\ Len(c2s') = Len(c2s) - 1
          /\ \A i \in 1 .. Len(c2s') : i + 1 \in 1 .. Len(c2s) /\ c2s'[i] = c2s[i + 1]
      BY <1>4, <2>4, AudioHeard
    <3>2. SentAudio' = SentAudio
      BY <1>1, <3>1 DEF SentAudio
    <3>3. \A i \in 1 .. Len(c2s') :
            c2s'[i] = Request("SEND_AUDIO", n', Len(srv'.heard) + i)
      <4>1. TAKE i \in 1 .. Len(c2s')
      <4>2. c2s'[i] = Request("SEND_AUDIO", n, Len(srv.heard) + (i + 1))
        BY <2>2, <3>1
      <4>3. Len(srv.heard) + (i + 1) = Len(srv'.heard) + i
        <5>1. \A h, k \in Nat : h + (k + 1) = (h + 1) + k
          OBVIOUS
        <5>2. i \in Nat
          BY <1>2, <3>1
        <5>3. QED
          BY <1>2, <3>1, <5>1, <5>2
      <4>4. QED
        BY <2>1, <4>2, <4>3
    <3>4. UNCHANGED <<audio, packet, pos>>
      BY <2>4 DEF World, audioVars, implVars
    <3>5. Behind'
      BY <2>2, <3>2, <3>4 DEF Behind, NextPacket
    <3>6. QED
      BY <2>1, <2>2, <3>2, <3>3, <3>5
  <2>5. CASE c2s' = c2s /\ srv'.heard = srv.heard
    <3>1. SentAudio' = SentAudio
      BY <2>5 DEF SentAudio
    <3>2. Behind'
      <4>1. CASE audio' = "none"
        BY <4>1 DEF Behind
      <4>2. CASE audio' = audio /\ packet' = packet /\ (audio # "none" => pos' = pos)
        BY <2>2, <3>1, <4>2 DEF Behind, NextPacket
      <4>3. CASE HandleStart /\ ~Settled /\ audio' = "reading" /\ pos' = pos
        BY <1>1, <2>2, <3>1, <4>3 DEF Behind, AudioTrail
      <4>4. CASE AudioRead
        <5>1. pos = SentAudio /\ audio' = "ready"
          BY <2>2, <4>4 DEF AudioRead, AudioAt, Behind
        <5>2. packet' = NoPacket => pos' = SentAudio'
          BY <1>1, <3>1, <4>4, <5>1 DEF AudioRead, NoPacket, LastPacket
        <5>3. packet' # NoPacket => NextPacket'
          BY <1>1, <3>1, <4>4, <5>1 DEF AudioRead, NextPacket, LastPacket
        <5>4. QED
          BY <5>1, <5>2, <5>3 DEF Behind
      <4>5. CASE AudioReady \/ AudioLog
        <5>1. packet' = packet /\ pos' = pos
          BY <4>5 DEF AudioReady, AudioLog, implVars
        <5>2. /\ audio' = "reading" => pos = SentAudio
              /\ audio' = "logging" \/ audio' = "sending" => NextPacket
              /\ audio' \in {"reading", "logging", "sending", "done"}
          BY <2>2, <4>5 DEF AudioReady, AudioLog, AudioAt, Behind
        <5>3. QED
          BY <3>1, <5>1, <5>2 DEF Behind, NextPacket
      <4>6. CASE AudioSend
        <5>1. Len(c2s') = Len(c2s) + 1
          BY <1>1, <2>1, <4>6 DEF AudioSend, Sent
        <5>2. QED
          BY <1>1, <2>5, <5>1
      <4>7. QED
        BY <4>1, <4>2, <4>3, <4>4, <4>5, <4>6, ThreadSteps
    <3>3. QED
      BY <2>1, <2>2, <2>5, <3>1, <3>2
  <2>6. QED
    BY <2>1, <2>3, <2>4, <2>5
<1>5. QED
  BY <1>3, <1>4

LEMMA StepAudioTrail ==
  ASSUME Turning, Next
  PROVE  AudioTrail'
BY StepAskIsLast, StepSourceFresh, StepOwnSource, StepSent DEF AudioTrail

-----------------------------------------------------------------------------
(* The theorems.                                                           *)

LEMMA StepTurnsInv == Turning /\ [Next]_vars => TurnsInv'
<1>1. ASSUME Turning, Next PROVE TurnsInv'
  BY <1>1, StepInItsCall, StepAppSettled, StepOneAudioThread, StepConnectionKnown,
     StepAudioTrail, StepAudioInOrder DEF TurnsInv
<1>2. ASSUME Turning, UNCHANGED vars PROVE TurnsInv'
  <2>1. /\ UNCHANGED <<pc, cont, outcome, n, given, props, impl, pos, net, handling, audio>>
        /\ UNCHANGED <<packet, crashed, conn, c2s, s2c, srv>>
    BY <1>2 DEF vars, appVars, implVars, netVars, audioVars, wireVars
  <2>2. Settled' = Settled
    BY <2>1, SettledSame
  <2>3. /\ Asking' = Asking /\ Stopping' = Stopping /\ Stopped' = Stopped
        /\ Between' = Between
    BY <2>1 DEF Asking, Stopping, Stopped, Between
  <2>4. TurnsInv
    BY <1>2 DEF Turning
  <2>5. InItsCall' /\ AppSettled' /\ OneAudioThread' /\ ConnectionKnown'
    BY <2>1, <2>2, <2>3, <2>4 DEF TurnsInv, InItsCall, AppSettled, OneAudioThread, ConnectionKnown,
       NoTerminate
  <2>6. AudioTrail' /\ AudioInOrder'
    <3>1. Behind' = Behind /\ SentAudio' = SentAudio
      BY <2>1 DEF Behind, NextPacket, SentAudio
    <3>2. QED
      BY <2>1, <2>2, <2>3, <2>4, <3>1 DEF TurnsInv, AudioTrail, AudioInOrder, Asks
  <2>7. QED
    BY <2>5, <2>6 DEF TurnsInv
<1>3. QED
  BY <1>1, <1>2

LEMMA InitTurnsInv == Init => TurnsInv
<1> SUFFICES ASSUME Init PROVE TurnsInv
  OBVIOUS
<1>1. /\ c2s = <<>> /\ s2c = <<>> /\ handling = None /\ srv = NewServer /\ srv.rec = 0
      /\ cont = "construct" /\ pc \in {"idle", "connect"} /\ outcome = "built" /\ n = 0
      /\ conn = "none" /\ net = "none" /\ audio = "none" /\ pos = 0 /\ crashed = FALSE
      /\ impl.status = "connecting" /\ impl.source = 0 /\ impl.lm = "none"
      /\ impl.eptr = FALSE /\ impl.terminate = FALSE /\ impl.recognizing = FALSE
  BY DEF Init, WireInit, NewServer, NewImpl
<1>2. Coming = {1} /\ Inbound[1] = None
  BY <1>1 DEF Coming, Inbound
<1>3. Settled /\ ~Asking /\ ~Stopping /\ ~Stopped
  BY <1>1, <1>2 DEF Settled, Requested, InResponse, None, Asking, Stopping, Stopped
<1>4. InItsCall /\ AppSettled /\ OneAudioThread /\ ConnectionKnown
  BY <1>1, <1>3 DEF InItsCall, AppSettled, OneAudioThread, ConnectionKnown, NoTerminate
<1>5. AudioTrail /\ AudioInOrder
  BY <1>1, <1>3 DEF AudioTrail, AudioInOrder
<1>6. QED
  BY <1>4, <1>5 DEF TurnsInv

(* For a program that takes turns, whatever the connection, the server and *)
(* the scheduler do: threads are stopped and started in turn, a failed     *)
(* connection is known, and what is sent of the audio is what was read.    *)
THEOREM TurnsInvHolds == TakesTurns /\ Spec => []TurnsInv
<1>1. TakesTurns => NeverCancels
  BY DEF TakesTurns
<1>2. ASSUME TakesTurns
      PROVE  TypeOK /\ PreparedInv /\ NoHandlerAfterClose /\ OneRecognition /\ TurnsInv
               /\ [Next]_vars => TurnsInv'
  BY <1>2, StepTurnsInv DEF Turning, Known
<1>3. ASSUME TakesTurns PROVE Spec => []TurnsInv
  BY <1>1, <1>2, <1>3, InitTurnsInv, Typing, PreparedInvHolds, NoHandlerAfterCloseHolds,
     OneRecognitionHolds, PTL DEF Spec
<1>4. QED
  BY <1>3

(* No std::thread of such a program is assigned over, or destroyed with    *)
(* the recognizer, while it is joinable, and no handler throws on the asio *)
(* thread: the process ends in std::terminate only if the close() of an    *)
(* audio source throws in a destructor.                                    *)
THEOREM NoTerminateHolds == TakesTurns /\ Spec => []NoTerminate
<1>1. TurnsInv => NoTerminate
  BY DEF TurnsInv, OneAudioThread, NoTerminate
<1>2. QED
  BY <1>1, TurnsInvHolds, PTL

(* What the server hears of a recognition is a prefix of the source given  *)
(* to that recognize(): no packet missing, repeated, swapped or of another *)
(* recognition, although the thread that sends runs on its own.            *)
THEOREM AudioInOrderHolds == TakesTurns /\ Spec => []AudioInOrder
<1>1. TurnsInv => AudioInOrder
  BY DEF TurnsInv
<1>2. QED
  BY <1>1, TurnsInvHolds, PTL

(* The audio thread of such a program gives up before the last packet only *)
(* while App is joining it, or after the close() of an audio source threw: *)
(* the flag of a stop that ended never meets the next thread.              *)
THEOREM StreamNotAbandonedHolds == TakesTurns /\ Spec => StreamNotAbandoned
<1>1. ASSUME NeverCancels, TypeOK, OneRecognition, TurnsInv, [Next]_vars,
             audio = "ready", audio' = "done"
      PROVE  pc = "join" \/ impl.threw
  <2>1. AudioReady
    BY <1>1, NobodyCancels DEF Next, PublicCall, RecognizeRefuse, RecognizeBegin, WaitClosed,
       WaitBegin, CloseBegin, DestroyBegin, AppStep, Connect, Opened, SendRequest, Check, Block,
       Timeout, Stop, Join, CloseThrows, Joined, CopyResults, ClearResults, WsClose, JoinNet, NetStep,
       NetOpen, NetFail, NetClosed, NetExit, NetTake, HandleFailure, HandleCreateSession,
       HandleSetParameters, HandleStart, PushResult, FinishResult, EndRecognition, AudioStep,
       AudioRead, AudioLog, AudioSend, AudioAt, World, audioVars, vars
  <2>2. impl.terminate
    BY <1>1, <2>1 DEF AudioReady
  <2>3. (pc \in {"join", "joined"} \/ impl.threw) /\ ~Stopped
    BY <1>1, <2>2 DEF TurnsInv, OneAudioThread
  <2>4. QED
    BY <2>3 DEF Stopped
<1>2. TakesTurns => NeverCancels
  BY DEF TakesTurns
<1>3. ASSUME TakesTurns
      PROVE  TypeOK /\ OneRecognition /\ TurnsInv /\ [Next]_vars
               => [audio = "ready" /\ audio' = "done" => pc = "join" \/ impl.threw]_vars
  BY <1>1, <1>2, <1>3
<1>4. ASSUME TakesTurns PROVE Spec => StreamNotAbandoned
  BY <1>2, <1>3, <1>4, Typing, OneRecognitionHolds, TurnsInvHolds, PTL
     DEF Spec, StreamNotAbandoned
<1>5. QED
  BY <1>4

(* A wait that returned with auto-close leaves no connection, no handler   *)
(* and no thread to the next recognition of such a program.                *)
THEOREM AutoCloseLeavesNothingHolds == TakesTurns /\ Spec => []AutoCloseLeavesNothing
<1>1. ASSUME Turning, AutoCloseLeavesNothing, [Next]_vars
      PROVE  AutoCloseLeavesNothing'
  <2>1. SUFFICES ASSUME props'.autoClose, pc' = "idle", cont' \in {"wait", "reset"},
                        outcome' = "results"
                 PROVE  /\ ~impl'.open /\ net' # "run" /\ conn' \in {"none", "closed"}
                        /\ audio' = "none"
    BY DEF AutoCloseLeavesNothing
  <2>2. /\ TypeOK /\ OneRecognition /\ NeverCancels /\ impl \in ImplType /\ ConnectionKnown
        /\ QuietWhenClosed /\ InItsCall /\ OneAudioThread /\ NoHandlerAfterClose
        /\ ~CancelBegin /\ conn \in ConnStates /\ net \in {"none", "run", "done"}
        /\ props \in PropsType
    BY <1>1, NobodyCancels, Types DEF Turning, Known, TurnsInv, TakesTurns, PreparedInv, TypeOK,
       WireTypeOK
  <2>3. CASE WaitClosed
    <3>1. ~impl.eptr /\ ~impl.open /\ pc = "idle" /\ impl'.open = impl.open
          /\ UNCHANGED <<net, conn, audio>>
      BY <2>1, <2>2, <2>3 DEF WaitClosed, Call, At, Return, netVars, wireVars, audioVars, ImplType
    <3>2. net # "run" /\ audio = "none"
      BY <2>2, <3>1 DEF NoHandlerAfterClose, OneAudioThread
    <3>3. conn \in {"none", "closed", "failed"}
      BY <2>2, <3>2 DEF QuietWhenClosed, ConnectionKnown
    <3>4. conn # "failed"
      BY <2>2, <3>1 DEF ConnectionKnown, InItsCall, Stopping
    <3>5. QED
      BY <3>1, <3>2, <3>3, <3>4
  <2>4. CASE ClearResults
    <3>1. pc = "clear" /\ props' = props /\ Stopping
      BY <2>4 DEF ClearResults, At, Stopping
    <3>2. impl.open
      BY <1>1, <3>1 DEF Turning, TurnsInv, AppSettled
    <3>3. QED
      BY <2>1, <2>4, <3>1, <3>2 DEF ClearResults, Return
  <2>5. CASE JoinNet
    BY <2>1, <2>5 DEF JoinNet, Return, NewImpl, audioVars
  <2>6. CASE (PublicCall \/ AppStep) /\ ~WaitClosed /\ ~ClearResults /\ ~JoinNet
    BY <2>1, <2>2, <2>6 DEF PublicCall, RecognizeRefuse, RecognizeBegin, WaitBegin, CloseBegin,
       DestroyBegin, AppStep, Connect, Opened, SendRequest, Check, Block, Timeout, Stop, Join,
       CloseThrows, Joined, CopyResults, WsClose, Call, At, Return, AfterWait, InItsCall, Stopping
  <2>7. CASE NetStep \/ AudioStep \/ World
    <3>1. pc = "idle" /\ UNCHANGED <<cont, outcome, props>> /\ impl'.open = impl.open
      BY <1>1, <2>1, <2>7, OthersLeave
    <3>2. ~impl.open /\ net # "run" /\ conn \in {"none", "closed"} /\ audio = "none"
      BY <1>1, <2>1, <3>1 DEF AutoCloseLeavesNothing
    <3>3. handling = None
      BY <2>2, <3>2 DEF QuietWhenClosed
    <3>4. ~NetStep
      BY <3>2, <3>3 DEF NetStep, NetOpen, NetFail, NetClosed, NetExit, NetTake, NetUp,
         HandleFailure, HandleCreateSession, HandleSetParameters, HandleStart, HandleCancel,
         PushResult, FinishResult, HandleCanceled, Handles, Handling, None
    <3>5. ~AudioStep
      BY <3>2 DEF AudioStep, AudioRead, AudioReady, AudioLog, AudioSend, AudioAt
    <3>6. ~World
      BY <3>2 DEF World, ServerStep, ServeRequest, ServeCancel, ServeAudio, ServeResult, Drop
    <3>7. QED
      BY <2>7, <3>4, <3>5, <3>6
  <2>8. CASE UNCHANGED vars
    BY <1>1, <2>1, <2>8 DEF AutoCloseLeavesNothing, vars, appVars, implVars, netVars, audioVars,
       wireVars
  <2>9. QED
    BY <1>1, <2>3, <2>4, <2>5, <2>6, <2>7, <2>8 DEF Next
<1>2. TakesTurns => NeverCancels
  BY DEF TakesTurns
<1>3. ASSUME TakesTurns
      PROVE  TypeOK /\ PreparedInv /\ NoHandlerAfterClose /\ OneRecognition /\ TurnsInv
               /\ AutoCloseLeavesNothing /\ [Next]_vars => AutoCloseLeavesNothing'
  BY <1>1, <1>3 DEF Turning, Known
<1>4. Init => AutoCloseLeavesNothing
  BY DEF Init, AutoCloseLeavesNothing
<1>5. ASSUME TakesTurns PROVE Spec => []AutoCloseLeavesNothing
  BY <1>2, <1>3, <1>4, <1>5, Typing, PreparedInvHolds, NoHandlerAfterCloseHolds,
     OneRecognitionHolds, TurnsInvHolds, PTL DEF Spec
<1>6. QED
  BY <1>5
=============================================================================
