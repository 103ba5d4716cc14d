--------------------------- MODULE ServiceProofs ---------------------------
(***************************************************************************)
(* A program that never cancels sees a RecognitionService: Recognizer      *)
(* implements it, for every value of the constants.                        *)
(***************************************************************************)
EXTENDS RecognitionProofs

(* What is to be heard of a recognition.                                   *)
AnswerComing == \E i \in Coming : InAnswer(i)

(***************************************************************************)
(* A recognition that the server has ended has its last result among those *)
(* that are to come: why one is heard only while its recognition is served *)
(* or answered.                                                            *)
(***************************************************************************)
EndedByLast == srv.rec = 0 /\ AnswerComing => LastComing

-----------------------------------------------------------------------------
(* What a step changes of the messages to come.                            *)

(* A step that takes and handles none.                                     *)
LEMMA AnswersSame ==
  ASSUME UNCHANGED <<s2c, handling>>
  PROVE  AnswerComing' = AnswerComing /\ LastComing' = LastComing
<1>1. Inbound' = Inbound /\ Coming' = Coming
  BY DEF Inbound, Coming
<1>2. QED
  BY <1>1 DEF AnswerComing, LastComing, InAnswer, InSeg

(* A handler that is done with anything but a result.                      *)
LEMMA AnswersStay ==
  ASSUME TypeOK, UNCHANGED s2c, handling' = None,
         handling.kind \notin {"RESULT", "PUSHED"}
  PROVE  AnswerComing' = AnswerComing /\ LastComing' = LastComing
<1>1. /\ Coming' = Coming /\ 1 \in Coming
      /\ Inbound[1] = handling /\ Inbound'[1] = None
      /\ \A i \in Coming : i # 1 => Inbound'[i] = Inbound[i]
  BY InboundHandled
<1>2. ~InAnswer(1) /\ ~InAnswer(1)'
  BY <1>1 DEF InAnswer, None
<1>3. \A i \in Coming : InAnswer(i)' = InAnswer(i)
  BY <1>1, <1>2 DEF InAnswer
<1>4. \A i \in Coming : InAnswer(i) => InSeg(i)' = InSeg(i)
  BY <1>1, <1>2 DEF InSeg
<1>5. QED
  BY <1>1, <1>3, <1>4 DEF AnswerComing, LastComing

(* The next message is taken when none is being handled.                   *)
LEMMA AnswersTaken ==
  ASSUME TypeOK, NetTake
  PROVE  AnswerComing' = AnswerComing /\ LastComing' = LastComing
<1>1. s2c # <<>> /\ handling = None /\ handling' = Head(s2c) /\ s2c' = Tail(s2c)
  BY DEF NetTake
<1>2. \A i \in Coming' : i \in Nat /\ i + 1 \in Coming /\ Inbound'[i] = Inbound[i + 1]
  BY <1>1, InboundTaken
<1>3. \A i \in Coming : i # 1 => /\ i - 1 \in Coming'
                                 /\ Inbound'[i - 1] = Inbound[i]
  <2>1. s2c \in Seq(Messages) /\ s2c' \in Seq(Messages) /\ Len(s2c') = Len(s2c) - 1
    BY <1>1, Types
  <2>2. Coming = 1 .. Len(s2c) + 1 /\ Coming' = 1 .. Len(s2c)
    BY <1>1, <2>1, InboundIs, InFront DEF Coming, Inbound
  <2>3. ASSUME NEW i \in Coming, i # 1
        PROVE  i - 1 \in Coming' /\ (i - 1) + 1 = i
    BY <2>1, <2>2, <2>3
  <2>4. QED
    BY <1>2, <2>3
<1>4. ~InAnswer(1)
  BY <1>1, InboundIs DEF InAnswer, None
<1>5. \A i \in Coming' : InAnswer(i)' = InAnswer(i + 1) /\ InSeg(i)' = InSeg(i + 1)
  BY <1>2 DEF InAnswer, InSeg
<1>6. \A i \in Coming : i # 1 => InAnswer(i - 1)' = InAnswer(i) /\ InSeg(i - 1)' = InSeg(i)
  BY <1>3 DEF InAnswer, InSeg
<1>7. AnswerComing' = AnswerComing
  BY <1>2, <1>3, <1>4, <1>5, <1>6 DEF AnswerComing
<1>8. LastComing' = LastComing
  BY <1>2, <1>3, <1>4, <1>5, <1>6 DEF LastComing
<1>9. QED
  BY <1>7, <1>8

-----------------------------------------------------------------------------
(* Steps that the program does not see.                                    *)

(* A step that leaves the recognition, its results and its place alone.    *)
LEMMA Unseen ==
  ASSUME UNCHANGED <<n, given>>, srv'.rec = srv.rec,
         impl'.recognizing = impl.recognizing, Kept' = Kept,
         LastComing' = LastComing
  PROVE  UNCHANGED Service!vars
<1>1. Phase' = Phase
  BY DEF Phase
<1>2. QED
  BY <1>1 DEF Service!vars

(* App's steps that only move App, or its connection.                      *)
LEMMA AppUnseen ==
  ASSUME TypeOK,
         \/ RecognizeRefuse \/ WaitBegin \/ CloseBegin \/ DestroyBegin
         \/ Connect \/ Opened \/ Check \/ Block \/ Timeout
         \/ Stop \/ Join \/ CloseThrows \/ Joined \/ WsClose \/ SendRequest
  PROVE  /\ UNCHANGED Service!vars /\ srv'.rec = srv.rec
         /\ AnswerComing' = AnswerComing /\ LastComing' = LastComing
<1>1. impl \in ImplType
  BY Types
<1>2. /\ UNCHANGED <<s2c, srv, handling, n, given>>
      /\ impl'.recognizing = impl.recognizing /\ impl'.result = impl.result
  <2>1. CASE RecognizeRefuse \/ WaitBegin \/ CloseBegin \/ DestroyBegin
    BY <1>1, <2>1 DEF RecognizeRefuse, WaitBegin, CloseBegin, DestroyBegin, implVars,
       netVars, wireVars
  <2>2. CASE Connect \/ Opened \/ Check \/ Block \/ Timeout
    BY <1>1, <2>2 DEF Connect, Opened, Check, Block, Timeout, ImplType, implVars,
       netVars, wireVars
  <2>3. CASE Stop \/ Join \/ CloseThrows \/ Joined \/ WsClose \/ SendRequest
    BY <1>1, <2>3 DEF Stop, Join, CloseThrows, Joined, WsClose, SendRequest, ImplType, implVars,
       netVars, wireVars
  <2>4. QED
    BY <2>1, <2>2, <2>3
<1>3. pc # "clear" /\ pc' # "clear"
  <2>1. CASE RecognizeRefuse \/ WaitBegin \/ CloseBegin \/ DestroyBegin
    BY <2>1 DEF RecognizeRefuse, WaitBegin, CloseBegin, DestroyBegin, Call, At, Return
  <2>2. CASE Connect \/ Opened \/ Check \/ Block \/ Timeout
    BY <2>2 DEF Connect, Opened, Check, Block, Timeout, At, Return, AfterWait
  <2>3. CASE Stop \/ Join \/ CloseThrows \/ Joined \/ WsClose \/ SendRequest
    BY <2>3 DEF Stop, Join, CloseThrows, Joined, WsClose, SendRequest, At, Return
  <2>4. QED
    BY <2>1, <2>2, <2>3
<1>4. Kept' = Kept
  BY <1>2, <1>3 DEF Kept
<1>5. AnswerComing' = AnswerComing /\ LastComing' = LastComing
  BY <1>2, AnswersSame
<1>6. QED
  BY <1>2, <1>4, <1>5, Unseen

(* What goes on under App: the connection, the audio, a lost connection,   *)
(* and the server that hears audio.                                        *)
LEMMA RestUnseen ==
  ASSUME TypeOK,
         \/ NetOpen \/ NetFail \/ NetClosed \/ NetExit
         \/ AudioRead \/ AudioReady \/ AudioLog \/ AudioSend
         \/ World /\ Drop
         \/ World /\ ServeAudio
  PROVE  /\ UNCHANGED Service!vars /\ srv'.rec = srv.rec
         /\ AnswerComing' = AnswerComing /\ LastComing' = LastComing
<1>1. impl \in ImplType /\ srv \in ServerType
  BY Types
<1>2. /\ UNCHANGED <<s2c, handling, n, given>> /\ srv'.rec = srv.rec
      /\ impl'.recognizing = impl.recognizing /\ impl'.result = impl.result
  <2>1. CASE NetOpen \/ NetFail \/ NetClosed \/ NetExit
    BY <1>1, <2>1 DEF NetOpen, NetFail, NetClosed, NetExit, ImplType, appVars, implVars,
       netVars, wireVars
  <2>2. CASE AudioRead \/ AudioReady \/ AudioLog \/ AudioSend
    BY <1>1, <2>2 DEF AudioRead, AudioReady, AudioLog, AudioSend, ImplType, appVars,
       implVars, netVars, wireVars
  <2>3. CASE World /\ Drop
    BY <2>3 DEF World, Drop, appVars, implVars, netVars
  <2>4. CASE World /\ ServeAudio
    BY <1>1, <2>4 DEF World, ServeAudio, ServerType, appVars, implVars, netVars
  <2>5. QED
    BY <2>1, <2>2, <2>3, <2>4
<1>3. pc' = pc \/ (pc = "blocked" /\ pc' = "check")
  BY DEF NetOpen, NetFail, NetClosed, NetExit, AudioRead, AudioReady, AudioLog,
     AudioSend, World, Drop, ServeAudio, Notify, appVars
<1>4. Kept' = Kept
  BY <1>2, <1>3 DEF Kept
<1>5. AnswerComing' = AnswerComing /\ LastComing' = LastComing
  BY <1>2, AnswersSame
<1>6. QED
  BY <1>2, <1>4, <1>5, Unseen

(* The handlers of responses, and the taking of a message.                 *)
LEMMA NetUnseen ==
  ASSUME TypeOK,
         \/ NetTake \/ HandleFailure \/ HandleStart
         \/ HandleCreateSession \/ HandleSetParameters
  PROVE  /\ UNCHANGED Service!vars /\ srv'.rec = srv.rec
         /\ AnswerComing' = AnswerComing /\ LastComing' = LastComing
<1>1. impl \in ImplType
  BY Types
<1>2. CASE NetTake
  <2>1. UNCHANGED <<srv, n, given, impl, pc>>
    BY <1>2 DEF NetTake, appVars, implVars
  <2>2. Kept' = Kept
    BY <2>1 DEF Kept
  <2>3. QED
    BY <1>2, <2>1, <2>2, AnswersTaken, Unseen
<1>3. CASE \/ HandleFailure \/ HandleStart
           \/ HandleCreateSession \/ HandleSetParameters
  <2>1. /\ UNCHANGED <<s2c, srv, n, given>> /\ handling' = None
        /\ handling.kind = "RESPONSE"
    BY <1>3 DEF HandleFailure, HandleStart, HandleCreateSession, HandleSetParameters,
       Handles, Handling, appVars, implVars, wireVars
  <2>2. impl'.recognizing = impl.recognizing /\ impl'.result = impl.result
    BY <1>1, <1>3 DEF HandleFailure, HandleStart, HandleCreateSession,
       HandleSetParameters, NetStart, ImplType, implVars
  <2>3. pc' = pc \/ (pc = "blocked" /\ pc' = "check")
    BY <1>3 DEF HandleFailure, HandleStart, HandleCreateSession, HandleSetParameters,
       NetStart, Notify, appVars
  <2>4. Kept' = Kept
    BY <2>2, <2>3 DEF Kept
  <2>5. AnswerComing' = AnswerComing /\ LastComing' = LastComing
    BY <2>1, AnswersStay
  <2>6. QED
    BY <2>1, <2>2, <2>4, <2>5, Unseen
<1>4. QED
  BY <1>2, <1>3

-----------------------------------------------------------------------------
(* Steps that the program sees.                                            *)

(* recognize() is accepted: the server has nothing to do, and nothing is   *)
(* on its way back.                                                        *)
LEMMA BeginServes ==
  ASSUME TypeOK, OneRecognition, NEW lm \in Lms, RecognizeBegin(lm)
  PROVE  /\ Service!Begin
         /\ srv'.rec = srv.rec /\ AnswerComing' = AnswerComing
         /\ LastComing' = LastComing
<1>1. /\ UNCHANGED <<s2c, srv, handling>> /\ pc' # "clear"
      /\ n' = n + 1 /\ n < MaxRecog /\ given' = <<>> /\ ~impl.recognizing
  BY DEF RecognizeBegin, netVars, wireVars
<1>2. impl'.result = <<>> /\ impl'.recognizing
  BY Types DEF RecognizeBegin, ImplType
<1>3. AnswerComing' = AnswerComing /\ LastComing' = LastComing
  BY <1>1, AnswersSame
<1>4. srv.rec = 0 /\ ~AnswerComing
  BY <1>1 DEF OneRecognition, NothingWhenIdle, AnswerComing
<1>5. ~LastComing
  BY <1>4 DEF LastComing, AnswerComing
<1>6. Phase = "idle" /\ Phase' = "asked" /\ Kept' = <<>>
  BY <1>1, <1>2, <1>3, <1>4, <1>5 DEF Phase, Kept
<1>7. QED
  BY <1>1, <1>3, <1>6 DEF Service!Begin

(* A wait hands out what is stored or throws, and drops it: with no         *)
(* connection at once, otherwise in two steps.                             *)
LEMMA WaitServes ==
  ASSUME TypeOK, WaitClosed \/ CopyResults \/ ClearResults
  PROVE  /\ [Service!Take]_(Service!vars) /\ srv'.rec = srv.rec
         /\ AnswerComing' = AnswerComing /\ LastComing' = LastComing
<1>1. impl \in ImplType
  BY Types
<1>2. /\ UNCHANGED <<s2c, srv, handling, n>>
      /\ impl'.recognizing = impl.recognizing
  BY <1>1 DEF WaitClosed, CopyResults, ClearResults, ImplType, implVars, netVars, wireVars
<1>3. AnswerComing' = AnswerComing /\ LastComing' = LastComing
  BY <1>2, AnswersSame
<1>4. Phase' = Phase
  BY <1>2, <1>3 DEF Phase
<1>5. CASE WaitClosed \/ CopyResults
  <2>1. pc # "clear" /\ Kept = impl.result
    BY <1>5 DEF WaitClosed, CopyResults, Call, At, Kept
  <2>2. Kept' = <<>>
    BY <1>1, <1>5 DEF WaitClosed, CopyResults, ImplType, Kept
  <2>3. given' \in {given, given \o impl.result}
    BY <1>5 DEF WaitClosed, CopyResults
  <2>4. Service!Take
    BY <1>2, <1>4, <2>1, <2>2, <2>3 DEF Service!Take
  <2>5. QED
    BY <1>2, <1>3, <2>4
<1>6. CASE ClearResults
  <2>1. Kept = <<>> /\ UNCHANGED given
    BY <1>6 DEF ClearResults, At, Kept
  <2>2. impl'.result = <<>>
    BY <1>1, <1>6 DEF ClearResults, ImplType
  <2>3. Kept' = <<>>
    BY <2>2 DEF Kept
  <2>4. QED
    BY <1>2, <1>3, <2>1, <2>3, Unseen
<1>7. QED
  BY <1>5, <1>6

(* The asio thread is joined: resetImpl forgets the connection with all    *)
(* that was on it, the other methods leave everything but the thread.      *)
LEMMA JoinNetServes ==
  ASSUME TypeOK, PreparedInv, JoinNet
  PROVE  \/ /\ UNCHANGED Service!vars /\ srv'.rec = srv.rec
            /\ AnswerComing' = AnswerComing /\ LastComing' = LastComing
         \/ Service!Reset /\ ~AnswerComing'
<1>1. impl \in ImplType
  BY Types
<1>2. pc = "joinNet" /\ pc' # "clear" /\ UNCHANGED <<n, given, handling>>
  BY DEF JoinNet, At, Return
<1>3. CASE ~(cont = "reset" /\ audio = "none")
  <2>1. /\ UNCHANGED <<s2c, srv, handling>>
        /\ impl'.recognizing = impl.recognizing /\ impl'.result = impl.result
    BY <1>1, <1>2, <1>3 DEF JoinNet, ImplType
  <2>2. Kept' = Kept
    BY <1>2, <2>1 DEF Kept
  <2>3. AnswerComing' = AnswerComing /\ LastComing' = LastComing
    BY <2>1, AnswersSame
  <2>4. QED
    BY <1>2, <2>1, <2>2, <2>3, Unseen
<1>4. CASE cont = "reset" /\ audio = "none"
  <2>1. /\ s2c' = <<>> /\ srv'.rec = 0
        /\ ~impl'.recognizing /\ impl'.result = <<>> /\ net = "done"
    BY <1>4 DEF JoinNet, NewImpl, NewServer
  <2>2. handling' = None
    BY <1>2, <2>1 DEF PreparedInv, QuietWhenClosed
  <2>3. \A i \in Coming' : Inbound'[i] = None
    BY <2>1, <2>2 DEF Coming, Inbound
  <2>4. ~AnswerComing'
    BY <2>3 DEF AnswerComing, InAnswer, None
  <2>5. ~LastComing'
    BY <2>4 DEF LastComing, AnswerComing
  <2>6. Phase' = "idle" /\ Kept' = <<>>
    BY <2>1, <2>5 DEF Phase, Kept
  <2>7. QED
    BY <1>2, <2>4, <2>6 DEF Service!Reset
<1>5. QED
  BY <1>3, <1>4

(* A result is stored: it is of this recognition and later than all that    *)
(* were, and the server runs the recognition or has sent its last result.   *)
LEMMA PushServes ==
  ASSUME TypeOK, OneRecognition, EndedByLast, PushResult
  PROVE  [Service!Hear]_(Service!vars) /\ EndedByLast'
<1> DEFINE x == [rec |-> handling.rec, seg |-> handling.seg]
<1>1. /\ UNCHANGED <<pc, n, given, s2c, srv>> /\ handling.kind = "RESULT"
      /\ handling' = IF handling.seg = Segments THEN Pushed ELSE None
  BY DEF PushResult, Handling, appVars, wireVars
<1>2. impl'.recognizing = impl.recognizing /\ impl'.result = Append(impl.result, x)
  BY Types DEF PushResult, ImplType
<1>3. handling.seg \in 1 .. Segments
  BY <1>1, Types DEF Messages, Responses, Results, Canceleds, None, Pushed
<1>4. /\ Coming' = Coming /\ 1 \in Coming
      /\ Inbound[1] = handling /\ Inbound'[1] = handling'
      /\ \A i \in Coming : i # 1 => Inbound'[i] = Inbound[i]
  BY <1>1, InboundHandled
<1>5. InAnswer(1) /\ InSeg(1) = handling.seg
  BY <1>1, <1>4 DEF InAnswer, InSeg
<1>6. AnswerComing
  BY <1>4, <1>5 DEF AnswerComing
<1>7. handling.rec = n /\ \A y \in Stored : y.seg < handling.seg
  BY <1>1, <1>4 DEF OneRecognition, LaterSegments
<1>8. LastComing' = LastComing
  <2>1. \A i \in Coming : i # 1 => InAnswer(i)' = InAnswer(i) /\ InSeg(i)' = InSeg(i)
    BY <1>4 DEF InAnswer, InSeg
  <2>2. (InAnswer(1)' /\ InSeg(1)' = Segments) = (handling.seg = Segments)
    BY <1>1, <1>4 DEF InAnswer, InSeg, None, Pushed
  <2>3. (InAnswer(1)' /\ InSeg(1)' = Segments) = (InAnswer(1) /\ InSeg(1) = Segments)
    BY <1>5, <2>2
  <2>4. \A i \in Coming : (InAnswer(i)' /\ InSeg(i)' = Segments)
                         = (InAnswer(i) /\ InSeg(i) = Segments)
    BY <2>1, <2>3
  <2>5. QED
    BY <1>4, <2>4 DEF LastComing
<1>9. EndedByLast'
  BY <1>1, <1>6, <1>8 DEF EndedByLast
<1>10. Phase' = Phase /\ Phase \in {"served", "answered"}
  BY <1>1, <1>2, <1>6, <1>8 DEF Phase, EndedByLast
<1>11. CASE pc = "clear"
  <2>1. Kept' = Kept
    BY <1>1, <1>11 DEF Kept
  <2>2. QED
    BY <1>1, <1>2, <1>8, <1>9, <2>1, Unseen
<1>12. CASE pc # "clear"
  <2>1. Kept = impl.result /\ Kept' = Append(impl.result, x)
    BY <1>1, <1>2, <1>12 DEF Kept
  <2>2. x = [rec |-> n, seg |-> handling.seg]
    BY <1>7
  <2>3. Service!Heard = Stored
    BY <2>1 DEF Service!Heard, Stored
  <2>4. Service!Hear
    BY <1>1, <1>3, <1>7, <1>10, <2>1, <2>2, <2>3 DEF Service!Hear
  <2>5. QED
    BY <1>9, <2>4
<1>13. QED
  BY <1>11, <1>12

(* The last result is told: nothing else is to come.                       *)
LEMMA FinishServes ==
  ASSUME TypeOK, OneRecognition, FinishResult
  PROVE  Service!End /\ ~AnswerComing'
<1>1. /\ UNCHANGED <<s2c, srv, n, given>> /\ handling' = None
      /\ handling.kind = "PUSHED"
      /\ pc' = pc \/ (pc = "blocked" /\ pc' = "check")
  BY DEF FinishResult, EndRecognition, Handling, Notify, wireVars
<1>2. impl'.recognizing = FALSE /\ impl'.result = impl.result
  BY Types DEF FinishResult, ImplType
<1>3. /\ Coming' = Coming /\ 1 \in Coming /\ Coming \subseteq Nat \ {0}
      /\ Inbound[1] = handling /\ Inbound'[1] = None
      /\ \A i \in Coming : i # 1 => Inbound'[i] = Inbound[i]
  BY <1>1, InboundHandled
<1>4. InAnswer(1) /\ InSeg(1) = Segments
  BY <1>1, <1>3 DEF InAnswer, InSeg
<1>5. \A i \in Coming : InAnswer(i) => i = 1
  <2> SUFFICES ASSUME NEW i \in Coming, InAnswer(i), i # 1 PROVE FALSE
    OBVIOUS
  <2>1. 1 < i
    BY <1>3
  <2>2. InSeg(1) < InSeg(i)
    BY <1>3, <1>4, <2>1 DEF OneRecognition, InboundInOrder
  <2>3. InSeg(i) \in 1 .. Segments
    BY InboundIs, BoundsAssumption DEF InSeg, InAnswer, Messages, Responses, Results,
       Canceleds, None, Pushed
  <2>4. QED
    BY <1>4, <2>2, <2>3, BoundsAssumption
<1>6. ~AnswerComing'
  BY <1>3, <1>5 DEF AnswerComing, InAnswer, None
<1>7. ~LastComing'
  BY <1>6 DEF LastComing, AnswerComing
<1>8. srv.rec = 0
  <2>1. srv.rec # 0 => Segments < srv.seg
    BY <1>3, <1>4 DEF OneRecognition, LaterSegments
  <2>2. srv.seg \in 1 .. Segments
    BY Types DEF ServerType
  <2>3. QED
    BY <2>1, <2>2, BoundsAssumption
<1>9. LastComing
  BY <1>3, <1>4 DEF LastComing
<1>10. Phase = "answered" /\ Phase' = "idle"
  BY <1>1, <1>2, <1>7, <1>8, <1>9 DEF Phase
<1>11. Kept' = Kept
  BY <1>1, <1>2 DEF Kept
<1>12. QED
  BY <1>1, <1>6, <1>10, <1>11 DEF Service!End

(* The server gives a result; after the last one it has none to run.       *)
LEMMA ResultServes ==
  ASSUME TypeOK, World, ServeResult
  PROVE  [Service!Answer]_(Service!vars) /\ EndedByLast'
<1> DEFINE r == Result(srv.rec, srv.seg)
<1>1. /\ UNCHANGED <<pc, n, given, impl, handling>>
      /\ s2c' = Append(s2c, r) /\ srv.rec # 0
  BY DEF World, ServeResult, appVars, implVars, netVars
<1>2. /\ r.kind = "RESULT" /\ r.seg = srv.seg
  BY DEF Result
<1> HIDE DEF r
<1>3. Kept' = Kept /\ Phase = "served"
  BY <1>1 DEF Kept, Phase
<1>4. CASE srv.seg = Segments
  <2>1. srv'.rec = 0
    BY <1>4, Types DEF World, ServeResult, ServerType
  <2>2. Len(s2c) + 2 \in Coming' /\ Inbound'[Len(s2c) + 2] = r
    <3>1. s2c \in Seq(Messages) /\ s2c' \in Seq(Messages)
      BY Types DEF TypeOK, WireTypeOK, World, ServeResult, Result, Messages, Results,
         ServerType
    <3>2. Len(s2c') = Len(s2c) + 1 /\ s2c'[Len(s2c) + 1] = r
      BY <1>1, <3>1
    <3>3. QED
      BY <3>1, <3>2, InFront DEF Coming, Inbound
  <2>3. LastComing'
    BY <1>2, <1>4, <2>2 DEF LastComing, InAnswer, InSeg
  <2>4. Phase' = "answered"
    BY <2>1, <2>3 DEF Phase
  <2>5. QED
    BY <1>1, <1>3, <2>3, <2>4 DEF Service!Answer, EndedByLast
<1>5. CASE srv.seg # Segments
  <2>1. srv'.rec = srv.rec
    BY <1>5, Types DEF World, ServeResult, ServerType
  <2>2. Phase' = Phase
    BY <1>1, <2>1 DEF Phase
  <2>3. QED
    BY <1>1, <1>3, <2>1, <2>2 DEF Service!vars, EndedByLast
<1>6. QED
  BY <1>4, <1>5

(* The server does, or refuses, what it is asked for: a recognition that it *)
(* takes up is the present one, and nothing was heard of it.               *)
LEMMA RequestServes ==
  ASSUME TypeOK, OneRecognition, World, ServeRequest
  PROVE  [Service!Serve]_(Service!vars) /\ EndedByLast'
<1>1. /\ UNCHANGED <<pc, n, given, impl, handling>>
      /\ c2s # <<>> /\ Head(c2s).method \in Methods
  BY DEF World, ServeRequest, appVars, implVars, netVars
<1>2. PICK m \in Requests : m = Head(c2s)
  BY <1>1, Types
<1>3. PICK r \in Messages : s2c' = Append(s2c, r) /\ r.kind = "RESPONSE"
  <2>1. \A b \in BOOLEAN : /\ Response(m.method, b) \in Messages
                           /\ Response(m.method, b).kind = "RESPONSE"
    BY <1>1, <1>2 DEF Response, Responses, Messages
  <2>2. \E b \in BOOLEAN : s2c' = Append(s2c, Response(m.method, b))
    BY <1>2 DEF World, ServeRequest
  <2>3. QED
    BY <2>1, <2>2
<1>4. Requested /\ Preparing
  <2>1. 1 \in 1 .. Len(c2s) /\ c2s[1] = m
    BY <1>1, <1>2, Types
  <2>2. QED
    BY <1>1, <1>2, <2>1 DEF Requested, Preparing, Asks, Methods
<1>5. srv.rec = 0 /\ Stored = {} /\ impl.recognizing /\ ~AnswerComing
  BY <1>4, Types DEF OneRecognition, FreshStart, NothingWhenIdle, AnswerComing, ImplType
<1>6. ~LastComing
  BY <1>5 DEF LastComing, AnswerComing
<1>7. ~AnswerComing'
  <2>1. \A i \in Coming' :
          \/ i \in Coming /\ Inbound'[i] = Inbound[i]
          \/ Inbound'[i] = r /\ i \notin Coming /\ \A j \in Coming : j < i
    BY <1>1, <1>3, InboundArrived
  <2>2. QED
    BY <1>3, <1>5, <2>1 DEF AnswerComing, InAnswer
<1>8. ~LastComing'
  BY <1>7 DEF LastComing, AnswerComing
<1>9. Kept' = Kept
  BY <1>1 DEF Kept
<1>10. EndedByLast'
  BY <1>7 DEF EndedByLast
<1>11. CASE srv'.rec = 0
  <2>1. srv'.rec = srv.rec /\ impl'.recognizing = impl.recognizing
    BY <1>1, <1>5, <1>11
  <2>2. LastComing' = LastComing
    BY <1>6, <1>8 DEF LastComing
  <2>3. UNCHANGED Service!vars
    BY <1>1, <1>9, <2>1, <2>2, Unseen
  <2>4. QED
    BY <1>10, <2>3
<1>12. CASE srv'.rec # 0
  <2>1. Phase = "asked" /\ Phase' = "served"
    BY <1>5, <1>6, <1>12 DEF Phase
  <2>2. Service!Heard = {}
    <3>1. Len(given) = 0 /\ Len(impl.result) = 0
      <4>1. Len(given) \in Nat /\ Len(impl.result) \in Nat
        BY Types
      <4>2. (Len(given) # 0 => 1 \in 1 .. Len(given))
            /\ (Len(impl.result) # 0 => 1 \in 1 .. Len(impl.result))
        BY <4>1
      <4>3. QED
        BY <1>5, <4>2 DEF Stored
    <3>2. Len(Kept) = 0
      BY <3>1 DEF Kept
    <3>3. QED
      BY <3>1, <3>2 DEF Service!Heard
  <2>3. QED
    BY <1>1, <1>9, <1>10, <2>1, <2>2 DEF Service!Serve
<1>13. QED
  BY <1>11, <1>12

-----------------------------------------------------------------------------
(* A recognizer that was just constructed has nothing to do.               *)
LEMMA InitServes == Init => Service!Init /\ EndedByLast
<1> SUFFICES ASSUME Init PROVE Service!Init /\ EndedByLast
  OBVIOUS
<1>1. /\ s2c = <<>> /\ handling = None /\ srv.rec = 0 /\ n = 0 /\ given = <<>>
      /\ impl.result = <<>> /\ ~impl.recognizing
  BY DEF Init, WireInit, NewServer, NewImpl
<1>2. \A i \in Coming : Inbound[i] = None
  BY <1>1 DEF Coming, Inbound
<1>3. ~AnswerComing
  BY <1>2 DEF AnswerComing, InAnswer, None
<1>4. ~LastComing
  BY <1>3 DEF LastComing, AnswerComing
<1>5. Phase = "idle" /\ Kept = <<>>
  BY <1>1, <1>4 DEF Phase, Kept
<1>6. QED
  BY <1>1, <1>3, <1>5 DEF Service!Init, EndedByLast

(* A step that changes neither what is to come nor the server's            *)
(* recognition.                                                            *)
LEMMA EndedByLastSame ==
  ASSUME EndedByLast, srv'.rec = srv.rec, AnswerComing' = AnswerComing,
         LastComing' = LastComing
  PROVE  EndedByLast'
BY DEF EndedByLast

(* Every step of the recognizer is one of the service, or not seen.        *)
LEMMA StepServes ==
  ASSUME NeverCancels, TypeOK, PreparedInv, OneRecognition, EndedByLast, [Next]_vars
  PROVE  [Service!Next]_(Service!vars) /\ EndedByLast'
<1>1. CASE UNCHANGED vars
  <2>1. UNCHANGED <<s2c, srv, handling, n, given, impl, pc>>
    BY <1>1 DEF vars, appVars, implVars, netVars, wireVars
  <2>2. Kept' = Kept
    BY <2>1 DEF Kept
  <2>3. QED
    BY <2>1, <2>2, AnswersSame, Unseen, EndedByLastSame
<1>2. CASE \/ RecognizeRefuse \/ WaitBegin \/ CloseBegin \/ DestroyBegin
           \/ Connect \/ Opened \/ Check \/ Block \/ Timeout
           \/ Stop \/ Join \/ CloseThrows \/ Joined \/ WsClose \/ SendRequest
  BY <1>2, AppUnseen, EndedByLastSame
<1>3. CASE \E lm \in Lms : RecognizeBegin(lm)
  BY <1>3, BeginServes, EndedByLastSame DEF Service!Next
<1>4. CASE WaitClosed \/ CopyResults \/ ClearResults
  BY <1>4, WaitServes, EndedByLastSame DEF Service!Next
<1>5. CASE JoinNet
  <2>1. CASE Service!Reset /\ ~AnswerComing'
    BY <2>1 DEF Service!Next, EndedByLast
  <2>2. QED
    BY <1>5, <2>1, JoinNetServes, EndedByLastSame
<1>6. CASE \/ NetTake \/ HandleFailure \/ HandleStart
           \/ HandleCreateSession \/ HandleSetParameters
  BY <1>6, NetUnseen, EndedByLastSame
<1>7. CASE PushResult
  BY <1>7, PushServes DEF Service!Next
<1>8. CASE FinishResult
  BY <1>8, FinishServes DEF Service!Next, EndedByLast
<1>9. CASE \/ NetOpen \/ NetFail \/ NetClosed \/ NetExit
           \/ AudioRead \/ AudioReady \/ AudioLog \/ AudioSend
           \/ World /\ Drop
           \/ World /\ ServeAudio
  BY <1>9, RestUnseen, EndedByLastSame
<1>10. CASE World /\ ServeResult
  BY <1>10, ResultServes DEF Service!Next
<1>11. CASE World /\ ServeRequest
  BY <1>11, RequestServes DEF Service!Next
<1>12. ~CancelBegin /\ ~HandleCancel /\ ~HandleCanceled /\ ~(World /\ ServeCancel)
  BY NobodyCancels
<1>13. CASE PublicCall
  BY <1>2, <1>3, <1>4, <1>12, <1>13 DEF PublicCall
<1>14. CASE AppStep
  BY <1>2, <1>4, <1>5, <1>14 DEF AppStep
<1>15. CASE NetStep
  BY <1>6, <1>7, <1>8, <1>9, <1>12, <1>15 DEF NetStep
<1>16. CASE AudioStep
  BY <1>9, <1>16 DEF AudioStep
<1>17. CASE World
  BY <1>9, <1>10, <1>11, <1>12, <1>17 DEF World, ServerStep
<1>18. QED
  BY <1>1, <1>13, <1>14, <1>15, <1>16, <1>17 DEF Next

(***************************************************************************)
(* To a program that never cancels the three threads, the connection and   *)
(* the server together are a RecognitionService: recognize() is accepted   *)
(* when the server has nothing to do, and the recognition ends with the    *)
(* result that the server sent last, or with the Impl.                     *)
(***************************************************************************)
THEOREM RecognizerImplementsService == NeverCancels /\ Spec => ImplementsService
<1>1. Init => Service!Init /\ EndedByLast
  BY InitServes
<1>2. ASSUME NeverCancels
      PROVE  TypeOK /\ PreparedInv /\ OneRecognition /\ EndedByLast /\ [Next]_vars
               => [Service!Next]_(Service!vars) /\ EndedByLast'
  BY <1>2, StepServes
<1>3. ASSUME NeverCancels PROVE Spec => []OneRecognition
  BY <1>3, OneRecognitionHolds
<1>4. ASSUME NeverCancels PROVE Spec => Service!Spec
  BY <1>1, <1>2, <1>3, <1>4, Typing, PreparedInvHolds, PTL DEF Spec, Service!Spec
<1>5. QED
  BY <1>4 DEF ImplementsService
=============================================================================
