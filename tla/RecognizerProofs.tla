-------------------------- MODULE RecognizerProofs --------------------------
(***************************************************************************)
(* Theorems about Recognizer, for every value of its constants.            *)
(***************************************************************************)
EXTENDS Recognizer, TLAPS

(* A fresh Impl, as the constructor and the auto-close reset make it.      *)
LEMMA NewImplType ==
  ASSUME NEW c \in BOOLEAN
  PROVE  NewImpl(c) \in ImplType
BY BoundsAssumption DEF NewImpl, ImplType, Recogs

(* The first state is well typed. *)
LEMMA InitTypeOK == Init => TypeOK
<1> SUFFICES ASSUME Init PROVE TypeOK
  OBVIOUS
<1> USE BoundsAssumption, UsageAssumption
<1>1. WireTypeOK
  BY DEF Init, WireInit, WireTypeOK, ServerType, NewServer, ConnStates, Recogs
<1>2. props \in PropsType /\ impl \in ImplType
  BY NewImplType DEF Init, PropsType
<1>3. pc \in {"idle", "connect"} /\ cont = "construct" /\ outcome = "built"
  BY DEF Init
<1>4. n \in Recogs /\ given \in Seq(Segment) /\ pos \in 0 .. Packets
  BY DEF Init, Recogs
<1>5. /\ net = "none" /\ handling = None
      /\ audio = "none" /\ packet \in Indices /\ crashed = FALSE
  BY DEF Init, Indices, NoPacket
<1>6. QED
  BY <1>1, <1>2, <1>3, <1>4, <1>5 DEF TypeOK, Outcomes

(* What send_message.cc builds is a request of the wire.                   *)
LEMMA RequestType ==
  ASSUME NEW m \in Methods \cup {"SEND_AUDIO"}, NEW r \in Recogs, NEW i \in Indices
  PROVE  Request(m, r, i) \in Requests
BY DEF Request, Requests

(* Sending a request, or failing to, keeps the queue to the server typed.  *)
LEMMA SentType ==
  ASSUME c2s \in Seq(Requests), NEW m \in Requests, Sent(m)
  PROVE  c2s' \in Seq(Requests)
BY DEF Sent

(* 0 stands for no recognition and for no packet.                          *)
LEMMA ZeroType == 0 \in Recogs /\ 0 \in Indices
BY BoundsAssumption DEF Recogs, Indices

(* The empty sequence has every element type.                              *)
LEMMA EmptySeqType == \A S : <<>> \in Seq(S)
OBVIOUS

(* Appending an element keeps the type of a sequence.                      *)
LEMMA AppendType ==
  ASSUME NEW S, NEW s \in Seq(S), NEW e \in S
  PROVE  Append(s, e) \in Seq(S)
OBVIOUS

(* The requests the client sends. *)
LEMMA ClientRequests ==
  ASSUME TypeOK
  PROVE  /\ Request("CREATE_SESSION", 0, 0) \in Requests
         /\ Request("SET_PARAMETERS", 0, 0) \in Requests
         /\ Request("START_RECOGNITION", n, 0) \in Requests
         /\ Request("CANCEL_RECOGNITION", 0, 0) \in Requests
         /\ Request("SEND_AUDIO", impl.source, packet) \in Requests
<1>1. n \in Recogs /\ packet \in Indices /\ impl.source \in Recogs
  BY DEF TypeOK, ImplType
<1>2. QED BY <1>1, RequestType, ZeroType DEF Methods

(* Recording a failed send in eptr_ keeps the Impl typed.                  *)
LEMMA EptrType ==
  ASSUME impl \in ImplType
  PROVE  [impl EXCEPT !.eptr = @ \/ Trouble] \in ImplType
<1>1. (impl.eptr \/ Trouble) \in BOOLEAN
  BY DEF ImplType, Trouble
<1>2. QED BY <1>1 DEF ImplType

(* Every step of every thread and of the server keeps the types.           *)
LEMMA StepTypeOK == TypeOK /\ [Next]_vars => TypeOK'
<1> SUFFICES ASSUME TypeOK, Next PROVE TypeOK'
  BY DEF TypeOK, WireTypeOK, vars, wireVars, appVars, implVars, netVars,
     audioVars
<1> USE BoundsAssumption, UsageAssumption
<1> USE DEF TypeOK, WireTypeOK, wireVars, appVars, implVars, netVars, audioVars
<1>1. CASE RecognizeRefuse
  BY <1>1 DEF RecognizeRefuse, Call, At, Return, Outcomes, Indices, NoPacket,
     ConnStates
<1>2. ASSUME NEW lm \in Lms, RecognizeBegin(lm) PROVE TypeOK'
  <2>1. impl' \in ImplType
    <3>1. n + 1 \in Recogs /\ lm \in {"none", "given", "empty"}
      BY <1>2 DEF RecognizeBegin, Recogs
    <3>2. impl' = [impl EXCEPT !.recognizing = TRUE, !.eptr = FALSE,
                               !.result = <<>>, !.source = n + 1, !.lm = lm]
      BY <1>2 DEF RecognizeBegin
    <3>3. QED BY <3>1, <3>2, EmptySeqType DEF ImplType
  <2>2. n' \in Recogs /\ pos' \in 0 .. Packets
    BY <1>2 DEF RecognizeBegin, Call, At, Recogs
  <2>3. QED
    BY <1>2, <2>1, <2>2 DEF RecognizeBegin, Call, At, Outcomes, ConnStates
<1>3. CASE WaitClosed
  <2>1. impl' \in ImplType
    <3>1. impl' = [impl EXCEPT !.result = <<>>]
      BY <1>3 DEF WaitClosed
    <3>2. QED BY <3>1, EmptySeqType DEF ImplType
  <2>2. given' \in Seq(Segment)
    BY <1>3 DEF WaitClosed, Call, At, Return, ImplType
  <2>3. QED
    BY <1>3, <2>1, <2>2 DEF WaitClosed, Call, At, Return, Outcomes, ConnStates
<1>4. CASE WaitBegin
  BY <1>4 DEF WaitBegin, Call, At, Outcomes, Indices, NoPacket, ConnStates
<1>5. CASE CancelBegin
  <2>1. impl' \in ImplType
    <3>1. impl' = impl \/ impl' = [impl EXCEPT !.eptr = @ \/ Trouble]
      BY <1>5 DEF CancelBegin
    <3>2. QED BY <3>1, EptrType
  <2>2. c2s' \in Seq(Requests)
    <3>1. c2s' = c2s \/ \E m \in Requests : Sent(m)
      BY <1>5, ClientRequests DEF CancelBegin
    <3>2. QED BY <3>1, SentType
  <2>3. QED
    BY <1>5, <2>1, <2>2 DEF CancelBegin, Call, At, Sent, Trouble, Outcomes,
       ConnStates
<1>6. CASE CloseBegin
  BY <1>6 DEF CloseBegin, Call, At, Return, Outcomes, Indices, NoPacket,
     ConnStates
<1>7. CASE DestroyBegin
  <2>1. crashed' \in BOOLEAN
    BY <1>7 DEF DestroyBegin
  <2>2. QED BY <1>7, <2>1 DEF DestroyBegin
<1>8. CASE Connect
  <2>1. impl' \in ImplType
    <3>1. impl' = impl \/ impl' = [impl EXCEPT !.open = TRUE]
      BY <1>8 DEF Connect
    <3>2. [impl EXCEPT !.open = TRUE] \in ImplType
      BY DEF ImplType
    <3>3. QED BY <3>1, <3>2
  <2>2. QED
    BY <1>8, <2>1 DEF Connect, At, Return, Outcomes, ConnStates
<1>9. CASE Opened
  <2>1. props' \in PropsType
    BY <1>9 DEF Opened, At, Return, PropsType
  <2>2. QED
    BY <1>9, <2>1 DEF Opened, At, Return, Outcomes, ConnStates
<1>10. CASE SendRequest
  <2>1. impl' \in ImplType
    <3>1. impl' = impl \/ impl' = [impl EXCEPT !.eptr = @ \/ Trouble]
      BY <1>10 DEF SendRequest
    <3>2. QED BY <3>1, EptrType
  <2>2. c2s' \in Seq(Requests)
    <3>1. c2s' = c2s \/ \E m \in Requests : Sent(m)
      BY <1>10, ClientRequests DEF SendRequest, CreateSession, StartRecognition
    <3>2. QED BY <3>1, SentType
  <2>3. QED
    BY <1>10, <2>1, <2>2 DEF SendRequest, At, Return, Sent, Trouble,
       Outcomes, ConnStates
<1>11. CASE Check
  BY <1>11 DEF Check, At, AfterWait, Outcomes, Indices, NoPacket, ConnStates
<1>12. CASE Block
  BY <1>12 DEF Block, At, Outcomes, Indices, NoPacket, ConnStates
<1>13. CASE Timeout
  BY <1>13 DEF Timeout, At, AfterWait, Return, Outcomes, Indices, NoPacket,
     ConnStates
<1>14. CASE Stop
  <2>1. impl' \in ImplType
    <3>1. impl' = impl \/ impl' = [impl EXCEPT !.terminate = TRUE]
      BY <1>14 DEF Stop
    <3>2. [impl EXCEPT !.terminate = TRUE] \in ImplType
      BY DEF ImplType
    <3>3. QED BY <3>1, <3>2
  <2>2. QED
    BY <1>14, <2>1 DEF Stop, At, Outcomes, ConnStates
<1>15. CASE Join
  BY <1>15 DEF Join, At, Outcomes, Indices, NoPacket, ConnStates
<1>16. CASE CloseThrows \/ Joined
  <2>1. impl' \in ImplType
    <3>1. \/ impl' = [impl EXCEPT !.threw = impl.terminate]
          \/ impl' = [impl EXCEPT !.terminate = FALSE, !.threw = FALSE]
      BY <1>16 DEF CloseThrows, Joined
    <3>2. [impl EXCEPT !.terminate = FALSE, !.threw = FALSE] \in ImplType
      BY DEF ImplType
    <3>3. impl.terminate \in BOOLEAN
      BY DEF ImplType
    <3>4. [impl EXCEPT !.threw = impl.terminate] \in ImplType
      BY <3>3, Zenon DEF ImplType
    <3>5. QED BY <3>1, <3>2, <3>4
  <2>2. CASE CloseThrows
    <3>1. \/ pc' = "thrown" /\ crashed' = TRUE /\ outcome' = outcome
          \/ pc' = "idle" /\ outcome' = "error" /\ crashed' = crashed
      BY <2>2 DEF CloseThrows, Return
    <3>2. UNCHANGED <<cont, n, given, props, pos, netVars, audioVars, wireVars>>
      BY <2>2 DEF CloseThrows
    <3>3. crashed' \in BOOLEAN /\ outcome' \in Outcomes
      BY <3>1 DEF Outcomes
    <3>4. QED BY <2>1, <3>1, <3>2, <3>3, Zenon
  <2>3. CASE Joined
    BY <2>1, <2>3 DEF Joined, At, Return, Outcomes, ConnStates
  <2>4. QED BY <1>16, <2>2, <2>3
<1>17. CASE CopyResults
  <2>1. given' \in Seq(Segment)
    BY <1>17 DEF CopyResults, At, ImplType
  <2>2. QED
    BY <1>17, <2>1 DEF CopyResults, At, Outcomes, ConnStates
<1>18. CASE ClearResults
  <2>1. impl' \in ImplType
    <3>1. impl' = [impl EXCEPT !.result = <<>>]
      BY <1>18 DEF ClearResults
    <3>2. QED BY <3>1, EmptySeqType DEF ImplType
  <2>2. QED
    BY <1>18, <2>1 DEF ClearResults, At, Return, Outcomes, ConnStates
<1>19. CASE WsClose
  BY <1>19 DEF WsClose, At, Outcomes, Indices, NoPacket, ConnStates
<1>20. CASE JoinNet
  <2>1. impl' \in ImplType
    <3>1. impl' = impl \/ impl' = [impl EXCEPT !.open = FALSE] \/ impl' = NewImpl(FALSE)
      BY <1>20 DEF JoinNet
    <3>2. NewImpl(FALSE) \in ImplType
      BY NewImplType
    <3>3. [impl EXCEPT !.open = FALSE] \in ImplType
      BY DEF ImplType
    <3>4. QED BY <3>1, <3>2, <3>3
  <2>2. srv' \in ServerType
    <3>1. srv' = srv \/ srv' = NewServer
      BY <1>20 DEF JoinNet
    <3>2. NewServer \in ServerType
      BY ZeroType DEF NewServer, ServerType
    <3>3. QED BY <3>1, <3>2
  <2>3. crashed' \in BOOLEAN
    BY <1>20 DEF JoinNet
  <2>4. pc' \in {"idle", "gone"} /\ outcome' \in Outcomes
    BY <1>20 DEF JoinNet, Return, Outcomes
  <2>5. c2s' \in Seq(Requests) /\ s2c' \in Seq(Messages)
    <3>1. (c2s' = c2s \/ c2s' = <<>>) /\ (s2c' = s2c \/ s2c' = <<>>)
      BY <1>20 DEF JoinNet
    <3>2. QED BY <3>1, EmptySeqType
  <2>6. conn' \in ConnStates /\ net' \in {"none", "run", "done"}
    BY <1>20 DEF JoinNet, ConnStates
  <2>7. QED
    BY <1>20, <2>1, <2>2, <2>3, <2>4, <2>5, <2>6 DEF JoinNet, Outcomes,
       ConnStates
<1>21. CASE NetOpen
  <2>1. impl' \in ImplType
    BY <1>21 DEF NetOpen, Notify, ImplType
  <2>2. QED
    BY <1>21, <2>1 DEF NetOpen, Notify, Outcomes, ConnStates
<1>22. CASE NetFail
  <2>1. impl' \in ImplType
    BY <1>22 DEF NetFail, Notify, ImplType
  <2>2. QED
    BY <1>22, <2>1 DEF NetFail, Notify, Outcomes, ConnStates
<1>23. CASE NetClosed
  <2>1. impl' \in ImplType
    BY <1>23 DEF NetClosed, Notify, ImplType
  <2>2. QED
    BY <1>23, <2>1 DEF NetClosed, Notify, Outcomes, ConnStates
<1>24. CASE NetExit
  BY <1>24 DEF NetExit, Outcomes, Indices, NoPacket, ConnStates
<1>25. CASE NetTake
  <2>1. s2c' \in Seq(Messages)
    BY <1>25 DEF NetTake, NetUp, Response, Responses, Result, Results,
       Canceled, Canceleds, Messages, Methods, Recogs, Requests
  <2>2. handling' \in Messages \cup {None, Pushed}
    BY <1>25 DEF NetTake, NetUp
  <2>3. QED
    BY <1>25, <2>1, <2>2 DEF NetTake, NetUp, Outcomes, ConnStates
<1>26. CASE HandleFailure
  <2>1. impl' \in ImplType
    BY <1>26 DEF HandleFailure, Notify, ImplType
  <2>2. QED
    BY <1>26, <2>1 DEF HandleFailure, Notify, Outcomes, ConnStates
<1>27. CASE HandleCreateSession
  <2>1. impl' \in ImplType
    <3>1. impl' = impl \/ impl' = [impl EXCEPT !.eptr = @ \/ Trouble]
      BY <1>27 DEF HandleCreateSession, NetStart
    <3>2. QED BY <3>1, EptrType
  <2>2. c2s' \in Seq(Requests)
    <3>1. c2s' = c2s \/ \E m \in Requests : Sent(m)
      BY <1>27, ClientRequests
         DEF HandleCreateSession, NetStart, SetParameters, StartRecognition
    <3>2. QED BY <3>1, SentType
  <2>3. crashed' \in BOOLEAN
    BY <1>27 DEF HandleCreateSession, NetStart
  <2>4. pc' \in {pc, "check"}
    BY <1>27 DEF HandleCreateSession, NetStart, Notify
  <2>5. QED
    BY <1>27, <2>1, <2>2, <2>3, <2>4 DEF HandleCreateSession, Outcomes,
       ConnStates
<1>28. CASE HandleSetParameters
  <2>1. impl' \in ImplType
    <3>1. impl' = impl \/ impl' = [impl EXCEPT !.eptr = @ \/ Trouble]
      BY <1>28 DEF HandleSetParameters, NetStart
    <3>2. QED BY <3>1, EptrType
  <2>2. c2s' \in Seq(Requests)
    <3>1. c2s' = c2s \/ \E m \in Requests : Sent(m)
      BY <1>28, ClientRequests DEF HandleSetParameters, NetStart,
         StartRecognition
    <3>2. QED BY <3>1, SentType
  <2>3. crashed' \in BOOLEAN
    BY <1>28 DEF HandleSetParameters, NetStart
  <2>4. pc' \in {pc, "check"}
    BY <1>28 DEF HandleSetParameters, NetStart, Notify
  <2>5. QED
    BY <1>28, <2>1, <2>2, <2>3, <2>4 DEF HandleSetParameters, Outcomes,
       ConnStates
<1>29. CASE HandleStart
  <2>1. CASE impl.source = 0
    BY <1>29, <2>1 DEF HandleStart
  <2>2. CASE impl.source # 0 /\ audio = "none"
    BY <1>29, <2>2, ZeroType DEF HandleStart, NoPacket
  <2>3. CASE impl.source # 0 /\ audio # "none"
    BY <1>29, <2>3 DEF HandleStart
  <2>4. QED BY <2>1, <2>2, <2>3
<1>30. CASE HandleCancel
  <2>1. impl' \in ImplType
    <3>1. impl' = [impl EXCEPT !.result = <<>>, !.recognizing = FALSE]
      BY <1>30 DEF HandleCancel
    <3>2. QED BY <3>1, EmptySeqType DEF ImplType
  <2>2. QED
    BY <1>30, <2>1 DEF HandleCancel, Notify, Outcomes, ConnStates
<1>31. CASE PushResult
  <2>1. impl' \in ImplType
    <3>1. handling \in Results
      BY <1>31 DEF PushResult, Handling, Messages, Responses, Canceleds,
         None, Pushed, Results
    <3> DEFINE s == [rec |-> handling.rec, seg |-> handling.seg]
    <3> DEFINE v == IF handling.seg = Segments THEN "idle" ELSE impl.session
    <3>2. s \in Segment /\ v \in {"none", "idle"}
      BY <3>1 DEF Segment, Results, ImplType
    <3>3. /\ impl.result \in Seq(Segment)
          /\ impl' = [impl EXCEPT !.result = Append(impl.result, s), !.session = v]
      BY <1>31 DEF PushResult, ImplType
    <3>4. Append(impl.result, s) \in Seq(Segment)
      BY <3>2, <3>3
    <3> HIDE DEF s, v
    <3>5. QED BY <3>2, <3>3, <3>4 DEF ImplType
  <2>2. QED
    BY <1>31, <2>1 DEF PushResult, Handling, Outcomes, ConnStates
<1>32. CASE FinishResult
  <2>1. impl' \in ImplType
    BY <1>32 DEF FinishResult, EndRecognition, Notify, ImplType
  <2>2. QED
    BY <1>32, <2>1 DEF FinishResult, EndRecognition, Notify, Outcomes,
       ConnStates
<1>33. CASE HandleCanceled
  <2>1. impl' \in ImplType
    BY <1>33 DEF HandleCanceled, EndRecognition, Notify, ImplType
  <2>2. QED
    BY <1>33, <2>1 DEF HandleCanceled, EndRecognition, Notify, Outcomes,
       ConnStates
<1>34. CASE AudioRead
  <2>1. pos' \in 0 .. Packets /\ packet' \in Indices
    BY <1>34 DEF AudioRead, Indices, NoPacket, LastPacket
  <2>2. QED
    BY <1>34, <2>1 DEF AudioRead, Outcomes, ConnStates
<1>35. CASE AudioReady
  BY <1>35 DEF AudioReady, Outcomes, Indices, NoPacket, ConnStates
<1>36. CASE AudioLog
  BY <1>36 DEF AudioLog, Outcomes, Indices, NoPacket, ConnStates
<1>37. CASE AudioSend
  <2>1. impl' \in ImplType
    <3>1. impl' = impl \/ impl' = [impl EXCEPT !.eptr = @ \/ Trouble]
      BY <1>37 DEF AudioSend
    <3>2. QED BY <3>1, EptrType
  <2>2. c2s' \in Seq(Requests)
    <3>1. c2s' = c2s \/ \E m \in Requests : Sent(m)
      BY <1>37, ClientRequests DEF AudioSend
    <3>2. QED BY <3>1, SentType
  <2>3. QED
    BY <1>37, <2>1, <2>2 DEF AudioSend, Notify, Sent, Trouble, Outcomes,
       ConnStates
<1>38. CASE World /\ ServeRequest
  <2>1. c2s' \in Seq(Requests)
    BY <1>38 DEF ServeRequest, World, Request, Requests, Methods, Recogs,
       Indices, ImplType
  <2>2. s2c' \in Seq(Messages)
    <3>1. \A x \in Methods, b \in BOOLEAN : Response(x, b) \in Messages
      BY DEF Messages, Response, Responses
    <3>2. Head(c2s).method \in Methods
      BY <1>38 DEF World, ServeRequest
    <3>3. \/ s2c' = Append(s2c, Response(Head(c2s).method, TRUE))
          \/ s2c' = Append(s2c, Response(Head(c2s).method, FALSE))
      BY <1>38 DEF World, ServeRequest
    <3>4. PICK r \in Messages : s2c' = Append(s2c, r)
      BY <3>1, <3>2, <3>3
    <3>5. QED BY <3>4
  <2>3. srv' \in ServerType
    <3> DEFINE m == Head(c2s)
    <3>0. m \in Requests
      BY <1>38 DEF World, ServeRequest
    <3>1. m.rec \in Recogs
      BY <3>0 DEF Requests
    <3>2. \/ srv' = srv
          \/ srv' = [srv EXCEPT !.session = TRUE]
          \/ srv' = [srv EXCEPT !.params = TRUE]
          \/ srv' = [srv EXCEPT !.rec = m.rec, !.seg = 1, !.heard = <<>>]
      BY <1>38 DEF World, ServeRequest
    <3>3. <<>> \in Seq(Recogs \X Indices) /\ 1 \in 1 .. Segments
      OBVIOUS
    <3> HIDE DEF m
    <3>4. QED BY <3>1, <3>2, <3>3 DEF ServerType
  <2>4. QED
    BY <1>38, <2>1, <2>2, <2>3 DEF ServeRequest, World, Outcomes, ConnStates
<1>39. CASE World /\ ServeCancel
  <2>1. c2s' \in Seq(Requests)
    BY <1>39 DEF ServeCancel, World, Request, Requests, Methods, Recogs,
       Indices, ImplType
  <2>2. s2c' \in Seq(Messages)
    <3>1. Response("CANCEL_RECOGNITION", TRUE) \in Messages /\ Canceled \in Messages
      BY DEF Messages, Response, Responses, Methods, Canceled, Canceleds
    <3> DEFINE r == Response("CANCEL_RECOGNITION", TRUE)
    <3>2. s2c' = Append(s2c, r) \/ s2c' = Append(Append(s2c, r), Canceled)
      BY <1>39 DEF World, ServeCancel
    <3> HIDE DEF r
    <3>3. Append(s2c, r) \in Seq(Messages)
      BY <3>1, AppendType DEF r
    <3>4. Append(Append(s2c, r), Canceled) \in Seq(Messages)
      BY <3>1, <3>3, AppendType
    <3>5. QED BY <3>2, <3>3, <3>4
  <2>3. srv' \in ServerType
    <3>1. srv' = [srv EXCEPT !.rec = 0]
      BY <1>39 DEF World, ServeCancel
    <3>2. QED BY <3>1, ZeroType DEF ServerType
  <2>4. QED
    BY <1>39, <2>1, <2>2, <2>3 DEF ServeCancel, World, Outcomes, ConnStates
<1>40. CASE World /\ ServeAudio
  <2>1. c2s' \in Seq(Requests)
    BY <1>40 DEF ServeAudio, World, Request, Requests, Methods, Recogs,
       Indices, ImplType
  <2>2. srv' \in ServerType
    <3>1. Head(c2s) \in Requests
      BY <1>40 DEF World, ServeAudio
    <3> DEFINE p == <<Head(c2s).rec, Head(c2s).idx>>
    <3>2. p \in Recogs \X Indices
      BY <3>1 DEF Requests
    <3>3. srv.heard \in Seq(Recogs \X Indices)
      BY DEF ServerType
    <3>4. Append(srv.heard, p) \in Seq(Recogs \X Indices)
      BY <3>2, <3>3
    <3>5. srv' = srv \/ srv' = [srv EXCEPT !.heard = Append(srv.heard, p)]
      BY <1>40 DEF World, ServeAudio
    <3> HIDE DEF p
    <3>6. QED BY <3>4, <3>5 DEF ServerType
  <2>3. QED
    BY <1>40, <2>1, <2>2 DEF ServeAudio, World, Outcomes, ConnStates
<1>41. CASE World /\ ServeResult
  <2>1. s2c' \in Seq(Messages)
    <3>1. Result(srv.rec, srv.seg) \in Messages
      BY DEF ServerType, Messages, Results, Result
    <3>2. QED BY <1>41, <3>1 DEF World, ServeResult
  <2>2. srv' \in ServerType
    <3>1. srv.rec \in Recogs /\ srv.seg \in 1 .. Segments
      BY DEF ServerType
    <3>2. CASE srv.seg = Segments
      <4>1. srv' = [srv EXCEPT !.rec = 0, !.seg = 1] /\ 1 \in 1 .. Segments
        BY <1>41, <3>2 DEF World, ServeResult
      <4>2. QED BY <4>1, ZeroType DEF ServerType
    <3>3. CASE srv.seg # Segments
      <4>1. srv' = [srv EXCEPT !.seg = srv.seg + 1]
        BY <1>41, <3>3 DEF World, ServeResult
      <4>2. srv.seg + 1 \in 1 .. Segments
        BY <3>1, <3>3
      <4>3. QED BY <4>1, <4>2 DEF ServerType
    <3>4. QED BY <3>2, <3>3
  <2>3. QED
    BY <1>41, <2>1, <2>2 DEF ServeResult, World, Outcomes, ConnStates
<1>42. CASE World /\ Drop
  BY <1>42 DEF Drop, World, Outcomes, Indices, NoPacket, ConnStates
<1>43. QED
  BY <1>1, <1>2, <1>3, <1>4, <1>5, <1>6, <1>7, <1>8, <1>9, <1>10, <1>11,
     <1>12, <1>13, <1>14, <1>15, <1>16, <1>17, <1>18, <1>19, <1>20, <1>21,
     <1>22, <1>23, <1>24, <1>25, <1>26, <1>27, <1>28, <1>29, <1>30, <1>31,
     <1>32, <1>33, <1>34, <1>35, <1>36, <1>37, <1>38, <1>39, <1>40, <1>41,
     <1>42
  DEF Next, PublicCall, AppStep, NetStep, AudioStep, World, ServerStep

(* Type correctness: every variable keeps to its domain in every behaviour *)
(* of the threads and the server.                                          *)
THEOREM Typing == Spec => []TypeOK
<1>1. Init => TypeOK
  BY InitTypeOK
<1>2. TypeOK /\ [Next]_vars => TypeOK'
  BY StepTypeOK
<1>3. QED
  BY <1>1, <1>2, PTL DEF Spec

-----------------------------------------------------------------------------
(* No handler outlives an open recognizer.                                 *)

(* Only init sets net to run and it sets open_; only a join clears open_.  *)
LEMMA StepNoHandlerAfterClose ==
  TypeOK /\ NoHandlerAfterClose /\ [Next]_vars => NoHandlerAfterClose'
<1> SUFFICES ASSUME TypeOK, NoHandlerAfterClose, Next PROVE NoHandlerAfterClose'
  BY DEF NoHandlerAfterClose, vars, implVars, netVars
<1>1. impl \in ImplType
  BY DEF TypeOK
<1>2. (net' = net \/ net' # "run") /\ (impl.open = impl'.open \/ impl'.open) => NoHandlerAfterClose'
  BY <1>1 DEF NoHandlerAfterClose, ImplType
<1>3. CASE PublicCall
  BY <1>1, <1>2, <1>3 DEF PublicCall, RecognizeRefuse, RecognizeBegin,
     WaitClosed, WaitBegin,
    CancelBegin, CloseBegin, DestroyBegin, implVars, netVars, ImplType
<1>4. CASE Connect
  BY <1>1, <1>2, <1>4 DEF Connect, ImplType, NoHandlerAfterClose
<1>5. CASE JoinNet
  BY <1>1, <1>5 DEF JoinNet, NewImpl, ImplType, NoHandlerAfterClose
<1>6. CASE AppStep /\ ~Connect /\ ~JoinNet
  BY <1>1, <1>2, <1>6 DEF AppStep, Opened, SendRequest, Check, Block,
     Timeout, Stop, Join,
    CloseThrows, Joined, CopyResults, ClearResults, WsClose, implVars, netVars, ImplType
<1>7. CASE NetStep
  <2>1. CASE NetOpen \/ NetFail \/ NetClosed \/ NetExit \/ NetTake
    BY <1>1, <1>2, <2>1 DEF NetOpen, NetFail, NetClosed, NetExit, NetTake,
       implVars,
      netVars, ImplType
  <2>2. CASE HandleFailure \/ HandleCreateSession \/ HandleSetParameters \/ HandleStart
    BY <1>1, <1>2, <2>2 DEF HandleFailure, HandleCreateSession,
       HandleSetParameters,
      HandleStart, NetStart, implVars, ImplType
  <2>3. CASE HandleCancel \/ PushResult \/ FinishResult \/ HandleCanceled
    BY <1>1, <1>2, <2>3 DEF HandleCancel, PushResult, FinishResult,
       HandleCanceled,
      EndRecognition, ImplType
  <2>4. QED
    BY <1>7, <2>1, <2>2, <2>3 DEF NetStep
<1>8. CASE AudioStep \/ World
  BY <1>1, <1>2, <1>8 DEF AudioStep, AudioRead, AudioReady, AudioLog,
     AudioSend, World,
    implVars, netVars, ImplType
<1>9. QED
  BY <1>3, <1>4, <1>5, <1>6, <1>7, <1>8 DEF Next

(* An Impl that reports itself closed has no running asio thread, so its   *)
(* destruction races with no handler: WsClient::init sets open_ with the   *)
(* thread and WsClient::close clears it only after joining.                *)
THEOREM NoHandlerAfterCloseHolds == Spec => []NoHandlerAfterClose
<1>1. Init => NoHandlerAfterClose
  BY DEF Init, NoHandlerAfterClose
<1>2. TypeOK /\ NoHandlerAfterClose /\ [Next]_vars => NoHandlerAfterClose'
  BY StepNoHandlerAfterClose
<1>3. QED
  BY <1>1, <1>2, Typing, PTL DEF Spec

-----------------------------------------------------------------------------
(* A recognition runs only in a prepared session.                          *)

(* A step of one thread that touches neither queue nor connection.         *)
LEMMA QuietStep ==
  ASSUME PreparedInv, UNCHANGED <<srv, c2s, s2c, conn, net>>,
         handling' \in {handling, None},
         impl'.session = impl.session, impl'.config = impl.config
  PROVE  PreparedInv'
<1>1. Prepared' <=> Prepared
  BY DEF Prepared
<1>2. QuietWhenClosed' /\ RequestsPrepared'
  BY <1>1 DEF PreparedInv, QuietWhenClosed, RequestsPrepared
<1>3. ASSUME NEW m PROVE Proves(m)' <=> Proves(m)
  BY <1>1 DEF Proves
<1>4. Proves(None)
  BY DEF Proves, None
<1>5. ResponsesPrepared'
  BY <1>1, <1>4 DEF PreparedInv, ResponsesPrepared, Proves
<1>6. QED
  BY <1>1, <1>2, <1>5 DEF PreparedInv

(* A step that sends a request, START_RECOGNITION only when prepared.      *)
LEMMA SendStep ==
  ASSUME TypeOK, PreparedInv, NEW m \in Requests, Sent(m),
         m.method = "START_RECOGNITION" => Prepared,
         UNCHANGED <<srv, s2c, conn, net>>,
         handling' \in {handling, None},
         impl'.session = impl.session, impl'.config = impl.config
  PROVE  PreparedInv'
<1>1. Prepared' <=> Prepared
  BY DEF Prepared
<1>2. QuietWhenClosed'
  BY DEF PreparedInv, QuietWhenClosed
<1>3. RequestsPrepared'
  BY <1>1 DEF PreparedInv, RequestsPrepared, Sent, TypeOK, WireTypeOK
<1>4. Proves(None)
  BY DEF Proves, None
<1>5. ResponsesPrepared'
  BY <1>1, <1>4 DEF PreparedInv, ResponsesPrepared, Proves
<1>6. QED
  BY <1>1, <1>2, <1>3, <1>5 DEF PreparedInv

(* Every step keeps the strengthening that makes ServerPrepared inductive. *)
LEMMA StepPreparedInv == TypeOK /\ PreparedInv /\ [Next]_vars => PreparedInv'
<1> SUFFICES ASSUME TypeOK, PreparedInv, Next PROVE PreparedInv'
  BY QuietStep DEF vars, wireVars, netVars, implVars
<1>t. impl \in ImplType /\ srv \in ServerType /\ c2s \in Seq(Requests) /\ s2c \in Seq(Messages)
  BY DEF TypeOK, WireTypeOK
<1>1. CASE PublicCall /\ ~CancelBegin
  BY <1>t, <1>1, QuietStep DEF PublicCall, RecognizeRefuse, RecognizeBegin,
     WaitClosed,
    WaitBegin, CloseBegin, DestroyBegin, implVars, netVars, wireVars, ImplType
<1>2. CASE CancelBegin
  <2>1. Sent(Request("CANCEL_RECOGNITION", 0, 0))
        /\ Request("CANCEL_RECOGNITION", 0, 0).method # "START_RECOGNITION"
    BY <1>2 DEF CancelBegin, Request
  <2>2. QED
    BY <1>t, <1>2, <2>1, ClientRequests, SendStep DEF CancelBegin, netVars,
       ImplType
<1>3. CASE Opened \/ Check \/ Block \/ Timeout \/ Stop \/ Join \/ CloseThrows \/ Joined \/ CopyResults
           \/ ClearResults
  BY <1>t, <1>3, QuietStep DEF Opened, Check, Block, Timeout, Stop, Join,
     CloseThrows, Joined,
    CopyResults, ClearResults, implVars, netVars, wireVars, ImplType
<1>4. CASE SendRequest
  <2>1. CASE impl.session # "none" /\ impl.lm = "empty"
    BY <1>4, <2>1, QuietStep DEF SendRequest, netVars
  <2>2. CASE impl.session = "none"
    <3>1. Sent(Request("CREATE_SESSION", 0, 0))
          /\ Request("CREATE_SESSION", 0, 0).method # "START_RECOGNITION"
      BY <1>4, <2>2 DEF SendRequest, CreateSession, Request
    <3>2. QED
      BY <1>t, <1>4, <2>2, <3>1, ClientRequests, SendStep DEF
         SendRequest, netVars, ImplType
  <2>3. CASE impl.session # "none" /\ impl.lm # "empty"
    <3>1. Prepared
      BY <1>t, <2>3 DEF PreparedInv, ImplType
    <3>2. QED
      BY <1>t, <1>4, <2>3, <3>1, ClientRequests, SendStep
         DEF SendRequest, StartRecognition, netVars, ImplType
  <2>4. QED
    BY <2>1, <2>2, <2>3
<1>5. CASE Connect \/ WsClose \/ NetOpen \/ NetFail \/ NetClosed \/ NetExit
  <2>1. /\ UNCHANGED <<srv, c2s, s2c, handling>>
        /\ impl'.session = impl.session /\ impl'.config = impl.config
    BY <1>t, <1>5 DEF Connect, WsClose, NetOpen, NetFail, NetClosed,
       NetExit, implVars,
      netVars, wireVars, ImplType
  <2>2. Prepared' <=> Prepared
    BY <2>1 DEF Prepared
  <2>3. QuietWhenClosed'
    BY <1>5 DEF PreparedInv, QuietWhenClosed, Connect, WsClose, NetOpen,
       NetFail, NetClosed,
      NetExit, NetUp, netVars, wireVars
  <2>4. RequestsPrepared'
    BY <2>1, <2>2 DEF PreparedInv, RequestsPrepared
  <2>5. ResponsesPrepared'
    BY <2>1, <2>2 DEF PreparedInv, ResponsesPrepared, Proves
  <2>6. QED
    BY <2>1, <2>2, <2>3, <2>4, <2>5 DEF PreparedInv
<1>6. CASE JoinNet
  <2>1. CASE cont = "reset" /\ audio = "none"
    <3>1. /\ impl' = NewImpl(FALSE) /\ net' = "none" /\ conn' = "none"
          /\ c2s' = <<>> /\ s2c' = <<>> /\ srv' = NewServer /\ handling' = handling
      BY <1>6, <2>1 DEF JoinNet
    <3>2. handling = None
      BY <1>6 DEF JoinNet, PreparedInv, QuietWhenClosed
    <3>3. QuietWhenClosed' /\ RequestsPrepared'
      BY <3>1, <3>2 DEF QuietWhenClosed, RequestsPrepared
    <3>4. ResponsesPrepared'
      BY <3>1, <3>2 DEF ResponsesPrepared, Proves, None
    <3>5. QED
      BY <3>1, <3>3, <3>4 DEF PreparedInv, NewImpl, NewServer
  <2>2. CASE ~(cont = "reset" /\ audio = "none")
    <3>1. CASE cont \in {"close", "cancelClose"}
      BY <1>t, <1>6, <3>1, QuietStep DEF JoinNet, ImplType
    <3>2. CASE cont \in {"destroy", "abort"}
      BY <1>t, <1>6, <3>2, QuietStep DEF JoinNet, ImplType
    <3>3. CASE cont = "reset" /\ audio # "none"
      <4>1. UNCHANGED <<impl, net, conn, c2s, s2c, srv, handling>>
        BY <1>6, <3>3 DEF JoinNet
      <4>2. QED
        BY <4>1, QuietStep
    <3>4. QED
      BY <1>6, <2>2, <3>1, <3>2, <3>3 DEF JoinNet
  <2>3. QED
    BY <2>1, <2>2
<1>7. CASE NetTake
  <2>1. /\ UNCHANGED <<impl, srv, c2s, conn, net>>
        /\ handling' = Head(s2c) /\ s2c' = Tail(s2c) /\ s2c # <<>> /\ conn = "open" /\ net = "run"
    BY <1>7 DEF NetTake, NetUp, implVars
  <2>2. Prepared' <=> Prepared
    BY <2>1 DEF Prepared
  <2>3. QuietWhenClosed' /\ RequestsPrepared'
    BY <2>1, <2>2 DEF PreparedInv, QuietWhenClosed, RequestsPrepared
  <2>4. ASSUME NEW m PROVE Proves(m)' <=> Proves(m)
    BY <2>1, <2>2 DEF Proves
  <2>5. Proves(handling)'
    BY <1>t, <2>1, <2>2 DEF PreparedInv, ResponsesPrepared, Proves
  <2>6. \A i \in 1 .. Len(s2c') : s2c'[i] = s2c[i + 1] /\ i + 1 \in 1 .. Len(s2c)
    BY <1>t, <2>1
  <2>7. \A i \in 1 .. Len(s2c') : Proves(s2c[i + 1])
    BY <2>6 DEF PreparedInv, ResponsesPrepared
  <2>8. ResponsesPrepared'
    BY <2>1, <2>2, <2>5, <2>6, <2>7 DEF ResponsesPrepared, Proves
  <2>9. QED
    BY <2>1, <2>2, <2>3, <2>8 DEF PreparedInv
<1>8. CASE HandleFailure \/ HandleStart \/ HandleCancel \/ FinishResult
  BY <1>t, <1>8, QuietStep DEF HandleFailure, HandleStart, HandleCancel,
     FinishResult,
    EndRecognition, implVars, wireVars, ImplType
<1>9. ASSUME NetStart, Prepared, handling' = None, UNCHANGED <<srv, s2c, conn, net>>
      PROVE  PreparedInv'
  <2>1. CASE impl.lm = "empty"
    BY <1>9, <2>1, QuietStep DEF NetStart
  <2>2. CASE impl.lm # "empty"
    BY <1>t, <1>9, <2>2, ClientRequests, SendStep
       DEF NetStart, StartRecognition, ImplType
  <2>3. QED
    BY <2>1, <2>2
<1>10. CASE HandleCreateSession
  <2>1. srv.session
    BY <1>10 DEF HandleCreateSession, Handles, Handling, PreparedInv,
       ResponsesPrepared, Proves
  <2>2. CASE impl.config
    <3>1. Sent(Request("SET_PARAMETERS", 0, 0))
          /\ Request("SET_PARAMETERS", 0, 0).method # "START_RECOGNITION"
      BY <1>10, <2>2 DEF HandleCreateSession, SetParameters, Request
    <3>2. QED
      BY <1>t, <1>10, <2>2, <3>1, ClientRequests, SendStep DEF
         HandleCreateSession, ImplType
  <2>3. CASE ~impl.config
    BY <1>9, <1>10, <2>1, <2>3 DEF HandleCreateSession, Prepared
  <2>4. QED
    BY <2>2, <2>3
<1>11. CASE HandleSetParameters
  <2>1. Prepared
    BY <1>11 DEF HandleSetParameters, Handles, Handling, PreparedInv,
       ResponsesPrepared,
      Proves, Prepared
  <2>2. QED
    BY <1>9, <1>11, <2>1 DEF HandleSetParameters
<1>12. CASE PushResult \/ HandleCanceled
  <2>1. Prepared
    BY <1>12 DEF PushResult, HandleCanceled, Handling, PreparedInv,
       ResponsesPrepared, Proves
  <2>2. /\ UNCHANGED <<srv, c2s, s2c, conn, net>> /\ impl'.config = impl.config
        /\ handling' \in {None, Pushed}
    BY <1>t, <1>12 DEF PushResult, HandleCanceled, EndRecognition,
       wireVars, ImplType
  <2>3. Prepared'
    BY <2>1, <2>2 DEF Prepared
  <2>4. conn \in {"open", "closing", "dropped"}
    BY <1>12 DEF PushResult, HandleCanceled, Handling, None, PreparedInv,
       QuietWhenClosed
  <2>5. QuietWhenClosed' /\ RequestsPrepared'
    BY <2>2, <2>3, <2>4 DEF PreparedInv, QuietWhenClosed, RequestsPrepared
  <2>6. ResponsesPrepared'
    BY <2>2, <2>3 DEF PreparedInv, ResponsesPrepared, Proves, None, Pushed,
       Prepared
  <2>7. QED
    BY <2>3, <2>5, <2>6 DEF PreparedInv
<1>13. CASE AudioRead \/ AudioReady \/ AudioLog
  BY <1>13, QuietStep DEF AudioRead, AudioReady, AudioLog, implVars, netVars,
     wireVars
<1>14. CASE AudioSend
  <2>1. Sent(Request("SEND_AUDIO", impl.source, packet))
        /\ Request("SEND_AUDIO", impl.source, packet).method # "START_RECOGNITION"
    BY <1>14 DEF AudioSend, Request
  <2>2. QED
    BY <1>t, <1>14, <2>1, ClientRequests, SendStep DEF AudioSend, netVars,
       ImplType
<1>15. CASE World /\ ServeRequest
  <2>1. PICK m \in Requests : /\ m = Head(c2s) /\ m = c2s[1]
                              /\ m.method \in Methods \ {"CANCEL_RECOGNITION"}
    BY <1>t, <1>15 DEF World, ServeRequest
  <2>2. /\ UNCHANGED <<impl, handling, net, conn>>
        /\ c2s' = Tail(c2s) /\ c2s # <<>> /\ conn = "open"
    BY <1>15 DEF World, ServeRequest, implVars, netVars
  <2>3. PICK b \in BOOLEAN :
          /\ s2c' = Append(s2c, Response(m.method, b))
          /\ \/ ~b /\ srv' = srv
             \/ b /\ m.method = "CREATE_SESSION" /\ srv' = [srv EXCEPT !.session = TRUE]
             \/ b /\ m.method = "SET_PARAMETERS" /\ srv.session
                  /\ srv' = [srv EXCEPT !.params = TRUE]
             \/ b /\ m.method = "START_RECOGNITION"
                  /\ srv' = [srv EXCEPT !.rec = m.rec, !.seg = 1, !.heard = <<>>]
    <3>1. CASE s2c' = Append(s2c, Response(m.method, FALSE)) /\ srv' = srv
      BY <3>1
    <3>2. CASE /\ Acceptable(m) /\ s2c' = Append(s2c, Response(m.method, TRUE))
               /\ srv' = CASE m.method = "CREATE_SESSION" -> [srv EXCEPT !.session = TRUE]
                           [] m.method = "SET_PARAMETERS" -> [srv EXCEPT !.params = TRUE]
                           [] OTHER -> [srv EXCEPT !.rec = m.rec, !.seg = 1, !.heard = <<>>]
      BY <2>1, <3>2 DEF Acceptable, Methods
    <3>3. QED
      BY <1>15, <2>1, <3>1, <3>2 DEF World, ServeRequest
  <2>4. PICK r : r = Response(m.method, b)
    OBVIOUS
  <2>5. /\ srv.session => srv'.session
        /\ srv.params => srv'.params
        /\ m.method = "CREATE_SESSION" /\ b => srv'.session
        /\ m.method = "SET_PARAMETERS" /\ b => srv'.params /\ srv'.session
        /\ srv'.rec = srv.rec \/ m.method = "START_RECOGNITION"
    BY <1>t, <2>3 DEF ServerType
  <2>6. (Prepared => Prepared') /\ (m.method = "START_RECOGNITION" => Prepared)
    BY <1>t, <2>1, <2>2, <2>5 DEF Prepared, PreparedInv, RequestsPrepared
  <2>7. QuietWhenClosed'
    BY <2>2 DEF PreparedInv, QuietWhenClosed
  <2>8. RequestsPrepared'
    <3>1. \A i \in 1 .. Len(c2s') : c2s'[i] = c2s[i + 1] /\ i + 1 \in 1 .. Len(c2s)
      BY <1>t, <2>2
    <3>2. QED
      BY <2>6, <3>1 DEF PreparedInv, RequestsPrepared
  <2>9. ResponsesPrepared'
    <3>1. Proves(handling)'
      BY <2>2, <2>5, <2>6 DEF PreparedInv, ResponsesPrepared, Proves
    <3>2. Proves(r)'
      BY <2>4, <2>5 DEF Proves, Response
    <3>3. ASSUME NEW i \in 1 .. Len(s2c') PROVE Proves(s2c[i])'
      <4>1. s2c'[i] = r \/ (i \in 1 .. Len(s2c) /\ s2c'[i] = s2c[i])
        BY <1>t, <2>3, <2>4
      <4>2. QED
        BY <2>5, <2>6, <3>2, <4>1 DEF PreparedInv, ResponsesPrepared, Proves
    <3>4. QED
      BY <3>1, <3>3 DEF ResponsesPrepared
  <2>10. QED
    BY <2>2, <2>5, <2>6, <2>7, <2>8, <2>9 DEF PreparedInv
<1>16. CASE World /\ ServeCancel
  <2>1. /\ UNCHANGED <<impl, handling, net, conn>> /\ srv' = [srv EXCEPT !.rec = 0]
        /\ c2s' = Tail(c2s) /\ c2s # <<>>
    BY <1>16 DEF World, ServeCancel, implVars, netVars
  <2>2. srv'.rec = 0 /\ srv'.session = srv.session /\ srv'.params = srv.params
    BY <1>t, <2>1 DEF ServerType
  <2>3. Prepared' <=> Prepared
    BY <2>1, <2>2 DEF Prepared
  <2>4. QuietWhenClosed'
    BY <2>1 DEF PreparedInv, QuietWhenClosed
  <2>5. RequestsPrepared'
    <3>1. \A i \in 1 .. Len(c2s') : c2s'[i] = c2s[i + 1] /\ i + 1 \in 1 .. Len(c2s)
      BY <1>t, <2>1
    <3>2. QED
      BY <2>3, <3>1 DEF PreparedInv, RequestsPrepared
  <2>6. ResponsesPrepared'
    <3>1. PICK r : r = Response("CANCEL_RECOGNITION", TRUE)
      OBVIOUS
    <3>2. \/ s2c' = Append(s2c, r)
          \/ srv.rec # 0 /\ s2c' = Append(Append(s2c, r), Canceled)
      BY <1>16, <3>1 DEF World, ServeCancel
    <3>3. Proves(handling)' /\ Proves(r)' /\ (Prepared => Proves(Canceled)')
      BY <2>1, <2>2, <2>3, <3>1 DEF PreparedInv, ResponsesPrepared,
         Proves, Response, Canceled
    <3>4. srv.rec # 0 => Prepared
      BY DEF PreparedInv
    <3>5. ASSUME NEW i \in 1 .. Len(s2c') PROVE Proves(s2c[i])'
      <4>1. \/ s2c'[i] = r
            \/ srv.rec # 0 /\ s2c'[i] = Canceled
            \/ i \in 1 .. Len(s2c) /\ s2c'[i] = s2c[i]
        BY <1>t, <3>2
      <4>2. CASE i \in 1 .. Len(s2c) /\ s2c'[i] = s2c[i]
        BY <2>2, <2>3, <4>2 DEF PreparedInv, ResponsesPrepared, Proves
      <4>3. QED
        BY <3>3, <3>4, <4>1, <4>2 DEF Proves
    <3>6. QED
      BY <3>3, <3>5 DEF ResponsesPrepared
  <2>7. QED
    BY <2>1, <2>2, <2>3, <2>4, <2>5, <2>6 DEF PreparedInv
<1>17. CASE World /\ ServeAudio
  <2>1. /\ UNCHANGED <<impl, handling, net, conn, s2c>> /\ c2s' = Tail(c2s) /\ c2s # <<>>
        /\ srv'.rec = srv.rec /\ srv'.session = srv.session /\ srv'.params = srv.params
    BY <1>t, <1>17 DEF World, ServeAudio, implVars, netVars, ServerType
  <2>2. Prepared' <=> Prepared
    BY <2>1 DEF Prepared
  <2>3. QuietWhenClosed'
    BY <2>1 DEF PreparedInv, QuietWhenClosed
  <2>4. RequestsPrepared'
    <3>1. \A i \in 1 .. Len(c2s') : c2s'[i] = c2s[i + 1] /\ i + 1 \in 1 .. Len(c2s)
      BY <1>t, <2>1
    <3>2. QED
      BY <2>2, <3>1 DEF PreparedInv, RequestsPrepared
  <2>5. ResponsesPrepared'
    BY <2>1, <2>2 DEF PreparedInv, ResponsesPrepared, Proves
  <2>6. QED
    BY <2>1, <2>2, <2>3, <2>4, <2>5 DEF PreparedInv
<1>18. CASE World /\ ServeResult
  <2>1. /\ UNCHANGED <<impl, handling, net, conn, c2s>>
        /\ srv'.rec \in {srv.rec, 0} /\ srv'.session = srv.session /\ srv'.params = srv.params
    BY <1>t, <1>18 DEF World, ServeResult, implVars, netVars, ServerType
  <2>2. (Prepared' <=> Prepared) /\ Prepared
    BY <1>18, <2>1 DEF World, ServeResult, Prepared, PreparedInv
  <2>3. QuietWhenClosed' /\ RequestsPrepared'
    BY <2>1, <2>2 DEF PreparedInv, QuietWhenClosed, RequestsPrepared
  <2>4. ResponsesPrepared'
    <3>1. PICK r : r = Result(srv.rec, srv.seg)
      OBVIOUS
    <3>2. s2c' = Append(s2c, r)
      BY <1>18, <3>1 DEF World, ServeResult
    <3>3. Proves(handling)' /\ Proves(r)'
      BY <2>1, <2>2, <3>1 DEF PreparedInv, ResponsesPrepared, Proves, Result
    <3>4. ASSUME NEW i \in 1 .. Len(s2c') PROVE Proves(s2c[i])'
      <4>1. s2c'[i] = r \/ (i \in 1 .. Len(s2c) /\ s2c'[i] = s2c[i])
        BY <1>t, <3>2
      <4>2. QED
        BY <2>1, <2>2, <3>3, <4>1 DEF PreparedInv, ResponsesPrepared, Proves
    <3>5. QED
      BY <3>3, <3>4 DEF ResponsesPrepared
  <2>5. QED
    BY <2>1, <2>2, <2>3, <2>4 DEF PreparedInv
<1>19. CASE World /\ Drop
  <2>1. UNCHANGED <<impl, handling, net, srv, c2s, s2c>> /\ conn' = "dropped" /\ conn = "open"
    BY <1>19 DEF World, Drop, implVars, netVars
  <2>2. Prepared' <=> Prepared
    BY <2>1 DEF Prepared
  <2>3. QuietWhenClosed'
    BY <2>1 DEF PreparedInv, QuietWhenClosed
  <2>4. RequestsPrepared' /\ ResponsesPrepared'
    BY <2>1, <2>2 DEF PreparedInv, RequestsPrepared, ResponsesPrepared, Proves
  <2>5. QED
    BY <2>1, <2>2, <2>3, <2>4 DEF PreparedInv
<1>20. QED
  BY <1>1, <1>2, <1>3, <1>4, <1>5, <1>6, <1>7, <1>8, <1>10, <1>11, <1>12,
     <1>13, <1>14,
     <1>15, <1>16, <1>17, <1>18, <1>19
  DEF Next, PublicCall, AppStep, NetStep, AudioStep, World, ServerStep

(* In every behaviour the messages under way prove what the server has     *)
(* done: process_msg.cc asks for the next thing only on a response to the  *)
(* one before, and no response outlives the connection it came on.         *)
THEOREM PreparedInvHolds == Spec => []PreparedInv
<1>1. Init => PreparedInv
  <2>1. ASSUME Init PROVE PreparedInv
    BY <2>1 DEF Init, WireInit, NewImpl, NewServer, PreparedInv,
       QuietWhenClosed, RequestsPrepared, ResponsesPrepared, Proves, None
  <2>2. QED
    BY <2>1
<1>2. TypeOK /\ PreparedInv /\ [Next]_vars => PreparedInv'
  BY StepPreparedInv
<1>3. QED
  BY <1>1, <1>2, Typing, PTL DEF Spec

(* In every behaviour, with any faults and any order of public calls, the  *)
(* server runs a recognition only in a session that took the parameters of *)
(* a configured Impl, and START_RECOGNITION reaches it only then: the      *)
(* chain CREATE_SESSION, SET_PARAMETERS, START_RECOGNITION that            *)
(* process_msg.cc drives by responses cannot be overtaken.                 *)
THEOREM ServerPreparedHolds == Spec => []ServerPrepared
<1>1. TypeOK /\ PreparedInv => ServerPrepared
  BY DEF TypeOK, WireTypeOK, PreparedInv, RequestsPrepared, ServerPrepared
<1>2. QED
  BY <1>1, PreparedInvHolds, Typing, PTL
=============================================================================
