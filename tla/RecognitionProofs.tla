------------------------- MODULE RecognitionProofs -------------------------
(***************************************************************************)
(* One recognition at a time: what Recognizer promises to a program that   *)
(* never cancels, for every value of the constants.                        *)
(***************************************************************************)
EXTENDS RecognizerProofs

(* The types the proofs below read.                                        *)
LEMMA Types ==
  ASSUME TypeOK
  PROVE  /\ impl \in ImplType /\ srv \in ServerType
         /\ c2s \in Seq(Requests) /\ s2c \in Seq(Messages)
         /\ handling \in Messages \cup {None, Pushed}
         /\ n \in Recogs /\ given \in Seq(Segment) /\ impl.result \in Seq(Segment)
BY DEF TypeOK, WireTypeOK, ImplType

-----------------------------------------------------------------------------
(* The queue of what comes back.                                           *)

(* A message put in front of a queue moves the others by one place.        *)
LEMMA InFront ==
  ASSUME NEW T, NEW s \in Seq(T), NEW h
  PROVE  /\ Len(<<h>> \o s) = Len(s) + 1
         /\ \A i \in 1 .. Len(s) + 1 : (<<h>> \o s)[i] = IF i = 1 THEN h ELSE s[i - 1]
OBVIOUS

(* What is in Inbound.                                                     *)
LEMMA InboundIs ==
  ASSUME TypeOK
  PROVE  /\ Coming = 1 .. Len(s2c) + 1 /\ Len(s2c) \in Nat
         /\ \A i \in Coming : Inbound[i] = IF i = 1 THEN handling ELSE s2c[i - 1]
         /\ \A i \in Coming : Inbound[i] \in Messages \cup {None, Pushed}
<1>1. s2c \in Seq(Messages) /\ handling \in Messages \cup {None, Pushed}
  BY Types
<1>2. /\ Coming = 1 .. Len(s2c) + 1 /\ Len(s2c) \in Nat
      /\ \A i \in Coming : Inbound[i] = IF i = 1 THEN handling ELSE s2c[i - 1]
  BY <1>1, InFront DEF Coming, Inbound
<1>3. \A i \in Coming : i # 1 => i - 1 \in 1 .. Len(s2c)
  BY <1>2
<1>4. \A i \in Coming : Inbound[i] \in Messages \cup {None, Pushed}
  BY <1>1, <1>2, <1>3
<1>5. QED
  BY <1>2, <1>4

(* A step that takes the next message to handle moves Inbound by one.      *)
LEMMA InboundTaken ==
  ASSUME TypeOK, s2c # <<>>, handling' = Head(s2c), s2c' = Tail(s2c)
  PROVE  \A i \in Coming' : i \in Nat /\ i + 1 \in Coming /\ Inbound'[i] = Inbound[i + 1]
<1>1. s2c \in Seq(Messages) /\ s2c' \in Seq(Messages) /\ Len(s2c') = Len(s2c) - 1
  BY Types
<1>2. /\ Coming' = 1 .. Len(s2c)
      /\ \A i \in Coming' : Inbound'[i] = IF i = 1 THEN handling' ELSE s2c'[i - 1]
  BY <1>1, InFront DEF Coming, Inbound
<1>3. \A i \in Coming' : (IF i = 1 THEN handling' ELSE s2c'[i - 1]) = s2c[i]
  BY <1>1, <1>2
<1>4. \A i \in Coming' : i + 1 \in Coming /\ i + 1 # 1 /\ (i + 1) - 1 = i
  BY <1>2, InboundIs
<1>5. QED
  BY <1>2, <1>3, <1>4, InboundIs

(* A step of a handler changes the first place of Inbound only.            *)
LEMMA InboundHandled ==
  ASSUME TypeOK, UNCHANGED s2c
  PROVE  /\ Coming' = Coming /\ 1 \in Coming /\ Coming \subseteq Nat \ {0}
         /\ Inbound[1] = handling /\ Inbound'[1] = handling'
         /\ \A i \in Coming : i # 1 => Inbound'[i] = Inbound[i]
<1>1. s2c \in Seq(Messages) /\ s2c' \in Seq(Messages)
  BY Types
<1>2. /\ Coming' = 1 .. Len(s2c) + 1
      /\ \A i \in Coming' : Inbound'[i] = IF i = 1 THEN handling' ELSE s2c'[i - 1]
  BY <1>1, InFront DEF Coming, Inbound
<1>3. QED
  BY <1>1, <1>2, InboundIs

(* A message of the server comes after all others.                         *)
LEMMA InboundArrived ==
  ASSUME TypeOK, UNCHANGED handling, NEW r \in Messages, s2c' = Append(s2c, r)
  PROVE  \A i \in Coming' :
           \/ i \in Coming /\ Inbound'[i] = Inbound[i]
           \/ Inbound'[i] = r /\ i \notin Coming /\ \A j \in Coming : j < i
<1>1. s2c \in Seq(Messages) /\ s2c' \in Seq(Messages) /\ Len(s2c') = Len(s2c) + 1
  BY Types
<1>2. /\ Coming' = 1 .. Len(s2c) + 2
      /\ \A i \in Coming' : Inbound'[i] = IF i = 1 THEN handling' ELSE s2c'[i - 1]
  BY <1>1, InFront DEF Coming, Inbound
<1>3. ASSUME NEW i \in Coming'
      PROVE  \/ i \in Coming /\ Inbound'[i] = Inbound[i]
             \/ Inbound'[i] = r /\ i \notin Coming /\ \A j \in Coming : j < i
  <2>1. CASE i = Len(s2c) + 2
    <3>1. Inbound'[i] = r
      BY <1>1, <1>2, <2>1
    <3>2. i \notin Coming /\ \A j \in Coming : j < i
      BY <1>1, <2>1, InboundIs
    <3>3. QED
      BY <3>1, <3>2
  <2>2. CASE i # Len(s2c) + 2
    <3>1. i \in Coming /\ i \in 1 .. Len(s2c) + 1
      BY <1>1, <1>2, <2>2, InboundIs
    <3>2. i # 1 => s2c'[i - 1] = s2c[i - 1]
      BY <1>1, <3>1
    <3>3. QED
      BY <1>2, <3>1, <3>2, InboundIs
  <2>3. QED
    BY <2>1, <2>2
<1>4. QED
  BY <1>3

-----------------------------------------------------------------------------
(* Steps that keep OneRecognition, by what they change.                    *)

(* What a step stores and hands out, told by the sequences it changes.     *)
LEMMA StoredSame ==
  ASSUME UNCHANGED given, impl'.result = impl.result
  PROVE  Stored' = Stored
BY DEF Stored

LEMMA StoredInOrderSame ==
  ASSUME StoredInOrder, UNCHANGED <<given, n>>, impl'.result = impl.result,
         pc = "clear" => pc' = "clear"
  PROVE  StoredInOrder'
<1>1. Stored' = Stored
  BY StoredSame
<1>2. (\A x \in Stored : x.rec = n)'
  BY <1>1 DEF StoredInOrder
<1>3. Ascending(given)' /\ Ascending(impl.result)'
  BY DEF StoredInOrder, Ascending
<1>4. (pc # "clear" => \A i \in 1 .. Len(given), j \in 1 .. Len(impl.result) :
                        given[i].seg < impl.result[j].seg)'
  BY DEF StoredInOrder
<1>5. QED
  BY <1>2, <1>3, <1>4 DEF StoredInOrder

(* The wait clears what is stored.                                         *)
LEMMA StoredCleared ==
  ASSUME given' = given \/ given' = <<>>, impl'.result = <<>>
  PROVE  Stored' \subseteq Stored
BY DEF Stored

(* What OneRecognition asks of the requests alone.                         *)
RequestsOfOne ==
  /\ \A i \in 1 .. Len(c2s) : c2s[i].method # "CANCEL_RECOGNITION"
  /\ \A i, j \in 1 .. Len(c2s) : Asks(i) /\ Asks(j) => i = j
  /\ \A i \in 1 .. Len(c2s) : c2s[i].method = "START_RECOGNITION" => c2s[i].rec = n

(* A step that leaves alone what comes back and the server's recognition,  *)
(* begins no recognition, asks for nothing and stores nothing new.         *)
LEMMA SteadyInbound ==
  ASSUME OneRecognition, UNCHANGED <<s2c, handling, n>>,
         srv'.rec = srv.rec, srv'.seg = srv.seg,
         Requested' => Requested, RequestsOfOne',
         impl'.recognizing = impl.recognizing,
         Asking' => Asking, Stored' \subseteq Stored, StoredInOrder'
  PROVE  OneRecognition'
<1>1. Inbound' = Inbound /\ Coming' = Coming
  BY DEF Inbound, Coming
<1>2. Preparing' => Preparing
  BY <1>1 DEF Preparing, InResponse
<1>3. NoCancelUnderway'
  BY <1>1 DEF OneRecognition, NoCancelUnderway, RequestsOfOne, InResponse
<1>4. OneRequest'
  BY <1>1 DEF OneRecognition, OneRequest, RequestsOfOne, InResponse
<1>5. InboundInOrder'
  BY <1>1 DEF OneRecognition, InboundInOrder, InResponse, InAnswer, InSeg
<1>6. FreshStart'
  BY <1>1, <1>2 DEF OneRecognition, FreshStart, InResponse, InAnswer
<1>7. LaterSegments'
  BY <1>1 DEF OneRecognition, LaterSegments, InAnswer, InSeg
<1>8. NothingWhenIdle'
  BY <1>1 DEF OneRecognition, NothingWhenIdle, InResponse, InAnswer
<1>9. QED
  BY <1>3, <1>4, <1>5, <1>6, <1>7, <1>8 DEF OneRecognition

(* The same for a step that sends and takes no request either.             *)
LEMMA Steady ==
  ASSUME OneRecognition, UNCHANGED <<c2s, s2c, srv, handling, n>>,
         impl'.recognizing = impl.recognizing,
         Asking' => Asking, Stored' \subseteq Stored, StoredInOrder'
  PROVE  OneRecognition'
<1>1. Requested' => Requested
  BY DEF Requested, Asks
<1>2. RequestsOfOne'
  BY DEF OneRecognition, OneRequest, NoCancelUnderway, RequestsOfOne, Asks
<1>3. QED
  BY <1>1, <1>2, SteadyInbound

(* The same for a step that keeps the results as they are.                 *)
LEMMA Idle ==
  ASSUME OneRecognition, UNCHANGED <<c2s, s2c, srv, handling, n, given>>,
         impl'.recognizing = impl.recognizing, impl'.result = impl.result,
         Asking' => Asking, pc = "clear" => pc' = "clear"
  PROVE  OneRecognition'
<1>1. Stored' = Stored /\ StoredInOrder'
  BY StoredSame, StoredInOrderSame DEF OneRecognition
<1>2. QED
  BY <1>1, Steady

(* A handler that is done with its message and stores nothing.             *)
LEMMA Handled ==
  ASSUME TypeOK, OneRecognition, UNCHANGED <<c2s, s2c, srv, n, given>>,
         handling' = None,
         impl'.recognizing = impl.recognizing, impl'.result = impl.result,
         Asking' => Asking, pc = "clear" => pc' = "clear"
  PROVE  OneRecognition'
<1>1. /\ Coming' = Coming
      /\ \A i \in Coming : i # 1 => Inbound'[i] = Inbound[i]
      /\ Inbound'[1] = None
  BY InboundHandled
<1>2. /\ \A i \in Coming : InResponse(i)' => InResponse(i) /\ Inbound'[i] = Inbound[i]
      /\ \A i \in Coming : InAnswer(i)' => InAnswer(i) /\ Inbound'[i] = Inbound[i]
      /\ \A i \in Coming : Inbound'[i].kind \in {"RESULT", "CANCELED"} => Inbound'[i] = Inbound[i]
  BY <1>1 DEF InResponse, InAnswer, None
<1>3. Requested' = Requested /\ Stored' = Stored
  BY DEF Requested, Asks, Stored
<1>4. Preparing' => Preparing
  BY <1>1, <1>2, <1>3 DEF Preparing
<1>5. NoCancelUnderway'
  BY <1>1, <1>2 DEF OneRecognition, NoCancelUnderway
<1>6. OneRequest'
  BY <1>1, <1>2, <1>3 DEF OneRecognition, OneRequest, Asks
<1>7. InboundInOrder'
  BY <1>1, <1>2 DEF OneRecognition, InboundInOrder, InSeg
<1>8. FreshStart'
  BY <1>1, <1>2, <1>3, <1>4 DEF OneRecognition, FreshStart
<1>9. LaterSegments'
  BY <1>1, <1>2, <1>3 DEF OneRecognition, LaterSegments, InSeg
<1>10. StoredInOrder'
  BY StoredInOrderSame DEF OneRecognition
<1>11. NothingWhenIdle'
  BY <1>1, <1>2, <1>3 DEF OneRecognition, NothingWhenIdle
<1>12. QED
  BY <1>5, <1>6, <1>7, <1>8, <1>9, <1>10, <1>11 DEF OneRecognition

(* Requests of the queue after one more was sent.                          *)
LEMMA RequestSent ==
  ASSUME TypeOK, NEW m \in Requests, Sent(m)
  PROVE  \A i \in 1 .. Len(c2s') :
           \/ i \in 1 .. Len(c2s) /\ c2s'[i] = c2s[i]
           \/ i = Len(c2s) + 1 /\ c2s'[i] = m
<1>1. c2s \in Seq(Requests) /\ (c2s' = c2s \/ c2s' = Append(c2s, m))
  BY Types DEF Sent
<1>2. QED
  BY <1>1

(* Requests of the queue after the server took the first.                  *)
LEMMA RequestTaken ==
  ASSUME TypeOK, c2s # <<>>, c2s' = Tail(c2s)
  PROVE  /\ 1 \in 1 .. Len(c2s) /\ c2s[1] = Head(c2s)
         /\ \A i \in 1 .. Len(c2s') : /\ i \in Nat \ {0} /\ i + 1 \in 1 .. Len(c2s)
                                     /\ c2s'[i] = c2s[i + 1]
<1>1. c2s \in Seq(Requests)
  BY Types
<1>2. QED
  BY <1>1

(* A step that sends, in place of what it was about, the next request.     *)
LEMMA Moved ==
  ASSUME TypeOK, OneRecognition, UNCHANGED <<s2c, srv, n, given>>,
         NEW m \in Requests, Sent(m), m.method # "CANCEL_RECOGNITION",
         m.method = "START_RECOGNITION" => m.rec = n,
         ~Requested, ~Asking', srv.rec = 0, Stored = {}, impl.recognizing,
         handling' = None,
         \A i \in Coming : i # 1 => ~InResponse(i),
         \A i \in Coming : ~InAnswer(i),
         impl'.recognizing = impl.recognizing, impl'.result = impl.result,
         pc = "clear" => pc' = "clear"
  PROVE  OneRecognition'
<1>1. /\ Coming' = Coming
      /\ \A i \in Coming : i # 1 => Inbound'[i] = Inbound[i]
      /\ Inbound'[1] = None
  BY InboundHandled
<1>2. \A i \in Coming : ~InResponse(i)' /\ ~InAnswer(i)'
  BY <1>1 DEF InResponse, InAnswer, None
<1>3. \A i \in Coming : Inbound'[i].kind # "CANCELED"
  BY <1>1 DEF OneRecognition, NoCancelUnderway, None
<1>4. \A i \in 1 .. Len(c2s') :
        \/ i \in 1 .. Len(c2s) /\ c2s'[i] = c2s[i]
        \/ i = Len(c2s) + 1 /\ c2s'[i] = m
  BY RequestSent
<1>5. Stored' = {}
  BY StoredSame
<1>6. \A i \in 1 .. Len(c2s') : Asks(i)' => i = Len(c2s) + 1
  BY <1>4 DEF Requested, Asks
<1>7. NoCancelUnderway'
  BY <1>1, <1>2, <1>3, <1>4 DEF OneRecognition, NoCancelUnderway
<1>8. OneRequest'
  BY <1>1, <1>2, <1>4, <1>6 DEF OneRecognition, OneRequest, Requested
<1>9. InboundInOrder'
  BY <1>1, <1>2 DEF InboundInOrder
<1>10. FreshStart'
  BY <1>1, <1>2, <1>5 DEF FreshStart
<1>11. LaterSegments'
  BY <1>1, <1>2 DEF LaterSegments, InAnswer
<1>12. StoredInOrder'
  BY StoredInOrderSame DEF OneRecognition
<1>13. NothingWhenIdle'
  BY DEF NothingWhenIdle
<1>14. QED
  BY <1>7, <1>8, <1>9, <1>10, <1>11, <1>12, <1>13 DEF OneRecognition

-----------------------------------------------------------------------------
(* Every step keeps OneRecognition.                                        *)

(* App's steps that only move App, or its connection.                      *)
LEMMA AppKeeps ==
  ASSUME TypeOK, PreparedInv, OneRecognition,
         \/ RecognizeRefuse \/ WaitBegin \/ CloseBegin \/ DestroyBegin
         \/ Connect \/ Opened \/ Check \/ Block \/ Timeout
         \/ Stop \/ Join \/ CloseThrows \/ Joined \/ WsClose
  PROVE  OneRecognition'
<1>1. impl \in ImplType
  BY Types
<1>2. /\ UNCHANGED <<c2s, s2c, srv, handling, n, given>>
      /\ impl'.recognizing = impl.recognizing /\ impl'.result = impl.result
  BY <1>1 DEF RecognizeRefuse, WaitBegin, CloseBegin, DestroyBegin, Connect, Opened,
     Check, Block, Timeout, Stop, Join, CloseThrows, Joined, WsClose, ImplType, appVars, implVars,
     netVars, wireVars
<1>3. pc # "clear"
  BY DEF RecognizeRefuse, WaitBegin, CloseBegin, DestroyBegin, Connect, Opened,
     Check, Block, Timeout, Stop, Join, CloseThrows, Joined, WsClose, Call, At
<1>4. Asking' => Asking
  <2>1. CASE RecognizeRefuse \/ WaitBegin \/ CloseBegin \/ DestroyBegin
    BY <2>1 DEF RecognizeRefuse, WaitBegin, CloseBegin, DestroyBegin, Call, At, Return,
       Asking
  <2>2. CASE Connect \/ Opened \/ Check \/ Block \/ Timeout
    BY <2>2 DEF Connect, Opened, Check, Block, Timeout, At, Return, AfterWait, Asking
  <2>3. CASE Stop \/ Join \/ CloseThrows \/ Joined \/ WsClose
    BY <2>3 DEF Stop, Join, CloseThrows, Joined, WsClose, At, Return, Asking
  <2>4. QED
    BY <2>1, <2>2, <2>3
<1>5. QED
  BY <1>2, <1>3, <1>4, Idle

(* What goes on under App: the connection, the audio, a lost connection.   *)
LEMMA RestKeeps ==
  ASSUME TypeOK, PreparedInv, OneRecognition,
         \/ NetOpen \/ NetFail \/ NetClosed \/ NetExit
         \/ AudioRead \/ AudioReady \/ AudioLog \/ (World /\ Drop)
  PROVE  OneRecognition'
<1>1. impl \in ImplType
  BY Types
<1>2. /\ UNCHANGED <<c2s, s2c, srv, handling, n, given, cont>>
      /\ impl'.recognizing = impl.recognizing /\ impl'.result = impl.result
  BY <1>1 DEF NetOpen, NetFail, NetClosed, NetExit, AudioRead, AudioReady, AudioLog,
     World, Drop, ImplType, appVars, implVars, netVars, wireVars
<1>3. pc' = pc \/ (pc = "blocked" /\ pc' = "check")
  BY DEF NetOpen, NetFail, NetClosed, NetExit, AudioRead, AudioReady, AudioLog,
     World, Drop, Notify, appVars
<1>4. Asking' => Asking
  BY <1>2, <1>3 DEF Asking
<1>5. QED
  BY <1>2, <1>3, <1>4, Idle

(* Handlers that do nothing but note a failure or start the audio.         *)
LEMMA HandlersKeep ==
  ASSUME TypeOK, OneRecognition, HandleFailure \/ HandleStart
  PROVE  OneRecognition'
<1>1. impl \in ImplType
  BY Types
<1>2. /\ UNCHANGED <<c2s, s2c, srv, n, given, cont>> /\ handling' = None
      /\ impl'.recognizing = impl.recognizing /\ impl'.result = impl.result
  BY <1>1 DEF HandleFailure, HandleStart, ImplType, appVars, implVars, wireVars
<1>3. pc' = pc \/ (pc = "blocked" /\ pc' = "check")
  BY DEF HandleFailure, HandleStart, Notify, appVars
<1>4. Asking' => Asking
  BY <1>2, <1>3 DEF Asking
<1>5. QED
  BY <1>2, <1>3, <1>4, Handled

(* A recognition begins when there is nothing of the one before.           *)
LEMMA RecognizeKeeps ==
  ASSUME TypeOK, OneRecognition, NEW lm \in Lms, RecognizeBegin(lm)
  PROVE  OneRecognition'
<1>1. /\ UNCHANGED <<c2s, s2c, srv, handling>> /\ pc # "clear" /\ pc' # "clear"
      /\ given' = <<>> /\ impl'.result = <<>> /\ impl'.recognizing /\ ~impl.recognizing
  BY Types DEF RecognizeBegin, Call, At, ImplType, netVars, wireVars
<1>2. /\ ~Requested /\ srv.rec = 0
      /\ \A i \in Coming : ~InResponse(i) /\ ~InAnswer(i)
  BY <1>1 DEF OneRecognition, NothingWhenIdle
<1>3. Inbound' = Inbound /\ Coming' = Coming
  BY <1>1 DEF Inbound, Coming
<1>4. \A i \in Coming' : ~InResponse(i)' /\ ~InAnswer(i)'
  BY <1>2, <1>3 DEF InResponse, InAnswer
<1>5. Stored' = {}
  BY <1>1 DEF Stored
<1>6. ~Requested'
  BY <1>1, <1>2 DEF Requested, Asks
<1>7. NoCancelUnderway'
  BY <1>1, <1>3, <1>4 DEF OneRecognition, NoCancelUnderway
<1>8. OneRequest'
  BY <1>1, <1>4, <1>2, <1>6, Types DEF OneRequest, Requested, Asks
<1>9. InboundInOrder'
  BY <1>4 DEF InboundInOrder
<1>10. FreshStart'
  BY <1>1, <1>2, <1>4, <1>5 DEF FreshStart
<1>11. LaterSegments'
  BY <1>1, <1>2, <1>4 DEF LaterSegments, InAnswer
<1>12. StoredInOrder'
  BY <1>1, <1>5 DEF StoredInOrder, Ascending
<1>13. NothingWhenIdle'
  BY <1>1 DEF NothingWhenIdle
<1>14. QED
  BY <1>7, <1>8, <1>9, <1>10, <1>11, <1>12, <1>13 DEF OneRecognition

(* One ascending sequence after another, all of whose segments are later.  *)
LEMMA AscendingConcat ==
  ASSUME NEW s \in Seq(Segment), NEW t \in Seq(Segment), Ascending(s), Ascending(t),
         \A i \in 1 .. Len(s), j \in 1 .. Len(t) : s[i].seg < t[j].seg
  PROVE  Ascending(s \o t)
<1>1. Len(s \o t) = Len(s) + Len(t)
  OBVIOUS
<1>2. \A i \in 1 .. Len(s \o t) : IF i <= Len(s) THEN i \in 1 .. Len(s) /\ (s \o t)[i] = s[i]
                                  ELSE /\ i - Len(s) \in 1 .. Len(t)
                                       /\ (s \o t)[i] = t[i - Len(s)]
  OBVIOUS
<1> DEFINE u == s \o t
<1>3. Len(u) \in Nat /\ Len(s) \in Nat
  BY <1>1
<1> HIDE DEF u
<1>4. ASSUME NEW i \in 1 .. Len(u), NEW j \in 1 .. Len(u), i < j
      PROVE  u[i].seg < u[j].seg
  <2>1. CASE j <= Len(s)
    <3>1. i <= Len(s)
      BY <1>3, <1>4, <2>1
    <3>2. QED
      BY <1>2, <1>4, <2>1, <3>1 DEF u, Ascending
  <2>2. CASE i <= Len(s) /\ ~(j <= Len(s))
    BY <1>2, <2>2 DEF u
  <2>3. CASE ~(i <= Len(s))
    <3>1. ~(j <= Len(s)) /\ i - Len(s) < j - Len(s)
      BY <1>3, <1>4, <2>3
    <3>2. QED
      BY <1>2, <2>3, <3>1 DEF u, Ascending
  <2>4. QED
    BY <2>1, <2>2, <2>3
<1>5. QED
  BY <1>4 DEF u, Ascending

(* What is in one sequence after another.                                  *)
LEMMA ElementsConcat ==
  ASSUME NEW s \in Seq(Segment), NEW t \in Seq(Segment)
  PROVE  \A i \in 1 .. Len(s \o t) :
           \/ \E j \in 1 .. Len(s) : (s \o t)[i] = s[j]
           \/ \E j \in 1 .. Len(t) : (s \o t)[i] = t[j]
<1>1. \A i \in 1 .. Len(s \o t) : IF i <= Len(s) THEN i \in 1 .. Len(s) /\ (s \o t)[i] = s[i]
                                  ELSE /\ i - Len(s) \in 1 .. Len(t)
                                       /\ (s \o t)[i] = t[i - Len(s)]
  OBVIOUS
<1>2. QED
  BY <1>1

(* The results a wait hands out, before or without clearing them.          *)
LEMMA HandOut ==
  ASSUME TypeOK, OneRecognition, pc # "clear", UNCHANGED n,
         given' = given \/ given' = given \o impl.result,
         \/ impl'.result = impl.result /\ pc' = "clear"
         \/ impl'.result = <<>>
  PROVE  Stored' \subseteq Stored /\ StoredInOrder'
<1>1. given \in Seq(Segment) /\ impl.result \in Seq(Segment)
  BY Types
<1>2. Ascending(given) /\ Ascending(impl.result) /\ Ascending(given \o impl.result)
  BY <1>1, AscendingConcat DEF OneRecognition, StoredInOrder
<1>3. Stored' \subseteq Stored
  <2>1. ASSUME NEW i \in 1 .. Len(given') PROVE given'[i] \in Stored
    <3>1. CASE given' = given
      BY <3>1 DEF Stored
    <3>2. CASE given' = given \o impl.result
      <4>1. \/ \E j \in 1 .. Len(given) : given'[i] = given[j]
            \/ \E j \in 1 .. Len(impl.result) : given'[i] = impl.result[j]
        BY <1>1, <3>2, ElementsConcat
      <4>2. QED
        BY <4>1 DEF Stored
    <3>3. QED
      BY <3>1, <3>2
  <2>2. {impl'.result[i] : i \in 1 .. Len(impl'.result)} \subseteq Stored
    BY DEF Stored
  <2>3. QED
    BY <2>1, <2>2 DEF Stored
<1>4. (\A x \in Stored : x.rec = n)'
  BY <1>3 DEF OneRecognition, StoredInOrder
<1>5. Ascending(given')
  BY <1>2
<1>6. Ascending(impl'.result)
  <2>1. Ascending(<<>>)
    BY DEF Ascending
  <2>2. QED
    BY <1>2, <2>1
<1>7. pc' # "clear" => impl'.result = <<>>
  OBVIOUS
<1>8. QED
  BY <1>3, <1>4, <1>5, <1>6, <1>7 DEF StoredInOrder, Ascending

(* The wait hands out results, once.                                       *)
LEMMA WaitKeeps ==
  ASSUME TypeOK, OneRecognition, WaitClosed \/ CopyResults
  PROVE  OneRecognition'
<1>1. impl \in ImplType
  BY Types
<1>2. /\ UNCHANGED <<c2s, s2c, srv, handling, n>> /\ pc # "clear"
      /\ impl'.recognizing = impl.recognizing
      /\ given' = given \/ given' = given \o impl.result
      /\ \/ impl'.result = impl.result /\ pc' = "clear"
         \/ impl'.result = <<>>
  BY <1>1 DEF WaitClosed, CopyResults, Call, At, ImplType, implVars, netVars, wireVars
<1>3. ~Asking'
  BY DEF WaitClosed, CopyResults, Asking, Return
<1>4. QED
  BY <1>2, <1>3, HandOut, Steady

LEMMA ClearKeeps ==
  ASSUME TypeOK, OneRecognition, ClearResults
  PROVE  OneRecognition'
<1>1. impl \in ImplType
  BY Types
<1>2. /\ UNCHANGED <<c2s, s2c, srv, handling, n, given>>
      /\ impl'.recognizing = impl.recognizing /\ impl'.result = <<>>
  BY <1>1 DEF ClearResults, ImplType, netVars, wireVars
<1>3. ~Asking'
  BY DEF ClearResults, Asking, Return
<1>4. Stored' \subseteq Stored
  BY <1>2 DEF Stored
<1>5. StoredInOrder'
  <2>1. (\A x \in Stored : x.rec = n)'
    BY <1>2, <1>4 DEF OneRecognition, StoredInOrder
  <2>2. Ascending(given)' /\ Ascending(impl.result)'
    BY <1>2 DEF OneRecognition, StoredInOrder, Ascending
  <2>3. QED
    BY <1>2, <2>1, <2>2 DEF StoredInOrder
<1>6. QED
  BY <1>2, <1>3, <1>4, <1>5, Steady

(* The asio thread is joined.  A reset leaves nothing of the connection.   *)
LEMMA JoinNetKeeps ==
  ASSUME TypeOK, PreparedInv, OneRecognition, JoinNet
  PROVE  OneRecognition'
<1>1. impl \in ImplType
  BY Types
<1>2. pc = "joinNet" /\ ~Asking' /\ UNCHANGED <<n, given, handling>>
  BY DEF JoinNet, At, Asking, Return
<1>3. CASE cont = "reset" /\ audio = "none"
  <2>1. /\ impl'.result = <<>> /\ c2s' = <<>> /\ s2c' = <<>> /\ srv'.rec = 0
    BY <1>3 DEF JoinNet, NewImpl, NewServer
  <2>2. handling' = None
    BY DEF JoinNet, PreparedInv, QuietWhenClosed
  <2>3. Coming' = {1} /\ Inbound'[1] = None
    BY <2>1, <2>2 DEF Coming, Inbound
  <2>4. /\ (\A i \in Coming : ~InResponse(i) /\ ~InAnswer(i))'
        /\ (\A i \in Coming : Inbound[i].kind # "CANCELED")'
    BY <2>3 DEF InResponse, InAnswer, None
  <2>5. ~Requested' /\ \A i \in 1 .. Len(c2s') : FALSE
    BY <2>1 DEF Requested
  <2>6. Stored' \subseteq Stored
    BY <1>2, <2>1 DEF Stored
  <2>7. StoredInOrder'
    <3>1. (\A x \in Stored : x.rec = n)'
      BY <1>2, <2>6 DEF OneRecognition, StoredInOrder
    <3>2. Ascending(given)' /\ Ascending(impl.result)'
      BY <1>2, <2>1 DEF OneRecognition, StoredInOrder, Ascending
    <3>3. QED
      BY <2>1, <3>1, <3>2 DEF StoredInOrder
  <2>8. NoCancelUnderway' /\ OneRequest'
    BY <1>2, <2>4, <2>5 DEF NoCancelUnderway, OneRequest
  <2>9. InboundInOrder' /\ FreshStart' /\ LaterSegments'
    <3>1. ~Preparing'
      BY <1>2, <2>4, <2>5 DEF Preparing
    <3>2. InboundInOrder'
      BY <2>4 DEF InboundInOrder
    <3>3. FreshStart'
      BY <2>4, <3>1 DEF FreshStart
    <3>4. LaterSegments'
      BY <2>1, <2>4 DEF LaterSegments, InAnswer
    <3>5. QED
      BY <3>2, <3>3, <3>4
  <2>10. NothingWhenIdle'
    BY <1>2, <2>1, <2>4, <2>5 DEF NothingWhenIdle
  <2>11. QED
    BY <2>7, <2>8, <2>9, <2>10 DEF OneRecognition
<1>4. CASE ~(cont = "reset" /\ audio = "none")
  <2>1. /\ UNCHANGED <<c2s, s2c, srv>>
        /\ impl'.recognizing = impl.recognizing /\ impl'.result = impl.result
    BY <1>1, <1>4 DEF JoinNet, ImplType
  <2>2. QED
    BY <1>2, <2>1, Idle
<1>5. QED
  BY <1>3, <1>4

(* When neither a response nor a result comes, no message is handled.      *)
LEMMA NothingHandled ==
  ASSUME TypeOK, OneRecognition, \A i \in Coming : ~InResponse(i) /\ ~InAnswer(i)
  PROVE  handling = None
<1>1. 1 \in Coming /\ Inbound[1] = handling
  BY InboundIs
<1>2. handling.kind \notin {"RESPONSE", "RESULT", "PUSHED", "CANCELED"}
  BY <1>1 DEF InResponse, InAnswer, OneRecognition, NoCancelUnderway
<1>3. handling \in Messages \cup {None, Pushed}
  BY Types
<1>4. QED
  BY <1>2, <1>3 DEF Messages, Responses, Results, Canceleds, Pushed

(* recognize() ends with the request that its recognition needs next.      *)
LEMMA SendRequestKeeps ==
  ASSUME TypeOK, OneRecognition, SendRequest
  PROVE  OneRecognition'
<1>1. /\ UNCHANGED <<s2c, srv, handling, n, given>> /\ pc = "request" /\ pc' = "idle"
      /\ impl'.recognizing = impl.recognizing /\ impl'.result = impl.result
  BY Types DEF SendRequest, At, Return, ImplType, netVars
<1>2. Asking /\ ~Asking' /\ Preparing
  BY <1>1 DEF Asking, Preparing
<1>3. CASE impl.session # "none" /\ impl.lm = "empty"
  BY <1>1, <1>2, <1>3, Idle DEF SendRequest
<1>4. CASE ~(impl.session # "none" /\ impl.lm = "empty")
  <2>1. PICK m \in Requests :
          /\ Sent(m) /\ m.method # "CANCEL_RECOGNITION"
          /\ m.method = "START_RECOGNITION" => m.rec = n
    BY <1>4, ClientRequests DEF SendRequest, CreateSession, StartRecognition, Request
  <2>2. /\ ~Requested /\ srv.rec = 0 /\ Stored = {} /\ impl.recognizing
        /\ \A i \in Coming : ~InResponse(i) /\ ~InAnswer(i)
    BY <1>2, Types DEF OneRecognition, OneRequest, FreshStart, NothingWhenIdle, ImplType
  <2>3. handling' = None
    BY <1>1, <2>2, NothingHandled
  <2>4. QED
    BY <1>1, <1>2, <2>1, <2>2, <2>3, Moved
<1>5. QED
  BY <1>3, <1>4

(* A handler asks for the next thing when the one before is done.          *)
LEMMA ResponseKeeps ==
  ASSUME TypeOK, OneRecognition, HandleCreateSession \/ HandleSetParameters
  PROVE  OneRecognition'
<1>1. /\ UNCHANGED <<s2c, srv, n, given, cont>> /\ handling' = None
      /\ handling.kind = "RESPONSE" /\ handling.method # "START_RECOGNITION"
      /\ pc' = pc \/ (pc = "blocked" /\ pc' = "check")
  BY DEF HandleCreateSession, HandleSetParameters, Handles, Handling, NetStart, Notify
<1>2. 1 \in Coming /\ Inbound[1] = handling /\ Coming \subseteq Nat
  BY InboundIs
<1>3. Preparing /\ ~Asking /\ ~Requested
  BY <1>1, <1>2 DEF Preparing, InResponse, OneRecognition, OneRequest
<1>4. /\ srv.rec = 0 /\ Stored = {} /\ impl.recognizing
      /\ \A i \in Coming : ~InAnswer(i)
      /\ \A i \in Coming : i # 1 => ~InResponse(i)
  BY <1>1, <1>2, <1>3 DEF OneRecognition, FreshStart, NothingWhenIdle, InboundInOrder, InResponse
<1>5. ~Asking'
  BY <1>1, <1>3 DEF Asking
<1>6. /\ impl'.recognizing = impl.recognizing /\ impl'.result = impl.result
  BY Types DEF HandleCreateSession, HandleSetParameters, NetStart, ImplType
<1>7. CASE UNCHANGED c2s
  BY <1>1, <1>5, <1>6, <1>7, Handled
<1>8. CASE c2s' # c2s
  <2>1. PICK m \in Requests :
          /\ Sent(m) /\ m.method # "CANCEL_RECOGNITION"
          /\ m.method = "START_RECOGNITION" => m.rec = n
    BY <1>8, ClientRequests DEF HandleCreateSession, HandleSetParameters, NetStart,
       SetParameters, StartRecognition, Request
  <2>2. QED
    BY <1>1, <1>3, <1>4, <1>5, <1>6, <2>1, Moved
<1>9. QED
  BY <1>7, <1>8

(* Audio on its way, or arriving, is no request.                           *)
LEMMA AudioSendKeeps ==
  ASSUME TypeOK, OneRecognition, AudioSend
  PROVE  OneRecognition'
<1>1. /\ UNCHANGED <<s2c, srv, handling, n, given, cont>>
      /\ pc' = pc \/ (pc = "blocked" /\ pc' = "check")
      /\ impl'.recognizing = impl.recognizing /\ impl'.result = impl.result
  BY Types DEF AudioSend, Notify, ImplType, netVars
<1>2. PICK m \in Requests : Sent(m) /\ m.method = "SEND_AUDIO"
  BY ClientRequests DEF AudioSend, Request
<1>3. \A i \in 1 .. Len(c2s') : \/ i \in 1 .. Len(c2s) /\ c2s'[i] = c2s[i]
                               \/ c2s'[i].method = "SEND_AUDIO"
  BY <1>2, RequestSent
<1>4. Requested' => Requested
  BY <1>3 DEF Requested, Asks
<1>5. RequestsOfOne'
  BY <1>1, <1>3 DEF RequestsOfOne, OneRecognition, NoCancelUnderway, OneRequest, Asks
<1>6. Asking' => Asking
  BY <1>1 DEF Asking
<1>7. Stored' = Stored /\ StoredInOrder'
  BY <1>1, StoredSame, StoredInOrderSame DEF OneRecognition
<1>8. QED
  BY <1>1, <1>4, <1>5, <1>6, <1>7, SteadyInbound

LEMMA ServeAudioKeeps ==
  ASSUME TypeOK, OneRecognition, World, ServeAudio
  PROVE  OneRecognition'
<1>1. /\ UNCHANGED <<s2c, handling, n, given, cont, pc, impl>>
      /\ c2s # <<>> /\ c2s' = Tail(c2s)
      /\ srv'.rec = srv.rec /\ srv'.seg = srv.seg
  BY Types DEF World, ServeAudio, ServerType, appVars, implVars, netVars
<1>2. \A i \in 1 .. Len(c2s') : /\ i \in Nat \ {0} /\ i + 1 \in 1 .. Len(c2s)
                               /\ c2s'[i] = c2s[i + 1]
  BY <1>1, RequestTaken
<1>3. Requested' => Requested
  BY <1>2 DEF Requested, Asks
<1>4. RequestsOfOne'
  <2>1. (\A i \in 1 .. Len(c2s) : c2s[i].method # "CANCEL_RECOGNITION")'
    BY <1>2 DEF OneRecognition, NoCancelUnderway
  <2>2. (\A i, j \in 1 .. Len(c2s) : Asks(i) /\ Asks(j) => i = j)'
    <3>1. \A i \in 1 .. Len(c2s') : Asks(i)' => Asks(i + 1)
      BY <1>2 DEF Asks
    <3>2. ASSUME NEW i \in 1 .. Len(c2s'), NEW j \in 1 .. Len(c2s'), Asks(i)', Asks(j)'
          PROVE  i = j
      <4>1. i + 1 = j + 1
        BY <1>2, <3>1, <3>2 DEF OneRecognition, OneRequest
      <4>2. QED
        BY <1>2, <4>1
    <3>3. QED
      BY <3>2
  <2>3. (\A i \in 1 .. Len(c2s) : c2s[i].method = "START_RECOGNITION" => c2s[i].rec = n)'
    BY <1>1, <1>2 DEF OneRecognition, OneRequest
  <2>4. QED
    BY <2>1, <2>2, <2>3 DEF RequestsOfOne
<1>5. Asking' => Asking
  BY <1>1 DEF Asking
<1>6. Stored' = Stored /\ StoredInOrder'
  BY <1>1, StoredSame, StoredInOrderSame DEF OneRecognition
<1>7. QED
  BY <1>1, <1>3, <1>4, <1>5, <1>6, SteadyInbound

(* The next message is taken: what is ahead of Inbound moves up.           *)
LEMMA NetTakeKeeps ==
  ASSUME TypeOK, OneRecognition, NetTake
  PROVE  OneRecognition'
<1>1. /\ UNCHANGED <<pc, cont, n, given, impl, c2s, srv>>
      /\ s2c # <<>> /\ handling' = Head(s2c) /\ s2c' = Tail(s2c)
  BY DEF NetTake, appVars, implVars
<1>2. \A i \in Coming' : i \in Nat /\ i + 1 \in Coming /\ Inbound'[i] = Inbound[i + 1]
  BY <1>1, InboundTaken
<1>3. Requested' = Requested /\ Asking' = Asking /\ Stored' = Stored
  BY <1>1 DEF Requested, Asks, Asking, Stored
<1>4. Preparing' => Preparing
  BY <1>2, <1>3 DEF Preparing, InResponse
<1>5. NoCancelUnderway'
  BY <1>1, <1>2 DEF OneRecognition, NoCancelUnderway, InResponse
<1>6. OneRequest'
  BY <1>1, <1>2, <1>3 DEF OneRecognition, OneRequest, Asks, InResponse
<1>7. InboundInOrder'
  <2>1. ASSUME NEW i \in Coming', NEW j \in Coming'
        PROVE  (/\ InResponse(i) /\ InResponse(j) => i = j
                /\ InResponse(i) /\ InAnswer(j) => i < j
                /\ InAnswer(i) /\ InAnswer(j) /\ i < j => InSeg(i) < InSeg(j))'
    <3>1. /\ i \in Nat /\ j \in Nat /\ i + 1 \in Coming /\ j + 1 \in Coming
          /\ (i + 1 = j + 1 <=> i = j) /\ (i + 1 < j + 1 <=> i < j)
      BY <1>2
    <3>2. QED
      BY <1>2, <3>1 DEF OneRecognition, InboundInOrder, InResponse, InAnswer, InSeg
  <2>2. QED
    BY <2>1 DEF InboundInOrder
<1>8. FreshStart'
  BY <1>1, <1>2, <1>3, <1>4 DEF OneRecognition, FreshStart, InResponse, InAnswer
<1>9. LaterSegments'
  BY <1>1, <1>2, <1>3 DEF OneRecognition, LaterSegments, InAnswer, InSeg
<1>10. StoredInOrder'
  BY <1>1, StoredInOrderSame DEF OneRecognition
<1>11. NothingWhenIdle'
  BY <1>1, <1>2, <1>3 DEF OneRecognition, NothingWhenIdle, InResponse, InAnswer
<1>12. QED
  BY <1>5, <1>6, <1>7, <1>8, <1>9, <1>10, <1>11 DEF OneRecognition

(* The end of a recognition is told: nothing more comes of it.             *)
LEMMA FinishResultKeeps ==
  ASSUME TypeOK, OneRecognition, FinishResult
  PROVE  OneRecognition'
<1>1. /\ UNCHANGED <<cont, c2s, s2c, srv, n, given>> /\ handling' = None
      /\ handling.kind = "PUSHED"
      /\ pc' = pc \/ (pc = "blocked" /\ pc' = "check")
      /\ impl'.recognizing = FALSE /\ impl'.result = impl.result
  BY Types DEF FinishResult, EndRecognition, Handling, Notify, ImplType, wireVars
<1>2. /\ Coming' = Coming /\ 1 \in Coming /\ Coming \subseteq Nat \ {0}
      /\ Inbound[1] = handling /\ Inbound'[1] = None
      /\ \A i \in Coming : i # 1 => Inbound'[i] = Inbound[i]
  BY <1>1, InboundHandled
<1>3. InAnswer(1) /\ InSeg(1) = Segments
  BY <1>1, <1>2 DEF InAnswer, InSeg
<1>4. ~Asking /\ ~Requested /\ srv.rec = 0
  <2>1. ~Preparing
    BY <1>2, <1>3 DEF OneRecognition, FreshStart
  <2>2. srv.seg <= Segments /\ srv.seg \in Nat /\ Segments \in Nat
    BY Types, BoundsAssumption DEF ServerType
  <2>3. ~(Segments < srv.seg)
    BY <2>2
  <2>4. QED
    BY <1>2, <1>3, <2>1, <2>3 DEF Preparing, OneRecognition, LaterSegments
<1>5. \A i \in Coming : ~InResponse(i)
  <2>1. \A i \in Coming : ~(i < 1)
    BY <1>2
  <2>2. QED
    BY <1>2, <1>3, <2>1 DEF OneRecognition, InboundInOrder
<1>6. \A i \in Coming : i # 1 => ~InAnswer(i)
  <2>1. ASSUME NEW i \in Coming, i # 1, InAnswer(i) PROVE FALSE
    <3>1. 1 < i
      BY <1>2, <2>1
    <3>2. Segments < InSeg(i)
      BY <1>2, <1>3, <2>1, <3>1 DEF OneRecognition, InboundInOrder
    <3>3. InSeg(i) \in 1 .. Segments
      BY <2>1, InboundIs, BoundsAssumption DEF InSeg, InAnswer, Messages, Responses, Results,
         Canceleds, None, Pushed
    <3>4. QED
      BY <3>2, <3>3, BoundsAssumption
  <2>2. QED
    BY <2>1
<1>7. \A i \in Coming' : ~InResponse(i)' /\ ~InAnswer(i)'
  BY <1>2, <1>5, <1>6 DEF InResponse, InAnswer, None
<1>8. ~Asking' /\ ~Requested' /\ ~Preparing'
  BY <1>1, <1>4, <1>7 DEF Asking, Requested, Asks, Preparing
<1>9. NoCancelUnderway'
  BY <1>1, <1>2, <1>7 DEF OneRecognition, NoCancelUnderway, None
<1>10. OneRequest'
  BY <1>1, <1>7, <1>8 DEF OneRecognition, OneRequest, Asks
<1>11. InboundInOrder'
  BY <1>7 DEF InboundInOrder
<1>12. FreshStart'
  BY <1>7, <1>8 DEF FreshStart
<1>13. LaterSegments'
  BY <1>1, <1>4, <1>7 DEF LaterSegments, InAnswer
<1>14. StoredInOrder'
  BY <1>1, StoredInOrderSame DEF OneRecognition
<1>15. NothingWhenIdle'
  BY <1>1, <1>4, <1>7, <1>8 DEF NothingWhenIdle
<1>16. QED
  BY <1>9, <1>10, <1>11, <1>12, <1>13, <1>14, <1>15 DEF OneRecognition

(* What is stored are segments.                                            *)
LEMMA StoredType ==
  ASSUME TypeOK
  PROVE  \A x \in Stored : x \in Segment
<1>1. \A i \in 1 .. Len(given) : given[i] \in Segment
  BY Types
<1>2. \A i \in 1 .. Len(impl.result) : impl.result[i] \in Segment
  BY Types
<1>3. QED
  BY <1>1, <1>2 DEF Stored

(* A result after all that is stored keeps the order.                      *)
LEMMA AscendingAppend ==
  ASSUME NEW s \in Seq(Segment), NEW x \in Segment, Ascending(s),
         \A i \in 1 .. Len(s) : s[i].seg < x.seg
  PROVE  Ascending(Append(s, x))
<1>1. Len(s) \in Nat /\ Len(Append(s, x)) = Len(s) + 1
  OBVIOUS
<1>2. \A i \in 1 .. Len(s) + 1 : Append(s, x)[i] = IF i = Len(s) + 1 THEN x ELSE s[i]
  OBVIOUS
<1>3. ASSUME NEW i \in 1 .. Len(s) + 1, NEW j \in 1 .. Len(s) + 1, i < j
      PROVE  Append(s, x)[i].seg < Append(s, x)[j].seg
  <2>1. i \in 1 .. Len(s) /\ i # Len(s) + 1
    BY <1>1, <1>3
  <2>2. CASE j = Len(s) + 1
    BY <1>2, <2>1, <2>2
  <2>3. CASE j # Len(s) + 1
    BY <1>1, <1>2, <1>3, <2>1, <2>3 DEF Ascending
  <2>4. QED
    BY <2>2, <2>3
<1>4. QED
  BY <1>1, <1>3 DEF Ascending

(* A result is stored; a last one stays in Inbound until its end is told.  *)
LEMMA PushResultKeeps ==
  ASSUME TypeOK, OneRecognition, PushResult
  PROVE  OneRecognition'
<1> DEFINE x == [rec |-> handling.rec, seg |-> handling.seg]
<1>1. /\ UNCHANGED <<pc, cont, n, given, c2s, s2c, srv>>
      /\ handling.kind = "RESULT"
      /\ handling' = IF handling.seg = Segments THEN Pushed ELSE None
      /\ impl'.recognizing = impl.recognizing
      /\ impl'.result = Append(impl.result, x)
  BY Types DEF PushResult, Handling, ImplType, appVars, wireVars
<1>2. handling \in Results /\ x \in Segment /\ x.rec = handling.rec /\ x.seg = handling.seg
  BY <1>1, Types DEF Messages, Responses, Canceleds, None, Pushed, Results, Segment
<1> HIDE DEF x
<1>3. /\ Coming' = Coming /\ 1 \in Coming /\ Coming \subseteq Nat \ {0}
      /\ Inbound[1] = handling /\ Inbound'[1] = handling'
      /\ \A i \in Coming : i # 1 => Inbound'[i] = Inbound[i]
  BY <1>1, InboundHandled
<1>4. InAnswer(1) /\ InSeg(1) = x.seg /\ InSeg(1) = handling.seg
  BY <1>1, <1>2, <1>3 DEF InAnswer, InSeg
<1>5. /\ x.rec = n /\ \A y \in Stored : y.seg < x.seg
  BY <1>1, <1>2, <1>3 DEF OneRecognition, LaterSegments
<1>6. \A i \in Coming : ~InResponse(i)
  <2>1. \A i \in Coming : ~(i < 1)
    BY <1>3
  <2>2. QED
    BY <1>3, <1>4, <2>1 DEF OneRecognition, InboundInOrder
<1>7. \A i \in Coming : Inbound'[i].kind # "RESPONSE"
  <2>1. Inbound'[1] \in {None, Pushed}
    BY <1>1, <1>3
  <2>2. Inbound'[1].kind # "RESPONSE"
    BY <2>1 DEF None, Pushed
  <2>3. QED
    BY <1>3, <1>6, <2>2 DEF InResponse
<1>8. \A i \in Coming : i # 1 /\ InAnswer(i) => x.seg < InSeg(i)
  <2>1. \A i \in Coming : i # 1 => 1 < i
    BY <1>3
  <2>2. QED
    BY <1>3, <1>4, <2>1 DEF OneRecognition, InboundInOrder
<1>9. /\ ~Preparing /\ ~Asking /\ ~Requested
  BY <1>3, <1>4 DEF OneRecognition, FreshStart, Preparing
<1>10. ~Preparing' /\ ~Asking' /\ ~Requested'
  BY <1>1, <1>3, <1>7, <1>9 DEF Preparing, Asking, Requested, Asks, InResponse
<1>11. /\ \A y \in Stored' : y \in Stored \/ y = x
       /\ \A i \in 1 .. Len(impl'.result) :
            \/ impl'.result[i] = x
            \/ i \in 1 .. Len(impl.result) /\ impl'.result[i] = impl.result[i]
  <2>1. \A i \in 1 .. Len(impl'.result) :
          \/ impl'.result[i] = x
          \/ i \in 1 .. Len(impl.result) /\ impl'.result[i] = impl.result[i]
    BY <1>1, <1>2, Types
  <2>2. QED
    BY <1>1, <2>1 DEF Stored
<1>12. NoCancelUnderway'
  BY <1>1, <1>3, <1>7 DEF OneRecognition, NoCancelUnderway, InResponse, None, Pushed
<1>13. OneRequest'
  BY <1>1, <1>10 DEF OneRecognition, OneRequest, Asks
<1>14. InboundInOrder'
  <2>1. ASSUME NEW i \in Coming, NEW j \in Coming, InAnswer(i)', InAnswer(j)', i < j
        PROVE  InSeg(i)' < InSeg(j)'
    <3>1. j # 1 /\ InAnswer(j) /\ InSeg(j)' = InSeg(j)
      <4>1. i \in Nat \ {0} /\ j \in Nat \ {0} /\ j # 1
        BY <1>3, <2>1
      <4>2. QED
        BY <1>3, <2>1, <4>1 DEF InAnswer, InSeg
    <3>2. CASE i = 1
      <4>1. InSeg(1)' = x.seg
        BY <1>1, <1>2, <1>3, <2>1, <3>2 DEF InAnswer, InSeg, None, Pushed
      <4>2. QED
        BY <1>8, <3>1, <3>2, <4>1
    <3>3. CASE i # 1
      BY <1>3, <2>1, <3>1, <3>3 DEF OneRecognition, InboundInOrder, InAnswer, InSeg
    <3>4. QED
      BY <3>2, <3>3
  <2>2. QED
    BY <1>3, <1>7, <2>1 DEF InboundInOrder, InResponse
<1>15. FreshStart'
  BY <1>3, <1>7, <1>10 DEF FreshStart, InResponse
<1>16. LaterSegments'
  <2>1. ASSUME NEW i \in Coming, Inbound'[i].kind = "RESULT"
        PROVE  Inbound'[i].rec = n /\ \A y \in Stored' : y.seg < Inbound'[i].seg
    <3>1. i # 1 /\ Inbound'[i] = Inbound[i]
      BY <1>1, <1>3, <2>1 DEF None, Pushed
    <3>2. InAnswer(i) /\ InSeg(i) = Inbound[i].seg
      BY <2>1, <3>1 DEF InAnswer, InSeg
    <3>3. x.seg < Inbound[i].seg
      BY <1>8, <3>1, <3>2
    <3>4. QED
      BY <1>11, <2>1, <3>1, <3>3 DEF OneRecognition, LaterSegments
  <2>2. ASSUME srv.rec # 0
        PROVE  /\ srv.rec = n /\ \A y \in Stored' : y.seg < srv.seg
               /\ \A i \in Coming : InAnswer(i)' => InSeg(i)' < srv.seg
    <3>1. x.seg < srv.seg
      BY <1>3, <1>4, <2>2 DEF OneRecognition, LaterSegments
    <3>2. ASSUME NEW i \in Coming, InAnswer(i)' PROVE InSeg(i)' < srv.seg
      <4>1. CASE i = 1
        <5>1. InSeg(1)' = x.seg
          BY <1>1, <1>2, <1>3, <3>2, <4>1 DEF InAnswer, InSeg, None, Pushed
        <5>2. QED
          BY <3>1, <4>1, <5>1
      <4>2. CASE i # 1
        BY <1>3, <2>2, <3>2, <4>2 DEF OneRecognition, LaterSegments, InAnswer, InSeg
      <4>3. QED
        BY <4>1, <4>2
    <3>3. QED
      BY <1>11, <2>2, <3>1, <3>2 DEF OneRecognition, LaterSegments
  <2>3. QED
    BY <1>1, <1>3, <2>1, <2>2 DEF LaterSegments
<1>17. StoredInOrder'
  <2>1. \A y \in Stored' : y.rec = n
    BY <1>5, <1>11 DEF OneRecognition, StoredInOrder
  <2>2. Ascending(impl'.result)
    <3>1. \A i \in 1 .. Len(impl.result) : impl.result[i].seg < x.seg
      BY <1>5 DEF Stored
    <3>2. QED
      BY <1>1, <1>2, <3>1, Types, AscendingAppend DEF OneRecognition, StoredInOrder
  <2>3. \A i \in 1 .. Len(given) : given[i].seg < x.seg
    BY <1>5 DEF Stored
  <2>4. pc # "clear" => \A i \in 1 .. Len(given), j \in 1 .. Len(impl'.result) :
                         given[i].seg < impl'.result[j].seg
    BY <1>11, <2>3 DEF OneRecognition, StoredInOrder
  <2>5. Ascending(given) /\ UNCHANGED <<given, n, pc>>
    BY <1>1 DEF OneRecognition, StoredInOrder
  <2>6. QED
    BY <2>1, <2>2, <2>4, <2>5 DEF StoredInOrder, Ascending
<1>18. NothingWhenIdle'
  BY <1>1, <1>3, <1>4 DEF OneRecognition, NothingWhenIdle
<1>19. QED
  BY <1>12, <1>13, <1>14, <1>15, <1>16, <1>17, <1>18 DEF OneRecognition

(* The server gives the result of its next segment.                        *)
LEMMA ServeResultKeeps ==
  ASSUME TypeOK, OneRecognition, World, ServeResult
  PROVE  OneRecognition'
<1> DEFINE r == Result(srv.rec, srv.seg)
<1>1. /\ UNCHANGED <<pc, cont, n, given, impl, c2s, handling>>
      /\ s2c' = Append(s2c, r) /\ srv.rec # 0
  BY DEF World, ServeResult, appVars, implVars, netVars
<1>2. /\ r.kind = "RESULT" /\ r.rec = srv.rec /\ r.seg = srv.seg /\ r \in Messages
      /\ r.kind \notin {"RESPONSE", "PUSHED", "CANCELED"}
  BY Types DEF Result, Results, Messages, ServerType
<1>3. \/ srv'.rec = 0
      \/ srv'.rec = srv.rec /\ srv'.seg = srv.seg + 1
  BY Types DEF World, ServeResult, ServerType
<1> HIDE DEF r
<1>4. /\ \A i \in Coming' :
           \/ i \in Coming /\ Inbound'[i] = Inbound[i]
           \/ Inbound'[i] = r /\ i \notin Coming /\ \A j \in Coming : j < i
  BY <1>1, <1>2, InboundArrived
<1>5. \A i \in Coming, j \in Coming : (i < j => ~(j < i)) /\ i \in Nat
  BY InboundIs
<1>6. /\ srv.rec = n /\ srv.seg \in Nat
      /\ \A x \in Stored : x.seg < srv.seg
      /\ \A i \in Coming : InAnswer(i) => InSeg(i) < srv.seg
  BY <1>1, Types DEF OneRecognition, LaterSegments, ServerType
<1>7. ~Preparing /\ ~Asking /\ ~Requested
  BY <1>1 DEF OneRecognition, FreshStart, Preparing
<1>8. Stored' = Stored /\ ~Asking' /\ ~Requested'
  BY <1>1, <1>7 DEF Stored, Asking, Requested, Asks
<1>9. \A i \in Coming' : InResponse(i)' => i \in Coming /\ Inbound'[i] = Inbound[i] /\ InResponse(i)
  BY <1>2, <1>4 DEF InResponse
<1>10. ~Preparing'
  BY <1>7, <1>8, <1>9 DEF Preparing
<1>11. NoCancelUnderway'
  BY <1>1, <1>2, <1>4 DEF OneRecognition, NoCancelUnderway, InResponse
<1>12. OneRequest'
  BY <1>1, <1>8 DEF OneRecognition, OneRequest, Asks
<1>13. InboundInOrder'
  <2>1. ASSUME NEW i \in Coming', NEW j \in Coming', InAnswer(i)', InAnswer(j)', i < j
        PROVE  InSeg(i)' < InSeg(j)'
    <3>1. i \in Coming /\ Inbound'[i] = Inbound[i]
      <4>1. CASE i \notin Coming /\ Inbound'[i] = r /\ \A k \in Coming : k < i
        <5>1. i \in Nat /\ j \in Nat /\ i = Len(Inbound) + 1 /\ j <= Len(Inbound) + 1
          BY <1>1, <4>1, Types DEF Coming, Inbound
        <5>2. QED
          BY <2>1, <5>1
      <4>2. QED
        BY <1>4, <4>1
    <3>2. CASE j \in Coming /\ Inbound'[j] = Inbound[j]
      BY <2>1, <3>1, <3>2 DEF OneRecognition, InboundInOrder, InAnswer, InSeg
    <3>3. CASE Inbound'[j] = r
      BY <1>2, <1>6, <2>1, <3>1, <3>3 DEF InAnswer, InSeg
    <3>4. QED
      BY <1>4, <3>2, <3>3
  <2>2. ASSUME NEW i \in Coming', NEW j \in Coming', InResponse(i)', InAnswer(j)'
        PROVE  i < j
    BY <1>4, <1>9, <2>2 DEF OneRecognition, InboundInOrder, InAnswer
  <2>3. ASSUME NEW i \in Coming', NEW j \in Coming', InResponse(i)', InResponse(j)'
        PROVE  i = j
    BY <1>9, <2>3 DEF OneRecognition, InboundInOrder
  <2>4. QED
    BY <2>1, <2>2, <2>3 DEF InboundInOrder
<1>14. FreshStart'
  BY <1>8, <1>9, <1>10 DEF OneRecognition, FreshStart
<1>15. LaterSegments'
  <2>1. ASSUME NEW i \in Coming', Inbound'[i].kind = "RESULT"
        PROVE  Inbound'[i].rec = n /\ \A x \in Stored : x.seg < Inbound'[i].seg
    BY <1>2, <1>4, <1>6, <2>1 DEF OneRecognition, LaterSegments
  <2>2. ASSUME srv'.rec # 0
        PROVE  /\ srv'.rec = n /\ \A x \in Stored : x.seg < srv'.seg
               /\ \A i \in Coming' : InAnswer(i)' => InSeg(i)' < srv'.seg
    <3>1. srv'.rec = n /\ srv'.seg = srv.seg + 1 /\ srv.seg < srv'.seg
      BY <1>3, <1>6, <2>2
    <3>2. \A x \in Stored : x.seg < srv'.seg
      <4>1. \A x \in Stored : x.seg \in Nat
        BY StoredType DEF Segment
      <4>2. QED
        BY <1>6, <3>1, <4>1
    <3>3. ASSUME NEW i \in Coming', InAnswer(i)' PROVE InSeg(i)' < srv'.seg
      <4>1. CASE i \in Coming /\ Inbound'[i] = Inbound[i]
        <5>1. InAnswer(i) /\ InSeg(i)' = InSeg(i) /\ InSeg(i) < srv.seg
          BY <1>6, <3>3, <4>1 DEF InAnswer, InSeg
        <5>2. InSeg(i) \in Nat
          BY <4>1, <5>1, InboundIs, BoundsAssumption DEF InSeg, InAnswer, Messages, Responses,
             Results, Canceleds, None, Pushed
        <5>3. QED
          BY <1>6, <3>1, <5>1, <5>2
      <4>2. CASE Inbound'[i] = r
        BY <1>2, <3>1, <4>2 DEF InSeg
      <4>3. QED
        BY <1>4, <4>1, <4>2
    <3>4. QED
      BY <3>1, <3>2, <3>3
  <2>3. QED
    BY <1>1, <1>8, <2>1, <2>2 DEF LaterSegments
<1>16. StoredInOrder'
  BY <1>1, StoredInOrderSame DEF OneRecognition
<1>17. NothingWhenIdle'
  BY <1>1 DEF OneRecognition, NothingWhenIdle
<1>18. QED
  BY <1>11, <1>12, <1>13, <1>14, <1>15, <1>16, <1>17 DEF OneRecognition

(* The server does, or refuses, what it is asked for and answers.          *)
LEMMA ServeRequestKeeps ==
  ASSUME TypeOK, OneRecognition, World, ServeRequest
  PROVE  OneRecognition'
<1>1. /\ UNCHANGED <<pc, cont, n, given, impl, handling>>
      /\ c2s # <<>> /\ c2s' = Tail(c2s)
      /\ Head(c2s).method \in Methods \ {"CANCEL_RECOGNITION"}
  BY DEF World, ServeRequest, appVars, implVars, netVars
<1>2. PICK m \in Requests : m = Head(c2s)
  BY <1>1, Types
<1>3. PICK b \in BOOLEAN :
        /\ s2c' = Append(s2c, Response(m.method, b))
        /\ \/ srv'.rec = srv.rec /\ srv'.seg = srv.seg
           \/ b /\ m.method = "START_RECOGNITION" /\ srv'.rec = m.rec /\ srv'.seg = 1
  <2>1. CASE s2c' = Append(s2c, Response(m.method, FALSE)) /\ UNCHANGED srv
    BY <2>1
  <2>2. CASE /\ s2c' = Append(s2c, Response(m.method, TRUE))
             /\ srv' = CASE m.method = "CREATE_SESSION" -> [srv EXCEPT !.session = TRUE]
                         [] m.method = "SET_PARAMETERS" -> [srv EXCEPT !.params = TRUE]
                         [] OTHER -> [srv EXCEPT !.rec = m.rec, !.seg = 1, !.heard = <<>>]
    BY <1>1, <1>2, <2>2, Types DEF ServerType, Methods
  <2>3. QED
    BY <1>2, <2>1, <2>2 DEF World, ServeRequest
<1> DEFINE r == Response(m.method, b)
<1>4. /\ r \in Messages /\ r.kind = "RESPONSE" /\ r.method = m.method
      /\ r.kind \notin {"RESULT", "PUSHED", "CANCELED"}
      /\ r.method # "CANCEL_RECOGNITION" /\ s2c' = Append(s2c, r)
  BY <1>1, <1>2, <1>3 DEF Response, Responses, Messages
<1> HIDE DEF r
<1>5. /\ 1 \in 1 .. Len(c2s) /\ c2s[1] = m
      /\ \A i \in 1 .. Len(c2s') : /\ i \in Nat \ {0} /\ i + 1 \in 1 .. Len(c2s)
                                  /\ c2s'[i] = c2s[i + 1]
  BY <1>1, <1>2, RequestTaken
<1>6. Requested /\ Preparing /\ Asks(1)
  BY <1>1, <1>2, <1>5 DEF Requested, Preparing, Asks, Methods
<1>7. /\ ~Asking /\ srv.rec = 0 /\ Stored = {} /\ impl.recognizing
      /\ \A i \in Coming : ~InResponse(i) /\ ~InAnswer(i)
      /\ m.method = "START_RECOGNITION" => m.rec = n
  BY <1>5, <1>6, Types DEF OneRecognition, OneRequest, FreshStart, NothingWhenIdle, ImplType
<1>8. ~Requested'
  <2>1. ASSUME NEW i \in 1 .. Len(c2s'), c2s'[i].method # "SEND_AUDIO" PROVE FALSE
    <3>1. Asks(i + 1) /\ i + 1 \in 1 .. Len(c2s) /\ i + 1 # 1
      BY <1>5, <2>1 DEF Asks
    <3>2. QED
      BY <1>5, <1>6, <3>1 DEF OneRecognition, OneRequest
  <2>2. QED
    BY <2>1 DEF Requested, Asks
<1>9. ~Asking' /\ Stored' = {}
  BY <1>1, <1>7, StoredSame DEF Asking
<1>10. \A i \in Coming' :
         \/ i \in Coming /\ Inbound'[i] = Inbound[i]
         \/ Inbound'[i] = r /\ i \notin Coming /\ \A j \in Coming : j < i
  BY <1>1, <1>4, InboundArrived
<1>11. \A i \in Coming' : ~InAnswer(i)'
  BY <1>4, <1>7, <1>10 DEF InAnswer
<1>12. \A i \in Coming' : InResponse(i)' => Inbound'[i] = r /\ i = Len(s2c) + 2
  <2>1. Coming = 1 .. Len(s2c) + 1 /\ Coming' = 1 .. Len(s2c) + 2 /\ Len(s2c) \in Nat
    BY <1>1, <1>4, InboundIs, Types DEF Coming, Inbound
  <2>2. ASSUME NEW i \in Coming', Inbound'[i].kind = "RESPONSE"
        PROVE  Inbound'[i] = r /\ i = Len(s2c) + 2
    <3>1. Inbound'[i] = r /\ i \notin Coming
      BY <1>7, <1>10, <2>2 DEF InResponse
    <3>2. QED
      BY <2>1, <3>1
  <2>3. QED
    BY <2>2 DEF InResponse
<1>13. NoCancelUnderway'
  BY <1>4, <1>5, <1>10 DEF OneRecognition, NoCancelUnderway, InResponse
<1>14. OneRequest'
  BY <1>8, <1>9 DEF OneRequest, Requested, Asks
<1>15. InboundInOrder'
  BY <1>11, <1>12 DEF InboundInOrder
<1>16. FreshStart'
  <2>1. Preparing' => srv'.rec = 0
    <3>1. ASSUME Preparing' PROVE r.method # "START_RECOGNITION"
      <4>1. PICK i \in Coming' : InResponse(i)' /\ Inbound'[i].method # "START_RECOGNITION"
        BY <1>8, <1>9, <3>1 DEF Preparing, InResponse
      <4>2. QED
        BY <1>12, <4>1
    <3>2. QED
      BY <1>3, <1>4, <1>7, <3>1
  <2>2. QED
    BY <1>9, <1>11, <2>1 DEF FreshStart
<1>17. LaterSegments'
  BY <1>1, <1>3, <1>7, <1>9, <1>11 DEF LaterSegments, InAnswer
<1>18. StoredInOrder'
  BY <1>1, StoredInOrderSame DEF OneRecognition
<1>19. NothingWhenIdle'
  BY <1>1, <1>7 DEF NothingWhenIdle
<1>20. QED
  BY <1>13, <1>14, <1>15, <1>16, <1>17, <1>18, <1>19 DEF OneRecognition

(* Without a cancel nobody sends one, and nobody answers one.              *)
LEMMA NobodyCancels ==
  ASSUME NeverCancels, TypeOK, OneRecognition
  PROVE  /\ ~CancelBegin /\ ~HandleCancel /\ ~HandleCanceled
         /\ ~(World /\ ServeCancel)
<1>1. ~CancelBegin
  BY DEF CancelBegin, Call, NeverCancels, TypeOK
<1>2. 1 \in Coming /\ Inbound[1] = handling
  BY InboundIs
<1>3. ~HandleCancel /\ ~HandleCanceled
  BY <1>2 DEF HandleCancel, Handles, HandleCanceled, Handling, OneRecognition, NoCancelUnderway,
     InResponse
<1>4. ~(World /\ ServeCancel)
  <2>1. c2s # <<>> => 1 \in 1 .. Len(c2s) /\ Head(c2s) = c2s[1]
    BY Types
  <2>2. QED
    BY <2>1 DEF World, ServeCancel, OneRecognition, NoCancelUnderway
<1>5. QED
  BY <1>1, <1>3, <1>4

(* Every step keeps OneRecognition.                                        *)
LEMMA StepOneRecognition ==
  ASSUME NeverCancels, TypeOK, PreparedInv, OneRecognition, [Next]_vars
  PROVE  OneRecognition'
<1>1. CASE UNCHANGED vars
  <2>1. UNCHANGED <<c2s, s2c, srv, handling, n, given, impl, pc, cont>>
    BY <1>1 DEF vars, appVars, implVars, netVars, wireVars
  <2>2. QED
    BY <2>1, Idle DEF Asking
<1>2. CASE PublicCall
  BY <1>2, AppKeeps, RecognizeKeeps, WaitKeeps, NobodyCancels DEF PublicCall
<1>3. CASE AppStep
  BY <1>3, AppKeeps, SendRequestKeeps, WaitKeeps, ClearKeeps, JoinNetKeeps DEF AppStep
<1>4. CASE NetStep
  BY <1>4, RestKeeps, NetTakeKeeps, HandlersKeep, ResponseKeeps, PushResultKeeps,
     FinishResultKeeps, NobodyCancels DEF NetStep
<1>5. CASE AudioStep
  BY <1>5, RestKeeps, AudioSendKeeps DEF AudioStep
<1>6. CASE World
  BY <1>6, RestKeeps, ServeRequestKeeps, ServeAudioKeeps, ServeResultKeeps, NobodyCancels
     DEF World, ServerStep
<1>7. QED
  BY <1>1, <1>2, <1>3, <1>4, <1>5, <1>6 DEF Next

(* Nothing is under way, stored or running in the first state.             *)
LEMMA InitOneRecognition == Init => OneRecognition
<1> SUFFICES ASSUME Init PROVE OneRecognition
  OBVIOUS
<1>1. /\ c2s = <<>> /\ s2c = <<>> /\ handling = None /\ srv.rec = 0 /\ cont = "construct"
      /\ pc \in {"idle", "connect"} /\ given = <<>> /\ impl.result = <<>>
  BY DEF Init, WireInit, NewServer, NewImpl
<1>2. Coming = {1} /\ Inbound[1] = None
  BY <1>1 DEF Coming, Inbound
<1>3. /\ \A i \in Coming : ~InResponse(i) /\ ~InAnswer(i)
      /\ \A i \in Coming : Inbound[i].kind # "CANCELED"
  BY <1>2 DEF InResponse, InAnswer, None
<1>4. ~Asking /\ ~Requested /\ Stored = {}
  BY <1>1 DEF Asking, Requested, Stored
<1>5. ~Preparing
  BY <1>3, <1>4 DEF Preparing
<1>6. NoCancelUnderway /\ OneRequest
  BY <1>1, <1>3, <1>4 DEF NoCancelUnderway, OneRequest
<1>7. InboundInOrder /\ FreshStart /\ LaterSegments
  <2>1. InboundInOrder
    BY <1>3 DEF InboundInOrder
  <2>2. FreshStart
    BY <1>3, <1>5 DEF FreshStart
  <2>3. LaterSegments
    BY <1>1, <1>3 DEF LaterSegments, InAnswer
  <2>4. QED
    BY <2>1, <2>2, <2>3
<1>8. StoredInOrder
  BY <1>1, <1>4 DEF StoredInOrder, Ascending
<1>9. NothingWhenIdle
  BY <1>1, <1>3, <1>4 DEF NothingWhenIdle
<1>10. QED
  BY <1>6, <1>7, <1>8, <1>9 DEF OneRecognition

(* For a program that never cancels, however the calls, the handlers and   *)
(* the server interleave, a recognition is at one place at a time between  *)
(* recognize() and the flag that its last result lowers.                   *)
THEOREM OneRecognitionHolds == NeverCancels /\ Spec => []OneRecognition
<1>1. ASSUME NeverCancels
      PROVE  TypeOK /\ PreparedInv /\ OneRecognition /\ [Next]_vars => OneRecognition'
  BY <1>1, StepOneRecognition
<1>2. ASSUME NeverCancels PROVE Spec => []OneRecognition
  BY <1>1, <1>2, InitOneRecognition, Typing, PreparedInvHolds, PTL DEF Spec
<1>3. QED
  BY <1>2

(* recognize() of such a program is accepted only when the server runs     *)
(* nothing and nothing is on its way to it: recognizing_ is lowered by the *)
(* last result alone, which process_result.cc tells after everything else. *)
THEOREM IdleMeansIdleHolds == NeverCancels /\ Spec => []IdleMeansIdle
<1>1. OneRecognition => IdleMeansIdle
  BY DEF OneRecognition, NothingWhenIdle, IdleMeansIdle, Requested, Asks
<1>2. QED
  BY <1>1, OneRecognitionHolds, PTL

(* What its waits hand out for a recognition is of that recognition, each  *)
(* segment later than the one before: no result of an earlier recognition, *)
(* none twice and none out of order, across timeouts, auto-close, lost     *)
(* connections and rejected requests.                                      *)
THEOREM ResultsInOrderHolds == NeverCancels /\ Spec => []ResultsInOrder
<1>1. ASSUME TypeOK, OneRecognition PROVE ResultsInOrder
  <2>1. given \in Seq(Segment) /\ impl.result \in Seq(Segment)
    BY <1>1, Types
  <2>2. /\ \A i \in 1 .. Len(given) : given[i].rec = n
        /\ \A i \in 1 .. Len(impl.result) : impl.result[i].rec = n
    BY <1>1 DEF OneRecognition, StoredInOrder, Stored
  <2>3. CASE pc = "clear"
    BY <1>1, <2>2, <2>3 DEF ResultsInOrder, OneRecognition, StoredInOrder
  <2>4. CASE pc # "clear"
    <3>1. Ascending(given \o impl.result)
      BY <1>1, <2>1, <2>4, AscendingConcat DEF OneRecognition, StoredInOrder
    <3>2. \A i \in 1 .. Len(given \o impl.result) : (given \o impl.result)[i].rec = n
      BY <2>1, <2>2, ElementsConcat
    <3>3. QED
      BY <2>2, <2>4, <3>1, <3>2 DEF ResultsInOrder
  <2>5. QED
    BY <2>3, <2>4
<1>2. TypeOK /\ OneRecognition => ResultsInOrder
  BY <1>1
<1>3. QED
  BY <1>2, OneRecognitionHolds, Typing, PTL
=============================================================================
