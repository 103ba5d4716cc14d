----------------------------- MODULE AsrServer -----------------------------
(***************************************************************************)
(* The outside world of one SpeechRecognizer: the ASR server and the       *)
(* websocket connection to it.  Neither is library code: the module states *)
(* what src/src/send_message.cc sends, what src/src/process_msg.cc and     *)
(* src/src/process_result.cc expect in return, and the order in which a    *)
(* websocket delivers both.  It is a server that keeps to the protocol:    *)
(* one last result for each recognition, none after a cancel.              *)
(***************************************************************************)
EXTENDS Naturals, Sequences

CONSTANTS
  MaxRecog,     \* recognitions one program asks for; n counts them, 0 is none
  Segments,     \* speech segments of a recognition, one final result each
  Packets,      \* data packets the audio source of a recognition yields
  MaxInFlight,  \* responses the connection holds before the server pauses
  Faults        \* what the outside world may do wrong

ASSUME BoundsAssumption ==
  /\ MaxRecog \in Nat \ {0}
  /\ Segments \in Nat \ {0}
  /\ Packets \in Nat
  /\ MaxInFlight \in Nat \ {0}

(***************************************************************************)
(* refuse: the connection attempt fails      drop: the peer closes         *)
(* badUrl: there is no connection to attempt for the program's URL         *)
(* reject: a request is answered FAILURE                                   *)
(* cancelResult: a CANCEL_RECOGNITION is followed by a CANCELED result     *)
(* sourceThrows: the close() of the program's audio source throws          *)
(***************************************************************************)
ASSUME FaultsAssumption ==
  Faults \subseteq {"refuse", "drop", "badUrl", "reject", "cancelResult", "sourceThrows"}

VARIABLES
  conn,  \* the one websocket connection of the current Impl
  c2s,   \* messages on their way to the server, oldest first
  s2c,   \* messages on their way to the client, oldest first
  srv    \* the server's view of the session

wireVars == <<conn, c2s, s2c, srv>>

Recogs == 0 .. MaxRecog
Indices == 0 .. Packets + 1        \* packet Packets + 1 is the LastPacket

Methods == {"CREATE_SESSION", "SET_PARAMETERS",
            "START_RECOGNITION", "CANCEL_RECOGNITION"}

(* rec is a ghost: the recognition a START or an audio packet belongs to.  *)
Requests == [method : Methods \cup {"SEND_AUDIO"}, rec : Recogs, idx : Indices]

(* Results carry their segment; the last one also carries the IDLE status. *)
Responses == [kind : {"RESPONSE"}, method : Methods, ok : BOOLEAN]
Results == [kind : {"RESULT"}, rec : Recogs, seg : 1 .. Segments]
Canceleds == [kind : {"CANCELED"}]
Messages == Responses \cup Results \cup Canceleds

ConnStates == {"none", "connecting", "open", "closing", "dropped", "closed",
               "failed"}

NewServer == [session |-> FALSE, params |-> FALSE, rec |-> 0, seg |-> 1,
              heard |-> <<>>]

ServerType == [session : BOOLEAN, params : BOOLEAN, rec : Recogs,
               seg : 1 .. Segments, heard : Seq(Recogs \X Indices)]

WireTypeOK ==
  /\ conn \in ConnStates
  /\ c2s \in Seq(Requests)
  /\ s2c \in Seq(Messages)
  /\ srv \in ServerType

WireInit == conn = "none" /\ c2s = <<>> /\ s2c = <<>> /\ srv = NewServer

-----------------------------------------------------------------------------
Request(method, rec, idx) == [method |-> method, rec |-> rec, idx |-> idx]
Response(method, ok) == [kind |-> "RESPONSE", method |-> method, ok |-> ok]
Result(rec, seg) == [kind |-> "RESULT", rec |-> rec, seg |-> seg]
Canceled == [kind |-> "CANCELED"]

(* What the server accepts in its present state. *)
Acceptable(m) ==
  CASE m.method = "CREATE_SESSION" -> TRUE
    [] m.method = "SET_PARAMETERS" -> srv.session /\ srv.rec = 0
    [] m.method = "START_RECOGNITION" -> srv.session /\ srv.rec = 0
    [] OTHER -> TRUE

Room(k) == Len(s2c) + k <= MaxInFlight

(* A request other than cancel and audio: done and answered, or refused.   *)
ServeRequest ==
  /\ conn = "open" /\ c2s # <<>> /\ Room(1)
  /\ LET m == Head(c2s)
     IN /\ m.method \in Methods \ {"CANCEL_RECOGNITION"}
        /\ c2s' = Tail(c2s)
        /\ \/ /\ Acceptable(m)
              /\ s2c' = Append(s2c, Response(m.method, TRUE))
              /\ srv' = CASE m.method = "CREATE_SESSION" ->
                               [srv EXCEPT !.session = TRUE]
                          [] m.method = "SET_PARAMETERS" ->
                               [srv EXCEPT !.params = TRUE]
                          [] OTHER ->
                               [srv EXCEPT !.rec = m.rec, !.seg = 1,
                                           !.heard = <<>>]
           \/ /\ ~Acceptable(m) \/ "reject" \in Faults
              /\ s2c' = Append(s2c, Response(m.method, FALSE))
              /\ UNCHANGED srv
  /\ UNCHANGED conn

(***************************************************************************)
(* A cancel ends the running recognition.  With none running the server    *)
(* answers INVALID_ACTION, which the client takes for success.             *)
(***************************************************************************)
ServeCancel ==
  /\ conn = "open" /\ c2s # <<>> /\ Room(2)
  /\ Head(c2s).method = "CANCEL_RECOGNITION"
  /\ c2s' = Tail(c2s)
  /\ \/ s2c' = Append(s2c, Response("CANCEL_RECOGNITION", TRUE))
     \/ /\ "cancelResult" \in Faults /\ srv.rec # 0
        /\ s2c' = Append(Append(s2c, Response("CANCEL_RECOGNITION", TRUE)), Canceled)
  /\ srv' = [srv EXCEPT !.rec = 0]
  /\ UNCHANGED conn

(* Audio is heard while a recognition runs and ignored otherwise.          *)
ServeAudio ==
  /\ conn = "open" /\ c2s # <<>>
  /\ Head(c2s).method = "SEND_AUDIO"
  /\ c2s' = Tail(c2s)
  /\ srv' = IF srv.rec = 0 THEN srv
            ELSE [srv EXCEPT !.heard =
                    Append(@, <<Head(c2s).rec, Head(c2s).idx>>)]
  /\ UNCHANGED <<conn, s2c>>

(***************************************************************************)
(* The final result of the next segment, whenever the server's endpointer  *)
(* or one of its timers decides; the last one ends the recognition.        *)
(***************************************************************************)
ServeResult ==
  /\ conn = "open" /\ srv.rec # 0 /\ Room(1)
  /\ s2c' = Append(s2c, Result(srv.rec, srv.seg))
  /\ srv' = IF srv.seg = Segments THEN [srv EXCEPT !.rec = 0, !.seg = 1]
            ELSE [srv EXCEPT !.seg = @ + 1]
  /\ UNCHANGED <<conn, c2s>>

(* The peer closes the connection or the network loses it.                 *)
Drop ==
  /\ "drop" \in Faults
  /\ conn = "open"
  /\ conn' = "dropped"
  /\ UNCHANGED <<c2s, s2c, srv>>

ServerStep ==
  \/ ServeRequest
  \/ ServeCancel
  \/ ServeAudio
  \/ ServeResult
  \/ Drop
=============================================================================
