----------------------------- MODULE MockServer -----------------------------
(***************************************************************************)
(* src/ws_mock/server.cc, the server of the tests, for one connection, and *)
(* the two queues between it and a client.  Each message to the client     *)
(* carries a ghost: what the server means by it.                           *)
(***************************************************************************)
EXTENDS Naturals, WsParser

CONSTANTS
  END_RECOGNIZE,  \* packets after which the mock recognizes without LastPacket
  MaxInFlight     \* bound: with as many messages under way a server waits

ASSUME MockAssumption == END_RECOGNIZE \in Nat \ {0} /\ MaxInFlight \in Nat

VARIABLES
  toServer,  \* requests, oldest first
  toClient,  \* [text, means], oldest first
  mock,      \* audio_counter, session_status and parser_
  owed,      \* ghost: the statuses of final results sent and not yet taken
  lasts      \* ghost: the last results sent

channelVars == <<toServer, toClient, owed, lasts>>

Meaning(final, last, status) == [final |-> final, last |-> last, status |-> status]
Nothing == Meaning(FALSE, FALSE, "none")
Says(text) == [text |-> text, means |-> Nothing]

Mock(counter, status, params) ==
  [counter |-> counter, status |-> status, params |-> params]
NewMock == Mock(0, "IDLE", NoHeaders)

(* on_open leaves audio_counter as it finds it, and session_status and     *)
(* parser_ are those of an earlier connection.                             *)
UsedMocks ==
  {Mock(counter, status, params) :
     counter \in {0, END_RECOGNIZE \div 5, END_RECOGNIZE},
     status \in {"IDLE", "LISTENING"},
     params \in {NoHeaders, "Media-Type" :> <<"audio/wav">>}}

Queues == toServer = <<>> /\ toClient = <<>> /\ owed = <<>> /\ lasts = 0

(* The statuses of the final results among messages, in their order.       *)
Finals(messages) ==
  LET upTo[i \in 0 .. Len(messages)] ==
        IF i = 0 THEN <<>>
        ELSE IF messages[i].means.final
        THEN Append(upTo[i - 1], messages[i].means.status) ELSE upTo[i - 1]
  IN upTo[Len(messages)]

(* A server sends: the queue, and the ghosts of what it means.             *)
Send(messages) ==
  /\ toClient' = toClient \o messages
  /\ owed' = owed \o Finals(messages)
  /\ lasts' = lasts + Cardinality({i \in DOMAIN messages : messages[i].means.last})

-----------------------------------------------------------------------------
StartOfSpeech ==
  Says(Message("START_OF_SPEECH",
               <<Header("Handle", <<Space, "handle">>),
                 Header("Session-Status", <<Space, "LISTENING">>)>>, NoBody))

Json(status, alternatives, final, last) ==
  [json |-> TRUE, status |-> status, alternatives |-> alternatives,
   final |-> final, last |-> last]

ResultText(status, session, body) ==
  LET headers == <<Header("Handle", <<Space, "handle">>),
                   Header("Result-Status", <<Space, status>>),
                   Header("Session-Status", <<Space, session>>)>>
      content == <<Header("Content-Length", <<Space, "size">>),
                   Header("Content-Type", <<Space, "application/json">>)>>
  IN Message("RECOGNITION_RESULT",
             IF body.json THEN headers \o content ELSE headers, body)

MockResult ==
  [text |-> ResultText("RECOGNIZED", "IDLE", Json("RECOGNIZED", 1, "true", "true")),
   means |-> Meaning(TRUE, TRUE, "RECOGNIZED")]

(* FillResponseWithParams: the session's status before this request, but   *)
(* for START_RECOGNITION.                                                  *)
MockResponse(cmd, status) ==
  Says(Raw("RESPONSE",
           <<Header("Error-Code", <<"000">>), Header("Handle", <<"handle", Space>>),
             Header("Message", <<"success">>), Header("Method", <<cmd>>),
             Header("Result", <<"SUCCESS", Space>>),
             Header("Session-Status", <<status>>)>>))

(* Faulty: the counter stays where a result is due.                        *)
StillThere(counter) == counter

(* Faulty: the counter goes on.                                            *)
CountsOn(counter) == IF counter >= END_RECOGNIZE THEN counter + 1 ELSE counter

(* The end of echo_handler: messages follow from the counter.              *)
ByCounter(counter) ==
  (IF counter = END_RECOGNIZE \div 5 THEN <<StartOfSpeech>> ELSE <<>>)
  \o (IF counter = END_RECOGNIZE THEN <<MockResult>> ELSE <<>>)
Stopped(counter) == IF counter = END_RECOGNIZE THEN END_RECOGNIZE + 1 ELSE counter

Serving == toServer # <<>> /\ Len(toClient) <= MaxInFlight /\ toServer' = Tail(toServer)

(* echo_handler of a request other than audio.                             *)
MockAnswer(request) ==
  /\ request.cmd # "SEND_AUDIO"
  /\ LET cmd == request.cmd
         status == IF cmd = "START_RECOGNITION" THEN "LISTENING" ELSE mock.status
         counter == IF cmd \in {"CREATE_SESSION", "RELEASE_SESSION"} THEN 0
                    ELSE mock.counter
     IN /\ mock' = [status |-> IF cmd = "CREATE_SESSION" THEN "IDLE" ELSE status,
                    params |-> IF cmd = "SET_PARAMETERS" THEN request.headers
                               ELSE mock.params,
                    counter |-> Stopped(counter)]
        /\ Send(<<MockResponse(cmd, status)>> \o ByCounter(counter))

(* echo_handler of audio: counted up to END_RECOGNIZE, and at the last      *)
(* packet the counter is there at once.                                    *)
MockAudio(request) ==
  /\ request.cmd = "SEND_AUDIO"
  /\ LET last == Get(request, "LastPacket") = <<"true">>
         counted == IF mock.counter < END_RECOGNIZE THEN mock.counter + 1
                    ELSE mock.counter
         counter == IF last THEN END_RECOGNIZE ELSE counted
     IN /\ mock' = [mock EXCEPT !.counter = Stopped(counter)]
        /\ Send((IF last THEN <<StartOfSpeech>> ELSE <<>>) \o ByCounter(counter))

MockStep ==
  /\ Serving
  /\ LET request == Parse(Head(toServer))
     IN MockAnswer(request) \/ MockAudio(request)
=============================================================================
