---------------------------- MODULE Conversation ----------------------------
(***************************************************************************)
(* What is said between a recognizer and its server: the messages of       *)
(* src/src/send_message.cc and of a server, their texts read by WsParser,  *)
(* and what src/src/process_msg.cc and src/src/process_result.cc make of   *)
(* them.  Here a call of the program, a handler and a packet is one step:  *)
(* Recognizer has the threads, and this module what they say.              *)
(***************************************************************************)
EXTENDS Builders, MockServer

CONSTANTS
  Programs,   \* what a program chooses, and which server it meets
  Meanings,   \* what a server of the protocol may mean by a result
  MaxResults  \* bound: results of one recognition that are not its last

VARIABLES
  program,   \* the program that runs
  n,         \* recognitions begun
  client,    \* the recognizer
  config,    \* config_ of the Impl
  files,     \* blocks left in each FileAudioSource of the program
  server,    \* a server of the protocol, where the program has no mock
  canceled   \* the program has called cancelRecognition

Codes == {"RECOGNIZED", "NO_MATCH", "NO_INPUT_TIMEOUT", "MAX_SPEECH",
          "EARLY_SPEECH", "RECOGNITION_TIMEOUT", "NO_SPEECH", "CANCELED",
          "FAILURE"}

(* What of a program the types rest on.  (The empty word is a string, too: *)
(* the provers have to be told.)                                           *)
Words == STRING \cup {""}
ASSUME ProgramsAssumption ==
  \A p \in Programs :
    /\ p.files \in Seq(Nat)
    /\ p.turns \in Seq([adds : Seq([kind : {"uri", "grammar"}, text : Words]),
                       source : DOMAIN p.files])

(* What is set, by the program or its environment, is of the parameter's   *)
(* type.                                                                   *)
Fits(p, value) ==
  /\ p \in Numbers => value \in 0 .. MaxNumber
  /\ p \in Switches => value \in BOOLEAN
  /\ p \in Texts => value \in Seq(Words)
ASSUME ParametersAssumption ==
  \A p \in Programs : \A q \in Parameters :
    /\ q \in DOMAIN p.chosen => Fits(q, p.chosen[q])
    /\ Variable[q] \in DOMAIN p.env => Fits(q, Reading(q, p.env[Variable[q]]))

(* What a server may mean: the last result of a recognition is final and   *)
(* PROCESSING never is.  A status alone means that the recognition ended   *)
(* with it; a body without the fields for it, that it was RECOGNIZED;      *)
(* other bodies say whether they are final and last.  CANCELED is told     *)
(* apart, since it answers a request.                                      *)
ASSUME MeaningsAssumption ==
  /\ MaxResults \in Nat
  /\ \A m \in Meanings :
       /\ m.final \in BOOLEAN /\ m.last \in BOOLEAN
       /\ m.status \in (Codes \ {"CANCELED"}) \cup {"PROCESSING"}
       /\ m.final => m.status # "PROCESSING"
       /\ m.last => m.final
       /\ \/ m.form = "status" /\ m.final /\ m.last
          \/ m.form = "plain" /\ m.final /\ m.last /\ m.status = "RECOGNIZED"
          \/ m.form = "segment"

clientVars == <<program, config, n, client, files, canceled>>
vars == <<clientVars, channelVars, mock, server>>

ModelType == [uri : Words, grammar : Words, error : BOOLEAN]
Statuses == Codes \cup {"PROCESSING", "none"}
MeaningType == [final : BOOLEAN, last : BOOLEAN, status : Statuses]
ClientType ==
  [phase : {"building", "open", "raised", "crashed"}, recognizing : BOOLEAN,
   idle : BOOLEAN, lm : ModelType,
   results : Seq(Codes), eptr : BOOLEAN, audio : {"none", "reading", "done"},
   source : Nat]

Init ==
  /\ Queues
  /\ program \in Programs
  /\ mock \in IF program.mock THEN UsedMocks ELSE {NewMock}
  /\ config = Defaults /\ n = 0 /\ files = program.files
  /\ client = [phase |-> "building", recognizing |-> FALSE, idle |-> FALSE,
               lm |-> NoModel, results |-> <<>>, eptr |-> FALSE,
               audio |-> "none", source |-> 0]
  /\ server = [running |-> FALSE, results |-> 0]
  /\ canceled = FALSE

(* The configuration that the program builds.                              *)
Configuration ==
  IF program.reads
  THEN GetConfigFromEnvironment(Config(program.chosen), program.env,
                                program.replaceEmpty)
  ELSE Config(program.chosen)

Ask(request) == toServer' = Append(toServer, request)
AskNothing == UNCHANGED toServer
ClientIsOpen == client.phase = "open"

(* FileAudioSource::read is at the end of its file, and stays there: the   *)
(* next recognition with this source reads no block.                       *)
AtEnd(source) == files[source] = 0
ReadBlock ==
  files' = IF AtEnd(client.source) THEN files
           ELSE [files EXCEPT ![client.source] = @ - 1]

(* A thread that is stopped while it reads tests the flag after one more   *)
(* read, and drops the block.                                              *)
StopAudio == IF client.audio = "reading" THEN ReadBlock ELSE UNCHANGED files

(* The results that are stored leave result_.                              *)
Leave == owed' = SubSeq(owed, Len(client.results) + 1, Len(owed))

-----------------------------------------------------------------------------
(* The program.                                                            *)

Build ==
  /\ client.phase = "building"
  /\ client' = [client EXCEPT !.phase = IF UrlAccepted(program.scheme) THEN "open"
                                        ELSE "raised"]
  /\ config' = Configuration
  /\ UNCHANGED <<program, n, files, canceled, channelVars, mock, server>>

(* LanguageModelList::Builder, then recognize().  The program has waited   *)
(* for the recognition before.                                             *)
Recognize ==
  /\ ClientIsOpen /\ n < Len(program.turns)
  /\ ~client.recognizing /\ client.audio = "none"
  /\ LET turn == program.turns[n + 1]
         lm == LanguageModelList(turn.adds)
         begun == [client EXCEPT !.recognizing = TRUE, !.eptr = FALSE,
                                 !.results = <<>>, !.lm = lm,
                                 !.source = turn.source]
         raised == [begun EXCEPT !.phase = "raised"]
     IN IF lm.error
        THEN /\ client' = [client EXCEPT !.phase = "raised"]
             /\ AskNothing /\ UNCHANGED <<n, owed>>
        ELSE /\ n' = n + 1 /\ Leave
             /\ IF ~client.idle THEN client' = begun /\ Ask(CreateSession)
                ELSE IF IsEmpty(lm) THEN client' = raised /\ AskNothing
                ELSE client' = begun /\ Ask(StartRecognition(lm))
  /\ UNCHANGED <<program, config, files, canceled, toClient, lasts, mock, server>>

(* waitRecognitionResult, when it has something to do.                     *)
Wait ==
  /\ ClientIsOpen
  /\ client.results # <<>> \/ client.eptr \/ ~client.recognizing
  /\ client.results # <<>> \/ client.eptr \/ client.audio # "none"
  /\ client' = [client EXCEPT !.audio = "none", !.results = <<>>,
                              !.phase = IF client.eptr THEN "raised" ELSE @]
  /\ Leave /\ StopAudio
  /\ UNCHANGED <<program, config, n, canceled, toServer, toClient, lasts, mock, server>>

(* cancelRecognition, at most once.                                        *)
Cancel ==
  /\ ClientIsOpen /\ program.cancels /\ ~canceled /\ client.recognizing
  /\ canceled' = TRUE
  /\ Ask(CancelRecognition)
  /\ client' = [client EXCEPT !.audio = "none"]
  /\ StopAudio
  /\ UNCHANGED <<program, config, n, toClient, owed, lasts, mock, server>>

-----------------------------------------------------------------------------
(* The handlers.                                                           *)

Answers(heard, method) == heard.cmd = "RESPONSE" /\ Get(heard, "Method") = <<method>>

(* Faulty: whatever a response reports is taken for a success.             *)
Responded(heard) == heard.cmd = "RESPONSE"

Succeeded(heard) == Mentions(Get(heard, "Result"), "SUCCESS")

(* startRecognition on the asio thread: nothing catches what it throws.    *)
StartOnNet ==
  IF IsEmpty(client.lm)
  THEN client' = [client EXCEPT !.phase = "crashed"] /\ AskNothing
  ELSE Ask(StartRecognition(client.lm)) /\ UNCHANGED client

HandleCreateSession(heard) ==
  /\ Answers(heard, "CREATE_SESSION") /\ Succeeded(heard)
  /\ IF program.configured THEN Ask(SetParameters(config)) /\ UNCHANGED client
     ELSE StartOnNet
  /\ UNCHANGED owed

HandleSetParameters(heard) ==
  Answers(heard, "SET_PARAMETERS") /\ Succeeded(heard) /\ StartOnNet /\ UNCHANGED owed

HandleStart(heard) ==
  /\ Answers(heard, "START_RECOGNITION") /\ Succeeded(heard)
  /\ client' = IF client.audio = "none" THEN [client EXCEPT !.audio = "reading"]
               ELSE [client EXCEPT !.phase = "crashed"]
  /\ AskNothing /\ UNCHANGED owed

HandleCancel(heard) ==
  /\ Answers(heard, "CANCEL_RECOGNITION")
  /\ Succeeded(heard) \/ Mentions(Get(heard, "Result"), "INVALID_ACTION")
  /\ client' = [client EXCEPT !.results = <<>>, !.recognizing = FALSE]
  /\ Leave
  /\ AskNothing

Methods == {"CREATE_SESSION", "SET_PARAMETERS", "START_RECOGNITION",
            "CANCEL_RECOGNITION"}

(* generateError.                                                          *)
HandleFailure(heard) ==
  /\ heard.cmd = "RESPONSE"
  /\ \E method \in Methods :
       /\ Get(heard, "Method") = <<method>> /\ ~Succeeded(heard)
       /\ method = "CANCEL_RECOGNITION" =>
            ~Mentions(Get(heard, "Result"), "INVALID_ACTION")
  /\ client' = [client EXCEPT !.eptr = TRUE]
  /\ AskNothing /\ UNCHANGED owed

(* A response without a method that a handler knows: nothing is done.      *)
HandleUnknown(heard) ==
  /\ heard.cmd = "RESPONSE"
  /\ \A method \in Methods : Get(heard, "Method") # <<method>>
  /\ AskNothing /\ UNCHANGED <<client, owed>>

(* Only listeners are told.                                                *)
HandleSpeech(heard) ==
  /\ heard.cmd \in {"START_OF_SPEECH", "END_OF_SPEECH"}
  /\ AskNothing /\ UNCHANGED <<client, owed>>

(***************************************************************************)
(* RecognitionResult(status): the code of a status that is not known is    *)
(* not initialised.                                                        *)
(***************************************************************************)
CodesOf(status) ==
  IF status = "PROCESSING" THEN {"NO_MATCH"}
  ELSE IF status \in Codes THEN {status}
  ELSE Codes

(* addAlternatives: a result with alternatives is not a NO_MATCH.          *)
WithAlternatives(code, alternatives) ==
  IF code = "NO_MATCH" /\ alternatives > 0 THEN "RECOGNIZED" ELSE code

(* get_header of Result-Status, as one word.                               *)
StatusOf(heard) ==
  LET status == Get(heard, "Result-Status")
  IN IF status = <<>> THEN "" ELSE Head(status)

Settled(heard, ended) ==
  [client EXCEPT !.idle = @ \/ Get(heard, "Session-Status") = <<"IDLE">>,
                 !.recognizing = @ /\ ~ended]
Stored(heard, code, ended) == [Settled(heard, ended) EXCEPT !.results = Append(@, code)]

(* Faulty: a result that does not say so is not final, or not the last.    *)
FinalIfSaid(heard) == heard.body.final = "true"
LastIfSaid(heard) == heard.body.last = "true"

(* Fields of the body, or what was meant before there were any.            *)
IsFinal(heard) ==
  IF heard.body.final = "absent" THEN StatusOf(heard) = "RECOGNIZED"
  ELSE heard.body.final = "true"
IsLast(heard) == heard.body.last # "false"

IsResult(heard) == heard.cmd = "RECOGNITION_RESULT" /\ AskNothing /\ UNCHANGED owed

HandleCanceledResult(heard) ==
  /\ IsResult(heard) /\ StatusOf(heard) = "CANCELED"
  /\ client' = Settled(heard, TRUE)

HandleStatusOnly(heard) ==
  /\ IsResult(heard) /\ StatusOf(heard) # "CANCELED" /\ ~heard.body.json
  /\ \E code \in CodesOf(StatusOf(heard)) : client' = Stored(heard, code, TRUE)

HandleFinal(heard) ==
  /\ IsResult(heard) /\ StatusOf(heard) # "CANCELED" /\ heard.body.json /\ IsFinal(heard)
  /\ \E code \in CodesOf(heard.body.status) :
       client' = Stored(heard, WithAlternatives(code, heard.body.alternatives), IsLast(heard))

HandlePartial(heard) ==
  /\ IsResult(heard) /\ StatusOf(heard) # "CANCELED" /\ heard.body.json /\ ~IsFinal(heard)
  /\ client' = Settled(heard, FALSE)

NetReady == ClientIsOpen /\ toClient # <<>>
NetStep ==
  /\ NetReady
  /\ toClient' = Tail(toClient)
  /\ LET heard == Parse(Head(toClient).text)
     IN \/ HandleCreateSession(heard)
        \/ HandleSetParameters(heard)
        \/ HandleStart(heard)
        \/ HandleCancel(heard)
        \/ HandleFailure(heard)
        \/ HandleUnknown(heard)
        \/ HandleSpeech(heard)
        \/ HandleCanceledResult(heard)
        \/ HandleStatusOnly(heard)
        \/ HandleFinal(heard)
        \/ HandlePartial(heard)
  /\ UNCHANGED <<program, config, n, files, canceled, lasts, mock, server>>

-----------------------------------------------------------------------------
(* A turn of sendAudioMessage: a block, or the last packet.                *)
AudioReady == ClientIsOpen /\ client.audio = "reading"
AudioSend ==
  /\ AudioReady
  /\ LET last == AtEnd(client.source)
     IN /\ Ask(SendAudio(last)) /\ ReadBlock
        /\ client' = [client EXCEPT !.audio = IF last THEN "done" ELSE @]
  /\ UNCHANGED <<program, config, n, canceled, toClient, owed, lasts, mock, server>>

-----------------------------------------------------------------------------
(* A server of the protocol (external): what it means, it says in one of   *)
(* the forms that process_result.cc reads.                                 *)

Saying(m) ==
  LET session == IF m.last THEN "IDLE" ELSE "RECOGNIZING"
      flag(b) == IF b THEN "true" ELSE "false"
      alternatives == IF m.status \in {"RECOGNIZED", "PROCESSING"} THEN 1 ELSE 0
  IN CASE m.form = "status" -> ResultText(m.status, session, NoBody)
       [] m.form = "plain" ->
            ResultText(m.status, session,
                       Json(m.status, alternatives, "absent", "absent"))
       [] m.form = "segment" ->
            ResultText(m.status, session,
                       Json(m.status, alternatives, flag(m.final), flag(m.last)))

Canceled ==
  [text |-> ResultText("CANCELED", "IDLE", NoBody), means |-> Meaning(FALSE, TRUE, "none")]

Answer(method, result, others) ==
  Says(Message("RESPONSE",
               <<Header("Method", <<Space, method>>),
                 Header("Result", <<Space, result>>)>> \o others, NoBody))
Accepts(method) == Answer(method, "SUCCESS", <<>>)

(* An error, with a message that cannot be read after or before the rest.  *)
Why == Header("Message", <<"why", Illegal>>)
Refusals(method) ==
  LET last == Answer(method, "FAILURE", <<Header("Error-Code", <<"ERR">>), Why>>)
  IN {last, Says(Message("RESPONSE", <<Why>> \o last.text.headers, NoBody))}

ServerAnswer(method) ==
  /\ method \in Methods \ {"CANCEL_RECOGNITION"}
  /\ \/ /\ Send(<<Accepts(method)>>)
        /\ server' = [running |-> server.running \/ method = "START_RECOGNITION",
                      results |-> IF method = "START_RECOGNITION" THEN 0
                                  ELSE server.results]
     \/ /\ program.rejects
        /\ \E refusal \in Refusals(method) : Send(<<refusal>>)
        /\ UNCHANGED server

ServerCancel(method) ==
  /\ method = "CANCEL_RECOGNITION"
  /\ IF server.running
     THEN \/ Send(<<Accepts(method)>>)
          \/ Send(<<Accepts(method), Canceled>>)
     ELSE Send(<<Answer(method, "INVALID_ACTION", <<>>)>>)
  /\ server' = [server EXCEPT !.running = FALSE]

ServerAudio(method) == method = "SEND_AUDIO" /\ Send(<<>>) /\ UNCHANGED server

ServerSpeaks ==
  /\ server.running /\ Len(toClient) < MaxInFlight
  /\ \E cmd \in {"START_OF_SPEECH", "END_OF_SPEECH"} :
       Send(<<Says(Message(cmd, <<>>, NoBody))>>)
  /\ UNCHANGED <<toServer, server>>

ServerResult ==
  /\ server.running /\ Len(toClient) < MaxInFlight
  /\ \E m \in Meanings :
       /\ m.last \/ server.results < MaxResults
       /\ Send(<<[text |-> Saying(m), means |-> Meaning(m.final, m.last, m.status)]>>)
       /\ server' = IF m.last THEN [server EXCEPT !.running = FALSE]
                    ELSE [server EXCEPT !.results = @ + 1]
  /\ UNCHANGED toServer

ServerStep ==
  \/ /\ Serving
     /\ LET method == Head(toServer).cmd
        IN ServerAnswer(method) \/ ServerCancel(method) \/ ServerAudio(method)
  \/ ServerSpeaks
  \/ ServerResult

-----------------------------------------------------------------------------
ProgramStep == Build \/ Recognize \/ Wait \/ Cancel

MocksTurn == program.mock /\ MockStep /\ UNCHANGED <<clientVars, server>>
ServersTurn == ~program.mock /\ ServerStep /\ UNCHANGED <<clientVars, mock>>

Next == ProgramStep \/ NetStep \/ AudioSend \/ MocksTurn \/ ServersTurn

Spec == Init /\ [][Next]_vars

(***************************************************************************)
(* The library's two threads run, and so does the mock: weak fairness of   *)
(* NetStep, AudioSend and MocksTurn, written with what enables each, since *)
(* TLC is slow to find that a step that reads a text is enabled.           *)
(***************************************************************************)
MockReady == program.mock /\ toServer # <<>> /\ Len(toClient) <= MaxInFlight

FairSpec ==
  /\ Spec
  /\ <>[]NetReady => []<><<NetStep>>_vars
  /\ <>[]AudioReady => []<><<AudioSend>>_vars
  /\ <>[]MockReady => []<><<MocksTurn>>_vars

-----------------------------------------------------------------------------
(* Every variable keeps to its domain, and the queues to their bound.      *)
TypeOK ==
  /\ program \in Programs /\ client \in ClientType
  /\ n \in 0 .. Len(program.turns)
  /\ mock.counter \in 0 .. END_RECOGNIZE + 1 /\ mock.status \in {"IDLE", "LISTENING"}
  /\ server \in [running : BOOLEAN, results : 0 .. MaxResults]
  /\ toServer \in Seq(Range(toServer))
  /\ \A i \in DOMAIN toServer : toServer[i].cmd \in Methods \cup {"SEND_AUDIO"}
  /\ toClient \in Seq(Range(toClient)) /\ Len(toClient) <= MaxInFlight + 3
  /\ \A i \in DOMAIN toClient : toClient[i].means \in MeaningType
  /\ owed \in Seq(Statuses) /\ lasts \in Nat
  /\ canceled \in BOOLEAN

-----------------------------------------------------------------------------
(***************************************************************************)
(* README.md:50-75 and :77 of the source: the variable of each parameter,  *)
(* an integer is a number, and the existence of a variable makes a Bool    *)
(* true.                                                                   *)
(***************************************************************************)
Documented ==
  [confidenceThreshold |-> "CONFIDENCE_THRESHOLD",
   maxSentences |-> "MAX_SENTENCES",
   noInputTimeoutMilliseconds |-> "NO_INPUT_TIMEOUT_MILLISECONDS",
   recognitionTimeoutSeconds |-> "RECOG_TIMEOUT_SECONDS",
   noInputTimeoutEnabled |-> "NO_INPUT_TIMEOUT_ENABLED",
   recognitionTimeoutEnabled |-> "RECOG_TIMEOUT_ENABLED",
   inferAgeEnabled |-> "INFER_AGE_ENABLED",
   inferEmotionEnabled |-> "INFER_EMOTION_ENABLED",
   inferGenderEnabled |-> "INFER_GENDER_ENABLED",
   headMarginMilliseconds |-> "HEAD_MARGIN_MILLISECONDS",
   tailMarginMilliseconds |-> "TAIL_MARGIN_MILLISECONDS",
   waitEndMilliseconds |-> "WAIT_END_MILLISECONDS",
   continuousMode |-> "CONTINUOUS_MODE",
   maxSegmentDuration |-> "MAX_SEGMENT_DURATION",
   startInputTimers |-> "START_INPUT_TIMERS",
   endpointerAutoLevelLen |-> "ENDPOINTER_AUTO_LEVEL_LEN",
   endpointerLevelMode |-> "ENDPOINTER_LEVEL_MODE",
   endpointerLevelThreshold |-> "ENDPOINTER_LEVEL_THRESHOLD",
   verifyBufferUtterance |-> "VERIFY_BUFFER_UTTERANCE",
   accountTag |-> "ACCOUNT_TAG",
   channelIdentifier |-> "CHANNEL_IDENTIFIER",
   mediaType |-> "MEDIA_TYPE"]
AsDocumented(p, value) ==
  IF p \in Numbers THEN value.number ELSE IF p \in Switches THEN TRUE ELSE value.text

(* What the program wants of a parameter: the environment's word before    *)
(* its own, its own before the default.                                    *)
Wanted(p) ==
  IF program.reads /\ Documented[p] \in DOMAIN program.env
  THEN AsDocumented(p, program.env[Documented[p]])
  ELSE IF program.reads /\ program.replaceEmpty THEN Empty(p)
  ELSE IF p \in DOMAIN program.chosen THEN program.chosen[p] ELSE Defaults[p]

(* Where the code does otherwise: three parameters have another variable,  *)
(* and one of a Bool that does not spell "true" makes it false.            *)
Misnamed == {"inferEmotionEnabled", "inferGenderEnabled", "continuousMode"}
IsMisread(p) ==
  /\ program.reads
  /\ \/ p \in Misnamed /\ {Variable[p], Documented[p]} \cap DOMAIN program.env # {}
     \/ /\ p \in Switches /\ Documented[p] \in DOMAIN program.env
        /\ ~program.env[Documented[p]].true

(* A parameter that depends on another one, and on its value.              *)
Depends ==
  [noInputTimeoutMilliseconds |-> [on |-> "noInputTimeoutEnabled", being |-> {TRUE}],
   recognitionTimeoutSeconds |-> [on |-> "recognitionTimeoutEnabled", being |-> {TRUE}],
   endpointerAutoLevelLen |-> [on |-> "endpointerLevelMode", being |-> {1}],
   endpointerLevelThreshold |-> [on |-> "endpointerLevelMode", being |-> {2}]]
InForce(p) ==
  p \in DOMAIN Depends => Wanted(Depends[p].on) \in Depends[p].being
Misread(p) == IsMisread(p) \/ (p \in DOMAIN Depends /\ IsMisread(Depends[p].on))

(* What arrives of a text that can be read: all but the spaces before it.  *)
Arrives(told, text) ==
  \E k \in 0 .. Len(text) :
    /\ \A i \in 1 .. k : text[i] = Space
    /\ told = SubSeq(text, k + 1, Len(text))
    /\ told # <<>> => Head(told) # Space

(* A text that cannot be read, by a character or since it is the title of  *)
(* a message, takes the headers from its own on with it.                   *)
CannotBeRead(text) == Illegal \in Range(text) \/ Arrives(<<"ASR">>, text)
Place == [p \in Parameters |-> SelectInSeq(KeyOrder, LAMBDA key : key = HeaderOf[p])]
LostWithText(p) ==
  \E q \in Texts : CannotBeRead(Wanted(q)) /\ Place[q] <= Place[p]

(* What the mock was told of a parameter.                                  *)
Told(p) ==
  LET text == Get([headers |-> mock.params], HeaderOf[p])
  IN IF text = <<>> THEN Empty(p)
     ELSE IF p \in Texts THEN text
     ELSE IF p \in Switches THEN TRUE
     ELSE CHOOSE k \in 1 .. MaxNumber : Numeral[k] = Head(text)

(***************************************************************************)
(* A mock that is sent audio was told every parameter as the program, or   *)
(* its environment by the documented variables, wants it and nothing else, *)
(* through builder, environment, request, text and parser: only what       *)
(* follows a text that cannot be read is missing, and the spaces before a  *)
(* text, and the parameters whose variables are misread are left out.      *)
(***************************************************************************)
Heard(p) ==
  IF LostWithText(p) THEN p \in Texts \/ Told(p) = Empty(p)
  ELSE IF p \in Texts THEN Arrives(Told(p), Wanted(p))
  ELSE Told(p) = IF InForce(p) THEN Wanted(p) ELSE Empty(p)
SendsAudio == program.mock /\ program.configured /\ client.audio # "none"
ParametersArrive ==
  SendsAudio => \A p \in Parameters : Misread(p) \/ Heard(p)

(***************************************************************************)
(* The client makes of each message what the server means by it, through   *)
(* text, parser and the fields that a body may lack: whether it is final,  *)
(* the code it is stored with, and whether the recognition ends with it.   *)
(***************************************************************************)
HeardAsMeant(m) ==
  LET heard == Parse(m.text)
      isCanceled == StatusOf(heard) = "CANCELED"
  IN IF heard.cmd # "RECOGNITION_RESULT" THEN ~m.means.final /\ ~m.means.last
     ELSE /\ m.means.final <=> ~isCanceled /\ (heard.body.json => IsFinal(heard))
          /\ m.means.final =>
               IF heard.body.json
               THEN \A code \in CodesOf(heard.body.status) :
                      WithAlternatives(code, heard.body.alternatives) = m.means.status
               ELSE CodesOf(StatusOf(heard)) = {m.means.status}
          /\ m.means.last <=>
               isCanceled \/ ~heard.body.json \/ (IsFinal(heard) /\ IsLast(heard))
MeaningKept == \A i \in DOMAIN toClient : HeardAsMeant(toClient[i])

(***************************************************************************)
(* What the servers sent as final results and nothing else, of every form  *)
(* and in this order, is stored or on its way until a wait returns it, or  *)
(* a new recognition or a cancel drops it.                                 *)
(***************************************************************************)
ResultsFaithful ==
  owed = client.results \o Finals(toClient)

(***************************************************************************)
(* A program that does not cancel, on a server that ends each recognition  *)
(* once: one of the protocol, or the mock where each file is shorter than  *)
(* it counts.                                                              *)
(***************************************************************************)
Short == \A i \in DOMAIN program.files : program.files[i] < END_RECOGNIZE
Regular == ~canceled /\ (program.mock => Short)

(* Something under way: a request that is answered, a response, and the    *)
(* last result of a recognition.                                           *)
Asked == \E i \in DOMAIN toServer : toServer[i].cmd # "SEND_AUDIO"
IsResponse(m) == m.text.cmd = "RESPONSE"
Answered == \E i \in DOMAIN toClient : IsResponse(toClient[i])
Underway == \E i \in DOMAIN toClient : toClient[i].means.last

(***************************************************************************)
(* The program takes a recognition for running exactly until it has heard  *)
(* the last result.  (With a cancel, its response may be heard in the next *)
(* recognition; a file of END_RECOGNIZE blocks makes the mock say a result *)
(* too many, which may be, too.)                                           *)
(***************************************************************************)
EndedTogether ==
  client.phase = "open" /\ Regular => (client.recognizing <=> lasts < n \/ Underway)

(***************************************************************************)
(* The mock has a result for each recognition and never one too many,      *)
(* also when a file was read before, unless END_RECOGNIZE packets come     *)
(* before the last one or the program cancels.                             *)
(***************************************************************************)
OneResultEach ==
  program.mock /\ client.phase = "open" /\ Regular =>
    /\ lasts <= n
    /\ ~client.recognizing => lasts = n

(***************************************************************************)
(* One recognition at a time and one request of it: the newest request is  *)
(* the only one that asks for an answer, nothing is asked and no audio     *)
(* sent while its response is under way, a recognizer that is asked to     *)
(* start is not running, and the response to the start is heard before the *)
(* last result, also by a client that hears both late.                     *)
(***************************************************************************)
HasNotFailed == client.phase \in {"building", "open"}
Starts(heard) == Answers(heard, "START_RECOGNITION") /\ Succeeded(heard)

TurnCounts ==
  /\ lasts <= n /\ n <= lasts + 1
  /\ client.recognizing <=> lasts < n \/ Underway
  /\ Underway => lasts = n
  /\ n = 0 => toServer = <<>> /\ toClient = <<>> /\ client.audio = "none"
TurnRequests ==
  /\ server.running => lasts < n /\ ~Asked
  /\ Asked => lasts < n /\ client.audio = "none" /\ ~Answered
  /\ \A i \in DOMAIN toServer :
       toServer[i].cmd # "SEND_AUDIO" =>
         i = Len(toServer) /\ toServer[i].cmd # "CANCEL_RECOGNITION"
TurnAnswers ==
  /\ Answered => client.recognizing /\ client.audio = "none"
  /\ \A i, j \in DOMAIN toClient :
       /\ IsResponse(toClient[i]) /\ IsResponse(toClient[j]) => i = j
       /\ toClient[i].means.last /\ toClient[j].means.last => i = j
       /\ IsResponse(toClient[i]) /\ toClient[j].means.last => i < j
  /\ \A i \in DOMAIN toClient :
       IsResponse(toClient[i]) =>
         /\ ~Answers(Parse(toClient[i].text), "CANCEL_RECOGNITION")
         /\ IF Starts(Parse(toClient[i].text))
            THEN program.mock \/ server.running \/ lasts = n
            ELSE lasts < n /\ ~server.running
OneTurn == HasNotFailed /\ Regular => TurnCounts /\ TurnRequests /\ TurnAnswers

(***************************************************************************)
(* The mock's counter and the client's file: what was counted, is under    *)
(* way and is left to send comes to END_RECOGNIZE at most, so that the     *)
(* last packet finds a result due, or the counter is past it since the     *)
(* last recognition; and only the newest packet can be the last one.       *)
(***************************************************************************)
Packets == IF Asked \/ client.audio = "done" THEN Len(toServer) ELSE Len(toServer) + 1
MockFinished ==
  /\ toServer = <<>> /\ ~Answered /\ client.audio # "reading"
  /\ n > 0 => mock.counter = END_RECOGNIZE + 1
MockUnderway ==
  /\ client.results = <<>> /\ ~client.eptr
  /\ Asked => Len(toServer) = 1
  /\ Answered => toServer = <<>>
  /\ ~Asked /\ ~Answered => client.audio # "none"
  /\ client.audio = "done" => toServer # <<>> /\ AtEnd(client.source)
  /\ \A i \in DOMAIN toServer :
       toServer[i].cmd = "SEND_AUDIO" =>
         (Get(Parse(toServer[i]), "LastPacket") = <<"true">>
            <=> client.audio = "done" /\ i = Len(toServer))
  /\ \/ \E i \in DOMAIN toServer : toServer[i].cmd = "CREATE_SESSION"
     \/ mock.counter = END_RECOGNIZE + 1
     \/ mock.counter + files[client.source] + Packets <= END_RECOGNIZE
MockTurn ==
  program.mock /\ HasNotFailed /\ Regular =>
    /\ ~server.running
    /\ client.idle => n > 0
    /\ IF lasts = n THEN MockFinished ELSE MockUnderway

(***************************************************************************)
(* The process ends only in a recognition for which the program added no   *)
(* text, and a call raises an error only if there is one: a bad url, more  *)
(* or less than one model, or a server that rejects.  (With a cancel       *)
(* before the session is created, the start that follows it and that of    *)
(* the next recognition each start an audio thread, the second over the    *)
(* first: the process ends.  With a result too many it may, too.)          *)
(***************************************************************************)
OneModel(adds) ==
  \E k \in DOMAIN adds : k = Len(adds) /\ \A i \in DOMAIN adds : adds[i].text # "" <=> i = k
Begun == IF n = Len(program.turns) THEN n ELSE n + 1
FailsForAReason ==
  /\ client.phase = "crashed" /\ Regular =>
       \A i \in DOMAIN program.turns[n].adds : program.turns[n].adds[i].text = ""
  /\ client.phase = "raised" =>
       \/ ~UrlAccepted(program.scheme) \/ program.rejects
       \/ \E i \in 1 .. Begun : ~OneModel(program.turns[i].adds)

(* On the mock every recognition ends, or an error ends it.                *)
RecognitionEnds ==
  program.mock /\ client.recognizing ~> ~client.recognizing \/ ~ClientIsOpen
=============================================================================
