------------------------------ MODULE Builders ------------------------------
(***************************************************************************)
(* What a program says before a recognition, and the requests made of it:  *)
(* RecognitionConfig with its Builder and its environment variables,       *)
(* LanguageModelList::Builder, SpeechRecognizer::Builder::serverUrl, and   *)
(* the headers that src/src/send_message.cc derives from them.             *)
(***************************************************************************)
EXTENDS Naturals, WsParser

CONSTANT MaxNumber  \* bound: the largest number that a parameter may have

(* std::to_string: different numbers have different numerals, and a        *)
(* numeral is a word.                                                      *)
Numeral == [k \in Nat |-> ToString(k)]
ASSUME NumeralsAssumption ==
  /\ MaxNumber \in Nat \ {0}
  /\ \A k \in 0 .. MaxNumber :
       /\ Numeral[k] \notin {Space, Illegal, "ASR"}
       /\ \A j \in 0 .. MaxNumber : Numeral[j] = Numeral[k] => j = k

Numbers ==
  {"confidenceThreshold", "maxSentences", "noInputTimeoutMilliseconds",
   "recognitionTimeoutSeconds", "headMarginMilliseconds",
   "tailMarginMilliseconds", "waitEndMilliseconds", "maxSegmentDuration",
   "endpointerAutoLevelLen", "endpointerLevelMode", "endpointerLevelThreshold"}
Switches ==
  {"noInputTimeoutEnabled", "recognitionTimeoutEnabled", "inferAgeEnabled",
   "inferEmotionEnabled", "inferGenderEnabled", "continuousMode",
   "startInputTimers", "verifyBufferUtterance"}
Texts == {"accountTag", "channelIdentifier", "mediaType"}
Parameters == Numbers \cup Switches \cup Texts

Empty(p) ==
  IF p \in Numbers THEN 0 ELSE IF p \in Switches THEN FALSE ELSE <<>>

(* RecognitionConfig::Properties as it is constructed.                     *)
Defaults == [[p \in Parameters |-> Empty(p)] EXCEPT !["maxSentences"] = 1]

(* The setters of RecognitionConfig::Builder, and build() with its copy:   *)
(* chosen is a function from the parameters a program sets.                *)
Config(chosen) ==
  [p \in Parameters |-> IF p \in DOMAIN chosen THEN chosen[p] ELSE Defaults[p]]

(***************************************************************************)
(* The environment variable behind each parameter.  Those of emotion and   *)
(* gender are swapped, and the one of age is read for continuous mode too. *)
(***************************************************************************)
Variable ==
  [confidenceThreshold |-> "CONFIDENCE_THRESHOLD",
   maxSentences |-> "MAX_SENTENCES",
   noInputTimeoutMilliseconds |-> "NO_INPUT_TIMEOUT_MILLISECONDS",
   recognitionTimeoutSeconds |-> "RECOG_TIMEOUT_SECONDS",
   noInputTimeoutEnabled |-> "NO_INPUT_TIMEOUT_ENABLED",
   recognitionTimeoutEnabled |-> "RECOG_TIMEOUT_ENABLED",
   inferAgeEnabled |-> "INFER_AGE_ENABLED",
   inferEmotionEnabled |-> "INFER_GENDER_ENABLED",
   inferGenderEnabled |-> "INFER_EMOTION_ENABLED",
   headMarginMilliseconds |-> "HEAD_MARGIN_MILLISECONDS",
   tailMarginMilliseconds |-> "TAIL_MARGIN_MILLISECONDS",
   waitEndMilliseconds |-> "WAIT_END_MILLISECONDS",
   continuousMode |-> "INFER_AGE_ENABLED",
   maxSegmentDuration |-> "MAX_SEGMENT_DURATION",
   startInputTimers |-> "START_INPUT_TIMERS",
   endpointerAutoLevelLen |-> "ENDPOINTER_AUTO_LEVEL_LEN",
   endpointerLevelMode |-> "ENDPOINTER_LEVEL_MODE",
   endpointerLevelThreshold |-> "ENDPOINTER_LEVEL_THRESHOLD",
   verifyBufferUtterance |-> "VERIFY_BUFFER_UTTERANCE",
   accountTag |-> "ACCOUNT_TAG",
   channelIdentifier |-> "CHANNEL_IDENTIFIER",
   mediaType |-> "MEDIA_TYPE"]

(* A variable's value by what can be made of it: the number it starts      *)
(* with, or 0; whether it spells "true" in any case; the text itself.      *)
Value(number, true, text) == [number |-> number, true |-> true, text |-> text]

(* setInteger, setBool and setString.                                      *)
Reading(p, value) ==
  IF p \in Numbers THEN value.number
  ELSE IF p \in Switches THEN value.true ELSE value.text

(* Faulty: the environment only fills in what the program leaves empty.    *)
EnvironmentYields(config, env, replaceEmpty) ==
  [p \in Parameters |->
     IF config[p] = Empty(p) /\ Variable[p] \in DOMAIN env
     THEN Reading(p, env[Variable[p]]) ELSE config[p]]

GetConfigFromEnvironment(config, env, replaceEmpty) ==
  [p \in Parameters |->
     IF Variable[p] \in DOMAIN env THEN Reading(p, env[Variable[p]])
     ELSE IF replaceEmpty THEN Empty(p) ELSE config[p]]

-----------------------------------------------------------------------------
(* The header of each parameter in SET_PARAMETERS.                         *)
HeaderOf ==
  [confidenceThreshold |-> "decoder.confidenceThreshold",
   maxSentences |-> "decoder.maxSentences",
   noInputTimeoutEnabled |-> "noInputTimeout.enabled",
   noInputTimeoutMilliseconds |-> "noInputTimeout.value",
   recognitionTimeoutEnabled |-> "recognitionTimeout.enabled",
   recognitionTimeoutSeconds |-> "recognitionTimeout.value",
   inferAgeEnabled |-> "Infer-age-enabled",
   inferEmotionEnabled |-> "Infer-emotion-enabled",
   inferGenderEnabled |-> "Infer-gender-enabled",
   headMarginMilliseconds |-> "endpointer.headMargin",
   tailMarginMilliseconds |-> "endpointer.tailMargin",
   waitEndMilliseconds |-> "endpointer.waitEnd",
   continuousMode |-> "decoder.continuousMode",
   maxSegmentDuration |-> "endpointer.maxSegmentDuration",
   startInputTimers |-> "decoder.startInputTimers",
   endpointerLevelMode |-> "endpointer.levelMode",
   endpointerAutoLevelLen |-> "endpointer.autoLevelLen",
   endpointerLevelThreshold |-> "endpointer.levelThreshold",
   verifyBufferUtterance |-> "Ver-Buffer-Utterance",
   accountTag |-> "licenseManager.accountTag",
   channelIdentifier |-> "Channel-Identifier",
   mediaType |-> "Media-Type"]

(* The conditions around set_header.                                       *)
IsSent(config, p) ==
  /\ config[p] # Empty(p)
  /\ p = "noInputTimeoutMilliseconds" => config.noInputTimeoutEnabled
  /\ p = "recognitionTimeoutSeconds" => config.recognitionTimeoutEnabled
  /\ p = "endpointerAutoLevelLen" => config.endpointerLevelMode = 1
  /\ p = "endpointerLevelThreshold" => config.endpointerLevelMode = 2

(* std::to_string of a bool is a digit; other switches are spelled out.    *)
Spelled == {"inferAgeEnabled", "inferEmotionEnabled", "inferGenderEnabled",
            "continuousMode", "verifyBufferUtterance"}
TextOf(p, value) ==
  IF p \in Numbers THEN <<Numeral[value]>>
  ELSE IF p \in Switches THEN <<IF p \in Spelled THEN "true" ELSE "1">> ELSE value

CreateSession == Raw("CREATE_SESSION", <<Header("User-Agent", <<"ASR Client">>)>>)

ParameterOf == [key \in Range(HeaderOf) |-> CHOOSE p \in Parameters : HeaderOf[p] = key]

SetParameters(config) ==
  LET sent(key) == key \in DOMAIN ParameterOf /\ IsSent(config, ParameterOf[key])
      header(key) == Header(key, TextOf(ParameterOf[key], config[ParameterOf[key]]))
      upTo[i \in 0 .. Len(KeyOrder)] ==
        IF i = 0 THEN <<>>
        ELSE IF sent(KeyOrder[i]) THEN Append(upTo[i - 1], header(KeyOrder[i]))
        ELSE upTo[i - 1]
  IN Raw("SET_PARAMETERS", upTo[Len(KeyOrder)])

-----------------------------------------------------------------------------
(* Faulty: a grammar is not stored.                                        *)
AddUri(lm, add) == IF add.kind = "uri" THEN [lm EXCEPT !.uri = add.text] ELSE lm

(***************************************************************************)
(* LanguageModelList::Builder: an add stores its text unless there is one. *)
(* adds lists what a program adds; an error makes the rest of no effect.   *)
(***************************************************************************)
Add(lm, add) ==
  IF lm.error THEN lm
  ELSE IF lm.uri # "" \/ lm.grammar # "" THEN [lm EXCEPT !.error = TRUE]
  ELSE [lm EXCEPT ![add.kind] = add.text]

NoModel == [uri |-> "", grammar |-> "", error |-> FALSE]
LanguageModelList(adds) ==
  LET after[i \in 0 .. Len(adds)] ==
        IF i = 0 THEN NoModel ELSE Add(after[i - 1], adds[i])
  IN after[Len(adds)]

IsEmpty(lm) == lm.uri = "" /\ lm.grammar = ""

(* startRecognition of a model that is not empty.                          *)
StartRecognition(lm) ==
  LET accept == Header("Accept", <<"application/json">>)
      length == Header("Content-Length", <<"size">>)
  IN Raw("START_RECOGNITION",
         IF lm.uri # ""
         THEN <<accept, length, Header("Content-Type", <<"text/uri-list">>)>>
         ELSE <<accept, Header("Content-ID", <<"gram">>), length,
                Header("Content-Type", <<"application/srgs">>)>>)

CancelRecognition == Raw("CANCEL_RECOGNITION", <<>>)

(* Faulty: no packet is marked as the last one.                            *)
SendUnmarked(last) ==
  Raw("SEND_AUDIO", <<Header("Content-Length", <<"size">>),
                      Header("LastPacket", <<"false">>)>>)

SendAudio(last) ==
  Raw("SEND_AUDIO",
      <<Header("Content-Length", <<"size">>),
        Header("Content-Type", <<"application/octet-stream">>),
        Header("LastPacket", <<IF last THEN "true" ELSE "false">>)>>)

(* serverUrl: an empty url, and one of another scheme, is refused.         *)
UrlAccepted(scheme) == scheme \in {"ws", "wss"}
=============================================================================
