------------------------------ MODULE WsParser ------------------------------
(***************************************************************************)
(* The text of a protocol message and what src/src/aux/ws_parser.cc reads  *)
(* of it, on both sides: the library reads responses with it and the mock  *)
(* server reads requests.  A text is a sequence of pieces: words, spaces   *)
(* and Illegal, which is any character the tokenizer has no token for.     *)
(* Headers of the program are legal; their values may not be.              *)
(***************************************************************************)
EXTENDS SequencesExt

Space == "space"
Illegal == "illegal"

Header(key, value) == [key |-> key, value |-> value]
Message(cmd, headers, body) == [cmd |-> cmd, headers |-> headers, body |-> body]
NoBody == [json |-> FALSE]

(* std::map keeps keys in this order, in which raw() and Str() write them. *)
KeyOrder ==
  <<"Accept", "Channel-Identifier", "Content-ID", "Content-Length",
    "Content-Type", "Error-Code", "Handle", "Infer-age-enabled",
    "Infer-emotion-enabled", "Infer-gender-enabled", "LastPacket", "Media-Type",
    "Message", "Method", "Result", "Result-Status", "Session-Status",
    "User-Agent", "Ver-Buffer-Utterance", "decoder.confidenceThreshold",
    "decoder.continuousMode", "decoder.maxSentences",
    "decoder.startInputTimers", "endpointer.autoLevelLen",
    "endpointer.headMargin", "endpointer.levelMode",
    "endpointer.levelThreshold", "endpointer.maxSegmentDuration",
    "endpointer.tailMargin", "endpointer.waitEnd", "licenseManager.accountTag",
    "noInputTimeout.enabled", "noInputTimeout.value",
    "recognitionTimeout.enabled", "recognitionTimeout.value">>

(* ASRMessageParser::raw and WsParser::Str: a map of headers as text.  The *)
(* map is given by its headers in that order.                              *)
Raw(cmd, headers) == Message(cmd, headers, NoBody)

-----------------------------------------------------------------------------
(* Where the first piece that is not a space is, and the first illegal one. *)
First(text) == SelectInSeq(text, LAMBDA piece : piece # Space)
Bad(text) == SelectInSeq(text, LAMBDA piece : piece = Illegal)

(* The token after a separator: spaces before it are skipped, and it goes  *)
(* on, spaces and colons included, to the end of the line or to an illegal *)
(* character.                                                              *)
Token(text) ==
  IF First(text) = 0 THEN <<>>
  ELSE SubSeq(text, First(text), IF Bad(text) = 0 THEN Len(text) ELSE Bad(text) - 1)

(* KeyExpr throws before it inserts: no token at all, or the title's.      *)
Refused(text) ==
  \/ Bad(text) # 0 /\ Bad(text) = First(text)
  \/ Token(text) = <<"ASR">>

NoHeaders == [key \in {} |-> <<>>]

(* Stm by Stm: a header is inserted, and then the line must end there.     *)
(* Whatever throws ends the reading of the message.                        *)
HeadersRead(headers) ==
  LET stop == SelectInSeq(headers, LAMBDA h : Refused(h.value) \/ Bad(h.value) # 0)
  IN IF stop = 0 THEN headers
     ELSE SubSeq(headers, 1, IF Refused(headers[stop].value) THEN stop - 1 ELSE stop)

(* insert does not replace: the first of two headers with one key stays.   *)
Inserted(headers) ==
  [key \in {headers[i].key : i \in DOMAIN headers} |->
     Token(headers[SelectInSeq(headers, LAMBDA h : h.key = key)].value)]

(* The constructor: a body is taken only if its Content-Length was read.   *)
Parse(message) ==
  LET headers == Inserted(HeadersRead(message.headers))
  IN [cmd |-> message.cmd, headers |-> headers,
      body |-> IF "Content-Length" \in DOMAIN headers THEN message.body ELSE NoBody]

(* get_header; and find(word) # npos.                                      *)
Get(parsed, key) ==
  IF key \in DOMAIN parsed.headers THEN parsed.headers[key] ELSE <<>>
Mentions(text, word) == word \in Range(text)
=============================================================================
