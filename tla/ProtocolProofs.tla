---------------------------- MODULE ProtocolProofs ----------------------------
(***************************************************************************)
(* Who speaks when in Conversation, for all programs, meanings and limits: *)
(* one recognition at a time and one request of it, the mock's one result  *)
(* for each, and that nothing fails without a reason.                      *)
(***************************************************************************)
EXTENDS ConversationProofs

-----------------------------------------------------------------------------
(* What is read of a message, also of one that cannot be read to its end.  *)

(* What is read is a part of what was written.                             *)
WrittenIn(text, headers, key) ==
  text = <<>> \/ \E i \in 1 .. Len(headers) :
                   headers[i].key = key /\ text = Token(headers[i].value)
LEMMA OnlyWritten ==
  ASSUME NEW V, NEW headers \in Seq(V), NEW cmd, NEW body, NEW key
  PROVE  WrittenIn(Get(Parse(Message(cmd, headers, body)), key), headers, key)
<1> DEFINE read == HeadersRead(headers)
           heard == Parse(Message(cmd, headers, body))
           stop == SelectInSeq(headers, LAMBDA h : Refused(h.value) \/ Bad(h.value) # 0)
           I == {i \in 1 .. Len(headers) :
                   Refused(headers[i].value) \/ Bad(headers[i].value) # 0}
<1>1. Len(headers) \in Nat
  OBVIOUS
<1>2. stop = 0 \/ stop \in 1 .. Len(headers)
  <2>1. stop = IF I # {} THEN Min(I) ELSE 0
    BY DEF SelectInSeq
  <2>2. I \in SUBSET (1 .. Len(headers))
    OBVIOUS
  <2> HIDE DEF I, stop
  <2>3. QED BY <1>1, <2>1, <2>2, FirstOf
<1>3. /\ read \in Seq(V) /\ Len(read) <= Len(headers)
      /\ \A i \in 1 .. Len(read) : read[i] = headers[i]
  <2>1. CASE stop = 0
    BY <2>1 DEF HeadersRead
  <2>2. CASE stop # 0
    <3> DEFINE k == IF Refused(headers[stop].value) THEN stop - 1 ELSE stop
    <3>1. read = SubSeq(headers, 1, k)
      BY <2>2 DEF HeadersRead
    <3>2. k \in Int /\ 0 <= k /\ k <= Len(headers)
      <4> HIDE DEF stop
      <4>1. QED BY <1>1, <1>2, <2>2
    <3> HIDE DEF k, read, stop
    <3>3. k = 0 \/ (1 <= k /\ 1 \in Int)
      BY <3>2
    <3>4. CASE k = 0
      <4>1. read = <<>>
        BY <3>1, <3>4
      <4>2. QED BY <1>1, <4>1
    <3>5. CASE 1 <= k
      BY <1>1, <3>1, <3>2, <3>5
    <3>6. QED BY <3>3, <3>4, <3>5
  <2>3. QED BY <2>1, <2>2
<1>4. heard.headers = Inserted(read)
  BY DEF Parse, Message
<1>5. CASE key \notin DOMAIN heard.headers
  BY <1>5 DEF Get, WrittenIn
<1>6. CASE key \in DOMAIN heard.headers
  <2> DEFINE J == {i \in 1 .. Len(read) : read[i].key = key}
             first == SelectInSeq(read, LAMBDA h : h.key = key)
  <2>0. DOMAIN read = 1 .. Len(read) /\ Len(read) \in Nat
    <3> HIDE DEF read
    <3>1. QED BY <1>3
  <2>1. DOMAIN heard.headers = {read[i].key : i \in DOMAIN read}
    <3> HIDE DEF read, heard
    <3>1. QED BY <1>4 DEF Inserted
  <2>2. first = IF J # {} THEN Min(J) ELSE 0
    BY DEF SelectInSeq
  <2>3. J \in SUBSET (1 .. Len(read)) /\ J # {}
    <3> HIDE DEF read, heard
    <3>1. QED BY <1>6, <2>0, <2>1
  <2>4. first \in J
    <3> HIDE DEF J, first, read
    <3>1. QED BY <2>0, <2>2, <2>3, FirstOf
  <2>5. Get(heard, key) = Token(read[first].value)
    <3> HIDE DEF heard, read
    <3>1. heard.headers[key] = Token(read[first].value)
      BY <1>4, <1>6, <2>1 DEF Inserted
    <3>2. QED BY <1>6, <3>1 DEF Get
  <2> HIDE DEF first, read, heard
  <2>6. first \in 1 .. Len(headers) /\ read[first] = headers[first] /\ read[first].key = key
    BY <1>1, <1>3, <2>0, <2>4
  <2>7. QED BY <2>5, <2>6 DEF heard, WrittenIn
<1>7. QED BY <1>5, <1>6

(* A word before a space is read with the space.                           *)
LEMMA WordBeforeSpace ==
  ASSUME NEW w, IsWord(w)
  PROVE  Legal(<<w, Space>>) /\ Token(<<w, Space>>) = <<w, Space>>
<1> DEFINE text == <<w, Space>>
<1>w. w # Space /\ w # Illegal /\ w # "ASR" /\ Space # Illegal
  BY DEF IsWord, Space, Illegal
<1>1. text \in Seq({Space, w}) /\ Len(text) = 2 /\ text[1] = w /\ text[2] = Space
  BY <1>w
<1>8. text # <<"ASR">>
  BY <1>1
<1> HIDE DEF text
<1>2. SubSeq(text, 1, 2) = text
  BY <1>1
<1>3. \A i \in 1 .. 2 : i = 1 \/ i = 2
  OBVIOUS
<1>4. Bad(text) = 0
  BY <1>w, <1>1, <1>3, FirstBad
<1>5. First(text) = 1
  <2>1. ~(\A i \in 1 .. Len(text) : text[i] = Space) /\ 1 \in 1 .. Len(text)
    BY <1>w, <1>1
  <2>2. /\ First(text) \in 1 .. Len(text)
        /\ \A i \in 1 .. Len(text) : text[i] # Space => First(text) <= i
    BY <1>1, <2>1, FirstPiece
  <2>3. First(text) <= 1
    BY <1>w, <1>1, <2>1, <2>2
  <2>4. QED BY <1>1, <2>2, <2>3
<1>6. Token(text) = text
  BY <1>1, <1>2, <1>4, <1>5 DEF Token
<1>7. QED BY <1>4, <1>6, <1>8 DEF Legal, Refused, text

(* The answer to a method: what it names and what its Result says.         *)
AnswerAs(text, method, result) ==
  LET heard == Parse(text)
  IN /\ heard.cmd = "RESPONSE" /\ Get(heard, "Method") = <<method>>
     /\ Get(heard, "Result") = result

LEMMA AnswerRead ==
  ASSUME NEW method, NEW result, IsWord(method), IsWord(result)
  PROVE  AnswerAs(Answer(method, result, <<>>).text, method, <<result>>)
<1> DEFINE m == Header("Method", <<Space, method>>)
           r == Header("Result", <<Space, result>>)
           headers == <<m, r>>
           heard == Parse(Message("RESPONSE", headers, NoBody))
<1>1. /\ m.key = "Method" /\ m.value = <<Space, method>>
      /\ r.key = "Result" /\ r.value = <<Space, result>>
  BY DEF Header
<1>2. /\ Legal(m.value) /\ Legal(r.value)
      /\ Token(m.value) = <<method>> /\ Token(r.value) = <<result>>
  BY <1>1, WordAfterSpace
<1>3. Answer(method, result, <<>>).text = Message("RESPONSE", headers, NoBody)
  <2>1. headers \o <<>> = headers
    <3> HIDE DEF m, r
    <3>1. headers \in Seq({m, r})
      OBVIOUS
    <3>2. QED BY <3>1, ConcatEmptySeq
  <2>2. Answer(method, result, <<>>) = Says(Message("RESPONSE", headers \o <<>>, NoBody))
    BY DEF Answer
  <2> HIDE DEF headers
  <2>3. QED BY <2>1, <2>2 DEF Says
<1> HIDE DEF m, r
<1>4. headers \in Seq({m, r}) /\ Len(headers) = 2 /\ headers[1] = m /\ headers[2] = r
  OBVIOUS
<1> HIDE DEF headers
<1>5. \A i \in 1 .. Len(headers) : i = 1 \/ i = 2
  BY <1>4
<1>6. \A i \in 1 .. Len(headers) : Legal(headers[i].value)
  BY <1>2, <1>4, <1>5
<1>7. heard.cmd = "RESPONSE" /\ heard.headers = Inserted(headers)
  BY <1>4, <1>6, LegalParse
<1> HIDE DEF heard
<1>8. /\ Get(heard, headers[1].key) = Token(headers[1].value)
      /\ Get(heard, headers[2].key) = Token(headers[2].value)
  <2>1. /\ 1 \in 1 .. Len(headers) /\ 2 \in 1 .. Len(headers)
        /\ (\A i \in 1 .. 1 - 1 : FALSE) /\ (\A i \in 1 .. 2 - 1 : i = 1)
    BY <1>4
  <2>2. /\ \A i \in 1 .. 1 - 1 : headers[i].key # headers[1].key
        /\ \A i \in 1 .. 2 - 1 : headers[i].key # headers[2].key
    BY <1>1, <1>4, <2>1
  <2>3. QED BY <1>4, <1>7, <2>1, <2>2, KeyRead
<1>9. Get(heard, "Method") = <<method>> /\ Get(heard, "Result") = <<result>>
  <2>1. /\ headers[1].key = "Method" /\ Token(headers[1].value) = <<method>>
        /\ headers[2].key = "Result" /\ Token(headers[2].value) = <<result>>
    BY <1>1, <1>2, <1>4
  <2>2. QED BY <1>8, <2>1, Zenon
<1>10. QED BY <1>3, <1>7, <1>9, Zenon DEF AnswerAs, heard

(* The mock's responses.                                                   *)
LEMMA MockResponseRead ==
  ASSUME NEW cmd, NEW status, IsWord(cmd), IsWord(status)
  PROVE  AnswerAs(MockResponse(cmd, status).text, cmd, <<"SUCCESS", Space>>)
<1> DEFINE a == Header("Error-Code", <<"000">>)
           b == Header("Handle", <<"handle", Space>>)
           c == Header("Message", <<"success">>)
           d == Header("Method", <<cmd>>)
           e == Header("Result", <<"SUCCESS", Space>>)
           f == Header("Session-Status", <<status>>)
           headers == <<a, b, c, d, e, f>>
           heard == Parse(Message("RESPONSE", headers, NoBody))
<1>1. /\ a.key = "Error-Code" /\ a.value = <<"000">>
      /\ b.key = "Handle" /\ b.value = <<"handle", Space>>
      /\ c.key = "Message" /\ c.value = <<"success">>
      /\ d.key = "Method" /\ d.value = <<cmd>>
      /\ e.key = "Result" /\ e.value = <<"SUCCESS", Space>>
      /\ f.key = "Session-Status" /\ f.value = <<status>>
  BY DEF Header
<1>2. /\ Legal(a.value) /\ Legal(b.value) /\ Legal(c.value) /\ Legal(d.value)
      /\ Legal(e.value) /\ Legal(f.value)
      /\ Token(d.value) = <<cmd>> /\ Token(e.value) = <<"SUCCESS", Space>>
  <2>1. /\ IsWord("000") /\ IsWord("handle") /\ IsWord("success") /\ IsWord("SUCCESS")
    BY DEF IsWord, Space, Illegal
  <2> HIDE DEF a, b, c, d, e, f
  <2>2. QED BY <1>1, <2>1, WordAlone, WordBeforeSpace
<1>3. MockResponse(cmd, status).text = Message("RESPONSE", headers, NoBody)
  BY DEF MockResponse, Says, Raw
<1> HIDE DEF a, b, c, d, e, f
<1>4. /\ headers \in Seq({a, b, c, d, e, f}) /\ Len(headers) = 6
      /\ headers[1] = a /\ headers[2] = b /\ headers[3] = c
      /\ headers[4] = d /\ headers[5] = e /\ headers[6] = f
  OBVIOUS
<1> HIDE DEF headers
<1>5. /\ \A i \in 1 .. Len(headers) : i = 1 \/ i = 2 \/ i = 3 \/ i = 4 \/ i = 5 \/ i = 6
      /\ 4 \in 1 .. Len(headers) /\ 5 \in 1 .. Len(headers)
      /\ \A i \in 1 .. 4 - 1 : i = 1 \/ i = 2 \/ i = 3
      /\ \A i \in 1 .. 5 - 1 : i = 1 \/ i = 2 \/ i = 3 \/ i = 4
  BY <1>4
<1>6. \A i \in 1 .. Len(headers) : Legal(headers[i].value)
  BY <1>2, <1>4, <1>5
<1>7. heard.cmd = "RESPONSE" /\ heard.headers = Inserted(headers)
  BY <1>4, <1>6, LegalParse
<1> HIDE DEF heard
<1>8. /\ Get(heard, headers[4].key) = Token(headers[4].value)
      /\ Get(heard, headers[5].key) = Token(headers[5].value)
  <2>1. /\ \A i \in 1 .. 4 - 1 : headers[i].key # headers[4].key
        /\ \A i \in 1 .. 5 - 1 : headers[i].key # headers[5].key
    BY <1>1, <1>4, <1>5
  <2>2. QED BY <1>4, <1>5, <1>7, <2>1, KeyRead
<1>9. Get(heard, "Method") = <<cmd>> /\ Get(heard, "Result") = <<"SUCCESS", Space>>
  <2>1. /\ headers[4].key = "Method" /\ Token(headers[4].value) = <<cmd>>
        /\ headers[5].key = "Result" /\ Token(headers[5].value) = <<"SUCCESS", Space>>
    BY <1>1, <1>2, <1>4
  <2>2. QED BY <1>8, <2>1, Zenon
<1>10. QED BY <1>3, <1>7, <1>9, Zenon DEF AnswerAs, heard

(* The packets' LastPacket.                                                *)
LEMMA PacketRead ==
  ASSUME NEW last \in BOOLEAN
  PROVE  Get(Parse(SendAudio(last)), "LastPacket") = <<"true">> <=> last
<1> DEFINE a == Header("Content-Length", <<"size">>)
           b == Header("Content-Type", <<"application/octet-stream">>)
           w == IF last THEN "true" ELSE "false"
           c == Header("LastPacket", <<w>>)
           headers == <<a, b, c>>
           heard == Parse(Message("SEND_AUDIO", headers, NoBody))
<1>1. /\ a.key = "Content-Length" /\ a.value = <<"size">>
      /\ b.key = "Content-Type" /\ b.value = <<"application/octet-stream">>
      /\ c.key = "LastPacket" /\ c.value = <<w>>
  BY DEF Header
<1>w. w = "true" \/ w = "false"
  OBVIOUS
<1>2. /\ Legal(a.value) /\ Legal(b.value) /\ Legal(c.value) /\ Token(c.value) = <<w>>
  <2>1. /\ IsWord("size") /\ IsWord("application/octet-stream") /\ IsWord("true")
        /\ IsWord("false")
    BY DEF IsWord, Space, Illegal
  <2> HIDE DEF a, b, c, w
  <2>2. IsWord(w)
    BY <1>w, <2>1
  <2>3. QED BY <1>1, <2>1, <2>2, WordAlone
<1>3. SendAudio(last) = Message("SEND_AUDIO", headers, NoBody)
  BY DEF SendAudio, Raw
<1> HIDE DEF a, b, c
<1>4. /\ headers \in Seq({a, b, c}) /\ Len(headers) = 3
      /\ headers[1] = a /\ headers[2] = b /\ headers[3] = c
  OBVIOUS
<1> HIDE DEF headers
<1>5. /\ \A i \in 1 .. Len(headers) : i = 1 \/ i = 2 \/ i = 3
      /\ 3 \in 1 .. Len(headers) /\ \A i \in 1 .. 3 - 1 : i = 1 \/ i = 2
  BY <1>4
<1>6. \A i \in 1 .. Len(headers) : Legal(headers[i].value)
  BY <1>2, <1>4, <1>5
<1>7. heard.headers = Inserted(headers)
  BY <1>4, <1>6, LegalParse
<1> HIDE DEF heard
<1>8. Get(heard, headers[3].key) = Token(headers[3].value)
  <2>1. \A i \in 1 .. 3 - 1 : headers[i].key # headers[3].key
    BY <1>1, <1>4, <1>5
  <2>2. QED BY <1>4, <1>5, <1>7, <2>1, KeyRead
<1>9. Get(heard, "LastPacket") = <<w>>
  <2> HIDE DEF w
  <2>1. QED BY <1>1, <1>2, <1>4, <1>8
<1>10. Get(Parse(SendAudio(last)), "LastPacket") = <<w>>
  BY <1>3, <1>9, Zenon DEF heard
<1>11. <<"false">> # <<"true">>
  OBVIOUS
<1>12. CASE last
  BY <1>10, <1>12
<1>13. CASE ~last
  BY <1>10, <1>11, <1>13
<1>14. QED BY <1>12, <1>13

-----------------------------------------------------------------------------
(* What is made of the answers.                                            *)

(* generateError's condition.                                              *)
Fails(heard) ==
  /\ heard.cmd = "RESPONSE"
  /\ \E method \in Methods :
       /\ Get(heard, "Method") = <<method>> /\ ~Succeeded(heard)
       /\ method = "CANCEL_RECOGNITION" =>
            ~Mentions(Get(heard, "Result"), "INVALID_ACTION")

(* A response that names a method and reports success.                     *)
Succeeds(heard, method) == Answers(heard, method) /\ Succeeded(heard)

LEMMA MethodWords == \A method \in Methods : IsWord(method)
BY DEF Methods, IsWord, Space, Illegal

(* A response is not a result, and ends no recognition.                    *)
LEMMA AnswerQueued ==
  ASSUME NEW method, NEW result, NEW others
  PROVE  /\ IsResponse(Answer(method, result, others))
         /\ Answer(method, result, others).means.last = FALSE
         /\ Answer(method, result, others).text.cmd = "RESPONSE"
BY DEF Answer, Says, Nothing, Meaning, Message, IsResponse

LEMMA ResultTold ==
  ASSUME NEW text, NEW method, NEW result, IsWord(result), AnswerAs(text, method, <<result>>)
  PROVE  /\ \A word : Mentions(Get(Parse(text), "Result"), word) <=> word = result
         /\ \A other : Answers(Parse(text), other) <=> other = method
         /\ \A other : Get(Parse(text), "Method") = <<other>> <=> other = method
<1> DEFINE heard == Parse(text)
<1>1. /\ heard.cmd = "RESPONSE" /\ Get(heard, "Method") = <<method>>
      /\ Get(heard, "Result") = <<result>>
  BY DEF AnswerAs
<1> HIDE DEF heard
<1>2. \A word : word \in Range(<<result>>) <=> word = result
  BY DEF Range
<1>3. \A other : <<method>> = <<other>> <=> other = method
  OBVIOUS
<1>4. QED BY <1>1, <1>2, <1>3 DEF Mentions, Answers, heard

LEMMA AcceptsHeard ==
  ASSUME NEW method \in Methods
  PROVE  /\ Succeeds(Parse(Accepts(method).text), method)
         /\ ~Fails(Parse(Accepts(method).text))
         /\ \A other : Answers(Parse(Accepts(method).text), other) => other = method
<1>1. AnswerAs(Accepts(method).text, method, <<"SUCCESS">>) /\ IsWord("SUCCESS")
  BY MethodWords, AnswerRead DEF Accepts, IsWord, Space, Illegal
<1>2. QED BY <1>1, ResultTold DEF Succeeds, Succeeded, Fails

LEMMA InvalidHeard ==
  LET m == Answer("CANCEL_RECOGNITION", "INVALID_ACTION", <<>>) IN ~Fails(Parse(m.text))
<1> DEFINE m == Answer("CANCEL_RECOGNITION", "INVALID_ACTION", <<>>)
<1>1. IsWord("INVALID_ACTION") /\ IsWord("CANCEL_RECOGNITION")
  BY DEF IsWord, Space, Illegal
<1>2. AnswerAs(m.text, "CANCEL_RECOGNITION", <<"INVALID_ACTION">>)
  BY <1>1, AnswerRead
<1> HIDE DEF m
<1>3. QED BY <1>1, <1>2, ResultTold DEF Fails, m

LEMMA MockResponseHeard ==
  ASSUME NEW cmd \in Methods, NEW status, IsWord(status)
  PROVE  /\ Succeeds(Parse(MockResponse(cmd, status).text), cmd)
         /\ ~Fails(Parse(MockResponse(cmd, status).text))
         /\ \A other : Answers(Parse(MockResponse(cmd, status).text), other) => other = cmd
         /\ IsResponse(MockResponse(cmd, status))
         /\ MockResponse(cmd, status).means.last = FALSE
         /\ MockResponse(cmd, status).text.cmd = "RESPONSE"
<1> DEFINE heard == Parse(MockResponse(cmd, status).text)
<1>1. AnswerAs(MockResponse(cmd, status).text, cmd, <<"SUCCESS", Space>>)
  BY MethodWords, MockResponseRead
<1>2. /\ heard.cmd = "RESPONSE" /\ Get(heard, "Method") = <<cmd>>
      /\ Get(heard, "Result") = <<"SUCCESS", Space>>
  BY <1>1 DEF AnswerAs
<1>3. /\ IsResponse(MockResponse(cmd, status))
      /\ MockResponse(cmd, status).means.last = FALSE
      /\ MockResponse(cmd, status).text.cmd = "RESPONSE"
  BY DEF MockResponse, Says, Nothing, Meaning, Raw, Message, IsResponse
<1> HIDE DEF heard
<1>4. "SUCCESS" \in Range(<<"SUCCESS", Space>>)
  <2>1. 1 \in DOMAIN <<"SUCCESS", Space>> /\ <<"SUCCESS", Space>>[1] = "SUCCESS"
    OBVIOUS
  <2>2. QED BY <2>1 DEF Range
<1>5. \A other : <<cmd>> = <<other>> <=> other = cmd
  OBVIOUS
<1>6. Succeeded(heard)
  BY <1>2, <1>4 DEF Succeeded, Mentions
<1>7. QED BY <1>2, <1>3, <1>5, <1>6 DEF Succeeds, Answers, Fails, heard

(* Two sequences, one after the other, by their elements.                  *)
LEMMA Joined ==
  ASSUME NEW S, NEW s \in Seq(S), NEW t \in Seq(S), NEW u \in Seq(S),
         Len(u) = Len(s) + Len(t),
         \A i \in 1 .. Len(s) : u[i] = s[i],
         \A i \in 1 .. Len(t) : u[Len(s) + i] = t[i]
  PROVE  s \o t = u
<1> DEFINE st == s \o t
<1>1. /\ st \in Seq(S) /\ Len(st) = Len(s) + Len(t) /\ Len(s) \in Nat /\ Len(t) \in Nat
      /\ \A i \in 1 .. Len(s) + Len(t) :
           st[i] = IF i <= Len(s) THEN s[i] ELSE t[i - Len(s)]
  BY ConcatProperties
<1> HIDE DEF st
<1>2. ASSUME NEW i \in 1 .. Len(u) PROVE st[i] = u[i]
  <2>1. CASE i <= Len(s)
    BY <1>1, <2>1
  <2>2. CASE ~(i <= Len(s))
    <3>1. i - Len(s) \in 1 .. Len(t) /\ Len(s) + (i - Len(s)) = i
      BY <1>1, <2>2
    <3>2. QED BY <1>1, <2>2, <3>1
  <2>3. QED BY <2>1, <2>2
<1>3. QED BY <1>1, <1>2, SeqEqual DEF st

(* A refusal says no success, of whatever is read of it.                   *)
LEMMA RefusalSaid ==
  ASSUME NEW method \in Methods, NEW refusal \in Refusals(method)
  PROVE  /\ ~Succeeded(Parse(refusal.text))
         /\ \A other : Answers(Parse(refusal.text), other) => other = method
         /\ IsResponse(refusal) /\ refusal.means.last = FALSE
         /\ refusal.text.cmd = "RESPONSE"
<1> DEFINE m == Header("Method", <<Space, method>>)
           r == Header("Result", <<Space, "FAILURE">>)
           e == Header("Error-Code", <<"ERR">>)
           last == <<m, r, e, Why>>
           first == <<Why, m, r, e, Why>>
           V == {m, r, e, Why}
<1>1. /\ m.key = "Method" /\ m.value = <<Space, method>>
      /\ r.key = "Result" /\ r.value = <<Space, "FAILURE">>
      /\ e.key = "Error-Code" /\ Why.key = "Message"
  BY DEF Header, Why
<1>2. Token(m.value) = <<method>> /\ Token(r.value) = <<"FAILURE">>
  <2>1. IsWord(method) /\ IsWord("FAILURE")
    BY MethodWords DEF IsWord, Space, Illegal
  <2>2. QED BY <1>1, <2>1, WordAfterSpace
<1>3. refusal \in {Says(Message("RESPONSE", last, NoBody)), Says(Message("RESPONSE", first, NoBody))}
  <2>1. <<m, r>> \o <<e, Why>> = last /\ <<Why>> \o last = first
    <3> HIDE DEF m, r, e
    <3>1. /\ <<m, r>> \in Seq(V) /\ Len(<<m, r>>) = 2 /\ <<m, r>>[1] = m /\ <<m, r>>[2] = r
          /\ <<e, Why>> \in Seq(V) /\ Len(<<e, Why>>) = 2
          /\ <<e, Why>>[1] = e /\ <<e, Why>>[2] = Why
          /\ <<Why>> \in Seq(V) /\ Len(<<Why>>) = 1 /\ <<Why>>[1] = Why
      OBVIOUS
    <3>2. /\ last \in Seq(V) /\ Len(last) = 4
          /\ last[1] = m /\ last[2] = r /\ last[3] = e /\ last[4] = Why
      OBVIOUS
    <3>3. /\ first \in Seq(V) /\ Len(first) = 5
          /\ first[1] = Why /\ first[2] = m /\ first[3] = r /\ first[4] = e /\ first[5] = Why
      OBVIOUS
    <3> HIDE DEF first, last, V
    <3>4. /\ \A i \in 1 .. 1 : i = 1
          /\ \A i \in 1 .. 2 : i = 1 \/ i = 2
          /\ \A i \in 1 .. 4 : i = 1 \/ i = 2 \/ i = 3 \/ i = 4
      OBVIOUS
    <3>5. <<m, r>> \o <<e, Why>> = last
      BY <3>1, <3>2, <3>4, Joined
    <3>6. <<Why>> \o last = first
      <4> DEFINE one == <<Why>>
      <4>1. one \in Seq(V) /\ Len(one) = 1 /\ one[1] = Why
        BY <3>1
      <4> HIDE DEF one
      <4>2. Len(first) = Len(one) + Len(last)
        BY <3>2, <3>3, <4>1
      <4>3. \A i \in 1 .. Len(one) : first[i] = one[i]
        BY <3>3, <3>4, <4>1
      <4>4. \A i \in 1 .. Len(last) : first[Len(one) + i] = last[i]
        BY <3>2, <3>3, <3>4, <4>1
      <4>5. one \o last = first
        BY <3>2, <3>3, <4>1, <4>2, <4>3, <4>4, Joined
      <4>6. QED BY <4>5 DEF one
    <3>7. QED BY <3>5, <3>6
  <2> DEFINE a == Answer(method, "FAILURE", <<e, Why>>)
  <2>2. a = Says(Message("RESPONSE", <<m, r>> \o <<e, Why>>, NoBody))
    BY DEF Answer
  <2>3. a.text.headers = <<m, r>> \o <<e, Why>>
    BY <2>2 DEF Says, Message
  <2>4. refusal \in {a, Says(Message("RESPONSE", <<Why>> \o a.text.headers, NoBody))}
    BY DEF Refusals
  <2> HIDE DEF a, last, first, m, r, e
  <2>5. QED BY <2>1, <2>2, <2>3, <2>4
<1> HIDE DEF m, r, e
<1>4. /\ last \in Seq(V) /\ Len(last) = 4
      /\ last[1] = m /\ last[2] = r /\ last[3] = e /\ last[4] = Why
  OBVIOUS
<1>5. /\ first \in Seq(V) /\ Len(first) = 5
      /\ first[1] = Why /\ first[2] = m /\ first[3] = r /\ first[4] = e /\ first[5] = Why
  OBVIOUS
<1> HIDE DEF last, first, V
<1>6. \E headers \in Seq(V) :
        /\ refusal.text = Message("RESPONSE", headers, NoBody)
        /\ \A i \in 1 .. Len(headers) : headers[i] \in {m, r, e, Why}
        /\ refusal.means = Nothing
  <2>1. /\ \A i \in 1 .. Len(last) : last[i] \in {m, r, e, Why}
        /\ \A i \in 1 .. Len(first) : first[i] \in {m, r, e, Why}
    <3>1. /\ \A i \in 1 .. 4 : i = 1 \/ i = 2 \/ i = 3 \/ i = 4
          /\ \A i \in 1 .. 5 : i = 1 \/ i = 2 \/ i = 3 \/ i = 4 \/ i = 5
      OBVIOUS
    <3>2. QED BY <1>4, <1>5, <3>1
  <2> DEFINE Q(h) == /\ refusal.text = Message("RESPONSE", h, NoBody)
                     /\ \A i \in 1 .. Len(h) : h[i] \in {m, r, e, Why}
                     /\ refusal.means = Nothing
  <2>2. \A text : Says(text).text = text /\ Says(text).means = Nothing
    BY DEF Says
  <2>3. CASE refusal = Says(Message("RESPONSE", last, NoBody))
    <3>1. Q(last)
      BY <2>1, <2>2, <2>3
    <3>2. last \in Seq(V)
      BY <1>4
    <3> HIDE DEF Q
    <3>3. \E h \in Seq(V) : Q(h)
      BY <3>1, <3>2
    <3>4. QED BY <3>3 DEF Q
  <2>4. CASE refusal = Says(Message("RESPONSE", first, NoBody))
    <3>1. Q(first)
      BY <2>1, <2>2, <2>4
    <3>2. first \in Seq(V)
      BY <1>5
    <3> HIDE DEF Q
    <3>3. \E h \in Seq(V) : Q(h)
      BY <3>1, <3>2
    <3>4. QED BY <3>3 DEF Q
  <2>5. QED BY <1>3, <2>3, <2>4
<1>7. PICK headers \in Seq(V) :
        /\ refusal.text = Message("RESPONSE", headers, NoBody)
        /\ \A i \in 1 .. Len(headers) : headers[i] \in {m, r, e, Why}
        /\ refusal.means = Nothing
  BY <1>6
<1> DEFINE heard == Parse(Message("RESPONSE", headers, NoBody))
<1>8. /\ WrittenIn(Get(heard, "Method"), headers, "Method")
      /\ WrittenIn(Get(heard, "Result"), headers, "Result")
  BY OnlyWritten
<1> HIDE DEF heard
<1>9. Get(heard, "Method") = <<>> \/ Get(heard, "Method") = <<method>>
  <2>1. \A i \in 1 .. Len(headers) : headers[i].key = "Method" => Token(headers[i].value) = <<method>>
    BY <1>1, <1>2, <1>7
  <2>2. QED BY <1>8, <2>1 DEF WrittenIn
<1>10. Get(heard, "Result") = <<>> \/ Get(heard, "Result") = <<"FAILURE">>
  <2>1. \A i \in 1 .. Len(headers) : headers[i].key = "Result" => Token(headers[i].value) = <<"FAILURE">>
    BY <1>1, <1>2, <1>7
  <2>2. QED BY <1>8, <2>1 DEF WrittenIn
<1>11. "SUCCESS" \notin Range(<<>>) /\ "SUCCESS" \notin Range(<<"FAILURE">>)
  BY DEF Range
<1>12. /\ ~Succeeded(heard)
       /\ \A other : Answers(heard, other) => other = method
  <2>1. \A other : <<>> # <<other>> /\ (<<method>> = <<other>> => other = method)
    OBVIOUS
  <2>2. QED BY <1>9, <1>10, <1>11, <2>1 DEF Succeeded, Mentions, Answers
<1>13. refusal.text.cmd = "RESPONSE" /\ refusal.means.last = FALSE
  BY <1>7 DEF Nothing, Meaning, Message
<1>14. QED BY <1>7, <1>12, <1>13 DEF IsResponse, heard

-----------------------------------------------------------------------------
(* The model that is built is empty if no text was added, and an error if  *)
(* something was added after a text.                                       *)
TextBy(adds, k) == \E i \in 1 .. k : adds[i].text # ""
ModelBy(lm, adds, k) ==
  /\ IsEmpty(lm) <=> ~TextBy(adds, k)
  /\ lm.error => ~IsEmpty(lm) /\ TextBy(adds, k - 1)

LEMMA AddSays ==
  ASSUME NEW adds \in Seq(Additions), NEW k \in Nat, k + 1 <= Len(adds),
         NEW lm \in ModelType, ModelBy(lm, adds, k)
  PROVE  ModelBy(Add(lm, adds[k + 1]), adds, k + 1)
<1> DEFINE add == adds[k + 1]
           next == Add(lm, add)
<1>1. /\ k + 1 \in 1 .. Len(adds) /\ (k + 1) - 1 = k
      /\ \A i \in 1 .. k + 1 : i \in 1 .. k \/ i = k + 1
      /\ \A i \in 1 .. k - 1 : i \in 1 .. k
      /\ \A i \in 1 .. k : i \in 1 .. k + 1
      /\ k + 1 \in 1 .. k + 1
  <2>1. Len(adds) \in Nat
    OBVIOUS
  <2> HIDE DEF add
  <2>2. QED BY <2>1
<1>2. add.kind \in {"uri", "grammar"}
  <2>1. add \in Additions
    BY <1>1, ElementOfSeq
  <2> HIDE DEF add
  <2>2. QED BY <2>1 DEF Additions
<1>3. /\ TextBy(adds, k + 1) <=> TextBy(adds, k) \/ add.text # ""
      /\ TextBy(adds, k - 1) => TextBy(adds, k)
  BY <1>1 DEF TextBy
<1>4. /\ lm.uri \in Words /\ lm.grammar \in Words /\ lm.error \in BOOLEAN
      /\ lm = [uri |-> lm.uri, grammar |-> lm.grammar, error |-> lm.error]
  BY DEF ModelType
<1>5. /\ IsEmpty(lm) <=> ~TextBy(adds, k)
      /\ lm.error => ~IsEmpty(lm) /\ TextBy(adds, k - 1)
  BY Zenon DEF ModelBy
<1> HIDE DEF add
<1>6. /\ IsEmpty(next) <=> ~TextBy(adds, k + 1)
      /\ next.error => ~IsEmpty(next) /\ TextBy(adds, k)
  <2>1. CASE lm.error
    <3>1. next = lm
      BY <2>1 DEF Add
    <3> HIDE DEF next
    <3>2. QED BY <1>3, <1>5, <2>1, <3>1
  <2>2. CASE ~lm.error /\ ~IsEmpty(lm)
    <3>1. next = [lm EXCEPT !.error = TRUE]
      BY <2>2 DEF Add, IsEmpty
    <3> HIDE DEF next
    <3>2. ~IsEmpty(next)
      BY <1>4, <2>2, <3>1 DEF IsEmpty
    <3>3. QED BY <1>3, <1>5, <2>2, <3>2, Zenon
  <2>3. CASE ~lm.error /\ IsEmpty(lm)
    <3>1. next = [lm EXCEPT ![add.kind] = add.text]
      BY <2>3 DEF Add, IsEmpty
    <3> HIDE DEF next
    <3>2. next.error = lm.error /\ (IsEmpty(next) <=> add.text = "")
      <4>1. CASE add.kind = "uri"
        BY <1>4, <2>3, <3>1, <4>1 DEF IsEmpty
      <4>2. CASE add.kind = "grammar"
        BY <1>4, <2>3, <3>1, <4>2 DEF IsEmpty
      <4>3. QED BY <1>2, <4>1, <4>2
    <3>3. QED BY <1>3, <1>5, <2>3, <3>2
  <2>4. QED BY <2>1, <2>2, <2>3
<1> HIDE DEF next
<1>7. ModelBy(next, adds, k + 1)
  BY <1>1, <1>6, Zenon DEF ModelBy
<1>8. QED BY <1>7 DEF next, add

LEMMA ModelSays ==
  ASSUME NEW adds \in Seq(Additions)
  PROVE  /\ IsEmpty(LanguageModelList(adds)) => \A i \in DOMAIN adds : adds[i].text = ""
         /\ IsEmpty(LanguageModelList(adds)) \/ LanguageModelList(adds).error => ~OneModel(adds)
<1>1. PICK f \in [0 .. Len(adds) -> ModelType] :
        /\ f[0] = NoModel /\ LanguageModelList(adds) = f[Len(adds)]
        /\ \A i \in 1 .. Len(adds) : f[i] = Add(f[i - 1], adds[i])
  BY ModelFold DEF Additions
<1>2. Len(adds) \in Nat /\ DOMAIN adds = 1 .. Len(adds)
  OBVIOUS
<1> DEFINE S == {k \in Nat : k <= Len(adds) => ModelBy(f[k], adds, k)}
<1>3. 0 \in S
  <2>1. ~TextBy(adds, 0) /\ IsEmpty(NoModel) /\ NoModel.error = FALSE
    BY DEF NoModel, IsEmpty, TextBy
  <2>2. ModelBy(NoModel, adds, 0)
    BY <2>1 DEF ModelBy
  <2>3. QED BY <1>1, <2>2
<1>4. ASSUME NEW k \in Nat, k \in S PROVE k + 1 \in S
  <2>1. ASSUME k + 1 <= Len(adds) PROVE ModelBy(f[k + 1], adds, k + 1)
    <3>1. k <= Len(adds) /\ k \in 0 .. Len(adds) /\ k + 1 \in 1 .. Len(adds) /\ (k + 1) - 1 = k
      BY <1>2, <2>1
    <3>2. ModelBy(f[k], adds, k) /\ f[k] \in ModelType
      BY <1>4, <3>1
    <3>3. f[k + 1] = Add(f[k], adds[k + 1])
      BY <1>1, <3>1
    <3>4. QED BY <2>1, <3>2, <3>3, AddSays
  <2>2. QED BY <2>1
<1>5. Nat \subseteq S
  <2> HIDE DEF S
  <2>1. QED BY <1>3, <1>4, AllNaturals
<1> DEFINE lm == LanguageModelList(adds)
<1>6. ModelBy(lm, adds, Len(adds))
  <2>1. Len(adds) \in S /\ Len(adds) <= Len(adds)
    <3> HIDE DEF S
    <3>1. QED BY <1>2, <1>5
  <2>2. QED BY <1>1, <2>1
<1> HIDE DEF lm, S
<1>7. IsEmpty(lm) => \A i \in DOMAIN adds : adds[i].text = ""
  BY <1>2, <1>6 DEF ModelBy, TextBy
<1>8. ASSUME IsEmpty(lm) PROVE ~OneModel(adds)
  BY <1>2, <1>7, <1>8 DEF OneModel
<1>9. ASSUME lm.error PROVE ~OneModel(adds)
  <2>1. TextBy(adds, Len(adds) - 1)
    BY <1>6, <1>9, Zenon DEF ModelBy
  <2>2. ASSUME NEW len \in Nat, NEW i \in 1 .. len - 1 PROVE i \in 1 .. len /\ i # len
    OBVIOUS
  <2>3. \E i \in DOMAIN adds : i # Len(adds) /\ adds[i].text # ""
    BY <1>2, <2>1, <2>2 DEF TextBy
  <2>4. QED BY <1>2, <2>3 DEF OneModel
<1>10. QED BY <1>7, <1>8, <1>9 DEF lm

-----------------------------------------------------------------------------
(* The places in a queue, when something is taken from it or added to it.  *)

LEMMA TailOf ==
  ASSUME NEW V, NEW s \in Seq(V), s # <<>>
  PROVE  /\ DOMAIN s = 1 .. Len(s) /\ Len(s) \in Nat /\ 1 <= Len(s) /\ 1 \in DOMAIN s
         /\ Head(s) = s[1] /\ Len(Tail(s)) = Len(s) - 1
         /\ DOMAIN Tail(s) = 1 .. Len(s) - 1
         /\ \A i \in DOMAIN Tail(s) : i + 1 \in DOMAIN s /\ Tail(s)[i] = s[i + 1]
         /\ \A i \in DOMAIN s : i = 1 \/ (i - 1 \in DOMAIN Tail(s) /\ Tail(s)[i - 1] = s[i])
         /\ Len(s) = 1 => Tail(s) = <<>>
<1>1. /\ Tail(s) \in Seq(V) /\ Len(Tail(s)) = Len(s) - 1 /\ Head(s) = s[1]
      /\ \A i \in 1 .. Len(Tail(s)) : Tail(s)[i] = s[i + 1]
  BY HeadTailProperties
<1>2. DOMAIN s = 1 .. Len(s) /\ Len(s) \in Nat /\ 1 <= Len(s)
  OBVIOUS
<1>3. DOMAIN Tail(s) = 1 .. Len(s) - 1
  BY <1>1, LenProperties
<1>4. Len(s) = 1 => Tail(s) = <<>>
  <2> DEFINE t == Tail(s)
  <2>1. t \in Seq(V) /\ Len(t) = Len(s) - 1
    BY <1>1
  <2> HIDE DEF t
  <2>2. Len(s) = 1 => t = <<>>
    BY <2>1
  <2>3. QED BY <2>2 DEF t
<1>5. \A i \in 1 .. Len(s) - 1 : i + 1 \in 1 .. Len(s)
  BY <1>2
<1>6. \A i \in 1 .. Len(s) : i = 1 \/ (i - 1 \in 1 .. Len(s) - 1 /\ (i - 1) + 1 = i)
  BY <1>2
<1>7. 1 \in 1 .. Len(s)
  BY <1>2
<1>8. QED BY <1>1, <1>2, <1>3, <1>4, <1>5, <1>6, <1>7

LEMMA AppendOf ==
  ASSUME NEW V, NEW s \in Seq(V), NEW x
  PROVE  /\ DOMAIN s = 1 .. Len(s) /\ Len(s) \in Nat
         /\ Len(Append(s, x)) = Len(s) + 1 /\ DOMAIN Append(s, x) = 1 .. Len(s) + 1
         /\ Len(s) + 1 \in DOMAIN Append(s, x) /\ Append(s, x)[Len(s) + 1] = x
         /\ \A i \in DOMAIN s : i \in DOMAIN Append(s, x) /\ Append(s, x)[i] = s[i]
         /\ \A i \in DOMAIN Append(s, x) : i \in DOMAIN s \/ i = Len(s) + 1
<1>1. s \in Seq(V \cup {x}) /\ x \in V \cup {x}
  BY SeqMonotonic
<1>2. /\ Append(s, x) \in Seq(V \cup {x}) /\ Len(Append(s, x)) = Len(s) + 1
      /\ \A i \in 1 .. Len(s) : Append(s, x)[i] = s[i]
      /\ Append(s, x)[Len(s) + 1] = x
      /\ DOMAIN s = 1 .. Len(s) /\ Len(s) \in Nat
  BY <1>1, AppendProperties
<1>3. DOMAIN Append(s, x) = 1 .. Len(s) + 1
  BY <1>2, LenProperties
<1>4. /\ \A i \in 1 .. Len(s) + 1 : i \in 1 .. Len(s) \/ i = Len(s) + 1
      /\ \A i \in 1 .. Len(s) : i \in 1 .. Len(s) + 1
      /\ Len(s) + 1 \in 1 .. Len(s) + 1
  BY <1>2
<1>5. QED BY <1>2, <1>3, <1>4

LEMMA ConcatOf ==
  ASSUME NEW s, NEW t, AllKept(s), AllKept(t)
  PROVE  /\ DOMAIN s = 1 .. Len(s) /\ Len(s) \in Nat
         /\ DOMAIN t = 1 .. Len(t) /\ Len(t) \in Nat
         /\ DOMAIN (s \o t) = 1 .. Len(s) + Len(t) /\ Len(s \o t) = Len(s) + Len(t)
         /\ \A i \in DOMAIN s : i \in DOMAIN (s \o t) /\ (s \o t)[i] = s[i]
         /\ \A i \in DOMAIN t : Len(s) + i \in DOMAIN (s \o t) /\ (s \o t)[Len(s) + i] = t[i]
         /\ \A i \in DOMAIN (s \o t) :
              i \in DOMAIN s \/ (i - Len(s) \in DOMAIN t /\ (s \o t)[i] = t[i - Len(s)])
<1> DEFINE st == s \o t
<1>1. s \in Seq(Range(s) \cup Range(t)) /\ t \in Seq(Range(s) \cup Range(t))
  BY SeqMonotonic DEF AllKept
<1>2. /\ st \in Seq(Range(s) \cup Range(t)) /\ Len(st) = Len(s) + Len(t)
      /\ Len(s) \in Nat /\ Len(t) \in Nat
      /\ DOMAIN s = 1 .. Len(s) /\ DOMAIN t = 1 .. Len(t)
      /\ \A i \in 1 .. Len(s) + Len(t) :
           st[i] = IF i <= Len(s) THEN s[i] ELSE t[i - Len(s)]
  BY <1>1, ConcatProperties, LenProperties
<1>3. DOMAIN st = 1 .. Len(s) + Len(t)
  BY <1>2, LenProperties
<1> HIDE DEF st
<1>4. \A i \in 1 .. Len(s) : i \in 1 .. Len(s) + Len(t) /\ i <= Len(s)
  BY <1>2
<1>5. \A i \in 1 .. Len(t) : /\ Len(s) + i \in 1 .. Len(s) + Len(t)
                             /\ ~(Len(s) + i <= Len(s)) /\ (Len(s) + i) - Len(s) = i
  BY <1>2
<1>6. \A i \in 1 .. Len(s) + Len(t) :
        i \in 1 .. Len(s) \/ (i - Len(s) \in 1 .. Len(t) /\ ~(i <= Len(s)))
  BY <1>2
<1>7. /\ \A i \in DOMAIN s : i \in DOMAIN st /\ st[i] = s[i]
      /\ \A i \in DOMAIN t : Len(s) + i \in DOMAIN st /\ st[Len(s) + i] = t[i]
      /\ \A i \in DOMAIN st : i \in DOMAIN s \/ (i - Len(s) \in DOMAIN t /\ st[i] = t[i - Len(s)])
  BY <1>2, <1>3, <1>4, <1>5, <1>6
<1>8. QED BY <1>2, <1>3, <1>7 DEF st

(* Messages that a turn is made of: a response, and the last result.       *)
Loud(m) == IsResponse(m) \/ m.means.last

(* The last results among messages, where there is one at most.            *)
LEMMA NoLast ==
  ASSUME NEW s, \A i \in DOMAIN s : ~s[i].means.last
  PROVE  Cardinality({i \in DOMAIN s : s[i].means.last}) = 0
<1>1. {i \in DOMAIN s : s[i].means.last} = {}
  OBVIOUS
<1>2. QED BY <1>1, FS_EmptySet

LEMMA OneLast ==
  ASSUME NEW s, NEW k \in DOMAIN s, s[k].means.last,
         \A i \in DOMAIN s : s[i].means.last => i = k
  PROVE  Cardinality({i \in DOMAIN s : s[i].means.last}) = 1
<1>1. {i \in DOMAIN s : s[i].means.last} = {k}
  OBVIOUS
<1>2. QED BY <1>1, FS_Singleton

(* A send of messages that are not loud, of a response, and of an end.     *)
SameLoud(s, t) ==
  /\ \A i \in DOMAIN s : Loud(s[i]) => i \in DOMAIN t /\ t[i] = s[i]
  /\ \A i \in DOMAIN t : Loud(t[i]) => i \in DOMAIN s /\ t[i] = s[i]

LEMMA QuietSent ==
  ASSUME AllKept(toClient), NEW messages, AllKept(messages), Send(messages), lasts \in Nat,
         \A i \in DOMAIN messages : ~Loud(messages[i])
  PROVE  lasts' = lasts /\ SameLoud(toClient, toClient')
<1>1. toClient' = toClient \o messages
  BY DEF Send
<1>2. lasts' = lasts
  <2>1. \A i \in DOMAIN messages : ~messages[i].means.last
    BY DEF Loud
  <2> DEFINE ended == Cardinality({i \in DOMAIN messages : messages[i].means.last})
  <2>2. ended = 0 /\ lasts' = lasts + ended
    BY <2>1, NoLast DEF Send
  <2> HIDE DEF ended
  <2>3. QED BY <2>2
<1>3. /\ \A i \in DOMAIN toClient : i \in DOMAIN toClient' /\ toClient'[i] = toClient[i]
      /\ \A i \in DOMAIN toClient' :
           i \in DOMAIN toClient \/ (i - Len(toClient) \in DOMAIN messages
                                     /\ toClient'[i] = messages[i - Len(toClient)])
  BY <1>1, ConcatOf
<1>4. QED BY <1>2, <1>3 DEF SameLoud

LEMMA ResponseSent ==
  ASSUME AllKept(toClient), NEW messages, AllKept(messages), Send(messages), lasts \in Nat,
         ~Answered, ~Underway,
         NEW k \in DOMAIN messages, IsResponse(messages[k]), ~messages[k].means.last,
         \A i \in DOMAIN messages : Loud(messages[i]) => i = k
  PROVE  /\ lasts' = lasts
         /\ \E j \in DOMAIN toClient' :
              /\ toClient'[j] = messages[k]
              /\ \A i \in DOMAIN toClient' : Loud(toClient'[i]) => i = j
<1>1. toClient' = toClient \o messages
  BY DEF Send
<1>2. lasts' = lasts
  <2>1. \A i \in DOMAIN messages : ~messages[i].means.last
    BY DEF Loud
  <2> DEFINE ended == Cardinality({i \in DOMAIN messages : messages[i].means.last})
  <2>2. ended = 0 /\ lasts' = lasts + ended
    BY <2>1, NoLast DEF Send
  <2> HIDE DEF ended
  <2>3. QED BY <2>2
<1>3. \A i \in DOMAIN toClient : ~Loud(toClient[i])
  BY DEF Answered, Underway, Loud
<1>4. /\ Len(toClient) + k \in DOMAIN toClient' /\ toClient'[Len(toClient) + k] = messages[k]
      /\ \A i \in DOMAIN toClient' :
           i \in DOMAIN toClient \/ (i - Len(toClient) \in DOMAIN messages
                                     /\ toClient'[i] = messages[i - Len(toClient)])
      /\ \A i \in DOMAIN toClient : toClient'[i] = toClient[i]
      /\ DOMAIN toClient' = 1 .. Len(toClient) + Len(messages)
      /\ Len(toClient) \in Nat /\ Len(messages) \in Nat /\ DOMAIN messages = 1 .. Len(messages)
  BY <1>1, ConcatOf
<1>5. ASSUME NEW i \in DOMAIN toClient', Loud(toClient'[i]) PROVE i = Len(toClient) + k
  <2>1. i \notin DOMAIN toClient
    BY <1>3, <1>4, <1>5
  <2>2. i - Len(toClient) \in DOMAIN messages /\ toClient'[i] = messages[i - Len(toClient)]
    BY <1>4, <2>1
  <2>3. i - Len(toClient) = k
    BY <1>5, <2>2
  <2>4. QED BY <1>4, <2>3
<1>6. QED BY <1>2, <1>4, <1>5

LEMMA EndSent ==
  ASSUME AllKept(toClient), NEW messages, AllKept(messages), Send(messages), lasts \in Nat,
         ~Underway,
         NEW k \in DOMAIN messages, messages[k].means.last, ~IsResponse(messages[k]),
         \A i \in DOMAIN messages : Loud(messages[i]) => i = k
  PROVE  /\ lasts' = lasts + 1
         /\ \E j \in DOMAIN toClient' :
              /\ toClient'[j] = messages[k]
              /\ \A i \in DOMAIN toClient : i \in DOMAIN toClient' /\ toClient'[i] = toClient[i] /\ i < j
              /\ \A i \in DOMAIN toClient' : Loud(toClient'[i]) => i = j \/ i \in DOMAIN toClient
<1>1. toClient' = toClient \o messages
  BY DEF Send
<1>2. lasts' = lasts + 1
  <2>1. \A i \in DOMAIN messages : messages[i].means.last => i = k
    BY DEF Loud
  <2>2. QED BY <2>1, OneLast DEF Send
<1>3. /\ Len(toClient) + k \in DOMAIN toClient' /\ toClient'[Len(toClient) + k] = messages[k]
      /\ \A i \in DOMAIN toClient' :
           i \in DOMAIN toClient \/ (i - Len(toClient) \in DOMAIN messages
                                     /\ toClient'[i] = messages[i - Len(toClient)])
      /\ \A i \in DOMAIN toClient : i \in DOMAIN toClient' /\ toClient'[i] = toClient[i]
      /\ DOMAIN toClient' = 1 .. Len(toClient) + Len(messages)
      /\ DOMAIN toClient = 1 .. Len(toClient)
      /\ Len(toClient) \in Nat /\ Len(messages) \in Nat /\ DOMAIN messages = 1 .. Len(messages)
  BY <1>1, ConcatOf
<1>4. ASSUME NEW i \in DOMAIN toClient', Loud(toClient'[i]), i \notin DOMAIN toClient
      PROVE  i = Len(toClient) + k
  <2>1. i - Len(toClient) \in DOMAIN messages /\ toClient'[i] = messages[i - Len(toClient)]
    BY <1>3, <1>4
  <2>2. i - Len(toClient) = k
    BY <1>4, <2>1
  <2>3. QED BY <1>3, <2>2
<1>5. \A i \in DOMAIN toClient : i < Len(toClient) + k
  BY <1>3
<1>6. QED BY <1>2, <1>3, <1>4, <1>5

-----------------------------------------------------------------------------
(* What holds whatever happens: of the client and its files, and of what   *)
(* is said to it.                                                          *)

FilesLeft ==
  /\ DOMAIN files = DOMAIN program.files
  /\ \A k \in DOMAIN files : files[k] \in Nat /\ files[k] <= program.files[k]
ClientSays ==
  /\ client.phase = "building" => n = 0
  /\ client.phase = "open" /\ n > 0 =>
       /\ client.lm = LanguageModelList(program.turns[n].adds)
       /\ client.source = program.turns[n].source
  /\ client.eptr => program.rejects
SaidRight(m, p) ==
  /\ Fails(Parse(m.text)) => p.rejects
  /\ p.mock =>
       /\ m.text.cmd = "RECOGNITION_RESULT" => m.means.last
       /\ IsResponse(m) => \E method \in Methods : Succeeds(Parse(m.text), method)
ServersSay == \A i \in DOMAIN toClient : SaidRight(toClient[i], program)

(* What never changes while the client is not called.                      *)
SameTurn(c, d) ==
  c.phase = d.phase /\ c.lm = d.lm /\ c.source = d.source /\ c.eptr = d.eptr

LEMMA BuildSays == ASSUME Inv, ClientSays, Build PROVE ClientSays'
<1>1. /\ client'.phase \in {"open", "raised"} /\ client'.eptr = client.eptr
      /\ UNCHANGED <<program, n>> /\ n = 0
  BY DEF Build, ClientSays, Inv, TypeOK, ClientType
<1>2. QED BY <1>1 DEF ClientSays

LEMMA RecognizeSays == ASSUME Inv, ClientSays, Recognize PROVE ClientSays'
<1> DEFINE turn == program.turns[n + 1]
           lm == LanguageModelList(turn.adds)
           begun == [client EXCEPT !.recognizing = TRUE, !.eptr = FALSE,
                                   !.results = <<>>, !.lm = lm,
                                   !.source = turn.source]
<1>0. client \in ClientType /\ n \in Nat
  BY Turns DEF Inv, TypeOK
<1>1. /\ program' = program /\ client.phase = "open"
      /\ \/ client' = [client EXCEPT !.phase = "raised"] /\ n' = n
         \/ client' = begun /\ n' = n + 1
         \/ client' = [begun EXCEPT !.phase = "raised"] /\ n' = n + 1
  BY DEF Recognize, ClientIsOpen
<1>2. /\ begun.phase = "open" /\ begun.eptr = FALSE /\ begun.lm = lm
      /\ begun.source = turn.source
  BY <1>0, <1>1 DEF ClientType
<1>3. [begun EXCEPT !.phase = "raised"].phase = "raised"
      /\ [begun EXCEPT !.phase = "raised"].eptr = FALSE
  BY <1>0 DEF ClientType
<1>4. [client EXCEPT !.phase = "raised"].phase = "raised"
      /\ [client EXCEPT !.phase = "raised"].eptr = client.eptr
  BY <1>0 DEF ClientType
<1> HIDE DEF begun, turn, lm
<1>5. CASE client' = begun /\ n' = n + 1
  <2>1. client'.lm = lm /\ client'.source = turn.source /\ client'.eptr = FALSE
        /\ client'.phase = "open"
    BY <1>2, <1>5
  <2>2. lm = LanguageModelList(turn.adds) /\ turn = program'.turns[n']
    BY <1>1, <1>5 DEF lm, turn
  <2>3. QED BY <2>1, <2>2 DEF ClientSays
<1>6. QED BY <1>1, <1>3, <1>4, <1>5 DEF ClientSays

(* A block that is read, and sent or dropped, leaves one less.             *)
LEMMA BlockLeft ==
  ASSUME Inv, FilesLeft, program' = program, ReadBlock \/ UNCHANGED files
  PROVE  FilesLeft'
<1>1. \/ files' = files
      \/ files' = [files EXCEPT ![client.source] = @ - 1] /\ files[client.source] # 0
  BY DEF ReadBlock, AtEnd
<1>2. Len(program.files) \in Nat /\ program.files \in Seq(Nat)
  BY Turns
<1>3. CASE files' = files
  BY <1>3 DEF FilesLeft
<1>4. CASE files' = [files EXCEPT ![client.source] = @ - 1] /\ files[client.source] # 0
  <2>1. DOMAIN files' = DOMAIN files
    BY <1>4
  <2>2. ASSUME NEW k \in DOMAIN files
        PROVE  files'[k] \in Nat /\ files'[k] <= program.files[k]
    <3>1. files[k] \in Nat /\ files[k] <= program.files[k] /\ program.files[k] \in Nat
      BY <1>2 DEF FilesLeft
    <3>2. files'[k] = IF k = client.source THEN files[k] - 1 ELSE files[k]
      BY <1>4
    <3>3. k = client.source => files[k] # 0
      BY <1>4
    <3>4. QED BY <3>1, <3>2, <3>3
  <2>3. QED BY <2>1, <2>2 DEF FilesLeft
<1>5. QED BY <1>1, <1>3, <1>4

LEMMA WaitSays == ASSUME Inv, ClientSays, FilesLeft, Wait PROVE ClientSays' /\ FilesLeft'
<1>1. /\ client'.phase \in {"open", "raised"} /\ client.phase = "open"
      /\ client'.lm = client.lm /\ client'.source = client.source /\ client'.eptr = client.eptr
      /\ UNCHANGED <<program, n>>
  BY DEF Wait, ClientIsOpen, Inv, TypeOK, ClientType
<1>2. ClientSays'
  BY <1>1 DEF ClientSays
<1>3. ReadBlock \/ UNCHANGED files
  BY DEF Wait, StopAudio
<1>4. QED BY <1>1, <1>2, <1>3, BlockLeft

LEMMA CancelSays == ASSUME Inv, ClientSays, FilesLeft, Cancel PROVE ClientSays' /\ FilesLeft'
<1>1. SameTurn(client, client') /\ UNCHANGED <<program, n>>
  BY DEF Cancel, Inv, TypeOK, ClientType, SameTurn
<1>2. ClientSays'
  BY <1>1 DEF ClientSays, SameTurn
<1>3. ReadBlock \/ UNCHANGED files
  BY DEF Cancel, StopAudio
<1>4. QED BY <1>1, <1>2, <1>3, BlockLeft

LEMMA AudioSays ==
  ASSUME Inv, ClientSays, FilesLeft, AudioSend
  PROVE  ClientSays' /\ FilesLeft'
<1>1. SameTurn(client, client') /\ UNCHANGED <<program, n>>
  BY DEF AudioSend, Inv, TypeOK, ClientType, SameTurn
<1>2. ClientSays'
  BY <1>1 DEF ClientSays, SameTurn
<1>3. ReadBlock
  BY DEF AudioSend
<1>4. QED BY <1>1, <1>2, <1>3, BlockLeft

(* What the handlers change: they end no recognition but for a response or *)
(* a result, and ask nothing but the next step of a start.                 *)
LEMMA NetSays == ASSUME Inv, ClientSays, ServersSay, NetStep PROVE ClientSays' /\ ServersSay'
<1> DEFINE heard == Parse(Head(toClient).text)
<1>0. client \in ClientType /\ client.phase = "open" /\ toClient # <<>>
      /\ toClient \in Seq(Range(toClient)) /\ UNCHANGED <<program, n>>
      /\ toClient' = Tail(toClient)
  BY DEF Inv, TypeOK, NetStep, NetReady, ClientIsOpen
<1>1. SaidRight(Head(toClient), program) /\ ServersSay'
  <2>1. Head(toClient) = toClient[1] /\ 1 \in DOMAIN toClient
    BY <1>0, TailOf
  <2>2. \A i \in DOMAIN toClient' : i + 1 \in DOMAIN toClient /\ toClient'[i] = toClient[i + 1]
    BY <1>0, TailOf
  <2>3. ASSUME NEW i \in DOMAIN toClient' PROVE SaidRight(toClient'[i], program')
    <3>1. SaidRight(toClient[i + 1], program) /\ toClient'[i] = toClient[i + 1]
      BY <2>2 DEF ServersSay
    <3>2. QED BY <1>0, <3>1
  <2>4. QED BY <2>1, <2>3 DEF ServersSay
<1>2. /\ client'.phase \in {"open", "crashed"}
      /\ client'.lm = client.lm /\ client'.source = client.source
      /\ client'.eptr = client.eptr \/ HandleFailure(heard)
  <2>1. CASE HandleCreateSession(heard) \/ HandleSetParameters(heard)
    BY <1>0, <2>1 DEF HandleCreateSession, HandleSetParameters, StartOnNet, ClientType
  <2>2. CASE HandleStart(heard)
    BY <1>0, <2>2 DEF HandleStart, ClientType
  <2>3. CASE HandleCancel(heard)
    BY <1>0, <2>3 DEF HandleCancel, ClientType
  <2>4. CASE HandleFailure(heard)
    BY <1>0, <2>4 DEF HandleFailure, ClientType
  <2>5. CASE HandleUnknown(heard) \/ HandleSpeech(heard)
    BY <1>0, <2>5 DEF HandleUnknown, HandleSpeech
  <2>6. CASE HandleCanceledResult(heard) \/ HandlePartial(heard)
    BY <1>0, <2>6 DEF HandleCanceledResult, HandlePartial, Settled, ClientType
  <2>7. CASE HandleStatusOnly(heard) \/ HandleFinal(heard)
    BY <1>0, <2>7 DEF HandleStatusOnly, HandleFinal, Stored, Settled, ClientType
  <2> HIDE DEF heard
  <2>8. QED BY <2>1, <2>2, <2>3, <2>4, <2>5, <2>6, <2>7 DEF NetStep, heard
<1>3. HandleFailure(heard) => program.rejects
  BY <1>1 DEF HandleFailure, SaidRight, Fails
<1> HIDE DEF heard
<1>4. QED BY <1>0, <1>1, <1>2, <1>3 DEF ClientSays

(* What the servers send.                                                  *)

LEMMA SentSays ==
  ASSUME AllKept(toClient), NEW messages, AllKept(messages), Send(messages), ServersSay,
         \A i \in DOMAIN messages : SaidRight(messages[i], program), program' = program
  PROVE  ServersSay'
<1>1. toClient' = toClient \o messages
  BY DEF Send
<1>2. /\ \A i \in DOMAIN toClient : i \in DOMAIN toClient' /\ toClient'[i] = toClient[i]
      /\ \A i \in DOMAIN toClient' :
           i \in DOMAIN toClient \/ (i - Len(toClient) \in DOMAIN messages
                                     /\ toClient'[i] = messages[i - Len(toClient)])
  BY <1>1, ConcatOf
<1>3. ASSUME NEW i \in DOMAIN toClient' PROVE SaidRight(toClient'[i], program')
  BY <1>2 DEF ServersSay
<1>4. QED BY <1>3 DEF ServersSay

(* A message that is neither a response nor a result.                      *)
LEMMA SpeechSaid ==
  ASSUME NEW text, NEW p, text.cmd \notin {"RESPONSE", "RECOGNITION_RESULT"}
  PROVE  Kept(Says(text)) /\ SaidRight(Says(text), p) /\ ~Loud(Says(text))
<1>1. Kept(Says(text))
  BY OtherHeard
<1>2. Says(text).text = text /\ Says(text).means.last = FALSE
  BY DEF Says, Nothing, Meaning
<1>3. Parse(text).cmd = text.cmd
  BY DEF Parse
<1>4. QED BY <1>1, <1>2, <1>3 DEF SaidRight, Fails, Loud, IsResponse

LEMMA StartOfSpeechSaid ==
  ASSUME NEW p
  PROVE  Kept(StartOfSpeech) /\ SaidRight(StartOfSpeech, p) /\ ~Loud(StartOfSpeech)
<1>1. Message("START_OF_SPEECH", <<Header("Handle", <<Space, "handle">>),
               Header("Session-Status", <<Space, "LISTENING">>)>>, NoBody).cmd
        \notin {"RESPONSE", "RECOGNITION_RESULT"}
  BY DEF Message
<1>2. QED BY <1>1, SpeechSaid DEF StartOfSpeech

LEMMA MockResultSaid ==
  ASSUME NEW p
  PROVE  /\ Kept(MockResult) /\ SaidRight(MockResult, p)
         /\ MockResult.means.last /\ ~IsResponse(MockResult)
<1>1. MockResult.text.cmd = "RECOGNITION_RESULT" /\ MockResult.means.last = TRUE
  BY DEF MockResult, ResultText, Message, Meaning
<1>2. Parse(MockResult.text).cmd = "RECOGNITION_RESULT"
  BY <1>1 DEF Parse
<1>3. QED BY <1>1, <1>2, MockResultHeard DEF SaidRight, Fails, IsResponse

(* A sequence of one, or none.                                             *)
LEMMA AtMostOne ==
  ASSUME NEW x, Kept(x), NEW s, s = <<x>> \/ s = <<>>
  PROVE  /\ AllKept(s) /\ \A i \in DOMAIN s : i = 1 /\ s[i] = x
         /\ s = <<x>> => 1 \in DOMAIN s /\ s[1] = x
<1>1. CASE s = <<x>>
  <2>1. /\ <<x>>[1] = x /\ 1 \in DOMAIN <<x>> /\ \A i \in DOMAIN <<x>> : i = 1
    OBVIOUS
  <2>2. QED BY <1>1, <2>1, KeptOne
<1>2. CASE s = <<>>
  <2>1. <<>> # <<x>> /\ \A i \in DOMAIN <<>> : FALSE
    OBVIOUS
  <2>2. QED BY <1>2, <2>1, KeptNone
<1>3. QED BY <1>1, <1>2

(* Sequences where at most one place is not quiet.                         *)
OnlySpeech(s) == AllKept(s) /\ \A i \in DOMAIN s : s[i] = StartOfSpeech
OnlyEnd(s) ==
  AllKept(s) /\ \E k \in DOMAIN s : /\ s[k] = MockResult
                                    /\ \A i \in DOMAIN s : i = k \/ s[i] = StartOfSpeech

LEMMA SpeechBefore ==
  ASSUME NEW s, NEW t, OnlySpeech(s), OnlySpeech(t) \/ OnlyEnd(t)
  PROVE  IF OnlySpeech(t) THEN OnlySpeech(s \o t) ELSE OnlyEnd(s \o t)
<1> DEFINE st == s \o t
<1>1. AllKept(s) /\ AllKept(t) /\ AllKept(st)
  BY KeptBoth DEF OnlySpeech, OnlyEnd
<1>2. /\ Len(s) \in Nat /\ DOMAIN t = 1 .. Len(t) /\ DOMAIN st = 1 .. Len(s) + Len(t)
      /\ \A i \in DOMAIN s : i \in DOMAIN st /\ st[i] = s[i]
      /\ \A i \in DOMAIN t : Len(s) + i \in DOMAIN st /\ st[Len(s) + i] = t[i]
      /\ \A i \in DOMAIN st : i \in DOMAIN s \/ (i - Len(s) \in DOMAIN t /\ st[i] = t[i - Len(s)])
  BY <1>1, ConcatOf
<1> HIDE DEF st
<1>3. CASE OnlySpeech(t)
  BY <1>1, <1>2, <1>3 DEF OnlySpeech, st
<1>4. CASE OnlyEnd(t) /\ ~OnlySpeech(t)
  <2>1. PICK k \in DOMAIN t : /\ t[k] = MockResult
                              /\ \A i \in DOMAIN t : i = k \/ t[i] = StartOfSpeech
    BY <1>4 DEF OnlyEnd
  <2>2. Len(s) + k \in DOMAIN st /\ st[Len(s) + k] = MockResult
    BY <1>2, <2>1
  <2>3. ASSUME NEW i \in DOMAIN st PROVE i = Len(s) + k \/ st[i] = StartOfSpeech
    <3>1. CASE i \in DOMAIN s
      BY <1>2, <3>1 DEF OnlySpeech
    <3>2. CASE i - Len(s) \in DOMAIN t /\ st[i] = t[i - Len(s)]
      <4>1. i - Len(s) = k => i = Len(s) + k
        BY <1>2
      <4>2. QED BY <2>1, <3>2, <4>1
    <3>3. QED BY <1>2, <3>1, <3>2
  <2>4. OnlyEnd(st)
    BY <1>1, <2>2, <2>3 DEF OnlyEnd
  <2>5. QED BY <1>4, <2>4 DEF st
<1>5. QED BY <1>3, <1>4

LEMMA OneOrNone ==
  ASSUME NEW b \in BOOLEAN
  PROVE  /\ OnlySpeech(IF b THEN <<StartOfSpeech>> ELSE <<>>)
         /\ b => OnlyEnd(IF b THEN <<MockResult>> ELSE <<>>)
         /\ ~b => OnlySpeech(IF b THEN <<MockResult>> ELSE <<>>)
<1>1. Kept(StartOfSpeech) /\ Kept(MockResult)
  BY StartOfSpeechSaid, MockResultSaid
<1>2. OnlySpeech(<<StartOfSpeech>>) /\ OnlySpeech(<<>>)
  BY <1>1, AtMostOne DEF OnlySpeech
<1>3. OnlyEnd(<<MockResult>>)
  BY <1>1, AtMostOne DEF OnlyEnd
<1>4. QED BY <1>2, <1>3

LEMMA NotBoth == ASSUME NEW s, OnlyEnd(s) PROVE ~OnlySpeech(s)
<1>1. MockResult # StartOfSpeech
  BY StartOfSpeechSaid, MockResultSaid DEF Loud
<1>2. QED BY <1>1 DEF OnlyEnd, OnlySpeech

LEMMA CounterSays ==
  ASSUME NEW counter
  PROVE  IF counter = END_RECOGNIZE THEN OnlyEnd(ByCounter(counter))
         ELSE OnlySpeech(ByCounter(counter))
<1> DEFINE a == IF counter = END_RECOGNIZE \div 5 THEN <<StartOfSpeech>> ELSE <<>>
           b == IF counter = END_RECOGNIZE THEN <<MockResult>> ELSE <<>>
<1>1. ByCounter(counter) = a \o b
  BY DEF ByCounter
<1>2. /\ OnlySpeech(a)
      /\ counter = END_RECOGNIZE => OnlyEnd(b)
      /\ counter # END_RECOGNIZE => OnlySpeech(b)
  BY OneOrNone
<1> HIDE DEF a, b
<1>3. QED BY <1>1, <1>2, SpeechBefore, NotBoth

(* What such sequences are to a turn.                                      *)
LEMMA SpeechIsQuiet ==
  ASSUME NEW s, NEW p, OnlySpeech(s)
  PROVE  \A i \in DOMAIN s : ~Loud(s[i]) /\ SaidRight(s[i], p)
BY StartOfSpeechSaid DEF OnlySpeech

LEMMA EndIsLoud ==
  ASSUME NEW s, NEW p, OnlyEnd(s)
  PROVE  /\ \A i \in DOMAIN s : SaidRight(s[i], p)
         /\ \E k \in DOMAIN s : /\ s[k].means.last /\ ~IsResponse(s[k])
                                /\ \A i \in DOMAIN s : Loud(s[i]) => i = k
<1>1. PICK k \in DOMAIN s : /\ s[k] = MockResult
                            /\ \A i \in DOMAIN s : i = k \/ s[i] = StartOfSpeech
  BY DEF OnlyEnd
<1>2. QED BY <1>1, StartOfSpeechSaid, MockResultSaid

-----------------------------------------------------------------------------
(* One turn at a time: the parts of the invariant, for one queue each.     *)

Turn == TurnCounts /\ TurnRequests /\ TurnAnswers

(* Of requests: only the newest is answered.                               *)
LastAsked(s) ==
  \A i \in DOMAIN s :
    s[i].cmd # "SEND_AUDIO" => i = Len(s) /\ s[i].cmd # "CANCEL_RECOGNITION"

(* Of messages: one response and one end at most, in this order.           *)
Ordered(s) ==
  \A i, j \in DOMAIN s :
    /\ IsResponse(s[i]) /\ IsResponse(s[j]) => i = j
    /\ s[i].means.last /\ s[j].means.last => i = j
    /\ IsResponse(s[i]) /\ s[j].means.last => i < j

(* What a response tells of the recognition it belongs to.                 *)
Due(m, p, running, ended, begun) ==
  /\ ~Answers(Parse(m.text), "CANCEL_RECOGNITION")
  /\ IF Starts(Parse(m.text)) THEN p.mock \/ running \/ ended = begun
     ELSE ended < begun /\ ~running

LEMMA TurnParts ==
  Turn <=> /\ TurnCounts
           /\ server.running => lasts < n /\ ~Asked
           /\ Asked => lasts < n /\ client.audio = "none" /\ ~Answered
           /\ LastAsked(toServer)
           /\ Answered => client.recognizing /\ client.audio = "none"
           /\ Ordered(toClient)
           /\ \A i \in DOMAIN toClient :
                IsResponse(toClient[i]) =>
                  Due(toClient[i], program, server.running, lasts, n)
BY DEF Turn, TurnRequests, TurnAnswers, LastAsked, Ordered, Due

(* The types that the rest uses.                                           *)
LEMMA TurnTypes ==
  ASSUME Inv
  PROVE  /\ n \in Nat /\ lasts \in Nat /\ client \in ClientType /\ AllKept(toClient)
         /\ toClient \in Seq(Range(toClient)) /\ toServer \in Seq(Range(toServer))
         /\ server.running \in BOOLEAN /\ program \in Programs
         /\ \A i \in DOMAIN toServer : toServer[i].cmd \in Requests
         /\ n <= Len(program.turns) /\ Len(program.turns) \in Nat
<1>1. Len(program.turns) \in Nat /\ AllKept(toClient)
  BY Turns, Queued
<1>2. QED BY <1>1 DEF Inv, TypeOK, Requests

(* A failure and a cancel are for good.                                    *)
LEMMA GuardBefore ==
  ASSUME Inv, [Next]_vars, (HasNotFailed /\ Regular)'
  PROVE  HasNotFailed /\ Regular
<1>1. program' = program
  BY DEF Next, ProgramStep, Build, Recognize, Wait, Cancel, NetStep, AudioSend, MocksTurn,
         ServersTurn, clientVars, vars
<1>2. canceled' = canceled \/ canceled' = TRUE
  BY DEF Next, ProgramStep, Build, Recognize, Wait, Cancel, NetStep, AudioSend, MocksTurn,
         ServersTurn, clientVars, vars
<1>3. HasNotFailed
  BY DEF Next, ProgramStep, Build, Recognize, Wait, Cancel, NetStep, AudioSend, MocksTurn,
         ServersTurn, clientVars, vars, ClientIsOpen, NetReady, AudioReady, HasNotFailed
<1>4. QED BY <1>1, <1>2, <1>3 DEF Regular, Short

(* A step that leaves open what is open, and brings no new response.       *)
LEMMA SameTurnOpen ==
  ASSUME Inv, Turn, UNCHANGED <<program, n, lasts>>, server'.running = server.running,
         client'.recognizing = client.recognizing,
         \/ client'.audio = client.audio \/ client'.audio = "none"
         \/ ~Asked /\ ~Answered,
         Answered' <=> Answered, Underway' <=> Underway, Ordered(toClient'),
         \A i \in DOMAIN toClient' :
           IsResponse(toClient'[i]) => \E j \in DOMAIN toClient : toClient'[i] = toClient[j],
         Asked' <=> Asked, LastAsked(toServer'),
         \/ n > 0
         \/ UNCHANGED <<toServer, toClient>> /\ client'.audio \in {client.audio, "none"}
  PROVE  Turn'
<1>1. n \in Nat /\ lasts \in Nat
  BY TurnTypes
<1>2. TurnCounts'
  BY <1>1, TurnParts DEF TurnCounts
<1>3. \A i \in DOMAIN toClient' :
        IsResponse(toClient'[i]) => Due(toClient'[i], program', server'.running, lasts', n')
  BY TurnParts
<1>4. /\ server'.running => lasts' < n' /\ ~Asked'
      /\ Asked' => lasts' < n' /\ client'.audio = "none" /\ ~Answered'
      /\ Answered' => client'.recognizing /\ client'.audio = "none"
  BY TurnParts
<1>5. QED
  BY <1>2, <1>3, <1>4 DEF Turn, TurnRequests, TurnAnswers, LastAsked, Ordered, Due

(* A step that leaves what is loud where it is, and what is asked.         *)
LEMMA QuietTurn ==
  ASSUME Inv, Turn, UNCHANGED <<program, n, lasts>>, server'.running = server.running,
         client'.recognizing = client.recognizing,
         \/ client'.audio = client.audio \/ client'.audio = "none"
         \/ ~Asked /\ ~Answered,
         SameLoud(toClient, toClient'), Asked' <=> Asked, LastAsked(toServer'),
         \/ n > 0
         \/ UNCHANGED <<toServer, toClient>> /\ client'.audio \in {client.audio, "none"}
  PROVE  Turn'
<1>1. (Answered' <=> Answered) /\ (Underway' <=> Underway)
  BY DEF Answered, Underway, SameLoud, Loud
<1>2. Ordered(toClient')
  <2>1. ASSUME NEW i \in DOMAIN toClient', NEW j \in DOMAIN toClient'
        PROVE  /\ IsResponse(toClient'[i]) /\ IsResponse(toClient'[j]) => i = j
               /\ toClient'[i].means.last /\ toClient'[j].means.last => i = j
               /\ IsResponse(toClient'[i]) /\ toClient'[j].means.last => i < j
    BY TurnParts DEF SameLoud, Loud, Ordered
  <2>2. QED BY <2>1 DEF Ordered
<1>3. \A i \in DOMAIN toClient' :
        IsResponse(toClient'[i]) => \E j \in DOMAIN toClient : toClient'[i] = toClient[j]
  BY DEF SameLoud, Loud
<1>4. QED BY <1>1, <1>2, <1>3, SameTurnOpen

(* What is left when the client has taken the oldest message.              *)
LEMMA Popped ==
  ASSUME Inv, Turn, toClient # <<>>, toClient' = Tail(toClient)
  PROVE  /\ Ordered(toClient')
         /\ Head(toClient) = toClient[1] /\ 1 \in DOMAIN toClient /\ n > 0
         /\ \A i \in DOMAIN toClient' :
              i + 1 \in DOMAIN toClient /\ toClient'[i] = toClient[i + 1]
         /\ IsResponse(Head(toClient)) =>
              /\ Answered /\ ~Answered' /\ ~Head(toClient).means.last
              /\ Due(Head(toClient), program, server.running, lasts, n)
         /\ ~IsResponse(Head(toClient)) => (Answered' <=> Answered)
         /\ Head(toClient).means.last => Underway /\ ~Underway' /\ ~Answered'
         /\ ~Head(toClient).means.last => (Underway' <=> Underway)
<1>1. toClient \in Seq(Range(toClient)) /\ n \in Nat
  BY TurnTypes
<1>2. /\ Head(toClient) = toClient[1] /\ 1 \in DOMAIN toClient
      /\ DOMAIN toClient = 1 .. Len(toClient)
      /\ \A i \in DOMAIN toClient' : i + 1 \in DOMAIN toClient /\ toClient'[i] = toClient[i + 1]
      /\ \A i \in DOMAIN toClient :
           i = 1 \/ (i - 1 \in DOMAIN toClient' /\ toClient'[i - 1] = toClient[i])
      /\ DOMAIN toClient' = 1 .. Len(toClient) - 1 /\ Len(toClient) \in Nat
  BY <1>1, TailOf
<1>3. n > 0
  BY <1>1, TurnParts DEF TurnCounts
<1>4. /\ \A i \in DOMAIN toClient' : i \in Nat /\ i + 1 # 1
      /\ \A i, j \in DOMAIN toClient' : (i + 1 = j + 1 => i = j) /\ (i + 1 < j + 1 => i < j)
      /\ \A i \in DOMAIN toClient : ~(i < 1)
  BY <1>2
<1>5. Ordered(toClient)
  BY TurnParts
<1>6. Ordered(toClient')
  <2>1. ASSUME NEW i \in DOMAIN toClient', NEW j \in DOMAIN toClient'
        PROVE  /\ IsResponse(toClient'[i]) /\ IsResponse(toClient'[j]) => i = j
               /\ toClient'[i].means.last /\ toClient'[j].means.last => i = j
               /\ IsResponse(toClient'[i]) /\ toClient'[j].means.last => i < j
    <3>1. /\ i + 1 \in DOMAIN toClient /\ toClient'[i] = toClient[i + 1]
          /\ j + 1 \in DOMAIN toClient /\ toClient'[j] = toClient[j + 1]
      BY <1>2
    <3>2. /\ IsResponse(toClient'[i]) /\ IsResponse(toClient'[j]) => i + 1 = j + 1
          /\ toClient'[i].means.last /\ toClient'[j].means.last => i + 1 = j + 1
          /\ IsResponse(toClient'[i]) /\ toClient'[j].means.last => i + 1 < j + 1
      BY <1>5, <3>1 DEF Ordered
    <3>3. QED BY <1>4, <3>2
  <2>2. QED BY <2>1 DEF Ordered
<1>7. ASSUME IsResponse(Head(toClient))
      PROVE  /\ Answered /\ ~Answered' /\ ~Head(toClient).means.last
             /\ Due(Head(toClient), program, server.running, lasts, n)
  <2>1. Answered /\ Due(Head(toClient), program, server.running, lasts, n)
    BY <1>2, <1>7, TurnParts DEF Answered
  <2>2. ~Answered' /\ ~Head(toClient).means.last
    BY <1>2, <1>4, <1>5, <1>7 DEF Ordered, Answered
  <2>3. QED BY <2>1, <2>2
<1>8. ASSUME ~IsResponse(Head(toClient)) PROVE Answered' <=> Answered
  BY <1>2, <1>8 DEF Answered
<1>9. ASSUME Head(toClient).means.last PROVE Underway /\ ~Underway' /\ ~Answered'
  <2>1. Underway
    BY <1>2, <1>9 DEF Underway
  <2>2. ~Underway' /\ ~Answered'
    BY <1>2, <1>4, <1>5, <1>9 DEF Ordered, Answered, Underway
  <2>3. QED BY <2>1, <2>2
<1>10. ASSUME ~Head(toClient).means.last PROVE Underway' <=> Underway
  BY <1>2, <1>10 DEF Underway
<1>11. QED BY <1>2, <1>3, <1>6, <1>7, <1>8, <1>9, <1>10

(* A request is added where nothing is asked.                              *)
LEMMA AskedNow ==
  ASSUME Inv, ~Asked, NEW request, toServer' = Append(toServer, request),
         request.cmd \in Methods \ {"CANCEL_RECOGNITION"}
  PROVE  Asked' /\ LastAsked(toServer') /\ Len(toServer') = Len(toServer) + 1
<1>1. /\ Len(toServer') = Len(toServer) + 1
      /\ Len(toServer) + 1 \in DOMAIN toServer' /\ toServer'[Len(toServer) + 1] = request
      /\ \A i \in DOMAIN toServer : i \in DOMAIN toServer' /\ toServer'[i] = toServer[i]
      /\ \A i \in DOMAIN toServer' : i \in DOMAIN toServer \/ i = Len(toServer) + 1
  BY TurnTypes, AppendOf
<1>2. request.cmd # "SEND_AUDIO" /\ request.cmd # "CANCEL_RECOGNITION"
  BY DEF Methods
<1>3. Asked'
  BY <1>1, <1>2 DEF Asked
<1>4. LastAsked(toServer')
  BY <1>1, <1>2 DEF LastAsked, Asked
<1>5. QED BY <1>1, <1>3, <1>4

(* What the client asks.                                                   *)
LEMMA WhatIsAsked ==
  /\ CreateSession.cmd = "CREATE_SESSION"
  /\ \A c : SetParameters(c).cmd = "SET_PARAMETERS"
  /\ \A lm : StartRecognition(lm).cmd = "START_RECOGNITION"
  /\ \A last : SendAudio(last).cmd = "SEND_AUDIO"
BY DEF CreateSession, SetParameters, StartRecognition, SendAudio, Raw, Message

(* The program's steps.                                                    *)
LEMMA BuildTurn == ASSUME Inv, Turn, Build PROVE Turn'
<1>1. /\ client'.recognizing = client.recognizing /\ client'.audio = client.audio
      /\ UNCHANGED <<program, n, lasts, toServer, toClient, server>>
  BY TurnTypes DEF Build, ClientType, channelVars
<1>2. SameLoud(toClient, toClient') /\ (Asked' <=> Asked)
  BY <1>1 DEF SameLoud, Asked
<1>3. LastAsked(toServer')
  BY <1>1, TurnParts
<1>4. QED BY <1>1, <1>2, <1>3, QuietTurn

LEMMA WaitTurn == ASSUME Inv, Turn, Wait PROVE Turn'
<1>1. /\ client'.recognizing = client.recognizing /\ client'.audio = "none"
      /\ UNCHANGED <<program, n, lasts, toServer, toClient, server>>
  BY TurnTypes DEF Wait, ClientType
<1>2. SameLoud(toClient, toClient') /\ (Asked' <=> Asked)
  BY <1>1 DEF SameLoud, Asked
<1>3. LastAsked(toServer')
  BY <1>1, TurnParts
<1>4. QED BY <1>1, <1>2, <1>3, QuietTurn

(* A recognition begins when nothing is left of the one before.            *)
LEMMA Idle ==
  ASSUME Inv, Turn, ~client.recognizing
  PROVE  lasts = n /\ ~Underway /\ ~Answered /\ ~Asked /\ ~server.running
<1>1. n \in Nat /\ lasts \in Nat
  BY TurnTypes
<1>2. /\ lasts <= n /\ ~(lasts < n) /\ ~Underway
  BY TurnParts DEF TurnCounts
<1>3. QED BY <1>1, <1>2, TurnParts

LEMMA RecognizeTurn == ASSUME Inv, Turn, Recognize, HasNotFailed' PROVE Turn'
<1> DEFINE turn == program.turns[n + 1]
           lm == LanguageModelList(turn.adds)
           begun == [client EXCEPT !.recognizing = TRUE, !.eptr = FALSE,
                                   !.results = <<>>, !.lm = lm,
                                   !.source = turn.source]
<1>0. client \in ClientType /\ n \in Nat /\ lasts \in Nat
  BY TurnTypes
<1>1. /\ ~client.recognizing /\ client.audio = "none"
      /\ UNCHANGED <<program, toClient, lasts, server>>
  BY DEF Recognize
<1>2. lasts = n /\ ~Underway /\ ~Answered /\ ~Asked /\ ~server.running
  BY <1>1, Idle
<1>3. /\ client' = begun /\ n' = n + 1
      /\ Ask(CreateSession) \/ Ask(StartRecognition(lm))
  <2>1. [client EXCEPT !.phase = "raised"].phase = "raised"
        /\ [begun EXCEPT !.phase = "raised"].phase = "raised"
    BY <1>0 DEF ClientType
  <2> HIDE DEF begun
  <2>2. /\ client' # [client EXCEPT !.phase = "raised"]
        /\ client' # [begun EXCEPT !.phase = "raised"]
    BY <2>1 DEF HasNotFailed
  <2>3. QED BY <2>2 DEF Recognize, begun
<1>4. begun.recognizing = TRUE /\ begun.audio = "none"
  BY <1>0, <1>1 DEF ClientType
<1>5. Asked' /\ LastAsked(toServer')
  BY <1>2, <1>3, AskedNow, WhatIsAsked DEF Ask, Methods
<1> HIDE DEF begun, lm, turn
<1>6. ~Underway' /\ ~Answered'
  BY <1>1, <1>2 DEF Underway, Answered
<1>7. TurnCounts'
  BY <1>0, <1>1, <1>2, <1>3, <1>4, <1>6 DEF TurnCounts
<1>8. TurnRequests'
  BY <1>0, <1>1, <1>2, <1>3, <1>4, <1>5, <1>6 DEF TurnRequests, LastAsked
<1>9. TurnAnswers'
  <2>1. \A i \in DOMAIN toClient' : ~IsResponse(toClient'[i])
    BY <1>6 DEF Answered
  <2>2. \A i \in DOMAIN toClient' : ~toClient'[i].means.last
    BY <1>6 DEF Underway
  <2>3. QED BY <1>6, <2>1, <2>2 DEF TurnAnswers
<1>10. QED BY <1>7, <1>8, <1>9 DEF Turn

(* A block, or the last packet.                                            *)
LEMMA AudioTurn == ASSUME Inv, Turn, AudioSend PROVE Turn'
<1>1. /\ client'.recognizing = client.recognizing /\ client.audio = "reading"
      /\ UNCHANGED <<program, n, lasts, toClient, server>>
      /\ \E last : toServer' = Append(toServer, SendAudio(last))
  BY TurnTypes DEF AudioSend, AudioReady, ClientType, Ask
<1>2. ~Asked /\ ~Answered
  BY <1>1, TurnParts
<1>3. \A i \in DOMAIN toServer' : toServer'[i].cmd = "SEND_AUDIO"
  BY <1>1, <1>2, TurnTypes, AppendOf, WhatIsAsked DEF Asked
<1>4. SameLoud(toClient, toClient') /\ ~Asked' /\ LastAsked(toServer')
  BY <1>1, <1>3 DEF SameLoud, Asked, LastAsked
<1>5. n > 0
  BY <1>1, TurnTypes, TurnParts DEF TurnCounts
<1>6. QED BY <1>1, <1>2, <1>4, <1>5, QuietTurn

-----------------------------------------------------------------------------
(* The handlers: of a response, of an end, and of what is neither.         *)

(* A response leaves the recognition open; what follows it is the next     *)
(* request, or the audio.                                                  *)
LEMMA ResponseTurn ==
  ASSUME Inv, Turn, NetStep, HasNotFailed', IsResponse(Head(toClient))
  PROVE  Turn'
<1> DEFINE heard == Parse(Head(toClient).text)
<1>0. /\ client \in ClientType /\ n \in Nat /\ lasts \in Nat
      /\ toClient # <<>> /\ toClient' = Tail(toClient)
      /\ UNCHANGED <<program, n, lasts, server>> /\ heard.cmd = "RESPONSE"
  BY TurnTypes DEF NetStep, NetReady, Parse, IsResponse
<1>1. /\ Ordered(toClient') /\ n > 0 /\ Answered /\ ~Answered'
      /\ Due(Head(toClient), program, server.running, lasts, n)
      /\ ~Head(toClient).means.last
  BY <1>0, Popped
<1>2. (Underway' <=> Underway)
  BY <1>0, <1>1, Popped
<1>3. ~Asked /\ client.recognizing /\ client.audio = "none"
  BY <1>1, TurnParts
<1>4. \/ /\ client' = client /\ lasts < n /\ ~server.running
         /\ \E request : Ask(request) /\ request.cmd \in Methods \ {"CANCEL_RECOGNITION"}
      \/ client' = [client EXCEPT !.audio = "reading"] /\ AskNothing
      \/ client' = [client EXCEPT !.eptr = TRUE] /\ AskNothing
      \/ client' = client /\ AskNothing
  <2>0. /\ ~Answers(heard, "CANCEL_RECOGNITION")
        /\ ~Starts(heard) => lasts < n /\ ~server.running
    BY <1>1 DEF Due
  <2> HIDE DEF heard
  <2>1. client' # [client EXCEPT !.phase = "crashed"]
    BY <1>0 DEF ClientType, HasNotFailed
  <2>2. CASE HandleCreateSession(heard) \/ HandleSetParameters(heard)
    <3>1. ~Starts(heard)
      <4>1. /\ <<"CREATE_SESSION">> # <<"START_RECOGNITION">>
            /\ <<"SET_PARAMETERS">> # <<"START_RECOGNITION">>
        OBVIOUS
      <4>2. QED BY <2>2, <4>1 DEF Starts, Answers, HandleCreateSession, HandleSetParameters
    <3>2. \E request : /\ Ask(request) /\ client' = client
                       /\ request.cmd \in Methods \ {"CANCEL_RECOGNITION"}
      BY <2>1, <2>2, WhatIsAsked
         DEF HandleCreateSession, HandleSetParameters, StartOnNet, Methods
    <3>3. QED BY <2>0, <3>1, <3>2
  <2>3. CASE HandleStart(heard)
    BY <1>3, <2>3 DEF HandleStart
  <2>4. CASE HandleCancel(heard)
    BY <2>0, <2>4 DEF HandleCancel
  <2>5. CASE HandleFailure(heard)
    BY <2>5 DEF HandleFailure
  <2>6. CASE HandleUnknown(heard)
    BY <2>6 DEF HandleUnknown
  <2>7. heard.cmd \notin {"RECOGNITION_RESULT", "START_OF_SPEECH", "END_OF_SPEECH"}
    BY <1>0
  <2>8. QED
    BY <2>2, <2>3, <2>4, <2>5, <2>6, <2>7
       DEF NetStep, heard, HandleSpeech, IsResult, HandleCanceledResult, HandleStatusOnly,
           HandleFinal, HandlePartial
<1> HIDE DEF heard
<1>5. /\ client'.recognizing = client.recognizing
      /\ client'.audio \in {"none", "reading"}
      /\ LastAsked(toServer') /\ (Asked' => lasts < n /\ ~server.running /\ client'.audio = "none")
  <2>1. CASE AskNothing
    <3>1. ~Asked' /\ LastAsked(toServer')
      BY <1>3, <2>1, TurnParts DEF AskNothing, Asked
    <3>2. /\ [client EXCEPT !.audio = "reading"].recognizing = client.recognizing
          /\ [client EXCEPT !.audio = "reading"].audio = "reading"
          /\ [client EXCEPT !.eptr = TRUE].recognizing = client.recognizing
          /\ [client EXCEPT !.eptr = TRUE].audio = client.audio
      BY <1>0 DEF ClientType
    <3>3. client' \in {client, [client EXCEPT !.audio = "reading"], [client EXCEPT !.eptr = TRUE]}
      BY <1>4
    <3>4. QED BY <1>3, <3>1, <3>2, <3>3
  <2>2. CASE /\ client' = client /\ lasts < n /\ ~server.running
             /\ \E request : Ask(request) /\ request.cmd \in Methods \ {"CANCEL_RECOGNITION"}
    BY <1>3, <2>2, AskedNow DEF Ask
  <2>3. QED BY <1>4, <2>1, <2>2
<1>6. TurnCounts'
  BY <1>0, <1>1, <1>2, <1>5, TurnParts DEF TurnCounts
<1>7. TurnRequests'
  BY <1>0, <1>1, <1>3, <1>5, TurnParts DEF TurnRequests, LastAsked
<1>8. TurnAnswers'
  <2>1. \A i \in DOMAIN toClient' : ~IsResponse(toClient'[i])
    BY <1>1 DEF Answered
  <2>2. QED BY <1>1, <2>1 DEF TurnAnswers, Ordered
<1>9. QED BY <1>6, <1>7, <1>8 DEF Turn

(* What is not a response leaves the audio and the requests alone, and     *)
(* ends the recognition exactly if it is meant to.                         *)
LEMMA OthersHeard ==
  ASSUME Inv, NetStep, ~IsResponse(Head(toClient))
  PROVE  /\ client'.audio = client.audio /\ AskNothing /\ client'.phase = client.phase
         /\ client'.eptr = client.eptr /\ client'.source = client.source
         /\ client'.recognizing <=> client.recognizing /\ ~Head(toClient).means.last
<1> DEFINE heard == Parse(Head(toClient).text)
           m == Head(toClient)
<1>0. /\ client \in ClientType /\ toClient # <<>> /\ heard.cmd = m.text.cmd
      /\ heard.cmd # "RESPONSE"
  BY TurnTypes DEF NetStep, NetReady, Parse, IsResponse
<1>1. HeardAsMeant(m) /\ m.means.last \in BOOLEAN
  <2>1. m = toClient[1] /\ 1 \in DOMAIN toClient
    BY <1>0, TurnTypes, TailOf
  <2> HIDE DEF m
  <2>2. QED BY <2>1 DEF Inv, MeaningKept, TypeOK, MeaningType
<1>2. heard.cmd # "RECOGNITION_RESULT" => ~m.means.last
  BY <1>1 DEF HeardAsMeant
<1>3. heard.cmd = "RECOGNITION_RESULT" =>
        (m.means.last <=> \/ StatusOf(heard) = "CANCELED" \/ ~heard.body.json
                          \/ (IsFinal(heard) /\ IsLast(heard)))
  <2> HIDE DEF heard
  <2>1. QED BY <1>1 DEF HeardAsMeant, heard
<1> HIDE DEF heard, m
<1>4. ASSUME NEW ended \in BOOLEAN
      PROVE  /\ Settled(heard, ended).audio = client.audio
             /\ Settled(heard, ended).phase = client.phase
             /\ Settled(heard, ended).eptr = client.eptr
             /\ Settled(heard, ended).source = client.source
             /\ Settled(heard, ended).recognizing <=> client.recognizing /\ ~ended
  BY <1>0 DEF Settled, ClientType
<1>5. ASSUME NEW ended \in BOOLEAN, NEW code
      PROVE  /\ Stored(heard, code, ended).audio = Settled(heard, ended).audio
             /\ Stored(heard, code, ended).phase = Settled(heard, ended).phase
             /\ Stored(heard, code, ended).eptr = Settled(heard, ended).eptr
             /\ Stored(heard, code, ended).source = Settled(heard, ended).source
             /\ Stored(heard, code, ended).recognizing = Settled(heard, ended).recognizing
  BY <1>0 DEF Stored, Settled, ClientType
<1>6. CASE HandleSpeech(heard)
  BY <1>0, <1>2, <1>6 DEF HandleSpeech, m
<1>7. CASE HandleCanceledResult(heard)
  BY <1>3, <1>4, <1>7 DEF HandleCanceledResult, IsResult, m
<1>8. CASE HandleStatusOnly(heard)
  BY <1>3, <1>4, <1>5, <1>8 DEF HandleStatusOnly, IsResult, m
<1>9. CASE HandleFinal(heard)
  <2>1. IsLast(heard) \in BOOLEAN
    BY DEF IsLast
  <2>2. QED BY <1>3, <1>4, <1>5, <1>9, <2>1 DEF HandleFinal, IsResult, m
<1>10. CASE HandlePartial(heard)
  BY <1>3, <1>4, <1>10 DEF HandlePartial, IsResult, m
<1>11. QED
  BY <1>0, <1>6, <1>7, <1>8, <1>9, <1>10
     DEF NetStep, heard, HandleCreateSession, HandleSetParameters, HandleStart, HandleCancel,
         HandleFailure, HandleUnknown, Answers

LEMMA NetTurn == ASSUME Inv, Turn, NetStep, HasNotFailed' PROVE Turn'
<1>0. /\ client \in ClientType /\ n \in Nat /\ lasts \in Nat
      /\ toClient # <<>> /\ toClient' = Tail(toClient)
      /\ UNCHANGED <<program, n, lasts, server>>
  BY TurnTypes DEF NetStep, NetReady
<1>1. CASE IsResponse(Head(toClient))
  BY <1>1, ResponseTurn
<1>2. CASE ~IsResponse(Head(toClient)) /\ ~Head(toClient).means.last
  <2>1. /\ client'.audio = client.audio /\ AskNothing
        /\ client'.recognizing <=> client.recognizing
    BY <1>2, OthersHeard
  <2>2. client'.recognizing = client.recognizing
    <3>1. client' \in ClientType
      BY NetKeeps DEF Inv, TypeOK
    <3>2. QED BY <1>0, <2>1, <3>1 DEF ClientType
  <2>3. /\ Ordered(toClient') /\ n > 0
        /\ (Answered' <=> Answered) /\ (Underway' <=> Underway)
        /\ \A i \in DOMAIN toClient' : i + 1 \in DOMAIN toClient /\ toClient'[i] = toClient[i + 1]
    BY <1>0, <1>2, Popped
  <2>4. (Asked' <=> Asked) /\ LastAsked(toServer')
    BY <2>1, TurnParts DEF AskNothing, Asked
  <2>5. QED BY <1>0, <2>1, <2>2, <2>3, <2>4, SameTurnOpen
<1>3. CASE ~IsResponse(Head(toClient)) /\ Head(toClient).means.last
  <2>1. client'.audio = client.audio /\ AskNothing /\ ~client'.recognizing
    BY <1>3, OthersHeard
  <2>2. /\ Ordered(toClient') /\ n > 0 /\ Underway /\ ~Underway' /\ ~Answered'
    BY <1>0, <1>3, Popped
  <2>3. lasts = n /\ ~Asked /\ ~server.running
    BY <1>0, <2>2, TurnParts DEF TurnCounts
  <2>4. TurnCounts'
    BY <1>0, <2>1, <2>2, <2>3 DEF TurnCounts
  <2>5. TurnRequests'
    BY <1>0, <2>1, <2>3, TurnParts DEF TurnRequests, LastAsked, AskNothing, Asked
  <2>6. TurnAnswers'
    <3>1. \A i \in DOMAIN toClient' : ~IsResponse(toClient'[i]) /\ ~toClient'[i].means.last
      BY <2>2 DEF Answered, Underway
    <3>2. QED BY <2>2, <3>1 DEF TurnAnswers
  <2>7. QED BY <2>4, <2>5, <2>6 DEF Turn
<1>4. QED BY <1>1, <1>2, <1>3

-----------------------------------------------------------------------------
(* A server that takes the oldest request.                                 *)

(* Audio is not answered: what is asked stays where it is.                 *)
LEMMA AudioServed ==
  ASSUME Inv, Turn, Serving, Head(toServer).cmd = "SEND_AUDIO"
  PROVE  n > 0 /\ (Asked' <=> Asked) /\ LastAsked(toServer')
<1>1. /\ n \in Nat /\ n # 0
      /\ toServer # <<>> /\ toServer' = Tail(toServer) /\ toServer \in Seq(Range(toServer))
  BY TurnTypes, TurnParts DEF Serving, TurnCounts
<1>2. /\ Head(toServer) = toServer[1] /\ 1 \in DOMAIN toServer
      /\ Len(toServer') = Len(toServer) - 1 /\ Len(toServer) \in Nat
      /\ DOMAIN toServer = 1 .. Len(toServer) /\ DOMAIN toServer' = 1 .. Len(toServer) - 1
      /\ \A i \in DOMAIN toServer' : i + 1 \in DOMAIN toServer /\ toServer'[i] = toServer[i + 1]
      /\ \A i \in DOMAIN toServer :
           i = 1 \/ (i - 1 \in DOMAIN toServer' /\ toServer'[i - 1] = toServer[i])
  BY <1>1, TailOf
<1>3. Asked' <=> Asked
  BY <1>2 DEF Asked
<1>4. LastAsked(toServer')
  <2>1. LastAsked(toServer)
    BY TurnParts
  <2>2. \A i \in DOMAIN toServer' : i + 1 = Len(toServer) => i = Len(toServer')
    BY <1>2
  <2>3. QED BY <1>2, <2>1, <2>2 DEF LastAsked
<1>5. QED BY <1>1, <1>3, <1>4

(* Another request is the only one, and it is answered now.                *)
LEMMA RequestServed ==
  ASSUME Inv, Turn, Serving, Head(toServer).cmd # "SEND_AUDIO"
  PROVE  /\ toServer' = <<>> /\ Len(toServer) = 1 /\ ~Asked'
         /\ Head(toServer) = toServer[1] /\ 1 \in DOMAIN toServer
         /\ n > 0 /\ Asked /\ lasts < n /\ client.audio = "none" /\ client.recognizing
         /\ ~Answered /\ ~Underway /\ ~server.running
         /\ Head(toServer).cmd \in Methods \ {"CANCEL_RECOGNITION"}
<1>1. /\ n \in Nat /\ lasts \in Nat
      /\ toServer # <<>> /\ toServer' = Tail(toServer) /\ toServer \in Seq(Range(toServer))
      /\ \A i \in DOMAIN toServer : toServer[i].cmd \in Requests
  BY TurnTypes DEF Serving
<1>2. Head(toServer) = toServer[1] /\ 1 \in DOMAIN toServer
  BY <1>1, TailOf
<1>3. Asked /\ Len(toServer) = 1 /\ Head(toServer).cmd # "CANCEL_RECOGNITION"
  BY <1>2, TurnParts DEF Asked, LastAsked
<1>4. toServer' = <<>>
  BY <1>1, <1>3, TailOf
<1>5. ~Asked'
  BY <1>4 DEF Asked
<1>6. lasts < n /\ client.audio = "none" /\ ~Answered /\ ~server.running
  BY <1>3, TurnParts
<1>7. client.recognizing /\ ~Underway
  BY <1>1, <1>6, TurnParts DEF TurnCounts
<1>8. QED BY <1>1, <1>2, <1>3, <1>4, <1>5, <1>6, <1>7 DEF Requests

(* It is answered: by one response, with no result.                        *)
LEMMA AnsweredTurn ==
  ASSUME Inv, Turn, Serving, Head(toServer).cmd # "SEND_AUDIO",
         UNCHANGED <<program, n, client>>, server'.running \in BOOLEAN,
         NEW messages, AllKept(messages), Send(messages),
         NEW k \in DOMAIN messages, IsResponse(messages[k]), ~messages[k].means.last,
         \A i \in DOMAIN messages : Loud(messages[i]) => i = k,
         Due(messages[k], program, server'.running, lasts, n)
  PROVE  Turn' /\ lasts' = lasts /\ Answered'
<1>0. n \in Nat /\ lasts \in Nat /\ AllKept(toClient)
  BY TurnTypes
<1>1. /\ toServer' = <<>> /\ ~Asked' /\ n > 0
      /\ lasts < n /\ client.audio = "none" /\ client.recognizing
      /\ ~Answered /\ ~Underway /\ ~server.running
  BY RequestServed
<1>2. lasts' = lasts
  BY <1>0, <1>1, ResponseSent
<1>3. PICK j \in DOMAIN toClient' :
        /\ toClient'[j] = messages[k]
        /\ \A i \in DOMAIN toClient' : Loud(toClient'[i]) => i = j
  BY <1>0, <1>1, ResponseSent
<1>4. ~Underway' /\ \A i \in DOMAIN toClient' : ~toClient'[i].means.last
  BY <1>3 DEF Loud, Underway
<1>5. TurnCounts'
  BY <1>0, <1>1, <1>2, <1>4, TurnParts DEF TurnCounts
<1>6. TurnRequests'
  BY <1>0, <1>1, <1>2 DEF TurnRequests
<1>7. TurnAnswers'
  <2>1. \A i \in DOMAIN toClient' : IsResponse(toClient'[i]) => i = j
    BY <1>3 DEF Loud
  <2>2. Due(toClient'[j], program', server'.running, lasts', n')
    BY <1>2, <1>3
  <2>3. \A i \in DOMAIN toClient' :
          IsResponse(toClient'[i]) => Due(toClient'[i], program', server'.running, lasts', n')
    BY <2>1, <2>2
  <2>4. QED BY <1>1, <1>4, <2>1, <2>3 DEF TurnAnswers, Due
<1>8. Answered'
  BY <1>3 DEF Answered
<1>9. QED BY <1>2, <1>5, <1>6, <1>7, <1>8 DEF Turn

(* The last result of a recognition is sent.                               *)
LEMMA EndedTurn ==
  ASSUME Inv, Turn, UNCHANGED <<program, n, client>>, lasts < n, ~server'.running,
         server.running \/ ~Answered, LastAsked(toServer'), ~Asked',
         NEW messages, AllKept(messages), Send(messages),
         NEW k \in DOMAIN messages, messages[k].means.last, ~IsResponse(messages[k]),
         \A i \in DOMAIN messages : Loud(messages[i]) => i = k
  PROVE  Turn' /\ lasts' = n
<1>0. n \in Nat /\ lasts \in Nat /\ AllKept(toClient) /\ client \in ClientType
  BY TurnTypes
<1>1. client.recognizing /\ ~Underway /\ n <= lasts + 1 /\ n > 0
  BY <1>0, TurnParts DEF TurnCounts
<1>2. lasts' = n /\ lasts' = lasts + 1
  <2>1. lasts' = lasts + 1
    BY <1>0, <1>1, EndSent
  <2>2. QED BY <1>0, <1>1, <2>1
<1>3. PICK j \in DOMAIN toClient' :
        /\ toClient'[j] = messages[k]
        /\ \A i \in DOMAIN toClient : i \in DOMAIN toClient' /\ toClient'[i] = toClient[i] /\ i < j
        /\ \A i \in DOMAIN toClient' : Loud(toClient'[i]) => i = j \/ i \in DOMAIN toClient
  BY <1>0, <1>1, EndSent
<1>4. /\ Underway'
      /\ \A i \in DOMAIN toClient' : toClient'[i].means.last => i = j
      /\ \A i \in DOMAIN toClient' :
           IsResponse(toClient'[i]) =>
             i \in DOMAIN toClient /\ toClient'[i] = toClient[i] /\ i < j
  BY <1>1, <1>3 DEF Underway, Loud
<1>5. TurnCounts'
  BY <1>0, <1>1, <1>2, <1>4 DEF TurnCounts
<1>6. TurnRequests'
  BY <1>0, <1>2 DEF TurnRequests, LastAsked
<1>7. TurnAnswers'
  <2>1. Answered' => client'.recognizing /\ client'.audio = "none"
    BY <1>4, TurnParts DEF Answered
  <2>2. \A i, l \in DOMAIN toClient' :
          /\ IsResponse(toClient'[i]) /\ IsResponse(toClient'[l]) => i = l
          /\ toClient'[i].means.last /\ toClient'[l].means.last => i = l
          /\ IsResponse(toClient'[i]) /\ toClient'[l].means.last => i < l
    <3>1. Ordered(toClient)
      BY TurnParts
    <3>2. QED BY <1>4, <3>1 DEF Ordered
  <2>3. \A i \in DOMAIN toClient' :
          IsResponse(toClient'[i]) => Due(toClient'[i], program', server'.running, lasts', n')
    <3>1. ASSUME NEW i \in DOMAIN toClient', IsResponse(toClient'[i])
          PROVE  Due(toClient'[i], program', server'.running, lasts', n')
      <4>1. Due(toClient'[i], program, server.running, lasts, n)
        BY <1>4, <3>1, TurnParts
      <4>2. server.running
        BY <1>4, <3>1 DEF Answered
      <4>3. Starts(Parse(toClient'[i].text)) /\ ~Answers(Parse(toClient'[i].text), "CANCEL_RECOGNITION")
        BY <4>1, <4>2 DEF Due
      <4>4. QED BY <1>2, <4>3 DEF Due
    <3>2. QED BY <3>1
  <2>4. QED BY <2>1, <2>2, <2>3 DEF TurnAnswers, Due
<1>8. QED BY <1>2, <1>5, <1>6, <1>7 DEF Turn

-----------------------------------------------------------------------------
(* The servers of the protocol.                                            *)

(* One message or two, each said right.                                    *)
LEMMA SaidAlone ==
  ASSUME NEW m, Kept(m), NEW p
  PROVE  /\ AllKept(<<m>>) /\ 1 \in DOMAIN <<m>> /\ <<m>>[1] = m
         /\ \A i \in DOMAIN <<m>> : i = 1 /\ <<m>>[i] = m
<1>1. \A i \in DOMAIN <<m>> : i = 1
  OBVIOUS
<1>2. 1 \in DOMAIN <<m>> /\ <<m>>[1] = m
  OBVIOUS
<1>3. QED BY <1>1, <1>2, KeptOne

LEMMA AcceptsSaid ==
  ASSUME NEW method \in Methods, NEW p, ~p.mock
  PROVE  Kept(Accepts(method)) /\ SaidRight(Accepts(method), p)
BY AnswerHeard, AcceptsHeard DEF SaidRight, Accepts

LEMMA RefusalsSaid ==
  ASSUME NEW method \in Methods, NEW refusal \in Refusals(method), NEW p, ~p.mock, p.rejects
  PROVE  Kept(refusal) /\ SaidRight(refusal, p)
BY RefusalHeard DEF SaidRight

LEMMA InvalidSaid ==
  ASSUME NEW p, ~p.mock
  PROVE  LET m == Answer("CANCEL_RECOGNITION", "INVALID_ACTION", <<>>)
         IN  Kept(m) /\ SaidRight(m, p)
BY AnswerHeard, InvalidHeard DEF SaidRight

LEMMA ResultSaid ==
  ASSUME NEW m, m.text.cmd = "RECOGNITION_RESULT", NEW p, ~p.mock
  PROVE  SaidRight(m, p) /\ ~IsResponse(m)
BY DEF SaidRight, Fails, Parse, IsResponse

LEMMA SayingIsResult == \A m \in Meanings : Saying(m).cmd = "RECOGNITION_RESULT"
<1>1. ASSUME NEW m \in Meanings PROVE Saying(m).cmd = "RECOGNITION_RESULT"
  <2>1. \A status, session, body : ResultText(status, session, body).cmd = "RECOGNITION_RESULT"
    BY DEF ResultText, Message
  <2>2. m.form \in {"status", "plain", "segment"}
    BY MeaningsAssumption
  <2>3. \E status, session, body : Saying(m) = ResultText(status, session, body)
    <3>1. CASE m.form = "status"
      BY <3>1 DEF Saying
    <3>2. CASE m.form = "plain"
      BY <3>2 DEF Saying
    <3>3. CASE m.form = "segment"
      BY <3>3 DEF Saying
    <3>4. QED BY <2>2, <3>1, <3>2, <3>3
  <2>4. QED BY <2>1, <2>3
<1>2. QED BY <1>1

LEMMA ServerAnswerSays ==
  ASSUME Inv, ServersSay, ~program.mock, program' = program, NEW method, ServerAnswer(method)
  PROVE  ServersSay'
<1>1. method \in Methods /\ AllKept(toClient)
  BY TurnTypes DEF ServerAnswer
<1>2. PICK m : Kept(m) /\ SaidRight(m, program) /\ Send(<<m>>)
  BY <1>1, AcceptsSaid, RefusalsSaid DEF ServerAnswer
<1>3. QED BY <1>1, <1>2, SaidAlone, SentSays

LEMMA ServerCancelSays ==
  ASSUME Inv, ServersSay, ~program.mock, program' = program, NEW method, ServerCancel(method)
  PROVE  ServersSay'
<1>1. method \in Methods /\ AllKept(toClient) /\ method = "CANCEL_RECOGNITION"
  BY TurnTypes DEF ServerCancel, Methods
<1> DEFINE invalid == Answer("CANCEL_RECOGNITION", "INVALID_ACTION", <<>>)
<1>2. Kept(invalid) /\ SaidRight(invalid, program)
  BY InvalidSaid
<1>3. Kept(Accepts(method)) /\ SaidRight(Accepts(method), program)
  BY <1>1, AcceptsSaid
<1>4. Kept(Canceled) /\ SaidRight(Canceled, program)
  <2>1. Canceled.text.cmd = "RECOGNITION_RESULT"
    BY DEF Canceled, ResultText, Message
  <2>2. QED BY <2>1, CanceledHeard, ResultSaid
<1>5. \/ Send(<<Accepts(method)>>) \/ Send(<<Accepts(method), Canceled>>) \/ Send(<<invalid>>)
  BY <1>1 DEF ServerCancel
<1> HIDE DEF invalid
<1>6. CASE Send(<<Accepts(method)>>)
  BY <1>1, <1>3, <1>6, SaidAlone, SentSays
<1>7. CASE Send(<<invalid>>)
  BY <1>1, <1>2, <1>7, SaidAlone, SentSays
<1>8. CASE Send(<<Accepts(method), Canceled>>)
  <2> DEFINE a == Accepts(method)
             both == <<a, Canceled>>
  <2>1. AllKept(both)
    BY <1>3, <1>4, KeptSome
  <2>2. \A i \in DOMAIN both : both[i] = a \/ both[i] = Canceled
    <3> HIDE DEF a
    <3>1. QED OBVIOUS
  <2>3. \A i \in DOMAIN both : SaidRight(both[i], program)
    BY <1>3, <1>4, <2>2
  <2>4. Send(both)
    BY <1>8
  <2> HIDE DEF both
  <2>5. QED BY <1>1, <2>1, <2>3, <2>4, SentSays
<1>9. QED BY <1>5, <1>6, <1>7, <1>8

(* What a server says unasked.                                             *)
LEMMA ServerSpeaksSaid ==
  ASSUME ServerSpeaks
  PROVE  \E m : /\ Kept(m) /\ ~Loud(m) /\ Send(<<m>>)
                /\ \A p : SaidRight(m, p)
<1>1. PICK cmd \in {"START_OF_SPEECH", "END_OF_SPEECH"} :
        Send(<<Says(Message(cmd, <<>>, NoBody))>>)
  BY DEF ServerSpeaks
<1> DEFINE text == Message(cmd, <<>>, NoBody)
<1>2. text.cmd \notin {"RESPONSE", "RECOGNITION_RESULT"}
  BY DEF Message
<1>3. Send(<<Says(text)>>)
  BY <1>1
<1> HIDE DEF text
<1>4. QED BY <1>2, <1>3, SpeechSaid

LEMMA ServerResultSaid ==
  ASSUME ServerResult, ~program.mock
  PROVE  \E m : /\ Kept(m) /\ SaidRight(m, program) /\ ~IsResponse(m) /\ Send(<<m>>)
                /\ m.means.last \in BOOLEAN
                /\ server' = IF m.means.last THEN [server EXCEPT !.running = FALSE]
                             ELSE [server EXCEPT !.results = @ + 1]
<1>1. PICK m \in Meanings :
        /\ Send(<<[text |-> Saying(m), means |-> Meaning(m.final, m.last, m.status)]>>)
        /\ server' = IF m.last THEN [server EXCEPT !.running = FALSE]
                     ELSE [server EXCEPT !.results = @ + 1]
  BY DEF ServerResult
<1> DEFINE message == [text |-> Saying(m), means |-> Meaning(m.final, m.last, m.status)]
<1>2. /\ Kept(message) /\ Send(<<message>>)
      /\ message.text.cmd = "RECOGNITION_RESULT" /\ message.means.last = m.last
  BY <1>1, SayingHeard, SayingIsResult DEF Meaning
<1>3. m.last \in BOOLEAN
  BY MeaningsAssumption
<1> HIDE DEF message
<1>4. SaidRight(message, program) /\ ~IsResponse(message)
  BY <1>2, ResultSaid
<1>5. QED BY <1>1, <1>2, <1>3, <1>4

LEMMA ServersTurnSays == ASSUME Inv, ServersSay, ServersTurn PROVE ServersSay'
<1>1. program' = program /\ ~program.mock /\ AllKept(toClient) /\ lasts \in Nat
  BY TurnTypes DEF ServersTurn, clientVars
<1> DEFINE method == Head(toServer).cmd
<1>2. CASE ServerAnswer(method)
  BY <1>1, <1>2, ServerAnswerSays
<1>3. CASE ServerCancel(method)
  BY <1>1, <1>3, ServerCancelSays
<1>4. CASE ServerAudio(method)
  <2>1. Send(<<>>) /\ AllKept(<<>>)
    BY <1>4, KeptNone DEF ServerAudio
  <2>2. \A i \in DOMAIN <<>> : FALSE
    OBVIOUS
  <2>3. QED BY <1>1, <2>1, <2>2, SentSays
<1>5. CASE ServerSpeaks
  <2>1. PICK m : /\ Kept(m) /\ ~Loud(m) /\ Send(<<m>>)
                 /\ \A p : SaidRight(m, p)
    BY <1>5, ServerSpeaksSaid
  <2>2. QED BY <1>1, <2>1, SaidAlone, SentSays
<1>6. CASE ServerResult
  BY <1>1, <1>6, ServerResultSaid, SaidAlone, SentSays
<1>7. QED BY <1>2, <1>3, <1>4, <1>5, <1>6 DEF ServersTurn, ServerStep

(* What they make of a turn.                                               *)
LEMMA ServerAnswerTurn ==
  ASSUME Inv, Turn, Serving, UNCHANGED <<program, n, client>>,
         ServerAnswer(Head(toServer).cmd)
  PROVE  Turn'
<1> DEFINE method == Head(toServer).cmd
<1>0. /\ method \in Methods /\ method # "CANCEL_RECOGNITION" /\ method # "SEND_AUDIO"
      /\ server.running \in BOOLEAN
  BY TurnTypes DEF ServerAnswer, Methods
<1>1. lasts < n /\ ~server.running
  BY <1>0, RequestServed
<1>2. CASE /\ Send(<<Accepts(method)>>)
           /\ server' = [running |-> server.running \/ method = "START_RECOGNITION",
                         results |-> IF method = "START_RECOGNITION" THEN 0
                                     ELSE server.results]
  <2> DEFINE heard == Parse(Accepts(method).text)
  <2>1. /\ Succeeds(heard, method)
        /\ \A other : Answers(heard, other) => other = method
        /\ IsResponse(Accepts(method)) /\ ~Accepts(method).means.last
        /\ Kept(Accepts(method))
    BY <1>0, AcceptsHeard, AnswerQueued, AnswerHeard DEF Accepts
  <2>2. server'.running <=> method = "START_RECOGNITION"
    BY <1>1, <1>2
  <2>3. server'.running \in BOOLEAN
    BY <1>0, <1>2
  <2> HIDE DEF heard, method
  <2>4. Starts(heard) <=> method = "START_RECOGNITION"
    BY <2>1 DEF Starts, Succeeds
  <2>5. Due(Accepts(method), program, server'.running, lasts, n)
    BY <1>0, <1>1, <2>1, <2>2, <2>4 DEF Due, heard
  <2>6. Send(<<Accepts(method)>>) /\ Head(toServer).cmd # "SEND_AUDIO"
    BY <1>0, <1>2 DEF method
  <2>7. QED
    BY <2>1, <2>3, <2>5, <2>6, SaidAlone, AnsweredTurn
<1>3. CASE UNCHANGED server /\ \E refusal \in Refusals(method) : Send(<<refusal>>)
  <2>1. PICK refusal \in Refusals(method) : Send(<<refusal>>)
    BY <1>3
  <2>2. /\ ~Succeeded(Parse(refusal.text))
        /\ \A other : Answers(Parse(refusal.text), other) => other = method
        /\ IsResponse(refusal) /\ ~refusal.means.last /\ Kept(refusal)
    BY <1>0, RefusalSaid, RefusalHeard
  <2>3. Due(refusal, program, server'.running, lasts, n)
    BY <1>0, <1>1, <1>3, <2>2 DEF Due, Starts
  <2> HIDE DEF method
  <2>4. Head(toServer).cmd # "SEND_AUDIO" /\ server'.running \in BOOLEAN
    BY <1>0, <1>3 DEF method
  <2>5. QED
    BY <2>1, <2>2, <2>3, <2>4, SaidAlone, AnsweredTurn
<1>4. QED BY <1>2, <1>3 DEF ServerAnswer

LEMMA ServersTurnTurn == ASSUME Inv, Turn, ServersTurn PROVE Turn'
<1> DEFINE method == Head(toServer).cmd
<1>1. /\ UNCHANGED <<program, n, client>> /\ ~program.mock /\ AllKept(toClient)
      /\ lasts \in Nat /\ n \in Nat /\ server \in [running : BOOLEAN, results : 0 .. MaxResults]
  BY TurnTypes DEF ServersTurn, clientVars, Inv, TypeOK
<1>2. CASE Serving /\ ServerAnswer(method)
  BY <1>1, <1>2, ServerAnswerTurn
<1>3. CASE Serving /\ ServerCancel(method)
  <2>1. method = "CANCEL_RECOGNITION" /\ method # "SEND_AUDIO"
    BY <1>3 DEF ServerCancel
  <2>2. QED BY <1>3, <2>1, RequestServed
<1>4. CASE Serving /\ ServerAudio(method)
  <2>1. Send(<<>>) /\ AllKept(<<>>) /\ method = "SEND_AUDIO" /\ server' = server
    BY <1>4, KeptNone DEF ServerAudio
  <2>2. \A i \in DOMAIN <<>> : FALSE
    OBVIOUS
  <2>3. lasts' = lasts /\ SameLoud(toClient, toClient')
    BY <1>1, <2>1, <2>2, QuietSent
  <2>4. n > 0 /\ (Asked' <=> Asked) /\ LastAsked(toServer')
    BY <1>4, <2>1, AudioServed
  <2>5. QED BY <1>1, <2>1, <2>3, <2>4, QuietTurn
<1>5. CASE ServerSpeaks
  <2>1. PICK m : Kept(m) /\ ~Loud(m) /\ Send(<<m>>)
    BY <1>5, ServerSpeaksSaid
  <2>2. lasts' = lasts /\ SameLoud(toClient, toClient')
    BY <1>1, <2>1, SaidAlone, QuietSent
  <2>3. UNCHANGED <<server, toServer>> /\ server.running
    BY <1>5 DEF ServerSpeaks
  <2>4. n > 0 /\ (Asked' <=> Asked) /\ LastAsked(toServer')
    BY <1>1, <2>3, TurnParts DEF Asked
  <2>5. QED BY <1>1, <2>2, <2>3, <2>4, QuietTurn
<1>6. CASE ServerResult
  <2>1. PICK m : /\ Kept(m) /\ ~IsResponse(m) /\ Send(<<m>>)
                 /\ m.means.last \in BOOLEAN
                 /\ server' = IF m.means.last THEN [server EXCEPT !.running = FALSE]
                              ELSE [server EXCEPT !.results = @ + 1]
    BY <1>1, <1>6, ServerResultSaid
  <2>2. toServer' = toServer /\ server.running
    BY <1>6 DEF ServerResult
  <2>3. lasts < n /\ n > 0 /\ ~Asked' /\ LastAsked(toServer') /\ ~Asked
    BY <1>1, <2>2, TurnParts DEF Asked
  <2>4. CASE m.means.last
    <3>1. ~server'.running
      BY <1>1, <2>1, <2>4
    <3>2. QED BY <1>1, <2>1, <2>2, <2>3, <2>4, <3>1, SaidAlone, EndedTurn DEF Loud
  <2>5. CASE ~m.means.last
    <3>1. server'.running = server.running
      BY <1>1, <2>1, <2>5
    <3>2. lasts' = lasts /\ SameLoud(toClient, toClient')
      BY <1>1, <2>1, <2>5, SaidAlone, QuietSent DEF Loud
    <3>3. QED BY <1>1, <2>3, <3>1, <3>2, QuietTurn
  <2>6. QED BY <2>1, <2>4, <2>5
<1>7. QED BY <1>2, <1>3, <1>4, <1>5, <1>6 DEF ServersTurn, ServerStep

-----------------------------------------------------------------------------
(* The mock.                                                               *)

MockCounts ==
  /\ ~server.running
  /\ client.idle => n > 0
  /\ IF lasts = n THEN MockFinished ELSE MockUnderway

(* What it sends when a request is answered, and when audio is counted.    *)
LEMMA AnswerThen ==
  ASSUME NEW cmd \in Methods, NEW status, IsWord(status), NEW t, NEW p,
         OnlySpeech(t) \/ OnlyEnd(t)
  PROVE  LET messages == <<MockResponse(cmd, status)>> \o t
         IN  /\ AllKept(messages) /\ \A i \in DOMAIN messages : SaidRight(messages[i], p)
             /\ 1 \in DOMAIN messages /\ messages[1] = MockResponse(cmd, status)
             /\ OnlySpeech(t) => \A i \in DOMAIN messages : Loud(messages[i]) => i = 1
<1> DEFINE r == MockResponse(cmd, status)
           s == <<r>>
           messages == s \o t
<1>1. Kept(r) /\ SaidRight(r, p)
  <2>1. /\ r.text.cmd = "RESPONSE" /\ Succeeds(Parse(r.text), cmd) /\ ~Fails(Parse(r.text))
    BY MockResponseHeard
  <2>2. Kept(r)
    <3>1. Raw("RESPONSE",
           <<Header("Error-Code", <<"000">>), Header("Handle", <<"handle", Space>>),
             Header("Message", <<"success">>), Header("Method", <<cmd>>),
             Header("Result", <<"SUCCESS", Space>>),
             Header("Session-Status", <<status>>)>>).cmd = "RESPONSE"
      BY DEF Raw, Message
    <3>2. QED BY <3>1, OtherHeard DEF MockResponse
  <2> HIDE DEF r
  <2>3. QED BY <2>1, <2>2 DEF SaidRight
<1> HIDE DEF r
<1>2. AllKept(s) /\ 1 \in DOMAIN s /\ s[1] = r /\ \A i \in DOMAIN s : i = 1 /\ s[i] = r
  BY <1>1, SaidAlone
<1>3. AllKept(t) /\ \A i \in DOMAIN t : SaidRight(t[i], p)
  BY SpeechIsQuiet, EndIsLoud DEF OnlySpeech, OnlyEnd
<1> HIDE DEF s
<1>4. /\ AllKept(messages)
      /\ \A i \in DOMAIN s : i \in DOMAIN messages /\ messages[i] = s[i]
      /\ \A i \in DOMAIN messages :
           i \in DOMAIN s \/ (i - Len(s) \in DOMAIN t /\ messages[i] = t[i - Len(s)])
  BY <1>2, <1>3, KeptBoth, ConcatOf
<1> HIDE DEF messages
<1>5. \A i \in DOMAIN messages : SaidRight(messages[i], p)
  BY <1>1, <1>2, <1>3, <1>4
<1>6. OnlySpeech(t) => \A i \in DOMAIN messages : Loud(messages[i]) => i = 1
  BY <1>2, <1>4, SpeechIsQuiet
<1>7. 1 \in DOMAIN messages /\ messages[1] = r
  BY <1>2, <1>4
<1>8. QED BY <1>4, <1>5, <1>6, <1>7 DEF messages, s, r

MockSaid(messages, p) ==
  AllKept(messages) /\ \A i \in DOMAIN messages : SaidRight(messages[i], p)

(* A request is answered with the counter where it was, but for the first. *)
Restarted(cmd) == IF cmd = "CREATE_SESSION" THEN 0 ELSE mock.counter
LEMMA MockAnswered ==
  ASSUME Inv, NEW cmd \in Methods, NEW request, request.cmd = cmd, MockAnswer(request)
  PROVE  /\ mock'.counter = Stopped(Restarted(cmd))
         /\ \E messages :
              /\ MockSaid(messages, program) /\ Send(messages)
              /\ Restarted(cmd) # END_RECOGNIZE =>
                   /\ 1 \in DOMAIN messages /\ IsResponse(messages[1])
                   /\ ~messages[1].means.last
                   /\ \A i \in DOMAIN messages : Loud(messages[i]) => i = 1
                   /\ \A other : Answers(Parse(messages[1].text), other) => other = cmd
<1> DEFINE status == IF cmd = "START_RECOGNITION" THEN "LISTENING" ELSE mock.status
           counter == IF cmd \in {"CREATE_SESSION", "RELEASE_SESSION"} THEN 0
                      ELSE mock.counter
           t == ByCounter(counter)
           messages == <<MockResponse(cmd, status)>> \o t
<1>1. cmd # "RELEASE_SESSION" /\ counter = Restarted(cmd)
  BY DEF Methods, Restarted
<1>2. IsWord(status)
  <2>1. mock.status \in {"IDLE", "LISTENING"}
    BY DEF Inv, TypeOK
  <2>2. status \in {"IDLE", "LISTENING"}
    BY <2>1
  <2> HIDE DEF status
  <2>3. QED BY <2>2 DEF IsWord, Space, Illegal
<1>3. mock'.counter = Stopped(counter) /\ Send(messages)
  BY DEF MockAnswer
<1> HIDE DEF status, counter
<1>4. IF counter = END_RECOGNIZE THEN OnlyEnd(t) ELSE OnlySpeech(t)
  BY CounterSays
<1> HIDE DEF t
<1>5. /\ MockSaid(messages, program)
      /\ 1 \in DOMAIN messages /\ messages[1] = MockResponse(cmd, status)
      /\ OnlySpeech(t) => \A i \in DOMAIN messages : Loud(messages[i]) => i = 1
  BY <1>2, <1>4, AnswerThen DEF MockSaid
<1> HIDE DEF messages
<1>6. /\ IsResponse(messages[1]) /\ ~messages[1].means.last
      /\ \A other : Answers(Parse(messages[1].text), other) => other = cmd
  BY <1>2, <1>5, MockResponseHeard
<1>7. QED BY <1>1, <1>3, <1>4, <1>5, <1>6

(* Audio is counted, and the last packet is the last one counted.          *)
IsLastPacket(request) == Get(request, "LastPacket") = <<"true">>
Counted(request) ==
  IF IsLastPacket(request) THEN END_RECOGNIZE
  ELSE IF mock.counter < END_RECOGNIZE THEN mock.counter + 1 ELSE mock.counter
LEMMA MockCounted ==
  ASSUME Inv, NEW request, MockAudio(request)
  PROVE  /\ mock'.counter = Stopped(Counted(request))
         /\ \E messages :
              /\ MockSaid(messages, program) /\ Send(messages)
              /\ IF Counted(request) = END_RECOGNIZE THEN OnlyEnd(messages)
                 ELSE OnlySpeech(messages)
<1> DEFINE s == IF IsLastPacket(request) THEN <<StartOfSpeech>> ELSE <<>>
           t == ByCounter(Counted(request))
           messages == s \o t
<1>1. mock'.counter = Stopped(Counted(request)) /\ Send(messages)
  BY DEF MockAudio, Counted, IsLastPacket
<1>2. OnlySpeech(s)
  BY OneOrNone DEF IsLastPacket
<1>3. IF Counted(request) = END_RECOGNIZE THEN OnlyEnd(t) ELSE OnlySpeech(t)
  BY CounterSays
<1> HIDE DEF s, t
<1>4. IF Counted(request) = END_RECOGNIZE THEN OnlyEnd(messages) ELSE OnlySpeech(messages)
  BY <1>2, <1>3, SpeechBefore, NotBoth
<1> HIDE DEF messages
<1>5. MockSaid(messages, program)
  BY <1>4, SpeechIsQuiet, EndIsLoud DEF MockSaid, OnlySpeech, OnlyEnd
<1>6. QED BY <1>1, <1>4, <1>5

LEMMA RequestRead == \A request : Parse(request).cmd = request.cmd
BY DEF Parse

LEMMA MocksTurnSays == ASSUME Inv, ServersSay, MocksTurn PROVE ServersSay'
<1>1. /\ program' = program /\ AllKept(toClient)
      /\ toServer # <<>> /\ toServer \in Seq(Range(toServer))
      /\ \A i \in DOMAIN toServer : toServer[i].cmd \in Requests
  BY TurnTypes DEF MocksTurn, MockStep, Serving, clientVars
<1> DEFINE request == Parse(Head(toServer))
<1>2. request.cmd \in Requests
  <2>1. Head(toServer) = toServer[1] /\ 1 \in DOMAIN toServer
    BY <1>1, TailOf
  <2>2. QED BY <1>1, <2>1, RequestRead
<1> HIDE DEF request
<1>3. CASE MockAnswer(request)
  <2>1. request.cmd \in Methods
    BY <1>2, <1>3 DEF MockAnswer, Requests
  <2>2. PICK messages : MockSaid(messages, program) /\ Send(messages)
    BY <1>3, <2>1, MockAnswered
  <2>3. QED BY <1>1, <2>2, SentSays DEF MockSaid
<1>4. CASE MockAudio(request)
  <2>1. PICK messages : MockSaid(messages, program) /\ Send(messages)
    BY <1>4, MockCounted
  <2>2. QED BY <1>1, <2>1, SentSays DEF MockSaid
<1>5. QED BY <1>3, <1>4 DEF MocksTurn, MockStep, request

(* The blocks left in the file that is read.                               *)
Left == files[client.source]
LEMMA FileTyped ==
  ASSUME Inv, HasNotFailed, ClientSays, FilesLeft, n > 0
  PROVE  /\ Left \in Nat /\ client.source \in DOMAIN files
         /\ client.phase = "open" /\ (Short => Left < END_RECOGNIZE)
<1>1. client.phase = "open" /\ n \in Nat /\ n <= Len(program.turns) /\ Len(program.turns) \in Nat
  BY TurnTypes DEF HasNotFailed, ClientSays
<1>2. client.source = program.turns[n].source
  BY <1>1 DEF ClientSays
<1>3. n \in 1 .. Len(program.turns)
  BY <1>1
<1>4. client.source \in DOMAIN program.files /\ program.files \in Seq(Nat)
  BY <1>2, <1>3, Turns
<1>5. client.source \in DOMAIN files /\ Left \in Nat /\ Left <= program.files[client.source]
  BY <1>4 DEF FilesLeft, Left
<1>6. Short => Left < END_RECOGNIZE
  <2>1. program.files[client.source] \in Nat
    BY <1>4
  <2>2. Short => program.files[client.source] < END_RECOGNIZE
    BY <1>4 DEF Short
  <2>3. QED BY <1>5, <2>1, <2>2, MockAssumption
<1>7. QED BY <1>1, <1>5, <1>6

(* The counter's part of the invariant, where nothing else is to be said.  *)
Count(counter, left, packets) ==
  counter = END_RECOGNIZE + 1 \/ counter + left + packets <= END_RECOGNIZE

LEMMA Underneath ==
  ASSUME Inv, Turn, MockCounts, lasts # n
  PROVE  /\ MockUnderway /\ lasts < n /\ client.recognizing /\ n > 0
         /\ mock.counter \in Nat /\ Len(toServer) \in Nat
         /\ ~(\E i \in DOMAIN toServer : toServer[i].cmd = "CREATE_SESSION")
              => Count(mock.counter, Left, Packets)
<1>1. lasts < n /\ client.recognizing /\ n > 0
  BY TurnTypes, TurnParts DEF TurnCounts
<1>2. mock.counter \in Nat
  BY MockAssumption DEF Inv, TypeOK
<1>3. Len(toServer) \in Nat
  BY TurnTypes
<1>4. QED BY <1>1, <1>2, <1>3 DEF MockCounts, MockUnderway, Count, Left

(* A request is answered.                                                  *)
LEMMA MockAnswerTurn ==
  ASSUME Inv, Turn, MockCounts, HasNotFailed, ClientSays, FilesLeft, Short, program.mock,
         Serving, UNCHANGED <<clientVars, server>>, MockAnswer(Parse(Head(toServer)))
  PROVE  Turn' /\ MockCounts'
<1> DEFINE request == Parse(Head(toServer))
           cmd == request.cmd
<1>0. /\ UNCHANGED <<program, n, client, files, server>> /\ n \in Nat /\ lasts \in Nat
      /\ AllKept(toClient) /\ cmd # "SEND_AUDIO" /\ cmd = Head(toServer).cmd
  BY TurnTypes, RequestRead DEF clientVars, MockAnswer
<1>1. /\ toServer' = <<>> /\ Len(toServer) = 1 /\ ~Asked'
      /\ Head(toServer) = toServer[1] /\ 1 \in DOMAIN toServer
      /\ n > 0 /\ Asked /\ lasts < n /\ client.audio = "none"
      /\ ~Answered /\ ~server.running
      /\ cmd \in Methods \ {"CANCEL_RECOGNITION"}
  BY <1>0, RequestServed
<1>2. MockUnderway /\ mock.counter \in Nat /\ lasts # n
  BY <1>0, <1>1, Underneath
<1>3. Left \in Nat /\ Left < END_RECOGNIZE
  BY <1>1, FileTyped
<1>4. Count(Restarted(cmd), Left, 1) /\ Restarted(cmd) \in Nat
  <2>1. CASE cmd = "CREATE_SESSION"
    BY <1>3, <2>1, MockAssumption DEF Count, Restarted
  <2>2. CASE cmd # "CREATE_SESSION"
    <3>1. ~(\E i \in DOMAIN toServer : toServer[i].cmd = "CREATE_SESSION")
      <4>1. \A i \in DOMAIN toServer : i = 1
        BY <1>1, TurnTypes
      <4>2. QED BY <1>0, <1>1, <2>2, <4>1
    <3>2. Packets = 1
      BY <1>1 DEF Packets
    <3>3. QED BY <1>2, <2>2, <3>1, <3>2, Underneath DEF Restarted
  <2>3. QED BY <2>1, <2>2
<1>5. Restarted(cmd) # END_RECOGNIZE /\ Stopped(Restarted(cmd)) = Restarted(cmd)
  BY <1>3, <1>4, MockAssumption DEF Count, Stopped
<1> HIDE DEF request
<1>6. mock'.counter = Restarted(cmd)
  BY <1>1, <1>5, MockAnswered DEF request
<1>7. PICK messages :
        /\ AllKept(messages) /\ Send(messages)
        /\ 1 \in DOMAIN messages /\ IsResponse(messages[1])
        /\ ~messages[1].means.last
        /\ \A i \in DOMAIN messages : Loud(messages[i]) => i = 1
        /\ \A other : Answers(Parse(messages[1].text), other) => other = cmd
  BY <1>1, <1>5, MockAnswered DEF request, MockSaid
<1>8. Due(messages[1], program, server'.running, lasts, n)
  BY <1>0, <1>1, <1>7 DEF Due
<1>9. Turn' /\ lasts' = lasts /\ Answered'
  <2>1. server'.running \in BOOLEAN
    BY <1>0, TurnTypes
  <2>2. QED BY <1>0, <1>7, <1>8, <2>1, AnsweredTurn
<1>10. Packets' = 1 /\ Left' = Left
  BY <1>0, <1>1 DEF Packets, Left
<1>11. MockUnderway'
  <2>1. /\ client'.results = <<>> /\ ~client'.eptr /\ client'.audio = "none"
        /\ \A i \in DOMAIN toServer' : FALSE
    BY <1>0, <1>1, <1>2 DEF MockUnderway
  <2>2. mock'.counter = END_RECOGNIZE + 1
        \/ mock'.counter + files'[client'.source] + Packets' <= END_RECOGNIZE
    BY <1>0, <1>4, <1>6, <1>10 DEF Count, Left
  <2>3. QED BY <1>1, <1>9, <2>1, <2>2 DEF MockUnderway
<1>12. client.idle => n > 0
  BY <1>1
<1>13. QED BY <1>0, <1>1, <1>2, <1>9, <1>11, <1>12 DEF MockCounts

(* The last packet ends the recognition, and another is one of many.       *)
LEMMA MockAudioBegins ==
  ASSUME Inv, Turn, MockCounts, Serving, Head(toServer).cmd = "SEND_AUDIO"
  PROVE  /\ lasts < n /\ lasts # n /\ ~Asked /\ ~Answered /\ MockUnderway
         /\ toServer # <<>> /\ toServer' = Tail(toServer) /\ toServer \in Seq(Range(toServer))
         /\ ~(\E i \in DOMAIN toServer : toServer[i].cmd = "CREATE_SESSION")
         /\ IsLastPacket(Parse(Head(toServer))) <=> client.audio = "done" /\ Len(toServer) = 1
         /\ 1 \in DOMAIN toServer /\ Head(toServer) = toServer[1]
         /\ client.audio \in {"reading", "done"}
<1>1. /\ toServer # <<>> /\ toServer' = Tail(toServer) /\ toServer \in Seq(Range(toServer))
      /\ client \in ClientType
  BY TurnTypes DEF Serving
<1>2. 1 \in DOMAIN toServer /\ Head(toServer) = toServer[1]
  BY <1>1, TailOf
<1>3. lasts # n
  BY <1>1 DEF MockCounts, MockFinished
<1>4. lasts < n /\ MockUnderway
  BY <1>3, Underneath
<1>5. ~Answered
  BY <1>1, <1>4 DEF MockUnderway
<1>6. ~Asked
  <2>1. ASSUME Asked PROVE FALSE
    <3>1. Len(toServer) = 1
      BY <1>4, <2>1 DEF MockUnderway
    <3>2. PICK i \in DOMAIN toServer : toServer[i].cmd # "SEND_AUDIO"
      BY <2>1 DEF Asked
    <3>3. i = 1
      BY <1>1, <3>1
    <3>4. QED BY <1>2, <3>2, <3>3
  <2>2. QED BY <2>1
<1>7. IsLastPacket(Parse(Head(toServer))) <=> client.audio = "done" /\ Len(toServer) = 1
  BY <1>2, <1>4 DEF MockUnderway, IsLastPacket
<1>8. client.audio \in {"reading", "done"}
  BY <1>1, <1>4, <1>5, <1>6 DEF MockUnderway, ClientType
<1>9. ~(\E i \in DOMAIN toServer : toServer[i].cmd = "CREATE_SESSION")
  BY <1>6 DEF Asked
<1>10. QED BY <1>1, <1>2, <1>3, <1>4, <1>5, <1>6, <1>7, <1>8, <1>9

LEMMA MockLastTurn ==
  ASSUME Inv, Turn, MockCounts, program.mock, Serving, UNCHANGED <<clientVars, server>>,
         MockAudio(Parse(Head(toServer))), IsLastPacket(Parse(Head(toServer)))
  PROVE  Turn' /\ MockCounts'
<1> DEFINE request == Parse(Head(toServer))
<1>0. /\ UNCHANGED <<program, n, client, files, server>> /\ n \in Nat /\ lasts \in Nat
      /\ AllKept(toClient) /\ Head(toServer).cmd = "SEND_AUDIO"
  BY TurnTypes, RequestRead DEF clientVars, MockAudio
<1>1. /\ lasts < n /\ ~Asked /\ ~Answered /\ client.audio = "done" /\ Len(toServer) = 1
      /\ toServer # <<>> /\ toServer' = Tail(toServer) /\ toServer \in Seq(Range(toServer))
  BY <1>0, MockAudioBegins
<1>2. toServer' = <<>>
  BY <1>1, TailOf
<1> HIDE DEF request
<1>3. Counted(request) = END_RECOGNIZE
  BY DEF Counted, request
<1>4. mock'.counter = END_RECOGNIZE + 1
  BY <1>3, MockCounted DEF Stopped, request
<1>5. PICK messages : AllKept(messages) /\ Send(messages) /\ OnlyEnd(messages)
  BY <1>3, MockCounted DEF MockSaid, request
<1>6. PICK k \in DOMAIN messages :
        /\ messages[k].means.last /\ ~IsResponse(messages[k])
        /\ \A i \in DOMAIN messages : Loud(messages[i]) => i = k
  BY <1>5, EndIsLoud
<1>7. ~Asked' /\ LastAsked(toServer')
  BY <1>2 DEF Asked, LastAsked
<1>8. ~server'.running
  BY <1>0 DEF MockCounts
<1>9. Turn' /\ lasts' = n
  BY <1>0, <1>1, <1>5, <1>6, <1>7, <1>8, EndedTurn
<1>10. ~Answered'
  BY <1>0, <1>1, <1>9 DEF Turn, TurnAnswers
<1>11. MockFinished'
  BY <1>0, <1>1, <1>2, <1>4, <1>10 DEF MockFinished
<1>12. QED BY <1>0, <1>8, <1>9, <1>11 DEF MockCounts

LEMMA MockPacketTurn ==
  ASSUME Inv, Turn, MockCounts, HasNotFailed, ClientSays, FilesLeft, program.mock,
         Serving, UNCHANGED <<clientVars, server>>,
         MockAudio(Parse(Head(toServer))), ~IsLastPacket(Parse(Head(toServer)))
  PROVE  Turn' /\ MockCounts'
<1> DEFINE request == Parse(Head(toServer))
<1>0. /\ UNCHANGED <<program, n, client, files, server>> /\ n \in Nat /\ lasts \in Nat
      /\ AllKept(toClient) /\ Head(toServer).cmd = "SEND_AUDIO"
  BY TurnTypes, RequestRead DEF clientVars, MockAudio
<1>1. /\ lasts < n /\ lasts # n /\ ~Asked /\ ~Answered /\ MockUnderway
      /\ toServer # <<>> /\ toServer' = Tail(toServer) /\ toServer \in Seq(Range(toServer))
      /\ ~(\E i \in DOMAIN toServer : toServer[i].cmd = "CREATE_SESSION")
      /\ ~(client.audio = "done" /\ Len(toServer) = 1)
      /\ client.audio \in {"reading", "done"}
  BY <1>0, MockAudioBegins
<1>2. /\ Len(toServer') = Len(toServer) - 1 /\ Len(toServer) \in Nat /\ 1 <= Len(toServer)
      /\ DOMAIN toServer' = 1 .. Len(toServer) - 1
      /\ \A i \in DOMAIN toServer' : i + 1 \in DOMAIN toServer /\ toServer'[i] = toServer[i + 1]
  BY <1>1, TailOf
<1>3. n > 0 /\ ~Asked' /\ LastAsked(toServer')
  BY <1>0, <1>1, AudioServed
<1>4. Left \in Nat
  BY <1>3, FileTyped
<1>5. Count(mock.counter, Left, Packets) /\ mock.counter \in Nat
  BY <1>1, Underneath
<1>6. Packets \in Nat /\ Packets >= 2 /\ Packets' = Packets - 1
  BY <1>0, <1>1, <1>2, <1>3 DEF Packets
<1> HIDE DEF request
<1>7. /\ Counted(request) # END_RECOGNIZE
      /\ Stopped(Counted(request)) = Counted(request)
      /\ Count(Counted(request), Left, Packets - 1)
  <2>1. Counted(request) = IF mock.counter < END_RECOGNIZE THEN mock.counter + 1 ELSE mock.counter
    BY DEF Counted, request
  <2> HIDE DEF Packets, Left
  <2>2. QED BY <1>4, <1>5, <1>6, <2>1, MockAssumption DEF Count, Stopped
<1>8. mock'.counter = Counted(request)
  BY <1>7, MockCounted DEF request
<1>9. PICK messages : AllKept(messages) /\ Send(messages) /\ OnlySpeech(messages)
  BY <1>7, MockCounted DEF MockSaid, request
<1>10. lasts' = lasts /\ SameLoud(toClient, toClient')
  BY <1>0, <1>9, SpeechIsQuiet, QuietSent
<1>11. Turn'
  BY <1>0, <1>1, <1>3, <1>10, QuietTurn
<1>12. ~Answered'
  BY <1>1, <1>10 DEF Answered, SameLoud, Loud
<1>13. \A i \in DOMAIN toServer' :
         toServer'[i].cmd = "SEND_AUDIO" =>
           (Get(Parse(toServer'[i]), "LastPacket") = <<"true">>
              <=> client'.audio = "done" /\ i = Len(toServer'))
  <2>1. \A i \in DOMAIN toServer' : i + 1 = Len(toServer) <=> i = Len(toServer')
    BY <1>2
  <2>2. QED BY <1>0, <1>1, <1>2, <2>1 DEF MockUnderway
<1>14. MockUnderway'
  <2>1. client'.audio = "done" => toServer' # <<>> /\ files'[client'.source] = 0
    <3>1. ASSUME client'.audio = "done" PROVE toServer' # <<>>
      <4>1. Len(toServer') > 0
        BY <1>0, <1>1, <1>2, <3>1
      <4>2. QED BY <4>1
    <3>2. QED BY <1>0, <1>1, <3>1 DEF MockUnderway, AtEnd
  <2>2. mock'.counter = END_RECOGNIZE + 1
        \/ mock'.counter + files'[client'.source] + Packets' <= END_RECOGNIZE
    BY <1>0, <1>6, <1>7, <1>8 DEF Count, Left
  <2>3. client'.results = <<>> /\ ~client'.eptr /\ client'.audio # "none"
    BY <1>0, <1>1 DEF MockUnderway
  <2>4. QED BY <1>3, <1>12, <1>13, <2>1, <2>2, <2>3 DEF MockUnderway, AtEnd
<1>15. QED BY <1>0, <1>1, <1>10, <1>11, <1>14 DEF MockCounts

LEMMA MocksTurnTurn ==
  ASSUME Inv, Turn, MockCounts, HasNotFailed, ClientSays, FilesLeft, Short, MocksTurn
  PROVE  Turn' /\ MockCounts'
<1>1. /\ program.mock /\ Serving /\ UNCHANGED <<clientVars, server>>
      /\ MockAnswer(Parse(Head(toServer))) \/ MockAudio(Parse(Head(toServer)))
  BY DEF MocksTurn, MockStep
<1>2. CASE MockAnswer(Parse(Head(toServer)))
  BY <1>1, <1>2, MockAnswerTurn
<1>3. CASE MockAudio(Parse(Head(toServer)))
  <2>1. CASE IsLastPacket(Parse(Head(toServer)))
    BY <1>1, <1>3, <2>1, MockLastTurn
  <2>2. CASE ~IsLastPacket(Parse(Head(toServer)))
    BY <1>1, <1>3, <2>2, MockPacketTurn
  <2>3. QED BY <2>1, <2>2
<1>4. QED BY <1>1, <1>2, <1>3

-----------------------------------------------------------------------------
(* What the client does, on the mock.                                      *)

LEMMA BuildMock == ASSUME Inv, Turn, MockCounts, ClientSays, Build PROVE MockCounts'
<1>1. /\ client'.audio = client.audio /\ client'.idle = client.idle
      /\ UNCHANGED <<program, n, lasts, toServer, toClient, server, mock>>
  BY TurnTypes DEF Build, ClientType, channelVars
<1>2. n = 0 /\ lasts = n
  <2>1. n = 0
    BY DEF Build, ClientSays
  <2>2. QED BY <2>1, TurnTypes, TurnParts DEF TurnCounts
<1>3. MockFinished
  BY <1>2 DEF MockCounts
<1>4. Answered' <=> Answered
  BY <1>1 DEF Answered
<1>5. MockFinished'
  BY <1>1, <1>3, <1>4 DEF MockFinished
<1>6. QED BY <1>1, <1>2, <1>5 DEF MockCounts

(* A wait returns nothing before the recognition has ended.                *)
LEMMA WaitMock == ASSUME Inv, Turn, MockCounts, Wait PROVE MockCounts'
<1>1. /\ client'.audio = "none" /\ client'.idle = client.idle
      /\ UNCHANGED <<program, n, lasts, toServer, toClient, server, mock>>
      /\ client.results # <<>> \/ client.eptr \/ ~client.recognizing
  BY TurnTypes DEF Wait, ClientType
<1>2. lasts = n
  BY <1>1, Underneath DEF MockUnderway
<1>3. MockFinished /\ (Answered' <=> Answered)
  BY <1>1, <1>2 DEF MockCounts, Answered
<1>4. MockFinished'
  BY <1>1, <1>3 DEF MockFinished
<1>5. QED BY <1>1, <1>2, <1>4 DEF MockCounts

LEMMA RecognizeMock ==
  ASSUME Inv, Turn, MockCounts, Recognize, HasNotFailed'
  PROVE  MockCounts'
<1> DEFINE turn == program.turns[n + 1]
           lm == LanguageModelList(turn.adds)
           begun == [client EXCEPT !.recognizing = TRUE, !.eptr = FALSE,
                                   !.results = <<>>, !.lm = lm,
                                   !.source = turn.source]
<1>0. client \in ClientType /\ n \in Nat /\ lasts \in Nat /\ toServer \in Seq(Range(toServer))
  BY TurnTypes
<1>1. /\ ~client.recognizing /\ client.audio = "none"
      /\ UNCHANGED <<program, toClient, lasts, server, mock>>
  BY DEF Recognize
<1>2. lasts = n /\ ~Underway /\ ~Answered /\ ~Asked /\ ~server.running
  BY <1>1, Idle
<1>3. MockFinished
  BY <1>2 DEF MockCounts
<1>4. /\ client' = begun /\ n' = n + 1
      /\ Ask(CreateSession) \/ (client.idle /\ Ask(StartRecognition(lm)))
  <2>1. [client EXCEPT !.phase = "raised"].phase = "raised"
        /\ [begun EXCEPT !.phase = "raised"].phase = "raised"
    BY <1>0 DEF ClientType
  <2> HIDE DEF begun
  <2>2. /\ client' # [client EXCEPT !.phase = "raised"]
        /\ client' # [begun EXCEPT !.phase = "raised"]
    BY <2>1 DEF HasNotFailed
  <2>3. QED BY <2>2 DEF Recognize, begun
<1>5. /\ begun.results = <<>> /\ begun.eptr = FALSE /\ begun.audio = "none"
  BY <1>0, <1>1 DEF ClientType
<1>6. PICK request :
        /\ toServer' = Append(toServer, request)
        /\ request.cmd \in Methods \ {"CANCEL_RECOGNITION"}
        /\ request.cmd = "CREATE_SESSION" \/ client.idle
  BY <1>4, WhatIsAsked DEF Ask, Methods
<1> HIDE DEF begun, lm, turn
<1>7. Asked' /\ Len(toServer') = 1
  <2>1. Len(toServer) = 0
    BY <1>3 DEF MockFinished
  <2>2. QED BY <1>2, <1>6, <2>1, AskedNow
<1>8. /\ 1 \in DOMAIN toServer' /\ toServer'[1] = request
      /\ \A i \in DOMAIN toServer' : i = 1
  <2>1. Len(toServer) = 0
    BY <1>3 DEF MockFinished
  <2>2. QED BY <1>0, <1>6, <2>1, AppendOf
<1>9. ~Answered'
  BY <1>1, <1>2 DEF Answered
<1>10. request.cmd = "CREATE_SESSION" \/ mock'.counter = END_RECOGNIZE + 1
  BY <1>1, <1>3, <1>6 DEF MockCounts, MockFinished
<1>11. MockUnderway'
  <2>1. request.cmd # "SEND_AUDIO"
    BY <1>6 DEF Methods
  <2>2. client'.results = <<>> /\ ~client'.eptr /\ client'.audio = "none"
    BY <1>4, <1>5
  <2>3. QED BY <1>7, <1>8, <1>9, <1>10, <2>1, <2>2 DEF MockUnderway
<1>12. n' > 0 /\ lasts' # n' /\ ~server'.running
  BY <1>0, <1>1, <1>2, <1>4
<1>13. QED BY <1>11, <1>12 DEF MockCounts

(* A block is one less in the file and one more under way.                 *)
LEMMA AudioMock ==
  ASSUME Inv, Turn, MockCounts, HasNotFailed, ClientSays, FilesLeft, AudioSend
  PROVE  MockCounts'
<1> DEFINE last == AtEnd(client.source)
<1>0. /\ client \in ClientType /\ n \in Nat /\ lasts \in Nat
      /\ toServer \in Seq(Range(toServer)) /\ last \in BOOLEAN
      /\ \A i \in DOMAIN toServer : toServer[i].cmd \in Requests
  BY TurnTypes DEF AtEnd
<1>1. /\ client.audio = "reading" /\ UNCHANGED <<program, n, lasts, toClient, server, mock>>
      /\ toServer' = Append(toServer, SendAudio(last))
      /\ files' = IF last THEN files ELSE [files EXCEPT ![client.source] = @ - 1]
      /\ client' = [client EXCEPT !.audio = IF last THEN "done" ELSE @]
  BY DEF AudioSend, AudioReady, Ask, ReadBlock
<1>2. /\ client'.audio = IF last THEN "done" ELSE "reading"
      /\ client'.results = client.results /\ client'.eptr = client.eptr
      /\ client'.source = client.source /\ client'.idle = client.idle
  BY <1>0, <1>1 DEF ClientType
<1>3. lasts # n
  BY <1>1 DEF MockCounts, MockFinished
<1>4. MockUnderway /\ n > 0 /\ mock.counter \in Nat
  BY <1>3, Underneath
<1>5. ~Asked /\ ~Answered
  BY <1>1, TurnParts
<1>6. Left \in Nat /\ client.source \in DOMAIN files
  BY <1>4, FileTyped
<1>7. Left' = IF last THEN Left ELSE Left - 1
  BY <1>1, <1>2, <1>6 DEF Left
<1> HIDE DEF last
<1>8. /\ Len(toServer') = Len(toServer) + 1 /\ Len(toServer) \in Nat
      /\ DOMAIN toServer = 1 .. Len(toServer)
      /\ toServer'[Len(toServer) + 1] = SendAudio(last)
      /\ \A i \in DOMAIN toServer : i \in DOMAIN toServer' /\ toServer'[i] = toServer[i]
      /\ \A i \in DOMAIN toServer' : i \in DOMAIN toServer \/ i = Len(toServer) + 1
  BY <1>0, <1>1, AppendOf
<1>9. ~Asked'
  BY <1>5, <1>8, WhatIsAsked DEF Asked
<1>10. ~Answered'
  BY <1>1, <1>5 DEF Answered
<1>11. Count(mock.counter, Left, Packets)
  <2>1. ~(\E i \in DOMAIN toServer : toServer[i].cmd = "CREATE_SESSION")
    BY <1>5 DEF Asked
  <2>2. QED BY <1>3, <2>1, Underneath
<1>12. /\ Packets = Len(toServer) + 1
       /\ Packets' = IF last THEN Packets ELSE Packets + 1
  BY <1>1, <1>2, <1>5, <1>8, <1>9 DEF Packets
<1>13. Count(mock.counter, Left', Packets')
  <2>1. Packets \in Nat
    BY <1>8, <1>12
  <2> HIDE DEF Packets, Left
  <2>2. QED BY <1>4, <1>6, <1>7, <1>11, <1>12, <2>1, MockAssumption DEF Count
<1>14. \A i \in DOMAIN toServer' :
         toServer'[i].cmd = "SEND_AUDIO" =>
           (Get(Parse(toServer'[i]), "LastPacket") = <<"true">>
              <=> client'.audio = "done" /\ i = Len(toServer'))
  <2>1. ASSUME NEW i \in DOMAIN toServer
        PROVE  /\ i # Len(toServer')
               /\ Get(Parse(toServer'[i]), "LastPacket") # <<"true">>
    <3>1. toServer[i].cmd = "SEND_AUDIO" /\ toServer'[i] = toServer[i]
      BY <1>5, <1>8 DEF Asked
    <3>2. Get(Parse(toServer[i]), "LastPacket") # <<"true">>
      BY <1>1, <1>4, <3>1 DEF MockUnderway
    <3>3. i # Len(toServer')
      BY <1>8
    <3>4. QED BY <3>1, <3>2, <3>3
  <2>2. Get(Parse(SendAudio(last)), "LastPacket") = <<"true">> <=> client'.audio = "done"
    BY <1>0, <1>2, PacketRead
  <2>3. QED BY <1>8, <2>1, <2>2
<1>15. client'.audio = "done" => toServer' # <<>> /\ files'[client'.source] = 0
  <2>1. last => files[client.source] = 0
    BY DEF last, AtEnd
  <2>2. Len(toServer') # 0
    BY <1>8
  <2>3. toServer' # <<>>
    BY <2>2
  <2>4. QED BY <1>1, <1>2, <2>1, <2>3
<1>16. MockUnderway'
  <2>1. client'.results = <<>> /\ ~client'.eptr /\ client'.audio # "none"
    BY <1>2, <1>4 DEF MockUnderway
  <2>2. mock'.counter = END_RECOGNIZE + 1
        \/ mock'.counter + files'[client'.source] + Packets' <= END_RECOGNIZE
    BY <1>1, <1>13 DEF Count, Left
  <2>3. QED BY <1>9, <1>10, <1>14, <1>15, <2>1, <2>2 DEF MockUnderway, AtEnd
<1>17. QED BY <1>1, <1>2, <1>3, <1>4, <1>16 DEF MockCounts

(* The mock refuses nothing: its response is followed by the next request  *)
(* or by the audio.                                                        *)
LEMMA ResponseMock ==
  ASSUME Inv, Turn, MockCounts, ServersSay, program.mock, NetStep, HasNotFailed',
         IsResponse(Head(toClient))
  PROVE  MockCounts'
<1> DEFINE heard == Parse(Head(toClient).text)
<1>0. /\ client \in ClientType /\ n \in Nat /\ lasts \in Nat
      /\ toClient # <<>> /\ toClient' = Tail(toClient) /\ toServer \in Seq(Range(toServer))
      /\ UNCHANGED <<program, n, lasts, files, server, mock>> /\ heard.cmd = "RESPONSE"
  BY TurnTypes DEF NetStep, NetReady, Parse, IsResponse
<1>1. /\ n > 0 /\ Answered /\ ~Answered'
      /\ Due(Head(toClient), program, server.running, lasts, n)
      /\ Head(toClient) = toClient[1] /\ 1 \in DOMAIN toClient
  BY <1>0, Popped
<1>2. ~Asked /\ client.audio = "none"
  BY <1>1, TurnParts
<1>3. lasts # n
  BY <1>1 DEF MockCounts, MockFinished
<1>4. MockUnderway /\ mock.counter \in Nat /\ toServer = <<>>
  BY <1>1, <1>3, Underneath DEF MockUnderway
<1>5. Count(mock.counter, Left, 1)
  <2>1. Packets = 1 /\ \A i \in DOMAIN toServer : FALSE
    BY <1>2, <1>4 DEF Packets
  <2>2. QED BY <1>3, <2>1, Underneath
<1>6. PICK method \in Methods : Succeeds(heard, method)
  BY <1>1 DEF ServersSay, SaidRight
<1>7. \/ /\ client' = client
         /\ \E request : Ask(request) /\ request.cmd \in Methods \ {"CANCEL_RECOGNITION"}
      \/ client' = [client EXCEPT !.audio = "reading"] /\ AskNothing
  <2>0. ~Answers(heard, "CANCEL_RECOGNITION")
    BY <1>1 DEF Due
  <2> HIDE DEF heard
  <2>1. client' # [client EXCEPT !.phase = "crashed"]
    BY <1>0 DEF ClientType, HasNotFailed
  <2>2. CASE HandleCreateSession(heard) \/ HandleSetParameters(heard)
    BY <2>1, <2>2, WhatIsAsked
       DEF HandleCreateSession, HandleSetParameters, StartOnNet, Methods
  <2>3. CASE HandleStart(heard)
    BY <1>2, <2>3 DEF HandleStart
  <2>4. CASE HandleCancel(heard)
    BY <2>0, <2>4 DEF HandleCancel
  <2>5. CASE HandleFailure(heard)
    BY <1>6, <2>5 DEF HandleFailure, Succeeds
  <2>6. CASE HandleUnknown(heard)
    BY <1>6, <2>6 DEF HandleUnknown, Succeeds, Answers
  <2>7. heard.cmd \notin {"RECOGNITION_RESULT", "START_OF_SPEECH", "END_OF_SPEECH"}
    BY <1>0
  <2>8. QED
    BY <2>2, <2>3, <2>4, <2>5, <2>6, <2>7
       DEF NetStep, heard, HandleSpeech, IsResult, HandleCanceledResult, HandleStatusOnly,
           HandleFinal, HandlePartial
<1> HIDE DEF heard
<1>8. CASE /\ client' = client
           /\ \E request : Ask(request) /\ request.cmd \in Methods \ {"CANCEL_RECOGNITION"}
  <2>1. PICK request : /\ toServer' = Append(toServer, request)
                       /\ request.cmd \in Methods \ {"CANCEL_RECOGNITION"}
    BY <1>8 DEF Ask
  <2>2. Len(toServer) = 0
    BY <1>4
  <2>3. Asked' /\ Len(toServer') = 1
    BY <1>2, <2>1, <2>2, AskedNow
  <2>4. toServer'[1] = request /\ \A i \in DOMAIN toServer' : i = 1
    BY <1>0, <2>1, <2>2, AppendOf
  <2>5. request.cmd # "SEND_AUDIO"
    BY <2>1 DEF Methods
  <2>6. Packets' = 1 /\ Left' = Left
    BY <1>0, <1>8, <2>3 DEF Packets, Left
  <2>7. mock'.counter = END_RECOGNIZE + 1
        \/ mock'.counter + files'[client'.source] + Packets' <= END_RECOGNIZE
    BY <1>0, <1>5, <2>6 DEF Count, Left
  <2>8. client'.results = <<>> /\ ~client'.eptr /\ client'.audio = "none"
    BY <1>2, <1>4, <1>8 DEF MockUnderway
  <2>9. MockUnderway'
    BY <1>1, <2>3, <2>4, <2>5, <2>7, <2>8 DEF MockUnderway
  <2>10. QED BY <1>0, <1>3, <1>8, <2>9 DEF MockCounts
<1>9. CASE client' = [client EXCEPT !.audio = "reading"] /\ AskNothing
  <2>1. /\ client'.audio = "reading" /\ client'.results = client.results
        /\ client'.eptr = client.eptr /\ client'.source = client.source
        /\ client'.idle = client.idle
    BY <1>0, <1>9 DEF ClientType
  <2>2. toServer' = <<>> /\ ~Asked' /\ \A i \in DOMAIN toServer' : FALSE
    BY <1>4, <1>9 DEF AskNothing, Asked
  <2>3. Packets' = 1 /\ Left' = Left
    BY <1>0, <2>1, <2>2 DEF Packets, Left
  <2>4. mock'.counter = END_RECOGNIZE + 1
        \/ mock'.counter + files'[client'.source] + Packets' <= END_RECOGNIZE
    BY <1>0, <1>5, <2>3 DEF Count, Left
  <2>5. client'.results = <<>> /\ ~client'.eptr
    BY <1>4, <2>1 DEF MockUnderway
  <2>6. MockUnderway'
    BY <1>1, <2>1, <2>2, <2>4, <2>5 DEF MockUnderway
  <2>7. QED BY <1>0, <1>1, <1>3, <2>1, <2>6 DEF MockCounts
<1>10. QED BY <1>7, <1>8, <1>9

(* What else it says is speech, or the end.                                *)
LEMMA NetMock ==
  ASSUME Inv, Turn, MockCounts, ServersSay, program.mock, NetStep, HasNotFailed'
  PROVE  MockCounts'
<1> DEFINE heard == Parse(Head(toClient).text)
<1>0. /\ client \in ClientType /\ n \in Nat /\ lasts \in Nat
      /\ toClient # <<>> /\ toClient' = Tail(toClient)
      /\ UNCHANGED <<program, n, lasts, files, server, mock>>
      /\ heard.cmd = Head(toClient).text.cmd
  BY TurnTypes DEF NetStep, NetReady, Parse
<1>1. n > 0 /\ Head(toClient) = toClient[1] /\ 1 \in DOMAIN toClient
  BY <1>0, Popped
<1>2. CASE IsResponse(Head(toClient))
  BY <1>2, ResponseMock
<1>3. CASE ~IsResponse(Head(toClient)) /\ Head(toClient).means.last
  <2>1. Underway /\ ~Answered' /\ client'.audio = client.audio /\ AskNothing
    BY <1>0, <1>3, Popped, OthersHeard
  <2>2. lasts = n
    BY <2>1, TurnParts DEF TurnCounts
  <2>3. MockFinished
    BY <2>2 DEF MockCounts
  <2>4. MockFinished'
    BY <1>0, <2>1, <2>3 DEF MockFinished, AskNothing
  <2>5. QED BY <1>0, <1>1, <2>2, <2>4 DEF MockCounts
<1>4. CASE ~IsResponse(Head(toClient)) /\ ~Head(toClient).means.last
  <2>1. heard.cmd # "RECOGNITION_RESULT" /\ heard.cmd # "RESPONSE"
    BY <1>0, <1>1, <1>4 DEF ServersSay, SaidRight, IsResponse
  <2> HIDE DEF heard
  <2>2. client' = client /\ AskNothing
    BY <2>1
       DEF NetStep, heard, HandleCreateSession, HandleSetParameters, HandleStart, HandleCancel,
           HandleFailure, HandleUnknown, HandleSpeech, Answers, IsResult,
           HandleCanceledResult, HandleStatusOnly, HandleFinal, HandlePartial
  <2>3. Answered' <=> Answered
    BY <1>0, <1>4, Popped
  <2>4. (Asked' <=> Asked) /\ toServer' = toServer
    BY <2>2 DEF AskNothing, Asked
  <2>5. Packets' = Packets
    BY <2>2, <2>4 DEF Packets
  <2>6. MockUnderway => MockUnderway'
    BY <1>0, <2>2, <2>3, <2>4, <2>5 DEF MockUnderway, AtEnd
  <2>7. MockFinished => MockFinished'
    BY <1>0, <2>2, <2>3, <2>4 DEF MockFinished
  <2>8. QED BY <1>0, <2>2, <2>6, <2>7 DEF MockCounts
<1>5. QED BY <1>2, <1>3, <1>4

-----------------------------------------------------------------------------
(* A failure has a reason.                                                 *)

LEMMA NotFailedYet ==
  ASSUME client'.phase \in {"building", "open"}
  PROVE  FailsForAReason'
BY DEF FailsForAReason

LEMMA BuildReason == ASSUME Inv, Build PROVE FailsForAReason'
<1>1. /\ client'.phase = IF UrlAccepted(program.scheme) THEN "open" ELSE "raised"
      /\ program' = program
  BY TurnTypes DEF Build, ClientType
<1>2. QED BY <1>1 DEF FailsForAReason

(* A recognition is refused for its models.                                *)
LEMMA RecognizeReason == ASSUME Inv, Recognize PROVE FailsForAReason'
<1> DEFINE turn == program.turns[n + 1]
           lm == LanguageModelList(turn.adds)
           begun == [client EXCEPT !.recognizing = TRUE, !.eptr = FALSE,
                                   !.results = <<>>, !.lm = lm,
                                   !.source = turn.source]
<1>0. /\ client \in ClientType /\ n \in Nat /\ program' = program /\ client.phase = "open"
      /\ n < Len(program.turns) /\ Len(program.turns) \in Nat
  BY TurnTypes DEF Recognize, ClientIsOpen
<1>1. n + 1 \in 1 .. Len(program.turns) /\ turn.adds \in Seq(Additions)
  <2>1. n + 1 \in 1 .. Len(program.turns)
    BY <1>0
  <2>2. QED BY <2>1, Turns
<1>2. \/ client'.phase = "open"
      \/ /\ client'.phase = "raised" /\ (IsEmpty(lm) \/ lm.error)
         /\ n' = n \/ n' = n + 1
  <2>1. begun.phase = "open" /\ [begun EXCEPT !.phase = "raised"].phase = "raised"
        /\ [client EXCEPT !.phase = "raised"].phase = "raised"
    BY <1>0 DEF ClientType
  <2>2. \/ client' = begun
        \/ client' = [client EXCEPT !.phase = "raised"] /\ lm.error /\ n' = n
        \/ client' = [begun EXCEPT !.phase = "raised"] /\ IsEmpty(lm) /\ n' = n + 1
    BY DEF Recognize
  <2> HIDE DEF begun, lm
  <2>3. QED BY <2>1, <2>2
<1>3. IsEmpty(lm) \/ lm.error => ~OneModel(turn.adds)
  <2> HIDE DEF turn
  <2>1. QED BY <1>1, ModelSays
<1>4. CASE client'.phase = "open"
  BY <1>4, NotFailedYet
<1>5. CASE /\ client'.phase = "raised" /\ (IsEmpty(lm) \/ lm.error)
           /\ n' = n \/ n' = n + 1
  <2>1. ~OneModel(program'.turns[n + 1].adds)
    BY <1>0, <1>3, <1>5
  <2>2. n + 1 \in 1 .. Begun'
    <3>1. Begun' = n + 1 \/ Begun' = n + 2
      BY <1>0, <1>5 DEF Begun
    <3>2. QED BY <1>0, <3>1
  <2> HIDE DEF lm, turn
  <2>3. QED BY <1>5, <2>1, <2>2 DEF FailsForAReason
<1>6. QED BY <1>2, <1>4, <1>5

(* A wait raises what a server rejected.                                   *)
LEMMA WaitReason == ASSUME Inv, ClientSays, Wait PROVE FailsForAReason'
<1>1. /\ client'.phase = IF client.eptr THEN "raised" ELSE "open"
      /\ program' = program
  BY TurnTypes DEF Wait, ClientIsOpen, ClientType
<1>2. client.eptr => program'.rejects
  BY <1>1 DEF ClientSays
<1>3. QED BY <1>1, <1>2 DEF FailsForAReason

(* The process ends where a start without a text is not caught.            *)
LEMMA NetReason ==
  ASSUME Inv, ClientSays, Regular => Turn, NetStep
  PROVE  FailsForAReason'
<1> DEFINE heard == Parse(Head(toClient).text)
<1>0. /\ client \in ClientType /\ n \in Nat /\ client.phase = "open"
      /\ toClient # <<>> /\ toClient' = Tail(toClient)
      /\ heard.cmd = Head(toClient).text.cmd /\ UNCHANGED <<program, n, canceled>>
      /\ n <= Len(program.turns) /\ Len(program.turns) \in Nat
  BY TurnTypes DEF NetStep, NetReady, ClientIsOpen, Parse
<1>1. CASE ~IsResponse(Head(toClient))
  BY <1>0, <1>1, OthersHeard, NotFailedYet
<1>2. CASE IsResponse(Head(toClient))
  <2>1. \/ client'.phase = "open"
        \/ client'.phase = "crashed" /\ (IsEmpty(client.lm) \/ client.audio # "none")
    <3>1. heard.cmd = "RESPONSE"
      BY <1>0, <1>2 DEF IsResponse
    <3>2. CASE HandleCreateSession(heard) \/ HandleSetParameters(heard)
      BY <1>0, <3>2 DEF HandleCreateSession, HandleSetParameters, StartOnNet, ClientType
    <3>3. CASE HandleStart(heard)
      BY <1>0, <3>3 DEF HandleStart, ClientType
    <3>4. CASE HandleCancel(heard)
      BY <1>0, <3>4 DEF HandleCancel, ClientType
    <3>5. CASE HandleFailure(heard)
      BY <1>0, <3>5 DEF HandleFailure, ClientType
    <3>6. CASE HandleUnknown(heard)
      BY <1>0, <3>6 DEF HandleUnknown
    <3> HIDE DEF heard
    <3>7. QED
      BY <3>1, <3>2, <3>3, <3>4, <3>5, <3>6
         DEF NetStep, heard, HandleSpeech, IsResult, HandleCanceledResult, HandleStatusOnly,
             HandleFinal, HandlePartial
  <2>2. CASE client'.phase = "open"
    BY <2>2, NotFailedYet
  <2>3. CASE client'.phase = "crashed" /\ (IsEmpty(client.lm) \/ client.audio # "none")
    <3>1. ASSUME Regular'
          PROVE  \A i \in DOMAIN program'.turns[n'].adds : program'.turns[n'].adds[i].text = ""
      <4>1. Turn
        BY <1>0, <3>1 DEF Regular, Short
      <4>2. n > 0 /\ client.audio = "none"
        BY <1>0, <1>2, <4>1, Popped, TurnParts
      <4>3. n \in 1 .. Len(program.turns)
        BY <1>0, <4>2
      <4>4. client.lm = LanguageModelList(program.turns[n].adds) /\ IsEmpty(client.lm)
        BY <1>0, <2>3, <4>2 DEF ClientSays
      <4>5. program.turns[n].adds \in Seq(Additions)
        BY <4>3, Turns
      <4>6. \A i \in DOMAIN program.turns[n].adds : program.turns[n].adds[i].text = ""
        BY <4>4, <4>5, ModelSays
      <4>7. QED BY <1>0, <4>6
    <3>2. QED BY <2>3, <3>1 DEF FailsForAReason
  <2>4. QED BY <2>1, <2>2, <2>3
<1>3. QED BY <1>1, <1>2

(* What the client does not take part in changes nothing of it.            *)
LEMMA SameReason ==
  ASSUME FailsForAReason, UNCHANGED <<program, n, client, canceled>>
  PROVE  FailsForAReason'
BY DEF FailsForAReason, Regular, Short, Begun

-----------------------------------------------------------------------------
(* The invariant of the specification: the recognitions' turns and the     *)
(* mock's count hold where nothing failed or was canceled, and the rest    *)
(* always.                                                                 *)

Undisturbed == HasNotFailed /\ Regular
PInv ==
  /\ Inv /\ ClientSays /\ FilesLeft /\ ServersSay /\ FailsForAReason
  /\ Undisturbed => Turn
  /\ Undisturbed /\ program.mock => MockCounts

LEMMA PInvInit == Init => PInv
<1> SUFFICES ASSUME Init PROVE PInv
  OBVIOUS
<1>1. Inv
  BY InvInit
<1>2. /\ toServer = <<>> /\ toClient = <<>> /\ lasts = 0 /\ n = 0 /\ files = program.files
      /\ client.phase = "building" /\ client.recognizing = FALSE /\ client.idle = FALSE
      /\ client.eptr = FALSE /\ client.audio = "none" /\ server.running = FALSE
  BY DEF Init, Queues
<1>3. /\ \A i \in DOMAIN toServer : FALSE
      /\ \A i \in DOMAIN toClient : FALSE
  BY <1>2
<1>4. ClientSays /\ ServersSay /\ FailsForAReason
  BY <1>2, <1>3 DEF ClientSays, ServersSay, FailsForAReason
<1>5. FilesLeft
  <2>1. program.files \in Seq(Nat) /\ DOMAIN program.files = 1 .. Len(program.files)
    BY <1>1, Turns, LenProperties
  <2>2. \A k \in DOMAIN program.files : program.files[k] \in Nat
    BY <2>1, ElementOfSeq
  <2>3. \A k \in Nat : k <= k
    OBVIOUS
  <2>4. QED BY <1>2, <2>2, <2>3 DEF FilesLeft
<1>6. ~Asked /\ ~Answered /\ ~Underway
  BY <1>3 DEF Asked, Answered, Underway
<1>7. Turn
  <2>1. TurnCounts
    BY <1>2, <1>6 DEF TurnCounts
  <2>2. TurnRequests /\ TurnAnswers
    BY <1>2, <1>3, <1>6 DEF TurnRequests, TurnAnswers
  <2>3. QED BY <2>1, <2>2 DEF Turn
<1>8. MockCounts
  BY <1>2, <1>6 DEF MockCounts, MockFinished
<1>9. QED BY <1>1, <1>4, <1>5, <1>7, <1>8 DEF PInv

(* What does not depend on the course of a recognition.                    *)
LEMMA SaysNext ==
  ASSUME Inv, ClientSays, FilesLeft, ServersSay, [Next]_vars
  PROVE  ClientSays' /\ FilesLeft' /\ ServersSay'
<1>1. ASSUME UNCHANGED <<program, n, client>> PROVE ClientSays'
  BY <1>1 DEF ClientSays
<1>2. ASSUME UNCHANGED <<program, files>> PROVE FilesLeft'
  BY <1>2 DEF FilesLeft
<1>3. ASSUME UNCHANGED <<program, toClient>> PROVE ServersSay'
  BY <1>3 DEF ServersSay
<1>4. CASE Build
  BY <1>2, <1>3, <1>4, BuildSays DEF Build, channelVars
<1>5. CASE Recognize
  BY <1>2, <1>3, <1>5, RecognizeSays DEF Recognize
<1>6. CASE Wait
  BY <1>3, <1>6, WaitSays DEF Wait
<1>7. CASE Cancel
  BY <1>3, <1>7, CancelSays DEF Cancel
<1>8. CASE NetStep
  BY <1>2, <1>8, NetSays DEF NetStep
<1>9. CASE AudioSend
  BY <1>3, <1>9, AudioSays DEF AudioSend
<1>10. CASE MocksTurn
  BY <1>1, <1>2, <1>10, MocksTurnSays DEF MocksTurn, clientVars
<1>11. CASE ServersTurn
  BY <1>1, <1>2, <1>11, ServersTurnSays DEF ServersTurn, clientVars
<1>12. CASE UNCHANGED vars
  BY <1>1, <1>2, <1>3, <1>12 DEF vars, clientVars, channelVars
<1>13. QED
  BY <1>4, <1>5, <1>6, <1>7, <1>8, <1>9, <1>10, <1>11, <1>12 DEF Next, ProgramStep

LEMMA TurnNext ==
  ASSUME PInv, [Next]_vars, Undisturbed'
  PROVE  Turn' /\ (program'.mock => MockCounts')
<1>1. Undisturbed /\ HasNotFailed' /\ Inv /\ ClientSays /\ FilesLeft /\ ServersSay
  BY GuardBefore DEF PInv, Undisturbed
<1>2. Turn /\ (program.mock => MockCounts) /\ HasNotFailed /\ (program.mock => Short)
  BY <1>1 DEF PInv, Undisturbed, Regular
<1>3. CASE Build
  <2>1. program' = program
    BY <1>3 DEF Build
  <2>2. QED BY <1>1, <1>2, <1>3, <2>1, BuildTurn, BuildMock
<1>4. CASE Recognize
  <2>1. program' = program
    BY <1>4 DEF Recognize
  <2>2. QED BY <1>1, <1>2, <1>4, <2>1, RecognizeTurn, RecognizeMock
<1>5. CASE Wait
  <2>1. program' = program
    BY <1>5 DEF Wait
  <2>2. QED BY <1>1, <1>2, <1>5, <2>1, WaitTurn, WaitMock
<1>6. CASE Cancel
  BY <1>6 DEF Cancel, Undisturbed, Regular
<1>7. CASE NetStep
  <2>1. program' = program
    BY <1>7 DEF NetStep
  <2>2. QED BY <1>1, <1>2, <1>7, <2>1, NetTurn, NetMock
<1>8. CASE AudioSend
  <2>1. program' = program
    BY <1>8 DEF AudioSend
  <2>2. QED BY <1>1, <1>2, <1>8, <2>1, AudioTurn, AudioMock
<1>9. CASE MocksTurn
  <2>1. program' = program /\ program.mock
    BY <1>9 DEF MocksTurn, clientVars
  <2>2. QED BY <1>1, <1>2, <1>9, <2>1, MocksTurnTurn
<1>10. CASE ServersTurn
  <2>1. program' = program /\ ~program.mock
    BY <1>10 DEF ServersTurn, clientVars
  <2>2. QED BY <1>1, <1>2, <1>10, <2>1, ServersTurnTurn
<1>11. CASE UNCHANGED vars
  <2>1. UNCHANGED <<program, n, client, files, server, toServer, toClient, lasts, mock>>
    BY <1>11 DEF vars, clientVars, channelVars
  <2>2. Turn'
    BY <1>2, <2>1 DEF Turn, TurnCounts, TurnRequests, TurnAnswers, Asked, Answered, Underway
  <2>3. MockCounts => MockCounts'
    <3>1. (Asked' <=> Asked) /\ (Answered' <=> Answered) /\ Packets' = Packets
      BY <2>1 DEF Asked, Answered, Packets
    <3>2. QED BY <2>1, <3>1 DEF MockCounts, MockFinished, MockUnderway, AtEnd
  <2>4. QED BY <1>2, <2>1, <2>2, <2>3
<1>12. QED
  BY <1>3, <1>4, <1>5, <1>6, <1>7, <1>8, <1>9, <1>10, <1>11 DEF Next, ProgramStep

LEMMA ReasonNext == ASSUME PInv, [Next]_vars PROVE FailsForAReason'
<1>1. Inv /\ ClientSays /\ FailsForAReason
  BY DEF PInv
<1>2. CASE Build \/ Recognize \/ Wait
  BY <1>1, <1>2, BuildReason, RecognizeReason, WaitReason
<1>3. CASE Cancel \/ AudioSend
  <2>1. client'.phase = "open"
    BY <1>1, <1>3, TurnTypes DEF Cancel, AudioSend, AudioReady, ClientIsOpen, ClientType
  <2>2. QED BY <2>1, NotFailedYet
<1>4. CASE NetStep
  <2>1. Regular => Turn
    BY <1>4 DEF PInv, Undisturbed, HasNotFailed, NetStep, NetReady, ClientIsOpen
  <2>2. QED BY <1>1, <1>4, <2>1, NetReason
<1>5. CASE MocksTurn \/ ServersTurn
  BY <1>1, <1>5, SameReason DEF MocksTurn, ServersTurn, clientVars
<1>6. CASE UNCHANGED vars
  BY <1>1, <1>6, SameReason DEF vars, clientVars
<1>7. QED BY <1>2, <1>3, <1>4, <1>5, <1>6 DEF Next, ProgramStep

LEMMA PInvNext == PInv /\ [Next]_vars => PInv'
<1> SUFFICES ASSUME PInv, [Next]_vars PROVE PInv'
  OBVIOUS
<1>1. Inv /\ ClientSays /\ FilesLeft /\ ServersSay
  BY DEF PInv
<1>2. Inv'
  BY <1>1, InvNext
<1>3. ClientSays' /\ FilesLeft' /\ ServersSay'
  BY <1>1, SaysNext
<1>4. Undisturbed' => Turn' /\ (program'.mock => MockCounts')
  BY TurnNext
<1>5. FailsForAReason'
  BY ReasonNext
<1>6. QED BY <1>2, <1>3, <1>4, <1>5 DEF PInv

LEMMA PInvHolds == Spec => []PInv
<1>1. QED BY PInvInit, PInvNext, PTL DEF Spec

(***************************************************************************)
(* One recognition at a time and one request of it, on the mock and on a   *)
(* server of the protocol that may reject and speaks when it likes: what   *)
(* the program, the handlers and the audio thread ask is never answered    *)
(* into another recognition.                                               *)
(***************************************************************************)
THEOREM OneTurnAtATime == Spec => []OneTurn
<1>1. PInv => OneTurn
  BY DEF PInv, OneTurn, Turn, Undisturbed
<1>2. QED BY <1>1, PInvHolds, PTL

(***************************************************************************)
(* What the mock has counted, the packets under way and the blocks left in *)
(* the file never come past END_RECOGNIZE, for all files that are shorter  *)
(* and any number of recognitions with them.                               *)
(***************************************************************************)
THEOREM MockCountsRight == Spec => []MockTurn
<1>1. PInv => MockTurn
  BY DEF PInv, MockTurn, MockCounts, Undisturbed
<1>2. QED BY <1>1, PInvHolds, PTL

(***************************************************************************)
(* recognizing_ is set exactly from the call of recognize() to the last    *)
(* result heard, for all programs that do not cancel.                      *)
(***************************************************************************)
THEOREM TakenForRunning == Spec => []EndedTogether
<1>1. PInv => EndedTogether
  BY DEF PInv, EndedTogether, Turn, TurnCounts, Undisturbed, HasNotFailed
<1>2. QED BY <1>1, PInvHolds, PTL

(***************************************************************************)
(* The mock never sends a result too many, and has sent as many as there   *)
(* were recognitions whenever none is running: for all files shorter than  *)
(* END_RECOGNIZE, and any counter that a connection before may have left.  *)
(***************************************************************************)
THEOREM ResultForEach == Spec => []OneResultEach
<1>1. PInv => OneResultEach
  <2>1. SUFFICES ASSUME PInv, client.phase = "open", Regular
                 PROVE  lasts <= n /\ (~client.recognizing => lasts = n)
    BY DEF OneResultEach
  <2>2. Inv /\ Turn
    BY <2>1 DEF PInv, Undisturbed, HasNotFailed
  <2>3. QED BY <2>2, Idle DEF Turn, TurnCounts
<1>2. QED BY <1>1, PInvHolds, PTL

(***************************************************************************)
(* The process of a program that does not cancel ends only for want of a   *)
(* text, and what a call raises is the url's, the models' or the server's  *)
(* fault: no course of calls, messages and packets leads there otherwise.  *)
(***************************************************************************)
THEOREM ReasonForEach == Spec => []FailsForAReason
<1>1. PInv => FailsForAReason
  BY DEF PInv
<1>2. QED BY <1>1, PInvHolds, PTL

-----------------------------------------------------------------------------
(* The parameters, from the program to the mock.  Until the mock is told,  *)
(* nothing is under way but requests before SET_PARAMETERS, or this one    *)
(* itself, and their answers.                                              *)
Said == SetParameters(Configuration)
Built ==
  IF client.phase = "building" THEN toServer = <<>> /\ toClient = <<>>
  ELSE config = Configuration
SaidOnly ==
  \A i \in DOMAIN toServer : toServer[i].cmd = "SET_PARAMETERS" => toServer[i] = Said

Before(request) == request.cmd \notin {"START_RECOGNITION", "SEND_AUDIO"}
Early(m) ==
  /\ \A method \in {"SET_PARAMETERS", "START_RECOGNITION"} : ~Answers(Parse(m.text), method)
  /\ m.text.cmd # "RECOGNITION_RESULT"
EarlyIn(s) == \A i \in DOMAIN s : Early(s[i])
Untold ==
  /\ ~client.idle /\ client.audio = "none"
  /\ \A i \in DOMAIN toServer : Before(toServer[i])
  /\ EarlyIn(toClient)
  /\ \/ ~client.recognizing /\ toServer = <<>> /\ toClient = <<>>
     \/ toServer # <<>> /\ Head(toServer).cmd = "CREATE_SESSION"
     \/ mock.counter = 0
Settings == Built /\ SaidOnly /\ (ToldAll \/ Untold)
Configured == program.mock /\ program.configured

(* A program keeps to its configuration, and the mock to what it was told. *)
LEMMA SameSaid ==
  ASSUME program' = program
  PROVE  /\ Configuration' = Configuration /\ Said' = Said
         /\ mock'.params = mock.params => (ToldAll' <=> ToldAll)
<1>1. Configuration' = Configuration
  BY DEF Configuration
<1>2. Said' = Said
  BY <1>1 DEF Said
<1>3. (ToldAll <=> mock.params = Parse(Said).headers)
      /\ (ToldAll' <=> mock'.params = Parse(Said').headers)
  BY DEF ToldAll, Said
<1>4. QED BY <1>1, <1>2, <1>3

(* A request more, and a request less.                                     *)
LEMMA SaidAsked ==
  ASSUME Inv, SaidOnly, program' = program, NEW request,
         toServer' = Append(toServer, request),
         request.cmd = "SET_PARAMETERS" => request = Said
  PROVE  /\ SaidOnly' /\ toServer' # <<>>
         /\ Head(toServer') = IF toServer = <<>> THEN request ELSE Head(toServer)
         /\ (\A i \in DOMAIN toServer : Before(toServer[i])) /\ Before(request)
              => \A i \in DOMAIN toServer' : Before(toServer'[i])
<1>1. toServer \in Seq(Range(toServer)) /\ Said' = Said
  BY TurnTypes, SameSaid
<1>2. /\ DOMAIN toServer = 1 .. Len(toServer) /\ Len(toServer) \in Nat
      /\ Len(toServer') = Len(toServer) + 1 /\ DOMAIN toServer' = 1 .. Len(toServer) + 1
      /\ toServer'[Len(toServer) + 1] = request
      /\ \A i \in DOMAIN toServer : toServer'[i] = toServer[i]
      /\ \A i \in DOMAIN toServer' : i \in DOMAIN toServer \/ i = Len(toServer) + 1
  BY <1>1, AppendOf
<1>3. SaidOnly'
  BY <1>1, <1>2 DEF SaidOnly
<1>4. toServer' # <<>>
  BY <1>2
<1>5. Head(toServer') = toServer'[1]
  OBVIOUS
<1>6. Head(toServer') = IF toServer = <<>> THEN request ELSE Head(toServer)
  <2>1. CASE toServer = <<>>
    <3>1. Len(toServer) + 1 = 1
      BY <2>1
    <3>2. QED BY <1>2, <1>5, <2>1, <3>1
  <2>2. CASE toServer # <<>>
    <3>1. 1 \in DOMAIN toServer /\ Head(toServer) = toServer[1]
      BY <1>1, <2>2, TailOf
    <3>2. QED BY <1>2, <1>5, <2>2, <3>1
  <2>3. QED BY <2>1, <2>2
<1>7. QED BY <1>2, <1>3, <1>4, <1>6

LEMMA SaidServed ==
  ASSUME Inv, SaidOnly, program' = program, toServer # <<>>, toServer' = Tail(toServer)
  PROVE  /\ SaidOnly'
         /\ Head(toServer).cmd = "SET_PARAMETERS" => Head(toServer) = Said
         /\ (\A i \in DOMAIN toServer : Before(toServer[i]))
              => Before(Head(toServer)) /\ \A i \in DOMAIN toServer' : Before(toServer'[i])
<1>1. toServer \in Seq(Range(toServer)) /\ Said' = Said
  BY TurnTypes, SameSaid
<1>2. /\ Head(toServer) = toServer[1] /\ 1 \in DOMAIN toServer
      /\ \A i \in DOMAIN toServer' : i + 1 \in DOMAIN toServer /\ toServer'[i] = toServer[i + 1]
  BY <1>1, TailOf
<1>3. SaidOnly'
  BY <1>1, <1>2 DEF SaidOnly
<1>4. QED BY <1>2, <1>3 DEF SaidOnly

(* The program.                                                            *)
LEMMA BuildSets == ASSUME Inv, Settings, Build PROVE Settings'
<1>0. client \in ClientType /\ program' = program /\ mock' = mock
      /\ UNCHANGED <<toServer, toClient>>
  BY TurnTypes DEF Build, channelVars
<1>1. Configuration' = Configuration /\ Said' = Said /\ (ToldAll' <=> ToldAll)
  BY <1>0, SameSaid
<1>2. /\ client'.phase # "building" /\ client'.idle = client.idle
      /\ client'.audio = client.audio /\ client'.recognizing = client.recognizing
      /\ config' = Configuration
  BY <1>0 DEF Build, ClientType
<1>3. Built' /\ SaidOnly'
  BY <1>0, <1>1, <1>2 DEF Built, Settings, SaidOnly
<1>4. Untold => Untold'
  BY <1>0, <1>2 DEF Untold, EarlyIn
<1>5. QED BY <1>1, <1>3, <1>4 DEF Settings

(* A client that is not building keeps its configuration.                  *)
LEMMA StaysBuilt ==
  ASSUME Settings, program' = program, config' = config,
         client.phase # "building", client'.phase # "building"
  PROVE  Built'
<1>1. Configuration' = Configuration
  BY SameSaid
<1>2. QED BY <1>1 DEF Built, Settings

LEMMA RecognizeSets == ASSUME Inv, Settings, Recognize PROVE Settings'
<1> DEFINE turn == program.turns[n + 1]
           lm == LanguageModelList(turn.adds)
           begun == [client EXCEPT !.recognizing = TRUE, !.eptr = FALSE,
                                   !.results = <<>>, !.lm = lm,
                                   !.source = turn.source]
<1>0. /\ client \in ClientType /\ program' = program /\ mock' = mock
      /\ UNCHANGED <<toClient, config>> /\ client.phase = "open"
  BY TurnTypes DEF Recognize, ClientIsOpen
<1>1. Configuration' = Configuration /\ Said' = Said /\ (ToldAll' <=> ToldAll)
  BY <1>0, SameSaid
<1>2. \/ /\ client' = [client EXCEPT !.phase = "raised"] /\ toServer' = toServer
      \/ /\ ~client.idle /\ client' = begun /\ toServer' = Append(toServer, CreateSession)
      \/ /\ client.idle /\ client' = [begun EXCEPT !.phase = "raised"] /\ toServer' = toServer
      \/ /\ client.idle /\ client' = begun /\ toServer' = Append(toServer, StartRecognition(lm))
  BY <1>0 DEF Recognize, Ask, AskNothing, ClientType
<1>3. /\ begun.phase = "open" /\ begun.idle = client.idle /\ begun.audio = client.audio
      /\ [begun EXCEPT !.phase = "raised"].phase = "raised"
      /\ [client EXCEPT !.phase = "raised"].phase = "raised"
      /\ [client EXCEPT !.phase = "raised"].idle = client.idle
      /\ [client EXCEPT !.phase = "raised"].audio = client.audio
      /\ [client EXCEPT !.phase = "raised"].recognizing = client.recognizing
  BY <1>0 DEF ClientType
<1> HIDE DEF begun, lm
<1>4. Built'
  <2>1. client'.phase # "building"
    BY <1>2, <1>3
  <2>2. QED BY <1>0, <2>1, StaysBuilt
<1>5. CASE toServer' = toServer
  <2>1. SaidOnly'
    BY <1>1, <1>5 DEF SaidOnly, Settings
  <2>2. ASSUME Untold PROVE Untold'
    <3>1. client' = [client EXCEPT !.phase = "raised"]
      <4>1. client' = [client EXCEPT !.phase = "raised"] \/ toServer' = Append(toServer, CreateSession)
        BY <1>2, <2>2 DEF Untold
      <4>2. toServer \in Seq(Range(toServer))
        BY TurnTypes
      <4>3. Append(toServer, CreateSession) # toServer
        BY <4>2, AppendOf
      <4>4. QED BY <1>5, <4>1, <4>3
    <3>2. client'.idle = client.idle /\ client'.audio = client.audio
          /\ client'.recognizing = client.recognizing
      BY <1>3, <3>1
    <3>3. QED BY <1>0, <1>5, <2>2, <3>2 DEF Untold, EarlyIn
  <2>3. QED BY <1>1, <1>4, <2>1, <2>2 DEF Settings
<1>6. CASE ~client.idle /\ client' = begun /\ toServer' = Append(toServer, CreateSession)
  <2>1. CreateSession.cmd = "CREATE_SESSION"
    BY WhatIsAsked
  <2>2. CreateSession.cmd # "SET_PARAMETERS" /\ Before(CreateSession)
    BY <2>1 DEF Before
  <2>3. /\ SaidOnly' /\ toServer' # <<>>
        /\ Head(toServer') = IF toServer = <<>> THEN CreateSession ELSE Head(toServer)
        /\ (\A i \in DOMAIN toServer : Before(toServer[i]))
              => \A i \in DOMAIN toServer' : Before(toServer'[i])
    BY <1>0, <1>6, <2>2, SaidAsked DEF Settings
  <2>4. client'.idle = client.idle /\ client'.audio = client.audio
    BY <1>3, <1>6
  <2>5. Untold => Untold'
    BY <1>0, <2>1, <2>3, <2>4 DEF Untold, EarlyIn
  <2>6. QED BY <1>1, <1>4, <2>3, <2>5 DEF Settings
<1>7. CASE client.idle /\ toServer' = Append(toServer, StartRecognition(lm))
  <2>1. StartRecognition(lm).cmd # "SET_PARAMETERS"
    BY WhatIsAsked
  <2>2. SaidOnly'
    BY <1>0, <1>7, <2>1, SaidAsked DEF Settings
  <2>3. QED BY <1>1, <1>4, <1>7, <2>2 DEF Settings, Untold
<1>8. QED BY <1>2, <1>5, <1>6, <1>7

LEMMA WaitSets == ASSUME Inv, Settings, Wait PROVE Settings'
<1>0. /\ client \in ClientType /\ program' = program /\ mock' = mock
      /\ UNCHANGED <<toServer, toClient, config>> /\ client.phase = "open"
  BY TurnTypes DEF Wait, ClientIsOpen
<1>1. Said' = Said /\ (ToldAll' <=> ToldAll)
  BY <1>0, SameSaid
<1>2. /\ client'.phase # "building" /\ client'.idle = client.idle
      /\ client'.audio = "none" /\ client'.recognizing = client.recognizing
  BY <1>0 DEF Wait, ClientType
<1>3. Built'
  BY <1>0, <1>2, StaysBuilt
<1>4. SaidOnly'
  BY <1>0, <1>1 DEF SaidOnly, Settings
<1>5. Untold => Untold'
  BY <1>0, <1>2 DEF Untold, EarlyIn
<1>6. QED BY <1>1, <1>3, <1>4, <1>5 DEF Settings

LEMMA CancelSets == ASSUME Inv, Settings, Cancel PROVE Settings'
<1>0. /\ client \in ClientType /\ program' = program /\ mock' = mock
      /\ UNCHANGED <<toClient, config>> /\ client.phase = "open" /\ client.recognizing
      /\ toServer' = Append(toServer, CancelRecognition)
  BY TurnTypes DEF Cancel, ClientIsOpen, Ask
<1>1. ToldAll' <=> ToldAll
  BY <1>0, SameSaid
<1>2. /\ client'.phase # "building" /\ client'.idle = client.idle /\ client'.audio = "none"
  BY <1>0 DEF Cancel, ClientType
<1>3. Built'
  BY <1>0, <1>2, StaysBuilt
<1>4. CancelRecognition.cmd # "SET_PARAMETERS" /\ Before(CancelRecognition)
  BY DEF CancelRecognition, Raw, Message, Before
<1>5. /\ SaidOnly' /\ toServer' # <<>>
      /\ Head(toServer') = IF toServer = <<>> THEN CancelRecognition ELSE Head(toServer)
      /\ (\A i \in DOMAIN toServer : Before(toServer[i]))
            => \A i \in DOMAIN toServer' : Before(toServer'[i])
  BY <1>0, <1>4, SaidAsked DEF Settings
<1>6. Untold => Untold'
  BY <1>0, <1>2, <1>5 DEF Untold, EarlyIn
<1>7. QED BY <1>1, <1>3, <1>5, <1>6 DEF Settings

LEMMA AudioSets == ASSUME Inv, Settings, AudioSend PROVE Settings'
<1>0. /\ client \in ClientType /\ program' = program /\ mock' = mock
      /\ UNCHANGED <<toClient, config>> /\ client.phase = "open" /\ client.audio = "reading"
  BY TurnTypes DEF AudioSend, AudioReady, ClientIsOpen
<1>1. PICK last : toServer' = Append(toServer, SendAudio(last))
  BY DEF AudioSend, Ask
<1>2. SendAudio(last).cmd # "SET_PARAMETERS"
  BY WhatIsAsked
<1>3. SaidOnly'
  BY <1>0, <1>1, <1>2, SaidAsked DEF Settings
<1>4. client'.phase # "building"
  BY <1>0 DEF AudioSend, ClientType
<1>5. Built' /\ (ToldAll' <=> ToldAll)
  BY <1>0, <1>4, StaysBuilt, SameSaid
<1>6. QED BY <1>0, <1>3, <1>5 DEF Settings, Untold

(* The handlers: before the mock was told, only the response to the first  *)
(* request makes one ask, and it asks what the program configured.         *)
LEMMA NetSets == ASSUME Inv, Configured, Settings, NetStep PROVE Settings'
<1> DEFINE m == Head(toClient)
           heard == Parse(m.text)
<1>0. /\ client \in ClientType /\ program' = program /\ mock' = mock
      /\ toClient # <<>> /\ toClient' = Tail(toClient) /\ UNCHANGED config
      /\ client.phase = "open"
  BY TurnTypes DEF NetStep, NetReady, ClientIsOpen
<1>1. Said' = Said /\ (ToldAll' <=> ToldAll) /\ config = Configuration
  BY <1>0, SameSaid DEF Settings, Built
<1>2. EarlyIn(toClient) => Early(m) /\ EarlyIn(toClient')
  <2>1. toClient \in Seq(Range(toClient))
    BY TurnTypes
  <2>2. /\ Head(toClient) = toClient[1] /\ 1 \in DOMAIN toClient
        /\ \A i \in DOMAIN toClient' : i + 1 \in DOMAIN toClient /\ toClient'[i] = toClient[i + 1]
    BY <1>0, <2>1, TailOf
  <2>3. QED BY <2>2 DEF EarlyIn
<1>3. heard.cmd = m.text.cmd
  BY RequestRead
<1> HIDE DEF m
(* A step that asks nothing.                                               *)
<1>4. ASSUME toServer' = toServer, client'.phase # "building",
             Untold => client'.idle = client.idle /\ client'.audio = client.audio
      PROVE  Settings'
  <2>1. Built' /\ SaidOnly'
    BY <1>0, <1>1, <1>4, StaysBuilt DEF SaidOnly, Settings
  <2>2. Untold => Untold'
    BY <1>0, <1>2, <1>4 DEF Untold
  <2>3. QED BY <1>1, <2>1, <2>2 DEF Settings
(* A step that asks.                                                       *)
<1>5. ASSUME client' = client, NEW request, toServer' = Append(toServer, request),
             request.cmd = "SET_PARAMETERS" => request = Said,
             Untold => Before(request)
      PROVE  Settings'
  <2>1. /\ SaidOnly' /\ toServer' # <<>>
        /\ Head(toServer') = IF toServer = <<>> THEN request ELSE Head(toServer)
        /\ (\A i \in DOMAIN toServer : Before(toServer[i])) /\ Before(request)
              => \A i \in DOMAIN toServer' : Before(toServer'[i])
    BY <1>0, <1>5, SaidAsked DEF Settings
  <2>2. Built'
    BY <1>0, <1>5, StaysBuilt
  <2>3. Untold => Untold'
    BY <1>0, <1>2, <1>5, <2>1 DEF Untold
  <2>4. QED BY <1>1, <2>1, <2>2, <2>3 DEF Settings
<1>6. CASE HandleCreateSession(heard)
  <2>1. client' = client /\ toServer' = Append(toServer, SetParameters(config))
    BY <1>6 DEF HandleCreateSession, Ask, Configured
  <2>2. SetParameters(config) = Said
    BY <1>1 DEF Said
  <2>3. Before(Said)
    BY WhatIsAsked DEF Said, Before
  <2>4. QED BY <1>5, <2>1, <2>2, <2>3
<1>7. CASE HandleSetParameters(heard) \/ HandleStart(heard)
  <2>1. ~Untold
    <3>1. ASSUME EarlyIn(toClient) PROVE FALSE
      BY <1>2, <1>7, <3>1 DEF Early, HandleSetParameters, HandleStart
    <3>2. QED BY <3>1 DEF Untold
  <2>2. \/ client' = [client EXCEPT !.phase = "crashed"] /\ toServer' = toServer
        \/ client' = [client EXCEPT !.audio = "reading"] /\ toServer' = toServer
        \/ client' = client /\ toServer' = Append(toServer, StartRecognition(client.lm))
    BY <1>7 DEF HandleSetParameters, HandleStart, StartOnNet, Ask, AskNothing
  <2>3. [client EXCEPT !.phase = "crashed"].phase = "crashed"
        /\ [client EXCEPT !.audio = "reading"].phase = "open"
    BY <1>0 DEF ClientType
  <2>4. StartRecognition(client.lm).cmd # "SET_PARAMETERS"
    BY WhatIsAsked
  <2>5. CASE toServer' = toServer /\ client' # client
    <3>1. client'.phase # "building"
      BY <1>0, <2>2, <2>3, <2>5
    <3>2. QED BY <1>4, <2>1, <2>5, <3>1
  <2>6. CASE toServer' = toServer /\ client' = client
    BY <1>0, <1>4, <2>6
  <2>7. CASE client' = client /\ toServer' = Append(toServer, StartRecognition(client.lm))
    BY <1>5, <2>1, <2>4, <2>7
  <2>8. QED BY <2>2, <2>5, <2>6, <2>7
<1>8. CASE HandleCancel(heard)
  <2>1. toServer' = toServer
    BY <1>8 DEF HandleCancel, AskNothing
  <2>2. client' = [client EXCEPT !.results = <<>>, !.recognizing = FALSE]
    BY <1>8 DEF HandleCancel
  <2>3. client'.phase = "open" /\ client'.idle = client.idle /\ client'.audio = client.audio
    BY <1>0, <2>2 DEF ClientType
  <2>4. QED BY <1>4, <2>1, <2>3
<1>9. CASE HandleFailure(heard)
  <2>1. toServer' = toServer /\ client' = [client EXCEPT !.eptr = TRUE]
    BY <1>9 DEF HandleFailure, AskNothing
  <2>2. client'.phase = "open" /\ client'.idle = client.idle /\ client'.audio = client.audio
    BY <1>0, <2>1 DEF ClientType
  <2>3. QED BY <1>4, <2>1, <2>2
<1>10. CASE HandleUnknown(heard) \/ HandleSpeech(heard)
  <2>1. toServer' = toServer /\ client' = client
    BY <1>10 DEF HandleUnknown, HandleSpeech, AskNothing
  <2>2. QED BY <1>0, <1>4, <2>1
<1>11. CASE \/ HandleCanceledResult(heard) \/ HandleStatusOnly(heard)
            \/ HandleFinal(heard) \/ HandlePartial(heard)
  <2>1. heard.cmd = "RECOGNITION_RESULT" /\ toServer' = toServer
    BY <1>11 DEF HandleCanceledResult, HandleStatusOnly, HandleFinal, HandlePartial,
                 IsResult, AskNothing
  <2>2. ~Untold
    BY <1>2, <1>3, <2>1 DEF Untold, Early
  <2>3. client'.phase = "open"
    <3>1. \A ended : Settled(heard, ended).phase = "open"
      BY <1>0 DEF Settled, ClientType
    <3>2. \A code, ended : Stored(heard, code, ended).phase = "open"
      BY <1>0 DEF Stored, Settled, ClientType
    <3> HIDE DEF heard
    <3>3. QED BY <1>11, <3>1, <3>2
              DEF HandleCanceledResult, HandleStatusOnly, HandleFinal, HandlePartial
  <2>4. QED BY <1>4, <2>1, <2>2, <2>3
<1>12. QED BY <1>6, <1>7, <1>8, <1>9, <1>10, <1>11 DEF NetStep, heard, m

-----------------------------------------------------------------------------
(* The mock: with its counter at 0 it answers a request and no more.       *)
LEMMA AnsweredEarly ==
  ASSUME NEW cmd \in Methods, cmd \notin {"START_RECOGNITION", "SET_PARAMETERS"},
         NEW status, IsWord(status), NEW counter, counter # END_RECOGNIZE
  PROVE  LET messages == <<MockResponse(cmd, status)>> \o ByCounter(counter)
         IN  AllKept(messages) /\ EarlyIn(messages)
<1> DEFINE r == MockResponse(cmd, status)
           s == <<r>>
           t == ByCounter(counter)
           messages == s \o t
<1>1. OnlySpeech(t)
  BY CounterSays
<1>2. AllKept(messages) /\ 1 \in DOMAIN messages /\ AllKept(s) /\ AllKept(t)
  <2>1. Kept(r)
    <3>1. Raw("RESPONSE",
           <<Header("Error-Code", <<"000">>), Header("Handle", <<"handle", Space>>),
             Header("Message", <<"success">>), Header("Method", <<cmd>>),
             Header("Result", <<"SUCCESS", Space>>),
             Header("Session-Status", <<status>>)>>).cmd = "RESPONSE"
      BY DEF Raw, Message
    <3>2. QED BY <3>1, OtherHeard DEF MockResponse
  <2>2. AllKept(s)
    BY <2>1, KeptOne
  <2>3. AllKept(t)
    BY <1>1 DEF OnlySpeech
  <2>4. QED BY <1>1, <2>2, <2>3, AnswerThen, KeptBoth
<1>3. Early(r)
  <2>1. /\ r.text.cmd = "RESPONSE" /\ \A other : Answers(Parse(r.text), other) => other = cmd
    BY MockResponseHeard
  <2> HIDE DEF r
  <2>2. QED BY <2>1 DEF Early
<1>4. Early(StartOfSpeech)
  <2>1. StartOfSpeech.text.cmd = "START_OF_SPEECH"
    BY DEF StartOfSpeech, Says, Message
  <2>2. Parse(StartOfSpeech.text).cmd = "START_OF_SPEECH"
    BY <2>1 DEF Parse
  <2>3. QED BY <2>1, <2>2 DEF Early, Answers
<1>5. \A i \in DOMAIN s : s[i] = r
  OBVIOUS
<1> HIDE DEF s, t, r
<1>6. \A i \in DOMAIN messages :
        i \in DOMAIN s \/ (i - Len(s) \in DOMAIN t /\ messages[i] = t[i - Len(s)])
  BY <1>2, ConcatOf
<1>7. \A i \in DOMAIN s : messages[i] = s[i]
  BY <1>2, ConcatOf
<1>8. EarlyIn(messages)
  BY <1>1, <1>3, <1>4, <1>5, <1>6, <1>7 DEF EarlyIn, OnlySpeech
<1>9. QED BY <1>2, <1>8 DEF messages, s, t, r

LEMMA EarlySent ==
  ASSUME AllKept(toClient), EarlyIn(toClient), NEW messages, AllKept(messages),
         EarlyIn(messages), toClient' = toClient \o messages
  PROVE  EarlyIn(toClient')
<1>1. /\ \A i \in DOMAIN toClient : toClient'[i] = toClient[i]
      /\ \A i \in DOMAIN toClient' :
           i \in DOMAIN toClient \/ (i - Len(toClient) \in DOMAIN messages
                                     /\ toClient'[i] = messages[i - Len(toClient)])
  BY ConcatOf
<1>2. QED BY <1>1 DEF EarlyIn

LEMMA MockSets == ASSUME Inv, Settings, MocksTurn PROVE Settings'
<1> DEFINE head == Head(toServer)
           request == Parse(head)
<1>0. /\ UNCHANGED <<program, client, config>>
      /\ toServer # <<>> /\ toServer' = Tail(toServer)
      /\ toServer \in Seq(Range(toServer)) /\ AllKept(toClient)
      /\ \A i \in DOMAIN toServer : toServer[i].cmd \in Requests
      /\ client \in ClientType /\ mock.status \in {"IDLE", "LISTENING"}
  BY TurnTypes DEF MocksTurn, MockStep, Serving, clientVars, Inv, TypeOK
<1>1. /\ head = toServer[1] /\ 1 \in DOMAIN toServer /\ request.cmd = head.cmd
      /\ head.cmd \in Requests
  BY <1>0, TailOf, RequestRead
<1>2. /\ SaidOnly' /\ (head.cmd = "SET_PARAMETERS" => head = Said)
      /\ (\A i \in DOMAIN toServer : Before(toServer[i]))
           => Before(head) /\ \A i \in DOMAIN toServer' : Before(toServer'[i])
  BY <1>0, SaidServed DEF Settings
<1>3. Configuration' = Configuration /\ Said' = Said
  BY <1>0, SameSaid
<1>4. Built'
  BY <1>0, <1>3 DEF Built, Settings
<1>5. MockAnswer(request) \/ MockAudio(request)
  BY DEF MocksTurn, MockStep
<1> HIDE DEF head
<1>6. CASE MockAnswer(request) /\ head.cmd = "SET_PARAMETERS"
  <2>1. mock'.params = request.headers
    BY <1>1, <1>6 DEF MockAnswer
  <2>2. ToldAll'
    BY <1>2, <1>3, <1>6, <2>1 DEF ToldAll, Said
  <2>3. QED BY <1>2, <1>4, <2>2 DEF Settings
<1>7. CASE ~(MockAnswer(request) /\ head.cmd = "SET_PARAMETERS")
  <2>1. mock'.params = mock.params
    <3>1. CASE MockAnswer(request)
      BY <1>1, <1>7, <3>1 DEF MockAnswer
    <3>2. CASE MockAudio(request)
      BY <3>2 DEF MockAudio
    <3>3. QED BY <1>5, <3>1, <3>2
  <2>2. ToldAll' <=> ToldAll
    BY <1>0, <2>1, SameSaid
  <2>3. ASSUME Untold PROVE Untold'
    <3> DEFINE cmd == request.cmd
               status == IF cmd = "START_RECOGNITION" THEN "LISTENING" ELSE mock.status
               counter == IF cmd \in {"CREATE_SESSION", "RELEASE_SESSION"} THEN 0
                          ELSE mock.counter
               messages == <<MockResponse(cmd, status)>> \o ByCounter(counter)
    <3>1. cmd \in Methods /\ cmd \notin {"START_RECOGNITION", "SEND_AUDIO"}
      BY <1>1, <1>2, <2>3 DEF Untold, Before, Requests
    <3>2. MockAnswer(request) /\ cmd # "SET_PARAMETERS"
      BY <1>1, <1>5, <1>7, <3>1 DEF MockAudio
    <3>3. counter = 0
      BY <1>0, <1>1, <2>3 DEF Untold, head
    <3>4. mock'.counter = Stopped(counter) /\ toClient' = toClient \o messages
      BY <3>2 DEF MockAnswer, Send
    <3>5. 0 # END_RECOGNIZE
      BY MockAssumption
    <3>6. IsWord(status)
      BY <1>0, <3>1 DEF IsWord, Space, Illegal
    <3> HIDE DEF status, counter, cmd
    <3>7. AllKept(messages) /\ EarlyIn(messages)
      BY <3>1, <3>2, <3>3, <3>5, <3>6, AnsweredEarly
    <3> HIDE DEF messages
    <3>8. EarlyIn(toClient')
      BY <1>0, <2>3, <3>4, <3>7, EarlySent DEF Untold
    <3>9. mock'.counter = 0
      BY <3>3, <3>4, <3>5 DEF Stopped
    <3>10. QED BY <1>0, <1>2, <2>3, <3>8, <3>9 DEF Untold
  <2>4. QED BY <1>2, <1>4, <2>2, <2>3 DEF Settings
<1>8. QED BY <1>6, <1>7

-----------------------------------------------------------------------------
SettingsKept == Configured => Settings

LEMMA SettingsInit == Init => SettingsKept
<1> SUFFICES ASSUME Init PROVE Settings
  BY DEF SettingsKept
<1>1. /\ toServer = <<>> /\ toClient = <<>> /\ client.phase = "building"
      /\ client.recognizing = FALSE /\ client.idle = FALSE /\ client.audio = "none"
  BY DEF Init, Queues
<1>2. QED BY <1>1 DEF Settings, Built, SaidOnly, Untold, EarlyIn

LEMMA SettingsNext ==
  ASSUME Inv, SettingsKept, [Next]_vars PROVE SettingsKept'
<1> SUFFICES ASSUME Configured' PROVE Settings'
  BY DEF SettingsKept
<1>1. program' = program
  BY DEF Next, ProgramStep, Build, Recognize, Wait, Cancel, NetStep, AudioSend, MocksTurn,
         ServersTurn, clientVars, vars
<1>2. Configured /\ Settings
  BY <1>1 DEF Configured, SettingsKept
<1>3. CASE Build \/ Recognize \/ Wait \/ Cancel
  BY <1>2, <1>3, BuildSets, RecognizeSets, WaitSets, CancelSets
<1>4. CASE NetStep
  BY <1>2, <1>4, NetSets
<1>5. CASE AudioSend
  BY <1>2, <1>5, AudioSets
<1>6. CASE MocksTurn
  BY <1>2, <1>6, MockSets
<1>7. CASE ServersTurn
  BY <1>2, <1>7 DEF ServersTurn, Configured
<1>8. CASE UNCHANGED vars
  <2>1. UNCHANGED <<program, client, config, toServer, toClient, mock>>
    BY <1>8 DEF vars, clientVars, channelVars
  <2>2. Configuration' = Configuration /\ Said' = Said /\ (ToldAll' <=> ToldAll)
    BY <2>1, SameSaid
  <2>3. Built' /\ SaidOnly'
    BY <1>2, <2>1, <2>2 DEF Settings, Built, SaidOnly
  <2>4. Untold => Untold'
    BY <2>1 DEF Untold, EarlyIn
  <2>5. QED BY <1>2, <2>2, <2>3, <2>4 DEF Settings
<1>9. QED BY <1>3, <1>4, <1>5, <1>6, <1>7, <1>8 DEF Next, ProgramStep

(***************************************************************************)
(* The mock that is sent audio was told the parameters that are in force   *)
(* as the program, or its environment by the variables that README.md of   *)
(* the source documents, wants them, and no others, whatever an earlier    *)
(* connection left in the mock, and whenever the program cancels.  Setters, *)
(* environment, the order of the headers, their text and its parser lose   *)
(* only what a text takes with it that cannot be read.  Left out are the   *)
(* three parameters whose variables are not the documented ones, where     *)
(* these variables are set, and Bools whose variable does not spell true.  *)
(***************************************************************************)
THEOREM ConfigurationArrives == Spec => []ParametersArrive
<1>1. Inv /\ SettingsKept => ParametersArrive
  <2>1. SUFFICES ASSUME Inv, SettingsKept, program.mock /\ program.configured,
                        client.audio # "none"
                 PROVE  \A p \in Parameters : Misread(p) \/ Heard(p)
    BY DEF ParametersArrive, SendsAudio
  <2>2. program \in Programs /\ ToldAll
    BY <2>1, TurnTypes DEF SettingsKept, Configured, Settings, Untold
  <2>3. QED BY <2>2, ToldRight
<1>2. QED BY <1>1, InvHolds, SettingsInit, SettingsNext, PTL DEF Spec
=============================================================================
