------------------------- MODULE ConnectionTextProofs -------------------------
(***************************************************************************)
(* Theorems about what the bytes of a connection make the proxy do, for    *)
(* any openings, any cut of recv and texts of any length.                  *)
(***************************************************************************)
EXTENDS ConnectionProofs, RequestParserProofs

USE DEF Text
------------------------------------------------------------------------------
(***************************************************************************)
(* What recv returns of an opening.                                        *)
(***************************************************************************)
\* One recv returns the beginning of a text.
LEMMA Beginning ==
    ASSUME NEW text \in Text, NEW n \in 1..Len(text)
    PROVE  /\ Begins(SubSeq(text, 1, n), text)
           /\ SubSeq(text, 1, n) # <<>>
           /\ IsPrefix(SubSeq(text, 1, n), text)
  <1>1. Len(text) \in Nat
    BY LenProperties
  <1>2. 1 \in Nat \ {0} /\ n + 1 \in Nat /\ 1 <= n + 1 /\ (n + 1) - 1 = n /\ n <= Len(text)
        /\ (n + 1) - 1 <= Len(text)
    BY <1>1
  <1>3. PICK t : t = SubSeq(text, 1, n)
    OBVIOUS
  <1>4. t = SubSeq(text, 1, (n + 1) - 1)
    BY <1>2, <1>3
  <1>5. /\ t \in Text /\ Len(t) = (n + 1) - 1
        /\ \A i \in 1..((n + 1) - 1) : t[i] = text[1 + i - 1]
    <2> HIDE DEF Text
    <2> QED BY <1>2, <1>4, Between
  <1>6. Len(t) = n /\ \A i \in 1..n : t[i] = text[i]
    BY <1>2, <1>5
  <1>7. t # <<>>
    BY <1>6
  <1>8. IsPrefix(t, text)
    <2>1. SubSeq(t, 1, Len(t)) = t
      BY <1>5, SubSeqFull
    <2> QED BY <1>2, <1>3, <1>6, <2>1 DEF IsPrefix
  <1>9. Begins(t, text)
    BY <1>2, <1>5, <1>6 DEF Begins
  <1> QED BY <1>3, <1>7, <1>8, <1>9

\* The bytes that the client means for the target.
Bytes(k) == [i \in 1..k |-> "byte"]

\* These bytes are a text without a colon.
LEMMA BytesType ==
    ASSUME NEW k \in Nat
    PROVE  Bytes(k) \in Text /\ \A i \in 1..Len(Bytes(k)) : Bytes(k)[i] # ":"
  <1>1. "byte" \in Symbols /\ "byte" # ":"
    BY OpeningsAssumption, WordsAre
  <1> QED BY <1>1 DEF Bytes

\* Behind a text.
LEMMA Behind ==
    ASSUME NEW s \in Text, NEW t \in Text
    PROVE  s \o t \in Text /\ IsPrefix(s, s \o t) /\ (s # <<>> => s \o t # <<>>)
  <1>1. /\ s \o t \in Text /\ Len(s \o t) = Len(s) + Len(t)
        /\ \A i \in 1..Len(s) : (s \o t)[i] = s[i]
    BY ConcatProperties
  <1>2. Len(s) \in Nat /\ Len(t) \in Nat
    BY LenProperties
  <1>3. IsPrefix(s, s \o t)
    <2>1. PICK u : u = s \o t
      OBVIOUS
    <2>2. PICK n : n = Len(s)
      OBVIOUS
    <2>3. u \in Text /\ n \in Nat /\ n <= Len(u) /\ \A i \in 1..n : u[i] = s[i]
      BY <1>1, <1>2, <2>1, <2>2
    <2>4. SubSeq(s, 1, n) = SubSeq(u, 1, n)
      BY <2>2, <2>3
    <2> QED BY <2>1, <2>2, <2>3, <2>4 DEF IsPrefix
  <1>4. s # <<>> => s \o t # <<>>
    BY ConcatEqualIffEmpty
  <1> QED BY <1>1, <1>3, <1>4
------------------------------------------------------------------------------
(***************************************************************************)
(* A message that a client writes.                                         *)
(***************************************************************************)
\* The same message with any other body behind it.
Sent(m, method, version, gap, body) ==
    Compose(<<method>>, m.uri, <<version>>, m.headers, gap, body)

\* What is known of a message that is written with these parts.
Writing(text, m, method, version, gap, body) ==
    /\ method \in Words \ {Long} /\ version \in Words \ {Long}
    /\ Gap(gap) /\ body \in Text
    /\ m.uri \in Seq(Symbols \ {"sp", "cr", "lf"}) \ {<<>>} /\ m.headers \in Headers
    /\ m = [method |-> GetHTTPMethod(<<method>>), uri |-> m.uri,
            version |-> GetHTTPVersion(<<version>>), headers |-> m.headers,
            body |-> IF method \in WithBody THEN body ELSE <<>>]
    /\ Announced(m, body)
    /\ text = Sent(m, method, version, gap, body)

\* A client that means a message writes it in such parts.
LEMMA WritingThere ==
    ASSUME NEW text \in Text, NEW m, Writes(text, m)
    PROVE  \E method, version, gap, body : Writing(text, m, method, version, gap, body)
  <1>1. PICK method \in Words \ {Long}, version \in Words \ {Long}, b \in 0..Len(text),
             k \in 0..Len(text) :
           LET body == SubSeq(text, b + 1, Len(text))
           IN /\ m = [method |-> GetHTTPMethod(<<method>>), uri |-> m.uri,
                      version |-> GetHTTPVersion(<<version>>), headers |-> m.headers,
                      body |-> IF method \in WithBody THEN body ELSE <<>>]
              /\ Announced(m, body)
              /\ text = Compose(<<method>>, m.uri, <<version>>, m.headers,
                                [i \in 1..k |-> "sp"], body)
    BY DEF Writes
  <1>2. PICK body : body = SubSeq(text, b + 1, Len(text))
    OBVIOUS
  <1>3. body \in Text
    <2>1. Len(text) \in Nat
      BY LenProperties
    <2>2. PICK p, q : p = b + 1 /\ q = Len(text) + 1
      OBVIOUS
    <2>3. p \in Nat \ {0} /\ q \in Nat /\ p <= q /\ q - 1 <= Len(text) /\ q - 1 = Len(text)
      BY <2>1, <2>2
    <2>4. SubSeq(text, p, q - 1) \in Text
      <3> HIDE DEF Text
      <3> QED BY <2>3, Between
    <2> QED BY <1>2, <2>2, <2>3, <2>4
  <1>4. PICK gap : gap = [i \in 1..k |-> "sp"]
    OBVIOUS
  <1>5. Gap(gap)
    <2>1. "sp" \in Symbols /\ k \in Nat
      BY LenProperties DEF Symbols, Delimiters
    <2>2. gap \in Text /\ Len(gap) = k /\ \A i \in 1..k : gap[i] = "sp"
      BY <1>4, <2>1
    <2> QED BY <2>2 DEF Gap
  <1>6. Writing(text, m, method, version, gap, body)
    BY <1>1, <1>2, <1>3, <1>4, <1>5 DEF Writes, Writing, Sent
  <1> QED BY <1>6

\* The parts of a message can be told apart.
LEMMA WritingClear ==
    ASSUME NEW text, NEW m, NEW method, NEW version, NEW gap, NEW body,
           Writing(text, m, method, version, gap, body)
    PROVE  /\ ClearLine(<<method>>, m.uri, <<version>>)
           /\ Fits(<<method>>) /\ Fits(<<version>>)
           /\ m.headers # <<>> => ClearHeaders(m.headers)
           /\ Len(m.headers) \in Nat
           /\ GetHTTPMethod(<<method>>) \in WithBody <=> method \in WithBody
  <1>1. /\ method \in Words /\ method # Long /\ version \in Words /\ version # Long
        /\ m.uri \in Seq(Symbols \ {"sp", "cr", "lf"}) /\ m.uri # <<>>
        /\ m.headers \in Headers
    BY DEF Writing
  <1>2. /\ <<method>> \in Text /\ Len(<<method>>) = 1 /\ <<method>>[1] = method
        /\ <<version>> \in Text /\ Len(<<version>>) = 1 /\ <<version>>[1] = version
        /\ method # "sp" /\ version # "cr"
    BY <1>1, WordsAre
  <1>3. Fits(<<method>>) /\ Fits(<<version>>)
    BY <1>1 DEF Fits, ToSet
  <1>4. m.uri \in Text /\ \A i \in 1..Len(m.uri) : m.uri[i] # "sp"
    <2>1. \A i \in 1..Len(m.uri) : m.uri[i] \in Symbols \ {"sp", "cr", "lf"}
      BY <1>1, ElementOfSeq
    <2>2. m.uri \in Seq(Symbols)
      BY <1>1, SeqOfMore
    <2> QED BY <2>1, <2>2
  <1>5. ClearLine(<<method>>, m.uri, <<version>>)
    <2>1. <<method>> # <<>> /\ <<version>> # <<>>
      OBVIOUS
    <2>2. \A i \in 1..Len(<<method>>) : <<method>>[i] # "sp"
      BY <1>2
    <2>3. \A i \in 1..Len(<<version>>) : <<version>>[i] # "cr"
      BY <1>2
    <2> HIDE DEF Text
    <2> QED BY <1>1, <1>2, <1>4, <2>1, <2>2, <2>3 DEF ClearLine
  <1>6. PICK hs : hs = m.headers
    OBVIOUS
  <1>7. Len(hs) \in Nat
    BY <1>1, <1>6, LenProperties DEF Headers
  <1>8. ASSUME NEW i \in 1..Len(hs)
        PROVE  /\ hs[i] \in [name : Text, value : Text] /\ Clear(hs[i])
               /\ ~StartsAt(hs[i].name, 1, Crlf)
    <2>1. PICK h : h = hs[i]
      OBVIOUS
    <2>2. h \in [name : Seq(Words) \ {<<>>},
                 value : {v \in Seq(Symbols \ {"cr", "lf"}) : v = <<>> \/ v[1] # "sp"}]
      BY <1>1, <1>6, <2>1, ElementOfSeq DEF Headers
    <2>3. /\ h = [name |-> h.name, value |-> h.value]
          /\ h.name \in Seq(Words) /\ h.name # <<>>
          /\ h.value \in Seq(Symbols \ {"cr", "lf"})
          /\ h.value = <<>> \/ h.value[1] # "sp"
      BY <2>2
    <2>4. h.name \in Text /\ h.value \in Text
      BY <2>3, SeqOfMore, WordsAre
    <2>5. \A k \in 1..Len(h.name) : h.name[k] \in Words
      BY <2>3, ElementOfSeq
    <2>6. \A k \in 1..Len(h.value) : h.value[k] # "cr"
      BY <2>3, ElementOfSeq
    <2>7. \A k \in 1..Len(h.name) : h.name[k] # ":" /\ h.name[k] # "cr"
      BY <2>5, WordsAre
    <2>8. h \in [name : Text, value : Text]
      BY <2>3, <2>4
    <2>9. Clear(h)
      <3> HIDE DEF Text
      <3> QED BY <2>3, <2>6, <2>7, <2>8 DEF Clear
    <2>10. ~StartsAt(h.name, 1, Crlf)
      <3> SUFFICES ASSUME StartsAt(h.name, 1, Crlf) PROVE FALSE
        OBVIOUS
      <3>1. 1 \in Nat \ {0}
        OBVIOUS
      <3>2. 1 + 1 <= Len(h.name) /\ h.name[1] = "cr"
        <4> HIDE DEF Text
        <4> QED BY <2>4, <3>1, EndOfLine
      <3>3. 1 \in 1..Len(h.name)
        BY <2>4, <3>2, LenProperties
      <3> QED BY <2>7, <3>2, <3>3
    <2> QED BY <2>1, <2>8, <2>9, <2>10
  <1>9. ASSUME hs # <<>> PROVE ClearHeaders(hs)
    <2>1. hs = [i \in 1..Len(hs) |-> hs[i]]
      BY <1>1, <1>6, LenProperties DEF Headers
    <2>2. hs \in Seq([name : Text, value : Text])
      <3>1. \A i \in 1..Len(hs) : hs[i] \in [name : Text, value : Text]
        BY <1>8
      <3> HIDE DEF Text
      <3>2. [i \in 1..Len(hs) |-> hs[i]] \in Seq([name : Text, value : Text])
        BY <1>7, <3>1
      <3> QED BY <2>1, <3>2
    <2> HIDE DEF Text
    <2> QED BY <1>7, <1>8, <1>9, <2>2 DEF ClearHeaders
  <1>10. GetHTTPMethod(<<method>>) \in WithBody <=> method \in WithBody
    BY <1>2 DEF GetHTTPMethod, WithBody, Methods
  <1> QED BY <1>3, <1>5, <1>6, <1>7, <1>9, <1>10

\* The text of a message is read as the message, if it is read, and it is read if
\* the parser takes such messages.
LEMMA WholeAsMeant ==
    ASSUME NEW text \in Text, NEW m, Writes(text, m)
    PROVE  /\ Parse(text).ok => Parse(text).request = m
           /\ Understood(m) => Parse(text).ok
  <1> HIDE DEF Text
  <1>1. PICK method, version, gap, body : Writing(text, m, method, version, gap, body)
    BY WritingThere
  <1>2. /\ ClearLine(<<method>>, m.uri, <<version>>)
        /\ Fits(<<method>>) /\ Fits(<<version>>) /\ Len(m.headers) \in Nat
        /\ GetHTTPMethod(<<method>>) \in WithBody <=> method \in WithBody
    BY <1>1, WritingClear
  <1>3. /\ Gap(gap) /\ body \in Text /\ Announced(m, body)
        /\ text = Compose(<<method>>, m.uri, <<version>>, m.headers, gap, body)
    BY <1>1 DEF Writing, Sent
  <1>4. /\ m.method = GetHTTPMethod(<<method>>) /\ m.version = GetHTTPVersion(<<version>>)
        /\ m.body = IF method \in WithBody THEN body ELSE <<>>
        /\ m = [method |-> m.method, uri |-> m.uri, version |-> m.version,
                headers |-> m.headers, body |-> m.body]
    <2>1. PICK a, b, c, d, e : /\ m = [method |-> a, uri |-> b, version |-> c,
                                       headers |-> d, body |-> e]
                               /\ a = GetHTTPMethod(<<method>>)
                               /\ c = GetHTTPVersion(<<version>>)
                               /\ e = IF method \in WithBody THEN body ELSE <<>>
      BY <1>1 DEF Writing
    <2> QED BY <2>1
  <1>5. CASE m.headers = <<>>
    <2>1. \A i \in 1..Len(body) : body[i] # ":"
      <3>1. ":" \notin ToSet(body)
        BY <1>3, <1>5 DEF Announced
      <3>2. DOMAIN body = 1..Len(body)
        BY <1>3, LenProperties DEF Text
      <3> QED BY <3>1, <3>2 DEF ToSet
    <2>2. ~Parse(text).ok
      BY <1>2, <1>3, <1>5, <2>1, NoHeaders
    <2>3. ~Understood(m)
      <3>1. Len(m.headers) = 0
        BY <1>5
      <3> QED BY <3>1 DEF Understood
    <2> QED BY <2>2, <2>3
  <1>6. CASE m.headers # <<>>
    <2>1. ClearHeaders(m.headers)
      BY <1>1, <1>6, WritingClear
    <2>2. Parse(text) = ReadBack(<<method>>, m.uri, <<version>>, m.headers, body)
      BY <1>2, <1>3, <2>1, ParseOfCompose
    <2>3. PICK line : line = [method |-> m.method, uri |-> m.uri, version |-> m.version]
      OBVIOUS
    <2>4. PICK content : content = IF m.method \in WithBody
                                   THEN ParseBody(body, [headers |-> m.headers, position |-> 1])
                                   ELSE [ok |-> TRUE, body |-> <<>>]
      OBVIOUS
    <2>5. Parse(text) =
             IF /\ Fits(m.uri) /\ \A i \in 1..Len(m.headers) : FieldFits(m.headers[i])
                /\ Len(m.headers) <= MaxHeaders
             THEN Request(line, [headers |-> m.headers], content)
             ELSE Failed
      BY <1>2, <1>4, <2>2, <2>3, <2>4 DEF ReadBack
    <2>6. PICK size, n : /\ size = SearchHeader(m.headers, "Content-Length")
                         /\ n = Number(size.value)
      OBVIOUS
    <2>7. m.method \in WithBody => content = Body(body, 1, size, n) /\ m.body = body
      <3>1. m.method \in WithBody => method \in WithBody
        BY <1>2, <1>4
      <3> QED BY <1>4, <2>4, <2>6, <3>1 DEF ParseBody
    <2>8. m.method \notin WithBody => content = [ok |-> TRUE, body |-> <<>>] /\ m.body = <<>>
      BY <1>2, <1>4, <2>4
    <2>9. Len(body) \in Nat /\ n.value \in Int
      BY <1>3, <2>6, LenProperties, NumberType DEF Text
    <2>10. m.method \in WithBody /\ size.ok => n.value >= Len(body)
      BY <1>3, <2>6 DEF Announced
    <2>11. content.ok => content.body = m.body
      <3>1. CASE m.method \in WithBody
        <4> SUFFICES ASSUME content.ok PROVE content.body = body
          BY <2>7, <3>1
        <4>1. /\ size.ok /\ BodyLength(n.value) \in 0..(Len(body) - 1 + 1)
              /\ content.body = SubSeq(body, 1, 1 + BodyLength(n.value) - 1)
          BY <2>7, <3>1 DEF Body, Failed
        <4>2. BodyLength(n.value) = Len(body) /\ 1 + BodyLength(n.value) - 1 = Len(body)
          BY <2>9, <2>10, <3>1, <4>1 DEF BodyLength
        <4>3. SubSeq(body, 1, Len(body)) = body
          BY <1>3, SubSeqFull DEF Text
        <4> QED BY <4>1, <4>2, <4>3
      <3>2. CASE m.method \notin WithBody
        BY <2>8, <3>2
      <3> QED BY <3>1, <3>2
    <2>12. ASSUME Parse(text).ok PROVE Parse(text).request = m
      <3>1. Parse(text) = Request(line, [headers |-> m.headers], content)
        BY <2>5, <2>12 DEF Failed
      <3>2. content.ok
        BY <2>12, <3>1 DEF Request, Failed
      <3>3. Parse(text).request = [method |-> m.method, uri |-> m.uri, version |-> m.version,
                                   headers |-> m.headers, body |-> content.body]
        BY <2>3, <3>1, <3>2 DEF Request
      <3> QED BY <1>4, <2>11, <3>2, <3>3
    <2>13. ASSUME Understood(m) PROVE Parse(text).ok
      <3>1. Len(m.headers) <= MaxHeaders /\ Fits(m.uri)
        <4>1. Len(m.headers) \in 1..MaxHeaders
          BY <2>13 DEF Understood
        <4> QED BY <2>13, <4>1 DEF Understood
      <3>2. ASSUME NEW i \in 1..Len(m.headers) PROVE FieldFits(m.headers[i])
        <4>1. i \in DOMAIN m.headers
          BY <2>1, LenProperties DEF ClearHeaders
        <4>2. m.headers[i] \in ToSet(m.headers)
          BY <4>1 DEF ToSet
        <4> QED BY <2>13, <4>2 DEF Understood, FieldFits
      <3>3. content.ok
        <4>1. CASE m.method \in WithBody
          <5>1. Len(body) \in 1..MaxUnsigned /\ size.ok /\ n.value = Len(body)
            BY <2>6, <2>7, <2>13, <4>1 DEF Understood
          <5>2. Len(body) # 0 /\ MaxUnsigned \in Nat
            BY <5>1, ParserAssumption
          <5>3. n.digits
            BY <2>6, <5>1, <5>2 DEF Number
          <5>4. /\ 1 <= Len(body) /\ BodyLength(n.value) \in 0..(Len(body) - 1 + 1)
                /\ n.value \in (-MaxUnsigned)..MaxUnsigned
            BY <2>9, <5>1, <5>2 DEF BodyLength
          <5> QED BY <2>7, <4>1, <5>1, <5>3, <5>4 DEF Body
        <4>2. CASE m.method \notin WithBody
          BY <2>8, <4>2
        <4> QED BY <4>1, <4>2
      <3> QED BY <2>5, <3>1, <3>2, <3>3 DEF Request
    <2> QED BY <2>12, <2>13
  <1> QED BY <1>5, <1>6

\* The bytes that follow a CONNECT are no part of it.
LEMMA BytesNotRead ==
    ASSUME NEW text \in Text, NEW m, Writes(text, m), m.method = "CONNECT", NEW k \in Nat,
           Parse(text \o Bytes(k)).ok
    PROVE  Parse(text \o Bytes(k)) = Parse(text)
  <1>b. Bytes(k) \in Text /\ \A i \in 1..Len(Bytes(k)) : Bytes(k)[i] # ":"
    BY BytesType
  <1> HIDE DEF Text
  <1>1. PICK method, version, gap, body : Writing(text, m, method, version, gap, body)
    BY WritingThere
  <1>2. /\ ClearLine(<<method>>, m.uri, <<version>>) /\ Len(m.headers) \in Nat
    BY <1>1, WritingClear
  <1>3. /\ Gap(gap) /\ body \in Text /\ Announced(m, body)
        /\ text = Compose(<<method>>, m.uri, <<version>>, m.headers, gap, body)
    BY <1>1 DEF Writing, Sent
  <1>4. GetHTTPMethod(<<method>>) \notin WithBody
    <2>1. m.method = GetHTTPMethod(<<method>>)
      BY <1>1 DEF Writing
    <2> QED BY <2>1 DEF WithBody
  <1>5. PICK longer : longer = body \o Bytes(k)
    OBVIOUS
  <1>6. longer \in Text
    BY <1>b, <1>3, <1>5, Joined
  <1>7. PICK fields : fields = FlattenSeq([i \in DOMAIN m.headers |->
                         m.headers[i].name \o <<":">> \o gap \o m.headers[i].value \o Crlf])
    OBVIOUS
  <1>8. \A b : Compose(<<method>>, m.uri, <<version>>, m.headers, gap, b) =
                  Composed(<<method>>, m.uri, <<version>>, fields, b)
    BY <1>7 DEF Compose, Composed
  <1>9. fields \in Text
    <2>1. CASE m.headers = <<>>
      <3>1. fields = <<>>
        <4>1. [i \in DOMAIN m.headers |->
                  m.headers[i].name \o <<":">> \o gap \o m.headers[i].value \o Crlf] = <<>>
          BY <2>1
        <4> QED BY <1>7, <4>1 DEF FlattenSeq
      <3> QED BY <3>1 DEF Text
    <2>2. CASE m.headers # <<>>
      <3>1. ClearHeaders(m.headers)
        BY <1>1, <2>2, WritingClear
      <3>2. fields = FlattenSeq(Fields(m.headers, gap))
        BY <1>7 DEF Fields, Field
      <3> QED BY <1>3, <3>1, <3>2, FieldsText
    <2> QED BY <2>1, <2>2
  <1>10. text \o Bytes(k) =
            Compose(<<method>>, m.uri, <<version>>, m.headers, gap, longer)
    <2>1. <<method>> \in Text /\ m.uri \in Text /\ <<version>> \in Text
      BY <1>2 DEF ClearLine
    <2>2. PICK more : more = Bytes(k)
      OBVIOUS
    <2>3. more \in Text /\ longer = body \o more
      BY <1>b, <1>5, <2>2
    <2>4. text = Composed(<<method>>, m.uri, <<version>>, fields, body)
      BY <1>3, <1>8
    <2>5. text \o more = Composed(<<method>>, m.uri, <<version>>, fields, longer)
      <3>1. PICK a, b, c : a = <<method>> /\ b = m.uri /\ c = <<version>>
        OBVIOUS
      <3>2. a \in Text /\ b \in Text /\ c \in Text
        BY <2>1, <3>1
      <3>3. Consists(text, a, b, c, fields, body)
        BY <1>3, <1>9, <2>4, <3>1, <3>2 DEF Consists
      <3>4. PICK all : all = text \o more
        OBVIOUS
      <3>5. Joins(longer, body, more) /\ Joins(all, text, more)
        BY <1>3, <2>3, <3>4 DEF Joins
      <3>6. Consists(all, a, b, c, fields, longer)
        BY <3>3, <3>5, ComposedMore
      <3> QED BY <3>1, <3>4, <3>6 DEF Consists
    <2> QED BY <1>8, <2>2, <2>5
  <1>11. m.headers # <<>>
    <2> SUFFICES ASSUME m.headers = <<>> PROVE FALSE
      OBVIOUS
    <2>1. \A i \in 1..Len(longer) : longer[i] # ":"
      <3>1. ":" \notin ToSet(body)
        BY <1>3 DEF Announced
      <3>2. DOMAIN body = 1..Len(body)
        BY <1>3, LenProperties DEF Text
      <3>3. \A i \in 1..Len(body) : body[i] # ":"
        BY <3>1, <3>2 DEF ToSet
      <3>4. PICK bytes : bytes = Bytes(k)
        OBVIOUS
      <3>5. bytes \in Text /\ \A i \in 1..Len(bytes) : bytes[i] # ":"
        BY <1>b, <3>4
      <3>6. longer = body \o bytes
        BY <1>5, <3>4
      <3>7. /\ Len(longer) = Len(body) + Len(bytes) /\ Len(body) \in Nat /\ Len(bytes) \in Nat
            /\ \A i \in 1..Len(longer) : longer[i] = IF i <= Len(body) THEN body[i]
                                                     ELSE bytes[i - Len(body)]
        BY <1>3, <3>5, <3>6, ConcatProperties, LenProperties DEF Text
      <3>8. ASSUME NEW i \in 1..Len(longer) PROVE longer[i] # ":"
        <4>1. CASE i <= Len(body)
          BY <3>3, <3>7, <4>1
        <4>2. CASE ~(i <= Len(body))
          <5>1. i - Len(body) \in 1..Len(bytes)
            BY <3>7, <4>2
          <5> QED BY <3>5, <3>7, <4>2, <5>1
        <4> QED BY <4>1, <4>2
      <3> QED BY <3>8
    <2>2. ~Parse(Compose(<<method>>, m.uri, <<version>>, <<>>, gap, longer)).ok
      BY <1>2, <1>6, <2>1, NoHeaders
    <2> QED BY <1>10, <2>2
  <1>12. ClearHeaders(m.headers)
    BY <1>1, <1>11, WritingClear
  <1>13. \A b \in Text :
            Parse(Compose(<<method>>, m.uri, <<version>>, m.headers, gap, b)) =
               ReadBack(<<method>>, m.uri, <<version>>, m.headers, b)
    BY <1>2, <1>3, <1>12, ParseOfCompose
  <1>14. ReadBack(<<method>>, m.uri, <<version>>, m.headers, body) =
            ReadBack(<<method>>, m.uri, <<version>>, m.headers, longer)
    BY <1>4 DEF ReadBack
  <1>15. Parse(text) = ReadBack(<<method>>, m.uri, <<version>>, m.headers, body)
    BY <1>3, <1>13
  <1>16. Parse(text \o Bytes(k)) = ReadBack(<<method>>, m.uri, <<version>>, m.headers, longer)
    BY <1>6, <1>10, <1>13
  <1> QED BY <1>14, <1>15, <1>16
------------------------------------------------------------------------------
(***************************************************************************)
(* What a connection has received, and what it makes of it.                *)
(***************************************************************************)
\* The first recv returned a part of the opening, or all of it and some of the
\* bytes that follow a CONNECT.
Received ==
    \/ buffer # <<>> /\ Begins(buffer, opening.text)
    \/ Speaks /\ \E k \in Nat : buffer = opening.text \o Bytes(k)

\* The request that the handler acts on is the one in its buffer, and what it
\* sends on is the buffer or the request with one hop less.
Texts ==
    /\ opening \in Openings
    /\ pc = "recv" /\ inbox["client"] # <<>> => Speaks
    /\ \/ buffer = <<>> /\ parsed = Failed
       \/ Received /\ parsed = Parse(buffer)
    /\ pc \in {"parsed", "forward"} => Received /\ parsed = Parse(buffer)
    /\ pc # "forward" => outgoing = <<>>
    /\ pc = "forward" =>
          /\ parsed.ok
          /\ \/ OptionsFlow(request) = "continue" /\ outgoing = buffer
             \/ /\ OptionsFlow(request) = "rewrite"
                /\ outgoing = ToRaw(DecrementMaxForwards(request))

\* The thread has stopped reading texts, or stops now.
GoesOn ==
    /\ pc # "forward" /\ pc' \notin {"recv", "parsed", "forward"}
    /\ UNCHANGED message

\* There are no other steps.
LEMMA TextKinds ==
    ASSUME [Next]_vars
    PROVE  \/ RecvRequest \/ Forward \/ OptionsForwarded \/ GoesOn
           \/ Speaks /\ UNCHANGED <<pc, message>>
           \/ UNCHANGED <<pc, inbox, message>>
  <1>1. CASE HandlerStep
    <2>1. CASE RecvNothing
      BY <2>1 DEF RecvNothing, GoesOn
    <2>3. CASE OpenTunnel
      BY <2>3 DEF OpenTunnel, Accepts, GoesOn
    <2>4. CASE CloseClient
      <3>1. pc = "close client" /\ pc' = "closed" /\ UNCHANGED message
        BY <2>4 DEF CloseClient
      <3> QED BY <3>1 DEF GoesOn
    <2>2. ASSUME pc = "parsed", NEW code, AnswerAndClose(code), UNCHANGED message PROVE GoesOn
      BY <2>2 DEF AnswerAndClose, GoesOn
    <2>5. CASE BadRequest \/ Unsupported \/ RefuseTarget
      <3>1. pc = "parsed" /\ UNCHANGED message /\ \E code : AnswerAndClose(code)
        BY <2>5 DEF BadRequest, Unsupported, RefuseTarget, Accepts
      <3> QED BY <2>2, <3>1
    <2>6. CASE OptionsBad \/ OptionsLocally
      <3>1. pc = "parsed" /\ UNCHANGED message /\ \E code : AnswerAndClose(code)
        BY <2>6 DEF OptionsBad, OptionsLocally, Accepts
      <3> QED BY <2>2, <3>1
    <2> QED BY <1>1, <2>1, <2>3, <2>4, <2>5, <2>6 DEF HandlerStep
  <1>2. CASE TunnelStep /\ UNCHANGED message
    <2>1. pc # "forward" /\ pc' \notin {"recv", "parsed", "forward"}
      <3>1. CASE Connect \/ ConnectError \/ Established \/ EstablishedError \/ CloseTarget
        BY <3>1 DEF Connect, ConnectError, Established, EstablishedError,
           CloseTarget,
                    AnswerAndClose
      <3>2. CASE Select
        BY <3>2 DEF Select
      <3>3. ASSUME NEW e \in Ends, Recv(e) \/ RecvEnd(e)
            PROVE  pc # "forward" /\ pc' \notin {"recv", "parsed", "forward"}
        BY <3>3 DEF Recv, RecvEnd, Ends
      <3>4. CASE SendSome
        BY <3>4 DEF SendSome
      <3>5. CASE SendError
        BY <3>5 DEF SendError
      <3> QED BY <1>2, <3>1, <3>2, <3>3, <3>4, <3>5 DEF TunnelStep
    <2> QED BY <1>2, <2>1 DEF GoesOn
  <1>3. CASE Speaks /\ EndStep /\ UNCHANGED message
    <2>1. pc' = pc
      BY <1>3 DEF EndStep, Say, FinishSpeaking, Leave, Read
    <2> QED BY <1>3, <2>1
  <1>4. CASE UNCHANGED vars
    BY <1>4 DEF vars, tunnel, world
  <1> QED BY <1>1, <1>2, <1>3, <1>4 DEF Next

\* Every step keeps them.
LEMMA TextsStep == ASSUME Base, Texts, [Next]_vars PROVE Texts'
  <1> HIDE DEF Text
  <1>1. CASE RecvRequest
    <2>1. /\ pc = "recv" /\ pc' = "parsed" /\ opening' = opening /\ outgoing' = outgoing
          /\ parsed' = Parse(buffer')
      BY <1>1 DEF RecvRequest
    <2>2. outgoing = <<>> /\ opening \in Openings
      BY <2>1 DEF Texts
    <2>3. opening.text \in Text /\ opening.text # <<>>
      BY <2>2, OpeningsAssumption
    <2>4. Received'
      <3>1. ASSUME NEW n \in 1..Len(opening.text), buffer' = SubSeq(opening.text, 1, n)
            PROVE  Received'
        <4>1. buffer' # <<>> /\ Begins(buffer', opening.text)
          BY <2>3, <3>1, Beginning
        <4> QED BY <2>1, <4>1 DEF Received
      <3>2. ASSUME NEW k \in 1..Len(inbox["client"]),
                   buffer' = opening.text \o [i \in 1..k |-> "byte"]
            PROVE  Received'
        <4>1. inbox["client"] # <<>>
          BY <3>2
        <4>2. Speaks /\ Speaks'
          BY <2>1, <4>1 DEF Texts, Speaks
        <4>3. k \in Nat /\ buffer' = opening.text \o Bytes(k)
          BY <3>2 DEF Bytes
        <4> QED BY <2>1, <4>2, <4>3 DEF Received
      <3> QED BY <1>1, <3>1, <3>2 DEF RecvRequest
    <2> QED BY <2>1, <2>2, <2>4 DEF Texts
  <1>2. ASSUME UNCHANGED <<opening, buffer, parsed>> PROVE Received' = Received
    BY <1>2 DEF Received, Speaks
  <1>3. CASE Forward
    <2>1. /\ pc = "parsed" /\ pc' = "forward" /\ parsed.ok /\ outgoing' = buffer
          /\ UNCHANGED <<opening, buffer, parsed>>
          /\ OptionsFlow(request) = "continue"
      BY <1>3 DEF Forward, Accepts
    <2>2. Received' /\ opening \in Openings /\ parsed = Parse(buffer)
      BY <1>2, <2>1 DEF Texts
    <2>3. request' = request
      BY <2>1 DEF request
    <2> QED BY <2>1, <2>2, <2>3 DEF Texts
  <1>4. CASE OptionsForwarded
    <2>1. /\ pc = "parsed" /\ pc' = "forward" /\ parsed.ok
          /\ outgoing' = ToRaw(DecrementMaxForwards(request))
          /\ UNCHANGED <<opening, buffer, parsed>>
          /\ OptionsFlow(request) = "rewrite"
      BY <1>4 DEF OptionsForwarded, Accepts
    <2>2. Received' /\ opening \in Openings /\ parsed = Parse(buffer)
      BY <1>2, <2>1 DEF Texts
    <2>3. request' = request
      BY <2>1 DEF request
    <2> QED BY <2>1, <2>2, <2>3 DEF Texts
  <1>5. CASE GoesOn
    <2>1. Received' = Received
      BY <1>2, <1>5 DEF GoesOn, message
    <2> QED BY <1>5, <2>1 DEF GoesOn, message, Texts
  <1>6. CASE UNCHANGED <<pc, message>> /\ (Speaks \/ UNCHANGED inbox)
    <2>1. Received' = Received /\ Speaks' = Speaks /\ request' = request
      BY <1>2, <1>6 DEF message, Speaks, request
    <2> QED BY <1>6, <2>1 DEF message, Texts
  <1> QED BY <1>1, <1>3, <1>4, <1>5, <1>6, TextKinds

\* They hold always.
LEMMA TextsHold == Spec => []Texts
  <1>1. Init => Texts
    <2> SUFFICES ASSUME Init PROVE Texts
      OBVIOUS
    <2>1. pc = "recv" /\ opening \in Openings /\ buffer = <<>> /\ outgoing = <<>>
          /\ parsed = Failed
      BY DEF Init
    <2>2. inbox["client"] = <<>>
      BY DEF Init, TunnelInit, Ends
    <2> QED BY <2>1, <2>2 DEF Texts
  <1>2. Base /\ Texts /\ [Next]_vars => Texts'
    BY TextsStep
  <1> QED BY <1>1, <1>2, BaseInvariant, PTL DEF Spec
------------------------------------------------------------------------------
(***************************************************************************)
(* The properties.                                                         *)
(***************************************************************************)
\* What was received is a text, and has the opening as a prefix or is one of it.
LEMMA ReceivedType ==
    ASSUME opening \in Openings, Received
    PROVE  /\ buffer \in Text /\ buffer # <<>>
           /\ IsPrefix(buffer, opening.text) \/ IsPrefix(opening.text, buffer)
  <1>1. opening.text \in Text /\ opening.text # <<>>
    BY OpeningsAssumption
  <1>2. CASE buffer # <<>> /\ Begins(buffer, opening.text)
    <2>1. /\ buffer \in Text /\ Len(buffer) <= Len(opening.text)
          /\ \A i \in 1..Len(buffer) : buffer[i] = opening.text[i]
      BY <1>2 DEF Begins
    <2>2. Len(buffer) \in 1..Len(opening.text)
      <3>1. Len(buffer) \in Nat /\ Len(opening.text) \in Nat /\ Len(buffer) # 0
        BY <1>1, <1>2, <2>1, LenProperties, EmptySeq
      <3> QED BY <2>1, <3>1
    <2>3. buffer = SubSeq(opening.text, 1, Len(buffer))
      <3>1. PICK t, n : n = Len(buffer) /\ t = SubSeq(opening.text, 1, n)
        OBVIOUS
      <3>2. Begins(t, opening.text) /\ t \in Text /\ Len(t) = n
            /\ \A i \in 1..n : t[i] = opening.text[i]
        <4>1. n \in 1..Len(opening.text)
          BY <2>2, <3>1
        <4>2. Begins(t, opening.text)
          BY <1>1, <3>1, <4>1, Beginning
        <4>3. Len(t) = n
          BY <1>1, <3>1, <4>1
        <4> QED BY <4>2, <4>3 DEF Begins
      <3>3. Len(t) = Len(buffer) /\ \A i \in 1..Len(t) : t[i] = buffer[i]
        BY <2>1, <3>1, <3>2
      <3>4. t = buffer
        BY <2>1, <3>2, <3>3, SeqEqual
      <3> QED BY <3>1, <3>4
    <2>4. IsPrefix(buffer, opening.text)
      BY <1>1, <2>2, <2>3, Beginning
    <2> QED BY <1>2, <2>1, <2>4
  <1>3. ASSUME NEW k \in Nat, buffer = opening.text \o Bytes(k)
        PROVE  buffer \in Text /\ buffer # <<>> /\ IsPrefix(opening.text, buffer)
    <2>1. Bytes(k) \in Text
      BY BytesType
    <2> HIDE DEF Text
    <2> QED BY <1>1, <1>3, <2>1, Behind
  <1> QED BY <1>2, <1>3 DEF Received

\* Nothing is made of an empty text.
LEMMA ParsedNotEmpty ==
    ASSUME NEW text \in Text, Parse(text).ok
    PROVE  text # <<>>
  <1>1. ParseRequestLine(text).ok
    BY DEF Parse, Failed
  <1>2. PICK first \in Nat, second \in Nat, cr \in Nat : LineAt(text, first, second, cr)
    BY <1>1, LineNotThere
  <1>3. cr \in Nat /\ cr < Len(text)
    BY <1>2, LineOrder
  <1>4. Len(text) # 0
    BY <1>3
  <1> QED BY <1>4

\* Every variable of a connection has its type: in particular the method of a
\* request is one that the code knows, what was received is a part of what was
\* sent, or more, and something is sent on exactly when the handler forwards.
THEOREM ConnectionTypeCorrect == Spec => []TypeOK
  <1>1. Base /\ Phases /\ Texts => TypeOK
    <2> HIDE DEF Text
    <2> SUFFICES ASSUME Base, Phases, Texts PROVE TypeOK
      OBVIOUS
    <2>1. TunnelTypeOK
      BY DEF Base
    <2>2. pc \in {"recv", "parsed", "forward", "connect", "established",
                  "close target", "close client", "closed"} \union Relaying
      BY DEF Phases, Early, Over
    <2>3. opening \in Openings /\ opening.text \in Text
      BY OpeningsAssumption DEF Texts
    <2>4. IsPrefix(buffer, opening.text) \/ IsPrefix(opening.text, buffer)
      <3>1. CASE buffer = <<>>
        <4>1. SubSeq(<<>>, 1, 0) = <<>> /\ SubSeq(opening.text, 1, 0) = <<>>
          <5>1. 1 \in Int /\ 0 \in Int /\ 0 < 1
            OBVIOUS
          <5> QED BY <5>1, SubSeqEmpty
        <4>2. Len(<<>>) = 0 /\ 0 <= Len(opening.text)
          BY <2>3, LenProperties DEF Text
        <4> QED BY <3>1, <4>1, <4>2 DEF IsPrefix
      <3>2. CASE Received
        BY <2>3, <3>2, ReceivedType
      <3> QED BY <3>1, <3>2 DEF Texts
    <2>5. ASSUME parsed.ok
          PROVE  parsed = Parse(buffer) /\ buffer \in Text /\ request \in Requests
      <3>1. Received /\ parsed = Parse(buffer)
        BY <2>5 DEF Texts, Failed
      <3>2. buffer \in Text
        BY <2>3, <3>1, ReceivedType
      <3> QED BY <2>5, <3>1, <3>2, RequestShape DEF request
    <2>6. parsed.ok => request.method \in Methods \union {"UNKNOWN"}
      BY <2>5 DEF Requests
    <2>7. outgoing \in Text /\ (outgoing # <<>> <=> pc = "forward")
      <3>1. CASE pc # "forward"
        BY <3>1 DEF Texts, Text
      <3>2. CASE pc = "forward"
        <4>1. parsed.ok /\ Received
          BY <3>2 DEF Texts
        <4>2. CASE outgoing = buffer
          BY <2>3, <3>2, <4>1, <4>2, ReceivedType
        <4>3. CASE OptionsFlow(request) = "rewrite"
                   /\ outgoing = ToRaw(DecrementMaxForwards(request))
          <5>1. PICK d : d = DecrementMaxForwards(request)
            OBVIOUS
          <5>2. PICK i, w : Rewritten(request, d, i, w)
            BY <2>5, <4>1, <4>3, <5>1, Decremented
          <5>3. outgoing = ToRaw(d) /\ ToRaw(d) \in Text
                /\ Parse(ToRaw(d)) = [ok |-> TRUE, request |-> d]
            BY <2>5, <4>1, <4>3, <5>1, <5>2, RewrittenRead
          <5>4. Parse(ToRaw(d)).ok
            BY <5>3
          <5> QED BY <3>2, <5>3, <5>4, ParsedNotEmpty
        <4> QED BY <3>2, <4>2, <4>3 DEF Texts
      <3> QED BY <3>1, <3>2
    <2> QED BY <2>1, <2>2, <2>3, <2>4, <2>6, <2>7 DEF TypeOK
  <1> QED BY <1>1, BaseInvariant, PhasesHold, TextsHold, PTL

\* A request is never half understood: wherever recv cuts the text of a client,
\* the handler rejects it or acts on the request that the whole text makes, which
\* is what the client means; and what the parser takes is not rejected whole.
THEOREM RequestsReadAsMeant == Spec => []ReadAsMeant
  <1>1. Texts => ReadAsMeant
    <2> HIDE DEF Text
    <2> SUFFICES ASSUME Texts, pc = "parsed"
                 PROVE  /\ parsed.ok => /\ Parse(opening.text) = parsed
                                        /\ opening.meant \in {Nothing, request}
                        /\ opening.meant # Nothing /\ Understood(opening.meant) =>
                              Parse(opening.text).ok
      BY DEF ReadAsMeant
    <2>1. opening \in Openings /\ opening.text \in Text /\ Received /\ parsed = Parse(buffer)
      BY OpeningsAssumption DEF Texts
    <2>2. ASSUME opening.meant # Nothing
          PROVE  /\ Writes(opening.text, opening.meant)
                 /\ Parse(opening.text).ok => Parse(opening.text).request = opening.meant
                 /\ Understood(opening.meant) => Parse(opening.text).ok
      <3>1. Writes(opening.text, opening.meant)
        BY <2>1, <2>2, OpeningsAssumption
      <3> QED BY <2>1, <3>1, WholeAsMeant
    <2>3. ASSUME parsed.ok PROVE Parse(opening.text) = parsed
      <3>1. CASE Begins(buffer, opening.text)
        BY <2>1, <2>3, <3>1, NeverHalfUnderstood
      <3>2. ASSUME Speaks, NEW k \in Nat, buffer = opening.text \o Bytes(k)
            PROVE  Parse(opening.text) = parsed
        <4>1. opening.meant # Nothing /\ opening.meant.method = "CONNECT"
          BY <3>2 DEF Speaks
        <4>2. Writes(opening.text, opening.meant)
          BY <2>2, <4>1
        <4>3. Parse(opening.text \o Bytes(k)).ok
          BY <2>1, <2>3, <3>2
        <4>4. Parse(opening.text \o Bytes(k)) = Parse(opening.text)
          BY <2>1, <4>1, <4>2, <4>3, BytesNotRead
        <4> QED BY <2>1, <3>2, <4>4
      <3> QED BY <2>1, <3>1, <3>2 DEF Received
    <2>4. ASSUME parsed.ok PROVE opening.meant \in {Nothing, request}
      BY <2>2, <2>3, <2>4 DEF request
    <2> QED BY <2>2, <2>3, <2>4
  <1> QED BY <1>1, TextsHold, PTL

\* An OPTIONS request that goes on reaches the next parser with one hop less than
\* it came with and otherwise unchanged, or not at all.
THEOREM NextHopReads == Spec => []NextHopReadsOneLess
  <1>1. Texts => NextHopReadsOneLess
    <2> HIDE DEF Text
    <2> SUFFICES ASSUME Texts, pc = "forward", OptionsFlow(request) = "rewrite",
                        NEW n \in 1..Len(outgoing)
                 PROVE  LET next == Parse(SubSeq(outgoing, 1, n))
                        IN IF next.ok THEN OneHopLess(request, next.request)
                                      ELSE n < Len(outgoing)
      BY DEF NextHopReadsOneLess
    <2>1. opening \in Openings /\ Received /\ parsed = Parse(buffer) /\ parsed.ok
          /\ outgoing = ToRaw(DecrementMaxForwards(request))
      BY DEF Texts
    <2>2. buffer \in Text
      BY <2>1, ReceivedType
    <2>3. request \in Requests
      BY <2>1, <2>2, RequestShape DEF request
    <2>4. PICK r, d : r = request /\ d = DecrementMaxForwards(r)
      OBVIOUS
    <2>5. PICK i, w : Rewritten(r, d, i, w)
      BY <2>3, <2>4, Decremented
    <2>6. /\ outgoing \in Text /\ Parse(outgoing) = [ok |-> TRUE, request |-> d]
          /\ MaxForwards(d) = [ok |-> TRUE, at |-> i, value |-> <<w>>]
      BY <2>1, <2>3, <2>4, <2>5, RewrittenRead
    <2>7. OneHopLess(r, d)
      <3>1. /\ MaxForwards(r).at = i /\ FirstNamed(r.headers, "Max-Forwards", i)
            /\ w \in DOMAIN Numeral
            /\ OneLess(Number(MaxForwards(r).value).value) = <<w>>
            /\ Numeral[w] \in 0..(Number(MaxForwards(r).value).value - 1)
            /\ d.headers[i] = [name |-> r.headers[i].name, value |-> <<w>>]
            /\ \A j \in 1..Len(r.headers) \ {i} : d.headers[j] = r.headers[j]
        BY <2>5 DEF Rewritten
      <3>2. d.headers[i].value = <<w>>
        BY <3>1
      <3>3. Number(MaxForwards(d).value).value = Numeral[w]
        <4>1. MaxForwards(d).value = <<w>>
          BY <2>6
        <4>2. Number(<<w>>) = [digits |-> TRUE, whole |-> TRUE, value |-> Numeral[w]]
          BY <3>1, NumberOfWord
        <4>3. Number(<<w>>).value = Numeral[w]
          BY <4>2
        <4> QED BY <4>1, <4>3
      <3>4. DOMAIN r.headers = 1..Len(r.headers)
        BY <2>3, <2>4, LenProperties DEF Requests
      <3>5. d = [r EXCEPT !.headers = d.headers]
        <4>1. d = [r EXCEPT !.headers = [r.headers EXCEPT ![i].value =
                                            OneLess(Number(MaxForwards(r).value).value)]]
          BY <2>4, <3>1 DEF DecrementMaxForwards
        <4>2. PICK new : d = [r EXCEPT !.headers = new]
          BY <4>1
        <4>3. "headers" \in DOMAIN r
          BY <2>3, <2>4 DEF Requests
        <4>4. d.headers = new
          BY <4>2, <4>3
        <4> QED BY <4>2, <4>4
      <3> QED BY <3>1, <3>2, <3>3, <3>4, <3>5 DEF OneHopLess
    <2>8. PICK t : t = SubSeq(outgoing, 1, n)
      OBVIOUS
    <2>9. CASE Parse(t).ok
      <3>1. Begins(t, outgoing)
        BY <2>6, <2>8, Beginning
      <3>2. Parse(t) = Parse(outgoing)
        BY <2>9, <3>1, NeverHalfUnderstood
      <3>3. Parse(t).request = d
        BY <2>6, <3>2
      <3> QED BY <2>4, <2>7, <2>8, <2>9, <3>3
    <2>10. CASE ~Parse(t).ok
      <3>1. n # Len(outgoing)
        <4> SUFFICES ASSUME n = Len(outgoing) PROVE FALSE
          OBVIOUS
        <4>1. t = outgoing
          BY <2>6, <2>8, SubSeqFull DEF Text
        <4> QED BY <2>6, <2>10, <4>1
      <3>2. Len(outgoing) \in Nat
        BY <2>6, LenProperties DEF Text
      <3>3. n < Len(outgoing)
        BY <3>1, <3>2
      <3> QED BY <2>8, <2>10, <3>3
    <2> QED BY <2>9, <2>10
  <1> QED BY <1>1, TextsHold, PTL

==============================================================================
