------------------------------- MODULE HttpRelay -------------------------------
(***************************************************************************)
(* The bytes of one tunnelled exchange (packages/proxy/src/tls/mitm.ts and *)
(* token/replacer.ts): a request is read off the client's socket until it  *)
(* looks complete, its token is replaced, it is written upstream, and the  *)
(* answer is read until that looks complete and is written back.           *)
(*                                                                         *)
(* A message is a sequence of symbols: the lines of its head, "end" for    *)
(* the empty line, the parts of its body.  A packet is any number of them. *)
(* What is split inside a symbol only arrives later: both readers search   *)
(* all that has come so far, and a part of a symbol matches nothing.       *)
(***************************************************************************)
EXTENDS Integers, Sequences, SequencesExt

CONSTANTS
  Requests, Responses,   \* messages that clients and servers may send
  RelayFaults            \* "cut": a peer closes early; "connect"; "silence"

\* A line or a part, with the number a length line states.
Sym(kind) == [kind |-> kind, n |-> 0]
Length(n) == [kind |-> "length", n |-> n]
Other(n) == [kind |-> "other", n |-> n]   \* x-...-content-length: n

\* A message: its head and body; bare, if its body is empty whatever the head
\* says (the answer to a HEAD, a 204, a 304); closed, if the sender then closes.
Message(head, body, bare, closed) ==
  [head |-> head, body |-> body, bare |-> bare, closed |-> closed]

Symbols(m) == m.head \o <<Sym("end")>> \o m.body
Has(s, kind) == \E i \in DOMAIN s : s[i].kind = kind

\* "eightbit": a line with bytes above 127, which spells none of the others when
\* they lose their highest bit.
HeadSymbols ==
  [kind : {"line", "eightbit", "zeroline", "length", "other", "chunked", "authorization",
           "x-api-key"},
   n : Nat]
BodySymbols == [kind : {"data", "zerodata", "last", "trailer"}, n : Nat]

\* A head of at least one line; nothing after a last chunk without trailers; the
\* length of the body, or of one that is left out, if the message has a length line.
WellFormed(m) ==
  /\ m.head \in Seq(HeadSymbols) \ {<<>>} /\ m.body \in Seq(BodySymbols)
  /\ \A i \in DOMAIN m.body : m.body[i].kind = "last" => i = Len(m.body)
  /\ \A i \in DOMAIN m.head :
       m.head[i].kind = "length" => m.head[i].n = Len(m.body) \/ (m.bare /\ m.body = <<>>)

\* A request with a body, and an answer that does not end with the connection, say
\* how long they are: by a length or by chunks and a last one.
ASSUME RelayAssumption ==
  /\ \A m \in Requests :
       /\ WellFormed(m) /\ ~m.bare
       /\ m.body = <<>> \/ Has(m.head, "length") \/ Has(m.head, "chunked")
  /\ \A m \in Responses :
       /\ WellFormed(m)
       /\ \/ m.closed \/ m.bare \/ Has(m.head, "length")
          \/ /\ Has(m.head, "chunked") /\ m.body # <<>>
             /\ Last(m.body).kind \in {"last", "trailer"}

VARIABLES
  req, res,    \* the messages of this exchange
  step,        \* of performMitm
  got,         \* what has been read off the socket in use
  mapping,     \* what the lookup of the request's token has answered
  forwarded,   \* what was written upstream
  answer,      \* what was written to the client
  closedEarly  \* history: a peer closed before it had sent its message

relayVars == <<req, res, step, got, mapping, forwarded, answer, closedEarly>>

-------------------------------------------------------------------------------
\* The first "\r\n\r\n"; 0 if there is none yet.
headerEnd(s) == IF Has(s, "end") THEN SelectInSeq(s, LAMBDA x : x.kind = "end") ELSE 0

\* The regular expression is not anchored: any line that contains it will do.
IsLength(x) == x.kind \in {"length", "other"}
clMatch(s) == SelectInSeq(SubSeq(s, 1, headerEnd(s)), IsLength)

isChunked(s) == Has(SubSeq(s, 1, headerEnd(s)), "chunked")

\* Mutant: the length of the head is forgotten.
expectedLengthBody(s) == s[clMatch(s)].n

expectedLength(s) == headerEnd(s) + s[clMatch(s)].n

\* A request without a stated length has no body.
requestLength(s) == IF clMatch(s) = 0 THEN headerEnd(s) ELSE expectedLength(s)
requestComplete(s) == headerEnd(s) # 0 /\ Len(s) >= requestLength(s)

\* Do the bytes so far end in "0\r\n\r\n"?  So they do after a last chunk, after a
\* head whose last line ends in 0, and after chunks with that text in the right
\* place.
EndsLikeLastChunk(s) ==
  LET x == Last(s) IN
  \/ x.kind \in {"last", "zerodata"}
  \/ x.kind = "end" /\ Len(s) > 1 /\ s[Len(s) - 1].kind = "zeroline"

\* Mutant: a length is believed only if there is no coding.
responseCompleteCoding(s) ==
  /\ headerEnd(s) # 0
  /\ isChunked(s) /\ EndsLikeLastChunk(s)

responseComplete(s) ==
  /\ headerEnd(s) # 0
  /\ IF clMatch(s) # 0 THEN Len(s) >= expectedLength(s)
     ELSE isChunked(s) /\ EndsLikeLastChunk(s)

responseOf(s) == IF clMatch(s) # 0 THEN SubSeq(s, 1, expectedLength(s)) ELSE s

-------------------------------------------------------------------------------
Arrives(m, k) == k \in 1 .. (Len(Symbols(m)) - Len(got))
With(m, k) == SubSeq(Symbols(m), 1, Len(got) + k)

\* readHttpRequest, onData
requestData(k) ==
  LET s == With(req, k) IN
  /\ step = "request"
  /\ Arrives(req, k)
  /\ IF requestComplete(s)
       THEN got' = SubSeq(s, 1, requestLength(s)) /\ step' = "replace"
       ELSE got' = s /\ step' = "request"
  /\ UNCHANGED <<req, res, mapping, forwarded, answer, closedEarly>>

Error == <<Sym("error")>>
Fail == answer' = Error /\ step' = "done"

\* readHttpRequest, onEnd: what has come is taken for the request.
requestEnd ==
  /\ step = "request"
  /\ "cut" \in RelayFaults \/ (req.closed /\ got = Symbols(req))
  /\ closedEarly' = (closedEarly \/ got # Symbols(req))
  /\ IF got # <<>> THEN step' = "replace" /\ UNCHANGED answer ELSE Fail
  /\ UNCHANGED <<req, res, got, mapping, forwarded>>

\* The Authorization line, or else the x-api-key line, of a complete head.
TokenLine(s) ==
  LET head == SubSeq(s, 1, headerEnd(s)) IN
  IF Has(head, "authorization") THEN SelectInSeq(head, LAMBDA x : x.kind = "authorization")
  ELSE SelectInSeq(head, LAMBDA x : x.kind = "x-api-key")

\* No mapping, a real token, or one that String.replace() does not take as it is
\* ("$&") or that has characters of more than a byte.
Mappings == {"none", "plain", "special"}

\* toString("ascii") clears the highest bit of every byte.
Decoded(x) == IF x.kind = "eightbit" THEN Sym("mangled") ELSE x

\* The head is decoded, the token replaced, and the head encoded again.
replaceTokenInBuffer(s, real) ==
  [i \in DOMAIN s |->
     IF i = TokenLine(s) THEN [s[i] EXCEPT !.kind = IF real = "plain" THEN "real" ELSE "garbled"]
     ELSE IF i < headerEnd(s) THEN Decoded(s[i]) ELSE s[i]]

\* Only for a mapping is the head touched at all.
replaceToken(s, real) == IF real = "none" THEN s ELSE replaceTokenInBuffer(s, real)

\* The lookup finds a mapping or not, for a request with a token; the server is
\* reached or not.
forward ==
  /\ step = "replace"
  /\ mapping' \in IF TokenLine(got) = 0 THEN {"none"} ELSE Mappings
  /\ forwarded' = replaceToken(got, mapping')
  /\ got' = <<>>
  /\ step' = "response"
  /\ UNCHANGED <<req, res, answer, closedEarly>>

unreachable ==
  /\ "connect" \in RelayFaults
  /\ step = "replace"
  /\ Fail
  /\ UNCHANGED <<req, res, got, mapping, forwarded, closedEarly>>

\* A server answers what it can tell to be a whole request.
WholeRequest == forwarded = replaceToken(Symbols(req), mapping)

\* readFullResponse, onData
responseData(k) ==
  LET s == With(res, k) IN
  /\ step = "response" /\ WholeRequest
  /\ Arrives(res, k)
  /\ got' = s
  /\ IF responseComplete(s) THEN answer' = responseOf(s) /\ step' = "done"
     ELSE UNCHANGED <<answer, step>>
  /\ UNCHANGED <<req, res, mapping, forwarded, closedEarly>>

\* readFullResponse, onEnd: what has come is taken for the answer.
responseEnd ==
  /\ step = "response"
  /\ "cut" \in RelayFaults \/ (res.closed /\ got = Symbols(res))
  /\ closedEarly' = (closedEarly \/ got # Symbols(res))
  /\ answer' = got
  /\ step' = "done"
  /\ UNCHANGED <<req, res, got, mapping, forwarded>>

\* 30 seconds without a packet: there is nothing more to come, or the server is slow.
responseTimeout ==
  /\ step = "response"
  /\ "silence" \in RelayFaults \/ ~WholeRequest \/ got = Symbols(res)
  /\ Fail
  /\ UNCHANGED <<req, res, got, mapping, forwarded, closedEarly>>

-------------------------------------------------------------------------------
RelayInit ==
  /\ req \in Requests /\ res \in Responses
  /\ step = "request"
  /\ got = <<>> /\ mapping = "none" /\ forwarded = <<>> /\ answer = <<>>
  /\ closedEarly = FALSE

RelayNext ==
  \/ \E k \in 1 .. Len(Symbols(req)) : requestData(k)
  \/ \E k \in 1 .. Len(Symbols(res)) : responseData(k)
  \/ requestEnd \/ forward \/ unreachable \/ responseEnd \/ responseTimeout

RelaySpec == RelayInit /\ [][RelayNext]_relayVars

-------------------------------------------------------------------------------
\* Messages the readers do not understand: another header's number is taken for
\* the length; the end of a chunked answer is seen where it is not (the head
\* ends in 0, or a chunk holds the same text); the body of a chunked request is
\* left out.
OtherLength(m) == Has(m.head, "other") /\ clMatch(Symbols(m)) # 0
                    /\ Symbols(m)[clMatch(Symbols(m))].kind = "other"
EarlyEnd(m) == Last(m.head).kind = "zeroline" \/ Has(m.body, "zerodata")

\* A request as it was but for its token, if that has a mapping.
Intended ==
  IF mapping = "none" THEN Symbols(req)
  ELSE [Symbols(req) EXCEPT ![TokenLine(Symbols(req))].kind = "real"]

\* Requests whose head comes out wrong when a token is replaced in it: bytes above
\* 127 lose a bit (replacer.ts:38, :102), and a real token with "$" patterns is
\* expanded, one with characters of more than a byte is cut (:93, :98).
Altered == mapping = "special" \/ (mapping = "plain" /\ Has(req.head, "eightbit"))

\* However the packets fall, what is sent on is the whole message and no more:
\* a request as it was but for its token, an answer as it was; unless the peer
\* closed early or the message is one of those above (mitm.ts:204-211, :262-286).
WholeMessages ==
  ~closedEarly =>
    /\ forwarded # <<>> =>
         forwarded = Intended \/ Altered \/ OtherLength(req) \/ Has(req.head, "chunked")
    /\ answer \notin {<<>>, Error} =>
         \/ answer = Symbols(res)
         \/ OtherLength(res)
         \/ Has(res.head, "chunked") /\ EarlyEnd(res)

\* A message that has come as a whole is recognised at once, not by the closing
\* of the connection or after 30 seconds; unless another header's number is taken
\* for its length, or it is an answer that ends with the connection, that has no
\* body although its length is not stated as 0, or that ends in trailers.
RecognisedAtOnce ==
  /\ step = "request" /\ got = Symbols(req) => OtherLength(req)
  /\ step = "response" /\ WholeRequest /\ got = Symbols(res) =>
       res.closed \/ OtherLength(res) \/ res.bare \/ Has(res.body, "trailer")

-------------------------------------------------------------------------------
\* The invariant behind both: while a message is read it is not complete, and what
\* was taken for a request is one.
FromInputs == req \in Requests /\ res \in Responses
PartOf(m, s) == \E n \in 0 .. Len(Symbols(m)) : s = SubSeq(Symbols(m), 1, n)
RequestUnread == step = "request" => PartOf(req, got) /\ ~requestComplete(got)
RequestTaken ==
  step = "replace" =>
    closedEarly \/ got = Symbols(req) \/ OtherLength(req) \/ Has(req.head, "chunked")
AnswerUnread == step = "response" => PartOf(res, got) /\ ~responseComplete(got)

RelayIInv == FromInputs /\ RequestUnread /\ RequestTaken /\ AnswerUnread /\ WholeMessages
===============================================================================
