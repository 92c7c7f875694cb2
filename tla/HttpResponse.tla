----------------------------- MODULE HttpResponse -----------------------------
(***************************************************************************)
(* src/src/http_response_parser.cpp: when the bytes read so far are taken  *)
(* for a whole response (httpResponseComplete), and what is made of them   *)
(* (parseHttpResponse).  Both see a prefix of what the Engine sends, and   *)
(* they read it by different rules.                                        *)
(*                                                                         *)
(* A prefix is the number of pieces that arrived.  The first piece is the  *)
(* status line with all headers: a cut inside it leaves no blank line, so  *)
(* nothing of it counts.  Every further piece is one symbol of the         *)
(* payload: a line end, or a character, which may be a hexadecimal digit.  *)
(* A cut between CR and LF reads like one before the CR.                   *)
(***************************************************************************)
EXTENDS Naturals, SequencesExt

CRLF   == "CRLF"
Digits == {"0", "1", "2"}          \* the hexadecimal digits there is a use for
Value  == [d \in Digits |-> CASE d = "0" -> 0 [] d = "1" -> 1 [] d = "2" -> 2]
Hex(n) == CHOOSE d \in Digits : Value[d] = n

Bodyless(status) == status \in 100..199 \cup {204, 304}

EncodedChunk(data) == <<Hex(Len(data)), CRLF>> \o data \o <<CRLF>>

(* How the headers delimit the body: by Content-Length, in chunks, or by the end of the
   connection.  `chunks` is the body as the Engine cuts it up; 204 and 304 have none. *)
Framings == {"length", "chunked", "close"}

Response(status, framing, chunks) ==
    [status |-> status, framing |-> framing,
     payload |-> IF framing = "chunked"
                 THEN FlattenSeq([n \in DOMAIN chunks |-> EncodedChunk(chunks[n])]) \o <<"0", CRLF, CRLF>>
                 ELSE FlattenSeq(chunks)]

(* The pieces of a whole response, and the payload among the first n of them. *)
Size(response)       == 1 + Len(response.payload)
Arrived(response, n) == SubSeq(response.payload, 1, n - 1)

(***************************************************************************)
(* httpResponseComplete.  The end of a chunked body is looked for after    *)
(* the headers, as a line end followed by a chunk size of 0: an empty      *)
(* body, which starts with that size, is only over when the connection is. *)
(***************************************************************************)
LastChunk == <<CRLF, "0", CRLF>>

EndsIn(payload) == \E i \in 1..(Len(payload) - 2) : SubSeq(payload, i, i + 2) = LastChunk

(* The end of the body seems to come before the last chunk: a chunk of one byte "0" does it. *)
SeemsToEnd(response) == response.framing = "chunked" /\ EndsIn(Arrived(response, Size(response) - 2))

Complete(response, n) ==
    /\ n > 0
    /\ \/ Bodyless(response.status)
       \/ response.framing = "chunked" /\ EndsIn(Arrived(response, n))
       \/ response.framing = "length" /\ n = Size(response)

(***************************************************************************)
(* decodeChunked, from an offset on: the data, or what is wrong with it.   *)
(***************************************************************************)
Decoded(data) == [body |-> data, error |-> "none"]
Broken        == [body |-> <<>>, error |-> "truncated"]

DecodeChunked(payload) ==
    LET Sized(at)  == at < Len(payload) /\ payload[at] \in Digits /\ payload[at + 1] = CRLF
        Over(at)   == at + Value[payload[at]] + 2               \* the line end after the data
        Filled(at) == Over(at) <= Len(payload) /\ payload[Over(at)] = CRLF
        decode[at \in 1..(Len(payload) + 1)] ==
            IF Sized(at) /\ payload[at] = "0" THEN Decoded(<<>>)
            ELSE IF Sized(at) /\ Filled(at) /\ decode[Over(at) + 1].error = "none"
            THEN Decoded(SubSeq(payload, at + 2, Over(at) - 1) \o decode[Over(at) + 1].body)
            ELSE Broken
    IN  decode[1]

(***************************************************************************)
(* parseHttpResponse: the status survives an error in the body.            *)
(***************************************************************************)
Unheard == [status |-> 0, body |-> <<>>, error |-> "headers"]

Content(response, n) ==
    LET payload == Arrived(response, n)
    IN  IF Bodyless(response.status) THEN Decoded(<<>>)
        ELSE IF response.framing = "chunked" THEN DecodeChunked(payload)
        ELSE IF response.framing = "length" /\ n < Size(response) THEN Broken
        ELSE Decoded(payload)

Succeeded(status) == status \in 200..299

Parse(response, n) ==
    LET content == Content(response, n)
        refused == ~Succeeded(response.status) /\ response.status # 304
    IN  IF n = 0 THEN Unheard
        ELSE [status |-> response.status, body |-> content.body,
              error |-> IF content.error = "none" /\ refused THEN "refused" ELSE content.error]
=============================================================================
