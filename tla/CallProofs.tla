------------------------------ MODULE CallProofs ------------------------------
(***************************************************************************)
(* A call of DockerManager implements DockerCall, and fails only if Docker *)
(* refused it, with any set of acts and framings, any number of operations *)
(* and changes by others, and the Engine ending or not.                    *)
(*                                                                         *)
(* First the parser: what decodeChunked makes of every beginning of every  *)
(* encoding of a body (DecodesEmpty, DecodesOne, DecodesTwo), so that what *)
(* is heard of an answer is a beginning of its body, and all of it when    *)
(* the loop of request() ends by itself (Heard).  Then what DockerManager  *)
(* makes of that (Verdicts).  Then the invariant: whatever has been read   *)
(* is of an answer Docker gave in a state it was in since the call began.  *)
(***************************************************************************)
EXTENDS Operation, SequenceTheorems, WellFoundedInduction, TLAPS

(* A set of numbers has a least one. *)
LEMMA LeastNatural == ASSUME NEW S \in SUBSET Nat, S # {} PROVE \E m \in S : \A k \in S : m <= k
<1>1. PICK m \in S : \A k \in S : ~ (<<k, m>> \in OpToRel(<, Nat))
  BY NatLessThanWellFounded, WFMin
<1>2. \A a, b \in Nat : a < b => <<a, b>> \in OpToRel(<, Nat)
  BY DEF OpToRel
<1>3. \A k \in S : ~(k < m)
  BY <1>1, <1>2
<1> QED BY <1>3

(* decodeChunked looks no further back than where it is, so its recursive definition has a solution. *)
LEMMA DecodeDefined ==
    ASSUME NEW payload, Len(payload) \in Nat
    PROVE  LET Sized(at)  == at < Len(payload) /\ payload[at] \in Digits /\ payload[at + 1] = CRLF
               Past(at)   == at + Value[payload[at]] + 2
               Filled(at) == Past(at) <= Len(payload) /\ payload[Past(at)] = CRLF
           IN  \E decode :
                  /\ DecodeChunked(payload) = decode[1]
                  /\ \A at \in 1..(Len(payload) + 1) : decode[at] =
                        IF Sized(at) /\ payload[at] = "0" THEN Decoded(<<>>)
                        ELSE IF Sized(at) /\ Filled(at) /\ decode[Past(at) + 1].error = "none"
                        THEN Decoded(SubSeq(payload, at + 2, Past(at) - 1) \o decode[Past(at) + 1].body)
                        ELSE Broken
<1> DEFINE Sized(at)  == at < Len(payload) /\ payload[at] \in Digits /\ payload[at + 1] = CRLF
           Past(at)   == at + Value[payload[at]] + 2
           Filled(at) == Past(at) <= Len(payload) /\ payload[Past(at)] = CRLF
           N == Len(payload) + 1
           val(f, at) == IF Sized(at) /\ payload[at] = "0" THEN Decoded(<<>>)
                         ELSE IF Sized(at) /\ Filled(at) /\ f[Past(at) + 1].error = "none"
                         THEN Decoded(SubSeq(payload, at + 2, Past(at) - 1) \o f[Past(at) + 1].body)
                         ELSE Broken
           chosen == CHOOSE f : f = [at \in 1..N |-> val(f, at)]
<1>1. DecodeChunked(payload) = chosen[1]
  BY DEF DecodeChunked
<1>2. ASSUME NEW at \in 1..N, Sized(at) /\ Filled(at)
      PROVE  Past(at) + 1 \in (at + 1)..N
  BY <1>2 DEF Digits, Value
<1>3. ASSUME NEW f, NEW g, NEW at \in 1..N, \A y \in (at + 1)..N : f[y] = g[y]
      PROVE  val(f, at) = val(g, at)
  BY <1>2, <1>3
<1> DEFINE solves(f, k) == \A at \in 1..N : at > N - k => f[at] = val(f, at)
           Bad == {k \in Nat : k <= N /\ \A f : ~solves(f, k)}
<1>4. Bad = {}
  <2> SUFFICES ASSUME Bad # {} PROVE FALSE
    OBVIOUS
  <2>1. PICK m \in Bad : \A k \in Bad : m <= k
    BY LeastNatural
  <2>2. m # 0
    BY <2>1
  <2>3. PICK f : solves(f, m - 1)
    <3>1. m \in Nat /\ N \in Nat /\ m <= N
      BY <2>1
    <3>2. m - 1 \in Nat /\ m - 1 <= N /\ ~(m <= m - 1)
      BY <3>1, <2>2
    <3>3. m - 1 \notin Bad
      BY <3>2, <2>1
    <3> HIDE DEF solves
    <3> QED BY <3>2, <3>3
  <2> DEFINE g == [at \in 1..N |-> IF at = N - m + 1 THEN val(f, at) ELSE f[at]]
  <2>4. solves(g, m)
    <3> SUFFICES ASSUME NEW at \in 1..N, at > N - m PROVE g[at] = val(g, at)
      OBVIOUS
    <3>1. m \in Nat /\ N \in Nat
      BY <2>1
    <3>2. \A y \in (at + 1)..N : g[y] = f[y]
      BY <3>1
    <3>3. val(g, at) = val(f, at)
      BY <3>2, <1>3
    <3>4. g[at] = val(f, at)
      <4>1. CASE at = N - m + 1
        BY <4>1
      <4>2. CASE at # N - m + 1
        <5>1. at > N - (m - 1)
          BY <3>1, <4>2
        <5>2. f[at] = val(f, at)
          BY <5>1, <2>3
        <5> QED BY <5>2, <4>2
      <4> QED BY <4>1, <4>2
    <3> QED BY <3>3, <3>4
  <2> QED BY <2>1, <2>4
<1>5. PICK f : solves(f, N)
  BY <1>4
<1> DEFINE g == [at \in 1..N |-> f[at]]
<1>6. g = [at \in 1..N |-> val(g, at)]
  <2>1. \A at \in 1..N : f[at] = val(f, at)
    BY <1>5
  <2>2. ASSUME NEW at \in 1..N PROVE val(g, at) = val(f, at)
    <3>1. at \in Nat /\ N \in Nat
      OBVIOUS
    <3>2. \A y \in (at + 1)..N : g[y] = f[y]
      BY <3>1
    <3> HIDE DEF g, val
    <3> QED BY <3>2, <1>3
  <2>3. \A at \in 1..N : g[at] = val(g, at)
    BY <2>1, <2>2
  <2> HIDE DEF val
  <2> QED BY <2>3
<1>7. chosen = [at \in 1..N |-> val(chosen, at)]
  BY <1>6
<1> HIDE DEF chosen
<1> QED BY <1>1, <1>7

-----------------------------------------------------------------------------
(* What the Engine sends. *)

(* FlattenSeq of none, one and two sequences: a body, uncut and cut up. *)
LEMMA Flattened ==
    ASSUME NEW s
    PROVE  /\ Len(s) = 0 => FlattenSeq(s) = s
           /\ Len(s) = 1 => FlattenSeq(s) = s[1]
           /\ Len(s) = 2 => FlattenSeq(s) = s[1] \o s[2]
<1> DEFINE step(f) == [i \in 1..Len(s) |-> IF i = 1 THEN s[i] ELSE f[i-1] \o s[i]]
           flatten == CHOOSE f : f = step(f)
<1>1. Len(s) # 0 => FlattenSeq(s) = flatten[Len(s)]
  BY DEF FlattenSeq
<1>2. ASSUME Len(s) = 1 PROVE FlattenSeq(s) = s[1]
  <2> DEFINE g == [i \in 1..1 |-> s[1]]
  <2>1. g = step(g)
    BY <1>2
  <2>2. flatten = step(flatten)
    BY <2>1
  <2>3. flatten[1] = s[1]
    BY <1>2, <2>2
  <2> QED BY <1>1, <1>2, <2>3
<1>3. ASSUME Len(s) = 2 PROVE FlattenSeq(s) = s[1] \o s[2]
  <2> DEFINE g == [i \in 1..2 |-> IF i = 1 THEN s[1] ELSE s[1] \o s[2]]
  <2>1. g = step(g)
    BY <1>3
  <2>2. flatten = step(flatten)
    BY <2>1
  <2> HIDE DEF flatten
  <2>3. flatten[1] = s[1] /\ flatten[2] = flatten[1] \o s[2]
    BY <1>3, <2>2
  <2> QED BY <1>1, <1>3, <2>3
<1>4. Len(s) = 0 => FlattenSeq(s) = s
  BY DEF FlattenSeq
<1> QED BY <1>2, <1>3, <1>4

-----------------------------------------------------------------------------
(* The payloads: what the Engine makes of a body. *)

(* The characters of bodies, the bodies there are, and the pieces of payloads. *)
Symbols == {"x", "0", "2"}
Bodies  == {<<>>} \cup {<<a>> : a \in Symbols} \cup {<<a, b>> : a \in Symbols, b \in Symbols}

Pieces  == Symbols \cup {"1", CRLF}

LEMMA HexDigits == Hex(1) = "1" /\ Hex(2) = "2"
BY DEF Hex, Digits, Value

(* A chunk in a payload p that starts after the first k symbols. *)
ChunkAt(p, k, data) ==
    /\ p[k + 1] = Hex(Len(data)) /\ p[k + 2] = CRLF
    /\ \A i \in 1..Len(data) : p[k + 2 + i] = data[i]
    /\ p[k + 3 + Len(data)] = CRLF

(* The last chunk, after the first k symbols. *)
EndAt(p, k) == p[k + 1] = "0" /\ p[k + 2] = CRLF /\ p[k + 3] = CRLF

(* What concatenation does to the symbols of two payloads. *)
LEMMA Joined ==
    ASSUME NEW S, NEW p \in Seq(S), NEW q \in Seq(S)
    PROVE  /\ p \o q \in Seq(S) /\ Len(p \o q) = Len(p) + Len(q) /\ Len(p) \in Nat /\ Len(q) \in Nat
           /\ \A i \in 1..Len(p) : (p \o q)[i] = p[i]
           /\ \A i \in 1..Len(q) : (p \o q)[Len(p) + i] = q[i]
<1>1. Len(p) \in Nat /\ Len(q) \in Nat
  OBVIOUS
<1> DEFINE r == p \o q
<1>2. r \in Seq(S) /\ Len(r) = Len(p) + Len(q)
      /\ \A i \in 1..(Len(p) + Len(q)) : r[i] = IF i <= Len(p) THEN p[i] ELSE q[i - Len(p)]
  BY ConcatProperties
<1> HIDE DEF r
<1>3. \A i \in 1..Len(p) : r[i] = p[i]
  BY <1>1, <1>2
<1>4. ASSUME NEW i \in 1..Len(q) PROVE r[Len(p) + i] = q[i]
  <2>1. Len(p) + i \in 1..(Len(p) + Len(q)) /\ ~(Len(p) + i <= Len(p)) /\ Len(p) + i - Len(p) = i
    BY <1>1
  <2> QED BY <2>1, <1>2
<1> QED BY <1>1, <1>2, <1>3, <1>4 DEF r

(* One chunk, encoded. *)
LEMMA Chunked ==
    ASSUME NEW data \in Seq(Symbols), Len(data) \in 1..2
    PROVE  /\ EncodedChunk(data) \in Seq(Pieces) /\ Len(EncodedChunk(data)) = Len(data) + 3
           /\ ChunkAt(EncodedChunk(data), 0, data)
<1> DEFINE l == Len(data)
           size == <<Hex(l), CRLF>>
           p == size \o data
           e == p \o <<CRLF>>
<1>1. size \in Seq(Pieces) /\ Len(size) = 2 /\ size[1] = Hex(l) /\ size[2] = CRLF
  <2>0. l = 1 \/ l = 2
    OBVIOUS
  <2>1. Hex(l) \in Pieces /\ CRLF \in Pieces
    BY <2>0, HexDigits DEF Pieces, Symbols
  <2> QED BY <2>1
<1>2. data \in Seq(Pieces) /\ <<CRLF>> \in Seq(Pieces) /\ Len(<<CRLF>>) = 1 /\ <<CRLF>>[1] = CRLF
  BY DEF Pieces
<1>3. l \in 1..2 /\ l = Len(data)
  OBVIOUS
<1> HIDE DEF l, size
<1>4. p \in Seq(Pieces) /\ Len(p) = 2 + l /\ (\A i \in 1..2 : p[i] = size[i]) /\ \A i \in 1..l : p[2 + i] = data[i]
  BY <1>1, <1>2, <1>3, Joined
<1> HIDE DEF p
<1>5. e \in Seq(Pieces) /\ Len(e) = 2 + l + 1 /\ (\A i \in 1..(2 + l) : e[i] = p[i]) /\ e[2 + l + 1] = CRLF
  BY <1>2, <1>3, <1>4, Joined
<1> HIDE DEF e
<1>6. e[1] = Hex(l) /\ e[2] = CRLF /\ (\A i \in 1..l : e[2 + i] = data[i]) /\ e[3 + l] = CRLF
  BY <1>1, <1>3, <1>4, <1>5
<1>7. ChunkAt(e, 0, data)
  BY <1>3, <1>6 DEF ChunkAt
<1>8. e = EncodedChunk(data)
  BY DEF e, p, size, l, EncodedChunk
<1> QED BY <1>3, <1>5, <1>7, <1>8

(* A chunk stays one behind other pieces. *)
LEMMA ChunkMoved ==
    ASSUME NEW p \in Seq(Pieces), NEW q \in Seq(Pieces), NEW data \in Seq(Symbols)
    PROVE  /\ Len(p) >= Len(data) + 3 /\ ChunkAt(p, 0, data) => ChunkAt(p \o q, 0, data)
           /\ Len(q) >= Len(data) + 3 /\ ChunkAt(q, 0, data) => ChunkAt(p \o q, Len(p), data)
<1> DEFINE r == p \o q
           l == Len(data)
           k == Len(p)
<1>1. /\ Len(q) \in Nat /\ k \in Nat /\ l \in Nat
      /\ \A i \in 1..k : r[i] = p[i]
      /\ \A i \in 1..Len(q) : r[k + i] = q[i]
  BY Joined
<1> HIDE DEF r
<1>2. ASSUME k >= l + 3, ChunkAt(p, 0, data) PROVE ChunkAt(r, 0, data)
  <2>1. /\ p[1] = Hex(l) /\ p[2] = CRLF /\ p[3 + l] = CRLF
        /\ \A i \in 1..l : p[2 + i] = data[i]
    BY <1>1, <1>2 DEF ChunkAt
  <2> HIDE DEF k, l
  <2>2. r[1] = p[1] /\ r[2] = p[2] /\ r[3 + l] = p[3 + l] /\ \A i \in 1..l : r[2 + i] = p[2 + i]
    BY <1>1, <1>2
  <2>3. /\ r[1] = Hex(l) /\ r[2] = CRLF /\ r[3 + l] = CRLF
        /\ \A i \in 1..l : r[2 + i] = data[i]
    BY <2>1, <2>2
  <2> QED BY <1>1, <2>3 DEF ChunkAt, l
<1>3. ASSUME Len(q) >= l + 3, ChunkAt(q, 0, data) PROVE ChunkAt(r, k, data)
  <2>1. /\ q[1] = Hex(l) /\ q[2] = CRLF /\ q[3 + l] = CRLF
        /\ \A i \in 1..l : q[2 + i] = data[i]
    BY <1>1, <1>3 DEF ChunkAt
  <2> HIDE DEF k, l
  <2>2. /\ r[k + 1] = q[1] /\ r[k + 2] = q[2]
        /\ r[k + (3 + l)] = q[3 + l]
        /\ \A i \in 1..l : r[k + (2 + i)] = q[2 + i]
    BY <1>1, <1>3
  <2>3. k + (3 + l) = k + 3 + l /\ \A i \in 1..l : k + (2 + i) = k + 2 + i
    BY <1>1
  <2>4. /\ r[k + 1] = Hex(l) /\ r[k + 2] = CRLF /\ r[k + 3 + l] = CRLF
        /\ \A i \in 1..l : r[k + 2 + i] = data[i]
    BY <2>1, <2>2, <2>3
  <2> QED BY <2>4 DEF ChunkAt, l
<1> QED BY <1>2, <1>3 DEF r, k, l

(* The payload of a body: as it is, in one chunk, or symbol by symbol. *)
InOneChunk(p, body) ==
    /\ p \in Seq(Pieces) /\ Len(body) \in 1..2 /\ Len(p) = Len(body) + 6
    /\ ChunkAt(p, 0, body) /\ EndAt(p, Len(body) + 3)
InTwoChunks(p, body) ==
    /\ p \in Seq(Pieces) /\ Len(body) = 2 /\ Len(p) = 11
    /\ ChunkAt(p, 0, <<body[1]>>) /\ ChunkAt(p, 4, <<body[2]>>) /\ EndAt(p, 8)
NoChunk(p, body) == p \in Seq(Pieces) /\ body = <<>> /\ Len(p) = 3 /\ EndAt(p, 0)

LastOne == <<"0", CRLF, CRLF>>

(* The last chunk behind other pieces. *)
LEMMA Ended ==
    ASSUME NEW p \in Seq(Pieces)
    PROVE  /\ p \o LastOne \in Seq(Pieces) /\ Len(p \o LastOne) = Len(p) + 3 /\ Len(p) \in Nat
           /\ EndAt(p \o LastOne, Len(p))
<1>1. LastOne \in Seq(Pieces) /\ Len(LastOne) = 3 /\ LastOne[1] = "0" /\ LastOne[2] = CRLF /\ LastOne[3] = CRLF
  BY DEF LastOne, Pieces, Symbols
<1> DEFINE q == LastOne
           r == p \o q
           k == Len(p)
<1>2. /\ r \in Seq(Pieces) /\ Len(r) = k + Len(q) /\ k \in Nat
      /\ \A i \in 1..Len(q) : r[k + i] = q[i]
  <2>1. q \in Seq(Pieces)
    BY <1>1
  <2> HIDE DEF q
  <2> QED BY <2>1, Joined
<1> HIDE DEF r, k, q
<1>3. r \in Seq(Pieces) /\ Len(r) = k + 3 /\ k \in Nat /\ r[k + 1] = "0" /\ r[k + 2] = CRLF /\ r[k + 3] = CRLF
  BY <1>1, <1>2 DEF q
<1>4. EndAt(r, k)
  BY <1>3 DEF EndAt
<1> QED BY <1>3, <1>4 DEF r, k, q

(* The ways to cut up the bodies there are. *)
LEMMA CutUp ==
    ASSUME NEW a \in Symbols, NEW b \in Symbols
    PROVE  /\ Chunkings(<<>>) = {<<>>}
           /\ Chunkings(<<a>>) = {<<<<a>>>>}
           /\ Chunkings(<<a, b>>) = {<<<<a, b>>>>, <<<<a>>, <<b>>>>}
BY DEF Chunkings

(* Pieces that are joined without being encoded. *)
LEMMA Plain ==
    ASSUME NEW a \in Symbols, NEW b \in Symbols
    PROVE  /\ FlattenSeq(<<>>) = <<>>
           /\ FlattenSeq(<<<<a>>>>) = <<a>>
           /\ FlattenSeq(<<<<a, b>>>>) = <<a, b>>
           /\ FlattenSeq(<<<<a>>, <<b>>>>) = <<a, b>>
<1>1. <<a>> \o <<b>> = <<a, b>>
  <2>1. <<a>> \in Seq(Symbols) /\ <<b>> \in Seq(Symbols) /\ <<a, b>> \in Seq(Symbols)
    OBVIOUS
  <2> DEFINE p == <<a>>  q == <<b>>  t == <<a, b>>
  <2>2. Len(p) = 1 /\ p[1] = a /\ Len(q) = 1 /\ q[1] = b /\ Len(t) = 2 /\ t[1] = a /\ t[2] = b
    OBVIOUS
  <2> HIDE DEF p, q, t
  <2>3. p \in Seq(Symbols) /\ q \in Seq(Symbols) /\ t \in Seq(Symbols)
    BY <2>1 DEF p, q, t
  <2> DEFINE r == p \o q
  <2>4. /\ r \in Seq(Symbols) /\ Len(r) = Len(p) + Len(q)
        /\ \A i \in 1..Len(p) : r[i] = p[i]
        /\ \A i \in 1..Len(q) : r[Len(p) + i] = q[i]
    BY <2>3, Joined
  <2> HIDE DEF r
  <2>5. Len(r) = 2 /\ r[1] = a /\ r[2] = b
    BY <2>2, <2>4
  <2>6. \A i \in 1..Len(r) : r[i] = t[i]
    BY <2>2, <2>5
  <2>7. r = t
    BY <2>2, <2>3, <2>4, <2>5, <2>6, SeqEqual
  <2> QED BY <2>7 DEF p, q, t, r
<1>2. /\ Len(<<>>) = 0
      /\ Len(<<<<a>>>>) = 1 /\ <<<<a>>>>[1] = <<a>>
      /\ Len(<<<<a, b>>>>) = 1 /\ <<<<a, b>>>>[1] = <<a, b>>
      /\ Len(<<<<a>>, <<b>>>>) = 2 /\ <<<<a>>, <<b>>>>[1] = <<a>> /\ <<<<a>>, <<b>>>>[2] = <<b>>
  OBVIOUS
<1>3. FlattenSeq(<<>>) = <<>>
  BY <1>2, Flattened
<1>4. FlattenSeq(<<<<a>>>>) = <<a>>
  BY <1>2, Flattened
<1>5. FlattenSeq(<<<<a, b>>>>) = <<a, b>>
  BY <1>2, Flattened
<1>6. FlattenSeq(<<<<a>>, <<b>>>>) = <<a, b>>
  <2> DEFINE s == <<<<a>>, <<b>>>>
  <2>1. Len(s) = 2 /\ s[1] = <<a>> /\ s[2] = <<b>>
    BY <1>2
  <2> HIDE DEF s
  <2>2. FlattenSeq(s) = s[1] \o s[2]
    BY <2>1, Flattened
  <2>3. FlattenSeq(s) = <<a, b>>
    BY <2>1, <2>2, <1>1
  <2> QED BY <2>3 DEF s
<1> QED BY <1>3, <1>4, <1>5, <1>6

(* The chunked payloads of the bodies there are. *)
LEMMA Encoded ==
    ASSUME NEW a \in Symbols, NEW b \in Symbols
    PROVE  LET encoded(chunks) == FlattenSeq([n \in DOMAIN chunks |-> EncodedChunk(chunks[n])]) \o LastOne
           IN  /\ NoChunk(encoded(<<>>), <<>>)
               /\ InOneChunk(encoded(<<<<a>>>>), <<a>>)
               /\ InOneChunk(encoded(<<<<a, b>>>>), <<a, b>>)
               /\ InTwoChunks(encoded(<<<<a>>, <<b>>>>), <<a, b>>)
<1> DEFINE each(chunks) == [n \in DOMAIN chunks |-> EncodedChunk(chunks[n])]
           encoded(chunks) == FlattenSeq(each(chunks)) \o LastOne
<1>0. <<a>> \in Seq(Symbols) /\ <<b>> \in Seq(Symbols) /\ <<a, b>> \in Seq(Symbols)
      /\ Len(<<a>>) = 1 /\ Len(<<b>>) = 1 /\ Len(<<a, b>>) = 2
  OBVIOUS
<1>1. NoChunk(encoded(<<>>), <<>>)
  <2>1. Len(each(<<>>)) = 0 /\ each(<<>>) = <<>>
    OBVIOUS
  <2>2. FlattenSeq(each(<<>>)) = <<>>
    BY <2>1, Flattened
  <2> HIDE DEF each
  <2>3. <<>> \in Seq(Pieces) /\ Len(<<>>) = 0
    OBVIOUS
  <2> DEFINE none == <<>>
  <2> HIDE DEF none
  <2>4. /\ none \o LastOne \in Seq(Pieces)
        /\ Len(none) = 0 /\ Len(none \o LastOne) = Len(none) + 3 /\ EndAt(none \o LastOne, Len(none))
    BY <2>3, Ended DEF none
  <2>5. none \o LastOne \in Seq(Pieces) /\ Len(none \o LastOne) = 3 /\ EndAt(none \o LastOne, 0)
    BY <2>4
  <2> QED BY <2>2, <2>5 DEF NoChunk, none
<1>2. ASSUME NEW body \in Seq(Symbols), Len(body) \in 1..2
      PROVE  InOneChunk(encoded(<<body>>), body)
  <2> DEFINE e == EncodedChunk(body)
  <2>1. Len(each(<<body>>)) = 1 /\ each(<<body>>)[1] = e
    OBVIOUS
  <2>2. FlattenSeq(each(<<body>>)) = e
    BY <2>1, Flattened
  <2>3. e \in Seq(Pieces) /\ Len(e) = Len(body) + 3 /\ ChunkAt(e, 0, body)
    BY <1>2, Chunked
  <2> HIDE DEF each, e
  <2>4. e \o LastOne \in Seq(Pieces) /\ Len(e \o LastOne) = Len(e) + 3 /\ EndAt(e \o LastOne, Len(e))
    BY <2>3, Ended
  <2>5. LastOne \in Seq(Pieces)
    BY DEF LastOne, Pieces, Symbols
  <2>6. ChunkAt(e \o LastOne, 0, body)
    BY <2>3, <2>5, <1>2, ChunkMoved
  <2>7. Len(e) + 3 = Len(body) + 6
    BY <2>3, <1>2
  <2> QED BY <1>2, <2>2, <2>3, <2>4, <2>6, <2>7 DEF InOneChunk
<1>3. InTwoChunks(encoded(<<<<a>>, <<b>>>>), <<a, b>>)
  <2> DEFINE chunks == <<<<a>>, <<b>>>>
             e == EncodedChunk(<<a>>)
             f == EncodedChunk(<<b>>)
  <2>1. Len(each(chunks)) = 2 /\ each(chunks)[1] = e /\ each(chunks)[2] = f
    OBVIOUS
  <2>2. FlattenSeq(each(chunks)) = e \o f
    BY <2>1, Flattened
  <2> DEFINE s == <<a>>
             t == <<b>>
  <2>3. s \in Seq(Symbols) /\ t \in Seq(Symbols) /\ Len(s) = 1 /\ Len(t) = 1
    OBVIOUS
  <2> HIDE DEF s, t
  <2>4. /\ e \in Seq(Pieces) /\ Len(e) = 4 /\ ChunkAt(e, 0, s)
        /\ f \in Seq(Pieces) /\ Len(f) = 4 /\ ChunkAt(f, 0, t)
    <3>1. Len(s) \in 1..2 /\ Len(t) \in 1..2 /\ Len(s) + 3 = 4 /\ Len(t) + 3 = 4
      BY <2>3
    <3>2. EncodedChunk(s) \in Seq(Pieces) /\ Len(EncodedChunk(s)) = Len(s) + 3 /\ ChunkAt(EncodedChunk(s), 0, s)
      BY <2>3, <3>1, Chunked
    <3>3. EncodedChunk(t) \in Seq(Pieces) /\ Len(EncodedChunk(t)) = Len(t) + 3 /\ ChunkAt(EncodedChunk(t), 0, t)
      BY <2>3, <3>1, Chunked
    <3>4. e = EncodedChunk(s) /\ f = EncodedChunk(t)
      BY DEF s, t
    <3> HIDE DEF e, f
    <3> QED BY <3>1, <3>2, <3>3, <3>4
  <2> HIDE DEF each, e, f, chunks
  <2> DEFINE ef == e \o f
             r == ef \o LastOne
  <2>5. ef \in Seq(Pieces) /\ Len(ef) = Len(e) + Len(f)
    BY <2>4, Joined
  <2>6. ChunkAt(ef, 0, s) /\ ChunkAt(ef, Len(e), t)
    <3>1. Len(e) >= Len(s) + 3 /\ Len(f) >= Len(t) + 3
      BY <2>3, <2>4
    <3> QED BY <2>3, <2>4, <3>1, ChunkMoved
  <2>7. ChunkAt(ef, 0, s) /\ ChunkAt(ef, 4, t) /\ Len(ef) = 8
    BY <2>4, <2>5, <2>6
  <2> HIDE DEF ef
  <2>8. r \in Seq(Pieces) /\ Len(r) = Len(ef) + 3 /\ EndAt(r, Len(ef))
    BY <2>5, Ended
  <2>9. \A i \in 1..Len(ef) : r[i] = ef[i]
    <3>1. LastOne \in Seq(Pieces)
      BY DEF LastOne, Pieces, Symbols
    <3> QED BY <3>1, <2>5, Joined
  <2> HIDE DEF r
  <2>10. r \in Seq(Pieces) /\ Len(r) = 11 /\ EndAt(r, 8) /\ \A i \in 1..8 : r[i] = ef[i]
    BY <2>7, <2>8, <2>9
  <2>11. ChunkAt(r, 0, s) /\ ChunkAt(r, 4, t)
    BY <2>3, <2>7, <2>10 DEF ChunkAt
  <2>12. <<a, b>>[1] = a /\ <<a, b>>[2] = b
    OBVIOUS
  <2> QED BY <2>2, <2>10, <2>11, <2>12, <1>0 DEF InTwoChunks, ef, chunks, r, s, t
<1>4. InOneChunk(encoded(<<<<a>>>>), <<a>>) /\ InOneChunk(encoded(<<<<a, b>>>>), <<a, b>>)
  <2> DEFINE s == <<a>>
             t == <<a, b>>
  <2>1. s \in Seq(Symbols) /\ Len(s) \in 1..2 /\ t \in Seq(Symbols) /\ Len(t) \in 1..2
    BY <1>0
  <2> HIDE DEF encoded, s, t
  <2>2. InOneChunk(encoded(<<s>>), s) /\ InOneChunk(encoded(<<t>>), t)
    BY <1>2, <2>1
  <2> QED BY <2>2 DEF s, t
<1> QED BY <1>1, <1>3, <1>4, Zenon

-----------------------------------------------------------------------------
(* What is made of it. *)

(* One step of decodeChunked, over a size, over a chunk, and where neither is there. *)
LEMMA DecodeSteps ==
    ASSUME NEW q, Len(q) \in Nat
    PROVE  \E f :
              /\ DecodeChunked(q) = f[1]
              /\ \A at \in 1..(Len(q) + 1) :
                    /\ ~(at < Len(q)) => f[at] = Broken
                    /\ at < Len(q) /\ q[at] = "0" /\ q[at + 1] = CRLF => f[at] = Decoded(<<>>)
                    /\ \A l \in 1..2 : at < Len(q) /\ q[at] = Hex(l) /\ q[at + 1] = CRLF =>
                          f[at] = IF at + l + 2 <= Len(q) /\ q[at + l + 2] = CRLF /\ f[at + l + 3].error = "none"
                                  THEN Decoded(SubSeq(q, at + 2, at + l + 1) \o f[at + l + 3].body)
                                  ELSE Broken
<1> DEFINE Sized(at)  == at < Len(q) /\ q[at] \in Digits /\ q[at + 1] = CRLF
           Past(at)   == at + Value[q[at]] + 2
           Filled(at) == Past(at) <= Len(q) /\ q[Past(at)] = CRLF
           val(f, at) == IF Sized(at) /\ q[at] = "0" THEN Decoded(<<>>)
                         ELSE IF Sized(at) /\ Filled(at) /\ f[Past(at) + 1].error = "none"
                         THEN Decoded(SubSeq(q, at + 2, Past(at) - 1) \o f[Past(at) + 1].body)
                         ELSE Broken
<1>1. PICK f : DecodeChunked(q) = f[1] /\ \A at \in 1..(Len(q) + 1) : f[at] = val(f, at)
  BY DecodeDefined
<1>2. SUFFICES ASSUME NEW at \in 1..(Len(q) + 1)
      PROVE  /\ ~(at < Len(q)) => f[at] = Broken
             /\ at < Len(q) /\ q[at] = "0" /\ q[at + 1] = CRLF => f[at] = Decoded(<<>>)
             /\ \A l \in 1..2 : at < Len(q) /\ q[at] = Hex(l) /\ q[at + 1] = CRLF =>
                   f[at] = IF at + l + 2 <= Len(q) /\ q[at + l + 2] = CRLF /\ f[at + l + 3].error = "none"
                           THEN Decoded(SubSeq(q, at + 2, at + l + 1) \o f[at + l + 3].body)
                           ELSE Broken
  BY <1>1
<1>3. f[at] = val(f, at)
  BY <1>1
<1>4. ~(at < Len(q)) => f[at] = Broken
  BY <1>3
<1>5. at < Len(q) /\ q[at] = "0" /\ q[at + 1] = CRLF => f[at] = Decoded(<<>>)
  BY <1>3 DEF Digits
<1>6. ASSUME NEW l \in 1..2, at < Len(q), q[at] = Hex(l), q[at + 1] = CRLF
      PROVE  f[at] = IF at + l + 2 <= Len(q) /\ q[at + l + 2] = CRLF /\ f[at + l + 3].error = "none"
                     THEN Decoded(SubSeq(q, at + 2, at + l + 1) \o f[at + l + 3].body)
                     ELSE Broken
  <2>1. q[at] \in Digits /\ q[at] # "0" /\ Value[q[at]] = l
    <3>1. CASE l = 1
      BY <1>6, <3>1, HexDigits DEF Digits, Value
    <3>2. CASE l = 2
      BY <1>6, <3>2, HexDigits DEF Digits, Value
    <3> QED BY <3>1, <3>2
  <2>2. Past(at) = at + l + 2 /\ Past(at) + 1 = at + l + 3 /\ Past(at) - 1 = at + l + 1
    BY <2>1
  <2>3. Sized(at)
    BY <1>6, <2>1
  <2> HIDE DEF Past, Sized
  <2> QED BY <1>3, <2>1, <2>2, <2>3
<1> QED BY <1>4, <1>5, <1>6

(* The first symbols of a payload. *)
Begins(q, p) == q \in Seq(Pieces) /\ Len(q) <= Len(p) /\ \A i \in 1..Len(q) : q[i] = p[i]

(* A listing or message comes out whole once the size of the last chunk is there, and not before. *)
LEMMA DecodesEmpty ==
    ASSUME NEW p, NEW q, NoChunk(p, <<>>), Begins(q, p)
    PROVE  DecodeChunked(q) = IF Len(q) >= 2 THEN Decoded(<<>>) ELSE Broken
<1>1. Len(q) \in Nat /\ Len(q) <= 3 /\ \A i \in 1..Len(q) : q[i] = p[i]
  BY DEF NoChunk, Begins
<1>2. p[1] = "0" /\ p[2] = CRLF
  BY DEF NoChunk, EndAt
<1>3. PICK f : /\ DecodeChunked(q) = f[1]
               /\ ~(1 < Len(q)) => f[1] = Broken
               /\ 1 < Len(q) /\ q[1] = "0" /\ q[2] = CRLF => f[1] = Decoded(<<>>)
  BY <1>1, DecodeSteps
<1> QED BY <1>1, <1>2, <1>3

(* The data of a chunk that is all there. *)
LEMMA Middle ==
    ASSUME NEW q \in Seq(Pieces), NEW k \in Nat, NEW body \in Seq(Symbols), Len(q) >= k + Len(body),
           \A i \in 1..Len(body) : q[k + i] = body[i]
    PROVE  SubSeq(q, k + 1, k + Len(body)) = body
<1> DEFINE l == Len(body)
           m == k + 1
           n == k + l
           s == SubSeq(q, m, n)
<1>1. l \in Nat /\ Len(q) \in Nat /\ l = Len(body) /\ m \in Int /\ n \in Int
  OBVIOUS
<1>2. \A i \in m..n : q[i] \in Symbols
  <2>1. ASSUME NEW i \in m..n PROVE q[i] \in Symbols
    <3>1. i - k \in 1..l /\ k + (i - k) = i
      BY <1>1
    <3>2. body[i - k] \in Symbols
      BY <3>1
    <3> QED BY <3>1, <3>2
  <2> QED BY <2>1
<1>3. n - m + 1 = l /\ (m <= n <=> l # 0) /\ \A i \in 1..l : m + i - 1 = k + i
  BY <1>1
<1> HIDE DEF m, n
<1>4. /\ s \in Seq(Symbols)
      /\ Len(s) = IF m <= n THEN n - m + 1 ELSE 0
      /\ \A i \in 1..(n - m + 1) : s[i] = q[m + i - 1]
  BY <1>1, <1>2, SubSeqProperties
<1> HIDE DEF s, l
<1>5. Len(s) = l
  BY <1>3, <1>4
<1>6. \A i \in 1..l : s[i] = body[i]
  BY <1>1, <1>3, <1>4
<1>7. s = body
  BY <1>1, <1>4, <1>5, <1>6, SeqEqual
<1> QED BY <1>7 DEF s, l, m, n

(* decodeChunked of the beginnings of one chunk. *)
LEMMA DecodesOne ==
    ASSUME NEW p, NEW q, NEW body \in Seq(Symbols), InOneChunk(p, body), Begins(q, p)
    PROVE  DecodeChunked(q) = IF Len(q) >= Len(p) - 1 THEN Decoded(body) ELSE Broken
<1> DEFINE l == Len(body)
           n == Len(q)
<1>1. n \in Nat /\ l \in 1..2 /\ Len(p) = l + 6 /\ n <= l + 6 /\ \A i \in 1..n : q[i] = p[i]
  BY DEF InOneChunk, Begins
<1>2. /\ p[1] = Hex(l) /\ p[2] = CRLF /\ (\A i \in 1..l : p[2 + i] = body[i]) /\ p[l + 3] = CRLF
      /\ p[l + 4] = "0" /\ p[l + 5] = CRLF
  <2>1. l + 3 + 1 = l + 4 /\ l + 3 + 2 = l + 5 /\ 0 + 1 = 1 /\ 0 + 2 = 2 /\ 0 + 3 + l = l + 3
        /\ \A i \in 1..l : 0 + 2 + i = 2 + i
    BY <1>1
  <2> QED BY <2>1 DEF InOneChunk, ChunkAt, EndAt
<1>3. PICK f :
         /\ DecodeChunked(q) = f[1]
         /\ \A at \in 1..(n + 1) :
               /\ ~(at < n) => f[at] = Broken
               /\ at < n /\ q[at] = "0" /\ q[at + 1] = CRLF => f[at] = Decoded(<<>>)
               /\ \A k \in 1..2 : at < n /\ q[at] = Hex(k) /\ q[at + 1] = CRLF =>
                     f[at] = IF at + k + 2 <= n /\ q[at + k + 2] = CRLF /\ f[at + k + 3].error = "none"
                             THEN Decoded(SubSeq(q, at + 2, at + k + 1) \o f[at + k + 3].body)
                             ELSE Broken
  BY <1>1, DecodeSteps
<1>4. 1 < n => f[1] = IF l + 3 <= n /\ f[l + 4].error = "none"
                      THEN Decoded(SubSeq(q, 3, l + 2) \o f[l + 4].body) ELSE Broken
  <2> HIDE DEF l, n
  <2>1. 1 + l + 2 = l + 3 /\ 1 + l + 3 = l + 4 /\ 1 + l + 1 = l + 2 /\ 1 + 2 = 3 /\ 1 + 1 = 2
    BY <1>1
  <2>2. 1 < n => f[1] = IF 1 + l + 2 <= n /\ q[1 + l + 2] = CRLF /\ f[1 + l + 3].error = "none"
                        THEN Decoded(SubSeq(q, 1 + 2, 1 + l + 1) \o f[1 + l + 3].body) ELSE Broken
    <3>1. 1 < n => q[1] = Hex(l) /\ q[1 + 1] = CRLF
      BY <1>1, <1>2
    <3>2. 1 \in 1..(n + 1)
      BY <1>1
    <3>3. l \in 1..2
      BY <1>1
    <3> QED BY <1>3, <3>1, <3>2, <3>3
  <2>3. l + 3 <= n => q[l + 3] = CRLF
    BY <1>1, <1>2
  <2> QED BY <2>1, <2>2, <2>3
<1>5. l + 3 <= n => f[l + 4] = IF l + 4 < n THEN Decoded(<<>>) ELSE Broken
  <2> HIDE DEF l, n
  <2>1. l + 3 <= n => l + 4 \in 1..(n + 1)
    BY <1>1
  <2>2. l + 4 < n => q[l + 4] = "0" /\ q[(l + 4) + 1] = CRLF
    BY <1>1, <1>2
  <2> QED BY <2>1, <2>2, <1>3
<1>6. CASE l + 4 < n
  <2> HIDE DEF l, n
  <2>0. 1 < n /\ l + 3 <= n /\ Decoded(<<>>).error = "none" /\ Decoded(<<>>).body = <<>>
    BY <1>1, <1>6 DEF Decoded
  <2>1. f[1] = Decoded(SubSeq(q, 3, l + 2) \o <<>>)
    BY <2>0, <1>4, <1>5, <1>6
  <2>2. SubSeq(q, 3, l + 2) = body
    <3>1. q \in Seq(Pieces) /\ Len(q) >= 2 + Len(body) /\ \A i \in 1..Len(body) : q[2 + i] = body[i]
      BY <1>1, <1>2, <1>6 DEF Begins, l, n
    <3>2. 2 + 1 = 3 /\ 2 + Len(body) = l + 2
      BY <1>1 DEF l
    <3>3. SubSeq(q, 2 + 1, 2 + Len(body)) = body
      BY <3>1, Middle
    <3> QED BY <3>2, <3>3
  <2>3. body \o <<>> = body
    BY ConcatEmptySeq
  <2>4. n >= l + 6 - 1
    BY <1>1, <1>6
  <2>5. f[1] = Decoded(body)
    BY <2>1, <2>2, <2>3
  <2> QED BY <2>4, <2>5, <1>1, <1>3 DEF n
<1>7. CASE ~(l + 4 < n)
  <2> HIDE DEF l, n
  <2>1. f[1] = Broken
    BY <1>1, <1>3, <1>4, <1>5, <1>7 DEF Broken
  <2>2. ~(n >= l + 6 - 1)
    BY <1>1, <1>7
  <2> QED BY <2>1, <2>2, <1>1, <1>3 DEF n
<1> QED BY <1>6, <1>7

(* decodeChunked of the beginnings of two chunks. *)
LEMMA DecodesTwo ==
    ASSUME NEW p, NEW q, NEW body \in Seq(Symbols), InTwoChunks(p, body), Begins(q, p)
    PROVE  DecodeChunked(q) = IF Len(q) >= Len(p) - 1 THEN Decoded(body) ELSE Broken
<1> DEFINE n == Len(q)
           a == <<body[1]>>
           b == <<body[2]>>
<1>0. Len(body) = 2 /\ a \in Seq(Symbols) /\ b \in Seq(Symbols) /\ Len(a) = 1 /\ Len(b) = 1 /\ a[1] = body[1] /\ b[1] = body[2]
  <2>1. Len(body) = 2
    BY DEF InTwoChunks
  <2>2. 1 \in 1..Len(body) /\ 2 \in 1..Len(body)
    BY <2>1
  <2>3. body[1] \in Symbols /\ body[2] \in Symbols
    BY <2>2, ElementOfSeq
  <2> QED BY <2>1, <2>3
<1>1. n \in Nat /\ Len(p) = 11 /\ n <= 11 /\ \A i \in 1..n : q[i] = p[i]
  BY DEF InTwoChunks, Begins
<1> HIDE DEF a, b
<1>2. /\ p[1] = Hex(1) /\ p[2] = CRLF /\ p[3] = a[1] /\ p[4] = CRLF
      /\ p[5] = Hex(1) /\ p[6] = CRLF /\ p[7] = b[1] /\ p[8] = CRLF
      /\ p[9] = "0" /\ p[10] = CRLF
  <2>1. ChunkAt(p, 0, a) /\ ChunkAt(p, 4, b) /\ EndAt(p, 8)
    BY DEF InTwoChunks, a, b
  <2>2. p[1] = Hex(1) /\ p[2] = CRLF /\ p[3] = a[1] /\ p[4] = CRLF
    BY <2>1, <1>0 DEF ChunkAt
  <2>3. p[5] = Hex(1) /\ p[6] = CRLF /\ p[7] = b[1] /\ p[8] = CRLF
    BY <2>1, <1>0 DEF ChunkAt
  <2>4. p[9] = "0" /\ p[10] = CRLF
    BY <2>1 DEF EndAt
  <2> QED BY <2>2, <2>3, <2>4
<1>3. PICK f :
         /\ DecodeChunked(q) = f[1]
         /\ \A at \in 1..(n + 1) :
               /\ ~(at < n) => f[at] = Broken
               /\ at < n /\ q[at] = "0" /\ q[at + 1] = CRLF => f[at] = Decoded(<<>>)
               /\ \A k \in 1..2 : at < n /\ q[at] = Hex(k) /\ q[at + 1] = CRLF =>
                     f[at] = IF at + k + 2 <= n /\ q[at + k + 2] = CRLF /\ f[at + k + 3].error = "none"
                             THEN Decoded(SubSeq(q, at + 2, at + k + 1) \o f[at + k + 3].body)
                             ELSE Broken
  BY <1>1, DecodeSteps
<1>4. ASSUME NEW at \in 1..(n + 1), at < n, q[at] = Hex(1), q[at + 1] = CRLF
      PROVE  f[at] = IF at + 3 <= n /\ q[at + 3] = CRLF /\ f[at + 4].error = "none"
                     THEN Decoded(SubSeq(q, at + 2, at + 2) \o f[at + 4].body) ELSE Broken
  <2> HIDE DEF n
  <2>1. at + 1 + 2 = at + 3 /\ at + 1 + 3 = at + 4 /\ at + 1 + 1 = at + 2
    BY <1>1
  <2>2. f[at] = IF at + 1 + 2 <= n /\ q[at + 1 + 2] = CRLF /\ f[at + 1 + 3].error = "none"
                THEN Decoded(SubSeq(q, at + 2, at + 1 + 1) \o f[at + 1 + 3].body) ELSE Broken
    <3>1. 1 \in 1..2
      OBVIOUS
    <3> QED BY <1>3, <1>4, <3>1
  <2> QED BY <2>1, <2>2
<1>5. 1 < n => f[1] = IF 4 <= n /\ f[5].error = "none"
                      THEN Decoded(SubSeq(q, 3, 3) \o f[5].body) ELSE Broken
  <2> HIDE DEF n
  <2>1. 1 < n => 1 \in 1..(n + 1) /\ q[1] = Hex(1) /\ q[1 + 1] = CRLF
    BY <1>1, <1>2
  <2>2. 1 < n => f[1] = IF 1 + 3 <= n /\ q[1 + 3] = CRLF /\ f[1 + 4].error = "none"
                        THEN Decoded(SubSeq(q, 1 + 2, 1 + 2) \o f[1 + 4].body) ELSE Broken
    BY <1>4, <2>1
  <2>3. 4 <= n => q[4] = CRLF
    BY <1>1, <1>2
  <2> QED BY <2>2, <2>3
<1>6. 5 < n => f[5] = IF 8 <= n /\ f[9].error = "none"
                      THEN Decoded(SubSeq(q, 7, 7) \o f[9].body) ELSE Broken
  <2> HIDE DEF n
  <2>1. 5 < n => 5 \in 1..(n + 1) /\ q[5] = Hex(1) /\ q[5 + 1] = CRLF
    BY <1>1, <1>2
  <2>2. 5 < n => f[5] = IF 5 + 3 <= n /\ q[5 + 3] = CRLF /\ f[5 + 4].error = "none"
                        THEN Decoded(SubSeq(q, 5 + 2, 5 + 2) \o f[5 + 4].body) ELSE Broken
    BY <1>4, <2>1
  <2>3. 8 <= n => q[8] = CRLF
    BY <1>1, <1>2
  <2> QED BY <2>2, <2>3
<1>7. 8 <= n => f[9] = IF 9 < n THEN Decoded(<<>>) ELSE Broken
  <2> HIDE DEF n
  <2>1. 8 <= n => 9 \in 1..(n + 1)
    BY <1>1
  <2>2. 9 < n => q[9] = "0" /\ q[9 + 1] = CRLF
    BY <1>1, <1>2
  <2> QED BY <2>1, <2>2, <1>3
<1>8. 4 <= n /\ ~(5 < n) => f[5] = Broken
  <2> HIDE DEF n
  <2>1. 4 <= n => 5 \in 1..(n + 1)
    BY <1>1
  <2> QED BY <2>1, <1>3
<1>9. ~(1 < n) => f[1] = Broken
  <2> HIDE DEF n
  <2>1. 1 \in 1..(n + 1)
    BY <1>1
  <2> QED BY <2>1, <1>3
<1>10. Broken.error # "none" /\ Decoded(<<>>).error = "none" /\ Decoded(<<>>).body = <<>>
       /\ \A data : Decoded(data).error = "none" /\ Decoded(data).body = data
  BY DEF Broken, Decoded
<1>11. CASE 9 < n
  <2> HIDE DEF n
  <2>1. SubSeq(q, 3, 3) = a
    <3>1. q \in Seq(Pieces) /\ Len(q) >= 2 + Len(a) /\ \A i \in 1..Len(a) : q[2 + i] = a[i]
      BY <1>0, <1>1, <1>2, <1>11 DEF Begins, n
    <3>2. SubSeq(q, 2 + 1, 2 + Len(a)) = a
      BY <1>0, <3>1, Middle
    <3>3. 2 + 1 = 3 /\ 2 + Len(a) = 3
      BY <1>0
    <3> QED BY <3>2, <3>3
  <2>2. SubSeq(q, 7, 7) = b
    <3>1. q \in Seq(Pieces) /\ Len(q) >= 6 + Len(b) /\ \A i \in 1..Len(b) : q[6 + i] = b[i]
      BY <1>0, <1>1, <1>2, <1>11 DEF Begins, n
    <3>2. SubSeq(q, 6 + 1, 6 + Len(b)) = b
      BY <1>0, <3>1, Middle
    <3>3. 6 + 1 = 7 /\ 6 + Len(b) = 7
      BY <1>0
    <3> QED BY <3>2, <3>3
  <2>3. 1 < n /\ 4 <= n /\ 5 < n /\ 8 <= n /\ n >= 11 - 1
    BY <1>1, <1>11
  <2>4. f[9] = Decoded(<<>>)
    BY <1>7, <1>11, <2>3
  <2>5. f[5] = Decoded(b \o <<>>)
    BY <1>6, <1>10, <2>2, <2>3, <2>4
  <2>6. f[5] = Decoded(b)
    <3>1. b \o <<>> = b
      BY <1>0, ConcatEmptySeq
    <3> QED BY <2>5, <3>1
  <2>7. f[1] = Decoded(a \o b)
    BY <1>5, <1>10, <2>1, <2>3, <2>6
  <2>8. a \o b = body
    <3> DEFINE s == a \o b
    <3>1. /\ s \in Seq(Symbols) /\ Len(s) = Len(a) + Len(b)
          /\ \A i \in 1..Len(a) : s[i] = a[i]
          /\ \A i \in 1..Len(b) : s[Len(a) + i] = b[i]
      <4>1. a \in Seq(Symbols) /\ b \in Seq(Symbols)
        BY <1>0
      <4> QED BY <4>1, Joined
    <3> HIDE DEF s
    <3>2. Len(s) = 2 /\ s[1] = body[1] /\ s[2] = body[2]
      BY <1>0, <3>1
    <3>3. \A i \in 1..Len(s) : s[i] = body[i]
      BY <3>2
    <3>4. s = body
      BY <1>0, <3>1, <3>2, <3>3, SeqEqual
    <3> QED BY <3>4 DEF s
  <2>9. f[1] = Decoded(body)
    BY <2>7, <2>8
  <2> QED BY <1>1, <1>3, <2>3, <2>9 DEF n
<1>12. CASE ~(9 < n)
  <2> HIDE DEF n
  <2>1. ~(n >= 11 - 1)
    BY <1>1, <1>12
  <2>2. f[1] = Broken
    <3>1. CASE ~(1 < n)
      BY <3>1, <1>9
    <3>2. CASE 1 < n /\ ~(4 <= n)
      BY <3>2, <1>5
    <3>3. CASE 4 <= n /\ ~(5 < n)
      BY <3>3, <1>1, <1>5, <1>8, <1>10
    <3>4. CASE 5 < n /\ ~(8 <= n)
      BY <3>4, <1>1, <1>5, <1>6, <1>10
    <3>5. CASE 8 <= n
      BY <3>5, <1>1, <1>5, <1>6, <1>7, <1>10, <1>12
    <3> QED BY <1>1, <3>1, <3>2, <3>3, <3>4, <3>5
  <2> QED BY <1>1, <1>3, <2>1, <2>2 DEF n
<1> QED BY <1>11, <1>12

(* The first pieces of a payload are a beginning of it. *)
LEMMA Prefix ==
    ASSUME NEW p \in Seq(Pieces), NEW n \in 1..(Len(p) + 1)
    PROVE  Begins(SubSeq(p, 1, n - 1), p) /\ Len(SubSeq(p, 1, n - 1)) = n - 1
<1> DEFINE m == n - 1
           q == SubSeq(p, 1, m)
<1>1. Len(p) \in Nat /\ m \in 0..Len(p) /\ m \in Int /\ 1 \in Int
  OBVIOUS
<1>2. \A i \in 1..m : p[i] \in Pieces
  BY <1>1, ElementOfSeq
<1> HIDE DEF m
<1>3. q \in Seq(Pieces) /\ Len(q) = (IF 1 <= m THEN m - 1 + 1 ELSE 0) /\ \A i \in 1..(m - 1 + 1) : q[i] = p[1 + i - 1]
  BY <1>1, <1>2, SubSeqProperties
<1> HIDE DEF q
<1>4. Len(q) = m
  BY <1>1, <1>3
<1>5. \A i \in 1..m : q[i] = p[i]
  <2>1. m - 1 + 1 = m /\ \A i \in 1..m : 1 + i - 1 = i
    BY <1>1
  <2> QED BY <1>3, <2>1
<1>6. Begins(q, p)
  BY <1>1, <1>3, <1>4, <1>5 DEF Begins
<1> QED BY <1>4, <1>6 DEF q, m

(* Where the first of two beginnings of a payload holds a last chunk, so does the longer one. *)
LEMMA EndsLonger ==
    ASSUME NEW p, NEW q, NEW r, Begins(q, p), Begins(r, p), Len(q) <= Len(r), EndsIn(q)
    PROVE  EndsIn(r)
<1>1. Len(q) \in Nat /\ Len(r) \in Nat /\ q \in Seq(Pieces) /\ r \in Seq(Pieces) /\ \A i \in 1..Len(q) : q[i] = r[i]
  BY DEF Begins
<1>2. PICK i \in 1..(Len(q) - 2) : SubSeq(q, i, i + 2) = LastChunk
  BY DEF EndsIn
<1>3. i \in 1..(Len(r) - 2)
  BY <1>1
<1>4. SubSeq(q, i, i + 2) = SubSeq(r, i, i + 2)
  <2> DEFINE j == i + 2
             s == SubSeq(q, i, j)
             t == SubSeq(r, i, j)
  <2>1. i \in Int /\ j \in Int /\ \A k \in i..j : k \in 1..Len(q) /\ k \in 1..Len(r)
    BY <1>1, <1>3
  <2>2. \A k \in i..j : q[k] \in Pieces /\ r[k] \in Pieces /\ q[k] = r[k]
    BY <1>1, <2>1, ElementOfSeq
  <2> HIDE DEF j
  <2>3. /\ s \in Seq(Pieces) /\ Len(s) = (IF i <= j THEN j - i + 1 ELSE 0) /\ \A k \in 1..(j - i + 1) : s[k] = q[i + k - 1]
    BY <2>1, <2>2, SubSeqProperties
  <2>4. /\ t \in Seq(Pieces) /\ Len(t) = (IF i <= j THEN j - i + 1 ELSE 0) /\ \A k \in 1..(j - i + 1) : t[k] = r[i + k - 1]
    BY <2>1, <2>2, SubSeqProperties
  <2> HIDE DEF s, t
  <2>5. i <= j /\ i \in Nat /\ j \in Nat
    BY <1>3 DEF j
  <2>6. \A k \in 1..(j - i + 1) : i + k - 1 \in i..j
    BY <2>5
  <2>7. Len(s) = Len(t) /\ \A k \in 1..Len(s) : s[k] = t[k]
    BY <2>2, <2>3, <2>4, <2>5, <2>6
  <2>8. s = t
    BY <2>3, <2>4, <2>7, SeqEqual
  <2> QED BY <2>8 DEF s, t, j
<1> QED BY <1>2, <1>3, <1>4 DEF EndsIn

(* What the Engine sends, for every framing. *)
LEMMA Sent ==
    ASSUME NEW body \in Bodies, NEW status, NEW framing \in Framings, NEW chunks \in Chunkings(body)
    PROVE  LET p == Response(status, framing, chunks).payload
           IN  /\ p \in Seq(Pieces) /\ body \in Seq(Symbols) /\ Len(body) \in 0..2 /\ (Len(body) = 0 => body = <<>>)
               /\ framing # "chunked" => p = body
               /\ framing = "chunked" => NoChunk(p, body) \/ InOneChunk(p, body) \/ InTwoChunks(p, body)
<1> DEFINE encoded(c) == FlattenSeq([n \in DOMAIN c |-> EncodedChunk(c[n])]) \o LastOne
           p == Response(status, framing, chunks).payload
<1>1. p = IF framing = "chunked" THEN encoded(chunks) ELSE FlattenSeq(chunks)
  BY DEF Response, LastOne
<1>2. body \in Seq(Symbols) /\ Len(body) \in 0..2 /\ (Len(body) = 0 => body = <<>>)
  <2>1. CASE body = <<>>
    BY <2>1
  <2>2. ASSUME NEW a \in Symbols, body = <<a>> PROVE <1>2
    BY <2>2
  <2>3. ASSUME NEW a \in Symbols, NEW b \in Symbols, body = <<a, b>> PROVE <1>2
    BY <2>3
  <2> QED BY <2>1, <2>2, <2>3 DEF Bodies
<1>3. body \in Seq(Pieces)
  BY <1>2 DEF Pieces
<1>4. /\ framing # "chunked" => p = body
      /\ framing = "chunked" => NoChunk(p, body) \/ InOneChunk(p, body) \/ InTwoChunks(p, body)
  <2>1. CASE body = <<>>
    <3>1. "x" \in Symbols
      BY DEF Symbols
    <3>2. chunks = <<>>
      BY <2>1, <3>1, CutUp
    <3>3. FlattenSeq(<<>>) = <<>> /\ NoChunk(encoded(<<>>), <<>>)
      BY <3>1, Plain, Encoded
    <3> HIDE DEF encoded, p
    <3> QED BY <1>1, <2>1, <3>2, <3>3
  <2>2. ASSUME NEW a \in Symbols, body = <<a>> PROVE <1>4!1 /\ <1>4!2
    <3>2. chunks = <<<<a>>>>
      BY <2>2, CutUp
    <3>3. FlattenSeq(<<<<a>>>>) = <<a>> /\ InOneChunk(encoded(<<<<a>>>>), <<a>>)
      BY Plain, Encoded
    <3> HIDE DEF encoded, p
    <3> QED BY <1>1, <2>2, <3>2, <3>3
  <2>3. ASSUME NEW a \in Symbols, NEW b \in Symbols, body = <<a, b>> PROVE <1>4!1 /\ <1>4!2
    <3>1. Chunkings(<<a, b>>) = {<<<<a, b>>>>, <<<<a>>, <<b>>>>}
      BY CutUp
    <3> DEFINE u == <<<<a, b>>>>
               v == <<<<a>>, <<b>>>>
    <3>2. chunks = u \/ chunks = v
      <4>1. Chunkings(body) = {u, v}
        BY <2>3, <3>1
      <4> HIDE DEF u, v
      <4> QED BY <4>1
    <3>3. FlattenSeq(<<<<a, b>>>>) = <<a, b>> /\ InOneChunk(encoded(<<<<a, b>>>>), <<a, b>>)
      BY Plain, Encoded
    <3>4. FlattenSeq(<<<<a>>, <<b>>>>) = <<a, b>> /\ InTwoChunks(encoded(<<<<a>>, <<b>>>>), <<a, b>>)
      BY Plain, Encoded
    <3> HIDE DEF encoded, p
    <3> QED BY <1>1, <2>3, <3>2, <3>3, <3>4
  <2> QED BY <2>1, <2>2, <2>3 DEF Bodies
<1>5. p \in Seq(Pieces)
  BY <1>3, <1>4 DEF NoChunk, InOneChunk, InTwoChunks
<1> QED BY <1>2, <1>4, <1>5

(* What is heard of an answer is a beginning of its body, whatever arrived.  It is all of it once the
   whole answer is there, and when the client stops because it seems to be, but for SeemsToEnd. *)
LEMMA Heard ==
    ASSUME NEW body \in Bodies, NEW status, Bodyless(status) => body = <<>>,
           NEW framing \in Framings, NEW chunks \in Chunkings(body),
           NEW reply, reply = Response(status, framing, chunks), NEW n \in 1..Size(reply)
    PROVE  /\ \E k \in 0..Len(body) : Content(reply, n).body = SubSeq(body, 1, k)
           /\ n = Size(reply) \/ (Complete(reply, n) /\ ~SeemsToEnd(reply)) => Content(reply, n) = Decoded(body)
<1> DEFINE p == reply.payload
           q == SubSeq(p, 1, n - 1)
<1>1. /\ p \in Seq(Pieces) /\ body \in Seq(Symbols) /\ Len(body) \in 0..2 /\ (Len(body) = 0 => body = <<>>)
      /\ framing # "chunked" => p = body
      /\ framing = "chunked" => NoChunk(p, body) \/ InOneChunk(p, body) \/ InTwoChunks(p, body)
  BY Sent
<1>2. reply.status = status /\ reply.framing = framing
  BY DEF Response
<1>3. Size(reply) = 1 + Len(p) /\ Arrived(reply, n) = q /\ Len(p) \in Nat /\ n \in 1..(Len(p) + 1)
  BY <1>1 DEF Size, Arrived
<1>4. Begins(q, p) /\ Len(q) = n - 1
  BY <1>1, <1>3, Prefix
<1>5. SubSeq(body, 1, 0) = <<>> /\ SubSeq(body, 1, Len(body)) = body
  BY <1>1, SubSeqEmpty, SubSeqFull
<1>6. Decoded(body).body = body /\ Decoded(<<>>).body = <<>> /\ Broken.body = <<>> /\ Decoded(q).body = q
  BY DEF Decoded, Broken
<1> HIDE DEF p, q
<1>7. CASE Bodyless(status)
  <2>1. Content(reply, n) = Decoded(<<>>) /\ body = <<>>
    BY <1>2, <1>7 DEF Content
  <2>2. 0 \in 0..Len(body)
    BY <1>1
  <2> QED BY <2>1, <2>2, <1>5, <1>6
<1>8. CASE ~Bodyless(status) /\ framing = "chunked"
  <2>1. Content(reply, n) = DecodeChunked(q)
    BY <1>2, <1>3, <1>8 DEF Content
  <2>2. DecodeChunked(q) = IF Len(q) >= Len(p) - 1 THEN Decoded(body) ELSE Broken
    <3>1. CASE NoChunk(p, body)
      <4>1. body = <<>> /\ Len(p) - 1 = 2 /\ NoChunk(p, <<>>)
        BY <3>1 DEF NoChunk
      <4> QED BY <4>1, <1>4, DecodesEmpty
    <3>2. CASE InOneChunk(p, body)
      BY <3>2, <1>1, <1>4, DecodesOne
    <3>3. CASE InTwoChunks(p, body)
      BY <3>3, <1>1, <1>4, DecodesTwo
    <3> QED BY <1>1, <1>8, <3>1, <3>2, <3>3
  <2>3. \E k \in 0..Len(body) : Content(reply, n).body = SubSeq(body, 1, k)
    <3>1. 0 \in 0..Len(body) /\ Len(body) \in 0..Len(body)
      BY <1>1
    <3> QED BY <2>1, <2>2, <3>1, <1>5, <1>6
  <2>4. ASSUME n = Size(reply) \/ (Complete(reply, n) /\ ~SeemsToEnd(reply)) PROVE Len(q) >= Len(p) - 1
    <3>1. CASE n = Size(reply)
      BY <3>1, <1>3, <1>4
    <3>2. CASE Complete(reply, n) /\ ~SeemsToEnd(reply)
      <4>1. EndsIn(q)
        BY <3>2, <1>2, <1>3, <1>8 DEF Complete
      <4> DEFINE m == Size(reply) - 2
                 r == SubSeq(p, 1, m - 1)
      <4>2. ~EndsIn(r)
        BY <3>2, <1>2, <1>8 DEF SeemsToEnd, Arrived, p
      <4>3. SUFFICES ASSUME Len(q) <= Len(p) - 2 PROVE FALSE
        BY <1>3, <1>4
      <4>4. m \in 1..(Len(p) + 1) /\ m - 1 = Len(p) - 2
        BY <1>3, <1>4, <4>3
      <4> HIDE DEF m
      <4>5. Begins(r, p) /\ Len(r) = m - 1
        BY <1>1, <4>4, Prefix
      <4>6. Len(q) <= Len(r)
        BY <4>3, <4>4, <4>5
      <4> HIDE DEF r
      <4> QED BY <1>4, <4>1, <4>2, <4>5, <4>6, EndsLonger
    <3> QED BY <2>4, <3>1, <3>2
  <2> QED BY <2>1, <2>2, <2>3, <2>4
<1>9. CASE ~Bodyless(status) /\ framing # "chunked"
  <2>1. p = body /\ q = SubSeq(body, 1, n - 1) /\ n - 1 \in 0..Len(body)
    BY <1>1, <1>3, <1>9 DEF q
  <2>2. /\ framing = "length" => Content(reply, n) = IF n < Size(reply) THEN Broken ELSE Decoded(q)
        /\ framing # "length" => Content(reply, n) = Decoded(q)
    BY <1>2, <1>3, <1>9 DEF Content
  <2>3. \E k \in 0..Len(body) : Content(reply, n).body = SubSeq(body, 1, k)
    <3>1. 0 \in 0..Len(body)
      BY <1>1
    <3> QED BY <2>1, <2>2, <3>1, <1>5, <1>6
  <2>4. n = Size(reply) => Content(reply, n) = Decoded(body)
    <3>1. n = Size(reply) => n - 1 = Len(body) /\ ~(n < Size(reply))
      BY <1>3, <2>1
    <3>2. n = Size(reply) => q = body
      BY <3>1, <2>1, <1>5
    <3> QED BY <3>1, <3>2, <2>2
  <2>5. Complete(reply, n) => n = Size(reply)
    BY <1>2, <1>9 DEF Complete
  <2> QED BY <2>3, <2>4, <2>5
<1> QED BY <1>7, <1>8, <1>9

-----------------------------------------------------------------------------
(* The Engine's answers, and what DockerManager makes of them. *)

(* Acts, for every configuration. *)
Calls == {"start", "stop", "remove", "delete", "list", "ping"}

(* The statuses DockerManager takes for success, in a response without an error. *)
Accepted(act, status) == Succeeded(status) \/ status \in AlsoAccepted[act]

(* No two states have the same listing. *)
LEMMA Listings ==
    /\ \A s \in States : Listing[s] \in Bodies /\ Len(Listing[s]) = 2
    /\ \A s, t \in States : Listing[s] = Listing[t] => s = t
    /\ Message \in Bodies /\ <<>> \in Bodies
<1>1. /\ Listing["idle"] = <<"x", "x">> /\ Listing["running"] = <<"x", "0">> /\ Listing["gone"] = <<"2", "x">>
  BY DEF Listing, States
<1>2. "x" \in Symbols /\ "0" \in Symbols /\ "2" \in Symbols
  BY DEF Symbols
<1>3. \A s \in States : Listing[s] \in Bodies /\ Len(Listing[s]) = 2
  <2>1. <<"x", "x">> \in Bodies /\ <<"x", "0">> \in Bodies /\ <<"2", "x">> \in Bodies
    BY <1>2 DEF Bodies
  <2> QED BY <1>1, <2>1 DEF States
<1>4. \A s, t \in States : Listing[s] = Listing[t] => s = t
  BY <1>1 DEF States
<1>5. Message \in Bodies /\ <<>> \in Bodies
  BY <1>2 DEF Message, Bodies
<1> QED BY <1>3, <1>4, <1>5

(* What the Engine answers, against what DockerManager takes for success. *)
LEMMA Answers ==
    ASSUME NEW act \in Calls, NEW s \in States, NEW answer \in AnswersTo(act, s)
    PROVE  /\ answer.body \in Bodies /\ answer.after \in States
           /\ answer.after \in After(act, s)
           /\ Bodyless(answer.status) => answer.body = <<>>
           /\ Accepted(act, answer.status) => s \in Promised(act) \/ answer.after \in Promised(act)
           /\ Refused(act, answer.status) \/ Accepted(act, answer.status)
           /\ Accepted(act, answer.status) /\ act = "list" => answer.body = Listing[s]
           /\ Accepted(act, answer.status) /\ act = "ping" => answer.body = Message
           /\ answer.status # 0
<1>1. answer.after \in After(act, s)
  BY DEF After
<1>2. CASE answer = Answer(500, s, Message)
  <2>1. answer.status = 500 /\ answer.after = s /\ answer.body = Message
    BY <1>2 DEF Answer
  <2>2. ~Accepted(act, 500) /\ ~Bodyless(500) /\ Refused(act, 500)
    BY DEF Accepted, Succeeded, AlsoAccepted, Bodyless, Refused, Calls
  <2> QED BY <1>1, <2>1, <2>2, Listings
<1>3. CASE answer = Regular(act, s)
  <2>1. CASE act = "ping"
    <3>1. answer.status = 200 /\ answer.after = s /\ answer.body = Message
      BY <1>3, <2>1 DEF Answer, Regular
    <3>2. Accepted(act, 200) /\ ~Bodyless(200) /\ Promised(act) = States
      BY <2>1 DEF Accepted, Succeeded, Bodyless, Promised
    <3> QED BY <1>1, <2>1, <3>1, <3>2, Listings
  <2>2. CASE act = "list"
    <3>1. answer.status = 200 /\ answer.after = s /\ answer.body = Listing[s]
      BY <1>3, <2>2 DEF Answer, Regular
    <3>2. Accepted(act, 200) /\ ~Bodyless(200) /\ Promised(act) = States
      BY <2>2 DEF Accepted, Succeeded, Bodyless, Promised
    <3> QED BY <1>1, <2>2, <3>1, <3>2, Listings
  <2>3. CASE act \notin {"ping", "list"} /\ s = "gone"
    <3>1. answer.status = 404 /\ answer.after = s /\ answer.body = Message
      BY <1>3, <2>3 DEF Answer, Regular
    <3>2. /\ ~Bodyless(404)
          /\ Accepted(act, 404) => s \in Promised(act)
          /\ Refused(act, 404) \/ Accepted(act, 404)
      <4>1. ~Bodyless(404)
        BY DEF Bodyless
      <4>2. act = "start" \/ act \in {"stop", "remove", "delete"}
        BY <2>3 DEF Calls
      <4>3. CASE act = "start"
        BY <4>1, <4>3 DEF Accepted, Succeeded, AlsoAccepted, Refused
      <4>4. CASE act \in {"stop", "remove", "delete"}
        BY <4>1, <4>4, <2>3 DEF Accepted, Succeeded, AlsoAccepted, Promised
      <4> QED BY <4>2, <4>3, <4>4
    <3> QED BY <1>1, <2>3, <3>1, <3>2, Listings
  <2>4. CASE act \notin {"ping", "list"} /\ s # "gone"
    <3>1. answer = Changing(act, s)
      BY <1>3, <2>4 DEF Regular
    <3>2. CASE act \in {"start", "stop"} /\ s \in Promised(act)
      <4>1. answer.status = 304 /\ answer.after = s /\ answer.body = <<>>
        BY <2>4, <3>1, <3>2 DEF Answer, Changing, Promised, States
      <4>2. Accepted(act, 304)
        BY <3>2 DEF Accepted, AlsoAccepted
      <4> QED BY <1>1, <2>4, <3>2, <4>1, <4>2, Listings
    <3>3. CASE act \in {"start", "stop"} /\ s \notin Promised(act)
      <4>1. answer.status = 204 /\ answer.after \in Promised(act) /\ answer.after \in States /\ answer.body = <<>>
        BY <2>4, <3>1, <3>3 DEF Answer, Changing, Promised, States
      <4>2. Accepted(act, 204)
        BY DEF Accepted, Succeeded
      <4> QED BY <1>1, <2>4, <3>3, <4>1, <4>2, Listings
    <3>4. CASE act \in {"remove", "delete"} /\ s = "running"
      <4>1. answer.status = 409 /\ answer.after = s /\ answer.body = Message
        BY <3>1, <3>4 DEF Answer, Changing
      <4>2. ~Accepted(act, 409) /\ Refused(act, 409) /\ ~Bodyless(409)
        BY <3>4 DEF Accepted, Succeeded, AlsoAccepted, Bodyless, Refused
      <4> QED BY <1>1, <4>1, <4>2, Listings
    <3>5. CASE act = "remove" /\ s # "running"
      <4>1. answer.status = 204 /\ answer.after = "gone" /\ answer.body = <<>>
        BY <3>1, <3>5 DEF Answer, Changing
      <4>2. Accepted(act, 204) /\ "gone" \in Promised(act) /\ "gone" \in States
        BY <3>5 DEF Accepted, Succeeded, Promised, States
      <4> QED BY <1>1, <2>4, <4>1, <4>2, Listings
    <3>6. CASE act = "delete" /\ s # "running"
      <4>1. answer.status = 200 /\ answer.after = "gone" /\ answer.body = Message
        BY <3>1, <3>6 DEF Answer, Changing
      <4>2. Accepted(act, 200) /\ ~Bodyless(200) /\ "gone" \in Promised(act) /\ "gone" \in States
        BY <3>6 DEF Accepted, Succeeded, Bodyless, Promised, States
      <4> QED BY <1>1, <2>4, <4>1, <4>2, Listings
    <3> QED BY <2>4, <3>2, <3>3, <3>4, <3>5, <3>6 DEF Calls
  <2> QED BY <2>1, <2>2, <2>3, <2>4
<1> QED BY <1>2, <1>3 DEF AnswersTo

(* What a response keeps of what was read. *)
LEMMA Parsed ==
    ASSUME NEW reply, NEW n \in Nat
    PROVE  /\ n = 0 => Parse(reply, n) = Unheard
           /\ n # 0 => /\ Parse(reply, n).status = reply.status
                       /\ Parse(reply, n).body = Content(reply, n).body
                       /\ Content(reply, n).error = "none" /\ Succeeded(reply.status) => Parse(reply, n).error = "none"
BY DEF Parse

(* No listing is a beginning of another one. *)
LEMMA OnlyWhole ==
    ASSUME NEW s \in States, NEW t \in States, NEW k \in 0..2, Listing[t] = SubSeq(Listing[s], 1, k)
    PROVE  t = s
<1> DEFINE body == Listing[s]
<1>1. body \in Seq(Symbols) /\ Len(body) = 2 /\ Len(Listing[t]) = 2
  <2>1. body \in Bodies /\ Len(body) = 2 /\ Len(Listing[t]) = 2
    BY Listings
  <2> HIDE DEF body
  <2>2. CASE body = <<>>
    BY <2>1, <2>2
  <2>3. ASSUME NEW a \in Symbols, body = <<a>> PROVE body \in Seq(Symbols)
    BY <2>3
  <2>4. ASSUME NEW a \in Symbols, NEW b \in Symbols, body = <<a, b>> PROVE body \in Seq(Symbols)
    BY <2>4
  <2> QED BY <2>1, <2>2, <2>3, <2>4 DEF Bodies
<1> HIDE DEF body
<1>2. \A i \in 1..k : body[i] \in Symbols
  BY <1>1, ElementOfSeq
<1>3. 1 \in Int /\ k \in Int
  OBVIOUS
<1>4. Len(SubSeq(body, 1, k)) = IF 1 <= k THEN k - 1 + 1 ELSE 0
  BY <1>2, <1>3, SubSeqProperties
<1>5. k = 2
  BY <1>1, <1>4 DEF body
<1>6. SubSeq(body, 1, Len(body)) = body
  BY <1>1, SubSeqFull
<1> QED BY <1>1, <1>5, <1>6, Listings DEF body

(* What DockerManager makes of a beginning of an answer given in state s. *)
LEMMA Verdicts ==
    ASSUME NEW act \in Calls, NEW s \in States, NEW answer \in AnswersTo(act, s),
           NEW framing \in Framings, NEW chunks \in Chunkings(answer.body),
           NEW reply, reply = Response(answer.status, framing, chunks), NEW n \in 0..Size(reply),
           NEW v, v = Verdict(act, Parse(reply, n))
    PROVE  /\ v.verdict \in {"ok", "failed"}
           /\ v.verdict = "failed" => v.told = "none"
           /\ v.verdict = "ok" => /\ s \in Promised(act) \/ answer.after \in Promised(act)
                                  /\ v.told = IF act = "list" THEN s ELSE "none"
           /\ v.verdict = "failed" /\ n # 0 /\ (n = Size(reply) \/ (Complete(reply, n) /\ ~SeemsToEnd(reply)))
                  => Refused(act, answer.status)
<1> DEFINE response == Parse(reply, n)
           good == Ok(act, response) /\ (act = "list" => Tells(response) # {}) /\ (act = "ping" => response.body = Message)
           told == IF act = "list" THEN CHOOSE t \in Tells(response) : TRUE ELSE "none"
<1>1. /\ good => v.verdict = "ok" /\ v.told = told
      /\ ~good => v.verdict = "failed" /\ v.told = "none"
  BY DEF Verdict
<1>2. Size(reply) \in Nat /\ reply.status = answer.status
  <2>1. reply.payload \in Seq(Pieces)
    BY Answers, Sent
  <2> QED BY <2>1 DEF Size, Response
<1>3. n \in Nat
  BY <1>2
<1> HIDE DEF response
<1>4. ASSUME n # 0
      PROVE  /\ response.status = answer.status
             /\ response.body = Content(reply, n).body
             /\ Content(reply, n).error = "none" /\ Succeeded(answer.status) => response.error = "none"
  BY <1>2, <1>3, <1>4, Parsed DEF response
<1>5. ASSUME n # 0
      PROVE  /\ \E k \in 0..Len(answer.body) : Content(reply, n).body = SubSeq(answer.body, 1, k)
             /\ n = Size(reply) \/ (Complete(reply, n) /\ ~SeemsToEnd(reply))
                    => Content(reply, n) = Decoded(answer.body)
  <2>1. n \in 1..Size(reply)
    BY <1>2, <1>5
  <2>2. answer.body \in Bodies /\ (Bodyless(answer.status) => answer.body = <<>>)
    BY Answers
  <2> QED BY <2>1, <2>2, Heard
<1>6. good => n # 0
  <2>1. SUFFICES ASSUME n = 0 PROVE ~Ok(act, response)
    OBVIOUS
  <2>2. response.status = 0
    BY <1>3, <2>1, Parsed DEF response, Unheard
  <2> QED BY <2>2 DEF Ok, Succeeded, AlsoAccepted, Calls
<1>7. Ok(act, response) /\ n # 0 => Accepted(act, answer.status)
  BY <1>4 DEF Ok, Accepted
<1>8. ASSUME good, act = "list" PROVE told = s
  <2>1. n # 0 /\ Accepted(act, answer.status)
    BY <1>6, <1>7, <1>8
  <2>2. answer.body = Listing[s] /\ Len(answer.body) = 2
    BY <1>8, <2>1, Answers, Listings
  <2>3. told \in Tells(response)
    BY <1>8
  <2>4. told \in States /\ Listing[told] = response.body
    BY <2>3 DEF Tells
  <2>5. PICK k \in 0..2 : response.body = SubSeq(Listing[s], 1, k)
    BY <1>4, <1>5, <2>1, <2>2
  <2> HIDE DEF told
  <2> QED BY <2>4, <2>5, OnlyWhole
<1>9. good => s \in Promised(act) \/ answer.after \in Promised(act)
  BY <1>6, <1>7, Answers
<1>10. ASSUME n # 0, n = Size(reply) \/ (Complete(reply, n) /\ ~SeemsToEnd(reply)), ~Refused(act, answer.status)
       PROVE  good
  <2>1. Accepted(act, answer.status)
    BY <1>10, Answers
  <2>2. Content(reply, n) = Decoded(answer.body)
    BY <1>5, <1>10
  <2>3. Content(reply, n).error = "none" /\ Content(reply, n).body = answer.body
    BY <2>2 DEF Decoded
  <2>4. Ok(act, response)
    BY <1>4, <1>10, <2>1, <2>3 DEF Ok, Accepted
  <2>5. act = "list" => s \in Tells(response)
    BY <1>4, <1>10, <2>1, <2>3, Answers DEF Tells
  <2>6. act = "ping" => response.body = Message
    BY <1>4, <1>10, <2>1, <2>3, Answers
  <2> QED BY <2>4, <2>5, <2>6
<1> HIDE DEF good, told
<1>11. good => told = IF act = "list" THEN s ELSE "none"
  BY <1>8 DEF told
<1> QED BY <1>1, <1>9, <1>10, <1>11

-----------------------------------------------------------------------------
(* The invariant of a call. *)

(* What has been read is of an answer Docker gave in a state it was in since the call began. *)
Answering(answer, framing, chunks) ==
    /\ answer.after \in seen
    /\ conn \in [answered : {TRUE}, reply : {Response(answer.status, framing, chunks)}, ended : BOOLEAN]
    /\ got \in 0..Size(conn.reply)

Connected == /\ pc = "read"
             /\ \E s \in seen : \E answer \in AnswersTo(call, s) :
                   \E framing \in Framings, chunks \in Chunkings(answer.body) :
                       Answering(answer, framing, chunks)

CallInv == /\ thing \in States /\ late \in [Acts -> Nat]
           /\ call \in Acts \cup {"none"} /\ pc \in {"idle", "connect", "write", "read"}
           /\ call = "none" <=> pc = "idle"
           /\ seen \in SUBSET States
           /\ call = "none" => seen = {}
           /\ call # "none" => thing \in seen
           /\ (conn = Closed /\ got = 0) \/ Connected
           /\ dead \in BOOLEAN

LEMMA ActsAre == Acts \subseteq Calls /\ "none" \notin Acts
BY ClientAssumption DEF Calls

LEMMA NotAnswered == conn = Closed => conn.answered = FALSE /\ conn.ended = FALSE
BY DEF Closed

LEMMA CallInit == Init => CallInv /\ Caller!Init
<1> SUFFICES ASSUME Init PROVE CallInv /\ Caller!Init
  OBVIOUS
<1>1. CallInv
  BY DEF Init, ClientInit, TrapsInit, CallInv
<1>2. Issued = {}
  BY ActsAre, NotAnswered DEF Init, ClientInit, Issued
<1>3. Caller!Init
  BY <1>2 DEF Init, ClientInit, TrapsInit, Caller!Init, States, Unreported
<1> QED BY <1>1, <1>3

(* Steps that leave the call alone. *)
LEMMA CallStutters ==
    ASSUME CallInv, UNCHANGED client, dead' = dead
    PROVE  CallInv' /\ UNCHANGED Caller!vars
<1>1. UNCHANGED <<thing, late, changes, call, pc, conn, got, report, seen, dead>>
  BY DEF client, engine
<1>2. CallInv'
  BY <1>1 DEF CallInv, Connected, Answering
<1>3. Issued' = Issued
  BY <1>1 DEF Issued
<1>4. UNCHANGED Caller!vars
  BY <1>1, <1>3 DEF Caller!vars
<1> QED BY <1>2, <1>4

(* Steps that may end TuxDock and leave the call alone. *)
LEMMA CallKilled ==
    ASSUME CallInv, UNCHANGED client, ~dead, dead' \in BOOLEAN
    PROVE  CallInv' /\ (Caller!Next \/ UNCHANGED Caller!vars)
<1>1. UNCHANGED <<thing, late, changes, call, pc, conn, got, report, seen>>
  BY DEF client, engine
<1>2. CallInv'
  BY <1>1 DEF CallInv, Connected, Answering
<1>3. Issued' = Issued
  BY <1>1 DEF Issued
<1>4. CASE dead'
  <2>1. Caller!Killed
    BY <1>1, <1>3, <1>4 DEF Caller!Killed
  <2> QED BY <1>2, <2>1 DEF Caller!Next
<1>5. CASE ~dead'
  BY <1>1, <1>2, <1>3, <1>5 DEF Caller!vars, CallInv
<1> QED BY <1>4, <1>5

(* BeginBusyOperation's thread begins a call. *)
LEMMA CallBegins ==
    ASSUME NEW a \in Acts, CallInv, Call(a), dead' = dead, ~dead
    PROVE  CallInv' /\ Caller!Next
<1>1. /\ pc = "idle" /\ call = "none" /\ call' = a /\ pc' = "connect" /\ seen' = {thing} /\ report' = Unreported
      /\ UNCHANGED <<thing, late, changes, conn, got>>
  BY DEF Call, engine, CallInv
<1>2. conn = Closed /\ got = 0
  BY <1>1 DEF CallInv, Connected
<1>3. a # "none" /\ a \in Calls
  BY ActsAre
<1>4. CallInv'
  BY <1>1, <1>2, <1>3 DEF CallInv
<1>5. Issued = {b \in Acts : late[b] > 0} /\ Issued' = Issued \cup {a}
  BY <1>1, <1>2, <1>3, NotAnswered DEF Issued
<1>6. Caller!Call(a)
  BY <1>1, <1>5 DEF Caller!Call, Unreported
<1> QED BY <1>4, <1>6 DEF Caller!Next

(* The connection is made and the request written. *)
LEMMA CallWrites ==
    ASSUME CallInv, Connect \/ Write, dead' = dead
    PROVE  CallInv' /\ UNCHANGED Caller!vars
<1>1. /\ pc \in {"connect", "write"} /\ pc' \in {"write", "read"}
      /\ UNCHANGED <<thing, late, changes, call, conn, got, report, seen>>
  BY DEF Connect, Write, engine
<1>2. conn = Closed /\ got = 0
  BY <1>1 DEF CallInv, Connected
<1>3. CallInv'
  BY <1>1, <1>2 DEF CallInv
<1>4. Issued' = Issued
  BY <1>1 DEF Issued
<1> QED BY <1>1, <1>3, <1>4 DEF Caller!vars

(* A call that ends, with what was read or with an error. *)
LEMMA CallEnds ==
    ASSUME CallInv, NEW response, Return(response), ~dead, dead' = dead, pc # "idle",
           late' = late \/ (~conn.answered /\ late' = [late EXCEPT ![call] = @ + 1]),
           LET v == Verdict(call, response)
           IN  \/ v.verdict = "failed" /\ v.told = "none"
               \/ /\ v.verdict = "ok" /\ seen \cap Promised(call) # {}
                  /\ v.told \in seen \cup {"none"} /\ (call = "list" => v.told # "none")
    PROVE  CallInv' /\ Caller!Next
<1>1. /\ report' = Verdict(call, response) /\ call' = "none" /\ pc' = "idle" /\ conn' = Closed /\ got' = 0
      /\ seen' = {} /\ thing' = thing
  BY DEF Return
<1>2. call \in Acts /\ call # "none" /\ late \in [Acts -> Nat]
  BY ActsAre DEF CallInv
<1>3. CallInv'
  BY <1>1, <1>2 DEF CallInv
<1>4. Issued' \in SUBSET Issued
  <2>1. Issued' = {a \in Acts : late'[a] > 0}
    BY <1>1 DEF Issued
  <2>2. ASSUME NEW a \in Acts, late'[a] > 0 PROVE a \in Issued
    BY <1>2, <2>2 DEF Issued
  <2> QED BY <2>1, <2>2
<1>5. Caller!Fails \/ Caller!Succeeds
  BY <1>1 DEF Caller!Fails, Caller!Succeeds
<1>6. Caller!Return
  BY <1>1, <1>2, <1>4, <1>5 DEF Caller!Return
<1> QED BY <1>3, <1>6 DEF Caller!Next

(* A call that failed without a response reports so. *)
LEMMA FailedVerdict ==
    ASSUME NEW act \in Calls, NEW error
    PROVE  Verdict(act, Failed(error)).verdict = "failed" /\ Verdict(act, Failed(error)).told = "none"
<1>1. ~Ok(act, Failed(error))
  BY DEF Ok, Failed, Succeeded, AlsoAccepted, Calls
<1> QED BY <1>1 DEF Verdict

(* The connection fails, or the time limit of a read passes. *)
LEMMA CallFails ==
    ASSUME CallInv, ConnectionFails \/ TimeOut \/ Reset, ~dead, dead' = dead
    PROVE  CallInv' /\ Caller!Next
<1>1. PICK error : Return(Failed(error)) /\ pc # "idle"
  BY DEF ConnectionFails, TimeOut, Reset
<1>2. late' = late \/ (~conn.answered /\ late' = [late EXCEPT ![call] = @ + 1])
  BY DEF ConnectionFails, TimeOut, Reset, Abandon
<1>3. call \in Calls
  BY <1>1, ActsAre DEF CallInv
<1>4. Verdict(call, Failed(error)).verdict = "failed" /\ Verdict(call, Failed(error)).told = "none"
  BY <1>3, FailedVerdict
<1> QED BY <1>1, <1>2, <1>4, CallEnds

(* What has been read of an answer. *)
LEMMA ReadVerdict ==
    ASSUME CallInv, conn.answered, NEW n \in 0..Size(conn.reply)
    PROVE  LET v == Verdict(call, Parse(conn.reply, n))
           IN  /\ \/ v.verdict = "failed" /\ v.told = "none"
                  \/ /\ v.verdict = "ok" /\ seen \cap Promised(call) # {}
                     /\ v.told \in seen \cup {"none"} /\ (call = "list" => v.told # "none")
               /\ v.verdict = "failed" /\ n # 0
                  /\ (n = Size(conn.reply) \/ (Complete(conn.reply, n) /\ ~SeemsToEnd(conn.reply)))
                      => Refused(call, conn.reply.status)
<1>1. Connected
  BY NotAnswered DEF CallInv
<1>2. PICK s \in seen : \E answer \in AnswersTo(call, s) :
          \E framing \in Framings, chunks \in Chunkings(answer.body) : Answering(answer, framing, chunks)
  BY <1>1 DEF Connected
<1>3. PICK answer \in AnswersTo(call, s) :
          \E framing \in Framings, chunks \in Chunkings(answer.body) : Answering(answer, framing, chunks)
  BY <1>2
<1>4. PICK framing \in Framings, chunks \in Chunkings(answer.body) : Answering(answer, framing, chunks)
  BY <1>3
<1>5. call \in Calls /\ s \in States /\ s # "none"
  BY <1>1, ActsAre DEF CallInv, Connected, States
<1>6. /\ answer.after \in seen /\ conn.reply = Response(answer.status, framing, chunks)
      /\ conn.reply.status = answer.status
  <2>1. answer.after \in seen /\ conn.reply = Response(answer.status, framing, chunks)
    BY <1>4 DEF Answering
  <2> QED BY <2>1 DEF Response
<1> DEFINE v == Verdict(call, Parse(conn.reply, n))
<1>7. /\ v.verdict \in {"ok", "failed"}
      /\ v.verdict = "failed" => v.told = "none"
      /\ v.verdict = "ok" => /\ s \in Promised(call) \/ answer.after \in Promised(call)
                             /\ v.told = IF call = "list" THEN s ELSE "none"
      /\ v.verdict = "failed" /\ n # 0
         /\ (n = Size(conn.reply) \/ (Complete(conn.reply, n) /\ ~SeemsToEnd(conn.reply)))
             => Refused(call, answer.status)
  BY <1>5, <1>6, Verdicts
<1> HIDE DEF v
<1>8. v.verdict = "ok" => /\ seen \cap Promised(call) # {}
                          /\ v.told \in seen \cup {"none"} /\ (call = "list" => v.told # "none")
  BY <1>5, <1>6, <1>7
<1>9. \/ v.verdict = "failed" /\ v.told = "none"
      \/ /\ v.verdict = "ok" /\ seen \cap Promised(call) # {}
         /\ v.told \in seen \cup {"none"} /\ (call = "list" => v.told # "none")
  BY <1>7, <1>8
<1> QED BY <1>6, <1>7, <1>9 DEF v

(* Once there is an answer, it has a size, and what has been read is within it. *)
LEMMA ReplySize ==
    ASSUME CallInv, conn.answered
    PROVE  Size(conn.reply) \in Nat \ {0} /\ got \in 0..Size(conn.reply) /\ Connected
<1>1. Connected
  BY NotAnswered DEF CallInv
<1>2. PICK s \in seen : \E answer \in AnswersTo(call, s) :
          \E framing \in Framings, chunks \in Chunkings(answer.body) : Answering(answer, framing, chunks)
  BY <1>1 DEF Connected
<1>3. PICK answer \in AnswersTo(call, s) :
          \E framing \in Framings, chunks \in Chunkings(answer.body) : Answering(answer, framing, chunks)
  BY <1>2
<1>4. PICK framing \in Framings, chunks \in Chunkings(answer.body) : Answering(answer, framing, chunks)
  BY <1>3
<1>5. call \in Calls /\ s \in States
  BY <1>1, ActsAre DEF CallInv, Connected
<1>6. answer.body \in Bodies
  BY <1>5, Answers
<1>7. conn.reply.payload \in Seq(Pieces)
  BY <1>4, <1>6, Sent DEF Answering
<1> QED BY <1>1, <1>4, <1>7 DEF Answering, Size

(* Some bytes arrive: the response is complete, or the loop goes on. *)
LEMMA CallReceives ==
    ASSUME CallInv, Receive, ~dead, dead' = dead
    PROVE  CallInv' /\ (Caller!Next \/ UNCHANGED Caller!vars)
<1>1. PICK n \in (got + 1)..Size(conn.reply) :
         IF Complete(conn.reply, n) THEN Return(Parse(conn.reply, n)) /\ UNCHANGED late
         ELSE got' = n /\ UNCHANGED <<engine, call, pc, conn, report, seen>>
  BY DEF Receive
<1>2. pc = "read" /\ conn.answered
  BY DEF Receive
<1>3. n \in 0..Size(conn.reply) /\ Connected
  BY <1>2, ReplySize
<1>4. CASE Complete(conn.reply, n)
  BY <1>1, <1>2, <1>3, <1>4, ReadVerdict, CallEnds
<1>5. CASE ~Complete(conn.reply, n)
  <2>1. got' = n /\ UNCHANGED <<thing, late, changes, call, pc, conn, report, seen>>
    BY <1>1, <1>5 DEF engine
  <2>2. Connected'
    BY <2>1, <1>3 DEF Connected, Answering
  <2>3. CallInv'
    BY <2>1, <2>2 DEF CallInv
  <2>4. Issued' = Issued
    BY <2>1 DEF Issued
  <2> QED BY <2>1, <2>3, <2>4 DEF Caller!vars
<1> QED BY <1>4, <1>5

(* The Engine has closed the connection. *)
LEMMA CallEndOfFile ==
    ASSUME CallInv, EndOfFile, ~dead, dead' = dead
    PROVE  CallInv' /\ Caller!Next
<1>1. pc = "read" /\ conn.answered /\ Return(Parse(conn.reply, got)) /\ late' = late
  BY DEF EndOfFile
<1>2. got \in 0..Size(conn.reply)
  BY <1>1, ReplySize
<1> QED BY <1>1, <1>2, ReadVerdict, CallEnds

(* The request is sent again, and what was abandoned may still be carried out. *)
LEMMA CallAgain ==
    ASSUME CallInv, Again, dead' = dead
    PROVE  CallInv' /\ (Caller!Next \/ UNCHANGED Caller!vars)
<1>1. /\ pc = "read" /\ pc' = "connect" /\ conn' = Closed /\ got' = 0
      /\ UNCHANGED <<thing, changes, call, report, seen>>
      /\ late' = late \/ (~conn.answered /\ late' = [late EXCEPT ![call] = @ + 1])
  BY DEF Again, Abandon
<1>2. call \in Acts /\ call # "none" /\ late \in [Acts -> Nat]
  BY <1>1, ActsAre DEF CallInv
<1>3. CallInv'
  BY <1>1, <1>2 DEF CallInv
<1>4. Issued' = Issued \cup {call}
  <2>0. ~conn'.answered /\ call' = call
    BY <1>1 DEF Closed
  <2>1. Issued' = {a \in Acts : late'[a] > 0} \cup {call}
    BY <1>2, <2>0 DEF Issued
  <2>2. ASSUME NEW a \in Acts PROVE late'[a] > 0 <=> late[a] > 0 \/ (late' # late /\ a = call)
    BY <1>1, <1>2
  <2>3. Issued \cup {call} = {a \in Acts : late[a] > 0} \cup {call}
    BY <1>2 DEF Issued
  <2> QED BY <1>2, <2>1, <2>2, <2>3
<1>5. Caller!Resend
  BY <1>1, <1>2, <1>4 DEF Caller!Resend
<1> QED BY <1>3, <1>5 DEF Caller!Next

(* Docker carries the request out and answers. *)
LEMMA CallAnswered ==
    ASSUME CallInv, EngineAnswers, dead' = dead
    PROVE  CallInv' /\ Caller!Next
<1>1. /\ pc = "read" /\ ~conn.answered
      /\ UNCHANGED <<late, changes, call, pc, got, report>>
  BY DEF EngineAnswers
<1>2. PICK answer \in AnswersTo(call, thing), framing \in Framed :
         /\ \E chunks \in Chunkings(answer.body) :
               conn' = [answered |-> TRUE, reply |-> Response(answer.status, framing, chunks), ended |-> FALSE]
         /\ Becomes(answer.after)
  BY DEF EngineAnswers
<1>3. PICK chunks \in Chunkings(answer.body) :
         conn' = [answered |-> TRUE, reply |-> Response(answer.status, framing, chunks), ended |-> FALSE]
  BY <1>2
<1>4. call \in Acts /\ call \in Calls /\ call # "none" /\ thing \in States /\ thing \in seen
  BY <1>1, ActsAre DEF CallInv
<1>5. framing \in Framings
  BY ClientAssumption
<1>6. got = 0 /\ conn = Closed
  <2>1. ~Connected
    BY <1>1 DEF Connected, Answering
  <2> QED BY <2>1 DEF CallInv
<1>7. thing' = answer.after /\ seen' = seen \cup {answer.after} /\ answer.after \in States
      /\ answer.after \in After(call, thing) /\ answer.body \in Bodies
  BY <1>2, <1>4, Answers DEF Becomes
<1>8. 0 \in 0..Size(conn'.reply)
  <2>1. conn'.reply = Response(answer.status, framing, chunks)
    BY <1>3
  <2>2. conn'.reply.payload \in Seq(Pieces)
    BY <1>5, <1>7, <2>1, Sent
  <2> QED BY <2>2 DEF Size
<1>9. Connected'
  <2>1. conn' \in [answered : {TRUE}, reply : {Response(answer.status, framing, chunks)}, ended : BOOLEAN]
    BY <1>3
  <2>2. got' \in 0..Size(conn'.reply) /\ answer.after \in seen'
    BY <1>1, <1>6, <1>7, <1>8
  <2>3. Answering(answer, framing, chunks)'
    BY <2>1, <2>2 DEF Answering
  <2> QED BY <1>1, <1>4, <1>5, <1>7, <2>3 DEF Connected
<1>10. CallInv'
  BY <1>1, <1>4, <1>7, <1>9 DEF CallInv
<1>11. Issued' \in {Issued, Issued \ {call}}
  <2>1. Issued = {a \in Acts : late[a] > 0} \cup {call}
    BY <1>1, <1>4 DEF Issued
  <2>2. Issued' = {a \in Acts : late[a] > 0}
    BY <1>1, <1>3 DEF Issued
  <2> QED BY <2>1, <2>2
<1>12. Caller!CarryOut
  <2>1. call \in Issued
    BY <1>1, <1>4 DEF Issued
  <2>2. UNCHANGED <<call, [verdict |-> report.verdict, told |-> report.told], ~dead>>
    BY <1>1
  <2> QED BY <1>4, <1>7, <1>11, <2>1, <2>2 DEF Caller!CarryOut
<1> QED BY <1>10, <1>12 DEF Caller!Next

(* The answer breaks off. *)
LEMMA CallBroken ==
    ASSUME CallInv, EngineStops, dead' = dead
    PROVE  CallInv' /\ UNCHANGED Caller!vars
<1>1. conn.answered /\ conn' = [conn EXCEPT !.ended = TRUE] /\ UNCHANGED <<thing, late, changes, call, pc, got, report, seen>>
  BY DEF EngineStops, engine
<1>2. Connected
  BY <1>1, ReplySize
<1>3. PICK s \in seen : \E answer \in AnswersTo(call, s) :
          \E framing \in Framings, chunks \in Chunkings(answer.body) : Answering(answer, framing, chunks)
  BY <1>2 DEF Connected
<1>4. PICK answer \in AnswersTo(call, s), framing \in Framings :
          \E chunks \in Chunkings(answer.body) : Answering(answer, framing, chunks)
  BY <1>3
<1>5. PICK chunks \in Chunkings(answer.body) : Answering(answer, framing, chunks)
  BY <1>4
<1>6. /\ conn' \in [answered : {TRUE}, reply : {Response(answer.status, framing, chunks)}, ended : BOOLEAN]
      /\ conn'.reply = conn.reply /\ conn'.answered
  BY <1>1, <1>5 DEF Answering
<1>7. Answering(answer, framing, chunks)'
  BY <1>1, <1>5, <1>6 DEF Answering
<1>8. Connected'
  BY <1>1, <1>2, <1>4, <1>5, <1>7 DEF Connected
<1>9. CallInv'
  BY <1>1, <1>8 DEF CallInv
<1>10. Issued' = Issued
  BY <1>1, <1>6 DEF Issued
<1> QED BY <1>1, <1>9, <1>10 DEF Caller!vars

(* Docker comes to be in state s, while an answer may be on its way. *)
LEMMA ConnectedStill ==
    ASSUME CallInv, NEW s \in States, Becomes(s), UNCHANGED <<call, pc, conn, got>>
    PROVE  /\ (conn = Closed /\ got = 0)' \/ Connected'
           /\ thing' = s /\ seen' = IF call = "none" THEN {} ELSE seen \cup {s}
<1>1. thing' = s /\ seen' = IF call = "none" THEN {} ELSE seen \cup {s}
  BY DEF Becomes
<1>2. CASE conn = Closed /\ got = 0
  BY <1>1, <1>2
<1>3. CASE Connected
  <2>1. call # "none"
    BY <1>3 DEF CallInv, Connected
  <2>2. PICK t \in seen : \E answer \in AnswersTo(call, t) :
            \E framing \in Framings, chunks \in Chunkings(answer.body) : Answering(answer, framing, chunks)
    BY <1>3 DEF Connected
  <2>3. PICK answer \in AnswersTo(call, t), framing \in Framings :
            \E chunks \in Chunkings(answer.body) : Answering(answer, framing, chunks)
    BY <2>2
  <2>4. PICK chunks \in Chunkings(answer.body) : Answering(answer, framing, chunks)
    BY <2>3
  <2>5. Answering(answer, framing, chunks)' /\ t \in seen'
    BY <1>1, <2>1, <2>4 DEF Answering
  <2>6. Connected'
    BY <1>3, <2>3, <2>5 DEF Connected
  <2> QED BY <1>1, <2>6
<1> QED BY <1>2, <1>3 DEF CallInv

(* Docker carries out a request that was abandoned. *)
LEMMA CallLate ==
    ASSUME CallInv, EngineIsLate, dead' = dead
    PROVE  CallInv' /\ Caller!Next
<1>1. PICK a \in Acts : /\ late[a] > 0 /\ late' = [late EXCEPT ![a] = @ - 1]
                        /\ \E s \in After(a, thing) : Becomes(s)
                        /\ UNCHANGED <<changes, call, pc, conn, got, report>>
  BY DEF EngineIsLate
<1>2. PICK s \in After(a, thing) : Becomes(s)
  BY <1>1
<1>3. s \in States
  <2>1. PICK answer \in AnswersTo(a, thing) : s = answer.after
    BY <1>2 DEF After
  <2> QED BY <2>1, ActsAre, Answers DEF CallInv
<1>4. /\ (conn = Closed /\ got = 0)' \/ Connected'
      /\ thing' = s /\ seen' = IF call = "none" THEN {} ELSE seen \cup {s}
  BY <1>1, <1>2, <1>3, ConnectedStill
<1>5. late \in [Acts -> Nat] /\ late[a] \in Nat /\ late' \in [Acts -> Nat]
  BY <1>1 DEF CallInv
<1>6. CallInv'
  BY <1>1, <1>3, <1>4, <1>5 DEF CallInv
<1>7. Issued' \in {Issued, Issued \ {a}}
  <2>1. \A b \in Acts : b # a => late'[b] = late[b]
    BY <1>1, <1>5
  <2> DEFINE waiting == IF call # "none" /\ ~conn.answered THEN {call} ELSE {}
  <2>2. Issued = {b \in Acts : late[b] > 0} \cup waiting /\ Issued' = {b \in Acts : late'[b] > 0} \cup waiting
    BY <1>1 DEF Issued
  <2> HIDE DEF waiting
  <2>3. CASE late'[a] > 0 \/ a \in waiting
    <3>1. \A b \in Acts : (late'[b] > 0 \/ b \in waiting) <=> (late[b] > 0 \/ b \in waiting)
      BY <1>1, <2>1, <2>3
    <3> QED BY <2>2, <3>1
  <2>4. CASE ~(late'[a] > 0 \/ a \in waiting)
    <3>1. \A b \in Acts : (late'[b] > 0 \/ b \in waiting) <=> (late[b] > 0 \/ b \in waiting) /\ b # a
      BY <1>1, <2>1, <2>4
    <3> QED BY <2>2, <2>4, <3>1
  <2> QED BY <2>3, <2>4
<1>8. a \in Issued
  BY <1>1 DEF Issued
<1>9. UNCHANGED <<call, [verdict |-> report.verdict, told |-> report.told], ~dead>>
  BY <1>1
<1>10. Caller!CarryOut
  BY <1>2, <1>4, <1>7, <1>8, <1>9 DEF Caller!CarryOut
<1> QED BY <1>6, <1>10 DEF Caller!Next

(* Another client changes the object. *)
LEMMA CallElsewhere ==
    ASSUME CallInv, ChangedElsewhere, dead' = dead
    PROVE  CallInv' /\ Caller!Next
<1>1. PICK s \in States : Becomes(s)
  BY DEF ChangedElsewhere
<1>2. UNCHANGED <<late, call, pc, conn, got, report>>
  BY DEF ChangedElsewhere
<1>3. /\ (conn = Closed /\ got = 0)' \/ Connected'
      /\ thing' = s /\ seen' = IF call = "none" THEN {} ELSE seen \cup {s}
  BY <1>1, <1>2, ConnectedStill
<1>4. CallInv'
  BY <1>2, <1>3 DEF CallInv
<1>5. Issued' = Issued
  BY <1>2 DEF Issued
<1>6. Caller!Elsewhere
  BY <1>2, <1>3, <1>5 DEF Caller!Elsewhere, States
<1> QED BY <1>4, <1>6 DEF Caller!Next

(* The completion takes the result. *)
LEMMA CallTaken ==
    ASSUME CallInv, Complete_
    PROVE  CallInv' /\ Caller!Next
<1>1. /\ ~dead /\ report' = Unreported
      /\ UNCHANGED <<thing, late, changes, call, pc, conn, got, seen, dead>>
  BY DEF Complete_, engine, UIRuns
<1>2. CallInv'
  BY <1>1 DEF CallInv, Connected, Answering
<1>3. Issued' = Issued
  BY <1>1 DEF Issued
<1>4. Caller!Taken
  BY <1>1, <1>3 DEF Caller!Taken, Unreported
<1> QED BY <1>2, <1>4 DEF Caller!Next

(* Every step keeps the invariant, and is one of DockerCall or leaves it alone. *)
LEMMA CallStep ==
    ASSUME CallInv, [Next]_vars
    PROVE  CallInv' /\ (Caller!Next \/ UNCHANGED Caller!vars)
<1>1. CASE BeginBusyOperation \/ Completed \/ (Statement /\ UNCHANGED <<client, phase, interrupted>>)
  BY <1>1, CallStutters DEF BeginBusyOperation, Completed, Statement, traps
<1>2. CASE StartThread
  BY <1>2, CallBegins DEF StartThread, UIRuns
<1>3. CASE Complete_
  BY <1>3, CallTaken
<1>4. CASE Work
  <2>1. ~dead /\ dead' = dead
    BY <1>4 DEF Work, WorkerRuns, traps
  <2>2. CASE Again
    BY <2>1, <2>2, CallAgain
  <2>3. CASE Client
    BY <2>1, <2>3, CallWrites, CallFails, CallReceives, CallEndOfFile DEF Client
  <2> QED BY <1>4, <2>2, <2>3 DEF Work
<1>5. CASE BrokenPipe
  BY <1>5, CallKilled DEF BrokenPipe, WorkerRuns
<1>6. CASE Signal
  <2>1. PICK s \in Trapped, t \in Threads : Deliver(s, t) /\ UNCHANGED client
    BY <1>6 DEF Signal
  <2>2. ~dead /\ dead' \in BOOLEAN
    BY <2>1 DEF Deliver, ActedUpon, CallInv
  <2> QED BY <2>1, <2>2, CallKilled
<1>7. ASSUME NEW t \in Threads, Handle(t) PROVE CallInv' /\ (Caller!Next \/ UNCHANGED Caller!vars)
  <2>1. UNCHANGED client /\ ~dead /\ dead' \in BOOLEAN
    BY <1>7 DEF Handle, Handler, HandlerEnters, HandlerCounts, HandlerChains, At, ActedUpon, CallInv
  <2> QED BY <2>1, CallKilled
<1>8. CASE Engine /\ UNCHANGED <<traps, phase, interrupted>>
  <2>1. dead' = dead
    BY <1>8 DEF traps
  <2> QED BY <1>8, <2>1, CallAnswered, CallBroken, CallLate, CallElsewhere DEF Engine
<1>9. CASE UNCHANGED vars
  BY <1>9, CallStutters DEF vars, traps
<1> QED BY <1>1, <1>2, <1>3, <1>4, <1>5, <1>6, <1>7, <1>8, <1>9 DEF Next, UI, Over

(* In every reachable state, what the client has read is part of an answer to its own call, given
   in a state Docker was in since the call began (request opens a connection for each attempt). *)
THEOREM CallInvariant == Spec => []CallInv
<1>1. Init => CallInv
  BY CallInit
<1>2. CallInv /\ [Next]_vars => CallInv'
  BY CallStep
<1> QED BY <1>1, <1>2, PTL DEF Spec

(* Whatever is lost, late, cut up or interrupted on its way, a call keeps the promises of
   DockerCall: it reports success only if Docker was in the promised state since it began, and
   a listing is of such a moment (request, and the success cases of DockerManager's functions). *)
THEOREM EveryCallImplements == Spec => ImplementsCall
<1>1. Init => Caller!Init
  BY CallInit
<1>2. CallInv /\ [Next]_vars => [Caller!Next]_Caller!vars
  BY CallStep
<1> QED BY <1>1, <1>2, CallInvariant, PTL DEF Spec, ImplementsCall, Caller!Spec

(* Which steps end a call, and with what. *)
LEMMA CallOver ==
    ASSUME CallInv, [Next]_vars, call # "none", call' = "none",
           report'.error \notin {"timeout", "connection"}
    PROVE  \E n \in 0..Size(conn.reply) :
              /\ conn.answered /\ report' = Verdict(call, Parse(conn.reply, n))
              /\ ~conn.ended => n # 0 /\ (n = Size(conn.reply) \/ Complete(conn.reply, n))
<1> DEFINE Goal == \E n \in 0..Size(conn.reply) :
                      /\ conn.answered /\ report' = Verdict(call, Parse(conn.reply, n))
                      /\ ~conn.ended => n # 0 /\ (n = Size(conn.reply) \/ Complete(conn.reply, n))
<1> SUFFICES Goal
  OBVIOUS
<1>0. call' # call
  OBVIOUS
<1>1. ASSUME NEW e, Return(Failed(e)) PROVE e = report'.error
  BY <1>1 DEF Return, Verdict, Failed
<1>2. CASE Work
  <2>1. CASE ConnectionFails \/ TimeOut \/ Reset
    BY <1>1, <2>1 DEF ConnectionFails, TimeOut, Reset
  <2>2. CASE Receive
    <3>1. conn.answered
      BY <2>2 DEF Receive
    <3>2. PICK n \in (got + 1)..Size(conn.reply) :
             IF Complete(conn.reply, n) THEN Return(Parse(conn.reply, n)) /\ UNCHANGED late
             ELSE got' = n /\ UNCHANGED <<engine, call, pc, conn, report, seen>>
      BY <2>2 DEF Receive
    <3>3. Complete(conn.reply, n) /\ Return(Parse(conn.reply, n))
      BY <1>0, <3>2
    <3>4. n \in 0..Size(conn.reply) /\ n # 0
      BY <3>1, ReplySize
    <3>5. report' = Verdict(call, Parse(conn.reply, n))
      BY <3>3 DEF Return
    <3> QED BY <3>1, <3>3, <3>4, <3>5
  <2>3. CASE EndOfFile
    <3>1. /\ conn.answered /\ (conn.ended \/ got = Size(conn.reply))
          /\ report' = Verdict(call, Parse(conn.reply, got))
      BY <2>3 DEF EndOfFile, Return
    <3>2. got \in 0..Size(conn.reply) /\ Size(conn.reply) # 0
      BY <3>1, ReplySize
    <3> QED BY <3>1, <3>2
  <2>4. ~Again /\ ~Connect /\ ~Write
    BY <1>0 DEF Again, Connect, Write
  <2> QED BY <1>2, <2>1, <2>2, <2>3, <2>4 DEF Work, Client
<1>3. CASE StartThread
  BY <1>3, ActsAre DEF StartThread, Call
<1>4. ~(Complete_ \/ UNCHANGED client)
  BY <1>0 DEF Complete_, client
<1>5. ~(Engine /\ UNCHANGED <<traps, phase, interrupted>>)
  BY <1>0 DEF Engine, EngineAnswers, EngineStops, EngineIsLate, ChangedElsewhere
<1>6. ~BeginBusyOperation /\ ~Completed /\ ~BrokenPipe /\ ~Signal /\ ~(\E t \in Threads : Handle(t))
  BY <1>4 DEF BeginBusyOperation, Completed, BrokenPipe, Signal, Handle
<1> QED BY <1>2, <1>3, <1>4, <1>5, <1>6 DEF Next, UI, Over, vars

(* When the whole answer came through, a call fails only if Docker refused it: neither the way
   the answer was cut up, nor a request carried out before, makes it fail (httpResponseComplete
   against parseHttpResponse). *)
THEOREM FailsFairly == Spec => FailsOnlyIfRefused
<1> DEFINE Refusal == /\ call # "none" /\ call' = "none"
                      /\ report'.verdict = "failed" /\ report'.error \notin {"timeout", "connection"}
                      /\ conn.answered /\ ~conn.ended
                      => Refused(call, conn.reply.status) \/ SeemsToEnd(conn.reply)
<1>1. CallInv /\ [Next]_vars => [Refusal]_client
  <2>1. SUFFICES ASSUME CallInv, [Next]_vars, call # "none", call' = "none",
                        report'.verdict = "failed", report'.error \notin {"timeout", "connection"},
                        conn.answered, ~conn.ended, ~SeemsToEnd(conn.reply)
                 PROVE  Refused(call, conn.reply.status)
    OBVIOUS
  <2>2. PICK n \in 0..Size(conn.reply) :
           /\ report' = Verdict(call, Parse(conn.reply, n))
           /\ n # 0 /\ (n = Size(conn.reply) \/ Complete(conn.reply, n))
    BY <2>1, CallOver
  <2>3. Connected
    BY <2>1, ReplySize
  <2> QED BY <2>1, <2>2, <2>3, ReadVerdict
<1>2. Spec => [][Refusal]_client
  BY <1>1, CallInvariant, PTL DEF Spec
<1> QED BY <1>2 DEF FailsOnlyIfRefused
=============================================================================
