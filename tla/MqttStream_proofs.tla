------------------------- MODULE MqttStream_proofs -------------------------
(***************************************************************************)
(* Proofs about what coreMQTT writes and reads: WholePacket,               *)
(* FramesInOrder, OnlyWellFormed, LengthExact and TopicMatches, for every  *)
(* request, every stream, every name and filter and every buffer of five   *)
(* bytes or more.  What the formats need is in MqttWire_proofs.            *)
(***************************************************************************)
EXTENDS MqttWire_proofs

-----------------------------------------------------------------------------
(* The job                                                                 *)

JobIs == job \in Sends \cup Receives \cup Answers \cup Lengths \cup Topics

LEMMA Kinds ==
  ASSUME JobIs
  PROVE  /\ job.kind = "send" => job \in Sends /\ job.stream = <<>> /\ job.writev \in BOOLEAN /\ RequestOK(job)
         /\ job.kind = "receive" => job \in Receives /\ job.stream \in Seq(Byte) /\ job.clean \in BOOLEAN
         /\ job.kind = "packet" => job.type \in Byte /\ job.d \in Seq(Byte) /\ Len(job.d) <= MaxRemaining
         /\ job.kind = "length" => job.n \in 0 .. MaxRemaining /\ job.qos \in 0 .. 2
         /\ job.kind = "topic" => job.name \in Seq(STRING) /\ job.filter \in Seq(STRING)
         /\ job.kind # "receive" => job.stream = <<>>
<1>1. job \in Sends => job.kind = "send" /\ job.stream = <<>> /\ job.writev \in BOOLEAN /\ RequestOK(job) BY JobsOK
<1>2. job \in Receives => job.kind = "receive" /\ job.stream \in Seq(Byte) /\ job.clean \in BOOLEAN BY JobsOK
<1>3. job \in Answers => /\ job.kind = "packet" /\ job.stream = <<>>
                         /\ job.type \in Byte /\ job.d \in Seq(Byte) /\ Len(job.d) <= MaxRemaining
  BY JobsOK
<1>4. job \in Lengths => job.kind = "length" /\ job.stream = <<>> /\ job.n \in 0 .. MaxRemaining /\ job.qos \in 0 .. 2
  BY JobsOK
<1>5. job \in Topics => /\ job.kind = "topic" /\ job.stream = <<>>
                        /\ job.name \in Seq(STRING) /\ job.filter \in Seq(STRING)
  BY JobsOK
<1> QED BY <1>1, <1>2, <1>3, <1>4, <1>5 DEF JobIs

LEMMA SameJob ==
  ASSUME [StreamNext]_streamVars
  PROVE  job' = job
  BY DEF StreamNext, streamVars, Begin, MQTT_Connect, MQTT_Subscribe, MQTT_Unsubscribe, MQTT_Publish, FixedPacket,
         Write, WriteFails, ReceiveConnack, ProcessLoop, DiscardStoredPacket, ReceiveFails

\* The job that a behaviour begins with stays what it is.
THEOREM StreamJob == StreamSpec => []JobIs
<1>1. StreamInit => JobIs BY DEF StreamInit, JobIs
<1>2. JobIs /\ [StreamNext]_streamVars => JobIs' BY SameJob DEF JobIs
<1> QED BY <1>1, <1>2, PTL DEF StreamSpec

\* Every length that a packet can have is encoded in as many bytes as the
\* sizes say and is read back by both decoders, and no front of it is taken
\* for a whole length (encodeRemainingLength, processRemainingLength,
\* getRemainingLength, MQTT_GetPublishPacketSize).
THEOREM StreamLengthExact == StreamSpec => []LengthExact
<1>1. JobIs => LengthExact
  <2> SUFFICES ASSUME JobIs, job.kind = "length" PROVE LengthExact BY DEF LengthExact
  <2>1. job.n \in 0 .. MaxRemaining /\ job.qos \in 0 .. 2 BY Kinds
  <2>2. job.n \in Nat /\ job.n <= MaxRemaining
    <3>1. MaxRemaining \in Nat BY MaxRemainingIs
    <3> QED BY <2>1, <3>1
  <2> QED BY <2>1, <2>2, LengthHolds, Zenon DEF LengthExact
<1> QED BY <1>1, StreamJob, PTL

\* Whatever name and filter the application compares, they match
\* as in MQTT 3.1.1, but for the matches that Missed lists (MQTT_MatchTopic).
THEOREM StreamTopicMatches == StreamSpec => []TopicMatches
<1>1. JobIs => TopicMatches
  <2> SUFFICES ASSUME JobIs, job.kind = "topic", ValidName(job.name), ValidFilter(job.filter)
               PROVE  MatchTopic(job.name, job.filter) <=>
                        Matches(job.name, job.filter) /\ ~Missed(job.name, job.filter)
    BY Zenon DEF TopicMatches
  <2>1. job.name \in Seq(STRING) /\ job.filter \in Seq(STRING) BY Kinds, Zenon
  <2> QED BY <2>1, MatchTopicIs, Zenon
<1> QED BY <1>1, StreamJob, PTL

\* Whatever packet a server sends, it is handled just when it is well-formed or
\* a publish of the two kinds that are let through, and the application reads
\* in a publish what was written there (MQTT_DeserializeAck,
\* MQTT_DeserializePublish, handleIncomingAck, handleIncomingPublish).
THEOREM StreamOnlyWellFormed == StreamSpec => []OnlyWellFormed
<1>1. JobIs => OnlyWellFormed
  <2> SUFFICES ASSUME JobIs, job.kind = "packet" PROVE OnlyWellFormed BY DEF OnlyWellFormed
  <2>1. job.type \in Byte /\ job.d \in Seq(Byte) /\ Len(job.d) <= MaxRemaining BY Kinds
  <2>2. (IncomingPacketValid(job.type) /\ Handle(job.type, job.d).handled) <=> Accepted(job.type, job.d) BY <2>1, Verdict
  <2>3. WellFormed(job.type, job.d) /\ Kind(job.type) = PUBLISH => job.type \in 48 .. 63 BY <2>1, KindPublish
  <2> QED BY <2>1, <2>2, <2>3, PublishSays, Zenon DEF OnlyWellFormed
<1> QED BY <1>1, StreamJob, PTL

-----------------------------------------------------------------------------
(* The packets of a stream                                                 *)

\* A function that is defined from its values further on.
Onward(f, lo, hi, Closed, Over, next, out) ==
  f = [i \in lo .. hi |-> IF i \in Closed THEN <<>> ELSE IF i \in Over THEN f[next[i]] ELSE <<out[i]>> \o f[next[i]]]

LEMMA OnwardExists ==
  ASSUME NEW lo \in Nat, NEW hi \in Nat, lo <= hi, NEW Closed, NEW Over, NEW next, NEW out, hi \in Closed,
         \A i \in lo .. hi : i \notin Closed => next[i] \in i + 1 .. hi
  PROVE  \E f : Onward(f, lo, hi, Closed, Over, next, out)
<1> DEFINE P(m) == m <= hi - lo => \E f : Onward(f, hi - m, hi, Closed, Over, next, out)
           T == {m \in Nat : P(m)}
<1>1. P(0)
  <2> DEFINE f == [i \in hi .. hi |-> <<>>]
  <2>1. f = [i \in hi .. hi |-> IF i \in Closed THEN <<>> ELSE IF i \in Over THEN f[next[i]] ELSE <<out[i]>> \o f[next[i]]]
    <3>1. \A i \in hi .. hi : i \in Closed OBVIOUS
    <3> QED BY <3>1
  <2>2. hi - 0 = hi OBVIOUS
  <2> HIDE DEF f
  <2>3. Onward(f, hi - 0, hi, Closed, Over, next, out) BY <2>1, <2>2 DEF Onward
  <2> QED BY <2>3
<1>2. ASSUME NEW m \in Nat, P(m) PROVE P(m + 1)
  <2> SUFFICES ASSUME m + 1 <= hi - lo PROVE \E f : Onward(f, hi - (m + 1), hi, Closed, Over, next, out) OBVIOUS
  <2>1. m <= hi - lo OBVIOUS
  <2>2. PICK g : Onward(g, hi - m, hi, Closed, Over, next, out) BY <1>2, <2>1
  <2> DEFINE a == hi - (m + 1)
             body(f, i) == IF i \in Closed THEN <<>> ELSE IF i \in Over THEN f[next[i]] ELSE <<out[i]>> \o f[next[i]]
             f == [i \in a .. hi |-> IF i = a THEN body(g, a) ELSE g[i]]
  <2>3. a \in lo .. hi /\ a \in Nat /\ hi - m = a + 1 OBVIOUS
  <2>4. g = [i \in a + 1 .. hi |-> body(g, i)] BY <2>2, <2>3 DEF Onward
  <2> HIDE DEF a
  <2>5. \A i \in a + 1 .. hi : f[i] = g[i] BY <2>3
  <2>6. ASSUME NEW i \in a .. hi PROVE f[i] = body(f, i)
    <3>1. i \in lo .. hi BY <2>3
    <3>2. i \notin Closed => next[i] \in a + 1 .. hi BY <2>3, <3>1
    <3>3. i \notin Closed => f[next[i]] = g[next[i]] BY <2>5, <3>2
    <3>4. body(f, i) = body(g, i) BY <3>3
    <3>5. CASE i = a BY <3>4, <3>5
    <3>6. CASE i # a
      <4>1. i \in a + 1 .. hi BY <2>3, <3>6
      <4>2. g[i] = body(g, i) BY <2>4, <4>1
      <4> QED BY <2>5, <3>4, <4>1, <4>2
    <3> QED BY <3>5, <3>6
  <2>7. f = [i \in a .. hi |-> f[i]] OBVIOUS
  <2> HIDE DEF f
  <2>8. f = [i \in a .. hi |-> body(f, i)] BY <2>6, <2>7
  <2>9. Onward(f, a, hi, Closed, Over, next, out) BY <2>8 DEF Onward
  <2> QED BY <2>9 DEF a
<1>3. Nat \subseteq T
  <2> HIDE DEF P
  <2>1. 0 \in T BY <1>1
  <2>2. \A n \in Nat : n \in T => n + 1 \in T BY <1>2
  <2> HIDE DEF T
  <2> QED BY <2>1, <2>2, NatInduct
<1>4. hi - lo \in Nat /\ hi - (hi - lo) = lo OBVIOUS
<1>5. P(hi - lo) BY <1>3, <1>4
<1> QED BY <1>4, <1>5

LEMMA HeaderBounds ==
  ASSUME NEW b \in Seq(Byte)
  PROVE  /\ Header(b).size \in 0 .. 5 /\ Header(b).n \in Nat
         /\ Header(b).size # 0 => b # <<>>
<1>1. CASE \E k : HeaderOf(b, k)
  <2>1. PICK k : HeaderOf(b, k) BY <1>1
  <2>2. Header(b) = [size |-> k + 1, n |-> Announced(b, k)] BY <2>1, HeaderIs
  <2>3. Ends(b, k) BY <2>1 DEF HeaderOf
  <2>4. k \in 1 .. 4 /\ k < Len(b) BY <2>3 DEF Ends
  <2>5. Announced(b, k) \in Nat BY <2>3, AnnouncedBound
  <2> QED BY <2>2, <2>4, <2>5
<1>2. CASE \A k : ~HeaderOf(b, k)
  <2>1. Header(b) = [size |-> 0, n |-> 0] BY <1>2, HeaderIs
  <2> QED BY <2>1
<1> QED BY <1>1, <1>2

\* One step of PacketsFrom(b), with F for the function itself and the header h.
Unfolded(b, F, i, h) ==
  LET next == i + h.size + h.n
  IN IF h.size = 0 \/ next > Len(b) + 1 \/ ~IncomingPacketValid(b[i]) THEN <<>>
     ELSE IF h.size + h.n > BufferSize THEN F[next]
     ELSE IF ~Accepted(b[i], SubSeq(b, i + h.size, next - 1)) THEN <<>>
     ELSE <<SubSeq(b, i, next - 1)>> \o F[next]

LEMMA PacketsUnfold ==
  ASSUME NEW b \in Seq(Byte), NEW i \in 1 .. Len(b) + 1
  PROVE  PacketsFrom(b)[i] = Unfolded(b, PacketsFrom(b), i, Header(SubSeq(b, i, Len(b))))
<1> DEFINE h(j) == Header(SubSeq(b, j, Len(b)))
           nx(j) == j + h(j).size + h(j).n
           none(j) == h(j).size = 0 \/ nx(j) > Len(b) + 1 \/ ~IncomingPacketValid(b[j])
           over(j) == h(j).size + h(j).n > BufferSize
           bad(j) == ~Accepted(b[j], SubSeq(b, j + h(j).size, nx(j) - 1))
           pk(j) == SubSeq(b, j, nx(j) - 1)
           hi == Len(b) + 1
           body(f, j) == IF none(j) THEN <<>> ELSE IF over(j) THEN f[nx(j)] ELSE IF bad(j) THEN <<>> ELSE <<pk(j)>> \o f[nx(j)]
           Closed == {j \in 1 .. hi : none(j) \/ (~over(j) /\ bad(j))}
           Over == {j \in 1 .. hi : over(j)}
           next == [j \in 1 .. hi |-> nx(j)]
           out == [j \in 1 .. hi |-> pk(j)]
           F == PacketsFrom(b)
<1>1. F = CHOOSE f : f = [j \in 1 .. hi |-> body(f, j)] BY Zenon DEF PacketsFrom
<1>2. \E f : Onward(f, 1, hi, Closed, Over, next, out)
  <2>1. hi \in Nat /\ 1 <= hi OBVIOUS
  <2>2. hi \in Closed
    <3>1. SubSeq(b, hi, Len(b)) = <<>> OBVIOUS
    <3>2. <<>> \in Seq(Byte) OBVIOUS
    <3>3. h(hi).size = 0 BY <3>1, <3>2, HeaderBounds
    <3>4. hi \in 1 .. hi BY <2>1
    <3> QED BY <3>3, <3>4
  <2>3. ASSUME NEW j \in 1 .. hi, j \notin Closed PROVE next[j] \in j + 1 .. hi
    <3>1. ~none(j) BY <2>3
    <3>2. SubSeq(b, j, Len(b)) \in Seq(Byte) OBVIOUS
    <3>3. h(j).size \in 0 .. 5 /\ h(j).n \in Nat BY <3>2, HeaderBounds
    <3>4. nx(j) <= hi /\ h(j).size # 0
      <4>1. ~(nx(j) > hi) /\ h(j).size # 0 BY <3>1
      <4> HIDE DEF h
      <4> QED BY <2>1, <3>3, <4>1
    <3>5. next[j] = nx(j) OBVIOUS
    <3> HIDE DEF next, h, hi
    <3> QED BY <2>1, <3>3, <3>4, <3>5, SMTT(60)
  <2> HIDE DEF Closed, Over, next, out, hi
  <2> QED BY <2>1, <2>2, <2>3, OnwardExists
<1>3. \E f : f = [j \in 1 .. hi |-> body(f, j)]
  <2>1. PICK f : Onward(f, 1, hi, Closed, Over, next, out) BY <1>2
  <2> HIDE DEF none, over, bad, pk, nx, hi
  <2>2. ASSUME NEW j \in 1 .. hi
        PROVE  body(f, j) = IF j \in Closed THEN <<>> ELSE IF j \in Over THEN f[next[j]] ELSE <<out[j]>> \o f[next[j]]
    OBVIOUS
  <2>3. f = [j \in 1 .. hi |-> IF j \in Closed THEN <<>> ELSE IF j \in Over THEN f[next[j]] ELSE <<out[j]>> \o f[next[j]]]
    BY <2>1 DEF Onward
  <2> HIDE DEF Closed, Over, next, out, body
  <2>4. f = [j \in 1 .. hi |-> body(f, j)] BY <2>2, <2>3
  <2> QED BY <2>4
<1>4. F = [j \in 1 .. hi |-> body(F, j)]
  <2> HIDE DEF F, body, hi
  <2> QED BY <1>1, <1>3
<1>5. F[i] = body(F, i)
  <2> HIDE DEF F, body
  <2> QED BY <1>4
<1> HIDE DEF F, h
<1>6. F[i] = Unfolded(b, F, i, h(i)) BY <1>5 DEF Unfolded
<1> QED BY <1>6 DEF F, h

\* The first m members of b are those of S from at on.
Same(b, S, at, m) == \A i \in 1 .. m : b[i] = S[at + i - 1]

SameSlices(b, S, at, m) ==
  \A x, y \in Nat : x >= 1 /\ y <= m => SubSeq(b, x, y) = SubSeq(S, at + x - 1, at + y - 1)

LEMMA SameSlice ==
  ASSUME NEW b, NEW S, NEW at, NEW m, at \in Nat, m \in Nat, Same(b, S, at, m)
  PROVE  SameSlices(b, S, at, m)
<1> SUFFICES ASSUME NEW x \in Nat, NEW y \in Nat, x >= 1, y <= m
             PROVE  SubSeq(b, x, y) = SubSeq(S, at + x - 1, at + y - 1)
  BY DEF SameSlices
<1>1. SubSeq(b, x, y) = [i \in 1 .. y - x + 1 |-> b[x + i - 1]] OBVIOUS
<1>2. SubSeq(S, at + x - 1, at + y - 1) = [i \in 1 .. (at + y - 1) - (at + x - 1) + 1 |-> S[(at + x - 1) + i - 1]]
  OBVIOUS
<1>3. (at + y - 1) - (at + x - 1) + 1 = y - x + 1 OBVIOUS
<1>4. \A i \in 1 .. y - x + 1 : x + i - 1 \in 1 .. m /\ at + (x + i - 1) - 1 = (at + x - 1) + i - 1 OBVIOUS
<1> QED BY <1>1, <1>2, <1>3, <1>4 DEF Same

LEMMA HeaderPrefix ==
  ASSUME NEW b \in Seq(Byte), NEW c \in Seq(Byte)
  PROVE  /\ \A j : HeaderOf(b, j) => HeaderOf(b \o c, j) /\ Announced(b \o c, j) = Announced(b, j)
         /\ ProcessRemainingLength(b).status = "BadResponse" => \A j : ~HeaderOf(b \o c, j)
<1> DEFINE r == b \o c
<1>1. r \in Seq(Byte) /\ Len(r) = Len(b) + Len(c) /\ \A i \in 1 .. Len(b) : r[i] = b[i] OBVIOUS
<1> HIDE DEF r
<1>2. ASSUME NEW j, Ends(b, j) PROVE Ends(r, j) /\ r[j + 1] = b[j + 1]
  <2>1. j \in 1 .. 4 /\ j < Len(b) /\ b[j + 1] < 128 /\ \A i \in 2 .. j : b[i] >= 128 BY <1>2 DEF Ends
  <2>2. r[j + 1] = b[j + 1] /\ \A i \in 2 .. j : r[i] = b[i]
    <3>1. Len(b) \in Nat BY LenProperties
    <3>2. j + 1 \in 1 .. Len(b) /\ \A i \in 2 .. j : i \in 1 .. Len(b) BY <2>1, <3>1
    <3> QED BY <1>1, <3>2, Zenon
  <2>3. j < Len(r) BY <1>1, <2>1
  <2> QED BY <2>1, <2>2, <2>3 DEF Ends
<1>3. ASSUME NEW j, HeaderOf(b, j) PROVE HeaderOf(r, j) /\ Announced(r, j) = Announced(b, j)
  <2>1. Ends(b, j) BY <1>3 DEF HeaderOf
  <2>2. HeaderOf(r, j) BY <1>2, <1>3, <2>1 DEF HeaderOf
  <2>3. j \in 1 .. 4 /\ j < Len(b) BY <2>1 DEF Ends
  <2>4. r[2] = b[2] /\ (j > 1 => r[3] = b[3]) /\ (j > 2 => r[4] = b[4]) /\ (j > 3 => r[5] = b[5]) BY <1>1, <2>3
  <2>5. /\ (IF j > 1 THEN 128 * (r[3] % 128) ELSE 0) = (IF j > 1 THEN 128 * (b[3] % 128) ELSE 0)
        /\ (IF j > 2 THEN 16384 * (r[4] % 128) ELSE 0) = (IF j > 2 THEN 16384 * (b[4] % 128) ELSE 0)
        /\ (IF j > 3 THEN 2097152 * r[5] ELSE 0) = (IF j > 3 THEN 2097152 * b[5] ELSE 0)
    BY <2>4, SMT
  <2>6. Announced(r, j) = Announced(b, j) BY <2>4, <2>5, SMT DEF Announced
  <2> QED BY <2>2, <2>6
<1>4. ASSUME ProcessRemainingLength(b).status = "BadResponse", NEW j, HeaderOf(r, j) PROVE FALSE
  <2>1. \A i : ~HeaderOf(b, i)
    <3>1. ASSUME NEW i, HeaderOf(b, i) PROVE FALSE
      <4>1. ProcessRemainingLength(b).status = "Success" BY <3>1, RemainingIs
      <4> QED BY <1>4, <4>1
    <3> QED BY <3>1
  <2>2. ~(Len(b) < 5 /\ \A i : ~Ends(b, i)) BY <1>4, <2>1, RemainingIs
  <2>3. Ends(r, j) /\ j \in 1 .. 4 /\ j < Len(r) BY <1>4 DEF HeaderOf, Ends
  <2>4. CASE j < Len(b)
    <3>3. j + 1 \in 1 .. Len(b) /\ \A i \in 2 .. j : i \in 1 .. Len(b) BY <2>3, <2>4
    <3>1. r[j + 1] = b[j + 1] /\ \A i \in 2 .. j : r[i] = b[i] BY <1>1, <3>3
    <3>2. Ends(b, j) BY <2>3, <2>4, <3>1 DEF Ends
    <3> QED BY <1>4, <2>1, <3>1, <3>2 DEF HeaderOf
  <2>5. CASE j >= Len(b)
    <3>1. Len(b) < 5 BY <2>3, <2>5
    <3>2. PICK i : Ends(b, i) BY <2>2, <3>1
    <3>3. Ends(r, i) BY <1>2, <3>2
    <3>4. i = j BY <1>1, <2>3, <3>3, EndsOnce
    <3>5. i < Len(b) /\ i \in 1 .. 4 BY <3>2 DEF Ends
    <3> QED BY <2>5, <3>4, <3>5
  <2> QED BY <2>3, <2>4, <2>5
<1> QED BY <1>3, <1>4 DEF r

\* What one call of receiveSingleIteration makes of the bytes b, of which the
\* stream S goes on with c behind them.
LEMMA Cut ==
  ASSUME NEW S \in Seq(Byte), NEW at \in 1 .. Len(S) + 1, NEW b \in Seq(Byte), NEW c \in Seq(Byte),
         b \o c = SubSeq(S, at, Len(S)), b # <<>>
  PROVE  LET h == ProcessIncoming(b)
             total == h.header + h.remaining
             v == Handle(b[1], SubSeq(b, h.header + 1, total))
             next == at + total
             F == PacketsFrom(S)
         IN /\ h.status \in {"Success", "NeedMoreBytes", "BadResponse"}
            /\ h.status = "BadResponse" => F[at] = <<>>
            /\ h.status = "NeedMoreBytes" => Len(b) < 5
            /\ h.status = "Success" =>
                 /\ total \in Nat /\ total >= 2
                 /\ total <= Len(b) /\ total <= BufferSize =>
                      /\ v.handled \in BOOLEAN /\ v.status = (IF v.handled THEN "Success" ELSE "BadResponse")
                      /\ F[at] = IF v.handled THEN <<SubSeq(b, 1, total)>> \o F[next] ELSE <<>>
                 /\ total > Len(b) + Len(c) => F[at] = <<>>
                 /\ total <= Len(b) + Len(c) /\ total > BufferSize => F[at] = F[next]
<1> DEFINE h == ProcessIncoming(b)
           total == h.header + h.remaining
           next == at + total
           F == PacketsFrom(S)
           L == Len(S)
           r == b \o c
           hr == Header(SubSeq(S, at, L))
           first == S[at]
<1>6. F[at] = Unfolded(S, F, at, hr) BY PacketsUnfold
<1>1. L \in Nat /\ at \in Nat /\ at >= 1 /\ at <= L + 1 OBVIOUS
<1>2. r \in Seq(Byte) /\ Len(r) = Len(b) + Len(c) /\ \A i \in 1 .. Len(b) : r[i] = b[i]
  <2>1. r \in Seq(Byte) /\ Len(r) = Len(b) + Len(c) BY ConcatProperties
  <2>2. \A i \in 1 .. Len(b) : r[i] = b[i] BY ConcatIs
  <2> QED BY <2>1, <2>2
<1>3. r = SubSeq(S, at, L) OBVIOUS
<1>4. Len(r) = L + 1 - at /\ \A i \in 1 .. Len(r) : r[i] = S[at + i - 1]
  <2>1. Len(SubSeq(S, at, L)) = (IF at <= L THEN L - at + 1 ELSE 0) /\ \A i \in 1 .. L - at + 1 : SubSeq(S, at, L)[i] = S[at + i - 1]
    BY SubSeqProperties
  <2> QED BY <1>1, <1>3, <2>1
<1>5. Len(b) >= 1 /\ Len(b) \in Nat /\ Len(c) \in Nat /\ b[1] = S[at] /\ b[1] \in Byte
  <2>1. Len(b) >= 1 /\ Len(b) \in Nat /\ Len(c) \in Nat OBVIOUS
  <2>2. 1 \in 1 .. Len(b) /\ 1 \in 1 .. Len(r) /\ at + 1 - 1 = at BY <1>1, <1>2, <2>1
  <2>3. r[1] = b[1] /\ r[1] = S[at + 1 - 1] BY <1>2, <1>4, <2>2
  <2> QED BY <2>1, <2>2, <2>3
<1> HIDE DEF r
<1>15. first = b[1] BY <1>5
<1>16. hr = Header(r) BY <1>3
<1>14. Same(b, S, at, Len(b))
  <2>1. \A i \in 1 .. Len(b) : i \in 1 .. Len(r) BY <1>2, <1>5
  <2> QED BY <1>2, <1>4, <2>1 DEF Same
<1>18. \A x, y \in Nat : x >= 1 /\ y <= Len(b) => SubSeq(b, x, y) = SubSeq(S, at + x - 1, at + y - 1)
  <2> DEFINE m == Len(b)
  <2>1. m \in Nat /\ Same(b, S, at, m) /\ at \in Nat BY <1>1, <1>5, <1>14
  <2> HIDE DEF m
  <2>2. SameSlices(b, S, at, m) BY <2>1, SameSlice
  <2> QED BY <2>2 DEF m, SameSlices
<1> HIDE DEF F, hr, first
<1>17. F[at] = IF hr.size = 0 \/ at + hr.size + hr.n > L + 1 \/ ~IncomingPacketValid(first) THEN <<>>
               ELSE IF hr.size + hr.n > BufferSize THEN F[at + hr.size + hr.n]
               ELSE IF ~Accepted(first, SubSeq(S, at + hr.size, (at + hr.size + hr.n) - 1)) THEN <<>>
               ELSE <<SubSeq(S, at, (at + hr.size + hr.n) - 1)>> \o F[at + hr.size + hr.n]
  BY <1>6, Zenon DEF Unfolded, first
<1> HIDE DEF L
<1>7. CASE ~IncomingPacketValid(b[1])
  <2>1. h = [status |-> "BadResponse", remaining |-> 0, header |-> 0] BY <1>7 DEF ProcessIncoming
  <2>2. h.status = "BadResponse" BY <2>1
  <2>3. F[at] = <<>> BY <1>17, <1>7, <1>15
  <2> QED BY <2>2, <2>3 DEF F
<1>8. CASE IncomingPacketValid(b[1])
  <2>1. h = ProcessRemainingLength(b) BY <1>8 DEF ProcessIncoming
  <2>2. CASE \A k : ~HeaderOf(b, k)
    <3>1. h.status = IF Len(b) < 5 /\ \A k : ~Ends(b, k) THEN "NeedMoreBytes" ELSE "BadResponse"
      BY <2>1, <2>2, RemainingIs
    <3>2. h.status = "BadResponse" => F[at] = <<>>
      <4> SUFFICES ASSUME h.status = "BadResponse" PROVE F[at] = <<>> OBVIOUS
      <4>1. \A k : ~HeaderOf(r, k) BY <2>1, HeaderPrefix DEF r
      <4>2. hr.size = 0 BY <1>2, <1>16, <4>1, HeaderIs
      <4> QED BY <1>17, <4>2
    <3> HIDE DEF h
    <3> QED BY <3>1, <3>2 DEF h, F
  <2>3. CASE \E k : HeaderOf(b, k)
    <3>1. PICK k : HeaderOf(b, k) BY <2>3
    <3> DEFINE n == Announced(b, k)
    <3>2. h = [status |-> "Success", remaining |-> n, header |-> k + 1] BY <2>1, <3>1, RemainingIs
    <3>3. Ends(b, k) BY <3>1 DEF HeaderOf
    <3>4. k \in 1 .. 4 /\ n \in Nat BY <3>3, AnnouncedBound DEF Ends
    <3>5. hr.size = k + 1 /\ hr.n = n
      <4>1. HeaderOf(r, k) /\ Announced(r, k) = n BY <3>1, HeaderPrefix DEF r
      <4>2. Header(r) = [size |-> k + 1, n |-> n] BY <1>2, <4>1, HeaderIs
      <4> QED BY <1>16, <4>2
    <3> HIDE DEF n
    <3>6. h.status = "Success" /\ h.header = k + 1 /\ h.remaining = n BY <3>2
    <3>7. total = k + 1 + n /\ total \in Nat /\ total >= 2 BY <3>4, <3>6
    <3>8. next = at + hr.size + hr.n /\ total = hr.size + hr.n BY <1>1, <3>4, <3>5, <3>7
    <3>14. next - 1 = at + total - 1
      <4> HIDE DEF total
      <4> QED BY <1>1, <3>7
    <3> HIDE DEF h, next, total
    <3>9. next > L + 1 <=> total > Len(b) + Len(c) BY <1>1, <1>2, <1>4, <1>5, <3>7 DEF next
    <3>10. hr.size # 0 BY <3>4, <3>5
    <3>11. total > Len(b) + Len(c) => F[at] = <<>> BY <1>17, <3>8, <3>9
    <3>12. total <= Len(b) + Len(c) /\ total > BufferSize => F[at] = F[next]
      <4> SUFFICES ASSUME total <= Len(b) + Len(c), total > BufferSize PROVE F[at] = F[next] OBVIOUS
      <4>1. ~(next > L + 1) BY <1>5, <3>7, <3>9
      <4> QED BY <1>17, <1>8, <1>15, <3>8, <3>10, <4>1
    <3>13. ASSUME total <= Len(b), total <= BufferSize
           PROVE  LET v == Handle(b[1], SubSeq(b, h.header + 1, total))
                  IN /\ v.handled \in BOOLEAN /\ v.status = (IF v.handled THEN "Success" ELSE "BadResponse")
                     /\ F[at] = IF v.handled THEN <<SubSeq(b, 1, total)>> \o F[next] ELSE <<>>
      <4> DEFINE d == SubSeq(b, h.header + 1, total)
                 v == Handle(b[1], d)
      <4>1. ~(next > L + 1) /\ ~(total > BufferSize) BY <1>5, <3>7, <3>9, <3>13, BufferSizeOK
      <4>2. SubSeq(b, 1, total) = SubSeq(S, at, next - 1)
        <5>1. SubSeq(b, 1, total) = SubSeq(S, at + 1 - 1, at + total - 1)
          <6> DEFINE m == Len(b)
          <6>1. total \in Nat /\ total <= m /\ 1 \in Nat /\ 1 >= 1 BY <3>7, <3>13
          <6>2. \A x, y \in Nat : x >= 1 /\ y <= m => SubSeq(b, x, y) = SubSeq(S, at + x - 1, at + y - 1) BY <1>18
          <6> HIDE DEF m
          <6> QED BY <6>1, <6>2
        <5>2. at + 1 - 1 = at BY <1>1
        <5> QED BY <5>1, <5>2, <3>14
      <4>3. d = SubSeq(S, at + hr.size, next - 1)
        <5>1. k + 2 >= 1 /\ k + 2 \in Nat /\ h.header + 1 = k + 2 BY <3>4, <3>6
        <5> DEFINE x == k + 2
        <5>4. x \in Nat /\ x >= 1 BY <5>1
        <5> HIDE DEF x
        <5>2. SubSeq(b, x, total) = SubSeq(S, at + x - 1, at + total - 1)
          BY <1>18, <3>7, <3>13, <5>4
        <5>3. at + x - 1 = at + hr.size BY <1>1, <3>4, <3>5 DEF x
        <5>5. d = SubSeq(b, x, total) BY <5>1 DEF x
        <5> HIDE DEF d
        <5> QED BY <5>2, <5>3, <5>5, <3>14
      <4>4. d \in Seq(Byte) BY <3>4, <3>6, <3>7, <3>13
      <4> HIDE DEF d, v
      <4>5. F[at] = IF ~Accepted(b[1], d) THEN <<>> ELSE <<SubSeq(b, 1, total)>> \o F[next]
        <5>1. SubSeq(S, at + hr.size, (at + hr.size + hr.n) - 1) = d /\ SubSeq(S, at, (at + hr.size + hr.n) - 1) = SubSeq(b, 1, total)
          <6>1. (at + hr.size + hr.n) - 1 = next - 1 BY <3>8
          <6> QED BY <4>2, <4>3, <6>1
        <5>2. ~(hr.size = 0 \/ at + hr.size + hr.n > L + 1 \/ ~IncomingPacketValid(first)) /\ ~(hr.size + hr.n > BufferSize)
          BY <1>8, <1>15, <3>8, <3>10, <4>1
        <5>3. F[at] = IF ~Accepted(first, SubSeq(S, at + hr.size, (at + hr.size + hr.n) - 1)) THEN <<>>
              ELSE <<SubSeq(S, at, (at + hr.size + hr.n) - 1)>> \o F[at + hr.size + hr.n]
          BY <1>17, <5>2
        <5> QED BY <1>15, <3>8, <5>1, <5>3
      <4>6. /\ v.handled \in BOOLEAN /\ (v.handled <=> Accepted(b[1], d))
            /\ v.status = IF v.handled THEN "Success" ELSE "BadResponse"
        BY <1>5, <4>4, Verdict DEF v
      <4>7. F[at] = IF v.handled THEN <<SubSeq(b, 1, total)>> \o F[next] ELSE <<>> BY <4>5, <4>6
      <4> QED BY <4>6, <4>7 DEF v, d
    <3> QED BY <3>6, <3>7, <3>11, <3>12, <3>13 DEF F, h, total, next
  <2> QED BY <2>2, <2>3
<1> QED BY <1>7, <1>8

\* What is left of a stream when its first T bytes are taken.
LEMMA DropSlice ==
  ASSUME NEW A, NEW S \in Seq(A), NEW at \in 1 .. Len(S) + 1, NEW r, r = SubSeq(S, at, Len(S)), NEW T \in 0 .. Len(r)
  PROVE  SubSeq(r, T + 1, Len(r)) = SubSeq(S, at + T, Len(S)) /\ at + T \in 1 .. Len(S) + 1
<1>1. r \in Seq(A) /\ Len(r) = Len(S) + 1 - at
  <2>1. r \in Seq(A) BY SubSeqProperties
  <2>2. Len(r) = (IF at <= Len(S) THEN Len(S) - at + 1 ELSE 0) BY SubSeqProperties
  <2> QED BY <2>1, <2>2
<1>2. at \in Nat /\ at >= 1 /\ Len(S) \in Nat /\ at <= Len(S) + 1 /\ Len(r) \in Nat /\ T \in Nat /\ T <= Len(r)
  BY <1>1
<1>3. at + T \in 1 .. Len(S) + 1 BY <1>1, <1>2
<1>4. CASE T = Len(r)
  <2>1. SubSeq(r, T + 1, Len(r)) = <<>> BY <1>1, <1>2, <1>4, SubSeqEmpty
  <2>2. at + T = Len(S) + 1 BY <1>1, <1>2, <1>4
  <2>3. SubSeq(S, Len(S) + 1, Len(S)) = <<>> BY <1>2, SubSeqEmpty
  <2> QED BY <1>3, <2>1, <2>2, <2>3
<1>5. CASE T < Len(r)
  <2> DEFINE L == Len(S)
             n == Len(r)
             x == T + 1
  <2>1. x \in 1 .. n /\ n \in 1 .. n /\ L \in at .. L /\ at \in 1 .. L /\ n = L + 1 - at BY <1>1, <1>2, <1>5
  <2>2. n \in 1 .. L - at + 1 /\ x \in 1 .. L - at + 1 BY <1>1, <1>2, <1>5
  <2>3. at + x - 1 = at + T /\ at + n - 1 = L BY <1>1, <1>2
  <2>4. \A i \in 1 .. L : SubSeq(r, i, n) = SubSeq(r, i, n) OBVIOUS
  <2> HIDE DEF L, n, x
  <2>5. SubSeq(SubSeq(S, at, L), x, n) = SubSeq(S, at + x - 1, at + n - 1)
    BY <2>1, <2>2, <1>2, SubSeqOfSubSeq DEF L
  <2>6. SubSeq(r, x, n) = SubSeq(S, at + T, L) BY <2>3, <2>5 DEF L
  <2> QED BY <1>3, <2>6 DEF L, n, x
<1> QED BY <1>2, <1>4, <1>5

LEMMA DropConcat ==
  ASSUME NEW A, NEW b \in Seq(A), NEW c \in Seq(A), NEW T \in 0 .. Len(b) + Len(c)
  PROVE  /\ T <= Len(b) => SubSeq(b \o c, T + 1, Len(b \o c)) = SubSeq(b, T + 1, Len(b)) \o c
         /\ T >= Len(b) => SubSeq(b \o c, T + 1, Len(b \o c)) = SubSeq(c, T - Len(b) + 1, Len(c))
<1> DEFINE r == b \o c
           m == Len(b)
           n == Len(c)
<1>1. r \in Seq(A) /\ Len(r) = m + n /\ m \in Nat /\ n \in Nat /\ T \in Nat /\ T <= m + n BY ConcatProperties
<1>2. SubSeq(r, m + 1, m + n) = c BY SecondHalf
<1>3. T <= m => SubSeq(r, T + 1, m + n) = SubSeq(b, T + 1, m) \o c
  <2> SUFFICES ASSUME T <= m PROVE SubSeq(r, T + 1, m + n) = SubSeq(b, T + 1, m) \o c OBVIOUS
  <2>1. SubSeq(r, T + 1, m) = SubSeq(b, T + 1, m)
    <3>1. CASE T < m
      <4>1. T + 1 \in 1 .. m /\ m \in 1 .. m BY <1>1, <3>1
      <4> QED BY <4>1, SubSeqOfConcat1
    <3>2. CASE T = m
      <4>1. SubSeq(r, T + 1, m) = <<>> /\ SubSeq(b, T + 1, m) = <<>> BY <1>1, <3>2, SubSeqEmpty
      <4> QED BY <4>1
    <3> QED BY <1>1, <3>1, <3>2
  <2>2. T + 1 \in 1 .. Len(r) + 1 /\ m \in (T + 1) - 1 .. Len(r) /\ m + n \in m .. Len(r) BY <1>1
  <2> HIDE DEF r, m, n
  <2>3. SubSeq(r, T + 1, m) \o SubSeq(r, m + 1, m + n) = SubSeq(r, T + 1, m + n) BY <1>1, <2>2, ConcatAdjacentSubSeq
  <2> QED BY <1>2, <2>1, <2>3
<1>4. T >= m => SubSeq(r, T + 1, m + n) = SubSeq(c, T - m + 1, n)
  <2> SUFFICES ASSUME T >= m PROVE SubSeq(r, T + 1, m + n) = SubSeq(c, T - m + 1, n) OBVIOUS
  <2>1. CASE T < m + n
    <3>1. T + 1 \in m + 1 .. m + n /\ m + n \in m + 1 .. m + n BY <1>1, <2>1
    <3>2. SubSeq(r, T + 1, m + n) = SubSeq(c, (T + 1) - m, (m + n) - m) BY <3>1, SubSeqOfConcat2
    <3>3. (T + 1) - m = T - m + 1 /\ (m + n) - m = n BY <1>1
    <3> QED BY <3>2, <3>3
  <2>2. CASE T = m + n
    <3>1. T - m + 1 = n + 1 BY <1>1, <2>2
    <3>2. SubSeq(r, (m + n) + 1, m + n) = <<>> /\ SubSeq(c, n + 1, n) = <<>> BY <1>1, SubSeqEmpty
    <3> QED BY <2>2, <3>1, <3>2
  <2> QED BY <1>1, <2>1, <2>2
<1> QED BY <1>1, <1>3, <1>4

LEMMA TakeAndBehind ==
  ASSUME NEW A, NEW s \in Seq(A), NEW k \in 0 .. Len(s)
  PROVE  LET t == SubSeq(s, 1, k)
             c == SubSeq(s, k + 1, Len(s))
         IN /\ t \in Seq(A) /\ c \in Seq(A) /\ Len(t) = k /\ Len(c) = Len(s) - k
            /\ t \o c = s
            /\ \A i \in 1 .. k : t[i] = s[i]
<1>1. SubSeq(s, 1, k) \in Seq(A) /\ Len(SubSeq(s, 1, k)) = k /\ \A i \in 1 .. k : SubSeq(s, 1, k)[i] = s[i] OBVIOUS
<1>2. SubSeq(s, k + 1, Len(s)) \in Seq(A) /\ Len(SubSeq(s, k + 1, Len(s))) = Len(s) - k
  OBVIOUS
<1>3. SubSeq(s, 1, k) \o SubSeq(s, k + 1, Len(s)) = s
  <2>1. 1 \in 1 .. Len(s) + 1 /\ k \in 1 - 1 .. Len(s) /\ Len(s) \in k .. Len(s) OBVIOUS
  <2>2. SubSeq(s, 1, k) \o SubSeq(s, k + 1, Len(s)) = SubSeq(s, 1, Len(s)) BY <2>1, ConcatAdjacentSubSeq
  <2> QED BY <2>2, SubSeqFull
<1> QED BY <1>1, <1>2, <1>3

LEMMA PacketsTyped ==
  ASSUME NEW b \in Seq(Byte)
  PROVE  /\ \A i \in 1 .. Len(b) + 1 : PacketsFrom(b)[i] \in Seq(Seq(Byte))
         /\ PacketsFrom(b)[Len(b) + 1] = <<>>
<1> DEFINE hi == Len(b) + 1
           F == PacketsFrom(b)
           P(m) == \A i \in 1 .. hi : i >= hi - m => F[i] \in Seq(Seq(Byte))
           T == {m \in Nat : P(m)}
<1>1. hi \in Nat /\ hi >= 1 OBVIOUS
<1>2. ASSUME NEW i \in 1 .. hi, \A j \in 1 .. hi : j > i => F[j] \in Seq(Seq(Byte))
      PROVE  F[i] \in Seq(Seq(Byte))
  <2> DEFINE h == Header(SubSeq(b, i, Len(b)))
             next == i + h.size + h.n
  <2>1. F[i] = Unfolded(b, F, i, h) BY PacketsUnfold
  <2>2. h.size \in Nat /\ h.n \in Nat
    <3> DEFINE q == SubSeq(b, i, Len(b))
    <3>1. q \in Seq(Byte) OBVIOUS
    <3> HIDE DEF q
    <3>2. Header(q).size \in 0 .. 5 /\ Header(q).n \in Nat BY <3>1, HeaderBounds
    <3> QED BY <3>2 DEF q
  <2> HIDE DEF h, F
  <2>3. CASE h.size = 0 \/ next > hi \/ ~IncomingPacketValid(b[i])
    <3>1. F[i] = <<>> BY <2>1, <2>3 DEF Unfolded
    <3> QED BY <3>1
  <2>4. CASE ~(h.size = 0 \/ next > hi \/ ~IncomingPacketValid(b[i]))
    <3>1. next \in 1 .. hi /\ next > i /\ next - 1 <= Len(b) /\ next - 1 \in Int
      <4> HIDE DEF hi
      <4> QED BY <1>1, <2>2, <2>4 DEF hi
    <3>2. F[next] \in Seq(Seq(Byte)) BY <1>2, <3>1
    <3>3. F[i] = F[next] \/ F[i] = <<>> \/ F[i] = <<SubSeq(b, i, next - 1)>> \o F[next]
      BY <2>1, <2>4 DEF Unfolded
    <3> HIDE DEF next
    <3>4. SubSeq(b, i, next - 1) \in Seq(Byte) BY <3>1
    <3> DEFINE pk == SubSeq(b, i, next - 1)
    <3> HIDE DEF pk
    <3>5. pk \in Seq(Byte) BY <3>4 DEF pk
    <3>6. <<pk>> \in Seq(Seq(Byte)) BY <3>5
    <3>7. <<pk>> \o F[next] \in Seq(Seq(Byte)) BY <3>2, <3>6, ConcatProperties
    <3>8. F[i] = F[next] \/ F[i] = <<>> \/ F[i] = <<pk>> \o F[next] BY <3>3 DEF pk
    <3>9. <<>> \in Seq(Seq(Byte)) OBVIOUS
    <3> QED BY <3>2, <3>7, <3>8, <3>9, Zenon
  <2> QED BY <2>3, <2>4
<1>3. F[hi] = <<>>
  <2>1. SubSeq(b, hi, Len(b)) = <<>> /\ <<>> \in Seq(Byte) /\ hi \in 1 .. hi BY <1>1
  <2>2. Header(<<>>).size = 0 BY <2>1, HeaderBounds
  <2>3. F[hi] = Unfolded(b, F, hi, Header(<<>>)) BY <2>1, PacketsUnfold
  <2> QED BY <2>2, <2>3 DEF Unfolded
<1> HIDE DEF F
<1>4. P(0)
  <2> SUFFICES ASSUME NEW i \in 1 .. hi, i >= hi - 0 PROVE F[i] \in Seq(Seq(Byte)) OBVIOUS
  <2>1. i = hi BY <1>1
  <2>2. <<>> \in Seq(Seq(Byte)) OBVIOUS
  <2> HIDE DEF hi
  <2> QED BY <1>3, <2>1, <2>2
<1>5. ASSUME NEW m \in Nat, P(m) PROVE P(m + 1)
  <2> SUFFICES ASSUME NEW i \in 1 .. hi, i >= hi - (m + 1) PROVE F[i] \in Seq(Seq(Byte)) OBVIOUS
  <2>1. ASSUME NEW j \in 1 .. hi, j > i PROVE F[j] \in Seq(Seq(Byte))
    <3>1. j >= hi - m BY <1>1, <2>1
    <3> QED BY <1>5, <3>1
  <2> QED BY <1>2, <2>1
<1>6. Nat \subseteq T
  <2> HIDE DEF P
  <2>1. 0 \in T BY <1>4
  <2>2. \A n \in Nat : n \in T => n + 1 \in T BY <1>5
  <2> HIDE DEF T
  <2> QED BY <2>1, <2>2, NatInduct
<1>7. P(hi) BY <1>1, <1>6
<1>8. \A i \in 1 .. hi : i >= hi - hi BY <1>1
<1> QED BY <1>3, <1>7, <1>8 DEF F

\* The packets in given and those in rest make up the stream S, and rest is
\* its end.
Reading(S, given, rest) ==
  \E at \in 1 .. Len(S) + 1 : rest = SubSeq(S, at, Len(S)) /\ given \o PacketsFrom(S)[at] = Packets(S)

LEMMA ReadingStart ==
  ASSUME NEW S \in Seq(Byte)
  PROVE  Reading(S, <<>>, S)
<1>1. 1 \in 1 .. Len(S) + 1 /\ SubSeq(S, 1, Len(S)) = S OBVIOUS
<1> DEFINE F1 == PacketsFrom(S)[1]
<1>2. F1 \in Seq(Seq(Byte)) BY <1>1, PacketsTyped
<1>3. F1 = Packets(S) BY DEF Packets
<1> HIDE DEF F1
<1>4. <<>> \o F1 = Packets(S) BY <1>2, <1>3, ConcatEmptySeq
<1> QED BY <1>1, <1>4 DEF Reading, F1

LEMMA ReadingPrefix ==
  ASSUME NEW S \in Seq(Byte), NEW given \in Seq(Seq(Byte)), NEW rest, Reading(S, given, rest)
  PROVE  /\ IsPrefix(given, Packets(S))
         /\ rest = <<>> => given = Packets(S)
<1>1. PICK at \in 1 .. Len(S) + 1 : rest = SubSeq(S, at, Len(S)) /\ given \o PacketsFrom(S)[at] = Packets(S)
  BY DEF Reading
<1> DEFINE F == PacketsFrom(S)[at]
<1>2. F \in Seq(Seq(Byte)) BY PacketsTyped
<1>3. given \o F = Packets(S) BY <1>1
<1>4. rest = <<>> => F = <<>>
  <2> SUFFICES ASSUME rest = <<>> PROVE F = <<>> OBVIOUS
  <2>1. at = Len(S) + 1
    <3>1. SubSeq(S, at, Len(S)) = <<>> BY <1>1
    <3>2. at <= Len(S) => Len(SubSeq(S, at, Len(S))) = Len(S) - at + 1 OBVIOUS
    <3> QED BY <3>1, <3>2
  <2> QED BY <2>1, PacketsTyped
<1> HIDE DEF F
<1>5. rest = <<>> => given = Packets(S)
  <2> SUFFICES ASSUME rest = <<>> PROVE given = Packets(S) OBVIOUS
  <2>1. given \o <<>> = given BY ConcatEmptySeq
  <2> QED BY <1>3, <1>4, <2>1
<1>6. IsPrefix(given, given \o F)
  <2> DEFINE g == Len(given)
  <2>1. Len(given \o F) = g + Len(F) /\ g \in Nat /\ Len(F) \in Nat BY <1>2, ConcatProperties
  <2>2. SubSeq(given \o F, 1, g) = SubSeq(given, 1, g)
    <3>1. CASE g = 0
      <4> HIDE DEF g
      <4> QED BY <2>1, <3>1, SubSeqEmpty
    <3>2. CASE g # 0
      <4>1. 1 \in 1 .. g /\ g \in 1 .. g BY <2>1, <3>2
      <4> QED BY <1>2, <4>1, SubSeqOfConcat1
    <3> QED BY <3>1, <3>2
  <2>3. Len(given) <= Len(given \o F) BY <2>1
  <2> QED BY <2>2, <2>3 DEF IsPrefix
<1> QED BY <1>3, <1>5, <1>6

LEMMA PacketsJoin == \A s, t, u \in Seq(Seq(Byte)) : (s \o t) \o u = s \o (t \o u)
<1> DEFINE V == Seq(Byte)
<1>1. \A s, t, u \in Seq(V) : (s \o t) \o u = s \o (t \o u)
  <2> HIDE DEF V
  <2> SUFFICES ASSUME NEW s \in Seq(V), NEW t \in Seq(V), NEW u \in Seq(V) PROVE (s \o t) \o u = s \o (t \o u) OBVIOUS
  <2> QED BY ConcatAssociative
<1> QED BY <1>1

LEMMA ReadingOn ==
  ASSUME NEW S \in Seq(Byte), NEW given \in Seq(Seq(Byte)), NEW b \in Seq(Byte), NEW c \in Seq(Byte), b # <<>>,
         Reading(S, given, b \o c)
  PROVE  LET h == ProcessIncoming(b)
             total == h.header + h.remaining
             v == Handle(b[1], SubSeq(b, h.header + 1, total))
         IN /\ h.status \in {"Success", "NeedMoreBytes", "BadResponse"}
            /\ h.status = "BadResponse" => given = Packets(S)
            /\ h.status = "NeedMoreBytes" => Len(b) < 5
            /\ h.status = "Success" =>
                 /\ total \in Nat /\ total >= 2
                 /\ total <= Len(b) /\ total <= BufferSize =>
                      /\ v.handled \in BOOLEAN /\ v.status = (IF v.handled THEN "Success" ELSE "BadResponse")
                      /\ v.handled => Reading(S, Append(given, SubSeq(b, 1, total)), SubSeq(b, total + 1, Len(b)) \o c)
                      /\ ~v.handled => given = Packets(S)
                 /\ total > Len(b) + Len(c) => given = Packets(S)
                 /\ total >= Len(b) /\ total <= Len(b) + Len(c) /\ total > BufferSize =>
                      Reading(S, given, SubSeq(c, total - Len(b) + 1, Len(c)))
<1> DEFINE h == ProcessIncoming(b)
           total == h.header + h.remaining
           v == Handle(b[1], SubSeq(b, h.header + 1, total))
           r == b \o c
           F == PacketsFrom(S)
           pk == SubSeq(b, 1, total)
<1>1. PICK at \in 1 .. Len(S) + 1 : r = SubSeq(S, at, Len(S)) /\ given \o F[at] = Packets(S)
  BY DEF Reading
<1>2. /\ h.status \in {"Success", "NeedMoreBytes", "BadResponse"}
      /\ h.status = "BadResponse" => F[at] = <<>>
      /\ h.status = "NeedMoreBytes" => Len(b) < 5
      /\ h.status = "Success" =>
           /\ total \in Nat /\ total >= 2
           /\ total <= Len(b) /\ total <= BufferSize =>
                /\ v.handled \in BOOLEAN /\ v.status = (IF v.handled THEN "Success" ELSE "BadResponse")
                /\ F[at] = IF v.handled THEN <<pk>> \o F[at + total] ELSE <<>>
           /\ total > Len(b) + Len(c) => F[at] = <<>>
           /\ total <= Len(b) + Len(c) /\ total > BufferSize => F[at] = F[at + total]
  BY <1>1, Cut, Zenon
<1>3. F[at] = <<>> => given = Packets(S)
  <2>1. given \o <<>> = given BY ConcatEmptySeq
  <2> HIDE DEF F
  <2> QED BY <1>1, <2>1
<1>4. Len(r) = Len(b) + Len(c) /\ Len(b) \in Nat /\ Len(c) \in Nat BY ConcatProperties
<1>5. ASSUME h.status = "Success", total \in Nat, total <= Len(b) + Len(c)
      PROVE  at + total \in 1 .. Len(S) + 1 /\ SubSeq(r, total + 1, Len(r)) = SubSeq(S, at + total, Len(S))
  <2> DEFINE T == total
  <2>1. T \in 0 .. Len(r) BY <1>4, <1>5
  <2> HIDE DEF r, T
  <2>2. SubSeq(r, T + 1, Len(r)) = SubSeq(S, at + T, Len(S)) /\ at + T \in 1 .. Len(S) + 1 BY <1>1, <2>1, DropSlice
  <2> QED BY <2>2 DEF T
<1>6. ASSUME h.status = "Success", total \in Nat, total >= 2, total <= Len(b), v.handled, F[at] = <<pk>> \o F[at + total]
      PROVE  Reading(S, Append(given, pk), SubSeq(b, total + 1, Len(b)) \o c)
  <2> DEFINE T == total
             F1 == F[at + T]
  <2>1. T \in Nat /\ T <= Len(b) /\ T \in 0 .. Len(b) + Len(c) /\ T <= Len(b) + Len(c) BY <1>4, <1>6
  <2>2. SubSeq(r, T + 1, Len(r)) = SubSeq(S, at + T, Len(S)) /\ at + T \in 1 .. Len(S) + 1 BY <1>5, <1>6, <2>1
  <2>3. pk \in Seq(Byte)
    <3>1. pk = SubSeq(b, 1, T) OBVIOUS
    <3> HIDE DEF pk, T
    <3>2. SubSeq(b, 1, T) \in Seq(Byte) BY <2>1
    <3> QED BY <3>1, <3>2
  <2>4. F1 \in Seq(Seq(Byte)) BY <2>2, PacketsTyped
  <2>5. F[at] = <<pk>> \o F1 BY <1>6
  <2> HIDE DEF T, pk, F, F1
  <2>6. SubSeq(r, T + 1, Len(r)) = SubSeq(b, T + 1, Len(b)) \o c BY <2>1, DropConcat
  <2>7. Append(given, pk) \o F1 = Packets(S)
    <3>1. <<pk>> \in Seq(Seq(Byte)) BY <2>3
    <3>2. Append(given, pk) = given \o <<pk>> BY <2>3, AppendIsConcat
    <3>3. (given \o <<pk>>) \o F1 = given \o (<<pk>> \o F1)
      <4> DEFINE one == <<pk>>
      <4> HIDE DEF one
      <4>1. one \in Seq(Seq(Byte)) /\ given \in Seq(Seq(Byte)) BY <3>1 DEF one
      <4>2. (given \o one) \o F1 = given \o (one \o F1) BY <2>4, <4>1, PacketsJoin
      <4> QED BY <4>2 DEF one
    <3> QED BY <1>1, <2>5, <3>2, <3>3
  <2> HIDE DEF r
  <2>8. SubSeq(b, T + 1, Len(b)) \o c = SubSeq(S, at + T, Len(S)) BY <2>2, <2>6
  <2> QED BY <2>2, <2>7, <2>8, Zenon DEF Reading, F1, F, T
<1>7. ASSUME h.status = "Success", total \in Nat, total >= Len(b), total <= Len(b) + Len(c), F[at] = F[at + total]
      PROVE  Reading(S, given, SubSeq(c, total - Len(b) + 1, Len(c)))
  <2> DEFINE T == total
             F1 == F[at + T]
  <2>1. T \in Nat /\ T >= Len(b) /\ T \in 0 .. Len(b) + Len(c) /\ T <= Len(b) + Len(c) BY <1>4, <1>7
  <2>2. SubSeq(r, T + 1, Len(r)) = SubSeq(S, at + T, Len(S)) /\ at + T \in 1 .. Len(S) + 1 BY <1>5, <1>7, <2>1
  <2>3. given \o F1 = Packets(S) BY <1>1, <1>7
  <2> HIDE DEF T, F, F1
  <2>4. SubSeq(r, T + 1, Len(r)) = SubSeq(c, T - Len(b) + 1, Len(c)) BY <2>1, DropConcat
  <2>5. SubSeq(c, T - Len(b) + 1, Len(c)) = SubSeq(S, at + T, Len(S)) BY <2>2, <2>4
  <2> QED BY <2>2, <2>3, <2>5, Zenon DEF Reading, F1, F, T
<1> HIDE DEF h, total, v, r, F, pk
<1> SUFFICES /\ h.status \in {"Success", "NeedMoreBytes", "BadResponse"}
             /\ h.status = "BadResponse" => given = Packets(S)
             /\ h.status = "NeedMoreBytes" => Len(b) < 5
             /\ h.status = "Success" =>
                 /\ total \in Nat /\ total >= 2
                 /\ total <= Len(b) /\ total <= BufferSize =>
                      /\ v.handled \in BOOLEAN /\ v.status = (IF v.handled THEN "Success" ELSE "BadResponse")
                      /\ v.handled => Reading(S, Append(given, pk), SubSeq(b, total + 1, Len(b)) \o c)
                      /\ ~v.handled => given = Packets(S)
                 /\ total > Len(b) + Len(c) => given = Packets(S)
                 /\ total >= Len(b) /\ total <= Len(b) + Len(c) /\ total > BufferSize =>
                      Reading(S, given, SubSeq(c, total - Len(b) + 1, Len(c)))
  BY Zenon DEF h, total, v, pk
<1>8. CASE h.status # "Success" BY <1>2, <1>3, <1>8
<1>9. CASE h.status = "Success"
  <2>1. total \in Nat /\ total >= 2 BY <1>2, <1>9
  <2>2. total > Len(b) + Len(c) => given = Packets(S) BY <1>2, <1>3, <1>9
  <2>3. total >= Len(b) /\ total <= Len(b) + Len(c) /\ total > BufferSize => Reading(S, given, SubSeq(c, total - Len(b) + 1, Len(c)))
    BY <1>2, <1>7, <1>9
  <2>4. ASSUME total <= Len(b), total <= BufferSize
        PROVE  /\ v.handled \in BOOLEAN /\ v.status = (IF v.handled THEN "Success" ELSE "BadResponse")
               /\ v.handled => Reading(S, Append(given, pk), SubSeq(b, total + 1, Len(b)) \o c)
               /\ ~v.handled => given = Packets(S)
    <3>1. /\ v.handled \in BOOLEAN /\ v.status = (IF v.handled THEN "Success" ELSE "BadResponse")
          /\ F[at] = IF v.handled THEN <<pk>> \o F[at + total] ELSE <<>>
      BY <1>2, <1>9, <2>4
    <3>2. v.handled => Reading(S, Append(given, pk), SubSeq(b, total + 1, Len(b)) \o c)
      BY <1>6, <1>9, <2>1, <2>4, <3>1
    <3>3. ~v.handled => given = Packets(S) BY <1>3, <3>1
    <3> QED BY <3>1, <3>2, <3>3
  <2> QED BY <1>9, <2>1, <2>2, <2>3, <2>4
<1> QED BY <1>2, <1>8, <1>9

Outcomes ==
  {"Success", "BadParameter", "NoMemory", "SendFailed", "RecvFailed", "NoDataAvailable", "BadResponse", "ServerRefused"}

\* The bytes of a CONNACK that lets the session begin.
LEMMA ConnackOpens ==
  ASSUME NEW in \in Seq(Byte), NEW k \in 0 .. Len(in), NEW lost \in BOOLEAN
  PROVE  LET g == GetIncoming(SubSeq(in, 1, k), lost)
             d == SubSeq(in, g.used + 1, g.used + g.n)
             r == DeserializeConnack(d)
         IN /\ g.used \in Nat /\ g.n \in Nat /\ g.status \in Outcomes
            /\ g.status = "Success" /\ in[1] = CONNACK /\ g.used + g.n <= Len(in) =>
                 /\ r.status \in {"Success", "ServerRefused", "BadResponse"}
                 /\ r.status = "Success" =>
                      /\ g.used + g.n = 4
                      /\ \E p \in {0, 1} : SubSeq(in, 1, 4) = <<CONNACK, 2, p, 0>> /\ (r.present <=> p = 1)
<1> DEFINE b == SubSeq(in, 1, k)
           g == GetIncoming(b, lost)
           d == SubSeq(in, g.used + 1, g.used + g.n)
           r == DeserializeConnack(d)
<1>1. b \in Seq(Byte) /\ Len(b) = k /\ \A i \in 1 .. k : b[i] = in[i] BY TakeAndBehind
<1> HIDE DEF b
<1>2. CASE b = <<>>
  <2>1. g = [status |-> IF lost THEN "RecvFailed" ELSE "NoDataAvailable", n |-> 0, used |-> 0] BY <1>2 DEF GetIncoming
  <2>2. g.status # "Success" /\ g.used = 0 /\ g.n = 0 /\ g.status \in Outcomes BY <2>1 DEF Outcomes
  <2> HIDE DEF g
  <2> QED BY <2>2 DEF g, b
<1>3. CASE b # <<>>
  <2>1. CASE \A j : ~HeaderOf(b, j)
    <3>1. GetRemainingLength(b) = [valid |-> FALSE, n |-> 0, used |-> Len(b)] BY <1>1, <2>1, RemainingIs
    <3>2. g = [status |-> "BadResponse", n |-> 0, used |-> Len(b)] BY <1>3, <3>1 DEF GetIncoming
    <3>3. g.status # "Success" /\ g.used \in Nat /\ g.n = 0 /\ g.status \in Outcomes BY <1>1, <3>2 DEF Outcomes
    <3> HIDE DEF g
    <3> QED BY <3>3 DEF g, b
  <2>2. CASE \E j : HeaderOf(b, j)
    <3>1. PICK j : HeaderOf(b, j) BY <2>2
    <3> DEFINE n == Announced(b, j)
    <3>2. GetRemainingLength(b) = [valid |-> TRUE, n |-> n, used |-> j + 1] BY <1>1, <3>1, RemainingIs
    <3>3. Ends(b, j) BY <3>1 DEF HeaderOf
    <3>4. j \in 1 .. 4 /\ j < Len(b) /\ n \in Nat
      <4>1. j \in 1 .. 4 /\ j < Len(b) BY <3>3 DEF Ends
      <4>2. n \in Nat BY <1>1, <3>3, AnnouncedBound
      <4> QED BY <4>1, <4>2
    <3>5. g = [status |-> IF IncomingPacketValid(b[1]) THEN "Success" ELSE "BadResponse", n |-> n, used |-> j + 1]
          \/ g = [status |-> "BadResponse", n |-> 0, used |-> j + 1]
      BY <1>3, <3>2 DEF GetIncoming
    <3>6. g.used = j + 1 /\ (g.status = "Success" => g.n = n) /\ g.n \in Nat /\ g.status \in Outcomes BY <3>4, <3>5 DEF Outcomes
    <3>7. ASSUME g.status = "Success", in[1] = CONNACK, g.used + g.n <= Len(in)
          PROVE  /\ r.status \in {"Success", "ServerRefused", "BadResponse"}
                 /\ r.status = "Success" =>
                      /\ g.used + g.n = 4
                      /\ \E p \in {0, 1} : SubSeq(in, 1, 4) = <<CONNACK, 2, p, 0>> /\ (r.present <=> p = 1)
      <4> DEFINE u == j + 1
                 e == SubSeq(in, u + 1, u + n)
      <4>1. g.used = u /\ g.n = n BY <3>6, <3>7
      <4>2. d = e BY <4>1
      <4> HIDE DEF g, n, d
      <4>3. u \in Nat /\ n \in Nat /\ u + n <= Len(in) BY <3>4, <3>7, <4>1
      <4> HIDE DEF u
      <4>4. e \in Seq(Byte) /\ Len(e) = n /\ \A i \in 1 .. n : e[i] = in[u + i]
        <5>1. \A i \in u + 1 .. u + n : in[i] \in Byte BY <4>3
        <5>2. u + 1 \in Int /\ u + n \in Int BY <4>3
        <5>3. e \in Seq(Byte) /\ Len(e) = (IF u + 1 <= u + n THEN (u + n) - (u + 1) + 1 ELSE 0)
              /\ \A i \in 1 .. (u + n) - (u + 1) + 1 : e[i] = in[(u + 1) + i - 1]
          BY <5>1, <5>2, SubSeqProperties
        <5>4. (u + n) - (u + 1) + 1 = n /\ \A i \in 1 .. n : (u + 1) + i - 1 = u + i BY <4>3
        <5> HIDE DEF e
        <5> QED BY <4>3, <5>3, <5>4
      <4> HIDE DEF e
      <4>5. r.status \in {"Success", "ServerRefused", "BadResponse"} BY <4>2 DEF DeserializeConnack, Bad
      <4>6. ASSUME r.status = "Success"
            PROVE  Len(e) = 2 /\ e[1] <= 1 /\ e[2] = 0 /\ (r.present <=> e[1] = 1)
        <5>1. ~(Len(e) # 2 \/ e[1] > 1 \/ (e[1] = 1 /\ e[2] # 0) \/ e[2] > 5) BY <4>2, <4>6 DEF DeserializeConnack, Bad
        <5>2. r = [status |-> IF e[2] > 0 THEN "ServerRefused" ELSE "Success", present |-> e[1] = 1]
          BY <4>2, <5>1 DEF DeserializeConnack
        <5>3. Len(e) = 2 /\ e[1] \in Byte /\ e[2] \in Byte
          <6>1. Len(e) = 2 BY <5>1
          <6>2. 1 \in 1 .. Len(e) /\ 2 \in 1 .. Len(e) BY <6>1
          <6> HIDE DEF r
          <6>3. \A i \in 1 .. Len(e) : e[i] \in Byte BY <4>4
          <6> QED BY <6>1, <6>2, <6>3
        <5>4. e[1] \in Nat /\ e[2] \in Nat BY <5>3, ByteIs
        <5>5. ~(e[2] > 0) BY <4>6, <5>2
        <5>6. r.present <=> e[1] = 1
          <6> DEFINE one == e[1] = 1
          <6>1. r = [status |-> IF e[2] > 0 THEN "ServerRefused" ELSE "Success", present |-> one] BY <5>2
          <6> HIDE DEF one, r
          <6>2. r.present = one BY <6>1
          <6> QED BY <6>2 DEF one
        <5> HIDE DEF r
        <5> QED BY <5>1, <5>3, <5>4, <5>5, <5>6
      <4>7. ASSUME r.status = "Success"
            PROVE  /\ g.used + g.n = 4
                   /\ \E p \in {0, 1} : SubSeq(in, 1, 4) = <<CONNACK, 2, p, 0>> /\ (r.present <=> p = 1)
        <5>1. Len(e) = 2 /\ e[1] <= 1 /\ e[2] = 0 /\ (r.present <=> e[1] = 1) BY <4>6, <4>7
        <5>2. n = 2 BY <4>4, <5>1
        <5>3. j = 1 /\ b[2] = 2
          <6>1. RemainingLengthEncodedSize(n) = j <=> (j > 1 => b[j + 1] # 0) BY <1>1, <3>3, AnnouncedBound DEF n
          <6>2. j > 1 => b[j + 1] # 0 BY <3>1 DEF HeaderOf
          <6>3. RemainingLengthEncodedSize(2) = 1 BY DEF RemainingLengthEncodedSize
          <6>4. j = 1 BY <5>2, <6>1, <6>2, <6>3
          <6>6. b[2] < 128 BY <3>3, <6>4 DEF Ends
          <6>7. b[2] \in Byte BY <1>1, <3>4, <6>4
          <6>8. b[2] \in Nat BY <6>7, ByteIs
          <6>10. Announced(b, 1) = b[2] % 128 BY <6>8, SMT DEF Announced
          <6>5. n = b[2] % 128 BY <6>4, <6>10 DEF n
          <6> HIDE DEF n
          <6>9. b[2] % 128 = b[2] BY <6>6, <6>8
          <6> QED BY <5>2, <6>4, <6>5, <6>9
        <5>4. u = 2 BY <5>3 DEF u
        <5>5. Len(in) >= 4 /\ Len(in) \in Nat BY <4>3, <5>2, <5>4
        <5>6. in[2] = 2 /\ in[3] = e[1] /\ in[4] = 0
          <6>1. in[2] = b[2] BY <1>1, <3>4, <5>3
          <6>2. e[1] = in[2 + 1] /\ e[2] = in[2 + 2] BY <4>4, <5>2, <5>4
          <6> QED BY <5>1, <5>3, <6>1, <6>2
        <5>7. SubSeq(in, 1, 4) = <<in[1], in[2], in[3], in[4]>>
          <6> DEFINE s == SubSeq(in, 1, 4)
                     q == <<in[1], in[2], in[3], in[4]>>
          <6>1. s \in Seq(Byte) /\ Len(s) = 4 /\ \A i \in 1 .. 4 : s[i] = in[i] BY <5>5
          <6>2. in[1] \in Byte /\ in[2] \in Byte /\ in[3] \in Byte /\ in[4] \in Byte BY <5>5
          <6>3. q \in Seq(Byte) /\ Len(q) = 4 /\ q[1] = in[1] /\ q[2] = in[2] /\ q[3] = in[3] /\ q[4] = in[4] BY <6>2
          <6> HIDE DEF s, q
          <6>4. \A i \in 1 .. 4 : s[i] = q[i]
            <7>1. \A i \in 1 .. 4 : i = 1 \/ i = 2 \/ i = 3 \/ i = 4 OBVIOUS
            <7> QED BY <6>1, <6>3, <7>1
          <6>5. s = q BY <6>1, <6>3, <6>4, SeqEqual
          <6> QED BY <6>5 DEF s, q
        <5>8. e[1] \in Nat
          <6>1. 1 \in 1 .. Len(e) BY <5>1
          <6> QED BY <4>4, <6>1, ByteIs
        <5>9. e[1] = 0 \/ e[1] = 1 BY <5>1, <5>8
        <5>10. SubSeq(in, 1, 4) = <<CONNACK, 2, e[1], 0>> BY <3>7, <5>6, <5>7
        <5> HIDE DEF r
        <5> QED BY <4>1, <5>1, <5>2, <5>4, <5>9, <5>10
      <4> HIDE DEF r
      <4> QED BY <4>5, <4>7
    <3> HIDE DEF g, r
    <3> QED BY <3>4, <3>6, <3>7 DEF g, r, d, b
  <2> QED BY <2>1, <2>2
<1> QED BY <1>2, <1>3

-----------------------------------------------------------------------------
(* The inductive invariant for what is received                            *)

Session == SubSeq(job.stream, 5, Len(job.stream))

StreamShape ==
  /\ JobIs
  /\ ctx \in [conn: {"NotConnected", "Connected", "DisconnectPending"}, pc: {"call", "write", "connack", "loop", "end"},
              buf: Seq(Byte), vecs: Seq(Seq(Seq(Byte)))]
  /\ Len(ctx.buf) < BufferSize
  /\ net \in [in: Seq(Byte), out: Seq(Byte)]
  /\ app \in [handled: Seq(Seq(Byte)), stored: Seq(Byte), status: Outcomes]

Accepting == \E p \in {0, 1} : SubSeq(job.stream, 1, 4) = <<CONNACK, 2, p, 0>> /\ ~(job.clean /\ p = 1)

\* What FramesInOrder says of a stream.
InOrder ==
  /\ IsPrefix(app.handled, Received)
  /\ ctx.conn = "Connected" /\ (net.in \o ctx.buf = <<>> \/ app.status = "BadResponse") => app.handled = Received
  /\ ctx.conn # "NotConnected" => Accepting

ReceiveInv ==
  job.kind = "receive" =>
    /\ ctx.pc \in {"connack", "loop", "end"}
    /\ ctx.pc = "connack" => /\ ctx.conn = "NotConnected" /\ ctx.buf = <<>> /\ net.in = job.stream
                              /\ app.handled = <<>> /\ app.status = "Success"
    /\ ctx.pc = "loop" => /\ ctx.conn = "Connected" /\ app.status = "Success" /\ Accepting
                          /\ Reading(Session, app.handled, ctx.buf \o net.in)
    /\ ctx.pc = "end" => InOrder

LEMMA SessionIs ==
  ASSUME StreamShape
  PROVE  /\ job.stream \in Seq(Byte) /\ Session \in Seq(Byte) /\ Received = Packets(Session)
         /\ Received \in Seq(Seq(Byte)) /\ IsPrefix(<<>>, Received)
<1>1. job.stream \in Seq(Byte)
  <2>1. job.kind # "receive" => job.stream = <<>> BY Kinds DEF StreamShape
  <2>2. job.kind = "receive" => job.stream \in Seq(Byte) BY Kinds DEF StreamShape
  <2>3. <<>> \in Seq(Byte) OBVIOUS
  <2> QED BY <2>1, <2>2, <2>3
<1>2. Session \in Seq(Byte)
  <2>1. \A i \in 5 .. Len(job.stream) : job.stream[i] \in Byte BY <1>1
  <2>2. Len(job.stream) \in Int BY <1>1
  <2> QED BY <2>1, <2>2, SubSeqProperties DEF Session
<1>3. Received = Packets(Session) BY Zenon DEF Received, Session
<1>4. Packets(Session) \in Seq(Seq(Byte))
  <2> DEFINE S == Session
  <2>1. S \in Seq(Byte) /\ 1 \in 1 .. Len(S) + 1 BY <1>2
  <2> HIDE DEF S
  <2>2. Packets(S) \in Seq(Seq(Byte)) BY <2>1, PacketsTyped DEF Packets
  <2> QED BY <2>2 DEF S
<1>5. IsPrefix(<<>>, Received)
  <2> DEFINE R == Received
  <2>1. R \in Seq(Seq(Byte)) BY <1>3, <1>4
  <2> HIDE DEF R
  <2>2. IsPrefix(<<>>, R) BY <2>1 DEF IsPrefix
  <2> QED BY <2>2 DEF R
<1> QED BY <1>1, <1>2, <1>3, <1>4, <1>5

LEMMA ConnackSteps ==
  ASSUME StreamShape, ReceiveConnack
  PROVE  \E k \in 0 .. Len(net.in), lost \in BOOLEAN :
           LET g == GetIncoming(Take(k), lost)
               r == DeserializeConnack(SubSeq(net.in, g.used + 1, g.used + g.n))
           IN \/ /\ g.status = "Success" /\ net.in[1] = CONNACK /\ g.used + g.n <= Len(net.in)
                 /\ r.status = "Success" /\ ~(job.clean /\ r.present)
                 /\ net' = [net EXCEPT !.in = Behind(g.used + g.n)]
                 /\ ctx' = [ctx EXCEPT !.conn = "Connected", !.pc = "loop"] /\ app' = app
              \/ /\ \E s \in Outcomes : Ended(s)
                 /\ net' = net \/ net' = [net EXCEPT !.in = Behind(g.used)] \/ net' = [net EXCEPT !.in = Behind(g.used + g.n)]
<1>1. PICK k \in 0 .. Len(net.in), lost \in BOOLEAN, whole \in BOOLEAN :
        LET g == GetIncoming(Take(k), lost)
            d == SubSeq(net.in, g.used + 1, g.used + g.n)
            r == DeserializeConnack(d)
            all == whole /\ g.used + g.n <= Len(net.in)
        IN CASE g.status # "Success" ->
                  Ended(g.status) /\ UNCHANGED net
             [] g.status = "Success" /\ net.in[1] # CONNACK ->
                  Ended("BadResponse") /\ net' = [net EXCEPT !.in = Behind(g.used)]
             [] g.status = "Success" /\ net.in[1] = CONNACK /\ ~all ->
                  Ended("RecvFailed") /\ net' = [net EXCEPT !.in = Behind(g.used)]
             [] g.status = "Success" /\ net.in[1] = CONNACK /\ all /\ g.n > BufferSize ->
                  Ended("NoDataAvailable") /\ net' = [net EXCEPT !.in = Behind(g.used + g.n)]
             [] OTHER ->
                  /\ net' = [net EXCEPT !.in = Behind(g.used + g.n)]
                  /\ IF r.status = "Success" /\ ~(job.clean /\ r.present)
                     THEN ctx' = [ctx EXCEPT !.conn = "Connected", !.pc = "loop"] /\ UNCHANGED app
                     ELSE Ended(IF r.status = "Success" THEN "BadResponse" ELSE r.status)
  BY Zenon DEF ReceiveConnack
<1> DEFINE g == GetIncoming(Take(k), lost)
           r == DeserializeConnack(SubSeq(net.in, g.used + 1, g.used + g.n))
           fits == g.used + g.n <= Len(net.in)
           ok == g.status = "Success"
           first == net.in[1] = CONNACK
           big == g.n > BufferSize
           good == r.status = "Success" /\ ~(job.clean /\ r.present)
           N0 == net' = net
           N1 == net' = [net EXCEPT !.in = Behind(g.used)]
           N2 == net' = [net EXCEPT !.in = Behind(g.used + g.n)]
           C == ctx' = [ctx EXCEPT !.conn = "Connected", !.pc = "loop"]
           last == IF r.status = "Success" THEN "BadResponse" ELSE r.status
<1>2. (CASE g.status # "Success" -> Ended(g.status) /\ N0
        [] g.status = "Success" /\ net.in[1] # CONNACK -> Ended("BadResponse") /\ N1
        [] g.status = "Success" /\ net.in[1] = CONNACK /\ ~(whole /\ fits) -> Ended("RecvFailed") /\ N1
        [] g.status = "Success" /\ net.in[1] = CONNACK /\ (whole /\ fits) /\ g.n > BufferSize -> Ended("NoDataAvailable") /\ N2
        [] OTHER -> N2 /\ IF good THEN C /\ app' = app ELSE Ended(last))
  BY <1>1, Zenon
<1>3. g.status \in Outcomes /\ (ok /\ first /\ fits => r.status \in {"Success", "ServerRefused", "BadResponse"})
  <2>1. net.in \in Seq(Byte) BY DEF StreamShape
  <2> QED BY <2>1, ConnackOpens, Zenon DEF Take
<1>4. {"BadResponse", "RecvFailed", "NoDataAvailable", "ServerRefused"} \subseteq Outcomes BY DEF Outcomes
<1> SUFFICES \/ ok /\ first /\ fits /\ good /\ N2 /\ C /\ app' = app
             \/ (\E s \in Outcomes : Ended(s)) /\ (N0 \/ N1 \/ N2)
  BY Zenon
<1> HIDE DEF g, r, fits, N0, N1, N2, C, good, last
<1>5. CASE g.status # "Success"
  <2>1. Ended(g.status) /\ N0 BY <1>2, <1>5, Zenon
  <2> QED BY <1>3, <2>1
<1>6. CASE ok /\ ~first
  <2>1. Ended("BadResponse") /\ N1 BY <1>2, <1>6, Zenon
  <2> QED BY <1>4, <2>1
<1>7. CASE ok /\ first /\ ~(whole /\ fits)
  <2>1. Ended("RecvFailed") /\ N1 BY <1>2, <1>7, Zenon
  <2> QED BY <1>4, <2>1
<1>8. CASE ok /\ first /\ (whole /\ fits) /\ big
  <2>1. Ended("NoDataAvailable") /\ N2 BY <1>2, <1>8, Zenon
  <2> QED BY <1>4, <2>1
<1>9. CASE ok /\ first /\ (whole /\ fits) /\ ~big
  <2>1. N2 /\ IF good THEN C /\ app' = app ELSE Ended(last) BY <1>2, <1>9, Zenon
  <2>2. last \in Outcomes BY <1>3, <1>4, <1>9 DEF last
  <2>3. CASE good BY <1>9, <2>1, <2>3
  <2>4. CASE ~good BY <2>1, <2>2, <2>4
  <2> QED BY <2>3, <2>4
<1> QED BY <1>5, <1>6, <1>7, <1>8, <1>9

LEMMA TypedEnd ==
  ASSUME StreamShape, NEW s \in Outcomes, Ended(s)
  PROVE  /\ ctx'.pc = "end" /\ ctx'.conn = ctx.conn /\ ctx'.buf = ctx.buf /\ ctx'.vecs = ctx.vecs
         /\ app'.handled = app.handled /\ app'.stored = app.stored /\ app'.status = s
         /\ ctx' \in [conn: {"NotConnected", "Connected", "DisconnectPending"}, pc: {"call", "write", "connack", "loop", "end"},
                      buf: Seq(Byte), vecs: Seq(Seq(Seq(Byte)))]
         /\ app' \in [handled: Seq(Seq(Byte)), stored: Seq(Byte), status: Outcomes]
<1>1. ctx' = [ctx EXCEPT !.pc = "end"] /\ app' = [app EXCEPT !.status = s] BY DEF Ended, Stop
<1> QED BY <1>1 DEF StreamShape

LEMMA ConnackKeeps ==
  ASSUME StreamShape, ReceiveInv, job.kind = "receive", ReceiveConnack
  PROVE  StreamShape' /\ ReceiveInv'
<1>1. ctx.pc = "connack" /\ job' = job BY DEF ReceiveConnack
<1>2. ctx.conn = "NotConnected" /\ ctx.buf = <<>> /\ app.handled = <<>> /\ net.in = job.stream /\ app.status = "Success"
  BY <1>1 DEF ReceiveInv
<1>3. Session' = Session /\ Received' = Received /\ (Accepting' <=> Accepting) BY <1>1 DEF Session, Received, Accepting
<1>4. net.in \in Seq(Byte) /\ net \in [in: Seq(Byte), out: Seq(Byte)] BY DEF StreamShape
<1>5. \A n \in Nat : Behind(n) \in Seq(Byte)
  <2> SUFFICES ASSUME NEW n \in Nat PROVE Behind(n) \in Seq(Byte) OBVIOUS
  <2>1. \A i \in n + 1 .. Len(net.in) : net.in[i] \in Byte /\ n + 1 \in Int /\ Len(net.in) \in Int BY <1>4
  <2>2. n + 1 \in Int /\ Len(net.in) \in Int BY <1>4
  <2> QED BY <2>1, <2>2, SubSeqProperties DEF Behind
<1>6. PICK k \in 0 .. Len(net.in), lost \in BOOLEAN :
           LET g == GetIncoming(Take(k), lost)
               r == DeserializeConnack(SubSeq(net.in, g.used + 1, g.used + g.n))
           IN \/ /\ g.status = "Success" /\ net.in[1] = CONNACK /\ g.used + g.n <= Len(net.in)
                 /\ r.status = "Success" /\ ~(job.clean /\ r.present)
                 /\ net' = [net EXCEPT !.in = Behind(g.used + g.n)]
                 /\ ctx' = [ctx EXCEPT !.conn = "Connected", !.pc = "loop"] /\ app' = app
              \/ /\ \E s \in Outcomes : Ended(s)
                 /\ net' = net \/ net' = [net EXCEPT !.in = Behind(g.used)] \/ net' = [net EXCEPT !.in = Behind(g.used + g.n)]
  BY ConnackSteps, Zenon
<1> DEFINE g == GetIncoming(Take(k), lost)
           r == DeserializeConnack(SubSeq(net.in, g.used + 1, g.used + g.n))
           m == g.used + g.n
<1>7. /\ g.used \in Nat /\ g.n \in Nat /\ g.status \in Outcomes
      /\ g.status = "Success" /\ net.in[1] = CONNACK /\ m <= Len(net.in) =>
           /\ r.status \in {"Success", "ServerRefused", "BadResponse"}
           /\ r.status = "Success" =>
                /\ m = 4
                /\ \E p \in {0, 1} : SubSeq(net.in, 1, 4) = <<CONNACK, 2, p, 0>> /\ (r.present <=> p = 1)
  BY <1>4, ConnackOpens, Zenon DEF Take
<1>8. m \in Nat BY <1>7
<1>9. \/ /\ g.status = "Success" /\ net.in[1] = CONNACK /\ m <= Len(net.in)
         /\ r.status = "Success" /\ ~(job.clean /\ r.present)
         /\ net' = [net EXCEPT !.in = Behind(m)]
         /\ ctx' = [ctx EXCEPT !.conn = "Connected", !.pc = "loop"] /\ app' = app
      \/ /\ \E s \in Outcomes : Ended(s)
         /\ \E i \in Nat : net' = net \/ net' = [net EXCEPT !.in = Behind(i)]
  BY <1>6, <1>7, <1>8, Zenon
<1> HIDE DEF g, r, m
<1>10. job' = job /\ JobIs' BY <1>1 DEF StreamShape, JobIs
<1>11. CASE (\E s \in Outcomes : Ended(s)) /\ \E i \in Nat : net' = net \/ net' = [net EXCEPT !.in = Behind(i)]
  <2>1. PICK s \in Outcomes : Ended(s) BY <1>11
  <2>2. net' \in [in: Seq(Byte), out: Seq(Byte)] BY <1>4, <1>5, <1>11
  <2>3. /\ ctx'.pc = "end" /\ ctx'.conn = ctx.conn /\ ctx'.buf = ctx.buf
        /\ app'.handled = app.handled
        /\ ctx' \in [conn: {"NotConnected", "Connected", "DisconnectPending"}, pc: {"call", "write", "connack", "loop", "end"},
                     buf: Seq(Byte), vecs: Seq(Seq(Seq(Byte)))]
        /\ app' \in [handled: Seq(Seq(Byte)), stored: Seq(Byte), status: Outcomes]
    BY <2>1, TypedEnd
  <2>4. StreamShape' BY <1>10, <2>2, <2>3 DEF StreamShape
  <2>5. IsPrefix(<<>>, Received) BY SessionIs
  <2>6. InOrder' BY <1>2, <1>3, <2>3, <2>5 DEF InOrder
  <2>7. ReceiveInv' BY <2>3, <2>6 DEF ReceiveInv
  <2> QED BY <2>4, <2>7
<1>12. CASE /\ g.status = "Success" /\ net.in[1] = CONNACK /\ m <= Len(net.in)
            /\ r.status = "Success" /\ ~(job.clean /\ r.present)
            /\ net' = [net EXCEPT !.in = Behind(m)]
            /\ ctx' = [ctx EXCEPT !.conn = "Connected", !.pc = "loop"] /\ app' = app
  <2>1. m = 4 /\ \E p \in {0, 1} : SubSeq(net.in, 1, 4) = <<CONNACK, 2, p, 0>> /\ (r.present <=> p = 1) BY <1>7, <1>12
  <2>2. Accepting BY <1>2, <1>12, <2>1, Zenon DEF Accepting
  <2>3. net'.in = Session
    <3>1. net'.in = Behind(4) BY <1>4, <1>12, <2>1
    <3>2. Behind(4) = SubSeq(job.stream, 5, Len(job.stream)) BY <1>2 DEF Behind
    <3> QED BY <3>1, <3>2 DEF Session
  <2>4. net' \in [in: Seq(Byte), out: Seq(Byte)] BY <1>4, <1>5, <1>8, <1>12
  <2>5. /\ ctx'.pc = "loop" /\ ctx'.conn = "Connected" /\ ctx'.buf = <<>> /\ app'.handled = <<>>
        /\ ctx' \in [conn: {"NotConnected", "Connected", "DisconnectPending"}, pc: {"call", "write", "connack", "loop", "end"},
                     buf: Seq(Byte), vecs: Seq(Seq(Seq(Byte)))]
    BY <1>2, <1>12 DEF StreamShape
  <2>6. StreamShape'
    <3>1. app' \in [handled: Seq(Seq(Byte)), stored: Seq(Byte), status: Outcomes] BY <1>12 DEF StreamShape
    <3>2. Len(ctx'.buf) < BufferSize BY <2>5, BufferSizeOK
    <3> QED BY <1>10, <2>4, <2>5, <3>1, <3>2 DEF StreamShape
  <2>7. Session \in Seq(Byte) BY SessionIs
  <2>8. Reading(Session, <<>>, Session) BY <2>7, ReadingStart
  <2>9. ctx'.buf \o net'.in = Session BY <2>3, <2>5, <2>7, ConcatEmptySeq
  <2>10. Reading(Session', app'.handled, ctx'.buf \o net'.in) BY <1>3, <2>5, <2>8, <2>9
  <2>11. app'.status = "Success"
    BY <1>2, <1>12
  <2> QED BY <1>3, <2>2, <2>5, <2>6, <2>10, <2>11 DEF ReceiveInv
<1> QED BY <1>9, <1>11, <1>12

LEMMA Joins == \A s, t, u \in Seq(Byte) : (s \o t) \o u = s \o (t \o u)
<1> SUFFICES ASSUME NEW s \in Seq(Byte), NEW t \in Seq(Byte), NEW u \in Seq(Byte) PROVE (s \o t) \o u = s \o (t \o u)
  OBVIOUS
<1> HIDE DEF Byte
<1> QED BY ConcatAssociative

\* The bytes that one call of the loop has before it, those of the buffer and
\* k new ones, and those behind them.
LEMMA Window ==
  ASSUME StreamShape, NEW k \in 0 .. Len(net.in)
  PROVE  LET b == ctx.buf \o Take(k)
             c == Behind(k)
         IN /\ b \in Seq(Byte) /\ c \in Seq(Byte) /\ Len(b) = Len(ctx.buf) + k /\ Len(c) = Len(net.in) - k
            /\ Len(ctx.buf) \in Nat /\ k \in Nat /\ Len(net.in) \in Nat
            /\ b \o c = ctx.buf \o net.in
            /\ b # <<>> <=> Len(b) > 0
<1> DEFINE t == Take(k)
           c == Behind(k)
           u == ctx.buf
           in == net.in
<1>1. u \in Seq(Byte) /\ in \in Seq(Byte) BY DEF StreamShape
<1>2. t \in Seq(Byte) /\ c \in Seq(Byte) /\ Len(t) = k /\ Len(c) = Len(in) - k /\ t \o c = in
  BY <1>1, TakeAndBehind DEF Take, Behind
<1>4. k \in Nat OBVIOUS
<1> HIDE DEF t, c, u, in
<1>3. (u \o t) \o c = u \o in
  <2>1. t \in Seq(Byte) /\ c \in Seq(Byte) /\ t \o c = in BY <1>2
  <2>2. (u \o t) \o c = u \o (t \o c) BY <1>1, <2>1, Joins, ZenonT(60)
  <2> QED BY <2>1, <2>2
<1>5. u \o t \in Seq(Byte) /\ Len(u \o t) = Len(u) + k BY <1>1, <1>2, ConcatProperties
<1>6. Len(u) \in Nat /\ Len(in) \in Nat BY <1>1
<1>7. u \o t # <<>> <=> Len(u \o t) > 0 BY <1>5
<1> QED BY <1>2, <1>3, <1>4, <1>5, <1>6, <1>7 DEF t, c, u, in

LEMMA LoopKeeps ==
  ASSUME StreamShape, ReceiveInv, job.kind = "receive", ProcessLoop
  PROVE  StreamShape' /\ ReceiveInv'
<1>1. ctx.pc = "loop" /\ job' = job BY DEF ProcessLoop
<1>2. /\ ctx.conn = "Connected" /\ app.status = "Success" /\ Accepting
      /\ Reading(Session, app.handled, ctx.buf \o net.in)
  BY <1>1 DEF ReceiveInv
<1>3. Session' = Session /\ Received' = Received /\ (Accepting' <=> Accepting) BY <1>1 DEF Session, Received, Accepting
<1>4. JobIs' BY <1>1 DEF StreamShape, JobIs
<1>5. PICK k \in 0 .. Len(net.in) :
       LET b == ctx.buf \o Take(k)
           h == ProcessIncoming(b)
           total == h.header + h.remaining
           v == Handle(b[1], SubSeq(b, h.header + 1, total))
       IN /\ k <= BufferSize - Len(ctx.buf) /\ b # <<>>
          /\ ~(h.status = "Success" /\ total > BufferSize)
          /\ net' = [net EXCEPT !.in = Behind(k)]
          /\ IF h.status = "NeedMoreBytes" \/ (h.status = "Success" /\ total > Len(b))
             THEN ctx' = [ctx EXCEPT !.buf = b] /\ UNCHANGED app
             ELSE IF h.status # "Success" THEN Ended(h.status)
             ELSE /\ ctx' = [ctx EXCEPT !.buf = SubSeq(b, total + 1, Len(b)), !.pc = IF v.status = "Success" THEN @ ELSE "end"]
                  /\ app' = [app EXCEPT !.status = v.status,
                                        !.handled = IF v.handled THEN Append(@, SubSeq(b, 1, total)) ELSE @]
  BY Zenon DEF ProcessLoop
<1> DEFINE b == ctx.buf \o Take(k)
           c == Behind(k)
           h == ProcessIncoming(b)
           total == h.header + h.remaining
           v == Handle(b[1], SubSeq(b, h.header + 1, total))
           pk == SubSeq(b, 1, total)
           left == SubSeq(b, total + 1, Len(b))
           S == Session
           G == app.handled
<1>6. /\ b \in Seq(Byte) /\ c \in Seq(Byte) /\ Len(b) = Len(ctx.buf) + k /\ Len(c) = Len(net.in) - k
      /\ Len(ctx.buf) \in Nat /\ k \in Nat /\ Len(net.in) \in Nat
      /\ b \o c = ctx.buf \o net.in
  BY Window, Zenon
<1>7. /\ k <= BufferSize - Len(ctx.buf) /\ b # <<>>
      /\ ~(h.status = "Success" /\ total > BufferSize)
      /\ net' = [net EXCEPT !.in = c]
  BY <1>5, Zenon
<1>8. /\ h.status = "NeedMoreBytes" \/ (h.status = "Success" /\ total > Len(b)) =>
           ctx' = [ctx EXCEPT !.buf = b] /\ app' = app
      /\ ~(h.status = "NeedMoreBytes" \/ (h.status = "Success" /\ total > Len(b))) /\ h.status # "Success" => Ended(h.status)
      /\ ~(h.status = "NeedMoreBytes" \/ (h.status = "Success" /\ total > Len(b))) /\ h.status = "Success" =>
           /\ ctx' = [ctx EXCEPT !.buf = left, !.pc = IF v.status = "Success" THEN ctx.pc ELSE "end"]
           /\ app' = [app EXCEPT !.status = v.status, !.handled = IF v.handled THEN Append(G, pk) ELSE G]
  BY <1>5
<1>9. S \in Seq(Byte) /\ Received = Packets(S) /\ Received \in Seq(Seq(Byte)) /\ G \in Seq(Seq(Byte))
  BY SessionIs DEF StreamShape
<1>10. Reading(S, G, b \o c) BY <1>2, <1>6
<1> HIDE DEF S, G, b, c
<1>11. /\ h.status \in {"Success", "NeedMoreBytes", "BadResponse"}
       /\ h.status = "BadResponse" => G = Packets(S)
       /\ h.status = "NeedMoreBytes" => Len(b) < 5
       /\ h.status = "Success" =>
            /\ total \in Nat /\ total >= 2
            /\ total <= Len(b) /\ total <= BufferSize =>
                 /\ v.handled \in BOOLEAN /\ v.status = (IF v.handled THEN "Success" ELSE "BadResponse")
                 /\ v.handled => Reading(S, Append(G, pk), left \o c)
                 /\ ~v.handled => G = Packets(S)
  BY <1>6, <1>7, <1>9, <1>10, ReadingOn, Zenon
<1>12. IsPrefix(G, Packets(S)) BY <1>9, <1>10, ReadingPrefix
<1> HIDE DEF h, total, v, pk, left
<1>13. net' \in [in: Seq(Byte), out: Seq(Byte)] /\ net'.in = c BY <1>6, <1>7 DEF StreamShape
<1>14. CASE h.status = "NeedMoreBytes" \/ (h.status = "Success" /\ total > Len(b))
  <2>1. ctx' = [ctx EXCEPT !.buf = b] /\ app' = app BY <1>8, <1>14
  <2>2. Len(b) < BufferSize BY <1>6, <1>7, <1>11, <1>14, BufferSizeOK
  <2>3. ctx'.buf = b /\ ctx'.pc = "loop" /\ ctx'.conn = "Connected"
        /\ ctx' \in [conn: {"NotConnected", "Connected", "DisconnectPending"}, pc: {"call", "write", "connack", "loop", "end"},
                     buf: Seq(Byte), vecs: Seq(Seq(Seq(Byte)))]
    BY <1>1, <1>2, <1>6, <2>1 DEF StreamShape
  <2>4. StreamShape' BY <1>4, <1>13, <2>1, <2>2, <2>3 DEF StreamShape
  <2>5. Reading(Session', app'.handled, ctx'.buf \o net'.in) BY <1>3, <1>10, <1>13, <2>1, <2>3 DEF S, G
  <2> QED BY <1>2, <1>3, <2>1, <2>3, <2>4, <2>5 DEF ReceiveInv
<1>15. CASE h.status = "BadResponse"
  <2>1. Ended("BadResponse") /\ "BadResponse" \in Outcomes BY <1>8, <1>15 DEF Outcomes
  <2>2. /\ ctx'.pc = "end" /\ ctx'.conn = ctx.conn /\ ctx'.buf = ctx.buf
        /\ app'.handled = app.handled
        /\ ctx' \in [conn: {"NotConnected", "Connected", "DisconnectPending"}, pc: {"call", "write", "connack", "loop", "end"},
                     buf: Seq(Byte), vecs: Seq(Seq(Seq(Byte)))]
        /\ app' \in [handled: Seq(Seq(Byte)), stored: Seq(Byte), status: Outcomes]
    BY <2>1, TypedEnd
  <2>3. StreamShape' BY <1>4, <1>13, <2>2 DEF StreamShape
  <2>4. app'.handled = Received' /\ IsPrefix(app'.handled, Received') BY <1>3, <1>9, <1>11, <1>12, <1>15, <2>2 DEF G
  <2>5. InOrder' BY <1>2, <1>3, <2>4 DEF InOrder
  <2> QED BY <2>2, <2>3, <2>5 DEF ReceiveInv
<1>16. CASE h.status = "Success" /\ ~(total > Len(b))
  <2>1. total \in Nat /\ total >= 2 /\ total <= Len(b) /\ total <= BufferSize /\ BufferSize \in Nat /\ Len(b) \in Nat
    BY <1>6, <1>7, <1>11, <1>16, BufferSizeOK
  <2>2. /\ v.handled \in BOOLEAN /\ v.status = (IF v.handled THEN "Success" ELSE "BadResponse")
        /\ v.handled => Reading(S, Append(G, pk), left \o c)
        /\ ~v.handled => G = Packets(S)
    BY <1>11, <1>16, <2>1
  <2>3. /\ ctx' = [ctx EXCEPT !.buf = left, !.pc = IF v.status = "Success" THEN ctx.pc ELSE "end"]
        /\ app' = [app EXCEPT !.status = v.status, !.handled = IF v.handled THEN Append(G, pk) ELSE G]
    BY <1>8, <1>16
  <2>4. left \in Seq(Byte) /\ Len(left) = Len(b) - total BY <1>6, <2>1 DEF left
  <2>5. pk \in Seq(Byte) BY <1>6, <2>1 DEF pk
  <2>6. Len(left) < BufferSize BY <1>6, <1>7, <2>1, <2>4, SMTT(60)
  <2>7. /\ ctx'.buf = left /\ ctx'.conn = "Connected" /\ ctx'.pc = (IF v.handled THEN "loop" ELSE "end")
        /\ ctx' \in [conn: {"NotConnected", "Connected", "DisconnectPending"}, pc: {"call", "write", "connack", "loop", "end"},
                     buf: Seq(Byte), vecs: Seq(Seq(Seq(Byte)))]
    BY <1>1, <1>2, <2>2, <2>3, <2>4 DEF StreamShape
  <2>8. v.status \in Outcomes BY <2>2 DEF Outcomes
  <2>9. Append(G, pk) \in Seq(Seq(Byte)) BY <1>9, <2>5, AppendProperties
  <2>10. app' \in [handled: Seq(Seq(Byte)), stored: Seq(Byte), status: Outcomes]
         /\ app'.handled = (IF v.handled THEN Append(G, pk) ELSE G) /\ app'.status = v.status
    BY <1>9, <2>3, <2>8, <2>9 DEF StreamShape
  <2>11. StreamShape' BY <1>4, <1>13, <2>6, <2>7, <2>10 DEF StreamShape
  <2>12. CASE v.handled
    <3>1. app'.handled = Append(G, pk) /\ ctx'.pc = "loop" /\ app'.status = "Success" BY <2>2, <2>7, <2>10, <2>12
    <3>2. Reading(Session', app'.handled, ctx'.buf \o net'.in) BY <1>3, <1>13, <2>2, <2>7, <2>12, <3>1 DEF S
    <3> QED BY <1>2, <1>3, <2>7, <2>11, <3>1, <3>2 DEF ReceiveInv
  <2>13. CASE ~v.handled
    <3>1. app'.handled = G /\ ctx'.pc = "end" BY <2>7, <2>10, <2>13
    <3>2. app'.handled = Received' /\ IsPrefix(app'.handled, Received') BY <1>3, <1>9, <1>12, <2>2, <2>13, <3>1
    <3>3. InOrder' BY <1>2, <1>3, <3>2 DEF InOrder
    <3> QED BY <2>11, <3>1, <3>3 DEF ReceiveInv
  <2> QED BY <2>12, <2>13
<1> QED BY <1>11, <1>14, <1>15, <1>16

LEMMA Discarded ==
  ASSUME NEW k \in Nat, NEW n \in Nat, NEW b \in Nat, NEW in \in Nat, NEW c, c = in - k, n >= b
  PROVE  /\ n - b \in Nat /\ k + n - b = k + (n - b) /\ k + n - b \in Nat
         /\ (k + n - b <= in => n <= b + c /\ n - b <= c)
         /\ (k + 1) + (n - b) = (k + (n - b)) + 1
  OBVIOUS

LEMMA DiscardKeeps ==
  ASSUME StreamShape, ReceiveInv, job.kind = "receive", DiscardStoredPacket
  PROVE  StreamShape' /\ ReceiveInv'
<1>1. ctx.pc = "loop" /\ job' = job BY DEF DiscardStoredPacket
<1>2. /\ ctx.conn = "Connected" /\ app.status = "Success" /\ Accepting
      /\ Reading(Session, app.handled, ctx.buf \o net.in)
  BY <1>1 DEF ReceiveInv
<1>3. Session' = Session /\ Received' = Received /\ (Accepting' <=> Accepting) BY <1>1 DEF Session, Received, Accepting
<1>4. JobIs' BY <1>1 DEF StreamShape, JobIs
<1>5. PICK k \in 0 .. Len(net.in), whole \in BOOLEAN :
       LET b == ctx.buf \o Take(k)
           h == ProcessIncoming(b)
           total == h.header + h.remaining
           more == k + total - Len(b)
       IN /\ k <= BufferSize - Len(ctx.buf) /\ h.status = "Success" /\ total > BufferSize
          /\ IF whole /\ more <= Len(net.in)
             THEN /\ ctx' = [ctx EXCEPT !.buf = <<>>]
                  /\ net' = [net EXCEPT !.in = Behind(more)] /\ UNCHANGED app
             ELSE /\ \E c \in {"Connected", "DisconnectPending"} :
                       ctx' = [ctx EXCEPT !.pc = "end", !.buf = <<>>, !.conn = c]
                  /\ Stop("RecvFailed") /\ net' = [net EXCEPT !.in = Behind(k)]
  BY Zenon DEF DiscardStoredPacket
<1> DEFINE b == ctx.buf \o Take(k)
           c == Behind(k)
           h == ProcessIncoming(b)
           total == h.header + h.remaining
           more == k + total - Len(b)
           S == Session
           G == app.handled
           rest == SubSeq(c, total - Len(b) + 1, Len(c))
<1>6. /\ b \in Seq(Byte) /\ c \in Seq(Byte) /\ Len(b) = Len(ctx.buf) + k /\ Len(c) = Len(net.in) - k
      /\ Len(ctx.buf) \in Nat /\ k \in Nat /\ Len(net.in) \in Nat
      /\ b \o c = ctx.buf \o net.in
  BY Window, Zenon
<1>7. /\ k <= BufferSize - Len(ctx.buf) /\ h.status = "Success" /\ total > BufferSize
      /\ \/ /\ more <= Len(net.in)
            /\ ctx' = [ctx EXCEPT !.buf = <<>>] /\ net' = [net EXCEPT !.in = Behind(more)] /\ app' = app
         \/ /\ \E d \in {"Connected", "DisconnectPending"} : ctx' = [ctx EXCEPT !.pc = "end", !.buf = <<>>, !.conn = d]
            /\ app' = [app EXCEPT !.status = "RecvFailed"] /\ net' = [net EXCEPT !.in = c]
  BY <1>5, Zenon DEF Stop
<1>8. b # <<>>
  <2>1. ProcessIncoming(<<>>).status = "NoDataAvailable" BY DEF ProcessIncoming
  <2>2. h.status # "NoDataAvailable" BY <1>7
  <2> HIDE DEF b
  <2> QED BY <2>1, <2>2
<1>9. S \in Seq(Byte) /\ Received = Packets(S) /\ Received \in Seq(Seq(Byte)) /\ G \in Seq(Seq(Byte)) /\ net.in \in Seq(Byte)
  BY SessionIs DEF StreamShape
<1>10. Reading(S, G, b \o c) BY <1>2, <1>6
<1> HIDE DEF S, G, b, c
<1>11. h.status = "Success" =>
            /\ total \in Nat /\ total >= 2
            /\ total > Len(b) + Len(c) => G = Packets(S)
            /\ total >= Len(b) /\ total <= Len(b) + Len(c) /\ total > BufferSize => Reading(S, G, rest)
  BY <1>6, <1>8, <1>9, <1>10, ReadingOn, Zenon
<1>12. IsPrefix(G, Packets(S)) BY <1>9, <1>10, ReadingPrefix
<1> HIDE DEF h, total
<1>18. <<>> \in Seq(Byte) OBVIOUS
<1>13. total \in Nat /\ total > BufferSize /\ total >= Len(b) /\ BufferSize \in Nat /\ Len(b) \in Nat
  BY <1>6, <1>7, <1>11, BufferSizeOK
<1>19. /\ total - Len(b) \in Nat /\ more = k + (total - Len(b)) /\ more \in Nat
       /\ (more <= Len(net.in) => total <= Len(b) + Len(c) /\ total - Len(b) <= Len(c))
       /\ (k + 1) + (total - Len(b)) = (k + (total - Len(b))) + 1
  <2> DEFINE p == Len(b)
             q == Len(c)
             o == Len(net.in)
  <2>1. p \in Nat /\ o \in Nat /\ k \in Nat /\ total \in Nat /\ q = o - k /\ total >= p BY <1>6, <1>13
  <2> HIDE DEF p, q, o
  <2> QED BY <2>1, Discarded DEF p, q, o
<1> HIDE DEF more
<1>14. more \in Nat /\ (more <= Len(net.in) => total <= Len(b) + Len(c)) BY <1>19
<1>15. \A m \in Nat : Behind(m) \in Seq(Byte)
  <2> SUFFICES ASSUME NEW m \in Nat PROVE Behind(m) \in Seq(Byte) OBVIOUS
  <2>1. \A i \in m + 1 .. Len(net.in) : net.in[i] \in Byte BY <1>9
  <2>2. m + 1 \in Int /\ Len(net.in) \in Int BY <1>9
  <2> QED BY <2>1, <2>2, SubSeqProperties DEF Behind
<1>16. CASE /\ more <= Len(net.in)
            /\ ctx' = [ctx EXCEPT !.buf = <<>>] /\ net' = [net EXCEPT !.in = Behind(more)] /\ app' = app
  <2>1. Behind(more) = rest
    <3> DEFINE x == total - Len(b)
    <3>1. x \in Nat /\ more = k + x /\ x <= Len(c) BY <1>16, <1>19
    <3>2. SubSeq(net.in, (k + x) + 1, Len(net.in)) = SubSeq(c, x + 1, Len(c))
      <4> DEFINE in == net.in
                 at == k + 1
      <4>1. at \in 1 .. Len(in) + 1 /\ x \in 0 .. Len(c) BY <1>6, <3>1
      <4>2. c = SubSeq(in, at, Len(in)) BY DEF c, Behind
      <4>3. at + x = (k + x) + 1 BY <1>19
      <4> HIDE DEF in, at, x
      <4>4. in \in Seq(Byte) BY <1>9 DEF in
      <4>5. SubSeq(c, x + 1, Len(c)) = SubSeq(in, at + x, Len(in)) BY <4>1, <4>2, <4>4, DropSlice
      <4> QED BY <4>3, <4>5 DEF in
    <3>3. Behind(k + x) = SubSeq(net.in, (k + x) + 1, Len(net.in)) BY DEF Behind
    <3>4. Behind(more) = Behind(k + x) BY <3>1
    <3> QED BY <3>2, <3>3, <3>4
  <2>2. Reading(S, G, rest) BY <1>7, <1>11, <1>13, <1>14, <1>16
  <2>3. net' \in [in: Seq(Byte), out: Seq(Byte)] /\ net'.in = rest BY <1>14, <1>15, <1>16, <2>1 DEF StreamShape
  <2>4. /\ ctx'.buf = <<>> /\ ctx'.pc = "loop" /\ ctx'.conn = "Connected"
        /\ ctx' \in [conn: {"NotConnected", "Connected", "DisconnectPending"}, pc: {"call", "write", "connack", "loop", "end"},
                     buf: Seq(Byte), vecs: Seq(Seq(Seq(Byte)))]
    BY <1>1, <1>2, <1>16, <1>18 DEF StreamShape
  <2>5. Len(ctx'.buf) < BufferSize BY <2>4, BufferSizeOK
  <2>6. StreamShape' BY <1>4, <1>16, <2>3, <2>4, <2>5 DEF StreamShape
  <2>7. ctx'.buf \o net'.in = rest
    <3>1. net'.in \in Seq(Byte) BY <2>3
    <3>2. <<>> \o net'.in = net'.in BY <3>1, ConcatEmptySeq
    <3> QED BY <2>3, <2>4, <3>2
  <2> HIDE DEF rest
  <2>8. Reading(Session', app'.handled, ctx'.buf \o net'.in) BY <1>3, <1>16, <2>2, <2>7 DEF S, G
  <2> QED BY <1>2, <1>3, <1>16, <2>4, <2>6, <2>8 DEF ReceiveInv
<1>17. CASE /\ \E d \in {"Connected", "DisconnectPending"} : ctx' = [ctx EXCEPT !.pc = "end", !.buf = <<>>, !.conn = d]
            /\ app' = [app EXCEPT !.status = "RecvFailed"] /\ net' = [net EXCEPT !.in = c]
  <2>1. net' \in [in: Seq(Byte), out: Seq(Byte)] /\ net'.in = c BY <1>6, <1>17 DEF StreamShape
  <2>2. /\ ctx'.buf = <<>> /\ ctx'.pc = "end"
        /\ ctx' \in [conn: {"NotConnected", "Connected", "DisconnectPending"}, pc: {"call", "write", "connack", "loop", "end"},
                     buf: Seq(Byte), vecs: Seq(Seq(Seq(Byte)))]
    BY <1>17, <1>18 DEF StreamShape
  <2>3. app' \in [handled: Seq(Seq(Byte)), stored: Seq(Byte), status: Outcomes] /\ app'.handled = G /\ app'.status = "RecvFailed"
    BY <1>17 DEF StreamShape, Outcomes, G
  <2>4. Len(ctx'.buf) < BufferSize BY <2>2, BufferSizeOK
  <2>5. StreamShape' BY <1>4, <2>1, <2>2, <2>3, <2>4 DEF StreamShape
  <2>6. net'.in \o ctx'.buf = <<>> => G = Packets(S)
    <3> SUFFICES ASSUME net'.in \o ctx'.buf = <<>> PROVE G = Packets(S) OBVIOUS
    <3>1. c \o <<>> = c BY <1>6, ConcatEmptySeq
    <3>2. c = <<>> BY <2>1, <2>2, <3>1
    <3>3. Len(b) <= BufferSize BY <1>6, <1>7, <1>13
    <3>4. Len(c) = 0 BY <3>2
    <3>5. total > Len(b) + Len(c) BY <1>13, <3>3, <3>4
    <3> QED BY <1>7, <1>11, <3>5
  <2>7. InOrder' BY <1>2, <1>3, <1>9, <1>12, <2>3, <2>6 DEF InOrder
  <2> QED BY <2>2, <2>5, <2>7 DEF ReceiveInv
<1> QED BY <1>7, <1>16, <1>17, Zenon

LEMMA FailKeeps ==
  ASSUME StreamShape, ReceiveInv, job.kind = "receive", ReceiveFails
  PROVE  StreamShape' /\ ReceiveInv'
<1>1. /\ ctx.pc = "loop" /\ job' = job /\ net' = net
      /\ ctx' = [ctx EXCEPT !.pc = "end", !.conn = "DisconnectPending"] /\ app' = [app EXCEPT !.status = "RecvFailed"]
  BY DEF ReceiveFails, Stop
<1>2. Accepting /\ Reading(Session, app.handled, ctx.buf \o net.in) BY <1>1 DEF ReceiveInv
<1>3. Session' = Session /\ Received' = Received /\ (Accepting' <=> Accepting) BY <1>1 DEF Session, Received, Accepting
<1>4. JobIs' BY <1>1 DEF StreamShape, JobIs
<1>5. /\ ctx'.buf = ctx.buf /\ ctx'.pc = "end" /\ ctx'.conn = "DisconnectPending"
      /\ ctx' \in [conn: {"NotConnected", "Connected", "DisconnectPending"}, pc: {"call", "write", "connack", "loop", "end"},
                   buf: Seq(Byte), vecs: Seq(Seq(Seq(Byte)))]
  BY <1>1 DEF StreamShape
<1>6. app' \in [handled: Seq(Seq(Byte)), stored: Seq(Byte), status: Outcomes] /\ app'.handled = app.handled
  BY <1>1 DEF StreamShape, Outcomes
<1>7. StreamShape' BY <1>1, <1>4, <1>5, <1>6 DEF StreamShape
<1>8. IsPrefix(app.handled, Received)
  <2> DEFINE S == Session
             G == app.handled
             R == ctx.buf \o net.in
  <2>1. S \in Seq(Byte) /\ Received = Packets(S) /\ G \in Seq(Seq(Byte)) /\ Reading(S, G, R) BY <1>2, SessionIs DEF StreamShape
  <2> HIDE DEF S, G, R
  <2>2. IsPrefix(G, Packets(S)) BY <2>1, ReadingPrefix
  <2> QED BY <2>1, <2>2 DEF G
<1>9. InOrder' BY <1>2, <1>3, <1>5, <1>6, <1>8 DEF InOrder
<1> QED BY <1>5, <1>7, <1>9 DEF ReceiveInv

-----------------------------------------------------------------------------
(* The vectors of a request                                                *)

LEMMA CatBytes == \A s, t \in Seq(Byte) : s \o t \in Seq(Byte) /\ Len(s \o t) = Len(s) + Len(t)
<1> HIDE DEF Byte
<1> QED BY ConcatProperties

LEMMA CatNone == \A s \in Seq(Byte) : s \o <<>> = s /\ <<>> \o s = s
<1> HIDE DEF Byte
<1> QED BY ConcatEmptySeq

LEMMA CatVectors == \A s, t \in Seq(Seq(Byte)) : /\ s \o t \in Seq(Seq(Byte))
                                                 /\ FlattenSeq(s \o t) = FlattenSeq(s) \o FlattenSeq(t)
<1> HIDE DEF Byte
<1>1. ASSUME NEW s \in Seq(Seq(Byte)), NEW t \in Seq(Seq(Byte))
      PROVE s \o t \in Seq(Seq(Byte)) /\ FlattenSeq(s \o t) = FlattenSeq(s) \o FlattenSeq(t)
  BY FlatConcat, ConcatProperties
<1> QED BY <1>1

LEMMA FlatBytes == \A s \in Seq(Seq(Byte)) : FlattenSeq(s) \in Seq(Byte)
  BY FlatType

LEMMA OneVector == \A s \in Seq(Byte) : <<s>> \in Seq(Seq(Byte)) /\ <<s>> # <<>> /\ FlattenSeq(<<s>>) = s
<1> HIDE DEF Byte
<1>1. ASSUME NEW s \in Seq(Byte) PROVE <<s>> \in Seq(Seq(Byte)) /\ <<s>> # <<>> /\ FlattenSeq(<<s>>) = s BY FlatOne
<1> QED BY <1>1

LEMMA Nothing == <<>> \in Seq(Byte) /\ <<>> \in Seq(Seq(Byte)) /\ FlattenSeq(<<>>) = <<>>
  BY FlatEmpty

LEMMA U16Is ==
  ASSUME NEW n \in Nat, n < 65536
  PROVE  /\ U16(n) \in Seq(Byte) /\ Len(U16(n)) = 2
         /\ U16(n)[1] \in Nat /\ U16(n)[2] \in Nat /\ U16(n)[1] * 256 + U16(n)[2] = n
<1> DEFINE x == (n \div 256) % 256
           y == n % 256
<1>1. n \div 256 \in Nat /\ n \div 256 < 256 /\ y \in Nat /\ y < 256 /\ n = 256 * (n \div 256) + y BY SMT
<1>2. x = n \div 256 BY <1>1, SMT
<1>3. U16(n) = <<x, y>> BY DEF U16
<1> HIDE DEF y
<1>4. x \in Nat /\ x < 256 /\ n = 256 * x + y BY <1>1, <1>2
<1> HIDE DEF x
<1>5. x \in Byte /\ y \in Byte BY <1>1, <1>4, ByteIs
<1>6. U16(n) \in Seq(Byte) /\ Len(U16(n)) = 2 /\ U16(n)[1] = x /\ U16(n)[2] = y BY <1>3, <1>5
<1>7. x * 256 + y = n BY <1>1, <1>4
<1> QED BY <1>1, <1>4, <1>6, <1>7

LEMMA WordBytes == \A w \in Word : U16(w) \in Seq(Byte) /\ Len(U16(w)) = 2
<1> SUFFICES ASSUME NEW w \in Word PROVE U16(w) \in Seq(Byte) /\ Len(U16(w)) = 2 OBVIOUS
<1>1. w \in Nat /\ w < 65536 BY WordIs
<1> QED BY <1>1, U16Is

LEMMA TextIs ==
  ASSUME NEW s \in Text
  PROVE  s \in Seq(Byte) /\ Len(s) \in Nat /\ Len(s) < 65536
  BY SMT DEF Text

LEMMA StringIs ==
  ASSUME NEW s \in Text
  PROVE  /\ EncodeString(s) \in Seq(Byte) /\ Len(EncodeString(s)) = 2 + Len(s)
         /\ EncodedString(s) \in Seq(Seq(Byte)) /\ EncodedString(s) # <<>>
         /\ FlattenSeq(EncodedString(s)) = EncodeString(s)
<1> DEFINE u == U16(Len(s))
<1>1. s \in Seq(Byte) /\ Len(s) \in Nat /\ Len(s) < 65536 BY TextIs
<1>2. u \in Seq(Byte) /\ Len(u) = 2 BY <1>1, U16Is
<1> HIDE DEF u
<1>3. EncodeString(s) = u \o s BY DEF EncodeString, u
<1>4. EncodeString(s) \in Seq(Byte) /\ Len(EncodeString(s)) = 2 + Len(s)
  <2>1. s \in Seq(Byte) /\ Len(s) \in Nat BY <1>1
  <2>2. u \o s \in Seq(Byte) /\ Len(u \o s) = Len(u) + Len(s) BY <1>2, <2>1, CatBytes
  <2> QED BY <1>2, <1>3, <2>1, <2>2
<1>5. CASE s = <<>>
  <2>1. EncodedString(s) = <<u>>
    <3>1. EncodedString(s) = <<U16(0)>> /\ Len(s) = 0 BY <1>5 DEF EncodedString
    <3> QED BY <3>1 DEF u
  <2>2. <<u>> \in Seq(Seq(Byte)) /\ FlattenSeq(<<u>>) = u /\ u \o <<>> = u BY <1>2, OneVector, CatNone
  <2>3. <<u>> # <<>> OBVIOUS
  <2> QED BY <1>3, <1>4, <1>5, <2>1, <2>2, <2>3
<1>6. CASE s # <<>>
  <2>1. EncodedString(s) = <<u, s>> BY <1>6 DEF EncodedString, u
  <2>2. <<u, s>> = <<u>> \o <<s>> /\ <<u, s>> # <<>> OBVIOUS
  <2>3. <<u>> \in Seq(Seq(Byte)) /\ FlattenSeq(<<u>>) = u /\ <<s>> \in Seq(Seq(Byte)) /\ FlattenSeq(<<s>>) = s BY <1>1, <1>2, OneVector
  <2>4. <<u>> \o <<s>> \in Seq(Seq(Byte)) /\ FlattenSeq(<<u>> \o <<s>>) = u \o s BY <2>3, CatVectors
  <2> QED BY <1>3, <1>4, <2>1, <2>2, <2>4
<1> QED BY <1>5, <1>6

\* Flattening twice, and flattening what has been flattened one by one.
LEMMA FlatFlat ==
  \A sss \in Seq(Seq(Seq(Byte))) :
    LET each == [i \in DOMAIN sss |-> FlattenSeq(sss[i])]
    IN /\ FlattenSeq(sss) \in Seq(Seq(Byte)) /\ each \in Seq(Seq(Byte))
       /\ FlattenSeq(FlattenSeq(sss)) = FlattenSeq(each)
<1> DEFINE V == Seq(Seq(Byte))
           each(q) == [i \in DOMAIN q |-> FlattenSeq(q[i])]
           T == {q \in Seq(V) : each(q) \in V /\ FlattenSeq(FlattenSeq(q)) = FlattenSeq(each(q))}
<1>0. \A q \in Seq(V) : FlattenSeq(q) \in V BY FlatType
<1>1. <<>> \in T
  <2>1. each(<<>>) = <<>> OBVIOUS
  <2>2. <<>> \in Seq(V) /\ <<>> \in V OBVIOUS
  <2> HIDE DEF each, V
  <2> QED BY <2>1, <2>2, FlatEmpty
<1>2. ASSUME NEW q \in Seq(V), NEW v \in V, q \in T PROVE Append(q, v) \in T
  <2> DEFINE a == Append(q, v)
             fv == FlattenSeq(v)
  <2>1. each(q) \in V /\ FlattenSeq(FlattenSeq(q)) = FlattenSeq(each(q)) BY <1>2
  <2>2. a \in Seq(V) /\ DOMAIN a = 1 .. Len(q) + 1 /\ DOMAIN q = 1 .. Len(q) /\ Len(q) \in Nat
        /\ a[Len(q) + 1] = v /\ \A i \in 1 .. Len(q) : a[i] = q[i]
    <3> HIDE DEF V
    <3>1. a \in Seq(V) /\ Len(a) = Len(q) + 1 /\ a[Len(q) + 1] = v /\ \A i \in 1 .. Len(q) : a[i] = q[i] BY AppendProperties
    <3> QED BY <3>1
  <2>3. fv \in Seq(Byte) BY FlatBytes
  <2> HIDE DEF a
  <2>4. each(a) = Append(each(q), fv)
    <3>1. each(a) = [i \in 1 .. Len(q) + 1 |-> FlattenSeq(a[i])] BY <2>2
    <3>2. Len(each(q)) = Len(q) /\ \A i \in 1 .. Len(q) : each(q)[i] = FlattenSeq(q[i])
      <4>1. DOMAIN each(q) = 1 .. Len(q) BY <2>2
      <4>2. Len(each(q)) \in Nat /\ DOMAIN each(q) = 1 .. Len(each(q)) BY <2>1
      <4> HIDE DEF each
      <4>3. Len(each(q)) = Len(q) BY <2>2, <4>1, <4>2
      <4> QED BY <2>2, <4>3 DEF each
    <3> DEFINE e == each(q)
               c == Append(e, fv)
    <3>3. e \in V /\ Len(e) = Len(q) /\ \A i \in 1 .. Len(q) : e[i] = FlattenSeq(q[i]) BY <2>1, <3>2
    <3> HIDE DEF e, fv
    <3>4. c \in V /\ Len(c) = Len(q) + 1 /\ c[Len(q) + 1] = fv /\ \A i \in 1 .. Len(q) : c[i] = e[i]
      <4>1. e \in Seq(Seq(Byte)) /\ fv \in Seq(Byte) BY <2>3, <3>3
      <4>2. c \in V /\ Len(c) = Len(e) + 1 /\ c[Len(e) + 1] = fv /\ \A i \in 1 .. Len(e) : c[i] = e[i]
        BY <4>1, AppendProperties
      <4> HIDE DEF c
      <4> QED BY <3>3, <4>2
    <3> DEFINE w == each(a)
    <3>5. w = [i \in 1 .. Len(q) + 1 |-> FlattenSeq(a[i])] BY <3>1
    <3> HIDE DEF w, c
    <3>6. ASSUME NEW i \in 1 .. Len(q) + 1 PROVE w[i] = c[i]
      <4>1. w[i] = FlattenSeq(a[i]) BY <3>5
      <4>2. CASE i = Len(q) + 1 BY <2>2, <3>4, <4>1, <4>2 DEF fv
      <4>3. CASE i # Len(q) + 1
        <5>1. i \in 1 .. Len(q) BY <2>2, <4>3
        <5> QED BY <2>2, <3>3, <3>4, <4>1, <5>1
      <4> QED BY <4>2, <4>3
    <3>7. c = [i \in 1 .. Len(q) + 1 |-> c[i]]
      <4>1. DOMAIN c = 1 .. Len(q) + 1 BY <3>4
      <4>2. c = [i \in DOMAIN c |-> c[i]] BY <3>4
      <4> QED BY <4>1, <4>2
    <3>8. w = [i \in 1 .. Len(q) + 1 |-> w[i]] BY <3>5
    <3>9. w = c BY <3>6, <3>7, <3>8
    <3> QED BY <3>9 DEF w, c, e, fv
  <2> HIDE DEF each
  <2>5. Append(each(q), fv) \in V /\ FlattenSeq(Append(each(q), fv)) = FlattenSeq(each(q)) \o fv
    BY <2>1, <2>3, FlatAppend, AppendProperties
  <2>6. FlattenSeq(a) = FlattenSeq(q) \o v
    <3> HIDE DEF V
    <3>1. q \in Seq(V) /\ v \in V OBVIOUS
    <3> QED BY <3>1, FlatAppend DEF a, V
  <2>7. FlattenSeq(FlattenSeq(q) \o v) = FlattenSeq(FlattenSeq(q)) \o fv BY <1>0, CatVectors
  <2> QED BY <2>1, <2>2, <2>4, <2>5, <2>6, <2>7 DEF a
<1>3. Seq(V) \subseteq T
  <2> HIDE DEF T, V
  <2> QED BY <1>1, <1>2, SeqInduct
<1> HIDE DEF V, each
<1>4. \A q \in Seq(V) : FlattenSeq(q) \in V /\ each(q) \in V /\ FlattenSeq(FlattenSeq(q)) = FlattenSeq(each(q))
  BY <1>0, <1>3
<1> QED BY <1>4 DEF V, each

LEMMA SplitAt ==
  ASSUME NEW vecs \in Seq(Seq(Byte)), NEW i \in 1 .. Len(vecs)
  PROVE  LET front == SubSeq(vecs, 1, i - 1)
             back == SubSeq(vecs, i + 1, Len(vecs))
         IN /\ front \in Seq(Seq(Byte)) /\ back \in Seq(Seq(Byte)) /\ vecs[i] \in Seq(Byte)
            /\ FlattenSeq(vecs) = FlattenSeq(front) \o (vecs[i] \o FlattenSeq(back))
            /\ FlattenSeq(SubSeq(vecs, 1, i)) = FlattenSeq(front) \o vecs[i]
<1> DEFINE V == Seq(Byte)
           front == SubSeq(vecs, 1, i - 1)
           back == SubSeq(vecs, i + 1, Len(vecs))
           upto == SubSeq(vecs, 1, i)
           v == vecs[i]
<1>1. vecs \in Seq(V) /\ v \in V /\ i \in Nat /\ i >= 1 /\ i <= Len(vecs) /\ Len(vecs) \in Nat OBVIOUS
<1>2. front \in Seq(V) /\ back \in Seq(V)
  <2>1. \A j \in 1 .. i - 1 : vecs[j] \in V BY <1>1
  <2>2. \A j \in i + 1 .. Len(vecs) : vecs[j] \in V BY <1>1
  <2>3. i - 1 \in Int /\ 1 \in Int /\ i + 1 \in Int /\ Len(vecs) \in Int BY <1>1
  <2> HIDE DEF V
  <2> QED BY <2>1, <2>2, <2>3, SubSeqProperties
<1>3. upto = front \o <<v>>
  <2> HIDE DEF V
  <2>1. 1 \in 1 .. Len(vecs) /\ i \in 1 .. Len(vecs) BY <1>1
  <2> QED BY <1>1, <2>1, SubSeqRecursiveSecond
<1>4. vecs = upto \o back
  <2> HIDE DEF V
  <2>1. 1 \in 1 .. Len(vecs) + 1 /\ i \in 1 - 1 .. Len(vecs) /\ Len(vecs) \in i .. Len(vecs) BY <1>1
  <2>2. SubSeq(vecs, 1, i) \o SubSeq(vecs, i + 1, Len(vecs)) = SubSeq(vecs, 1, Len(vecs)) BY <1>1, <2>1, ConcatAdjacentSubSeq
  <2> QED BY <1>1, <2>2, SubSeqFull
<1> HIDE DEF front, back, upto, v
<1>5. <<v>> \in Seq(V) /\ FlattenSeq(<<v>>) = v BY <1>1, OneVector
<1>6. upto \in Seq(V) /\ FlattenSeq(upto) = FlattenSeq(front) \o v BY <1>2, <1>3, <1>5, CatVectors, ZenonT(60)
<1>7. FlattenSeq(vecs) = FlattenSeq(upto) \o FlattenSeq(back)
  <2>1. FlattenSeq(upto \o back) = FlattenSeq(upto) \o FlattenSeq(back) BY <1>2, <1>6, CatVectors
  <2> QED BY <1>4, <2>1
<1>8. FlattenSeq(front) \in V /\ FlattenSeq(back) \in V BY <1>2, FlatBytes
<1>9. (FlattenSeq(front) \o v) \o FlattenSeq(back) = FlattenSeq(front) \o (v \o FlattenSeq(back)) BY <1>1, <1>8, Joins
<1> QED BY <1>1, <1>2, <1>6, <1>7, <1>9 DEF front, back, upto, v

\* What is left of the vectors is what is left of their bytes.
LEMMA AdvanceIs ==
  ASSUME NEW vecs \in Seq(Seq(Byte)), NEW n \in Nat, n <= Len(FlattenSeq(vecs))
  PROVE  /\ Advance(vecs, n) \in Seq(Seq(Byte))
         /\ FlattenSeq(Advance(vecs, n)) = SubSeq(FlattenSeq(vecs), n + 1, Len(FlattenSeq(vecs)))
<1> DEFINE starts == [i \in 1 .. Len(vecs) + 1 |-> Len(FlattenSeq(SubSeq(vecs, 1, i - 1)))]
           first == {i \in DOMAIN vecs : starts[i + 1] > n}
           k == CHOOSE j \in first : \A l \in first : j <= l
           all == FlattenSeq(vecs)
           L == Len(vecs)
           back == SubSeq(vecs, k + 1, L)
           x == n - starts[k]
           cut == SubSeq(vecs[k], x + 1, Len(vecs[k]))
<1>1. Advance(vecs, n) = IF first = {} THEN <<>> ELSE <<cut>> \o back BY Zenon DEF Advance
<1>2. L \in Nat /\ all \in Seq(Byte) /\ Len(all) \in Nat BY FlatBytes
<1>3. starts[1] = 0
  <2>1. SubSeq(vecs, 1, 0) = <<>> OBVIOUS
  <2>2. 1 \in 1 .. L + 1 /\ 1 - 1 = 0 BY <1>2
  <2>3. Len(FlattenSeq(<<>>)) = 0 BY Nothing
  <2> QED BY <2>1, <2>2, <2>3
<1>4. starts[L + 1] = Len(all)
  <2>1. SubSeq(vecs, 1, L) = vecs OBVIOUS
  <2>2. L + 1 \in 1 .. L + 1 /\ (L + 1) - 1 = L BY <1>2
  <2> QED BY <2>1, <2>2
<1>5. ASSUME NEW i \in 1 .. L
      PROVE  /\ starts[i] = Len(FlattenSeq(SubSeq(vecs, 1, i - 1))) /\ starts[i] \in Nat
             /\ starts[i + 1] = starts[i] + Len(vecs[i])
  <2>1. i \in 1 .. L + 1 /\ i + 1 \in 1 .. L + 1 /\ (i + 1) - 1 = i BY <1>2
  <2>2. starts[i] = Len(FlattenSeq(SubSeq(vecs, 1, i - 1))) /\ starts[i + 1] = Len(FlattenSeq(SubSeq(vecs, 1, i))) BY <2>1
  <2> DEFINE front == SubSeq(vecs, 1, i - 1)
             up == SubSeq(vecs, 1, i)
             v == vecs[i]
  <2>3. front \in Seq(Seq(Byte)) /\ v \in Seq(Byte) /\ FlattenSeq(up) = FlattenSeq(front) \o v BY SplitAt
  <2> HIDE DEF front, up, v, starts
  <2>4. FlattenSeq(front) \in Seq(Byte) BY <2>3, FlatBytes
  <2>5. Len(FlattenSeq(front)) \in Nat BY <2>4
  <2>6. Len(FlattenSeq(front) \o v) = Len(FlattenSeq(front)) + Len(v) BY <2>3, <2>4, CatBytes
  <2> QED BY <2>2, <2>3, <2>5, <2>6 DEF front, up, v
<1>6. DOMAIN vecs = 1 .. L OBVIOUS
<1> HIDE DEF starts
<1>7. CASE first = {}
  <2>1. n >= Len(all)
    <3>1. CASE L = 0 BY <1>2, <1>3, <1>4, <3>1
    <3>2. CASE L # 0
      <4>1. L \in 1 .. L BY <1>2, <3>2
      <4>2. L \notin first BY <1>7
      <4>3. ~(starts[L + 1] > n) BY <1>6, <4>1, <4>2
      <4> QED BY <1>2, <1>4, <4>3
    <3> QED BY <3>1, <3>2
  <2>2. n = Len(all) BY <1>2, <2>1
  <2>3. SubSeq(all, n + 1, Len(all)) = <<>>
    <3> HIDE DEF all
    <3> QED BY <1>2, <2>2, SubSeqEmpty
  <2>4. Advance(vecs, n) = <<>> BY <1>1, <1>7
  <2> QED BY <2>3, <2>4, Nothing
<1>8. CASE first # {}
  <2>1. k \in first /\ \A l \in first : k <= l
    <3>1. first \in SUBSET (0 .. L) BY <1>2, <1>6
    <3> HIDE DEF first
    <3>2. \E j \in first : \A l \in first : j <= l BY <1>2, <1>8, <3>1, LeastOf
    <3> QED BY <3>2
  <2> HIDE DEF k
  <2>2. k \in 1 .. L /\ starts[k + 1] > n BY <1>6, <2>1
  <2>3. starts[k] <= n
    <3>1. CASE k = 1 BY <1>3, <3>1
    <3>2. CASE k # 1
      <4> DEFINE j == k - 1
      <4>1. j \in 1 .. L /\ j + 1 = k /\ ~(k <= j) BY <1>2, <2>2, <3>2
      <4>2. j \notin first BY <2>1, <4>1
      <4>3. ~(starts[j + 1] > n) BY <1>6, <4>1, <4>2
      <4>4. starts[k] \in Nat BY <1>5, <2>2
      <4> HIDE DEF j
      <4> QED BY <4>1, <4>3, <4>4
    <3> QED BY <3>1, <3>2
  <2> DEFINE front == SubSeq(vecs, 1, k - 1)
             v == vecs[k]
             f == FlattenSeq(front)
             g == FlattenSeq(back)
  <2>4. front \in Seq(Seq(Byte)) /\ back \in Seq(Seq(Byte)) /\ v \in Seq(Byte) /\ all = f \o (v \o g) BY <2>2, SplitAt
  <2>5. starts[k] = Len(f) /\ starts[k + 1] = Len(f) + Len(v) BY <1>5, <2>2
  <2>6. f \in Seq(Byte) /\ g \in Seq(Byte) BY <2>4, FlatBytes
  <2>7. Len(f) \in Nat /\ Len(v) \in Nat /\ x = n - Len(f) /\ x \in Nat /\ x < Len(v)
    <3>1. Len(f) \in Nat /\ Len(v) \in Nat BY <2>4, <2>6
    <3>2. starts[k] = Len(f) /\ starts[k + 1] = Len(f) + Len(v) /\ starts[k + 1] > n /\ starts[k] <= n BY <2>2, <2>3, <2>5
    <3> HIDE DEF f, v
    <3> QED BY <3>1, <3>2
  <2>8. cut \in Seq(Byte)
    <3> HIDE DEF v, x
    <3>1. SubSeq(v, x + 1, Len(v)) \in Seq(Byte)
      <4>1. \A i \in x + 1 .. Len(v) : v[i] \in Byte BY <2>4, <2>7
      <4>2. x + 1 \in Int /\ Len(v) \in Int BY <2>7
      <4> QED BY <4>1, <4>2, SubSeqProperties
    <3> QED BY <3>1 DEF v
  <2>9. Advance(vecs, n) = <<cut>> \o back BY <1>1, <1>8
  <2> HIDE DEF first, front, f, all, back
  <2>10. <<cut>> \in Seq(Seq(Byte)) /\ FlattenSeq(<<cut>>) = cut
    <3> HIDE DEF cut
    <3> QED BY <2>8, OneVector
  <2>11. <<cut>> \o back \in Seq(Seq(Byte)) /\ FlattenSeq(<<cut>> \o back) = cut \o g
    <3> HIDE DEF cut
    <3> QED BY <2>4, <2>10, CatVectors
  <2>12. SubSeq(all, n + 1, Len(all)) = cut \o g
    <3> DEFINE w == v \o g
    <3>1. w \in Seq(Byte) /\ Len(w) = Len(v) + Len(g) /\ Len(g) \in Nat
      <4> HIDE DEF v, g
      <4> QED BY <2>4, <2>6, CatBytes
    <3>2. all = f \o w /\ n \in 0 .. Len(f) + Len(w) /\ n >= Len(f) BY <2>4, <2>7, <3>1
    <3> HIDE DEF w
    <3>3. SubSeq(f \o w, n + 1, Len(f \o w)) = SubSeq(w, n - Len(f) + 1, Len(w)) BY <2>6, <3>1, <3>2, DropConcat
    <3>4. SubSeq(all, n + 1, Len(all)) = SubSeq(w, x + 1, Len(w)) BY <2>7, <3>2, <3>3
    <3>5. SubSeq(w, x + 1, Len(w)) = SubSeq(v, x + 1, Len(v)) \o g
      <4>1. x \in 0 .. Len(v) + Len(g) /\ x <= Len(v) BY <2>7, <3>1
      <4> HIDE DEF v, g, x
      <4>2. SubSeq(v \o g, x + 1, Len(v \o g)) = SubSeq(v, x + 1, Len(v)) \o g BY <2>4, <2>6, <4>1, DropConcat
      <4> QED BY <4>2 DEF w
    <3> QED BY <3>4, <3>5
  <2> QED BY <2>9, <2>11, <2>12 DEF all
<1> QED BY <1>7, <1>8

LEMMA HeadIs ==
  ASSUME NEW n \in Nat, n <= MaxRemaining, NEW t \in Byte
  PROVE  LET h == <<t>> \o EncodeRemainingLength(n)
         IN h \in Seq(Byte) /\ Len(h) = 1 + RemainingLengthEncodedSize(n) /\ h[1] = t /\ h # <<>>
<1> DEFINE e == EncodeRemainingLength(n)
           h == <<t>> \o e
<1>1. e \in Seq(Byte) /\ Len(e) = RemainingLengthEncodedSize(n) BY EncodedBytes
<1> HIDE DEF e
<1>2. h \in Seq(Byte) /\ Len(h) = 1 + Len(e) /\ h[1] = t BY <1>1, ConsBytes
<1>3. h # <<>> BY <1>1
<1> HIDE DEF h
<1> QED BY <1>1, <1>2, <1>3 DEF h, e

\* What is behind the length of a packet is found behind it.
LEMMA PacketIs ==
  ASSUME NEW d \in Seq(Byte), Len(d) <= MaxRemaining, NEW t \in Byte
  PROVE  LET k == RemainingLengthEncodedSize(Len(d))
             b == <<t>> \o EncodeRemainingLength(Len(d)) \o d
         IN /\ b \in Seq(Byte) /\ b[1] = t /\ b # <<>>
            /\ Tail(b) = EncodeRemainingLength(Len(d)) \o d
            /\ Header(b) = [size |-> k + 1, n |-> Len(d)]
            /\ SubSeq(b, k + 2, Len(b)) = d
<1> DEFINE e == EncodeRemainingLength(Len(d))
           k == RemainingLengthEncodedSize(Len(d))
           b == <<t>> \o e \o d
<1>1. e \in Seq(Byte) /\ Len(e) = k /\ k \in 1 .. 4 /\ Len(d) \in Nat BY EncodedBytes
<1> HIDE DEF e
<1>2. /\ b \in Seq(Byte) /\ Len(b) = 1 + k + Len(d) /\ b[1] = t
      /\ \A i \in 1 .. k : b[i + 1] = e[i]
      /\ SubSeq(b, k + 2, Len(b)) = d
  <2>1. DEFINE h == <<t>> \o e
  <2>2. h \in Seq(Byte) /\ Len(h) = 1 + k /\ h[1] = t /\ \A i \in 1 .. k : h[i + 1] = e[i] BY <1>1, ConsBytes
  <2> HIDE DEF h
  <2>3. h \o d \in Seq(Byte) /\ Len(h \o d) = 1 + k + Len(d) /\ \A i \in 1 .. 1 + k : (h \o d)[i] = h[i] BY <1>1, <2>2
  <2>4. SubSeq(h \o d, k + 2, Len(h \o d)) = d
    <3>1. SubSeq(h \o d, Len(h) + 1, Len(h) + Len(d)) = d BY <2>2, SecondHalf
    <3>2. Len(h) + 1 = k + 2 /\ Len(h) + Len(d) = Len(h \o d) BY <1>1, <2>2, <2>3
    <3> QED BY <3>1, <3>2
  <2>5. 1 \in 1 .. 1 + k /\ \A i \in 1 .. k : i + 1 \in 1 .. 1 + k BY <1>1
  <2> QED BY <2>2, <2>3, <2>4, <2>5 DEF h
<1>3. Tail(b) = e \o d
  <2>1. <<t>> \in Seq(Byte) OBVIOUS
  <2>2. b = <<t>> \o (e \o d) /\ e \o d \in Seq(Byte) BY <1>1, <2>1, Joins, CatBytes
  <2> DEFINE x == e \o d
  <2> HIDE DEF x, b
  <2>3. Tail(<<t>> \o x) = x BY <2>2 DEF x
  <2> QED BY <2>2, <2>3 DEF x
<1> HIDE DEF b
<1>4. Header(b) = [size |-> k + 1, n |-> Len(d)]
  <2>1. Len(b) > k BY <1>1, <1>2
  <2>2. HeaderOf(b, k) /\ Announced(b, k) = Len(d) BY <1>1, <1>2, <2>1, EncodedHeader DEF e
  <2> QED BY <1>2, <2>2, HeaderIs
<1>5. b # <<>> BY <1>1, <1>2
<1> HIDE DEF k
<1> QED BY <1>2, <1>3, <1>4, <1>5 DEF b, e, k

-----------------------------------------------------------------------------
(* What a call makes of a request                                          *)

Batches == Seq(Seq(Seq(Byte)) \ {<<>>})

Makes(status, batches, stored) ==
  /\ status \in {"Success", "BadParameter"} /\ Copied.status = status
  /\ Copied.bytes \in Seq(Byte)
  /\ status = "BadParameter" => Copied.bytes = <<>>
  /\ status = "Success" =>
       /\ batches \in Batches /\ batches # <<>> /\ stored \in Seq(Byte)
       /\ FlattenSeq(FlattenSeq(batches)) = Copied.bytes
       /\ stored # <<>> => stored = <<UpdateDuplicatePublishFlag(Copied.bytes[1], TRUE)>> \o Tail(Copied.bytes)

LEMMA OneBatch ==
  ASSUME NEW v \in Seq(Seq(Byte)), v # <<>>
  PROVE  <<v>> \in Batches /\ <<v>> # <<>> /\ FlattenSeq(FlattenSeq(<<v>>)) = FlattenSeq(v)
<1> DEFINE V == Seq(Byte)
<1>1. FlattenSeq(<<v>>) = v
  <2>1. v \in Seq(V) OBVIOUS
  <2> HIDE DEF V
  <2> QED BY <2>1, FlatOne
<1>2. <<v>> # <<>> OBVIOUS
<1>3. v \in Seq(Seq(Byte)) \ {<<>>} OBVIOUS
<1>4. <<v>> \in Batches BY <1>3 DEF Batches
<1> QED BY <1>1, <1>2, <1>4

LEMMA MakesOne ==
  ASSUME NEW s \in Seq(Byte), NEW status, Copied = [status |-> status, bytes |-> s],
         (status = "BadParameter" /\ s = <<>>) \/ status = "Success"
  PROVE  Makes(status, <<<<s>>>>, <<>>)
<1>1. <<s>> \in Seq(Seq(Byte)) /\ <<s>> # <<>> /\ FlattenSeq(<<s>>) = s BY OneVector
<1>2. <<<<s>>>> \in Batches /\ <<<<s>>>> # <<>> /\ FlattenSeq(FlattenSeq(<<<<s>>>>)) = s BY <1>1, OneBatch
<1>3. <<>> \in Seq(Byte) BY Nothing
<1>4. Copied.status = status /\ Copied.bytes = s OBVIOUS
<1> QED BY <1>2, <1>3, <1>4 DEF Makes

LEMMA FixedMakes ==
  ASSUME JobIs, job.kind = "send", job.op \in {"ack", "ping", "disconnect"}
  PROVE  LET s == CASE job.op = "ping" -> SerializePingreq(2)
                    [] job.op = "disconnect" -> SerializeDisconnect(2)
                    [] OTHER -> SerializeAck(job.type, job.id, 4)
         IN s = Copied /\ Makes(s.status, <<<<s.bytes>>>>, <<>>)
<1> DEFINE s == CASE job.op = "ping" -> SerializePingreq(2)
                  [] job.op = "disconnect" -> SerializeDisconnect(2)
                  [] OTHER -> SerializeAck(job.type, job.id, 4)
<1>1. CASE job.op = "ping"
  <2>1. s = SerializePingreq(2) /\ Copied = SerializePingreq(2) BY <1>1, Zenon DEF Copied
  <2>2. SerializePingreq(2) = [status |-> "Success", bytes |-> <<192, 0>>]
    <3>1. 2 # NoBuffer /\ ~(2 < 2) BY SMT DEF NoBuffer
    <3> QED BY <3>1, Zenon DEF SerializePingreq, Fixed, Written, PINGREQ
  <2>3. <<192, 0>> \in Seq(Byte)
    <3>1. 192 \in Byte /\ 0 \in Byte BY ByteIs
    <3> QED BY <3>1
  <2> DEFINE x == <<192, 0>>
  <2>4. s = [status |-> "Success", bytes |-> x] /\ Copied = [status |-> "Success", bytes |-> x] BY <2>1, <2>2, Zenon
  <2> HIDE DEF x, s
  <2>5. Makes("Success", <<<<x>>>>, <<>>) BY <2>3, <2>4, MakesOne DEF x
  <2>6. s.status = "Success" /\ s.bytes = x BY <2>4
  <2> QED BY <2>4, <2>5, <2>6 DEF s
<1>2. CASE job.op = "disconnect"
  <2>1. s = SerializeDisconnect(2) /\ Copied = SerializeDisconnect(2) BY <1>2, Zenon DEF Copied
  <2>2. SerializeDisconnect(2) = [status |-> "Success", bytes |-> <<224, 0>>]
    <3>1. 2 # NoBuffer /\ ~(2 < 2) BY SMT DEF NoBuffer
    <3> QED BY <3>1, Zenon DEF SerializeDisconnect, Fixed, Written, DISCONNECT
  <2>3. <<224, 0>> \in Seq(Byte)
    <3>1. 224 \in Byte /\ 0 \in Byte BY ByteIs
    <3> QED BY <3>1
  <2> DEFINE x == <<224, 0>>
  <2>4. s = [status |-> "Success", bytes |-> x] /\ Copied = [status |-> "Success", bytes |-> x] BY <2>1, <2>2, Zenon
  <2> HIDE DEF x, s
  <2>5. Makes("Success", <<<<x>>>>, <<>>) BY <2>3, <2>4, MakesOne DEF x
  <2>6. s.status = "Success" /\ s.bytes = x BY <2>4
  <2> QED BY <2>4, <2>5, <2>6 DEF s
<1>3. CASE job.op = "ack"
  <2>1. s = SerializeAck(job.type, job.id, 4) /\ Copied = SerializeAck(job.type, job.id, 4) BY <1>3, Zenon DEF Copied
  <2>2. job.type \in Byte /\ job.id \in Word BY <1>3, Kinds DEF RequestOK
  <2> DEFINE refused == job.id = 0 \/ job.type \notin {PUBACK, PUBREC, PUBREL, PUBCOMP}
             x == <<job.type, 2>> \o U16(job.id)
             y == IF refused THEN <<>> ELSE x
             st == IF refused THEN "BadParameter" ELSE "Success"
  <2>3. SerializeAck(job.type, job.id, 4) = [status |-> st, bytes |-> y]
    <3>1. 4 # NoBuffer /\ ~(4 < 4) BY SMT DEF NoBuffer
    <3>2. SerializeAck(job.type, job.id, 4) = IF refused THEN Refused("BadParameter") ELSE Written(x) BY <3>1, Zenon DEF SerializeAck
    <3> QED BY <3>2, Zenon DEF Refused, Written
  <2>4. y \in Seq(Byte)
    <3>1. job.id \in Nat /\ job.id < 65536 /\ 2 \in Byte BY <2>2, WordIs, ByteIs
    <3>2. U16(job.id) \in Seq(Byte) BY <2>2, WordBytes
    <3>3. <<job.type, 2>> \in Seq(Byte) BY <2>2, <3>1
    <3>4. x \in Seq(Byte) BY <3>2, <3>3, CatBytes
    <3> HIDE DEF x
    <3> QED BY <3>4, Nothing
  <2>5. s = [status |-> st, bytes |-> y] /\ Copied = [status |-> st, bytes |-> y] BY <2>1, <2>3, Zenon
  <2>6. (st = "BadParameter" /\ y = <<>>) \/ st = "Success" OBVIOUS
  <2> HIDE DEF y, st, s, refused
  <2>7. Makes(st, <<<<y>>>>, <<>>) BY <2>4, <2>5, <2>6, MakesOne
  <2>8. s.status = st /\ s.bytes = y BY <2>5
  <2> QED BY <2>5, <2>7, <2>8 DEF s
<1> QED BY <1>1, <1>2, <1>3

-----------------------------------------------------------------------------
(* MQTT_Connect                                                            *)

AllBytes(h, a, b, c, d, e, f, g) ==
  /\ h \in Seq(Byte) /\ a \in Seq(Byte) /\ b \in Seq(Byte) /\ c \in Seq(Byte)
  /\ d \in Seq(Byte) /\ e \in Seq(Byte) /\ f \in Seq(Byte) /\ g \in Seq(Byte)

Regrouped(h, a, b, c, d, e, f, g) ==
  h \o a \o b \o c \o d \o e \o f \o g = h \o (a \o b \o c \o d \o e \o f \o g)

LEMMA Regroup ==
  ASSUME NEW h, NEW a, NEW b, NEW c, NEW d, NEW e, NEW f, NEW g, AllBytes(h, a, b, c, d, e, f, g)
  PROVE  /\ Regrouped(h, a, b, c, d, e, f, g)
         /\ h \o a \o b \o c \o d \o e \o f \o g = h \o (a \o b \o c \o d \o e \o f \o g)
         /\ a \o b \o c \o d \o e \o f \o g \in Seq(Byte)
         /\ Len(a \o b \o c \o d \o e \o f \o g) = Len(a) + Len(b) + Len(c) + Len(d) + Len(e) + Len(f) + Len(g)
<1> DEFINE ab == a \o b
           abc == ab \o c
           abcd == abc \o d
           abcde == abcd \o e
           abcdef == abcde \o f
<1>h. h \in Seq(Byte) BY DEF AllBytes
<1>a. a \in Seq(Byte) BY DEF AllBytes
<1>b. b \in Seq(Byte) BY DEF AllBytes
<1>c. c \in Seq(Byte) BY DEF AllBytes
<1>d. d \in Seq(Byte) BY DEF AllBytes
<1>e. e \in Seq(Byte) BY DEF AllBytes
<1>f. f \in Seq(Byte) BY DEF AllBytes
<1>g. g \in Seq(Byte) BY DEF AllBytes
<1>1. (h \o a) \o b = h \o ab BY <1>h, <1>a, <1>b, Joins, SMTT(60)
<1>2. ab \in Seq(Byte) /\ Len(ab) = Len(a) + Len(b) BY <1>a, <1>b, CatBytes, SMT
<1>3. (h \o ab) \o c = h \o abc
  <2> HIDE DEF ab
  <2> QED BY <1>h, <1>c, <1>2, Joins, SMTT(60)
<1>4. abc \in Seq(Byte) /\ Len(abc) = Len(ab) + Len(c)
  <2> HIDE DEF ab
  <2> QED BY <1>c, <1>2, CatBytes, SMT
<1>5. (h \o abc) \o d = h \o abcd
  <2> HIDE DEF abc
  <2> QED BY <1>h, <1>d, <1>4, Joins, SMTT(60)
<1>6. abcd \in Seq(Byte) /\ Len(abcd) = Len(abc) + Len(d)
  <2> HIDE DEF abc
  <2> QED BY <1>d, <1>4, CatBytes, SMT
<1>7. (h \o abcd) \o e = h \o abcde
  <2> HIDE DEF abcd
  <2> QED BY <1>h, <1>e, <1>6, Joins, SMT
<1>8. abcde \in Seq(Byte) /\ Len(abcde) = Len(abcd) + Len(e)
  <2> HIDE DEF abcd
  <2> QED BY <1>e, <1>6, CatBytes, SMT
<1>9. (h \o abcde) \o f = h \o abcdef
  <2> HIDE DEF abcde
  <2> QED BY <1>h, <1>f, <1>8, Joins, SMT
<1>10. abcdef \in Seq(Byte) /\ Len(abcdef) = Len(abcde) + Len(f)
  <2> HIDE DEF abcde
  <2> QED BY <1>f, <1>8, CatBytes, SMT
<1>11. (h \o abcdef) \o g = h \o (abcdef \o g)
  <2> HIDE DEF abcdef
  <2> QED BY <1>h, <1>g, <1>10, Joins, SMTT(60)
<1>12. abcdef \o g \in Seq(Byte) /\ Len(abcdef \o g) = Len(abcdef) + Len(g)
  <2> HIDE DEF abcdef
  <2> QED BY <1>g, <1>10, CatBytes, SMT
<1>13. h \o a \o b \o c \o d \o e \o f \o g = h \o (abcdef \o g) BY <1>1, <1>3, <1>5, <1>7, <1>9, <1>11, Zenon
<1>14. Len(abcdef \o g) = Len(a) + Len(b) + Len(c) + Len(d) + Len(e) + Len(f) + Len(g)
  <2>1. /\ Len(a) \in Nat /\ Len(b) \in Nat /\ Len(c) \in Nat /\ Len(d) \in Nat /\ Len(e) \in Nat /\ Len(f) \in Nat
        /\ Len(g) \in Nat
    BY <1>a, <1>b, <1>c, <1>d, <1>e, <1>f, <1>g, LenProperties
  <2> HIDE DEF ab, abc, abcd, abcde, abcdef
  <2> QED BY <1>2, <1>4, <1>6, <1>8, <1>10, <1>12, <2>1
<1>15. Regrouped(h, a, b, c, d, e, f, g) BY <1>13, Zenon DEF Regrouped
<1> QED BY <1>12, <1>13, <1>14, <1>15

\* The optional fields, as vectors and as bytes.
FieldVectors(o) == IF o = <<>> THEN <<>> ELSE EncodedString(o[1])
FieldBytes(o) == IF o = <<>> THEN <<>> ELSE EncodeString(o[1])
FieldLength(o) == IF o = <<>> THEN 0 ELSE Len(o[1]) + 2
WillVectors(w) == IF w = <<>> THEN <<>> ELSE EncodedString(w[1].topic) \o EncodedString(w[1].payload)
WillBytes(w) == IF w = <<>> THEN <<>> ELSE EncodeString(w[1].topic) \o EncodeString(w[1].payload)
WillTooLong(w) == w # <<>> /\ Len(w[1].payload) > 65535
WillLength(w) == IF w = <<>> THEN 0 ELSE Len(w[1].topic) + 2 + Len(w[1].payload) + 2

LEMMA OneOrNone ==
  ASSUME NEW S, NEW o \in Optional(S), o # <<>>
  PROVE  Len(o) = 1 /\ o[1] \in S
<1>1. o \in Seq(S) /\ Len(o) <= 1 BY DEF Optional
<1>2. Len(o) # 0 BY <1>1, EmptySeq
<1>3. Len(o) \in Nat BY <1>1, LenProperties
<1>4. Len(o) = 1
  <2> DEFINE m == Len(o)
  <2>1. m <= 1 /\ m # 0 /\ m \in Nat BY <1>1, <1>2, <1>3
  <2> HIDE DEF m
  <2>2. m = 1 BY <2>1
  <2> QED BY <2>2 DEF m
<1>5. o[1] \in S BY <1>1, <1>4
<1> QED BY <1>4, <1>5

LEMMA OptionalIs ==
  ASSUME NEW o \in Optional(Text)
  PROVE  /\ FieldVectors(o) \in Seq(Seq(Byte)) /\ FlattenSeq(FieldVectors(o)) = FieldBytes(o)
         /\ FieldBytes(o) \in Seq(Byte) /\ Len(FieldBytes(o)) = FieldLength(o)
         /\ FieldLength(o) \in Nat /\ FieldLength(o) <= 65537
         /\ o # <<>> => o[1] \in Text /\ Len(o) = 1
<1>1. CASE o = <<>>
  <2>1. FieldVectors(o) = <<>> /\ FieldBytes(o) = <<>> /\ FieldLength(o) = 0 BY <1>1 DEF FieldVectors, FieldBytes, FieldLength
  <2>2. FieldLength(o) \in Nat /\ FieldLength(o) <= 65537 BY <2>1, SMT
  <2>3. Len(FieldBytes(o)) = FieldLength(o) BY <2>1
  <2>4. FieldVectors(o) \in Seq(Seq(Byte)) /\ FlattenSeq(FieldVectors(o)) = FieldBytes(o) /\ FieldBytes(o) \in Seq(Byte)
    BY <2>1, Nothing
  <2> QED BY <1>1, <2>2, <2>3, <2>4
<1>2. CASE o # <<>>
  <2>2. o[1] \in Text /\ Len(o) = 1 BY <1>2, OneOrNone
  <2> DEFINE s == o[1]
  <2> HIDE DEF s
  <2>3. s \in Text BY <2>2 DEF s
  <2>4. Len(s) \in Nat /\ Len(s) < 65536 BY <2>3, TextIs
  <2>5. EncodedString(s) \in Seq(Seq(Byte)) /\ FlattenSeq(EncodedString(s)) = EncodeString(s)
        /\ EncodeString(s) \in Seq(Byte) /\ Len(EncodeString(s)) = Len(s) + 2
    BY <2>3, <2>4, StringIs
  <2>6. FieldVectors(o) = EncodedString(s) /\ FieldBytes(o) = EncodeString(s) /\ FieldLength(o) = Len(s) + 2
    BY <1>2 DEF FieldVectors, FieldBytes, FieldLength, s
  <2> QED BY <1>2, <2>2, <2>4, <2>5, <2>6
<1> QED BY <1>1, <1>2

LEMMA WillIs ==
  ASSUME NEW w \in Optional(PublishInfo), ~WillTooLong(w)
  PROVE  /\ WillVectors(w) \in Seq(Seq(Byte)) /\ FlattenSeq(WillVectors(w)) = WillBytes(w)
         /\ WillBytes(w) \in Seq(Byte) /\ Len(WillBytes(w)) = WillLength(w)
         /\ WillLength(w) \in Nat /\ WillLength(w) <= 131074
         /\ w # <<>> => w[1] \in PublishInfo /\ w[1].topic \in Text /\ w[1].payload \in Text
<1>1. CASE w = <<>>
  <2>1. WillVectors(w) = <<>> /\ WillBytes(w) = <<>> /\ WillLength(w) = 0 BY <1>1 DEF WillVectors, WillBytes, WillLength
  <2>2. WillLength(w) \in Nat /\ WillLength(w) <= 131074 BY <2>1, SMT
  <2>3. Len(WillBytes(w)) = WillLength(w) BY <2>1
  <2>4. WillVectors(w) \in Seq(Seq(Byte)) /\ FlattenSeq(WillVectors(w)) = WillBytes(w) /\ WillBytes(w) \in Seq(Byte)
    BY <2>1, Nothing
  <2> QED BY <1>1, <2>2, <2>3, <2>4
<1>2. CASE w # <<>>
  <2>2. w[1] \in PublishInfo BY <1>2, OneOrNone
  <2>3. w[1].topic \in Text /\ w[1].payload \in Text
    <3> DEFINE l == Len(w[1].payload)
    <3>1. w[1].topic \in Text /\ w[1].payload \in Seq(Byte) BY <2>2 DEF PublishInfo
    <3>2. l \in Nat /\ ~(l > 65535) BY <1>2, <3>1, LenProperties, SMT DEF WillTooLong
    <3> HIDE DEF l
    <3>3. l <= 65535 BY <3>2
    <3> QED BY <3>1, <3>3, SMT DEF Text, l
  <2> DEFINE s == w[1].topic
             p == w[1].payload
  <2> HIDE DEF s, p
  <2>4. s \in Text /\ p \in Text BY <2>3 DEF s, p
  <2>5. Len(s) \in Nat /\ Len(s) < 65536 /\ Len(p) \in Nat /\ Len(p) < 65536 BY <2>4, TextIs
  <2>6. /\ EncodedString(s) \in Seq(Seq(Byte)) /\ FlattenSeq(EncodedString(s)) = EncodeString(s)
        /\ EncodeString(s) \in Seq(Byte) /\ Len(EncodeString(s)) = 2 + Len(s)
    BY <2>4, StringIs
  <2>7. /\ EncodedString(p) \in Seq(Seq(Byte)) /\ FlattenSeq(EncodedString(p)) = EncodeString(p)
        /\ EncodeString(p) \in Seq(Byte) /\ Len(EncodeString(p)) = 2 + Len(p)
    BY <2>4, StringIs
  <2>8. /\ EncodedString(s) \o EncodedString(p) \in Seq(Seq(Byte))
        /\ FlattenSeq(EncodedString(s) \o EncodedString(p)) = EncodeString(s) \o EncodeString(p)
    <3> DEFINE x == EncodedString(s)
               y == EncodedString(p)
    <3> HIDE DEF x, y
    <3>1. x \in Seq(Seq(Byte)) /\ y \in Seq(Seq(Byte)) BY <2>6, <2>7 DEF x, y
    <3>2. x \o y \in Seq(Seq(Byte)) /\ FlattenSeq(x \o y) = FlattenSeq(x) \o FlattenSeq(y) BY <3>1, CatVectors
    <3> QED BY <2>6, <2>7, <3>2 DEF x, y
  <2>9. EncodeString(s) \o EncodeString(p) \in Seq(Byte)
        /\ Len(EncodeString(s) \o EncodeString(p)) = Len(EncodeString(s)) + Len(EncodeString(p))
    <3> DEFINE x == EncodeString(s)
               y == EncodeString(p)
    <3> HIDE DEF x, y
    <3>1. x \in Seq(Byte) /\ y \in Seq(Byte) BY <2>6, <2>7 DEF x, y
    <3>2. x \o y \in Seq(Byte) /\ Len(x \o y) = Len(x) + Len(y) BY <3>1, CatBytes
    <3> QED BY <3>2 DEF x, y
  <2>10. Len(EncodeString(s) \o EncodeString(p)) = Len(s) + 2 + Len(p) + 2 BY <2>5, <2>6, <2>7, <2>9
  <2>11. Len(s) + 2 + Len(p) + 2 \in Nat /\ Len(s) + 2 + Len(p) + 2 <= 131074 BY <2>5
  <2>12. /\ WillVectors(w) = EncodedString(s) \o EncodedString(p) /\ WillBytes(w) = EncodeString(s) \o EncodeString(p)
         /\ WillLength(w) = Len(s) + 2 + Len(p) + 2
    BY <1>2 DEF WillVectors, WillBytes, WillLength, s, p
  <2> QED BY <2>2, <2>3, <2>8, <2>9, <2>10, <2>11, <2>12
<1> QED BY <1>1, <1>2

ConnectFlags(c, will) ==
  Bit(c.clean, 1) + Bit(c.user # <<>>, 7) + Bit(c.password # <<>>, 6)
    + IF will = <<>> THEN 0
      ELSE Bit(TRUE, 2) + Bit(will[1].qos = 1, 3) + Bit(will[1].qos = 2, 4) + Bit(will[1].retain, 5)

LEMMA ConnectFlagsAre ==
  ASSUME NEW c \in ConnectInfo, NEW will \in Optional(PublishInfo)
  PROVE  LET f == ConnectFlags(c, will)
         IN /\ f \in Byte /\ ~Flag(f, 0)
            /\ Flag(f, 1) <=> c.clean
            /\ Flag(f, 2) <=> will # <<>>
            /\ Flag(f, 6) <=> c.password # <<>>
            /\ Flag(f, 7) <=> c.user # <<>>
            /\ will # <<>> => (f \div 8) % 4 = will[1].qos /\ (Flag(f, 5) <=> will[1].retain)
<1> DEFINE f == ConnectFlags(c, will)
           clean == Bit(c.clean, 1)
           user == Bit(c.user # <<>>, 7)
           password == Bit(c.password # <<>>, 6)
           there == IF will = <<>> THEN 0 ELSE 1
           qos == IF will = <<>> THEN 0 ELSE will[1].qos
           retain == IF will = <<>> THEN 0 ELSE Bit(will[1].retain, 5)
<1>1. 2^0 = 1 /\ 2^1 = 2 /\ 2^2 = 4 /\ 2^3 = 8 /\ 2^4 = 16 /\ 2^5 = 32 /\ 2^6 = 64 /\ 2^7 = 128 BY SMT
<1>2. clean \in {0, 2} /\ (clean = 2 <=> c.clean) BY <1>1 DEF Bit
<1>3. user \in {0, 128} /\ (user = 128 <=> c.user # <<>>) BY <1>1 DEF Bit
<1>4. password \in {0, 64} /\ (password = 64 <=> c.password # <<>>) BY <1>1 DEF Bit
<1>5. there \in {0, 1} /\ (there = 1 <=> will # <<>>) OBVIOUS
<1>6. qos \in {0, 1, 2} /\ (will # <<>> => qos = will[1].qos)
  <2>1. will # <<>> => will[1] \in PublishInfo BY OneOrNone
  <2>2. will # <<>> => will[1].qos \in {0, 1, 2} BY <2>1 DEF PublishInfo
  <2> QED BY <2>2
<1>7. retain \in {0, 32} /\ (will # <<>> => (retain = 32 <=> will[1].retain)) BY <1>1 DEF Bit
<1>8. f = clean + user + password + 4 * there + 8 * qos + retain
  <2>1. CASE will = <<>>
    <3>1. f = clean + user + password + 0 BY <2>1 DEF ConnectFlags
    <3>2. there = 0 /\ qos = 0 /\ retain = 0 BY <2>1
    <3> HIDE DEF f, clean, user, password, there, qos, retain
    <3> QED BY <1>2, <1>3, <1>4, <3>1, <3>2
  <2>2. CASE will # <<>>
    <3> DEFINE four == Bit(TRUE, 2)
               q1 == Bit(will[1].qos = 1, 3)
               q2 == Bit(will[1].qos = 2, 4)
    <3>1. f = clean + user + password + (four + q1 + q2 + retain) BY <2>2 DEF ConnectFlags
    <3>2. four = 4 BY <1>1 DEF Bit
    <3>3. q1 \in Nat /\ q2 \in Nat /\ q1 + q2 = 8 * qos
      <4>1. q1 = (IF qos = 1 THEN 8 ELSE 0) /\ q2 = (IF qos = 2 THEN 16 ELSE 0) BY <1>1, <1>6, <2>2 DEF Bit
      <4> HIDE DEF q1, q2, qos
      <4> QED BY <1>6, <4>1
    <3>4. there = 1 BY <2>2
    <3> HIDE DEF f, clean, user, password, there, qos, retain, four, q1, q2
    <3> QED BY <1>2, <1>3, <1>4, <1>6, <1>7, <3>1, <3>2, <3>3, <3>4
  <2> QED BY <2>1, <2>2
<1> HIDE DEF f, clean, user, password, there, qos, retain
<1>9. f \in Nat /\ f < 256 BY <1>2, <1>3, <1>4, <1>5, <1>6, <1>7, <1>8
<1>10. f % 2 = 0 BY <1>2, <1>3, <1>4, <1>5, <1>6, <1>7, <1>8
<1>11. (f \div 2) % 2 = 1 <=> clean = 2 BY <1>2, <1>3, <1>4, <1>5, <1>6, <1>7, <1>8
<1>12. (f \div 4) % 2 = 1 <=> there = 1 BY <1>2, <1>3, <1>4, <1>5, <1>6, <1>7, <1>8
<1>13. (f \div 8) % 4 = qos BY <1>2, <1>3, <1>4, <1>5, <1>6, <1>7, <1>8
<1>14. (f \div 32) % 2 = 1 <=> retain = 32 BY <1>2, <1>3, <1>4, <1>5, <1>6, <1>7, <1>8
<1>15. (f \div 64) % 2 = 1 <=> password = 64 BY <1>2, <1>3, <1>4, <1>5, <1>6, <1>7, <1>8
<1>16. (f \div 128) % 2 = 1 <=> user = 128 BY <1>2, <1>3, <1>4, <1>5, <1>6, <1>7, <1>8
<1>17. f \in Byte BY <1>9, ByteIs
<1>18. f \div 1 = f BY <1>9
<1>19. /\ ~Flag(f, 0) /\ (Flag(f, 1) <=> c.clean) /\ (Flag(f, 2) <=> will # <<>>)
       /\ (Flag(f, 6) <=> c.password # <<>>) /\ (Flag(f, 7) <=> c.user # <<>>)
       /\ (Flag(f, 5) <=> retain = 32)
  BY <1>1, <1>2, <1>3, <1>4, <1>5, <1>10, <1>11, <1>12, <1>14, <1>15, <1>16, <1>18 DEF Flag
<1> QED BY <1>6, <1>7, <1>13, <1>17, <1>19 DEF f

Protocol == <<77, 81, 84, 84>>

\* What is behind the length of a CONNECT.
ConnectBody(c, will) ==
  EncodeString(Protocol) \o <<4, ConnectFlags(c, will)>> \o U16(c.keepAlive)
    \o EncodeString(c.client) \o WillBytes(will) \o FieldBytes(c.user) \o FieldBytes(c.password)

LEMMA ConnectSize ==
  ASSUME NEW c, NEW will
  PROVE  LET s == GetConnectPacketSize(c, will)
             n == 10 + Len(c.client) + 2 + WillLength(will) + FieldLength(c.user) + FieldLength(c.password)
             refused == c.client = <<>> \/ WillTooLong(will)
         IN IF refused THEN s.status = "BadParameter"
            ELSE s.status = "Success" /\ s.remaining = n /\ s.size = n + 1 + RemainingLengthEncodedSize(n)
<1> DEFINE s == GetConnectPacketSize(c, will)
           n == 10 + Len(c.client) + 2 + WillLength(will) + FieldLength(c.user) + FieldLength(c.password)
           refused == c.client = <<>> \/ WillTooLong(will)
<1>1. s = IF refused THEN [status |-> "BadParameter", remaining |-> 0, size |-> 0]
          ELSE [status |-> "Success", remaining |-> n, size |-> n + 1 + RemainingLengthEncodedSize(n)]
  BY SMT DEF GetConnectPacketSize, WillLength, FieldLength, WillTooLong
<1> HIDE DEF refused, n, s
<1>2. IF refused THEN s.status = "BadParameter"
      ELSE s.status = "Success" /\ s.remaining = n /\ s.size = n + 1 + RemainingLengthEncodedSize(n)
  BY <1>1
<1> QED BY <1>2, Zenon DEF refused, n, s

LEMMA ConnectBodyIs ==
  ASSUME NEW c \in ConnectInfo, NEW will \in Optional(PublishInfo), ~WillTooLong(will)
  PROVE  /\ ConnectBody(c, will) \in Seq(Byte)
         /\ Len(ConnectBody(c, will)) =
              10 + Len(c.client) + 2 + WillLength(will) + FieldLength(c.user) + FieldLength(c.password)
         /\ Len(ConnectBody(c, will)) <= MaxRemaining
         /\ \A n \in Nat : n <= MaxRemaining =>
              /\ SerializeConnectPacket(c, will, n) = <<CONNECT>> \o EncodeRemainingLength(n) \o ConnectBody(c, will)
              /\ ConnectVectors(c, will, n) \in Seq(Seq(Byte)) /\ ConnectVectors(c, will, n) # <<>>
              /\ FlattenSeq(ConnectVectors(c, will, n)) = SerializeConnectPacket(c, will, n)
<1> DEFINE p == EncodeString(Protocol)
           f == <<4, ConnectFlags(c, will)>>
           k == U16(c.keepAlive)
           i == EncodeString(c.client)
           w == WillBytes(will)
           u == FieldBytes(c.user)
           q == FieldBytes(c.password)
<1>1. /\ c.keepAlive \in Word /\ c.client \in Text /\ c.user \in Optional(Text) /\ c.password \in Optional(Text)
  BY DEF ConnectInfo
<1>2. p \in Seq(Byte) /\ Len(p) = 6
  <2>1. 77 \in Byte /\ 81 \in Byte /\ 84 \in Byte BY ByteIs
  <2>2. Protocol \in Seq(Byte) /\ Len(Protocol) = 4 BY <2>1 DEF Protocol
  <2> DEFINE s == Protocol
             l == Len(s)
  <2> HIDE DEF s
  <2>3. s \in Seq(Byte) /\ l <= 65535 BY <2>2, SMT DEF s
  <2> HIDE DEF l
  <2>4. s \in Text BY <2>3, SMT DEF Text, l
  <2>5. EncodeString(s) \in Seq(Byte) /\ Len(EncodeString(s)) = 2 + Len(s) BY <2>4, StringIs
  <2>6. Len(s) = 4 BY <2>2 DEF s
  <2>7. Len(EncodeString(s)) = 6 BY <2>5, <2>6
  <2> QED BY <2>5, <2>7 DEF s
<1>3. f \in Seq(Byte) /\ Len(f) = 2
  <2>1. 4 \in Byte /\ ConnectFlags(c, will) \in Byte BY ByteIs, ConnectFlagsAre
  <2> QED BY <2>1
<1>4. k \in Seq(Byte) /\ Len(k) = 2 BY <1>1, WordBytes
<1>5. i \in Seq(Byte) /\ Len(i) = 2 + Len(c.client) BY <1>1, StringIs
<1>6. w \in Seq(Byte) /\ Len(w) = WillLength(will) /\ WillLength(will) \in Nat /\ WillLength(will) <= 131074 BY WillIs
<1>7. u \in Seq(Byte) /\ Len(u) = FieldLength(c.user) /\ FieldLength(c.user) \in Nat /\ FieldLength(c.user) <= 65537
  BY <1>1, OptionalIs
<1>8. q \in Seq(Byte) /\ Len(q) = FieldLength(c.password) /\ FieldLength(c.password) \in Nat /\ FieldLength(c.password) <= 65537
  BY <1>1, OptionalIs
<1>9. ConnectBody(c, will) = p \o f \o k \o i \o w \o u \o q BY Zenon DEF ConnectBody
<1>10. Len(c.client) \in Nat /\ Len(c.client) < 65536 BY <1>1, TextIs
<1> HIDE DEF p, f, k, i, w, u, q
<1>11. AllBytes(<<>>, p, f, k, i, w, u, q) BY <1>2, <1>3, <1>4, <1>5, <1>6, <1>7, <1>8, Nothing DEF AllBytes
<1>12. ConnectBody(c, will) \in Seq(Byte)
       /\ Len(ConnectBody(c, will)) = Len(p) + Len(f) + Len(k) + Len(i) + Len(w) + Len(u) + Len(q)
  <2>1. /\ p \o f \o k \o i \o w \o u \o q \in Seq(Byte)
        /\ Len(p \o f \o k \o i \o w \o u \o q) = Len(p) + Len(f) + Len(k) + Len(i) + Len(w) + Len(u) + Len(q)
    BY <1>11, Regroup
  <2> QED BY <1>9, <2>1, Zenon
<1>13. /\ Len(ConnectBody(c, will)) =
            10 + Len(c.client) + 2 + WillLength(will) + FieldLength(c.user) + FieldLength(c.password)
       /\ Len(ConnectBody(c, will)) <= MaxRemaining
  <2> DEFINE m == Len(ConnectBody(c, will))
             l0 == Len(c.client)
             l1 == WillLength(will)
             l2 == FieldLength(c.user)
             l3 == FieldLength(c.password)
  <2>1. m = 6 + 2 + 2 + (2 + l0) + l1 + l2 + l3 BY <1>2, <1>3, <1>4, <1>5, <1>6, <1>7, <1>8, <1>12
  <2>2. /\ l0 \in Nat /\ l0 < 65536 /\ l1 \in Nat /\ l1 <= 131074 /\ l2 \in Nat /\ l2 <= 65537 /\ l3 \in Nat /\ l3 <= 65537
    BY <1>6, <1>7, <1>8, <1>10, SMT
  <2> HIDE DEF m, l0, l1, l2, l3
  <2>3. m = 10 + l0 + 2 + l1 + l2 + l3 /\ m <= 268435455 BY <2>1, <2>2
  <2> QED BY <2>3, MaxRemainingIs, SMT DEF m, l0, l1, l2, l3
<1>14. ASSUME NEW n \in Nat, n <= MaxRemaining
       PROVE  /\ SerializeConnectPacket(c, will, n) = <<CONNECT>> \o EncodeRemainingLength(n) \o ConnectBody(c, will)
              /\ ConnectVectors(c, will, n) \in Seq(Seq(Byte)) /\ ConnectVectors(c, will, n) # <<>>
              /\ FlattenSeq(ConnectVectors(c, will, n)) = SerializeConnectPacket(c, will, n)
  <2> DEFINE h == <<CONNECT>> \o EncodeRemainingLength(n)
             fixed == SerializeConnectFixedHeader(c, will, n)
  <2>n. n \in Nat /\ n <= MaxRemaining BY <1>14
  <2>1. h \in Seq(Byte)
    <3> DEFINE t == CONNECT
    <3>1. t = 16 BY DEF CONNECT
    <3> HIDE DEF t
    <3>2. t \in Byte BY <3>1, ByteIs
    <3>3. <<t>> \o EncodeRemainingLength(n) \in Seq(Byte) BY <2>n, <3>2, HeadIs
    <3> QED BY <3>3 DEF t
  <2>2. fixed = h \o p \o f \o k BY Zenon DEF SerializeConnectFixedHeader, ConnectFlags, Protocol, p, f, k
  <2>3. SerializeConnectPacket(c, will, n) = fixed \o i \o w \o u \o q
    BY Zenon DEF SerializeConnectPacket, WillBytes, FieldBytes, i, w, u, q
  <2> HIDE DEF h, fixed
  <2>4. AllBytes(h, p, f, k, i, w, u, q) BY <1>2, <1>3, <1>4, <1>5, <1>6, <1>7, <1>8, <2>1 DEF AllBytes
  <2>5. h \o p \o f \o k \o i \o w \o u \o q = h \o (p \o f \o k \o i \o w \o u \o q) 
    <3>1. Regrouped(h, p, f, k, i, w, u, q) BY <2>4, Regroup
    <3> QED BY <3>1, Zenon DEF Regrouped
  <2>6. SerializeConnectPacket(c, will, n) = h \o ConnectBody(c, will) BY <1>9, <2>2, <2>3, <2>5, Zenon
  <2>7. fixed \in Seq(Byte)
    <3> DEFINE hp == h \o p
               hpf == hp \o f
    <3>1. hp \in Seq(Byte) BY <1>2, <2>1, CatBytes
    <3> HIDE DEF hp
    <3>2. hpf \in Seq(Byte) BY <1>3, <3>1, CatBytes
    <3> HIDE DEF hpf
    <3>3. hpf \o k \in Seq(Byte) BY <1>4, <3>2, CatBytes
    <3> QED BY <2>2, <3>3, Zenon DEF hp, hpf
  <2> DEFINE v0 == <<fixed>>
             v1 == EncodedString(c.client)
             v2 == WillVectors(will)
             v3 == FieldVectors(c.user)
             v4 == FieldVectors(c.password)
             v01 == v0 \o v1
             v02 == v01 \o v2
             v03 == v02 \o v3
  <2>8. ConnectVectors(c, will, n) = v03 \o v4 BY Zenon DEF ConnectVectors, WillVectors, FieldVectors, fixed
  <2>9. v0 \in Seq(Seq(Byte)) /\ FlattenSeq(v0) = fixed BY <2>7, OneVector
  <2>10. v1 \in Seq(Seq(Byte)) /\ v1 # <<>> /\ FlattenSeq(v1) = i BY <1>1, StringIs DEF i
  <2>11. v2 \in Seq(Seq(Byte)) /\ FlattenSeq(v2) = w BY WillIs DEF w
  <2>12. v3 \in Seq(Seq(Byte)) /\ FlattenSeq(v3) = u BY <1>1, OptionalIs DEF u
  <2>13. v4 \in Seq(Seq(Byte)) /\ FlattenSeq(v4) = q BY <1>1, OptionalIs DEF q
  <2> HIDE DEF v0, v1, v2, v3, v4
  <2>14. v01 \in Seq(Seq(Byte)) /\ FlattenSeq(v01) = fixed \o i BY <2>9, <2>10, CatVectors
  <2> HIDE DEF v01
  <2>15. v02 \in Seq(Seq(Byte)) /\ FlattenSeq(v02) = fixed \o i \o w BY <2>11, <2>14, CatVectors
  <2> HIDE DEF v02
  <2>16. v03 \in Seq(Seq(Byte)) /\ FlattenSeq(v03) = fixed \o i \o w \o u BY <2>12, <2>15, CatVectors
  <2> HIDE DEF v03
  <2>17. v03 \o v4 \in Seq(Seq(Byte)) /\ FlattenSeq(v03 \o v4) = fixed \o i \o w \o u \o q BY <2>13, <2>16, CatVectors
  <2>18. v03 \o v4 # <<>>
    <3>1. v0 # <<>> BY DEF v0
    <3>2. Len(v0) # 0 /\ Len(v0) \in Nat BY <2>9, <3>1, EmptySeq, LenProperties
    <3>3. Len(v01) = Len(v0) + Len(v1) /\ Len(v1) \in Nat BY <2>9, <2>10, ConcatProperties, LenProperties DEF v01
    <3>4. Len(v02) = Len(v01) + Len(v2) /\ Len(v2) \in Nat BY <2>11, <2>14, ConcatProperties, LenProperties DEF v02
    <3>5. Len(v03) = Len(v02) + Len(v3) /\ Len(v3) \in Nat BY <2>12, <2>15, ConcatProperties, LenProperties DEF v03
    <3>6. Len(v03 \o v4) = Len(v03) + Len(v4) /\ Len(v4) \in Nat BY <2>13, <2>16, ConcatProperties, LenProperties
    <3>7. Len(v03 \o v4) # 0 BY <3>2, <3>3, <3>4, <3>5, <3>6
    <3> QED BY <2>17, <3>7, EmptySeq
  <2> QED BY <2>3, <2>6, <2>8, <2>17, <2>18, Zenon DEF h
<1> QED BY <1>12, <1>13, <1>14

LEMMA JustFits ==
  ASSUME NEW n \in Nat
  PROVE  LET size == n + 1 + RemainingLengthEncodedSize(n)
         IN Fits(n, size) /\ size # NoBuffer /\ size \in Nat /\ size > n
<1> DEFINE k == RemainingLengthEncodedSize(n)
<1>1. k \in 1 .. 4 BY Sizes
<1> HIDE DEF k
<1>2. /\ 1 + k + n <= n + 1 + k /\ n + 1 + k # -1 /\ n + 1 + k \in Nat /\ n + 1 + k > n BY <1>1
<1> QED BY <1>2, Zenon DEF Fits, NoBuffer, k

ConnectRefused(c, will) == c.client = <<>> \/ WillTooLong(will) \/ (will # <<>> /\ will[1].topic = <<>>)

LEMMA ConnectCopied ==
  ASSUME JobIs, job.kind = "send", job.op = "connect"
  PROVE  LET n == Len(ConnectBody(job.c, job.will))
             s == GetConnectPacketSize(job.c, job.will)
             st == IF job.will # <<>> /\ job.will[1].topic = <<>> THEN "BadParameter" ELSE s.status
         IN IF ConnectRefused(job.c, job.will) THEN st = "BadParameter" /\ Copied = Refused("BadParameter")
            ELSE /\ st = "Success" /\ s.remaining = n /\ n \in Nat /\ n <= MaxRemaining /\ ~WillTooLong(job.will)
                 /\ Copied = Written(<<CONNECT>> \o EncodeRemainingLength(n) \o ConnectBody(job.c, job.will))
<1> DEFINE c == job.c
           w == job.will
           body == ConnectBody(c, w)
           n == Len(body)
           s == GetConnectPacketSize(c, w)
           b == <<CONNECT>> \o EncodeRemainingLength(n) \o body
           topicless == w # <<>> /\ w[1].topic = <<>>
           st == IF topicless THEN "BadParameter" ELSE s.status
           small == c.client = <<>> \/ WillTooLong(w)
<1>1. c \in ConnectInfo /\ w \in Optional(PublishInfo) BY Kinds DEF RequestOK
<1>2. Copied = IF s.status = "Success" THEN SerializeConnect(c, w, s.remaining, s.size) ELSE Refused(s.status)
  BY Zenon DEF Copied
<1>3. ConnectRefused(c, w) <=> small \/ topicless BY DEF ConnectRefused
<1>4. small => s.status = "BadParameter" BY ConnectSize, Zenon
<1>5. ASSUME ~small
      PROVE  /\ s.status = "Success" /\ s.remaining = n /\ s.size = n + 1 + RemainingLengthEncodedSize(n)
             /\ n \in Nat /\ n <= MaxRemaining /\ ~WillTooLong(w)
             /\ SerializeConnectPacket(c, w, n) = b
  <2>1. ~WillTooLong(w) BY <1>5
  <2>2. /\ body \in Seq(Byte) /\ n <= MaxRemaining
        /\ n = 10 + Len(c.client) + 2 + WillLength(w) + FieldLength(c.user) + FieldLength(c.password)
        /\ \A m \in Nat : m <= MaxRemaining => SerializeConnectPacket(c, w, m) = <<CONNECT>> \o EncodeRemainingLength(m) \o body
    BY <1>1, <2>1, ConnectBodyIs
  <2>3. s.status = "Success" /\ s.remaining = n /\ s.size = n + 1 + RemainingLengthEncodedSize(n)
    <3> DEFINE e == 10 + Len(c.client) + 2 + WillLength(w) + FieldLength(c.user) + FieldLength(c.password)
    <3>1. s.status = "Success" /\ s.remaining = e /\ s.size = e + 1 + RemainingLengthEncodedSize(e)
      BY <1>5, ConnectSize, Zenon
    <3>2. n = e BY <2>2
    <3> HIDE DEF e, n, s
    <3> QED BY <3>1, <3>2
  <2>4. n \in Nat BY <2>2, LenProperties
  <2> QED BY <2>1, <2>2, <2>3, <2>4, Zenon
<1>6. ASSUME ~small
      PROVE  Copied = IF topicless THEN Refused("BadParameter") ELSE Written(b)
  <2>1. Fits(n, s.size) /\ s.size # NoBuffer BY <1>5, <1>6, JustFits, Zenon
  <2>2. SerializeConnect(c, w, n, s.size) = IF topicless THEN Refused("BadParameter") ELSE Written(b)
    BY <1>5, <1>6, <2>1, Zenon DEF SerializeConnect
  <2> QED BY <1>2, <1>5, <1>6, <2>2, Zenon
<1>7. small => Copied = Refused("BadParameter")
  <2>1. "BadParameter" # "Success" OBVIOUS
  <2> QED BY <1>2, <1>4, <2>1, Zenon
<1> HIDE DEF b, n, s, topicless, small
<1>8. IF ConnectRefused(c, w) THEN st = "BadParameter" /\ Copied = Refused("BadParameter")
      ELSE st = "Success" /\ s.remaining = n /\ n \in Nat /\ n <= MaxRemaining /\ ~WillTooLong(w) /\ Copied = Written(b)
  BY <1>3, <1>4, <1>5, <1>6, <1>7, Zenon
<1> QED BY <1>8, Zenon DEF b, n, s, topicless

LEMMA ConnectMakes ==
  ASSUME JobIs, job.kind = "send", job.op = "connect"
  PROVE  LET s == GetConnectPacketSize(job.c, job.will)
             st == IF job.will # <<>> /\ job.will[1].topic = <<>> THEN "BadParameter" ELSE s.status
         IN Makes(st, <<ConnectVectors(job.c, job.will, s.remaining)>>, <<>>)
<1> DEFINE c == job.c
           w == job.will
           body == ConnectBody(c, w)
           n == Len(body)
           s == GetConnectPacketSize(c, w)
           st == IF w # <<>> /\ w[1].topic = <<>> THEN "BadParameter" ELSE s.status
           b == <<CONNECT>> \o EncodeRemainingLength(n) \o body
           v == ConnectVectors(c, w, s.remaining)
<1>1. c \in ConnectInfo /\ w \in Optional(PublishInfo) BY Kinds DEF RequestOK
<1>2. CASE ConnectRefused(c, w)
  <2>1. st = "BadParameter" /\ Copied = Refused("BadParameter") BY <1>2, ConnectCopied, Zenon
  <2> HIDE DEF st, v
  <2>2. Makes(st, <<v>>, <<>>) BY <2>1, Nothing DEF Makes, Refused
  <2> QED BY <2>2, Zenon DEF st, s, v, c, w
<1>3. CASE ~ConnectRefused(c, w)
  <2>1. st = "Success" /\ s.remaining = n /\ n \in Nat /\ n <= MaxRemaining /\ ~WillTooLong(w) /\ Copied = Written(b)
    BY <1>3, ConnectCopied, Zenon
  <2>2. /\ v \in Seq(Seq(Byte)) /\ v # <<>> /\ FlattenSeq(v) = SerializeConnectPacket(c, w, n)
        /\ SerializeConnectPacket(c, w, n) = b
    BY <1>1, <2>1, ConnectBodyIs
  <2> HIDE DEF st, v, b
  <2>3. <<v>> \in Batches /\ <<v>> # <<>> /\ FlattenSeq(FlattenSeq(<<v>>)) = b BY <2>2, OneBatch
  <2>4. b \in Seq(Byte) BY <2>2, FlatBytes
  <2>5. Copied.status = "Success" /\ Copied.bytes = b BY <2>1 DEF Written
  <2>6. Makes(st, <<v>>, <<>>) BY <2>1, <2>3, <2>4, <2>5, Nothing DEF Makes
  <2> QED BY <2>6, Zenon DEF st, s, v, c, w
<1> QED BY <1>2, <1>3

-----------------------------------------------------------------------------
(* MQTT_Subscribe and MQTT_Unsubscribe                                     *)

\* The topics of a list, each followed by width bytes.
TopicBytes(x, width) == IF width = 0 THEN EncodeString(x.filter) ELSE EncodeString(x.filter) \o <<x.qos>>
TopicList(list, width) == [i \in 1 .. Len(list) |-> TopicBytes(list[i], width)]
ListBody(list, id, width) == U16(id) \o FlattenSeq(TopicList(list, width))

LEMMA TopicIs ==
  ASSUME NEW x \in Subscription, NEW width \in {0, 1}
  PROVE  /\ TopicBytes(x, width) \in Seq(Byte) /\ Len(TopicBytes(x, width)) = Len(x.filter) + 2 + width
         /\ x.filter \in Text /\ x.qos \in Byte /\ Len(x.filter) \in Nat
<1> DEFINE s == EncodeString(x.filter)
<1>1. x.filter \in Text /\ x.qos \in 0 .. 2 BY DEF Subscription
<1>2. x.qos \in Byte BY <1>1, ByteIs
<1>3. s \in Seq(Byte) /\ Len(s) = 2 + Len(x.filter) /\ Len(x.filter) \in Nat BY <1>1, StringIs, TextIs
<1> HIDE DEF s
<1>4. <<x.qos>> \in Seq(Byte) /\ Len(<<x.qos>>) = 1 BY <1>2
<1>5. s \o <<x.qos>> \in Seq(Byte) /\ Len(s \o <<x.qos>>) = Len(s) + 1 BY <1>3, <1>4, CatBytes
<1>6. CASE width = 0
  <2>1. TopicBytes(x, width) = s BY <1>6 DEF TopicBytes, s
  <2>2. Len(s) = Len(x.filter) + 2 + width BY <1>3, <1>6
  <2> QED BY <1>1, <1>2, <1>3, <2>1, <2>2
<1>7. CASE width = 1
  <2>1. TopicBytes(x, width) = s \o <<x.qos>> BY <1>7 DEF TopicBytes, s
  <2>2. Len(s \o <<x.qos>>) = Len(x.filter) + 2 + width BY <1>3, <1>5, <1>7
  <2> QED BY <1>1, <1>2, <1>3, <1>5, <2>1, <2>2
<1> QED BY <1>6, <1>7

LEMMA TopicListIs ==
  ASSUME NEW list \in Seq(Subscription), NEW width \in {0, 1}
  PROVE  /\ TopicList(list, width) \in Seq(Seq(Byte)) /\ Len(TopicList(list, width)) = Len(list)
         /\ \A i \in 1 .. Len(list) : /\ TopicList(list, width)[i] = TopicBytes(list[i], width)
                                      /\ list[i] \in Subscription
<1> DEFINE T == TopicList(list, width)
           L == Len(list)
<1>1. L \in Nat BY LenProperties
<1>2. \A i \in 1 .. L : list[i] \in Subscription BY ElementOfSeq
<1>3. T = [i \in 1 .. L |-> TopicBytes(list[i], width)] BY DEF TopicList
<1>4. \A i \in 1 .. L : T[i] = TopicBytes(list[i], width) /\ T[i] \in Seq(Byte) BY <1>2, <1>3, TopicIs
<1>5. DOMAIN T = 1 .. L /\ T = [i \in 1 .. L |-> T[i]] BY <1>3
<1> HIDE DEF T, L
<1>6. T \in Seq(Seq(Byte)) /\ Len(T) = L BY <1>1, <1>4, <1>5, ASequence
<1> QED BY <1>2, <1>4, <1>6 DEF T, L

\* What the recursion over the list of topics adds up.
LEMMA TopicsSum ==
  ASSUME NEW list \in Seq(Subscription), NEW width \in {0, 1}
  PROVE  LET sum == CHOOSE f : f = [i \in 0 .. Len(list) |-> IF i = 0 THEN 2 ELSE f[i - 1] + Len(list[i].filter) + 2 + width]
         IN sum[Len(list)] = 2 + Len(FlattenSeq(TopicList(list, width)))
<1> DEFINE L == Len(list)
           T == TopicList(list, width)
           body(f, i) == IF i = 0 THEN 2 ELSE f[i - 1] + Len(list[i].filter) + 2 + width
           sum == CHOOSE f : f = [i \in 0 .. L |-> body(f, i)]
           g == [i \in 0 .. L |-> 2 + Len(FlattenSeq(SubSeq(T, 1, i)))]
<1>1. L \in Nat /\ width \in Nat BY LenProperties
<1>2. T \in Seq(Seq(Byte)) /\ Len(T) = L BY TopicListIs
<1>3. \A i \in 1 .. L : T[i] = TopicBytes(list[i], width) /\ list[i] \in Subscription BY TopicListIs
<1> HIDE DEF T
<1>4. g[0] = 2
  <2>1. SubSeq(T, 1, 0) = <<>> BY <1>2
  <2>2. 0 \in 0 .. L BY <1>1
  <2>3. Len(FlattenSeq(<<>>)) = 0 BY Nothing
  <2> DEFINE n == Len(FlattenSeq(SubSeq(T, 1, 0)))
  <2>4. g[0] = 2 + n BY <2>2
  <2>5. n = 0 BY <2>1, <2>3, Zenon
  <2> HIDE DEF g, n
  <2> QED BY <2>4, <2>5
<1>5. ASSUME NEW i \in 1 .. L PROVE g[i] = g[i - 1] + Len(list[i].filter) + 2 + width
  <2> DEFINE a == Len(FlattenSeq(SubSeq(T, 1, i - 1)))
             b == Len(FlattenSeq(SubSeq(T, 1, i)))
             l == Len(list[i].filter)
             front == SubSeq(T, 1, i - 1)
  <2>1. front \in Seq(Seq(Byte)) /\ T[i] \in Seq(Byte) /\ FlattenSeq(SubSeq(T, 1, i)) = FlattenSeq(front) \o T[i]
    BY <1>2, SplitAt
  <2>2. FlattenSeq(front) \in Seq(Byte) BY <2>1, FlatBytes
  <2>3. Len(FlattenSeq(front) \o T[i]) = Len(FlattenSeq(front)) + Len(T[i]) BY <2>1, <2>2, CatBytes
  <2>4. Len(T[i]) = l + 2 + width /\ l \in Nat BY <1>3, TopicIs
  <2>5. g[i] = 2 + b /\ g[i - 1] = 2 + a
    <3>1. i \in 0 .. L /\ i - 1 \in 0 .. L BY <1>1
    <3> QED BY <3>1
  <2>6. a \in Nat /\ b = a + (l + 2 + width) BY <2>1, <2>2, <2>3, <2>4, LenProperties
  <2>7. width \in Nat /\ l \in Nat BY <1>1, <2>4
  <2> HIDE DEF a, b, l, g
  <2>8. g[i] = g[i - 1] + l + 2 + width BY <2>5, <2>6, <2>7
  <2> QED BY <2>8 DEF l
<1>6. g = [i \in 0 .. L |-> body(g, i)]
  <2>1. g = [i \in 0 .. L |-> g[i]] OBVIOUS
  <2> HIDE DEF g
  <2>2. ASSUME NEW i \in 0 .. L PROVE g[i] = body(g, i)
    <3>1. CASE i = 0 BY <1>4, <3>1
    <3>2. CASE i # 0
      <4>1. i \in 1 .. L BY <1>1, <3>2
      <4> QED BY <1>5, <3>2, <4>1
    <3> QED BY <3>1, <3>2
  <2> QED BY <2>1, <2>2
<1>7. sum = [i \in 0 .. L |-> body(sum, i)]
  <2> HIDE DEF g
  <2> QED BY <1>6
<1> HIDE DEF sum
<1>8. \A i \in 0 .. L : sum[i] = g[i]
  <2> DEFINE E == {i \in Nat : i <= L => sum[i] = g[i]}
  <2>1. 0 \in E
    <3>1. 0 \in 0 .. L BY <1>1
    <3>2. sum[0] = 2 BY <1>7, <3>1
    <3> HIDE DEF g
    <3> QED BY <1>4, <3>2
  <2>2. ASSUME NEW m \in Nat, m \in E PROVE m + 1 \in E
    <3> SUFFICES ASSUME m + 1 <= L PROVE sum[m + 1] = g[m + 1] OBVIOUS
    <3> DEFINE i == m + 1
    <3>1. i \in 1 .. L /\ i \in 0 .. L /\ i # 0 /\ i - 1 = m /\ m <= L BY <1>1
    <3>2. sum[m] = g[m] BY <2>2, <3>1
    <3> HIDE DEF i, g
    <3>3. sum[i] = sum[i - 1] + Len(list[i].filter) + 2 + width BY <1>7, <3>1
    <3>4. g[i] = g[i - 1] + Len(list[i].filter) + 2 + width BY <1>5, <3>1
    <3>5. sum[i] = g[i] BY <3>1, <3>2, <3>3, <3>4
    <3> QED BY <3>5 DEF i
  <2>3. Nat \subseteq E
    <3> HIDE DEF E
    <3> QED BY <2>1, <2>2, NatInduct
  <2> HIDE DEF g
  <2> QED BY <1>1, <2>3
<1>9. sum[L] = 2 + Len(FlattenSeq(T))
  <2>1. L \in 0 .. L BY <1>1
  <2>2. SubSeq(T, 1, L) = T BY <1>2, SubSeqFull
  <2>3. g[L] = 2 + Len(FlattenSeq(SubSeq(T, 1, L))) BY <2>1
  <2> HIDE DEF g
  <2> QED BY <1>8, <2>1, <2>2, <2>3
<1> QED BY <1>9 DEF T, sum

ListRefused(list, id, width) ==
  \/ list = <<>> \/ id = 0 \/ Len(ListBody(list, id, width)) > MaxRemaining
  \/ \E i \in DOMAIN list : list[i].filter = <<>>

LEMMA ListBodyIs ==
  ASSUME NEW list \in Seq(Subscription), NEW width \in {0, 1}, NEW id \in Word
  PROVE  /\ ListBody(list, id, width) \in Seq(Byte)
         /\ Len(ListBody(list, id, width)) = 2 + Len(FlattenSeq(TopicList(list, width)))
         /\ Len(ListBody(list, id, width)) \in Nat
<1> DEFINE u == U16(id)
           f == FlattenSeq(TopicList(list, width))
<1>1. u \in Seq(Byte) /\ Len(u) = 2 BY WordBytes
<1>2. f \in Seq(Byte) BY TopicListIs, FlatBytes
<1>3. ListBody(list, id, width) = u \o f BY DEF ListBody
<1> HIDE DEF u, f
<1>4. u \o f \in Seq(Byte) /\ Len(u \o f) = Len(u) + Len(f) BY <1>1, <1>2, CatBytes
<1>5. Len(f) \in Nat BY <1>2, LenProperties
<1>6. Len(u \o f) = 2 + Len(f) /\ Len(u \o f) \in Nat BY <1>1, <1>4, <1>5
<1> QED BY <1>3, <1>4, <1>6 DEF f

LEMMA ListSize ==
  ASSUME NEW list \in Seq(Subscription), NEW width \in {0, 1}, NEW id \in Word
  PROVE  LET s == CalculateSubscriptionPacketSize(list, width)
             n == Len(ListBody(list, id, width))
         IN IF n > MaxRemaining \/ \E i \in DOMAIN list : list[i].filter = <<>> THEN s.status = "BadParameter"
            ELSE s.status = "Success" /\ s.remaining = n /\ s.size = n + 1 + RemainingLengthEncodedSize(n)
<1> DEFINE s == CalculateSubscriptionPacketSize(list, width)
           n == Len(ListBody(list, id, width))
           sum == CHOOSE f : f = [i \in 0 .. Len(list) |-> IF i = 0 THEN 2 ELSE f[i - 1] + Len(list[i].filter) + 2 + width]
           m == sum[Len(list)]
           nameless == \E i \in DOMAIN list : list[i].filter = <<>>
<1>1. s = IF m > MaxRemaining \/ nameless THEN [status |-> "BadParameter", remaining |-> 0, size |-> 0]
          ELSE [status |-> "Success", remaining |-> m, size |-> m + 1 + RemainingLengthEncodedSize(m)]
  BY Zenon DEF CalculateSubscriptionPacketSize
<1>2. m = 2 + Len(FlattenSeq(TopicList(list, width))) BY TopicsSum, Zenon
<1>3. n = 2 + Len(FlattenSeq(TopicList(list, width))) BY ListBodyIs, Zenon
<1>4. m = n BY <1>2, <1>3, Zenon
<1> HIDE DEF s, n, m, nameless
<1>5. IF n > MaxRemaining \/ nameless THEN s.status = "BadParameter"
      ELSE s.status = "Success" /\ s.remaining = n /\ s.size = n + 1 + RemainingLengthEncodedSize(n)
  BY <1>1, <1>4
<1> QED BY <1>5, Zenon DEF s, n, nameless

LEMMA SubscribeCopied ==
  ASSUME JobIs, job.kind = "send", job.op = "subscribe"
  PROVE  LET n == Len(ListBody(job.list, job.id, 1))
             s == GetSubscribePacketSize(job.list)
             st == IF job.id = 0 THEN "BadParameter" ELSE s.status
         IN IF ListRefused(job.list, job.id, 1) THEN st = "BadParameter" /\ Copied = Refused("BadParameter")
            ELSE /\ st = "Success" /\ s.remaining = n /\ n \in Nat /\ n <= MaxRemaining
                 /\ Copied = Written(<<SUBSCRIBE>> \o EncodeRemainingLength(n) \o ListBody(job.list, job.id, 1))
<1> DEFINE list == job.list
           id == job.id
           body == ListBody(list, id, 1)
           n == Len(body)
           s == GetSubscribePacketSize(list)
           h == <<SUBSCRIBE>> \o EncodeRemainingLength(n)
           st == IF id = 0 THEN "BadParameter" ELSE s.status
           small == list = <<>> \/ n > MaxRemaining \/ \E i \in DOMAIN list : list[i].filter = <<>>
<1>1. list \in Seq(Subscription) /\ id \in Word BY Kinds DEF RequestOK
<1>2. Copied = IF s.status = "Success" THEN SerializeSubscribe(list, id, s.remaining, s.size) ELSE Refused(s.status)
  BY Zenon DEF Copied
<1>3. ListRefused(list, id, 1) <=> small \/ id = 0 BY DEF ListRefused
<1>4. body \in Seq(Byte) /\ n \in Nat BY <1>1, ListBodyIs
<1>5. small => s.status = "BadParameter"
  <2>1. list = <<>> => s.status = "BadParameter" BY DEF GetSubscribePacketSize, NoSubscription
  <2>2. list # <<>> => s = CalculateSubscriptionPacketSize(list, 1) BY DEF GetSubscribePacketSize
  <2>3. small /\ list # <<>> => s.status = "BadParameter" BY <1>1, <2>2, ListSize, Zenon
  <2> QED BY <2>1, <2>3
<1>6. ~small => s.status = "Success" /\ s.remaining = n /\ s.size = n + 1 + RemainingLengthEncodedSize(n) /\ n <= MaxRemaining
  <2>1. ~small => s = CalculateSubscriptionPacketSize(list, 1) BY DEF GetSubscribePacketSize
  <2>2. ~small => s.status = "Success" /\ s.remaining = n /\ s.size = n + 1 + RemainingLengthEncodedSize(n)
    BY <1>1, <2>1, ListSize, Zenon
  <2>3. ~(n > MaxRemaining) => n <= MaxRemaining
    <3>1. MaxRemaining \in Nat BY MaxRemainingIs, SMT
    <3> HIDE DEF n
    <3> QED BY <1>4, <3>1
  <2> QED BY <2>2, <2>3, Zenon
<1>7. ASSUME ~small
      PROVE  SerializeSubscribe(list, id, n, s.size) = IF id = 0 THEN Refused("BadParameter") ELSE Written(h \o body)
  <2>1. Fits(n, s.size) /\ s.size # NoBuffer BY <1>4, <1>6, <1>7, JustFits, Zenon
  <2>2. list # <<>> BY <1>7
  <2>3. ValidateSubscription(list, id, n, s.size) = IF id = 0 THEN "BadParameter" ELSE "Success"
    BY <2>1, <2>2, Zenon DEF ValidateSubscription
  <2>4. DOMAIN list = 1 .. Len(list) BY <1>1
  <2>5. [i \in DOMAIN list |-> EncodeString(list[i].filter) \o <<list[i].qos>>] = TopicList(list, 1)
    <3>1. \A x : TopicBytes(x, 1) = EncodeString(x.filter) \o <<x.qos>> BY DEF TopicBytes
    <3> QED BY <2>4, <3>1 DEF TopicList
  <2>6. SerializeSubscribeHeader(n, id) \o FlattenSeq(TopicList(list, 1)) = h \o body
    <3> DEFINE u == U16(id)
               f == FlattenSeq(TopicList(list, 1))
    <3>1. u \in Seq(Byte) /\ f \in Seq(Byte) BY <1>1, WordBytes, TopicListIs, FlatBytes
    <3>2. h \in Seq(Byte)
      <4> DEFINE t == SUBSCRIBE
      <4>1. t = 130 BY DEF SUBSCRIBE
      <4> HIDE DEF t, n
      <4>2. t \in Byte BY <4>1, ByteIs
      <4>3. <<t>> \o EncodeRemainingLength(n) \in Seq(Byte) BY <1>4, <1>6, <1>7, <4>2, HeadIs
      <4> QED BY <4>3 DEF t
    <3>3. SerializeSubscribeHeader(n, id) = h \o u /\ body = u \o f BY Zenon DEF SerializeSubscribeHeader, ListBody
    <3> HIDE DEF u, f, h, body
    <3>4. (h \o u) \o f = h \o (u \o f) BY <3>1, <3>2, Joins
    <3> QED BY <3>3, <3>4, Zenon DEF f
  <2>7. "Success" # "BadParameter" OBVIOUS
  <2>8. CASE id = 0
    <3>1. ValidateSubscription(list, id, n, s.size) = "BadParameter" BY <2>3, <2>8
    <3>2. SerializeSubscribe(list, id, n, s.size) = Refused("BadParameter") BY <2>7, <3>1, Zenon DEF SerializeSubscribe
    <3> QED BY <2>8, <3>2, Zenon
  <2>9. CASE id # 0
    <3>1. ValidateSubscription(list, id, n, s.size) = "Success" BY <2>3, <2>9
    <3>2. SerializeSubscribe(list, id, n, s.size) = Written(h \o body)
      BY <2>5, <2>6, <3>1, Zenon DEF SerializeSubscribe
    <3> QED BY <2>9, <3>2, Zenon
  <2> QED BY <2>8, <2>9
<1>8. "BadParameter" # "Success" OBVIOUS
<1> HIDE DEF small, s, h, n
<1>9. IF ListRefused(list, id, 1) THEN st = "BadParameter" /\ Copied = Refused("BadParameter")
      ELSE st = "Success" /\ s.remaining = n /\ n \in Nat /\ n <= MaxRemaining /\ Copied = Written(h \o body)
  <2>1. CASE small BY <1>2, <1>3, <1>5, <1>8, <2>1, Zenon
  <2>2. CASE ~small BY <1>2, <1>3, <1>4, <1>6, <1>7, <1>8, <2>2, Zenon
  <2> QED BY <2>1, <2>2
<1> QED BY <1>9, Zenon DEF s, h, n

LEMMA UnsubscribeCopied ==
  ASSUME JobIs, job.kind = "send", job.op = "unsubscribe"
  PROVE  LET n == Len(ListBody(job.list, job.id, 0))
             s == GetUnsubscribePacketSize(job.list)
             st == IF job.id = 0 THEN "BadParameter" ELSE s.status
         IN IF ListRefused(job.list, job.id, 0) THEN st = "BadParameter" /\ Copied = Refused("BadParameter")
            ELSE /\ st = "Success" /\ s.remaining = n /\ n \in Nat /\ n <= MaxRemaining
                 /\ Copied = Written(<<UNSUBSCRIBE>> \o EncodeRemainingLength(n) \o ListBody(job.list, job.id, 0))
<1> DEFINE list == job.list
           id == job.id
           body == ListBody(list, id, 0)
           n == Len(body)
           s == GetUnsubscribePacketSize(list)
           h == <<UNSUBSCRIBE>> \o EncodeRemainingLength(n)
           st == IF id = 0 THEN "BadParameter" ELSE s.status
           small == list = <<>> \/ n > MaxRemaining \/ \E i \in DOMAIN list : list[i].filter = <<>>
<1>1. list \in Seq(Subscription) /\ id \in Word BY Kinds DEF RequestOK
<1>2. Copied = IF s.status = "Success" THEN SerializeUnsubscribe(list, id, s.remaining, s.size) ELSE Refused(s.status)
  BY Zenon DEF Copied
<1>3. ListRefused(list, id, 0) <=> small \/ id = 0 BY DEF ListRefused
<1>4. body \in Seq(Byte) /\ n \in Nat BY <1>1, ListBodyIs
<1>5. small => s.status = "BadParameter"
  <2>1. list = <<>> => s.status = "BadParameter" BY DEF GetUnsubscribePacketSize, NoSubscription
  <2>2. list # <<>> => s = CalculateSubscriptionPacketSize(list, 0) BY DEF GetUnsubscribePacketSize
  <2>3. small /\ list # <<>> => s.status = "BadParameter" BY <1>1, <2>2, ListSize, Zenon
  <2> QED BY <2>1, <2>3
<1>6. ~small => s.status = "Success" /\ s.remaining = n /\ s.size = n + 1 + RemainingLengthEncodedSize(n) /\ n <= MaxRemaining
  <2>1. ~small => s = CalculateSubscriptionPacketSize(list, 0) BY DEF GetUnsubscribePacketSize
  <2>2. ~small => s.status = "Success" /\ s.remaining = n /\ s.size = n + 1 + RemainingLengthEncodedSize(n)
    BY <1>1, <2>1, ListSize, Zenon
  <2>3. ~(n > MaxRemaining) => n <= MaxRemaining
    <3>1. MaxRemaining \in Nat BY MaxRemainingIs, SMT
    <3> HIDE DEF n
    <3> QED BY <1>4, <3>1
  <2> QED BY <2>2, <2>3, Zenon
<1>7. ASSUME ~small
      PROVE  SerializeUnsubscribe(list, id, n, s.size) = IF id = 0 THEN Refused("BadParameter") ELSE Written(h \o body)
  <2>1. Fits(n, s.size) /\ s.size # NoBuffer BY <1>4, <1>6, <1>7, JustFits, Zenon
  <2>2. list # <<>> BY <1>7
  <2>3. ValidateSubscription(list, id, n, s.size) = IF id = 0 THEN "BadParameter" ELSE "Success"
    BY <2>1, <2>2, Zenon DEF ValidateSubscription
  <2>4. DOMAIN list = 1 .. Len(list) BY <1>1
  <2>5. [i \in DOMAIN list |-> EncodeString(list[i].filter)] = TopicList(list, 0)
    <3>1. \A x : TopicBytes(x, 0) = EncodeString(x.filter) BY DEF TopicBytes
    <3> QED BY <2>4, <3>1 DEF TopicList
  <2>6. SerializeUnsubscribeHeader(n, id) \o FlattenSeq(TopicList(list, 0)) = h \o body
    <3> DEFINE u == U16(id)
               f == FlattenSeq(TopicList(list, 0))
    <3>1. u \in Seq(Byte) /\ f \in Seq(Byte) BY <1>1, WordBytes, TopicListIs, FlatBytes
    <3>2. h \in Seq(Byte)
      <4> DEFINE t == UNSUBSCRIBE
      <4>1. t = 162 BY DEF UNSUBSCRIBE
      <4> HIDE DEF t, n
      <4>2. t \in Byte BY <4>1, ByteIs
      <4>3. <<t>> \o EncodeRemainingLength(n) \in Seq(Byte) BY <1>4, <1>6, <1>7, <4>2, HeadIs
      <4> QED BY <4>3 DEF t
    <3>3. SerializeUnsubscribeHeader(n, id) = h \o u /\ body = u \o f BY Zenon DEF SerializeUnsubscribeHeader, ListBody
    <3> HIDE DEF u, f, h, body
    <3>4. (h \o u) \o f = h \o (u \o f) BY <3>1, <3>2, Joins
    <3> QED BY <3>3, <3>4, Zenon DEF f
  <2>7. "Success" # "BadParameter" OBVIOUS
  <2>8. CASE id = 0
    <3>1. ValidateSubscription(list, id, n, s.size) = "BadParameter" BY <2>3, <2>8
    <3>2. SerializeUnsubscribe(list, id, n, s.size) = Refused("BadParameter") BY <2>7, <3>1, Zenon DEF SerializeUnsubscribe
    <3> QED BY <2>8, <3>2, Zenon
  <2>9. CASE id # 0
    <3>1. ValidateSubscription(list, id, n, s.size) = "Success" BY <2>3, <2>9
    <3>2. SerializeUnsubscribe(list, id, n, s.size) = Written(h \o body)
      BY <2>5, <2>6, <3>1, Zenon DEF SerializeUnsubscribe
    <3> QED BY <2>9, <3>2, Zenon
  <2> QED BY <2>8, <2>9
<1>8. "BadParameter" # "Success" OBVIOUS
<1> HIDE DEF small, s, h, n
<1>9. IF ListRefused(list, id, 0) THEN st = "BadParameter" /\ Copied = Refused("BadParameter")
      ELSE st = "Success" /\ s.remaining = n /\ n \in Nat /\ n <= MaxRemaining /\ Copied = Written(h \o body)
  <2>1. CASE small BY <1>2, <1>3, <1>5, <1>8, <2>1, Zenon
  <2>2. CASE ~small BY <1>2, <1>3, <1>4, <1>6, <1>7, <1>8, <2>2, Zenon
  <2> QED BY <2>1, <2>2
<1> QED BY <1>9, Zenon DEF s, h, n

\* The header goes out with the first topic.
LEMMA FirstPrefixed ==
  ASSUME NEW ss \in Seq(Seq(Byte)), ss # <<>>, NEW h \in Seq(Byte)
  PROVE  FlattenSeq([i \in 1 .. Len(ss) |-> IF i = 1 THEN h \o ss[i] ELSE ss[i]]) = h \o FlattenSeq(ss)
<1> DEFINE V == Seq(Byte)
           L == Len(ss)
           tt == [i \in 1 .. L |-> IF i = 1 THEN h \o ss[i] ELSE ss[i]]
           rest == Tail(ss)
           x == Head(ss)
<1>1. ss \in Seq(V) /\ L \in Nat /\ L # 0 BY EmptySeq, LenProperties
<1>2. x \in V /\ rest \in Seq(V) /\ Len(rest) = L - 1 /\ \A i \in 1 .. Len(rest) : rest[i] = ss[i + 1]
  <2> HIDE DEF V
  <2> QED BY <1>1, HeadTailProperties
<1>3. x = ss[1] OBVIOUS
<1>4. h \o x \in V BY <1>2, CatBytes
<1> DEFINE y == h \o x
<1> HIDE DEF x, rest, y
<1>5. y \in V BY <1>4 DEF y
<1>6. ss = <<x>> \o rest
  <2>1. <<x>> \in Seq(V) /\ Len(<<x>>) = 1 /\ <<x>>[1] = x BY <1>2
  <2> HIDE DEF V, L
  <2>2. <<x>> \o rest \in Seq(V) /\ Len(<<x>> \o rest) = L
        /\ \A i \in 1 .. L : (<<x>> \o rest)[i] = IF i <= 1 THEN <<x>>[i] ELSE rest[i - 1]
    BY <1>1, <1>2, <2>1, ConcatProperties
  <2>3. \A i \in 1 .. L : (<<x>> \o rest)[i] = ss[i]
    <3> SUFFICES ASSUME NEW i \in 1 .. L PROVE (<<x>> \o rest)[i] = ss[i] OBVIOUS
    <3>1. CASE i = 1 BY <1>3, <2>1, <2>2, <3>1
    <3>2. CASE i # 1
      <4>1. i - 1 \in 1 .. Len(rest) /\ ~(i <= 1) /\ (i - 1) + 1 = i BY <1>1, <1>2, <3>2
      <4>2. rest[i - 1] = ss[i] BY <1>2, <4>1
      <4> QED BY <2>2, <4>1, <4>2
    <3> QED BY <3>1, <3>2
  <2> QED BY <1>1, <2>2, <2>3, SeqEqual DEF L
<1>7. tt = <<y>> \o rest
  <2>0. \A i \in 1 .. L : tt[i] = IF i = 1 THEN y ELSE ss[i] BY <1>3 DEF y
  <2>1. <<y>> \in Seq(V) /\ Len(<<y>>) = 1 /\ <<y>>[1] = y BY <1>5
  <2>t. tt \in Seq(V) /\ Len(tt) = L
    <3>1. \A i \in 1 .. L : ss[i] \in V BY <1>1, ElementOfSeq
    <3>2. \A i \in 1 .. L : tt[i] \in V BY <1>5, <2>0, <3>1
    <3>3. DOMAIN tt = 1 .. L /\ tt = [i \in 1 .. L |-> tt[i]] OBVIOUS
    <3>4. L \in Nat BY <1>1
    <3> HIDE DEF tt, V, L
    <3> QED BY <3>4, <3>2, <3>3, ASequence
  <2> HIDE DEF V, L, tt
  <2>2. <<y>> \o rest \in Seq(V) /\ Len(<<y>> \o rest) = L
        /\ \A i \in 1 .. L : (<<y>> \o rest)[i] = IF i <= 1 THEN <<y>>[i] ELSE rest[i - 1]
    BY <1>1, <1>2, <2>1, ConcatProperties
  <2>3. \A i \in 1 .. L : (<<y>> \o rest)[i] = tt[i]
    <3> SUFFICES ASSUME NEW i \in 1 .. L PROVE (<<y>> \o rest)[i] = tt[i] OBVIOUS
    <3>1. CASE i = 1 BY <2>0, <2>1, <2>2, <3>1
    <3>2. CASE i # 1
      <4>1. i - 1 \in 1 .. Len(rest) /\ ~(i <= 1) /\ (i - 1) + 1 = i BY <1>1, <1>2, <3>2
      <4>2. rest[i - 1] = ss[i] BY <1>2, <4>1
      <4> QED BY <2>0, <2>2, <3>2, <4>1, <4>2
    <3> QED BY <3>1, <3>2
  <2> QED BY <2>t, <2>2, <2>3, SeqEqual
<1>8. FlattenSeq(tt) = y \o FlattenSeq(rest)
  <2>1. FlattenSeq(<<y>> \o rest) = y \o FlattenSeq(rest) BY <1>2, <1>5, FlatCons
  <2> QED BY <1>7, <2>1, Zenon
<1>9. FlattenSeq(ss) = x \o FlattenSeq(rest)
  <2>1. FlattenSeq(<<x>> \o rest) = x \o FlattenSeq(rest) BY <1>2, FlatCons
  <2> QED BY <1>6, <2>1, Zenon
<1>10. FlattenSeq(rest) \in Seq(Byte) BY <1>2, FlatBytes
<1>11. (h \o x) \o FlattenSeq(rest) = h \o (x \o FlattenSeq(rest))
  <2> DEFINE f == FlattenSeq(rest)
  <2> HIDE DEF f
  <2>1. f \in Seq(Byte) BY <1>10 DEF f
  <2>2. (h \o x) \o f = h \o (x \o f) BY <1>2, <2>1, Joins
  <2> QED BY <2>2 DEF f
<1> QED BY <1>8, <1>9, <1>11, Zenon DEF tt, y

LEMMA SubscribeBatchesAre ==
  ASSUME NEW list \in Seq(Subscription), list # <<>>, NEW id \in Word, NEW n \in Nat, n <= MaxRemaining
  PROVE  LET bs == SubscribeBatches(list, id, n)
         IN /\ bs \in Batches /\ bs # <<>>
            /\ FlattenSeq(FlattenSeq(bs)) = SerializeSubscribeHeader(n, id) \o FlattenSeq(TopicList(list, 1))
<1> DEFINE bs == SubscribeBatches(list, id, n)
           H == SerializeSubscribeHeader(n, id)
           T == TopicList(list, 1)
           L == Len(list)
           first(i) == IF i = 1 THEN <<H>> ELSE <<>>
           e(i) == EncodedString(list[i].filter)
           q(i) == <<list[i].qos>>
<1>1. L \in Nat /\ DOMAIN list = 1 .. L /\ L # 0 BY EmptySeq, LenProperties
<1>2. bs = [i \in 1 .. L |-> first(i) \o e(i) \o <<q(i)>>] BY <1>1, Zenon DEF SubscribeBatches
<1>3. H \in Seq(Byte)
  <2> DEFINE t == SUBSCRIBE
  <2>1. t = 130 BY DEF SUBSCRIBE
  <2> HIDE DEF t
  <2>2. t \in Byte BY <2>1, ByteIs
  <2>3. <<t>> \o EncodeRemainingLength(n) \in Seq(Byte) BY <2>2, HeadIs
  <2>4. U16(id) \in Seq(Byte) BY WordBytes
  <2>5. (<<t>> \o EncodeRemainingLength(n)) \o U16(id) \in Seq(Byte) BY <2>3, <2>4, CatBytes
  <2> QED BY <2>5 DEF SerializeSubscribeHeader, t
<1>4. T \in Seq(Seq(Byte)) /\ Len(T) = L /\ T # <<>>
  <2>1. T \in Seq(Seq(Byte)) /\ Len(T) = L BY TopicListIs
  <2> QED BY <1>1, <2>1
<1> HIDE DEF H, T
<1>5. ASSUME NEW i \in 1 .. L
      PROVE  /\ bs[i] \in Seq(Seq(Byte)) /\ bs[i] # <<>>
             /\ FlattenSeq(bs[i]) = IF i = 1 THEN H \o T[i] ELSE T[i]
  <2>1. list[i] \in Subscription /\ T[i] = TopicBytes(list[i], 1) BY TopicListIs DEF T
  <2> DEFINE s == list[i].filter
             b == q(i)
             v == first(i)
             w == e(i)
             vw == v \o w
             f == EncodeString(s)
  <2>2. s \in Text /\ list[i].qos \in Byte BY <2>1, TopicIs
  <2>3. w \in Seq(Seq(Byte)) /\ w # <<>> /\ FlattenSeq(w) = f /\ f \in Seq(Byte) BY <2>2, StringIs
  <2>4. b \in Seq(Byte) BY <2>2
  <2>5. <<b>> \in Seq(Seq(Byte)) /\ <<b>> # <<>> /\ FlattenSeq(<<b>>) = b
    <3> HIDE DEF b
    <3> QED BY <2>4, OneVector
  <2>6. v \in Seq(Seq(Byte)) /\ FlattenSeq(v) = IF i = 1 THEN H ELSE <<>> BY <1>3, OneVector, Nothing
  <2>7. T[i] = f \o b BY <2>1 DEF TopicBytes
  <2>8. bs[i] = vw \o <<b>>
    <3> HIDE DEF bs
    <3> QED BY <1>2
  <2> HIDE DEF s, b, v, w, f, bs
  <2>9. vw \in Seq(Seq(Byte)) /\ FlattenSeq(vw) = FlattenSeq(v) \o f BY <2>3, <2>6, CatVectors
  <2> HIDE DEF vw
  <2>10. vw \o <<b>> \in Seq(Seq(Byte)) /\ FlattenSeq(vw \o <<b>>) = (FlattenSeq(v) \o f) \o b BY <2>5, <2>9, CatVectors
  <2>11. Len(vw \o <<b>>) = Len(vw) + 1 /\ Len(vw) \in Nat BY <2>5, <2>9, ConcatProperties, LenProperties
  <2>12. vw \o <<b>> # <<>>
    <3>1. Len(vw \o <<b>>) # 0 BY <2>11
    <3> QED BY <2>10, <3>1, EmptySeq
  <2>13. CASE i = 1
    <3>1. (H \o f) \o b = H \o (f \o b) BY <1>3, <2>3, <2>4, Joins
    <3> QED BY <2>6, <2>7, <2>8, <2>10, <2>12, <2>13, <3>1
  <2>14. CASE i # 1
    <3>1. <<>> \o f = f BY <2>3, CatNone
    <3> QED BY <2>6, <2>7, <2>8, <2>10, <2>12, <2>14, <3>1
  <2> QED BY <2>13, <2>14
<1>6. DOMAIN bs = 1 .. L /\ bs = [i \in 1 .. L |-> bs[i]] BY <1>2
<1> HIDE DEF bs
<1>7. bs \in Batches /\ Len(bs) = L
  <2> DEFINE B == Seq(Seq(Byte)) \ {<<>>}
  <2>1. \A i \in 1 .. L : bs[i] \in B BY <1>5
  <2> HIDE DEF B, L
  <2>2. bs \in Seq(B) /\ Len(bs) = L BY <1>1, <1>6, <2>1, ASequence
  <2> QED BY <2>2 DEF Batches, B
<1>8. bs \in Seq(Seq(Seq(Byte)))
  <2>1. \A i \in 1 .. L : bs[i] \in Seq(Seq(Byte)) BY <1>5
  <2> DEFINE B == Seq(Seq(Byte))
  <2> HIDE DEF B, L
  <2>2. \A i \in 1 .. L : bs[i] \in B BY <2>1 DEF B
  <2>3. bs \in Seq(B) BY <1>1, <1>6, <2>2, ASequence
  <2> QED BY <2>3 DEF B
<1>9. FlattenSeq(FlattenSeq(bs)) = FlattenSeq([i \in DOMAIN bs |-> FlattenSeq(bs[i])]) BY <1>8, FlatFlat, Zenon
<1>10. [i \in DOMAIN bs |-> FlattenSeq(bs[i])] = [i \in 1 .. Len(T) |-> IF i = 1 THEN H \o T[i] ELSE T[i]]
  BY <1>4, <1>5, <1>6
<1>11. FlattenSeq(FlattenSeq(bs)) = H \o FlattenSeq(T) BY <1>3, <1>4, <1>9, <1>10, FirstPrefixed
<1>12. bs # <<>> BY <1>1, <1>7
<1> QED BY <1>7, <1>11, <1>12 DEF bs, H, T

LEMMA ListPacket ==
  ASSUME NEW list \in Seq(Subscription), NEW width \in {0, 1}, NEW id \in Word, NEW n \in Nat, n <= MaxRemaining, NEW t \in Byte
  PROVE  /\ <<t>> \o EncodeRemainingLength(n) \o ListBody(list, id, width) \in Seq(Byte)
         /\ (<<t>> \o EncodeRemainingLength(n) \o U16(id)) \o FlattenSeq(TopicList(list, width))
              = <<t>> \o EncodeRemainingLength(n) \o ListBody(list, id, width)
<1> DEFINE h == <<t>> \o EncodeRemainingLength(n)
           u == U16(id)
           f == FlattenSeq(TopicList(list, width))
           body == ListBody(list, id, width)
<1>1. u \in Seq(Byte) /\ f \in Seq(Byte) BY WordBytes, TopicListIs, FlatBytes
<1>2. h \in Seq(Byte) BY HeadIs
<1>3. body = u \o f BY DEF ListBody
<1>4. body \in Seq(Byte) BY ListBodyIs
<1> HIDE DEF u, f, h, body
<1>5. (h \o u) \o f = h \o (u \o f) BY <1>1, <1>2, Joins
<1>6. h \o body \in Seq(Byte) BY <1>2, <1>4, CatBytes
<1>7. h \o body \in Seq(Byte) /\ (h \o u) \o f = h \o body BY <1>3, <1>5, <1>6
<1> QED BY <1>7 DEF u, f, h, body

LEMMA SubscribeMakes ==
  ASSUME JobIs, job.kind = "send", job.op = "subscribe"
  PROVE  LET s == GetSubscribePacketSize(job.list)
         IN Makes(IF job.id = 0 THEN "BadParameter" ELSE s.status, SubscribeBatches(job.list, job.id, s.remaining), <<>>)
<1> DEFINE list == job.list
           id == job.id
           body == ListBody(list, id, 1)
           n == Len(body)
           s == GetSubscribePacketSize(list)
           st == IF id = 0 THEN "BadParameter" ELSE s.status
           b == <<SUBSCRIBE>> \o EncodeRemainingLength(n) \o body
           v == SubscribeBatches(list, id, s.remaining)
<1>1. list \in Seq(Subscription) /\ id \in Word BY Kinds DEF RequestOK
<1>2. CASE ListRefused(list, id, 1)
  <2>1. st = "BadParameter" /\ Copied = Refused("BadParameter") BY <1>2, SubscribeCopied, Zenon
  <2> HIDE DEF st, v
  <2>2. Makes(st, v, <<>>) BY <2>1, Nothing DEF Makes, Refused
  <2> QED BY <2>2, Zenon DEF st, s, v, list, id
<1>3. CASE ~ListRefused(list, id, 1)
  <2>1. st = "Success" /\ s.remaining = n /\ n \in Nat /\ n <= MaxRemaining /\ Copied = Written(b)
    BY <1>3, SubscribeCopied, Zenon
  <2>2. list # <<>> BY <1>3 DEF ListRefused
  <2> DEFINE t == SUBSCRIBE
             h == SerializeSubscribeHeader(n, id)
             bs == SubscribeBatches(list, id, n)
  <2>3. t = 130 BY DEF SUBSCRIBE
  <2>4. h = <<t>> \o EncodeRemainingLength(n) \o U16(id) BY Zenon DEF SerializeSubscribeHeader
  <2>5. bs \in Batches /\ bs # <<>> /\ FlattenSeq(FlattenSeq(bs)) = h \o FlattenSeq(TopicList(list, 1))
    <3> HIDE DEF n
    <3> QED BY <1>1, <2>1, <2>2, SubscribeBatchesAre, Zenon
  <2> HIDE DEF t, n, body, h
  <2>6. t \in Byte BY <2>3, ByteIs
  <2>7. /\ <<t>> \o EncodeRemainingLength(n) \o ListBody(list, id, 1) \in Seq(Byte)
        /\ (<<t>> \o EncodeRemainingLength(n) \o U16(id)) \o FlattenSeq(TopicList(list, 1))
             = <<t>> \o EncodeRemainingLength(n) \o ListBody(list, id, 1)
    <3> HIDE DEF list, id
    <3> QED BY <1>1, <2>1, <2>6, ListPacket
  <2>8. b \in Seq(Byte) /\ FlattenSeq(FlattenSeq(bs)) = b BY <2>4, <2>5, <2>7, Zenon DEF t, body
  <2>9. v = bs BY <2>1
  <2> HIDE DEF st, v, b, bs
  <2>10. Copied.status = "Success" /\ Copied.bytes = b BY <2>1 DEF Written
  <2>11. Makes(st, v, <<>>) BY <2>1, <2>5, <2>8, <2>9, <2>10, Nothing DEF Makes
  <2> QED BY <2>11, Zenon DEF st, s, v, list, id
<1> QED BY <1>2, <1>3

LEMMA SliceIs ==
  ASSUME NEW S, NEW e \in Seq(Seq(S)), NEW m \in Nat, NEW n \in Nat, 1 <= m, n <= Len(e)
  PROVE  /\ SubSeq(e, m, n) \in Seq(Seq(S)) /\ FlattenSeq(SubSeq(e, m, n)) \in Seq(S)
         /\ SubSeq(e, m, n) = [i \in 1 .. n - m + 1 |-> e[m + i - 1]]
         /\ m <= n /\ e[m] # <<>> => FlattenSeq(SubSeq(e, m, n)) # <<>>
<1> DEFINE V == Seq(S)
           s == SubSeq(e, m, n)
<1>1. e \in Seq(V) /\ \A i \in m .. n : e[i] \in V /\ i \in DOMAIN e OBVIOUS
<1>2. s \in Seq(V) /\ Len(s) = (IF m <= n THEN n - m + 1 ELSE 0) /\ \A i \in 1 .. n - m + 1 : s[i] = e[m + i - 1]
  <2>1. m \in Int /\ n \in Int OBVIOUS
  <2> HIDE DEF V
  <2> QED BY <1>1, <2>1, SubSeqProperties
<1>3. FlattenSeq(s) \in Seq(S) BY <1>2, FlatType
<1>4. s = [i \in 1 .. n - m + 1 |-> e[m + i - 1]]
  <2>1. DOMAIN s = 1 .. n - m + 1 /\ s = [i \in DOMAIN s |-> s[i]]
    <3> HIDE DEF s, V
    <3>1. DOMAIN s = 1 .. Len(s) /\ s = [i \in DOMAIN s |-> s[i]] BY <1>2
    <3>2. 1 .. Len(s) = 1 .. n - m + 1 BY <1>2
    <3> QED BY <3>1, <3>2
  <2> HIDE DEF s, V
  <2> QED BY <1>2, <2>1
<1>5. ASSUME m <= n, e[m] # <<>> PROVE FlattenSeq(s) # <<>>
  <2> DEFINE r == SubSeq(e, m + 1, n)
             x == e[m]
             f == FlattenSeq(r)
  <2>1. s = <<x>> \o r
    <3>1. m \in 1 .. Len(e) /\ n \in m .. Len(e) BY <1>5
    <3> HIDE DEF V
    <3> QED BY <1>1, <3>1, SubSeqRecursiveFirst
  <2>2. r \in Seq(V)
    <3>1. m + 1 \in Int /\ n \in Int /\ \A i \in m + 1 .. n : e[i] \in V BY <1>1
    <3> HIDE DEF V
    <3> QED BY <3>1, SubSeqProperties
  <2>3. x \in Seq(S) BY <1>1, <1>5
  <2>4. f \in Seq(S) BY <2>2, FlatType
  <2>5. FlattenSeq(<<x>> \o r) = x \o f BY <2>2, <2>3, FlatCons
  <2> HIDE DEF s, r, x, f
  <2>6. x # <<>> BY <1>5 DEF x
  <2>7. x \o f # <<>> BY <2>3, <2>4, <2>6
  <2> QED BY <2>1, <2>5, <2>7
<1> HIDE DEF s
<1> QED BY <1>2, <1>3, <1>4, <1>5 DEF s

\* The last topic of a batch, when the first holds one and the others two.
LastOf(b, len) == IF (2 * b) - 1 <= len THEN (2 * b) - 1 ELSE len

LEMMA InPairs ==
  ASSUME NEW S, NEW h \in S, NEW e \in Seq(Seq(S)), Len(e) >= 1, \A i \in 1 .. Len(e) : e[i] # <<>>
  PROVE  LET bs == [b \in 1 .. 1 + (Len(e) \div 2) |->
                      IF b = 1 THEN <<h>> \o FlattenSeq(SubSeq(e, 1, 1))
                      ELSE FlattenSeq(SubSeq(e, (2 * b) - 2, LastOf(b, Len(e))))]
         IN bs \in Seq(Seq(S) \ {<<>>}) /\ Len(bs) >= 1 /\ FlattenSeq(bs) = <<h>> \o FlattenSeq(e)
<1> DEFINE L == Len(e)
           count == 1 + (L \div 2)
           bs == [b \in 1 .. count |-> IF b = 1 THEN <<h>> \o FlattenSeq(SubSeq(e, 1, 1))
                                       ELSE FlattenSeq(SubSeq(e, (2 * b) - 2, LastOf(b, L)))]
           V == Seq(S)
<1>1. L \in Nat /\ L >= 1 /\ L \div 2 \in Nat /\ 2 * (L \div 2) <= L /\ L <= 2 * (L \div 2) + 1
  <2>1. L \in Nat /\ L >= 1 BY LenProperties
  <2> HIDE DEF L
  <2> QED BY <2>1
<1>2. count \in Nat /\ count >= 1 BY <1>1
<1>3. \A b \in 2 .. count : (2 * b) - 2 \in Nat /\ (2 * b) - 2 >= 2 /\ (2 * b) - 2 <= L
                            /\ LastOf(b, L) \in Nat /\ LastOf(b, L) <= L /\ (2 * b) - 2 <= LastOf(b, L)
  <2> DEFINE q == L \div 2
  <2> HIDE DEF L, q
  <2>1. \A b \in 2 .. count : b <= 1 + q BY DEF q
  <2>2. L \in Nat /\ q \in Nat /\ 2 * q <= L BY <1>1 DEF q
  <2> HIDE DEF count
  <2> SUFFICES ASSUME NEW b \in 2 .. count
               PROVE  (2 * b) - 2 \in Nat /\ (2 * b) - 2 >= 2 /\ (2 * b) - 2 <= L
                      /\ LastOf(b, L) \in Nat /\ LastOf(b, L) <= L /\ (2 * b) - 2 <= LastOf(b, L) OBVIOUS
  <2>3. b \in Nat /\ b >= 2 /\ b <= 1 + q BY <1>2, <2>1
  <2>4. (2 * b) - 2 \in Nat /\ (2 * b) - 2 >= 2 /\ (2 * b) - 2 <= L BY <2>2, <2>3
  <2> QED BY <2>2, <2>3, <2>4 DEF LastOf
<1>4. \A i \in 1 .. L : e[i] # <<>> OBVIOUS
<1> HIDE DEF count
<1>5. \A b \in 1 .. count : bs[b] \in V /\ bs[b] # <<>>
  <2> SUFFICES ASSUME NEW b \in 1 .. count PROVE bs[b] \in V /\ bs[b] # <<>> OBVIOUS
  <2>1. CASE b = 1
    <3> DEFINE f == FlattenSeq(SubSeq(e, 1, 1))
    <3>1. f \in Seq(S)
      <4>1. 1 \in Nat /\ 1 <= 1 /\ 1 <= Len(e) BY <1>1
      <4> QED BY <4>1, SliceIs
    <3>2. bs[b] = <<h>> \o f BY <2>1
    <3> HIDE DEF f, bs
    <3>3. <<h>> \o f \in Seq(S) /\ <<h>> \o f # <<>> BY <3>1
    <3> QED BY <3>2, <3>3
  <2>2. CASE b # 1
    <3> DEFINE m == (2 * b) - 2
               n == LastOf(b, L)
    <3>1. b \in 2 .. count BY <1>2, <2>2
    <3>2. bs[b] = FlattenSeq(SubSeq(e, m, n)) BY <2>2
    <3>3. m \in Nat /\ n \in Nat /\ 1 <= m /\ n <= L /\ m <= n /\ m \in 1 .. L BY <1>1, <1>3, <3>1
    <3>4. e[m] # <<>> BY <1>4, <3>3
    <3> HIDE DEF m, n, bs
    <3>5. FlattenSeq(SubSeq(e, m, n)) \in Seq(S) /\ FlattenSeq(SubSeq(e, m, n)) # <<>> BY <3>3, <3>4, SliceIs
    <3> QED BY <3>2, <3>5
  <2> QED BY <2>1, <2>2
<1>6. DOMAIN bs = 1 .. count /\ bs = [b \in 1 .. count |-> bs[b]] OBVIOUS
<1>7. bs[1] = <<h>> \o FlattenSeq(SubSeq(e, 1, 1)) BY <1>2
<1>8. \A b \in 2 .. count : bs[b] = FlattenSeq(SubSeq(e, (2 * b) - 2, LastOf(b, L))) BY <1>2
<1> HIDE DEF bs
<1>9. bs \in Seq(V \ {<<>>}) /\ bs \in Seq(V) /\ Len(bs) = count
  <2> DEFINE W == V \ {<<>>}
  <2>1. \A b \in 1 .. count : bs[b] \in W BY <1>5
  <2> HIDE DEF W, V
  <2>2. bs \in Seq(W) /\ Len(bs) = count BY <1>2, <1>6, <2>1, ASequence
  <2>3. bs \in Seq(V) BY <1>2, <1>5, <1>6, ASequence
  <2> QED BY <2>2, <2>3 DEF W
<1> HIDE DEF V
<1> DEFINE upto(b) == FlattenSeq(SubSeq(bs, 1, b))
           all(b) == <<h>> \o FlattenSeq(SubSeq(e, 1, LastOf(b, L)))
           T == {b \in Nat : b + 1 <= count => upto(b + 1) = all(b + 1)}
<1>10. 0 \in T
  <2>1. 1 \in 1 .. Len(bs) BY <1>2, <1>9
  <2>2. SubSeq(bs, 1, 1) = SubSeq(bs, 1, 1 - 1) \o <<bs[1]>> BY <1>9, <2>1, SubSeqRecursiveSecond
  <2>3. SubSeq(bs, 1, 1 - 1) = <<>> BY SubSeqEmpty
  <2>4. bs[1] \in V BY <1>2, <1>5
  <2>5. <<>> \o <<bs[1]>> = <<bs[1]>> BY <2>4
  <2>6. FlattenSeq(<<bs[1]>>) = bs[1]
    <3>1. bs[1] \in Seq(S) BY <2>4 DEF V
    <3> QED BY <3>1, FlatOne
  <2>7. upto(1) = bs[1] BY <2>2, <2>3, <2>5, <2>6, Zenon
  <2>8. LastOf(1, L) = 1 BY <1>1 DEF LastOf
  <2>9. upto(1) = all(1) BY <1>7, <2>7, <2>8, Zenon
  <2>10. 0 + 1 = 1 OBVIOUS
  <2> HIDE DEF upto, all
  <2> QED BY <2>9, <2>10
<1>11. ASSUME NEW c \in Nat, c \in T PROVE c + 1 \in T
  <2> SUFFICES ASSUME (c + 1) + 1 <= count PROVE upto((c + 1) + 1) = all((c + 1) + 1)
    <3> HIDE DEF upto, all
    <3> QED OBVIOUS
  <2> DEFINE b == c + 1
             d == b + 1
             m == (2 * b) - 1
             x == FlattenSeq(SubSeq(e, 1, m))
             y == FlattenSeq(SubSeq(e, m + 1, LastOf(d, L)))
  <2>1. b \in Nat /\ b >= 1 /\ d \in 2 .. count /\ d - 1 = b /\ b <= count BY <1>2
  <2>2. upto(b) = all(b)
    <3> HIDE DEF upto, all, count
    <3> QED BY <1>11, <2>1
  <2> HIDE DEF b
  <2>3. SubSeq(bs, 1, d) = SubSeq(bs, 1, b) \o <<bs[d]>>
    <3>1. 1 \in 1 .. Len(bs) /\ d \in 1 .. Len(bs) BY <1>9, <2>1
    <3>2. SubSeq(bs, 1, d) = SubSeq(bs, 1, d - 1) \o <<bs[d]>> BY <1>9, <3>1, SubSeqRecursiveSecond
    <3> QED BY <2>1, <3>2
  <2>4. m \in Nat /\ m >= 1 /\ m <= L /\ LastOf(b, L) = m /\ (2 * d) - 2 = m + 1
        /\ LastOf(d, L) \in Nat /\ LastOf(d, L) <= L /\ m + 1 <= LastOf(d, L)
    <3>1. (2 * d) - 2 <= L /\ LastOf(d, L) \in Nat /\ LastOf(d, L) <= L /\ (2 * d) - 2 <= LastOf(d, L) BY <1>3, <2>1
    <3>2. (2 * d) - 2 = m + 1 BY <2>1
    <3>3. m \in Nat /\ m >= 1 /\ m <= L BY <1>1, <2>1, <3>1, <3>2
    <3>4. LastOf(b, L) = m BY <3>3 DEF LastOf
    <3> QED BY <3>1, <3>2, <3>3, <3>4
  <2>5. bs[d] = y BY <1>8, <2>1, <2>4
  <2>6. all(b) = <<h>> \o x BY <2>4
  <2> DEFINE n == LastOf(d, L)
  <2>7. SubSeq(e, 1, m) \o SubSeq(e, m + 1, n) = SubSeq(e, 1, n)
    <3>1. 1 \in 1 .. Len(e) + 1 /\ m \in 1 - 1 .. Len(e) /\ n \in m .. Len(e) BY <1>1, <2>4
    <3>2. e \in Seq(V) BY DEF V
    <3> HIDE DEF m, n
    <3> QED BY <3>1, <3>2, ConcatAdjacentSubSeq
  <2>8. /\ SubSeq(e, 1, m) \in Seq(V) /\ SubSeq(e, m + 1, n) \in Seq(V) /\ x \in V /\ y \in V
    <3>1. m \in Nat /\ 1 \in Nat /\ m + 1 \in Nat /\ n \in Nat /\ 1 <= 1 /\ 1 <= m + 1 /\ m <= Len(e) /\ n <= Len(e)
      BY <2>4
    <3> HIDE DEF m, n
    <3>2. SubSeq(e, 1, m) \in Seq(Seq(S)) /\ x \in Seq(S) BY <3>1, SliceIs
    <3>3. SubSeq(e, m + 1, n) \in Seq(Seq(S)) /\ y \in Seq(S)
      <4> DEFINE j == m + 1
      <4>1. j \in Nat /\ 1 <= j BY <3>1
      <4> HIDE DEF j
      <4>2. SubSeq(e, j, n) \in Seq(Seq(S)) /\ FlattenSeq(SubSeq(e, j, n)) \in Seq(S) BY <3>1, <4>1, SliceIs
      <4> QED BY <4>2 DEF j, n
    <3> QED BY <3>2, <3>3 DEF V
  <2>9. FlattenSeq(SubSeq(e, 1, n)) = x \o y
    <3> HIDE DEF m, n
    <3> DEFINE s == SubSeq(e, 1, m)
               t == SubSeq(e, m + 1, n)
    <3>0. s \in Seq(Seq(S)) /\ t \in Seq(Seq(S)) BY <2>8 DEF V
    <3> HIDE DEF s, t
    <3>a. FlattenSeq(s \o t) = FlattenSeq(s) \o FlattenSeq(t) BY <3>0, FlatConcat
    <3>1. FlattenSeq(SubSeq(e, 1, m) \o SubSeq(e, m + 1, n)) = x \o y BY <3>a, Zenon DEF s, t, n
    <3> QED BY <2>7, <3>1
  <2>10. upto(d) = upto(b) \o y
    <3> DEFINE p == SubSeq(bs, 1, b)
    <3>1. p \in Seq(Seq(S))
      <4>0. \A i \in 1 .. b : i \in 1 .. count BY <1>2, <2>1
      <4>1. \A i \in 1 .. b : bs[i] \in V BY <1>5, <4>0
      <4>2. 1 \in Int /\ b \in Int BY <2>1
      <4>3. p \in Seq(V) BY <4>1, <4>2, SubSeqProperties
      <4> QED BY <4>3 DEF V
    <3>2. y \in Seq(S) BY <2>8 DEF V
    <3> HIDE DEF p, y
    <3>3. FlattenSeq(Append(p, y)) = FlattenSeq(p) \o y BY <3>1, <3>2, FlatAppend
    <3>4. Append(p, y) = p \o <<y>> BY <3>1, <3>2
    <3>5. SubSeq(bs, 1, d) = p \o <<y>> BY <2>3, <2>5 DEF p
    <3> QED BY <3>3, <3>4, <3>5 DEF p
  <2>11. (<<h>> \o x) \o y = <<h>> \o (x \o y)
    <3> HIDE DEF x, y
    <3>1. <<h>> \in Seq(S) /\ x \in Seq(S) /\ y \in Seq(S) BY <2>8 DEF V
    <3> QED BY <3>1, ConcatAssociative
  <2>12. all(d) = <<h>> \o (x \o y) BY <2>9, Zenon
  <2>13. upto(d) = all(d) BY <2>2, <2>6, <2>10, <2>11, <2>12, Zenon
  <2> QED BY <2>13 DEF b
<1>12. Nat \subseteq T
  <2> HIDE DEF T
  <2> QED BY <1>10, <1>11, NatInduct
<1>13. upto(count) = all(count)
  <2> DEFINE c == count - 1
  <2>1. c \in Nat /\ c + 1 = count BY <1>2
  <2> HIDE DEF c
  <2>2. c \in T BY <1>12, <2>1
  <2> HIDE DEF upto, all
  <2> QED BY <2>1, <2>2
<1>14. SubSeq(bs, 1, count) = bs BY <1>9, SubSeqFull
<1>15. LastOf(count, L) = L
  <2> DEFINE q == L \div 2
  <2> HIDE DEF L, q
  <2>1. (2 * count) - 1 = 2 * q + 1 BY <1>1 DEF count, q
  <2>2. q \in Nat /\ L \in Nat /\ L <= 2 * q + 1 BY <1>1 DEF q
  <2> DEFINE z == (2 * count) - 1
  <2> HIDE DEF z
  <2>3. z = 2 * q + 1 BY <2>1 DEF z
  <2>4. IF z <= L THEN z = L ELSE TRUE BY <2>2, <2>3
  <2> QED BY <2>4 DEF LastOf, z
<1>16. SubSeq(e, 1, L) = e
  <2>1. e \in Seq(V) BY DEF V
  <2> QED BY <2>1, SubSeqFull
<1>17. FlattenSeq(bs) = <<h>> \o FlattenSeq(e) BY <1>13, <1>14, <1>15, <1>16, Zenon
<1>18. bs \in Seq(Seq(S) \ {<<>>}) /\ Len(bs) >= 1 BY <1>2, <1>9 DEF V
<1> QED BY <1>17, <1>18 DEF bs, count

LEMMA UnsubscribeBatchesAre ==
  ASSUME NEW list \in Seq(Subscription), list # <<>>, NEW id \in Word, NEW n \in Nat, n <= MaxRemaining
  PROVE  LET bs == UnsubscribeBatches(list, id, n)
         IN /\ bs \in Batches /\ bs # <<>>
            /\ FlattenSeq(FlattenSeq(bs)) = SerializeUnsubscribeHeader(n, id) \o FlattenSeq(TopicList(list, 0))
<1> DEFINE bs == UnsubscribeBatches(list, id, n)
           H == SerializeUnsubscribeHeader(n, id)
           T == TopicList(list, 0)
           L == Len(list)
           V == Seq(Byte)
           E == [i \in 1 .. L |-> EncodedString(list[i].filter)]
           topics(from, to) == FlattenSeq([i \in 1 .. to - from + 1 |-> EncodedString(list[from + i - 1].filter)])
           count == 1 + (L \div 2)
           us == [b \in 1 .. count |-> IF b = 1 THEN <<H>> \o FlattenSeq(SubSeq(E, 1, 1))
                                       ELSE FlattenSeq(SubSeq(E, (2 * b) - 2, LastOf(b, L)))]
<1>1. L \in Nat /\ DOMAIN list = 1 .. L /\ L # 0 BY EmptySeq, LenProperties
<1>2. bs = [b \in 1 .. count |-> IF b = 1 THEN <<H>> \o topics(1, 1)
                                 ELSE topics(2 * b - 2, IF 2 * b - 1 <= L THEN 2 * b - 1 ELSE L)]
  BY Zenon DEF UnsubscribeBatches
<1>3. H \in Seq(Byte)
  <2> DEFINE t == UNSUBSCRIBE
  <2>1. t = 162 BY DEF UNSUBSCRIBE
  <2> HIDE DEF t
  <2>2. t \in Byte BY <2>1, ByteIs
  <2>3. <<t>> \o EncodeRemainingLength(n) \in Seq(Byte) BY <2>2, HeadIs
  <2>4. U16(id) \in Seq(Byte) BY WordBytes
  <2>5. (<<t>> \o EncodeRemainingLength(n)) \o U16(id) \in Seq(Byte) BY <2>3, <2>4, CatBytes
  <2> QED BY <2>5 DEF SerializeUnsubscribeHeader, t
<1>4. T \in Seq(Seq(Byte)) /\ Len(T) = L BY TopicListIs
<1>5. ASSUME NEW i \in 1 .. L
      PROVE  /\ E[i] \in Seq(V) /\ E[i] # <<>> /\ FlattenSeq(E[i]) = T[i]
  <2>1. list[i] \in Subscription /\ T[i] = TopicBytes(list[i], 0) BY TopicListIs DEF T
  <2> DEFINE s == list[i].filter
  <2>2. s \in Text BY <2>1, TopicIs
  <2>3. E[i] = EncodedString(s) /\ T[i] = EncodeString(s) BY <2>1 DEF TopicBytes
  <2> HIDE DEF s, E, T
  <2>4. EncodedString(s) \in Seq(V) /\ EncodedString(s) # <<>> /\ FlattenSeq(EncodedString(s)) = EncodeString(s)
    BY <2>2, StringIs
  <2> QED BY <2>3, <2>4
<1>6. DOMAIN E = 1 .. L /\ E = [i \in 1 .. L |-> E[i]] OBVIOUS
<1>7. \A i \in 1 .. L : E[i] = EncodedString(list[i].filter) OBVIOUS
<1> HIDE DEF E, H, T
<1>8. E \in Seq(Seq(V)) /\ Len(E) = L
  <2> DEFINE B == Seq(V)
  <2>1. \A i \in 1 .. L : E[i] \in B BY <1>5
  <2> HIDE DEF B, L
  <2> QED BY <1>1, <1>6, <2>1, ASequence DEF B
<1> HIDE DEF V
<1>9. ASSUME NEW m \in Nat, NEW k \in Nat, 1 <= m, k <= L PROVE topics(m, k) = FlattenSeq(SubSeq(E, m, k))
  <2> DEFINE f == [i \in 1 .. k - m + 1 |-> EncodedString(list[m + i - 1].filter)]
  <2>1. SubSeq(E, m, k) = [i \in 1 .. k - m + 1 |-> E[m + i - 1]] BY <1>8, <1>9, SliceIs
  <2>2. \A i \in 1 .. k - m + 1 : m + i - 1 \in 1 .. L BY <1>1, <1>9
  <2>3. f = SubSeq(E, m, k) BY <1>7, <2>1, <2>2
  <2> QED BY <2>3, Zenon
<1>10. bs = us
  <2> DEFINE x(b) == IF b = 1 THEN <<H>> \o topics(1, 1) ELSE topics(2 * b - 2, IF 2 * b - 1 <= L THEN 2 * b - 1 ELSE L)
             y(b) == IF b = 1 THEN <<H>> \o FlattenSeq(SubSeq(E, 1, 1)) ELSE FlattenSeq(SubSeq(E, (2 * b) - 2, LastOf(b, L)))
  <2>1. ASSUME NEW b \in 1 .. count PROVE x(b) = y(b)
    <3>1. CASE b = 1
      <4>1. 1 \in Nat /\ 1 <= 1 /\ 1 <= L BY <1>1
      <4>2. topics(1, 1) = FlattenSeq(SubSeq(E, 1, 1)) BY <1>9, <4>1
      <4> QED BY <3>1, <4>2, Zenon
    <3>2. CASE b # 1
      <4> DEFINE m == 2 * b - 2
                 k == IF 2 * b - 1 <= L THEN 2 * b - 1 ELSE L
      <4>1. m \in Nat /\ 1 <= m /\ k \in Nat /\ k <= L
        <5> HIDE DEF L
        <5>1. b \in Nat /\ b >= 2 BY <1>1, <3>2
        <5> HIDE DEF count
        <5> QED BY <1>1, <5>1
      <4>2. m = (2 * b) - 2 /\ k = LastOf(b, L) BY DEF LastOf
      <4>3. x(b) = topics(m, k) /\ y(b) = FlattenSeq(SubSeq(E, m, k))
        <5> HIDE DEF m, k, topics
        <5> QED BY <3>2, <4>2, Zenon DEF m, k
      <4> HIDE DEF m, k, topics, x, y
      <4> QED BY <1>9, <4>1, <4>3
    <3> QED BY <3>1, <3>2
  <2>2. bs = [b \in 1 .. count |-> x(b)] BY <1>2
  <2>3. us = [b \in 1 .. count |-> y(b)] OBVIOUS
  <2> HIDE DEF bs, us, x, y, count
  <2> QED BY <2>1, <2>2, <2>3
<1>11. us \in Seq(Seq(V) \ {<<>>}) /\ Len(us) >= 1 /\ FlattenSeq(us) = <<H>> \o FlattenSeq(E)
  <2> DEFINE ws == [b \in 1 .. 1 + (Len(E) \div 2) |->
                      IF b = 1 THEN <<H>> \o FlattenSeq(SubSeq(E, 1, 1))
                      ELSE FlattenSeq(SubSeq(E, (2 * b) - 2, LastOf(b, Len(E))))]
  <2>1. H \in V BY <1>3 DEF V
  <2>2. Len(E) >= 1 /\ \A i \in 1 .. Len(E) : E[i] # <<>> BY <1>1, <1>5, <1>8
  <2>3. ws \in Seq(Seq(V) \ {<<>>}) /\ Len(ws) >= 1 /\ FlattenSeq(ws) = <<H>> \o FlattenSeq(E)
    BY <1>8, <2>1, <2>2, InPairs
  <2>4. us = ws BY <1>8
  <2> HIDE DEF us, ws
  <2> QED BY <2>3, <2>4
<1>12. FlattenSeq(FlattenSeq(E)) = FlattenSeq(T) /\ FlattenSeq(E) \in Seq(Seq(Byte))
  <2>1. E \in Seq(Seq(Seq(Byte))) BY <1>8 DEF V
  <2>2. FlattenSeq(E) \in Seq(Seq(Byte)) /\ FlattenSeq(FlattenSeq(E)) = FlattenSeq([i \in DOMAIN E |-> FlattenSeq(E[i])])
    BY <2>1, FlatFlat, Zenon
  <2>3. T = [i \in 1 .. L |-> T[i]]
    <3>1. T = [i \in DOMAIN T |-> T[i]] /\ DOMAIN T = 1 .. Len(T) BY <1>4
    <3> QED BY <1>4, <3>1
  <2>4. [i \in DOMAIN E |-> FlattenSeq(E[i])] = T BY <1>5, <1>6, <2>3
  <2> QED BY <2>2, <2>4
<1> HIDE DEF bs, us
<1>13. FlattenSeq(FlattenSeq(bs)) = H \o FlattenSeq(T)
  <2> DEFINE f == FlattenSeq(E)
  <2> HIDE DEF f
  <2>1. <<H>> \in Seq(Seq(Byte)) /\ FlattenSeq(<<H>>) = H BY <1>3, OneVector
  <2>2. f \in Seq(Seq(Byte)) BY <1>12 DEF f
  <2>3. FlattenSeq(<<H>> \o f) = H \o FlattenSeq(f) BY <2>1, <2>2, CatVectors
  <2> QED BY <1>10, <1>11, <1>12, <2>3 DEF f
<1>14. bs \in Batches /\ bs # <<>>
  <2>1. bs \in Seq(Seq(Seq(Byte)) \ {<<>>}) /\ Len(bs) >= 1 BY <1>10, <1>11 DEF V
  <2>2. bs # <<>>
    <3>1. Len(<<>>) = 0 OBVIOUS
    <3> QED BY <2>1, <3>1
  <2> QED BY <2>1, <2>2 DEF Batches
<1> QED BY <1>13, <1>14 DEF bs, H, T

LEMMA UnsubscribeMakes ==
  ASSUME JobIs, job.kind = "send", job.op = "unsubscribe"
  PROVE  LET s == GetUnsubscribePacketSize(job.list)
         IN Makes(IF job.id = 0 THEN "BadParameter" ELSE s.status, UnsubscribeBatches(job.list, job.id, s.remaining), <<>>)
<1> DEFINE list == job.list
           id == job.id
           body == ListBody(list, id, 0)
           n == Len(body)
           s == GetUnsubscribePacketSize(list)
           st == IF id = 0 THEN "BadParameter" ELSE s.status
           b == <<UNSUBSCRIBE>> \o EncodeRemainingLength(n) \o body
           v == UnsubscribeBatches(list, id, s.remaining)
<1>1. list \in Seq(Subscription) /\ id \in Word BY Kinds DEF RequestOK
<1>2. CASE ListRefused(list, id, 0)
  <2>1. st = "BadParameter" /\ Copied = Refused("BadParameter") BY <1>2, UnsubscribeCopied, Zenon
  <2> HIDE DEF st, v
  <2>2. Makes(st, v, <<>>) BY <2>1, Nothing DEF Makes, Refused
  <2> QED BY <2>2, Zenon DEF st, s, v, list, id
<1>3. CASE ~ListRefused(list, id, 0)
  <2>1. st = "Success" /\ s.remaining = n /\ n \in Nat /\ n <= MaxRemaining /\ Copied = Written(b)
    BY <1>3, UnsubscribeCopied, Zenon
  <2>2. list # <<>> BY <1>3 DEF ListRefused
  <2> DEFINE t == UNSUBSCRIBE
             h == SerializeUnsubscribeHeader(n, id)
             bs == UnsubscribeBatches(list, id, n)
  <2>3. t = 162 BY DEF UNSUBSCRIBE
  <2>4. h = <<t>> \o EncodeRemainingLength(n) \o U16(id) BY Zenon DEF SerializeUnsubscribeHeader
  <2>5. bs \in Batches /\ bs # <<>> /\ FlattenSeq(FlattenSeq(bs)) = h \o FlattenSeq(TopicList(list, 0))
    <3> HIDE DEF n
    <3> QED BY <1>1, <2>1, <2>2, UnsubscribeBatchesAre, Zenon
  <2> HIDE DEF t, n, body, h
  <2>6. t \in Byte BY <2>3, ByteIs
  <2>7. /\ <<t>> \o EncodeRemainingLength(n) \o ListBody(list, id, 0) \in Seq(Byte)
        /\ (<<t>> \o EncodeRemainingLength(n) \o U16(id)) \o FlattenSeq(TopicList(list, 0))
             = <<t>> \o EncodeRemainingLength(n) \o ListBody(list, id, 0)
    <3> HIDE DEF list, id
    <3> QED BY <1>1, <2>1, <2>6, ListPacket
  <2>8. b \in Seq(Byte) /\ FlattenSeq(FlattenSeq(bs)) = b BY <2>4, <2>5, <2>7, Zenon DEF t, body
  <2>9. v = bs BY <2>1
  <2> HIDE DEF st, v, b, bs
  <2>10. Copied.status = "Success" /\ Copied.bytes = b BY <2>1 DEF Written
  <2>11. Makes(st, v, <<>>) BY <2>1, <2>5, <2>8, <2>9, <2>10, Nothing DEF Makes
  <2> QED BY <2>11, Zenon DEF st, s, v, list, id
<1> QED BY <1>2, <1>3

-----------------------------------------------------------------------------
(* MQTT_Publish                                                            *)

PublishByte(p) == PUBLISH + PublishFlags(p)

LEMMA PublishByteIs ==
  ASSUME NEW p \in PublishInfo
  PROVE  LET t == PublishByte(p)
         IN /\ t \in Byte /\ t \in 48 .. 63 /\ Kind(t) = 48 /\ (t \div 2) % 4 = p.qos
            /\ (Flag(t, 3) <=> p.dup) /\ (Flag(t, 0) <=> p.retain)
            /\ UpdateDuplicatePublishFlag(t, TRUE) \in Byte
<1> DEFINE t == PublishByte(p)
           retain == Bit(p.retain, 0)
           one == Bit(p.qos = 1, 1)
           two == Bit(p.qos = 2, 2)
           dup == Bit(p.dup, 3)
           q == p.qos
<1>1. 2^0 = 1 /\ 2^1 = 2 /\ 2^2 = 4 /\ 2^3 = 8 BY SMT
<1>2. q \in {0, 1, 2} BY DEF PublishInfo
<1>3. retain \in {0, 1} /\ (retain = 1 <=> p.retain) BY <1>1 DEF Bit
<1>4. dup \in {0, 8} /\ (dup = 8 <=> p.dup) BY <1>1 DEF Bit
<1>5. one = (IF q = 1 THEN 2 ELSE 0) /\ two = (IF q = 2 THEN 4 ELSE 0) BY <1>1 DEF Bit
<1>6. t = 48 + (retain + one + two + dup) BY DEF PublishByte, PublishFlags, PUBLISH
<1> HIDE DEF t, retain, one, two, dup, q
<1>7. t = 48 + retain + 2 * q + dup BY <1>2, <1>3, <1>4, <1>5, <1>6
<1>8. t \in 48 .. 63 BY <1>2, <1>3, <1>4, <1>7
<1>9. t \in Byte BY <1>8, ByteIs
<1>10. t - (t % 16) = 48 BY <1>8
<1>11. (t \div 2) % 4 = q BY <1>2, <1>3, <1>4, <1>7
<1>12. (t \div 8) % 2 = 1 <=> dup = 8 BY <1>2, <1>3, <1>4, <1>7
<1>13. (t \div 1) % 2 = 1 <=> retain = 1 BY <1>2, <1>3, <1>4, <1>7
<1>14. (Flag(t, 3) <=> p.dup) /\ (Flag(t, 0) <=> p.retain) BY <1>1, <1>3, <1>4, <1>12, <1>13 DEF Flag
<1>15. UpdateDuplicatePublishFlag(t, TRUE) \in Byte
  <2>1. Bit(TRUE, 3) = 8 BY <1>1 DEF Bit
  <2>2. Bit(Flag(t, 3), 3) \in {0, 8} BY <1>1 DEF Bit
  <2> DEFINE x == Bit(Flag(t, 3), 3)
  <2> HIDE DEF x
  <2>3. UpdateDuplicatePublishFlag(t, TRUE) = (t - x) + 8 \/ UpdateDuplicatePublishFlag(t, TRUE) = t
    BY <2>1 DEF UpdateDuplicatePublishFlag, x
  <2>4. x \in {0, 8} BY <2>2 DEF x
  <2>5. (t - x) + 8 \in Nat /\ (t - x) + 8 < 256 BY <1>8, <2>4
  <2> QED BY <1>9, <2>3, <2>5, ByteIs
<1> QED BY <1>8, <1>9, <1>10, <1>11, <1>14, <1>15 DEF t, q, Kind

\* What follows the length of a publish.
PublishBody(p, id) == EncodeString(p.topic) \o (IF p.qos > 0 THEN U16(id) ELSE <<>>) \o p.payload

LEMMA PublishBodyIs ==
  ASSUME NEW p \in PublishInfo, NEW id \in Word
  PROVE  /\ PublishBody(p, id) \in Seq(Byte)
         /\ Len(PublishBody(p, id)) = Len(p.topic) + 2 + (IF p.qos > 0 THEN 2 ELSE 0) + Len(p.payload)
         /\ Len(p.topic) \in Nat /\ Len(p.payload) \in Nat
         /\ p.topic \in Text /\ p.payload \in Seq(Byte) /\ p.qos \in {0, 1, 2}
<1> DEFINE x == EncodeString(p.topic)
           y == IF p.qos > 0 THEN U16(id) ELSE <<>>
           z == p.payload
           tl == Len(p.topic)
           xy == x \o y
           two == IF p.qos > 0 THEN 2 ELSE 0
<1>1. p.topic \in Text /\ z \in Seq(Byte) /\ p.qos \in {0, 1, 2} BY DEF PublishInfo
<1>2. x \in Seq(Byte) /\ Len(x) = 2 + tl /\ tl \in Nat BY <1>1, StringIs, TextIs, SMT
<1>3. U16(id) \in Seq(Byte) /\ Len(U16(id)) = 2 BY WordBytes
<1>4. y \in Seq(Byte) /\ Len(y) = two
  <2>1. <<>> \in Seq(Byte) /\ Len(<<>>) = 0 OBVIOUS
  <2>2. CASE p.qos > 0 BY <1>3, <2>2, Zenon
  <2>3. CASE ~(p.qos > 0)
    <3>1. y = <<>> /\ two = 0 BY <2>3
    <3> HIDE DEF y, two
    <3> QED BY <2>1, <3>1
  <2> QED BY <2>2, <2>3
<1>5. PublishBody(p, id) = xy \o z BY DEF PublishBody
<1> HIDE DEF x, y, z
<1>a. x \in Seq(Byte) /\ y \in Seq(Byte) BY <1>2, <1>4, Zenon
<1>6. xy \in Seq(Byte) /\ Len(xy) = Len(x) + Len(y) BY <1>a, CatBytes
<1> HIDE DEF xy
<1>7. xy \o z \in Seq(Byte) /\ Len(xy \o z) = Len(xy) + Len(z) BY <1>1, <1>6, CatBytes
<1>8. Len(z) \in Nat /\ Len(y) \in Nat BY <1>1, <1>4, LenProperties
<1> DEFINE a == Len(x)  b == Len(y)  c == Len(z)  d == Len(xy)
<1>9. a = 2 + tl /\ b = two /\ d = a + b /\ c \in Nat /\ b \in Nat BY <1>2, <1>4, <1>6, <1>8
<1> HIDE DEF a, b, c, d, tl, two
<1>10. d + c = tl + 2 + two + c BY <1>2, <1>9
<1>11. Len(xy \o z) = tl + 2 + two + c BY <1>7, <1>10, Zenon DEF c, d
<1>12. PublishBody(p, id) \in Seq(Byte) /\ Len(PublishBody(p, id)) = tl + 2 + two + c BY <1>5, <1>7, <1>11, Zenon
<1>13. c \in Nat /\ tl \in Nat BY <1>2, <1>9
<1> QED BY <1>1, <1>12, <1>13, Zenon DEF c, tl, two, z

LEMMA PublishSizeIs ==
  ASSUME NEW p \in PublishInfo, NEW id \in Word
  PROVE  LET s == GetPublishPacketSize(Len(p.topic), Len(p.payload), p.qos)
             n == Len(PublishBody(p, id))
         IN \/ s.status = "BadParameter"
            \/ /\ s.status = "Success" /\ p.topic # <<>> /\ s.remaining = n /\ n \in Nat /\ n <= MaxRemaining
               /\ s.size = n + 1 + RemainingLengthEncodedSize(n) /\ Len(p.payload) <= n
<1> DEFINE tl == Len(p.topic)
           pl == Len(p.payload)
           h == tl + 2 + IF p.qos > 0 THEN 2 ELSE 0
           limit == MaxRemaining - h - 1
           r == h + pl
           k == RemainingLengthEncodedSize(r)
           refused == tl = 0 \/ pl > limit \/ pl > limit - k
           s == GetPublishPacketSize(tl, pl, p.qos)
           n == Len(PublishBody(p, id))
<1>1. s = IF refused THEN [status |-> "BadParameter", remaining |-> 0, size |-> 0]
          ELSE [status |-> "Success", remaining |-> r, size |-> r + 1 + k]
  BY Zenon DEF GetPublishPacketSize
<1>2. n = tl + 2 + (IF p.qos > 0 THEN 2 ELSE 0) + pl /\ tl \in Nat /\ pl \in Nat BY PublishBodyIs, Zenon
<1>3. p.topic = <<>> => refused OBVIOUS
<1> HIDE DEF s, n, tl, pl
<1>4. h \in Nat BY <1>2
<1>5. n = r
  <2>1. h = tl + 2 + (IF p.qos > 0 THEN 2 ELSE 0) OBVIOUS
  <2> HIDE DEF h
  <2> QED BY <1>2, <1>4, <2>1
<1> HIDE DEF h
<1>6. r \in Nat /\ pl <= r BY <1>2, <1>4
<1>7. ~refused => r <= MaxRemaining
  <2>1. MaxRemaining \in Nat BY MaxRemainingIs, SMT
  <2>2. ~(pl > limit) => pl <= limit BY <1>2, <1>4, <2>1
  <2> QED BY <1>2, <1>4, <2>1, <2>2
<1> HIDE DEF refused, r, k
<1>8. s.status = "BadParameter" \/ (s.status = "Success" /\ ~refused /\ s.remaining = r /\ s.size = r + 1 + k) BY <1>1
<1> QED BY <1>3, <1>5, <1>6, <1>7, <1>8 DEF s, n, tl, pl, k

LEMMA CommonIs ==
  ASSUME NEW p \in PublishInfo, NEW id \in Word, NEW n \in Nat, n <= MaxRemaining
  PROVE  LET b == <<PublishByte(p)>> \o EncodeRemainingLength(n) \o PublishBody(p, id)
         IN /\ SerializePublishCommon(p, n, id, TRUE) = b
            /\ SerializePublishCommon(p, n, id, FALSE) \o p.payload = b
            /\ b \in Seq(Byte)
<1> DEFINE t == PublishByte(p)
           h == <<t>> \o EncodeRemainingLength(n)
           x == EncodeString(p.topic)
           y == IF p.qos > 0 THEN U16(id) ELSE <<>>
           z == p.payload
           none == <<>>
<1>1. h \in Seq(Byte)
  <2>1. t \in Byte BY PublishByteIs
  <2> HIDE DEF t
  <2> QED BY <2>1, HeadIs
<1>2. x \in Seq(Byte)
  <2>1. p.topic \in Text BY PublishBodyIs
  <2> QED BY <2>1, StringIs
<1>3. z \in Seq(Byte) BY PublishBodyIs
<1>4. y \in Seq(Byte)
  <2>1. U16(id) \in Seq(Byte) /\ <<>> \in Seq(Byte) BY WordBytes, Nothing
  <2> QED BY <2>1
<1>5. /\ SerializePublishCommon(p, n, id, TRUE) = ((h \o x) \o y) \o z
      /\ SerializePublishCommon(p, n, id, FALSE) = ((h \o x) \o y) \o none
      /\ PublishBody(p, id) = (x \o y) \o z
  <2>1. (IF TRUE THEN z ELSE none) = z OBVIOUS
  <2>2. (IF FALSE THEN z ELSE none) = none OBVIOUS
  <2> QED BY <2>1, <2>2, Zenon DEF SerializePublishCommon, PublishBody, PublishByte
<1> DEFINE hx == h \o x
           xy == x \o y
<1>6. none \in Seq(Byte) BY Nothing
<1> HIDE DEF h, x, y, z, none
<1>7. hx \in Seq(Byte) /\ xy \in Seq(Byte) BY <1>1, <1>2, <1>4, CatBytes
<1>8. hx \o y = h \o xy BY <1>1, <1>2, <1>4, Joins
<1> HIDE DEF hx, xy
<1>9. hx \o y \in Seq(Byte) /\ xy \o z \in Seq(Byte) BY <1>3, <1>4, <1>7, CatBytes
<1>10. (h \o xy) \o z = h \o (xy \o z) BY <1>1, <1>3, <1>7, Joins
<1>11. (hx \o y) \o none = hx \o y BY <1>9, CatNone DEF none
<1>12. h \o (xy \o z) \in Seq(Byte) BY <1>1, <1>9, CatBytes
<1> QED BY <1>5, <1>8, <1>10, <1>11, <1>12, Zenon DEF hx, xy, h, z

PublishPacket(p, id) == <<PublishByte(p)>> \o EncodeRemainingLength(Len(PublishBody(p, id))) \o PublishBody(p, id)

\* Without the DUP of a publish of QoS 0, that MQTT_SerializePublish refuses.
LEMMA Undup ==
  ASSUME NEW p \in PublishInfo
  PROVE  LET q == [p EXCEPT !.dup = @ /\ p.qos > 0]
         IN /\ q \in PublishInfo /\ q.topic = p.topic /\ q.payload = p.payload /\ q.qos = p.qos
            /\ q.noPayload = p.noPayload /\ ~(q.dup /\ q.qos = 0)
            /\ q = p <=> ~(p.dup /\ p.qos = 0)
            /\ q # p => PublishByte(q) + 8 = PublishByte(p)
<1> DEFINE d == p.dup /\ p.qos > 0
           q == [p EXCEPT !.dup = d]
<1>1. q = [p EXCEPT !.dup = @ /\ p.qos > 0] OBVIOUS
<1>2. d \in BOOLEAN /\ p.dup \in BOOLEAN /\ p.qos \in {0, 1, 2} BY DEF PublishInfo
<1>3. (p.qos = 0) <=> ~(p.qos > 0) BY <1>2
<1>4. d <=> p.dup /\ ~(p.qos = 0) BY <1>3
<1> HIDE DEF d
<1>5. q \in PublishInfo /\ q.dup = d /\ q.topic = p.topic /\ q.payload = p.payload /\ q.qos = p.qos
      /\ q.noPayload = p.noPayload /\ q.retain = p.retain
  BY <1>2, Zenon DEF PublishInfo
<1>6. ~(p.dup /\ p.qos = 0) => q = p
  <2> SUFFICES ASSUME ~(p.dup /\ p.qos = 0) PROVE q = p OBVIOUS
  <2>1. d = p.dup BY <1>2, <1>4, Zenon
  <2>2. q = [p EXCEPT !.dup = p.dup] BY <2>1
  <2>3. p = [qos |-> p.qos, dup |-> p.dup, retain |-> p.retain, topic |-> p.topic, payload |-> p.payload, noPayload |-> p.noPayload]
    BY Zenon DEF PublishInfo
  <2> QED BY <2>2, <2>3
<1>7. (p.dup /\ p.qos = 0) => q # p
  <2> SUFFICES ASSUME p.dup, p.qos = 0, q = p PROVE FALSE OBVIOUS
  <2>1. ~d BY <1>4
  <2>2. p.dup = d BY <1>5, Zenon
  <2> QED BY <2>1, <2>2, Zenon
<1>8. q # p => PublishByte(q) + 8 = PublishByte(p)
  <2> SUFFICES ASSUME q # p PROVE PublishByte(q) + 8 = PublishByte(p) OBVIOUS
  <2>1. p.dup /\ ~d BY <1>4, <1>6
  <2> DEFINE a == Bit(p.retain, 0)
             b == Bit(p.qos = 1, 1)
             c == Bit(p.qos = 2, 2)
             e == Bit(p.dup, 3)
             f == Bit(q.dup, 3)
  <2>2. a \in Nat /\ b \in Nat /\ c \in Nat
    <3>1. 2^0 = 1 /\ 2^1 = 2 /\ 2^2 = 4 BY SMT
    <3> QED BY <3>1 DEF Bit
  <2>3. 2^3 = 8 BY SMT
  <2>4. e = 8 BY <2>1, <2>3 DEF Bit
  <2>5. ~q.dup BY <1>5, <2>1, Zenon
  <2>6. f = 0 BY <2>5, Zenon DEF Bit
  <2>7. PublishByte(p) = 48 + (a + b + c + e) BY Zenon DEF PublishByte, PublishFlags, PUBLISH
  <2>8. PublishByte(q) = 48 + (a + b + c + f) BY <1>5, Zenon DEF PublishByte, PublishFlags, PUBLISH
  <2> HIDE DEF a, b, c, e, f
  <2> QED BY <2>2, <2>4, <2>6, <2>7, <2>8
<1>9. ~(q.dup /\ q.qos = 0) BY <1>4, <1>5, Zenon
<1> QED BY <1>1, <1>5, <1>6, <1>7, <1>8, <1>9, Zenon

LEMMA PublishCopied ==
  ASSUME JobIs, job.kind = "send", job.op = "publish"
  PROVE  LET p == job.p
             id == job.id
             n == Len(PublishBody(p, id))
             s == GetPublishPacketSize(Len(p.topic), Len(p.payload), p.qos)
             st == IF PublishParamsOK(p, id) THEN s.status ELSE "BadParameter"
         IN \/ st = "BadParameter" /\ Copied = Refused("BadParameter")
            \/ /\ st = "Success" /\ s.remaining = n /\ n \in Nat /\ n <= MaxRemaining
               /\ s.size = n + 1 + RemainingLengthEncodedSize(n) /\ Len(p.payload) <= n
               /\ p.topic # <<>> /\ PublishParamsOK(p, id)
               /\ Copied = Written(PublishPacket(p, id))
<1> DEFINE p == job.p
           id == job.id
           n == Len(PublishBody(p, id))
           s == GetPublishPacketSize(Len(p.topic), Len(p.payload), p.qos)
           ok == PublishParamsOK(p, id)
           st == IF ok THEN s.status ELSE "BadParameter"
           q == [p EXCEPT !.dup = @ /\ p.qos > 0]
           w == SerializePublish(q, id, s.remaining, s.size)
           b == PublishPacket(p, id)
<1>1. p \in PublishInfo /\ id \in Word BY Kinds DEF RequestOK
<1>2. /\ q \in PublishInfo /\ q.topic = p.topic /\ q.payload = p.payload /\ q.qos = p.qos
      /\ q.noPayload = p.noPayload /\ ~(q.dup /\ q.qos = 0)
      /\ q # p => PublishByte(q) + 8 = PublishByte(p)
  BY <1>1, Undup, Zenon
<1>3. Copied = IF s.status # "Success" THEN Refused(s.status)
               ELSE IF q = p \/ w.status # "Success" THEN w
               ELSE Written(<<w.bytes[1] + 8>> \o Tail(w.bytes))
  <2>1. Copied = LET x == [job.p EXCEPT !.dup = @ /\ job.p.qos > 0]
                     y == GetPublishPacketSize(Len(x.topic), Len(x.payload), x.qos)
                     z == SerializePublish(x, job.id, y.remaining, y.size)
                 IN IF y.status # "Success" THEN Refused(y.status)
                    ELSE IF x = job.p \/ z.status # "Success" THEN z
                    ELSE Written(<<z.bytes[1] + 8>> \o Tail(z.bytes))
    BY Zenon DEF Copied
  <2> DEFINE y == GetPublishPacketSize(Len(q.topic), Len(q.payload), q.qos)
  <2>2. y = s BY <1>2, Zenon
  <2>3. Copied = IF y.status # "Success" THEN Refused(y.status)
                 ELSE IF q = p \/ SerializePublish(q, id, y.remaining, y.size).status # "Success"
                      THEN SerializePublish(q, id, y.remaining, y.size)
                 ELSE Written(<<SerializePublish(q, id, y.remaining, y.size).bytes[1] + 8>>
                                \o Tail(SerializePublish(q, id, y.remaining, y.size).bytes))
    BY <2>1, Zenon
  <2> HIDE DEF y, s
  <2> QED BY <2>2, <2>3, Zenon
<1>4. \/ s.status = "BadParameter"
      \/ /\ s.status = "Success" /\ p.topic # <<>> /\ s.remaining = n /\ n \in Nat /\ n <= MaxRemaining
         /\ s.size = n + 1 + RemainingLengthEncodedSize(n) /\ Len(p.payload) <= n
  BY <1>1, PublishSizeIs, Zenon
<1>5. "BadParameter" # "Success" OBVIOUS
<1> HIDE DEF s, n
<1>6. CASE s.status = "BadParameter"
  <2>1. Copied = Refused("BadParameter") BY <1>3, <1>5, <1>6, Zenon
  <2>2. st = "BadParameter" BY <1>6
  <2> QED BY <2>1, <2>2, Zenon DEF s, n
<1>7. CASE s.status # "BadParameter"
  <2>1. /\ s.status = "Success" /\ p.topic # <<>> /\ s.remaining = n /\ n \in Nat /\ n <= MaxRemaining
        /\ s.size = n + 1 + RemainingLengthEncodedSize(n) /\ Len(p.payload) <= n
    BY <1>4, <1>7, Zenon
  <2>2. Fits(n, s.size) /\ s.size # NoBuffer BY <2>1, JustFits, Zenon
  <2>3. ok <=> ~(q.qos # 0 /\ id = 0) /\ ~(q.payload # <<>> /\ q.noPayload) BY <1>2, Zenon DEF PublishParamsOK
  <2>4. w = SerializePublish(q, id, n, s.size) BY <2>1
  <2>5. ASSUME ~ok PROVE w = Refused("BadParameter")
    BY <2>3, <2>4, <2>5, Zenon DEF SerializePublish, BadPublish
  <2>6. ASSUME ok PROVE w = Written(SerializePublishCommon(q, n, id, TRUE))
    <3>1. ~(s.size = NoBuffer \/ (q.payload # <<>> /\ q.noPayload) \/ BadPublish(q, id))
      BY <1>2, <2>1, <2>2, <2>3, <2>6, Zenon DEF BadPublish
    <3> QED BY <2>2, <2>4, <3>1, Zenon DEF SerializePublish
  <2>7. CASE ~ok
    <3>1. w.status = "BadParameter" BY <2>5, <2>7 DEF Refused
    <3>2. Copied = Refused("BadParameter") BY <1>3, <1>5, <2>1, <2>5, <2>7, <3>1, Zenon
    <3>3. st = "BadParameter" BY <2>7, Zenon
    <3> QED BY <3>2, <3>3, Zenon DEF s, n
  <2>8. CASE ok
    <3> DEFINE c == SerializePublishCommon(q, n, id, TRUE)
               e == EncodeRemainingLength(n) \o PublishBody(p, id)
    <3>0. w = Written(c) BY <2>6, <2>8, Zenon
    <3>1. w = Written(c) /\ w.status = "Success" /\ w.bytes = c
      <4> HIDE DEF w, c
      <4> QED BY <3>0 DEF Written
    <3>2. PublishBody(q, id) = PublishBody(p, id) BY <1>2, Zenon DEF PublishBody
    <3>3. c = <<PublishByte(q)>> \o EncodeRemainingLength(n) \o PublishBody(p, id)
      <4>1. q \in PublishInfo /\ id \in Word /\ n \in Nat /\ n <= MaxRemaining BY <1>1, <1>2, <2>1, Zenon
      <4> DEFINE qq == q  pp == p  ii == id
      <4>2. SerializePublishCommon(qq, n, ii, TRUE) = <<PublishByte(qq)>> \o EncodeRemainingLength(n) \o PublishBody(qq, ii)
        <5>1. qq \in PublishInfo /\ ii \in Word BY <4>1
        <5> HIDE DEF qq, ii
        <5> QED BY <4>1, <5>1, CommonIs
      <4> QED BY <3>2, <4>2, Zenon
    <3>4. PublishBody(p, id) \in Seq(Byte) BY <1>1, PublishBodyIs, Zenon
    <3>5. c[1] = PublishByte(q) /\ Tail(c) = e
      <4>1. PublishByte(q) \in Byte BY <1>2, PublishByteIs, Zenon
      <4> DEFINE d == PublishBody(p, id)
                 t == PublishByte(q)
                 bb == <<t>> \o EncodeRemainingLength(Len(d)) \o d
      <4>2. Len(d) <= MaxRemaining /\ Len(d) = n BY <2>1, Zenon DEF n
      <4> HIDE DEF d, t
      <4>3. t \in Byte /\ d \in Seq(Byte) BY <3>4, <4>1 DEF d, t
      <4>4. bb[1] = t /\ Tail(bb) = EncodeRemainingLength(Len(d)) \o d BY <4>2, <4>3, PacketIs
      <4>5. c = bb BY <3>3, <4>2, Zenon DEF d, t
      <4> QED BY <4>2, <4>4, <4>5, Zenon DEF d, t
    <3>6. st = "Success" BY <2>1, <2>8, Zenon
    <3>7. b = <<PublishByte(p)>> \o EncodeRemainingLength(n) \o PublishBody(p, id) BY Zenon DEF PublishPacket, n
    <3>8. Copied = Written(b)
      <4>1. CASE q = p
        <5>1. c = b BY <3>3, <3>7, <4>1, Zenon
        <5> QED BY <1>3, <2>1, <3>1, <4>1, <5>1, Zenon
      <4>2. CASE q # p
        <5>1. Copied = Written(<<w.bytes[1] + 8>> \o Tail(w.bytes)) BY <1>3, <2>1, <3>1, <4>2, Zenon
        <5>2. <<w.bytes[1] + 8>> \o Tail(w.bytes) = <<PublishByte(p)>> \o e BY <1>2, <3>1, <3>5, <4>2, ZenonT(60)
        <5>3. <<PublishByte(p)>> \o e = b
          <6> DEFINE t == PublishByte(p)
                     x == EncodeRemainingLength(n)
                     d == PublishBody(p, id)
          <6>1. t \in Byte BY <1>1, PublishByteIs, Zenon
          <6>2. x \in Seq(Byte) /\ d \in Seq(Byte)
            <7>1. n \in Nat /\ n <= MaxRemaining BY <2>1, Zenon
            <7>2. x \in Seq(Byte) BY <7>1, EncodedBytes
            <7> QED BY <3>4, <7>2, Zenon
          <6>3. <<t>> \in Seq(Byte)
            <7> HIDE DEF t
            <7> QED BY <6>1
          <6> HIDE DEF x, d
          <6>4. (<<t>> \o x) \o d = <<t>> \o (x \o d) BY <6>2, <6>3, Joins
          <6> QED BY <3>7, <6>4, Zenon DEF x, d
        <5> QED BY <5>1, <5>2, <5>3, Zenon
      <4> QED BY <4>1, <4>2
    <3> QED BY <2>1, <2>8, <3>6, <3>8, Zenon DEF s, n
  <2> QED BY <2>7, <2>8
<1> QED BY <1>6, <1>7

LEMMA NewFront ==
  ASSUME NEW S, NEW x \in S, NEW y \in S, NEW r \in Seq(S)
  PROVE  /\ [(<<x>> \o r) EXCEPT ![1] = y] = <<y>> \o r
         /\ (<<x>> \o r)[1] = x /\ Tail(<<x>> \o r) = r /\ <<x>> \o r \in Seq(S)
<1> DEFINE s == <<x>> \o r
           t == <<y>> \o r
           e == [s EXCEPT ![1] = y]
<1>1. <<x>> \in Seq(S) /\ Len(<<x>>) = 1 /\ <<x>>[1] = x /\ <<y>> \in Seq(S) /\ Len(<<y>>) = 1 /\ <<y>>[1] = y OBVIOUS
<1>2. s \in Seq(S) /\ Len(s) = 1 + Len(r) /\ s[1] = x /\ \A i \in 1 .. Len(r) : s[1 + i] = r[i] BY <1>1, ConcatIs
<1>3. t \in Seq(S) /\ Len(t) = 1 + Len(r) /\ t[1] = y /\ \A i \in 1 .. Len(r) : t[1 + i] = r[i] BY <1>1, ConcatIs
<1>4. Tail(s) = r OBVIOUS
<1> HIDE DEF s, t
<1>5. DOMAIN s = 1 .. 1 + Len(r) /\ DOMAIN t = 1 .. 1 + Len(r) /\ t = [i \in 1 .. 1 + Len(r) |-> t[i]] /\ Len(r) \in Nat
  <2>1. DOMAIN s = 1 .. Len(s) /\ DOMAIN t = 1 .. Len(t) /\ t = [i \in DOMAIN t |-> t[i]] BY <1>2, <1>3
  <2>2. Len(r) \in Nat BY LenProperties
  <2> QED BY <1>2, <1>3, <2>1, <2>2
<1>6. e = [i \in 1 .. 1 + Len(r) |-> IF i = 1 THEN y ELSE s[i]] BY <1>5
<1>7. ASSUME NEW i \in 1 .. 1 + Len(r) PROVE t[i] = IF i = 1 THEN y ELSE s[i]
  <2>1. CASE i = 1 BY <1>3, <2>1
  <2>2. CASE i # 1
    <3>1. i - 1 \in 1 .. Len(r) /\ 1 + (i - 1) = i BY <1>5, <2>2
    <3> DEFINE j == i - 1
    <3>2. t[1 + j] = r[j] /\ s[1 + j] = r[j] BY <1>2, <1>3, <3>1
    <3> QED BY <2>2, <3>1, <3>2
  <2> QED BY <2>1, <2>2
<1>8. e = t
  <2> HIDE DEF e
  <2> QED BY <1>5, <1>6, <1>7
<1> QED BY <1>2, <1>4, <1>8 DEF s, t

LEMMA TwoVectors ==
  ASSUME NEW S, NEW x \in S, NEW y \in S
  PROVE  <<x, y>> = <<x>> \o <<y>>
<1> DEFINE s == <<x>> \o <<y>>
           t == <<x, y>>
<1>1. <<x>> \in Seq(S) /\ <<y>> \in Seq(S) /\ Len(<<x>>) = 1 /\ Len(<<y>>) = 1 OBVIOUS
<1>2. s \in Seq(S) /\ Len(s) = 2 /\ s[1] = x /\ s[2] = y BY <1>1
<1>3. t \in Seq(S) /\ Len(t) = 2 /\ t[1] = x /\ t[2] = y OBVIOUS
<1> HIDE DEF s, t
<1>4. \A i \in 1 .. 2 : s[i] = t[i] BY <1>2, <1>3
<1>5. s = t BY <1>2, <1>3, <1>4, SeqEqual
<1> QED BY <1>5 DEF s, t

LEMMA PublishVectorsAre ==
  ASSUME NEW p \in PublishInfo, NEW id \in Word, NEW n \in Nat, n <= MaxRemaining
  PROVE  LET v == PublishVectors(p, id, n)
             b == <<PublishByte(p)>> \o EncodeRemainingLength(n) \o PublishBody(p, id)
         IN /\ v \in Seq(Seq(Byte)) /\ v # <<>> /\ FlattenSeq(v) = b
            /\ StoredPacket(v) \in Seq(Byte)
            /\ StoredPacket(v) = <<UpdateDuplicatePublishFlag(b[1], TRUE)>> \o Tail(b)
<1> DEFINE t == PublishByte(p)
           o == UpdateDuplicatePublishFlag(t, TRUE)
           e == EncodeRemainingLength(n)
           tl == Len(p.topic)
           u == U16(tl)
           k == RemainingLengthEncodedSize(n)
           eu == e \o u
           hb == <<t>> \o eu
           topic == p.topic
           y == IF p.qos > 0 THEN U16(id) ELSE <<>>
           Y == IF p.qos > 0 THEN <<U16(id)>> ELSE <<>>
           z == p.payload
           Z == IF p.payload # <<>> THEN <<p.payload>> ELSE <<>>
           v == PublishVectors(p, id, n)
           b == <<t>> \o e \o PublishBody(p, id)
<1>1. t \in Byte /\ o \in Byte BY PublishByteIs, Zenon
<1>2. e \in Seq(Byte) /\ Len(e) = k /\ k \in 1 .. 4 BY EncodedBytes
<1>3. topic \in Text /\ z \in Seq(Byte) BY PublishBodyIs
<1>4. topic \in Seq(Byte) /\ u \in Seq(Byte) /\ Len(u) = 2
  <2>1. topic \in Seq(Byte) /\ tl \in Nat /\ tl < 65536 BY <1>3, TextIs, SMT
  <2> HIDE DEF tl
  <2>2. tl \in Word BY <2>1, WordIs, SMT
  <2>3. U16(tl) \in Seq(Byte) /\ Len(U16(tl)) = 2 BY <2>2, WordBytes
  <2>4. topic \in Seq(Byte) BY <2>1, SMT
  <2> QED BY <2>3, <2>4
<1>5. U16(id) \in Seq(Byte) /\ <<>> \in Seq(Byte) /\ <<>> \in Seq(Seq(Byte)) /\ FlattenSeq(<<>>) = <<>> BY WordBytes, Nothing
<1>6. <<U16(id)>> \in Seq(Seq(Byte)) /\ FlattenSeq(<<U16(id)>>) = U16(id) BY <1>5, OneVector
<1>7. y \in Seq(Byte) /\ Y \in Seq(Seq(Byte)) /\ FlattenSeq(Y) = y
  <2>1. CASE p.qos > 0
    <3>1. y = U16(id) /\ Y = <<U16(id)>> BY <2>1
    <3> HIDE DEF y, Y
    <3> QED BY <1>5, <1>6, <3>1
  <2>2. CASE ~(p.qos > 0)
    <3>1. y = <<>> /\ Y = <<>> BY <2>2
    <3> HIDE DEF y, Y
    <3> QED BY <1>5, <3>1
  <2> QED BY <2>1, <2>2
<1>8. Z \in Seq(Seq(Byte)) /\ FlattenSeq(Z) = z
  <2>1. CASE z = <<>>
    <3>1. Z = <<>> BY <2>1
    <3> HIDE DEF Z, z
    <3> QED BY <1>5, <2>1, <3>1
  <2>2. CASE z # <<>>
    <3>1. Z = <<z>> BY <2>2
    <3> HIDE DEF Z, z
    <3> QED BY <1>3, <3>1, OneVector
  <2> QED BY <2>1, <2>2
<1>9. eu \in Seq(Byte) /\ Len(eu) = k + 2
  <2> HIDE DEF e, u
  <2>1. eu \in Seq(Byte) /\ Len(eu) = Len(e) + Len(u) BY <1>2, <1>4, CatBytes
  <2> QED BY <1>2, <1>4, <2>1
<1> HIDE DEF t, o, e, u, k
<1>10. (<<t>> \o e) \o u = hb
  <2>1. <<t>> \in Seq(Byte) BY <1>1
  <2> QED BY <1>2, <1>4, <2>1, Joins
<1> HIDE DEF eu
<1>11. hb \in Seq(Byte) /\ Len(hb) = k + 3 /\ hb[1] = t /\ Tail(hb) = eu /\ [hb EXCEPT ![1] = o] = <<o>> \o eu
  <2>1. Len(hb) = 1 + Len(eu) /\ hb \in Seq(Byte) BY <1>1, <1>9, ConsBytes
  <2>2. hb[1] = t /\ Tail(hb) = eu /\ [hb EXCEPT ![1] = o] = <<o>> \o eu
    <3> HIDE DEF Byte
    <3> QED BY <1>1, <1>9, NewFront
  <2>3. Len(hb) = k + 3
    <3> HIDE DEF hb
    <3> QED BY <1>2, <1>9, <2>1
  <2> QED BY <2>1, <2>2, <2>3
<1> DEFINE r == (<<topic>> \o Y) \o Z
<1>12. v = (<<hb, topic>> \o Y) \o Z
  <2> DEFINE h == SerializePublishHeaderWithoutTopic(p, n)
  <2>1. h.bytes = hb /\ h.size = 1 + k + 2
    <3>1. h = [bytes |-> (<<t>> \o e) \o u, size |-> 1 + k + 2]
      BY Zenon DEF SerializePublishHeaderWithoutTopic, t, e, u, k, PublishByte
    <3> HIDE DEF h, hb
    <3>2. h.bytes = (<<t>> \o e) \o u /\ h.size = 1 + k + 2 BY <3>1
    <3> QED BY <1>10, <3>2
  <2>2. SubSeq(h.bytes, 1, h.size) = hb
    <3> HIDE DEF h, hb
    <3>1. h.size = Len(hb) BY <1>2, <1>11, <2>1
    <3>2. SubSeq(hb, 1, Len(hb)) = hb
      <4> HIDE DEF Byte
      <4> QED BY <1>11, SubSeqFull
    <3> QED BY <2>1, <3>1, <3>2
  <2> QED BY <2>2, Zenon DEF PublishVectors
<1> HIDE DEF hb, y, Y, z, Z, topic
<1>13. <<topic>> \in Seq(Seq(Byte)) /\ FlattenSeq(<<topic>>) = topic BY <1>4, OneVector
<1> DEFINE tY == <<topic>> \o Y
           ty == topic \o y
<1>14. tY \in Seq(Seq(Byte)) /\ FlattenSeq(tY) = ty BY <1>7, <1>13, CatVectors
<1> HIDE DEF tY
<1>15. ty \in Seq(Byte) BY <1>4, <1>7, CatBytes
<1> HIDE DEF ty
<1>16. r \in Seq(Seq(Byte)) /\ FlattenSeq(r) = ty \o z BY <1>8, <1>14, CatVectors DEF tY
<1>17. v = <<hb>> \o r
  <2> DEFINE V == Seq(Byte)
  <2>1. <<hb>> \in Seq(V) /\ <<topic>> \in Seq(V) /\ Y \in Seq(V) /\ Z \in Seq(V) /\ tY \in Seq(V) BY <1>7, <1>8, <1>11, <1>13, <1>14
  <2>2. <<hb, topic>> = <<hb>> \o <<topic>>
    <3>1. hb \in V /\ topic \in V BY <1>4, <1>11
    <3> HIDE DEF V
    <3> QED BY <3>1, TwoVectors
  <2> HIDE DEF V
  <2>3. (<<hb>> \o <<topic>>) \o Y = <<hb>> \o (<<topic>> \o Y) BY <2>1, ConcatAssociative
  <2>4. (<<hb>> \o tY) \o Z = <<hb>> \o (tY \o Z) BY <2>1, ConcatAssociative
  <2> QED BY <1>12, <2>2, <2>3, <2>4, Zenon DEF tY
<1> HIDE DEF r, v
<1> DEFINE f == ty \o z
<1>18. f \in Seq(Byte) BY <1>3, <1>15, CatBytes DEF z
<1> HIDE DEF f
<1>19. v \in Seq(Seq(Byte)) /\ v # <<>> /\ FlattenSeq(v) = hb \o f
  <2>1. <<hb>> \in Seq(Seq(Byte)) /\ FlattenSeq(<<hb>>) = hb BY <1>11, OneVector
  <2>2. <<hb>> \o r \in Seq(Seq(Byte)) /\ FlattenSeq(<<hb>> \o r) = hb \o FlattenSeq(r) BY <1>16, <2>1, CatVectors
  <2>3. <<hb>> \o r # <<>> BY <1>16, <2>1
  <2> QED BY <1>16, <1>17, <2>2, <2>3 DEF f
<1>20. hb \o f = <<t>> \o (eu \o f) /\ eu \o f \in Seq(Byte)
  <2>1. <<t>> \in Seq(Byte) BY <1>1
  <2>2. (<<t>> \o eu) \o f = <<t>> \o (eu \o f) BY <1>9, <1>18, <2>1, Joins
  <2>3. eu \o f \in Seq(Byte) BY <1>9, <1>18, CatBytes
  <2> QED BY <2>2, <2>3 DEF hb
<1>21. hb \o f = b
  <2> DEFINE ut == u \o topic
             uty == ut \o y
             te == <<t>> \o e
  <2>1. te \in Seq(Byte)
    <3>1. <<t>> \in Seq(Byte) BY <1>1
    <3> QED BY <1>2, <3>1, CatBytes
  <2>2. ut \in Seq(Byte) BY <1>4, CatBytes
  <2> HIDE DEF te
  <2>3. (te \o u) \o f = te \o (u \o f) BY <1>4, <1>18, <2>1, Joins
  <2>4. u \o (ty \o z) = (u \o ty) \o z BY <1>3, <1>4, <1>15, Joins DEF z
  <2>5. u \o (topic \o y) = (u \o topic) \o y BY <1>4, <1>7, Joins
  <2>6. PublishBody(p, id) = (ut \o y) \o z BY Zenon DEF PublishBody, EncodeString, u, topic, y, z
  <2> QED BY <1>10, <2>3, <2>4, <2>5, <2>6, Zenon DEF f, ty, te
<1> DEFINE x == eu \o f
<1>22. b[1] = t /\ Tail(b) = x
  <2>1. x \in Seq(Byte) BY <1>20
  <2> HIDE DEF x
  <2>2. (<<t>> \o x)[1] = t /\ Tail(<<t>> \o x) = x
    <3> HIDE DEF Byte
    <3> QED BY <1>1, <2>1, NewFront
  <2> QED BY <1>20, <1>21, <2>2, Zenon DEF x
<1>23. StoredPacket(v) = <<o>> \o x /\ StoredPacket(v) \in Seq(Byte)
  <2>1. v[1] = hb
    <3> DEFINE V == Seq(Byte)
    <3>1. hb \in V /\ r \in Seq(V) BY <1>11, <1>16
    <3> HIDE DEF V
    <3> QED BY <1>17, <3>1, NewFront
  <2>2. StoredPacket(v) = FlattenSeq([v EXCEPT ![1] = [hb EXCEPT ![1] = o]])
    <3>1. [v EXCEPT ![1][1] = UpdateDuplicatePublishFlag(@, TRUE)]
            = [v EXCEPT ![1] = [v[1] EXCEPT ![1] = UpdateDuplicatePublishFlag(v[1][1], TRUE)]] BY Zenon
    <3>2. UpdateDuplicatePublishFlag(v[1][1], TRUE) = o BY <1>11, <2>1, Zenon DEF o
    <3> QED BY <2>1, <3>1, <3>2, Zenon DEF StoredPacket
  <2> DEFINE g == <<o>> \o eu
  <2>3. g \in Seq(Byte) BY <1>1, <1>9, ConsBytes
  <2>4. [hb EXCEPT ![1] = o] = g BY <1>11
  <2> HIDE DEF g
  <2>5. [v EXCEPT ![1] = g] = <<g>> \o r
    <3> DEFINE V == Seq(Byte)
    <3>1. hb \in V /\ g \in V /\ r \in Seq(V) BY <1>11, <1>16, <2>3
    <3> HIDE DEF V
    <3> QED BY <1>17, <3>1, NewFront
  <2>6. FlattenSeq(<<g>> \o r) = g \o FlattenSeq(r)
    <3>1. <<g>> \in Seq(Seq(Byte)) /\ FlattenSeq(<<g>>) = g BY <2>3, OneVector
    <3> QED BY <1>16, <3>1, CatVectors
  <2>7. FlattenSeq(r) = f BY <1>16 DEF f
  <2>8. g \o f = <<o>> \o x /\ g \o f \in Seq(Byte)
    <3>1. <<o>> \in Seq(Byte) BY <1>1
    <3>2. (<<o>> \o eu) \o f = <<o>> \o (eu \o f) BY <1>9, <1>18, <3>1, Joins
    <3>3. g \o f \in Seq(Byte) BY <1>18, <2>3, CatBytes
    <3> QED BY <3>2, <3>3 DEF g
  <2>9. StoredPacket(v) = g \o f BY <2>2, <2>4, <2>5, <2>6, <2>7, Zenon
  <2> QED BY <2>8, <2>9, Zenon
<1> HIDE DEF x, b
<1>24. v \in Seq(Seq(Byte)) /\ v # <<>> /\ FlattenSeq(v) = b /\ StoredPacket(v) \in Seq(Byte)
       /\ StoredPacket(v) = <<UpdateDuplicatePublishFlag(b[1], TRUE)>> \o Tail(b)
  BY <1>19, <1>21, <1>22, <1>23, Zenon DEF o
<1> QED BY <1>24, Zenon DEF v, b, t, e

LEMMA PublishMakes ==
  ASSUME JobIs, job.kind = "send", job.op = "publish"
  PROVE  LET p == job.p
             s == GetPublishPacketSize(Len(p.topic), Len(p.payload), p.qos)
             v == PublishVectors(p, job.id, s.remaining)
         IN Makes(IF PublishParamsOK(p, job.id) THEN s.status ELSE "BadParameter", <<v>>,
                  IF p.qos > 0 THEN StoredPacket(v) ELSE <<>>)
<1> DEFINE p == job.p
           id == job.id
           n == Len(PublishBody(p, id))
           s == GetPublishPacketSize(Len(p.topic), Len(p.payload), p.qos)
           st == IF PublishParamsOK(p, id) THEN s.status ELSE "BadParameter"
           v == PublishVectors(p, id, s.remaining)
           stored == IF p.qos > 0 THEN StoredPacket(v) ELSE <<>>
           b == PublishPacket(p, id)
<1>1. p \in PublishInfo /\ id \in Word BY Kinds DEF RequestOK
<1>2. \/ st = "BadParameter" /\ Copied = Refused("BadParameter")
      \/ /\ st = "Success" /\ s.remaining = n /\ n \in Nat /\ n <= MaxRemaining /\ Copied = Written(b)
  BY PublishCopied, Zenon
<1>3. CASE st = "BadParameter" /\ Copied = Refused("BadParameter")
  <2> HIDE DEF st, v, stored
  <2>1. Makes(st, <<v>>, stored) BY <1>3, Nothing DEF Makes, Refused
  <2> QED BY <2>1, Zenon DEF st, s, v, p, id, stored
<1>4. CASE st = "Success" /\ s.remaining = n /\ n \in Nat /\ n <= MaxRemaining /\ Copied = Written(b)
  <2> DEFINE w == PublishVectors(p, id, n)
             c == <<PublishByte(p)>> \o EncodeRemainingLength(n) \o PublishBody(p, id)
  <2>1. /\ w \in Seq(Seq(Byte)) /\ w # <<>> /\ FlattenSeq(w) = c
        /\ StoredPacket(w) \in Seq(Byte)
        /\ StoredPacket(w) = <<UpdateDuplicatePublishFlag(c[1], TRUE)>> \o Tail(c)
    BY <1>1, <1>4, PublishVectorsAre, Zenon
  <2>2. c = b BY Zenon DEF PublishPacket
  <2>3. v = w BY <1>4
  <2> HIDE DEF st, v, w, b, c
  <2>4. <<w>> \in Batches /\ <<w>> # <<>> /\ FlattenSeq(FlattenSeq(<<w>>)) = b BY <2>1, <2>2, OneBatch
  <2>5. b \in Seq(Byte) BY <2>1, <2>2, FlatBytes
  <2>6. Copied.status = "Success" /\ Copied.bytes = b BY <1>4 DEF Written
  <2>7. stored \in Seq(Byte) /\ (stored # <<>> => stored = <<UpdateDuplicatePublishFlag(b[1], TRUE)>> \o Tail(b))
    <3>1. CASE p.qos > 0
      <4>1. stored = StoredPacket(w) BY <2>3, <3>1, Zenon
      <4> QED BY <2>1, <2>2, <4>1, Zenon
    <3>2. CASE ~(p.qos > 0)
      <4>1. stored = <<>> BY <3>2, Zenon
      <4> QED BY <4>1, Nothing, Zenon
    <3> QED BY <3>1, <3>2
  <2> HIDE DEF stored
  <2>8. Makes(st, <<v>>, stored) BY <1>4, <2>3, <2>4, <2>5, <2>6, <2>7, Zenon DEF Makes
  <2> QED BY <2>8, Zenon DEF st, s, v, p, id, stored
<1> QED BY <1>2, <1>3, <1>4, Zenon

\* The header and the payload apart are the same packet.
LEMMA HeaderAndPayload ==
  ASSUME JobIs, job.kind = "send", job.op = "publish", Copied.status = "Success", ~(job.p.dup /\ job.p.qos = 0)
  PROVE  LET s == GetPublishPacketSize(Len(job.p.topic), Len(job.p.payload), job.p.qos)
         IN SerializePublishHeader(job.p, job.id, s.remaining, s.size - Len(job.p.payload)).bytes \o job.p.payload = Copied.bytes
<1> DEFINE p == job.p
           id == job.id
           pl == Len(p.payload)
           n == Len(PublishBody(p, id))
           s == GetPublishPacketSize(Len(p.topic), pl, p.qos)
           b == PublishPacket(p, id)
           size == s.size - pl
           h == SerializePublishHeader(p, id, s.remaining, size)
           c == SerializePublishCommon(p, n, id, FALSE)
<1>1. p \in PublishInfo /\ id \in Word BY Kinds DEF RequestOK
<1>2. Copied # Refused("BadParameter") BY DEF Refused
<1>3. /\ s.remaining = n /\ n \in Nat /\ n <= MaxRemaining
      /\ s.size = n + 1 + RemainingLengthEncodedSize(n) /\ pl <= n
      /\ p.topic # <<>> /\ PublishParamsOK(p, id)
      /\ Copied = Written(b)
  BY <1>2, PublishCopied, Zenon
<1>4. pl \in Nat BY <1>1, PublishBodyIs, Zenon
<1>5. Fits(n, s.size) BY <1>3, JustFits, Zenon
<1>6. RemainingLengthEncodedSize(n) \in 1 .. 4 BY <1>3, Sizes
<1>7. c \o p.payload = b
  <2>1. c \o p.payload = <<PublishByte(p)>> \o EncodeRemainingLength(n) \o PublishBody(p, id)
    BY <1>1, <1>3, CommonIs, Zenon
  <2> QED BY <2>1, Zenon DEF PublishPacket
<1> DEFINE k == RemainingLengthEncodedSize(n)
           z == s.size
<1>8. size # NoBuffer /\ size + pl = z
  <2>1. size = z - pl /\ z = n + 1 + k BY <1>3, Zenon
  <2>2. NoBuffer = -1 BY DEF NoBuffer
  <2> HIDE DEF k, n, pl, z, size
  <2>3. n \in Nat /\ pl \in Nat /\ pl <= n /\ k \in 1 .. 4 BY <1>3, <1>4, <1>6 DEF k
  <2> QED BY <2>1, <2>2, <2>3
<1>9. ~BadPublish(p, id) BY <1>3, Zenon DEF BadPublish, PublishParamsOK
<1> HIDE DEF size
<1>10. h = Written(c) BY <1>3, <1>5, <1>8, <1>9, Zenon DEF SerializePublishHeader, pl
<1> HIDE DEF h, c, b
<1>11. h.bytes = c /\ Copied.bytes = b BY <1>3, <1>10 DEF Written
<1>12. h.bytes \o p.payload = Copied.bytes BY <1>7, <1>11, Zenon
<1> QED BY <1>12, Zenon DEF h, size, s, pl

-----------------------------------------------------------------------------
(* The inductive invariant for what is sent                                *)

\* What is stored is the packet with DUP set.
StoredIs(stored) == stored # <<>> => stored = <<UpdateDuplicatePublishFlag(Copied.bytes[1], TRUE)>> \o Tail(Copied.bytes)

\* What is still to be written completes the packet.
SendInv ==
  job.kind = "send" =>
    /\ ctx.pc \in {"call", "write", "end"}
    /\ ctx.pc = "call" => net.out = <<>> /\ app.stored = <<>>
    /\ ctx.pc = "write" => /\ app.status = "Success" /\ Copied.status = "Success" /\ Copied.bytes \in Seq(Byte)
                           /\ ctx.vecs \in Batches /\ ctx.vecs # <<>> /\ StoredIs(app.stored)
                           /\ net.out \o FlattenSeq(FlattenSeq(ctx.vecs)) = Copied.bytes
    /\ ctx.pc = "end" => /\ IsPrefix(net.out, Copied.bytes) /\ StoredIs(app.stored)
                         /\ app.status = "BadParameter" <=> Copied.status = "BadParameter"
                         /\ app.status = "Success" => net.out = Copied.bytes

OtherInv == job.kind \notin {"send", "receive"} => ctx.pc = "end"

CopiedOf(j) ==
  CASE j.op = "connect" ->
         LET s == GetConnectPacketSize(j.c, j.will)
         IN IF s.status = "Success" THEN SerializeConnect(j.c, j.will, s.remaining, s.size) ELSE Refused(s.status)
    [] j.op = "subscribe" ->
         LET s == GetSubscribePacketSize(j.list)
         IN IF s.status = "Success" THEN SerializeSubscribe(j.list, j.id, s.remaining, s.size) ELSE Refused(s.status)
    [] j.op = "unsubscribe" ->
         LET s == GetUnsubscribePacketSize(j.list)
         IN IF s.status = "Success" THEN SerializeUnsubscribe(j.list, j.id, s.remaining, s.size) ELSE Refused(s.status)
    [] j.op = "publish" ->
         LET p == [j.p EXCEPT !.dup = @ /\ j.p.qos > 0]
             s == GetPublishPacketSize(Len(p.topic), Len(p.payload), p.qos)
             w == SerializePublish(p, j.id, s.remaining, s.size)
         IN IF s.status # "Success" THEN Refused(s.status)
            ELSE IF p = j.p \/ w.status # "Success" THEN w
            ELSE Written(<<w.bytes[1] + 8>> \o Tail(w.bytes))
    [] j.op = "ack" -> SerializeAck(j.type, j.id, 4)
    [] j.op = "ping" -> SerializePingreq(2)
    [] j.op = "disconnect" -> SerializeDisconnect(2)

LEMMA CopiedSame ==
  ASSUME job' = job
  PROVE  Copied' = Copied
<1>1. Copied = CopiedOf(job) BY Zenon DEF Copied, CopiedOf
<1>2. Copied' = CopiedOf(job') BY Zenon DEF Copied, CopiedOf
<1> QED BY <1>1, <1>2, Zenon

LEMMA BatchesAre == \A bs \in Batches : bs \in Seq(Seq(Seq(Byte)))
<1> DEFINE V == Seq(Seq(Byte))
           N == V \ {<<>>}
<1>1. \A bs \in Seq(N) : bs \in Seq(V)
  <2> HIDE DEF V
  <2> SUFFICES ASSUME NEW bs \in Seq(N) PROVE bs \in Seq(V) OBVIOUS
  <2>1. \A i \in 1 .. Len(bs) : bs[i] \in N BY ElementOfSeq
  <2>2. \A i \in 1 .. Len(bs) : bs[i] \in V BY <2>1
  <2>3. Len(bs) \in Nat /\ DOMAIN bs = 1 .. Len(bs) /\ bs = [i \in 1 .. Len(bs) |-> bs[i]]
    <3>1. DOMAIN bs = 1 .. Len(bs) /\ bs = [i \in DOMAIN bs |-> bs[i]] BY LenProperties
    <3>2. Len(bs) \in Nat BY LenProperties
    <3> QED BY <3>1, <3>2
  <2> QED BY <2>2, <2>3, ASequence
<1> QED BY <1>1 DEF Batches

LEMMA FrontOf ==
  ASSUME NEW s \in Seq(Byte), NEW u \in Seq(Byte)
  PROVE  IsPrefix(s, s \o u)
<1> HIDE DEF Byte
<1> DEFINE g == Len(s)
<1>1. Len(s \o u) = g + Len(u) /\ g \in Nat /\ Len(u) \in Nat BY ConcatProperties, LenProperties
<1>2. SubSeq(s \o u, 1, g) = SubSeq(s, 1, g)
  <2>1. CASE g = 0
    <3> HIDE DEF g
    <3> QED BY <1>1, <2>1, SubSeqEmpty
  <2>2. CASE g # 0
    <3>1. 1 \in 1 .. g /\ g \in 1 .. g BY <1>1, <2>2
    <3> QED BY <3>1, SubSeqOfConcat1
  <2> QED BY <2>1, <2>2
<1>3. Len(s) <= Len(s \o u) BY <1>1
<1> QED BY <1>2, <1>3 DEF IsPrefix

\* A request that is begun as Makes says.
LEMMA BeginKeeps ==
  ASSUME StreamShape, SendInv, job.kind = "send", ctx.pc = "call",
         NEW st, NEW batches, NEW stored, Makes(st, batches, stored), Begin(st, batches, stored)
  PROVE  StreamShape' /\ SendInv'
<1> DEFINE good == st = "Success"
<1>1. /\ ctx' = [ctx EXCEPT !.pc = IF good THEN "write" ELSE "end", !.vecs = IF good THEN batches ELSE <<>>]
      /\ app' = [app EXCEPT !.status = st, !.stored = IF good THEN stored ELSE <<>>]
      /\ job' = job /\ net' = net
  BY Zenon DEF Begin
<1>2. net.out = <<>> BY DEF SendInv
<1>3. /\ st \in {"Success", "BadParameter"} /\ Copied.status = st /\ Copied.bytes \in Seq(Byte)
      /\ st = "BadParameter" => Copied.bytes = <<>>
      /\ good => /\ batches \in Batches /\ batches # <<>> /\ stored \in Seq(Byte) /\ StoredIs(stored)
                 /\ FlattenSeq(FlattenSeq(batches)) = Copied.bytes
  BY Zenon DEF Makes, StoredIs
<1>4. Copied' = Copied BY <1>1, CopiedSame
<1>5. JobIs' BY <1>1 DEF StreamShape, JobIs
<1>6. <<>> \in Seq(Byte) /\ <<>> \in Seq(Seq(Seq(Byte))) OBVIOUS
<1>7. good => batches \in Seq(Seq(Seq(Byte))) BY <1>3, BatchesAre
<1>8. "Success" # "BadParameter" /\ "Success" \in Outcomes /\ "BadParameter" \in Outcomes BY DEF Outcomes
<1>9. StreamShape'
  <2> HIDE DEF good
  <2>1. (IF good THEN batches ELSE <<>>) \in Seq(Seq(Seq(Byte))) /\ (IF good THEN stored ELSE <<>>) \in Seq(Byte)
    BY <1>3, <1>6, <1>7, Zenon
  <2>2. (IF good THEN "write" ELSE "end") \in {"call", "write", "connack", "loop", "end"} OBVIOUS
  <2>3. st \in Outcomes BY <1>3, <1>8
  <2> DEFINE a == IF good THEN batches ELSE <<>>
             b == IF good THEN stored ELSE <<>>
             c == IF good THEN "write" ELSE "end"
  <2>4. ctx' = [ctx EXCEPT !.pc = c, !.vecs = a] /\ app' = [app EXCEPT !.status = st, !.stored = b] BY <1>1
  <2>5. a \in Seq(Seq(Seq(Byte))) /\ b \in Seq(Byte) /\ c \in {"call", "write", "connack", "loop", "end"} BY <2>1, <2>2
  <2> HIDE DEF a, b, c
  <2> QED BY <1>1, <1>5, <2>3, <2>4, <2>5 DEF StreamShape
<1>10. CASE good
  <2>1. /\ ctx'.pc = "write" /\ ctx'.vecs = batches /\ app'.status = "Success" /\ app'.stored = stored
        /\ job'.kind = "send" /\ net'.out = <<>>
    BY <1>1, <1>2, <1>10 DEF StreamShape
  <2> DEFINE f == FlattenSeq(FlattenSeq(batches))
  <2>2. f \in Seq(Byte) /\ f = Copied.bytes BY <1>3, <1>10
  <2> HIDE DEF f
  <2>3. <<>> \o f = f BY <2>2, CatNone
  <2>4. <<>> \o f = Copied'.bytes BY <1>4, <2>2, <2>3, Zenon
  <2>5. net'.out \o FlattenSeq(FlattenSeq(ctx'.vecs)) = Copied'.bytes BY <2>1, <2>4, Zenon DEF f
  <2>6. StoredIs(app.stored)' BY <1>3, <1>4, <1>10, <2>1, Zenon DEF StoredIs
  <2>7. "write" # "call" /\ "write" # "end" OBVIOUS
  <2>8. Copied'.status = "Success" /\ Copied'.bytes \in Seq(Byte) BY <1>3, <1>4, <1>10, Zenon
  <2>9. SendInv' BY <1>3, <1>10, <2>1, <2>5, <2>6, <2>7, <2>8, Zenon DEF SendInv
  <2> QED BY <1>9, <2>9
<1>11. CASE ~good
  <2>1. /\ ctx'.pc = "end" /\ app'.status = "BadParameter" /\ app'.stored = <<>>
        /\ job'.kind = "send" /\ net'.out = <<>>
    BY <1>1, <1>2, <1>3, <1>11 DEF StreamShape
  <2>2. Copied'.bytes = <<>> /\ Copied'.status = "BadParameter" BY <1>3, <1>4, <1>11, Zenon
  <2>3. IsPrefix(<<>>, <<>>)
    <3>1. <<>> \o <<>> = <<>> BY Nothing, CatNone
    <3> QED BY <3>1, Nothing, FrontOf
  <2>4. IsPrefix(net'.out, Copied'.bytes) BY <2>1, <2>2, <2>3, Zenon
  <2>5. StoredIs(app.stored)' BY <2>1, Zenon DEF StoredIs
  <2>6. "end" # "call" /\ "end" # "write" OBVIOUS
  <2>7. SendInv' BY <1>8, <2>1, <2>2, <2>4, <2>5, <2>6, Zenon DEF SendInv
  <2> QED BY <1>9, <2>7
<1> QED BY <1>10, <1>11

\* A batch and what is behind it, and what a write leaves of it.
LEMMA BatchIs ==
  ASSUME NEW bs \in Batches, bs # <<>>
  PROVE  /\ Head(bs) \in Seq(Seq(Byte)) /\ Head(bs) # <<>> /\ Tail(bs) \in Batches
         /\ FlattenSeq(FlattenSeq(bs)) = FlattenSeq(Head(bs)) \o FlattenSeq(FlattenSeq(Tail(bs)))
         /\ FlattenSeq(FlattenSeq(Tail(bs))) \in Seq(Byte)
<1> DEFINE V == Seq(Seq(Byte))
           N == V \ {<<>>}
           h == Head(bs)
           t == Tail(bs)
<1>1. bs \in Seq(N) BY DEF Batches
<1>2. h \in N /\ t \in Seq(N) /\ bs = <<h>> \o t
  <2> HIDE DEF N
  <2>1. h \in N /\ t \in Seq(N) BY <1>1, HeadTailProperties
  <2>2. bs = <<h>> \o t BY <1>1
  <2> QED BY <2>1, <2>2
<1>3. t \in Batches BY <1>2 DEF Batches
<1>4. h \in V /\ t \in Seq(V) /\ h # <<>>
  <2> HIDE DEF h, t
  <2>1. t \in Seq(V) BY <1>3, BatchesAre
  <2> QED BY <1>2, <2>1
<1> HIDE DEF h, t
<1>5. FlattenSeq(<<h>> \o t) = h \o FlattenSeq(t) /\ FlattenSeq(t) \in V
  <2>1. h \in Seq(Seq(Byte)) /\ t \in Seq(Seq(Seq(Byte))) BY <1>4
  <2> DEFINE B == Seq(Byte)
  <2> HIDE DEF B
  <2>2. h \in Seq(B) /\ t \in Seq(Seq(B)) BY <2>1 DEF B
  <2>3. FlattenSeq(<<h>> \o t) = h \o FlattenSeq(t) BY <2>2, FlatCons
  <2>4. FlattenSeq(t) \in Seq(B) BY <2>2, FlatType
  <2> QED BY <2>3, <2>4 DEF B
<1> DEFINE ft == FlattenSeq(t)
<1> HIDE DEF ft
<1>6. FlattenSeq(h \o ft) = FlattenSeq(h) \o FlattenSeq(ft) BY <1>4, <1>5, CatVectors DEF ft
<1>7. FlattenSeq(ft) \in Seq(Byte) BY <1>5, FlatBytes DEF ft
<1> QED BY <1>2, <1>3, <1>4, <1>5, <1>6, <1>7 DEF h, t, ft

LEMMA LeftIs ==
  ASSUME NEW rest \in Seq(Seq(Byte)), NEW bs \in Batches
  PROVE  LET left == (IF rest = <<>> THEN <<>> ELSE <<rest>>) \o bs
         IN /\ left \in Batches
            /\ FlattenSeq(FlattenSeq(left)) = FlattenSeq(rest) \o FlattenSeq(FlattenSeq(bs))
<1> DEFINE N == Seq(Seq(Byte)) \ {<<>>}
           left == (IF rest = <<>> THEN <<>> ELSE <<rest>>) \o bs
           f == FlattenSeq(bs)
<1>1. bs \in Seq(N) BY DEF Batches
<1>2. f \in Seq(Seq(Byte)) /\ FlattenSeq(f) \in Seq(Byte)
  <2>1. bs \in Seq(Seq(Seq(Byte))) BY BatchesAre
  <2> DEFINE B == Seq(Byte)
  <2> HIDE DEF B
  <2>2. bs \in Seq(Seq(B)) BY <2>1 DEF B
  <2>3. f \in Seq(B) BY <2>2, FlatType
  <2>4. f \in Seq(Seq(Byte)) BY <2>3 DEF B
  <2> HIDE DEF f
  <2> QED BY <2>4, FlatBytes
<1>3. CASE rest = <<>>
  <2>1. left = <<>> \o bs BY <1>3
  <2>2. <<>> \o bs = bs
    <3> HIDE DEF N
    <3> QED BY <1>1, ConcatEmptySeq
  <2>3. FlattenSeq(rest) = <<>> BY <1>3, Nothing
  <2>4. <<>> \o FlattenSeq(f) = FlattenSeq(f) BY <1>2, CatNone
  <2>5. left = bs BY <2>1, <2>2
  <2> HIDE DEF left
  <2> QED BY <2>3, <2>4, <2>5 DEF left
<1>4. CASE rest # <<>>
  <2>1. left = <<rest>> \o bs BY <1>4
  <2>2. rest \in N BY <1>4
  <2>3. <<rest>> \o bs \in Seq(N)
    <3> HIDE DEF N
    <3>1. <<rest>> \in Seq(N) BY <2>2
    <3> QED BY <1>1, <3>1, ConcatProperties
  <2>4. left \in Batches BY <2>1, <2>3 DEF Batches
  <2>5. FlattenSeq(<<rest>> \o bs) = rest \o f
    <3>1. bs \in Seq(Seq(Seq(Byte))) BY BatchesAre
    <3> DEFINE B == Seq(Byte)
    <3> HIDE DEF B
    <3>2. bs \in Seq(Seq(B)) /\ rest \in Seq(B) BY <3>1 DEF B
    <3> QED BY <3>2, FlatCons
  <2> HIDE DEF f, left
  <2>6. FlattenSeq(rest \o f) = FlattenSeq(rest) \o FlattenSeq(f) BY <1>2, CatVectors
  <2>7. FlattenSeq(FlattenSeq(left)) = FlattenSeq(rest) \o FlattenSeq(f) BY <2>1, <2>5, <2>6, Zenon
  <2> QED BY <2>4, <2>7 DEF left, f
<1> QED BY <1>3, <1>4

\* The front of a batch is that of its bytes, however it is written.
LEMMA RoomIs ==
  ASSUME NEW batch \in Seq(Seq(Byte)), batch # <<>>, NEW all \in BOOLEAN
  PROVE  LET room == IF all THEN FlattenSeq(batch) ELSE Head(batch)
         IN \A n \in 1 .. Len(room) :
              /\ n \in Nat /\ n <= Len(FlattenSeq(batch))
              /\ SubSeq(room, 1, n) = SubSeq(FlattenSeq(batch), 1, n)
<1> DEFINE f == FlattenSeq(batch)
           h == Head(batch)
           t == FlattenSeq(Tail(batch))
           room == IF all THEN f ELSE h
<1>1. f \in Seq(Byte) BY FlatBytes
<1>2. h \in Seq(Byte) /\ Tail(batch) \in Seq(Seq(Byte)) /\ batch = <<h>> \o Tail(batch)
  <2> DEFINE B == Seq(Byte)
  <2>1. batch \in Seq(B) OBVIOUS
  <2> HIDE DEF B
  <2>2. h \in B /\ Tail(batch) \in Seq(B) BY <2>1, HeadTailProperties
  <2>3. batch = <<h>> \o Tail(batch) BY <2>1
  <2> QED BY <2>2, <2>3 DEF B
<1>3. t \in Seq(Byte) BY <1>2, FlatBytes
<1>4. f = h \o t
  <2> DEFINE u == Tail(batch)
  <2>1. u \in Seq(Seq(Byte)) /\ batch = <<h>> \o u BY <1>2
  <2> HIDE DEF h, u
  <2>2. h \in Seq(Byte) BY <1>2 DEF h
  <2>3. FlattenSeq(<<h>> \o u) = h \o FlattenSeq(u) BY <2>1, <2>2, FlatCons
  <2> QED BY <2>1, <2>3 DEF u
<1> HIDE DEF f, h, t
<1>5. Len(f) = Len(h) + Len(t) /\ Len(f) \in Nat /\ Len(h) \in Nat /\ Len(t) \in Nat BY <1>1, <1>2, <1>3, <1>4, CatBytes, LenProperties
<1>6. ASSUME NEW n \in 1 .. Len(room)
      PROVE n \in Nat /\ n <= Len(f) /\ SubSeq(room, 1, n) = SubSeq(f, 1, n)
  <2>1. CASE all
    <3>1. room = f BY <2>1
    <3> HIDE DEF room
    <3>2. n \in Nat /\ n <= Len(f) BY <1>5, <3>1
    <3> QED BY <3>1, <3>2
  <2>2. CASE ~all
    <3>1. room = h BY <2>2
    <3> HIDE DEF room
    <3>2. n \in Nat /\ n <= Len(h) /\ n <= Len(f) /\ 1 \in 1 .. Len(h) /\ n \in 1 .. Len(h) BY <1>5, <3>1
    <3>3. SubSeq(h \o t, 1, n) = SubSeq(h, 1, n)
      <4> HIDE DEF Byte
      <4> QED BY <1>2, <1>3, <3>2, SubSeqOfConcat1
    <3> QED BY <1>4, <3>1, <3>2, <3>3
  <2> QED BY <2>1, <2>2
<1> QED BY <1>6 DEF f, h

LEMMA WriteKeeps ==
  ASSUME StreamShape, SendInv, job.kind = "send", Write
  PROVE  StreamShape' /\ SendInv'
<1> DEFINE batch == Head(ctx.vecs)
           room == IF job.writev THEN FlattenSeq(batch) ELSE Head(batch)
           tl == Tail(ctx.vecs)
           fb == FlattenSeq(batch)
           X == FlattenSeq(FlattenSeq(tl))
           out == net.out
           P == Copied.bytes
<1>1. ctx.pc = "write" /\ job' = job /\ app' = app BY DEF Write
<1>2. /\ app.status = "Success" /\ Copied.status = "Success" /\ P \in Seq(Byte)
      /\ ctx.vecs \in Batches /\ ctx.vecs # <<>> /\ StoredIs(app.stored)
      /\ out \o FlattenSeq(FlattenSeq(ctx.vecs)) = P
  BY <1>1 DEF SendInv
<1>3. PICK n \in 1 .. Len(room) :
        LET rest == Advance(batch, n)
            left == (IF rest = <<>> THEN <<>> ELSE <<rest>>) \o tl
        IN /\ net' = [net EXCEPT !.out = @ \o SubSeq(room, 1, n)]
           /\ ctx' = [ctx EXCEPT !.vecs = left, !.pc = IF left = <<>> THEN "end" ELSE @]
  BY Zenon DEF Write
<1> DEFINE rest == Advance(batch, n)
           left == (IF rest = <<>> THEN <<>> ELSE <<rest>>) \o tl
           f1 == SubSeq(fb, 1, n)
           f2 == FlattenSeq(rest)
<1>4. batch \in Seq(Seq(Byte)) /\ batch # <<>> /\ tl \in Batches /\ X \in Seq(Byte)
      /\ FlattenSeq(FlattenSeq(ctx.vecs)) = fb \o X
  BY <1>2, BatchIs
<1>5. job.writev \in BOOLEAN BY Kinds DEF StreamShape
<1>6. n \in Nat /\ n <= Len(fb) /\ SubSeq(room, 1, n) = f1
  <2> DEFINE w == job.writev  b == batch
  <2>1. w \in BOOLEAN /\ b \in Seq(Seq(Byte)) /\ b # <<>> BY <1>4, <1>5
  <2>2. n \in 1 .. Len(IF w THEN FlattenSeq(b) ELSE Head(b)) BY Zenon
  <2> HIDE DEF w, b
  <2>3. /\ n \in Nat /\ n <= Len(FlattenSeq(b))
        /\ SubSeq(IF w THEN FlattenSeq(b) ELSE Head(b), 1, n) = SubSeq(FlattenSeq(b), 1, n)
    BY <2>1, <2>2, RoomIs
  <2> QED BY <2>3 DEF w, b
<1>7. fb \in Seq(Byte) BY <1>4, FlatBytes
<1>8. rest \in Seq(Seq(Byte)) /\ f2 = SubSeq(fb, n + 1, Len(fb))
  <2> HIDE DEF batch
  <2> QED BY <1>4, <1>6, AdvanceIs
<1>9. left \in Batches /\ FlattenSeq(FlattenSeq(left)) = f2 \o X
  <2> HIDE DEF rest, tl
  <2> QED BY <1>4, <1>8, LeftIs
<1>10. net' = [net EXCEPT !.out = out \o f1]
       /\ ctx' = [ctx EXCEPT !.vecs = left, !.pc = IF left = <<>> THEN "end" ELSE "write"]
  BY <1>1, <1>3, <1>6, Zenon
<1>11. out \in Seq(Byte) BY DEF StreamShape
<1> HIDE DEF fb, X, out, left, rest, f2, P
<1>12. f1 \in Seq(Byte) /\ f2 \in Seq(Byte) /\ f1 \o f2 = fb
  <2> HIDE DEF Byte
  <2>1. Len(fb) \in Nat BY <1>7, LenProperties
  <2>2. 1 \in 1 .. Len(fb) + 1 /\ n \in 1 - 1 .. Len(fb) /\ Len(fb) \in n .. Len(fb) BY <1>6, <2>1
  <2>3. SubSeq(fb, 1, n) \o SubSeq(fb, n + 1, Len(fb)) = SubSeq(fb, 1, Len(fb)) BY <1>7, <2>2, ConcatAdjacentSubSeq
  <2>4. SubSeq(fb, 1, Len(fb)) = fb BY <1>7, SubSeqFull
  <2>5. f1 \in Seq(Byte)
    <3>1. \A i \in 1 .. n : fb[i] \in Byte BY <1>6, <1>7, <2>1
    <3>2. 1 \in Int /\ n \in Int BY <1>6
    <3> QED BY <3>1, <3>2, SubSeqProperties
  <2>6. f2 \in Seq(Byte)
    <3>1. \A i \in n + 1 .. Len(fb) : fb[i] \in Byte BY <1>6, <1>7, <2>1
    <3>2. n + 1 \in Int /\ Len(fb) \in Int BY <1>6, <2>1
    <3> QED BY <1>8, <3>1, <3>2, SubSeqProperties
  <2> QED BY <1>8, <2>3, <2>4, <2>5, <2>6
<1> HIDE DEF f1
<1> DEFINE out1 == out \o f1
<1>13. out1 \in Seq(Byte) BY <1>11, <1>12, CatBytes
<1> HIDE DEF out1
<1>14. out1 \o (f2 \o X) = P
  <2> DEFINE g == f2 \o X
  <2>1. g \in Seq(Byte) BY <1>4, <1>12, CatBytes
  <2>2. (f1 \o f2) \o X = f1 \o (f2 \o X) BY <1>4, <1>12, Joins
  <2> HIDE DEF g
  <2>3. (out \o f1) \o g = out \o (f1 \o g) BY <1>11, <1>12, <2>1, Joins
  <2> QED BY <1>2, <1>4, <1>12, <2>2, <2>3, Zenon DEF g, out1
<1>15. Copied' = Copied BY <1>1, CopiedSame
<1>16. JobIs' BY <1>1 DEF StreamShape, JobIs
<1>17. left \in Seq(Seq(Seq(Byte))) BY <1>9, BatchesAre
<1>18. StreamShape'
  <2> DEFINE c == IF left = <<>> THEN "end" ELSE "write"
  <2>1. c \in {"call", "write", "connack", "loop", "end"} OBVIOUS
  <2>2. ctx' = [ctx EXCEPT !.vecs = left, !.pc = c] /\ net' = [net EXCEPT !.out = out1] BY <1>10, Zenon DEF out1
  <2> HIDE DEF c
  <2> QED BY <1>1, <1>13, <1>16, <1>17, <2>1, <2>2 DEF StreamShape
<1>19. net'.out = out1 /\ ctx'.vecs = left /\ ctx'.pc = (IF left = <<>> THEN "end" ELSE "write") /\ job'.kind = "send"
       /\ app'.status = "Success" /\ app'.stored = app.stored
  <2> DEFINE c == IF left = <<>> THEN "end" ELSE "write"
  <2>1. ctx' = [ctx EXCEPT !.vecs = left, !.pc = c] /\ net' = [net EXCEPT !.out = out1] BY <1>10, Zenon DEF out1
  <2> HIDE DEF c
  <2>2. net'.out = out1 /\ ctx'.vecs = left /\ ctx'.pc = c BY <2>1 DEF StreamShape
  <2> QED BY <1>1, <1>2, <2>2 DEF c
<1>20. StoredIs(app.stored)' BY <1>2, <1>15, <1>19, Zenon DEF StoredIs
<1>21. Copied'.status = "Success" /\ Copied'.bytes \in Seq(Byte) /\ Copied'.bytes = P BY <1>2, <1>15, Zenon DEF P
<1>22. CASE left # <<>>
  <2>1. ctx'.pc = "write" BY <1>19, <1>22
  <2>2. net'.out \o FlattenSeq(FlattenSeq(ctx'.vecs)) = Copied'.bytes BY <1>9, <1>14, <1>19, <1>21, Zenon
  <2>3. "write" # "call" /\ "write" # "end" OBVIOUS
  <2>4. ctx'.vecs \in Batches /\ ctx'.vecs # <<>> BY <1>9, <1>19, <1>22, Zenon
  <2>5. SendInv' BY <1>19, <1>20, <1>21, <2>1, <2>2, <2>3, <2>4, Zenon DEF SendInv
  <2> QED BY <1>18, <2>5
<1>23. CASE left = <<>>
  <2>1. ctx'.pc = "end" BY <1>19, <1>23
  <2>2. FlattenSeq(FlattenSeq(left)) = <<>> BY <1>23, Nothing, Zenon
  <2>3. out1 = P
    <3>1. out1 \o <<>> = out1 BY <1>13, CatNone
    <3> QED BY <1>9, <1>14, <2>2, <3>1, Zenon
  <2>4. IsPrefix(P, P)
    <3>1. P \o <<>> = P /\ P \in Seq(Byte) BY <1>2, CatNone
    <3>2. IsPrefix(P, P \o <<>>) BY <3>1, Nothing, FrontOf
    <3> QED BY <3>1, <3>2, Zenon
  <2>5. "end" # "call" /\ "end" # "write" /\ "Success" # "BadParameter" OBVIOUS
  <2>6. net'.out = Copied'.bytes /\ IsPrefix(net'.out, Copied'.bytes) BY <1>19, <1>21, <2>3, <2>4, Zenon
  <2>7. SendInv' BY <1>19, <1>20, <1>21, <2>1, <2>5, <2>6, Zenon DEF SendInv
  <2> QED BY <1>18, <2>7
<1> QED BY <1>22, <1>23

LEMMA WriteFailsKeeps ==
  ASSUME StreamShape, SendInv, job.kind = "send", WriteFails
  PROVE  StreamShape' /\ SendInv'
<1> DEFINE F == FlattenSeq(FlattenSeq(ctx.vecs))
           out == net.out
           P == Copied.bytes
<1>1. ctx.pc = "write" /\ job' = job /\ net' = net /\ app' = [app EXCEPT !.status = "SendFailed"] BY DEF WriteFails, Stop
<1>2. PICK error \in BOOLEAN :
        ctx' = [ctx EXCEPT !.pc = "end", !.conn = IF error /\ @ = "Connected" THEN "DisconnectPending" ELSE @]
  BY Zenon DEF WriteFails
<1>3. /\ Copied.status = "Success" /\ ctx.vecs \in Batches /\ StoredIs(app.stored) /\ out \o F = P
  BY <1>1 DEF SendInv
<1>4. out \in Seq(Byte) BY DEF StreamShape
<1>5. F \in Seq(Byte)
  <2>1. ctx.vecs \in Seq(Seq(Seq(Byte))) BY <1>3, BatchesAre
  <2>2. FlattenSeq(ctx.vecs) \in Seq(Seq(Byte)) BY <2>1, FlatFlat, Zenon
  <2> QED BY <2>2, FlatBytes
<1> HIDE DEF F, out, P
<1>6. IsPrefix(out, P)
  <2>1. IsPrefix(out, out \o F) BY <1>4, <1>5, FrontOf
  <2> QED BY <1>3, <2>1, Zenon
<1>7. Copied' = Copied BY <1>1, CopiedSame
<1>8. JobIs' BY <1>1 DEF StreamShape, JobIs
<1>9. StreamShape'
  <2>1. "SendFailed" \in Outcomes BY DEF Outcomes
  <2> DEFINE c == IF error /\ ctx.conn = "Connected" THEN "DisconnectPending" ELSE ctx.conn
  <2>2. c \in {"NotConnected", "Connected", "DisconnectPending"} BY DEF StreamShape
  <2>3. ctx' = [ctx EXCEPT !.pc = "end", !.conn = c] BY <1>2
  <2> HIDE DEF c
  <2> QED BY <1>1, <1>8, <2>1, <2>2, <2>3 DEF StreamShape
<1>10. ctx'.pc = "end" /\ app'.status = "SendFailed" /\ app'.stored = app.stored /\ net'.out = out /\ job'.kind = "send"
  BY <1>1, <1>2 DEF StreamShape, out
<1>11. StoredIs(app.stored)' BY <1>3, <1>7, <1>10, Zenon DEF StoredIs
<1>12. Copied'.status = "Success" /\ Copied'.bytes = P BY <1>3, <1>7, Zenon DEF P
<1>13. "end" # "call" /\ "end" # "write" /\ "Success" # "BadParameter" /\ "SendFailed" # "BadParameter" /\ "SendFailed" # "Success" OBVIOUS
<1>14. SendInv' BY <1>6, <1>10, <1>11, <1>12, <1>13, Zenon DEF SendInv
<1> QED BY <1>9, <1>14

-----------------------------------------------------------------------------
(* The invariant of the whole stream                                       *)

StreamInv == StreamShape /\ ReceiveInv /\ SendInv /\ OtherInv

LEMMA StreamStart ==
  ASSUME StreamInit
  PROVE  StreamInv
<1>1. JobIs BY DEF StreamInit, JobIs
<1>2. <<>> \in Seq(Byte) /\ <<>> \in Seq(Seq(Byte)) /\ <<>> \in Seq(Seq(Seq(Byte))) OBVIOUS
<1>3. job.stream \in Seq(Byte)
  <2>1. job.kind # "receive" => job.stream = <<>> BY <1>1, Kinds
  <2>2. job.kind = "receive" => job.stream \in Seq(Byte) BY <1>1, Kinds
  <2> QED BY <1>2, <2>1, <2>2
<1>4. net = [in |-> job.stream, out |-> <<>>] /\ app = [handled |-> <<>>, stored |-> <<>>, status |-> "Success"]
  BY DEF StreamInit
<1>5. /\ ctx \in [conn: {"NotConnected", "Connected"}, pc: {"call", "connack", "end"}, buf: {<<>>}, vecs: {<<>>}]
      /\ job.kind = "receive" => ctx.pc = "connack" /\ ctx.conn = "NotConnected"
      /\ job.kind = "send" => ctx.pc = "call"
      /\ job.kind \notin {"send", "receive"} => ctx.pc = "end"
  <2> DEFINE cn == IF job.kind = "receive" \/ (job.kind = "send" /\ job.op = "connect") THEN "NotConnected" ELSE "Connected"
             pc == CASE job.kind = "send" -> "call" [] job.kind = "receive" -> "connack" [] OTHER -> "end"
  <2>1. ctx = [conn |-> cn, pc |-> pc, buf |-> <<>>, vecs |-> <<>>] BY Zenon DEF StreamInit
  <2>2. cn \in {"NotConnected", "Connected"} /\ (job.kind = "receive" => cn = "NotConnected") OBVIOUS
  <2>3. CASE job.kind = "send"
    <3>1. pc = "call" BY <2>3, Zenon
    <3> HIDE DEF cn, pc
    <3> QED BY <2>1, <2>2, <2>3, <3>1
  <2>4. CASE job.kind = "receive"
    <3>1. job.kind # "send" BY <2>4
    <3>2. pc = "connack" BY <2>4, <3>1, Zenon
    <3> HIDE DEF cn, pc
    <3> QED BY <2>1, <2>2, <2>4, <3>2
  <2>5. CASE job.kind \notin {"send", "receive"}
    <3>1. job.kind # "send" /\ job.kind # "receive" BY <2>5
    <3>2. pc = "end" BY <3>1, Zenon
    <3> HIDE DEF cn, pc
    <3> QED BY <2>1, <2>2, <2>5, <3>1, <3>2
  <2> QED BY <2>3, <2>4, <2>5
<1>6. StreamShape
  <2>1. ctx.buf = <<>> /\ ctx.vecs = <<>> BY <1>5
  <2>2. ctx \in [conn: {"NotConnected", "Connected", "DisconnectPending"}, pc: {"call", "write", "connack", "loop", "end"},
                 buf: Seq(Byte), vecs: Seq(Seq(Seq(Byte)))]
    BY <1>2, <1>5
  <2>3. Len(ctx.buf) < BufferSize BY <2>1, BufferSizeOK
  <2>4. net \in [in: Seq(Byte), out: Seq(Byte)] BY <1>2, <1>3, <1>4
  <2>5. "Success" \in Outcomes BY DEF Outcomes
  <2>6. app \in [handled: Seq(Seq(Byte)), stored: Seq(Byte), status: Outcomes] BY <1>2, <1>4, <2>5
  <2> QED BY <1>1, <2>2, <2>3, <2>4, <2>6 DEF StreamShape
<1>7. ReceiveInv BY <1>4, <1>5 DEF ReceiveInv
<1>8. SendInv BY <1>4, <1>5 DEF SendInv
<1>9. OtherInv BY <1>5 DEF OtherInv
<1> QED BY <1>6, <1>7, <1>8, <1>9 DEF StreamInv

LEMMA StreamStutters ==
  ASSUME StreamInv, UNCHANGED streamVars
  PROVE  StreamInv'
<1>1. job' = job /\ ctx' = ctx /\ net' = net /\ app' = app BY DEF streamVars
<1>2. Copied' = Copied BY <1>1, CopiedSame
<1>3. StreamShape' BY <1>1 DEF StreamInv, StreamShape, JobIs
<1>4. Session' = Session /\ Received' = Received /\ (Accepting' <=> Accepting) BY <1>1 DEF Session, Received, Accepting
<1>5. ReceiveInv' BY <1>1, <1>4 DEF StreamInv, ReceiveInv, InOrder
<1>6. SendInv'
  <2>1. SendInv BY DEF StreamInv
  <2> QED BY <1>1, <1>2, <2>1 DEF SendInv, StoredIs
<1>7. OtherInv' BY <1>1 DEF StreamInv, OtherInv
<1> QED BY <1>3, <1>5, <1>6, <1>7 DEF StreamInv

LEMMA CallKeeps ==
  ASSUME StreamInv, ctx.pc = "call", NEW st, NEW batches, NEW stored,
         job.kind = "send" => Makes(st, batches, stored), Begin(st, batches, stored)
  PROVE  StreamInv'
<1>1. JobIs /\ job' = job BY DEF StreamInv, StreamShape, Begin
<1>2. job.kind = "send"
  <2>1. job.kind = "receive" => ctx.pc # "call" BY DEF StreamInv, ReceiveInv
  <2>2. job.kind \notin {"send", "receive"} => ctx.pc # "call" BY DEF StreamInv, OtherInv
  <2> QED BY <2>1, <2>2
<1>3. StreamShape' /\ SendInv' BY <1>2, BeginKeeps DEF StreamInv
<1>4. ReceiveInv' /\ OtherInv' BY <1>1, <1>2 DEF ReceiveInv, OtherInv
<1> QED BY <1>3, <1>4 DEF StreamInv

LEMMA StreamSteps ==
  ASSUME StreamInv, StreamNext
  PROVE  StreamInv'
<1>1. JobIs /\ StreamShape /\ ReceiveInv /\ SendInv /\ OtherInv BY DEF StreamInv, StreamShape
<1>2. job' = job BY SameJob
<1>3. ctx.pc = "call" \/ ctx.pc = "write" => job.kind = "send" BY <1>1 DEF ReceiveInv, OtherInv
<1>4. ctx.pc = "connack" \/ ctx.pc = "loop" => job.kind = "receive" BY <1>1 DEF SendInv, OtherInv
<1>5. job.kind = "send" => ReceiveInv' /\ OtherInv' BY <1>2 DEF ReceiveInv, OtherInv
<1>6. job.kind = "receive" => SendInv' /\ OtherInv' BY <1>2 DEF SendInv, OtherInv
<1>7. CASE MQTT_Connect
  <2> DEFINE s == GetConnectPacketSize(job.c, job.will)
             st == IF job.will # <<>> /\ job.will[1].topic = <<>> THEN "BadParameter" ELSE s.status
             batches == <<ConnectVectors(job.c, job.will, s.remaining)>>
  <2>1. ctx.pc = "call" /\ job.op = "connect" /\ Begin(st, batches, <<>>) BY <1>7, Zenon DEF MQTT_Connect, Call
  <2>2. job.kind = "send" => Makes(st, batches, <<>>) BY <1>1, <2>1, ConnectMakes, Zenon
  <2> HIDE DEF st, batches
  <2> QED BY <2>1, <2>2, CallKeeps
<1>8. CASE MQTT_Subscribe
  <2> DEFINE s == GetSubscribePacketSize(job.list)
             st == IF job.id = 0 THEN "BadParameter" ELSE s.status
             batches == SubscribeBatches(job.list, job.id, s.remaining)
  <2>1. ctx.pc = "call" /\ job.op = "subscribe" /\ Begin(st, batches, <<>>) BY <1>8, Zenon DEF MQTT_Subscribe, Call
  <2>2. job.kind = "send" => Makes(st, batches, <<>>) BY <1>1, <2>1, SubscribeMakes, Zenon
  <2> HIDE DEF st, batches
  <2> QED BY <2>1, <2>2, CallKeeps
<1>9. CASE MQTT_Unsubscribe
  <2> DEFINE s == GetUnsubscribePacketSize(job.list)
             st == IF job.id = 0 THEN "BadParameter" ELSE s.status
             batches == UnsubscribeBatches(job.list, job.id, s.remaining)
  <2>1. ctx.pc = "call" /\ job.op = "unsubscribe" /\ Begin(st, batches, <<>>) BY <1>9, Zenon DEF MQTT_Unsubscribe, Call
  <2>2. job.kind = "send" => Makes(st, batches, <<>>) BY <1>1, <2>1, UnsubscribeMakes, Zenon
  <2> HIDE DEF st, batches
  <2> QED BY <2>1, <2>2, CallKeeps
<1>10. CASE MQTT_Publish
  <2> DEFINE p == job.p
             s == GetPublishPacketSize(Len(p.topic), Len(p.payload), p.qos)
             v == PublishVectors(p, job.id, s.remaining)
             st == IF PublishParamsOK(p, job.id) THEN s.status ELSE "BadParameter"
             stored == IF p.qos > 0 THEN StoredPacket(v) ELSE <<>>
             batches == <<v>>
  <2>1. ctx.pc = "call" /\ job.op = "publish" /\ Begin(st, batches, stored) BY <1>10, Zenon DEF MQTT_Publish, Call
  <2>2. job.kind = "send" => Makes(st, batches, stored) BY <1>1, <2>1, PublishMakes, Zenon
  <2> HIDE DEF st, batches, stored
  <2> QED BY <2>1, <2>2, CallKeeps
<1>11. CASE FixedPacket
  <2> DEFINE s == CASE job.op = "ping" -> SerializePingreq(2)
                    [] job.op = "disconnect" -> SerializeDisconnect(2)
                    [] OTHER -> SerializeAck(job.type, job.id, 4)
             st == s.status
             batches == <<<<s.bytes>>>>
  <2>1. ctx.pc = "call" /\ job.op \in {"ping", "disconnect", "ack"} /\ Begin(st, batches, <<>>) BY <1>11, Zenon DEF FixedPacket
  <2>2. job.op \in {"ack", "ping", "disconnect"} BY <2>1
  <2>3. job.kind = "send" => Makes(st, batches, <<>>) BY <1>1, <2>2, FixedMakes, Zenon
  <2> HIDE DEF st, batches
  <2> QED BY <2>1, <2>3, CallKeeps
<1>12. CASE Write
  <2>1. job.kind = "send" BY <1>3, <1>12 DEF Write
  <2> QED BY <1>1, <1>5, <1>12, <2>1, WriteKeeps DEF StreamInv
<1>13. CASE WriteFails
  <2>1. job.kind = "send" BY <1>3, <1>13 DEF WriteFails
  <2> QED BY <1>1, <1>5, <1>13, <2>1, WriteFailsKeeps DEF StreamInv
<1>14. CASE ReceiveConnack
  <2>1. job.kind = "receive" BY <1>4, <1>14 DEF ReceiveConnack
  <2> QED BY <1>1, <1>6, <1>14, <2>1, ConnackKeeps DEF StreamInv
<1>15. CASE ProcessLoop
  <2>1. job.kind = "receive" BY <1>4, <1>15 DEF ProcessLoop
  <2> QED BY <1>1, <1>6, <1>15, <2>1, LoopKeeps DEF StreamInv
<1>16. CASE DiscardStoredPacket
  <2>1. job.kind = "receive" BY <1>4, <1>16 DEF DiscardStoredPacket
  <2> QED BY <1>1, <1>6, <1>16, <2>1, DiscardKeeps DEF StreamInv
<1>17. CASE ReceiveFails
  <2>1. job.kind = "receive" BY <1>4, <1>17 DEF ReceiveFails
  <2> QED BY <1>1, <1>6, <1>17, <2>1, FailKeeps DEF StreamInv
<1> QED BY <1>7, <1>8, <1>9, <1>10, <1>11, <1>12, <1>13, <1>14, <1>15, <1>16, <1>17 DEF StreamNext

\* Whatever is sent or received, what is still to be written completes the
\* packet of the copying serializer, and what has been given and what is still
\* to be read are together the packets of the stream (sendMessageVector,
\* receiveSingleIteration).
THEOREM StreamInvariant == StreamSpec => []StreamInv
<1>1. StreamInit => StreamInv BY StreamStart
<1>2. StreamInv /\ [StreamNext]_streamVars => StreamInv'
  BY StreamSteps, StreamStutters
<1> QED BY <1>1, <1>2, PTL DEF StreamSpec

LEMMA StreamOrdered ==
  ASSUME StreamShape, ReceiveInv
  PROVE  FramesInOrder
<1>1. StreamTypeOK BY DEF StreamShape, StreamTypeOK
<1>2. /\ Session \in Seq(Byte) /\ Received = Packets(Session) /\ Received \in Seq(Seq(Byte))
      /\ IsPrefix(<<>>, Received)
  BY SessionIs
<1>3. job.kind = "receive" => InOrder
  <2> SUFFICES ASSUME job.kind = "receive" PROVE InOrder OBVIOUS
  <2>1. CASE ctx.pc = "connack"
    <3>1. ctx.conn = "NotConnected" /\ app.handled = <<>> BY <2>1 DEF ReceiveInv
    <3> QED BY <1>2, <3>1 DEF InOrder
  <2>2. CASE ctx.pc = "loop"
    <3>1. /\ app.status = "Success" /\ Accepting
          /\ Reading(Session, app.handled, ctx.buf \o net.in)
      BY <2>2 DEF ReceiveInv
    <3>2. app.handled \in Seq(Seq(Byte)) /\ ctx.buf \in Seq(Byte) /\ net.in \in Seq(Byte) BY DEF StreamShape
    <3>3. IsPrefix(app.handled, Received) BY <1>2, <3>1, <3>2, ReadingPrefix
    <3>4. net.in \o ctx.buf = <<>> => ctx.buf \o net.in = <<>> BY <3>2
    <3>5. net.in \o ctx.buf = <<>> => app.handled = Received BY <1>2, <3>1, <3>2, <3>4, ReadingPrefix
    <3> QED BY <3>1, <3>3, <3>5 DEF InOrder
  <2>3. CASE ctx.pc = "end" BY <2>3 DEF ReceiveInv
  <2>4. ctx.pc \in {"connack", "loop", "end"} BY DEF ReceiveInv
  <2> QED BY <2>1, <2>2, <2>3, <2>4
<1> QED BY <1>1, <1>3 DEF FramesInOrder, InOrder, Accepting

\* However the bytes of a server arrive, the client handles the packets
\* that fit into the buffer, once each, in order and whole, after a CONNACK
\* that lets the session begin; and the session ends at the first malformed one
\* (receiveConnack, receiveSingleIteration, discardStoredPacket).
THEOREM StreamFramesInOrder == StreamSpec => []FramesInOrder
<1>1. StreamInv => FramesInOrder BY StreamOrdered DEF StreamInv
<1> QED BY <1>1, StreamInvariant, PTL

-----------------------------------------------------------------------------
(* What a server reads in a request                                        *)

\* The bytes s are in d from at on.
Has(d, at, s) == at + Len(s) <= Len(d) + 1 /\ \A j \in 1 .. Len(s) : d[at + j - 1] = s[j]

LEMMA HasWhole == \A d \in Seq(Byte) : Has(d, 1, d)
<1> SUFFICES ASSUME NEW d \in Seq(Byte) PROVE Has(d, 1, d) OBVIOUS
<1>1. Len(d) \in Nat BY LenProperties
<1>2. \A j \in 1 .. Len(d) : d[1 + j - 1] = d[j] BY <1>1
<1> QED BY <1>1, <1>2 DEF Has

LEMMA HasSplit ==
  ASSUME NEW d \in Seq(Byte), NEW at \in Nat, NEW s \in Seq(Byte), NEW t \in Seq(Byte), Has(d, at, s \o t)
  PROVE  Has(d, at, s) /\ Has(d, at + Len(s), t)
<1> DEFINE u == s \o t
           m == Len(s)
           n == Len(t)
           l == Len(d)
<1>1. m \in Nat /\ n \in Nat /\ l \in Nat BY LenProperties
<1>2. Len(u) = m + n /\ (\A j \in 1 .. m : u[j] = s[j]) /\ (\A j \in 1 .. n : u[m + j] = t[j]) OBVIOUS
<1> HIDE DEF u
<1>3. at + (m + n) <= l + 1 /\ \A j \in 1 .. m + n : d[at + j - 1] = u[j] BY <1>2 DEF Has, u
<1>4. at + m <= l + 1 /\ (at + m) + n <= l + 1
  <2> HIDE DEF l, m, n
  <2> QED BY <1>1, <1>3
<1>5. \A j \in 1 .. m : d[at + j - 1] = s[j]
  <2>1. \A j \in 1 .. m : j \in 1 .. m + n BY <1>1
  <2> QED BY <1>2, <1>3, <2>1
<1>6. \A j \in 1 .. n : d[(at + m) + j - 1] = t[j]
  <2> SUFFICES ASSUME NEW j \in 1 .. n PROVE d[(at + m) + j - 1] = t[j] OBVIOUS
  <2> HIDE DEF m, n, l
  <2>1. m + j \in 1 .. m + n /\ at + (m + j) - 1 = (at + m) + j - 1 BY <1>1
  <2>2. d[at + (m + j) - 1] = u[m + j] BY <1>3, <2>1
  <2> QED BY <1>2, <2>1, <2>2
<1> QED BY <1>4, <1>5, <1>6 DEF Has

LEMMA HasSlice ==
  ASSUME NEW d \in Seq(Byte), NEW at \in Nat, at >= 1, NEW s \in Seq(Byte), Has(d, at, s)
  PROVE  /\ SubSeq(d, at, at + Len(s) - 1) = s
         /\ at + Len(s) = Len(d) + 1 => SubSeq(d, at, Len(d)) = s
<1> DEFINE m == Len(s)
           u == SubSeq(d, at, at + m - 1)
<1>1. m \in Nat /\ Len(d) \in Nat BY LenProperties
<1>2. at + m <= Len(d) + 1 /\ \A j \in 1 .. m : d[at + j - 1] = s[j] BY DEF Has
<1>3. u \in Seq(Byte) /\ Len(u) = m /\ \A j \in 1 .. m : u[j] = d[at + j - 1]
  <2> HIDE DEF m
  <2>1. at \in 1 .. Len(d) + 1 /\ at + m - 1 \in at - 1 .. Len(d) BY <1>1, <1>2
  <2> QED BY <1>1, <2>1
<1> HIDE DEF u
<1>4. u = s
  <2>1. \A j \in 1 .. m : u[j] = s[j] BY <1>2, <1>3
  <2> QED BY <1>3, <2>1
<1>5. at + m = Len(d) + 1 => at + m - 1 = Len(d) BY <1>1
<1> QED BY <1>4, <1>5 DEF u

LEMMA HasWord ==
  ASSUME NEW d \in Seq(Byte), NEW at \in Nat, at >= 1, NEW w \in Word, Has(d, at, U16(w))
  PROVE  Decode16(d, at) = w /\ at + 2 <= Len(d) + 1
<1> DEFINE u == U16(w)
<1>1. Len(u) = 2 /\ u[1] * 256 + u[2] = w
  <2>1. w \in Nat /\ w < 65536 BY WordIs
  <2> QED BY <2>1, U16Is
<1> HIDE DEF u
<1>2. at + Len(u) <= Len(d) + 1 /\ \A j \in 1 .. Len(u) : d[at + j - 1] = u[j] BY DEF Has, u
<1>3. 1 \in 1 .. 2 /\ 2 \in 1 .. 2 /\ at + 1 - 1 = at /\ at + 2 - 1 = at + 1 OBVIOUS
<1>4. d[at] = u[1] /\ d[at + 1] = u[2] BY <1>1, <1>2, <1>3
<1> QED BY <1>1, <1>2, <1>4 DEF Decode16

LEMMA HasString ==
  ASSUME NEW d \in Seq(Byte), NEW at \in Nat, at >= 1, NEW s \in Text, Has(d, at, EncodeString(s))
  PROVE  /\ Str(d, at) = s /\ Decode16(d, at) = Len(s) /\ Skip(d, at) = at + (2 + Len(s))
         /\ at + (2 + Len(s)) <= Len(d) + 1
<1> DEFINE n == Len(s)
           u == U16(n)
<1>1. s \in Seq(Byte) /\ n \in Nat /\ n \in Word
  <2>1. s \in Seq(Byte) /\ n \in Nat /\ n < 65536 BY TextIs
  <2> HIDE DEF n
  <2> QED BY <2>1, WordIs
<1>2. u \in Seq(Byte) /\ Len(u) = 2 BY <1>1, WordBytes
<1>3. EncodeString(s) = u \o s BY DEF EncodeString
<1> HIDE DEF u
<1>4. Has(d, at, u) /\ Has(d, at + 2, s) BY <1>1, <1>2, <1>3, HasSplit
<1> HIDE DEF n
<1>5. Decode16(d, at) = n BY <1>1, <1>4, HasWord DEF u
<1>6. SubSeq(d, at + 2, (at + 2) + Len(s) - 1) = s
  <2>1. at + 2 \in Nat /\ at + 2 >= 1 OBVIOUS
  <2> QED BY <1>1, <1>4, <2>1, HasSlice
<1>7. (at + 2) + n - 1 = at + 1 + n /\ at + 2 + n = at + (2 + n) BY <1>1
<1>8. Str(d, at) = s BY <1>5, <1>6, <1>7 DEF Str, n
<1>9. Skip(d, at) = at + (2 + n) BY <1>5, <1>7 DEF Skip
<1>10. (at + 2) + n <= Len(d) + 1 BY <1>4 DEF Has, n
<1>11. at + (2 + n) <= Len(d) + 1 BY <1>1, <1>7, <1>10
<1> QED BY <1>5, <1>8, <1>9, <1>11 DEF n

\* The body of the function in Filters.
Torn(d, width, i) == i = Len(d) \/ Skip(d, i) + width > Len(d) + 1
AfterFilter(d, width, i) == IF Torn(d, width, i) THEN Len(d) + 1 ELSE Skip(d, i) + width
FilterAt(d, width, i) ==
  IF Torn(d, width, i) THEN [filter |-> <<>>, qos |-> -1]
  ELSE [filter |-> Str(d, i), qos |-> IF width = 0 THEN 0 ELSE d[Skip(d, i)]]

LEMMA FiltersUnfold ==
  ASSUME NEW d \in Seq(Byte), NEW width \in {0, 1}, Len(d) >= 2
  PROVE  \E F : /\ Filters(d, width) = F[3]
                /\ \A i \in 3 .. Len(d) + 1 :
                     F[i] = IF i > Len(d) THEN <<>> ELSE <<FilterAt(d, width, i)>> \o F[AfterFilter(d, width, i)]
<1> DEFINE hi == Len(d) + 1
           body(f, i) == IF i > Len(d) THEN <<>> ELSE <<FilterAt(d, width, i)>> \o f[AfterFilter(d, width, i)]
           F == CHOOSE f : f = [i \in 3 .. hi |-> body(f, i)]
           Closed == {i \in 3 .. hi : i > Len(d)}
           next == [i \in 3 .. hi |-> AfterFilter(d, width, i)]
           out == [i \in 3 .. hi |-> FilterAt(d, width, i)]
<1>1. Filters(d, width) = F[3] BY Zenon DEF Filters, FilterAt, AfterFilter, Torn
<1>2. \E f : Onward(f, 3, hi, Closed, {}, next, out)
  <2>1. Len(d) \in Nat BY LenProperties
  <2>2. 3 \in Nat /\ hi \in Nat /\ 3 <= hi /\ hi \in Closed BY <2>1
  <2>3. ASSUME NEW i \in 3 .. hi, i \notin Closed PROVE next[i] \in i + 1 .. hi
    <3>1. i \in Nat /\ i >= 3 /\ i <= Len(d) BY <2>1, <2>3
    <3>2. next[i] = AfterFilter(d, width, i) OBVIOUS
    <3>3. CASE Torn(d, width, i)
      <4>1. next[i] = hi BY <3>2, <3>3 DEF AfterFilter
      <4> QED BY <2>1, <3>1, <4>1
    <3>4. CASE ~Torn(d, width, i)
      <4>1. i # Len(d) /\ ~(Skip(d, i) + width > hi) /\ next[i] = Skip(d, i) + width BY <3>2, <3>4 DEF AfterFilter, Torn
      <4>2. i + 1 <= Len(d) BY <2>1, <3>1, <4>1
      <4>3. Decode16(d, i) \in Nat BY <3>1, <4>2, Decode16Is
      <4>4. Skip(d, i) \in Nat /\ Skip(d, i) >= i + 1 BY <3>1, <4>3 DEF Skip
      <4> DEFINE s == Skip(d, i)
      <4> HIDE DEF s, hi, next
      <4>5. next[i] = s + width /\ s \in Nat /\ s >= i + 1 /\ width \in Nat /\ hi \in Nat /\ ~(s + width > hi)
        BY <2>2, <4>1, <4>4 DEF s
      <4> QED BY <3>1, <4>5
    <3> QED BY <3>3, <3>4
  <2> HIDE DEF Closed, next, out, hi
  <2>4. \A i \in 3 .. hi : i \notin Closed => next[i] \in i + 1 .. hi BY <2>3
  <2> QED BY <2>2, <2>4, OnwardExists
<1>3. \E f : f = [i \in 3 .. hi |-> body(f, i)]
  <2>1. PICK f : Onward(f, 3, hi, Closed, {}, next, out) BY <1>2
  <2>2. ASSUME NEW i \in 3 .. hi
        PROVE  body(f, i) = IF i \in Closed THEN <<>> ELSE IF i \in {} THEN f[next[i]] ELSE <<out[i]>> \o f[next[i]]
    OBVIOUS
  <2>3. f = [i \in 3 .. hi |-> IF i \in Closed THEN <<>> ELSE IF i \in {} THEN f[next[i]] ELSE <<out[i]>> \o f[next[i]]]
    BY <2>1, Zenon DEF Onward
  <2> HIDE DEF Closed, next, out, body, hi
  <2>4. f = [i \in 3 .. hi |-> body(f, i)] BY <2>2, <2>3
  <2> QED BY <2>4
<1>4. F = [i \in 3 .. hi |-> body(F, i)]
  <2> HIDE DEF F, body, hi
  <2> QED BY <1>3 DEF F
<1>5. \A i \in 3 .. hi : F[i] = body(F, i)
  <2> HIDE DEF F, body
  <2> QED BY <1>4
<1> HIDE DEF F
<1> QED BY <1>1, <1>5, Zenon

\* What a list says to the server.
ListSays(list, width) == [i \in 1 .. Len(list) |-> [filter |-> list[i].filter, qos |-> IF width = 0 THEN 0 ELSE list[i].qos]]

LEMMA TopicReads ==
  ASSUME NEW d \in Seq(Byte), NEW at \in Nat, at >= 1, NEW x \in Subscription, NEW width \in {0, 1},
         Has(d, at, TopicBytes(x, width))
  PROVE  /\ AfterFilter(d, width, at) = at + Len(TopicBytes(x, width))
         /\ FilterAt(d, width, at) = [filter |-> x.filter, qos |-> IF width = 0 THEN 0 ELSE x.qos]
         /\ at <= Len(d) /\ at + Len(TopicBytes(x, width)) <= Len(d) + 1
<1> DEFINE e == EncodeString(x.filter)
           n == Len(x.filter)
           q == <<x.qos>>
           sk == Skip(d, at)
<1>1. x.filter \in Text /\ n \in Nat /\ x.qos \in Byte BY TopicIs
<1>2. e \in Seq(Byte) /\ Len(e) = 2 + n BY <1>1, StringIs
<1>3. q \in Seq(Byte) /\ Len(q) = 1 /\ q[1] = x.qos BY <1>1
<1>4. Len(TopicBytes(x, width)) = n + 2 + width BY TopicIs
<1>5. width = 1 => Has(d, at, e) /\ Has(d, at + Len(e), q)
  <2> SUFFICES ASSUME width = 1 PROVE Has(d, at, e) /\ Has(d, at + Len(e), q) OBVIOUS
  <2>0. width # 0 OBVIOUS
  <2>1. TopicBytes(x, width) = e \o q BY <2>0, Zenon DEF TopicBytes
  <2> HIDE DEF e, q
  <2> QED BY <1>2, <1>3, <2>1, HasSplit
<1>6. width = 0 => Has(d, at, e)
  <2> SUFFICES ASSUME width = 0 PROVE Has(d, at, e) OBVIOUS
  <2>1. TopicBytes(x, width) = e BY Zenon DEF TopicBytes
  <2> QED BY <2>1
<1> HIDE DEF e, q
<1>7. Has(d, at, e) BY <1>5, <1>6
<1>8. Str(d, at) = x.filter /\ sk = at + (2 + n) /\ at + (2 + n) <= Len(d) + 1 BY <1>1, <1>7, HasString DEF e
<1>9. Len(d) \in Nat BY LenProperties
<1> HIDE DEF n
<1>10. width = 1 => d[sk] = x.qos /\ sk <= Len(d)
  <2> SUFFICES ASSUME width = 1 PROVE d[sk] = x.qos /\ sk <= Len(d) OBVIOUS
  <2>1. Has(d, sk, q) BY <1>2, <1>5, <1>8
  <2>2. 1 \in 1 .. Len(q) /\ sk + 1 - 1 = sk BY <1>1, <1>3, <1>8
  <2>3. sk + Len(q) <= Len(d) + 1 /\ d[sk + 1 - 1] = q[1] BY <2>1, <2>2 DEF Has
  <2>4. sk \in Nat BY <1>1, <1>8
  <2> HIDE DEF sk
  <2> QED BY <1>3, <1>9, <2>2, <2>3, <2>4
<1> HIDE DEF sk
<1>11. ~Torn(d, width, at)
  <2>1. at # Len(d) BY <1>1, <1>8, <1>9
  <2>2. ~(sk + width > Len(d) + 1)
    <3>1. CASE width = 0 BY <1>1, <1>8, <1>9, <3>1
    <3>2. CASE width = 1 BY <1>1, <1>8, <1>9, <1>10, <3>2
    <3> QED BY <3>1, <3>2
  <2> QED BY <2>1, <2>2 DEF Torn, sk
<1>12. AfterFilter(d, width, at) = sk + width BY <1>11 DEF AfterFilter, sk
<1>13. sk + width = at + (n + 2 + width) /\ at <= Len(d) BY <1>1, <1>8, <1>9
<1>14. FilterAt(d, width, at) = [filter |-> x.filter, qos |-> IF width = 0 THEN 0 ELSE x.qos]
  <2>1. FilterAt(d, width, at) = [filter |-> Str(d, at), qos |-> IF width = 0 THEN 0 ELSE d[sk]] BY <1>11 DEF FilterAt, sk
  <2>2. CASE width = 0 BY <1>8, <2>1, <2>2
  <2>3. CASE width = 1 BY <1>8, <1>10, <2>1, <2>3
  <2> QED BY <2>2, <2>3
<1>15. at + (n + 2 + width) <= Len(d) + 1
  <2>1. ~(sk + width > Len(d) + 1) BY <1>11 DEF Torn, sk
  <2>2. sk + width \in Nat BY <1>1, <1>8
  <2> QED BY <1>9, <1>13, <2>1, <2>2
<1> QED BY <1>4, <1>12, <1>13, <1>14, <1>15

LEMMA ListReads ==
  ASSUME NEW list \in Seq(Subscription), NEW width \in {0, 1}, NEW id \in Word
  PROVE  LET d == ListBody(list, id, width)
         IN Decode16(d, 1) = id /\ Filters(d, width) = ListSays(list, width)
<1> DEFINE d == ListBody(list, id, width)
           u == U16(id)
           T == TopicList(list, width)
           L == Len(list)
           R == ListSays(list, width)
           pos(i) == 3 + Len(FlattenSeq(SubSeq(T, 1, i - 1)))
<1>1. d \in Seq(Byte) /\ Len(d) = 2 + Len(FlattenSeq(T)) BY ListBodyIs
<1>2. u \in Seq(Byte) /\ Len(u) = 2 BY WordBytes
<1>3. T \in Seq(Seq(Byte)) /\ Len(T) = L /\ L \in Nat BY TopicListIs, LenProperties
<1>4. \A i \in 1 .. L : T[i] = TopicBytes(list[i], width) /\ list[i] \in Subscription BY TopicListIs
<1> DEFINE f == FlattenSeq(T)
<1>5. f \in Seq(Byte) /\ Len(f) \in Nat BY <1>3, FlatBytes, LenProperties
<1>6. d = u \o f BY DEF ListBody
<1> HIDE DEF d, u, T
<1>7. Has(d, 1, u) /\ Has(d, 3, f)
  <2> HIDE DEF f
  <2>1. Has(d, 1, u \o f) BY <1>1, <1>6, HasWhole
  <2>2. Has(d, 1, u) /\ Has(d, 1 + Len(u), f) BY <1>1, <1>2, <1>5, <2>1, HasSplit
  <2> QED BY <1>2, <2>2
<1>8. Decode16(d, 1) = id BY <1>1, <1>7, HasWord DEF u
<1>9. ASSUME NEW i \in 1 .. L
      PROVE  /\ pos(i) \in Nat /\ pos(i) >= 3 /\ Has(d, pos(i), T[i]) /\ pos(i + 1) = pos(i) + Len(T[i])
  <2> DEFINE fr == FlattenSeq(SubSeq(T, 1, i - 1))
             bk == FlattenSeq(SubSeq(T, i + 1, Len(T)))
             v == T[i]
  <2>1. /\ SubSeq(T, 1, i - 1) \in Seq(Seq(Byte)) /\ SubSeq(T, i + 1, Len(T)) \in Seq(Seq(Byte)) /\ v \in Seq(Byte)
        /\ f = fr \o (v \o bk) /\ FlattenSeq(SubSeq(T, 1, i)) = fr \o v
    BY <1>3, SplitAt
  <2>2. fr \in Seq(Byte) /\ bk \in Seq(Byte) BY <2>1, FlatBytes
  <2>3. (i + 1) - 1 = i OBVIOUS
  <2>4. pos(i) = 3 + Len(fr) OBVIOUS
  <2>5. pos(i + 1) = 3 + Len(fr \o v) BY <2>1, <2>3
  <2> HIDE DEF fr, bk, v, f, pos
  <2>6. v \o bk \in Seq(Byte) BY <2>1, <2>2, CatBytes
  <2>7. Has(d, 3 + Len(fr), v \o bk) BY <1>1, <1>7, <2>1, <2>2, <2>6, HasSplit
  <2>8. Len(fr) \in Nat /\ Len(v) \in Nat /\ Len(fr \o v) = Len(fr) + Len(v) BY <2>1, <2>2, CatBytes, LenProperties
  <2>9. 3 + Len(fr) \in Nat /\ 3 + Len(fr) >= 3 BY <2>8
  <2>10. Has(d, 3 + Len(fr), v) BY <1>1, <2>1, <2>2, <2>7, <2>9, HasSplit
  <2>11. 3 + Len(fr \o v) = (3 + Len(fr)) + Len(v) BY <2>8
  <2> QED BY <2>4, <2>5, <2>9, <2>10, <2>11 DEF v
<1>10. pos(1) = 3 /\ pos(L + 1) = Len(d) + 1
  <2>1. SubSeq(T, 1, 1 - 1) = <<>> BY <1>3
  <2>2. Len(FlattenSeq(<<>>)) = 0 BY Nothing
  <2>3. pos(1) = 3
    <3> DEFINE n == Len(FlattenSeq(SubSeq(T, 1, 1 - 1)))
    <3>1. n = 0 BY <2>1, <2>2, Zenon
    <3>2. pos(1) = 3 + n OBVIOUS
    <3> HIDE DEF n, pos
    <3> QED BY <3>1, <3>2
  <2>4. SubSeq(T, 1, (L + 1) - 1) = T
    <3>1. (L + 1) - 1 = Len(T) BY <1>3
    <3> QED BY <1>3, <3>1, SubSeqFull
  <2>5. pos(L + 1) = 3 + Len(f) BY <2>4
  <2> HIDE DEF pos, f
  <2>6. 3 + Len(f) = Len(d) + 1 BY <1>1, <1>5 DEF f
  <2> QED BY <2>3, <2>5, <2>6
<1> DEFINE S == [filter : Text, qos : 0 .. 2]
<1>11. /\ R \in Seq(S) /\ Len(R) = L
       /\ \A i \in 1 .. L : R[i] = [filter |-> list[i].filter, qos |-> IF width = 0 THEN 0 ELSE list[i].qos]
  <2>1. R = [i \in 1 .. L |-> [filter |-> list[i].filter, qos |-> IF width = 0 THEN 0 ELSE list[i].qos]] BY DEF ListSays
  <2>2. \A i \in 1 .. L : list[i].filter \in Text /\ list[i].qos \in 0 .. 2 BY <1>4 DEF Subscription
  <2> HIDE DEF L, R
  <2>3. \A i \in 1 .. L : R[i] \in S BY <2>1, <2>2
  <2>4. DOMAIN R = 1 .. L /\ R = [i \in 1 .. L |-> R[i]] BY <2>1
  <2> HIDE DEF S
  <2>5. R \in Seq(S) /\ Len(R) = L BY <1>3, <2>3, <2>4, ASequence
  <2> QED BY <2>1, <2>5
<1> HIDE DEF R, pos, f, S
<1>12. PICK F : /\ Filters(d, width) = F[3]
                /\ \A i \in 3 .. Len(d) + 1 :
                     F[i] = IF i > Len(d) THEN <<>> ELSE <<FilterAt(d, width, i)>> \o F[AfterFilter(d, width, i)]
  <2>1. Len(d) >= 2 BY <1>1, <1>5 DEF f
  <2> QED BY <1>1, <2>1, FiltersUnfold
<1>13. Len(d) \in Nat BY <1>1, LenProperties
<1>14. F[pos(L + 1)] = <<>>
  <2>1. pos(L + 1) \in 3 .. Len(d) + 1 /\ pos(L + 1) > Len(d) BY <1>1, <1>5, <1>10, <1>13 DEF f
  <2> QED BY <1>12, <2>1
<1>15. ASSUME NEW i \in 1 .. L PROVE F[pos(i)] = <<R[i]>> \o F[pos(i + 1)]
  <2> DEFINE x == list[i]
             p == pos(i)
  <2>1. x \in Subscription /\ T[i] = TopicBytes(x, width) BY <1>4
  <2>2. p \in Nat /\ p >= 3 /\ Has(d, p, TopicBytes(x, width)) /\ pos(i + 1) = p + Len(TopicBytes(x, width)) BY <1>9, <2>1
  <2> HIDE DEF x, p
  <2>3. p >= 1 BY <2>2
  <2>4. /\ AfterFilter(d, width, p) = pos(i + 1) /\ p <= Len(d)
        /\ FilterAt(d, width, p) = [filter |-> x.filter, qos |-> IF width = 0 THEN 0 ELSE x.qos]
    BY <1>1, <2>1, <2>2, <2>3, TopicReads
  <2>5. p \in 3 .. Len(d) + 1 /\ ~(p > Len(d)) BY <1>13, <2>2, <2>4
  <2>6. FilterAt(d, width, p) = R[i] BY <1>11, <2>4 DEF x
  <2>7. F[p] = <<FilterAt(d, width, p)>> \o F[AfterFilter(d, width, p)] BY <1>12, <2>5
  <2> QED BY <2>4, <2>6, <2>7 DEF p
<1>16. \A m \in Nat : m <= L => F[pos((L + 1) - m)] = SubSeq(R, (L + 1) - m, L)
  <2> DEFINE P(m) == m <= L => F[pos((L + 1) - m)] = SubSeq(R, (L + 1) - m, L)
             E == {m \in Nat : P(m)}
  <2>1. P(0)
    <3>1. (L + 1) - 0 = L + 1 /\ SubSeq(R, L + 1, L) = <<>> BY <1>3, <1>11
    <3> QED BY <1>14, <3>1
  <2>2. ASSUME NEW m \in Nat, P(m) PROVE P(m + 1)
    <3> SUFFICES ASSUME m + 1 <= L PROVE F[pos((L + 1) - (m + 1))] = SubSeq(R, (L + 1) - (m + 1), L) OBVIOUS
    <3> DEFINE i == (L + 1) - (m + 1)
    <3>1. i \in 1 .. L /\ i + 1 = (L + 1) - m /\ m <= L BY <1>3
    <3>2. F[pos(i + 1)] = SubSeq(R, i + 1, L) BY <2>2, <3>1
    <3> HIDE DEF i
    <3>3. F[pos(i)] = <<R[i]>> \o SubSeq(R, i + 1, L) BY <1>15, <3>1, <3>2
    <3>4. SubSeq(R, i, L) = <<R[i]>> \o SubSeq(R, i + 1, L)
      <4>1. i \in 1 .. Len(R) /\ L \in i .. Len(R) BY <1>3, <1>11, <3>1
      <4> QED BY <1>11, <4>1, SubSeqRecursiveFirst
    <3>5. F[pos(i)] = SubSeq(R, i, L) BY <3>3, <3>4
    <3> QED BY <3>5 DEF i
  <2>3. Nat \subseteq E
    <3> HIDE DEF P
    <3>1. 0 \in E BY <2>1
    <3>2. \A m \in Nat : m \in E => m + 1 \in E BY <2>2
    <3> HIDE DEF E
    <3> QED BY <3>1, <3>2, NatInduct
  <2> QED BY <2>3
<1>17. F[3] = R
  <2>1. L <= L /\ (L + 1) - L = 1 BY <1>3
  <2>2. F[pos(1)] = SubSeq(R, 1, L) BY <1>3, <1>16, <2>1
  <2>3. SubSeq(R, 1, L) = R BY <1>11, SubSeqFull
  <2> QED BY <1>10, <2>2, <2>3
<1>18. Decode16(d, 1) = id /\ Filters(d, width) = R BY <1>8, <1>12, <1>17
<1> QED BY <1>18 DEF d, R

LEMMA PacketReads ==
  ASSUME NEW d \in Seq(Byte), Len(d) <= MaxRemaining, NEW t \in Byte
  PROVE  LET b == <<t>> \o EncodeRemainingLength(Len(d)) \o d
             h == Header(b)
         IN b[1] = t /\ SubSeq(b, h.size + 1, Len(b)) = d /\ h.n = Len(d)
<1> DEFINE b == <<t>> \o EncodeRemainingLength(Len(d)) \o d
           k == RemainingLengthEncodedSize(Len(d))
           h == Header(b)
<1>1. b[1] = t /\ h = [size |-> k + 1, n |-> Len(d)] /\ SubSeq(b, k + 2, Len(b)) = d BY PacketIs
<1>2. k \in Nat
  <2>1. Len(d) \in Nat BY LenProperties
  <2>2. k \in 1 .. 4 BY <2>1, Sizes
  <2> HIDE DEF k
  <2> QED BY <2>2
<1> HIDE DEF b, k, h
<1>3. h.size + 1 = k + 2 /\ h.n = Len(d) BY <1>1, <1>2
<1>4. b[1] = t /\ SubSeq(b, h.size + 1, Len(b)) = d /\ h.n = Len(d) BY <1>1, <1>3
<1> QED BY <1>4, Zenon DEF b, h

LEMMA ListSaid ==
  ASSUME NEW list \in Seq(Subscription)
  PROVE  /\ list = ListSays(list, 1)
         /\ [i \in DOMAIN list |-> [list[i] EXCEPT !.qos = 0]] = ListSays(list, 0)
<1> DEFINE L == Len(list)
<1>1. L \in Nat /\ DOMAIN list = 1 .. L /\ list = [i \in 1 .. L |-> list[i]] /\ \A i \in 1 .. L : list[i] \in Subscription
  OBVIOUS
<1>2. \A i \in 1 .. L : /\ list[i] = [filter |-> list[i].filter, qos |-> list[i].qos]
                        /\ [list[i] EXCEPT !.qos = 0] = [filter |-> list[i].filter, qos |-> 0]
  BY <1>1 DEF Subscription
<1>3. ListSays(list, 1) = [i \in 1 .. L |-> [filter |-> list[i].filter, qos |-> list[i].qos]]
  <2>1. 1 # 0 OBVIOUS
  <2> QED BY <2>1, Zenon DEF ListSays
<1>4. ListSays(list, 0) = [i \in 1 .. L |-> [filter |-> list[i].filter, qos |-> 0]] BY Zenon DEF ListSays
<1>5. list = ListSays(list, 1) BY <1>1, <1>2, <1>3
<1>6. [i \in DOMAIN list |-> [list[i] EXCEPT !.qos = 0]] = ListSays(list, 0) BY <1>1, <1>2, <1>4
<1> QED BY <1>5, <1>6

LEMMA ListRequestSays ==
  ASSUME NEW list \in Seq(Subscription), NEW width \in {0, 1}, NEW id \in Word, NEW t \in Byte,
         Len(ListBody(list, id, width)) <= MaxRemaining
  PROVE  LET n == Len(ListBody(list, id, width))
             b == <<t>> \o EncodeRemainingLength(n) \o ListBody(list, id, width)
         IN Says(IF width = 1 THEN "subscribe" ELSE "unsubscribe", b) = <<t, id, ListSays(list, width)>>
<1> DEFINE body == ListBody(list, id, width)
           b == <<t>> \o EncodeRemainingLength(Len(body)) \o body
           h == Header(b)
           dd == SubSeq(b, h.size + 1, Len(b))
<1>1. body \in Seq(Byte) BY ListBodyIs
<1>2. Decode16(body, 1) = id /\ Filters(body, width) = ListSays(list, width) BY ListReads, Zenon
<1> HIDE DEF body
<1>3. b[1] = t /\ dd = body /\ h.n = Len(body) BY <1>1, PacketReads, Zenon DEF body
<1>4. Len(dd) = h.n BY <1>3, Zenon
<1>5. CASE width = 1
  <2>1. "subscribe" # "connect" OBVIOUS
  <2>2. Says("subscribe", b) = <<b[1], Decode16(dd, 1), Filters(dd, 1)>> BY <1>4, <2>1, Zenon DEF Says
  <2> HIDE DEF b, dd
  <2>3. Says("subscribe", b) = <<t, id, ListSays(list, width)>> BY <1>2, <1>3, <1>5, <2>2
  <2> QED BY <1>5, <2>3, Zenon DEF b, body
<1>6. CASE width = 0
  <2>1. "unsubscribe" # "connect" /\ "unsubscribe" # "subscribe" /\ width # 1 BY <1>6
  <2>2. Says("unsubscribe", b) = <<b[1], Decode16(dd, 1), Filters(dd, 0)>> BY <1>4, <2>1, Zenon DEF Says
  <2> HIDE DEF b, dd
  <2>3. Says("unsubscribe", b) = <<t, id, ListSays(list, width)>> BY <1>2, <1>3, <1>6, <2>2
  <2> QED BY <2>1, <2>3, Zenon DEF b, body
<1> QED BY <1>5, <1>6

LEMMA SubscribeSays ==
  ASSUME JobIs, job.kind = "send", job.op \in {"subscribe", "unsubscribe"}, Copied.status = "Success"
  PROVE  Says(job.op, Copied.bytes) = Asked
<1> DEFINE list == job.list
           id == job.id
           n(w) == Len(ListBody(list, id, w))
           b(t, w) == <<t>> \o EncodeRemainingLength(n(w)) \o ListBody(list, id, w)
<1>1. list \in Seq(Subscription) /\ id \in Word BY Kinds DEF RequestOK
<1>2. "BadParameter" # "Success" /\ Refused("BadParameter").status = "BadParameter" BY DEF Refused
<1>3. \A x : Written(x).bytes = x BY DEF Written
<1>4. CASE job.op = "subscribe"
  <2>1. n(1) <= MaxRemaining /\ Copied = Written(b(SUBSCRIBE, 1)) BY <1>2, <1>4, SubscribeCopied, Zenon
  <2>2. SUBSCRIBE \in Byte /\ SUBSCRIBE = 130
    <3>1. 130 \in Byte BY ByteIs
    <3> QED BY <3>1 DEF SUBSCRIBE
  <2>3. Says("subscribe", b(SUBSCRIBE, 1)) = <<SUBSCRIBE, id, ListSays(list, 1)>>
    <3>1. 1 \in {0, 1} OBVIOUS
    <3> QED BY <1>1, <2>1, <2>2, <3>1, ListRequestSays, Zenon
  <2>4. Copied.bytes = b(SUBSCRIBE, 1) BY <1>3, <2>1, Zenon
  <2>5. Asked = <<130, id, list>>
    <3>1. "subscribe" # "connect" OBVIOUS
    <3> QED BY <1>4, <3>1, Zenon DEF Asked
  <2>6. ListSays(list, 1) = list BY <1>1, ListSaid, Zenon
  <2> QED BY <1>4, <2>2, <2>3, <2>4, <2>5, <2>6, Zenon
<1>5. CASE job.op = "unsubscribe"
  <2>1. n(0) <= MaxRemaining /\ Copied = Written(b(UNSUBSCRIBE, 0)) BY <1>2, <1>5, UnsubscribeCopied, Zenon
  <2>2. UNSUBSCRIBE \in Byte /\ UNSUBSCRIBE = 162
    <3>1. 162 \in Byte BY ByteIs
    <3> QED BY <3>1 DEF UNSUBSCRIBE
  <2>3. Says("unsubscribe", b(UNSUBSCRIBE, 0)) = <<UNSUBSCRIBE, id, ListSays(list, 0)>>
    <3>1. 0 \in {0, 1} /\ 0 # 1 OBVIOUS
    <3> QED BY <1>1, <2>1, <2>2, <3>1, ListRequestSays, Zenon
  <2>4. Copied.bytes = b(UNSUBSCRIBE, 0) BY <1>3, <2>1, Zenon
  <2>5. Asked = <<162, id, [i \in DOMAIN list |-> [list[i] EXCEPT !.qos = 0]]>>
    <3>1. "unsubscribe" # "connect" /\ "unsubscribe" # "subscribe" OBVIOUS
    <3> QED BY <1>5, <3>1, Zenon DEF Asked
  <2>6. ListSays(list, 0) = [i \in DOMAIN list |-> [list[i] EXCEPT !.qos = 0]] BY <1>1, ListSaid, Zenon
  <2> QED BY <1>5, <2>2, <2>3, <2>4, <2>5, <2>6, Zenon
<1> QED BY <1>4, <1>5

LEMMA ShortLength ==
  ASSUME NEW n \in {0, 2}
  PROVE  EncodeRemainingLength(n) = <<n>> /\ n <= MaxRemaining
<1> DEFINE e == EncodeRemainingLength(n)
<1>1. n \in Nat /\ n <= MaxRemaining BY SMT DEF MaxRemaining
<1>2. RemainingLengthEncodedSize(n) = 1 BY SMT DEF RemainingLengthEncodedSize
<1>3. e = [i \in 1 .. 1 |-> ((n \div 128^(i - 1)) % 128) + Bit(i < 1, 7)] BY <1>1, <1>2, EncodeIs
<1> HIDE DEF e
<1>4. 1 \in 1 .. 1 /\ ~(1 < 1) /\ \A i \in 1 .. 1 : i = 1 OBVIOUS
<1>5. 128^(1 - 1) = 1 BY SMT
<1>6. e[1] = n
  <2> DEFINE x == 128^(1 - 1)
             z == Bit(1 < 1, 7)
  <2>1. e[1] = ((n \div x) % 128) + z BY <1>3, <1>4
  <2>2. z = 0 BY <1>4, Zenon DEF Bit
  <2>3. x = 1 BY <1>5
  <2> HIDE DEF x, z
  <2> QED BY <2>1, <2>2, <2>3
<1>7. e = [i \in 1 .. 1 |-> e[i]] BY <1>3
<1>8. e = <<n>> BY <1>4, <1>6, <1>7
<1> QED BY <1>1, <1>8 DEF e

LEMMA FixedSays ==
  ASSUME JobIs, job.kind = "send", job.op \in {"ack", "ping", "disconnect"}, Copied.status = "Success"
  PROVE  Says(job.op, Copied.bytes) = Asked
<1>1. \A x : Written(x).bytes = x BY DEF Written
<1>2. <<>> \in Seq(Byte) /\ Len(<<>>) = 0 OBVIOUS
<1>3. 2 # NoBuffer /\ 4 # NoBuffer /\ ~(2 < 2) /\ ~(4 < 4) BY SMT DEF NoBuffer
<1>4. /\ "ping" # "connect" /\ "ping" # "subscribe" /\ "ping" # "unsubscribe" /\ "ping" # "publish" /\ "ping" # "ack"
      /\ "disconnect" # "connect" /\ "disconnect" # "subscribe" /\ "disconnect" # "unsubscribe"
      /\ "disconnect" # "publish" /\ "disconnect" # "ack" /\ "disconnect" # "ping"
      /\ "ack" # "connect" /\ "ack" # "subscribe" /\ "ack" # "unsubscribe" /\ "ack" # "publish"
  OBVIOUS
<1>5. ASSUME NEW t \in Byte, NEW op \in {"ping", "disconnect"} PROVE Says(op, <<t, 0>>) = <<t>>
  <2> DEFINE d == <<>>
             b == <<t, 0>>
             h == Header(b)
             dd == SubSeq(b, h.size + 1, Len(b))
  <2>1. b = <<t>> \o EncodeRemainingLength(Len(d)) \o d /\ Len(d) <= MaxRemaining
    <3>1. EncodeRemainingLength(0) = <<0>> /\ 0 <= MaxRemaining BY ShortLength
    <3>2. b = <<t>> \o <<0>> \o <<>> OBVIOUS
    <3>3. Len(d) = 0 OBVIOUS
    <3> QED BY <3>1, <3>2, <3>3, Zenon
  <2> HIDE DEF d
  <2>2. d \in Seq(Byte) BY <1>2 DEF d
  <2> DEFINE c == <<t>> \o EncodeRemainingLength(Len(d)) \o d
  <2>3. c[1] = t /\ SubSeq(c, Header(c).size + 1, Len(c)) = d /\ Header(c).n = Len(d) BY <2>1, <2>2, PacketReads, Zenon
  <2> HIDE DEF c
  <2>4. b = c BY <2>1 DEF c
  <2> HIDE DEF b
  <2>5. b[1] = t /\ Len(dd) = h.n BY <2>3, <2>4
  <2>6. Says(op, b) = <<b[1]>>
    <3>1. op = "ping" \/ op = "disconnect" OBVIOUS
    <3>2. CASE op = "ping" BY <1>4, <2>5, <3>2, Zenon DEF Says
    <3>3. CASE op = "disconnect" BY <1>4, <2>5, <3>3, Zenon DEF Says
    <3> QED BY <3>1, <3>2, <3>3
  <2> QED BY <2>5, <2>6 DEF b
<1>6. CASE job.op = "ping"
  <2>1. Copied = SerializePingreq(2) BY <1>4, <1>6, Zenon DEF Copied
  <2>2. Copied.bytes = <<192, 0>> BY <1>1, <1>3, <2>1, Zenon DEF SerializePingreq, Fixed, PINGREQ
  <2>3. Asked = <<192>> BY <1>4, <1>6, Zenon DEF Asked
  <2>4. 192 \in Byte BY ByteIs
  <2> QED BY <1>5, <1>6, <2>2, <2>3, <2>4
<1>7. CASE job.op = "disconnect"
  <2>1. Copied = SerializeDisconnect(2) BY <1>4, <1>7, Zenon DEF Copied
  <2>2. Copied.bytes = <<224, 0>> BY <1>1, <1>3, <2>1, Zenon DEF SerializeDisconnect, Fixed, DISCONNECT
  <2>3. Asked = <<224>> BY <1>4, <1>7, Zenon DEF Asked
  <2>4. 224 \in Byte BY ByteIs
  <2> QED BY <1>5, <1>7, <2>2, <2>3, <2>4
<1>8. CASE job.op = "ack"
  <2> DEFINE t == job.type
             id == job.id
             d == U16(id)
             b == <<t, 2>> \o d
             h == Header(b)
             dd == SubSeq(b, h.size + 1, Len(b))
             c == <<t>> \o EncodeRemainingLength(Len(d)) \o d
  <2>1. Copied = SerializeAck(t, id, 4) BY <1>4, <1>8, Zenon DEF Copied
  <2>2. Copied = Written(b)
    <3>1. "BadParameter" # "Success" /\ Refused("BadParameter").status = "BadParameter" BY DEF Refused
    <3> QED BY <1>3, <2>1, <3>1, Zenon DEF SerializeAck
  <2>3. t \in Byte /\ id \in Word BY <1>8, Kinds DEF RequestOK
  <2>4. d \in Seq(Byte) /\ Len(d) = 2 BY <2>3, WordBytes
  <2>5. Has(d, 1, d) BY <2>4, HasWhole
  <2>6. Decode16(d, 1) = id BY <2>3, <2>4, <2>5, HasWord
  <2>7. Asked = <<t, id>> BY <1>4, <1>8, Zenon DEF Asked
  <2> HIDE DEF d, t, id
  <2>8. b = c /\ Len(d) <= MaxRemaining
    <3>1. EncodeRemainingLength(2) = <<2>> /\ 2 <= MaxRemaining BY ShortLength
    <3>2. <<t, 2>> = <<t>> \o <<2>> OBVIOUS
    <3> QED BY <2>4, <3>1, <3>2, Zenon
  <2>9. c[1] = t /\ SubSeq(c, Header(c).size + 1, Len(c)) = d /\ Header(c).n = Len(d)
    BY <2>3, <2>4, <2>8, PacketReads, Zenon
  <2> HIDE DEF c
  <2>10. b[1] = t /\ dd = d /\ Len(dd) = h.n BY <2>8, <2>9, Zenon
  <2>11. Says("ack", b) = <<b[1], Decode16(dd, 1)>> BY <1>4, <2>10, Zenon DEF Says
  <2>12. Copied.bytes = b BY <1>1, <2>2, Zenon
  <2>13. Says("ack", b) = <<t, id>> BY <2>6, <2>10, <2>11, Zenon
  <2> QED BY <1>8, <2>7, <2>12, <2>13, Zenon
<1> QED BY <1>6, <1>7, <1>8

LEMMA PublishReads ==
  ASSUME NEW p \in PublishInfo, NEW id \in Word
  PROVE  LET d == PublishBody(p, id)
             at == Skip(d, 1)
         IN /\ Str(d, 1) = p.topic
            /\ p.qos # 0 => Decode16(d, at) = id
            /\ SubSeq(d, at + (IF p.qos = 0 THEN 0 ELSE 2), Len(d)) = p.payload
<1> DEFINE x == EncodeString(p.topic)
           y == IF p.qos > 0 THEN U16(id) ELSE <<>>
           z == p.payload
           d == PublishBody(p, id)
           at == Skip(d, 1)
           two == IF p.qos = 0 THEN 0 ELSE 2
           n == Len(p.topic)
           xy == x \o y
<1>1. p.topic \in Text /\ z \in Seq(Byte) /\ p.qos \in {0, 1, 2} /\ n \in Nat BY PublishBodyIs
<1>2. d \in Seq(Byte) BY PublishBodyIs
<1>3. x \in Seq(Byte) /\ Len(x) = 2 + n BY <1>1, StringIs
<1>4. U16(id) \in Seq(Byte) /\ Len(U16(id)) = 2 BY WordBytes
<1>5. y \in Seq(Byte) /\ Len(y) = two /\ (p.qos # 0 => y = U16(id))
  <2>1. <<>> \in Seq(Byte) /\ Len(<<>>) = 0 OBVIOUS
  <2>2. CASE p.qos = 0
    <3>1. ~(p.qos > 0) BY <2>2
    <3>2. y = <<>> /\ two = 0 BY <2>2, <3>1, Zenon
    <3> QED BY <2>1, <2>2, <3>2, Zenon
  <2>3. CASE p.qos # 0
    <3>1. p.qos > 0 BY <1>1, <2>3
    <3>2. y = U16(id) /\ two = 2 BY <2>3, <3>1, Zenon
    <3> QED BY <1>4, <3>2, Zenon
  <2> QED BY <2>2, <2>3
<1>6. d = xy \o z BY DEF PublishBody
<1> HIDE DEF x, y, z, d
<1>7. xy \in Seq(Byte) /\ Len(xy) = Len(x) + Len(y) BY <1>3, <1>5, CatBytes
<1>8. Has(d, 1, xy \o z) BY <1>2, <1>6, HasWhole
<1>9. Has(d, 1, xy) /\ Has(d, 1 + Len(xy), z)
  <2> HIDE DEF xy
  <2> QED BY <1>1, <1>2, <1>7, <1>8, HasSplit
<1>10. Has(d, 1, x) /\ Has(d, 1 + Len(x), y) BY <1>2, <1>3, <1>5, <1>9, HasSplit
<1>11. Str(d, 1) = p.topic /\ at = 1 + (2 + n) BY <1>1, <1>2, <1>10, HasString DEF x
<1> HIDE DEF at, n
<1>12. at \in Nat /\ at >= 1 /\ at = 1 + Len(x) BY <1>1, <1>3, <1>11
<1>13. p.qos # 0 => Decode16(d, at) = id
  <2> SUFFICES ASSUME p.qos # 0 PROVE Decode16(d, at) = id OBVIOUS
  <2>1. Has(d, at, U16(id)) BY <1>5, <1>10, <1>12
  <2> QED BY <1>2, <1>12, <2>1, HasWord
<1>14. SubSeq(d, at + two, Len(d)) = z
  <2> DEFINE q == 1 + Len(xy)
             m == Len(z)
             l == Len(d)
  <2>1. two \in Nat BY <1>1
  <2> HIDE DEF two
  <2>2. q = at + two /\ q \in Nat /\ q >= 1 BY <1>3, <1>5, <1>7, <1>11, <1>12, <2>1
  <2>3. l = Len(xy) + m
    <3> HIDE DEF xy
    <3>1. Len(xy \o z) = Len(xy) + Len(z) BY <1>1, <1>7, CatBytes
    <3> QED BY <1>6, <3>1
  <2>4. m \in Nat /\ Len(xy) \in Nat BY <1>1, <1>7, LenProperties
  <2> HIDE DEF xy
  <2>5. q + m = l + 1
    <3> DEFINE v == Len(xy)
    <3> HIDE DEF v, m, l
    <3> QED BY <2>3, <2>4 DEF v
  <2>6. SubSeq(d, q, Len(d)) = z BY <1>1, <1>2, <1>9, <2>2, <2>5, HasSlice
  <2> QED BY <2>2, <2>6
<1> QED BY <1>11, <1>13, <1>14, Zenon DEF d, at, two, z

LEMMA PublishRequestSays ==
  ASSUME JobIs, job.kind = "send", job.op = "publish", Copied.status = "Success"
  PROVE  Says(job.op, Copied.bytes) = Asked
<1> DEFINE p == job.p
           id == job.id
           t == PublishByte(p)
           d == PublishBody(p, id)
           b == PublishPacket(p, id)
           h == Header(b)
           dd == SubSeq(b, h.size + 1, Len(b))
<1>1. p \in PublishInfo /\ id \in Word BY Kinds DEF RequestOK
<1>2. Copied.bytes = b /\ Len(d) <= MaxRemaining
  <2>1. Refused("BadParameter").status # "Success" /\ Written(b).bytes = b BY DEF Refused, Written
  <2> QED BY <2>1, PublishCopied, Zenon
<1>3. /\ t \in Byte /\ Kind(t) = 48 /\ (t \div 2) % 4 = p.qos
      /\ (Flag(t, 3) <=> p.dup) /\ (Flag(t, 0) <=> p.retain)
  BY <1>1, PublishByteIs
<1>4. Flag(t, 3) = p.dup /\ Flag(t, 0) = p.retain
  <2>1. p.dup \in BOOLEAN /\ p.retain \in BOOLEAN BY <1>1 DEF PublishInfo
  <2>2. Flag(t, 3) \in BOOLEAN /\ Flag(t, 0) \in BOOLEAN BY DEF Flag
  <2> HIDE DEF t
  <2> QED BY <1>3, <2>1, <2>2
<1>5. /\ Str(d, 1) = p.topic
      /\ p.qos # 0 => Decode16(d, Skip(d, 1)) = id
      /\ SubSeq(d, Skip(d, 1) + (IF p.qos = 0 THEN 0 ELSE 2), Len(d)) = p.payload
  BY <1>1, PublishReads, Zenon
<1>6. d \in Seq(Byte) BY <1>1, PublishBodyIs
<1> HIDE DEF t, d
<1>7. b = <<t>> \o EncodeRemainingLength(Len(d)) \o d BY DEF PublishPacket, t, d
<1>8. b[1] = t /\ dd = d /\ h.n = Len(d) BY <1>2, <1>3, <1>6, <1>7, PacketReads, ZenonT(60)
<1>9. Len(dd) = h.n BY <1>8, Zenon
<1>10. "publish" # "connect" /\ "publish" # "subscribe" /\ "publish" # "unsubscribe" OBVIOUS
<1> HIDE DEF b
<1>11. Says("publish", b) =
         <<Kind(b[1]), Flag(b[1], 3), (b[1] \div 2) % 4, Flag(b[1], 0), Str(dd, 1),
           IF (b[1] \div 2) % 4 = 0 THEN 0 ELSE Decode16(dd, Skip(dd, 1)),
           SubSeq(dd, Skip(dd, 1) + (IF (b[1] \div 2) % 4 = 0 THEN 0 ELSE 2), Len(dd))>>
  BY <1>9, <1>10, Zenon DEF Says
<1> HIDE DEF dd, h, p, id
<1>12. Says("publish", b) =
         <<48, p.dup, p.qos, p.retain, p.topic, IF p.qos = 0 THEN 0 ELSE Decode16(d, Skip(d, 1)), p.payload>>
  BY <1>3, <1>4, <1>5, <1>8, <1>11
<1>13. (IF p.qos = 0 THEN 0 ELSE Decode16(d, Skip(d, 1))) = (IF p.qos = 0 THEN 0 ELSE id) BY <1>5
<1>14. Asked = <<48, p.dup, p.qos, p.retain, p.topic, IF p.qos = 0 THEN 0 ELSE id, p.payload>>
  BY <1>10, Zenon DEF Asked, p, id
<1> QED BY <1>2, <1>12, <1>13, <1>14

LEMMA FieldReads ==
  ASSUME NEW d \in Seq(Byte), NEW at \in Nat, at >= 1, NEW o \in Optional(Text), Has(d, at, FieldBytes(o))
  PROVE  /\ o = IF o # <<>> THEN <<Str(d, at)>> ELSE <<>>
         /\ (IF o # <<>> THEN Skip(d, at) ELSE at) = at + Len(FieldBytes(o))
<1>1. CASE o = <<>>
  <2>1. FieldBytes(o) = <<>> BY <1>1 DEF FieldBytes
  <2>2. at = at + Len(FieldBytes(o)) BY <2>1
  <2> QED BY <1>1, <2>2
<1>2. CASE o # <<>>
  <2> DEFINE s == o[1]
  <2>1. s \in Text /\ Len(o) = 1 BY <1>2, OptionalIs
  <2>2. FieldBytes(o) = EncodeString(s) BY <1>2 DEF FieldBytes
  <2>3. o = <<s>>
    <3>1. o \in Seq(Text) BY DEF Optional
    <3> QED BY <2>1, <3>1
  <2> HIDE DEF s
  <2>4. Str(d, at) = s /\ Skip(d, at) = at + (2 + Len(s)) BY <2>1, <2>2, HasString
  <2>5. Len(EncodeString(s)) = 2 + Len(s) BY <2>1, StringIs
  <2> QED BY <1>2, <2>2, <2>3, <2>4, <2>5
<1> QED BY <1>1, <1>2

LEMMA WillReads ==
  ASSUME NEW d \in Seq(Byte), NEW at \in Nat, at >= 1, NEW w \in Optional(PublishInfo), ~WillTooLong(w),
         Has(d, at, WillBytes(w))
  PROVE  /\ w # <<>> => Str(d, at) = w[1].topic /\ Str(d, Skip(d, at)) = w[1].payload
         /\ (IF w # <<>> THEN Skip(d, Skip(d, at)) ELSE at) = at + Len(WillBytes(w))
<1>1. CASE w = <<>>
  <2>1. WillBytes(w) = <<>> BY <1>1 DEF WillBytes
  <2>2. at = at + Len(WillBytes(w)) BY <2>1
  <2> QED BY <1>1, <2>2
<1>2. CASE w # <<>>
  <2> DEFINE s == w[1].topic
             p == w[1].payload
             x == EncodeString(s)
             y == EncodeString(p)
             next == Skip(d, at)
  <2>1. s \in Text /\ p \in Text BY <1>2, WillIs
  <2>2. WillBytes(w) = x \o y BY <1>2, Zenon DEF WillBytes
  <2>3. x \in Seq(Byte) /\ Len(x) = 2 + Len(s) /\ y \in Seq(Byte) /\ Len(y) = 2 + Len(p)
    <3> HIDE DEF s, p
    <3> QED BY <2>1, StringIs
  <2>4. Len(s) \in Nat /\ Len(p) \in Nat
    <3> HIDE DEF s, p
    <3> QED BY <2>1, TextIs
  <2> HIDE DEF s, p
  <2>5. Has(d, at, x) /\ Has(d, at + Len(x), y)
    <3> HIDE DEF x, y
    <3> QED BY <2>2, <2>3, HasSplit
  <2>6. Str(d, at) = s /\ next = at + (2 + Len(s)) BY <2>1, <2>5, HasString
  <2> HIDE DEF x, y, next
  <2>7. next \in Nat /\ next >= 1 /\ Has(d, next, y) BY <2>3, <2>4, <2>5, <2>6
  <2>8. Str(d, next) = p /\ Skip(d, next) = next + (2 + Len(p)) BY <2>1, <2>7, HasString DEF y
  <2>9. Len(x \o y) = Len(x) + Len(y) BY <2>3, CatBytes
  <2>10. Skip(d, next) = at + Len(WillBytes(w)) BY <2>2, <2>3, <2>4, <2>6, <2>8, <2>9
  <2> QED BY <1>2, <2>6, <2>8, <2>10 DEF s, p, next
<1> QED BY <1>1, <1>2

LEMMA ConnectPlaces ==
  ASSUME NEW c \in ConnectInfo, NEW will \in Optional(PublishInfo), ~WillTooLong(will)
  PROVE  LET d == ConnectBody(c, will)
             client == Skip(d, 11)
             after == client + Len(WillBytes(will))
         IN /\ SubSeq(d, 1, 7) = <<0, 4, 77, 81, 84, 84, 4>> /\ d[8] = ConnectFlags(c, will)
            /\ Decode16(d, 9) = c.keepAlive /\ Str(d, 11) = c.client
            /\ client \in Nat /\ client >= 1 /\ Has(d, client, WillBytes(will))
            /\ after \in Nat /\ after >= 1 /\ Has(d, after, FieldBytes(c.user))
            /\ after + Len(FieldBytes(c.user)) \in Nat /\ after + Len(FieldBytes(c.user)) >= 1
            /\ Has(d, after + Len(FieldBytes(c.user)), FieldBytes(c.password))
<1> DEFINE p == EncodeString(Protocol)
           f == <<4, ConnectFlags(c, will)>>
           k == U16(c.keepAlive)
           i == EncodeString(c.client)
           w == WillBytes(will)
           u == FieldBytes(c.user)
           q == FieldBytes(c.password)
           d == ConnectBody(c, will)
           n == Len(c.client)
           client == Skip(d, 11)
<1>1. /\ c.keepAlive \in Word /\ c.client \in Text /\ c.user \in Optional(Text) /\ c.password \in Optional(Text)
  BY DEF ConnectInfo
<1>2. d \in Seq(Byte) BY ConnectBodyIs
<1>3. p = <<0, 4, 77, 81, 84, 84>>
  <2>1. Len(Protocol) = 4 BY DEF Protocol
  <2>2. U16(4) = <<0, 4>> BY SMT DEF U16
  <2>3. p = <<0, 4>> \o Protocol BY <2>1, <2>2 DEF EncodeString
  <2> QED BY <2>3 DEF Protocol
<1>4. p \in Seq(Byte) /\ Len(p) = 6
  <2>1. 0 \in Byte /\ 4 \in Byte /\ 77 \in Byte /\ 81 \in Byte /\ 84 \in Byte BY ByteIs
  <2> HIDE DEF p
  <2> QED BY <1>3, <2>1
<1>5. f \in Seq(Byte) /\ Len(f) = 2 /\ f[1] = 4 /\ f[2] = ConnectFlags(c, will)
  <2> DEFINE fl == ConnectFlags(c, will)
  <2>1. fl \in Byte /\ 4 \in Byte BY ConnectFlagsAre, ByteIs
  <2> HIDE DEF fl
  <2> QED BY <2>1 DEF fl
<1>6. k \in Seq(Byte) /\ Len(k) = 2 BY <1>1, WordBytes
<1>7. i \in Seq(Byte) /\ Len(i) = 2 + n /\ n \in Nat BY <1>1, StringIs, TextIs
<1>8. w \in Seq(Byte) BY WillIs
<1>9. u \in Seq(Byte) /\ q \in Seq(Byte) BY <1>1, OptionalIs
<1>10. d = (((((p \o f) \o k) \o i) \o w) \o u) \o q BY DEF ConnectBody
<1> HIDE DEF p, f, k, i, w, u, q, d
<1> DEFINE a == p \o f
           b == a \o k
           e == b \o i
           g == e \o w
           h == g \o u
<1>11. a \in Seq(Byte) /\ Len(a) = 8
  <2>1. a \in Seq(Byte) /\ Len(a) = Len(p) + Len(f) BY <1>4, <1>5, CatBytes
  <2> HIDE DEF a
  <2> QED BY <1>4, <1>5, <2>1
<1> HIDE DEF a
<1>12. b \in Seq(Byte) /\ Len(b) = 10
  <2>1. b \in Seq(Byte) /\ Len(b) = Len(a) + Len(k) BY <1>6, <1>11, CatBytes
  <2> HIDE DEF b
  <2> QED BY <1>6, <1>11, <2>1
<1> HIDE DEF b
<1>13. e \in Seq(Byte) /\ Len(e) = 12 + n
  <2>1. e \in Seq(Byte) /\ Len(e) = Len(b) + Len(i) BY <1>7, <1>12, CatBytes
  <2> HIDE DEF e, n
  <2> QED BY <1>7, <1>12, <2>1
<1> HIDE DEF e
<1>14. g \in Seq(Byte) /\ Len(g) = Len(e) + Len(w) BY <1>8, <1>13, CatBytes
<1> HIDE DEF g
<1>15. h \in Seq(Byte) /\ Len(h) = Len(g) + Len(u) BY <1>9, <1>14, CatBytes
<1> HIDE DEF h
<1>16. d = h \o q BY <1>10 DEF h, g, e, b, a
<1>17. Has(d, 1, h) /\ Has(d, 1 + Len(h), q) BY <1>2, <1>9, <1>15, <1>16, HasWhole, HasSplit
<1>18. Has(d, 1, g) /\ Has(d, 1 + Len(g), u) BY <1>2, <1>9, <1>14, <1>17, HasSplit DEF h
<1>19. Has(d, 1, e) /\ Has(d, 1 + Len(e), w) BY <1>2, <1>8, <1>13, <1>18, HasSplit DEF g
<1>20. Has(d, 1, b) /\ Has(d, 1 + Len(b), i) BY <1>2, <1>7, <1>12, <1>19, HasSplit DEF e
<1>21. Has(d, 1, a) /\ Has(d, 1 + Len(a), k) BY <1>2, <1>6, <1>11, <1>20, HasSplit DEF b
<1>22. Has(d, 1, p) /\ Has(d, 1 + Len(p), f) BY <1>2, <1>4, <1>5, <1>21, HasSplit DEF a
<1>23. SubSeq(d, 1, 7) = <<0, 4, 77, 81, 84, 84, 4>> /\ d[8] = ConnectFlags(c, will)
  <2>1. \A j \in 1 .. 6 : d[1 + j - 1] = p[j]
    <3>1. \A j \in 1 .. Len(p) : d[1 + j - 1] = p[j] BY <1>22 DEF Has
    <3> QED BY <1>4, <3>1
  <2>2. \A j \in 1 .. 2 : d[7 + j - 1] = f[j]
    <3>1. \A j \in 1 .. Len(f) : d[(1 + Len(p)) + j - 1] = f[j] BY <1>22 DEF Has
    <3>2. 1 + Len(p) = 7 BY <1>4
    <3> QED BY <1>5, <3>1, <3>2
  <2>3. /\ 1 + 1 - 1 = 1 /\ 1 + 2 - 1 = 2 /\ 1 + 3 - 1 = 3 /\ 1 + 4 - 1 = 4 /\ 1 + 5 - 1 = 5 /\ 1 + 6 - 1 = 6
        /\ 7 + 1 - 1 = 7 /\ 7 + 2 - 1 = 8 /\ 1 \in 1 .. 2 /\ 2 \in 1 .. 2
        /\ 1 \in 1 .. 6 /\ 2 \in 1 .. 6 /\ 3 \in 1 .. 6 /\ 4 \in 1 .. 6 /\ 5 \in 1 .. 6 /\ 6 \in 1 .. 6
    OBVIOUS
  <2>4. d[1] = p[1] /\ d[2] = p[2] /\ d[3] = p[3] /\ d[4] = p[4] /\ d[5] = p[5] /\ d[6] = p[6]
    BY <2>1, <2>3
  <2>5. d[7] = 4 /\ d[8] = ConnectFlags(c, will) BY <1>5, <2>2, <2>3
  <2>6. p[1] = 0 /\ p[2] = 4 /\ p[3] = 77 /\ p[4] = 81 /\ p[5] = 84 /\ p[6] = 84 BY <1>3
  <2>7. Len(d) \in Nat /\ Len(d) >= 8
    <3>1. 1 + Len(a) <= Len(d) + 1 /\ Len(d) \in Nat BY <1>2, <1>21, LenProperties DEF Has
    <3> QED BY <1>11, <3>1
  <2> DEFINE s == SubSeq(d, 1, 7)
  <2>8. s \in Seq(Byte) /\ Len(s) = 7 /\ \A j \in 1 .. 7 : s[j] = d[j] BY <1>2, <2>7
  <2> HIDE DEF s
  <2>9. s[1] = 0 /\ s[2] = 4 /\ s[3] = 77 /\ s[4] = 81 /\ s[5] = 84 /\ s[6] = 84 /\ s[7] = 4
    BY <2>4, <2>5, <2>6, <2>8
  <2>10. s = <<s[1], s[2], s[3], s[4], s[5], s[6], s[7]>> BY <2>8
  <2>11. s = <<0, 4, 77, 81, 84, 84, 4>> BY <2>9, <2>10
  <2> QED BY <2>5, <2>11 DEF s
<1>24. Decode16(d, 9) = c.keepAlive
  <2>1. Has(d, 9, k) BY <1>11, <1>21
  <2> QED BY <1>1, <1>2, <2>1, HasWord DEF k
<1>25. Str(d, 11) = c.client /\ client = 11 + (2 + n)
  <2>1. Has(d, 11, i) BY <1>12, <1>20
  <2> QED BY <1>1, <1>2, <2>1, HasString DEF i
<1> HIDE DEF client, n
<1>26. client = 1 + Len(e) /\ client \in Nat /\ client >= 1 BY <1>7, <1>13, <1>25
<1> DEFINE lw == Len(w)
           lu == Len(u)
<1>27. lw \in Nat /\ lu \in Nat BY <1>8, <1>9, LenProperties
<1> HIDE DEF lw, lu
<1>28. 1 + Len(g) = client + lw /\ client + lw \in Nat /\ client + lw >= 1 BY <1>7, <1>13, <1>14, <1>26, <1>27 DEF lw
<1>29. 1 + Len(h) = (client + lw) + lu /\ (client + lw) + lu \in Nat /\ (client + lw) + lu >= 1
  <2>1. Len(g) \in Nat BY <1>14, LenProperties
  <2> QED BY <1>15, <1>27, <1>28, <2>1 DEF lu
<1>30. Has(d, client, w) /\ Has(d, client + lw, u) /\ Has(d, (client + lw) + lu, q) BY <1>17, <1>18, <1>19, <1>26, <1>28, <1>29
<1> QED BY <1>23, <1>24, <1>25, <1>26, <1>28, <1>29, <1>30, Zenon DEF d, client, w, u, q, lw, lu

LEMMA ConnectReads ==
  ASSUME NEW c \in ConnectInfo, NEW will \in Optional(PublishInfo), ~WillTooLong(will)
  PROVE  LET d == ConnectBody(c, will)
             f(i) == Flag(d[8], i)
             afterClient == Skip(d, 11)
             afterWill == IF f(2) THEN Skip(d, Skip(d, afterClient)) ELSE afterClient
             afterUser == IF f(7) THEN Skip(d, afterWill) ELSE afterWill
         IN /\ SubSeq(d, 1, 7) = <<0, 4, 77, 81, 84, 84, 4>> /\ (~f(0) /\ f(1)) = c.clean
            /\ Decode16(d, 9) = c.keepAlive /\ Str(d, 11) = c.client
            /\ (IF f(2) THEN <<Str(d, afterClient), Str(d, Skip(d, afterClient)), (d[8] \div 8) % 4, f(5)>> ELSE <<>>)
                 = (IF will = <<>> THEN <<>> ELSE <<will[1].topic, will[1].payload, will[1].qos, will[1].retain>>)
            /\ (IF f(7) THEN <<Str(d, afterWill)>> ELSE <<>>) = c.user
            /\ (IF f(6) THEN <<Str(d, afterUser)>> ELSE <<>>) = c.password
<1> DEFINE d == ConnectBody(c, will)
           f(i) == Flag(d[8], i)
           fl == ConnectFlags(c, will)
           client == Skip(d, 11)
           second == Skip(d, client)
           afterWill == IF f(2) THEN Skip(d, second) ELSE client
           afterUser == IF f(7) THEN Skip(d, afterWill) ELSE afterWill
           w == WillBytes(will)
           u == FieldBytes(c.user)
           q == FieldBytes(c.password)
<1>1. /\ c.clean \in BOOLEAN /\ c.user \in Optional(Text) /\ c.password \in Optional(Text) BY DEF ConnectInfo
<1>2. d \in Seq(Byte) BY ConnectBodyIs
<1>3. /\ SubSeq(d, 1, 7) = <<0, 4, 77, 81, 84, 84, 4>> /\ d[8] = fl
      /\ Decode16(d, 9) = c.keepAlive /\ Str(d, 11) = c.client
      /\ client \in Nat /\ client >= 1 /\ Has(d, client, w)
      /\ client + Len(w) \in Nat /\ client + Len(w) >= 1 /\ Has(d, client + Len(w), u)
      /\ (client + Len(w)) + Len(u) \in Nat /\ (client + Len(w)) + Len(u) >= 1
      /\ Has(d, (client + Len(w)) + Len(u), q)
  BY ConnectPlaces, Zenon
<1>4. /\ ~Flag(fl, 0) /\ (Flag(fl, 1) <=> c.clean) /\ (Flag(fl, 2) <=> will # <<>>)
      /\ (Flag(fl, 6) <=> c.password # <<>>) /\ (Flag(fl, 7) <=> c.user # <<>>)
      /\ will # <<>> => (fl \div 8) % 4 = will[1].qos /\ (Flag(fl, 5) <=> will[1].retain)
  BY ConnectFlagsAre, Zenon
<1> HIDE DEF d, fl, client, w, u, q
<1>5. /\ ~f(0) /\ (f(1) <=> c.clean) /\ (f(2) <=> will # <<>>)
      /\ (f(6) <=> c.password # <<>>) /\ (f(7) <=> c.user # <<>>)
      /\ will # <<>> => (d[8] \div 8) % 4 = will[1].qos /\ (f(5) <=> will[1].retain)
  BY <1>3, <1>4, Zenon
<1>6. f(1) \in BOOLEAN /\ f(5) \in BOOLEAN BY Zenon DEF Flag
<1>7. (~f(0) /\ f(1)) = c.clean
  <2> DEFINE x == f(1)
             y == ~f(0) /\ f(1)
  <2>1. y <=> c.clean BY <1>5, Zenon
  <2>2. y \in BOOLEAN BY Zenon
  <2> HIDE DEF y
  <2>3. y = c.clean BY <1>1, <2>1, <2>2
  <2> QED BY <2>3 DEF y
<1>8. will # <<>> => f(5) = will[1].retain
  <2> SUFFICES ASSUME will # <<>> PROVE f(5) = will[1].retain OBVIOUS
  <2>1. will[1] \in PublishInfo BY WillIs
  <2>2. will[1].retain \in BOOLEAN BY <2>1 DEF PublishInfo
  <2>3. f(5) <=> will[1].retain BY <1>5
  <2> DEFINE x == f(5)
             y == will[1].retain
  <2>4. x \in BOOLEAN /\ y \in BOOLEAN /\ (x <=> y) BY <1>6, <2>2, <2>3
  <2> HIDE DEF x, y
  <2>5. x = y BY <2>4
  <2> QED BY <2>5 DEF x, y
<1> HIDE DEF f
<1>9. /\ will # <<>> => Str(d, client) = will[1].topic /\ Str(d, second) = will[1].payload
      /\ (IF will # <<>> THEN Skip(d, second) ELSE client) = client + Len(w)
  BY <1>2, <1>3, WillReads DEF w
<1>10. afterWill = client + Len(w) BY <1>5, <1>9
<1> HIDE DEF second, afterWill
<1>11. /\ afterWill \in Nat /\ afterWill >= 1 /\ Has(d, afterWill, u)
       /\ afterWill + Len(u) \in Nat /\ afterWill + Len(u) >= 1 /\ Has(d, afterWill + Len(u), q)
  BY <1>3, <1>10
<1>12. /\ c.user = IF c.user # <<>> THEN <<Str(d, afterWill)>> ELSE <<>>
       /\ (IF c.user # <<>> THEN Skip(d, afterWill) ELSE afterWill) = afterWill + Len(u)
  BY <1>1, <1>2, <1>11, FieldReads DEF u
<1>13. afterUser = afterWill + Len(u) BY <1>5, <1>12, Zenon
<1> HIDE DEF afterUser
<1>14. afterUser \in Nat /\ afterUser >= 1 /\ Has(d, afterUser, q) BY <1>11, <1>13
<1>15. c.password = IF c.password # <<>> THEN <<Str(d, afterUser)>> ELSE <<>>
  BY <1>1, <1>2, <1>14, FieldReads DEF q
<1>16. (IF f(7) THEN <<Str(d, afterWill)>> ELSE <<>>) = c.user BY <1>5, <1>12, Zenon
<1>17. (IF f(6) THEN <<Str(d, afterUser)>> ELSE <<>>) = c.password BY <1>5, <1>15, Zenon
<1>18. (IF f(2) THEN <<Str(d, client), Str(d, second), (d[8] \div 8) % 4, f(5)>> ELSE <<>>)
         = (IF will = <<>> THEN <<>> ELSE <<will[1].topic, will[1].payload, will[1].qos, will[1].retain>>)
  <2>1. CASE will = <<>>
    <3>1. ~f(2) BY <1>5, <2>1
    <3> QED BY <2>1, <3>1, Zenon
  <2>2. CASE will # <<>>
    <3>1. f(2) BY <1>5, <2>2
    <3>2. /\ Str(d, client) = will[1].topic /\ Str(d, second) = will[1].payload
          /\ (d[8] \div 8) % 4 = will[1].qos /\ f(5) = will[1].retain
      BY <1>5, <1>8, <1>9, <2>2, Zenon
    <3> QED BY <2>2, <3>1, <3>2, Zenon
  <2> QED BY <2>1, <2>2
<1> QED BY <1>3, <1>7, <1>16, <1>17, <1>18, Zenon DEF d, f, client, second, afterWill, afterUser

LEMMA ConnectRequestSays ==
  ASSUME JobIs, job.kind = "send", job.op = "connect", Copied.status = "Success"
  PROVE  Says(job.op, Copied.bytes) = Asked
<1> DEFINE c == job.c
           will == job.will
           d == ConnectBody(c, will)
           b == <<CONNECT>> \o EncodeRemainingLength(Len(d)) \o d
           h == Header(b)
           dd == SubSeq(b, h.size + 1, Len(b))
           f(x, i) == Flag(x[8], i)
           client(x) == Skip(x, 11)
           afterWill(x) == IF f(x, 2) THEN Skip(x, Skip(x, client(x))) ELSE client(x)
           afterUser(x) == IF f(x, 7) THEN Skip(x, afterWill(x)) ELSE afterWill(x)
           read(x) ==
             <<CONNECT, SubSeq(x, 1, 7), ~f(x, 0) /\ f(x, 1), Decode16(x, 9), Str(x, 11),
               IF f(x, 2) THEN <<Str(x, client(x)), Str(x, Skip(x, client(x))), (x[8] \div 8) % 4, f(x, 5)>> ELSE <<>>,
               IF f(x, 7) THEN <<Str(x, afterWill(x))>> ELSE <<>>, IF f(x, 6) THEN <<Str(x, afterUser(x))>> ELSE <<>>>>
<1>1. c \in ConnectInfo /\ will \in Optional(PublishInfo) BY Kinds DEF RequestOK
<1>2. Copied.bytes = b /\ Len(d) <= MaxRemaining /\ ~WillTooLong(will)
  <2>1. Refused("BadParameter").status # "Success" /\ Written(b).bytes = b BY DEF Refused, Written
  <2> QED BY <2>1, ConnectCopied, Zenon
<1>3. d \in Seq(Byte) BY <1>1, <1>2, ConnectBodyIs
<1>4. CONNECT \in Byte /\ CONNECT = 16
  <2>1. 16 \in Byte BY ByteIs
  <2> QED BY <2>1 DEF CONNECT
<1>5. read(d) =
        <<CONNECT, <<0, 4, 77, 81, 84, 84, 4>>, c.clean, c.keepAlive, c.client,
          IF will = <<>> THEN <<>> ELSE <<will[1].topic, will[1].payload, will[1].qos, will[1].retain>>,
          c.user, c.password>>
  BY <1>1, <1>2, ConnectReads, Zenon
<1> HIDE DEF d
<1>6. b[1] = CONNECT /\ dd = d /\ h.n = Len(d) BY <1>2, <1>3, <1>4, PacketReads, Zenon
<1>7. Len(dd) = h.n BY <1>6, Zenon
<1> HIDE DEF b
<1>8. Says("connect", b) = read(dd) BY <1>6, <1>7, Zenon DEF Says
<1> HIDE DEF dd, read
<1>9. Says("connect", b) = read(d) BY <1>6, <1>8
<1>10. Asked =
         <<16, <<0, 4, 77, 81, 84, 84, 4>>, c.clean, c.keepAlive, c.client,
           IF will = <<>> THEN <<>> ELSE <<will[1].topic, will[1].payload, will[1].qos, will[1].retain>>,
           c.user, c.password>>
  BY Zenon DEF Asked
<1> QED BY <1>2, <1>4, <1>5, <1>9, <1>10, Zenon

LEMMA RequestSays ==
  ASSUME JobIs, job.kind = "send", Copied.status = "Success"
  PROVE  Says(job.op, Copied.bytes) = Asked
<1>1. job.op \in {"connect", "subscribe", "unsubscribe", "publish", "ack", "ping", "disconnect"} BY Kinds DEF RequestOK
<1>2. CASE job.op = "connect" BY <1>2, ConnectRequestSays
<1>3. CASE job.op \in {"subscribe", "unsubscribe"} BY <1>3, SubscribeSays
<1>4. CASE job.op = "publish" BY <1>4, PublishRequestSays
<1>5. CASE job.op \in {"ack", "ping", "disconnect"} BY <1>5, FixedSays
<1> QED BY <1>1, <1>2, <1>3, <1>4, <1>5

LEMMA CopiedStatus ==
  ASSUME JobIs, job.kind = "send"
  PROVE  Copied.status \in {"Success", "BadParameter"}
<1>1. job.op \in {"connect", "subscribe", "unsubscribe", "publish", "ack", "ping", "disconnect"} BY Kinds DEF RequestOK
<1>2. \A st, batches, stored : Makes(st, batches, stored) => Copied.status \in {"Success", "BadParameter"}
  BY Zenon DEF Makes
<1>3. CASE job.op = "connect" BY <1>2, <1>3, ConnectMakes, Zenon
<1>4. CASE job.op = "subscribe" BY <1>2, <1>4, SubscribeMakes, Zenon
<1>5. CASE job.op = "unsubscribe" BY <1>2, <1>5, UnsubscribeMakes, Zenon
<1>6. CASE job.op = "publish" BY <1>2, <1>6, PublishMakes, Zenon
<1>7. CASE job.op \in {"ack", "ping", "disconnect"} BY <1>2, <1>7, FixedMakes, Zenon
<1> QED BY <1>1, <1>3, <1>4, <1>5, <1>6, <1>7

LEMMA StreamWhole ==
  ASSUME StreamShape, SendInv
  PROVE  WholePacket
<1> SUFFICES ASSUME job.kind = "send", ctx.pc # "call" PROVE WholePacket BY DEF WholePacket
<1> DEFINE P == Copied.bytes
           F == FlattenSeq(FlattenSeq(ctx.vecs))
<1>1. JobIs /\ net.out \in Seq(Byte) BY DEF StreamShape
<1>2. ctx.pc \in {"write", "end"} BY DEF SendInv
<1>3. /\ IsPrefix(net.out, P) /\ StoredIs(app.stored)
      /\ app.status = "BadParameter" <=> Copied.status = "BadParameter"
      /\ ctx.pc = "end" /\ app.status = "Success" => net.out = P
  <2>1. CASE ctx.pc = "end" BY <2>1 DEF SendInv
  <2>2. CASE ctx.pc = "write"
    <3>1. /\ app.status = "Success" /\ Copied.status = "Success" /\ StoredIs(app.stored)
          /\ ctx.vecs \in Batches /\ net.out \o F = P
      BY <2>2 DEF SendInv
    <3>2. FlattenSeq(ctx.vecs) \in Seq(Seq(Byte))
      <4>1. ctx.vecs \in Seq(Seq(Seq(Byte))) BY <3>1, BatchesAre
      <4> QED BY <4>1, FlatFlat, Zenon
    <3>3. F \in Seq(Byte) BY <3>2, FlatBytes
    <3> HIDE DEF F, P
    <3>4. IsPrefix(net.out, P) BY <1>1, <3>1, <3>3, FrontOf
    <3>5. ~(ctx.pc = "end") BY <2>2
    <3> QED BY <3>1, <3>4, <3>5
  <2> QED BY <1>2, <2>1, <2>2
<1>4. ctx.pc = "end" /\ app.status = "Success" => Says(job.op, net.out) = Asked
  <2> SUFFICES ASSUME ctx.pc = "end", app.status = "Success" PROVE Says(job.op, net.out) = Asked OBVIOUS
  <2>1. Copied.status = "Success" BY <1>1, <1>3, CopiedStatus
  <2>2. Says(job.op, P) = Asked BY <1>1, <2>1, RequestSays
  <2> QED BY <1>3, <2>2
<1>5. job.op = "publish" /\ Copied.status = "Success" /\ ~(job.p.dup /\ job.p.qos = 0) =>
        LET s == GetPublishPacketSize(Len(job.p.topic), Len(job.p.payload), job.p.qos)
        IN SerializePublishHeader(job.p, job.id, s.remaining, s.size - Len(job.p.payload)).bytes \o job.p.payload = P
  BY <1>1, HeaderAndPayload, Zenon
<1> QED BY <1>3, <1>4, <1>5, Zenon DEF WholePacket, StoredIs

\* In whatever pieces and batches a request is written, what has gone out is
\* the front of the packet that the copying serializer makes, and all of it
\* when the call succeeds, which says to the server what was asked for; both
\* ways refuse the same requests, and what is stored is that packet with DUP
\* set (sendMessageVector and the send...WithoutCopy functions against
\* MQTT_SerializeConnect, -Subscribe, -Unsubscribe, -Publish, -PublishHeader and
\* the packets of fixed length).
THEOREM StreamWholePacket == StreamSpec => []WholePacket
<1>1. StreamInv => WholePacket BY StreamWhole DEF StreamInv
<1> QED BY <1>1, StreamInvariant, PTL
=============================================================================
