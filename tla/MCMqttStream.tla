---------------------------- MODULE MCMqttStream ----------------------------
(* The jobs of MqttStream for TLC.                                         *)
EXTENDS MqttStream, TLC

Publication(qos, dup, retain, topic, payload) ==
  [qos |-> qos, dup |-> dup, retain |-> retain, topic |-> topic, payload |-> payload, noPayload |-> FALSE]
Strings == {<<>>, <<97>>, <<97, 98>>}

MCSends ==
  LET send(op) == [kind |-> "send", op |-> op, stream |-> <<>>]
      lists == UNION {[1 .. k -> [filter: {<<>>, <<97>>, <<97, 98>>}, qos: {0, 2}]] : k \in 0 .. 2}
                 \cup {[i \in 1 .. k |-> [filter |-> <<96 + i>>, qos |-> i % 3]] : k \in 3 .. 5}
      wills == {<<>>} \cup {<<Publication(q, FALSE, r, t, p)>> : q \in 0 .. 2, r \in BOOLEAN, t \in {<<>>, <<97>>}, p \in {<<>>, <<7, 8>>}}
      clients == [clean: BOOLEAN, keepAlive: {0, 300}, client: {<<>>, <<99>>},
                  user: {<<>>, <<<<>>>>, <<<<117>>>>}, password: {<<>>, <<<<112, 113>>>>}]
  IN {send("connect") @@ [c |-> c, will |-> w, writev |-> v] : c \in clients, w \in wills, v \in {FALSE}}
     \cup {send(op) @@ [list |-> l, id |-> i, writev |-> v] :
             op \in {"subscribe", "unsubscribe"}, l \in lists, i \in {0, 300}, v \in BOOLEAN}
     \cup {send("publish") @@ [p |-> Publication(q, d, r, t, y), id |-> i, writev |-> v] :
             q \in 0 .. 2, d, r, v \in BOOLEAN, t, y \in Strings, i \in {0, 513}}
     \cup {send("ack") @@ [type |-> t, id |-> i, writev |-> FALSE] :
             t \in {PUBACK, PUBREC, PUBREL, PUBCOMP, SUBACK}, i \in {0, 1, 256}}
     \cup {send(op) @@ [writev |-> FALSE] : op \in {"ping", "disconnect"}}

\* A small publish, one as long as the buffer, two that are longer (one by
\* more than the buffer, and with a length of two bytes), answers, and
\* packets that are malformed in different ways.
Whole ==
  {<<48, 4, 0, 1, 97, 7>>, <<50, 6, 0, 1, 97, 0, 5, 7>>, <<48, 9, 0, 1, 97, 1, 2, 3, 4, 5, 6>>,
   <<48, 130, 1, 0, 1>> \o [i \in 1 .. 127 |-> 64],
   <<64, 2, 0, 5>>, <<144, 4, 0, 3, 1, 128>>, <<208, 0>>}
Malformed ==
  {<<64, 130, 0, 0, 5>>, <<48, 255, 255, 255, 255, 1>>, <<16, 0>>, <<64, 2, 0, 0>>, <<54, 6, 0, 1, 97, 0, 5, 7>>,
   <<16, 9, 0, 1, 97, 1, 2, 3, 4, 5, 6>>}

\* Publishes that a server must not send and that are accepted, and an answer
\* that is malformed and does not fit into the buffer.
Lenient == {<<56, 4, 0, 1, 97, 7>>, <<48, 3, 0, 0, 7>>, <<64, 9, 0, 1, 2, 3, 4, 5, 6, 7, 8>>}

MCReceives ==
  LET behind == UNION {[1 .. k -> Whole] : k \in 0 .. 2} \cup {<<a, m, b>> : a, b \in {<<64, 2, 0, 5>>, <<208, 0>>}, m \in Whole \cup Malformed \cup Lenient}
  IN {[kind |-> "receive", clean |-> FALSE, stream |-> <<32, 2, 0, 0>> \o FlattenSeq(b)] : b \in behind}
     \cup {[kind |-> "receive", clean |-> c, stream |-> a \o <<208, 0>>] :
             c \in BOOLEAN, a \in {<<32, 2, p, r>> : p, r \in {0, 1, 5, 6}} \cup {<<32, 1, 0>>, <<32, 130, 0, 0, 0>>, <<208, 0, 0, 0>>}}

MCAnswers ==
  {[kind |-> "packet", stream |-> <<>>, type |-> t, d |-> d] :
     t \in PUBLISH .. PUBLISH + 15 \cup {16, 32, 64, 66, 80, 96, 98, 102, 112, 128, 144, 146, 176, 192, 208, 224},
     d \in UNION {[1 .. k -> {0, 1, 3, 128}] : k \in 0 .. 5}}
MCLengths ==
  {[kind |-> "length", stream |-> <<>>, n |-> n, qos |-> q] : q \in 0 .. 2,
     n \in 0 .. 300 \cup 16380 .. 16390 \cup 2097140 .. 2097160 \cup MaxRemaining - 30 .. MaxRemaining}
MCTopics ==
  LET strings(chars, len) == UNION {[1 .. k -> chars] : k \in 1 .. len}
  IN {[kind |-> "topic", stream |-> <<>>, name |-> n, filter |-> f] :
        n \in {s \in strings({"a", "b", "/", "$"}, 3) : ValidName(s)},
        f \in {s \in strings({"a", "/", "+", "#", "$"}, 4) : ValidFilter(s)}}
=============================================================================
