----------------------------- MODULE MqttState -----------------------------
(***************************************************************************)
(* The state engine of coreMQTT (core_mqtt_state.c): the tables of records *)
(* of the QoS 1 and QoS 2 publishes that are in progress.                  *)
(*                                                                         *)
(* A table is a sequence of records of fixed length; packet identifier 0   *)
(* marks an empty slot.  The functions that change a table return it       *)
(* together with the status.                                               *)
(***************************************************************************)
EXTENDS Integers, Sequences, FiniteSets

\* MQTTPublishState_t
PublishState == {"Null", "PublishSend", "PubAckSend", "PubRecSend", "PubRelSend", "PubCompSend",
                 "PubAckPending", "PubRecPending", "PubRelPending", "PubCompPending", "PublishDone"}

Empty == [id |-> 0, qos |-> 0, st |-> "Null"]

Record(Id) == {Empty} \cup [id: Id, qos: {1, 2}, st: PublishState \ {"Null", "PublishDone"}]

Used(t) == {i \in DOMAIN t : t[i].id # 0}

-----------------------------------------------------------------------------
(* The automaton of one record                                             *)

\* validateTransitionPublish: how a publish may be sent, sent again, or received.
ValidTransitionPublish(cur, new, op, qos) ==
  \/ cur = "Null" /\ op = "RECEIVE" /\ new \in {"PubAckSend", "PubRecSend"}
  \/ cur = "PublishSend" /\ <<qos, new>> \in {<<1, "PubAckPending">>, <<2, "PubRecPending">>}
  \/ cur \in {"PubAckPending", "PubRecPending"} /\ new = cur

\* The transitions of an acknowledged publish; those that stay are resends.
AckTransitions ==
  {<<"PubAckSend", "PublishDone">>, <<"PubAckPending", "PublishDone">>,
   <<"PubRecSend", "PubRelPending">>,
   <<"PubRelPending", "PubCompSend">>, <<"PubRelPending", "PubRelPending">>,
   <<"PubCompSend", "PublishDone">>, <<"PubCompSend", "PubCompSend">>,
   <<"PubRecPending", "PubRelSend">>,
   <<"PubRelSend", "PubCompPending">>,
   <<"PubCompPending", "PublishDone">>, <<"PubCompPending", "PubCompPending">>}

\* Faulty: a PUBREL that comes again is not expected.
RelNotRepeated(cur, new) == <<cur, new>> \in AckTransitions \ {<<"PubCompSend", "PubCompSend">>}

\* validateTransitionAck
ValidTransitionAck(cur, new) == <<cur, new>> \in AckTransitions

\* isPublishOutgoing: whose table an acknowledgement belongs to.
IsPublishOutgoing(type, op) ==
  IF type = "PUBREL" THEN op = "SEND" ELSE op = "RECEIVE"

\* MQTT_CalculateStateAck
CalculateStateAck(type, op, qos) ==
  IF qos # (IF type = "PUBACK" THEN 1 ELSE 2) THEN "Null"
  ELSE CASE type = "PUBREC" -> IF op = "SEND" THEN "PubRelPending" ELSE "PubRelSend"
         [] type = "PUBREL" -> IF op = "SEND" THEN "PubCompPending" ELSE "PubCompSend"
         [] OTHER -> "PublishDone"

\* MQTT_CalculateStatePublish
CalculateStatePublish(op, qos) ==
  CASE qos = 0 -> "PublishDone"
    [] qos = 1 -> IF op = "SEND" THEN "PubAckPending" ELSE "PubAckSend"
    [] qos = 2 -> IF op = "SEND" THEN "PubRecPending" ELSE "PubRecSend"

-----------------------------------------------------------------------------
(* The tables                                                              *)

\* findInRecord: the first slot with this identifier, 0 if there is none.
FindInRecord(t, id) ==
  LET at == {i \in DOMAIN t : t[i].id = id}
  IN IF at = {} THEN 0 ELSE CHOOSE i \in at : \A j \in at : i <= j

\* compactRecords: the records move to the front and keep their order.
Place(t, j) == Cardinality({k \in Used(t) : k <= j})
CompactRecords(t) ==
  [i \in DOMAIN t |-> IF \E j \in Used(t) : Place(t, j) = i
                     THEN t[CHOOSE j \in Used(t) : Place(t, j) = i] ELSE Empty]

\* Faulty: an identifier may be recorded twice.
AddAnyway(t, id, qos, st) ==
  LET c == CompactRecords(t)
      free == DOMAIN c \ Used(c)
  IN IF free = {} THEN [status |-> "NoMemory", recs |-> c]
     ELSE LET at == CHOOSE i \in free : \A j \in free : i <= j
          IN [status |-> "Success", recs |-> [c EXCEPT ![at] = [id |-> id, qos |-> qos, st |-> st]]]

\* Faulty: the first empty slot is taken, wherever it is.
AddFirstFree(t, id, qos, st) ==
  LET free == DOMAIN t \ Used(t)
  IN IF \E i \in DOMAIN t : t[i].id = id THEN [status |-> "StateCollision", recs |-> t]
     ELSE IF free = {} THEN [status |-> "NoMemory", recs |-> t]
     ELSE LET at == CHOOSE i \in free : \A j \in free : i <= j
          IN [status |-> "Success", recs |-> [t EXCEPT ![at] = [id |-> id, qos |-> qos, st |-> st]]]

\* addRecord: behind the last record, after closing the gaps if there is no
\* room; never twice the same identifier.
AddRecord(t, id, qos, st) ==
  LET c == IF t[Len(t)].id # 0 THEN CompactRecords(t) ELSE t
      behind == {i \in DOMAIN c : \A j \in i .. Len(c) : c[j].id = 0}
  IN IF \E i \in DOMAIN c : c[i].id = id THEN [status |-> "StateCollision", recs |-> c]
     ELSE IF behind = {} THEN [status |-> "NoMemory", recs |-> c]
     ELSE LET at == CHOOSE i \in behind : \A j \in behind : i <= j
          IN [status |-> "Success", recs |-> [c EXCEPT ![at] = [id |-> id, qos |-> qos, st |-> st]]]

\* updateRecord
UpdateRecord(t, i, st, delete) == [t EXCEPT ![i] = IF delete THEN Empty ELSE [@ EXCEPT !.st = st]]

\* updateStateAck: a PUBREC moves its record to the end, so that PUBRELs are
\* sent again in the order of the PUBRECs.
UpdateStateAck(t, i, cur, new) ==
  LET moved == UpdateRecord(t, i, new, new \in {"PublishDone", "PubRelSend"})
  IN IF ~ ValidTransitionAck(cur, new) THEN [status |-> "IllegalState", recs |-> t]
     ELSE IF cur = new THEN [status |-> "Success", recs |-> t]
     ELSE IF new = "PubRelSend" THEN AddRecord(moved, t[i].id, 2, "PubRelSend")
     ELSE [status |-> "Success", recs |-> moved]

\* updateStatePublish
UpdateStatePublish(out, in, i, id, op, qos, cur, new) ==
  IF ~ ValidTransitionPublish(cur, new, op, qos)
  THEN [status |-> "IllegalState", out |-> out, in |-> in]
  ELSE IF op = "RECEIVE"
  THEN LET r == AddRecord(in, id, qos, new) IN [status |-> r.status, out |-> out, in |-> r.recs]
  ELSE [status |-> "Success", in |-> in,
        out |-> IF cur = new THEN out ELSE UpdateRecord(out, i, new, FALSE)]

-----------------------------------------------------------------------------
(* What core_mqtt.c calls                                                  *)

\* MQTT_ReserveState
MQTT_ReserveState(out, id, qos) ==
  IF qos = 0 THEN [status |-> "Success", recs |-> out]
  ELSE IF id = 0 THEN [status |-> "BadParameter", recs |-> out]
  ELSE AddRecord(out, id, qos, "PublishSend")

\* MQTT_UpdateStatePublish; new is the state the record has afterwards.
MQTT_UpdateStatePublish(out, in, id, op, qos) ==
  LET i == FindInRecord(out, id)
      cur == IF op = "SEND" THEN out[i].st ELSE "Null"
      new == CalculateStatePublish(op, qos)
      r == UpdateStatePublish(out, in, i, id, op, qos, cur, new)
  IN IF qos = 0 THEN [status |-> "Success", out |-> out, in |-> in, new |-> "PublishDone"]
     ELSE IF id = 0 \/ (op = "SEND" /\ (i = 0 \/ out[i].qos # qos))
     THEN [status |-> "BadParameter", out |-> out, in |-> in, new |-> "Null"]
     ELSE [status |-> r.status, out |-> r.out, in |-> r.in,
           new |-> IF r.status = "Success" THEN new ELSE "Null"]

\* MQTT_UpdateStateAck
MQTT_UpdateStateAck(out, in, id, type, op) ==
  LET outgoing == IsPublishOutgoing(type, op)
      t == IF outgoing THEN out ELSE in
      i == FindInRecord(t, id)
      new == CalculateStateAck(type, op, t[i].qos)
      r == UpdateStateAck(t, i, t[i].st, new)
      none == [status |-> IF id = 0 THEN "BadParameter" ELSE "BadResponse",
               out |-> out, in |-> in, new |-> "Null"]
  IN IF id = 0 \/ i = 0 THEN none
     ELSE [status |-> r.status, new |-> IF r.status = "Success" THEN new ELSE "Null",
           out |-> IF outgoing THEN r.recs ELSE out, in |-> IF outgoing THEN in ELSE r.recs]

\* MQTT_RemoveStateRecord
MQTT_RemoveStateRecord(out, id) ==
  LET i == FindInRecord(out, id)
  IN IF i = 0 THEN [status |-> "BadParameter", recs |-> out]
     ELSE [status |-> "Success", recs |-> UpdateRecord(out, i, "Null", TRUE)]

\* stateSelect: the next record in one of these states behind the first
\* cursor slots; identifier 0 if there is none.
StateSelect(out, states, cursor) ==
  LET hits == {i \in cursor + 1 .. Len(out) : out[i].st \in states}
      i == CHOOSE h \in hits : \A k \in hits : h <= k
  IN IF hits = {} THEN [id |-> 0, cursor |-> Len(out)] ELSE [id |-> out[i].id, cursor |-> i]

\* MQTT_PubrelToResend
MQTT_PubrelToResend(out, cursor) == StateSelect(out, {"PubCompPending", "PubRelSend"}, cursor)

\* MQTT_PublishToResend: the publishes that no acknowledgement has arrived for.
Unacked == {"PublishSend", "PubAckPending", "PubRecPending"}
MQTT_PublishToResend(out, cursor) ==
  StateSelect(out, Unacked, cursor)
=============================================================================
