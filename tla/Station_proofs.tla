--------------------------- MODULE Station_proofs ---------------------------
(***************************************************************************)
(* Proofs about the Wi-Fi station, start-up and provisioning.              *)
(*                                                                         *)
(* First the invariants and the action property of Wifi.tla, for every     *)
(* delay, set of faults and number of outages and commands.  They hold of  *)
(* a queue of events that is as long as you like, so the invariant says    *)
(* what an event still in it means: a GOT_IP of a connection that is over  *)
(* has its DISCONNECTED behind it.                                         *)
(*                                                                         *)
(* Then Station: it implements Wifi, so what is proved of the station      *)
(* holds of it whatever start-up, clients and restarts do; and the station *)
(* is configured with what the client sent, for any credentials and any    *)
(* number of writes and commands.                                          *)
(***************************************************************************)
EXTENDS Station, TLAPS

Associated == {"noip", "up"}

\* While the handler is between arming the timer and setting the flag the
\* timer is armed, and it exists.
TimerInHandler ==
  /\ hpc = "set" => timer = "armed"
  /\ hpc = "arm" => timer # "null"

\* A disconnection is queued behind the i-th event.
LostAfter(i, q) == \E j \in 1..Len(q) : j > i /\ q[j] = "DISCONNECTED"

\* The handler has set the bit or is about to.
BitDue == bit \/ hpc \in {"clear", "online"}

\* The last of the connection's events not handled yet says what it is now.
EventsTellLink ==
  /\ link \notin Associated =>
       /\ \A i \in 1..Len(evq) : evq[i] = "GOT_IP" => LostAfter(i, evq)
       /\ BitDue => LostAfter(0, evq)
  /\ link = "up" =>
       \/ \E i \in 1..Len(evq) : evq[i] = "GOT_IP" /\ ~LostAfter(i, evq)
       \/ BitDue /\ ~LostAfter(0, evq)
       \/ missed

\* Nothing has set the bit before there is a handler.
HandlerSetsBit == handled = {} => ~BitDue

WifiInv == WifiTypeOK /\ ScheduledIsReal /\ TimerInHandler /\ HandlerSetsBit /\ EventsTellLink

-----------------------------------------------------------------------------
(* The queue                                                               *)

\* Taking the first event moves the others up.
LEMMA TailOfQueue ==
  ASSUME NEW q \in Seq(Event), q # <<>>
  PROVE  /\ Tail(q) \in Seq(Event) /\ Len(Tail(q)) = Len(q) - 1 /\ Len(q) \in Nat \ {0}
         /\ Head(q) = q[1]
         /\ \A i \in 1..Len(q) - 1 : Tail(q)[i] = q[i + 1]
OBVIOUS

\* Posting an event leaves the others where they are.
LEMMA AppendToQueue ==
  ASSUME NEW q \in Seq(Event), NEW e \in Event
  PROVE  /\ Append(q, e) \in Seq(Event) /\ Len(Append(q, e)) = Len(q) + 1 /\ Len(q) \in Nat
         /\ Append(q, e)[Len(q) + 1] = e
         /\ \A i \in 1..Len(q) : Append(q, e)[i] = q[i]
OBVIOUS

\* What is behind the others is still behind them when the first is taken.
LEMMA LostAfterTail ==
  ASSUME NEW q \in Seq(Event), q # <<>>, NEW i \in 1..Len(q)
  PROVE  LostAfter(i - 1, Tail(q)) <=> LostAfter(i, q)
<1> USE TailOfQueue
<1>1. ASSUME LostAfter(i - 1, Tail(q)) PROVE LostAfter(i, q)
  <2>1. PICK j \in 1..Len(Tail(q)) : j > i - 1 /\ Tail(q)[j] = "DISCONNECTED"
    BY <1>1 DEF LostAfter
  <2>2. j + 1 \in 1..Len(q) /\ j + 1 > i /\ q[j + 1] = "DISCONNECTED"
    BY <2>1
  <2> QED BY <2>2 DEF LostAfter
<1>2. ASSUME LostAfter(i, q) PROVE LostAfter(i - 1, Tail(q))
  <2>1. PICK j \in 1..Len(q) : j > i /\ q[j] = "DISCONNECTED"
    BY <1>2 DEF LostAfter
  <2>2. j - 1 \in 1..Len(Tail(q)) /\ j - 1 > i - 1 /\ Tail(q)[j - 1] = "DISCONNECTED"
    BY <2>1
  <2> QED BY <2>2 DEF LostAfter
<1> QED BY <1>1, <1>2

\* A posted DISCONNECTED is behind every event, another event changes nothing.
LEMMA LostAfterAppend ==
  ASSUME NEW q \in Seq(Event), NEW e \in Event, NEW i \in 0..Len(q)
  PROVE  LostAfter(i, Append(q, e)) <=> e = "DISCONNECTED" \/ LostAfter(i, q)
BY AppendToQueue DEF LostAfter, Event, WifiEvent

-----------------------------------------------------------------------------
(* The invariant                                                           *)

\* After power-on nothing is scheduled and the queue is empty.
LEMMA InvInit == WifiInit => WifiInv
<1> SUFFICES ASSUME WifiInit PROVE WifiInv
  OBVIOUS
<1>1. evq = <<>> /\ evq \in Seq(Event) /\ Len(evq) = 0
  BY DEF WifiInit
<1>2. WifiTypeOK
  <2>1. delay \in BaseDelay..MaxDelay /\ outages \in 0..MaxOutages /\ users \in 0..MaxUser
    BY WifiConstants DEF WifiInit
  <2>2. scheduled \in BOOLEAN /\ bit \in BOOLEAN /\ timer = "null" /\ fired = "no" /\ hpc = "take" /\ link = "off"
        /\ upc \in [Caller -> {"none", "read", "start", "connect"}]
    BY DEF WifiInit
  <2>3. handled = {} /\ missed = FALSE
    BY DEF WifiInit
  <2> QED BY <1>1, <2>1, <2>2, <2>3 DEF WifiTypeOK, Link, HandlerPc
<1>3. ScheduledIsReal /\ TimerInHandler
  BY DEF WifiInit, ScheduledIsReal, TimerInHandler
<1>4. EventsTellLink
  BY <1>1 DEF WifiInit, EventsTellLink, LostAfter, BitDue, Associated
<1>5. HandlerSetsBit
  BY DEF WifiInit, HandlerSetsBit, BitDue
<1> QED BY <1>2, <1>3, <1>4, <1>5 DEF WifiInv

\* The doubled delay stays within its bounds.
LEMMA CappedDelay ==
  ASSUME NEW d \in BaseDelay..MaxDelay
  PROVE  Capped(2 * d) \in BaseDelay..MaxDelay
BY WifiConstants DEF Capped

\* A caller that moves on leaves the other where it is.
LEMMA GotoKeepsType ==
  ASSUME upc \in [Caller -> {"none", "read", "start", "connect"}], NEW c \in Caller,
         NEW pc \in {"none", "read", "start", "connect"}, Goto(c, pc)
  PROVE  /\ upc' \in [Caller -> {"none", "read", "start", "connect"}]
         /\ upc'[c] = pc
         /\ \A d \in Caller \ {c} : upc'[d] = upc[d]
BY DEF Goto

\* Every step keeps the types, the delay within its bounds among them.
LEMMA TypeStep ==
  ASSUME WifiTypeOK, [WifiNext]_wifiVars
  PROVE  WifiTypeOK'
<1> USE WifiConstants DEF WifiTypeOK, Link, HandlerPc, timerVars, driverVars, handlerVars, bounds
<1> evq # <<>> => Tail(evq) \in Seq(Event) BY TailOfQueue
<1> \A e \in Event : Append(evq, e) \in Seq(Event) BY AppendToQueue
<1> {"STA_START", "DISCONNECTED", "GOT_IP"} \subseteq Event BY DEF Event, WifiEvent
<1>1. CASE HandleStaStart
  BY <1>1 DEF HandleStaStart, TakeEvent, NextEvent, ResetBackoff, ConnectFrom
<1>2. CASE HandleDisconnected
  BY <1>2 DEF HandleDisconnected, TakeEvent, NextEvent
<1>3. CASE Schedule
  BY <1>3, CappedDelay DEF Schedule
<1>4. CASE Arm
  BY <1>4 DEF Arm
<1>5. CASE SetScheduled
  BY <1>5 DEF SetScheduled
<1>6. CASE HandleGotIp
  BY <1>6 DEF HandleGotIp, TakeEvent, NextEvent
<1>7. CASE Online
  BY <1>7 DEF Online, ResetBackoff
<1>8. CASE TimerTask
  <2>1. CASE TimerExpires \/ CallbackStart
    BY <2>1 DEF TimerExpires, CallbackStart
  <2>2. CASE CallbackConnect
    BY <2>2 DEF CallbackConnect, ConnectFrom
  <2> QED BY <1>8, <2>1, <2>2 DEF TimerTask
<1>9. CASE UserConnect
  <2>1. upc' \in [Caller -> {"none", "read", "start", "connect"}]
    BY <1>9, GotoKeepsType DEF UserConnect, Caller
  <2> QED BY <1>9, <2>1 DEF UserConnect, Lose
<1>10. ASSUME NEW c \in Caller, Read(c) \/ StaStart(c)
       PROVE  WifiTypeOK'
  <2>1. upc' \in [Caller -> {"none", "read", "start", "connect"}]
    BY <1>10, GotoKeepsType DEF Read, StaStart
  <2>2. CASE Read(c)
    BY <2>1, <2>2 DEF Read
  <2>3. CASE StaStart(c)
    BY <2>1, <2>3 DEF StaStart
  <2> QED BY <1>10, <2>2, <2>3
<1>11. ASSUME NEW c \in Caller, StaConnect(c)
       PROVE  WifiTypeOK'
  <2>1. upc' \in [Caller -> {"none", "read", "start", "connect"}]
    BY <1>11, GotoKeepsType DEF StaConnect
  <2> QED BY <1>11, <2>1 DEF StaConnect, ConnectFrom
<1>12. CASE Associate \/ GetIp
  <2>1. CASE Associate
    BY <2>1 DEF Associate
  <2>2. CASE GetIp
    <3>1. evq' \in Seq(Event) BY <2>2 DEF GetIp
    <3>2. link' = "up" BY <2>2 DEF GetIp
    <3> QED BY <2>2, <3>1, <3>2 DEF GetIp
  <2> QED BY <1>12, <2>1, <2>2
<1>13. CASE Drop
  <2>1. outages' \in 0..MaxOutages
    BY <1>13 DEF Drop
  <2>2. link' = "idle" /\ evq' \in Seq(Event)
    BY <1>13 DEF Drop, Lose
  <2> QED BY <1>13, <2>1, <2>2 DEF Drop
<1>14. CASE LoseIp
  BY <1>14 DEF LoseIp
<1>15. CASE Restart
  <2>1. upc' \in [Caller -> {"none", "read", "start", "connect"}] /\ evq' \in Seq(Event)
    BY <1>15 DEF Restart
  <2>2. delay' \in BaseDelay..MaxDelay
    BY <1>15 DEF Restart
  <2> QED BY <1>15, <2>1, <2>2 DEF Restart
<1>16. CASE UNCHANGED wifiVars
  BY <1>16 DEF wifiVars
<1>17. CASE Miss
  <2>1. PICK e \in Event : MissEvent(e)
    BY <1>17 DEF Miss
  <2> QED BY <2>1 DEF MissEvent, NextEvent
<1>18. CASE Register
  BY <1>18 DEF Register
<1> HIDE DEF WifiTypeOK
<1> QED
  BY <1>1, <1>2, <1>3, <1>4, <1>5, <1>6, <1>7, <1>8, <1>9, <1>10, <1>11, <1>12, <1>13, <1>14, <1>15, <1>16, <1>17, <1>18
     DEF WifiNext, WifiStep, EventLoop, Call

\* Only a handler that has just armed the timer sets the flag, and whoever
\* disarms the timer clears it.
LEMMA TimerStep ==
  ASSUME WifiTypeOK, ScheduledIsReal, TimerInHandler, [WifiNext]_wifiVars
  PROVE  ScheduledIsReal' /\ TimerInHandler'
<1> USE DEF WifiTypeOK, ScheduledIsReal, TimerInHandler, HandlerPc, timerVars, driverVars, handlerVars, bounds
<1>1. CASE HandleStaStart \/ HandleDisconnected
  BY <1>1 DEF HandleStaStart, HandleDisconnected, TakeEvent, NextEvent
<1>2. CASE Schedule
  BY <1>2 DEF Schedule
<1>3. CASE Arm
  BY <1>3 DEF Arm
<1>4. CASE SetScheduled
  BY <1>4 DEF SetScheduled
<1>5. CASE HandleGotIp
  BY <1>5 DEF HandleGotIp, TakeEvent, NextEvent
<1>6. CASE Online
  BY <1>6 DEF Online
<1>7. CASE TimerTask
  BY <1>7 DEF TimerTask, TimerExpires, CallbackStart, CallbackConnect
<1>8. ASSUME UserConnect \/ \E c \in Caller : Call(c)
      PROVE  ScheduledIsReal' /\ TimerInHandler'
  BY <1>8 DEF UserConnect, Call, Read, StaStart, StaConnect
<1>9. CASE Associate \/ GetIp \/ Drop \/ LoseIp
  BY <1>9 DEF Associate, GetIp, Drop, LoseIp
<1>10. CASE Restart
  BY <1>10 DEF Restart
<1>11. CASE UNCHANGED wifiVars
  BY <1>11 DEF wifiVars
<1>12. CASE Miss \/ Register
  BY <1>12 DEF Miss, MissEvent, NextEvent, Register
<1> QED
  BY <1>1, <1>2, <1>3, <1>4, <1>5, <1>6, <1>7, <1>8, <1>9, <1>10, <1>11, <1>12
     DEF WifiNext, WifiStep, EventLoop

\* The bit is set by a handler, and a handler stays.
LEMMA HandlerStep ==
  ASSUME WifiTypeOK, HandlerSetsBit, [WifiNext]_wifiVars
  PROVE  HandlerSetsBit'
<1> USE DEF HandlerSetsBit, BitDue, timerVars, driverVars, handlerVars, bounds
<1>1. CASE EventLoop
  <2>1. CASE HandleGotIp
    BY <2>1 DEF HandleGotIp, TakeEvent
  <2>2. CASE Miss
    BY <2>2 DEF Miss, MissEvent, NextEvent
  <2> QED
    BY <1>1, <2>1, <2>2
       DEF EventLoop, HandleStaStart, HandleDisconnected, Schedule, Arm, SetScheduled, Online, TakeEvent, NextEvent
<1>2. CASE TimerTask
  BY <1>2 DEF TimerTask, TimerExpires, CallbackStart, CallbackConnect
<1>3. CASE UserConnect \/ \E c \in Caller : Call(c)
  BY <1>3 DEF UserConnect, Call, Read, StaStart, StaConnect
<1>4. CASE Associate \/ GetIp \/ Drop \/ LoseIp
  BY <1>4 DEF Associate, GetIp, Drop, LoseIp
<1>5. CASE Restart
  BY <1>5 DEF Restart
<1>6. CASE Register
  BY <1>6 DEF Register, WifiEvent, Event
<1>7. CASE UNCHANGED wifiVars
  BY <1>7 DEF wifiVars
<1> QED BY <1>1, <1>2, <1>3, <1>4, <1>5, <1>6, <1>7 DEF WifiNext, WifiStep

-----------------------------------------------------------------------------
(* The link and the events about it                                        *)

\* A step that neither posts nor takes an event keeps what they tell when
\* the link stays what it is, loses its address or was not associated.
LEMMA SameEvents ==
  ASSUME EventsTellLink, evq' = evq, missed' = missed, BitDue' = BitDue,
         link' = link \/ link' = "noip" \/ {link, link'} \cap {"noip", "up"} = {}
  PROVE  EventsTellLink'
BY DEF EventsTellLink, LostAfter, Associated

\* The end of a connection is posted behind everything about it.
LEMMA LoseTells ==
  ASSUME evq \in Seq(Event), Lose(link)
  PROVE  EventsTellLink'
<1>1. \A i \in 0..Len(evq) : LostAfter(i, evq')
  BY LostAfterAppend DEF Lose, Event, WifiEvent
<1>2. Len(evq) \in Nat /\ Len(evq') = Len(evq) + 1 /\ evq'[Len(evq) + 1] = "DISCONNECTED"
  BY AppendToQueue DEF Lose, Event, WifiEvent
<1>3. \A i \in 1..Len(evq') : evq'[i] = "GOT_IP" => LostAfter(i, evq')
  BY <1>1, <1>2
<1>4. LostAfter(0, evq') /\ link' = "idle"
  BY <1>1, <1>2 DEF Lose
<1> QED BY <1>3, <1>4 DEF EventsTellLink, Associated

\* Posting what is not a disconnection keeps what the others tell.
LEMMA PostKeeps ==
  ASSUME evq \in Seq(Event), NEW e \in Event \ {"DISCONNECTED"}, evq' = Append(evq, e)
  PROVE  /\ Len(evq) \in Nat /\ Len(evq') = Len(evq) + 1 /\ evq'[Len(evq) + 1] = e
         /\ \A i \in 1..Len(evq) : evq'[i] = evq[i]
         /\ \A i \in 0..Len(evq) : LostAfter(i, evq') <=> LostAfter(i, evq)
         /\ ~LostAfter(Len(evq) + 1, evq')
<1>1. \A i \in 0..Len(evq) : LostAfter(i, evq') <=> LostAfter(i, evq)
  BY LostAfterAppend
<1> QED BY <1>1, AppendToQueue DEF LostAfter

\* An event e taken from the queue leaves what the rest of it tells.
LEMMA TakeLeaves ==
  ASSUME evq \in Seq(Event), NEW e, NextEvent(e)
  PROVE  /\ evq # <<>> /\ Len(evq) \in Nat \ {0} /\ evq[1] = e
         /\ Len(evq') = Len(evq) - 1
         /\ \A i \in 1..Len(evq') : evq'[i] = evq[i + 1]
         /\ \A i \in 1..Len(evq) : LostAfter(i - 1, evq') <=> LostAfter(i, evq)
         /\ LostAfter(0, evq) <=> e = "DISCONNECTED" \/ LostAfter(0, evq')
<1>1. evq # <<>> /\ Head(evq) = e /\ evq' = Tail(evq)
  BY DEF NextEvent
<1>2. \A i \in 1..Len(evq) : LostAfter(i - 1, evq') <=> LostAfter(i, evq)
  BY <1>1, LostAfterTail
<1>3. Len(evq) \in Nat \ {0} /\ evq[1] = e /\ Len(evq') = Len(evq) - 1
      /\ \A i \in 1..Len(evq') : evq'[i] = evq[i + 1]
  BY <1>1, TailOfQueue
<1>4. LostAfter(0, evq) <=> evq[1] = "DISCONNECTED" \/ LostAfter(1, evq)
  BY <1>3 DEF LostAfter
<1>5. LostAfter(0, evq') <=> LostAfter(1, evq)
  BY <1>2, <1>3
<1> QED BY <1>1, <1>2, <1>3, <1>4, <1>5

\* STA_START, handled or not, says nothing of a connection.
LEMMA StartTells ==
  ASSUME evq \in Seq(Event), EventsTellLink, NextEvent("STA_START"),
         BitDue' = BitDue, missed' = missed,
         link' = link \/ {link, link'} \cap {"noip", "up"} = {}
  PROVE  EventsTellLink'
<1>1. ASSUME link' \notin Associated
      PROVE  /\ \A i \in 1..Len(evq') : evq'[i] = "GOT_IP" => LostAfter(i, evq')
             /\ BitDue' => LostAfter(0, evq')
  <2>1. link \notin Associated
    BY <1>1 DEF Associated
  <2>2. BitDue => LostAfter(0, evq')
    BY <2>1, TakeLeaves DEF EventsTellLink
  <2>3. ASSUME NEW i \in 1..Len(evq'), evq'[i] = "GOT_IP"
        PROVE  LostAfter(i, evq')
    <3>1. i + 1 \in 1..Len(evq) /\ evq[i + 1] = "GOT_IP"
      BY <2>3, TakeLeaves
    <3>2. LostAfter(i + 1, evq) /\ (i + 1) - 1 = i
      BY <2>1, <3>1 DEF EventsTellLink
    <3> QED BY <3>1, <3>2, TakeLeaves
  <2> QED BY <2>2, <2>3
<1>2. ASSUME link' = "up", ~missed
      PROVE  \/ \E i \in 1..Len(evq') : evq'[i] = "GOT_IP" /\ ~LostAfter(i, evq')
             \/ BitDue' /\ ~LostAfter(0, evq')
  <2>1. link = "up"
    BY <1>2
  <2>2. CASE BitDue /\ ~LostAfter(0, evq)
    BY <2>2, TakeLeaves
  <2>3. ASSUME NEW i \in 1..Len(evq), evq[i] = "GOT_IP", ~LostAfter(i, evq)
        PROVE  i - 1 \in 1..Len(evq') /\ evq'[i - 1] = "GOT_IP" /\ ~LostAfter(i - 1, evq')
    <3>1. i # 1 /\ Len(evq') = Len(evq) - 1 /\ Len(evq) \in Nat \ {0}
      BY <2>3, TakeLeaves
    <3>2. i - 1 \in 1..Len(evq') /\ (i - 1) + 1 = i
      BY <3>1
    <3> QED BY <2>3, <3>2, TakeLeaves
  <2> QED BY <1>2, <2>1, <2>2, <2>3 DEF EventsTellLink
<1> QED BY <1>1, <1>2 DEF EventsTellLink

\* A DISCONNECTED, once the bit is clear, is the last about its connection.
LEMMA EndTells ==
  ASSUME evq \in Seq(Event), EventsTellLink, NextEvent("DISCONNECTED"),
         ~BitDue', link' = link, missed' = missed
  PROVE  EventsTellLink'
<1>1. link' \notin Associated =>
        \A i \in 1..Len(evq') : evq'[i] = "GOT_IP" => LostAfter(i, evq')
  BY TakeLeaves DEF EventsTellLink, Associated
<1>2. ASSUME link' = "up", ~missed
      PROVE  \E i \in 1..Len(evq') : evq'[i] = "GOT_IP" /\ ~LostAfter(i, evq')
  <2>1. PICK i \in 1..Len(evq) : evq[i] = "GOT_IP" /\ ~LostAfter(i, evq)
    BY <1>2, TakeLeaves DEF EventsTellLink
  <2>2. i - 1 \in 1..Len(evq') /\ evq'[i - 1] = "GOT_IP" /\ ~LostAfter(i - 1, evq')
    BY <2>1, TakeLeaves
  <2> QED BY <2>2
<1> QED BY <1>1, <1>2 DEF EventsTellLink

\* A GOT_IP sets the bit, or is missed.
LEMMA AddressTells ==
  ASSUME evq \in Seq(Event), EventsTellLink, NextEvent("GOT_IP"), link' = link,
         \/ BitDue' /\ missed' = missed
         \/ BitDue' = BitDue /\ missed'
  PROVE  EventsTellLink'
<1>1. link' \notin Associated =>
        /\ \A i \in 1..Len(evq') : evq'[i] = "GOT_IP" => LostAfter(i, evq')
        /\ LostAfter(0, evq')
  BY TakeLeaves DEF EventsTellLink, Associated
<1>2. ASSUME link' = "up", LostAfter(0, evq'), ~missed'
      PROVE  \E i \in 1..Len(evq') : evq'[i] = "GOT_IP" /\ ~LostAfter(i, evq')
  <2>1. PICK i \in 1..Len(evq) : evq[i] = "GOT_IP" /\ ~LostAfter(i, evq)
    BY <1>2, TakeLeaves DEF EventsTellLink
  <2>2. i - 1 \in 1..Len(evq') /\ evq'[i - 1] = "GOT_IP" /\ ~LostAfter(i - 1, evq')
    BY <1>2, <2>1, TakeLeaves
  <2> QED BY <2>2
<1> QED BY <1>1, <1>2 DEF EventsTellLink

\* What the queue, the handler and the bit together tell of the link stays
\* true, whatever the network, the timer and the commands do.
LEMMA LinkStep ==
  ASSUME WifiTypeOK, HandlerSetsBit, EventsTellLink, [WifiNext]_wifiVars
  PROVE  EventsTellLink'
<1> USE DEF timerVars, driverVars, handlerVars, bounds
<1>t. evq \in Seq(Event) BY DEF WifiTypeOK
<1>1. CASE HandleStaStart
  BY <1>1, <1>t, StartTells DEF HandleStaStart, TakeEvent, NextEvent, ConnectFrom, BitDue
<1>2. CASE HandleDisconnected
  BY <1>2, <1>t, EndTells DEF HandleDisconnected, TakeEvent, BitDue
<1>3. CASE HandleGotIp
  BY <1>3, <1>t, AddressTells DEF HandleGotIp, TakeEvent, BitDue
<1>4. CASE Schedule \/ Arm \/ SetScheduled \/ Online
  BY <1>4, SameEvents DEF Schedule, Arm, SetScheduled, Online, BitDue
<1>5. ASSUME TimerTask \/ \E c \in Caller : Read(c) \/ StaConnect(c)
      PROVE  EventsTellLink'
  BY <1>5, SameEvents
     DEF TimerTask, TimerExpires, CallbackStart, CallbackConnect, Read, StaConnect, ConnectFrom, BitDue
<1>6. CASE UserConnect
  BY <1>6, <1>t, SameEvents, LoseTells DEF UserConnect, BitDue
<1>7. CASE Drop
  BY <1>7, <1>t, LoseTells DEF Drop
<1>8. ASSUME NEW c \in Caller, StaStart(c)
      PROVE  EventsTellLink'
  <2>1. CASE link = "off" /\ link' = "idle" /\ evq' = Append(evq, "STA_START")
    <3>1. BitDue' = BitDue /\ missed' = missed
      BY <1>8 DEF StaStart, BitDue
    <3> QED BY <1>t, <2>1, <3>1, PostKeeps DEF EventsTellLink, Associated, Event, WifiEvent
  <2>2. CASE UNCHANGED driverVars
    BY <1>8, <2>2, SameEvents DEF StaStart, BitDue
  <2> QED BY <1>8, <2>1, <2>2 DEF StaStart
<1>9. CASE GetIp
  <2>1. link' = "up" /\ evq' = Append(evq, "GOT_IP")
    BY <1>9 DEF GetIp
  <2> QED BY <1>t, <2>1, PostKeeps DEF EventsTellLink, Associated, Event, WifiEvent
<1>10. CASE Associate \/ LoseIp
  BY <1>10, SameEvents DEF Associate, LoseIp, BitDue
<1>11. CASE Restart
  <2>1. evq' = <<>> /\ Len(evq') = 0 /\ link' = "off" /\ ~BitDue'
    BY <1>11 DEF Restart, BitDue
  <2> QED BY <2>1 DEF EventsTellLink, Associated
<1>12. CASE UNCHANGED wifiVars
  BY <1>12, SameEvents DEF wifiVars, BitDue
<1>13. ASSUME NEW e \in Event, MissEvent(e)
       PROVE  EventsTellLink'
  <2>1. /\ NextEvent(e) /\ e \notin handled /\ BitDue' = BitDue /\ link' = link
        /\ missed' = (missed \/ e = "GOT_IP")
    BY <1>13 DEF MissEvent, BitDue
  <2>2. CASE e = "STA_START"
    BY <1>t, <2>1, <2>2, StartTells DEF WifiTypeOK
  <2>3. CASE e = "DISCONNECTED"
    <3>1. handled = {} /\ ~BitDue
      BY <2>1, <2>3 DEF WifiTypeOK, Event, WifiEvent, HandlerSetsBit
    <3> QED BY <1>t, <2>1, <2>3, <3>1, EndTells DEF WifiTypeOK
  <2>4. CASE e = "GOT_IP"
    BY <1>t, <2>1, <2>4, AddressTells
  <2> QED BY <2>2, <2>3, <2>4 DEF Event, WifiEvent
<1>14. CASE Register
  BY <1>14, SameEvents DEF Register, BitDue
<1> QED
  BY <1>1, <1>2, <1>3, <1>4, <1>5, <1>6, <1>7, <1>8, <1>9, <1>10, <1>11, <1>12, <1>13, <1>14
     DEF WifiNext, WifiStep, EventLoop, Miss, Call

-----------------------------------------------------------------------------
(* Theorems                                                                *)

\* The inductive invariant: timer and flag in step, queue and link in step.
THEOREM WifiInvariant == WifiSpec => []WifiInv
<1>1. WifiInit => WifiInv
  BY InvInit
<1>2. WifiInv /\ [WifiNext]_wifiVars => WifiInv'
  BY TypeStep, TimerStep, HandlerStep, LinkStep DEF WifiInv
<1> QED BY <1>1, <1>2, PTL DEF WifiSpec

\* Every static of wifi_task.c keeps its type; the delay stays between
\* WIFI_RETRY_BASE_DELAY_MS and WIFI_RETRY_MAX_DELAY_MS.
THEOREM WifiTypeCorrect == WifiSpec => []WifiTypeOK
BY WifiInvariant, PTL DEF WifiInv

\* Whenever s_reconnect_scheduled is set a connect is really coming.
THEOREM ScheduleHolds == WifiSpec => []ScheduledIsReal
BY WifiInvariant, PTL DEF WifiInv

\* When the event loop has caught up EVT_WIFI_CONNECTED is that of the link,
\* after any number of outages and commands, unless an address came while
\* IP_EVENT had no handler.
THEOREM BitCorrect == WifiSpec => []BitFollowsLink
<1>1. WifiInv => BitFollowsLink
  <2> SUFFICES ASSUME WifiInv, hpc = "take", evq = <<>>
               PROVE  (link = "up" => bit \/ missed) /\ (bit => link \in {"noip", "up"})
    BY DEF BitFollowsLink
  <2>1. Len(evq) = 0 /\ (BitDue <=> bit) /\ ~LostAfter(0, evq)
    BY DEF BitDue, LostAfter
  <2> QED BY <2>1 DEF WifiInv, EventsTellLink, Associated
<1> QED BY <1>1, WifiInvariant, PTL

\* Once a retry is alive a step ends it only when esp_wifi_connect or a timer
\* call fails, or an event of WIFI_EVENT finds no handler.
THEOREM RetriesEndByErrors == WifiSpec => OnlyErrorsEndRetries
<1> DEFINE Failed ==
      /\ link = "idle"
      /\ \/ HandleStaStart \/ MissEvent("STA_START") \/ MissEvent("DISCONNECTED")
         \/ CallbackConnect \/ \E c \in Caller : StaConnect(c)
         \/ Schedule /\ timer' = "null"
         \/ Arm /\ timer' = "stopped"
<1>1. ASSUME WifiInv, RetryAlive, ~RetryAlive', [WifiNext]_wifiVars
      PROVE  Failed
  <2> USE DEF timerVars, driverVars, handlerVars, bounds
  <2>t. evq \in Seq(Event) /\ timer \in {"null", "stopped", "armed"} /\ hpc \in HandlerPc
    BY <1>1 DEF WifiInv, WifiTypeOK
  <2>d. /\ link' = "idle" /\ timer' # "armed" /\ fired' = "no"
        /\ \A c \in Caller : upc'[c] \notin {"start", "connect"}
        /\ hpc' \notin {"schedule", "arm", "set"} /\ ~LostAfter(0, evq')
    BY <1>1 DEF RetryAlive, LostAfter
  <2>1. ASSUME HandleStaStart \/ CallbackConnect \/ \E c \in Caller : StaConnect(c)
        PROVE  Failed
    BY <2>1, <2>d DEF HandleStaStart, CallbackConnect, StaConnect, ConnectFrom
  <2>2. CASE HandleDisconnected
    BY <2>2, <2>d DEF HandleDisconnected
  <2>3. CASE Schedule
    BY <2>3, <2>d, <1>1 DEF Schedule, WifiInv, ScheduledIsReal
  <2>4. CASE Arm
    BY <2>4, <2>t, <2>d, <1>1 DEF Arm, WifiInv, TimerInHandler
  <2>5. CASE SetScheduled
    BY <2>5, <2>d, <1>1 DEF SetScheduled, WifiInv, TimerInHandler
  <2>6. CASE HandleGotIp
    <3>1. NextEvent("GOT_IP") /\ link = "idle"
      BY <2>6, <2>d DEF HandleGotIp, TakeEvent
    <3>2. LostAfter(0, evq')
      BY <1>1, <2>t, <3>1, TakeLeaves DEF WifiInv, EventsTellLink, Associated
    <3> QED BY <2>d, <3>2
  <2>7. CASE Online
    BY <2>7, <2>d, <1>1 DEF Online, RetryAlive
  <2>8. CASE TimerExpires \/ CallbackStart
    BY <2>8, <2>d DEF TimerExpires, CallbackStart
  <2>9. CASE UserConnect
    <3>1. CASE Lose(link)
      BY <3>1, <2>t, <2>d, LostAfterAppend, AppendToQueue DEF Lose, Event, WifiEvent
    <3>2. CASE UNCHANGED driverVars
      BY <2>9, <3>2, <2>t, <2>d, <1>1 DEF UserConnect, Goto, RetryAlive, WifiInv, WifiTypeOK, Caller
    <3> QED BY <2>9, <3>1, <3>2 DEF UserConnect
  <2>10. CASE Drop
    BY <2>10, <2>t, <2>d, LostAfterAppend, AppendToQueue DEF Drop, Lose, Event, WifiEvent
  <2>11. CASE Associate \/ GetIp \/ LoseIp
    BY <2>11, <2>d DEF Associate, GetIp, LoseIp
  <2>12. ASSUME NEW c \in Caller, Read(c)
         PROVE  FALSE
    <3>1. \A d \in Caller : upc[d] \in {"start", "connect"} => upc'[d] = upc[d]
      BY <2>12, <1>1 DEF Read, Goto, WifiInv, WifiTypeOK
    <3> QED BY <2>12, <3>1, <2>d, <1>1 DEF Read, RetryAlive
  <2>13. ASSUME NEW c \in Caller, StaStart(c)
         PROVE  FALSE
    BY <2>13, <2>d, <1>1 DEF StaStart, Goto, WifiInv, WifiTypeOK
  <2>14. CASE Restart
    BY <2>14, <2>d DEF Restart
  <2>15. CASE UNCHANGED wifiVars
    BY <2>15, <1>1 DEF wifiVars, RetryAlive
  <2>16. CASE MissEvent("GOT_IP")
    <3>1. NextEvent("GOT_IP") /\ link = "idle"
      BY <2>16, <2>d DEF MissEvent
    <3>2. LostAfter(0, evq')
      BY <1>1, <2>t, <3>1, TakeLeaves DEF WifiInv, EventsTellLink, Associated
    <3> QED BY <2>d, <3>2
  <2>17. ASSUME MissEvent("STA_START") \/ MissEvent("DISCONNECTED")
         PROVE  Failed
    BY <2>17, <2>d DEF MissEvent
  <2>18. CASE Register
    BY <2>18, <2>d, <1>1 DEF Register, RetryAlive
  <2> QED
    BY <1>1, <2>1, <2>2, <2>3, <2>4, <2>5, <2>6, <2>7, <2>8, <2>9, <2>10, <2>11, <2>12, <2>13, <2>14, <2>15, <2>16, <2>17, <2>18
       DEF WifiNext, WifiStep, EventLoop, TimerTask, Call, Miss, Event, WifiEvent
<1>2. WifiInv /\ [WifiNext]_wifiVars => [RetryAlive /\ ~RetryAlive' => Failed]_wifiVars
  BY <1>1
<1> QED BY <1>2, WifiInvariant, PTL DEF WifiSpec, OnlyErrorsEndRetries

-----------------------------------------------------------------------------
(* Station implements Wifi                                                 *)

\* Every step of start-up or provisioning is a step of the station's module
\* or leaves its variables alone.
LEMMA StationStep == [StationNext]_stationVars => [WifiNext]_wifiVars
<1> SUFFICES ASSUME [StationNext]_stationVars PROVE [WifiNext]_wifiVars
  OBVIOUS
<1>1. CASE BleInit \/ RtosCreate \/ StorageInit \/ WifiStart \/ AppReadSsid
  BY <1>1 DEF BleInit, RtosCreate, StorageInit, WifiStart, AppReadSsid
<1>11. CASE RegisterHandler
  BY <1>11 DEF RegisterHandler, WifiNext
<1>2. CASE AppReadPassword \/ HostRead
  BY <1>2 DEF AppReadPassword, HostRead, WifiNext, WifiStep, Call, Caller
<1>3. ASSUME NEW c \in Caller, SetConfig(c) \/ Connect(c)
      PROVE  [WifiNext]_wifiVars
  BY <1>3 DEF SetConfig, Connect, WifiNext, WifiStep, Call
<1>4. CASE WriteSsid \/ WritePassword
  BY <1>4 DEF WriteSsid, WritePassword, Write
<1>5. CASE CmdConnect
  BY <1>5 DEF CmdConnect, WifiNext
<1>6. CASE CmdDisconnect \/ HandleGap \/ OnSync \/ OnReset \/ AdvEnds
  BY <1>6 DEF CmdDisconnect, HandleGap, OnSync, OnReset, AdvEnds
<1>7. CASE Reboot
  BY <1>7 DEF Reboot, WifiNext
<1>8. CASE EventLoop \/ TimerTask \/ Network \/ Drop \/ LoseIp
  BY <1>8 DEF Network, WifiNext, WifiStep
<1>9. CASE UNCHANGED stationVars
  BY <1>9 DEF stationVars
<1>10. "app" \in Caller /\ "host" \in Caller
  BY DEF Caller
<1> QED
  BY <1>1, <1>2, <1>3, <1>4, <1>5, <1>6, <1>7, <1>8, <1>9, <1>10, <1>11 DEF StationNext, AppMain, HostConnects

\* app_main, the clients, their connection and the restarts only drive the
\* station as Wifi.tla lets its callers.
THEOREM StationImplementsWifi == StationSpec => WifiSpec
<1>1. StationInit => WifiInit
  BY DEF StationInit
<1> QED BY <1>1, StationStep, PTL DEF StationSpec, WifiSpec

\* So a scheduled retry is real in the whole firmware.
THEOREM StationSchedule == StationSpec => []ScheduledIsReal
BY StationImplementsWifi, ScheduleHolds, PTL

-----------------------------------------------------------------------------
(* The configuration is what was sent                                      *)

StationTypeOK ==
  /\ upc \in [Caller -> {"none", "read", "start", "connect"}]
  /\ nvs \in Credentials
  /\ buf \in [Caller -> Credentials]

\* From a CONNECT until the driver is told, what was sent is in NVS, then in
\* the host task's buffer, then with the driver: unless NVS is useless.
SentIsOnItsWay ==
  ~skew =>
    /\ upc["host"] = "read" => nvs = asked \/ ~Usable(nvs)
    /\ upc["host"] = "start" => buf["host"] = asked
    /\ ~Configuring => config = Told(asked)

StationInv == StationTypeOK /\ SentIsOnItsWay

\* A missing credential is of no use.
LEMMA BlankUseless == Blank \in Credentials /\ ~Usable(Blank)
BY DEF Blank, Credentials, Usable

\* A reason is remembered.
LEMMA BlameSticks ==
  ASSUME NEW why, Blame(why)
  PROVE  skew'
BY DEF Blame

LEMMA StationInvInit == StationInit => StationInv
<1> SUFFICES ASSUME StationInit PROVE StationInv
  OBVIOUS
<1>1. nvs \in Credentials
  BY BlankUseless DEF StationInit, Credentials
<1>2. buf \in [Caller -> Credentials]
  BY BlankUseless DEF StationInit
<1>3. upc \in [Caller -> {"none", "read", "start", "connect"}] /\ upc["host"] = "none"
  BY DEF StationInit, WifiInit, Caller
<1>4. SentIsOnItsWay
  BY <1>3 DEF SentIsOnItsWay, StationInit
<1> QED BY <1>1, <1>2, <1>3, <1>4 DEF StationInv, StationTypeOK

\* A step of one caller is none of the other's.
LEMMA HostStays ==
  ASSUME StationTypeOK, NEW pc \in {"none", "read", "start", "connect"}, Goto("app", pc)
  PROVE  upc' \in [Caller -> {"none", "read", "start", "connect"}] /\ upc'["host"] = upc["host"]
BY GotoKeepsType DEF StationTypeOK, Caller

LEMMA StationInvStep ==
  ASSUME StationInv, [StationNext]_stationVars
  PROVE  StationInv'
<1> USE DEF StationInv, credVars, history, bounds, timerVars, driverVars, handlerVars
<1>h. "app" \in Caller /\ "host" \in Caller
  BY DEF Caller
<1>16. CASE RegisterHandler
  <2>1. upc' = upc /\ UNCHANGED credVars /\ UNCHANGED history
    BY <1>16 DEF RegisterHandler, Register, wifiVars
  <2> QED BY <2>1 DEF StationTypeOK, SentIsOnItsWay, Configuring
<1>1. CASE BleInit \/ RtosCreate \/ WifiStart
  BY <1>1 DEF BleInit, RtosCreate, WifiStart, wifiVars, StationTypeOK, SentIsOnItsWay, Configuring
<1>2. CASE StorageInit
  <2>1. nvs' \in Credentials /\ (nvs' = nvs \/ ~Usable(nvs'))
    BY <1>2, BlankUseless DEF StorageInit, StationTypeOK
  <2> QED BY <1>2, <2>1 DEF StorageInit, wifiVars, StationTypeOK, SentIsOnItsWay, Configuring, Usable
<1>3. CASE AppReadSsid
  <2>1. buf' \in [Caller -> Credentials] /\ buf'["host"] = buf["host"]
    BY <1>3, <1>h DEF AppReadSsid, StationTypeOK, Credentials
  <2> QED BY <1>3, <2>1 DEF AppReadSsid, wifiVars, StationTypeOK, SentIsOnItsWay, Configuring
<1>4. CASE AppReadPassword
  <2>1. buf' \in [Caller -> Credentials] /\ buf'["host"] = buf["host"]
    BY <1>4, <1>h DEF AppReadPassword, StationTypeOK, Credentials
  <2>2. upc' \in [Caller -> {"none", "read", "start", "connect"}] /\ upc'["host"] = upc["host"]
    BY <1>4, HostStays DEF AppReadPassword, Read
  <2> QED BY <1>4, <2>1, <2>2 DEF AppReadPassword, StationTypeOK, SentIsOnItsWay, Configuring
<1>5. CASE SetConfig("app")
  <2>1. upc' \in [Caller -> {"none", "read", "start", "connect"}] /\ upc'["host"] = upc["host"]
    BY <1>5, HostStays DEF SetConfig, StaStart
  <2>2. buf' \in [Caller -> Credentials] /\ buf'["host"] = buf["host"]
    BY <1>5, <1>h, BlankUseless DEF SetConfig, StationTypeOK
  <2>3. nvs' = nvs /\ asked' = asked
    BY <1>5 DEF SetConfig
  <2>4. ~skew' => ~skew /\ config' = Told(asked)
    BY <1>5, BlameSticks DEF SetConfig, Blame
  <2> QED BY <2>1, <2>2, <2>3, <2>4 DEF StationTypeOK, SentIsOnItsWay, Configuring, Told
<1>6. CASE SetConfig("host")
  <2>1. /\ upc' \in [Caller -> {"none", "read", "start", "connect"}]
        /\ upc["host"] = "start" /\ upc'["host"] = "connect"
    BY <1>6, <1>h, GotoKeepsType DEF SetConfig, StaStart, StationTypeOK
  <2>2. buf' \in [Caller -> Credentials]
    BY <1>6, <1>h, BlankUseless DEF SetConfig, StationTypeOK
  <2>3. nvs' = nvs /\ asked' = asked
    BY <1>6 DEF SetConfig
  <2>4. ~skew' => ~skew /\ config' = Told(buf["host"])
    BY <1>6, BlameSticks DEF SetConfig, Blame
  <2> QED BY <2>1, <2>2, <2>3, <2>4 DEF StationTypeOK, SentIsOnItsWay, Configuring, Told
<1>7. ASSUME NEW c \in Caller, Connect(c)
      PROVE  StationInv'
  <2>1. /\ upc' \in [Caller -> {"none", "read", "start", "connect"}]
        /\ upc'["host"] = upc["host"] \/ (upc["host"] = "connect" /\ upc'["host"] = "none")
    <3>1. Goto(c, "none") /\ upc[c] = "connect"
      BY <1>7 DEF Connect, StaConnect
    <3>2. /\ upc' \in [Caller -> {"none", "read", "start", "connect"}] /\ upc'[c] = "none"
          /\ \A d \in Caller \ {c} : upc'[d] = upc[d]
      BY <3>1, GotoKeepsType DEF StationTypeOK
    <3>3. CASE c = "host"
      BY <3>1, <3>2, <3>3
    <3>4. CASE c # "host"
      BY <3>2, <3>4, <1>h
    <3> QED BY <3>2, <3>3, <3>4
  <2> QED BY <1>7, <2>1 DEF Connect, ownVars, StationTypeOK, SentIsOnItsWay, Configuring
<1>8. ASSUME NEW f \in {"ssid", "password"}, NEW v, Write(f, v),
             f = "ssid" => v \in Ssids, f = "password" => v \in Passwords
      PROVE  StationInv'
  <2>1. nvs' \in Credentials
    BY <1>8 DEF Write, Save, StationTypeOK, Credentials
  <2>2. upc["host"] = "none" /\ UNCHANGED <<upc, buf, config, asked, skew>>
    BY <1>8 DEF Write, Served, HostIdle, wifiVars
  <2> QED BY <2>1, <2>2 DEF StationTypeOK, SentIsOnItsWay, Configuring
<1>9. CASE CmdConnect
  <2>1. upc' \in [Caller -> {"none", "read", "start", "connect"}] /\ upc'["host"] = "read"
    BY <1>9, <1>h, GotoKeepsType DEF CmdConnect, UserConnect, StationTypeOK
  <2>2. /\ UNCHANGED <<nvs, buf, config, sent>> /\ asked' = sent
        /\ (skew' = FALSE /\ nvs = sent) \/ skew'
    BY <1>9, BlameSticks DEF CmdConnect
  <2> QED BY <2>1, <2>2 DEF StationTypeOK, SentIsOnItsWay, Configuring
<1>10. CASE HostRead
  <2>1. /\ upc' \in [Caller -> {"none", "read", "start", "connect"}]
        /\ upc["host"] = "read" /\ upc'["host"] \in {"none", "start"}
    BY <1>10, <1>h, GotoKeepsType DEF HostRead, Read, StationTypeOK
  <2>2. /\ buf' \in [Caller -> Credentials]
        /\ buf'["host"] = IF NvsUp THEN nvs ELSE Blank
    BY <1>10, <1>h, BlankUseless DEF HostRead, StationTypeOK
  <2>3. ~skew' => ~skew /\ Usable(buf'["host"]) /\ upc'["host"] = "start"
    BY <1>10, BlameSticks DEF HostRead, Blame
  <2>4. nvs' = nvs /\ asked' = asked
    BY <1>10 DEF HostRead
  <2> QED BY <2>1, <2>2, <2>3, <2>4, BlankUseless DEF StationTypeOK, SentIsOnItsWay, Configuring
<1>11. CASE CmdDisconnect \/ HandleGap \/ OnSync \/ OnReset \/ AdvEnds
  BY <1>11 DEF CmdDisconnect, HandleGap, OnSync, OnReset, AdvEnds, wifiVars,
               StationTypeOK, SentIsOnItsWay, Configuring
<1>12. CASE Reboot
  <2>1. upc' \in [Caller -> {"none", "read", "start", "connect"}] /\ upc'["host"] = "none"
    BY <1>12 DEF Reboot, Restart, Caller
  <2>2. buf' \in [Caller -> Credentials]
    BY <1>12, BlankUseless DEF Reboot
  <2>3. ~skew' => ~skew /\ ~Configuring
    BY <1>12, BlameSticks DEF Reboot, Configuring, Blame
  <2>4. UNCHANGED <<nvs, config, asked>>
    BY <1>12 DEF Reboot
  <2> QED BY <2>1, <2>2, <2>3, <2>4 DEF StationTypeOK, SentIsOnItsWay, Configuring, Told
<1>13. CASE (EventLoop \/ TimerTask \/ Network \/ Drop \/ LoseIp) /\ UNCHANGED ownVars
  <2>1. upc' = upc
    BY <1>13 DEF EventLoop, HandleStaStart, HandleDisconnected, Schedule, Arm, SetScheduled, HandleGotIp,
                 Online, Miss, MissEvent, TimerTask, TimerExpires, CallbackStart, CallbackConnect, Network, Associate,
                 GetIp, Drop, LoseIp
  <2> QED BY <1>13, <2>1 DEF ownVars, StationTypeOK, SentIsOnItsWay, Configuring
<1>14. CASE UNCHANGED stationVars
  BY <1>14 DEF stationVars, ownVars, wifiVars, StationTypeOK, SentIsOnItsWay, Configuring
<1>15. WriteSsid \/ WritePassword => StationInv'
  BY <1>8 DEF WriteSsid, WritePassword
<1> QED
  BY <1>1, <1>2, <1>3, <1>4, <1>5, <1>6, <1>7, <1>9, <1>10, <1>11, <1>12, <1>13, <1>14, <1>15, <1>16, <1>h
     DEF StationNext, AppMain, HostConnects

\* Whatever is sent, and however often, the station is configured with it
\* whole unless one of the named reasons holds.
THEOREM ConfigCorrect == StationSpec => []ConfigIsSent
<1>1. StationInv => ConfigIsSent
  BY DEF StationInv, SentIsOnItsWay, ConfigIsSent, Told
<1>2. StationInit => StationInv
  BY StationInvInit
<1>3. StationInv /\ [StationNext]_stationVars => StationInv'
  BY StationInvStep
<1> QED BY <1>1, <1>2, <1>3, PTL DEF StationSpec
=============================================================================
