----------------------------- MODULE MonitorProofs -----------------------------
(***************************************************************************)
(* Proofs about Monitor, for every channel capacity of at least two and    *)
(* every backoff cap.  Each theorem adds its own strengthening to what the *)
(* earlier ones established.                                               *)
(***************************************************************************)
EXTENDS Monitor, TLAPS

-------------------------------------------------------------------------------
(* Sequences: what Append, Tail and Range do to each other.                *)

(* The empty sequence holds nothing.                                       *)
LEMMA EmptySeq ==
  ASSUME NEW S
  PROVE  << >> \in Seq(S) /\ Len(<< >>) = 0 /\ Range(<< >>) = {}
  BY DEF Range

(* Appending a request adds it, and nothing else, to the queued ones.      *)
LEMMA RangeAppend ==
  ASSUME NEW S, NEW s \in Seq(S), NEW e \in S
  PROVE  /\ Append(s, e) \in Seq(S) /\ Len(Append(s, e)) = Len(s) + 1
         /\ Range(Append(s, e)) = Range(s) \cup {e}
  <1>1. Append(s, e) \in Seq(S) /\ Len(Append(s, e)) = Len(s) + 1
    OBVIOUS
  <1>2. ASSUME NEW x \in Range(Append(s, e))
        PROVE  x \in Range(s) \cup {e}
    <2>1. PICK i \in DOMAIN Append(s, e) : x = Append(s, e)[i]
      BY <1>2 DEF Range
    <2>2. i \in 1 .. Len(s) + 1
      BY <2>1
    <2>3. CASE i = Len(s) + 1
      BY <2>1, <2>3
    <2>4. CASE i \in 1 .. Len(s)
      BY <2>1, <2>4 DEF Range
    <2> QED
      BY <2>2, <2>3, <2>4
  <1>3. ASSUME NEW x \in Range(s)
        PROVE  x \in Range(Append(s, e))
    <2>1. PICK i \in 1 .. Len(s) : x = s[i]
      BY <1>3 DEF Range
    <2>2. i \in 1 .. Len(Append(s, e)) /\ Append(s, e)[i] = x
      BY <2>1
    <2> QED
      BY <2>2, <1>1 DEF Range
  <1>4. e \in Range(Append(s, e))
    <2>1. Append(s, e)[Len(s) + 1] = e /\ Len(s) + 1 \in 1 .. Len(Append(s, e))
      BY <1>1
    <2> QED
      BY <2>1, <1>1 DEF Range
  <1> QED
    BY <1>1, <1>2, <1>3, <1>4

(* Taking the head leaves the other queued elements.                       *)
LEMMA RangeTail ==
  ASSUME NEW S, NEW s \in Seq(S), s # << >>
  PROVE  /\ Tail(s) \in Seq(S) /\ Len(Tail(s)) = Len(s) - 1
         /\ Head(s) \in S /\ Head(s) = s[1]
         /\ Range(s) = {Head(s)} \cup Range(Tail(s))
  <1>1. /\ Tail(s) \in Seq(S) /\ Len(Tail(s)) = Len(s) - 1
        /\ Head(s) \in S /\ Head(s) = s[1] /\ Len(s) >= 1
    OBVIOUS
  <1>2. \A i \in 1 .. Len(Tail(s)) : Tail(s)[i] = s[i + 1]
    BY <1>1
  <1>3. ASSUME NEW x \in Range(s), x # Head(s)
        PROVE  x \in Range(Tail(s))
    <2>1. PICK i \in 1 .. Len(s) : x = s[i]
      BY <1>3 DEF Range
    <2>2. i - 1 \in 1 .. Len(Tail(s))
      BY <2>1, <1>1, <1>3
    <2>3. Tail(s)[i - 1] = x
      BY <2>1, <2>2, <1>2
    <2>4. DOMAIN Tail(s) = 1 .. Len(Tail(s))
      BY <1>1
    <2> QED
      BY <2>2, <2>3, <2>4 DEF Range
  <1>4. ASSUME NEW x \in Range(Tail(s))
        PROVE  x \in Range(s)
    <2>1. PICK i \in 1 .. Len(Tail(s)) : x = Tail(s)[i]
      BY <1>4, <1>1 DEF Range
    <2>2. i + 1 \in 1 .. Len(s) /\ x = s[i + 1]
      BY <2>1, <1>1, <1>2
    <2> QED
      BY <2>2 DEF Range
  <1>5. Head(s) \in Range(s)
    BY <1>1 DEF Range
  <1> QED
    BY <1>1, <1>3, <1>4, <1>5

-------------------------------------------------------------------------------
(* Type correctness.                                                       *)

(* The initial state is typed.                                             *)
LEMMA TypeInit == Init => TypeOK
  <1> SUFFICES ASSUME Init
               PROVE  TypeOK
    OBVIOUS
  <1>1. channel \in Seq(Requests) /\ Len(channel) = 0 /\ inbound \in Seq(Nat)
    BY EmptySeq DEF Init
  <1>2. backoff \in 1 .. MaxBackoff /\ readers \in 0 .. MaxReaders
    BY MonitorAssumption DEF MonitorAssumption, Init
  <1>3. Len(channel) <= ChannelCap
    BY <1>1, MonitorAssumption DEF MonitorAssumption
  <1> QED
    BY <1>1, <1>2, <1>3 DEF Init, TypeOK, MonitorStates

(* Every step keeps the types: one case for each action.                   *)
LEMMA TypeStep == TypeOK /\ [Next]_vars => TypeOK'
  <1> SUFFICES ASSUME TypeOK, [Next]_vars
               PROVE  TypeOK'
    OBVIOUS
  <1> USE MonitorAssumption
      DEF MonitorAssumption, TypeOK, MonitorStates, loopVars, netVars,
          requestVars, keepVars, brokerVars, lockVars
  <1>a. "subscribe" \in Requests /\ "trigger" \in Requests
    BY DEF Requests
  <1>b. ASSUME NEW r \in Requests, HasRoom
        PROVE  /\ Append(channel, r) \in Seq(Requests)
               /\ Len(Append(channel, r)) <= ChannelCap
    <2>1. Len(channel) \in Nat
      OBVIOUS
    <2> QED
      BY <1>b, <2>1, RangeAppend DEF HasRoom
  <1>1. CASE ConnectOk
    <2>1. subscribed' \in BOOLEAN /\ refused' \in BOOLEAN /\ rearmed' \in BOOLEAN
      BY <1>1 DEF ConnectOk
    <2> QED
      BY <1>1, <2>1 DEF ConnectOk
  <1>2. CASE ConnectFail
    BY <1>2 DEF ConnectFail
  <1>3. CASE ConnLost
    <2>1. channel' \in Seq(Requests) /\ Len(channel') = 0
      BY <1>3, EmptySeq DEF ConnLost
    <2>2. inbound' \in Seq(Nat)
      BY <1>3, EmptySeq DEF ConnLost
    <2>3. subFailed' \in BOOLEAN /\ subscribed' \in BOOLEAN /\ refused' \in BOOLEAN
      BY <1>3 DEF ConnLost
    <2> QED
      BY <1>3, <2>1, <2>2, <2>3 DEF ConnLost
  <1>4. CASE BackoffElapsed
    <2>1. backoff' \in 1 .. MaxBackoff
      BY <1>4 DEF BackoffElapsed, NextBackoff, Least
    <2> QED
      BY <1>4, <2>1 DEF BackoffElapsed
  <1>5. CASE SubscribeOnConnAck
    <2>1. channel' \in Seq(Requests) /\ Len(channel') <= ChannelCap
      BY <1>5, <1>a, <1>b DEF SubscribeOnConnAck
    <2>2. subFailed' \in BOOLEAN /\ mon' \in MonitorStates
      BY <1>5 DEF SubscribeOnConnAck
    <2> QED
      BY <1>5, <2>1, <2>2 DEF SubscribeOnConnAck, BackoffOnConnAck
  <1>6. CASE RearmOnConnAck
    <2>1. channel' \in Seq(Requests) /\ Len(channel') <= ChannelCap
      BY <1>6, <1>a, <1>b DEF RearmOnConnAck, AfterRearm
    <2> QED
      BY <1>6, <2>1 DEF RearmOnConnAck
  <1>7. CASE SendRequest
    <2>1. channel' \in Seq(Requests) /\ Len(channel') <= ChannelCap
      <3>1. Len(channel) \in Nat
        OBVIOUS
      <3> QED
        BY <1>7, <3>1, RangeTail DEF SendRequest
    <2>2. subscribed' \in BOOLEAN /\ refused' \in BOOLEAN
      BY <1>7 DEF SendRequest
    <2>3. armed' \in BOOLEAN /\ rearmed' \in BOOLEAN
      BY <1>7 DEF SendRequest
    <2> QED
      BY <1>7, <2>1, <2>2, <2>3 DEF SendRequest
  <1>8. CASE RecvPublish
    <2>1. inbound' \in Seq(Nat) /\ Head(inbound) \in Nat
      BY <1>8, RangeTail DEF RecvPublish
    <2> QED
      BY <1>8, <2>1 DEF RecvPublish
  <1>9. CASE WriteStatus
    BY <1>9 DEF WriteStatus
  <1>10. CASE Keepalive
    <2>1. CASE KeepalivePublish
      <3>1. channel' \in Seq(Requests) /\ Len(channel') <= ChannelCap
        BY <2>1, <1>a, <1>b DEF KeepalivePublish
      <3>2. keep' \in {"sleep", "blocked"} /\ failures' \in Nat
        BY <2>1 DEF KeepalivePublish, Least
      <3> QED
        BY <2>1, <3>1, <3>2 DEF KeepalivePublish
    <2>2. CASE KeepaliveWake
      BY <2>2 DEF KeepaliveWake
    <2>3. CASE KeepaliveCancelled
      BY <2>3 DEF KeepaliveCancelled
    <2> QED
      BY <1>10, <2>1, <2>2, <2>3 DEF Keepalive
  <1>11. CASE Readers
    <2>1. readers' \in 0 .. MaxReaders
      BY <1>11 DEF Readers, ReaderEnters, ReaderLeaves
    <2> QED
      BY <1>11, <2>1 DEF Readers, ReaderEnters, ReaderLeaves
  <1>12. CASE Outside
    <2>1. CASE DeviceStreams
      <3>1. inbound' \in Seq(Nat) /\ reading' \in Nat
        BY <2>1, RangeAppend DEF DeviceStreams
      <3> QED
        BY <2>1, <3>1 DEF DeviceStreams
    <2>2. CASE OtherMessage
      <3>1. inbound' \in Seq(Nat)
        BY <2>2, RangeAppend DEF OtherMessage
      <3> QED
        BY <2>2, <3>1 DEF OtherMessage
    <2>3. CASE WindowExpires
      BY <2>3 DEF WindowExpires
    <2>4. CASE AbortMonitor
      <3>1. channel' \in Seq(Requests) /\ Len(channel') = 0
        BY <2>4, EmptySeq DEF AbortMonitor
      <3>2. inbound' \in Seq(Nat)
        BY <2>4, EmptySeq DEF AbortMonitor
      <3>3. subFailed' \in BOOLEAN /\ subscribed' \in BOOLEAN /\ refused' \in BOOLEAN
        BY <2>4 DEF AbortMonitor
      <3> QED
        BY <2>4, <3>1, <3>2, <3>3 DEF AbortMonitor
    <2> QED
      BY <1>12, <2>1, <2>2, <2>3, <2>4 DEF Outside
  <1>13. CASE UNCHANGED vars
    BY <1>13 DEF vars
  <1> QED
    BY <1>1, <1>2, <1>3, <1>4, <1>5, <1>6, <1>7, <1>8, <1>9, <1>10, <1>11,
       <1>12, <1>13 DEF Next, EventLoop

(* Every variable keeps its type; in particular backoff_secs never exceeds *)
(* MAX_RECONNECT_BACKOFF_SECS and the request channel its capacity.        *)
THEOREM TypeCorrect == Spec => []TypeOK
  BY TypeInit, TypeStep, PTL DEF Spec
-------------------------------------------------------------------------------
(* What reaches the broker on a connection.                                *)

(* The task's place in its loop determines the state of the connection.    *)
Phases ==
  /\ mon \in {"connack", "rearm", "writing"} => link = "up"
  /\ mon \in {"backoff", "gone"} => link = "down"
  /\ mon = "connack" => ~subscribed /\ ~refused

OneSubscribe(requests) ==
  \A i, j \in 1 .. Len(requests) :
    requests[i] = "subscribe" /\ requests[j] = "subscribe" => i = j

(* A subscribe is queued only between the CONNACK and its arrival, and the *)
(* broker answers at most one on a connection.                             *)
SubscribeOnlyPending ==
  /\ link = "down" \/ mon = "connack" \/ subscribed \/ refused
       => ~Queued("subscribe")
  /\ ~(subscribed /\ refused)

(* RearmQueuedOrSent is not inductive: when the re-arm finds the channel   *)
(* full, the trigger it relies on exists because the channel holds two     *)
(* requests of which at most one is the subscribe, and that in turn holds  *)
(* because no subscribe survives an outage.                                *)
RequestInv ==
  /\ Phases
  /\ OneSubscribe(channel)
  /\ SubscribeOnlyPending
  /\ SubscribeSurvivesQueue
  /\ RearmQueuedOrSent

(* Queueing a request keeps the subscribe unique, if it is the first one.  *)
LEMMA OneSubscribeAppend ==
  ASSUME NEW s \in Seq(Requests), NEW r \in Requests, OneSubscribe(s),
         r = "subscribe" => "subscribe" \notin Range(s)
  PROVE  OneSubscribe(Append(s, r))
  <1> SUFFICES ASSUME NEW i \in 1 .. Len(s) + 1, NEW j \in 1 .. Len(s) + 1,
                      Append(s, r)[i] = "subscribe",
                      Append(s, r)[j] = "subscribe"
               PROVE  i = j
    BY RangeAppend DEF OneSubscribe
  <1>1. \A k \in 1 .. Len(s) : Append(s, r)[k] = s[k] /\ s[k] \in Range(s)
    BY DEF Range
  <1>2. Append(s, r)[Len(s) + 1] = r
    OBVIOUS
  <1> QED
    BY <1>1, <1>2 DEF OneSubscribe

(* Sending the head keeps it unique, and none follows a sent subscribe.    *)
LEMMA OneSubscribeTail ==
  ASSUME NEW s \in Seq(Requests), s # << >>, OneSubscribe(s)
  PROVE  /\ OneSubscribe(Tail(s))
         /\ Head(s) = "subscribe" => "subscribe" \notin Range(Tail(s))
  <1>1. /\ Tail(s) \in Seq(Requests) /\ Len(Tail(s)) = Len(s) - 1
        /\ Head(s) = s[1] /\ Len(s) >= 1 /\ Len(s) \in Nat
        /\ \A i \in 1 .. Len(Tail(s)) : Tail(s)[i] = s[i + 1]
    BY RangeTail
  <1>2. \A i \in 1 .. Len(Tail(s)) : i + 1 \in 1 .. Len(s)
    BY <1>1
  <1>3. OneSubscribe(Tail(s))
    BY <1>1, <1>2 DEF OneSubscribe
  <1>4. ASSUME Head(s) = "subscribe", "subscribe" \in Range(Tail(s))
        PROVE  FALSE
    <2>1. PICK i \in 1 .. Len(Tail(s)) : Tail(s)[i] = "subscribe"
      BY <1>1, <1>4 DEF Range
    <2>2. s[1] = "subscribe" /\ s[i + 1] = "subscribe" /\ i + 1 # 1
      BY <1>1, <1>4, <2>1
    <2> QED
      BY <1>1, <1>2, <2>2 DEF OneSubscribe
  <1> QED
    BY <1>3, <1>4

(* Two queued requests are not both the subscribe.                         *)
LEMMA TwoQueuedHoldTrigger ==
  ASSUME NEW s \in Seq(Requests), OneSubscribe(s), Len(s) >= 2
  PROVE  "trigger" \in Range(s)
  <1>1. 1 \in 1 .. Len(s) /\ 2 \in 1 .. Len(s)
    OBVIOUS
  <1>2. s[1] = "trigger" \/ s[2] = "trigger"
    BY <1>1 DEF OneSubscribe, Requests
  <1> QED
    BY <1>1, <1>2 DEF Range

(* Nothing is promised before the first connection.                        *)
LEMMA RequestInit == Init => RequestInv
  <1> SUFFICES ASSUME Init
               PROVE  RequestInv
    OBVIOUS
  <1>1. Len(channel) = 0 /\ Range(channel) = {}
    BY EmptySeq DEF Init
  <1>2. OneSubscribe(channel)
    BY <1>1 DEF OneSubscribe
  <1> QED
    BY <1>1, <1>2
    DEF Init, RequestInv, Phases, SubscribeOnlyPending, Queued,
        SubscribeSurvivesQueue, RearmQueuedOrSent

(* Every step keeps the invariant: the losses empty the channel, the       *)
(* CONNACK arm refills it, a send moves its head to the broker.            *)
LEMMA RequestStep == TypeOK /\ RequestInv /\ [Next]_vars => RequestInv'
  <1> SUFFICES ASSUME TypeOK, RequestInv, [Next]_vars
               PROVE  RequestInv'
    OBVIOUS
  <1> USE DEF RequestInv, Phases, SubscribeOnlyPending, SubscribeSurvivesQueue,
              RearmQueuedOrSent, loopVars, netVars, requestVars, keepVars,
              brokerVars, lockVars
  <1>a. channel \in Seq(Requests) /\ "subscribe" \in Requests
        /\ "trigger" \in Requests /\ subscribed \in BOOLEAN
        /\ refused \in BOOLEAN /\ rearmed \in BOOLEAN
    BY DEF TypeOK, Requests
  <1>b. ASSUME channel' = channel
        PROVE  /\ OneSubscribe(channel)'
               /\ Queued("subscribe")' <=> Queued("subscribe")
               /\ Queued("trigger")' <=> Queued("trigger")
    BY <1>b DEF Queued, OneSubscribe
  <1>c. ASSUME channel' = << >>
        PROVE  /\ OneSubscribe(channel)'
               /\ ~Queued("subscribe")'
    BY <1>c, EmptySeq DEF Queued, OneSubscribe
  <1>d. ASSUME channel' = Append(channel, "trigger")
        PROVE  /\ OneSubscribe(channel)'
               /\ Queued("subscribe")' <=> Queued("subscribe")
               /\ Queued("trigger")'
    <2>1. OneSubscribe(Append(channel, "trigger"))
      BY <1>a, OneSubscribeAppend
    <2>2. Range(channel') = Range(channel) \cup {"trigger"}
      BY <1>a, <1>d, RangeAppend
    <2> QED
      BY <1>d, <2>1, <2>2 DEF Queued, OneSubscribe
  <1>e. ASSUME Len(channel) >= 2
        PROVE  Queued("trigger")
    BY <1>a, <1>e, TwoQueuedHoldTrigger DEF Queued
  <1>f. ~HasRoom => Len(channel) >= 2
    BY <1>a, MonitorAssumption DEF HasRoom, MonitorAssumption
  <1>1. CASE ConnectOk
    BY <1>1, <1>b DEF ConnectOk
  <1>2. CASE ConnectFail
    BY <1>2, <1>b DEF ConnectFail
  <1>3. CASE ConnLost
    BY <1>3, <1>c DEF ConnLost
  <1>4. CASE BackoffElapsed
    BY <1>4, <1>b DEF BackoffElapsed
  <1>5. CASE SubscribeOnConnAck
    <2>1. CASE HasRoom
      <3>1. channel' = Append(channel, "subscribe") /\ mon' = "rearm"
        BY <1>5, <2>1 DEF SubscribeOnConnAck, TrySubscribeFails, SubscribeDue
      <3>2. "subscribe" \notin Range(channel)
        BY <1>5 DEF SubscribeOnConnAck, Queued
      <3>3. OneSubscribe(Append(channel, "subscribe"))
        BY <1>a, <3>2, OneSubscribeAppend
      <3>4. OneSubscribe(channel)'
        BY <3>1, <3>3 DEF OneSubscribe
      <3>5. Queued("subscribe")'
        BY <1>a, <3>1, RangeAppend DEF Queued
      <3>6. ~subscribed /\ ~refused
        BY <1>5 DEF SubscribeOnConnAck
      <3> QED
        BY <1>5, <3>1, <3>4, <3>5, <3>6 DEF SubscribeOnConnAck
    <2>2. CASE ~HasRoom
      <3>1. channel' = channel /\ mon' = "polling" /\ subFailed' = TRUE
        BY <1>5, <2>2 DEF SubscribeOnConnAck, TrySubscribeFails, SubscribeDue
      <3> QED
        BY <1>5, <1>b, <1>e, <1>f, <2>2, <3>1 DEF SubscribeOnConnAck
    <2> QED
      BY <2>1, <2>2
  <1>6. CASE RearmOnConnAck
    <2>1. CASE HasRoom
      BY <1>6, <1>d, <2>1 DEF RearmOnConnAck, AfterRearm
    <2>2. CASE ~HasRoom
      BY <1>6, <1>b, <1>e, <1>f, <2>2 DEF RearmOnConnAck, AfterRearm
    <2> QED
      BY <2>1, <2>2
  <1>7. CASE SendRequest
    <2>1. channel # << >> /\ channel' = Tail(channel)
      BY <1>7 DEF SendRequest
    <2>2. /\ OneSubscribe(Tail(channel))
          /\ Head(channel) = "subscribe" => "subscribe" \notin Range(Tail(channel))
      BY <1>a, <2>1, OneSubscribeTail
    <2>3. Range(channel) = {Head(channel)} \cup Range(channel')
      BY <1>a, <2>1, RangeTail
    <2>4. OneSubscribe(channel)'
      BY <2>1, <2>2 DEF OneSubscribe
    <2>5. /\ Head(channel) = "subscribe" => ~Queued("subscribe")'
          /\ Queued("subscribe")' => Queued("subscribe")
          /\ Queued("subscribe") => Queued("subscribe")' \/ Head(channel) = "subscribe"
          /\ Queued("trigger") => Queued("trigger")' \/ Head(channel) = "trigger"
      BY <2>1, <2>2, <2>3 DEF Queued
    <2>6. CASE Head(channel) = "subscribe"
      <3>1. ~subscribed /\ ~refused /\ link = "up" /\ mon = "polling"
        BY <1>7, <1>a, <2>1, <2>3, <2>6 DEF SendRequest, Queued
      <3>2. (subscribed' \/ refused') /\ ~(subscribed' /\ refused')
        BY <1>7, <2>6, <3>1 DEF SendRequest
      <3>3. UNCHANGED <<link, mon, subFailed>> /\ (rearmed' <=> rearmed)
        BY <1>7, <1>a, <2>6 DEF SendRequest
      <3> QED
        BY <2>4, <2>5, <2>6, <3>1, <3>2, <3>3
    <2>7. CASE Head(channel) # "subscribe"
      <3>1. UNCHANGED <<link, mon, subFailed, subscribed, refused>>
        BY <1>7, <2>7 DEF SendRequest
      <3>2. rearmed' <=> rearmed \/ Head(channel) = "trigger"
        BY <1>7 DEF SendRequest
      <3>3. link = "up" /\ mon = "polling"
        BY <1>7 DEF SendRequest
      <3> QED
        BY <2>4, <2>5, <2>7, <3>1, <3>2, <3>3
    <2> QED
      BY <2>6, <2>7
  <1>8. CASE RecvPublish
    BY <1>8, <1>b DEF RecvPublish
  <1>9. CASE WriteStatus
    BY <1>9, <1>b DEF WriteStatus
  <1>10. CASE Keepalive
    <2>1. CASE channel' = channel
      BY <1>10, <1>b, <2>1
      DEF Keepalive, KeepalivePublish, KeepaliveWake, KeepaliveCancelled
    <2>2. CASE channel' = Append(channel, "trigger")
      BY <1>10, <1>d, <2>2
      DEF Keepalive, KeepalivePublish, KeepaliveWake, KeepaliveCancelled
    <2> QED
      BY <1>10, <2>1, <2>2
      DEF Keepalive, KeepalivePublish, KeepaliveWake, KeepaliveCancelled
  <1>11. CASE Readers
    BY <1>11, <1>b DEF Readers, ReaderEnters, ReaderLeaves
  <1>12. CASE DeviceStreams \/ OtherMessage \/ WindowExpires
    BY <1>12, <1>b DEF DeviceStreams, OtherMessage, WindowExpires
  <1>13. CASE AbortMonitor
    BY <1>13, <1>c DEF AbortMonitor
  <1>14. CASE UNCHANGED vars
    BY <1>14, <1>b DEF vars
  <1> QED
    BY <1>1, <1>2, <1>3, <1>4, <1>5, <1>6, <1>7, <1>8, <1>9, <1>10, <1>11,
       <1>12, <1>13, <1>14 DEF Next, EventLoop, Outside

(* On every connection whose try_subscribe found room, the subscription is *)
(* with the broker or its request is queued.                               *)
THEOREM RequestsReachBroker == Spec => []SubscribeSurvivesQueue
  <1>1. RequestInv => SubscribeSurvivesQueue
    BY DEF RequestInv
  <1> QED
    BY TypeCorrect, RequestInit, RequestStep, <1>1, PTL DEF Spec

(* On such a connection the device is re-armed or a trigger is queued,     *)
(* even when the re-arm's own try_publish found the channel full.          *)
THEOREM RearmReachesBroker == Spec => []RearmQueuedOrSent
  <1>1. RequestInv => RearmQueuedOrSent
    BY DEF RequestInv
  <1> QED
    BY TypeCorrect, RequestInit, RequestStep, <1>1, PTL DEF Spec

(* The strengthening itself holds: at most one subscribe is queued, and    *)
(* only between the CONNACK and the broker's having the subscription.      *)
THEOREM RequestInvariant == Spec => []RequestInv
  BY TypeCorrect, RequestInit, RequestStep, PTL DEF Spec

-------------------------------------------------------------------------------
(* Backoff and keepalive.                                                  *)

(* A connection starts with backoff 1, and only a failed poll() changes    *)
(* it.                                                                     *)
LEMMA QuickStep ==
  Phases /\ RetriesStartQuick /\ [Next]_vars => RetriesStartQuick'
  BY DEF Phases, RetriesStartQuick, Next, EventLoop, Keepalive, Readers,
         Outside, vars, loopVars, netVars, ConnectOk, ConnectFail, ConnLost,
         BackoffElapsed, SubscribeOnConnAck, BackoffOnConnAck, RearmOnConnAck,
         SendRequest, RecvPublish, WriteStatus, KeepalivePublish,
         KeepaliveWake, KeepaliveCancelled, ReaderEnters, ReaderLeaves,
         DeviceStreams, OtherMessage, WindowExpires, AbortMonitor

(* After every connection the reconnect wait starts from one second again, *)
(* for every MAX_RECONNECT_BACKOFF_SECS.                                   *)
THEOREM QuickRetries == Spec => []RetriesStartQuick
  <1>1. Init => RetriesStartQuick
    BY DEF Init, RetriesStartQuick
  <1>2. RequestInv => Phases
    BY DEF RequestInv
  <1> QED
    BY RequestInvariant, QuickStep, <1>1, <1>2, PTL DEF Spec

(* The keepalive can only fail while the monitor is gone, and after that   *)
(* failure it never runs again.                                            *)
KeepaliveInv ==
  /\ KeepaliveFailsAtMostOnce
  /\ mon # "gone" \/ keep \in {"publish", "blocked"} => failures = 0

(* A keepalive that failed once sleeps or is done, and never publishes     *)
(* again.                                                                  *)
LEMMA KeepaliveStep == KeepaliveInv /\ [Next]_vars => KeepaliveInv'
  <1> SUFFICES ASSUME KeepaliveInv, [Next]_vars
               PROVE  KeepaliveInv'
    OBVIOUS
  <1> USE DEF KeepaliveInv, KeepaliveFailsAtMostOnce, keepVars, loopVars
  <1>1. CASE EventLoop
    BY <1>1
    DEF EventLoop, ConnectOk, ConnectFail, ConnLost, BackoffElapsed,
        SubscribeOnConnAck, RearmOnConnAck, SendRequest, RecvPublish,
        WriteStatus
  <1>2. CASE KeepalivePublish
    BY <1>2 DEF KeepalivePublish, Least
  <1>3. CASE KeepaliveWake
    BY <1>3 DEF KeepaliveWake, KeepaliveAborted
  <1>4. CASE KeepaliveCancelled
    BY <1>4 DEF KeepaliveCancelled
  <1>5. CASE Readers
    BY <1>5 DEF Readers, ReaderEnters, ReaderLeaves
  <1>6. CASE Outside
    BY <1>6 DEF Outside, DeviceStreams, OtherMessage, WindowExpires, AbortMonitor
  <1>7. CASE UNCHANGED vars
    BY <1>7 DEF vars
  <1> QED
    BY <1>1, <1>2, <1>3, <1>4, <1>5, <1>6, <1>7 DEF Next, Keepalive

(* AbortOnDrop bounds the failures a discarded monitor logs to one.        *)
THEOREM KeepaliveQuietAfterAbort == Spec => []KeepaliveFailsAtMostOnce
  <1>1. Init => KeepaliveInv
    BY DEF Init, KeepaliveInv, KeepaliveFailsAtMostOnce
  <1>2. KeepaliveInv => KeepaliveFailsAtMostOnce
    BY DEF KeepaliveInv
  <1> QED
    BY KeepaliveStep, <1>1, <1>2, PTL DEF Spec

-------------------------------------------------------------------------------
(* The monitor implements StatusFeed.                                      *)

(* Every reading in s was emitted, none is older than floor, and each is   *)
(* newer than those before it.                                             *)
InOrder(s, floor) ==
  /\ \A i \in 1 .. Len(s) : s[i] <= reading /\ (s[i] # 0 => floor < s[i])
  /\ \A i, j \in 1 .. Len(s) : i < j /\ s[i] # 0 /\ s[j] # 0 => s[i] < s[j]

FeedInv ==
  /\ status <= reading
  /\ InOrder(inbound, status)
  /\ mon = "writing" =>
       decoded <= reading /\ status < decoded /\ InOrder(inbound, decoded)

(* The status and the queue start empty.                                   *)
LEMMA FeedInit == Init => FeedInv
  <1> SUFFICES ASSUME Init
               PROVE  FeedInv
    OBVIOUS
  <1>1. Len(inbound) = 0
    BY EmptySeq DEF Init
  <1> QED
    BY <1>1 DEF Init, FeedInv, InOrder

(* Receiving the head keeps the rest in order, above the head if it is a   *)
(* reading.                                                                *)
LEMMA InOrderTail ==
  ASSUME NEW s \in Seq(Nat), s # << >>, NEW floor \in Nat, InOrder(s, floor)
  PROVE  /\ InOrder(Tail(s), floor) /\ Head(s) <= reading
         /\ Head(s) # 0 => floor < Head(s) /\ InOrder(Tail(s), Head(s))
  <1>1. /\ Tail(s) \in Seq(Nat) /\ Len(Tail(s)) = Len(s) - 1
        /\ Head(s) = s[1] /\ Len(s) >= 1 /\ Len(s) \in Nat
        /\ \A i \in 1 .. Len(Tail(s)) : Tail(s)[i] = s[i + 1]
    BY RangeTail
  <1>2. \A i \in 1 .. Len(Tail(s)) : i + 1 \in 1 .. Len(s)
    BY <1>1
  <1>3. InOrder(Tail(s), floor)
    BY <1>1, <1>2 DEF InOrder
  <1>4. 1 \in 1 .. Len(s)
    BY <1>1
  <1>5. Head(s) <= reading /\ (Head(s) # 0 => floor < Head(s))
    BY <1>1, <1>4 DEF InOrder
  <1>6. ASSUME Head(s) # 0
        PROVE  InOrder(Tail(s), Head(s))
    <2>1. \A i \in 1 .. Len(Tail(s)) : Tail(s)[i] # 0 => s[1] < s[i + 1]
      BY <1>1, <1>2, <1>4, <1>6 DEF InOrder
    <2> QED
      BY <1>1, <1>3, <2>1 DEF InOrder
  <1> QED
    BY <1>3, <1>5, <1>6

(* Appending a message that is no reading, or the next reading, keeps the  *)
(* order.                                                                  *)
LEMMA InOrderAppend ==
  ASSUME NEW s \in Seq(Nat), NEW floor \in Nat, InOrder(s, floor),
         reading \in Nat, reading' \in Nat, floor <= reading,
         NEW m \in Nat,
         \/ m = 0 /\ reading' = reading
         \/ m = reading + 1 /\ reading' = reading + 1
  PROVE  /\ \A i \in 1 .. Len(Append(s, m)) :
              /\ Append(s, m)[i] <= reading'
              /\ Append(s, m)[i] # 0 => floor < Append(s, m)[i]
         /\ \A i, j \in 1 .. Len(Append(s, m)) :
              i < j /\ Append(s, m)[i] # 0 /\ Append(s, m)[j] # 0
                => Append(s, m)[i] < Append(s, m)[j]
  <1>1. /\ Len(Append(s, m)) = Len(s) + 1 /\ Len(s) \in Nat
        /\ Append(s, m)[Len(s) + 1] = m
        /\ \A i \in 1 .. Len(s) : Append(s, m)[i] = s[i] /\ s[i] \in Nat
    OBVIOUS
  <1>2. \A i \in 1 .. Len(s) + 1 : i \in 1 .. Len(s) \/ i = Len(s) + 1
    BY <1>1
  <1>3. \A i \in 1 .. Len(s) : s[i] <= reading /\ (s[i] # 0 => floor < s[i])
    BY DEF InOrder
  <1>4. \A i, j \in 1 .. Len(s) : i < j /\ s[i] # 0 /\ s[j] # 0 => s[i] < s[j]
    BY DEF InOrder
  <1>5. \A i \in 1 .. Len(s) + 1 :
          /\ Append(s, m)[i] <= reading'
          /\ Append(s, m)[i] # 0 => floor < Append(s, m)[i]
    BY <1>1, <1>2, <1>3
  <1>6. ASSUME NEW i \in 1 .. Len(s) + 1, NEW j \in 1 .. Len(s) + 1, i < j,
               Append(s, m)[i] # 0, Append(s, m)[j] # 0
        PROVE  Append(s, m)[i] < Append(s, m)[j]
    <2>1. i \in 1 .. Len(s)
      BY <1>1, <1>6
    <2>2. CASE j \in 1 .. Len(s)
      BY <1>1, <1>4, <1>6, <2>1, <2>2
    <2>3. CASE j = Len(s) + 1
      BY <1>1, <1>3, <1>6, <2>1, <2>3
    <2> QED
      BY <1>2, <2>2, <2>3
  <1> QED
    BY <1>1, <1>5, <1>6

(* One step of the monitor keeps FeedInv and is a step, or a stutter, of   *)
(* StatusFeed.                                                             *)
LEMMA FeedStep ==
  TypeOK /\ FeedInv /\ [Next]_vars
    => FeedInv' /\ [Feed!Next]_<<reading, status>>
  <1> SUFFICES ASSUME TypeOK, FeedInv, [Next]_vars
               PROVE  FeedInv' /\ [Feed!Next]_<<reading, status>>
    OBVIOUS
  <1> USE DEF loopVars, netVars, requestVars, keepVars, brokerVars, lockVars
  <1>a. /\ inbound \in Seq(Nat) /\ reading \in Nat /\ status \in Nat
        /\ decoded \in Nat
    BY DEF TypeOK
  <1>b. ASSUME UNCHANGED <<reading, status, inbound, decoded>>, mon' # "writing"
        PROVE  FeedInv' /\ [Feed!Next]_<<reading, status>>
    BY <1>b DEF FeedInv, InOrder
  <1>c. ASSUME UNCHANGED <<reading, status, inbound, decoded, mon>>
        PROVE  FeedInv' /\ [Feed!Next]_<<reading, status>>
    BY <1>c DEF FeedInv, InOrder
  <1>d. ASSUME UNCHANGED <<reading, status, decoded>>, inbound' = << >>,
               mon' # "writing"
        PROVE  FeedInv' /\ [Feed!Next]_<<reading, status>>
    <2>1. Len(inbound') = 0
      BY <1>d, EmptySeq
    <2> QED
      BY <1>d, <2>1 DEF FeedInv, InOrder
  <1>1. CASE ConnectOk \/ ConnectFail \/ BackoffElapsed \/ SubscribeOnConnAck
             \/ RearmOnConnAck
    BY <1>1, <1>b
    DEF ConnectOk, ConnectFail, BackoffElapsed, SubscribeOnConnAck,
        RearmOnConnAck
  <1>2. CASE ConnLost
    BY <1>2, <1>b, <1>d DEF ConnLost
  <1>3. CASE SendRequest
    BY <1>3, <1>c DEF SendRequest
  <1>4. CASE RecvPublish
    <2>1. /\ inbound # << >> /\ inbound' = Tail(inbound)
          /\ UNCHANGED <<reading, status>> /\ mon = "polling"
      BY <1>4 DEF RecvPublish
    <2>2. /\ InOrder(Tail(inbound), status) /\ Head(inbound) <= reading
          /\ Head(inbound) # 0 => /\ status < Head(inbound)
                                  /\ InOrder(Tail(inbound), Head(inbound))
      BY <1>a, <2>1, InOrderTail DEF FeedInv
    <2>3. CASE Head(inbound) # 0
      <3>1. mon' = "writing" /\ decoded' = Head(inbound)
        BY <1>4, <2>3 DEF RecvPublish, Decodes
      <3> QED
        BY <2>1, <2>2, <2>3, <3>1 DEF FeedInv, InOrder
    <2>4. CASE Head(inbound) = 0
      <3>1. UNCHANGED <<mon, decoded>>
        BY <1>4, <2>4 DEF RecvPublish, Decodes
      <3> QED
        BY <2>1, <2>2, <3>1 DEF FeedInv, InOrder
    <2> QED
      BY <2>3, <2>4
  <1>5. CASE WriteStatus
    <2>1. /\ mon = "writing" /\ mon' = "polling" /\ status' = decoded
          /\ UNCHANGED <<reading, inbound>>
      BY <1>5 DEF WriteStatus
    <2>2. decoded <= reading /\ status < decoded /\ InOrder(inbound, decoded)
      BY <2>1 DEF FeedInv
    <2>3. FeedInv'
      BY <2>1, <2>2 DEF FeedInv, InOrder
    <2>4. Feed!Show
      BY <1>a, <2>1, <2>2 DEF Feed!Show
    <2> QED
      BY <2>3, <2>4 DEF Feed!Next
  <1>6. CASE AbortMonitor
    BY <1>6, <1>d DEF AbortMonitor
  <1>7. CASE Keepalive \/ Readers \/ WindowExpires
    BY <1>7, <1>c
    DEF Keepalive, KeepalivePublish, KeepaliveWake, KeepaliveCancelled,
        Readers, ReaderEnters, ReaderLeaves, WindowExpires
  <1>8. CASE DeviceStreams
    <2>1. /\ inbound' = Append(inbound, reading + 1) /\ reading' = reading + 1
          /\ UNCHANGED <<status, decoded, mon>>
      BY <1>8 DEF DeviceStreams
    <2>2. ASSUME NEW floor \in Nat, InOrder(inbound, floor), floor <= reading
          PROVE  InOrder(inbound, floor)'
      <3>1. reading' \in Nat /\ reading + 1 \in Nat
        BY <1>a, <2>1
      <3> QED
        BY <1>a, <2>1, <2>2, <3>1, InOrderAppend DEF InOrder
    <2>3. FeedInv'
      BY <1>a, <2>1, <2>2 DEF FeedInv
    <2>4. Feed!Emit
      BY <2>1 DEF Feed!Emit
    <2> QED
      BY <2>3, <2>4 DEF Feed!Next
  <1>9. CASE OtherMessage
    <2>1. inbound' = Append(inbound, 0) /\ UNCHANGED <<reading, status, decoded, mon>>
      BY <1>9 DEF OtherMessage
    <2>2. ASSUME NEW floor \in Nat, InOrder(inbound, floor), floor <= reading
          PROVE  InOrder(inbound, floor)'
      BY <1>a, <2>1, <2>2, InOrderAppend DEF InOrder
    <2> QED
      BY <1>a, <2>1, <2>2 DEF FeedInv
  <1>10. CASE UNCHANGED vars
    BY <1>10, <1>c DEF vars
  <1> QED
    BY <1>1, <1>2, <1>3, <1>4, <1>5, <1>6, <1>7, <1>8, <1>9, <1>10
    DEF Next, EventLoop, Outside

(* The shared status only ever moves forward, to readings the device has   *)
(* emitted, across losses, reconnects, undecodable messages and an abort.  *)
THEOREM MonitorImplementsFeed == Spec => FeedSpec
  <1>1. Init => Feed!Init
    BY DEF Init, Feed!Init
  <1> QED
    BY TypeCorrect, FeedInit, FeedStep, <1>1, PTL DEF Spec, FeedSpec, Feed!Spec
===============================================================================
