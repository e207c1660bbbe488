--------------------------- MODULE BridgeClientProofs ---------------------------
(***************************************************************************)
(* Invariants of the bridge websocket client, for every set of tokens and  *)
(* every size of its queue and of its heartbeat budget.                    *)
(***************************************************************************)
EXTENDS BridgeClient, TLAPS

(* The fairness of Spec is of no use to safety.                            *)
LEMMA SpecSteps == Spec => Init /\ [][Next]_vars
BY PTL DEF Spec

LEMMA Bounds == MaxQueueSize \in Nat /\ MaxMissed \in Nat /\ MaxMessages \in Nat
BY BridgeClientAssumption

-----------------------------------------------------------------------------
(* Types.                                                                  *)

LEMMA FramesType ==
    ASSUME NEW ms \in Seq(Message)
    PROVE  Frames(ms) \in Seq(Frame) /\ Len(Frames(ms)) = Len(ms)
<1>1. Frames(ms) = [i \in 1 .. Len(ms) |->
                       [message |-> ms[i], token |-> NoToken, code |-> FALSE, after |-> NoToken]]
  BY DEF Frames
<1>2. \A i \in 1 .. Len(ms) :
          [message |-> ms[i], token |-> NoToken, code |-> FALSE, after |-> NoToken] \in Frame
  BY Bounds DEF Frame, Message
<1> QED
  BY <1>1, <1>2

(* What a step writes into the record of the client.                       *)
LEMMA ClientTypes ==
    ASSUME TypeOK
    PROVE  /\ NoClient \in Client /\ IsOpen \in Client
           /\ Lost => client' \in Client /\ status' = "reconnecting"
           /\ Alive \/ Heartbeat \/ FallsSilent => client' \in Client
<1>1. NoClient \in Client
  BY Bounds DEF Client, NoClient
<1>2. Lost => client' \in Client /\ status' = "reconnecting"
  BY <1>1 DEF Lost, Client
<1>3. client \in Client
  BY DEF TypeOK
<1>4. IsOpen \in Client
  BY <1>3 DEF IsOpen, Client
<1>5. ASSUME Alive PROVE client' \in Client
  <2>1. [client EXCEPT !.missed = 0] \in Client
    BY <1>3, Bounds DEF Client
  <2> QED
    BY <1>5, <2>1 DEF Alive
<1>6. ASSUME Heartbeat PROVE client' \in Client
  <2>1. client.missed < MaxMissed => client.missed + 1 \in 0 .. MaxMissed
    BY <1>3, Bounds DEF Client
  <2>2. client.missed < MaxMissed => [client EXCEPT !.missed = @ + 1] \in Client
    BY <1>3, <2>1 DEF Client
  <2>3. [client EXCEPT !.socket = "closing"] \in Client
    BY <1>3 DEF Client
  <2> QED
    BY <1>6, <2>2, <2>3 DEF Heartbeat
<1>7. ASSUME FallsSilent PROVE client' \in Client
  <2>1. [client EXCEPT !.silent = TRUE] \in Client
    BY <1>3 DEF Client
  <2> QED
    BY <1>7, <2>1 DEF FallsSilent
<1> QED
  BY <1>1, <1>2, <1>4, <1>5, <1>6, <1>7

LEMMA DialsType ==
    ASSUME NEW s \in {"none", "connecting", "open", "reconnecting"}, Dials(s)
    PROVE  client' \in Client /\ status' = s
<1>1. NoClient \in Client
  BY Bounds DEF Client, NoClient
<1> QED
  BY <1>1 DEF Dials, Client

LEMMA HelloType == TypeOK => <<Hello>> \in Seq(Frame)
BY Bounds DEF TypeOK, Hello, Frame

LEMMA StoppedType == TypeOK /\ Stopped =>
    /\ client' \in Client /\ status' \in {"disconnected", "connecting", "connected", "reconnecting"}
    /\ queue' \in Seq(Message) /\ Len(queue') <= MaxQueueSize
    /\ pending' \subseteq Message /\ wire' \in Seq(Frame)
BY Bounds, ClientTypes DEF TypeOK, Stopped

(* A connection that is lost, with or without the listener that closes the *)
(* client.                                                                 *)
LEMMA LostType ==
    ASSUME TypeOK, Lost \/ LostAndClosed, UNCHANGED <<written, held>>
    PROVE  TypeOK'
<1>1. UNCHANGED <<joinCode, token, begun, accepted>>
  BY DEF held
<1>2. CASE Lost
  BY <1>1, <1>2, ClientTypes DEF Lost, TypeOK
<1>3. CASE LostAndClosed
  <2>1. Stopped /\ left' \subseteq {"timer", "socket"} /\ sent' \in 0 .. MaxMessages
    BY <1>3, Bounds DEF LostAndClosed, TypeOK
  <2> QED
    BY <1>1, <2>1, StoppedType DEF TypeOK
<1> QED
  BY <1>2, <1>3

LEMMA InitType == Init => TypeOK
BY BridgeClientAssumption DEF Init, TypeOK, NoClient, Client, Credentials

LEMMA StepType == TypeOK /\ [Next]_vars => TypeOK'
<1> SUFFICES ASSUME TypeOK, [Next]_vars
             PROVE  TypeOK'
  OBVIOUS
<1> USE Bounds
<1>1. CASE UNCHANGED vars
  BY <1>1 DEF vars, held, TypeOK
<1> USE DEF held
<1>2. CASE Start \/ ReconnectDue
  <2>1. CASE Lost \/ LostAndClosed
    BY <1>2, <2>1, LostType DEF Start, ReconnectDue
  <2>2. CASE \E s \in {"connecting", "reconnecting"} : Dials(s)
    <3>1. client' \in Client /\ status' \in {"connecting", "reconnecting"}
      BY <2>2, DialsType
    <3>2. sent' \in 0 .. MaxMessages /\ pending' \subseteq Message
      BY <1>2, <2>2 DEF Start, ReconnectDue, Dials, NoClient, Unheard, Lost, LostAndClosed, Stopped, TypeOK, Message
    <3>3. UNCHANGED <<queue, wire, left, written, held>>
      BY <1>2, <2>2 DEF Start, ReconnectDue, Dials, NoClient, Lost, LostAndClosed, Stopped
    <3> QED
      BY <3>1, <3>2, <3>3 DEF TypeOK
  <2> QED
    BY <1>2, <2>1, <2>2 DEF Start, ReconnectDue
<1>3. CASE Stop
  BY <1>3, StoppedType DEF Stop, TypeOK
<1>4. ASSUME NEW request \in BOOLEAN, Send(request)
      PROVE  TypeOK'
  <2>1. sent + 1 \in Message /\ sent' \in 0 .. MaxMessages /\ UNCHANGED <<left, held>>
    BY <1>4 DEF Send, TypeOK, Message
  <2>2. CASE client.state # "open" /\ Full(queue)
    BY <1>4, <2>1, <2>2, StoppedType DEF Send, TypeOK
  <2>3. CASE ~(client.state # "open" /\ Full(queue))
    <3>1. /\ pending' = IF request THEN pending \cup {sent + 1} ELSE pending
          /\ UNCHANGED <<client, status>>
          /\ IF client.state = "open" THEN Write(sent + 1) /\ UNCHANGED queue
             ELSE queue' = Append(queue, sent + 1) /\ UNCHANGED <<wire, written>>
      BY <1>4, <2>3 DEF Send
    <3>2. pending' \subseteq Message
      BY <2>1, <3>1 DEF TypeOK
    <3>3. queue' \in Seq(Message) /\ Len(queue') <= MaxQueueSize
      <4>1. queue \in Seq(Message) /\ Len(queue) <= MaxQueueSize
        BY DEF TypeOK
      <4>2. client.state # "open" => ~(Len(queue) >= MaxQueueSize)
        BY <2>3 DEF Full
      <4>3. Append(queue, sent + 1) \in Seq(Message) /\ Len(Append(queue, sent + 1)) = Len(queue) + 1
        BY <2>1, <4>1
      <4> QED
        BY <3>1, <4>1, <4>2, <4>3
    <3>4. /\ wire \o Frames(<<sent + 1>>) \in Seq(Frame)
          /\ Append(written, sent + 1) \in Seq(Message)
      <4>1. <<sent + 1>> \in Seq(Message)
        BY <2>1
      <4>2. Frames(<<sent + 1>>) \in Seq(Frame)
        BY <4>1, FramesType
      <4> QED
        BY <2>1, <4>2 DEF TypeOK
    <3>5. wire' \in Seq(Frame) /\ written' \in Seq(Message)
      BY <3>1, <3>4 DEF Write, TypeOK
    <3> QED
      BY <2>1, <3>1, <3>2, <3>3, <3>5 DEF TypeOK
  <2> QED
    BY <2>2, <2>3
<1>5. ASSUME NEW m \in Message, RequestTimesOut(m)
      PROVE  TypeOK'
  BY <1>5 DEF RequestTimesOut, TypeOK
<1>6. CASE Opened
  <2>1. IsOpen \in Client /\ sent' \in 0 .. MaxMessages /\ UNCHANGED <<left, held>>
    BY <1>6, ClientTypes DEF Opened, TypeOK
  <2>2. ASSUME NEW ms \in Seq(Message), Greet(ms)
        PROVE  wire' \in Seq(Frame) /\ written' \in Seq(Message)
    BY <2>2, FramesType, HelloType DEF Greet, TypeOK
  <2>3. Behind(<< >>) \in Seq(Message) /\ (sent < MaxMessages => Behind(<<sent + 1>>) \in Seq(Message))
    BY DEF Behind, TypeOK, Message
  <2>4. CASE Stopped /\ written' = written
    BY <2>1, <2>4, StoppedType DEF TypeOK
  <2>5. ASSUME NEW ms \in Seq(Message), Greet(ms), client' = IsOpen,
               status' = "connected", queue' = << >>, pending' = pending
        PROVE  TypeOK'
    BY <2>1, <2>2, <2>5 DEF TypeOK
  <2>6. CASE Greet(Behind(<< >>)) /\ client' = IsOpen /\ status' = "connected"
             /\ queue' = << >> /\ UNCHANGED <<pending, sent>>
    BY <2>3, <2>5, <2>6
  <2>7. CASE /\ sent < MaxMessages
             /\ IF Full(queue) THEN Stopped /\ UNCHANGED written
                ELSE /\ Greet(Behind(<<sent + 1>>)) /\ client' = IsOpen
                     /\ status' = "connected" /\ queue' = << >> /\ UNCHANGED pending
    BY <2>3, <2>4, <2>5, <2>7
  <2>8. CASE Stopped /\ UNCHANGED <<sent, written>>
    BY <2>4, <2>8
  <2> QED
    BY <1>6, <2>6, <2>7, <2>8 DEF Opened
<1>7. CASE Closed
  BY <1>7, LostType DEF Closed
<1>13. CASE LeftTimerDue
  BY <1>13 DEF LeftTimerDue, TypeOK
<1>8. CASE Heartbeat
  BY <1>8, ClientTypes DEF Heartbeat, TypeOK
<1>9. CASE FallsSilent
  BY <1>9, ClientTypes DEF FallsSilent, TypeOK
<1>10. ASSUME NEW replied \in SUBSET Message, Receive(replied)
       PROVE  TypeOK'
  BY <1>10, ClientTypes DEF Receive, TypeOK
<1>11. ASSUME NEW t \in Token, Welcome(t)
       PROVE  TypeOK'
  BY <1>11, ClientTypes DEF Welcome, TypeOK
<1>12. CASE Fail
  BY <1>12, StoppedType DEF Fail, TypeOK
<1> QED
  BY <1>1, <1>2, <1>3, <1>4, <1>5, <1>6, <1>7, <1>8, <1>9, <1>10, <1>11, <1>12, <1>13 DEF Next

(* The types; among them that the queue never outgrows its bound.          *)
THEOREM TypeCorrect == Spec => []TypeOK
BY InitType, StepType, SpecSteps, PTL

-----------------------------------------------------------------------------
(* Order.  The inductive invariant: what was written and what is queued    *)
(* are one history in the order of sending, and an open client has flushed *)
(* its queue, so that a message written at once overtakes nothing.         *)

Ordered(s, n) ==
    /\ \A i, j \in DOMAIN s : i < j => s[i] < s[j]
    /\ \A i \in DOMAIN s : s[i] <= n

(* A connection that has said hello.                                       *)
Headed(w) ==
    /\ \A i \in DOMAIN w : w[i].message = 0 <=> i = 1
    /\ \A i \in DOMAIN w : w[i].message = 0 =>
           [token |-> w[i].token, code |-> w[i].code] = Presented(w[i].after)

ClientInv ==
    /\ Headed(wire)
    /\ client.state = "open" => wire # << >> /\ queue = << >>
    /\ client.state = "open" <=> client.socket \in {"open", "closing"}
    /\ [token |-> token, code |-> joinCode] = Presented(accepted)
    /\ Ordered(written \o queue, sent)

(* While a session holds what it holds, the hello of a connection remains  *)
(* what was to be presented.                                               *)
LEMMA HeldKept ==
    ASSUME ClientInv, UNCHANGED held, Headed(wire')
    PROVE  /\ Headed(wire)'
           /\ ([token |-> token, code |-> joinCode] = Presented(accepted))'
<1>1. joinCode' = joinCode /\ token' = token /\ begun' = begun /\ accepted' = accepted
  BY DEF held
<1>2. [token |-> token, code |-> joinCode] = Presented(accepted)
  BY DEF ClientInv
<1> QED
  BY <1>1, <1>2 DEF Headed, Presented

LEMMA OrderedConcat ==
    ASSUME NEW s \in Seq(Nat), NEW t \in Seq(Nat), NEW n \in Nat, Ordered(s \o t, n)
    PROVE  Ordered(s, n)
<1>1. \A i \in DOMAIN s : i \in DOMAIN (s \o t) /\ (s \o t)[i] = s[i]
  OBVIOUS
<1> QED
  BY <1>1 DEF Ordered

LEMMA OrderedAppend ==
    ASSUME NEW s \in Seq(Nat), NEW n \in Nat, Ordered(s, n)
    PROVE  Ordered(Append(s, n + 1), n + 1) /\ Ordered(s, n + 1)
<1>1. /\ DOMAIN Append(s, n + 1) = 1 .. Len(s) + 1 /\ DOMAIN s = 1 .. Len(s)
      /\ \A i \in DOMAIN s : Append(s, n + 1)[i] = s[i] /\ s[i] \in Nat
      /\ Append(s, n + 1)[Len(s) + 1] = n + 1
      /\ Len(s) \in Nat
  OBVIOUS
<1>2. \A i \in DOMAIN Append(s, n + 1) : i \in DOMAIN s \/ i = Len(s) + 1
  BY <1>1
<1>3. Ordered(s, n + 1)
  BY <1>1 DEF Ordered
<1> HIDE DEF Ordered
<1>4. \A i \in DOMAIN Append(s, n + 1) : Append(s, n + 1)[i] <= n + 1
  BY <1>1, <1>2, <1>3 DEF Ordered
<1>5. ASSUME NEW i \in DOMAIN Append(s, n + 1), NEW j \in DOMAIN Append(s, n + 1), i < j
      PROVE  Append(s, n + 1)[i] < Append(s, n + 1)[j]
  <2>1. i \in DOMAIN s
    BY <1>1, <1>5
  <2>2. CASE j \in DOMAIN s
    BY <1>1, <1>5, <2>1, <2>2 DEF Ordered
  <2>3. CASE j = Len(s) + 1
    BY <1>1, <2>1, <2>3 DEF Ordered
  <2> QED
    BY <1>2, <2>2, <2>3
<1> QED
  BY <1>3, <1>4, <1>5 DEF Ordered

LEMMA HeadedConcat ==
    ASSUME NEW w \in Seq(Frame), w # << >>, Headed(w), NEW ms \in Seq(Message)
    PROVE  w \o Frames(ms) # << >> /\ Headed(w \o Frames(ms))
<1> DEFINE fs == Frames(ms)
           c == w \o fs
<1>1. /\ fs \in Seq(Frame) /\ Len(w) \in Nat \ {0}
      /\ \A i \in DOMAIN fs : fs[i].message # 0
  BY FramesType, Bounds DEF Frames, Message
<1> HIDE DEF fs
<1>2. \A i \in DOMAIN c : \/ i \in DOMAIN w /\ c[i] = w[i]
                          \/ i - Len(w) \in DOMAIN fs /\ c[i] = fs[i - Len(w)] /\ i # 1
  BY <1>1
<1>3. c # << >>
  BY <1>1
<1> HIDE DEF c
<1>4. Headed(c)
  BY <1>1, <1>2 DEF Headed
<1> QED
  BY <1>3, <1>4 DEF c, fs

(* The history of a step: kept, cut back to what was written, or longer by *)
(* the next message.                                                       *)
LEMMA HistoryStep ==
    ASSUME TypeOK, Ordered(written \o queue, sent),
           NEW h \in Seq(Message), NEW n \in {sent, sent + 1},
           \/ h = written \/ h = written \o queue
           \/ h = Append(written \o queue, sent + 1) /\ n = sent + 1
    PROVE  Ordered(h, n)
<1>1. /\ written \in Seq(Nat) /\ queue \in Seq(Nat) /\ written \o queue \in Seq(Nat)
      /\ sent \in Nat
  BY Bounds DEF TypeOK, Message
<1>2. Ordered(written, sent)
  BY <1>1, OrderedConcat
<1> QED
  BY <1>1, <1>2, OrderedAppend

LEMMA StoppedInv ==
    ASSUME TypeOK, ClientInv, Stopped, written' = written, sent' \in {sent, sent + 1},
           UNCHANGED held
    PROVE  ClientInv'
<1>1. wire' = << >> /\ queue' = << >> /\ client' = NoClient
  BY DEF Stopped
<1>2. written' \o queue' = written /\ written \in Seq(Message)
  BY <1>1 DEF TypeOK
<1>3. Ordered(written' \o queue', sent')
  BY <1>2, HistoryStep DEF ClientInv
<1>4. Headed(wire')
  BY <1>1 DEF Headed
<1> QED
  BY <1>1, <1>3, <1>4, HeldKept DEF ClientInv, NoClient

(* A step that leaves the messages alone.                                  *)
LEMMA QuietInv ==
    ASSUME ClientInv, UNCHANGED <<queue, sent, written, held>>,
           wire' = wire \/ (wire' = << >> /\ client'.state # "open"),
           \/ /\ client'.state = client.state
              /\ \/ client'.socket = client.socket
                 \/ {client.socket, client'.socket} \subseteq {"open", "closing"}
           \/ client'.state # "open" /\ client'.socket \notin {"open", "closing"}
    PROVE  ClientInv'
<1>1. Headed(wire')
  BY DEF ClientInv, Headed
<1>2. Ordered(written' \o queue', sent')
  BY DEF ClientInv
<1> QED
  BY <1>1, <1>2, HeldKept DEF ClientInv

LEMMA DownDialing ==
    ASSUME \/ Lost \/ \E s \in {"connecting", "reconnecting"} : Dials(s)
    PROVE  client'.state # "open" /\ client'.socket \notin {"open", "closing"}
BY DEF Lost, Dials, NoClient

LEMMA LostInv ==
    ASSUME TypeOK, ClientInv, Lost \/ LostAndClosed, UNCHANGED <<written, held>>
    PROVE  ClientInv'
<1>1. CASE Lost
  BY <1>1, DownDialing, QuietInv DEF Lost
<1>2. CASE LostAndClosed
  BY <1>2, StoppedInv DEF LostAndClosed
<1> QED
  BY <1>1, <1>2

(* A dialed socket; a message may be dropped before.                       *)
LEMMA DialsInv ==
    ASSUME TypeOK, ClientInv, NEW s \in {"connecting", "reconnecting"}, Dials(s),
           UNCHANGED <<queue, wire, left, written, held>>, sent' \in {sent, sent + 1}
    PROVE  ClientInv'
<1>1. client'.state # "open" /\ client'.socket \notin {"open", "closing"}
  BY DownDialing
<1>2. written \o queue \in Seq(Message) /\ sent \in Nat /\ Ordered(written \o queue, sent)
  BY Bounds DEF ClientInv, TypeOK
<1>3. \A i \in DOMAIN (written \o queue) : (written \o queue)[i] \in Nat
  BY <1>2, Bounds DEF Message
<1> DEFINE history == written \o queue
<1> HIDE DEF history
<1>4. Ordered(history, sent')
  BY <1>2, <1>3 DEF Ordered, history
<1>5. Ordered(written' \o queue', sent')
  BY <1>4 DEF history
<1>6. Headed(wire')
  BY DEF ClientInv
<1> QED
  BY <1>1, <1>5, <1>6, HeldKept DEF ClientInv

LEMMA SendInv ==
    ASSUME TypeOK, ClientInv, NEW request \in BOOLEAN, Send(request)
    PROVE  ClientInv'
<1>1. sent' = sent + 1 /\ sent + 1 \in Message /\ UNCHANGED <<left, held>>
  BY Bounds DEF Send, TypeOK, Message
<1>2. CASE client.state # "open" /\ Full(queue)
  BY <1>1, <1>2, StoppedInv DEF Send
<1>3. CASE ~(client.state # "open" /\ Full(queue))
  <2>1. /\ client' = client
        /\ IF client.state = "open" THEN Write(sent + 1) /\ queue' = queue
           ELSE queue' = Append(queue, sent + 1) /\ UNCHANGED <<wire, written>>
    BY <1>3 DEF Send
  <2>2. written \in Seq(Message) /\ queue \in Seq(Message) /\ wire \in Seq(Frame)
    BY DEF TypeOK
  <2>3. CASE client.state # "open"
    <3>1. written' \o queue' = Append(written \o queue, sent + 1)
      <4>1. written \o Append(queue, sent + 1) = Append(written \o queue, sent + 1)
        BY <1>1, <2>2
      <4> QED
        BY <2>1, <2>3, <4>1
    <3>2. Append(written \o queue, sent + 1) \in Seq(Message)
      BY <1>1, <2>2
    <3>3. Ordered(written' \o queue', sent')
      BY <1>1, <3>1, <3>2, HistoryStep DEF ClientInv
    <3> QED
      BY <1>1, <2>1, <2>3, <3>3, HeldKept DEF ClientInv
  <2>4. CASE client.state = "open" /\ client.socket # "open"
    <3>1. UNCHANGED <<wire, written, queue>>
      BY <2>1, <2>4 DEF Write
    <3>2. written \o queue \in Seq(Message)
      BY <2>2
    <3>3. Ordered(written' \o queue', sent')
      BY <1>1, <3>1, <3>2, HistoryStep DEF ClientInv
    <3> QED
      BY <1>1, <2>1, <3>1, <3>3, HeldKept DEF ClientInv
  <2>5. CASE client.state = "open" /\ client.socket = "open"
    <3>1. /\ wire' = wire \o Frames(<<sent + 1>>) /\ written' = Append(written, sent + 1)
          /\ queue' = << >> /\ queue = << >> /\ wire # << >>
      BY <2>1, <2>5 DEF Write, ClientInv
    <3>2. wire' # << >> /\ Headed(wire')
      <4>1. <<sent + 1>> \in Seq(Message)
        BY <1>1
      <4> QED
        BY <2>2, <3>1, <4>1, HeadedConcat DEF ClientInv
    <3>3. written' \o queue' = Append(written \o queue, sent + 1)
      BY <1>1, <2>2, <3>1
    <3>4. Append(written \o queue, sent + 1) \in Seq(Message)
      BY <1>1, <2>2
    <3>5. Ordered(written' \o queue', sent')
      BY <1>1, <3>3, <3>4, HistoryStep DEF ClientInv
    <3> QED
      BY <1>1, <2>1, <3>1, <3>2, <3>5, HeldKept DEF ClientInv
  <2> QED
    BY <2>3, <2>4, <2>5
<1> QED
  BY <1>2, <1>3

(* What is flushed when the socket opens follows the hello, oldest first.  *)
LEMMA GreetInv ==
    ASSUME TypeOK, ClientInv, NEW said \in Seq(Message), Greet(Behind(said)),
           \/ said = << >> /\ sent' = sent
           \/ said = <<sent + 1>> /\ sent' = sent + 1,
           client' = IsOpen, queue' = << >>, UNCHANGED held
    PROVE  ClientInv'
<1>1. /\ written \in Seq(Message) /\ queue \in Seq(Message) /\ client \in Client
      /\ queue \o said \in Seq(Message)
  BY DEF TypeOK
<1>2. wire' = <<Hello>> \o Frames(queue \o said) /\ written' = written \o (queue \o said)
  BY DEF Greet, Behind
<1>3. <<Hello>> \in Seq(Frame) /\ <<Hello>> # << >>
  BY HelloType
<1>4. Headed(<<Hello>>)
  <2>1. [token |-> Hello.token, code |-> Hello.code] = Presented(Hello.after) /\ Hello.message = 0
    BY DEF Hello, ClientInv
  <2>2. DOMAIN <<Hello>> = {1} /\ <<Hello>>[1] = Hello
    OBVIOUS
  <2> HIDE DEF Hello
  <2> QED
    BY <2>1, <2>2, Zenon DEF Headed
<1>5. wire' # << >> /\ Headed(wire')
  BY <1>1, <1>2, <1>3, <1>4, HeadedConcat
<1>6. Ordered(written' \o queue', sent')
  <2>1. written' \o queue' = written \o (queue \o said) /\ written \o (queue \o said) \in Seq(Message)
    BY <1>1, <1>2
  <2>2. said = << >> => written \o (queue \o said) = written \o queue
    BY <1>1
  <2>3. said = <<sent + 1>> => written \o (queue \o said) = Append(written \o queue, sent + 1)
    BY <1>1
  <2> QED
    BY <2>1, <2>2, <2>3, HistoryStep DEF ClientInv
<1>7. client'.state = "open" /\ client'.socket = "open"
  BY <1>1 DEF IsOpen, Client
<1> QED
  BY <1>5, <1>6, <1>7, HeldKept DEF ClientInv

LEMMA ClientStep == TypeOK /\ ClientInv /\ [Next]_vars => ClientInv'
<1> SUFFICES ASSUME TypeOK, ClientInv, [Next]_vars
             PROVE  ClientInv'
  OBVIOUS
<1>1. CASE UNCHANGED vars
  BY <1>1 DEF vars, held, ClientInv, Headed, Ordered, Presented
<1>2. client \in Client
  BY DEF TypeOK
<1>3. CASE Start \/ ReconnectDue \/ Closed \/ LeftTimerDue
  <2>1. CASE Lost \/ LostAndClosed
    BY <1>3, <2>1, LostInv DEF Start, ReconnectDue, Closed, LeftTimerDue
  <2>2. CASE LeftTimerDue
    BY <2>2, QuietInv DEF LeftTimerDue
  <2>3. ASSUME NEW s \in {"connecting", "reconnecting"}, Dials(s), Start \/ ReconnectDue
        PROVE  ClientInv'
    <3>1. ~Lost /\ ~LostAndClosed
      BY <2>3 DEF Dials, Lost, LostAndClosed, Stopped, NoClient
    <3>2. UNCHANGED <<queue, wire, left, written, held>> /\ sent' \in {sent, sent + 1}
      BY <2>3, <3>1 DEF Start, ReconnectDue, Unheard
    <3> QED
      BY <2>3, <3>2, DialsInv
  <2> QED
    BY <1>3, <2>1, <2>2, <2>3 DEF Start, ReconnectDue, Closed
<1>4. CASE Stop \/ Fail
  BY <1>4, StoppedInv DEF Stop, Fail
<1>5. ASSUME NEW request \in BOOLEAN, Send(request)
      PROVE  ClientInv'
  BY <1>5, SendInv
<1>6. ASSUME NEW m \in Message, RequestTimesOut(m)
      PROVE  ClientInv'
  BY <1>6, QuietInv DEF RequestTimesOut
<1>7. CASE Opened
  <2>1. sent < MaxMessages => <<sent + 1>> \in Seq(Message)
    BY Bounds DEF TypeOK, Message
  <2>2. CASE Stopped /\ UNCHANGED <<sent, written>>
    BY <1>7, <2>2, StoppedInv DEF Opened
  <2>3. CASE Greet(Behind(<< >>)) /\ client' = IsOpen /\ queue' = << >> /\ sent' = sent
    <3>1. << >> \in Seq(Message) /\ UNCHANGED <<left, held>>
      BY <1>7 DEF Opened
    <3> QED
      BY <2>3, <3>1, GreetInv
  <2>4. CASE /\ sent < MaxMessages /\ sent' = sent + 1
             /\ \/ Stopped /\ UNCHANGED written
                \/ Greet(Behind(<<sent + 1>>)) /\ client' = IsOpen /\ queue' = << >>
    BY <1>7, <2>1, <2>4, StoppedInv, GreetInv DEF Opened
  <2> QED
    BY <1>7, <2>2, <2>3, <2>4 DEF Opened
<1>9. CASE Heartbeat \/ FallsSilent
  <2>1. /\ client'.state = client.state /\ client.socket = "open"
        /\ client'.socket \in {"open", "closing"}
    BY <1>2, <1>9 DEF Heartbeat, FallsSilent, Client
  <2> QED
    BY <1>9, <2>1, QuietInv DEF Heartbeat, FallsSilent
<1>10. Alive => client'.state = client.state /\ client'.socket = client.socket
  BY <1>2 DEF Alive, Client
<1>11. ASSUME NEW replied \in SUBSET Message, Receive(replied)
       PROVE  ClientInv'
  BY <1>10, <1>11, QuietInv DEF Receive
<1>12. ASSUME NEW t \in Token, Welcome(t)
       PROVE  ClientInv'
  BY <1>10, <1>12, BridgeClientAssumption DEF Welcome, ClientInv, Headed, Ordered, Presented
<1> QED
  BY <1>1, <1>3, <1>4, <1>5, <1>6, <1>7, <1>9, <1>11, <1>12 DEF Next

(* Hello comes first and once on every connection, and messages are        *)
(* written in the order they were sent, over all connections.              *)
THEOREM InOrderHolds == Spec => []InOrder
<1>1. Init => ClientInv
  BY BridgeClientAssumption DEF Init, ClientInv, Headed, Ordered, NoClient, Presented
<1>2. TypeOK /\ ClientInv => InOrder
  <2> SUFFICES ASSUME TypeOK, ClientInv
               PROVE  InOrder
    OBVIOUS
  <2>1. written \in Seq(Nat) /\ queue \in Seq(Nat) /\ sent \in Nat
    BY Bounds DEF TypeOK, Message
  <2>2. Ordered(written, sent)
    BY <2>1, OrderedConcat DEF ClientInv
  <2> QED
    BY <2>2 DEF ClientInv, Headed, Ordered, InOrder
<1> QED
  BY <1>1, <1>2, ClientStep, TypeCorrect, SpecSteps, PTL

-----------------------------------------------------------------------------
(* A client has one way forward: inductive as it stands.                   *)

LEMMA StoppedForward ==
    ASSUME OneWayForward, Stopped, left' \subseteq left \cup {"timer"}
    PROVE  OneWayForward'
BY DEF Stopped, NoClient, OneWayForward

LEMMA DownForward ==
    ASSUME \/ Lost \/ \E s \in {"connecting", "reconnecting"} : Dials(s)
    PROVE  /\ client'.state # "none"
           /\ client'.timer <=> client'.socket = "none"
BY DEF Lost, Dials, NoClient

LEMMA ForwardStep == TypeOK /\ OneWayForward /\ [Next]_vars => OneWayForward'
<1> SUFFICES ASSUME TypeOK, OneWayForward, [Next]_vars
             PROVE  OneWayForward'
  OBVIOUS
<1>1. CASE UNCHANGED vars
  BY <1>1 DEF vars, OneWayForward
<1>2. client \in Client
  BY DEF TypeOK
<1>3. CASE Start \/ ReconnectDue \/ Closed
  <2>1. CASE LostAndClosed
    BY <2>1, StoppedForward DEF LostAndClosed
  <2>2. CASE left' = left /\ (Lost \/ \E s \in {"connecting", "reconnecting"} : Dials(s))
    BY <2>2, DownForward DEF OneWayForward
  <2>3. Lost => left' = left
    BY DEF Lost
  <2> QED
    BY <1>3, <2>1, <2>2, <2>3 DEF Start, ReconnectDue, Closed
<1>13. CASE LeftTimerDue
  BY <1>13 DEF LeftTimerDue, Redials, OneWayForward
<1>4. CASE Stop \/ Fail
  BY <1>4, StoppedForward DEF Stop, Fail
<1>5. ASSUME NEW request \in BOOLEAN, Send(request)
      PROVE  OneWayForward'
  <2>1. left' = left /\ (Stopped \/ (client' = client /\ client.state # "none"))
    BY <1>5 DEF Send
  <2> QED
    BY <2>1, StoppedForward DEF OneWayForward
<1>6. ASSUME NEW m \in Message, RequestTimesOut(m)
      PROVE  OneWayForward'
  BY <1>6 DEF RequestTimesOut, OneWayForward
<1>7. CASE Opened
  <2>1. client.socket = "dialing" /\ left' = left /\ (Stopped \/ client' = IsOpen)
    BY <1>7 DEF Opened
  <2>2. client' = IsOpen =>
            (client'.timer <=> client.timer) /\ client'.socket = "open" /\ client'.state = "open"
    BY <1>2 DEF IsOpen, Client
  <2>3. Stopped => OneWayForward'
    BY <2>1, StoppedForward
  <2>4. client.state # "none"
    BY <2>1 DEF OneWayForward, NoClient
  <2> QED
    BY <2>1, <2>2, <2>3, <2>4 DEF OneWayForward
<1>8. ASSUME client'.state = client.state, (client'.timer <=> client.timer),
             client'.socket = client.socket \/ client'.socket = "closing",
             client.socket = "open", queue' = queue, left' = left
      PROVE  OneWayForward'
  <2>1. client.state # "none"
    BY <1>8 DEF OneWayForward, NoClient
  <2> QED
    BY <1>8, <2>1 DEF OneWayForward
<1>9. CASE Heartbeat \/ FallsSilent
  <2>1. client'.state = client.state /\ (client'.timer <=> client.timer)
    BY <1>2, <1>9 DEF Heartbeat, FallsSilent, Client
  <2>2. client.socket = "open" /\ client'.socket \in {"open", "closing"}
    BY <1>2, <1>9 DEF Heartbeat, FallsSilent, Client
  <2>3. queue' = queue /\ left' = left
    BY <1>9 DEF Heartbeat, FallsSilent
  <2> QED
    BY <1>8, <2>1, <2>2, <2>3
<1>10. ASSUME Receives, Alive, queue' = queue, left' = left
       PROVE  OneWayForward'
  <2>1. /\ client'.state = client.state /\ client'.socket = client.socket
        /\ (client'.timer <=> client.timer)
    BY <1>2, <1>10 DEF Alive, Client
  <2> QED
    BY <1>8, <1>10, <2>1 DEF Receives
<1>11. ASSUME NEW replied \in SUBSET Message, Receive(replied)
       PROVE  OneWayForward'
  BY <1>10, <1>11 DEF Receive
<1>12. ASSUME NEW t \in Token, Welcome(t)
       PROVE  OneWayForward'
  BY <1>10, <1>12 DEF Welcome
<1> QED
  BY <1>1, <1>3, <1>4, <1>5, <1>6, <1>7, <1>9, <1>11, <1>12, <1>13 DEF Next

(* A client in use never has both a timer and a socket, nor neither; one   *)
(* that was closed has nothing waiting for it and opens no socket, even if *)
(* it was closed from within a callback that leaves it a timer.            *)
THEOREM ForwardHolds == Spec => []OneWayForward
<1>1. Init => OneWayForward
  BY DEF Init, NoClient, OneWayForward
<1> QED
  BY <1>1, ForwardStep, TypeCorrect, SpecSteps, PTL

-----------------------------------------------------------------------------
(* The queue.                                                              *)

LEMMA ToSetConcat ==
    ASSUME NEW s \in Seq(Message), NEW t \in Seq(Message)
    PROVE  ToSet(s \o t) = ToSet(s) \cup ToSet(t)
<1> DEFINE c == s \o t
<1>1. \A i \in DOMAIN s : i \in DOMAIN c /\ c[i] = s[i]
  OBVIOUS
<1>2. \A i \in DOMAIN t : i + Len(s) \in DOMAIN c /\ c[i + Len(s)] = t[i]
  OBVIOUS
<1>3. \A i \in DOMAIN c : i \in DOMAIN s \/ (i - Len(s) \in DOMAIN t /\ c[i] = t[i - Len(s)])
  BY DOMAIN s = 1 .. Len(s), DOMAIN t = 1 .. Len(t), DOMAIN c = 1 .. Len(s) + Len(t)
<1> HIDE DEF c
<1>4. ToSet(c) = ToSet(s) \cup ToSet(t)
  BY <1>1, <1>2, <1>3 DEF ToSet
<1> QED
  BY <1>4 DEF c

(* A queued message goes out or stays queued, unless the client is closed. *)
THEOREM QueueKept == Spec => QueueIsKept
<1> DEFINE Kept == \A m \in ToSet(queue) :
                      m \in ToSet(queue') \cup ToSet(written') \/ client'.state = "none"
<1>1. TypeOK /\ [Next]_vars => [Kept]_vars
  <2> SUFFICES ASSUME TypeOK, Next
               PROVE  Kept
    OBVIOUS
  <2>1. Stopped => Kept
    BY DEF Stopped, NoClient
  <2>2. queue' = queue => Kept
    OBVIOUS
  <2>3. queue \in Seq(Message) /\ written \in Seq(Message) /\ sent \in Nat
    BY Bounds DEF TypeOK
  <2>4. ASSUME NEW request \in BOOLEAN, Send(request)
        PROVE  Kept
    <3>1. sent + 1 \in Message /\ <<sent + 1>> \in Seq(Message)
      BY <2>3, <2>4, Bounds DEF Send, Message
    <3>2. Append(queue, sent + 1) = queue \o <<sent + 1>>
      BY <2>3
    <3>3. ToSet(Append(queue, sent + 1)) = ToSet(queue) \cup ToSet(<<sent + 1>>)
      BY <2>3, <3>1, <3>2, ToSetConcat
    <3>4. Stopped \/ queue' = queue \/ queue' = Append(queue, sent + 1)
      BY <2>4 DEF Send
    <3> QED
      BY <2>1, <2>2, <3>3, <3>4, Zenon
  <2>5. CASE Opened
    <3>1. ASSUME NEW said \in Seq(Message), Greet(Behind(said))
          PROVE  Kept
      <4>1. written' = written \o (queue \o said) /\ queue \o said \in Seq(Message)
        BY <2>3, <3>1 DEF Greet, Behind
      <4> QED
        BY <2>3, <4>1, ToSetConcat
    <3>2. << >> \in Seq(Message) /\ (sent < MaxMessages => <<sent + 1>> \in Seq(Message))
      BY <2>3, Bounds DEF Message
    <3> QED
      BY <2>1, <2>5, <3>1, <3>2 DEF Opened
  <2> HIDE DEF Kept
  <2>6. \/ Stopped \/ queue' = queue \/ Opened
        \/ \E request \in BOOLEAN : Send(request)
    BY DEF Next, Start, Stop, RequestTimesOut, Closed, ReconnectDue, LeftTimerDue,
           Lost, LostAndClosed, Heartbeat,
           FallsSilent, Receive, Welcome, Fail
  <2> QED
    BY <2>1, <2>2, <2>4, <2>5, <2>6
<1> QED
  BY <1>1, TypeCorrect, SpecSteps, PTL DEF QueueIsKept
=============================================================================
