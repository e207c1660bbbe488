----------------------------- MODULE BridgeClient -----------------------------
(***************************************************************************)
(* One side of a bridge session: ProjectSession (packages/bridge-client,   *)
(* project/session.ts) on the reconnecting WsClient (ws-client.ts).        *)
(*                                                                         *)
(* A step is a call of the embedding, an event of the socket or a timer,   *)
(* with the callbacks it runs.  A listener may send a message or stop the  *)
(* session from within a callback, where the code goes on after it.  The   *)
(* bridge and the network are external: a connection breaks or falls       *)
(* silent at any time, and a silent one loses what is written on it.       *)
(***************************************************************************)
EXTENDS Integers, SequencesExt

CONSTANTS
    Token, NoToken,     \* binding tokens
    MaxQueueSize,
    MaxMissed,          \* maxMissedHeartbeats
    MaxMessages         \* bound on the messages that are sent

ASSUME BridgeClientAssumption ==
    /\ NoToken \notin Token
    /\ {MaxQueueSize, MaxMissed, MaxMessages} \subseteq Nat

VARIABLES
    status,     \* _status of the session
    joinCode,   \* whether _joinCode is still held
    token,      \* _meta.bindingToken
    client,     \* _client
    queue,      \* queuedMessages
    pending,    \* pendingRequests
    sent,       \* messages sent so far; each is named by its number
    wire,       \* the frames of the current connection
    written,    \* the messages written on any connection
    left,       \* what clients that were closed have left behind
    begun,      \* history: the token and the join code the session was begun with
    accepted    \* history: the token of the last welcome that was accepted

held == <<joinCode, token, begun, accepted>>

vars == <<status, client, queue, pending, sent, wire, written, left, held>>

Message == 1 .. MaxMessages

(* A client that was closed is none.  A closing socket takes frames and    *)
(* loses them.  A silent one delivers nothing.                             *)
Client ==
    [state : {"none", "connecting", "open", "reconnecting"},
     socket : {"none", "dialing", "open", "closing"},
     timer : BOOLEAN, missed : 0 .. MaxMissed, silent : BOOLEAN]

NoClient ==
    [state |-> "none", socket |-> "none", timer |-> FALSE, missed |-> 0, silent |-> FALSE]

Credentials == [token : Token \cup {NoToken}, code : BOOLEAN]

(* A hello is the frame of no message.  history: after is the token of the *)
(* last welcome that was accepted before the frame was written.            *)
Frame ==
    [message : 0 .. MaxMessages, token : Token \cup {NoToken}, code : BOOLEAN,
     after : Token \cup {NoToken}]

TypeOK ==
    /\ status \in {"disconnected", "connecting", "connected", "reconnecting"}
    /\ joinCode \in BOOLEAN
    /\ token \in Token \cup {NoToken}
    /\ client \in Client
    /\ queue \in Seq(Message) /\ Len(queue) <= MaxQueueSize
    /\ pending \subseteq Message
    /\ sent \in 0 .. MaxMessages
    /\ wire \in Seq(Frame)
    /\ written \in Seq(Message)
    /\ left \subseteq {"timer", "socket"}
    /\ begun \in Credentials /\ accepted \in Token \cup {NoToken}

(* A session is begun with a join code, a token that was saved, both or    *)
(* neither.                                                                *)
Init ==
    /\ status = "disconnected" /\ client = NoClient
    /\ joinCode \in BOOLEAN /\ token \in Token \cup {NoToken}
    /\ begun = [token |-> token, code |-> joinCode] /\ accepted = NoToken
    /\ queue = << >> /\ pending = {} /\ sent = 0
    /\ wire = << >> /\ written = << >> /\ left = {}

-----------------------------------------------------------------------------
(* closeClient and the status after it, as stop and fail do.               *)
Stopped ==
    /\ client' = NoClient /\ status' = "disconnected"
    /\ queue' = << >> /\ pending' = {} /\ wire' = << >>

Frames(ms) ==
    [i \in DOMAIN ms |->
        [message |-> ms[i], token |-> NoToken, code |-> FALSE, after |-> NoToken]]

(* A socket is dialed.  Its constructor may throw, which the client takes  *)
(* for a connection that was lost.                                         *)
Dials(state) ==
    /\ client' = [NoClient EXCEPT !.state = state, !.socket = "dialing"]
    /\ status' = state

(* Mutant: the queue takes one message too many.                           *)
FullLate(q) == Len(q) > MaxQueueSize

Full(q) == Len(q) >= MaxQueueSize

(* Mutant: nothing is scheduled after a connection that was lost.          *)
Stranded ==
    /\ client' = [NoClient EXCEPT !.state = "reconnecting"]
    /\ status' = "reconnecting" /\ wire' = << >>
    /\ UNCHANGED <<queue, pending, sent, left>>

(* handleDisconnect and scheduleReconnect.                                 *)
Lost ==
    /\ client' = [NoClient EXCEPT !.state = "reconnecting", !.timer = TRUE]
    /\ status' = "reconnecting" /\ wire' = << >>
    /\ UNCHANGED <<queue, pending, sent, left>>

(* A listener of the new status stops the session in between, or says      *)
(* something that overflows a full queue: the timer is set all the same,   *)
(* of a client that is closed.                                             *)
LostAndClosed ==
    /\ status # "reconnecting"
    /\ Stopped /\ left' = left \cup {"timer"}
    /\ \/ sent' = sent
       \/ Full(queue) /\ sent < MaxMessages /\ sent' = sent + 1

(* What a listener of the status connecting says is dropped: the client is *)
(* idle.                                                                   *)
Unheard ==
    /\ sent < MaxMessages /\ sent' = sent + 1
    /\ pending' \in {pending, pending \cup {sent + 1}}

(* A listener of that status that stops the session makes start throw,     *)
(* with nothing changed.                                                   *)
Start ==
    /\ client.state = "none"
    /\ \/ /\ Dials("connecting") /\ UNCHANGED <<queue, wire, left>>
          /\ UNCHANGED <<pending, sent>> \/ Unheard
       \/ Lost \/ LostAndClosed
    /\ UNCHANGED <<written, held>>

(* stop(), and end() with its goodbye, which is never queued to any effect.*)
Stop ==
    /\ client.state # "none"
    /\ Stopped
    /\ UNCHANGED <<sent, written, left, held>>

-----------------------------------------------------------------------------
(* Messages of the embedding.  A request is pending until it is answered,  *)
(* its time runs out or the client is closed, whether it was written yet   *)
(* or not.                                                                 *)

(* On an open socket a message is written at once; nothing is queued then. *)
Write(m) ==
    IF client.socket = "open"
    THEN wire' = wire \o Frames(<<m>>) /\ written' = Append(written, m)
    ELSE UNCHANGED <<wire, written>>

Send(request) ==
    LET m == sent + 1
    IN  /\ client.state # "none" /\ sent < MaxMessages
        /\ sent' = m
        /\ IF client.state # "open" /\ Full(queue)
           THEN Stopped /\ UNCHANGED written
           ELSE /\ pending' = IF request THEN pending \cup {m} ELSE pending
                /\ IF client.state = "open" THEN Write(m) /\ UNCHANGED queue
                   ELSE queue' = Append(queue, m) /\ UNCHANGED <<wire, written>>
                /\ UNCHANGED <<client, status>>
        /\ UNCHANGED <<left, held>>

RequestTimesOut(m) ==
    /\ m \in pending
    /\ pending' = pending \ {m}
    /\ UNCHANGED <<status, client, queue, sent, wire, written, left, held>>

-----------------------------------------------------------------------------
(* The connection.                                                         *)

Hello == [message |-> 0, token |-> token, code |-> joinCode, after |-> accepted]

(* The listener of the session is called first and says hello, then the    *)
(* messages ms are written.                                                *)
Greet(ms) == wire' = <<Hello>> \o Frames(ms) /\ written' = written \o ms

(* Mutant: what a listener says overtakes the queue.                       *)
OvertakesQueue(said) == said \o queue

(* Mutant: the queue is emptied without being flushed.                     *)
HoldsQueue(said) == said

(* send from a listener with messages still queued: it joins them, and all *)
(* are flushed.                                                            *)
Behind(said) == queue \o said

IsOpen == [client EXCEPT !.state = "open", !.socket = "open"]

(* onopen: hello; a listener may send a message, which overflows a full    *)
(* queue, or stop the session; then the queue is flushed.                  *)
Opened ==
    /\ client.socket = "dialing"
    /\ \/ /\ Greet(Behind(<< >>))
          /\ client' = IsOpen /\ status' = "connected" /\ queue' = << >>
          /\ UNCHANGED <<pending, sent>>
       \/ /\ sent < MaxMessages /\ sent' = sent + 1
          /\ IF Full(queue) THEN Stopped /\ UNCHANGED written
             ELSE /\ Greet(Behind(<<sent + 1>>))
                  /\ client' = IsOpen /\ status' = "connected" /\ queue' = << >>
                  /\ UNCHANGED pending
       \/ Stopped /\ UNCHANGED <<sent, written>>
    /\ UNCHANGED <<left, held>>

(* onclose, of a socket in any state.                                      *)
Closed ==
    /\ client.socket # "none"
    /\ Lost \/ LostAndClosed
    /\ UNCHANGED <<written, held>>

(* Mutant: the timer's callback dials without a look at the state.         *)
RedialsAlways(state) == TRUE

(* The test of the timer's callback.                                       *)
Redials(state) == state = "reconnecting"

(* The status is reconnecting already: no listener is called.              *)
ReconnectDue ==
    /\ client.timer /\ Redials(client.state)
    /\ \/ Dials("reconnecting") /\ UNCHANGED <<queue, pending, sent, wire, left>>
       \/ Lost
    /\ UNCHANGED <<written, held>>

(* The timer of a client that was closed; there may be more of them.       *)
LeftTimerDue ==
    /\ "timer" \in left
    /\ left' \in IF Redials("closed") THEN {left \cup {"socket"}}
                 ELSE {left, left \ {"timer"}}
    /\ UNCHANGED <<status, client, queue, pending, sent, wire, written, held>>

(* Mutant: a heartbeat nobody answers is sent for ever.                    *)
HeartbeatEndless ==
    /\ client.socket = "open"
    /\ client' = [client EXCEPT !.missed = IF @ < MaxMissed THEN @ + 1 ELSE @]
    /\ UNCHANGED <<status, queue, pending, sent, wire, written, left, held>>

(* The ping itself is a message of no consequence.                         *)
Heartbeat ==
    /\ client.socket = "open"
    /\ client' = IF client.missed < MaxMissed THEN [client EXCEPT !.missed = @ + 1]
                 ELSE [client EXCEPT !.socket = "closing"]
    /\ UNCHANGED <<status, queue, pending, sent, wire, written, left, held>>

FallsSilent ==
    /\ client.socket = "open" /\ ~client.silent
    /\ client' = [client EXCEPT !.silent = TRUE]
    /\ UNCHANGED <<status, queue, pending, sent, wire, written, left, held>>

-----------------------------------------------------------------------------
(* Messages of the bridge.  Each is proof of life.                         *)

Receives == client.socket = "open" /\ ~client.silent

Alive == client' = [client EXCEPT !.missed = 0]

(* A reply is that of a request that was written, here or earlier; once    *)
(* nobody waits for it, it is like any other message.                      *)
Receive(replied) ==
    /\ Receives /\ Alive
    /\ replied \subseteq ToSet(written)
    /\ pending' = pending \ replied
    /\ UNCHANGED <<status, queue, sent, wire, written, left, held>>

Welcome(t) ==
    /\ Receives /\ Alive
    /\ token' = t /\ joinCode' = FALSE /\ accepted' = t
    /\ UNCHANGED <<status, queue, pending, sent, wire, written, left, begun>>

(* A welcome of another protocol version, or an error with a code.         *)
Fail ==
    /\ Receives
    /\ Stopped
    /\ UNCHANGED <<sent, written, left, held>>

Next ==
    \/ Start \/ Stop
    \/ \E request \in BOOLEAN : Send(request)
    \/ \E m \in Message : RequestTimesOut(m)
    \/ Opened \/ Closed \/ ReconnectDue \/ LeftTimerDue \/ Heartbeat \/ FallsSilent
    \/ \E m \in Message : Receive({m})
    \/ Receive({})
    \/ \E t \in Token : Welcome(t)
    \/ Fail

(* Timers fire, a socket that is being closed closes, and a connection     *)
(* that is dialed for again and again opens.                               *)
Spec ==
    /\ Init /\ [][Next]_vars
    /\ WF_vars(Heartbeat) /\ WF_vars(client.socket = "closing" /\ Closed)
    /\ SF_vars(ReconnectDue /\ client'.socket = "dialing") /\ SF_vars(Opened)

-----------------------------------------------------------------------------
(* Correctness.                                                            *)

(* What the next hello is to present: what the session was begun with      *)
(* until a welcome was accepted, from then on the token of the last one    *)
(* and no join code.                                                       *)
Presented(after) ==
    IF after = NoToken THEN begun ELSE [token |-> after, code |-> FALSE]

(* A hello is the first frame of every connection, ahead of the messages   *)
(* that were queued, and is said once.  On a reconnection as after a new   *)
(* start it presents what the welcomes before it have left of what the     *)
(* session was begun with.  Messages are written in the order they were    *)
(* sent, and none twice, over all connections, whatever was queued, lost,  *)
(* or said from a listener.                                                *)
InOrder ==
    /\ client.state = "open" => wire # << >>
    /\ \A i \in DOMAIN wire : wire[i].message = 0 <=> i = 1
    /\ \A i \in DOMAIN wire : wire[i].message = 0 =>
           [token |-> wire[i].token, code |-> wire[i].code] = Presented(wire[i].after)
    /\ \A i, j \in DOMAIN written : i < j => written[i] < written[j]

(* A message that waits for a connection is discarded by nothing but the   *)
(* end of the client.                                                      *)
QueueIsKept ==
    [][\A m \in ToSet(queue) :
        m \in ToSet(queue') \cup ToSet(written') \/ client'.state = "none"]_vars

(* A client that is not open has one way forward, a timer or a socket, and *)
(* never two.  One that was closed, from within a callback or not, sends   *)
(* nothing, nobody waits for it, and it opens no socket, though a listener *)
(* that closes it while a connection is being lost leaves it a timer.      *)
OneWayForward ==
    /\ client.state # "none" => (client.timer <=> client.socket = "none")
    /\ client.state = "none" => client = NoClient /\ queue = << >> /\ pending = {}
    /\ "socket" \notin left

(* Whatever connections are lost, queued messages go out.                  *)
QueueIsSent == queue # << >> ~> queue = << >>

(* A connection that has fallen silent is given up.                        *)
SilenceIsNoticed == client.silent ~> ~client.silent
=============================================================================
