--------------------------- MODULE AssistantSessions ---------------------------
(***************************************************************************)
(* The assistant's sessions (class AssistantMachine in                     *)
(* packages/assistant-panel/src/session/machine.ts over the channels of    *)
(* websocket-channel.ts): every brain has one session with the service,    *)
(* opened when the person asks for it and dialed for quietly while the     *)
(* brain is shown, and one turn at a time on it; what the person types     *)
(* while a turn runs waits in a queue.                                     *)
(*                                                                         *)
(* A step is a call of the user interface, an event of a socket, a timer   *)
(* or the completion of a batch of tool calls, with all the promise        *)
(* continuations it sets off, since they run before the next event.  The   *)
(* methods of the class are operators from the record of a brain to the    *)
(* record after the call.  A handshake and the session it may open are     *)
(* named by their socket.                                                  *)
(***************************************************************************)
EXTENDS Naturals, FiniteSets, SequencesExt

CONSTANTS
    Brain,
    Elsewhere,          \* a brain whose sessions are left out
    Socket, NoSocket,
    Ask,                \* what the person types; each is typed once
    Library             \* libraries the person adds

ASSUME AssistantAssumption ==
    /\ {Elsewhere, NoSocket} \cap Brain = {}
    /\ {"none", "waiting", NoSocket} \cap Socket = {}
    /\ Ask \cap Library = {}

VARIABLES
    shown,      \* store.activeBrainId, NoSocket before the host has named one
    brain,      \* what the machine keeps of every brain
    socket,     \* the sockets
    stood       \* whether close() was called

vars == <<shown, brain, socket, stood>>

(* An entry of the queue.  A library is never solo.                        *)
Entry == [what : Ask \cup Library, solo : BOOLEAN]

NoTurn == [at |-> "none", on |-> NoSocket]

(* The coroutine of a turn waits for its session to open, reads the next   *)
(* message of its channel, or has a batch of tool calls served.            *)
Turn == [at : {"none", "opening", "reading", "serving"}, on : Socket \cup {NoSocket}]

BrainRecord ==
    [status : {"idle", "connecting", "ready", "turn_active", "failed"},
     channel : Socket \cup {NoSocket},           \* channels
     opening : Socket \cup {NoSocket},           \* opening: the handshake of openChannel
     dialing : Socket \cup {"none", "waiting"},  \* reopening: the quiet loop, waiting or in a handshake
     refused : BOOLEAN, stopping : BOOLEAN,      \* refused, stopRequested
     waiting : Seq(Entry),                       \* queued
     turn : Turn,
     asked : Seq(Ask)]                           \* the person's words in the record, in order

(* A handshake dials and then asks; one that ran out before its socket     *)
(* opened leaves it late.  A closing socket delivers nothing any more.     *)
(* The inbox of a channel matters when it holds the end of the turn.       *)
SocketRecord ==
    [state : {"free", "dialing", "asking", "late", "open", "closing", "closed"},
     by : {"open", "loop"}, of : Brain \cup {NoSocket}, ended : BOOLEAN]

FreeSocket == [state |-> "free", by |-> "open", of |-> NoSocket, ended |-> FALSE]

TypeOK ==
    /\ shown \in Brain \cup {Elsewhere, NoSocket}
    /\ brain \in [Brain -> BrainRecord]
    /\ socket \in [Socket -> SocketRecord]
    /\ stood \in BOOLEAN

Init ==
    /\ shown = NoSocket
    /\ brain = [b \in Brain |->
         [status |-> "idle", channel |-> NoSocket, opening |-> NoSocket, dialing |-> "none",
          refused |-> FALSE, stopping |-> FALSE, waiting |-> <<>>, turn |-> NoTurn, asked |-> <<>>]]
    /\ socket = [s \in Socket |-> FreeSocket]
    /\ stood = FALSE

-----------------------------------------------------------------------------
(* The methods of the machine, on the record q of brain b.                 *)

Running(q) == q.status = "turn_active"

Settle(q, status) == IF Running(q) THEN q ELSE [q EXCEPT !.status = status]

WantsReopen(q) ==
    /\ q.dialing = "none" /\ ~q.refused
    /\ q.channel = NoSocket /\ q.opening = NoSocket /\ ~Running(q)

Reopen(q, b) == IF shown = b /\ WantsReopen(q) THEN [q EXCEPT !.dialing = "waiting"] ELSE q

(* Mutant: the quiet loop runs on beside the open.                         *)
StandDownNothing(q) == q

(* Mutant: the loop that was stood down is left as an empty entry.         *)
StandDownEmptied(q) == [q EXCEPT !.dialing = NoSocket]

StandDownReopen(q) == [q EXCEPT !.dialing = "none"]

(* openChannel: s is a socket for a handshake, if it comes to one.         *)
OpenChannel(q, s) ==
    LET r == [StandDownReopen(q) EXCEPT !.refused = FALSE]
    IN  IF r.channel # NoSocket \/ r.opening # NoSocket THEN r
        ELSE Settle([r EXCEPT !.opening = s], "connecting")

(* carryTurn on the channel s, up to its first read.                       *)
CarryTurn(q, s) == [q EXCEPT !.turn = [at |-> "reading", on |-> s], !.stopping = FALSE]

(* startAsk and the beginning of runTurn.                                  *)
StartAsk(q, asks, s) ==
    LET r == OpenChannel([q EXCEPT !.status = "turn_active", !.asked = @ \o asks], s)
    IN  IF r.channel # NoSocket THEN CarryTurn(r, r.channel)
        ELSE [r EXCEPT !.turn = [at |-> "opening", on |-> r.opening]]

StartAdded(q) == CarryTurn([q EXCEPT !.status = "turn_active"], q.channel)

(* Mutant: asks join an ask that was hurried.                              *)
JoinedAll(waiting) ==
    LET typed == {i \in DOMAIN waiting : \A j \in 1 .. i : waiting[j].what \in Ask}
    IN  SubSeq(waiting, 1, Cardinality(typed))

(* The asks at the head of the queue that take one turn together.          *)
Joined(waiting) ==
    LET typed == {i \in DOMAIN waiting : \A j \in 1 .. i :
                    waiting[j].what \in Ask /\ (j < i => ~waiting[j].solo)}
    IN  SubSeq(waiting, 1, Cardinality(typed))

Words(entries) == [i \in DOMAIN entries |-> entries[i].what]

DrainPending(q) ==
    IF q.waiting = <<>> \/ Running(q) \/ q.channel = NoSocket THEN q
    ELSE IF Head(q.waiting).what \in Library
         THEN StartAdded([q EXCEPT !.waiting = Tail(@)])
         ELSE LET asks == Joined(q.waiting)
              IN  StartAsk([q EXCEPT !.waiting = SubSeq(@, Len(asks) + 1, Len(@))],
                           Words(asks), NoSocket)

(* Mutant: nobody dials for a brain whose turn ended without a session.    *)
FinishUndialed(q, b) ==
    LET held == q.channel # NoSocket
    IN  DrainPending([q EXCEPT !.stopping = FALSE, !.turn = NoTurn,
                               !.status = IF held THEN "ready" ELSE "failed"])

(* finish, with which the coroutine of the turn ends.                      *)
Finish(q, b) ==
    LET held == q.channel # NoSocket
        r == [q EXCEPT !.stopping = FALSE, !.turn = NoTurn,
                       !.status = IF held THEN "ready" ELSE "failed"]
    IN  DrainPending(IF held THEN r ELSE Reopen(r, b))

Hold(q, s) == DrainPending(Settle([q EXCEPT !.channel = s], "ready"))

(* Mutant: an attempt that failed is the last.                             *)
GiveUpForGood(q, b, refusal) == Settle([q EXCEPT !.refused = @ \/ refusal], "failed")

GiveUp(q, b, refusal) ==
    Reopen(Settle([q EXCEPT !.refused = @ \/ refusal], "failed"), b)

(* What the turn that waits for the handshake s makes of it.               *)
TurnOpened(q, s) == IF q.turn = [at |-> "opening", on |-> s] THEN CarryTurn(q, s) ELSE q
TurnUnopened(q, b, s) == IF q.turn = [at |-> "opening", on |-> s] THEN Finish(q, b) ELSE q

(* The catch of carryTurn: whatever channel the brain holds is dropped.    *)
Disconnected(q, b) == Finish([q EXCEPT !.channel = NoSocket], b)

-----------------------------------------------------------------------------
(* Sockets.                                                                *)

(* A socket is free once it has closed and no turn reads it any more.      *)
Free(s) ==
    \/ socket[s].state = "free"
    \/ socket[s].state = "closed" /\ \A b \in Brain : brain[b].turn.on # s

CanDial == \E s \in Socket : Free(s)
Fresh == IF CanDial THEN CHOOSE s \in Socket : Free(s) ELSE NoSocket

Dialed(b, by) == [state |-> "dialing", by |-> by, of |-> b, ended |-> FALSE]

(* close() of the channel s, of none when s is NoSocket.                   *)
Closed(s) ==
    [x \in Socket |-> IF x = s /\ socket[x].state # "closed"
                      THEN [socket[x] EXCEPT !.state = "closing"] ELSE socket[x]]

-----------------------------------------------------------------------------
(* Calls of the user interface.                                            *)

(* The bound on sockets: a session may be asked for when it may be dialed. *)
MayOpen(b) == CanDial \/ brain[b].channel # NoSocket \/ brain[b].opening # NoSocket

(* A call of brain b that may open a session.                              *)
Opens(b, q) ==
    /\ brain' = [brain EXCEPT ![b] = q]
    /\ socket' = IF q.opening = brain[b].opening THEN socket
                 ELSE [socket EXCEPT ![q.opening] = Dialed(b, "open")]
    /\ UNCHANGED <<shown, stood>>

Sets(b, q) == brain' = [brain EXCEPT ![b] = q] /\ UNCHANGED <<shown, socket, stood>>

SetActiveBrain(named) ==
    /\ ~stood /\ named # shown
    /\ shown' = named
    /\ brain' = [b \in Brain |->
         IF b = shown THEN StandDownReopen(brain[b])
         ELSE IF b = named /\ WantsReopen(brain[b]) THEN [brain[b] EXCEPT !.dialing = "waiting"]
         ELSE brain[b]]
    /\ UNCHANGED <<socket, stood>>

OpenSession(b) == ~stood /\ MayOpen(b) /\ Opens(b, OpenChannel(brain[b], Fresh))

Waits(q, what) == \E i \in DOMAIN q.waiting : q.waiting[i].what = what
Typed(a) == \E b \in Brain : Waits(brain[b], a) \/ Contains(brain[b].asked, a)

Queued(q, what) == [q EXCEPT !.waiting = Append(@, [what |-> what, solo |-> FALSE])]

Send(b, a) ==
    /\ ~stood /\ shown = b /\ ~Typed(a)
    /\ IF Running(brain[b]) THEN Sets(b, Queued(brain[b], a))
       ELSE MayOpen(b) /\ Opens(b, StartAsk(brain[b], <<a>>, Fresh))

CancelAsk(b, i) ==
    /\ ~stood /\ shown = b
    /\ brain[b].waiting[i].what \in Ask
    /\ Sets(b, [brain[b] EXCEPT !.waiting = RemoveAt(@, i)])

(* A turn that holds its session is asked over it (turn:stop), and ends at *)
(* the service's own time.                                                 *)
AskToStop(q) ==
    IF Running(q) /\ q.channel = NoSocket THEN [q EXCEPT !.stopping = TRUE] ELSE q

SendNow(b, i) ==
    LET e == brain[b].waiting[i]
        q == [brain[b] EXCEPT !.waiting = <<[e EXCEPT !.solo = TRUE]>> \o RemoveAt(@, i)]
    IN  /\ ~stood /\ shown = b /\ e.what \in Ask
        /\ Sets(b, IF Running(q) THEN AskToStop(q) ELSE DrainPending(q))

LibraryAdded(b, l) ==
    /\ ~stood
    /\ IF Running(brain[b]) THEN ~Waits(brain[b], l) /\ Sets(b, Queued(brain[b], l))
       ELSE brain[b].channel # NoSocket /\ Sets(b, StartAdded(brain[b]))

Stop(b) == ~stood /\ shown = b /\ Sets(b, AskToStop(brain[b]))

StopAll ==
    /\ ~stood
    /\ brain' = [b \in Brain |-> AskToStop(brain[b])]
    /\ UNCHANGED <<shown, socket, stood>>

(* close(), which the provider calls when it is unmounted; nothing is      *)
(* called after it.                                                        *)
Close ==
    /\ ~stood /\ stood' = TRUE
    /\ brain' = [b \in Brain |->
         [StandDownReopen(brain[b]) EXCEPT !.status = "idle", !.channel = NoSocket,
            !.opening = NoSocket, !.refused = FALSE, !.stopping = FALSE, !.waiting = <<>>]]
    /\ socket' = [s \in Socket |-> IF \E b \in Brain : brain[b].channel = s
                                   THEN [socket[s] EXCEPT !.state = "closing"] ELSE socket[s]]
    /\ UNCHANGED shown

-----------------------------------------------------------------------------
(* Handshakes.                                                             *)

(* What the attempt on socket s came to: opened, refused or unavailable.   *)
(* An attempt the machine no longer expects changes nothing but the turn   *)
(* that waits for it.                                                      *)
Expects(q, s) == q.opening = s \/ q.dialing = s

Outcome(q, b, s, came) ==
    LET r == [q EXCEPT !.opening = IF @ = s THEN NoSocket ELSE @]
    IN  IF q.opening = s
        THEN IF came = "opened" THEN TurnOpened(Hold(r, s), s)
             ELSE TurnUnopened(GiveUp(r, b, came = "refused"), b, s)
        ELSE IF q.dialing = s
        THEN CASE came = "opened"  -> [Hold(q, s) EXCEPT !.dialing = "none"]
               [] came = "refused" -> [GiveUp(q, b, TRUE) EXCEPT !.dialing = "none"]
               [] OTHER            -> [q EXCEPT !.dialing = "waiting"]
        ELSE TurnUnopened(q, b, s)

Comes(s, came, state) ==
    LET b == socket[s].of
    IN  /\ brain' = [brain EXCEPT ![b] = Outcome(@, b, s, came)]
        /\ socket' = [socket EXCEPT ![s].state = state]
        /\ UNCHANGED <<shown, stood>>

(* The wait of the quiet loop ends.                                        *)
DialDue(b) ==
    /\ brain[b].dialing = "waiting" /\ CanDial
    /\ brain' = [brain EXCEPT ![b].dialing = Fresh]
    /\ socket' = [socket EXCEPT ![Fresh] = Dialed(b, "loop")]
    /\ UNCHANGED <<shown, stood>>

SocketOpens(s) ==
    /\ socket[s].state \in {"dialing", "late"}
    /\ socket' = [socket EXCEPT ![s].state = IF @ = "late" THEN "closing" ELSE "asking"]
    /\ UNCHANGED <<shown, brain, stood>>

HandshakeRunsOut(s) ==
    \/ socket[s].state = "dialing" /\ Comes(s, "unavailable", "late")
    \/ socket[s].state = "asking" /\ Comes(s, "unavailable", "closing")

Accepted(s) ==
    /\ socket[s].state = "asking"
    /\ Comes(s, "opened", IF Expects(brain[socket[s].of], s) THEN "open" ELSE "closing")

(* The service refuses, or answers something else.                         *)
Refused(s) ==
    /\ socket[s].state = "asking"
    /\ \E came \in {"refused", "unavailable"} : Comes(s, came, "closing")

-----------------------------------------------------------------------------
(* Sessions and turns.                                                     *)

(* Whatever channel the brain holds goes with the turn on a lost session.  *)
TurnLost(q, b) ==
    /\ brain' = [brain EXCEPT ![b] = Disconnected(q, b)]
    /\ socket' = Closed(q.channel)

HandshakeFails(s) ==
    /\ socket[s].state \in {"dialing", "asking"}
    /\ Comes(s, "unavailable", "closed")

(* The socket of a session, or one that is being closed, has closed: the   *)
(* session is given up, then the read of its turn is rejected.             *)
SocketClosed(s) ==
    LET b == socket[s].of
        q == brain[b]
        given == IF q.channel # s THEN q
                 ELSE Reopen(Settle([q EXCEPT !.channel = NoSocket], "idle"), b)
        lost == q.turn = [at |-> "reading", on |-> s]
    IN  /\ socket[s].state \in {"late", "open", "closing"}
        /\ brain' = [brain EXCEPT ![b] = IF lost THEN Disconnected(given, b) ELSE given]
        /\ socket' = [IF lost THEN Closed(given.channel) ELSE socket
                        EXCEPT ![s].state = "closed"]
        /\ UNCHANGED <<shown, stood>>

(* A frame the wire does not admit closes the socket under the session.    *)
BadFrame(s) ==
    /\ socket[s].state = "open"
    /\ socket' = [socket EXCEPT ![s].state = "closing"]
    /\ UNCHANGED <<shown, brain, stood>>

ToolCalls(b) ==
    /\ brain[b].turn.at = "reading" /\ socket[brain[b].turn.on].state = "open"
    /\ Sets(b, [brain[b] EXCEPT !.turn.at = "serving"])

(* The end of the turn arrives; a turn that serves a batch reads it later. *)
TurnEnd(b) ==
    LET s == brain[b].turn.on
    IN  /\ brain[b].turn.at \in {"reading", "serving"}
        /\ socket[s].state = "open" /\ ~socket[s].ended
        /\ IF brain[b].turn.at = "reading" THEN Sets(b, Finish(brain[b], b))
           ELSE socket' = [socket EXCEPT ![s].ended = TRUE] /\ UNCHANGED <<shown, brain, stood>>

(* The batch is served, or cannot be, and its results are sent: the turn   *)
(* reads on, and the inbox is drained before a closed one rejects.         *)
ServingEnds(b) ==
    LET s == brain[b].turn.on
    IN  /\ brain[b].turn.at = "serving"
        /\ \/ /\ socket[s].state # "closed" /\ ~socket[s].ended
              /\ brain' = [brain EXCEPT ![b].turn.at = "reading"]
              /\ UNCHANGED socket
           \/ /\ socket[s].ended
              /\ brain' = [brain EXCEPT ![b] = Finish(@, b)]
              /\ socket' = [socket EXCEPT ![s].ended = FALSE]
           \/ socket[s].state = "closed" /\ TurnLost(brain[b], b)
        /\ UNCHANGED <<shown, stood>>

Next ==
    \/ \E named \in Brain \cup {Elsewhere} : SetActiveBrain(named)
    \/ \E b \in Brain :
         \/ OpenSession(b) \/ Stop(b) \/ DialDue(b)
         \/ ToolCalls(b) \/ TurnEnd(b) \/ ServingEnds(b)
         \/ \E a \in Ask : Send(b, a)
         \/ \E l \in Library : LibraryAdded(b, l)
         \/ \E i \in DOMAIN brain[b].waiting : CancelAsk(b, i) \/ SendNow(b, i)
    \/ StopAll \/ Close
    \/ \E s \in Socket :
         \/ SocketOpens(s) \/ HandshakeRunsOut(s) \/ Accepted(s) \/ Refused(s)
         \/ HandshakeFails(s) \/ SocketClosed(s) \/ BadFrame(s)

Expected(s) == socket[s].state # "free" /\ Expects(brain[socket[s].of], s)

(* Timers fire, closing sockets close, a batch of tool calls is served and *)
(* the service ends its turns; a service asked again and again accepts.    *)
Spec ==
    /\ Init /\ [][Next]_vars
    /\ \A b \in Brain :
         WF_vars(DialDue(b)) /\ WF_vars(ServingEnds(b)) /\ SF_vars(TurnEnd(b))
    /\ \A s \in Socket :
         /\ SF_vars(Expected(s) /\ SocketOpens(s)) /\ SF_vars(Expected(s) /\ Accepted(s))
         /\ WF_vars(HandshakeRunsOut(s))
         /\ WF_vars(socket[s].state \in {"late", "closing"} /\ SocketClosed(s))

-----------------------------------------------------------------------------
(* Correctness.                                                            *)

(* A brain has one session, or one attempt to open one: a session that     *)
(* stands is dialed for by nobody, and an open of the person's ends the    *)
(* quiet loop.  No other is left open behind the machine's back: an open   *)
(* socket is the one its brain holds, whichever attempt it came from and   *)
(* however late it was accepted (openChannel, reopen, hold and             *)
(* dropWhenClosed against the outcomes of handshakes that were given up).  *)
OneSession ==
    /\ \A b \in Brain :
        /\ brain[b].channel # NoSocket => brain[b].opening = NoSocket /\ brain[b].dialing = "none"
        /\ brain[b].opening # NoSocket => brain[b].dialing = "none"
    /\ \A s \in Socket : socket[s].state = "open" => brain[socket[s].of].channel = s

(* What the machine shows of a brain is so: a turn, a session, an attempt  *)
(* to open one, and a stop is kept only for a turn that will take it.  The *)
(* brain being shown is dialed for whenever it holds no session, until one *)
(* stands or the service refuses it (the doc of the class): no chain of    *)
(* failures, stops and lost sessions leaves it stranded.                   *)
StatusTruthful ==
    ~stood => \A b \in Brain : LET q == brain[b] IN
        /\ Running(q) <=> q.turn.at # "none"
        /\ q.status = "ready" <=> q.turn.at = "none" /\ q.channel # NoSocket
        /\ q.status = "connecting" => q.turn.at = "none" /\ q.opening # NoSocket
        /\ q.turn.at = "opening" => q.opening = q.turn.on
        /\ q.stopping => q.turn.at # "none"
        /\ shown = b => \/ q.channel # NoSocket \/ q.opening # NoSocket \/ q.dialing # "none"
                        \/ q.refused \/ q.turn.at # "none"

(* The words of every brain are handled as the specification AskQueue      *)
(* promises, by a machine that loses, reopens and gives up sessions under  *)
(* them: its initial state is one of AskQueue's, and each of its steps is  *)
(* one of AskQueue's or leaves the queues alone.                           *)
Queue == INSTANCE AskQueue WITH
    running <- [b \in Brain |-> Running(brain[b])],
    waiting <- [b \in Brain |-> brain[b].waiting],
    asked <- [b \in Brain |-> brain[b].asked],
    closed <- stood

QueuePromise == Queue!Spec

(* While its brain stays shown, an ask that waits is put to the service or *)
(* taken back, whatever is lost, unless the service refuses a session.     *)
WaitingIsAsked ==
    \A b \in Brain : \A a \in Ask :
        Waits(brain[b], a) /\ shown = b ~>
            ~Waits(brain[b], a) \/ shown # b \/ brain[b].refused \/ stood
==============================================================================
