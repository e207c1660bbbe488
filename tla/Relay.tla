-------------------------------- MODULE Relay --------------------------------
(***************************************************************************)
(* The session relay (packages/bridge-session/src/relay.ts, class Relay):  *)
(* it pairs connections into sessions, keeps a join code in service for    *)
(* every session with a vacant role, rotates the codes, lets a member bind *)
(* back in with its binding token, and relays messages between the two     *)
(* members of a session.                                                   *)
(*                                                                         *)
(* A timer is the action it runs, enabled while the timer is set.          *)
(* Identifiers of connections and sessions are used again once nothing     *)
(* refers to them.                                                         *)
(***************************************************************************)
EXTENDS Naturals, FiniteSets, Functions

CONSTANTS
    Conn, NoConn,           \* connections
    Kind, KindOf, RoleOf,   \* the kind and the role a connection opens with
    Session, NoSession,     \* identifiers of pairings
    Binding, NoBinding,     \* binding ids, which binding tokens name
    Triplet, Suffixed,      \* join codes: generated, and with a random suffix
    NoCode,
    MessageId               \* ids of messages that ask for a reply

Role == Range(RoleOf)
Code == Triplet \cup Suffixed

ASSUME RelayAssumption ==
    /\ IsFiniteSet(Conn) /\ NoConn \notin Conn
    /\ KindOf \in [Conn -> Kind] /\ DOMAIN RoleOf = Conn
    /\ IsFiniteSet(Session) /\ NoSession \notin Session
    /\ NoBinding \notin Binding
    /\ Triplet \cap Suffixed = {} /\ NoCode \notin Code

VARIABLES
    status,     \* of a connection: "absent", "open", or "closing" until closed() is reported
    bound,      \* Member.pairing
    told,       \* the news of its session last sent on a connection
    watched,    \* whether Member.activityCheck is set
    awaiting,   \* Member.awaitingReply
    pairing,    \* the pairings by session id
    retired,    \* join codes in quarantine
    rotating,   \* whether the rotation timer is set
    grace       \* whether the grace timer is set

connVars == <<status, bound, told, watched, awaiting>>
codeVars == <<retired, rotating, grace>>
vars == <<connVars, pairing, codeVars>>

Nothing == [news |-> "nothing"]
JoinCode(x) == [news |-> "joinCode", code |-> x]
Welcome(p) == [news |-> "welcome", session |-> p]

Closed == [live |-> FALSE]

Pairing ==
    [live : {TRUE}, kind : Kind, binding : Binding,
     code : Code \cup {NoCode}, previous : Code \cup {NoCode},
     members : [Role -> Conn \cup {NoConn}], lingering : SUBSET Role, expiry : BOOLEAN]

TypeOK ==
    /\ status \in [Conn -> {"absent", "open", "closing"}]
    /\ bound \in [Conn -> Session \cup {NoSession}]
    /\ told \in [Conn -> {Nothing} \cup {JoinCode(x) : x \in Code} \cup {Welcome(p) : p \in Session}]
    /\ watched \in [Conn -> BOOLEAN]
    /\ awaiting \in [Conn -> SUBSET MessageId]
    /\ pairing \in [Session -> {Closed} \cup Pairing]
    /\ retired \subseteq Code
    /\ rotating \in BOOLEAN /\ grace \in BOOLEAN

Init ==
    /\ status = [c \in Conn |-> "absent"]
    /\ bound = [c \in Conn |-> NoSession]
    /\ told = [c \in Conn |-> Nothing]
    /\ watched = [c \in Conn |-> FALSE]
    /\ awaiting = [c \in Conn |-> {}]
    /\ pairing = [p \in Session |-> Closed]
    /\ retired = {} /\ rotating = FALSE /\ grace = FALSE

-----------------------------------------------------------------------------

Live == {p \in Session : pairing[p].live}
Members(p) == Range(pairing[p].members) \ {NoConn}
Peers(c) == IF bound[c] = NoSession THEN {} ELSE Members(bound[c]) \ {c}

(* The codes that join a pairing.                                          *)
Codes(q) == {q.code, q.previous} \ {NoCode}

BothBound(q) == Cardinality(Range(q.members) \ {NoConn}) = 2

InService(k) == UNION {Codes(pairing[p]) : p \in {s \in Live : pairing[s].kind = k}}

(* mintJoinCode, when the codes of out cannot be minted: a free triplet    *)
(* or, since the attempts may all have met triplets that are not free, one *)
(* with a random suffix, taken not to repeat.                              *)
Mintable(k, out) ==
    LET taken == out \cup InService(k)
    IN  (IF Triplet \cap taken = {} THEN Triplet ELSE Code) \ taken

(* connect                                                                 *)
Connect(c) ==
    /\ status[c] = "absent"
    /\ status' = [status EXCEPT ![c] = "open"]
    /\ watched' = [watched EXCEPT ![c] = TRUE]
    /\ UNCHANGED <<bound, told, awaiting, pairing, codeVars>>

(* A hello that declares another protocol version or presents a join code  *)
(* that opens no vacant role is refused.                                   *)
Refuse(c) ==
    /\ status[c] = "open" /\ bound[c] = NoSession
    /\ status' = [status EXCEPT ![c] = "closing"]
    /\ UNCHANGED <<bound, told, watched, awaiting, pairing, codeVars>>

(* Mutant: a superseded connection still belongs to the pairing.           *)
DisplacedStays(d) == bound

(* displace                                                                *)
Displaced(d) == [c \in Conn |-> IF c = d THEN NoSession ELSE bound[c]]

ClosesDisplaced(d) == [m \in Conn |-> IF m = d THEN "closing" ELSE status[m]]

(* Mutant: only the new member is welcomed.                                *)
NewsOfNewcomer(p, q, c) ==
    [m \in Conn |-> IF m # c THEN told[m]
                    ELSE IF BothBound(q) THEN Welcome(p) ELSE JoinCode(q.code)]

(* What a member c that binds into q as p makes the members hear.          *)
NewsOf(p, q, c) ==
    [m \in Conn |-> IF m \in Range(q.members) /\ BothBound(q) THEN Welcome(p)
                    ELSE IF m = c THEN JoinCode(q.code)
                    ELSE IF m \notin Range(q.members) /\ bound[m] = p THEN Nothing
                    ELSE told[m]]

(* Mutant: the codes of a pairing with both roles bound stay in service.   *)
CodesKept(q) == q

(* A pairing both of whose roles are bound has no code.                    *)
CodesAfter(q) ==
    IF BothBound(q)
    THEN [q EXCEPT !.code = NoCode, !.previous = NoCode] ELSE q

Seat(q, c) ==
    [q EXCEPT !.members[RoleOf[c]] = c, !.lingering = @ \ {RoleOf[c]}, !.expiry = FALSE]

(* The rest of hello: c binds into pairing p, given as q, in its role, and *)
(* supersedes the connection that holds it.                                *)
Bind(c, p, q) ==
    LET d == q.members[RoleOf[c]]
        seated == Seat(q, c)
    IN  /\ pairing' = [pairing EXCEPT ![p] = CodesAfter(seated)]
        /\ retired' = retired \cup (Codes(seated) \ Codes(CodesAfter(seated)))
        /\ bound' = [Displaced(d) EXCEPT ![c] = p]
        /\ status' = ClosesDisplaced(d)
        /\ told' = NewsOf(p, seated, c)
        /\ UNCHANGED <<watched, awaiting, grace>>

HasRoom(q) == Cardinality(Range(q.members) \ {NoConn}) < 2

(* A hello that joins a pairing: by a join code, if the role is vacant or  *)
(* the hello also presents the pairing's token, or by the token alone.  A  *)
(* third role is refused without effect.                                   *)
Join(c, p, code, b) ==
    LET q == pairing[p]
        vacant == q.members[RoleOf[c]] = NoConn
    IN  /\ status[c] = "open" /\ bound[c] = NoSession
        /\ p \in Live /\ q.kind = KindOf[c]
        /\ IF code # NoCode THEN code \in Codes(q) /\ (vacant \/ b = q.binding)
                            ELSE b = q.binding
        /\ vacant => HasRoom(q)
        /\ Bind(c, p, q)
        /\ UNCHANGED rotating

(* A hello without a join code opens a pairing: under the binding its      *)
(* token names, when no pairing has that binding, or under a new one.      *)
Open(c, p, b, code) ==
    /\ status[c] = "open" /\ bound[c] = NoSession
    /\ p \notin Live
    /\ \A s \in Live : pairing[s].kind = KindOf[c] => pairing[s].binding # b
    /\ code \in Mintable(KindOf[c], retired)
    /\ Bind(c, p, [live |-> TRUE, kind |-> KindOf[c], binding |-> b,
                   code |-> code, previous |-> NoCode,
                   members |-> [r \in Role |-> NoConn], lingering |-> {}, expiry |-> FALSE])
    /\ rotating' = TRUE

-----------------------------------------------------------------------------
(* Leaving.                                                                *)

(* leave: the role of c lingers, and the code that opens it is new.  The   *)
(* member that stays is sent the code, after session:counterpartAway.      *)
Leave(c) ==
    LET p == bound[c]
        q == pairing[p]
        stay == Members(p) \ {c}
    IN  IF p = NoSession
        THEN UNCHANGED <<bound, told, pairing, retired>>
        ELSE \E code \in Mintable(KindOf[c], retired \cup Codes(q)) :
                /\ pairing' = [pairing EXCEPT ![p] =
                      [q EXCEPT !.members[RoleOf[c]] = NoConn,
                                !.lingering = @ \cup {RoleOf[c]},
                                !.code = code, !.previous = NoCode,
                                !.expiry = (stay = {})]]
                /\ retired' = retired \cup Codes(q)
                /\ bound' = [bound EXCEPT ![c] = NoSession]
                /\ told' = [m \in Conn |-> IF m = c THEN Nothing
                                           ELSE IF m \in stay THEN JoinCode(code) ELSE told[m]]

(* The transport reports that the connection has closed.                   *)
ClosedReported(c) ==
    /\ status[c] # "absent"
    /\ Leave(c)
    /\ status' = [status EXCEPT ![c] = "absent"]
    /\ watched' = [watched EXCEPT ![c] = FALSE]
    /\ awaiting' = [awaiting EXCEPT ![c] = {}]
    /\ UNCHANGED <<rotating, grace>>

(* The activity check finds that the connection has sent nothing.          *)
ActivityTimeout(c) ==
    /\ watched[c]
    /\ Leave(c)
    /\ status' = [status EXCEPT ![c] = "closing"]
    /\ watched' = [watched EXCEPT ![c] = FALSE]
    /\ UNCHANGED <<awaiting, rotating, grace>>

DisconnectMember(c) ==
    /\ bound[c] # NoSession
    /\ status' = [status EXCEPT ![c] = "closing"]
    /\ UNCHANGED <<bound, told, watched, awaiting, pairing, codeVars>>

(* stopRotating, when p was the last pairing.                              *)
RotateWhileLive(p) ==
    /\ rotating' = (rotating /\ Live # {p})
    /\ grace' = (grace /\ Live # {p})

(* end                                                                     *)
End(p) ==
    /\ pairing' = [pairing EXCEPT ![p] = Closed]
    /\ retired' = retired \cup Codes(pairing[p])
    /\ RotateWhileLive(p)

Expire(p) ==
    /\ p \in Live /\ pairing[p].expiry
    /\ End(p)
    /\ UNCHANGED connVars

(* terminate, for session:goodbye of a member or by endSession.            *)
Terminate(p) ==
    /\ p \in Live
    /\ End(p)
    /\ bound' = [m \in Conn |-> IF m \in Members(p) THEN NoSession ELSE bound[m]]
    /\ status' = [m \in Conn |-> IF m \in Members(p) THEN "closing" ELSE status[m]]
    /\ told' = [m \in Conn |-> IF m \in Members(p) THEN Nothing ELSE told[m]]
    /\ UNCHANGED <<watched, awaiting>>

-----------------------------------------------------------------------------
(* Join codes.                                                             *)

Previous == {pairing[p].previous : p \in Live} \ {NoCode}
Holding == {p \in Live : pairing[p].code # NoCode}

(* Mutant: the members are sent the code that was replaced before.         *)
NewsOfRotationStale(new) ==
    [m \in Conn |-> IF bound[m] \in Holding THEN JoinCode(pairing[bound[m]].previous) ELSE told[m]]

NewsOfRotation(new) ==
    [m \in Conn |-> IF bound[m] \in Holding THEN JoinCode(new[bound[m]]) ELSE told[m]]

(* rotate: the grace of the last rotation ends, and every code in service  *)
(* is replaced.                                                            *)
Rotate ==
    /\ rotating
    /\ \E new \in [Holding -> Code] :
          /\ \A p \in Holding :
                new[p] \in Mintable(pairing[p].kind, retired \cup Previous \cup
                    {new[s] : s \in {s \in Holding \ {p} : pairing[s].kind = pairing[p].kind}})
          /\ pairing' = [p \in Session |->
                IF p \in Holding
                THEN [pairing[p] EXCEPT !.previous = pairing[p].code, !.code = new[p]]
                ELSE pairing[p]]
          /\ told' = NewsOfRotation(new)
    /\ retired' = retired \cup Previous
    /\ grace' = TRUE
    /\ UNCHANGED <<status, bound, watched, awaiting, rotating>>

EndGrace ==
    /\ grace
    /\ grace' = FALSE
    /\ retired' = retired \cup Previous
    /\ pairing' = [p \in Session |-> IF p \in Live THEN [pairing[p] EXCEPT !.previous = NoCode]
                                                    ELSE pairing[p]]
    /\ UNCHANGED <<connVars, rotating>>

(* The quarantine of a retired code is over.                               *)
QuarantineEnds(x) ==
    /\ x \in retired
    /\ retired' = retired \ {x}
    /\ UNCHANGED <<connVars, pairing, rotating, grace>>

(* dispose, which is called once the connections are closed.               *)
Dispose ==
    /\ \A c \in Conn : status[c] = "absent"
    /\ pairing' = [p \in Session |-> Closed]
    /\ retired' = {} /\ rotating' = FALSE /\ grace' = FALSE
    /\ UNCHANGED connVars

-----------------------------------------------------------------------------
(* Messages that ask for a reply, forwarded verbatim.                      *)

Request(c, id) ==
    /\ status[c] = "open" /\ id \notin awaiting[c]
    /\ \E peer \in Peers(c) : awaiting' = [awaiting EXCEPT ![peer] = @ \cup {id}]
    /\ UNCHANGED <<status, bound, told, watched, pairing, codeVars>>

(* takeReply: whatever message of c carries the id goes to its peer.       *)
Reply(c, id) ==
    /\ status[c] = "open" /\ id \in awaiting[c]
    /\ awaiting' = [awaiting EXCEPT ![c] = @ \ {id}]
    /\ UNCHANGED <<status, bound, told, watched, pairing, codeVars>>

ReplyDeadline(c, id) ==
    /\ id \in awaiting[c]
    /\ awaiting' = [awaiting EXCEPT ![c] = @ \ {id}]
    /\ UNCHANGED <<status, bound, told, watched, pairing, codeVars>>

-----------------------------------------------------------------------------

Next ==
    \/ \E c \in Conn :
          \/ Connect(c) \/ Refuse(c)
          \/ \E p \in Session, b \in Binding, code \in Code : Open(c, p, b, code)
          \/ \E p \in Session, code \in Code \cup {NoCode}, b \in Binding \cup {NoBinding} :
                Join(c, p, code, b)
          \/ ClosedReported(c) \/ ActivityTimeout(c) \/ DisconnectMember(c)
          \/ \E id \in MessageId : Request(c, id) \/ Reply(c, id) \/ ReplyDeadline(c, id)
    \/ \E p \in Session : Expire(p) \/ Terminate(p)
    \/ Rotate \/ EndGrace \/ Dispose
    \/ \E x \in Code : QuarantineEnds(x)

Spec == Init /\ [][Next]_vars

-----------------------------------------------------------------------------
(* Properties.                                                             *)

(* The two records of a membership agree: a connection is bound to the     *)
(* live pairing that has it in its role, and no pairing names a connection *)
(* that is gone, whatever superseded, timed out or closed in between.  A   *)
(* message is taken for a reply only from a member of the session that the *)
(* request was sent in: none is awaited from a connection that has yet to  *)
(* say hello, or whose hello was refused a role.                           *)
MembershipAgrees ==
    /\ \A c \in Conn : bound[c] # NoSession =>
          /\ bound[c] \in Live
          /\ pairing[bound[c]].members[RoleOf[c]] = c
          /\ pairing[bound[c]].kind = KindOf[c]
    /\ \A p \in Live : \A c \in Members(p) : bound[c] = p /\ status[c] # "absent"
    /\ \A p \in Live : Cardinality(Members(p)) <= 2
    /\ \A c \in Conn : status[c] = "open" /\ bound[c] = NoSession => awaiting[c] = {}

(* What a vacancy calls for is there, and gone when it is filled: a join   *)
(* code is in service exactly while its pairing has a vacant role, and the *)
(* code it replaced only while the grace lasts; it opens one pairing of    *)
(* its kind, and a binding names one.  The linger timer is set exactly for *)
(* the pairings without a member, and the rotation timer exactly while     *)
(* there is a pairing.                                                     *)
VacanciesKept ==
    /\ \A p \in Live :
        /\ pairing[p].expiry <=> Members(p) = {}
        /\ pairing[p].code # NoCode <=> Cardinality(Members(p)) < 2
        /\ pairing[p].previous # NoCode => pairing[p].code # NoCode /\ grace
    /\ \A p, s \in Live :
        p # s /\ pairing[p].kind = pairing[s].kind =>
            /\ Codes(pairing[p]) \cap Codes(pairing[s]) = {}
            /\ pairing[p].binding # pairing[s].binding
    /\ rotating <=> Live # {}
    /\ grace => rotating

(* What a member was last told is what holds: both members of a connected  *)
(* session were welcomed to it, and a member alone holds the code that     *)
(* opens the other role now.                                               *)
MembersInformed ==
    \A p \in Live : \A c \in Members(p) :
        told[c] = IF Cardinality(Members(p)) = 2 THEN Welcome(p) ELSE JoinCode(pairing[p].code)

=============================================================================
