----------------------------- MODULE RelayProofs -----------------------------
(***************************************************************************)
(* Invariants of the session relay, for any finite set of connections, any *)
(* kinds, roles, bindings and join codes.                                  *)
(***************************************************************************)
EXTENDS Relay, FiniteSetTheorems, TLAPS

-----------------------------------------------------------------------------
(* What is known of a live pairing p, given as the record q: the           *)
(* connections in its roles are bound to it, they are two at most, its     *)
(* codes and timers are those its vacancies call for, and its members have *)
(* been told so.                                                           *)

Sitting(q) == Range(q.members) \ {NoConn}

Seated(p, q) ==
    \A r \in Role : q.members[r] # NoConn =>
        /\ RoleOf[q.members[r]] = r
        /\ bound[q.members[r]] = p
        /\ status[q.members[r]] # "absent"

Few(q) == Cardinality(Sitting(q)) <= 2

Advertised(q) ==
    /\ q.expiry <=> Sitting(q) = {}
    /\ q.code # NoCode <=> Cardinality(Sitting(q)) < 2
    /\ q.previous # NoCode => q.code # NoCode /\ grace

Informed(p, q) ==
    \A m \in Sitting(q) :
        told[m] = IF Cardinality(Sitting(q)) = 2 THEN Welcome(p) ELSE JoinCode(q.code)

PairOK(p, q) == Seated(p, q) /\ Few(q) /\ Advertised(q) /\ Informed(p, q)

Pairs == \A p \in Live : PairOK(p, pairing[p])

(* What is known of a connection: the pairing it is bound to has it in its *)
(* role, and no reply is awaited from one that is not in a session.        *)
BoundOK(c) ==
    bound[c] # NoSession =>
        /\ bound[c] \in Live
        /\ pairing[bound[c]].members[RoleOf[c]] = c
        /\ pairing[bound[c]].kind = KindOf[c]

AwaitOK(c) ==
    /\ status[c] = "open" /\ bound[c] = NoSession => awaiting[c] = {}
    /\ status[c] = "absent" => awaiting[c] = {}

Conns == \A c \in Conn : BoundOK(c) /\ AwaitOK(c)

Clash(q, r) ==
    q.kind = r.kind /\ (Codes(q) \cap Codes(r) # {} \/ q.binding = r.binding)

Apart == \A p, s \in Live : p # s => ~Clash(pairing[p], pairing[s])

Timers == (rotating <=> Live # {}) /\ (grace => rotating)

RelayInv == TypeOK /\ Pairs /\ Conns /\ Apart /\ Timers

-----------------------------------------------------------------------------
LEMMA Basics ==
    /\ NoConn \notin Conn /\ NoSession \notin Session /\ NoCode \notin Code
    /\ \A c \in Conn : RoleOf[c] \in Role /\ KindOf[c] \in Kind
    /\ IsFiniteSet(Conn)
BY RelayAssumption DEF Role, Code, Range

LEMMA PairingFields ==
    ASSUME NEW q \in Pairing
    PROVE  /\ q.live = TRUE /\ q.kind \in Kind /\ q.binding \in Binding
           /\ q.code \in Code \cup {NoCode} /\ q.previous \in Code \cup {NoCode}
           /\ q.members \in [Role -> Conn \cup {NoConn}]
           /\ q.lingering \subseteq Role /\ q.expiry \in BOOLEAN
BY DEF Pairing

LEMMA LiveTyped ==
    ASSUME TypeOK, NEW p \in Session
    PROVE  /\ p \in Live <=> pairing[p] \in Pairing
           /\ p \notin Live <=> pairing[p] = Closed
<1>1. Closed.live = FALSE
  BY DEF Closed
<1>2. \A q \in Pairing : q.live = TRUE
  BY DEF Pairing
<1>3. p \in Live <=> pairing[p].live
  BY DEF Live
<1>4. pairing[p] = Closed \/ pairing[p] \in Pairing
  BY DEF TypeOK
<1> QED
  BY <1>1, <1>2, <1>3, <1>4

LEMMA SittingIs ==
    ASSUME NEW q \in Pairing
    PROVE  /\ Sitting(q) \subseteq Conn /\ IsFiniteSet(Sitting(q))
           /\ Cardinality(Sitting(q)) \in Nat
           /\ Sitting(q) = {q.members[r] : r \in Role} \ {NoConn}
           /\ \A m \in Sitting(q) : \E r \in Role : q.members[r] = m /\ m # NoConn /\ m \in Conn
           /\ \A r \in Role : q.members[r] # NoConn => q.members[r] \in Sitting(q)
<1>1. q.members \in [Role -> Conn \cup {NoConn}]
  BY DEF Pairing
<1>2. Sitting(q) = {q.members[r] : r \in Role} \ {NoConn}
  BY <1>1 DEF Sitting, Range
<1>3. Sitting(q) \subseteq Conn
  BY <1>1, <1>2
<1>4. IsFiniteSet(Sitting(q)) /\ Cardinality(Sitting(q)) \in Nat
  BY <1>3, Basics, FS_Subset, FS_CardinalityType
<1> QED
  BY <1>1, <1>2, <1>3, <1>4

(* The members of a pairing, by the records of the relay.                  *)
LEMMA MembersSit ==
    ASSUME TypeOK, NEW p \in Live
    PROVE  pairing[p] \in Pairing /\ Members(p) = Sitting(pairing[p])
BY LiveTyped DEF Live, Members, Sitting

(* A connection that is bound to a pairing sits in it, and the other way   *)
(* round.                                                                  *)
LEMMA SitsBound ==
    ASSUME RelayInv, NEW p \in Live, NEW m \in Conn
    PROVE  m \in Sitting(pairing[p]) <=> bound[m] = p
<1>1. p \in Session /\ p # NoSession /\ pairing[p] \in Pairing
  BY Basics, MembersSit DEF Live, RelayInv
<1>2. ASSUME m \in Sitting(pairing[p])
      PROVE  bound[m] = p
  BY <1>1, <1>2, SittingIs DEF RelayInv, Pairs, PairOK, Seated
<1>3. ASSUME bound[m] = p
      PROVE  m \in Sitting(pairing[p])
  <2>1. pairing[p].members[RoleOf[m]] = m
    BY <1>1, <1>3 DEF RelayInv, Conns, BoundOK
  <2> QED
    BY <1>1, <2>1, SittingIs, Basics
<1> QED
  BY <1>2, <1>3

LEMMA InitRelay == Init => RelayInv
<1> SUFFICES ASSUME Init
             PROVE  RelayInv
  OBVIOUS
<1>1. Live = {}
  BY DEF Init, Live, Closed
<1>2. TypeOK
  BY DEF Init, TypeOK
<1>3. Pairs /\ Apart /\ Timers
  BY <1>1 DEF Init, Pairs, Apart, Timers
<1>4. Conns
  BY DEF Init, Conns, BoundOK, AwaitOK
<1> QED
  BY <1>2, <1>3, <1>4 DEF RelayInv

(* A pairing that a step leaves alone, with its members.                   *)
LEMMA PairApart ==
    ASSUME RelayInv, NEW s \in Live,
           \A m \in Conn : bound[m] = s =>
              bound'[m] = s /\ (status'[m] = "absent" => status[m] = "absent") /\ told'[m] = told[m],
           grace => grace'
    PROVE  PairOK(s, pairing[s]) /\ \A q : q = pairing[s] => PairOK(s, q)'
<1>1. PairOK(s, pairing[s])
  BY DEF RelayInv, Pairs
<1>2. pairing[s] \in Pairing /\ \A m \in Sitting(pairing[s]) : m \in Conn /\ bound[m] = s
  BY MembersSit, SittingIs, SitsBound DEF RelayInv
<1> SUFFICES ASSUME NEW q, q = pairing[s]
             PROVE  PairOK(s, q)'
  BY <1>1
<1>3. Seated(s, q)'
  BY <1>1, <1>2, SittingIs DEF PairOK, Seated
<1>4. Few(q)' /\ Advertised(q)'
  BY <1>1 DEF PairOK, Few, Advertised
<1>5. Informed(s, q)'
  BY <1>1, <1>2 DEF PairOK, Informed
<1> QED
  BY <1>3, <1>4, <1>5 DEF PairOK

(* A step that concerns no pairing.                                        *)
LEMMA RelayApart ==
    ASSUME RelayInv, TypeOK', UNCHANGED <<bound, told, pairing, rotating, grace>>,
           \A c \in Conn : bound[c] # NoSession /\ status'[c] = "absent" => status[c] = "absent",
           \A c \in Conn : AwaitOK(c)'
    PROVE  RelayInv'
<1>1. Live' = Live
  BY DEF Live
<1>2. Pairs'
  <2> SUFFICES ASSUME NEW s \in Live
               PROVE  PairOK(s, pairing[s])'
    BY <1>1 DEF Pairs
  <2>1. s # NoSession
    BY Basics DEF Live
  <2> QED
    BY <2>1, PairApart
<1>3. Conns'
  BY <1>1 DEF RelayInv, Conns, BoundOK
<1>4. Apart' /\ Timers'
  BY <1>1 DEF RelayInv, Apart, Timers
<1> QED
  BY <1>2, <1>3, <1>4 DEF RelayInv

LEMMA ConnectKeeps ==
    ASSUME RelayInv, NEW c \in Conn, Connect(c) \/ Refuse(c) \/ DisconnectMember(c)
    PROVE  RelayInv'
<1>1. /\ status' \in {[status EXCEPT ![c] = "open"], [status EXCEPT ![c] = "closing"]}
      /\ watched' \in {watched, [watched EXCEPT ![c] = TRUE]}
      /\ UNCHANGED <<bound, told, awaiting, pairing, retired, rotating, grace>>
  BY DEF Connect, Refuse, DisconnectMember, codeVars
<1>2. TypeOK'
  BY <1>1 DEF RelayInv, TypeOK
<1>3. \A m \in Conn : status'[m] = "absent" => status[m] = "absent"
  BY <1>1 DEF RelayInv, TypeOK
<1>4. status'[c] = "open" => status[c] = "absent"
  BY <1>1 DEF RelayInv, TypeOK, Connect, Refuse, DisconnectMember
<1>5. \A m \in Conn : AwaitOK(m)'
  BY <1>1, <1>3, <1>4 DEF RelayInv, TypeOK, Conns, AwaitOK
<1> QED
  BY <1>1, <1>2, <1>3, <1>5, RelayApart

LEMMA RequestKeeps ==
    ASSUME RelayInv, NEW c \in Conn, NEW id \in MessageId,
           Request(c, id) \/ Reply(c, id) \/ ReplyDeadline(c, id)
    PROVE  RelayInv'
<1>1. UNCHANGED <<status, bound, told, watched, pairing, retired, rotating, grace>>
  BY DEF Request, Reply, ReplyDeadline, codeVars
<1>2. ASSUME NEW peer \in Peers(c)
      PROVE  peer \in Conn /\ bound[peer] # NoSession /\ status[peer] # "absent"
  <2>1. bound[c] # NoSession /\ peer \in Members(bound[c])
    BY <1>2 DEF Peers
  <2>2. bound[c] \in Live /\ bound[c] # NoSession
    BY <2>1 DEF RelayInv, Conns, BoundOK
  <2>3. pairing[bound[c]] \in Pairing /\ peer \in Sitting(pairing[bound[c]])
    BY <2>1, <2>2, MembersSit DEF RelayInv
  <2> QED
    BY <2>2, <2>3, SittingIs DEF RelayInv, Pairs, PairOK, Seated
<1>3. \/ \E peer \in Peers(c) : awaiting' = [awaiting EXCEPT ![peer] = @ \cup {id}]
      \/ awaiting' = [awaiting EXCEPT ![c] = @ \ {id}]
  BY DEF Request, Reply, ReplyDeadline
<1>4. CASE awaiting' = [awaiting EXCEPT ![c] = @ \ {id}]
  <2>1. TypeOK'
    BY <1>1, <1>4 DEF RelayInv, TypeOK
  <2>2. \A m \in Conn : AwaitOK(m)'
    BY <1>1, <1>4 DEF RelayInv, TypeOK, Conns, AwaitOK
  <2> QED
    BY <1>1, <2>1, <2>2, RelayApart
<1>5. ASSUME NEW peer \in Peers(c), awaiting' = [awaiting EXCEPT ![peer] = @ \cup {id}]
      PROVE  RelayInv'
  <2>1. TypeOK'
    BY <1>1, <1>2, <1>5 DEF RelayInv, TypeOK
  <2>2. \A m \in Conn : AwaitOK(m)'
    BY <1>1, <1>2, <1>5 DEF RelayInv, TypeOK, Conns, AwaitOK
  <2> QED
    BY <1>1, <2>1, <2>2, RelayApart
<1> QED
  BY <1>3, <1>4, <1>5

LEMMA QuarantineKeeps ==
    ASSUME RelayInv, NEW x \in Code, QuarantineEnds(x)
    PROVE  RelayInv'
<1>1. retired' \subseteq retired /\ UNCHANGED <<status, bound, told, watched, awaiting, pairing, rotating, grace>>
  BY DEF QuarantineEnds, connVars
<1>2. TypeOK'
  BY <1>1 DEF RelayInv, TypeOK
<1>3. \A m \in Conn : AwaitOK(m)'
  BY <1>1 DEF RelayInv, Conns, AwaitOK
<1> QED
  BY <1>1, <1>2, <1>3, RelayApart

-----------------------------------------------------------------------------
(* hello.  Connection c takes its role in pairing p, given as q: one that  *)
(* is live and has the role vacant or taken by another connection, or one  *)
(* that is new and empty.                                                  *)

Joinable(c, p, q) ==
    /\ q \in Pairing /\ q.kind = KindOf[c]
    /\ Seated(p, q) /\ Few(q)
    /\ Cardinality(Sitting(q)) < 2 => q.code # NoCode
    /\ q.previous # NoCode => grace
    /\ q.members[RoleOf[c]] = NoConn => HasRoom(q)
    /\ \A m \in Conn : bound[m] = p => q.members[RoleOf[m]] = m /\ q.kind = KindOf[m]
    /\ \A s \in Live \ {p} : ~Clash(q, pairing[s])

LEMMA SeatIs ==
    ASSUME NEW q \in Pairing, NEW c \in Conn
    PROVE  /\ Seat(q, c) \in Pairing
           /\ Seat(q, c).members = [q.members EXCEPT ![RoleOf[c]] = c]
           /\ Seat(q, c).kind = q.kind /\ Seat(q, c).binding = q.binding
           /\ Seat(q, c).code = q.code /\ Seat(q, c).previous = q.previous
           /\ Seat(q, c).expiry = FALSE
BY Basics DEF Seat, Pairing

LEMMA CodesAfterIs ==
    ASSUME NEW q \in Pairing
    PROVE  /\ CodesAfter(q) \in Pairing
           /\ CodesAfter(q).members = q.members
           /\ CodesAfter(q).kind = q.kind /\ CodesAfter(q).binding = q.binding
           /\ CodesAfter(q).expiry = q.expiry
           /\ CodesAfter(q).code = IF BothBound(q) THEN NoCode ELSE q.code
           /\ CodesAfter(q).previous = IF BothBound(q) THEN NoCode ELSE q.previous
BY DEF CodesAfter, Pairing

(* The members after c has taken the place of d, or a vacant one.          *)
LEMMA SeatSits ==
    ASSUME NEW p, NEW q \in Pairing, NEW c \in Conn, Seated(p, q), Few(q), bound[c] # p,
           q.members[RoleOf[c]] = NoConn => HasRoom(q)
    PROVE  LET d == q.members[RoleOf[c]]
               n == Sitting(Seat(q, c))
           IN  /\ c \in n /\ Cardinality(n) \in {1, 2}
               /\ n = (Sitting(q) \ {d}) \cup {c} /\ c \notin Sitting(q)
               /\ d # NoConn => d \in Sitting(q) /\ d \in Conn /\ d # c
               /\ Cardinality(n) = 1 => n = {c} /\ Cardinality(Sitting(q)) < 2
<1> DEFINE d == q.members[RoleOf[c]]
           n == Sitting(Seat(q, c))
<1>1. /\ RoleOf[c] \in Role /\ NoConn \notin Conn
      /\ q.members \in [Role -> Conn \cup {NoConn}]
  BY Basics, PairingFields
<1>2. c \notin Sitting(q)
  BY SittingIs DEF Seated
<1>3. d # NoConn => d \in Sitting(q) /\ d \in Conn /\ d # c
  BY <1>1, <1>2, SittingIs
<1>4. n = {[q.members EXCEPT ![RoleOf[c]] = c][r] : r \in Role} \ {NoConn}
  <2> DEFINE k == Seat(q, c)
  <2>1. k \in Pairing /\ k.members = [q.members EXCEPT ![RoleOf[c]] = c]
    BY SeatIs
  <2> HIDE DEF k
  <2>2. Sitting(k) = {k.members[r] : r \in Role} \ {NoConn}
    BY <2>1, SittingIs
  <2>3. Sitting(k) = {[q.members EXCEPT ![RoleOf[c]] = c][r] : r \in Role} \ {NoConn}
    BY <2>1, <2>2
  <2> QED
    BY <2>3 DEF k
<1>5. \A r \in Role : r # RoleOf[c] /\ q.members[r] # NoConn => q.members[r] # d
  BY <1>1 DEF Seated
<1>6. n = (Sitting(q) \ {d}) \cup {c}
  BY <1>1, <1>4, <1>5, SittingIs
<1>7. IsFiniteSet(Sitting(q)) /\ Cardinality(Sitting(q)) \in Nat /\ Cardinality(Sitting(q)) <= 2
  BY SittingIs DEF Few
<1> HIDE DEF n
<1>8. CASE d = NoConn
  <2>1. n = Sitting(q) \cup {c}
    BY <1>6, <1>8, SittingIs, Basics
  <2>2. Cardinality(n) = Cardinality(Sitting(q)) + 1 /\ Cardinality(Sitting(q)) < 2
    BY <1>2, <1>7, <1>8, <2>1, FS_AddElement DEF HasRoom, Sitting
  <2>3. Cardinality(n) = 1 => Sitting(q) = {}
    BY <1>7, <2>2, FS_EmptySet
  <2> QED
    BY <1>2, <1>3, <1>6, <1>7, <2>1, <2>2, <2>3 DEF n
<1>9. CASE d # NoConn
  <2> DEFINE rest == Sitting(q) \ {d}
  <2>1. IsFiniteSet(rest) /\ Cardinality(rest) = Cardinality(Sitting(q)) - 1
    BY <1>3, <1>7, <1>9, FS_RemoveElement
  <2>5. n = rest \cup {c} /\ c \notin rest
    BY <1>2, <1>6
  <2>2. Cardinality(n) = Cardinality(Sitting(q))
    <3> HIDE DEF rest
    <3>1. Cardinality(rest \cup {c}) = Cardinality(rest) + 1
      BY <2>1, <2>5, FS_AddElement
    <3> QED
      BY <1>7, <2>1, <2>5, <3>1
  <2>3. Cardinality(Sitting(q)) # 0
    BY <1>3, <1>7, <1>9, FS_EmptySet
  <2>4. Cardinality(n) = 1 => Sitting(q) \ {d} = {}
    BY <1>7, <2>1, <2>2, FS_EmptySet
  <2> QED
    BY <1>2, <1>3, <1>6, <1>7, <2>2, <2>3, <2>4 DEF n
<1> QED
  BY <1>8, <1>9

(* The pairing that c has bound into.                                      *)
LEMMA BindPair ==
    ASSUME RelayInv, NEW c \in Conn, NEW p \in Session, NEW q, Joinable(c, p, q),
           status[c] = "open", bound[c] = NoSession, Bind(c, p, q)
    PROVE  /\ CodesAfter(Seat(q, c)) \in Pairing
           /\ PairOK(p, CodesAfter(Seat(q, c)))'
           /\ ~BothBound(Seat(q, c)) => q.code # NoCode
<1> DEFINE d == q.members[RoleOf[c]]
           seated == Seat(q, c)
           after == CodesAfter(seated)
<1>1. /\ q \in Pairing /\ Seated(p, q) /\ Few(q) /\ p # NoSession
      /\ seated \in Pairing /\ after \in Pairing
      /\ after.members = seated.members /\ after.expiry = FALSE
      /\ seated.code = q.code /\ seated.previous = q.previous
      /\ after.code = IF BothBound(seated) THEN NoCode ELSE q.code
      /\ after.previous = IF BothBound(seated) THEN NoCode ELSE q.previous
  <2>1. q \in Pairing /\ Seated(p, q) /\ Few(q) /\ p # NoSession
    BY Basics DEF Joinable
  <2>2. /\ seated \in Pairing /\ seated.expiry = FALSE
        /\ seated.code = q.code /\ seated.previous = q.previous
    BY <2>1, SeatIs
  <2> HIDE DEF seated
  <2>3. /\ after \in Pairing /\ after.members = seated.members /\ after.expiry = seated.expiry
        /\ after.code = IF BothBound(seated) THEN NoCode ELSE seated.code
        /\ after.previous = IF BothBound(seated) THEN NoCode ELSE seated.previous
    BY <2>2, CodesAfterIs
  <2> HIDE DEF after
  <2> QED
    BY <2>1, <2>2, <2>3
<1>2. /\ c \in Sitting(seated) /\ Cardinality(Sitting(seated)) \in {1, 2}
      /\ Sitting(seated) = (Sitting(q) \ {d}) \cup {c} /\ c \notin Sitting(q)
      /\ d # NoConn => d \in Sitting(q) /\ d \in Conn /\ d # c
      /\ Cardinality(Sitting(seated)) = 1 => Sitting(seated) = {c} /\ Cardinality(Sitting(q)) < 2
  BY <1>1, SeatSits DEF Joinable
<1>3. /\ bound' = [Displaced(d) EXCEPT ![c] = p] /\ status' = ClosesDisplaced(d)
      /\ told' = NewsOf(p, seated, c) /\ grace' = grace
  BY DEF Bind
<1>4. Sitting(after) = Sitting(seated) /\ (BothBound(seated) <=> Cardinality(Sitting(seated)) = 2)
  BY <1>1 DEF Sitting, BothBound
<1> HIDE DEF after
<1>5. Few(after)'
  BY <1>2, <1>4 DEF Few
<1>9. ~BothBound(seated) =>
         Cardinality(Sitting(q)) < 2 /\ Cardinality(Sitting(seated)) = 1 /\ q.code # NoCode
  BY <1>2, <1>4 DEF Joinable
<1>6. Advertised(after)'
  <2>3. q.previous # NoCode => grace
    BY DEF Joinable
  <2>4. after.expiry <=> Sitting(after) = {}
    BY <1>1, <1>2, <1>4
  <2>5. after.code # NoCode <=> Cardinality(Sitting(after)) < 2
    BY <1>1, <1>2, <1>4, <1>9
  <2>6. after.previous # NoCode => after.code # NoCode /\ grace'
    BY <1>1, <1>3, <1>9, <2>3
  <2> QED
    BY <2>4, <2>5, <2>6 DEF Advertised
<1>7. Informed(p, after)'
  <2> SUFFICES ASSUME NEW m \in Sitting(seated)
               PROVE  told'[m] = IF Cardinality(Sitting(seated)) = 2 THEN Welcome(p) ELSE JoinCode(after.code)
    BY <1>4 DEF Informed
  <2>1. m \in Conn /\ m \in Range(seated.members)
    BY <1>1, SittingIs DEF Sitting
  <2>2. CASE BothBound(seated)
    BY <1>3, <1>4, <2>1, <2>2 DEF NewsOf
  <2>3. CASE ~BothBound(seated)
    <3>1. m = c
      BY <1>2, <1>4, <2>3
    <3> QED
      BY <1>1, <1>3, <1>4, <2>1, <2>3, <3>1 DEF NewsOf
  <2> QED
    BY <2>2, <2>3
<1>8. Seated(p, after)'
  <2> SUFFICES ASSUME NEW r \in Role, after.members[r] # NoConn
               PROVE  /\ RoleOf[after.members[r]] = r
                      /\ bound'[after.members[r]] = p
                      /\ status'[after.members[r]] # "absent"
    BY DEF Seated
  <2>1. after.members = [q.members EXCEPT ![RoleOf[c]] = c] /\ RoleOf[c] \in Role
        /\ q.members \in [Role -> Conn \cup {NoConn}]
    <3>1. seated.members = [q.members EXCEPT ![RoleOf[c]] = c]
      BY <1>1, SeatIs
    <3> HIDE DEF seated
    <3> QED
      BY <1>1, <3>1, Basics, PairingFields
  <2>2. CASE r = RoleOf[c]
    BY <1>3, <2>1, <2>2, Basics DEF Displaced, ClosesDisplaced
  <2>3. CASE r # RoleOf[c]
    <3> DEFINE m == q.members[r]
    <3>1. after.members[r] = m /\ m \in Conn /\ RoleOf[m] = r /\ bound[m] = p /\ status[m] # "absent"
      BY <1>1, <2>1, <2>3 DEF Seated
    <3>2. m # c /\ m # d
      BY <1>1, <2>1, <2>3, <3>1, Basics DEF Seated
    <3> QED
      BY <1>3, <3>1, <3>2 DEF Displaced, ClosesDisplaced
  <2> QED
    BY <2>2, <2>3
<1> QED
  BY <1>1, <1>5, <1>6, <1>7, <1>8, <1>9 DEF PairOK, after

(* hello, when c is let into pairing p.                                    *)
LEMMA BindKeeps ==
    ASSUME RelayInv, NEW c \in Conn, NEW p \in Session, NEW q, Joinable(c, p, q),
           status[c] = "open", bound[c] = NoSession, Bind(c, p, q), rotating' = TRUE
    PROVE  RelayInv'
<1> DEFINE d == q.members[RoleOf[c]]
           seated == Seat(q, c)
           after == CodesAfter(seated)
<1>1. /\ after \in Pairing /\ PairOK(p, after)'
      /\ ~BothBound(seated) => q.code # NoCode
  BY BindPair
<1>2. /\ q \in Pairing /\ q.kind = KindOf[c] /\ Seated(p, q) /\ Few(q)
      /\ \A m \in Conn : bound[m] = p => q.members[RoleOf[m]] = m /\ q.kind = KindOf[m]
      /\ \A s \in Live \ {p} : ~Clash(q, pairing[s])
      /\ p # NoSession
  BY Basics DEF Joinable
<1>3. /\ c \in Sitting(seated) /\ Sitting(seated) = (Sitting(q) \ {d}) \cup {c}
      /\ d # NoConn => d \in Sitting(q) /\ d \in Conn /\ d # c
  BY <1>2, SeatSits DEF Joinable
<1>4. /\ seated \in Pairing /\ seated.members = [q.members EXCEPT ![RoleOf[c]] = c]
      /\ seated.kind = q.kind /\ seated.binding = q.binding
      /\ seated.code = q.code /\ seated.previous = q.previous
  BY <1>2, SeatIs
<1>5. /\ pairing' = [pairing EXCEPT ![p] = after]
      /\ retired' = retired \cup (Codes(seated) \ Codes(after))
      /\ bound' = [Displaced(d) EXCEPT ![c] = p] /\ status' = ClosesDisplaced(d)
      /\ told' = NewsOf(p, seated, c) /\ UNCHANGED <<watched, awaiting, grace>>
  BY DEF Bind
<1> HIDE DEF seated
<1>6. /\ after.members = seated.members /\ after.kind = q.kind /\ after.binding = q.binding
      /\ after.code \in {q.code, NoCode} /\ after.previous \in {q.previous, NoCode}
  BY <1>4, CodesAfterIs
<1> HIDE DEF after
<1>7. /\ \A s \in Session : pairing'[s] = IF s = p THEN after ELSE pairing[s]
      /\ \A m \in Conn : bound'[m] = IF m = c THEN p ELSE IF m = d THEN NoSession ELSE bound[m]
      /\ \A m \in Conn : status'[m] = IF m = d THEN "closing" ELSE status[m]
  BY <1>5 DEF RelayInv, TypeOK, Displaced, ClosesDisplaced
<1>8. \A m \in Sitting(q) : m \in Conn /\ bound[m] = p
  BY <1>2, SittingIs DEF Seated
<1>9. Live' = Live \cup {p}
  <2>1. pairing'[p].live /\ \A s \in Session \ {p} : pairing'[s].live <=> pairing[s].live
    BY <1>1, <1>7, PairingFields
  <2> QED
    BY <2>1 DEF Live
<1>10. d # NoConn => bound[d] = p
  BY <1>3, <1>8
<1>11. TypeOK'
  <2>1. Codes(seated) \subseteq Code
    BY <1>4, PairingFields DEF Codes
  <2>2. /\ status' \in [Conn -> {"absent", "open", "closing"}]
        /\ bound' \in [Conn -> Session \cup {NoSession}]
        /\ pairing' \in [Session -> {Closed} \cup Pairing]
    BY <1>1, <1>5 DEF RelayInv, TypeOK, Displaced, ClosesDisplaced
  <2>3. retired' \subseteq Code
    BY <1>5, <2>1 DEF RelayInv, TypeOK
  <2>4. c \in Range(seated.members)
    BY <1>3 DEF Sitting
  <2>5. told' \in [Conn -> {Nothing} \cup {JoinCode(x) : x \in Code} \cup {Welcome(s) : s \in Session}]
    <3> SUFFICES ASSUME NEW m \in Conn
                 PROVE  NewsOf(p, seated, c)[m] \in
                          {Nothing} \cup {JoinCode(x) : x \in Code} \cup {Welcome(s) : s \in Session}
      BY <1>5 DEF NewsOf
    <3>1. ~BothBound(seated) => seated.code \in Code
      BY <1>1, <1>2, <1>4, PairingFields
    <3>2. told[m] \in {Nothing} \cup {JoinCode(x) : x \in Code} \cup {Welcome(s) : s \in Session}
      BY DEF RelayInv, TypeOK
    <3> QED
      BY <2>4, <3>1, <3>2 DEF NewsOf
  <2> QED
    BY <1>5, <2>2, <2>3, <2>5 DEF RelayInv, TypeOK
<1>12. Pairs'
  <2> SUFFICES ASSUME NEW s \in Live, s # p
               PROVE  PairOK(s, pairing[s])'
    BY <1>1, <1>7, <1>9 DEF Pairs, Live
  <2>1. ASSUME NEW m \in Conn, bound[m] = s
        PROVE  bound'[m] = s /\ (status'[m] = "absent" => status[m] = "absent") /\ told'[m] = told[m]
    <3>1. s # NoSession /\ m # c /\ (d # NoConn => m # d) /\ m # NoConn
      BY <1>10, <2>1, Basics DEF Live
    <3>2. m \notin Range(seated.members)
      BY <1>3, <1>8, <2>1, <3>1 DEF Sitting
    <3>3. m # d
      BY <3>1
    <3>4. told'[m] = told[m]
      BY <1>5, <2>1, <3>1, <3>2 DEF NewsOf
    <3> QED
      BY <1>7, <2>1, <3>1, <3>3, <3>4
  <2>2. pairing'[s] = pairing[s]
    BY <1>7 DEF Live
  <2> QED
    BY <1>5, <2>1, <2>2, PairApart
<1>13. ASSUME NEW m \in Conn
       PROVE  BoundOK(m)'
  <2> SUFFICES ASSUME bound'[m] # NoSession
               PROVE  /\ bound'[m] \in Live'
                      /\ pairing'[bound'[m]].members[RoleOf[m]] = m
                      /\ pairing'[bound'[m]].kind = KindOf[m]
    BY DEF BoundOK
  <2>1. q.members \in [Role -> Conn \cup {NoConn}] /\ RoleOf[m] \in Role /\ RoleOf[c] \in Role
    BY <1>2, Basics, PairingFields
  <2>2. CASE m = c
    BY <1>2, <1>4, <1>6, <1>7, <1>9, <2>1, <2>2
  <2>3. CASE m # c /\ bound[m] = p
    <3>1. m # d /\ bound'[m] = p
      BY <1>7, <2>3
    <3>2. q.members[RoleOf[m]] = m /\ q.kind = KindOf[m]
      BY <1>2, <2>3
    <3>3. RoleOf[m] # RoleOf[c]
      BY <3>1, <3>2
    <3>4. after.members[RoleOf[m]] = m
      BY <1>4, <1>6, <2>1, <3>2, <3>3
    <3> QED
      BY <1>6, <1>7, <1>9, <3>1, <3>2, <3>4
  <2>4. CASE m # c /\ bound[m] # p
    <3>1. bound'[m] = bound[m] /\ BoundOK(m)
      BY <1>7, <2>4 DEF RelayInv, Conns
    <3> QED
      BY <1>7, <1>9, <2>4, <3>1 DEF BoundOK, Live
  <2> QED
    BY <2>2, <2>3, <2>4
<1>14. ASSUME NEW m \in Conn
       PROVE  AwaitOK(m)'
  <2>1. AwaitOK(m) /\ awaiting' = awaiting
    BY <1>5 DEF RelayInv, Conns
  <2> QED
    BY <1>2, <1>7, <2>1 DEF AwaitOK
<1>15. Apart'
  <2>1. Codes(after) \subseteq Codes(q)
    BY <1>6 DEF Codes
  <2>2. \A s \in Live \ {p} : ~Clash(after, pairing[s])
    BY <1>2, <1>6, <2>1 DEF Clash
  <2>3. \A s \in Live \ {p} : ~Clash(pairing[s], after)
    BY <2>2 DEF Clash
  <2>4. \A s, r \in Live : s # r => ~Clash(pairing[s], pairing[r])
    BY DEF RelayInv, Apart
  <2>5. pairing'[p] = after /\ \A s \in Live \ {p} : pairing'[s] = pairing[s]
    BY <1>7 DEF Live
  <2> SUFFICES ASSUME NEW s \in Live \cup {p}, NEW r \in Live \cup {p}, s # r
               PROVE  ~Clash(pairing'[s], pairing'[r])
    BY <1>9 DEF Apart, Clash, Codes
  <2>6. CASE s = p
    BY <2>2, <2>5, <2>6
  <2>7. CASE s # p /\ r = p
    BY <2>3, <2>5, <2>7
  <2>8. CASE s # p /\ r # p
    BY <2>4, <2>5, <2>8
  <2> QED
    BY <2>6, <2>7, <2>8
<1>16. Timers'
  BY <1>9 DEF Timers
<1> QED
  BY <1>11, <1>12, <1>13, <1>14, <1>15, <1>16 DEF RelayInv, Conns

LEMMA JoinKeeps ==
    ASSUME RelayInv, NEW c \in Conn, NEW p \in Session, NEW code, NEW b, Join(c, p, code, b)
    PROVE  RelayInv'
<1> DEFINE q == pairing[p]
<1>1. /\ status[c] = "open" /\ bound[c] = NoSession /\ p \in Live /\ q.kind = KindOf[c]
      /\ q.members[RoleOf[c]] = NoConn => HasRoom(q)
      /\ Bind(c, p, q) /\ UNCHANGED rotating
  BY DEF Join
<1>2. q \in Pairing /\ PairOK(p, q)
  BY <1>1, MembersSit DEF RelayInv, Pairs
<1>3. \A m \in Conn : bound[m] = p => q.members[RoleOf[m]] = m /\ q.kind = KindOf[m]
  BY <1>1, Basics DEF RelayInv, Conns, BoundOK
<1>4. \A s \in Live \ {p} : ~Clash(q, pairing[s])
  BY <1>1 DEF RelayInv, Apart
<1>5. Joinable(c, p, q)
  BY <1>1, <1>2, <1>3, <1>4 DEF Joinable, PairOK, Advertised
<1>6. rotating' = TRUE
  BY <1>1 DEF RelayInv, TypeOK, Timers
<1> QED
  BY <1>1, <1>5, <1>6, BindKeeps

(* A minted code is a code that joins no pairing of its kind.              *)
LEMMA MintedIsFree ==
    ASSUME NEW k, NEW out, NEW x \in Mintable(k, out)
    PROVE  /\ x \in Code /\ x # NoCode /\ x \notin out
           /\ \A s \in Live : pairing[s].kind = k => x \notin Codes(pairing[s])
BY Basics DEF Mintable, InService, Code

LEMMA OpenKeeps ==
    ASSUME RelayInv, NEW c \in Conn, NEW p \in Session, NEW b \in Binding, NEW code \in Code,
           Open(c, p, b, code)
    PROVE  RelayInv'
<1> DEFINE q == [live |-> TRUE, kind |-> KindOf[c], binding |-> b,
                 code |-> code, previous |-> NoCode,
                 members |-> [r \in Role |-> NoConn], lingering |-> {}, expiry |-> FALSE]
<1>1. /\ status[c] = "open" /\ bound[c] = NoSession /\ p \notin Live
      /\ \A s \in Live : pairing[s].kind = KindOf[c] => pairing[s].binding # b
      /\ code \in Mintable(KindOf[c], retired)
      /\ Bind(c, p, q) /\ rotating' = TRUE
  BY DEF Open
<1>2. q \in Pairing
  BY Basics DEF Pairing
<1>3. q.kind = KindOf[c] /\ q.binding = b /\ q.code = code /\ q.previous = NoCode
      /\ q.members = [r \in Role |-> NoConn]
  OBVIOUS
<1> HIDE DEF q
<1>4. Sitting(q) = {}
  BY <1>3 DEF Sitting, Range
<1>5. Seated(p, q) /\ Few(q) /\ HasRoom(q)
  BY <1>3, <1>4, FS_EmptySet DEF Seated, Few, HasRoom, Sitting
<1>6. \A m \in Conn : bound[m] # p
  BY <1>1, Basics DEF RelayInv, Conns, BoundOK
<1>7. q.code # NoCode
  BY <1>3, Basics
<1>8. Codes(q) = {code}
  BY <1>3, <1>7 DEF Codes
<1>9. \A s \in Live : ~Clash(q, pairing[s])
  BY <1>1, <1>3, <1>8, MintedIsFree DEF Clash
<1>10. Joinable(c, p, q)
  BY <1>2, <1>3, <1>5, <1>6, <1>7, <1>9 DEF Joinable
<1> QED
  BY <1>1, <1>10, BindKeeps

-----------------------------------------------------------------------------
(* Leaving.  The connection that leaves is closed by its transport, or is  *)
(* to be closed.                                                           *)

(* The pairing that c has left, with its new code.                         *)
Vacated(q, c, code) ==
    [q EXCEPT !.members[RoleOf[c]] = NoConn, !.lingering = @ \cup {RoleOf[c]},
              !.code = code, !.previous = NoCode, !.expiry = (Sitting(q) \ {c} = {})]

LEMMA VacatedIs ==
    ASSUME NEW q \in Pairing, NEW c \in Conn, NEW code \in Code
    PROVE  /\ Vacated(q, c, code) \in Pairing
           /\ Vacated(q, c, code).members = [q.members EXCEPT ![RoleOf[c]] = NoConn]
           /\ Vacated(q, c, code).kind = q.kind /\ Vacated(q, c, code).binding = q.binding
           /\ Vacated(q, c, code).code = code /\ Vacated(q, c, code).previous = NoCode
           /\ Vacated(q, c, code).expiry <=> Sitting(q) \ {c} = {}
<1>1. (Sitting(q) \ {c} = {}) \in BOOLEAN
  OBVIOUS
<1> QED
  BY <1>1, Basics DEF Vacated, Pairing

(* A member that leaves its pairing leaves one member there at most.       *)
LEMMA VacatedSits ==
    ASSUME NEW p, NEW q \in Pairing, NEW c \in Conn, NEW code \in Code, Seated(p, q), Few(q),
           q.members[RoleOf[c]] = c
    PROVE  LET n == Sitting(Vacated(q, c, code))
           IN  /\ n = Sitting(q) \ {c}
               /\ Cardinality(n) < 2 /\ Cardinality(n) \in Nat
               /\ c \in Sitting(q)
<1> DEFINE k == Vacated(q, c, code)
<1>1. k \in Pairing /\ k.members = [q.members EXCEPT ![RoleOf[c]] = NoConn]
  BY VacatedIs
<1> HIDE DEF k
<1>2. /\ RoleOf[c] \in Role /\ NoConn \notin Conn
      /\ q.members \in [Role -> Conn \cup {NoConn}]
  BY Basics, PairingFields
<1>3. Sitting(k) = {[q.members EXCEPT ![RoleOf[c]] = NoConn][r] : r \in Role} \ {NoConn}
  <2>1. Sitting(k) = {k.members[r] : r \in Role} \ {NoConn}
    BY <1>1, SittingIs
  <2> QED
    BY <1>1, <2>1
<1>4. \A r \in Role : r # RoleOf[c] => q.members[r] # c
  BY <1>2 DEF Seated
<1>5. Sitting(q) = {q.members[r] : r \in Role} \ {NoConn}
  BY SittingIs
<1>6. Sitting(k) = Sitting(q) \ {c}
  BY <1>2, <1>3, <1>4, <1>5
<1>7. c \in Sitting(q)
  BY <1>2, SittingIs
<1>8. IsFiniteSet(Sitting(q)) /\ Cardinality(Sitting(q)) \in Nat /\ Cardinality(Sitting(q)) <= 2
  BY SittingIs DEF Few
<1> DEFINE rest == Sitting(q) \ {c}
<1>9. IsFiniteSet(rest) /\ Cardinality(rest) = Cardinality(Sitting(q)) - 1
  BY <1>7, <1>8, FS_RemoveElement
<1>10. Cardinality(rest) \in Nat
  BY <1>9, FS_CardinalityType
<1> HIDE DEF rest
<1>11. Cardinality(rest) < 2
  BY <1>8, <1>9
<1> QED
  BY <1>6, <1>7, <1>10, <1>11 DEF k, rest

LEMMA LeaveKeeps ==
    ASSUME RelayInv, NEW c \in Conn, NEW end \in {"absent", "closing"}, Leave(c),
           status' = [status EXCEPT ![c] = end], watched' = [watched EXCEPT ![c] = FALSE],
           awaiting' = [awaiting EXCEPT ![c] = awaiting'[c]], awaiting'[c] \subseteq awaiting[c],
           end = "absent" => awaiting'[c] = {}, UNCHANGED <<rotating, grace>>
    PROVE  RelayInv'
<1>0. PICK p \in Session \cup {NoSession} : p = bound[c]
  BY DEF RelayInv, TypeOK
<1> DEFINE q == pairing[p]
<1>1. /\ \A m \in Conn : status'[m] = IF m = c THEN end ELSE status[m]
      /\ \A m \in Conn : m # c => awaiting'[m] = awaiting[m]
      /\ status' \in [Conn -> {"absent", "open", "closing"}]
      /\ watched' \in [Conn -> BOOLEAN] /\ awaiting' \in [Conn -> SUBSET MessageId]
  BY DEF RelayInv, TypeOK
<1>2. CASE p = NoSession
  <2>1. UNCHANGED <<bound, told, pairing, retired>>
    BY <1>0, <1>2 DEF Leave
  <2>2. TypeOK'
    BY <1>1, <2>1 DEF RelayInv, TypeOK
  <2>3. \A m \in Conn : AwaitOK(m)'
    BY <1>1, <2>1 DEF RelayInv, Conns, AwaitOK
  <2> QED
    BY <1>0, <1>1, <1>2, <2>1, <2>2, <2>3, RelayApart
<1>3. CASE p # NoSession
  <2>1. /\ p \in Live /\ p \in Session /\ q.members[RoleOf[c]] = c /\ q.kind = KindOf[c]
        /\ \A m \in Conn : bound[m] = p => q.members[RoleOf[m]] = m /\ q.kind = KindOf[m]
    BY <1>0, <1>3 DEF RelayInv, Conns, BoundOK, Live
  <2>2. q \in Pairing /\ PairOK(p, q) /\ Members(p) = Sitting(q)
    BY <2>1, MembersSit DEF RelayInv, Pairs
  <2>3. PICK code \in Mintable(KindOf[c], retired \cup Codes(q)) :
          /\ pairing' = [pairing EXCEPT ![p] =
                [q EXCEPT !.members[RoleOf[c]] = NoConn,
                          !.lingering = @ \cup {RoleOf[c]},
                          !.code = code, !.previous = NoCode,
                          !.expiry = (Sitting(q) \ {c} = {})]]
          /\ retired' = retired \cup Codes(q)
          /\ bound' = [bound EXCEPT ![c] = NoSession]
          /\ told' = [m \in Conn |-> IF m = c THEN Nothing
                                     ELSE IF m \in Sitting(q) \ {c} THEN JoinCode(code) ELSE told[m]]
    <3>1. \E code \in Mintable(KindOf[c], retired \cup Codes(pairing[bound[c]])) :
             /\ pairing' = [pairing EXCEPT ![bound[c]] =
                   [pairing[bound[c]] EXCEPT !.members[RoleOf[c]] = NoConn,
                             !.lingering = @ \cup {RoleOf[c]},
                             !.code = code, !.previous = NoCode,
                             !.expiry = (Members(bound[c]) \ {c} = {})]]
             /\ retired' = retired \cup Codes(pairing[bound[c]])
             /\ bound' = [bound EXCEPT ![c] = NoSession]
             /\ told' = [m \in Conn |-> IF m = c THEN Nothing
                                        ELSE IF m \in Members(bound[c]) \ {c} THEN JoinCode(code)
                                        ELSE told[m]]
      BY <1>0, <1>3 DEF Leave
    <3>2. bound[c] = p /\ Members(bound[c]) = Sitting(q)
      BY <1>0, <2>2
    <3> QED
      BY ZenonT(30), <3>1, <3>2
  <2>4. code \in Code /\ code # NoCode
        /\ \A s \in Live : pairing[s].kind = KindOf[c] => code \notin Codes(pairing[s])
    BY <2>3, MintedIsFree
  <2>20. PICK k \in Pairing : k = Vacated(q, c, code)
    BY <2>2, <2>4, VacatedIs
  <2>5. pairing' = [pairing EXCEPT ![p] = k]
    BY <2>3, <2>20 DEF Vacated
  <2>6. /\ k \in Pairing /\ k.members = [q.members EXCEPT ![RoleOf[c]] = NoConn]
        /\ k.kind = q.kind /\ k.binding = q.binding /\ k.code = code /\ k.previous = NoCode
        /\ k.expiry <=> Sitting(q) \ {c} = {}
    BY <2>2, <2>4, <2>20, VacatedIs
  <2>7. /\ Sitting(k) = Sitting(q) \ {c}
        /\ Cardinality(Sitting(k)) < 2 /\ Cardinality(Sitting(k)) \in Nat
        /\ c \in Sitting(q)
    BY <2>1, <2>2, <2>4, <2>20, VacatedSits DEF PairOK
  <2>8. \A s \in Session : pairing'[s] = IF s = p THEN k ELSE pairing[s]
    BY <2>5 DEF RelayInv, TypeOK
  <2>9. /\ \A m \in Conn : bound'[m] = IF m = c THEN NoSession ELSE bound[m]
        /\ \A m \in Conn : told'[m] = IF m = c THEN Nothing
                                      ELSE IF m \in Sitting(k) THEN JoinCode(code) ELSE told[m]
    BY <2>3, <2>7 DEF RelayInv, TypeOK
  <2>10. Live' = Live
    <3>1. k.live /\ q.live
      BY <2>2, <2>6, PairingFields
    <3>2. \A s \in Session : pairing'[s].live <=> pairing[s].live
      BY <2>8, <3>1
    <3> QED
      BY <3>2 DEF Live
  <2>11. \A m \in Sitting(q) : m \in Conn /\ bound[m] = p
    BY <2>2, SittingIs DEF PairOK, Seated
  <2>12. q.members \in [Role -> Conn \cup {NoConn}] /\ \A m \in Conn : RoleOf[m] \in Role
    BY <2>2, Basics, PairingFields
  <2>13. TypeOK'
    <3>1. Codes(q) \subseteq Code
      BY <2>2, PairingFields DEF Codes
    <3>2. bound' \in [Conn -> Session \cup {NoSession}] /\ retired' \subseteq Code
      BY <2>3, <3>1 DEF RelayInv, TypeOK
    <3>4. pairing' \in [Session -> {Closed} \cup Pairing]
      BY <2>5 DEF RelayInv, TypeOK
    <3>3. told' \in [Conn -> {Nothing} \cup {JoinCode(x) : x \in Code} \cup {Welcome(s) : s \in Session}]
      BY <2>3, <2>4 DEF RelayInv, TypeOK
    <3> QED
      BY <1>1, <3>2, <3>3, <3>4 DEF RelayInv, TypeOK
  <2>14. PairOK(p, k)'
    <3>1. Seated(p, k)'
      <4> SUFFICES ASSUME NEW r \in Role, k.members[r] # NoConn
                   PROVE  /\ RoleOf[k.members[r]] = r
                          /\ bound'[k.members[r]] = p
                          /\ status'[k.members[r]] # "absent"
        BY DEF Seated
      <4> DEFINE m == q.members[r]
      <4>1. r # RoleOf[c] /\ k.members[r] = m
        BY <2>6, <2>12
      <4>2. m \in Conn /\ RoleOf[m] = r /\ bound[m] = p /\ status[m] # "absent"
        BY <2>2, <2>12, <4>1 DEF PairOK, Seated
      <4>3. m # c
        BY <4>1, <4>2
      <4> QED
        BY <1>1, <2>9, <4>1, <4>2, <4>3
    <3>2. Few(k)'
      BY <2>7 DEF Few
    <3>3. Advertised(k)'
      BY <2>4, <2>6, <2>7 DEF Advertised
    <3>4. Informed(p, k)'
      BY <2>6, <2>7, <2>9, <2>11 DEF Informed
    <3> QED
      BY <3>1, <3>2, <3>3, <3>4 DEF PairOK
  <2>15. Pairs'
    <3> SUFFICES ASSUME NEW s \in Live, s # p
                 PROVE  PairOK(s, pairing[s])'
      BY <2>8, <2>10, <2>14 DEF Pairs, Live
    <3>1. \A m \in Conn : bound[m] = s =>
             bound'[m] = s /\ (status'[m] = "absent" => status[m] = "absent") /\ told'[m] = told[m]
      BY <1>1, <2>7, <2>9, <2>11
    <3>2. pairing'[s] = pairing[s]
      BY <2>8 DEF Live
    <3> QED
      BY <3>1, <3>2, PairApart
  <2>16. ASSUME NEW m \in Conn
         PROVE  BoundOK(m)'
    <3>1. CASE m = c
      BY <2>9, <3>1 DEF BoundOK
    <3>2. CASE m # c /\ bound[m] = p
      <4>1. q.members[RoleOf[m]] = m /\ RoleOf[m] # RoleOf[c] /\ q.kind = KindOf[m]
        BY <2>1, <3>2
      <4>2. k.members[RoleOf[m]] = m
        BY <2>6, <2>12, <4>1
      <4>3. bound'[m] = p /\ pairing'[p] = k
        BY <2>1, <2>8, <2>9, <3>2
      <4>4. p \in Live' /\ k.kind = KindOf[m]
        BY <2>1, <2>6, <2>10, <4>1
      <4> QED
        BY <4>2, <4>3, <4>4 DEF BoundOK
    <3>3. CASE m # c /\ bound[m] # p
      <4>1. bound'[m] = bound[m] /\ BoundOK(m)
        BY <2>9, <3>3 DEF RelayInv, Conns
      <4> QED
        BY <2>8, <2>10, <3>3, <4>1 DEF BoundOK, Live
    <3> QED
      BY <3>1, <3>2, <3>3
  <2>17. ASSUME NEW m \in Conn
         PROVE  AwaitOK(m)'
    BY <1>1, <2>9 DEF RelayInv, Conns, AwaitOK
  <2>18. Apart'
    <3>1. Codes(k) = {code}
      BY <2>4, <2>6 DEF Codes
    <3>2. \A s, r \in Live : s # r => ~Clash(pairing[s], pairing[r])
      BY DEF RelayInv, Apart
    <3>3. \A s \in Live \ {p} : ~Clash(k, pairing[s])
      BY <2>1, <2>4, <2>6, <3>1, <3>2 DEF Clash
    <3>4. \A s \in Live \ {p} : ~Clash(pairing[s], k)
      BY <3>3 DEF Clash
    <3>5. pairing'[p] = k /\ \A s \in Live \ {p} : pairing'[s] = pairing[s]
      BY <2>1, <2>8 DEF Live
    <3> SUFFICES ASSUME NEW s \in Live, NEW r \in Live, s # r
                 PROVE  ~Clash(pairing'[s], pairing'[r])
      BY <2>10 DEF Apart, Clash, Codes
    <3>6. CASE s = p
      BY <3>3, <3>5, <3>6
    <3>7. CASE s # p /\ r = p
      BY <3>4, <3>5, <3>7
    <3>8. CASE s # p /\ r # p
      BY <3>2, <3>5, <3>8
    <3> QED
      BY <3>6, <3>7, <3>8
  <2>19. Timers'
    BY <2>10 DEF RelayInv, Timers
  <2> QED
    BY <2>13, <2>15, <2>16, <2>17, <2>18, <2>19 DEF RelayInv, Conns
<1> QED
  BY <1>2, <1>3

LEMMA ClosedKeeps ==
    ASSUME RelayInv, NEW c \in Conn, ClosedReported(c)
    PROVE  RelayInv'
<1>1. /\ Leave(c) /\ status' = [status EXCEPT ![c] = "absent"]
      /\ watched' = [watched EXCEPT ![c] = FALSE] /\ awaiting' = [awaiting EXCEPT ![c] = {}]
      /\ UNCHANGED <<rotating, grace>>
  BY DEF ClosedReported
<1>2. awaiting'[c] = {}
  BY <1>1 DEF RelayInv, TypeOK
<1>3. awaiting' = [awaiting EXCEPT ![c] = awaiting'[c]] /\ awaiting'[c] \subseteq awaiting[c]
  BY <1>1, <1>2
<1> QED
  BY <1>1, <1>2, <1>3, LeaveKeeps

LEMMA ActivityKeeps ==
    ASSUME RelayInv, NEW c \in Conn, ActivityTimeout(c)
    PROVE  RelayInv'
<1>1. /\ Leave(c) /\ status' = [status EXCEPT ![c] = "closing"]
      /\ watched' = [watched EXCEPT ![c] = FALSE] /\ awaiting' = awaiting
      /\ UNCHANGED <<rotating, grace>>
  BY DEF ActivityTimeout
<1>2. awaiting' = [awaiting EXCEPT ![c] = awaiting'[c]]
  BY <1>1 DEF RelayInv, TypeOK
<1> QED
  BY <1>1, <1>2, LeaveKeeps

-----------------------------------------------------------------------------
(* The end of a pairing, whose members go with it.                         *)

LEMMA EndKeeps ==
    ASSUME RelayInv, NEW p \in Live, End(p), UNCHANGED <<watched, awaiting>>,
           bound' = [m \in Conn |-> IF m \in Sitting(pairing[p]) THEN NoSession ELSE bound[m]],
           status' = [m \in Conn |-> IF m \in Sitting(pairing[p]) THEN "closing" ELSE status[m]],
           told' = [m \in Conn |-> IF m \in Sitting(pairing[p]) THEN Nothing ELSE told[m]]
    PROVE  RelayInv'
<1>1. p \in Session /\ pairing[p] \in Pairing
  BY MembersSit DEF Live, RelayInv
<1>2. /\ pairing' = [pairing EXCEPT ![p] = Closed]
      /\ retired' = retired \cup Codes(pairing[p])
      /\ rotating' = (rotating /\ Live # {p}) /\ grace' = (grace /\ Live # {p})
  BY DEF End, RotateWhileLive
<1>3. \A s \in Session : pairing'[s] = IF s = p THEN Closed ELSE pairing[s]
  BY <1>2 DEF RelayInv, TypeOK
<1>4. Live' = Live \ {p}
  BY <1>3 DEF Live, Closed
<1>5. \A m \in Conn : m \in Sitting(pairing[p]) <=> bound[m] = p
  BY SitsBound
<1>6. TypeOK'
  <2>1. /\ bound' \in [Conn -> Session \cup {NoSession}]
        /\ status' \in [Conn -> {"absent", "open", "closing"}]
    BY DEF RelayInv, TypeOK
  <2>2. told' \in [Conn -> {Nothing} \cup {JoinCode(x) : x \in Code} \cup {Welcome(s) : s \in Session}]
    BY DEF RelayInv, TypeOK
  <2>3. pairing' \in [Session -> {Closed} \cup Pairing]
    BY <1>2 DEF RelayInv, TypeOK
  <2>4. Codes(pairing[p]) \subseteq Code
    BY <1>1, PairingFields DEF Codes
  <2>5. retired' \subseteq Code
    BY <1>2, <2>4 DEF RelayInv, TypeOK
  <2>6. rotating' \in BOOLEAN /\ grace' \in BOOLEAN
    BY <1>2
  <2> QED
    BY <2>1, <2>2, <2>3, <2>5, <2>6 DEF RelayInv, TypeOK
<1>7. Pairs'
  <2> SUFFICES ASSUME NEW s \in Live, s # p
               PROVE  PairOK(s, pairing[s])'
    BY <1>4 DEF Pairs
  <2>1. \A m \in Conn : bound[m] = s =>
           bound'[m] = s /\ (status'[m] = "absent" => status[m] = "absent") /\ told'[m] = told[m]
    BY <1>5
  <2>2. pairing'[s] = pairing[s] /\ (grace => grace')
    BY <1>2, <1>3 DEF Live
  <2> QED
    BY <2>1, <2>2, PairApart
<1>8. ASSUME NEW m \in Conn
      PROVE  BoundOK(m)' /\ AwaitOK(m)'
  <2>1. CASE m \in Sitting(pairing[p])
    BY <2>1 DEF BoundOK, AwaitOK
  <2>2. CASE m \notin Sitting(pairing[p])
    <3>1. bound'[m] = bound[m] /\ bound[m] # p /\ status'[m] = status[m] /\ BoundOK(m) /\ AwaitOK(m)
      BY <1>5, <2>2 DEF RelayInv, Conns
    <3>2. AwaitOK(m)'
      BY <3>1 DEF AwaitOK
    <3>3. BoundOK(m)'
      BY <1>3, <1>4, <3>1 DEF BoundOK, Live
    <3> QED
      BY <3>2, <3>3
  <2> QED
    BY <2>1, <2>2
<1>9. Apart'
  <2> SUFFICES ASSUME NEW s \in Live \ {p}, NEW r \in Live \ {p}, s # r
               PROVE  ~Clash(pairing'[s], pairing'[r])
    BY <1>4 DEF Apart, Clash, Codes
  <2>1. pairing'[s] = pairing[s] /\ pairing'[r] = pairing[r]
    BY <1>3 DEF Live
  <2> QED
    BY <2>1 DEF RelayInv, Apart
<1>10. Timers'
  <2>1. rotating /\ (Live # {p} <=> Live \ {p} # {})
    BY DEF RelayInv, Timers
  <2> QED
    BY <1>2, <1>4, <2>1 DEF Timers
<1> QED
  BY <1>6, <1>7, <1>8, <1>9, <1>10 DEF RelayInv, Conns

LEMMA ExpireKeeps ==
    ASSUME RelayInv, NEW p \in Session, Expire(p)
    PROVE  RelayInv'
<1>1. /\ p \in Live /\ pairing[p].expiry /\ End(p)
      /\ UNCHANGED <<status, bound, told, watched, awaiting>>
  BY DEF Expire, connVars
<1>2. Sitting(pairing[p]) = {}
  BY <1>1 DEF RelayInv, Pairs, PairOK, Advertised
<1>3. /\ bound' = [m \in Conn |-> IF m \in Sitting(pairing[p]) THEN NoSession ELSE bound[m]]
      /\ status' = [m \in Conn |-> IF m \in Sitting(pairing[p]) THEN "closing" ELSE status[m]]
      /\ told' = [m \in Conn |-> IF m \in Sitting(pairing[p]) THEN Nothing ELSE told[m]]
  BY <1>1, <1>2 DEF RelayInv, TypeOK
<1> QED
  BY <1>1, <1>3, EndKeeps

LEMMA TerminateKeeps ==
    ASSUME RelayInv, NEW p \in Session, Terminate(p)
    PROVE  RelayInv'
<1>1. p \in Live /\ End(p) /\ UNCHANGED <<watched, awaiting>>
  BY DEF Terminate
<1>2. Members(p) = Sitting(pairing[p])
  BY <1>1, MembersSit DEF RelayInv
<1>3. /\ bound' = [m \in Conn |-> IF m \in Sitting(pairing[p]) THEN NoSession ELSE bound[m]]
      /\ status' = [m \in Conn |-> IF m \in Sitting(pairing[p]) THEN "closing" ELSE status[m]]
      /\ told' = [m \in Conn |-> IF m \in Sitting(pairing[p]) THEN Nothing ELSE told[m]]
  BY <1>2 DEF Terminate
<1> QED
  BY <1>1, <1>3, EndKeeps

LEMMA DisposeKeeps ==
    ASSUME RelayInv, Dispose
    PROVE  RelayInv'
<1>1. /\ \A c \in Conn : status[c] = "absent"
      /\ pairing' = [p \in Session |-> Closed]
      /\ retired' = {} /\ rotating' = FALSE /\ grace' = FALSE
      /\ UNCHANGED <<status, bound, told, watched, awaiting>>
  BY DEF Dispose, connVars
<1>2. Live' = {}
  BY <1>1 DEF Live, Closed
<1>3. ASSUME NEW c \in Conn
      PROVE  bound[c] = NoSession
  <2> SUFFICES ASSUME bound[c] # NoSession
               PROVE  FALSE
    OBVIOUS
  <2>1. /\ bound[c] \in Live /\ pairing[bound[c]].members[RoleOf[c]] = c
        /\ Seated(bound[c], pairing[bound[c]])
    BY DEF RelayInv, Conns, BoundOK, Pairs, PairOK
  <2>2. status[c] # "absent"
    BY <2>1, Basics DEF Seated
  <2> QED
    BY <1>1, <2>2
<1>4. TypeOK'
  BY <1>1 DEF RelayInv, TypeOK
<1>5. Conns'
  BY <1>1, <1>3 DEF RelayInv, Conns, BoundOK, AwaitOK
<1>6. Pairs' /\ Apart' /\ Timers'
  BY <1>1, <1>2 DEF Pairs, Apart, Timers
<1> QED
  BY <1>4, <1>5, <1>6 DEF RelayInv

-----------------------------------------------------------------------------
(* The codes change, with the members and the bindings left alone.         *)

(* The pairing p with other codes, where it is advertised as it should be. *)
LEMMA RecodedPair ==
    ASSUME RelayInv, NEW p \in Live, NEW k, UNCHANGED <<status, bound>>,
           k.members = pairing[p].members, k.expiry = pairing[p].expiry,
           k.code # NoCode <=> pairing[p].code # NoCode,
           k.previous # NoCode => k.code # NoCode /\ grace',
           \A m \in Conn : bound[m] = p =>
              told'[m] = IF k.code = pairing[p].code THEN told[m] ELSE JoinCode(k.code),
           k.code # pairing[p].code => k.code # NoCode
    PROVE  PairOK(p, k)'
<1> DEFINE q == pairing[p]
<1>1. PairOK(p, q) /\ q \in Pairing /\ Sitting(k) = Sitting(q)
  BY MembersSit DEF RelayInv, Pairs, Sitting
<1>2. \A m \in Sitting(q) : m \in Conn /\ bound[m] = p
  BY <1>1, SittingIs, SitsBound
<1>3. Cardinality(Sitting(q)) \in Nat
  BY <1>1, SittingIs
<1>4. Seated(p, k)'
  BY <1>1 DEF PairOK, Seated
<1>5. Few(k)'
  BY <1>1 DEF PairOK, Few
<1>6. Advertised(k)'
  BY <1>1 DEF PairOK, Advertised
<1>7. Informed(p, k)'
  <2> SUFFICES ASSUME NEW m \in Sitting(q)
               PROVE  told'[m] = IF Cardinality(Sitting(q)) = 2 THEN Welcome(p) ELSE JoinCode(k.code)
    BY <1>1 DEF Informed
  <2>1. told[m] = IF Cardinality(Sitting(q)) = 2 THEN Welcome(p) ELSE JoinCode(q.code)
    BY <1>1 DEF PairOK, Informed
  <2>2. told'[m] = IF k.code = q.code THEN told[m] ELSE JoinCode(k.code)
    BY <1>2
  <2>3. k.code # q.code => Cardinality(Sitting(q)) # 2
    BY <1>1, <1>3 DEF PairOK, Advertised
  <2> QED
    BY <2>1, <2>2, <2>3
<1> QED
  BY <1>4, <1>5, <1>6, <1>7 DEF PairOK

(* The same for all the pairings.                                          *)
LEMMA Recoded ==
    ASSUME RelayInv, UNCHANGED <<status, bound, watched, awaiting, rotating>>,
           grace' \in BOOLEAN, grace' => rotating,
           told' \in [Conn -> {Nothing} \cup {JoinCode(x) : x \in Code} \cup {Welcome(s) : s \in Session}],
           retired' \subseteq Code,
           pairing' \in [Session -> {Closed} \cup Pairing],
           \A p \in Session : p \notin Live => pairing'[p] = Closed,
           \A p \in Live :
              /\ pairing'[p] \in Pairing /\ pairing'[p].members = pairing[p].members
              /\ pairing'[p].expiry = pairing[p].expiry /\ pairing'[p].kind = pairing[p].kind
              /\ pairing'[p].binding = pairing[p].binding
              /\ pairing'[p].code # NoCode <=> pairing[p].code # NoCode
              /\ pairing'[p].code # pairing[p].code => pairing'[p].code # NoCode
              /\ pairing'[p].previous # NoCode => pairing'[p].code # NoCode /\ grace'
              /\ \A m \in Conn : bound[m] = p =>
                    told'[m] = IF pairing'[p].code = pairing[p].code THEN told[m]
                               ELSE JoinCode(pairing'[p].code),
           \A p, s \in Live : p # s /\ pairing[p].kind = pairing[s].kind =>
              Codes(pairing'[p]) \cap Codes(pairing'[s]) = {}
    PROVE  RelayInv'
<1>1. Live' = Live
  <2>1. \A p \in Live : p \in Session /\ pairing'[p].live
    BY PairingFields DEF Live
  <2>2. \A p \in Session : p \notin Live => ~pairing'[p].live
    BY DEF Closed
  <2> QED
    BY <2>1, <2>2 DEF Live
<1>2. TypeOK'
  BY DEF RelayInv, TypeOK
<1>3. Pairs'
  <2> SUFFICES ASSUME NEW p \in Live
               PROVE  PairOK(p, pairing[p])'
    BY <1>1 DEF Pairs
  <2>1. PICK k \in Pairing : k = pairing'[p]
    OBVIOUS
  <2>2. PairOK(p, k)'
    BY <2>1, RecodedPair
  <2> QED
    BY <2>1, <2>2
<1>4. Conns'
  <2> SUFFICES ASSUME NEW c \in Conn
               PROVE  BoundOK(c)' /\ AwaitOK(c)'
    BY DEF Conns
  <2>1. BoundOK(c) /\ AwaitOK(c)
    BY DEF RelayInv, Conns
  <2>2. BoundOK(c)'
    BY <1>1, <2>1 DEF BoundOK
  <2>3. AwaitOK(c)'
    BY <2>1 DEF AwaitOK
  <2> QED
    BY <2>2, <2>3
<1>5. Apart'
  <2> SUFFICES ASSUME NEW p \in Live, NEW s \in Live, p # s
               PROVE  ~Clash(pairing'[p], pairing'[s])
    BY <1>1 DEF Apart, Clash, Codes
  <2>1. ~Clash(pairing[p], pairing[s])
    BY DEF RelayInv, Apart
  <2> QED
    BY <2>1 DEF Clash
<1>6. Timers'
  BY <1>1 DEF RelayInv, Timers
<1> QED
  BY <1>2, <1>3, <1>4, <1>5, <1>6 DEF RelayInv

LEMMA GraceKeeps ==
    ASSUME RelayInv, EndGrace
    PROVE  RelayInv'
<1>1. /\ grace' = FALSE /\ retired' = retired \cup Previous
      /\ pairing' = [p \in Session |-> IF p \in Live THEN [pairing[p] EXCEPT !.previous = NoCode]
                                                      ELSE pairing[p]]
      /\ UNCHANGED <<status, bound, told, watched, awaiting, rotating>>
  BY DEF EndGrace, connVars
<1>2. \A p \in Live : p \in Session /\ pairing[p] \in Pairing
  BY MembersSit DEF RelayInv, Live
<1>3. ASSUME NEW p \in Live
      PROVE  /\ pairing'[p] \in Pairing /\ pairing'[p].members = pairing[p].members
             /\ pairing'[p].expiry = pairing[p].expiry /\ pairing'[p].kind = pairing[p].kind
             /\ pairing'[p].binding = pairing[p].binding /\ pairing'[p].code = pairing[p].code
             /\ pairing'[p].previous = NoCode
  <2>1. pairing'[p] = [pairing[p] EXCEPT !.previous = NoCode] /\ pairing[p] \in Pairing
    BY <1>1, <1>2
  <2> QED
    BY ZenonT(30), <2>1 DEF Pairing
<1>4. \A p \in Session : p \notin Live => pairing'[p] = Closed
  BY <1>1, LiveTyped DEF RelayInv
<1>5. Previous \subseteq Code
  BY <1>2, PairingFields DEF Previous
<1>6. ASSUME NEW p \in Live, NEW s \in Live, p # s, pairing[p].kind = pairing[s].kind
      PROVE  Codes(pairing'[p]) \cap Codes(pairing'[s]) = {}
  <2>1. Codes(pairing'[p]) \subseteq Codes(pairing[p]) /\ Codes(pairing'[s]) \subseteq Codes(pairing[s])
    BY <1>3 DEF Codes
  <2>2. ~Clash(pairing[p], pairing[s])
    BY <1>6 DEF RelayInv, Apart
  <2> QED
    BY <1>6, <2>1, <2>2 DEF Clash
<1>7. /\ told' \in [Conn -> {Nothing} \cup {JoinCode(x) : x \in Code} \cup {Welcome(s) : s \in Session}]
      /\ retired' \subseteq Code
  BY <1>1, <1>5 DEF RelayInv, TypeOK
<1>8. pairing' \in [Session -> {Closed} \cup Pairing]
  BY <1>1, <1>3, <1>4 DEF Live
<1> QED
  BY <1>1, <1>3, <1>4, <1>6, <1>7, <1>8, Recoded

LEMMA RotateKeeps ==
    ASSUME RelayInv, Rotate
    PROVE  RelayInv'
<1>1. PICK new \in [Holding -> Code] :
        /\ \A p \in Holding :
              new[p] \in Mintable(pairing[p].kind, retired \cup Previous \cup
                  {new[s] : s \in {s \in Holding \ {p} : pairing[s].kind = pairing[p].kind}})
        /\ pairing' = [p \in Session |->
              IF p \in Holding
              THEN [pairing[p] EXCEPT !.previous = pairing[p].code, !.code = new[p]]
              ELSE pairing[p]]
        /\ told' = NewsOfRotation(new)
  BY DEF Rotate
<1>2. /\ rotating /\ grace' = TRUE /\ retired' = retired \cup Previous
      /\ UNCHANGED <<status, bound, watched, awaiting, rotating>>
  BY DEF Rotate
<1>3. \A p \in Live : p \in Session /\ pairing[p] \in Pairing
  BY MembersSit DEF RelayInv, Live
<1>4. \A p \in Live : p \in Holding <=> pairing[p].code # NoCode
  BY DEF Holding
<1>5. ASSUME NEW p \in Holding
      PROVE  /\ new[p] \in Code /\ new[p] # NoCode
             /\ \A s \in Live : pairing[s].kind = pairing[p].kind => new[p] \notin Codes(pairing[s])
             /\ \A s \in Holding : s # p /\ pairing[s].kind = pairing[p].kind => new[p] # new[s]
  <2>1. new[p] \in Mintable(pairing[p].kind, retired \cup Previous \cup
            {new[s] : s \in {s \in Holding \ {p} : pairing[s].kind = pairing[p].kind}})
    BY <1>1
  <2> QED
    BY <2>1, MintedIsFree
<1>6. ASSUME NEW p \in Holding
      PROVE  /\ pairing'[p] \in Pairing /\ pairing'[p].members = pairing[p].members
             /\ pairing'[p].expiry = pairing[p].expiry /\ pairing'[p].kind = pairing[p].kind
             /\ pairing'[p].binding = pairing[p].binding /\ pairing'[p].code = new[p]
             /\ pairing'[p].previous = pairing[p].code
  <2>1. p \in Session /\ pairing[p] \in Pairing /\ pairing[p].code \in Code \cup {NoCode}
    BY <1>3, PairingFields DEF Holding
  <2>2. pairing'[p] = [pairing[p] EXCEPT !.previous = pairing[p].code, !.code = new[p]]
    BY <1>1, <2>1
  <2>3. new[p] \in Code
    BY <1>5
  <2> QED
    BY ZenonT(30), <2>1, <2>2, <2>3 DEF Pairing
<1>7. \A p \in Session : p \notin Holding => pairing'[p] = pairing[p]
  BY <1>1
<1>8. \A p \in Session : p \notin Live => pairing'[p] = Closed
  BY <1>7, LiveTyped DEF RelayInv, Holding
<1>9. ASSUME NEW m \in Conn
      PROVE  told'[m] = IF bound[m] \in Holding THEN JoinCode(new[bound[m]]) ELSE told[m]
  BY <1>1 DEF NewsOfRotation
<1>10. ASSUME NEW p \in Live
       PROVE  /\ pairing'[p] \in Pairing /\ pairing'[p].members = pairing[p].members
              /\ pairing'[p].expiry = pairing[p].expiry /\ pairing'[p].kind = pairing[p].kind
              /\ pairing'[p].binding = pairing[p].binding
              /\ pairing'[p].code # NoCode <=> pairing[p].code # NoCode
              /\ pairing'[p].code # pairing[p].code => pairing'[p].code # NoCode
              /\ pairing'[p].previous # NoCode => pairing'[p].code # NoCode /\ grace'
              /\ \A m \in Conn : bound[m] = p =>
                    told'[m] = IF pairing'[p].code = pairing[p].code THEN told[m]
                               ELSE JoinCode(pairing'[p].code)
  <2>1. CASE p \in Holding
    <3>1. new[p] # pairing[p].code
      <4>1. pairing[p].code \in Codes(pairing[p])
        BY <1>4, <2>1 DEF Codes
      <4> QED
        BY <1>5, <2>1, <4>1
    <3> QED
      BY <1>2, <1>4, <1>5, <1>6, <1>9, <2>1, <3>1
  <2>2. CASE p \notin Holding
    <3>1. pairing'[p] = pairing[p] /\ pairing[p] \in Pairing
      BY <1>3, <1>7, <2>2
    <3>2. pairing[p].previous = NoCode
      BY <1>4, <2>2 DEF RelayInv, Pairs, PairOK, Advertised
    <3> QED
      BY <1>9, <2>2, <3>1, <3>2
  <2> QED
    BY <2>1, <2>2
<1>11. Previous \subseteq Code
  BY <1>3, PairingFields DEF Previous
<1>12. \A p \in Live : \A x \in Codes(pairing'[p]) :
          x \in Codes(pairing[p]) \/ (p \in Holding /\ x = new[p])
  <2> SUFFICES ASSUME NEW p \in Live, NEW x \in Codes(pairing'[p])
               PROVE  x \in Codes(pairing[p]) \/ (p \in Holding /\ x = new[p])
    OBVIOUS
  <2>1. CASE p \in Holding
    BY <1>6, <2>1 DEF Codes
  <2>2. CASE p \notin Holding
    BY <1>3, <1>7, <2>2
  <2> QED
    BY <2>1, <2>2
<1>13. ASSUME NEW p \in Live, NEW s \in Live, p # s, pairing[p].kind = pairing[s].kind
       PROVE  Codes(pairing'[p]) \cap Codes(pairing'[s]) = {}
  <2> SUFFICES ASSUME NEW x \in Codes(pairing'[p]), x \in Codes(pairing'[s])
               PROVE  FALSE
    OBVIOUS
  <2>1. Codes(pairing[p]) \cap Codes(pairing[s]) = {}
    BY <1>13 DEF RelayInv, Apart, Clash
  <2>2. x \in Codes(pairing[p]) \/ (p \in Holding /\ x = new[p])
    BY <1>12
  <2>3. x \in Codes(pairing[s]) \/ (s \in Holding /\ x = new[s])
    BY <1>12
  <2>4. p \in Holding => new[p] \notin Codes(pairing[s])
    BY <1>5, <1>13
  <2>5. s \in Holding => new[s] \notin Codes(pairing[p])
    BY <1>5, <1>13
  <2>6. p \in Holding /\ s \in Holding => new[p] # new[s]
    BY <1>5, <1>13
  <2> QED
    BY <2>1, <2>2, <2>3, <2>4, <2>5, <2>6
<1>14. told' \in [Conn -> {Nothing} \cup {JoinCode(x) : x \in Code} \cup {Welcome(s) : s \in Session}]
  <2>1. ASSUME NEW m \in Conn
        PROVE  told'[m] \in {Nothing} \cup {JoinCode(x) : x \in Code} \cup {Welcome(s) : s \in Session}
    BY <1>5, <1>9 DEF RelayInv, TypeOK
  <2>2. told' = [m \in Conn |-> told'[m]]
    BY <1>1 DEF NewsOfRotation
  <2> QED
    BY <2>1, <2>2
<1>15. retired' \subseteq Code
  BY <1>2, <1>11 DEF RelayInv, TypeOK
<1>16. pairing' \in [Session -> {Closed} \cup Pairing]
  <2>1. \A p \in Session : pairing'[p] \in {Closed} \cup Pairing
    BY <1>8, <1>10
  <2>2. pairing' = [p \in Session |-> pairing'[p]]
    BY <1>1
  <2> QED
    BY <2>1, <2>2
<1> QED
  BY <1>2, <1>8, <1>10, <1>13, <1>14, <1>15, <1>16, Recoded

-----------------------------------------------------------------------------
LEMMA RelayStep == RelayInv /\ [Next]_vars => RelayInv'
<1> SUFFICES ASSUME RelayInv, [Next]_vars
             PROVE  RelayInv'
  OBVIOUS
<1>1. ASSUME NEW c \in Conn, Connect(c) \/ Refuse(c) \/ DisconnectMember(c)
      PROVE  RelayInv'
  BY <1>1, ConnectKeeps
<1>2. ASSUME NEW c \in Conn, NEW p \in Session, NEW b \in Binding, NEW code \in Code,
             Open(c, p, b, code)
      PROVE  RelayInv'
  BY <1>2, OpenKeeps
<1>3. ASSUME NEW c \in Conn, NEW p \in Session, NEW code, NEW b, Join(c, p, code, b)
      PROVE  RelayInv'
  BY <1>3, JoinKeeps
<1>4. ASSUME NEW c \in Conn, ClosedReported(c) \/ ActivityTimeout(c)
      PROVE  RelayInv'
  BY <1>4, ClosedKeeps, ActivityKeeps
<1>5. ASSUME NEW c \in Conn, NEW id \in MessageId,
             Request(c, id) \/ Reply(c, id) \/ ReplyDeadline(c, id)
      PROVE  RelayInv'
  BY <1>5, RequestKeeps
<1>6. ASSUME NEW p \in Session, Expire(p) \/ Terminate(p)
      PROVE  RelayInv'
  BY <1>6, ExpireKeeps, TerminateKeeps
<1>7. ASSUME NEW x \in Code, QuarantineEnds(x)
      PROVE  RelayInv'
  BY <1>7, QuarantineKeeps
<1>8. CASE UNCHANGED vars
  <2>1. UNCHANGED <<status, bound, told, watched, awaiting, pairing, retired, rotating, grace>>
    BY <1>8 DEF vars, connVars, codeVars
  <2>2. TypeOK' /\ \A c \in Conn : AwaitOK(c)'
    BY <2>1 DEF RelayInv, TypeOK, Conns, AwaitOK
  <2> QED
    BY <2>1, <2>2, RelayApart
<1> QED
  BY <1>1, <1>2, <1>3, <1>4, <1>5, <1>6, <1>7, <1>8, RotateKeeps, GraceKeeps, DisposeKeeps DEF Next

LEMMA RelayAlways == Spec => []RelayInv
BY InitRelay, RelayStep, PTL DEF Spec

(* The variables of the relay keep their types.                            *)
THEOREM TypeCorrect == Spec => []TypeOK
<1>1. RelayInv => TypeOK
  BY DEF RelayInv
<1> QED
  BY <1>1, RelayAlways, PTL

(* The two records of a membership agree in every reachable state: the     *)
(* pairing a connection is bound to (Member.pairing) and the connections a *)
(* pairing has in its roles (Pairing.members), of which there are two at   *)
(* most; no reply is awaited from a connection that is in no session.      *)
THEOREM MembershipHolds == Spec => []MembershipAgrees
<1>1. RelayInv => MembershipAgrees
  <2> SUFFICES ASSUME RelayInv
               PROVE  MembershipAgrees
    OBVIOUS
  <2>1. \A c \in Conn : bound[c] # NoSession =>
          /\ bound[c] \in Live
          /\ pairing[bound[c]].members[RoleOf[c]] = c
          /\ pairing[bound[c]].kind = KindOf[c]
    BY DEF RelayInv, Conns, BoundOK
  <2>2. ASSUME NEW p \in Live
        PROVE  /\ \A c \in Members(p) : bound[c] = p /\ status[c] # "absent"
               /\ Cardinality(Members(p)) <= 2
    <3>1. pairing[p] \in Pairing /\ Members(p) = Sitting(pairing[p]) /\ PairOK(p, pairing[p])
      BY MembersSit DEF RelayInv, Pairs
    <3> QED
      BY <3>1, SittingIs DEF PairOK, Seated, Few
  <2>3. \A c \in Conn : status[c] = "open" /\ bound[c] = NoSession => awaiting[c] = {}
    BY DEF RelayInv, Conns, AwaitOK
  <2> QED
    BY <2>1, <2>2, <2>3 DEF MembershipAgrees
<1> QED
  BY <1>1, RelayAlways, PTL

(* What a vacancy calls for is there, and nothing else: the join codes of  *)
(* the pairings, which join one pairing of their kind, their bindings, and *)
(* the linger, rotation and grace timers.                                  *)
THEOREM VacanciesHold == Spec => []VacanciesKept
<1>1. RelayInv => VacanciesKept
  <2> SUFFICES ASSUME RelayInv
               PROVE  VacanciesKept
    OBVIOUS
  <2>1. ASSUME NEW p \in Live
        PROVE  /\ pairing[p].expiry <=> Members(p) = {}
               /\ pairing[p].code # NoCode <=> Cardinality(Members(p)) < 2
               /\ pairing[p].previous # NoCode => pairing[p].code # NoCode /\ grace
    <3>1. Members(p) = Sitting(pairing[p]) /\ PairOK(p, pairing[p])
      BY MembersSit DEF RelayInv, Pairs
    <3> QED
      BY <3>1 DEF PairOK, Advertised
  <2>2. ASSUME NEW p \in Live, NEW s \in Live, p # s, pairing[p].kind = pairing[s].kind
        PROVE  /\ Codes(pairing[p]) \cap Codes(pairing[s]) = {}
               /\ pairing[p].binding # pairing[s].binding
    BY <2>2 DEF RelayInv, Apart, Clash
  <2>3. (rotating <=> Live # {}) /\ (grace => rotating)
    BY DEF RelayInv, Timers
  <2> QED
    BY <2>1, <2>2, <2>3 DEF VacanciesKept
<1> QED
  BY <1>1, RelayAlways, PTL

(* What a member was last told by the relay holds: both members of a       *)
(* session that is full were welcomed to it, and a member alone has the    *)
(* join code that is in service now, rotated or new after a departure.     *)
THEOREM InformedHolds == Spec => []MembersInformed
<1>1. RelayInv => MembersInformed
  <2> SUFFICES ASSUME RelayInv, NEW p \in Live, NEW c \in Members(p)
               PROVE  told[c] = IF Cardinality(Members(p)) = 2 THEN Welcome(p)
                                ELSE JoinCode(pairing[p].code)
    BY DEF MembersInformed
  <2>1. Members(p) = Sitting(pairing[p]) /\ PairOK(p, pairing[p])
    BY MembersSit DEF RelayInv, Pairs
  <2> QED
    BY <2>1 DEF PairOK, Informed
<1> QED
  BY <1>1, RelayAlways, PTL
=============================================================================
