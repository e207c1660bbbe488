----------------------- MODULE AssistantSessionsProofs -----------------------
(***************************************************************************)
(* Invariants of the sessions, for any brains, any sockets and whatever    *)
(* the person types, and that the machine keeps what AskQueue promises.    *)
(***************************************************************************)
EXTENDS AssistantSessions, FiniteSetTheorems, TLAPS

-----------------------------------------------------------------------------
(* What is known of the record q of brain b.  Until close() its status is  *)
(* what its turn, its session and its handshake say, and a brain that is   *)
(* shown is dialed for; after it no turn begins, and one that still ends   *)
(* finds nothing waiting.                                                  *)

One(q) ==
    /\ q.channel # NoSocket => q.opening = NoSocket /\ q.dialing = "none"
    /\ q.opening # NoSocket => q.dialing = "none"

TurnForm(q) == q.turn.at = "none" <=> q.turn.on = NoSocket

(* The asks that were hurried are in front.                                *)
SoloFirst(waiting) ==
    \A i, j \in DOMAIN waiting : i < j /\ waiting[j].solo => waiting[i].solo

Whole(q) == q \in BrainRecord /\ One(q) /\ TurnForm(q) /\ SoloFirst(q.waiting)

Shows(q) ==
    /\ Running(q) <=> q.turn.at # "none"
    /\ q.status = "ready" <=> q.turn.at = "none" /\ q.channel # NoSocket
    /\ q.status = "connecting" => q.turn.at = "none" /\ q.opening # NoSocket
    /\ q.turn.at = "opening" => q.opening = q.turn.on
    /\ q.stopping => q.turn.at # "none"

Sought(q) ==
    \/ q.channel # NoSocket \/ q.opening # NoSocket \/ q.dialing # "none"
    \/ q.refused \/ q.turn.at # "none"

Over(q) == ~Running(q) /\ q.waiting = <<>>

RecordOK(q, b) ==
    /\ Whole(q)
    /\ ~stood => Shows(q) /\ (shown = b => Sought(q))
    /\ stood => Over(q)

Records == \A b \in Brain : RecordOK(brain[b], b)

(* The sockets that brain b refers to are its own, and stand where the     *)
(* reference says; no session is open that its brain does not hold.        *)
Session(s, b, states) == s \in Socket /\ socket[s].of = b /\ socket[s].state \in states

Handshake(s, b, by) == Session(s, b, {"dialing", "asking"}) /\ socket[s].by = by

Refers(q, b) ==
    /\ q.channel # NoSocket => Session(q.channel, b, {"open", "closing"})
    /\ q.opening # NoSocket => Handshake(q.opening, b, "open")
    /\ q.dialing \in Socket => Handshake(q.dialing, b, "loop")
    /\ q.turn.at = "opening" => Handshake(q.turn.on, b, "open")
    /\ q.turn.at \in {"reading", "serving"} =>
         Session(q.turn.on, b, {"open", "closing", "closed"})

Referred == \A b \in Brain : Refers(brain[b], b)

Named == \A s \in Socket : socket[s].state # "free" => socket[s].of \in Brain

Held == \A s \in Socket : socket[s].state = "open" => brain[socket[s].of].channel = s

SessionInv == TypeOK /\ Records /\ Referred /\ Named /\ Held

-----------------------------------------------------------------------------
LEMMA Basics ==
    /\ Elsewhere \notin Brain /\ NoSocket \notin Brain
    /\ "none" \notin Socket /\ "waiting" \notin Socket /\ NoSocket \notin Socket
    /\ Ask \cap Library = {}
BY AssistantAssumption

-----------------------------------------------------------------------------
(* The queue.                                                              *)

LEMMA Appended ==
    ASSUME NEW w \in Seq(Entry), SoloFirst(w), NEW what \in Ask \cup Library
    PROVE  LET v == Append(w, [what |-> what, solo |-> FALSE])
           IN  v \in Seq(Entry) /\ SoloFirst(v)
<1> DEFINE e == [what |-> what, solo |-> FALSE]
<1>1. e \in Entry /\ e.solo = FALSE
  BY DEF Entry
<1> HIDE DEF e
<1>2. Append(w, e) \in Seq(Entry)
  BY <1>1
<1>3. SoloFirst(Append(w, e))
  BY <1>1 DEF SoloFirst
<1> QED
  BY <1>2, <1>3 DEF e

LEMMA Removed ==
    ASSUME NEW w \in Seq(Entry), SoloFirst(w), NEW i \in DOMAIN w
    PROVE  /\ RemoveAt(w, i) \in Seq(Entry) /\ SoloFirst(RemoveAt(w, i))
           /\ Len(RemoveAt(w, i)) = Len(w) - 1
<1> DEFINE front == SubSeq(w, 1, i - 1)
           back == SubSeq(w, i + 1, Len(w))
<1>1. /\ front \in Seq(Entry) /\ Len(front) = i - 1
      /\ \A j \in 1 .. i - 1 : front[j] = w[j]
  OBVIOUS
<1>2. /\ back \in Seq(Entry) /\ Len(back) = Len(w) - i
      /\ \A j \in 1 .. Len(w) - i : back[j] = w[i + j]
  OBVIOUS
<1>3. RemoveAt(w, i) = front \o back
  BY DEF RemoveAt
<1> HIDE DEF front, back
<1>4. /\ RemoveAt(w, i) \in Seq(Entry) /\ Len(RemoveAt(w, i)) = Len(w) - 1
      /\ \A j \in 1 .. Len(w) - 1 : RemoveAt(w, i)[j] = IF j < i THEN w[j] ELSE w[j + 1]
  BY <1>1, <1>2, <1>3
<1>5. SoloFirst(RemoveAt(w, i))
  <2> DEFINE v == RemoveAt(w, i)
  <2>1. /\ v \in Seq(Entry) /\ DOMAIN v = 1 .. Len(w) - 1 /\ DOMAIN w = 1 .. Len(w)
        /\ \A j \in 1 .. Len(w) - 1 : v[j] = IF j < i THEN w[j] ELSE w[j + 1]
    BY <1>4
  <2> HIDE DEF v
  <2> SUFFICES ASSUME NEW j \in DOMAIN v, NEW k \in DOMAIN v, j < k, v[k].solo
               PROVE  v[j].solo
    BY DEF SoloFirst, v
  <2> DEFINE at(x) == IF x < i THEN x ELSE x + 1
  <2>2. at(j) \in DOMAIN w /\ at(k) \in DOMAIN w /\ at(j) < at(k)
    BY <2>1
  <2>3. v[j] = w[at(j)] /\ v[k] = w[at(k)]
    BY <2>1
  <2> QED
    BY <2>2, <2>3 DEF SoloFirst
<1> QED
  BY <1>4, <1>5

LEMMA Fronted ==
    ASSUME NEW v \in Seq(Entry), SoloFirst(v), NEW e \in Entry, e.solo
    PROVE  LET w == <<e>> \o v
           IN  w \in Seq(Entry) /\ SoloFirst(w) /\ w[1] = e /\ Len(w) = Len(v) + 1
<1>1. <<e>> \in Seq(Entry) /\ Len(<<e>>) = 1
  OBVIOUS
<1>2. /\ <<e>> \o v \in Seq(Entry) /\ Len(<<e>> \o v) = Len(v) + 1
      /\ (<<e>> \o v)[1] = e
      /\ \A j \in 2 .. Len(v) + 1 : (<<e>> \o v)[j] = v[j - 1]
  BY <1>1
<1>3. SoloFirst(<<e>> \o v)
  <2> DEFINE w == <<e>> \o v
  <2>1. /\ DOMAIN w = 1 .. Len(v) + 1 /\ DOMAIN v = 1 .. Len(v) /\ w[1] = e
        /\ \A j \in 2 .. Len(v) + 1 : w[j] = v[j - 1]
    BY <1>2
  <2> HIDE DEF w
  <2> SUFFICES ASSUME NEW j \in DOMAIN w, NEW k \in DOMAIN w, j < k, w[k].solo
               PROVE  w[j].solo
    BY DEF SoloFirst, w
  <2>2. CASE j = 1
    BY <2>1, <2>2
  <2>3. CASE j # 1
    <3>1. j - 1 \in DOMAIN v /\ k - 1 \in DOMAIN v /\ j - 1 < k - 1
      BY <2>1, <2>3
    <3>2. w[j] = v[j - 1] /\ w[k] = v[k - 1]
      BY <2>1, <2>3
    <3> QED
      BY <3>1, <3>2 DEF SoloFirst
  <2> QED
    BY <2>2, <2>3
<1> QED
  BY <1>2, <1>3

LEMMA Rest ==
    ASSUME NEW w \in Seq(Entry), SoloFirst(w), NEW n \in 1 .. Len(w)
    PROVE  LET v == SubSeq(w, n + 1, Len(w))
           IN  v \in Seq(Entry) /\ SoloFirst(v)
<1> DEFINE v == SubSeq(w, n + 1, Len(w))
<1>1. /\ v \in Seq(Entry) /\ Len(v) = Len(w) - n
      /\ \A j \in 1 .. Len(w) - n : v[j] = w[n + j]
  OBVIOUS
<1> HIDE DEF v
<1>2. SoloFirst(v)
  <2> SUFFICES ASSUME NEW j \in DOMAIN v, NEW k \in DOMAIN v, j < k, v[k].solo
               PROVE  v[j].solo
    BY DEF SoloFirst
  <2>1. /\ n + j \in DOMAIN w /\ n + k \in DOMAIN w /\ n + j < n + k
        /\ v[j] = w[n + j] /\ v[k] = w[n + k]
    BY SMTT(30), <1>1
  <2> QED
    BY <2>1 DEF SoloFirst
<1> QED
  BY <1>1, <1>2 DEF v

(* A set of the first positions is an interval.                            *)
LEMMA Firsts ==
    ASSUME NEW n \in Nat, NEW T \in SUBSET (1 .. n), \A i \in T : 1 .. i \subseteq T
    PROVE  T = 1 .. Cardinality(T) /\ Cardinality(T) \in 0 .. n
<1>1. IsFiniteSet(1 .. n) /\ Cardinality(1 .. n) = n
  BY FS_Interval
<1>2. IsFiniteSet(T) /\ Cardinality(T) \in Nat /\ Cardinality(T) <= n
  BY ZenonT(30), <1>1, FS_Subset, FS_CardinalityType
<1>3. \A i \in T : i <= Cardinality(T)
  <2> SUFFICES ASSUME NEW i \in T
               PROVE  i <= Cardinality(T)
    OBVIOUS
  <2>1. Cardinality(1 .. i) = i /\ i \in Nat
    BY FS_Interval
  <2> QED
    BY <1>2, <2>1, FS_Subset
<1>4. T \subseteq 1 .. Cardinality(T)
  BY <1>2, <1>3
<1>5. IsFiniteSet(1 .. Cardinality(T)) /\ Cardinality(1 .. Cardinality(T)) = Cardinality(T)
  BY <1>2, FS_Interval
<1>6. T = 1 .. Cardinality(T)
  BY <1>4, <1>5, FS_Subset
<1> QED
  BY <1>2, <1>6

(* The asks that take a turn together: one or more at the head, none of    *)
(* them hurried when they are several.                                     *)
LEMMA JoinedIs ==
    ASSUME NEW w \in Seq(Entry), SoloFirst(w), w # <<>>, w[1].what \in Ask
    PROVE  \E n \in 1 .. Len(w) :
              /\ Joined(w) = SubSeq(w, 1, n) /\ Len(Joined(w)) = n
              /\ \A i \in 1 .. n : Joined(w)[i] = w[i] /\ w[i].what \in Ask
              /\ n = 1 \/ \A i \in 1 .. n : ~w[i].solo
              /\ w[1].solo => n = 1
<1> DEFINE T == {i \in DOMAIN w : \A j \in 1 .. i :
                   w[j].what \in Ask /\ (j < i => ~w[j].solo)}
           n == Cardinality(T)
<1>1. DOMAIN w = 1 .. Len(w) /\ Len(w) \in Nat \ {0}
  OBVIOUS
<1>2. T \in SUBSET (1 .. Len(w)) /\ \A i \in T : 1 .. i \subseteq T
  BY <1>1
<1>3. T = 1 .. n /\ n \in 0 .. Len(w)
  <2> HIDE DEF T
  <2> QED
    BY <1>1, <1>2, Firsts
<1>4. 1 \in T
  BY <1>1
<1>5. \A i \in T : w[i].what \in Ask /\ \A j \in T : j < i => ~w[j].solo
  BY <1>1
<1>6. Joined(w) = SubSeq(w, 1, n)
  BY DEF Joined
<1> HIDE DEF T, n
<1>7. n \in 1 .. Len(w)
  BY <1>1, <1>3, <1>4
<1>8. Len(Joined(w)) = n /\ \A i \in 1 .. n : Joined(w)[i] = w[i]
  BY <1>6, <1>7
<1>9. \A i \in 1 .. n : w[i].what \in Ask /\ \A j \in 1 .. n : j < i => ~w[j].solo
  BY <1>3, <1>5
<1>10. n = 1 \/ \A i \in 1 .. n : ~w[i].solo
  <2> SUFFICES ASSUME n # 1, NEW i \in 1 .. n
               PROVE  ~w[i].solo
    OBVIOUS
  <2>1. ~w[1].solo
    BY <1>7, <1>9
  <2>2. i \in DOMAIN w /\ 1 \in DOMAIN w
    BY <1>7
  <2>3. i = 1 \/ 1 < i
    OBVIOUS
  <2> QED
    BY <2>1, <2>2, <2>3 DEF SoloFirst
<1> QED
  BY <1>6, <1>7, <1>8, <1>9, <1>10

-----------------------------------------------------------------------------
(* The methods, field by field.                                            *)

LEMMA Fields ==
    ASSUME NEW q \in BrainRecord
    PROVE  /\ q.status \in {"idle", "connecting", "ready", "turn_active", "failed"}
           /\ q.channel \in Socket \cup {NoSocket} /\ q.opening \in Socket \cup {NoSocket}
           /\ q.dialing \in Socket \cup {"none", "waiting"}
           /\ q.refused \in BOOLEAN /\ q.stopping \in BOOLEAN
           /\ q.waiting \in Seq(Entry) /\ q.asked \in Seq(Ask)
           /\ q.turn \in Turn
           /\ q.turn.at \in {"none", "opening", "reading", "serving"}
           /\ q.turn.on \in Socket \cup {NoSocket}
BY DEF BrainRecord, Turn

LEMMA OpenChannelIs ==
    ASSUME NEW q \in BrainRecord, NEW s \in Socket \cup {NoSocket}
    PROVE  LET r == OpenChannel(q, s)
               held == q.channel # NoSocket \/ q.opening # NoSocket
           IN  /\ r \in BrainRecord
               /\ r.channel = q.channel /\ r.dialing = "none" /\ r.refused = FALSE
               /\ r.opening = IF held THEN q.opening ELSE s
               /\ r.status = IF held \/ Running(q) THEN q.status ELSE "connecting"
               /\ r.stopping = q.stopping /\ r.waiting = q.waiting
               /\ r.turn = q.turn /\ r.asked = q.asked
<1> DEFINE r == [StandDownReopen(q) EXCEPT !.refused = FALSE]
<1>1. /\ r \in BrainRecord /\ r.channel = q.channel /\ r.dialing = "none" /\ r.refused = FALSE
      /\ r.opening = q.opening /\ r.status = q.status /\ r.stopping = q.stopping
      /\ r.waiting = q.waiting /\ r.turn = q.turn /\ r.asked = q.asked
  BY DEF StandDownReopen, BrainRecord
<1>2. OpenChannel(q, s) = IF r.channel # NoSocket \/ r.opening # NoSocket THEN r
                          ELSE Settle([r EXCEPT !.opening = s], "connecting")
  BY DEF OpenChannel
<1> HIDE DEF r
<1> DEFINE n == [r EXCEPT !.opening = s]
<1>3. /\ n \in BrainRecord /\ n.channel = q.channel /\ n.dialing = "none" /\ n.refused = FALSE
      /\ n.opening = s /\ n.status = q.status /\ n.stopping = q.stopping
      /\ n.waiting = q.waiting /\ n.turn = q.turn /\ n.asked = q.asked
  BY <1>1 DEF BrainRecord
<1> HIDE DEF n
<1> DEFINE m == [n EXCEPT !.status = "connecting"]
<1>4. /\ m \in BrainRecord /\ m.channel = q.channel /\ m.dialing = "none" /\ m.refused = FALSE
      /\ m.opening = s /\ m.status = "connecting" /\ m.stopping = q.stopping
      /\ m.waiting = q.waiting /\ m.turn = q.turn /\ m.asked = q.asked
  BY <1>3 DEF BrainRecord
<1>5. Settle(n, "connecting") = IF Running(q) THEN n ELSE m
  BY <1>3 DEF Settle, Running
<1> HIDE DEF m
<1>6. OpenChannel(q, s) = IF q.channel # NoSocket \/ q.opening # NoSocket THEN r
                          ELSE IF Running(q) THEN n ELSE m
  BY <1>1, <1>2, <1>5 DEF n
<1>7. CASE q.channel # NoSocket \/ q.opening # NoSocket
  BY <1>1, <1>6, <1>7
<1>8. CASE ~(q.channel # NoSocket \/ q.opening # NoSocket) /\ Running(q)
  BY <1>3, <1>6, <1>8
<1>9. CASE ~(q.channel # NoSocket \/ q.opening # NoSocket) /\ ~Running(q)
  BY <1>4, <1>6, <1>9
<1> QED
  BY <1>7, <1>8, <1>9

LEMMA CarryTurnIs ==
    ASSUME NEW q \in BrainRecord, NEW s \in Socket
    PROVE  LET r == CarryTurn(q, s)
           IN  /\ r \in BrainRecord
               /\ r.turn = [at |-> "reading", on |-> s] /\ r.stopping = FALSE
               /\ r.status = q.status /\ r.channel = q.channel /\ r.opening = q.opening
               /\ r.dialing = q.dialing /\ r.refused = q.refused
               /\ r.waiting = q.waiting /\ r.asked = q.asked
<1>1. [at |-> "reading", on |-> s] \in Turn
  BY DEF Turn
<1> QED
  BY <1>1 DEF CarryTurn, BrainRecord

LEMMA StartAskIs ==
    ASSUME NEW q \in BrainRecord, NEW asks \in Seq(Ask), NEW s \in Socket \cup {NoSocket}
    PROVE  LET r == StartAsk(q, asks, s)
               held == q.channel # NoSocket \/ q.opening # NoSocket
           IN  /\ r \in BrainRecord /\ r.status = "turn_active"
               /\ r.channel = q.channel /\ r.dialing = "none" /\ r.refused = FALSE
               /\ r.opening = IF held THEN q.opening ELSE s
               /\ r.turn = IF q.channel # NoSocket THEN [at |-> "reading", on |-> q.channel]
                           ELSE [at |-> "opening", on |-> r.opening]
               /\ r.stopping = IF q.channel # NoSocket THEN FALSE ELSE q.stopping
               /\ r.waiting = q.waiting /\ r.asked = q.asked \o asks
<1> DEFINE n == [q EXCEPT !.status = "turn_active", !.asked = @ \o asks]
<1>1. q.asked \o asks \in Seq(Ask)
  BY Fields
<1>2. /\ n \in BrainRecord /\ n.status = "turn_active" /\ n.channel = q.channel
      /\ n.opening = q.opening /\ n.stopping = q.stopping
      /\ n.waiting = q.waiting /\ n.asked = q.asked \o asks
  BY <1>1 DEF BrainRecord
<1>3. Running(n)
  BY <1>2 DEF Running
<1> DEFINE r == OpenChannel(n, s)
<1>4. StartAsk(q, asks, s) = IF r.channel # NoSocket THEN CarryTurn(r, r.channel)
                             ELSE [r EXCEPT !.turn = [at |-> "opening", on |-> r.opening]]
  BY DEF StartAsk
<1> HIDE DEF n
<1>5. /\ r \in BrainRecord /\ r.status = "turn_active"
      /\ r.channel = q.channel /\ r.dialing = "none" /\ r.refused = FALSE
      /\ r.opening = IF q.channel # NoSocket \/ q.opening # NoSocket THEN q.opening ELSE s
      /\ r.stopping = q.stopping /\ r.waiting = q.waiting /\ r.asked = q.asked \o asks
  <2>1. /\ r \in BrainRecord /\ r.channel = n.channel /\ r.dialing = "none" /\ r.refused = FALSE
        /\ r.opening = IF n.channel # NoSocket \/ n.opening # NoSocket THEN n.opening ELSE s
        /\ r.status = IF n.channel # NoSocket \/ n.opening # NoSocket \/ Running(n)
                      THEN n.status ELSE "connecting"
        /\ r.stopping = n.stopping /\ r.waiting = n.waiting /\ r.asked = n.asked
    BY <1>2, OpenChannelIs
  <2> HIDE DEF r
  <2> QED
    BY <1>2, <1>3, <2>1
<1> HIDE DEF r
<1>6. CASE q.channel # NoSocket
  <2>1. q.channel \in Socket
    BY <1>6, Fields
  <2> QED
    <3> DEFINE x == q.channel
               k == CarryTurn(r, x)
    <3> HIDE DEF x
    <3>1. x \in Socket /\ r.channel = x
      BY <1>5, <2>1 DEF x
    <3>2. /\ k \in BrainRecord /\ k.turn = [at |-> "reading", on |-> x] /\ k.stopping = FALSE
          /\ k.status = r.status /\ k.channel = r.channel /\ k.opening = r.opening
          /\ k.dialing = r.dialing /\ k.refused = r.refused
          /\ k.waiting = r.waiting /\ k.asked = r.asked
      BY <1>5, <3>1, CarryTurnIs
    <3>3. StartAsk(q, asks, s) = k
      BY <1>4, <1>5, <1>6, <3>1
    <3> HIDE DEF k
    <3> QED
      BY <1>5, <1>6, <3>2, <3>3 DEF x
<1>7. CASE q.channel = NoSocket
  <2>1. r.opening \in Socket \cup {NoSocket}
    BY <1>5, Fields
  <2> DEFINE t == [at |-> "opening", on |-> r.opening]
  <2>2. t \in Turn
    BY <2>1 DEF Turn
  <2>3. StartAsk(q, asks, s) = [r EXCEPT !.turn = t]
    BY <1>4, <1>5, <1>7
  <2> DEFINE k == [r EXCEPT !.turn = t]
  <2> HIDE DEF t
  <2>4. /\ k \in BrainRecord /\ k.turn = t /\ k.status = r.status /\ k.channel = r.channel
        /\ k.dialing = r.dialing /\ k.refused = r.refused /\ k.opening = r.opening
        /\ k.stopping = r.stopping /\ k.waiting = r.waiting /\ k.asked = r.asked
    BY <1>5, <2>2 DEF BrainRecord
  <2> HIDE DEF k
  <2> QED
    BY <1>5, <1>7, <2>3, <2>4 DEF k, t
<1> QED
  BY <1>6, <1>7

LEMMA StartAddedIs ==
    ASSUME NEW q \in BrainRecord, q.channel # NoSocket
    PROVE  LET r == StartAdded(q)
           IN  /\ r \in BrainRecord /\ r.status = "turn_active"
               /\ r.turn = [at |-> "reading", on |-> q.channel] /\ r.stopping = FALSE
               /\ r.channel = q.channel /\ r.opening = q.opening
               /\ r.dialing = q.dialing /\ r.refused = q.refused
               /\ r.waiting = q.waiting /\ r.asked = q.asked
<1> DEFINE n == [q EXCEPT !.status = "turn_active"]
<1>1. /\ n \in BrainRecord /\ n.status = "turn_active" /\ n.channel = q.channel
      /\ n.opening = q.opening /\ n.dialing = q.dialing /\ n.refused = q.refused
      /\ n.waiting = q.waiting /\ n.asked = q.asked
  BY DEF BrainRecord
<1>2. q.channel \in Socket
  BY Fields
<1>3. StartAdded(q) = CarryTurn(n, q.channel)
  BY DEF StartAdded
<1> HIDE DEF n
<1> QED
  <2> DEFINE x == q.channel
             k == CarryTurn(n, x)
  <2> HIDE DEF x
  <2>1. x \in Socket
    BY <1>2 DEF x
  <2>2. /\ k \in BrainRecord /\ k.turn = [at |-> "reading", on |-> x] /\ k.stopping = FALSE
        /\ k.status = n.status /\ k.channel = n.channel /\ k.opening = n.opening
        /\ k.dialing = n.dialing /\ k.refused = n.refused
        /\ k.waiting = n.waiting /\ k.asked = n.asked
    BY <1>1, <2>1, CarryTurnIs
  <2>3. StartAdded(q) = k
    BY <1>3 DEF x
  <2> HIDE DEF k
  <2> QED
    BY <1>1, <2>2, <2>3 DEF x

(* What the n entries at the head of the queue leave of it.                *)
Takes(q, r) ==
    \E n \in 1 .. Len(q.waiting) :
        /\ n = 1 \/ \A i \in 1 .. n : q.waiting[i].what \in Ask /\ ~q.waiting[i].solo
        /\ q.waiting[1].what \in Ask /\ q.waiting[1].solo => n = 1
        /\ r.waiting = SubSeq(q.waiting, n + 1, Len(q.waiting))
        /\ r.asked = IF q.waiting[1].what \in Ask
                     THEN q.asked \o [i \in 1 .. n |-> q.waiting[i].what] ELSE q.asked

(* A turn has begun with the head of the queue.                            *)
Began(q, r) ==
    /\ ~Running(q) /\ q.channel # NoSocket
    /\ r \in BrainRecord /\ r.status = "turn_active"
    /\ r.turn = [at |-> "reading", on |-> q.channel] /\ r.stopping = FALSE
    /\ r.channel = q.channel /\ r.opening = q.opening /\ r.dialing \in {q.dialing, "none"}
    /\ SoloFirst(r.waiting) /\ Takes(q, r)

LEMMA DrainIs ==
    ASSUME NEW q \in BrainRecord, SoloFirst(q.waiting)
    PROVE  DrainPending(q) = q \/ Began(q, DrainPending(q))
<1> DEFINE w == q.waiting
<1> SUFFICES ASSUME w # <<>>, ~Running(q), q.channel # NoSocket
             PROVE  Began(q, DrainPending(q))
  BY DEF DrainPending
<1>1. /\ w \in Seq(Entry) /\ Len(w) \in Nat \ {0} /\ Head(w) = w[1] /\ w[1] \in Entry
      /\ q.channel \in Socket /\ q.asked \in Seq(Ask)
  BY Fields
<1>2. w[1].what \in Ask \cup Library
  BY <1>1 DEF Entry
<1>3. CASE w[1].what \in Library
  <2> DEFINE v == Tail(w)
             n == [q EXCEPT !.waiting = v]
             r == StartAdded(n)
  <2>1. v \in Seq(Entry) /\ v = SubSeq(w, 2, Len(w)) /\ SoloFirst(v)
    <3>1. v = SubSeq(w, 1 + 1, Len(w)) /\ 1 + 1 = 2
      BY <1>1
    <3>2. SubSeq(w, 1 + 1, Len(w)) \in Seq(Entry) /\ SoloFirst(SubSeq(w, 1 + 1, Len(w)))
      BY <1>1, Rest
    <3> HIDE DEF v
    <3> QED
      BY <3>1, <3>2
  <2>2. DrainPending(q) = r
    BY <1>1, <1>3 DEF DrainPending
  <2> HIDE DEF v
  <2>3. /\ n \in BrainRecord /\ n.channel = q.channel /\ n.opening = q.opening
        /\ n.dialing = q.dialing /\ n.waiting = v /\ n.asked = q.asked
    BY <2>1 DEF BrainRecord
  <2> HIDE DEF n
  <2>4. /\ r \in BrainRecord /\ r.status = "turn_active"
        /\ r.turn = [at |-> "reading", on |-> n.channel] /\ r.stopping = FALSE
        /\ r.channel = n.channel /\ r.opening = n.opening
        /\ r.dialing = n.dialing /\ r.waiting = n.waiting /\ r.asked = n.asked
    BY <2>3, StartAddedIs
  <2> HIDE DEF r
  <2>5. w[1].what \notin Ask
    BY <1>3, Basics
  <2>6. Takes(q, r)
    <3>1. 1 \in 1 .. Len(w) /\ r.waiting = SubSeq(w, 1 + 1, Len(w)) /\ r.asked = q.asked
      BY <1>1, <2>1, <2>3, <2>4
    <3> QED
      BY <2>5, <3>1 DEF Takes
  <2> QED
    BY <2>1, <2>2, <2>3, <2>4, <2>6 DEF Began
<1>4. CASE w[1].what \in Ask
  <2>1. PICK n \in 1 .. Len(w) :
          /\ Joined(w) = SubSeq(w, 1, n) /\ Len(Joined(w)) = n
          /\ \A i \in 1 .. n : Joined(w)[i] = w[i] /\ w[i].what \in Ask
          /\ n = 1 \/ \A i \in 1 .. n : ~w[i].solo
          /\ w[1].solo => n = 1
    BY <1>1, <1>4, JoinedIs
  <2> DEFINE v == SubSeq(w, n + 1, Len(w))
             words == [i \in 1 .. n |-> w[i].what]
             m == [q EXCEPT !.waiting = v]
             r == StartAsk(m, words, NoSocket)
  <2>2. v \in Seq(Entry) /\ SoloFirst(v)
    BY <1>1, Rest
  <2>3. words \in Seq(Ask)
    BY <2>1
  <2>4. Words(Joined(w)) = words
    <3>1. Joined(w) \in Seq(Entry)
      BY <1>1, <2>1
    <3>2. DOMAIN Joined(w) = 1 .. n
      BY <2>1, <3>1
    <3> QED
      BY <2>1, <3>2 DEF Words
  <2>5. DrainPending(q) = r
    <3>1. w[1].what \notin Library
      BY <1>4, Basics
    <3> QED
      BY <1>1, <2>1, <2>4, <3>1 DEF DrainPending
  <2> HIDE DEF v, words
  <2>6. /\ m \in BrainRecord /\ m.channel = q.channel /\ m.opening = q.opening
        /\ m.dialing = q.dialing /\ m.waiting = v /\ m.asked = q.asked
    BY <2>2 DEF BrainRecord
  <2> HIDE DEF m
  <2>7. /\ r \in BrainRecord /\ r.status = "turn_active" /\ r.channel = m.channel /\ r.dialing = "none"
        /\ r.opening = IF m.channel # NoSocket \/ m.opening # NoSocket THEN m.opening ELSE NoSocket
        /\ r.turn = IF m.channel # NoSocket THEN [at |-> "reading", on |-> m.channel]
                    ELSE [at |-> "opening", on |-> r.opening]
        /\ r.stopping = IF m.channel # NoSocket THEN FALSE ELSE m.stopping
        /\ r.waiting = m.waiting /\ r.asked = m.asked \o words
    <3> DEFINE x == NoSocket
    <3> HIDE DEF x
    <3>1. x \in Socket \cup {NoSocket} /\ r = StartAsk(m, words, x)
      BY DEF x
    <3> HIDE DEF r
    <3>2. /\ r \in BrainRecord /\ r.status = "turn_active" /\ r.channel = m.channel /\ r.dialing = "none"
          /\ r.waiting = m.waiting /\ r.asked = m.asked \o words
      BY ZenonT(30), <2>3, <2>6, <3>1, StartAskIs
    <3>3. r.opening = IF m.channel # NoSocket \/ m.opening # NoSocket THEN m.opening ELSE x
      BY <2>3, <2>6, <3>1, StartAskIs
    <3>4. r.turn = IF m.channel # NoSocket THEN [at |-> "reading", on |-> m.channel]
                   ELSE [at |-> "opening", on |-> r.opening]
      BY <2>3, <2>6, <3>1, StartAskIs
    <3>5. r.stopping = IF m.channel # NoSocket THEN FALSE ELSE m.stopping
      BY <2>3, <2>6, <3>1, StartAskIs
    <3> QED
      BY <3>2, <3>3, <3>4, <3>5 DEF x
  <2> HIDE DEF r
  <2>8. Takes(q, r)
    <3>1. r.waiting = SubSeq(w, n + 1, Len(w)) /\ r.asked = q.asked \o [i \in 1 .. n |-> w[i].what]
      BY <2>6, <2>7 DEF v, words
    <3> QED
      BY <1>4, <2>1, <3>1 DEF Takes
  <2> QED
    BY <2>2, <2>5, <2>6, <2>7, <2>8 DEF Began
<1> QED
  BY <1>2, <1>3, <1>4

LEMMA SettleIs ==
    ASSUME NEW q \in BrainRecord, NEW status \in {"idle", "ready", "failed"}
    PROVE  LET r == Settle(q, status)
           IN  /\ r \in BrainRecord
               /\ r.status = IF Running(q) THEN q.status ELSE status
               /\ r.channel = q.channel /\ r.opening = q.opening
               /\ r.dialing = q.dialing /\ r.refused = q.refused /\ r.stopping = q.stopping
               /\ r.waiting = q.waiting /\ r.turn = q.turn /\ r.asked = q.asked
<1> DEFINE k == [q EXCEPT !.status = status]
<1>1. /\ k \in BrainRecord /\ k.status = status
      /\ k.channel = q.channel /\ k.opening = q.opening
      /\ k.dialing = q.dialing /\ k.refused = q.refused /\ k.stopping = q.stopping
      /\ k.waiting = q.waiting /\ k.turn = q.turn /\ k.asked = q.asked
  BY DEF BrainRecord
<1>2. Settle(q, status) = IF Running(q) THEN q ELSE k
  BY DEF Settle
<1> HIDE DEF k
<1>3. CASE Running(q)
  BY <1>2, <1>3
<1>4. CASE ~Running(q)
  BY <1>1, <1>2, <1>4
<1> QED
  BY <1>3, <1>4

LEMMA ReopenIs ==
    ASSUME NEW q \in BrainRecord, NEW b
    PROVE  LET r == Reopen(q, b)
           IN  /\ r \in BrainRecord /\ r.status = q.status
               /\ r.dialing = IF shown = b /\ WantsReopen(q) THEN "waiting" ELSE q.dialing
               /\ r.channel = q.channel /\ r.opening = q.opening
               /\ r.refused = q.refused /\ r.stopping = q.stopping
               /\ r.waiting = q.waiting /\ r.turn = q.turn /\ r.asked = q.asked
<1> DEFINE k == [q EXCEPT !.dialing = "waiting"]
<1>1. /\ k \in BrainRecord /\ k.status = q.status /\ k.dialing = "waiting"
      /\ k.channel = q.channel /\ k.opening = q.opening
      /\ k.refused = q.refused /\ k.stopping = q.stopping
      /\ k.waiting = q.waiting /\ k.turn = q.turn /\ k.asked = q.asked
  BY DEF BrainRecord
<1>2. Reopen(q, b) = IF shown = b /\ WantsReopen(q) THEN k ELSE q
  BY DEF Reopen
<1> HIDE DEF k
<1>3. CASE shown = b /\ WantsReopen(q)
  BY <1>1, <1>2, <1>3
<1>4. CASE ~(shown = b /\ WantsReopen(q))
  BY <1>2, <1>4
<1> QED
  BY <1>3, <1>4

(* finish, up to the turn that it may begin.                               *)
Ended(q, b, n) ==
    /\ n \in BrainRecord /\ n.turn = NoTurn /\ n.stopping = FALSE
    /\ n.status = IF q.channel # NoSocket THEN "ready" ELSE "failed"
    /\ n.channel = q.channel /\ n.opening = q.opening /\ n.refused = q.refused
    /\ n.waiting = q.waiting /\ n.asked = q.asked
    /\ n.dialing = IF /\ q.channel = NoSocket /\ q.opening = NoSocket
                      /\ shown = b /\ q.dialing = "none" /\ ~q.refused
                   THEN "waiting" ELSE q.dialing

LEMMA FinishIs ==
    ASSUME NEW q \in BrainRecord, NEW b, SoloFirst(q.waiting)
    PROVE  \E n : Ended(q, b, n) /\ (Finish(q, b) = n \/ Began(n, Finish(q, b)))
<1> DEFINE status == IF q.channel # NoSocket THEN "ready" ELSE "failed"
           r == [q EXCEPT !.stopping = FALSE, !.turn = NoTurn, !.status = status]
           n == IF q.channel # NoSocket THEN r ELSE Reopen(r, b)
<1>1. NoTurn \in Turn
  BY DEF NoTurn, Turn
<1>2. /\ r \in BrainRecord /\ r.turn = NoTurn /\ r.stopping = FALSE /\ r.status = status
      /\ r.channel = q.channel /\ r.opening = q.opening /\ r.refused = q.refused
      /\ r.waiting = q.waiting /\ r.asked = q.asked /\ r.dialing = q.dialing
  BY <1>1 DEF BrainRecord
<1>3. Finish(q, b) = DrainPending(n)
  BY DEF Finish
<1> HIDE DEF r
<1>4. CASE q.channel # NoSocket
  <2>1. Ended(q, b, n)
    BY <1>2, <1>4 DEF Ended
  <2>2. n = r
    BY <1>4
  <2> HIDE DEF n
  <2>3. DrainPending(n) = n \/ Began(n, DrainPending(n))
    BY <1>2, <2>2, DrainIs
  <2> QED
    BY <1>3, <2>1, <2>3
<1>5. CASE q.channel = NoSocket
  <2>1. n = Reopen(r, b)
    BY <1>5
  <2> HIDE DEF n
  <2>2. /\ n \in BrainRecord /\ n.status = r.status
        /\ n.dialing = IF shown = b /\ WantsReopen(r) THEN "waiting" ELSE r.dialing
        /\ n.channel = r.channel /\ n.opening = r.opening
        /\ n.refused = r.refused /\ n.stopping = r.stopping
        /\ n.waiting = r.waiting /\ n.turn = r.turn /\ n.asked = r.asked
    BY <1>2, <2>1, ReopenIs
  <2>3. WantsReopen(r) <=> q.dialing = "none" /\ ~q.refused /\ q.opening = NoSocket
    BY <1>2, <1>5 DEF WantsReopen, Running
  <2>4. Ended(q, b, n)
    BY <1>2, <1>5, <2>2, <2>3 DEF Ended
  <2>5. DrainPending(n) = n \/ Began(n, DrainPending(n))
    BY <1>2, <2>2, DrainIs
  <2> QED
    BY <1>3, <2>4, <2>5
<1> QED
  BY <1>4, <1>5

-----------------------------------------------------------------------------
(* What a method leaves of the sockets a record refers to, and of its      *)
(* queue: it stays, with no turn that did not run already, or a turn has   *)
(* begun with its head.                                                    *)

Within(r, q) ==
    /\ r.channel \in {NoSocket, q.channel}
    /\ r.opening \in {NoSocket, q.opening}
    /\ r.dialing \in {"none", "waiting", q.dialing}
    /\ \/ r.turn = NoTurn \/ r.turn = q.turn
       \/ /\ r.turn.at \in {"reading", "serving"}
          /\ \/ q.turn.at \in {"reading", "serving"} /\ r.turn.on = q.turn.on
             \/ q.channel # NoSocket /\ r.turn.on = q.channel

Moves(q, r) ==
    \/ r.waiting = q.waiting /\ r.asked = q.asked /\ (Running(r) => Running(q))
    \/ Running(r) /\ Takes(q, r)

LEMMA BeganKeeps ==
    ASSUME NEW q, NEW b, NEW r, RecordOK(q, b), Began(q, r)
    PROVE  RecordOK(r, b) /\ Within(r, q) /\ r.channel = q.channel /\ Moves(q, r)
<1>1. q \in BrainRecord /\ q.channel \in Socket
  BY Fields DEF RecordOK, Whole, Began
<1>2. ~stood
  <2>1. q.waiting # <<>>
    BY DEF Began, Takes
  <2> QED
    BY <2>1 DEF RecordOK, Over
<1>3. q.opening = NoSocket /\ q.dialing = "none"
  BY DEF RecordOK, Whole, One, Began
<1>4. r.turn.at = "reading" /\ r.turn.on = q.channel /\ r.status = "turn_active"
      /\ r.stopping = FALSE /\ r.channel = q.channel /\ r.channel # NoSocket
      /\ r.opening = NoSocket /\ r.dialing = "none"
  BY <1>3 DEF Began
<1>5. Whole(r)
  BY <1>1, <1>4 DEF Whole, One, TurnForm, Began
<1>6. Shows(r) /\ Sought(r)
  BY <1>4 DEF Shows, Sought, Running
<1>7. Within(r, q)
  BY <1>3, <1>4 DEF Within
<1>8. Moves(q, r)
  BY <1>4 DEF Moves, Running, Began
<1> QED
  BY <1>2, <1>4, <1>5, <1>6, <1>7, <1>8 DEF RecordOK

LEMMA DrainKeeps ==
    ASSUME NEW q, NEW b, RecordOK(q, b)
    PROVE  LET r == DrainPending(q)
           IN  RecordOK(r, b) /\ Within(r, q) /\ r.channel = q.channel /\ Moves(q, r)
<1>1. DrainPending(q) = q \/ Began(q, DrainPending(q))
  BY DrainIs DEF RecordOK, Whole
<1>2. Within(q, q) /\ Moves(q, q)
  BY DEF Within, Moves
<1> QED
  BY <1>1, <1>2, BeganKeeps

LEMMA FinishKeeps ==
    ASSUME NEW q, NEW b, Whole(q), stood => Over(q)
    PROVE  LET r == Finish(q, b)
           IN  /\ RecordOK(r, b) /\ Within(r, q) /\ r.channel = q.channel /\ Moves(q, r)
               /\ r.turn = NoTurn \/ (r.turn.at = "reading" /\ r.turn.on = r.channel)
<1>1. q \in BrainRecord /\ SoloFirst(q.waiting)
  BY DEF Whole
<1>2. PICK n : Ended(q, b, n) /\ (Finish(q, b) = n \/ Began(n, Finish(q, b)))
  BY <1>1, FinishIs
<1>3. /\ n \in BrainRecord /\ n.turn.at = "none" /\ n.turn.on = NoSocket /\ n.turn = NoTurn
      /\ n.stopping = FALSE /\ n.status = IF q.channel # NoSocket THEN "ready" ELSE "failed"
      /\ n.channel = q.channel /\ n.opening = q.opening /\ n.refused = q.refused
      /\ n.waiting = q.waiting /\ n.asked = q.asked
      /\ n.dialing = IF /\ q.channel = NoSocket /\ q.opening = NoSocket
                        /\ shown = b /\ q.dialing = "none" /\ ~q.refused
                     THEN "waiting" ELSE q.dialing
  BY <1>2 DEF Ended, NoTurn
<1>4. ~Running(n)
  BY <1>3 DEF Running
<1>5. Whole(n)
  BY <1>3 DEF Whole, One, TurnForm
<1>6. Shows(n)
  BY <1>3, <1>4 DEF Shows
<1>7. shown = b => Sought(n)
  BY <1>3 DEF Sought
<1>8. stood => Over(n)
  BY <1>3, <1>4 DEF Over
<1>9. RecordOK(n, b)
  BY <1>5, <1>6, <1>7, <1>8 DEF RecordOK
<1>10. Within(n, q) /\ Moves(q, n)
  BY <1>3, <1>4 DEF Within, Moves
<1>11. CASE Finish(q, b) = n
  BY <1>3, <1>9, <1>10, <1>11
<1>12. CASE Began(n, Finish(q, b))
  <2> DEFINE r == Finish(q, b)
  <2>1. RecordOK(r, b) /\ Within(r, n) /\ r.channel = n.channel
    BY <1>9, <1>12, BeganKeeps
  <2>2. Running(r) /\ Takes(n, r) /\ r.turn.at = "reading" /\ r.turn.on = n.channel
        /\ n.channel # NoSocket
    BY <1>12 DEF Began, Running
  <2> HIDE DEF r
  <2>3. Takes(q, r)
    BY <1>3, <2>2 DEF Takes
  <2>4. Within(r, q)
    BY <1>3, <2>1, <2>2 DEF Within
  <2> QED
    BY <1>3, <2>1, <2>2, <2>3, <2>4 DEF Moves, r
<1> QED
  BY <1>2, <1>11, <1>12

-----------------------------------------------------------------------------
(* The outcome of the handshake on socket s.                               *)

(* The record after it: it refers to s no more, but where its session was  *)
(* taken.                                                                  *)
Arrives(q, r, s, took) ==
    /\ took => q.channel = NoSocket
    /\ r.channel = IF took THEN s ELSE q.channel
    /\ r.opening \in {NoSocket, q.opening} /\ r.opening # s
    /\ r.dialing \in {"none", "waiting", q.dialing} /\ r.dialing # s
    /\ \/ r.turn = NoTurn
       \/ r.turn = q.turn /\ q.turn # [at |-> "opening", on |-> s]
       \/ r.turn.at = "reading" /\ r.turn.on = r.channel /\ r.channel # NoSocket

(* hold, up to the turn that it may begin.                                 *)
LEMMA HoldIs ==
    ASSUME NEW q \in BrainRecord, NEW s \in Socket, SoloFirst(q.waiting)
    PROVE  \E n \in BrainRecord :
              /\ n.channel = s /\ n.status = IF Running(q) THEN q.status ELSE "ready"
              /\ n.opening = q.opening /\ n.dialing = q.dialing
              /\ n.refused = q.refused /\ n.stopping = q.stopping
              /\ n.waiting = q.waiting /\ n.turn = q.turn /\ n.asked = q.asked
              /\ Hold(q, s) = n \/ Began(n, Hold(q, s))
<1> DEFINE k == [q EXCEPT !.channel = s]
           n == Settle(k, "ready")
<1>1. /\ k \in BrainRecord /\ k.channel = s /\ k.status = q.status
      /\ k.opening = q.opening /\ k.dialing = q.dialing
      /\ k.refused = q.refused /\ k.stopping = q.stopping
      /\ k.waiting = q.waiting /\ k.turn = q.turn /\ k.asked = q.asked
  BY DEF BrainRecord
<1>2. Hold(q, s) = DrainPending(n)
  BY DEF Hold
<1> HIDE DEF k
<1>3. /\ n \in BrainRecord /\ n.status = IF Running(k) THEN k.status ELSE "ready"
      /\ n.channel = k.channel /\ n.opening = k.opening
      /\ n.dialing = k.dialing /\ n.refused = k.refused /\ n.stopping = k.stopping
      /\ n.waiting = k.waiting /\ n.turn = k.turn /\ n.asked = k.asked
  BY <1>1, SettleIs
<1> HIDE DEF n
<1>4. Running(k) <=> Running(q)
  BY <1>1 DEF Running
<1>5. DrainPending(n) = n \/ Began(n, DrainPending(n))
  BY <1>1, <1>3, DrainIs
<1> QED
  BY <1>1, <1>2, <1>3, <1>4, <1>5

LEMMA GiveUpIs ==
    ASSUME NEW q \in BrainRecord, NEW b, NEW refusal \in BOOLEAN
    PROVE  LET r == GiveUp(q, b, refusal)
           IN  /\ r \in BrainRecord
               /\ r.status = IF Running(q) THEN q.status ELSE "failed"
               /\ r.refused = (q.refused \/ refusal)
               /\ r.dialing = IF /\ shown = b /\ q.dialing = "none" /\ ~r.refused
                                 /\ q.channel = NoSocket /\ q.opening = NoSocket /\ ~Running(q)
                              THEN "waiting" ELSE q.dialing
               /\ r.channel = q.channel /\ r.opening = q.opening /\ r.stopping = q.stopping
               /\ r.waiting = q.waiting /\ r.turn = q.turn /\ r.asked = q.asked
<1> DEFINE lost == q.refused \/ refusal
           k == [q EXCEPT !.refused = lost]
           n == Settle(k, "failed")
           r == Reopen(n, b)
<1>1. lost \in BOOLEAN /\ GiveUp(q, b, refusal) = r
  BY Fields DEF GiveUp
<1> HIDE DEF lost
<1>2. /\ k \in BrainRecord /\ k.refused = lost /\ k.status = q.status
      /\ k.channel = q.channel /\ k.opening = q.opening
      /\ k.dialing = q.dialing /\ k.stopping = q.stopping
      /\ k.waiting = q.waiting /\ k.turn = q.turn /\ k.asked = q.asked
  BY <1>1 DEF BrainRecord
<1> HIDE DEF k
<1>3. /\ n \in BrainRecord /\ n.status = IF Running(k) THEN k.status ELSE "failed"
      /\ n.channel = k.channel /\ n.opening = k.opening
      /\ n.dialing = k.dialing /\ n.refused = k.refused /\ n.stopping = k.stopping
      /\ n.waiting = k.waiting /\ n.turn = k.turn /\ n.asked = k.asked
  BY <1>2, SettleIs
<1> HIDE DEF n
<1>4. /\ r \in BrainRecord /\ r.status = n.status
      /\ r.dialing = IF shown = b /\ WantsReopen(n) THEN "waiting" ELSE n.dialing
      /\ r.channel = n.channel /\ r.opening = n.opening
      /\ r.refused = n.refused /\ r.stopping = n.stopping
      /\ r.waiting = n.waiting /\ r.turn = n.turn /\ r.asked = n.asked
  BY <1>3, ReopenIs
<1> HIDE DEF r
<1>5. (Running(k) <=> Running(q)) /\ (Running(n) <=> Running(q))
  BY <1>2, <1>3 DEF Running
<1>6. WantsReopen(n) <=> /\ q.dialing = "none" /\ ~lost /\ q.channel = NoSocket
                         /\ q.opening = NoSocket /\ ~Running(q)
  BY <1>2, <1>3, <1>5 DEF WantsReopen
<1> QED
  BY <1>1, <1>2, <1>3, <1>4, <1>5, <1>6 DEF lost

(* The person's own open has come to a session.                            *)
LEMMA OpenedKeeps ==
    ASSUME NEW q, NEW b, NEW s \in Socket, RecordOK(q, b), q.opening = s
    PROVE  LET r == TurnOpened(Hold([q EXCEPT !.opening = NoSocket], s), s)
           IN  RecordOK(r, b) /\ Arrives(q, r, s, TRUE) /\ Moves(q, r)
<1> DEFINE k == [q EXCEPT !.opening = NoSocket]
           h == Hold(k, s)
           waits == [at |-> "opening", on |-> s]
<1>1. q \in BrainRecord /\ One(q) /\ TurnForm(q) /\ SoloFirst(q.waiting) /\ s # NoSocket
  BY Basics DEF RecordOK, Whole
<1>2. q.channel = NoSocket /\ q.dialing = "none"
  BY <1>1 DEF One
<1>3. /\ k \in BrainRecord /\ k.opening = NoSocket /\ k.status = q.status
      /\ k.channel = q.channel /\ k.dialing = q.dialing
      /\ k.refused = q.refused /\ k.stopping = q.stopping
      /\ k.waiting = q.waiting /\ k.turn = q.turn /\ k.asked = q.asked
  BY <1>1 DEF BrainRecord
<1> HIDE DEF k
<1>4. Running(k) <=> Running(q)
  BY <1>3 DEF Running
<1>5. PICK n \in BrainRecord :
        /\ n.channel = s /\ n.status = IF Running(k) THEN k.status ELSE "ready"
        /\ n.opening = k.opening /\ n.dialing = k.dialing
        /\ n.refused = k.refused /\ n.stopping = k.stopping
        /\ n.waiting = k.waiting /\ n.turn = k.turn /\ n.asked = k.asked
        /\ h = n \/ Began(n, h)
  BY <1>1, <1>3, HoldIs
<1>6. /\ n.channel = s /\ n.status = IF Running(q) THEN q.status ELSE "ready"
      /\ n.opening = NoSocket /\ n.dialing = "none"
      /\ n.refused = q.refused /\ n.stopping = q.stopping
      /\ n.waiting = q.waiting /\ n.turn = q.turn /\ n.asked = q.asked
  BY <1>2, <1>3, <1>4, <1>5
<1>7. Running(n) <=> Running(q)
  BY <1>6 DEF Running
<1>8. Whole(n)
  BY <1>1, <1>5, <1>6 DEF Whole, One, TurnForm
<1>9. stood => Over(n)
  BY <1>6, <1>7 DEF RecordOK, Over
<1> HIDE DEF h
<1>10. CASE q.turn = waits
  <2>1. ~Began(n, h)
    <3>1. ~stood => Running(n)
      BY <1>7, <1>10 DEF RecordOK, Shows
    <3>2. stood => n.waiting = <<>>
      BY <1>9 DEF Over
    <3>3. Began(n, h) => n.waiting # <<>>
      BY DEF Began, Takes
    <3>4. Began(n, h) => ~Running(n)
      BY DEF Began
    <3> QED
      BY <3>1, <3>2, <3>3, <3>4
  <2> DEFINE r == CarryTurn(n, s)
  <2>2. TurnOpened(h, s) = r
    BY <1>5, <1>6, <1>10, <2>1 DEF TurnOpened
  <2>3. /\ r \in BrainRecord /\ r.turn = [at |-> "reading", on |-> s] /\ r.stopping = FALSE
        /\ r.status = n.status /\ r.channel = n.channel /\ r.opening = n.opening
        /\ r.dialing = n.dialing /\ r.refused = n.refused
        /\ r.waiting = n.waiting /\ r.asked = n.asked
    BY CarryTurnIs
  <2> HIDE DEF r
  <2>4. (Running(r) <=> Running(q)) /\ r.turn.at = "reading" /\ r.turn.on = s
    BY <1>7, <2>3 DEF Running
  <2>5. Whole(r)
    BY <1>1, <1>6, <2>3, <2>4 DEF Whole, One, TurnForm
  <2>6. ~stood => Shows(r)
    <3>1. ~stood => Running(r) /\ r.status = "turn_active"
      BY <1>10, <2>4 DEF RecordOK, Shows, Running
    <3> QED
      BY <2>3, <2>4, <3>1 DEF Shows
  <2>7. Sought(r)
    BY <2>4 DEF Sought
  <2>8. stood => Over(r)
    BY <1>6, <2>3, <2>4 DEF RecordOK, Over
  <2>9. Arrives(q, r, s, TRUE)
    BY <1>1, <1>2, <1>6, <2>3, <2>4, Basics DEF Arrives
  <2>10. Moves(q, r)
    BY <1>6, <2>3, <2>4 DEF Moves
  <2> QED
    BY <2>2, <2>5, <2>6, <2>7, <2>8, <2>9, <2>10 DEF RecordOK, k, h
<1>11. CASE q.turn # waits
  <2>1. ~stood => Shows(n)
    <3> SUFFICES ASSUME ~stood
                 PROVE  Shows(n)
      OBVIOUS
    <3>1. Shows(q) /\ q.turn \in Turn
      BY <1>1, Fields DEF RecordOK
    <3>2. q.turn.at # "opening"
      BY <1>11, <3>1 DEF Shows, Turn
    <3> QED
      BY <1>1, <1>6, <1>7, <3>1, <3>2 DEF Shows, Running
  <2>2. RecordOK(n, b)
    BY <1>1, <1>6, <1>8, <1>9, <2>1 DEF RecordOK, Sought
  <2>3. RecordOK(h, b) /\ h.channel = s /\ Within(h, n) /\ Moves(n, h)
    BY <1>5, <1>6, <2>2, BeganKeeps DEF Within, Moves
  <2>4. h.turn # waits
    BY <1>5, <1>6, <1>11 DEF Began
  <2>5. TurnOpened(h, s) = h
    BY <2>4 DEF TurnOpened
  <2>6. h.turn = q.turn \/ (h.turn.at = "reading" /\ h.turn.on = s)
    BY <1>5, <1>6 DEF Began
  <2>7. Arrives(q, h, s, TRUE)
    BY <1>1, <1>2, <1>6, <1>11, <2>3, <2>6, Basics DEF Arrives, Within
  <2>8. Moves(q, h)
    BY <1>6, <1>7, <2>3 DEF Moves, Takes
  <2> QED
    BY <2>3, <2>5, <2>7, <2>8 DEF k, h
<1> QED
  BY <1>10, <1>11

(* The person's own open, or the turn that waits for it, is given up.      *)
LEMMA LostKeeps ==
    ASSUME NEW q, NEW b, NEW s \in Socket, NEW g, Whole(g), stood => Over(g),
           g.channel = q.channel, g.opening \in {NoSocket, q.opening}, g.opening # s,
           g.dialing \in {"none", "waiting", q.dialing}, g.dialing # s,
           g.turn = q.turn, q.turn = [at |-> "opening", on |-> s],
           g.waiting = q.waiting, g.asked = q.asked, Running(g) => Running(q)
    PROVE  LET r == TurnUnopened(g, b, s)
           IN  RecordOK(r, b) /\ Arrives(q, r, s, FALSE) /\ Moves(q, r)
<1> DEFINE r == Finish(g, b)
<1>1. TurnUnopened(g, b, s) = r
  BY DEF TurnUnopened
<1>2. /\ RecordOK(r, b) /\ Within(r, g) /\ r.channel = g.channel /\ Moves(g, r)
      /\ r.turn = NoTurn \/ (r.turn.at = "reading" /\ r.turn.on = r.channel)
  BY FinishKeeps
<1> HIDE DEF r
<1>3. r.turn.at = "reading" /\ r.turn.on = r.channel => r.channel # NoSocket
  BY <1>2 DEF RecordOK, Whole, TurnForm
<1>4. Arrives(q, r, s, FALSE)
  BY <1>2, <1>3, Basics DEF Arrives, Within
<1>5. Moves(q, r)
  BY <1>2 DEF Moves, Takes
<1> QED
  BY <1>1, <1>2, <1>4, <1>5

LEMMA NotOpenedKeeps ==
    ASSUME NEW q, NEW b, NEW s \in Socket, RecordOK(q, b), q.opening = s,
           NEW refusal \in BOOLEAN
    PROVE  LET r == TurnUnopened(GiveUp([q EXCEPT !.opening = NoSocket], b, refusal), b, s)
           IN  RecordOK(r, b) /\ Arrives(q, r, s, FALSE) /\ Moves(q, r)
<1> DEFINE k == [q EXCEPT !.opening = NoSocket]
           g == GiveUp(k, b, refusal)
           waits == [at |-> "opening", on |-> s]
<1>1. q \in BrainRecord /\ One(q) /\ TurnForm(q) /\ SoloFirst(q.waiting) /\ s # NoSocket
  BY Basics DEF RecordOK, Whole
<1>2. q.channel = NoSocket /\ q.dialing = "none"
  BY <1>1 DEF One
<1>3. /\ k \in BrainRecord /\ k.opening = NoSocket /\ k.status = q.status
      /\ k.channel = q.channel /\ k.dialing = q.dialing
      /\ k.refused = q.refused /\ k.stopping = q.stopping
      /\ k.waiting = q.waiting /\ k.turn = q.turn /\ k.asked = q.asked
  BY <1>1 DEF BrainRecord
<1> HIDE DEF k
<1>4. Running(k) <=> Running(q)
  BY <1>3 DEF Running
<1>5. /\ g \in BrainRecord
      /\ g.status = IF Running(k) THEN k.status ELSE "failed"
      /\ g.refused = (k.refused \/ refusal)
      /\ g.dialing = IF /\ shown = b /\ k.dialing = "none" /\ ~g.refused
                        /\ k.channel = NoSocket /\ k.opening = NoSocket /\ ~Running(k)
                     THEN "waiting" ELSE k.dialing
      /\ g.channel = k.channel /\ g.opening = k.opening /\ g.stopping = k.stopping
      /\ g.waiting = k.waiting /\ g.turn = k.turn /\ g.asked = k.asked
  BY <1>3, GiveUpIs
<1> HIDE DEF g
<1>6. /\ g.status = IF Running(q) THEN q.status ELSE "failed"
      /\ g.dialing \in {"none", "waiting"}
      /\ shown = b /\ ~Running(q) => g.refused \/ g.dialing = "waiting"
      /\ g.channel = NoSocket /\ g.opening = NoSocket /\ g.stopping = q.stopping
      /\ g.waiting = q.waiting /\ g.turn = q.turn /\ g.asked = q.asked
  BY <1>2, <1>3, <1>4, <1>5
<1>7. Running(g) <=> Running(q)
  BY <1>6 DEF Running
<1>8. Whole(g)
  BY <1>1, <1>5, <1>6 DEF Whole, One, TurnForm
<1>9. stood => Over(g)
  BY <1>6, <1>7 DEF RecordOK, Over
<1>10. CASE q.turn = waits
  <2>1. g.dialing # s
    BY <1>6, Basics
  <2> QED
    BY <1>1, <1>2, <1>6, <1>7, <1>8, <1>9, <1>10, <2>1, LostKeeps DEF g, k
<1>11. CASE q.turn # waits
  <2>1. TurnUnopened(g, b, s) = g
    BY <1>6, <1>11 DEF TurnUnopened
  <2>2. ~stood => Shows(g)
    <3> SUFFICES ASSUME ~stood
                 PROVE  Shows(g)
      OBVIOUS
    <3>1. Shows(q) /\ q.turn \in Turn
      BY <1>1, Fields DEF RecordOK
    <3>2. q.turn.at # "opening"
      BY <1>11, <3>1 DEF Shows, Turn
    <3> QED
      BY <1>6, <1>7, <3>1, <3>2 DEF Shows, Running
  <2>3. ~stood /\ shown = b => Sought(g)
    BY <1>6 DEF Sought, RecordOK, Shows
  <2>4. RecordOK(g, b)
    BY <1>8, <1>9, <2>2, <2>3 DEF RecordOK
  <2>5. Arrives(q, g, s, FALSE)
    BY <1>1, <1>2, <1>6, <1>11, Basics DEF Arrives
  <2>6. Moves(q, g)
    BY <1>6, <1>7 DEF Moves
  <2> QED
    BY <2>1, <2>4, <2>5, <2>6 DEF g, k
<1> QED
  BY <1>10, <1>11

(* The quiet loop has come to a session.                                   *)
LEMMA RedialedKeeps ==
    ASSUME NEW q, NEW b, NEW s \in Socket, RecordOK(q, b), q.dialing = s,
           q.turn # [at |-> "opening", on |-> s]
    PROVE  LET r == [Hold(q, s) EXCEPT !.dialing = "none"]
           IN  RecordOK(r, b) /\ Arrives(q, r, s, TRUE) /\ Moves(q, r)
<1> DEFINE h == Hold(q, s)
           r == [h EXCEPT !.dialing = "none"]
<1>1. /\ q \in BrainRecord /\ One(q) /\ TurnForm(q) /\ SoloFirst(q.waiting)
      /\ s # NoSocket /\ s # "none"
  BY Basics DEF RecordOK, Whole
<1>2. q.channel = NoSocket /\ q.opening = NoSocket
  BY <1>1 DEF One
<1>3. PICK n \in BrainRecord :
        /\ n.channel = s /\ n.status = IF Running(q) THEN q.status ELSE "ready"
        /\ n.opening = q.opening /\ n.dialing = q.dialing
        /\ n.refused = q.refused /\ n.stopping = q.stopping
        /\ n.waiting = q.waiting /\ n.turn = q.turn /\ n.asked = q.asked
        /\ h = n \/ Began(n, h)
  BY <1>1, HoldIs
<1> DEFINE m == [n EXCEPT !.dialing = "none"]
<1>4. /\ m \in BrainRecord /\ m.channel = s /\ m.status = n.status
      /\ m.opening = NoSocket /\ m.dialing = "none"
      /\ m.stopping = q.stopping /\ m.waiting = q.waiting
      /\ m.turn = q.turn /\ m.asked = q.asked
  BY <1>2, <1>3 DEF BrainRecord
<1>5. (Running(m) <=> Running(q)) /\ (Running(n) <=> Running(q))
  BY <1>3, <1>4 DEF Running
<1>6. r = m \/ Began(m, r)
  <2>1. CASE h = n
    BY <2>1
  <2>2. CASE Began(n, h)
    <3> HIDE DEF h, m
    <3>1. /\ r \in BrainRecord /\ r.status = h.status /\ r.turn = h.turn
          /\ r.stopping = h.stopping /\ r.channel = h.channel /\ r.opening = h.opening
          /\ r.dialing = "none" /\ r.waiting = h.waiting /\ r.asked = h.asked
      BY <2>2 DEF BrainRecord, Began
    <3> HIDE DEF r
    <3>2. Takes(m, r)
      <4>1. Takes(n, h)
        BY <2>2 DEF Began
      <4> QED
        BY ZenonT(30), <1>3, <1>4, <3>1, <4>1 DEF Takes
    <3> QED
      BY <1>1, <1>2, <1>3, <1>4, <1>5, <2>2, <3>1, <3>2 DEF Began
  <2> QED
    BY <1>3, <2>1, <2>2
<1> HIDE DEF m, r
<1>7. Whole(m)
  BY <1>1, <1>4 DEF Whole, One, TurnForm
<1>8. ~stood => Shows(m)
  <2> SUFFICES ASSUME ~stood
               PROVE  Shows(m)
    OBVIOUS
  <2>1. Shows(q)
    BY DEF RecordOK
  <2>2. q.turn.at # "opening"
    BY <1>1, <1>2, <2>1 DEF Shows, TurnForm
  <2> QED
    BY <1>1, <1>3, <1>4, <1>5, <2>1, <2>2 DEF Shows, Running
<1>9. RecordOK(m, b)
  BY <1>1, <1>4, <1>5, <1>7, <1>8 DEF RecordOK, Sought, Over
<1>10. /\ RecordOK(r, b) /\ r.channel = s /\ Within(r, m) /\ Moves(m, r)
       /\ r.turn = m.turn \/ (r.turn.at = "reading" /\ r.turn.on = s)
  <2>1. CASE r = m
    BY <1>4, <1>9, <2>1 DEF Within, Moves
  <2>2. CASE Began(m, r)
    <3>1. r.turn.at = "reading" /\ r.turn.on = m.channel
      BY <2>2 DEF Began
    <3> QED
      BY <1>4, <1>9, <2>2, <3>1, BeganKeeps
  <2> QED
    BY <1>6, <2>1, <2>2
<1>11. Arrives(q, r, s, TRUE)
  BY <1>1, <1>2, <1>4, <1>10, Basics DEF Arrives, Within
<1>12. Moves(q, r)
  BY <1>4, <1>5, <1>10 DEF Moves, Takes
<1> QED
  BY <1>10, <1>11, <1>12 DEF r

LEMMA RefusedKeeps ==
    ASSUME NEW q, NEW b, NEW s \in Socket, RecordOK(q, b), q.dialing = s,
           q.turn # [at |-> "opening", on |-> s]
    PROVE  LET r == [GiveUp(q, b, TRUE) EXCEPT !.dialing = "none"]
           IN  RecordOK(r, b) /\ Arrives(q, r, s, FALSE) /\ Moves(q, r)
<1> DEFINE g == GiveUp(q, b, TRUE)
           r == [g EXCEPT !.dialing = "none"]
<1>1. /\ q \in BrainRecord /\ One(q) /\ TurnForm(q) /\ SoloFirst(q.waiting)
      /\ s # NoSocket /\ s # "none"
  BY Basics DEF RecordOK, Whole
<1>2. q.channel = NoSocket /\ q.opening = NoSocket
  BY <1>1 DEF One
<1>3. /\ g \in BrainRecord
      /\ g.status = IF Running(q) THEN q.status ELSE "failed"
      /\ g.refused
      /\ g.channel = q.channel /\ g.opening = q.opening /\ g.stopping = q.stopping
      /\ g.waiting = q.waiting /\ g.turn = q.turn /\ g.asked = q.asked
  <2>1. PICK refusal \in BOOLEAN : refusal = TRUE
    OBVIOUS
  <2> HIDE DEF g, r
  <2> DEFINE v == GiveUp(q, b, refusal)
  <2>2. q \in BrainRecord
    BY <1>1
  <2>3. /\ v \in BrainRecord
        /\ v.status = IF Running(q) THEN q.status ELSE "failed"
        /\ v.refused = (q.refused \/ refusal)
        /\ v.dialing = IF /\ shown = b /\ q.dialing = "none" /\ ~v.refused
                          /\ q.channel = NoSocket /\ q.opening = NoSocket /\ ~Running(q)
                       THEN "waiting" ELSE q.dialing
        /\ v.channel = q.channel /\ v.opening = q.opening /\ v.stopping = q.stopping
        /\ v.waiting = q.waiting /\ v.turn = q.turn /\ v.asked = q.asked
    BY <2>2, GiveUpIs
  <2>4. v = g
    BY <2>1 DEF g
  <2> HIDE DEF v
  <2> QED
    BY <2>1, <2>3, <2>4
<1> HIDE DEF g
<1>4. /\ r \in BrainRecord /\ r.status = IF Running(q) THEN q.status ELSE "failed"
      /\ r.refused /\ r.dialing = "none" /\ r.channel = NoSocket /\ r.opening = NoSocket
      /\ r.stopping = q.stopping /\ r.waiting = q.waiting
      /\ r.turn = q.turn /\ r.asked = q.asked
  BY <1>2, <1>3 DEF BrainRecord
<1> HIDE DEF r
<1>5. Running(r) <=> Running(q)
  BY <1>4 DEF Running
<1>6. ~stood => Shows(r)
  <2> SUFFICES ASSUME ~stood
               PROVE  Shows(r)
    OBVIOUS
  <2>1. Shows(q)
    BY DEF RecordOK
  <2>2. q.turn.at # "opening"
    BY <1>1, <1>2, <2>1 DEF Shows, TurnForm
  <2> QED
    BY <1>4, <1>5, <2>1, <2>2 DEF Shows, Running
<1>7. Whole(r)
  BY <1>1, <1>4 DEF Whole, One, TurnForm
<1>8. RecordOK(r, b)
  BY <1>4, <1>5, <1>6, <1>7 DEF RecordOK, Sought, Over
<1>9. Arrives(q, r, s, FALSE)
  BY <1>1, <1>2, <1>4, Basics DEF Arrives
<1>10. Moves(q, r)
  BY <1>4, <1>5 DEF Moves
<1> QED
  BY <1>8, <1>9, <1>10 DEF r, g

LEMMA UnavailableKeeps ==
    ASSUME NEW q, NEW b, NEW s \in Socket, RecordOK(q, b), q.dialing = s,
           q.turn # [at |-> "opening", on |-> s]
    PROVE  LET r == [q EXCEPT !.dialing = "waiting"]
           IN  RecordOK(r, b) /\ Arrives(q, r, s, FALSE) /\ Moves(q, r)
<1> DEFINE r == [q EXCEPT !.dialing = "waiting"]
<1>1. /\ q \in BrainRecord /\ One(q) /\ TurnForm(q) /\ SoloFirst(q.waiting)
      /\ s # NoSocket /\ s # "none" /\ s # "waiting"
  BY Basics DEF RecordOK, Whole
<1>2. q.channel = NoSocket /\ q.opening = NoSocket
  BY <1>1 DEF One
<1>3. /\ r \in BrainRecord /\ r.status = q.status
      /\ r.refused = q.refused /\ r.dialing = "waiting"
      /\ r.channel = q.channel /\ r.opening = q.opening
      /\ r.stopping = q.stopping /\ r.waiting = q.waiting
      /\ r.turn = q.turn /\ r.asked = q.asked
  BY <1>1 DEF BrainRecord
<1> HIDE DEF r
<1>4. Running(r) <=> Running(q)
  BY <1>3 DEF Running
<1>5. Whole(r)
  BY <1>1, <1>2, <1>3 DEF Whole, One, TurnForm
<1>6. ~stood => Shows(r)
  BY <1>3, <1>4 DEF RecordOK, Shows
<1>7. Sought(r)
  BY <1>3 DEF Sought
<1>8. RecordOK(r, b)
  BY <1>3, <1>4, <1>5, <1>6, <1>7 DEF RecordOK, Over
<1>9. Arrives(q, r, s, FALSE)
  BY <1>1, <1>2, <1>3 DEF Arrives
<1>10. Moves(q, r)
  BY <1>3, <1>4 DEF Moves
<1> QED
  BY <1>8, <1>9, <1>10 DEF r

(* Any outcome: a session is taken when the brain expects it.              *)
LEMMA OutcomeKeeps ==
    ASSUME NEW q, NEW b, NEW s \in Socket, RecordOK(q, b),
           q.dialing = s => q.turn # [at |-> "opening", on |-> s],
           NEW came \in {"opened", "refused", "unavailable"}
    PROVE  LET r == Outcome(q, b, s, came)
           IN  /\ RecordOK(r, b) /\ Moves(q, r)
               /\ Arrives(q, r, s, came = "opened" /\ Expects(q, s))
<1> DEFINE r == Outcome(q, b, s, came)
           k == [q EXCEPT !.opening = NoSocket]
<1>1. q \in BrainRecord /\ Whole(q) /\ (stood => Over(q))
  BY DEF RecordOK, Whole
<1>2. ASSUME q.opening = s
      PROVE  /\ r = IF came = "opened" THEN TurnOpened(Hold(k, s), s)
                    ELSE TurnUnopened(GiveUp(k, b, came = "refused"), b, s)
             /\ Expects(q, s)
  <2>1. [q EXCEPT !.opening = IF @ = s THEN NoSocket ELSE @] = k
    BY <1>2
  <2> QED
    BY <1>2, <2>1 DEF Outcome, Expects
<1>3. CASE q.opening = s /\ came = "opened"
  BY <1>2, <1>3, OpenedKeeps
<1>4. CASE q.opening = s /\ came # "opened"
  BY <1>2, <1>4, NotOpenedKeeps
<1>5. ASSUME q.opening # s, q.dialing = s
      PROVE  /\ r = CASE came = "opened"  -> [Hold(q, s) EXCEPT !.dialing = "none"]
                      [] came = "refused" -> [GiveUp(q, b, TRUE) EXCEPT !.dialing = "none"]
                      [] OTHER            -> [q EXCEPT !.dialing = "waiting"]
             /\ Expects(q, s)
  BY <1>5 DEF Outcome, Expects
<1>6. CASE q.opening # s /\ q.dialing = s /\ came = "opened"
  <2> DEFINE v == [Hold(q, s) EXCEPT !.dialing = "none"]
  <2>1. r = v /\ Expects(q, s)
    BY <1>5, <1>6
  <2>2. RecordOK(v, b) /\ Arrives(q, v, s, TRUE) /\ Moves(q, v)
    BY <1>6, RedialedKeeps
  <2> HIDE DEF v
  <2> QED
    BY <1>6, <2>1, <2>2 DEF Arrives
<1>7. CASE q.opening # s /\ q.dialing = s /\ came = "refused"
  <2> DEFINE v == [GiveUp(q, b, TRUE) EXCEPT !.dialing = "none"]
  <2>1. r = v /\ Expects(q, s)
    BY <1>5, <1>7
  <2>2. RecordOK(v, b) /\ Arrives(q, v, s, FALSE) /\ Moves(q, v)
    BY <1>7, RefusedKeeps
  <2> HIDE DEF v
  <2> QED
    BY <1>7, <2>1, <2>2 DEF Arrives
<1>8. CASE q.opening # s /\ q.dialing = s /\ came = "unavailable"
  <2> DEFINE v == [q EXCEPT !.dialing = "waiting"]
  <2>1. r = v /\ Expects(q, s)
    BY <1>5, <1>8
  <2>2. RecordOK(v, b) /\ Arrives(q, v, s, FALSE) /\ Moves(q, v)
    BY <1>8, UnavailableKeeps
  <2> HIDE DEF v
  <2> QED
    BY <1>8, <2>1, <2>2 DEF Arrives
<1>9. CASE q.opening # s /\ q.dialing # s
  <2>1. r = TurnUnopened(q, b, s) /\ ~Expects(q, s)
    BY <1>9 DEF Outcome, Expects
  <2>2. CASE q.turn = [at |-> "opening", on |-> s]
    BY <1>1, <1>9, <2>1, <2>2, LostKeeps
  <2>3. CASE q.turn # [at |-> "opening", on |-> s]
    <3>1. r = q
      BY <2>1, <2>3 DEF TurnUnopened
    <3> QED
      BY <1>1, <1>9, <2>1, <2>3, <3>1, Fields DEF Arrives, Moves
  <2> QED
    BY <2>2, <2>3
<1> QED
  BY <1>3, <1>4, <1>6, <1>7, <1>8, <1>9

-----------------------------------------------------------------------------
(* The steps.                                                              *)

LEMMA SocketFields ==
    ASSUME TypeOK, NEW s \in Socket
    PROVE  /\ socket[s] \in SocketRecord
           /\ socket[s].state \in
                {"free", "dialing", "asking", "late", "open", "closing", "closed"}
           /\ socket[s].by \in {"open", "loop"} /\ socket[s].of \in Brain \cup {NoSocket}
           /\ socket[s].ended \in BOOLEAN
BY DEF TypeOK, SocketRecord

(* A step that sets the record of one brain.                               *)
LEMMA OneBrain ==
    ASSUME SessionInv, NEW b \in Brain, NEW r, RecordOK(r, b),
           UNCHANGED <<shown, stood>>, brain' = [brain EXCEPT ![b] = r],
           socket' \in [Socket -> SocketRecord],
           Refers(r, b)', \A c \in Brain : \A k : c # b /\ k = brain[c] => Refers(k, c)',
           Named', Held'
    PROVE  SessionInv'
<1>1. r \in BrainRecord
  BY DEF RecordOK, Whole
<1>2. brain \in [Brain -> BrainRecord]
  BY DEF SessionInv, TypeOK
<1>3. /\ brain' \in [Brain -> BrainRecord] /\ brain'[b] = r
      /\ \A c \in Brain : c # b => brain'[c] = brain[c]
  BY <1>1, <1>2
<1>4. TypeOK'
  BY <1>3 DEF SessionInv, TypeOK
<1>5. Records'
  <2> SUFFICES ASSUME NEW c \in Brain
               PROVE  RecordOK(brain[c], c)'
    BY DEF Records
  <2>1. RecordOK(brain'[c], c)
    BY <1>3 DEF SessionInv, Records
  <2> QED
    BY <2>1 DEF RecordOK, Shows, Sought, Over, Running
<1>6. Referred'
  <2> SUFFICES ASSUME NEW c \in Brain
               PROVE  Refers(brain[c], c)'
    BY DEF Referred
  <2>1. CASE c = b
    <3>1. (brain[c])' = r
      BY <1>3, <2>1
    <3> QED
      BY <2>1, <3>1 DEF Refers, Session, Handshake
  <2>2. CASE c # b
    <3>1. PICK k : k = brain[c]
      OBVIOUS
    <3>2. Refers(k, c)' /\ (brain[c])' = k
      BY <1>3, <2>2, <3>1
    <3> QED
      BY SMTT(30), <3>2 DEF Refers, Session, Handshake
  <2> QED
    BY <2>1, <2>2
<1> QED
  BY <1>4, <1>5, <1>6 DEF SessionInv

(* A step that dials and closes nothing.                                   *)
LEMMA ReferringKeeps ==
    ASSUME SessionInv, NEW b \in Brain, NEW r, RecordOK(r, b),
           Refers(r, b), r.channel = brain[b].channel, Sets(b, r)
    PROVE  SessionInv'
<1>1. PICK q : q = brain[b]
  OBVIOUS
<1>2. /\ UNCHANGED <<shown, socket, stood>> /\ brain' = [brain EXCEPT ![b] = r]
      /\ Refers(r, b) /\ r.channel = q.channel
  BY <1>1 DEF Sets
<1>3. r \in BrainRecord
  BY DEF RecordOK, Whole
<1>4. /\ brain' \in [Brain -> BrainRecord] /\ brain'[b] = r
      /\ \A c \in Brain : c # b => brain'[c] = brain[c]
  BY <1>2, <1>3 DEF SessionInv, TypeOK
<1>5. Refers(r, b)'
  BY <1>2 DEF Refers, Session, Handshake
<1>6. \A c \in Brain : \A k : c # b /\ k = brain[c] => Refers(k, c)'
  <2> SUFFICES ASSUME NEW c \in Brain, NEW k, k = brain[c]
               PROVE  Refers(k, c)'
    OBVIOUS
  <2>1. Refers(k, c)
    BY DEF SessionInv, Referred
  <2> QED
    BY SMTT(30), <1>2, <2>1 DEF Refers, Session, Handshake
<1>7. Named'
  BY <1>2 DEF SessionInv, Named
<1>8. Held'
  <2> SUFFICES ASSUME NEW s \in Socket, socket[s].state = "open"
               PROVE  brain'[socket[s].of].channel = s
    BY <1>2 DEF Held
  <2>1. brain[socket[s].of].channel = s /\ socket[s].of \in Brain
    BY DEF SessionInv, Held, Named
  <2> QED
    BY <1>1, <1>2, <1>4, <2>1
<1>9. socket' \in [Socket -> SocketRecord]
  BY <1>2 DEF SessionInv, TypeOK
<1> QED
  BY <1>2, <1>5, <1>6, <1>7, <1>8, <1>9, OneBrain

LEMMA SetsKeeps ==
    ASSUME SessionInv, NEW b \in Brain, NEW r, RecordOK(r, b),
           Within(r, brain[b]), r.channel = brain[b].channel, Sets(b, r)
    PROVE  SessionInv'
<1>1. PICK q : q = brain[b]
  OBVIOUS
<1>2. Within(r, q) /\ Refers(q, b)
  BY <1>1 DEF SessionInv, Referred
<1>3. Refers(r, b)
  BY <1>2, Basics DEF Refers, Session, Handshake, Within, NoTurn
<1> QED
  BY <1>3, ReferringKeeps

(* No record refers to a free socket.                                      *)
LEMMA FreeIsUnused ==
    ASSUME SessionInv, NEW b \in Brain, NEW q, q = brain[b], NEW s \in Socket, Free(s)
    PROVE  /\ q.channel # s /\ q.opening # s /\ q.dialing # s /\ q.turn.on # s
           /\ socket[s].state # "open"
<1>1. Refers(q, b) /\ q \in BrainRecord /\ TurnForm(q)
  BY DEF SessionInv, Referred, Records, RecordOK, Whole
<1>2. socket[s].state \in {"free", "closed"} /\ s # NoSocket
  BY Basics DEF Free
<1>3. q.turn.at = "none" => q.turn.on = NoSocket
  BY <1>1 DEF TurnForm
<1>4. socket[s].state = "closed" => q.turn.on # s
  BY DEF Free
<1> QED
  BY <1>1, <1>2, <1>3, <1>4, Fields DEF Refers, Session, Handshake

LEMMA FreshIs ==
    ASSUME CanDial
    PROVE  Fresh \in Socket /\ Free(Fresh)
BY DEF CanDial, Fresh

(* A step that dials a free socket for a brain.                            *)
LEMMA DialsKeeps ==
    ASSUME SessionInv, NEW b \in Brain, NEW r, RecordOK(r, b), NEW s \in Socket, Free(s),
           NEW by \in {"open", "loop"},
           r.channel = brain[b].channel,
           r.opening = s \/ r.opening = brain[b].opening,
           r.dialing = s \/ r.dialing = brain[b].dialing \/ r.dialing = "none",
           r.opening = s => by = "open", r.dialing = s => by = "loop",
           \/ r.turn = brain[b].turn
           \/ r.turn = [at |-> "opening", on |-> s] /\ by = "open",
           UNCHANGED <<shown, stood>>, brain' = [brain EXCEPT ![b] = r],
           socket' = [socket EXCEPT ![s] = Dialed(b, by)]
    PROVE  SessionInv'
<1>1. PICK q : q = brain[b]
  OBVIOUS
<1>2. /\ r.channel = q.channel /\ (r.opening = s \/ r.opening = q.opening)
      /\ r.dialing = s \/ r.dialing = q.dialing \/ r.dialing = "none"
      /\ r.turn = q.turn \/ (r.turn = [at |-> "opening", on |-> s] /\ by = "open")
      /\ Refers(q, b)
  BY <1>1 DEF SessionInv, Referred
<1>3. /\ Dialed(b, by) \in SocketRecord /\ Dialed(b, by).state = "dialing"
      /\ Dialed(b, by).of = b /\ Dialed(b, by).by = by
  BY DEF Dialed, SocketRecord
<1>4. /\ socket' \in [Socket -> SocketRecord]
      /\ socket'[s].state = "dialing" /\ socket'[s].of = b /\ socket'[s].by = by
      /\ \A x \in Socket : x # s => socket'[x] = socket[x]
  BY <1>3 DEF SessionInv, TypeOK
<1>5. q.channel # s /\ q.opening # s /\ q.dialing # s /\ q.turn.on # s
  BY <1>1, FreeIsUnused
<1>6. Refers(r, b)'
  <2>1. r.channel # NoSocket => Session(r.channel, b, {"open", "closing"})'
    BY <1>2, <1>4, <1>5 DEF Refers, Session
  <2>2. r.opening # NoSocket => Handshake(r.opening, b, "open")'
    BY <1>2, <1>4, <1>5 DEF Refers, Session, Handshake
  <2>3. r.dialing \in Socket => Handshake(r.dialing, b, "loop")'
    BY <1>2, <1>4, <1>5, Basics DEF Refers, Session, Handshake
  <2>4. r.turn.at = "opening" => Handshake(r.turn.on, b, "open")'
    BY <1>2, <1>4, <1>5 DEF Refers, Session, Handshake
  <2>5. r.turn.at \in {"reading", "serving"} =>
          Session(r.turn.on, b, {"open", "closing", "closed"})'
    BY <1>2, <1>4, <1>5 DEF Refers, Session
  <2> QED
    BY <2>1, <2>2, <2>3, <2>4, <2>5 DEF Refers, Session, Handshake
<1>7. \A c \in Brain : \A k : c # b /\ k = brain[c] => Refers(k, c)'
  <2> SUFFICES ASSUME NEW c \in Brain, NEW k, k = brain[c]
               PROVE  Refers(k, c)'
    OBVIOUS
  <2>1. Refers(k, c)
    BY DEF SessionInv, Referred
  <2>2. k.channel # s /\ k.opening # s /\ k.dialing # s /\ k.turn.on # s
    BY FreeIsUnused
  <2> QED
    BY SMTT(30), <1>4, <2>1, <2>2 DEF Refers, Session, Handshake
<1>8. Named'
  BY <1>4 DEF SessionInv, Named
<1>9. r \in BrainRecord
  BY DEF RecordOK, Whole
<1>10. /\ brain' \in [Brain -> BrainRecord] /\ brain'[b] = r
       /\ \A c \in Brain : c # b => brain'[c] = brain[c]
  BY <1>9 DEF SessionInv, TypeOK
<1>11. Held'
  <2> SUFFICES ASSUME NEW x \in Socket, socket'[x].state = "open"
               PROVE  brain'[socket'[x].of].channel = x
    BY DEF Held
  <2>1. socket'[x] = socket[x] /\ socket[x].state = "open"
    BY <1>4
  <2>2. brain[socket[x].of].channel = x /\ socket[x].of \in Brain
    BY <2>1 DEF SessionInv, Held, Named
  <2> QED
    BY <1>1, <1>2, <1>10, <2>1, <2>2
<1> QED
  BY <1>4, <1>6, <1>7, <1>8, <1>11, OneBrain

(* A step with which the attempt on a socket has an outcome.               *)
LEMMA ComesKeeps ==
    ASSUME SessionInv, NEW s \in Socket, socket[s].state \in {"dialing", "asking"},
           NEW b \in Brain, b = socket[s].of, NEW r, RecordOK(r, b),
           NEW took \in BOOLEAN, Arrives(brain[b], r, s, took),
           NEW state, state \in IF took THEN {"open"} ELSE {"late", "closing", "closed"},
           UNCHANGED <<shown, stood>>, brain' = [brain EXCEPT ![b] = r],
           socket' = [socket EXCEPT ![s].state = state]
    PROVE  SessionInv'
<1>1. PICK q : q = brain[b]
  OBVIOUS
<1>2. Arrives(q, r, s, took) /\ Refers(q, b) /\ TurnForm(q) /\ q \in BrainRecord
  BY <1>1 DEF SessionInv, Referred, Records, RecordOK, Whole
<1>3. /\ socket' \in [Socket -> SocketRecord]
      /\ socket'[s].state = state /\ \A x \in Socket : socket'[x].of = socket[x].of
      /\ \A x \in Socket : x # s => socket'[x] = socket[x]
  BY DEF SessionInv, TypeOK, SocketRecord
<1>4. q.channel # s
  BY <1>2, Basics DEF Refers, Session
<1>5. q.turn # [at |-> "opening", on |-> s] => q.turn.on # s
  <2>1. q.turn \in Turn
    BY <1>2, Fields
  <2>2. q.turn.at = "opening" /\ q.turn.on = s => q.turn = [at |-> "opening", on |-> s]
    BY <2>1 DEF Turn
  <2>3. q.turn.at \in {"none", "opening", "reading", "serving"}
    BY <2>1 DEF Turn
  <2>4. q.turn.at # "opening" => q.turn.on # s
    BY <1>2, <2>3, Basics DEF Refers, Session, TurnForm
  <2> QED
    BY <2>2, <2>4
<1>6. Refers(r, b)'
  <2>1. r.channel # NoSocket => Session(r.channel, b, {"open", "closing"})'
    BY <1>2, <1>3, <1>4 DEF Refers, Session, Arrives
  <2>2. r.opening # NoSocket => Handshake(r.opening, b, "open")'
    BY <1>2, <1>3 DEF Refers, Session, Handshake, Arrives
  <2>3. r.dialing \in Socket => Handshake(r.dialing, b, "loop")'
    BY <1>2, <1>3, Basics DEF Refers, Session, Handshake, Arrives
  <2>4. r.turn.at = "opening" => Handshake(r.turn.on, b, "open")'
    BY <1>2, <1>3, <1>5 DEF Refers, Session, Handshake, Arrives, NoTurn
  <2>5. r.turn.at \in {"reading", "serving"} =>
          Session(r.turn.on, b, {"open", "closing", "closed"})'
    BY <1>2, <1>3, <1>5, <2>1 DEF Refers, Session, Arrives, NoTurn
  <2> QED
    BY <2>1, <2>2, <2>3, <2>4, <2>5 DEF Refers, Session, Handshake
<1>7. \A c \in Brain : \A k : c # b /\ k = brain[c] => Refers(k, c)'
  <2> SUFFICES ASSUME NEW c \in Brain, NEW k, c # b, k = brain[c]
               PROVE  Refers(k, c)'
    OBVIOUS
  <2>1. Refers(k, c) /\ k \in BrainRecord
    BY DEF SessionInv, Referred, TypeOK
  <2>2. k.channel # s /\ k.opening # s /\ k.dialing # s
    BY <2>1, Basics DEF Refers, Session, Handshake
  <2>3. k.turn.at \in {"opening", "reading", "serving"} => k.turn.on # s
    BY <2>1 DEF Refers, Session, Handshake
  <2> QED
    BY SMTT(30), <1>3, <2>1, <2>2, <2>3 DEF Refers, Session, Handshake
<1>8. Named'
  BY <1>3 DEF SessionInv, Named
<1>9. r \in BrainRecord
  BY DEF RecordOK, Whole
<1>10. /\ brain' \in [Brain -> BrainRecord] /\ brain'[b] = r
       /\ \A c \in Brain : c # b => brain'[c] = brain[c]
  BY <1>9 DEF SessionInv, TypeOK
<1>11. Held'
  <2> SUFFICES ASSUME NEW x \in Socket, socket'[x].state = "open"
               PROVE  brain'[socket'[x].of].channel = x
    BY DEF Held
  <2>1. CASE x = s
    BY <1>2, <1>3, <1>10, <2>1 DEF Arrives
  <2>2. CASE x # s
    <3>1. socket'[x] = socket[x] /\ socket[x].state = "open"
      BY <1>3, <2>2
    <3>2. brain[socket[x].of].channel = x /\ socket[x].of \in Brain
      BY <3>1 DEF SessionInv, Held, Named
    <3> QED
      BY <1>1, <1>2, <1>10, <3>1, <3>2, Basics DEF Arrives
  <2> QED
    BY <2>1, <2>2
<1> QED
  BY <1>3, <1>6, <1>7, <1>8, <1>11, OneBrain

-----------------------------------------------------------------------------
(* What a step makes of the queues.                                        *)

Promised(b) == Queue!Step(b) \/ Queue!Keeps(b) \/ (stood' # stood /\ Queue!StandDown(b))

Kept == SessionInv' /\ \A c \in Brain : Promised(c)

LEMMA OthersKeep ==
    ASSUME SessionInv, NEW b \in Brain, NEW r, brain' = [brain EXCEPT ![b] = r]
    PROVE  \A c \in Brain : c # b => Queue!Keeps(c)
<1>1. brain \in [Brain -> BrainRecord]
  BY DEF SessionInv, TypeOK
<1>2. \A c \in Brain : c # b => brain'[c] = brain[c]
  BY <1>1
<1> QED
  BY <1>2 DEF Queue!Keeps, Running

LEMMA MovesPromised ==
    ASSUME SessionInv, NEW b \in Brain, NEW r, Moves(brain[b], r),
           brain' = [brain EXCEPT ![b] = r]
    PROVE  Promised(b)
<1>1. PICK q : q = brain[b]
  OBVIOUS
<1>2. brain \in [Brain -> BrainRecord]
  BY DEF SessionInv, TypeOK
<1>3. brain'[b] = r
  BY <1>2
<1>4. CASE r.waiting = q.waiting /\ r.asked = q.asked /\ (Running(r) <=> Running(q))
  BY <1>1, <1>3, <1>4 DEF Promised, Queue!Keeps, Running
<1>5. CASE r.waiting = q.waiting /\ r.asked = q.asked /\ ~Running(r) /\ Running(q)
  BY <1>1, <1>3, <1>5 DEF Promised, Queue!Step, Queue!End, Running
<1>6. CASE Running(r) /\ Takes(q, r)
  <2>1. Queue!TakesHead(b)
    BY <1>1, <1>3, <1>6 DEF Queue!TakesHead, Queue!TakesTurn, Takes, Running
  <2> QED
    BY <2>1 DEF Promised, Queue!Step, Queue!End, Queue!Resume
<1> QED
  BY <1>1, <1>4, <1>5, <1>6 DEF Moves

(* A step that moves one brain keeps the invariant and the promise.        *)
LEMMA OneKept ==
    ASSUME SessionInv, SessionInv', NEW b \in Brain, NEW r, brain' = [brain EXCEPT ![b] = r],
           Moves(brain[b], r) \/ Promised(b)
    PROVE  Kept
BY OthersKeep, MovesPromised DEF Kept, Promised

-----------------------------------------------------------------------------
(* The calls.                                                              *)

LEMMA AskToStopKeeps ==
    ASSUME NEW q, NEW b, RecordOK(q, b)
    PROVE  LET r == AskToStop(q)
           IN  /\ RecordOK(r, b) /\ Within(r, q) /\ r.channel = q.channel /\ Moves(q, r)
               /\ r.waiting = q.waiting /\ r.asked = q.asked /\ (Running(r) <=> Running(q))
<1> DEFINE k == [q EXCEPT !.stopping = TRUE]
<1>1. q \in BrainRecord /\ One(q) /\ TurnForm(q) /\ SoloFirst(q.waiting)
  BY DEF RecordOK, Whole
<1>2. /\ k \in BrainRecord /\ k.status = q.status /\ k.stopping
      /\ k.channel = q.channel /\ k.opening = q.opening
      /\ k.dialing = q.dialing /\ k.refused = q.refused
      /\ k.waiting = q.waiting /\ k.turn = q.turn /\ k.asked = q.asked
  BY <1>1 DEF BrainRecord
<1>3. AskToStop(q) = IF Running(q) /\ q.channel = NoSocket THEN k ELSE q
  BY DEF AskToStop
<1> HIDE DEF k
<1>4. CASE Running(q) /\ q.channel = NoSocket
  <2>1. Running(k)
    BY <1>2, <1>4 DEF Running
  <2>2. ~stood => Shows(k)
    BY <1>2, <1>4, <2>1 DEF RecordOK, Shows, Running
  <2>3. RecordOK(k, b)
    BY <1>1, <1>2, <1>4, <2>1, <2>2 DEF RecordOK, Whole, One, TurnForm, Sought, Over
  <2> QED
    BY <1>2, <1>3, <1>4, <2>1, <2>3 DEF Within, Moves
<1>5. CASE ~(Running(q) /\ q.channel = NoSocket)
  BY <1>3, <1>5 DEF Within, Moves
<1> QED
  BY <1>4, <1>5

LEMMA StopStep ==
    ASSUME SessionInv, NEW b \in Brain, Stop(b)
    PROVE  Kept
<1>1. PICK r : r = AskToStop(brain[b])
  OBVIOUS
<1>2. RecordOK(brain[b], b)
  BY DEF SessionInv, Records
<1>3. RecordOK(r, b) /\ Within(r, brain[b]) /\ r.channel = brain[b].channel /\ Moves(brain[b], r)
  BY <1>1, <1>2, AskToStopKeeps
<1>4. Sets(b, r)
  BY <1>1 DEF Stop
<1>5. SessionInv'
  BY <1>3, <1>4, SetsKeeps
<1> QED
  BY <1>3, <1>4, <1>5, OneKept DEF Sets

(* The queue of a brain is changed by hand.                                *)
LEMMA RequeuedKeeps ==
    ASSUME NEW q, NEW b, RecordOK(q, b), ~stood, NEW w \in Seq(Entry), SoloFirst(w)
    PROVE  LET r == [q EXCEPT !.waiting = w]
           IN  /\ RecordOK(r, b) /\ Within(r, q) /\ r.channel = q.channel
               /\ r.waiting = w /\ r.asked = q.asked /\ (Running(r) <=> Running(q))
<1> DEFINE r == [q EXCEPT !.waiting = w]
<1>1. q \in BrainRecord /\ One(q) /\ TurnForm(q)
  BY DEF RecordOK, Whole
<1>2. /\ r \in BrainRecord /\ r.status = q.status /\ r.stopping = q.stopping
      /\ r.channel = q.channel /\ r.opening = q.opening
      /\ r.dialing = q.dialing /\ r.refused = q.refused
      /\ r.waiting = w /\ r.turn = q.turn /\ r.asked = q.asked
  BY <1>1 DEF BrainRecord, Entry
<1> HIDE DEF r
<1>3. Running(r) <=> Running(q)
  BY <1>2 DEF Running
<1>4. Shows(r) /\ (shown = b => Sought(r))
  BY <1>2, <1>3 DEF RecordOK, Shows, Sought
<1>5. RecordOK(r, b)
  BY <1>1, <1>2, <1>4 DEF RecordOK, Whole, One, TurnForm
<1>6. Within(r, q)
  BY <1>2 DEF Within
<1> QED
  BY <1>2, <1>3, <1>5, <1>6 DEF r

LEMMA CancelAskStep ==
    ASSUME SessionInv, NEW b \in Brain, NEW i \in DOMAIN brain[b].waiting, CancelAsk(b, i)
    PROVE  Kept
<1>1. PICK q : q = brain[b]
  OBVIOUS
<1>2. /\ RecordOK(q, b) /\ q \in BrainRecord /\ SoloFirst(q.waiting) /\ i \in DOMAIN q.waiting
  BY <1>1 DEF SessionInv, Records, RecordOK, Whole
<1>3. PICK w : w = RemoveAt(q.waiting, i)
  OBVIOUS
<1>4. q.waiting \in Seq(Entry)
  BY <1>2, Fields
<1>5. w \in Seq(Entry) /\ SoloFirst(w)
  BY <1>2, <1>3, <1>4, Removed
<1>6. PICK r : r = [q EXCEPT !.waiting = w]
  OBVIOUS
<1>7. ~stood /\ q.waiting[i].what \in Ask /\ Sets(b, r)
  BY <1>1, <1>3, <1>6 DEF CancelAsk
<1>8. /\ RecordOK(r, b) /\ Within(r, q) /\ r.channel = q.channel
      /\ r.waiting = w /\ r.asked = q.asked /\ (Running(r) <=> Running(q))
  BY <1>2, <1>5, <1>6, <1>7, RequeuedKeeps
<1>9. SessionInv'
  BY <1>1, <1>7, <1>8, SetsKeeps
<1>10. brain' = [brain EXCEPT ![b] = r] /\ brain'[b] = r
  BY <1>7 DEF Sets, SessionInv, TypeOK
<1>11. Queue!Withdraw(b, i)
  BY <1>1, <1>3, <1>7, <1>8, <1>10 DEF Queue!Withdraw, Queue!RemoveAt, RemoveAt, Running
<1>12. Promised(b)
  BY <1>1, <1>2, <1>11 DEF Promised, Queue!Step
<1> QED
  BY <1>9, <1>10, <1>12, OneKept

LEMMA SendNowStep ==
    ASSUME SessionInv, NEW b \in Brain, NEW i \in DOMAIN brain[b].waiting, SendNow(b, i)
    PROVE  Kept
<1>1. PICK q : q = brain[b]
  OBVIOUS
<1>2. /\ RecordOK(q, b) /\ q \in BrainRecord /\ SoloFirst(q.waiting)
      /\ q.waiting \in Seq(Entry) /\ i \in DOMAIN q.waiting
  BY <1>1, Fields DEF SessionInv, Records, RecordOK, Whole
<1>3. PICK e : e = [q.waiting[i] EXCEPT !.solo = TRUE]
  OBVIOUS
<1>4. PICK w : w = <<e>> \o RemoveAt(q.waiting, i)
  OBVIOUS
<1>5. PICK k : k = [q EXCEPT !.waiting = w]
  OBVIOUS
<1>6. PICK r : r = IF Running(k) THEN AskToStop(k) ELSE DrainPending(k)
  OBVIOUS
<1>7. e \in Entry /\ e.solo /\ e.what = q.waiting[i].what
  <2>1. PICK x \in Entry : x = q.waiting[i]
    BY <1>2
  <2>2. e = [x EXCEPT !.solo = TRUE]
    BY <1>3, <2>1
  <2> QED
    BY <2>1, <2>2 DEF Entry
<1>8. RemoveAt(q.waiting, i) \in Seq(Entry) /\ SoloFirst(RemoveAt(q.waiting, i))
  BY <1>2, Removed
<1>9. w \in Seq(Entry) /\ SoloFirst(w) /\ w[1] = e
  BY <1>4, <1>7, <1>8, Fronted
<1>10. ~stood /\ q.waiting[i].what \in Ask /\ Sets(b, r)
  BY <1>1, <1>3, <1>4, <1>5, <1>6 DEF SendNow
<1>11. /\ RecordOK(k, b) /\ Within(k, q) /\ k.channel = q.channel
       /\ k.waiting = w /\ k.asked = q.asked /\ (Running(k) <=> Running(q))
  BY <1>2, <1>5, <1>9, <1>10, RequeuedKeeps
<1>12. w = Queue!Hurried(q.waiting, i)
  BY <1>3, <1>4 DEF Queue!Hurried, Queue!RemoveAt, RemoveAt
<1>13. brain' = [brain EXCEPT ![b] = r] /\ brain'[b] = r
  BY <1>10 DEF Sets, SessionInv, TypeOK
<1>14. ASSUME RecordOK(r, b), Within(r, k), r.channel = k.channel, Queue!Hurry(b, i)
       PROVE  Kept
  <2>1. Within(r, q)
    BY <1>11, <1>14 DEF Within, NoTurn
  <2>2. SessionInv'
    BY <1>1, <1>10, <1>11, <1>14, <2>1, SetsKeeps
  <2>3. Promised(b)
    BY <1>1, <1>2, <1>14 DEF Promised, Queue!Step
  <2> QED
    BY <1>13, <2>2, <2>3, OneKept
<1>15. ASSUME r.waiting = w, r.asked = q.asked, Running(r) <=> Running(q)
       PROVE  Queue!Hurry(b, i)
  BY <1>1, <1>10, <1>12, <1>13, <1>15 DEF Queue!Hurry, Running
<1>16. CASE Running(k)
  <2>1. r = AskToStop(k)
    BY <1>6, <1>16
  <2>2. /\ RecordOK(r, b) /\ Within(r, k) /\ r.channel = k.channel
        /\ r.waiting = k.waiting /\ r.asked = k.asked /\ (Running(r) <=> Running(k))
    BY <1>11, <2>1, AskToStopKeeps
  <2> QED
    BY <1>11, <1>14, <1>15, <2>2
<1>17. CASE ~Running(k)
  <2>1. r = DrainPending(k)
    BY <1>6, <1>17
  <2>2. RecordOK(r, b) /\ Within(r, k) /\ r.channel = k.channel
    BY <1>11, <2>1, DrainKeeps
  <2>3. k \in BrainRecord /\ SoloFirst(k.waiting)
    BY <1>11 DEF RecordOK, Whole
  <2>4. r = k \/ Began(k, r)
    BY <2>1, <2>3, DrainIs
  <2>5. CASE r = k
    BY <1>11, <1>14, <1>15, <2>2, <2>5
  <2>6. CASE Began(k, r)
    <3>1. r.status = "turn_active" /\ Takes(k, r)
      BY <2>6 DEF Began
    <3>2. /\ r.waiting = SubSeq(w, 1 + 1, Len(w))
          /\ r.asked = q.asked \o [j \in 1 .. 1 |-> w[j].what]
      <4>1. w[1].what \in Ask /\ w[1].solo
        BY <1>7, <1>9, <1>10
      <4> QED
        BY <1>11, <3>1, <4>1 DEF Takes
    <3>3. Queue!TakesTurn(b, w, 1)
      BY <1>1, <1>7, <1>9, <1>10, <1>13, <3>1, <3>2 DEF Queue!TakesTurn, Running
    <3>4. Queue!Hurry(b, i)
      BY <1>1, <1>10, <1>11, <1>12, <1>17, <3>3 DEF Queue!Hurry
    <3> QED
      BY <1>14, <2>2, <3>4
  <2> QED
    BY <2>4, <2>5, <2>6
<1> QED
  BY <1>16, <1>17

(* What is typed or added while a turn runs.                               *)
LEMMA QueuedKept ==
    ASSUME SessionInv, NEW b \in Brain, NEW what \in Ask \cup Library,
           ~stood, Running(brain[b]), Sets(b, Queued(brain[b], what))
    PROVE  Kept
<1>1. PICK q : q = brain[b]
  OBVIOUS
<1>2. /\ RecordOK(q, b) /\ q \in BrainRecord /\ SoloFirst(q.waiting)
      /\ q.waiting \in Seq(Entry)
  BY <1>1, Fields DEF SessionInv, Records, RecordOK, Whole
<1>3. PICK w : w = Append(q.waiting, [what |-> what, solo |-> FALSE])
  OBVIOUS
<1>4. PICK r : r = [q EXCEPT !.waiting = w]
  OBVIOUS
<1>5. w \in Seq(Entry) /\ SoloFirst(w)
  BY <1>2, <1>3, Appended
<1>6. Sets(b, r)
  BY <1>1, <1>3, <1>4 DEF Queued
<1>7. /\ RecordOK(r, b) /\ Within(r, q) /\ r.channel = q.channel
      /\ r.waiting = w /\ r.asked = q.asked /\ (Running(r) <=> Running(q))
  BY <1>2, <1>4, <1>5, RequeuedKeeps
<1>8. SessionInv'
  BY <1>1, <1>6, <1>7, SetsKeeps
<1>9. brain' = [brain EXCEPT ![b] = r] /\ brain'[b] = r
  BY <1>6 DEF Sets, SessionInv, TypeOK
<1>10. Queue!Wait(b, what)
  BY <1>1, <1>3, <1>7, <1>9 DEF Queue!Wait, Queue!Entry, Running
<1>11. Promised(b)
  BY <1>10 DEF Promised, Queue!Step
<1> QED
  BY <1>8, <1>9, <1>11, OneKept

(* A call that may open a session, on the socket s.                        *)
LEMMA OpensKeeps ==
    ASSUME SessionInv, NEW b \in Brain, NEW q, q = brain[b], MayOpen(b),
           NEW s, s = Fresh, NEW r, RecordOK(r, b), Opens(b, r),
           r.channel = q.channel, r.dialing = "none",
           r.opening = IF q.channel # NoSocket \/ q.opening # NoSocket THEN q.opening ELSE s,
           \/ r.turn = q.turn
           \/ q.channel # NoSocket /\ r.turn = [at |-> "reading", on |-> q.channel]
           \/ q.channel = NoSocket /\ r.turn = [at |-> "opening", on |-> r.opening]
    PROVE  SessionInv'
<1>1. Refers(q, b)
  BY DEF SessionInv, Referred
<1>2. CASE q.channel # NoSocket \/ q.opening # NoSocket
  <2>1. Sets(b, r)
    BY <1>2 DEF Opens, Sets
  <2>2. q.channel # NoSocket => Session(q.channel, b, {"open", "closing", "closed"})
    BY <1>1 DEF Refers, Session
  <2>3. Refers(r, b)
    BY <1>1, <1>2, <2>2, Basics DEF Refers
  <2> QED
    BY <2>1, <2>3, ReferringKeeps
<1>3. CASE ~(q.channel # NoSocket \/ q.opening # NoSocket)
  <2>1. s \in Socket /\ Free(s)
    BY <1>3, FreshIs DEF MayOpen
  <2>2. PICK by \in {"open", "loop"} : by = "open"
    OBVIOUS
  <2>3. /\ UNCHANGED <<shown, stood>> /\ brain' = [brain EXCEPT ![b] = r]
        /\ socket' = [socket EXCEPT ![s] = Dialed(b, by)]
    BY <1>3, <2>1, <2>2, Basics DEF Opens
  <2>4. r.dialing # s
    BY <2>1, Basics
  <2> QED
    BY <1>3, <2>1, <2>2, <2>3, <2>4, DialsKeeps
<1> QED
  BY <1>2, <1>3

LEMMA MayOpenIs ==
    ASSUME NEW b \in Brain, MayOpen(b)
    PROVE  /\ Fresh \in Socket \cup {NoSocket}
           /\ brain[b].channel # NoSocket \/ brain[b].opening # NoSocket \/ Fresh \in Socket
BY FreshIs DEF MayOpen, Fresh

LEMMA OpenSessionStep ==
    ASSUME SessionInv, NEW b \in Brain, OpenSession(b)
    PROVE  Kept
<1>1. PICK q : q = brain[b]
  OBVIOUS
<1>2. PICK s : s = Fresh
  OBVIOUS
<1>3. /\ RecordOK(q, b) /\ q \in BrainRecord /\ One(q) /\ TurnForm(q) /\ SoloFirst(q.waiting)
  BY <1>1 DEF SessionInv, Records, RecordOK, Whole
<1>4. /\ ~stood /\ MayOpen(b) /\ s \in Socket \cup {NoSocket}
      /\ q.channel # NoSocket \/ q.opening # NoSocket \/ s \in Socket
  BY <1>1, <1>2, MayOpenIs DEF OpenSession
<1>5. PICK r : r = OpenChannel(q, s)
  OBVIOUS
<1>6. Opens(b, r)
  BY <1>1, <1>2, <1>5 DEF OpenSession
<1> DEFINE held == q.channel # NoSocket \/ q.opening # NoSocket
<1>7. /\ r \in BrainRecord
      /\ r.channel = q.channel /\ r.dialing = "none" /\ r.refused = FALSE
      /\ r.opening = IF held THEN q.opening ELSE s
      /\ r.status = IF held \/ Running(q) THEN q.status ELSE "connecting"
      /\ r.stopping = q.stopping /\ r.waiting = q.waiting
      /\ r.turn = q.turn /\ r.asked = q.asked
  BY <1>3, <1>4, <1>5, OpenChannelIs
<1>8. Running(r) <=> Running(q)
  BY <1>7 DEF Running
<1>9. Whole(r)
  BY <1>3, <1>7 DEF Whole, One, TurnForm
<1>10. Sought(r)
  BY <1>4, <1>7, Basics DEF Sought
<1>11. Shows(r)
  <2>1. Shows(q) /\ (q.turn.at = "opening" => q.turn.on # NoSocket)
    BY <1>3, <1>4 DEF RecordOK, TurnForm
  <2>2. CASE held
    BY <1>7, <1>8, <2>1, <2>2 DEF Shows
  <2>3. CASE ~held
    BY <1>4, <1>7, <1>8, <2>1, <2>3, Basics DEF Shows, Running
  <2> QED
    BY <2>2, <2>3
<1>12. RecordOK(r, b)
  BY <1>4, <1>9, <1>10, <1>11 DEF RecordOK
<1>13. SessionInv'
  BY <1>1, <1>2, <1>4, <1>6, <1>7, <1>12, OpensKeeps
<1>14. Moves(q, r)
  BY <1>7, <1>8 DEF Moves
<1> QED
  BY <1>1, <1>6, <1>13, <1>14, OneKept DEF Opens

LEMMA SendStep ==
    ASSUME SessionInv, NEW b \in Brain, NEW a \in Ask, Send(b, a)
    PROVE  Kept
<1>1. CASE Running(brain[b])
  BY <1>1, QueuedKept DEF Send
<1>2. CASE ~Running(brain[b])
  <2>1. PICK q : q = brain[b]
    OBVIOUS
  <2>2. PICK s : s = Fresh
    OBVIOUS
  <2>3. /\ RecordOK(q, b) /\ q \in BrainRecord /\ One(q) /\ SoloFirst(q.waiting)
    BY <2>1 DEF SessionInv, Records, RecordOK, Whole
  <2>4. /\ ~stood /\ MayOpen(b) /\ s \in Socket \cup {NoSocket} /\ ~Running(q)
        /\ q.channel # NoSocket \/ q.opening # NoSocket \/ s \in Socket
    BY <1>2, <2>1, <2>2, MayOpenIs DEF Send
  <2>5. Shows(q) /\ q.stopping = FALSE
    BY <2>3, <2>4, Fields DEF RecordOK, Shows
  <2>6. PICK asks \in Seq(Ask) : asks = <<a>>
    <3>1. <<a>> \in Seq(Ask)
      OBVIOUS
    <3> QED
      BY <3>1
  <2>7. PICK r : r = StartAsk(q, asks, s)
    OBVIOUS
  <2>8. Opens(b, r)
    BY <1>2, <2>1, <2>2, <2>6, <2>7 DEF Send
  <2> DEFINE held == q.channel # NoSocket \/ q.opening # NoSocket
  <2>9. /\ r \in BrainRecord /\ r.status = "turn_active"
        /\ r.channel = q.channel /\ r.dialing = "none" /\ r.refused = FALSE
        /\ r.opening = IF held THEN q.opening ELSE s
        /\ r.turn = IF q.channel # NoSocket THEN [at |-> "reading", on |-> q.channel]
                    ELSE [at |-> "opening", on |-> r.opening]
        /\ r.stopping = IF q.channel # NoSocket THEN FALSE ELSE q.stopping
        /\ r.waiting = q.waiting /\ r.asked = q.asked \o asks
    <3> DEFINE k == StartAsk(q, asks, s)
    <3>1. /\ k \in BrainRecord /\ k.status = "turn_active"
          /\ k.channel = q.channel /\ k.dialing = "none" /\ k.refused = FALSE
          /\ k.opening = IF held THEN q.opening ELSE s
          /\ k.turn = IF q.channel # NoSocket THEN [at |-> "reading", on |-> q.channel]
                      ELSE [at |-> "opening", on |-> k.opening]
          /\ k.stopping = IF q.channel # NoSocket THEN FALSE ELSE q.stopping
          /\ k.waiting = q.waiting /\ k.asked = q.asked \o asks
      BY <2>3, <2>4, StartAskIs
    <3>2. r = k
      BY <2>7
    <3> HIDE DEF k, held
    <3> QED
      BY <3>1, <3>2
  <2>10. /\ r.stopping = FALSE /\ r.turn.at \in {"reading", "opening"}
         /\ r.turn.on # NoSocket
         /\ r.turn.at = "opening" => r.turn.on = r.opening
    BY <2>4, <2>5, <2>9, Basics
  <2>11. Whole(r)
    BY <2>3, <2>9, <2>10 DEF Whole, One, TurnForm
  <2>12. Shows(r) /\ Sought(r)
    BY <2>9, <2>10 DEF Shows, Sought, Running
  <2>13. RecordOK(r, b)
    BY <2>4, <2>11, <2>12 DEF RecordOK
  <2>14. SessionInv'
    BY <2>1, <2>2, <2>4, <2>8, <2>9, <2>13, OpensKeeps
  <2>15. brain' = [brain EXCEPT ![b] = r] /\ brain'[b] = r
    BY <2>8 DEF Opens, SessionInv, TypeOK
  <2>16. q.asked \o <<a>> = Append(q.asked, a)
    BY <2>3, Fields
  <2>17. Queue!Begin(b, a)
    BY <2>1, <2>4, <2>6, <2>9, <2>15, <2>16 DEF Queue!Begin, Running
  <2>18. Promised(b)
    BY <2>17 DEF Promised, Queue!Step
  <2> QED
    BY <2>14, <2>15, <2>18, OneKept
<1> QED
  BY <1>1, <1>2

LEMMA LibraryAddedStep ==
    ASSUME SessionInv, NEW b \in Brain, NEW l \in Library, LibraryAdded(b, l)
    PROVE  Kept
<1>1. CASE Running(brain[b])
  BY <1>1, QueuedKept DEF LibraryAdded
<1>2. CASE ~Running(brain[b])
  <2>1. PICK q : q = brain[b]
    OBVIOUS
  <2>2. /\ RecordOK(q, b) /\ q \in BrainRecord /\ One(q) /\ SoloFirst(q.waiting)
    BY <2>1 DEF SessionInv, Records, RecordOK, Whole
  <2>3. PICK r : r = StartAdded(q)
    OBVIOUS
  <2>4. ~stood /\ ~Running(q) /\ q.channel # NoSocket /\ Sets(b, r)
    BY <1>2, <2>1, <2>3 DEF LibraryAdded
  <2>5. /\ r \in BrainRecord /\ r.status = "turn_active"
        /\ r.turn = [at |-> "reading", on |-> q.channel] /\ r.stopping = FALSE
        /\ r.channel = q.channel /\ r.opening = q.opening
        /\ r.dialing = q.dialing /\ r.refused = q.refused
        /\ r.waiting = q.waiting /\ r.asked = q.asked
    BY <2>2, <2>3, <2>4, StartAddedIs
  <2>6. Whole(r)
    BY <2>2, <2>4, <2>5 DEF Whole, One, TurnForm
  <2>7. Shows(r) /\ Sought(r)
    BY <2>5 DEF Shows, Sought, Running
  <2>8. RecordOK(r, b)
    BY <2>4, <2>6, <2>7 DEF RecordOK
  <2>9. Within(r, q)
    BY <2>4, <2>5 DEF Within
  <2>10. SessionInv'
    BY <2>1, <2>4, <2>5, <2>8, <2>9, SetsKeeps
  <2>11. brain' = [brain EXCEPT ![b] = r] /\ brain'[b] = r
    BY <2>4 DEF Sets, SessionInv, TypeOK
  <2>12. Queue!Begin(b, l)
    BY <2>1, <2>4, <2>5, <2>11, Basics DEF Queue!Begin, Running
  <2>13. Promised(b)
    BY <2>12 DEF Promised, Queue!Step
  <2> QED
    BY <2>10, <2>11, <2>13, OneKept
<1> QED
  BY <1>1, <1>2

-----------------------------------------------------------------------------
(* The handshakes.                                                         *)

(* A step that changes the sockets only.                                   *)
LEMMA SocketsKeep ==
    ASSUME SessionInv, UNCHANGED <<shown, brain, stood>>,
           socket' \in [Socket -> SocketRecord], Referred', Named', Held'
    PROVE  Kept
<1>1. TypeOK' /\ Records'
  BY DEF SessionInv, TypeOK, Records, RecordOK, Shows, Sought, Over, Running
<1>2. \A c \in Brain : Promised(c)
  BY DEF Promised, Queue!Keeps, Running
<1> QED
  BY <1>1, <1>2 DEF Kept, SessionInv

LEMMA ComesStep ==
    ASSUME SessionInv, NEW s \in Socket, socket[s].state \in {"dialing", "asking"},
           NEW came \in {"opened", "refused", "unavailable"},
           NEW state, Comes(s, came, state),
           state \in IF came = "opened" /\ Expects(brain[socket[s].of], s) THEN {"open"}
                     ELSE {"late", "closing", "closed"}
    PROVE  Kept
<1>1. PICK b \in Brain : b = socket[s].of
  BY DEF SessionInv, Named
<1>2. PICK q : q = brain[b]
  OBVIOUS
<1>3. RecordOK(q, b) /\ Refers(q, b)
  BY <1>2 DEF SessionInv, Records, Referred
<1>4. q.dialing = s => q.turn # [at |-> "opening", on |-> s]
  BY <1>3 DEF Refers, Handshake
<1>5. PICK r : r = Outcome(q, b, s, came)
  OBVIOUS
<1>6. PICK took \in BOOLEAN : took = (came = "opened" /\ Expects(q, s))
  OBVIOUS
<1>7. RecordOK(r, b) /\ Moves(q, r) /\ Arrives(q, r, s, took)
  BY <1>3, <1>4, <1>5, <1>6, OutcomeKeeps
<1>8. /\ UNCHANGED <<shown, stood>> /\ brain' = [brain EXCEPT ![b] = r]
      /\ socket' = [socket EXCEPT ![s].state = state]
      /\ state \in IF took THEN {"open"} ELSE {"late", "closing", "closed"}
  BY <1>1, <1>2, <1>5, <1>6 DEF Comes
<1>9. SessionInv'
  BY <1>1, <1>2, <1>7, <1>8, ComesKeeps
<1> QED
  BY <1>2, <1>7, <1>8, <1>9, OneKept

LEMMA HandshakeRunsOutStep ==
    ASSUME SessionInv, NEW s \in Socket, HandshakeRunsOut(s)
    PROVE  Kept
BY ComesStep DEF HandshakeRunsOut

LEMMA AcceptedStep ==
    ASSUME SessionInv, NEW s \in Socket, Accepted(s)
    PROVE  Kept
BY ComesStep DEF Accepted

LEMMA RefusedStep ==
    ASSUME SessionInv, NEW s \in Socket, Refused(s)
    PROVE  Kept
BY ComesStep DEF Refused

LEMMA HandshakeFailsStep ==
    ASSUME SessionInv, NEW s \in Socket, HandshakeFails(s)
    PROVE  Kept
BY ComesStep DEF HandshakeFails

LEMMA DialDueStep ==
    ASSUME SessionInv, NEW b \in Brain, DialDue(b)
    PROVE  Kept
<1>1. PICK q : q = brain[b]
  OBVIOUS
<1>2. PICK s : s = Fresh
  OBVIOUS
<1>3. /\ RecordOK(q, b) /\ q \in BrainRecord /\ One(q) /\ TurnForm(q)
  BY <1>1 DEF SessionInv, Records, RecordOK, Whole
<1>4. s \in Socket /\ Free(s) /\ q.dialing = "waiting"
  BY <1>1, <1>2, FreshIs DEF DialDue
<1>5. q.channel = NoSocket /\ q.opening = NoSocket
  BY <1>3, <1>4 DEF One
<1>6. PICK r : r = [q EXCEPT !.dialing = s]
  OBVIOUS
<1>7. /\ r \in BrainRecord /\ r.status = q.status /\ r.stopping = q.stopping
      /\ r.channel = q.channel /\ r.opening = q.opening
      /\ r.dialing = s /\ r.refused = q.refused
      /\ r.waiting = q.waiting /\ r.turn = q.turn /\ r.asked = q.asked
  BY <1>3, <1>4, <1>6 DEF BrainRecord
<1>8. Running(r) <=> Running(q)
  BY <1>7 DEF Running
<1>9. Whole(r)
  BY <1>3, <1>5, <1>7 DEF RecordOK, Whole, One, TurnForm
<1>10. Sought(r)
  BY <1>4, <1>7, Basics DEF Sought
<1>11. RecordOK(r, b)
  BY <1>3, <1>7, <1>8, <1>9, <1>10 DEF RecordOK, Shows, Over
<1>12. PICK by \in {"open", "loop"} : by = "loop"
  OBVIOUS
<1>13. /\ UNCHANGED <<shown, stood>> /\ brain' = [brain EXCEPT ![b] = r]
       /\ socket' = [socket EXCEPT ![s] = Dialed(b, by)]
  BY <1>1, <1>2, <1>6, <1>12 DEF DialDue
<1>14. r.opening # s
  BY <1>4, <1>5, <1>7, Basics
<1>15. SessionInv'
  BY <1>1, <1>4, <1>7, <1>11, <1>12, <1>13, <1>14, DialsKeeps
<1>16. Moves(q, r)
  BY <1>7, <1>8 DEF Moves
<1> QED
  BY <1>1, <1>13, <1>15, <1>16, OneKept

LEMMA SocketOpensStep ==
    ASSUME SessionInv, NEW s \in Socket, SocketOpens(s)
    PROVE  Kept
<1>1. PICK state : state = IF socket[s].state = "late" THEN "closing" ELSE "asking"
  OBVIOUS
<1>2. /\ socket' \in [Socket -> SocketRecord] /\ socket'[s].state = state
      /\ \A x \in Socket : x # s => socket'[x] = socket[x]
      /\ \A x \in Socket : socket'[x].of = socket[x].of /\ socket'[x].by = socket[x].by
  BY <1>1 DEF SessionInv, TypeOK, SocketRecord, SocketOpens
<1>3. UNCHANGED <<shown, brain, stood>> /\ socket[s].state \in {"dialing", "late"}
  BY DEF SocketOpens
<1>4. Referred'
  BY SMTT(30), <1>1, <1>2, <1>3 DEF SessionInv, Referred, Refers, Session, Handshake
<1>5. Named'
  BY <1>1, <1>2, <1>3 DEF SessionInv, Named
<1>6. Held'
  BY <1>1, <1>2, <1>3 DEF SessionInv, Held
<1> QED
  BY <1>2, <1>3, <1>4, <1>5, <1>6, SocketsKeep

-----------------------------------------------------------------------------
(* The sessions and their turns.                                           *)

LEMMA BadFrameStep ==
    ASSUME SessionInv, NEW s \in Socket, BadFrame(s)
    PROVE  Kept
<1>1. /\ socket' \in [Socket -> SocketRecord] /\ socket'[s].state = "closing"
      /\ \A x \in Socket : x # s => socket'[x] = socket[x]
      /\ \A x \in Socket : socket'[x].of = socket[x].of /\ socket'[x].by = socket[x].by
  BY DEF SessionInv, TypeOK, SocketRecord, BadFrame
<1>2. UNCHANGED <<shown, brain, stood>> /\ socket[s].state = "open"
  BY DEF BadFrame
<1>3. Referred'
  BY SMTT(30), <1>1, <1>2 DEF SessionInv, Referred, Refers, Session, Handshake
<1>4. Named'
  BY <1>1, <1>2 DEF SessionInv, Named
<1>5. Held'
  BY <1>1, <1>2 DEF SessionInv, Held
<1> QED
  BY <1>1, <1>2, <1>3, <1>4, <1>5, SocketsKeep

(* The turn goes on: it reads or serves.                                   *)
LEMMA TurnOn ==
    ASSUME SessionInv, NEW b \in Brain, NEW at \in {"reading", "serving"},
           brain[b].turn.at \in {"reading", "serving"},
           Sets(b, [brain[b] EXCEPT !.turn.at = at])
    PROVE  Kept
<1>1. PICK q : q = brain[b]
  OBVIOUS
<1>2. /\ RecordOK(q, b) /\ q \in BrainRecord /\ One(q) /\ TurnForm(q)
      /\ q.turn.at \in {"reading", "serving"}
  BY <1>1 DEF SessionInv, Records, RecordOK, Whole
<1>3. PICK r : r = [q EXCEPT !.turn.at = at]
  OBVIOUS
<1>4. /\ r \in BrainRecord /\ r.status = q.status /\ r.stopping = q.stopping
      /\ r.channel = q.channel /\ r.opening = q.opening
      /\ r.dialing = q.dialing /\ r.refused = q.refused /\ r.waiting = q.waiting
      /\ r.turn.at = at /\ r.turn.on = q.turn.on /\ r.asked = q.asked
  BY <1>2, <1>3 DEF BrainRecord, Turn
<1>5. Running(r) <=> Running(q)
  BY <1>4 DEF Running
<1>6. Whole(r)
  BY <1>2, <1>4 DEF RecordOK, Whole, One, TurnForm
<1>7. RecordOK(r, b)
  BY <1>2, <1>4, <1>5, <1>6 DEF RecordOK, Shows, Sought, Over
<1>8. Within(r, q) /\ Moves(q, r)
  BY <1>2, <1>4, <1>5 DEF Within, Moves
<1>9. Sets(b, r)
  BY <1>1, <1>3
<1>10. SessionInv'
  BY <1>1, <1>4, <1>7, <1>8, <1>9, SetsKeeps
<1> QED
  BY <1>1, <1>8, <1>9, <1>10, OneKept DEF Sets

LEMMA ToolCallsStep ==
    ASSUME SessionInv, NEW b \in Brain, ToolCalls(b)
    PROVE  Kept
BY TurnOn DEF ToolCalls

(* The turn or the session of brain b ends, and sockets of its own with    *)
(* it.                                                                     *)
Leaves(q, r) ==
    /\ r.channel \in {NoSocket, q.channel} /\ r.opening \in {NoSocket, q.opening}
    /\ r.dialing \in {"none", "waiting", q.dialing}
    /\ \/ r.turn = NoTurn \/ r.turn = q.turn
       \/ r.turn.at = "reading" /\ r.turn.on = r.channel

Closes(b, q, r) ==
    /\ socket' \in [Socket -> SocketRecord]
    /\ \A x \in Socket : socket'[x].of = socket[x].of /\ socket'[x].by = socket[x].by
    /\ \A x \in Socket :
         \/ socket'[x].state = socket[x].state
         \/ /\ socket[x].of = b /\ socket[x].state \in {"late", "open", "closing"}
            /\ socket'[x].state \in {"closing", "closed"}
            /\ socket'[x].state = "closed" => r.channel # x
    /\ \A x \in Socket : socket'[x].state = "open" /\ q.channel = x => r.channel = x

LEMMA ClosesKeeps ==
    ASSUME SessionInv, NEW b \in Brain, NEW q, q = brain[b], NEW r, RecordOK(r, b),
           Leaves(q, r), Closes(b, q, r),
           UNCHANGED <<shown, stood>>, brain' = [brain EXCEPT ![b] = r]
    PROVE  SessionInv'
<1> USE DEF Leaves, Closes
<1>1. Refers(q, b) /\ q.channel \in Socket \cup {NoSocket}
  BY Fields DEF SessionInv, Referred, TypeOK
<1>2. r.channel # NoSocket => Session(r.channel, b, {"open", "closing"})'
  BY <1>1 DEF Refers, Session
<1>3. Refers(r, b)'
  <2>1. r.opening # NoSocket => Handshake(r.opening, b, "open")'
    BY <1>1 DEF Refers, Session, Handshake
  <2>2. r.dialing \in Socket => Handshake(r.dialing, b, "loop")'
    BY <1>1, Basics DEF Refers, Session, Handshake
  <2>3. r.turn.at = "opening" => Handshake(r.turn.on, b, "open")'
    BY <1>1 DEF Refers, Session, Handshake, NoTurn
  <2>4. r.turn.at \in {"reading", "serving"} =>
          Session(r.turn.on, b, {"open", "closing", "closed"})'
    <3>1. r.turn.at # "none" => r.turn.on # NoSocket
      BY DEF RecordOK, Whole, TurnForm
    <3>2. CASE r.turn.at = "reading" /\ r.turn.on = r.channel
      BY <1>2, <3>1, <3>2 DEF Session
    <3>3. CASE r.turn = NoTurn
      BY <3>3 DEF NoTurn
    <3>4. CASE r.turn = q.turn
      BY <1>1, <3>4 DEF Refers, Session
    <3> QED
      BY <3>2, <3>3, <3>4
  <2> QED
    BY <1>2, <2>1, <2>2, <2>3, <2>4 DEF Refers, Session, Handshake
<1>4. \A c \in Brain : \A k : c # b /\ k = brain[c] => Refers(k, c)'
  <2> SUFFICES ASSUME NEW c \in Brain, NEW k, c # b, k = brain[c]
               PROVE  Refers(k, c)'
    OBVIOUS
  <2>1. Refers(k, c)
    BY DEF SessionInv, Referred
  <2> QED
    BY <2>1 DEF Refers, Session, Handshake
<1>5. Named'
  <2> SUFFICES ASSUME NEW x \in Socket, socket'[x].state # "free"
               PROVE  socket'[x].of \in Brain
    BY DEF Named
  <2>1. socket[x].state # "free"
    OBVIOUS
  <2> QED
    BY <2>1 DEF SessionInv, Named
<1>6. r \in BrainRecord
  BY DEF RecordOK, Whole
<1>7. /\ brain' \in [Brain -> BrainRecord] /\ brain'[b] = r
      /\ \A c \in Brain : c # b => brain'[c] = brain[c]
  BY <1>6 DEF SessionInv, TypeOK
<1>8. Held'
  <2> SUFFICES ASSUME NEW x \in Socket, socket'[x].state = "open"
               PROVE  brain'[socket'[x].of].channel = x
    BY DEF Held
  <2>1. socket[x].state = "open" /\ socket'[x].of = socket[x].of
    OBVIOUS
  <2>2. brain[socket[x].of].channel = x /\ socket[x].of \in Brain
    BY <2>1 DEF SessionInv, Held, Named
  <2>3. CASE socket[x].of = b
    BY <1>7, <2>1, <2>2, <2>3
  <2>4. CASE socket[x].of # b
    BY <1>7, <2>1, <2>2, <2>4
  <2> QED
    BY <2>3, <2>4
<1> QED
  BY <1>3, <1>4, <1>5, <1>8, OneBrain

LEMMA DisconnectedKeeps ==
    ASSUME NEW q, NEW b, RecordOK(q, b) \/ (Whole(q) /\ (stood => Over(q)))
    PROVE  LET r == Disconnected(q, b)
           IN  /\ RecordOK(r, b) /\ Moves(q, r) /\ r.channel = NoSocket /\ r.turn = NoTurn
               /\ r.opening \in {NoSocket, q.opening}
               /\ r.dialing \in {"none", "waiting", q.dialing}
<1> DEFINE k == [q EXCEPT !.channel = NoSocket]
           r == Finish(k, b)
<1>1. Whole(q) /\ (stood => Over(q))
  BY DEF RecordOK
<1>2. Disconnected(q, b) = r
  BY DEF Disconnected
<1>3. /\ k \in BrainRecord /\ k.status = q.status /\ k.stopping = q.stopping
      /\ k.channel = NoSocket /\ k.opening = q.opening
      /\ k.dialing = q.dialing /\ k.refused = q.refused
      /\ k.waiting = q.waiting /\ k.turn = q.turn /\ k.asked = q.asked
  BY <1>1 DEF Whole, BrainRecord
<1> HIDE DEF k
<1>4. Running(k) <=> Running(q)
  BY <1>3 DEF Running
<1>5. Whole(k) /\ (stood => Over(k))
  BY <1>1, <1>3, <1>4 DEF Whole, One, TurnForm, Over
<1>6. /\ RecordOK(r, b) /\ Within(r, k) /\ r.channel = k.channel /\ Moves(k, r)
      /\ r.turn = NoTurn \/ (r.turn.at = "reading" /\ r.turn.on = r.channel)
  BY <1>5, FinishKeeps
<1> HIDE DEF r
<1>7. r.turn = NoTurn
  BY <1>3, <1>6 DEF RecordOK, Whole, TurnForm
<1>8. Moves(q, r)
  BY <1>3, <1>4, <1>6 DEF Moves, Takes
<1> QED
  BY <1>2, <1>3, <1>6, <1>7, <1>8 DEF Within

LEMMA ClosedIs ==
    ASSUME SessionInv, NEW b \in Brain, NEW c, c = brain[b].channel
    PROVE  /\ Closed(c) \in [Socket -> SocketRecord]
           /\ \A x \in Socket : /\ Closed(c)[x].of = socket[x].of
                                /\ Closed(c)[x].by = socket[x].by
                                /\ x # c => Closed(c)[x] = socket[x]
           /\ c # NoSocket => /\ c \in Socket /\ socket[c].of = b
                              /\ socket[c].state \in {"open", "closing"}
                              /\ Closed(c)[c].state = "closing"
<1>1. socket \in [Socket -> SocketRecord] /\ Refers(brain[b], b)
  BY DEF SessionInv, TypeOK, Referred
<1>2. c # NoSocket => Session(c, b, {"open", "closing"})
  BY <1>1 DEF Refers
<1>3. \A x \in Socket :
        LET y == [socket[x] EXCEPT !.state = "closing"]
        IN  y \in SocketRecord /\ y.of = socket[x].of /\ y.by = socket[x].by
            /\ y.state = "closing"
  BY <1>1 DEF SocketRecord
<1>4. \A x \in Socket : Closed(c)[x] = IF x = c /\ socket[x].state # "closed"
                                       THEN [socket[x] EXCEPT !.state = "closing"]
                                       ELSE socket[x]
  BY DEF Closed
<1>5. Closed(c) \in [Socket -> SocketRecord]
  BY <1>1, <1>3 DEF Closed
<1>6. \A x \in Socket : /\ Closed(c)[x].of = socket[x].of
                        /\ Closed(c)[x].by = socket[x].by
                        /\ x # c => Closed(c)[x] = socket[x]
  BY <1>3, <1>4
<1>7. c # NoSocket => /\ c \in Socket /\ socket[c].of = b
                      /\ socket[c].state \in {"open", "closing"}
                      /\ Closed(c)[c].state = "closing"
  BY <1>2, <1>3, <1>4 DEF Session
<1> QED
  BY <1>5, <1>6, <1>7

LEMMA FinishStep ==
    ASSUME SessionInv, NEW b \in Brain, NEW r, r = Finish(brain[b], b),
           UNCHANGED <<shown, stood>>, brain' = [brain EXCEPT ![b] = r],
           socket' \in [Socket -> SocketRecord],
           \A x \in Socket : /\ socket'[x].of = socket[x].of /\ socket'[x].by = socket[x].by
                             /\ socket'[x].state = socket[x].state
    PROVE  Kept
<1>1. PICK q : q = brain[b]
  OBVIOUS
<1>2. Whole(q) /\ (stood => Over(q))
  BY <1>1 DEF SessionInv, Records, RecordOK
<1>3. /\ RecordOK(r, b) /\ Within(r, q) /\ r.channel = q.channel /\ Moves(q, r)
      /\ r.turn = NoTurn \/ (r.turn.at = "reading" /\ r.turn.on = r.channel)
  BY <1>1, <1>2, FinishKeeps
<1>4. Leaves(q, r)
  BY <1>3 DEF Within, Leaves
<1>5. Closes(b, q, r)
  BY <1>3 DEF Closes
<1>6. SessionInv'
  BY <1>1, <1>3, <1>4, <1>5, ClosesKeeps
<1> QED
  BY <1>1, <1>3, <1>6, OneKept

LEMMA EndedMarked ==
    ASSUME SessionInv, NEW s \in Socket, NEW ended \in BOOLEAN,
           socket' = [socket EXCEPT ![s].ended = ended]
    PROVE  /\ socket' \in [Socket -> SocketRecord]
           /\ \A x \in Socket : /\ socket'[x].of = socket[x].of /\ socket'[x].by = socket[x].by
                                /\ socket'[x].state = socket[x].state
BY DEF SessionInv, TypeOK, SocketRecord

LEMMA TurnEndStep ==
    ASSUME SessionInv, NEW b \in Brain, TurnEnd(b)
    PROVE  Kept
<1>1. CASE brain[b].turn.at = "reading"
  <2>1. PICK r : r = Finish(brain[b], b)
    OBVIOUS
  <2>2. Sets(b, r)
    BY <1>1, <2>1 DEF TurnEnd
  <2>3. socket' \in [Socket -> SocketRecord]
    BY <2>2 DEF Sets, SessionInv, TypeOK
  <2> QED
    BY <2>1, <2>2, <2>3, FinishStep DEF Sets
<1>2. CASE brain[b].turn.at # "reading"
  <2>1. PICK s : s = brain[b].turn.on
    OBVIOUS
  <2>2. /\ UNCHANGED <<shown, brain, stood>> /\ brain[b].turn.at = "serving"
        /\ socket' = [socket EXCEPT ![s].ended = TRUE]
    BY <1>2, <2>1 DEF TurnEnd
  <2>3. s \in Socket
    BY <2>1, <2>2 DEF SessionInv, Referred, Refers, Session
  <2>4. /\ socket' \in [Socket -> SocketRecord]
        /\ \A x \in Socket : /\ socket'[x].of = socket[x].of /\ socket'[x].by = socket[x].by
                             /\ socket'[x].state = socket[x].state
    BY <2>2, <2>3, EndedMarked
  <2>5. Referred'
    BY SMTT(30), <2>2, <2>4 DEF SessionInv, Referred, Refers, Session, Handshake
  <2>6. Named' /\ Held'
    BY <2>2, <2>4 DEF SessionInv, Named, Held
  <2> QED
    BY <2>2, <2>4, <2>5, <2>6, SocketsKeep
<1> QED
  BY <1>1, <1>2

LEMMA ServingEndsStep ==
    ASSUME SessionInv, NEW b \in Brain, ServingEnds(b)
    PROVE  Kept
<1>1. PICK s : s = brain[b].turn.on
  OBVIOUS
<1>2. brain[b].turn.at = "serving" /\ s \in Socket
  BY <1>1 DEF ServingEnds, SessionInv, Referred, Refers, Session
<1>3. CASE Sets(b, [brain[b] EXCEPT !.turn.at = "reading"])
  BY <1>2, <1>3, TurnOn
<1>4. CASE /\ UNCHANGED <<shown, stood>>
           /\ brain' = [brain EXCEPT ![b] = Finish(@, b)]
           /\ socket' = [socket EXCEPT ![s].ended = FALSE]
  <2>1. PICK r : r = Finish(brain[b], b)
    OBVIOUS
  <2>2. brain' = [brain EXCEPT ![b] = r]
    BY <1>4, <2>1
  <2>3. /\ socket' \in [Socket -> SocketRecord]
        /\ \A x \in Socket : /\ socket'[x].of = socket[x].of /\ socket'[x].by = socket[x].by
                             /\ socket'[x].state = socket[x].state
    BY <1>2, <1>4, EndedMarked
  <2> QED
    BY <1>4, <2>1, <2>2, <2>3, FinishStep
<1>5. CASE UNCHANGED <<shown, stood>> /\ socket[s].state = "closed" /\ TurnLost(brain[b], b)
  <2>1. PICK q : q = brain[b]
    OBVIOUS
  <2>2. PICK r : r = Disconnected(q, b)
    OBVIOUS
  <2>3. PICK c : c = q.channel
    OBVIOUS
  <2>4. brain' = [brain EXCEPT ![b] = r] /\ socket' = Closed(c)
    BY <1>5, <2>1, <2>2, <2>3 DEF TurnLost
  <2>5. RecordOK(q, b)
    BY <2>1 DEF SessionInv, Records
  <2>6. /\ RecordOK(r, b) /\ Moves(q, r) /\ r.channel = NoSocket /\ r.turn = NoTurn
        /\ r.opening \in {NoSocket, q.opening}
        /\ r.dialing \in {"none", "waiting", q.dialing}
    BY <2>2, <2>5, DisconnectedKeeps
  <2>7. /\ Closed(c) \in [Socket -> SocketRecord]
        /\ \A x \in Socket : /\ Closed(c)[x].of = socket[x].of
                             /\ Closed(c)[x].by = socket[x].by
                             /\ x # c => Closed(c)[x] = socket[x]
        /\ c # NoSocket => /\ c \in Socket /\ socket[c].of = b
                           /\ socket[c].state \in {"open", "closing"}
                           /\ Closed(c)[c].state = "closing"
    BY <2>1, <2>3, ClosedIs
  <2>8. SessionInv'
    <3>1. \A x \in Socket : socket'[x].of = socket[x].of /\ socket'[x].by = socket[x].by
      BY <2>4, <2>7
    <3>2. \A x \in Socket :
            \/ socket'[x].state = socket[x].state
            \/ /\ socket[x].of = b /\ socket[x].state \in {"late", "open", "closing"}
               /\ socket'[x].state \in {"closing", "closed"}
               /\ socket'[x].state = "closed" => r.channel # x
      BY <2>4, <2>7, Basics
    <3>3. \A x \in Socket : socket'[x].state = "open" /\ q.channel = x => r.channel = x
      BY <2>3, <2>4, <2>7, Basics
    <3>4. Leaves(q, r)
      BY <2>6 DEF Leaves
    <3>5. Closes(b, q, r)
      BY <2>4, <2>7, <3>1, <3>2, <3>3 DEF Closes
    <3> QED
      BY <1>5, <2>1, <2>4, <2>6, <3>4, <3>5, ClosesKeeps
  <2> QED
    BY <2>1, <2>4, <2>6, <2>8, OneKept
<1>6. \/ Sets(b, [brain[b] EXCEPT !.turn.at = "reading"])
      \/ /\ UNCHANGED <<shown, stood>>
         /\ brain' = [brain EXCEPT ![b] = Finish(@, b)]
         /\ socket' = [socket EXCEPT ![s].ended = FALSE]
      \/ UNCHANGED <<shown, stood>> /\ socket[s].state = "closed" /\ TurnLost(brain[b], b)
  <2>1. CASE brain' = [brain EXCEPT ![b].turn.at = "reading"] /\ UNCHANGED socket
    <3>1. Sets(b, [brain[b] EXCEPT !.turn.at = "reading"])
      BY <2>1 DEF ServingEnds, Sets
    <3> QED
      BY <3>1
  <2> QED
    BY <1>1, <2>1 DEF ServingEnds
<1> QED
  BY <1>3, <1>4, <1>5, <1>6

(* A session that is lost, up to the end of its turn.                      *)
LEMMA GivenKeeps ==
    ASSUME NEW q, NEW b, RecordOK(q, b), q.channel # NoSocket
    PROVE  LET r == Reopen(Settle([q EXCEPT !.channel = NoSocket], "idle"), b)
           IN  /\ Whole(r) /\ (stood => Over(r))
               /\ r.waiting = q.waiting /\ r.asked = q.asked /\ (Running(r) <=> Running(q))
               /\ (~stood => Shows(r)) /\ (~stood /\ shown = b => Sought(r))
               /\ r.channel = NoSocket /\ r.turn = q.turn /\ r.opening = NoSocket
               /\ r.dialing \in {"none", "waiting"}
<1> DEFINE k == [q EXCEPT !.channel = NoSocket]
           n == Settle(k, "idle")
           r == Reopen(n, b)
<1>1. /\ q \in BrainRecord /\ One(q) /\ TurnForm(q) /\ SoloFirst(q.waiting)
      /\ q.opening = NoSocket /\ q.dialing = "none"
  BY DEF RecordOK, Whole, One
<1>2. /\ k \in BrainRecord /\ k.status = q.status /\ k.channel = NoSocket
      /\ k.opening = q.opening /\ k.refused = q.refused
      /\ k.dialing = q.dialing /\ k.stopping = q.stopping
      /\ k.waiting = q.waiting /\ k.turn = q.turn /\ k.asked = q.asked
  BY <1>1 DEF BrainRecord
<1> HIDE DEF k
<1>3. /\ n \in BrainRecord /\ n.status = IF Running(k) THEN k.status ELSE "idle"
      /\ n.channel = k.channel /\ n.opening = k.opening
      /\ n.dialing = k.dialing /\ n.refused = k.refused /\ n.stopping = k.stopping
      /\ n.waiting = k.waiting /\ n.turn = k.turn /\ n.asked = k.asked
  BY <1>2, SettleIs
<1> HIDE DEF n
<1>4. /\ r \in BrainRecord /\ r.status = n.status
      /\ r.dialing = IF shown = b /\ WantsReopen(n) THEN "waiting" ELSE n.dialing
      /\ r.channel = n.channel /\ r.opening = n.opening
      /\ r.refused = n.refused /\ r.stopping = n.stopping
      /\ r.waiting = n.waiting /\ r.turn = n.turn /\ r.asked = n.asked
  BY <1>3, ReopenIs
<1> HIDE DEF r
<1>5. /\ Running(k) <=> Running(q)
      /\ Running(n) <=> Running(q)
      /\ Running(r) <=> Running(q)
  BY <1>2, <1>3, <1>4 DEF Running
<1>6. /\ r.status = IF Running(q) THEN q.status ELSE "idle"
      /\ r.channel = NoSocket /\ r.opening = NoSocket
      /\ r.refused = q.refused /\ r.stopping = q.stopping
      /\ r.waiting = q.waiting /\ r.turn = q.turn /\ r.asked = q.asked
      /\ r.dialing \in {"none", "waiting"}
  BY <1>1, <1>2, <1>3, <1>4, <1>5
<1>7. WantsReopen(n) <=> ~q.refused /\ ~Running(q)
  BY <1>1, <1>2, <1>3, <1>5 DEF WantsReopen
<1>8. Whole(r)
  BY <1>1, <1>4, <1>6 DEF Whole, One, TurnForm
<1>9. stood => Over(r)
  BY <1>5, <1>6 DEF RecordOK, Over
<1>10. ~stood => Shows(r)
  <2>1. ~stood => Shows(q) /\ q.turn.at # "opening"
    BY <1>1 DEF RecordOK, Shows, TurnForm
  <2> QED
    BY <1>5, <1>6, <2>1 DEF Shows, Running
<1>11. ~stood /\ shown = b => Sought(r)
  BY <1>4, <1>6, <1>7 DEF RecordOK, Shows, Sought
<1> QED
  BY <1>5, <1>6, <1>8, <1>9, <1>10, <1>11 DEF r, n, k

LEMMA SocketClosedStep ==
    ASSUME SessionInv, NEW s \in Socket, SocketClosed(s)
    PROVE  Kept
<1>1. PICK b \in Brain : b = socket[s].of
  BY DEF SocketClosed, SessionInv, Named
<1>2. PICK q : q = brain[b]
  OBVIOUS
<1>3. PICK lost \in BOOLEAN : lost <=> q.turn = [at |-> "reading", on |-> s]
  OBVIOUS
<1>4. PICK g : g = IF q.channel # s THEN q
                   ELSE Reopen(Settle([q EXCEPT !.channel = NoSocket], "idle"), b)
  OBVIOUS
<1>5. PICK r : r = IF lost THEN Disconnected(g, b) ELSE g
  OBVIOUS
<1>6. PICK c : c = IF lost THEN g.channel ELSE NoSocket
  OBVIOUS
<1>7. RecordOK(q, b) /\ Refers(q, b) /\ s # NoSocket
  BY <1>2, Basics DEF SessionInv, Records, Referred
<1>8. /\ Whole(g) /\ (stood => Over(g)) /\ (~stood => Shows(g))
      /\ ~stood /\ shown = b => Sought(g)
      /\ g.waiting = q.waiting /\ g.asked = q.asked /\ (Running(g) <=> Running(q))
      /\ g.channel = IF q.channel = s THEN NoSocket ELSE q.channel
      /\ g.turn = q.turn /\ g.opening \in {NoSocket, q.opening}
      /\ g.dialing \in {"none", "waiting", q.dialing}
  <2>1. CASE q.channel # s
    BY <1>4, <1>7, <2>1 DEF RecordOK
  <2>2. CASE q.channel = s
    <3>1. g = Reopen(Settle([q EXCEPT !.channel = NoSocket], "idle"), b)
      BY <1>4, <2>2
    <3> QED
      BY <1>7, <2>2, <3>1, GivenKeeps
  <2> QED
    BY <2>1, <2>2
<1>9. /\ RecordOK(r, b) /\ Moves(q, r) /\ Leaves(q, r)
      /\ r.channel = IF lost THEN NoSocket ELSE g.channel
  <2>1. CASE lost
    <3>1. /\ RecordOK(r, b) /\ Moves(g, r) /\ r.channel = NoSocket /\ r.turn = NoTurn
          /\ r.opening \in {NoSocket, g.opening}
          /\ r.dialing \in {"none", "waiting", g.dialing}
      BY <1>5, <1>8, <2>1, DisconnectedKeeps
    <3>2. Moves(q, r)
      BY <1>8, <3>1 DEF Moves, Takes
    <3> QED
      BY <1>8, <2>1, <3>1, <3>2 DEF Leaves
  <2>2. CASE ~lost
    <3>1. r = g
      BY <1>5, <2>2
    <3>2. RecordOK(r, b)
      BY <1>8, <3>1 DEF RecordOK
    <3> QED
      BY <1>8, <2>2, <3>1, <3>2 DEF Leaves, Moves
  <2> QED
    BY <2>1, <2>2
<1>10. c # NoSocket => lost /\ c = q.channel /\ c # s
  BY <1>6, <1>8
<1>11. PICK base : base = IF lost THEN Closed(c) ELSE socket
  OBVIOUS
<1>12. /\ UNCHANGED <<shown, stood>> /\ brain' = [brain EXCEPT ![b] = r]
       /\ socket' = [base EXCEPT ![s].state = "closed"]
       /\ socket[s].state \in {"late", "open", "closing"}
  BY <1>1, <1>2, <1>3, <1>4, <1>5, <1>6, <1>11 DEF SocketClosed
<1>13. /\ base \in [Socket -> SocketRecord]
       /\ \A x \in Socket : /\ base[x].of = socket[x].of /\ base[x].by = socket[x].by
                            /\ x # c => base[x] = socket[x]
       /\ c # NoSocket => /\ socket[c].of = b /\ socket[c].state \in {"open", "closing"}
                          /\ base[c].state = "closing"
  <2>1. socket \in [Socket -> SocketRecord]
    BY DEF SessionInv, TypeOK
  <2>2. CASE c = NoSocket
    <3>1. Closed(c) = socket
      BY <2>1, <2>2, Basics DEF Closed
    <3> QED
      BY <1>11, <2>1, <2>2, <3>1
  <2>3. CASE c # NoSocket
    <3>1. base = Closed(c) /\ c = brain[b].channel
      BY <1>2, <1>10, <1>11, <2>3
    <3>2. /\ Closed(c) \in [Socket -> SocketRecord]
          /\ \A x \in Socket : /\ Closed(c)[x].of = socket[x].of
                               /\ Closed(c)[x].by = socket[x].by
                               /\ x # c => Closed(c)[x] = socket[x]
          /\ c # NoSocket => /\ c \in Socket /\ socket[c].of = b
                             /\ socket[c].state \in {"open", "closing"}
                             /\ Closed(c)[c].state = "closing"
      BY <3>1, ClosedIs
    <3> QED
      BY <2>3, <3>1, <3>2
  <2> QED
    BY <2>2, <2>3
<1>14. /\ socket' \in [Socket -> SocketRecord] /\ socket'[s].state = "closed"
       /\ socket'[s].of = base[s].of /\ socket'[s].by = base[s].by
       /\ \A x \in Socket : x # s => socket'[x] = base[x]
  BY <1>12, <1>13 DEF SocketRecord
<1>15. r.channel # s
  BY <1>7, <1>8, <1>9
<1>16. Closes(b, q, r)
  <2>1. \A x \in Socket : socket'[x].of = socket[x].of /\ socket'[x].by = socket[x].by
    BY <1>13, <1>14
  <2>2. ASSUME NEW x \in Socket
        PROVE  \/ socket'[x].state = socket[x].state
               \/ /\ socket[x].of = b /\ socket[x].state \in {"late", "open", "closing"}
                  /\ socket'[x].state \in {"closing", "closed"}
                  /\ socket'[x].state = "closed" => r.channel # x
    <3>1. CASE x = s
      BY <1>1, <1>12, <1>14, <1>15, <3>1
    <3>2. CASE x # s /\ x = c
      BY <1>13, <1>14, <3>2, Basics
    <3>3. CASE x # s /\ x # c
      BY <1>13, <1>14, <3>3
    <3> QED
      BY <3>1, <3>2, <3>3
  <2>3. ASSUME NEW x \in Socket, socket'[x].state = "open", q.channel = x
        PROVE  r.channel = x
    <3>1. x # s
      BY <1>14, <2>3
    <3>2. g.channel = x
      BY <1>8, <2>3, <3>1
    <3>3. CASE lost
      BY <1>6, <1>13, <1>14, <2>3, <3>1, <3>2, <3>3, Basics
    <3>4. CASE ~lost
      BY <1>9, <3>2, <3>4
    <3> QED
      BY <3>3, <3>4
  <2> QED
    BY <1>14, <2>1, <2>2, <2>3 DEF Closes
<1>17. SessionInv'
  BY <1>2, <1>9, <1>12, <1>16, ClosesKeeps
<1> QED
  BY <1>2, <1>9, <1>12, <1>17, OneKept

-----------------------------------------------------------------------------
(* The calls that concern every brain.                                     *)

LEMMA SetActiveBrainStep ==
    ASSUME SessionInv, NEW named \in Brain \cup {Elsewhere}, SetActiveBrain(named)
    PROVE  Kept
<1> DEFINE next(b) == IF b = shown THEN StandDownReopen(brain[b])
                      ELSE IF b = named /\ WantsReopen(brain[b])
                           THEN [brain[b] EXCEPT !.dialing = "waiting"]
                      ELSE brain[b]
<1>1. /\ ~stood /\ named # shown /\ shown' = named
      /\ brain' = [b \in Brain |-> next(b)]
      /\ UNCHANGED <<socket, stood>>
  BY DEF SetActiveBrain
<1>2. ASSUME NEW b \in Brain, NEW q, q = brain[b], NEW r, r = next(b)
      PROVE  /\ r \in BrainRecord /\ r.status = q.status /\ r.stopping = q.stopping
             /\ r.channel = q.channel /\ r.opening = q.opening /\ r.refused = q.refused
             /\ r.waiting = q.waiting /\ r.turn = q.turn /\ r.asked = q.asked
             /\ r.dialing = IF b = shown THEN "none"
                            ELSE IF b = named /\ WantsReopen(q) THEN "waiting" ELSE q.dialing
  <2>1. q \in BrainRecord
    BY <1>2 DEF SessionInv, TypeOK
  <2>2. r = IF b = shown THEN [q EXCEPT !.dialing = "none"]
            ELSE IF b = named /\ WantsReopen(q) THEN [q EXCEPT !.dialing = "waiting"]
            ELSE q
    BY <1>2 DEF StandDownReopen
  <2> QED
    BY <2>1, <2>2 DEF BrainRecord
<1> HIDE DEF next
<1>3. \A b \in Brain : brain'[b] = next(b)
  BY <1>1
<1>4. \A b \in Brain : next(b) \in BrainRecord
  BY <1>2
<1>5. ASSUME NEW b \in Brain
      PROVE  RecordOK(brain[b], b)' /\ Refers(brain[b], b)' /\ Promised(b)
             /\ brain'[b].channel = brain[b].channel
  <2>1. PICK q : q = brain[b]
    OBVIOUS
  <2>2. PICK r : r = next(b)
    OBVIOUS
  <2>3. /\ r \in BrainRecord /\ r.status = q.status /\ r.stopping = q.stopping
        /\ r.channel = q.channel /\ r.opening = q.opening /\ r.refused = q.refused
        /\ r.waiting = q.waiting /\ r.turn = q.turn /\ r.asked = q.asked
        /\ r.dialing = IF b = shown THEN "none"
                       ELSE IF b = named /\ WantsReopen(q) THEN "waiting" ELSE q.dialing
    BY <1>2, <2>1, <2>2
  <2>4. RecordOK(q, b) /\ Refers(q, b)
    BY <2>1 DEF SessionInv, Records, Referred
  <2>5. Running(r) <=> Running(q)
    BY <2>3 DEF Running
  <2>6. Whole(r)
    BY <2>3, <2>4 DEF RecordOK, Whole, One, TurnForm, WantsReopen
  <2>7. Shows(r)
    BY <1>1, <2>3, <2>4, <2>5 DEF RecordOK, Shows
  <2>8. b = named => Sought(r)
    <3>1. WantsReopen(q) \/ q.dialing # "none" \/ q.refused \/ q.channel # NoSocket
          \/ q.opening # NoSocket \/ Running(q)
      BY DEF WantsReopen
    <3> QED
      BY <1>1, <2>3, <2>4, <3>1 DEF RecordOK, Shows, Sought
  <2>9. RecordOK(r, b)' /\ (brain[b])' = r
    BY <1>1, <1>3, <2>2, <2>6, <2>7, <2>8 DEF RecordOK
  <2>10. Refers(r, b)'
    BY <1>1, <2>3, <2>4, Basics DEF Refers, Session, Handshake
  <2>11. Promised(b)
    BY <2>1, <2>3, <2>9 DEF Promised, Queue!Keeps, Running
  <2> QED
    BY <2>1, <2>3, <2>9, <2>10, <2>11
       DEF RecordOK, Whole, One, TurnForm, Shows, Sought, Over, Running,
           Refers, Session, Handshake
<1>6. TypeOK'
  BY <1>1, <1>4 DEF SessionInv, TypeOK
<1>7. Named'
  BY <1>1 DEF SessionInv, Named
<1>8. Held'
  <2> SUFFICES ASSUME NEW s \in Socket, socket[s].state = "open"
               PROVE  brain'[socket[s].of].channel = s
    BY <1>1 DEF Held
  <2>1. brain[socket[s].of].channel = s /\ socket[s].of \in Brain
    BY DEF SessionInv, Held, Named
  <2> QED
    BY <1>5, <2>1
<1>9. Records' /\ Referred'
  BY <1>5 DEF Records, Referred
<1> QED
  BY <1>5, <1>6, <1>7, <1>8, <1>9 DEF Kept, SessionInv

LEMMA StopAllStep ==
    ASSUME SessionInv, StopAll
    PROVE  Kept
<1>1. /\ ~stood /\ UNCHANGED <<shown, socket, stood>>
      /\ brain' = [b \in Brain |-> AskToStop(brain[b])]
  BY DEF StopAll
<1>2. ASSUME NEW b \in Brain
      PROVE  /\ RecordOK(brain[b], b)' /\ Refers(brain[b], b)' /\ Promised(b)
             /\ brain'[b] \in BrainRecord /\ brain'[b].channel = brain[b].channel
  <2>1. PICK q : q = brain[b]
    OBVIOUS
  <2>2. PICK r : r = AskToStop(q)
    OBVIOUS
  <2>3. RecordOK(q, b) /\ Refers(q, b)
    BY <2>1 DEF SessionInv, Records, Referred
  <2>4. /\ RecordOK(r, b) /\ Within(r, q) /\ r.channel = q.channel
        /\ r.waiting = q.waiting /\ r.asked = q.asked /\ (Running(r) <=> Running(q))
    BY <2>2, <2>3, AskToStopKeeps
  <2>5. (brain[b])' = r
    BY <1>1, <2>1, <2>2
  <2>6. RecordOK(brain[b], b)'
    BY <1>1, <2>4, <2>5 DEF RecordOK, Shows, Sought, Over, Running
  <2>7. Refers(r, b)
    BY <2>3, <2>4, Basics DEF Refers, Session, Handshake, Within, NoTurn
  <2>8. Refers(brain[b], b)'
    BY <1>1, <2>5, <2>7 DEF Refers, Session, Handshake
  <2>9. Promised(b)
    BY <2>1, <2>4, <2>5 DEF Promised, Queue!Keeps, Running
  <2> QED
    BY <2>1, <2>4, <2>5, <2>6, <2>8, <2>9 DEF RecordOK, Whole
<1>3. TypeOK'
  <2>1. brain' \in [Brain -> BrainRecord]
    BY <1>1, <1>2
  <2> QED
    BY <1>1, <2>1 DEF SessionInv, TypeOK
<1>4. Named'
  BY <1>1 DEF SessionInv, Named
<1>5. Held'
  <2> SUFFICES ASSUME NEW s \in Socket, socket[s].state = "open"
               PROVE  brain'[socket[s].of].channel = s
    BY <1>1 DEF Held
  <2>1. brain[socket[s].of].channel = s /\ socket[s].of \in Brain
    BY DEF SessionInv, Held, Named
  <2> QED
    BY <1>2, <2>1
<1>6. Records' /\ Referred'
  BY <1>2 DEF Records, Referred
<1> QED
  BY <1>2, <1>3, <1>4, <1>5, <1>6 DEF Kept, SessionInv

LEMMA CloseStep ==
    ASSUME SessionInv, Close
    PROVE  Kept /\ \A b \in Brain : Queue!StandDown(b)
<1> DEFINE next(b) == [StandDownReopen(brain[b]) EXCEPT
                         !.status = "idle", !.channel = NoSocket, !.opening = NoSocket,
                         !.refused = FALSE, !.stopping = FALSE, !.waiting = <<>>]
           held(s) == \E b \in Brain : brain[b].channel = s
           shut(s) == IF held(s) THEN [socket[s] EXCEPT !.state = "closing"] ELSE socket[s]
<1>1. /\ ~stood /\ stood' /\ shown' = shown
      /\ brain' = [b \in Brain |-> next(b)] /\ socket' = [s \in Socket |-> shut(s)]
  BY DEF Close
<1>2. ASSUME NEW b \in Brain, NEW q, q = brain[b], NEW r, r = next(b)
      PROVE  /\ r \in BrainRecord /\ r.status = "idle" /\ ~r.stopping
             /\ r.channel = NoSocket /\ r.opening = NoSocket /\ ~r.refused
             /\ r.waiting = <<>> /\ r.turn = q.turn /\ r.asked = q.asked /\ r.dialing = "none"
  <2>1. q \in BrainRecord
    BY <1>2 DEF SessionInv, TypeOK
  <2>2. PICK w \in Seq(Entry) : w = <<>>
    <3>1. <<>> \in Seq(Entry)
      OBVIOUS
    <3> QED
      BY <3>1
  <2>3. r = [q EXCEPT !.dialing = "none", !.status = "idle", !.channel = NoSocket,
                      !.opening = NoSocket, !.refused = FALSE, !.stopping = FALSE,
                      !.waiting = w]
    BY <1>2, <2>1, <2>2 DEF StandDownReopen, BrainRecord
  <2> QED
    BY <2>1, <2>2, <2>3 DEF BrainRecord, Entry
<1>3. ASSUME NEW s \in Socket
      PROVE  /\ shut(s) \in SocketRecord
             /\ shut(s).of = socket[s].of /\ shut(s).by = socket[s].by
             /\ shut(s).state = IF held(s) THEN "closing" ELSE socket[s].state
  <2>1. socket[s] \in SocketRecord
    BY DEF SessionInv, TypeOK
  <2> HIDE DEF held
  <2> QED
    BY <2>1 DEF SocketRecord
<1>4. \A s \in Socket : held(s) => socket[s].state \in {"open", "closing"}
  BY Basics DEF SessionInv, Referred, Refers, Session
<1> HIDE DEF next, held, shut
<1>5. \A s \in Socket : /\ socket'[s].of = socket[s].of /\ socket'[s].by = socket[s].by
                        /\ socket'[s].state = IF held(s) THEN "closing" ELSE socket[s].state
  BY <1>1, <1>3
<1>6. socket' \in [Socket -> SocketRecord]
  BY <1>1, <1>3
<1>7. ASSUME NEW b \in Brain
      PROVE  /\ RecordOK(brain[b], b)' /\ Refers(brain[b], b)' /\ Promised(b)
             /\ brain'[b] \in BrainRecord /\ Queue!StandDown(b)
  <2>1. PICK q : q = brain[b]
    OBVIOUS
  <2>2. PICK r : r = next(b)
    OBVIOUS
  <2>3. /\ r \in BrainRecord /\ r.status = "idle" /\ ~r.stopping
        /\ r.channel = NoSocket /\ r.opening = NoSocket /\ ~r.refused
        /\ r.waiting = <<>> /\ r.turn = q.turn /\ r.asked = q.asked /\ r.dialing = "none"
    BY <1>2, <2>1, <2>2
  <2>4. RecordOK(q, b) /\ Refers(q, b)
    BY <2>1 DEF SessionInv, Records, Referred
  <2>5. (brain[b])' = r
    BY <1>1, <2>2
  <2>6. Whole(r) /\ Over(r)
    BY <2>3, <2>4 DEF RecordOK, Whole, One, TurnForm, SoloFirst, Over, Running
  <2>7. RecordOK(brain[b], b)'
    BY <1>1, <2>5, <2>6 DEF RecordOK, Whole, One, TurnForm, SoloFirst, Over, Running
  <2>8. Refers(r, b)'
    <3>1. r.turn.at = "opening" => Handshake(r.turn.on, b, "open")'
      BY <1>4, <1>5, <2>3, <2>4 DEF Refers, Session, Handshake
    <3>2. r.turn.at \in {"reading", "serving"} =>
            Session(r.turn.on, b, {"open", "closing", "closed"})'
      BY <1>4, <1>5, <2>3, <2>4 DEF Refers, Session
    <3> QED
      BY <2>3, <3>1, <3>2, Basics DEF Refers, Session, Handshake
  <2>9. Refers(brain[b], b)'
    BY <2>5, <2>8 DEF Refers, Session, Handshake
  <2>10. Queue!StandDown(b)
    BY <2>1, <2>3, <2>5 DEF Queue!StandDown, Running
  <2> QED
    BY <1>1, <2>3, <2>5, <2>7, <2>9, <2>10 DEF Promised
<1>8. TypeOK'
  <2>1. brain' \in [Brain -> BrainRecord]
    BY <1>1, <1>7
  <2> QED
    BY <1>1, <1>6, <2>1 DEF SessionInv, TypeOK
<1>9. Named'
  <2> SUFFICES ASSUME NEW s \in Socket, socket'[s].state # "free"
               PROVE  socket'[s].of \in Brain
    BY DEF Named
  <2>1. socket[s].state # "free"
    BY <1>4, <1>5
  <2> QED
    BY <1>5, <2>1 DEF SessionInv, Named
<1>10. Held'
  <2> SUFFICES ASSUME NEW s \in Socket, socket'[s].state = "open"
               PROVE  FALSE
    BY DEF Held
  <2>1. ~held(s) /\ socket[s].state = "open"
    BY <1>5
  <2>2. brain[socket[s].of].channel = s /\ socket[s].of \in Brain
    BY <2>1 DEF SessionInv, Held, Named
  <2> QED
    BY <2>1, <2>2 DEF held
<1>11. Records' /\ Referred'
  BY <1>7 DEF Records, Referred
<1> QED
  BY <1>7, <1>8, <1>9, <1>10, <1>11 DEF Kept, SessionInv

-----------------------------------------------------------------------------
(* The specification.                                                      *)

LEMMA InitHolds == Init => SessionInv /\ Queue!Init
<1> SUFFICES ASSUME Init
             PROVE  SessionInv /\ Queue!Init
  OBVIOUS
<1> DEFINE q == [status |-> "idle", channel |-> NoSocket, opening |-> NoSocket,
                 dialing |-> "none", refused |-> FALSE, stopping |-> FALSE,
                 waiting |-> <<>>, turn |-> NoTurn, asked |-> <<>>]
<1>1. NoTurn \in Turn /\ NoTurn.at = "none" /\ NoTurn.on = NoSocket
  BY DEF NoTurn, Turn
<1>2. q \in BrainRecord
  BY <1>1 DEF BrainRecord
<1>3. /\ shown = NoSocket /\ stood = FALSE /\ brain = [b \in Brain |-> q]
      /\ socket = [s \in Socket |-> FreeSocket]
  BY DEF Init
<1>4. /\ q.status = "idle" /\ q.channel = NoSocket /\ q.opening = NoSocket
      /\ q.dialing = "none" /\ ~q.stopping /\ q.waiting = <<>> /\ q.asked = <<>>
      /\ q.turn.at = "none" /\ q.turn.on = NoSocket
  BY <1>1
<1> HIDE DEF q
<1>5. FreeSocket \in SocketRecord /\ FreeSocket.state = "free"
  BY DEF FreeSocket, SocketRecord
<1>6. TypeOK
  BY <1>2, <1>3, <1>5 DEF TypeOK
<1>7. Records
  <2>1. Whole(q) /\ Shows(q)
    BY <1>2, <1>4 DEF Whole, One, TurnForm, SoloFirst, Shows, Running
  <2>2. \A b \in Brain : brain[b] = q /\ shown # b
    BY <1>3, Basics
  <2> QED
    BY <1>3, <2>1, <2>2 DEF Records, RecordOK
<1>8. Referred
  <2>1. \A b \in Brain : brain[b] = q
    BY <1>3
  <2> QED
    BY <1>4, <2>1, Basics DEF Referred, Refers
<1>9. Named /\ Held
  BY <1>3, <1>5 DEF Named, Held
<1>10. Queue!Init
  BY <1>3, <1>4 DEF Queue!Init, Running
<1> QED
  BY <1>6, <1>7, <1>8, <1>9, <1>10 DEF SessionInv

LEMMA StepKept ==
    ASSUME SessionInv, [Next]_vars
    PROVE  Kept
<1>1. CASE UNCHANGED vars
  <2>1. UNCHANGED <<shown, brain, stood>> /\ UNCHANGED socket
    BY <1>1 DEF vars
  <2>2. socket' \in [Socket -> SocketRecord] /\ Referred' /\ Named' /\ Held'
    BY <2>1 DEF SessionInv, TypeOK, Referred, Refers, Session, Handshake, Named, Held
  <2> QED
    BY <2>1, <2>2, SocketsKeep
<1>2. CASE \E named \in Brain \cup {Elsewhere} : SetActiveBrain(named)
  BY <1>2, SetActiveBrainStep
<1>3. ASSUME NEW b \in Brain,
             \/ OpenSession(b) \/ Stop(b) \/ DialDue(b)
             \/ ToolCalls(b) \/ TurnEnd(b) \/ ServingEnds(b)
      PROVE  Kept
  BY <1>3, OpenSessionStep, StopStep, DialDueStep, ToolCallsStep, TurnEndStep, ServingEndsStep
<1>4. ASSUME NEW b \in Brain,
             \/ \E a \in Ask : Send(b, a)
             \/ \E l \in Library : LibraryAdded(b, l)
             \/ \E i \in DOMAIN brain[b].waiting : CancelAsk(b, i) \/ SendNow(b, i)
      PROVE  Kept
  BY <1>4, SendStep, LibraryAddedStep, CancelAskStep, SendNowStep
<1>5. CASE StopAll \/ Close
  BY <1>5, StopAllStep, CloseStep
<1>6. ASSUME NEW s \in Socket,
             \/ SocketOpens(s) \/ HandshakeRunsOut(s) \/ Accepted(s) \/ Refused(s)
             \/ HandshakeFails(s) \/ SocketClosed(s) \/ BadFrame(s)
      PROVE  Kept
  BY <1>6, SocketOpensStep, HandshakeRunsOutStep, AcceptedStep, RefusedStep,
     HandshakeFailsStep, SocketClosedStep, BadFrameStep
<1> QED
  BY <1>1, <1>2, <1>3, <1>4, <1>5, <1>6 DEF Next

(* Nothing but close() stands the machine down.                            *)
LEMMA OthersStand ==
    ASSUME [Next]_vars, ~Close
    PROVE  stood' = stood
<1>1. CASE UNCHANGED vars
  BY <1>1 DEF vars
<1>2. CASE \E named \in Brain \cup {Elsewhere} : SetActiveBrain(named)
  BY <1>2 DEF SetActiveBrain
<1>3. ASSUME NEW b \in Brain, OpenSession(b) \/ Stop(b) \/ DialDue(b)
      PROVE  stood' = stood
  BY <1>3 DEF OpenSession, Opens, Stop, Sets, DialDue
<1>4. ASSUME NEW b \in Brain, ToolCalls(b) \/ TurnEnd(b) \/ ServingEnds(b)
      PROVE  stood' = stood
  BY <1>4 DEF ToolCalls, TurnEnd, ServingEnds, Sets
<1>5. ASSUME NEW b \in Brain,
             \/ \E a \in Ask : Send(b, a)
             \/ \E l \in Library : LibraryAdded(b, l)
      PROVE  stood' = stood
  BY <1>5 DEF Send, LibraryAdded, Opens, Sets
<1>6. ASSUME NEW b \in Brain, NEW i \in DOMAIN brain[b].waiting, CancelAsk(b, i) \/ SendNow(b, i)
      PROVE  stood' = stood
  BY <1>6 DEF CancelAsk, SendNow, Opens, Sets
<1>7. CASE StopAll
  BY <1>7 DEF StopAll
<1>8. ASSUME NEW s \in Socket,
             \/ SocketOpens(s) \/ HandshakeRunsOut(s) \/ Accepted(s) \/ Refused(s)
             \/ HandshakeFails(s) \/ SocketClosed(s) \/ BadFrame(s)
      PROVE  stood' = stood
  BY <1>8 DEF SocketOpens, HandshakeRunsOut, Accepted, Refused, HandshakeFails,
              SocketClosed, BadFrame, Comes
<1> QED
  BY <1>1, <1>2, <1>3, <1>4, <1>5, <1>6, <1>7, <1>8 DEF Next

LEMMA InvAlways == Spec => []SessionInv
<1>1. Init => SessionInv
  BY InitHolds
<1>2. SessionInv /\ [Next]_vars => SessionInv'
  BY StepKept DEF Kept
<1> QED
  BY <1>1, <1>2, PTL DEF Spec

(* Every state of the machine has the types TypeOK says.                   *)
THEOREM TypeCorrect == Spec => []TypeOK
<1>1. SessionInv => TypeOK
  BY DEF SessionInv
<1> QED
  BY <1>1, InvAlways, PTL

(* OneSession for any brains and sockets: no late acceptance, reopen or    *)
(* open of the person's leaves a second session or attempt.                *)
THEOREM OneSessionHolds == Spec => []OneSession
<1>1. SessionInv => OneSession
  BY DEF SessionInv, Records, RecordOK, Whole, One, Held, OneSession
<1> QED
  BY <1>1, InvAlways, PTL

(* StatusTruthful for any brains and sockets: what is shown of a brain is  *)
(* so, and a shown brain without a session is dialed for.                  *)
THEOREM StatusHolds == Spec => []StatusTruthful
<1>1. SessionInv => StatusTruthful
  BY DEF SessionInv, Records, RecordOK, Shows, Sought, StatusTruthful
<1> QED
  BY <1>1, InvAlways, PTL

(* The machine implements AskQueue, by the mapping of Queue: from every    *)
(* reachable state each step takes every brain along one of its steps, or  *)
(* leaves its words alone.                                                 *)
THEOREM PromiseHolds == Spec => QueuePromise
<1>1. Init => Queue!Init
  BY InitHolds
<1>2. SessionInv => Queue!TypeOK
  <2> SUFFICES ASSUME SessionInv
               PROVE  Queue!TypeOK
    OBVIOUS
  <2>1. \A b \in Brain : /\ Running(brain[b]) \in BOOLEAN
                         /\ brain[b].waiting \in Seq(Entry) /\ brain[b].asked \in Seq(Ask)
    BY Fields DEF SessionInv, TypeOK, Running
  <2> QED
    BY <2>1 DEF Queue!TypeOK, Entry, SessionInv, TypeOK
<1>3. SessionInv /\ [Next]_vars => Queue!Next
  <2> SUFFICES ASSUME SessionInv, [Next]_vars
               PROVE  Queue!Next
    OBVIOUS
  <2>1. SessionInv' /\ \A b \in Brain : Promised(b)
    BY StepKept DEF Kept
  <2>2. Queue!TypeOK'
    BY <1>2, <2>1, PTL
  <2>3. CASE Close
    BY <2>2, <2>3, CloseStep DEF Queue!Next, Close
  <2>4. CASE ~Close
    BY <2>1, <2>2, <2>4, OthersStand DEF Queue!Next, Promised
  <2> QED
    BY <2>3, <2>4
<1> QED
  BY <1>1, <1>3, InvAlways, PTL DEF Spec, QueuePromise, Queue!Spec
=============================================================================
