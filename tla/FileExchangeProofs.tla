-------------------------- MODULE FileExchangeProofs --------------------------
(***************************************************************************)
(* The types of the file exchange, that no edit of the extension is        *)
(* forgotten, and that the trees agree once nothing is under way, for any  *)
(* number of edits and of requests under way.                              *)
(***************************************************************************)
EXTENDS FileExchange, FiniteSetTheorems, SequenceTheorems, TLAPS

-----------------------------------------------------------------------------
(* The inductive invariant.  A request under way to the app, and an answer *)
(* under way to the extension, is of the kind of what waits for it, if     *)
(* anything still does; a change that was applied is not owed any more;    *)
(* only a connected app has requests to answer, so that what it queues is  *)
(* its own changes.  What is kept for later was made before.               *)

ForChange(a) == a.for \in {"edit", "flush"}

Asks(m, qs) ==
    \A a \in ToSet(qs) : a.id = m.id =>
        IF m.type = "change" THEN ForChange(a) /\ a.change = m.change ELSE ~ForChange(a)

Answers(m, qs, due) ==
    \A a \in ToSet(qs) : m.type \in {"done", "tree"} /\ a.id = m.id =>
        IF m.type = "done" THEN ForChange(a) /\ a.change.edit \notin due ELSE ~ForChange(a)

Matched ==
    /\ \A m \in ToSet(toApp) \cup ToSet(extQueue) : Asks(m, asks)
    /\ \A m \in ToSet(toExt) : Answers(m, asks, owed)

OwnQueue ==
    /\ toApp # << >> => link["app"] = "open"
    /\ \A m \in ToSet(appQueue) : m.type = "change"

Made == appSeq <= edits /\ Held \subseteq 1 .. edits

FileInv == TypeOK /\ Matched /\ OwnQueue /\ Made /\ EditsAccounted

-----------------------------------------------------------------------------
(* Sequences.                                                              *)

LEMMA Joined ==
    ASSUME NEW S, NEW s \in Seq(S), NEW t \in Seq(S)
    PROVE  s \o t \in Seq(S) /\ ToSet(s \o t) = ToSet(s) \cup ToSet(t)
<1> DEFINE c == s \o t
<1>1. /\ c \in Seq(S) /\ Len(s) \in Nat /\ Len(t) \in Nat
      /\ DOMAIN s = 1 .. Len(s) /\ DOMAIN t = 1 .. Len(t)
      /\ DOMAIN c = 1 .. Len(s) + Len(t)
  OBVIOUS
<1>2. \A i \in DOMAIN s : i \in DOMAIN c /\ c[i] = s[i]
  OBVIOUS
<1>3. \A i \in DOMAIN t : i + Len(s) \in DOMAIN c /\ c[i + Len(s)] = t[i]
  OBVIOUS
<1>4. \A i \in DOMAIN c : i \in DOMAIN s \/ (i - Len(s) \in DOMAIN t /\ c[i] = t[i - Len(s)])
  BY <1>1
<1> HIDE DEF c
<1>5. ToSet(c) = ToSet(s) \cup ToSet(t)
  BY <1>2, <1>3, <1>4 DEF ToSet
<1> QED
  BY <1>1, <1>5 DEF c

LEMMA Single ==
    ASSUME NEW S, NEW e \in S
    PROVE  <<e>> \in Seq(S) /\ ToSet(<<e>>) = {e} /\ << >> \in Seq(S) /\ ToSet(<< >>) = {}
<1>1. <<e>> \in Seq(S) /\ << >> \in Seq(S) /\ DOMAIN <<e>> = {1} /\ <<e>>[1] = e
  OBVIOUS
<1>2. DOMAIN << >> = {}
  OBVIOUS
<1> QED
  BY <1>1, <1>2 DEF ToSet

LEMMA Appended ==
    ASSUME NEW S, NEW s \in Seq(S), NEW e \in S
    PROVE  Append(s, e) \in Seq(S) /\ ToSet(Append(s, e)) = ToSet(s) \cup {e}
<1>1. Append(s, e) = s \o <<e>>
  OBVIOUS
<1>2. <<e>> \in Seq(S) /\ ToSet(<<e>>) = {e}
  BY Single
<1>3. s \o <<e>> \in Seq(S) /\ ToSet(s \o <<e>>) = ToSet(s) \cup ToSet(<<e>>)
  BY ZenonT(30), <1>2, Joined
<1> QED
  BY <1>1, <1>2, <1>3

LEMMA Behind ==
    ASSUME NEW S, NEW s \in Seq(S), s # << >>
    PROVE  /\ Head(s) \in S /\ Tail(s) \in Seq(S)
           /\ ToSet(s) = {Head(s)} \cup ToSet(Tail(s))
<1>1. /\ Len(s) \in Nat \ {0} /\ DOMAIN s = 1 .. Len(s) /\ Tail(s) \in Seq(S)
      /\ DOMAIN Tail(s) = 1 .. Len(s) - 1
      /\ \A i \in DOMAIN Tail(s) : Tail(s)[i] = s[i + 1]
      /\ Head(s) = s[1] /\ Head(s) \in S
  OBVIOUS
<1>2. \A i \in DOMAIN s : i # 1 => i - 1 \in DOMAIN Tail(s) /\ s[i] = Tail(s)[i - 1]
  BY <1>1
<1>3. \A i \in DOMAIN Tail(s) : i + 1 \in DOMAIN s
  BY <1>1
<1>4. 1 \in DOMAIN s
  BY <1>1
<1>5. ToSet(s) \subseteq {Head(s)} \cup ToSet(Tail(s))
  <2> SUFFICES ASSUME NEW i \in DOMAIN s, s[i] # Head(s)
               PROVE  s[i] \in ToSet(Tail(s))
    BY DEF ToSet
  <2>1. i - 1 \in DOMAIN Tail(s) /\ s[i] = Tail(s)[i - 1]
    BY <1>1, <1>2
  <2> QED
    BY <2>1 DEF ToSet
<1>6. {Head(s)} \cup ToSet(Tail(s)) \subseteq ToSet(s)
  BY <1>1, <1>3, <1>4 DEF ToSet
<1> QED
  BY <1>1, <1>5, <1>6

LEMMA Removed ==
    ASSUME NEW S, NEW s \in Seq(S), NEW k \in DOMAIN s
    PROVE  LET t == RemoveAt(s, k)
           IN  /\ t \in Seq(S) /\ Len(t) = Len(s) - 1
               /\ \A i \in DOMAIN t : t[i] = s[IF i < k THEN i ELSE i + 1]
               /\ \A i \in DOMAIN s : i # k => s[i] \in ToSet(t)
<1> DEFINE front == SubSeq(s, 1, k - 1)
           back == SubSeq(s, k + 1, Len(s))
           t == RemoveAt(s, k)
<1>1. /\ front \in Seq(S) /\ Len(front) = k - 1
      /\ \A j \in 1 .. k - 1 : front[j] = s[j]
  OBVIOUS
<1>2. /\ back \in Seq(S) /\ Len(back) = Len(s) - k
      /\ \A j \in 1 .. Len(s) - k : back[j] = s[k + j]
  OBVIOUS
<1>3. t = front \o back
  BY DEF RemoveAt
<1> HIDE DEF front, back, t
<1>4. /\ t \in Seq(S) /\ Len(t) = Len(s) - 1 /\ DOMAIN t = 1 .. Len(s) - 1
      /\ \A j \in 1 .. Len(s) - 1 : t[j] = s[IF j < k THEN j ELSE j + 1]
  <2>1. t \in Seq(S) /\ Len(t) = Len(s) - 1 /\ DOMAIN t = 1 .. Len(s) - 1
    BY <1>1, <1>2, <1>3
  <2>2. ASSUME NEW j \in 1 .. k - 1
        PROVE  t[j] = s[j]
    BY <1>1, <1>2, <1>3
  <2>3. ASSUME NEW j \in k .. Len(s) - 1
        PROVE  t[j] = s[j + 1]
    <3>1. t[j] = back[j - (k - 1)]
      BY <1>1, <1>2, <1>3
    <3>2. j - (k - 1) \in 1 .. Len(s) - k
      OBVIOUS
    <3> QED
      BY <1>2, <3>1, <3>2
  <2>4. \A j \in 1 .. Len(s) - 1 : j \in 1 .. k - 1 \/ j \in k .. Len(s) - 1
    OBVIOUS
  <2> QED
    BY SMTT(30), <2>1, <2>2, <2>3, <2>4
<1>5. ASSUME NEW i \in DOMAIN s, i # k
      PROVE  s[i] \in ToSet(t)
  <2>1. CASE i < k
    <3>1. i \in DOMAIN t /\ t[i] = s[i]
      BY <1>4, <2>1
    <3> QED
      BY <3>1 DEF ToSet
  <2>2. CASE i > k
    <3>1. i - 1 \in DOMAIN t /\ t[i - 1] = s[i]
      BY <1>4, <2>2
    <3> QED
      BY <3>1 DEF ToSet
  <2> QED
    BY <1>5, <2>1, <2>2
<1> QED
  BY <1>4, <1>5 DEF t

LEMMA RemovedFrom ==
    ASSUME NEW S, NEW s \in Seq(S), NEW k \in DOMAIN s
    PROVE  RemoveAt(s, k) \in Seq(S) /\ ToSet(RemoveAt(s, k)) \subseteq ToSet(s)
<1>1. PICK t : t = RemoveAt(s, k)
  OBVIOUS
<1>2. /\ t \in Seq(S) /\ Len(t) = Len(s) - 1
      /\ \A i \in DOMAIN t : t[i] = s[IF i < k THEN i ELSE i + 1]
  BY <1>1, Removed, Zenon
<1>3. \A i \in DOMAIN t : (IF i < k THEN i ELSE i + 1) \in DOMAIN s
  BY <1>2
<1> QED
  BY <1>1, <1>2, <1>3 DEF ToSet

(* The first position at which something is so.                            *)
LEMMA FirstOf ==
    ASSUME NEW n \in Nat, NEW T \in SUBSET (1 .. n), T # {}
    PROVE  Min(T) \in T /\ \A j \in T : Min(T) <= j
<1>1. PICK U : U = {i \in 1 .. n : \A j \in T : i < j}
  OBVIOUS
<1>2. U \subseteq 1 .. n /\ \A i \in U : 1 .. i \subseteq U
  BY <1>1
<1>3. IsFiniteSet(U)
  <2>1. IsFiniteSet(1 .. n)
    BY FS_Interval
  <2> QED
    BY <1>2, <2>1, FS_Subset
<1>4. PICK c \in Nat : c = Cardinality(U)
  BY <1>3, FS_CardinalityType
<1>5. U \subseteq 1 .. c
  <2> SUFFICES ASSUME NEW i \in U
               PROVE  i <= c
    BY <1>2
  <2>1. Cardinality(1 .. i) = i /\ i \in Nat
    BY <1>2, FS_Interval
  <2>2. 1 .. i \subseteq U
    BY <1>2
  <2> QED
    BY <1>3, <1>4, <2>1, <2>2, FS_Subset
<1>6. U = 1 .. c
  <2>1. IsFiniteSet(1 .. c) /\ Cardinality(1 .. c) = c
    BY FS_Interval
  <2> QED
    BY <1>4, <1>5, <2>1, FS_Subset
<1>7. \A j \in T : c + 1 <= j
  <2> SUFFICES ASSUME NEW j \in T, j <= c
               PROVE  FALSE
    OBVIOUS
  <2>1. j \in U
    BY <1>6
  <2> QED
    BY <1>1, <2>1
<1>8. c + 1 \in T
  <2>1. c + 1 \in 1 .. n /\ c + 1 \notin U
    <3>1. PICK t \in T : TRUE
      OBVIOUS
    <3> QED
      BY <1>6, <1>7, <3>1
  <2>2. PICK j \in T : ~(c + 1 < j)
    BY <1>1, <2>1
  <2> QED
    BY <1>7, <2>2
<1>9. \E x \in T : \A y \in T : x <= y
  BY <1>7, <1>8
<1> QED
  BY <1>9 DEF Min

-----------------------------------------------------------------------------
(* Types.                                                                  *)

LEMMA Bounds ==
    /\ MaxEdits \in Nat \ {0} /\ MaxAsks \in Nat \ {0} /\ MaxAttempts \in Nat \ {0}
    /\ MaxUpsets \in Nat \ {0} /\ Missing \notin Nat
BY FileExchangeAssumption

LEMMA Typed ==
    TypeOK => /\ tree \in [Side -> Content] /\ tree["app"] \in Content /\ tree["ext"] \in Content
              /\ link \in [Side -> {"off", "down", "open", "dead"}]
              /\ toApp \in Seq(ToApp) /\ toExt \in Seq(ToExt)
              /\ appQueue \in Seq(ToExt) /\ extQueue \in Seq(ToApp)
              /\ asks \in Seq(Asking) /\ naps \in Seq(Attempts) /\ pending \in Seq(Change)
BY DEF TypeOK, Side

(* The fields of what is under way, and of what waits.                     *)
LEMMA Fields ==
    /\ \A m \in ToApp : m.id \in Id /\ m.type \in {"change", "sync"} /\ "id" \in DOMAIN m
    /\ \A m \in ToApp : m.type = "change" => m.change \in Change
    /\ \A m \in ToExt : m.type \in {"change", "done", "refused", "tree", "welcome", "away"}
    /\ \A m \in ToExt : m.type \in {"done", "refused", "tree"} <=> "id" \in DOMAIN m
    /\ \A m \in ToExt : m.type \in {"done", "refused", "tree"} => m.id \in Id
    /\ \A m \in ToExt : m.type = "change" => m.change \in Change /\ m.seq \in Edit
    /\ \A m \in ToExt : m.type = "tree" => m.content \in Content /\ m.seq \in 0 .. MaxEdits
    /\ \A a \in Asking : a.id \in Id /\ a.for \in {"edit", "flush", "retry", "pull"} /\ "id" \in DOMAIN a
    /\ \A a \in Asking : ForChange(a) => a.change \in Change
    /\ \A a \in Asking : a.for = "flush" => a.rest \in Seq(Change) /\ a.failed \in Seq(Change)
    /\ \A a \in Asking : a.for = "retry" => a.left \in Attempts
    /\ \A c \in Change : c.edit \in Edit /\ c.to \in Content /\ c.expected \in Content
<1>1. /\ \A m \in ToApp : m.id \in Id /\ m.type \in {"change", "sync"} /\ "id" \in DOMAIN m
      /\ \A m \in ToApp : m.type = "change" => m.change \in Change
  BY DEF ToApp
<1>2. /\ \A m \in ToExt : m.type \in {"change", "done", "refused", "tree", "welcome", "away"}
      /\ \A m \in ToExt : m.type \in {"done", "refused", "tree"} <=> "id" \in DOMAIN m
      /\ \A m \in ToExt : m.type \in {"done", "refused", "tree"} => m.id \in Id
  BY DEF ToExt
<1>3. /\ \A m \in ToExt : m.type = "change" => m.change \in Change /\ m.seq \in Edit
      /\ \A m \in ToExt : m.type = "tree" => m.content \in Content /\ m.seq \in 0 .. MaxEdits
  BY DEF ToExt
<1>4. /\ \A a \in Asking : a.id \in Id /\ a.for \in {"edit", "flush", "retry", "pull"} /\ "id" \in DOMAIN a
      /\ \A a \in Asking : ForChange(a) => a.change \in Change
      /\ \A a \in Asking : a.for = "flush" => a.rest \in Seq(Change) /\ a.failed \in Seq(Change)
      /\ \A a \in Asking : a.for = "retry" => a.left \in Attempts
  BY DEF Asking, ForChange
<1>5. \A c \in Change : c.edit \in Edit /\ c.to \in Content /\ c.expected \in Content
  BY DEF Change
<1> QED
  BY <1>1, <1>2, <1>3, <1>4, <1>5

LEMMA Built ==
    /\ \A id \in Id, c \in Change :
        /\ Request(id, c) \in ToApp /\ Request(id, c).id = id /\ Request(id, c).type = "change"
        /\ Request(id, c).change = c
        /\ [id |-> id, for |-> "edit", change |-> c] \in Asking
    /\ \A id \in Id :
        /\ Sync(id) \in ToApp /\ Sync(id).id = id /\ Sync(id).type = "sync"
        /\ Pull(id) \in Asking /\ Pull(id).id = id /\ Pull(id).for = "pull"
        /\ [type |-> "refused", id |-> id] \in ToExt /\ [type |-> "done", id |-> id] \in ToExt
    /\ \A id \in Id, n \in Attempts :
        Retry(id, n) \in Asking /\ Retry(id, n).id = id /\ Retry(id, n).for = "retry"
    /\ [type |-> "welcome"] \in ToExt /\ [type |-> "away"] \in ToExt
<1>1. \A id \in Id, c \in Change :
        /\ Request(id, c) \in ToApp /\ Request(id, c).id = id /\ Request(id, c).type = "change"
        /\ Request(id, c).change = c
  BY DEF Request, ToApp
<1>2. \A id \in Id, c \in Change : [id |-> id, for |-> "edit", change |-> c] \in Asking
  BY DEF Asking
<1>3. \A id \in Id : Sync(id) \in ToApp /\ Sync(id).id = id /\ Sync(id).type = "sync"
  BY DEF Sync, ToApp
<1>4. \A id \in Id : Pull(id) \in Asking /\ Pull(id).id = id /\ Pull(id).for = "pull"
  BY DEF Pull, Asking
<1>5. \A id \in Id : [type |-> "refused", id |-> id] \in ToExt /\ [type |-> "done", id |-> id] \in ToExt
  BY DEF ToExt
<1>6. \A id \in Id, n \in Attempts :
        Retry(id, n) \in Asking /\ Retry(id, n).id = id /\ Retry(id, n).for = "retry"
  BY DEF Retry, Asking
<1>7. [type |-> "welcome"] \in ToExt /\ [type |-> "away"] \in ToExt
  BY DEF ToExt
<1> QED
  BY <1>1, <1>2, <1>3, <1>4, <1>5, <1>6, <1>7

LEMMA FlushIs ==
    ASSUME NEW id \in Id, NEW cs \in Seq(Change), cs # << >>, NEW failed \in Seq(Change)
    PROVE  LET a == Flush(id, cs, failed)
           IN  /\ a \in Asking /\ a.id = id /\ a.for = "flush"
               /\ a.change = Head(cs) /\ a.rest = Tail(cs) /\ a.failed = failed
<1>1. Head(cs) \in Change /\ Tail(cs) \in Seq(Change)
  BY Behind
<1> QED
  BY <1>1 DEF Flush, Asking

LEMMA EnqueueIs ==
    ASSUME TypeOK, NEW c \in Change
    PROVE  /\ Enqueue(c) \in Seq(Change) /\ c \in ToSet(Enqueue(c))
           /\ ToSet(Enqueue(c)) \subseteq ToSet(pending) \cup {c}
<1> DEFINE I == {i \in 1 .. Len(pending) : Key(pending[i]) = Key(c)}
           kept == RemoveFirstMatch(pending, LAMBDA d : Key(d) = Key(c))
<1>1. pending \in Seq(Change) /\ Len(pending) \in Nat /\ DOMAIN pending = 1 .. Len(pending)
  BY Typed
<1>2. kept \in Seq(Change) /\ ToSet(kept) \subseteq ToSet(pending)
  <2>1. CASE I = {}
    <3>1. kept = pending
      BY <2>1 DEF RemoveFirstMatch
    <3> QED
      BY <1>1, <3>1
  <2>2. CASE I # {}
    <3>1. Min(I) \in DOMAIN pending
      <4>1. I \in SUBSET (1 .. Len(pending))
        OBVIOUS
      <4> HIDE DEF I
      <4>2. Min(I) \in I
        BY <1>1, <2>2, <4>1, FirstOf
      <4> QED
        BY <1>1, <4>1, <4>2
    <3>2. kept = RemoveAt(pending, Min(I))
      BY <2>2 DEF RemoveFirstMatch, SelectInSeq
    <3> HIDE DEF I, kept
    <3> QED
      BY <1>1, <3>1, <3>2, RemovedFrom
  <2> QED
    BY <2>1, <2>2
<1>3. Enqueue(c) = Append(kept, c)
  BY DEF Enqueue
<1> HIDE DEF kept
<1> QED
  BY <1>2, <1>3, Appended

(* Identifiers that are free belong to nothing that waits or is under way. *)
Unknown(id) ==
    /\ \A a \in ToSet(asks) : a.id # id
    /\ \A m \in ToSet(toApp) \cup ToSet(extQueue) : m.id # id
    /\ \A m \in ToSet(toExt) : m.type \in {"done", "refused", "tree"} => m.id # id

LEMMA InNamed ==
    ASSUME NEW S, NEW ms \in Seq(S), NEW m \in ToSet(ms), "id" \in DOMAIN m
    PROVE  m.id \in Named(ms)
BY DEF Named, ToSet

LEMMA FreeIs == TypeOK => \A id \in Free : id \in Id /\ Unknown(id)
<1> SUFFICES ASSUME TypeOK, NEW id \in Free
             PROVE  id \in Id /\ Unknown(id)
  OBVIOUS
<1>1. /\ id \in Id /\ id \notin Named(asks) /\ id \notin Named(toApp)
      /\ id \notin Named(toExt) /\ id \notin Named(extQueue)
  BY DEF Free
<1>2. \A a \in ToSet(asks) : a \in Asking /\ a.id \in Named(asks)
  <2> SUFFICES ASSUME NEW a \in ToSet(asks)
               PROVE  a \in Asking /\ a.id \in Named(asks)
    OBVIOUS
  <2>1. a \in Asking
    BY Typed DEF ToSet
  <2> QED
    BY <2>1, Typed, Fields, InNamed
<1>3. \A m \in ToSet(toApp) : m.id \in Named(toApp)
  <2> SUFFICES ASSUME NEW m \in ToSet(toApp)
               PROVE  m.id \in Named(toApp)
    OBVIOUS
  <2>1. m \in ToApp
    BY Typed DEF ToSet
  <2> QED
    BY <2>1, Typed, Fields, InNamed
<1>4. \A m \in ToSet(extQueue) : m.id \in Named(extQueue)
  <2> SUFFICES ASSUME NEW m \in ToSet(extQueue)
               PROVE  m.id \in Named(extQueue)
    OBVIOUS
  <2>1. m \in ToApp
    BY Typed DEF ToSet
  <2> QED
    BY <2>1, Typed, Fields, InNamed
<1>5. \A m \in ToSet(toExt) : m.type \in {"done", "refused", "tree"} => m.id \in Named(toExt)
  <2> SUFFICES ASSUME NEW m \in ToSet(toExt), m.type \in {"done", "refused", "tree"}
               PROVE  m.id \in Named(toExt)
    OBVIOUS
  <2>1. m \in ToExt
    BY Typed DEF ToSet
  <2> QED
    BY <2>1, Typed, Fields, InNamed
<1> QED
  BY <1>1, <1>2, <1>3, <1>4, <1>5 DEF Unknown

LEMMA FreshIs ==
    /\ Free # {} => Fresh \in Free
    /\ Free \ {Fresh} # {} => Another \in Free /\ Another # Fresh
BY DEF Fresh, Another

-----------------------------------------------------------------------------
(* Requests that wait.                                                     *)

Unique(qs) == \A i, j \in DOMAIN qs : qs[i].id = qs[j].id => i = j

Waiting(qs) == qs \in Seq(Asking) /\ Unique(qs)

LEMMA CrossedIs ==
    ASSUME NEW qs \in Seq(Asking)
    PROVE  /\ Crossed(qs) \in Seq(Asking) /\ DOMAIN Crossed(qs) = DOMAIN qs
           /\ \A i \in DOMAIN qs :
                 /\ Crossed(qs)[i].id = qs[i].id
                 /\ IF ForChange(qs[i]) THEN Crossed(qs)[i] = qs[i] ELSE ~ForChange(Crossed(qs)[i])
<1> DEFINE at(i) == IF qs[i].for \in {"retry", "pull"} THEN [qs[i] EXCEPT !.clean = FALSE] ELSE qs[i]
<1>1. Crossed(qs) = [i \in 1 .. Len(qs) |-> at(i)] /\ Len(qs) \in Nat
  <2>1. DOMAIN qs = 1 .. Len(qs) /\ Len(qs) \in Nat
    OBVIOUS
  <2>2. Crossed(qs) = [i \in DOMAIN qs |-> at(i)]
    BY Zenon DEF Crossed
  <2> QED
    BY <2>1, <2>2
<1>2. ASSUME NEW a \in Asking, a.for \in {"retry", "pull"}
      PROVE  LET b == [a EXCEPT !.clean = FALSE]
             IN  b \in Asking /\ b.id = a.id /\ ~ForChange(b)
  <2>1. CASE a.for = "retry"
    <3>1. a \in [id : Id, for : {"retry"}, left : Attempts, clean : BOOLEAN]
      BY <2>1 DEF Asking
    <3> QED
      BY <3>1 DEF Asking, ForChange
  <2>2. CASE a.for = "pull"
    <3>1. a \in [id : Id, for : {"pull"}, clean : BOOLEAN]
      BY <2>2 DEF Asking
    <3> QED
      BY <3>1 DEF Asking, ForChange
  <2> QED
    BY <1>2, <2>1, <2>2
<1>3. \A i \in 1 .. Len(qs) :
        /\ at(i) \in Asking /\ at(i).id = qs[i].id
        /\ IF ForChange(qs[i]) THEN at(i) = qs[i] ELSE ~ForChange(at(i))
  <2> SUFFICES ASSUME NEW i \in 1 .. Len(qs)
               PROVE  /\ at(i) \in Asking /\ at(i).id = qs[i].id
                      /\ IF ForChange(qs[i]) THEN at(i) = qs[i] ELSE ~ForChange(at(i))
    OBVIOUS
  <2>1. qs[i] \in Asking
    OBVIOUS
  <2>4. qs[i].for \in {"edit", "flush", "retry", "pull"}
    BY <2>1, Fields
  <2>2. CASE qs[i].for \in {"retry", "pull"}
    BY <1>2, <2>1, <2>2 DEF ForChange
  <2>3. CASE qs[i].for \notin {"retry", "pull"}
    BY <2>1, <2>3, <2>4 DEF ForChange
  <2> QED
    BY <2>2, <2>3
<1> HIDE DEF at
<1>4. Crossed(qs) \in Seq(Asking)
  BY <1>1, <1>3
<1> QED
  BY <1>1, <1>3, <1>4

LEMMA CrossedWaits == ASSUME NEW qs, Waiting(qs) PROVE Waiting(Crossed(qs))
BY CrossedIs DEF Waiting, Unique

LEMMA RemovedWaits ==
    ASSUME NEW qs, Waiting(qs), NEW k \in DOMAIN qs
    PROVE  /\ Waiting(RemoveAt(qs, k))
           /\ \A b \in ToSet(RemoveAt(qs, k)) : b \in ToSet(qs) /\ b.id # qs[k].id
<1>1. PICK t : t = RemoveAt(qs, k)
  OBVIOUS
<1>6. qs \in Seq(Asking)
  BY DEF Waiting
<1>7. /\ t \in Seq(Asking) /\ Len(t) = Len(qs) - 1
      /\ \A i \in DOMAIN t : t[i] = qs[IF i < k THEN i ELSE i + 1]
  BY <1>1, <1>6, Removed, Zenon
<1>2. /\ t \in Seq(Asking) /\ DOMAIN t = 1 .. Len(qs) - 1
      /\ DOMAIN qs = 1 .. Len(qs) /\ Len(qs) \in Nat
      /\ \A i \in DOMAIN t : t[i] = qs[IF i < k THEN i ELSE i + 1]
  BY <1>6, <1>7
<1>3. \A i \in DOMAIN t : (IF i < k THEN i ELSE i + 1) \in DOMAIN qs
  BY <1>2
<1>4. Unique(t)
  BY SMTT(30), <1>2, <1>3 DEF Waiting, Unique
<1>5. \A i \in DOMAIN t : t[i] \in ToSet(qs) /\ t[i].id # qs[k].id
  BY <1>2, <1>3 DEF Waiting, Unique, ToSet
<1> QED
  BY <1>1, <1>2, <1>4, <1>5 DEF Waiting, ToSet

LEMMA AddedWaits ==
    ASSUME NEW qs, Waiting(qs), NEW a \in Asking, \A b \in ToSet(qs) : b.id # a.id
    PROVE  Waiting(Append(qs, a)) /\ ToSet(Append(qs, a)) = ToSet(qs) \cup {a}
<1>1. PICK t : t = Append(qs, a)
  OBVIOUS
<1>6. qs \in Seq(Asking)
  BY DEF Waiting
<1>2. t \in Seq(Asking) /\ ToSet(t) = ToSet(qs) \cup {a}
  BY <1>1, <1>6, Appended
<1>3. /\ DOMAIN t = 1 .. Len(qs) + 1 /\ DOMAIN qs = 1 .. Len(qs) /\ Len(qs) \in Nat
      /\ \A i \in DOMAIN qs : t[i] = qs[i]
      /\ t[Len(qs) + 1] = a
  BY <1>1, <1>6
<1>4. \A i \in DOMAIN qs : qs[i].id # a.id
  BY DEF ToSet
<1>5. Unique(t)
  BY <1>3, <1>4 DEF Waiting, Unique
<1> QED
  BY <1>1, <1>2, <1>5 DEF Waiting

-----------------------------------------------------------------------------
(* What is kept for later.                                                 *)

EditsOf(cs) == {c.edit : c \in ToSet(cs)}

Carries(a) ==
    IF a.for = "edit" THEN {a.change.edit}
    ELSE IF a.for = "flush" THEN {a.change.edit} \cup EditsOf(a.rest) \cup EditsOf(a.failed)
    ELSE {}

HeldBy(cs, qs) == EditsOf(cs) \cup UNION {Carries(a) : a \in ToSet(qs)}

LEMMA HeldIs ==
    /\ TypeOK => Held = HeldBy(pending, asks)
    /\ TypeOK' => Held' = HeldBy(pending', asks')
<1> DEFINE carries(a) == IF a.for = "edit" THEN {a.change.edit}
                         ELSE IF a.for = "flush"
                         THEN {c.edit : c \in {a.change} \cup ToSet(a.rest \o a.failed)} ELSE {}
<1>1. \A a \in Asking : carries(a) = Carries(a)
  <2> SUFFICES ASSUME NEW a \in Asking, a.for = "flush"
               PROVE  carries(a) = Carries(a)
    BY DEF Carries
  <2>1. a.rest \in Seq(Change) /\ a.failed \in Seq(Change)
    BY Fields
  <2>2. ToSet(a.rest \o a.failed) = ToSet(a.rest) \cup ToSet(a.failed)
    BY <2>1, Joined
  <2> QED
    BY <2>2 DEF Carries, EditsOf
<1>2. /\ Held = {pending[i].edit : i \in DOMAIN pending} \cup UNION {carries(asks[i]) : i \in DOMAIN asks}
      /\ Held' = {pending'[i].edit : i \in DOMAIN pending'} \cup
                 UNION {carries(asks'[i]) : i \in DOMAIN asks'}
  BY DEF Held
<1> HIDE DEF carries
<1>3. ASSUME NEW cs, NEW qs \in Seq(Asking)
      PROVE  {cs[i].edit : i \in DOMAIN cs} \cup UNION {carries(qs[i]) : i \in DOMAIN qs}
                = HeldBy(cs, qs)
  <2>1. \A i \in DOMAIN qs : carries(qs[i]) = Carries(qs[i])
    <3>1. \A i \in DOMAIN qs : qs[i] \in Asking
      OBVIOUS
    <3> QED
      BY <1>1, <3>1
  <2>2. {cs[i].edit : i \in DOMAIN cs} = EditsOf(cs)
    BY DEF EditsOf, ToSet
  <2>3. UNION {carries(qs[i]) : i \in DOMAIN qs} = UNION {Carries(a) : a \in ToSet(qs)}
    BY <2>1 DEF ToSet
  <2> QED
    BY <2>2, <2>3 DEF HeldBy
<1> QED
  BY <1>2, <1>3 DEF TypeOK

(* A request and what is said for it.                                      *)
Pairs(n, m) ==
    /\ n \in Asking /\ m \in ToApp /\ n.id = m.id
    /\ IF m.type = "change" THEN ForChange(n) /\ n.change = m.change ELSE ~ForChange(n)

LEMMA PairAsks ==
    ASSUME NEW qs, Waiting(qs), NEW n \in ToSet(qs), NEW m, Pairs(n, m)
    PROVE  Asks(m, qs)
<1> SUFFICES ASSUME NEW a \in ToSet(qs), a.id = m.id
             PROVE  a = n
  BY DEF Asks, Pairs
<1> QED
  BY DEF Waiting, Unique, ToSet, Pairs

Nexts(ask, say) ==
    \/ ask = << >> /\ say = << >>
    \/ \E n, m : ask = <<n>> /\ say = <<m>> /\ Pairs(n, m) /\ n.id \in Free

LEMMA FlushCarries ==
    ASSUME NEW id \in Id, NEW cs \in Seq(Change), cs # << >>, NEW failed \in Seq(Change)
    PROVE  /\ Pairs(Flush(id, cs, failed), Request(id, Head(cs)))
           /\ Flush(id, cs, failed).id = id
           /\ Carries(Flush(id, cs, failed)) = EditsOf(cs) \cup EditsOf(failed)
<1>1. PICK a : a = Flush(id, cs, failed)
  OBVIOUS
<1>2. /\ a \in Asking /\ a.id = id /\ a.for = "flush"
      /\ a.change = Head(cs) /\ a.rest = Tail(cs) /\ a.failed = failed
  BY <1>1, FlushIs
<1>3. Head(cs) \in Change /\ ToSet(cs) = {Head(cs)} \cup ToSet(Tail(cs))
  BY Behind
<1>4. Carries(a) = EditsOf(cs) \cup EditsOf(failed)
  BY <1>2, <1>3 DEF Carries, EditsOf
<1>5. Pairs(a, Request(id, Head(cs)))
  <2>1. PICK m : m = Request(id, Head(cs))
    OBVIOUS
  <2>2. m \in ToApp /\ m.id = id /\ m.type = "change" /\ m.change = Head(cs)
    BY <1>3, <2>1 DEF Request, ToApp
  <2> QED
    BY <1>2, <2>1, <2>2 DEF Pairs, ForChange
<1> QED
  BY <1>1, <1>2, <1>4, <1>5

LEMMA JoinedEdits ==
    ASSUME NEW cs \in Seq(Change), NEW ds \in Seq(Change)
    PROVE  cs \o ds \in Seq(Change) /\ EditsOf(cs \o ds) = EditsOf(cs) \cup EditsOf(ds)
BY Joined DEF EditsOf

LEMMA NoneHeld ==
    \A cs : HeldBy(cs, << >>) = EditsOf(cs)
BY DEF HeldBy, ToSet

LEMMA OneHeld ==
    ASSUME NEW cs, NEW a PROVE HeldBy(cs, <<a>>) = EditsOf(cs) \cup Carries(a)
<1>1. ToSet(<<a>>) = {a}
  BY Single
<1> QED
  BY <1>1 DEF HeldBy

(* What follows the end of a request: nothing of what it carried is let go *)
(* of but a change that was answered.                                      *)
LEMMA ContinuationIs ==
    ASSUME TypeOK, NEW a \in Asking, NEW answered \in BOOLEAN, a.for = "flush" => Free # {}
    PROVE  \E ask, say, nap, cs :
             /\ Continuation(a, answered) = [ask |-> ask, say |-> say, nap |-> nap, pending |-> cs]
             /\ Nexts(ask, say) /\ nap \in Seq(Attempts) /\ cs \in Seq(Change)
             /\ \A e \in Carries(a) : (answered /\ e = a.change.edit) \/ e \in HeldBy(cs, ask)
             /\ HeldBy(cs, ask) \subseteq Carries(a) \cup EditsOf(pending)
<1> DEFINE failed == IF answered THEN a.failed ELSE Append(a.failed, a.change)
           none == [ask |-> << >>, say |-> << >>, nap |-> << >>, pending |-> pending]
           Goal(ask, say, nap, cs) ==
             /\ Continuation(a, answered) = [ask |-> ask, say |-> say, nap |-> nap, pending |-> cs]
             /\ Nexts(ask, say) /\ nap \in Seq(Attempts) /\ cs \in Seq(Change)
             /\ \A e \in Carries(a) : (answered /\ e = a.change.edit) \/ e \in HeldBy(cs, ask)
             /\ HeldBy(cs, ask) \subseteq Carries(a) \cup EditsOf(pending)
<1>1. /\ pending \in Seq(Change) /\ << >> \in Seq(Attempts)
      /\ a.for \in {"edit", "flush", "retry", "pull"}
  BY Typed, Fields
<1>2. CASE a.for = "edit" /\ ~answered
  <2>1. Continuation(a, answered) = [none EXCEPT !.pending = Enqueue(a.change)]
    BY <1>2 DEF Continuation
  <2>2. a.change \in Change
    BY <1>2, Fields DEF ForChange
  <2>3. PICK cs : cs = Enqueue(a.change)
    OBVIOUS
  <2>4. /\ cs \in Seq(Change) /\ a.change \in ToSet(cs)
        /\ ToSet(cs) \subseteq ToSet(pending) \cup {a.change}
    BY <2>2, <2>3, EnqueueIs
  <2>5. Carries(a) \subseteq EditsOf(cs) /\ EditsOf(cs) \subseteq Carries(a) \cup EditsOf(pending)
    BY <1>2, <2>4 DEF Carries, EditsOf
  <2>6. Goal(<< >>, << >>, << >>, cs)
    BY <1>1, <2>1, <2>3, <2>4, <2>5, NoneHeld DEF Nexts
  <2> QED
    BY <2>6
<1>3. CASE a.for = "flush"
  <2>1. a.change \in Change /\ a.rest \in Seq(Change) /\ a.failed \in Seq(Change)
    BY <1>3, Fields DEF ForChange
  <2>2. /\ failed \in Seq(Change) /\ EditsOf(a.failed) \subseteq EditsOf(failed)
        /\ EditsOf(failed) \subseteq EditsOf(a.failed) \cup {a.change.edit}
        /\ ~answered => a.change.edit \in EditsOf(failed)
    <3>1. CASE answered
      BY <2>1, <3>1
    <3>2. CASE ~answered
      <4>1. failed \in Seq(Change) /\ ToSet(failed) = ToSet(a.failed) \cup {a.change}
        BY <2>1, <3>2, Appended
      <4> HIDE DEF failed
      <4> QED
        BY <3>2, <4>1 DEF EditsOf
    <3> QED
      BY <3>1, <3>2
  <2>3. Carries(a) = {a.change.edit} \cup EditsOf(a.rest) \cup EditsOf(a.failed)
    BY <1>3 DEF Carries
  <2>4. Fresh \in Free /\ Fresh \in Id
    BY <1>3, FreshIs, FreeIs
  <2>5. CASE a.rest # << >>
    <3>1. Continuation(a, answered) = [none EXCEPT !.ask = <<Flush(Fresh, a.rest, failed)>>,
                                                   !.say = <<Request(Fresh, Head(a.rest))>>]
      BY <1>3, <2>5 DEF Continuation
    <3> HIDE DEF failed
    <3>2. PICK n, m : n = Flush(Fresh, a.rest, failed) /\ m = Request(Fresh, Head(a.rest))
      OBVIOUS
    <3>3. Pairs(n, m) /\ n.id = Fresh /\ Carries(n) = EditsOf(a.rest) \cup EditsOf(failed)
      BY <2>1, <2>2, <2>4, <2>5, <3>2, FlushCarries
    <3>4. HeldBy(pending, <<n>>) = EditsOf(pending) \cup Carries(n)
      BY OneHeld
    <3>5. Goal(<<n>>, <<m>>, << >>, pending)
      <4>1. Nexts(<<n>>, <<m>>)
        BY <2>4, <3>3 DEF Nexts
      <4>2. Continuation(a, answered) = [ask |-> <<n>>, say |-> <<m>>, nap |-> << >>, pending |-> pending]
        BY <3>1, <3>2
      <4> QED
        BY <1>1, <2>2, <2>3, <3>3, <3>4, <4>1, <4>2
    <3> QED
      BY <3>5
  <2>6. CASE a.rest = << >> /\ failed # << >>
    <3>1. Continuation(a, answered) = [none EXCEPT !.pending = failed \o pending]
      BY <1>3, <2>6 DEF Continuation
    <3> HIDE DEF failed
    <3>2. /\ failed \o pending \in Seq(Change)
          /\ EditsOf(failed \o pending) = EditsOf(failed) \cup EditsOf(pending)
      BY <1>1, <2>2, JoinedEdits
    <3>3. EditsOf(a.rest) = {}
      BY <2>6 DEF EditsOf, ToSet
    <3>4. PICK cs : cs = failed \o pending
      OBVIOUS
    <3>5. /\ Continuation(a, answered) = [ask |-> << >>, say |-> << >>, nap |-> << >>, pending |-> cs]
          /\ cs \in Seq(Change)
      BY <3>1, <3>2, <3>4
    <3>6. HeldBy(cs, << >>) = EditsOf(failed) \cup EditsOf(pending)
      BY <3>2, <3>4, NoneHeld
    <3>7. Goal(<< >>, << >>, << >>, cs)
      BY <1>1, <2>2, <2>3, <3>3, <3>5, <3>6 DEF Nexts
    <3> QED
      BY <3>7
  <2>7. CASE a.rest = << >> /\ failed = << >>
    <3>1. Continuation(a, answered) = [none EXCEPT !.ask = <<Pull(Fresh)>>, !.say = <<Sync(Fresh)>>]
      BY <1>3, <2>7 DEF Continuation
    <3> HIDE DEF failed
    <3>2. EditsOf(a.rest) = {} /\ EditsOf(failed) = {}
      BY <2>7 DEF EditsOf, ToSet
    <3>3. PICK n, m : n = Pull(Fresh) /\ m = Sync(Fresh)
      OBVIOUS
    <3>4. n \in Asking /\ m \in ToApp /\ n.id = Fresh /\ m.id = Fresh /\ n.for = "pull" /\ m.type = "sync"
      BY <2>4, <3>3, Built
    <3>5. Nexts(<<n>>, <<m>>) /\ HeldBy(pending, <<n>>) = EditsOf(pending)
      BY <2>4, <3>4, OneHeld DEF Nexts, Pairs, ForChange, Carries
    <3>6. Goal(<<n>>, <<m>>, << >>, pending)
      <4>1. Continuation(a, answered) = [ask |-> <<n>>, say |-> <<m>>, nap |-> << >>, pending |-> pending]
        BY <3>1, <3>3
      <4> QED
        BY <1>1, <2>2, <2>3, <3>2, <3>5, <4>1
    <3> QED
      BY <3>6
  <2> QED
    BY <2>5, <2>6, <2>7
<1>4. CASE a.for = "retry" /\ ~answered
  <2>1. Continuation(a, answered) = [none EXCEPT !.nap = Sleeps(a.left)]
    BY <1>4 DEF Continuation
  <2>2. Sleeps(a.left) \in Seq(Attempts)
    <3>1. a.left \in Attempts
      BY <1>4, Fields
    <3> QED
      <4>1. CASE a.left > 1
        <5>1. a.left - 1 \in Attempts
          BY <3>1, <4>1, Bounds DEF Attempts
        <5> QED
          BY <4>1, <5>1, Single DEF Sleeps
      <4>2. CASE ~(a.left > 1)
        BY <1>1, <4>2 DEF Sleeps
      <4> QED
        BY <4>1, <4>2
  <2>3. Carries(a) = {}
    BY <1>4 DEF Carries
  <2>4. Goal(<< >>, << >>, Sleeps(a.left), pending)
    BY <1>1, <2>1, <2>2, <2>3, NoneHeld DEF Nexts
  <2> QED
    BY <2>4
<1>5. CASE (answered /\ a.for # "flush") \/ a.for = "pull"
  <2>1. Continuation(a, answered) = none
    BY <1>5 DEF Continuation
  <2>2. Carries(a) \subseteq {a.change.edit} /\ (a.for # "edit" => Carries(a) = {})
    BY <1>1, <1>5 DEF Carries
  <2>3. Goal(<< >>, << >>, << >>, pending)
    BY <1>1, <1>5, <2>1, <2>2, NoneHeld DEF Nexts
  <2> QED
    BY <2>3
<1> QED
  BY <1>1, <1>2, <1>3, <1>4, <1>5

-----------------------------------------------------------------------------
(* What is sent.                                                           *)

Exchanged == toApp \in Seq(ToApp) /\ toExt \in Seq(ToExt) /\ appQueue \in Seq(ToExt) /\ extQueue \in Seq(ToApp)

LEMMA RefusalsAre ==
    ASSUME NEW ms \in Seq(ToApp)
    PROVE  /\ Refusals(ms) \in Seq(ToExt)
           /\ \A m \in ToSet(Refusals(ms)) : m.type = "refused"
<1> DEFINE no(i) == [type |-> "refused", id |-> ms[i].id]
<1>1. Len(ms) \in Nat /\ DOMAIN ms = 1 .. Len(ms)
  OBVIOUS
<1>2. Refusals(ms) = [i \in 1 .. Len(ms) |-> no(i)]
  BY <1>1 DEF Refusals
<1>3. \A i \in 1 .. Len(ms) : no(i) \in ToExt /\ no(i).type = "refused"
  <2> SUFFICES ASSUME NEW i \in 1 .. Len(ms)
               PROVE  no(i) \in ToExt /\ no(i).type = "refused"
    OBVIOUS
  <2>1. ms[i] \in ToApp
    BY <1>1
  <2>2. ms[i].id \in Id
    BY <2>1, Fields
  <2> QED
    BY <2>2 DEF ToExt
<1> HIDE DEF no
<1>4. Refusals(ms) \in Seq(ToExt)
  BY <1>1, <1>2, <1>3
<1>5. DOMAIN Refusals(ms) = 1 .. Len(ms) /\ \A i \in 1 .. Len(ms) : Refusals(ms)[i] = no(i)
  BY <1>2
<1> QED
  BY <1>3, <1>4, <1>5 DEF ToSet

LEMMA ExtSendsIs ==
    ASSUME TypeOK, NEW ms \in Seq(ToApp), NEW ahead \in Seq(ToExt), ExtSends(ms, ahead)
    PROVE  /\ Exchanged' /\ appQueue' = appQueue
           /\ ToSet(toApp') \subseteq ToSet(toApp) \cup ToSet(ms)
           /\ toApp' # << >> => toApp # << >> \/ link'["app"] = "open"
           /\ ToSet(extQueue') \subseteq ToSet(extQueue) \cup ToSet(ms)
           /\ \A m \in ToSet(toExt') : m \in ToSet(ahead) \/ m.type = "refused"
<1>1. /\ toApp \o ms \in Seq(ToApp) /\ ToSet(toApp \o ms) = ToSet(toApp) \cup ToSet(ms)
      /\ extQueue \o ms \in Seq(ToApp) /\ ToSet(extQueue \o ms) = ToSet(extQueue) \cup ToSet(ms)
  BY Typed, Joined
<1>2. Refusals(ms) \in Seq(ToExt) /\ \A m \in ToSet(Refusals(ms)) : m.type = "refused"
  BY RefusalsAre
<1>3. /\ ahead \o Refusals(ms) \in Seq(ToExt)
      /\ ToSet(ahead \o Refusals(ms)) = ToSet(ahead) \cup ToSet(Refusals(ms))
  BY <1>2, Joined
<1>4. << >> \in Seq(ToApp) /\ ToSet(<< >>) = {}
  BY DEF ToSet
<1>5. /\ (toApp' = toApp \o ms /\ link'["app"] = "open") \/ toApp' = toApp
      /\ toExt' \in {ahead, ahead \o Refusals(ms)}
      /\ extQueue' \in {extQueue \o ms, << >>} /\ appQueue' = appQueue
  BY DEF ExtSends, Reached
<1>6. toApp' \in Seq(ToApp) /\ ToSet(toApp') \subseteq ToSet(toApp) \cup ToSet(ms)
  BY <1>1, <1>5, Typed
<1>7. extQueue' \in Seq(ToApp) /\ ToSet(extQueue') \subseteq ToSet(extQueue) \cup ToSet(ms)
  BY <1>1, <1>4, <1>5
<1>8. toExt' \in Seq(ToExt) /\ \A m \in ToSet(toExt') : m \in ToSet(ahead) \/ m.type = "refused"
  <2>1. CASE toExt' = ahead
    BY <2>1
  <2>2. CASE toExt' = ahead \o Refusals(ms)
    BY <1>2, <1>3, <2>2
  <2> QED
    BY <1>5, <2>1, <2>2
<1> QED
  BY <1>5, <1>6, <1>7, <1>8, Typed DEF Exchanged

LEMMA AppSendsIs ==
    ASSUME TypeOK, NEW ms \in Seq(ToExt), NEW news \in Seq(ToExt), AppSends(ms, news)
    PROVE  /\ toExt' \in Seq(ToExt) /\ appQueue' \in Seq(ToExt) /\ extQueue' = extQueue
           /\ ToSet(toExt') \subseteq ToSet(toExt) \cup ToSet(news) \cup ToSet(ms)
           /\ ToSet(appQueue') \subseteq ToSet(appQueue) \cup ToSet(ms)
           /\ link'["app"] # "down" => appQueue' = << >>
<1>1. toExt \o news \in Seq(ToExt) /\ ToSet(toExt \o news) = ToSet(toExt) \cup ToSet(news)
  BY Typed, Joined
<1>2. /\ (toExt \o news) \o ms \in Seq(ToExt)
      /\ ToSet((toExt \o news) \o ms) = ToSet(toExt \o news) \cup ToSet(ms)
  <2>1. PICK t : t = toExt \o news
    OBVIOUS
  <2>2. t \in Seq(ToExt)
    BY <1>1, <2>1
  <2>3. t \o ms \in Seq(ToExt) /\ ToSet(t \o ms) = ToSet(t) \cup ToSet(ms)
    BY <2>2, Joined
  <2> QED
    BY <2>1, <2>3
<1>3. appQueue \o ms \in Seq(ToExt) /\ ToSet(appQueue \o ms) = ToSet(appQueue) \cup ToSet(ms)
  BY Typed, Joined
<1>4. << >> \in Seq(ToExt) /\ ToSet(<< >>) = {}
  BY DEF ToSet
<1>5. /\ toExt' \in {toExt, (toExt \o news) \o ms}
      /\ appQueue' \in {appQueue \o ms, << >>} /\ extQueue' = extQueue
      /\ link'["app"] # "down" => appQueue' = << >>
  <2>1. toExt \o news \o ms = (toExt \o news) \o ms
    OBVIOUS
  <2> QED
    BY <2>1 DEF AppSends
<1> QED
  BY <1>1, <1>2, <1>3, <1>4, <1>5, Typed

-----------------------------------------------------------------------------
(* Requests go on waiting, are given up, or are made under a free          *)
(* identifier.                                                             *)

Follows(qs) ==
    \A b \in ToSet(qs) :
        \/ b.id \in Free
        \/ \E a \in ToSet(asks) : a.id = b.id /\ IF ForChange(a) THEN b = a ELSE ~ForChange(b)

LEMMA CrossedFollows ==
    ASSUME NEW qs \in Seq(Asking), Follows(qs)
    PROVE  Follows(Crossed(qs))
<1> SUFFICES ASSUME NEW b \in ToSet(Crossed(qs))
             PROVE  \/ b.id \in Free
                    \/ \E a \in ToSet(asks) : a.id = b.id /\ IF ForChange(a) THEN b = a ELSE ~ForChange(b)
  BY DEF Follows
<1>1. PICK i \in DOMAIN qs : b = Crossed(qs)[i]
  BY CrossedIs DEF ToSet
<1>2. b.id = qs[i].id /\ IF ForChange(qs[i]) THEN b = qs[i] ELSE ~ForChange(b)
  BY <1>1, CrossedIs
<1>3. qs[i] \in ToSet(qs)
  BY DEF ToSet
<1> QED
  BY <1>2, <1>3 DEF Follows

LEMMA CrossedCarries ==
    ASSUME NEW qs \in Seq(Asking), NEW cs
    PROVE  HeldBy(cs, Crossed(qs)) = HeldBy(cs, qs)
<1>1. DOMAIN Crossed(qs) = DOMAIN qs
  BY CrossedIs
<1>2. \A i \in DOMAIN qs : Carries(Crossed(qs)[i]) = Carries(qs[i])
  <2> SUFFICES ASSUME NEW i \in DOMAIN qs
               PROVE  Carries(Crossed(qs)[i]) = Carries(qs[i])
    OBVIOUS
  <2>1. CASE ForChange(qs[i])
    BY <2>1, CrossedIs
  <2>2. CASE ~ForChange(qs[i])
    <3>1. ~ForChange(Crossed(qs)[i])
      BY <2>2, CrossedIs
    <3> QED
      BY <2>2, <3>1 DEF Carries, ForChange
  <2> QED
    BY <2>1, <2>2
<1>3. UNION {Carries(a) : a \in ToSet(Crossed(qs))} = UNION {Carries(a) : a \in ToSet(qs)}
  BY <1>1, <1>2 DEF ToSet
<1> QED
  BY <1>3 DEF HeldBy

LEMMA SelfFollows == Follows(asks)
BY DEF Follows

LEMMA MatchedKept ==
    ASSUME TypeOK, Matched, Made, Follows(asks'),
           NEW said, \A m \in said : Asks(m, asks'),
           ToSet(toApp') \cup ToSet(extQueue') \subseteq ToSet(toApp) \cup ToSet(extQueue) \cup said,
           \A m \in ToSet(toExt') : m \in ToSet(toExt) \/ m.type \notin {"done", "tree"},
           owed' \subseteq owed \cup {edits + 1}
    PROVE  Matched'
<1>1. ASSUME NEW m \in ToSet(toApp) \cup ToSet(extQueue)
      PROVE  Asks(m, asks')
  <2> SUFFICES ASSUME NEW b \in ToSet(asks'), b.id = m.id
               PROVE  IF m.type = "change" THEN ForChange(b) /\ b.change = m.change ELSE ~ForChange(b)
    BY DEF Asks
  <2>1. b.id \notin Free
    BY FreeIs DEF Unknown
  <2>2. PICK a \in ToSet(asks) : a.id = b.id /\ IF ForChange(a) THEN b = a ELSE ~ForChange(b)
    BY <2>1 DEF Follows
  <2>3. IF m.type = "change" THEN ForChange(a) /\ a.change = m.change ELSE ~ForChange(a)
    BY <2>2 DEF Matched, Asks
  <2> QED
    BY <2>2, <2>3
<1>2. ASSUME NEW m \in ToSet(toExt)
      PROVE  Answers(m, asks', owed')
  <2> SUFFICES ASSUME NEW b \in ToSet(asks'), b.id = m.id, m.type \in {"done", "tree"}
               PROVE  IF m.type = "done" THEN ForChange(b) /\ b.change.edit \notin owed' ELSE ~ForChange(b)
    BY DEF Answers
  <2>1. b.id \notin Free
    BY FreeIs DEF Unknown
  <2>2. PICK a \in ToSet(asks) : a.id = b.id /\ IF ForChange(a) THEN b = a ELSE ~ForChange(b)
    BY <2>1 DEF Follows
  <2>3. IF m.type = "done" THEN ForChange(a) /\ a.change.edit \notin owed ELSE ~ForChange(a)
    BY <2>2 DEF Matched, Answers
  <2>4. ForChange(a) => a.change.edit # edits + 1
    <3> SUFFICES ASSUME ForChange(a)
                 PROVE  a.change.edit # edits + 1
      OBVIOUS
    <3>1. a.change.edit \in Carries(a)
      BY DEF ForChange, Carries
    <3>2. a.change.edit \in Held
      BY <3>1, HeldIs DEF HeldBy
    <3>3. a.change.edit \in 1 .. edits /\ edits \in Nat
      <4>1. edits \in Nat
        BY Bounds DEF TypeOK
      <4> QED
        BY <3>2, <4>1, Zenon DEF Made
    <3>4. edits + 1 > edits
      BY <3>3
    <3> QED
      BY <3>3
  <2> QED
    BY <2>2, <2>3, <2>4
<1>3. \A m : m.type \notin {"done", "tree"} => Answers(m, asks', owed')
  BY DEF Answers
<1> QED
  BY <1>1, <1>2, <1>3 DEF Matched

(* A request ends.                                                         *)
LEMMA EndsKeeps ==
    ASSUME FileInv, NEW k \in DOMAIN asks, NEW answered \in BOOLEAN,
           NEW ahead \in Seq(ToExt), ToSet(ahead) \subseteq ToSet(toExt),
           Ends(k, answered, ahead), UNCHANGED <<link, edits, appSeq>>,
           answered => ~ForChange(asks[k]) \/ asks[k].change.edit \notin owed
    PROVE  /\ Exchanged' /\ Waiting(asks') /\ naps' \in Seq(Attempts) /\ pending' \in Seq(Change)
           /\ owed' \subseteq owed /\ synced' \in BOOLEAN
           /\ Matched' /\ OwnQueue'
           /\ HeldBy(pending', asks') \subseteq Held /\ owed' \subseteq HeldBy(pending', asks')
<1> USE DEF FileInv
<1>1. PICK a : a = asks[k]
  OBVIOUS
<1>2. /\ a \in Asking /\ a \in ToSet(asks) /\ Waiting(asks) /\ asks \in Seq(Asking)
      /\ pending \in Seq(Change) /\ naps \in Seq(Attempts) /\ synced \in BOOLEAN
  BY <1>1 DEF TypeOK, ToSet, Waiting, Unique
<1>3. a.for = "flush" => Free # {}
  BY <1>1 DEF Ends
<1>4. PICK ask, say, nap, cs :
        /\ Continuation(a, answered) = [ask |-> ask, say |-> say, nap |-> nap, pending |-> cs]
        /\ Nexts(ask, say) /\ nap \in Seq(Attempts) /\ cs \in Seq(Change)
        /\ \A e \in Carries(a) : (answered /\ e = a.change.edit) \/ e \in HeldBy(cs, ask)
        /\ HeldBy(cs, ask) \subseteq Carries(a) \cup EditsOf(pending)
  BY <1>2, <1>3, ContinuationIs
<1>5. PICK others : others = RemoveAt(asks, k)
  OBVIOUS
<1>6. PICK base :
        /\ base = others \/ base = Crossed(others)
        /\ asks' = base \o ask /\ naps' = naps \o nap /\ pending' = cs
        /\ owed' = owed \ {c.edit : c \in ToSet(pending) \ ToSet(cs)}
        /\ ExtSends(say, ahead)
  <2>1. PICK r : r = Continuation(a, answered)
    OBVIOUS
  <2>2. r.ask = ask /\ r.say = say /\ r.nap = nap /\ r.pending = cs
    BY <1>4, <2>1
  <2>3. /\ asks' = (IF r.say # << >> /\ r.say[1].type = "change" THEN Crossed(others) ELSE others) \o r.ask
        /\ naps' = naps \o r.nap /\ pending' = r.pending
        /\ owed' = owed \ {c.edit : c \in ToSet(pending) \ ToSet(r.pending)}
        /\ ExtSends(r.say, ahead)
    BY <1>1, <1>5, <2>1 DEF Ends
  <2> QED
    BY <2>2, <2>3
<1>7. synced' \in BOOLEAN
  <2>1. CASE a.for \in {"retry", "pull"} /\ answered
    <3>1. synced' = a.clean
      BY <1>1, <2>1 DEF Ends
    <3>2. a.clean \in BOOLEAN
      BY <1>2, <2>1 DEF Asking
    <3> QED
      BY <3>1, <3>2
  <2>2. CASE ~(a.for \in {"retry", "pull"} /\ answered)
    <3>1. \E again \in BOOLEAN : synced' = (synced /\ ~again)
      <4>1. PICK again \in BOOLEAN : again <=> LET next == Continuation(asks[k], answered)
                                               IN  next.say # << >> /\ next.say[1].type = "change"
        OBVIOUS
      <4> QED
        BY <1>1, <2>2, <4>1 DEF Ends
    <3> QED
      BY <3>1
  <2> QED
    BY <2>1, <2>2
<1>8. /\ Waiting(others) /\ Follows(others)
      /\ \A b \in ToSet(others) : b \in ToSet(asks) /\ b.id # a.id
      /\ \A b \in ToSet(asks) : b = a \/ b \in ToSet(others)
  <2>1. Waiting(others) /\ \A b \in ToSet(others) : b \in ToSet(asks) /\ b.id # a.id
    BY <1>1, <1>2, <1>5, RemovedWaits
  <2>2. \A i \in DOMAIN asks : i # k => asks[i] \in ToSet(others)
    BY <1>2, <1>5, Removed, Zenon
  <2> QED
    BY <1>1, <2>1, <2>2 DEF Follows, ToSet
<1>9. /\ Waiting(base) /\ Follows(base)
      /\ \A c : HeldBy(c, base) = HeldBy(c, others)
      /\ \A b \in ToSet(base) : b.id \notin Free
  <2>1. others \in Seq(Asking)
    BY <1>8 DEF Waiting
  <2>2. Waiting(base) /\ Follows(base) /\ \A c : HeldBy(c, base) = HeldBy(c, others)
    BY <1>6, <1>8, <2>1, CrossedWaits, CrossedFollows, CrossedCarries
  <2>3. \A b \in ToSet(base) : \E d \in ToSet(others) : b.id = d.id
    <3>1. CASE base = others
      BY <3>1
    <3>2. CASE base = Crossed(others)
      <4>1. /\ DOMAIN base = DOMAIN others
            /\ \A i \in DOMAIN others : base[i].id = others[i].id
        BY <2>1, <3>2, CrossedIs
      <4> QED
        BY <4>1 DEF ToSet
    <3> QED
      BY <1>6, <3>1, <3>2
  <2> QED
    BY <1>8, <2>2, <2>3, FreeIs DEF Unknown
<1>10. /\ Waiting(asks') /\ Follows(asks') /\ say \in Seq(ToApp)
       /\ \A m \in ToSet(say) : Asks(m, asks')
       /\ ToSet(asks') = ToSet(base) \cup ToSet(ask)
  <2>1. base \in Seq(Asking)
    BY <1>9 DEF Waiting
  <2>2. CASE ask = << >> /\ say = << >>
    <3>1. asks' = base
      BY <1>6, <2>1, <2>2
    <3> QED
      BY <1>9, <2>2, <3>1 DEF ToSet
  <2>3. CASE ~(ask = << >> /\ say = << >>)
    <3>1. PICK n, m : ask = <<n>> /\ say = <<m>> /\ Pairs(n, m) /\ n.id \in Free
      BY <1>4, <2>3 DEF Nexts
    <3>2. n \in Asking /\ m \in ToApp
      BY <3>1 DEF Pairs
    <3>3. asks' = Append(base, n)
      BY <1>6, <2>1, <3>1
    <3>4. Waiting(asks') /\ ToSet(asks') = ToSet(base) \cup {n}
      BY <1>9, <3>1, <3>2, <3>3, AddedWaits
    <3>5. Asks(m, asks')
      BY <3>1, <3>4, PairAsks
    <3>6. ToSet(say) = {m} /\ say \in Seq(ToApp) /\ ToSet(ask) = {n}
      BY <3>1, <3>2, Single
    <3> QED
      BY <1>9, <3>1, <3>4, <3>5, <3>6 DEF Follows
  <2> QED
    BY <2>2, <2>3
<1>11. /\ Exchanged' /\ appQueue' = appQueue
       /\ ToSet(toApp') \subseteq ToSet(toApp) \cup ToSet(say)
       /\ toApp' # << >> => toApp # << >> \/ link'["app"] = "open"
       /\ ToSet(extQueue') \subseteq ToSet(extQueue) \cup ToSet(say)
       /\ \A m \in ToSet(toExt') : m \in ToSet(ahead) \/ m.type = "refused"
  BY <1>6, <1>10, ExtSendsIs
<1>12. Matched'
  <2>1. owed' \subseteq owed \cup {edits + 1}
    BY <1>6
  <2>2. \A m \in ToSet(toExt') : m \in ToSet(toExt) \/ m.type \notin {"done", "tree"}
    BY <1>11
  <2>3. ToSet(toApp') \cup ToSet(extQueue') \subseteq ToSet(toApp) \cup ToSet(extQueue) \cup ToSet(say)
    BY <1>11
  <2> QED
    BY <1>10, <2>1, <2>2, <2>3, MatchedKept
<1>13. OwnQueue'
  BY <1>11 DEF OwnQueue
<1>14. HeldBy(cs, asks') = HeldBy(cs, others) \cup HeldBy(cs, ask)
  <2>1. HeldBy(cs, asks') = HeldBy(cs, base) \cup HeldBy(cs, ask)
    BY <1>10 DEF HeldBy
  <2> QED
    BY <1>9, <2>1
<1>15. Held = EditsOf(pending) \cup Carries(a) \cup UNION {Carries(b) : b \in ToSet(others)}
  <2>1. Held = HeldBy(pending, asks)
    BY HeldIs
  <2>2. UNION {Carries(b) : b \in ToSet(asks)} = Carries(a) \cup UNION {Carries(b) : b \in ToSet(others)}
    BY <1>2, <1>8
  <2> QED
    BY <2>1, <2>2 DEF HeldBy
<1>16. HeldBy(cs, asks') \subseteq Held
  <2>1. EditsOf(cs) \subseteq HeldBy(cs, ask)
    BY DEF HeldBy
  <2> QED
    BY <1>4, <1>14, <1>15, <2>1 DEF HeldBy
<1>17. owed' \subseteq HeldBy(cs, asks')
  <2> SUFFICES ASSUME NEW e \in owed'
               PROVE  e \in HeldBy(cs, asks')
    OBVIOUS
  <2>1. e \in owed /\ e \in Held
    BY <1>6 DEF EditsAccounted
  <2>2. CASE e \in EditsOf(pending)
    <3>1. PICK c \in ToSet(pending) : c.edit = e
      BY <2>2 DEF EditsOf
    <3>2. c \in ToSet(cs)
      BY <1>6, <3>1
    <3> QED
      BY <3>1, <3>2 DEF EditsOf, HeldBy
  <2>3. CASE e \in Carries(a)
    <3>1. ~(answered /\ e = a.change.edit)
      BY <1>1, <2>1, <2>3 DEF Carries, ForChange
    <3> QED
      BY <1>4, <1>14, <2>3, <3>1
  <2>4. CASE e \in UNION {Carries(b) : b \in ToSet(others)}
    BY <1>14, <2>4 DEF HeldBy
  <2> QED
    BY <1>15, <2>1, <2>2, <2>3, <2>4
<1>18. naps' \in Seq(Attempts)
  BY <1>2, <1>4, <1>6
<1> QED
  BY <1>4, <1>6, <1>7, <1>10, <1>11, <1>12, <1>13, <1>16, <1>17, <1>18

-----------------------------------------------------------------------------
(* Steps that make no request and end none.                                *)

LEMMA StaysKept ==
    ASSUME FileInv, TypeOK', UNCHANGED <<asks, pending>>, owed' \subseteq owed,
           appSeq' <= edits', edits <= edits',
           ToSet(toApp') \cup ToSet(extQueue') \subseteq ToSet(toApp) \cup ToSet(extQueue),
           \A m \in ToSet(toExt') : m \in ToSet(toExt) \/ Answers(m, asks, owed'),
           OwnQueue'
    PROVE  FileInv'
<1>1. Held' = Held
  BY HeldIs DEF FileInv
<1>2. Made'
  <2>1. edits \in Nat /\ edits' \in Nat
    BY Bounds DEF FileInv, TypeOK
  <2>2. 1 .. edits \subseteq 1 .. edits'
    BY <2>1
  <2> QED
    BY <1>1, <2>2 DEF FileInv, Made
<1>3. EditsAccounted'
  BY <1>1 DEF FileInv, EditsAccounted
<1>4. Matched'
  <2>1. \A m \in ToSet(toExt) : Answers(m, asks, owed')
    BY DEF FileInv, Matched, Answers
  <2> QED
    BY <2>1 DEF FileInv, Matched
<1> QED
  BY <1>2, <1>3, <1>4 DEF FileInv

LEMMA Empty == \A S : << >> \in Seq(S) /\ ToSet(<< >>) = {}
BY DEF ToSet

LEMMA LoseKeeps == ASSUME FileInv, NEW side \in Side, Lose(side) PROVE FileInv'
<1>1. /\ toApp' = toApp \/ toApp' = << >>
      /\ toExt' = toExt \/ toExt' = << >>
      /\ side = "app" => toApp' = << >>
      /\ link' = [link EXCEPT ![side] = "dead"] /\ upsets < MaxUpsets /\ upsets' = upsets + 1
      /\ UNCHANGED <<tree, bound, appQueue, extQueue, appSeq, extension, edits, owed, synced>>
  BY DEF Lose, Upset
<1>2. /\ toApp' \in Seq(ToApp) /\ ToSet(toApp') \subseteq ToSet(toApp)
      /\ toExt' \in Seq(ToExt) /\ ToSet(toExt') \subseteq ToSet(toExt)
  BY <1>1, Empty, Typed DEF FileInv
<1>3. TypeOK'
  <2>1. link' \in [Side -> {"off", "down", "open", "dead"}] /\ link'["ext"] # "off"
    BY <1>1 DEF FileInv, TypeOK, Side
  <2>2. upsets' \in 0 .. MaxUpsets
    BY <1>1, Bounds DEF FileInv, TypeOK
  <2> QED
    BY <1>1, <1>2, <2>1, <2>2 DEF FileInv, TypeOK, extension
<1>4. OwnQueue'
  BY <1>1, Typed DEF FileInv, OwnQueue, Side
<1>5. UNCHANGED <<asks, pending, owed, appSeq, edits, extQueue>>
  BY <1>1 DEF extension
<1> QED
  BY SMTT(30), <1>2, <1>3, <1>4, <1>5, StaysKept DEF FileInv, Made, TypeOK

LEMMA NoticeKeeps == ASSUME FileInv, NEW side \in Side, Notice(side) PROVE FileInv'
<1>1. /\ link[side] = "dead" /\ link' = [link EXCEPT ![side] = "down"] /\ paired' \in BOOLEAN
      /\ UNCHANGED <<tree, bound, exchange, appSeq, peerSeq, asks, naps, pending, history>>
  BY DEF Notice, FileInv, TypeOK
<1>2. TypeOK'
  BY <1>1 DEF FileInv, TypeOK, Side, exchange, history
<1>3. OwnQueue'
  BY <1>1, Typed DEF FileInv, OwnQueue, Side, exchange
<1> QED
  BY <1>1, <1>2, <1>3, StaysKept DEF FileInv, Made, exchange, history, TypeOK

LEMMA BridgeNoticesKeeps == ASSUME FileInv, NEW side \in Side, BridgeNotices(side) PROVE FileInv'
<1>1. PICK away : away = [type |-> "away"]
  OBVIOUS
<1>2. away \in ToExt /\ away.type = "away"
  BY <1>1, Built
<1>3. Append(toExt, away) \in Seq(ToExt) /\ ToSet(Append(toExt, away)) = ToSet(toExt) \cup {away}
  BY <1>2, Typed, Appended DEF FileInv
<1>4. /\ toExt' \in {toExt, Append(toExt, away)} /\ bound' = bound \ {side}
      /\ UNCHANGED <<link, tree, toApp, appQueue, extQueue, appSeq, extension, history>>
  BY <1>1 DEF BridgeNotices
<1>5. TypeOK'
  BY <1>3, <1>4 DEF FileInv, TypeOK, extension, history
<1>6. OwnQueue'
  BY <1>4 DEF FileInv, OwnQueue
<1>7. \A m \in ToSet(toExt') : m \in ToSet(toExt) \/ Answers(m, asks, owed')
  BY <1>2, <1>3, <1>4 DEF Answers
<1> QED
  BY <1>4, <1>5, <1>6, <1>7, StaysKept DEF FileInv, Made, extension, history, TypeOK

LEMMA GreetingIs ==
    ASSUME NEW side
    PROVE  Greeting(side) \in Seq(ToExt) /\ \A m \in ToSet(Greeting(side)) : m.type = "welcome"
<1>1. PICK w : w = [type |-> "welcome"]
  OBVIOUS
<1>2. w \in ToExt /\ w.type = "welcome"
  BY <1>1, Built
<1>3. Greeting(side) = <<w>> \/ Greeting(side) = << >>
  BY <1>1 DEF Greeting
<1> QED
  BY <1>2, <1>3, Single, Empty

LEMMA AppConnectsKeeps == ASSUME FileInv, AppConnects PROVE FileInv'
<1>1. /\ link' = [link EXCEPT !["app"] = "open"] /\ bound' = bound \cup {"app"}
      /\ AppSends(appQueue, Greeting("app"))
      /\ UNCHANGED <<tree, toApp, appSeq, extension, history>>
  BY DEF AppConnects
<1>2. /\ toExt' \in Seq(ToExt) /\ appQueue' \in Seq(ToExt) /\ extQueue' = extQueue
      /\ ToSet(toExt') \subseteq ToSet(toExt) \cup ToSet(Greeting("app")) \cup ToSet(appQueue)
      /\ ToSet(appQueue') \subseteq ToSet(appQueue) \cup ToSet(appQueue)
  BY <1>1, Typed, GreetingIs, AppSendsIs DEF FileInv
<1>3. TypeOK'
  BY <1>1, <1>2 DEF FileInv, TypeOK, Side, extension, history
<1>4. OwnQueue'
  BY <1>1, <1>2, Typed DEF FileInv, OwnQueue, Side
<1>5. \A m \in ToSet(toExt') : m \in ToSet(toExt) \/ Answers(m, asks, owed')
  BY <1>2, GreetingIs DEF Answers, FileInv, OwnQueue
<1> QED
  BY <1>1, <1>2, <1>3, <1>4, <1>5, StaysKept DEF FileInv, Made, extension, history, TypeOK

LEMMA ExtConnectsKeeps == ASSUME FileInv, ExtConnects PROVE FileInv'
<1>1. /\ link' = [link EXCEPT !["ext"] = "open"] /\ bound' = bound \cup {"ext"}
      /\ ExtSends(extQueue, Greeting("ext"))
      /\ UNCHANGED <<tree, appSeq, extension, history>>
  <2>1. ExtConnects => link["ext"] = "down"
    BY DEF ExtConnects
  <2> QED
    BY DEF ExtConnects
<1>2. /\ Exchanged' /\ appQueue' = appQueue
      /\ ToSet(toApp') \subseteq ToSet(toApp) \cup ToSet(extQueue)
      /\ toApp' # << >> => toApp # << >> \/ link'["app"] = "open"
      /\ ToSet(extQueue') \subseteq ToSet(extQueue) \cup ToSet(extQueue)
      /\ \A m \in ToSet(toExt') : m \in ToSet(Greeting("ext")) \/ m.type = "refused"
  BY <1>1, Typed, GreetingIs, ExtSendsIs DEF FileInv
<1>3. TypeOK'
  BY <1>1, <1>2 DEF FileInv, TypeOK, Side, extension, history, Exchanged
<1>4. OwnQueue'
  BY <1>1, <1>2, Typed DEF FileInv, OwnQueue, Side
<1>5. \A m \in ToSet(toExt') : m \in ToSet(toExt) \/ Answers(m, asks, owed')
  BY <1>2, GreetingIs DEF Answers
<1> QED
  BY <1>1, <1>2, <1>3, <1>4, <1>5, StaysKept DEF FileInv, Made, extension, history, TypeOK

LEMMA StopsKeeps == ASSUME FileInv, AppStops PROVE FileInv'
<1>1. /\ link' = [link EXCEPT !["app"] = "off"] /\ toApp' = << >> /\ appQueue' = << >>
      /\ upsets < MaxUpsets /\ upsets' = upsets + 1
      /\ UNCHANGED <<tree, bound, toExt, extQueue, appSeq, extension, edits, owed, synced>>
  BY DEF AppStops, Upset
<1>2. TypeOK'
  BY <1>1, Empty, Bounds DEF FileInv, TypeOK, Side, extension
<1>3. OwnQueue'
  BY <1>1, Empty DEF OwnQueue
<1> QED
  BY <1>1, <1>2, <1>3, Empty, StaysKept DEF FileInv, Made, extension, TypeOK

LEMMA StartsKeeps == ASSUME FileInv, AppStarts PROVE FileInv'
<1>1. /\ link["app"] = "off" /\ link' = [link EXCEPT !["app"] = "down"] /\ appSeq' = 0
      /\ UNCHANGED <<tree, bound, exchange, extension, history>>
  BY DEF AppStarts
<1>2. TypeOK'
  BY <1>1, Bounds DEF FileInv, TypeOK, Side, exchange, extension, history
<1>3. OwnQueue'
  BY <1>1, Typed DEF FileInv, OwnQueue, Side, exchange
<1> QED
  BY <1>1, <1>2, <1>3, StaysKept DEF FileInv, Made, exchange, extension, history, TypeOK

LEMMA AwayKeeps == ASSUME FileInv, ToldAway PROVE FileInv'
<1>1. /\ toExt # << >> /\ toExt' = Tail(toExt) /\ paired' = FALSE
      /\ UNCHANGED <<tree, link, bound, toApp, appQueue, extQueue, appSeq, peerSeq, asks, naps,
                     pending, history>>
  BY DEF ToldAway, ExtReceives
<1>2. toExt' \in Seq(ToExt) /\ ToSet(toExt') \subseteq ToSet(toExt)
  BY <1>1, Typed, Behind DEF FileInv
<1>3. TypeOK'
  BY <1>1, <1>2 DEF FileInv, TypeOK, history
<1>4. OwnQueue'
  BY <1>1 DEF FileInv, OwnQueue
<1> QED
  BY <1>1, <1>2, <1>3, <1>4, StaysKept DEF FileInv, Made, history, TypeOK

LEMMA ChangedKeeps == ASSUME FileInv, AppChanged PROVE FileInv'
<1>1. PICK m : m = Head(toExt)
  OBVIOUS
<1>2. /\ toExt # << >> /\ toExt' = Tail(toExt) /\ m.type = "change"
      /\ tree' = tree \/ tree' = [tree EXCEPT !["ext"] = m.change.to]
      /\ UNCHANGED <<link, bound, toApp, appQueue, extQueue, appSeq, extension, history>>
  BY <1>1 DEF AppChanged, ExtReceives
<1>3. toExt' \in Seq(ToExt) /\ ToSet(toExt') \subseteq ToSet(toExt) /\ m \in ToExt
  BY <1>1, <1>2, Typed, Behind DEF FileInv
<1>4. m.change.to \in Content
  BY <1>2, <1>3, Fields
<1>5. TypeOK'
  BY <1>2, <1>3, <1>4 DEF FileInv, TypeOK, extension, history, Side
<1>6. OwnQueue'
  BY <1>2 DEF FileInv, OwnQueue
<1> QED
  BY <1>2, <1>3, <1>5, <1>6, StaysKept DEF FileInv, Made, extension, history, TypeOK

LEMMA LateKeeps == ASSUME FileInv, AnsweredLate PROVE FileInv'
<1>1. /\ toExt # << >> /\ toExt' = Tail(toExt)
      /\ UNCHANGED <<tree, link, bound, toApp, appQueue, extQueue, appSeq, extension, history>>
  BY DEF AnsweredLate, Answered
<1>2. toExt' \in Seq(ToExt) /\ ToSet(toExt') \subseteq ToSet(toExt)
  BY <1>1, Typed, Behind DEF FileInv
<1>3. TypeOK'
  BY <1>1, <1>2 DEF FileInv, TypeOK, extension, history
<1>4. OwnQueue'
  BY <1>1 DEF FileInv, OwnQueue
<1> QED
  BY <1>1, <1>2, <1>3, <1>4, StaysKept DEF FileInv, Made, extension, history, TypeOK

LEMMA AppEditsKeeps == ASSUME FileInv, AppEdits PROVE FileInv'
<1>1. /\ edits < MaxEdits /\ edits' = edits + 1
      /\ UNCHANGED <<link, bound>> /\ UNCHANGED <<toApp, extension, upsets, owed>>
  BY DEF AppEdits
<1>2. edits \in Nat /\ appSeq \in Nat /\ edits' \in Edit /\ edits' \in 0 .. MaxEdits /\ appSeq <= edits
  BY <1>1, Bounds DEF FileInv, TypeOK, Edit, Made
<1>3. PICK to \in {edits', Missing}, expected \in {Missing, tree["app"]} :
        LET change == [edit |-> edits', to |-> to, expected |-> expected]
        IN  /\ tree' = [tree EXCEPT !["app"] = to]
            /\ IF link["app"] = "off" THEN UNCHANGED <<toExt, appQueue, extQueue, appSeq>>
               ELSE /\ appSeq' = appSeq + 1
                    /\ AppSends(<< [type |-> "change", seq |-> appSeq', change |-> change] >>, << >>)
  BY DEF AppEdits
<1>4. PICK change : change = [edit |-> edits', to |-> to, expected |-> expected]
  OBVIOUS
<1>5. to \in Content /\ change \in Change
  BY <1>2, <1>4, Typed DEF FileInv, Content, Change
<1>6. /\ tree' \in [Side -> Content] /\ appSeq' \in 0 .. MaxEdits /\ appSeq' <= edits'
      /\ toExt' \in Seq(ToExt) /\ appQueue' \in Seq(ToExt) /\ extQueue' = extQueue
      /\ \A m \in ToSet(toExt') : m \in ToSet(toExt) \/ m.type = "change"
      /\ \A m \in ToSet(appQueue') : m.type = "change"
  <2>1. tree' \in [Side -> Content]
    BY <1>3, <1>5, Typed DEF FileInv, Side
  <2>2. CASE link["app"] = "off"
    BY <1>1, <1>2, <1>3, <2>1, <2>2, Typed DEF FileInv, OwnQueue, TypeOK
  <2>3. CASE link["app"] # "off"
    <3>1. PICK m : m = [type |-> "change", seq |-> appSeq', change |-> change]
      OBVIOUS
    <3>2. appSeq' = appSeq + 1 /\ AppSends(<<m>>, << >>)
      BY <1>3, <1>4, <2>3, <3>1
    <3>3. appSeq' \in Edit
      BY <1>1, <1>2, <3>2, Bounds DEF Edit
    <3>4. m \in ToExt /\ m.type = "change"
      BY <1>5, <3>1, <3>3 DEF ToExt
    <3>5. <<m>> \in Seq(ToExt) /\ ToSet(<<m>>) = {m}
      BY <3>4, Single
    <3>6. /\ toExt' \in Seq(ToExt) /\ appQueue' \in Seq(ToExt) /\ extQueue' = extQueue
          /\ ToSet(toExt') \subseteq ToSet(toExt) \cup ToSet(<< >>) \cup ToSet(<<m>>)
          /\ ToSet(appQueue') \subseteq ToSet(appQueue) \cup ToSet(<<m>>)
      BY <3>2, <3>5, Empty, AppSendsIs DEF FileInv
    <3>7. appSeq' \in 0 .. MaxEdits /\ appSeq' <= edits'
      BY <1>1, <1>2, <3>2, Bounds
    <3> QED
      BY <2>1, <3>4, <3>5, <3>6, <3>7, Empty DEF FileInv, OwnQueue
  <2> QED
    BY <2>2, <2>3
<1>7. TypeOK'
  <2>1. synced' \in BOOLEAN
    BY DEF AppEdits
  <2> QED
    BY <1>1, <1>2, <1>6, <2>1 DEF FileInv, TypeOK, extension
<1>8. OwnQueue'
  BY <1>1, <1>6 DEF FileInv, OwnQueue
<1>9. \A m \in ToSet(toExt') : m \in ToSet(toExt) \/ Answers(m, asks, owed')
  BY <1>6 DEF Answers
<1> QED
  BY <1>1, <1>2, <1>6, <1>7, <1>8, <1>9, StaysKept DEF extension

LEMMA ReceivesKeeps == ASSUME FileInv, AppReceives PROVE FileInv'
<1>1. PICK m : m = Head(toApp)
  OBVIOUS
<1>2. /\ toApp # << >> /\ toApp' = Tail(toApp) /\ UNCHANGED <<link, bound>>
      /\ UNCHANGED <<appSeq, extension, edits, upsets>>
  BY DEF AppReceives
<1>3. PICK applies \in BOOLEAN : applies <=> m.type = "change" /\ Applies(m.change, tree["app"])
  OBVIOUS
<1>14. PICK answer :
         answer = IF m.type = "sync"
                  THEN [type |-> "tree", id |-> m.id, content |-> tree["app"], seq |-> appSeq]
                  ELSE [type |-> IF applies THEN "done" ELSE "refused", id |-> m.id]
  OBVIOUS
<1>15. /\ tree' = IF applies THEN [tree EXCEPT !["app"] = m.change.to] ELSE tree
       /\ owed' = IF applies THEN owed \ {m.change.edit} ELSE owed
       /\ AppSends(<<answer>>, << >>)
  BY <1>1, <1>3, <1>14 DEF AppReceives
<1>16. synced' \in BOOLEAN
  <2>1. PICK blind \in BOOLEAN : blind <=> Blind(m.change, tree["app"])
    OBVIOUS
  <2>2. synced' = (synced /\ ~(applies /\ blind))
    BY <1>1, <1>3, <2>1 DEF AppReceives
  <2> QED
    BY <2>2
<1>4. m \in ToApp /\ toApp' \in Seq(ToApp) /\ ToSet(toApp') \subseteq ToSet(toApp) /\ m \in ToSet(toApp)
  BY <1>1, <1>2, Typed, Behind DEF FileInv
<1>5. /\ m.id \in Id /\ m.type \in {"change", "sync"}
      /\ applies => m.change \in Change /\ m.change.to \in Content
  BY <1>3, <1>4, Fields
<1>6. answer \in ToExt
  BY <1>5, <1>14, Typed DEF FileInv, ToExt, TypeOK
<1>7. Answers(answer, asks, owed')
  <2>1. /\ answer.id = m.id
        /\ answer.type = "tree" => m.type = "sync"
        /\ answer.type = "done" => applies
    BY <1>5, <1>14
  <2>2. Asks(m, asks)
    BY <1>4 DEF FileInv, Matched
  <2> QED
    BY <1>3, <1>15, <2>1, <2>2 DEF Asks, Answers
<1>8. <<answer>> \in Seq(ToExt) /\ ToSet(<<answer>>) = {answer}
  BY <1>6, Single
<1>9. /\ toExt' \in Seq(ToExt) /\ appQueue' \in Seq(ToExt) /\ extQueue' = extQueue
      /\ ToSet(toExt') \subseteq ToSet(toExt) \cup ToSet(<< >>) \cup ToSet(<<answer>>)
      /\ link'["app"] # "down" => appQueue' = << >>
  BY <1>8, <1>15, Empty, AppSendsIs DEF FileInv
<1>10. TypeOK'
  <2>1. tree' \in [Side -> Content]
    BY <1>5, <1>15, Typed DEF FileInv, Side
  <2>2. owed' \subseteq Edit
    BY <1>15 DEF FileInv, TypeOK
  <2> QED
    BY <1>2, <1>4, <1>9, <1>16, <2>1, <2>2 DEF FileInv, TypeOK, extension
<1>11. OwnQueue'
  <2>1. link'["app"] = "open"
    BY <1>2 DEF FileInv, OwnQueue
  <2> QED
    BY <1>9, <2>1, Empty DEF OwnQueue
<1>12. \A x \in ToSet(toExt') : x \in ToSet(toExt) \/ Answers(x, asks, owed')
  BY <1>7, <1>8, <1>9, Empty
<1>13. owed' \subseteq owed
  BY <1>15
<1> QED
  BY <1>2, <1>4, <1>9, <1>10, <1>11, <1>12, <1>13, StaysKept DEF FileInv, Made, extension, TypeOK

LEMMA RestartsKeeps == ASSUME FileInv, ExtRestarts PROVE FileInv'
<1>1. /\ tree' = [tree EXCEPT !["ext"] = Missing] /\ link' = [link EXCEPT !["ext"] = "down"]
      /\ toExt' = << >> /\ extQueue' = << >> /\ peerSeq' = 0 /\ paired' = FALSE
      /\ asks' = << >> /\ naps' = << >> /\ pending' = << >> /\ owed' = {} /\ synced' = FALSE
      /\ upsets < MaxUpsets /\ upsets' = upsets + 1
      /\ UNCHANGED <<bound, toApp, appQueue, appSeq, edits>>
  BY DEF ExtRestarts, Upset
<1>2. TypeOK'
  <2>1. tree' \in [Side -> Content] /\ link' \in [Side -> {"off", "down", "open", "dead"}] /\ link'["ext"] # "off"
    BY <1>1, Typed DEF FileInv, Side, Content
  <2>2. upsets' \in 0 .. MaxUpsets /\ peerSeq' \in 0 .. MaxEdits
    BY <1>1, Bounds DEF FileInv, TypeOK
  <2>3. Waiting(asks')
    BY <1>1, Empty DEF Waiting, Unique
  <2>4. asks' \in Seq(Asking) /\ naps' \in Seq(Attempts) /\ pending' \in Seq(Change)
    BY <1>1, Empty
  <2> QED
    BY <1>1, <2>1, <2>2, <2>3, <2>4, Empty DEF FileInv, TypeOK, Waiting, Unique
<1>3. OwnQueue'
  BY <1>1, Typed DEF FileInv, OwnQueue, Side
<1>4. Held' = {}
  <2>1. Held' = HeldBy(<< >>, << >>)
    BY <1>1, <1>2, HeldIs
  <2> QED
    BY <2>1, Empty DEF HeldBy, EditsOf
<1>5. Matched'
  BY <1>1, Empty DEF Matched, Asks
<1>6. Made' /\ EditsAccounted'
  BY <1>1, <1>4 DEF FileInv, Made, EditsAccounted
<1> QED
  BY <1>2, <1>3, <1>5, <1>6 DEF FileInv

-----------------------------------------------------------------------------
(* Steps of the requests.                                                  *)

(* A request under a free identifier joins those that wait.                *)
Joins(qs, n, m, r) ==
    /\ Waiting(r) /\ Follows(r) /\ <<m>> \in Seq(ToApp)
    /\ ToSet(<<m>>) = {m} /\ Asks(m, r)
    /\ ToSet(r) = ToSet(qs) \cup {n}

LEMMA AskedKeeps ==
    ASSUME NEW qs, NEW id, NEW n, NEW m, NEW r, Waiting(qs), Follows(qs),
           id \in Free, \A b \in ToSet(qs) : b.id # id,
           Pairs(n, m), n.id = id, r = Append(qs, n)
    PROVE  Joins(qs, n, m, r)
<1>1. n \in Asking /\ m \in ToApp
  BY DEF Pairs
<1>2. Waiting(r) /\ ToSet(r) = ToSet(qs) \cup {n}
  BY <1>1, AddedWaits
<1>3. Asks(m, r)
  BY <1>2, PairAsks
<1>4. <<m>> \in Seq(ToApp) /\ ToSet(<<m>>) = {m}
  BY <1>1, Single
<1> QED
  BY <1>2, <1>3, <1>4 DEF Follows, Joins

LEMMA AsksWait == FileInv => Waiting(asks) /\ (\A id \in Free : \A b \in ToSet(asks) : b.id # id)
BY FreeIs DEF FileInv, TypeOK, Waiting, Unique, Unknown

LEMMA ExtEditsKeeps == ASSUME FileInv, ExtEdits PROVE FileInv'
<1>1. /\ edits < MaxEdits /\ edits' = edits + 1 /\ Free # {} /\ UNCHANGED <<link, bound>>
      /\ owed' = owed \cup {edits'}
      /\ UNCHANGED <<appSeq, peerSeq, paired, naps, pending, upsets>>
  BY DEF ExtEdits
<1>2. PICK to \in {edits', Missing} :
        LET change == [edit |-> edits', to |-> to, expected |-> tree["ext"]]
        IN  /\ tree' = [tree EXCEPT !["ext"] = to]
            /\ asks' = Append(Crossed(asks), [id |-> Fresh, for |-> "edit", change |-> change])
            /\ ExtSends(<<Request(Fresh, change)>>, toExt)
  BY DEF ExtEdits
<1>3. PICK change : change = [edit |-> edits', to |-> to, expected |-> tree["ext"]]
  OBVIOUS
<1>4. PICK n : n = [id |-> Fresh, for |-> "edit", change |-> change]
  OBVIOUS
<1>5. PICK m : m = Request(Fresh, change)
  OBVIOUS
<1>6. edits \in Nat /\ edits' \in Edit /\ edits' \in 0 .. MaxEdits /\ edits' = edits + 1
  BY <1>1, Bounds DEF FileInv, TypeOK, Edit
<1>7. change \in Change /\ to \in Content /\ change.edit = edits'
  BY <1>3, <1>6, Typed DEF FileInv, Content, Change
<1>8. Fresh \in Free /\ Fresh \in Id
  BY <1>1, FreshIs, FreeIs DEF FileInv
<1>9. Pairs(n, m) /\ n.id = Fresh /\ Carries(n) = {edits'}
  <2>1. m \in ToApp /\ m.id = Fresh /\ m.type = "change" /\ m.change = change
    BY <1>5, <1>7, <1>8 DEF Request, ToApp
  <2>2. n \in Asking /\ n.id = Fresh /\ n.for = "edit" /\ n.change = change
    BY <1>4, <1>7, <1>8 DEF Asking
  <2> QED
    BY <1>7, <2>1, <2>2 DEF Pairs, ForChange, Carries
<1>10. asks \in Seq(Asking) /\ Waiting(asks)
  BY AsksWait, Typed DEF FileInv
<1>11. PICK qs : qs = Crossed(asks)
  OBVIOUS
<1>12. Waiting(qs) /\ Follows(qs) /\ (\A c : HeldBy(c, qs) = HeldBy(c, asks)) /\ \A b \in ToSet(qs) : b.id # Fresh
  <2>1. DOMAIN qs = DOMAIN asks /\ \A i \in DOMAIN asks : qs[i].id = asks[i].id
    BY <1>10, <1>11, CrossedIs
  <2>2. \A b \in ToSet(qs) : b.id # Fresh
    BY <1>8, <2>1, AsksWait DEF ToSet
  <2> QED
    BY <1>10, <1>11, <2>2, CrossedWaits, CrossedFollows, CrossedCarries, SelfFollows
<1>13. asks' = Append(qs, n) /\ ExtSends(<<m>>, toExt) /\ tree' = [tree EXCEPT !["ext"] = to]
  BY <1>2, <1>3, <1>4, <1>5, <1>11
<1>14. /\ Waiting(asks') /\ Follows(asks') /\ <<m>> \in Seq(ToApp)
       /\ ToSet(<<m>>) = {m} /\ Asks(m, asks')
       /\ ToSet(asks') = ToSet(qs) \cup {n}
  <2>1. PICK r : r = Append(qs, n)
    OBVIOUS
  <2>2. PICK id : id = Fresh
    OBVIOUS
  <2>3. /\ id \in Free /\ n.id = id /\ Pairs(n, m)
        /\ Waiting(qs) /\ Follows(qs) /\ \A b \in ToSet(qs) : b.id # id
    BY <1>8, <1>9, <1>12, <2>2
  <2>4. Joins(qs, n, m, r)
    BY <2>1, <2>3, AskedKeeps, Zenon
  <2> QED
    BY <1>13, <2>1, <2>4 DEF Joins
<1>15. /\ Exchanged' /\ appQueue' = appQueue
       /\ ToSet(toApp') \subseteq ToSet(toApp) \cup ToSet(<<m>>)
       /\ toApp' # << >> => toApp # << >> \/ link'["app"] = "open"
       /\ ToSet(extQueue') \subseteq ToSet(extQueue) \cup ToSet(<<m>>)
       /\ \A x \in ToSet(toExt') : x \in ToSet(toExt) \/ x.type = "refused"
  BY <1>13, <1>14, Typed, ExtSendsIs DEF FileInv
<1>16. TypeOK'
  <2>1. tree' \in [Side -> Content]
    BY <1>7, <1>13, Typed DEF FileInv, Side
  <2>2. owed' \subseteq Edit
    BY <1>1, <1>6 DEF FileInv, TypeOK
  <2>3. synced' \in BOOLEAN
    BY DEF ExtEdits
  <2> QED
    BY <1>1, <1>6, <1>14, <1>15, <2>1, <2>2, <2>3 DEF FileInv, TypeOK, Exchanged, Waiting, Unique
<1>17. Matched'
  <2>1. owed' \subseteq owed \cup {edits + 1}
    BY <1>1
  <2>2. \A x \in ToSet(toExt') : x \in ToSet(toExt) \/ x.type \notin {"done", "tree"}
    BY <1>15
  <2>3. ToSet(toApp') \cup ToSet(extQueue') \subseteq ToSet(toApp) \cup ToSet(extQueue) \cup ToSet(<<m>>)
    BY <1>15
  <2> QED
    BY <1>14, <2>1, <2>2, <2>3, MatchedKept DEF FileInv
<1>18. OwnQueue'
  BY <1>1, <1>15 DEF FileInv, OwnQueue
<1>19. Held' = Held \cup {edits'}
  <2>1. Held' = HeldBy(pending, asks') /\ Held = HeldBy(pending, asks)
    BY <1>1, <1>16, HeldIs DEF FileInv
  <2>2. HeldBy(pending, asks') = HeldBy(pending, qs) \cup {edits'}
    BY <1>9, <1>14 DEF HeldBy
  <2> QED
    BY <1>12, <2>1, <2>2
<1>20. Made'
  <2>1. appSeq \in Nat /\ appSeq <= edits /\ Held \subseteq 1 .. edits
    BY Bounds DEF FileInv, Made, TypeOK
  <2>2. 1 .. edits \subseteq 1 .. edits' /\ edits' \in 1 .. edits'
    BY <1>6
  <2> QED
    BY <1>1, <1>6, <1>19, <2>1, <2>2 DEF Made
<1>21. EditsAccounted'
  BY <1>1, <1>19 DEF FileInv, EditsAccounted
<1> QED
  BY <1>16, <1>17, <1>18, <1>20, <1>21 DEF FileInv

(* A request for the tree.                                                 *)
LEMMA SyncKeeps ==
    ASSUME FileInv, Fresh \in Free, NEW n \in Asking, n.id = Fresh, n.for \in {"retry", "pull"},
           NEW ahead \in Seq(ToExt), ToSet(ahead) \subseteq ToSet(toExt),
           asks' = Append(asks, n), ExtSends(<<Sync(Fresh)>>, ahead),
           UNCHANGED <<link, appSeq, edits, pending, owed>>
    PROVE  /\ Exchanged' /\ Waiting(asks')
           /\ TypeOK' => FileInv'
<1>1. PICK m : m = Sync(Fresh)
  OBVIOUS
<1>2. m \in ToApp /\ m.id = Fresh /\ m.type = "sync"
  BY <1>1, FreeIs, Built DEF FileInv
<1>3. Pairs(n, m) /\ Carries(n) = {}
  BY <1>2 DEF Pairs, ForChange, Carries
<1>4. /\ Waiting(asks') /\ Follows(asks') /\ <<m>> \in Seq(ToApp)
      /\ ToSet(<<m>>) = {m} /\ Asks(m, asks')
      /\ ToSet(asks') = ToSet(asks) \cup {n}
  <2>1. PICK r : r = Append(asks, n)
    OBVIOUS
  <2>2. PICK id, qs : id = Fresh /\ qs = asks
    OBVIOUS
  <2>3. /\ id \in Free /\ n.id = id /\ Pairs(n, m) /\ r = Append(qs, n)
        /\ Waiting(qs) /\ Follows(qs) /\ \A b \in ToSet(qs) : b.id # id
    BY <1>3, <2>1, <2>2, AsksWait, SelfFollows
  <2>4. Joins(qs, n, m, r)
    BY <2>3, AskedKeeps, Zenon
  <2> QED
    BY <2>1, <2>2, <2>4 DEF Joins
<1>5. /\ Exchanged' /\ appQueue' = appQueue
      /\ ToSet(toApp') \subseteq ToSet(toApp) \cup ToSet(<<m>>)
      /\ toApp' # << >> => toApp # << >> \/ link'["app"] = "open"
      /\ ToSet(extQueue') \subseteq ToSet(extQueue) \cup ToSet(<<m>>)
      /\ \A x \in ToSet(toExt') : x \in ToSet(ahead) \/ x.type = "refused"
  BY <1>1, <1>4, ExtSendsIs DEF FileInv
<1>6. Matched'
  <2>1. owed' \subseteq owed \cup {edits + 1}
    OBVIOUS
  <2>2. \A x \in ToSet(toExt') : x \in ToSet(toExt) \/ x.type \notin {"done", "tree"}
    BY <1>5
  <2>3. ToSet(toApp') \cup ToSet(extQueue') \subseteq ToSet(toApp) \cup ToSet(extQueue) \cup ToSet(<<m>>)
    BY <1>5
  <2> QED
    BY <1>4, <2>1, <2>2, <2>3, MatchedKept DEF FileInv
<1>7. OwnQueue'
  BY <1>5 DEF FileInv, OwnQueue
<1>8. ASSUME TypeOK'
      PROVE  Held' = Held
  <2>1. Held' = HeldBy(pending, asks') /\ Held = HeldBy(pending, asks)
    BY <1>8, HeldIs DEF FileInv
  <2>2. UNION {Carries(a) : a \in ToSet(asks')} = UNION {Carries(a) : a \in ToSet(asks)}
    BY <1>3, <1>4
  <2> QED
    BY <2>1, <2>2 DEF HeldBy
<1> QED
  BY <1>4, <1>5, <1>6, <1>7, <1>8 DEF FileInv, Made, EditsAccounted

LEMMA PullsKeeps == ASSUME FileInv, ExtPulls PROVE FileInv'
<1>1. /\ Free # {} /\ asks' = Append(asks, Pull(Fresh)) /\ ExtSends(<<Sync(Fresh)>>, toExt)
      /\ upsets < MaxUpsets /\ upsets' = upsets + 1 /\ UNCHANGED <<link, bound>>
      /\ UNCHANGED <<tree, appSeq, peerSeq, paired, naps, pending, edits, owed, synced>>
  BY DEF ExtPulls, Upset
<1>2. Fresh \in Free /\ Fresh \in Id
  BY <1>1, FreshIs, FreeIs DEF FileInv
<1>3. Pull(Fresh) \in Asking /\ Pull(Fresh).id = Fresh /\ Pull(Fresh).for = "pull"
  BY <1>2, Built
<1>4. Exchanged' /\ Waiting(asks') /\ (TypeOK' => FileInv')
  BY <1>1, <1>2, <1>3, Typed, SyncKeeps DEF FileInv
<1>5. upsets' \in 0 .. MaxUpsets
  BY <1>1, Bounds DEF FileInv, TypeOK
<1>6. TypeOK'
  BY <1>1, <1>4, <1>5 DEF FileInv, TypeOK, Exchanged, Waiting, Unique
<1> QED
  BY <1>4, <1>6

LEMMA WakesKeeps == ASSUME FileInv, Wakes PROVE FileInv'
<1>1. /\ Free # {} /\ ExtSends(<<Sync(Fresh)>>, toExt) /\ UNCHANGED <<link, bound>>
      /\ UNCHANGED <<tree, appSeq, peerSeq, paired, pending, history>>
  BY DEF Wakes
<1>2. PICK i \in DOMAIN naps : naps' = RemoveAt(naps, i) /\ asks' = Append(asks, Retry(Fresh, naps[i]))
  BY DEF Wakes
<1>3. Fresh \in Free /\ Fresh \in Id
  BY <1>1, FreshIs, FreeIs DEF FileInv
<1>4. naps' \in Seq(Attempts) /\ naps[i] \in Attempts
  BY <1>2, Typed, RemovedFrom DEF FileInv
<1>5. PICK n : n = Retry(Fresh, naps[i])
  OBVIOUS
<1>6. n \in Asking /\ n.id = Fresh /\ n.for = "retry"
  BY <1>3, <1>4, <1>5 DEF Retry, Asking
<1>7. Exchanged' /\ Waiting(asks') /\ (TypeOK' => FileInv')
  BY <1>1, <1>2, <1>3, <1>5, <1>6, Typed, SyncKeeps DEF FileInv, history
<1>8. TypeOK'
  BY <1>1, <1>4, <1>7 DEF FileInv, TypeOK, Exchanged, Waiting, Unique, history
<1> QED
  BY <1>7, <1>8

LEMMA AskedIs ==
    ASSUME TypeOK, Asked # 0
    PROVE  Asked \in DOMAIN asks /\ asks[Asked].id = Head(toExt).id
<1> DEFINE I == {i \in 1 .. Len(asks) : asks[i].id = Head(toExt).id}
<1>1. Len(asks) \in Nat /\ DOMAIN asks = 1 .. Len(asks)
  BY Typed
<1>2. Asked = IF I # {} THEN Min(I) ELSE 0
  BY Zenon DEF Asked, SelectInSeq
<1>3. I \in SUBSET (1 .. Len(asks)) /\ \A i \in I : asks[i].id = Head(toExt).id
  OBVIOUS
<1> HIDE DEF I
<1>4. I # {} /\ Asked = Min(I)
  BY <1>2
<1>5. Min(I) \in I
  BY <1>1, <1>3, <1>4, FirstOf
<1> QED
  BY <1>1, <1>3, <1>4, <1>5

LEMMA HeldKeeps ==
    ASSUME FileInv, TypeOK', Matched', OwnQueue', UNCHANGED <<edits, appSeq>>,
           HeldBy(pending', asks') \subseteq Held, owed' \subseteq HeldBy(pending', asks')
    PROVE  FileInv'
<1>1. Held' = HeldBy(pending', asks')
  BY HeldIs
<1> QED
  BY <1>1 DEF FileInv, Made, EditsAccounted

LEMMA TimesOutKeeps == ASSUME FileInv, TimesOut PROVE FileInv'
<1>1. /\ asks # << >> /\ UNCHANGED <<link, bound>> /\ Ends(1, FALSE, toExt)
      /\ UNCHANGED <<tree, appSeq, peerSeq, paired, edits, upsets>>
  BY DEF TimesOut
<1>2. 1 \in DOMAIN asks
  <2>1. asks \in Seq(Asking)
    BY Typed DEF FileInv
  <2> QED
    BY <1>1, <2>1
<1>3. /\ Exchanged' /\ Waiting(asks') /\ naps' \in Seq(Attempts) /\ pending' \in Seq(Change)
      /\ owed' \subseteq owed /\ synced' \in BOOLEAN
      /\ Matched' /\ OwnQueue'
      /\ HeldBy(pending', asks') \subseteq Held /\ owed' \subseteq HeldBy(pending', asks')
  BY <1>1, <1>2, Typed, EndsKeeps DEF FileInv
<1>4. TypeOK'
  BY <1>1, <1>3 DEF FileInv, TypeOK, Exchanged, Waiting, Unique
<1> QED
  BY <1>1, <1>3, <1>4, HeldKeeps

LEMMA ChangeAnsweredKeeps == ASSUME FileInv, ChangeAnswered PROVE FileInv'
<1>1. PICK k, m, done, ahead :
        k = Asked /\ m = Head(toExt) /\ done = (m.type = "done") /\ ahead = Tail(toExt)
  OBVIOUS
<1>2. /\ toExt # << >> /\ m.type \in {"done", "refused"} /\ k # 0 /\ UNCHANGED <<link, bound>>
      /\ Ends(k, done, ahead)
      /\ UNCHANGED <<tree, appSeq, peerSeq, paired, edits, upsets>>
  BY <1>1 DEF ChangeAnswered, Answered
<1>3. /\ m \in ToSet(toExt) /\ ahead \in Seq(ToExt) /\ ToSet(ahead) \subseteq ToSet(toExt)
  BY <1>1, <1>2, Typed, Behind DEF FileInv
<1>4. k \in DOMAIN asks /\ asks[k].id = m.id
  BY <1>1, <1>2, AskedIs DEF FileInv
<1>5. done \in BOOLEAN /\ (done => ~ForChange(asks[k]) \/ asks[k].change.edit \notin owed)
  <2>1. done \in BOOLEAN /\ (done => m.type = "done")
    BY <1>1
  <2>2. asks[k] \in ToSet(asks) /\ Answers(m, asks, owed)
    BY <1>3, <1>4 DEF ToSet, FileInv, Matched
  <2> QED
    BY <1>4, <2>1, <2>2 DEF Answers
<1>6. /\ Exchanged' /\ Waiting(asks') /\ naps' \in Seq(Attempts) /\ pending' \in Seq(Change)
      /\ owed' \subseteq owed /\ synced' \in BOOLEAN
      /\ Matched' /\ OwnQueue'
      /\ HeldBy(pending', asks') \subseteq Held /\ owed' \subseteq HeldBy(pending', asks')
  BY <1>2, <1>3, <1>4, <1>5, EndsKeeps
<1>7. TypeOK'
  BY <1>2, <1>6 DEF FileInv, TypeOK, Exchanged, Waiting, Unique
<1> QED
  BY <1>2, <1>6, <1>7, HeldKeeps

LEMMA TreeReceivedKeeps == ASSUME FileInv, TreeReceived PROVE FileInv'
<1>1. PICK k, m, ahead : k = Asked /\ m = Head(toExt) /\ ahead = Tail(toExt)
  OBVIOUS
<1>2. /\ toExt # << >> /\ m.type = "tree" /\ k # 0 /\ UNCHANGED <<link, bound>>
      /\ tree' = [tree EXCEPT !["ext"] = m.content] /\ peerSeq' = m.seq
      /\ Ends(k, TRUE, ahead)
      /\ UNCHANGED <<appSeq, paired, edits, upsets>>
  BY <1>1 DEF TreeReceived, Answered
<1>3. /\ m \in ToSet(toExt) /\ m \in ToExt
      /\ ahead \in Seq(ToExt) /\ ToSet(ahead) \subseteq ToSet(toExt)
  BY <1>1, <1>2, Typed, Behind DEF FileInv
<1>4. k \in DOMAIN asks /\ asks[k].id = m.id
  BY <1>1, <1>2, AskedIs DEF FileInv
<1>5. ~ForChange(asks[k])
  <2>1. asks[k] \in ToSet(asks) /\ Answers(m, asks, owed)
    BY <1>3, <1>4 DEF ToSet, FileInv, Matched
  <2> QED
    BY <1>2, <1>4, <2>1 DEF Answers
<1>6. /\ Exchanged' /\ Waiting(asks') /\ naps' \in Seq(Attempts) /\ pending' \in Seq(Change)
      /\ owed' \subseteq owed /\ synced' \in BOOLEAN
      /\ Matched' /\ OwnQueue'
      /\ HeldBy(pending', asks') \subseteq Held /\ owed' \subseteq HeldBy(pending', asks')
  BY <1>2, <1>3, <1>4, <1>5, EndsKeeps
<1>7. tree' \in [Side -> Content] /\ peerSeq' \in 0 .. MaxEdits
  BY <1>2, <1>3, Fields, Typed DEF FileInv, Side
<1>8. TypeOK'
  BY <1>2, <1>6, <1>7 DEF FileInv, TypeOK, Exchanged, Waiting, Unique
<1> QED
  BY <1>2, <1>6, <1>8, HeldKeeps

(* The request for the tree, and behind it the first change that was       *)
(* pending.                                                                *)
LEMMA FlushKeeps ==
    ASSUME FileInv, Fresh \in Free, Another \in Free, Another # Fresh, pending # << >>,
           NEW n, n = Retry(Fresh, MaxAttempts), NEW f, f = Flush(Another, pending, << >>),
           asks' = Crossed(Append(asks, n)) \o <<f>>
    PROVE  /\ Waiting(asks') /\ Follows(asks')
           /\ Asks(Sync(Fresh), asks') /\ Asks(Request(Another, Head(pending)), asks')
           /\ HeldBy(<< >>, asks') = HeldBy(pending, asks)
<1>1. /\ pending \in Seq(Change) /\ asks \in Seq(Asking) /\ << >> \in Seq(Change)
      /\ Fresh \in Id /\ Another \in Id /\ MaxAttempts \in Attempts
  BY Typed, FreeIs, Bounds DEF FileInv, Attempts
<1>2. PICK s, m, one, two, qs, r :
        /\ s = Sync(Fresh) /\ m = Request(Another, Head(pending))
        /\ one = Fresh /\ two = Another /\ qs = asks /\ r = Append(asks, n)
  OBVIOUS
<1>3. /\ s \in ToApp /\ s.id = one /\ s.type = "sync"
      /\ n \in Asking /\ n.id = one /\ n.for = "retry"
  <2>1. s \in ToApp /\ s.id = one /\ s.type = "sync"
    BY <1>1, <1>2 DEF Sync, ToApp
  <2>2. n \in Asking /\ n.id = one /\ n.for = "retry"
    BY <1>1, <1>2 DEF Retry, Asking
  <2> QED
    BY <2>1, <2>2
<1>4. Pairs(n, s) /\ Carries(n) = {} /\ ~ForChange(n)
  BY <1>3 DEF Pairs, ForChange, Carries
<1>5. Joins(qs, n, s, r)
  <2>1. /\ one \in Free /\ n.id = one /\ Pairs(n, s) /\ r = Append(qs, n)
        /\ Waiting(qs) /\ Follows(qs) /\ \A b \in ToSet(qs) : b.id # one
    BY <1>2, <1>3, <1>4, AsksWait, SelfFollows
  <2> QED
    BY <2>1, AskedKeeps, Zenon
<1>6. r \in Seq(Asking) /\ ToSet(r) = ToSet(asks) \cup {n} /\ Waiting(r) /\ Follows(r)
  BY <1>2, <1>5 DEF Joins, Waiting
<1>7. PICK t : t = Crossed(r)
  OBVIOUS
<1>8. /\ Waiting(t) /\ Follows(t) /\ t \in Seq(Asking) /\ DOMAIN t = DOMAIN r
      /\ \A i \in DOMAIN r : t[i].id = r[i].id
      /\ \A i \in DOMAIN r : ~ForChange(r[i]) => ~ForChange(t[i])
      /\ HeldBy(<< >>, t) = HeldBy(<< >>, r)
  <2>1. /\ t \in Seq(Asking) /\ DOMAIN t = DOMAIN r
        /\ \A i \in DOMAIN r : t[i].id = r[i].id
        /\ \A i \in DOMAIN r : ~ForChange(r[i]) => ~ForChange(t[i])
    BY <1>6, <1>7, CrossedIs
  <2>2. Waiting(t) /\ Follows(t) /\ HeldBy(<< >>, t) = HeldBy(<< >>, r)
    BY <1>6, <1>7, CrossedWaits, CrossedFollows, CrossedCarries
  <2> QED
    BY <2>1, <2>2
<1>9. Pairs(f, m) /\ f.id = two /\ Carries(f) = EditsOf(pending) \cup EditsOf(<< >>)
  BY <1>1, <1>2, FlushCarries
<1>10. PICK u : u = Append(t, f)
  OBVIOUS
<1>11. asks' = u
  BY <1>2, <1>7, <1>8, <1>10
<1>12. Joins(t, f, m, u)
  <2>1. \A b \in ToSet(t) : b.id # two
    <3>1. \A b \in ToSet(r) : b.id # two
      BY <1>2, <1>3, <1>6, AsksWait
    <3> QED
      BY <1>8, <3>1 DEF ToSet
  <2>2. /\ two \in Free /\ f.id = two /\ Pairs(f, m) /\ u = Append(t, f)
        /\ Waiting(t) /\ Follows(t) /\ \A b \in ToSet(t) : b.id # two
    BY <1>2, <1>8, <1>9, <1>10, <2>1
  <2> QED
    BY <2>2, AskedKeeps, Zenon
<1>13. Waiting(u) /\ Follows(u) /\ Asks(m, u) /\ ToSet(u) = ToSet(t) \cup {f}
  BY <1>12 DEF Joins
<1>14. Asks(s, u)
  <2>1. PICK i \in DOMAIN r : r[i] = n
    BY <1>6 DEF ToSet
  <2>2. PICK b : b = t[i]
    OBVIOUS
  <2>3. b \in Asking /\ b \in ToSet(t) /\ b.id = one /\ ~ForChange(b)
    <3>1. b \in Asking /\ b \in ToSet(t)
      BY <1>8, <2>1, <2>2 DEF ToSet
    <3> QED
      BY <1>3, <1>4, <1>8, <2>1, <2>2, <3>1
  <2>4. Pairs(b, s) /\ b \in ToSet(u)
    BY <1>3, <1>13, <2>3 DEF Pairs
  <2> QED
    BY <1>13, <2>4, PairAsks
<1>15. HeldBy(<< >>, u) = HeldBy(pending, asks)
  <2>1. HeldBy(<< >>, u) = HeldBy(<< >>, t) \cup EditsOf(pending)
    BY <1>9, <1>13 DEF HeldBy
  <2>2. HeldBy(<< >>, r) = HeldBy(<< >>, asks)
    BY <1>4, <1>6 DEF HeldBy
  <2>3. EditsOf(<< >>) = {}
    BY Empty DEF EditsOf
  <2> QED
    BY <1>8, <2>1, <2>2, <2>3 DEF HeldBy
<1> QED
  BY <1>2, <1>11, <1>13, <1>14, <1>15

LEMMA WelcomedKeeps == ASSUME FileInv, Welcomed PROVE FileInv'
<1>1. /\ toExt # << >> /\ UNCHANGED <<link, bound>> /\ synced' = FALSE
      /\ UNCHANGED <<tree, appSeq, edits, upsets, owed>>
  BY DEF Welcomed, ExtReceives
<1>2. PICK ahead : ahead = Tail(toExt)
  OBVIOUS
<1>3. ahead \in Seq(ToExt) /\ ToSet(ahead) \subseteq ToSet(toExt)
  BY <1>1, <1>2, Typed, Behind DEF FileInv
<1>4. ASSUME paired
      PROVE  FileInv'
  <2>1. toExt' = ahead /\ UNCHANGED <<toApp, appQueue, extQueue, extension>>
    BY <1>2, <1>4 DEF Welcomed
  <2>2. TypeOK'
    BY <1>1, <1>3, <2>1 DEF FileInv, TypeOK, extension
  <2>3. OwnQueue'
    BY <1>1, <2>1 DEF FileInv, OwnQueue
  <2> QED
    BY <1>1, <1>3, <2>1, <2>2, <2>3, StaysKept DEF FileInv, Made, extension, TypeOK
<1>5. ASSUME ~paired
      PROVE  FileInv'
  <2>1. /\ paired' = TRUE /\ pending' = << >> /\ UNCHANGED <<peerSeq, naps>> /\ Free # {}
        /\ (pending # << >>) => Free \ {Fresh} # {}
    BY <1>5 DEF Welcomed
  <2>2. PICK n, s : n = Retry(Fresh, MaxAttempts) /\ s = Sync(Fresh)
    OBVIOUS
  <2>3. Fresh \in Free /\ Fresh \in Id /\ MaxAttempts \in Attempts
    BY <2>1, FreshIs, FreeIs, Bounds DEF FileInv, Attempts
  <2>4. ASSUME pending = << >>
        PROVE  FileInv'
    <3>1. asks' = Append(asks, n) /\ ExtSends(<<s>> \o << >>, ahead)
      BY <1>2, <1>5, <2>2, <2>4 DEF Welcomed
    <3>2. <<s>> \o << >> = <<s>>
      OBVIOUS
    <3>3. n \in Asking /\ n.id = Fresh /\ n.for = "retry"
      BY <2>2, <2>3, Built
    <3>4. ExtSends(<<Sync(Fresh)>>, ahead)
      BY <2>2, <3>1, <3>2
    <3>5. Exchanged' /\ Waiting(asks') /\ (TypeOK' => FileInv')
      BY <1>1, <1>3, <2>1, <2>3, <2>4, <3>1, <3>3, <3>4, SyncKeeps
    <3>6. TypeOK'
      BY <1>1, <2>1, <3>5, Empty DEF FileInv, TypeOK, Exchanged, Waiting, Unique
    <3> QED
      BY <3>5, <3>6
  <2>5. ASSUME pending # << >>
        PROVE  FileInv'
    <3>1. PICK m, f : m = Request(Another, Head(pending)) /\ f = Flush(Another, pending, << >>)
      OBVIOUS
    <3>2. asks' = Crossed(Append(asks, n)) \o <<f>> /\ ExtSends(<<s>> \o <<m>>, ahead)
      BY <1>2, <1>5, <2>2, <2>5, <3>1 DEF Welcomed
    <3>3. Another \in Free /\ Another # Fresh /\ Another \in Id
      BY <2>1, <2>5, FreshIs, FreeIs DEF FileInv
    <3>4. /\ Waiting(asks') /\ Follows(asks') /\ Asks(s, asks') /\ Asks(m, asks')
          /\ HeldBy(<< >>, asks') = HeldBy(pending, asks)
      BY <2>2, <2>3, <2>5, <3>1, <3>2, <3>3, FlushKeeps
    <3>5. PICK ms : ms = <<s>> \o <<m>>
      OBVIOUS
    <3>6. ms \in Seq(ToApp) /\ ToSet(ms) = {s, m}
      <4>1. s \in ToApp /\ m \in ToApp
        <5>1. Head(pending) \in Change
          BY <2>5, Typed, Behind DEF FileInv
        <5> QED
          BY <2>2, <2>3, <3>1, <3>3, <5>1, Built
      <4>2. <<s>> \in Seq(ToApp) /\ ToSet(<<s>>) = {s} /\ <<m>> \in Seq(ToApp) /\ ToSet(<<m>>) = {m}
        BY <4>1, Single
      <4>3. <<s>> \o <<m>> \in Seq(ToApp) /\ ToSet(<<s>> \o <<m>>) = ToSet(<<s>>) \cup ToSet(<<m>>)
        BY ZenonT(30), <4>2, Joined
      <4> QED
        BY <3>5, <4>2, <4>3
    <3>7. /\ Exchanged' /\ appQueue' = appQueue
          /\ ToSet(toApp') \subseteq ToSet(toApp) \cup {s, m}
          /\ toApp' # << >> => toApp # << >> \/ link'["app"] = "open"
          /\ ToSet(extQueue') \subseteq ToSet(extQueue) \cup {s, m}
          /\ \A x \in ToSet(toExt') : x \in ToSet(ahead) \/ x.type = "refused"
      <4>1. ExtSends(ms, ahead)
        BY <3>2, <3>5
      <4>2. /\ Exchanged' /\ appQueue' = appQueue
            /\ ToSet(toApp') \subseteq ToSet(toApp) \cup ToSet(ms)
            /\ toApp' # << >> => toApp # << >> \/ link'["app"] = "open"
            /\ ToSet(extQueue') \subseteq ToSet(extQueue) \cup ToSet(ms)
            /\ \A x \in ToSet(toExt') : x \in ToSet(ahead) \/ x.type = "refused"
        BY <1>3, <3>6, <4>1, ExtSendsIs DEF FileInv
      <4> QED
        BY <3>6, <4>2
    <3>8. TypeOK'
      BY <1>1, <2>1, <3>4, <3>7, Empty DEF FileInv, TypeOK, Exchanged, Waiting, Unique
    <3>9. Matched'
      <4>1. owed' \subseteq owed \cup {edits + 1}
        BY <1>1
      <4>2. \A x \in ToSet(toExt') : x \in ToSet(toExt) \/ x.type \notin {"done", "tree"}
        BY <1>3, <3>7
      <4>3. ToSet(toApp') \cup ToSet(extQueue') \subseteq ToSet(toApp) \cup ToSet(extQueue) \cup {s, m}
        BY <3>7
      <4> QED
        BY ZenonT(30), <3>4, <4>1, <4>2, <4>3, MatchedKept DEF FileInv
    <3>10. OwnQueue'
      BY <1>1, <3>7 DEF FileInv, OwnQueue
    <3>11. HeldBy(pending', asks') = Held
      BY <2>1, <3>4, HeldIs DEF FileInv
    <3> QED
      BY <1>1, <3>8, <3>9, <3>10, <3>11, HeldKeeps DEF FileInv, EditsAccounted
  <2> QED
    BY <2>4, <2>5
<1> QED
  BY <1>4, <1>5

-----------------------------------------------------------------------------
(* The theorems.                                                           *)

LEMMA InitHolds == Init => FileInv
<1> SUFFICES ASSUME Init
             PROVE  FileInv
  OBVIOUS
<1>1. /\ \E content \in {0, Missing} : tree = [app |-> content, ext |-> Missing]
      /\ link = [app |-> "off", ext |-> "down"] /\ bound = {}
      /\ toApp = << >> /\ toExt = << >> /\ appQueue = << >> /\ extQueue = << >>
      /\ appSeq = 0 /\ peerSeq = 0 /\ paired = FALSE
      /\ asks = << >> /\ naps = << >> /\ pending = << >>
      /\ edits = 0 /\ upsets = 0 /\ owed = {} /\ synced = FALSE
  BY DEF Init
<1>2. TypeOK
  <2>1. tree \in [Side -> Content] /\ link \in [Side -> {"off", "down", "open", "dead"}] /\ link["ext"] # "off"
    BY <1>1, Bounds DEF Side, Content
  <2>2. Waiting(asks)
    BY <1>1, Empty DEF Waiting, Unique
  <2>3. /\ toApp \in Seq(ToApp) /\ toExt \in Seq(ToExt) /\ appQueue \in Seq(ToExt)
        /\ extQueue \in Seq(ToApp) /\ naps \in Seq(Attempts) /\ pending \in Seq(Change)
    BY <1>1, Empty
  <2>4. bound \subseteq Side /\ owed \subseteq Edit /\ paired \in BOOLEAN /\ synced \in BOOLEAN
    BY <1>1
  <2>5. /\ appSeq \in 0 .. MaxEdits /\ peerSeq \in 0 .. MaxEdits
        /\ edits \in 0 .. MaxEdits /\ upsets \in 0 .. MaxUpsets
    BY <1>1, Bounds
  <2> QED
    BY <2>1, <2>2, <2>3, <2>4, <2>5 DEF TypeOK, Waiting, Unique
<1>3. Held = {}
  <2>1. Held = HeldBy(<< >>, << >>)
    BY <1>1, <1>2, HeldIs
  <2> QED
    BY <2>1, Empty DEF HeldBy, EditsOf
<1> QED
  BY <1>1, <1>2, <1>3, Empty DEF FileInv, Matched, OwnQueue, Made, EditsAccounted

LEMMA NextKeeps == FileInv /\ [Next]_vars => FileInv'
<1> SUFFICES ASSUME FileInv, [Next]_vars
             PROVE  FileInv'
  OBVIOUS
<1>1. ASSUME UNCHANGED vars
      PROVE  FileInv'
  <2>1. UNCHANGED <<tree, link, bound, toApp, toExt, appQueue, extQueue, appSeq, peerSeq, paired,
                    asks, naps, pending, edits, upsets, owed, synced>>
    BY <1>1 DEF vars, exchange, extension, history
  <2>2. TypeOK' /\ OwnQueue'
    BY <2>1 DEF FileInv, TypeOK, OwnQueue
  <2> QED
    BY <2>1, <2>2, StaysKept DEF FileInv, Made, TypeOK
<1>2. ASSUME NEW side \in Side, Lose(side) \/ Notice(side) \/ BridgeNotices(side)
      PROVE  FileInv'
  BY <1>2, LoseKeeps, NoticeKeeps, BridgeNoticesKeeps
<1>3. ASSUME AppConnects \/ ExtConnects \/ AppStarts \/ AppStops \/ ExtRestarts
      PROVE  FileInv'
  BY <1>3, AppConnectsKeeps, ExtConnectsKeeps, StartsKeeps, StopsKeeps, RestartsKeeps
<1>4. ASSUME AppEdits \/ ExtEdits \/ ExtPulls \/ TimesOut \/ Wakes
      PROVE  FileInv'
  BY <1>4, AppEditsKeeps, ExtEditsKeeps, PullsKeeps, TimesOutKeeps, WakesKeeps
<1>5. ASSUME \/ Welcomed \/ ToldAway \/ AppChanged \/ AnsweredLate \/ ChangeAnswered
             \/ TreeReceived \/ AppReceives
      PROVE  FileInv'
  BY <1>5, WelcomedKeeps, AwayKeeps, ChangedKeeps, LateKeeps, ChangeAnsweredKeeps,
     TreeReceivedKeeps, ReceivesKeeps
<1> QED
  BY <1>1, <1>2, <1>3, <1>4, <1>5 DEF Next

LEMMA Invariant == Spec => []FileInv
BY InitHolds, NextKeeps, PTL DEF Spec

(* The variables of the file exchange keep their types: no two requests    *)
(* that wait for an answer ever have the same identifier.                  *)
THEOREM TypeCorrect == Spec => []TypeOK
<1>1. FileInv => TypeOK
  BY DEF FileInv
<1> QED
  BY <1>1, Invariant, PTL

(* Whatever is lost, refused or late, an edit of the extension that the    *)
(* app has not applied still waits for an answer or is pending, or a later *)
(* failure of the same action has taken its place.                         *)
THEOREM EditsAccountedHolds == Spec => []EditsAccounted
<1>1. FileInv => EditsAccounted
  BY DEF FileInv
<1> QED
  BY <1>1, Invariant, PTL

-----------------------------------------------------------------------------
(* The trees agree: what is under way makes them alike.                    *)

IsChange(m) == m.type = "change"

NoChange(s) == \A i \in DOMAIN s : ~IsChange(s[i])

(* Contents that n edits can have made.                                    *)
Known(n) == 0 .. n \cup {Missing}

Between(s, i, k) == \E j \in i + 1 .. k : IsChange(s[j])

(* The content h[i] that a file of content h[p] has when the messages of s *)
(* behind p are taken up to i: every change is applied, and makes a        *)
(* content that was not there before.                                      *)
Way(s, p, h, n, exact) ==
    /\ h \in [p .. Len(s) -> Known(n)]
    /\ \A i \in p + 1 .. Len(s) : IsChange(s[i]) =>
          /\ s[i].change.expected = h[i - 1] \/ (s[i].change.expected = Missing /\ ~exact)
          /\ (s[i].change.to = Missing => h[i - 1] # Missing)
          /\ h[i] = s[i].change.to
    /\ \A i, k \in p .. Len(s) : i <= k =>
          IF Between(s, i, k) THEN h[k] = Missing \/ h[k] # h[i] ELSE h[k] = h[i]

Trail(s, p, x, y, n, exact) == \E h : Way(s, p, h, n, exact) /\ h[p] = x /\ h[Len(s)] = y

(* A message that can follow: a change of content y to v, or none.         *)
Follower(m, y, v, n, exact) ==
    IF IsChange(m)
    THEN /\ m.change.expected = y \/ (m.change.expected = Missing /\ ~exact)
         /\ (v = Missing => y # Missing) /\ v = m.change.to
         /\ v = Missing \/ v \notin Known(n)
    ELSE v = y

LEMMA TrailAdds ==
    ASSUME NEW S, NEW s \in Seq(S), NEW p \in 0 .. Len(s), NEW x, NEW y, NEW n \in Nat,
           NEW r \in Nat, n <= r, NEW exact, Trail(s, p, x, y, n, exact),
           NEW m, NEW v \in Known(r), Follower(m, y, v, n, exact)
    PROVE  Trail(Append(s, m), p, x, v, r, exact)
<1>1. PICK h : Way(s, p, h, n, exact) /\ h[p] = x /\ h[Len(s)] = y
  BY DEF Trail
<1>2. PICK t : t = Append(s, m)
  OBVIOUS
<1>3. PICK l \in Nat : l = Len(s)
  OBVIOUS
<1>4. Len(t) = l + 1 /\ t[l + 1] = m /\ \A i \in 1 .. l : t[i] = s[i]
  BY <1>2, <1>3
<1>5. PICK g : g = [i \in p .. l + 1 |-> IF i <= l THEN h[i] ELSE v]
  OBVIOUS
<1>6. p \in 0 .. l /\ h \in [p .. l -> Known(n)] /\ Known(n) \subseteq Known(r)
  BY <1>1, <1>3 DEF Way, Known
<1>7. /\ g \in [p .. l + 1 -> Known(r)] /\ g[l + 1] = v
      /\ \A i \in p .. l : g[i] = h[i]
  BY <1>5, <1>6
<1>8. ASSUME NEW i \in p + 1 .. l + 1, IsChange(t[i])
      PROVE  /\ t[i].change.expected = g[i - 1] \/ (t[i].change.expected = Missing /\ ~exact)
             /\ (t[i].change.to = Missing => g[i - 1] # Missing)
             /\ g[i] = t[i].change.to
  <2>1. CASE i = l + 1
    BY <1>1, <1>3, <1>4, <1>6, <1>7, <1>8, <2>1 DEF Follower
  <2>2. CASE i # l + 1
    <3>1. i \in p + 1 .. l /\ i \in 1 .. l /\ i - 1 \in p .. l /\ i \in p .. l
      BY <1>6, <2>2
    <3>2. t[i] = s[i] /\ g[i] = h[i] /\ g[i - 1] = h[i - 1]
      BY <1>4, <1>7, <3>1
    <3> QED
      BY <1>1, <1>3, <1>8, <3>1, <3>2 DEF Way
  <2> QED
    BY <2>1, <2>2
<1>9. \A i, k \in p .. l : Between(t, i, k) <=> Between(s, i, k)
  BY <1>4, <1>6 DEF Between
<1>10. \A i \in p .. l : Between(t, i, l + 1) <=> Between(s, i, l) \/ IsChange(m)
  BY <1>4, <1>6 DEF Between
<1>11. ~Between(t, l + 1, l + 1)
  BY DEF Between
<1>12. ASSUME NEW i \in p .. l + 1, NEW k \in p .. l + 1, i <= k
       PROVE  IF Between(t, i, k) THEN g[k] = Missing \/ g[k] # g[i] ELSE g[k] = g[i]
  <2>1. CASE k # l + 1
    <3>1. i \in p .. l /\ k \in p .. l
      BY <1>6, <1>12, <2>1
    <3> QED
      BY <1>1, <1>3, <1>7, <1>9, <1>12, <3>1 DEF Way
  <2>2. CASE i = l + 1
    BY <1>6, <1>11, <1>12, <2>2
  <2>3. CASE k = l + 1 /\ i # l + 1
    <3>1. i \in p .. l /\ l \in p .. l /\ i <= l
      BY <1>6, <2>3
    <3>2. h[i] \in Known(n) /\ g[i] = h[i] /\ g[k] = v
      BY <1>6, <1>7, <2>3, <3>1
    <3>3. IF Between(s, i, l) THEN h[l] = Missing \/ h[l] # h[i] ELSE h[l] = h[i]
      BY <1>1, <1>3, <3>1 DEF Way
    <3> QED
      BY <1>1, <1>3, <1>10, <2>3, <3>1, <3>2, <3>3 DEF Follower
  <2> QED
    BY <2>1, <2>2, <2>3
<1>13. Way(t, p, g, r, exact)
  BY <1>4, <1>7, <1>8, <1>12 DEF Way
<1>14. g[p] = x /\ g[Len(t)] = v
  BY <1>1, <1>4, <1>6, <1>7
<1> QED
  BY <1>2, <1>13, <1>14 DEF Trail

(* Without the first message: what was at position p is behind it, or the  *)
(* file has taken it.                                                      *)
LEMMA TrailShifts ==
    ASSUME NEW S, NEW s \in Seq(S), s # << >>, NEW p \in 0 .. Len(s), NEW h, NEW n \in Nat,
           NEW exact, Way(s, p, h, n, exact), NEW q \in Nat, q = IF p = 0 THEN 0 ELSE p - 1
    PROVE  Trail(Tail(s), q, h[q + 1], h[Len(s)], n, exact)
<1>1. PICK t : t = Tail(s)
  OBVIOUS
<1>2. PICK l \in Nat : l = Len(t)
  BY <1>1
<1>3. /\ Len(s) = l + 1 /\ \A i \in 1 .. l : t[i] = s[i + 1]
      /\ q \in 0 .. l /\ p <= q + 1 /\ q + 1 <= l + 1
  BY <1>1, <1>2
<1>4. PICK g : g = [i \in q .. l |-> h[i + 1]]
  OBVIOUS
<1>5. h \in [p .. l + 1 -> Known(n)] /\ \A i \in q .. l : i + 1 \in p .. l + 1
  BY <1>3 DEF Way
<1>6. g \in [q .. l -> Known(n)] /\ \A i \in q .. l : g[i] = h[i + 1]
  BY <1>4, <1>5
<1>7. ASSUME NEW i \in q + 1 .. l, IsChange(t[i])
      PROVE  /\ t[i].change.expected = g[i - 1] \/ (t[i].change.expected = Missing /\ ~exact)
             /\ (t[i].change.to = Missing => g[i - 1] # Missing)
             /\ g[i] = t[i].change.to
  <2>1. /\ i \in 1 .. l /\ i \in q .. l /\ i - 1 \in q .. l /\ i + 1 \in p + 1 .. l + 1
        /\ (i + 1) - 1 = i /\ (i - 1) + 1 = i
    BY <1>3
  <2>2. t[i] = s[i + 1] /\ g[i] = h[i + 1] /\ g[i - 1] = h[i]
    BY <1>3, <1>6, <2>1
  <2> QED
    BY <1>3, <1>7, <2>1, <2>2 DEF Way
<1>8. \A i, k \in q .. l : Between(t, i, k) <=> Between(s, i + 1, k + 1)
  <2> SUFFICES ASSUME NEW i \in q .. l, NEW k \in q .. l
               PROVE  Between(t, i, k) <=> Between(s, i + 1, k + 1)
    OBVIOUS
  <2>1. \A j \in i + 1 .. k : j + 1 \in (i + 1) + 1 .. k + 1 /\ t[j] = s[j + 1]
    BY <1>3
  <2>2. \A j \in (i + 1) + 1 .. k + 1 : j - 1 \in i + 1 .. k /\ t[j - 1] = s[j]
    BY <1>3
  <2> QED
    BY <2>1, <2>2 DEF Between
<1>9. ASSUME NEW i \in q .. l, NEW k \in q .. l, i <= k
      PROVE  IF Between(t, i, k) THEN g[k] = Missing \/ g[k] # g[i] ELSE g[k] = g[i]
  <2>1. i + 1 \in p .. l + 1 /\ k + 1 \in p .. l + 1 /\ i + 1 <= k + 1
    BY <1>5, <1>9
  <2> QED
    BY <1>3, <1>6, <1>8, <2>1 DEF Way
<1>10. Way(t, q, g, n, exact)
  BY <1>2, <1>6, <1>7, <1>9 DEF Way
<1>11. g[q] = h[q + 1] /\ g[Len(t)] = h[Len(s)]
  BY <1>2, <1>3, <1>6
<1> QED
  BY <1>1, <1>10, <1>11 DEF Trail

LEMMA TrailPasses ==
    ASSUME NEW S, NEW s \in Seq(S), NEW p \in 1 .. Len(s), NEW x, NEW y, NEW n \in Nat,
           NEW exact, Trail(s, p, x, y, n, exact)
    PROVE  Trail(Tail(s), p - 1, x, y, n, exact)
<1>1. PICK h : Way(s, p, h, n, exact) /\ h[p] = x /\ h[Len(s)] = y
  BY DEF Trail
<1>2. PICK q \in Nat : q = p - 1
  OBVIOUS
<1>3. s # << >> /\ p \in 0 .. Len(s) /\ q = IF p = 0 THEN 0 ELSE p - 1
  BY <1>2
<1>4. Trail(Tail(s), q, h[q + 1], h[Len(s)], n, exact)
  BY <1>1, <1>3, TrailShifts
<1>5. q + 1 = p
  BY <1>2
<1> QED
  BY <1>1, <1>2, <1>4, <1>5

LEMMA TrailTakes ==
    ASSUME NEW S, NEW s \in Seq(S), s # << >>, NEW x, NEW y, NEW n \in Nat,
           NEW exact, Trail(s, 0, x, y, n, exact), NEW m, m = Head(s)
    PROVE  IF IsChange(m)
           THEN /\ m.change.expected = x \/ (m.change.expected = Missing /\ ~exact)
                /\ (m.change.to = Missing => x # Missing)
                /\ Trail(Tail(s), 0, m.change.to, y, n, exact)
           ELSE Trail(Tail(s), 0, x, y, n, exact)
<1>1. PICK h : Way(s, 0, h, n, exact) /\ h[0] = x /\ h[Len(s)] = y
  BY DEF Trail
<1>2. Len(s) \in Nat \ {0} /\ s[1] = m
  OBVIOUS
<1>3. Trail(Tail(s), 0, h[0 + 1], h[Len(s)], n, exact)
  BY <1>1, <1>2, TrailShifts
<1>4. Trail(Tail(s), 0, h[1], y, n, exact)
  BY <1>1, <1>3
<1>5. 1 \in 0 + 1 .. Len(s) /\ 0 \in 0 .. Len(s) /\ 1 \in 0 .. Len(s) /\ 1 - 1 = 0
  BY <1>2
<1>6. CASE IsChange(m)
  <2>1. /\ m.change.expected = x \/ (m.change.expected = Missing /\ ~exact)
        /\ (m.change.to = Missing => x # Missing)
        /\ h[1] = m.change.to
    BY <1>1, <1>2, <1>5, <1>6 DEF Way
  <2> QED
    BY <1>4, <1>6, <2>1
<1>7. CASE ~IsChange(m)
  <2>1. ~Between(s, 0, 1)
    BY <1>2, <1>7 DEF Between
  <2>2. h[1] = h[0]
    BY <1>1, <1>5, <2>1 DEF Way
  <2> QED
    BY <1>1, <1>4, <1>7, <2>2
<1> QED
  BY <1>6, <1>7

LEMMA TrailEnds ==
    ASSUME NEW S, NEW s \in Seq(S), NEW x, NEW y, NEW n \in Nat, NEW exact, Trail(s, 0, x, y, n, exact)
    PROVE  IF NoChange(s) THEN x = y ELSE y = Missing \/ y # x
<1>1. PICK h : Way(s, 0, h, n, exact) /\ h[0] = x /\ h[Len(s)] = y
  BY DEF Trail
<1>2. /\ Len(s) \in Nat /\ 0 \in 0 .. Len(s) /\ Len(s) \in 0 .. Len(s)
      /\ DOMAIN s = 0 + 1 .. Len(s)
  OBVIOUS
<1>3. Between(s, 0, Len(s)) <=> ~NoChange(s)
  BY <1>2 DEF Between, NoChange
<1> QED
  BY <1>1, <1>2, <1>3 DEF Way

LEMMA FirstChange ==
    ASSUME NEW S, NEW s \in Seq(S), ~NoChange(s)
    PROVE  \E i \in DOMAIN s : IsChange(s[i]) /\ \A j \in 1 .. i - 1 : ~IsChange(s[j])
<1>1. PICK l \in Nat : l = Len(s)
  OBVIOUS
<1>2. DOMAIN s = 1 .. l
  BY <1>1
<1>3. PICK T : T = {i \in 1 .. l : IsChange(s[i])}
  OBVIOUS
<1>4. T \in SUBSET (1 .. l) /\ T # {}
  BY <1>2, <1>3 DEF NoChange
<1>5. Min(T) \in T /\ \A j \in T : Min(T) <= j
  BY <1>4, FirstOf
<1>6. PICK i : i = Min(T)
  OBVIOUS
<1>7. i \in 1 .. l /\ IsChange(s[i]) /\ \A j \in T : i <= j
  BY <1>3, <1>5, <1>6
<1>8. \A j \in 1 .. i - 1 : j \in 1 .. l /\ ~(i <= j)
  BY <1>7
<1> QED
  BY <1>2, <1>3, <1>7, <1>8

LEMMA TrailFirst ==
    ASSUME NEW S, NEW s \in Seq(S), NEW x, NEW y, NEW n \in Nat, Trail(s, 0, x, y, n, TRUE),
           NEW i \in DOMAIN s, IsChange(s[i]), \A j \in 1 .. i - 1 : ~IsChange(s[j])
    PROVE  s[i].change.expected = x
<1>1. PICK h : Way(s, 0, h, n, TRUE) /\ h[0] = x /\ h[Len(s)] = y
  BY DEF Trail
<1>2. /\ Len(s) \in Nat /\ i \in 0 + 1 .. Len(s) /\ 0 \in 0 .. Len(s)
      /\ i - 1 \in 0 .. Len(s) /\ 0 <= i - 1
  OBVIOUS
<1>3. ~Between(s, 0, i - 1)
  BY <1>2 DEF Between
<1>4. h[i - 1] = h[0]
  BY <1>1, <1>2, <1>3 DEF Way
<1> QED
  BY <1>1, <1>2, <1>4 DEF Way

LEMMA TrailHere ==
    ASSUME NEW S, NEW s \in Seq(S), NEW n \in Nat, NEW x \in Known(n), NEW exact
    PROVE  Trail(s, Len(s), x, x, n, exact)
<1>1. PICK l \in Nat : l = Len(s)
  OBVIOUS
<1>2. PICK h : h = [i \in l .. l |-> x]
  OBVIOUS
<1>3. h \in [l .. l -> Known(n)] /\ h[l] = x /\ l .. l = {l} /\ l + 1 .. l = {}
  BY <1>2
<1>4. ~Between(s, l, l)
  BY <1>3 DEF Between
<1>5. Way(s, l, h, n, exact)
  BY <1>1, <1>3, <1>4 DEF Way
<1> QED
  BY <1>1, <1>3, <1>5 DEF Trail

LEMMA Appending ==
    ASSUME NEW S, NEW s \in Seq(S), NEW m, NEW u, u = Append(s, m)
    PROVE  /\ Len(s) \in Nat /\ Len(u) = Len(s) + 1 /\ DOMAIN s = 1 .. Len(s) /\ DOMAIN u = 1 .. Len(s) + 1
           /\ u[Len(s) + 1] = m /\ \A i \in 1 .. Len(s) : u[i] = s[i]
           /\ NoChange(u) <=> NoChange(s) /\ ~IsChange(m)
<1>1. /\ Len(s) \in Nat /\ Len(u) = Len(s) + 1 /\ DOMAIN s = 1 .. Len(s) /\ DOMAIN u = 1 .. Len(s) + 1
      /\ u[Len(s) + 1] = m /\ \A i \in 1 .. Len(s) : u[i] = s[i]
  OBVIOUS
<1>2. NoChange(u) <=> NoChange(s) /\ ~IsChange(m)
  BY <1>1 DEF NoChange
<1> QED
  BY <1>1, <1>2

LEMMA Tailing ==
    ASSUME NEW S, NEW s \in Seq(S), s # << >>, NEW u, u = Tail(s)
    PROVE  /\ u \in Seq(S) /\ Len(u) \in Nat /\ Len(s) = Len(u) + 1
           /\ DOMAIN s = 1 .. Len(u) + 1 /\ DOMAIN u = 1 .. Len(u)
           /\ Head(s) = s[1] /\ \A i \in 1 .. Len(u) : u[i] = s[i + 1]
           /\ NoChange(s) <=> NoChange(u) /\ ~IsChange(Head(s))
<1>1. /\ u \in Seq(S) /\ Len(u) \in Nat /\ Len(s) = Len(u) + 1
      /\ DOMAIN s = 1 .. Len(u) + 1 /\ DOMAIN u = 1 .. Len(u)
      /\ Head(s) = s[1] /\ \A i \in 1 .. Len(u) : u[i] = s[i + 1]
  OBVIOUS
<1>2. \A i \in 1 .. Len(u) + 1 : i = 1 \/ (i - 1 \in 1 .. Len(u) /\ s[i] = u[i - 1])
  BY <1>1
<1>3. \A i \in 1 .. Len(u) : i + 1 \in 1 .. Len(u) + 1
  BY <1>1
<1>4. 1 \in 1 .. Len(u) + 1
  BY <1>1
<1>5. NoChange(s) => NoChange(u) /\ ~IsChange(Head(s))
  BY <1>1, <1>3, <1>4 DEF NoChange
<1>6. NoChange(u) /\ ~IsChange(Head(s)) => NoChange(s)
  BY <1>1, <1>2 DEF NoChange
<1> QED
  BY <1>1, <1>5, <1>6

LEMMA TrailStays ==
    ASSUME NEW S, NEW s \in Seq(S), NoChange(s), NEW n \in Nat, NEW x \in Known(n), NEW exact
    PROVE  Trail(s, 0, x, x, n, exact)
<1>1. PICK l \in Nat : l = Len(s)
  OBVIOUS
<1>2. PICK h : h = [i \in 0 .. l |-> x]
  OBVIOUS
<1>3. h \in [0 .. l -> Known(n)] /\ (\A i \in 0 .. l : h[i] = x) /\ \A i \in 1 .. l : ~IsChange(s[i])
  BY <1>1, <1>2 DEF NoChange
<1>4. \A i, k \in 0 .. l : ~Between(s, i, k)
  BY <1>3 DEF Between
<1>5. Way(s, 0, h, n, exact)
  BY <1>1, <1>3, <1>4 DEF Way
<1> QED
  BY <1>1, <1>3, <1>5 DEF Trail

(* Edits that are not applied yet, each on its way once.                   *)
Owing(s, d) ==
    /\ \A i \in DOMAIN s : IsChange(s[i]) => s[i].change.edit \in d
    /\ \A i, j \in DOMAIN s :
          IsChange(s[i]) /\ IsChange(s[j]) /\ s[i].change.edit = s[j].change.edit => i = j

Newer(s, p, q) == \A i \in p + 1 .. Len(s) : IsChange(s[i]) => s[i].seq > q

(* The edit e is not on its way, or is the next change, and the app, with  *)
(* a file of content a, refuses it.                                        *)
Stuck(s, e, a, n) ==
    \A i \in DOMAIN s : IsChange(s[i]) /\ s[i].change.edit = e =>
        /\ s[i].change.expected \in 0 .. n \ {a}
        /\ \A j \in 1 .. i - 1 : ~IsChange(s[j])

ExtAhead(s, t, a, x, n, d) == NoChange(t) /\ Trail(s, 0, a, x, n, TRUE) /\ Owing(s, d)

AppAhead(s, t, a, x, n, q) == NoChange(s) /\ Trail(t, 0, x, a, n, FALSE) /\ Newer(t, 0, q)

Refused(s, a, n, d) == \E e \in d : Stuck(s, e, a, n)

(* What is on its way, s to the app and t to the extension, makes the      *)
(* files a of the app and x of the extension alike, or an edit of the      *)
(* extension will not be applied.                                          *)
Course(s, t, a, x, n, d, q) ==
    ExtAhead(s, t, a, x, n, d) \/ AppAhead(s, t, a, x, n, q) \/ Refused(s, a, n, d)

CourseArgs(s, t, a, x, n, d) ==
    /\ s \in Seq(ToApp) /\ t \in Seq(ToExt) /\ n \in Nat /\ d \subseteq 1 .. n
    /\ a \in Known(n) /\ x \in Known(n)

LEMMA KnownIs ==
    ASSUME NEW n \in Nat
    PROVE  /\ n + 1 \notin Known(n) /\ n + 1 \in Known(n + 1) /\ Missing \in Known(n)
           /\ Known(n) \subseteq Known(n + 1) /\ 0 .. n \subseteq 0 .. n + 1
           /\ Missing \notin 0 .. n + 1 /\ n + 1 # Missing /\ n + 1 \notin 0 .. n
           /\ \A v \in Known(n) : v # Missing => v \in 0 .. n
BY Bounds DEF Known

(* The edit n + 1 of the extension, of a file of content x.                *)
NewEdit(m, n, x, t) ==
    /\ IsChange(m) /\ m.change.edit = n + 1 /\ m.change.expected = x
    /\ m.change.to \in {n + 1, Missing} /\ (m.change.to = Missing => x # Missing)
    /\ x = Missing => NoChange(t)

LEMMA CourseExtEdits ==
    ASSUME NEW s, NEW t, NEW a, NEW x, NEW n, NEW d, NEW q, CourseArgs(s, t, a, x, n, d),
           Course(s, t, a, x, n, d, q),
           NEW m, NewEdit(m, n, x, t)
    PROVE  Course(Append(s, m), t, a, m.change.to, n + 1, d \cup {n + 1}, q)
<1> USE DEF CourseArgs, NewEdit
<1>1. PICK u : u = Append(s, m)
  OBVIOUS
<1>2. PICK l \in Nat : l = Len(s)
  OBVIOUS
<1>3. /\ DOMAIN s = 1 .. l /\ DOMAIN u = 1 .. l + 1 /\ u[l + 1] = m /\ \A i \in 1 .. l : u[i] = s[i]
  BY <1>1, <1>2, Appending
<1>4. PICK v : v = m.change.to
  OBVIOUS
<1>5. n + 1 \in Nat /\ n <= n + 1 /\ v \in Known(n + 1) /\ 0 \in 0 .. Len(s)
  <2>1. n + 1 \in Known(n + 1) /\ Missing \in Known(n + 1)
    BY KnownIs
  <2> QED
    BY <1>2, <1>4, <2>1
<1>6. Follower(m, x, v, n, TRUE)
  BY <1>4, KnownIs DEF Follower
<1>7. ASSUME Owing(s, d)
      PROVE  Owing(u, d \cup {n + 1})
  <2>1. \A i \in 1 .. l : IsChange(u[i]) => u[i].change.edit \in d /\ u[i].change.edit # n + 1
    BY <1>3, <1>7 DEF Owing
  <2>2. \A i \in 1 .. l + 1 : i = l + 1 \/ i \in 1 .. l
    OBVIOUS
  <2>3. \A i \in 1 .. l + 1 : IsChange(u[i]) => u[i].change.edit \in d \cup {n + 1}
    BY <1>3, <2>1, <2>2
  <2>4. ASSUME NEW i \in 1 .. l + 1, NEW j \in 1 .. l + 1,
               IsChange(u[i]), IsChange(u[j]), u[i].change.edit = u[j].change.edit
        PROVE  i = j
    BY <1>3, <1>7, <2>1, <2>2, <2>4 DEF Owing
  <2> QED
    BY <1>3, <2>3, <2>4 DEF Owing
<1>8. ASSUME NoChange(t), Trail(s, 0, a, x, n, TRUE), Owing(s, d)
      PROVE  ExtAhead(u, t, a, v, n + 1, d \cup {n + 1})
  <2>1. Trail(u, 0, a, v, n + 1, TRUE)
    BY <1>1, <1>5, <1>6, <1>8, TrailAdds
  <2> QED
    BY <1>7, <1>8, <2>1 DEF ExtAhead
<1>9. ASSUME NoChange(s)
      PROVE  Owing(s, d)
  BY <1>9 DEF Owing, NoChange
<1>10. CASE ExtAhead(s, t, a, x, n, d)
  BY <1>1, <1>4, <1>8, <1>10 DEF ExtAhead, Course
<1>11. CASE AppAhead(s, t, a, x, n, q)
  <2>1. NoChange(s) /\ Trail(t, 0, x, a, n, FALSE)
    BY <1>11 DEF AppAhead
  <2>2. IF NoChange(t) THEN x = a ELSE a = Missing \/ a # x
    BY <2>1, TrailEnds
  <2>3. CASE NoChange(t)
    <3>1. Trail(s, 0, a, x, n, TRUE)
      BY <2>1, <2>2, <2>3, TrailStays
    <3> QED
      BY <1>1, <1>4, <1>8, <1>9, <2>1, <2>3, <3>1 DEF Course
  <2>4. CASE ~NoChange(t)
    <3>1. x \in 0 .. n /\ x # a
      BY <2>2, <2>4, KnownIs
    <3>2. \A i \in 1 .. l : ~IsChange(u[i])
      BY <1>3, <2>1 DEF NoChange
    <3>3. Stuck(u, n + 1, a, n + 1)
      BY <1>3, <3>1, <3>2 DEF Stuck
    <3> QED
      BY <1>1, <3>3 DEF Refused, Course
  <2> QED
    BY <2>3, <2>4
<1>12. CASE Refused(s, a, n, d)
  <2>1. PICK e \in d : Stuck(s, e, a, n)
    BY <1>12 DEF Refused
  <2>2. e # n + 1 /\ 0 .. n \subseteq 0 .. n + 1
    OBVIOUS
  <2>3. ASSUME NEW i \in 1 .. l + 1, IsChange(u[i]), u[i].change.edit = e
        PROVE  u[i].change.expected \in 0 .. n + 1 \ {a} /\ \A j \in 1 .. i - 1 : ~IsChange(u[j])
    <3>1. i \in 1 .. l /\ \A j \in 1 .. i - 1 : j \in 1 .. l
      BY <1>3, <2>2, <2>3
    <3> QED
      BY <1>3, <2>1, <2>2, <2>3, <3>1 DEF Stuck
  <2>4. Stuck(u, e, a, n + 1)
    BY <1>3, <2>3 DEF Stuck
  <2> QED
    BY <1>1, <2>4 DEF Refused, Course
<1> QED
  BY <1>10, <1>11, <1>12 DEF Course

LEMMA CourseAppEdits ==
    ASSUME NEW s, NEW t, NEW a, NEW x, NEW n, NEW d, NEW q, CourseArgs(s, t, a, x, n, d),
           Course(s, t, a, x, n, d, q),
           NEW m, IsChange(m), m.change.expected \in {Missing, a}, m.seq > q,
           m.change.to \in {n + 1, Missing}, m.change.to = Missing => a # Missing,
           \A i \in DOMAIN s : IsChange(s[i]) => s[i].change.expected # Missing
    PROVE  Course(s, Append(t, m), m.change.to, x, n + 1, d, q)
<1> USE DEF CourseArgs
<1>1. PICK u : u = Append(t, m)
  OBVIOUS
<1>2. PICK l \in Nat : l = Len(t)
  OBVIOUS
<1>3. /\ DOMAIN t = 1 .. l /\ Len(u) = l + 1 /\ u[l + 1] = m /\ \A i \in 1 .. l : u[i] = t[i]
  BY <1>1, <1>2, Appending
<1>4. PICK v : v = m.change.to
  OBVIOUS
<1>5. n + 1 \in Nat /\ n <= n + 1 /\ v \in Known(n + 1) /\ 0 \in 0 .. Len(t)
  <2>1. n + 1 \in Known(n + 1) /\ Missing \in Known(n + 1)
    BY KnownIs
  <2> QED
    BY <1>2, <1>4, <2>1
<1>6. Follower(m, a, v, n, FALSE)
  BY <1>4, KnownIs DEF Follower
<1>7. ASSUME NoChange(s), Trail(t, 0, x, a, n, FALSE), Newer(t, 0, q)
      PROVE  AppAhead(s, u, v, x, n + 1, q)
  <2>1. Trail(u, 0, x, v, n + 1, FALSE)
    BY <1>1, <1>5, <1>6, <1>7, TrailAdds
  <2>2. \A i \in 0 + 1 .. l + 1 : i = l + 1 \/ (i \in 1 .. l /\ i \in 0 + 1 .. l)
    OBVIOUS
  <2>3. Newer(u, 0, q)
    BY <1>2, <1>3, <1>7, <2>2 DEF Newer
  <2> QED
    BY <1>7, <2>1, <2>3 DEF AppAhead
<1>8. CASE ExtAhead(s, t, a, x, n, d)
  <2>1. NoChange(t) /\ Trail(s, 0, a, x, n, TRUE) /\ Owing(s, d)
    BY <1>8 DEF ExtAhead
  <2>2. CASE NoChange(s)
    <3>1. a = x
      BY <2>1, <2>2, TrailEnds
    <3>2. Trail(t, 0, x, a, n, FALSE)
      BY <2>1, <3>1, TrailStays
    <3>3. Newer(t, 0, q)
      BY <1>2, <1>3, <2>1 DEF Newer, NoChange
    <3> QED
      BY <1>1, <1>4, <1>7, <2>2, <3>2, <3>3 DEF Course
  <2>3. CASE ~NoChange(s)
    <3>1. PICK i \in DOMAIN s : IsChange(s[i]) /\ \A j \in 1 .. i - 1 : ~IsChange(s[j])
      BY <2>3, FirstChange
    <3>2. s[i].change.expected = a /\ a # Missing
      BY <2>1, <3>1, TrailFirst
    <3>3. a \in 0 .. n + 1 \ {v}
      <4>1. /\ \A c \in Known(n) : c # Missing => c \in 0 .. n
            /\ n + 1 \notin 0 .. n /\ 0 .. n \subseteq 0 .. n + 1
        BY KnownIs
      <4>2. a \in 0 .. n
        BY <3>2, <4>1
      <4> QED
        BY <1>4, <3>2, <4>1, <4>2
    <3>4. Stuck(s, s[i].change.edit, v, n + 1)
      BY <2>1, <3>1, <3>2, <3>3 DEF Stuck, Owing
    <3>5. s[i].change.edit \in d
      BY <2>1, <3>1 DEF Owing
    <3> QED
      BY <1>1, <1>4, <3>4, <3>5 DEF Refused, Course
  <2> QED
    BY <2>2, <2>3
<1>9. CASE AppAhead(s, t, a, x, n, q)
  BY <1>1, <1>4, <1>7, <1>9 DEF AppAhead, Course
<1>10. CASE Refused(s, a, n, d)
  <2>1. PICK e \in d : Stuck(s, e, a, n)
    BY <1>10 DEF Refused
  <2>2. \A c \in 0 .. n : c \in 0 .. n + 1 \ {v}
    <3>1. n + 1 \notin 0 .. n /\ Missing \notin 0 .. n + 1 /\ 0 .. n \subseteq 0 .. n + 1
      BY KnownIs
    <3> QED
      BY <1>4, <3>1
  <2>3. Stuck(s, e, v, n + 1)
    BY <2>1, <2>2 DEF Stuck
  <2> QED
    BY <1>1, <1>4, <2>3 DEF Refused, Course
<1> QED
  BY <1>8, <1>9, <1>10 DEF Course

LEMMA OwingBehind ==
    ASSUME NEW S, NEW s \in Seq(S), s # << >>, NEW d, Owing(s, d), NEW u, u = Tail(s)
    PROVE  /\ Owing(u, d)
           /\ IsChange(Head(s)) => Head(s).change.edit \in d /\ Owing(u, d \ {Head(s).change.edit})
<1>1. /\ Len(u) \in Nat /\ DOMAIN s = 1 .. Len(u) + 1 /\ DOMAIN u = 1 .. Len(u)
      /\ Head(s) = s[1] /\ \A i \in 1 .. Len(u) : u[i] = s[i + 1]
  BY Tailing
<1>2. \A i \in 1 .. Len(u) : i + 1 \in 1 .. Len(u) + 1 /\ i + 1 # 1
  BY <1>1
<1>3. \A i, j \in 1 .. Len(u) : i + 1 = j + 1 => i = j
  BY <1>1
<1>4. Owing(u, d)
  BY <1>1, <1>2, <1>3 DEF Owing
<1>5. ASSUME IsChange(Head(s))
      PROVE  Head(s).change.edit \in d /\ Owing(u, d \ {Head(s).change.edit})
  <2>1. 1 \in DOMAIN s /\ IsChange(s[1])
    BY <1>1, <1>5
  <2>2. Head(s).change.edit \in d
    BY <1>1, <2>1 DEF Owing
  <2>3. \A i \in 1 .. Len(u) : IsChange(u[i]) => u[i].change.edit # Head(s).change.edit
    BY <1>1, <1>2, <2>1 DEF Owing
  <2> QED
    BY <1>1, <1>4, <2>2, <2>3 DEF Owing
<1> QED
  BY <1>4, <1>5

LEMMA StuckBehind ==
    ASSUME NEW S, NEW s \in Seq(S), s # << >>, NEW e, NEW a, NEW n, Stuck(s, e, a, n), NEW u, u = Tail(s)
    PROVE  /\ Stuck(u, e, a, n)
           /\ IsChange(Head(s)) => \A b : Stuck(u, e, b, n)
           /\ IsChange(Head(s)) /\ Head(s).change.edit = e => Head(s).change.expected \in 0 .. n \ {a}
<1>1. /\ Len(u) \in Nat /\ DOMAIN s = 1 .. Len(u) + 1 /\ DOMAIN u = 1 .. Len(u)
      /\ Head(s) = s[1] /\ \A i \in 1 .. Len(u) : u[i] = s[i + 1]
  BY Tailing
<1>2. ASSUME NEW i \in 1 .. Len(u), IsChange(u[i]), u[i].change.edit = e
      PROVE  /\ ~IsChange(Head(s)) /\ u[i].change.expected \in 0 .. n \ {a}
             /\ \A j \in 1 .. i - 1 : ~IsChange(u[j])
  <2>1. /\ i + 1 \in DOMAIN s /\ s[i + 1] = u[i] /\ 1 \in 1 .. (i + 1) - 1
        /\ \A j \in 1 .. i - 1 : j + 1 \in 1 .. (i + 1) - 1 /\ u[j] = s[j + 1]
    BY <1>1
  <2> QED
    BY <1>1, <1>2, <2>1 DEF Stuck
<1>3. Stuck(u, e, a, n)
  BY <1>1, <1>2 DEF Stuck
<1>4. IsChange(Head(s)) => \A b : Stuck(u, e, b, n)
  BY <1>1, <1>2 DEF Stuck
<1>5. IsChange(Head(s)) /\ Head(s).change.edit = e => Head(s).change.expected \in 0 .. n \ {a}
  BY <1>1 DEF Stuck
<1> QED
  BY <1>3, <1>4, <1>5

(* The app answers a change.                                               *)
LEMMA CourseAppTakes ==
    ASSUME NEW s, NEW t, NEW a, NEW x, NEW n, NEW d, NEW q, CourseArgs(s, t, a, x, n, d),
           Course(s, t, a, x, n, d, q), s # << >>, NEW m, m = Head(s), IsChange(m),
           NEW applies \in BOOLEAN, applies <=> Applies(m.change, a),
           ~(applies /\ Blind(m.change, a)),
           NEW b, b = IF applies THEN m.change.to ELSE a,
           NEW r, r = IF applies THEN d \ {m.change.edit} ELSE d,
           NEW w, ~IsChange(w)
    PROVE  Course(Tail(s), Append(t, w), b, x, n, r, q)
<1> USE DEF CourseArgs
<1>1. PICK u, o : u = Tail(s) /\ o = Append(t, w)
  OBVIOUS
<1>2. NoChange(s) <=> NoChange(u) /\ ~IsChange(Head(s))
  BY <1>1, Tailing
<1>3. NoChange(o) <=> NoChange(t)
  BY <1>1, Appending
<1>4. CASE ExtAhead(s, t, a, x, n, d)
  <2>1. NoChange(t) /\ Trail(s, 0, a, x, n, TRUE) /\ Owing(s, d)
    BY <1>4 DEF ExtAhead
  <2>2. /\ m.change.expected = a /\ (m.change.to = Missing => a # Missing)
        /\ Trail(u, 0, m.change.to, x, n, TRUE)
    BY <1>1, <2>1, TrailTakes
  <2>3. applies
    BY <2>2 DEF Applies
  <2>4. Owing(u, d \ {m.change.edit})
    BY <1>1, <2>1, OwingBehind
  <2>5. ExtAhead(u, o, b, x, n, r)
    BY <1>3, <2>1, <2>2, <2>3, <2>4 DEF ExtAhead
  <2> QED
    BY <1>1, <2>5 DEF Course
<1>5. CASE AppAhead(s, t, a, x, n, q)
  BY <1>2, <1>5 DEF AppAhead
<1>6. CASE Refused(s, a, n, d)
  <2>1. PICK e \in d : Stuck(s, e, a, n)
    BY <1>6 DEF Refused
  <2>2. Stuck(u, e, b, n) /\ (m.change.edit = e => m.change.expected \in 0 .. n \ {a})
    BY <1>1, <2>1, StuckBehind
  <2>3. e \in r
    <3>1. CASE ~applies
      BY <2>1, <3>1
    <3>2. CASE applies
      <4>1. Missing \notin 0 .. n
        BY KnownIs
      <4>2. m.change.edit # e
        BY <2>2, <3>2, <4>1 DEF Applies, Blind
      <4> QED
        BY <2>1, <3>2, <4>2
    <3> QED
      BY <3>1, <3>2
  <2> QED
    BY <1>1, <2>2, <2>3 DEF Refused, Course
<1> QED
  BY <1>4, <1>5, <1>6 DEF Course

(* The app answers another request, or nothing is taken from its side.     *)
LEMMA CourseSkips ==
    ASSUME NEW s, NEW t, NEW a, NEW x, NEW n, NEW d, NEW q, CourseArgs(s, t, a, x, n, d),
           Course(s, t, a, x, n, d, q)
    PROVE  /\ s # << >> /\ ~IsChange(Head(s)) => Course(Tail(s), t, a, x, n, d, q)
           /\ t # << >> /\ ~IsChange(Head(t)) => Course(s, Tail(t), a, x, n, d, q)
           /\ \A w : ~IsChange(w) => Course(Append(s, w), t, a, x, n, d, q)
           /\ \A w : ~IsChange(w) => Course(s, Append(t, w), a, x, n, d, q)
<1> USE DEF CourseArgs
<1>1. ASSUME s # << >>, ~IsChange(Head(s))
      PROVE  Course(Tail(s), t, a, x, n, d, q)
  <2>1. PICK u : u = Tail(s)
    OBVIOUS
  <2>2. NoChange(s) <=> NoChange(u)
    BY <1>1, <2>1, Tailing
  <2>3. \A y : Trail(s, 0, a, y, n, TRUE) => Trail(u, 0, a, y, n, TRUE)
    BY <1>1, <2>1, TrailTakes
  <2>4. Owing(s, d) => Owing(u, d)
    BY <1>1, <2>1, OwingBehind
  <2>5. \A e : Stuck(s, e, a, n) => Stuck(u, e, a, n)
    BY <1>1, <2>1, StuckBehind
  <2> QED
    BY <2>1, <2>2, <2>3, <2>4, <2>5 DEF Course, ExtAhead, AppAhead, Refused
<1>2. ASSUME t # << >>, ~IsChange(Head(t))
      PROVE  Course(s, Tail(t), a, x, n, d, q)
  <2>1. PICK u : u = Tail(t)
    OBVIOUS
  <2>2. NoChange(t) <=> NoChange(u)
    BY <1>2, <2>1, Tailing
  <2>3. Trail(t, 0, x, a, n, FALSE) => Trail(u, 0, x, a, n, FALSE)
    BY <1>2, <2>1, TrailTakes
  <2>4. Newer(t, 0, q) => Newer(u, 0, q)
    <3>1. Len(u) \in Nat /\ Len(t) = Len(u) + 1 /\ \A i \in 1 .. Len(u) : u[i] = t[i + 1]
      BY <1>2, <2>1, Tailing
    <3> QED
      BY <3>1 DEF Newer
  <2> QED
    BY <2>1, <2>2, <2>3, <2>4 DEF Course, ExtAhead, AppAhead
<1>3. ASSUME NEW w, ~IsChange(w)
      PROVE  Course(Append(s, w), t, a, x, n, d, q)
  <2>1. PICK u : u = Append(s, w)
    OBVIOUS
  <2>2. /\ Len(s) \in Nat /\ DOMAIN s = 1 .. Len(s) /\ DOMAIN u = 1 .. Len(s) + 1
        /\ u[Len(s) + 1] = w /\ \A i \in 1 .. Len(s) : u[i] = s[i]
    BY <2>1, Appending
  <2>7. NoChange(u) <=> NoChange(s) /\ ~IsChange(w)
    BY <2>1, Appending
  <2>3. \A i \in 1 .. Len(s) + 1 : IsChange(u[i]) => i \in 1 .. Len(s) /\ u[i] = s[i]
    BY <1>3, <2>2
  <2>4. Trail(s, 0, a, x, n, TRUE) => Trail(u, 0, a, x, n, TRUE)
    <3>1. Follower(w, x, x, n, TRUE) /\ n <= n /\ 0 \in 0 .. Len(s)
      BY <1>3, <2>2 DEF Follower
    <3> QED
      BY <2>1, <3>1, TrailAdds
  <2>5. Owing(s, d) => Owing(u, d)
    BY <2>2, <2>3 DEF Owing
  <2>6. \A e : Stuck(s, e, a, n) => Stuck(u, e, a, n)
    <3> SUFFICES ASSUME NEW e, Stuck(s, e, a, n), NEW i \in 1 .. Len(s) + 1,
                        IsChange(u[i]), u[i].change.edit = e
                 PROVE  u[i].change.expected \in 0 .. n \ {a} /\ \A j \in 1 .. i - 1 : ~IsChange(u[j])
      BY <2>2 DEF Stuck
    <3>1. i \in 1 .. Len(s) /\ u[i] = s[i] /\ \A j \in 1 .. i - 1 : j \in 1 .. Len(s)
      BY <2>2, <2>3
    <3> QED
      BY <2>2, <3>1 DEF Stuck
  <2> QED
    BY <1>3, <2>1, <2>2, <2>4, <2>5, <2>6, <2>7 DEF Course, ExtAhead, AppAhead, Refused
<1>4. ASSUME NEW w, ~IsChange(w)
      PROVE  Course(s, Append(t, w), a, x, n, d, q)
  <2>1. PICK u : u = Append(t, w)
    OBVIOUS
  <2>2. /\ Len(t) \in Nat /\ Len(u) = Len(t) + 1
        /\ u[Len(t) + 1] = w /\ \A i \in 1 .. Len(t) : u[i] = t[i]
    BY <2>1, Appending
  <2>7. NoChange(u) <=> NoChange(t) /\ ~IsChange(w)
    BY <2>1, Appending
  <2>3. \A i \in 0 + 1 .. Len(t) + 1 : IsChange(u[i]) => i \in 0 + 1 .. Len(t) /\ u[i] = t[i]
    BY <1>4, <2>2
  <2>4. Trail(t, 0, x, a, n, FALSE) => Trail(u, 0, x, a, n, FALSE)
    <3>1. Follower(w, a, a, n, FALSE) /\ n <= n /\ 0 \in 0 .. Len(t)
      BY <1>4, <2>2 DEF Follower
    <3> QED
      BY <2>1, <3>1, TrailAdds
  <2>5. Newer(t, 0, q) => Newer(u, 0, q)
    BY <2>2, <2>3 DEF Newer
  <2> QED
    BY <1>4, <2>1, <2>2, <2>4, <2>5, <2>7 DEF Course, ExtAhead, AppAhead
<1> QED
  BY <1>1, <1>2, <1>3, <1>4

(* The extension takes a change of the app.                                *)
LEMMA CourseExtTakes ==
    ASSUME NEW s, NEW t, NEW a, NEW x, NEW n, NEW d, NEW q, CourseArgs(s, t, a, x, n, d),
           Course(s, t, a, x, n, d, q), t # << >>, NEW m, m = Head(t), IsChange(m)
    PROVE  Course(s, Tail(t), a, IF m.seq > q /\ Applies(m.change, x) THEN m.change.to ELSE x, n, d, q)
<1> USE DEF CourseArgs
<1>1. PICK u : u = Tail(t)
  OBVIOUS
<1>2. NoChange(t) <=> NoChange(u) /\ ~IsChange(m)
  BY <1>1, Tailing
<1>3. CASE AppAhead(s, t, a, x, n, q)
  <2>1. NoChange(s) /\ Trail(t, 0, x, a, n, FALSE) /\ Newer(t, 0, q)
    BY <1>3 DEF AppAhead
  <2>2. /\ m.change.expected \in {x, Missing} /\ (m.change.to = Missing => x # Missing)
        /\ Trail(u, 0, m.change.to, a, n, FALSE)
    BY <1>1, <2>1, TrailTakes
  <2>3. Len(u) \in Nat /\ Len(t) = Len(u) + 1 /\ t[1] = m /\ \A i \in 1 .. Len(u) : u[i] = t[i + 1]
    BY <1>1, Tailing
  <2>4. 1 \in 0 + 1 .. Len(t) /\ \A i \in 0 + 1 .. Len(u) : i + 1 \in 0 + 1 .. Len(t) /\ i \in 1 .. Len(u)
    BY <2>3
  <2>5. m.seq > q /\ Newer(u, 0, q)
    BY <2>1, <2>3, <2>4 DEF Newer
  <2>6. Applies(m.change, x)
    BY <2>2 DEF Applies
  <2>7. AppAhead(s, u, a, m.change.to, n, q)
    BY <2>1, <2>2, <2>5 DEF AppAhead
  <2> QED
    BY <1>1, <2>5, <2>6, <2>7 DEF Course
<1>4. CASE ExtAhead(s, t, a, x, n, d)
  BY <1>2, <1>4 DEF ExtAhead
<1>5. CASE Refused(s, a, n, d)
  BY <1>5 DEF Course
<1> QED
  BY <1>3, <1>4, <1>5 DEF Course

-----------------------------------------------------------------------------
(* Requests for a tree behind which no change has been sent, and their     *)
(* answers.                                                                *)

NoneFrom(s, p) == \A j \in p .. Len(s) : ~IsChange(s[j])

SyncsLast(s, q, ids) ==
    \A p \in DOMAIN s : s[p].type = "sync" /\ s[p].id \in ids => NoneFrom(s, p) /\ NoChange(q)

Unwelcomed(t, p) == \A j \in p .. Len(t) : t[j].type # "welcome"

(* What follows the tree on its way makes of it the file y of the app.     *)
TreeLeads(t, p, y, n, l) ==
    /\ Trail(t, p, t[p].content, y, n, FALSE)
    /\ Newer(t, p, t[p].seq) /\ t[p].seq <= l

TreesLead(t, s, q, ids, ok, y, n, l) ==
    \A p \in DOMAIN t : t[p].type = "tree" /\ t[p].id \in ids =>
        /\ NoChange(s) /\ NoChange(q)
        /\ ok /\ Unwelcomed(t, p) => TreeLeads(t, p, y, n, l)

LEMMA EmptyStill == NoChange(<< >>) /\ \A q, ids : SyncsLast(<< >>, q, ids)
BY DEF NoChange, SyncsLast

LEMMA SyncsBehind ==
    ASSUME NEW S, NEW s \in Seq(S), s # << >>, NEW q, NEW ids, SyncsLast(s, q, ids), NEW u, u = Tail(s)
    PROVE  /\ SyncsLast(u, q, ids)
           /\ Head(s).type = "sync" /\ Head(s).id \in ids => NoChange(u) /\ NoChange(q)
<1>1. /\ Len(u) \in Nat /\ Len(s) = Len(u) + 1 /\ DOMAIN s = 1 .. Len(u) + 1 /\ DOMAIN u = 1 .. Len(u)
      /\ Head(s) = s[1] /\ \A i \in 1 .. Len(u) : u[i] = s[i + 1]
  BY Tailing
<1>2. \A p \in 1 .. Len(u) : NoneFrom(s, p + 1) => NoneFrom(u, p)
  BY <1>1 DEF NoneFrom
<1>3. \A p \in 1 .. Len(u) : p + 1 \in 1 .. Len(u) + 1
  BY <1>1
<1>4. SyncsLast(u, q, ids)
  BY <1>1, <1>2, <1>3 DEF SyncsLast
<1>5. NoneFrom(s, 1) => NoChange(u)
  BY <1>1 DEF NoneFrom, NoChange
<1>6. 1 \in DOMAIN s
  BY <1>1
<1> QED
  BY <1>1, <1>4, <1>5, <1>6 DEF SyncsLast

LEMMA SyncsAdded ==
    ASSUME NEW S, NEW s \in Seq(S), NEW q, NEW ids, SyncsLast(s, q, ids), NoChange(q),
           NEW m, m.type = "sync", NEW more, more \subseteq ids \cup {m.id},
           \A p \in DOMAIN s : s[p].id # m.id
    PROVE  SyncsLast(Append(s, m), q, more)
<1>1. PICK u : u = Append(s, m)
  OBVIOUS
<1>2. /\ Len(s) \in Nat /\ Len(u) = Len(s) + 1 /\ DOMAIN s = 1 .. Len(s) /\ DOMAIN u = 1 .. Len(s) + 1
      /\ u[Len(s) + 1] = m /\ \A i \in 1 .. Len(s) : u[i] = s[i]
  BY <1>1, Appending
<1>3. ~IsChange(m)
  BY DEF IsChange
<1>4. \A j \in 1 .. Len(s) + 1 : j = Len(s) + 1 \/ j \in 1 .. Len(s)
  BY <1>2
<1>5. ASSUME NEW p \in 1 .. Len(s), NoneFrom(s, p)
      PROVE  NoneFrom(u, p)
  BY <1>2, <1>3, <1>5 DEF NoneFrom
<1>6. NoneFrom(u, Len(s) + 1)
  BY <1>2, <1>3 DEF NoneFrom
<1>7. ASSUME NEW p \in 1 .. Len(s) + 1, u[p].type = "sync", u[p].id \in more
      PROVE  NoneFrom(u, p)
  <2>1. CASE p = Len(s) + 1
    BY <1>6, <2>1
  <2>2. CASE p # Len(s) + 1
    <3>1. p \in 1 .. Len(s) /\ u[p] = s[p]
      BY <1>2, <2>2
    <3>2. s[p].id \in ids
      BY <1>2, <1>7, <3>1
    <3> QED
      BY <1>2, <1>5, <1>7, <3>1, <3>2 DEF SyncsLast
  <2> QED
    BY <2>1, <2>2
<1> QED
  BY <1>1, <1>2, <1>7 DEF SyncsLast

LEMMA SyncsJoined ==
    ASSUME NEW S, NEW s \in Seq(S), NEW q \in Seq(S), NEW ids,
           SyncsLast(s, q, ids), SyncsLast(q, << >>, ids)
    PROVE  SyncsLast(s \o q, << >>, ids)
<1>1. PICK u : u = s \o q
  OBVIOUS
<1>2. PICK k, l : k = Len(s) /\ l = Len(q)
  OBVIOUS
<1>3. /\ k \in Nat /\ l \in Nat /\ DOMAIN s = 1 .. k /\ DOMAIN q = 1 .. l /\ DOMAIN u = 1 .. k + l
      /\ Len(u) = k + l
      /\ \A i \in 1 .. k : u[i] = s[i]
      /\ \A i \in k + 1 .. k + l : u[i] = q[i - k]
  BY <1>1, <1>2
<1>4. ASSUME NEW p \in 1 .. k, NoneFrom(s, p), NoChange(q)
      PROVE  NoneFrom(u, p)
  <2> SUFFICES ASSUME NEW j \in p .. k + l
               PROVE  ~IsChange(u[j])
    BY <1>3 DEF NoneFrom
  <2>1. CASE j <= k
    BY <1>2, <1>3, <1>4, <2>1 DEF NoneFrom
  <2>2. CASE ~(j <= k)
    <3>1. j \in k + 1 .. k + l /\ j - k \in 1 .. l
      BY <1>3, <2>2
    <3> QED
      BY <1>3, <1>4, <3>1 DEF NoChange
  <2> QED
    BY <2>1, <2>2
<1>5. ASSUME NEW p \in k + 1 .. k + l, NoneFrom(q, p - k)
      PROVE  NoneFrom(u, p)
  <2> SUFFICES ASSUME NEW j \in p .. k + l
               PROVE  ~IsChange(u[j])
    BY <1>3 DEF NoneFrom
  <2>1. j \in k + 1 .. k + l /\ j - k \in p - k .. l
    BY <1>3
  <2> QED
    BY <1>2, <1>3, <1>5, <2>1 DEF NoneFrom
<1>6. ASSUME NEW p \in 1 .. k + l, u[p].type = "sync", u[p].id \in ids
      PROVE  NoneFrom(u, p)
  <2>1. CASE p \in 1 .. k
    BY <1>3, <1>4, <1>6, <2>1 DEF SyncsLast
  <2>2. CASE p \notin 1 .. k
    <3>1. p \in k + 1 .. k + l /\ p - k \in 1 .. l
      BY <1>3, <2>2
    <3> QED
      BY <1>3, <1>5, <1>6, <3>1 DEF SyncsLast
  <2> QED
    BY <2>1, <2>2
<1> QED
  BY <1>1, <1>3, <1>6, EmptyStill DEF SyncsLast

LEMMA TreeShifts ==
    ASSUME NEW S, NEW t \in Seq(S), t # << >>, NEW u, u = Tail(t), NEW p \in DOMAIN u, NEW n \in Nat
    PROVE  /\ p + 1 \in DOMAIN t /\ t[p + 1] = u[p]
           /\ Unwelcomed(u, p) => Unwelcomed(t, p + 1)
           /\ \A y, l : TreeLeads(t, p + 1, y, n, l) => TreeLeads(u, p, y, n, l)
<1>1. /\ Len(u) \in Nat /\ Len(t) = Len(u) + 1 /\ DOMAIN t = 1 .. Len(u) + 1 /\ DOMAIN u = 1 .. Len(u)
      /\ \A i \in 1 .. Len(u) : u[i] = t[i + 1]
  BY Tailing
<1>2. p + 1 \in DOMAIN t /\ t[p + 1] = u[p] /\ p + 1 \in 1 .. Len(t) /\ (p + 1) - 1 = p
  BY <1>1
<1>3. Unwelcomed(u, p) => Unwelcomed(t, p + 1)
  <2>1. \A j \in p + 1 .. Len(t) : j - 1 \in p .. Len(u) /\ t[j] = u[j - 1]
    BY <1>1
  <2> QED
    BY <2>1 DEF Unwelcomed
<1>4. ASSUME NEW y, NEW l, TreeLeads(t, p + 1, y, n, l)
      PROVE  TreeLeads(u, p, y, n, l)
  <2>1. Trail(t, p + 1, u[p].content, y, n, FALSE) /\ Newer(t, p + 1, u[p].seq) /\ u[p].seq <= l
    BY <1>2, <1>4 DEF TreeLeads
  <2>2. Trail(u, p, u[p].content, y, n, FALSE)
    BY <1>2, <2>1, TrailPasses
  <2>3. \A i \in p + 1 .. Len(u) : i + 1 \in (p + 1) + 1 .. Len(t) /\ u[i] = t[i + 1]
    BY <1>1
  <2>4. Newer(u, p, u[p].seq)
    BY <2>1, <2>3 DEF Newer
  <2> QED
    BY <2>1, <2>2, <2>4 DEF TreeLeads
<1> QED
  BY <1>2, <1>3, <1>4

(* The tree that the extension takes.                                      *)
LEMMA TreeTaken ==
    ASSUME NEW S, NEW t \in Seq(S), t # << >>, NEW y, NEW n \in Nat, NEW l, TreeLeads(t, 1, y, n, l)
    PROVE  /\ Trail(Tail(t), 0, Head(t).content, y, n, FALSE)
           /\ Newer(Tail(t), 0, Head(t).seq) /\ Head(t).seq <= l
<1>1. PICK u : u = Tail(t)
  OBVIOUS
<1>2. Len(u) \in Nat /\ Len(t) = Len(u) + 1 /\ Head(t) = t[1] /\ \A i \in 1 .. Len(u) : u[i] = t[i + 1]
  BY <1>1, Tailing
<1>3. 1 \in 1 .. Len(t) /\ 1 - 1 = 0
  BY <1>2
<1>4. Trail(u, 0, Head(t).content, y, n, FALSE)
  BY <1>1, <1>2, <1>3, TrailPasses DEF TreeLeads
<1>5. \A i \in 0 + 1 .. Len(u) : i + 1 \in 1 + 1 .. Len(t) /\ u[i] = t[i + 1]
  BY <1>2
<1>6. Newer(u, 0, Head(t).seq) /\ Head(t).seq <= l
  BY <1>2, <1>5 DEF TreeLeads, Newer
<1> QED
  BY <1>1, <1>4, <1>6

LEMMA TreesBehind ==
    ASSUME NEW S, NEW t \in Seq(S), t # << >>, NEW n \in Nat,
           NEW s, NEW q, NEW ids, NEW ok, NEW y, NEW l, TreesLead(t, s, q, ids, ok, y, n, l)
    PROVE  TreesLead(Tail(t), s, q, ids, ok, y, n, l)
<1>1. PICK u : u = Tail(t)
  OBVIOUS
<1>2. \A p \in DOMAIN u :
        /\ p + 1 \in DOMAIN t /\ t[p + 1] = u[p]
        /\ Unwelcomed(u, p) => Unwelcomed(t, p + 1)
        /\ TreeLeads(t, p + 1, y, n, l) => TreeLeads(u, p, y, n, l)
  BY <1>1, TreeShifts
<1> QED
  BY <1>1, <1>2 DEF TreesLead

(* A message that is no tree, or the tree of the app, is sent behind.      *)
LEMMA TreesAdded ==
    ASSUME NEW S, NEW t \in Seq(S), NEW n \in Nat, NEW r \in Nat, n <= r,
           NEW s, NEW q, NEW ids, NEW ok, NEW y, NEW l \in Nat, TreesLead(t, s, q, ids, ok, y, n, l),
           NEW m, NEW v \in Known(r), Follower(m, y, v, n, FALSE),
           NEW k \in Nat, l <= k, IsChange(m) => m.seq \in Nat /\ m.seq > l,
           \A p \in DOMAIN t : t[p].type = "tree" => t[p].seq \in Nat,
           m.type = "tree" /\ m.id \in ids =>
               NoChange(s) /\ NoChange(q) /\ m.content = v /\ m.seq <= k
    PROVE  TreesLead(Append(t, m), s, q, ids, ok, v, r, k)
<1>1. PICK u : u = Append(t, m)
  OBVIOUS
<1>2. PICK z \in Nat : z = Len(t)
  OBVIOUS
<1>3. /\ Len(u) = z + 1 /\ DOMAIN t = 1 .. z /\ DOMAIN u = 1 .. z + 1
      /\ u[z + 1] = m /\ \A i \in 1 .. z : u[i] = t[i]
  BY <1>1, <1>2, Appending
<1>4. ASSUME NEW p \in 1 .. z, t[p].type = "tree", TreeLeads(t, p, y, n, l)
      PROVE  TreeLeads(u, p, v, r, k)
  <2>1. Trail(t, p, t[p].content, y, n, FALSE) /\ Newer(t, p, t[p].seq) /\ t[p].seq <= l
    BY <1>4 DEF TreeLeads
  <2>2. p \in 0 .. Len(t) /\ t[p].seq \in Nat
    BY <1>2, <1>3, <1>4
  <2>3. Trail(u, p, t[p].content, v, r, FALSE)
    BY <1>1, <2>1, <2>2, TrailAdds
  <2>4. \A i \in p + 1 .. z + 1 : i = z + 1 \/ (i \in p + 1 .. z /\ i \in 1 .. z)
    BY <1>2
  <2>5. Newer(u, p, t[p].seq)
    BY <1>2, <1>3, <2>1, <2>2, <2>4 DEF Newer
  <2>6. u[p] = t[p] /\ t[p].seq <= k
    BY <1>3, <2>1, <2>2
  <2> QED
    BY <2>3, <2>5, <2>6 DEF TreeLeads
<1>5. ASSUME m.type = "tree", m.content = v, m.seq <= k
      PROVE  TreeLeads(u, z + 1, v, r, k)
  <2>1. u \in Seq(S \cup {m}) /\ Len(u) = z + 1
    BY <1>1, <1>3
  <2>2. Trail(u, Len(u), v, v, r, FALSE)
    BY <2>1, TrailHere
  <2>3. Newer(u, z + 1, m.seq)
    BY <1>2, <1>3 DEF Newer
  <2>4. u[z + 1].content = v /\ u[z + 1].seq = m.seq
    BY <1>3, <1>5
  <2>5. Trail(u, z + 1, u[z + 1].content, v, r, FALSE)
    BY <2>1, <2>2, <2>4
  <2> QED
    BY <1>5, <2>3, <2>4, <2>5 DEF TreeLeads
<1>6. \A p \in 1 .. z : Unwelcomed(u, p) => Unwelcomed(t, p)
  BY <1>2, <1>3 DEF Unwelcomed
<1>7. ASSUME NEW p \in 1 .. z + 1, u[p].type = "tree", u[p].id \in ids
      PROVE  /\ NoChange(s) /\ NoChange(q)
             /\ ok /\ Unwelcomed(u, p) => TreeLeads(u, p, v, r, k)
  <2>1. CASE p = z + 1
    BY <1>3, <1>5, <1>7, <2>1
  <2>2. CASE p # z + 1
    <3>1. p \in 1 .. z /\ u[p] = t[p]
      BY <1>3, <2>2
    <3> QED
      BY <1>3, <1>4, <1>6, <1>7, <3>1 DEF TreesLead
  <2> QED
    BY <2>1, <2>2
<1> QED
  BY <1>1, <1>3, <1>7 DEF TreesLead

(* No tree is sent behind, and the sides are apart or will be welcomed.    *)
LEMMA TreesApart ==
    ASSUME NEW S, NEW t \in Seq(S), NEW w \in Seq(S), NEW n,
           NEW s, NEW q, NEW ids, NEW ok, NEW y, NEW l, TreesLead(t, s, q, ids, ok, y, n, l),
           NEW z, NEW v, NEW r, NEW k, \A m \in ToSet(w) : m.type # "tree",
           z => \E m \in ToSet(w) : m.type = "welcome"
    PROVE  TreesLead(t \o w, s, q, ids, z, v, r, k)
<1>1. PICK u : u = t \o w
  OBVIOUS
<1>2. PICK j \in Nat, g \in Nat : j = Len(t) /\ g = Len(w)
  OBVIOUS
<1>3. /\ DOMAIN t = 1 .. j /\ DOMAIN w = 1 .. g /\ DOMAIN u = 1 .. j + g /\ Len(u) = j + g
      /\ \A i \in 1 .. j : u[i] = t[i]
      /\ \A i \in 1 .. g : u[j + i] = w[i]
  BY <1>1, <1>2
<1>4. \A p \in 1 .. j + g : p \notin 1 .. j => p - j \in 1 .. g /\ u[p] = w[p - j]
  BY <1>2, <1>3
<1>5. \A p \in 1 .. j + g : u[p].type = "tree" => p \in 1 .. j
  BY <1>3, <1>4 DEF ToSet
<1>6. ASSUME z, NEW p \in 1 .. j
      PROVE  ~Unwelcomed(u, p)
  <2>1. PICK i \in 1 .. g : w[i].type = "welcome"
    BY <1>3, <1>6 DEF ToSet
  <2>2. j + i \in p .. Len(u) /\ u[j + i].type = "welcome"
    BY <1>3, <2>1
  <2> QED
    BY <2>2 DEF Unwelcomed
<1> QED
  BY <1>1, <1>3, <1>5, <1>6 DEF TreesLead

-----------------------------------------------------------------------------
(* The invariant of the trees.  When the file of either side is kept in    *)
(* step, by a connection that has not been lost since, Course says what is *)
(* still to come to it.  That holds anew from the tree that answers a      *)
(* request behind which no change was sent: what follows the tree on its   *)
(* way makes of it the file the app has now.                               *)

CleanIn(qs) == {a.id : a \in {b \in ToSet(qs) : ~ForChange(b) /\ b.clean}}

(* Both sides are connected.                                               *)
Together == \A side \in Side : link[side] = "open" /\ side \in bound

(* And the extension is not to be welcomed anew.                           *)
Intact == Together /\ Unwelcomed(toExt, 1)

(* No more was sent than the first n edits made.                           *)
SentBy(m, n) == (IsChange(m) => m.change.edit <= n) /\ (m.type = "tree" => m.content \in Known(n))

Sent == \A m \in ToSet(toApp) \cup ToSet(toExt) \cup ToSet(appQueue) \cup ToSet(extQueue) : SentBy(m, edits)

KnownTrees == tree["app"] \in Known(edits) /\ tree["ext"] \in Known(edits)

Flushed == link["ext"] = "open" => extQueue = << >>

Pulls ==
    /\ SyncsLast(toApp, extQueue, CleanIn(asks))
    /\ SyncsLast(extQueue, << >>, CleanIn(asks))
    /\ TreesLead(toExt, toApp, extQueue, CleanIn(asks), Together, tree["app"], edits, appSeq)

Mending ==
    synced /\ Intact /\ pending = << >> =>
        /\ peerSeq <= appSeq
        /\ Course(toApp, toExt, tree["app"], tree["ext"], edits, owed, peerSeq)

TreeInv == Sent /\ KnownTrees /\ Flushed /\ Pulls /\ Mending

LEMMA NarrowSyncs ==
    ASSUME NEW s, NEW q, NEW ids, NEW less, less \subseteq ids, SyncsLast(s, q, ids)
    PROVE  SyncsLast(s, q, less) /\ SyncsLast(s, << >>, less)
BY EmptyStill DEF SyncsLast

LEMMA NarrowTrees ==
    ASSUME NEW t, NEW s, NEW q, NEW ids, NEW less, less \subseteq ids, NEW ok, NEW y, NEW n, NEW l,
           TreesLead(t, s, q, ids, ok, y, n, l)
    PROVE  /\ TreesLead(t, s, q, less, ok, y, n, l)
           /\ \A u, w : u \in {s, << >>} /\ w \in {q, << >>} => TreesLead(t, u, w, less, ok, y, n, l)
BY EmptyStill DEF TreesLead

LEMMA NothingClean ==
    ASSUME CleanIn(asks') = {}, Sent', KnownTrees', Flushed', ~synced'
    PROVE  TreeInv'
BY DEF TreeInv, Pulls, SyncsLast, TreesLead, Mending

(* The sides are apart after the step, or the extension is welcomed.       *)
LEMMA ApartKeeps ==
    ASSUME FileInv, TreeInv, CleanIn(asks') \subseteq CleanIn(asks),
           toApp' \in {toApp, << >>}, extQueue' \in {extQueue, << >>},
           NEW w \in Seq(ToExt), toExt' = toExt \o w \/ (toExt' = << >> /\ ~Together'),
           \A m \in ToSet(w) : m.type # "tree" /\ (IsChange(m) => m \in ToSet(appQueue)),
           Together' => \E m \in ToSet(w) : m.type = "welcome",
           ToSet(appQueue') \subseteq ToSet(appQueue),
           tree'["app"] = tree["app"], tree'["ext"] \in {tree["ext"], Missing}, edits' = edits,
           link'["ext"] = "open" => extQueue' = << >>
    PROVE  TreeInv'
<1>1. /\ toApp \in Seq(ToApp) /\ toExt \in Seq(ToExt) /\ extQueue \in Seq(ToApp) /\ edits \in Nat
  BY Typed, Bounds DEF FileInv, TypeOK
<1>2. toExt \o w \in Seq(ToExt) /\ ToSet(toExt \o w) = ToSet(toExt) \cup ToSet(w)
  BY <1>1, Joined
<1>3. Sent'
  <2> SUFFICES ASSUME NEW m \in ToSet(toApp') \cup ToSet(toExt') \cup ToSet(appQueue') \cup ToSet(extQueue')
               PROVE  SentBy(m, edits)
    BY DEF Sent
  <2>1. m \in ToSet(toApp) \cup ToSet(toExt) \cup ToSet(appQueue) \cup ToSet(extQueue) \cup ToSet(w)
    BY <1>2, Empty
  <2>2. m \in ToSet(w) => (m.type # "tree" /\ (IsChange(m) => m \in ToSet(appQueue)))
    OBVIOUS
  <2>3. \A x \in ToSet(toApp) \cup ToSet(toExt) \cup ToSet(appQueue) \cup ToSet(extQueue) : SentBy(x, edits)
    BY DEF TreeInv, Sent
  <2> QED
    BY <2>1, <2>2, <2>3 DEF SentBy
<1>4. KnownTrees'
  <2>1. Missing \in Known(edits)
    BY <1>1, KnownIs
  <2> QED
    BY <2>1 DEF TreeInv, KnownTrees
<1>5. Flushed'
  BY DEF Flushed
<1>6. Pulls'
  <2>1. SyncsLast(toApp', extQueue', CleanIn(asks'))
    BY NarrowSyncs, EmptyStill DEF TreeInv, Pulls
  <2>2. SyncsLast(extQueue', << >>, CleanIn(asks'))
    BY NarrowSyncs, EmptyStill DEF TreeInv, Pulls
  <2>3. TreesLead(toExt', toApp', extQueue', CleanIn(asks'), Together', tree'["app"], edits', appSeq')
    <3>1. CASE toExt' = << >>
      BY <3>1 DEF TreesLead
    <3>2. CASE toExt' = toExt \o w
      <4>1. TreesLead(toExt, toApp', extQueue', CleanIn(asks'), Together, tree["app"], edits, appSeq)
        BY NarrowTrees DEF TreeInv, Pulls
      <4>2. PICK ok : ok = Together'
        OBVIOUS
      <4>3. \A m \in ToSet(w) : m.type # "tree"
        OBVIOUS
      <4>4. ok => \E m \in ToSet(w) : m.type = "welcome"
        BY <4>2
      <4>5. TreesLead(toExt \o w, toApp', extQueue', CleanIn(asks'), ok, tree'["app"], edits', appSeq')
        BY <1>1, <4>1, <4>3, <4>4, TreesApart
      <4> QED
        BY <3>2, <4>2, <4>5
    <3> QED
      BY <3>1, <3>2
  <2> QED
    BY <2>1, <2>2, <2>3 DEF Pulls
<1>7. ~Intact'
  <2> SUFFICES ASSUME Together'
               PROVE  \E i \in 1 .. Len(toExt') : toExt'[i].type = "welcome"
    BY DEF Intact, Unwelcomed
  <2>1. PICK m \in ToSet(w) : m.type = "welcome"
    OBVIOUS
  <2>2. m \in ToSet(toExt')
    BY <1>2
  <2>3. toExt' \in Seq(ToExt)
    BY <1>2
  <2> QED
    BY <2>1, <2>2, <2>3 DEF ToSet
<1> QED
  BY <1>3, <1>4, <1>5, <1>6, <1>7 DEF TreeInv, Mending

LEMMA Stay == \A s : s \in Seq(ToExt) => s \o << >> = s
BY ConcatEmptySeq

LEMMA LoseMends == ASSUME FileInv, TreeInv, NEW side \in Side, Lose(side) PROVE TreeInv'
<1>1. /\ toApp' \in {toApp, << >>}
      /\ toExt' = toExt \/ toExt' = << >>
      /\ link[side] = "open" /\ link' = [link EXCEPT ![side] = "dead"]
      /\ UNCHANGED <<tree, bound, appQueue, extQueue, appSeq, extension, edits, owed, synced>>
  BY DEF Lose
<1>2. ~Together'
  BY <1>1, Typed DEF FileInv, Together
<1>3. toExt' = toExt \o << >> \/ (toExt' = << >> /\ ~Together')
  BY <1>1, <1>2, Typed, Stay DEF FileInv
<1>4. link'["ext"] = "open" => link["ext"] = "open"
  BY <1>1, Typed DEF FileInv, Side
<1>5. asks' = asks
  BY <1>1 DEF extension
<1> QED
  BY <1>1, <1>2, <1>3, <1>4, <1>5, Empty, ApartKeeps DEF TreeInv, Flushed

LEMMA NoticeMends == ASSUME FileInv, TreeInv, NEW side \in Side, Notice(side) PROVE TreeInv'
<1>1. /\ link[side] = "dead" /\ link' = [link EXCEPT ![side] = "down"]
      /\ UNCHANGED <<tree, exchange, asks, history>>
  BY DEF Notice
<1>2. ~Together'
  BY <1>1, Typed DEF FileInv, Together
<1>3. toExt' = toExt \o << >>
  BY <1>1, Typed, Stay DEF FileInv, exchange
<1>4. link'["ext"] = "open" => link["ext"] = "open"
  BY <1>1, Typed DEF FileInv, Side
<1> QED
  BY <1>1, <1>2, <1>3, <1>4, Empty, ApartKeeps DEF TreeInv, Flushed, exchange, history

LEMMA BridgeNoticesMends == ASSUME FileInv, TreeInv, NEW side \in Side, BridgeNotices(side) PROVE TreeInv'
<1>1. PICK away : away = [type |-> "away"]
  OBVIOUS
<1>2. away \in ToExt /\ away.type = "away"
  BY <1>1, Built
<1>3. /\ toExt' \in {toExt, Append(toExt, away)} /\ link[side] # "open"
      /\ UNCHANGED <<link, tree, toApp, appQueue, extQueue, appSeq, extension, history>>
  BY <1>1 DEF BridgeNotices
<1>4. ~Together'
  BY <1>3 DEF Together
<1>5. PICK w \in {<< >>, <<away>>} : toExt' = toExt \o w
  <2>1. Append(toExt, away) = toExt \o <<away>>
    BY <1>2, Typed, AppendIsConcat DEF FileInv
  <2> QED
    BY <1>3, <2>1, Typed, Stay DEF FileInv
<1>6. w \in Seq(ToExt) /\ \A m \in ToSet(w) : m.type = "away"
  BY <1>2, <1>5, Single
<1>7. \A m \in ToSet(w) : m.type # "tree" /\ ~IsChange(m)
  BY <1>6 DEF IsChange
<1> QED
  BY <1>3, <1>4, <1>5, <1>6, <1>7, ApartKeeps DEF TreeInv, Flushed, extension, history

LEMMA AppConnectsMends == ASSUME FileInv, TreeInv, AppConnects PROVE TreeInv'
<1>1. /\ link["app"] = "down" /\ link' = [link EXCEPT !["app"] = "open"] /\ bound' = bound \cup {"app"}
      /\ AppSends(appQueue, Greeting("app"))
      /\ UNCHANGED <<tree, toApp, appSeq, extension, history>>
  BY DEF AppConnects
<1>2. PICK g : g = Greeting("app")
  OBVIOUS
<1>3. /\ g \in Seq(ToExt) /\ \A m \in ToSet(g) : m.type = "welcome"
      /\ "ext" \in bound => \E m \in ToSet(g) : m.type = "welcome"
  <2>1. g \in Seq(ToExt) /\ \A m \in ToSet(g) : m.type = "welcome"
    BY <1>2, GreetingIs
  <2>2. "ext" \in bound => g = <<[type |-> "welcome"]>>
    BY <1>2 DEF Greeting, Side
  <2>3. ToSet(<<[type |-> "welcome"]>>) = {[type |-> "welcome"]}
    BY Single
  <2> QED
    BY <2>1, <2>2, <2>3
<1>4. link'["app"] = "open" /\ link'["ext"] = link["ext"]
  BY <1>1, Typed DEF FileInv, Side
<1>5. /\ toExt' = toExt \/ (Reached("ext") /\ toExt' = toExt \o g \o appQueue)
      /\ ~Reached("ext") => toExt' = toExt
      /\ appQueue' = << >> /\ extQueue' = extQueue
      /\ Reached("ext") => toExt' = toExt \o g \o appQueue
  BY <1>1, <1>2, <1>4 DEF AppSends
<1>6. /\ toExt \in Seq(ToExt) /\ appQueue \in Seq(ToExt) /\ \A m \in ToSet(appQueue) : m.type = "change"
  BY Typed DEF FileInv, OwnQueue
<1>7. (toExt \o g) \o appQueue = toExt \o (g \o appQueue)
  BY <1>3, <1>6, ConcatAssociative
<1>8. g \o appQueue \in Seq(ToExt) /\ ToSet(g \o appQueue) = ToSet(g) \cup ToSet(appQueue)
  BY <1>3, <1>6, Joined
<1>9. PICK w : w = IF Reached("ext") THEN g \o appQueue ELSE << >>
  OBVIOUS
<1>10. toExt' = toExt \o w /\ w \in Seq(ToExt)
  BY <1>5, <1>6, <1>7, <1>8, <1>9, Empty, Stay
<1>11. \A m \in ToSet(w) : m.type # "tree" /\ (IsChange(m) => m \in ToSet(appQueue))
  BY <1>3, <1>6, <1>8, <1>9, Empty DEF IsChange
<1>12. Together' => \E m \in ToSet(w) : m.type = "welcome"
  <2> SUFFICES ASSUME Together'
               PROVE  \E m \in ToSet(w) : m.type = "welcome"
    OBVIOUS
  <2>1. Reached("ext") /\ "ext" \in bound
    BY <1>1 DEF Together, Reached, Side
  <2> QED
    BY <1>3, <1>8, <1>9, <2>1
<1>13. UNCHANGED <<asks, edits, toApp, extQueue, tree>>
  BY <1>1, <1>5 DEF extension, history
<1>14. ToSet(appQueue') \subseteq ToSet(appQueue)
  BY <1>5, Empty
<1>15. link'["ext"] = "open" => extQueue' = << >>
  BY <1>4, <1>5 DEF TreeInv, Flushed
<1> QED
  BY <1>10, <1>11, <1>12, <1>13, <1>14, <1>15, ApartKeeps

LEMMA StopsMends == ASSUME FileInv, TreeInv, AppStops PROVE TreeInv'
<1>1. /\ link' = [link EXCEPT !["app"] = "off"] /\ toApp' = << >> /\ appQueue' = << >>
      /\ UNCHANGED <<tree, toExt, extQueue, extension, edits>>
  BY DEF AppStops
<1>2. link'["app"] = "off" /\ link'["ext"] = link["ext"]
  BY <1>1, Typed DEF FileInv, Side
<1>3. ~Together'
  BY <1>2 DEF Together, Side
<1>4. toExt' = toExt \o << >>
  BY <1>1, Typed, Stay DEF FileInv
<1> QED
  BY <1>1, <1>2, <1>3, <1>4, Empty, ApartKeeps DEF TreeInv, Flushed, extension

LEMMA StartsMends == ASSUME FileInv, TreeInv, AppStarts PROVE TreeInv'
<1>1. /\ link' = [link EXCEPT !["app"] = "down"]
      /\ UNCHANGED <<tree, exchange, extension, history>>
  BY DEF AppStarts
<1>2. link'["app"] = "down" /\ link'["ext"] = link["ext"]
  BY <1>1, Typed DEF FileInv, Side
<1>3. ~Together'
  BY <1>2 DEF Together, Side
<1>4. toExt' = toExt \o << >>
  BY <1>1, Typed, Stay DEF FileInv, exchange
<1> QED
  BY <1>1, <1>2, <1>3, <1>4, Empty, ApartKeeps DEF TreeInv, Flushed, exchange, extension, history

LEMMA RestartsMends == ASSUME FileInv, TreeInv, ExtRestarts PROVE TreeInv'
<1>1. /\ tree' = [tree EXCEPT !["ext"] = Missing] /\ link' = [link EXCEPT !["ext"] = "down"]
      /\ toExt' = << >> /\ extQueue' = << >> /\ asks' = << >>
      /\ UNCHANGED <<bound, toApp, appQueue, appSeq, edits>>
  BY DEF ExtRestarts
<1>2. link'["ext"] = "down" /\ tree'["app"] = tree["app"] /\ tree'["ext"] = Missing
  BY <1>1, Typed DEF FileInv, Side
<1>3. ~Together'
  BY <1>2 DEF Together, Side
<1>4. CleanIn(asks') = {}
  BY <1>1, Empty DEF CleanIn
<1> QED
  BY <1>1, <1>2, <1>3, <1>4, Empty, ApartKeeps

LEMMA Kinds ==
    ASSUME FileInv, TreeInv
    PROVE  /\ toApp \in Seq(ToApp) /\ toExt \in Seq(ToExt) /\ appQueue \in Seq(ToExt) /\ extQueue \in Seq(ToApp)
           /\ edits \in Nat /\ appSeq \in Nat /\ peerSeq \in Nat /\ asks \in Seq(Asking)
           /\ CourseArgs(toApp, toExt, tree["app"], tree["ext"], edits, owed)
           /\ \A p \in DOMAIN toExt : toExt[p] \in ToExt
<1>1. /\ toApp \in Seq(ToApp) /\ toExt \in Seq(ToExt) /\ appQueue \in Seq(ToExt) /\ extQueue \in Seq(ToApp)
      /\ edits \in Nat /\ appSeq \in Nat /\ peerSeq \in Nat /\ asks \in Seq(Asking)
  BY Typed, Bounds DEF FileInv, TypeOK
<1>2. owed \subseteq 1 .. edits
  BY DEF FileInv, Made, EditsAccounted
<1>3. tree["app"] \in Known(edits) /\ tree["ext"] \in Known(edits)
  BY DEF TreeInv, KnownTrees
<1> QED
  BY <1>1, <1>2, <1>3 DEF CourseArgs

(* What is under way was sent before, or is sent now.                      *)
LEMMA SentKept ==
    ASSUME FileInv, TreeInv, edits' \in Nat, edits <= edits', NEW said, \A m \in said : SentBy(m, edits'),
           ToSet(toApp') \subseteq ToSet(toApp) \cup ToSet(extQueue) \cup said,
           ToSet(extQueue') \subseteq ToSet(extQueue) \cup said,
           ToSet(appQueue') \subseteq ToSet(appQueue) \cup said,
           \A m \in ToSet(toExt') :
               m \in ToSet(toExt) \cup ToSet(appQueue) \cup said \/ m.type \notin {"tree", "change"}
    PROVE  Sent'
<1> SUFFICES ASSUME NEW m \in ToSet(toApp') \cup ToSet(toExt') \cup ToSet(appQueue') \cup ToSet(extQueue')
             PROVE  SentBy(m, edits')
  BY DEF Sent
<1>1. CASE m \in said
  BY <1>1
<1>2. CASE m \in ToSet(toApp) \cup ToSet(toExt) \cup ToSet(appQueue) \cup ToSet(extQueue)
  <2>1. SentBy(m, edits)
    BY <1>2 DEF TreeInv, Sent
  <2>2. m \in ToApp \cup ToExt
    BY <1>2, Kinds DEF ToSet
  <2>3. IsChange(m) => m.change.edit \in Nat
    <3>1. \A e \in Edit : e \in Nat
      BY DEF Edit
    <3> QED
      BY <2>2, <3>1, Fields DEF IsChange
  <2>4. Known(edits) \subseteq Known(edits')
    BY Kinds DEF Known
  <2>5. IsChange(m) => m.change.edit <= edits'
    BY <2>1, <2>3, Kinds DEF SentBy
  <2> QED
    BY <2>1, <2>4, <2>5 DEF SentBy
<1>3. CASE m.type \notin {"tree", "change"}
  BY <1>3 DEF SentBy, IsChange
<1> QED
  BY <1>1, <1>2, <1>3

LEMMA NoneSent ==
    ASSUME FileInv, TreeInv, edits' \in Nat, edits <= edits', ToSet(toApp') \subseteq ToSet(toApp),
           UNCHANGED <<appQueue, extQueue>>, ToSet(toExt') \subseteq ToSet(toExt)
    PROVE  Sent'
<1>1. PICK said : said = {}
  OBVIOUS
<1>2. \A m \in said : SentBy(m, edits')
  BY <1>1
<1> QED
  BY <1>2, SentKept

LEMMA WelcomeBehind ==
    ASSUME NEW S, NEW s \in Seq(S), s # << >>, Head(s).type # "welcome", Unwelcomed(Tail(s), 1)
    PROVE  Unwelcomed(s, 1)
<1>1. PICK u : u = Tail(s)
  OBVIOUS
<1>2. Len(u) \in Nat /\ Len(s) = Len(u) + 1 /\ Head(s) = s[1] /\ \A i \in 1 .. Len(u) : u[i] = s[i + 1]
  BY <1>1, Tailing
<1>3. \A j \in 1 .. Len(s) : j = 1 \/ (j - 1 \in 1 .. Len(u) /\ s[j] = u[j - 1])
  BY <1>2
<1> QED
  BY <1>1, <1>2, <1>3 DEF Unwelcomed

(* A message that is neither a change nor a welcome is taken from the      *)
(* extension's side.                                                       *)
LEMMA TakenMends ==
    ASSUME FileInv, TreeInv, toExt # << >>, toExt' = Tail(toExt), Head(toExt).type \notin {"change", "welcome"},
           UNCHANGED <<tree, link, bound, toApp, appQueue, extQueue, appSeq, peerSeq, asks, pending,
                       edits, owed, synced>>
    PROVE  TreeInv'
<1>1. ToSet(toExt') \subseteq ToSet(toExt)
  BY Kinds, Behind
<1>2. Sent'
  <2>1. edits' \in Nat /\ edits <= edits'
    BY Kinds
  <2> QED
    BY <1>1, <2>1, NoneSent
<1>3. KnownTrees' /\ Flushed'
  BY DEF TreeInv, KnownTrees, Flushed
<1>4. PICK t : t = Tail(toExt)
  OBVIOUS
<1>5. TreesLead(t, toApp, extQueue, CleanIn(asks), Together, tree["app"], edits, appSeq)
  BY <1>4, Kinds, TreesBehind DEF TreeInv, Pulls
<1>6. (Together' <=> Together) /\ CleanIn(asks') = CleanIn(asks)
  BY DEF Together
<1>7. Pulls'
  BY <1>4, <1>5, <1>6 DEF TreeInv, Pulls
<1>8. Intact' => Intact
  BY <1>6, Kinds, WelcomeBehind DEF Intact
<1>9. Course(toApp, toExt, tree["app"], tree["ext"], edits, owed, peerSeq)
        => Course(toApp, t, tree["app"], tree["ext"], edits, owed, peerSeq)
  BY <1>4, Kinds, CourseSkips DEF IsChange
<1>10. Mending'
  BY <1>4, <1>8, <1>9 DEF TreeInv, Mending
<1> QED
  BY <1>2, <1>3, <1>7, <1>10 DEF TreeInv

LEMMA AwayMends == ASSUME FileInv, TreeInv, ToldAway PROVE TreeInv'
BY TakenMends DEF ToldAway, ExtReceives, history

LEMMA LateMends == ASSUME FileInv, TreeInv, AnsweredLate PROVE TreeInv'
BY TakenMends DEF AnsweredLate, Answered, extension, history

LEMMA ChangedMends == ASSUME FileInv, TreeInv, AppChanged PROVE TreeInv'
<1>1. PICK m, t : m = Head(toExt) /\ t = Tail(toExt)
  OBVIOUS
<1>2. /\ toExt # << >> /\ toExt' = t /\ m.type = "change"
      /\ tree' = IF m.seq > peerSeq /\ Applies(m.change, tree["ext"])
                 THEN [tree EXCEPT !["ext"] = m.change.to] ELSE tree
      /\ UNCHANGED <<link, bound, toApp, appQueue, extQueue, appSeq, extension, history>>
  BY <1>1 DEF AppChanged, ExtReceives
<1>3. UNCHANGED <<peerSeq, asks, pending, edits, owed, synced>>
  BY <1>2 DEF extension, history
<1>4. ToSet(toExt') \subseteq ToSet(toExt) /\ m \in ToSet(toExt) /\ m \in ToExt
  BY <1>1, <1>2, Kinds, Behind
<1>5. Sent'
  <2>1. edits' \in Nat /\ edits <= edits'
    BY <1>3, Kinds
  <2> QED
    BY <1>2, <1>4, <2>1, NoneSent
<1>6. PICK x : x = IF m.seq > peerSeq /\ Applies(m.change, tree["ext"]) THEN m.change.to ELSE tree["ext"]
  OBVIOUS
<1>7. tree'["app"] = tree["app"] /\ tree'["ext"] = x
  BY <1>2, <1>6, Typed DEF FileInv, Side
<1>8. m.change.to \in Known(edits)
  <2>1. m.change \in Change /\ m.change.edit \in Edit
    BY <1>2, <1>4, Fields
  <2>2. m.change.to \in {m.change.edit, Missing}
    BY <2>1 DEF Change
  <2>3. m.change.edit <= edits
    BY <1>2, <1>4 DEF TreeInv, Sent, SentBy, IsChange
  <2> QED
    BY <2>1, <2>2, <2>3, Kinds DEF Known, Edit
<1>9. KnownTrees' /\ Flushed'
  BY <1>2, <1>3, <1>6, <1>7, <1>8 DEF TreeInv, KnownTrees, Flushed
<1>10. TreesLead(t, toApp, extQueue, CleanIn(asks), Together, tree["app"], edits, appSeq)
  BY <1>1, <1>2, Kinds, TreesBehind DEF TreeInv, Pulls
<1>11. (Together' <=> Together) /\ CleanIn(asks') = CleanIn(asks)
  BY <1>2, <1>3 DEF Together
<1>12. Pulls'
  BY <1>2, <1>3, <1>7, <1>10, <1>11 DEF TreeInv, Pulls
<1>13. Intact' => Intact
  BY <1>1, <1>2, <1>11, Kinds, WelcomeBehind DEF Intact
<1>14. Course(toApp, toExt, tree["app"], tree["ext"], edits, owed, peerSeq)
         => Course(toApp, t, tree["app"], x, edits, owed, peerSeq)
  BY <1>1, <1>2, <1>6, Kinds, CourseExtTakes DEF IsChange
<1>15. Mending'
  BY <1>2, <1>3, <1>7, <1>13, <1>14 DEF TreeInv, Mending
<1> QED
  BY <1>5, <1>9, <1>12, <1>15 DEF TreeInv

LEMMA UnwelcomedBefore ==
    ASSUME NEW S, NEW s \in Seq(S), NEW w, Unwelcomed(Append(s, w), 1)
    PROVE  Unwelcomed(s, 1)
<1>1. PICK u : u = Append(s, w)
  OBVIOUS
<1>2. Len(s) \in Nat /\ Len(u) = Len(s) + 1 /\ \A i \in 1 .. Len(s) : u[i] = s[i]
  BY <1>1, Appending
<1> QED
  BY <1>1, <1>2 DEF Unwelcomed

LEMMA NotBlind ==
    ASSUME \A c \in Changes(toApp) : c.expected # Missing, NEW i \in DOMAIN toApp, IsChange(toApp[i])
    PROVE  toApp[i].change.expected # Missing
<1>1. toApp[i] \in ToSet(toApp)
  BY DEF ToSet
<1> QED
  BY <1>1 DEF Changes, IsChange

LEMMA AppEditsMends == ASSUME FileInv, TreeInv, FileInv', AppEdits PROVE TreeInv'
<1>1. /\ edits' = edits + 1 /\ UNCHANGED <<link, bound>> /\ UNCHANGED <<toApp, extension, upsets, owed>>
      /\ synced' => synced /\ \A c \in Changes(toApp) : c.expected # Missing
  BY DEF AppEdits
<1>2. PICK to \in {edits', Missing}, expected \in {Missing, tree["app"]} :
        LET change == [edit |-> edits', to |-> to, expected |-> expected]
        IN  /\ to = Missing => tree["app"] # Missing
            /\ tree' = [tree EXCEPT !["app"] = to]
            /\ IF link["app"] = "off" THEN UNCHANGED <<toExt, appQueue, extQueue, appSeq>>
               ELSE /\ appSeq' = appSeq + 1
                    /\ AppSends(<< [type |-> "change", seq |-> appSeq', change |-> change] >>, << >>)
  BY DEF AppEdits
<1>3. PICK change : change = [edit |-> edits', to |-> to, expected |-> expected]
  OBVIOUS
<1>4. PICK m : m = [type |-> "change", seq |-> appSeq', change |-> change]
  OBVIOUS
<1>5. /\ to = Missing => tree["app"] # Missing
      /\ tree' = [tree EXCEPT !["app"] = to]
      /\ link["app"] = "off" => UNCHANGED <<toExt, appQueue, extQueue, appSeq>>
      /\ link["app"] # "off" => appSeq' = appSeq + 1 /\ AppSends(<<m>>, << >>)
  BY <1>2, <1>3, <1>4
<1>6. /\ m.type = "change" /\ m.seq = appSeq' /\ m.change.edit = edits' /\ m.change.to = to
      /\ m.change.expected = expected
  BY <1>3, <1>4
<1>7. tree'["app"] = to /\ tree'["ext"] = tree["ext"]
  BY <1>5, Typed DEF FileInv, Side
<1>8. UNCHANGED <<asks, pending, peerSeq>>
  BY <1>1 DEF extension
<1>9. /\ to \in Known(edits + 1) /\ Known(edits) \subseteq Known(edits + 1) /\ edits + 1 \in Nat
      /\ edits <= edits + 1 /\ (to = Missing \/ to \notin Known(edits))
  <2>1. edits \in Nat /\ to \in {edits + 1, Missing}
    BY <1>1, <1>2, Kinds
  <2>2. edits + 1 \in Known(edits + 1) /\ Missing \in Known(edits + 1) /\ edits + 1 \notin Known(edits)
        /\ Known(edits) \subseteq Known(edits + 1)
    BY <2>1, KnownIs
  <2> QED
    BY <2>1, <2>2
<1>10. PICK one : one = <<m>>
  OBVIOUS
<1>22. PICK S : S = {m} \cup ToExt
  OBVIOUS
<1>23. m \in S /\ toExt \in Seq(S) /\ appQueue \in Seq(S) /\ << >> \in Seq(S)
  BY <1>22, Kinds
<1>11. /\ one \in Seq(S) /\ ToSet(one) = {m}
       /\ toExt \o << >> = toExt /\ toExt \o one = Append(toExt, m)
  <2>1. one \in Seq(S) /\ ToSet(one) = {m}
    BY <1>10, <1>23, Single
  <2>2. toExt \o << >> = toExt
    BY Kinds, Stay
  <2>3. toExt \o one = Append(toExt, m)
    BY <1>10, <1>23, AppendIsConcat
  <2> QED
    BY <2>1, <2>2, <2>3
<1>12. /\ link["app"] # "off" =>
            /\ toExt' = IF Reached("ext") /\ link["app"] = "open" THEN toExt \o one ELSE toExt
            /\ appQueue' = IF link["app"] = "down" THEN appQueue \o one ELSE << >>
       /\ extQueue' = extQueue
  <2>1. toExt \o << >> \o one = toExt \o one
    BY <1>11
  <2> QED
    BY <1>1, <1>5, <1>10, <2>1 DEF AppSends
<1>13. toExt' = toExt \/ toExt' = toExt \o one
  BY <1>5, <1>12
<1>14. Together' <=> Together
  BY <1>1 DEF Together
<1>15. Together => toExt' = Append(toExt, m) /\ appSeq' = appSeq + 1
  <2> SUFFICES ASSUME Together
               PROVE  toExt' = Append(toExt, m) /\ appSeq' = appSeq + 1
    OBVIOUS
  <2>1. link["app"] = "open" /\ Reached("ext")
    BY <1>1 DEF Together, Reached, Side
  <2> QED
    BY <1>5, <1>11, <1>12, <2>1
<1>16. ToSet(toExt \o one) = ToSet(toExt) \cup {m} /\ ToSet(appQueue \o one) = ToSet(appQueue) \cup {m}
  <2>2. ToSet(toExt \o one) = ToSet(toExt) \cup ToSet(one)
    <3>1. PICK q, e : q = toExt /\ e = one
      OBVIOUS
    <3>2. q \in Seq(S) /\ e \in Seq(S)
      BY <1>11, <1>23, <3>1
    <3>3. ToSet(q \o e) = ToSet(q) \cup ToSet(e)
      BY ONLY <3>2, Joined
    <3> QED
      BY <3>1, <3>3
  <2>3. ToSet(appQueue \o one) = ToSet(appQueue) \cup ToSet(one)
    <3>1. PICK q, e : q = appQueue /\ e = one
      OBVIOUS
    <3>2. q \in Seq(S) /\ e \in Seq(S)
      BY <1>11, <1>23, <3>1
    <3>3. ToSet(q \o e) = ToSet(q) \cup ToSet(e)
      BY ONLY <3>2, Joined
    <3> QED
      BY <3>1, <3>3
  <2> QED
    BY <1>11, <2>2, <2>3
<1>17. Sent'
  <2>1. PICK said : said = {m}
    OBVIOUS
  <2>2. \A x \in said : SentBy(x, edits')
    <3>1. SentBy(m, edits')
      BY <1>1, <1>6, <1>9 DEF SentBy, IsChange
    <3> QED
      BY <2>1, <3>1
  <2>3. ToSet(appQueue') \subseteq ToSet(appQueue) \cup said
    BY <1>5, <1>12, <1>16, <2>1, Empty
  <2>4. \A x \in ToSet(toExt') : x \in ToSet(toExt) \cup ToSet(appQueue) \cup said
    BY <1>13, <1>16, <2>1
  <2> QED
    BY <1>1, <1>9, <1>12, <2>2, <2>3, <2>4, SentKept
<1>18. KnownTrees' /\ Flushed'
  BY <1>1, <1>7, <1>9, <1>12 DEF TreeInv, KnownTrees, Flushed
<1>19. TreesLead(toExt', toApp, extQueue, CleanIn(asks), Together, to, edits + 1, appSeq')
  <2>1. TreesLead(toExt, toApp, extQueue, CleanIn(asks), Together, tree["app"], edits, appSeq)
    BY DEF TreeInv, Pulls
  <2>2. CASE Together
    <3>1. Follower(m, tree["app"], to, edits, FALSE)
      BY <1>2, <1>5, <1>6, <1>9 DEF Follower, IsChange
    <3>2. /\ \A p \in DOMAIN toExt : toExt[p].type = "tree" => toExt[p].seq \in Nat
          /\ appSeq + 1 \in Nat /\ appSeq <= appSeq + 1 /\ m.seq = appSeq + 1 /\ m.seq > appSeq
      <4>1. \A i \in 0 .. MaxEdits : i \in Nat
        OBVIOUS
      <4> QED
        BY <1>6, <1>15, <2>2, <4>1, Kinds, Fields
    <3>3. TreesLead(Append(toExt, m), toApp, extQueue, CleanIn(asks), Together, to, edits + 1, appSeq + 1)
      <4>1. (IsChange(m) => m.seq \in Nat /\ m.seq > appSeq) /\ m.type # "tree"
        BY <1>6, <3>2
      <4> QED
        BY <1>9, <2>1, <3>1, <3>2, <4>1, Kinds, TreesAdded
    <3> QED
      BY <1>15, <2>2, <3>3
  <2>3. CASE ~Together
    <3>1. PICK w \in {<< >>, one} : toExt' = toExt \o w
      BY <1>11, <1>13
    <3>2. w \in Seq(S) /\ (\A x \in ToSet(w) : x.type # "tree") /\ toExt \in Seq(S)
      BY <1>6, <1>11, <1>23, Empty
    <3>3. TreesLead(toExt \o w, toApp, extQueue, CleanIn(asks), Together, to, edits + 1, appSeq')
      BY <2>1, <2>3, <3>2, TreesApart
    <3> QED
      BY <3>1, <3>3
  <2> QED
    BY <2>2, <2>3
<1>20. Pulls'
  BY <1>1, <1>7, <1>8, <1>12, <1>14, <1>19 DEF TreeInv, Pulls
<1>21. Mending'
  <2> SUFFICES ASSUME synced', Intact', pending' = << >>
               PROVE  /\ peerSeq' <= appSeq'
                      /\ Course(toApp', toExt', tree'["app"], tree'["ext"], edits', owed', peerSeq')
    BY DEF Mending
  <2>1. toExt' = Append(toExt, m) /\ appSeq' = appSeq + 1
    BY <1>14, <1>15 DEF Intact
  <2>2. Intact
    BY <1>14, <2>1, Kinds, UnwelcomedBefore DEF Intact
  <2>3. /\ peerSeq <= appSeq
        /\ Course(toApp, toExt, tree["app"], tree["ext"], edits, owed, peerSeq)
    BY <1>1, <1>8, <2>2 DEF TreeInv, Mending
  <2>4. IsChange(m) /\ m.seq > peerSeq /\ m.change.expected \in {Missing, tree["app"]}
    BY <1>2, <1>6, <2>1, <2>3, Kinds DEF IsChange
  <2>5. \A i \in DOMAIN toApp : IsChange(toApp[i]) => toApp[i].change.expected # Missing
    BY <1>1, NotBlind
  <2>6. m.change.to \in {edits + 1, Missing} /\ (m.change.to = Missing => tree["app"] # Missing)
    BY <1>1, <1>2, <1>5, <1>6
  <2>7. Course(toApp, Append(toExt, m), m.change.to, tree["ext"], edits + 1, owed, peerSeq)
    BY <2>3, <2>4, <2>5, <2>6, Kinds, CourseAppEdits
  <2> QED
    BY <1>1, <1>6, <1>7, <1>8, <2>1, <2>3, <2>7, Kinds
<1> QED
  BY <1>17, <1>18, <1>20, <1>21 DEF TreeInv

LEMMA ExtConnectsMends == ASSUME FileInv, TreeInv, ExtConnects PROVE TreeInv'
<1>1. /\ link' = [link EXCEPT !["ext"] = "open"] /\ bound' = bound \cup {"ext"}
      /\ ExtSends(extQueue, Greeting("ext"))
      /\ UNCHANGED <<tree, appSeq, extension, history>>
  BY DEF ExtConnects
<1>2. PICK g, no : g = Greeting("ext") /\ no = Refusals(extQueue)
  OBVIOUS
<1>3. link'["ext"] = "open"
  BY <1>1, Typed DEF FileInv, Side
<1>4. /\ toApp' \in {toApp, toApp \o extQueue}
      /\ toExt' = IF "app" \notin bound' THEN g \o no ELSE g
      /\ extQueue' = << >> /\ appQueue' = appQueue
  BY <1>1, <1>2, <1>3 DEF ExtSends
<1>5. UNCHANGED <<asks, edits, tree>>
  BY <1>1 DEF extension, history
<1>6. /\ g \in Seq(ToExt) /\ \A m \in ToSet(g) : m.type = "welcome"
      /\ no \in Seq(ToExt) /\ \A m \in ToSet(no) : m.type = "refused"
  BY <1>2, Kinds, GreetingIs, RefusalsAre
<1>7. ToSet(toApp \o extQueue) = ToSet(toApp) \cup ToSet(extQueue)
  BY Kinds, Joined
<1>8. toExt' \in Seq(ToExt) /\ \A m \in ToSet(toExt') : m.type \in {"welcome", "refused"}
  <2>1. g \o no \in Seq(ToExt) /\ ToSet(g \o no) = ToSet(g) \cup ToSet(no)
    BY <1>6, Joined
  <2> QED
    BY <1>4, <1>6, <2>1
<1>9. Sent'
  <2>1. PICK said : said = {}
    OBVIOUS
  <2>2. edits' \in Nat /\ edits <= edits' /\ \A m \in said : SentBy(m, edits')
    BY <1>5, <2>1, Kinds
  <2>3. ToSet(toApp') \subseteq ToSet(toApp) \cup ToSet(extQueue) \cup said
    BY <1>4, <1>7
  <2>4. ToSet(extQueue') \subseteq ToSet(extQueue) \cup said
    BY <1>4, Empty
  <2>5. ToSet(appQueue') \subseteq ToSet(appQueue) \cup said
    BY <1>4
  <2>6. \A m \in ToSet(toExt') : m.type \notin {"tree", "change"}
    BY <1>8
  <2> QED
    BY <2>2, <2>3, <2>4, <2>5, <2>6, SentKept
<1>10. KnownTrees' /\ Flushed'
  BY <1>4, <1>5 DEF TreeInv, KnownTrees, Flushed
<1>11. Pulls'
  <2>1. CleanIn(asks') = CleanIn(asks)
    BY <1>5
  <2>2. SyncsLast(toApp, extQueue, CleanIn(asks)) /\ SyncsLast(extQueue, << >>, CleanIn(asks))
    BY DEF TreeInv, Pulls
  <2>3. SyncsLast(toApp, << >>, CleanIn(asks))
    BY <2>2, NarrowSyncs
  <2>4. SyncsLast(toApp \o extQueue, << >>, CleanIn(asks))
    BY <2>2, Kinds, SyncsJoined
  <2>5. \A p \in DOMAIN toExt' : toExt'[p].type # "tree"
    BY <1>8 DEF ToSet
  <2> QED
    BY <1>4, <2>1, <2>3, <2>4, <2>5, EmptyStill DEF Pulls, TreesLead
<1>12. ~Intact'
  <2> SUFFICES ASSUME Together'
               PROVE  ~Unwelcomed(toExt', 1)
    BY DEF Intact
  <2>1. "app" \in bound' /\ "app" \in bound
    BY <1>1 DEF Together, Side
  <2>2. g = << [type |-> "welcome"] >> /\ toExt' = g
    BY <1>2, <1>4, <2>1 DEF Greeting, Side
  <2> QED
    BY <2>2 DEF Unwelcomed
<1> QED
  BY <1>9, <1>10, <1>11, <1>12 DEF TreeInv, Mending

LEMMA ChangeKnown ==
    ASSUME FileInv, TreeInv, NEW m \in ToSet(toApp) \cup ToSet(toExt), IsChange(m)
    PROVE  m.change \in Change /\ m.change.to \in Known(edits)
<1>1. m \in ToApp \cup ToExt
  BY Kinds DEF ToSet
<1>2. m.change \in Change /\ m.change.edit \in Edit
  BY <1>1, Fields DEF IsChange
<1>3. m.change.to \in {m.change.edit, Missing}
  BY <1>2 DEF Change
<1>4. m.change.edit <= edits
  BY DEF TreeInv, Sent, SentBy
<1> QED
  BY <1>2, <1>3, <1>4, Kinds DEF Known, Edit

LEMMA NoTrees ==
    ASSUME NEW t, NEW s, NEW q, NEW ids, NEW ok, NEW y, NEW n, NEW l,
           TreesLead(t, s, q, ids, ok, y, n, l), ~NoChange(s)
    PROVE  \A u, w, z, v, r, k : TreesLead(t, u, w, ids, z, v, r, k)
BY DEF TreesLead

LEMMA ReceivesMends == ASSUME FileInv, TreeInv, AppReceives PROVE TreeInv'
<1>1. PICK m, s : m = Head(toApp) /\ s = Tail(toApp)
  OBVIOUS
<1>2. /\ toApp # << >> /\ toApp' = s /\ UNCHANGED <<link, bound>>
      /\ UNCHANGED <<appSeq, extension, edits, upsets>>
  BY <1>1 DEF AppReceives
<1>3. PICK applies \in BOOLEAN : applies <=> m.type = "change" /\ Applies(m.change, tree["app"])
  OBVIOUS
<1>4. PICK answer :
        answer = IF m.type = "sync"
                 THEN [type |-> "tree", id |-> m.id, content |-> tree["app"], seq |-> appSeq]
                 ELSE [type |-> IF applies THEN "done" ELSE "refused", id |-> m.id]
  OBVIOUS
<1>5. /\ tree' = IF applies THEN [tree EXCEPT !["app"] = m.change.to] ELSE tree
      /\ owed' = IF applies THEN owed \ {m.change.edit} ELSE owed
      /\ AppSends(<<answer>>, << >>)
  BY <1>1, <1>3, <1>4 DEF AppReceives
<1>6. synced' => synced /\ ~(applies /\ Blind(m.change, tree["app"]))
  BY <1>1, <1>3 DEF AppReceives
<1>7. /\ m \in ToApp /\ s \in Seq(ToApp) /\ m \in ToSet(toApp) /\ ToSet(s) \subseteq ToSet(toApp)
  BY <1>1, <1>2, Kinds, Behind
<1>8. m.id \in Id /\ m.type \in {"change", "sync"} /\ (applies => IsChange(m))
  BY <1>3, <1>7, Fields DEF IsChange
<1>9. /\ answer \in ToExt /\ ~IsChange(answer) /\ answer.id = m.id
      /\ answer.type \in {"tree", "done", "refused"}
      /\ answer.type = "tree" => m.type = "sync" /\ answer.content = tree["app"] /\ answer.seq = appSeq
  <2>1. answer \in ToExt
    BY <1>4, <1>8, Typed DEF FileInv, ToExt, TypeOK
  <2> QED
    BY <1>4, <1>8, <2>1 DEF IsChange
<1>10. PICK y : y = IF applies THEN m.change.to ELSE tree["app"]
  OBVIOUS
<1>11. tree'["app"] = y /\ tree'["ext"] = tree["ext"] /\ y \in Known(edits)
  <2>1. applies => m.change.to \in Known(edits)
    BY <1>7, <1>8, ChangeKnown
  <2> QED
    BY <1>5, <1>10, <2>1, Typed DEF FileInv, Side, TreeInv, KnownTrees
<1>12. link["app"] = "open"
  BY <1>2 DEF FileInv, OwnQueue
<1>13. /\ toExt' = (IF Reached("ext") THEN Append(toExt, answer) ELSE toExt)
       /\ appQueue' = << >> /\ extQueue' = extQueue
  <2>1. toExt \o << >> \o <<answer>> = Append(toExt, answer)
    BY <1>9, Kinds, Stay, AppendIsConcat
  <2> QED
    BY <1>2, <1>5, <1>12, <2>1 DEF AppSends
<1>14. UNCHANGED <<asks, pending, peerSeq>>
  BY <1>2 DEF extension
<1>15. (Together' <=> Together) /\ (Together => toExt' = Append(toExt, answer))
  BY <1>2, <1>13 DEF Together, Reached, Side
<1>16. Append(toExt, answer) \in Seq(ToExt) /\ ToSet(Append(toExt, answer)) = ToSet(toExt) \cup {answer}
  BY <1>9, Kinds, Appended
<1>17. Sent'
  <2>1. PICK said : said = {answer}
    OBVIOUS
  <2>2. \A x \in said : SentBy(x, edits')
    BY <1>2, <1>9, <2>1, Kinds DEF SentBy, CourseArgs
  <2>3. ToSet(appQueue') \subseteq ToSet(appQueue) \cup said
    BY <1>13, Empty
  <2>4. \A x \in ToSet(toExt') : x \in ToSet(toExt) \cup ToSet(appQueue) \cup said
    BY <1>13, <1>16, <2>1
  <2>5. edits' \in Nat /\ edits <= edits'
    BY <1>2, Kinds
  <2> QED
    BY <1>2, <1>7, <1>13, <2>2, <2>3, <2>4, <2>5, SentKept
<1>18. KnownTrees' /\ Flushed'
  BY <1>2, <1>11, <1>13 DEF TreeInv, KnownTrees, Flushed
<1>19. /\ SyncsLast(s, extQueue, CleanIn(asks))
       /\ m.type = "sync" /\ m.id \in CleanIn(asks) => NoChange(s) /\ NoChange(extQueue)
  <2>1. SyncsLast(toApp, extQueue, CleanIn(asks))
    BY DEF TreeInv, Pulls
  <2> QED
    BY <1>1, <1>2, <2>1, Kinds, SyncsBehind
<1>20. NoChange(toApp) <=> NoChange(s) /\ ~IsChange(m)
  BY <1>1, <1>2, Kinds, Tailing
<1>21. TreesLead(toExt, s, extQueue, CleanIn(asks), Together, y, edits, appSeq)
  <2>1. TreesLead(toExt, toApp, extQueue, CleanIn(asks), Together, tree["app"], edits, appSeq)
    BY DEF TreeInv, Pulls
  <2>2. CASE IsChange(m)
    BY <1>20, <2>1, <2>2, NoTrees
  <2>3. CASE ~IsChange(m)
    BY <1>8, <1>10, <1>20, <2>1, <2>3 DEF TreesLead
  <2> QED
    BY <2>2, <2>3
<1>22. TreesLead(toExt', s, extQueue, CleanIn(asks), Together, y, edits, appSeq)
  <2>1. CASE Reached("ext")
    <3>1. Follower(answer, y, y, edits, FALSE)
      BY <1>9 DEF Follower
    <3>2. answer.type = "tree" /\ answer.id \in CleanIn(asks) =>
              NoChange(s) /\ NoChange(extQueue) /\ answer.content = y /\ answer.seq <= appSeq
      <4>1. m.type = "sync" => ~applies
        BY <1>8 DEF IsChange
      <4> QED
        BY <1>9, <1>10, <1>19, <4>1, Kinds
    <3>3. \A p \in DOMAIN toExt : toExt[p].type = "tree" => toExt[p].seq \in Nat
      <4>1. \A i \in 0 .. MaxEdits : i \in Nat
        OBVIOUS
      <4> QED
        BY <4>1, Kinds, Fields
    <3>4. TreesLead(Append(toExt, answer), s, extQueue, CleanIn(asks), Together, y, edits, appSeq)
      <4>1. edits <= edits /\ appSeq <= appSeq
        BY Kinds
      <4> QED
        BY <1>9, <1>11, <1>21, <3>1, <3>2, <3>3, <4>1, Kinds, TreesAdded
    <3> QED
      BY <1>13, <2>1, <3>4
  <2>2. CASE ~Reached("ext")
    BY <1>13, <1>21, <2>2
  <2> QED
    BY <2>1, <2>2
<1>23. Pulls'
  <2>1. CleanIn(asks') = CleanIn(asks) /\ SyncsLast(extQueue, << >>, CleanIn(asks))
    BY <1>14 DEF TreeInv, Pulls
  <2>2. TreesLead(toExt', toApp', extQueue', CleanIn(asks'), Together', tree'["app"], edits', appSeq')
    BY <1>2, <1>11, <1>13, <1>15, <1>22, <2>1 DEF TreesLead
  <2> QED
    BY <1>2, <1>13, <1>19, <2>1, <2>2 DEF Pulls
<1>24. Mending'
  <2> SUFFICES ASSUME synced', Intact', pending' = << >>
               PROVE  /\ peerSeq' <= appSeq'
                      /\ Course(toApp', toExt', tree'["app"], tree'["ext"], edits', owed', peerSeq')
    BY DEF Mending
  <2>1. toExt' = Append(toExt, answer)
    BY <1>15 DEF Intact
  <2>2. Intact
    BY <1>15, <2>1, Kinds, UnwelcomedBefore DEF Intact
  <2>3. /\ peerSeq <= appSeq
        /\ Course(toApp, toExt, tree["app"], tree["ext"], edits, owed, peerSeq)
    BY <1>6, <1>14, <2>2 DEF TreeInv, Mending
  <2>4. Course(s, Append(toExt, answer), y, tree["ext"], edits, owed', peerSeq)
    <3>1. CASE IsChange(m)
      <4>1. applies <=> Applies(m.change, tree["app"])
        BY <1>3, <3>1 DEF IsChange
      <4> QED
        BY <1>1, <1>2, <1>5, <1>6, <1>9, <1>10, <2>3, <3>1, <4>1, Kinds, CourseAppTakes
    <3>2. CASE ~IsChange(m)
      <4>1. y = tree["app"] /\ owed' = owed
        BY <1>5, <1>8, <1>10, <3>2
      <4>2. Course(s, toExt, tree["app"], tree["ext"], edits, owed, peerSeq)
        BY <1>1, <1>2, <2>3, <3>2, Kinds, CourseSkips
      <4>3. CourseArgs(s, toExt, tree["app"], tree["ext"], edits, owed)
        BY <1>7, Kinds DEF CourseArgs
      <4> QED
        BY <1>9, <4>1, <4>2, <4>3, CourseSkips
    <3> QED
      BY <3>1, <3>2
  <2> QED
    BY <1>2, <1>11, <1>14, <2>1, <2>3, <2>4
<1> QED
  BY <1>17, <1>18, <1>23, <1>24 DEF TreeInv

-----------------------------------------------------------------------------
(* What the extension sends.                                               *)

LEMMA Says ==
    ASSUME FileInv, UNCHANGED <<link, bound>>, NEW say \in Seq(ToApp), NEW ahead \in Seq(ToExt),
           ExtSends(say, ahead)
    PROVE  /\ Together => toApp' = toApp \o say /\ toExt' = ahead
           /\ \E w \in Seq(ToExt) : toExt' = ahead \o w /\ \A x \in ToSet(w) : x.type = "refused"
           /\ toApp' \in {toApp, toApp \o say}
           /\ link["ext"] = "down" => toApp' = toApp /\ extQueue' = extQueue \o say
           /\ link["ext"] # "down" => extQueue' = << >>
<1>1. Together => link'["ext"] = "open" /\ "app" \in bound' /\ Reached("app")
  BY DEF Together, Reached, Side
<1>2. PICK no : no = Refusals(say)
  OBVIOUS
<1>3. no \in Seq(ToExt) /\ \A x \in ToSet(no) : x.type = "refused"
  BY <1>2, RefusalsAre
<1>4. toExt' = ahead \/ toExt' = ahead \o no
  BY <1>2 DEF ExtSends
<1>5. \E w \in Seq(ToExt) : toExt' = ahead \o w /\ \A x \in ToSet(w) : x.type = "refused"
  <2>1. CASE toExt' = ahead
    <3>1. ahead \o << >> = ahead
      BY Stay
    <3> QED
      BY <2>1, <3>1, Empty
  <2>2. CASE toExt' = ahead \o no
    BY <1>3, <2>2
  <2> QED
    BY <1>4, <2>1, <2>2
<1> QED
  BY <1>1, <1>5 DEF ExtSends

LEMMA CrossedClean ==
    ASSUME NEW qs \in Seq(Asking)
    PROVE  CleanIn(Crossed(qs)) = {}
<1> DEFINE at(i) == IF qs[i].for \in {"retry", "pull"} THEN [qs[i] EXCEPT !.clean = FALSE] ELSE qs[i]
<1>1. Crossed(qs) = [i \in DOMAIN qs |-> at(i)]
  BY Zenon DEF Crossed
<1>2. ASSUME NEW i \in DOMAIN qs
      PROVE  ForChange(at(i)) \/ ~at(i).clean
  <2>1. qs[i] \in Asking
    OBVIOUS
  <2>2. CASE qs[i].for = "retry"
    <3>1. qs[i] \in [id : Id, for : {"retry"}, left : Attempts, clean : BOOLEAN]
      BY <2>1, <2>2 DEF Asking
    <3> QED
      BY <2>2, <3>1
  <2>3. CASE qs[i].for = "pull"
    <3>1. qs[i] \in [id : Id, for : {"pull"}, clean : BOOLEAN]
      BY <2>1, <2>3 DEF Asking
    <3> QED
      BY <2>3, <3>1
  <2>4. CASE qs[i].for \notin {"retry", "pull"}
    <3>1. ForChange(qs[i])
      BY <2>1, <2>4, Fields DEF ForChange
    <3> QED
      BY <2>4, <3>1
  <2> QED
    BY <2>2, <2>3, <2>4
<1> HIDE DEF at
<1> QED
  BY <1>1, <1>2 DEF CleanIn, ToSet

LEMMA CleanAdded ==
    ASSUME NEW qs \in Seq(Asking), NEW n \in Asking
    PROVE  /\ CleanIn(Append(qs, n)) \subseteq CleanIn(qs) \cup {n.id}
           /\ ForChange(n) => CleanIn(Append(qs, n)) = CleanIn(qs)
<1>1. ToSet(Append(qs, n)) = ToSet(qs) \cup {n}
  BY Appended
<1> QED
  BY <1>1 DEF CleanIn

LEMMA ExtEditsMends == ASSUME FileInv, TreeInv, ExtEdits PROVE TreeInv'
<1>1. /\ edits' = edits + 1 /\ Free # {} /\ UNCHANGED <<link, bound>> /\ owed' = owed \cup {edits'}
      /\ synced' => synced /\ (tree["ext"] = Missing => Changes(toExt) = {})
      /\ UNCHANGED <<appSeq, peerSeq, pending>>
  BY DEF ExtEdits
<1>2. PICK to \in {edits', Missing} :
        LET change == [edit |-> edits', to |-> to, expected |-> tree["ext"]]
        IN  /\ to = Missing => tree["ext"] # Missing
            /\ tree' = [tree EXCEPT !["ext"] = to]
            /\ asks' = Append(Crossed(asks), [id |-> Fresh, for |-> "edit", change |-> change])
            /\ ExtSends(<<Request(Fresh, change)>>, toExt)
  BY DEF ExtEdits
<1>3. edits < MaxEdits
  BY DEF ExtEdits
<1>4. PICK change : change = [edit |-> edits', to |-> to, expected |-> tree["ext"]]
  OBVIOUS
<1>5. PICK n, m, qs :
        n = [id |-> Fresh, for |-> "edit", change |-> change] /\ m = Request(Fresh, change) /\ qs = Crossed(asks)
  OBVIOUS
<1>6. PICK say : say = <<m>>
  OBVIOUS
<1>7. /\ to = Missing => tree["ext"] # Missing
      /\ tree' = [tree EXCEPT !["ext"] = to] /\ asks' = Append(qs, n) /\ ExtSends(say, toExt)
  BY <1>2, <1>4, <1>5, <1>6
<1>8. tree'["app"] = tree["app"] /\ tree'["ext"] = to
  BY <1>7, Typed DEF FileInv, Side
<1>9. /\ edits \in Nat /\ edits + 1 \in Edit /\ to \in Known(edits + 1) /\ to \in Content
      /\ Known(edits) \subseteq Known(edits + 1)
  <2>1. edits \in Nat /\ edits + 1 \in Edit /\ edits + 1 \in 0 .. MaxEdits /\ to \in {edits + 1, Missing}
    BY <1>1, <1>2, <1>3, Kinds, Bounds DEF Edit
  <2>2. edits + 1 \in Known(edits + 1) /\ Missing \in Known(edits + 1) /\ Known(edits) \subseteq Known(edits + 1)
    BY <2>1, KnownIs
  <2> QED
    BY <2>1, <2>2 DEF Content
<1>10. /\ change \in Change /\ change.edit = edits + 1 /\ change.to = to /\ change.expected = tree["ext"]
  BY <1>1, <1>2, <1>4, <1>9, Typed DEF FileInv, Change
<1>11. Fresh \in Id
  BY <1>1, FreshIs, FreeIs DEF FileInv
<1>12. m \in ToApp /\ m.type = "change" /\ m.change = change
  BY <1>5, <1>10, <1>11 DEF Request, ToApp
<1>13. n \in Asking /\ ForChange(n)
  BY <1>5, <1>10, <1>11 DEF Asking, ForChange
<1>14. CleanIn(asks') = {}
  <2>1. qs \in Seq(Asking)
    BY <1>5, Kinds, CrossedIs
  <2>2. CleanIn(qs) = {}
    BY <1>5, Kinds, CrossedClean
  <2> QED
    BY <1>7, <1>13, <2>1, <2>2, CleanAdded
<1>15. say \in Seq(ToApp) /\ ToSet(say) = {m} /\ toApp \o say = Append(toApp, m)
  <2>1. say \in Seq(ToApp) /\ ToSet(say) = {m}
    BY <1>6, <1>12, Single
  <2> QED
    BY <1>6, <1>12, <2>1, Kinds, AppendIsConcat
<1>16. /\ Together => toApp' = Append(toApp, m) /\ toExt' = toExt
       /\ link["ext"] # "down" => extQueue' = << >>
  BY <1>1, <1>7, <1>15, Kinds, Says
<1>17. /\ ToSet(toApp') \subseteq ToSet(toApp) \cup ToSet(say)
       /\ ToSet(extQueue') \subseteq ToSet(extQueue) \cup ToSet(say)
       /\ appQueue' = appQueue
       /\ \A x \in ToSet(toExt') : x \in ToSet(toExt) \/ x.type = "refused"
  BY <1>7, <1>15, Kinds, ExtSendsIs DEF FileInv
<1>18. Sent'
  <2>1. PICK said : said = {m}
    OBVIOUS
  <2>2. /\ edits' \in Nat /\ edits <= edits' /\ \A x \in said : SentBy(x, edits')
    BY <1>1, <1>9, <1>10, <1>12, <2>1 DEF SentBy
  <2>3. /\ ToSet(toApp') \subseteq ToSet(toApp) \cup ToSet(extQueue) \cup said
        /\ ToSet(extQueue') \subseteq ToSet(extQueue) \cup said
        /\ ToSet(appQueue') \subseteq ToSet(appQueue) \cup said
        /\ \A x \in ToSet(toExt') :
              x \in ToSet(toExt) \cup ToSet(appQueue) \cup said \/ x.type \notin {"tree", "change"}
    BY <1>15, <1>17, <2>1
  <2> QED
    BY <2>2, <2>3, SentKept
<1>19. KnownTrees' /\ Flushed'
  BY <1>1, <1>8, <1>9, <1>16 DEF TreeInv, KnownTrees, Flushed
<1>20. Pulls'
  BY <1>14 DEF Pulls, SyncsLast, TreesLead
<1>21. Mending'
  <2> SUFFICES ASSUME synced', Intact', pending' = << >>
               PROVE  /\ peerSeq' <= appSeq'
                      /\ Course(toApp', toExt', tree'["app"], tree'["ext"], edits', owed', peerSeq')
    BY DEF Mending
  <2>1. Together
    BY <1>1 DEF Intact, Together
  <2>2. toApp' = Append(toApp, m) /\ toExt' = toExt
    BY <1>16, <2>1
  <2>3. Intact
    BY <2>1, <2>2 DEF Intact
  <2>4. /\ peerSeq <= appSeq
        /\ Course(toApp, toExt, tree["app"], tree["ext"], edits, owed, peerSeq)
    BY <1>1, <2>3 DEF TreeInv, Mending
  <2>5. tree["ext"] = Missing => NoChange(toExt)
    BY <1>1 DEF Changes, NoChange, IsChange, ToSet
  <2>6. NewEdit(m, edits, tree["ext"], toExt)
    BY <1>1, <1>2, <1>7, <1>10, <1>12, <2>5 DEF IsChange, NewEdit
  <2>7. Course(Append(toApp, m), toExt, tree["app"], m.change.to, edits + 1, owed \cup {edits + 1}, peerSeq)
    <3>1. CourseArgs(toApp, toExt, tree["app"], tree["ext"], edits, owed)
      BY Kinds
    <3> QED
      BY <2>4, <2>6, <3>1, CourseExtEdits
  <2> QED
    BY <1>1, <1>8, <1>10, <1>12, <2>2, <2>4, <2>7
<1> QED
  BY <1>18, <1>19, <1>20, <1>21 DEF TreeInv

LEMMA SyncsSame ==
    ASSUME NEW s, NEW q, NEW ids, SyncsLast(s, q, ids), NEW i, NEW more, more \subseteq ids \cup {i},
           \A p \in DOMAIN s : s[p].id # i
    PROVE  SyncsLast(s, << >>, more) /\ \A u : (NoChange(q) => NoChange(u)) => SyncsLast(s, u, more)
BY EmptyStill DEF SyncsLast

LEMMA StillAppended ==
    ASSUME NEW S, NEW s \in Seq(S), NoChange(s), NEW m, ~IsChange(m)
    PROVE  NoChange(Append(s, m))
<1>1. PICK u : u = Append(s, m)
  OBVIOUS
<1>2. NoChange(u) <=> NoChange(s) /\ ~IsChange(m)
  BY <1>1, Appending
<1> QED
  BY <1>1, <1>2

(* A request for the tree is sent under the identifier i, or nothing.      *)
LEMMA SyncsSent ==
    ASSUME FileInv, TreeInv, UNCHANGED <<link, bound>>, NEW i \in Int, Unknown(i),
           NEW say \in Seq(ToApp), say = << >> \/ say = <<Sync(i)>>,
           NEW ahead \in Seq(ToExt), ToSet(ahead) \subseteq ToSet(toExt),
           TreesLead(ahead, toApp, extQueue, CleanIn(asks), Together, tree["app"], edits, appSeq),
           ExtSends(say, ahead), CleanIn(asks') \subseteq CleanIn(asks) \cup {i},
           tree'["app"] = tree["app"], tree'["ext"] \in Known(edits), UNCHANGED <<edits, appSeq>>
    PROVE  /\ Sent' /\ KnownTrees' /\ Flushed' /\ Pulls' /\ (Together' => Together)
           /\ Together => toExt' = ahead /\ toApp' \in {toApp, Append(toApp, Sync(i))}
<1>1. PICK m : m = Sync(i)
  OBVIOUS
<1>2. m.type = "sync" /\ m.id = i /\ ~IsChange(m)
  BY <1>1 DEF Sync, IsChange
<1>3. /\ Together => toApp' = toApp \o say /\ toExt' = ahead
      /\ \E w \in Seq(ToExt) : toExt' = ahead \o w /\ \A x \in ToSet(w) : x.type = "refused"
      /\ toApp' \in {toApp, toApp \o say}
      /\ link["ext"] = "down" => toApp' = toApp /\ extQueue' = extQueue \o say
      /\ link["ext"] # "down" => extQueue' = << >>
  BY Says
<1>4. /\ toApp \o say \in {toApp, Append(toApp, m)}
      /\ extQueue \o say \in {extQueue, Append(extQueue, m)}
  <2>1. CASE say = << >>
    BY <2>1, Kinds, ConcatEmptySeq
  <2>2. CASE say = <<m>>
    <3>1. m \in ToApp
      BY <2>2
    <3> QED
      BY <2>2, <3>1, Kinds, AppendIsConcat
  <2> QED
    BY <1>1, <2>1, <2>2
<1>5. ToSet(say) \subseteq {m}
  <2>1. CASE say = << >>
    BY <2>1, Empty
  <2>2. CASE say = <<m>>
    BY <2>2, Single
  <2> QED
    BY <1>1, <2>1, <2>2
<1>6. /\ ToSet(toApp') \subseteq ToSet(toApp) \cup ToSet(say)
      /\ ToSet(extQueue') \subseteq ToSet(extQueue) \cup ToSet(say)
      /\ appQueue' = appQueue
      /\ \A x \in ToSet(toExt') : x \in ToSet(ahead) \/ x.type = "refused"
  BY ExtSendsIs DEF FileInv
<1>7. Sent'
  <2>1. PICK said : said = {m}
    OBVIOUS
  <2>2. /\ edits' \in Nat /\ edits <= edits' /\ \A x \in said : SentBy(x, edits')
    BY <1>2, <2>1, Kinds DEF SentBy
  <2>3. /\ ToSet(toApp') \subseteq ToSet(toApp) \cup ToSet(extQueue) \cup said
        /\ ToSet(extQueue') \subseteq ToSet(extQueue) \cup said
        /\ ToSet(appQueue') \subseteq ToSet(appQueue) \cup said
        /\ \A x \in ToSet(toExt') :
              x \in ToSet(toExt) \cup ToSet(appQueue) \cup said \/ x.type \notin {"tree", "change"}
    BY <1>5, <1>6, <2>1
  <2> QED
    BY <2>2, <2>3, SentKept
<1>8. KnownTrees' /\ Flushed'
  BY <1>3 DEF TreeInv, KnownTrees, Flushed
<1>9. PICK more : more = CleanIn(asks')
  OBVIOUS
<1>10. /\ more \subseteq CleanIn(asks) \cup {i}
       /\ SyncsLast(toApp, extQueue, CleanIn(asks)) /\ SyncsLast(extQueue, << >>, CleanIn(asks))
  BY <1>9 DEF TreeInv, Pulls
<1>11. /\ \A p \in DOMAIN toApp : toApp[p].id # i
       /\ \A p \in DOMAIN extQueue : extQueue[p].id # i
       /\ \A x \in ToSet(toExt) : x.type = "tree" => x.id # i
  BY DEF Unknown, ToSet
<1>12. /\ SyncsLast(toApp, << >>, more) /\ SyncsLast(extQueue, << >>, more)
       /\ \A u : (NoChange(extQueue) => NoChange(u)) => SyncsLast(toApp, u, more)
  BY <1>10, <1>11, SyncsSame
<1>13. NoChange(extQueue) => NoChange(extQueue \o say)
  BY <1>2, <1>4, Kinds, StillAppended
<1>14. /\ SyncsLast(toApp \o say, << >>, more)
       /\ SyncsLast(extQueue \o say, << >>, more)
  <2>1. SyncsLast(toApp, << >>, CleanIn(asks)) /\ NoChange(<< >>)
    BY <1>10, EmptyStill, NarrowSyncs
  <2>2. SyncsLast(Append(toApp, m), << >>, more)
    BY <1>2, <1>10, <1>11, <2>1, Kinds, SyncsAdded
  <2>3. SyncsLast(Append(extQueue, m), << >>, more)
    BY <1>2, <1>10, <1>11, <2>1, Kinds, SyncsAdded
  <2> QED
    BY <1>4, <1>12, <2>2, <2>3
<1>15. SyncsLast(toApp', extQueue', more) /\ SyncsLast(extQueue', << >>, more)
  <2>1. CASE link["ext"] = "down"
    BY <1>3, <1>12, <1>13, <1>14, <2>1
  <2>2. CASE link["ext"] # "down"
    <3>1. extQueue' = << >> /\ toApp' \in {toApp, toApp \o say}
      BY <1>3, <2>2
    <3> QED
      BY <1>12, <1>14, <3>1, EmptyStill
  <2> QED
    BY <2>1, <2>2
<1>16. Together' <=> Together
  BY DEF Together
<1>17. TreesLead(ahead, toApp', extQueue', more, Together, tree["app"], edits, appSeq)
  <2> SUFFICES ASSUME NEW p \in DOMAIN ahead, ahead[p].type = "tree", ahead[p].id \in more
               PROVE  /\ NoChange(toApp') /\ NoChange(extQueue')
                      /\ Together /\ Unwelcomed(ahead, p) => TreeLeads(ahead, p, tree["app"], edits, appSeq)
    BY DEF TreesLead
  <2>1. ahead[p].id \in CleanIn(asks)
    <3>1. ahead[p] \in ToSet(toExt)
      BY DEF ToSet
    <3> QED
      BY <1>10, <1>11, <3>1
  <2>2. /\ NoChange(toApp) /\ NoChange(extQueue)
        /\ Together /\ Unwelcomed(ahead, p) => TreeLeads(ahead, p, tree["app"], edits, appSeq)
    BY <2>1 DEF TreesLead
  <2>3. NoChange(toApp \o say)
    BY <1>2, <1>4, <2>2, Kinds, StillAppended
  <2>4. NoChange(toApp') /\ NoChange(extQueue')
    BY <1>3, <1>13, <2>2, <2>3, EmptyStill
  <2> QED
    BY <2>2, <2>4
<1>18. TreesLead(toExt', toApp', extQueue', more, Together, tree["app"], edits, appSeq)
  <2>1. CASE Together
    BY <1>3, <1>17, <2>1
  <2>2. CASE ~Together
    <3>1. PICK w \in Seq(ToExt) : toExt' = ahead \o w /\ \A x \in ToSet(w) : x.type = "refused"
      BY <1>3
    <3>2. \A x \in ToSet(w) : x.type # "tree"
      BY <3>1
    <3>3. TreesLead(ahead \o w, toApp', extQueue', more, Together, tree["app"], edits, appSeq)
      BY <1>17, <2>2, <3>2, TreesApart
    <3> QED
      BY <3>1, <3>3
  <2> QED
    BY <2>1, <2>2
<1>19. Pulls'
  <2>1. TreesLead(toExt', toApp', extQueue', CleanIn(asks'), Together', tree'["app"], edits', appSeq')
    BY <1>9, <1>16, <1>18 DEF TreesLead
  <2> QED
    BY <1>9, <1>15, <2>1 DEF Pulls
<1> QED
  BY <1>1, <1>3, <1>4, <1>7, <1>8, <1>16, <1>19

(* A change is sent that waits for an answer.                              *)
LEMMA ChangeSent ==
    ASSUME FileInv, TreeInv, FileInv', UNCHANGED <<link, bound, tree, edits>>, NEW say \in Seq(ToApp),
           NEW ahead \in Seq(ToExt), ToSet(ahead) \subseteq ToSet(toExt), ExtSends(say, ahead),
           CleanIn(asks') = {}, ~synced',
           \A m \in ToSet(say) : IsChange(m) => m.change.edit \in Held'
    PROVE  TreeInv'
<1>1. link["ext"] # "down" => extQueue' = << >>
  BY Says
<1>2. /\ ToSet(toApp') \subseteq ToSet(toApp) \cup ToSet(say)
      /\ ToSet(extQueue') \subseteq ToSet(extQueue) \cup ToSet(say)
      /\ appQueue' = appQueue
      /\ \A x \in ToSet(toExt') : x \in ToSet(ahead) \/ x.type = "refused"
  BY ExtSendsIs DEF FileInv
<1>3. Sent'
  <2>1. PICK said : said = ToSet(say)
    OBVIOUS
  <2>2. \A x \in said : SentBy(x, edits')
    <3>1. \A x \in said : x.type # "tree"
      BY <2>1, Fields DEF ToSet
    <3>2. \A e \in Held' : e <= edits'
      BY Kinds DEF FileInv, Made
    <3> QED
      BY <2>1, <3>1, <3>2 DEF SentBy
  <2>3. edits' \in Nat /\ edits <= edits'
    BY Kinds
  <2>4. /\ ToSet(toApp') \subseteq ToSet(toApp) \cup ToSet(extQueue) \cup said
        /\ ToSet(extQueue') \subseteq ToSet(extQueue) \cup said
        /\ ToSet(appQueue') \subseteq ToSet(appQueue) \cup said
        /\ \A x \in ToSet(toExt') :
              x \in ToSet(toExt) \cup ToSet(appQueue) \cup said \/ x.type \notin {"tree", "change"}
    BY <1>2, <2>1
  <2> QED
    BY <2>2, <2>3, <2>4, SentKept
<1>4. KnownTrees' /\ Flushed'
  BY <1>1 DEF TreeInv, KnownTrees, Flushed
<1> QED
  BY <1>3, <1>4, NothingClean

LEMMA HeldAsk ==
    ASSUME FileInv', NEW a \in ToSet(asks'), a.for = "flush"
    PROVE  a.change.edit \in Held'
<1>1. Held' = HeldBy(pending', asks')
  BY HeldIs DEF FileInv
<1>2. a.change.edit \in Carries(a)
  BY DEF Carries
<1> QED
  BY <1>1, <1>2 DEF HeldBy

(* A request for the tree, under a free identifier.                        *)
LEMMA AskedSent ==
    ASSUME FileInv, TreeInv, Free # {}, NEW n \in Asking, n.id = Fresh, asks' = Append(asks, n),
           NEW ahead \in Seq(ToExt), ToSet(ahead) \subseteq ToSet(toExt),
           TreesLead(ahead, toApp, extQueue, CleanIn(asks), Together, tree["app"], edits, appSeq),
           ExtSends(<<Sync(Fresh)>>, ahead), UNCHANGED <<link, bound, tree, edits, appSeq>>
    PROVE  /\ Sent' /\ KnownTrees' /\ Flushed' /\ Pulls' /\ (Together' => Together)
           /\ Together => toExt' = ahead /\ toApp' \in {toApp, Append(toApp, Sync(Fresh))}
<1>1. PICK i, say : i = Fresh /\ say = <<Sync(i)>>
  OBVIOUS
<1>2. i \in Id /\ i \in Int /\ Unknown(i)
  BY <1>1, FreshIs, FreeIs DEF FileInv, Id
<1>3. say \in Seq(ToApp)
  BY <1>1, <1>2, Built, Single
<1>4. CleanIn(asks') \subseteq CleanIn(asks) \cup {i}
  BY <1>1, Kinds, CleanAdded
<1>5. ExtSends(say, ahead) /\ (say = << >> \/ say = <<Sync(i)>>) /\ UNCHANGED <<link, bound>>
  BY <1>1
<1>6. tree'["app"] = tree["app"] /\ tree'["ext"] \in Known(edits) /\ UNCHANGED <<edits, appSeq>>
  BY DEF TreeInv, KnownTrees
<1>7. /\ Sent' /\ KnownTrees' /\ Flushed' /\ Pulls' /\ (Together' => Together)
      /\ Together => toExt' = ahead /\ toApp' \in {toApp, Append(toApp, Sync(i))}
  BY <1>2, <1>3, <1>4, <1>5, <1>6, SyncsSent
<1> QED
  BY <1>1, <1>7

LEMMA AskedMends ==
    ASSUME FileInv, TreeInv, Free # {}, NEW n \in Asking, n.id = Fresh, asks' = Append(asks, n),
           ExtSends(<<Sync(Fresh)>>, toExt), UNCHANGED <<link, bound>>,
           UNCHANGED <<tree, appSeq, peerSeq, pending, edits, owed, synced>>
    PROVE  TreeInv'
<1>1. TreesLead(toExt, toApp, extQueue, CleanIn(asks), Together, tree["app"], edits, appSeq)
  BY DEF TreeInv, Pulls
<1>2. /\ Sent' /\ KnownTrees' /\ Flushed' /\ Pulls' /\ (Together' => Together)
      /\ Together => toExt' = toExt /\ toApp' \in {toApp, Append(toApp, Sync(Fresh))}
  BY <1>1, Kinds, AskedSent
<1>3. ~IsChange(Sync(Fresh))
  BY DEF IsChange, Sync
<1>4. Mending'
  <2> SUFFICES ASSUME synced', Intact', pending' = << >>
               PROVE  /\ peerSeq' <= appSeq'
                      /\ Course(toApp', toExt', tree'["app"], tree'["ext"], edits', owed', peerSeq')
    BY DEF Mending
  <2>1. Together /\ toExt' = toExt /\ toApp' \in {toApp, Append(toApp, Sync(Fresh))}
    BY <1>2 DEF Intact
  <2>2. Intact
    BY <2>1 DEF Intact
  <2>3. /\ peerSeq <= appSeq
        /\ Course(toApp, toExt, tree["app"], tree["ext"], edits, owed, peerSeq)
    BY <2>2 DEF TreeInv, Mending
  <2>4. Course(Append(toApp, Sync(Fresh)), toExt, tree["app"], tree["ext"], edits, owed, peerSeq)
    BY <1>3, <2>3, Kinds, CourseSkips
  <2> QED
    BY <2>1, <2>3, <2>4
<1> QED
  BY <1>2, <1>4 DEF TreeInv

LEMMA PullsMends == ASSUME FileInv, TreeInv, ExtPulls PROVE TreeInv'
<1>1. /\ Free # {} /\ asks' = Append(asks, Pull(Fresh)) /\ ExtSends(<<Sync(Fresh)>>, toExt)
      /\ UNCHANGED <<link, bound>>
      /\ UNCHANGED <<tree, appSeq, peerSeq, pending, edits, owed, synced>>
  BY DEF ExtPulls
<1>2. Pull(Fresh) \in Asking /\ Pull(Fresh).id = Fresh
  BY <1>1, FreshIs, FreeIs, Built DEF FileInv
<1> QED
  BY <1>1, <1>2, AskedMends

LEMMA WakesMends == ASSUME FileInv, TreeInv, Wakes PROVE TreeInv'
<1>1. /\ Free # {} /\ ExtSends(<<Sync(Fresh)>>, toExt) /\ UNCHANGED <<link, bound>>
      /\ UNCHANGED <<tree, appSeq, peerSeq, pending, edits, owed, synced>>
  BY DEF Wakes, history
<1>2. PICK i \in DOMAIN naps : asks' = Append(asks, Retry(Fresh, naps[i]))
  BY DEF Wakes
<1>3. naps[i] \in Attempts
  BY Typed DEF FileInv
<1>4. Retry(Fresh, naps[i]) \in Asking /\ Retry(Fresh, naps[i]).id = Fresh
  BY <1>1, <1>3, FreshIs, FreeIs, Built DEF FileInv
<1> QED
  BY <1>1, <1>2, <1>4, AskedMends

-----------------------------------------------------------------------------
(* Requests end.                                                           *)

(* What follows: a change is sent again, or the tree is asked for, or      *)
(* nothing is sent.                                                        *)
Ending(r, a) ==
    \/ /\ a.for = "flush"
       /\ \E n \in Asking, m \in ToApp :
             /\ r.ask = <<n>> /\ r.say = <<m>>
             /\ n.for = "flush" /\ m.type = "change" /\ m.change = n.change
    \/ /\ \/ r.ask = << >> /\ r.say = << >>
          \/ Free # {} /\ r.ask = <<Pull(Fresh)>> /\ r.say = <<Sync(Fresh)>>
       /\ r.pending = << >> => pending = << >>

LEMMA ContinuationEnds ==
    ASSUME TypeOK, NEW a \in Asking, NEW answered \in BOOLEAN, a.for = "flush" => Free # {},
           NEW r, r = Continuation(a, answered)
    PROVE  Ending(r, a)
<1> DEFINE failed == IF answered THEN a.failed ELSE Append(a.failed, a.change)
           none == [ask |-> << >>, say |-> << >>, nap |-> << >>, pending |-> pending]
<1>1. a.for \in {"edit", "flush", "retry", "pull"} /\ pending \in Seq(Change)
  BY Typed, Fields
<1>2. CASE a.for = "edit" /\ ~answered
  <2>1. r = [none EXCEPT !.pending = Enqueue(a.change)]
    BY <1>2 DEF Continuation
  <2>2. a.change \in ToSet(Enqueue(a.change))
    BY <1>2, Fields, EnqueueIs DEF ForChange
  <2>3. Enqueue(a.change) # << >>
    BY <2>2, Empty
  <2> QED
    BY <2>1, <2>3 DEF Ending
<1>3. CASE a.for = "flush"
  <2>1. a.change \in Change /\ a.rest \in Seq(Change) /\ a.failed \in Seq(Change)
    BY <1>3, Fields DEF ForChange
  <2>2. failed \in Seq(Change) /\ Fresh \in Id
    BY <1>3, <2>1, FreshIs, FreeIs
  <2>3. CASE a.rest # << >>
    <3>1. r = [none EXCEPT !.ask = <<Flush(Fresh, a.rest, failed)>>, !.say = <<Request(Fresh, Head(a.rest))>>]
      BY <1>3, <2>3 DEF Continuation
    <3> HIDE DEF failed
    <3>2. PICK n, m : n = Flush(Fresh, a.rest, failed) /\ m = Request(Fresh, Head(a.rest))
      OBVIOUS
    <3>3. n \in Asking /\ n.for = "flush" /\ n.change = Head(a.rest)
      BY <2>1, <2>2, <2>3, <3>2, FlushIs
    <3>4. Head(a.rest) \in Change
      BY <2>1, <2>3, Behind
    <3>5. m \in ToApp /\ m.type = "change" /\ m.change = Head(a.rest)
      <4>1. PICK i \in Id, c \in Change : i = Fresh /\ c = Head(a.rest)
        BY <2>2, <3>4
      <4>2. m = Request(i, c)
        BY <3>2, <4>1
      <4>3. m \in ToApp /\ m.type = "change" /\ m.change = c
        BY <4>2 DEF Request, ToApp
      <4> QED
        BY <4>1, <4>3
    <3> QED
      BY <1>3, <3>1, <3>2, <3>3, <3>5 DEF Ending
  <2>4. CASE a.rest = << >> /\ failed # << >>
    <3>1. r = [none EXCEPT !.pending = failed \o pending]
      BY <1>3, <2>4 DEF Continuation
    <3> HIDE DEF failed
    <3>2. failed \o pending # << >>
      <4>1. Len(failed \o pending) = Len(failed) + Len(pending) /\ Len(failed) \in Nat /\ Len(pending) \in Nat
        BY <1>1, <2>2
      <4>2. Len(failed) # 0
        BY <2>2, <2>4
      <4> QED
        BY <4>1, <4>2
    <3> QED
      BY <3>1, <3>2 DEF Ending
  <2>5. CASE a.rest = << >> /\ failed = << >>
    <3>1. r = [none EXCEPT !.ask = <<Pull(Fresh)>>, !.say = <<Sync(Fresh)>>]
      BY <1>3, <2>5 DEF Continuation
    <3> QED
      BY <1>3, <3>1 DEF Ending
  <2> QED
    BY <2>3, <2>4, <2>5
<1>4. CASE a.for = "retry" /\ ~answered
  <2>1. r = [none EXCEPT !.nap = Sleeps(a.left)]
    BY <1>4 DEF Continuation
  <2> QED
    BY <2>1 DEF Ending
<1>5. CASE (answered /\ a.for # "flush") \/ a.for = "pull"
  <2>1. r = none
    BY <1>5 DEF Continuation
  <2> QED
    BY <2>1 DEF Ending
<1> QED
  BY <1>1, <1>2, <1>3, <1>4, <1>5

(* No change is sent.                                                      *)
Rests(k, answered, ahead, i, say) ==
    /\ Unknown(i) /\ (say = << >> \/ say = <<Sync(i)>>) /\ ExtSends(say, ahead)
    /\ CleanIn(asks') \subseteq CleanIn(asks) \cup {i}
    /\ pending' = << >> => pending = << >> /\ owed' = owed
    /\ synced' => IF ~ForChange(asks[k]) /\ answered THEN asks[k].clean ELSE synced

Resends(k, ahead, say) ==
    /\ asks[k].for = "flush"
    /\ ExtSends(say, ahead) /\ CleanIn(asks') = {} /\ ~synced'
    /\ \A m \in ToSet(say) : \E a \in ToSet(asks') : a.for = "flush" /\ m.change = a.change

LEMMA EndsIs ==
    ASSUME FileInv, NEW k \in DOMAIN asks, NEW answered \in BOOLEAN, NEW ahead, Ends(k, answered, ahead)
    PROVE  \/ \E say \in Seq(ToApp) : Resends(k, ahead, say)
           \/ \E i \in Int, say \in Seq(ToApp) : Rests(k, answered, ahead, i, say)
<1>1. PICK a, r, others : a = asks[k] /\ r = Continuation(a, answered) /\ others = RemoveAt(asks, k)
  OBVIOUS
<1>2. PICK again \in BOOLEAN : again <=> r.say # << >> /\ r.say[1].type = "change"
  OBVIOUS
<1>3. /\ a.for = "flush" => Free # {}
      /\ asks' = (IF again THEN Crossed(others) ELSE others) \o r.ask
      /\ pending' = r.pending
      /\ owed' = owed \ {c.edit : c \in ToSet(pending) \ ToSet(r.pending)}
      /\ ExtSends(r.say, ahead)
  BY <1>1, <1>2 DEF Ends
<1>4. synced' = IF a.for \in {"retry", "pull"} /\ answered THEN a.clean ELSE synced /\ ~again
  BY <1>1, <1>2 DEF Ends
<1>5. a \in Asking /\ asks \in Seq(Asking) /\ a.for \in {"edit", "flush", "retry", "pull"}
  BY <1>1, Typed, Fields DEF FileInv
<1>6. Ending(r, a)
  BY <1>1, <1>3, <1>5, ContinuationEnds DEF FileInv
<1>7. others \in Seq(Asking) /\ ToSet(others) \subseteq ToSet(asks)
  BY <1>1, <1>5, RemovedFrom
<1>8. CleanIn(others) \subseteq CleanIn(asks)
  BY <1>7 DEF CleanIn
<1>9. ASSUME a.for = "flush", NEW n \in Asking, NEW m \in ToApp, r.ask = <<n>>, r.say = <<m>>,
             n.for = "flush", m.type = "change", m.change = n.change
      PROVE  \E say \in Seq(ToApp) : Resends(k, ahead, say)
  <2>1. again
    BY <1>2, <1>9
  <2>2. PICK qs : qs = Crossed(others)
    OBVIOUS
  <2>3. qs \in Seq(Asking) /\ CleanIn(qs) = {}
    BY <1>7, <2>2, CrossedIs, CrossedClean
  <2>4. asks' = Append(qs, n)
    BY <1>3, <1>9, <2>1, <2>2, <2>3, AppendIsConcat
  <2>5. CleanIn(asks') = {} /\ n \in ToSet(asks')
    BY <1>9, <2>3, <2>4, CleanAdded, Appended DEF ForChange
  <2>6. ~synced'
    BY <1>4, <1>9, <2>1
  <2>7. PICK say : say = <<m>>
    OBVIOUS
  <2>8. say \in Seq(ToApp) /\ ToSet(say) = {m}
    BY <2>7, Single
  <2> QED
    BY <1>1, <1>3, <1>9, <2>5, <2>6, <2>7, <2>8 DEF Resends
<1>10. ASSUME r.pending = << >> => pending = << >>
       PROVE  pending' = << >> => pending = << >> /\ owed' = owed
  BY <1>3, <1>10, Empty
<1>11. ASSUME ~again
       PROVE  synced' => IF ~ForChange(asks[k]) /\ answered THEN asks[k].clean ELSE synced
  BY <1>1, <1>4, <1>5, <1>11 DEF ForChange
<1>12. ASSUME r.ask = << >>, r.say = << >>, r.pending = << >> => pending = << >>
       PROVE  \E i \in Int, say \in Seq(ToApp) : Rests(k, answered, ahead, i, say)
  <2>1. Unknown(0) /\ 0 \in Int
    <3>1. \A i \in Id : i # 0
      BY DEF Id
    <3> QED
      BY <3>1, Typed, Fields DEF FileInv, Unknown, ToSet
  <2>2. ~again
    BY <1>2, <1>12
  <2>3. asks' = others
    BY <1>3, <1>7, <1>12, <2>2, ConcatEmptySeq
  <2>4. << >> \in Seq(ToApp) /\ ExtSends(<< >>, ahead) /\ CleanIn(asks') \subseteq CleanIn(asks) \cup {0}
    BY <1>3, <1>8, <1>12, <2>3, Empty
  <2>5. Rests(k, answered, ahead, 0, << >>)
    BY <1>10, <1>11, <1>12, <2>1, <2>2, <2>4 DEF Rests
  <2> QED
    BY <2>1, <2>4, <2>5
<1>13. ASSUME Free # {}, r.ask = <<Pull(Fresh)>>, r.say = <<Sync(Fresh)>>, r.pending = << >> => pending = << >>
       PROVE  \E i \in Int, say \in Seq(ToApp) : Rests(k, answered, ahead, i, say)
  <2>1. PICK i, n, m : i = Fresh /\ n = Pull(Fresh) /\ m = Sync(Fresh)
    OBVIOUS
  <2>2. i \in Id /\ i \in Int /\ Unknown(i)
    BY <1>13, <2>1, FreshIs, FreeIs DEF FileInv, Id
  <2>3. n \in Asking /\ n.id = i /\ m \in ToApp /\ m.type = "sync"
    BY <2>1, <2>2, Built
  <2>4. ~again
    BY <1>2, <1>13, <2>1, <2>3
  <2>5. asks' = Append(others, n)
    BY <1>3, <1>7, <1>13, <2>1, <2>3, <2>4, AppendIsConcat
  <2>6. CleanIn(asks') \subseteq CleanIn(asks) \cup {i}
    BY <1>7, <1>8, <2>3, <2>5, CleanAdded
  <2>7. PICK say : say = <<m>>
    OBVIOUS
  <2>8. say \in Seq(ToApp) /\ say = <<Sync(i)>> /\ ExtSends(say, ahead)
    BY <1>3, <1>13, <2>1, <2>3, <2>7, Single
  <2>9. Rests(k, answered, ahead, i, say)
    BY <1>10, <1>11, <1>13, <2>2, <2>4, <2>6, <2>8 DEF Rests
  <2> QED
    BY <2>2, <2>8, <2>9
<1> QED
  BY <1>6, <1>9, <1>12, <1>13 DEF Ending

(* A change is sent again.                                                 *)
LEMMA ResendsMends ==
    ASSUME FileInv, TreeInv, FileInv', UNCHANGED <<link, bound, tree, edits>>, NEW say \in Seq(ToApp),
           NEW ahead \in Seq(ToExt), ToSet(ahead) \subseteq ToSet(toExt), NEW k, Resends(k, ahead, say)
    PROVE  TreeInv'
<1>1. ExtSends(say, ahead) /\ CleanIn(asks') = {} /\ ~synced'
  BY DEF Resends
<1>2. ASSUME NEW m \in ToSet(say)
      PROVE  m.change.edit \in Held'
  <2>1. PICK a \in ToSet(asks') : a.for = "flush" /\ m.change = a.change
    BY <1>2 DEF Resends
  <2>2. a.change.edit \in Held'
    BY <2>1, HeldAsk
  <2> QED
    BY <2>1, <2>2
<1> QED
  BY <1>1, <1>2, ChangeSent

(* A message that the extension does not take for a tree is behind it, or  *)
(* the time of a request has run out.                                      *)
LEMMA EndsMends ==
    ASSUME FileInv, TreeInv, FileInv', UNCHANGED <<link, bound, tree, edits, appSeq, peerSeq>>,
           NEW k \in DOMAIN asks, NEW answered \in BOOLEAN,
           NEW ahead \in Seq(ToExt), ToSet(ahead) \subseteq ToSet(toExt), Ends(k, answered, ahead),
           answered => ForChange(asks[k]),
           ahead = toExt \/ (toExt # << >> /\ ahead = Tail(toExt)
                               /\ Head(toExt).type \notin {"change", "welcome"})
    PROVE  TreeInv'
<1>1. CASE \E say \in Seq(ToApp) : Resends(k, ahead, say)
  BY <1>1, ResendsMends
<1>2. ASSUME NEW i \in Int, NEW say \in Seq(ToApp), Rests(k, answered, ahead, i, say)
      PROVE  TreeInv'
  <2>1. /\ Unknown(i) /\ (say = << >> \/ say = <<Sync(i)>>) /\ ExtSends(say, ahead)
        /\ CleanIn(asks') \subseteq CleanIn(asks) \cup {i}
        /\ pending' = << >> => pending = << >> /\ owed' = owed
        /\ synced' => synced
    BY <1>2 DEF Rests
  <2>2. TreesLead(ahead, toApp, extQueue, CleanIn(asks), Together, tree["app"], edits, appSeq)
    BY Kinds, TreesBehind DEF TreeInv, Pulls
  <2>3. tree'["app"] = tree["app"] /\ tree'["ext"] \in Known(edits)
    BY DEF TreeInv, KnownTrees
  <2>4. /\ Sent' /\ KnownTrees' /\ Flushed' /\ Pulls' /\ (Together' => Together)
        /\ Together => toExt' = ahead /\ toApp' \in {toApp, Append(toApp, Sync(i))}
    BY <2>1, <2>2, <2>3, SyncsSent
  <2>5. Mending'
    <3> SUFFICES ASSUME synced', Intact', pending' = << >>
                 PROVE  /\ peerSeq' <= appSeq'
                        /\ Course(toApp', toExt', tree'["app"], tree'["ext"], edits', owed', peerSeq')
      BY DEF Mending
    <3>1. Together /\ toExt' = ahead /\ toApp' \in {toApp, Append(toApp, Sync(i))}
      BY <2>4 DEF Intact
    <3>2. Unwelcomed(ahead, 1)
      BY <3>1 DEF Intact
    <3>3. Intact
      BY <3>1, <3>2, Kinds, WelcomeBehind DEF Intact
    <3>4. /\ peerSeq <= appSeq
          /\ Course(toApp, toExt, tree["app"], tree["ext"], edits, owed, peerSeq)
      BY <2>1, <3>3 DEF TreeInv, Mending
    <3>5. Course(toApp, ahead, tree["app"], tree["ext"], edits, owed, peerSeq)
      BY <3>4, Kinds, CourseSkips DEF IsChange
    <3>6. CourseArgs(toApp, ahead, tree["app"], tree["ext"], edits, owed)
      BY Kinds DEF CourseArgs
    <3>7. ~IsChange(Sync(i))
      BY DEF IsChange, Sync
    <3>8. Course(Append(toApp, Sync(i)), ahead, tree["app"], tree["ext"], edits, owed, peerSeq)
      BY <3>5, <3>6, <3>7, CourseSkips
    <3> QED
      BY <2>1, <3>1, <3>4, <3>5, <3>8
  <2> QED
    BY <2>4, <2>5 DEF TreeInv
<1> QED
  BY <1>1, <1>2, EndsIs

LEMMA TimesOutMends == ASSUME FileInv, TreeInv, FileInv', TimesOut PROVE TreeInv'
<1>1. /\ asks # << >> /\ Ends(1, FALSE, toExt)
      /\ UNCHANGED <<link, bound, tree, edits, appSeq, peerSeq>>
  BY DEF TimesOut
<1>2. 1 \in DOMAIN asks
  BY <1>1, Kinds
<1> QED
  BY <1>1, <1>2, Kinds, EndsMends

LEMMA ChangeAnsweredMends == ASSUME FileInv, TreeInv, FileInv', ChangeAnswered PROVE TreeInv'
<1>1. PICK m, t : m = Head(toExt) /\ t = Tail(toExt)
  OBVIOUS
<1>2. /\ toExt # << >> /\ m.type \in {"done", "refused"} /\ Asked # 0
      /\ Ends(Asked, m.type = "done", t)
      /\ UNCHANGED <<link, bound, tree, edits, appSeq, peerSeq>>
  BY <1>1 DEF ChangeAnswered, Answered
<1>3. PICK k \in DOMAIN asks : k = Asked /\ asks[k].id = m.id
  BY <1>1, <1>2, AskedIs DEF FileInv
<1>4. /\ t \in Seq(ToExt) /\ ToSet(t) \subseteq ToSet(toExt) /\ m \in ToSet(toExt)
  BY <1>1, <1>2, Kinds, Behind
<1>5. m.type = "done" => ForChange(asks[k])
  <2>1. Answers(m, asks, owed) /\ asks[k] \in ToSet(asks)
    BY <1>3, <1>4 DEF FileInv, Matched, ToSet
  <2> QED
    BY <1>3, <2>1 DEF Answers
<1>6. PICK answered \in BOOLEAN : answered <=> m.type = "done"
  OBVIOUS
<1>7. answered = (m.type = "done")
  BY <1>6
<1>8. Ends(k, answered, t)
  BY <1>2, <1>3, <1>7
<1> QED
  BY <1>1, <1>2, <1>4, <1>5, <1>6, <1>8, EndsMends

LEMMA WelcomedMends == ASSUME FileInv, TreeInv, FileInv', Welcomed PROVE TreeInv'
<1>1. /\ toExt # << >> /\ ~synced' /\ UNCHANGED <<link, bound, tree, edits, appSeq, owed>>
  BY DEF Welcomed, ExtReceives
<1>2. PICK ahead : ahead = Tail(toExt)
  OBVIOUS
<1>3. ahead \in Seq(ToExt) /\ ToSet(ahead) \subseteq ToSet(toExt)
  BY <1>1, <1>2, Kinds, Behind
<1>4. TreesLead(ahead, toApp, extQueue, CleanIn(asks), Together, tree["app"], edits, appSeq)
  BY <1>1, <1>2, Kinds, TreesBehind DEF TreeInv, Pulls
<1>5. Mending'
  BY <1>1 DEF Mending
<1>6. ASSUME paired
      PROVE  TreeInv'
  <2>1. toExt' = ahead /\ UNCHANGED <<toApp, appQueue, extQueue, asks>>
    BY <1>2, <1>6 DEF Welcomed, extension
  <2>2. Sent'
    <3>1. edits' \in Nat /\ edits <= edits'
      BY <1>1, Kinds
    <3> QED
      BY <1>3, <2>1, <3>1, NoneSent
  <2>3. KnownTrees' /\ Flushed'
    BY <1>1, <2>1 DEF TreeInv, KnownTrees, Flushed
  <2>4. (Together' <=> Together) /\ CleanIn(asks') = CleanIn(asks)
    BY <1>1, <2>1 DEF Together
  <2>5. Pulls'
    BY <1>1, <1>4, <2>1, <2>4 DEF TreeInv, Pulls
  <2> QED
    BY <1>5, <2>2, <2>3, <2>5 DEF TreeInv
<1>7. ASSUME ~paired
      PROVE  TreeInv'
  <2>1. Free # {} /\ ((pending # << >>) => Free \ {Fresh} # {})
    BY <1>7 DEF Welcomed
  <2>2. PICK n, s : n = Retry(Fresh, MaxAttempts) /\ s = Sync(Fresh)
    OBVIOUS
  <2>3. Fresh \in Free /\ Fresh \in Id /\ MaxAttempts \in Attempts
    BY <2>1, FreshIs, FreeIs, Bounds DEF FileInv, Attempts
  <2>4. n \in Asking /\ n.id = Fresh /\ s \in ToApp /\ s.type = "sync"
    BY <2>2, <2>3, Built
  <2>5. ASSUME pending = << >>
        PROVE  TreeInv'
    <3>1. asks' = Append(asks, n) /\ ExtSends(<<s>> \o << >>, ahead)
      BY <1>2, <1>7, <2>2, <2>5 DEF Welcomed
    <3>2. <<s>> \o << >> = <<s>>
      OBVIOUS
    <3>3. ExtSends(<<Sync(Fresh)>>, ahead)
      BY <2>2, <3>1, <3>2
    <3>4. Sent' /\ KnownTrees' /\ Flushed' /\ Pulls'
      BY <1>1, <1>3, <1>4, <2>1, <2>4, <3>1, <3>3, AskedSent
    <3> QED
      BY <1>5, <3>4 DEF TreeInv
  <2>6. ASSUME pending # << >>
        PROVE  TreeInv'
    <3>1. PICK m, f : m = Request(Another, Head(pending)) /\ f = Flush(Another, pending, << >>)
      OBVIOUS
    <3>2. asks' = Crossed(Append(asks, n)) \o <<f>> /\ ExtSends(<<s>> \o <<m>>, ahead)
      BY <1>2, <1>7, <2>2, <2>6, <3>1 DEF Welcomed
    <3>3. /\ Another \in Id /\ pending \in Seq(Change) /\ Head(pending) \in Change
          /\ << >> \in Seq(Change)
      BY <2>1, <2>6, FreshIs, FreeIs, Typed, Behind, Empty DEF FileInv
    <3>4. f \in Asking /\ f.for = "flush" /\ f.change = Head(pending)
      <4>1. PICK id \in Id, cs \in Seq(Change), failed \in Seq(Change) :
              id = Another /\ cs = pending /\ failed = << >>
        BY <3>3
      <4>2. f = Flush(id, cs, failed) /\ cs # << >>
        BY <2>6, <3>1, <4>1
      <4>3. f \in Asking /\ f.for = "flush" /\ f.change = Head(cs)
        BY <4>2, FlushIs
      <4> QED
        BY <4>1, <4>3
    <3>5. m \in ToApp /\ m.change = Head(pending)
      BY <3>1, <3>3 DEF Request, ToApp
    <3>6. PICK qs : qs = Crossed(Append(asks, n))
      OBVIOUS
    <3>7. qs \in Seq(Asking) /\ CleanIn(qs) = {}
      <4>1. Append(asks, n) \in Seq(Asking)
        BY <2>4, Kinds
      <4> QED
        BY <3>6, <4>1, CrossedIs, CrossedClean
    <3>8. asks' = Append(qs, f)
      BY <3>2, <3>4, <3>6, <3>7, AppendIsConcat
    <3>9. CleanIn(asks') = {} /\ f \in ToSet(asks')
      BY <3>4, <3>7, <3>8, CleanAdded, Appended DEF ForChange
    <3>10. m.change.edit \in Held'
      <4>1. f.change.edit \in Held'
        BY <3>4, <3>9, HeldAsk
      <4> QED
        BY <3>4, <3>5, <4>1
    <3>11. PICK ms : ms = <<s>> \o <<m>>
      OBVIOUS
    <3>12. ms \in Seq(ToApp) /\ ToSet(ms) = {s, m}
      <4>1. <<s>> \in Seq(ToApp) /\ ToSet(<<s>>) = {s} /\ <<m>> \in Seq(ToApp) /\ ToSet(<<m>>) = {m}
        BY <2>4, <3>5, Single
      <4>2. PICK p, q : p = <<s>> /\ q = <<m>>
        OBVIOUS
      <4>3. p \in Seq(ToApp) /\ q \in Seq(ToApp)
        BY <4>1, <4>2
      <4>4. p \o q \in Seq(ToApp) /\ ToSet(p \o q) = ToSet(p) \cup ToSet(q)
        BY ONLY <4>3, Joined
      <4> QED
        BY <3>11, <4>1, <4>2, <4>4
    <3>13. ExtSends(ms, ahead) /\ \A w \in ToSet(ms) : IsChange(w) => w.change.edit \in Held'
      BY <2>4, <3>2, <3>10, <3>11, <3>12 DEF IsChange
    <3> QED
      BY <1>1, <1>3, <3>9, <3>12, <3>13, ChangeSent
  <2> QED
    BY <2>5, <2>6
<1> QED
  BY <1>6, <1>7

(* The tree of the app takes the place of the file of the extension.       *)
LEMMA TreeReceivedMends == ASSUME FileInv, TreeInv, FileInv', TreeReceived PROVE TreeInv'
<1>1. PICK m, t : m = Head(toExt) /\ t = Tail(toExt)
  OBVIOUS
<1>2. /\ toExt # << >> /\ m.type = "tree" /\ Asked # 0 /\ Ends(Asked, TRUE, t)
      /\ tree' = [tree EXCEPT !["ext"] = m.content] /\ peerSeq' = m.seq
      /\ UNCHANGED <<link, bound, edits, appSeq>>
  BY <1>1 DEF TreeReceived, Answered
<1>3. PICK k \in DOMAIN asks : k = Asked /\ asks[k].id = m.id
  BY <1>1, <1>2, AskedIs DEF FileInv
<1>4. /\ t \in Seq(ToExt) /\ ToSet(t) \subseteq ToSet(toExt) /\ m \in ToSet(toExt)
  BY <1>1, <1>2, Kinds, Behind
<1>5. ~ForChange(asks[k]) /\ asks[k] \in ToSet(asks)
  <2>1. Answers(m, asks, owed) /\ asks[k] \in ToSet(asks)
    BY <1>3, <1>4 DEF FileInv, Matched, ToSet
  <2> QED
    BY <1>2, <1>3, <2>1 DEF Answers
<1>6. tree'["app"] = tree["app"] /\ tree'["ext"] = m.content /\ m.content \in Known(edits)
  <2>1. m.content \in Known(edits)
    BY <1>2, <1>4 DEF TreeInv, Sent, SentBy
  <2> QED
    BY <1>2, <2>1, Typed DEF FileInv, Side
<1>7. PICK i \in Int, say \in Seq(ToApp) : Rests(k, TRUE, t, i, say)
  <2>1. \A say : ~Resends(k, t, say)
    BY <1>5 DEF Resends, ForChange
  <2> QED
    BY <1>2, <1>3, <2>1, EndsIs
<1>8. /\ Unknown(i) /\ (say = << >> \/ say = <<Sync(i)>>) /\ ExtSends(say, t)
      /\ CleanIn(asks') \subseteq CleanIn(asks) \cup {i}
      /\ pending' = << >> => pending = << >> /\ owed' = owed
      /\ synced' => asks[k].clean
  BY <1>5, <1>7 DEF Rests
<1>9. TreesLead(t, toApp, extQueue, CleanIn(asks), Together, tree["app"], edits, appSeq)
  BY <1>1, <1>2, Kinds, TreesBehind DEF TreeInv, Pulls
<1>10. /\ Sent' /\ KnownTrees' /\ Flushed' /\ Pulls' /\ (Together' => Together)
       /\ Together => toExt' = t /\ toApp' \in {toApp, Append(toApp, Sync(i))}
  <2>1. UNCHANGED <<link, bound>> /\ UNCHANGED <<edits, appSeq>> /\ tree'["ext"] \in Known(edits)
    BY <1>2, <1>6
  <2> QED
    BY <1>4, <1>6, <1>8, <1>9, <2>1, SyncsSent
<1>11. Mending'
  <2> SUFFICES ASSUME synced', Intact', pending' = << >>
               PROVE  /\ peerSeq' <= appSeq'
                      /\ Course(toApp', toExt', tree'["app"], tree'["ext"], edits', owed', peerSeq')
    BY DEF Mending
  <2>1. Together /\ toExt' = t /\ toApp' \in {toApp, Append(toApp, Sync(i))}
    BY <1>10 DEF Intact
  <2>2. Unwelcomed(toExt, 1)
    <3>1. Unwelcomed(t, 1)
      BY <2>1 DEF Intact
    <3> QED
      BY <1>1, <1>2, <3>1, Kinds, WelcomeBehind
  <2>3. m.id \in CleanIn(asks)
    BY <1>3, <1>5, <1>8 DEF CleanIn
  <2>4. NoChange(toApp) /\ TreeLeads(toExt, 1, tree["app"], edits, appSeq)
    <3>1. 1 \in DOMAIN toExt /\ toExt[1] = m
      BY <1>1, <1>2, Kinds
    <3> QED
      BY <1>2, <2>1, <2>2, <2>3, <3>1 DEF TreeInv, Pulls, TreesLead
  <2>5. Trail(t, 0, m.content, tree["app"], edits, FALSE) /\ Newer(t, 0, m.seq) /\ m.seq <= appSeq
    BY <1>1, <1>2, <2>4, Kinds, TreeTaken
  <2>6. NoChange(toApp')
    <3>1. ~IsChange(Sync(i))
      BY DEF IsChange, Sync
    <3>2. NoChange(Append(toApp, Sync(i)))
      BY <2>4, <3>1, Kinds, StillAppended
    <3> QED
      BY <2>1, <2>4, <3>2
  <2>7. AppAhead(toApp', t, tree["app"], m.content, edits, m.seq)
    BY <2>5, <2>6 DEF AppAhead
  <2> QED
    BY <1>2, <1>6, <2>1, <2>5, <2>7 DEF Course
<1> QED
  BY <1>10, <1>11 DEF TreeInv

LEMMA TreesBegin == Init => TreeInv
<1> SUFFICES ASSUME Init
             PROVE  TreeInv
  OBVIOUS
<1>1. PICK content \in {0, Missing} : tree = [app |-> content, ext |-> Missing]
  BY DEF Init
<1>2. /\ link = [app |-> "off", ext |-> "down"] /\ ~synced /\ edits = 0
      /\ toApp = << >> /\ toExt = << >> /\ appQueue = << >> /\ extQueue = << >>
  BY DEF Init
<1>3. Sent
  BY <1>2, Empty DEF Sent
<1>4. KnownTrees
  BY <1>1, <1>2 DEF KnownTrees, Known
<1>5. Flushed
  BY <1>2 DEF Flushed
<1>6. Pulls
  BY <1>2, EmptyStill DEF Pulls, TreesLead
<1>7. Mending
  BY <1>2 DEF Mending
<1> QED
  BY <1>3, <1>4, <1>5, <1>6, <1>7 DEF TreeInv

LEMMA NextMends == FileInv /\ TreeInv /\ [Next]_vars => TreeInv'
<1> SUFFICES ASSUME FileInv, TreeInv, [Next]_vars
             PROVE  TreeInv'
  OBVIOUS
<1>1. FileInv'
  BY NextKeeps
<1>2. CASE UNCHANGED vars
  <2>1. /\ UNCHANGED <<tree, link, bound, toApp, toExt, appQueue, extQueue, appSeq>>
        /\ UNCHANGED <<peerSeq, asks, pending, edits, owed, synced>>
    BY <1>2 DEF vars, exchange, extension, history
  <2>2. (Together' <=> Together) /\ (Intact' <=> Intact) /\ CleanIn(asks') = CleanIn(asks)
    BY <2>1 DEF Together, Intact
  <2>3. Sent' /\ KnownTrees' /\ Flushed'
    BY <2>1 DEF TreeInv, Sent, KnownTrees, Flushed
  <2>4. Pulls'
    <3>1. /\ SyncsLast(toApp, extQueue, CleanIn(asks)) /\ SyncsLast(extQueue, << >>, CleanIn(asks))
          /\ TreesLead(toExt, toApp, extQueue, CleanIn(asks), Together, tree["app"], edits, appSeq)
      BY DEF TreeInv, Pulls
    <3>2. TreesLead(toExt', toApp', extQueue', CleanIn(asks'), Together', tree'["app"], edits', appSeq')
      BY <2>1, <2>2, <3>1 DEF TreesLead
    <3> QED
      BY <2>1, <2>2, <3>1, <3>2 DEF Pulls
  <2>5. Mending'
    BY <2>1, <2>2 DEF TreeInv, Mending
  <2> QED
    BY <2>3, <2>4, <2>5 DEF TreeInv
<1>3. CASE \E side \in Side : Lose(side) \/ Notice(side) \/ BridgeNotices(side)
  BY <1>3, LoseMends, NoticeMends, BridgeNoticesMends
<1>4. CASE AppConnects \/ ExtConnects \/ AppStarts \/ AppStops \/ ExtRestarts
  BY <1>4, AppConnectsMends, ExtConnectsMends, StartsMends, StopsMends, RestartsMends
<1>5. CASE AppEdits \/ ExtEdits \/ ExtPulls \/ TimesOut \/ Wakes
  BY <1>1, <1>5, AppEditsMends, ExtEditsMends, PullsMends, TimesOutMends, WakesMends
<1>6. CASE Welcomed \/ ToldAway \/ AppChanged \/ AnsweredLate \/ ChangeAnswered \/ TreeReceived
  BY <1>1, <1>6, WelcomedMends, AwayMends, ChangedMends, LateMends, ChangeAnsweredMends, TreeReceivedMends
<1>7. CASE AppReceives
  BY <1>7, ReceivesMends
<1> QED
  BY <1>2, <1>3, <1>4, <1>5, <1>6, <1>7 DEF Next

(* Nothing is under way.                                                   *)
LEMMA Agreement == FileInv /\ TreeInv => TreesAgree
<1> SUFFICES ASSUME FileInv, TreeInv, Quiet, synced
             PROVE  tree["app"] = tree["ext"]
  BY DEF TreesAgree
<1>1. toApp = << >> /\ toExt = << >> /\ pending = << >> /\ Intact
  BY DEF Quiet, Intact, Together, Unwelcomed
<1>2. Course(<< >>, << >>, tree["app"], tree["ext"], edits, owed, peerSeq)
  BY <1>1 DEF TreeInv, Mending
<1>3. owed = {}
  <2>1. EditsOf(pending) = {}
    BY <1>1, Empty DEF EditsOf
  <2>2. \A a \in ToSet(asks) : Carries(a) = {}
    BY DEF Quiet, Carries, ToSet
  <2>3. Held = {}
    BY <2>1, <2>2, HeldIs DEF FileInv, HeldBy
  <2> QED
    BY <2>3 DEF FileInv, EditsAccounted
<1>4. NoChange(<< >>) /\ << >> \in Seq(ToExt) /\ << >> \in Seq(ToApp) /\ edits \in Nat
  BY EmptyStill, Kinds, Empty
<1>5. CASE ExtAhead(<< >>, << >>, tree["app"], tree["ext"], edits, owed)
  BY <1>4, <1>5, TrailEnds DEF ExtAhead
<1>6. CASE AppAhead(<< >>, << >>, tree["app"], tree["ext"], edits, peerSeq)
  BY <1>4, <1>6, TrailEnds DEF AppAhead
<1>7. CASE Refused(<< >>, tree["app"], edits, owed)
  BY <1>3, <1>7 DEF Refused
<1> QED
  BY <1>2, <1>5, <1>6, <1>7 DEF Course

(* Once nothing is under way and nothing pending, both sides hold the same *)
(* file: of whatever crossed, was refused or was lost since the last tree  *)
(* the extension received, what is still to come mends the rest.           *)
THEOREM TreesAgreeHolds == Spec => []TreesAgree
<1>1. Spec => []TreeInv
  <2>1. Init => TreeInv
    BY TreesBegin
  <2>2. FileInv /\ TreeInv /\ [Next]_vars => TreeInv'
    BY NextMends
  <2> QED
    BY <2>1, <2>2, Invariant, PTL DEF Spec
<1> QED
  BY <1>1, Agreement, Invariant, PTL
=============================================================================
