-------------------------- MODULE RuleHistoryProofs --------------------------
(***************************************************************************)
(* What `then` and `otherwise` promise, proved of every rule program.      *)
(***************************************************************************)
EXTENDS RuleHistory, BrainRuntimeProofs

(* A rule has fired when its record says so and none of its fibers is      *)
(* still on its way to the gate.                                           *)
Past == {"do", "spawn", "return"}

Fired(s) ==
    /\ DidFire(s)
    /\ \A f \in RuleFibers : fiber[f].rule = s => fiber[f].pc \in Past

(* A fiber that has still to be told about the rule above.                 *)
Unanswered(f) == fiber[f].pc \in {"start", "arm"} \/ fiber[f].trigger = "pending"

(* The rule below a rule has still to ask about it, or its parent has      *)
(* still to spawn the rule below.                                          *)
AwaitedBy(f, s) ==
    \/ PrecedingSibling[fiber[f].rule] = s /\ Unanswered(f)
    \/ /\ fiber[f].kids \in DOMAIN ChildRules[fiber[f].rule]
       /\ ChildRules[fiber[f].rule][fiber[f].kids] = s

Awaited(s) == \E f \in RuleFibers : AwaitedBy(f, s)

(* A firing that is in flight, or that the rule below has not been told    *)
(* of, has not been claimed.                                               *)
Owed(s) ==
    /\ Fired(s) /\ s \notin abandoned
    /\ Cluster(s) # {} \/ Awaited(s)

Owing == \A s \in Rule : Mode[s] # "otherwise" /\ Owed(s) => s \in unclaimed

(* Only a `then` rule asks, and who waits for an answer has asked.         *)
Askings ==
    \A f \in FiberId :
        /\ fiber[f].pc = "asked" => Mode[fiber[f].rule] = "then"
        /\ fiber[f].waits = "trigger" =>
              state[f] = "WAITING" /\ fiber[f].pc = "asked" /\ fiber[f].trigger = "pending"

AskInv == BrainInv /\ Askings

HistoryInv == AskInv /\ Owing

-----------------------------------------------------------------------------
(* What a step has to keep of a rule whose firing is owed.                 *)

Carried(f, s) ==
    /\ f \in RuleFibers
    /\ fiber'[f].rule = fiber[f].rule /\ fiber'[f].kids = fiber[f].kids
    /\ Unanswered(f)' => Unanswered(f)
    /\ (fiber[f].rule = s /\ fiber'[f].pc \in Past /\ DidFire(s)') => fiber[f].pc \in Past

LEMMA OwedKept ==
    ASSUME NEW s \in Rule,
           \A f \in RuleFibers' : Carried(f, s),
           \A f \in RuleFibers : \/ f \in RuleFibers' \/ fiber[f].rule # s
                                 \/ fiber[f].pc \in Past \/ s \in abandoned',
           Cluster(s)' # {} => Cluster(s) # {},
           DidFire(s)' => DidFire(s),
           abandoned \subseteq abandoned'
    PROVE  Owed(s)' => Owed(s)
<1> SUFFICES ASSUME Owed(s)'
             PROVE  Owed(s)
  OBVIOUS
<1>1. DidFire(s) /\ DidFire(s)' /\ s \notin abandoned
  BY DEF Owed, Fired
<1>2. ASSUME NEW f \in RuleFibers, fiber[f].rule = s
      PROVE  fiber[f].pc \in Past
  <2>1. CASE f \in RuleFibers'
    BY <1>1, <1>2, <2>1 DEF Carried, Owed, Fired
  <2>2. CASE f \notin RuleFibers'
    BY <1>2, <2>2 DEF Owed
  <2> QED
    BY <2>1, <2>2
<1>3. Awaited(s)' => Awaited(s)
  BY DEF Awaited, AwaitedBy, Carried
<1> QED
  BY <1>1, <1>2, <1>3 DEF Owed, Fired

(* What a step has to say of the firings that are claimed in it.           *)
Claimed(s) ==
    /\ s \in Rule /\ Mode[s] # "otherwise" /\ Owed(s)
    /\ s \notin abandoned' /\ Cluster(s)' = {} /\ ~Awaited(s)'

Accounted ==
    /\ \A s \in Rule : Mode[s] # "otherwise" /\ s \notin FiringRules => (Owed(s)' => Owed(s))
    /\ \A s \in Claims : Claimed(s)
    /\ Askings'

(* A fiber that is not told anything and does not come closer to its end.  *)
Quiet(f) ==
    /\ Live(f)' <=> Live(f)
    /\ fiber'[f].rule = fiber[f].rule /\ fiber'[f].kids = fiber[f].kids
    /\ fiber'[f].pc = fiber[f].pc
    /\ fiber'[f].trigger = fiber[f].trigger \/ fiber[f].trigger \in {"true", "false"}
    /\ fiber'[f].trigger # fiber[f].trigger => fiber'[f].trigger \in {"none", "swept"}
    /\ fiber[f].waits = "trigger" =>
          fiber'[f].waits = "trigger" /\ fiber'[f].trigger = fiber[f].trigger /\ state'[f] = state[f]
    /\ fiber'[f].waits = "trigger" /\ fiber[f].waits # "trigger" =>
          state'[f] = "WAITING" /\ fiber[f].pc = "asked" /\ fiber'[f].trigger = "pending"

LEMMA QuietStep ==
    ASSUME AskInv, \A f \in FiberId : Quiet(f), UNCHANGED <<firing, abandoned>>
    PROVE  Accounted
<1> USE DEF AskInv
<1>1. RuleFibers' = RuleFibers
  BY DEF RuleFibers, Quiet
<1>2. ASSUME NEW s \in Rule
      PROVE  Owed(s)' => Owed(s)
  <2>1. \A f \in RuleFibers' : Carried(f, s)
    BY <1>1 DEF RuleFibers, Quiet, Carried, Unanswered
  <2>2. Cluster(s)' = Cluster(s)
    BY DEF Cluster, Quiet
  <2> QED
    BY <1>1, <2>1, <2>2, OwedKept DEF DidFire
<1>3. ToldTrue = {}
  BY DEF ToldTrue, Quiet
<1>4. Askings'
  BY DEF Askings, Quiet
<1> QED
  BY <1>2, <1>3, <1>4 DEF Accounted, Claims

(* What a step does to one fiber's place in its code alone.                *)
LEMMA WaitIsQuiet ==
    ASSUME AskInv, NEW f \in FiberId, NEW w \in {"trigger", "host"}, GoesToWait(f, w),
           fiber[f].waits # "trigger",
           w = "trigger" => fiber[f].pc = "asked" /\ fiber[f].trigger = "pending"
    PROVE  \A g \in FiberId : Quiet(g)
<1> USE DEF GoesToWait
<1>1. fiber[f] \in Fiber /\ fiber \in [FiberId -> Fiber] /\ state \in [FiberId -> FiberState]
  BY DEF AskInv, BrainInv, TypeOK, QueueTypeOK
<1>2. \A g \in FiberId : g # f => fiber'[g] = fiber[g] /\ state'[g] = state[g]
  BY <1>1
<1>3. fiber'[f] = [fiber[f] EXCEPT !.waits = w] /\ state'[f] = "WAITING"
  BY <1>1
<1>4. /\ fiber'[f].rule = fiber[f].rule /\ fiber'[f].kids = fiber[f].kids
      /\ fiber'[f].trigger = fiber[f].trigger /\ fiber'[f].pc = fiber[f].pc
      /\ fiber'[f].waits = w
  BY <1>1, <1>3 DEF Fiber
<1>5. Quiet(f)
  BY <1>3, <1>4 DEF Quiet, Live, Alive
<1>6. \A g \in FiberId : g # f => Quiet(g)
  BY <1>2 DEF Quiet, Live
<1> QED
  BY <1>5, <1>6

LEMMA Unwaiting ==
    ASSUME AskInv, NEW f \in FiberId, state[f] # "WAITING"
    PROVE  fiber[f].waits # "trigger"
BY DEF AskInv, Askings

LEMMA SlicesAccounted ==
    ASSUME AskInv, NEW f \in FiberId,
           \/ AwaitTrigger(f) \/ AwaitHost(f) \/ Yield(f)
           \/ LeaveCancelled(f) \/ ErrorEscapes(f) \/ HostSettle(f)
    PROVE  Accounted
<1> USE DEF Executing
<1>1. /\ fiber[f] \in Fiber /\ fiber \in [FiberId -> Fiber]
      /\ state \in [FiberId -> FiberState]
  BY DEF AskInv, BrainInv, TypeOK, QueueTypeOK
<1>2. CASE AwaitTrigger(f)
  <2>1. GoesToWait(f, "trigger") /\ UNCHANGED <<firing, abandoned>>
        /\ fiber[f].pc = "asked" /\ fiber[f].trigger = "pending" /\ state[f] # "WAITING"
    BY <1>2 DEF AwaitTrigger, GoesToWait, ruleVars, Alive
  <2> QED
    BY <2>1, Unwaiting, WaitIsQuiet, QuietStep
<1>3. CASE AwaitHost(f)
  <2>1. GoesToWait(f, "host") /\ UNCHANGED <<firing, abandoned>> /\ state[f] # "WAITING"
    BY <1>3 DEF AwaitHost, GoesToWait, ruleVars, Alive
  <2> QED
    BY <2>1, Unwaiting, WaitIsQuiet, QuietStep
<1>4. CASE Yield(f) \/ ErrorEscapes(f)
  <2>1. UNCHANGED <<state, fiber, firing, abandoned>>
    BY <1>4 DEF Yield, ErrorEscapes, AbandonTick, ruleVars
  <2> QED
    BY <2>1, QuietStep DEF Quiet, Live
<1>5. CASE LeaveCancelled(f)
  <2>1. /\ UNCHANGED <<fiber, firing, abandoned>> /\ state[f] = "CANCELLED"
        /\ state' = [state EXCEPT ![f] = "absent"]
    BY <1>5 DEF LeaveCancelled, ruleVars
  <2>2. \A g \in FiberId : Quiet(g)
    BY <1>1, <2>1, Unwaiting DEF Quiet, Live, Alive
  <2> QED
    BY <2>1, <2>2, QuietStep
<1>6. CASE HostSettle(f)
  <2>1. /\ state' = [state EXCEPT ![f] = "RUNNABLE"] /\ state[f] = "WAITING"
        /\ fiber' = [fiber EXCEPT ![f].waits = "nothing"] /\ fiber[f].waits = "host"
        /\ UNCHANGED <<firing, abandoned>>
    BY <1>6 DEF HostSettle, ruleVars
  <2>2. \A g \in FiberId : g # f => fiber'[g] = fiber[g] /\ state'[g] = state[g]
    BY <1>1, <2>1
  <2>3. fiber'[f] = [fiber[f] EXCEPT !.waits = "nothing"] /\ state'[f] = "RUNNABLE"
    BY <1>1, <2>1
  <2>4. /\ fiber'[f].rule = fiber[f].rule /\ fiber'[f].kids = fiber[f].kids
        /\ fiber'[f].trigger = fiber[f].trigger /\ fiber'[f].pc = fiber[f].pc
        /\ fiber'[f].waits = "nothing"
    BY <1>1, <2>3 DEF Fiber
  <2>5. Quiet(f)
    BY <2>1, <2>3, <2>4 DEF Quiet, Live, Alive
  <2>6. \A g \in FiberId : g # f => Quiet(g)
    BY <2>2 DEF Quiet, Live
  <2> QED
    BY <2>1, <2>5, <2>6, QuietStep
<1> QED
  BY <1>2, <1>3, <1>4, <1>5, <1>6

LEMMA TickAccounted ==
    ASSUME AskInv, RunNext \/ EndThink \/ Throws \/ UNCHANGED vars
    PROVE  Accounted
<1>1. CASE RunNext \/ Throws \/ UNCHANGED vars
  <2>1. UNCHANGED <<state, fiber, firing, abandoned>>
    BY <1>1, ThrowsAre DEF RunNext, NextInRound, NextInCascade, ruleVars, vars
  <2> QED
    BY <2>1, QuietStep DEF Quiet, Live
<1>2. CASE EndThink
  <2>1. \A g \in FiberId :
           \/ fiber'[g] = fiber[g]
           \/ fiber[g].trigger \in {"true", "false"}
              /\ fiber'[g] = [fiber[g] EXCEPT !.trigger = "swept"]
    BY <1>2 DEF EndThink
  <2>2. \A g \in FiberId : fiber[g] \in Fiber
    BY DEF AskInv, BrainInv, TypeOK
  <2>3. \A x \in Fiber : LET y == [x EXCEPT !.trigger = "swept"] IN
           /\ y.rule = x.rule /\ y.kids = x.kids /\ y.waits = x.waits /\ y.pc = x.pc
           /\ y.trigger = "swept"
    BY DEF Fiber
  <2>4. UNCHANGED <<state, firing, abandoned>>
    BY <1>2 DEF EndThink, ruleVars
  <2>5. ASSUME NEW g \in FiberId
        PROVE  Quiet(g)
    <3>1. CASE fiber'[g] = fiber[g]
      BY <2>4, <3>1 DEF Quiet, Live
    <3>2. CASE /\ fiber[g].trigger \in {"true", "false"}
               /\ fiber'[g] = [fiber[g] EXCEPT !.trigger = "swept"]
      BY <2>2, <2>3, <2>4, <3>2 DEF Quiet, Live, AskInv, Askings
    <3> QED
      BY <2>1, <3>1, <3>2
  <2> QED
    BY <2>4, <2>5, QuietStep
<1> QED
  BY <1>1, <1>2

(* The running fiber goes on to another place of its code.                 *)
Lands(f, at, answer) ==
    /\ UNCHANGED <<state, abandoned>>
    /\ \A g \in FiberId : g # f => fiber'[g] = fiber[g]
    /\ fiber'[f].rule = fiber[f].rule /\ fiber'[f].kids = fiber[f].kids
    /\ fiber'[f].waits = fiber[f].waits
    /\ fiber'[f].pc = at /\ fiber'[f].trigger = answer

LEMMA GotoLands ==
    ASSUME AskInv, NEW f \in FiberId, NEW at, Goto(f, at), UNCHANGED <<state, abandoned>>
    PROVE  Lands(f, at, fiber[f].trigger)
<1>1. fiber[f] \in Fiber /\ fiber \in [FiberId -> Fiber]
  BY DEF AskInv, BrainInv, TypeOK
<1>2. /\ \A g \in FiberId : g # f => fiber'[g] = fiber[g]
      /\ fiber'[f] = [fiber[f] EXCEPT !.pc = at]
  BY <1>1 DEF Goto
<1>3. /\ fiber'[f].rule = fiber[f].rule /\ fiber'[f].kids = fiber[f].kids
      /\ fiber'[f].waits = fiber[f].waits /\ fiber'[f].pc = at
      /\ fiber'[f].trigger = fiber[f].trigger
  BY <1>1, <1>2 DEF Fiber
<1> QED
  BY <1>2, <1>3 DEF Lands

(* A rule that is armed, or that goes through its gate, owes nothing that  *)
(* it did not owe: it fires now, or its record no longer says it did.      *)
Unfired(f, at) ==
    \A s \in Rule : Mode[s] # "otherwise" /\ s \notin FiringRules /\ DidFire(s)' =>
        DidFire(s) /\ (fiber[f].rule = s /\ at \in Past => fiber[f].pc \in Past)

LEMMA LandsAccounted ==
    ASSUME AskInv, NEW f \in FiberId, Executing(f),
           NEW at \in {"arm", "when", "unarmed", "do", "return"},
           NEW answer \in {"none", fiber[f].trigger}, Lands(f, at, answer),
           fiber[f].pc # "action", at = "arm" => fiber[f].pc = "start",
           fiber[f].trigger # "pending", Unfired(f, at)
    PROVE  Accounted
<1>1. \A g \in FiberId : Live(g)' <=> Live(g)
  BY DEF Lands, Live
<1>2. RuleFibers' = RuleFibers
  BY <1>1 DEF RuleFibers, Lands
<1>3. fiber[f].waits # "trigger"
  BY Unwaiting DEF Executing
<1>4. ASSUME NEW s \in Rule, Mode[s] # "otherwise", s \notin FiringRules
      PROVE  Owed(s)' => Owed(s)
  <2>1. \A g \in RuleFibers' : Carried(g, s)
    <3> SUFFICES ASSUME NEW g \in RuleFibers
                 PROVE  Carried(g, s)
      BY <1>2
    <3>1. CASE g = f
      BY <1>4, <3>1 DEF Lands, Carried, Unanswered, Unfired
    <3>2. CASE g # f
      BY <3>2 DEF Lands, Carried, Unanswered, RuleFibers
    <3> QED
      BY <3>1, <3>2
  <2>2. Cluster(s)' = Cluster(s)
    <3>1. \A g \in FiberId : fiber'[g].rule = fiber[g].rule
      BY DEF Lands
    <3> QED
      BY <1>1, <3>1 DEF Cluster
  <2>3. (DidFire(s)' => DidFire(s)) /\ abandoned \subseteq abandoned'
    BY <1>4 DEF Lands, Unfired
  <2> QED
    BY <1>2, <2>1, <2>2, <2>3, OwedKept
<1>5. ToldTrue = {}
  BY <1>3 DEF ToldTrue, Lands
<1>6. Askings'
  BY <1>3 DEF AskInv, Askings, Lands
<1> QED
  BY <1>4, <1>5, <1>6 DEF Accounted, Claims

LEMMA PendingIsAsked ==
    ASSUME AskInv, NEW f \in FiberId, fiber[f].pc # "asked"
    PROVE  fiber[f].trigger # "pending"
BY PendingAsks DEF AskInv

LEMMA BeginAccounted ==
    ASSUME AskInv, NEW f \in FiberId, Begin(f)
    PROVE  Accounted
<1> PICK r : r = fiber[f].rule
  OBVIOUS
<1>1. /\ Executing(f) /\ fiber[f].pc = "start" /\ UNCHANGED <<state, abandoned>>
      /\ firing \in [Rule -> {"INITIAL", "EVALUATING", "DID_FIRE", "DID_NOT_FIRE"}]
  BY DEF Begin, Continues, AskInv, BrainInv, TypeOK
<1>2. CASE Mode[r] = "always"
  <2>1. Goto(f, "do") /\ firing' = firing
    BY <1>2 DEF Begin
  <2>2. r \in FiringRules
    BY <1>2 DEF FiringRules, Fires
  <2>3. Unfired(f, "do")
    BY <2>1, <2>2 DEF Unfired, DidFire
  <2> QED
    BY <1>1, <2>1, <2>3, GotoLands, LandsAccounted, PendingIsAsked
<1>3. CASE Mode[r] # "always"
  <2>1. PICK at \in {"when", "arm"} : Goto(f, at)
    BY <1>3 DEF Begin
  <2>2. firing' = [firing EXCEPT ![r] = "EVALUATING"]
    BY <1>3 DEF Begin
  <2>3. Unfired(f, at)
    BY <1>1, <2>2 DEF Unfired, DidFire, Past
  <2> QED
    BY <1>1, <2>1, <2>3, GotoLands, LandsAccounted, PendingIsAsked
<1> QED
  BY <1>2, <1>3

LEMMA ReadAccounted ==
    ASSUME AskInv, NEW f \in FiberId, ReadSubject(f) \/ AwaitAnswer(f)
    PROVE  Accounted
<1>1. Executing(f) /\ UNCHANGED <<state, abandoned, firing>> /\ fiber[f].pc \in {"arm", "asked"}
      /\ fiber[f].trigger # "pending"
  BY PendingIsAsked DEF ReadSubject, AwaitAnswer, Continues
<1>2. \A at \in {"when", "unarmed"} : Unfired(f, at)
  BY <1>1 DEF Unfired, DidFire, Past
<1>3. CASE ReadSubject(f)
  <2>1. PICK at \in {"when", "unarmed"} : Goto(f, at)
    BY <1>3 DEF ReadSubject
  <2> QED
    BY <1>1, <1>2, <2>1, GotoLands, LandsAccounted
<1>4. CASE AwaitAnswer(f)
  <2>1. PICK at \in {"when", "unarmed"} :
           fiber' = [fiber EXCEPT ![f].pc = at, ![f].trigger = "none"]
    BY <1>4 DEF AwaitAnswer
  <2>2. fiber[f] \in Fiber /\ fiber \in [FiberId -> Fiber]
    BY DEF AskInv, BrainInv, TypeOK
  <2>3. /\ \A g \in FiberId : g # f => fiber'[g] = fiber[g]
        /\ fiber'[f] = [fiber[f] EXCEPT !.pc = at, !.trigger = "none"]
    BY <2>1, <2>2
  <2>4. Lands(f, at, "none")
    BY <1>1, <2>2, <2>3 DEF Lands, Fiber
  <2> QED
    BY <1>1, <1>2, <2>4, LandsAccounted
<1> QED
  BY <1>3, <1>4

(* A rule that does not fire has a record that says so, but for an         *)
(* `otherwise` rule, which passes on what the rule above it recorded.      *)
LEMMA GateAccounted ==
    ASSUME AskInv, NEW f \in FiberId, NEW outcome \in BOOLEAN, Gate(f, outcome)
    PROVE  Accounted
<1> PICK r : r = fiber[f].rule
  OBVIOUS
<1>1. /\ Executing(f) /\ fiber[f].pc \in {"when", "unarmed"} /\ UNCHANGED <<state, abandoned>>
      /\ firing' = [firing EXCEPT ![r] = Record(r, outcome)]
      /\ firing \in [Rule -> {"INITIAL", "EVALUATING", "DID_FIRE", "DID_NOT_FIRE"}]
  BY DEF Gate, Continues, AskInv, BrainInv, TypeOK
<1>2. CASE outcome = TRUE
  <2>1. Goto(f, "do")
    BY <1>2 DEF Gate
  <2>2. r \in FiringRules
    BY <1>2 DEF FiringRules, Fires
  <2>3. Unfired(f, "do")
    BY <1>1, <2>2 DEF Unfired, DidFire
  <2> QED
    BY <1>1, <2>1, <2>3, GotoLands, LandsAccounted, PendingIsAsked
<1>3. CASE outcome = FALSE
  <2>1. Goto(f, "return")
    BY <1>3 DEF Gate
  <2>2. Mode[r] # "otherwise" => Record(r, outcome) = "DID_NOT_FIRE"
    BY <1>3 DEF Record
  <2>3. Unfired(f, "return")
    BY <1>1, <2>2 DEF Unfired, DidFire
  <2> QED
    BY <1>1, <2>1, <2>3, GotoLands, LandsAccounted, PendingIsAsked
<1> QED
  BY <1>2, <1>3

-----------------------------------------------------------------------------
(* Whoever is told that the rule above completed was the only one to ask.  *)

LEMMA BelowInLevel ==
    ASSUME NEW p \in Rule, NEW k \in DOMAIN ChildRules[p], NEW r \in Rule,
           PrecedingSibling[r] = ChildRules[p][k]
    PROVE  k + 1 \in DOMAIN ChildRules[p] /\ ChildRules[p][k + 1] = r
<1> PICK s : s = ChildRules[p][k]
  OBVIOUS
<1>1. s \in Rule /\ Parent[s] = p /\ s # NoRule /\ p # NoRule
  BY ChildRule, RuleProgramAssumption
<1>2. PICK i \in DOMAIN Level(r) :
         Level(r)[i] = r /\ PrecedingSibling[r] = IF i = 1 THEN NoRule ELSE Level(r)[i - 1]
  BY AboveIs
<1>3. i # 1 /\ Level(r)[i - 1] = s
  BY <1>1, <1>2
<1>4. Level(r) \in Seq(Rule)
  BY LevelOf
<1>5. i \in Nat /\ i - 1 \in DOMAIN Level(r)
  BY <1>2, <1>3, <1>4
<1>6. Level(r) = Level(s)
  BY <1>3, <1>5, LevelOf
<1>7. Level(r) = ChildRules[p]
  BY <1>1, <1>6 DEF Level
<1>8. i - 1 = k
  BY <1>3, <1>5, <1>7, ChildRulesDistinct
<1> QED
  BY <1>2, <1>5, <1>7, <1>8

LEMMA OneAsks ==
    ASSUME AskInv, NEW f \in RuleFibers, NEW s \in Rule, PrecedingSibling[fiber[f].rule] = s,
           \A g \in RuleFibers' : /\ g \in RuleFibers /\ fiber'[g].rule = fiber[g].rule
                                  /\ fiber'[g].kids = fiber[g].kids,
           ~Unanswered(f)'
    PROVE  ~Awaited(s)'
<1> SUFFICES ASSUME NEW g \in RuleFibers', AwaitedBy(g, s)'
             PROVE  FALSE
  BY DEF Awaited
<1> PICK p : p = fiber[g].rule
  OBVIOUS
<1> PICK r : r = fiber[f].rule
  OBVIOUS
<1>1. /\ g \in RuleFibers /\ fiber'[g].rule = p /\ fiber'[g].kids = fiber[g].kids
      /\ p \in Rule /\ r \in Rule /\ s # NoRule /\ fiber[g].kids \in Nat
  BY RuleProgramAssumption DEF AskInv, BrainInv, TypeOK, Fiber, Settled, RuleFibers
<1>2. CASE PrecedingSibling[p] = s /\ Unanswered(g)'
  <2>1. p = r
    BY <1>1, <1>2, OneBelow
  <2>2. g = f
    BY <1>1, <2>1 DEF AskInv, BrainInv, OneFiringInFlight
  <2> QED
    BY <1>2, <2>2
<1>3. CASE fiber[g].kids \in DOMAIN ChildRules[p] /\ ChildRules[p][fiber[g].kids] = s
  <2>1. fiber[g].kids + 1 \in DOMAIN ChildRules[p] /\ ChildRules[p][fiber[g].kids + 1] = r
    BY <1>1, <1>3, BelowInLevel
  <2>2. r \notin Within[r]
    BY <1>1, <2>1 DEF AskInv, BrainInv, Unspawned
  <2> QED
    BY <1>1, <2>2, WithinSelf
<1> QED
  BY <1>1, <1>2, <1>3 DEF AwaitedBy

LEMMA AskAccounted ==
    ASSUME AskInv, SubjectsRecordThemselves, NEW f \in FiberId, AskTrigger(f)
    PROVE  Accounted
<1> PICK r : r = fiber[f].rule
  OBVIOUS
<1> PICK s : s = PrecedingSibling[r]
  OBVIOUS
<1> PICK inFlight \in BOOLEAN : inFlight = (s # NoRule /\ HasLiveSubtree(s, {}))
  OBVIOUS
<1> PICK completed \in BOOLEAN : completed = (s # NoRule /\ DidFire(s) /\ s \notin abandoned)
  OBVIOUS
<1> PICK answer \in {"pending", "true", "false"} :
       answer = IF inFlight THEN "pending" ELSE IF completed THEN "true" ELSE "false"
  OBVIOUS
<1>1. /\ Executing(f) /\ fiber[f].pc = "arm" /\ Mode[r] = "then" /\ UNCHANGED <<state, abandoned>>
      /\ fiber' = [fiber EXCEPT ![f].pc = "asked", ![f].trigger = answer]
      /\ firing' = IF inFlight THEN [firing EXCEPT ![r] = "DID_NOT_FIRE"] ELSE firing
  BY DEF AskTrigger, Continues
<1>2. /\ fiber[f] \in Fiber /\ fiber \in [FiberId -> Fiber] /\ Live(f) /\ f \in RuleFibers
      /\ r \in Rule
      /\ firing \in [Rule -> {"INITIAL", "EVALUATING", "DID_FIRE", "DID_NOT_FIRE"}]
  BY <1>1 DEF AskInv, BrainInv, TypeOK, Executing, Live, Alive, RuleFibers, Settled
<1>3. /\ \A g \in FiberId : g # f => fiber'[g] = fiber[g]
      /\ fiber'[f] = [fiber[f] EXCEPT !.pc = "asked", !.trigger = answer]
  BY <1>1, <1>2
<1>4. /\ fiber'[f].rule = r /\ fiber'[f].kids = fiber[f].kids /\ fiber'[f].waits = fiber[f].waits
      /\ fiber'[f].pc = "asked" /\ fiber'[f].trigger = answer
  BY <1>2, <1>3 DEF Fiber
<1>5. \A g \in FiberId : (Live(g)' <=> Live(g)) /\ fiber'[g].rule = fiber[g].rule
  BY <1>1, <1>3, <1>4 DEF Live
<1>6. RuleFibers' = RuleFibers
  BY <1>1, <1>3, <1>4, <1>5 DEF RuleFibers
<1>7. \A q : Cluster(q)' = Cluster(q)
  BY <1>5 DEF Cluster
<1>8. fiber[f].waits # "trigger"
  BY <1>1, Unwaiting DEF Executing
<1>9. ASSUME NEW q \in Rule
      PROVE  Owed(q)' => Owed(q)
  <2>1. \A g \in RuleFibers' : Carried(g, q)
    <3> SUFFICES ASSUME NEW g \in RuleFibers
                 PROVE  Carried(g, q)
      BY <1>6
    <3>1. CASE g = f
      BY <1>1, <1>4, <3>1 DEF Carried, Unanswered, Past
    <3>2. CASE g # f
      BY <1>3, <3>2 DEF Carried, Unanswered, RuleFibers
    <3> QED
      BY <3>1, <3>2
  <2>2. DidFire(q)' => DidFire(q)
    BY <1>1, <1>2 DEF DidFire
  <2> QED
    BY <1>1, <1>6, <1>7, <2>1, <2>2, OwedKept
<1>10. \A g \in ToldTrue : g = f /\ answer = "true"
  BY <1>3, <1>4, <1>8 DEF ToldTrue
<1>11. ASSUME answer = "true"
       PROVE  Claimed(s)
  <2>1. s \in Rule /\ DidFire(s) /\ s \notin abandoned /\ Cluster(s) = {}
    BY <1>2, <1>11, AboveType DEF HasLiveSubtree
  <2>2. \A g \in RuleFibers : fiber[g].rule # s
    BY <2>1, WithinSelf DEF RuleFibers, Cluster
  <2>3. Awaited(s)
    BY <1>1, <1>2 DEF Awaited, AwaitedBy, Unanswered
  <2>4. Owed(s)
    BY <2>1, <2>2, <2>3 DEF Owed, Fired
  <2>5. ~Unanswered(f)'
    BY <1>4, <1>11 DEF Unanswered
  <2>6. \A g \in RuleFibers' : /\ g \in RuleFibers /\ fiber'[g].rule = fiber[g].rule
                               /\ fiber'[g].kids = fiber[g].kids
    BY <1>3, <1>4, <1>6 DEF RuleFibers
  <2>7. ~Awaited(s)'
    BY <1>2, <2>1, <2>5, <2>6, OneAsks
  <2>8. Mode[s] # "otherwise"
    BY <1>1, <1>2, <2>1, RuleProgramAssumption DEF SubjectsRecordThemselves
  <2> QED
    BY <1>1, <1>7, <2>1, <2>4, <2>7, <2>8 DEF Claimed
<1>12. Askings'
  <2>1. /\ fiber'[f].pc = "asked" => Mode[fiber'[f].rule] = "then"
        /\ fiber'[f].waits # "trigger"
    BY <1>1, <1>4, <1>8
  <2>2. \A g \in FiberId : state'[g] = state[g] /\ (g # f => fiber'[g] = fiber[g])
    BY <1>1, <1>3
  <2> QED
    BY <2>1, <2>2 DEF AskInv, Askings
<1>13. \A q \in Claims : Claimed(q)
  BY <1>10, <1>11 DEF Claims
<1> QED
  BY <1>9, <1>12, <1>13 DEF Accounted

-----------------------------------------------------------------------------
(* Steps that start fibers.                                                *)

(* Fibers of actions keep the cluster of the rule that called them.        *)
LEMMA CallAccounted ==
    ASSUME AskInv, NEW f \in FiberId, CallAction(f)
    PROVE  Accounted
<1> PICK c : c = FreshFibers(1)[1]
  OBVIOUS
<1>0. /\ Executing(f) /\ fiber[f].pc \in {"when", "do"} /\ HasFresh(1)
      /\ state' = [state EXCEPT ![f] = "WAITING", ![c] = "RUNNABLE"]
      /\ fiber' = [fiber EXCEPT ![f].waits = "action",
            ![c] = [Blank EXCEPT !.rule = fiber[f].rule, !.pc = "action", !.caller = f]]
      /\ UNCHANGED <<firing, abandoned>>
  BY DEF CallAction, ruleVars
<1>1. c \in FiberId /\ ~Live(c) /\ Live(f) /\ f # c /\ state[f] # "WAITING"
  BY <1>0, FreshAre DEF Unused, Executing, Live, Alive
<1>2. /\ fiber \in [FiberId -> Fiber] /\ state \in [FiberId -> FiberState] /\ fiber[f] \in Fiber
  BY DEF AskInv, BrainInv, TypeOK, QueueTypeOK
<1>3. /\ \A g \in FiberId : g \notin {f, c} => fiber'[g] = fiber[g] /\ state'[g] = state[g]
      /\ fiber'[f] = [fiber[f] EXCEPT !.waits = "action"] /\ state'[f] = "WAITING"
      /\ fiber'[c] = [Blank EXCEPT !.rule = fiber[f].rule, !.pc = "action", !.caller = f]
      /\ state'[c] = "RUNNABLE"
  BY <1>0, <1>1, <1>2
<1>4. /\ fiber'[f].rule = fiber[f].rule /\ fiber'[f].kids = fiber[f].kids
      /\ fiber'[f].waits = "action" /\ fiber'[f].pc = fiber[f].pc
      /\ fiber'[f].trigger = fiber[f].trigger
      /\ fiber'[c].rule = fiber[f].rule /\ fiber'[c].pc = "action" /\ fiber'[c].waits = "nothing"
      /\ fiber'[c].trigger = "none"
  BY <1>2, <1>3 DEF Fiber, Blank
<1>5. \A g \in FiberId : Live(g)' <=> Live(g) \/ g = c
  BY <1>1, <1>3 DEF Live, Alive
<1>6. RuleFibers' = RuleFibers
  <2>1. ASSUME NEW g \in FiberId, g # c
        PROVE  fiber'[g].pc = "action" <=> fiber[g].pc = "action"
    <3>1. CASE g = f
      BY <1>4, <3>1
    <3>2. CASE g # f
      BY <1>3, <2>1, <3>2
    <3> QED
      BY <3>1, <3>2
  <2> QED
    BY <1>1, <1>4, <1>5, <2>1 DEF RuleFibers
<1>7. ASSUME NEW s \in Rule
      PROVE  Owed(s)' => Owed(s)
  <2>1. \A g \in RuleFibers' : Carried(g, s)
    <3> SUFFICES ASSUME NEW g \in RuleFibers
                 PROVE  Carried(g, s)
      BY <1>6
    <3>1. CASE g = f
      BY <1>4, <3>1 DEF Carried, Unanswered
    <3>2. CASE g # f
      BY <1>1, <1>3, <3>2 DEF Carried, Unanswered, RuleFibers
    <3> QED
      BY <3>1, <3>2
  <2>2. Cluster(s)' # {} => Cluster(s) # {}
    <3>1. \A g \in FiberId : g # c => fiber'[g].rule = fiber[g].rule
      BY <1>3, <1>4
    <3> QED
      BY <1>1, <1>4, <1>5, <3>1 DEF Cluster
  <2> QED
    BY <1>0, <1>6, <2>1, <2>2, OwedKept DEF DidFire
<1>8. fiber[f].waits # "trigger" /\ fiber[c] = Blank
  BY <1>1, Unwaiting DEF AskInv, BrainInv, Settled
<1>9. ToldTrue = {}
  <2>1. f \notin ToldTrue
    BY <1>4, <1>8 DEF ToldTrue
  <2>2. c \notin ToldTrue
    BY <1>4, <1>8 DEF ToldTrue, Blank
  <2>3. \A g \in FiberId : g \notin {f, c} => g \notin ToldTrue
    BY <1>3 DEF ToldTrue
  <2> QED
    BY <2>1, <2>2, <2>3 DEF ToldTrue
<1>10. Askings'
  <2>1. \A g \in {f, c} : fiber'[g].pc # "asked" /\ fiber'[g].waits # "trigger"
    BY <1>0, <1>4
  <2> QED
    BY <1>3, <2>1 DEF AskInv, Askings
<1> QED
  BY <1>7, <1>9, <1>10 DEF Accounted, Claims

(* The child that is spawned next was awaited by its parent until now.     *)
LEMMA SpawnAccounted ==
    ASSUME AskInv, NEW f \in FiberId, SpawnRule(f)
    PROVE  Accounted
<1> PICK c : c = FreshFibers(1)[1]
  OBVIOUS
<1> PICK p : p = fiber[f].rule
  OBVIOUS
<1> PICK n : n = fiber[f].kids + 1
  OBVIOUS
<1> PICK k : k = ChildRules[p][n]
  OBVIOUS
<1>1. /\ p \in Rule /\ n \in DOMAIN ChildRules[p] /\ fiber[f].kids \in Nat
      /\ k \in Rule /\ Parent[k] = p /\ c \in FiberId /\ f # c /\ ~Live(c)
      /\ Live(f) /\ fiber[f].pc # "action"
  BY Spawns DEF AskInv
<1>2. /\ state' = [state EXCEPT ![c] = "RUNNABLE"]
      /\ fiber' = [fiber EXCEPT ![f].pc = "spawn", ![f].kids = n, ![c] = [Blank EXCEPT !.rule = k]]
      /\ UNCHANGED firing /\ abandoned' = abandoned \ {k} /\ fiber[f].pc \in {"do", "spawn"}
  BY DEF SpawnRule
<1>3. /\ fiber \in [FiberId -> Fiber] /\ state \in [FiberId -> FiberState] /\ fiber[f] \in Fiber
  BY DEF AskInv, BrainInv, TypeOK, QueueTypeOK
<1>4. /\ \A g \in FiberId : g \notin {f, c} => fiber'[g] = fiber[g]
      /\ \A g \in FiberId : g # c => state'[g] = state[g]
      /\ fiber'[f] = [fiber[f] EXCEPT !.pc = "spawn", !.kids = n]
      /\ fiber'[c] = [Blank EXCEPT !.rule = k] /\ state'[c] = "RUNNABLE"
  BY <1>1, <1>2, <1>3
<1>5. /\ fiber'[f].rule = p /\ fiber'[f].kids = n /\ fiber'[f].waits = fiber[f].waits
      /\ fiber'[f].trigger = fiber[f].trigger /\ fiber'[f].pc = "spawn"
  BY <1>3, <1>4 DEF Fiber
<1>6. /\ fiber'[c].rule = k /\ fiber'[c].kids = 0 /\ fiber'[c].waits = "nothing"
      /\ fiber'[c].trigger = "none" /\ fiber'[c].pc = "start"
  BY <1>4 DEF Blank
<1>7. \A g \in FiberId : Live(g)' <=> Live(g) \/ g = c
  BY <1>1, <1>4 DEF Live, Alive
<1>8. /\ RuleFibers' = RuleFibers \cup {c} /\ c \notin RuleFibers /\ f \in RuleFibers
      /\ \A g \in RuleFibers : g \in FiberId /\ g # c
  <2>1. \A g \in FiberId : g # c => (fiber'[g].pc = "action" <=> fiber[g].pc = "action")
    BY <1>1, <1>4, <1>5
  <2> QED
    BY <1>1, <1>6, <1>7, <2>1 DEF RuleFibers
<1>9. ASSUME NEW s \in Rule, Owed(s)'
      PROVE  Owed(s)
  <2>1. DidFire(s) /\ s # k
    <3>1. DidFire(s)' /\ \A g \in RuleFibers' : fiber'[g].rule = s => fiber'[g].pc \in Past
      BY <1>9 DEF Owed, Fired
    <3>2. DidFire(s)
      BY <1>2, <3>1 DEF DidFire
    <3>3. c \in RuleFibers' /\ fiber'[c].pc \notin Past
      BY <1>6, <1>8 DEF Past
    <3> QED
      BY <1>6, <3>1, <3>2, <3>3
  <2>2. s \notin abandoned
    BY <1>2, <1>9, <2>1 DEF Owed
  <2>3. \A g \in RuleFibers : fiber[g].rule = s => fiber[g].pc \in Past
    <3> SUFFICES ASSUME NEW g \in RuleFibers, fiber[g].rule = s
                 PROVE  fiber[g].pc \in Past
      OBVIOUS
    <3>1. CASE g = f
      BY <1>2, <3>1 DEF Past
    <3>2. CASE g # f
      <4>1. g \in RuleFibers' /\ fiber'[g] = fiber[g]
        BY <1>4, <1>8, <3>2
      <4> QED
        BY <1>9, <4>1 DEF Owed, Fired
    <3> QED
      BY <3>1, <3>2
  <2>4. Cluster(s)' # {} => Cluster(s) # {}
    <3> SUFFICES ASSUME NEW g \in Cluster(s)'
                 PROVE  Cluster(s) # {}
      OBVIOUS
    <3>1. CASE g = c
      <4>1. s \in Within[p]
        BY <1>1, <1>6, <2>1, <3>1, WithinStep, RuleProgramAssumption DEF Cluster
      <4> QED
        BY <1>1, <4>1 DEF Cluster
    <3>2. CASE g # c
      <4>1. g \in FiberId /\ Live(g) /\ fiber'[g].rule = fiber[g].rule
        BY <1>4, <1>5, <1>7, <3>2 DEF Cluster
      <4>2. s \in Within[fiber[g].rule]
        BY <4>1 DEF Cluster
      <4> QED
        BY <4>1, <4>2 DEF Cluster
    <3> QED
      BY <3>1, <3>2
  <2>5. Awaited(s)' => Awaited(s)
    <3> SUFFICES ASSUME NEW g \in RuleFibers', AwaitedBy(g, s)'
                 PROVE  Awaited(s)
      BY DEF Awaited
    <3>1. CASE g = c
      <4>1. PrecedingSibling[k] = s
        BY <1>6, <3>1, ChildRulesBounded, <1>1 DEF AwaitedBy
      <4>2. fiber[f].kids \in DOMAIN ChildRules[p] /\ ChildRules[p][fiber[f].kids] = s
        <5> k \in Rule
          BY ONLY <1>1
        <5>1. PICK i \in DOMAIN Level(k) :
                 /\ Level(k)[i] = k
                 /\ PrecedingSibling[k] = IF i = 1 THEN NoRule ELSE Level(k)[i - 1]
          BY AboveIs
        <5>2. Level(k) = ChildRules[p]
          BY <1>1, RuleProgramAssumption DEF Level
        <5>3. i = n
          BY <1>1, <5>1, <5>2, ChildRulesDistinct
        <5>4. i # 1 /\ ChildRules[p][i - 1] = s
          BY <4>1, <5>1, <5>2, RuleProgramAssumption
        <5>5. DOMAIN ChildRules[p] = 1 .. Len(ChildRules[p]) /\ Len(ChildRules[p]) \in Nat
          BY <1>1, ChildRulesBounded
        <5> QED
          BY <1>1, <5>3, <5>4, <5>5
      <4> QED
        BY <1>8, <4>2 DEF Awaited, AwaitedBy
    <3>2. CASE g = f
      <4>1. PrecedingSibling[p] = s /\ Unanswered(f)'
        BY <1>5, <2>1, <3>2 DEF AwaitedBy
      <4>2. Unanswered(f)
        BY <1>5, <4>1 DEF Unanswered
      <4> QED
        BY <1>8, <4>1, <4>2 DEF Awaited, AwaitedBy
    <3>3. CASE g \notin {f, c}
      <4>1. g \in RuleFibers /\ fiber'[g] = fiber[g]
        BY <1>4, <1>8, <3>3
      <4> QED
        BY <4>1 DEF Awaited, AwaitedBy, Unanswered
    <3> QED
      BY <3>1, <3>2, <3>3
  <2> QED
    BY <1>9, <2>1, <2>2, <2>3, <2>4, <2>5 DEF Owed, Fired
<1>10. fiber[c] = Blank
  BY <1>1 DEF AskInv, BrainInv, Settled
<1>11. ToldTrue = {}
  <2>1. f \notin ToldTrue
    BY <1>5 DEF ToldTrue
  <2>2. c \notin ToldTrue
    BY <1>6, <1>10 DEF ToldTrue, Blank
  <2>3. \A g \in FiberId : g \notin {f, c} => g \notin ToldTrue
    BY <1>4 DEF ToldTrue
  <2> QED
    BY <2>1, <2>2, <2>3 DEF ToldTrue
<1>12. Askings'
  <2>1. \A g \in {f, c} : fiber'[g].pc # "asked"
    BY <1>5, <1>6
  <2>2. fiber'[c].waits # "trigger" /\ fiber'[f].waits # "trigger"
    <3>1. fiber[f].waits # "trigger"
      BY <1>2 DEF AskInv, Askings
    <3> QED
      BY ONLY <1>5, <1>6, <3>1
  <2>3. ASSUME NEW g \in FiberId, g \notin {f, c}
        PROVE  fiber'[g] = fiber[g] /\ state'[g] = state[g]
    BY <1>4, <2>3
  <2> QED
    BY <2>1, <2>2, <2>3 DEF AskInv, Askings
<1> QED
  BY <1>9, <1>11, <1>12 DEF Accounted, Claims

LEMMA ThinkAccounted ==
    ASSUME AskInv, NEW p \in Page, Think(p)
    PROVE  Accounted
<1> USE DEF AskInv
<1>0. PICK rs \in InOrder(Due) : Starts(p, rs, FreshFibers(Len(rs)))
  BY ThinkStarts
<1> PICK fs : fs = FreshFibers(Len(rs))
  OBVIOUS
<1>1. Starts(p, rs, fs)
  BY <1>0
<1>2. NewFibers(rs, fs)
  BY <1>1, StartedAre DEF Starts, BrainInv
<1> DEFINE New == {f \in FiberId : \E i \in DOMAIN rs : f = fs[i]}
<1>3. /\ \A i \in DOMAIN rs : fs[i] \in New /\ fs[i] \in FiberId
      /\ \A i \in DOMAIN rs : /\ rs[i] \in Rule /\ Parent[rs[i]] = NoRule
                              /\ PageOf[rs[i]] = current
      /\ ToSet(rs) = Due /\ \A r \in Due : \E i \in DOMAIN rs : rs[i] = r
  <2>1. \A r \in Due : \E i \in DOMAIN rs : rs[i] = r
    BY DueAre DEF ToSet
  <2> QED
    BY <1>2, <2>1, DueAre DEF NewFibers
<1>4. \A i \in DOMAIN rs :
         /\ fiber'[fs[i]].rule = rs[i] /\ fiber'[fs[i]].kids = 0
         /\ fiber'[fs[i]].waits = "nothing" /\ fiber'[fs[i]].trigger = "none"
         /\ fiber'[fs[i]].pc = "start" /\ ~Live(fs[i]) /\ Live(fs[i])'
  <2> TAKE i \in DOMAIN rs
  <2>1. state'[fs[i]] = "RUNNABLE" /\ fiber'[fs[i]] = [Blank EXCEPT !.rule = rs[i]]
        /\ ~Live(fs[i])
    BY <1>2 DEF NewFibers
  <2> QED
    BY <2>1 DEF Blank, Live, Alive
<1>5. \A f \in FiberId : f \in New \/ (state'[f] = state[f] /\ fiber'[f] = fiber[f])
  BY <1>2 DEF NewFibers
<1>6. \A f \in New : \E i \in DOMAIN rs : f = fs[i]
  OBVIOUS
<1> HIDE DEF New
<1>7. New \subseteq FiberId
  BY DEF New
<1>8. firing' = firing /\ abandoned' = abandoned \ ToSet(rs)
  BY <1>1 DEF Starts, StartRules
<1>9. ASSUME NEW f \in New
      PROVE  /\ ~Live(f) /\ fiber[f] = Blank /\ Live(f)' /\ fiber'[f].pc = "start"
             /\ fiber'[f].kids = 0 /\ fiber'[f].trigger = "none" /\ fiber'[f].waits = "nothing"
             /\ \E i \in DOMAIN rs : fiber'[f].rule = rs[i]
  BY <1>4, <1>6, <1>7 DEF BrainInv, Settled
<1>10. RuleFibers' = RuleFibers \cup New
  <2>1. \A f \in FiberId \ New : Live(f)' <=> Live(f)
    BY <1>5 DEF Live
  <2> QED
    BY <1>5, <1>7, <1>9, <2>1 DEF RuleFibers
<1>11. ASSUME NEW s \in Rule, Owed(s)'
       PROVE  Owed(s)
  <2>1. s \notin ToSet(rs)
    <3> SUFFICES ASSUME s \in ToSet(rs)
                 PROVE  FALSE
      OBVIOUS
    <3>1. PICK i \in DOMAIN rs : rs[i] = s
      BY <1>3
    <3>2. fs[i] \in RuleFibers' /\ fiber'[fs[i]].rule = s /\ fiber'[fs[i]].pc = "start"
      BY <1>3, <1>4, <1>10, <3>1
    <3> QED
      BY <1>11, <3>2 DEF Owed, Fired, Past
  <2>2. \A f \in RuleFibers : f \notin New /\ f \in FiberId /\ fiber'[f] = fiber[f]
    BY <1>5, <1>9 DEF RuleFibers
  <2>3. Fired(s) /\ s \notin abandoned
    BY <1>8, <1>10, <1>11, <2>1, <2>2 DEF Owed, Fired, DidFire
  <2>4. Cluster(s)' # {} => Cluster(s) # {}
    <3> SUFFICES ASSUME NEW f \in Cluster(s)'
                 PROVE  Cluster(s) # {}
      OBVIOUS
    <3>1. f \notin New
      <4> SUFFICES ASSUME f \in New
                   PROVE  FALSE
        OBVIOUS
      <4>1. PICK i \in DOMAIN rs : fiber'[f].rule = rs[i]
        BY <1>9
      <4>2. s \in Within[rs[i]]
        BY <4>1 DEF Cluster
      <4>3. s = rs[i]
        BY <1>3, <4>2, WithinRoot
      <4> QED
        BY <2>1, <4>3 DEF ToSet
    <3> QED
      BY <1>5, <3>1 DEF Cluster, Live
  <2>5. ASSUME NEW f \in RuleFibers', AwaitedBy(f, s)'
        PROVE  Cluster(s) # {} \/ Awaited(s)
    <3>1. CASE f \in RuleFibers
      BY <2>2, <2>5, <3>1 DEF Awaited, AwaitedBy, Unanswered
    <3>2. CASE f \in New
      <4>1. PICK i \in DOMAIN rs : fiber'[f].rule = rs[i]
        BY <1>9, <3>2
      <4> PICK r : r = rs[i]
        OBVIOUS
      <4>2. r \in Rule /\ Parent[r] = NoRule /\ PageOf[r] = current
        BY <1>3
      <4>3. PrecedingSibling[r] = s
        <5>1. 0 \notin DOMAIN ChildRules[r]
          BY <4>2, ChildRulesBounded
        <5> QED
          BY <1>9, <2>5, <3>2, <4>1, <5>1 DEF AwaitedBy
      <4>4. s \in ToSet(Pages[current]) /\ Parent[s] = NoRule
        <5>1. PICK j \in DOMAIN Level(r) :
                 /\ Level(r)[j] = r
                 /\ PrecedingSibling[r] = IF j = 1 THEN NoRule ELSE Level(r)[j - 1]
          BY <4>2, AboveIs
        <5>2. Level(r) = Pages[current] /\ Level(r) \in Seq(Rule) /\ current \in Page
          BY <4>2, LevelOf DEF Level, BrainInv, TypeOK
        <5>3. j - 1 \in DOMAIN Level(r) /\ Level(r)[j - 1] = s
          BY <4>3, <5>1, <5>2, RuleProgramAssumption
        <5>4. s \in ToSet(Pages[current])
          BY <5>2, <5>3 DEF ToSet
        <5> QED
          BY <5>2, <5>4, PageOfRoot
      <4>5. ~FiresAgain(s)
        BY <1>3, <2>1, <4>1, <4>4, DueAre DEF Due
      <4>6. CASE active[s] # NoFiber
        <5>1. s \in Roots
          BY <4>4, RootsAre
        <5>2. Live(active[s]) /\ fiber[active[s]].rule = s /\ active[s] \in FiberId
          BY <4>6, <5>1 DEF BrainInv, OneFiringInFlight, TypeOK
        <5> QED
          BY <5>2, WithinSelf DEF Cluster
      <4>7. CASE HasLiveDescendantOfRoot(s)
        <5>1. PICK h \in RuleFibers : RootOf[fiber[h].rule] = s
          BY <4>7 DEF HasLiveDescendantOfRoot
        <5>2. fiber[h].rule \in Rule
          BY <5>1 DEF BrainInv, Settled, RuleFibers
        <5>3. h \in Cluster(s)
          BY <5>1, <5>2, RootOfWithin DEF Cluster, RuleFibers
        <5> QED
          BY <5>3
      <4> QED
        BY <4>5, <4>6, <4>7 DEF FiresAgain
    <3> QED
      BY <1>10, <3>1, <3>2
  <2> QED
    BY <1>11, <2>3, <2>4, <2>5 DEF Owed, Awaited
<1>12. ToldTrue = {}
  <2>1. ASSUME NEW f \in FiberId, f \in ToldTrue
        PROVE  FALSE
    BY <1>5, <1>9, <2>1 DEF ToldTrue, Blank
  <2> QED
    BY <2>1 DEF ToldTrue
<1>13. Askings'
  <2>1. ASSUME NEW f \in FiberId
        PROVE  /\ fiber'[f].pc = "asked" => Mode[fiber'[f].rule] = "then"
               /\ fiber'[f].waits = "trigger" =>
                    /\ state'[f] = "WAITING" /\ fiber'[f].pc = "asked"
                    /\ fiber'[f].trigger = "pending"
    BY <1>5, <1>9 DEF Askings
  <2> QED
    BY <2>1 DEF Askings
<1> QED
  BY <1>11, <1>12, <1>13 DEF Accounted, Claims

-----------------------------------------------------------------------------
(* Steps that end fibers.                                                  *)

(* Where the end of gone leaves a fiber that lives on.                     *)
LEMMA EndedPlace ==
    ASSUME BrainInv, NEW gone, NEW final, EndFibers(gone, final), NEW f \in FiberId, f \notin gone
    PROVE  /\ fiber'[f].pc = IF f \in WaitingAskers(gone) THEN
                                IF Completed(f, gone, final) THEN "when" ELSE "unarmed"
                             ELSE fiber[f].pc
           /\ fiber'[f].waits = IF f \in WaitingAskers(gone) \cup Callers(gone) THEN "nothing"
                                ELSE fiber[f].waits
           /\ fiber'[f].trigger = IF f \in WaitingAskers(gone) THEN "none"
                                  ELSE IF f \in Askers(gone) THEN
                                     IF Completed(f, gone, final) THEN "true" ELSE "false"
                                  ELSE fiber[f].trigger
<1>1. fiber'[f] =
         [rule    |-> fiber[f].rule,
          pc      |-> IF f \in WaitingAskers(gone) THEN
                         IF Completed(f, gone, final) THEN "when" ELSE "unarmed"
                      ELSE fiber[f].pc,
          kids    |-> fiber[f].kids,
          waits   |-> IF f \in WaitingAskers(gone) \cup Callers(gone) THEN "nothing"
                      ELSE fiber[f].waits,
          caller  |-> IF fiber[f].caller \in gone THEN NoFiber ELSE fiber[f].caller,
          trigger |-> IF f \in WaitingAskers(gone) THEN "none"
                      ELSE IF f \in Askers(gone) THEN
                         IF Completed(f, gone, final) THEN "true" ELSE "false"
                      ELSE fiber[f].trigger]
  BY EndedFiber
<1> QED
  BY <1>1

(* Whoever is told that the rule above completed is told so by the walk.   *)
LEMMA ToldByWalk ==
    ASSUME AskInv, NEW gone, NEW final, Ending(gone, final), NEW f \in FiberId, f \in ToldTrue
    PROVE  f \notin gone /\ f \in Askers(gone) /\ Completed(f, gone, final)
<1> USE DEF AskInv
<1>1. EndFibers(gone, final)
  BY DEF Ending
<1>2. f \notin gone
  <2> SUFFICES ASSUME f \in gone
               PROVE  FALSE
    OBVIOUS
  <2>1. fiber'[f] = Blank
    BY EndedAre
  <2> QED
    BY <2>1 DEF ToldTrue, Blank
<1>3. fiber[f].waits = "trigger" => fiber[f].pc # "when"
  BY DEF Askings
<1>4. f \notin Askers(gone) => fiber'[f].trigger = fiber[f].trigger /\ fiber'[f].pc = fiber[f].pc
  BY <1>2, EndedAre
<1>5. f \in Askers(gone)
  BY <1>3, <1>4 DEF ToldTrue
<1>6. Completed(f, gone, final)
  <2>1. f \in WaitingAskers(gone) => fiber'[f].pc = IF Completed(f, gone, final) THEN "when" ELSE "unarmed"
    BY <1>1, <1>2, EndedPlace
  <2>2. f \in WaitingAskers(gone) => fiber'[f].trigger = "none"
    BY <1>1, <1>2, EndedPlace
  <2>3. f \notin WaitingAskers(gone) =>
           /\ fiber'[f].pc = fiber[f].pc
           /\ fiber'[f].trigger = IF Completed(f, gone, final) THEN "true" ELSE "false"
    BY <1>1, <1>2, <1>5, EndedPlace
  <2> QED
    BY <1>3, <2>1, <2>2, <2>3 DEF ToldTrue
<1> QED
  BY <1>2, <1>5, <1>6

(* A fiber that ends DONE has passed its gate.                             *)
Ends(gone, final) ==
    /\ Ending(gone, final) /\ firing' = firing
    /\ final = "DONE" => \A f \in gone : fiber[f].pc \in Past \cup {"action"}

LEMMA EndKeepsOwed ==
    ASSUME AskInv, NEW gone, NEW final, Ends(gone, final), NEW s \in Rule
    PROVE  Owed(s)' => Owed(s)
<1> USE DEF AskInv
<1>0. Ending(gone, final) /\ firing' = firing /\ EndFibers(gone, final)
  BY DEF Ends, Ending
<1>1. abandoned' = Marked(gone, final)
  BY <1>0 DEF EndFibers
<1>2. abandoned \subseteq abandoned'
  BY <1>1 DEF Marked
<1>3. ASSUME NEW f \in RuleFibers'
      PROVE  Carried(f, s)
  <2>1. f \in FiberId /\ Live(f)' /\ fiber'[f].pc # "action"
    BY DEF RuleFibers
  <2>2. f \notin gone
    BY <1>0, <2>1, EndedAre DEF Live
  <2>3. /\ Live(f) /\ fiber'[f].rule = fiber[f].rule /\ fiber'[f].kids = fiber[f].kids
        /\ fiber[f].pc # "action"
        /\ fiber'[f].trigger = "pending" => f \notin Askers(gone)
        /\ f \notin Askers(gone) => fiber'[f].trigger = fiber[f].trigger
    BY <1>0, <2>1, <2>2, EndedAre
  <2>4. fiber'[f].pc = fiber[f].pc \/ fiber'[f].pc \in {"when", "unarmed"}
    BY <1>0, <2>1, <2>2, EndedPlace
  <2> QED
    BY <2>1, <2>3, <2>4 DEF Carried, RuleFibers, Unanswered, Past
<1>4. ASSUME NEW f \in RuleFibers
      PROVE  \/ f \in RuleFibers' \/ fiber[f].rule # s
             \/ fiber[f].pc \in Past \/ s \in abandoned'
  <2>1. f \in FiberId /\ Live(f) /\ fiber[f].pc # "action"
    BY DEF RuleFibers
  <2>2. CASE f \notin gone
    <3>1. Live(f)' /\ fiber'[f].pc # "action"
      BY <1>0, <2>1, <2>2, EndedAre
    <3> QED
      BY <2>1, <3>1 DEF RuleFibers
  <2>3. CASE f \in gone
    <3>1. CASE final = "DONE"
      BY <2>1, <2>3, <3>1 DEF Ends
    <3>2. CASE final # "DONE"
      <4>1. fiber[f].rule \in Within[fiber[f].rule]
        BY <2>1, WithinSelf DEF BrainInv, Settled
      <4>2. fiber[f].rule \in Kin(gone)
        BY <2>3, <4>1 DEF Kin
      <4> QED
        BY <1>1, <3>2, <4>2 DEF Marked
    <3> QED
      BY <3>1, <3>2
  <2> QED
    BY <2>2, <2>3
<1>5. Cluster(s)' # {} => Cluster(s) # {}
  <2> SUFFICES ASSUME NEW f \in Cluster(s)'
               PROVE  Cluster(s) # {}
    OBVIOUS
  <2>1. f \in FiberId /\ Live(f)' /\ s \in Within[fiber'[f].rule]
    BY DEF Cluster
  <2>2. f \notin gone
    BY <1>0, <2>1, EndedAre DEF Live
  <2>3. Live(f) /\ fiber'[f].rule = fiber[f].rule
    BY <1>0, <2>1, <2>2, EndedAre
  <2> QED
    BY <2>1, <2>3 DEF Cluster
<1> QED
  BY <1>0, <1>2, <1>3, <1>4, <1>5, OwedKept DEF DidFire

LEMMA EndClaims ==
    ASSUME AskInv, SubjectsRecordThemselves, NEW gone, NEW final, Ends(gone, final),
           NEW f \in FiberId, f \in ToldTrue
    PROVE  Claimed(PrecedingSibling[fiber[f].rule])
<1> USE DEF AskInv
<1>0. Ending(gone, final) /\ firing' = firing /\ EndFibers(gone, final)
      /\ gone \in SUBSET FiberId /\ \A g \in gone : Live(g)
  BY DEF Ends, Ending
<1>1. abandoned' = Marked(gone, final)
  BY <1>0 DEF EndFibers
<1>2. f \notin gone /\ f \in Askers(gone) /\ Completed(f, gone, final)
  BY <1>0, ToldByWalk
<1>3. PICK s \in Emptied(gone) : watcher[s] = f /\ s \notin Marked(gone, final) /\ DidFire(s)
  BY <1>2 DEF Completed
<1>4. s \in Kin(gone) /\ Cluster(s) \subseteq gone /\ s \in Rule
  BY <1>0, <1>3, KinType DEF Emptied, HasLiveSubtree
<1>5. final = "DONE"
  BY <1>3, <1>4 DEF Marked
<1>6. Asks(f, s)
  BY <1>3, <1>4 DEF BrainInv, Watched
<1>7. /\ fiber[f].pc = "asked" /\ fiber[f].trigger = "pending" /\ Live(f)
      /\ PrecedingSibling[fiber[f].rule] = s /\ f \in RuleFibers /\ fiber[f].rule \in Rule
  BY <1>6 DEF Asks, RuleFibers, BrainInv, Settled
<1>8. Mode[s] # "otherwise"
  <2>1. Mode[fiber[f].rule] = "then" /\ s # NoRule
    BY <1>4, <1>7, RuleProgramAssumption DEF Askings
  <2> QED
    BY <1>7, <2>1 DEF SubjectsRecordThemselves
<1>9. Cluster(s) # {}
  <2>1. PICK g \in gone : s \in Within[fiber[g].rule]
    BY <1>4 DEF Kin
  <2> QED
    BY <1>0, <2>1 DEF Cluster
<1>10. Fired(s)
  <2>1. ASSUME NEW g \in RuleFibers, fiber[g].rule = s
        PROVE  fiber[g].pc \in Past
    <3>1. g \in Cluster(s)
      BY <1>4, <2>1, WithinSelf DEF Cluster, RuleFibers
    <3>2. g \in gone /\ fiber[g].pc # "action"
      BY <1>4, <3>1 DEF RuleFibers
    <3> QED
      BY <1>5, <3>2 DEF Ends
  <2> QED
    BY <1>3, <2>1 DEF Fired
<1>11. s \notin abandoned /\ s \notin abandoned'
  BY <1>1, <1>3 DEF Marked
<1>12. Cluster(s)' = {}
  <2> SUFFICES ASSUME NEW g \in Cluster(s)'
               PROVE  FALSE
    OBVIOUS
  <2>1. g \in FiberId /\ Live(g)' /\ s \in Within[fiber'[g].rule]
    BY DEF Cluster
  <2>2. g \notin gone
    BY <1>0, <2>1, EndedAre DEF Live
  <2>3. Live(g) /\ fiber'[g].rule = fiber[g].rule
    BY <1>0, <2>1, <2>2, EndedAre
  <2> QED
    BY <1>4, <2>1, <2>2, <2>3 DEF Cluster
<1>13. ~Awaited(s)'
  <2>1. ASSUME NEW g \in RuleFibers'
        PROVE  /\ g \in RuleFibers /\ fiber'[g].rule = fiber[g].rule
               /\ fiber'[g].kids = fiber[g].kids
    <3>1. g \in FiberId /\ Live(g)' /\ fiber'[g].pc # "action"
      BY DEF RuleFibers
    <3>2. g \notin gone
      BY <1>0, <3>1, EndedAre DEF Live
    <3>3. /\ Live(g) /\ fiber'[g].rule = fiber[g].rule /\ fiber'[g].kids = fiber[g].kids
          /\ fiber[g].pc # "action"
      BY <1>0, <3>1, <3>2, EndedAre
    <3> QED
      BY <3>1, <3>3 DEF RuleFibers
  <2>2. ~Unanswered(f)'
    <3>1. fiber'[f].trigger # "pending"
      BY <1>0, <1>2, EndedAre
    <3>2. fiber'[f].pc \in {"asked", "when", "unarmed"}
      BY <1>0, <1>2, <1>7, EndedPlace
    <3> QED
      BY <3>1, <3>2 DEF Unanswered
  <2> QED
    BY <1>4, <1>7, <2>1, <2>2, OneAsks
<1> QED
  <2>1. Owed(s)
    BY <1>9, <1>10, <1>11 DEF Owed
  <2>2. Claimed(s)
    BY ONLY <1>4, <1>8, <1>11, <1>12, <1>13, <2>1 DEF Claimed
  <2> QED
    BY <1>7, <2>2

LEMMA EndKeepsAskings ==
    ASSUME AskInv, NEW gone, NEW final, Ending(gone, final)
    PROVE  Askings'
<1> USE DEF AskInv
<1>0. EndFibers(gone, final)
  BY DEF Ending
<1>1. ASSUME NEW f \in FiberId
      PROVE  /\ fiber'[f].pc = "asked" => Mode[fiber'[f].rule] = "then"
             /\ fiber'[f].waits = "trigger" =>
                  /\ state'[f] = "WAITING" /\ fiber'[f].pc = "asked"
                  /\ fiber'[f].trigger = "pending"
  <2>1. CASE f \in gone
    BY <2>1, EndedAre DEF Blank
  <2>2. CASE f \notin gone
    <3>1. fiber'[f].rule = fiber[f].rule
      BY <2>2, EndedAre
    <3>2. fiber'[f].pc = "asked" => fiber[f].pc = "asked"
      BY <1>0, <2>2, EndedPlace
    <3>3. ASSUME fiber'[f].waits = "trigger"
          PROVE  /\ fiber[f].waits = "trigger"
                 /\ f \notin WaitingAskers(gone) /\ f \notin Callers(gone)
      BY <1>0, <2>2, <3>3, EndedPlace
    <3>4. ASSUME fiber'[f].waits = "trigger"
          PROVE  /\ state'[f] = "WAITING" /\ fiber'[f].pc = "asked"
                 /\ fiber'[f].trigger = "pending"
      <4>1. state[f] = "WAITING" /\ fiber[f].pc = "asked" /\ fiber[f].trigger = "pending"
        BY <3>3, <3>4 DEF Askings
      <4>2. f \notin Askers(gone)
        BY <3>3, <3>4, <4>1 DEF WaitingAskers
      <4>3. fiber'[f].trigger = fiber[f].trigger /\ fiber'[f].pc = fiber[f].pc
        BY <2>2, <4>2, EndedAre
      <4>4. state'[f] = state[f]
        BY <1>0, <2>2, <3>3, <3>4 DEF EndFibers
      <4> QED
        BY <4>1, <4>3, <4>4
    <3> QED
      BY <3>1, <3>2, <3>4 DEF Askings
  <2> QED
    BY <2>1, <2>2
<1> QED
  BY <1>1 DEF Askings

LEMMA EndAccounted ==
    ASSUME AskInv, SubjectsRecordThemselves, NEW gone, NEW final, Ends(gone, final)
    PROVE  Accounted
<1>1. \A s \in Rule : Owed(s)' => Owed(s)
  BY EndKeepsOwed
<1>2. \A s \in Claims : Claimed(s)
  <2>1. \A f \in ToldTrue : Claimed(PrecedingSibling[fiber[f].rule])
    BY EndClaims DEF ToldTrue
  <2> QED
    BY <2>1 DEF Claims
<1>3. Askings'
  BY EndKeepsAskings DEF Ends
<1> QED
  BY <1>1, <1>2, <1>3 DEF Accounted

(* A fiber that returns has passed its gate, whether the rule fired or     *)
(* not; a fault or a cancellation marks what it ends.                      *)
LEMMA EndWithAccounted ==
    ASSUME AskInv, SubjectsRecordThemselves, TypeOK', NEW f \in FiberId, Return(f) \/ Fault(f)
    PROVE  Accounted
<1> USE DEF AskInv
<1>1. PICK final \in {"DONE", "FAULT"} :
         /\ Executing(f) /\ EndWith(f, final)
         /\ final = "DONE" => fiber[f].pc \in Past \cup {"action"}
  <2>1. CASE Return(f)
    BY <2>1 DEF Return, Past
  <2>2. CASE Fault(f)
    BY <2>2 DEF Fault
  <2> QED
    BY <2>1, <2>2
<1>2. Ending({f}, final)
  BY <1>1 DEF Ending, EndWith, Executing, Live, Alive, Terminal
<1>3. Ends({f}, final)
  BY <1>1, <1>2 DEF Ends, EndWith
<1> QED
  BY <1>3, EndAccounted

LEMMA PageRequestAccounted ==
    ASSUME AskInv, SubjectsRecordThemselves, TypeOK', NEW p \in Page,
           RequestPage(p) \/ LeavePage(p)
    PROVE  Accounted
<1> USE DEF AskInv
<1>1. EndFibers(PageFibers, "CANCELLED") /\ firing' = firing
  BY DEF RequestPage, LeavePage
<1>2. Ending(PageFibers, "CANCELLED")
  BY <1>1, PageFibersLive DEF Ending, Terminal
<1>3. Ends(PageFibers, "CANCELLED")
  BY <1>1, <1>2 DEF Ends
<1> QED
  BY <1>3, EndAccounted

-----------------------------------------------------------------------------
(* The history.                                                            *)

(* What a fault or a page request spoils is marked as abandoned.           *)
LEMMA SpoiledMarked ==
    ASSUME AskInv, TypeOK', Next
    PROVE  Spoiled \subseteq abandoned'
<1> USE DEF AskInv
<1>1. CASE \E p \in Page : RequestPage(p) \/ LeavePage(p)
  <2>1. EndFibers(PageFibers, "CANCELLED")
    BY <1>1 DEF RequestPage, LeavePage
  <2>2. Spoiled = Kin(PageFibers)
    BY <1>1 DEF Spoiled, Kin
  <2> QED
    BY <2>1, <2>2 DEF EndFibers, Marked
<1>2. CASE ~\E p \in Page : RequestPage(p) \/ LeavePage(p)
  <2>1. ASSUME NEW f \in FiberId, Fault(f)
        PROVE  Within[fiber[f].rule] \subseteq abandoned'
    <3>1. EndFibers({f}, "FAULT")
      BY <2>1 DEF Fault, EndWith
    <3>2. abandoned' = abandoned \cup Kin({f})
      BY <3>1 DEF EndFibers, Marked
    <3> QED
      BY <3>2 DEF Kin
  <2> QED
    BY <1>2, <2>1 DEF Spoiled
<1> QED
  BY <1>1, <1>2

LEMMA NextAccounted ==
    ASSUME AskInv, SubjectsRecordThemselves, TypeOK', [Next]_vars
    PROVE  Accounted
<1>1. ASSUME NEW p \in Page, RequestPage(p) \/ LeavePage(p)
      PROVE  Accounted
  BY <1>1, PageRequestAccounted
<1>2. ASSUME NEW p \in Page, Think(p)
      PROVE  Accounted
  BY <1>2, ThinkAccounted
<1>3. ASSUME RunNext \/ EndThink \/ Throws \/ UNCHANGED vars
      PROVE  Accounted
  BY <1>3, TickAccounted
<1>4. ASSUME NEW f \in FiberId, Instruction(f) \/ HostSettle(f)
      PROVE  Accounted
  <2>1. CASE Begin(f)
    BY <2>1, BeginAccounted
  <2>2. CASE ReadSubject(f) \/ AwaitAnswer(f)
    BY <2>2, ReadAccounted
  <2>3. CASE AskTrigger(f)
    BY <2>3, AskAccounted
  <2>4. CASE \E outcome \in BOOLEAN : Gate(f, outcome)
    BY <2>4, GateAccounted
  <2>5. CASE \/ AwaitTrigger(f) \/ AwaitHost(f) \/ Yield(f)
             \/ LeaveCancelled(f) \/ ErrorEscapes(f) \/ HostSettle(f)
    BY <2>5, SlicesAccounted
  <2>6. CASE CallAction(f)
    BY <2>6, CallAccounted
  <2>7. CASE SpawnRule(f)
    BY <2>7, SpawnAccounted
  <2>8. CASE Return(f) \/ Fault(f)
    BY <2>8, EndWithAccounted
  <2> QED
    BY <1>4, <2>1, <2>2, <2>3, <2>4, <2>5, <2>6, <2>7, <2>8 DEF Instruction
<1> QED
  BY <1>1, <1>2, <1>3, <1>4 DEF Next, Throws

(* At first every root rule of the page has still to begin.                *)
LEMMA HistoryInitInv ==
    ASSUME HistoryInit
    PROVE  HistoryInv
<1> PICK rs : rs = FirstRules
  OBVIOUS
<1> PICK fs : fs = CHOOSE s \in Lists(Len(rs), FiberId) : TRUE
  OBVIOUS
<1>1. FirstFibers(rs, fs)
  BY FirstFibersAre DEF HistoryInit
<1>2. \A i \in DOMAIN rs :
         /\ fs[i] \in RuleFibers /\ fiber[fs[i]].rule = rs[i] /\ rs[i] \in Rule
         /\ fiber[fs[i]].pc = "start" /\ fiber[fs[i]].waits = "nothing" /\ fiber[fs[i]].kids = 0
  <2> TAKE i \in DOMAIN rs
  <2>1. fs[i] \in FiberId /\ state[fs[i]] = "RUNNABLE" /\ fiber[fs[i]] = [Blank EXCEPT !.rule = rs[i]]
        /\ rs[i] \in Rule
    BY <1>1 DEF FirstFibers
  <2> QED
    BY <2>1 DEF Blank, RuleFibers, Live, Alive
<1>3. \A f \in FiberId : (\E i \in DOMAIN rs : f = fs[i]) \/ (fiber[f] = Blank /\ ~Live(f))
  BY <1>1 DEF FirstFibers, Live, Alive
<1>4. \A f \in FiberId : Live(f) => \E i \in DOMAIN rs : f = fs[i]
  BY <1>3
<1>5. \A i \in DOMAIN rs : ~Fired(rs[i])
  BY <1>2 DEF Fired, Past
<1>6. Owing
  <2> SUFFICES ASSUME NEW s \in Rule, Owed(s)
               PROVE  FALSE
    BY DEF Owing
  <2>1. \A i \in DOMAIN rs : rs[i] # s
    BY <1>5 DEF Owed
  <2>2. Cluster(s) = {}
    <3> SUFFICES ASSUME NEW f \in Cluster(s)
                 PROVE  FALSE
      OBVIOUS
    <3>1. f \in FiberId /\ Live(f) /\ s \in Within[fiber[f].rule]
      BY DEF Cluster
    <3>2. PICK i \in DOMAIN rs : f = fs[i]
      BY <1>4, <3>1
    <3>3. fiber[f].rule = rs[i] /\ rs[i] \in Rule /\ Parent[rs[i]] = NoRule
      BY <1>1, <1>2, <3>2 DEF FirstFibers
    <3>4. s = rs[i]
      BY <3>1, <3>3, WithinRoot
    <3> QED
      BY <2>1, <3>4
  <2>3. ~Awaited(s)
    <3> SUFFICES ASSUME NEW f \in RuleFibers, AwaitedBy(f, s)
                 PROVE  FALSE
      BY DEF Awaited
    <3>1. PICK i \in DOMAIN rs : f = fs[i]
      BY <1>4 DEF RuleFibers
    <3> PICK r : r = rs[i]
      OBVIOUS
    <3>2. /\ fiber[f].rule = r /\ r \in Rule /\ fiber[f].kids = 0
          /\ Parent[r] = NoRule /\ PageOf[r] = 1 /\ rs \in Seq(Rule)
      BY <1>1, <1>2, <3>1 DEF FirstFibers
    <3>3. 0 \notin DOMAIN ChildRules[r]
      BY <3>2, ChildRulesBounded
    <3>4. PrecedingSibling[r] = s
      BY <3>2, <3>3 DEF AwaitedBy
    <3>5. PICK j \in DOMAIN Level(r) :
             /\ Level(r)[j] = r
             /\ PrecedingSibling[r] = IF j = 1 THEN NoRule ELSE Level(r)[j - 1]
      BY <3>2, AboveIs
    <3>6. Level(r) = rs
      BY <1>1, <3>1, <3>2 DEF Level, FirstFibers
    <3>7. j - 1 \in DOMAIN rs /\ rs[j - 1] = s
      BY <3>2, <3>4, <3>5, <3>6, RuleProgramAssumption
    <3> QED
      BY <2>1, <3>7
  <2> QED
    BY <2>2, <2>3 DEF Owed
<1>7. Askings
  <2>1. \A f \in FiberId : fiber[f].pc = "start" /\ fiber[f].waits = "nothing"
    BY <1>2, <1>3 DEF Blank
  <2> QED
    BY <2>1 DEF Askings
<1> QED
  BY <1>6, <1>7, InitInv DEF HistoryInit, HistoryInv, AskInv

(* Whoever is told is told of a firing that nobody has claimed.            *)
LEMMA ClaimsAreOwed ==
    ASSUME HistoryInv, SubjectsRecordThemselves, HistoryNext
    PROVE  /\ AskInv' /\ Accounted
           /\ \A s \in Claims : s \in unclaimed \ Spoiled /\ Cluster(s)' = {}
<1> USE DEF HistoryInv, AskInv
<1>1. Next
  BY DEF HistoryNext
<1>2. BrainInv' /\ TypeOK'
  BY <1>1, BrainStep DEF BrainInv
<1>3. Accounted
  BY <1>1, <1>2, NextAccounted
<1>4. Spoiled \subseteq abandoned'
  BY <1>1, <1>2, SpoiledMarked
<1>5. ASSUME NEW s \in Claims
      PROVE  s \in unclaimed \ Spoiled /\ Cluster(s)' = {}
  <2>1. Claimed(s)
    BY <1>3 DEF Accounted
  <2>2. s \in unclaimed
    BY <2>1 DEF Claimed, Owing
  <2> QED
    BY <1>4, <2>1, <2>2 DEF Claimed
<1> QED
  BY <1>2, <1>3, <1>5 DEF Accounted

LEMMA HistoryStep ==
    ASSUME HistoryInv, SubjectsRecordThemselves, [HistoryNext]_<<vars, historyVars>>
    PROVE  HistoryInv'
<1>1. CASE HistoryNext
  <2>1. AskInv' /\ Accounted
    BY <1>1, ClaimsAreOwed
  <2>2. Spoiled \subseteq abandoned'
    <3>1. TypeOK' /\ Next /\ AskInv
      BY <1>1, <2>1 DEF AskInv, BrainInv, HistoryNext, HistoryInv
    <3> QED
      BY <3>1, SpoiledMarked
  <2>3. unclaimed' = (unclaimed \ (Claims \cup Spoiled)) \cup FiringRules
    BY <1>1 DEF HistoryNext
  <2>4. ASSUME NEW s \in Rule, Mode[s] # "otherwise", Owed(s)'
        PROVE  s \in unclaimed'
    <3>1. CASE s \in FiringRules
      BY <2>3, <3>1
    <3>2. CASE s \notin FiringRules
      <4>1. Owed(s)
        BY <2>1, <2>4, <3>2 DEF Accounted
      <4>2. s \in unclaimed
        BY <2>4, <4>1 DEF HistoryInv, Owing
      <4>3. s \notin abandoned' /\ (Cluster(s)' # {} \/ Awaited(s)')
        BY <2>4 DEF Owed
      <4>4. s \notin Claims
        BY <2>1, <4>3 DEF Accounted, Claimed
      <4> QED
        BY <2>2, <2>3, <4>2, <4>3, <4>4
    <3> QED
      BY <3>1, <3>2
  <2>5. Owing'
    BY <2>4 DEF Owing
  <2> QED
    BY <2>1, <2>5 DEF HistoryInv
<1>2. CASE UNCHANGED <<vars, historyVars>>
  <2>1. AskInv' /\ Accounted
    <3>1. BrainInv' /\ TypeOK'
      BY <1>2, BrainStep DEF HistoryInv, AskInv, BrainInv
    <3>2. Accounted
      BY <1>2, TickAccounted DEF HistoryInv
    <3> QED
      BY <3>1, <3>2 DEF AskInv, Accounted
  <2>2. UNCHANGED <<state, fiber, firing, abandoned, unclaimed>>
    BY <1>2 DEF vars, ruleVars, historyVars
  <2>3. RuleFibers' = RuleFibers /\ \A s \in Rule : Cluster(s)' = Cluster(s)
    BY <2>2 DEF RuleFibers, Cluster, Live
  <2>4. \A s \in Rule : Owed(s)' => Owed(s)
    BY <2>2, <2>3 DEF Owed, Fired, DidFire, Awaited, AwaitedBy, Unanswered
  <2>5. Owing'
    BY <2>2, <2>4 DEF HistoryInv, Owing
  <2> QED
    BY <2>1, <2>5 DEF HistoryInv
<1> QED
  BY <1>1, <1>2

(* A `then` rule runs once per completed firing of the rule above it, in   *)
(* every rule program in which no `then` follows an `otherwise`: whoever   *)
(* is told true is told so of a firing that no fault and no page request   *)
(* has touched, whose rules have nothing left in flight, and that nobody   *)
(* was told of before.                                                     *)
THEOREM ThenOncePerFiring ==
    ASSUME SubjectsRecordThemselves
    PROVE  HistorySpec => FiresOncePerCompletion
<1>1. HistoryInit => HistoryInv
  BY HistoryInitInv
<1>2. HistoryInv /\ [HistoryNext]_<<vars, historyVars>> => HistoryInv'
  BY HistoryStep
<1>3. HistoryInv /\ [HistoryNext]_<<vars, historyVars>> =>
         [\A s \in Claims : s \in unclaimed \ Spoiled /\ Cluster(s)' = {}]_<<vars, historyVars>>
  BY ClaimsAreOwed
<1> QED
  BY <1>1, <1>2, <1>3, PTL DEF HistorySpec, FiresOncePerCompletion

-----------------------------------------------------------------------------
(* One branch of a ladder: from here on, what OneBranchPerThink rests on.  *)

(* Where a rule is while its check has begun and has not been decided.     *)
Testing == {"arm", "asked", "when", "unarmed"}

(* How a rule fiber gets from one place of its rule's code to another.     *)
Turns(f) ==
    \/ fiber'[f].pc = fiber[f].pc
    \/ Begin(f) \/ ReadSubject(f) \/ AskTrigger(f) \/ \E outcome \in BOOLEAN : Gate(f, outcome)
    \/ fiber[f].pc = "asked" /\ fiber'[f].pc \in {"when", "unarmed"}

Onward(f) ==
    /\ f \in RuleFibers
    /\ fiber'[f].rule = fiber[f].rule /\ fiber'[f].kids = fiber[f].kids
    /\ Turns(f)

LEMMA GotoPlaces ==
    ASSUME BrainInv, NEW f \in FiberId, NEW at, Goto(f, at)
    PROVE  fiber'[f].pc = at /\ \A g \in FiberId : g # f => fiber'[g] = fiber[g]
<1>1. fiber \in [FiberId -> Fiber] /\ fiber[f] \in Fiber
  BY DEF BrainInv, TypeOK
<1>2. fiber'[f] = [fiber[f] EXCEPT !.pc = at] /\ \A g \in FiberId : g # f => fiber'[g] = fiber[g]
  BY <1>1 DEF Goto
<1> QED
  BY <1>1, <1>2 DEF Fiber

LEMMA SameOnward ==
    ASSUME SameFibers, \A f \in RuleFibers : Turns(f)
    PROVE  \A f \in RuleFibers' : Onward(f)
BY DEF SameFibers, RuleFibers, Live, Onward

LEMMA InstructionsOnward ==
    ASSUME BrainInv, NEW f \in FiberId,
           Begin(f) \/ ReadSubject(f) \/ AskTrigger(f) \/ \E outcome \in BOOLEAN : Gate(f, outcome)
    PROVE  \A g \in RuleFibers' : Onward(g)
<1>1. CASE Begin(f) \/ ReadSubject(f) \/ \E outcome \in BOOLEAN : Gate(f, outcome)
  <2>1. SameFibers
    BY <1>1, InstructionsKeep
  <2>2. \E at : Goto(f, at)
    BY <1>1 DEF Begin, ReadSubject, Gate
  <2>3. \A g \in FiberId : g # f => fiber'[g] = fiber[g]
    BY <2>2, GotoPlaces
  <2>4. \A g \in RuleFibers : Turns(g)
    BY <1>1, <2>3 DEF Turns, RuleFibers
  <2> QED
    BY <2>1, <2>4, SameOnward
<1>2. CASE AskTrigger(f)
  <2>1. fiber \in [FiberId -> Fiber] /\ fiber[f] \in Fiber
    BY DEF BrainInv, TypeOK
  <2>2. PICK t : fiber' = [fiber EXCEPT ![f].pc = "asked", ![f].trigger = t]
    BY <1>2 DEF AskTrigger
  <2>3. /\ fiber'[f] = [fiber[f] EXCEPT !.pc = "asked", !.trigger = t]
        /\ \A g \in FiberId : g # f => fiber'[g] = fiber[g]
    BY <2>1, <2>2
  <2>4. /\ fiber'[f].rule = fiber[f].rule /\ fiber'[f].kids = fiber[f].kids
        /\ fiber'[f].pc = "asked"
    BY <2>1, <2>3 DEF Fiber
  <2>5. state' = state /\ fiber[f].pc = "arm" /\ Live(f)
    BY <1>2 DEF AskTrigger, Continues, Executing, Live, Alive
  <2> QED
    BY <1>2, <2>3, <2>4, <2>5 DEF Onward, Turns, RuleFibers, Live
<1> QED
  BY <1>1, <1>2

LEMMA SlicesOnward ==
    ASSUME BrainInv, NEW f \in FiberId,
           \/ AwaitAnswer(f) \/ AwaitTrigger(f) \/ AwaitHost(f) \/ Yield(f)
           \/ LeaveCancelled(f) \/ ErrorEscapes(f) \/ HostSettle(f)
    PROVE  \A g \in RuleFibers' : Onward(g)
<1>1. SameFibers
  BY SlicesKeep
<1>2. fiber \in [FiberId -> Fiber] /\ \A g \in FiberId : fiber[g] \in Fiber
  BY DEF BrainInv, TypeOK
<1>3. ASSUME NEW g \in RuleFibers
      PROVE  Turns(g)
  <2>0. g \in FiberId /\ fiber[g] \in Fiber
    BY <1>2 DEF RuleFibers
  <2>1. CASE AwaitAnswer(f)
    <3>1. PICK at \in {"when", "unarmed"} : fiber' = [fiber EXCEPT ![f].pc = at, ![f].trigger = "none"]
      BY <2>1 DEF AwaitAnswer
    <3>2. g # f => fiber'[g] = fiber[g]
      BY <1>2, <2>0, <3>1
    <3>3. g = f => fiber'[g] = [fiber[g] EXCEPT !.pc = at, !.trigger = "none"]
      BY <1>2, <2>0, <3>1
    <3>4. g = f => fiber'[g].pc = at
      BY <2>0, <3>3 DEF Fiber
    <3> QED
      BY <2>1, <3>2, <3>4 DEF Turns, AwaitAnswer
  <2>2. CASE AwaitTrigger(f) \/ AwaitHost(f) \/ HostSettle(f)
    <3>1. PICK w : fiber' = [fiber EXCEPT ![f].waits = w]
      BY <2>2 DEF AwaitTrigger, AwaitHost, HostSettle
    <3>2. fiber'[g] = [fiber[g] EXCEPT !.waits = w] \/ fiber'[g] = fiber[g]
      BY <1>2, <2>0, <3>1
    <3>3. fiber'[g].pc = fiber[g].pc
      BY <2>0, <3>2 DEF Fiber
    <3> QED
      BY <3>3 DEF Turns
  <2>3. CASE Yield(f) \/ LeaveCancelled(f) \/ ErrorEscapes(f)
    BY <2>3 DEF Yield, LeaveCancelled, ErrorEscapes, Turns
  <2> QED
    BY <2>1, <2>2, <2>3
<1> QED
  BY <1>1, <1>3, SameOnward

LEMMA TickOnward ==
    ASSUME BrainInv, RunNext \/ EndThink \/ Throws \/ UNCHANGED vars
    PROVE  \A g \in RuleFibers' : Onward(g)
<1>1. SameFibers
  BY TickKeeps
<1>2. \A g \in FiberId : fiber[g] \in Fiber
  BY DEF BrainInv, TypeOK
<1>3. ASSUME NEW g \in RuleFibers
      PROVE  Turns(g)
  <2>0. g \in FiberId /\ fiber[g] \in Fiber
    BY <1>2 DEF RuleFibers
  <2>1. \/ fiber'[g] = fiber[g]
        \/ fiber'[g] = [fiber[g] EXCEPT !.trigger = "swept"]
    BY <2>0, ThrowsAre DEF RunNext, EndThink, vars
  <2>2. fiber'[g].pc = fiber[g].pc
    BY <2>0, <2>1 DEF Fiber
  <2> QED
    BY <2>2 DEF Turns
<1> QED
  BY <1>1, <1>3, SameOnward

LEMMA CallOnward ==
    ASSUME BrainInv, NEW f \in FiberId, CallAction(f)
    PROVE  \A g \in RuleFibers' : Onward(g)
<1> PICK c : c = FreshFibers(1)[1]
  OBVIOUS
<1>1. fiber \in [FiberId -> Fiber] /\ fiber[f] \in Fiber /\ state \in [FiberId -> FiberState]
  BY DEF BrainInv, TypeOK, QueueTypeOK
<1>2. /\ HasFresh(1) /\ Executing(f)
      /\ state' = [state EXCEPT ![f] = "WAITING", ![c] = "RUNNABLE"]
      /\ fiber' = [fiber EXCEPT ![f].waits = "action",
                      ![c] = [Blank EXCEPT !.rule = fiber[f].rule, !.pc = "action", !.caller = f]]
  BY DEF CallAction
<1>3. c \in FiberId /\ c \in Unused
  <2>1. FreshFibers(1) \in [1 .. 1 -> Unused]
    BY <1>2, FreshAre
  <2>2. 1 \in 1 .. 1
    OBVIOUS
  <2> QED
    BY <2>1, <2>2 DEF Unused
<1>5. c # f
  BY <1>2, <1>3 DEF Unused, Live, Alive, Executing
<1>6. /\ fiber'[c] = [Blank EXCEPT !.rule = fiber[f].rule, !.pc = "action", !.caller = f]
      /\ fiber'[f] = [fiber[f] EXCEPT !.waits = "action"]
      /\ \A g \in FiberId : g # f /\ g # c => fiber'[g] = fiber[g] /\ state'[g] = state[g]
  BY <1>1, <1>2, <1>3, <1>5
<1>7. fiber'[c].pc = "action"
  BY <1>6 DEF Blank
<1>8. /\ fiber'[f].pc = fiber[f].pc /\ fiber'[f].rule = fiber[f].rule
      /\ fiber'[f].kids = fiber[f].kids
  BY <1>1, <1>6 DEF Fiber
<1>9. ASSUME NEW g \in RuleFibers'
      PROVE  Onward(g)
  <2>1. g \in FiberId /\ g # c /\ fiber'[g].pc # "action" /\ Live(g)'
    BY <1>7, <1>9 DEF RuleFibers
  <2>2. CASE g = f
    BY <1>2, <1>8, <2>1, <2>2 DEF Onward, Turns, RuleFibers, Live, Alive, Executing
  <2>3. CASE g # f
    BY <1>6, <2>1, <2>3 DEF Onward, Turns, RuleFibers, Live
  <2> QED
    BY <2>2, <2>3
<1> QED
  BY <1>9

LEMMA EndOnward ==
    ASSUME NEW gone, NEW final, Ending(gone, final)
    PROVE  \A g \in RuleFibers' : g \notin gone /\ Onward(g)
<1>0. BrainInv /\ EndFibers(gone, final)
  BY DEF Ending
<1> SUFFICES ASSUME NEW g \in RuleFibers'
             PROVE  g \notin gone /\ Onward(g)
  OBVIOUS
<1>1. g \in FiberId /\ Live(g)' /\ fiber'[g].pc # "action"
  BY DEF RuleFibers
<1>2. g \notin gone
  BY <1>1, EndedAre DEF Live
<1>3. /\ Live(g) /\ fiber'[g].rule = fiber[g].rule /\ fiber'[g].kids = fiber[g].kids
      /\ fiber[g].pc # "action"
  BY <1>1, <1>2, EndedAre
<1>4. CASE g \in WaitingAskers(gone)
  <2>1. fiber'[g].pc \in {"when", "unarmed"}
    BY <1>0, <1>1, <1>2, <1>4, EndedPlace
  <2>2. g \in Askers(gone)
    BY <1>4 DEF WaitingAskers
  <2>3. fiber[g].pc = "asked"
    BY <2>2, ToldAreLive DEF Ending, Asks
  <2> QED
    BY <1>1, <1>2, <1>3, <2>1, <2>3 DEF Onward, Turns, RuleFibers
<1>5. CASE g \notin WaitingAskers(gone)
  <2>1. fiber'[g].pc = fiber[g].pc
    BY <1>0, <1>1, <1>2, <1>5, EndedPlace
  <2> QED
    BY <1>1, <1>2, <1>3, <2>1 DEF Onward, Turns, RuleFibers
<1> QED
  BY <1>4, <1>5

(* Every step but those that start rules leaves the rule fibers where they *)
(* are in their rules' code, or takes them further.                        *)
LEMMA StepsOnward ==
    ASSUME BrainInv, TypeOK', [Next]_vars, ~\E p \in Page : Think(p), ~\E f \in FiberId : SpawnRule(f)
    PROVE  \A g \in RuleFibers' : Onward(g)
<1>1. ASSUME NEW p \in Page, RequestPage(p) \/ LeavePage(p)
      PROVE  \A g \in RuleFibers' : Onward(g)
  <2>1. EndFibers(PageFibers, "CANCELLED")
    BY <1>1 DEF RequestPage, LeavePage
  <2>2. Ending(PageFibers, "CANCELLED")
    BY <2>1, PageFibersLive DEF Ending, Terminal
  <2> QED
    BY <2>2, EndOnward
<1>2. ASSUME RunNext \/ EndThink \/ Throws \/ UNCHANGED vars
      PROVE  \A g \in RuleFibers' : Onward(g)
  BY <1>2, TickOnward
<1>3. ASSUME NEW f \in FiberId, Instruction(f) \/ HostSettle(f)
      PROVE  \A g \in RuleFibers' : Onward(g)
  <2>1. CASE Begin(f) \/ ReadSubject(f) \/ AskTrigger(f) \/ \E outcome \in BOOLEAN : Gate(f, outcome)
    BY <2>1, InstructionsOnward
  <2>2. CASE \/ AwaitAnswer(f) \/ AwaitTrigger(f) \/ AwaitHost(f) \/ Yield(f)
             \/ LeaveCancelled(f) \/ ErrorEscapes(f) \/ HostSettle(f)
    BY <2>2, SlicesOnward
  <2>3. CASE CallAction(f)
    BY <2>3, CallOnward
  <2>4. CASE Return(f) \/ Fault(f)
    <3>1. PICK final \in {"DONE", "FAULT"} : Executing(f) /\ EndWith(f, final)
      BY <2>4 DEF Return, Fault
    <3>2. Ending({f}, final)
      BY <3>1 DEF Ending, EndWith, Executing, Live, Alive, Terminal
    <3> QED
      BY <3>2, EndOnward
  <2> QED
    BY <1>3, <2>1, <2>2, <2>3, <2>4 DEF Instruction
<1> QED
  BY <1>1, <1>2, <1>3 DEF Next, Throws

-----------------------------------------------------------------------------
(* The history of one think.  A rule that has still to begin has neither   *)
(* begun nor fired in it, one that has still to be decided has not fired,  *)
(* and a child rule that has still to be spawned has not been touched.     *)
Untouched(k) == \A q \in begun \cup fired : k \notin Within[q]

OncePerThink ==
    /\ begun \in SUBSET Rule /\ fired \in SUBSET Rule
    /\ \A f \in RuleFibers :
          /\ fiber[f].pc = "start" => fiber[f].rule \notin begun
          /\ fiber[f].pc \in Testing \cup {"start"} => fiber[f].rule \notin fired
          /\ \A n \in DOMAIN ChildRules[fiber[f].rule] :
                n > fiber[f].kids => Untouched(ChildRules[fiber[f].rule][n])

(* The records of the think: an `always` rule has none, a rule that fired  *)
(* in it has the record of a firing, and the record of a rule that is      *)
(* being decided says so, unless a trigger may keep it waiting.            *)
Recorded ==
    /\ \A r \in Rule : Mode[r] = "always" => firing[r] = "INITIAL"
    /\ \A r \in fired : Mode[r] = "always" \/ firing[r] = "DID_FIRE"
    /\ \A f \in RuleFibers : fiber[f].pc \in Testing =>
          /\ Mode[fiber[f].rule] # "always"
          /\ fiber[f].pc = "asked" => Mode[fiber[f].rule] = "then"
          /\ Mode[fiber[f].rule] = "then" \/ firing[fiber[f].rule] = "EVALUATING"

LEMMA PlacesOf ==
    ASSUME BrainInv, NEW f \in FiberId
    PROVE  /\ Begin(f) => /\ fiber[f].pc = "start"
                          /\ fiber'[f].pc = IF Mode[fiber[f].rule] = "always" THEN "do"
                                            ELSE IF Mode[fiber[f].rule] = "when" THEN "when" ELSE "arm"
           /\ ReadSubject(f) => /\ fiber[f].pc = "arm" /\ Mode[fiber[f].rule] = "otherwise"
                                /\ fiber'[f].pc \in {"when", "unarmed"}
           /\ AskTrigger(f) => /\ fiber[f].pc = "arm" /\ Mode[fiber[f].rule] = "then"
                               /\ fiber'[f].pc = "asked"
           /\ \A outcome \in BOOLEAN : Gate(f, outcome) =>
                 /\ fiber[f].pc \in {"when", "unarmed"}
                 /\ fiber'[f].pc = IF outcome THEN "do" ELSE "return"
<1>1. Begin(f) => /\ fiber[f].pc = "start"
                  /\ fiber'[f].pc = IF Mode[fiber[f].rule] = "always" THEN "do"
                                    ELSE IF Mode[fiber[f].rule] = "when" THEN "when" ELSE "arm"
  BY GotoPlaces DEF Begin
<1>2. ReadSubject(f) => /\ fiber[f].pc = "arm" /\ Mode[fiber[f].rule] = "otherwise"
                        /\ fiber'[f].pc \in {"when", "unarmed"}
  <2> SUFFICES ASSUME ReadSubject(f)
               PROVE  /\ fiber[f].pc = "arm" /\ Mode[fiber[f].rule] = "otherwise"
                      /\ fiber'[f].pc \in {"when", "unarmed"}
    OBVIOUS
  <2>1. PICK at \in {"when", "unarmed"} : Goto(f, at)
    BY DEF ReadSubject
  <2> QED
    BY <2>1, GotoPlaces DEF ReadSubject
<1>3. AskTrigger(f) => /\ fiber[f].pc = "arm" /\ Mode[fiber[f].rule] = "then"
                       /\ fiber'[f].pc = "asked"
  <2> SUFFICES ASSUME AskTrigger(f)
               PROVE  /\ fiber[f].pc = "arm" /\ Mode[fiber[f].rule] = "then"
                      /\ fiber'[f].pc = "asked"
    OBVIOUS
  <2>1. fiber \in [FiberId -> Fiber] /\ fiber[f] \in Fiber
    BY DEF BrainInv, TypeOK
  <2>2. PICK t : fiber' = [fiber EXCEPT ![f].pc = "asked", ![f].trigger = t]
    BY DEF AskTrigger
  <2>3. fiber'[f] = [fiber[f] EXCEPT !.pc = "asked", !.trigger = t]
    BY <2>1, <2>2
  <2>4. fiber'[f].pc = "asked"
    BY <2>1, <2>3 DEF Fiber
  <2> QED
    BY <2>4 DEF AskTrigger
<1>4. ASSUME NEW outcome \in BOOLEAN, Gate(f, outcome)
      PROVE  /\ fiber[f].pc \in {"when", "unarmed"}
             /\ fiber'[f].pc = IF outcome THEN "do" ELSE "return"
  BY <1>4, GotoPlaces DEF Gate
<1> QED
  BY <1>1, <1>2, <1>3, <1>4

(* No place is entered but from one before it.                             *)
LEMMA PlacesBefore ==
    ASSUME BrainInv, NEW f \in FiberId, Turns(f)
    PROVE  /\ fiber'[f].pc = "start" => fiber[f].pc = "start"
           /\ fiber'[f].pc \in Testing => fiber[f].pc \in Testing \/ Begin(f)
           /\ fiber'[f].pc = "asked" => fiber[f].pc = "asked" \/ AskTrigger(f)
BY PlacesOf DEF Turns, Testing

LEMMA RunningFiber ==
    ASSUME BrainInv, NEW f \in FiberId, Executing(f), fiber[f].pc # "action"
    PROVE  f \in RuleFibers /\ f = running /\ fiber[f].rule \in Rule
<1>1. Live(f) /\ f = running
  BY DEF Executing, Live, Alive
<1> QED
  BY <1>1 DEF RuleFibers, BrainInv, Settled

(* The rules that begin or fire in a step.                                 *)
LEMMA BeginsOne ==
    ASSUME BrainInv, NEW f \in FiberId, Begin(f)
    PROVE  /\ f \in RuleFibers /\ f = running /\ fiber[f].rule \in Rule
           /\ fiber[f].pc = "start" /\ fiber'[f].pc # "start"
<1>1. Executing(f) /\ fiber[f].pc = "start" /\ fiber'[f].pc # "start"
  BY PlacesOf DEF Begin
<1> QED
  BY <1>1, RunningFiber

LEMMA FiresOne ==
    ASSUME BrainInv, NEW f \in FiberId, Fires(f)
    PROVE  /\ f \in RuleFibers /\ f = running /\ fiber[f].rule \in Rule
           /\ fiber'[f].pc = "do"
           /\ \/ Gate(f, TRUE) /\ fiber[f].pc = "when"
              \/ Begin(f) /\ Mode[fiber[f].rule] = "always" /\ fiber[f].pc = "start"
<1>1. Executing(f)
  BY DEF Fires, Gate, Begin
<1>2. Gate(f, TRUE) => fiber[f].pc = "when"
  BY DEF Gate
<1>3. fiber'[f].pc = "do" /\ fiber[f].pc \in {"start", "when"}
  BY <1>2, PlacesOf DEF Fires
<1> QED
  BY <1>1, <1>2, <1>3, RunningFiber, PlacesOf DEF Fires

LEMMA NewInThink ==
    ASSUME BrainInv, HistoryNext
    PROVE  /\ \A r \in begun' : r \in begun \/ \E f \in FiberId : Begin(f) /\ fiber[f].rule = r
           /\ \A r \in fired' : r \in fired \/ \E f \in FiberId : Fires(f) /\ fiber[f].rule = r
           /\ phase = "idle" => begun' = {} /\ fired' = {}
           /\ phase # "idle" => begun \subseteq begun' /\ fired \subseteq fired'
BY DEF HistoryNext, FiringRules

LEMMA OneFiber ==
    ASSUME BrainInv, NEW f \in RuleFibers, NEW g \in RuleFibers, fiber[f].rule = fiber[g].rule
    PROVE  f = g
BY DEF BrainInv, OneFiringInFlight

(* SPAWN_RULE is no instruction of a rule that begins or fires.            *)
LEMMA SpawnHistory ==
    ASSUME BrainInv, HistoryNext, NEW f \in FiberId, NEW c, NEW k, SpawnsOne(f, c, k),
           phase # "idle"
    PROVE  begun' = begun /\ fired' = fired
<1>1. running = f /\ fiber[f].pc \in {"do", "spawn"}
  BY DEF SpawnsOne, Executing
<1>2. \A g \in FiberId : ~Begin(g) /\ ~Fires(g)
  BY <1>1, BeginsOne, FiresOne
<1> QED
  BY <1>2, NewInThink

LEMMA OnwardOnce ==
    ASSUME BrainInv, HistoryNext, OncePerThink, phase # "idle", \A f \in RuleFibers' : Onward(f)
    PROVE  OncePerThink'
<1>1. begun' \in SUBSET Rule /\ fired' \in SUBSET Rule
  <2>1. \A r \in begun' : r \in Rule
    BY NewInThink, BeginsOne DEF OncePerThink
  <2>2. ASSUME NEW r \in fired'
        PROVE  r \in Rule
    <3>1. CASE r \in fired
      BY <3>1 DEF OncePerThink
    <3>2. CASE r \notin fired
      <4>1. PICK f \in FiberId : Fires(f) /\ fiber[f].rule = r
        BY <3>2, NewInThink
      <4> QED
        BY <4>1, FiresOne
    <3> QED
      BY <3>1, <3>2
  <2> QED
    BY <2>1, <2>2
<1>2. ASSUME NEW f \in RuleFibers'
      PROVE  /\ fiber'[f].pc = "start" => fiber'[f].rule \notin begun'
             /\ fiber'[f].pc \in Testing \cup {"start"} => fiber'[f].rule \notin fired'
             /\ \A n \in DOMAIN ChildRules[fiber'[f].rule] :
                   n > fiber'[f].kids =>
                      \A q \in begun' \cup fired' : ChildRules[fiber'[f].rule][n] \notin Within[q]
  <2>1. /\ f \in RuleFibers /\ f \in FiberId /\ Turns(f)
        /\ fiber'[f].rule = fiber[f].rule /\ fiber'[f].kids = fiber[f].kids
    BY <1>2 DEF Onward, RuleFibers
  <2>2. fiber'[f].pc = "start" => fiber'[f].rule \notin begun'
    <3> SUFFICES ASSUME fiber'[f].pc = "start", fiber[f].rule \in begun'
                 PROVE  FALSE
      BY <2>1
    <3>1. fiber[f].pc = "start"
      BY <2>1, PlacesBefore
    <3>2. fiber[f].rule \notin begun
      BY <2>1, <3>1 DEF OncePerThink
    <3>3. PICK g \in FiberId : Begin(g) /\ fiber[g].rule = fiber[f].rule
      BY <3>2, NewInThink
    <3>4. g = f
      BY <2>1, <3>3, BeginsOne, OneFiber
    <3> QED
      BY <3>3, <3>4, BeginsOne
  <2>3. fiber'[f].pc \in Testing \cup {"start"} => fiber'[f].rule \notin fired'
    <3> SUFFICES ASSUME fiber'[f].pc \in Testing \cup {"start"}, fiber[f].rule \in fired'
                 PROVE  FALSE
      BY <2>1
    <3>1. fiber[f].pc \in Testing \cup {"start"}
      BY <2>1, PlacesBefore, PlacesOf
    <3>2. fiber[f].rule \notin fired
      BY <2>1, <3>1 DEF OncePerThink
    <3>3. PICK g \in FiberId : Fires(g) /\ fiber[g].rule = fiber[f].rule
      BY <3>2, NewInThink
    <3>4. g = f
      BY <2>1, <3>3, FiresOne, OneFiber
    <3> QED
      BY <3>3, <3>4, FiresOne DEF Testing
  <2>4. ASSUME NEW n \in DOMAIN ChildRules[fiber[f].rule], n > fiber[f].kids,
               NEW q \in begun' \cup fired'
        PROVE  ChildRules[fiber[f].rule][n] \notin Within[q]
    <3>1. CASE q \in begun \cup fired
      BY <2>1, <2>4, <3>1 DEF OncePerThink, Untouched
    <3>2. CASE q \notin begun \cup fired
      <4>1. PICK g \in RuleFibers : fiber[g].rule = q
        BY <3>2, NewInThink, BeginsOne, FiresOne
      <4> QED
        BY <2>1, <2>4, <4>1 DEF BrainInv, Unspawned
    <3> QED
      BY <3>1, <3>2
  <2> QED
    BY <2>1, <2>2, <2>3, <2>4
<1> QED
  BY <1>1, <1>2 DEF OncePerThink, Untouched

LEMMA SpawnOnce ==
    ASSUME BrainInv, HistoryNext, OncePerThink, phase # "idle",
           NEW f \in FiberId, NEW c, NEW k, SpawnsOne(f, c, k)
    PROVE  OncePerThink'
<1>0. begun' = begun /\ fired' = fired
  BY SpawnHistory
<1>1. f \in RuleFibers
  BY RunningFiber DEF SpawnsOne
<1>2. Untouched(k)
  <2> PICK n : n = fiber[f].kids + 1
    OBVIOUS
  <2>1. n \in DOMAIN ChildRules[fiber[f].rule] /\ n > fiber[f].kids /\ k = ChildRules[fiber[f].rule][n]
    BY DEF SpawnsOne
  <2> QED
    BY <1>1, <2>1 DEF OncePerThink
<1>3. k \notin begun \cup fired /\ k \in Rule
  BY <1>2, WithinSelf DEF Untouched, SpawnsOne
<1>4. fiber'[c].rule = k /\ fiber'[c].kids = 0 /\ fiber'[c].pc = "start"
  BY DEF SpawnsOne, Blank
<1>5. ASSUME NEW n \in DOMAIN ChildRules[k], NEW q \in begun \cup fired
      PROVE  ChildRules[k][n] \notin Within[q]
  <2>1. ChildRules[k][n] \in Rule /\ Parent[ChildRules[k][n]] = k /\ k # NoRule /\ q \in Rule
    BY <1>3, ChildRule, RuleProgramAssumption DEF OncePerThink
  <2> QED
    BY <1>2, <2>1, WithinParent DEF Untouched
<1>6. ASSUME NEW g \in RuleFibers'
      PROVE  /\ fiber'[g].pc = "start" => fiber'[g].rule \notin begun
             /\ fiber'[g].pc \in Testing \cup {"start"} => fiber'[g].rule \notin fired
             /\ \A n \in DOMAIN ChildRules[fiber'[g].rule] :
                   n > fiber'[g].kids => Untouched(ChildRules[fiber'[g].rule][n])
  <2>1. CASE g = c
    BY <1>3, <1>4, <1>5, <2>1 DEF Untouched
  <2>2. CASE g = f
    <3>1. /\ fiber'[f].pc = "spawn" /\ fiber'[f].rule = fiber[f].rule
          /\ fiber'[f].kids = fiber[f].kids + 1 /\ fiber[f].kids \in Nat
      BY DEF SpawnsOne
    <3>2. \A n \in DOMAIN ChildRules[fiber[f].rule] :
             n > fiber[f].kids + 1 => Untouched(ChildRules[fiber[f].rule][n])
      <4> TAKE n \in DOMAIN ChildRules[fiber[f].rule]
      <4>1. n \in Nat
        BY ChildRulesBounded DEF SpawnsOne
      <4> QED
        BY <1>1, <3>1, <4>1 DEF OncePerThink
    <3> QED
      BY <2>2, <3>1, <3>2 DEF Testing
  <2>3. CASE g # c /\ g # f
    <3>1. g \in FiberId /\ Live(g)' /\ fiber'[g].pc # "action"
      BY DEF RuleFibers
    <3>2. g \in RuleFibers /\ fiber'[g] = fiber[g]
      BY <2>3, <3>1 DEF SpawnsOne, RuleFibers, Live
    <3> QED
      BY <3>2 DEF OncePerThink
  <2> QED
    BY <2>1, <2>2, <2>3
<1> QED
  BY <1>0, <1>6 DEF OncePerThink, Untouched

LEMMA OnceStep ==
    ASSUME BrainInv, TypeOK', OncePerThink, HistoryNext
    PROVE  OncePerThink'
<1>0. Next
  BY DEF HistoryNext
<1>1. CASE phase = "idle"
  <2>1. begun' = {} /\ fired' = {}
    BY <1>1, NewInThink
  <2> QED
    BY <2>1 DEF OncePerThink, Untouched
<1>2. CASE phase # "idle"
  <2>1. ~\E p \in Page : Think(p)
    BY <1>2 DEF Think
  <2>2. CASE \E f \in FiberId : SpawnRule(f)
    BY <1>2, <2>2, SpawnRuleOne, SpawnOnce
  <2>3. CASE ~\E f \in FiberId : SpawnRule(f)
    BY <1>0, <1>2, <2>1, <2>3, StepsOnward, OnwardOnce
  <2> QED
    BY <2>2, <2>3
<1> QED
  BY <1>1, <1>2

-----------------------------------------------------------------------------
(* The order in which the fibers of one think get their slices.            *)

(* A root rule that has still to begin.                                    *)
RootAtStart(f) == AtStart(f) /\ Parent[fiber[f].rule] = NoRule

InRound(f) == \E i \in 1 .. round : runQueue[i] = f

(* The entries of the run queue that are due in this think, or in the next *)
(* one.                                                                    *)
Limit == IF phase = "idle" THEN Len(runQueue) ELSE round

Before(g, f) ==
    \A i \in 1 .. Limit, j \in DOMAIN runQueue : runQueue[i] = g /\ runQueue[j] = f => i < j

(* f runs the rule below the rule that g runs.                             *)
Below(f, g) == PrecedingSibling[fiber[f].rule] = fiber[g].rule

(* Between thinks a root rule has still to begin in the first think only,  *)
(* before which nothing has begun.                                         *)
FirstThink ==
    phase = "idle" => \A f \in FiberId : RootAtStart(f) =>
        /\ \A r \in ToSet(Pages[current]) : active[r] # NoFiber
        /\ \A g \in RuleFibers : AtStart(g)

(* A root rule begins in the think that starts it.                         *)
StartsInRound ==
    phase # "idle" => \A f \in FiberId : RootAtStart(f) => f = running \/ InRound(f)

(* Of two rules that have still to begin, the one above gets there first.  *)
StartOrder ==
    \A f, g \in FiberId : AtStart(f) /\ AtStart(g) /\ Below(f, g) =>
        f # running /\ (g = running \/ AheadOf(g, f))

(* A root rule does not begin before the round is past the rule above.     *)
RootsInOrder ==
    \A f \in FiberId, g \in RuleFibers : RootAtStart(f) /\ Below(f, g) =>
        Before(g, f) /\ (f = running => ~InRound(g))

(* The drain holds child rules, those of the running fiber last of all.    *)
ChildrenDrain ==
    \A g \in FiberId : AtStart(g) =>
        IF Parent[fiber[g].rule] = NoRule THEN g \notin Drain
        ELSE /\ g = running \/ g \in Drain
             /\ \A p \in RuleFibers : p = running /\ Parent[fiber[g].rule] = fiber[p].rule =>
                    g \in ToSet(spawned)

TurnInv ==
    FirstThink /\ StartsInRound /\ StartOrder /\ RootsInOrder /\ ChildrenDrain

-----------------------------------------------------------------------------
(* The kinds of steps.                                                     *)

(* A step that takes fibers on, to whose queue it adds none that has still *)
(* to begin.                                                               *)
Lengthens ==
    /\ phase' = phase /\ round' = round /\ SliceStays
    /\ \E t \in Seq(FiberId) : runQueue' = runQueue \o t /\ \A f \in ToSet(t) : ~AtStart(f)'

LEMMA NothingAdded ==
    ASSUME BrainInv, runQueue' = runQueue
    PROVE  \E t \in Seq(FiberId) : runQueue' = runQueue \o t /\ \A f \in ToSet(t) : ~AtStart(f)'
<1>1. << >> \in Seq(FiberId) /\ runQueue \o << >> = runQueue /\ ToSet(<< >>) = {}
  BY DrainSeqs DEF ToSet
<1> QED
  BY <1>1

LEMMA OneAdded ==
    ASSUME BrainInv, NEW f \in FiberId, Enqueue(f), ~AtStart(f)'
    PROVE  \E t \in Seq(FiberId) : runQueue' = runQueue \o t /\ \A g \in ToSet(t) : ~AtStart(g)'
<1>1. runQueue \in Seq(FiberId) /\ <<f>> \in Seq(FiberId) /\ ToSet(<<f>>) = {f}
  BY DrainSeqs DEF ToSet
<1>2. CASE runQueue' = runQueue
  BY <1>2, NothingAdded
<1>3. CASE runQueue' = Append(runQueue, f)
  <2>1. runQueue' = runQueue \o <<f>>
    BY <1>1, <1>3
  <2> QED
    BY <1>1, <2>1
<1> QED
  BY <1>2, <1>3 DEF Enqueue

LEMMA StepKinds ==
    ASSUME BrainInv, BrainInv', OrderInv, [Next]_vars
    PROVE  \/ Lengthens \/ RuleFibers' = {} \/ EndThink \/ ThinkThrows \/ RunNext
           \/ (\E p \in Page : Think(p)) \/ \E f \in FiberId : SpawnRule(f)
<1> SUFFICES ASSUME ~\E p \in Page : Think(p), ~\E f \in FiberId : SpawnRule(f)
             PROVE  Lengthens \/ RuleFibers' = {} \/ EndThink \/ ThinkThrows \/ RunNext
  OBVIOUS
<1>0. \A g \in FiberId : AtStart(g)' => AtStart(g)
  <2>1. \A g \in RuleFibers' : Onward(g)
    BY StepsOnward DEF BrainInv
  <2> QED
    BY <2>1, PlacesBefore DEF AtStart, Onward, RuleFibers
<1>1. ASSUME NEW p \in Page, RequestPage(p) \/ LeavePage(p)
      PROVE  RuleFibers' = {}
  <2>1. EndFibers(PageFibers, "CANCELLED")
    BY <1>1 DEF RequestPage, LeavePage
  <2>2. Ending(PageFibers, "CANCELLED")
    BY <2>1, PageFibersLive DEF Ending, Terminal, BrainInv
  <2>3. \A g \in RuleFibers' : g \notin PageFibers /\ Onward(g)
    BY <2>2, EndOnward
  <2> QED
    BY <2>3, PageFibersLive DEF Onward
<1>2. CASE UNCHANGED vars \/ LeaveThrows \/ EnterThrows
  BY <1>2, NothingAdded DEF vars, queueVars, Lengthens, SliceStays, LeaveThrows, EnterThrows
<1>3. ASSUME NEW f \in FiberId, Instruction(f)
      PROVE  Lengthens \/ RuleFibers' = {}
  <2>1. CASE \/ Begin(f) \/ ReadSubject(f) \/ AskTrigger(f) \/ AwaitAnswer(f)
             \/ \E outcome \in BOOLEAN : Gate(f, outcome)
    <3>1. Continues
      BY <2>1 DEF Begin, ReadSubject, AskTrigger, AwaitAnswer, Gate
    <3> QED
      BY <3>1, NothingAdded DEF Continues, queueVars, Lengthens, SliceStays
  <2>2. CASE AwaitTrigger(f) \/ AwaitHost(f)
    <3>1. /\ EndSlice /\ runQueue' = runQueue /\ running = f /\ fiber[f].pc # "start"
      BY <2>2 DEF AwaitTrigger, AwaitHost, Executing
    <3> QED
      BY <3>1, NothingAdded DEF EndSlice, Lengthens, SliceStays, AtStart
  <2>3. CASE Yield(f)
    <3>1. EndSlice /\ Enqueue(f) /\ running = f /\ fiber[f].pc # "start"
      BY <2>3 DEF Yield, Executing
    <3>2. ~AtStart(f)'
      BY <1>0, <3>1 DEF AtStart
    <3> QED
      BY <3>1, <3>2, OneAdded DEF EndSlice, Lengthens, SliceStays, AtStart
  <2>4. CASE CallAction(f)
    <3> PICK c : c = FreshFibers(1)[1]
      OBVIOUS
    <3>1. HasFresh(1) /\ Executing(f) /\ Enqueue(c) /\ EndSlice /\ fiber[f].pc # "start"
      BY <2>4 DEF CallAction
    <3>2. c \in FiberId /\ ~Live(c)
      <4>1. FreshFibers(1) \in [1 .. 1 -> Unused]
        BY <3>1, FreshAre
      <4>2. 1 \in 1 .. 1
        OBVIOUS
      <4> QED
        BY <4>1, <4>2 DEF Unused
    <3>3. ~AtStart(c)'
      BY <1>0, <3>2 DEF AtStart, RuleFibers
    <3> QED
      BY <3>1, <3>2, <3>3, OneAdded DEF EndSlice, Lengthens, SliceStays, AtStart, Executing
  <2>5. CASE Return(f) \/ Fault(f)
    <3>1. PICK final \in Terminal : EndWith(f, final) /\ Executing(f)
      BY <2>5 DEF Return, Fault, Terminal
    <3>2. Ending({f}, final) /\ EndSlice /\ running = f
      BY <3>1 DEF Ending, EndWith, Executing, Live, Alive, BrainInv
    <3>3. fiber[f].pc # "start"
      BY <2>5, <3>1 DEF Return, Fault, OrderInv, FreshStarts, AtStart, RuleFibers,
                       Executing, Live, Alive
    <3>4. PICK told \in Seq(FiberId) :
             runQueue' = runQueue \o told /\ \A g \in ToSet(told) : fiber[g].pc # "start"
      BY <3>2, EndQueueAdds DEF OrderInv
    <3>5. \A g \in ToSet(told) : ~AtStart(g)'
      BY <1>0, <3>4 DEF AtStart, RuleFibers
    <3> QED
      BY <3>2, <3>3, <3>4, <3>5 DEF EndSlice, Lengthens, SliceStays, AtStart
  <2>6. CASE LeaveCancelled(f) \/ ErrorEscapes(f)
    <3>1. RuleFibers = {}
      BY <2>6, DrainSeqs DEF LeaveCancelled, ErrorEscapes, OrderInv, SliceInTick
    <3>2. \A g \in RuleFibers' : Onward(g)
      BY StepsOnward DEF BrainInv
    <3> QED
      BY <3>1, <3>2 DEF Onward
  <2> QED
    BY <1>3, <2>1, <2>2, <2>3, <2>4, <2>5, <2>6 DEF Instruction
<1>4. ASSUME NEW f \in FiberId, HostSettle(f)
      PROVE  Lengthens
  <2>1. /\ state[f] = "WAITING" /\ Enqueue(f)
        /\ UNCHANGED <<spawned, cascade, round, running, phase>>
    BY <1>4 DEF HostSettle
  <2>2. ~AtStart(f)'
    BY <1>0, <2>1 DEF OrderInv, FreshStarts
  <2> QED
    BY <2>1, <2>2, OneAdded DEF Lengthens, SliceStays
<1> QED
  BY <1>1, <1>2, <1>3, <1>4 DEF Next

-----------------------------------------------------------------------------
(* Steps that end all rules, and steps that take no fiber on.              *)

LEMMA NoTurnsLeft ==
    ASSUME RuleFibers' = {}
    PROVE  \A f : ~AtStart(f)' /\ f \notin RuleFibers'
BY DEF AtStart

LEMMA TurnsWiped ==
    ASSUME RuleFibers' = {}
    PROVE  TurnInv'
BY NoTurnsLeft DEF TurnInv, FirstThink, StartsInRound, StartOrder, RootsInOrder, ChildrenDrain,
                  RootAtStart

(* Between thinks no rule gets on.                                         *)
LEMMA IdleKeeps ==
    ASSUME BrainInv, BrainInv', OrderInv, [Next]_vars, phase = "idle", ~\E p \in Page : Think(p)
    PROVE  \/ RuleFibers' = {}
           \/ /\ active' = active /\ current' = current /\ phase' = phase
              /\ \A g \in RuleFibers' : AtStart(g) => AtStart(g)'
<1>0. running = NoFiber /\ \A f \in FiberId : ~Executing(f) /\ ~Instruction(f)
  <2>1. running = NoFiber /\ NoFiber \notin FiberId
    BY DrainSeqs DEF OrderInv, SliceInTick
  <2>2. \A f \in FiberId : ~Executing(f)
    BY <2>1 DEF Executing
  <2>3. \A f \in FiberId : Instruction(f) => running = f
    <3> TAKE f \in FiberId
    <3>1. /\ Begin(f) => Executing(f)
          /\ ReadSubject(f) => Executing(f)
          /\ AskTrigger(f) => Executing(f)
          /\ AwaitAnswer(f) => Executing(f)
          /\ AwaitTrigger(f) => Executing(f)
          /\ AwaitHost(f) => Executing(f)
      BY DEF Begin, ReadSubject, AskTrigger, AwaitAnswer, AwaitTrigger, AwaitHost
    <3>2. /\ \A fires \in BOOLEAN : Gate(f, fires) => Executing(f)
          /\ CallAction(f) => Executing(f)
          /\ SpawnRule(f) => Executing(f)
          /\ Return(f) => Executing(f)
          /\ Fault(f) => Executing(f)
          /\ Yield(f) => Executing(f)
      BY DEF Gate, CallAction, SpawnRule, Return, Fault, Yield
    <3>3. (LeaveCancelled(f) => running = f) /\ (ErrorEscapes(f) => running = f)
      BY DEF LeaveCancelled, ErrorEscapes
    <3>4. Instruction(f) => Executing(f) \/ LeaveCancelled(f) \/ ErrorEscapes(f)
      BY ONLY <3>1, <3>2 DEF Instruction
    <3> QED
      BY <3>3, <3>4 DEF Executing
  <2> QED
    BY <2>1, <2>2, <2>3
<1>1. ~RunNext /\ ~EndThink /\ ~ThinkThrows
  BY DEF RunNext, NextInRound, NextInCascade, EndThink, ThinkThrows, RoundOver, Between
<1>2. ~\E f \in FiberId : SpawnRule(f)
  BY <1>0 DEF SpawnRule
<1>3. \A g \in RuleFibers' : Onward(g)
  BY <1>2, StepsOnward DEF BrainInv
<1>4. ASSUME NEW g \in RuleFibers', AtStart(g)
      PROVE  AtStart(g)'
  <2>1. g \in FiberId /\ Turns(g) /\ fiber[g].pc = "start"
    BY <1>3, <1>4 DEF Onward, AtStart, RuleFibers
  <2>2. fiber'[g].pc = "start"
    BY <1>0, <2>1 DEF Turns, Begin, ReadSubject, AskTrigger, Gate
  <2> QED
    BY <1>4, <2>2 DEF AtStart
<1>5. ASSUME NEW p \in Page, RequestPage(p) \/ LeavePage(p)
      PROVE  RuleFibers' = {}
  <2>1. EndFibers(PageFibers, "CANCELLED")
    BY <1>5 DEF RequestPage, LeavePage
  <2>2. Ending(PageFibers, "CANCELLED")
    BY <2>1, PageFibersLive DEF Ending, Terminal, BrainInv
  <2>3. \A g \in RuleFibers' : g \notin PageFibers /\ Onward(g)
    BY <2>2, EndOnward
  <2> QED
    BY <2>3, PageFibersLive DEF Onward
<1>6. CASE UNCHANGED vars \/ LeaveThrows \/ EnterThrows
  BY <1>4, <1>6 DEF vars, pageVars, queueVars, LeaveThrows, EnterThrows
<1>7. ASSUME NEW f \in FiberId, HostSettle(f)
      PROVE  active' = active /\ current' = current /\ phase' = phase
  BY <1>7 DEF HostSettle, pageVars
<1> QED
  BY <1>0, <1>1, <1>4, <1>5, <1>6, <1>7 DEF Next

-----------------------------------------------------------------------------
(* Steps that take fibers on.                                              *)

LEMMA LengthensPlaces ==
    ASSUME BrainInv, OrderInv, Lengthens
    PROVE  /\ \A i \in 1 .. round : i \in DOMAIN runQueue /\ runQueue'[i] = runQueue[i]
           /\ \A j \in DOMAIN runQueue', f \in FiberId : runQueue'[j] = f /\ AtStart(f)' =>
                 j \in DOMAIN runQueue /\ runQueue[j] = f
           /\ \A f, g \in FiberId : AtStart(f)' /\ AheadOf(g, f) => AheadOf(g, f)'
           /\ Drain' = Drain /\ running' \in {running, NoFiber}
           /\ AtStart(running) => UNCHANGED <<running, spawned>>
           /\ running' # NoFiber => UNCHANGED <<running, spawned>>
           /\ DOMAIN runQueue = 1 .. Len(runQueue)
<1>1. runQueue \in Seq(FiberId) /\ round \in 0 .. Len(runQueue) /\ round \in Nat
      /\ Len(runQueue) \in Nat /\ DOMAIN runQueue = 1 .. Len(runQueue)
  BY DEF BrainInv, TypeOK, QueueTypeOK
<1>2. PICK t \in Seq(FiberId) : runQueue' = runQueue \o t /\ \A f \in ToSet(t) : ~AtStart(f)'
  BY DEF Lengthens
<1>3. /\ \A i \in DOMAIN runQueue : i \in DOMAIN runQueue' /\ runQueue'[i] = runQueue[i]
      /\ \A i \in DOMAIN t : /\ i + Len(runQueue) \in DOMAIN runQueue'
                             /\ runQueue'[i + Len(runQueue)] = t[i]
      /\ \A i \in DOMAIN runQueue' : i \in DOMAIN runQueue \/ i - Len(runQueue) \in DOMAIN t
      /\ DOMAIN runQueue' \subseteq Nat /\ DOMAIN t \subseteq Nat
  BY <1>1, <1>2, Joined
<1>4. \A i \in 1 .. round : i \in DOMAIN runQueue /\ runQueue'[i] = runQueue[i]
  BY <1>1, <1>3
<1>5. ASSUME NEW j \in DOMAIN runQueue', NEW f \in FiberId, runQueue'[j] = f, AtStart(f)'
      PROVE  j \in DOMAIN runQueue /\ runQueue[j] = f
  <2>1. CASE j \in DOMAIN runQueue
    BY <1>3, <1>5, <2>1
  <2>2. CASE j \notin DOMAIN runQueue
    <3>1. PICK i \in DOMAIN t : i = j - Len(runQueue)
      BY <1>3, <2>2
    <3>2. t[i] = f
      BY <1>1, <1>3, <1>5, <3>1
    <3>3. f \in ToSet(t)
      BY <3>1, <3>2 DEF ToSet
    <3> QED
      BY <1>2, <1>5, <3>3
  <2> QED
    BY <2>1, <2>2
<1>6. ASSUME NEW f \in FiberId, NEW g \in FiberId, AtStart(f)', AheadOf(g, f)
      PROVE  AheadOf(g, f)'
  <2>1. Ahead(runQueue', g, f)
    <3>1. f \notin ToSet(t)
      BY <1>2, <1>6
    <3> QED
      BY <1>1, <1>2, <1>6, <3>1, AbsentAhead, AheadJoined DEF AheadOf
  <2>2. Ahead(cascade', g, f) /\ Ahead(spawned', g, f)
    BY <1>6, SliceEnds DEF Lengthens, SliceStays, AheadOf
  <2> QED
    BY <2>1, <2>2 DEF AheadOf
<1>7. Drain' = Drain
  BY SliceEnds DEF Lengthens, SliceStays, Drain
<1>8. /\ running' \in {running, NoFiber}
      /\ AtStart(running) => UNCHANGED <<running, spawned>>
      /\ running' # NoFiber => UNCHANGED <<running, spawned>>
  BY DEF Lengthens, SliceStays, EndSlice
<1> QED
  BY <1>1, <1>4, <1>5, <1>6, <1>7, <1>8

LEMMA TurnsLengthen ==
    ASSUME BrainInv, BrainInv', OrderInv, TurnInv, [Next]_vars, Lengthens,
           ~\E p \in Page : Think(p), ~\E f \in FiberId : SpawnRule(f)
    PROVE  TurnInv'
<1>0. phase' = phase /\ round' = round /\ NoFiber \notin FiberId
  BY DrainSeqs DEF Lengthens
<1>1. \A g \in RuleFibers' : Onward(g) /\ g \in FiberId
  BY StepsOnward DEF BrainInv, RuleFibers
<1>2. \A g \in FiberId : AtStart(g)' => AtStart(g) /\ fiber'[g].rule = fiber[g].rule
  <2> TAKE g \in FiberId
  <2>1. AtStart(g)' => Onward(g)
    BY <1>1 DEF AtStart
  <2> QED
    BY <2>1, PlacesBefore DEF AtStart, Onward
<1>3. \A g \in RuleFibers' : g \in RuleFibers /\ fiber'[g].rule = fiber[g].rule
  BY <1>1 DEF Onward
<1>4. FirstThink'
  <2> SUFFICES ASSUME phase = "idle", NEW f \in FiberId, RootAtStart(f)'
               PROVE  /\ \A r \in ToSet(Pages[current']) : active'[r] # NoFiber
                      /\ \A g \in RuleFibers' : AtStart(g)'
    BY <1>0 DEF FirstThink
  <2>1. RuleFibers' # {}
    BY DEF RootAtStart, AtStart
  <2>2. /\ active' = active /\ current' = current
        /\ \A g \in RuleFibers' : AtStart(g) => AtStart(g)'
    BY <2>1, IdleKeeps
  <2>3. RootAtStart(f)
    BY <1>2 DEF RootAtStart
  <2>4. /\ \A r \in ToSet(Pages[current]) : active[r] # NoFiber
        /\ \A g \in RuleFibers : AtStart(g)
    BY <2>3 DEF TurnInv, FirstThink
  <2> QED
    BY <1>3, <2>2, <2>4
<1>5. StartsInRound'
  <2> SUFFICES ASSUME phase # "idle", NEW f \in FiberId, RootAtStart(f)'
               PROVE  f = running' \/ \E i \in 1 .. round : runQueue'[i] = f
    BY <1>0 DEF StartsInRound, InRound
  <2>1. RootAtStart(f)
    BY <1>2 DEF RootAtStart
  <2>2. f = running \/ \E i \in 1 .. round : runQueue[i] = f
    BY <2>1 DEF TurnInv, StartsInRound, InRound
  <2> QED
    BY <2>1, <2>2, LengthensPlaces DEF RootAtStart
<1>6. StartOrder'
  <2> SUFFICES ASSUME NEW f \in FiberId, NEW g \in FiberId, AtStart(f)', AtStart(g)', Below(f, g)'
               PROVE  f # running' /\ (g = running' \/ AheadOf(g, f)')
    BY DEF StartOrder
  <2>1. AtStart(f) /\ AtStart(g) /\ Below(f, g)
    BY <1>2 DEF Below
  <2>2. f # running /\ (g = running \/ AheadOf(g, f))
    BY <2>1 DEF TurnInv, StartOrder
  <2> QED
    BY <1>0, <2>1, <2>2, LengthensPlaces
<1>7. RootsInOrder'
  <2> SUFFICES ASSUME NEW f \in FiberId, NEW g \in RuleFibers', RootAtStart(f)', Below(f, g)'
               PROVE  Before(g, f)' /\ (f = running' => ~InRound(g)')
    BY DEF RootsInOrder
  <2>1. RootAtStart(f) /\ Below(f, g) /\ g \in RuleFibers /\ g \in FiberId /\ AtStart(f)'
    BY <1>1, <1>2, <1>3 DEF RootAtStart, Below
  <2>2. Before(g, f) /\ (f = running => ~InRound(g))
    BY <2>1 DEF TurnInv, RootsInOrder
  <2>3. f = running' => ~InRound(g)'
    BY <1>0, <2>2, LengthensPlaces DEF InRound
  <2>4. ASSUME NEW i \in 1 .. Limit', NEW j \in DOMAIN runQueue', runQueue'[i] = g, runQueue'[j] = f
        PROVE  i < j
    <3>1. j \in DOMAIN runQueue /\ runQueue[j] = f
      BY <2>1, <2>4, LengthensPlaces
    <3>2. i \in 1 .. Limit /\ runQueue[i] = g
      <4>1. CASE phase # "idle"
        BY <1>0, <2>4, <4>1, LengthensPlaces DEF Limit
      <4>2. CASE phase = "idle"
        <5>1. AtStart(g)
          BY <2>1, <4>2 DEF TurnInv, FirstThink
        <5>2. AtStart(g)'
          BY <4>2, <5>1, IdleKeeps
        <5>3. i \in DOMAIN runQueue'
          <6>1. Len(runQueue') \in Nat /\ DOMAIN runQueue' = 1 .. Len(runQueue')
            BY DEF BrainInv, TypeOK, QueueTypeOK
          <6> QED
            BY <1>0, <2>4, <4>2, <6>1 DEF Limit
        <5> QED
          BY <2>1, <2>4, <4>2, <5>2, <5>3, LengthensPlaces DEF Limit
      <4> QED
        BY <4>1, <4>2
    <3> QED
      BY <2>2, <3>1, <3>2 DEF Before
  <2> QED
    BY <2>3, <2>4 DEF Before
<1>8. ChildrenDrain'
  <2> SUFFICES ASSUME NEW g \in FiberId, AtStart(g)'
               PROVE  IF Parent[fiber'[g].rule] = NoRule THEN g \notin Drain'
                      ELSE /\ g = running' \/ g \in Drain'
                           /\ \A p \in RuleFibers' :
                                 p = running' /\ Parent[fiber'[g].rule] = fiber'[p].rule =>
                                    g \in ToSet(spawned')
    BY DEF ChildrenDrain
  <2>1. AtStart(g) /\ fiber'[g].rule = fiber[g].rule
    BY <1>2
  <2>2. IF Parent[fiber[g].rule] = NoRule THEN g \notin Drain
        ELSE /\ g = running \/ g \in Drain
             /\ \A p \in RuleFibers : p = running /\ Parent[fiber[g].rule] = fiber[p].rule =>
                    g \in ToSet(spawned)
    BY <2>1 DEF TurnInv, ChildrenDrain
  <2>3. \A p \in RuleFibers' : p = running' => running' = running /\ spawned' = spawned
    BY <1>0, <1>1, LengthensPlaces
  <2> QED
    BY <1>3, <2>1, <2>2, <2>3, LengthensPlaces
<1> QED
  BY <1>4, <1>5, <1>6, <1>7, <1>8 DEF TurnInv

-----------------------------------------------------------------------------
(* The ends of a think and of a slice.                                     *)

LEMMA TurnsEndThink ==
    ASSUME BrainInv, OrderInv, TurnInv, TypeOK', EndThink \/ ThinkThrows
    PROVE  TurnInv'
<1>1. /\ phase = "tick" /\ running = NoFiber /\ round = 0 /\ phase' = "idle"
      /\ UNCHANGED <<runQueue, spawned, cascade, round, running>>
  BY DEF EndThink, ThinkThrows, RoundOver, Between
<1>2. \A g \in RuleFibers' : Onward(g)
  BY TickOnward DEF Throws
<1>3. \A g \in FiberId : AtStart(g)' => AtStart(g) /\ fiber'[g].rule = fiber[g].rule
  <2> TAKE g \in FiberId
  <2>1. AtStart(g)' => Onward(g)
    BY <1>2 DEF AtStart
  <2> QED
    BY <2>1, PlacesBefore DEF AtStart, Onward
<1>4. \A f \in FiberId : ~RootAtStart(f)'
  <2> SUFFICES ASSUME NEW f \in FiberId, RootAtStart(f)'
               PROVE  FALSE
    OBVIOUS
  <2>1. RootAtStart(f) /\ NoFiber \notin FiberId
    BY <1>3, DrainSeqs DEF RootAtStart
  <2>2. f = running \/ \E i \in 1 .. round : runQueue[i] = f
    BY <1>1, <2>1 DEF TurnInv, StartsInRound, InRound
  <2> QED
    BY <1>1, <2>1, <2>2
<1>5. FirstThink' /\ StartsInRound' /\ RootsInOrder'
  BY <1>1, <1>4 DEF FirstThink, StartsInRound, RootsInOrder
<1>6. StartOrder'
  <2> SUFFICES ASSUME NEW f \in FiberId, NEW g \in FiberId, AtStart(f)', AtStart(g)', Below(f, g)'
               PROVE  f # running' /\ (g = running' \/ AheadOf(g, f)')
    BY DEF StartOrder
  <2>1. AtStart(f) /\ AtStart(g) /\ Below(f, g)
    BY <1>3 DEF Below
  <2> QED
    BY <1>1, <2>1 DEF TurnInv, StartOrder, AheadOf
<1>7. ChildrenDrain'
  <2> SUFFICES ASSUME NEW g \in FiberId, AtStart(g)'
               PROVE  IF Parent[fiber'[g].rule] = NoRule THEN g \notin Drain'
                      ELSE /\ g = running' \/ g \in Drain'
                           /\ \A p \in RuleFibers' :
                                 p = running' /\ Parent[fiber'[g].rule] = fiber'[p].rule =>
                                    g \in ToSet(spawned')
    BY DEF ChildrenDrain
  <2>1. AtStart(g) /\ fiber'[g].rule = fiber[g].rule /\ Drain' = Drain
    BY <1>1, <1>3 DEF Drain
  <2>2. \A p \in RuleFibers' : p # running'
    BY <1>1, DrainSeqs DEF RuleFibers
  <2> QED
    BY <1>1, <2>1, <2>2 DEF TurnInv, ChildrenDrain
<1> QED
  BY <1>5, <1>6, <1>7 DEF TurnInv

(* Which fiber a tick takes next, from where.                              *)
TakesFrom(h) ==
    /\ Takes(h) /\ running' \in {h, NoFiber}
    /\ phase # "idle" /\ phase' # "idle"
    /\ \/ /\ h \in Drain /\ runQueue' = runQueue /\ round' = round
       \/ /\ round \in 1 .. Len(runQueue) /\ round' = round - 1
          /\ runQueue[1] = h /\ DOMAIN runQueue = 1 .. Len(runQueue)
          /\ DOMAIN runQueue' = 1 .. Len(runQueue) - 1
          /\ \A i \in DOMAIN runQueue' : runQueue'[i] = runQueue[i + 1]

LEMMA RunNextTakesFrom ==
    ASSUME BrainInv, OrderInv, RunNext
    PROVE  \E h : TakesFrom(h)
<1> PICK h : Takes(h)
  BY RunNextTakes
<1>1. runQueue \in Seq(FiberId) /\ cascade \in Seq(FiberId) /\ round \in 0 .. Len(runQueue)
      /\ DOMAIN runQueue = 1 .. Len(runQueue) /\ Len(runQueue) \in Nat /\ NoFiber \notin FiberId
  BY FibersAssumption DEF BrainInv, TypeOK, QueueTypeOK
<1>2. running' \in {h, NoFiber} /\ phase # "idle" /\ phase' # "idle"
  BY DEF Takes, RunNext, NextInRound, NextInCascade, Between
<1>3. CASE NextInCascade
  <2> PICK k : k = Head(cascade)
    OBVIOUS
  <2>1. cascade # << >> /\ cascade' = Tail(cascade) /\ runQueue' = runQueue /\ round' = round
        /\ running' = IF state[k] = "RUNNABLE" THEN k ELSE NoFiber
    BY <1>3 DEF NextInCascade
  <2>2. k \in ToSet(cascade)
    BY <1>1, <2>1, OnceTail
  <2>3. k \notin ToSet(cascade')
    BY <1>1, <2>1, OnceTail DEF OrderInv, DrainAtStart
  <2>4. k = h
    BY <2>2, <2>3 DEF Takes
  <2> QED
    BY <1>2, <2>1, <2>2, <2>4 DEF TakesFrom, Drain
<1>4. CASE NextInRound
  <2> PICK k : k = Head(runQueue)
    OBVIOUS
  <2>1. round > 0 /\ cascade = << >> /\ runQueue' = Tail(runQueue) /\ round' = round - 1
        /\ running' = (IF state[k] = "RUNNABLE" THEN k ELSE NoFiber)
        /\ state' = state /\ fiber' = fiber /\ firing' = firing /\ phase' # "idle"
        /\ running = NoFiber /\ spawned' = spawned /\ cascade' = cascade
    BY <1>4 DEF NextInRound, RunNext, ruleVars, Between
  <2>2. runQueue # << >> /\ round \in 1 .. Len(runQueue)
    BY <1>1, <2>1
  <2>3. /\ runQueue[1] = k /\ DOMAIN runQueue' = 1 .. Len(runQueue) - 1
        /\ \A i \in DOMAIN runQueue' : runQueue'[i] = runQueue[i + 1]
    BY <1>1, <2>1, <2>2
  <2>4. Takes(k)
    <3>1. /\ k \in ToSet(runQueue) /\ k \in FiberId
          /\ \A f : f \in ToSet(runQueue) <=> f = k \/ f \in ToSet(runQueue')
      BY <1>1, <2>1, <2>2, OnceTail, DrainSeqs
    <3>2. ToSet(cascade) = {} /\ ToSet(cascade') = {}
      BY <2>1 DEF ToSet
    <3>3. Live(k) => k \notin Drain'
      BY <2>1, <3>2 DEF Drain, OrderInv, DrainAtStart
    <3>4. ASSUME NEW f, NEW g, AheadOf(g, f)
          PROVE  f # k /\ (g # k => AheadOf(g, f)')
      <4>1. Ahead(runQueue, g, f)
        BY <3>4 DEF AheadOf
      <4>2. f # k /\ (g # k => Ahead(runQueue', g, f))
        BY <1>1, <2>1, <2>2, <4>1, AheadInTail
      <4> QED
        BY <2>1, <3>4, <4>2 DEF AheadOf
    <3>5. Once(cascade') /\ Drain' \subseteq Drain /\ ToSet(spawned') \cap ToSet(cascade') = {}
      BY <2>1 DEF OrderInv, DrainAtStart, Drain
    <3> QED
      BY <2>1, <3>1, <3>2, <3>3, <3>4, <3>5 DEF Takes
  <2> HIDE DEF Takes
  <2>5. running' \in {k, NoFiber}
    BY <2>1
  <2> QED
    BY <1>1, <1>2, <2>1, <2>2, <2>3, <2>4, <2>5 DEF TakesFrom
<1> QED
  BY <1>3, <1>4 DEF RunNext

LEMMA TurnsTake ==
    ASSUME BrainInv, OrderInv, TurnInv, RunNext
    PROVE  TurnInv'
<1> PICK h : TakesFrom(h)
  BY RunNextTakesFrom
<1>0. /\ state' = state /\ fiber' = fiber /\ phase # "idle" /\ phase' # "idle"
      /\ running = NoFiber /\ running' = (IF state[h] = "RUNNABLE" THEN h ELSE NoFiber)
      /\ h \in FiberId /\ NoFiber \notin FiberId
  BY DrainSeqs DEF TakesFrom, Takes
<1>1. \A f \in FiberId : AtStart(f) => state[f] = "RUNNABLE" /\ Live(f) /\ fiber[f].rule \in Rule
                                       /\ fiber[f].kids = 0 /\ f \in RuleFibers
  BY DEF OrderInv, FreshStarts, AtStart, RuleFibers, BrainInv, Settled
<1>2. RuleFibers' = RuleFibers /\ \A f : AtStart(f)' <=> AtStart(f)
  BY <1>0 DEF RuleFibers, AtStart, Live
<1>3. \A f, g : (RootAtStart(f)' <=> RootAtStart(f)) /\ (Below(f, g)' <=> Below(f, g))
  BY <1>0, <1>2 DEF RootAtStart, Below
<1>4. FirstThink'
  BY <1>0 DEF FirstThink
<1>5. StartsInRound'
  <2> SUFFICES ASSUME NEW f \in FiberId, RootAtStart(f)
               PROVE  f = running' \/ \E i \in 1 .. round' : runQueue'[i] = f
    BY <1>3 DEF StartsInRound, InRound
  <2>1. PICK i \in 1 .. round : runQueue[i] = f
    BY <1>0 DEF TurnInv, StartsInRound, InRound
  <2>2. CASE runQueue' = runQueue /\ round' = round
    BY <2>1, <2>2
  <2>3. CASE /\ round \in 1 .. Len(runQueue) /\ round' = round - 1
             /\ runQueue[1] = h /\ DOMAIN runQueue' = 1 .. Len(runQueue) - 1
             /\ \A n \in DOMAIN runQueue' : runQueue'[n] = runQueue[n + 1]
    <3>0. Len(runQueue) \in Nat
      BY DEF BrainInv, TypeOK, QueueTypeOK
    <3>1. CASE i = 1
      BY <1>0, <1>1, <2>1, <2>3, <3>1 DEF RootAtStart
    <3>2. CASE i # 1
      <4>1. i - 1 \in DOMAIN runQueue' /\ i - 1 \in 1 .. round' /\ (i - 1) + 1 = i
        BY <2>3, <3>0, <3>2
      <4>2. runQueue'[i - 1] = f
        BY <2>1, <2>3, <4>1
      <4> QED
        BY <4>1, <4>2
    <3> QED
      BY <3>1, <3>2
  <2> QED
    BY <2>2, <2>3 DEF TakesFrom
<1>6. StartOrder'
  <2> SUFFICES ASSUME NEW f \in FiberId, NEW g \in FiberId, AtStart(f), AtStart(g), Below(f, g)
               PROVE  f # running' /\ (g = running' \/ AheadOf(g, f)')
    BY <1>2, <1>3 DEF StartOrder
  <2>1. AheadOf(g, f)
    BY <1>0 DEF TurnInv, StartOrder
  <2>2. f # h /\ (g # h => AheadOf(g, f)')
    BY <2>1 DEF TakesFrom, Takes
  <2> QED
    BY <1>0, <1>1, <2>2
<1>7. RootsInOrder'
  <2> SUFFICES ASSUME NEW f \in FiberId, NEW g \in RuleFibers, RootAtStart(f), Below(f, g)
               PROVE  Before(g, f)' /\ (f = running' => ~InRound(g)')
    BY <1>2, <1>3 DEF RootsInOrder
  <2>1. Before(g, f) /\ Limit = round /\ Limit' = round'
    BY <1>0 DEF TurnInv, RootsInOrder, Limit
  <2>2. CASE h \in Drain /\ runQueue' = runQueue /\ round' = round
    <3>1. f # h
      BY <2>2 DEF TurnInv, ChildrenDrain, RootAtStart
    <3> QED
      BY <1>0, <2>1, <2>2, <3>1 DEF Before
  <2>3. CASE /\ round \in 1 .. Len(runQueue) /\ round' = round - 1
             /\ runQueue[1] = h /\ DOMAIN runQueue = 1 .. Len(runQueue)
             /\ DOMAIN runQueue' = 1 .. Len(runQueue) - 1
             /\ \A n \in DOMAIN runQueue' : runQueue'[n] = runQueue[n + 1]
    <3>0. Len(runQueue) \in Nat
      BY DEF BrainInv, TypeOK, QueueTypeOK
    <3>1. \A i \in 1 .. round' : /\ i \in DOMAIN runQueue' /\ i + 1 \in 1 .. round
                                 /\ runQueue[i + 1] = runQueue'[i]
      BY <2>3, <3>0
    <3>2. \A j \in DOMAIN runQueue' : j + 1 \in DOMAIN runQueue /\ runQueue[j + 1] = runQueue'[j]
      BY <2>3, <3>0
    <3>3. ASSUME NEW i \in 1 .. round', NEW j \in DOMAIN runQueue', runQueue'[i] = g, runQueue'[j] = f
          PROVE  i < j
      <4>1. i + 1 < j + 1
        BY <2>1, <3>1, <3>2, <3>3 DEF Before
      <4> QED
        BY <2>3, <3>0, <3>3, <4>1
    <3>4. ASSUME f = running', NEW i \in 1 .. round', runQueue'[i] = g
          PROVE  FALSE
      <4>1. runQueue[1] = f /\ 1 \in DOMAIN runQueue
        BY <1>0, <2>3, <3>0, <3>4
      <4>2. i + 1 < 1
        BY <2>1, <3>1, <3>4, <4>1 DEF Before
      <4> QED
        BY <2>3, <3>0, <3>4, <4>2
    <3>5. Before(g, f)'
      BY <2>1, <3>3 DEF Before
    <3>6. f = running' => ~InRound(g)'
      BY <3>4 DEF InRound
    <3> QED
      BY <3>5, <3>6
  <2> QED
    BY <2>2, <2>3 DEF TakesFrom
<1>8. ChildrenDrain'
  <2> SUFFICES ASSUME NEW g \in FiberId, AtStart(g)
               PROVE  IF Parent[fiber[g].rule] = NoRule THEN g \notin Drain'
                      ELSE /\ g = running' \/ g \in Drain'
                           /\ \A p \in RuleFibers :
                                 p = running' /\ Parent[fiber[g].rule] = fiber[p].rule => FALSE
    BY <1>0, <1>2 DEF ChildrenDrain
  <2>1. CASE Parent[fiber[g].rule] = NoRule
    BY <2>1 DEF TurnInv, ChildrenDrain, TakesFrom, Takes
  <2>2. CASE Parent[fiber[g].rule] # NoRule
    <3>1. g \in Drain
      BY <1>0, <2>2 DEF TurnInv, ChildrenDrain
    <3>2. g \in ToSet(cascade)
      BY <1>0, <1>1, <3>1 DEF Drain, OrderInv, DrainAtStart
    <3>3. g = running' \/ g \in Drain'
      BY <1>0, <1>1, <3>2 DEF TakesFrom, Takes, Drain
    <3>4. ASSUME NEW p \in RuleFibers, p = running', Parent[fiber[g].rule] = fiber[p].rule
          PROVE  FALSE
      <4>1. AtStart(p) /\ p \in FiberId
        BY <1>0, <3>2, <3>4 DEF TakesFrom, Takes, RuleFibers
      <4>2. fiber[p].kids = 0 /\ fiber[p].rule \in Rule /\ fiber[g].rule \in Rule /\ g \in RuleFibers
        BY <1>1, <4>1
      <4>3. PICK n \in DOMAIN ChildRules[fiber[p].rule] : ChildRules[fiber[p].rule][n] = fiber[g].rule
        BY <2>2, <3>4, <4>2, LevelOf DEF Level
      <4>4. n > fiber[p].kids
        BY <4>2, ChildRulesBounded
      <4>5. fiber[g].rule \notin Within[fiber[g].rule]
        BY <3>4, <4>2, <4>3, <4>4 DEF BrainInv, Unspawned
      <4> QED
        BY <4>2, <4>5, WithinSelf
    <3> QED
      BY <2>2, <3>3, <3>4
  <2> QED
    BY <2>1, <2>2
<1> QED
  BY <1>4, <1>5, <1>6, <1>7, <1>8 DEF TurnInv

-----------------------------------------------------------------------------
(* The rule below the one that is spawned has still to be spawned.         *)
LEMMA SpawnedBelow ==
    ASSUME BrainInv, NEW f \in FiberId, NEW c, NEW k, SpawnsOne(f, c, k),
           NEW r \in Rule, PrecedingSibling[r] = k
    PROVE  /\ fiber[f].kids + 2 \in DOMAIN ChildRules[fiber[f].rule]
           /\ ChildRules[fiber[f].rule][fiber[f].kids + 2] = r
           /\ \A g \in RuleFibers : fiber[g].rule # r
<1>0. /\ fiber[f].rule \in Rule /\ fiber[f].kids \in Nat /\ f \in RuleFibers
      /\ fiber[f].kids + 1 \in DOMAIN ChildRules[fiber[f].rule]
      /\ k = ChildRules[fiber[f].rule][fiber[f].kids + 1]
  BY RunningFiber DEF SpawnsOne
<1>1. /\ (fiber[f].kids + 1) + 1 \in DOMAIN ChildRules[fiber[f].rule]
      /\ ChildRules[fiber[f].rule][(fiber[f].kids + 1) + 1] = r
  BY <1>0, BelowInLevel
<1>2. (fiber[f].kids + 1) + 1 = fiber[f].kids + 2 /\ fiber[f].kids + 2 > fiber[f].kids
  BY <1>0
<1>3. \A g \in RuleFibers : fiber[g].rule # r
  <2> SUFFICES ASSUME NEW g \in RuleFibers, fiber[g].rule = r
               PROVE  FALSE
    OBVIOUS
  <2>1. r \notin Within[fiber[g].rule]
    BY <1>0, <1>1, <1>2 DEF BrainInv, Unspawned
  <2> QED
    BY <2>1, WithinSelf
<1> QED
  BY <1>1, <1>2, <1>3

LEMMA TurnsSpawn ==
    ASSUME BrainInv, OrderInv, TurnInv, NEW f \in FiberId, SpawnRule(f)
    PROVE  TurnInv'
<1> PICK c, k : SpawnsOne(f, c, k)
  BY SpawnRuleOne
<1>0. /\ fiber[f].rule \in Rule /\ k \in Rule /\ Parent[k] = fiber[f].rule /\ running = f
      /\ c \in FiberId /\ ~Live(c) /\ c # f /\ c \notin Drain /\ c \notin ToSet(runQueue)
      /\ fiber'[f].pc = "spawn" /\ fiber'[f].rule = fiber[f].rule
      /\ f \in RuleFibers /\ NoRule \notin Rule
  BY RunningFiber, RuleProgramAssumption DEF SpawnsOne, Executing
<1>1. /\ spawned' = spawned \o <<c>> /\ cascade' = cascade /\ runQueue' = runQueue
      /\ running' = running /\ phase' = phase /\ round' = round
  BY DEF SpawnsOne, SpawnRule
<1>2. phase # "idle" /\ f # NoFiber
  BY <1>0, DrainSeqs DEF OrderInv, SliceInTick
<1>3. fiber'[c].rule = k /\ fiber'[c].pc = "start"
  BY DEF SpawnsOne, Blank
<1>4. \A g \in FiberId : g # c /\ AtStart(g)' => AtStart(g) /\ g # f /\ fiber'[g].rule = fiber[g].rule
  <2> SUFFICES ASSUME NEW g \in FiberId, g # c, AtStart(g)'
               PROVE  AtStart(g) /\ g # f /\ fiber'[g].rule = fiber[g].rule
    OBVIOUS
  <2>1. fiber'[g].pc = "start" /\ Live(g)' /\ g # f
    BY <1>0 DEF AtStart, RuleFibers
  <2>2. fiber'[g] = fiber[g] /\ state'[g] = state[g]
    BY <2>1 DEF SpawnsOne
  <2> QED
    BY <2>1, <2>2 DEF AtStart, RuleFibers, Live
<1>5. \A g \in RuleFibers' : g \in FiberId
                             /\ (g = c \/ (g \in RuleFibers /\ fiber'[g].rule = fiber[g].rule))
  <2> TAKE g \in RuleFibers'
  <2>1. g \in FiberId /\ Live(g)' /\ fiber'[g].pc # "action"
    BY DEF RuleFibers
  <2>2. CASE g = f
    BY <1>0, <2>1, <2>2
  <2>3. CASE g # f /\ g # c
    <3>1. fiber'[g] = fiber[g] /\ state'[g] = state[g]
      BY <2>1, <2>3 DEF SpawnsOne
    <3> QED
      BY <2>1, <3>1 DEF RuleFibers, Live
  <2> QED
    BY <2>1, <2>2, <2>3
<1>6. \A g \in FiberId : AtStart(g) => g \in RuleFibers /\ fiber[g].rule \in Rule /\ g # c
  BY <1>0 DEF AtStart, RuleFibers, BrainInv, Settled
<1>7. /\ spawned \in Seq(FiberId) /\ <<c>> \in Seq(FiberId) /\ ToSet(<<c>>) = {c}
      /\ \A x : x \in ToSet(spawned') <=> x \in ToSet(spawned) \/ x = c
      /\ Drain' = Drain \cup {c}
  <2>1. spawned \in Seq(FiberId) /\ <<c>> \in Seq(FiberId) /\ ToSet(<<c>>) = {c}
    BY <1>0, DrainSeqs DEF ToSet
  <2>2. \A x : x \in ToSet(spawned') <=> x \in ToSet(spawned) \/ x \in ToSet(<<c>>)
    BY <1>1, <2>1, Joined
  <2>3. Drain' = Drain \cup {c}
    BY <1>1, <2>1, <2>2 DEF Drain
  <2> QED
    BY <2>1, <2>2, <2>3
<1>8. FirstThink'
  BY <1>1, <1>2 DEF FirstThink
<1>9. \A g \in FiberId : RootAtStart(g)' => g # c /\ RootAtStart(g) /\ fiber'[g].rule = fiber[g].rule
  BY <1>0, <1>3, <1>4 DEF RootAtStart
<1>10. StartsInRound'
  BY <1>1, <1>2, <1>9 DEF TurnInv, StartsInRound, InRound
<1>11. StartOrder'
  <2> SUFFICES ASSUME NEW x \in FiberId, NEW g \in FiberId, AtStart(x)', AtStart(g)', Below(x, g)'
               PROVE  x # running /\ (g = running \/ AheadOf(g, x)')
    BY <1>1 DEF StartOrder
  <2>1. CASE x # c /\ g # c
    <3>1. AtStart(x) /\ AtStart(g) /\ Below(x, g)
      BY <1>4, <2>1 DEF Below
    <3>2. x # running /\ (g = running \/ AheadOf(g, x))
      BY <3>1 DEF TurnInv, StartOrder
    <3>3. AheadOf(g, x) => AheadOf(g, x)'
      <4>1. Ahead(<<c>>, g, x)
        BY <1>7, <2>1, AbsentAhead
      <4> QED
        BY <1>1, <1>7, <4>1, AheadJoined DEF AheadOf
    <3> QED
      BY <3>2, <3>3
  <2>2. CASE x # c /\ g = c
    <3>1. AtStart(x) /\ PrecedingSibling[fiber[x].rule] = k
      BY <1>3, <1>4, <2>2 DEF Below
    <3>2. x \in RuleFibers /\ fiber[x].rule \in Rule
      BY <1>6, <3>1
    <3> QED
      BY <3>1, <3>2, SpawnedBelow
  <2>3. CASE x = c
    <3> PICK n : n = fiber[f].kids + 1
      OBVIOUS
    <3>1. n \in DOMAIN ChildRules[fiber[f].rule] /\ k = ChildRules[fiber[f].rule][n]
      BY DEF SpawnsOne
    <3>2. PrecedingSibling[k] = IF n = 1 THEN NoRule ELSE ChildRules[fiber[f].rule][n - 1]
      BY <1>0, <3>1, AboveChild
    <3>3. fiber'[g].rule = PrecedingSibling[k] /\ fiber'[g].rule \in Rule
      <4>1. fiber'[g].rule = PrecedingSibling[k]
        BY <1>3, <2>3 DEF Below
      <4>2. fiber'[g].rule \in Rule
        BY <1>0, <1>3, <1>4, <1>6
      <4> QED
        BY <4>1, <4>2
    <3>4. n \in Nat /\ n - 1 \in DOMAIN ChildRules[fiber[f].rule]
          /\ fiber'[g].rule = ChildRules[fiber[f].rule][n - 1]
      <4>1. n # 1
        BY <3>2, <3>3, RuleProgramAssumption
      <4>2. DOMAIN ChildRules[fiber[f].rule] = 1 .. Len(ChildRules[fiber[f].rule])
            /\ Len(ChildRules[fiber[f].rule]) \in Nat
        BY <1>0, ChildRulesBounded
      <4> QED
        BY <3>1, <3>2, <3>3, <4>1, <4>2
    <3>5. Parent[fiber'[g].rule] = fiber[f].rule
      BY <1>0, <3>4, ChildRule
    <3>6. g # c
      <4>1. n - 1 # n
        BY <3>4
      <4>2. k # ChildRules[fiber[f].rule][n - 1]
        BY <1>0, <3>1, <3>4, <4>1, ChildRulesDistinct
      <4> QED
        BY <1>3, <3>4, <4>2
    <3>7. AtStart(g) /\ fiber'[g].rule = fiber[g].rule
      BY <1>4, <3>6
    <3>8. g \in ToSet(spawned)
      BY <1>0, <3>5, <3>7 DEF TurnInv, ChildrenDrain
    <3>9. Ahead(runQueue, g, c) /\ Ahead(cascade, g, c) /\ Ahead(spawned, g, c)
      BY <1>0, AbsentAhead DEF Drain
    <3>10. AheadOf(g, c)'
      BY <1>1, <1>7, <3>8, <3>9, AheadJoined DEF AheadOf
    <3> QED
      BY <1>0, <2>3, <3>10
  <2> QED
    BY <2>1, <2>2, <2>3
<1>12. RootsInOrder'
  <2> SUFFICES ASSUME NEW x \in FiberId, NEW g \in RuleFibers', RootAtStart(x)', Below(x, g)'
               PROVE  Before(g, x)' /\ (x = running' => ~InRound(g)')
    BY DEF RootsInOrder
  <2>1. RootAtStart(x) /\ fiber'[x].rule = fiber[x].rule /\ fiber[x].rule \in Rule
        /\ Parent[fiber[x].rule] = NoRule
    BY <1>6, <1>9 DEF RootAtStart
  <2>2. g # c
    BY <1>0, <1>3, <2>1, AboveRoot DEF Below
  <2>3. g \in RuleFibers /\ Below(x, g)
    BY <1>5, <2>1, <2>2 DEF Below
  <2> QED
    BY <1>1, <2>1, <2>3 DEF TurnInv, RootsInOrder, Before, InRound, Limit
<1>13. ChildrenDrain'
  <2> SUFFICES ASSUME NEW g \in FiberId, AtStart(g)'
               PROVE  IF Parent[fiber'[g].rule] = NoRule THEN g \notin Drain'
                      ELSE /\ g = running' \/ g \in Drain'
                           /\ \A p \in RuleFibers' :
                                 p = running' /\ Parent[fiber'[g].rule] = fiber'[p].rule =>
                                    g \in ToSet(spawned')
    BY DEF ChildrenDrain
  <2>1. CASE g = c
    BY <1>0, <1>3, <1>7, <2>1
  <2>2. CASE g # c
    <3>1. AtStart(g) /\ fiber'[g].rule = fiber[g].rule
      BY <1>4, <2>2
    <3>2. IF Parent[fiber[g].rule] = NoRule THEN g \notin Drain
          ELSE /\ g = running \/ g \in Drain
               /\ \A p \in RuleFibers : p = running /\ Parent[fiber[g].rule] = fiber[p].rule =>
                      g \in ToSet(spawned)
      BY <3>1 DEF TurnInv, ChildrenDrain
    <3>3. \A p \in RuleFibers' : p = running' => p \in RuleFibers /\ fiber'[p].rule = fiber[p].rule
      BY <1>0, <1>1, <1>5
    <3> QED
      BY <1>1, <1>7, <2>2, <3>1, <3>2, <3>3
  <2> QED
    BY <2>1, <2>2
<1> QED
  BY <1>8, <1>10, <1>11, <1>12, <1>13 DEF TurnInv

-----------------------------------------------------------------------------
(* The rule above a child rule is a child of the same rule.                *)
LEMMA AboveNested ==
    ASSUME NEW r \in Rule, Parent[r] # NoRule, PrecedingSibling[r] # NoRule
    PROVE  Parent[PrecedingSibling[r]] = Parent[r]
<1>1. Parent[r] \in Rule
  BY RuleProgramAssumption
<1>2. PICK n \in DOMAIN ChildRules[Parent[r]] : ChildRules[Parent[r]][n] = r
  BY LevelOf DEF Level
<1>3. PrecedingSibling[r] = IF n = 1 THEN NoRule ELSE ChildRules[Parent[r]][n - 1]
  BY <1>1, <1>2, AboveChild
<1>4. n - 1 \in DOMAIN ChildRules[Parent[r]] /\ PrecedingSibling[r] = ChildRules[Parent[r]][n - 1]
  BY <1>1, <1>3, ChildRulesBounded
<1> QED
  BY <1>1, <1>4, ChildRule

LEMMA TurnsStart ==
    ASSUME BrainInv, OrderInv, OrderInv', TurnInv, NEW p \in Page, Think(p)
    PROVE  TurnInv'
<1> PICK rs \in InOrder(Due) : Starts(p, rs, FreshFibers(Len(rs)))
  BY ThinkStarts
<1> PICK fs : fs = FreshFibers(Len(rs))
  OBVIOUS
<1>0. /\ HasFresh(Len(rs)) /\ StartRules(fs, rs) /\ runQueue' = runQueue \o fs
      /\ round' = Len(runQueue') /\ phase' = "tick"
      /\ spawned' = spawned /\ cascade' = cascade /\ running' = running
  BY DEF Starts
<1>1. running = NoFiber /\ phase = "idle" /\ NoFiber \notin FiberId
  BY DrainSeqs DEF Think, OrderInv, SliceInTick
<1>2. /\ rs \in Seq(Rule) /\ Len(rs) \in Nat /\ DOMAIN rs = 1 .. Len(rs) /\ ToSet(rs) = Due
      /\ \A i \in DOMAIN rs : /\ rs[i] \in Rule /\ Parent[rs[i]] = NoRule /\ rs[i] \in Due
  BY DueAre
<1>3. Ascending(rs)
  BY DEF InOrder
<1>4. NewFibers(rs, fs)
  BY <1>0, StartedAre
<1>5. /\ fs \in Seq(FiberId) /\ DOMAIN fs = DOMAIN rs
      /\ \A i, j \in DOMAIN rs : fs[i] = fs[j] => i = j
      /\ \A f \in FiberId : f \in ToSet(fs) <=> \E i \in DOMAIN rs : f = fs[i]
      /\ \A f \in FiberId : f \in ToSet(fs) \/ (state'[f] = state[f] /\ fiber'[f] = fiber[f])
      /\ Listed(rs, fs)
  BY <1>2, <1>3, <1>4 DEF NewFibers, Listed
<1>6. \A f \in ToSet(fs) : f \in FiberId /\ ~Live(f) /\ f \notin Drain /\ f \notin ToSet(runQueue)
  <2>1. fs \in [1 .. Len(rs) -> Unused]
    BY <1>0, <1>2, FreshAre
  <2>2. \A f \in ToSet(fs) : f \in Unused
    BY <1>2, <1>5, <2>1 DEF ToSet
  <2> QED
    BY <2>2, DrainSeqs DEF Unused
<1>7. \A i \in DOMAIN rs : /\ fs[i] \in FiberId /\ fs[i] \in ToSet(fs)
                           /\ fiber'[fs[i]].rule = rs[i] /\ fiber'[fs[i]].pc = "start"
  <2> TAKE i \in DOMAIN rs
  <2>1. fs[i] \in FiberId /\ fiber'[fs[i]] = [Blank EXCEPT !.rule = rs[i]]
    BY <1>4 DEF NewFibers
  <2> QED
    BY <1>5, <2>1 DEF Blank
<1>8. \A f \in FiberId : \/ \E i \in DOMAIN rs : f = fs[i]
                         \/ /\ f \notin ToSet(fs) /\ fiber'[f] = fiber[f]
                            /\ f \in RuleFibers' <=> f \in RuleFibers
                            /\ AtStart(f)' <=> AtStart(f)
  BY <1>5 DEF Live, RuleFibers, AtStart
(* The first think starts no rule.                                         *)
<1>9. ASSUME NEW f \in FiberId, RootAtStart(f)
      PROVE  DOMAIN rs = {} /\ ToSet(fs) = {}
  <2>1. Due = {}
    BY <1>1, <1>9 DEF TurnInv, FirstThink, Due, FiresAgain
  <2> QED
    BY <1>2, <1>5, <2>1 DEF ToSet
<1>10. ASSUME NEW f \in FiberId, AtStart(f)', f \notin ToSet(fs)
       PROVE  AtStart(f) /\ fiber'[f] = fiber[f] /\ fiber[f].rule \in Rule
  BY <1>7, <1>8, <1>10 DEF AtStart, RuleFibers, BrainInv, Settled
<1>11. ASSUME NEW f \in FiberId, f \in ToSet(fs)
       PROVE  \E i \in DOMAIN rs : f = fs[i] /\ fiber'[f].rule = rs[i]
  BY <1>5, <1>7, <1>11
<1>12. FirstThink'
  BY <1>0 DEF FirstThink
<1>13. StartsInRound'
  <2> SUFFICES ASSUME NEW f \in FiberId, RootAtStart(f)'
               PROVE  InRound(f)'
    BY DEF StartsInRound
  <2>1. f \in ToSet(runQueue')
    BY <1>0, <1>1 DEF OrderInv, RootsQueued, RootAtStart
  <2>2. runQueue' \in Seq(FiberId)
    BY <1>0, <1>5, DrainSeqs
  <2> QED
    BY <1>0, <2>1, <2>2 DEF InRound, ToSet
(* The rule above a rule that starts in this think starts in it too, or is *)
(* in flight and has begun.                                                *)
<1>14. ASSUME NEW j \in DOMAIN rs, NEW s \in Rule, s = PrecedingSibling[rs[j]]
       PROVE  Parent[s] = NoRule /\ s < rs[j]
  BY <1>2, <1>14, AboveRoot, RuleProgramAssumption
<1>15. StartOrder'
  <2> SUFFICES ASSUME NEW f \in FiberId, NEW g \in FiberId, AtStart(f)', AtStart(g)', Below(f, g)'
               PROVE  AheadOf(g, f)'
    BY <1>0, <1>1 DEF StartOrder
  <2>1. CASE f \in ToSet(fs)
    <3>1. PICK j \in DOMAIN rs : f = fs[j] /\ fiber'[f].rule = rs[j]
      BY <1>11, <2>1
    <3>2. g \in ToSet(fs)
      <4> SUFFICES ASSUME g \notin ToSet(fs)
                   PROVE  FALSE
        OBVIOUS
      <4>1. AtStart(g) /\ fiber'[g] = fiber[g] /\ fiber[g].rule \in Rule
        BY <1>10
      <4>2. Parent[fiber[g].rule] = NoRule
        BY <1>14, <3>1, <4>1 DEF Below
      <4> QED
        BY <1>9, <2>1, <4>1, <4>2 DEF RootAtStart
    <3>3. PICK i \in DOMAIN rs : g = fs[i] /\ fiber'[g].rule = rs[i]
      BY <1>11, <3>2
    <3>4. rs[i] < rs[j]
      BY <1>2, <1>14, <3>1, <3>3 DEF Below
    <3>5. Ahead(fs, g, f)
      BY <1>5, <3>1, <3>3, <3>4, AheadStarted
    <3>6. Ahead(runQueue, g, f) /\ Ahead(cascade, g, f) /\ Ahead(spawned, g, f)
      BY <1>6, <2>1, AbsentAhead DEF Drain
    <3>7. Ahead(runQueue', g, f)
      BY <1>0, <1>5, <3>5, <3>6, AheadJoined, DrainSeqs
    <3> QED
      BY <1>0, <3>6, <3>7 DEF AheadOf
  <2>2. CASE f \notin ToSet(fs)
    <3>1. AtStart(f) /\ fiber'[f] = fiber[f] /\ fiber[f].rule \in Rule
      BY <1>10, <2>2
    <3>2. g \notin ToSet(fs)
      <4> SUFFICES ASSUME g \in ToSet(fs)
                   PROVE  FALSE
        OBVIOUS
      <4>1. PICK i \in DOMAIN rs : fiber'[g].rule = rs[i]
        BY <1>11
      <4>2. PrecedingSibling[fiber[f].rule] \in Rule /\ Parent[PrecedingSibling[fiber[f].rule]] = NoRule
        BY <1>2, <3>1, <4>1 DEF Below
      <4>3. Parent[fiber[f].rule] = NoRule
        BY <3>1, <4>2, AboveNested, RuleProgramAssumption
      <4> QED
        BY <1>9, <3>1, <4>3 DEF RootAtStart
    <3>3. AtStart(g) /\ fiber'[g] = fiber[g] /\ fiber[g].rule \in Rule
      BY <1>10, <3>2
    <3>4. AheadOf(g, f)
      BY <1>1, <3>1, <3>3 DEF TurnInv, StartOrder, Below
    <3>5. Ahead(runQueue', g, f)
      <4>1. Ahead(fs, g, f)
        BY <2>2, AbsentAhead
      <4> QED
        BY <1>0, <1>5, <3>4, <4>1, AheadJoined, DrainSeqs DEF AheadOf
    <3> QED
      BY <1>0, <3>4, <3>5 DEF AheadOf
  <2> QED
    BY <2>1, <2>2
<1>16. /\ Len(runQueue) \in Nat /\ DOMAIN runQueue = 1 .. Len(runQueue)
       /\ Limit = Len(runQueue)
       /\ Limit' = Len(runQueue') /\ DOMAIN runQueue' = 1 .. Len(runQueue')
       /\ Len(runQueue') \in Nat /\ DOMAIN fs \subseteq Nat
       /\ \A i \in DOMAIN runQueue : i \in DOMAIN runQueue' /\ runQueue'[i] = runQueue[i]
       /\ \A i \in DOMAIN fs : /\ i + Len(runQueue) \in DOMAIN runQueue'
                               /\ runQueue'[i + Len(runQueue)] = fs[i]
       /\ \A i \in DOMAIN runQueue' : i \in DOMAIN runQueue \/ i - Len(runQueue) \in DOMAIN fs
  <2>1. runQueue \in Seq(FiberId) /\ fs \in Seq(FiberId) /\ runQueue' \in Seq(FiberId)
    BY <1>0, <1>5, DrainSeqs
  <2>2. /\ Len(runQueue) \in Nat /\ DOMAIN runQueue = 1 .. Len(runQueue) /\ DOMAIN fs \subseteq Nat
        /\ Len(runQueue') \in Nat /\ DOMAIN runQueue' = 1 .. Len(runQueue')
    BY <2>1
  <2>3. Limit = Len(runQueue) /\ Limit' = Len(runQueue')
    BY <1>0, <1>1 DEF Limit
  <2> QED
    BY <1>0, <2>1, <2>2, <2>3, Joined
(* Where a fiber is in the run queue.                                      *)
<1>17. ASSUME NEW i \in DOMAIN runQueue', NEW f \in FiberId, runQueue'[i] = f
       PROVE  IF f \in ToSet(fs)
                THEN i - Len(runQueue) \in DOMAIN fs /\ fs[i - Len(runQueue)] = f
                ELSE i \in DOMAIN runQueue /\ runQueue[i] = f
  <2>1. CASE i \in DOMAIN runQueue
    BY <1>6, <1>16, <1>17, <2>1 DEF ToSet
  <2>2. CASE i \notin DOMAIN runQueue
    <3>1. PICK j \in DOMAIN fs : j = i - Len(runQueue)
      BY <1>16, <2>2
    <3>2. i = j + Len(runQueue)
      BY <1>16, <3>1
    <3>3. fs[j] = f
      BY <1>16, <1>17, <3>1, <3>2
    <3>4. f \in ToSet(fs)
      BY <3>3 DEF ToSet
    <3> QED
      BY <3>1, <3>3, <3>4
  <2> QED
    BY <2>1, <2>2
<1>18. RootsInOrder'
  <2> SUFFICES ASSUME NEW f \in FiberId, NEW g \in RuleFibers', RootAtStart(f)', Below(f, g)',
                      NEW i \in DOMAIN runQueue', NEW j \in DOMAIN runQueue',
                      runQueue'[i] = g, runQueue'[j] = f
               PROVE  i < j
    BY <1>0, <1>1, <1>16 DEF RootsInOrder, Before
  <2>0. g \in FiberId /\ AtStart(f)' /\ Parent[fiber'[f].rule] = NoRule
    BY DEF RuleFibers, RootAtStart
  <2>1. CASE f \in ToSet(fs)
    <3>1. j - Len(runQueue) \in DOMAIN fs /\ fs[j - Len(runQueue)] = f
      BY <1>17, <2>1
    <3>2. CASE g \in ToSet(fs)
      <4> PICK a : a = i - Len(runQueue)
        OBVIOUS
      <4> PICK b : b = j - Len(runQueue)
        OBVIOUS
      <4>1. a \in DOMAIN rs /\ fs[a] = g /\ b \in DOMAIN rs /\ fs[b] = f
        BY <1>5, <1>17, <2>0, <3>1, <3>2
      <4>2. rs[a] = PrecedingSibling[rs[b]]
        BY <1>7, <4>1 DEF Below
      <4>3. rs[a] < rs[b] /\ rs[a] \in Nat /\ rs[b] \in Nat /\ a \in Nat /\ b \in Nat
        <5>1. rs[a] \in Rule /\ rs[b] \in Rule /\ a \in 1 .. Len(rs) /\ b \in 1 .. Len(rs)
          BY <1>2, <4>1
        <5>2. rs[a] < rs[b]
          BY <1>14, <4>1, <4>2, <5>1
        <5>3. rs[a] \in Nat /\ rs[b] \in Nat
          BY <5>1, RuleProgramAssumption
        <5> QED
          BY <5>1, <5>2, <5>3
      <4>4. a # b /\ ~(b < a)
        BY <1>3, <4>1, <4>3 DEF Ascending
      <4> QED
        BY <1>16, <4>3, <4>4
    <3>3. CASE g \notin ToSet(fs)
      <4>1. i \in DOMAIN runQueue
        BY <1>17, <2>0, <3>3
      <4> QED
        BY <1>2, <1>5, <1>16, <3>1, <4>1
    <3> QED
      BY <3>2, <3>3
  <2>2. CASE f \notin ToSet(fs)
    <3>1. RootAtStart(f) /\ fiber'[f] = fiber[f]
      BY <1>10, <2>0, <2>2 DEF RootAtStart
    <3>2. ToSet(fs) = {} /\ DOMAIN rs = {}
      BY <1>9, <3>1
    <3>3. g \in RuleFibers /\ fiber'[g] = fiber[g]
      BY <1>8, <2>0, <3>2
    <3>4. /\ i \in DOMAIN runQueue /\ runQueue[i] = g
          /\ j \in DOMAIN runQueue /\ runQueue[j] = f
      BY <1>17, <2>0, <3>2
    <3>5. Before(g, f)
      BY <3>1, <3>3 DEF TurnInv, RootsInOrder, Below
    <3> QED
      BY <1>16, <3>4, <3>5 DEF Before
  <2> QED
    BY <2>1, <2>2
<1>19. ChildrenDrain'
  <2> SUFFICES ASSUME NEW g \in FiberId, AtStart(g)'
               PROVE  IF Parent[fiber'[g].rule] = NoRule THEN g \notin Drain' ELSE g \in Drain'
    BY <1>0, <1>1 DEF ChildrenDrain, RuleFibers
  <2>1. Drain' = Drain
    BY <1>0 DEF Drain
  <2>2. CASE g \in ToSet(fs)
    BY <1>2, <1>6, <1>11, <2>1, <2>2
  <2>3. CASE g \notin ToSet(fs)
    <3>1. AtStart(g) /\ fiber'[g] = fiber[g]
      BY <1>10, <2>3
    <3> QED
      BY <1>1, <2>1, <3>1 DEF TurnInv, ChildrenDrain
  <2> QED
    BY <2>2, <2>3
<1> QED
  BY <1>12, <1>13, <1>15, <1>18, <1>19 DEF TurnInv

LEMMA InitTurns ==
    ASSUME Init
    PROVE  TurnInv
<1> PICK rs : rs = FirstRules
  OBVIOUS
<1> PICK fs : fs = CHOOSE s \in Lists(Len(rs), FiberId) : TRUE
  OBVIOUS
<1>0. FirstFibers(rs, fs)
  BY FirstFibersAre
<1>1. /\ rs \in Seq(Rule) /\ Len(rs) \in Nat /\ DOMAIN rs = 1 .. Len(rs)
      /\ \A i \in DOMAIN rs : rs[i] \in Rule /\ Parent[rs[i]] = NoRule /\ PageOf[rs[i]] = 1
                              /\ rs[i] \in Roots
      /\ fs \in Seq(FiberId) /\ DOMAIN fs = DOMAIN rs
      /\ \A i, j \in DOMAIN rs : fs[i] = fs[j] => i = j
      /\ Listed(rs, fs) /\ \A i \in DOMAIN rs : rs = Pages[1]
  BY <1>0 DEF FirstFibers, Listed, Ascending
<1>2. /\ runQueue = fs /\ spawned = << >> /\ cascade = << >> /\ current = 1
      /\ running = NoFiber /\ phase = "idle" /\ NoFiber \notin FiberId
  BY FibersAssumption DEF Init, FirstRules
<1>3. \A f \in RuleFibers : \E i \in DOMAIN rs : f = fs[i]
  BY <1>0 DEF FirstFibers, RuleFibers, Live, Alive
<1>4. \A i \in DOMAIN rs : /\ fs[i] \in FiberId /\ fiber[fs[i]].rule = rs[i]
                           /\ fiber[fs[i]].pc = "start" /\ AtStart(fs[i])
  <2> TAKE i \in DOMAIN rs
  <2>1. /\ state[fs[i]] = "RUNNABLE" /\ fiber[fs[i]] = [Blank EXCEPT !.rule = rs[i]]
        /\ fs[i] \in FiberId
    BY <1>0 DEF FirstFibers
  <2>2. fiber[fs[i]].rule = rs[i] /\ fiber[fs[i]].pc = "start"
    BY <2>1 DEF Blank
  <2> QED
    BY <2>1, <2>2 DEF AtStart, RuleFibers, Live, Alive
<1>5. FirstThink
  <2> SUFFICES ASSUME NEW f \in FiberId, RootAtStart(f)
               PROVE  /\ \A r \in ToSet(Pages[current]) : active[r] # NoFiber
                      /\ \A g \in RuleFibers : AtStart(g)
    BY DEF FirstThink
  <2>0. rs = Pages[1]
    BY <1>1, <1>3 DEF RootAtStart, AtStart
  <2>1. \A g \in RuleFibers : AtStart(g)
    BY <1>3, <1>4
  <2>2. ASSUME NEW r \in ToSet(Pages[1])
        PROVE  active[r] # NoFiber
    <3>1. PICK i \in DOMAIN rs : rs[i] = r
      BY <2>0, <2>2 DEF ToSet
    <3>2. active[r] = fs[CHOOSE n \in DOMAIN rs : rs[n] = r]
      BY <1>1, <2>0, <2>2, <3>1 DEF Init, FirstRules
    <3>3. active[r] \in FiberId
      BY <1>4, <3>1, <3>2
    <3> QED
      BY <1>2, <3>3
  <2> QED
    BY <1>2, <2>1, <2>2
<1>6. StartsInRound
  BY <1>2 DEF StartsInRound
<1>7. ASSUME NEW f \in RuleFibers, NEW g \in RuleFibers, Below(f, g)
      PROVE  \E i, j \in DOMAIN rs : g = fs[i] /\ f = fs[j] /\ rs[i] < rs[j] /\ i < j
  <2>1. PICK i \in DOMAIN rs, j \in DOMAIN rs : g = fs[i] /\ f = fs[j]
    BY <1>3
  <2>2. rs[i] < rs[j]
    <3>1. PrecedingSibling[rs[j]] = rs[i] /\ rs[i] # NoRule
      <4>1. PrecedingSibling[rs[j]] = rs[i]
        BY <1>4, <1>7, <2>1 DEF Below
      <4>2. rs[i] \in Rule /\ NoRule \notin Rule
        BY <1>1, <2>1, RuleProgramAssumption
      <4> QED
        BY <4>1, <4>2
    <3> QED
      BY <1>1, <3>1, AboveRoot
  <2>3. i < j
    <3>1. Ahead(fs, fs[i], fs[j])
      BY <1>1, <2>2, AheadStarted
    <3>2. PICK a \in DOMAIN fs : a < j /\ fs[a] = fs[i]
      BY <1>1, <3>1 DEF Ahead
    <3> QED
      BY <1>1, <3>2
  <2> QED
    BY <2>1, <2>2, <2>3
<1>8. StartOrder
  <2> SUFFICES ASSUME NEW f \in FiberId, NEW g \in FiberId, AtStart(f), AtStart(g), Below(f, g)
               PROVE  f # running /\ AheadOf(g, f)
    BY DEF StartOrder
  <2>1. PICK i \in DOMAIN rs, j \in DOMAIN rs : g = fs[i] /\ f = fs[j] /\ rs[i] < rs[j]
    BY <1>7 DEF AtStart
  <2>2. Ahead(fs, g, f)
    BY <1>1, <2>1, AheadStarted
  <2>3. ToSet(spawned) = {} /\ ToSet(cascade) = {}
    BY <1>2 DEF ToSet
  <2> QED
    BY <1>2, <2>2, <2>3, AbsentAhead DEF AheadOf
<1>9. RootsInOrder
  <2> SUFFICES ASSUME NEW f \in FiberId, NEW g \in RuleFibers, RootAtStart(f), Below(f, g)
               PROVE  Before(g, f) /\ f # running
    BY DEF RootsInOrder
  <2>1. PICK i \in DOMAIN rs, j \in DOMAIN rs : g = fs[i] /\ f = fs[j] /\ i < j
    BY <1>7 DEF RootAtStart, AtStart
  <2> QED
    <3>1. f # running /\ Limit = Len(rs) /\ DOMAIN runQueue = DOMAIN rs
      <4>1. Len(fs) = Len(rs)
        BY <1>1
      <4> QED
        BY <1>1, <1>2, <2>1, <4>1 DEF Limit
    <3>2. ASSUME NEW a \in 1 .. Limit, NEW b \in DOMAIN runQueue, runQueue[a] = g, runQueue[b] = f
          PROVE  a < b
      <4>1. a \in DOMAIN rs /\ b \in DOMAIN rs /\ fs[a] = fs[i] /\ fs[b] = fs[j]
        BY <1>1, <1>2, <2>1, <3>1, <3>2
      <4>2. a = i /\ b = j
        BY <1>1, <4>1
      <4> QED
        BY <2>1, <4>2
    <3> QED
      BY <3>1, <3>2 DEF Before
<1>10. ChildrenDrain
  <2>1. Drain = {}
    BY <1>2 DEF Drain, ToSet
  <2>2. \A g \in FiberId : AtStart(g) => Parent[fiber[g].rule] = NoRule
    BY <1>1, <1>3, <1>4 DEF AtStart
  <2> QED
    BY <2>1, <2>2 DEF ChildrenDrain
<1> QED
  BY <1>5, <1>6, <1>8, <1>9, <1>10 DEF TurnInv

LEMMA TurnStep ==
    ASSUME BrainInv, OrderInv, TurnInv, [Next]_vars
    PROVE  TurnInv'
<1>0. BrainInv' /\ OrderInv'
  BY BrainStep, OrderStep
<1>1. CASE \E p \in Page : Think(p)
  BY <1>0, <1>1, TurnsStart
<1>2. CASE \E f \in FiberId : SpawnRule(f)
  BY <1>2, TurnsSpawn
<1>3. CASE EndThink \/ ThinkThrows
  BY <1>0, <1>3, TurnsEndThink DEF BrainInv
<1>4. CASE RunNext
  BY <1>4, TurnsTake
<1>5. CASE RuleFibers' = {}
  BY <1>5, TurnsWiped
<1>6. CASE Lengthens
  BY <1>0, <1>1, <1>2, <1>6, TurnsLengthen
<1> QED
  BY <1>0, <1>1, <1>2, <1>3, <1>4, <1>5, <1>6, StepKinds

-----------------------------------------------------------------------------
(* Chains of `otherwise` rules.                                            *)

LEMMA ChainSelf ==
    ASSUME NEW r \in Rule
    PROVE  r \in Chain[r] /\ Chain[r] \subseteq Rule
BY DEF Chain

LEMMA ChainAbove ==
    ASSUME NEW r \in Rule, NEW t \in Chain[r], Mode[t] = "otherwise", PrecedingSibling[t] # NoRule
    PROVE  PrecedingSibling[t] \in Chain[r]
<1>1. t \in Rule /\ PrecedingSibling[t] \in Rule
  BY ChainSelf, AboveType
<1>2. \A R \in SUBSET Rule : r \in R /\ Upchain(R) => t \in R
  BY DEF Chain
<1>3. \A R \in SUBSET Rule : r \in R /\ Upchain(R) => PrecedingSibling[t] \in R
  BY <1>2 DEF Upchain
<1> QED
  BY <1>1, <1>3 DEF Chain

LEMMA ChainLeast ==
    ASSUME NEW r \in Rule, NEW R \in SUBSET Rule, r \in R, Upchain(R)
    PROVE  Chain[r] \subseteq R
BY DEF Chain

LEMMA ChainHead ==
    ASSUME NEW r \in Rule, Mode[r] # "otherwise" \/ PrecedingSibling[r] = NoRule
    PROVE  Chain[r] = {r}
<1>1. Upchain({r})
  BY DEF Upchain
<1>2. {r} \in SUBSET Rule /\ r \in {r}
  OBVIOUS
<1> QED
  BY <1>1, <1>2, ChainLeast, ChainSelf

LEMMA ChainStep ==
    ASSUME NEW r \in Rule, Mode[r] = "otherwise", NEW s \in Rule, s = PrecedingSibling[r]
    PROVE  Chain[r] = {r} \cup Chain[s]
<1>0. s # NoRule
  BY RuleProgramAssumption
<1>1. Chain[r] \subseteq {r} \cup Chain[s]
  <2>1. {r} \cup Chain[s] \in SUBSET Rule
    BY ChainSelf
  <2>2. Upchain({r} \cup Chain[s])
    <3> SUFFICES ASSUME NEW t \in {r} \cup Chain[s], Mode[t] = "otherwise",
                        PrecedingSibling[t] # NoRule
                 PROVE  PrecedingSibling[t] \in Chain[s]
      BY DEF Upchain
    <3>1. CASE t = r
      BY <3>1, ChainSelf
    <3>2. CASE t \in Chain[s]
      BY <3>2, ChainAbove
    <3> QED
      BY <3>1, <3>2
  <2>3. r \in {r} \cup Chain[s]
    OBVIOUS
  <2> QED
    BY <2>1, <2>2, <2>3, ChainLeast
<1>2. Chain[s] \subseteq Chain[r]
  <2>1. Chain[r] \in SUBSET Rule /\ r \in Chain[r]
    BY ChainSelf
  <2>2. s \in Chain[r]
    BY <1>0, <2>1, ChainAbove
  <2>3. Upchain(Chain[r])
    BY ChainAbove DEF Upchain
  <2> QED
    BY <2>1, <2>2, <2>3, ChainLeast
<1>3. r \in Chain[r]
  BY ChainSelf
<1> QED
  BY <1>1, <1>2, <1>3

(* Every rule of a chain but the last is above an `otherwise` rule of it.  *)
LEMMA ChainBelow ==
    ASSUME NEW r \in Rule, NEW s \in Chain[r], s # r
    PROVE  \E t \in Chain[r] : Mode[t] = "otherwise" /\ PrecedingSibling[t] = s
<1> DEFINE R == {x \in Chain[r] :
                    x = r \/ \E t \in Chain[r] : Mode[t] = "otherwise" /\ PrecedingSibling[t] = x}
<1>1. R \in SUBSET Rule /\ r \in R
  BY ChainSelf
<1>2. Upchain(R)
  <2> SUFFICES ASSUME NEW t \in R, Mode[t] = "otherwise", PrecedingSibling[t] # NoRule
               PROVE  PrecedingSibling[t] \in R
    BY DEF Upchain
  <2>1. t \in Chain[r]
    OBVIOUS
  <2>2. PrecedingSibling[t] \in Chain[r]
    BY <2>1, ChainAbove
  <2> QED
    BY <2>1, <2>2
<1>3. s \in R
  <2> HIDE DEF R
  <2> QED
    BY <1>1, <1>2, ChainLeast
<1> QED
  BY <1>3

LEMMA AboveOther ==
    ASSUME NEW r \in Rule
    PROVE  PrecedingSibling[r] # r
<1> PICK L : L = Level(r)
  OBVIOUS
<1>1. PICK i \in DOMAIN L : L[i] = r /\ PrecedingSibling[r] = IF i = 1 THEN NoRule ELSE L[i - 1]
  BY AboveIs
<1>2. L \in Seq(Rule) /\ \A m, n \in DOMAIN L : L[m] = L[n] => m = n
  BY LevelOf
<1>3. CASE i = 1
  BY <1>1, <1>3, RuleProgramAssumption
<1>4. CASE i # 1
  <2>1. i - 1 \in DOMAIN L /\ i - 1 # i
    BY <1>2, <1>4
  <2> QED
    BY <1>1, <1>2, <1>4, <2>1
<1> QED
  BY <1>3, <1>4

-----------------------------------------------------------------------------
(* What has begun in this think.                                           *)

(* The rules of a level begin in order.                                    *)
BegunInOrder ==
    \A r \in begun : \A g \in FiberId : AtStart(g) => fiber[g].rule # PrecedingSibling[r]

(* Once a root rule has begun, the rule above it has no more slices.       *)
SliceSpent ==
    \A r \in begun : \A g \in RuleFibers :
        Parent[r] = NoRule /\ fiber[g].rule = PrecedingSibling[r] => g # running /\ ~InRound(g)

ThinkInv == OncePerThink /\ BegunInOrder /\ SliceSpent

(* A rule that begins does so before the rule below it and after its turn  *)
(* has come.                                                               *)
LEMMA BeginsInOrder ==
    ASSUME BrainInv, OrderInv, TurnInv, NEW f \in FiberId, Begin(f), NEW g \in RuleFibers, Below(f, g)
    PROVE  ~AtStart(g) /\ (Parent[fiber[f].rule] = NoRule => ~InRound(g)) /\ g # running
<1>1. f \in RuleFibers /\ f = running /\ AtStart(f) /\ fiber[f].rule \in Rule
  BY BeginsOne DEF AtStart
<1>2. ~AtStart(g) /\ g \in FiberId
  BY <1>1 DEF TurnInv, StartOrder, RuleFibers
<1>3. Parent[fiber[f].rule] = NoRule => ~InRound(g)
  BY <1>1 DEF TurnInv, RootsInOrder, RootAtStart
<1> QED
  BY <1>1, <1>2, <1>3

LEMMA BegunOnward ==
    ASSUME BrainInv, OrderInv, TurnInv, ThinkInv, HistoryNext, \A g \in RuleFibers' : Onward(g)
    PROVE  BegunInOrder'
<1> SUFFICES ASSUME NEW r \in begun', NEW g \in FiberId, AtStart(g)',
                    fiber'[g].rule = PrecedingSibling[r]
             PROVE  FALSE
  BY DEF BegunInOrder
<1>1. Onward(g)
  BY DEF AtStart
<1>2. AtStart(g) /\ fiber[g].rule = PrecedingSibling[r]
  BY <1>1, PlacesBefore DEF AtStart, Onward
<1>3. CASE r \in begun
  BY <1>2, <1>3 DEF ThinkInv, BegunInOrder
<1>4. CASE r \notin begun
  <2>1. PICK f \in FiberId : Begin(f) /\ fiber[f].rule = r
    BY <1>4, NewInThink
  <2> QED
    BY <1>2, <2>1, BeginsInOrder DEF AtStart, Below
<1> QED
  BY <1>3, <1>4

LEMMA BegunSpawn ==
    ASSUME BrainInv, ThinkInv, HistoryNext, NEW f \in FiberId, NEW c, NEW k, SpawnsOne(f, c, k),
           phase # "idle"
    PROVE  BegunInOrder' /\ \A r \in begun : PrecedingSibling[r] # k
<1>0. begun' = begun /\ f \in RuleFibers
  BY SpawnHistory, RunningFiber DEF SpawnsOne
<1>1. ASSUME NEW r \in begun, PrecedingSibling[r] = k
      PROVE  FALSE
  <2>1. r \in Rule
    BY DEF ThinkInv, OncePerThink
  <2>2. /\ fiber[f].kids + 2 \in DOMAIN ChildRules[fiber[f].rule] /\ fiber[f].kids + 2 > fiber[f].kids
        /\ ChildRules[fiber[f].rule][fiber[f].kids + 2] = r
    <3>1. fiber[f].kids \in Nat
      BY DEF SpawnsOne
    <3>2. /\ fiber[f].kids + 2 \in DOMAIN ChildRules[fiber[f].rule]
          /\ ChildRules[fiber[f].rule][fiber[f].kids + 2] = r
      BY <1>1, <2>1, SpawnedBelow
    <3> QED
      BY <3>1, <3>2
  <2>3. Untouched(r)
    BY <1>0, <2>2 DEF ThinkInv, OncePerThink
  <2> QED
    BY <2>1, <2>3, WithinSelf DEF Untouched
<1>2. ASSUME NEW r \in begun, NEW g \in FiberId, AtStart(g)', fiber'[g].rule = PrecedingSibling[r]
      PROVE  FALSE
  <2>1. CASE g = c
    BY <1>1, <1>2, <2>1 DEF SpawnsOne, Blank
  <2>2. CASE g = f
    BY <1>2, <2>2 DEF SpawnsOne, AtStart
  <2>3. CASE g # c /\ g # f
    <3>1. fiber'[g] = fiber[g] /\ state'[g] = state[g]
      BY <2>3 DEF SpawnsOne
    <3> QED
      BY <1>2, <3>1 DEF ThinkInv, BegunInOrder, AtStart, RuleFibers, Live
  <2> QED
    BY <2>1, <2>2, <2>3
<1> QED
  BY <1>0, <1>1, <1>2 DEF BegunInOrder

LEMMA BegunStep ==
    ASSUME BrainInv, OrderInv, TurnInv, ThinkInv, TypeOK', HistoryNext
    PROVE  BegunInOrder'
<1>0. Next
  BY DEF HistoryNext
<1>1. CASE phase = "idle"
  <2>1. begun' = {}
    BY <1>1, NewInThink
  <2> QED
    BY <2>1 DEF BegunInOrder
<1>2. CASE phase # "idle"
  <2>1. ~\E p \in Page : Think(p)
    BY <1>2 DEF Think
  <2>2. CASE \E f \in FiberId : SpawnRule(f)
    BY <1>2, <2>2, SpawnRuleOne, BegunSpawn
  <2>3. CASE ~\E f \in FiberId : SpawnRule(f)
    BY <1>0, <2>1, <2>3, StepsOnward, BegunOnward
  <2> QED
    BY <2>2, <2>3
<1> QED
  BY <1>1, <1>2

(* The slices of a think.                                                  *)
LEMMA SpentOnward ==
    ASSUME BrainInv, OrderInv, TurnInv, ThinkInv, HistoryNext,
           \A g \in RuleFibers' : Onward(g), Lengthens \/ RunNext \/ RuleFibers' = {}
    PROVE  SliceSpent'
<1> SUFFICES ASSUME NEW r \in begun', NEW g \in RuleFibers', Parent[r] = NoRule,
                    fiber'[g].rule = PrecedingSibling[r]
             PROVE  g # running' /\ ~InRound(g)'
  BY DEF SliceSpent
<1>0. g \in RuleFibers /\ g \in FiberId /\ fiber[g].rule = PrecedingSibling[r]
      /\ fiber[g].rule \in Rule /\ NoFiber \notin FiberId
  BY DrainSeqs DEF Onward, RuleFibers, BrainInv, Settled
<1>1. g # running /\ ~InRound(g)
  <2>1. CASE r \in begun
    BY <1>0, <2>1 DEF ThinkInv, SliceSpent
  <2>2. CASE r \notin begun
    <3>1. PICK f \in FiberId : Begin(f) /\ fiber[f].rule = r
      BY <2>2, NewInThink
    <3> QED
      BY <1>0, <3>1, BeginsInOrder DEF Below
  <2> QED
    BY <2>1, <2>2
<1>2. CASE Lengthens
  <2>1. running' \in {running, NoFiber} /\ round' = round
        /\ \A i \in 1 .. round : runQueue'[i] = runQueue[i]
    BY <1>2, LengthensPlaces DEF Lengthens
  <2> QED
    BY <1>0, <1>1, <2>1 DEF InRound
<1>3. CASE RunNext
  <2>1. PICK h : TakesFrom(h)
    BY <1>3, RunNextTakesFrom
  <2>2. CASE h \in Drain /\ runQueue' = runQueue /\ round' = round
    <3>1. h # g
      <4> SUFFICES ASSUME h = g
                   PROVE  FALSE
        OBVIOUS
      <4>1. AtStart(g)
        BY <1>0, <2>2 DEF OrderInv, DrainAtStart, RuleFibers
      <4>2. Parent[fiber[g].rule] = NoRule
        <5>1. r \in Rule
          <6>1. r \in begun \/ \E f \in FiberId : Begin(f) /\ fiber[f].rule = r
            BY NewInThink
          <6> QED
            BY <6>1, BeginsOne DEF ThinkInv, OncePerThink
        <5> QED
          BY <1>0, <5>1, AboveRoot, RuleProgramAssumption
      <4> QED
        BY <1>0, <2>2, <4>1, <4>2 DEF TurnInv, ChildrenDrain
    <3> QED
      BY <1>0, <1>1, <2>1, <2>2, <3>1 DEF TakesFrom, InRound
  <2>3. CASE /\ round \in 1 .. Len(runQueue) /\ round' = round - 1
             /\ runQueue[1] = h /\ DOMAIN runQueue' = 1 .. Len(runQueue) - 1
             /\ \A i \in DOMAIN runQueue' : runQueue'[i] = runQueue[i + 1]
    <3>0. Len(runQueue) \in Nat
      BY DEF BrainInv, TypeOK, QueueTypeOK
    <3>1. h # g
      <4>1. 1 \in 1 .. round
        BY <2>3, <3>0
      <4> QED
        BY <1>1, <2>3, <4>1 DEF InRound
    <3>2. ~InRound(g)'
      <4> SUFFICES ASSUME NEW i \in 1 .. round', runQueue'[i] = g
                   PROVE  FALSE
        BY DEF InRound
      <4>1. i \in DOMAIN runQueue' /\ i + 1 \in 1 .. round
        BY <2>3, <3>0
      <4> QED
        BY <1>1, <2>3, <4>1 DEF InRound
    <3> QED
      BY <1>0, <2>1, <3>1, <3>2 DEF TakesFrom
  <2> QED
    BY <2>1, <2>2, <2>3 DEF TakesFrom
<1>4. CASE RuleFibers' = {}
  BY <1>4
<1> QED
  BY <1>2, <1>3, <1>4

LEMMA SpentStep ==
    ASSUME BrainInv, OrderInv, TurnInv, ThinkInv, HistoryNext
    PROVE  SliceSpent'
<1>0. Next /\ BrainInv'
  BY BrainStep DEF HistoryNext
<1>1. CASE phase = "idle"
  <2>1. begun' = {}
    BY <1>1, NewInThink
  <2> QED
    BY <2>1 DEF SliceSpent
<1>2. CASE phase # "idle"
  <2>1. ~\E p \in Page : Think(p)
    BY <1>2 DEF Think
  <2>2. CASE \E f \in FiberId : SpawnRule(f)
    <3>1. PICK f \in FiberId : SpawnRule(f)
      BY <2>2
    <3>2. PICK c, k : SpawnsOne(f, c, k)
      BY <3>1, SpawnRuleOne
    <3>3. begun' = begun /\ running' = running /\ round' = round /\ runQueue' = runQueue
      <4>1. begun' = begun
        BY <1>2, <3>2, SpawnHistory
      <4>2. running' = running /\ round' = round /\ runQueue' = runQueue
        BY <3>1 DEF SpawnRule
      <4> QED
        BY <4>1, <4>2
    <3>4. ASSUME NEW r \in begun, NEW g \in RuleFibers', Parent[r] = NoRule,
                 fiber'[g].rule = PrecedingSibling[r]
          PROVE  g # running /\ ~InRound(g)
      <4>1. g \in FiberId /\ Live(g)' /\ fiber'[g].pc # "action"
        BY DEF RuleFibers
      <4>2. g # c
        <5>1. \A q \in begun : PrecedingSibling[q] # k
          BY <1>2, <3>2, BegunSpawn
        <5>2. fiber'[c].rule = k
          BY <3>2 DEF SpawnsOne, Blank
        <5> QED
          BY <3>4, <5>1, <5>2
      <4>3. g \in RuleFibers /\ fiber'[g].rule = fiber[g].rule
        <5>1. CASE g = f
          BY <3>2, <5>1, RunningFiber DEF SpawnsOne
        <5>2. CASE g # f
          <6>1. fiber'[g] = fiber[g] /\ state'[g] = state[g]
            BY <3>2, <4>1, <4>2, <5>2 DEF SpawnsOne
          <6> QED
            BY <4>1, <6>1 DEF RuleFibers, Live
        <5> QED
          BY <5>1, <5>2
      <4> QED
        BY <3>4, <4>3 DEF ThinkInv, SliceSpent
    <3> QED
      BY <3>3, <3>4 DEF SliceSpent, InRound
  <2>3. CASE ~\E f \in FiberId : SpawnRule(f)
    <3>1. \A g \in RuleFibers' : Onward(g)
      BY <1>0, <2>1, <2>3, StepsOnward DEF BrainInv
    <3>2. CASE EndThink \/ ThinkThrows
      <4>1. running' = NoFiber /\ round' = 0
        BY <3>2 DEF EndThink, ThinkThrows, RoundOver, Between
      <4>2. \A g \in RuleFibers' : g # running' /\ ~InRound(g)'
        BY <4>1, DrainSeqs DEF RuleFibers, InRound
      <4> QED
        BY <4>2 DEF SliceSpent
    <3> QED
      BY <1>0, <2>1, <2>3, <3>1, <3>2, StepKinds, SpentOnward
  <2> QED
    BY <2>2, <2>3
<1> QED
  BY <1>1, <1>2

-----------------------------------------------------------------------------
(* The records of a think.                                                 *)

(* The instruction of the rule r itself that changes its record.           *)
RecordedBy(f, r) ==
    /\ f \in RuleFibers /\ f = running /\ fiber[f].rule = r
    /\ \/ Begin(f) /\ Mode[r] # "always" /\ fiber[f].pc = "start" /\ firing'[r] = "EVALUATING"
       \/ AskTrigger(f)
       \/ \E outcome \in BOOLEAN : Gate(f, outcome) /\ firing'[r] = Record(r, outcome)

LEMMA RecordsOf ==
    ASSUME BrainInv, [Next]_vars, NEW r \in Rule, firing'[r] # firing[r]
    PROVE  \E f \in FiberId : RecordedBy(f, r)
<1>0. firing \in [Rule -> {"INITIAL", "EVALUATING", "DID_FIRE", "DID_NOT_FIRE"}]
  BY DEF BrainInv, TypeOK
<1>1. PICK f \in FiberId : Begin(f) \/ AskTrigger(f) \/ \E outcome \in BOOLEAN : Gate(f, outcome)
  <2>1. ~UNCHANGED vars /\ ~RunNext /\ ~EndThink /\ ~Throws
    BY ThrowsAre DEF vars, ruleVars, RunNext, EndThink
  <2>2. ~\E p \in Page : RequestPage(p) \/ LeavePage(p) \/ Think(p)
    BY DEF RequestPage, LeavePage, Think
  <2>3. ~\E f \in FiberId : HostSettle(f)
    BY DEF HostSettle, ruleVars
  <2>4. \A f \in FiberId : ~ReadSubject(f) /\ ~AwaitAnswer(f) /\ ~AwaitTrigger(f) /\ ~AwaitHost(f)
                           /\ ~CallAction(f) /\ ~SpawnRule(f) /\ ~Yield(f)
                           /\ ~LeaveCancelled(f) /\ ~ErrorEscapes(f)
    BY DEF ReadSubject, AwaitAnswer, AwaitTrigger, AwaitHost, CallAction, SpawnRule, Yield,
           LeaveCancelled, ErrorEscapes, ruleVars
  <2>5. \A f \in FiberId : ~Return(f) /\ ~Fault(f)
    BY DEF Return, Fault, EndWith
  <2> QED
    BY <2>1, <2>2, <2>3, <2>4, <2>5 DEF Next, Throws, Instruction
<1>2. Executing(f) /\ fiber[f].pc # "action"
  BY <1>1 DEF Begin, AskTrigger, Gate
<1>3. f \in RuleFibers /\ f = running /\ fiber[f].rule \in Rule
  BY <1>2, RunningFiber
<1>4. CASE Begin(f)
  <2>1. Mode[fiber[f].rule] # "always" /\ firing' = [firing EXCEPT ![fiber[f].rule] = "EVALUATING"]
        /\ fiber[f].pc = "start"
    BY <1>4 DEF Begin
  <2>2. fiber[f].rule = r /\ firing'[r] = "EVALUATING"
    BY <1>0, <1>3, <2>1
  <2> QED
    BY <1>3, <1>4, <2>1, <2>2 DEF RecordedBy
<1>5. CASE AskTrigger(f)
  <2>1. \E x : firing' = [firing EXCEPT ![fiber[f].rule] = x] \/ firing' = firing
    BY <1>5 DEF AskTrigger
  <2>2. fiber[f].rule = r
    BY <1>0, <1>3, <2>1
  <2> QED
    BY <1>3, <1>5, <2>2 DEF RecordedBy
<1>6. ASSUME NEW outcome \in BOOLEAN, Gate(f, outcome)
      PROVE  RecordedBy(f, r)
  <2>1. firing' = [firing EXCEPT ![fiber[f].rule] = Record(fiber[f].rule, outcome)]
    BY <1>6 DEF Gate
  <2>2. fiber[f].rule = r
    BY <1>0, <1>3, <2>1
  <2>3. firing'[r] = Record(r, outcome)
    BY <1>0, <2>1, <2>2
  <2> QED
    BY <1>3, <1>6, <2>2, <2>3 DEF RecordedBy
<1> QED
  BY <1>1, <1>4, <1>5, <1>6

(* The record of a rule that begins or that goes through its gate.         *)
LEMMA BeginRecords ==
    ASSUME BrainInv, NEW f \in FiberId, Begin(f), Mode[fiber[f].rule] # "always"
    PROVE  firing'[fiber[f].rule] = "EVALUATING"
<1>1. fiber[f].rule \in Rule
  BY BeginsOne
<1> QED
  BY <1>1 DEF Begin, BrainInv, TypeOK

LEMMA GateRecords ==
    ASSUME BrainInv, NEW f \in FiberId, NEW outcome \in BOOLEAN, Gate(f, outcome)
    PROVE  /\ f \in RuleFibers /\ f = running /\ fiber[f].rule \in Rule
           /\ firing'[fiber[f].rule] = Record(fiber[f].rule, outcome)
<1>1. f \in RuleFibers /\ f = running /\ fiber[f].rule \in Rule
  BY RunningFiber DEF Gate
<1> QED
  BY <1>1 DEF Gate, BrainInv, TypeOK

(* The places of a rule fiber after any step, for those that are on their  *)
(* way to the gate.                                                        *)
LEMMA TestingFrom ==
    ASSUME BrainInv, TypeOK', [Next]_vars, NEW f \in RuleFibers', fiber'[f].pc \in Testing
    PROVE  Onward(f)
<1>1. CASE \E p \in Page : Think(p)
  <2> PICK p \in Page : Think(p)
    BY <1>1
  <2> PICK rs \in InOrder(Due) : Starts(p, rs, FreshFibers(Len(rs)))
    BY ThinkStarts
  <2> PICK fs : fs = FreshFibers(Len(rs))
    OBVIOUS
  <2>1. NewFibers(rs, fs)
    BY StartedAre DEF Starts
  <2>2. f \in FiberId
    BY DEF RuleFibers
  <2>3. ~\E i \in DOMAIN rs : f = fs[i]
    <3> SUFFICES ASSUME NEW i \in DOMAIN rs, f = fs[i]
                 PROVE  FALSE
      OBVIOUS
    <3>1. fiber'[fs[i]] = [Blank EXCEPT !.rule = rs[i]]
      BY <2>1 DEF NewFibers
    <3>2. fiber'[f].pc = "start"
      BY <3>1 DEF Blank
    <3> QED
      BY <3>2 DEF Testing
  <2>4. state'[f] = state[f] /\ fiber'[f] = fiber[f]
    BY <2>1, <2>2, <2>3 DEF NewFibers
  <2> QED
    BY <2>4 DEF Onward, Turns, RuleFibers, Live
<1>2. CASE \E g \in FiberId : SpawnRule(g)
  <2> PICK g \in FiberId : SpawnRule(g)
    BY <1>2
  <2> PICK c, k : SpawnsOne(g, c, k)
    BY SpawnRuleOne
  <2>1. f # c /\ f # g /\ f \in FiberId
    BY DEF SpawnsOne, Blank, Testing, RuleFibers
  <2>2. fiber'[f] = fiber[f] /\ state'[f] = state[f]
    BY <2>1 DEF SpawnsOne
  <2> QED
    BY <2>2 DEF Onward, Turns, RuleFibers, Live
<1>3. CASE ~(\E p \in Page : Think(p)) /\ ~(\E g \in FiberId : SpawnRule(g))
  BY <1>3, StepsOnward
<1> QED
  BY <1>1, <1>2, <1>3

LEMMA RecordedStep ==
    ASSUME BrainInv, TypeOK', OncePerThink, Recorded, HistoryNext
    PROVE  Recorded'
<1>0. Next
  BY DEF HistoryNext
<1>1. ASSUME NEW r \in Rule, Mode[r] = "always"
      PROVE  firing'[r] = "INITIAL"
  <2> SUFFICES ASSUME firing'[r] # firing[r]
               PROVE  FALSE
    BY <1>1 DEF Recorded
  <2>1. PICK f \in FiberId : RecordedBy(f, r)
    BY <1>0, RecordsOf
  <2>2. fiber[f].pc \in Testing
    BY <1>1, <2>1, PlacesOf DEF RecordedBy, Testing
  <2> QED
    BY <1>1, <2>1, <2>2 DEF Recorded, RecordedBy
<1>2. ASSUME NEW r \in fired'
      PROVE  Mode[r] = "always" \/ firing'[r] = "DID_FIRE"
  <2>1. CASE r \in fired
    <3> SUFFICES ASSUME firing'[r] # firing[r]
                 PROVE  FALSE
      BY <2>1 DEF Recorded
    <3>1. r \in Rule
      BY <2>1 DEF OncePerThink
    <3>2. PICK f \in FiberId : RecordedBy(f, r)
      BY <1>0, <3>1, RecordsOf
    <3>3. fiber[f].pc \in Testing \cup {"start"} /\ f \in RuleFibers /\ fiber[f].rule = r
      BY <3>2, PlacesOf DEF RecordedBy, Testing
    <3> QED
      BY <2>1, <3>3 DEF OncePerThink
  <2>2. CASE r \notin fired
    <3>1. PICK f \in FiberId : Fires(f) /\ fiber[f].rule = r
      BY <2>2, NewInThink
    <3>2. CASE Gate(f, TRUE)
      BY <3>1, <3>2, GateRecords DEF Record
    <3>3. CASE Begin(f) /\ Mode[fiber[f].rule] = "always"
      BY <3>1, <3>3
    <3> QED
      BY <3>1, <3>2, <3>3 DEF Fires
  <2> QED
    BY <2>1, <2>2
<1>3. ASSUME NEW f \in RuleFibers', fiber'[f].pc \in Testing
      PROVE  /\ Mode[fiber'[f].rule] # "always"
             /\ fiber'[f].pc = "asked" => Mode[fiber'[f].rule] = "then"
             /\ Mode[fiber'[f].rule] = "then" \/ firing'[fiber'[f].rule] = "EVALUATING"
  <2>0. /\ f \in RuleFibers /\ f \in FiberId /\ Turns(f)
        /\ fiber'[f].rule = fiber[f].rule /\ fiber[f].rule \in Rule
    BY <1>0, <1>3, TestingFrom DEF Onward, RuleFibers, BrainInv, Settled
  <2>1. fiber[f].pc \in Testing \/ Begin(f)
    BY <1>3, <2>0, PlacesBefore
  <2>2. Mode[fiber[f].rule] # "always"
    <3>1. CASE fiber[f].pc \in Testing
      BY <2>0, <3>1 DEF Recorded
    <3>2. CASE Begin(f)
      BY <1>3, <3>2, PlacesOf, <2>0 DEF Testing
    <3> QED
      BY <2>1, <3>1, <3>2
  <2>3. fiber'[f].pc = "asked" => Mode[fiber[f].rule] = "then"
    <3> SUFFICES ASSUME fiber'[f].pc = "asked"
                 PROVE  Mode[fiber[f].rule] = "then"
      OBVIOUS
    <3>1. fiber[f].pc = "asked" \/ AskTrigger(f)
      BY <2>0, PlacesBefore
    <3>2. CASE fiber[f].pc = "asked"
      BY <2>0, <3>2 DEF Recorded, Testing
    <3>3. CASE AskTrigger(f)
      BY <2>0, <3>3, PlacesOf
    <3> QED
      BY <3>1, <3>2, <3>3
  <2>4. ASSUME Mode[fiber[f].rule] # "then"
        PROVE  firing'[fiber[f].rule] = "EVALUATING"
    <3>1. CASE Begin(f)
      BY <2>0, <2>2, <3>1, BeginRecords
    <3>2. CASE ~Begin(f)
      <4>1. fiber[f].pc \in Testing /\ firing[fiber[f].rule] = "EVALUATING"
        BY <2>0, <2>1, <2>4, <3>2 DEF Recorded
      <4>2. firing'[fiber[f].rule] = firing[fiber[f].rule]
        <5> SUFFICES ASSUME firing'[fiber[f].rule] # firing[fiber[f].rule]
                     PROVE  FALSE
          OBVIOUS
        <5>1. PICK g \in FiberId : RecordedBy(g, fiber[f].rule)
          BY <1>0, <2>0, RecordsOf
        <5>2. g = f
          BY <2>0, <5>1, OneFiber DEF RecordedBy
        <5>3. CASE AskTrigger(f)
          BY <2>0, <2>4, <5>3, PlacesOf
        <5>4. CASE \E outcome \in BOOLEAN : Gate(f, outcome)
          BY <1>3, <2>0, <5>4, PlacesOf DEF Testing
        <5> QED
          BY <3>2, <5>1, <5>2, <5>3, <5>4 DEF RecordedBy
      <4> QED
        BY <4>1, <4>2
    <3> QED
      BY <3>1, <3>2
  <2> QED
    BY <2>0, <2>2, <2>3, <2>4
<1> QED
  BY <1>1, <1>2, <1>3 DEF Recorded

-----------------------------------------------------------------------------
(* The ladder.                                                             *)

(* The rule s has not fired in this think.  It may still be decided only   *)
(* if it waits for a trigger.                                              *)
Skipped(s) ==
    /\ s \notin fired
    /\ \A g \in RuleFibers : fiber[g].rule = s /\ fiber[g].pc \in Testing \cup {"start"} =>
          Mode[s] = "then" /\ fiber[g].pc # "start"

(* An `otherwise` rule has been armed, or has passed on that no rule above *)
(* it fired.                                                               *)
Passed(r) ==
    \/ r \in fired \/ firing[r] = "DID_NOT_FIRE"
    \/ \E f \in RuleFibers : fiber[f].rule = r /\ fiber[f].pc = "when"

Ladder ==
    \A r \in Rule : Mode[r] = "otherwise" /\ Reached(r) /\ Passed(r) =>
        \A s \in Chain[r] \ {r} : Skipped(s)

LadderInv == BrainInv /\ OrderInv /\ TurnInv /\ ThinkInv /\ Recorded /\ Ladder

(* A rule that was skipped does not fire later in the think: what could    *)
(* still fire is a root rule that has no slice left.                       *)
LEMMA SkippedStays ==
    ASSUME WaitingHeadsAreRoots, LadderInv, TypeOK', HistoryNext, phase # "idle",
           NEW r \in Rule, Reached(r), NEW s \in Chain[r], s # r, Skipped(s)
    PROVE  Skipped(s)'
<1> USE DEF LadderInv
<1>0. Next /\ ~\E p \in Page : Think(p)
  BY DEF HistoryNext, Think
<1>1. PICK t \in Chain[r] : Mode[t] = "otherwise" /\ PrecedingSibling[t] = s
  BY ChainBelow
<1>2. t \in begun /\ t \in Rule /\ s \in Rule /\ s # NoRule
  BY <1>1, ChainSelf, RuleProgramAssumption DEF Reached
<1>3. s \notin fired'
  <2> SUFFICES ASSUME s \in fired'
               PROVE  FALSE
    OBVIOUS
  <2>1. PICK f \in FiberId : Fires(f) /\ fiber[f].rule = s
    BY NewInThink DEF Skipped
  <2>2. f \in RuleFibers /\ f = running /\ fiber[f].pc \in {"when", "start"}
    BY <2>1, FiresOne
  <2>3. Mode[s] = "then"
    BY <2>1, <2>2 DEF Skipped, Testing
  <2>4. Parent[t] = NoRule
    BY <1>1, <1>2, <2>3 DEF WaitingHeadsAreRoots
  <2> QED
    BY <1>1, <1>2, <2>1, <2>2, <2>4 DEF ThinkInv, SliceSpent
<1>4. ASSUME NEW g \in RuleFibers', fiber'[g].rule = s, fiber'[g].pc \in Testing \cup {"start"}
      PROVE  Mode[s] = "then" /\ fiber'[g].pc # "start"
  <2>1. CASE Onward(g)
    <3>1. g \in RuleFibers /\ g \in FiberId /\ Turns(g) /\ fiber[g].rule = s
      BY <1>4, <2>1 DEF Onward, RuleFibers
    <3>2. fiber'[g].pc = "start" => fiber[g].pc = "start"
      BY <3>1, PlacesBefore
    <3>3. fiber[g].pc \in Testing \cup {"start"}
      BY <1>4, <3>1, PlacesBefore, PlacesOf
    <3> QED
      BY <3>1, <3>2, <3>3 DEF Skipped
  <2>2. CASE ~Onward(g)
    <3>1. PICK f \in FiberId : SpawnRule(f)
      BY <1>0, <2>2, StepsOnward
    <3>2. PICK c, k : SpawnsOne(f, c, k)
      BY <3>1, SpawnRuleOne
    <3>3. g = c
      <4> SUFFICES ASSUME g # c
                   PROVE  FALSE
        OBVIOUS
      <4>1. g # f
        BY <1>4, <3>2 DEF SpawnsOne, Testing
      <4>2. fiber'[g] = fiber[g] /\ state'[g] = state[g]
        BY <3>2, <4>1 DEF SpawnsOne, RuleFibers
      <4> QED
        BY <2>2, <4>2 DEF Onward, Turns, RuleFibers, Live
    <3>4. k = s
      BY <1>4, <3>2, <3>3 DEF SpawnsOne, Blank
    <3>5. PrecedingSibling[t] # k
      BY <1>2, <3>2, BegunSpawn
    <3> QED
      BY <1>1, <3>4, <3>5
  <2> QED
    BY <2>1, <2>2
<1> QED
  BY <1>3, <1>4 DEF Skipped

(* No rule of a chain begins once the chain is past its last rule.         *)
LEMMA ReachedBefore ==
    ASSUME LadderInv, TypeOK', HistoryNext, NEW r \in Rule, Mode[r] = "otherwise",
           Reached(r)', Passed(r)'
    PROVE  Reached(r) /\ phase # "idle"
<1> USE DEF LadderInv
<1>0. Next /\ r \in Chain[r] /\ Chain[r] \subseteq Rule
  BY ChainSelf DEF HistoryNext
<1>1. \A q \in Chain[r] : Mode[q] = "otherwise" => q \in begun'
  BY DEF Reached
<1>2. phase # "idle"
  BY <1>0, <1>1, NewInThink
<1>3. ASSUME NEW q \in Chain[r], Mode[q] = "otherwise", q \notin begun
      PROVE  FALSE
  <2>1. PICK f \in FiberId : Begin(f) /\ fiber[f].rule = q
    BY <1>1, <1>3, NewInThink
  <2>2. f \in RuleFibers /\ f = running /\ fiber[f].pc = "start" /\ q \in Rule
    BY <2>1, BeginsOne
  <2>3. CASE q = r
    <3>1. firing'[r] = "EVALUATING" /\ fiber'[f].pc = "arm"
      BY <1>3, <2>1, <2>3, BeginRecords, PlacesOf
    <3>2. r \notin fired'
      <4> SUFFICES ASSUME r \in fired'
                   PROVE  FALSE
        OBVIOUS
      <4>1. r \notin fired
        BY <2>1, <2>2, <2>3 DEF ThinkInv, OncePerThink
      <4>2. PICK g \in FiberId : Fires(g) /\ fiber[g].rule = r
        BY <4>1, NewInThink
      <4>3. g = f
        BY <2>2, <4>2, FiresOne
      <4> QED
        BY <2>2, <3>1, <4>2, <4>3, FiresOne
    <3>3. PICK g \in RuleFibers' : fiber'[g].rule = r /\ fiber'[g].pc = "when"
      BY <3>1, <3>2 DEF Passed
    <3>4. Onward(g)
      BY <1>0, <3>3, TestingFrom DEF Testing
    <3>5. g = f
      BY <2>1, <2>2, <2>3, <3>3, <3>4, OneFiber DEF Onward
    <3> QED
      BY <3>1, <3>3, <3>5
  <2>4. CASE q # r
    <3>1. PICK t \in Chain[r] : Mode[t] = "otherwise" /\ PrecedingSibling[t] = q
      BY <2>4, ChainBelow
    <3>2. t \in begun' /\ t \in Rule
      BY <1>0, <1>1, <3>1
    <3>3. CASE t \in begun
      BY <2>1, <2>2, <3>1, <3>3 DEF ThinkInv, BegunInOrder, AtStart
    <3>4. CASE t \notin begun
      <4>1. PICK g \in FiberId : Begin(g) /\ fiber[g].rule = t
        BY <3>2, <3>4, NewInThink
      <4>2. t = q
        BY <2>1, <2>2, <4>1, BeginsOne
      <4> QED
        BY <3>1, <3>2, <4>2, AboveOther
    <3> QED
      BY <3>3, <3>4
  <2> QED
    BY <2>3, <2>4
<1> QED
  BY <1>2, <1>3 DEF Reached

(* A rule whose record says that it did not fire was skipped, and so were  *)
(* the rules of its chain.                                                 *)
LEMMA SkippedAbove ==
    ASSUME LadderInv, NEW r \in Rule, Mode[r] = "otherwise", Reached(r),
           NEW s \in Rule, s = PrecedingSibling[r], firing[s] = "DID_NOT_FIRE"
    PROVE  \A q \in Chain[r] \ {r} : Skipped(q)
<1> USE DEF LadderInv
<1>1. Chain[r] = {r} \cup Chain[s] /\ r \in Chain[r]
  BY ChainStep, ChainSelf
<1>2. Skipped(s)
  <2>1. s \notin fired
    BY DEF Recorded
  <2>2. ASSUME NEW g \in RuleFibers, fiber[g].rule = s, fiber[g].pc \in Testing \cup {"start"}
        PROVE  Mode[s] = "then" /\ fiber[g].pc # "start"
    <3>1. fiber[g].pc # "start"
      BY <1>1, <2>2 DEF Reached, ThinkInv, BegunInOrder, AtStart, RuleFibers
    <3>2. Mode[s] = "then"
      BY <2>2, <3>1 DEF Recorded
    <3> QED
      BY <3>1, <3>2
  <2> QED
    BY <2>1, <2>2 DEF Skipped
<1>3. ASSUME NEW q \in Chain[s], q # s
      PROVE  Skipped(q)
  <2>1. Mode[s] = "otherwise"
    BY <1>3, ChainHead
  <2>2. Reached(s) /\ Passed(s)
    BY <1>1 DEF Reached, Passed
  <2> QED
    BY <1>3, <2>1, <2>2 DEF Ladder
<1> QED
  BY <1>1, <1>2, <1>3

(* How an `otherwise` rule gets past the rules above it.                   *)
LEMMA PassesAfter ==
    ASSUME LadderInv, TypeOK', HistoryNext, NEW r \in Rule, Mode[r] = "otherwise",
           ~Passed(r), Passed(r)', phase # "idle"
    PROVE  PrecedingSibling[r] = NoRule \/ firing[PrecedingSibling[r]] = "DID_NOT_FIRE"
<1> USE DEF LadderInv
<1>0. Next
  BY DEF HistoryNext
<1>1. CASE r \in fired'
  <2>1. PICK f \in FiberId : Fires(f) /\ fiber[f].rule = r
    BY <1>1, NewInThink DEF Passed
  <2> QED
    BY <2>1, FiresOne DEF Passed
<1>2. CASE firing'[r] = "DID_NOT_FIRE"
  <2>1. PICK f \in FiberId : RecordedBy(f, r)
    BY <1>0, <1>2, RecordsOf DEF Passed
  <2>2. f \in RuleFibers /\ fiber[f].rule = r /\ ~AskTrigger(f)
    BY <2>1, PlacesOf DEF RecordedBy
  <2>3. PICK outcome \in BOOLEAN : Gate(f, outcome) /\ firing'[r] = Record(r, outcome)
    BY <1>2, <2>1, <2>2 DEF RecordedBy
  <2>4. ~outcome
    BY <1>2, <2>3 DEF Record
  <2> QED
    BY <1>2, <2>3, <2>4 DEF Record
<1>3. CASE \E f \in RuleFibers' : fiber'[f].rule = r /\ fiber'[f].pc = "when"
  <2>1. PICK f \in RuleFibers' : fiber'[f].rule = r /\ fiber'[f].pc = "when"
    BY <1>3
  <2>2. Onward(f) /\ f \in FiberId
    BY <1>0, <2>1, TestingFrom DEF Testing, RuleFibers
  <2>3. f \in RuleFibers /\ fiber[f].rule = r /\ Turns(f) /\ fiber[f].pc # "when"
    BY <2>1, <2>2 DEF Onward, Passed
  <2>4. fiber[f].pc # "asked"
    BY <2>3 DEF Recorded, Testing
  <2>5. ReadSubject(f)
    BY <2>1, <2>2, <2>3, <2>4, PlacesOf DEF Turns
  <2>6. Goto(f, IF PrecedingSibling[r] # NoRule /\ firing[PrecedingSibling[r]] = "DID_NOT_FIRE"
                  THEN "when" ELSE "unarmed")
    BY <2>3, <2>5 DEF ReadSubject
  <2>7. fiber'[f].pc = IF PrecedingSibling[r] # NoRule /\ firing[PrecedingSibling[r]] = "DID_NOT_FIRE"
                         THEN "when" ELSE "unarmed"
    BY <2>2, <2>6, GotoPlaces
  <2> QED
    BY <2>1, <2>7
<1> QED
  BY <1>1, <1>2, <1>3 DEF Passed

LEMMA LadderKept ==
    ASSUME WaitingHeadsAreRoots, LadderInv, TypeOK', HistoryNext
    PROVE  Ladder'
<1> USE DEF LadderInv
<1> SUFFICES ASSUME NEW r \in Rule, Mode[r] = "otherwise", Reached(r)', Passed(r)',
                    NEW s \in Chain[r], s # r
             PROVE  Skipped(s)'
  BY DEF Ladder
<1>1. Reached(r) /\ phase # "idle"
  BY ReachedBefore
<1>2. Skipped(s)
  <2>1. CASE Passed(r)
    BY <1>1, <2>1 DEF Ladder
  <2>2. CASE ~Passed(r)
    <3>1. PrecedingSibling[r] # NoRule
      BY ChainHead
    <3>2. PrecedingSibling[r] \in Rule /\ firing[PrecedingSibling[r]] = "DID_NOT_FIRE"
      BY <1>1, <2>2, <3>1, PassesAfter, AboveType
    <3> QED
      BY <1>1, <3>2, SkippedAbove
  <2> QED
    BY <2>1, <2>2
<1> QED
  BY <1>1, <1>2, SkippedStays

LEMMA LadderSound ==
    ASSUME LadderInv
    PROVE  OneBranchFires
<1> USE DEF LadderInv
<1> SUFFICES ASSUME NEW r \in fired, Reached(r)
             PROVE  Chain[r] \cap fired = {r}
  BY DEF OneBranchFires
<1>1. r \in Rule /\ r \in Chain[r]
  BY ChainSelf DEF ThinkInv, OncePerThink
<1>2. CASE Mode[r] # "otherwise"
  BY <1>1, <1>2, ChainHead
<1>3. CASE Mode[r] = "otherwise"
  <2>1. \A s \in Chain[r] \ {r} : s \notin fired
    BY <1>1, <1>3 DEF Ladder, Passed, Skipped
  <2> QED
    BY <1>1, <2>1
<1> QED
  BY <1>2, <1>3

-----------------------------------------------------------------------------
(* The invariant of the ladder holds.                                      *)

LEMMA LadderInit ==
    ASSUME HistoryInit
    PROVE  LadderInv
<1>1. Init /\ begun = {} /\ fired = {}
  BY DEF HistoryInit
<1>2. BrainInv /\ OrderInv /\ TurnInv
  BY <1>1, InitInv, InitOrdered, InitTurns
<1>3. ThinkInv
  BY <1>1 DEF ThinkInv, OncePerThink, Untouched, BegunInOrder, SliceSpent
<1>4. Recorded
  <2>1. \A f \in RuleFibers : fiber[f].pc \notin Testing
    <3>1. \A f \in FiberId : fiber[f].pc = "start"
      <4> PICK rs : rs = FirstRules
        OBVIOUS
      <4> PICK fs : fs = CHOOSE s \in Lists(Len(rs), FiberId) : TRUE
        OBVIOUS
      <4>1. FirstFibers(rs, fs)
        BY <1>1, FirstFibersAre
      <4> TAKE f \in FiberId
      <4>2. CASE \E i \in DOMAIN rs : f = fs[i]
        <5>1. PICK i \in DOMAIN rs : f = fs[i]
          BY <4>2
        <5>2. fiber[f] = [Blank EXCEPT !.rule = rs[i]]
          BY <4>1, <5>1 DEF FirstFibers
        <5> QED
          BY <5>2 DEF Blank
      <4>3. CASE fiber[f] = Blank
        BY <4>3 DEF Blank
      <4> QED
        BY <4>1, <4>2, <4>3 DEF FirstFibers
    <3> QED
      BY <3>1 DEF Testing, RuleFibers
  <2>2. \A r \in Rule : firing[r] = "INITIAL"
    BY <1>1 DEF Init
  <2> QED
    BY <1>1, <2>1, <2>2 DEF Recorded
<1>5. Ladder
  <2> SUFFICES ASSUME NEW r \in Rule, Mode[r] = "otherwise", Reached(r)
               PROVE  FALSE
    BY DEF Ladder
  <2> QED
    BY <1>1, ChainSelf DEF Reached
<1> QED
  BY <1>2, <1>3, <1>4, <1>5 DEF LadderInv

LEMMA LadderStep ==
    ASSUME WaitingHeadsAreRoots, LadderInv, [HistoryNext]_<<vars, historyVars>>
    PROVE  LadderInv'
<1>1. CASE HistoryNext
  <2>1. Next
    BY <1>1 DEF HistoryNext
  <2>2. BrainInv' /\ OrderInv' /\ TurnInv' /\ TypeOK'
    <3>1. BrainInv' /\ OrderInv' /\ TurnInv'
      BY <2>1, BrainStep, OrderStep, TurnStep DEF LadderInv
    <3> QED
      BY <3>1 DEF BrainInv
  <2>3. ThinkInv'
    BY <1>1, <2>2, OnceStep, BegunStep, SpentStep DEF LadderInv, ThinkInv
  <2>4. Recorded'
    BY <1>1, <2>2, RecordedStep DEF LadderInv, ThinkInv
  <2>5. Ladder'
    BY <1>1, <2>2, LadderKept
  <2> QED
    BY <2>2, <2>3, <2>4, <2>5 DEF LadderInv
<1>2. CASE UNCHANGED <<vars, historyVars>>
  <2>1. UNCHANGED vars /\ begun' = begun /\ fired' = fired
    BY <1>2 DEF historyVars
  <2>2. BrainInv' /\ OrderInv' /\ TurnInv'
    BY <2>1, BrainStep, OrderStep, TurnStep DEF LadderInv
  <2>3. /\ fiber' = fiber /\ state' = state /\ firing' = firing /\ running' = running
        /\ round' = round /\ runQueue' = runQueue
    BY <2>1 DEF vars, queueVars, ruleVars
  <2>4. RuleFibers' = RuleFibers /\ \A f : AtStart(f)' <=> AtStart(f)
    BY <2>3 DEF RuleFibers, Live, AtStart
  <2>5. ThinkInv'
    BY <2>1, <2>3, <2>4 DEF LadderInv, ThinkInv, OncePerThink, Untouched, BegunInOrder,
                            SliceSpent, InRound
  <2>6. Recorded'
    BY <2>1, <2>3, <2>4 DEF LadderInv, Recorded
  <2>7. Ladder'
    BY <2>1, <2>3, <2>4 DEF LadderInv, Ladder, Reached, Passed, Skipped
  <2> QED
    BY <2>2, <2>5, <2>6, <2>7 DEF LadderInv
<1> QED
  BY <1>1, <1>2

(* No two rules of an otherwise-chain fire in one think, in every rule     *)
(* program in which no chain of child rules has a `then` rule at its head: *)
(* an `otherwise` rule fires only when the rules above it were all decided *)
(* against in this think, or wait for a trigger and have no slice left in  *)
(* it.                                                                     *)
THEOREM OneBranchPerThink ==
    ASSUME WaitingHeadsAreRoots
    PROVE  HistorySpec => []OneBranchFires
<1>1. HistoryInit => LadderInv
  BY LadderInit
<1>2. LadderInv /\ [HistoryNext]_<<vars, historyVars>> => LadderInv'
  BY LadderStep
<1>3. LadderInv => OneBranchFires
  BY LadderSound
<1> QED
  BY <1>1, <1>2, <1>3, PTL DEF HistorySpec
=============================================================================
