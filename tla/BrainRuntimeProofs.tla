-------------------------- MODULE BrainRuntimeProofs --------------------------
(***************************************************************************)
(* Invariants of the brain runtime, for every rule program and every set   *)
(* of fibers.                                                              *)
(***************************************************************************)
EXTENDS BrainRuntime, FiniteSetTheorems, TLAPS

(* An enumeration of a finite set lists each of its elements once.         *)
LEMMA SeqsCover ==
    ASSUME NEW C, IsFiniteSet(C), NEW s \in SetToSeqs(C)
    PROVE  /\ Cardinality(C) \in Nat
           /\ s \in [1 .. Cardinality(C) -> C]
           /\ s \in Seq(C)
           /\ ToSet(s) = C
           /\ \A i, j \in DOMAIN s : s[i] = s[j] => i = j
           /\ \A x \in C : \E i \in DOMAIN s : s[i] = x
<1> DEFINE D == 1 .. Cardinality(C)
<1>1. Cardinality(C) \in Nat
  BY FS_CardinalityType
<1>2. s \in [D -> C] /\ \A i, j \in D : s[i] = s[j] => i = j
  BY DEF SetToSeqs
<1>3. s \in Injection(D, C)
  BY <1>2 DEF Injection, IsInjective
<1>4. IsFiniteSet(D) /\ Cardinality(D) = Cardinality(C)
  BY <1>1, FS_Interval
<1>5. s \in Surjection(D, C)
  BY <1>3, <1>4, FS_Injection
<1>6. \A x \in C : \E i \in D : s[i] = x
  BY <1>5 DEF Surjection
<1>7. s \in Seq(C)
  BY <1>1, <1>2
<1>8. ToSet(s) = C
  BY <1>2, <1>6 DEF ToSet
<1> QED
  BY <1>1, <1>2, <1>6, <1>7, <1>8

(* The nesting of rules.                                                   *)

LEMMA WithinSelf ==
    ASSUME NEW r \in Rule
    PROVE  r \in Within[r] /\ Within[r] \subseteq Rule
BY DEF Within

LEMMA WithinParent ==
    ASSUME NEW r \in Rule, NEW a \in Within[r], Parent[a] # NoRule
    PROVE  Parent[a] \in Within[r]
BY RuleProgramAssumption DEF Within, Upward

LEMMA WithinLeast ==
    ASSUME NEW r \in Rule, NEW R \in SUBSET Rule, r \in R, Upward(R)
    PROVE  Within[r] \subseteq R
BY DEF Within

LEMMA WithinRoot ==
    ASSUME NEW r \in Rule, Parent[r] = NoRule
    PROVE  Within[r] = {r}
<1>1. Upward({r})
  BY DEF Upward
<1> QED
  BY <1>1, WithinSelf, WithinLeast

LEMMA WithinStep ==
    ASSUME NEW r \in Rule, Parent[r] # NoRule
    PROVE  Parent[r] \in Rule /\ Within[r] = {r} \cup Within[Parent[r]]
<1>1. Parent[r] \in Rule
  BY RuleProgramAssumption
<1>2. Within[r] \subseteq {r} \cup Within[Parent[r]]
  <2>1. Upward({r} \cup Within[Parent[r]])
    BY <1>1, WithinSelf, WithinParent DEF Upward
  <2>2. {r} \cup Within[Parent[r]] \in SUBSET Rule
    BY <1>1, WithinSelf
  <2> QED
    BY <2>1, <2>2, WithinLeast
<1>3. Within[Parent[r]] \subseteq Within[r]
  <2>1. Upward(Within[r])
    BY WithinParent DEF Upward
  <2>2. Parent[r] \in Within[r]
    BY WithinSelf, WithinParent
  <2> QED
    BY <1>1, <2>1, <2>2, WithinSelf, WithinLeast
<1> QED
  BY <1>1, <1>2, <1>3, WithinSelf

LEMMA WithinUp ==
    ASSUME NEW r \in Rule, NEW a \in Within[r]
    PROVE  a \in Rule /\ a <= r
<1> DEFINE R == {x \in Rule : x <= r}
<1>1. Upward(R)
  <2> SUFFICES ASSUME NEW x \in R, Parent[x] # NoRule
               PROVE  Parent[x] \in R
    BY DEF Upward
  <2>1. x \in Nat /\ r \in Nat /\ Parent[x] \in Rule /\ Parent[x] \in Nat
    BY RuleProgramAssumption
  <2>2. Parent[x] < x
    BY RuleProgramAssumption
  <2> QED
    BY <2>1, <2>2
<1>2. r \in R /\ R \in SUBSET Rule
  BY RuleProgramAssumption
<1> QED
  BY <1>1, <1>2, WithinLeast

(* A rule is nested in one root rule.                                      *)
LEMMA OneRoot ==
    ASSUME NEW r \in Rule, NEW a \in Within[r], Parent[a] = NoRule
    PROVE  RootOf[r] = a
<1> DEFINE R == {x \in Rule : a \in Within[x]}
<1>1. Upward(R)
  <2> SUFFICES ASSUME NEW x \in R, Parent[x] # NoRule
               PROVE  Parent[x] \in R
    BY DEF Upward
  <2>1. Within[x] = {x} \cup Within[Parent[x]] /\ Parent[x] \in Rule
    BY WithinStep
  <2> QED
    BY <2>1
<1>2. Within[r] \subseteq R
  BY <1>1, WithinLeast
<1>3. \A b \in Within[r] : Parent[b] = NoRule => b = a
  BY <1>2, WithinSelf, WithinRoot
<1> QED
  BY <1>3 DEF RootOf

LEMMA RootOfRoot ==
    ASSUME NEW r \in Rule, Parent[r] = NoRule
    PROVE  RootOf[r] = r
BY WithinSelf, OneRoot

LEMMA RootOfChild ==
    ASSUME NEW r \in Rule, Parent[r] # NoRule
    PROVE  RootOf[r] = RootOf[Parent[r]]
<1>1. Parent[r] \in Rule /\ \A a : a \in Within[r] /\ Parent[a] = NoRule
         <=> a \in Within[Parent[r]] /\ Parent[a] = NoRule
  BY WithinStep
<1> QED
  BY <1>1 DEF RootOf

(* The rule at the top of the rules that a rule is nested in.              *)
LEMMA RootOfWithin ==
    ASSUME NEW r \in Rule
    PROVE  RootOf[r] \in Within[r]
<1> DEFINE T == {Within[a] : a \in Within[r]}
<1>1. T \subseteq SUBSET Rule /\ T # {}
  BY WithinSelf
<1>2. IsWellFoundedOn(StrictSubsetOrdering(Rule), SUBSET Rule)
  <2>1. FiniteSubsetsOf(Rule) = SUBSET Rule
    BY FS_FiniteSubsetsOfFinite, RuleProgramAssumption
  <2> QED
    BY <2>1, FS_StrictSubsetOrderingWellFounded
<1>3. PICK x \in T : \A y \in T : <<y, x>> \notin StrictSubsetOrdering(Rule)
  <2> HIDE DEF T
  <2> QED
    BY <1>1, <1>2, WFMin
<1>4. PICK a \in Within[r] : x = Within[a]
  BY <1>3
<1>5. a \in Rule
  BY WithinSelf
<1>6. Parent[a] = NoRule
  <2> SUFFICES ASSUME Parent[a] # NoRule
               PROVE  FALSE
    OBVIOUS
  <2>1. Parent[a] \in Rule /\ Within[a] = {a} \cup Within[Parent[a]] /\ Parent[a] < a
    BY <1>5, WithinStep, RuleProgramAssumption
  <2>2. Parent[a] \in Within[r]
    BY <1>4, WithinParent
  <2>3. a \notin Within[Parent[a]]
    <3>1. a \in Nat /\ Parent[a] \in Nat
      BY <1>5, <2>1, RuleProgramAssumption
    <3>2. a \in Within[Parent[a]] => a <= Parent[a]
      BY <2>1, WithinUp
    <3> QED
      BY <2>1, <3>1, <3>2
  <2>4. Within[a] \in SUBSET Rule /\ Within[Parent[a]] \in SUBSET Rule
        /\ Within[Parent[a]] \subseteq Within[a] /\ Within[Parent[a]] # Within[a]
    BY <1>5, <2>1, <2>3, WithinSelf
  <2>5. <<Within[Parent[a]], Within[a]>> \in StrictSubsetOrdering(Rule)
    BY <2>4 DEF StrictSubsetOrdering
  <2> QED
    BY <1>3, <1>4, <2>2, <2>5
<1> QED
  BY <1>4, <1>6, OneRoot

(* Rules and pages.                                                        *)

LEMMA PageOfRoot ==
    ASSUME NEW p \in Page, NEW r \in ToSet(Pages[p])
    PROVE  r \in Rule /\ Parent[r] = NoRule /\ PageOf[r] = p
<1>1. r \in Rule /\ Parent[r] = NoRule
  BY RuleProgramAssumption DEF Page
<1>2. RootOf[r] = r
  BY <1>1, RootOfRoot
<1>3. \A q \in Page : r \in ToSet(Pages[q]) => q = p
  BY RuleProgramAssumption DEF Page
<1> QED
  BY <1>1, <1>2, <1>3 DEF PageOf

LEMMA RootPage ==
    ASSUME NEW r \in Rule, Parent[r] = NoRule
    PROVE  PageOf[r] \in Page /\ r \in ToSet(Pages[PageOf[r]])
<1>1. PICK p \in Page : r \in ToSet(Pages[p])
  BY RuleProgramAssumption DEF Page
<1> QED
  BY <1>1, PageOfRoot

LEMMA PageOfChild ==
    ASSUME NEW r \in Rule, Parent[r] # NoRule
    PROVE  PageOf[r] = PageOf[Parent[r]]
<1>1. Parent[r] \in Rule
  BY RuleProgramAssumption
<1> QED
  BY <1>1, RootOfChild DEF PageOf

LEMMA RootsAre == Roots = {r \in Rule : Parent[r] = NoRule}
BY RuleProgramAssumption DEF Roots, Page

LEMMA ChildRule ==
    ASSUME NEW r \in Rule, NEW n \in DOMAIN ChildRules[r]
    PROVE  ChildRules[r][n] \in Rule /\ Parent[ChildRules[r][n]] = r
<1> DEFINE C == {c \in Rule : Parent[c] = r}
<1>1. ChildRules[r] \in SetToSeqs(C)
  BY RuleProgramAssumption DEF InOrder
<1>2. IsFiniteSet(C)
  BY RuleProgramAssumption, FS_Subset
<1>3. ChildRules[r][n] \in C
  <2> HIDE DEF C
  <2> QED
    BY <1>1, <1>2, SeqsCover
<1> QED
  BY <1>3

LEMMA ChildRulesDistinct ==
    ASSUME NEW r \in Rule, NEW m \in DOMAIN ChildRules[r], NEW n \in DOMAIN ChildRules[r],
           ChildRules[r][m] = ChildRules[r][n]
    PROVE  m = n
BY RuleProgramAssumption DEF InOrder, SetToSeqs

LEMMA ChildRulesBounded ==
    ASSUME NEW r \in Rule
    PROVE  /\ ChildRules[r] \in Seq(Rule)
           /\ Len(ChildRules[r]) <= Cardinality(Rule)
           /\ Cardinality(Rule) \in Nat
           /\ DOMAIN ChildRules[r] = 1 .. Len(ChildRules[r])
<1> DEFINE C == {c \in Rule : Parent[c] = r}
<1>1. ChildRules[r] \in Seq(Rule)
  BY RuleProgramAssumption
<1>2. IsFiniteSet(Rule)
  BY RuleProgramAssumption
<1>3. C \subseteq Rule
  OBVIOUS
<1>4. /\ Cardinality(C) \in Nat /\ Cardinality(Rule) \in Nat
      /\ Cardinality(C) <= Cardinality(Rule)
  BY <1>2, <1>3, FS_Subset, FS_CardinalityType
<1>5. DOMAIN ChildRules[r] = 1 .. Cardinality(C)
  BY RuleProgramAssumption DEF InOrder, SetToSeqs
<1> QED
  BY <1>1, <1>4, <1>5

(* The rule above: in the same page or under the same parent, and above    *)
(* one rule only.                                                          *)

Level(r) == IF Parent[r] = NoRule THEN Pages[PageOf[r]] ELSE ChildRules[Parent[r]]

LEMMA LevelOf ==
    ASSUME NEW r \in Rule
    PROVE  /\ Level(r) \in Seq(Rule)
           /\ \E i \in DOMAIN Level(r) : Level(r)[i] = r
           /\ \A i, j \in DOMAIN Level(r) : Level(r)[i] = Level(r)[j] => i = j
           /\ \A i \in DOMAIN Level(r) : Level(r)[i] \in Rule /\ Level(Level(r)[i]) = Level(r)
<1>1. CASE Parent[r] = NoRule
  <2> DEFINE p == PageOf[r]
  <2>1. p \in Page /\ r \in ToSet(Pages[p])
    BY <1>1, RootPage
  <2>2. Pages[p] \in Seq(Rule) /\ Ascending(Pages[p])
    BY <2>1, RuleProgramAssumption DEF Page
  <2>3. \A i \in DOMAIN Pages[p] : Pages[p][i] \in ToSet(Pages[p])
    BY DEF ToSet
  <2>4. \A i \in DOMAIN Pages[p] : /\ Pages[p][i] \in Rule
                                   /\ Parent[Pages[p][i]] = NoRule
                                   /\ PageOf[Pages[p][i]] = p
    BY <2>1, <2>3, PageOfRoot
  <2>5. \A i, j \in DOMAIN Pages[p] : Pages[p][i] = Pages[p][j] => i = j
    <3> SUFFICES ASSUME NEW i \in DOMAIN Pages[p], NEW j \in DOMAIN Pages[p],
                        Pages[p][i] = Pages[p][j], i # j
                 PROVE  FALSE
      OBVIOUS
    <3>1. i \in Nat /\ j \in Nat
      BY <2>2
    <3>2. i < j \/ j < i
      BY <3>1
    <3>3. Pages[p][i] < Pages[p][j] \/ Pages[p][j] < Pages[p][i]
      BY <2>2, <3>2 DEF Ascending
    <3>4. Pages[p][i] \in Nat
      BY <2>4, RuleProgramAssumption
    <3> QED
      BY <3>3, <3>4
  <2>6. \E i \in DOMAIN Pages[p] : Pages[p][i] = r
    BY <2>1 DEF ToSet
  <2>7. Level(r) = Pages[p]
    BY <1>1 DEF Level
  <2>8. \A i \in DOMAIN Pages[p] : Level(Pages[p][i]) = Pages[p]
    BY <2>4 DEF Level
  <2> HIDE DEF p
  <2> QED
    BY <2>2, <2>4, <2>5, <2>6, <2>7, <2>8
<1>2. CASE Parent[r] # NoRule
  <2> DEFINE s == ChildRules[Parent[r]]
  <2>1. Parent[r] \in Rule
    BY <1>2, RuleProgramAssumption
  <2>2. s \in Seq(Rule)
    BY <2>1, RuleProgramAssumption
  <2>3. \A i \in DOMAIN s : s[i] \in Rule /\ Parent[s[i]] = Parent[r]
    BY <2>1, ChildRule
  <2>4. \A i, j \in DOMAIN s : s[i] = s[j] => i = j
    BY <2>1, ChildRulesDistinct
  <2>5. \E i \in DOMAIN s : s[i] = r
    <3> DEFINE C == {c \in Rule : Parent[c] = Parent[r]}
    <3>1. s \in SetToSeqs(C)
      BY <2>1, RuleProgramAssumption DEF InOrder
    <3>2. IsFiniteSet(C) /\ r \in C
      BY RuleProgramAssumption, FS_Subset
    <3> HIDE DEF C, s
    <3> QED
      BY <3>1, <3>2, SeqsCover
  <2>6. Level(r) = s
    BY <1>2 DEF Level
  <2>7. \A i \in DOMAIN s : Level(s[i]) = s
    BY <1>2, <2>3 DEF Level
  <2> HIDE DEF s
  <2> QED
    BY <2>2, <2>3, <2>4, <2>5, <2>6, <2>7
<1> QED
  BY <1>1, <1>2

LEMMA AboveIs ==
    ASSUME NEW r \in Rule
    PROVE  \E i \in DOMAIN Level(r) :
              /\ Level(r)[i] = r
              /\ PrecedingSibling[r] = IF i = 1 THEN NoRule ELSE Level(r)[i - 1]
<1> DEFINE i == CHOOSE j \in DOMAIN Level(r) : Level(r)[j] = r
<1>1. i \in DOMAIN Level(r) /\ Level(r)[i] = r
  BY LevelOf
<1>2. PrecedingSibling[r] = IF i = 1 THEN NoRule ELSE Level(r)[i - 1]
  BY DEF PrecedingSibling, Level
<1> QED
  BY <1>1, <1>2

LEMMA AboveType ==
    ASSUME NEW r \in Rule
    PROVE  PrecedingSibling[r] \in Rule \cup {NoRule}
<1>1. PICK i \in DOMAIN Level(r) :
         PrecedingSibling[r] = IF i = 1 THEN NoRule ELSE Level(r)[i - 1]
  BY AboveIs
<1>2. Level(r) \in Seq(Rule)
  BY LevelOf
<1> QED
  BY <1>1, <1>2

LEMMA OneBelow ==
    ASSUME NEW r \in Rule, NEW q \in Rule,
           PrecedingSibling[r] = PrecedingSibling[q], PrecedingSibling[r] # NoRule
    PROVE  r = q
<1>1. PICK i \in DOMAIN Level(r) :
         /\ Level(r)[i] = r
         /\ PrecedingSibling[r] = IF i = 1 THEN NoRule ELSE Level(r)[i - 1]
  BY AboveIs
<1>2. PICK j \in DOMAIN Level(q) :
         /\ Level(q)[j] = q
         /\ PrecedingSibling[q] = IF j = 1 THEN NoRule ELSE Level(q)[j - 1]
  BY AboveIs
<1> DEFINE above == PrecedingSibling[r]
<1>3. /\ Level(r) \in Seq(Rule) /\ Level(q) \in Seq(Rule)
      /\ \A m \in DOMAIN Level(r) : Level(Level(r)[m]) = Level(r)
      /\ \A m \in DOMAIN Level(q) : Level(Level(q)[m]) = Level(q)
      /\ \A m, n \in DOMAIN Level(r) : Level(r)[m] = Level(r)[n] => m = n
  BY LevelOf
<1>4. i # 1 /\ j # 1 /\ above = Level(r)[i - 1] /\ above = Level(q)[j - 1]
  BY <1>1, <1>2
<1>5. i - 1 \in DOMAIN Level(r) /\ j - 1 \in DOMAIN Level(q)
  <2>1. DOMAIN Level(r) = 1 .. Len(Level(r)) /\ DOMAIN Level(q) = 1 .. Len(Level(q))
    BY <1>3
  <2>2. Len(Level(r)) \in Nat /\ Len(Level(q)) \in Nat
    BY <1>3
  <2> QED
    BY <1>4, <2>1, <2>2
<1>6. Level(r) = Level(q)
  <2>1. Level(above) = Level(r)
    BY <1>3, <1>4, <1>5
  <2>2. Level(above) = Level(q)
    BY <1>3, <1>4, <1>5
  <2> QED
    BY <2>1, <2>2
<1>7. i - 1 = j - 1
  BY <1>3, <1>4, <1>5, <1>6
<1>8. i \in Nat /\ j \in Nat
  BY <1>3
<1>9. i = j
  BY <1>7, <1>8
<1> QED
  BY <1>1, <1>2, <1>6, <1>9

-----------------------------------------------------------------------------
(* The inductive invariant.  A fiber that is over has nothing left, an     *)
(* action fiber runs for a rule fiber, and the fiber a watcher slot names  *)
(* asks about the rule of the slot.                                        *)

Settled ==
    \A f \in FiberId : IF Live(f) THEN fiber[f].rule \in Rule ELSE fiber[f] = Blank

Called ==
    \A f \in FiberId : fiber[f].caller # NoFiber =>
        fiber[f].pc = "action" /\ fiber[f].caller \in RuleFibers

Asks(f, r) ==
    /\ Live(f) /\ fiber[f].pc = "asked" /\ fiber[f].trigger = "pending"
    /\ PrecedingSibling[fiber[f].rule] = r

Watched ==
    /\ \A r \in Rule : watcher[r] \in FiberId => Asks(watcher[r], r)
    /\ \A f \in FiberId : fiber[f].trigger = "pending" => \E r \in Rule : watcher[r] = f

(* Of the child rules that a rule fiber has still to spawn nothing is in   *)
(* flight.                                                                 *)
Unspawned ==
    \A f, g \in RuleFibers :
        \A n \in DOMAIN ChildRules[fiber[f].rule] :
            n > fiber[f].kids => ChildRules[fiber[f].rule][n] \notin Within[fiber[g].rule]

BrainInv ==
    /\ TypeOK /\ Settled /\ Called /\ Watched /\ Unspawned
    /\ OneFiringInFlight /\ TriggerWillBeAnswered

-----------------------------------------------------------------------------
(* Types.                                                                  *)

LEMMA BlankType == Blank \in Fiber
<1>1. Cardinality(Rule) \in Nat
  BY RuleProgramAssumption, FS_CardinalityType
<1> QED
  BY <1>1 DEF Blank, Fiber

LEMMA StartedType ==
    ASSUME NEW r \in Rule
    PROVE  Blank \in Fiber /\ [Blank EXCEPT !.rule = r] \in Fiber
<1>1. Cardinality(Rule) \in Nat
  BY RuleProgramAssumption, FS_CardinalityType
<1> QED
  BY <1>1 DEF Blank, Fiber

LEMMA FreshAre ==
    ASSUME NEW n \in Nat, HasFresh(n)
    PROVE  /\ FreshFibers(n) \in [1 .. n -> Unused]
           /\ FreshFibers(n) \in Seq(FiberId)
           /\ DOMAIN FreshFibers(n) = 1 .. n
           /\ Len(FreshFibers(n)) = n
           /\ \A i, j \in 1 .. n : FreshFibers(n)[i] = FreshFibers(n)[j] => i = j
<1> PICK fs : fs = FreshFibers(n)
  OBVIOUS
<1>1. fs \in Lists(n, Unused)
  BY DEF HasFresh, FreshFibers
<1>2. fs \in [1 .. n -> Unused] /\ \A i, j \in 1 .. n : fs[i] = fs[j] => i = j
  BY <1>1 DEF Lists, Injection, IsInjective
<1>3. fs \in Seq(FiberId) /\ Len(fs) = n /\ DOMAIN fs = 1 .. n
  BY <1>2 DEF Unused
<1> QED
  BY <1>2, <1>3

(* The instructions that change nothing but the running fiber's own        *)
(* record, the firing records and the slots.                               *)
LEMMA ContinuesType ==
    ASSUME TypeOK, Continues, fiber' \in [FiberId -> Fiber],
           firing' \in [Rule -> {"INITIAL", "EVALUATING", "DID_FIRE", "DID_NOT_FIRE"}],
           watcher' \in [Rule -> FiberId \cup {NoFiber, Stale}]
    PROVE  TypeOK'
BY DEF TypeOK, QueueTypeOK, Continues, queueVars, pageVars

LEMMA GotoType ==
    ASSUME TypeOK, NEW f \in FiberId,
           NEW at \in {"start", "arm", "asked", "when", "unarmed", "do", "spawn", "return", "action"},
           Goto(f, at)
    PROVE  fiber' \in [FiberId -> Fiber]
BY DEF TypeOK, Goto, Fiber

LEMMA BeginType ==
    ASSUME BrainInv, NEW f \in FiberId, Begin(f)
    PROVE  TypeOK'
<1> USE DEF BrainInv
<1>1. fiber' \in [FiberId -> Fiber]
  BY GotoType DEF Begin
<1>2. fiber[f].rule \in Rule
  BY DEF Begin, Executing, Settled, Live, Alive
<1>3. firing' \in [Rule -> {"INITIAL", "EVALUATING", "DID_FIRE", "DID_NOT_FIRE"}]
  BY <1>2 DEF Begin, TypeOK
<1> QED
  BY <1>1, <1>3, ContinuesType DEF Begin, TypeOK

LEMMA ReadSubjectType ==
    ASSUME BrainInv, NEW f \in FiberId, ReadSubject(f)
    PROVE  TypeOK'
<1> USE DEF BrainInv
<1>1. fiber' \in [FiberId -> Fiber]
  BY GotoType DEF ReadSubject
<1> QED
  BY <1>1, ContinuesType DEF ReadSubject, TypeOK

LEMMA AskTriggerType ==
    ASSUME BrainInv, NEW f \in FiberId, AskTrigger(f)
    PROVE  TypeOK'
<1> USE DEF BrainInv
<1>1. fiber[f].rule \in Rule
  BY DEF AskTrigger, Executing, Settled, Live, Alive
<1>2. fiber' \in [FiberId -> Fiber]
  <2>1. PICK t \in {"pending", "true", "false"} :
           fiber' = [fiber EXCEPT ![f].pc = "asked", ![f].trigger = t]
    BY DEF AskTrigger
  <2> QED
    <3>1. fiber' = [fiber EXCEPT ![f] = [fiber[f] EXCEPT !.pc = "asked", !.trigger = t]]
      BY <2>1 DEF TypeOK
    <3>2. fiber[f] \in Fiber
      BY DEF TypeOK
    <3>3. \A x \in Fiber : [x EXCEPT !.pc = "asked", !.trigger = t] \in Fiber
      <4>1. \A x \in Fiber : [x EXCEPT !.pc = "asked"] \in Fiber
        BY DEF Fiber
      <4>2. \A x \in Fiber : [x EXCEPT !.trigger = t] \in Fiber
        BY DEF Fiber
      <4>3. \A x \in Fiber : [x EXCEPT !.pc = "asked", !.trigger = t]
                             = [[x EXCEPT !.pc = "asked"] EXCEPT !.trigger = t]
        OBVIOUS
      <4> QED
        BY <4>1, <4>2, <4>3
    <3> QED
      BY <3>1, <3>2, <3>3 DEF TypeOK
<1>3. firing' \in [Rule -> {"INITIAL", "EVALUATING", "DID_FIRE", "DID_NOT_FIRE"}]
  BY <1>1 DEF AskTrigger, TypeOK
<1>4. watcher' \in [Rule -> FiberId \cup {NoFiber, Stale}]
  BY <1>1, AboveType DEF AskTrigger, TypeOK
<1> QED
  BY <1>2, <1>3, <1>4, ContinuesType DEF AskTrigger

LEMMA AwaitAnswerType ==
    ASSUME BrainInv, NEW f \in FiberId, AwaitAnswer(f)
    PROVE  TypeOK'
<1> USE DEF BrainInv
<1>1. fiber' \in [FiberId -> Fiber]
  BY DEF AwaitAnswer, TypeOK, Fiber
<1> QED
  BY <1>1, ContinuesType DEF AwaitAnswer, TypeOK

LEMMA GateType ==
    ASSUME BrainInv, NEW f \in FiberId, NEW fired \in BOOLEAN, Gate(f, fired)
    PROVE  TypeOK'
<1> USE DEF BrainInv
<1>1. fiber' \in [FiberId -> Fiber]
  BY GotoType DEF Gate
<1>2. fiber[f].rule \in Rule
  BY DEF Gate, Executing, Settled, Live, Alive
<1>3. Record(fiber[f].rule, fired) \in {"INITIAL", "EVALUATING", "DID_FIRE", "DID_NOT_FIRE"}
  BY <1>2, AboveType DEF Record, TypeOK
<1>4. firing' \in [Rule -> {"INITIAL", "EVALUATING", "DID_FIRE", "DID_NOT_FIRE"}]
  BY <1>2, <1>3 DEF Gate, TypeOK
<1> QED
  BY <1>1, <1>4, ContinuesType DEF Gate, TypeOK

(* The ends of a slice, and what the host and the loop of a tick do.       *)

LEMMA EndSliceType ==
    ASSUME TypeOK, EndSlice
    PROVE  /\ running' \in FiberId \cup {NoFiber} /\ phase' \in {"idle", "tick"}
           /\ cascade' \in Seq(FiberId) /\ spawned' \in Seq(FiberId)
           /\ round' = round
BY DEF TypeOK, QueueTypeOK, EndSlice

LEMMA AddedType ==
    ASSUME TypeOK, NEW f \in FiberId, Enqueue(f)
    PROVE  runQueue' \in Seq(FiberId) /\ Len(runQueue') >= Len(runQueue)
BY DEF TypeOK, QueueTypeOK, Enqueue

(* A step after which the run queue has not become shorter.                *)
LEMMA SliceType ==
    ASSUME TypeOK, EndSlice, state' \in [FiberId -> FiberState],
           runQueue' \in Seq(FiberId), Len(runQueue') >= Len(runQueue)
    PROVE  QueueTypeOK'
<1>1. round \in 0 .. Len(runQueue) /\ Len(runQueue) \in Nat /\ Len(runQueue') \in Nat
  BY DEF TypeOK, QueueTypeOK
<1>2. round' \in 0 .. Len(runQueue')
  BY <1>1, EndSliceType
<1> QED
  BY <1>2, EndSliceType DEF QueueTypeOK

LEMMA AwaitTriggerType ==
    ASSUME BrainInv, NEW f \in FiberId, AwaitTrigger(f)
    PROVE  TypeOK'
<1> USE DEF BrainInv
<1>1. state' \in [FiberId -> FiberState] /\ runQueue' = runQueue /\ runQueue \in Seq(FiberId)
  BY DEF AwaitTrigger, TypeOK, QueueTypeOK, FiberState, Alive
<1>2. QueueTypeOK'
  BY <1>1, SliceType DEF AwaitTrigger
<1>3. fiber' \in [FiberId -> Fiber]
  BY DEF AwaitTrigger, TypeOK, Fiber
<1> QED
  BY <1>2, <1>3 DEF AwaitTrigger, TypeOK, ruleVars, pageVars

LEMMA AwaitHostType ==
    ASSUME BrainInv, NEW f \in FiberId, AwaitHost(f)
    PROVE  TypeOK'
<1> USE DEF BrainInv
<1>1. state' \in [FiberId -> FiberState] /\ runQueue' = runQueue /\ runQueue \in Seq(FiberId)
  BY DEF AwaitHost, TypeOK, QueueTypeOK, FiberState, Alive
<1>2. QueueTypeOK'
  BY <1>1, SliceType DEF AwaitHost
<1>3. fiber' \in [FiberId -> Fiber]
  BY DEF AwaitHost, TypeOK, Fiber
<1> QED
  BY <1>2, <1>3 DEF AwaitHost, TypeOK, ruleVars, pageVars

LEMMA YieldType ==
    ASSUME BrainInv, NEW f \in FiberId, Yield(f)
    PROVE  TypeOK'
<1> USE DEF BrainInv
<1>1. state' \in [FiberId -> FiberState]
  BY DEF Yield, TypeOK, QueueTypeOK
<1>2. QueueTypeOK'
  BY <1>1, SliceType, AddedType DEF Yield
<1> QED
  BY <1>2 DEF Yield, TypeOK, ruleVars, pageVars

LEMMA LeaveCancelledType ==
    ASSUME BrainInv, NEW f \in FiberId, LeaveCancelled(f)
    PROVE  TypeOK'
<1> USE DEF BrainInv
<1>1. state' \in [FiberId -> FiberState] /\ runQueue' = runQueue /\ runQueue \in Seq(FiberId)
  BY DEF LeaveCancelled, TypeOK, QueueTypeOK, FiberState
<1>2. QueueTypeOK'
  BY <1>1, SliceType DEF LeaveCancelled
<1> QED
  BY <1>2 DEF LeaveCancelled, TypeOK, ruleVars, pageVars

LEMMA ErrorEscapesType ==
    ASSUME BrainInv, NEW f \in FiberId, ErrorEscapes(f)
    PROVE  TypeOK'
<1> USE DEF BrainInv
<1>1. QueueTypeOK'
  BY DEF ErrorEscapes, AbandonTick, TypeOK, QueueTypeOK
<1> QED
  BY <1>1 DEF ErrorEscapes, TypeOK, ruleVars, pageVars

LEMMA HostSettleType ==
    ASSUME BrainInv, NEW f \in FiberId, HostSettle(f)
    PROVE  TypeOK'
<1> USE DEF BrainInv
<1>1. state' \in [FiberId -> FiberState]
  BY DEF HostSettle, TypeOK, QueueTypeOK, FiberState, Alive
<1>2. runQueue' \in Seq(FiberId) /\ round' \in 0 .. Len(runQueue')
  <2>1. runQueue' \in Seq(FiberId) /\ Len(runQueue') >= Len(runQueue)
    BY AddedType DEF HostSettle
  <2>2. round \in 0 .. Len(runQueue) /\ round' = round
    BY DEF HostSettle, TypeOK, QueueTypeOK
  <2>3. Len(runQueue) \in Nat /\ Len(runQueue') \in Nat
    BY <2>1 DEF TypeOK, QueueTypeOK
  <2> QED
    BY <2>1, <2>2, <2>3
<1>3. QueueTypeOK'
  BY <1>1, <1>2 DEF HostSettle, TypeOK, QueueTypeOK
<1>4. fiber' \in [FiberId -> Fiber]
  BY DEF HostSettle, TypeOK, Fiber
<1> QED
  BY <1>3, <1>4 DEF HostSettle, TypeOK, ruleVars, pageVars

LEMMA RunNextType ==
    ASSUME BrainInv, RunNext
    PROVE  TypeOK'
<1> USE DEF BrainInv
<1>1. CASE NextInRound
  <2>1. /\ round \in Nat /\ round > 0 /\ round <= Len(runQueue) /\ Len(runQueue) \in Nat
        /\ runQueue \in Seq(FiberId) /\ runQueue # << >>
    BY <1>1 DEF NextInRound, TypeOK, QueueTypeOK
  <2>2. /\ Tail(runQueue) \in Seq(FiberId) /\ Len(Tail(runQueue)) = Len(runQueue) - 1
        /\ Head(runQueue) \in FiberId
    BY <2>1
  <2>3. round' \in 0 .. Len(runQueue') /\ runQueue' \in Seq(FiberId)
    BY <1>1, <2>1, <2>2 DEF NextInRound
  <2>4. running' \in FiberId \cup {NoFiber}
    BY <1>1, <2>2 DEF NextInRound
  <2> QED
    BY <1>1, <2>3, <2>4 DEF NextInRound, RunNext, TypeOK, QueueTypeOK, ruleVars, pageVars
<1>2. CASE NextInCascade
  <2>1. cascade \in Seq(FiberId) /\ cascade # << >>
    BY <1>2 DEF NextInCascade, TypeOK, QueueTypeOK
  <2>2. Tail(cascade) \in Seq(FiberId) /\ Head(cascade) \in FiberId
    BY <2>1
  <2>3. cascade' \in Seq(FiberId) /\ running' \in FiberId \cup {NoFiber}
    BY <1>2, <2>2 DEF NextInCascade
  <2> QED
    BY <1>2, <2>3 DEF NextInCascade, RunNext, TypeOK, QueueTypeOK, ruleVars, pageVars
<1> QED
  BY <1>1, <1>2 DEF RunNext

LEMMA EndThinkType ==
    ASSUME BrainInv, EndThink
    PROVE  TypeOK'
<1> USE DEF BrainInv
<1>1. \A f \in FiberId : fiber'[f] \in Fiber
  BY DEF EndThink, TypeOK, Fiber
<1>2. fiber' \in [FiberId -> Fiber]
  BY <1>1 DEF EndThink
<1> QED
  BY <1>2 DEF EndThink, TypeOK, QueueTypeOK, ruleVars, pageVars

(* The errors of the brain change neither a fiber nor a queue.             *)
Throws == LeaveThrows \/ EnterThrows \/ ThinkThrows

LEMMA ThrowsAre ==
    ASSUME Throws
    PROVE  /\ UNCHANGED <<state, runQueue, spawned, cascade, round, running, fiber, ruleVars>>
           /\ UNCHANGED <<active, current, desired>>
           /\ phase' = phase \/ (RoundOver /\ phase' = "idle")
           /\ entering' = entering \/ entering' = FALSE
           /\ threw' \in {threw, threw \cup {"entry"}, threw \cup {"exit"}}
BY DEF Throws, LeaveThrows, EnterThrows, ThinkThrows, queueVars, pageVars

LEMMA ThrowsType ==
    ASSUME BrainInv, Throws
    PROVE  TypeOK'
<1>1. /\ UNCHANGED <<state, runQueue, spawned, cascade, round, running, fiber, ruleVars>>
      /\ UNCHANGED <<active, current, desired>>
      /\ phase' = phase \/ phase' = "idle"
      /\ entering' = entering \/ entering' = FALSE
      /\ threw' \in {threw, threw \cup {"entry"}, threw \cup {"exit"}}
  BY ThrowsAre
<1> QED
  BY <1>1 DEF BrainInv, TypeOK, QueueTypeOK, ruleVars

LEMMA CallActionType ==
    ASSUME BrainInv, NEW f \in FiberId, CallAction(f)
    PROVE  TypeOK'
<1> USE DEF BrainInv
<1> PICK g : g = FreshFibers(1)[1]
  OBVIOUS
<1>1. g \in Unused /\ g \in FiberId
  BY FreshAre DEF CallAction, Unused
<1>2. f # g
  BY <1>1 DEF CallAction, Executing, Unused
<1>3. state' = [state EXCEPT ![f] = "WAITING", ![g] = "RUNNABLE"]
  BY DEF CallAction
<1>4. state' \in [FiberId -> FiberState]
  BY <1>3 DEF TypeOK, QueueTypeOK, FiberState, Alive
<1>5. runQueue' \in Seq(FiberId) /\ Len(runQueue') >= Len(runQueue)
  BY <1>1, AddedType DEF CallAction
<1>6. QueueTypeOK'
  BY <1>4, <1>5, SliceType DEF CallAction
<1>7. fiber[f].rule \in Rule
  BY DEF CallAction, Executing, Settled, Live, Alive
<1>8. [fiber[f] EXCEPT !.waits = "action"] \in Fiber
  BY DEF TypeOK, Fiber
<1>9. [Blank EXCEPT !.rule = fiber[f].rule, !.pc = "action", !.caller = f] \in Fiber
  BY <1>7, StartedType DEF Blank, Fiber
<1>10. fiber' = [fiber EXCEPT ![f].waits = "action",
            ![g] = [Blank EXCEPT !.rule = fiber[f].rule, !.pc = "action", !.caller = f]]
  BY DEF CallAction
<1>11. fiber' \in [FiberId -> Fiber]
  BY <1>2, <1>8, <1>9, <1>10 DEF TypeOK
<1> QED
  BY <1>6, <1>11 DEF CallAction, TypeOK, ruleVars, pageVars

(* What SPAWN_RULE spawns: the next of the child rules.                    *)
LEMMA Spawns ==
    ASSUME BrainInv, NEW f \in FiberId, SpawnRule(f)
    PROVE  LET r == fiber[f].rule
               n == fiber[f].kids + 1
               c == FreshFibers(1)[1]
           IN  /\ r \in Rule /\ n \in DOMAIN ChildRules[r] /\ fiber[f].kids \in Nat
               /\ n \in 0 .. Cardinality(Rule)
               /\ ChildRules[r][n] \in Rule /\ Parent[ChildRules[r][n]] = r
               /\ c \in Unused /\ c \in FiberId /\ f # c /\ ~Live(c)
               /\ Live(f) /\ fiber[f].pc # "action"
<1> USE DEF BrainInv
<1> DEFINE r == fiber[f].rule
           n == fiber[f].kids + 1
           c == FreshFibers(1)[1]
<1>1. r \in Rule /\ Live(f) /\ fiber[f].pc # "action"
  BY DEF SpawnRule, Executing, Settled, Live, Alive
<1>2. fiber[f].kids \in Nat
  <2>1. fiber[f] \in Fiber
    BY DEF TypeOK
  <2> QED
    BY <2>1, RuleProgramAssumption, FS_CardinalityType DEF Fiber
<1>3. n <= Len(ChildRules[r])
  BY DEF SpawnRule
<1>4. n \in DOMAIN ChildRules[r] /\ n \in 0 .. Cardinality(Rule)
  <2>1. /\ ChildRules[r] \in Seq(Rule) /\ Cardinality(Rule) \in Nat
        /\ Len(ChildRules[r]) <= Cardinality(Rule)
        /\ DOMAIN ChildRules[r] = 1 .. Len(ChildRules[r])
    BY <1>1, ChildRulesBounded
  <2>2. Len(ChildRules[r]) \in Nat
    BY <2>1
  <2> QED
    BY <1>2, <1>3, <2>1, <2>2
<1>5. ChildRules[r][n] \in Rule /\ Parent[ChildRules[r][n]] = r
  BY <1>1, <1>4, ChildRule
<1>6. c \in Unused /\ c \in FiberId /\ ~Live(c)
  BY FreshAre DEF SpawnRule, Unused
<1>7. f # c
  BY <1>6 DEF SpawnRule, Executing, Unused
<1> QED
  BY <1>1, <1>2, <1>4, <1>5, <1>6, <1>7

LEMMA SpawnRuleType ==
    ASSUME BrainInv, NEW f \in FiberId, SpawnRule(f)
    PROVE  TypeOK'
<1> USE DEF BrainInv
<1> PICK c : c = FreshFibers(1)[1]
  OBVIOUS
<1> PICK n : n = fiber[f].kids + 1
  OBVIOUS
<1> PICK k : k = ChildRules[fiber[f].rule][n]
  OBVIOUS
<1>1. n \in 0 .. Cardinality(Rule) /\ k \in Rule /\ c \in FiberId /\ f # c
  BY Spawns
<1>2. /\ state' = [state EXCEPT ![c] = "RUNNABLE"]
      /\ fiber' = [fiber EXCEPT ![f].pc = "spawn", ![f].kids = n, ![c] = [Blank EXCEPT !.rule = k]]
      /\ abandoned' = abandoned \ {k}
      /\ spawned' = Append(spawned, c)
  BY DEF SpawnRule
<1>3. state' \in [FiberId -> FiberState] /\ spawned' \in Seq(FiberId)
  BY <1>1, <1>2 DEF TypeOK, QueueTypeOK, FiberState, Alive
<1>4. QueueTypeOK'
  BY <1>3 DEF SpawnRule, TypeOK, QueueTypeOK
<1>5. fiber' = [fiber EXCEPT ![f] = [fiber[f] EXCEPT !.pc = "spawn", !.kids = n],
                             ![c] = [Blank EXCEPT !.rule = k]]
  BY <1>1, <1>2 DEF TypeOK
<1>6. [fiber[f] EXCEPT !.pc = "spawn", !.kids = n] \in Fiber
  <2>1. fiber[f] \in Fiber
    BY DEF TypeOK
  <2>2. \A x \in Fiber : [x EXCEPT !.pc = "spawn", !.kids = n] \in Fiber
    <3>1. n \in 0 .. Cardinality(Rule)
      BY <1>1
    <3>2. \A x \in Fiber : [x EXCEPT !.pc = "spawn"] \in Fiber
      BY DEF Fiber
    <3>3. \A x \in Fiber : [x EXCEPT !.kids = n] \in Fiber
      BY <3>1 DEF Fiber
    <3>4. \A x \in Fiber : [x EXCEPT !.pc = "spawn", !.kids = n]
                           = [[x EXCEPT !.pc = "spawn"] EXCEPT !.kids = n]
      OBVIOUS
    <3> QED
      BY <3>2, <3>3, <3>4
  <2> QED
    BY <2>1, <2>2
<1>7. fiber' \in [FiberId -> Fiber]
  BY <1>1, <1>5, <1>6, StartedType DEF TypeOK
<1> QED
  BY <1>2, <1>4, <1>7 DEF SpawnRule, TypeOK, pageVars

(* The end of a set of live fibers.                                        *)

LEMMA KinType ==
    ASSUME BrainInv, NEW gone \in SUBSET FiberId, \A f \in gone : Live(f)
    PROVE  /\ Kin(gone) \in SUBSET Rule
           /\ Emptied(gone) \in SUBSET Rule
           /\ Callers(gone) \in SUBSET FiberId
           /\ Askers(gone) \in SUBSET FiberId
           /\ WaitingAskers(gone) \in SUBSET Askers(gone)
<1> USE DEF BrainInv
<1>1. Kin(gone) \in SUBSET Rule
  <2>1. \A f \in gone : Within[fiber[f].rule] \subseteq Rule
    BY WithinSelf DEF Settled
  <2> QED
    BY <2>1 DEF Kin
<1>2. Emptied(gone) \in SUBSET Rule
  BY <1>1 DEF Emptied
<1>3. Askers(gone) \in SUBSET FiberId
  BY <1>2 DEF Askers, Emptied, TypeOK
<1>4. Callers(gone) \in SUBSET FiberId
  BY DEF Callers, TypeOK, Fiber
<1> QED
  BY <1>1, <1>2, <1>3, <1>4 DEF WaitingAskers

LEMMA EndQueueType ==
    ASSUME BrainInv, NEW gone \in SUBSET FiberId, \A f \in gone : Live(f),
           NEW final, EndFibers(gone, final)
    PROVE  runQueue' \in Seq(FiberId) /\ Len(runQueue') >= Len(runQueue)
<1> DEFINE R == {r \in Emptied(gone) : watcher[r] \in WaitingAskers(gone)}
<1>1. R \in SUBSET Rule /\ IsFiniteSet(R) /\ Callers(gone) \in SUBSET FiberId
      /\ IsFiniteSet(Callers(gone)) /\ WaitingAskers(gone) \in SUBSET FiberId
  BY KinType, RuleProgramAssumption, FibersAssumption, FS_Subset
<1>2. PICK walk \in InnerFirst(R), resumed \in SetToSeqs(Callers(gone)) :
         runQueue' = runQueue \o [i \in DOMAIN walk |-> watcher[walk[i]]] \o resumed
  BY DEF EndFibers
<1>3. resumed \in Seq(FiberId)
  BY <1>1, SeqsCover
<1>4. walk \in Seq(R)
  BY <1>1, SeqsCover DEF InnerFirst
<1> PICK woken : woken = [i \in DOMAIN walk |-> watcher[walk[i]]]
  OBVIOUS
<1>5. woken \in Seq(FiberId)
  BY <1>1, <1>4
<1>6. runQueue \in Seq(FiberId)
  BY DEF BrainInv, TypeOK, QueueTypeOK
<1>7. runQueue' = runQueue \o woken \o resumed
  BY <1>2
<1> HIDE DEF R
<1> QED
  BY <1>3, <1>5, <1>6, <1>7

(* What the end of gone makes of the fibers that live on.                  *)
LEMMA EndedFiber ==
    ASSUME BrainInv, NEW gone, NEW final, EndFibers(gone, final), NEW f \in FiberId, f \notin gone
    PROVE  fiber'[f] =
             [rule    |-> fiber[f].rule,
              pc      |-> IF f \in WaitingAskers(gone) THEN
                             IF Completed(f, gone, final) THEN "when" ELSE "unarmed"
                          ELSE fiber[f].pc,
              kids    |-> fiber[f].kids,
              waits   |-> IF f \in WaitingAskers(gone) \cup Callers(gone) THEN "nothing"
                          ELSE fiber[f].waits,
              caller  |-> IF fiber[f].caller \in gone THEN NoFiber ELSE fiber[f].caller,
              trigger |-> IF f \in WaitingAskers(gone) THEN "none"
                          ELSE IF f \in Askers(gone) THEN
                             IF Completed(f, gone, final) THEN "true" ELSE "false"
                          ELSE fiber[f].trigger]
<1>1. fiber[f] \in Fiber
  BY DEF BrainInv, TypeOK
<1> DEFINE a == IF f \in WaitingAskers(gone) THEN
                             IF Completed(f, gone, final) THEN "when" ELSE "unarmed"
                          ELSE fiber[f].pc
           b == IF f \in WaitingAskers(gone) \cup Callers(gone) THEN "nothing"
                          ELSE fiber[f].waits
           c == IF fiber[f].caller \in gone THEN NoFiber ELSE fiber[f].caller
           d == IF f \in WaitingAskers(gone) THEN "none"
                          ELSE IF f \in Askers(gone) THEN
                             IF Completed(f, gone, final) THEN "true" ELSE "false"
                          ELSE fiber[f].trigger
<1>2. fiber'[f] = [fiber[f] EXCEPT !.pc = a, !.waits = b, !.caller = c, !.trigger = d]
  <2>1. [fiber[f] EXCEPT
            !.pc = IF f \in WaitingAskers(gone) THEN
                       IF Completed(f, gone, final) THEN "when" ELSE "unarmed" ELSE @,
            !.waits = IF f \in WaitingAskers(gone) \cup Callers(gone) THEN "nothing" ELSE @,
            !.caller = IF @ \in gone THEN NoFiber ELSE @,
            !.trigger = IF f \in WaitingAskers(gone) THEN "none"
                        ELSE IF f \in Askers(gone) THEN
                            IF Completed(f, gone, final) THEN "true" ELSE "false" ELSE @]
         = [fiber[f] EXCEPT !.pc = a, !.waits = b, !.caller = c, !.trigger = d]
    BY <1>1 DEF Fiber
  <2> QED
    BY <2>1 DEF EndFibers
<1> HIDE DEF a, b, c, d
<1>3. fiber'[f] = [rule |-> fiber[f].rule, pc |-> a, kids |-> fiber[f].kids, waits |-> b,
                   caller |-> c, trigger |-> d]
  BY <1>1, <1>2 DEF Fiber
<1> QED
  BY <1>3 DEF a, b, c, d

LEMMA EndType ==
    ASSUME BrainInv, NEW gone \in SUBSET FiberId, \A f \in gone : Live(f),
           NEW final \in Terminal, EndFibers(gone, final)
    PROVE  /\ state' \in [FiberId -> FiberState]
           /\ fiber' \in [FiberId -> Fiber]
           /\ watcher' \in [Rule -> FiberId \cup {NoFiber, Stale}]
           /\ abandoned' \in SUBSET Rule
           /\ active' \in [Roots -> FiberId \cup {NoFiber}]
<1> USE DEF BrainInv
<1>1. state' \in [FiberId -> FiberState]
  BY DEF EndFibers, Over, TypeOK, QueueTypeOK, FiberState, Alive, Terminal
<1>2. \A f \in FiberId : fiber'[f] \in Fiber
  <2> TAKE f \in FiberId
  <2>1. fiber[f] \in Fiber /\ Blank \in Fiber
    <3>1. Cardinality(Rule) \in Nat
      BY RuleProgramAssumption, FS_CardinalityType
    <3> QED
      BY <3>1 DEF TypeOK, Blank, Fiber
  <2>2. CASE f \in gone
    BY <2>1, <2>2 DEF EndFibers
  <2>3. CASE f \notin gone
    <3>1. fiber'[f] =
             [rule    |-> fiber[f].rule,
              pc      |-> IF f \in WaitingAskers(gone) THEN
                             IF Completed(f, gone, final) THEN "when" ELSE "unarmed"
                          ELSE fiber[f].pc,
              kids    |-> fiber[f].kids,
              waits   |-> IF f \in WaitingAskers(gone) \cup Callers(gone) THEN "nothing"
                          ELSE fiber[f].waits,
              caller  |-> IF fiber[f].caller \in gone THEN NoFiber ELSE fiber[f].caller,
              trigger |-> IF f \in WaitingAskers(gone) THEN "none"
                          ELSE IF f \in Askers(gone) THEN
                             IF Completed(f, gone, final) THEN "true" ELSE "false"
                          ELSE fiber[f].trigger]
      BY <2>3, EndedFiber
    <3>2. PICK a, b, c, d : fiber'[f] = [rule |-> fiber[f].rule, pc |-> a, kids |-> fiber[f].kids,
                                         waits |-> b, caller |-> c, trigger |-> d]
             /\ a \in {"when", "unarmed", fiber[f].pc}
             /\ b \in {"nothing", fiber[f].waits}
             /\ c \in {NoFiber, fiber[f].caller}
             /\ d \in {"none", "true", "false", fiber[f].trigger}
      BY <3>1
    <3> QED
      BY <2>1, <3>2 DEF Fiber
  <2> QED
    BY <2>2, <2>3
<1>3. fiber' \in [FiberId -> Fiber]
  BY <1>2 DEF EndFibers
<1>4. watcher' \in [Rule -> FiberId \cup {NoFiber, Stale}]
  BY DEF EndFibers, TypeOK
<1>5. abandoned' \in SUBSET Rule
  BY KinType DEF EndFibers, Marked, TypeOK
<1>6. active' \in [Roots -> FiberId \cup {NoFiber}]
  BY DEF EndFibers, TypeOK
<1> QED
  BY <1>1, <1>3, <1>4, <1>5, <1>6

LEMMA PageFibersLive ==
    ASSUME BrainInv
    PROVE  /\ PageFibers \in SUBSET FiberId /\ \A f \in PageFibers : Live(f)
           /\ PageFibers = RuleFibers
<1> USE DEF BrainInv
<1>1. PageFibers \in SUBSET FiberId /\ \A f \in PageFibers : Live(f)
  BY DEF PageFibers, RuleFibers
<1>2. ASSUME NEW f \in RuleFibers
      PROVE  f \in PageFibers
  <2>1. fiber[f].rule \in Rule
    BY DEF Settled, RuleFibers
  <2>2. Parent[fiber[f].rule] = NoRule => fiber[f].rule \in Roots
    BY <2>1, RootsAre
  <2> QED
    BY <2>2 DEF PageFibers, OneFiringInFlight
<1> QED
  BY <1>1, <1>2 DEF PageFibers

LEMMA RequestPageType ==
    ASSUME BrainInv, NEW p \in Page, RequestPage(p)
    PROVE  TypeOK'
<1> USE DEF BrainInv
<1>1. EndFibers(PageFibers, "CANCELLED") /\ "CANCELLED" \in Terminal
  BY DEF RequestPage, Terminal
<1>2. round' \in 0 .. Len(runQueue') /\ runQueue' \in Seq(FiberId)
  <2>1. runQueue' \in Seq(FiberId) /\ Len(runQueue') >= Len(runQueue)
    BY <1>1, PageFibersLive, EndQueueType
  <2>2. round \in 0 .. Len(runQueue) /\ round' = round
    BY DEF RequestPage, TypeOK, QueueTypeOK
  <2>3. Len(runQueue) \in Nat /\ Len(runQueue') \in Nat
    BY <2>1 DEF TypeOK, QueueTypeOK
  <2> QED
    BY <2>1, <2>2, <2>3
<1> PICK gone \in SUBSET FiberId : gone = PageFibers
  BY PageFibersLive
<1>3. /\ state' \in [FiberId -> FiberState]
      /\ fiber' \in [FiberId -> Fiber]
      /\ watcher' \in [Rule -> FiberId \cup {NoFiber, Stale}]
      /\ abandoned' \in SUBSET Rule
      /\ active' \in [Roots -> FiberId \cup {NoFiber}]
  BY <1>1, PageFibersLive, EndType
<1>4. QueueTypeOK'
  BY <1>2, <1>3 DEF RequestPage, TypeOK, QueueTypeOK
<1> QED
  BY <1>3, <1>4 DEF RequestPage, TypeOK

LEMMA LeavePageType ==
    ASSUME BrainInv, NEW p \in Page, LeavePage(p)
    PROVE  TypeOK'
<1> USE DEF BrainInv
<1>1. EndFibers(PageFibers, "CANCELLED") /\ "CANCELLED" \in Terminal
  BY DEF LeavePage, Terminal
<1>2. round' \in 0 .. Len(runQueue') /\ runQueue' \in Seq(FiberId)
  <2>1. runQueue' \in Seq(FiberId) /\ Len(runQueue') >= Len(runQueue)
    BY <1>1, PageFibersLive, EndQueueType
  <2>2. round \in 0 .. Len(runQueue) /\ round' = round
    BY DEF LeavePage, TypeOK, QueueTypeOK
  <2>3. Len(runQueue) \in Nat /\ Len(runQueue') \in Nat
    BY <2>1 DEF TypeOK, QueueTypeOK
  <2> QED
    BY <2>1, <2>2, <2>3
<1>3. /\ state' \in [FiberId -> FiberState]
      /\ fiber' \in [FiberId -> Fiber]
      /\ watcher' \in [Rule -> FiberId \cup {NoFiber, Stale}]
      /\ abandoned' \in SUBSET Rule
      /\ active' \in [Roots -> FiberId \cup {NoFiber}]
  BY <1>1, PageFibersLive, EndType
<1>4. QueueTypeOK'
  BY <1>2, <1>3 DEF LeavePage, TypeOK, QueueTypeOK
<1>5. /\ current' \in Page /\ desired' \in Page /\ entering' \in BOOLEAN
      /\ threw' \subseteq {"entry", "exit"}
  BY DEF LeavePage, TypeOK
<1> QED
  BY <1>3, <1>4, <1>5 DEF LeavePage, TypeOK

LEMMA EndWithType ==
    ASSUME BrainInv, NEW f \in FiberId, Executing(f), NEW final \in Terminal, EndWith(f, final)
    PROVE  TypeOK'
<1> USE DEF BrainInv
<1> PICK gone \in SUBSET FiberId : gone = {f}
  OBVIOUS
<1>1. EndFibers(gone, final) /\ EndSlice /\ \A g \in gone : Live(g)
  BY DEF EndWith, Executing, Live, Alive
<1>2. runQueue' \in Seq(FiberId) /\ Len(runQueue') >= Len(runQueue)
  BY <1>1, EndQueueType
<1>3. /\ state' \in [FiberId -> FiberState]
      /\ fiber' \in [FiberId -> Fiber]
      /\ watcher' \in [Rule -> FiberId \cup {NoFiber, Stale}]
      /\ abandoned' \in SUBSET Rule
      /\ active' \in [Roots -> FiberId \cup {NoFiber}]
  BY <1>1, EndType
<1>4. QueueTypeOK'
  BY <1>1, <1>2, <1>3, SliceType
<1> QED
  BY <1>3, <1>4 DEF EndWith, TypeOK

(* The start of a think.                                                   *)

LEMMA DueAre ==
    ASSUME BrainInv, NEW rs \in InOrder(Due)
    PROVE  /\ rs \in Seq(Rule) /\ Len(rs) \in Nat /\ DOMAIN rs = 1 .. Len(rs)
           /\ ToSet(rs) = Due
           /\ \A i, j \in DOMAIN rs : rs[i] = rs[j] => i = j
           /\ \A i \in DOMAIN rs : rs[i] \in Due
           /\ \A r \in Due : /\ r \in Rule /\ Parent[r] = NoRule /\ r \in Roots
                             /\ PageOf[r] = current /\ FiresAgain(r)
<1>1. current \in Page
  BY DEF BrainInv, TypeOK
<1>2. \A r \in Due : /\ r \in Rule /\ Parent[r] = NoRule /\ r \in Roots
                     /\ PageOf[r] = current /\ FiresAgain(r)
  BY <1>1, PageOfRoot, RootsAre DEF Due
<1>3. IsFiniteSet(Due)
  <2>1. Due \in SUBSET Rule
    BY <1>2
  <2> QED
    BY <2>1, RuleProgramAssumption, FS_Subset
<1>4. rs \in SetToSeqs(Due)
  BY DEF InOrder
<1>5. rs \in Seq(Due) /\ ToSet(rs) = Due /\ \A i, j \in DOMAIN rs : rs[i] = rs[j] => i = j
  BY <1>3, <1>4, SeqsCover
<1>6. rs \in Seq(Rule) /\ Len(rs) \in Nat /\ DOMAIN rs = 1 .. Len(rs)
      /\ \A i \in DOMAIN rs : rs[i] \in Due
  BY <1>2, <1>5
<1> QED
  BY <1>2, <1>5, <1>6

(* The rules rs run in the fibers fs, and nothing else happens to a fiber. *)
NewFibers(rs, fs) ==
    /\ fs \in Seq(FiberId) /\ DOMAIN fs = DOMAIN rs
    /\ \A i \in DOMAIN rs : /\ fs[i] \in FiberId /\ ~Live(fs[i])
                            /\ state'[fs[i]] = "RUNNABLE"
                            /\ fiber'[fs[i]] = [Blank EXCEPT !.rule = rs[i]]
    /\ \A i, j \in DOMAIN rs : fs[i] = fs[j] => i = j
    /\ \A f \in FiberId : \/ \E i \in DOMAIN rs : f = fs[i]
                          \/ state'[f] = state[f] /\ fiber'[f] = fiber[f]
    /\ \A f \in FiberId : f \in ToSet(fs) <=> \E i \in DOMAIN rs : f = fs[i]

LEMMA StartedAre ==
    ASSUME BrainInv, NEW rs \in InOrder(Due), HasFresh(Len(rs)),
           NEW fs, fs = FreshFibers(Len(rs)), StartRules(fs, rs)
    PROVE  NewFibers(rs, fs)
<1>1. /\ Len(rs) \in Nat /\ DOMAIN rs = 1 .. Len(rs)
      /\ \A i, j \in DOMAIN rs : rs[i] = rs[j] => i = j
  BY DueAre
<1>2. /\ fs \in [DOMAIN rs -> Unused] /\ fs \in Seq(FiberId) /\ DOMAIN fs = DOMAIN rs
      /\ \A i, j \in DOMAIN rs : fs[i] = fs[j] => i = j
  BY <1>1, FreshAre
<1>3. \A f \in FiberId : f \in ToSet(fs) <=> \E i \in DOMAIN rs : f = fs[i]
  BY <1>2 DEF ToSet
<1>4. \A i \in DOMAIN rs : fs[i] \in FiberId /\ ~Live(fs[i])
  BY <1>2 DEF Unused
<1>5. \A i \in DOMAIN rs : /\ state'[fs[i]] = "RUNNABLE"
                           /\ fiber'[fs[i]] = [Blank EXCEPT !.rule = rs[i]]
  <2> TAKE i \in DOMAIN rs
  <2>1. state'[fs[i]] = "RUNNABLE"
    BY <1>3, <1>4 DEF StartRules
  <2>2. (CHOOSE j \in DOMAIN fs : fs[j] = fs[i]) = i
    BY <1>2
  <2>3. \E j \in DOMAIN fs : fs[j] = fs[i]
    BY <1>2
  <2>4. fiber'[fs[i]] = [Blank EXCEPT !.rule = rs[CHOOSE j \in DOMAIN fs : fs[j] = fs[i]]]
    BY <1>4, <2>3 DEF StartRules
  <2> QED
    BY <2>1, <2>2, <2>4
<1>6. \A f \in FiberId : \/ \E i \in DOMAIN rs : f = fs[i]
                         \/ state'[f] = state[f] /\ fiber'[f] = fiber[f]
  <2> SUFFICES ASSUME NEW f \in FiberId, ~ \E i \in DOMAIN rs : f = fs[i]
               PROVE  state'[f] = state[f] /\ fiber'[f] = fiber[f]
    OBVIOUS
  <2>1. f \notin ToSet(fs) /\ ~ \E i \in DOMAIN fs : fs[i] = f
    BY <1>2, <1>3
  <2> QED
    BY <2>1 DEF StartRules
<1> QED
  BY <1>2, <1>3, <1>4, <1>5, <1>6 DEF NewFibers

(* A think that starts the rules rs in the fibers fs.                      *)
Starts(p, rs, fs) ==
    /\ HasFresh(Len(rs)) /\ fs = FreshFibers(Len(rs)) /\ StartRules(fs, rs)
    /\ active' = [r \in Roots |-> IF r \in ToSet(rs)
                                  THEN fs[CHOOSE i \in DOMAIN rs : rs[i] = r] ELSE active[r]]
    /\ runQueue' = runQueue \o fs /\ round' = Len(runQueue')
    /\ desired' = p /\ entering' = FALSE /\ phase' = "tick"
    /\ UNCHANGED <<firing, watcher, current, threw, spawned, cascade, running>>

LEMMA ThinkStarts ==
    ASSUME NEW p, Think(p)
    PROVE  \E rs \in InOrder(Due) : Starts(p, rs, FreshFibers(Len(rs)))
BY DEF Think, Starts

LEMMA ThinkType ==
    ASSUME BrainInv, NEW p \in Page, Think(p)
    PROVE  TypeOK'
<1> USE DEF BrainInv
<1>0. PICK rs \in InOrder(Due) : Starts(p, rs, FreshFibers(Len(rs)))
  BY ThinkStarts
<1> PICK fs : fs = FreshFibers(Len(rs))
  OBVIOUS
<1>1. Starts(p, rs, fs)
  BY <1>0
<1> USE DEF Starts
<1>2. NewFibers(rs, fs)
  BY <1>1, StartedAre
<1> USE DEF NewFibers
<1>3. \A i \in DOMAIN rs : rs[i] \in Rule
  BY DueAre
<1>4. state' \in [FiberId -> FiberState]
  <2>1. \A f \in FiberId : state'[f] \in FiberState
    <3> TAKE f \in FiberId
    <3>1. state[f] \in FiberState /\ "RUNNABLE" \in FiberState
      BY DEF TypeOK, QueueTypeOK, FiberState, Alive
    <3>2. CASE \E i \in DOMAIN rs : f = fs[i]
      <4> PICK i \in DOMAIN rs : f = fs[i]
        BY <3>2
      <4>1. \A j \in DOMAIN rs : state'[fs[j]] = "RUNNABLE"
        BY <1>2
      <4> QED
        BY <3>1, <4>1
    <3>3. CASE state'[f] = state[f]
      BY <3>1, <3>3
    <3> QED
      BY <1>2, <3>2, <3>3
  <2> QED
    BY <1>1, <2>1 DEF StartRules
<1>5. fiber' \in [FiberId -> Fiber]
  <2>1. \A f \in FiberId : fiber'[f] \in Fiber
    <3> TAKE f \in FiberId
    <3>1. CASE \E i \in DOMAIN rs : f = fs[i]
      <4>1. PICK i \in DOMAIN rs : f = fs[i]
        BY <3>1
      <4>2. fiber'[f] = [Blank EXCEPT !.rule = rs[i]] /\ rs[i] \in Rule
        BY <1>2, <1>3, <4>1
      <4> QED
        BY <4>2, StartedType
    <3>2. CASE fiber'[f] = fiber[f]
      BY <3>2 DEF TypeOK
    <3> QED
      BY <1>2, <3>1, <3>2
  <2> QED
    BY <1>1, <2>1 DEF StartRules
<1>6. runQueue' \in Seq(FiberId) /\ round' \in 0 .. Len(runQueue')
  <2>1. runQueue' \in Seq(FiberId)
    BY <1>1, <1>2 DEF TypeOK, QueueTypeOK
  <2> QED
    BY <1>1, <2>1
<1>7. active' \in [Roots -> FiberId \cup {NoFiber}]
  <2>1. ASSUME NEW r \in Roots
        PROVE  active'[r] \in FiberId \cup {NoFiber}
    <3>1. CASE r \in ToSet(rs)
      <4>1. PICK i \in DOMAIN rs : rs[i] = r
        BY <3>1 DEF ToSet
      <4>2. (CHOOSE j \in DOMAIN rs : rs[j] = r) \in DOMAIN rs
        BY <4>1
      <4> QED
        BY <1>1, <1>2, <3>1, <4>2
    <3>2. CASE r \notin ToSet(rs)
      BY <1>1, <3>2 DEF TypeOK
    <3> QED
      BY <3>1, <3>2
  <2> QED
    BY <1>1, <2>1
<1>8. abandoned' \in SUBSET Rule
  BY <1>1 DEF StartRules, TypeOK
<1>9. QueueTypeOK'
  BY <1>1, <1>4, <1>6 DEF TypeOK, QueueTypeOK
<1> QED
  BY <1>1, <1>5, <1>7, <1>8, <1>9 DEF TypeOK

LEMMA TypeStep ==
    ASSUME BrainInv, [Next]_vars
    PROVE  TypeOK'
<1> USE DEF BrainInv
<1>1. CASE \E p \in Page : RequestPage(p) \/ LeavePage(p) \/ Think(p)
  BY <1>1, RequestPageType, LeavePageType, ThinkType
<1>2. CASE RunNext \/ EndThink \/ Throws
  BY <1>2, RunNextType, EndThinkType, ThrowsType
<1>3. ASSUME NEW f \in FiberId, Instruction(f) \/ HostSettle(f)
      PROVE  TypeOK'
  <2>1. CASE Begin(f) \/ ReadSubject(f) \/ AskTrigger(f) \/ AwaitAnswer(f) \/ AwaitTrigger(f)
    BY <2>1, BeginType, ReadSubjectType, AskTriggerType, AwaitAnswerType, AwaitTriggerType
  <2>2. CASE \E fired \in BOOLEAN : Gate(f, fired)
    BY <2>2, GateType
  <2>3. CASE AwaitHost(f) \/ CallAction(f) \/ SpawnRule(f) \/ Yield(f)
    BY <2>3, AwaitHostType, CallActionType, SpawnRuleType, YieldType
  <2>4. CASE Return(f) \/ Fault(f)
    <3>1. PICK final \in Terminal : EndWith(f, final) /\ Executing(f)
      BY <2>4 DEF Return, Fault, Terminal
    <3> QED
      BY <3>1, EndWithType
  <2>5. CASE LeaveCancelled(f) \/ ErrorEscapes(f) \/ HostSettle(f)
    BY <2>5, LeaveCancelledType, ErrorEscapesType, HostSettleType
  <2> QED
    BY <1>3, <2>1, <2>2, <2>3, <2>4, <2>5 DEF Instruction
<1>4. CASE UNCHANGED vars
  BY <1>4 DEF vars, queueVars, ruleVars, pageVars, TypeOK, QueueTypeOK
<1> QED
  BY <1>1, <1>2, <1>3, <1>4 DEF Next, Throws

-----------------------------------------------------------------------------
(* Steps that start no fiber and end none.                                 *)

SameFibers ==
    \A f \in FiberId :
        /\ state'[f] \in Alive <=> state[f] \in Alive
        /\ fiber'[f].rule = fiber[f].rule
        /\ fiber'[f].kids = fiber[f].kids
        /\ fiber'[f].caller = fiber[f].caller
        /\ fiber'[f].pc = "action" <=> fiber[f].pc = "action"
        /\ state[f] \notin Alive => fiber'[f] = fiber[f]

SameTriggers ==
    \A f \in FiberId :
        /\ fiber'[f].trigger = "pending" <=> fiber[f].trigger = "pending"
        /\ fiber[f].trigger = "pending" => fiber'[f].pc = fiber[f].pc

LEMMA FibersKept ==
    ASSUME BrainInv, SameFibers, active' = active, current' = current
    PROVE  Settled' /\ Called' /\ Unspawned' /\ OneFiringInFlight'
<1> USE DEF BrainInv
<1>1. RuleFibers' = RuleFibers
  BY DEF RuleFibers, SameFibers, Live
<1>2. Settled'
  BY DEF Settled, SameFibers, Live
<1>3. Called'
  BY <1>1 DEF Called, SameFibers
<1>4. Unspawned'
  BY <1>1 DEF Unspawned, SameFibers, RuleFibers
<1>5. OneFiringInFlight'
  <2>1. \A f \in RuleFibers : f \in FiberId /\ fiber'[f].rule = fiber[f].rule
    BY DEF RuleFibers, SameFibers
  <2>2. \A r \in Roots : active[r] # NoFiber =>
           /\ active[r] \in FiberId
           /\ (state'[active[r]] \in Alive <=> state[active[r]] \in Alive)
           /\ fiber'[active[r]].rule = fiber[active[r]].rule
    BY DEF TypeOK, SameFibers
  <2> QED
    BY <1>1, <2>1, <2>2 DEF OneFiringInFlight, Live
<1> QED
  BY <1>2, <1>3, <1>4, <1>5

LEMMA SlotsKept ==
    ASSUME BrainInv, SameFibers, SameTriggers, watcher' = watcher
    PROVE  Watched' /\ TriggerWillBeAnswered'
<1> USE DEF BrainInv
<1>1. Watched'
  BY DEF Watched, Asks, SameFibers, SameTriggers, Live
<1>2. \A r : Cluster(r)' = Cluster(r)
  BY DEF Cluster, SameFibers, Live
<1>3. TriggerWillBeAnswered'
  BY <1>2 DEF TriggerWillBeAnswered, HasLiveSubtree, SameFibers, SameTriggers
<1> QED
  BY <1>1, <1>3

LEMMA PendingAsks ==
    ASSUME BrainInv, NEW f \in FiberId, fiber[f].trigger = "pending"
    PROVE  /\ Live(f) /\ fiber[f].pc = "asked"
           /\ PrecedingSibling[fiber[f].rule] \in Rule
           /\ watcher[PrecedingSibling[fiber[f].rule]] = f
BY DEF BrainInv, Watched, Asks

LEMMA GotoKeeps ==
    ASSUME BrainInv, NEW f \in FiberId, NEW at, Goto(f, at), state' = state, state[f] \in Alive,
           fiber[f].pc \notin {"action", "asked"}, at # "action"
    PROVE  SameFibers /\ SameTriggers
<1> USE DEF BrainInv
<1>1. fiber[f].trigger # "pending"
  BY PendingAsks
<1>2. \A g \in FiberId : fiber'[g] = IF g = f THEN [fiber[f] EXCEPT !.pc = at] ELSE fiber[g]
  BY DEF Goto, TypeOK
<1>3. fiber[f] \in Fiber
  BY DEF TypeOK
<1>4. /\ fiber'[f].rule = fiber[f].rule /\ fiber'[f].kids = fiber[f].kids
      /\ fiber'[f].caller = fiber[f].caller /\ fiber'[f].trigger = fiber[f].trigger
      /\ fiber'[f].pc = at
  BY <1>2, <1>3 DEF Fiber
<1> QED
  BY <1>1, <1>2, <1>4 DEF SameFibers, SameTriggers

LEMMA InstructionsKeep ==
    ASSUME BrainInv, NEW f \in FiberId,
           \/ Begin(f) \/ ReadSubject(f) \/ (\E fired \in BOOLEAN : Gate(f, fired))
    PROVE  SameFibers /\ SameTriggers /\ UNCHANGED <<watcher, active, current>>
<1> USE DEF Continues, pageVars, Executing, Alive
<1>1. CASE Begin(f)
  <2>1. PICK at \in {"do", "when", "arm"} : Goto(f, at)
    BY <1>1 DEF Begin
  <2> QED
    BY <1>1, <2>1, GotoKeeps DEF Begin
<1>2. CASE ReadSubject(f)
  <2>1. PICK at \in {"when", "unarmed"} : Goto(f, at)
    BY <1>2 DEF ReadSubject
  <2> QED
    BY <1>2, <2>1, GotoKeeps DEF ReadSubject
<1>3. ASSUME NEW fired \in BOOLEAN, Gate(f, fired)
      PROVE  SameFibers /\ SameTriggers /\ UNCHANGED <<watcher, active, current>>
  <2>1. PICK at \in {"do", "return"} : Goto(f, at)
    BY <1>3 DEF Gate
  <2> QED
    BY <1>3, <2>1, GotoKeeps DEF Gate
<1> QED
  BY <1>1, <1>2, <1>3

GoesToWait(f, w) ==
    /\ state[f] \in Alive /\ state' = [state EXCEPT ![f] = "WAITING"]
    /\ fiber' = [fiber EXCEPT ![f].waits = w]

LEMMA WaitKeeps ==
    ASSUME BrainInv, NEW f \in FiberId, NEW w, GoesToWait(f, w)
    PROVE  SameFibers /\ SameTriggers
<1> USE DEF GoesToWait
<1>1. fiber[f] \in Fiber /\ fiber \in [FiberId -> Fiber] /\ state \in [FiberId -> FiberState]
  BY DEF BrainInv, TypeOK, QueueTypeOK
<1>2. \A g \in FiberId : g # f => fiber'[g] = fiber[g] /\ state'[g] = state[g]
  BY <1>1
<1>3. fiber'[f] = [fiber[f] EXCEPT !.waits = w] /\ state'[f] \in Alive
  BY <1>1 DEF Alive
<1>4. /\ fiber'[f].rule = fiber[f].rule /\ fiber'[f].kids = fiber[f].kids
      /\ fiber'[f].caller = fiber[f].caller /\ fiber'[f].trigger = fiber[f].trigger
      /\ fiber'[f].pc = fiber[f].pc
  BY <1>1, <1>3 DEF Fiber
<1> QED
  BY <1>2, <1>3, <1>4 DEF SameFibers, SameTriggers

LEMMA SlicesKeep ==
    ASSUME BrainInv, NEW f \in FiberId,
           \/ AwaitAnswer(f) \/ AwaitTrigger(f) \/ AwaitHost(f) \/ Yield(f)
           \/ LeaveCancelled(f) \/ ErrorEscapes(f) \/ HostSettle(f)
    PROVE  SameFibers /\ SameTriggers /\ UNCHANGED <<watcher, active, current>>
<1> USE DEF BrainInv, Continues, ruleVars, pageVars, Executing, Alive
<1>1. fiber[f] \in Fiber /\ fiber \in [FiberId -> Fiber] /\ state \in [FiberId -> FiberState]
  BY DEF TypeOK, QueueTypeOK
<1>2. CASE AwaitAnswer(f)
  <2>1. PICK at \in {"when", "unarmed"} :
           fiber' = [fiber EXCEPT ![f].pc = at, ![f].trigger = "none"]
    BY <1>2 DEF AwaitAnswer
  <2>2. \A g \in FiberId : g # f => fiber'[g] = fiber[g]
    BY <1>1, <2>1
  <2>3. fiber'[f] = [fiber[f] EXCEPT !.pc = at, !.trigger = "none"]
    BY <1>1, <2>1
  <2>4. /\ fiber'[f].rule = fiber[f].rule /\ fiber'[f].kids = fiber[f].kids
        /\ fiber'[f].caller = fiber[f].caller /\ fiber'[f].trigger = "none"
        /\ fiber'[f].pc = at
    BY <1>1, <2>3 DEF Fiber
  <2>5. fiber[f].pc = "asked" /\ fiber[f].trigger # "pending" /\ state[f] \in Alive
    BY <1>2 DEF AwaitAnswer
  <2>6. state' = state /\ UNCHANGED <<watcher, active, current>>
    BY <1>2 DEF AwaitAnswer
  <2> QED
    BY <2>2, <2>4, <2>5, <2>6 DEF SameFibers, SameTriggers
<1>4. CASE AwaitTrigger(f)
  <2>1. GoesToWait(f, "trigger") /\ UNCHANGED <<watcher, active, current>>
    BY <1>4 DEF AwaitTrigger, GoesToWait
  <2>2. SameFibers /\ SameTriggers
    BY <2>1, WaitKeeps
  <2> QED
    BY <2>1, <2>2
<1>5. CASE AwaitHost(f)
  <2>1. GoesToWait(f, "host") /\ UNCHANGED <<watcher, active, current>>
    BY <1>5 DEF AwaitHost, GoesToWait
  <2>2. SameFibers /\ SameTriggers
    BY <2>1, WaitKeeps
  <2> QED
    BY <2>1, <2>2
<1>6. CASE Yield(f)
  BY <1>6 DEF Yield, SameFibers, SameTriggers
<1>7. CASE LeaveCancelled(f)
  BY <1>1, <1>7 DEF LeaveCancelled, SameFibers, SameTriggers
<1>8. CASE ErrorEscapes(f)
  BY <1>8 DEF ErrorEscapes, AbandonTick, SameFibers, SameTriggers
<1>9. CASE HostSettle(f)
  <2>1. /\ state' = [state EXCEPT ![f] = "RUNNABLE"] /\ state[f] = "WAITING"
        /\ fiber' = [fiber EXCEPT ![f].waits = "nothing"]
        /\ UNCHANGED <<watcher, active, current>>
    BY <1>9 DEF HostSettle
  <2>2. \A g \in FiberId : g # f => fiber'[g] = fiber[g] /\ state'[g] = state[g]
    BY <1>1, <2>1
  <2>3. fiber'[f] = [fiber[f] EXCEPT !.waits = "nothing"] /\ state'[f] \in Alive
    BY <1>1, <2>1
  <2>4. /\ fiber'[f].rule = fiber[f].rule /\ fiber'[f].kids = fiber[f].kids
        /\ fiber'[f].caller = fiber[f].caller /\ fiber'[f].trigger = fiber[f].trigger
        /\ fiber'[f].pc = fiber[f].pc
    BY <1>1, <2>3 DEF Fiber
  <2> QED
    BY <2>1, <2>2, <2>3, <2>4 DEF SameFibers, SameTriggers
<1> QED
  BY <1>2, <1>4, <1>5, <1>6, <1>7, <1>8, <1>9

LEMMA TickKeeps ==
    ASSUME BrainInv, RunNext \/ EndThink \/ Throws \/ UNCHANGED vars
    PROVE  SameFibers /\ SameTriggers /\ UNCHANGED <<watcher, active, current>>
<1> USE DEF BrainInv, ruleVars, pageVars
<1>1. CASE RunNext
  BY <1>1 DEF RunNext, NextInRound, NextInCascade, SameFibers, SameTriggers
<1>2. CASE EndThink
  <2>1. \A g \in FiberId :
           \/ fiber'[g] = fiber[g]
           \/ fiber[g].trigger \in {"true", "false"}
              /\ fiber'[g] = [fiber[g] EXCEPT !.trigger = "swept"]
    BY <1>2 DEF EndThink
  <2>2. \A g \in FiberId : fiber[g] \in Fiber
    BY DEF TypeOK
  <2>3. \A x \in Fiber : LET y == [x EXCEPT !.trigger = "swept"] IN
           /\ y.rule = x.rule /\ y.kids = x.kids /\ y.caller = x.caller /\ y.pc = x.pc
           /\ y.trigger = "swept"
    BY DEF Fiber
  <2>4. state' = state /\ UNCHANGED <<watcher, active, current>>
    BY <1>2 DEF EndThink
  <2>5. \A g \in FiberId : state[g] \notin Alive => fiber[g].trigger = "none"
    BY DEF Settled, Live, Blank
  <2>6. ASSUME NEW g \in FiberId
        PROVE  /\ fiber'[g].rule = fiber[g].rule /\ fiber'[g].kids = fiber[g].kids
               /\ fiber'[g].caller = fiber[g].caller /\ fiber'[g].pc = fiber[g].pc
               /\ (fiber'[g].trigger = "pending" <=> fiber[g].trigger = "pending")
               /\ (state[g] \notin Alive => fiber'[g] = fiber[g])
    <3>1. CASE fiber'[g] = fiber[g]
      BY <3>1
    <3>2. CASE /\ fiber[g].trigger \in {"true", "false"}
               /\ fiber'[g] = [fiber[g] EXCEPT !.trigger = "swept"]
      BY <2>2, <2>3, <2>5, <3>2
    <3> QED
      BY <2>1, <3>1, <3>2
  <2> QED
    BY <2>4, <2>6 DEF SameFibers, SameTriggers
<1>3. CASE Throws \/ UNCHANGED vars
  BY <1>3, ThrowsAre DEF vars, SameFibers, SameTriggers
<1> QED
  BY <1>1, <1>2, <1>3

LEMMA KeptStep ==
    ASSUME BrainInv, TypeOK', SameFibers, SameTriggers, UNCHANGED <<watcher, active, current>>
    PROVE  BrainInv'
BY FibersKept, SlotsKept DEF BrainInv

(* A trigger that waits takes the slot of the rule above.                  *)
LEMMA AskTriggerKeeps ==
    ASSUME BrainInv, TypeOK', NEW f \in FiberId, AskTrigger(f)
    PROVE  BrainInv'
<1> USE DEF BrainInv
<1> PICK r : r = fiber[f].rule
  OBVIOUS
<1> PICK s : s = PrecedingSibling[r]
  OBVIOUS
<1> PICK t \in {"pending", "true", "false"} :
       /\ fiber' = [fiber EXCEPT ![f].pc = "asked", ![f].trigger = t]
       /\ t = "pending" <=> s # NoRule /\ HasLiveSubtree(s, {})
  BY DEF AskTrigger
<1>1. /\ state[f] = "RUNNABLE" /\ fiber[f].pc = "arm" /\ Live(f) /\ r \in Rule
      /\ UNCHANGED <<state, active, current>>
  BY DEF AskTrigger, Executing, Continues, pageVars, Settled, Live, Alive
<1>2. watcher' = IF t = "pending" THEN [watcher EXCEPT ![s] = f] ELSE watcher
  BY DEF AskTrigger
<1>3. \A g \in FiberId : g # f => fiber'[g] = fiber[g]
  BY DEF TypeOK
<1>4. fiber'[f] = [fiber[f] EXCEPT !.pc = "asked", !.trigger = t]
  BY DEF TypeOK
<1>5. /\ fiber'[f].rule = fiber[f].rule /\ fiber'[f].kids = fiber[f].kids
      /\ fiber'[f].caller = fiber[f].caller /\ fiber'[f].trigger = t /\ fiber'[f].pc = "asked"
  BY <1>4 DEF TypeOK, Fiber
<1>6. SameFibers
  BY <1>1, <1>3, <1>5 DEF SameFibers, Live
<1>7. Settled' /\ Called' /\ Unspawned' /\ OneFiringInFlight'
  BY <1>1, <1>6, FibersKept
<1>8. fiber[f].trigger # "pending"
  BY <1>1, PendingAsks
<1>9. CASE t # "pending"
  <2>1. SameTriggers
    BY <1>3, <1>5, <1>8, <1>9 DEF SameTriggers
  <2> QED
    BY <1>2, <1>6, <1>7, <1>9, <2>1, SlotsKept
<1>10. CASE t = "pending"
  <2>1. s \in Rule /\ HasLiveSubtree(s, {})
    BY <1>1, <1>10, AboveType
  <2>2. watcher' = [watcher EXCEPT ![s] = f] /\ watcher \in [Rule -> FiberId \cup {NoFiber, Stale}]
    BY <1>2, <1>10 DEF TypeOK
  (* Nobody else asks about that rule.                                     *)
  <2>3. watcher[s] \notin FiberId
    <3> SUFFICES ASSUME watcher[s] \in FiberId
                 PROVE  FALSE
      OBVIOUS
    <3> PICK g \in FiberId : g = watcher[s]
      OBVIOUS
    <3>1. Live(g) /\ fiber[g].pc = "asked" /\ PrecedingSibling[fiber[g].rule] = s
      BY <2>1 DEF Watched, Asks
    <3>2. fiber[g].rule \in Rule
      BY <3>1 DEF Settled
    <3>3. s # NoRule
      BY <2>1, RuleProgramAssumption
    <3>4. fiber[g].rule = r
      BY <1>1, <3>1, <3>2, <3>3, OneBelow
    <3>5. f \in RuleFibers /\ g \in RuleFibers
      BY <1>1, <3>1 DEF RuleFibers
    <3>6. f = g
      BY <3>4, <3>5 DEF OneFiringInFlight
    <3> QED
      BY <1>1, <3>1, <3>6
  <2>10. ASSUME NEW q \in Rule, NEW g \in FiberId, watcher'[q] = g
        PROVE  Asks(g, q)'
    <3>1. CASE q = s
      <4>1. g = f
        BY <2>1, <2>2, <2>10, <3>1
      <4> QED
        BY <1>1, <1>5, <1>10, <3>1, <4>1 DEF Asks, Live, Alive
    <3>2. CASE q # s
      <4>1. Asks(g, q)
        BY <2>2, <2>10, <3>2 DEF Watched
      <4>2. g # f
        BY <1>1, <4>1 DEF Asks
      <4> QED
        BY <1>1, <1>3, <4>1, <4>2 DEF Asks, Live
    <3> QED
      BY <3>1, <3>2
  <2>11. ASSUME NEW g \in FiberId, fiber'[g].trigger = "pending"
        PROVE  \E q \in Rule : watcher'[q] = g
    <3>1. CASE g = f
      BY <2>1, <2>2, <3>1
    <3>2. CASE g # f
      <4>1. PICK q \in Rule : watcher[q] = g
        BY <1>3, <2>11, <3>2 DEF Watched
      <4>2. q # s
        BY <2>3, <4>1
      <4> QED
        BY <2>2, <4>1, <4>2
    <3> QED
      BY <3>1, <3>2
  <2>12. \A q \in Rule, g \in FiberId : watcher'[q] = g =>
            /\ state'[g] \in Alive /\ fiber'[g].pc = "asked" /\ fiber'[g].trigger = "pending"
            /\ PrecedingSibling[fiber'[g].rule] = q
    BY <2>10 DEF Asks, Live
  <2>4. Watched'
    <3>1. \A q \in Rule : watcher'[q] \in FiberId =>
            /\ state'[watcher'[q]] \in Alive /\ fiber'[watcher'[q]].pc = "asked"
            /\ fiber'[watcher'[q]].trigger = "pending"
            /\ PrecedingSibling[fiber'[watcher'[q]].rule] = q
      <4> TAKE q \in Rule
      <4> HAVE watcher'[q] \in FiberId
      <4> PICK g \in FiberId : g = watcher'[q]
        OBVIOUS
      <4>1. /\ state'[g] \in Alive /\ fiber'[g].pc = "asked" /\ fiber'[g].trigger = "pending"
            /\ PrecedingSibling[fiber'[g].rule] = q
        BY ONLY <2>12, q \in Rule, g \in FiberId, g = watcher'[q]
      <4> QED
        BY <4>1
    <3> QED
      BY <2>11, <3>1 DEF Watched, Asks, Live
  <2>5. \A q : Cluster(q)' = Cluster(q)
    BY <1>6 DEF Cluster, SameFibers, Live
  <2>6. TriggerWillBeAnswered'
    <3>1. ASSUME NEW g \in FiberId, fiber'[g].trigger = "pending"
          PROVE  watcher'[PrecedingSibling[fiber'[g].rule]] = g
      <4>1. PICK q \in Rule : watcher'[q] = g
        BY <2>11, <3>1
      <4>2. PrecedingSibling[fiber'[g].rule] = q
        BY <2>10, <4>1 DEF Asks
      <4> QED
        BY <4>1, <4>2
    <3>2. \A q \in Rule : watcher'[q] # NoFiber => ~(Cluster(q) \subseteq {})
      BY <2>1, <2>2 DEF TriggerWillBeAnswered, HasLiveSubtree
    <3> QED
      BY <2>5, <3>1, <3>2 DEF TriggerWillBeAnswered, HasLiveSubtree
  <2> QED
    BY <1>7, <2>4, <2>6
<1> QED
  BY <1>9, <1>10

-----------------------------------------------------------------------------
(* Steps that start fibers.                                                *)

(* An action fiber is no rule fiber.                                       *)
LEMMA CallActionKeeps ==
    ASSUME BrainInv, TypeOK', NEW f \in FiberId, CallAction(f)
    PROVE  BrainInv'
<1> USE DEF BrainInv
<1> PICK c : c = FreshFibers(1)[1]
  OBVIOUS
<1>1. c \in FiberId /\ ~Live(c)
  BY FreshAre DEF CallAction, Unused
<1>2. Live(f) /\ fiber[f].pc \in {"when", "do"} /\ f # c /\ fiber[f].rule \in Rule
  BY <1>1 DEF CallAction, Executing, Live, Alive, Settled
<1>3. /\ state' = [state EXCEPT ![f] = "WAITING", ![c] = "RUNNABLE"]
      /\ fiber' = [fiber EXCEPT ![f].waits = "action",
            ![c] = [Blank EXCEPT !.rule = fiber[f].rule, !.pc = "action", !.caller = f]]
      /\ UNCHANGED <<watcher, active, current>>
  BY DEF CallAction, ruleVars, pageVars
<1>4. \A h \in FiberId : h \notin {f, c} => fiber'[h] = fiber[h] /\ state'[h] = state[h]
  BY <1>3 DEF TypeOK, QueueTypeOK
<1>5. /\ fiber'[f] = [fiber[f] EXCEPT !.waits = "action"]
      /\ fiber'[c] = [Blank EXCEPT !.rule = fiber[f].rule, !.pc = "action", !.caller = f]
      /\ state'[f] = "WAITING" /\ state'[c] = "RUNNABLE"
  BY <1>1, <1>2, <1>3 DEF TypeOK, QueueTypeOK
<1>6. /\ fiber'[f].rule = fiber[f].rule /\ fiber'[f].kids = fiber[f].kids
      /\ fiber'[f].caller = fiber[f].caller /\ fiber'[f].trigger = fiber[f].trigger
      /\ fiber'[f].pc = fiber[f].pc
  BY <1>5 DEF TypeOK, Fiber
<1>7. /\ fiber'[c].rule = fiber[f].rule /\ fiber'[c].caller = f
      /\ fiber'[c].trigger = "none" /\ fiber'[c].pc = "action"
  BY <1>5 DEF Blank
<1>8. /\ \A h \in FiberId : Live(h)' <=> Live(h) \/ h = c
      /\ \A h \in FiberId : h # c => /\ fiber'[h].rule = fiber[h].rule
                                     /\ fiber'[h].kids = fiber[h].kids
                                     /\ fiber'[h].caller = fiber[h].caller
                                     /\ fiber'[h].trigger = fiber[h].trigger
                                     /\ fiber'[h].pc = fiber[h].pc
  BY <1>1, <1>2, <1>4, <1>5, <1>6 DEF Live, Alive
<1>9. RuleFibers' = RuleFibers
  BY <1>1, <1>7, <1>8 DEF RuleFibers
<1>10. Settled'
  BY <1>2, <1>4, <1>7, <1>8 DEF Settled
<1>11. Called'
  <2>1. f \in RuleFibers
    BY <1>2 DEF RuleFibers
  <2> QED
    BY <1>7, <1>8, <1>9, <2>1 DEF Called
<1>12. Watched'
  <2>1. ASSUME NEW q \in Rule, NEW h \in FiberId, watcher'[q] = h
        PROVE  Asks(h, q)'
    <3>1. Asks(h, q)
      BY <1>3, <2>1 DEF Watched
    <3> QED
      BY <1>1, <1>8, <3>1 DEF Asks
  <2>2. ASSUME NEW h \in FiberId, fiber'[h].trigger = "pending"
        PROVE  \E q \in Rule : watcher'[q] = h
    BY <1>3, <1>7, <1>8, <2>2 DEF Watched
  <2> QED
    BY <2>1, <2>2 DEF Watched, Asks
<1>13. TriggerWillBeAnswered'
  <2>1. \A q : Cluster(q) \subseteq Cluster(q)'
    BY <1>1, <1>8 DEF Cluster
  <2>2. ASSUME NEW h \in FiberId, fiber'[h].trigger = "pending"
        PROVE  watcher'[PrecedingSibling[fiber'[h].rule]] = h
    <3>1. h # c
      BY <1>7, <2>2
    <3>2. fiber'[h].rule = fiber[h].rule /\ fiber[h].trigger = "pending"
      BY <1>8, <2>2, <3>1
    <3> QED
      BY <1>3, <3>2 DEF TriggerWillBeAnswered
  <2> QED
    BY <1>3, <2>1, <2>2 DEF TriggerWillBeAnswered, HasLiveSubtree
<1>14. \A h \in RuleFibers : h # c /\ h \in FiberId
  BY <1>1 DEF RuleFibers
<1>15. Unspawned'
  BY <1>8, <1>9, <1>14 DEF Unspawned
<1>16. OneFiringInFlight'
  <2>1. \A r \in Roots : active[r] # NoFiber => active[r] \in FiberId /\ active[r] # c
    BY <1>1 DEF OneFiringInFlight, TypeOK
  <2> QED
    <3>1. \A h, g \in RuleFibers : fiber'[h].rule = fiber'[g].rule => h = g
      BY <1>8, <1>14 DEF OneFiringInFlight
    <3>2. \A h \in RuleFibers : PageOf[fiber'[h].rule] = current
      BY <1>8, <1>14 DEF OneFiringInFlight
    <3>3. \A h \in RuleFibers : fiber'[h].rule \in Roots => active[fiber'[h].rule] = h
      BY <1>8, <1>14 DEF OneFiringInFlight
    <3>4. \A r \in Roots : active[r] # NoFiber =>
             state'[active[r]] \in Alive /\ fiber'[active[r]].rule = r
      BY <1>8, <2>1 DEF OneFiringInFlight, Live
    <3>5. active' = active /\ current' = current
      BY <1>3
    <3> QED
      BY <1>9, <3>1, <3>2, <3>3, <3>4, <3>5 DEF OneFiringInFlight, Live
<1> QED
  BY <1>10, <1>11, <1>12, <1>13, <1>15, <1>16

(* A child rule that is spawned had no fiber, nor had any rule nested in   *)
(* it.                                                                     *)
LEMMA SpawnRuleKeeps ==
    ASSUME BrainInv, TypeOK', NEW f \in FiberId, SpawnRule(f)
    PROVE  BrainInv'
<1> USE DEF BrainInv
<1> PICK c : c = FreshFibers(1)[1]
  OBVIOUS
<1> PICK r : r = fiber[f].rule
  OBVIOUS
<1> PICK n : n = fiber[f].kids + 1
  OBVIOUS
<1> PICK k : k = ChildRules[r][n]
  OBVIOUS
<1>1. /\ r \in Rule /\ n \in DOMAIN ChildRules[r] /\ fiber[f].kids \in Nat
      /\ k \in Rule /\ Parent[k] = r /\ c \in FiberId /\ f # c /\ ~Live(c)
      /\ Live(f) /\ fiber[f].pc # "action"
  BY Spawns
<1>2. /\ state' = [state EXCEPT ![c] = "RUNNABLE"]
      /\ fiber' = [fiber EXCEPT ![f].pc = "spawn", ![f].kids = n, ![c] = [Blank EXCEPT !.rule = k]]
      /\ UNCHANGED <<watcher, active, current>> /\ fiber[f].pc \in {"do", "spawn"}
  BY DEF SpawnRule, pageVars
<1>3. /\ \A h \in FiberId : h \notin {f, c} => fiber'[h] = fiber[h]
      /\ \A h \in FiberId : h # c => state'[h] = state[h]
  BY <1>2 DEF TypeOK, QueueTypeOK
<1>4. /\ fiber'[f] = [fiber[f] EXCEPT !.pc = "spawn", !.kids = n]
      /\ fiber'[c] = [Blank EXCEPT !.rule = k] /\ state'[c] = "RUNNABLE"
  BY <1>1, <1>2 DEF TypeOK, QueueTypeOK
<1>5. /\ fiber'[f].rule = r /\ fiber'[f].kids = n
      /\ fiber'[f].caller = fiber[f].caller /\ fiber'[f].trigger = fiber[f].trigger
      /\ fiber'[f].pc = "spawn"
  BY <1>4 DEF TypeOK, Fiber
<1>6. /\ fiber'[c].rule = k /\ fiber'[c].caller = NoFiber /\ fiber'[c].kids = 0
      /\ fiber'[c].trigger = "none" /\ fiber'[c].pc = "start"
  BY <1>4 DEF Blank
<1>7. /\ \A h \in FiberId : Live(h)' <=> Live(h) \/ h = c
      /\ \A h \in FiberId : h # c => /\ fiber'[h].rule = fiber[h].rule
                                     /\ fiber'[h].caller = fiber[h].caller
                                     /\ fiber'[h].trigger = fiber[h].trigger
                                     /\ (fiber'[h].pc = "action" <=> fiber[h].pc = "action")
  <2>1. \A h \in FiberId : Live(h)' <=> Live(h) \/ h = c
    BY <1>1, <1>3, <1>4 DEF Live, Alive
  <2>2. ASSUME NEW h \in FiberId, h # c
        PROVE  /\ fiber'[h].rule = fiber[h].rule
               /\ fiber'[h].caller = fiber[h].caller
               /\ fiber'[h].trigger = fiber[h].trigger
               /\ (fiber'[h].pc = "action" <=> fiber[h].pc = "action")
    <3>1. CASE h = f
      BY <1>1, <1>2, <1>5, <3>1
    <3>2. CASE h # f
      BY <1>3, <2>2, <3>2
    <3> QED
      BY <3>1, <3>2
  <2> QED
    BY <2>1, <2>2
<1>8. RuleFibers' = RuleFibers \cup {c}
  BY <1>1, <1>6, <1>7 DEF RuleFibers
<1>9. /\ f \in RuleFibers /\ c \notin RuleFibers
      /\ \A h \in RuleFibers : h \in FiberId /\ h # c /\ fiber[h].rule \in Rule
  BY <1>1 DEF RuleFibers, Settled
<1>10. Settled'
  BY <1>1, <1>3, <1>6, <1>7 DEF Settled
<1>11. Called'
  BY <1>6, <1>7, <1>8 DEF Called
<1>12. Watched'
  <2>1. ASSUME NEW q \in Rule, NEW h \in FiberId, watcher'[q] = h
        PROVE  Asks(h, q)'
    <3>1. Asks(h, q)
      BY <1>2, <2>1 DEF Watched
    <3>2. h # f /\ h # c
      BY <1>1, <1>2, <3>1 DEF Asks
    <3> QED
      BY <1>3, <1>7, <3>1, <3>2 DEF Asks
  <2>2. ASSUME NEW h \in FiberId, fiber'[h].trigger = "pending"
        PROVE  \E q \in Rule : watcher'[q] = h
    <3>1. h # c
      BY <1>6, <2>2
    <3>2. fiber[h].trigger = "pending"
      BY <1>7, <2>2, <3>1
    <3>3. watcher' = watcher
      BY <1>2
    <3> QED
      BY <3>2, <3>3 DEF Watched
  <2> QED
    BY <2>1, <2>2 DEF Watched, Asks
<1>13. TriggerWillBeAnswered'
  <2>1. \A q : Cluster(q) \subseteq Cluster(q)'
    BY <1>1, <1>7 DEF Cluster
  <2>2. \A h \in FiberId : fiber'[h].trigger = "pending" =>
           watcher'[PrecedingSibling[fiber'[h].rule]] = h
    <3> TAKE h \in FiberId
    <3> HAVE fiber'[h].trigger = "pending"
    <3>1. h # c
      BY <1>6
    <3>2. fiber[h].trigger = "pending" /\ fiber'[h].rule = fiber[h].rule
      BY <1>7, <3>1
    <3>3. watcher' = watcher
      BY <1>2
    <3> QED
      BY <3>2, <3>3 DEF TriggerWillBeAnswered
  <2> QED
    BY <1>2, <2>1, <2>2 DEF TriggerWillBeAnswered, HasLiveSubtree
(* Nothing of the new rule was in flight.                                  *)
<1>14. \A h \in RuleFibers : k \notin Within[fiber[h].rule]
  <2>1. n > fiber[f].kids
    BY <1>1
  <2>2. \A h \in RuleFibers : ChildRules[fiber[f].rule][n] \notin Within[fiber[h].rule]
    BY <1>1, <1>9, <2>1 DEF Unspawned
  <2> QED
    BY <2>2
<1>15. Within[k] = {k} \cup Within[r] /\ k # NoRule /\ Parent[k] # NoRule /\ r < k
  BY <1>1, WithinStep, RuleProgramAssumption
<1>16. Unspawned'
  <2> SUFFICES ASSUME NEW g \in RuleFibers', NEW h \in RuleFibers',
                      NEW m \in DOMAIN ChildRules[fiber'[g].rule], m > fiber'[g].kids
               PROVE  ChildRules[fiber'[g].rule][m] \notin Within[fiber'[h].rule]
    BY DEF Unspawned
  <2> PICK q : q = fiber'[g].rule
    OBVIOUS
  <2> PICK d : d = ChildRules[q][m]
    OBVIOUS
  <2>1. q \in Rule /\ d \in Rule /\ Parent[d] = q /\ Parent[d] # NoRule /\ m \in Nat
    <3>1. q \in Rule
      BY <1>1, <1>6, <1>7, <1>8, <1>9
    <3>2. d \in Rule /\ Parent[d] = q
      BY <3>1, ChildRule
    <3>3. m \in Nat
      BY <3>1, ChildRulesBounded
    <3> QED
      BY <3>1, <3>2, <3>3, RuleProgramAssumption
  (* The old fibers, whose next child is another one than before.          *)
  <2>2. ASSUME g # c
        PROVE  /\ g \in RuleFibers /\ q = fiber[g].rule /\ m > fiber[g].kids
               /\ (g = f => m # n)
    <3>1. g \in RuleFibers /\ q = fiber[g].rule
      BY <1>7, <1>8, <1>9, <2>2
    <3>2. CASE g = f
      BY <1>1, <1>5, <2>1, <3>1, <3>2
    <3>3. CASE g # f
      BY <1>3, <1>9, <2>2, <3>1, <3>3
    <3> QED
      BY <3>1, <3>2, <3>3
  <2>3. CASE g # c /\ h # c
    <3>1. h \in RuleFibers /\ fiber'[h].rule = fiber[h].rule
      BY <1>7, <1>8, <1>9, <2>3
    <3> QED
      BY <2>2, <2>3, <3>1 DEF Unspawned
  <2>4. CASE g # c /\ h = c
    <3>1. d \notin Within[r]
      BY <1>9, <2>2, <2>4 DEF Unspawned
    <3>2. d # k
      <4> SUFFICES ASSUME d = k
                   PROVE  FALSE
        OBVIOUS
      <4>1. q = r
        BY <1>1, <2>1
      <4>2. g = f
        BY <1>9, <2>2, <2>4, <4>1 DEF OneFiringInFlight
      <4>3. m = n
        <5>1. m \in DOMAIN ChildRules[r] /\ ChildRules[r][m] = ChildRules[r][n]
          BY <4>1
        <5> QED
          BY <1>1, <5>1, ChildRulesDistinct
      <4> QED
        BY <2>2, <2>4, <4>2, <4>3
    <3> QED
      BY <1>6, <1>15, <2>4, <3>1, <3>2
  <2>5. CASE g = c
    <3>1. q = k
      BY <1>6, <2>5
    <3>2. ASSUME NEW x \in Rule, d \in Within[x]
          PROVE  k \in Within[x]
      BY <2>1, <3>1, <3>2, WithinParent
    <3>3. CASE h # c
      <4>1. h \in RuleFibers /\ fiber'[h].rule = fiber[h].rule /\ fiber[h].rule \in Rule
        BY <1>7, <1>8, <1>9, <3>3
      <4> QED
        BY <1>14, <3>2, <4>1
    <3>4. CASE h = c
      <4>1. d \notin Within[k]
        <5> SUFFICES ASSUME d \in Within[k]
                     PROVE  FALSE
          OBVIOUS
        <5>1. d <= k
          BY <1>1, WithinUp
        <5>2. k < d
          BY <2>1, <3>1, RuleProgramAssumption
        <5>3. d \in Nat /\ k \in Nat
          BY <1>1, <2>1, RuleProgramAssumption
        <5> QED
          BY <5>1, <5>2, <5>3
      <4> QED
        BY <1>6, <3>4, <4>1
    <3> QED
      BY <3>3, <3>4
  <2> QED
    BY <2>3, <2>4, <2>5
<1>17. OneFiringInFlight'
  <2>1. \A h \in RuleFibers : fiber[h].rule # k
    BY <1>9, <1>14, WithinSelf
  <2>2. \A g, h \in RuleFibers' : fiber'[g].rule = fiber'[h].rule => g = h
    BY <1>6, <1>7, <1>8, <1>9, <2>1 DEF OneFiringInFlight
  <2>3. \A h \in RuleFibers' : PageOf[fiber'[h].rule] = current'
    <3>1. PageOf[k] = PageOf[r]
      BY <1>1, <1>15, PageOfChild
    <3>2. PageOf[r] = current
      BY <1>9 DEF OneFiringInFlight
    <3> QED
      <4> TAKE h \in RuleFibers'
      <4>1. CASE h = c
        BY <1>2, <1>6, <3>1, <3>2, <4>1
      <4>2. CASE h # c
        <5>1. h \in RuleFibers /\ fiber'[h].rule = fiber[h].rule
          BY <1>7, <1>8, <1>9, <4>2
        <5> QED
          BY <1>2, <5>1 DEF OneFiringInFlight
      <4> QED
        BY <4>1, <4>2
  <2>4. \A h \in RuleFibers' : fiber'[h].rule \in Roots => active'[fiber'[h].rule] = h
    <3>1. k \notin Roots
      BY <1>15, RootsAre
    <3> QED
      <4> TAKE h \in RuleFibers'
      <4>1. CASE h = c
        BY <1>6, <3>1, <4>1
      <4>2. CASE h # c
        <5>1. h \in RuleFibers /\ fiber'[h].rule = fiber[h].rule
          BY <1>7, <1>8, <1>9, <4>2
        <5> QED
          BY <1>2, <5>1 DEF OneFiringInFlight
      <4> QED
        BY <4>1, <4>2
  <2>5. \A q \in Roots : active[q] # NoFiber => state'[active[q]] \in Alive /\ fiber'[active[q]].rule = q
    <3>1. \A q \in Roots : active[q] # NoFiber =>
             /\ active[q] \in FiberId /\ active[q] # c /\ Live(active[q])
             /\ fiber[active[q]].rule = q
      BY <1>1 DEF OneFiringInFlight, TypeOK
    <3> QED
      BY <1>3, <1>7, <3>1 DEF Live
  <2>6. active' = active
    BY <1>2
  <2> QED
    BY <2>2, <2>3, <2>4, <2>5, <2>6 DEF OneFiringInFlight, Live
<1> QED
  BY <1>10, <1>11, <1>12, <1>13, <1>16, <1>17

(* A root rule that fires again had no fiber, nor had any rule nested in   *)
(* it.                                                                     *)
LEMMA ThinkKeeps ==
    ASSUME BrainInv, TypeOK', NEW p \in Page, Think(p)
    PROVE  BrainInv'
<1> USE DEF BrainInv
<1>0. PICK rs \in InOrder(Due) : Starts(p, rs, FreshFibers(Len(rs)))
  BY ThinkStarts
<1> PICK fs : fs = FreshFibers(Len(rs))
  OBVIOUS
<1>1. Starts(p, rs, fs)
  BY <1>0
<1>2. NewFibers(rs, fs)
  BY <1>1, StartedAre DEF Starts
<1> DEFINE New == {f \in FiberId : \E i \in DOMAIN rs : f = fs[i]}
<1>3. /\ \A i \in DOMAIN rs : fs[i] \in New /\ fs[i] \in FiberId
      /\ \A i, j \in DOMAIN rs : rs[i] = rs[j] => i = j
      /\ \A i \in DOMAIN rs : /\ rs[i] \in Rule /\ Parent[rs[i]] = NoRule /\ rs[i] \in Roots
                              /\ PageOf[rs[i]] = current /\ FiresAgain(rs[i])
  BY <1>2, DueAre DEF NewFibers
<1>4. \A i \in DOMAIN rs :
         /\ state'[fs[i]] = "RUNNABLE" /\ fiber'[fs[i]].rule = rs[i] /\ fiber'[fs[i]].kids = 0
         /\ fiber'[fs[i]].caller = NoFiber /\ fiber'[fs[i]].trigger = "none"
         /\ fiber'[fs[i]].pc = "start"
  <2> TAKE i \in DOMAIN rs
  <2>1. state'[fs[i]] = "RUNNABLE" /\ fiber'[fs[i]] = [Blank EXCEPT !.rule = rs[i]]
    BY <1>2 DEF NewFibers
  <2> QED
    BY <2>1 DEF Blank
<1>5. /\ \A f \in New : ~Live(f) /\ state'[f] \in Alive
      /\ \A f \in FiberId \ New : state'[f] = state[f] /\ fiber'[f] = fiber[f]
  <2>1. \A i \in DOMAIN rs : ~Live(fs[i]) /\ state'[fs[i]] \in Alive
    BY <1>2 DEF NewFibers, Alive
  <2>2. \A f \in FiberId : (\E i \in DOMAIN rs : f = fs[i])
                           \/ (state'[f] = state[f] /\ fiber'[f] = fiber[f])
    BY <1>2 DEF NewFibers
  <2> QED
    BY <2>1, <2>2
<1>6. \A f \in New : \E i \in DOMAIN rs : f = fs[i]
  OBVIOUS
<1> HIDE DEF New
<1>7. New \subseteq FiberId
  BY DEF New
<1>8. /\ watcher' = watcher /\ current' = current
      /\ active' = [r \in Roots |-> IF r \in ToSet(rs)
                                  THEN fs[CHOOSE i \in DOMAIN rs : rs[i] = r] ELSE active[r]]
  BY <1>1 DEF Starts
<1>9. \A h \in FiberId : Live(h)' <=> Live(h) \/ h \in New
  BY <1>5, <1>7 DEF Live
<1>10. RuleFibers' = RuleFibers \cup New
  <2>1. \A h \in New : fiber'[h].pc # "action"
    BY <1>4, <1>6
  <2>2. \A h \in FiberId \ New : h \in RuleFibers' <=> h \in RuleFibers
    BY <1>5, <1>9 DEF RuleFibers
  <2>3. RuleFibers' \subseteq FiberId /\ RuleFibers \subseteq FiberId
    BY DEF RuleFibers
  <2>4. New \subseteq RuleFibers' /\ RuleFibers \cap New = {}
    BY <1>5, <1>7, <1>9, <2>1 DEF RuleFibers
  <2> QED
    BY <2>2, <2>3, <2>4
<1>11. \A h \in RuleFibers : /\ h \in FiberId /\ h \notin New /\ fiber[h].rule \in Rule
                             /\ fiber'[h] = fiber[h]
  BY <1>5 DEF RuleFibers, Settled
<1>12. Settled'
  <2> SUFFICES ASSUME NEW h \in FiberId
               PROVE  IF Live(h)' THEN fiber'[h].rule \in Rule ELSE fiber'[h] = Blank
    BY DEF Settled
  <2>1. CASE h \in New
    BY <1>3, <1>4, <1>6, <1>9, <2>1
  <2>2. CASE h \notin New
    BY <1>5, <1>9, <2>2 DEF Settled
  <2> QED
    BY <2>1, <2>2
<1>13. Called'
  <2> SUFFICES ASSUME NEW h \in FiberId, fiber'[h].caller # NoFiber
               PROVE  fiber'[h].pc = "action" /\ fiber'[h].caller \in RuleFibers'
    BY DEF Called
  <2>1. h \notin New
    BY <1>4, <1>6
  <2> QED
    BY <1>5, <1>10, <2>1 DEF Called
<1>14. Watched'
  <2>1. ASSUME NEW q \in Rule, NEW h \in FiberId, watcher'[q] = h
        PROVE  Asks(h, q)'
    <3>1. Asks(h, q)
      BY <1>8, <2>1 DEF Watched
    <3>2. h \notin New
      BY <1>5, <3>1 DEF Asks
    <3> QED
      BY <1>5, <1>9, <3>1, <3>2 DEF Asks
  <2>2. ASSUME NEW h \in FiberId, fiber'[h].trigger = "pending"
        PROVE  \E q \in Rule : watcher'[q] = h
    <3>1. h \notin New
      BY <1>4, <1>6, <2>2
    <3> QED
      BY <1>5, <1>8, <2>2, <3>1 DEF Watched
  <2> QED
    BY <2>1, <2>2 DEF Watched, Asks
<1>15. TriggerWillBeAnswered'
  <2>1. \A q : Cluster(q) \subseteq Cluster(q)'
    BY <1>5, <1>9 DEF Cluster
  <2>2. \A h \in FiberId : fiber'[h].trigger = "pending" =>
           watcher'[PrecedingSibling[fiber'[h].rule]] = h
    <3> TAKE h \in FiberId
    <3> HAVE fiber'[h].trigger = "pending"
    <3>1. h \notin New
      BY <1>4, <1>6
    <3> QED
      BY <1>5, <1>8, <3>1 DEF TriggerWillBeAnswered
  <2> QED
    BY <1>8, <2>1, <2>2 DEF TriggerWillBeAnswered, HasLiveSubtree
(* Nothing of a rule that fires again is in flight.                        *)
<1>16. \A i \in DOMAIN rs : \A h \in RuleFibers : rs[i] \notin Within[fiber[h].rule]
  <2> SUFFICES ASSUME NEW i \in DOMAIN rs, NEW h \in RuleFibers,
                      rs[i] \in Within[fiber[h].rule]
               PROVE  FALSE
    OBVIOUS
  <2> PICK r \in Rule : r = fiber[h].rule
    BY <1>11
  <2>1. active[rs[i]] = NoFiber /\ ~HasLiveDescendantOfRoot(rs[i])
    BY <1>3 DEF FiresAgain
  <2>2. RootOf[r] = rs[i]
    BY <1>3, OneRoot
  <2>3. CASE Parent[r] = NoRule
    <3>1. r = rs[i]
      BY <2>2, <2>3, RootOfRoot
    <3>2. active[rs[i]] = h
      <4>1. rs[i] \in Roots /\ fiber[h].rule = rs[i]
        BY <1>3, <3>1
      <4>2. fiber[h].rule \in Roots => active[fiber[h].rule] = h
        BY DEF OneFiringInFlight
      <4> QED
        BY <4>1, <4>2
    <3> QED
      BY <1>11, <2>1, <3>2, FibersAssumption
  <2>4. CASE Parent[r] # NoRule
    BY <2>1, <2>2, <2>4 DEF HasLiveDescendantOfRoot
  <2> QED
    BY <2>3, <2>4
<1>17. Unspawned'
  <2> SUFFICES ASSUME NEW g \in RuleFibers', NEW h \in RuleFibers',
                      NEW m \in DOMAIN ChildRules[fiber'[g].rule], m > fiber'[g].kids
               PROVE  ChildRules[fiber'[g].rule][m] \notin Within[fiber'[h].rule]
    BY DEF Unspawned
  <2> PICK q : q = fiber'[g].rule
    OBVIOUS
  <2> PICK d : d = ChildRules[q][m]
    OBVIOUS
  <2>1. q \in Rule /\ d \in Rule /\ Parent[d] = q /\ Parent[d] # NoRule
    <3>1. q \in Rule
      BY <1>3, <1>4, <1>6, <1>10, <1>11
    <3> QED
      BY <3>1, ChildRule, RuleProgramAssumption
  <2>2. CASE h \in New
    <3> PICK i \in DOMAIN rs : h = fs[i]
      BY <1>6, <2>2
    <3>1. Within[fiber'[h].rule] = {rs[i]} /\ Parent[rs[i]] = NoRule
      BY <1>3, <1>4, WithinRoot
    <3> QED
      BY <2>1, <3>1
  <2>3. CASE g \notin New /\ h \notin New
    BY <1>10, <1>11, <2>3 DEF Unspawned
  <2>4. CASE g \in New /\ h \notin New
    <3> PICK i \in DOMAIN rs : g = fs[i]
      BY <1>6, <2>4
    <3>1. q = rs[i]
      BY <1>4
    <3>2. h \in RuleFibers /\ fiber'[h] = fiber[h] /\ fiber[h].rule \in Rule
      BY <1>10, <1>11, <2>4
    <3>3. d \in Within[fiber[h].rule] => q \in Within[fiber[h].rule]
      BY <2>1, <3>2, WithinParent
    <3> QED
      BY <1>16, <3>1, <3>2, <3>3
  <2> QED
    BY <2>2, <2>3, <2>4
<1>18. \A i \in DOMAIN rs : active'[rs[i]] = fs[i]
  <2> TAKE i \in DOMAIN rs
  <2>1. rs[i] \in ToSet(rs) /\ rs[i] \in Roots
    BY <1>3 DEF ToSet
  <2>2. (CHOOSE j \in DOMAIN rs : rs[j] = rs[i]) = i
    BY <1>3
  <2> QED
    BY <1>8, <2>1, <2>2
<1>19. \A r \in Roots : (\E i \in DOMAIN rs : r = rs[i]) \/ active'[r] = active[r]
  BY <1>8 DEF ToSet
<1>20. OneFiringInFlight'
  <2>1. \A i \in DOMAIN rs : \A h \in RuleFibers : fiber[h].rule # rs[i]
    BY <1>11, <1>16, WithinSelf
  <2>2. ASSUME NEW g \in RuleFibers', NEW h \in RuleFibers', fiber'[g].rule = fiber'[h].rule
        PROVE  g = h
    <3>1. CASE g \in New /\ h \in New
      BY <1>3, <1>4, <1>6, <2>2, <3>1
    <3>2. CASE g \in New /\ h \notin New
      BY <1>4, <1>6, <1>10, <1>11, <2>1, <2>2, <3>2
    <3>3. CASE g \notin New /\ h \in New
      BY <1>4, <1>6, <1>10, <1>11, <2>1, <2>2, <3>3
    <3>4. CASE g \notin New /\ h \notin New
      BY <1>10, <1>11, <2>2, <3>4 DEF OneFiringInFlight
    <3> QED
      BY <3>1, <3>2, <3>3, <3>4
  <2>3. ASSUME NEW h \in RuleFibers'
        PROVE  /\ PageOf[fiber'[h].rule] = current'
               /\ fiber'[h].rule \in Roots => active'[fiber'[h].rule] = h
    <3>1. CASE h \in New
      <4> PICK i \in DOMAIN rs : h = fs[i]
        BY <1>6, <3>1
      <4> QED
        <5>1. fiber'[h].rule = rs[i]
          BY <1>4
        <5>2. PageOf[rs[i]] = current' /\ active'[rs[i]] = h
          BY <1>3, <1>8, <1>18
        <5> QED
          BY <5>1, <5>2
    <3>2. CASE h \notin New
      <4>1. h \in RuleFibers /\ fiber'[h].rule = fiber[h].rule
        BY <1>10, <1>11, <3>2
      <4>2. \A i \in DOMAIN rs : fiber[h].rule # rs[i]
        BY <2>1, <4>1
      <4>3. PageOf[fiber[h].rule] = current /\ (fiber[h].rule \in Roots => active[fiber[h].rule] = h)
        BY <4>1 DEF OneFiringInFlight
      <4>4. fiber[h].rule \in Roots => active'[fiber[h].rule] = active[fiber[h].rule]
        BY <1>19, <4>2
      <4> QED
        BY <1>8, <4>1, <4>3, <4>4
    <3> QED
      BY <3>1, <3>2
  <2>4. ASSUME NEW r \in Roots, NEW h, active'[r] = h, h # NoFiber
        PROVE  state'[h] \in Alive /\ fiber'[h].rule = r
    <3>1. CASE \E i \in DOMAIN rs : r = rs[i]
      <4> PICK i \in DOMAIN rs : r = rs[i]
        BY <3>1
      <4>1. h = fs[i]
        BY <1>18, <2>4
      <4> QED
        BY <1>4, <4>1 DEF Alive
    <3>2. CASE active'[r] = active[r]
      <4>1. Live(h) /\ fiber[h].rule = r /\ h \in FiberId
        BY <2>4, <3>2 DEF OneFiringInFlight, TypeOK
      <4>2. h \notin New
        BY <1>5, <4>1
      <4> QED
        BY <1>5, <4>1, <4>2 DEF Live
    <3> QED
      BY <1>19, <3>1, <3>2
  <2> QED
    BY <2>2, <2>3, <2>4 DEF OneFiringInFlight, Live
<1> QED
  BY <1>12, <1>13, <1>14, <1>15, <1>17, <1>20

-----------------------------------------------------------------------------
(* Steps that end fibers.                                                  *)

(* Who is told of the end asked for it, and so is alive.                   *)
LEMMA ToldAreLive ==
    ASSUME BrainInv, NEW gone \in SUBSET FiberId, \A f \in gone : Live(f)
    PROVE  /\ \A f \in Askers(gone) : \E r \in Emptied(gone) : watcher[r] = f /\ Asks(f, r)
           /\ \A f \in Callers(gone) : f \in RuleFibers
<1> USE DEF BrainInv
<1>1. ASSUME NEW f \in Askers(gone)
      PROVE  \E r \in Emptied(gone) : watcher[r] = f /\ Asks(f, r)
  <2>1. PICK r \in Emptied(gone) : watcher[r] = f
    BY DEF Askers
  <2>2. r \in Rule /\ f \in FiberId
    BY KinType
  <2> QED
    BY <2>1, <2>2 DEF Watched
<1>2. \A f \in Callers(gone) : f \in RuleFibers
  BY DEF Callers, Called
<1> QED
  BY <1>1, <1>2

Ending(gone, final) ==
    /\ BrainInv /\ TypeOK'
    /\ gone \in SUBSET FiberId /\ final \in Terminal /\ \A f \in gone : Live(f)
    /\ EndFibers(gone, final)

LEMMA EndedAre ==
    ASSUME NEW gone, NEW final, Ending(gone, final)
    PROVE  \A f \in FiberId :
              IF f \in gone
                THEN state'[f] \notin Alive /\ fiber'[f] = Blank
                ELSE /\ Live(f)' <=> Live(f)
                     /\ fiber'[f].rule = fiber[f].rule
                     /\ fiber'[f].kids = fiber[f].kids
                     /\ fiber'[f].caller = IF fiber[f].caller \in gone THEN NoFiber
                                           ELSE fiber[f].caller
                     /\ fiber'[f].pc = "action" <=> fiber[f].pc = "action"
                     /\ fiber'[f].trigger = "pending" => f \notin Askers(gone)
                     /\ f \notin Askers(gone) => /\ fiber'[f].trigger = fiber[f].trigger
                                                 /\ fiber'[f].pc = fiber[f].pc
                     /\ ~Live(f) => fiber'[f] = Blank
<1> USE DEF Ending
<1> TAKE f \in FiberId
<1>1. CASE f \in gone
  BY <1>1 DEF EndFibers, Over, Alive, Terminal
<1>2. CASE f \notin gone
  <2>1. fiber'[f] =
             [rule    |-> fiber[f].rule,
              pc      |-> IF f \in WaitingAskers(gone) THEN
                             IF Completed(f, gone, final) THEN "when" ELSE "unarmed"
                          ELSE fiber[f].pc,
              kids    |-> fiber[f].kids,
              waits   |-> IF f \in WaitingAskers(gone) \cup Callers(gone) THEN "nothing"
                          ELSE fiber[f].waits,
              caller  |-> IF fiber[f].caller \in gone THEN NoFiber ELSE fiber[f].caller,
              trigger |-> IF f \in WaitingAskers(gone) THEN "none"
                          ELSE IF f \in Askers(gone) THEN
                             IF Completed(f, gone, final) THEN "true" ELSE "false"
                          ELSE fiber[f].trigger]
    BY <1>2, EndedFiber
  <2>2. f \in WaitingAskers(gone) => f \in Askers(gone)
    BY KinType
  <2>3. f \in Askers(gone) => Live(f) /\ fiber[f].pc = "asked"
    BY ToldAreLive DEF Asks
  <2>4. f \in Callers(gone) => Live(f)
    BY ToldAreLive DEF RuleFibers
  <2>5. Live(f)' <=> Live(f)
    BY <1>2, <2>2, <2>3, <2>4 DEF EndFibers, Live, Alive
  <2>6. ASSUME ~Live(f)
        PROVE  fiber'[f] = Blank
    <3>1. f \notin WaitingAskers(gone) /\ f \notin Askers(gone) /\ f \notin Callers(gone)
      BY <2>2, <2>3, <2>4, <2>6
    <3>2. fiber[f] = Blank /\ NoFiber \notin gone
      BY <2>6, FibersAssumption DEF BrainInv, Settled
    <3> QED
      BY <2>1, <3>1, <3>2 DEF Blank
  <2>7. fiber'[f].rule = fiber[f].rule /\ fiber'[f].kids = fiber[f].kids
        /\ fiber'[f].caller = IF fiber[f].caller \in gone THEN NoFiber ELSE fiber[f].caller
    BY <2>1
  <2>8. fiber'[f].pc = "action" <=> fiber[f].pc = "action"
    BY <2>1, <2>2, <2>3
  <2>9. /\ fiber'[f].trigger = "pending" => f \notin Askers(gone)
        /\ f \notin Askers(gone) => /\ fiber'[f].trigger = fiber[f].trigger
                                    /\ fiber'[f].pc = fiber[f].pc
    BY <2>1, <2>2
  <2> QED
    BY <1>2, <2>5, <2>6, <2>7, <2>8, <2>9
<1> QED
  BY <1>1, <1>2

(* The settle walk leaves no question open about a cluster that is over,   *)
(* and closes none about a cluster in flight.                              *)
LEMMA EndKeepsTriggers ==
    ASSUME NEW gone, NEW final, Ending(gone, final)
    PROVE  Watched' /\ TriggerWillBeAnswered'
<1> USE DEF Ending, BrainInv
<1>1. \A r \in Rule : watcher'[r] = IF r \in Emptied(gone) THEN NoFiber
                                    ELSE IF watcher[r] \in gone THEN Stale ELSE watcher[r]
  BY DEF EndFibers
<1>2. Emptied(gone) \in SUBSET Rule /\ Askers(gone) \in SUBSET FiberId
      /\ NoFiber \notin FiberId /\ Stale \notin FiberId
  BY KinType, FibersAssumption, BrainRuntimeAssumption
<1>3. ASSUME NEW q \in Rule, NEW f \in FiberId, watcher'[q] = f
      PROVE  Asks(f, q)'
  <2>1. q \notin Emptied(gone) /\ watcher[q] = f /\ f \notin gone
    BY <1>1, <1>2, <1>3
  <2>2. Asks(f, q)
    BY <2>1 DEF Watched
  <2>3. f \notin Askers(gone)
    BY <2>1, <2>2, ToldAreLive DEF Asks
  <2> QED
    BY <2>1, <2>2, <2>3, EndedAre DEF Asks
<1>4. ASSUME NEW f \in FiberId, fiber'[f].trigger = "pending"
      PROVE  \E q \in Rule : watcher'[q] = f
  <2>1. f \notin gone
    BY <1>4, EndedAre DEF Blank
  <2>2. f \notin Askers(gone) /\ fiber[f].trigger = "pending"
    BY <1>4, <2>1, EndedAre
  <2>3. PICK q \in Rule : watcher[q] = f
    BY <2>2 DEF Watched
  <2>4. q \notin Emptied(gone)
    BY <1>2, <2>1, <2>2, <2>3 DEF Askers
  <2> QED
    BY <1>1, <2>1, <2>3, <2>4
<1>5. Watched'
  BY <1>3, <1>4 DEF Watched, Asks
<1>6. ASSUME NEW f \in FiberId, fiber'[f].trigger = "pending"
      PROVE  watcher'[PrecedingSibling[fiber'[f].rule]] = f
  <2>1. PICK q \in Rule : watcher'[q] = f
    BY <1>4, <1>6
  <2>2. PrecedingSibling[fiber'[f].rule] = q
    BY <1>3, <2>1 DEF Asks
  <2> QED
    BY <2>1, <2>2
<1>7. ASSUME NEW q \in Rule, watcher'[q] # NoFiber
      PROVE  Cluster(q)' # {}
  <2>1. q \notin Emptied(gone) /\ watcher[q] # NoFiber
    BY <1>1, <1>2, <1>7
  <2>2. PICK f \in Cluster(q) : f \notin gone
    <3>1. CASE q \in Kin(gone)
      BY <2>1, <3>1 DEF Emptied, HasLiveSubtree
    <3>2. CASE q \notin Kin(gone)
      <4>1. Cluster(q) # {}
        BY <2>1 DEF TriggerWillBeAnswered, HasLiveSubtree
      <4>2. \A f \in Cluster(q) : f \notin gone
        BY <3>2 DEF Cluster, Kin
      <4> QED
        BY <4>1, <4>2
    <3> QED
      BY <3>1, <3>2
  <2>3. f \in FiberId /\ Live(f) /\ q \in Within[fiber[f].rule]
    BY DEF Cluster
  <2>4. Live(f)' /\ fiber'[f].rule = fiber[f].rule
    BY <2>2, <2>3, EndedAre
  <2>5. f \in Cluster(q)'
    BY <2>3, <2>4 DEF Cluster
  <2> QED
    BY <2>5
<1>8. TriggerWillBeAnswered'
  BY <1>6, <1>7 DEF TriggerWillBeAnswered, HasLiveSubtree
<1> QED
  BY <1>5, <1>8

LEMMA EndKeeps ==
    ASSUME NEW gone, NEW final, Ending(gone, final),
           current' = current \/ RuleFibers \subseteq gone
    PROVE  BrainInv'
<1> USE DEF Ending, BrainInv
<1>1. RuleFibers' = RuleFibers \ gone
  BY EndedAre DEF RuleFibers, Live
<1>2. \A f \in RuleFibers' : /\ f \in FiberId \ gone /\ f \in RuleFibers
                            /\ fiber'[f].rule = fiber[f].rule
                            /\ fiber'[f].kids = fiber[f].kids
  BY <1>1, EndedAre DEF RuleFibers
<1>3. Settled'
  BY EndedAre DEF Settled, Live
<1>4. Called'
  <2> SUFFICES ASSUME NEW f \in FiberId, fiber'[f].caller # NoFiber
               PROVE  fiber'[f].pc = "action" /\ fiber'[f].caller \in RuleFibers'
    BY DEF Called
  <2>1. f \notin gone
    BY EndedAre DEF Blank
  <2>2. fiber'[f].caller = fiber[f].caller /\ fiber[f].caller \notin gone
    BY <2>1, EndedAre
  <2> QED
    BY <1>1, <2>1, <2>2, EndedAre DEF Called
<1>5. Unspawned'
  BY <1>2 DEF Unspawned
<1>6. OneFiringInFlight'
  <2>1. \A r \in Roots : active'[r] = IF active[r] \in gone THEN NoFiber ELSE active[r]
    BY DEF EndFibers
  <2>2. \A f, g \in RuleFibers' : fiber'[f].rule = fiber'[g].rule => f = g
    BY <1>2 DEF OneFiringInFlight
  <2>3. \A f \in RuleFibers' : PageOf[fiber'[f].rule] = current'
    BY <1>1, <1>2 DEF OneFiringInFlight
  <2>4. \A f \in RuleFibers' : fiber'[f].rule \in Roots => active'[fiber'[f].rule] = f
    BY <1>2, <2>1 DEF OneFiringInFlight
  <2>5. ASSUME NEW r \in Roots, active'[r] # NoFiber
        PROVE  state'[active'[r]] \in Alive /\ fiber'[active'[r]].rule = r
    <3> PICK f : f = active[r]
      OBVIOUS
    <3>1. active'[r] = f /\ f \notin gone /\ f \in FiberId
      BY <2>1, <2>5 DEF TypeOK
    <3>2. Live(f) /\ fiber[f].rule = r
      BY <2>5, <3>1 DEF OneFiringInFlight
    <3> QED
      BY <3>1, <3>2, EndedAre DEF Live
  <2> QED
    BY <2>2, <2>3, <2>4, <2>5 DEF OneFiringInFlight, Live
<1> QED
  BY <1>3, <1>4, <1>5, <1>6, EndKeepsTriggers

LEMMA PageRequestKeeps ==
    ASSUME BrainInv, TypeOK', NEW p \in Page, RequestPage(p) \/ LeavePage(p)
    PROVE  BrainInv'
<1>1. Ending(PageFibers, "CANCELLED")
  BY PageFibersLive DEF RequestPage, LeavePage, Ending, Terminal
<1>2. RuleFibers \subseteq PageFibers
  BY PageFibersLive
<1> QED
  BY <1>1, <1>2, EndKeeps

LEMMA EndWithKeeps ==
    ASSUME BrainInv, TypeOK', NEW f \in FiberId, Executing(f), NEW final \in Terminal,
           EndWith(f, final)
    PROVE  BrainInv'
<1> PICK gone : gone = {f}
  OBVIOUS
<1>1. Ending(gone, final)
  BY DEF EndWith, Ending, Executing, Live, Alive
<1>2. current' = current
  BY DEF EndWith
<1> QED
  BY <1>1, <1>2, EndKeeps

-----------------------------------------------------------------------------
(* The invariant holds.                                                    *)

(* No rule is due when an entry hook of the first page threw.              *)
FirstRules == IF threw = {} THEN Pages[1] ELSE << >>

(* The root rules rs of the first page run in the fibers fs.               *)
FirstFibers(rs, fs) ==
    /\ rs = FirstRules /\ 1 \in Page /\ \A i \in DOMAIN rs : rs = Pages[1]
    /\ rs \in Seq(Rule) /\ Len(rs) \in Nat /\ DOMAIN rs = 1 .. Len(rs)
    /\ \A i \in DOMAIN rs : /\ rs[i] \in Rule /\ Parent[rs[i]] = NoRule /\ PageOf[rs[i]] = 1
                            /\ rs[i] \in Roots
    /\ \A i, j \in DOMAIN rs : i < j => rs[i] < rs[j]
    /\ \A i, j \in DOMAIN rs : rs[i] = rs[j] => i = j
    /\ fs \in [DOMAIN rs -> FiberId] /\ \A i, j \in DOMAIN rs : fs[i] = fs[j] => i = j
    /\ fs \in Seq(FiberId) /\ DOMAIN fs = DOMAIN rs
    /\ \A f \in FiberId : f \in ToSet(fs) <=> \E i \in DOMAIN rs : f = fs[i]
    /\ \A i \in DOMAIN rs : /\ state[fs[i]] = "RUNNABLE"
                            /\ fiber[fs[i]] = [Blank EXCEPT !.rule = rs[i]]
    /\ \A f \in FiberId : (\E i \in DOMAIN rs : f = fs[i])
                          \/ (state[f] = "absent" /\ fiber[f] = Blank)

LEMMA FirstFibersAre ==
    ASSUME Init
    PROVE  FirstFibers(FirstRules, CHOOSE s \in Lists(Len(FirstRules), FiberId) : TRUE)
<1> PICK rs : rs = FirstRules
  OBVIOUS
<1> PICK fs : fs = CHOOSE s \in Lists(Len(rs), FiberId) : TRUE
  OBVIOUS
<1>1. /\ 1 \in Page /\ rs \in Seq(Rule) /\ Len(rs) \in Nat /\ DOMAIN rs = 1 .. Len(rs)
      /\ \A i, j \in DOMAIN rs : i < j => rs[i] < rs[j]
      /\ \A i \in DOMAIN rs : rs = Pages[1]
  BY RuleProgramAssumption DEF Page, Ascending, FirstRules
<1>2. \A i \in DOMAIN rs : /\ rs[i] \in Rule /\ Parent[rs[i]] = NoRule /\ PageOf[rs[i]] = 1
                           /\ rs[i] \in Roots
  <2> TAKE i \in DOMAIN rs
  <2>1. rs[i] \in ToSet(Pages[1])
    BY <1>1 DEF ToSet
  <2> QED
    BY <1>1, <2>1, PageOfRoot, RootsAre
<1>3. \A i, j \in DOMAIN rs : rs[i] = rs[j] => i = j
  <2> SUFFICES ASSUME NEW i \in DOMAIN rs, NEW j \in DOMAIN rs, i # j
               PROVE  rs[i] # rs[j]
    OBVIOUS
  <2>1. rs[i] \in Nat /\ rs[j] \in Nat
    BY <1>2, RuleProgramAssumption
  <2>2. i < j \/ j < i
    BY <1>1
  <2> QED
    BY <1>1, <2>1, <2>2
<1>4. fs \in Lists(Len(rs), FiberId)
  BY DEF Init, FirstRules
<1>5. fs \in [DOMAIN rs -> FiberId] /\ \A i, j \in DOMAIN rs : fs[i] = fs[j] => i = j
  BY <1>1, <1>4 DEF Lists, Injection, IsInjective
<1>6. fs \in Seq(FiberId) /\ DOMAIN fs = DOMAIN rs
  BY <1>1, <1>5
<1>7. \A f \in FiberId : f \in ToSet(fs) <=> \E i \in DOMAIN rs : f = fs[i]
  BY <1>6 DEF ToSet
<1>8. /\ state = [f \in FiberId |-> IF f \in ToSet(fs) THEN "RUNNABLE" ELSE "absent"]
      /\ fiber = [f \in FiberId |-> IF f \in ToSet(fs)
                     THEN [Blank EXCEPT !.rule = rs[CHOOSE i \in DOMAIN fs : fs[i] = f]]
                     ELSE Blank]
      /\ active = [r \in Roots |-> IF r \in ToSet(rs)
                     THEN fs[CHOOSE i \in DOMAIN rs : rs[i] = r] ELSE NoFiber]
      /\ runQueue = fs /\ spawned = << >> /\ cascade = << >>
      /\ round = 0 /\ running = NoFiber /\ phase = "idle"
      /\ firing = [r \in Rule |-> "INITIAL"] /\ watcher = [r \in Rule |-> NoFiber]
      /\ abandoned = {} /\ current = 1 /\ desired \in Requested \cup {1} /\ entering = FALSE
      /\ threw \subseteq {"entry", "exit"}
  BY DEF Init, FirstRules
<1>9. \A i \in DOMAIN rs : state[fs[i]] = "RUNNABLE" /\ fiber[fs[i]] = [Blank EXCEPT !.rule = rs[i]]
  <2> TAKE i \in DOMAIN rs
  <2>1. fs[i] \in FiberId /\ fs[i] \in ToSet(fs)
    BY <1>5, <1>7
  <2>2. (CHOOSE j \in DOMAIN fs : fs[j] = fs[i]) = i
    BY <1>5, <1>6
  <2> QED
    BY <1>8, <2>1, <2>2
<1>10. \A f \in FiberId : (\E i \in DOMAIN rs : f = fs[i])
                          \/ (state[f] = "absent" /\ fiber[f] = Blank)
  BY <1>7, <1>8
<1>11. FirstFibers(rs, fs)
  BY <1>1, <1>2, <1>3, <1>5, <1>6, <1>7, <1>9, <1>10 DEF FirstFibers
<1> QED
  BY <1>11

LEMMA InitInv ==
    ASSUME Init
    PROVE  BrainInv
<1> PICK rs : rs = FirstRules
  OBVIOUS
<1> PICK fs : fs = CHOOSE s \in Lists(Len(rs), FiberId) : TRUE
  OBVIOUS
<1>0. FirstFibers(rs, fs)
  BY FirstFibersAre
<1>1. /\ 1 \in Page /\ rs \in Seq(Rule) /\ Len(rs) \in Nat /\ DOMAIN rs = 1 .. Len(rs)
      /\ \A i, j \in DOMAIN rs : i < j => rs[i] < rs[j]
  BY <1>0 DEF FirstFibers
<1>2. \A i \in DOMAIN rs : /\ rs[i] \in Rule /\ Parent[rs[i]] = NoRule /\ PageOf[rs[i]] = 1
                           /\ rs[i] \in Roots
  BY <1>0 DEF FirstFibers
<1>3. \A i, j \in DOMAIN rs : rs[i] = rs[j] => i = j
  BY <1>0 DEF FirstFibers
<1>5. fs \in [DOMAIN rs -> FiberId] /\ \A i, j \in DOMAIN rs : fs[i] = fs[j] => i = j
  BY <1>0 DEF FirstFibers
<1>6. fs \in Seq(FiberId) /\ DOMAIN fs = DOMAIN rs
  BY <1>0 DEF FirstFibers
<1>8. /\ state = [f \in FiberId |-> IF f \in ToSet(fs) THEN "RUNNABLE" ELSE "absent"]
      /\ fiber = [f \in FiberId |-> IF f \in ToSet(fs)
                     THEN [Blank EXCEPT !.rule = rs[CHOOSE i \in DOMAIN fs : fs[i] = f]]
                     ELSE Blank]
      /\ active = [r \in Roots |-> IF r \in ToSet(rs)
                     THEN fs[CHOOSE i \in DOMAIN rs : rs[i] = r] ELSE NoFiber]
      /\ runQueue = fs /\ spawned = << >> /\ cascade = << >>
      /\ round = 0 /\ running = NoFiber /\ phase = "idle"
      /\ firing = [r \in Rule |-> "INITIAL"] /\ watcher = [r \in Rule |-> NoFiber]
      /\ abandoned = {} /\ current = 1 /\ desired \in Requested \cup {1} /\ entering = FALSE
      /\ threw \subseteq {"entry", "exit"}
  BY DEF Init, FirstRules
<1>9. \A i \in DOMAIN rs : state[fs[i]] = "RUNNABLE" /\ fiber[fs[i]] = [Blank EXCEPT !.rule = rs[i]]
  BY <1>0 DEF FirstFibers
<1>10. \A f \in FiberId : (\E i \in DOMAIN rs : f = fs[i])
                          \/ (state[f] = "absent" /\ fiber[f] = Blank)
  BY <1>0 DEF FirstFibers
<1>11. \A f \in FiberId : /\ fiber[f].caller = NoFiber /\ fiber[f].trigger = "none"
                          /\ fiber[f].pc = "start"
                          /\ Live(f) => \E i \in DOMAIN rs : f = fs[i]
  <2>1. ASSUME NEW i \in DOMAIN rs
        PROVE  /\ fiber[fs[i]].caller = NoFiber /\ fiber[fs[i]].trigger = "none"
               /\ fiber[fs[i]].pc = "start"
    <3>1. fiber[fs[i]] = [Blank EXCEPT !.rule = rs[i]]
      BY <1>9
    <3> QED
      BY <3>1 DEF Blank
  <2> QED
    BY <1>10, <2>1 DEF Blank, Live, Alive
<1>12. \A i \in DOMAIN rs : Live(fs[i]) /\ fiber[fs[i]].rule = rs[i] /\ fs[i] \in FiberId
  <2> TAKE i \in DOMAIN rs
  <2>1. fiber[fs[i]] = [Blank EXCEPT !.rule = rs[i]] /\ state[fs[i]] = "RUNNABLE"
    BY <1>9
  <2> QED
    BY <1>5, <2>1 DEF Blank, Live, Alive
<1>13. \A f \in RuleFibers : f \in FiberId /\ \E i \in DOMAIN rs : f = fs[i]
  BY <1>11 DEF RuleFibers
<1>14. \A i \in DOMAIN rs : active[rs[i]] = fs[i]
  <2> TAKE i \in DOMAIN rs
  <2>1. rs[i] \in Roots /\ rs[i] \in ToSet(rs)
    BY <1>2 DEF ToSet
  <2>2. (CHOOSE j \in DOMAIN rs : rs[j] = rs[i]) = i
    BY <1>3
  <2> QED
    BY <1>8, <2>1, <2>2
<1>15. \A r \in Roots : active[r] = NoFiber \/ \E i \in DOMAIN rs : r = rs[i]
  BY <1>8 DEF ToSet
<1>16. TypeOK
  <2>1. fiber \in [FiberId -> Fiber]
    <3>1. \A f \in FiberId : fiber[f] \in Fiber
      <4> TAKE f \in FiberId
      <4>1. CASE fiber[f] = Blank
        BY <4>1, BlankType
      <4>2. CASE \E i \in DOMAIN rs : f = fs[i]
        <5> PICK i \in DOMAIN rs : f = fs[i]
          BY <4>2
        <5>1. fiber[f] = [Blank EXCEPT !.rule = rs[i]] /\ rs[i] \in Rule
          BY <1>2, <1>9
        <5> QED
          BY <5>1, StartedType
      <4> QED
        BY <1>10, <4>1, <4>2
    <3> QED
      BY <1>8, <3>1
  <2>2. active \in [Roots -> FiberId \cup {NoFiber}]
    <3>1. \A r \in Roots : active[r] \in FiberId \cup {NoFiber}
      BY <1>5, <1>14, <1>15
    <3> QED
      BY <1>8, <3>1
  <2>3. state \in [FiberId -> FiberState]
    BY <1>8 DEF FiberState, Alive
  <2>4. Len(runQueue) \in Nat /\ runQueue \in Seq(FiberId)
    BY <1>6, <1>8
  <2>5. QueueTypeOK
    BY <1>8, <2>3, <2>4 DEF QueueTypeOK
  <2>6. current \in Page /\ desired \in Page
    BY <1>1, <1>8, BrainRuntimeAssumption
  <2> QED
    BY <1>8, <2>1, <2>2, <2>5, <2>6 DEF TypeOK
<1>17. Settled
  <2> SUFFICES ASSUME NEW f \in FiberId
               PROVE  IF Live(f) THEN fiber[f].rule \in Rule ELSE fiber[f] = Blank
    BY DEF Settled
  <2>1. CASE Live(f)
    BY <1>2, <1>11, <1>12, <2>1
  <2>2. CASE ~Live(f)
    BY <1>10, <1>12, <2>2
  <2> QED
    BY <2>1, <2>2
<1>18. Called
  BY <1>11 DEF Called
<1>19. Watched
  BY <1>8, <1>11, FibersAssumption DEF Watched
<1>20. Unspawned
  <2> SUFFICES ASSUME NEW f \in RuleFibers, NEW g \in RuleFibers,
                      NEW n \in DOMAIN ChildRules[fiber[f].rule]
               PROVE  ChildRules[fiber[f].rule][n] \notin Within[fiber[g].rule]
    BY DEF Unspawned
  <2>1. /\ fiber[f].rule \in Rule
        /\ fiber[g].rule \in Rule /\ Parent[fiber[g].rule] = NoRule
    BY <1>2, <1>12, <1>13
  <2>2. Within[fiber[g].rule] = {fiber[g].rule}
    BY <2>1, WithinRoot
  <2>3. Parent[ChildRules[fiber[f].rule][n]] = fiber[f].rule
    BY <2>1, ChildRule
  <2> QED
    BY <2>1, <2>2, <2>3, RuleProgramAssumption
<1>21. OneFiringInFlight
  <2>1. \A f, g \in RuleFibers : fiber[f].rule = fiber[g].rule => f = g
    BY <1>3, <1>12, <1>13
  <2>2. \A f \in RuleFibers : PageOf[fiber[f].rule] = current
    <3> TAKE f \in RuleFibers
    <3>1. PICK i \in DOMAIN rs : f = fs[i]
      BY <1>13
    <3>2. fiber[f].rule = rs[i]
      BY <1>12, <3>1
    <3> QED
      BY <1>2, <1>8, <3>2
  <2>3. \A f \in RuleFibers : active[fiber[f].rule] = f
    BY <1>12, <1>13, <1>14
  <2>4. \A r \in Roots : active[r] # NoFiber => Live(active[r]) /\ fiber[active[r]].rule = r
    BY <1>12, <1>14, <1>15
  <2> QED
    BY <2>1, <2>2, <2>3, <2>4 DEF OneFiringInFlight
<1>22. TriggerWillBeAnswered
  BY <1>8, <1>11 DEF TriggerWillBeAnswered
<1> QED
  BY <1>16, <1>17, <1>18, <1>19, <1>20, <1>21, <1>22 DEF BrainInv

LEMMA BrainStep ==
    ASSUME BrainInv, [Next]_vars
    PROVE  BrainInv'
<1>0. TypeOK'
  BY TypeStep
<1>1. CASE \E p \in Page : RequestPage(p) \/ LeavePage(p) \/ Think(p)
  BY <1>0, <1>1, PageRequestKeeps, ThinkKeeps
<1>2. CASE RunNext \/ EndThink \/ Throws \/ UNCHANGED vars
  BY <1>0, <1>2, TickKeeps, KeptStep
<1>3. ASSUME NEW f \in FiberId, Instruction(f) \/ HostSettle(f)
      PROVE  BrainInv'
  <2>1. CASE Begin(f) \/ ReadSubject(f) \/ \E fired \in BOOLEAN : Gate(f, fired)
    BY <1>0, <2>1, InstructionsKeep, KeptStep
  <2>2. CASE \/ AwaitAnswer(f) \/ AwaitTrigger(f) \/ AwaitHost(f) \/ Yield(f)
             \/ LeaveCancelled(f) \/ ErrorEscapes(f) \/ HostSettle(f)
    BY <1>0, <2>2, SlicesKeep, KeptStep
  <2>3. CASE AskTrigger(f) \/ CallAction(f) \/ SpawnRule(f)
    BY <1>0, <2>3, AskTriggerKeeps, CallActionKeeps, SpawnRuleKeeps
  <2>4. CASE Return(f) \/ Fault(f)
    <3>1. PICK final \in Terminal : EndWith(f, final) /\ Executing(f)
      BY <2>4 DEF Return, Fault, Terminal
    <3> QED
      BY <1>0, <3>1, EndWithKeeps
  <2> QED
    BY <1>3, <2>1, <2>2, <2>3, <2>4 DEF Instruction
<1> QED
  BY <1>1, <1>2, <1>3 DEF Next, Throws

LEMMA BrainCorrect == Spec => []BrainInv
<1>1. Init => BrainInv
  BY InitInv
<1>2. BrainInv /\ [Next]_vars => BrainInv'
  BY BrainStep
<1> QED
  BY <1>1, <1>2, PTL DEF Spec

(* Every variable of the brain keeps its type: a page index stays in       *)
(* range, a slot names a fiber, a fiber's record describes one of the      *)
(* points a rule's code can have reached.                                  *)
THEOREM TypeCorrect == Spec => []TypeOK
<1>1. BrainInv => TypeOK
  BY DEF BrainInv
<1> QED
  BY <1>1, BrainCorrect, PTL

(* Whatever pages are requested, and from where, a rule has one firing in  *)
(* flight at most, only rules of the current page have one, and the page   *)
(* tracks those of its root rules.                                         *)
THEOREM OneFiringHolds == Spec => []OneFiringInFlight
<1>1. BrainInv => OneFiringInFlight
  BY DEF BrainInv
<1> QED
  BY <1>1, BrainCorrect, PTL

(* No `then` rule is forgotten: the slot of the rule above names the fiber *)
(* whose trigger is pending, and an occupied slot belongs to a cluster in  *)
(* flight, however clusters end and whoever cancels them.                  *)
THEOREM AnswersHold == Spec => []TriggerWillBeAnswered
<1>1. BrainInv => TriggerWillBeAnswered
  BY DEF BrainInv
<1> QED
  BY <1>1, BrainCorrect, PTL

-----------------------------------------------------------------------------
(* The order in which the rules of a page begin.  A rule whose subject has *)
(* not begun has not begun either, and the fiber of its subject is in      *)
(* front of its own in every queue.                                        *)

HasBegun(r) == Mode[r] = "always" \/ firing[r] # "INITIAL"

AtStart(f) == f \in RuleFibers /\ fiber[f].pc = "start"

Drain == ToSet(spawned) \cup ToSet(cascade)

Once(q) == \A i, j \in DOMAIN q : q[i] = q[j] => i = j

(* Wherever f is in q, g is in front of it.                                *)
Ahead(q, g, f) == \A j \in DOMAIN q : q[j] = f => \E i \in DOMAIN q : i < j /\ q[i] = g

AheadOf(g, f) == Ahead(runQueue, g, f) /\ Ahead(cascade, g, f) /\ Ahead(spawned, g, f)

FreshStarts ==
    \A f \in FiberId : AtStart(f) =>
        state[f] = "RUNNABLE" /\ fiber[f].kids = 0 /\ fiber[f].trigger = "none"

CallersBegun ==
    \A f \in FiberId : fiber[f].caller # NoFiber => fiber[fiber[f].caller].pc # "start"

(* A rule is nested in rules that have begun.                              *)
OuterBegun ==
    \A f \in FiberId : Live(f) =>
        \A a \in Within[fiber[f].rule] : a # fiber[f].rule \/ fiber[f].pc # "start" => HasBegun(a)

SliceInTick ==
    /\ phase = "idle" => running = NoFiber
    /\ running # NoFiber /\ state[running] = "CANCELLED" => RuleFibers = {}

(* The drain holds child rules that have not begun.                        *)
DrainAtStart ==
    /\ Once(spawned) /\ Once(cascade) /\ ToSet(spawned) \cap ToSet(cascade) = {}
    /\ running \notin Drain
    /\ \A f \in Drain : Live(f) => AtStart(f)
    /\ running = NoFiber => \A f \in ToSet(spawned) : ~Live(f)

RootsQueued ==
    \A f \in FiberId : AtStart(f) /\ Parent[fiber[f].rule] = NoRule =>
        f = running \/ f \in ToSet(runQueue)

(* A child rule that was spawned has begun or is about to, the children of *)
(* the running fiber after all the others that are to be drained.          *)
KidsAhead ==
    \A p \in RuleFibers : \A i \in DOMAIN ChildRules[fiber[p].rule] : i <= fiber[p].kids =>
        \/ HasBegun(ChildRules[fiber[p].rule][i])
        \/ \E g \in FiberId :
              /\ AtStart(g) /\ fiber[g].rule = ChildRules[fiber[p].rule][i]
              /\ IF running = p THEN g \in ToSet(spawned)
                                ELSE g = running \/ g \in ToSet(cascade)

(* The fiber of the rule above is running, or in front of f.               *)
SubjectFirst(f) ==
    \E g \in FiberId : /\ AtStart(g) /\ fiber[g].rule = PrecedingSibling[fiber[f].rule]
                       /\ g = running \/ AheadOf(g, f)

SubjectsAhead ==
    \A f \in RuleFibers :
        LET s == PrecedingSibling[fiber[f].rule]
        IN  s # NoRule /\ ~HasBegun(s) => AtStart(f) /\ f # running /\ SubjectFirst(f)

OrderInv ==
    /\ FreshStarts /\ CallersBegun /\ OuterBegun /\ SliceInTick
    /\ DrainAtStart /\ RootsQueued /\ KidsAhead /\ SubjectsAhead

LEMMA OrderSound == OrderInv => InitialRecordUnread
BY DEF OrderInv, SubjectsAhead, InitialRecordUnread, HasBegun, AtStart

(* Queues in which g is ahead of f.                                        *)
LEMMA AheadInTail ==
    ASSUME NEW S, NEW q \in Seq(S), q # << >>, NEW g, NEW f, Ahead(q, g, f)
    PROVE  Head(q) # f /\ (g # Head(q) => Ahead(Tail(q), g, f))
<1>1. /\ Len(q) \in Nat /\ Len(q) > 0 /\ DOMAIN q = 1 .. Len(q) /\ Head(q) = q[1]
      /\ DOMAIN Tail(q) = 1 .. Len(q) - 1
      /\ \A i \in 1 .. Len(q) - 1 : Tail(q)[i] = q[i + 1]
  OBVIOUS
<1>2. Head(q) # f
  BY <1>1 DEF Ahead
<1>3. ASSUME g # Head(q), NEW j \in DOMAIN Tail(q), Tail(q)[j] = f
      PROVE  \E i \in DOMAIN Tail(q) : i < j /\ Tail(q)[i] = g
  <2>1. j + 1 \in DOMAIN q /\ q[j + 1] = f
    BY <1>1, <1>3
  <2>2. PICK i \in DOMAIN q : i < j + 1 /\ q[i] = g
    BY <2>1 DEF Ahead
  <2>3. i # 1
    BY <1>1, <1>3, <2>2
  <2>4. i - 1 \in DOMAIN Tail(q) /\ i - 1 < j /\ Tail(q)[i - 1] = g
    BY <1>1, <2>2, <2>3
  <2> QED
    BY <2>4
<1> QED
  BY <1>2, <1>3 DEF Ahead

LEMMA Joined ==
    ASSUME NEW S, NEW q \in Seq(S), NEW t \in Seq(S)
    PROVE  /\ Len(q) \in Nat /\ Len(t) \in Nat /\ q \o t \in Seq(S)
           /\ DOMAIN q = 1 .. Len(q) /\ DOMAIN t = 1 .. Len(t)
           /\ DOMAIN (q \o t) = 1 .. Len(q) + Len(t)
           /\ \A i \in DOMAIN q : i \in DOMAIN (q \o t) /\ (q \o t)[i] = q[i]
           /\ \A i \in DOMAIN t : /\ i + Len(q) \in DOMAIN (q \o t)
                                  /\ (q \o t)[i + Len(q)] = t[i]
           /\ \A i \in DOMAIN (q \o t) : i \in DOMAIN q \/ i - Len(q) \in DOMAIN t
           /\ \A f : f \in ToSet(q \o t) <=> f \in ToSet(q) \/ f \in ToSet(t)
<1>1. /\ Len(q) \in Nat /\ Len(t) \in Nat /\ q \o t \in Seq(S)
      /\ DOMAIN q = 1 .. Len(q) /\ DOMAIN t = 1 .. Len(t)
      /\ DOMAIN (q \o t) = 1 .. Len(q) + Len(t)
  OBVIOUS
<1>2. \A i \in DOMAIN q : i \in DOMAIN (q \o t) /\ (q \o t)[i] = q[i]
  BY <1>1
<1>3. \A i \in DOMAIN t : i + Len(q) \in DOMAIN (q \o t) /\ (q \o t)[i + Len(q)] = t[i]
  BY <1>1
<1>4. \A i \in DOMAIN (q \o t) : i \in DOMAIN q \/ i - Len(q) \in DOMAIN t
  BY <1>1
<1>5. ASSUME NEW f
      PROVE  f \in ToSet(q \o t) <=> f \in ToSet(q) \/ f \in ToSet(t)
  <2>1. ASSUME NEW i \in DOMAIN (q \o t)
        PROVE  (q \o t)[i] \in ToSet(q) \/ (q \o t)[i] \in ToSet(t)
    <3>1. CASE i \in DOMAIN q
      BY <1>2, <3>1 DEF ToSet
    <3>2. CASE i - Len(q) \in DOMAIN t
      <4>1. i = (i - Len(q)) + Len(q)
        BY <1>1
      <4>2. (q \o t)[i] = t[i - Len(q)]
        BY <1>3, <3>2, <4>1
      <4> QED
        BY <3>2, <4>2 DEF ToSet
    <3> QED
      BY <1>4, <3>1, <3>2
  <2>2. \A i \in DOMAIN q : q[i] \in ToSet(q \o t)
    BY <1>2 DEF ToSet
  <2>3. \A i \in DOMAIN t : t[i] \in ToSet(q \o t)
    BY <1>3 DEF ToSet
  <2> QED
    BY <2>1, <2>2, <2>3 DEF ToSet
<1> QED
  BY <1>1, <1>2, <1>3, <1>4, <1>5

LEMMA AheadJoined ==
    ASSUME NEW S, NEW q \in Seq(S), NEW t \in Seq(S), NEW g, NEW f, Ahead(q, g, f),
           Ahead(t, g, f) \/ g \in ToSet(q)
    PROVE  Ahead(q \o t, g, f)
<1> SUFFICES ASSUME NEW j \in DOMAIN (q \o t), (q \o t)[j] = f
             PROVE  \E i \in DOMAIN (q \o t) : i < j /\ (q \o t)[i] = g
  BY DEF Ahead
<1>0. Len(q) \in Nat /\ Len(t) \in Nat /\ j \in Nat
  BY Joined
<1>1. CASE j \in DOMAIN q
  <2>1. PICK i \in DOMAIN q : i < j /\ q[i] = g
    BY <1>1, Joined DEF Ahead
  <2> QED
    BY <2>1, Joined
<1>2. CASE j - Len(q) \in DOMAIN t
  <2>0. j = (j - Len(q)) + Len(q)
    BY <1>0
  <2>1. t[j - Len(q)] = f
    BY <1>2, <2>0, Joined
  <2>2. CASE Ahead(t, g, f)
    <3>1. PICK i \in DOMAIN t : i < j - Len(q) /\ t[i] = g
      BY <1>2, <2>1, <2>2 DEF Ahead
    <3>2. i + Len(q) \in DOMAIN (q \o t) /\ (q \o t)[i + Len(q)] = g
      BY <3>1, Joined
    <3>3. i \in Nat
      BY Joined
    <3> QED
      BY <1>0, <3>1, <3>2, <3>3
  <2>3. CASE g \in ToSet(q)
    <3>1. PICK i \in DOMAIN q : q[i] = g
      BY <2>3 DEF ToSet
    <3>2. i \in Nat /\ i <= Len(q) /\ j - Len(q) >= 1
      BY <1>2, Joined
    <3>3. i \in DOMAIN (q \o t) /\ (q \o t)[i] = g
      BY <3>1, Joined
    <3> QED
      BY <1>0, <3>2, <3>3
  <2> QED
    BY <2>2, <2>3
<1> QED
  BY <1>1, <1>2, Joined

LEMMA AbsentAhead ==
    ASSUME NEW q, NEW g, NEW f, f \notin ToSet(q)
    PROVE  Ahead(q, g, f)
BY DEF Ahead, ToSet

LEMMA OnceJoined ==
    ASSUME NEW S, NEW q \in Seq(S), NEW t \in Seq(S), Once(q), Once(t),
           ToSet(q) \cap ToSet(t) = {}
    PROVE  Once(q \o t)
<1> SUFFICES ASSUME NEW i \in DOMAIN (q \o t), NEW j \in DOMAIN (q \o t),
                    (q \o t)[i] = (q \o t)[j]
             PROVE  i = j
  BY DEF Once
<1>0. Len(q) \in Nat /\ i \in Nat /\ j \in Nat
  BY Joined
<1>1. \A k \in DOMAIN (q \o t) :
         IF k \in DOMAIN q THEN (q \o t)[k] = q[k] /\ q[k] \in ToSet(q)
         ELSE /\ k - Len(q) \in DOMAIN t /\ (q \o t)[k] = t[k - Len(q)]
              /\ t[k - Len(q)] \in ToSet(t)
  <2> TAKE k \in DOMAIN (q \o t)
  <2>1. CASE k \in DOMAIN q
    BY <2>1, Joined DEF ToSet
  <2>2. CASE k \notin DOMAIN q
    <3>1. k - Len(q) \in DOMAIN t /\ k \in Nat
      BY <2>2, Joined
    <3>2. k = (k - Len(q)) + Len(q)
      BY <1>0, <3>1
    <3>3. (q \o t)[k] = t[k - Len(q)]
      BY <3>1, <3>2, Joined
    <3> QED
      BY <2>2, <3>1, <3>3 DEF ToSet
  <2> QED
    BY <2>1, <2>2
<1>2. CASE i \in DOMAIN q /\ j \in DOMAIN q
  BY <1>1, <1>2 DEF Once
<1>3. CASE i \notin DOMAIN q /\ j \notin DOMAIN q
  <2>1. i - Len(q) \in DOMAIN t /\ j - Len(q) \in DOMAIN t /\ t[i - Len(q)] = t[j - Len(q)]
    BY <1>1, <1>3
  <2>2. i - Len(q) = j - Len(q)
    BY <2>1 DEF Once
  <2> QED
    BY <1>0, <2>2
<1>4. CASE \/ i \in DOMAIN q /\ j \notin DOMAIN q
           \/ i \notin DOMAIN q /\ j \in DOMAIN q
  BY <1>1, <1>4
<1> QED
  BY <1>2, <1>3, <1>4

LEMMA OnceTail ==
    ASSUME NEW S, NEW q \in Seq(S), q # << >>
    PROVE  /\ Tail(q) \in Seq(S) /\ Head(q) \in ToSet(q)
           /\ \A f : f \in ToSet(q) <=> f = Head(q) \/ f \in ToSet(Tail(q))
           /\ Once(q) => Once(Tail(q)) /\ Head(q) \notin ToSet(Tail(q))
<1>1. /\ Len(q) \in Nat /\ Len(q) > 0 /\ DOMAIN q = 1 .. Len(q) /\ Head(q) = q[1]
      /\ Tail(q) \in Seq(S) /\ DOMAIN Tail(q) = 1 .. Len(q) - 1
      /\ \A i \in 1 .. Len(q) - 1 : Tail(q)[i] = q[i + 1] /\ i + 1 \in DOMAIN q
  OBVIOUS
<1>2. \A i \in DOMAIN q : i = 1 \/ (i - 1 \in DOMAIN Tail(q) /\ Tail(q)[i - 1] = q[i])
  BY <1>1
<1>3. ASSUME Once(q)
      PROVE  Once(Tail(q)) /\ Head(q) \notin ToSet(Tail(q))
  <2>1. ASSUME NEW i \in DOMAIN Tail(q), NEW j \in DOMAIN Tail(q), Tail(q)[i] = Tail(q)[j]
        PROVE  i = j
    <3>1. i + 1 = j + 1
      BY <1>1, <1>3, <2>1 DEF Once
    <3> QED
      BY <1>1, <3>1
  <2>2. ASSUME NEW i \in DOMAIN Tail(q), Tail(q)[i] = Head(q)
        PROVE  FALSE
    <3>1. i + 1 = 1
      BY <1>1, <1>3, <2>2 DEF Once
    <3> QED
      BY <1>1, <3>1
  <2> QED
    BY <2>1, <2>2 DEF Once, ToSet
<1>4. ASSUME NEW f
      PROVE  f \in ToSet(q) <=> f = Head(q) \/ f \in ToSet(Tail(q))
  <2>1. \A i \in DOMAIN q : q[i] = Head(q) \/ q[i] \in ToSet(Tail(q))
    BY <1>1, <1>2 DEF ToSet
  <2>2. Head(q) \in ToSet(q)
    BY <1>1 DEF ToSet
  <2>3. \A i \in DOMAIN Tail(q) : Tail(q)[i] \in ToSet(q)
    BY <1>1 DEF ToSet
  <2> QED
    BY <2>1, <2>2, <2>3 DEF ToSet
<1> QED
  BY <1>1, <1>3, <1>4 DEF ToSet

-----------------------------------------------------------------------------
(* Steps in which no rule starts: the fibers that have not begun and the   *)
(* queues they are in stay, but for the one that begins.                   *)

StaysAtStart(f) ==
    /\ AtStart(f) /\ state'[f] = "RUNNABLE"
    /\ fiber'[f].rule = fiber[f].rule /\ fiber'[f].kids = fiber[f].kids
    /\ fiber'[f].trigger = fiber[f].trigger

StaysLive(f) ==
    \/ Live(f) /\ fiber'[f].rule = fiber[f].rule
    \/ f \notin Drain /\ \A a \in Within[fiber'[f].rule] : HasBegun(a)'

StartsStay ==
    /\ \A f \in FiberId : AtStart(f)' => StaysAtStart(f)
    /\ \A f \in FiberId : AtStart(f) /\ ~AtStart(f)' =>
          f = running /\ \A r \in Rule : fiber[f].rule = r => HasBegun(r)'
    /\ \A f \in FiberId : Live(f)' => StaysLive(f)
    /\ \A f \in RuleFibers' : /\ f \in RuleFibers /\ fiber'[f].rule = fiber[f].rule
                              /\ fiber'[f].kids = fiber[f].kids
    /\ \A r \in Rule : HasBegun(r) => HasBegun(r)'

QueueStays ==
    /\ ToSet(runQueue) \subseteq ToSet(runQueue')
    /\ \A f \in FiberId : AtStart(f)' => \A g \in FiberId : Ahead(runQueue, g, f) => Ahead(runQueue', g, f)

SliceStays == UNCHANGED <<spawned, cascade, running>> \/ (EndSlice /\ ~AtStart(running))

Steady == StartsStay /\ QueueStays /\ SliceStays /\ CallersBegun' /\ SliceInTick'

LEMMA DrainSeqs ==
    ASSUME BrainInv
    PROVE  /\ spawned \in Seq(FiberId) /\ cascade \in Seq(FiberId) /\ runQueue \in Seq(FiberId)
           /\ Drain \subseteq FiberId /\ ToSet(runQueue) \subseteq FiberId
           /\ ToSet(Pending) = Drain \cup ToSet(runQueue)
           /\ NoFiber \notin FiberId
<1>1. spawned \in Seq(FiberId) /\ cascade \in Seq(FiberId) /\ runQueue \in Seq(FiberId)
  BY DEF BrainInv, TypeOK, QueueTypeOK
<1>2. PICK s : s = cascade \o spawned
  OBVIOUS
<1>3. s \in Seq(FiberId) /\ \A f : f \in ToSet(s) <=> f \in Drain
  BY <1>1, <1>2, Joined DEF Drain
<1>4. \A f : f \in ToSet(s \o runQueue) <=> f \in ToSet(s) \/ f \in ToSet(runQueue)
  BY <1>1, <1>3, Joined
<1>5. Pending = s \o runQueue
  BY <1>2 DEF Pending
<1>6. ToSet(Pending) = Drain \cup ToSet(runQueue)
  BY <1>3, <1>4, <1>5
<1>7. \A q \in Seq(FiberId) : ToSet(q) \subseteq FiberId
  BY DEF ToSet
<1> QED
  BY <1>1, <1>6, <1>7, FibersAssumption DEF Drain

LEMMA SliceEnds ==
    ASSUME BrainInv, OrderInv, EndSlice
    PROVE  /\ spawned' = << >> /\ cascade' = spawned \o cascade /\ running' = NoFiber
           /\ ToSet(spawned') = {} /\ ToSet(cascade') = Drain /\ Drain' = Drain
           /\ Once(spawned') /\ Once(cascade')
           /\ \A f \in FiberId, g \in FiberId :
                 AheadOf(g, f) => Ahead(cascade', g, f) /\ Ahead(spawned', g, f)
<1>1. /\ spawned' = << >> /\ cascade' = spawned \o cascade /\ running' = NoFiber
  BY DEF EndSlice
<1>2. ToSet(spawned') = {} /\ DOMAIN spawned' = {}
  BY <1>1 DEF ToSet
<1>3. ToSet(cascade') = Drain
  BY <1>1, DrainSeqs, Joined DEF Drain
<1>4. Once(cascade')
  BY <1>1, DrainSeqs, OnceJoined DEF OrderInv, DrainAtStart
<1>5. ASSUME NEW f \in FiberId, NEW g \in FiberId, AheadOf(g, f)
      PROVE  Ahead(cascade', g, f) /\ Ahead(spawned', g, f)
  <2>1. Ahead(cascade', g, f)
    BY <1>1, <1>5, DrainSeqs, AheadJoined DEF AheadOf
  <2> QED
    BY <1>2, <2>1 DEF Ahead
<1> QED
  BY <1>1, <1>2, <1>3, <1>4, <1>5 DEF Drain, Once

LEMMA SteadyKeeps ==
    ASSUME BrainInv, BrainInv', OrderInv, Steady
    PROVE  OrderInv'
<1> USE DEF OrderInv, Steady
<1>1. \A f \in FiberId : AtStart(f) /\ f # running => AtStart(f)'
  BY DEF StartsStay
<1>2. FreshStarts'
  <2> SUFFICES ASSUME NEW f \in FiberId, AtStart(f)'
               PROVE  /\ state'[f] = "RUNNABLE" /\ fiber'[f].kids = 0
                      /\ fiber'[f].trigger = "none"
    BY DEF FreshStarts
  <2>1. StaysAtStart(f)
    BY DEF StartsStay
  <2> QED
    BY <2>1 DEF StaysAtStart, FreshStarts
<1>3. OuterBegun'
  <2> SUFFICES ASSUME NEW f \in FiberId, Live(f)', NEW a \in Within[fiber'[f].rule],
                      a # fiber'[f].rule \/ fiber'[f].pc # "start"
               PROVE  HasBegun(a)'
    BY DEF OuterBegun
  <2>1. CASE Live(f) /\ fiber'[f].rule = fiber[f].rule
    <3>1. fiber[f].rule \in Rule /\ a \in Rule
      BY <2>1, WithinSelf DEF BrainInv, Settled
    <3>2. CASE a # fiber[f].rule \/ fiber[f].pc # "start"
      BY <2>1, <3>1, <3>2 DEF OuterBegun, StartsStay
    <3>3. CASE a = fiber[f].rule /\ fiber[f].pc = "start"
      <4>1. AtStart(f)
        BY <2>1, <3>3 DEF AtStart, RuleFibers
      <4>2. ~AtStart(f)'
        BY <2>1, <3>3 DEF AtStart
      <4> QED
        BY <3>1, <3>3, <4>1, <4>2 DEF StartsStay
    <3> QED
      BY <3>2, <3>3
  <2>2. CASE \A b \in Within[fiber'[f].rule] : HasBegun(b)'
    BY <2>2
  <2> QED
    BY <2>1, <2>2 DEF StartsStay, StaysLive
<1>4. ASSUME EndSlice
      PROVE  /\ spawned' = << >> /\ cascade' = spawned \o cascade /\ running' = NoFiber
             /\ ToSet(spawned') = {} /\ ToSet(cascade') = Drain /\ Drain' = Drain
             /\ Once(spawned') /\ Once(cascade')
             /\ \A f \in FiberId, g \in FiberId :
                   AheadOf(g, f) => Ahead(cascade', g, f) /\ Ahead(spawned', g, f)
  BY <1>4, SliceEnds
<1>5. ASSUME UNCHANGED <<spawned, cascade, running>>
      PROVE  spawned' = spawned /\ cascade' = cascade /\ running' = running /\ Drain' = Drain
  BY <1>5 DEF Drain
<1>6. DrainAtStart'
  <2>0. ASSUME NEW f \in Drain, Live(f)'
        PROVE  AtStart(f)'
    <3>1. f \in FiberId /\ Live(f)
      BY <2>0, DrainSeqs DEF StartsStay, StaysLive
    <3> QED
      BY <1>1, <2>0, <3>1 DEF DrainAtStart
  <2>1. CASE UNCHANGED <<spawned, cascade, running>>
    <3>1. \A f \in ToSet(spawned) : f \in FiberId /\ (Live(f)' => Live(f))
      BY DrainSeqs DEF Drain, StartsStay, StaysLive
    <3> QED
      BY <1>5, <2>0, <2>1, <3>1 DEF DrainAtStart
  <2>2. CASE EndSlice
    <3>1. running' \notin Drain'
      BY <1>4, <2>2, DrainSeqs
    <3> QED
      BY <1>4, <2>0, <2>2, <3>1 DEF DrainAtStart
  <2> QED
    BY <2>1, <2>2 DEF SliceStays
<1>7. RootsQueued'
  <2> SUFFICES ASSUME NEW f \in FiberId, AtStart(f)', Parent[fiber'[f].rule] = NoRule
               PROVE  f = running' \/ f \in ToSet(runQueue')
    BY DEF RootsQueued
  <2>1. AtStart(f) /\ fiber'[f].rule = fiber[f].rule
    BY DEF StartsStay, StaysAtStart
  <2>2. f = running \/ f \in ToSet(runQueue)
    BY <2>1 DEF RootsQueued
  <2> QED
    BY <1>5, <2>1, <2>2 DEF SliceStays, QueueStays
<1>8. KidsAhead'
  <2> SUFFICES ASSUME NEW p \in FiberId, p \in RuleFibers', NEW c,
                      NEW i \in DOMAIN ChildRules[fiber'[p].rule],
                      i <= fiber'[p].kids, c = ChildRules[fiber'[p].rule][i], ~HasBegun(c)'
               PROVE  \E g \in FiberId :
                         /\ AtStart(g)' /\ fiber'[g].rule = c
                         /\ IF running' = p THEN g \in ToSet(spawned')
                                            ELSE g = running' \/ g \in ToSet(cascade')
    BY DEF KidsAhead, RuleFibers, HasBegun
  <2>1. /\ p \in RuleFibers /\ i \in DOMAIN ChildRules[fiber[p].rule] /\ i <= fiber[p].kids
        /\ c = ChildRules[fiber[p].rule][i]
    BY DEF StartsStay
  <2>2. PICK g \in FiberId :
           /\ AtStart(g) /\ fiber[g].rule = c
           /\ IF running = p THEN g \in ToSet(spawned) ELSE g = running \/ g \in ToSet(cascade)
    <3>1. c \in Rule
      <4>1. fiber[p].rule \in Rule
        BY <2>1 DEF BrainInv, Settled, RuleFibers
      <4> QED
        BY <2>1, <4>1, ChildRule
    <3>2. ~HasBegun(c)
      BY <3>1 DEF StartsStay
    <3> QED
      BY <2>1, <3>2 DEF KidsAhead
  <2>3. AtStart(g)' /\ fiber'[g].rule = c
    <3>1. c \in Rule
      BY <2>2 DEF AtStart, RuleFibers, BrainInv, Settled
    <3>2. AtStart(g)'
      BY <2>2, <3>1 DEF StartsStay
    <3> QED
      BY <2>2, <3>2 DEF StartsStay, StaysAtStart
  <2>4. CASE UNCHANGED <<spawned, cascade, running>>
    BY <1>5, <2>1, <2>2, <2>3, <2>4
  <2>5. CASE EndSlice /\ ~AtStart(running)
    <3>1. running' # p /\ g \in ToSet(cascade')
      BY <1>4, <2>1, <2>2, <2>5, DrainSeqs DEF Drain
    <3> QED
      BY <2>1, <2>3, <3>1
  <2> QED
    BY <2>4, <2>5 DEF SliceStays
<1>9. SubjectsAhead'
  <2> SUFFICES ASSUME NEW f \in RuleFibers', NEW s, s = PrecedingSibling[fiber'[f].rule],
                      s # NoRule, ~HasBegun(s)'
               PROVE  AtStart(f)' /\ f # running' /\ SubjectFirst(f)'
    BY DEF SubjectsAhead
  <2>1. f \in RuleFibers /\ f \in FiberId /\ fiber'[f].rule = fiber[f].rule
    BY DEF StartsStay, RuleFibers
  <2>2. s \in Rule
    BY <2>1, AboveType DEF BrainInv, Settled, RuleFibers
  <2>3. AtStart(f) /\ f # running /\ SubjectFirst(f)
    BY <2>1, <2>2 DEF StartsStay, SubjectsAhead
  <2>4. PICK g \in FiberId : AtStart(g) /\ fiber[g].rule = s /\ (g = running \/ AheadOf(g, f))
    BY <2>1, <2>3 DEF SubjectFirst
  <2>5. AtStart(f)' /\ AtStart(g)' /\ fiber'[g].rule = s
    <3>1. AtStart(f)'
      BY <1>1, <2>1, <2>3
    <3>2. AtStart(g)'
      BY <2>2, <2>4 DEF StartsStay
    <3> QED
      BY <3>1, <3>2, <2>4 DEF StartsStay, StaysAtStart
  <2>6. f # running'
    BY <1>4, <1>5, <2>1, <2>3, DrainSeqs DEF SliceStays
  <2>7. g = running' \/ AheadOf(g, f)'
    <3>1. Ahead(runQueue, g, f) => Ahead(runQueue', g, f)
      BY <2>1, <2>5 DEF QueueStays
    <3>2. CASE UNCHANGED <<spawned, cascade, running>>
      BY <1>5, <2>4, <3>1, <3>2 DEF AheadOf
    <3>3. CASE EndSlice /\ ~AtStart(running)
      <4>1. AheadOf(g, f)
        BY <2>4, <3>3
      <4> QED
        BY <1>4, <2>1, <3>1, <3>3, <4>1 DEF AheadOf
    <3> QED
      BY <3>2, <3>3 DEF SliceStays
  <2> QED
    BY <2>1, <2>5, <2>6, <2>7 DEF SubjectFirst
<1> QED
  BY <1>2, <1>3, <1>6, <1>7, <1>8, <1>9

-----------------------------------------------------------------------------
(* Steps that move one fiber on.                                           *)

(* The live fiber f moves on, past the start of its rule's code.           *)
Moved(f) ==
    /\ Live(f) /\ state'[f] \in Alive
    /\ \A g \in FiberId : g # f => state'[g] = state[g] /\ fiber'[g] = fiber[g]
    /\ fiber'[f].rule = fiber[f].rule /\ fiber'[f].kids = fiber[f].kids
    /\ fiber'[f].caller = fiber[f].caller
    /\ fiber'[f].pc = "action" <=> fiber[f].pc = "action"
    /\ fiber'[f].pc # "start"
    /\ AtStart(f) => f = running /\ \A r \in Rule : fiber[f].rule = r => HasBegun(r)'
    /\ \A r \in Rule : HasBegun(r) => HasBegun(r)'

LEMMA MovedSteady ==
    ASSUME BrainInv, OrderInv, NEW f \in FiberId, Moved(f), QueueStays, SliceStays, SliceInTick'
    PROVE  Steady
<1> USE DEF Moved, OrderInv
<1>1. \A g \in FiberId : /\ Live(g)' <=> Live(g)
                         /\ fiber'[g].rule = fiber[g].rule /\ fiber'[g].kids = fiber[g].kids
                         /\ fiber'[g].caller = fiber[g].caller
                         /\ fiber'[g].pc = "action" <=> fiber[g].pc = "action"
  BY DEF Live
<1>2. \A g \in FiberId : g \in RuleFibers' <=> g \in RuleFibers
  BY <1>1 DEF RuleFibers
<1>3. ~AtStart(f)'
  BY DEF AtStart
<1>4. \A g \in FiberId : g # f => (AtStart(g)' <=> AtStart(g))
  BY <1>2 DEF AtStart
<1>5. \A g \in FiberId : AtStart(g)' => StaysAtStart(g)
  BY <1>3, <1>4 DEF StaysAtStart, FreshStarts
<1>6. \A g \in FiberId : AtStart(g) /\ ~AtStart(g)' =>
          g = running /\ \A r \in Rule : fiber[g].rule = r => HasBegun(r)'
  BY <1>4
<1>7. \A g \in FiberId : Live(g)' => StaysLive(g)
  BY <1>1 DEF StaysLive
<1>8. \A g \in RuleFibers' : /\ g \in RuleFibers /\ fiber'[g].rule = fiber[g].rule
                             /\ fiber'[g].kids = fiber[g].kids
  BY <1>1, <1>2 DEF RuleFibers
<1>9. CallersBegun'
  <2> SUFFICES ASSUME NEW g \in FiberId, NEW c, c = fiber'[g].caller, c # NoFiber
               PROVE  fiber'[c].pc # "start"
    BY DEF CallersBegun
  <2>1. c = fiber[g].caller /\ fiber[c].pc # "start"
    BY <1>1 DEF CallersBegun
  <2>2. c \in FiberId
    BY <2>1 DEF BrainInv, Called, RuleFibers
  <2> QED
    BY <2>1, <2>2
<1> QED
  BY <1>5, <1>6, <1>7, <1>8, <1>9 DEF Steady, StartsStay

(* A fiber that has begun goes to the end of the run queue.                *)
LEMMA EnqueueStays ==
    ASSUME BrainInv, NEW f \in FiberId, Enqueue(f), ~AtStart(f)'
    PROVE  QueueStays
<1>0. runQueue \in Seq(FiberId) /\ <<f>> \in Seq(FiberId) /\ ToSet(<<f>>) = {f}
  BY DrainSeqs DEF ToSet
<1>1. CASE runQueue' = runQueue
  BY <1>1 DEF QueueStays
<1>2. CASE runQueue' = Append(runQueue, f)
  <2>1. runQueue' = runQueue \o <<f>>
    BY <1>0, <1>2
  <2>2. ToSet(runQueue) \subseteq ToSet(runQueue')
    BY <1>0, <2>1, Joined
  <2>3. ASSUME NEW k \in FiberId, AtStart(k)', NEW g \in FiberId, Ahead(runQueue, g, k)
        PROVE  Ahead(runQueue', g, k)
    <3>1. Ahead(<<f>>, g, k)
      BY <1>0, <2>3, AbsentAhead
    <3> QED
      BY <1>0, <2>1, <2>3, <3>1, AheadJoined
  <2> QED
    BY <2>2, <2>3 DEF QueueStays
<1> QED
  BY <1>1, <1>2 DEF Enqueue

(* Only the rule's own code can change its record, and never back to the   *)
(* initial one.                                                            *)
Records(r, x) == x # "INITIAL" /\ firing' = [firing EXCEPT ![r] = x]

LEMMA RecordBegins ==
    ASSUME BrainInv, NEW r \in Rule, NEW x, Records(r, x)
    PROVE  HasBegun(r)' /\ \A q \in Rule : HasBegun(q) => HasBegun(q)'
<1>1. firing'[r] = x /\ \A q \in Rule : q # r => firing'[q] = firing[q]
  BY DEF Records, BrainInv, TypeOK
<1>2. HasBegun(r)'
  BY <1>1 DEF HasBegun, Records
<1>3. ASSUME NEW q \in Rule, HasBegun(q)
      PROVE  HasBegun(q)'
  <2>1. CASE q = r
    BY <1>2, <2>1
  <2>2. CASE q # r
    BY <1>1, <1>3, <2>2 DEF HasBegun
  <2> QED
    BY <2>1, <2>2
<1> QED
  BY <1>2, <1>3

LEMMA RunningBegun ==
    ASSUME BrainInv, OrderInv, NEW f \in FiberId, Executing(f)
    PROVE  /\ Live(f) /\ fiber[f].rule \in Rule
           /\ running = f /\ f # NoFiber /\ phase # "idle"
           /\ \A r \in Rule : fiber[f].rule = r /\ fiber[f].pc # "start" => HasBegun(r)
<1>1. Live(f) /\ running = f
  BY DEF Executing, Live, Alive
<1>2. fiber[f].rule \in Rule
  BY <1>1 DEF BrainInv, Settled
<1>3. fiber[f].rule \in Within[fiber[f].rule]
  BY <1>2, WithinSelf
<1> QED
  BY <1>1, <1>2, <1>3, FibersAssumption DEF OrderInv, OuterBegun, SliceInTick

(* An instruction after which the slice goes on.                           *)
LEMMA GoesOn ==
    ASSUME BrainInv, BrainInv', OrderInv, NEW f \in FiberId, Executing(f), Continues, Moved(f)
    PROVE  OrderInv'
<1>1. /\ state' = state /\ runQueue' = runQueue /\ phase' = phase
      /\ spawned' = spawned /\ cascade' = cascade /\ running' = running
  BY DEF Continues, queueVars
<1>2. QueueStays /\ SliceStays
  BY <1>1 DEF QueueStays, SliceStays
<1>3. state[running] = "RUNNABLE" /\ phase # "idle"
  BY RunningBegun DEF Executing
<1>4. SliceInTick'
  BY <1>1, <1>3 DEF SliceInTick
<1> QED
  BY <1>2, <1>4, MovedSteady, SteadyKeeps

LEMMA GotoMoves ==
    ASSUME BrainInv, OrderInv, NEW f \in FiberId, Executing(f), NEW at, Goto(f, at), Continues,
           at \notin {"start", "action"}, fiber[f].pc # "action",
           AtStart(f) => \A r \in Rule : fiber[f].rule = r => HasBegun(r)',
           \A r \in Rule : HasBegun(r) => HasBegun(r)'
    PROVE  Moved(f)
<1>1. fiber \in [FiberId -> Fiber] /\ fiber[f] \in Fiber
  BY DEF BrainInv, TypeOK
<1>2. fiber'[f] = [fiber[f] EXCEPT !.pc = at] /\ \A g \in FiberId : g # f => fiber'[g] = fiber[g]
  BY <1>1 DEF Goto
<1>3. /\ fiber'[f].pc = at /\ fiber'[f].rule = fiber[f].rule /\ fiber'[f].kids = fiber[f].kids
      /\ fiber'[f].caller = fiber[f].caller
  BY <1>1, <1>2 DEF Fiber
<1>4. state' = state
  BY DEF Continues
<1>5. Live(f) /\ running = f
  BY RunningBegun
<1> QED
  BY <1>2, <1>3, <1>4, <1>5 DEF Moved, Live

LEMMA BeginOrdered ==
    ASSUME BrainInv, BrainInv', OrderInv, NEW f \in FiberId, Begin(f)
    PROVE  OrderInv'
<1> PICK r : r = fiber[f].rule
  OBVIOUS
<1>0. Executing(f) /\ fiber[f].pc = "start" /\ Continues /\ r \in Rule
  BY RunningBegun DEF Begin
<1>1. HasBegun(r)' /\ \A q \in Rule : HasBegun(q) => HasBegun(q)'
  <2>1. CASE Mode[r] = "always"
    <3>1. firing' = firing
      BY <2>1 DEF Begin
    <3> QED
      BY <2>1, <3>1 DEF HasBegun
  <2>2. CASE Mode[r] # "always"
    <3>1. Records(r, "EVALUATING")
      BY <2>2 DEF Begin, Records
    <3> QED
      BY <1>0, <3>1, RecordBegins
  <2> QED
    BY <2>1, <2>2
<1>2. PICK at \in {"do", "when", "arm"} : Goto(f, at)
  BY DEF Begin
<1>3. Moved(f)
  BY <1>0, <1>1, <1>2, GotoMoves
<1> QED
  BY <1>0, <1>3, GoesOn

LEMMA ReadSubjectOrdered ==
    ASSUME BrainInv, BrainInv', OrderInv, NEW f \in FiberId, ReadSubject(f)
    PROVE  OrderInv'
<1>0. Executing(f) /\ fiber[f].pc = "arm" /\ Continues /\ firing' = firing
  BY DEF ReadSubject
<1>1. \A q \in Rule : HasBegun(q) => HasBegun(q)'
  BY <1>0 DEF HasBegun
<1>2. PICK at \in {"when", "unarmed"} : Goto(f, at)
  BY DEF ReadSubject
<1>3. Moved(f)
  BY <1>0, <1>1, <1>2, GotoMoves DEF AtStart
<1> QED
  BY <1>0, <1>3, GoesOn

LEMMA GateOrdered ==
    ASSUME BrainInv, BrainInv', OrderInv, NEW f \in FiberId, NEW fired \in BOOLEAN, Gate(f, fired)
    PROVE  OrderInv'
<1> PICK r : r = fiber[f].rule
  OBVIOUS
<1>0. Executing(f) /\ fiber[f].pc \in {"when", "unarmed"} /\ Continues /\ r \in Rule
  BY RunningBegun DEF Gate
<1>1. Record(r, fired) # "INITIAL"
  BY DEF Record, DidFire
<1>2. Records(r, Record(r, fired))
  BY <1>1 DEF Gate, Records
<1>3. \A q \in Rule : HasBegun(q) => HasBegun(q)'
  BY <1>0, <1>2, RecordBegins
<1>4. PICK at \in {"do", "return"} : Goto(f, at)
  BY DEF Gate
<1>5. Moved(f)
  BY <1>0, <1>3, <1>4, GotoMoves DEF AtStart
<1> QED
  BY <1>0, <1>5, GoesOn

(* An instruction that changes more of its fiber's record than the place.  *)
LEMMA UpdateMoves ==
    ASSUME BrainInv, NEW f \in FiberId, NEW x, Live(f), fiber' = [fiber EXCEPT ![f] = x],
           x.rule = fiber[f].rule, x.kids = fiber[f].kids, x.caller = fiber[f].caller,
           x.pc # "start", fiber[f].pc # "start", x.pc = "action" <=> fiber[f].pc = "action",
           state'[f] \in Alive, \A g \in FiberId : g # f => state'[g] = state[g],
           \A r \in Rule : HasBegun(r) => HasBegun(r)'
    PROVE  Moved(f)
<1>1. fiber'[f] = x /\ \A g \in FiberId : g # f => fiber'[g] = fiber[g]
  BY DEF BrainInv, TypeOK
<1> QED
  BY <1>1 DEF Moved, AtStart

LEMMA AskTriggerOrdered ==
    ASSUME BrainInv, BrainInv', OrderInv, NEW f \in FiberId, AskTrigger(f)
    PROVE  OrderInv'
<1> PICK r : r = fiber[f].rule
  OBVIOUS
<1>0. Executing(f) /\ fiber[f].pc = "arm" /\ Continues /\ r \in Rule /\ Live(f)
  BY RunningBegun DEF AskTrigger
<1>1. \A q \in Rule : HasBegun(q) => HasBegun(q)'
  <2>1. firing' = firing \/ Records(r, "DID_NOT_FIRE")
    BY DEF AskTrigger, Records
  <2>2. CASE firing' = firing
    BY <2>2 DEF HasBegun
  <2>3. CASE Records(r, "DID_NOT_FIRE")
    BY <1>0, <2>3, RecordBegins
  <2> QED
    BY <2>1, <2>2, <2>3
<1>2. PICK t : fiber' = [fiber EXCEPT ![f].pc = "asked", ![f].trigger = t]
  BY DEF AskTrigger
<1>3. fiber \in [FiberId -> Fiber] /\ fiber[f] \in Fiber
  BY DEF BrainInv, TypeOK
<1> PICK x : x = [fiber[f] EXCEPT !.pc = "asked", !.trigger = t]
  OBVIOUS
<1>4. /\ fiber' = [fiber EXCEPT ![f] = x]
      /\ x.pc = "asked" /\ x.rule = fiber[f].rule /\ x.kids = fiber[f].kids
      /\ x.caller = fiber[f].caller
  BY <1>2, <1>3 DEF Fiber
<1>5. state' = state /\ state[f] \in Alive
  BY <1>0 DEF Continues, Live
<1>6. Moved(f)
  BY <1>0, <1>1, <1>4, <1>5, UpdateMoves
<1> QED
  BY <1>0, <1>6, GoesOn

LEMMA AwaitAnswerOrdered ==
    ASSUME BrainInv, BrainInv', OrderInv, NEW f \in FiberId, AwaitAnswer(f)
    PROVE  OrderInv'
<1>0. Executing(f) /\ fiber[f].pc = "asked" /\ Continues /\ Live(f) /\ firing' = firing
  BY RunningBegun DEF AwaitAnswer
<1>1. \A q \in Rule : HasBegun(q) => HasBegun(q)'
  BY <1>0 DEF HasBegun
<1>2. PICK at \in {"when", "unarmed"} : fiber' = [fiber EXCEPT ![f].pc = at, ![f].trigger = "none"]
  BY DEF AwaitAnswer
<1>3. fiber \in [FiberId -> Fiber] /\ fiber[f] \in Fiber
  BY DEF BrainInv, TypeOK
<1> PICK x : x = [fiber[f] EXCEPT !.pc = at, !.trigger = "none"]
  OBVIOUS
<1>4. /\ fiber' = [fiber EXCEPT ![f] = x]
      /\ x.pc = at /\ x.rule = fiber[f].rule /\ x.kids = fiber[f].kids
      /\ x.caller = fiber[f].caller
  BY <1>2, <1>3 DEF Fiber
<1>5. state' = state /\ state[f] \in Alive
  BY <1>0 DEF Continues, Live
<1>6. Moved(f)
  BY <1>0, <1>1, <1>4, <1>5, UpdateMoves
<1> QED
  BY <1>0, <1>6, GoesOn

(* An instruction that ends the slice of a fiber that lives on.            *)
LEMMA StopsHere ==
    ASSUME BrainInv, BrainInv', OrderInv, NEW f \in FiberId, Executing(f), Moved(f),
           fiber[f].pc # "start", EndSlice, QueueStays
    PROVE  OrderInv'
<1>1. phase' = phase /\ running' = NoFiber
  BY DEF EndSlice
<1>2. SliceInTick'
  BY <1>1 DEF SliceInTick
<1>3. SliceStays
  BY RunningBegun DEF SliceStays, AtStart
<1> QED
  BY <1>2, <1>3, MovedSteady, SteadyKeeps

LEMMA AwaitOrdered ==
    ASSUME BrainInv, BrainInv', OrderInv, NEW f \in FiberId, AwaitTrigger(f) \/ AwaitHost(f)
    PROVE  OrderInv'
<1>0. /\ Executing(f) /\ fiber[f].pc # "start" /\ Live(f) /\ EndSlice
      /\ runQueue' = runQueue /\ firing' = firing
  BY RunningBegun DEF AwaitTrigger, AwaitHost, ruleVars
<1>1. \A q \in Rule : HasBegun(q) => HasBegun(q)'
  BY <1>0 DEF HasBegun
<1>2. PICK w : GoesToWait(f, w)
  BY <1>0 DEF AwaitTrigger, AwaitHost, GoesToWait, Live
<1>3. /\ fiber \in [FiberId -> Fiber] /\ fiber[f] \in Fiber /\ state \in [FiberId -> FiberState]
  BY DEF BrainInv, TypeOK, QueueTypeOK
<1> PICK x : x = [fiber[f] EXCEPT !.waits = w]
  OBVIOUS
<1>4. /\ fiber' = [fiber EXCEPT ![f] = x]
      /\ x.pc = fiber[f].pc /\ x.rule = fiber[f].rule /\ x.kids = fiber[f].kids
      /\ x.caller = fiber[f].caller
  BY <1>2, <1>3 DEF Fiber, GoesToWait
<1>5. state'[f] \in Alive /\ \A g \in FiberId : g # f => state'[g] = state[g]
  BY <1>2, <1>3 DEF GoesToWait, Alive
<1>6. Moved(f)
  BY <1>0, <1>1, <1>4, <1>5, UpdateMoves
<1>7. QueueStays
  BY <1>0 DEF QueueStays
<1> QED
  BY <1>0, <1>6, <1>7, StopsHere

LEMMA YieldOrdered ==
    ASSUME BrainInv, BrainInv', OrderInv, NEW f \in FiberId, Yield(f)
    PROVE  OrderInv'
<1>0. /\ Executing(f) /\ fiber[f].pc # "start" /\ Live(f) /\ EndSlice /\ Enqueue(f)
      /\ state' = state /\ fiber' = fiber /\ firing' = firing
  BY RunningBegun DEF Yield, ruleVars
<1>1. Moved(f)
  BY <1>0 DEF Moved, Live, AtStart, HasBegun
<1>2. QueueStays
  BY <1>0, EnqueueStays DEF AtStart
<1> QED
  BY <1>0, <1>1, <1>2, StopsHere

LEMMA HostSettleOrdered ==
    ASSUME BrainInv, BrainInv', OrderInv, NEW f \in FiberId, HostSettle(f)
    PROVE  OrderInv'
<1>0. /\ state[f] = "WAITING" /\ Live(f) /\ Enqueue(f) /\ firing' = firing
      /\ spawned' = spawned /\ cascade' = cascade /\ running' = running /\ phase' = phase
  BY DEF HostSettle, ruleVars, Live, Alive
<1>1. \A q \in Rule : HasBegun(q) => HasBegun(q)'
  BY <1>0 DEF HasBegun
<1>2. /\ fiber \in [FiberId -> Fiber] /\ fiber[f] \in Fiber /\ state \in [FiberId -> FiberState]
  BY DEF BrainInv, TypeOK, QueueTypeOK
<1> PICK x : x = [fiber[f] EXCEPT !.waits = "nothing"]
  OBVIOUS
<1>3. /\ fiber' = [fiber EXCEPT ![f] = x]
      /\ x.pc = fiber[f].pc /\ x.rule = fiber[f].rule /\ x.kids = fiber[f].kids
      /\ x.caller = fiber[f].caller
  BY <1>2 DEF Fiber, HostSettle
<1>4. state'[f] = "RUNNABLE" /\ \A g \in FiberId : g # f => state'[g] = state[g]
  BY <1>2 DEF HostSettle
<1>5. fiber[f].pc # "start"
  BY <1>0 DEF OrderInv, FreshStarts, AtStart, RuleFibers
<1>7. Moved(f)
  BY <1>0, <1>1, <1>3, <1>4, <1>5, UpdateMoves DEF Alive
<1>8. QueueStays
  <2>1. fiber'[f].pc # "start"
    BY <1>7 DEF Moved
  <2> QED
    BY <1>0, <2>1, EnqueueStays DEF AtStart
<1>9. SliceStays
  BY <1>0 DEF SliceStays
<1>10. SliceInTick'
  <2>1. running = NoFiber \/ state[running] = "RUNNABLE"
    BY DEF HostSettle, HostActs, RoundOver, Between, Executing, OrderInv, SliceInTick
  <2>2. running # NoFiber => running \in FiberId /\ running # f /\ state'[running] = "RUNNABLE"
    BY <1>0, <1>4, <2>1 DEF BrainInv, TypeOK, QueueTypeOK
  <2> QED
    BY <1>0, <2>2 DEF OrderInv, SliceInTick
<1> QED
  BY <1>7, <1>8, <1>9, <1>10, MovedSteady, SteadyKeeps

-----------------------------------------------------------------------------
(* Steps that end fibers.                                                  *)

(* A step after which no rule of the brain is in flight.                   *)
LEMMA NoRulesLeft ==
    ASSUME BrainInv, BrainInv', OrderInv, RuleFibers' = {}, firing' = firing,
           \A f \in FiberId : Live(f)' => Live(f) /\ fiber'[f].rule = fiber[f].rule
                                                  /\ fiber'[f].pc = fiber[f].pc,
           Once(spawned'), Once(cascade'), ToSet(spawned') \cap ToSet(cascade') = {},
           Drain' \subseteq Drain, running' \in {running, NoFiber},
           phase' = "idle" => running' = NoFiber
    PROVE  OrderInv'
<1> USE DEF OrderInv
<1>1. FreshStarts' /\ RootsQueued' /\ KidsAhead' /\ SubjectsAhead'
  BY DEF FreshStarts, RootsQueued, KidsAhead, SubjectsAhead, AtStart
<1>2. CallersBegun'
  BY DEF BrainInv, Called, CallersBegun
<1>3. OuterBegun'
  <2> SUFFICES ASSUME NEW f \in FiberId, Live(f)', NEW a \in Within[fiber'[f].rule],
                      a # fiber'[f].rule \/ fiber'[f].pc # "start"
               PROVE  HasBegun(a)'
    BY DEF OuterBegun
  <2>1. HasBegun(a)
    BY DEF OuterBegun
  <2> QED
    BY <2>1 DEF HasBegun
<1>4. SliceInTick'
  BY DEF SliceInTick
<1>5. \A f \in Drain : ~Live(f)'
  <2> SUFFICES ASSUME NEW f \in Drain, Live(f)'
               PROVE  FALSE
    OBVIOUS
  <2>1. f \in FiberId
    BY DrainSeqs
  <2>2. AtStart(f)
    BY <2>1 DEF DrainAtStart
  <2>3. fiber'[f].pc = "start"
    BY <2>1, <2>2 DEF AtStart
  <2>4. f \in RuleFibers'
    BY <2>1, <2>3 DEF RuleFibers
  <2> QED
    BY <2>4
<1>6. DrainAtStart'
  <2>1. running' \notin Drain'
    BY DrainSeqs DEF DrainAtStart
  <2>2. ToSet(spawned') \subseteq Drain'
    BY DEF Drain
  <2> QED
    BY <1>5, <2>1, <2>2 DEF DrainAtStart
<1> QED
  BY <1>1, <1>2, <1>3, <1>4, <1>6

LEMMA LeaveCancelledOrdered ==
    ASSUME BrainInv, BrainInv', OrderInv, NEW f \in FiberId, LeaveCancelled(f) \/ ErrorEscapes(f)
    PROVE  OrderInv'
<1>0. /\ running = f /\ state[f] = "CANCELLED" /\ fiber' = fiber /\ firing' = firing
      /\ RuleFibers = {} /\ running' = NoFiber
  BY FibersAssumption DEF LeaveCancelled, ErrorEscapes, ruleVars, OrderInv, SliceInTick,
                          EndSlice, AbandonTick
<1>1. \A g \in FiberId : Live(g)' => Live(g)
  <2>1. state' = state \/ state' = [state EXCEPT ![f] = "absent"]
    BY DEF LeaveCancelled, ErrorEscapes, AbandonTick
  <2>2. state \in [FiberId -> FiberState]
    BY DEF BrainInv, TypeOK, QueueTypeOK
  <2> QED
    BY <2>1, <2>2 DEF Live, Alive
<1>2. RuleFibers' = {}
  BY <1>0, <1>1 DEF RuleFibers
<1>3. Once(spawned') /\ Once(cascade') /\ ToSet(spawned') \cap ToSet(cascade') = {}
      /\ Drain' \subseteq Drain
  <2>1. CASE LeaveCancelled(f)
    <3>1. EndSlice
      BY <2>1 DEF LeaveCancelled
    <3> QED
      BY <3>1, SliceEnds
  <2>2. CASE ErrorEscapes(f)
    <3>1. spawned' = spawned /\ cascade' = << >> /\ ToSet(cascade') = {} /\ DOMAIN cascade' = {}
      BY <2>2 DEF ErrorEscapes, AbandonTick, ToSet
    <3> QED
      BY <3>1 DEF OrderInv, DrainAtStart, Drain, Once
  <2> QED
    BY <2>1, <2>2
<1>4. \A g \in FiberId : Live(g)' => Live(g) /\ fiber'[g].rule = fiber[g].rule
                                              /\ fiber'[g].pc = fiber[g].pc
  BY <1>0, <1>1
<1> QED
  BY <1>0, <1>2, <1>3, <1>4, NoRulesLeft

LEMMA PageRequestOrdered ==
    ASSUME BrainInv, BrainInv', OrderInv, NEW p \in Page, RequestPage(p) \/ LeavePage(p)
    PROVE  OrderInv'
<1> PICK gone : gone = PageFibers
  OBVIOUS
<1>0. /\ spawned' = spawned /\ cascade' = cascade /\ running' = running /\ phase' = phase
      /\ firing' = firing
  BY DEF RequestPage, LeavePage
<1>1. Ending(gone, "CANCELLED") /\ gone = RuleFibers
  BY PageFibersLive DEF RequestPage, LeavePage, Ending, Terminal, BrainInv
<1>2. \A f \in Askers(gone) : f \in gone
  <2> TAKE f \in Askers(gone)
  <2>1. f \in FiberId /\ \E r : Asks(f, r)
    BY <1>1, KinType, ToldAreLive DEF Ending
  <2> QED
    BY <1>1, <2>1 DEF Asks, RuleFibers
<1>3. \A f \in FiberId : Live(f)' => Live(f) /\ fiber'[f].rule = fiber[f].rule
                                              /\ fiber'[f].pc = fiber[f].pc
                                              /\ f \notin gone
  <2> TAKE f \in FiberId
  <2>1. CASE f \in gone
    BY <1>1, <2>1, EndedAre DEF Live
  <2>2. CASE f \notin gone
    BY <1>1, <1>2, <2>2, EndedAre
  <2> QED
    BY <2>1, <2>2
<1>4. RuleFibers' = {}
  BY <1>1, <1>3 DEF RuleFibers
<1>5. phase' = "idle" => running' = NoFiber
  BY <1>0 DEF OrderInv, SliceInTick
<1>6. Once(spawned') /\ Once(cascade') /\ ToSet(spawned') \cap ToSet(cascade') = {}
      /\ Drain' \subseteq Drain
  BY <1>0 DEF OrderInv, DrainAtStart, Drain
<1> QED
  BY <1>0, <1>3, <1>4, <1>5, <1>6, NoRulesLeft

LEMMA EndThinkOrdered ==
    ASSUME BrainInv, BrainInv', OrderInv, EndThink \/ Throws \/ UNCHANGED vars
    PROVE  OrderInv'
<1> USE DEF OrderInv
<1>0. /\ state' = state /\ firing' = firing /\ runQueue' = runQueue
      /\ spawned' = spawned /\ cascade' = cascade /\ running' = running
      /\ phase' = phase \/ running = NoFiber
  BY ThrowsAre DEF EndThink, RoundOver, Between, ruleVars, vars, queueVars
<1>1. \A f \in FiberId : /\ fiber'[f].rule = fiber[f].rule /\ fiber'[f].kids = fiber[f].kids
                         /\ fiber'[f].caller = fiber[f].caller /\ fiber'[f].pc = fiber[f].pc
                         /\ fiber[f].trigger = "none" => fiber'[f].trigger = "none"
  <2> TAKE f \in FiberId
  <2>1. fiber[f] \in Fiber
    BY DEF BrainInv, TypeOK
  <2>2. fiber'[f] = fiber[f] \/ (fiber[f].trigger # "none" /\ fiber'[f] = [fiber[f] EXCEPT !.trigger = "swept"])
    BY ThrowsAre DEF EndThink, vars
  <2> QED
    BY <2>1, <2>2 DEF Fiber
<1>2. \A f \in FiberId : (f \in RuleFibers' <=> f \in RuleFibers) /\ (Live(f)' <=> Live(f))
  BY <1>0, <1>1 DEF RuleFibers, Live
<1>3. \A f \in FiberId : AtStart(f)' <=> AtStart(f)
  BY <1>1, <1>2 DEF AtStart
<1>4. StartsStay
  <2>1. \A f \in FiberId : AtStart(f)' => StaysAtStart(f)
    BY <1>0, <1>1, <1>3 DEF StaysAtStart, FreshStarts
  <2>2. \A f \in FiberId : Live(f)' => StaysLive(f)
    BY <1>1, <1>2 DEF StaysLive
  <2>3. \A f \in RuleFibers' : /\ f \in RuleFibers /\ fiber'[f].rule = fiber[f].rule
                               /\ fiber'[f].kids = fiber[f].kids
    BY <1>1, <1>2 DEF RuleFibers
  <2>4. \A r \in Rule : HasBegun(r) => HasBegun(r)'
    BY <1>0 DEF HasBegun
  <2> QED
    BY <1>3, <2>1, <2>2, <2>3, <2>4 DEF StartsStay
<1>5. QueueStays /\ SliceStays
  BY <1>0 DEF QueueStays, SliceStays
<1>6. CallersBegun'
  <2> SUFFICES ASSUME NEW g \in FiberId, NEW c, c = fiber'[g].caller, c # NoFiber
               PROVE  fiber'[c].pc # "start"
    BY DEF CallersBegun
  <2>1. c = fiber[g].caller /\ fiber[c].pc # "start"
    BY <1>1 DEF CallersBegun
  <2>2. c \in FiberId
    BY <2>1 DEF BrainInv, Called, RuleFibers
  <2> QED
    BY <1>1, <2>1, <2>2
<1>7. SliceInTick'
  <2>1. RuleFibers' = RuleFibers
    BY <1>2 DEF RuleFibers
  <2> QED
    BY <1>0, <2>1 DEF SliceInTick
<1> QED
  BY <1>4, <1>5, <1>6, <1>7, SteadyKeeps DEF Steady

(* The fibers that an ending tells of it are put behind the others, and    *)
(* have all begun.                                                         *)
LEMMA EndQueueAdds ==
    ASSUME NEW gone, NEW final, Ending(gone, final), CallersBegun
    PROVE  \E told \in Seq(FiberId) :
              runQueue' = runQueue \o told /\ \A f \in ToSet(told) : fiber[f].pc # "start"
<1> DEFINE R == {r \in Emptied(gone) : watcher[r] \in WaitingAskers(gone)}
<1>1. R \in SUBSET Rule /\ IsFiniteSet(R) /\ Callers(gone) \in SUBSET FiberId
      /\ IsFiniteSet(Callers(gone)) /\ WaitingAskers(gone) \in SUBSET Askers(gone)
      /\ Askers(gone) \in SUBSET FiberId
  BY KinType, RuleProgramAssumption, FibersAssumption, FS_Subset DEF Ending
<1>2. PICK walk \in InnerFirst(R), resumed \in SetToSeqs(Callers(gone)) :
         runQueue' = runQueue \o [i \in DOMAIN walk |-> watcher[walk[i]]] \o resumed
  BY DEF EndFibers, Ending
<1>3. resumed \in Seq(FiberId) /\ ToSet(resumed) = Callers(gone)
  BY <1>1, SeqsCover
<1>4. walk \in Seq(R)
  BY <1>1, SeqsCover DEF InnerFirst
<1> PICK woken : woken = [i \in DOMAIN walk |-> watcher[walk[i]]]
  OBVIOUS
<1>5. woken \in Seq(FiberId) /\ ToSet(woken) \subseteq Askers(gone)
  <2>1. \A i \in DOMAIN walk : watcher[walk[i]] \in Askers(gone)
    BY <1>1, <1>4
  <2>2. DOMAIN woken = DOMAIN walk /\ \A i \in DOMAIN woken : woken[i] \in Askers(gone)
    BY <2>1
  <2> QED
    BY <1>1, <1>4, <2>2 DEF ToSet
<1>6. runQueue \in Seq(FiberId)
  BY DrainSeqs DEF Ending
<1> PICK told : told = woken \o resumed
  OBVIOUS
<1>7. told \in Seq(FiberId) /\ ToSet(told) \subseteq Askers(gone) \cup Callers(gone)
  <2>1. \A x : x \in ToSet(woken \o resumed) <=> x \in ToSet(woken) \/ x \in ToSet(resumed)
    BY <1>3, <1>5, Joined
  <2>2. told \in Seq(FiberId)
    BY <1>3, <1>5
  <2> QED
    BY <1>3, <1>5, <2>1, <2>2
<1>8. runQueue' = runQueue \o told
  <2>1. runQueue' = runQueue \o woken \o resumed
    BY <1>2
  <2>2. told = woken \o resumed
    OBVIOUS
  <2> QED
    BY ONLY <1>3, <1>5, <1>6, <2>1, <2>2
<1>9. \A f \in ToSet(told) : fiber[f].pc # "start"
  <2>1. \A f \in Askers(gone) : fiber[f].pc # "start"
    BY ToldAreLive DEF Ending, Asks
  <2>2. \A f \in Callers(gone) : fiber[f].pc # "start"
    BY DEF Callers, CallersBegun, Ending
  <2> QED
    BY <1>7, <2>1, <2>2
<1> QED
  BY <1>7, <1>8, <1>9

LEMMA EndQueueStays ==
    ASSUME NEW gone, NEW final, Ending(gone, final), OrderInv, CallersBegun,
           \A f \in FiberId : AtStart(f)' => AtStart(f)
    PROVE  QueueStays
<1>1. runQueue \in Seq(FiberId)
  BY DrainSeqs DEF Ending
<1>2. PICK told \in Seq(FiberId) :
         runQueue' = runQueue \o told /\ \A f \in ToSet(told) : fiber[f].pc # "start"
  BY EndQueueAdds
<1>3. ToSet(runQueue) \subseteq ToSet(runQueue')
  BY <1>1, <1>2, Joined
<1>4. ASSUME NEW f \in FiberId, AtStart(f)', NEW g \in FiberId, Ahead(runQueue, g, f)
      PROVE  Ahead(runQueue', g, f)
  <2>1. f \notin ToSet(told)
    BY <1>2, <1>4 DEF AtStart
  <2> QED
    BY <1>1, <1>2, <1>4, <2>1, AbsentAhead, AheadJoined
<1> QED
  BY <1>3, <1>4 DEF QueueStays

LEMMA EndWithOrdered ==
    ASSUME BrainInv, BrainInv', OrderInv, NEW f \in FiberId, Return(f) \/ Fault(f)
    PROVE  OrderInv'
<1> USE DEF OrderInv
<1> PICK gone : gone = {f}
  OBVIOUS
<1>0. PICK final \in Terminal : EndWith(f, final)
  BY DEF Return, Fault, Terminal
<1>1. /\ Executing(f) /\ Live(f) /\ EndSlice /\ firing' = firing
      /\ Ending(gone, final) /\ running = f
  BY <1>0, RunningBegun DEF Return, Fault, EndWith, Ending, BrainInv
<1>2. fiber[f].pc # "start"
  BY <1>1 DEF Return, Fault, FreshStarts, AtStart, RuleFibers
<1>3. \A g \in Askers(gone) : g \in FiberId /\ fiber[g].pc = "asked" /\ Live(g)
  BY <1>1, KinType, ToldAreLive DEF Ending, Asks
<1>4. \A g \in FiberId :
         /\ Live(g)' => g # f /\ Live(g) /\ fiber'[g].rule = fiber[g].rule
                        /\ fiber'[g].kids = fiber[g].kids
         /\ g # f => /\ Live(g)' <=> Live(g)
                     /\ fiber'[g].caller = fiber[g].caller \/ fiber'[g].caller = NoFiber
                     /\ fiber'[g].pc = "action" <=> fiber[g].pc = "action"
                     /\ g \notin Askers(gone) => /\ fiber'[g].trigger = fiber[g].trigger
                                                 /\ fiber'[g].pc = fiber[g].pc
         /\ g = f => fiber'[g] = Blank
  <2> TAKE g \in FiberId
  <2>1. CASE g = f
    BY <1>1, <2>1, EndedAre DEF Live
  <2>2. CASE g # f
    <3>1. g \notin gone
      BY <2>2
    <3> QED
      BY <1>1, <2>2, <3>1, EndedAre
  <2> QED
    BY <2>1, <2>2
<1>5. \A g \in Askers(gone) : fiber'[g].pc # "start"
  <2> TAKE g \in Askers(gone)
  <2>1. g \notin gone /\ g \in FiberId
    BY <1>3 DEF Askers
  <2>2. fiber'[g].pc = IF g \in WaitingAskers(gone) THEN
                          IF Completed(g, gone, final) THEN "when" ELSE "unarmed"
                       ELSE fiber[g].pc
    <3>1. BrainInv /\ EndFibers(gone, final)
      BY <1>1 DEF Ending
    <3>2. fiber[g] \in Fiber
      BY <2>1 DEF BrainInv, TypeOK
    <3>3. fiber'[g] = [fiber[g] EXCEPT
              !.pc = IF g \in WaitingAskers(gone) THEN
                        IF Completed(g, gone, final) THEN "when" ELSE "unarmed" ELSE @,
              !.waits = IF g \in WaitingAskers(gone) \cup Callers(gone) THEN "nothing" ELSE @,
              !.caller = IF @ \in gone THEN NoFiber ELSE @,
              !.trigger = IF g \in WaitingAskers(gone) THEN "none"
                          ELSE IF g \in Askers(gone) THEN
                             IF Completed(g, gone, final) THEN "true" ELSE "false" ELSE @]
      BY <2>1, <3>1 DEF EndFibers
    <3> QED
      BY <3>2, <3>3 DEF Fiber
  <2> QED
    BY <1>3, <2>2
<1>6. \A g \in FiberId : AtStart(g)' => AtStart(g) /\ g # f /\ g \notin Askers(gone)
  <2> SUFFICES ASSUME NEW g \in FiberId, AtStart(g)'
               PROVE  AtStart(g) /\ g # f /\ g \notin Askers(gone)
    OBVIOUS
  <2>1. Live(g)' /\ fiber'[g].pc = "start"
    BY DEF AtStart, RuleFibers
  <2>2. g # f /\ g \notin Askers(gone) /\ Live(g) /\ fiber[g].pc = "start"
    BY <1>4, <1>5, <2>1
  <2> QED
    BY <2>2 DEF AtStart, RuleFibers
<1>7. \A g \in FiberId : AtStart(g) => AtStart(g)' /\ state'[g] = "RUNNABLE"
  <2> SUFFICES ASSUME NEW g \in FiberId, AtStart(g)
               PROVE  AtStart(g)' /\ state'[g] = "RUNNABLE"
    OBVIOUS
  <2>1. g # f /\ g \notin Askers(gone) /\ Live(g) /\ state[g] = "RUNNABLE"
    BY <1>2, <1>3 DEF AtStart, RuleFibers, FreshStarts
  <2>2. AtStart(g)'
    BY <1>4, <2>1 DEF AtStart, RuleFibers
  <2>3. state'[g] = "RUNNABLE"
    BY <1>1, <2>1 DEF Ending, EndFibers
  <2> QED
    BY <2>2, <2>3
<1>8. StartsStay
  <2>1. \A g \in FiberId : AtStart(g)' => StaysAtStart(g)
    <3> SUFFICES ASSUME NEW g \in FiberId, AtStart(g)'
                 PROVE  StaysAtStart(g)
      OBVIOUS
    <3>1. AtStart(g) /\ g # f /\ g \notin Askers(gone) /\ Live(g)'
      BY <1>6 DEF AtStart, RuleFibers
    <3> QED
      BY <1>4, <1>7, <3>1 DEF StaysAtStart
  <2>2. \A g \in FiberId : Live(g)' => StaysLive(g)
    BY <1>4 DEF StaysLive
  <2>3. \A g \in RuleFibers' : /\ g \in RuleFibers /\ fiber'[g].rule = fiber[g].rule
                               /\ fiber'[g].kids = fiber[g].kids
    <3> SUFFICES ASSUME NEW g \in FiberId, Live(g)', fiber'[g].pc # "action"
                 PROVE  /\ g \in RuleFibers /\ fiber'[g].rule = fiber[g].rule
                        /\ fiber'[g].kids = fiber[g].kids
      BY DEF RuleFibers
    <3> QED
      BY <1>4 DEF RuleFibers
  <2>4. \A r \in Rule : HasBegun(r) => HasBegun(r)'
    BY <1>1 DEF HasBegun
  <2> QED
    BY <1>7, <2>1, <2>2, <2>3, <2>4 DEF StartsStay
<1>9. QueueStays
  BY <1>1, <1>6, EndQueueStays
<1>10. SliceStays
  BY <1>1, <1>2 DEF SliceStays, AtStart
<1>11. SliceInTick'
  BY <1>1 DEF EndSlice, SliceInTick
<1>12. CallersBegun'
  <2> SUFFICES ASSUME NEW g \in FiberId, NEW c, c = fiber'[g].caller, c # NoFiber
               PROVE  fiber'[c].pc # "start"
    BY DEF CallersBegun
  <2>1. c \in RuleFibers'
    BY DEF BrainInv, Called
  <2>2. c \in FiberId /\ c # f
    BY <1>4, <2>1 DEF RuleFibers
  <2>3. g # f
    BY <1>4 DEF Blank
  <2>4. c = fiber[g].caller
    BY <1>4, <2>3
  <2>5. fiber[c].pc # "start"
    BY <2>4 DEF CallersBegun
  <2> QED
    BY <1>4, <1>5, <2>2, <2>5
<1> QED
  BY <1>8, <1>9, <1>10, <1>11, <1>12, SteadyKeeps DEF Steady

-----------------------------------------------------------------------------
(* Steps that start fibers or take the next one.                           *)

LEMMA CallActionOrdered ==
    ASSUME BrainInv, BrainInv', OrderInv, NEW f \in FiberId, CallAction(f)
    PROVE  OrderInv'
<1> USE DEF OrderInv
<1> PICK c : c = FreshFibers(1)[1]
  OBVIOUS
<1> PICK x : x = [Blank EXCEPT !.rule = fiber[f].rule, !.pc = "action", !.caller = f]
  OBVIOUS
<1>0. /\ Executing(f) /\ fiber[f].pc \in {"when", "do"} /\ HasFresh(1) /\ Enqueue(c) /\ EndSlice
      /\ firing' = firing
      /\ state' = [state EXCEPT ![f] = "WAITING", ![c] = "RUNNABLE"]
      /\ fiber' = [fiber EXCEPT ![f].waits = "action", ![c] = x]
  BY DEF CallAction, ruleVars
<1>1. Live(f) /\ running = f /\ fiber[f].rule \in Rule
  BY <1>0, RunningBegun
<1>2. c \in FiberId /\ ~Live(c) /\ c # f /\ c \notin Drain
  <2>1. c \in Unused
    BY <1>0, FreshAre
  <2> QED
    BY <1>1, <2>1, DrainSeqs DEF Unused
<1>3. fiber \in [FiberId -> Fiber] /\ state \in [FiberId -> FiberState]
  BY DEF BrainInv, TypeOK, QueueTypeOK
<1>4. fiber'[f] = [fiber[f] EXCEPT !.waits = "action"] /\ fiber'[c] = x
      /\ \A g \in FiberId : g # f /\ g # c => fiber'[g] = fiber[g]
  BY <1>0, <1>2, <1>3
<1>5. state'[f] = "WAITING" /\ state'[c] = "RUNNABLE"
      /\ \A g \in FiberId : g # f /\ g # c => state'[g] = state[g]
  BY <1>0, <1>2, <1>3
<1>6. /\ fiber'[f].pc = fiber[f].pc /\ fiber'[f].rule = fiber[f].rule
      /\ fiber'[f].kids = fiber[f].kids /\ fiber'[f].caller = fiber[f].caller
  <2>1. fiber[f] \in Fiber
    BY <1>3
  <2> QED
    BY <1>4, <2>1 DEF Fiber
<1>7. fiber'[c].pc = "action" /\ fiber'[c].rule = fiber[f].rule /\ fiber'[c].caller = f
  BY <1>4 DEF Blank
<1>8. \A g \in RuleFibers' : /\ g \in RuleFibers /\ g # c /\ fiber'[g].rule = fiber[g].rule
                             /\ fiber'[g].kids = fiber[g].kids /\ fiber'[g].pc = fiber[g].pc
  <2> SUFFICES ASSUME NEW g \in FiberId, Live(g)', fiber'[g].pc # "action"
               PROVE  /\ g \in RuleFibers /\ g # c /\ fiber'[g].rule = fiber[g].rule
                      /\ fiber'[g].kids = fiber[g].kids /\ fiber'[g].pc = fiber[g].pc
    BY DEF RuleFibers
  <2>1. g # c
    BY <1>7
  <2>2. CASE g = f
    BY <1>1, <1>6, <2>1, <2>2 DEF RuleFibers
  <2>3. CASE g # f
    BY <1>4, <1>5, <2>1, <2>3 DEF RuleFibers, Live
  <2> QED
    BY <2>2, <2>3
<1>9. \A g \in FiberId : AtStart(g)' => AtStart(g) /\ g # f /\ g # c
  BY <1>0, <1>6, <1>8 DEF AtStart
<1>10. \A g \in FiberId : AtStart(g) => AtStart(g)'
  <2> SUFFICES ASSUME NEW g \in FiberId, AtStart(g)
               PROVE  AtStart(g)'
    OBVIOUS
  <2>1. g # f /\ g # c
    BY <1>0, <1>2 DEF AtStart, RuleFibers
  <2> QED
    BY <1>4, <1>5, <2>1 DEF AtStart, RuleFibers, Live
<1>11. StartsStay
  <2>1. \A g \in FiberId : AtStart(g)' => StaysAtStart(g)
    <3> SUFFICES ASSUME NEW g \in FiberId, AtStart(g)'
                 PROVE  StaysAtStart(g)
      OBVIOUS
    <3>1. AtStart(g) /\ g # f /\ g # c
      BY <1>9
    <3> QED
      BY <1>4, <1>5, <3>1 DEF StaysAtStart, FreshStarts
  <2>2. \A r \in Rule : HasBegun(r) => HasBegun(r)'
    BY <1>0 DEF HasBegun
  <2>3. \A g \in FiberId : Live(g)' => StaysLive(g)
    <3> SUFFICES ASSUME NEW g \in FiberId, Live(g)'
                 PROVE  StaysLive(g)
      OBVIOUS
    <3>1. CASE g = f
      BY <1>1, <1>6, <3>1 DEF StaysLive
    <3>2. CASE g # f /\ g # c
      BY <1>4, <1>5, <3>2 DEF StaysLive, Live
    <3>3. CASE g = c
      <4>1. \A a \in Within[fiber[f].rule] : a \in Rule /\ HasBegun(a)
        BY <1>0, <1>1, WithinSelf DEF OuterBegun
      <4>2. \A a \in Within[fiber'[g].rule] : HasBegun(a)'
        BY <1>7, <2>2, <3>3, <4>1
      <4> QED
        BY <1>2, <3>3, <4>2 DEF StaysLive
    <3> QED
      BY <3>1, <3>2, <3>3
  <2> QED
    BY <1>8, <1>10, <2>1, <2>2, <2>3 DEF StartsStay
<1>12. QueueStays
  BY <1>0, <1>2, <1>9, EnqueueStays
<1>13. SliceStays
  BY <1>0, <1>1 DEF SliceStays, AtStart
<1>14. SliceInTick'
  BY <1>0 DEF EndSlice, SliceInTick
<1>15. CallersBegun'
  <2> SUFFICES ASSUME NEW g \in FiberId, NEW d, d = fiber'[g].caller, d # NoFiber
               PROVE  fiber'[d].pc # "start"
    BY DEF CallersBegun
  <2>1. CASE g = c
    BY <1>0, <1>6, <1>7, <2>1
  <2>2. CASE g # c
    <3>1. d = fiber[g].caller
      BY <1>4, <1>6, <2>2
    <3>2. d \in RuleFibers /\ fiber[d].pc # "start"
      BY <3>1 DEF CallersBegun, BrainInv, Called
    <3>3. d \in FiberId /\ d # c
      BY <1>2, <3>2 DEF RuleFibers
    <3> QED
      BY <1>4, <1>6, <3>2, <3>3
  <2> QED
    BY <2>1, <2>2
<1> QED
  BY <1>11, <1>12, <1>13, <1>14, <1>15, SteadyKeeps DEF Steady

(* The tick takes h from the front of the cascade or of the run queue.     *)
Takes(h) ==
    /\ state' = state /\ fiber' = fiber /\ firing' = firing /\ phase' # "idle"
    /\ running = NoFiber /\ running' = IF state[h] = "RUNNABLE" THEN h ELSE NoFiber
    /\ h \in FiberId /\ (AtStart(h) \/ ToSet(cascade) = {} \/ ~Live(h))
    /\ spawned' = spawned /\ Once(cascade') /\ Drain' \subseteq Drain
    /\ ToSet(spawned') \cap ToSet(cascade') = {}
    /\ Live(h) => h \notin Drain'
    /\ \A f : f \in ToSet(runQueue) => f = h \/ f \in ToSet(runQueue')
    /\ \A f : f \in ToSet(cascade) => f = h \/ f \in ToSet(cascade')
    /\ \A f, g : AheadOf(g, f) => f # h /\ (g # h => AheadOf(g, f)')

LEMMA RunNextTakes ==
    ASSUME BrainInv, OrderInv, RunNext
    PROVE  \E h : Takes(h)
<1> USE DEF OrderInv
<1>0. /\ state' = state /\ fiber' = fiber /\ firing' = firing /\ phase' = phase /\ phase # "idle"
      /\ running = NoFiber /\ spawned' = spawned
  BY DEF RunNext, ruleVars, NextInRound, NextInCascade, Between
<1>1. spawned \in Seq(FiberId) /\ cascade \in Seq(FiberId) /\ runQueue \in Seq(FiberId)
      /\ Drain \subseteq FiberId /\ NoFiber \notin FiberId
  BY DrainSeqs
<1>2. \A f \in ToSet(spawned) : ~Live(f)
  BY <1>0 DEF DrainAtStart
<1>3. CASE NextInCascade
  <2> PICK h : h = Head(cascade)
    OBVIOUS
  <2>1. /\ cascade # << >> /\ cascade' = Tail(cascade) /\ runQueue' = runQueue
        /\ running' = IF state[h] = "RUNNABLE" THEN h ELSE NoFiber
    BY <1>3 DEF NextInCascade
  <2>2. /\ h \in ToSet(cascade) /\ Once(cascade') /\ h \notin ToSet(cascade')
        /\ \A f : f \in ToSet(cascade) <=> f = h \/ f \in ToSet(cascade')
    BY <1>1, <2>1, OnceTail DEF DrainAtStart
  <2>3. /\ Drain' \subseteq Drain /\ ToSet(spawned') \cap ToSet(cascade') = {}
        /\ h \in Drain /\ h \notin Drain'
    BY <1>0, <2>2 DEF DrainAtStart, Drain
  <2>4. AtStart(h) \/ ~Live(h)
    BY <2>3 DEF DrainAtStart
  <2>5. ASSUME NEW f, NEW g, AheadOf(g, f)
        PROVE  f # h /\ (g # h => AheadOf(g, f)')
    <3>1. Ahead(cascade, g, f)
      BY <2>5 DEF AheadOf
    <3>2. f # h /\ (g # h => Ahead(cascade', g, f))
      BY <1>1, <2>1, <3>1, AheadInTail
    <3> QED
      BY <1>0, <2>1, <2>5, <3>2 DEF AheadOf
  <2>6. Takes(h)
    BY <1>0, <1>1, <2>1, <2>2, <2>3, <2>4, <2>5 DEF Takes
  <2> QED
    BY <2>6
<1>4. CASE NextInRound
  <2> PICK h : h = Head(runQueue)
    OBVIOUS
  <2>1. /\ cascade = << >> /\ cascade' = cascade /\ runQueue' = Tail(runQueue)
        /\ running' = IF state[h] = "RUNNABLE" THEN h ELSE NoFiber
        /\ round > 0
    BY <1>4 DEF NextInRound
  <2>2. runQueue # << >>
    BY <2>1 DEF BrainInv, TypeOK, QueueTypeOK
  <2>3. /\ h \in ToSet(runQueue) /\ h \in FiberId
        /\ \A f : f \in ToSet(runQueue) <=> f = h \/ f \in ToSet(runQueue')
    BY <1>1, <2>1, <2>2, OnceTail, DrainSeqs
  <2>4. ToSet(cascade) = {} /\ ToSet(cascade') = {}
    BY <2>1 DEF ToSet
  <2>5. Live(h) => h \notin Drain'
    BY <1>0, <1>2, <2>4 DEF Drain
  <2>6. ASSUME NEW f, NEW g, AheadOf(g, f)
        PROVE  f # h /\ (g # h => AheadOf(g, f)')
    <3>1. Ahead(runQueue, g, f)
      BY <2>6 DEF AheadOf
    <3>2. f # h /\ (g # h => Ahead(runQueue', g, f))
      BY <1>1, <2>1, <2>2, <3>1, AheadInTail
    <3> QED
      BY <1>0, <2>1, <2>6, <3>2 DEF AheadOf
  <2>7. Once(cascade') /\ Drain' \subseteq Drain /\ ToSet(spawned') \cap ToSet(cascade') = {}
    BY <1>0, <2>1 DEF DrainAtStart, Drain
  <2>8. Takes(h)
    BY <1>0, <2>1, <2>3, <2>4, <2>5, <2>6, <2>7 DEF Takes
  <2> QED
    BY <2>8
<1> QED
  BY <1>3, <1>4 DEF RunNext

LEMMA RunNextOrdered ==
    ASSUME BrainInv, BrainInv', OrderInv, RunNext
    PROVE  OrderInv'
<1> USE DEF OrderInv
<1> PICK h : Takes(h)
  BY RunNextTakes
<1>0. /\ state' = state /\ fiber' = fiber /\ firing' = firing /\ phase' # "idle"
      /\ running = NoFiber /\ running' = IF state[h] = "RUNNABLE" THEN h ELSE NoFiber
      /\ h \in FiberId /\ NoFiber \notin FiberId
  BY DrainSeqs DEF Takes
<1>1. \A f \in FiberId : AtStart(f) => Live(f) /\ state[f] = "RUNNABLE"
  BY DEF FreshStarts, AtStart, RuleFibers
<1>2. /\ RuleFibers' = RuleFibers
      /\ \A f : (AtStart(f)' <=> AtStart(f)) /\ (Live(f)' <=> Live(f))
      /\ \A r : HasBegun(r)' <=> HasBegun(r)
  BY <1>0 DEF RuleFibers, AtStart, Live, HasBegun
<1>3. FreshStarts' /\ CallersBegun'
  BY <1>0, <1>2 DEF FreshStarts, CallersBegun
<1>4. OuterBegun'
  BY <1>0, <1>2 DEF OuterBegun
<1>5. SliceInTick'
  BY <1>0 DEF SliceInTick
<1>6. DrainAtStart'
  <2>1. running' \notin Drain'
    BY <1>0, DrainSeqs DEF Takes, Live, Alive
  <2>2. Once(spawned') /\ Once(cascade') /\ ToSet(spawned') \cap ToSet(cascade') = {}
    BY DEF Takes, DrainAtStart
  <2>3. \A f \in Drain' : Live(f)' => AtStart(f)'
    BY <1>2 DEF Takes, DrainAtStart
  <2>4. \A f \in ToSet(spawned') : ~Live(f)'
    BY <1>0, <1>2 DEF Takes, DrainAtStart
  <2> QED
    BY <2>1, <2>2, <2>3, <2>4 DEF DrainAtStart
<1>7. RootsQueued'
  <2> SUFFICES ASSUME NEW f \in FiberId, AtStart(f), Parent[fiber[f].rule] = NoRule
               PROVE  f = running' \/ f \in ToSet(runQueue')
    BY <1>0, <1>2 DEF RootsQueued
  <2>1. f \in ToSet(runQueue) /\ state[f] = "RUNNABLE"
    BY <1>0, <1>1 DEF RootsQueued
  <2> QED
    BY <1>0, <2>1 DEF Takes
<1>8. KidsAhead'
  <2> SUFFICES ASSUME NEW p \in RuleFibers, NEW i \in DOMAIN ChildRules[fiber[p].rule],
                      i <= fiber[p].kids, ~HasBegun(ChildRules[fiber[p].rule][i])
               PROVE  \E g \in FiberId :
                         /\ AtStart(g) /\ fiber[g].rule = ChildRules[fiber[p].rule][i]
                         /\ IF running' = p THEN g \in ToSet(spawned')
                                            ELSE g = running' \/ g \in ToSet(cascade')
    BY <1>0, <1>2 DEF KidsAhead
  <2>1. running # p
    BY <1>0 DEF RuleFibers
  <2>2. PICK g \in FiberId : /\ AtStart(g) /\ fiber[g].rule = ChildRules[fiber[p].rule][i]
                             /\ g = running \/ g \in ToSet(cascade)
    BY <2>1 DEF KidsAhead
  <2>3. g \in ToSet(cascade) /\ state[g] = "RUNNABLE"
    BY <1>0, <1>1, <2>2
  <2>4. g = running' \/ g \in ToSet(cascade')
    BY <1>0, <2>3 DEF Takes
  <2>5. running' # p
    <3> SUFFICES ASSUME running' = p
                 PROVE  FALSE
      OBVIOUS
    <3>1. p = h /\ AtStart(h)
      BY <1>0, <2>3 DEF Takes, RuleFibers
    <3>2. fiber[p].kids = 0 /\ fiber[p].rule \in Rule
      BY <1>0, <3>1 DEF FreshStarts, BrainInv, Settled, AtStart, RuleFibers
    <3>3. i \in 1 .. Len(ChildRules[fiber[p].rule])
      BY <3>2, ChildRulesBounded
    <3> QED
      BY <3>2, <3>3
  <2> QED
    BY <2>2, <2>4, <2>5
<1>9. SubjectsAhead'
  <2> SUFFICES ASSUME NEW f \in RuleFibers, NEW s, s = PrecedingSibling[fiber[f].rule],
                      s # NoRule, ~HasBegun(s)
               PROVE  AtStart(f) /\ f # running' /\ SubjectFirst(f)'
    BY <1>0, <1>2 DEF SubjectsAhead
  <2>1. AtStart(f) /\ f # running /\ SubjectFirst(f) /\ f \in FiberId
    BY DEF SubjectsAhead, RuleFibers
  <2>2. PICK g \in FiberId : AtStart(g) /\ fiber[g].rule = s /\ (g = running \/ AheadOf(g, f))
    BY <2>1 DEF SubjectFirst
  <2>3. AheadOf(g, f) /\ state[g] = "RUNNABLE"
    BY <1>0, <1>1, <2>2
  <2>4. f # h /\ (g # h => AheadOf(g, f)')
    BY <2>3 DEF Takes
  <2>5. f # running'
    BY <1>0, <2>1, <2>4
  <2>6. g = running' \/ AheadOf(g, f)'
    BY <1>0, <2>3, <2>4
  <2> QED
    BY <1>0, <1>2, <2>1, <2>2, <2>5, <2>6 DEF SubjectFirst
<1> QED
  BY <1>3, <1>4, <1>5, <1>6, <1>7, <1>8, <1>9

LEMMA AboveChild ==
    ASSUME NEW r \in Rule, NEW n \in DOMAIN ChildRules[r]
    PROVE  PrecedingSibling[ChildRules[r][n]] = IF n = 1 THEN NoRule ELSE ChildRules[r][n - 1]
<1> PICK k : k = ChildRules[r][n]
  OBVIOUS
<1>1. k \in Rule /\ Parent[k] = r /\ r # NoRule
  BY ChildRule, RuleProgramAssumption
<1>2. Level(k) = ChildRules[r]
  BY <1>1 DEF Level
<1>3. PICK i \in DOMAIN ChildRules[r] :
         /\ ChildRules[r][i] = k
         /\ PrecedingSibling[k] = IF i = 1 THEN NoRule ELSE ChildRules[r][i - 1]
  BY <1>1, <1>2, AboveIs
<1>4. i = n
  BY <1>3, ChildRulesDistinct
<1> QED
  BY <1>3, <1>4

(* What SPAWN_RULE changes, for the fiber c of the child rule k.           *)
SpawnsOne(f, c, k) ==
    /\ Executing(f) /\ fiber[f].pc \in {"do", "spawn"} /\ fiber[f].rule \in Rule
    /\ fiber[f].kids + 1 \in DOMAIN ChildRules[fiber[f].rule] /\ fiber[f].kids \in Nat
    /\ k = ChildRules[fiber[f].rule][fiber[f].kids + 1]
    /\ k \in Rule /\ Parent[k] = fiber[f].rule
    /\ c \in FiberId /\ ~Live(c) /\ c # f /\ c \notin Drain /\ c \notin ToSet(runQueue)
    /\ fiber'[f].pc = "spawn" /\ fiber'[f].kids = fiber[f].kids + 1
    /\ fiber'[f].rule = fiber[f].rule /\ fiber'[f].caller = fiber[f].caller
    /\ fiber'[c] = [Blank EXCEPT !.rule = k] /\ state'[c] = "RUNNABLE"
    /\ \A g \in FiberId : g # c => state'[g] = state[g]
    /\ \A g \in FiberId : g # c /\ g # f => fiber'[g] = fiber[g]
    /\ spawned' = spawned \o <<c>> /\ cascade' = cascade /\ runQueue' = runQueue
    /\ running' = running /\ phase' = phase /\ firing' = firing

LEMMA SpawnRuleOne ==
    ASSUME BrainInv, NEW f \in FiberId, SpawnRule(f)
    PROVE  \E c, k : SpawnsOne(f, c, k)
<1> PICK c : c = FreshFibers(1)[1]
  OBVIOUS
<1> PICK n : n = fiber[f].kids + 1
  OBVIOUS
<1> PICK k : k = ChildRules[fiber[f].rule][n]
  OBVIOUS
<1>1. /\ fiber[f].rule \in Rule /\ n \in DOMAIN ChildRules[fiber[f].rule] /\ fiber[f].kids \in Nat
      /\ k \in Rule /\ Parent[k] = fiber[f].rule
      /\ c \in Unused /\ c \in FiberId /\ f # c /\ ~Live(c)
  BY Spawns
<1>2. /\ Executing(f) /\ fiber[f].pc \in {"do", "spawn"}
      /\ state' = [state EXCEPT ![c] = "RUNNABLE"]
      /\ fiber' = [fiber EXCEPT ![f].pc = "spawn", ![f].kids = n, ![c] = [Blank EXCEPT !.rule = k]]
      /\ spawned' = Append(spawned, c) /\ cascade' = cascade /\ runQueue' = runQueue
      /\ running' = running /\ phase' = phase /\ firing' = firing
  BY DEF SpawnRule
<1>3. c \notin Drain /\ c \notin ToSet(runQueue) /\ spawned \in Seq(FiberId)
  BY <1>1, DrainSeqs DEF Unused
<1>4. spawned' = spawned \o <<c>>
  BY <1>1, <1>2, <1>3
<1>5. fiber \in [FiberId -> Fiber] /\ state \in [FiberId -> FiberState] /\ fiber[f] \in Fiber
  BY DEF BrainInv, TypeOK, QueueTypeOK
<1>6. fiber'[f] = [fiber[f] EXCEPT !.pc = "spawn", !.kids = n]
      /\ fiber'[c] = [Blank EXCEPT !.rule = k]
      /\ \A g \in FiberId : g # c /\ g # f => fiber'[g] = fiber[g]
  BY <1>1, <1>2, <1>5
<1>7. fiber'[f].pc = "spawn" /\ fiber'[f].kids = n
      /\ fiber'[f].rule = fiber[f].rule /\ fiber'[f].caller = fiber[f].caller
  BY <1>5, <1>6 DEF Fiber
<1>8. state'[c] = "RUNNABLE" /\ \A g \in FiberId : g # c => state'[g] = state[g]
  BY <1>1, <1>2, <1>5
<1>9. SpawnsOne(f, c, k)
  BY <1>1, <1>2, <1>3, <1>4, <1>6, <1>7, <1>8 DEF SpawnsOne
<1> QED
  BY <1>9

LEMMA SpawnRuleOrdered ==
    ASSUME BrainInv, BrainInv', OrderInv, NEW f \in FiberId, SpawnRule(f)
    PROVE  OrderInv'
<1> USE DEF OrderInv
<1> PICK c, k : SpawnsOne(f, c, k)
  BY SpawnRuleOne
<1> PICK r : r = fiber[f].rule
  OBVIOUS
<1> PICK n : n = fiber[f].kids + 1
  OBVIOUS
<1>0. /\ Executing(f) /\ fiber[f].pc \in {"do", "spawn"} /\ r \in Rule
      /\ n \in DOMAIN ChildRules[r] /\ fiber[f].kids \in Nat /\ k = ChildRules[r][n]
      /\ k \in Rule /\ Parent[k] = r
      /\ c \in FiberId /\ ~Live(c) /\ c # f /\ c \notin Drain /\ c \notin ToSet(runQueue)
  BY DEF SpawnsOne
<1>1. /\ fiber'[f].pc = "spawn" /\ fiber'[f].kids = n
      /\ fiber'[f].rule = r /\ fiber'[f].caller = fiber[f].caller
      /\ state'[c] = "RUNNABLE"
      /\ \A g \in FiberId : g # c => state'[g] = state[g]
      /\ \A g \in FiberId : g # c /\ g # f => fiber'[g] = fiber[g]
  BY DEF SpawnsOne
<1>2. /\ spawned' = spawned \o <<c>> /\ cascade' = cascade /\ runQueue' = runQueue
      /\ running' = running /\ phase' = phase /\ firing' = firing
  BY DEF SpawnsOne
<1>3. /\ fiber'[c].rule = k /\ fiber'[c].pc = "start" /\ fiber'[c].kids = 0
      /\ fiber'[c].caller = NoFiber /\ fiber'[c].trigger = "none"
  BY DEF SpawnsOne, Blank
<1>4. running = f /\ Live(f) /\ f # NoFiber /\ phase # "idle" /\ ~AtStart(f) /\ ~AtStart(f)'
  BY <1>0, <1>1, RunningBegun DEF AtStart
<1>5. /\ Live(c)' /\ c \in RuleFibers' /\ AtStart(c)' /\ f \in RuleFibers /\ f \in RuleFibers'
      /\ ~AtStart(c) /\ c \notin RuleFibers
  BY <1>0, <1>1, <1>3, <1>4 DEF Live, Alive, RuleFibers, AtStart
<1>6. \A g \in FiberId : g # c /\ g # f =>
         /\ fiber'[g] = fiber[g] /\ state'[g] = state[g]
         /\ Live(g)' <=> Live(g)
         /\ g \in RuleFibers' <=> g \in RuleFibers
         /\ AtStart(g)' <=> AtStart(g)
  BY <1>1 DEF Live, RuleFibers, AtStart
<1>7. \A q : HasBegun(q)' <=> HasBegun(q)
  BY <1>2 DEF HasBegun
<1>8. FreshStarts'
  <2> SUFFICES ASSUME NEW g \in FiberId, AtStart(g)'
               PROVE  /\ state'[g] = "RUNNABLE" /\ fiber'[g].kids = 0
                      /\ fiber'[g].trigger = "none"
    BY DEF FreshStarts
  <2>1. CASE g = c
    BY <1>1, <1>3, <2>1
  <2>2. CASE g # c
    BY <1>4, <1>6, <2>2 DEF FreshStarts
  <2> QED
    BY <2>1, <2>2
<1>9. CallersBegun'
  <2> SUFFICES ASSUME NEW g \in FiberId, NEW d, d = fiber'[g].caller, d # NoFiber
               PROVE  fiber'[d].pc # "start"
    BY DEF CallersBegun
  <2>1. g # c /\ d = fiber[g].caller
    BY <1>1, <1>3
  <2>2. d \in RuleFibers /\ fiber[d].pc # "start"
    BY <2>1 DEF CallersBegun, BrainInv, Called
  <2>3. d \in FiberId /\ d # c
    BY <1>5, <2>2 DEF RuleFibers
  <2> QED
    BY <1>1, <2>2, <2>3
<1>10. OuterBegun'
  <2> SUFFICES ASSUME NEW g \in FiberId, Live(g)', NEW a \in Within[fiber'[g].rule],
                      a # fiber'[g].rule \/ fiber'[g].pc # "start"
               PROVE  HasBegun(a)
    BY <1>7 DEF OuterBegun
  <2>1. \A b \in Within[r] : HasBegun(b)
    BY <1>0, <1>4 DEF OuterBegun
  <2>2. CASE g = c
    <3>1. Within[k] = {k} \cup Within[r]
      <4>1. Parent[k] # NoRule
        BY <1>0, RuleProgramAssumption
      <4> QED
        BY <1>0, <4>1, WithinStep
    <3> QED
      BY <1>3, <2>1, <2>2, <3>1
  <2>3. CASE g = f
    BY <1>1, <2>1, <2>3
  <2>4. CASE g # c /\ g # f
    BY <1>6, <2>4 DEF OuterBegun
  <2> QED
    BY <2>2, <2>3, <2>4
<1>11. SliceInTick'
  BY <1>0, <1>1, <1>2, <1>4 DEF SliceInTick, Executing
<1>12. /\ spawned \in Seq(FiberId) /\ <<c>> \in Seq(FiberId) /\ Once(<<c>>) /\ ToSet(<<c>>) = {c}
       /\ \A g : g \in ToSet(spawned') <=> g \in ToSet(spawned) \/ g = c
  <2>1. spawned \in Seq(FiberId) /\ <<c>> \in Seq(FiberId) /\ Once(<<c>>) /\ ToSet(<<c>>) = {c}
    BY <1>0, DrainSeqs DEF Once, ToSet
  <2> QED
    BY <1>2, <2>1, Joined
<1>13. DrainAtStart'
  <2>1. Once(spawned')
    BY <1>0, <1>2, <1>12, OnceJoined DEF DrainAtStart, Drain
  <2>2. Once(cascade') /\ ToSet(spawned') \cap ToSet(cascade') = {}
    BY <1>0, <1>2, <1>12 DEF DrainAtStart, Drain
  <2>3. running' \notin Drain'
    BY <1>0, <1>2, <1>4, <1>12 DEF DrainAtStart, Drain
  <2>4. \A g \in Drain' : Live(g)' => AtStart(g)'
    <3> SUFFICES ASSUME NEW g \in Drain', Live(g)'
                 PROVE  AtStart(g)'
      OBVIOUS
    <3>1. g = c \/ (g \in Drain /\ g \in FiberId /\ g # f /\ g # c)
      BY <1>0, <1>2, <1>4, <1>12, DrainSeqs DEF Drain, DrainAtStart
    <3> QED
      BY <1>5, <1>6, <3>1 DEF DrainAtStart
  <2> QED
    BY <1>2, <1>4, <2>1, <2>2, <2>3, <2>4 DEF DrainAtStart
<1>14. RootsQueued'
  <2> SUFFICES ASSUME NEW g \in FiberId, AtStart(g)', Parent[fiber'[g].rule] = NoRule
               PROVE  g = running' \/ g \in ToSet(runQueue')
    BY DEF RootsQueued
  <2>1. g # c
    BY <1>0, <1>3, RuleProgramAssumption
  <2> QED
    BY <1>2, <1>4, <1>6, <2>1 DEF RootsQueued
<1>15. KidsAhead'
  <2> SUFFICES ASSUME NEW p \in FiberId, p \in RuleFibers', NEW q \in Rule, q = fiber'[p].rule,
                      NEW i \in DOMAIN ChildRules[q], i <= fiber'[p].kids,
                      ~HasBegun(ChildRules[q][i])
               PROVE  \E g \in FiberId :
                         /\ AtStart(g)' /\ fiber'[g].rule = ChildRules[q][i]
                         /\ IF running' = p THEN g \in ToSet(spawned')
                                            ELSE g = running' \/ g \in ToSet(cascade')
    BY <1>7 DEF KidsAhead, RuleFibers, BrainInv, Settled
  <2>0. i \in Nat /\ i >= 1
    BY ChildRulesBounded
  <2>1. CASE p = c
    BY <1>3, <2>0, <2>1
  <2>2. CASE p = f
    <3>1. q = r /\ i <= n /\ running' = p
      BY <1>1, <1>2, <1>4, <2>2
    <3>2. CASE i = n
      BY <1>0, <1>3, <1>5, <1>12, <3>1, <3>2
    <3>3. CASE i # n
      <4>1. i <= fiber[f].kids /\ running = f
        BY <1>0, <1>4, <2>0, <3>1, <3>3
      <4>2. PICK g \in FiberId : /\ AtStart(g) /\ fiber[g].rule = ChildRules[r][i]
                                 /\ g \in ToSet(spawned)
        BY <1>5, <3>1, <4>1 DEF KidsAhead
      <4>3. g # c /\ g # f
        BY <1>4, <1>5, <4>2
      <4> QED
        BY <1>6, <1>12, <3>1, <4>2, <4>3
    <3> QED
      BY <3>2, <3>3
  <2>3. CASE p # c /\ p # f
    <3>1. p \in RuleFibers /\ q = fiber[p].rule /\ i <= fiber[p].kids /\ running # p
      BY <1>4, <1>6, <2>3
    <3>2. PICK g \in FiberId : /\ AtStart(g) /\ fiber[g].rule = ChildRules[q][i]
                               /\ g = running \/ g \in ToSet(cascade)
      BY <3>1 DEF KidsAhead
    <3>3. g # c /\ g # f
      BY <1>4, <1>5, <3>2
    <3> QED
      BY <1>2, <1>6, <3>1, <3>2, <3>3
  <2> QED
    BY <2>1, <2>2, <2>3
<1>16. ASSUME NEW g \in FiberId, NEW h \in FiberId, g # c, AheadOf(h, g)
       PROVE  AheadOf(h, g)'
  <2>1. Ahead(<<c>>, h, g)
    BY <1>12, <1>16, AbsentAhead
  <2>2. Ahead(spawned', h, g)
    BY <1>2, <1>12, <1>16, <2>1, AheadJoined DEF AheadOf
  <2> QED
    BY <1>2, <1>16, <2>2 DEF AheadOf
<1>17. ASSUME NEW h \in FiberId, h \in ToSet(spawned)
       PROVE  AheadOf(h, c)'
  <2>1. Ahead(runQueue, h, c) /\ Ahead(cascade, h, c) /\ Ahead(spawned, h, c)
    BY <1>0, AbsentAhead DEF Drain
  <2>2. Ahead(spawned', h, c)
    BY <1>2, <1>12, <1>17, <2>1, AheadJoined
  <2> QED
    BY <1>2, <2>1, <2>2 DEF AheadOf
<1>18. SubjectsAhead'
  <2> SUFFICES ASSUME NEW g \in FiberId, g \in RuleFibers', NEW s,
                      s = PrecedingSibling[fiber'[g].rule], s # NoRule, ~HasBegun(s)
               PROVE  AtStart(g)' /\ g # running' /\ SubjectFirst(g)'
    BY <1>7 DEF SubjectsAhead, RuleFibers
  <2>1. CASE g = c
    <3>1. s = PrecedingSibling[k]
      BY <1>3, <2>1
    <3>2. n # 1 /\ s = ChildRules[r][n - 1]
      BY <1>0, <3>1, AboveChild
    <3>3. n - 1 \in DOMAIN ChildRules[r] /\ n - 1 <= fiber[f].kids
      BY <1>0, <3>2, ChildRulesBounded
    <3>4. PICK h \in FiberId : AtStart(h) /\ fiber[h].rule = s /\ h \in ToSet(spawned)
      BY <1>4, <1>5, <3>2, <3>3 DEF KidsAhead
    <3>5. h # c /\ h # f
      BY <1>4, <1>5, <3>4
    <3>6. AtStart(h)' /\ fiber'[h].rule = s /\ AheadOf(h, c)'
      BY <1>6, <1>17, <3>4, <3>5
    <3> QED
      BY <1>0, <1>2, <1>4, <1>5, <2>1, <3>6 DEF SubjectFirst
  <2>2. CASE g # c
    <3>1. g # f
      BY <1>1, <1>4, <1>5 DEF SubjectsAhead
    <3>2. AtStart(g) /\ g # running /\ SubjectFirst(g) /\ s = PrecedingSibling[fiber[g].rule]
      BY <1>6, <2>2, <3>1 DEF SubjectsAhead
    <3>3. PICK h \in FiberId : AtStart(h) /\ fiber[h].rule = s /\ (h = running \/ AheadOf(h, g))
      BY <3>2 DEF SubjectFirst
    <3>4. h # c /\ h # f /\ AheadOf(h, g)
      BY <1>4, <1>5, <3>3
    <3>5. AtStart(g)' /\ AtStart(h)' /\ fiber'[h].rule = s /\ AheadOf(h, g)'
      BY <1>6, <1>16, <2>2, <3>1, <3>2, <3>3, <3>4
    <3> QED
      BY <1>2, <3>2, <3>5 DEF SubjectFirst
  <2> QED
    BY <2>1, <2>2
<1> QED
  BY <1>8, <1>9, <1>10, <1>11, <1>13, <1>14, <1>15, <1>18

LEMMA AboveRoot ==
    ASSUME NEW r \in Rule, Parent[r] = NoRule, NEW s, s = PrecedingSibling[r], s # NoRule
    PROVE  s \in Rule /\ Parent[s] = NoRule /\ s \in ToSet(Pages[PageOf[r]]) /\ s < r
<1>1. PageOf[r] \in Page /\ Level(r) = Pages[PageOf[r]]
  BY RootPage DEF Level
<1> PICK level : level = Level(r)
  OBVIOUS
<1>2. PICK i \in DOMAIN level : level[i] = r /\ s = IF i = 1 THEN NoRule ELSE level[i - 1]
  BY AboveIs
<1>3. level \in Seq(Rule) /\ DOMAIN level = 1 .. Len(level)
  BY LevelOf
<1>4. i - 1 \in DOMAIN level /\ i - 1 < i /\ s = level[i - 1]
  BY <1>2, <1>3
<1>5. s \in ToSet(Pages[PageOf[r]])
  BY <1>1, <1>4 DEF ToSet
<1>6. s \in Rule /\ Parent[s] = NoRule
  BY <1>1, <1>5, PageOfRoot
<1>7. Ascending(level)
  BY <1>1, RuleProgramAssumption DEF Page
<1> QED
  BY <1>2, <1>4, <1>5, <1>6, <1>7 DEF Ascending

(* The rules rs in document order, and their fibers.                       *)
Listed(rs, fs) ==
    /\ rs \in Seq(Rule) /\ DOMAIN rs = 1 .. Len(rs) /\ Len(rs) \in Nat /\ Ascending(rs)
    /\ fs \in Seq(FiberId) /\ DOMAIN fs = DOMAIN rs
    /\ \A i, j \in DOMAIN rs : fs[i] = fs[j] => i = j

LEMMA AheadStarted ==
    ASSUME NEW rs, NEW fs, Listed(rs, fs),
           NEW i \in DOMAIN rs, NEW j \in DOMAIN rs, rs[i] < rs[j]
    PROVE  Ahead(fs, fs[i], fs[j])
<1> USE DEF Listed
<1>1. rs[i] \in Nat /\ rs[j] \in Nat
  <2>1. rs[i] \in Rule /\ rs[j] \in Rule
    OBVIOUS
  <2> QED
    BY <2>1, RuleProgramAssumption
<1>2. i < j
  <2>1. i # j /\ ~(j < i)
    BY <1>1 DEF Ascending
  <2> QED
    BY <2>1
<1> QED
  BY <1>2 DEF Ahead

LEMMA ThinkOrdered ==
    ASSUME BrainInv, BrainInv', OrderInv, NEW p \in Page, Think(p)
    PROVE  OrderInv'
<1> USE DEF OrderInv
<1> PICK rs \in InOrder(Due) : Starts(p, rs, FreshFibers(Len(rs)))
  BY ThinkStarts
<1> PICK fs : fs = FreshFibers(Len(rs))
  OBVIOUS
<1>0. /\ HasFresh(Len(rs)) /\ StartRules(fs, rs) /\ runQueue' = runQueue \o fs
      /\ phase' = "tick" /\ firing' = firing
      /\ spawned' = spawned /\ cascade' = cascade /\ running' = running
  BY DEF Starts
<1>1. running = NoFiber
  BY DEF Think, SliceInTick
<1>2. /\ rs \in Seq(Rule) /\ Len(rs) \in Nat /\ DOMAIN rs = 1 .. Len(rs) /\ ToSet(rs) = Due
      /\ \A i \in DOMAIN rs : /\ rs[i] \in Rule /\ Parent[rs[i]] = NoRule
                              /\ PageOf[rs[i]] = current
  BY DueAre
<1>3. Ascending(rs)
  BY DEF InOrder
<1>4. NewFibers(rs, fs)
  BY <1>0, StartedAre
<1>5. /\ fs \in Seq(FiberId) /\ DOMAIN fs = DOMAIN rs
      /\ \A i, j \in DOMAIN rs : fs[i] = fs[j] => i = j
      /\ \A f \in FiberId : f \in ToSet(fs) <=> \E i \in DOMAIN rs : f = fs[i]
      /\ \A f \in FiberId : f \in ToSet(fs) \/ (state'[f] = state[f] /\ fiber'[f] = fiber[f])
  BY <1>4 DEF NewFibers
<1>6. \A f \in ToSet(fs) : f \in FiberId /\ ~Live(f) /\ f \notin Drain /\ f \notin ToSet(runQueue)
  <2>1. fs \in [1 .. Len(rs) -> Unused]
    BY <1>0, <1>2, FreshAre
  <2>2. \A f \in ToSet(fs) : f \in Unused
    BY <1>2, <1>5, <2>1 DEF ToSet
  <2> QED
    BY <2>2, DrainSeqs DEF Unused
<1>7. \A i \in DOMAIN rs : /\ fs[i] \in FiberId /\ fs[i] \in ToSet(fs) /\ state'[fs[i]] = "RUNNABLE"
                           /\ fiber'[fs[i]].rule = rs[i] /\ fiber'[fs[i]].pc = "start"
                           /\ fiber'[fs[i]].kids = 0 /\ fiber'[fs[i]].caller = NoFiber
                           /\ fiber'[fs[i]].trigger = "none"
                           /\ Live(fs[i])' /\ AtStart(fs[i])'
  <2> TAKE i \in DOMAIN rs
  <2>1. /\ fs[i] \in FiberId /\ state'[fs[i]] = "RUNNABLE"
        /\ fiber'[fs[i]] = [Blank EXCEPT !.rule = rs[i]]
    BY <1>4 DEF NewFibers
  <2>2. fs[i] \in ToSet(fs)
    BY <1>5, <2>1
  <2>3. /\ fiber'[fs[i]].rule = rs[i] /\ fiber'[fs[i]].pc = "start"
        /\ fiber'[fs[i]].kids = 0 /\ fiber'[fs[i]].caller = NoFiber
        /\ fiber'[fs[i]].trigger = "none"
    BY <2>1 DEF Blank
  <2>4. Live(fs[i])' /\ AtStart(fs[i])'
    <3>1. state'[fs[i]] \in Alive /\ fiber'[fs[i]].pc # "action"
      BY <2>1, <2>3 DEF Alive
    <3> QED
      BY <2>1, <2>3, <3>1 DEF Live, AtStart, RuleFibers
  <2> QED
    BY <2>1, <2>2, <2>3, <2>4
<1>8. \A f \in FiberId : \/ \E i \in DOMAIN rs : f = fs[i]
                         \/ /\ f \notin ToSet(fs) /\ fiber'[f] = fiber[f] /\ state'[f] = state[f]
                            /\ Live(f)' <=> Live(f)
                            /\ f \in RuleFibers' <=> f \in RuleFibers
                            /\ AtStart(f)' <=> AtStart(f)
  BY <1>5 DEF Live, RuleFibers, AtStart
<1>9. \A q : HasBegun(q)' <=> HasBegun(q)
  BY <1>0 DEF HasBegun
<1>10. \A f \in FiberId : Live(f) => f \notin ToSet(fs) /\ \A i \in DOMAIN rs : f # fs[i]
  BY <1>5, <1>6
<1>11. FreshStarts'
  <2> SUFFICES ASSUME NEW f \in FiberId, AtStart(f)'
               PROVE  /\ state'[f] = "RUNNABLE" /\ fiber'[f].kids = 0
                      /\ fiber'[f].trigger = "none"
    BY DEF FreshStarts
  <2> QED
    BY <1>7, <1>8 DEF FreshStarts
<1>12. CallersBegun'
  <2> SUFFICES ASSUME NEW g \in FiberId, NEW d, d = fiber'[g].caller, d # NoFiber
               PROVE  fiber'[d].pc # "start"
    BY DEF CallersBegun
  <2>1. d = fiber[g].caller
    BY <1>7, <1>8
  <2>2. d \in RuleFibers /\ fiber[d].pc # "start"
    BY <2>1 DEF CallersBegun, BrainInv, Called
  <2>3. d \in FiberId /\ Live(d)
    BY <2>2 DEF RuleFibers
  <2> QED
    BY <1>8, <1>10, <2>2, <2>3
<1>13. OuterBegun'
  <2> SUFFICES ASSUME NEW g \in FiberId, Live(g)', NEW a \in Within[fiber'[g].rule],
                      a # fiber'[g].rule \/ fiber'[g].pc # "start"
               PROVE  HasBegun(a)
    BY <1>9 DEF OuterBegun
  <2>1. ASSUME NEW i \in DOMAIN rs, g = fs[i]
        PROVE  FALSE
    <3>1. fiber'[g].rule = rs[i] /\ fiber'[g].pc = "start" /\ Within[rs[i]] = {rs[i]}
      BY <1>2, <1>7, <2>1, WithinRoot
    <3> QED
      BY <3>1
  <2> QED
    BY <1>8, <2>1 DEF OuterBegun
<1>14. SliceInTick'
  BY <1>0, <1>1 DEF SliceInTick
<1>15. DrainAtStart'
  <2>1. Drain' = Drain
    BY <1>0 DEF Drain
  <2>2. \A f \in Drain : /\ f \in FiberId /\ (Live(f)' <=> Live(f))
                         /\ (AtStart(f)' <=> AtStart(f))
    BY <1>6, <1>7, <1>8, DrainSeqs
  <2>3. \A f \in Drain : Live(f)' => AtStart(f)'
    BY <2>2 DEF DrainAtStart
  <2>4. \A f \in ToSet(spawned) : ~Live(f)'
    BY <1>1, <2>2 DEF DrainAtStart, Drain
  <2> QED
    BY <1>0, <2>1, <2>3, <2>4 DEF DrainAtStart
<1>16. runQueue \in Seq(FiberId) /\ \A f : f \in ToSet(runQueue') <=> f \in ToSet(runQueue) \/ f \in ToSet(fs)
  BY <1>0, <1>5, DrainSeqs, Joined
<1>17. RootsQueued'
  <2> SUFFICES ASSUME NEW f \in FiberId, AtStart(f)', Parent[fiber'[f].rule] = NoRule
               PROVE  f = running' \/ f \in ToSet(runQueue')
    BY DEF RootsQueued
  <2>1. CASE \E i \in DOMAIN rs : f = fs[i]
    BY <1>7, <1>16, <2>1
  <2>2. CASE ~\E i \in DOMAIN rs : f = fs[i]
    BY <1>0, <1>8, <1>16, <2>2 DEF RootsQueued
  <2> QED
    BY <2>1, <2>2
<1>18. KidsAhead'
  <2> SUFFICES ASSUME NEW k \in FiberId, k \in RuleFibers', NEW q \in Rule, q = fiber'[k].rule,
                      NEW i \in DOMAIN ChildRules[q], i <= fiber'[k].kids,
                      ~HasBegun(ChildRules[q][i])
               PROVE  \E g \in FiberId :
                         /\ AtStart(g)' /\ fiber'[g].rule = ChildRules[q][i]
                         /\ IF running' = k THEN g \in ToSet(spawned')
                                            ELSE g = running' \/ g \in ToSet(cascade')
    BY <1>9 DEF KidsAhead, RuleFibers, BrainInv, Settled
  <2>0. i \in Nat /\ i >= 1
    BY ChildRulesBounded
  <2>1. k \in RuleFibers /\ q = fiber[k].rule /\ i <= fiber[k].kids /\ running # k
    BY <1>1, <1>7, <1>8, <2>0, DrainSeqs
  <2>2. PICK g \in FiberId : /\ AtStart(g) /\ fiber[g].rule = ChildRules[q][i]
                             /\ g = running \/ g \in ToSet(cascade)
    BY <2>1 DEF KidsAhead
  <2>3. AtStart(g)' /\ fiber'[g].rule = ChildRules[q][i]
    BY <1>8, <1>10, <2>2 DEF AtStart, RuleFibers
  <2> QED
    BY <1>0, <2>1, <2>2, <2>3
<1>19. ASSUME NEW f \in FiberId, NEW g \in FiberId, f \notin ToSet(fs), AheadOf(g, f)
       PROVE  AheadOf(g, f)'
  <2>1. Ahead(fs, g, f)
    BY <1>19, AbsentAhead
  <2>2. Ahead(runQueue', g, f)
    BY <1>0, <1>5, <1>16, <1>19, <2>1, AheadJoined DEF AheadOf
  <2> QED
    BY <1>0, <1>19, <2>2 DEF AheadOf
<1>20. ASSUME NEW f \in ToSet(fs), NEW g, Ahead(fs, g, f) \/ g \in ToSet(runQueue)
       PROVE  AheadOf(g, f)'
  <2>1. Ahead(runQueue, g, f) /\ Ahead(cascade, g, f) /\ Ahead(spawned, g, f)
    BY <1>6, AbsentAhead DEF Drain
  <2>2. Ahead(runQueue', g, f)
    BY <1>0, <1>5, <1>16, <1>20, <2>1, AheadJoined
  <2> QED
    BY <1>0, <2>1, <2>2 DEF AheadOf
(* The rule above a rule that starts: it starts too, or it is in flight.   *)
<1>21. ASSUME NEW j \in DOMAIN rs, NEW s, s = PrecedingSibling[rs[j]], s # NoRule, ~HasBegun(s)
       PROVE  \E g \in FiberId : AtStart(g)' /\ fiber'[g].rule = s /\ AheadOf(g, fs[j])'
  <2>1. /\ s \in Rule /\ Parent[s] = NoRule /\ s \in ToSet(Pages[current]) /\ s < rs[j]
        /\ fs[j] \in ToSet(fs)
    BY <1>2, <1>7, <1>21, AboveRoot
  <2>2. CASE s \in Due
    <3>1. PICK i \in DOMAIN rs : rs[i] = s
      BY <1>2, <2>2 DEF ToSet
    <3>2. Ahead(fs, fs[i], fs[j])
      <4>1. Listed(rs, fs)
        BY <1>2, <1>3, <1>5 DEF Listed
      <4>2. rs[i] < rs[j]
        BY <2>1, <3>1
      <4> QED
        BY <4>1, <4>2, AheadStarted
    <3>3. AheadOf(fs[i], fs[j])'
      BY <1>20, <2>1, <3>2
    <3> QED
      BY <1>7, <3>1, <3>3
  <2>3. CASE s \notin Due
    <3>1. active[s] # NoFiber \/ HasLiveDescendantOfRoot(s)
      BY <1>2, <2>1, <2>3, DueAre DEF Due, FiresAgain
    <3>2. ~HasLiveDescendantOfRoot(s)
      <4> SUFFICES ASSUME NEW h \in RuleFibers, Parent[fiber[h].rule] # NoRule,
                          RootOf[fiber[h].rule] = s
                   PROVE  FALSE
        BY DEF HasLiveDescendantOfRoot
      <4>1. h \in FiberId /\ Live(h) /\ fiber[h].rule \in Rule
        BY DEF RuleFibers, BrainInv, Settled
      <4>2. s \in Within[fiber[h].rule] /\ s # fiber[h].rule
        BY <2>1, <4>1, RootOfWithin
      <4> QED
        BY <1>21, <4>1, <4>2 DEF OuterBegun
    <3> PICK g : g = active[s]
      OBVIOUS
    <3>3. g \in FiberId /\ Live(g) /\ fiber[g].rule = s
      <4>1. s \in Roots
        BY <2>1, RootsAre
      <4> QED
        BY <3>1, <3>2, <4>1 DEF BrainInv, OneFiringInFlight, TypeOK
    <3>4. AtStart(g)
      <4>1. s \in Within[s]
        BY <2>1, WithinSelf
      <4>2. fiber[g].pc = "start"
        BY <1>21, <3>3, <4>1 DEF OuterBegun
      <4> QED
        BY <3>3, <4>2 DEF AtStart, RuleFibers
    <3>5. g \in ToSet(runQueue)
      BY <1>1, <2>1, <3>3, <3>4, DrainSeqs DEF RootsQueued
    <3>6. AheadOf(g, fs[j])'
      BY <1>20, <2>1, <3>5
    <3>7. AtStart(g)' /\ fiber'[g].rule = s
      BY <1>8, <1>10, <3>3, <3>4
    <3> QED
      BY <3>3, <3>6, <3>7
  <2> QED
    BY <2>2, <2>3
<1>22. SubjectsAhead'
  <2> SUFFICES ASSUME NEW f \in FiberId, f \in RuleFibers', NEW s,
                      s = PrecedingSibling[fiber'[f].rule], s # NoRule, ~HasBegun(s)
               PROVE  AtStart(f)' /\ f # running' /\ SubjectFirst(f)'
    BY <1>9 DEF SubjectsAhead, RuleFibers
  <2>0. f # running'
    BY <1>0, <1>1, DrainSeqs
  <2>1. ASSUME NEW j \in DOMAIN rs, f = fs[j]
        PROVE  AtStart(f)' /\ SubjectFirst(f)'
    <3>1. AtStart(f)' /\ fiber'[f].rule = rs[j] /\ s = PrecedingSibling[rs[j]]
      BY <1>7, <2>1
    <3>2. PICK g \in FiberId : AtStart(g)' /\ fiber'[g].rule = s /\ AheadOf(g, f)'
      BY <1>21, <2>1, <3>1
    <3> QED
      BY <3>1, <3>2 DEF SubjectFirst
  <2>2. CASE ~\E i \in DOMAIN rs : f = fs[i]
    <3>1. f \notin ToSet(fs) /\ f \in RuleFibers /\ s = PrecedingSibling[fiber[f].rule]
          /\ fiber'[f] = fiber[f] /\ (AtStart(f)' <=> AtStart(f))
      BY <1>8, <2>2
    <3>2. AtStart(f) /\ SubjectFirst(f)
      BY <3>1 DEF SubjectsAhead
    <3>3. PICK g \in FiberId : AtStart(g) /\ fiber[g].rule = s /\ (g = running \/ AheadOf(g, f))
      BY <3>1, <3>2 DEF SubjectFirst
    <3>4. AtStart(g)' /\ fiber'[g].rule = s
      BY <1>8, <1>10, <3>3 DEF AtStart, RuleFibers
    <3>5. AheadOf(g, f)'
      BY <1>1, <1>19, <3>1, <3>3, DrainSeqs
    <3>6. AtStart(f)'
      BY <3>1, <3>2
    <3>7. SubjectFirst(f)'
      BY <3>3, <3>4, <3>5 DEF SubjectFirst
    <3> QED
      BY <2>0, <3>6, <3>7
  <2> QED
    BY <2>0, <2>1, <2>2
<1> QED
  BY <1>11, <1>12, <1>13, <1>14, <1>15, <1>17, <1>18, <1>22

LEMMA InitOrdered ==
    ASSUME Init
    PROVE  OrderInv
<1> PICK rs : rs = FirstRules
  OBVIOUS
<1> PICK fs : fs = CHOOSE s \in Lists(Len(rs), FiberId) : TRUE
  OBVIOUS
<1>0. FirstFibers(rs, fs)
  BY FirstFibersAre
<1>1. /\ 1 \in Page /\ rs \in Seq(Rule) /\ Len(rs) \in Nat /\ DOMAIN rs = 1 .. Len(rs)
      /\ \A i \in DOMAIN rs : rs[i] \in Rule /\ Parent[rs[i]] = NoRule /\ PageOf[rs[i]] = 1
      /\ fs \in Seq(FiberId) /\ DOMAIN fs = DOMAIN rs
      /\ \A i, j \in DOMAIN rs : fs[i] = fs[j] => i = j
      /\ \A f \in FiberId : f \in ToSet(fs) <=> \E i \in DOMAIN rs : f = fs[i]
      /\ \A i \in DOMAIN rs : rs = Pages[1]
  BY <1>0 DEF FirstFibers
<1>2. Ascending(rs)
  BY <1>0 DEF FirstFibers, Ascending
<1>3. /\ runQueue = fs /\ spawned = << >> /\ cascade = << >>
      /\ running = NoFiber /\ phase = "idle" /\ NoFiber \notin FiberId
  BY FibersAssumption DEF Init, FirstRules
<1>4. \A i \in DOMAIN rs : /\ fs[i] \in FiberId /\ state[fs[i]] = "RUNNABLE"
                           /\ fiber[fs[i]].rule = rs[i] /\ fiber[fs[i]].pc = "start"
                           /\ fiber[fs[i]].kids = 0 /\ fiber[fs[i]].caller = NoFiber
                           /\ fiber[fs[i]].trigger = "none" /\ AtStart(fs[i])
  <2> TAKE i \in DOMAIN rs
  <2>1. /\ state[fs[i]] = "RUNNABLE" /\ fiber[fs[i]] = [Blank EXCEPT !.rule = rs[i]]
        /\ fs[i] \in FiberId
    BY <1>0 DEF FirstFibers
  <2>2. /\ fiber[fs[i]].rule = rs[i] /\ fiber[fs[i]].pc = "start"
        /\ fiber[fs[i]].kids = 0 /\ fiber[fs[i]].caller = NoFiber
        /\ fiber[fs[i]].trigger = "none"
    BY <2>1 DEF Blank
  <2> QED
    BY <2>1, <2>2 DEF AtStart, RuleFibers, Live, Alive
<1>5. \A f \in FiberId : \/ \E i \in DOMAIN rs : f = fs[i]
                         \/ ~Live(f) /\ fiber[f].caller = NoFiber
  BY <1>0 DEF FirstFibers, Live, Alive, Blank
<1>6. ToSet(spawned) = {} /\ ToSet(cascade) = {} /\ Drain = {} /\ Once(spawned) /\ Once(cascade)
  BY <1>3 DEF ToSet, Drain, Once
<1>7. \A f \in RuleFibers : f \in FiberId /\ \E i \in DOMAIN rs : f = fs[i]
  BY <1>5 DEF RuleFibers
<1>8. FreshStarts
  BY <1>4, <1>7 DEF FreshStarts, AtStart
<1>9. CallersBegun
  BY <1>4, <1>5 DEF CallersBegun
<1>10. OuterBegun
  <2> SUFFICES ASSUME NEW f \in FiberId, Live(f), NEW a \in Within[fiber[f].rule],
                      a # fiber[f].rule \/ fiber[f].pc # "start"
               PROVE  FALSE
    BY DEF OuterBegun
  <2>1. PICK i \in DOMAIN rs : f = fs[i]
    BY <1>5
  <2>2. Within[rs[i]] = {rs[i]}
    BY <1>1, WithinRoot
  <2> QED
    BY <1>4, <2>1, <2>2
<1>11. SliceInTick
  BY <1>3 DEF SliceInTick
<1>12. DrainAtStart
  BY <1>6 DEF DrainAtStart
<1>13. RootsQueued
  BY <1>1, <1>3, <1>7 DEF RootsQueued, AtStart
<1>14. KidsAhead
  <2> SUFFICES ASSUME NEW p \in RuleFibers, NEW i \in DOMAIN ChildRules[fiber[p].rule],
                      i <= fiber[p].kids
               PROVE  FALSE
    BY DEF KidsAhead
  <2>1. fiber[p].kids = 0 /\ fiber[p].rule \in Rule
    BY <1>1, <1>4, <1>7
  <2>2. i \in Nat /\ i >= 1
    BY <2>1, ChildRulesBounded
  <2> QED
    BY <2>1, <2>2
<1>15. SubjectsAhead
  <2> SUFFICES ASSUME NEW f \in RuleFibers, NEW s, s = PrecedingSibling[fiber[f].rule],
                      s # NoRule
               PROVE  AtStart(f) /\ f # running /\ SubjectFirst(f)
    BY DEF SubjectsAhead
  <2>1. PICK j \in DOMAIN rs : f = fs[j]
    BY <1>7
  <2>2. s \in ToSet(rs) /\ s < rs[j]
    BY <1>1, <1>4, <2>1, AboveRoot
  <2>3. PICK i \in DOMAIN rs : rs[i] = s
    BY <2>2 DEF ToSet
  <2>4. Ahead(fs, fs[i], fs[j])
    <3>1. rs[i] < rs[j]
      BY <2>2, <2>3
    <3>2. Listed(rs, fs)
      BY <1>1, <1>2 DEF Listed
    <3> QED
      BY <3>1, <3>2, AheadStarted
  <2>5. AheadOf(fs[i], f)
    BY <1>3, <1>6, <2>1, <2>4, AbsentAhead DEF AheadOf
  <2>6. SubjectFirst(f)
    BY <1>4, <2>3, <2>5 DEF SubjectFirst
  <2> QED
    BY <1>3, <1>4, <2>1, <2>6
<1> QED
  BY <1>8, <1>9, <1>10, <1>11, <1>12, <1>13, <1>14, <1>15 DEF OrderInv

LEMMA OrderStep ==
    ASSUME BrainInv, OrderInv, [Next]_vars
    PROVE  OrderInv'
<1>0. BrainInv'
  BY BrainStep
<1>1. CASE \E p \in Page : RequestPage(p) \/ LeavePage(p) \/ Think(p)
  BY <1>0, <1>1, PageRequestOrdered, ThinkOrdered
<1>2. CASE RunNext
  BY <1>0, <1>2, RunNextOrdered
<1>3. CASE EndThink \/ Throws \/ UNCHANGED vars
  BY <1>0, <1>3, EndThinkOrdered
<1>4. ASSUME NEW f \in FiberId, Instruction(f) \/ HostSettle(f)
      PROVE  OrderInv'
  <2>1. CASE Begin(f) \/ ReadSubject(f) \/ \E fired \in BOOLEAN : Gate(f, fired)
    BY <1>0, <2>1, BeginOrdered, ReadSubjectOrdered, GateOrdered
  <2>2. CASE AskTrigger(f) \/ AwaitAnswer(f)
    BY <1>0, <2>2, AskTriggerOrdered, AwaitAnswerOrdered
  <2>3. CASE AwaitTrigger(f) \/ AwaitHost(f) \/ Yield(f) \/ HostSettle(f)
    BY <1>0, <2>3, AwaitOrdered, YieldOrdered, HostSettleOrdered
  <2>4. CASE CallAction(f) \/ SpawnRule(f)
    BY <1>0, <2>4, CallActionOrdered, SpawnRuleOrdered
  <2>5. CASE Return(f) \/ Fault(f) \/ LeaveCancelled(f) \/ ErrorEscapes(f)
    BY <1>0, <2>5, EndWithOrdered, LeaveCancelledOrdered
  <2> QED
    BY <1>4, <2>1, <2>2, <2>3, <2>4, <2>5 DEF Instruction
<1> QED
  BY <1>1, <1>2, <1>3, <1>4 DEF Next, Throws

(* The order of the rules on a page is kept by queues that are filled by   *)
(* the page, by slices and by answers, and emptied by errors: whatever     *)
(* happens in between, no `otherwise` or `then` rule looks at a rule above *)
(* it that has not begun its check yet.                                    *)
THEOREM InitialRecordHolds == Spec => []InitialRecordUnread
<1>1. Init => BrainInv /\ OrderInv
  BY InitInv, InitOrdered
<1>2. BrainInv /\ OrderInv /\ [Next]_vars => (BrainInv /\ OrderInv)'
  BY BrainStep, OrderStep
<1>3. BrainInv /\ OrderInv => InitialRecordUnread
  BY OrderSound
<1> QED
  BY <1>1, <1>2, <1>3, PTL DEF Spec
=============================================================================
