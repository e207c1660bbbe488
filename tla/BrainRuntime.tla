----------------------------- MODULE BrainRuntime -----------------------------
(***************************************************************************)
(* One brain: the pages and root rules of class BrainRuntime, the rule     *)
(* fibers the scheduler runs for it, and the completion of rules that a    *)
(* `then` rule waits for (runtime/brain-runtime.ts, the settle walk and    *)
(* the WHEN gates of runtime/vm.ts, runtime/sensors/rule-trigger.ts and    *)
(* otherwise.ts, and the code brain/compiler/brain-compiler.ts emits for   *)
(* a rule).                                                                *)
(*                                                                         *)
(* Handles are abstracted to who waits for what: a host operation, the     *)
(* fiber of a bytecode action, or the trigger of a `then` rule, named      *)
(* after the fiber that dispatched it.  A fiber whose life is over leaves  *)
(* nothing behind here, so its identifier may be used again.               *)
(***************************************************************************)
EXTENDS RunQueue, RuleProgram

CONSTANTS
    Stale,        \* in a watcher slot: the trigger of a fiber that is over
    Requested,    \* the pages that code of the brain may request
    MaxActions    \* bound on the action fibers that are alive

ASSUME BrainRuntimeAssumption ==
    /\ Stale \notin FiberId \cup {NoFiber}
    /\ Requested \subseteq Page
    /\ MaxActions \in Nat

VARIABLES
    fiber,      \* what a fiber runs, how far it has got, what it waits for
    firing,     \* ruleFiring: the firing record of every rule
    watcher,    \* RuleWatcherSlots
    abandoned,  \* AbandonedRuleFirings
    active,     \* activeRuleFiberIds: the live fiber of a root rule
    current,    \* currentPageIndex
    desired,    \* desiredPageIndex
    entering,   \* between leaving a page and activating the next
    threw       \* the kinds of hooks of the current page that threw: after
                \* "entry" activeRuleFiberIds is empty

ruleVars == <<firing, watcher, abandoned>>
pageVars == <<active, current, desired, entering, threw>>
vars == <<state, queueVars, fiber, ruleVars, pageVars>>

Roots == UNION {ToSet(Pages[p]) : p \in Page}

Blank == [rule |-> NoRule, pc |-> "start", kids |-> 0, waits |-> "nothing",
          caller |-> NoFiber, trigger |-> "none"]

Fiber ==
    [rule    : Rule \cup {NoRule},
     pc      : {"start", "arm", "asked", "when", "unarmed", "do", "spawn", "return", "action"},
     kids    : 0 .. Cardinality(Rule),
     waits   : {"nothing", "host", "action", "trigger"},
     caller  : FiberId \cup {NoFiber},
     trigger : {"none", "pending", "true", "false", "swept"}]

TypeOK ==
    /\ QueueTypeOK
    /\ fiber \in [FiberId -> Fiber]
    /\ firing \in [Rule -> {"INITIAL", "EVALUATING", "DID_FIRE", "DID_NOT_FIRE"}]
    /\ watcher \in [Rule -> FiberId \cup {NoFiber, Stale}]
    /\ abandoned \in SUBSET Rule
    /\ active \in [Roots -> FiberId \cup {NoFiber}]
    /\ current \in Page
    /\ desired \in Page
    /\ entering \in BOOLEAN
    /\ threw \subseteq {"entry", "exit"}

-----------------------------------------------------------------------------
(* Fibers and the clusters they belong to.                                 *)

Live(f) == state[f] \in Alive

(* The fibers that run a rule's own code; the others run an action for it. *)
RuleFibers == {f \in FiberId : Live(f) /\ fiber[f].pc # "action"}
ActionFibers == {f \in FiberId : Live(f) /\ fiber[f].pc = "action"}

Cluster(r) == {f \in FiberId : Live(f) /\ r \in Within[fiber[f].rule]}

(* Mutant: the walk runs before the ending fiber's state is terminal.      *)
HasLiveSubtreeEarly(r, gone) == Cluster(r) # {}

(* Mutant: only the rule's own fibers count, not its child rules'.         *)
HasLiveFiber(r, gone) == \E f \in FiberId \ gone : Live(f) /\ fiber[f].rule = r

(* hasLiveSubtree, when the fibers of gone have just ended.                *)
HasLiveSubtree(r, gone) == ~(Cluster(r) \subseteq gone)

(* hasLiveDescendantOfRoot: only child-rule fibers carry a root rule.      *)
HasLiveDescendantOfRoot(r) ==
    \E f \in RuleFibers : Parent[fiber[f].rule] # NoRule /\ RootOf[fiber[f].rule] = r

(* The initial record reads DID_FIRE; it is told apart for the properties. *)
DidFire(r) == firing[r] \in {"INITIAL", "DID_FIRE"}

(* The identifiers that no table and no queue refers to.  FiberId bounds   *)
(* the fibers: what needs n new ones waits until there are as many.        *)
Unused == {f \in FiberId : ~Live(f) /\ f # running /\ f \notin ToSet(Pending)}

Lists(n, S) == Injection(1 .. n, S)

HasFresh(n) == Lists(n, Unused) # {}

FreshFibers(n) == CHOOSE fs \in Lists(n, Unused) : TRUE

(* New fibers for the rules of rs: each begins a fresh firing of its rule, *)
(* which the abandonment mark of the previous firing does not concern.     *)
StartRules(fs, rs) ==
    /\ state' = [f \in FiberId |-> IF f \in ToSet(fs) THEN "RUNNABLE" ELSE state[f]]
    /\ fiber' = [f \in FiberId |->
                    IF \E i \in DOMAIN fs : fs[i] = f
                    THEN [Blank EXCEPT !.rule = rs[CHOOSE i \in DOMAIN fs : fs[i] = f]]
                    ELSE fiber[f]]
    /\ abandoned' = abandoned \ ToSet(rs)

(* A fiber that is over is gone, but for one that was cancelled in the     *)
(* middle of its own slice: the slice has still to end.                    *)
Over(f, final) == IF f = running /\ final = "CANCELLED" THEN final ELSE "absent"

(* The fibers of gone end together.  The settle walk visits the rules they *)
(* ran for and those they are nested in, inner rules first.  It marks them *)
(* as abandoned unless the fibers are DONE, and answers the trigger in the *)
(* slot of every one whose cluster has emptied.  Whoever waited for an     *)
(* answer, or for the action that a fiber of gone ran, becomes runnable.   *)
Kin(gone) == UNION {Within[fiber[f].rule] : f \in gone}

Marked(gone, final) == IF final = "DONE" THEN abandoned ELSE abandoned \cup Kin(gone)

Emptied(gone) == {r \in Kin(gone) : watcher[r] # NoFiber /\ ~HasLiveSubtree(r, gone)}

Askers(gone) == {watcher[r] : r \in Emptied(gone)} \ (gone \cup {Stale})

WaitingAskers(gone) == {f \in Askers(gone) : state[f] = "WAITING"}

(* The answer to an asker: the rule above it has completed a firing.       *)
Completed(f, gone, final) ==
    \E r \in Emptied(gone) : watcher[r] = f /\ r \notin Marked(gone, final) /\ DidFire(r)

Callers(gone) == {fiber[f].caller : f \in gone} \ {NoFiber}

InnerFirst(R) == {s \in SetToSeqs(R) : \A i, j \in DOMAIN s : i < j => s[j] \in Within[s[i]]}

EndFibers(gone, final) ==
    LET emptied == Emptied(gone)
        askers  == Askers(gone)
        waiting == WaitingAskers(gone)
        callers == Callers(gone)
    IN  /\ state' = [f \in FiberId |-> IF f \in gone THEN Over(f, final)
                                       ELSE IF f \in waiting \cup callers THEN "RUNNABLE"
                                       ELSE state[f]]
        /\ fiber' = [f \in FiberId |-> IF f \in gone THEN Blank ELSE [fiber[f] EXCEPT
              !.pc = IF f \in waiting THEN
                        IF Completed(f, gone, final) THEN "when" ELSE "unarmed" ELSE @,
              !.waits = IF f \in waiting \cup callers THEN "nothing" ELSE @,
              !.caller = IF @ \in gone THEN NoFiber ELSE @,
              !.trigger = IF f \in waiting THEN "none"
                          ELSE IF f \in askers THEN
                             IF Completed(f, gone, final) THEN "true" ELSE "false" ELSE @]]
        /\ watcher' = [r \in Rule |-> IF r \in emptied THEN NoFiber
                                      ELSE IF watcher[r] \in gone THEN Stale ELSE watcher[r]]
        /\ abandoned' = Marked(gone, final)
        /\ active' = [r \in Roots |-> IF active[r] \in gone THEN NoFiber ELSE active[r]]
        /\ \E walk \in InnerFirst({r \in emptied : watcher[r] \in waiting}),
              resumed \in SetToSeqs(callers) :
              runQueue' = runQueue \o [i \in DOMAIN walk |-> watcher[walk[i]]] \o resumed

-----------------------------------------------------------------------------
(* Pages.                                                                  *)

Executing(f) == running = f /\ state[f] = "RUNNABLE"

(* Host code has control between thinks, in the System functions after the *)
(* round, or in a body that the running fiber calls.                       *)
HostActs ==
    \/ phase = "idle" /\ ~entering
    \/ RoundOver
    \/ \E f \in FiberId : Executing(f) /\ fiber[f].pc \in {"when", "do", "action"}

(* cancelActiveFibers: the tracked root fibers and every child-rule fiber. *)
PageFibers ==
    {f \in RuleFibers : Parent[fiber[f].rule] # NoRule \/ \E r \in Roots : active[r] = f}

(* Mutant: the range check of the page index is one off.                   *)
RequestNextPage(p) ==
    /\ HostActs
    /\ desired' = p + 1
    /\ EndFibers(PageFibers, "CANCELLED")
    /\ UNCHANGED <<firing, current, entering, threw, spawned, cascade, round, running, phase>>

(* requestPageChange; of the current page it is requestPageRestart.        *)
RequestPage(p) ==
    /\ HostActs
    /\ p \in Requested
    /\ desired' = IF p = current THEN desired ELSE p
    /\ EndFibers(PageFibers, "CANCELLED")
    /\ UNCHANGED <<firing, current, entering, threw, spawned, cascade, round, running, phase>>

(* deactivateCurrentPage.  A page-exit hook may request page p; a request  *)
(* of the page that is being left changes nothing.                         *)
LeavePage(p) ==
    /\ p \in Requested \cup {desired}
    /\ phase = "idle" /\ ~entering
    /\ current # desired
    /\ current' = IF p = current THEN desired ELSE p
    /\ desired' = current'
    /\ entering' = TRUE
    /\ threw' = {}
    /\ EndFibers(PageFibers, "CANCELLED")
    /\ UNCHANGED <<firing, spawned, cascade, round, running, phase>>

(* A page-exit hook throws, and the error leaves think(): the page is not  *)
(* left.  What the hook has requested before that is RequestPage.          *)
LeaveThrows ==
    /\ phase = "idle" /\ ~entering
    /\ current # desired
    /\ threw' = threw \cup {"exit"}
    /\ UNCHANGED <<state, queueVars, fiber, ruleVars, active, current, desired, entering>>

(* A page-entry hook throws: the page is current and no root rule starts.  *)
EnterThrows ==
    /\ phase = "idle" /\ entering
    /\ entering' = FALSE
    /\ threw' = threw \cup {"entry"}
    /\ UNCHANGED <<state, queueVars, fiber, ruleVars, active, current, desired>>

(* Mutants: a root rule does not wait for its children; or it never fires  *)
(* again after a fault or a cancellation.                                  *)
FiresAgainAtOnce(r) == active[r] = NoFiber

FiresAgainIfCompleted(r) == active[r] = NoFiber /\ ~HasLiveDescendantOfRoot(r) /\ r \notin abandoned

(* A root rule fires again when its fiber is over and no child rule of its *)
(* last firing is in flight.                                               *)
FiresAgain(r) == active[r] = NoFiber /\ ~HasLiveDescendantOfRoot(r)

(* Mutant: the old page thinks on while another is desired.                *)
PageReadyAlways == TRUE

(* The current page is the desired one, or has just been made it.          *)
PageReady == entering \/ current = desired

(* The root rules to start: only those that are in activeRuleFiberIds.     *)
Due == {r \in ToSet(Pages[current]) : FiresAgain(r) /\ "entry" \notin threw}

(* activatePage, if a page is being entered, and the first part of         *)
(* thinkPage: the root rules that are due start and the round opens.  A    *)
(* page-entry hook may request page p.                                     *)
Think(p) ==
    \E rs \in InOrder(Due) :
    LET fs == FreshFibers(Len(rs))
    IN  /\ HasFresh(Len(rs))
        /\ phase = "idle"
        /\ PageReady
        /\ p = desired \/ (entering /\ p \in Requested)
        /\ desired' = p
        /\ entering' = FALSE
        /\ StartRules(fs, rs)
        /\ active' = [r \in Roots |-> IF r \in ToSet(rs)
                                      THEN fs[CHOOSE i \in DOMAIN rs : rs[i] = r] ELSE active[r]]
        /\ runQueue' = runQueue \o fs
        /\ round' = Len(runQueue')
        /\ phase' = "tick"
        /\ UNCHANGED <<firing, watcher, current, threw, spawned, cascade, running>>

RunNext ==
    /\ NextInRound \/ NextInCascade
    /\ UNCHANGED <<fiber, ruleVars, pageVars>>

(* The think ends with gc(): an answered trigger nobody waits for is gone. *)
EndThink ==
    /\ RoundOver
    /\ phase' = "idle"
    /\ fiber' = [f \in FiberId |->
                    IF fiber[f].trigger \in {"true", "false"}
                    THEN [fiber[f] EXCEPT !.trigger = "swept"] ELSE fiber[f]]
    /\ UNCHANGED <<state, runQueue, spawned, cascade, round, running, ruleVars, pageVars>>

(* A System's think faults, and the error leaves before gc().              *)
ThinkThrows ==
    /\ RoundOver
    /\ phase' = "idle"
    /\ UNCHANGED <<state, runQueue, spawned, cascade, round, running, fiber, ruleVars, pageVars>>

-----------------------------------------------------------------------------
(* The code of a rule.                                                     *)

Goto(f, at) == fiber' = [fiber EXCEPT ![f].pc = at]

(* The running fiber goes on, and touches no queue and no page.            *)
Continues == UNCHANGED <<state, queueVars, abandoned, pageVars>>

(* Mutant: WHEN_START leaves the record of the last evaluation.            *)
BeginUnrecorded(f) ==
    /\ Executing(f) /\ fiber[f].pc = "start"
    /\ Goto(f, CASE Mode[fiber[f].rule] = "always" -> "do"
                 [] Mode[fiber[f].rule] = "when" -> "when"
                 [] OTHER -> "arm")
    /\ Continues /\ UNCHANGED <<firing, watcher>>

(* WHEN_START, which a `when` rule without a condition does not have.      *)
Begin(f) ==
    LET r == fiber[f].rule
    IN  /\ Executing(f) /\ fiber[f].pc = "start"
        /\ IF Mode[r] = "always"
             THEN Goto(f, "do") /\ UNCHANGED firing
             ELSE /\ Goto(f, IF Mode[r] = "when" THEN "when" ELSE "arm")
                  /\ firing' = [firing EXCEPT ![r] = "EVALUATING"]
        /\ Continues /\ UNCHANGED watcher

(* The `otherwise` sensor.                                                 *)
ReadSubject(f) ==
    LET s == PrecedingSibling[fiber[f].rule]
        armed == s # NoRule /\ firing[s] = "DID_NOT_FIRE"
    IN  /\ Executing(f) /\ fiber[f].pc = "arm" /\ Mode[fiber[f].rule] = "otherwise"
        /\ Goto(f, IF armed THEN "when" ELSE "unarmed")
        /\ Continues /\ UNCHANGED <<firing, watcher>>

(* The rule-trigger host action: it answers at once unless the subject's   *)
(* cluster is in flight.                                                   *)
AskTrigger(f) ==
    LET r == fiber[f].rule
        s == PrecedingSibling[r]
        inFlight == s # NoRule /\ HasLiveSubtree(s, {})
        completed == s # NoRule /\ DidFire(s) /\ s \notin abandoned
    IN  /\ Executing(f) /\ fiber[f].pc = "arm" /\ Mode[r] = "then"
        /\ fiber' = [fiber EXCEPT ![f].pc = "asked",
                                  ![f].trigger = IF inFlight THEN "pending"
                                                 ELSE IF completed THEN "true" ELSE "false"]
        /\ firing' = IF inFlight THEN [firing EXCEPT ![r] = "DID_NOT_FIRE"] ELSE firing
        /\ watcher' = IF inFlight THEN [watcher EXCEPT ![s] = f] ELSE watcher
        /\ Continues

(* AWAIT of the trigger, answered or not.                                  *)
AwaitAnswer(f) ==
    /\ Executing(f) /\ fiber[f].pc = "asked"
    /\ fiber[f].trigger \in {"true", "false"}
    /\ fiber' = [fiber EXCEPT ![f].pc = IF fiber[f].trigger = "true" THEN "when" ELSE "unarmed",
                              ![f].trigger = "none"]
    /\ Continues /\ UNCHANGED <<firing, watcher>>

AwaitTrigger(f) ==
    /\ Executing(f) /\ fiber[f].pc = "asked"
    /\ fiber[f].trigger = "pending"
    /\ state' = [state EXCEPT ![f] = "WAITING"]
    /\ fiber' = [fiber EXCEPT ![f].waits = "trigger"]
    /\ EndSlice
    /\ UNCHANGED <<runQueue, ruleVars, pageVars>>

(* Mutant: an `otherwise` rule records its own outcome like any other.     *)
OwnRecord(r, fired) == IF fired THEN "DID_FIRE" ELSE "DID_NOT_FIRE"

(* chainedFiringState: an `otherwise` rule that does not fire passes on    *)
(* the record of the rule above it, which reads DID_FIRE if it is initial. *)
Record(r, fired) ==
    LET s == PrecedingSibling[r]
    IN  CASE fired -> "DID_FIRE"
          [] ~fired /\ Mode[r] = "otherwise" /\ s # NoRule ->
                IF DidFire(s) THEN "DID_FIRE" ELSE firing[s]
          [] OTHER -> "DID_NOT_FIRE"

(* The WHEN gates.                                                         *)
Gate(f, fired) ==
    /\ Executing(f)
    /\ \/ fiber[f].pc = "when"
       \/ fiber[f].pc = "unarmed" /\ ~fired
    /\ Goto(f, IF fired THEN "do" ELSE "return")
    /\ firing' = [firing EXCEPT ![fiber[f].rule] = Record(fiber[f].rule, fired)]
    /\ Continues /\ UNCHANGED watcher

(* An asynchronous host call in the WHEN or DO of a rule, or in an action. *)
AwaitHost(f) ==
    /\ Executing(f) /\ fiber[f].pc \in {"when", "do", "action"}
    /\ state' = [state EXCEPT ![f] = "WAITING"]
    /\ fiber' = [fiber EXCEPT ![f].waits = "host"]
    /\ EndSlice
    /\ UNCHANGED <<runQueue, ruleVars, pageVars>>

(* An asynchronous bytecode action runs in a fiber of its own, for the     *)
(* rule that called it.                                                    *)
CallAction(f) ==
    LET g == FreshFibers(1)[1]
    IN  /\ Executing(f) /\ fiber[f].pc \in {"when", "do"}
        /\ HasFresh(1)
        /\ Cardinality(ActionFibers) < MaxActions
        /\ state' = [state EXCEPT ![f] = "WAITING", ![g] = "RUNNABLE"]
        /\ fiber' = [fiber EXCEPT ![f].waits = "action",
                        ![g] = [Blank EXCEPT !.rule = fiber[f].rule, !.pc = "action", !.caller = f]]
        /\ Enqueue(g)
        /\ EndSlice
        /\ UNCHANGED <<ruleVars, pageVars>>

(* SPAWN_RULE, for the child rules in order, after the DO.                 *)
SpawnRule(f) ==
    LET kids == ChildRules[fiber[f].rule]
        n == fiber[f].kids + 1
        c == FreshFibers(1)[1]
    IN  /\ Executing(f) /\ fiber[f].pc \in {"do", "spawn"}
        /\ n <= Len(kids)
        /\ HasFresh(1)
        /\ state' = [state EXCEPT ![c] = "RUNNABLE"]
        /\ fiber' = [fiber EXCEPT ![f].pc = "spawn", ![f].kids = n,
                                  ![c] = [Blank EXCEPT !.rule = kids[n]]]
        /\ abandoned' = abandoned \ {kids[n]}
        /\ spawned' = Append(spawned, c)
        /\ UNCHANGED <<runQueue, cascade, round, running, phase, firing, watcher, pageVars>>

EndWith(f, final) ==
    /\ EndFibers({f}, final)
    /\ EndSlice
    /\ UNCHANGED <<firing, current, desired, entering, threw>>

Return(f) ==
    /\ Executing(f)
    /\ \/ fiber[f].pc \in {"return", "action"}
       \/ fiber[f].pc \in {"do", "spawn"} /\ fiber[f].kids = Len(ChildRules[fiber[f].rule])
    /\ EndWith(f, "DONE")

(* An uncaught error, or AWAIT of a trigger that has been swept.           *)
Fault(f) ==
    /\ Executing(f)
    /\ fiber[f].pc \in {"when", "do", "spawn", "action"} \/ fiber[f].trigger = "swept"
    /\ EndWith(f, "FAULT")

(* The budget of the slice is spent; every slice executes an instruction.  *)
Yield(f) ==
    /\ Executing(f) /\ fiber[f].pc # "start" /\ fiber[f].trigger # "swept"
    /\ Enqueue(f)
    /\ EndSlice
    /\ UNCHANGED <<state, fiber, ruleVars, pageVars>>

(* The running fiber has cancelled itself by requesting a page: the slice  *)
(* ends, or an error of the call that did it leaves think().               *)
LeaveCancelled(f) ==
    /\ running = f /\ state[f] = "CANCELLED"
    /\ state' = [state EXCEPT ![f] = "absent"]
    /\ EndSlice
    /\ UNCHANGED <<fiber, runQueue, ruleVars, pageVars>>

ErrorEscapes(f) ==
    /\ running = f /\ state[f] = "CANCELLED"
    /\ AbandonTick
    /\ UNCHANGED <<fiber, ruleVars, pageVars>>

(* The host operation a fiber waits for is settled, one way or the other.  *)
HostSettle(f) ==
    /\ HostActs
    /\ state[f] = "WAITING" /\ fiber[f].waits = "host"
    /\ state' = [state EXCEPT ![f] = "RUNNABLE"]
    /\ fiber' = [fiber EXCEPT ![f].waits = "nothing"]
    /\ Enqueue(f)
    /\ UNCHANGED <<spawned, cascade, round, running, phase, ruleVars, pageVars>>

-----------------------------------------------------------------------------

(* startup: the first page is active and its rules are due, unless one of  *)
(* its entry hooks threw.                                                  *)
Init ==
    /\ threw \in {{}, {"entry"}}
    /\ LET rs == IF threw = {} THEN Pages[1] ELSE << >>
           fs == CHOOSE fs \in Lists(Len(rs), FiberId) : TRUE
       IN
        /\ Lists(Len(rs), FiberId) # {}
        /\ state = [f \in FiberId |-> IF f \in ToSet(fs) THEN "RUNNABLE" ELSE "absent"]
        /\ fiber = [f \in FiberId |-> IF f \in ToSet(fs)
                       THEN [Blank EXCEPT !.rule = rs[CHOOSE i \in DOMAIN fs : fs[i] = f]]
                       ELSE Blank]
        /\ runQueue = fs
        /\ spawned = << >> /\ cascade = << >>
        /\ round = 0 /\ running = NoFiber /\ phase = "idle"
        /\ firing = [r \in Rule |-> "INITIAL"]
        /\ watcher = [r \in Rule |-> NoFiber]
        /\ abandoned = {}
        /\ active = [r \in Roots |-> IF r \in ToSet(rs)
                       THEN fs[CHOOSE i \in DOMAIN rs : rs[i] = r] ELSE NoFiber]
        /\ current = 1 /\ desired \in Requested \cup {1} /\ entering = FALSE

Instruction(f) ==
    \/ Begin(f) \/ ReadSubject(f) \/ AskTrigger(f) \/ AwaitAnswer(f) \/ AwaitTrigger(f)
    \/ \E fired \in BOOLEAN : Gate(f, fired)
    \/ AwaitHost(f) \/ CallAction(f) \/ SpawnRule(f) \/ Return(f) \/ Fault(f) \/ Yield(f)
    \/ LeaveCancelled(f) \/ ErrorEscapes(f)

Next ==
    \/ \E p \in Page : RequestPage(p) \/ LeavePage(p) \/ Think(p)
    \/ LeaveThrows \/ EnterThrows \/ ThinkThrows
    \/ RunNext \/ EndThink
    \/ \E f \in FiberId : Instruction(f) \/ HostSettle(f)

Spec == Init /\ [][Next]_vars

(* The instructions that bring a rule nearer to its end.                   *)
Progress(f) ==
    \/ Begin(f) \/ ReadSubject(f) \/ AskTrigger(f) \/ AwaitAnswer(f) \/ AwaitTrigger(f)
    \/ \E fired \in BOOLEAN : Gate(f, fired)
    \/ SpawnRule(f) \/ Return(f)
    \/ fiber[f].trigger = "swept" /\ Fault(f)

(* The host thinks again and again and every slice ends, since the budget  *)
(* bounds it; a page whose exit hook threw may never be left.  No rule     *)
(* yields or calls the host for ever instead of going on, and every host   *)
(* operation is settled in the end.                                        *)
Thinking ==
    \/ \E p \in Page : Think(p) \/ ("exit" \notin threw /\ LeavePage(p))
    \/ LeaveThrows \/ EnterThrows \/ ThinkThrows
    \/ RunNext \/ EndThink \/ \E f \in FiberId : Instruction(f)

Fairness ==
    /\ WF_vars(Thinking)
    /\ \A r \in Rule :
          /\ SF_vars(\E f \in FiberId : fiber[f].rule = r /\ Progress(f))
          /\ SF_vars(\E f \in FiberId : fiber[f].rule = r /\ HostSettle(f))

FairSpec == Spec /\ Fairness

-----------------------------------------------------------------------------
(* Properties.                                                             *)

(* A rule has at most one firing in flight, and only rules of the current  *)
(* page have one, whatever page changes and restarts were requested and    *)
(* from where: one fiber runs the code of a rule, which is the one the     *)
(* page tracks if it is a root rule.                                       *)
OneFiringInFlight ==
    /\ \A f, g \in RuleFibers : fiber[f].rule = fiber[g].rule => f = g
    /\ \A f \in RuleFibers : PageOf[fiber[f].rule] = current
    /\ \A f \in RuleFibers : fiber[f].rule \in Roots => active[fiber[f].rule] = f
    /\ \A r \in Roots : active[r] # NoFiber => Live(active[r]) /\ fiber[active[r]].rule = r

(* A trigger that will be answered: a fiber whose trigger is pending is    *)
(* the one its subject's slot names, and an occupied slot belongs to a     *)
(* cluster in flight, whose last fiber will answer it.                     *)
TriggerWillBeAnswered ==
    /\ \A f \in FiberId : fiber[f].trigger = "pending" =>
          watcher[PrecedingSibling[fiber[f].rule]] = f
    /\ \A r \in Rule : watcher[r] # NoFiber => HasLiveSubtree(r, {})

(* What rule-triggers.md says of the initial record: no rule reads it but  *)
(* of an always rule, since the rule above has begun its check by then.    *)
InitialRecordUnread ==
    \A f \in RuleFibers :
        LET r == fiber[f].rule
            s == PrecedingSibling[r]
        IN  fiber[f].pc \notin {"start", "arm"} /\ Mode[r] \in {"otherwise", "then"} /\ s # NoRule
              => Mode[s] = "always" \/ firing[s] # "INITIAL"

Waits(r) == \E f \in RuleFibers : fiber[f].rule = r /\ fiber[f].waits = "trigger"

(* A `then` rule does not wait for ever: its subject's cluster settles and *)
(* answers it, or a page request ends the wait.  Nothing runs while a page *)
(* cannot be left because its exit hook throws.                            *)
WaitingThenEnds ==
    \A r \in {q \in Rule : Mode[q] = "then"} : Waits(r) ~> ~Waits(r) \/ "exit" \in threw

(* A root rule that is over fires again while its page stays, however the  *)
(* firing before it ended and whatever its children were doing; not on a   *)
(* page that was entered with an error, which has no root rules, or one    *)
(* that cannot be left.                                                    *)
RootFiresAgain ==
    \A r \in Roots :
        active[r] = NoFiber /\ PageOf[r] = current
            ~> active[r] # NoFiber \/ PageOf[r] # current \/ threw # {}

(* A requested page becomes current, unless another is requested or an     *)
(* exit hook of the page before it throws.                                 *)
RequestedPageEntered ==
    \A p \in Page : desired = p ~> current = p \/ desired # p \/ "exit" \in threw
=============================================================================
