------------------------------- MODULE AskQueue -------------------------------
(***************************************************************************)
(* What the sessions of the brains promise about the person's words        *)
(* (AssistantMachine.send, cancelAsk, sendNow, libraryAdded and            *)
(* drainPending): one turn at a time; what is typed or added while one     *)
(* runs waits for it in the order it came; a turn takes one added library  *)
(* or the asks that wait at the head together, and an ask that was hurried *)
(* takes one alone.  Sessions are absent: a turn may begin whenever none   *)
(* runs.                                                                   *)
(***************************************************************************)
EXTENDS Naturals, SequencesExt

CONSTANTS Brain, Ask, Library

VARIABLES           \* of every brain:
    running,        \* whether a turn runs
    waiting,        \* what waits for it to end
    asked,          \* the asks that were put to the service, in order
    closed          \* whether the machine was closed, and all its brains

vars == <<running, waiting, asked, closed>>

TypeOK ==
    /\ running \in [Brain -> BOOLEAN]
    /\ waiting \in [Brain -> Seq([what : Ask \cup Library, solo : BOOLEAN])]
    /\ asked \in [Brain -> Seq(Ask)]
    /\ closed \in BOOLEAN

Init ==
    /\ running = [b \in Brain |-> FALSE]
    /\ waiting = [b \in Brain |-> <<>>]
    /\ asked = [b \in Brain |-> <<>>]
    /\ closed = FALSE

Entry(what) == [what |-> what, solo |-> FALSE]

(* The n entries at the head of w take a turn of their own.                *)
TakesTurn(b, w, n) ==
    /\ \/ n = 1
       \/ \A i \in 1 .. n : w[i].what \in Ask /\ ~w[i].solo
    /\ running'[b] = TRUE
    /\ waiting'[b] = SubSeq(w, n + 1, Len(w))
    /\ asked'[b] = IF w[1].what \in Ask THEN asked[b] \o [i \in 1 .. n |-> w[i].what] ELSE asked[b]

TakesHead(b) == \E n \in 1 .. Len(waiting[b]) : TakesTurn(b, waiting[b], n)

Keeps(b) ==
    running'[b] = running[b] /\ waiting'[b] = waiting[b] /\ asked'[b] = asked[b]

(* With no turn running, what is asked or added is not kept waiting, even  *)
(* when a lost session has left other asks behind.                         *)
Begin(b, what) ==
    /\ ~running[b] /\ running'[b] = TRUE
    /\ asked'[b] = IF what \in Ask THEN Append(asked[b], what) ELSE asked[b]
    /\ waiting'[b] = waiting[b]

Wait(b, what) ==
    /\ running[b] /\ running'[b] = TRUE
    /\ waiting'[b] = Append(waiting[b], Entry(what))
    /\ asked'[b] = asked[b]

Withdraw(b, i) ==
    /\ waiting[b][i].what \in Ask
    /\ waiting'[b] = RemoveAt(waiting[b], i)
    /\ running'[b] = running[b] /\ asked'[b] = asked[b]

Hurried(w, i) == <<[w[i] EXCEPT !.solo = TRUE]>> \o RemoveAt(w, i)

Hurry(b, i) ==
    /\ waiting[b][i].what \in Ask
    /\ \/ /\ waiting'[b] = Hurried(waiting[b], i)
          /\ running'[b] = running[b] /\ asked'[b] = asked[b]
       \/ ~running[b] /\ TakesTurn(b, Hurried(waiting[b], i), 1)

(* A turn ends, and the next may begin with its end.                       *)
End(b) ==
    /\ running[b]
    /\ \/ running'[b] = FALSE /\ waiting'[b] = waiting[b] /\ asked'[b] = asked[b]
       \/ TakesHead(b)

(* A session stands up again and takes what was left waiting.              *)
Resume(b) == ~running[b] /\ TakesHead(b)

Step(b) ==
    \/ \E what \in Ask \cup Library : Begin(b, what) \/ Wait(b, what)
    \/ \E i \in DOMAIN waiting[b] : Withdraw(b, i) \/ Hurry(b, i)
    \/ End(b) \/ Resume(b)

StandDown(b) == running'[b] = FALSE /\ waiting'[b] = <<>> /\ asked'[b] = asked[b]

(* Brains are apart, but one call may concern several (stop).  What waits  *)
(* is dropped by close() alone, which comes once.                          *)
Next ==
    /\ TypeOK'
    /\ \/ closed' = closed /\ \A b \in Brain : Step(b) \/ Keeps(b)
       \/ ~closed /\ closed' = TRUE /\ \A b \in Brain : StandDown(b)

Spec == Init /\ [][Next]_vars
=============================================================================
