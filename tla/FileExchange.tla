----------------------------- MODULE FileExchange -----------------------------
(***************************************************************************)
(* The files of a project, kept alike in an app and in the VS Code         *)
(* extension it is paired with: Project (packages/bridge-client,           *)
(* project/project.ts) on either side, ProjectManager and BridgePairing of *)
(* the extension (apps/vscode-extension, services), and the routes of the  *)
(* bridge between them.                                                    *)
(*                                                                         *)
(* The app tells its changes with a sequence number and expects no answer. *)
(* The extension asks: each change it makes is a request, and after a      *)
(* pairing it asks for the app's whole tree.  What fails stays pending     *)
(* until the next pairing.                                                 *)
(*                                                                         *)
(* One file stands for the tree, its etag for its content: that is the     *)
(* number of the edit that wrote it.  The way from a client to the bridge  *)
(* is taken in one step with what the bridge does there; a message is on   *)
(* its way from the bridge to a client.                                    *)
(***************************************************************************)
EXTENDS Integers, SequencesExt

CONSTANTS
    Missing,        \* no file, and no etag to expect
    MaxEdits,       \* bound on the edits of both sides
    MaxAsks,        \* bound on the requests that are told apart
    MaxWire,        \* bound on the messages under way to the extension
    MaxAttempts,    \* maxAttempts of syncWithRetry
    MaxUpsets       \* bound on losses, restarts and synchronisations asked for by the user

ASSUME FileExchangeAssumption ==
    /\ {MaxEdits, MaxAsks, MaxWire, MaxAttempts, MaxUpsets} \subseteq Nat \ {0}
    /\ Missing \notin Nat

VARIABLES
    tree,       \* the file on either side
    link,       \* the connection of either side to the bridge
    bound,      \* the sides the bridge takes for connected
    toApp, toExt,           \* what is under way from the bridge
    appQueue, extQueue,     \* queuedMessages of either client
    appSeq,     \* _outboundSeq of the app
    peerSeq,    \* _peerSeq of the extension
    paired,     \* _paired of the extension
    asks,       \* requests of the extension that wait for an answer, oldest first
    naps,       \* attempts left to each syncWithRetry that sleeps
    pending,    \* _pendingChanges
    edits,      \* edits made so far
    upsets,     \* losses, restarts and synchronisations asked for so far
    owed,       \* history: edits of the extension the app has not applied
    synced      \* history: a tree was received, and TreesAgree holds of what followed

exchange == <<toApp, toExt, appQueue, extQueue>>
extension == <<peerSeq, paired, asks, naps, pending>>
history == <<edits, upsets, owed, synced>>
vars == <<tree, link, bound, exchange, appSeq, extension, history>>

Side == {"app", "ext"}
Id == 1 .. MaxAsks
Edit == 1 .. MaxEdits
Content == 0 .. MaxEdits \cup {Missing}

(* A write (of a new etag) or a delete, and the etag it replaces.          *)
Change == {c \in [edit : Edit, to : Content, expected : Content] : c.to \in {c.edit, Missing}}

Attempts == 1 .. MaxAttempts

(* Why a request was made: for an edit, by syncAndClearPending, by         *)
(* syncWithRetry, or for a single synchronisation.                         *)
Asking ==
    [id : Id, for : {"edit"}, change : Change]
        \cup [id : Id, for : {"flush"}, change : Change, rest : Seq(Change), failed : Seq(Change)]
        \cup [id : Id, for : {"retry"}, left : Attempts, clean : BOOLEAN]
        \cup [id : Id, for : {"pull"}, clean : BOOLEAN]

ToApp == [type : {"change"}, id : Id, change : Change] \cup [type : {"sync"}, id : Id]

ToExt ==
    [type : {"change"}, seq : Edit, change : Change]
        \cup [type : {"done", "refused"}, id : Id]
        \cup [type : {"tree"}, id : Id, content : Content, seq : 0 .. MaxEdits]
        \cup [type : {"welcome", "away"}]

TypeOK ==
    /\ tree \in [Side -> Content]
    /\ link \in [Side -> {"off", "down", "open", "dead"}] /\ link["ext"] # "off"
    /\ bound \subseteq Side
    /\ toApp \in Seq(ToApp) /\ toExt \in Seq(ToExt)
    /\ appQueue \in Seq(ToExt) /\ extQueue \in Seq(ToApp)
    /\ appSeq \in 0 .. MaxEdits /\ peerSeq \in 0 .. MaxEdits
    /\ paired \in BOOLEAN
    /\ asks \in Seq(Asking) /\ \A i, j \in DOMAIN asks : asks[i].id = asks[j].id => i = j
    /\ naps \in Seq(Attempts)
    /\ pending \in Seq(Change)
    /\ edits \in 0 .. MaxEdits /\ upsets \in 0 .. MaxUpsets /\ owed \subseteq Edit
    /\ synced \in BOOLEAN

(* The project of the app holds the file or not; that of the extension     *)
(* begins with nothing.                                                    *)
Init ==
    /\ \E content \in {0, Missing} : tree = [app |-> content, ext |-> Missing]
    /\ link = [app |-> "off", ext |-> "down"] /\ bound = {}
    /\ toApp = << >> /\ toExt = << >> /\ appQueue = << >> /\ extQueue = << >>
    /\ appSeq = 0 /\ peerSeq = 0 /\ paired = FALSE
    /\ asks = << >> /\ naps = << >> /\ pending = << >>
    /\ edits = 0 /\ upsets = 0 /\ owed = {} /\ synced = FALSE

-----------------------------------------------------------------------------
(* The bridge.                                                             *)

Reached(side) == side \in bound' /\ link'[side] = "open"

Refusals(ms) == [i \in DOMAIN ms |-> [type |-> "refused", id |-> ms[i].id]]

(* The extension sends the requests ms, when it still has ahead to         *)
(* receive.  They are queued while it reconnects and lost on a connection  *)
(* that is dead; the bridge forwards them to the app, to a connection that *)
(* is dead as well, and refuses them when no app is bound.                 *)
ExtSends(ms, ahead) ==
    /\ toApp' = IF link'["ext"] = "open" /\ Reached("app") THEN toApp \o ms ELSE toApp
    /\ toExt' = IF link'["ext"] = "open" /\ "app" \notin bound' THEN ahead \o Refusals(ms)
                ELSE ahead
    /\ extQueue' = IF link'["ext"] = "down" THEN extQueue \o ms ELSE << >>
    /\ UNCHANGED appQueue

(* The same for the app, whose messages are dropped when no extension is   *)
(* bound.                                                                  *)
AppSends(ms, news) ==
    /\ toExt' = IF ~Reached("ext") THEN toExt
                ELSE IF link'["app"] = "open" THEN toExt \o news \o ms ELSE toExt
    /\ appQueue' = IF link'["app"] = "down" THEN appQueue \o ms ELSE << >>
    /\ UNCHANGED extQueue

(* A bound, not in the code.                                               *)
Upset == upsets < MaxUpsets /\ upsets' = upsets + 1

(* A connection is lost, and with it what was under way on it.             *)
Lose(side) ==
    /\ link[side] = "open"
    /\ link' = [link EXCEPT ![side] = "dead"]
    /\ IF side = "app" THEN toApp' = << >> /\ UNCHANGED toExt
       ELSE toExt' = << >> /\ UNCHANGED toApp
    /\ Upset
    /\ UNCHANGED <<tree, bound, appQueue, extQueue, appSeq, extension, edits, owed, synced>>

(* The client learns of it, and of the extension's the pairing too.        *)
Notice(side) ==
    /\ link[side] = "dead"
    /\ link' = [link EXCEPT ![side] = "down"]
    /\ paired' = (paired /\ side # "ext")
    /\ UNCHANGED <<tree, bound, exchange, appSeq, peerSeq, asks, naps, pending, history>>

(* The bridge learns of it, and tells the extension of the app's.          *)
BridgeNotices(side) ==
    /\ side \in bound /\ link[side] # "open"
    /\ bound' = bound \ {side}
    /\ UNCHANGED link
    /\ Len(toExt) < MaxWire
    /\ toExt' = IF side = "app" /\ Reached("ext") THEN Append(toExt, [type |-> "away"]) ELSE toExt
    /\ UNCHANGED <<tree, toApp, appQueue, extQueue, appSeq, extension, history>>

(* A hello, which supersedes a connection the bridge still takes for one,  *)
(* is answered to both sides when both are bound; then the client flushes  *)
(* its queue.                                                              *)
Greeting(side) == IF Side \ {side} \subseteq bound THEN << [type |-> "welcome"] >> ELSE << >>

AppConnects ==
    /\ link["app"] = "down"
    /\ link' = [link EXCEPT !["app"] = "open"] /\ bound' = bound \cup {"app"}
    /\ Len(toExt) < MaxWire
    /\ AppSends(appQueue, Greeting("app"))
    /\ UNCHANGED <<tree, toApp, appSeq, extension, history>>

ExtConnects ==
    /\ link["ext"] = "down"
    /\ link' = [link EXCEPT !["ext"] = "open"] /\ bound' = bound \cup {"ext"}
    /\ ExtSends(extQueue, Greeting("ext"))
    /\ UNCHANGED <<tree, appSeq, extension, history>>

-----------------------------------------------------------------------------
(* Changes.                                                                *)

Key(c) == c.to = Missing

(* Mutant: no etag is checked.                                             *)
AppliesUnchecked(c, content) == c.to = Missing => content # Missing

(* NotifyingFileSystem.applyNotification: whether a change is applied to a *)
(* file.                                                                   *)
Applies(c, content) ==
    /\ c.expected \in {Missing, content} \/ content = Missing
    /\ c.to = Missing => content # Missing

(* Applied to what the change did not expect, for want of an etag or of a  *)
(* file to compare it with.                                                *)
Blind(c, content) == c.expected # content /\ Missing \in {c.expected, content}

Held ==
    {pending[i].edit : i \in DOMAIN pending} \cup
    UNION {IF asks[i].for = "edit" THEN {asks[i].change.edit}
           ELSE IF asks[i].for = "flush"
           THEN {c.edit : c \in {asks[i].change} \cup ToSet(asks[i].rest \o asks[i].failed)}
           ELSE {} : i \in DOMAIN asks}

(* The changes among messages.                                             *)
Changes(ms) == {m.change : m \in {n \in ToSet(ms) : n.type = "change"}}

(* The app's own change.  Some of its writers name the etag they replace.  *)
AppEdits ==
    /\ edits < MaxEdits /\ edits' = edits + 1
    /\ UNCHANGED <<link, bound>>
    /\ \E to \in {edits', Missing}, expected \in {Missing, tree["app"]} :
           LET change == [edit |-> edits', to |-> to, expected |-> expected]
           IN  /\ to = Missing => tree["app"] # Missing
               /\ tree' = [tree EXCEPT !["app"] = to]
               /\ IF link["app"] = "off" THEN UNCHANGED <<toExt, appQueue, extQueue, appSeq>>
                  ELSE /\ appSeq' = appSeq + 1
                       /\ AppSends(<< [type |-> "change", seq |-> appSeq', change |-> change] >>, << >>)
    /\ synced' = (synced /\ \A c \in Changes(toApp) : c.expected # Missing)
    /\ UNCHANGED <<toApp, extension, upsets, owed>>

-----------------------------------------------------------------------------
(* Requests of the extension.                                              *)

Named(ms) == {ms[i].id : i \in {j \in DOMAIN ms : "id" \in DOMAIN ms[j]}}

Free == Id \ UNION {Named(ms) : ms \in {asks, toApp, toExt, extQueue}}

(* The identifiers of the next request and of one made together with it.   *)
Fresh == CHOOSE id \in Free : TRUE
Another == CHOOSE id \in Free \ {Fresh} : TRUE

Sync(id) == [type |-> "sync", id |-> id]

Request(id, c) == [type |-> "change", id |-> id, change |-> c]

Retry(id, left) == [id |-> id, for |-> "retry", left |-> left, clean |-> TRUE]

Pull(id) == [id |-> id, for |-> "pull", clean |-> TRUE]

Flush(id, changes, failed) ==
    [id |-> id, for |-> "flush", change |-> Head(changes), rest |-> Tail(changes), failed |-> failed]

(* A change has been sent behind the requests for a tree among these.      *)
Crossed(as) ==
    [i \in DOMAIN as |->
        IF as[i].for \in {"retry", "pull"} THEN [as[i] EXCEPT !.clean = FALSE] ELSE as[i]]

(* Mutant: a change that is pending already keeps the new one out.         *)
EnqueueKeepsFirst(c) ==
    IF \E d \in ToSet(pending) : Key(d) = Key(c) THEN pending ELSE Append(pending, c)

(* enqueuePendingChange: the last change to fail takes the place of the    *)
(* first that has its action and path.                                     *)
Enqueue(c) == Append(RemoveFirstMatch(pending, LAMBDA d : Key(d) = Key(c)), c)

(* toRemoteFileChange and sendChangeWithAck.                               *)
ExtEdits ==
    /\ edits < MaxEdits /\ edits' = edits + 1
    /\ Free # {}
    /\ UNCHANGED <<link, bound>>
    /\ \E to \in {edits', Missing} :
           LET change == [edit |-> edits', to |-> to, expected |-> tree["ext"]]
           IN  /\ to = Missing => tree["ext"] # Missing
               /\ tree' = [tree EXCEPT !["ext"] = to]
               /\ asks' = Append(Crossed(asks), [id |-> Fresh, for |-> "edit", change |-> change])
               /\ ExtSends(<<Request(Fresh, change)>>, toExt)
    /\ owed' = owed \cup {edits'}
    /\ synced' = (synced /\ (tree["ext"] = Missing => Changes(toExt) = {}))
    /\ UNCHANGED <<appSeq, peerSeq, paired, naps, pending, upsets>>

(* sync().                                                                 *)
ExtPulls ==
    /\ Free # {}
    /\ asks' = Append(asks, Pull(Fresh))
    /\ UNCHANGED <<link, bound>>
    /\ ExtSends(<<Sync(Fresh)>>, toExt)
    /\ Upset
    /\ UNCHANGED <<tree, appSeq, peerSeq, paired, naps, pending, edits, owed, synced>>

(* Mutant: it sleeps after the last attempt.                               *)
SleepsOnceMore(left) == <<left - 1>>

(* syncWithRetry sleeps if an attempt is left after the one that failed.   *)
Sleeps(left) == IF left > 1 THEN <<left - 1>> ELSE << >>

(* What follows the end of a request, answered or failed: what is asked    *)
(* next, which attempt sleeps, and what is pending then.                   *)
Continuation(a, answered) ==
    LET failed == IF answered THEN a.failed ELSE Append(a.failed, a.change)
        none == [ask |-> << >>, say |-> << >>, nap |-> << >>, pending |-> pending]
    IN  CASE a.for = "edit" /\ ~answered -> [none EXCEPT !.pending = Enqueue(a.change)]
          [] a.for = "flush" /\ a.rest # << >> ->
                 [none EXCEPT !.ask = <<Flush(Fresh, a.rest, failed)>>,
                              !.say = <<Request(Fresh, Head(a.rest))>>]
          [] a.for = "flush" /\ a.rest = << >> /\ failed # << >> ->
                 [none EXCEPT !.pending = failed \o pending]
          [] a.for = "flush" /\ a.rest = << >> /\ failed = << >> ->
                 [none EXCEPT !.ask = <<Pull(Fresh)>>, !.say = <<Sync(Fresh)>>]
          [] a.for = "retry" /\ ~answered -> [none EXCEPT !.nap = Sleeps(a.left)]
          [] OTHER -> none

(* A request ends, when ahead is still to be received.                     *)
Ends(k, answered, ahead) ==
    LET next == Continuation(asks[k], answered)
        others == RemoveAt(asks, k)
        again == next.say # << >> /\ next.say[1].type = "change"
    IN  /\ asks[k].for = "flush" => Free # {}
        /\ asks' = (IF again THEN Crossed(others) ELSE others) \o next.ask
        /\ naps' = naps \o next.nap
        /\ pending' = next.pending
        /\ owed' = owed \ {c.edit : c \in ToSet(pending) \ ToSet(next.pending)}
        /\ ExtSends(next.say, ahead)
        /\ synced' = IF asks[k].for \in {"retry", "pull"} /\ answered THEN asks[k].clean
                     ELSE synced /\ ~again

(* The time of a request runs out, that of the oldest first.               *)
TimesOut ==
    /\ asks # << >>
    /\ UNCHANGED <<link, bound>>
    /\ Ends(1, FALSE, toExt)
    /\ UNCHANGED <<tree, appSeq, peerSeq, paired, edits, upsets>>

(* syncWithRetry has slept.                                                *)
Wakes ==
    /\ Free # {}
    /\ UNCHANGED <<link, bound>>
    /\ \E i \in DOMAIN naps :
           /\ naps' = RemoveAt(naps, i)
           /\ asks' = Append(asks, Retry(Fresh, naps[i]))
    /\ ExtSends(<<Sync(Fresh)>>, toExt)
    /\ UNCHANGED <<tree, appSeq, peerSeq, paired, pending, history>>

-----------------------------------------------------------------------------
(* What the extension receives.                                            *)

ExtReceives(type) == toExt # << >> /\ Head(toExt).type = type

(* setPaired(true), and the listener of the project manager: a request for *)
(* the tree, and behind it the first change that is pending.  A welcome on *)
(* a pairing changes nothing.                                              *)
Welcomed ==
    /\ ExtReceives("welcome")
    /\ UNCHANGED <<link, bound>>
    /\ synced' = FALSE
    /\ IF paired THEN toExt' = Tail(toExt) /\ UNCHANGED <<toApp, appQueue, extQueue, extension>>
       ELSE /\ paired' = TRUE /\ pending' = << >>
            /\ LET flush == pending # << >>
               IN  /\ Free # {} /\ (flush => Free \ {Fresh} # {})
                   /\ asks' = IF flush
                              THEN Crossed(Append(asks, Retry(Fresh, MaxAttempts)))
                                       \o <<Flush(Another, pending, << >>)>>
                              ELSE Append(asks, Retry(Fresh, MaxAttempts))
                   /\ ExtSends(<<Sync(Fresh)>> \o
                                   (IF flush THEN <<Request(Another, Head(pending))>> ELSE << >>),
                               Tail(toExt))
            /\ UNCHANGED <<peerSeq, naps>>
    /\ UNCHANGED <<tree, appSeq, edits, upsets, owed>>

ToldAway ==
    /\ ExtReceives("away")
    /\ toExt' = Tail(toExt) /\ paired' = FALSE
    /\ UNCHANGED <<tree, link, bound, toApp, appQueue, extQueue, appSeq, peerSeq, asks, naps,
                   pending, history>>

(* filesystem:change of the app.  One that cannot be applied throws in the *)
(* listener and is lost.                                                   *)
AppChanged ==
    /\ ExtReceives("change")
    /\ LET m == Head(toExt)
       IN  tree' = IF m.seq > peerSeq /\ Applies(m.change, tree["ext"])
                   THEN [tree EXCEPT !["ext"] = m.change.to] ELSE tree
    /\ toExt' = Tail(toExt)
    /\ UNCHANGED <<link, bound, toApp, appQueue, extQueue, appSeq, extension, history>>

Answered(types) == toExt # << >> /\ Head(toExt).type \in types

Asked == SelectInSeq(asks, LAMBDA a : a.id = Head(toExt).id)

(* An answer nobody waits for any more reaches the listeners, which take   *)
(* nothing from it.                                                        *)
AnsweredLate ==
    /\ Answered({"done", "refused", "tree"}) /\ Asked = 0
    /\ toExt' = Tail(toExt)
    /\ UNCHANGED <<tree, link, bound, toApp, appQueue, extQueue, appSeq, extension, history>>

(* The answer to a change, or a refusal.                                   *)
ChangeAnswered ==
    /\ Answered({"done", "refused"}) /\ Asked # 0
    /\ UNCHANGED <<link, bound>>
    /\ Ends(Asked, Head(toExt).type = "done", Tail(toExt))
    /\ UNCHANGED <<tree, appSeq, peerSeq, paired, edits, upsets>>

(* requestSync: the tree of the app replaces that of the extension.        *)
TreeReceived ==
    /\ Answered({"tree"}) /\ Asked # 0
    /\ UNCHANGED <<link, bound>>
    /\ tree' = [tree EXCEPT !["ext"] = Head(toExt).content]
    /\ peerSeq' = Head(toExt).seq
    /\ Ends(Asked, TRUE, Tail(toExt))
    /\ UNCHANGED <<appSeq, paired, edits, upsets>>

(* disconnectActive and a new connect().                                   *)
ExtRestarts ==
    /\ tree' = [tree EXCEPT !["ext"] = Missing]
    /\ link' = [link EXCEPT !["ext"] = "down"]
    /\ toExt' = << >> /\ extQueue' = << >>
    /\ peerSeq' = 0 /\ paired' = FALSE
    /\ asks' = << >> /\ naps' = << >> /\ pending' = << >>
    /\ owed' = {} /\ synced' = FALSE
    /\ Upset
    /\ UNCHANGED <<bound, toApp, appQueue, appSeq, edits>>

-----------------------------------------------------------------------------
(* The app.                                                                *)

AppReceives ==
    /\ toApp # << >>
    /\ toApp' = Tail(toApp)
    /\ UNCHANGED <<link, bound>>
    /\ LET m == Head(toApp)
           applies == m.type = "change" /\ Applies(m.change, tree["app"])
           answer ==
               IF m.type = "sync"
               THEN [type |-> "tree", id |-> m.id, content |-> tree["app"], seq |-> appSeq]
               ELSE [type |-> IF applies THEN "done" ELSE "refused", id |-> m.id]
       IN  /\ tree' = IF applies THEN [tree EXCEPT !["app"] = m.change.to] ELSE tree
           /\ owed' = IF applies THEN owed \ {m.change.edit} ELSE owed
           /\ synced' = (synced /\ ~(applies /\ Blind(m.change, tree["app"])))
           /\ AppSends(<<answer>>, << >>)
    /\ UNCHANGED <<appSeq, extension, edits, upsets>>

(* The page goes, or stop() of the bridge; start() makes a new Project of  *)
(* the files as they are.                                                  *)
AppStops ==
    /\ link["app"] # "off"
    /\ link' = [link EXCEPT !["app"] = "off"]
    /\ toApp' = << >> /\ appQueue' = << >>
    /\ Upset
    /\ UNCHANGED <<tree, bound, toExt, extQueue, appSeq, extension, edits, owed, synced>>

AppStarts ==
    /\ link["app"] = "off"
    /\ link' = [link EXCEPT !["app"] = "down"]
    /\ appSeq' = 0
    /\ UNCHANGED <<tree, bound, exchange, extension, history>>

Next ==
    \/ \E side \in Side : Lose(side) \/ Notice(side) \/ BridgeNotices(side)
    \/ AppConnects \/ ExtConnects \/ AppStarts \/ AppStops \/ ExtRestarts
    \/ AppEdits \/ ExtEdits \/ ExtPulls \/ TimesOut \/ Wakes
    \/ Welcomed \/ ToldAway \/ AppChanged \/ AnsweredLate \/ ChangeAnswered \/ TreeReceived
    \/ AppReceives

Spec == Init /\ [][Next]_vars

-----------------------------------------------------------------------------
(* Correctness.                                                            *)

Quiet ==
    /\ \A side \in Side : link[side] = "open" /\ side \in bound
    /\ toApp = << >> /\ toExt = << >> /\ pending = << >>
    /\ \A i \in DOMAIN asks : asks[i].for \in {"retry", "pull"}

(* Once nothing is under way and nothing pending, both sides hold the same *)
(* file, however their edits crossed, were refused or lost since the last  *)
(* tree the extension received.  Five things the code does not mend are    *)
(* kept apart by synced: a welcome on a pairing, a change that a flush     *)
(* sends again, an edit that crosses the tree on its way, a change the app *)
(* applies to what it did not expect, and a creation of the file by the    *)
(* extension that crosses a change of the app.                             *)
TreesAgree == Quiet /\ synced => tree["app"] = tree["ext"]

(* An edit of the extension that the app has not applied is asked for or   *)
(* pending, or a later failure of the same action has taken its place.     *)
EditsAccounted == owed \subseteq Held
=============================================================================
