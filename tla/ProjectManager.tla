---------------------------- MODULE ProjectManager ----------------------------
(***************************************************************************)
(* The projects of an app over several browser tabs (class ProjectManager  *)
(* in packages/app-host/src/project-manager.ts, with project-lock.ts,      *)
(* project-collection-broadcast.ts and the transactions of                 *)
(* idb-project-store.ts): a project is opened under a lock, its changes    *)
(* are saved after a pause and when it is closed, and a project that was   *)
(* deleted elsewhere is given up for another.                              *)
(*                                                                         *)
(* One collection that is never locked.  The files of a project are the    *)
(* set of changes they hold.  A step is a call, or a transaction of the    *)
(* store or of the lock manager with what its result sets off in the tab;  *)
(* between two awaits of a method anything else may happen.  A tab runs    *)
(* one call of the user at a time, one recovery from a deletion and, as a  *)
(* bound, the automatic saves Flush.                                       *)
(***************************************************************************)
EXTENDS Naturals, FiniteSets

CONSTANTS
    Tab, Project, None,
    Change,     \* changes of files; each is made once
    Flush       \* bound: the automatic saves a tab has under way

ASSUME ProjectManagerAssumption ==
    None \notin Tab \cup Project /\ {"user", "recovery"} \cap Flush = {}

VARIABLES
    live,       \* the projects of the store that are not tombstoned
    files,      \* the files of the store
    holder,     \* the tab that holds the lock of a project
    tab,        \* the fields of the manager of each tab
    task,       \* the call of the user and the recovery of each tab
    save,       \* the saves under way, of tasks and automatic
    news,       \* broadcasts on their way: the tab, and the project tombstoned
    home,       \* history: the project in which a change was made
    forgone,    \* history: changes whose loss is accounted for (see EditsKept)
    crossed,    \* history: tabs whose recovery ran into an open or a close
    stuck,      \* history: the locks that opens which failed have left with a tab
    late        \* history: tabs that opened a project tombstoned meanwhile

store == <<live, files>>
history == <<home, forgone, crossed, stuck, late>>
vars == <<store, holder, tab, task, save, news, history>>

Tasks == Tab \X {"user", "recovery"}
Saves == Tab \X ({"user", "recovery"} \cup Flush)

(* autosaves: the project whose file system startAutoSave listens to.      *)
Manager ==
    [active : Project \cup {None}, fs : SUBSET Change, handle : Project \cup {None},
     autosaves : Project \cup {None}, pending : SUBSET Change, remote : BOOLEAN]

(* Where a task stands: the transaction it waits for.                      *)
Task ==
    [at : {"idle", "get", "lock", "closing", "load", "closing only", "delete", "stale", "list"},
     project : Project \cup {None}, others : SUBSET Project]

(* changes: what is applied to the files read; whole: a whole snapshot.    *)
Save ==
    [at : {"idle", "load", "put", "touch"},
     project : Project \cup {None}, content : SUBSET Change,
     changes : SUBSET Change, whole : BOOLEAN]

NoTask == [at |-> "idle", project |-> None, others |-> {}]
NoSave == [at |-> "idle", project |-> None, content |-> {}, changes |-> {}, whole |-> FALSE]

TypeOK ==
    /\ live \subseteq Project
    /\ files \in [Project -> SUBSET Change]
    /\ holder \in [Project -> Tab \cup {None}]
    /\ tab \in [Tab -> Manager]
    /\ task \in [Tasks -> Task]
    /\ save \in [Saves -> Save]
    /\ news \subseteq Tab \X Project
    /\ home \in [Change -> Project \cup {None}]
    /\ forgone \subseteq Change
    /\ crossed \subseteq Tab /\ stuck \subseteq Tab \X Project /\ late \subseteq Tab

Init ==
    /\ live = Project
    /\ files = [p \in Project |-> {}]
    /\ holder = [p \in Project |-> None]
    /\ tab = [t \in Tab |-> [active |-> None, fs |-> {}, handle |-> None,
                             autosaves |-> None, pending |-> {}, remote |-> FALSE]]
    /\ task = [k \in Tasks |-> NoTask]
    /\ save = [w \in Saves |-> NoSave]
    /\ news = {}
    /\ home = [c \in Change |-> None]
    /\ forgone = {} /\ crossed = {} /\ stuck = {} /\ late = {}

MadeIn(p) == {c \in Change : home[c] = p}

UnderWay(p) == {w \in Saves : save[w].project = p}

(* The task has its lock, or is closing: a recovery that changes the       *)
(* manager now runs into it.                                               *)
Switching(k) == task[k].at \in {"closing", "closing only", "load"}

-----------------------------------------------------------------------------
(* A change of the files of the active project, by the person or from the  *)
(* bridge, recorded while the project is saved automatically: not after an *)
(* open that has closed it and then failed.                                *)
Edit(t, c, remote) ==
    LET m == tab[t]
        listens == m.autosaves = m.active
    IN  /\ m.active # None /\ home[c] = None
        /\ tab' = [tab EXCEPT ![t] =
             [m EXCEPT !.fs = @ \cup {c},
                       !.pending = IF listens /\ ~remote THEN @ \cup {c} ELSE @,
                       !.remote = @ \/ (listens /\ remote)]]
        /\ home' = [home EXCEPT ![c] = m.active]
        /\ forgone' = IF listens /\ \A k \in Tasks : k[1] = t => ~Switching(k) THEN forgone
                      ELSE forgone \cup {c}
        /\ UNCHANGED <<store, holder, task, save, news, crossed, stuck, late>>

(* stopAutoSave.                                                           *)
StopAutoSave(m) == [m EXCEPT !.autosaves = None, !.pending = {}, !.remote = FALSE]

-----------------------------------------------------------------------------
(* Two saves of a project that overlap: the one that has read its files    *)
(* first may write last.                                                   *)
Overlaps(p) ==
    forgone' = IF UnderWay(p) # {} THEN forgone \cup MadeIn(p) ELSE forgone

(* A save of the active project, by a tab that may have closed it already. *)
SavesAll(m) ==
    IF m.autosaves = m.active THEN Overlaps(m.active)
    ELSE forgone' = forgone \cup MadeIn(m.active)

(* applyProjectFileChanges and saveProjectFiles of the store: the files    *)
(* are read if changes are to be applied, and written if the project is    *)
(* live; the manifest that updateProject has read is then written back,    *)
(* tombstoned meanwhile or not.  A save may fail up to then.               *)
SaveStep(w) ==
    LET s == save[w]
    IN  /\ \/ /\ s.at = "load"
              /\ save' = [save EXCEPT ![w].at = "put",
                                      ![w].content = files[s.project] \cup s.changes]
              /\ UNCHANGED files
           \/ /\ s.at = "put" /\ s.project \in live
              /\ save' = [save EXCEPT ![w].at = "touch"]
              /\ files' = [files EXCEPT ![s.project] = s.content]
        /\ UNCHANGED <<live, holder, tab, task, news, history>>

SaveEnds(w) ==
    /\ save[w].at = "touch"
    /\ live' = live \cup {save[w].project}
    /\ save' = [save EXCEPT ![w] = NoSave]
    /\ UNCHANGED files

SaveFails(w) ==
    /\ save[w].at \in {"put", "touch"}
    /\ save' = [save EXCEPT ![w] = NoSave]
    /\ UNCHANGED store

(* flushAutoSave, by its timer or by a caller.  One that finds the changes *)
(* of a failed save after the project was closed saves it without a lock.  *)
FlushAutoSave(t, i) ==
    LET m == tab[t]
    IN  /\ save[<<t, i>>].at = "idle"
        /\ m.active # None /\ (m.pending # {} \/ m.remote)
        /\ save' = [save EXCEPT ![<<t, i>>] =
             [at |-> IF m.remote THEN "put" ELSE "load", project |-> m.active,
              content |-> m.fs, changes |-> m.pending, whole |-> m.remote]]
        /\ tab' = [tab EXCEPT ![t].pending = {}, ![t].remote = FALSE]
        /\ SavesAll(m)
        /\ UNCHANGED <<store, holder, task, news, home, crossed, stuck, late>>

Flushed(t, i) ==
    /\ SaveEnds(<<t, i>>)
    /\ UNCHANGED <<holder, tab, task, news, history>>

(* Mutant: the changes of a save that failed are gone.                     *)
FlushFailsDropped(t, i) ==
    LET k == <<t, "recovery">>
    IN  /\ SaveFails(<<t, i>>)
        /\ \/ tab[t].active # save[<<t, i>>].project /\ UNCHANGED task
           \/ /\ tab[t].active = save[<<t, i>>].project /\ task[k].at = "idle"
              /\ task' = [task EXCEPT ![k] = [NoTask EXCEPT !.at = "stale",
                                                            !.project = save[<<t, i>>].project]]
        /\ UNCHANGED <<holder, tab, news, history>>

(* The changes of a save that failed stay pending; if its project is still *)
(* active, it is looked up (recoverIfCurrentActiveIsStale).                *)
FlushFails(t, i) ==
    LET s == save[<<t, i>>]
        k == <<t, "recovery">>
    IN  /\ SaveFails(<<t, i>>)
        /\ tab' = [tab EXCEPT ![t].pending = @ \cup s.changes, ![t].remote = @ \/ s.whole]
        /\ \/ tab[t].active # s.project /\ UNCHANGED task
           \/ /\ tab[t].active = s.project /\ task[k].at = "idle"
              /\ task' = [task EXCEPT ![k] = [NoTask EXCEPT !.at = "stale", !.project = s.project]]
        /\ UNCHANGED <<holder, news, history>>

-----------------------------------------------------------------------------
(* tryOpen, for the user or for a recovery.                                *)

Ends(k) == task' = [task EXCEPT ![k] = NoTask]
Goes(k, at) == task' = [task EXCEPT ![k].at = at]

(* The project is looked up: one that is not live is an error, the active  *)
(* one is returned, and the lock of another is asked for.                  *)
GetProject(k, p) ==
    IF p \in live /\ tab[k[1]].active # p
    THEN task' = [task EXCEPT ![k].at = "lock", ![k].project = p]
    ELSE Ends(k)

Open(t, p) ==
    /\ task[<<t, "user">>].at = "idle" /\ GetProject(<<t, "user">>, p)
    /\ UNCHANGED <<store, holder, tab, save, news, history>>

OpenNext(t) ==
    LET k == <<t, "recovery">>
    IN  /\ task[k].at = "get" /\ GetProject(k, task[k].project)
        /\ UNCHANGED <<store, holder, tab, save, news, history>>

(* closeInternal, up to its save.                                          *)
Closes(k, at) ==
    LET m == tab[k[1]]
    IN  /\ save' = [save EXCEPT ![k] =
             [NoSave EXCEPT !.at = "put", !.project = m.active, !.content = m.fs]]
        /\ SavesAll(m)
        /\ Goes(k, at)

(* The lock is granted to nobody while a tab holds it, this one included.  *)
Granted(k) ==
    LET t == k[1]
        p == task[k].project
    IN  /\ task[k].at = "lock" /\ holder[p] = None
        /\ holder' = [holder EXCEPT ![p] = t]
        /\ crossed' = IF \E j \in Tasks : j[1] = t /\ Switching(j) THEN crossed \cup {t} ELSE crossed
        /\ IF tab[t].active # None
           THEN Closes(k, "closing") /\ UNCHANGED tab
           ELSE /\ Goes(k, "load")
                /\ tab' = [tab EXCEPT ![t].handle = p]
                /\ UNCHANGED <<save, forgone>>
        /\ UNCHANGED <<store, news, home, stuck, late>>

(* A recovery goes on to the next of the projects it has listed.           *)
Denied(k) ==
    /\ task[k].at = "lock" /\ holder[task[k].project] # None
    /\ \/ task[k].others = {} /\ Ends(k)
       \/ \E p \in task[k].others :
            task' = [task EXCEPT ![k] = [at |-> "get", project |-> p,
                                         others |-> task[k].others \ {p}]]
    /\ UNCHANGED <<store, holder, tab, save, news, history>>

(* Mutant: a lock that was released is known no more.                      *)
ReleasedDropped(h) == [p \in Project \ {h} |-> holder[p]]

Released(h) == [p \in Project |-> IF p = h THEN None ELSE holder[p]]

(* Mutant: the lock of the next project is released.                       *)
ClosedForNextSwapped(k) ==
    LET m == tab[k[1]]
    IN  /\ task[k].at = "closing" /\ SaveEnds(k)
        /\ holder' = Released(task[k].project)
        /\ tab' = [tab EXCEPT ![k[1]] = [StopAutoSave(m) EXCEPT !.handle = task[k].project]]
        /\ Goes(k, "load")
        /\ UNCHANGED <<news, history>>

(* The lock of a tab is released, whoever left it.                         *)
Releases(t) ==
    /\ holder' = Released(tab[t].handle)
    /\ stuck' = stuck \ {<<t, tab[t].handle>>}

(* The rest of closeInternal; the new project is loaded.                   *)
ClosedForNext(k) ==
    LET m == tab[k[1]]
    IN  /\ task[k].at = "closing" /\ SaveEnds(k)
        /\ Releases(k[1])
        /\ tab' = [tab EXCEPT ![k[1]] = [StopAutoSave(m) EXCEPT !.handle = task[k].project]]
        /\ Goes(k, "load")
        /\ UNCHANGED <<news, home, forgone, crossed, late>>

(* A save that fails ends the call with an error.                          *)
CloseFails(k) ==
    /\ SaveFails(k)
    /\ Ends(k)
    /\ stuck' = IF task[k].at = "closing" THEN stuck \cup {<<k[1], task[k].project>>}
                ELSE stuck
    /\ UNCHANGED <<holder, tab, news, home, forgone, crossed, late>>

(* openInternal, and the rest of tryOpen.                                  *)
Opened(k) ==
    LET t == k[1]
        p == task[k].project
    IN  /\ task[k].at = "load"
        /\ tab' = [tab EXCEPT ![t].active = p, ![t].fs = files[p], ![t].autosaves = p]
        /\ Ends(k)
        /\ Overlaps(p)
        /\ late' = IF p \in live THEN late \ {t} ELSE late \cup {t}
        /\ UNCHANGED <<store, holder, save, news, home, crossed, stuck>>

(* openInternal fails: the tab keeps the handle of the new project, and    *)
(* the old one, if any, stays active without its lock and unheard.         *)
OpenFails(k) ==
    /\ task[k].at = "load"
    /\ Ends(k)
    /\ stuck' = stuck \cup {<<k[1], task[k].project>>}
    /\ UNCHANGED <<store, holder, tab, save, news, home, forgone, crossed, late>>

-----------------------------------------------------------------------------
(* close and delete.                                                       *)

Close(t) ==
    LET k == <<t, "user">>
    IN  /\ task[k].at = "idle" /\ tab[t].active # None
        /\ Closes(k, "closing only")
        /\ crossed' = IF Switching(<<t, "recovery">>) THEN crossed \cup {t} ELSE crossed
        /\ UNCHANGED <<store, holder, tab, news, home, stuck, late>>

Closed(t) ==
    LET k == <<t, "user">>
        m == tab[t]
    IN  /\ task[k].at = "closing only" /\ SaveEnds(k)
        /\ Releases(t)
        /\ tab' = [tab EXCEPT ![t] = [StopAutoSave(m) EXCEPT !.handle = None, !.active = None,
                                                             !.fs = {}]]
        /\ Ends(k)
        /\ UNCHANGED <<news, home, forgone, crossed, late>>

Delete(t, p) ==
    /\ task[<<t, "user">>].at = "idle" /\ tab[t].active # p /\ p \in live
    /\ task' = [task EXCEPT ![<<t, "user">>] = [NoTask EXCEPT !.at = "delete", !.project = p]]
    /\ UNCHANGED <<store, holder, tab, save, news, history>>

(* The tombstone is put in the store, and the other tabs are told.         *)
DeleteProject(t) ==
    LET k == <<t, "user">>
    IN  /\ task[k].at = "delete"
        /\ live' = live \ {task[k].project}
        /\ news' = news \cup ((Tab \ {t}) \X {task[k].project})
        /\ crossed' = IF tab[t].active = task[k].project THEN crossed \cup {t} ELSE crossed
        /\ Ends(k)
        /\ UNCHANGED <<files, holder, tab, save, home, forgone, stuck, late>>

-----------------------------------------------------------------------------
(* Recovery of a tab whose active project was tombstoned: it is discarded  *)
(* without saving, and the first project that can be opened replaces it.   *)
(* The project created when none can be opened is left out.                *)

Discard(t) ==
    /\ Releases(t)
    /\ tab' = [tab EXCEPT ![t] = [StopAutoSave(@) EXCEPT !.handle = None, !.active = None,
                                                         !.fs = {}]]
    /\ task' = [task EXCEPT ![<<t, "recovery">>] = [NoTask EXCEPT !.at = "list"]]
    /\ forgone' = forgone \cup tab[t].fs
    /\ crossed' = IF Switching(<<t, "user">>) THEN crossed \cup {t} ELSE crossed

(* Mutant: a tab in a call of the user does not listen.                    *)
TombstonedUnlessBusy(t, p) ==
    /\ <<t, p>> \in news
    /\ news' = news \ {<<t, p>>}
    /\ \/ /\ tab[t].active # p \/ task[<<t, "user">>].at # "idle"
          /\ UNCHANGED <<holder, tab, task, forgone, crossed, stuck>>
       \/ /\ tab[t].active = p /\ task[<<t, "user">>].at = "idle"
          /\ task[<<t, "recovery">>].at = "idle" /\ Discard(t)
    /\ UNCHANGED <<store, save, home, late>>

Tombstoned(t, p) ==
    /\ <<t, p>> \in news
    /\ news' = news \ {<<t, p>>}
    /\ \/ tab[t].active # p /\ UNCHANGED <<holder, tab, task, forgone, crossed, stuck>>
       \/ tab[t].active = p /\ task[<<t, "recovery">>].at = "idle" /\ Discard(t)
    /\ UNCHANGED <<store, save, home, late>>

(* The project that was looked up is alive after all, or it is not: then   *)
(* whatever is active by now is discarded.                                 *)
LookForStale(t) ==
    LET k == <<t, "recovery">>
    IN  /\ task[k].at = "stale"
        /\ IF task[k].project \in live
           THEN Ends(k) /\ UNCHANGED <<holder, tab, forgone, crossed, stuck>> ELSE Discard(t)
        /\ UNCHANGED <<store, save, news, home, late>>

ListProjects(t) ==
    LET k == <<t, "recovery">>
    IN  /\ task[k].at = "list"
        /\ \/ live = {} /\ Ends(k)
           \/ \E p \in live :
                task' = [task EXCEPT ![k] = [at |-> "get", project |-> p, others |-> live \ {p}]]
        /\ UNCHANGED <<store, holder, tab, save, news, history>>

Next ==
    \/ \E t \in Tab :
         \/ \E c \in Change, remote \in BOOLEAN : Edit(t, c, remote)
         \/ \E i \in Flush : FlushAutoSave(t, i) \/ Flushed(t, i) \/ FlushFails(t, i)
         \/ \E p \in Project : Open(t, p) \/ Delete(t, p) \/ Tombstoned(t, p)
         \/ Close(t) \/ Closed(t) \/ DeleteProject(t)
         \/ OpenNext(t) \/ LookForStale(t) \/ ListProjects(t)
    \/ \E w \in Saves : SaveStep(w)
    \/ \E k \in Tasks :
         \/ Granted(k) \/ Denied(k) \/ ClosedForNext(k) \/ CloseFails(k)
         \/ Opened(k) \/ OpenFails(k)

Spec == Init /\ [][Next]_vars

-----------------------------------------------------------------------------
(* Properties.  The code lets a recovery cross an open or a close of the   *)
(* same tab; what it breaks then is described in README.md, and crossed    *)
(* keeps those behaviours apart.                                           *)

(* tryOpen, closeInternal, discardCurrentActiveWithoutSaving: a tab that   *)
(* saves a project automatically has it active and holds its lock, so that *)
(* no two tabs save the same project, whatever is closed, deleted or       *)
(* recovered elsewhere.  And a tab holds no lock but that of its project,  *)
(* the one an open has been granted, and those that opens have left with   *)
(* it which failed to save the old project or to load the new one: a       *)
(* project whose lock is held for no reason can be opened in no tab.       *)
LocksFollowProjects ==
    /\ \A t \in Tab \ crossed :
        tab[t].autosaves # None =>
            /\ tab[t].active = tab[t].autosaves
            /\ tab[t].handle = tab[t].autosaves
            /\ holder[tab[t].autosaves] = t
    /\ \A p \in Project : \A t \in Tab \ crossed :
        holder[p] = t /\ <<t, p>> \notin stuck =>
            \/ tab[t].active = p /\ tab[t].handle = p
            \/ \E k \in Tasks : /\ k[1] = t /\ task[k].project = p
                               /\ task[k].at \in {"closing", "load"}

(* delete, handleProjectCollectionBroadcast: a tab whose active project is *)
(* tombstoned still has the broadcast to come, whatever it is doing,       *)
(* unless the project was tombstoned while the tab was opening it.         *)
ToldOfDeletion ==
    \A t \in Tab \ (crossed \cup late) :
        tab[t].active \in Project \ live => <<t, tab[t].active>> \in news

(* flushAutoSave, closeInternal: a change is in the store, pending or in a *)
(* save under way, whichever saves fail, unless it was discarded with a    *)
(* deleted project, made while the project was being closed, for good or   *)
(* by an open that failed then, or one of a project two saves of which     *)
(* overlapped or which a tab saved that had already closed it.             *)
EditsKept ==
    crossed = {} =>
        \A c \in Change \ forgone : home[c] # None =>
            \/ c \in files[home[c]]
            \/ \E t \in Tab : tab[t].active = home[c] /\ (c \in tab[t].pending \/ tab[t].remote)
            \/ \E w \in UnderWay(home[c]) : c \in save[w].content \cup save[w].changes

(* "A write that fails keeps its changes pending for the next save"        *)
(* (project-manager.ts:1047): the next save is of the project they were    *)
(* made in.                                                                *)
ChangesStayHome == \A p \in Project : \A c \in files[p] : home[c] = p
=============================================================================
