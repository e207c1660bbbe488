------------------------- MODULE ProjectManagerProofs -------------------------
(***************************************************************************)
(* Invariants of the project manager, for every set of tabs, projects and  *)
(* changes and for any number of saves under way.                          *)
(***************************************************************************)
EXTENDS ProjectManager, TLAPS

-----------------------------------------------------------------------------
(* Types.  A task that waits for a transaction on a project, and a save,   *)
(* name a project.                                                         *)

TypeInv ==
    /\ TypeOK
    /\ \A k \in Tasks : task[k].at \in {"get", "lock", "closing", "load", "delete", "stale"} =>
          task[k].project \in Project
    /\ \A w \in Saves : save[w].at # "idle" => save[w].project \in Project

LEMMA Records ==
    /\ NoTask \in Task /\ NoSave \in Save
    /\ None \notin Project /\ None \notin Tab
    /\ \A k \in Tasks : k \in Saves /\ k[1] \in Tab /\ k = <<k[1], k[2]>>
    /\ \A t \in Tab : <<t, "user">> \in Tasks /\ <<t, "recovery">> \in Tasks
    /\ \A t \in Tab, i \in Flush : <<t, i>> \in Saves \ Tasks
BY ProjectManagerAssumption DEF NoTask, NoSave, Task, Save, Tasks, Saves

(* A step that writes one task, one save or one tab.                       *)
LEMMA TaskWritten ==
    ASSUME TypeInv, NEW k \in Tasks, NEW r \in Task, task' = [task EXCEPT ![k] = r],
           r.at \in {"get", "lock", "closing", "load", "delete", "stale"} => r.project \in Project
    PROVE  /\ task' \in [Tasks -> Task]
           /\ \A j \in Tasks : task'[j].at \in {"get", "lock", "closing", "load", "delete", "stale"} =>
                 task'[j].project \in Project
BY DEF TypeInv, TypeOK

LEMMA GoesTyped ==
    ASSUME TypeInv, NEW k \in Tasks, NEW at \in {"idle", "load", "closing", "closing only"},
           Goes(k, at), task[k].project \in Project \/ at = "closing only"
    PROVE  /\ task' \in [Tasks -> Task]
           /\ \A j \in Tasks : task'[j].at \in {"get", "lock", "closing", "load", "delete", "stale"} =>
                 task'[j].project \in Project
<1> DEFINE r == [task[k] EXCEPT !.at = at]
<1>1. task[k] \in Task
  BY DEF TypeInv, TypeOK
<1>2. r \in Task /\ r.at = at /\ r.project = task[k].project
  BY <1>1 DEF Task
<1>3. task' = [task EXCEPT ![k] = r]
  BY DEF Goes
<1> HIDE DEF r
<1> QED
  BY <1>2, <1>3, TaskWritten

LEMMA SaveWritten ==
    ASSUME TypeInv, NEW w \in Saves, NEW r \in Save, save' = [save EXCEPT ![w] = r],
           r.at # "idle" => r.project \in Project
    PROVE  /\ save' \in [Saves -> Save]
           /\ \A v \in Saves : save'[v].at # "idle" => save'[v].project \in Project
BY DEF TypeInv, TypeOK

LEMMA InitType == Init => TypeInv
BY Records DEF Init, TypeInv, TypeOK, Manager, NoTask, NoSave

LEMMA TabType ==
    ASSUME TypeInv, NEW t \in Tab
    PROVE  /\ tab[t] \in Manager
           /\ tab[t].active \in Project \cup {None} /\ tab[t].handle \in Project \cup {None}
           /\ tab[t].fs \subseteq Change /\ tab[t].pending \subseteq Change
           /\ StopAutoSave(tab[t]) \in Manager
BY DEF TypeInv, TypeOK, Manager, StopAutoSave

LEMMA SaveType ==
    ASSUME TypeInv, NEW w \in Saves
    PROVE  /\ save[w] \in Save
           /\ save[w].content \subseteq Change /\ save[w].changes \subseteq Change
           /\ save[w].project \in Project \cup {None} /\ save[w].whole \in BOOLEAN
BY DEF TypeInv, TypeOK, Save

LEMMA ReleasedType ==
    ASSUME TypeInv, NEW h \in Project \cup {None}
    PROVE  Released(h) \in [Project -> Tab \cup {None}]
BY DEF TypeInv, TypeOK, Released

(* What the primed variables of a step must satisfy, one by one.           *)
LEMMA OverlapsType ==
    ASSUME TypeInv, NEW p, Overlaps(p)
    PROVE  forgone' \subseteq Change
BY DEF TypeInv, TypeOK, Overlaps, MadeIn

LEMMA SavesAllType ==
    ASSUME TypeInv, NEW m, SavesAll(m)
    PROVE  forgone' \subseteq Change
BY OverlapsType DEF TypeInv, TypeOK, SavesAll, MadeIn

(* The save of a project that is closed.                                   *)
Whole(p, fs) == [NoSave EXCEPT !.at = "put", !.project = p, !.content = fs]

LEMMA WholeRecord ==
    ASSUME NEW p \in Project, NEW fs \in SUBSET Change
    PROVE  /\ Whole(p, fs) \in Save
           /\ Whole(p, fs).at = "put" /\ Whole(p, fs).project = p
           /\ Whole(p, fs).content = fs /\ Whole(p, fs).changes = {}
           /\ Whole(p, fs).whole = FALSE
<1>1. NoSave \in Save /\ NoSave.changes = {} /\ NoSave.whole = FALSE
  BY DEF NoSave, Save
<1> QED
  BY <1>1 DEF Whole, Save

LEMMA ClosesType ==
    ASSUME TypeInv, NEW k \in Tasks, NEW at \in {"closing", "closing only"}, Closes(k, at),
           tab[k[1]].active # None, task[k].project \in Project \/ at = "closing only"
    PROVE  /\ task' \in [Tasks -> Task] /\ save' \in [Saves -> Save] /\ forgone' \subseteq Change
           /\ \A j \in Tasks : task'[j].at \in {"get", "lock", "closing", "load", "delete", "stale"} =>
                 task'[j].project \in Project
           /\ \A w \in Saves : save'[w].at # "idle" => save'[w].project \in Project
<1> DEFINE m == tab[k[1]]
<1>1. m.active \in Project /\ m.fs \subseteq Change /\ k \in Saves
  BY Records, TabType
<1>2. /\ save' = [save EXCEPT ![k] = Whole(m.active, m.fs)]
      /\ SavesAll(m) /\ Goes(k, at)
  BY DEF Closes, Whole
<1> HIDE DEF m
<1> DEFINE r == Whole(m.active, m.fs)
<1>3. r \in Save /\ r.project \in Project
  BY ZenonT(30), <1>1, WholeRecord
<1>4. save' = [save EXCEPT ![k] = r]
  BY <1>2
<1> HIDE DEF r
<1>5. /\ save' \in [Saves -> Save]
      /\ \A w \in Saves : save'[w].at # "idle" => save'[w].project \in Project
  BY <1>1, <1>3, <1>4, SaveWritten
<1>6. forgone' \subseteq Change
  BY <1>2, SavesAllType
<1>7. /\ task' \in [Tasks -> Task]
      /\ \A j \in Tasks : task'[j].at \in {"get", "lock", "closing", "load", "delete", "stale"} =>
            task'[j].project \in Project
  BY <1>2, GoesTyped
<1> QED
  BY <1>5, <1>6, <1>7

LEMMA SaveEndsType ==
    ASSUME TypeInv, NEW w \in Saves, SaveEnds(w) \/ SaveFails(w)
    PROVE  /\ save' \in [Saves -> Save] /\ live' \subseteq Project
           /\ files' = files
           /\ \A v \in Saves : save'[v].at # "idle" => save'[v].project \in Project
<1>1. save' = [save EXCEPT ![w] = NoSave] /\ NoSave \in Save /\ NoSave.at = "idle"
  BY Records DEF SaveEnds, SaveFails, NoSave
<1>2. live' \subseteq Project /\ files' = files
  BY DEF SaveEnds, SaveFails, store, TypeInv, TypeOK
<1> QED
  BY <1>1, <1>2, SaveWritten

(* A task at its end.                                                      *)
LEMMA EndsType ==
    ASSUME TypeInv, NEW k \in Tasks, Ends(k)
    PROVE  /\ task' \in [Tasks -> Task]
           /\ \A j \in Tasks : task'[j].at \in {"get", "lock", "closing", "load", "delete", "stale"} =>
                 task'[j].project \in Project
<1>1. NoTask \in Task /\ NoTask.at = "idle"
  BY Records DEF NoTask
<1>2. task' = [task EXCEPT ![k] = NoTask]
  BY DEF Ends
<1> QED
  BY <1>1, <1>2, TaskWritten

(* A task that starts, or goes on to another project.                      *)
LEMMA TaskRecord ==
    ASSUME NEW p \in Project, NEW others \in SUBSET Project,
           NEW at \in {"get", "lock", "delete", "stale", "list"}
    PROVE  /\ [at |-> at, project |-> p, others |-> others] \in Task
           /\ [NoTask EXCEPT !.at = at, !.project = p] \in Task
           /\ [NoTask EXCEPT !.at = at, !.project = p].project = p
           /\ [NoTask EXCEPT !.at = at, !.project = p].at = at
           /\ [NoTask EXCEPT !.at = at] \in Task
           /\ [NoTask EXCEPT !.at = at].at = at
BY DEF NoTask, Task

LEMMA GetProjectType ==
    ASSUME TypeInv, NEW k \in Tasks, NEW p \in Project, GetProject(k, p)
    PROVE  /\ task' \in [Tasks -> Task]
           /\ \A j \in Tasks : task'[j].at \in {"get", "lock", "closing", "load", "delete", "stale"} =>
                 task'[j].project \in Project
<1> DEFINE r == [task[k] EXCEPT !.at = "lock", !.project = p]
<1>1. task[k] \in Task
  BY DEF TypeInv, TypeOK
<1>2. r \in Task /\ r.project = p
  BY <1>1 DEF Task
<1>3. task' = [task EXCEPT ![k] = r] \/ Ends(k)
  BY DEF GetProject
<1> HIDE DEF r
<1> QED
  BY <1>2, <1>3, TaskWritten, EndsType

LEMMA DiscardType ==
    ASSUME TypeInv, NEW t \in Tab, Discard(t)
    PROVE  /\ task' \in [Tasks -> Task]
           /\ \A j \in Tasks : task'[j].at \in {"get", "lock", "closing", "load", "delete", "stale"} =>
                 task'[j].project \in Project
           /\ holder' \in [Project -> Tab \cup {None}]
           /\ tab' \in [Tab -> Manager]
           /\ forgone' \subseteq Change /\ crossed' \subseteq Tab /\ stuck' \subseteq Tab \X Project
<1> DEFINE r == [NoTask EXCEPT !.at = "list"]
           m == [StopAutoSave(tab[t]) EXCEPT !.handle = None, !.active = None, !.fs = {}]
<1>1. r \in Task /\ r.at = "list"
  BY DEF NoTask, Task
<1>2. StopAutoSave(tab[t]) \in Manager
  BY TabType
<1>3. m \in Manager
  BY <1>2 DEF Manager
<1>4. /\ task' = [task EXCEPT ![<<t, "recovery">>] = r] /\ tab' = [tab EXCEPT ![t] = m]
      /\ holder' = Released(tab[t].handle) /\ forgone' = forgone \cup tab[t].fs
      /\ crossed' \in {crossed, crossed \cup {t}} /\ stuck' \subseteq stuck
  BY DEF Discard, Releases, TypeInv, TypeOK
<1> HIDE DEF r, m
<1>5. /\ task' \in [Tasks -> Task]
      /\ \A j \in Tasks : task'[j].at \in {"get", "lock", "closing", "load", "delete", "stale"} =>
            task'[j].project \in Project
  BY <1>1, <1>4, TaskWritten, Records
<1>6. holder' \in [Project -> Tab \cup {None}]
  BY <1>4, TabType, ReleasedType
<1>7. /\ tab' \in [Tab -> Manager] /\ forgone' \subseteq Change
      /\ crossed' \subseteq Tab /\ stuck' \subseteq Tab \X Project
  BY <1>3, <1>4, TabType DEF TypeInv, TypeOK
<1> QED
  BY <1>5, <1>6, <1>7
-----------------------------------------------------------------------------
(* The parts of the type invariant that a step may write.                  *)
TasksTyped ==
    /\ task \in [Tasks -> Task]
    /\ \A k \in Tasks : task[k].at \in {"get", "lock", "closing", "load", "delete", "stale"} =>
          task[k].project \in Project

SavesTyped ==
    /\ save \in [Saves -> Save]
    /\ \A w \in Saves : save[w].at # "idle" => save[w].project \in Project

LEMMA TypeParts ==
    TypeInv <=>
        /\ TasksTyped /\ SavesTyped
        /\ live \subseteq Project /\ files \in [Project -> SUBSET Change]
        /\ holder \in [Project -> Tab \cup {None}] /\ tab \in [Tab -> Manager]
        /\ news \subseteq Tab \X Project /\ home \in [Change -> Project \cup {None}]
        /\ forgone \subseteq Change
        /\ crossed \subseteq Tab /\ stuck \subseteq Tab \X Project /\ late \subseteq Tab
BY DEF TypeInv, TypeOK, TasksTyped, SavesTyped

(* Each step keeps the types.                                              *)
LEMMA TypeStep == TypeInv /\ [Next]_vars => TypeInv'
<1> SUFFICES ASSUME TypeInv, [Next]_vars
             PROVE  TypeInv'
  OBVIOUS
<1> USE Records
<1>0. /\ TasksTyped /\ SavesTyped
      /\ live \subseteq Project /\ files \in [Project -> SUBSET Change]
      /\ holder \in [Project -> Tab \cup {None}] /\ tab \in [Tab -> Manager]
      /\ news \subseteq Tab \X Project /\ home \in [Change -> Project \cup {None}]
      /\ forgone \subseteq Change
      /\ crossed \subseteq Tab /\ stuck \subseteq Tab \X Project /\ late \subseteq Tab
  BY TypeParts
<1>1. ASSUME NEW t \in Tab, NEW c \in Change, NEW remote \in BOOLEAN, Edit(t, c, remote)
      PROVE  TypeInv'
  <2> DEFINE listens == tab[t].autosaves = tab[t].active
             m == [tab[t] EXCEPT !.fs = @ \cup {c},
                                 !.pending = IF listens /\ ~remote THEN @ \cup {c} ELSE @,
                                 !.remote = @ \/ (listens /\ remote)]
  <2>1. tab[t] \in Manager /\ tab[t].active \in Project
    BY <1>1, TabType DEF Edit
  <2>2. m \in Manager
    BY ZenonT(30), <2>1 DEF Manager
  <2>3. /\ tab' = [tab EXCEPT ![t] = m] /\ home' = [home EXCEPT ![c] = tab[t].active]
        /\ forgone' \in {forgone, forgone \cup {c}}
        /\ UNCHANGED <<live, files, holder, task, save, news, crossed, stuck, late>>
    BY <1>1 DEF Edit, store
  <2> HIDE DEF m, listens
  <2> QED
    BY <1>0, <2>1, <2>2, <2>3, TypeParts DEF TypeInv, TypeOK
<1>2. ASSUME NEW t \in Tab, NEW i \in Flush, FlushAutoSave(t, i)
      PROVE  TypeInv'
  <2> DEFINE m == tab[t]
             r == [at |-> IF m.remote THEN "put" ELSE "load", project |-> m.active,
                   content |-> m.fs, changes |-> m.pending, whole |-> m.remote]
             n == [m EXCEPT !.pending = {}, !.remote = FALSE]
  <2>1. m \in Manager /\ m.active \in Project
    BY <1>2, TabType DEF FlushAutoSave
  <2>2. r \in Save /\ r.project \in Project /\ n \in Manager
    BY <2>1 DEF Manager, Save
  <2>3. /\ save' = [save EXCEPT ![<<t, i>>] = r] /\ tab' = [tab EXCEPT ![t] = n]
        /\ forgone' \in {forgone, forgone \cup MadeIn(m.active)}
        /\ UNCHANGED <<live, files, holder, task, news, home, crossed, stuck, late>>
    BY ZenonT(30), <1>2 DEF FlushAutoSave, store, SavesAll, Overlaps
  <2>4. forgone' \subseteq Change
    BY <1>0, <2>3 DEF MadeIn
  <2> HIDE DEF m, r, n
  <2>5. SavesTyped'
    BY <2>2, <2>3, SaveWritten DEF SavesTyped
  <2> QED
    BY <1>0, <2>2, <2>3, <2>4, <2>5 DEF TypeInv, TypeOK, TasksTyped, SavesTyped
<1>3. ASSUME NEW t \in Tab, NEW i \in Flush, Flushed(t, i)
      PROVE  TypeInv'
  BY <1>0, <1>3, SaveEndsType
     DEF Flushed, TypeInv, TypeOK, TasksTyped, SavesTyped, history
<1>4. ASSUME NEW t \in Tab, NEW i \in Flush, FlushFails(t, i)
      PROVE  TypeInv'
  <2> DEFINE s == save[<<t, i>>]
             n == [tab[t] EXCEPT !.pending = @ \cup s.changes, !.remote = @ \/ s.whole]
             r == [NoTask EXCEPT !.at = "stale", !.project = s.project]
  <2>1. SaveFails(<<t, i>>) /\ s.at # "idle" /\ s.project \in Project
        /\ s.changes \subseteq Change /\ s.whole \in BOOLEAN /\ tab[t] \in Manager
    BY <1>4, TabType, SaveType DEF FlushFails, SaveFails, TypeInv
  <2>2. n \in Manager
    BY <2>1 DEF Manager
  <2>3. r \in Task /\ r.project \in Project
    <3>1. s.project \in Project
      BY <2>1
    <3> HIDE DEF s
    <3> QED
      BY ZenonT(30), <3>1, TaskRecord
  <2>4. /\ tab' = [tab EXCEPT ![t] = n]
        /\ UNCHANGED <<holder, news, home, forgone, crossed, stuck, late, live, files>>
    <3>1. tab' = [tab EXCEPT ![t].pending = @ \cup s.changes, ![t].remote = @ \/ s.whole]
      BY <1>4 DEF FlushFails
    <3>2. tab' = [tab EXCEPT ![t] = n]
      BY <1>0, <2>1, <3>1 DEF Manager
    <3>3. UNCHANGED <<holder, news, home, forgone, crossed, stuck, late, live, files>>
      BY <1>4 DEF FlushFails, SaveFails, history, store
    <3> QED
      BY <3>2, <3>3
  <2>7. task' = task \/ task' = [task EXCEPT ![<<t, "recovery">>] = r]
    BY <1>4 DEF FlushFails
  <2> HIDE DEF n, s, r
  <2>5. SavesTyped'
    BY <2>1, SaveEndsType DEF SavesTyped
  <2>6. TasksTyped'
    BY <1>0, <2>3, <2>7, TaskWritten DEF TasksTyped
  <2> QED
    BY <1>0, <2>2, <2>4, <2>5, <2>6 DEF TypeInv, TypeOK, TasksTyped, SavesTyped
<1>5. ASSUME NEW t \in Tab, NEW p \in Project, Open(t, p)
      PROVE  TypeInv'
  BY <1>0, <1>5, GetProjectType
     DEF Open, TypeInv, TypeOK, TasksTyped, SavesTyped, store, history
<1>6. ASSUME NEW t \in Tab, NEW p \in Project, Delete(t, p)
      PROVE  TypeInv'
  <2> DEFINE r == [NoTask EXCEPT !.at = "delete", !.project = p]
  <2>1. r \in Task /\ r.project = p
    BY TaskRecord
  <2>2. /\ task' = [task EXCEPT ![<<t, "user">>] = r]
        /\ UNCHANGED <<live, files, holder, tab, save, news, home, forgone, crossed, stuck, late>>
    BY <1>6 DEF Delete, store, history
  <2> HIDE DEF r
  <2>3. TasksTyped'
    BY <2>1, <2>2, TaskWritten DEF TasksTyped
  <2> QED
    BY <1>0, <2>2, <2>3 DEF TypeInv, TypeOK, TasksTyped, SavesTyped
<1>7. ASSUME NEW t \in Tab, NEW p \in Project, Tombstoned(t, p)
      PROVE  TypeInv'
  <2>1. \/ UNCHANGED <<holder, tab, task, forgone, crossed, stuck>>
        \/ Discard(t)
    BY <1>7 DEF Tombstoned
  <2>2. news' \subseteq news /\ UNCHANGED <<live, files, save, home, late>>
    BY <1>7 DEF Tombstoned, store
  <2> QED
    BY <1>0, <2>1, <2>2, DiscardType DEF TypeInv, TypeOK, TasksTyped, SavesTyped
<1>8. ASSUME NEW t \in Tab, Close(t)
      PROVE  TypeInv'
  <2>1. /\ Closes(<<t, "user">>, "closing only") /\ tab[t].active # None
        /\ crossed' \in {crossed, crossed \cup {t}}
        /\ UNCHANGED <<live, files, holder, tab, news, home, stuck, late>>
    BY <1>8 DEF Close, store
  <2>2. TasksTyped' /\ SavesTyped' /\ forgone' \subseteq Change
    BY <2>1, ClosesType DEF TasksTyped, SavesTyped
  <2> QED
    BY <1>0, <2>1, <2>2 DEF TypeInv, TypeOK, TasksTyped, SavesTyped
<1>9. ASSUME NEW t \in Tab, Closed(t)
      PROVE  TypeInv'
  <2> DEFINE n == [StopAutoSave(tab[t]) EXCEPT !.handle = None, !.active = None, !.fs = {}]
  <2>1. StopAutoSave(tab[t]) \in Manager
    BY TabType
  <2>2. n \in Manager
    BY <2>1 DEF Manager
  <2>3. /\ SaveEnds(<<t, "user">>) /\ Ends(<<t, "user">>)
        /\ holder' = Released(tab[t].handle) /\ tab' = [tab EXCEPT ![t] = n]
        /\ stuck' \subseteq stuck
        /\ UNCHANGED <<news, home, forgone, crossed, late>>
    BY <1>9 DEF Closed, Releases
  <2> HIDE DEF n
  <2>4. TasksTyped' /\ SavesTyped' /\ live' \subseteq Project /\ files' = files
    BY <2>3, SaveEndsType, EndsType DEF TasksTyped, SavesTyped
  <2>5. holder' \in [Project -> Tab \cup {None}]
    BY <2>3, TabType, ReleasedType
  <2> QED
    BY <1>0, <2>2, <2>3, <2>4, <2>5 DEF TypeInv, TypeOK, TasksTyped, SavesTyped
<1>10. ASSUME NEW t \in Tab, DeleteProject(t)
       PROVE  TypeInv'
  <2>1. /\ task[<<t, "user">>].project \in Project /\ Ends(<<t, "user">>)
        /\ live' = live \ {task[<<t, "user">>].project}
        /\ news' = news \cup ((Tab \ {t}) \X {task[<<t, "user">>].project})
        /\ crossed' \in {crossed, crossed \cup {t}}
        /\ UNCHANGED <<files, holder, tab, save, home, forgone, stuck, late>>
    BY <1>10 DEF DeleteProject, TypeInv
  <2>2. TasksTyped'
    BY <2>1, EndsType DEF TasksTyped
  <2> QED
    BY <1>0, <2>1, <2>2 DEF TypeInv, TypeOK, TasksTyped, SavesTyped
<1>11. ASSUME NEW t \in Tab, OpenNext(t)
       PROVE  TypeInv'
  <2>1. /\ task[<<t, "recovery">>].project \in Project
        /\ GetProject(<<t, "recovery">>, task[<<t, "recovery">>].project)
        /\ UNCHANGED <<live, files, holder, tab, save, news, home, forgone, crossed, stuck, late>>
    BY <1>11 DEF OpenNext, TypeInv, store, history
  <2>2. TasksTyped'
    BY <2>1, GetProjectType DEF TasksTyped
  <2> QED
    BY <1>0, <2>1, <2>2 DEF TypeInv, TypeOK, TasksTyped, SavesTyped
<1>12. ASSUME NEW t \in Tab, LookForStale(t)
       PROVE  TypeInv'
  <2>1. \/ Ends(<<t, "recovery">>) /\ UNCHANGED <<holder, tab, forgone, crossed, stuck>>
        \/ Discard(t)
    BY <1>12 DEF LookForStale
  <2>2. UNCHANGED <<live, files, save, news, home, late>>
    BY <1>12 DEF LookForStale, store
  <2>3. CASE Ends(<<t, "recovery">>) /\ UNCHANGED <<holder, tab, forgone, crossed, stuck>>
    BY <1>0, <2>2, <2>3, EndsType DEF TypeInv, TypeOK, TasksTyped, SavesTyped
  <2>4. CASE Discard(t)
    BY <1>0, <2>2, <2>4, DiscardType DEF TypeInv, TypeOK, TasksTyped, SavesTyped
  <2> QED
    BY <2>1, <2>3, <2>4
<1>13. ASSUME NEW t \in Tab, ListProjects(t)
       PROVE  TypeInv'
  <2>1. UNCHANGED <<live, files, holder, tab, save, news, home, forgone, crossed, stuck, late>>
    BY <1>13 DEF ListProjects, store, history
  <2>2. CASE Ends(<<t, "recovery">>)
    BY <1>0, <2>1, <2>2, EndsType DEF TypeInv, TypeOK, TasksTyped, SavesTyped
  <2>3. ASSUME NEW p \in live,
               task' = [task EXCEPT ![<<t, "recovery">>] =
                   [at |-> "get", project |-> p, others |-> live \ {p}]]
        PROVE  TypeInv'
    <3> DEFINE r == [at |-> "get", project |-> p, others |-> live \ {p}]
    <3>1. r \in Task /\ r.project \in Project
      BY <1>0, TaskRecord
    <3> HIDE DEF r
    <3>2. TasksTyped'
      BY <2>3, <3>1, TaskWritten DEF TasksTyped, r
    <3> QED
      BY <1>0, <2>1, <3>2 DEF TypeInv, TypeOK, TasksTyped, SavesTyped
  <2> QED
    BY <1>13, <2>2, <2>3 DEF ListProjects
<1>14. ASSUME NEW w \in Saves, SaveStep(w)
       PROVE  TypeInv'
  <2> DEFINE s == save[w]
  <2>1. s \in Save /\ s.at # "idle" /\ s.project \in Project
    BY <1>14, SaveType DEF SaveStep, TypeInv
  <2>2. UNCHANGED <<live, holder, tab, task, news, home, forgone, crossed, stuck, late>>
    BY <1>14 DEF SaveStep, history
  <2>3. CASE s.at = "load"
    <3> DEFINE r == [s EXCEPT !.at = "put", !.content = files[s.project] \cup s.changes]
    <3>1. files[s.project] \subseteq Change /\ s.changes \subseteq Change
      BY <1>0, <2>1, SaveType
    <3>2. r \in Save /\ r.project \in Project
      BY <2>1, <3>1 DEF Save
    <3>3. save' = [save EXCEPT ![w] = r] /\ files' = files
      BY <1>14, <2>3 DEF SaveStep
    <3> HIDE DEF r, s
    <3>4. SavesTyped'
      BY <3>2, <3>3, SaveWritten DEF SavesTyped
    <3> QED
      BY <1>0, <2>2, <3>3, <3>4 DEF TypeInv, TypeOK, TasksTyped, SavesTyped
  <2>4. CASE s.at # "load"
    <3> DEFINE r == [s EXCEPT !.at = "touch"]
    <3>1. r \in Save /\ r.project \in Project /\ s.content \subseteq Change
      BY <2>1, SaveType DEF Save
    <3>2. save' = [save EXCEPT ![w] = r] /\ files' = [files EXCEPT ![s.project] = s.content]
      BY <1>14, <2>4 DEF SaveStep
    <3> HIDE DEF r, s
    <3>3. SavesTyped'
      BY <3>1, <3>2, SaveWritten DEF SavesTyped
    <3> QED
      BY <1>0, <2>2, <3>1, <3>2, <3>3 DEF TypeInv, TypeOK, TasksTyped, SavesTyped
  <2> QED
    BY <2>3, <2>4
<1>15. ASSUME NEW k \in Tasks, Granted(k)
       PROVE  TypeInv'
  <2> DEFINE p == task[k].project
  <2>1. p \in Project /\ k[1] \in Tab
    BY <1>15 DEF Granted, TypeInv
  <2>2. /\ holder' = [holder EXCEPT ![p] = k[1]]
        /\ crossed' \in {crossed, crossed \cup {k[1]}}
        /\ UNCHANGED <<live, files, news, home, stuck, late>>
    BY <1>15 DEF Granted, store
  <2>3. CASE tab[k[1]].active # None
    <3>1. Closes(k, "closing") /\ tab' = tab
      BY <1>15, <2>3 DEF Granted
    <3>2. TasksTyped' /\ SavesTyped' /\ forgone' \subseteq Change
      BY <2>1, <2>3, <3>1, ClosesType DEF TasksTyped, SavesTyped
    <3> QED
      BY <1>0, <2>1, <2>2, <3>1, <3>2 DEF TypeInv, TypeOK, TasksTyped, SavesTyped
  <2>4. CASE tab[k[1]].active = None
    <3> DEFINE n == [tab[k[1]] EXCEPT !.handle = p]
    <3>1. n \in Manager
      BY <2>1, TabType DEF Manager
    <3>2. Goes(k, "load") /\ tab' = [tab EXCEPT ![k[1]] = n] /\ UNCHANGED <<save, forgone>>
      BY <1>15, <2>4 DEF Granted
    <3>3. TasksTyped'
      BY <2>1, <3>2, GoesTyped DEF TasksTyped
    <3> HIDE DEF n, p
    <3> QED
      BY <1>0, <2>1, <2>2, <3>1, <3>2, <3>3 DEF TypeInv, TypeOK, TasksTyped, SavesTyped
  <2> QED
    BY <2>3, <2>4
<1>16. ASSUME NEW k \in Tasks, Denied(k)
       PROVE  TypeInv'
  <2>1. UNCHANGED <<live, files, holder, tab, save, news, home, forgone, crossed, stuck, late>>
    BY <1>16 DEF Denied, store, history
  <2>2. CASE Ends(k)
    BY <1>0, <2>1, <2>2, EndsType DEF TypeInv, TypeOK, TasksTyped, SavesTyped
  <2>3. ASSUME NEW p \in task[k].others,
               task' = [task EXCEPT ![k] =
                   [at |-> "get", project |-> p, others |-> task[k].others \ {p}]]
        PROVE  TypeInv'
    <3> DEFINE r == [at |-> "get", project |-> p, others |-> task[k].others \ {p}]
    <3>1. task[k].others \subseteq Project
      BY DEF TypeInv, TypeOK, Task
    <3>2. r \in Task /\ r.project \in Project
      BY <3>1, TaskRecord
    <3> HIDE DEF r
    <3>3. TasksTyped'
      BY <2>3, <3>2, TaskWritten DEF TasksTyped, r
    <3> QED
      BY <1>0, <2>1, <3>3 DEF TypeInv, TypeOK, TasksTyped, SavesTyped
  <2> QED
    BY <1>16, <2>2, <2>3 DEF Denied
<1>17. ASSUME NEW k \in Tasks, ClosedForNext(k)
       PROVE  TypeInv'
  <2> DEFINE n == [StopAutoSave(tab[k[1]]) EXCEPT !.handle = task[k].project]
  <2>1. StopAutoSave(tab[k[1]]) \in Manager /\ task[k].project \in Project
    BY <1>17, TabType DEF ClosedForNext, TypeInv
  <2>2. n \in Manager
    BY <2>1 DEF Manager
  <2>3. /\ SaveEnds(k) /\ Goes(k, "load")
        /\ holder' = Released(tab[k[1]].handle) /\ tab' = [tab EXCEPT ![k[1]] = n]
        /\ stuck' \subseteq stuck
        /\ UNCHANGED <<news, home, forgone, crossed, late>>
    BY <1>17 DEF ClosedForNext, Releases
  <2> HIDE DEF n
  <2>4. TasksTyped' /\ SavesTyped' /\ live' \subseteq Project /\ files' = files
    BY <2>1, <2>3, SaveEndsType, GoesTyped DEF TasksTyped, SavesTyped
  <2>5. holder' \in [Project -> Tab \cup {None}]
    BY <2>3, TabType, ReleasedType
  <2> QED
    BY <1>0, <2>2, <2>3, <2>4, <2>5 DEF TypeInv, TypeOK, TasksTyped, SavesTyped
<1>18. ASSUME NEW k \in Tasks, CloseFails(k)
       PROVE  TypeInv'
  <2>1. /\ SaveFails(k) /\ Ends(k) /\ stuck' \subseteq Tab \X Project
        /\ UNCHANGED <<holder, tab, news, home, forgone, crossed, late>>
    BY <1>0, <1>18 DEF CloseFails, TypeInv
  <2>2. TasksTyped' /\ SavesTyped' /\ live' \subseteq Project /\ files' = files
    BY <2>1, SaveEndsType, EndsType DEF TasksTyped, SavesTyped
  <2> QED
    BY <1>0, <2>1, <2>2 DEF TypeInv, TypeOK, TasksTyped, SavesTyped
<1>19. ASSUME NEW k \in Tasks, Opened(k)
       PROVE  TypeInv'
  <2> DEFINE p == task[k].project
             n == [tab[k[1]] EXCEPT !.active = p, !.fs = files[p], !.autosaves = p]
  <2>1. p \in Project /\ k[1] \in Tab
    BY <1>19 DEF Opened, TypeInv
  <2>2. tab[k[1]] \in Manager /\ files[p] \subseteq Change
    BY <1>0, <2>1, TabType
  <2>3. n \in Manager
    BY <2>1, <2>2 DEF Manager
  <2>4. /\ Ends(k) /\ Overlaps(p) /\ tab' = [tab EXCEPT ![k[1]] = n]
        /\ late' \in {late \ {k[1]}, late \cup {k[1]}}
        /\ UNCHANGED <<live, files, holder, save, news, home, crossed, stuck>>
    BY ZenonT(30), <1>19 DEF Opened, store
  <2> HIDE DEF n, p
  <2>5. TasksTyped' /\ forgone' \subseteq Change
    BY <2>4, EndsType, OverlapsType DEF TasksTyped
  <2> QED
    BY <1>0, <2>1, <2>3, <2>4, <2>5 DEF TypeInv, TypeOK, TasksTyped, SavesTyped
<1>20. ASSUME NEW k \in Tasks, OpenFails(k)
       PROVE  TypeInv'
  <2>1. /\ Ends(k) /\ stuck' \subseteq Tab \X Project
        /\ UNCHANGED <<live, files, holder, tab, save, news, home, forgone, crossed, late>>
    BY <1>0, <1>20 DEF OpenFails, TypeInv, store
  <2>2. TasksTyped'
    BY <2>1, EndsType DEF TasksTyped
  <2> QED
    BY <1>0, <2>1, <2>2 DEF TypeInv, TypeOK, TasksTyped, SavesTyped
<1>21. CASE UNCHANGED vars
  BY <1>21 DEF TypeInv, TypeOK, vars, store, history
<1> QED
  BY <1>1, <1>2, <1>3, <1>4, <1>5, <1>6, <1>7, <1>8, <1>9, <1>10, <1>11, <1>12, <1>13, <1>14,
     <1>15, <1>16, <1>17, <1>18, <1>19, <1>20, <1>21
  DEF Next

LEMMA Typed == Spec => []TypeInv
BY InitType, TypeStep, PTL DEF Spec

(* Every variable of the project manager keeps its type.                   *)
THEOREM TypeCorrect == Spec => []TypeOK
<1>1. TypeInv => TypeOK
  BY DEF TypeInv
<1> QED
  BY <1>1, Typed, PTL

-----------------------------------------------------------------------------
(* Locks.  A handle is of a lock the tab holds, and so is the project that *)
(* an open is going to load, which is no other open's.  Only a task that   *)
(* closes a project saves it.  In a tab whose calls did not cross, at most *)
(* one task changes the manager: while it loads a project the tab has its  *)
(* handle and listens to nothing; otherwise the tab is settled, with one   *)
(* project active, locked and listened to, or none, or it listens to none  *)
(* and has the handle that a failed open has left.                         *)

Loading(t) == \E k \in Tasks : k[1] = t /\ task[k].at = "load"

HandleHeld == \A t \in Tab : tab[t].handle # None => holder[tab[t].handle] = t

ClosingHeld ==
    \A k \in Tasks : task[k].at = "closing" =>
        holder[task[k].project] = k[1] /\ tab[k[1]].handle # task[k].project

ClosingApart ==
    \A j, k \in Tasks :
        task[j].at = "closing" /\ task[k].at = "closing" /\ task[j].project = task[k].project => j = k

SavingCloses == \A k \in Tasks : save[k].at # "idle" => task[k].at \in {"closing", "closing only"}

OneSwitch ==
    \A j, k \in Tasks : j[1] = k[1] /\ j[1] \notin crossed /\ Switching(j) /\ Switching(k) => j = k

LoadsUnheard ==
    \A k \in Tasks : k[1] \notin crossed /\ task[k].at = "load" =>
        tab[k[1]].autosaves = None /\ tab[k[1]].handle = task[k].project

Settled ==
    \A t \in Tab \ crossed : ~Loading(t) =>
        \/ tab[t].handle = tab[t].active /\ tab[t].autosaves = tab[t].active
        \/ tab[t].autosaves = None /\ tab[t].handle # None /\ <<t, tab[t].handle>> \in stuck

HeldForReason ==
    \A p \in Project : \A t \in Tab \ crossed :
        holder[p] = t /\ <<t, p>> \notin stuck =>
            \/ tab[t].handle = p
            \/ \E k \in Tasks : k[1] = t /\ task[k].at = "closing" /\ task[k].project = p

LockInv ==
    /\ HandleHeld /\ ClosingHeld /\ ClosingApart /\ SavingCloses
    /\ OneSwitch /\ LoadsUnheard /\ Settled /\ HeldForReason

LEMMA InitLocks == Init => LockInv
<1> SUFFICES ASSUME Init
             PROVE  LockInv
  OBVIOUS
<1>1. /\ \A k \in Tasks : task[k].at = "idle" /\ save[k].at = "idle"
      /\ \A t \in Tab : tab[t].handle = None /\ tab[t].active = None /\ tab[t].autosaves = None
      /\ \A p \in Project : holder[p] = None
  BY Records DEF Init, NoTask, NoSave
<1>2. HandleHeld /\ ClosingHeld /\ ClosingApart /\ SavingCloses /\ OneSwitch
  BY <1>1 DEF HandleHeld, ClosingHeld, ClosingApart, SavingCloses, OneSwitch, Switching
<1>3. LoadsUnheard /\ Settled /\ HeldForReason
  BY <1>1, Records DEF LoadsUnheard, Settled, HeldForReason
<1> QED
  BY <1>2, <1>3 DEF LockInv

(* A step that leaves the locks and the fields for them alone, and at most *)
(* gives up an open that failed.                                           *)
LEMMA LocksApart ==
    ASSUME TypeInv, LockInv, holder' = holder,
           \A t \in Tab : /\ tab'[t].handle = tab[t].handle /\ tab'[t].active = tab[t].active
                          /\ tab'[t].autosaves = tab[t].autosaves,
           \A k \in Tasks :
              \/ task'[k] = task[k] /\ (save'[k].at # "idle" => save[k].at # "idle")
              \/ /\ ~Switching(k)'
                 /\ save[k].at # "idle" => save'[k].at = "idle"
                 /\ save'[k].at # "idle" => save[k].at # "idle"
                 /\ task[k].at \in {"closing", "load"} => <<k[1], task[k].project>> \in stuck',
           crossed \subseteq crossed', stuck \subseteq stuck'
    PROVE  LockInv'
<1>1. HandleHeld'
  BY DEF LockInv, HandleHeld
<1>6. \A k \in Tasks : task'[k].at = "closing" => task'[k] = task[k] /\ k[1] \in Tab
  BY Records DEF Switching
<1>7. ClosingHeld' /\ ClosingApart'
  BY <1>6 DEF LockInv, ClosingHeld, ClosingApart
<1>2. SavingCloses' /\ OneSwitch'
  BY Records DEF LockInv, SavingCloses, OneSwitch, Switching
<1>3. LoadsUnheard'
  <2> SUFFICES ASSUME NEW k \in Tasks, k[1] \notin crossed', task'[k].at = "load"
               PROVE  tab'[k[1]].autosaves = None /\ tab'[k[1]].handle = task'[k].project
    BY DEF LoadsUnheard
  <2>1. task'[k] = task[k] /\ k[1] \in Tab /\ k[1] \notin crossed
    BY Records DEF Switching
  <2> QED
    BY <2>1 DEF LockInv, LoadsUnheard
<1>4. Settled'
  <2> SUFFICES ASSUME NEW t \in Tab, t \notin crossed', ~Loading(t)'
               PROVE  \/ tab[t].handle = tab[t].active /\ tab[t].autosaves = tab[t].active
                      \/ /\ tab[t].autosaves = None /\ tab[t].handle # None
                         /\ <<t, tab[t].handle>> \in stuck'
    BY DEF Settled
  <2>1. CASE Loading(t)
    <3>1. PICK k \in Tasks : k[1] = t /\ task[k].at = "load"
      BY <2>1 DEF Loading
    <3>2. task'[k] # task[k]
      BY <3>1 DEF Loading
    <3>3. <<t, task[k].project>> \in stuck' /\ task[k].project \in Project
      BY <3>1, <3>2 DEF TypeInv
    <3>4. tab[t].autosaves = None /\ tab[t].handle = task[k].project
      BY <3>1 DEF LockInv, LoadsUnheard
    <3> QED
      BY <3>3, <3>4, Records
  <2>2. CASE ~Loading(t)
    BY <2>2 DEF LockInv, Settled
  <2> QED
    BY <2>1, <2>2
<1>5. HeldForReason'
  <2> SUFFICES ASSUME NEW p \in Project, NEW t \in Tab, t \notin crossed', <<t, p>> \notin stuck',
                      holder'[p] = t, tab'[t].handle # p
               PROVE  \E k \in Tasks : k[1] = t /\ task'[k].at = "closing" /\ task'[k].project = p
    BY DEF HeldForReason
  <2>1. PICK k \in Tasks : k[1] = t /\ task[k].at = "closing" /\ task[k].project = p
    BY DEF LockInv, HeldForReason
  <2> QED
    BY <2>1
<1> QED
  BY <1>1, <1>2, <1>3, <1>4, <1>5, <1>7 DEF LockInv

LEMMA Stopped ==
    ASSUME NEW m \in Manager
    PROVE  /\ StopAutoSave(m) \in Manager
           /\ StopAutoSave(m).active = m.active /\ StopAutoSave(m).handle = m.handle
           /\ StopAutoSave(m).fs = m.fs /\ StopAutoSave(m).autosaves = None
           /\ StopAutoSave(m).pending = {} /\ StopAutoSave(m).remote = FALSE
BY DEF StopAutoSave, Manager

(* The manager of a tab that has no project any more, or that of an open.  *)
LEMMA Emptied ==
    ASSUME NEW m \in Manager, NEW p \in Project \cup {None}
    PROVE  /\ LET n == [StopAutoSave(m) EXCEPT !.handle = p]
              IN  /\ n.handle = p /\ n.active = m.active /\ n.fs = m.fs
                  /\ n.autosaves = None /\ n.pending = {} /\ n.remote = FALSE
           /\ LET n == [StopAutoSave(m) EXCEPT !.handle = None, !.active = None, !.fs = {}]
              IN  /\ n.handle = None /\ n.active = None /\ n.fs = {}
                  /\ n.autosaves = None /\ n.pending = {} /\ n.remote = FALSE
<1> DEFINE s == StopAutoSave(m)
<1>1. /\ s \in Manager /\ s.active = m.active /\ s.fs = m.fs
      /\ s.autosaves = None /\ s.pending = {} /\ s.remote = FALSE
  BY Stopped
<1> HIDE DEF s
<1>2. LET n == [s EXCEPT !.handle = p]
      IN  /\ n.handle = p /\ n.active = m.active /\ n.fs = m.fs
          /\ n.autosaves = None /\ n.pending = {} /\ n.remote = FALSE
  BY <1>1 DEF Manager
<1>3. LET n == [s EXCEPT !.handle = None, !.active = None, !.fs = {}]
      IN  /\ n.handle = None /\ n.active = None /\ n.fs = {}
          /\ n.autosaves = None /\ n.pending = {} /\ n.remote = FALSE
  BY <1>1 DEF Manager
<1> QED
  BY <1>2, <1>3 DEF s

(* The lock of the project that a tab has closed goes to no other tab.     *)
LEMMA ReleasedLock ==
    ASSUME TypeInv, HandleHeld, NEW t \in Tab, NEW q \in Project
    PROVE  /\ q = tab[t].handle => Released(tab[t].handle)[q] = None
           /\ q # tab[t].handle => Released(tab[t].handle)[q] = holder[q]
           /\ \A u \in Tab \ {t} : holder[q] = u <=> Released(tab[t].handle)[q] = u
           /\ Released(tab[t].handle)[q] = t => holder[q] = t /\ q # tab[t].handle
BY Records DEF Released, HandleHeld, TypeInv, TypeOK

LEMMA CloseLocks ==
    ASSUME TypeInv, LockInv, NEW t \in Tab, Close(t)
    PROVE  LockInv'
<1> DEFINE k == <<t, "user">>
<1>0. /\ k \in Tasks /\ k[1] = t /\ task[k].at = "idle" /\ task[k] \in Task
      /\ task' = [task EXCEPT ![k].at = "closing only"]
      /\ UNCHANGED <<holder, tab, stuck>>
      /\ crossed' = IF Switching(<<t, "recovery">>) THEN crossed \cup {t} ELSE crossed
  BY Records DEF Close, Closes, Goes, TypeInv, TypeOK
<1>1. /\ \A w \in Tasks \ {k} : save'[w] = save[w] /\ task'[w] = task[w]
      /\ task'[k].at = "closing only"
  BY ZenonT(30), <1>0, Records DEF Close, Closes, TypeInv, TypeOK, Task
<1>2. \A j \in Tasks : (Switching(j)' /\ j # k => Switching(j)) /\ (task'[j].at = "load" <=> task[j].at = "load")
  BY <1>0, <1>1 DEF Switching
<1>3. \A j \in Tasks : j[1] = t /\ j # k => j = <<t, "recovery">>
  BY DEF Tasks
<1> HIDE DEF k
<1>4. HandleHeld' /\ ClosingHeld' /\ ClosingApart'
  BY ZenonT(30), <1>0, <1>1 DEF LockInv, HandleHeld, ClosingHeld, ClosingApart
<1>5. SavingCloses'
  BY <1>1 DEF LockInv, SavingCloses
<1>6. OneSwitch'
  <2> SUFFICES ASSUME NEW i \in Tasks, NEW j \in Tasks, i[1] = j[1], i[1] \notin crossed',
                      Switching(i)', Switching(j)', i # j, j # k
               PROVE  FALSE
    BY DEF OneSwitch
  <2>1. Switching(j) /\ i[1] \notin crossed
    BY <1>0, <1>2
  <2>2. CASE i = k
    BY <1>0, <1>3, <2>1, <2>2
  <2>3. CASE i # k
    BY <1>2, <2>1, <2>3 DEF LockInv, OneSwitch
  <2> QED
    BY <2>2, <2>3
<1>7. \A j \in Tasks : task'[j].at = "load" => task'[j] = task[j] /\ task[j].at = "load"
  BY <1>1
<1>8. LoadsUnheard'
  BY <1>0, <1>7 DEF LockInv, LoadsUnheard
<1>9. Settled'
  BY <1>0, <1>2 DEF LockInv, Settled, Loading
<1>10. HeldForReason'
  <2> SUFFICES ASSUME NEW p \in Project, NEW u \in Tab, u \notin crossed', <<u, p>> \notin stuck,
                      holder[p] = u, tab[u].handle # p
               PROVE  \E j \in Tasks : j[1] = u /\ task'[j].at = "closing" /\ task'[j].project = p
    BY ZenonT(30), <1>0 DEF HeldForReason
  <2>0. u \in Tab \ crossed
    BY <1>0
  <2>1. PICK j \in Tasks : j[1] = u /\ task[j].at = "closing" /\ task[j].project = p
    BY <2>0 DEF LockInv, HeldForReason
  <2> QED
    BY <1>0, <1>1, <2>1
<1> QED
  BY <1>4, <1>5, <1>6, <1>8, <1>9, <1>10 DEF LockInv

LEMMA GrantedLocks ==
    ASSUME TypeInv, LockInv, NEW k \in Tasks, Granted(k)
    PROVE  LockInv'
<1> DEFINE t == k[1]
           p == task[k].project
<1>1. /\ t \in Tab /\ p \in Project /\ p # None /\ t # None
      /\ task[k].at = "lock" /\ holder[p] = None /\ save[k].at = "idle"
      /\ holder' = [holder EXCEPT ![p] = t] /\ stuck' = stuck
      /\ crossed' = IF \E j \in Tasks : j[1] = t /\ Switching(j) THEN crossed \cup {t} ELSE crossed
  BY Records DEF Granted, TypeInv, LockInv, SavingCloses
<1>2. /\ holder'[p] = t
      /\ \A q \in Project : q # p => holder'[q] = holder[q]
      /\ \A q \in Project, u \in Tab : holder[q] = u => q # p /\ holder'[q] = u
      /\ \A u \in Tab : tab[u].handle # p
  BY <1>1, Records DEF TypeInv, TypeOK, LockInv, HandleHeld
<1>0. task[k] \in Task /\ task \in [Tasks -> Task] /\ save \in [Saves -> Save]
  BY DEF TypeInv, TypeOK
<1>16. /\ tab[t].active # None => Goes(k, "closing") /\ tab' = tab
       /\ tab[t].active = None =>
             Goes(k, "load") /\ tab' = [tab EXCEPT ![t].handle = p] /\ save' = save
  BY <1>1 DEF Granted, Closes
<1>17. \A j \in Tasks \ {k} : save'[j] = save[j]
  BY <1>0, <1>1, Records DEF Granted, Closes
<1>18. \A at \in {"closing", "load"} : Goes(k, at) =>
          /\ task'[k].at = at /\ task'[k].project = p
          /\ \A j \in Tasks \ {k} : task'[j] = task[j]
  BY ZenonT(30), <1>0 DEF Goes, Task
<1>3. /\ task'[k].at \in {"closing", "load"} /\ task'[k].project = p
      /\ \A j \in Tasks \ {k} : task'[j] = task[j] /\ save'[j] = save[j]
      /\ tab[t].active # None => task'[k].at = "closing" /\ tab' = tab
      /\ tab[t].active = None =>
            /\ task'[k].at = "load" /\ tab' = [tab EXCEPT ![t].handle = p] /\ save' = save
  BY <1>16, <1>17, <1>18
<1>4. /\ \A u \in Tab \ {t} : tab'[u] = tab[u]
      /\ tab'[t].active = tab[t].active /\ tab'[t].autosaves = tab[t].autosaves
      /\ tab'[t].handle \in {tab[t].handle, p}
      /\ tab[t].active = None => tab'[t].handle = p
  BY <1>1, <1>3 DEF TypeInv, TypeOK, Manager
<1> HIDE DEF t, p
<1>5. \A j \in Tasks : task[j].at = "closing" => j # k /\ task[j].project # p /\ task[j].project \in Project
  BY <1>1, Records DEF LockInv, ClosingHeld, TypeInv
<1>6. HandleHeld'
  BY <1>1, <1>2, <1>4, TabType DEF LockInv, HandleHeld
<1>7. ClosingHeld'
  <2> SUFFICES ASSUME NEW j \in Tasks, task'[j].at = "closing"
               PROVE  holder'[task'[j].project] = j[1] /\ tab'[j[1]].handle # task'[j].project
    BY DEF ClosingHeld
  <2>1. CASE j = k
    BY <1>1, <1>2, <1>3, <2>1 DEF t
  <2>2. CASE j # k
    <3>1. task'[j] = task[j] /\ j[1] \in Tab
      BY <1>3, <2>2, Records
    <3>2. holder[task[j].project] = j[1] /\ tab[j[1]].handle # task[j].project
      BY <3>1 DEF LockInv, ClosingHeld
    <3> QED
      BY <1>2, <1>4, <1>5, <3>1, <3>2
  <2> QED
    BY <2>1, <2>2
<1>8. ClosingApart'
  BY <1>3, <1>5 DEF LockInv, ClosingApart
<1>9. SavingCloses'
  BY <1>1, <1>3 DEF LockInv, SavingCloses
<1>10. t \notin crossed' => \A j \in Tasks : j[1] = t => ~Switching(j)
  BY <1>1
<1>11. OneSwitch'
  <2> SUFFICES ASSUME NEW i \in Tasks, NEW j \in Tasks, i[1] = j[1], i[1] \notin crossed',
                      Switching(i)', Switching(j)', i # j, j # k
               PROVE  FALSE
    BY DEF OneSwitch
  <2>1. Switching(j) /\ i[1] \notin crossed
    BY <1>1, <1>3 DEF Switching
  <2>2. CASE i = k
    BY <1>10, <2>1, <2>2 DEF t
  <2>3. CASE i # k
    <3>1. Switching(i)
      BY <1>3, <2>3 DEF Switching
    <3> QED
      BY <2>1, <3>1 DEF LockInv, OneSwitch
  <2> QED
    BY <2>2, <2>3
<1>12. t \notin crossed' => ~Loading(t) /\ t \notin crossed
  BY <1>1, <1>10 DEF Loading, Switching
<1>13. LoadsUnheard'
  <2> SUFFICES ASSUME NEW j \in Tasks, j[1] \notin crossed', task'[j].at = "load"
               PROVE  tab'[j[1]].autosaves = None /\ tab'[j[1]].handle = task'[j].project
    BY DEF LoadsUnheard
  <2>1. CASE j = k
    <3>1. tab[t].active = None /\ j[1] = t
      BY <1>3, <2>1 DEF t
    <3>2. tab[t].autosaves = None
      BY <1>1, <1>12, <2>1, <3>1 DEF LockInv, Settled
    <3> QED
      BY <1>3, <1>4, <2>1, <3>1, <3>2
  <2>2. CASE j # k
    <3>1. task'[j] = task[j] /\ j[1] \in Tab /\ j[1] \notin crossed
      BY <1>1, <1>3, <2>2, Records
    <3>2. j[1] # t
      BY <1>10, <3>1 DEF Switching
    <3> QED
      BY <1>4, <3>1, <3>2 DEF LockInv, LoadsUnheard
  <2> QED
    BY <2>1, <2>2
<1>14. Settled'
  <2> SUFFICES ASSUME NEW u \in Tab, u \notin crossed', ~Loading(u)'
               PROVE  \/ tab'[u].handle = tab'[u].active /\ tab'[u].autosaves = tab'[u].active
                      \/ /\ tab'[u].autosaves = None /\ tab'[u].handle # None
                         /\ <<u, tab'[u].handle>> \in stuck
    BY <1>1 DEF Settled
  <2>1. u \notin crossed /\ ~Loading(u)
    BY <1>1, <1>3 DEF Loading
  <2>2. \/ tab[u].handle = tab[u].active /\ tab[u].autosaves = tab[u].active
        \/ tab[u].autosaves = None /\ tab[u].handle # None /\ <<u, tab[u].handle>> \in stuck
    BY <2>1 DEF LockInv, Settled
  <2>3. CASE u # t
    BY <1>4, <2>2, <2>3
  <2>4. CASE u = t
    <3>1. task'[k].at = "closing" /\ tab' = tab
      BY <1>3, <2>4 DEF Loading, t
    <3> QED
      BY <2>2, <3>1
  <2> QED
    BY <2>3, <2>4
<1>15. HeldForReason'
  <2> SUFFICES ASSUME NEW q \in Project, NEW u \in Tab, u \notin crossed', <<u, q>> \notin stuck,
                      holder'[q] = u, tab'[u].handle # q
               PROVE  \E j \in Tasks : j[1] = u /\ task'[j].at = "closing" /\ task'[j].project = q
    BY <1>1 DEF HeldForReason
  <2>1. CASE q = p
    <3>1. u = t /\ task'[k].at = "closing"
      BY <1>1, <1>2, <1>3, <1>4, <2>1
    <3> QED
      BY <1>3, <2>1, <3>1 DEF t
  <2>2. CASE q # p
    <3>1. holder[q] = u /\ u \notin crossed
      BY <1>1, <1>2, <2>2
    <3>2. CASE tab[u].handle = q
      <4>1. tab'[u] # tab[u]
        BY <3>2
      <4>2. u = t /\ tab[t].active = None
        BY <1>3, <1>4, <4>1
      <4>3. tab[t].handle = None \/ <<t, tab[t].handle>> \in stuck
        BY <1>1, <1>12, <4>2 DEF LockInv, Settled
      <4> QED
        BY <3>2, <4>2, <4>3, Records
    <3>3. CASE tab[u].handle # q
      <4>1. PICK j \in Tasks : j[1] = u /\ task[j].at = "closing" /\ task[j].project = q
        BY <3>1, <3>3 DEF LockInv, HeldForReason
      <4> QED
        BY <1>3, <1>5, <4>1
    <3> QED
      BY <3>2, <3>3
  <2> QED
    BY <2>1, <2>2
<1> QED
  BY <1>6, <1>7, <1>8, <1>9, <1>11, <1>13, <1>14, <1>15 DEF LockInv

(* Task k of tab t releases the lock of the tab, and takes over the one it *)
(* was granted (first alternative) or ends with no project.                *)
LEMMA ReleaseLocks ==
    ASSUME TypeInv, LockInv, NEW t \in Tab, NEW k \in Tasks, k[1] = t,
           NEW h \in Project \cup {None},
           holder' = Released(tab[t].handle),
           \A u \in Tab \ {t} : tab'[u] = tab[u],
           tab'[t].handle = h, tab'[t].autosaves = None,
           \A j \in Tasks \ {k} : task'[j] = task[j],
           \A j \in Tasks : save'[j].at # "idle" => save[j].at # "idle" /\ j # k,
           stuck' = stuck \ {<<t, tab[t].handle>>}, crossed \subseteq crossed',
           t \notin crossed' => \A j \in Tasks \ {k} : j[1] = t => ~Switching(j),
           \/ /\ task[k].at = "closing" /\ h = task[k].project
              /\ task'[k].at = "load" /\ task'[k].project = h
           \/ /\ task[k].at # "closing" /\ h = None /\ tab'[t].active = None
              /\ ~Switching(k)'
    PROVE  LockInv'
<1> DEFINE TakesOver == /\ task[k].at = "closing" /\ h = task[k].project
                        /\ task'[k].at = "load" /\ task'[k].project = h
           Gone == /\ task[k].at # "closing" /\ h = None /\ tab'[t].active = None
                   /\ ~Switching(k)'
<1>1. TakesOver \/ Gone
  OBVIOUS
<1>2. task'[k].at # "closing"
  BY <1>1 DEF Switching
<1>3. \A j \in Tasks : task[j].at = "closing" => task[j].project \in Project
  BY DEF TypeInv
<1>4. \A q \in Project :
        /\ \A u \in Tab \ {t} : holder[q] = u <=> holder'[q] = u
        /\ q # tab[t].handle => holder'[q] = holder[q]
        /\ holder'[q] = t => holder[q] = t /\ q # tab[t].handle
  BY ReleasedLock DEF LockInv
<1>5. TakesOver => h \in Project /\ holder[h] = t /\ h # tab[t].handle
  BY <1>3 DEF LockInv, ClosingHeld
<1>6. \A j \in Tasks : j[1] \in Tab
  BY Records
<1>7. HandleHeld'
  <2> SUFFICES ASSUME NEW u \in Tab, tab'[u].handle # None
               PROVE  holder'[tab'[u].handle] = u
    BY DEF HandleHeld
  <2>1. CASE u = t
    BY <1>1, <1>4, <1>5, <2>1
  <2>2. CASE u # t
    BY <1>4, <2>2, TabType DEF LockInv, HandleHeld
  <2> QED
    BY <2>1, <2>2
<1>8. ClosingHeld'
  <2> SUFFICES ASSUME NEW j \in Tasks, task'[j].at = "closing"
               PROVE  holder'[task'[j].project] = j[1] /\ tab'[j[1]].handle # task'[j].project
    BY DEF ClosingHeld
  <2>1. j # k /\ task'[j] = task[j]
    BY <1>2
  <2>2. /\ task[j].project \in Project /\ holder[task[j].project] = j[1]
        /\ tab[j[1]].handle # task[j].project
    BY <1>3, <2>1 DEF LockInv, ClosingHeld
  <2>3. TakesOver => task[j].project # h
    BY <2>1 DEF LockInv, ClosingApart
  <2>4. CASE j[1] = t
    BY <1>1, <1>4, <2>1, <2>2, <2>3, <2>4, Records
  <2>5. CASE j[1] # t
    BY <1>4, <1>6, <2>1, <2>2, <2>5
  <2> QED
    BY <2>4, <2>5
<1>9. ClosingApart'
  BY <1>2 DEF LockInv, ClosingApart
<1>10. SavingCloses'
  BY DEF LockInv, SavingCloses
<1>11. OneSwitch'
  <2> SUFFICES ASSUME NEW i \in Tasks, NEW j \in Tasks, i[1] = j[1], i[1] \notin crossed',
                      Switching(i)', Switching(j)', i # j, j # k
               PROVE  FALSE
    BY DEF OneSwitch
  <2>1. Switching(j) /\ i[1] \notin crossed
    BY DEF Switching
  <2>2. i # k
    BY <2>1
  <2>3. Switching(i)
    BY <2>2 DEF Switching
  <2> QED
    BY <2>1, <2>3 DEF LockInv, OneSwitch
<1>12. LoadsUnheard'
  <2> SUFFICES ASSUME NEW j \in Tasks, j[1] \notin crossed', task'[j].at = "load"
               PROVE  tab'[j[1]].autosaves = None /\ tab'[j[1]].handle = task'[j].project
    BY DEF LoadsUnheard
  <2>1. CASE j = k
    BY <1>1, <2>1 DEF Switching
  <2>2. CASE j # k
    <3>1. task[j].at = "load" /\ task'[j] = task[j] /\ j[1] # t /\ j[1] \notin crossed
      BY <2>2 DEF Switching
    <3> QED
      BY <1>6, <3>1 DEF LockInv, LoadsUnheard
  <2> QED
    BY <2>1, <2>2
<1>13. Settled'
  <2> SUFFICES ASSUME NEW u \in Tab, u \notin crossed', ~Loading(u)'
               PROVE  \/ tab'[u].handle = tab'[u].active /\ tab'[u].autosaves = tab'[u].active
                      \/ /\ tab'[u].autosaves = None /\ tab'[u].handle # None
                         /\ <<u, tab'[u].handle>> \in stuck'
    BY DEF Settled
  <2>1. CASE u = t
    BY <1>1, <2>1 DEF Loading
  <2>2. CASE u # t
    <3>1. ~Loading(u) /\ u \notin crossed
      BY <2>2 DEF Loading
    <3> QED
      BY <2>2, <3>1 DEF LockInv, Settled
  <2> QED
    BY <2>1, <2>2
<1>14. HeldForReason'
  <2> SUFFICES ASSUME NEW q \in Project, NEW u \in Tab, u \notin crossed', <<u, q>> \notin stuck',
                      holder'[q] = u, tab'[u].handle # q
               PROVE  \E j \in Tasks : j[1] = u /\ task'[j].at = "closing" /\ task'[j].project = q
    BY DEF HeldForReason
  <2>2. holder[q] = u /\ tab[u].handle # q
    BY <1>4
  <2>1. u \in Tab \ crossed /\ <<u, q>> \notin stuck
    BY <2>2
  <2>3. PICK j \in Tasks : j[1] = u /\ task[j].at = "closing" /\ task[j].project = q
    BY <2>1, <2>2 DEF LockInv, HeldForReason
  <2>4. j # k
    BY <1>1, <2>3
  <2> QED
    BY <2>3, <2>4
<1> QED
  BY <1>7, <1>8, <1>9, <1>10, <1>11, <1>12, <1>13, <1>14 DEF LockInv

LEMMA ClosedForNextLocks ==
    ASSUME TypeInv, LockInv, NEW k \in Tasks, ClosedForNext(k)
    PROVE  LockInv'
<1> DEFINE t == k[1]
           p == task[k].project
           n == [StopAutoSave(tab[t]) EXCEPT !.handle = p]
<1>1. /\ t \in Tab /\ p \in Project /\ task[k].at = "closing" /\ k \in Saves
      /\ task[k] \in Task /\ tab[t] \in Manager
  BY Records, TabType DEF ClosedForNext, TypeInv, TypeOK
<1>2. /\ save' = [save EXCEPT ![k] = NoSave] /\ holder' = Released(tab[t].handle)
      /\ tab' = [tab EXCEPT ![t] = n] /\ task' = [task EXCEPT ![k].at = "load"]
      /\ stuck' = stuck \ {<<t, tab[t].handle>>} /\ crossed' = crossed
  BY DEF ClosedForNext, Releases, SaveEnds, Goes
<1>3. n.handle = p /\ n.autosaves = None
  BY <1>1, Emptied
<1> HIDE DEF n
<1>4. tab'[t] = n /\ \A u \in Tab \ {t} : tab'[u] = tab[u]
  BY <1>1, <1>2 DEF TypeInv, TypeOK
<1>5. /\ task'[k].at = "load" /\ task'[k].project = p
      /\ \A j \in Tasks \ {k} : task'[j] = task[j]
  BY <1>1, <1>2 DEF TypeInv, TypeOK, Task
<1>6. \A j \in Tasks : save'[j].at # "idle" => save[j].at # "idle" /\ j # k
  BY <1>1, <1>2, Records DEF TypeInv, TypeOK, NoSave
<1>7. t \notin crossed' => \A j \in Tasks \ {k} : j[1] = t => ~Switching(j)
  BY <1>1, <1>2 DEF LockInv, OneSwitch, Switching
<1> HIDE DEF t, p
<1> QED
  BY <1>1, <1>2, <1>3, <1>4, <1>5, <1>6, <1>7, ReleaseLocks DEF t, p

LEMMA ClosedLocks ==
    ASSUME TypeInv, LockInv, NEW t \in Tab, Closed(t)
    PROVE  LockInv'
<1> DEFINE k == <<t, "user">>
           n == [StopAutoSave(tab[t]) EXCEPT !.handle = None, !.active = None, !.fs = {}]
<1>1. /\ k \in Tasks /\ k \in Saves /\ k[1] = t /\ task[k].at = "closing only" /\ tab[t] \in Manager
  BY Records, TabType DEF Closed
<1>2. /\ save' = [save EXCEPT ![k] = NoSave] /\ holder' = Released(tab[t].handle)
      /\ tab' = [tab EXCEPT ![t] = n] /\ task' = [task EXCEPT ![k] = NoTask]
      /\ stuck' = stuck \ {<<t, tab[t].handle>>} /\ crossed' = crossed
  BY DEF Closed, Releases, SaveEnds, Ends
<1>3. n.handle = None /\ n.autosaves = None /\ n.active = None
  BY <1>1, Emptied
<1> HIDE DEF n, k
<1>4. tab'[t] = n /\ \A u \in Tab \ {t} : tab'[u] = tab[u]
  BY <1>1, <1>2 DEF TypeInv, TypeOK
<1>5. ~Switching(k)' /\ \A j \in Tasks \ {k} : task'[j] = task[j]
  BY <1>1, <1>2 DEF TypeInv, TypeOK, NoTask, Switching
<1>6. \A j \in Tasks : save'[j].at # "idle" => save[j].at # "idle" /\ j # k
  BY <1>1, <1>2, Records DEF TypeInv, TypeOK, NoSave
<1>7. t \notin crossed' => \A j \in Tasks \ {k} : j[1] = t => ~Switching(j)
  BY <1>1, <1>2 DEF LockInv, OneSwitch, Switching
<1>9. crossed \subseteq crossed'
  BY <1>2
<1>10. /\ task[k].at # "closing" /\ None = None /\ tab'[t].active = None /\ ~Switching(k)'
       /\ tab'[t].handle = None /\ tab'[t].autosaves = None /\ None \in Project \cup {None}
  BY <1>1, <1>3, <1>4, <1>5
<1> QED
  BY ZenonT(30), <1>1, <1>2, <1>4, <1>5, <1>6, <1>7, <1>9, <1>10, ReleaseLocks

LEMMA DiscardLocks ==
    ASSUME TypeInv, LockInv, NEW t \in Tab, Discard(t), ~Switching(<<t, "recovery">>),
           save' = save
    PROVE  LockInv'
<1> DEFINE k == <<t, "recovery">>
           n == [StopAutoSave(tab[t]) EXCEPT !.handle = None, !.active = None, !.fs = {}]
<1>1. /\ k \in Tasks /\ k[1] = t /\ tab[t] \in Manager /\ ~Switching(k)
      /\ task[k].at # "closing" /\ save[k].at = "idle"
  BY Records, TabType DEF Switching, LockInv, SavingCloses
<1>2. /\ holder' = Released(tab[t].handle) /\ stuck' = stuck \ {<<t, tab[t].handle>>}
      /\ tab' = [tab EXCEPT ![t] = n]
      /\ task' = [task EXCEPT ![k] = [NoTask EXCEPT !.at = "list"]]
      /\ crossed' = IF Switching(<<t, "user">>) THEN crossed \cup {t} ELSE crossed
  BY DEF Discard, Releases
<1>3. n.handle = None /\ n.autosaves = None /\ n.active = None
  BY <1>1, Emptied
<1>8. \A j \in Tasks \ {k} : j[1] = t => j = <<t, "user">>
  BY DEF Tasks
<1> HIDE DEF n, k
<1>4. tab'[t] = n /\ \A u \in Tab \ {t} : tab'[u] = tab[u]
  BY <1>1, <1>2 DEF TypeInv, TypeOK
<1>5. ~Switching(k)' /\ \A j \in Tasks \ {k} : task'[j] = task[j]
  BY <1>1, <1>2 DEF TypeInv, TypeOK, NoTask, Switching
<1>6. \A j \in Tasks : save'[j].at # "idle" => save[j].at # "idle" /\ j # k
  BY <1>1
<1>7. t \notin crossed' => \A j \in Tasks \ {k} : j[1] = t => ~Switching(j)
  BY <1>2, <1>8
<1> QED
  BY <1>1, <1>2, <1>3, <1>4, <1>5, <1>6, <1>7, ReleaseLocks

LEMMA OpenedLocks ==
    ASSUME TypeInv, LockInv, NEW k \in Tasks, Opened(k)
    PROVE  LockInv'
<1> DEFINE t == k[1]
           p == task[k].project
           n == [tab[t] EXCEPT !.active = p, !.fs = files[p], !.autosaves = p]
<1>1. /\ t \in Tab /\ p \in Project /\ task[k].at = "load" /\ save[k].at = "idle"
      /\ tab[t] \in Manager
  BY Records, TabType DEF Opened, TypeInv, LockInv, SavingCloses
<1>2. /\ tab' = [tab EXCEPT ![t] = n] /\ task' = [task EXCEPT ![k] = NoTask]
      /\ save' = save /\ holder' = holder /\ stuck' = stuck /\ crossed' = crossed
  BY DEF Opened, Ends
<1>3. n.handle = tab[t].handle /\ n.autosaves = p /\ n.active = p
  BY <1>1 DEF Manager
<1> HIDE DEF n, p
<1>4. tab'[t] = n /\ \A u \in Tab \ {t} : tab'[u] = tab[u]
  BY <1>1, <1>2 DEF TypeInv, TypeOK
<1>5. /\ task'[k].at = "idle" /\ \A j \in Tasks \ {k} : task'[j] = task[j]
  BY <1>1, <1>2 DEF TypeInv, TypeOK, NoTask
<1>6. t \notin crossed => tab[t].handle = p /\ \A j \in Tasks \ {k} : j[1] = t => ~Switching(j)
  BY <1>1 DEF LockInv, LoadsUnheard, OneSwitch, Switching, p
<1>7. \A u \in Tab : tab'[u].handle = tab[u].handle
  BY <1>3, <1>4
<1> HIDE DEF t
<1>8. HandleHeld' /\ SavingCloses'
  BY <1>1, <1>2, <1>5, <1>7 DEF LockInv, HandleHeld, SavingCloses
<1>9. ClosingHeld' /\ ClosingApart'
  BY <1>2, <1>5, <1>7, Records DEF LockInv, ClosingHeld, ClosingApart
<1>10. OneSwitch'
  BY <1>2, <1>5 DEF LockInv, OneSwitch, Switching
<1>11. LoadsUnheard'
  <2> SUFFICES ASSUME NEW j \in Tasks, j[1] \notin crossed', task'[j].at = "load"
               PROVE  tab'[j[1]].autosaves = None /\ tab'[j[1]].handle = task'[j].project
    BY DEF LoadsUnheard
  <2>1. j # k /\ task'[j] = task[j] /\ j[1] \in Tab /\ j[1] # t
    BY <1>2, <1>5, <1>6, Records DEF Switching
  <2> QED
    BY <1>2, <1>4, <2>1 DEF LockInv, LoadsUnheard
<1>12. Settled'
  <2> SUFFICES ASSUME NEW u \in Tab, u \notin crossed', ~Loading(u)'
               PROVE  \/ tab'[u].handle = tab'[u].active /\ tab'[u].autosaves = tab'[u].active
                      \/ /\ tab'[u].autosaves = None /\ tab'[u].handle # None
                         /\ <<u, tab'[u].handle>> \in stuck
    BY <1>2 DEF Settled
  <2>1. CASE u = t
    BY <1>2, <1>3, <1>4, <1>6, <2>1
  <2>2. CASE u # t
    <3>1. ~Loading(u) /\ u \notin crossed
      BY <1>2, <1>5, <2>2 DEF Loading, t
    <3> QED
      BY <1>4, <2>2, <3>1 DEF LockInv, Settled
  <2> QED
    BY <2>1, <2>2
<1>13. HeldForReason'
  <2> SUFFICES ASSUME NEW q \in Project, NEW u \in Tab, u \notin crossed, <<u, q>> \notin stuck,
                      holder[q] = u, tab[u].handle # q
               PROVE  \E j \in Tasks : j[1] = u /\ task'[j].at = "closing" /\ task'[j].project = q
    BY <1>2, <1>7 DEF HeldForReason
  <2>1. u \in Tab \ crossed
    OBVIOUS
  <2>2. PICK j \in Tasks : j[1] = u /\ task[j].at = "closing" /\ task[j].project = q
    BY <2>1 DEF LockInv, HeldForReason
  <2> QED
    BY <1>1, <1>5, <2>2
<1> QED
  BY <1>8, <1>9, <1>10, <1>11, <1>12, <1>13 DEF LockInv

(* Each step keeps the locks: those that concern no lock, by LocksApart.   *)
LEMMA LockStep == TypeInv /\ LockInv /\ [Next]_vars => LockInv'
<1> SUFFICES ASSUME TypeInv, LockInv, [Next]_vars
             PROVE  LockInv'
  OBVIOUS
<1> USE Records
<1>0. /\ tab \in [Tab -> Manager] /\ task \in [Tasks -> Task] /\ save \in [Saves -> Save]
      /\ \A k \in Tasks : task[k] \in Task
  BY DEF TypeInv, TypeOK
<1>a. \A k \in Tasks : ~Switching(k) => task[k].at # "load" /\ task[k].at # "closing" /\ save[k].at = "idle"
  BY DEF Switching, LockInv, SavingCloses
<1>b. ASSUME NEW k \in Tasks, ~Switching(k), ~Switching(k)', \A j \in Tasks \ {k} : task'[j] = task[j],
             UNCHANGED <<holder, tab, save, stuck>>, crossed \subseteq crossed'
      PROVE  LockInv'
  BY <1>a, <1>b, LocksApart
<1>1. ASSUME NEW t \in Tab, NEW c \in Change, NEW remote \in BOOLEAN, Edit(t, c, remote)
      PROVE  LockInv'
  <2>1. \A u \in Tab : /\ tab'[u].handle = tab[u].handle /\ tab'[u].active = tab[u].active
                       /\ tab'[u].autosaves = tab[u].autosaves
    BY <1>0, <1>1 DEF Edit, Manager
  <2> QED
    BY <1>1, <2>1, LocksApart DEF Edit
<1>2. ASSUME NEW t \in Tab, NEW i \in Flush, FlushAutoSave(t, i)
      PROVE  LockInv'
  <2>1. \A u \in Tab : /\ tab'[u].handle = tab[u].handle /\ tab'[u].active = tab[u].active
                       /\ tab'[u].autosaves = tab[u].autosaves
    BY <1>0, <1>2 DEF FlushAutoSave, Manager
  <2>2. \A k \in Tasks : save'[k] = save[k]
    BY <1>0, <1>2 DEF FlushAutoSave
  <2> QED
    BY <1>2, <2>1, <2>2, LocksApart DEF FlushAutoSave
<1>3. ASSUME NEW t \in Tab, NEW i \in Flush, Flushed(t, i)
      PROVE  LockInv'
  <2>1. \A k \in Tasks : save'[k] = save[k]
    BY <1>0, <1>3 DEF Flushed, SaveEnds
  <2> QED
    BY <1>3, <2>1, LocksApart DEF Flushed, history
<1>4. ASSUME NEW t \in Tab, NEW i \in Flush, FlushFails(t, i)
      PROVE  LockInv'
  <2> DEFINE k == <<t, "recovery">>
  <2>1. \A u \in Tab : /\ tab'[u].handle = tab[u].handle /\ tab'[u].active = tab[u].active
                       /\ tab'[u].autosaves = tab[u].autosaves
    BY <1>0, <1>4 DEF FlushFails, Manager
  <2>2. \A j \in Tasks : save'[j] = save[j]
    BY <1>0, <1>4 DEF FlushFails, SaveFails
  <2>3. \A j \in Tasks \ {k} : task'[j] = task[j]
    BY <1>0, <1>4 DEF FlushFails
  <2>4. task' # task => task[k].at = "idle" /\ task'[k].at = "stale"
    <3> DEFINE r == [NoTask EXCEPT !.at = "stale", !.project = save[<<t, i>>].project]
    <3>1. r.at = "stale"
      BY DEF NoTask
    <3>2. task' # task => task[k].at = "idle" /\ task' = [task EXCEPT ![k] = r]
      BY <1>4 DEF FlushFails
    <3> HIDE DEF r
    <3> QED
      BY <1>0, <3>1, <3>2
  <2>5. task' # task => ~Switching(k)' /\ save[k].at = "idle" /\ task[k].at # "load" /\ task[k].at # "closing"
    BY <1>a, <2>4 DEF Switching
  <2>6. UNCHANGED <<holder, crossed, stuck>>
    BY <1>4 DEF FlushFails, history
  <2> HIDE DEF k
  <2> QED
    BY <2>1, <2>2, <2>3, <2>5, <2>6, LocksApart
<1>5. ASSUME NEW k \in Tasks, NEW p, GetProject(k, p), ~Switching(k)
      PROVE  ~Switching(k)' /\ \A j \in Tasks \ {k} : task'[j] = task[j]
  <2>1. CASE Ends(k)
    BY <1>0, <2>1 DEF Ends, Switching, NoTask
  <2>2. CASE task' = [task EXCEPT ![k].at = "lock", ![k].project = p]
    BY ZenonT(30), <1>0, <2>2 DEF Switching, Task
  <2> QED
    BY <1>5, <2>1, <2>2 DEF GetProject
<1>6. ASSUME NEW t \in Tab, NEW p \in Project, Open(t, p)
      PROVE  LockInv'
  <2>1. ~Switching(<<t, "user">>)
    BY <1>6 DEF Open, Switching
  <2> QED
    BY <1>b, <1>5, <1>6, <2>1 DEF Open, history
<1>7. ASSUME NEW t \in Tab, OpenNext(t)
      PROVE  LockInv'
  <2>1. ~Switching(<<t, "recovery">>)
    BY <1>7 DEF OpenNext, Switching
  <2> QED
    BY <1>b, <1>5, <1>7, <2>1 DEF OpenNext, history
<1>8. ASSUME NEW t \in Tab, NEW p \in Project, Delete(t, p)
      PROVE  LockInv'
  <2>1. ~Switching(<<t, "user">>)
    BY <1>8 DEF Delete, Switching
  <2>2. ~Switching(<<t, "user">>)' /\ \A j \in Tasks \ {<<t, "user">>} : task'[j] = task[j]
    BY <1>0, <1>8 DEF Delete, Switching, NoTask
  <2> QED
    BY <1>b, <1>8, <2>1, <2>2 DEF Delete, history
<1>9. ASSUME NEW t \in Tab, DeleteProject(t)
      PROVE  LockInv'
  <2>1. ~Switching(<<t, "user">>)
    BY <1>9 DEF DeleteProject, Switching
  <2>2. ~Switching(<<t, "user">>)' /\ \A j \in Tasks \ {<<t, "user">>} : task'[j] = task[j]
    BY <1>0, <1>9 DEF DeleteProject, Ends, Switching, NoTask
  <2>3. crossed \subseteq crossed' /\ UNCHANGED <<holder, tab, save, stuck>>
    BY <1>9 DEF DeleteProject
  <2> QED
    BY <1>b, <2>1, <2>2, <2>3
<1>10. ASSUME NEW t \in Tab, NEW p \in Project, Tombstoned(t, p)
       PROVE  LockInv'
  <2>1. CASE UNCHANGED <<holder, tab, task, forgone, crossed, stuck>>
    BY <1>10, <2>1, LocksApart DEF Tombstoned
  <2>2. CASE task[<<t, "recovery">>].at = "idle" /\ Discard(t)
    BY <1>10, <2>2, DiscardLocks DEF Tombstoned, Switching
  <2> QED
    BY <1>10, <2>1, <2>2 DEF Tombstoned
<1>11. ASSUME NEW t \in Tab, LookForStale(t)
       PROVE  LockInv'
  <2>1. ~Switching(<<t, "recovery">>) /\ save' = save
    BY <1>11 DEF LookForStale, Switching
  <2>2. CASE Ends(<<t, "recovery">>) /\ UNCHANGED <<holder, tab, forgone, crossed, stuck>>
    <3>1. ~Switching(<<t, "recovery">>)' /\ \A j \in Tasks \ {<<t, "recovery">>} : task'[j] = task[j]
      BY <1>0, <2>2 DEF Ends, Switching, NoTask
    <3> QED
      BY <1>b, <2>1, <2>2, <3>1
  <2>3. CASE Discard(t)
    BY <2>1, <2>3, DiscardLocks
  <2> QED
    BY <1>11, <2>2, <2>3 DEF LookForStale
<1>12. ASSUME NEW t \in Tab, ListProjects(t)
       PROVE  LockInv'
  <2>1. ~Switching(<<t, "recovery">>)
    BY <1>12 DEF ListProjects, Switching
  <2>2. ~Switching(<<t, "recovery">>)' /\ \A j \in Tasks \ {<<t, "recovery">>} : task'[j] = task[j]
    <3>1. CASE Ends(<<t, "recovery">>)
      BY <1>0, <3>1 DEF Ends, Switching, NoTask
    <3>2. ASSUME NEW p \in live,
                 task' = [task EXCEPT ![<<t, "recovery">>] =
                     [at |-> "get", project |-> p, others |-> live \ {p}]]
          PROVE  ~Switching(<<t, "recovery">>)' /\ \A j \in Tasks \ {<<t, "recovery">>} : task'[j] = task[j]
      BY <1>0, <3>2 DEF Switching
    <3> QED
      BY <1>12, <3>1, <3>2 DEF ListProjects
  <2> QED
    BY <1>b, <1>12, <2>1, <2>2 DEF ListProjects, history
<1>13. ASSUME NEW w \in Saves, SaveStep(w)
       PROVE  LockInv'
  <2>1. \A v \in Saves : save'[v].at # "idle" => save[v].at # "idle"
    BY <1>0, <1>13 DEF SaveStep, Save
  <2> QED
    BY <1>13, <2>1, LocksApart DEF SaveStep, history
<1>14. ASSUME NEW k \in Tasks, Denied(k)
       PROVE  LockInv'
  <2>1. ~Switching(k)
    BY <1>14 DEF Denied, Switching
  <2>2. ~Switching(k)' /\ \A j \in Tasks \ {k} : task'[j] = task[j]
    <3>1. CASE Ends(k)
      BY <1>0, <3>1 DEF Ends, Switching, NoTask
    <3>2. ASSUME NEW p \in task[k].others,
                 task' = [task EXCEPT ![k] =
                     [at |-> "get", project |-> p, others |-> task[k].others \ {p}]]
          PROVE  ~Switching(k)' /\ \A j \in Tasks \ {k} : task'[j] = task[j]
      BY <1>0, <3>2 DEF Switching
    <3> QED
      BY <1>14, <3>1, <3>2 DEF Denied
  <2> QED
    BY <1>b, <1>14, <2>1, <2>2 DEF Denied, history
<1>15. ASSUME NEW k \in Tasks, CloseFails(k)
       PROVE  LockInv'
  <2>1. /\ save' = [save EXCEPT ![k] = NoSave] /\ task' = [task EXCEPT ![k] = NoTask]
        /\ save[k].at # "idle" /\ UNCHANGED <<holder, tab, crossed>>
        /\ stuck' = IF task[k].at = "closing" THEN stuck \cup {<<k[1], task[k].project>>}
                    ELSE stuck
    BY <1>15 DEF CloseFails, SaveFails, Ends
  <2>2. task[k].at \in {"closing", "closing only"}
    BY <2>1 DEF LockInv, SavingCloses
  <2>3. /\ save'[k].at = "idle" /\ ~Switching(k)'
        /\ \A j \in Tasks \ {k} : task'[j] = task[j] /\ save'[j] = save[j]
    BY <1>0, <2>1 DEF NoSave, NoTask, Switching
  <2>4. /\ stuck \subseteq stuck'
        /\ task[k].at \in {"closing", "load"} => <<k[1], task[k].project>> \in stuck'
    BY <2>1, <2>2
  <2> QED
    BY <2>1, <2>2, <2>3, <2>4, LocksApart
<1>16. ASSUME NEW k \in Tasks, OpenFails(k)
       PROVE  LockInv'
  <2>1. /\ task' = [task EXCEPT ![k] = NoTask] /\ task[k].at = "load"
        /\ stuck' = stuck \cup {<<k[1], task[k].project>>}
        /\ UNCHANGED <<holder, tab, save, crossed>>
    BY <1>16 DEF OpenFails, Ends
  <2>2. save[k].at = "idle"
    BY <2>1 DEF LockInv, SavingCloses
  <2>3. ~Switching(k)' /\ \A j \in Tasks \ {k} : task'[j] = task[j]
    BY <1>0, <2>1 DEF NoTask, Switching
  <2>4. stuck \subseteq stuck' /\ <<k[1], task[k].project>> \in stuck'
    BY <2>1
  <2> QED
    BY <2>1, <2>2, <2>3, <2>4, LocksApart
<1>17. CASE UNCHANGED vars
  BY <1>17, LocksApart DEF vars, history
<1> QED
  BY <1>1, <1>2, <1>3, <1>4, <1>6, <1>7, <1>8, <1>9, <1>10, <1>11, <1>12, <1>13, <1>14, <1>15,
     <1>16, <1>17, CloseLocks, ClosedLocks, GrantedLocks, ClosedForNextLocks, OpenedLocks
  DEF Next

LEMMA Locked == Spec => [](TypeInv /\ LockInv)
<1>1. Init => TypeInv /\ LockInv
  BY InitType, InitLocks
<1>2. TypeInv /\ LockInv /\ [Next]_vars => (TypeInv /\ LockInv)'
  BY TypeStep, LockStep
<1> QED
  BY <1>1, <1>2, PTL DEF Spec

(* tryOpen, closeInternal, discardCurrentActiveWithoutSaving: a tab that   *)
(* saves a project automatically holds its lock, so that no two tabs save  *)
(* the same project, and a tab holds no lock without a reason but those    *)
(* that failed opens have left with it.                                    *)
THEOREM LocksFollow == Spec => []LocksFollowProjects
<1>1. TypeInv /\ LockInv => LocksFollowProjects
  <2> SUFFICES ASSUME TypeInv, LockInv
               PROVE  LocksFollowProjects
    OBVIOUS
  <2>1. ASSUME NEW t \in Tab, t \notin crossed, tab[t].autosaves # None
        PROVE  /\ tab[t].active = tab[t].autosaves /\ tab[t].handle = tab[t].autosaves
               /\ holder[tab[t].autosaves] = t
    <3>1. ~Loading(t)
      BY <2>1 DEF Loading, LockInv, LoadsUnheard
    <3>2. tab[t].handle = tab[t].active /\ tab[t].autosaves = tab[t].active
      BY <2>1, <3>1 DEF LockInv, Settled
    <3> QED
      BY <2>1, <3>2 DEF LockInv, HandleHeld
  <2>2. ASSUME NEW p \in Project, NEW t \in Tab, t \notin crossed, holder[p] = t,
               <<t, p>> \notin stuck
        PROVE  \/ tab[t].active = p /\ tab[t].handle = p
               \/ \E k \in Tasks : /\ k[1] = t /\ task[k].project = p
                                  /\ task[k].at \in {"closing", "load"}
    <3>1. CASE tab[t].handle # p
      BY <2>2, <3>1 DEF LockInv, HeldForReason
    <3>2. CASE tab[t].handle = p /\ Loading(t)
      BY <2>2, <3>2 DEF Loading, LockInv, LoadsUnheard
    <3>3. CASE tab[t].handle = p /\ ~Loading(t)
      BY <2>2, <3>3 DEF LockInv, Settled
    <3> QED
      BY <3>1, <3>2, <3>3
  <2> QED
    BY <2>1, <2>2 DEF LocksFollowProjects
<1> QED
  BY <1>1, Locked, PTL

-----------------------------------------------------------------------------
(* Deletions.  Most steps leave the active projects alone or end with none *)
(* active, and tombstone nothing.                                          *)
LEMMA ToldApart ==
    ASSUME ToldOfDeletion, None \notin Project,
           \A t \in Tab : tab'[t].active \in {tab[t].active, None},
           live \subseteq live', news \subseteq news', crossed \subseteq crossed', late' = late
    PROVE  ToldOfDeletion'
BY DEF ToldOfDeletion

(* The active project of each tab after a step on tab t.                   *)
LEMMA ActiveKept ==
    ASSUME TypeInv, NEW t \in Tab, NEW n, tab' = [tab EXCEPT ![t] = n],
           n.active \in {tab[t].active, None}
    PROVE  \A u \in Tab : tab'[u].active \in {tab[u].active, None}
BY DEF TypeInv, TypeOK

LEMMA DiscardActive ==
    ASSUME TypeInv, NEW t \in Tab, Discard(t)
    PROVE  tab'[t].active = None /\ \A u \in Tab \ {t} : tab'[u] = tab[u]
<1> DEFINE n == [StopAutoSave(tab[t]) EXCEPT !.handle = None, !.active = None, !.fs = {}]
<1>1. tab' = [tab EXCEPT ![t] = n] /\ n.active = None
  BY TabType, Emptied DEF Discard
<1> HIDE DEF n
<1> QED
  BY <1>1 DEF TypeInv, TypeOK

LEMMA ToldStep == TypeInv /\ ToldOfDeletion /\ [Next]_vars => ToldOfDeletion'
<1> SUFFICES ASSUME TypeInv, ToldOfDeletion, [Next]_vars
             PROVE  ToldOfDeletion'
  OBVIOUS
<1> USE Records
<1>0. /\ tab \in [Tab -> Manager] /\ task \in [Tasks -> Task]
      /\ live \subseteq Project /\ crossed \subseteq Tab
  BY DEF TypeInv, TypeOK
<1>1. ASSUME NEW t \in Tab, NEW c \in Change, NEW remote \in BOOLEAN, Edit(t, c, remote)
      PROVE  ToldOfDeletion'
  <2>1. \A u \in Tab : tab'[u].active = tab[u].active
    BY <1>0, <1>1 DEF Edit, Manager
  <2> QED
    BY <1>1, <2>1, ToldApart DEF Edit, store
<1>2. ASSUME NEW t \in Tab, NEW i \in Flush, FlushAutoSave(t, i)
      PROVE  ToldOfDeletion'
  <2>1. \A u \in Tab : tab'[u].active = tab[u].active
    BY <1>0, <1>2 DEF FlushAutoSave, Manager
  <2> QED
    BY <1>2, <2>1, ToldApart DEF FlushAutoSave, store
<1>3. ASSUME NEW t \in Tab, NEW i \in Flush, Flushed(t, i)
      PROVE  ToldOfDeletion'
  BY <1>3, ToldApart DEF Flushed, SaveEnds, history
<1>4. ASSUME NEW t \in Tab, NEW i \in Flush, FlushFails(t, i)
      PROVE  ToldOfDeletion'
  <2>1. \A u \in Tab : tab'[u].active = tab[u].active
    BY <1>0, <1>4 DEF FlushFails, Manager
  <2> QED
    BY <1>4, <2>1, ToldApart DEF FlushFails, SaveFails, store, history
<1>5. ASSUME NEW t \in Tab, NEW p \in Project, Open(t, p) \/ Delete(t, p)
      PROVE  ToldOfDeletion'
  BY <1>5, ToldApart DEF Open, Delete, store, history
<1>6. ASSUME NEW t \in Tab, OpenNext(t) \/ ListProjects(t)
      PROVE  ToldOfDeletion'
  BY <1>6, ToldApart DEF OpenNext, ListProjects, store, history
<1>7. ASSUME NEW t \in Tab, NEW p \in Project, Tombstoned(t, p)
      PROVE  ToldOfDeletion'
  <2>1. /\ news' = news \ {<<t, p>>} /\ live' = live /\ late' = late
        /\ \/ tab[t].active # p /\ UNCHANGED <<tab, crossed>>
           \/ Discard(t)
    BY <1>7 DEF Tombstoned, store
  <2>2. CASE tab[t].active # p /\ UNCHANGED <<tab, crossed>>
    BY <2>1, <2>2 DEF ToldOfDeletion
  <2>3. CASE Discard(t)
    <3>1. crossed \subseteq crossed'
      BY <2>3 DEF Discard
    <3> QED
      BY <2>1, <2>3, <3>1, DiscardActive DEF ToldOfDeletion
  <2> QED
    BY <2>1, <2>2, <2>3
<1>8. ASSUME NEW t \in Tab, Close(t)
      PROVE  ToldOfDeletion'
  <2>1. crossed \subseteq crossed' /\ UNCHANGED <<live, tab, news, late>>
    BY <1>8 DEF Close, store
  <2> QED
    BY <2>1, ToldApart
<1>9. ASSUME NEW t \in Tab, Closed(t)
      PROVE  ToldOfDeletion'
  <2> DEFINE n == [StopAutoSave(tab[t]) EXCEPT !.handle = None, !.active = None, !.fs = {}]
  <2>1. tab' = [tab EXCEPT ![t] = n] /\ n.active = None
    BY <1>9, TabType, Emptied DEF Closed
  <2>2. live \subseteq live' /\ UNCHANGED <<news, crossed, late>>
    BY <1>9 DEF Closed, SaveEnds, history
  <2> HIDE DEF n
  <2> QED
    BY <2>1, <2>2, ActiveKept, ToldApart
<1>10. ASSUME NEW t \in Tab, DeleteProject(t)
       PROVE  ToldOfDeletion'
  <2> DEFINE p == task[<<t, "user">>].project
  <2>1. /\ live' = live \ {p} /\ news' = news \cup ((Tab \ {t}) \X {p})
        /\ crossed' = IF tab[t].active = p THEN crossed \cup {t} ELSE crossed
        /\ UNCHANGED <<tab, late>>
    BY <1>10 DEF DeleteProject
  <2> HIDE DEF p
  <2> SUFFICES ASSUME NEW u \in Tab, u \notin crossed', u \notin late,
                      tab[u].active \in Project \ live'
               PROVE  <<u, tab[u].active>> \in news'
    BY <2>1 DEF ToldOfDeletion
  <2>2. CASE tab[u].active = p
    <3>1. u # t
      BY <2>1, <2>2
    <3> QED
      BY <2>1, <2>2, <3>1
  <2>3. CASE tab[u].active # p
    BY <2>1, <2>3 DEF ToldOfDeletion
  <2> QED
    BY <2>2, <2>3
<1>11. ASSUME NEW t \in Tab, LookForStale(t)
       PROVE  ToldOfDeletion'
  <2>1. UNCHANGED <<live, news, late>>
        /\ (UNCHANGED <<tab, crossed>> \/ Discard(t))
    BY <1>11 DEF LookForStale, store
  <2>2. CASE Discard(t)
    <3>1. crossed \subseteq crossed' /\ \A u \in Tab : tab'[u].active \in {tab[u].active, None}
      BY <2>2, DiscardActive DEF Discard
    <3> QED
      BY <2>1, <3>1, ToldApart
  <2>3. CASE UNCHANGED <<tab, crossed>>
    BY <2>1, <2>3, ToldApart
  <2> QED
    BY <2>1, <2>2, <2>3
<1>12. ASSUME NEW w \in Saves, SaveStep(w)
       PROVE  ToldOfDeletion'
  BY <1>12, ToldApart DEF SaveStep, history
<1>13. ASSUME NEW k \in Tasks, Granted(k)
       PROVE  ToldOfDeletion'
  <2>1. \A u \in Tab : tab'[u].active = tab[u].active
    BY <1>0, <1>13 DEF Granted, Closes, Manager
  <2>2. crossed \subseteq crossed' /\ UNCHANGED <<live, news, late>>
    BY <1>13 DEF Granted, store
  <2> QED
    BY <2>1, <2>2, ToldApart
<1>14. ASSUME NEW k \in Tasks, Denied(k)
       PROVE  ToldOfDeletion'
  BY <1>14, ToldApart DEF Denied, store, history
<1>15. ASSUME NEW k \in Tasks, ClosedForNext(k)
       PROVE  ToldOfDeletion'
  <2> DEFINE n == [StopAutoSave(tab[k[1]]) EXCEPT !.handle = task[k].project]
  <2>1. k[1] \in Tab /\ task[k].project \in Project
    BY <1>15 DEF ClosedForNext, TypeInv
  <2>2. tab' = [tab EXCEPT ![k[1]] = n] /\ n.active = tab[k[1]].active
    BY <1>15, <2>1, TabType, Emptied DEF ClosedForNext
  <2>3. live \subseteq live' /\ UNCHANGED <<news, crossed, late>>
    BY <1>15 DEF ClosedForNext, SaveEnds, history
  <2> HIDE DEF n
  <2> QED
    BY <2>1, <2>2, <2>3, ActiveKept, ToldApart
<1>16. ASSUME NEW k \in Tasks, CloseFails(k)
       PROVE  ToldOfDeletion'
  BY <1>16, ToldApart DEF CloseFails, SaveFails, store
<1>17. ASSUME NEW k \in Tasks, Opened(k)
       PROVE  ToldOfDeletion'
  <2> DEFINE p == task[k].project
  <2>1. k[1] \in Tab /\ p \in Project
    BY <1>17 DEF Opened, TypeInv
  <2>2. /\ \A u \in Tab \ {k[1]} : tab'[u] = tab[u]
        /\ tab'[k[1]].active = p
    BY <1>0, <1>17, <2>1 DEF Opened, Manager
  <2>3. /\ late' = IF p \in live THEN late \ {k[1]} ELSE late \cup {k[1]}
        /\ UNCHANGED <<live, news, crossed>>
    BY <1>17 DEF Opened, store
  <2> HIDE DEF p
  <2> QED
    BY <2>2, <2>3 DEF ToldOfDeletion
<1>18. ASSUME NEW k \in Tasks, OpenFails(k)
       PROVE  ToldOfDeletion'
  BY <1>18, ToldApart DEF OpenFails, store
<1>19. CASE UNCHANGED vars
  BY <1>19, ToldApart DEF vars, store, history
<1> QED
  BY <1>1, <1>2, <1>3, <1>4, <1>5, <1>6, <1>7, <1>8, <1>9, <1>10, <1>11, <1>12, <1>13, <1>14,
     <1>15, <1>16, <1>17, <1>18, <1>19
  DEF Next

(* delete, handleProjectCollectionBroadcast: a tab whose active project is *)
(* tombstoned still has the broadcast to come, whatever it is doing.       *)
THEOREM Told == Spec => []ToldOfDeletion
<1>1. Init => ToldOfDeletion
  BY Records DEF Init, ToldOfDeletion
<1>2. TypeInv /\ ToldOfDeletion /\ [Next]_vars => ToldOfDeletion'
  BY ToldStep
<1> QED
  BY <1>1, <1>2, Typed, PTL DEF Spec

-----------------------------------------------------------------------------
(* Changes.  A save under way has one of the forms that flushAutoSave and  *)
(* closeInternal give it.                                                  *)

SaveForms ==
    \A w \in Saves :
        /\ save[w].at = "idle" => save[w].project = None
        /\ save[w].at = "load" => save[w].whole = FALSE /\ w \notin Tasks
        /\ w \in Tasks => save[w].changes = {} /\ save[w].whole = FALSE

(* A save that carries the change back to the tab if it fails.             *)
InFlight(w, c) == c \in save[w].changes \/ (save[w].whole /\ c \in save[w].content)

(* What is known of a change c of project home[c] that is not forgone:     *)
(* where it is kept; that a tab which listens to the project sees it; that *)
(* a save under way does not undo it; and that of two saves at once of the *)
(* project neither knows it.                                               *)
Kept(c) ==
    \/ c \in files[home[c]]
    \/ \E t \in Tab : /\ tab[t].active = home[c] /\ tab[t].autosaves = home[c]
                      /\ c \in tab[t].pending \/ tab[t].remote
    \/ \E w \in UnderWay(home[c]) : InFlight(w, c)

Seen(c) == \A t \in Tab : tab[t].autosaves = home[c] => c \in tab[t].fs

NotUndone(c) ==
    \A w \in UnderWay(home[c]) :
        /\ InFlight(w, c) => tab[w[1]].autosaves = home[c]
        /\ w \in Tasks /\ tab[w[1]].autosaves = home[c] => c \in save[w].content
        /\ save[w].at = "put" /\ c \in files[home[c]] => c \in save[w].content
        /\ save[w].at \in {"put", "touch"} /\ InFlight(w, c) => c \in save[w].content
        /\ save[w].at = "touch" /\ c \in save[w].content => c \in files[home[c]]

Alone(c) ==
    \A v, w \in UnderWay(home[c]) : v # w =>
        c \notin files[home[c]] /\ c \notin save[w].content /\ c \notin save[w].changes

Accounted(c) == Kept(c) /\ Seen(c) /\ NotUndone(c) /\ Alone(c)

(* A change that is not made yet is nowhere.                               *)
Nowhere(c) ==
    /\ \A p \in Project : c \notin files[p]
    /\ \A w \in Saves : c \notin save[w].content /\ c \notin save[w].changes
    /\ \A t \in Tab : c \notin tab[t].fs /\ c \notin tab[t].pending

(* A task saves the project its tab listens to, if it listens to any.      *)
TaskSaves ==
    \A k \in Tasks : save[k].project # None /\ tab[k[1]].autosaves # None =>
        save[k].project = tab[k[1]].autosaves

Accounts ==
    /\ TaskSaves
    /\ \A c \in Change : home[c] = None => Nowhere(c)
    /\ \A c \in Change \ forgone : home[c] # None => Accounted(c)

EditInv == crossed = {} => Accounts

LEMMA InitEdits == Init => SaveForms /\ EditInv
<1> SUFFICES ASSUME Init
             PROVE  SaveForms /\ EditInv
  OBVIOUS
<1>1. /\ \A w \in Saves : save[w] = NoSave
      /\ \A t \in Tab : tab[t].fs = {} /\ tab[t].pending = {}
      /\ \A p \in Project : files[p] = {}
      /\ \A c \in Change : home[c] = None
  BY DEF Init
<1>2. SaveForms /\ TaskSaves
  BY <1>1, Records DEF SaveForms, TaskSaves, NoSave
<1>3. \A c \in Change : Nowhere(c)
  BY <1>1 DEF Nowhere, NoSave
<1> QED
  BY <1>1, <1>2, <1>3 DEF EditInv, Accounts

LEMMA FormsStep == TypeInv /\ SaveForms /\ [Next]_vars => SaveForms'
<1> SUFFICES ASSUME TypeInv, SaveForms, [Next]_vars
             PROVE  SaveForms'
  OBVIOUS
<1>0. save \in [Saves -> Save] /\ None \notin Project
  BY Records DEF TypeInv, TypeOK
<1>1. ASSUME NEW w \in Saves, NEW r, save' = [save EXCEPT ![w] = r],
             r.at = "idle" => r.project = None,
             r.at = "load" => r.whole = FALSE /\ w \notin Tasks,
             w \in Tasks => r.changes = {} /\ r.whole = FALSE
      PROVE  SaveForms'
  BY <1>0, <1>1 DEF SaveForms
<1>2. save' = save => SaveForms'
  BY DEF SaveForms
<1>3. ASSUME NEW w \in Saves, save' = [save EXCEPT ![w] = NoSave]
      PROVE  SaveForms'
  BY <1>1, <1>3 DEF NoSave
<1>4. ASSUME NEW t \in Tab, NEW i \in Flush, FlushAutoSave(t, i)
      PROVE  SaveForms'
  <2> DEFINE m == tab[t]
             r == [at |-> IF m.remote THEN "put" ELSE "load", project |-> m.active,
                   content |-> m.fs, changes |-> m.pending, whole |-> m.remote]
  <2>1. save' = [save EXCEPT ![<<t, i>>] = r] /\ m.remote \in BOOLEAN /\ <<t, i>> \in Saves \ Tasks
    BY <1>4, Records DEF FlushAutoSave, TypeInv, TypeOK, Manager
  <2>2. r.at # "idle" /\ (r.at = "load" => r.whole = FALSE)
    BY <2>1
  <2> HIDE DEF r
  <2> QED
    BY <1>1, <2>1, <2>2
<1>5. ASSUME NEW k \in Tasks, NEW at, Closes(k, at)
      PROVE  SaveForms'
  <2> DEFINE r == [NoSave EXCEPT !.at = "put", !.project = tab[k[1]].active, !.content = tab[k[1]].fs]
  <2>1. save' = [save EXCEPT ![k] = r] /\ k \in Saves
    BY <1>5, Records DEF Closes
  <2>2. r.at = "put" /\ r.changes = {} /\ r.whole = FALSE
    BY DEF NoSave
  <2> HIDE DEF r
  <2> QED
    BY <1>1, <2>1, <2>2
<1>6. ASSUME NEW w \in Saves, SaveStep(w)
      PROVE  SaveForms'
  <2>1. CASE save[w].at = "load"
    <3> DEFINE r == [save[w] EXCEPT !.at = "put", !.content = files[save[w].project] \cup save[w].changes]
    <3>1. r.at = "put" /\ r.changes = save[w].changes /\ r.whole = save[w].whole
      BY <1>0 DEF Save
    <3>2. save' = [save EXCEPT ![w] = r]
      BY <1>6, <1>0, <2>1 DEF SaveStep, Save
    <3> HIDE DEF r
    <3> QED
      BY <1>1, <3>1, <3>2 DEF SaveForms
  <2>2. CASE save[w].at # "load"
    <3> DEFINE r == [save[w] EXCEPT !.at = "touch"]
    <3>1. r.at = "touch" /\ r.changes = save[w].changes /\ r.whole = save[w].whole
      BY <1>0 DEF Save
    <3>2. save' = [save EXCEPT ![w] = r]
      BY <1>6, <1>0, <2>2 DEF SaveStep, Save
    <3> HIDE DEF r
    <3> QED
      BY <1>1, <3>1, <3>2 DEF SaveForms
  <2> QED
    BY <2>1, <2>2
<1>7. ASSUME NEW w \in Saves, SaveEnds(w) \/ SaveFails(w)
      PROVE  SaveForms'
  BY <1>3, <1>7 DEF SaveEnds, SaveFails
<1>8. ASSUME NEW t \in Tab,
             \/ \E c \in Change, remote \in BOOLEAN : Edit(t, c, remote)
             \/ \E p \in Project : Open(t, p) \/ Delete(t, p) \/ Tombstoned(t, p)
             \/ DeleteProject(t) \/ OpenNext(t) \/ LookForStale(t) \/ ListProjects(t)
      PROVE  SaveForms'
  BY <1>2, <1>8 DEF Edit, Open, Delete, Tombstoned, DeleteProject, OpenNext, LookForStale, ListProjects
<1>9. ASSUME NEW t \in Tab, \/ Close(t) \/ Closed(t)
                            \/ \E i \in Flush : Flushed(t, i) \/ FlushFails(t, i)
      PROVE  SaveForms'
  BY <1>5, <1>7, <1>9, Records DEF Close, Closed, Flushed, FlushFails
<1>10. ASSUME NEW k \in Tasks, \/ Granted(k) \/ Denied(k) \/ ClosedForNext(k) \/ CloseFails(k)
                              \/ Opened(k) \/ OpenFails(k)
       PROVE  SaveForms'
  BY <1>2, <1>5, <1>7, <1>10, Records
     DEF Granted, Denied, ClosedForNext, CloseFails, Opened, OpenFails
<1>11. CASE UNCHANGED vars
  BY <1>2, <1>11 DEF vars
<1> QED
  BY <1>4, <1>6, <1>8, <1>9, <1>10, <1>11 DEF Next

-----------------------------------------------------------------------------
(* In the tabs considered here no calls have crossed: what a tab listens   *)
(* to it has active and holds the lock of, so it is the only one.          *)
LEMMA Listeners ==
    ASSUME TypeInv, LockInv, crossed = {}
    PROVE  /\ \A t \in Tab : tab[t].autosaves # None =>
                /\ tab[t].active = tab[t].autosaves /\ tab[t].handle = tab[t].autosaves
                /\ holder[tab[t].autosaves] = t
           /\ \A t, u \in Tab : tab[t].autosaves # None /\ tab[u].autosaves = tab[t].autosaves => u = t
           /\ \A t \in Tab : (\A k \in Tasks : k[1] = t => ~Switching(k)) =>
                tab[t].autosaves \in {None, tab[t].active}
<1>1. ASSUME NEW t \in Tab, tab[t].autosaves # None
      PROVE  /\ tab[t].active = tab[t].autosaves /\ tab[t].handle = tab[t].autosaves
             /\ holder[tab[t].autosaves] = t
  <2>1. ~Loading(t)
    BY <1>1 DEF Loading, LockInv, LoadsUnheard
  <2>2. tab[t].handle = tab[t].active /\ tab[t].autosaves = tab[t].active
    BY <1>1, <2>1 DEF LockInv, Settled
  <2> QED
    BY <1>1, <2>2 DEF LockInv, HandleHeld
<1>2. ASSUME NEW t \in Tab, \A k \in Tasks : k[1] = t => ~Switching(k)
      PROVE  tab[t].autosaves \in {None, tab[t].active}
  BY <1>2 DEF LockInv, Settled, Loading, Switching
<1> QED
  BY <1>1, <1>2

(* A step that concerns the change in no way.                              *)
LEMMA Untouched ==
    ASSUME NEW c \in Change, NEW p \in Project, home[c] = p, home'[c] = p, Accounted(c),
           files'[p] = files[p],
           \A w \in Saves : save[w].project = p \/ save'[w].project = p => save'[w] = save[w],
           \A t \in Tab : tab[t].autosaves = p \/ tab'[t].autosaves = p =>
              /\ tab[t].autosaves = p /\ tab'[t].autosaves = p
              /\ tab'[t].active = tab[t].active /\ tab[t].fs \subseteq tab'[t].fs
              /\ tab[t].pending \subseteq tab'[t].pending /\ (tab[t].remote => tab'[t].remote)
    PROVE  Accounted(c)'
<1>1. \A w \in Saves : w \in UnderWay(p)' <=> w \in UnderWay(p)
  BY DEF UnderWay
<1>2. \A w \in UnderWay(p) : w \in Saves /\ save'[w] = save[w] /\ (InFlight(w, c)' <=> InFlight(w, c))
  BY DEF UnderWay, InFlight
<1>3. UnderWay(p)' = UnderWay(p)
  BY <1>1 DEF UnderWay
<1>4. Kept(c)'
  <2>1. CASE c \in files[p]
    BY <2>1 DEF Kept
  <2>2. ASSUME NEW t \in Tab, tab[t].active = p, tab[t].autosaves = p, c \in tab[t].pending \/ tab[t].remote
        PROVE  Kept(c)'
    BY <2>2 DEF Kept
  <2>3. ASSUME NEW w \in UnderWay(p), InFlight(w, c)
        PROVE  Kept(c)'
    BY <1>2, <1>3, <2>3 DEF Kept
  <2> QED
    BY <2>1, <2>2, <2>3 DEF Accounted, Kept
<1>5. Seen(c)'
  BY DEF Accounted, Seen
<1>6. NotUndone(c)'
  <2> SUFFICES ASSUME NEW w \in UnderWay(p)
               PROVE  /\ InFlight(w, c)' => tab'[w[1]].autosaves = p
                      /\ w \in Tasks /\ tab'[w[1]].autosaves = p => c \in save'[w].content
                      /\ save'[w].at = "put" /\ c \in files'[p] => c \in save'[w].content
                      /\ save'[w].at \in {"put", "touch"} /\ InFlight(w, c)' => c \in save'[w].content
                      /\ save'[w].at = "touch" /\ c \in save'[w].content => c \in files'[p]
    BY <1>3 DEF NotUndone
  <2>1. w[1] \in Tab
    BY DEF UnderWay, Saves
  <2>2. /\ InFlight(w, c) => tab[w[1]].autosaves = p
        /\ w \in Tasks /\ tab[w[1]].autosaves = p => c \in save[w].content
        /\ save[w].at = "put" /\ c \in files[p] => c \in save[w].content
        /\ save[w].at \in {"put", "touch"} /\ InFlight(w, c) => c \in save[w].content
        /\ save[w].at = "touch" /\ c \in save[w].content => c \in files[p]
    BY DEF Accounted, NotUndone
  <2> QED
    BY <1>2, <2>1, <2>2
<1>7. Alone(c)'
  BY <1>2, <1>3 DEF Accounted, Alone
<1> QED
  BY <1>4, <1>5, <1>6, <1>7 DEF Accounted

(* A save of the change's project ends, well or not, and is not the place  *)
(* where the change is kept.                                               *)
LEMMA SaveOver ==
    ASSUME TypeInv, NEW c \in Change, NEW p \in Project, home[c] = p, home' = home,
           Seen(c), NotUndone(c), Alone(c),
           NEW w \in Saves, save' = [save EXCEPT ![w] = NoSave], files' = files,
           \A t \in Tab : /\ tab'[t].autosaves = p <=> tab[t].autosaves = p
                          /\ tab[t].autosaves = p => tab'[t].fs = tab[t].fs,
           Kept(c)'
    PROVE  Accounted(c)'
<1>1. NoSave.project = None /\ None # p
  BY Records DEF NoSave
<1>2. UnderWay(p)' = UnderWay(p) \ {w} /\ \A v \in UnderWay(p)' : save'[v] = save[v] /\ v[1] \in Tab
  BY <1>1 DEF UnderWay, TypeInv, TypeOK, Saves
<1>3. \A v \in UnderWay(p)' : InFlight(v, c)' <=> InFlight(v, c)
  BY <1>2 DEF InFlight
<1>4. Seen(c)'
  BY DEF Seen
<1>5. NotUndone(c)'
  BY <1>2, <1>3 DEF NotUndone
<1>6. Alone(c)'
  BY <1>2 DEF Alone
<1> QED
  BY <1>4, <1>5, <1>6 DEF Accounted

(* Edit: the change is pending in the tab that listens to its project.     *)
LEMMA EditAccounts ==
    ASSUME TypeInv, LockInv, SaveForms, Accounts, crossed = {},
           NEW t \in Tab, NEW d \in Change, NEW remote \in BOOLEAN, Edit(t, d, remote)
    PROVE  Accounts'
<1>0. PICK p \in Project : p = tab[t].active
  BY TabType DEF Edit
<1> DEFINE m == tab[t]
           listens == m.autosaves = p
           n == [m EXCEPT !.fs = @ \cup {d}, !.pending = IF listens /\ ~remote THEN @ \cup {d} ELSE @,
                          !.remote = @ \/ (listens /\ remote)]
<1>1. /\ m \in Manager /\ p \in Project /\ home[d] = None
      /\ tab' = [tab EXCEPT ![t] = n] /\ home' = [home EXCEPT ![d] = p]
      /\ UNCHANGED <<files, save, task, crossed>>
      /\ forgone' = IF listens /\ \A k \in Tasks : k[1] = t => ~Switching(k) THEN forgone
                    ELSE forgone \cup {d}
  BY <1>0, TabType DEF Edit, store
<1>2. /\ n.active = p /\ n.autosaves = m.autosaves /\ n.fs = m.fs \cup {d}
      /\ m.pending \subseteq n.pending /\ n.pending \subseteq m.pending \cup {d}
      /\ (m.remote => n.remote) /\ (listens => d \in n.pending \/ n.remote)
  BY <1>0, <1>1 DEF Manager
<1> HIDE DEF n
<1>3. tab'[t] = n /\ \A u \in Tab \ {t} : tab'[u] = tab[u]
  BY <1>1 DEF TypeInv, TypeOK
<1>4. home'[d] = p /\ \A c \in Change \ {d} : home'[c] = home[c]
  BY <1>1 DEF TypeInv, TypeOK
<1>5. TaskSaves'
  BY <1>1, <1>2, <1>3 DEF Accounts, TaskSaves
<1>6. ASSUME NEW c \in Change, home'[c] = None
      PROVE  Nowhere(c)'
  <2>1. c # d /\ home[c] = None
    BY <1>1, <1>4, <1>6, Records
  <2>2. Nowhere(c)
    BY <2>1 DEF Accounts
  <2> QED
    BY <1>1, <1>2, <1>3, <2>1, <2>2 DEF Nowhere
<1>7. ASSUME NEW c \in Change, c \notin forgone', home'[c] # None, c # d
      PROVE  Accounted(c)'
  <2>1. c \in Change \ forgone /\ home[c] # None /\ home[c] \in Project /\ home'[c] = home[c]
    BY <1>1, <1>4, <1>7 DEF TypeInv, TypeOK
  <2>2. Accounted(c)
    BY <2>1 DEF Accounts
  <2>3. \A u \in Tab : /\ tab'[u].active = tab[u].active /\ tab'[u].autosaves = tab[u].autosaves
                       /\ tab[u].fs \subseteq tab'[u].fs /\ tab[u].pending \subseteq tab'[u].pending
                       /\ (tab[u].remote => tab'[u].remote)
    BY <1>0, <1>2, <1>3
  <2>4. save' = save /\ files' = files
    BY <1>1
  <2> HIDE DEF m, listens
  <2> QED
    BY <2>1, <2>2, <2>3, <2>4, Untouched
<1>8. ASSUME d \notin forgone'
      PROVE  Accounted(d)'
  <2>1. \A k \in Tasks : k[1] = t => ~Switching(k)
    BY <1>1, <1>8
  <2>2. listens
    BY <1>1, <1>8
  <2>3. \A u \in Tab : tab[u].autosaves = p => u = t
    BY <1>1, <2>2, Listeners, Records
  <2>4. Nowhere(d)
    BY <1>1 DEF Accounts
  <2>5. \A w \in Saves : save'[w] = save[w] /\ d \notin save[w].content /\ d \notin save[w].changes
    BY <1>1, <2>4 DEF Nowhere
  <2>6. d \notin files'[p]
    BY <1>1, <2>4 DEF Nowhere
  <2>7. \A w \in UnderWay(p)' :
          w \in Saves /\ ~InFlight(w, d)' /\ ~(w \in Tasks /\ tab'[w[1]].autosaves = p)
    <3> SUFFICES ASSUME NEW w \in Saves, save[w].project = p
                 PROVE  ~InFlight(w, d)' /\ ~(w \in Tasks /\ tab'[w[1]].autosaves = p)
      BY <1>1 DEF UnderWay
    <3>1. ~InFlight(w, d)'
      BY <2>5 DEF InFlight
    <3>2. ASSUME w \in Tasks, tab'[w[1]].autosaves = p
          PROVE  FALSE
      <4>1. save[w].at # "idle" /\ tab[w[1]].autosaves = p
        BY <1>1, <1>2, <1>3, <3>2, Records DEF SaveForms
      <4>2. Switching(w) /\ w[1] = t
        BY <2>3, <3>2, <4>1, Records DEF LockInv, SavingCloses, Switching
      <4> QED
        BY <2>1, <3>2, <4>2
    <3> QED
      BY <3>1, <3>2
  <2>8. Kept(d)'
    <3>1. tab'[t].active = p /\ tab'[t].autosaves = p /\ (d \in tab'[t].pending \/ tab'[t].remote)
      BY <1>0, <1>2, <1>3, <2>2
    <3> QED
      BY <1>4, <3>1 DEF Kept
  <2>9. Seen(d)'
    BY <1>2, <1>3, <1>4, <2>3 DEF Seen
  <2>10. NotUndone(d)' /\ Alone(d)'
    <3>1. \A w \in UnderWay(p)' : d \notin save'[w].content /\ d \notin save'[w].changes
      BY <2>5, <2>7
    <3>2. home'[d] = p
      BY <1>4
    <3>3. NotUndone(d)'
      BY <2>6, <2>7, <3>1, <3>2 DEF NotUndone
    <3>4. Alone(d)'
      BY <2>6, <3>1, <3>2 DEF Alone
    <3> QED
      BY <3>3, <3>4
  <2> QED
    BY <2>8, <2>9, <2>10 DEF Accounted
<1> QED
  BY <1>5, <1>6, <1>7, <1>8 DEF Accounts

(* flushAutoSave: the changes pending are in the save, which is the only   *)
(* one of the project.                                                     *)
LEMMA FlushAccounts ==
    ASSUME TypeInv, LockInv, SaveForms, Accounts, crossed = {},
           NEW t \in Tab, NEW i \in Flush, FlushAutoSave(t, i)
    PROVE  Accounts'
<1>0. PICK p \in Project : p = tab[t].active
  BY TabType DEF FlushAutoSave
<1> DEFINE m == tab[t]
           w == <<t, i>>
           r == [at |-> IF m.remote THEN "put" ELSE "load", project |-> p,
                 content |-> m.fs, changes |-> m.pending, whole |-> m.remote]
           n == [m EXCEPT !.pending = {}, !.remote = FALSE]
<1>1. /\ m \in Manager /\ w \in Saves \ Tasks /\ w[1] = t /\ save[w].at = "idle"
      /\ save[w].project = None /\ None # p
      /\ save' = [save EXCEPT ![w] = r] /\ tab' = [tab EXCEPT ![t] = n]
      /\ UNCHANGED <<files, task, home, crossed>>
  <2>1. m \in Manager /\ w \in Saves \ Tasks /\ w[1] = t /\ None # p
    BY Records, TabType
  <2>2. save[w].at = "idle" /\ save[w].project = None
    BY <2>1 DEF FlushAutoSave, SaveForms
  <2>3. save' = [save EXCEPT ![w] = r] /\ UNCHANGED <<files, task, home, crossed>>
    BY <1>0 DEF FlushAutoSave, store
  <2>4. tab' = [tab EXCEPT ![t].pending = {}, ![t].remote = FALSE]
    BY DEF FlushAutoSave
  <2>5. tab' = [tab EXCEPT ![t] = n]
    BY <2>1, <2>4 DEF Manager, TypeInv, TypeOK
  <2> QED
    BY <2>1, <2>2, <2>3, <2>5
<1>2. /\ r.project = p /\ r.content = m.fs /\ r.changes = m.pending /\ r.whole = m.remote
      /\ r.at \in {"put", "load"} /\ (r.at = "put" <=> m.remote)
  BY <1>1 DEF Manager
<1>3. /\ n.active = p /\ n.autosaves = m.autosaves /\ n.fs = m.fs /\ n.pending = {} /\ n.remote = FALSE
  BY <1>0, <1>1 DEF Manager
<1>4. m.autosaves = p => forgone' = IF UnderWay(p) # {} THEN forgone \cup MadeIn(p) ELSE forgone
  BY <1>0 DEF FlushAutoSave, SavesAll, Overlaps
<1>5. m.autosaves # p => forgone' = forgone \cup MadeIn(p)
  BY <1>0 DEF FlushAutoSave, SavesAll
<1> HIDE DEF r, n, w
<1>6. /\ tab'[t] = n /\ \A u \in Tab \ {t} : tab'[u] = tab[u]
      /\ save'[w] = r /\ \A v \in Saves \ {w} : save'[v] = save[v]
  BY <1>1 DEF TypeInv, TypeOK
<1>7. TaskSaves'
  BY <1>1, <1>3, <1>6, Records DEF Accounts, TaskSaves
<1>8. ASSUME NEW c \in Change, home[c] = None
      PROVE  Nowhere(c)'
  <2>1. Nowhere(c)
    BY <1>8 DEF Accounts
  <2>2. \A v \in Saves : c \notin save'[v].content /\ c \notin save'[v].changes
    BY <1>2, <1>6, <2>1 DEF Nowhere
  <2>3. \A u \in Tab : c \notin tab'[u].fs /\ c \notin tab'[u].pending
    BY <1>3, <1>6, <2>1 DEF Nowhere
  <2> QED
    BY <1>1, <2>1, <2>2, <2>3 DEF Nowhere
<1>9. ASSUME NEW c \in Change, c \notin forgone', home[c] # None, home[c] # p
      PROVE  Accounted(c)'
  <2>1. c \in Change \ forgone /\ home[c] \in Project
    BY <1>4, <1>5, <1>9 DEF TypeInv, TypeOK
  <2>2. Accounted(c)
    BY <1>9, <2>1 DEF Accounts
  <2>3. tab[t].autosaves # home[c] /\ tab'[t].autosaves # home[c]
    BY <1>0, <1>3, <1>6, <1>9, <2>1, Listeners, Records
  <2>4. \A v \in Saves : save[v].project = home[c] \/ save'[v].project = home[c] => save'[v] = save[v]
    BY <1>1, <1>2, <1>6, <1>9, <2>1
  <2>5. files' = files /\ home' = home
    BY <1>1
  <2> HIDE DEF m
  <2> QED
    BY <1>6, <2>1, <2>2, <2>3, <2>4, <2>5, Untouched
<1>10. ASSUME NEW c \in Change, c \notin forgone', home[c] = p
       PROVE  Accounted(c)'
  <2>1. c \notin forgone /\ m.autosaves = p /\ UnderWay(p) = {}
    BY <1>4, <1>5, <1>10 DEF MadeIn
  <2>2. Accounted(c)
    BY <1>1, <1>10, <2>1 DEF Accounts
  <2>3. UnderWay(p)' = {w}
    BY <1>1, <1>2, <1>6, <2>1 DEF UnderWay
  <2>4. c \in m.fs
    BY <1>10, <2>1, <2>2 DEF Accounted, Seen
  <2>5. c \in files[p] \/ c \in m.pending \/ m.remote
    BY <1>1, <1>10, <2>1, <2>2, Listeners DEF Accounted, Kept
  <2>6. home'[c] = p /\ files' = files
    BY <1>1, <1>10
  <2>7. Kept(c)'
    <3>1. c \in files[p] \/ InFlight(w, c)'
      BY <1>2, <1>6, <2>4, <2>5 DEF InFlight
    <3> QED
      BY <2>3, <2>6, <3>1 DEF Kept
  <2>8. Seen(c)'
    BY <1>3, <1>6, <1>10, <2>2, <2>6 DEF Accounted, Seen
  <2>9. NotUndone(c)'
    <3>1. tab'[w[1]].autosaves = p
      BY <1>1, <1>3, <1>6, <2>1
    <3>2. w \notin Tasks /\ c \in save'[w].content /\ save'[w].at # "touch"
      BY <1>1, <1>2, <1>6, <2>4
    <3> QED
      BY <2>3, <2>6, <3>1, <3>2 DEF NotUndone
  <2>10. Alone(c)'
    BY <2>3, <2>6 DEF Alone
  <2> QED
    BY <2>7, <2>8, <2>9, <2>10 DEF Accounted
<1> QED
  BY <1>1, <1>7, <1>8, <1>9, <1>10 DEF Accounts

(* A save that ends, and a task's save that fails: what it had of a change *)
(* is in the store, or it was only a copy.                                 *)
LEMMA EndAccounts ==
    ASSUME TypeInv, SaveForms, Accounts, NEW w \in Saves,
           save' = [save EXCEPT ![w] = NoSave], save[w].at = "touch" \/ w \in Tasks,
           UNCHANGED <<files, tab, home, forgone>>
    PROVE  Accounts'
<1>0. NoSave.project = None /\ NoSave.content = {} /\ NoSave.changes = {} /\ None \notin Project
  BY Records DEF NoSave
<1>1. save'[w] = NoSave /\ \A v \in Saves \ {w} : save'[v] = save[v]
  BY DEF TypeInv, TypeOK
<1>2. TaskSaves'
  BY <1>0, <1>1, Records DEF Accounts, TaskSaves
<1>3. ASSUME NEW c \in Change, home[c] = None
      PROVE  Nowhere(c)'
  BY <1>0, <1>1, <1>3 DEF Accounts, Nowhere
<1>4. ASSUME NEW c \in Change \ forgone, home[c] # None
      PROVE  Accounted(c)'
  <2>1. Accounted(c) /\ home[c] \in Project
    BY <1>4 DEF Accounts, TypeInv, TypeOK
  <2>2. CASE save[w].project # home[c]
    <3>1. \A v \in Saves : save[v].project = home[c] \/ save'[v].project = home[c] => save'[v] = save[v]
      BY <1>0, <1>1, <2>1, <2>2
    <3> QED
      BY <2>1, <3>1, Untouched
  <2>3. CASE save[w].project = home[c]
    <3>1. w \in UnderWay(home[c])
      BY <2>3 DEF UnderWay
    <3>2. InFlight(w, c) => save[w].at = "touch"
      BY DEF InFlight, SaveForms
    <3>3. InFlight(w, c) => c \in files[home[c]]
      BY <2>1, <3>1, <3>2 DEF Accounted, NotUndone
    <3>4. \A v \in UnderWay(home[c]) \ {w} : v \in UnderWay(home[c])' /\ (InFlight(v, c)' <=> InFlight(v, c))
      BY <1>1 DEF UnderWay, InFlight
    <3>5. Kept(c)'
      BY <2>1, <3>3, <3>4 DEF Accounted, Kept
    <3> QED
      BY <2>1, <3>5, SaveOver DEF Accounted
  <2> QED
    BY <2>2, <2>3
<1> QED
  BY <1>2, <1>3, <1>4 DEF Accounts

(* flushAutoSave fails: the changes it had are pending again in the tab,   *)
(* which still listens to their project.                                   *)
LEMMA FailAccounts ==
    ASSUME TypeInv, LockInv, SaveForms, Accounts, crossed = {},
           NEW t \in Tab, NEW i \in Flush, FlushFails(t, i)
    PROVE  Accounts'
<1> DEFINE m == tab[t]
           w == <<t, i>>
           s == save[w]
           n == [m EXCEPT !.pending = @ \cup s.changes, !.remote = @ \/ s.whole]
<1>1. /\ m \in Manager /\ w \in Saves \ Tasks /\ w[1] = t /\ s.whole \in BOOLEAN
      /\ tab \in [Tab -> Manager]
  BY Records, TabType, SaveType DEF TypeInv, TypeOK
<1>2. /\ save' = [save EXCEPT ![w] = NoSave] /\ UNCHANGED <<files, home, forgone>>
      /\ tab' = [tab EXCEPT ![t].pending = @ \cup s.changes, ![t].remote = @ \/ s.whole]
  BY DEF FlushFails, SaveFails, store, history
<1>3. tab' = [tab EXCEPT ![t] = n]
  BY <1>1, <1>2 DEF Manager
<1>4. /\ n.active = m.active /\ n.autosaves = m.autosaves /\ n.fs = m.fs
      /\ n.pending = m.pending \cup s.changes /\ (n.remote <=> m.remote \/ s.whole)
  BY <1>1 DEF Manager
<1> HIDE DEF n
<1>5. /\ tab'[t] = n /\ \A u \in Tab \ {t} : tab'[u] = tab[u]
      /\ save'[w] = NoSave /\ \A v \in Saves \ {w} : save'[v] = save[v]
  BY <1>1, <1>2, <1>3 DEF TypeInv, TypeOK
<1>6. NoSave.project = None /\ NoSave.content = {} /\ NoSave.changes = {} /\ None \notin Project
  BY Records DEF NoSave
<1>7. TaskSaves'
  BY <1>1, <1>4, <1>5, Records DEF Accounts, TaskSaves
<1>8. ASSUME NEW c \in Change, home[c] = None
      PROVE  Nowhere(c)'
  <2>1. Nowhere(c)
    BY <1>8 DEF Accounts
  <2>2. \A v \in Saves : c \notin save'[v].content /\ c \notin save'[v].changes
    BY <1>5, <1>6, <2>1 DEF Nowhere
  <2>3. \A u \in Tab : c \notin tab'[u].fs /\ c \notin tab'[u].pending
    BY <1>1, <1>4, <1>5, <2>1 DEF Nowhere
  <2> QED
    BY <1>2, <2>1, <2>2, <2>3 DEF Nowhere
<1>9. ASSUME NEW c \in Change \ forgone, home[c] # None
      PROVE  Accounted(c)'
  <2>1. Accounted(c) /\ home[c] \in Project
    BY <1>9 DEF Accounts, TypeInv, TypeOK
  <2>2. \A u \in Tab : /\ tab'[u].active = tab[u].active /\ tab'[u].autosaves = tab[u].autosaves
                       /\ tab'[u].fs = tab[u].fs /\ tab[u].pending \subseteq tab'[u].pending
                       /\ (tab[u].remote => tab'[u].remote)
    BY <1>4, <1>5
  <2>3. CASE s.project # home[c]
    <3>1. \A v \in Saves : save[v].project = home[c] \/ save'[v].project = home[c] => save'[v] = save[v]
      BY <1>5, <1>6, <2>1, <2>3
    <3>2. home'[c] = home[c] /\ files'[home[c]] = files[home[c]]
      BY <1>2
    <3>3. \A u \in Tab : tab[u].fs \subseteq tab'[u].fs
      BY <2>2
    <3> HIDE DEF m, s, w
    <3> QED
      BY <2>1, <2>2, <3>1, <3>2, <3>3, Untouched
  <2>4. CASE s.project = home[c]
    <3>1. w \in UnderWay(home[c])
      BY <1>1, <2>4 DEF UnderWay
    <3>2. ASSUME InFlight(w, c)
          PROVE  Kept(c)'
      <4>1. m.autosaves = home[c]
        BY <1>1, <2>1, <3>1, <3>2 DEF Accounted, NotUndone
      <4>2. m.active = home[c]
        BY <2>1, <4>1, Listeners, Records
      <4>3. c \in n.pending \/ n.remote
        BY <1>4, <3>2 DEF InFlight
      <4>4. tab'[t].active = home[c] /\ tab'[t].autosaves = home[c] /\ (c \in tab'[t].pending \/ tab'[t].remote)
        BY <1>4, <1>5, <4>1, <4>2, <4>3
      <4> QED
        BY <1>2, <4>4 DEF Kept
    <3>3. \A v \in UnderWay(home[c]) \ {w} : v \in UnderWay(home[c])' /\ (InFlight(v, c)' <=> InFlight(v, c))
      BY <1>2, <1>5 DEF UnderWay, InFlight
    <3>4. Kept(c)'
      <4>1. CASE c \in files[home[c]]
        BY <1>2, <4>1 DEF Kept
      <4>2. ASSUME NEW u \in Tab, tab[u].active = home[c], tab[u].autosaves = home[c],
                   c \in tab[u].pending \/ tab[u].remote
            PROVE  Kept(c)'
        BY ZenonT(30), <1>2, <2>2, <4>2 DEF Kept
      <4>3. ASSUME NEW v \in UnderWay(home[c]), InFlight(v, c)
            PROVE  Kept(c)'
        BY <1>2, <3>2, <3>3, <4>3 DEF Kept
      <4> QED
        BY <2>1, <4>1, <4>2, <4>3 DEF Accounted, Kept
    <3> HIDE DEF m, s
    <3> QED
      BY <1>1, <1>2, <2>1, <2>2, <3>4, SaveOver DEF Accounted
  <2> QED
    BY <2>3, <2>4
<1> QED
  BY <1>2, <1>7, <1>8, <1>9 DEF Accounts

(* A save reads the files, or writes them: it is the only save of its      *)
(* project that knows the change, and it has all that the files have.      *)
LEMMA StepAccounts ==
    ASSUME TypeInv, SaveForms, Accounts, NEW w \in Saves, SaveStep(w)
    PROVE  Accounts'
<1>0. PICK p \in Project : p = save[w].project
  BY DEF SaveStep, TypeInv
<1> DEFINE s == save[w]
           content == IF s.at = "load" THEN files[p] \cup s.changes ELSE s.content
           at == IF s.at = "load" THEN "put" ELSE "touch"
           r == [s EXCEPT !.at = at, !.content = content]
<1>1. /\ s \in Save /\ s.at \in {"load", "put"} /\ save \in [Saves -> Save]
      /\ files \in [Project -> SUBSET Change] /\ UNCHANGED <<tab, home, forgone>>
  BY SaveType DEF SaveStep, TypeInv, TypeOK, history
<1>2. save' = [save EXCEPT ![w] = r]
  BY <1>0, <1>1 DEF SaveStep, Save
<1>3. /\ s.at = "load" => files' = files
      /\ s.at = "put" => files' = [files EXCEPT ![p] = s.content]
  BY <1>0 DEF SaveStep
<1>4. /\ r.project = p /\ r.content = content /\ r.at = at
      /\ r.changes = s.changes /\ r.whole = s.whole
  BY <1>0, <1>1 DEF Save
<1> HIDE DEF r
<1>5. save'[w] = r /\ \A v \in Saves \ {w} : save'[v] = save[v]
  BY <1>1, <1>2
<1>6. /\ \A q \in Project \ {p} : files'[q] = files[q]
      /\ s.at = "load" => files'[p] = files[p]
      /\ s.at = "put" => files'[p] = s.content
  BY <1>1, <1>3
<1>7. TaskSaves'
  BY <1>0, <1>1, <1>4, <1>5, Records DEF Accounts, TaskSaves
<1>8. ASSUME NEW c \in Change, home[c] = None
      PROVE  Nowhere(c)'
  <2>1. Nowhere(c)
    BY <1>8 DEF Accounts
  <2>2. c \notin content /\ c \notin s.changes /\ c \notin s.content
    BY <2>1 DEF Nowhere
  <2>3. \A v \in Saves : c \notin save'[v].content /\ c \notin save'[v].changes
    BY <1>4, <1>5, <2>1, <2>2 DEF Nowhere
  <2>4. \A q \in Project : c \notin files'[q]
    BY <1>1, <1>6, <2>1, <2>2 DEF Nowhere
  <2> QED
    BY <1>1, <2>1, <2>3, <2>4 DEF Nowhere
<1>9. ASSUME NEW c \in Change \ forgone, home[c] # None
      PROVE  Accounted(c)'
  <2>1. Accounted(c) /\ home[c] \in Project /\ home'[c] = home[c]
    BY <1>1, <1>9 DEF Accounts, TypeInv, TypeOK
  <2>2. CASE p # home[c]
    <3>1. \A v \in Saves : save[v].project = home[c] \/ save'[v].project = home[c] => save'[v] = save[v]
      BY <1>0, <1>4, <1>5, <2>2
    <3>2. files'[home[c]] = files[home[c]] /\ tab' = tab
      BY <1>1, <1>6, <2>1, <2>2
    <3> QED
      BY <2>1, <3>1, <3>2, Untouched
  <2>3. CASE p = home[c]
    <3>1. UnderWay(p)' = UnderWay(p) /\ w \in UnderWay(p)
      BY <1>0, <1>4, <1>5 DEF UnderWay
    <3>2. \A v \in UnderWay(p) : v \in Saves /\ v[1] \in Tab
      BY DEF UnderWay, Saves
    <3>3. /\ InFlight(w, c) => tab[w[1]].autosaves = p
          /\ w \in Tasks /\ tab[w[1]].autosaves = p => c \in s.content
          /\ s.at = "put" /\ c \in files[p] => c \in s.content
          /\ s.at = "put" /\ InFlight(w, c) => c \in s.content
      BY <2>1, <2>3, <3>1 DEF Accounted, NotUndone
    <3>4. s.at = "load" => s.whole = FALSE /\ w \notin Tasks
      BY DEF SaveForms
    <3>5. \A v \in UnderWay(p) : v # w =>
            /\ c \notin files[p] /\ c \notin s.content /\ c \notin s.changes
            /\ c \notin save[v].content /\ c \notin save[v].changes
      BY <2>1, <2>3, <3>1 DEF Accounted, Alone
    <3>6. \A v \in UnderWay(p) : InFlight(v, c)' <=> InFlight(v, c)
      BY <1>1, <1>4, <1>5, <3>2, <3>4 DEF InFlight
    <3>7. c \in files[p] => c \in files'[p]
      BY <1>1, <1>6, <3>3
    <3>8. Kept(c)'
      <4>1. CASE c \in files[p]
        BY <2>1, <2>3, <3>7, <4>1 DEF Kept
      <4>2. ASSUME NEW u \in Tab, tab[u].active = p, tab[u].autosaves = p, c \in tab[u].pending \/ tab[u].remote
            PROVE  Kept(c)'
        BY <1>1, <2>1, <2>3, <4>2 DEF Kept
      <4>3. ASSUME NEW v \in UnderWay(p), InFlight(v, c)
            PROVE  Kept(c)'
        BY <2>1, <2>3, <3>1, <3>6, <4>3 DEF Kept
      <4> QED
        BY <2>1, <2>3, <4>1, <4>2, <4>3 DEF Accounted, Kept
    <3>9. Seen(c)'
      BY <1>1, <2>1 DEF Accounted, Seen
    <3>10. \A v \in UnderWay(p) : v # w =>
             c \notin files'[p] /\ c \notin r.content /\ c \notin r.changes
      BY <1>1, <1>4, <1>6, <3>5
    <3>11. Alone(c)'
      <4> SUFFICES ASSUME NEW u \in UnderWay(p), NEW v \in UnderWay(p), u # v
                   PROVE  c \notin files'[p] /\ c \notin save'[v].content /\ c \notin save'[v].changes
        BY <2>1, <2>3, <3>1 DEF Alone
      <4>1. CASE v = w
        BY <1>5, <3>10, <4>1
      <4>2. CASE v # w
        BY <1>5, <3>2, <3>5, <3>10, <4>2
      <4> QED
        BY <4>1, <4>2
    <3>12. NotUndone(c)'
      <4> SUFFICES ASSUME NEW v \in UnderWay(p)
                   PROVE  /\ InFlight(v, c)' => tab'[v[1]].autosaves = p
                          /\ v \in Tasks /\ tab'[v[1]].autosaves = p => c \in save'[v].content
                          /\ save'[v].at = "put" /\ c \in files'[p] => c \in save'[v].content
                          /\ save'[v].at \in {"put", "touch"} /\ InFlight(v, c)' => c \in save'[v].content
                          /\ save'[v].at = "touch" /\ c \in save'[v].content => c \in files'[p]
        BY <2>1, <2>3, <3>1 DEF NotUndone
      <4>1. CASE v = w
        <5>1. InFlight(w, c)' => tab'[w[1]].autosaves = p
          BY <1>1, <3>1, <3>3, <3>6
        <5>2. InFlight(w, c) => c \in content
          BY <1>1, <3>3, <3>4 DEF InFlight
        <5>3. w \in Tasks /\ tab'[w[1]].autosaves = p => c \in content
          BY <1>1, <3>3, <3>4
        <5>4. CASE s.at = "load"
          BY <1>4, <1>5, <1>6, <3>1, <3>6, <4>1, <5>1, <5>2, <5>3, <5>4
        <5>5. CASE s.at = "put"
          BY <1>4, <1>5, <1>6, <3>1, <3>6, <4>1, <5>1, <5>2, <5>3, <5>5
        <5> QED
          BY <1>1, <5>4, <5>5
      <4>2. CASE v # w
        <5>1. /\ c \notin save'[v].content /\ c \notin files'[p] /\ ~InFlight(v, c)
              /\ v \in Tasks /\ tab'[v[1]].autosaves = p => c \in save[v].content
          BY <1>1, <1>5, <2>1, <2>3, <3>2, <3>5, <3>10, <4>2 DEF InFlight, Accounted, NotUndone
        <5> QED
          BY <3>2, <3>5, <3>6, <4>2, <5>1
      <4> QED
        BY <4>1, <4>2
    <3> QED
      BY <3>8, <3>9, <3>11, <3>12 DEF Accounted
  <2> QED
    BY <2>2, <2>3
<1> QED
  BY <1>1, <1>7, <1>8, <1>9 DEF Accounts

(* closeInternal takes all the files of the tab, which has every change of *)
(* a project it listens to; of another every change is forgone.            *)
LEMMA ClosesAccounts ==
    ASSUME TypeInv, LockInv, SaveForms, Accounts, crossed = {},
           NEW k \in Tasks, NEW at, Closes(k, at), tab[k[1]].active # None,
           \A j \in Tasks : j[1] = k[1] => ~Switching(j),
           UNCHANGED <<files, tab, home>>
    PROVE  Accounts'
<1>0. PICK p \in Project : p = tab[k[1]].active
  BY Records, TabType
<1> DEFINE m == tab[k[1]]
           r == Whole(p, m.fs)
<1>1. k \in Saves /\ k[1] \in Tab /\ m.fs \subseteq Change /\ p # None
  BY Records, TabType
<1>2. /\ save' = [save EXCEPT ![k] = r]
      /\ forgone' = IF m.autosaves # p \/ UnderWay(p) # {} THEN forgone \cup MadeIn(p)
                    ELSE forgone
  BY <1>0 DEF Closes, Whole, SavesAll, Overlaps
<1>3. /\ r.at = "put" /\ r.project = p /\ r.content = m.fs /\ r.changes = {} /\ r.whole = FALSE
  <2> HIDE DEF m
  <2> QED
    BY DEF Whole, NoSave
<1>4. m.autosaves \in {None, p} /\ save[k].project = None
  BY <1>0, <1>1, Listeners DEF LockInv, SavingCloses, Switching, SaveForms
<1> HIDE DEF r
<1>5. save'[k] = r /\ \A v \in Saves \ {k} : save'[v] = save[v]
  BY <1>1, <1>2 DEF TypeInv, TypeOK
<1>6. TaskSaves'
  BY <1>3, <1>4, <1>5, Records DEF Accounts, TaskSaves
<1>7. ASSUME NEW c \in Change, home[c] = None
      PROVE  Nowhere(c)'
  <2>1. Nowhere(c)
    BY <1>7 DEF Accounts
  <2>2. \A v \in Saves : c \notin save'[v].content /\ c \notin save'[v].changes
    BY <1>1, <1>3, <1>5, <2>1 DEF Nowhere
  <2> QED
    BY <2>1, <2>2 DEF Nowhere
<1>8. ASSUME NEW c \in Change, c \notin forgone', home[c] # None
      PROVE  Accounted(c)'
  <2>1. Accounted(c) /\ home[c] \in Project
    BY <1>2, <1>8 DEF Accounts, TypeInv, TypeOK
  <2>2. CASE home[c] # p
    <3>1. \A v \in Saves : save[v].project = home[c] \/ save'[v].project = home[c] => save'[v] = save[v]
      BY <1>3, <1>4, <1>5, <1>8, <2>2
    <3> HIDE DEF m
    <3> QED
      BY <2>1, <3>1, Untouched
  <2>3. CASE home[c] = p
    <3>1. UnderWay(p) = {} /\ m.autosaves = p
      BY <1>2, <1>8, <2>3 DEF MadeIn
    <3>2. UnderWay(p)' = {k}
      BY <1>1, <1>3, <1>5, <3>1 DEF UnderWay
    <3>3. c \in m.fs
      BY <1>1, <2>1, <2>3, <3>1 DEF Accounted, Seen
    <3>4. Kept(c)'
      BY <2>1, <2>3, <3>1 DEF Accounted, Kept
    <3>5. Seen(c)'
      BY <2>1 DEF Accounted, Seen
    <3>6. NotUndone(c)'
      <4>1. ~InFlight(k, c)' /\ c \in save'[k].content /\ save'[k].at = "put"
        BY <1>3, <1>5, <3>3 DEF InFlight
      <4> QED
        BY <2>3, <3>2, <4>1 DEF NotUndone
    <3>7. Alone(c)'
      BY <2>3, <3>2 DEF Alone
    <3> QED
      BY <3>4, <3>5, <3>6, <3>7 DEF Accounted
  <2> QED
    BY <2>2, <2>3
<1> QED
  BY <1>6, <1>7, <1>8 DEF Accounts

(* A tab stops to listen.  What it listened to was saved by task k, or the *)
(* changes it saw are forgone.                                             *)
LEMMA StopAccounts ==
    ASSUME TypeInv, LockInv, SaveForms, Accounts, crossed = {},
           NEW t \in Tab, NEW k \in Tasks, k[1] = t,
           \A j \in Tasks \ {k} : j[1] = t => ~Switching(j),
           \/ save' = save /\ ~Switching(k) /\ forgone' = forgone \cup tab[t].fs
           \/ save[k].at = "touch" /\ save' = [save EXCEPT ![k] = NoSave] /\ forgone' = forgone,
           UNCHANGED <<files, home>>,
           \A u \in Tab \ {t} : tab'[u] = tab[u],
           tab'[t].autosaves = None, tab'[t].fs \subseteq tab[t].fs, tab'[t].pending = {}
    PROVE  Accounts'
<1>0. /\ NoSave.project = None /\ NoSave.content = {} /\ NoSave.changes = {} /\ None \notin Project
      /\ k \in Saves
  BY Records DEF NoSave
<1>1. /\ \A v \in Saves \ {k} : save'[v] = save[v]
      /\ save'[k] \in {save[k], NoSave} /\ (~Switching(k) \/ save'[k] = NoSave)
  BY <1>0 DEF TypeInv, TypeOK
<1>2. TaskSaves'
  <2> SUFFICES ASSUME NEW j \in Tasks, save'[j].project # None, tab'[j[1]].autosaves # None
               PROVE  save'[j].project = tab'[j[1]].autosaves
    BY DEF TaskSaves
  <2>1. save'[j] = save[j] /\ j[1] \in Tab /\ j \in Saves
    BY <1>0, <1>1, Records
  <2>2. j[1] # t
    OBVIOUS
  <2> QED
    BY <2>1, <2>2 DEF Accounts, TaskSaves
<1>3. ASSUME NEW c \in Change, home[c] = None
      PROVE  Nowhere(c)'
  <2>1. Nowhere(c)
    BY <1>3 DEF Accounts
  <2>2. \A v \in Saves : c \notin save'[v].content /\ c \notin save'[v].changes
    BY <1>0, <1>1, <2>1 DEF Nowhere
  <2>3. \A u \in Tab : c \notin tab'[u].fs /\ c \notin tab'[u].pending
    BY <2>1 DEF Nowhere
  <2> QED
    BY <2>1, <2>2, <2>3 DEF Nowhere
<1>4. ASSUME NEW c \in Change, c \notin forgone', home[c] # None
      PROVE  Accounted(c)'
  <2>1. Accounted(c) /\ home[c] \in Project
    BY <1>4 DEF Accounts, TypeInv, TypeOK
  <2>2. save[k].project # None /\ tab[t].autosaves # None => save[k].project = tab[t].autosaves
    BY DEF Accounts, TaskSaves
  <2>3. CASE tab[t].autosaves # home[c]
    <3>0. tab'[t].autosaves # home[c]
      BY <1>4
    <3>1. CASE \A v \in Saves : save[v].project = home[c] \/ save'[v].project = home[c] =>
                 save'[v] = save[v]
      BY <2>1, <2>3, <3>0, <3>1, Untouched
    <3>2. CASE \E v \in Saves : /\ save[v].project = home[c] \/ save'[v].project = home[c]
                               /\ save'[v] # save[v]
      <4>1. save[k].project = home[c] /\ save' = [save EXCEPT ![k] = NoSave]
        BY <1>0, <1>1, <2>1, <3>2
      <4>2. ~InFlight(k, c)
        BY <1>0 DEF InFlight, SaveForms
      <4>3. \A v \in UnderWay(home[c]) \ {k} : v \in UnderWay(home[c])' /\ (InFlight(v, c)' <=> InFlight(v, c))
        BY <1>1 DEF UnderWay, InFlight
      <4>4. Kept(c)'
        <5>1. CASE c \in files[home[c]]
          BY <5>1 DEF Kept
        <5>2. ASSUME NEW u \in Tab, tab[u].active = home[c], tab[u].autosaves = home[c],
                     c \in tab[u].pending \/ tab[u].remote
              PROVE  Kept(c)'
          <6>1. u # t
            BY <2>3, <5>2
          <6> QED
            BY <5>2, <6>1 DEF Kept
        <5>3. ASSUME NEW v \in UnderWay(home[c]), InFlight(v, c)
              PROVE  Kept(c)'
          BY <4>2, <4>3, <5>3 DEF Kept
        <5> QED
          BY <2>1, <5>1, <5>2, <5>3 DEF Accounted, Kept
      <4>5. \A u \in Tab : /\ tab'[u].autosaves = home[c] <=> tab[u].autosaves = home[c]
                           /\ tab[u].autosaves = home[c] => tab'[u].fs = tab[u].fs
        BY <2>3, <3>0
      <4> QED
        BY <1>0, <2>1, <4>1, <4>4, <4>5, SaveOver DEF Accounted
    <3> QED
      BY <3>1, <3>2
  <2>4. CASE tab[t].autosaves = home[c]
    <3>1. c \in tab[t].fs
      BY <2>1, <2>4 DEF Accounted, Seen
    <3>2. save[k].at = "touch" /\ save' = [save EXCEPT ![k] = NoSave]
      BY <1>4, <3>1
    <3>3. save[k].project = home[c]
      BY <1>0, <1>4, <2>2, <2>4, <3>2 DEF TypeInv
    <3>4. k \in UnderWay(home[c])
      BY <1>0, <3>3 DEF UnderWay
    <3>5. c \in files[home[c]]
      BY <2>1, <2>4, <3>2, <3>4 DEF Accounted, NotUndone
    <3>6. \A v \in UnderWay(home[c]) : v = k
      BY <2>1, <3>4, <3>5 DEF Accounted, Alone
    <3>7. UnderWay(home[c])' = {}
      BY <1>0, <1>1, <2>1, <3>2, <3>6 DEF UnderWay, TypeInv, TypeOK
    <3>8. Kept(c)' /\ NotUndone(c)' /\ Alone(c)'
      BY <3>5, <3>7 DEF Kept, NotUndone, Alone
    <3>9. Seen(c)'
      BY <1>4, <2>1 DEF Accounted, Seen
    <3> QED
      BY <3>8, <3>9 DEF Accounted
  <2> QED
    BY <2>3, <2>4
<1> QED
  BY <1>2, <1>3, <1>4 DEF Accounts

(* openInternal: the tab that has the lock reads files that have every     *)
(* change of the project, as no other tab and no save has any.             *)
LEMMA OpenedAccounts ==
    ASSUME TypeInv, LockInv, SaveForms, Accounts, crossed = {},
           NEW k \in Tasks, Opened(k)
    PROVE  Accounts'
<1>0. PICK p \in Project : p = task[k].project
  BY DEF Opened, TypeInv
<1>1. PICK t \in Tab : t = k[1]
  BY Records
<1> DEFINE n == [tab[t] EXCEPT !.active = p, !.fs = files[p], !.autosaves = p]
<1>2. /\ tab' = [tab EXCEPT ![t] = n] /\ UNCHANGED <<files, save, home>>
      /\ forgone' = IF UnderWay(p) # {} THEN forgone \cup MadeIn(p) ELSE forgone
  <2>1. tab' = [tab EXCEPT ![t].active = p, ![t].fs = files[p], ![t].autosaves = p]
    BY <1>0, <1>1 DEF Opened
  <2>2. tab' = [tab EXCEPT ![t] = n]
    BY <2>1 DEF TypeInv, TypeOK, Manager
  <2> QED
    BY <1>0, <2>2 DEF Opened, store, Overlaps
<1>3. n.active = p /\ n.fs = files[p] /\ n.autosaves = p /\ n.pending = tab[t].pending /\ p # None
  BY TabType, Records DEF Manager
<1>4. tab[t].autosaves = None /\ tab[t].handle = p /\ holder[p] = t
  BY <1>0, <1>1, Records DEF Opened, LockInv, LoadsUnheard, HandleHeld
<1> HIDE DEF n
<1>5. tab'[t] = n /\ \A u \in Tab \ {t} : tab'[u] = tab[u]
  BY <1>2 DEF TypeInv, TypeOK
<1>6. TaskSaves'
  <2> SUFFICES ASSUME NEW j \in Tasks, save[j].project # None, tab'[j[1]].autosaves # None
               PROVE  save[j].project = tab'[j[1]].autosaves
    BY <1>2 DEF TaskSaves
  <2>1. task[j].at \in {"closing", "closing only"} /\ j[1] \in Tab
    BY Records DEF SaveForms, LockInv, SavingCloses
  <2>2. j[1] # t
    BY <1>1, <2>1 DEF Opened, LockInv, OneSwitch, Switching
  <2> QED
    BY <1>5, <2>1, <2>2 DEF Accounts, TaskSaves
<1>7. ASSUME NEW c \in Change, home[c] = None
      PROVE  Nowhere(c)'
  <2>1. Nowhere(c)
    BY <1>7 DEF Accounts
  <2>2. \A u \in Tab : c \notin tab'[u].fs /\ c \notin tab'[u].pending
    BY <1>3, <1>5, <2>1 DEF Nowhere
  <2> QED
    BY <1>2, <2>1, <2>2 DEF Nowhere
<1>8. ASSUME NEW c \in Change, c \notin forgone', home[c] # None
      PROVE  Accounted(c)'
  <2>1. Accounted(c) /\ home[c] \in Project /\ home'[c] = home[c] /\ files' = files /\ save' = save
    BY <1>2, <1>8 DEF Accounts, TypeInv, TypeOK
  <2>2. CASE home[c] # p
    <3>1. tab[t].autosaves # home[c] /\ tab'[t].autosaves # home[c]
      BY <1>3, <1>4, <1>5, <1>8, <2>2
    <3> QED
      BY <1>5, <2>1, <3>1, Untouched
  <2>3. CASE home[c] = p
    <3>1. UnderWay(p) = {}
      BY <1>2, <1>8, <2>3 DEF MadeIn
    <3>2. \A u \in Tab : tab[u].autosaves # p
      BY <1>3, <1>4, Listeners
    <3>3. c \in files[p]
      BY <2>1, <2>3, <3>1, <3>2 DEF Accounted, Kept
    <3>4. Kept(c)'
      BY <2>1, <2>3, <3>3 DEF Kept
    <3>5. Seen(c)'
      BY <1>3, <1>5, <2>1, <2>3, <3>2, <3>3 DEF Seen
    <3>6. UnderWay(home[c])' = {}
      BY <2>1, <2>3, <3>1 DEF UnderWay
    <3>7. NotUndone(c)' /\ Alone(c)'
      BY <3>6 DEF NotUndone, Alone
    <3> QED
      BY <3>4, <3>5, <3>7 DEF Accounted
  <2> QED
    BY <2>2, <2>3
<1> QED
  BY <1>2, <1>6, <1>7, <1>8 DEF Accounts

LEMMA DiscardAccounts ==
    ASSUME TypeInv, LockInv, SaveForms, Accounts, crossed = {}, crossed' = {},
           NEW t \in Tab, Discard(t), ~Switching(<<t, "recovery">>),
           UNCHANGED <<files, save, home>>
    PROVE  Accounts'
<1> DEFINE k == <<t, "recovery">>
           n == [StopAutoSave(tab[t]) EXCEPT !.handle = None, !.active = None, !.fs = {}]
<1>1. k \in Tasks /\ k[1] = t /\ ~Switching(k) /\ \A j \in Tasks \ {k} : j[1] = t => j = <<t, "user">>
  BY Records DEF Tasks
<1>2. ~Switching(<<t, "user">>) /\ tab' = [tab EXCEPT ![t] = n] /\ forgone' = forgone \cup tab[t].fs
  BY DEF Discard
<1>3. n.autosaves = None /\ n.fs = {} /\ n.pending = {}
  BY TabType, Emptied
<1> HIDE DEF n, k
<1>4. tab'[t] = n /\ \A u \in Tab \ {t} : tab'[u] = tab[u]
  BY <1>2 DEF TypeInv, TypeOK
<1>5. tab'[t].autosaves = None /\ tab'[t].fs \subseteq tab[t].fs /\ tab'[t].pending = {}
  BY <1>3, <1>4
<1>6. \A j \in Tasks \ {k} : j[1] = t => ~Switching(j)
  BY <1>1, <1>2
<1> QED
  BY <1>1, <1>2, <1>4, <1>5, <1>6, StopAccounts

LEMMA ClosedAccounts ==
    ASSUME TypeInv, LockInv, SaveForms, Accounts, crossed = {},
           NEW k \in Tasks, SaveEnds(k), Switching(k), NEW n,
           tab' = [tab EXCEPT ![k[1]] = n],
           n.autosaves = None, n.fs \subseteq tab[k[1]].fs, n.pending = {},
           UNCHANGED <<home, forgone>>
    PROVE  Accounts'
<1>1. PICK t \in Tab : t = k[1]
  BY Records
<1>2. tab'[t] = n /\ \A u \in Tab \ {t} : tab'[u] = tab[u]
  BY <1>1 DEF TypeInv, TypeOK
<1>3. \A j \in Tasks \ {k} : j[1] = t => ~Switching(j)
  BY <1>1 DEF LockInv, OneSwitch
<1>4. save[k].at = "touch" /\ save' = [save EXCEPT ![k] = NoSave] /\ files' = files
  BY DEF SaveEnds
<1> QED
  BY <1>1, <1>2, <1>3, <1>4, StopAccounts

(* A step that concerns neither the files nor the saves nor the tabs.      *)
LEMMA AccountsApart ==
    ASSUME Accounts, UNCHANGED <<files, save, tab, home, forgone>>
    PROVE  Accounts'
<1>1. TaskSaves'
  BY DEF Accounts, TaskSaves
<1>2. \A c \in Change : home[c] = None => Nowhere(c)'
  BY DEF Accounts, Nowhere
<1>3. \A p : UnderWay(p)' = UnderWay(p)
  BY DEF UnderWay
<1>4. \A c \in Change \ forgone : home[c] # None => Accounted(c)'
  BY <1>3 DEF Accounts, Accounted, Kept, Seen, NotUndone, Alone, InFlight
<1> QED
  BY <1>1, <1>2, <1>4 DEF Accounts

LEMMA EditStep == TypeInv /\ LockInv /\ SaveForms /\ EditInv /\ [Next]_vars => EditInv'
<1> SUFFICES ASSUME TypeInv, LockInv, SaveForms, EditInv, [Next]_vars, crossed' = {}
             PROVE  Accounts'
  BY DEF EditInv
<1> USE Records
<1>0. crossed \subseteq crossed'
  <2>1. ASSUME NEW t \in Tab,
               \/ \E c \in Change, remote \in BOOLEAN : Edit(t, c, remote)
               \/ \E i \in Flush : FlushAutoSave(t, i) \/ Flushed(t, i) \/ FlushFails(t, i)
               \/ \E p \in Project : Open(t, p) \/ Delete(t, p)
        PROVE  crossed' = crossed
    BY <2>1 DEF Edit, FlushAutoSave, Flushed, FlushFails, Open, Delete, history
  <2>2. ASSUME NEW t \in Tab, Discard(t)
        PROVE  crossed \subseteq crossed'
    BY <2>2 DEF Discard
  <2>3. ASSUME NEW t \in Tab, (\E p \in Project : Tombstoned(t, p)) \/ LookForStale(t)
        PROVE  crossed \subseteq crossed'
    BY <2>2, <2>3 DEF Tombstoned, LookForStale
  <2>4. ASSUME NEW t \in Tab,
               Close(t) \/ Closed(t) \/ DeleteProject(t) \/ OpenNext(t) \/ ListProjects(t)
        PROVE  crossed \subseteq crossed'
    BY <2>4 DEF Close, Closed, DeleteProject, OpenNext, ListProjects, history
  <2>5. ASSUME NEW w \in Saves, SaveStep(w)
        PROVE  crossed' = crossed
    BY <2>5 DEF SaveStep, history
  <2>6. ASSUME NEW k \in Tasks,
               \/ Granted(k) \/ Denied(k) \/ ClosedForNext(k) \/ CloseFails(k)
               \/ Opened(k) \/ OpenFails(k)
        PROVE  crossed \subseteq crossed'
    BY <2>6 DEF Granted, Denied, ClosedForNext, CloseFails, Opened, OpenFails, history
  <2>7. CASE UNCHANGED vars
    BY <2>7 DEF vars, history
  <2> QED
    BY <2>1, <2>3, <2>4, <2>5, <2>6, <2>7 DEF Next
<1>1. crossed = {} /\ Accounts
  BY <1>0 DEF EditInv
<1>2. ASSUME NEW t \in Tab, NEW i \in Flush, Flushed(t, i)
      PROVE  Accounts'
  BY <1>1, <1>2, EndAccounts DEF Flushed, SaveEnds, history
<1>3. ASSUME NEW t \in Tab, \E p \in Project : Open(t, p) \/ Delete(t, p)
      PROVE  Accounts'
  BY <1>1, <1>3, AccountsApart DEF Open, Delete, store, history
<1>4. ASSUME NEW t \in Tab, DeleteProject(t) \/ OpenNext(t) \/ ListProjects(t)
      PROVE  Accounts'
  BY <1>1, <1>4, AccountsApart DEF DeleteProject, OpenNext, ListProjects, store, history
<1>5. ASSUME NEW t \in Tab, NEW p \in Project, Tombstoned(t, p)
      PROVE  Accounts'
  <2>1. UNCHANGED <<files, save, home>>
        /\ (UNCHANGED <<tab, forgone>> \/ (Discard(t) /\ task[<<t, "recovery">>].at = "idle"))
    BY <1>5 DEF Tombstoned, store
  <2>2. CASE UNCHANGED <<tab, forgone>>
    BY <1>1, <2>1, <2>2, AccountsApart
  <2>3. CASE Discard(t) /\ task[<<t, "recovery">>].at = "idle"
    BY <1>1, <2>1, <2>3, DiscardAccounts DEF Switching
  <2> QED
    BY <2>1, <2>2, <2>3
<1>6. ASSUME NEW t \in Tab, LookForStale(t)
      PROVE  Accounts'
  <2>1. UNCHANGED <<files, save, home>> /\ task[<<t, "recovery">>].at = "stale"
        /\ (UNCHANGED <<tab, forgone>> \/ Discard(t))
    BY <1>6 DEF LookForStale, store
  <2>2. CASE UNCHANGED <<tab, forgone>>
    BY <1>1, <2>1, <2>2, AccountsApart
  <2>3. CASE Discard(t)
    BY <1>1, <2>1, <2>3, DiscardAccounts DEF Switching
  <2> QED
    BY <2>1, <2>2, <2>3
<1>7. ASSUME NEW t \in Tab, Close(t)
      PROVE  Accounts'
  <2> DEFINE k == <<t, "user">>
  <2>1. /\ k \in Tasks /\ k[1] = t /\ task[k].at = "idle" /\ tab[k[1]].active # None
        /\ Closes(k, "closing only") /\ UNCHANGED <<files, tab, home>>
        /\ crossed' = IF Switching(<<t, "recovery">>) THEN crossed \cup {t} ELSE crossed
    BY <1>7 DEF Close, store
  <2>2. \A j \in Tasks : j[1] = t => j = k \/ j = <<t, "recovery">>
    BY DEF Tasks
  <2>3. \A j \in Tasks : j[1] = t => ~Switching(j)
    BY <2>1, <2>2 DEF Switching
  <2> HIDE DEF k
  <2> QED
    BY <1>1, <2>1, <2>3, ClosesAccounts
<1>8. ASSUME NEW t \in Tab, Closed(t)
      PROVE  Accounts'
  <2> DEFINE k == <<t, "user">>
             n == [StopAutoSave(tab[t]) EXCEPT !.handle = None, !.active = None, !.fs = {}]
  <2>1. /\ k \in Tasks /\ k[1] = t /\ Switching(k) /\ SaveEnds(k)
        /\ tab' = [tab EXCEPT ![k[1]] = n] /\ UNCHANGED <<home, forgone>>
    BY <1>8 DEF Closed, history, Switching
  <2>2. n.autosaves = None /\ n.fs = {} /\ n.pending = {}
    BY TabType, Emptied
  <2> HIDE DEF n, k
  <2> QED
    BY <1>1, <2>1, <2>2, ClosedAccounts
<1>9. ASSUME NEW k \in Tasks, Granted(k)
      PROVE  Accounts'
  <2>1. /\ task[k].at = "lock" /\ UNCHANGED <<files, home>> /\ k[1] \in Tab
        /\ \A j \in Tasks : j[1] = k[1] => ~Switching(j)
    BY <1>9 DEF Granted, store
  <2>2. CASE tab[k[1]].active # None
    BY <1>1, <1>9, <2>1, <2>2, ClosesAccounts DEF Granted
  <2>3. CASE tab[k[1]].active = None
    <3>1. /\ tab' = [tab EXCEPT ![k[1]].handle = task[k].project] /\ UNCHANGED <<save, forgone>>
      BY <1>9, <2>3 DEF Granted
    <3>2. \A u \in Tab : /\ tab'[u].active = tab[u].active /\ tab'[u].autosaves = tab[u].autosaves
                         /\ tab'[u].fs = tab[u].fs /\ tab'[u].pending = tab[u].pending
                         /\ tab'[u].remote = tab[u].remote
      BY <3>1 DEF TypeInv, TypeOK, Manager
    <3>3. TaskSaves'
      BY <1>1, <3>1, <3>2 DEF Accounts, TaskSaves
    <3>4. ASSUME NEW c \in Change, home[c] = None
          PROVE  Nowhere(c)'
      BY <1>1, <2>1, <3>1, <3>2, <3>4 DEF Accounts, Nowhere
    <3>5. ASSUME NEW c \in Change \ forgone, home[c] # None
          PROVE  Accounted(c)'
      <4>1. Accounted(c) /\ home[c] \in Project /\ home'[c] = home[c] /\ files' = files /\ save' = save
        BY <1>1, <2>1, <3>1, <3>5 DEF Accounts, TypeInv, TypeOK
      <4> QED
        BY <3>2, <4>1, Untouched
    <3> QED
      BY <2>1, <3>1, <3>3, <3>4, <3>5 DEF Accounts
  <2> QED
    BY <2>2, <2>3
<1>10. ASSUME NEW k \in Tasks, Denied(k)
       PROVE  Accounts'
  BY <1>1, <1>10, AccountsApart DEF Denied, store, history
<1>11. ASSUME NEW k \in Tasks, ClosedForNext(k)
       PROVE  Accounts'
  <2> DEFINE n == [StopAutoSave(tab[k[1]]) EXCEPT !.handle = task[k].project]
  <2>1. /\ Switching(k) /\ SaveEnds(k) /\ task[k].project \in Project /\ k[1] \in Tab
        /\ tab' = [tab EXCEPT ![k[1]] = n] /\ UNCHANGED <<home, forgone>>
    BY <1>11 DEF ClosedForNext, history, Switching, TypeInv
  <2>2. n.autosaves = None /\ n.fs = tab[k[1]].fs /\ n.pending = {}
    <3>1. tab[k[1]] \in Manager /\ task[k].project \in Project \cup {None}
      BY <2>1, TabType
    <3>2. /\ StopAutoSave(tab[k[1]]) \in Manager /\ StopAutoSave(tab[k[1]]).fs = tab[k[1]].fs
          /\ StopAutoSave(tab[k[1]]).autosaves = None /\ StopAutoSave(tab[k[1]]).pending = {}
      BY <3>1, Stopped
    <3> QED
      BY <3>2 DEF Manager
  <2> HIDE DEF n
  <2> QED
    BY <1>1, <2>1, <2>2, ClosedAccounts
<1>12. ASSUME NEW k \in Tasks, CloseFails(k)
       PROVE  Accounts'
  BY <1>1, <1>12, EndAccounts DEF CloseFails, SaveFails, store
<1>13. ASSUME NEW k \in Tasks, OpenFails(k)
       PROVE  Accounts'
  BY <1>1, <1>13, AccountsApart DEF OpenFails, store
<1>14. CASE UNCHANGED vars
  BY <1>1, <1>14, AccountsApart DEF vars, store, history
<1> QED
  BY <1>1, <1>2, <1>3, <1>4, <1>5, <1>6, <1>7, <1>8, <1>9, <1>10, <1>11, <1>12, <1>13, <1>14,
     EditAccounts, FlushAccounts, FailAccounts, StepAccounts, OpenedAccounts
  DEF Next

(* flushAutoSave, closeInternal: a change is in the store, pending or in a *)
(* save under way, whichever saves fail, unless its loss is accounted for. *)
THEOREM EditsHold == Spec => []EditsKept
<1> DEFINE Inv == TypeInv /\ LockInv /\ SaveForms /\ EditInv
<1>1. Init => Inv
  BY InitType, InitLocks, InitEdits
<1>2. Inv /\ [Next]_vars => Inv'
  BY TypeStep, LockStep, FormsStep, EditStep
<1>3. Inv => EditsKept
  BY DEF EditInv, Accounts, Accounted, Kept, InFlight, EditsKept
<1> QED
  BY <1>1, <1>2, <1>3, PTL DEF Spec
=============================================================================
