--------------------------- MODULE MCBackgroundWork ---------------------------
(* The background work that has to settle: timetable refreshes, grades and  *)
(* announcements.  The components do not interact; a behaviour runs one of  *)
(* them, chosen at the start, and leaves the others as they began.          *)
EXTENDS ClassRefresh, GradeSync, FeedAnnouncements

VARIABLE part

workVars == <<refreshVars, gradeVars, announcementVars, part>>

MCHome == [c \in Callers |-> CHOOSE p \in Procs : TRUE]

MCInit ==
  /\ RefreshInit /\ GradeInit /\ AnnouncementInit
  /\ part \in {"timetables", "grades", "official messages", "holidays"}

\* Bounds: at most one of the students leaves, and the white list is left
\* alone once no plan waits that it could be confused with.
PlanBound ==
  /\ Cardinality(graduated') <= 1
  /\ (\A m \in Plans : plans[m].state \in {"done", "stopped"}) => whiteList' = whiteList

AnnouncementPart ==
  \/ CommonNext
  \/ part = "official messages" /\ PlanNext /\ PlanBound
  \/ part = "holidays" /\ HolidayNext

MCNext ==
  /\ UNCHANGED part
  /\ \/ part = "timetables" /\ RefreshNext /\ UNCHANGED <<gradeVars, announcementVars>>
     \/ part = "grades" /\ GradeNext /\ UNCHANGED <<refreshVars, announcementVars>>
     \/ /\ part \in {"official messages", "holidays"}
        /\ AnnouncementPart /\ UNCHANGED <<refreshVars, gradeVars>>

(* The fairness of the component that runs. *)
MCFairness ==
  /\ WF_refreshVars(part = "timetables" /\ RefreshWork)
  /\ WF_announcementVars(part \in {"official messages", "holidays"} /\ AnnouncementWork)
  /\ WF_gradeVars(part = "grades" /\ \E h \in Hosts : fetch[h].pc = "none" /\ GetUpdateScore(h))
  /\ \A h \in Hosts : WF_gradeVars(part = "grades" /\ FetchStep(h))
  /\ \A w \in Workers : WF_gradeVars(part = "grades" /\ WorkerStep(w))

MCSpec == MCInit /\ [][MCNext]_workVars /\ MCFairness
=============================================================================
