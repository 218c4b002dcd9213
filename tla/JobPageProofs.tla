--------------------------- MODULE JobPageProofs ----------------------------
(***************************************************************************)
(* Proofs about JobPage, for every number of queries: a busy page is       *)
(* watched, what the page shows belongs to one job, and a user who waits   *)
(* is told how the last query ended.                                       *)
(***************************************************************************)
EXTENDS JobPage, TLAPS

Shown == Jobs \cup {NoJob}

TypeOK ==
  /\ status \in [Jobs -> Server!Statuses]
  /\ loop \in [Jobs -> Loops]
  /\ seen \in [Jobs -> Server!Statuses]
  /\ busy \in BOOLEAN /\ panel \in BOOLEAN /\ error \in BOOLEAN
  /\ latest \in Shown

(* A job the page is busy with is that of the last query, or was overtaken. *)
OvertakenOK == Active \subseteq overtaken \cup {latest}

(* A cancellation the page is about to hear of stays one. *)
SeenOK == \A j \in Jobs : seen[j] = "cancelled" => status[j] = "cancelled"

(* The panel shows a job; without overtaking, the last query's after it    *)
(* was answered, and state.currentJobId is its job since it was accepted.  *)
Answering == {"tracing", "over"}
Watching  == {"asking", "answered", "timer", "tracing"}
PanelOK ==
  /\ panel => lastResult \in Jobs
  /\ panel /\ overtaken = {} => loop[latest] \in Answering
  /\ latest # NoJob /\ overtaken = {} /\ loop[latest] \in Watching => current = latest

IInv ==
  /\ TypeOK /\ OvertakenOK /\ SeenOK /\ PanelOK
  /\ BusyPageIsWatched /\ PanelIsOfOneJob /\ PatientUserIsTold

LEMMA InitOK == Init => IInv
  BY NoJobAssumption
  DEF Init, IInv, TypeOK, OvertakenOK, SeenOK, PanelOK, Shown, Active, Loops,
      BusyPageIsWatched, PanelIsOfOneJob, PatientUserIsTold,
      Server!Init, Server!Statuses, Server!Terminal

-----------------------------------------------------------------------------
(* Steps by the server: of the records, only what is final matters.        *)
LEMMA ServerSteps ==
  ASSUME TypeOK, NEW j \in Jobs,
         \/ Server!Submit(j) \/ Server!AckCancel(j) \/ Server!Progress(j)
         \/ UNCHANGED server
  PROVE  /\ status' \in [Jobs -> Server!Statuses]
         /\ \A i \in Jobs : status[i] = "cancelled" => status'[i] = "cancelled"
  BY DEF TypeOK, server, Server!Submit, Server!AckCancel, Server!Progress, Server!Run,
         Server!Finish, Server!Abort, Server!Statuses, Server!Terminal

-----------------------------------------------------------------------------
(* A step keeps the invariant. Those of one job leave the loops of others  *)
(* as they are, and a job the page is busy with is the last query's unless *)
(* some were overtaken.                                                    *)
LEMMA StepOK ==
  ASSUME IInv, [Next]_vars
  PROVE  IInv'
<1> USE NoJobAssumption
    DEF IInv, TypeOK, OvertakenOK, SeenOK, PanelOK, Shown, Active, Loops, Answering, Watching,
        BusyPageIsWatched, PanelIsOfOneJob, PatientUserIsTold, Server!Statuses,
        Server!Terminal, server, display, result, pending, history
<1>1. ASSUME NEW ready \in BOOLEAN, Edit(ready)
      PROVE  IInv'
  BY <1>1 DEF Edit
<1>2. CASE Redraw
  BY <1>2 DEF Redraw, Overlay
<1>3. CASE NewAnalysis
  BY <1>3 DEF NewAnalysis, Silenced
<1>4. ASSUME NEW j \in Jobs, Analyze(j)
      PROVE  IInv'
  BY <1>4 DEF Analyze, To
<1>5. CASE Stop
  BY <1>5 DEF Stop
<1>6. ASSUME NEW j \in Jobs, ServeQuery(j)
      PROVE  IInv'
  BY <1>6, ServerSteps DEF ServeQuery, To
<1>7. ASSUME NEW j \in Jobs, StartPolling(j)
      PROVE  IInv'
  BY <1>7 DEF StartPolling, Silenced
<1>8. ASSUME NEW j \in Jobs, ServePoll(j)
      PROVE  IInv'
  BY <1>8 DEF ServePoll, To
<1>9. ASSUME NEW j \in Jobs, PollAgain(j)
      PROVE  IInv'
  BY <1>9 DEF PollAgain, Told, To
<1>10. ASSUME NEW j \in Jobs, TimerFires(j)
       PROVE  IInv'
  BY <1>10 DEF TimerFires, To
<1>11. ASSUME NEW j \in Jobs, ShowFailure(j)
       PROVE  IInv'
  BY <1>11 DEF ShowFailure, Told, To, ResetAnalyzeUI, ShowErrorAndReset
<1>12. ASSUME NEW j \in Jobs, ShowCancelled(j)
       PROVE  IInv'
  BY <1>12 DEF ShowCancelled, Told, To, ResetAnalyzeUI
<1>13. ASSUME NEW j \in Jobs, ShowResult(j)
       PROVE  IInv'
  <2>1. j \in overtaken \cup {latest}
    BY <1>13 DEF ShowResult, Told
  <2>2. overtaken = {} => j = latest /\ current = latest /\ latest # NoJob
    BY <1>13, <2>1 DEF ShowResult, Told
  <2>3. /\ busy' = FALSE /\ panel' = TRUE /\ lastResult' = j /\ mapOf' = current
        /\ loop' = [loop EXCEPT ![j] = "tracing"]
        /\ seen' = [seen EXCEPT ![j] = "absent"]
        /\ UNCHANGED <<status, error, current, traceOf, latest, overtaken>>
    BY <1>13 DEF ShowResult, Told, To, ResetAnalyzeUI, Overlay
  <2>4. TypeOK' /\ OvertakenOK' /\ SeenOK' /\ BusyPageIsWatched'
    BY <1>13, <2>3 DEF ShowResult, Told
  <2>5. PanelOK'
    BY <1>13, <2>2, <2>3
  <2>6. PanelIsOfOneJob'
    BY <1>13, <2>1, <2>2, <2>3
  <2>7. PatientUserIsTold'
    BY <1>13, <2>2, <2>3
  <2>8. QED BY <2>4, <2>5, <2>6, <2>7
<1>14. ASSUME NEW j \in Jobs, ShowTrace(j)
       PROVE  IInv'
  BY <1>14 DEF ShowTrace, To
<1>15. ASSUME NEW j \in Jobs, RequestFails(j)
       PROVE  IInv'
  BY <1>15 DEF RequestFails, To, ResetAnalyzeUI, ShowErrorAndReset
<1>16. ASSUME NEW j \in Jobs, ServerWorks(j)
       PROVE  IInv'
  BY <1>16, ServerSteps DEF ServerWorks
<1>17. CASE ServeStop
  BY <1>17 DEF ServeStop, Server!AckCancel
<1>18. CASE StopAnswered
  BY <1>18 DEF StopAnswered
<1>19. CASE StopFails
  BY <1>19 DEF StopFails
<1>20. CASE UNCHANGED vars
  BY <1>20 DEF vars
<1>21. QED
  BY <1>1, <1>2, <1>3, <1>4, <1>5, <1>6, <1>7, <1>8, <1>9, <1>10, <1>11, <1>12, <1>13, <1>14, <1>15, <1>16, <1>17, <1>18, <1>19, <1>20 DEF Next, User, Turn

-----------------------------------------------------------------------------
(* The inductive invariant of the page, for every number of queries.       *)
THEOREM InvariantHolds == Safety => []IInv
<1>1. Init => IInv
  BY InitOK
<1>2. IInv /\ [Next]_vars => IInv'
  BY StepOK
<1>3. QED BY <1>1, <1>2, PTL DEF Safety

(* A page that shows a query being worked on has a request or a timer      *)
(* under way (index.html:677-711).                                         *)
THEOREM BusyWatched == Spec => []BusyPageIsWatched
<1>1. IInv => BusyPageIsWatched
  BY DEF IInv
<1>2. QED BY <1>1, InvariantHolds, PTL DEF Spec

(* Result, map and trace are of one job, and of the last query unless the  *)
(* user went on too early.                                                 *)
THEOREM PanelSafe == Spec => []PanelIsOfOneJob
<1>1. IInv => PanelIsOfOneJob
  BY DEF IInv
<1>2. QED BY <1>1, InvariantHolds, PTL DEF Spec

(* A user who waits for each query is told how the last one ended.         *)
THEOREM PatientTold == Spec => []PatientUserIsTold
<1>1. IInv => PatientUserIsTold
  BY DEF IInv
<1>2. QED BY <1>1, InvariantHolds, PTL DEF Spec
=============================================================================
