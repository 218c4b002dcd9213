------------------------------ MODULE JobPage ------------------------------
(***************************************************************************)
(* The query side of frontend/index.html: handleAnalyze, pollJob,          *)
(* handleStop, renderResults and resetImagesAndQueryUI ("New analysis"),   *)
(* over the images panel and over a server that keeps JobLifecycle. A      *)
(* handler runs from one await to the next in one step; a request is       *)
(* answered by the server in a step of its own, in any order, or fails.    *)
(***************************************************************************)
EXTENDS Naturals

CONSTANTS
  Jobs,   \* the jobs the user's queries become, one per query
  NoJob

ASSUME NoJobAssumption == NoJob \notin Jobs

VARIABLES
  (* the server *)
  status, acked,
  (* the page: the Analyze button, the row that says a query is being      *)
  (* worked on, the panel of results and the banner for errors             *)
  canAnalyze, busy, panel, error,
  current,     \* state.currentJobId
  timerOf,     \* the job whose timer state.pollTimer names
  lastResult,  \* whose result the panel holds
  mapOf,       \* whose change map it asked for
  traceOf,     \* whose trace it lists
  (* requests *)
  loop,        \* loop[j]: how far the page is with job j
  seen,        \* seen[j]: the status the answer on its way to the page holds
  stop,        \* the request to cancel that is under way
  (* history: the last query since the page was cleared, and the jobs the  *)
  (* page was still busy with then                                         *)
  latest, overtaken

server  == <<status, acked>>
display == <<canAnalyze, busy, panel, error>>
result  == <<current, lastResult, mapOf, traceOf>>
pending == <<timerOf, loop, seen, stop>>
history == <<latest, overtaken>>
vars == <<server, display, result, pending, history>>

Server == INSTANCE JobLifecycle

(* A query is sent, accepted by the server or not; then a poll is sent,    *)
(* answered, and waited after; then the trace is fetched.                  *)
Loops == {"none", "submitted", "accepted", "asking", "answered", "timer",
          "tracing", "over"}

NoStop == [job |-> NoJob, answer |-> "none"]

Init ==
  /\ Server!Init
  /\ canAnalyze = FALSE /\ busy = FALSE /\ panel = FALSE /\ error = FALSE
  /\ current = NoJob /\ lastResult = NoJob /\ mapOf = NoJob /\ traceOf = NoJob
  /\ timerOf = NoJob
  /\ loop = [j \in Jobs |-> "none"]
  /\ seen = [j \in Jobs |-> "absent"]
  /\ stop = NoStop
  /\ latest = NoJob /\ overtaken = {}

-----------------------------------------------------------------------------
Active == {j \in Jobs : loop[j] \notin {"none", "over"}}

To(j, stage) == loop' = [loop EXCEPT ![j] = stage]

(* clearTimeout(state.pollTimer): ends a loop that sleeps on that timer,   *)
(* and not one whose request is under way.                                 *)
Silenced == {j \in Jobs : j = timerOf /\ loop[j] = "timer"}

(* resetAnalyzeUI. *)
ResetAnalyzeUI == busy' = FALSE /\ canAnalyze' = TRUE

ShowErrorAndReset ==
  /\ ResetAnalyzeUI
  /\ error' = TRUE
  /\ UNCHANGED panel

-----------------------------------------------------------------------------
(* updateAnalyzeButtonState, after typing or after whatever the images     *)
(* panel did: whether there is a question and an image. The button comes   *)
(* back although a query is being worked on. A failed upload shows itself  *)
(* in the banner for errors.                                               *)
Edit(ready) ==
  /\ canAnalyze' = ready
  /\ error' \in {error, TRUE}
  /\ UNCHANGED <<server, busy, panel, result, pending, history>>

(* renderImageAndOverlay asks for the map of currentJobId, whosever result *)
(* it draws.                                                               *)
Overlay(res) == mapOf' = IF res = NoJob THEN mapOf ELSE current

(* A thumbnail arrives: the result there is is drawn again. *)
Redraw ==
  /\ lastResult # NoJob
  /\ Overlay(lastResult)
  /\ UNCHANGED <<server, display, current, lastResult, traceOf, pending, history>>

(* resetImagesAndQueryUI. *)
NewAnalysis ==
  /\ loop' = [j \in Jobs |-> IF j \in Silenced THEN "over" ELSE loop[j]]
  /\ error' = FALSE /\ panel' = FALSE /\ busy' = FALSE
  /\ canAnalyze' = FALSE
  /\ current' = NoJob /\ lastResult' = NoJob
  /\ latest' = NoJob
  /\ overtaken' = Active \ Silenced
  /\ UNCHANGED <<server, mapOf, traceOf, timerOf, seen, stop>>

-----------------------------------------------------------------------------
(* Slip: the previous result stays while the next is awaited. *)
AnalyzeKeepsPanel(j) ==
  /\ canAnalyze
  /\ loop[j] = "none"
  /\ error' = FALSE /\ canAnalyze' = FALSE /\ busy' = TRUE
  /\ To(j, "submitted")
  /\ latest' = j
  /\ overtaken' = Active
  /\ UNCHANGED <<server, panel, result, timerOf, seen, stop>>

(* handleAnalyze, from the click or the Enter key to its await. *)
Analyze(j) ==
  /\ canAnalyze
  /\ loop[j] = "none"
  /\ error' = FALSE /\ canAnalyze' = FALSE /\ busy' = TRUE /\ panel' = FALSE
  /\ To(j, "submitted")
  /\ latest' = j
  /\ overtaken' = Active
  /\ UNCHANGED <<server, result, timerOf, seen, stop>>

ServeQuery(j) ==
  /\ loop[j] = "submitted"
  /\ Server!Submit(j)
  /\ To(j, "accepted")
  /\ UNCHANGED <<display, result, timerOf, seen, stop, history>>

(* The answer reaches handleAnalyze: pollJob silences the timer there is,  *)
(* and polls at once.                                                      *)
StartPolling(j) ==
  /\ loop[j] = "accepted"
  /\ current' = j
  /\ loop' = [i \in Jobs |-> IF i = j THEN "asking"
                             ELSE IF i \in Silenced THEN "over" ELSE loop[i]]
  /\ UNCHANGED <<server, display, lastResult, mapOf, traceOf, timerOf, seen,
                 stop, history>>

ServePoll(j) ==
  /\ loop[j] = "asking"
  /\ seen' = [seen EXCEPT ![j] = status[j]]
  /\ To(j, "answered")
  /\ UNCHANGED <<server, display, result, timerOf, stop, history>>

(* An answer that names one of these statuses reaches the page. *)
Told(j, statuses) ==
  /\ loop[j] = "answered" /\ seen[j] \in statuses
  /\ seen' = [seen EXCEPT ![j] = "absent"]

(* Slip: a job that has not begun is not asked for again. *)
PollAgainIfRunning(j) ==
  /\ Told(j, {"queued", "running"})
  /\ IF seen[j] = "running"
     THEN To(j, "timer") /\ timerOf' = j
     ELSE To(j, "over") /\ UNCHANGED timerOf
  /\ UNCHANGED <<server, display, result, stop, history>>

PollAgain(j) ==
  /\ Told(j, {"queued", "running"})
  /\ To(j, "timer")
  /\ timerOf' = j
  /\ UNCHANGED <<server, display, result, stop, history>>

TimerFires(j) ==
  /\ loop[j] = "timer"
  /\ To(j, "asking")
  /\ UNCHANGED <<server, display, result, timerOf, seen, stop, history>>

(* Slip: nobody is told. *)
ShowFailureSilently(j) ==
  /\ Told(j, {"failed"})
  /\ To(j, "over")
  /\ ResetAnalyzeUI
  /\ UNCHANGED <<server, panel, error, result, timerOf, stop, history>>

ShowFailure(j) ==
  /\ Told(j, {"failed"})
  /\ To(j, "over")
  /\ ShowErrorAndReset
  /\ UNCHANGED <<server, result, timerOf, stop, history>>

ShowCancelled(j) ==
  /\ Told(j, {"cancelled"})
  /\ To(j, "over")
  /\ ResetAnalyzeUI
  /\ UNCHANGED <<server, panel, error, result, timerOf, stop, history>>

(* renderResults, then the await of apiGetTrace. *)
ShowResult(j) ==
  /\ Told(j, {"done"})
  /\ To(j, "tracing")
  /\ ResetAnalyzeUI
  /\ panel' = TRUE
  /\ lastResult' = j
  /\ Overlay(j)
  /\ UNCHANGED <<server, error, current, traceOf, timerOf, stop, history>>

ShowTrace(j) ==
  /\ loop[j] = "tracing"
  /\ To(j, "over")
  /\ traceOf' = j
  /\ UNCHANGED <<server, display, current, lastResult, mapOf, timerOf, seen, stop,
                 history>>

(* A request fails, at the server or on its way: the two catch blocks. *)
RequestFails(j) ==
  /\ loop[j] \in {"submitted", "accepted", "asking", "answered", "tracing"}
  /\ To(j, "over")
  /\ ShowErrorAndReset
  /\ seen' = [seen EXCEPT ![j] = "absent"]
  /\ UNCHANGED <<server, result, timerOf, stop, history>>

-----------------------------------------------------------------------------
(* handleStop: the button is there while the page is busy, and disabled    *)
(* while a cancellation is under way. Nothing happens without a job.       *)
Stop ==
  /\ busy /\ stop = NoStop /\ current # NoJob
  /\ stop' = [job |-> current, answer |-> "awaited"]
  /\ UNCHANGED <<server, display, result, timerOf, loop, seen, history>>

ServeStop ==
  /\ stop.answer = "awaited"
  /\ Server!AckCancel(stop.job) \/ UNCHANGED server
  /\ stop' = [stop EXCEPT !.answer = "given"]
  /\ UNCHANGED <<display, result, timerOf, loop, seen, history>>

(* The answer changes a text. *)
StopAnswered ==
  /\ stop.answer = "given"
  /\ stop' = NoStop
  /\ UNCHANGED <<server, display, result, timerOf, loop, seen, history>>

StopFails ==
  /\ stop # NoStop
  /\ stop' = NoStop
  /\ error' = TRUE
  /\ UNCHANGED <<server, canAnalyze, busy, panel, result, timerOf, loop, seen,
                 history>>

-----------------------------------------------------------------------------
ServerWorks(j) ==
  /\ Server!Progress(j)
  /\ UNCHANGED <<display, result, pending, history>>

(* What the page has under way for job j: one thing at a time. *)
Turn(j) ==
  \/ ServeQuery(j) \/ StartPolling(j)
  \/ ServePoll(j) \/ PollAgain(j) \/ TimerFires(j)
  \/ ShowFailure(j) \/ ShowCancelled(j) \/ ShowResult(j) \/ ShowTrace(j)
  \/ RequestFails(j)

User ==
  \/ \E ready \in BOOLEAN : Edit(ready)
  \/ Redraw
  \/ NewAnalysis
  \/ \E j \in Jobs : Analyze(j)
  \/ Stop

Next ==
  \/ User
  \/ \E j \in Jobs : Turn(j) \/ ServerWorks(j)
  \/ ServeStop \/ StopAnswered \/ StopFails

Safety == Init /\ [][Next]_vars

(* Jobs come to an end (EveryJobEnds), requests are answered or fail, and  *)
(* timers fire; the user owes nothing.                                     *)
Spec == Safety /\ \A j \in Jobs : WF_vars(Turn(j)) /\ WF_vars(ServerWorks(j))
-----------------------------------------------------------------------------
(* A page that shows a query being worked on has a request or a timer      *)
(* under way that will end it (index.html:677-711).                        *)
BusyPageIsWatched ==
  busy => \E j \in Jobs : loop[j] \in {"submitted", "accepted", "asking", "answered", "timer"}

(* The panel holds the answer to the last query, unless the page was still *)
(* busy with the job it shows when the user went on; and a user who never  *)
(* did that sees result, change map, trace and report of one job.          *)
PanelIsOfOneJob ==
  panel =>
    /\ lastResult \in {latest} \cup overtaken
    /\ overtaken = {} =>
         /\ lastResult = latest /\ current = latest /\ mapOf = latest
         /\ loop[latest] = "over" => traceOf = latest \/ error

(* A user who waits for each query is told how the last one ended: by its  *)
(* result or by an error, unless it was cancelled.                         *)
PatientUserIsTold ==
  latest # NoJob /\ overtaken = {} =>
    \/ busy /\ loop[latest] \notin {"none", "tracing", "over"}
    \/ panel /\ lastResult = latest
    \/ error
    \/ status[latest] = "cancelled"

(* The page does not stay busy: whatever the user does meanwhile and       *)
(* whichever requests fail, Analyze is offered again and Stop goes away.   *)
PageComesToRest == busy ~> ~busy
=============================================================================
