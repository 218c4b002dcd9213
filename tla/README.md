# A verification development for SatQuery

SatQuery answers questions about satellite images: a FastAPI server takes images in,
queues a query as a job, runs it through a planner (co-registration, tiling,
gated inference in a worker thread, an evidence gate) and keeps projects of files on
disk. A web page sends the queries and polls the jobs. This directory models server and
page in TLA+, checks the models with TLC and proves
theorems about them with TLAPS. Paths such as `queue.py:117` are relative to
`backend/agent`, `backend/api` etc.; `PROJECT.json` ("map") names the lines every
definition stands for.

## 1. The system

| component | state it keeps | operations | what is hard about it |
|---|---|---|---|
| Job queue, planner, trace (`agent/queue.py`, `planner.py`, `trace.py`) | `JobRecord`s, asyncio tasks, one `asyncio.Semaphore` | submit, cancel, poll; `Planner.execute` | a cancel may hit any await, also one at the gate whose turn was granted; threads cannot be cancelled |
| Inference engine (`model_registry/inference.py`, adapters) | the ladder's locals, per call | `run_inference` | retries after out of memory with ever smaller batches, lower tiers, dropped tiles |
| Model loader (`model_registry/loader.py`) | resident copies, their age | `get`, eviction | shared by threads without a lock: what one has read of it is old when it acts |
| Chunked uploads, image store (`agent/store.py`) | sessions and `image_store` in memory, chunk files on disk | `write_chunk`, `assemble`, `discard`, `put` | chunks repeated, reordered, resent after a restart that keeps the files and loses the session |
| Image preparation (`preprocessing/validation.py`, `store.py`) | `data/<content hash>/metadata.json` and its one temporary file | `validate_and_prepare` in a thread | two threads prepare the same content |
| Project store (`projects/store.py`) | one JSON file per project, rewritten in place | create, add_file, rename, delete | requests interleave at their awaits, a crash tears a file |
| HTTP interface (`api/main.py`) | wiring; request locals | upload, projects, query, cancel, report, thumbnail, change map | check, await, then act on what was checked |
| Evidence gate (`evidence/*`) | none (pure, but for the LLM client) | `validate_and_respond` | which answers may leave; retries of the language model |
| Grounding adapter (`model_registry/adapters/grounding_adapter.py`) | none | boxes into the scene, suppression, one evidence per batch | the tiles overlap and may come in several batches |
| Change adapter, deterministic change engine (`change_detection_adapter.py`, `deterministic_change.py`, `mock_registry.py`) | rasters on disk | pairs tiles, sums or mosaics what each pair says | frames of different place and size, pixels that several tiles show |
| Intent, search decision, web search (`agent/intent.py`, `search_decision.py`, `search/`) | none | classification by keywords; one HTTP call | a failed search must not fail the job |
| Tiling, stitching, co-registration, normalisation (`preprocessing/*`) | tiles, their records, rasters and mosaics on disk, keyed by image | numerical code; writing tiles and rasters | boundaries, overlaps, order of non-maximum suppression; two jobs that write the same files |
| Reports, thumbnails, change maps (`main.py`, `thumbnail.py`, `pdf_report.py`) | cache files on disk | render once, serve | a cache file that another thread is still writing, or that is older than what it shows |
| Browser client (`frontend/index.html`) | the current job, a poll timer, the image slots | handleAnalyze, pollJob, handleStop, handleFileSelected, New analysis | a poll, an upload or a thumbnail answered after the page went on |

How they interact: the HTTP handlers run on one event loop. `submit` creates a task;
the task awaits worker threads (`asyncio.to_thread`, the loop's default executor) for
every call into preprocessing, inference and evidence. The gate admits
`max_concurrent_inference` tasks to inference. The inference engine and its loader are
module-level singletons, hence shared by those threads. Uploads fill `image_store`,
which `/api/query` reads; projects are what outlives the process, and at a restart
`image_store` is refilled from them.

What makes each correct: (queue) an acknowledged cancel never yields an answer, a
terminal record never changes, turns at the gate are never lost and come in order, every
job ends; (planner) no inference without alignment and without all tiles, the trace
explains the outcome; (ladder) every tile is answered for once or dropped as the last
resort, the loop terminates; (loader) one copy per model, within the budget, oldest out
first, as far as nobody comes between; (intake) chunks are assembled as acknowledged,
projects lose no file but by a crash, what a project shows can be queried, crash or not; (tiling, grounding) every pixel is in a tile
and an object no larger than the overlap is in the answer, or a warning says why not;
(change) only aligned pairs are measured and a pixel counts once; (evidence gate) a
refusal is never answered, no number is invented, the band is that of the weakest
signal, and caveats reach the reader; (files) a job is disturbed by nothing but a job or
an upload of the same image, and what is served as its map is its own; (page) what is
shown belongs to one query, a user who waits is told how it ended, and the page never
stays busy.

## 2. Modules

| module | models | its state and actions |
|---|---|---|
| `JobLifecycle` | what a client of the job API may rely on | `status`, `acked`; Submit, AckCancel, Run, Finish, Abort |
| `JobQueue` | `queue.py`, `planner.py`, `trace.py`, the thread wrappers of `main.py`, CPython's semaphore and executor (external) | the record; the planner's locals; `pc[j]`, the await a task is suspended at; the call in flight; the semaphore's value, waiters and futures. One action per turn of a task (`GateGranted`, `InferenceDone`, ...), per request (`Submit`, `Cancel`) and per thread event (`StartCall`, `Return`) |
| `Ladder` | the bookkeeping of `_run_with_oom_ladder` as operators on a record of its locals | `Processed`, `Shrunk`, `SteppedDown`, `TileDropped` |
| `OomLadder` | one caller of the ladder, the batch's fate left open: the abstract specification of a call | `ladder` |
| `ModelLoader` | what `loader.py` does to `resident`, kept in the order of `last_used` | `Touch`, `Unload`, `Install`; `RoomFor`, `Oldest` |
| `InferenceRuntime` | several threads in `run_inference` over one loader | `at[t]`, the place of thread t between two looks at the loader (`GetHit`, `GetMiss`, `DropStale`, `LookAtBudget`, `ChooseVictim`, `Evict`, `Insert`, `Collides`) or in the model's call |
| `ChunkSessions` | `UploadSession`, `UploadSessionStore`, the files under `CHUNK_DIR` | `KeepChunk`, `RefuseChunk`, `CompleteUpload`, `SessionsLost` |
| `PreparedImages` | verdicts of `validate_and_prepare`; `_atomic_write_json` step by step, with the file a thread has open followed through a rename | `OpenTemp`, `Dump`, `Replace`, `ReplaceRaises` |
| `ProjectStore` | `projects/store.py` | `Create`, `AddFile`, `Delete`, `DieSaving` |
| `Intake` | composes the three, with the upload and project endpoints, `Crash` and `Restart` | `at[u]`, the place of request u; one action per turn of the loop or step of a thread |
| `Tiling` | `tiling.py`: stride, offsets, windows; boxes and their overlap | operators |
| `Sublists` | what a list comprehension with a condition leaves of a list | `ElementsAt` |
| `Stitching` | `box_iou`, `nms` | operators |
| `Intent` | `intent.py`, `search_decision.py`, the earlier turns of `main.py`; `MCJobQueue` makes `JobQueue`'s requests of it | operators; a text is the kinds of keyword in it and the form of a question |
| `Scene` | a query for objects over one image, or over a radar and an optical image: the grid, the batches of the ladder (extends `OomLadder`), the grounding and the fusion adapter, the merge | `Tile`, `Detect`, `RunOut`, `Fail`, `Merge` on `tiles`, `partial`, `evidence` |
| `ChangePairs` | a change query over two images: verdict, refusal, tiles paired by offset, sum or mosaic | `CheckCoregistration`, `Refuse`, `TileAndPair`, `NothingCompared`, `Compare` |
| `EvidenceResponse` | `validate_and_respond` with a language model that may raise, send no format string or type a number of its own | `Abstain`, `ClientRaises`, `ClientSendsNoFormat`, `ClientWrites`, `FallBack`, `Respond` |
| `SharedFiles` | files written in place, without a temporary name or a lock: truncated, half written, mixed by two writers, torn by a crash | `OpenFile`, `CloseFile`, `FilesAfterCrash` on `holds`, `writing` |
| `Artifacts` | the tiles, records, rasters and mosaics of change detection, `cog.tif` written again, and the change-map, report and thumbnail endpoints with their caches | `at[j]`, the place of a job's thread; `req[r]`, a request; `OpenTile`, `RecordTile`, `Compare`, `OpenRaster`, `OpenMosaic`, ..., `Asks`, `Render`, `Write`, `Serve` |
| `JobPage` | the query side of `index.html` over `JobLifecycle`; one action per handler from one await to the next, and per answer of the server | the button, panel and banner; `loop[j]`, how far the page is with job j; `Analyze`, `PollAgain`, `ShowResult`, `Stop`, `NewAnalysis`, `Redraw`, ... |
| `ImageSlots` | the images panel of `index.html`: slots, uploads, thumbnails | `AddSlot`, `RemoveSlot`, `ClearSlots`, `ChooseFile`, `UploadDone`, `ThumbLoaded`, `PutProjectFile`, ... |
| `QueryAnswer` | composes the three as the planner does | `Locate`, `Measure`, `HandOver`, `Judge` |
| `MC*` | values of the constants for TLC | |
| `OperatorProofs` | lemmas about the operators of `Ladder`, `Tiling`, `Sublists` and the community modules | |
| `JobQueueProofs`, `InferenceRuntimeProofs`, `IntakeProofs`, `QueryAnswerProofs`, `ArtifactsProofs`, `JobPageProofs`, `ImageSlotsProofs` | theorems, see section 4 | |

What the models abstract: an image is an identity or a short sequence of chunks (its
content hash is its content), a tile is a position, evidence is one of the kinds the
planner tells apart, sizes are small numbers, a verdict is a modality and a class of
error. In `Scene` the detector is external: it misses nothing, and either reports
objects a tile cuts or does not; masks are left out, and what suppression keeps stays in
its place, where the code lists it label by label. `ChangePairs` has one axis, and an
image is the ground it shows and the error of its georeferencing; which pixels changed is
any choice. In `Artifacts` the content of a raster is which images it compares and
whether some of it is missing; the grid is one or two tiles per image, a file that is
being written cannot be read or is read with a gap, and the thumbnails and boxes inside
a report are left out. In `JobPage` a text is left out unless it is the banner for
errors, and jobs are what queries become: one query, one job. In `Intent` the keyword lists are kinds, and a text that holds any of a list
names its kind. In `EvidenceResponse` numbers are in units of 0.00001 and a text is the set of
numbers it shows; digits in labels are left out, and `ChangeEvidence` lets the
deterministic engine's prose show every number that any of its phrasings does. A
refused query reaches the same gate as an answered one. All of the control - guards, early returns, exceptions, their order - is kept.
The loader takes no lock, so its `get` is a step for each look at `resident` on which the
thread acts later; one that goes through `resident` while another adds or removes a copy
may raise (`Collides`). Closing a handle is taken to return. Upload ids that differ after
the last dot are assembled into one file (`AssembledAs`).
Definitions commented `Slip:` are plausible mistakes in that code; they are used by no
specification and serve to show that each property notices one (PROJECT.json,
"mutants").

## 3. Runs

| run | instance | states | shows |
|---|---|---|---|
| `paths` | 2 jobs, one question per way through the planner (one of them a follow-up), gate 1, 1 thread | 173 thousand | every stage's success, failure and cancellation: types, acknowledgements, records, plans, traces, finality; every job ends; `JobLifecycle!Spec`, its fairness included, is implemented |
| `gate` | 4 jobs, one-image requests, gate 2, 2 threads | 777 thousand | the semaphore's accounting, lost wake-ups, order; four jobs are the fewest with two holders, one granted waiter and one behind it |
| `shared` | 2 threads, 3 models with the registry's tiers and footprints, budget 82 (of 100 MB) | 1.6 million | tiles, losses, descent, each thread implements `OomLadder`; budget and eviction order of every load and eviction that the other thread does not overtake |
| `intake` | 2 concurrent requests, 1 project, 2 upload ids with one assembled file, of 2 chunks each, one content, crash and restart at any time | 2.0 million | assembled uploads, projects, queryable images, the metadata of known images |
| `answer` | 3650 queries: scenes of 1 to 9 tiles, of one image or of radar and optical, tiles of 4 pixels, overlaps of 0, 15 and 50 percent, one or two objects; pairs of frames equal, shifted, of two sizes or apart, offsets below, at and beyond the limit; evidence with each kind of signal and warning and the values next to the thresholds; a client or none, one retry | 743 thousand | from the images to the answer: coverage, objects reported, pixels counted once, refusals, numbers, bands, caveats |
| `page` | 2 queries, every request lost or answered late, in any order | 632 thousand | result, map and trace of one job, the patient user is told, the page comes to rest |
| `slots` | 2 kinds of image, 4 slots drawn in all, 2 requests under way | 1.4 million | slot, picture and query agree on the image |
| `files` | 2 jobs, 2 clients, 4 images: a comparison of one tile and one of two with the same image after, and one that shares no image with the first; a cancel while tiling or comparing, and a second upload or a crash | 2.9 million | who can damage a job's files, and what is served as its map, report or thumbnail |

The other runs have `expect: violation`: each checks one sentence of the documentation
that the code does not keep (PROJECT.json, "findings"):
`collide` (a cancelled job's inference runs beside the next one's),
`oomraise` (out of memory in a two-image task ends in a ValueError),
`torn` (a shared temporary file defeats the atomic write),
`double` (after out of memory one object is named twice).

Met while modelling, without a run of their own:
* A file that arrives in chunks is assembled under a name that ends in `.assembled`
  (`agent/store.py:69`) and validated under that name (`main.py:348,355`), an extension
  `validation.py:124-131` refuses: every completed chunked upload answers an invalid
  image, against `store.py:9-10`.
* Tiles of two images are paired by the offset from each image's own corner
  (`change_detection_adapter.py:70-76`), while co-registration is measured over the
  common ground (`coregistration.py:170-199`): an aligned pair whose frames start at
  different places compares different ground, against
  `change_detection_adapter.py:5-6` ("one shared grid").
* Rasters are named after the image before and mosaics after the image after
  (`deterministic_change.py:196`, `stitching.py:383`): a later comparison with the same
  image overwrites what a finished job shows, against `main.py:551` ("the actual
  computed change-probability raster"). `MapIsOwn` and `ServedMapIsOwn` say exactly which jobs
  are exposed (`Overwritten`).
* If a raster is overwritten while its PNG is rendered, the PNG is newer than the raster
  and is served with the old content from then on (`main.py:572`).
* A thumbnail found while another request writes it is served half written; after a
  crash, or if the image was uploaded again meanwhile, for ever (`thumbnail.py:39`),
  against "Safe to call on every page load" (`thumbnail.py:35`).
* Two jobs that tile the same image at once share the temporary file of each tile's
  record (`preprocessing/store.py:76-79`): one of them fails with FileNotFoundError and
  answers that the image could not be prepared.
* New analysis does not stop the queries and uploads under way: their answers reset the
  fresh page, fill its first slot, or show a result in it, against
  `index.html:604-608`. The properties of `page` and `slots` except exactly these
  (`overtaken`, `disturbed`): they say what holds for a user who waits for each query and
  of slots left alone, and of the others only that the panel shows one job and the page
  comes to rest.
* Stop while a query is being submitted cancels the previous job (`index.html:659`); an
  answer to an earlier submission that arrives late silences the polling of the newer
  one (`index.html:650,678`); the text "Cancelled." is hidden in the turn that writes it
  (`index.html:688-689`); when a trace cannot be fetched the list keeps the one before.
* A file over the limit in the middle of a batch aborts the request with 413 after its
  predecessors were recorded (`main.py:718`); the client gets no list of them.
* A call that starts at its configured tier is served by the copy an earlier call's
  ladder left at a lower tier (`loader.py:104-106`, `inference.py:209-210`), with no
  warning, against `inference.py:54-55`.
* Two threads that load models at once (a cancelled job's inference and the next one's)
  exceed the budget if both look at it before either inserts (`loader.py:123,137`), against
  `loader.py:83-85`; a victim that is used between its choice and its unloading goes all
  the same (`loader.py:151-152`), and `vram_used_mb` raises "dictionary changed size during
  iteration" if a copy comes or goes while it sums (`loader.py:166`), which fails the
  call. `ResidentWithinBudget` and `EvictsOldestOnly` except exactly the loads and
  evictions that were overtaken so (`overtaken`).
* The confidence is rounded to four decimals before it is given its band
  (`confidence.py:43`), so a weakest signal of 0.74996 is HIGH, against
  `confidence.py:39-41` ("never overstates the weakest link"). `WeakestLinkSpeaks` allows
  half of the fourth decimal.
* A metadata.json that two threads wrote at once may be blank or torn while the process
  runs, after one of them has answered that the image is valid (`doubtful`); it stays so
  until the content is uploaded again.
* Uploads whose ids differ only after the last dot (`scan.1`, `scan.2`) are assembled into
  one file (`agent/store.py:69`, `with_suffix`): one may be read as the other.
* A batch upload whose project is deleted meanwhile recreates the directory
  (`main.py:731`); its file stays, against `main.py:674-675`.
* `templates.py` is said to pass the claim check by construction, but a value that is
  rounded for display may not: 0.0461 percent is shown as 0.05, which agrees with it
  neither to one decimal (0.0 and 0.1) nor within 5 percent. The final check then
  replaces the template by itself. `NumbersTrace` hence allows the displayed tokens.
  The model rounds ties to the even neighbour, where Python's `round` goes by the
  binary fraction (`round(0.05, 1)` is 0.1); the property does not depend on it.
* The template of a change query is filled in at `templates.py:42-48`, outside the `try`
  whose comment says it degrades "rather than crash" when there is no change map
  (`templates.py:54-56`). Today's adapters always give one, so the case does not arise:
  `WellFormed` names it, and `NumbersTrace` of `answer` checks that it holds.
* Earlier turns are put before a follow-up question (`main.py:298-310`) under the label
  CURRENT USER QUESTION, and `should_search_web` finds "current" in the label: with the
  toggle on every follow-up is searched, against `search_decision.py:28-32`. Keywords of
  the earlier turns, the assistant's too, classify the question as well.
* `_merge_evidences` adds the batches' `stats`; a `generation_score`
  (`vlm_adapter.py:55`) of several batches may exceed 1.
* The deterministic engine divides the mosaic's pixels by the sum of the overlapping
  tiles (`mock_registry.py:217,222`), so its percentage "of the valid analyzed area" is
  too low for images of several tiles.

Bounds. Jobs, threads, contents and projects are as many as the interleavings of
interest need (two actors, four at the gate); symmetric where they are
interchangeable. `MaxFiles` stops clients from adding to a project that has one file,
`MaxTotal` bounds `total_chunks`; requests are small sets given in the MC modules.
`intake` has no file of unknown kind, no raster that is valid or fails only now and then,
and one content to which the chunks lead; the proof has them all. In
`shared` no bound is needed: tiers, batch sizes and tiles only descend, and the history
`recent` keeps each model once. In `answer` the grid's arithmetic is that of any size:
tiles of 4 pixels make every case of the march (one tile, an exact fit, an anchored last
tile, rounding of the overlap up, down and to even), and 9 by 3 pixels at half an overlap
give the longest row. In `page` two queries make the overtaking pair; a job's poll may be
repeated any number of times. In `slots` `MaxElements` bounds the slots ever drawn
(removing, adding and clearing included), `MaxInFlight` the requests. In `files` two
constraints, of the MC module, keep apart what cannot meet: thumbnails and jobs have no
file in common but `cog.tif`, which both only read, so thumbnails are asked for either
before any job or not at all (`JobsOrThumbnails`); and a behaviour has a second upload
or a crash (`OneFault`). Two of its comparisons share the image after: the raster of the
one-tile comparison and the mosaic of the other are what may be taken for each other;
two jobs may also make the same comparison, or share no image (the third comparison and
the first), where neither may notice the other. Deadlock is checked in the ladder's, the
slots' and the intake's runs; the queue's runs, `answer`, `page` and `files` switch it
off because all jobs, or the one query, may be over.

Fairness (`paths` and `page` use it). In `paths`: weak fairness of each task's turn (the loop runs ready
callbacks in order of arrival), of the pool taking a queued call when a thread is free
and of a call's return (the code puts timeouts around its isolated and network calls;
a model that never returns would hold the job for ever, and that is assumed not to
happen). Submissions and cancels are never fair. In `page`: weak fairness of what the
page has under way for each job (a fetch ends with an answer or an error, a timer fires)
and of the server's progress with it, which `EveryJobEnds` and `ImplementsLifecycle`
justify; the user and Stop are never fair.

## 4. Proofs

Everything is for all values of the constants that satisfy the named ASSUMEs, each of
which some run evaluates.

* `JobQueueProofs`: the inductive invariant `IInv == TypeOK /\ JobInv /\ GateInv`.
  `JobInv` relates each job's `pc` to its record (`RecordFits`) and to the planner's
  locals (`PlanFits`): without it, "no inference unless aligned" is not inductive, as
  nothing else says that a job at the gate has been checked. `GateInv` adds to the
  accounting of the gate that the queue holds each waiter once (`QueueOK`).
  From it follow `TypeCorrect`, `GateSafe`, `AckSafe`, `RecordSafe`, `PlanSafe`,
  `TerminalFinal`, `NobodyOvertakes`, and `Refinement`: the queue implements
  `JobLifecycle!Safety`. `FailureSafe` and `TraceSafe` rest on a second invariant beside
  it, `TraceInv`, which says for each `pc` what the trace must hold by then; that traces
  only grow while a job runs (`AppendHolds`, `TracedEffect`) carries it through a step.
* `OperatorProofs`: lemmas that speak of no variable. The library's induction theorems
  take an operator, which no prover here can instantiate; `NatSetInduction` takes the
  *set* of the numbers that satisfy the claim instead, with which a claim about folds and
  recursive functions can be proved after all. From it: what `SumFunctionOnSet` of the
  community modules is, in whatever order it takes its terms (`SumTakesAny`, then
  `SumOfNaturals`, `SumShifts`); that a list of lists is joined in order (`JoinedLists`,
  `JoinedHold`); that a sublist holds the chosen elements and no others, each once
  (`SublistHolds`, `SublistPicks`) and no list maps one to one into a shorter one
  (`NoLonger`); that a finite strict order has exactly one set that
  keeps an element when nothing kept before strikes it, what greedy suppression computes
  (`KernelExists`); that the march of `_axis_offsets` covers its axis for every size,
  tile and stride (`AxisOffsetsHold`), hence the windows the image (`WindowsHold`). And
  the ladder: `LadderInv` says of its locals that batches and dropped tiles partition
  what was handled and that the tier is the last one once a tile was dropped; each
  operator of `Ladder` preserves it and descends.
* `InferenceRuntimeProofs` lifts the ladder's lemmas to any number of threads
  (`ThreadInv` ties the place in `process_batch` to the loop), and shows that every
  thread implements `OomLadder`. The loader they share has an invariant of its own, `SInv`:
  the copies are one for each model, in the order of `recent`, in which `get()` last gave
  them (`Ordered`), without which "the oldest" could not be shown to be that; and what
  each thread has seen of the loader and has not acted on (`SeenInv`: there was room, or
  there was none; the victim was the oldest) holds still unless the history `overtaken`
  says what another thread did. Every step, of whichever thread, is shown to keep what
  all others have seen or to enter it there. From it follow `BudgetSafe`, by sums over
  the copies (`VramHolds`), and `EvictionSafe`.
* `IntakeProofs`: that a project's images can be asked about (`QueryableSafe`) is not
  inductive: a restart brings back what the projects say, and a record that says
  "unknown" would bring back nothing. `IInv` hence adds that an entry with an image
  names a real modality (`EntryOK`), which it has from the request (`ReqOK`) through the
  thread's verdict (`PrepOK`); and that a thread beyond the opening of the temporary
  file finds it there or finds `metadata.json` (`PrepOK`), as no step of a thread
  removes either but by turning the one into the other (`FilesKept`). `MetadataSafe` says
  that the file is whole, too: what a thread that nobody mingled with has open is its
  own, so what it renames is what it wrote; the history `mingled` marks the threads that
  shared a temporary file, `doubtful` the contents they prepared. `ProjectsGrow` needs the same invariant for what a request adds, and that the one step
  which tears a file ends the process.
  `UploadsSafe` has one of its own, `SessionInv`: files of a session lost in a crash may
  lie where an open one will write, so what is assembled is right only because `received`
  of the open session names exactly the chunks it was told (`OpenSession`); that the
  sizes it adds up are the lengths of what is assembled is a sum moved by one place
  (`SumShifts`).
* `ArtifactsProofs`: `DamageTraced`, `MapStaysOwn`, `ServedMapStaysOwn` and
  `ThumbnailStaysWhole`, for any number of jobs, images and requests. None is inductive:
  they say what a reader sees, and nothing in them says who may write the file before.
  `IInv` adds who has a file open (`WritersKnown`, and that the job's is the only one,
  `Writing`, unless another job shares its images or overwrites its map), what a job has
  done and has still to do (`JobInv`: a raster that is made has its cell behind the
  job), that the tiles a job has cut are whole while nobody shares them (`TilesKept`),
  and of every file an endpoint caches that all who write it write one content
  (`Settled`), which is why requests that render the same page at once do no harm. After a
  crash no job is "done" any more, so that only the thumbnails outlive it, and those it
  may have torn are excepted (`crashed`). The paths and contents are told apart by `Paths` and by
  `MarksAssumption`, which says of the model values only that they are distinct.
* `QueryAnswerProofs`: the ten properties of `answer`, for every scene, pair, evidence and
  language model the assumptions admit: an image the tiling does not refuse, with any
  objects in it; a pair of frames of any size and place; evidence that is `WellFormed`
  (its numbers are numbers, and the template of a change query has a change map to speak
  of). `Inv` has a part for each way. `SceneInv`: the ladder satisfies `LadderInv` and
  serves the tiles of the scene, each batch reported detections and named nothing twice.
  `ReportInv`: what each batch reported is what suppression left of what its tiles show,
  each batch was accepted by the adapter, and what is merged is those reports.
  `PairInv`: how far a pair is (`stage`) determines the verdict, the tiles matched and
  whether pixels were counted. `AnswerInv`: what the text holds at each point
  (`TextTraces`), whatever the model typed. `HandedOver` connects them: the evidence of
  a change query is that of its finished pair, so that a refusal is recognised by the
  gate as a matter of alignment, and that of a query for objects is its merged report.
  `ObjectsSafe` goes through all of it: an object that fits into the overlap is whole in
  some window (`SomeWindowShows`, from the grid lemmas); the tile of that window was
  dropped, which warns (`DropWarns`), or is in a batch (`EndsComplete`), whose report
  names the object or something said to be the same (`BatchNames`, from what suppression
  leaves); and every report is in the merged one (`MergedNames`). Of a pair of images the
  detector sees a window only if one batch has the tiles of both. That they are never
  split over two batches needs the adapter's own check: each batch it takes has tiles of
  both images, all tiles of the first come before those of the second (`TilesInOrder`),
  and batches follow each other (`BatchesFollow`), so there is one batch only
  (`PairInOneBatch`). `CountSafe` is a pigeonhole: without a warning there was one batch
  (`UnwarnedIsWhole`), each entry of its report is an object's by label and place, and
  two entries of one object would have suppressed each other (`SameAsItself`, for a
  threshold below 100 percent; at 100 nothing is suppressed, which the property says).
  `TilesCoverSafe` rests on the grid lemmas,
  `BatchesNameOnceSafe` on the kernel, `MosaicSafe` on the sums: the pixels of the
  union of overlapping tiles are no more than those of the tiles. That what scenes and pairs hand
  over is `WellFormed` is a proved part of `NumbersSafe` (`GroundingWellFormed`,
  `ChangeWellFormed`), not an assumption. The arithmetic is in
  `NearestMovesLittle`: what is rounded, for display or before it is given a band, moves
  by half a unit at most; so it stays within the tolerance of the claim check or is a
  token, and `WeakestLinkSafe` holds to half of the fourth decimal.
* `JobPageProofs`: `BusyWatched`, `PanelSafe` and `PatientTold` for any number of
  queries. The invariant adds that a job the page is still busy with is that of the
  last query or was overtaken (`OvertakenOK`), and how far the last query is when the
  panel is open (`PanelOK`).
* `ImageSlotsProofs`: `SlotsSafe`. The property is not inductive: nothing in it says that
  the answer to come is the only one, or for the element the slot is now drawn as. `IInv`
  adds that of every slot that does not count as disturbed (`SlotOK`), and that nothing is
  awaited for an id that was not given out, which New analysis, where ids start over,
  keeps only because what is under way then disturbs its slot.

Only model-checked: liveness under fairness, which is out of the provers' reach
(`EveryJobEnds`, `PageComesToRest`, and the fairness of `ImplementsLifecycle`, whose
safety part is `Refinement`). Every other property of a passing run is a theorem.

## 5. Plan

1. Job queue and life cycle, with proofs - done.
2. Out-of-memory ladder, loader and their threads, with proofs - done.
3. Intake: chunk sessions, preparation, projects, crash and restart, with proofs - done.
4. `Tiling`, `Stitching`, `Scene`, `ChangePairs`, `EvidenceResponse`, `QueryAnswer`,
   with proofs - done.
5. `Intent`, and the fusion adapter's pairing in `Scene` - done.
6. The browser page: `JobPage` over `JobLifecycle`, and `ImageSlots`, with proofs - done.
7. Files shared by jobs and endpoints: `SharedFiles`, `Artifacts`, with proofs - done.

What could follow: a `Scene` in which each tile
has its own detections, masks included.

Not modelled, and why:
* The networks, checkpoint loading and the extractors for third-party formats: what they
  compute is an input of the models, and that they may raise is modelled where they are
  called.
* Normalisation, phase correlation and the conversion to COG: floating-point work on
  pixels, without state; `ChangePairs` takes the class of the offset, `Intake` and
  `Artifacts` the outcome and the file.
* The layout of reports, the boxes drawn on thumbnails and the thumbnails inside a
  report: presentation. What a report is rendered from, and when, is in `Artifacts`.
* The projects sidebar of the page: it lists and calls endpoints that `Intake` has, and
  fills the slots by `PutProjectFile` of `ImageSlots`.
* Health and listing endpoints only read; the Docker and Windows scripts and the
  fixtures are no part of the running system.
