----------------------------- MODULE Artifacts -----------------------------
(***************************************************************************)
(* The files change detection leaves under the data directory, keyed by    *)
(* image, and what the API serves from them: tile_image (preprocessing/    *)
(* tiling.py), the deterministic change engine (mock_registry.py,          *)
(* deterministic_change.py), the mosaic (stitching.py), and the endpoints  *)
(* for change maps, reports and thumbnails (main.py, thumbnail.py) with    *)
(* their caches. Threads of several jobs and requests share the files.     *)
(***************************************************************************)
EXTENDS Integers, Sequences, FiniteSets, SequencesExt

CONSTANTS
  Jobs, Requests, Images,
  Pairs,    \* what a job may compare: [before, after, cells]
  Viewed,   \* the images clients ask thumbnails of, and upload a second time
  None, Absent, Opened, Mixed, Torn

ASSUME PairsAssumption == Pairs \subseteq [before : Images, after : Images, cells : {1, 2}]
ASSUME ViewedAssumption == Viewed \subseteq Images

VARIABLES
  holds, writing,  \* see SharedFiles
  begun,     \* the tiles of whose record the temporary file exists
  pair,      \* pair[j]: the images job j compares, and how many tiles each has
  at,        \* at[j]: where the thread of the job is
  todo,      \* todo[j]: the tiles still to be written, then the pairs to compare
  rasters,   \* rasters[j]: the rasters of the pairs compared, None for a failed one
  damaged,   \* the jobs that lost a tile or a pair, or read a file half written
  cancelled, \* the jobs cancelled while a thread of theirs goes on
  path,      \* path[j]: probability_raster_path of the result
  older,     \* the jobs whose rendered map is older than the raster
  req,       \* req[r]: the request in hand, and what it has read
  again,     \* the images uploaded a second time
  crashed    \* the process has died once

jobVars == <<begun, pair, at, todo, rasters, damaged, cancelled, path>>
fileVars == <<holds, writing>>
reqVars == <<req, again, crashed>>
vars == <<fileVars, jobVars, older, reqVars>>

Tile(i, c)   == <<"tile", i, c>>
Mosaic(i)    == <<"mosaic", i, 0>>
Cog(i)       == <<"cog", i, 0>>
Raster(i, c) == <<"raster", i, c>>

Rendered(kind, key) == <<kind, key, 0>>

Paths ==
  {<<kind, i, 0>> : kind \in {"cog", "mosaic", "thumbnail"}, i \in Images}
  \cup {<<kind, i, c>> : kind \in {"tile", "raster"}, i \in Images, c \in {1, 2}}
  \cup {<<kind, j, 0>> : kind \in {"map", "report map", "report"}, j \in Jobs}

INSTANCE SharedFiles

(* The contents of files: those made of one image; in a raster, which      *)
(* images were compared, and whether some of it is missing.                *)
Pixels == {}
Gap == <<None, None>>
Content == SUBSET ({<<p.before, p.after>> : p \in Pairs} \cup {Gap})
Own(j) == {<<pair[j].before, pair[j].after>>}

(* What stands for no image, no file or no content is none. *)
ASSUME MarksAssumption ==
  /\ None \notin Images /\ None \notin Paths
  /\ \A c \in Content : c \notin {None, Absent, Opened, Mixed, Torn}
  /\ Absent \notin {Opened, Mixed, Torn} /\ Opened \notin {Mixed, Torn} /\ Mixed # Torn

NoPair == [before |-> None, after |-> None, cells |-> 0]
Idle == [kind |-> "none", key |-> None, at |-> "idle", read |-> Absent]

Init ==
  /\ holds = [p \in Paths |-> IF p[1] = "cog" THEN Pixels ELSE Absent]
  /\ writing = [p \in Paths |-> {}]
  /\ begun = {}
  /\ pair = [j \in Jobs |-> NoPair]
  /\ at = [j \in Jobs |-> "none"]
  /\ todo = [j \in Jobs |-> <<>>]
  /\ rasters = [j \in Jobs |-> <<>>]
  /\ damaged = {} /\ cancelled = {}
  /\ path = [j \in Jobs |-> None]
  /\ older = {}
  /\ req = [r \in Requests |-> Idle]
  /\ again = {} /\ crashed = FALSE

Goto(j, place) == at' = [at EXCEPT ![j] = place]
DropFirst(j) == todo' = [todo EXCEPT ![j] = Tail(@)]

(* A file that is being written, or was left half written, cannot be read, *)
(* or is read with a gap.                                                  *)
Read(p, content) ==
  IF Whole(p) THEN content = holds[p] ELSE content \in {None, {Gap}}

(* The change of a raster makes the maps rendered from it old. *)
Touched(p) == older' = older \cup {j \in Jobs : path[j] = p}

-----------------------------------------------------------------------------
(* An image is uploaded again: cog.tif is written where it is.             *)
PrepareAgain(i) ==
  /\ i \notin again /\ again' = again \cup {i}
  /\ OpenFile(Cog(i), None, Pixels)
  /\ UNCHANGED <<jobVars, older, req, crashed>>

Prepared(i) ==
  /\ writing[Cog(i)] # {}
  /\ CloseFile(Cog(i), None, Pixels)
  /\ UNCHANGED <<jobVars, older, reqVars>>

-----------------------------------------------------------------------------
(* A job: each image is cut into tiles, in threads that wait for nobody.   *)
Tiling == {"tiling", "writing tile", "recording tile"}

(* A cancelled job has no answer to show. *)
End(j) == IF j \in cancelled THEN "gone" ELSE "done"

Submit(j) ==
  /\ at[j] = "none"
  /\ \E p \in Pairs :
       /\ pair' = [pair EXCEPT ![j] = p]
       /\ todo' = [todo EXCEPT ![j] = [n \in 1..2 * p.cells |->
            IF n <= p.cells THEN Tile(p.before, n) ELSE Tile(p.after, n - p.cells)]]
  /\ Goto(j, "tiling")
  /\ UNCHANGED <<fileVars, begun, rasters, damaged, cancelled, path, older, reqVars>>

Source(p) == Cog(p[2])

OpenTile(j) ==
  /\ at[j] = "tiling" /\ todo[j] # <<>>
  /\ damaged' = IF Whole(Source(Head(todo[j]))) THEN damaged ELSE damaged \cup {j}
  /\ OpenFile(Head(todo[j]), j, Pixels)
  /\ Goto(j, "writing tile")
  /\ UNCHANGED <<begun, pair, todo, rasters, cancelled, path, older, reqVars>>

(* The raster cannot be read: the job ends without a map.                  *)
TilingFails(j) ==
  /\ at[j] = "tiling" /\ todo[j] # <<>>
  /\ ~Whole(Source(Head(todo[j])))
  /\ Goto(j, End(j))
  /\ damaged' = damaged \cup {j}
  /\ UNCHANGED <<fileVars, begun, pair, todo, rasters, cancelled, path, older, reqVars>>

(* Its record is written to a temporary file, and that renamed.            *)
CloseTile(j) ==
  /\ at[j] = "writing tile"
  /\ CloseFile(Head(todo[j]), j, Pixels)
  /\ begun' = begun \cup {Head(todo[j])}
  /\ Goto(j, "recording tile")
  /\ UNCHANGED <<pair, todo, rasters, damaged, cancelled, path, older, reqVars>>

(* Slip: the temporary file of a tile is named without its image.          *)
RecordTileOfAny(j) ==
  /\ at[j] = "recording tile" /\ Head(todo[j]) \in begun
  /\ begun' = {t \in begun : t[3] # Head(todo[j])[3]}
  /\ DropFirst(j)
  /\ Goto(j, "tiling")
  /\ UNCHANGED <<fileVars, pair, rasters, damaged, cancelled, path, older, reqVars>>

RecordTile(j) ==
  /\ at[j] = "recording tile" /\ Head(todo[j]) \in begun
  /\ begun' = begun \ {Head(todo[j])}
  /\ DropFirst(j)
  /\ Goto(j, "tiling")
  /\ UNCHANGED <<fileVars, pair, rasters, damaged, cancelled, path, older, reqVars>>

(* Another job has renamed it: preparing the image fails. *)
RecordingFails(j) ==
  /\ at[j] = "recording tile" /\ Head(todo[j]) \notin begun
  /\ damaged' = damaged \cup {j}
  /\ Goto(j, End(j))
  /\ UNCHANGED <<fileVars, begun, pair, todo, rasters, cancelled, path, older, reqVars>>

-----------------------------------------------------------------------------
(* Inference, behind the gate; a cancelled job has left the gate, or never *)
(* enters it, while its thread goes on.                                    *)
Inferring == {"comparing", "compared", "writing raster", "writing mosaic"}

EnterGate(j) ==
  /\ at[j] = "tiling" /\ todo[j] = <<>> /\ j \notin cancelled
  /\ \A k \in Jobs : at[k] \in Inferring => k \in cancelled
  /\ todo' = [todo EXCEPT ![j] = [c \in 1..pair[j].cells |-> c]]
  /\ Goto(j, "comparing")
  /\ UNCHANGED <<fileVars, begun, pair, rasters, damaged, cancelled, path, older, reqVars>>

(* The image in hand is cut to its end; the thread of an image may not     *)
(* have started.                                                           *)
ImageInHand(j) ==
  IF Len(todo[j]) > pair[j].cells
  THEN SubSeq(todo[j], 1, Len(todo[j]) - pair[j].cells) ELSE todo[j]
BetweenImages(j) == at[j] = "tiling" /\ Len(todo[j]) \in {0, pair[j].cells, 2 * pair[j].cells}

Cancel(j) ==
  /\ at[j] \in Tiling \cup Inferring /\ j \notin cancelled
  /\ cancelled' = cancelled \cup {j}
  /\ IF at[j] \in Inferring THEN UNCHANGED todo
     ELSE \E left \in {ImageInHand(j), <<>>} :
            /\ left = <<>> => BetweenImages(j)
            /\ todo' = [todo EXCEPT ![j] = left]
  /\ UNCHANGED <<fileVars, begun, pair, at, rasters, damaged, path, older, reqVars>>

BeforeTile(j) == Tile(pair[j].before, Head(todo[j]))
AfterTile(j)  == Tile(pair[j].after, Head(todo[j]))

(* detect_change reads both tiles. One that cannot be read makes it raise, *)
(* and the pair is skipped with a warning.                                 *)
Compare(j) ==
  /\ at[j] = "comparing" /\ todo[j] # <<>>
  /\ IF Whole(BeforeTile(j)) /\ Whole(AfterTile(j))
     THEN Goto(j, "compared") /\ UNCHANGED <<todo, damaged>>
     ELSE /\ damaged' = damaged \cup {j}
          /\ \/ Goto(j, "compared") /\ UNCHANGED todo
             \/ DropFirst(j) /\ UNCHANGED at
  /\ UNCHANGED <<fileVars, begun, pair, rasters, cancelled, path, older, reqVars>>

(* Slip: a raster is named after the image after. *)
RasterOfAfter(j) == Raster(pair[j].after, Head(todo[j]))

RasterOf(j) == Raster(pair[j].before, Head(todo[j]))

Added(j, p) == rasters' = [rasters EXCEPT ![j] = Append(@, p)]

OpenRaster(j) ==
  /\ at[j] = "compared"
  /\ OpenFile(RasterOf(j), j, Own(j))
  /\ Goto(j, "writing raster")
  /\ Touched(RasterOf(j))
  /\ UNCHANGED <<begun, pair, todo, rasters, damaged, cancelled, path, reqVars>>

(* The tiles have no valid pixel in common, or _write_probability_raster   *)
(* cannot read the before tile again, for its profile.                     *)
NoRaster(j) ==
  /\ at[j] = "compared"
  /\ Added(j, None)
  /\ DropFirst(j)
  /\ Goto(j, "comparing")
  /\ UNCHANGED <<fileVars, begun, pair, damaged, cancelled, path, older, reqVars>>

CloseRaster(j) ==
  /\ at[j] = "writing raster"
  /\ CloseFile(RasterOf(j), j, Own(j))
  /\ Added(j, RasterOf(j))
  /\ DropFirst(j)
  /\ Goto(j, "comparing")
  /\ Touched(RasterOf(j))
  /\ UNCHANGED <<begun, pair, damaged, cancelled, path, reqVars>>

(* The result reaches the record, unless the job was cancelled. *)
Finish(j, p) ==
  /\ Goto(j, End(j))
  /\ path' = [path EXCEPT ![j] = IF j \in cancelled THEN None ELSE p]
  /\ rasters' = [rasters EXCEPT ![j] = <<>>]

(* One pair: its raster is the map. *)
FinishWithRaster(j) ==
  /\ at[j] = "comparing" /\ todo[j] = <<>>
  /\ pair[j].cells = 1
  /\ Finish(j, IF rasters[j] = <<>> THEN None ELSE rasters[j][1])
  /\ UNCHANGED <<fileVars, begun, pair, todo, damaged, cancelled, older, reqVars>>

(* Several pairs are merged if every one has a raster; one that cannot be  *)
(* read stops the merging.                                                 *)
Mergeable(j) == rasters[j] # <<>> /\ ~Contains(rasters[j], None)

MosaicContent(j) ==
  UNION {IF Whole(p) THEN holds[p] ELSE {Gap} : p \in ToSet(rasters[j])}

OpenMosaic(j) ==
  /\ at[j] = "comparing" /\ todo[j] = <<>>
  /\ pair[j].cells > 1 /\ Mergeable(j)
  /\ OpenFile(Mosaic(pair[j].after), j, MosaicContent(j))
  /\ todo' = [todo EXCEPT ![j] = <<MosaicContent(j)>>]
  /\ Touched(Mosaic(pair[j].after))
  /\ Goto(j, "writing mosaic")
  /\ UNCHANGED <<begun, pair, rasters, damaged, cancelled, path, reqVars>>

(* Otherwise the sums stay, without a raster. *)
FinishWithout(j) ==
  /\ at[j] = "comparing" /\ todo[j] = <<>>
  /\ pair[j].cells > 1
  /\ Mergeable(j) => \E p \in ToSet(rasters[j]) : ~Whole(p)
  /\ Finish(j, None)
  /\ UNCHANGED <<fileVars, begun, pair, todo, damaged, cancelled, older, reqVars>>

CloseMosaic(j) ==
  /\ at[j] = "writing mosaic"
  /\ CloseFile(Mosaic(pair[j].after), j, Head(todo[j]))
  /\ Touched(Mosaic(pair[j].after))
  /\ Finish(j, Mosaic(pair[j].after))
  /\ DropFirst(j)
  /\ UNCHANGED <<begun, pair, damaged, cancelled, reqVars>>

-----------------------------------------------------------------------------
(* GET /jobs/{id}/change-map, /jobs/{id}/report, /images/{id}/thumbnail.   *)

Target(r) == Rendered(req[r].kind, req[r].key)
Place(r, place) == req' = [req EXCEPT ![r].at = place]

(* What is on disk is served if it is there: a map only if it is not older *)
(* than the raster, which has to exist.                                    *)
Cached(kind, key) ==
  /\ Exists(Rendered(kind, key))
  /\ kind = "map" => key \notin older

Asks(r, kind, key) ==
  /\ req[r].at = "idle"
  /\ req' = [req EXCEPT ![r] =
       [kind |-> kind, key |-> key, read |-> Absent,
        at |-> IF Cached(kind, key) THEN "serve"
               ELSE IF kind = "report" /\ path[key] # None THEN "render map"
               ELSE "render"]]
  /\ UNCHANGED <<fileVars, jobVars, older, again, crashed>>

GetMap(r) ==
  \E j \in Jobs : /\ at[j] = "done" /\ path[j] # None /\ Exists(path[j])
                  /\ Asks(r, "map", j)

(* Slip: a report of an unfinished job is rendered, and kept. *)
GetReportAnyTime(r) == \E j \in Jobs : at[j] # "none" /\ Asks(r, "report", j)

(* A report is not tested for age. Its change map, if the job has one, is  *)
(* rendered first, to a file of its own.                                   *)
GetReport(r) == \E j \in Jobs : at[j] = "done" /\ Asks(r, "report", j)

GetThumbnail(r) == \E i \in Viewed : Asks(r, "thumbnail", i)

ReportMap(j) == Rendered("report map", j)

(* What it is rendered from; a report without a change map from nothing. A *)
(* PNG that is being written, by another request for the same report, is   *)
(* never read with a gap: PIL raises.                                      *)
RenderedFrom(r, content) ==
  CASE req[r].kind = "thumbnail" -> Read(Cog(req[r].key), content)
    [] req[r].kind = "map" -> Read(path[req[r].key], content)
    [] OTHER -> content =
         IF path[req[r].key] = None THEN Pixels
         ELSE IF Whole(ReportMap(req[r].key)) THEN holds[ReportMap(req[r].key)]
         ELSE None

Contents == {None, Pixels, {Gap}} \cup {holds[p] : p \in Paths}

RenderReportMap(r) ==
  /\ req[r].at = "render map"
  /\ \E content \in Contents :
       /\ Read(path[req[r].key], content)
       /\ IF content = None
          THEN req' = [req EXCEPT ![r] = Idle] /\ UNCHANGED <<fileVars>>
          ELSE /\ OpenFile(ReportMap(req[r].key), r, content)
               /\ req' = [req EXCEPT ![r].at = "write map", ![r].read = content]
  /\ UNCHANGED <<jobVars, older, again, crashed>>

WriteReportMap(r) ==
  /\ req[r].at = "write map"
  /\ CloseFile(ReportMap(req[r].key), r, req[r].read)
  /\ req' = [req EXCEPT ![r].at = "render", ![r].read = Absent]
  /\ UNCHANGED <<jobVars, older, again, crashed>>

(* The source is read and the file opened, or the request fails. *)
Render(r) ==
  /\ req[r].at = "render"
  /\ \E content \in Contents :
       /\ RenderedFrom(r, content)
       /\ IF content = None
          THEN req' = [req EXCEPT ![r] = Idle] /\ UNCHANGED <<fileVars>>
          ELSE /\ OpenFile(Target(r), r, content)
               /\ req' = [req EXCEPT ![r].at = "write", ![r].read = content]
  /\ UNCHANGED <<jobVars, older, again, crashed>>

(* Slip: a file is served before it is flushed. *)
WriteUnflushed(r) ==
  /\ req[r].at = "write"
  /\ writing' = [writing EXCEPT ![Target(r)] = @ \ {<<r, req[r].read>>}]
  /\ older' = older \ {req[r].key}
  /\ Place(r, "serve")
  /\ UNCHANGED <<holds, jobVars, again, crashed>>

Write(r) ==
  /\ req[r].at = "write"
  /\ CloseFile(Target(r), r, req[r].read)
  /\ older' = IF req[r].kind = "map" THEN older \ {req[r].key} ELSE older
  /\ Place(r, "serve")
  /\ UNCHANGED <<jobVars, again, crashed>>

(* FileResponse sends what the file holds. *)
Serve(r) ==
  /\ req[r].at = "serve"
  /\ req' = [req EXCEPT ![r] = Idle]
  /\ UNCHANGED <<fileVars, jobVars, older, again, crashed>>

-----------------------------------------------------------------------------
(* The process dies: jobs and requests are lost, and files stay.           *)
Crash ==
  /\ ~crashed /\ crashed' = TRUE
  /\ FilesAfterCrash
  /\ at' = [j \in Jobs |-> IF at[j] = "none" THEN "none" ELSE "gone"]
  /\ path' = [j \in Jobs |-> None]
  /\ todo' = [j \in Jobs |-> <<>>]
  /\ req' = [r \in Requests |-> Idle]
  /\ rasters' = [j \in Jobs |-> <<>>]
  /\ UNCHANGED <<begun, pair, damaged, cancelled, older, again>>

Next ==
  \/ \E i \in Viewed : PrepareAgain(i) \/ Prepared(i)
  \/ \E j \in Jobs :
       \/ Submit(j) \/ OpenTile(j) \/ TilingFails(j) \/ CloseTile(j)
       \/ RecordTile(j) \/ RecordingFails(j)
       \/ EnterGate(j) \/ Cancel(j) \/ Compare(j) \/ OpenRaster(j) \/ NoRaster(j)
       \/ CloseRaster(j) \/ FinishWithRaster(j) \/ OpenMosaic(j) \/ FinishWithout(j)
       \/ CloseMosaic(j)
  \/ \E r \in Requests :
       GetMap(r) \/ GetReport(r) \/ GetThumbnail(r)
       \/ RenderReportMap(r) \/ WriteReportMap(r) \/ Render(r) \/ Write(r) \/ Serve(r)
  \/ Crash

Spec == Init /\ [][Next]_vars

-----------------------------------------------------------------------------
ImagesOf(j) == {pair[j].before, pair[j].after} \ {None}

(* A job tiles and compares everything it was given, unless another job    *)
(* was given one of its images, or one was uploaded again: tiling.py:164   *)
(* and cog.py:132 truncate files that other threads may be reading.        *)
DamageNeedsSharing ==
  \A j \in damaged :
    \/ ImagesOf(j) \cap again # {}
    \/ \E k \in Jobs \ {j} : ImagesOf(j) \cap ImagesOf(k) # {}

(* Rasters are named after the image before, and mosaics after the image   *)
(* after: a job takes another's map if it compares the same image before,  *)
(* or merges several tiles for the same image after.                       *)
Overwritten(j) ==
  \E k \in Jobs \ {j} :
    \/ pair[k].before = pair[j].before
    \/ pair[k].after = pair[j].after /\ pair[k].cells > 1 /\ pair[j].cells > 1

(* The map of a job that no other takes shows its own comparison for as    *)
(* long as the process lives, whatever else is compared, uploaded, asked   *)
(* for or cancelled (deterministic_change.py:197, stitching.py:383).       *)
MapIsOwn ==
  \A j \in Jobs : path[j] # None /\ ~Overwritten(j) => holds[path[j]] = Own(j)

(* What is served as the map or the report of such a job shows its own     *)
(* comparison, and a report none if there is none, unless another request  *)
(* is writing the very file (main.py:430, 572).                            *)
ServedMapIsOwn ==
  \A r \in Requests :
    req[r].at = "serve" /\ req[r].kind # "thumbnail" /\ ~Overwritten(req[r].key) =>
      \/ writing[Target(r)] # {}
      \/ holds[Target(r)] = IF path[req[r].key] = None THEN Pixels ELSE Own(req[r].key)

(* A thumbnail is served half written only while another request writes    *)
(* it, unless the process died while writing it, or the image was uploaded *)
(* again: then it may be so for ever (thumbnail.py:39).                    *)
ThumbnailWhole ==
  \A r \in Requests :
    req[r].at = "serve" /\ req[r].kind = "thumbnail" =>
      \/ Whole(Target(r)) \/ writing[Target(r)] # {}
      \/ crashed \/ req[r].key \in again
=============================================================================
