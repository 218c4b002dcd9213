--------------------------- MODULE ArtifactsProofs --------------------------
(***************************************************************************)
(* Proofs about Artifacts, for every number of jobs, requests and images:  *)
(* a file that only one job, or only one content, ever goes to is whole    *)
(* whenever nobody is writing it.                                          *)
(***************************************************************************)
EXTENDS Artifacts, SequenceTheorems, TLAPS

Marks == {Absent, Opened, Mixed, Torn}

Places == {"none", "done", "gone"} \cup Tiling \cup Inferring

Comparing == {"comparing", "compared", "writing raster"}

TilesIn(p) == {Tile(i, c) : i \in {p.before, p.after}, c \in 1..p.cells}
RastersIn(p) == {Raster(p.before, c) : c \in 1..p.cells}
TilesOf(j) == TilesIn(pair[j])
RastersOf(j) == RastersIn(pair[j])

Steps == Seq(Paths \cup {1, 2} \cup Content)

Request == [kind : {"none", "map", "report", "thumbnail"}, key : Jobs \cup Images \cup {None},
            at : {"idle", "render map", "write map", "render", "write", "serve"},
            read : Content \cup {Absent}]

TypeOK ==
  /\ holds \in [Paths -> Content \cup Marks]
  /\ writing \in [Paths -> SUBSET ((Jobs \cup Requests \cup {None}) \X Content)]
  /\ begun \subseteq Paths
  /\ pair \in [Jobs -> Pairs \cup {NoPair}]
  /\ at \in [Jobs -> Places]
  /\ todo \in [Jobs -> Steps]
  /\ rasters \in [Jobs -> Seq(Paths \cup {None})]
  /\ damaged \subseteq Jobs /\ cancelled \subseteq Jobs
  /\ path \in [Jobs -> Paths \cup {None}]
  /\ req \in [Requests -> Request]
  /\ again \subseteq Viewed /\ crashed \in BOOLEAN

(* What a job has still to do, what it has made, and where it is.          *)
Later(c, steps) == \A n \in DOMAIN steps : c < steps[n]

JobInv(j) ==
  /\ pair[j] = NoPair <=> at[j] = "none"
  /\ at[j] \in Tiling => todo[j] \in Seq(TilesOf(j))
  /\ at[j] \in {"writing tile", "recording tile", "compared", "writing raster"} => todo[j] # <<>>
  /\ at[j] \in Comparing =>
       /\ todo[j] \in Seq(1..pair[j].cells)
       /\ \A m, n \in DOMAIN todo[j] : m < n => todo[j][m] < todo[j][n]
       /\ \A c \in 1..pair[j].cells :
            Raster(pair[j].before, c) \in Range(rasters[j]) => Later(c, todo[j])
  /\ Range(rasters[j]) \subseteq RastersOf(j) \cup {None}
  /\ at[j] \notin Comparing \cup {"writing mosaic"} => rasters[j] = <<>>
  /\ at[j] = "writing mosaic" => /\ pair[j].cells > 1
                                 /\ todo[j] # <<>> /\ Head(todo[j]) \in Content
  /\ path[j] # None =>
       /\ at[j] = "done"
       /\ \/ path[j] \in RastersOf(j)
          \/ pair[j].cells > 1 /\ path[j] = Mosaic(pair[j].after)

(* Who is writing a file of a job's.                                       *)
JobWrites(j, p, h) ==
  \/ at[j] = "writing tile" /\ p = Head(todo[j]) /\ h = <<j, Pixels>>
  \/ at[j] = "writing raster" /\ p = RasterOf(j) /\ h = <<j, Own(j)>>
  \/ at[j] = "writing mosaic" /\ p = Mosaic(pair[j].after) /\ h = <<j, Head(todo[j])>>

WritersKnown ==
  \A p \in Paths :
    p[1] \in {"tile", "raster", "mosaic"} =>
      \A h \in writing[p] : \E j \in Jobs : JobWrites(j, p, h)

ImagesKept == \A i \in Images \ again : holds[Cog(i)] = Pixels /\ writing[Cog(i)] = {}

Shared(j) ==
  \/ ImagesOf(j) \cap again # {}
  \/ \E k \in Jobs \ {j} : ImagesOf(j) \cap ImagesOf(k) # {}

(* It alone has the file open.                                             *)
Writing(p, j, content) == holds[p] = Opened /\ writing[p] = {<<j, content>>}

(* The tiles a job has cut already; those of a job cancelled before        *)
(* inference do not matter.                                                *)
Cut(j) ==
  IF at[j] \in Tiling
  THEN IF j \in cancelled THEN {} ELSE TilesOf(j) \ Range(todo[j])
  ELSE TilesOf(j)

TilesKept(j) ==
  at[j] \in Tiling \cup Inferring /\ ~Shared(j) =>
    /\ \A t \in Cut(j) : holds[t] = Pixels
    /\ at[j] = "writing tile" => Writing(Head(todo[j]), j, Pixels)
    /\ at[j] = "recording tile" => Head(todo[j]) \in begun /\ holds[Head(todo[j])] = Pixels

MapKept(j) ==
  ~Overwritten(j) =>
    /\ \A p \in Range(rasters[j]) \ {None} : holds[p] = Own(j)
    /\ at[j] = "writing raster" => Writing(RasterOf(j), j, Own(j))
    /\ at[j] = "writing mosaic" =>
         Head(todo[j]) = Own(j) /\ Writing(Mosaic(pair[j].after), j, Own(j))
    /\ path[j] # None => holds[path[j]] = Own(j)

(* All who write a file write the same, and none is left half written.     *)
Settled(p, content) ==
  /\ holds[p] \in {Absent, Opened, content}
  /\ \A h \in writing[p] : h[2] = content
  /\ writing[p] = {} => holds[p] # Opened

Untouched(p) == holds[p] = Absent /\ writing[p] = {}

Expected(j) == IF path[j] = None THEN Pixels ELSE Own(j)

PagesKept(j) ==
  /\ at[j] \notin {"done", "gone"} =>
       \A kind \in {"map", "report map", "report"} : Untouched(Rendered(kind, j))
  /\ at[j] = "done" /\ ~Overwritten(j) =>
       /\ Settled(Rendered("map", j), Own(j))
       /\ Settled(Rendered("report map", j), Own(j))
       /\ Settled(Rendered("report", j), Expected(j))

ThumbnailsKept ==
  \A i \in Images \ again : crashed \/ Settled(Rendered("thumbnail", i), Pixels)

RequestInv(r) ==
  /\ req[r].at # "idle" =>
       \/ req[r].kind = "thumbnail" /\ req[r].key \in Images
       \/ req[r].kind \in {"map", "report"} /\ req[r].key \in Jobs /\ at[req[r].key] = "done"
  /\ req[r].kind = "map" /\ req[r].at # "idle" => path[req[r].key] # None
  /\ req[r].at \in {"render map", "write map"} =>
       req[r].kind = "report" /\ path[req[r].key] # None
  /\ req[r].at = "write map" => <<r, req[r].read>> \in writing[ReportMap(req[r].key)]
  /\ req[r].at = "write" => <<r, req[r].read>> \in writing[Target(r)]
  /\ req[r].at \in {"write", "serve"} => holds[Target(r)] # Absent

IInv ==
  /\ TypeOK
  /\ \A j \in Jobs : JobInv(j)
  /\ WritersKnown
  /\ ImagesKept
  /\ \A j \in Jobs : TilesKept(j)
  /\ \A j \in Jobs : MapKept(j)
  /\ \A j \in Jobs : PagesKept(j)
  /\ ThumbnailsKept
  /\ \A r \in Requests : RequestInv(r)
  /\ DamageNeedsSharing
-----------------------------------------------------------------------------
(* Paths and contents.                                                     *)

LEMMA PathsAre ==
  /\ \A i \in Images : /\ Cog(i) \in Paths /\ Mosaic(i) \in Paths
                       /\ Rendered("thumbnail", i) \in Paths
  /\ \A i \in Images, c \in {1, 2} : Tile(i, c) \in Paths /\ Raster(i, c) \in Paths
  /\ \A j \in Jobs, kind \in {"map", "report map", "report"} : Rendered(kind, j) \in Paths
BY DEF Paths, Cog, Mosaic, Rendered, Tile, Raster

LEMMA ContentsAre ==
  /\ Pixels \in Content /\ {Gap} \in Content
  /\ \A p \in Pairs : {<<p.before, p.after>>} \in Content
  /\ \A c \in Content : c \notin Marks /\ c # None
  /\ Content \cap Marks = {}
BY MarksAssumption DEF Content, Pixels, Gap, Marks

LEMMA Ranges ==
  ASSUME NEW S, NEW s \in Seq(S)
  PROVE  /\ Range(s) \subseteq S
         /\ \A x \in Range(s) : \E n \in 1..Len(s) : x = s[n]
         /\ \A n \in 1..Len(s) : s[n] \in Range(s)
         /\ DOMAIN s = 1..Len(s) /\ Len(s) \in Nat
         /\ s = <<>> <=> Len(s) = 0
         /\ s = <<>> <=> Range(s) = {}
<1>1. DOMAIN s = 1..Len(s) /\ Len(s) \in Nat
  BY LenProperties
<1>2. \A n \in 1..Len(s) : s[n] \in S
  BY ElementOfSeq
<1>3. s = <<>> <=> Len(s) = 0
  BY EmptySeq
<1>4. /\ Range(s) \subseteq S
      /\ \A x \in Range(s) : \E n \in 1..Len(s) : x = s[n]
      /\ \A n \in 1..Len(s) : s[n] \in Range(s)
  BY <1>1, <1>2 DEF Range
<1>5. Len(s) = 0 \/ 1 \in 1..Len(s)
  BY <1>1
<1>6. Len(s) = 0 <=> Range(s) = {}
  BY <1>1, <1>4, <1>5
<1> QED BY <1>1, <1>3, <1>4, <1>6

LEMMA EmptyRange == Range(<<>>) = {}
BY DEF Range

LEMMA Dropping ==
  ASSUME NEW S, NEW s \in Seq(S), s # <<>>
  PROVE  /\ Head(s) \in S /\ Head(s) = s[1] /\ Head(s) \in Range(s)
         /\ Tail(s) \in Seq(S) /\ Len(Tail(s)) = Len(s) - 1
         /\ \A n \in 1..Len(Tail(s)) : Tail(s)[n] = s[n + 1]
         /\ Range(s) = {Head(s)} \cup Range(Tail(s))
<1>1. /\ Head(s) \in S /\ Head(s) = s[1]
      /\ Tail(s) \in Seq(S) /\ Len(Tail(s)) = Len(s) - 1
      /\ \A n \in 1..Len(Tail(s)) : Tail(s)[n] = s[n + 1]
  BY HeadTailProperties
<1>2. /\ DOMAIN s = 1..Len(s) /\ Len(s) \in Nat \ {0}
      /\ DOMAIN Tail(s) = 1..Len(Tail(s))
  BY <1>1, Ranges
<1>3. Head(s) \in Range(s)
  BY <1>1, <1>2 DEF Range
<1>4. ASSUME NEW x \in Range(s) PROVE x = Head(s) \/ x \in Range(Tail(s))
  <2>1. PICK n \in 1..Len(s) : x = s[n]
    BY <1>2 DEF Range
  <2>2. CASE n = 1
    BY <2>1, <2>2, <1>1
  <2>3. CASE n # 1
    <3>1. n - 1 \in 1..Len(Tail(s)) /\ Tail(s)[n - 1] = s[n]
      BY <2>3, <1>1, <1>2
    <3> QED BY <2>1, <3>1, <1>2 DEF Range
  <2> QED BY <2>2, <2>3
<1>5. ASSUME NEW x \in Range(Tail(s)) PROVE x \in Range(s)
  <2>1. PICK n \in 1..Len(Tail(s)) : x = Tail(s)[n]
    BY <1>2 DEF Range
  <2>2. n + 1 \in 1..Len(s) /\ x = s[n + 1]
    BY <2>1, <1>1, <1>2
  <2> QED BY <2>2, <1>2 DEF Range
<1> QED BY <1>1, <1>3, <1>4, <1>5

LEMMA Appending ==
  ASSUME NEW S, NEW s \in Seq(S), NEW e \in S
  PROVE  Append(s, e) \in Seq(S) /\ Range(Append(s, e)) = Range(s) \cup {e}
<1>1. /\ Append(s, e) \in Seq(S) /\ Len(Append(s, e)) = Len(s) + 1
      /\ \A i \in 1..Len(s) : Append(s, e)[i] = s[i]
      /\ Append(s, e)[Len(s) + 1] = e
  BY AppendProperties
<1>2. /\ DOMAIN s = 1..Len(s) /\ Len(s) \in Nat
      /\ DOMAIN Append(s, e) = 1..Len(s) + 1
  BY <1>1, Ranges
<1>3. /\ 1..Len(s) + 1 = (1..Len(s)) \cup {Len(s) + 1}
  BY <1>2
<1>4. Range(Append(s, e)) \subseteq Range(s) \cup {e}
  BY <1>1, <1>2, <1>3 DEF Range
<1>5. Range(s) \subseteq Range(Append(s, e)) /\ e \in Range(Append(s, e))
  BY <1>1, <1>2, <1>3 DEF Range
<1> QED BY <1>1, <1>4, <1>5

-----------------------------------------------------------------------------
(* What opening and closing do to a file, and that they leave the others.  *)

FileSame(p) == holds'[p] = holds[p] /\ writing'[p] = writing[p]

Elsewhere(p) == \A q \in Paths : q # p => FileSame(q)

Writers == Jobs \cup Requests \cup {None}

LEMMA OpenEffect ==
  ASSUME TypeOK, NEW p \in Paths, NEW w \in Writers, NEW c \in Content, OpenFile(p, w, c)
  PROVE  /\ holds' \in [Paths -> Content \cup Marks]
         /\ writing' \in [Paths -> SUBSET (Writers \X Content)]
         /\ Elsewhere(p)
         /\ writing'[p] = writing[p] \cup {<<w, c>>}
         /\ holds'[p] \in {Opened, Mixed}
         /\ (\A h \in writing[p] : h[2] = c) /\ (holds[p] # Mixed \/ writing[p] = {})
              => holds'[p] = Opened
BY DEF OpenFile, TypeOK, Marks, Elsewhere, FileSame, Writers

LEMMA CloseEffect ==
  ASSUME TypeOK, NEW p \in Paths, NEW w \in Writers, NEW c \in Content, CloseFile(p, w, c)
  PROVE  /\ holds' \in [Paths -> Content \cup Marks]
         /\ writing' \in [Paths -> SUBSET (Writers \X Content)]
         /\ Elsewhere(p)
         /\ writing'[p] = writing[p] \ {<<w, c>>}
         /\ writing[p] # {<<w, c>>} => holds'[p] = holds[p]
         /\ writing[p] = {<<w, c>>} => /\ holds'[p] \in {c, Torn}
                                       /\ holds[p] # Mixed => holds'[p] = c
<1>1. CASE writing[p] # {<<w, c>>}
  BY <1>1 DEF CloseFile, TypeOK, Marks, Elsewhere, FileSame, Writers
<1>2. CASE writing[p] = {<<w, c>>}
  <2>1. PICK end \in IF holds[p] = Mixed THEN {c, Torn} ELSE {c} :
               holds' = [holds EXCEPT ![p] = end]
    BY <1>2 DEF CloseFile
  <2>2. end \in {c, Torn} /\ (holds[p] # Mixed => end = c) /\ end \in Content \cup Marks
    BY <2>1 DEF Marks
  <2>3. /\ holds' \in [Paths -> Content \cup Marks] /\ holds'[p] = end
        /\ \A q \in Paths : q # p => holds'[q] = holds[q]
    BY <2>1, <2>2 DEF TypeOK
  <2>4. /\ writing' \in [Paths -> SUBSET (Writers \X Content)]
        /\ writing'[p] = writing[p] \ {<<w, c>>}
        /\ \A q \in Paths : q # p => writing'[q] = writing[q]
    BY DEF CloseFile, TypeOK, Writers
  <2> QED BY <2>2, <2>3, <2>4, <1>2 DEF Elsewhere, FileSame
<1> QED BY <1>1, <1>2

LEMMA SettledOpen ==
  ASSUME TypeOK, NEW p \in Paths, NEW w \in Writers, NEW c \in Content, OpenFile(p, w, c),
         Settled(p, c)
  PROVE  Settled(p, c)' /\ holds'[p] # Absent
<1>1. holds[p] # Mixed
  BY MarksAssumption DEF Settled
<1>2. /\ holds'[p] = Opened /\ writing'[p] = writing[p] \cup {<<w, c>>}
  BY <1>1, OpenEffect DEF Settled
<1>3. <<w, c>>[2] = c
  OBVIOUS
<1>4. writing'[p] # {} /\ \A h \in writing'[p] : h[2] = c
  BY <1>2, <1>3 DEF Settled
<1> QED BY <1>2, <1>4, MarksAssumption DEF Settled

LEMMA SettledClose ==
  ASSUME TypeOK, NEW p \in Paths, NEW w \in Writers, NEW c \in Content, CloseFile(p, w, c),
         Settled(p, c)
  PROVE  Settled(p, c)'
<1>1. holds[p] # Mixed /\ c # Opened
  BY MarksAssumption DEF Settled
<1>2. CASE writing[p] = {<<w, c>>}
  BY <1>1, <1>2, CloseEffect DEF Settled
<1>3. CASE writing[p] # {<<w, c>>}
  <2>1. holds'[p] = holds[p] /\ writing'[p] = writing[p] \ {<<w, c>>}
    BY <1>3, CloseEffect
  <2>2. ASSUME writing'[p] = {} PROVE writing[p] = {}
    <3>1. \A h \in writing[p] : h = <<w, c>>
      BY <2>1, <2>2
    <3>2. <<w, c>> \in writing[p] => writing[p] = {<<w, c>>}
      BY <3>1
    <3> QED BY <3>1, <3>2, <1>3
  <2> QED BY <2>1, <2>2 DEF Settled
<1> QED BY <1>2, <1>3
-----------------------------------------------------------------------------
(* What a job that has begun may write, and whose files are whose.         *)

FilesOf(j) ==
  TilesOf(j) \cup RastersOf(j)
  \cup (IF pair[j].cells > 1 THEN {Mosaic(pair[j].after)} ELSE {})

LEMMA JobHasPair ==
  ASSUME TypeOK, NEW j \in Jobs, JobInv(j), at[j] # "none"
  PROVE  /\ pair[j] \in Pairs /\ pair[j].before \in Images /\ pair[j].after \in Images
         /\ pair[j].cells \in {1, 2}
         /\ ImagesOf(j) = {pair[j].before, pair[j].after}
         /\ Own(j) \in Content /\ Own(j) \notin Marks
         /\ FilesOf(j) \subseteq Paths
         /\ \A p \in FilesOf(j) : p[1] \in {"tile", "raster", "mosaic"}
<1>1. pair[j] \in Pairs
  BY DEF TypeOK, JobInv
<1>2. /\ pair[j].before \in Images /\ pair[j].after \in Images /\ pair[j].cells \in {1, 2}
  BY <1>1, PairsAssumption
<1>3. ImagesOf(j) = {pair[j].before, pair[j].after}
  BY <1>2, MarksAssumption DEF ImagesOf
<1>4. Own(j) \in Content /\ Own(j) \notin Marks
  BY <1>1, ContentsAre DEF Own
<1>5. 1..pair[j].cells \subseteq {1, 2}
  BY <1>2
<1>6. TilesOf(j) \subseteq Paths /\ \A p \in TilesOf(j) : p[1] = "tile"
  <2>1. ASSUME NEW i \in {pair[j].before, pair[j].after}, NEW c \in 1..pair[j].cells
        PROVE  Tile(i, c) \in Paths /\ Tile(i, c)[1] = "tile"
    BY <1>2, <1>5, PathsAre DEF Tile
  <2> QED BY <2>1 DEF TilesIn, TilesOf
<1>7. RastersOf(j) \subseteq Paths /\ \A p \in RastersOf(j) : p[1] = "raster"
  <2>1. ASSUME NEW c \in 1..pair[j].cells
        PROVE  /\ Raster(pair[j].before, c) \in Paths
               /\ Raster(pair[j].before, c)[1] = "raster"
    BY <1>2, <1>5, PathsAre DEF Raster
  <2> QED BY <2>1 DEF RastersIn, RastersOf
<1>8. Mosaic(pair[j].after) \in Paths /\ Mosaic(pair[j].after)[1] = "mosaic"
  BY <1>2, PathsAre DEF Mosaic
<1> QED BY <1>1, <1>2, <1>3, <1>4, <1>6, <1>7, <1>8 DEF FilesOf

(* Two jobs that do not share an image have no tile in common, and two     *)
(* that do not overwrite each other neither a raster nor a mosaic.         *)
LEMMA FilesApart ==
  ASSUME TypeOK, NEW j \in Jobs, NEW k \in Jobs, j # k, JobInv(j), JobInv(k),
         at[j] # "none", at[k] # "none", NEW p \in FilesOf(j)
  PROVE  /\ ~Shared(k) => p \notin TilesOf(k)
         /\ ~Overwritten(k) => /\ p \notin RastersOf(k)
                               /\ pair[k].cells > 1 => p # Mosaic(pair[k].after)
<1>1. ASSUME ~Shared(k), p \in TilesOf(k) PROVE FALSE
  <2>1. PICK i \in ImagesOf(k), c \in 1..pair[k].cells : p = Tile(i, c)
    BY <1>1, JobHasPair DEF TilesIn, TilesOf
  <2>2. p \notin RastersOf(j) /\ p # Mosaic(pair[j].after)
    BY <2>1 DEF RastersIn, RastersOf, Raster, Mosaic, Tile
  <2>3. PICK m \in ImagesOf(j), d \in 1..pair[j].cells : p = Tile(m, d)
    BY <2>2, JobHasPair DEF FilesOf, TilesIn, TilesOf
  <2>4. i = m
    BY <2>1, <2>3 DEF Tile
  <2> QED BY <2>1, <2>3, <2>4, <1>1 DEF Shared
<1>2. ASSUME ~Overwritten(k), p \in RastersOf(k) PROVE FALSE
  <2>1. PICK c \in 1..pair[k].cells : p = Raster(pair[k].before, c)
    BY <1>2 DEF RastersIn, RastersOf
  <2>2. p \notin TilesOf(j) /\ p # Mosaic(pair[j].after)
    BY <2>1 DEF TilesIn, TilesOf, Raster, Mosaic, Tile
  <2>3. PICK d \in 1..pair[j].cells : p = Raster(pair[j].before, d)
    BY <2>2 DEF FilesOf, RastersIn, RastersOf
  <2>4. pair[j].before = pair[k].before
    BY <2>1, <2>3 DEF Raster
  <2> QED BY <2>4, <1>2 DEF Overwritten
<1>3. ASSUME ~Overwritten(k), pair[k].cells > 1, p = Mosaic(pair[k].after) PROVE FALSE
  <2>1. p \notin TilesOf(j) /\ p \notin RastersOf(j)
    BY <1>3 DEF TilesIn, TilesOf, RastersIn, RastersOf, Raster, Mosaic, Tile
  <2>2. pair[j].cells > 1 /\ p = Mosaic(pair[j].after)
    BY <2>1 DEF FilesOf
  <2>3. pair[j].after = pair[k].after
    BY <1>3, <2>2 DEF Mosaic
  <2> QED BY <2>2, <2>3, <1>3 DEF Overwritten
<1> QED BY <1>1, <1>2, <1>3

(* The other files of a job's.                                             *)
LEMMA RenderedApart ==
  ASSUME NEW p \in Paths, p[1] \in {"tile", "raster", "mosaic"}
  PROVE  /\ \A i : p # Cog(i) /\ p # Rendered("thumbnail", i)
         /\ \A j : \A kind \in {"map", "report map", "report"} : p # Rendered(kind, j)
<1>1. ASSUME NEW i PROVE p # Cog(i) /\ p # Rendered("thumbnail", i)
  BY DEF Cog, Rendered
<1>2. ASSUME NEW j, NEW kind \in {"map", "report map", "report"} PROVE p # Rendered(kind, j)
  <2>1. Rendered(kind, j)[1] = kind
    BY DEF Rendered
  <2> QED BY <2>1
<1> QED BY <1>1, <1>2

-----------------------------------------------------------------------------
(* A step leaves the locals of a job alone.                                *)
LocalsSame(j) ==
  /\ pair'[j] = pair[j] /\ at'[j] = at[j] /\ todo'[j] = todo[j]
  /\ rasters'[j] = rasters[j] /\ path'[j] = path[j]

(* A job that a step does not concern: its files are where they were, or   *)
(* it shares them.                                                         *)
LEMMA JobKept ==
  ASSUME NEW j \in Jobs, JobInv(j), TilesKept(j), MapKept(j), LocalsSame(j),
         cancelled \subseteq cancelled',
         Shared(j) => Shared(j)', Overwritten(j) => Overwritten(j)',
         ~Shared(j) => \A t \in TilesOf(j) : FileSame(t) /\ (t \in begun => t \in begun'),
         ~Overwritten(j) =>
           /\ \A p \in RastersOf(j) : FileSame(p)
           /\ pair[j].cells > 1 => FileSame(Mosaic(pair[j].after))
  PROVE  JobInv(j)' /\ TilesKept(j)' /\ MapKept(j)'
<1> USE DEF LocalsSame, FileSame
<1>1. JobInv(j)'
  BY DEF JobInv, TilesOf, RastersOf
<1>2. TilesKept(j)'
  <2>1. TilesOf(j)' = TilesOf(j) /\ Cut(j)' \subseteq Cut(j)
    BY DEF TilesOf, Cut
  <2>2. CASE at[j] \in Tiling \cup Inferring /\ ~Shared(j)
    <3>1. \A t \in Cut(j) : holds'[t] = Pixels
      BY <2>2 DEF TilesKept, Cut
    <3>2. at[j] \in {"writing tile", "recording tile"} => Head(todo[j]) \in TilesOf(j)
      BY Dropping DEF JobInv, Tiling
    <3> QED BY <2>1, <2>2, <3>1, <3>2 DEF TilesKept, Writing
  <2> QED BY <2>2 DEF TilesKept
<1>3. MapKept(j)'
  <2>1. SUFFICES ASSUME ~Overwritten(j)
                 PROVE  MapKept(j)'
    BY DEF MapKept
  <2>2. Range(rasters[j]) \ {None} \subseteq RastersOf(j) /\ Own(j)' = Own(j)
    BY DEF JobInv, Own
  <2>3. at[j] = "writing raster" => RasterOf(j) \in RastersOf(j)
    <3>1. SUFFICES ASSUME at[j] = "writing raster" PROVE Head(todo[j]) \in 1..pair[j].cells
      BY DEF RasterOf, RastersIn, RastersOf
    <3> QED BY <3>1, Dropping DEF JobInv, Comparing
  <2>4. RasterOf(j)' = RasterOf(j)
    BY DEF RasterOf
  <2> QED BY <2>1, <2>2, <2>3, <2>4 DEF MapKept, JobInv, Writing
<1> QED BY <1>1, <1>2, <1>3

LEMMA PagesSame ==
  ASSUME NEW j \in Jobs, PagesKept(j), LocalsSame(j), Overwritten(j) => Overwritten(j)',
         \A kind \in {"map", "report map", "report"} : FileSame(Rendered(kind, j))
  PROVE  PagesKept(j)'
BY DEF LocalsSame, FileSame, PagesKept, Untouched, Settled, Expected, Own

(* A job that has not been submitted.                                      *)
LEMMA NotBegun ==
  ASSUME NEW j \in Jobs, JobInv(j), PagesKept(j), at[j] = "none", LocalsSame(j),
         \A kind \in {"map", "report map", "report"} : FileSame(Rendered(kind, j))
  PROVE  JobInv(j)' /\ TilesKept(j)' /\ MapKept(j)' /\ PagesKept(j)'
<1>1. /\ at'[j] = "none" /\ rasters'[j] = <<>> /\ path'[j] = None
  BY DEF LocalsSame, JobInv, Comparing
<1>2. JobInv(j)'
  BY DEF LocalsSame, JobInv, TilesOf, RastersOf
<1>3. TilesKept(j)'
  BY <1>1 DEF TilesKept, Tiling, Inferring
<1>4. MapKept(j)'
  <2>1. Range(<<>>) = {}
    BY EmptyRange
  <2> QED BY <1>1, <2>1 DEF MapKept
<1>5. PagesKept(j)'
  BY <1>1 DEF PagesKept, Untouched, FileSame
<1> QED BY <1>2, <1>3, <1>4, <1>5

(* A step of job j, to one of its files at most: what is left to show of it *)
(* is what j has still to do and what its own files hold.                   *)
LEMMA JobStep ==
  ASSUME IInv, NEW j \in Jobs, NEW p \in FilesOf(j), at[j] \notin {"none", "done", "gone"},
         Elsewhere(p), UNCHANGED <<pair, req, again, crashed>>, cancelled \subseteq cancelled',
         \A k \in Jobs \ {j} : LocalsSame(k),
         \A t \in begun : t \in begun' \/ t = p,
         \A k \in damaged' : k \in damaged \/ (k = j /\ Shared(j)),
         \A q \in Paths : \A h \in writing'[q] :
           JobWrites(j, q, h)' \/ (h \in writing[q] /\ ~JobWrites(j, q, h)),
         TypeOK', JobInv(j)', TilesKept(j)', MapKept(j)'
  PROVE  IInv'
<1>1. /\ p \in Paths /\ p[1] \in {"tile", "raster", "mosaic"}
      /\ \A i : p # Cog(i) /\ p # Rendered("thumbnail", i)
      /\ \A k : \A kind \in {"map", "report map", "report"} : p # Rendered(kind, k)
  <2>1. TypeOK /\ JobInv(j) /\ at[j] # "none"
    BY DEF IInv
  <2>2. p \in Paths /\ p[1] \in {"tile", "raster", "mosaic"}
    BY <2>1, JobHasPair
  <2>4. ASSUME NEW i PROVE p # Cog(i) /\ p # Rendered("thumbnail", i)
    BY <2>2, RenderedApart
  <2>5. ASSUME NEW k, NEW kind \in {"map", "report map", "report"} PROVE p # Rendered(kind, k)
    BY <2>2, RenderedApart
  <2> QED BY <2>2, <2>4, <2>5
<1>2. \A k \in Jobs : /\ Shared(k)' = Shared(k) /\ Overwritten(k)' = Overwritten(k)
                      /\ Own(k)' = Own(k)
  BY DEF Shared, ImagesOf, Overwritten, Own
<1>3. \A k \in Jobs, kind \in {"map", "report map", "report"} :
        FileSame(Rendered(kind, k))
  <2>1. ASSUME NEW k \in Jobs, NEW kind \in {"map", "report map", "report"}
        PROVE  Rendered(kind, k) \in Paths /\ Rendered(kind, k) # p
    BY <1>1, PathsAre
  <2> QED BY <2>1 DEF Elsewhere
<1>4. ASSUME NEW k \in Jobs PROVE JobInv(k)' /\ TilesKept(k)' /\ MapKept(k)' /\ PagesKept(k)'
  <2>1. CASE k = j
    <3>1. \A kind \in {"map", "report map", "report"} : Untouched(Rendered(kind, j))'
      BY <1>3 DEF IInv, PagesKept, Untouched, Rendered, FileSame
    <3> QED BY <2>1, <3>1, MarksAssumption DEF PagesKept, Untouched, Settled
  <2>2. CASE k # j /\ at[k] = "none"
    <3>1. LocalsSame(k) /\ JobInv(k) /\ PagesKept(k)
      BY <2>2 DEF IInv
    <3> QED BY <1>3, <2>2, <3>1, NotBegun
  <2>3. CASE k # j /\ at[k] # "none"
    <3>1. /\ LocalsSame(k) /\ JobInv(k) /\ TilesKept(k) /\ MapKept(k) /\ PagesKept(k)
      BY <2>3 DEF IInv
    <3>2. /\ ~Shared(k) => p \notin TilesOf(k)
          /\ ~Overwritten(k) => /\ p \notin RastersOf(k)
                                /\ pair[k].cells > 1 => p # Mosaic(pair[k].after)
      BY <2>3, FilesApart DEF IInv
    <3>3. TilesOf(k) \subseteq Paths /\ RastersOf(k) \subseteq Paths /\ Mosaic(pair[k].after) \in Paths
      BY <2>3, JobHasPair, PathsAre DEF IInv, FilesOf
    <3>4. ~Shared(k) => \A t \in TilesOf(k) : FileSame(t) /\ (t \in begun => t \in begun')
      BY <3>2, <3>3 DEF Elsewhere
    <3>5. ~Overwritten(k) =>
            /\ \A q \in RastersOf(k) : FileSame(q)
            /\ pair[k].cells > 1 => FileSame(Mosaic(pair[k].after))
      BY <3>2, <3>3 DEF Elsewhere
    <3>6. JobInv(k)' /\ TilesKept(k)' /\ MapKept(k)'
      BY <1>2, <3>1, <3>4, <3>5, JobKept
    <3> QED BY <1>2, <1>3, <3>1, <3>6, PagesSame
  <2> QED BY <2>1, <2>2, <2>3
<1>5. WritersKnown'
  <2>1. SUFFICES ASSUME NEW q \in Paths, q[1] \in {"tile", "raster", "mosaic"}, NEW h \in writing'[q]
                 PROVE  \E k \in Jobs : JobWrites(k, q, h)'
    BY DEF WritersKnown
  <2>2. CASE h \in writing[q] /\ ~JobWrites(j, q, h)
    <3>1. PICK k \in Jobs : JobWrites(k, q, h)
      BY <2>1, <2>2 DEF IInv, WritersKnown
    <3>2. k # j
      BY <2>2, <3>1
    <3>3. JobWrites(k, q, h)'
      BY <3>1, <3>2, <1>2 DEF LocalsSame, JobWrites, RasterOf
    <3> QED BY <3>3
  <2> QED BY <2>2
<1>6. ImagesKept'
  <2>1. \A i \in Images : Cog(i) \in Paths /\ holds'[Cog(i)] = holds[Cog(i)] /\ writing'[Cog(i)] = writing[Cog(i)]
    BY <1>1, PathsAre DEF Elsewhere, FileSame
  <2> QED BY <2>1 DEF IInv, ImagesKept
<1>7. ThumbnailsKept'
  <2>1. \A i \in Images : /\ holds'[Rendered("thumbnail", i)] = holds[Rendered("thumbnail", i)]
                          /\ writing'[Rendered("thumbnail", i)] = writing[Rendered("thumbnail", i)]
    BY <1>1, PathsAre DEF Elsewhere, FileSame
  <2> QED BY <2>1 DEF IInv, ThumbnailsKept, Settled
<1>8. ASSUME NEW r \in Requests PROVE RequestInv(r)'
  <2>1. RequestInv(r) /\ req[r] \in Request
    BY DEF IInv, TypeOK
  <2>2. CASE req[r].at = "idle"
    BY <2>2 DEF RequestInv
  <2>3. CASE req[r].at # "idle" /\ req[r].kind = "thumbnail"
    <3>1. Target(r) \in Paths /\ Target(r) # p /\ req[r].key \in Images
      BY <1>1, <2>1, <2>3, PathsAre DEF RequestInv, Target
    <3> QED BY <2>1, <2>3, <3>1 DEF RequestInv, Target, Elsewhere, FileSame
  <2>4. CASE req[r].at # "idle" /\ req[r].kind # "thumbnail"
    <3>1. /\ req[r].key \in Jobs /\ at[req[r].key] = "done" /\ req[r].kind \in {"map", "report"}
      BY <2>1, <2>4 DEF RequestInv
    <3>2. LocalsSame(req[r].key)
      BY <3>1
    <3>3. /\ holds'[Target(r)] = holds[Target(r)] /\ writing'[Target(r)] = writing[Target(r)]
          /\ writing'[ReportMap(req[r].key)] = writing[ReportMap(req[r].key)]
      BY <1>3, <3>1 DEF Target, ReportMap, FileSame
    <3> QED BY <2>1, <2>4, <3>1, <3>2, <3>3 DEF RequestInv, Target, ReportMap, LocalsSame
  <2> QED BY <2>2, <2>3, <2>4
<1>9. DamageNeedsSharing'
  <2>1. \A k \in damaged' : Shared(k)
    BY DEF IInv, DamageNeedsSharing, Shared
  <2> QED BY <2>1 DEF DamageNeedsSharing, Shared, ImagesOf
<1> QED BY <1>4, <1>5, <1>6, <1>7, <1>8, <1>9 DEF IInv

(* A step that writes no file.                                             *)
LEMMA QuietStep ==
  ASSUME IInv, NEW j \in Jobs, NEW p \in FilesOf(j), at[j] \notin {"none", "done", "gone"},
         \/ at[j] \notin {"writing tile", "writing raster", "writing mosaic"}
         \/ LocalsSame(j),
         UNCHANGED <<holds, writing, pair, req, again, crashed>>, cancelled \subseteq cancelled',
         \A k \in Jobs \ {j} : LocalsSame(k),
         \A t \in begun : t \in begun' \/ t = p,
         \A k \in damaged' : k \in damaged \/ (k = j /\ Shared(j)),
         TypeOK', JobInv(j)', TilesKept(j)', MapKept(j)'
  PROVE  IInv'
<1>1. Elsewhere(p)
  BY DEF Elsewhere, FileSame
<1>2. ASSUME NEW q \in Paths, NEW h \in writing'[q]
      PROVE  JobWrites(j, q, h)' \/ (h \in writing[q] /\ ~JobWrites(j, q, h))
  <2>1. CASE LocalsSame(j)
    BY <2>1 DEF LocalsSame, JobWrites, RasterOf, Own
  <2>2. CASE at[j] \notin {"writing tile", "writing raster", "writing mosaic"}
    BY <2>2 DEF JobWrites
  <2> QED BY <2>1, <2>2
<1> QED BY <1>1, <1>2, JobStep

LEMMA FirstTile ==
  ASSUME IInv, NEW j \in Jobs, at[j] # "none"
  PROVE  Tile(pair[j].before, 1) \in FilesOf(j)
<1>1. 1 \in 1..pair[j].cells
  BY JobHasPair DEF IInv
<1> QED BY <1>1 DEF FilesOf, TilesOf, TilesIn

(* A job that ends, with a map or without.                                 *)
LEMMA Ends ==
  ASSUME IInv, NEW j \in Jobs, pair' = pair, at[j] # "none", at'[j] \in {"done", "gone"},
         rasters'[j] = <<>>,
         \/ path'[j] = None
         \/ /\ at'[j] = "done"
            /\ path'[j] \in RastersOf(j) \/ (pair[j].cells > 1 /\ path'[j] = Mosaic(pair[j].after))
            /\ ~Overwritten(j) => holds'[path'[j]] = Own(j)
  PROVE  JobInv(j)' /\ TilesKept(j)' /\ MapKept(j)'
<1>1. pair[j] # NoPair
  BY DEF IInv, JobInv
<1>2. Range(<<>>) = {}
  BY EmptyRange
<1>3. JobInv(j)'
  BY <1>1, <1>2 DEF JobInv, Tiling, Comparing, RastersOf
<1>4. TilesKept(j)'
  BY DEF TilesKept, Tiling, Inferring
<1>5. MapKept(j)'
  BY <1>2 DEF MapKept, Overwritten, Own
<1> QED BY <1>3, <1>4, <1>5

(* The image a tile is cut from is whole, unless it was uploaded again.    *)
LEMMA TilesHaveImages ==
  ASSUME IInv, NEW j \in Jobs, at[j] \in Tiling, todo[j] # <<>>
  PROVE  /\ Head(todo[j]) \in TilesOf(j) /\ Head(todo[j]) \in FilesOf(j)
         /\ Tail(todo[j]) \in Seq(TilesOf(j))
         /\ Range(todo[j]) = {Head(todo[j])} \cup Range(Tail(todo[j]))
         /\ Whole(Source(Head(todo[j]))) \/ Shared(j)
<1>1. TypeOK /\ JobInv(j) /\ ImagesKept
  BY DEF IInv
<1>2. todo[j] \in Seq(TilesOf(j))
  BY <1>1 DEF JobInv
<1>3. /\ Head(todo[j]) \in TilesOf(j) /\ Tail(todo[j]) \in Seq(TilesOf(j))
      /\ Range(todo[j]) = {Head(todo[j])} \cup Range(Tail(todo[j]))
  BY <1>2, Dropping
<1>4. ImagesOf(j) = {pair[j].before, pair[j].after} /\ ImagesOf(j) \subseteq Images
  <2>1. at[j] # "none"
    BY DEF Tiling
  <2> QED BY <1>1, <2>1, JobHasPair
<1>5. PICK i \in ImagesOf(j), c \in 1..pair[j].cells : Head(todo[j]) = Tile(i, c)
  BY <1>3, <1>4 DEF TilesIn, TilesOf
<1>6. Source(Head(todo[j])) = Cog(i)
  BY <1>5 DEF Source, Tile
<1>7. CASE i \in again
  BY <1>3, <1>7 DEF Shared, FilesOf
<1>8. CASE i \notin again
  <2>1. holds[Cog(i)] = Pixels
    BY <1>1, <1>4, <1>8 DEF ImagesKept
  <2>2. Whole(Cog(i))
    BY <2>1, ContentsAre DEF Whole, Exists, Marks
  <2> QED BY <1>3, <1>6, <2>2 DEF FilesOf
<1> QED BY <1>7, <1>8

LEMMA TilingFailsKeeps ==
  ASSUME IInv, NEW j \in Jobs, TilingFails(j)
  PROVE  IInv'
<1>1. /\ at[j] = "tiling" /\ todo[j] # <<>> /\ at[j] \in Tiling /\ TypeOK /\ JobInv(j)
  BY DEF IInv, TilingFails, Tiling
<1>2. Shared(j) /\ Head(todo[j]) \in FilesOf(j)
  BY <1>1, TilesHaveImages DEF TilingFails
<1>3. /\ UNCHANGED <<holds, writing, begun, pair, todo, rasters, cancelled, path, req, again, crashed>>
      /\ at' = [at EXCEPT ![j] = End(j)] /\ damaged' = damaged \cup {j}
  BY DEF TilingFails, Goto, reqVars, fileVars
<1>4. TypeOK'
  <2>1. at' \in [Jobs -> Places]
    BY <1>1, <1>3 DEF TypeOK, Places, End
  <2> QED BY <2>1, <1>1, <1>3 DEF TypeOK
<1>5. \A k \in Jobs \ {j} : LocalsSame(k)
  BY <1>1, <1>3 DEF LocalsSame, TypeOK
<1>6. at'[j] \in {"done", "gone"} /\ rasters'[j] = <<>> /\ path'[j] = None
  BY <1>1, <1>3 DEF TypeOK, JobInv, Comparing, End
<1>7. JobInv(j)' /\ TilesKept(j)' /\ MapKept(j)'
  BY <1>1, <1>3, <1>6, Ends
<1> QED BY <1>1, <1>2, <1>3, <1>4, <1>5, <1>7, QuietStep

LEMMA RecordingFailsKeeps ==
  ASSUME IInv, NEW j \in Jobs, RecordingFails(j)
  PROVE  IInv'
<1>1. /\ at[j] = "recording tile" /\ at[j] \in Tiling /\ TypeOK /\ JobInv(j) /\ TilesKept(j)
      /\ Head(todo[j]) \notin begun /\ todo[j] # <<>>
  BY DEF IInv, RecordingFails, Tiling, JobInv
<1>2. Shared(j) /\ Head(todo[j]) \in FilesOf(j)
  BY <1>1, TilesHaveImages DEF TilesKept
<1>3. /\ UNCHANGED <<holds, writing, begun, pair, todo, rasters, cancelled, path, req, again, crashed>>
      /\ at' = [at EXCEPT ![j] = End(j)] /\ damaged' = damaged \cup {j}
  BY DEF RecordingFails, Goto, reqVars, fileVars
<1>4. TypeOK'
  <2>1. at' \in [Jobs -> Places]
    BY <1>1, <1>3 DEF TypeOK, Places, End
  <2> QED BY <2>1, <1>1, <1>3 DEF TypeOK
<1>5. \A k \in Jobs \ {j} : LocalsSame(k)
  BY <1>1, <1>3 DEF LocalsSame, TypeOK
<1>6. at'[j] \in {"done", "gone"} /\ rasters'[j] = <<>> /\ path'[j] = None
  BY <1>1, <1>3 DEF TypeOK, JobInv, Comparing, End
<1>7. JobInv(j)' /\ TilesKept(j)' /\ MapKept(j)'
  BY <1>1, <1>3, <1>6, Ends
<1> QED BY <1>1, <1>2, <1>3, <1>4, <1>5, <1>7, QuietStep

LEMMA RecordTileKeeps ==
  ASSUME IInv, NEW j \in Jobs, RecordTile(j)
  PROVE  IInv'
<1>1. /\ at[j] = "recording tile" /\ at[j] \in Tiling /\ TypeOK /\ JobInv(j) /\ TilesKept(j)
      /\ MapKept(j) /\ Head(todo[j]) \in begun /\ todo[j] # <<>>
  BY DEF IInv, RecordTile, Tiling, JobInv
<1>2. /\ Head(todo[j]) \in TilesOf(j) /\ Head(todo[j]) \in FilesOf(j)
      /\ Tail(todo[j]) \in Seq(TilesOf(j))
      /\ Range(todo[j]) = {Head(todo[j])} \cup Range(Tail(todo[j]))
  BY <1>1, TilesHaveImages
<1>3. /\ UNCHANGED <<holds, writing, pair, rasters, damaged, cancelled, path, req, again, crashed>>
      /\ at' = [at EXCEPT ![j] = "tiling"] /\ begun' = begun \ {Head(todo[j])}
      /\ todo' = [todo EXCEPT ![j] = Tail(@)]
  BY DEF RecordTile, Goto, DropFirst, reqVars, fileVars
<1>4. at'[j] = "tiling" /\ todo'[j] = Tail(todo[j]) /\ rasters[j] = <<>> /\ path[j] = None
  BY <1>1, <1>3 DEF TypeOK, JobInv, Comparing
<1>5. TypeOK'
  <2>1. at' \in [Jobs -> Places]
    BY <1>1, <1>3 DEF TypeOK, Places, Tiling
  <2>2. Tail(todo[j]) \in Steps
    BY <1>1, Dropping DEF TypeOK, Steps
  <2>3. todo' \in [Jobs -> Steps]
    BY <1>1, <1>3, <2>2 DEF TypeOK
  <2> QED BY <2>1, <2>3, <1>1, <1>3 DEF TypeOK
<1>6. \A k \in Jobs \ {j} : LocalsSame(k)
  BY <1>1, <1>3 DEF LocalsSame, TypeOK
<1>7. JobInv(j)'
  <2>1. TilesOf(j)' = TilesOf(j) /\ pair[j] # NoPair
    BY <1>1, <1>3 DEF TilesOf, JobInv
  <2>2. Range(<<>>) = {}
    BY EmptyRange
  <2> QED BY <1>2, <1>3, <1>4, <2>1, <2>2 DEF JobInv, Comparing
<1>8. TilesKept(j)'
  <2>1. Cut(j)' \subseteq Cut(j) \cup {Head(todo[j])}
    BY <1>1, <1>2, <1>3, <1>4 DEF Cut, TilesOf, Tiling
  <2>2. Shared(j)' = Shared(j)
    BY <1>3 DEF Shared, ImagesOf
  <2> QED BY <1>1, <1>3, <1>4, <2>1, <2>2 DEF TilesKept
<1>9. MapKept(j)'
  <2>1. Range(<<>>) = {}
    BY EmptyRange
  <2> QED BY <1>3, <1>4, <2>1 DEF MapKept
<1> QED BY <1>1, <1>2, <1>3, <1>5, <1>6, <1>7, <1>8, <1>9, QuietStep

LEMMA EnterGateKeeps ==
  ASSUME IInv, NEW j \in Jobs, EnterGate(j)
  PROVE  IInv'
<1> DEFINE cells == [c \in 1..pair[j].cells |-> c]
<1>1. /\ at[j] = "tiling" /\ TypeOK /\ JobInv(j) /\ TilesKept(j) /\ todo[j] = <<>>
      /\ j \notin cancelled
  BY DEF IInv, EnterGate
<1>2. /\ UNCHANGED <<holds, writing, begun, pair, rasters, damaged, cancelled, path, req, again, crashed>>
      /\ at' = [at EXCEPT ![j] = "comparing"] /\ todo' = [todo EXCEPT ![j] = cells]
  BY DEF EnterGate, Goto, reqVars, fileVars
<1>3. /\ at'[j] = "comparing" /\ todo'[j] = cells /\ rasters[j] = <<>> /\ path[j] = None
      /\ pair[j] # NoPair
  BY <1>1, <1>2 DEF TypeOK, JobInv, Comparing
<1>4. pair[j].cells \in {1, 2}
  BY <1>1, JobHasPair
<1>5. /\ cells \in Seq(1..pair[j].cells) /\ cells \in Steps
      /\ DOMAIN cells = 1..pair[j].cells /\ \A c \in 1..pair[j].cells : cells[c] = c
  <2>1. cells \in [1..pair[j].cells -> 1..pair[j].cells] /\ pair[j].cells \in Nat
    BY <1>4
  <2>2. cells \in Seq(1..pair[j].cells)
    BY <2>1, SeqDef
  <2>3. 1..pair[j].cells \subseteq Paths \cup {1, 2} \cup Content
    BY <1>4
  <2>4. cells \in [1..pair[j].cells -> Paths \cup {1, 2} \cup Content]
    BY <2>1, <2>3
  <2>5. cells \in Steps
    BY <2>1, <2>4, SeqDef DEF Steps
  <2>6. DOMAIN cells = 1..pair[j].cells /\ \A c \in 1..pair[j].cells : cells[c] = c
    OBVIOUS
  <2> QED BY <2>2, <2>5, <2>6
<1> HIDE DEF cells
<1>6. TypeOK'
  <2>1. at' \in [Jobs -> Places] /\ todo' \in [Jobs -> Steps]
    BY <1>1, <1>2, <1>5 DEF TypeOK, Places, Inferring
  <2> QED BY <2>1, <1>1, <1>2 DEF TypeOK
<1>7. \A k \in Jobs \ {j} : LocalsSame(k)
  BY <1>1, <1>2 DEF LocalsSame, TypeOK
<1>8. Range(<<>>) = {}
  BY EmptyRange
<1>9. JobInv(j)'
  <2>1. \A m, n \in DOMAIN cells : m < n => cells[m] < cells[n]
    BY <1>5
  <2> QED BY <1>2, <1>3, <1>5, <1>8, <2>1 DEF JobInv, Comparing, Tiling
<1>10. TilesKept(j)'
  <2>1. Cut(j)' = Cut(j)
    BY <1>1, <1>2, <1>3, <1>8 DEF Cut, TilesOf, Tiling
  <2>2. Shared(j)' = Shared(j)
    BY <1>2 DEF Shared, ImagesOf
  <2> QED BY <1>1, <1>2, <1>3, <2>1, <2>2 DEF TilesKept, Tiling
<1>11. MapKept(j)'
  BY <1>2, <1>3, <1>8 DEF MapKept
<1>12. Tile(pair[j].before, 1) \in FilesOf(j)
  BY <1>1, FirstTile
<1> QED BY <1>1, <1>2, <1>6, <1>7, <1>9, <1>10, <1>11, <1>12, QuietStep

(* The image in hand is the first of what there is to do.                  *)
LEMMA ImageInHandFirst ==
  ASSUME NEW S, NEW j \in Jobs, todo[j] \in Seq(S), pair[j].cells \in {1, 2}
  PROVE  /\ ImageInHand(j) \in Seq(S)
         /\ todo[j] # <<>> => ImageInHand(j) # <<>> /\ Head(ImageInHand(j)) = Head(todo[j])
<1>1. CASE Len(todo[j]) > pair[j].cells
  <2>1. PICK n \in Nat : n = Len(todo[j])
    BY LenProperties
  <2>2. PICK m \in 1..n : m = n - pair[j].cells
    BY <1>1, <2>1
  <2>3. ImageInHand(j) = SubSeq(todo[j], 1, m)
    BY <1>1, <2>1, <2>2 DEF ImageInHand
  <2>4. \A i \in 1..m : todo[j][i] \in S
    BY <2>1, <2>2, ElementOfSeq
  <2>5. 1 \in Int /\ m \in Int /\ 1 <= m
    BY <2>2
  <2>6. SubSeq(todo[j], 1, m) \in Seq(S) /\ Len(SubSeq(todo[j], 1, m)) = m - 1 + 1
    BY <2>4, <2>5, SubSeqProperties
  <2>7. Head(SubSeq(todo[j], 1, m)) = todo[j][1]
    <3>1. 1 \in 1..Len(todo[j]) /\ m \in 1..Len(todo[j])
      BY <2>1, <2>2
    <3> QED BY <3>1, HeadTailOfSubSeq
  <2>8. SubSeq(todo[j], 1, m) # <<>>
    <3>1. Len(SubSeq(todo[j], 1, m)) # 0
      BY <2>5, <2>6
    <3> QED BY <2>6, <3>1, Ranges
  <2> QED BY <2>3, <2>6, <2>7, <2>8, Dropping
<1>2. CASE ~(Len(todo[j]) > pair[j].cells)
  BY <1>2 DEF ImageInHand
<1> QED BY <1>1, <1>2

LEMMA CancelKeeps ==
  ASSUME IInv, NEW j \in Jobs, Cancel(j)
  PROVE  IInv'
<1>1. /\ at[j] \in Tiling \cup Inferring /\ at[j] \notin {"none", "done", "gone"}
      /\ TypeOK /\ JobInv(j) /\ TilesKept(j) /\ MapKept(j)
  BY DEF IInv, Cancel, Tiling, Inferring
<1>2. /\ UNCHANGED <<holds, writing, begun, pair, at, rasters, damaged, path, req, again, crashed>>
      /\ cancelled' = cancelled \cup {j}
  BY DEF Cancel, reqVars, fileVars
<1>3. Shared(j)' = Shared(j) /\ Overwritten(j)' = Overwritten(j) /\ Own(j)' = Own(j)
  BY <1>2 DEF Shared, ImagesOf, Overwritten, Own
<1>4. Tile(pair[j].before, 1) \in FilesOf(j)
  BY <1>1, FirstTile
<1>5. CASE at[j] \in Inferring
  <2>1. todo' = todo
    BY <1>5 DEF Cancel
  <2>2. \A k \in Jobs : LocalsSame(k)
    BY <1>2, <2>1 DEF LocalsSame
  <2>3. TypeOK'
    BY <1>1, <1>2, <2>1 DEF TypeOK
  <2>4. JobInv(j)' /\ TilesKept(j)' /\ MapKept(j)'
    BY <1>1, <1>2, <1>3, <2>2, JobKept DEF FileSame
  <2> QED BY <1>1, <1>2, <1>4, <2>2, <2>3, <2>4, QuietStep
<1>6. CASE at[j] \in Tiling
  <2>1. PICK left \in {ImageInHand(j), <<>>} :
          (left = <<>> => BetweenImages(j)) /\ todo' = [todo EXCEPT ![j] = left]
    BY <1>6 DEF Cancel, Tiling, Inferring
  <2>2. todo[j] \in Seq(TilesOf(j)) /\ pair[j].cells \in {1, 2}
    BY <1>1, <1>6, JobHasPair DEF JobInv
  <2>3. todo[j] \in Seq(Paths \cup {1, 2} \cup Content)
    BY <1>1 DEF TypeOK, Steps
  <2>4. left \in Seq(TilesOf(j)) /\ left \in Steps
    BY <2>1, <2>2, <2>3, ImageInHandFirst, EmptySeq DEF Steps
  <2>5. at[j] \in {"writing tile", "recording tile"} => left # <<>> /\ Head(left) = Head(todo[j])
    BY <1>1, <2>1, <2>2, ImageInHandFirst DEF JobInv, BetweenImages
  <2>6. todo'[j] = left /\ \A k \in Jobs \ {j} : todo'[k] = todo[k]
    BY <1>1, <2>1 DEF TypeOK
  <2>7. \A k \in Jobs \ {j} : LocalsSame(k)
    BY <1>2, <2>6 DEF LocalsSame
  <2>8. TypeOK'
    <3>1. todo' \in [Jobs -> Steps]
      BY <1>1, <2>1, <2>4 DEF TypeOK
    <3> QED BY <1>1, <1>2, <3>1 DEF TypeOK
  <2>9. JobInv(j)'
    <3>1. TilesOf(j)' = TilesOf(j)
      BY <1>2 DEF TilesOf
    <3>2. at[j] \notin {"compared", "writing raster", "writing mosaic"} /\ at[j] \notin Comparing
      BY <1>6 DEF Tiling, Comparing
    <3> QED BY <1>1, <1>2, <2>4, <2>5, <2>6, <3>1, <3>2 DEF JobInv, RastersOf
  <2>10. TilesKept(j)'
    <3>1. Cut(j)' = {}
      BY <1>2, <1>6 DEF Cut
    <3> QED BY <1>1, <1>2, <1>3, <2>5, <2>6, <3>1 DEF TilesKept, Writing
  <2>11. MapKept(j)'
    BY <1>1, <1>2, <1>3, <1>6, <2>6 DEF MapKept, Tiling
  <2>12. \A q, h : JobWrites(j, q, h)' = JobWrites(j, q, h)
    BY <1>2, <1>6, <2>5, <2>6 DEF JobWrites, Tiling
  <2>13. \A q \in Paths : \A h \in writing'[q] :
           JobWrites(j, q, h)' \/ (h \in writing[q] /\ ~JobWrites(j, q, h))
    BY <1>2, <2>12
  <2>14. Elsewhere(Tile(pair[j].before, 1))
    BY <1>2 DEF Elsewhere, FileSame
  <2> QED BY <1>1, <1>2, <1>4, <2>7, <2>8, <2>9, <2>10, <2>11, <2>13, <2>14, JobStep
<1> QED BY <1>1, <1>5, <1>6

(* A pair is done with: the cells still to be compared are later ones.     *)
LEMMA PairDone ==
  ASSUME IInv, NEW j \in Jobs, pair' = pair, at[j] \in Comparing, todo[j] # <<>>,
         todo'[j] = Tail(todo[j]), at'[j] = "comparing", path'[j] = path[j],
         Range(rasters'[j]) \subseteq Range(rasters[j]) \cup {None, RasterOf(j)}
  PROVE  /\ JobInv(j)' /\ RasterOf(j) \in RastersOf(j) /\ RasterOf(j) \in FilesOf(j)
         /\ Head(todo[j]) \in 1..pair[j].cells
<1>1. JobInv(j) /\ TypeOK /\ at[j] # "none"
  BY DEF IInv, Comparing
<1>2. /\ pair[j].before \in Images /\ pair[j].cells \in {1, 2} /\ pair[j] # NoPair
  BY <1>1, JobHasPair DEF JobInv
<1>3. /\ todo[j] \in Seq(1..pair[j].cells)
      /\ \A m, n \in DOMAIN todo[j] : m < n => todo[j][m] < todo[j][n]
      /\ \A c \in 1..pair[j].cells :
           Raster(pair[j].before, c) \in Range(rasters[j]) => Later(c, todo[j])
      /\ Range(rasters[j]) \subseteq RastersOf(j) \cup {None} /\ path[j] = None
  BY <1>1 DEF JobInv, Comparing
<1>4. /\ Head(todo[j]) \in 1..pair[j].cells /\ Head(todo[j]) = todo[j][1]
      /\ Tail(todo[j]) \in Seq(1..pair[j].cells) /\ Len(Tail(todo[j])) = Len(todo[j]) - 1
      /\ \A n \in 1..Len(Tail(todo[j])) : Tail(todo[j])[n] = todo[j][n + 1]
  BY <1>3, Dropping
<1>5. /\ DOMAIN todo[j] = 1..Len(todo[j]) /\ Len(todo[j]) \in Nat
      /\ DOMAIN Tail(todo[j]) = 1..Len(Tail(todo[j]))
  BY <1>3, <1>4, Ranges
<1>6. \A n \in DOMAIN Tail(todo[j]) :
        /\ n + 1 \in DOMAIN todo[j] /\ 1 \in DOMAIN todo[j] /\ 1 < n + 1
        /\ Tail(todo[j])[n] = todo[j][n + 1]
  BY <1>4, <1>5
<1>7. RasterOf(j) \in RastersOf(j) /\ RasterOf(j) \in FilesOf(j)
  BY <1>4 DEF RasterOf, RastersOf, RastersIn, FilesOf
<1>8. ASSUME NEW c \in 1..pair[j].cells, Raster(pair[j].before, c) \in Range(rasters'[j])
      PROVE  Later(c, Tail(todo[j]))
  <2>1. Raster(pair[j].before, c) # None
    <3>1. c \in {1, 2}
      BY <1>2
    <3> QED BY <3>1, <1>2, PathsAre, MarksAssumption
  <2>2. CASE Raster(pair[j].before, c) \in Range(rasters[j])
    BY <2>2, <1>3, <1>6 DEF Later
  <2>3. CASE Raster(pair[j].before, c) = RasterOf(j)
    <3>1. c = todo[j][1]
      BY <2>3, <1>4 DEF RasterOf, Raster
    <3> QED BY <3>1, <1>3, <1>6 DEF Later
  <2> QED BY <2>1, <2>2, <2>3, <1>8
<1>9. \A m, n \in DOMAIN Tail(todo[j]) : m < n => Tail(todo[j])[m] < Tail(todo[j])[n]
  <2>1. SUFFICES ASSUME NEW m \in DOMAIN Tail(todo[j]), NEW n \in DOMAIN Tail(todo[j]), m < n
                 PROVE  Tail(todo[j])[m] < Tail(todo[j])[n]
    OBVIOUS
  <2>2. m + 1 < n + 1
    BY <2>1, <1>5
  <2> QED BY <2>1, <2>2, <1>3, <1>6
<1>10. RastersOf(j)' = RastersOf(j)
  BY DEF RastersOf
<1>11. JobInv(j)'
  BY <1>2, <1>3, <1>4, <1>7, <1>8, <1>9, <1>10 DEF JobInv, Comparing, Tiling
<1> QED BY <1>4, <1>7, <1>11

LEMMA CompareKeeps ==
  ASSUME IInv, NEW j \in Jobs, Compare(j)
  PROVE  IInv'
<1>1. /\ at[j] = "comparing" /\ TypeOK /\ JobInv(j) /\ TilesKept(j) /\ MapKept(j) /\ todo[j] # <<>>
  BY DEF IInv, Compare
<1>2. UNCHANGED <<holds, writing, begun, pair, rasters, cancelled, path, req, again, crashed>>
  BY DEF Compare, reqVars, fileVars
<1>3. \/ at' = [at EXCEPT ![j] = "compared"] /\ todo' = todo
      \/ at' = at /\ todo' = [todo EXCEPT ![j] = Tail(@)]
  BY DEF Compare, Goto, DropFirst
<1>4. /\ todo[j] \in Seq(1..pair[j].cells) /\ Head(todo[j]) \in 1..pair[j].cells
      /\ Tail(todo[j]) \in Steps
  <2>1. todo[j] \in Seq(1..pair[j].cells)
    BY <1>1 DEF JobInv, Comparing
  <2>2. todo[j] \in Seq(Paths \cup {1, 2} \cup Content)
    BY <1>1 DEF TypeOK, Steps
  <2> QED BY <1>1, <2>1, <2>2, Dropping DEF Steps
<1>5. damaged' = damaged \/ (damaged' = damaged \cup {j} /\ Shared(j))
  <2>1. CASE Shared(j)
    BY <2>1 DEF Compare
  <2>2. CASE ~Shared(j)
    <3>1. BeforeTile(j) \in TilesOf(j) /\ AfterTile(j) \in TilesOf(j)
      BY <1>4 DEF BeforeTile, AfterTile, TilesOf, TilesIn
    <3>2. \A t \in TilesOf(j) : holds[t] = Pixels
      BY <1>1, <2>2 DEF TilesKept, Cut, Tiling, Inferring
    <3>3. Whole(BeforeTile(j)) /\ Whole(AfterTile(j))
      BY <3>1, <3>2, ContentsAre DEF Whole, Exists, Marks
    <3> QED BY <3>3 DEF Compare
  <2> QED BY <2>1, <2>2
<1>6. TypeOK'
  <2>1. at' \in [Jobs -> Places]
    BY <1>1, <1>3 DEF TypeOK, Places, Inferring
  <2>2. todo' \in [Jobs -> Steps]
    BY <1>1, <1>3, <1>4 DEF TypeOK
  <2>3. damaged' \subseteq Jobs
    BY <1>1, <1>5 DEF TypeOK
  <2> QED BY <2>1, <2>2, <2>3, <1>1, <1>2 DEF TypeOK
<1>7. \A k \in Jobs \ {j} : LocalsSame(k)
  BY <1>1, <1>2, <1>3 DEF LocalsSame, TypeOK
<1>8. JobInv(j)'
  <2>1. CASE at' = [at EXCEPT ![j] = "compared"] /\ todo' = todo
    <3>1. at'[j] = "compared"
      BY <2>1, <1>1 DEF TypeOK
    <3> QED BY <3>1, <2>1, <1>1, <1>2 DEF JobInv, Comparing, Tiling, RastersOf
  <2>2. CASE at' = at /\ todo' = [todo EXCEPT ![j] = Tail(@)]
    <3>1. todo'[j] = Tail(todo[j]) /\ at'[j] = "comparing" /\ at[j] \in Comparing
      BY <2>2, <1>1 DEF TypeOK, Comparing
    <3> QED BY <3>1, <1>1, <1>2, PairDone
  <2> QED BY <2>1, <2>2, <1>3
<1>9. at'[j] \in {"comparing", "compared"} /\ path[j] = None
  BY <1>1, <1>3 DEF TypeOK, JobInv
<1>10. TilesKept(j)'
  <2>1. Cut(j)' = Cut(j)
    BY <1>1, <1>2, <1>9 DEF Cut, TilesOf, Tiling
  <2>2. Shared(j)' = Shared(j)
    BY <1>2 DEF Shared, ImagesOf
  <2> QED BY <1>1, <1>2, <1>9, <2>1, <2>2 DEF TilesKept, Inferring
<1>11. MapKept(j)'
  BY <1>1, <1>2, <1>9 DEF MapKept, Overwritten, Own
<1>12. Tile(pair[j].before, 1) \in FilesOf(j)
  BY <1>1, FirstTile
<1> QED BY <1>1, <1>2, <1>5, <1>6, <1>7, <1>8, <1>10, <1>11, <1>12, QuietStep

LEMMA NoRasterKeeps ==
  ASSUME IInv, NEW j \in Jobs, NoRaster(j)
  PROVE  IInv'
<1>1. /\ at[j] = "compared" /\ at[j] \in Comparing /\ TypeOK /\ JobInv(j) /\ TilesKept(j)
      /\ MapKept(j) /\ todo[j] # <<>> /\ path[j] = None
  BY DEF IInv, NoRaster, JobInv, Comparing
<1>2. /\ UNCHANGED <<holds, writing, begun, pair, damaged, cancelled, path, req, again, crashed>>
      /\ at' = [at EXCEPT ![j] = "comparing"] /\ todo' = [todo EXCEPT ![j] = Tail(@)]
      /\ rasters' = [rasters EXCEPT ![j] = Append(@, None)]
  BY DEF NoRaster, Goto, DropFirst, Added, reqVars, fileVars
<1>3. /\ rasters[j] \in Seq(Paths \cup {None}) /\ todo[j] \in Seq(Paths \cup {1, 2} \cup Content)
      /\ at'[j] = "comparing" /\ todo'[j] = Tail(todo[j]) /\ rasters'[j] = Append(rasters[j], None)
  BY <1>1, <1>2 DEF TypeOK, Steps
<1>4. /\ Append(rasters[j], None) \in Seq(Paths \cup {None})
      /\ Range(Append(rasters[j], None)) = Range(rasters[j]) \cup {None}
  <2>1. None \in Paths \cup {None}
    OBVIOUS
  <2> QED BY <1>3, <2>1, Appending
<1>5. Tail(todo[j]) \in Steps
  BY <1>1, <1>3, Dropping DEF Steps
<1>6. TypeOK'
  <2>1. at' \in [Jobs -> Places]
    BY <1>1, <1>2 DEF TypeOK, Places, Inferring
  <2>2. todo' \in [Jobs -> Steps] /\ rasters' \in [Jobs -> Seq(Paths \cup {None})]
    BY <1>1, <1>2, <1>4, <1>5 DEF TypeOK
  <2> QED BY <2>1, <2>2, <1>1, <1>2 DEF TypeOK
<1>7. \A k \in Jobs \ {j} : LocalsSame(k)
  BY <1>1, <1>2 DEF LocalsSame, TypeOK
<1>8. JobInv(j)'
  BY <1>1, <1>2, <1>3, <1>4, PairDone
<1>9. TilesKept(j)'
  <2>1. Cut(j)' = Cut(j)
    BY <1>1, <1>2, <1>3 DEF Cut, TilesOf, Tiling
  <2>2. Shared(j)' = Shared(j)
    BY <1>2 DEF Shared, ImagesOf
  <2> QED BY <1>1, <1>2, <1>3, <2>1, <2>2 DEF TilesKept, Inferring
<1>10. MapKept(j)'
  BY <1>1, <1>2, <1>3, <1>4 DEF MapKept, Overwritten, Own
<1>11. Tile(pair[j].before, 1) \in FilesOf(j)
  BY <1>1, FirstTile
<1> QED BY <1>1, <1>2, <1>6, <1>7, <1>8, <1>9, <1>10, <1>11, QuietStep

(* One pair: the map is the raster, if there is one.                       *)
LEMMA FinishWithRasterKeeps ==
  ASSUME IInv, NEW j \in Jobs, FinishWithRaster(j)
  PROVE  IInv'
<1> DEFINE map == IF rasters[j] = <<>> THEN None ELSE rasters[j][1]
<1>1. /\ at[j] = "comparing" /\ at[j] \in Comparing /\ TypeOK /\ JobInv(j) /\ MapKept(j)
  BY DEF IInv, FinishWithRaster, Comparing
<1>2. /\ UNCHANGED <<holds, writing, begun, pair, todo, damaged, cancelled, req, again, crashed>>
      /\ at' = [at EXCEPT ![j] = IF j \in cancelled THEN "gone" ELSE "done"]
      /\ path' = [path EXCEPT ![j] = IF j \in cancelled THEN None ELSE map]
      /\ rasters' = [rasters EXCEPT ![j] = <<>>]
  BY DEF FinishWithRaster, Finish, Goto, End, reqVars, fileVars
<1>3. map = None \/ map \in Range(rasters[j])
  <2>1. rasters[j] \in Seq(Paths \cup {None})
    BY <1>1 DEF TypeOK
  <2>2. rasters[j] # <<>> => 1 \in 1..Len(rasters[j])
    BY <2>1, Ranges
  <2> QED BY <2>1, <2>2, Ranges
<1> HIDE DEF map
<1>4. map \in Paths \cup {None} /\ (map # None => map \in RastersOf(j))
  <2>1. Range(rasters[j]) \subseteq RastersOf(j) \cup {None} /\ RastersOf(j) \subseteq Paths
    BY <1>1, JobHasPair DEF JobInv, FilesOf
  <2> QED BY <1>3, <2>1
<1>5. TypeOK'
  <2>1. at' \in [Jobs -> Places]
    BY <1>1, <1>2 DEF TypeOK, Places
  <2>2. path' \in [Jobs -> Paths \cup {None}]
    BY <1>1, <1>2, <1>4 DEF TypeOK
  <2>3. rasters' \in [Jobs -> Seq(Paths \cup {None})]
    BY <1>1, <1>2, EmptySeq DEF TypeOK
  <2> QED BY <2>1, <2>2, <2>3, <1>1, <1>2 DEF TypeOK
<1>6. \A k \in Jobs \ {j} : LocalsSame(k)
  BY <1>1, <1>2 DEF LocalsSame, TypeOK
<1>7. /\ rasters'[j] = <<>> /\ at'[j] \in {"done", "gone"}
      /\ path'[j] = None \/ (at'[j] = "done" /\ path'[j] = map)
  BY <1>1, <1>2 DEF TypeOK
<1>8. ~Overwritten(j) /\ map # None => holds[map] = Own(j)
  BY <1>1, <1>3 DEF MapKept
<1>9. JobInv(j)' /\ TilesKept(j)' /\ MapKept(j)'
  BY <1>1, <1>2, <1>4, <1>7, <1>8, Ends
<1>10. Tile(pair[j].before, 1) \in FilesOf(j)
  BY <1>1, FirstTile
<1> QED BY <1>1, <1>2, <1>5, <1>6, <1>9, <1>10, QuietStep

LEMMA FinishWithoutKeeps ==
  ASSUME IInv, NEW j \in Jobs, FinishWithout(j)
  PROVE  IInv'
<1>1. /\ at[j] = "comparing" /\ TypeOK
  BY DEF IInv, FinishWithout
<1>2. /\ UNCHANGED <<holds, writing, begun, pair, todo, damaged, cancelled, req, again, crashed>>
      /\ at' = [at EXCEPT ![j] = IF j \in cancelled THEN "gone" ELSE "done"]
      /\ path' = [path EXCEPT ![j] = None]
      /\ rasters' = [rasters EXCEPT ![j] = <<>>]
  BY DEF FinishWithout, Finish, Goto, End, reqVars, fileVars
<1>3. TypeOK'
  <2>1. at' \in [Jobs -> Places]
    BY <1>1, <1>2 DEF TypeOK, Places
  <2>2. path' \in [Jobs -> Paths \cup {None}]
    BY <1>1, <1>2 DEF TypeOK
  <2>3. rasters' \in [Jobs -> Seq(Paths \cup {None})]
    BY <1>1, <1>2, EmptySeq DEF TypeOK
  <2> QED BY <2>1, <2>2, <2>3, <1>1, <1>2 DEF TypeOK
<1>4. \A k \in Jobs \ {j} : LocalsSame(k)
  BY <1>1, <1>2 DEF LocalsSame, TypeOK
<1>5. /\ rasters'[j] = <<>> /\ at'[j] \in {"done", "gone"} /\ path'[j] = None
  BY <1>1, <1>2 DEF TypeOK
<1>6. JobInv(j)' /\ TilesKept(j)' /\ MapKept(j)'
  BY <1>1, <1>2, <1>5, Ends
<1>7. Tile(pair[j].before, 1) \in FilesOf(j)
  BY <1>1, FirstTile
<1> QED BY <1>1, <1>2, <1>3, <1>4, <1>6, <1>7, QuietStep

-----------------------------------------------------------------------------
(* Who else may have a job's file open.                                    *)

LEMMA WritesOwn ==
  ASSUME IInv, NEW j \in Jobs, NEW p, NEW h, JobWrites(j, p, h)
  PROVE  p \in FilesOf(j) /\ at[j] \notin {"none", "done", "gone"}
<1>1. JobInv(j) /\ TypeOK
  BY DEF IInv
<1>2. CASE at[j] = "writing tile"
  BY <1>1, <1>2, TilesHaveImages DEF JobWrites, Tiling, JobInv
<1>3. CASE at[j] = "writing raster"
  <2>1. todo[j] \in Seq(1..pair[j].cells) /\ todo[j] # <<>>
    BY <1>1, <1>3 DEF JobInv, Comparing
  <2>2. Head(todo[j]) \in 1..pair[j].cells
    BY <2>1, Dropping
  <2> QED BY <1>3, <2>2 DEF JobWrites, RasterOf, FilesOf, RastersOf, RastersIn
<1>4. CASE at[j] = "writing mosaic"
  BY <1>1, <1>4 DEF JobWrites, JobInv, FilesOf
<1> QED BY <1>2, <1>3, <1>4 DEF JobWrites

LEMMA NobodyElse ==
  ASSUME IInv, NEW j \in Jobs, at[j] # "none", NEW p \in FilesOf(j),
         p \in TilesOf(j) => ~Shared(j), p \notin TilesOf(j) => ~Overwritten(j)
  PROVE  \A h \in writing[p] : JobWrites(j, p, h)
<1>1. SUFFICES ASSUME NEW h \in writing[p]
               PROVE  JobWrites(j, p, h)
  OBVIOUS
<1>2. TypeOK /\ JobInv(j) /\ WritersKnown
  BY DEF IInv
<1>3. p \in Paths /\ p[1] \in {"tile", "raster", "mosaic"}
  BY <1>2, JobHasPair
<1>4. PICK k \in Jobs : JobWrites(k, p, h)
  BY <1>2, <1>3 DEF WritersKnown
<1>5. CASE k # j
  <2>1. p \in FilesOf(k) /\ at[k] # "none" /\ JobInv(k)
    BY <1>4, WritesOwn DEF IInv
  <2>2. /\ ~Shared(j) => p \notin TilesOf(j)
        /\ ~Overwritten(j) => /\ p \notin RastersOf(j)
                              /\ pair[j].cells > 1 => p # Mosaic(pair[j].after)
    BY <1>2, <1>5, <2>1, FilesApart
  <2> QED BY <2>2 DEF FilesOf
<1> QED BY <1>4, <1>5

(* A job opens one of its files: if it alone goes there, it has it.        *)
LEMMA JobOpens ==
  ASSUME IInv, NEW j \in Jobs, at[j] \notin {"none", "writing tile", "writing raster", "writing mosaic"},
         NEW p \in FilesOf(j), NEW c \in Content, OpenFile(p, j, c), JobWrites(j, p, <<j, c>>)'
  PROVE  /\ holds' \in [Paths -> Content \cup Marks]
         /\ writing' \in [Paths -> SUBSET (Writers \X Content)]
         /\ Elsewhere(p)
         /\ \A q \in Paths : \A h \in writing'[q] :
              JobWrites(j, q, h)' \/ (h \in writing[q] /\ ~JobWrites(j, q, h))
         /\ (p \in TilesOf(j) => ~Shared(j)) /\ (p \notin TilesOf(j) => ~Overwritten(j))
              => Writing(p, j, c)'
<1>1. TypeOK /\ JobInv(j)
  BY DEF IInv
<1>2. p \in Paths /\ j \in Writers
  BY <1>1, JobHasPair DEF Writers
<1>3. /\ holds' \in [Paths -> Content \cup Marks]
      /\ writing' \in [Paths -> SUBSET (Writers \X Content)]
      /\ Elsewhere(p)
      /\ writing'[p] = writing[p] \cup {<<j, c>>}
      /\ (\A h \in writing[p] : h[2] = c) /\ (holds[p] # Mixed \/ writing[p] = {})
           => holds'[p] = Opened
  BY <1>1, <1>2, OpenEffect
<1>4. \A q \in Paths : \A h \in writing[q] : ~JobWrites(j, q, h)
  BY DEF JobWrites
<1>5. ASSUME NEW q \in Paths, NEW h \in writing'[q]
      PROVE  JobWrites(j, q, h)' \/ (h \in writing[q] /\ ~JobWrites(j, q, h))
  <2>1. CASE q = p
    BY <2>1, <1>3, <1>4
  <2>2. CASE q # p
    BY <2>2, <1>3, <1>4 DEF Elsewhere, FileSame
  <2> QED BY <2>1, <2>2
<1>6. ASSUME p \in TilesOf(j) => ~Shared(j), p \notin TilesOf(j) => ~Overwritten(j)
      PROVE  Writing(p, j, c)'
  <2>1. writing[p] = {}
    BY <1>2, <1>4, <1>6, NobodyElse
  <2> QED BY <1>3, <2>1 DEF Writing
<1> QED BY <1>3, <1>5, <1>6

(* It closes the file: if it alone had it, the file is as it wrote it.     *)
LEMMA JobCloses ==
  ASSUME IInv, NEW j \in Jobs, at[j] # "none", NEW p \in FilesOf(j), NEW c \in Content,
         CloseFile(p, j, c),
         \A q \in Paths : \A h \in writing[q] : JobWrites(j, q, h) => q = p /\ h = <<j, c>>
  PROVE  /\ holds' \in [Paths -> Content \cup Marks]
         /\ writing' \in [Paths -> SUBSET (Writers \X Content)]
         /\ Elsewhere(p)
         /\ \A q \in Paths : \A h \in writing'[q] : h \in writing[q] /\ ~JobWrites(j, q, h)
         /\ Writing(p, j, c) => holds'[p] = c
<1>1. TypeOK /\ p \in Paths /\ j \in Writers
  BY JobHasPair DEF IInv, Writers
<1>2. /\ holds' \in [Paths -> Content \cup Marks]
      /\ writing' \in [Paths -> SUBSET (Writers \X Content)]
      /\ Elsewhere(p)
      /\ writing'[p] = writing[p] \ {<<j, c>>}
      /\ writing[p] = {<<j, c>>} /\ holds[p] # Mixed => holds'[p] = c
  BY <1>1, CloseEffect
<1>3. ASSUME NEW q \in Paths, NEW h \in writing'[q]
      PROVE  h \in writing[q] /\ ~JobWrites(j, q, h)
  <2>1. CASE q = p
    BY <2>1, <1>2
  <2>2. CASE q # p
    BY <2>2, <1>2 DEF Elsewhere, FileSame
  <2> QED BY <2>1, <2>2
<1>4. Writing(p, j, c) => holds'[p] = c
  BY <1>2, MarksAssumption DEF Writing
<1> QED BY <1>2, <1>3, <1>4

LEMMA OpenTileKeeps ==
  ASSUME IInv, NEW j \in Jobs, OpenTile(j)
  PROVE  IInv'
<1>1. /\ at[j] = "tiling" /\ at[j] \in Tiling /\ TypeOK /\ JobInv(j) /\ TilesKept(j) /\ MapKept(j)
      /\ todo[j] # <<>> /\ rasters[j] = <<>> /\ path[j] = None
  BY DEF IInv, OpenTile, Tiling, JobInv, Comparing
<1>2. PICK p \in FilesOf(j) : p = Head(todo[j])
  BY <1>1, TilesHaveImages
<1>3. p \in TilesOf(j) /\ (Whole(Source(p)) \/ Shared(j)) /\ p \in Range(todo[j])
  BY <1>1, <1>2, TilesHaveImages
<1>4. /\ UNCHANGED <<begun, pair, todo, rasters, cancelled, path, req, again, crashed>>
      /\ at' = [at EXCEPT ![j] = "writing tile"] /\ OpenFile(p, j, Pixels)
      /\ damaged' = IF Whole(Source(p)) THEN damaged ELSE damaged \cup {j}
  BY <1>2 DEF OpenTile, Goto, reqVars
<1>5. at'[j] = "writing tile"
  BY <1>1, <1>4 DEF TypeOK
<1>6. JobWrites(j, p, <<j, Pixels>>)'
  BY <1>2, <1>4, <1>5 DEF JobWrites
<1>7. /\ holds' \in [Paths -> Content \cup Marks]
      /\ writing' \in [Paths -> SUBSET (Writers \X Content)]
      /\ Elsewhere(p)
      /\ \A q \in Paths : \A h \in writing'[q] :
           JobWrites(j, q, h)' \/ (h \in writing[q] /\ ~JobWrites(j, q, h))
      /\ ~Shared(j) => Writing(p, j, Pixels)'
  <2>1. Pixels \in Content
    BY ContentsAre
  <2>2. at[j] \notin {"none", "writing tile", "writing raster", "writing mosaic"}
    BY <1>1
  <2>3. OpenFile(p, j, Pixels)
    BY <1>4
  <2> QED BY <1>3, <1>6, <2>1, <2>2, <2>3, JobOpens
<1>8. TypeOK'
  <2>1. at' \in [Jobs -> Places]
    BY <1>1, <1>4 DEF TypeOK, Places, Tiling
  <2>2. damaged' \subseteq Jobs
    BY <1>1, <1>4 DEF TypeOK
  <2> QED BY <2>1, <2>2, <1>1, <1>4, <1>7 DEF TypeOK, Writers
<1>9. \A k \in Jobs \ {j} : LocalsSame(k)
  BY <1>1, <1>4 DEF LocalsSame, TypeOK
<1>10. Range(<<>>) = {} /\ TilesOf(j)' = TilesOf(j) /\ p \in Paths
  <2>1. TilesOf(j)' = TilesOf(j)
    BY <1>4 DEF TilesOf
  <2>2. p \in Paths
    BY <1>1, JobHasPair
  <2> QED BY <2>1, <2>2 DEF Range
<1>11. JobInv(j)'
  BY <1>1, <1>4, <1>5, <1>10 DEF JobInv, Tiling, Comparing
<1>12. TilesKept(j)'
  <2>1. SUFFICES ASSUME ~Shared(j)'
                 PROVE  TilesKept(j)'
    BY DEF TilesKept
  <2>2. ~Shared(j)
    BY <2>1, <1>4 DEF Shared, ImagesOf
  <2>3. Cut(j)' = Cut(j) /\ p \notin Cut(j) /\ Cut(j) \subseteq Paths
    <3>1. TilesOf(j) \subseteq Paths
      BY <1>1, JobHasPair DEF FilesOf
    <3> QED BY <1>3, <1>1, <1>4, <1>5, <1>10, <3>1 DEF Cut, Tiling
  <2>4. \A t \in Cut(j) : holds'[t] = Pixels
    BY <1>1, <1>7, <2>2, <2>3 DEF TilesKept, Elsewhere, FileSame
  <2>5. Writing(Head(todo[j]), j, Pixels)'
    BY <1>2, <1>4, <1>7, <2>2 DEF Writing
  <2> QED BY <1>5, <2>3, <2>4, <2>5 DEF TilesKept
<1>13. MapKept(j)'
  BY <1>1, <1>4, <1>5, <1>10 DEF MapKept
<1> QED BY <1>3, <1>1, <1>2, <1>4, <1>7, <1>8, <1>9, <1>11, <1>12, <1>13, JobStep

LEMMA CloseTileKeeps ==
  ASSUME IInv, NEW j \in Jobs, CloseTile(j)
  PROVE  IInv'
<1> DEFINE p == Head(todo[j])
<1>1. /\ at[j] = "writing tile" /\ at[j] \in Tiling /\ TypeOK /\ JobInv(j) /\ TilesKept(j) /\ MapKept(j)
      /\ todo[j] # <<>> /\ rasters[j] = <<>> /\ path[j] = None
  BY DEF IInv, CloseTile, Tiling, JobInv, Comparing
<1>2. p \in TilesOf(j) /\ p \in FilesOf(j) /\ p \in Range(todo[j])
  BY <1>1, TilesHaveImages
<1>3. /\ UNCHANGED <<pair, todo, rasters, damaged, cancelled, path, req, again, crashed>>
      /\ at' = [at EXCEPT ![j] = "recording tile"] /\ CloseFile(p, j, Pixels)
      /\ begun' = begun \cup {p}
  BY DEF CloseTile, Goto, reqVars
<1>4. at'[j] = "recording tile"
  BY <1>1, <1>3 DEF TypeOK
<1>5. \A q, h : JobWrites(j, q, h) => q = p /\ h = <<j, Pixels>>
  BY <1>1 DEF JobWrites
<1> HIDE DEF p
<1>6. /\ holds' \in [Paths -> Content \cup Marks]
      /\ writing' \in [Paths -> SUBSET (Writers \X Content)]
      /\ Elsewhere(p)
      /\ \A q \in Paths : \A h \in writing'[q] : h \in writing[q] /\ ~JobWrites(j, q, h)
      /\ Writing(p, j, Pixels) => holds'[p] = Pixels
  BY <1>1, <1>2, <1>3, <1>5, ContentsAre, JobCloses
<1>7. p \in Paths /\ TilesOf(j) \subseteq Paths
  BY <1>1, <1>2, JobHasPair DEF FilesOf
<1>8. TypeOK'
  <2>1. at' \in [Jobs -> Places]
    BY <1>1, <1>3 DEF TypeOK, Places, Tiling
  <2> QED BY <2>1, <1>1, <1>3, <1>6, <1>7 DEF TypeOK, Writers
<1>9. \A k \in Jobs \ {j} : LocalsSame(k)
  BY <1>1, <1>3 DEF LocalsSame, TypeOK
<1>10. Range(<<>>) = {} /\ TilesOf(j)' = TilesOf(j)
  <2>1. TilesOf(j)' = TilesOf(j)
    BY <1>3 DEF TilesOf
  <2> QED BY <2>1, EmptyRange
<1>11. JobInv(j)'
  BY <1>1, <1>3, <1>4, <1>10 DEF JobInv, Tiling, Comparing
<1>12. TilesKept(j)'
  <2>1. SUFFICES ASSUME ~Shared(j)'
                 PROVE  TilesKept(j)'
    BY DEF TilesKept
  <2>2. ~Shared(j)
    BY <2>1, <1>3 DEF Shared, ImagesOf
  <2>3. Cut(j)' = Cut(j) /\ p \notin Cut(j) /\ Cut(j) \subseteq Paths
    BY <1>1, <1>2, <1>3, <1>4, <1>7, <1>10 DEF Cut, Tiling
  <2>4. \A t \in Cut(j) : holds'[t] = Pixels
    BY <1>1, <1>6, <2>2, <2>3 DEF TilesKept, Elsewhere, FileSame
  <2>5. holds'[p] = Pixels
    BY <1>1, <1>6, <2>2 DEF p, TilesKept
  <2> QED BY <1>3, <1>4, <2>3, <2>4, <2>5 DEF TilesKept, p
<1>13. MapKept(j)'
  BY <1>1, <1>3, <1>4, <1>10 DEF MapKept
<1> QED BY <1>1, <1>2, <1>3, <1>6, <1>8, <1>9, <1>11, <1>12, <1>13, JobStep

(* The raster of the pair in hand is none of those made before.            *)
LEMMA RasterInHand ==
  ASSUME IInv, NEW j \in Jobs, at[j] \in Comparing, todo[j] # <<>>
  PROVE  /\ RasterOf(j) \in RastersOf(j) /\ RasterOf(j) \in FilesOf(j) /\ RasterOf(j) \in Paths
         /\ RasterOf(j) \notin TilesOf(j) /\ RasterOf(j) \notin Range(rasters[j])
<1>1. JobInv(j) /\ TypeOK /\ at[j] # "none"
  BY DEF IInv, Comparing
<1>2. todo[j] \in Seq(1..pair[j].cells)
  BY <1>1 DEF JobInv
<1>3. Head(todo[j]) \in 1..pair[j].cells /\ Head(todo[j]) = todo[j][1] /\ 1 \in DOMAIN todo[j]
  <2>1. Head(todo[j]) \in 1..pair[j].cells /\ Head(todo[j]) = todo[j][1]
    BY <1>2, Dropping
  <2>2. DOMAIN todo[j] = 1..Len(todo[j]) /\ Len(todo[j]) \in Nat /\ Len(todo[j]) # 0
    BY <1>2, Ranges
  <2> QED BY <2>1, <2>2
<1>4. RasterOf(j) \in RastersOf(j) /\ RasterOf(j) \in FilesOf(j)
  BY <1>3 DEF RasterOf, RastersOf, RastersIn, FilesOf
<1>5. RasterOf(j) \in Paths
  BY <1>1, <1>4, JobHasPair
<1>6. RasterOf(j) \notin TilesOf(j)
  BY DEF RasterOf, Raster, TilesOf, TilesIn, Tile
<1>7. RasterOf(j) \notin Range(rasters[j])
  <2>1. SUFFICES ASSUME RasterOf(j) \in Range(rasters[j])
                 PROVE  FALSE
    OBVIOUS
  <2>2. Later(Head(todo[j]), todo[j])
    BY <1>1, <1>3, <2>1 DEF JobInv, RasterOf
  <2>3. Head(todo[j]) < Head(todo[j]) /\ Head(todo[j]) \in Int
    BY <2>2, <1>3 DEF Later
  <2> QED BY <2>3
<1> QED BY <1>4, <1>5, <1>6, <1>7

LEMMA OpenRasterKeeps ==
  ASSUME IInv, NEW j \in Jobs, OpenRaster(j)
  PROVE  IInv'
<1>1. /\ at[j] = "compared" /\ at[j] \in Comparing /\ TypeOK /\ JobInv(j) /\ TilesKept(j)
      /\ MapKept(j) /\ todo[j] # <<>> /\ path[j] = None
  BY DEF IInv, OpenRaster, JobInv, Comparing
<1>2. PICK p \in FilesOf(j) : p = RasterOf(j)
  BY <1>1, RasterInHand
<1>3. PICK c \in Content : c = Own(j)
  BY <1>1, JobHasPair
<1>4. /\ p \in RastersOf(j) /\ p \in Paths /\ p \notin TilesOf(j) /\ p \notin Range(rasters[j])
  BY <1>1, <1>2, RasterInHand
<1>5. /\ UNCHANGED <<begun, pair, todo, rasters, damaged, cancelled, path, req, again, crashed>>
      /\ at' = [at EXCEPT ![j] = "writing raster"] /\ OpenFile(p, j, c)
  BY <1>2, <1>3 DEF OpenRaster, Goto, reqVars
<1>6. at'[j] = "writing raster" /\ RasterOf(j)' = p /\ Own(j)' = c
  BY <1>1, <1>2, <1>3, <1>5 DEF TypeOK, RasterOf, Own
<1>7. JobWrites(j, p, <<j, c>>)'
  BY <1>6 DEF JobWrites
<1>8. /\ holds' \in [Paths -> Content \cup Marks]
      /\ writing' \in [Paths -> SUBSET (Writers \X Content)]
      /\ Elsewhere(p)
      /\ \A q \in Paths : \A h \in writing'[q] :
           JobWrites(j, q, h)' \/ (h \in writing[q] /\ ~JobWrites(j, q, h))
      /\ ~Overwritten(j) => Writing(p, j, c)'
  <2>1. at[j] \notin {"none", "writing tile", "writing raster", "writing mosaic"}
    BY <1>1
  <2>2. OpenFile(p, j, c)
    BY <1>5
  <2> QED BY <1>4, <1>7, <2>1, <2>2, JobOpens
<1>9. TypeOK'
  <2>1. at' \in [Jobs -> Places]
    BY <1>1, <1>5 DEF TypeOK, Places, Inferring
  <2> QED BY <2>1, <1>1, <1>5, <1>8 DEF TypeOK, Writers
<1>10. \A k \in Jobs \ {j} : LocalsSame(k)
  BY <1>1, <1>5 DEF LocalsSame, TypeOK
<1>11. JobInv(j)'
  BY <1>1, <1>5, <1>6 DEF JobInv, Comparing, Tiling, RastersOf
<1>12. TilesKept(j)'
  <2>1. Cut(j)' = Cut(j) /\ Cut(j) \subseteq TilesOf(j) /\ TilesOf(j) \subseteq Paths
    <3>1. TilesOf(j) \subseteq Paths
      BY <1>1, JobHasPair DEF FilesOf
    <3> QED BY <1>1, <1>5, <1>6, <3>1 DEF Cut, TilesOf, Tiling
  <2>2. Shared(j)' = Shared(j)
    BY <1>5 DEF Shared, ImagesOf
  <2> QED BY <1>1, <1>4, <1>6, <1>8, <2>1, <2>2 DEF TilesKept, Inferring, Elsewhere, FileSame
<1>13. MapKept(j)'
  <2>1. SUFFICES ASSUME ~Overwritten(j)'
                 PROVE  MapKept(j)'
    BY DEF MapKept
  <2>2. ~Overwritten(j)
    BY <2>1, <1>5 DEF Overwritten
  <2>3. \A q \in Range(rasters[j]) \ {None} : q \in Paths /\ q # p
    <3>1. rasters[j] \in Seq(Paths \cup {None})
      BY <1>1 DEF TypeOK
    <3> QED BY <3>1, <1>4, Ranges
  <2>4. \A q \in Range(rasters[j]) \ {None} : holds'[q] = Own(j)
    BY <1>1, <1>8, <2>2, <2>3 DEF MapKept, Elsewhere, FileSame
  <2>5. Writing(RasterOf(j), j, Own(j))'
    BY <1>6, <1>8, <2>2 DEF Writing
  <2> QED BY <1>1, <1>3, <1>5, <1>6, <2>4, <2>5 DEF MapKept
<1> QED BY <1>1, <1>5, <1>8, <1>9, <1>10, <1>11, <1>12, <1>13, JobStep

LEMMA CloseRasterKeeps ==
  ASSUME IInv, NEW j \in Jobs, CloseRaster(j)
  PROVE  IInv'
<1>1. /\ at[j] = "writing raster" /\ at[j] \in Comparing /\ TypeOK /\ JobInv(j) /\ TilesKept(j)
      /\ MapKept(j) /\ todo[j] # <<>> /\ path[j] = None
  BY DEF IInv, CloseRaster, JobInv, Comparing
<1>2. PICK p \in FilesOf(j) : p = RasterOf(j)
  BY <1>1, RasterInHand
<1>3. PICK c \in Content : c = Own(j)
  BY <1>1, JobHasPair
<1>4. /\ p \in RastersOf(j) /\ p \in Paths /\ p \notin TilesOf(j) /\ p \notin Range(rasters[j])
  BY <1>1, <1>2, RasterInHand
<1>5. /\ UNCHANGED <<begun, pair, damaged, cancelled, path, req, again, crashed>>
      /\ at' = [at EXCEPT ![j] = "comparing"] /\ CloseFile(p, j, c)
      /\ todo' = [todo EXCEPT ![j] = Tail(@)]
      /\ rasters' = [rasters EXCEPT ![j] = Append(@, p)]
  BY <1>2, <1>3 DEF CloseRaster, Goto, DropFirst, Added, reqVars
<1>6. /\ at'[j] = "comparing" /\ todo'[j] = Tail(todo[j]) /\ rasters'[j] = Append(rasters[j], p)
      /\ rasters[j] \in Seq(Paths \cup {None}) /\ todo[j] \in Seq(Paths \cup {1, 2} \cup Content)
  BY <1>1, <1>5 DEF TypeOK, Steps
<1>7. \A q, h : JobWrites(j, q, h) => q = p /\ h = <<j, c>>
  BY <1>1, <1>2, <1>3 DEF JobWrites
<1>8. /\ holds' \in [Paths -> Content \cup Marks]
      /\ writing' \in [Paths -> SUBSET (Writers \X Content)]
      /\ Elsewhere(p)
      /\ \A q \in Paths : \A h \in writing'[q] : h \in writing[q] /\ ~JobWrites(j, q, h)
      /\ Writing(p, j, c) => holds'[p] = c
  BY <1>1, <1>5, <1>7, JobCloses
<1>9. /\ Append(rasters[j], p) \in Seq(Paths \cup {None})
      /\ Range(Append(rasters[j], p)) = Range(rasters[j]) \cup {p}
  <2>1. p \in Paths \cup {None}
    BY <1>4
  <2> QED BY <1>6, <2>1, Appending
<1>10. Tail(todo[j]) \in Steps
  BY <1>1, <1>6, Dropping DEF Steps
<1>11. TypeOK'
  <2>1. at' \in [Jobs -> Places]
    BY <1>1, <1>5 DEF TypeOK, Places, Inferring
  <2>2. todo' \in [Jobs -> Steps] /\ rasters' \in [Jobs -> Seq(Paths \cup {None})]
    BY <1>1, <1>5, <1>9, <1>10 DEF TypeOK
  <2> QED BY <2>1, <2>2, <1>1, <1>5, <1>8 DEF TypeOK, Writers
<1>12. \A k \in Jobs \ {j} : LocalsSame(k)
  BY <1>1, <1>5 DEF LocalsSame, TypeOK
<1>13. JobInv(j)'
  BY <1>1, <1>2, <1>5, <1>6, <1>9, PairDone
<1>14. TilesKept(j)'
  <2>1. Cut(j)' = Cut(j) /\ Cut(j) \subseteq TilesOf(j) /\ TilesOf(j) \subseteq Paths
    <3>1. TilesOf(j) \subseteq Paths
      BY <1>1, JobHasPair DEF FilesOf
    <3> QED BY <1>1, <1>5, <1>6, <3>1 DEF Cut, TilesOf, Tiling
  <2>2. Shared(j)' = Shared(j)
    BY <1>5 DEF Shared, ImagesOf
  <2> QED BY <1>1, <1>4, <1>6, <1>8, <2>1, <2>2 DEF TilesKept, Inferring, Elsewhere, FileSame
<1>15. MapKept(j)'
  <2>1. SUFFICES ASSUME ~Overwritten(j)'
                 PROVE  MapKept(j)'
    BY DEF MapKept
  <2>2. ~Overwritten(j)
    BY <2>1, <1>5 DEF Overwritten
  <2>3. \A q \in Range(rasters[j]) \ {None} : q \in Paths /\ q # p
    BY <1>4, <1>6, Ranges
  <2>4. \A q \in Range(rasters[j]) \ {None} : holds'[q] = Own(j)
    BY <1>1, <1>8, <2>2, <2>3 DEF MapKept, Elsewhere, FileSame
  <2>5. holds'[p] = c
    BY <1>1, <1>2, <1>3, <1>8, <2>2 DEF MapKept
  <2>6. Own(j)' = c
    BY <1>3, <1>5 DEF Own
  <2> QED BY <1>1, <1>3, <1>5, <1>6, <1>9, <2>4, <2>5, <2>6 DEF MapKept
<1> QED BY <1>1, <1>5, <1>8, <1>11, <1>12, <1>13, <1>14, <1>15, JobStep

(* What is merged, for a job that nobody overwrites, is its own.           *)
LEMMA Merged ==
  ASSUME IInv, NEW j \in Jobs, at[j] = "comparing", Mergeable(j)
  PROVE  /\ MosaicContent(j) \in Content
         /\ ~Overwritten(j) => MosaicContent(j) = Own(j)
<1> DEFINE content(p) == IF Whole(p) THEN holds[p] ELSE {Gap}
<1>1. TypeOK /\ JobInv(j) /\ MapKept(j)
  BY DEF IInv
<1>2. /\ rasters[j] \in Seq(Paths \cup {None}) /\ Own(j) \in Content /\ Own(j) \notin Marks
  BY <1>1, JobHasPair DEF TypeOK
<1>3. ToSet(rasters[j]) = Range(rasters[j])
  BY DEF ToSet, Range
<1>4. None \notin Range(rasters[j]) /\ Range(rasters[j]) \subseteq Paths /\ Range(rasters[j]) # {}
  <2>1. /\ Range(rasters[j]) \subseteq Paths \cup {None} /\ Range(rasters[j]) # {}
        /\ \A x \in Range(rasters[j]) : \E n \in 1..Len(rasters[j]) : x = rasters[j][n]
    BY <1>2, Ranges DEF Mergeable
  <2>2. \A n \in 1..Len(rasters[j]) : rasters[j][n] # None
    BY DEF Mergeable, Contains
  <2> QED BY <2>1, <2>2
<1>5. \A p \in Range(rasters[j]) : content(p) \in Content
  BY <1>1, <1>4, ContentsAre DEF TypeOK, Whole, Marks
<1>6. MosaicContent(j) = UNION {content(p) : p \in Range(rasters[j])}
  BY <1>3 DEF MosaicContent
<1>7. MosaicContent(j) \in Content
  BY <1>5, <1>6 DEF Content
<1>8. ASSUME ~Overwritten(j) PROVE MosaicContent(j) = Own(j)
  <2>1. \A p \in Range(rasters[j]) : holds[p] = Own(j)
    BY <1>1, <1>4, <1>8 DEF MapKept
  <2>2. \A p \in Range(rasters[j]) : content(p) = Own(j)
    BY <1>2, <2>1 DEF Whole, Marks
  <2>3. {content(p) : p \in Range(rasters[j])} = {Own(j)}
    BY <1>4, <2>2
  <2> QED BY <1>6, <2>3
<1> QED BY <1>7, <1>8

LEMMA OpenMosaicKeeps ==
  ASSUME IInv, NEW j \in Jobs, OpenMosaic(j)
  PROVE  IInv'
<1>1. /\ at[j] = "comparing" /\ TypeOK /\ JobInv(j) /\ TilesKept(j) /\ MapKept(j)
      /\ pair[j].cells > 1 /\ path[j] = None /\ Mergeable(j)
  BY DEF IInv, OpenMosaic, JobInv
<1>2. PICK c \in Content : c = MosaicContent(j) /\ (~Overwritten(j) => c = Own(j))
  BY <1>1, Merged
<1>3. PICK p \in FilesOf(j) : p = Mosaic(pair[j].after)
  BY <1>1 DEF FilesOf
<1>4. /\ p \in Paths /\ p \notin TilesOf(j) /\ p \notin RastersOf(j)
      /\ RastersOf(j) \subseteq Paths /\ TilesOf(j) \subseteq Paths
  <2>1. p \in Paths /\ RastersOf(j) \subseteq Paths /\ TilesOf(j) \subseteq Paths
    BY <1>1, JobHasPair DEF FilesOf
  <2>2. p \notin TilesOf(j) /\ p \notin RastersOf(j)
    BY <1>3 DEF Mosaic, TilesOf, TilesIn, Tile, RastersOf, RastersIn, Raster
  <2> QED BY <2>1, <2>2
<1>5. /\ UNCHANGED <<begun, pair, rasters, damaged, cancelled, path, req, again, crashed>>
      /\ at' = [at EXCEPT ![j] = "writing mosaic"] /\ OpenFile(p, j, c)
      /\ todo' = [todo EXCEPT ![j] = <<c>>]
  BY <1>2, <1>3 DEF OpenMosaic, Goto, reqVars
<1>6. <<c>> \in Steps /\ Head(<<c>>) = c /\ <<c>> # <<>>
  BY DEF Steps
<1>7. at'[j] = "writing mosaic" /\ todo'[j] = <<c>> /\ Mosaic(pair[j].after)' = p /\ Own(j)' = Own(j)
  BY <1>1, <1>3, <1>5 DEF TypeOK, Own
<1>8. JobWrites(j, p, <<j, c>>)'
  BY <1>6, <1>7 DEF JobWrites
<1>9. /\ holds' \in [Paths -> Content \cup Marks]
      /\ writing' \in [Paths -> SUBSET (Writers \X Content)]
      /\ Elsewhere(p)
      /\ \A q \in Paths : \A h \in writing'[q] :
           JobWrites(j, q, h)' \/ (h \in writing[q] /\ ~JobWrites(j, q, h))
      /\ ~Overwritten(j) => Writing(p, j, c)'
  <2>1. at[j] \notin {"none", "writing tile", "writing raster", "writing mosaic"}
    BY <1>1
  <2>2. OpenFile(p, j, c)
    BY <1>5
  <2> QED BY <1>4, <1>8, <2>1, <2>2, JobOpens
<1>10. TypeOK'
  <2>1. at' \in [Jobs -> Places] /\ todo' \in [Jobs -> Steps]
    BY <1>1, <1>5, <1>6 DEF TypeOK, Places, Inferring
  <2> QED BY <2>1, <1>1, <1>5, <1>9 DEF TypeOK, Writers
<1>11. \A k \in Jobs \ {j} : LocalsSame(k)
  BY <1>1, <1>5 DEF LocalsSame, TypeOK
<1>12. JobInv(j)'
  BY <1>1, <1>5, <1>6, <1>7 DEF JobInv, Comparing, Tiling, RastersOf
<1>13. TilesKept(j)'
  <2>1. Cut(j)' = Cut(j) /\ Cut(j) \subseteq TilesOf(j)
    BY <1>1, <1>5, <1>7 DEF Cut, TilesOf, Tiling
  <2>2. Shared(j)' = Shared(j)
    BY <1>5 DEF Shared, ImagesOf
  <2> QED BY <1>1, <1>4, <1>7, <1>9, <2>1, <2>2 DEF TilesKept, Inferring, Elsewhere, FileSame
<1>14. MapKept(j)'
  <2>1. SUFFICES ASSUME ~Overwritten(j)'
                 PROVE  MapKept(j)'
    BY DEF MapKept
  <2>2. ~Overwritten(j)
    BY <2>1, <1>5 DEF Overwritten
  <2>3. \A q \in Range(rasters[j]) \ {None} : q \in Paths /\ q # p
    BY <1>1, <1>4 DEF JobInv
  <2>4. \A q \in Range(rasters[j]) \ {None} : holds'[q] = Own(j)
    BY <1>1, <1>9, <2>2, <2>3 DEF MapKept, Elsewhere, FileSame
  <2>5. Writing(Mosaic(pair[j].after), j, Own(j))'
    BY <1>2, <1>7, <1>9, <2>2 DEF Writing
  <2> QED BY <1>1, <1>2, <1>5, <1>6, <1>7, <2>2, <2>4, <2>5 DEF MapKept
<1> QED BY <1>1, <1>5, <1>9, <1>10, <1>11, <1>12, <1>13, <1>14, JobStep

LEMMA CloseMosaicKeeps ==
  ASSUME IInv, NEW j \in Jobs, CloseMosaic(j)
  PROVE  IInv'
<1>1. /\ at[j] = "writing mosaic" /\ TypeOK /\ JobInv(j) /\ MapKept(j)
      /\ pair[j].cells > 1 /\ todo[j] # <<>>
  BY DEF IInv, CloseMosaic, JobInv
<1>2. PICK c \in Content : c = Head(todo[j])
  BY <1>1 DEF JobInv
<1>3. PICK p \in FilesOf(j) : p = Mosaic(pair[j].after)
  BY <1>1 DEF FilesOf
<1>4. p \in Paths
  BY <1>1, JobHasPair
<1>5. /\ UNCHANGED <<begun, pair, damaged, cancelled, req, again, crashed>>
      /\ at' = [at EXCEPT ![j] = IF j \in cancelled THEN "gone" ELSE "done"]
      /\ path' = [path EXCEPT ![j] = IF j \in cancelled THEN None ELSE p]
      /\ rasters' = [rasters EXCEPT ![j] = <<>>]
      /\ CloseFile(p, j, c) /\ todo' = [todo EXCEPT ![j] = Tail(@)]
  BY <1>2, <1>3 DEF CloseMosaic, Finish, Goto, End, DropFirst, reqVars
<1>6. \A q, h : JobWrites(j, q, h) => q = p /\ h = <<j, c>>
  BY <1>1, <1>2, <1>3 DEF JobWrites
<1>7. /\ holds' \in [Paths -> Content \cup Marks]
      /\ writing' \in [Paths -> SUBSET (Writers \X Content)]
      /\ Elsewhere(p)
      /\ \A q \in Paths : \A h \in writing'[q] : h \in writing[q] /\ ~JobWrites(j, q, h)
      /\ Writing(p, j, c) => holds'[p] = c
  BY <1>1, <1>5, <1>6, JobCloses
<1>8. TypeOK'
  <2>1. at' \in [Jobs -> Places] /\ path' \in [Jobs -> Paths \cup {None}]
    BY <1>1, <1>4, <1>5 DEF TypeOK, Places
  <2>2. rasters' \in [Jobs -> Seq(Paths \cup {None})]
    BY <1>1, <1>5, EmptySeq DEF TypeOK
  <2>3. Tail(todo[j]) \in Steps
    BY <1>1, Dropping DEF TypeOK, Steps
  <2>4. todo' \in [Jobs -> Steps]
    BY <1>1, <1>5, <2>3 DEF TypeOK
  <2> QED BY <2>1, <2>2, <2>4, <1>1, <1>5, <1>7 DEF TypeOK, Writers
<1>9. \A k \in Jobs \ {j} : LocalsSame(k)
  BY <1>1, <1>5 DEF LocalsSame, TypeOK
<1>10. /\ rasters'[j] = <<>> /\ at'[j] \in {"done", "gone"}
       /\ path'[j] = None \/ (at'[j] = "done" /\ path'[j] = p)
  BY <1>1, <1>5 DEF TypeOK
<1>11. ~Overwritten(j) => holds'[p] = Own(j)
  BY <1>1, <1>2, <1>3, <1>7 DEF MapKept
<1>12. JobInv(j)' /\ TilesKept(j)' /\ MapKept(j)'
  BY <1>1, <1>3, <1>5, <1>10, <1>11, Ends
<1> QED BY <1>1, <1>5, <1>7, <1>8, <1>9, <1>12, JobStep

-----------------------------------------------------------------------------
(* A job is submitted.                                                     *)

LEMMA SubmitKeeps ==
  ASSUME IInv, NEW j \in Jobs, Submit(j)
  PROVE  IInv'
<1>1. /\ at[j] = "none" /\ TypeOK /\ JobInv(j) /\ PagesKept(j) /\ pair[j] = NoPair
      /\ rasters[j] = <<>> /\ path[j] = None
  BY DEF IInv, Submit, JobInv, Comparing
<1>2. PICK p \in Pairs : /\ pair' = [pair EXCEPT ![j] = p]
                         /\ todo' = [todo EXCEPT ![j] = [n \in 1..2 * p.cells |->
                              IF n <= p.cells THEN Tile(p.before, n) ELSE Tile(p.after, n - p.cells)]]
  BY DEF Submit
<1>3. /\ p.before \in Images /\ p.after \in Images /\ p.cells \in {1, 2} /\ p # NoPair
  BY PairsAssumption, MarksAssumption DEF NoPair
<1>4. PICK tiles : tiles = [n \in 1..2 * p.cells |->
                      IF n <= p.cells THEN Tile(p.before, n) ELSE Tile(p.after, n - p.cells)]
  OBVIOUS
<1>5. /\ UNCHANGED <<holds, writing, begun, rasters, damaged, cancelled, path, req, again, crashed>>
      /\ at' = [at EXCEPT ![j] = "tiling"] /\ todo' = [todo EXCEPT ![j] = tiles]
  BY <1>2, <1>4 DEF Submit, Goto, reqVars, fileVars
<1>6. /\ tiles \in Seq(TilesIn(p)) /\ TilesIn(p) \subseteq Range(tiles) /\ TilesIn(p) \subseteq Paths
  <2>0. /\ DOMAIN tiles = 1..2 * p.cells
        /\ \A n \in 1..2 * p.cells : tiles[n] =
             IF n <= p.cells THEN Tile(p.before, n) ELSE Tile(p.after, n - p.cells)
    BY <1>4
  <2>1. \A n \in 1..2 * p.cells : tiles[n] \in TilesIn(p)
    <3>1. SUFFICES ASSUME NEW n \in 1..2 * p.cells
                   PROVE  tiles[n] \in TilesIn(p)
      OBVIOUS
    <3>2. CASE n <= p.cells
      <4>1. tiles[n] = Tile(p.before, n) /\ n \in 1..p.cells
        BY <3>2, <1>3, <2>0
      <4> QED BY <4>1 DEF TilesIn
    <3>3. CASE ~(n <= p.cells)
      <4>1. tiles[n] = Tile(p.after, n - p.cells) /\ n - p.cells \in 1..p.cells
        BY <3>3, <1>3, <2>0
      <4> QED BY <4>1 DEF TilesIn
    <3> QED BY <3>2, <3>3
  <2>2. tiles \in [1..2 * p.cells -> TilesIn(p)] /\ 2 * p.cells \in Nat
    <3>1. tiles \in [1..2 * p.cells -> TilesIn(p)]
      BY <2>1, <1>4
    <3> QED BY <3>1, <1>3
  <2>3. tiles \in Seq(TilesIn(p))
    BY <2>2, SeqDef
  <2>4. ASSUME NEW i \in {p.before, p.after}, NEW c \in 1..p.cells
        PROVE  Tile(i, c) \in Range(tiles) /\ Tile(i, c) \in Paths
    <3>1. \A n \in 1..2 * p.cells : tiles[n] \in Range(tiles)
      BY <2>0 DEF Range
    <3>2. c \in {1, 2} /\ i \in Images
      BY <1>3
    <3>3. Tile(i, c) \in Paths
      BY <3>2, PathsAre
    <3>4. CASE i = p.before
      <4>1. c \in 1..2 * p.cells /\ tiles[c] = Tile(i, c)
        BY <3>4, <1>3, <2>0
      <4> QED BY <4>1, <3>1, <3>3
    <3>5. CASE i = p.after
      <4>1. PICK n \in Nat : n = c + p.cells
        BY <1>3
      <4>2. n \in 1..2 * p.cells /\ ~(n <= p.cells) /\ n - p.cells = c
        BY <1>3, <4>1
      <4>3. tiles[n] = Tile(i, c)
        BY <4>2, <3>5, <2>0
      <4> QED BY <4>2, <4>3, <3>1, <3>3
    <3> QED BY <3>4, <3>5
  <2> QED BY <2>3, <2>4 DEF TilesIn
<1>7. /\ at'[j] = "tiling" /\ todo'[j] = tiles /\ pair'[j] = p /\ TilesOf(j)' = TilesIn(p)
      /\ \A k \in Jobs \ {j} : LocalsSame(k)
  <2>1. at'[j] = "tiling" /\ todo'[j] = tiles /\ pair'[j] = p
    BY <1>1, <1>2, <1>5 DEF TypeOK
  <2>2. \A k \in Jobs \ {j} : LocalsSame(k)
    BY <1>1, <1>2, <1>5 DEF TypeOK, LocalsSame
  <2> QED BY <2>1, <2>2 DEF TilesOf
<1>8. TypeOK'
  <2>1. at' \in [Jobs -> Places] /\ pair' \in [Jobs -> Pairs \cup {NoPair}]
    BY <1>1, <1>2, <1>5 DEF TypeOK, Places, Tiling
  <2>2. tiles \in Steps
    <3>1. tiles \in Seq(Paths \cup {1, 2} \cup Content)
      BY <1>6, SeqDef
    <3> QED BY <3>1 DEF Steps
  <2>3. todo' \in [Jobs -> Steps]
    BY <1>1, <1>5, <2>2 DEF TypeOK
  <2> QED BY <2>1, <2>3, <1>1, <1>5 DEF TypeOK
<1>9. \A k \in Jobs : (Shared(k) => Shared(k)') /\ (k # j => ImagesOf(k)' = ImagesOf(k))
  <2>1. \A k \in Jobs \ {j} : ImagesOf(k)' = ImagesOf(k)
    BY <1>7 DEF ImagesOf, LocalsSame
  <2>2. ImagesOf(j) = {}
    BY <1>1 DEF ImagesOf, NoPair
  <2>3. ASSUME NEW k \in Jobs, Shared(k) PROVE Shared(k)'
    <3>1. k # j
      BY <2>2, <2>3 DEF Shared
    <3>2. CASE ImagesOf(k) \cap again # {}
      BY <3>1, <3>2, <2>1, <1>5 DEF Shared
    <3>3. CASE \E m \in Jobs \ {k} : ImagesOf(k) \cap ImagesOf(m) # {}
      BY <3>1, <3>3, <2>1, <2>2 DEF Shared
    <3> QED BY <2>3, <3>2, <3>3 DEF Shared
  <2> QED BY <2>1, <2>3
<1>10. ASSUME NEW k \in Jobs, k # j, at[k] # "none", Overwritten(k) PROVE Overwritten(k)'
  <2>1. PICK m \in Jobs \ {k} : \/ pair[m].before = pair[k].before
                                \/ pair[m].after = pair[k].after /\ pair[m].cells > 1 /\ pair[k].cells > 1
    BY <1>10 DEF Overwritten
  <2>2. pair[k].before \in Images
    BY <1>1, <1>10, JobHasPair DEF IInv
  <2>3. m # j
    BY <1>1, <2>1, <2>2, MarksAssumption DEF NoPair
  <2> QED BY <1>7, <1>10, <2>1, <2>3 DEF Overwritten, LocalsSame
<1>11. ASSUME NEW k \in Jobs PROVE JobInv(k)' /\ TilesKept(k)' /\ MapKept(k)' /\ PagesKept(k)'
  <2>1. \A q : FileSame(q)
    BY <1>5 DEF FileSame
  <2>2. JobInv(k) /\ TilesKept(k) /\ MapKept(k) /\ PagesKept(k)
    BY DEF IInv
  <2>3. CASE k # j /\ at[k] = "none"
    BY <1>7, <2>1, <2>2, <2>3, NotBegun
  <2>4. CASE k # j /\ at[k] # "none"
    <3>1. JobInv(k)' /\ TilesKept(k)' /\ MapKept(k)'
      BY <1>5, <1>7, <1>9, <1>10, <2>1, <2>2, <2>4, JobKept
    <3> QED BY <1>7, <1>10, <2>1, <2>2, <2>4, <3>1, PagesSame
  <2>5. CASE k = j
    <3>1. rasters'[j] = <<>> /\ path'[j] = None
      BY <1>1, <1>5
    <3>2. Range(<<>>) = {}
      BY EmptyRange
    <3>3. JobInv(j)'
      BY <1>3, <1>6, <1>7, <3>1, <3>2 DEF JobInv, Tiling, Comparing
    <3>4. Cut(j)' = {}
      BY <1>6, <1>7 DEF Cut, Tiling
    <3>5. TilesKept(j)'
      BY <1>7, <3>4 DEF TilesKept
    <3>6. MapKept(j)'
      BY <1>7, <3>1, <3>2 DEF MapKept
    <3>7. PagesKept(j)'
      BY <1>1, <1>5, <1>7 DEF PagesKept, Untouched
    <3> QED BY <2>5, <3>3, <3>5, <3>6, <3>7
  <2> QED BY <2>3, <2>4, <2>5
<1>12. WritersKnown'
  <2>1. ASSUME NEW k \in Jobs, NEW q, NEW h, JobWrites(k, q, h) PROVE JobWrites(k, q, h)'
    <3>1. k # j
      BY <1>1, <2>1 DEF JobWrites
    <3>2. LocalsSame(k)
      BY <1>7, <3>1
    <3> QED BY <2>1, <3>2 DEF LocalsSame, JobWrites, RasterOf, Own
  <2> QED BY <1>5, <2>1 DEF IInv, WritersKnown
<1>13. ImagesKept' /\ ThumbnailsKept'
  BY <1>5 DEF IInv, ImagesKept, ThumbnailsKept, Settled
<1>14. ASSUME NEW r \in Requests PROVE RequestInv(r)'
  <2>1. CASE req[r].at # "idle" /\ req[r].kind # "thumbnail"
    <3>1. at[req[r].key] = "done" /\ req[r].key \in Jobs /\ req[r].key # j
      BY <1>1, <2>1 DEF IInv, RequestInv
    <3>2. LocalsSame(req[r].key)
      BY <1>7, <3>1
    <3> QED BY <1>5, <3>1, <3>2 DEF IInv, RequestInv, LocalsSame, Target, ReportMap
  <2>2. CASE req[r].at = "idle" \/ req[r].kind = "thumbnail"
    BY <1>5, <2>2 DEF IInv, RequestInv, Target, ReportMap
  <2> QED BY <2>1, <2>2
<1>15. DamageNeedsSharing'
  <2>1. \A k \in damaged' : k \in Jobs /\ Shared(k)
    BY <1>1, <1>5 DEF IInv, DamageNeedsSharing, Shared, TypeOK
  <2>2. \A k \in damaged' : Shared(k)'
    BY <2>1, <1>9
  <2> QED BY <2>2 DEF DamageNeedsSharing, Shared
<1> QED BY <1>8, <1>11, <1>12, <1>13, <1>14, <1>15 DEF IInv

-----------------------------------------------------------------------------
(* What requests render and serve.                                         *)

PageKinds == {"map", "report map", "report", "thumbnail"}

(* A step of request r, to one page at most.                               *)
LEMMA RequestStep ==
  ASSUME IInv, NEW r \in Requests, NEW p \in Paths, p[1] \in PageKinds, Elsewhere(p),
         UNCHANGED <<begun, pair, at, todo, rasters, damaged, cancelled, path, again, crashed>>,
         \A s \in Requests \ {r} : req'[s] = req[s],
         holds[p] # Absent => holds'[p] # Absent,
         \A h \in writing[p] : h[1] # r => h \in writing'[p],
         TypeOK', ThumbnailsKept', \A j \in Jobs : PagesKept(j)', RequestInv(r)'
  PROVE  IInv'
<1>1. TypeOK
  BY DEF IInv
<1>2. \A q \in Paths : q[1] \notin PageKinds => FileSame(q)
  BY DEF Elsewhere
<1>3. \A i \in Images : FileSame(Cog(i)) /\ FileSame(Mosaic(i))
  <2>1. ASSUME NEW i \in Images
        PROVE  /\ Cog(i) \in Paths /\ Cog(i)[1] \notin PageKinds
               /\ Mosaic(i) \in Paths /\ Mosaic(i)[1] \notin PageKinds
    BY PathsAre DEF PageKinds, Cog, Mosaic
  <2> QED BY <2>1, <1>2
<1>4. ASSUME NEW j \in Jobs PROVE JobInv(j)' /\ TilesKept(j)' /\ MapKept(j)'
  <2>1. JobInv(j) /\ TilesKept(j) /\ MapKept(j) /\ LocalsSame(j) /\ PagesKept(j)
    BY DEF IInv, LocalsSame
  <2>2. CASE at[j] = "none"
    <3>1. JobInv(j)'
      BY <2>1 DEF LocalsSame, JobInv, TilesOf, RastersOf
    <3>2. rasters[j] = <<>> /\ path[j] = None
      BY <2>1, <2>2 DEF JobInv, Comparing
    <3> QED BY <2>1, <2>2, <3>1, <3>2, EmptyRange DEF LocalsSame, TilesKept, MapKept, Tiling, Inferring
  <2>3. CASE at[j] # "none"
    <3>1. /\ pair[j].after \in Images /\ FilesOf(j) \subseteq Paths
          /\ \A q \in FilesOf(j) : q[1] \in {"tile", "raster", "mosaic"}
      BY <1>1, <2>1, <2>3, JobHasPair
    <3>2. \A q \in TilesOf(j) \cup RastersOf(j) : FileSame(q)
      BY <3>1, <1>2 DEF FilesOf, PageKinds
    <3>3. Shared(j)' = Shared(j) /\ Overwritten(j)' = Overwritten(j)
      BY DEF Shared, ImagesOf, Overwritten
    <3> QED BY <1>3, <2>1, <3>1, <3>2, <3>3, JobKept
  <2> QED BY <2>2, <2>3
<1>5. WritersKnown'
  <2>1. \A j \in Jobs : \A q, h : JobWrites(j, q, h)' = JobWrites(j, q, h)
    BY DEF JobWrites, RasterOf, Own
  <2>2. \A q \in Paths : q[1] \in {"tile", "raster", "mosaic"} => writing'[q] = writing[q]
    BY <1>2 DEF FileSame, PageKinds
  <2> QED BY <2>1, <2>2 DEF IInv, WritersKnown
<1>6. ImagesKept'
  BY <1>3 DEF IInv, ImagesKept, FileSame
<1>7. ASSUME NEW s \in Requests, s # r PROVE RequestInv(s)'
  <2>1. RequestInv(s) /\ req'[s] = req[s] /\ req[s] \in Request
    BY <1>1, <1>7 DEF IInv, TypeOK
  <2>2. CASE req[s].at = "idle"
    BY <2>1, <2>2 DEF RequestInv
  <2>3. CASE req[s].at # "idle"
    <3>1. Target(s) \in Paths /\ (req[s].kind # "thumbnail" => ReportMap(req[s].key) \in Paths)
      BY <2>1, <2>3, PathsAre DEF RequestInv, Target, ReportMap
    <3>2. \A q \in Paths : \A h \in writing[q] : h[1] # r => h \in writing'[q]
      BY DEF Elsewhere, FileSame
    <3>3. \A q \in Paths : holds[q] # Absent => holds'[q] # Absent
      BY DEF Elsewhere, FileSame
    <3>4. <<s, req[s].read>>[1] # r
      BY <1>7
    <3>5. Target(s)' = Target(s)
      BY <2>1 DEF Target
    <3>6. req[s].at \in {"write", "serve"} => holds'[Target(s)] # Absent
      BY <2>1, <3>1, <3>3 DEF RequestInv
    <3>7. /\ req[s].at = "write" => <<s, req[s].read>> \in writing'[Target(s)]
          /\ req[s].at = "write map" => <<s, req[s].read>> \in writing'[ReportMap(req[s].key)]
      BY <2>1, <3>1, <3>2, <3>4 DEF RequestInv
    <3> QED BY <2>1, <2>3, <3>5, <3>6, <3>7 DEF RequestInv
  <2> QED BY <2>2, <2>3
<1>8. DamageNeedsSharing'
  BY SMTT(30) DEF IInv, DamageNeedsSharing, ImagesOf
<1> QED BY <1>4, <1>5, <1>6, <1>7, <1>8 DEF IInv

(* A page is opened or closed by who writes what it is expected to show.   *)
LEMMA PageWritten ==
  ASSUME IInv, NEW p \in Paths, NEW w \in Writers, NEW c \in Content,
         OpenFile(p, w, c) \/ CloseFile(p, w, c),
         UNCHANGED <<pair, at, path, again, crashed>>,
         \A i \in Images \ again : p = Rendered("thumbnail", i) => crashed \/ c = Pixels,
         \A j \in Jobs : \A kind \in {"map", "report map", "report"} :
           p = Rendered(kind, j) =>
             /\ at[j] = "done"
             /\ ~Overwritten(j) => c = IF kind = "report" THEN Expected(j) ELSE Own(j)
  PROVE  ThumbnailsKept' /\ \A j \in Jobs : PagesKept(j)'
<1>1. TypeOK
  BY DEF IInv
<1>2. Elsewhere(p)
  BY <1>1, OpenEffect, CloseEffect
<1>3. Settled(p, c) => Settled(p, c)'
  BY <1>1, SettledOpen, SettledClose
<1>4. ASSUME NEW q \in Paths, NEW d, Settled(q, d), q = p => d = c PROVE Settled(q, d)'
  BY <1>2, <1>3, <1>4 DEF Elsewhere, FileSame, Settled
<1>5. ThumbnailsKept'
  <2>1. SUFFICES ASSUME NEW i \in Images \ again, ~crashed
                 PROVE  Settled(Rendered("thumbnail", i), Pixels)'
    BY DEF ThumbnailsKept
  <2>2. Settled(Rendered("thumbnail", i), Pixels) /\ Rendered("thumbnail", i) \in Paths
    BY <2>1, PathsAre DEF IInv, ThumbnailsKept
  <2> QED BY <1>4, <2>1, <2>2
<1>6. ASSUME NEW j \in Jobs PROVE PagesKept(j)'
  <2>1. PagesKept(j) /\ \A kind \in {"map", "report map", "report"} : Rendered(kind, j) \in Paths
    BY PathsAre DEF IInv
  <2>2. CASE at[j] \notin {"done", "gone"}
    <3>1. \A kind \in {"map", "report map", "report"} : FileSame(Rendered(kind, j))
      BY <1>2, <2>1, <2>2 DEF Elsewhere
    <3> QED BY <2>1, <2>2, <3>1 DEF PagesKept, Untouched, FileSame
  <2>3. CASE at[j] = "done" /\ ~Overwritten(j)
    <3>1. /\ Settled(Rendered("map", j), Own(j)) /\ Settled(Rendered("report map", j), Own(j))
          /\ Settled(Rendered("report", j), Expected(j))
      BY <2>1, <2>3 DEF PagesKept
    <3>2. /\ p = Rendered("map", j) => c = Own(j)
          /\ p = Rendered("report map", j) => c = Own(j)
          /\ p = Rendered("report", j) => c = Expected(j)
      BY <2>3
    <3>3. PICK own : own = Own(j) /\ own = Own(j)'
      BY DEF Own
    <3>4. PICK said : said = Expected(j) /\ said = Expected(j)'
      BY DEF Own, Expected
    <3>5. Settled(Rendered("map", j), own)' /\ Settled(Rendered("report map", j), own)'
      BY <1>4, <2>1, <3>1, <3>2, <3>3
    <3>6. Settled(Rendered("report", j), said)'
      BY <1>4, <2>1, <3>1, <3>2, <3>4
    <3>7. /\ Settled(Rendered("map", j), Own(j))' /\ Settled(Rendered("report map", j), Own(j))'
          /\ Settled(Rendered("report", j), Expected(j))'
      BY <3>3, <3>4, <3>5, <3>6 DEF Settled
    <3> QED BY <2>3, <3>7 DEF PagesKept
  <2>4. CASE at[j] = "gone" \/ (at[j] = "done" /\ Overwritten(j))
    BY <2>4 DEF PagesKept, Overwritten
  <2> QED BY <2>2, <2>3, <2>4
<1> QED BY <1>5, <1>6

(* A step of a request that leaves the files alone.                        *)
LEMMA QuietRequest ==
  ASSUME IInv, NEW r \in Requests, NEW p \in Paths, p[1] \in PageKinds,
         UNCHANGED <<holds, writing, begun, pair, at, todo, rasters, damaged, cancelled, path, again,
                     crashed>>,
         \A s \in Requests \ {r} : req'[s] = req[s], TypeOK', RequestInv(r)'
  PROVE  IInv'
<1>1. Elsewhere(p)
  BY DEF Elsewhere, FileSame
<1>2. ThumbnailsKept'
  BY DEF IInv, ThumbnailsKept, Settled
<1>3. \A j \in Jobs : PagesKept(j)'
  BY ZenonT(60) DEF IInv, PagesKept, Untouched, Settled, Expected, Own, Overwritten
<1> QED BY <1>1, <1>2, <1>3, RequestStep

LEMMA Idles ==
  ASSUME IInv, NEW r \in Requests, req' = [req EXCEPT ![r] = Idle]
  PROVE  /\ RequestInv(r)' /\ req' \in [Requests -> Request]
         /\ \A s \in Requests \ {r} : req'[s] = req[s]
<1>1. Idle \in Request /\ Idle.at = "idle" /\ Idle.kind = "none"
  BY DEF Idle, Request
<1>2. req \in [Requests -> Request]
  BY DEF IInv, TypeOK
<1>3. req' \in [Requests -> Request] /\ req'[r] = Idle
  BY <1>1, <1>2
<1> QED BY <1>1, <1>2, <1>3 DEF RequestInv

(* The page of a request in hand.                                          *)
LEMMA RequestHasPage ==
  ASSUME IInv, NEW r \in Requests, req[r].at # "idle"
  PROVE  /\ req[r] \in Request /\ req[r].kind \in {"map", "report", "thumbnail"}
         /\ Target(r) \in Paths /\ Target(r)[1] \in PageKinds /\ Target(r)[1] = req[r].kind
         /\ Target(r)[2] = req[r].key
         /\ req[r].kind = "thumbnail" => req[r].key \in Images
         /\ req[r].kind # "thumbnail" =>
              /\ req[r].key \in Jobs /\ at[req[r].key] = "done"
              /\ ReportMap(req[r].key) \in Paths /\ ReportMap(req[r].key)[1] = "report map"
              /\ ReportMap(req[r].key)[2] = req[r].key
         /\ req[r].kind = "map" => path[req[r].key] # None
<1>1. RequestInv(r) /\ req[r] \in Request
  BY DEF IInv, TypeOK
<1>2. Target(r)[1] = req[r].kind /\ Target(r)[2] = req[r].key
  BY DEF Target, Rendered
<1>3. /\ ReportMap(req[r].key)[1] = "report map" /\ ReportMap(req[r].key)[2] = req[r].key
  BY DEF ReportMap, Rendered
<1>4. CASE req[r].kind = "thumbnail"
  <2>1. req[r].key \in Images
    BY <1>1, <1>4 DEF RequestInv
  <2>2. Target(r) \in Paths
    BY <1>4, <2>1, PathsAre DEF Target
  <2> QED BY <1>1, <1>2, <1>4, <2>1, <2>2 DEF PageKinds
<1>5. CASE req[r].kind # "thumbnail"
  <2>1. req[r].key \in Jobs /\ at[req[r].key] = "done" /\ req[r].kind \in {"map", "report"}
    BY <1>1, <1>5 DEF RequestInv
  <2>2. Target(r) \in Paths /\ ReportMap(req[r].key) \in Paths
    BY <2>1, PathsAre DEF Target, ReportMap
  <2> QED BY <1>1, <1>2, <1>3, <1>5, <2>1, <2>2 DEF PageKinds, RequestInv
<1> QED BY <1>4, <1>5

LEMMA ServeKeeps ==
  ASSUME IInv, NEW r \in Requests, Serve(r)
  PROVE  IInv'
<1>1. /\ UNCHANGED <<holds, writing, begun, pair, at, todo, rasters, damaged, cancelled, path, again,
                     crashed>>
      /\ req' = [req EXCEPT ![r] = Idle] /\ req[r].at # "idle" /\ TypeOK
  BY DEF IInv, Serve, fileVars, jobVars
<1>2. Target(r) \in Paths /\ Target(r)[1] \in PageKinds
  BY <1>1, RequestHasPage
<1>3. /\ RequestInv(r)' /\ req' \in [Requests -> Request]
      /\ \A s \in Requests \ {r} : req'[s] = req[s]
  BY <1>1, Idles
<1>4. TypeOK'
  BY <1>1, <1>3 DEF TypeOK
<1> QED BY <1>1, <1>2, <1>3, <1>4, QuietRequest

LEMMA AsksKeeps ==
  ASSUME IInv, NEW r \in Requests, NEW kind \in {"map", "report", "thumbnail"},
         NEW key \in Jobs \cup Images, Asks(r, kind, key),
         kind = "thumbnail" => key \in Images,
         kind # "thumbnail" => key \in Jobs /\ at[key] = "done",
         kind = "map" => path[key] # None
  PROVE  IInv'
<1> DEFINE place == IF Cached(kind, key) THEN "serve"
                    ELSE IF kind = "report" /\ path[key] # None THEN "render map"
                    ELSE "render"
<1>1. /\ UNCHANGED <<holds, writing, begun, pair, at, todo, rasters, damaged, cancelled, path, again,
                     crashed>>
      /\ TypeOK
  BY DEF IInv, Asks, fileVars, jobVars
<1>2. PICK new : /\ new = [kind |-> kind, key |-> key, read |-> Absent, at |-> place]
                 /\ req' = [req EXCEPT ![r] = new]
  BY DEF Asks
<1>3. new.kind = kind /\ new.key = key /\ new.at = place
  BY <1>2
<1>4. place \in {"serve", "render map", "render"} /\ (place = "render map" => kind = "report" /\ path[key] # None)
      /\ (place = "serve" => holds[Rendered(kind, key)] # Absent)
  BY DEF Cached, Exists
<1> HIDE DEF place
<1>5. new \in Request
  BY <1>2, <1>4 DEF Request
<1>6. Rendered(kind, key) \in Paths
  BY PathsAre
<1>7. Rendered(kind, key)[1] \in PageKinds
  BY DEF Rendered, PageKinds
<1>8. /\ req' \in [Requests -> Request] /\ req'[r] = new
      /\ \A s \in Requests \ {r} : req'[s] = req[s]
  BY <1>1, <1>2, <1>5 DEF TypeOK
<1>9. TypeOK'
  BY <1>1, <1>8 DEF TypeOK
<1>10. RequestInv(r)'
  <2>1. Target(r)' = Rendered(kind, key)
    BY <1>3, <1>8 DEF Target
  <2> QED BY <1>1, <1>3, <1>4, <1>8, <2>1 DEF RequestInv
<1> QED BY <1>1, <1>6, <1>7, <1>8, <1>9, <1>10, QuietRequest

(* A source that is read gives nothing, or a content; the map of a job     *)
(* that nobody overwrites, and an image not uploaded again, give their own. *)
LEMMA Reading ==
  ASSUME IInv, NEW p \in Paths, NEW c, Read(p, c), c # None
  PROVE  c \in Content /\ (Whole(p) => c = holds[p])
BY ContentsAre DEF IInv, TypeOK, Read, Whole, Marks

LEMMA ReadingMap ==
  ASSUME IInv, NEW j \in Jobs, path[j] # None, NEW c, Read(path[j], c), c # None
  PROVE  c \in Content /\ (~Overwritten(j) => c = Own(j))
<1>1. TypeOK /\ JobInv(j) /\ MapKept(j) /\ path[j] \in Paths
  BY DEF IInv, TypeOK
<1>2. Own(j) \notin Marks
  BY <1>1, JobHasPair DEF JobInv
<1>3. ~Overwritten(j) => Whole(path[j]) /\ holds[path[j]] = Own(j)
  BY <1>1, <1>2 DEF MapKept, Whole, Marks
<1> QED BY <1>1, <1>3, Reading

LEMMA RenderReportMapKeeps ==
  ASSUME IInv, NEW r \in Requests, RenderReportMap(r)
  PROVE  IInv'
<1>1. /\ req[r].at = "render map" /\ TypeOK /\ RequestInv(r)
      /\ UNCHANGED <<begun, pair, at, todo, rasters, damaged, cancelled, path, again, crashed>>
  BY DEF IInv, RenderReportMap, jobVars
<1>2. PICK c : /\ Read(path[req[r].key], c)
               /\ IF c = None
                  THEN req' = [req EXCEPT ![r] = Idle] /\ UNCHANGED fileVars
                  ELSE /\ OpenFile(ReportMap(req[r].key), r, c)
                       /\ req' = [req EXCEPT ![r].at = "write map", ![r].read = c]
  BY DEF RenderReportMap
<1>3. /\ req[r].kind = "report" /\ req[r].key \in Jobs /\ at[req[r].key] = "done"
      /\ path[req[r].key] # None /\ req[r] \in Request
  BY <1>1, RequestHasPage DEF RequestInv
<1>4. PICK j \in Jobs : j = req[r].key
  BY <1>3
<1>5. PICK p \in Paths : p = ReportMap(j) /\ p[1] = "report map" /\ p[2] = j
  BY <1>1, <1>3, <1>4, RequestHasPage
<1>6. CASE c = None
  <2>1. req' = [req EXCEPT ![r] = Idle] /\ UNCHANGED <<holds, writing>>
    BY <1>2, <1>6 DEF fileVars
  <2>2. /\ RequestInv(r)' /\ req' \in [Requests -> Request]
        /\ \A s \in Requests \ {r} : req'[s] = req[s]
    BY <2>1, Idles
  <2>3. TypeOK'
    BY <1>1, <2>1, <2>2 DEF TypeOK
  <2>4. p[1] \in PageKinds
    BY <1>5 DEF PageKinds
  <2> QED BY <1>1, <2>1, <2>2, <2>3, <2>4, QuietRequest
<1>7. CASE c # None
  <2>1. c \in Content /\ (~Overwritten(j) => c = Own(j))
    BY <1>2, <1>3, <1>4, <1>7, ReadingMap
  <2>2. OpenFile(p, r, c) /\ r \in Writers
    BY <1>2, <1>4, <1>5, <1>7 DEF Writers
  <2>3. /\ holds' \in [Paths -> Content \cup Marks] /\ Elsewhere(p)
        /\ writing' \in [Paths -> SUBSET (Writers \X Content)]
        /\ writing'[p] = writing[p] \cup {<<r, c>>} /\ holds'[p] \in {Opened, Mixed}
    BY <1>1, <2>1, <2>2, OpenEffect
  <2>4. PICK new \in Request : /\ new = [req[r] EXCEPT !.at = "write map", !.read = c]
                               /\ req' = [req EXCEPT ![r] = new]
    <3>1. [req[r] EXCEPT !.at = "write map", !.read = c] \in Request
      BY <1>3, <2>1 DEF Request
    <3>2. req' = [req EXCEPT ![r] = [req[r] EXCEPT !.at = "write map", !.read = c]]
      BY <1>1, <1>2, <1>7 DEF TypeOK
    <3> QED BY <3>1, <3>2
  <2>5. /\ req' \in [Requests -> Request] /\ req'[r] = new
        /\ \A s \in Requests \ {r} : req'[s] = req[s]
    BY <1>1, <2>4 DEF TypeOK
  <2>6. new.kind = "report" /\ new.key = j /\ new.at = "write map" /\ new.read = c
    BY <1>3, <1>4, <2>4 DEF Request
  <2>7. TypeOK'
    BY <1>1, <2>3, <2>5 DEF TypeOK, Writers
  <2>8. RequestInv(r)'
    <3>1. ReportMap(j)' = p
      BY <1>5 DEF ReportMap, Rendered
    <3> QED BY <1>1, <1>3, <1>4, <1>5, <2>3, <2>5, <2>6 DEF RequestInv
  <2>9. ThumbnailsKept' /\ \A k \in Jobs : PagesKept(k)'
    <3>1. ASSUME NEW i \in Images \ again, p = Rendered("thumbnail", i) PROVE FALSE
      <4>1. Rendered("thumbnail", i)[1] = "thumbnail"
        BY DEF Rendered
      <4> QED BY <3>1, <4>1, <1>5
    <3>2. ASSUME NEW k \in Jobs, NEW kind \in {"map", "report map", "report"}, p = Rendered(kind, k)
          PROVE  /\ at[k] = "done"
                 /\ ~Overwritten(k) => c = IF kind = "report" THEN Expected(k) ELSE Own(k)
      <4>1. Rendered(kind, k)[1] = kind /\ Rendered(kind, k)[2] = k
        BY DEF Rendered
      <4>2. kind = "report map" /\ k = j
        BY <3>2, <4>1, <1>5
      <4> QED BY <4>2, <1>3, <1>4, <2>1
    <3> QED BY <1>1, <2>1, <2>2, <3>1, <3>2, PageWritten
  <2>10. p[1] \in PageKinds
    BY <1>5 DEF PageKinds
  <2>11. /\ holds[p] # Absent => holds'[p] # Absent
         /\ \A h \in writing[p] : h[1] # r => h \in writing'[p]
    BY <2>3, MarksAssumption
  <2> QED BY <1>1, <2>3, <2>5, <2>7, <2>8, <2>9, <2>10, <2>11, RequestStep
<1> QED BY <1>6, <1>7

(* What request r has in hand for a page is what the page is to show.      *)
LEMMA HeldFits ==
  ASSUME IInv, NEW p \in Paths, NEW w, NEW c, <<w, c>> \in writing[p]
  PROVE  /\ \A i \in Images \ again : p = Rendered("thumbnail", i) => crashed \/ c = Pixels
         /\ \A j \in Jobs : \A kind \in {"map", "report map", "report"} :
              p = Rendered(kind, j) /\ at[j] = "done" /\ ~Overwritten(j) =>
                c = IF kind = "report" THEN Expected(j) ELSE Own(j)
<1>1. <<w, c>>[2] = c
  OBVIOUS
<1>2. \A d : Settled(p, d) => c = d
  BY <1>1 DEF Settled
<1>3. \A i \in Images \ again : crashed \/ Settled(Rendered("thumbnail", i), Pixels)
  BY DEF IInv, ThumbnailsKept
<1>4. ASSUME NEW j \in Jobs, NEW kind \in {"map", "report map", "report"},
             p = Rendered(kind, j), at[j] = "done", ~Overwritten(j)
      PROVE  c = IF kind = "report" THEN Expected(j) ELSE Own(j)
  <2>1. PagesKept(j)
    BY DEF IInv
  <2> QED BY <1>2, <1>4, <2>1 DEF PagesKept
<1> QED BY <1>2, <1>3, <1>4

(* The end of a request's writing of page p, and what it goes on with.     *)
LEMMA PageClosed ==
  ASSUME IInv, NEW r \in Requests, NEW p \in Paths, p[1] \in PageKinds, NEW c,
         <<r, c>> \in writing[p], CloseFile(p, r, c),
         \A j \in Jobs : \A kind \in {"map", "report map", "report"} :
           p = Rendered(kind, j) => at[j] = "done",
         UNCHANGED <<begun, pair, at, todo, rasters, damaged, cancelled, path, again, crashed>>,
         NEW new \in Request, req' = [req EXCEPT ![r] = new],
         (holds[p] # Absent => holds'[p] # Absent) => RequestInv(r)'
  PROVE  IInv'
<1>1. TypeOK
  BY DEF IInv
<1>2. c \in Content /\ r \in Writers /\ c # Absent
  <2>1. <<r, c>> \in (Jobs \cup Requests \cup {None}) \X Content
    BY <1>1 DEF TypeOK
  <2>2. c \in Content
    BY <2>1
  <2> QED BY <2>2, MarksAssumption DEF Writers
<1>3. /\ holds' \in [Paths -> Content \cup Marks] /\ Elsewhere(p)
      /\ writing' \in [Paths -> SUBSET (Writers \X Content)]
      /\ writing'[p] = writing[p] \ {<<r, c>>}
      /\ holds'[p] = holds[p] \/ holds'[p] \in {c, Torn}
  BY <1>1, <1>2, CloseEffect
<1>4. /\ req' \in [Requests -> Request] /\ req'[r] = new
      /\ \A s \in Requests \ {r} : req'[s] = req[s]
  BY <1>1 DEF TypeOK
<1>5. TypeOK'
  BY <1>1, <1>3, <1>4 DEF TypeOK, Writers
<1>6. holds[p] # Absent => holds'[p] # Absent
  BY <1>2, <1>3, MarksAssumption
<1>7. \A h \in writing[p] : h[1] # r => h \in writing'[p]
  <2>1. <<r, c>>[1] = r
    OBVIOUS
  <2> QED BY <1>3, <2>1
<1>8. ThumbnailsKept' /\ \A j \in Jobs : PagesKept(j)'
  <2>1. \A i \in Images \ again : p = Rendered("thumbnail", i) => crashed \/ c = Pixels
    BY HeldFits
  <2>2. ASSUME NEW j \in Jobs, NEW kind \in {"map", "report map", "report"}, p = Rendered(kind, j)
        PROVE  /\ at[j] = "done"
               /\ ~Overwritten(j) => c = IF kind = "report" THEN Expected(j) ELSE Own(j)
    BY <2>2, HeldFits
  <2> QED BY <1>2, <2>1, <2>2, PageWritten
<1> QED BY <1>3, <1>4, <1>5, <1>6, <1>7, <1>8, RequestStep

LEMMA WriteReportMapKeeps ==
  ASSUME IInv, NEW r \in Requests, WriteReportMap(r)
  PROVE  IInv'
<1>1. /\ req[r].at = "write map" /\ TypeOK /\ RequestInv(r)
      /\ UNCHANGED <<begun, pair, at, todo, rasters, damaged, cancelled, path, again, crashed>>
  BY DEF IInv, WriteReportMap, jobVars
<1>2. /\ req[r].kind = "report" /\ req[r].key \in Jobs /\ at[req[r].key] = "done"
      /\ req[r] \in Request
      /\ <<r, req[r].read>> \in writing[ReportMap(req[r].key)]
  BY <1>1, RequestHasPage DEF RequestInv
<1>3. PICK j \in Jobs : j = req[r].key
  BY <1>2
<1>4. PICK p \in Paths : p = ReportMap(j) /\ p[1] = "report map" /\ p[2] = j
  BY <1>1, <1>2, <1>3, RequestHasPage
<1>5. PICK c : c = req[r].read
  OBVIOUS
<1>6. <<r, c>> \in writing[p] /\ CloseFile(p, r, c)
  BY <1>2, <1>3, <1>4, <1>5 DEF WriteReportMap
<1>7. PICK new \in Request : /\ new = [req[r] EXCEPT !.at = "render", !.read = Absent]
                             /\ req' = [req EXCEPT ![r] = new]
  <2>1. [req[r] EXCEPT !.at = "render", !.read = Absent] \in Request
    BY <1>2 DEF Request
  <2>2. req' = [req EXCEPT ![r] = [req[r] EXCEPT !.at = "render", !.read = Absent]]
    BY <1>1 DEF WriteReportMap, TypeOK
  <2> QED BY <2>1, <2>2
<1>8. new.kind = "report" /\ new.key = j /\ new.at = "render" /\ req'[r] = new
  BY <1>1, <1>2, <1>3, <1>7 DEF Request, TypeOK
<1>9. RequestInv(r)'
  BY <1>1, <1>2, <1>3, <1>8 DEF RequestInv
<1>10. ASSUME NEW k \in Jobs, NEW kind \in {"map", "report map", "report"}, p = Rendered(kind, k)
       PROVE  at[k] = "done"
  <2>1. Rendered(kind, k)[2] = k
    BY DEF Rendered
  <2> QED BY <2>1, <1>2, <1>3, <1>4, <1>10
<1>11. p[1] \in PageKinds
  BY <1>4 DEF PageKinds
<1> QED BY <1>1, <1>6, <1>7, <1>9, <1>10, <1>11, PageClosed

LEMMA WriteKeeps ==
  ASSUME IInv, NEW r \in Requests, Write(r)
  PROVE  IInv'
<1>1. /\ req[r].at = "write" /\ TypeOK /\ RequestInv(r)
      /\ UNCHANGED <<begun, pair, at, todo, rasters, damaged, cancelled, path, again, crashed>>
  BY DEF IInv, Write, jobVars
<1>2. PICK p \in Paths : p = Target(r) /\ p[1] = req[r].kind /\ p[2] = req[r].key /\ p[1] \in PageKinds
  BY <1>1, RequestHasPage
<1>3. /\ req[r] \in Request /\ req[r].kind \in {"map", "report", "thumbnail"}
      /\ req[r].kind # "thumbnail" => req[r].key \in Jobs /\ at[req[r].key] = "done"
      /\ <<r, req[r].read>> \in writing[p] /\ holds[p] # Absent
  BY <1>1, <1>2, RequestHasPage DEF RequestInv
<1>4. PICK c : c = req[r].read
  OBVIOUS
<1>5. <<r, c>> \in writing[p] /\ CloseFile(p, r, c)
  BY <1>2, <1>3, <1>4 DEF Write
<1>6. PICK new \in Request : /\ new = [req[r] EXCEPT !.at = "serve"]
                             /\ req' = [req EXCEPT ![r] = new]
  <2>1. [req[r] EXCEPT !.at = "serve"] \in Request
    BY <1>3 DEF Request
  <2>2. req' = [req EXCEPT ![r] = [req[r] EXCEPT !.at = "serve"]]
    BY <1>1 DEF Write, Place, TypeOK
  <2> QED BY <2>1, <2>2
<1>7. new.kind = req[r].kind /\ new.key = req[r].key /\ new.at = "serve" /\ req'[r] = new
  BY <1>1, <1>3, <1>6 DEF Request, TypeOK
<1>8. holds'[p] # Absent => RequestInv(r)'
  <2>1. Target(r)' = p
    BY <1>2, <1>7 DEF Target
  <2> QED BY <1>1, <1>7, <2>1 DEF RequestInv
<1>9. ASSUME NEW k \in Jobs, NEW kind \in {"map", "report map", "report"}, p = Rendered(kind, k)
      PROVE  at[k] = "done"
  <2>1. Rendered(kind, k)[2] = k /\ Rendered(kind, k)[1] = kind
    BY DEF Rendered
  <2> QED BY <2>1, <1>2, <1>3, <1>9
<1> QED BY <1>1, <1>2, <1>3, <1>5, <1>6, <1>8, <1>9, PageClosed

(* What a page is rendered from.                                           *)
LEMMA RenderingFits ==
  ASSUME IInv, NEW r \in Requests, req[r].at # "idle", NEW c, RenderedFrom(r, c), c # None
  PROVE  /\ c \in Content
         /\ req[r].kind = "thumbnail" /\ req[r].key \notin again => c = Pixels
         /\ req[r].kind # "thumbnail" /\ ~Overwritten(req[r].key) =>
              c = IF req[r].kind = "report" THEN Expected(req[r].key) ELSE Own(req[r].key)
<1>1. /\ TypeOK /\ req[r].kind \in {"map", "report", "thumbnail"}
      /\ req[r].kind = "thumbnail" => req[r].key \in Images
      /\ req[r].kind # "thumbnail" =>
           /\ req[r].key \in Jobs /\ at[req[r].key] = "done"
           /\ ReportMap(req[r].key) \in Paths
      /\ req[r].kind = "map" => path[req[r].key] # None
  BY RequestHasPage DEF IInv
<1>2. CASE req[r].kind = "thumbnail"
  <2>1. Read(Cog(req[r].key), c)
    BY <1>2 DEF RenderedFrom
  <2>2. Cog(req[r].key) \in Paths /\ req[r].key \in Images
    BY <1>1, <1>2, PathsAre
  <2>3. req[r].key \notin again => holds[Cog(req[r].key)] = Pixels
    BY <2>2 DEF IInv, ImagesKept
  <2>4. Pixels \notin Marks
    BY ContentsAre
  <2> QED BY <1>2, <2>1, <2>2, <2>3, <2>4, Reading DEF Whole, Marks
<1>3. CASE req[r].kind = "map"
  <2>1. Read(path[req[r].key], c)
    BY <1>3 DEF RenderedFrom
  <2> QED BY <1>1, <1>3, <2>1, ReadingMap
<1>4. CASE req[r].kind = "report"
  <2>1. PICK j \in Jobs : j = req[r].key
    BY <1>1, <1>4
  <2>2. c = IF path[j] = None THEN Pixels
            ELSE IF Whole(ReportMap(j)) THEN holds[ReportMap(j)] ELSE None
    BY <1>4, <2>1 DEF RenderedFrom
  <2>3. CASE path[j] = None
    BY <1>4, <2>1, <2>2, <2>3, ContentsAre DEF Expected
  <2>4. CASE path[j] # None
    <3>1. Whole(ReportMap(j)) /\ c = holds[ReportMap(j)] /\ ReportMap(j) \in Paths
      BY <1>1, <1>4, <2>1, <2>2, <2>4
    <3>2. c \in Content
      BY <1>1, <3>1 DEF TypeOK, Whole, Marks
    <3>3. ~Overwritten(j) => Settled(Rendered("report map", j), Own(j))
      BY <1>1, <1>4, <2>1 DEF IInv, PagesKept
    <3>4. ~Overwritten(j) => c = Own(j)
      BY <3>1, <3>3 DEF ReportMap, Settled, Whole
    <3> QED BY <1>4, <2>1, <2>4, <3>2, <3>4 DEF Expected
  <2> QED BY <2>3, <2>4
<1> QED BY <1>1, <1>2, <1>3, <1>4

LEMMA RenderKeeps ==
  ASSUME IInv, NEW r \in Requests, Render(r)
  PROVE  IInv'
<1>1. /\ req[r].at = "render" /\ TypeOK /\ RequestInv(r)
      /\ UNCHANGED <<begun, pair, at, todo, rasters, damaged, cancelled, path, again, crashed>>
  BY DEF IInv, Render, jobVars
<1>2. PICK c : /\ RenderedFrom(r, c)
               /\ IF c = None
                  THEN req' = [req EXCEPT ![r] = Idle] /\ UNCHANGED fileVars
                  ELSE /\ OpenFile(Target(r), r, c)
                       /\ req' = [req EXCEPT ![r].at = "write", ![r].read = c]
  BY DEF Render
<1>3. PICK p \in Paths : p = Target(r) /\ p[1] = req[r].kind /\ p[2] = req[r].key /\ p[1] \in PageKinds
  BY <1>1, RequestHasPage
<1>4. /\ req[r] \in Request /\ req[r].kind \in {"map", "report", "thumbnail"}
      /\ req[r].kind # "thumbnail" => req[r].key \in Jobs /\ at[req[r].key] = "done"
  BY <1>1, RequestHasPage
<1>5. CASE c = None
  <2>1. req' = [req EXCEPT ![r] = Idle] /\ UNCHANGED <<holds, writing>>
    BY <1>2, <1>5 DEF fileVars
  <2>2. /\ RequestInv(r)' /\ req' \in [Requests -> Request]
        /\ \A s \in Requests \ {r} : req'[s] = req[s]
    BY <2>1, Idles
  <2>3. TypeOK'
    BY <1>1, <2>1, <2>2 DEF TypeOK
  <2> QED BY <1>1, <1>3, <2>1, <2>2, <2>3, QuietRequest
<1>6. CASE c # None
  <2>1. /\ c \in Content
        /\ req[r].kind = "thumbnail" /\ req[r].key \notin again => c = Pixels
        /\ req[r].kind # "thumbnail" /\ ~Overwritten(req[r].key) =>
             c = IF req[r].kind = "report" THEN Expected(req[r].key) ELSE Own(req[r].key)
    BY <1>1, <1>2, <1>6, RenderingFits
  <2>2. OpenFile(p, r, c) /\ r \in Writers
    BY <1>2, <1>3, <1>6 DEF Writers
  <2>3. /\ holds' \in [Paths -> Content \cup Marks] /\ Elsewhere(p)
        /\ writing' \in [Paths -> SUBSET (Writers \X Content)]
        /\ writing'[p] = writing[p] \cup {<<r, c>>} /\ holds'[p] \in {Opened, Mixed}
    BY <1>1, <2>1, <2>2, OpenEffect
  <2>4. PICK new \in Request : /\ new = [req[r] EXCEPT !.at = "write", !.read = c]
                               /\ req' = [req EXCEPT ![r] = new]
    <3>1. [req[r] EXCEPT !.at = "write", !.read = c] \in Request
      BY <1>4, <2>1 DEF Request
    <3>2. req' = [req EXCEPT ![r] = [req[r] EXCEPT !.at = "write", !.read = c]]
      BY <1>1, <1>2, <1>6 DEF TypeOK
    <3> QED BY <3>1, <3>2
  <2>5. /\ req' \in [Requests -> Request] /\ req'[r] = new
        /\ \A s \in Requests \ {r} : req'[s] = req[s]
    BY <1>1, <2>4 DEF TypeOK
  <2>6. new.kind = req[r].kind /\ new.key = req[r].key /\ new.at = "write" /\ new.read = c
    BY <1>4, <2>4 DEF Request
  <2>7. TypeOK'
    BY <1>1, <2>3, <2>5 DEF TypeOK, Writers
  <2>8. holds'[p] # Absent
    BY <2>3, MarksAssumption
  <2>9. RequestInv(r)'
    <3>1. Target(r)' = p
      BY <1>3, <2>5, <2>6 DEF Target
    <3> QED BY <1>1, <2>3, <2>5, <2>6, <2>8, <3>1 DEF RequestInv
  <2>10. ThumbnailsKept' /\ \A k \in Jobs : PagesKept(k)'
    <3>1. ASSUME NEW i \in Images \ again, p = Rendered("thumbnail", i) PROVE c = Pixels
      <4>1. Rendered("thumbnail", i)[1] = "thumbnail" /\ Rendered("thumbnail", i)[2] = i
        BY DEF Rendered
      <4> QED BY <3>1, <4>1, <1>3, <2>1
    <3>2. ASSUME NEW k \in Jobs, NEW kind \in {"map", "report map", "report"}, p = Rendered(kind, k)
          PROVE  /\ at[k] = "done"
                 /\ ~Overwritten(k) => c = IF kind = "report" THEN Expected(k) ELSE Own(k)
      <4>1. Rendered(kind, k)[1] = kind /\ Rendered(kind, k)[2] = k
        BY DEF Rendered
      <4>2. kind = req[r].kind /\ k = req[r].key
        BY <3>2, <4>1, <1>3
      <4> QED BY <4>2, <1>4, <2>1
    <3> QED BY <1>1, <2>1, <2>2, <3>1, <3>2, PageWritten
  <2>11. \A h \in writing[p] : h[1] # r => h \in writing'[p]
    BY <2>3
  <2> QED BY <1>1, <1>3, <2>3, <2>5, <2>7, <2>8, <2>9, <2>10, <2>11, RequestStep
<1> QED BY <1>5, <1>6

-----------------------------------------------------------------------------
(* Images uploaded again, and the end of the process.                      *)

LEMMA ImageStep ==
  ASSUME IInv, NEW i \in Images, Elsewhere(Cog(i)), i \in again', again \subseteq again',
         UNCHANGED <<begun, pair, at, todo, rasters, damaged, cancelled, path, req, crashed>>, TypeOK'
  PROVE  IInv'
<1>1. TypeOK /\ Cog(i) \in Paths
  BY PathsAre DEF IInv
<1>2. \A q \in Paths : q[1] # "cog" => FileSame(q)
  BY DEF Elsewhere, Cog
<1>3. ASSUME NEW j \in Jobs
      PROVE  /\ \A kind \in {"map", "report map", "report"} : FileSame(Rendered(kind, j))
             /\ (Shared(j) => Shared(j)') /\ Overwritten(j)' = Overwritten(j) /\ LocalsSame(j)
  <2>1. ASSUME NEW kind \in {"map", "report map", "report"}
        PROVE  FileSame(Rendered(kind, j))
    <3>1. Rendered(kind, j) \in Paths /\ Rendered(kind, j)[1] # "cog"
      BY PathsAre DEF Rendered
    <3> QED BY <3>1, <1>2
  <2>2. (Shared(j) => Shared(j)') /\ Overwritten(j)' = Overwritten(j) /\ LocalsSame(j)
    BY DEF Shared, ImagesOf, Overwritten, LocalsSame
  <2> QED BY <2>1, <2>2
<1>4. ASSUME NEW j \in Jobs PROVE JobInv(j)' /\ TilesKept(j)' /\ MapKept(j)' /\ PagesKept(j)'
  <2>1. JobInv(j) /\ TilesKept(j) /\ MapKept(j) /\ PagesKept(j)
    BY DEF IInv
  <2>2. CASE at[j] = "none"
    BY <1>3, <2>1, <2>2, NotBegun
  <2>3. CASE at[j] # "none"
    <3>1. /\ pair[j].after \in Images /\ FilesOf(j) \subseteq Paths
          /\ \A q \in FilesOf(j) : q[1] \in {"tile", "raster", "mosaic"}
      BY <1>1, <2>1, <2>3, JobHasPair
    <3>2. \A q \in FilesOf(j) : FileSame(q)
      BY <3>1, <1>2
    <3>3. JobInv(j)' /\ TilesKept(j)' /\ MapKept(j)'
      BY <1>3, <2>1, <3>2, JobKept DEF FilesOf
    <3> QED BY <1>3, <2>1, <3>3, PagesSame
  <2> QED BY <2>2, <2>3
<1>5. WritersKnown'
  <2>1. \A j \in Jobs : \A q, h : JobWrites(j, q, h)' = JobWrites(j, q, h)
    BY DEF JobWrites, RasterOf, Own
  <2>2. \A q \in Paths : q[1] \in {"tile", "raster", "mosaic"} => writing'[q] = writing[q]
    BY <1>2 DEF FileSame
  <2> QED BY <2>1, <2>2 DEF IInv, WritersKnown
<1>6. ImagesKept'
  <2>1. ASSUME NEW k \in Images \ again' PROVE FileSame(Cog(k)) /\ k \in Images \ again
    <3>1. Cog(k) \in Paths /\ Cog(k) # Cog(i)
      BY <2>1, PathsAre DEF Cog
    <3> QED BY <2>1, <3>1 DEF Elsewhere
  <2> QED BY <2>1 DEF IInv, ImagesKept, FileSame
<1>7. ThumbnailsKept'
  <2>1. ASSUME NEW k \in Images PROVE FileSame(Rendered("thumbnail", k))
    <3>1. Rendered("thumbnail", k) \in Paths /\ Rendered("thumbnail", k)[1] # "cog"
      BY PathsAre DEF Rendered
    <3> QED BY <3>1, <1>2
  <2> QED BY <2>1 DEF IInv, ThumbnailsKept, Settled, FileSame
<1>8. ASSUME NEW r \in Requests PROVE RequestInv(r)'
  <2>1. RequestInv(r)
    BY DEF IInv
  <2>2. CASE req[r].at = "idle"
    BY <2>2, <2>1 DEF RequestInv
  <2>3. CASE req[r].at # "idle"
    <3>1. /\ Target(r) \in Paths /\ Target(r)[1] \in PageKinds
          /\ req[r].kind # "thumbnail" => /\ ReportMap(req[r].key) \in Paths
                                          /\ ReportMap(req[r].key)[1] = "report map"
      BY <2>3, RequestHasPage
    <3>2. FileSame(Target(r)) /\ (req[r].kind # "thumbnail" => FileSame(ReportMap(req[r].key)))
      BY <3>1, <1>2 DEF PageKinds
    <3>3. Target(r)' = Target(r)
      BY DEF Target
    <3> QED BY <2>1, <2>3, <3>2, <3>3 DEF RequestInv, FileSame
  <2> QED BY <2>2, <2>3
<1>9. DamageNeedsSharing'
  <2>1. \A j \in damaged : j \in Jobs /\ Shared(j)
    BY <1>1 DEF IInv, DamageNeedsSharing, Shared, TypeOK
  <2>2. \A j \in damaged' : Shared(j)'
    BY <1>3, <2>1
  <2> QED BY <2>2 DEF DamageNeedsSharing, Shared
<1> QED BY <1>4, <1>5, <1>6, <1>7, <1>8, <1>9 DEF IInv

LEMMA PrepareAgainKeeps ==
  ASSUME IInv, NEW i \in Viewed, PrepareAgain(i)
  PROVE  IInv'
<1>1. /\ TypeOK /\ i \in Images /\ again' = again \cup {i} /\ OpenFile(Cog(i), None, Pixels)
      /\ UNCHANGED <<begun, pair, at, todo, rasters, damaged, cancelled, path, req, crashed>>
  BY ViewedAssumption DEF IInv, PrepareAgain, jobVars
<1>2. Cog(i) \in Paths /\ Pixels \in Content /\ None \in Writers
  BY <1>1, PathsAre, ContentsAre DEF Writers
<1>3. /\ holds' \in [Paths -> Content \cup Marks] /\ Elsewhere(Cog(i))
      /\ writing' \in [Paths -> SUBSET (Writers \X Content)]
  BY <1>1, <1>2, OpenEffect
<1>4. TypeOK'
  BY <1>1, <1>3 DEF TypeOK, Writers
<1> QED BY <1>1, <1>3, <1>4, ImageStep

LEMMA PreparedKeeps ==
  ASSUME IInv, NEW i \in Viewed, Prepared(i)
  PROVE  IInv'
<1>1. /\ TypeOK /\ i \in Images /\ CloseFile(Cog(i), None, Pixels)
      /\ UNCHANGED <<begun, pair, at, todo, rasters, damaged, cancelled, path, req, again, crashed>>
  BY ViewedAssumption DEF IInv, Prepared, jobVars, reqVars
<1>2. i \in again
  BY <1>1 DEF IInv, ImagesKept, Prepared
<1>3. Cog(i) \in Paths /\ Pixels \in Content /\ None \in Writers
  BY <1>1, PathsAre, ContentsAre DEF Writers
<1>4. /\ holds' \in [Paths -> Content \cup Marks] /\ Elsewhere(Cog(i))
      /\ writing' \in [Paths -> SUBSET (Writers \X Content)]
  BY <1>1, <1>3, CloseEffect
<1>5. TypeOK'
  BY <1>1, <1>4 DEF TypeOK, Writers
<1> QED BY <1>1, <1>2, <1>4, <1>5, ImageStep

LEMMA CrashKeeps ==
  ASSUME IInv, Crash
  PROVE  IInv'
<1>1. /\ TypeOK /\ crashed' = TRUE
      /\ at' = [j \in Jobs |-> IF at[j] = "none" THEN "none" ELSE "gone"]
      /\ path' = [j \in Jobs |-> None] /\ todo' = [j \in Jobs |-> <<>>]
      /\ rasters' = [j \in Jobs |-> <<>>] /\ req' = [r \in Requests |-> Idle]
      /\ writing' = [p \in Paths |-> {}]
      /\ holds' = [p \in Paths |-> IF holds[p] \in {Opened, Mixed} THEN Torn ELSE holds[p]]
      /\ UNCHANGED <<begun, pair, damaged, cancelled, again>>
  BY DEF IInv, Crash, FilesAfterCrash
<1>2. TypeOK'
  <2>1. /\ at' \in [Jobs -> Places] /\ path' \in [Jobs -> Paths \cup {None}]
        /\ crashed' \in BOOLEAN
    BY <1>1 DEF Places
  <2>2. /\ todo' \in [Jobs -> Steps] /\ rasters' \in [Jobs -> Seq(Paths \cup {None})]
    BY <1>1, EmptySeq DEF Steps
  <2>3. Idle \in Request
    BY DEF Idle, Request
  <2>4. req' \in [Requests -> Request]
    BY <1>1, <2>3
  <2>5. holds' \in [Paths -> Content \cup Marks]
    BY <1>1 DEF TypeOK, Marks
  <2>6. writing' \in [Paths -> SUBSET ((Jobs \cup Requests \cup {None}) \X Content)]
    BY <1>1
  <2> QED BY <1>1, <2>1, <2>2, <2>4, <2>5, <2>6 DEF TypeOK
<1>3. ASSUME NEW j \in Jobs PROVE JobInv(j)' /\ TilesKept(j)' /\ MapKept(j)' /\ PagesKept(j)'
  <2>1. /\ at'[j] = (IF at[j] = "none" THEN "none" ELSE "gone") /\ path'[j] = None
        /\ rasters'[j] = <<>> /\ JobInv(j) /\ PagesKept(j)
    BY <1>1 DEF IInv
  <2>2. JobInv(j)'
    BY <1>1, <2>1, EmptyRange DEF JobInv, Tiling, Comparing
  <2>3. TilesKept(j)'
    BY <2>1 DEF TilesKept, Tiling, Inferring
  <2>4. MapKept(j)'
    BY <2>1, EmptyRange DEF MapKept
  <2>5. PagesKept(j)'
    <3>1. \A kind \in {"map", "report map", "report"} :
            Untouched(Rendered(kind, j)) => Untouched(Rendered(kind, j))'
      BY <1>1, PathsAre, MarksAssumption DEF Untouched
    <3> QED BY <2>1, <3>1 DEF PagesKept
  <2> QED BY <2>2, <2>3, <2>4, <2>5
<1>4. WritersKnown' /\ ThumbnailsKept'
  BY <1>1 DEF WritersKnown, ThumbnailsKept
<1>5. ImagesKept'
  <2>1. Pixels \notin {Opened, Mixed}
    BY ContentsAre DEF Marks
  <2>2. \A i \in Images : Cog(i) \in Paths
    BY PathsAre
  <2> QED BY <1>1, <2>1, <2>2 DEF IInv, ImagesKept
<1>6. ASSUME NEW r \in Requests PROVE RequestInv(r)'
  <2>1. req'[r].at = "idle" /\ req'[r].kind = "none"
    BY <1>1 DEF Idle
  <2> QED BY <2>1 DEF RequestInv
<1>7. DamageNeedsSharing'
  BY <1>1 DEF IInv, DamageNeedsSharing, ImagesOf
<1> QED BY <1>2, <1>3, <1>4, <1>5, <1>6, <1>7 DEF IInv

-----------------------------------------------------------------------------
LEMMA InitHolds == Init => IInv
<1>1. SUFFICES ASSUME Init
               PROVE  IInv
  OBVIOUS
<1>2. TypeOK
  <2>1. /\ holds \in [Paths -> Content \cup Marks]
        /\ writing \in [Paths -> SUBSET ((Jobs \cup Requests \cup {None}) \X Content)]
    BY <1>1, ContentsAre DEF Init, Marks
  <2>2. /\ todo \in [Jobs -> Steps] /\ rasters \in [Jobs -> Seq(Paths \cup {None})]
    BY <1>1, EmptySeq DEF Init, Steps
  <2>3. Idle \in Request
    BY DEF Idle, Request
  <2>4. req \in [Requests -> Request]
    BY <1>1, <2>3 DEF Init
  <2>5. /\ at \in [Jobs -> Places] /\ path \in [Jobs -> Paths \cup {None}]
        /\ pair \in [Jobs -> Pairs \cup {NoPair}]
    BY <1>1 DEF Init, Places
  <2> QED BY <1>1, <2>1, <2>2, <2>4, <2>5 DEF Init, TypeOK
<1>3. ASSUME NEW j \in Jobs PROVE JobInv(j) /\ TilesKept(j) /\ MapKept(j) /\ PagesKept(j)
  <2>1. /\ at[j] = "none" /\ pair[j] = NoPair /\ rasters[j] = <<>> /\ path[j] = None
    BY <1>1 DEF Init
  <2>2. JobInv(j)
    BY <2>1, EmptyRange DEF JobInv, Tiling, Comparing
  <2>3. TilesKept(j) /\ MapKept(j)
    BY <2>1, EmptyRange DEF TilesKept, MapKept, Tiling, Inferring
  <2>4. PagesKept(j)
    <3>1. ASSUME NEW kind \in {"map", "report map", "report"} PROVE Untouched(Rendered(kind, j))
      <4>1. Rendered(kind, j) \in Paths /\ Rendered(kind, j)[1] # "cog"
        BY PathsAre DEF Rendered
      <4> QED BY <1>1, <4>1 DEF Init, Untouched
    <3> QED BY <2>1, <3>1 DEF PagesKept
  <2> QED BY <2>2, <2>3, <2>4
<1>4. WritersKnown /\ DamageNeedsSharing
  BY <1>1 DEF Init, WritersKnown, DamageNeedsSharing
<1>5. ImagesKept
  <2>1. ASSUME NEW i \in Images PROVE Cog(i) \in Paths /\ Cog(i)[1] = "cog"
    BY PathsAre DEF Cog
  <2> QED BY <1>1, <2>1 DEF Init, ImagesKept
<1>6. ThumbnailsKept
  <2>1. ASSUME NEW i \in Images PROVE Settled(Rendered("thumbnail", i), Pixels)
    <3>1. Rendered("thumbnail", i) \in Paths /\ Rendered("thumbnail", i)[1] # "cog"
      BY PathsAre DEF Rendered
    <3>2. holds[Rendered("thumbnail", i)] = Absent /\ writing[Rendered("thumbnail", i)] = {}
      BY <1>1, <3>1 DEF Init
    <3> QED BY <3>2, MarksAssumption DEF Settled
  <2> QED BY <2>1 DEF ThumbnailsKept
<1>7. ASSUME NEW r \in Requests PROVE RequestInv(r)
  <2>1. req[r].at = "idle" /\ req[r].kind = "none"
    BY <1>1 DEF Init, Idle
  <2> QED BY <2>1 DEF RequestInv
<1> QED BY <1>2, <1>3, <1>4, <1>5, <1>6, <1>7 DEF IInv

LEMMA NextKeeps == IInv /\ [Next]_vars => IInv'
<1> SUFFICES ASSUME IInv, [Next]_vars
             PROVE  IInv'
  OBVIOUS
<1>1. ASSUME NEW i \in Viewed, PrepareAgain(i) \/ Prepared(i) PROVE IInv'
  BY <1>1, PrepareAgainKeeps, PreparedKeeps
<1>2. ASSUME NEW j \in Jobs,
             \/ Submit(j) \/ OpenTile(j) \/ TilingFails(j) \/ CloseTile(j)
             \/ RecordTile(j) \/ RecordingFails(j)
      PROVE  IInv'
  BY <1>2, SubmitKeeps, OpenTileKeeps, TilingFailsKeeps, CloseTileKeeps, RecordTileKeeps,
     RecordingFailsKeeps
<1>3. ASSUME NEW j \in Jobs,
             \/ EnterGate(j) \/ Cancel(j) \/ Compare(j) \/ OpenRaster(j) \/ NoRaster(j)
             \/ CloseRaster(j) \/ FinishWithRaster(j) \/ OpenMosaic(j) \/ FinishWithout(j)
             \/ CloseMosaic(j)
      PROVE  IInv'
  BY <1>3, EnterGateKeeps, CancelKeeps, CompareKeeps, OpenRasterKeeps, NoRasterKeeps,
     CloseRasterKeeps, FinishWithRasterKeeps, OpenMosaicKeeps, FinishWithoutKeeps, CloseMosaicKeeps
<1>4. ASSUME NEW r \in Requests, GetMap(r) PROVE IInv'
  <2>1. PICK j \in Jobs : at[j] = "done" /\ path[j] # None /\ Asks(r, "map", j)
    BY <1>4 DEF GetMap
  <2> QED BY <2>1, AsksKeeps
<1>5. ASSUME NEW r \in Requests, GetReport(r) PROVE IInv'
  <2>1. PICK j \in Jobs : at[j] = "done" /\ Asks(r, "report", j)
    BY <1>5 DEF GetReport
  <2> QED BY <2>1, AsksKeeps
<1>6. ASSUME NEW r \in Requests, GetThumbnail(r) PROVE IInv'
  <2>1. PICK i \in Images : Asks(r, "thumbnail", i)
    BY <1>6, ViewedAssumption DEF GetThumbnail
  <2> QED BY <2>1, AsksKeeps
<1>7. ASSUME NEW r \in Requests,
             RenderReportMap(r) \/ WriteReportMap(r) \/ Render(r) \/ Write(r) \/ Serve(r)
      PROVE  IInv'
  BY <1>7, RenderReportMapKeeps, WriteReportMapKeeps, RenderKeeps, WriteKeeps, ServeKeeps
<1>8. CASE Crash
  BY <1>8, CrashKeeps
<1>9. CASE UNCHANGED vars
  <2>1. UNCHANGED <<holds, writing, begun, pair, at, todo, rasters, damaged, cancelled, path, req,
                    again, crashed>>
    BY <1>9 DEF vars, fileVars, jobVars, reqVars
  <2>2. TypeOK' /\ WritersKnown' /\ ImagesKept' /\ ThumbnailsKept' /\ DamageNeedsSharing'
    <3>1. TypeOK'
      BY <2>1 DEF IInv, TypeOK
    <3>2. WritersKnown'
      <4>1. \A j \in Jobs : \A q, h : JobWrites(j, q, h)' = JobWrites(j, q, h)
        BY <2>1 DEF JobWrites, RasterOf, Own
      <4> QED BY <2>1, <4>1 DEF IInv, WritersKnown
    <3>3. ImagesKept' /\ ThumbnailsKept'
      BY <2>1 DEF IInv, ImagesKept, ThumbnailsKept, Settled
    <3>4. DamageNeedsSharing'
      BY <2>1 DEF IInv, DamageNeedsSharing, ImagesOf
    <3> QED BY <3>1, <3>2, <3>3, <3>4
  <2>3. \A j \in Jobs : LocalsSame(j) /\ Shared(j)' = Shared(j) /\ Overwritten(j)' = Overwritten(j)
    BY <2>1 DEF LocalsSame, Shared, ImagesOf, Overwritten
  <2>4. \A q : FileSame(q)
    BY <2>1 DEF FileSame
  <2>5. \A j \in Jobs : JobInv(j)' /\ TilesKept(j)' /\ MapKept(j)' /\ PagesKept(j)'
    BY <2>1, <2>3, <2>4, JobKept, PagesSame DEF IInv
  <2>6. \A r \in Requests : RequestInv(r)'
    BY <2>1 DEF IInv, RequestInv, Target, ReportMap
  <2> QED BY <2>2, <2>5, <2>6 DEF IInv
<1> QED BY <1>1, <1>2, <1>3, <1>4, <1>5, <1>6, <1>7, <1>8, <1>9 DEF Next

(* Every reachable state satisfies the invariant.                          *)
THEOREM InvariantHolds == Spec => []IInv
BY InitHolds, NextKeeps, PTL DEF Spec

(* A job loses a tile or a pair of tiles, or reads a file half written,    *)
(* only if another job has one of its images, or one was uploaded again    *)
(* (tiling.py:164, cog.py:132).                                            *)
THEOREM DamageTraced == Spec => []DamageNeedsSharing
<1>1. IInv => DamageNeedsSharing
  BY DEF IInv
<1> QED BY <1>1, InvariantHolds, PTL

(* The change map of a job that no other overwrites shows its own          *)
(* comparison until the process ends (deterministic_change.py:197,         *)
(* stitching.py:383).                                                      *)
THEOREM MapStaysOwn == Spec => []MapIsOwn
<1>1. IInv => MapIsOwn
  BY DEF IInv, MapKept, MapIsOwn
<1> QED BY <1>1, InvariantHolds, PTL

(* So does what is served as its map or its report, unless the very file   *)
(* is being written (main.py:430, 572).                                    *)
THEOREM ServedMapStaysOwn == Spec => []ServedMapIsOwn
<1>1. ASSUME IInv PROVE ServedMapIsOwn
  <2>1. SUFFICES ASSUME NEW r \in Requests, req[r].at = "serve", req[r].kind # "thumbnail",
                        ~Overwritten(req[r].key), writing[Target(r)] = {}
                 PROVE  holds[Target(r)] = IF path[req[r].key] = None THEN Pixels ELSE Own(req[r].key)
    BY DEF ServedMapIsOwn
  <2>2. PICK j \in Jobs : j = req[r].key /\ at[j] = "done"
    BY <1>1, <2>1, RequestHasPage
  <2>3. PagesKept(j) /\ RequestInv(r) /\ req[r].kind \in {"map", "report"}
    BY <1>1, <2>1, RequestHasPage DEF IInv
  <2>4. holds[Target(r)] # Absent
    BY <2>1, <2>3 DEF RequestInv
  <2>5. CASE req[r].kind = "map"
    <3>1. Settled(Target(r), Own(j)) /\ path[j] # None
      BY <1>1, <2>1, <2>2, <2>3, <2>5, RequestHasPage DEF PagesKept, Target
    <3> QED BY <2>1, <2>2, <2>4, <3>1 DEF Settled
  <2>6. CASE req[r].kind = "report"
    <3>1. Settled(Target(r), Expected(j))
      BY <2>1, <2>2, <2>3, <2>6 DEF PagesKept, Target
    <3> QED BY <2>1, <2>2, <2>4, <3>1 DEF Settled, Expected
  <2> QED BY <2>3, <2>5, <2>6
<1> QED BY <1>1, InvariantHolds, PTL

(* A thumbnail that is served is whole, unless another request is writing  *)
(* it, the process died, or the image was uploaded again                   *)
(* (thumbnail.py:39).                                                      *)
THEOREM ThumbnailStaysWhole == Spec => []ThumbnailWhole
<1>1. ASSUME IInv PROVE ThumbnailWhole
  <2>1. SUFFICES ASSUME NEW r \in Requests, req[r].at = "serve", req[r].kind = "thumbnail",
                        writing[Target(r)] = {}, ~crashed, req[r].key \notin again
                 PROVE  Whole(Target(r))
    BY DEF ThumbnailWhole
  <2>2. req[r].key \in Images /\ RequestInv(r)
    BY <1>1, <2>1, RequestHasPage DEF IInv
  <2>3. Settled(Target(r), Pixels) /\ holds[Target(r)] # Absent
    BY <1>1, <2>1, <2>2 DEF IInv, ThumbnailsKept, RequestInv, Target
  <2>4. holds[Target(r)] = Pixels
    BY <2>1, <2>3 DEF Settled
  <2> QED BY <2>4, ContentsAre DEF Whole, Marks
<1> QED BY <1>1, InvariantHolds, PTL
=============================================================================
