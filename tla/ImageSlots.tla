----------------------------- MODULE ImageSlots -----------------------------
(***************************************************************************)
(* The Images panel of frontend/index.html: createSlot, removeSlot,        *)
(* handleFileSelected and useProjectFileInQuery. state.slots is keyed by   *)
(* a slot id that New analysis uses again, while a handler that awaits     *)
(* its upload, or its thumbnail, holds on to the id and to the element of  *)
(* the page it was started from. What the panel does to the Analyze button *)
(* is JobPage's Edit.                                                      *)
(***************************************************************************)
EXTENDS Integers, Sequences, FiniteSets, SequencesExt

CONSTANTS
  Images,       \* what the user may upload, or take from a project
  Renderable,   \* those the browser draws itself; the others wait for a thumbnail
  NoImage,
  MaxElements,  \* bound on the slots ever drawn
  MaxInFlight   \* bound on the uploads and thumbnails under way at once

ASSUME RenderableAssumption == Renderable \subseteq Images
ASSUME MaxElementsAssumption == MaxElements \in Nat \ {0}

VARIABLES
  order,     \* state.slotOrder
  counter,   \* slotCounter
  made,      \* elements drawn so far: the identity of the last one
  element,   \* element[s]: the element drawn for slot s
  meta,      \* state.slots[s].meta: the image a query would name
  picture,   \* state.slots[s].previewUrl: what results are drawn upon
  preview,   \* what the slot's element shows or names
  uploads, thumbs,   \* requests under way, with the slot and element they are for
  disturbed  \* slots given another use while a request for them was under way

vars == <<order, counter, made, element, meta, picture, preview, uploads, thumbs,
          disturbed>>

Ids == 1..MaxElements

Init ==
  /\ order = <<1>> /\ counter = 1 /\ made = 1
  /\ element = [s \in Ids |-> IF s = 1 THEN 1 ELSE 0]
  /\ meta = [s \in Ids |-> NoImage]
  /\ picture = [s \in Ids |-> NoImage]
  /\ preview = [s \in Ids |-> NoImage]
  /\ uploads = {} /\ thumbs = {} /\ disturbed = {}

UnderWay == uploads \cup thumbs
Awaited == {r.slot : r \in UnderWay}

HasRoom == Len(order) < 2 /\ made < MaxElements

(* createSlot. *)
Draw(s) ==
  /\ made' = made + 1
  /\ element' = [element EXCEPT ![s] = made + 1]
  /\ preview' = [preview EXCEPT ![s] = NoImage]

Empty(s) ==
  /\ meta' = [meta EXCEPT ![s] = NoImage]
  /\ picture' = [picture EXCEPT ![s] = NoImage]

AddSlot ==
  /\ HasRoom
  /\ order' = Append(order, counter + 1)
  /\ counter' = counter + 1
  /\ Draw(counter + 1)
  /\ Empty(counter + 1)
  /\ UNCHANGED <<uploads, thumbs, disturbed>>

(* Only a slot drawn as the second one has a button to remove it. *)
RemoveSlot ==
  /\ Len(order) = 2
  /\ order' = <<order[1]>>
  /\ element' = [element EXCEPT ![order[2]] = 0]
  /\ preview' = [preview EXCEPT ![order[2]] = NoImage]
  /\ Empty(order[2])
  /\ UNCHANGED <<counter, made, uploads, thumbs, disturbed>>

(* resetImagesAndQueryUI: one empty slot, whose id is 1 again. Requests    *)
(* under way are not aborted.                                              *)
ClearSlots ==
  /\ made < MaxElements
  /\ order' = <<1>> /\ counter' = 1 /\ made' = made + 1
  /\ element' = [s \in Ids |-> IF s = 1 THEN made + 1 ELSE 0]
  /\ meta' = [s \in Ids |-> NoImage]
  /\ picture' = [s \in Ids |-> NoImage]
  /\ preview' = [s \in Ids |-> NoImage]
  /\ disturbed' = Awaited
  /\ UNCHANGED <<uploads, thumbs>>

Disturb(s) == disturbed' = disturbed \cup ({s} \cap Awaited)

ChooseFile(s, image) ==
  LET request == [slot |-> s, element |-> element[s], image |-> image] IN
  /\ Contains(order, s)
  /\ Cardinality(UnderWay) < MaxInFlight
  /\ request \notin uploads
  /\ uploads' = uploads \cup {request}
  /\ Disturb(s)
  /\ UNCHANGED <<order, counter, made, element, meta, picture, preview, thumbs>>

(* The element a request was started from is written to, shown or not. *)
Show(r, image) ==
  preview' = [preview EXCEPT ![r.slot] = IF element[r.slot] = r.element THEN image ELSE @]

(* Slip: a picture is replaced only by another. *)
UploadDoneKeepsPicture(r) ==
  LET drawn == IF r.image \in Renderable THEN r.image ELSE NoImage IN
  /\ r \in uploads
  /\ uploads' = uploads \ {r}
  /\ meta' = [meta EXCEPT ![r.slot] = r.image]
  /\ picture' = [picture EXCEPT ![r.slot] = IF drawn = NoImage THEN @ ELSE drawn]
  /\ Show(r, drawn)
  /\ thumbs' = IF r.image \in Renderable THEN thumbs ELSE thumbs \cup {r}
  /\ UNCHANGED <<order, counter, made, element, disturbed>>

(* The upload was accepted: its slot id gets the image, whatever slot has  *)
(* the id now.                                                             *)
UploadDone(r) ==
  LET drawn == IF r.image \in Renderable THEN r.image ELSE NoImage IN
  /\ r \in uploads
  /\ uploads' = uploads \ {r}
  /\ meta' = [meta EXCEPT ![r.slot] = r.image]
  /\ picture' = [picture EXCEPT ![r.slot] = drawn]
  /\ Show(r, drawn)
  /\ thumbs' = IF r.image \in Renderable THEN thumbs ELSE thumbs \cup {r}
  /\ UNCHANGED <<order, counter, made, element, disturbed>>

UploadFailed(r) ==
  /\ r \in uploads
  /\ uploads' = uploads \ {r}
  /\ UNCHANGED <<order, counter, made, element, meta, picture, preview, thumbs, disturbed>>

(* probe.onload: the thumbnail is shown, and becomes the picture of the    *)
(* slot id if state.slots has it.                                          *)
ThumbLoaded(r) ==
  /\ r \in thumbs
  /\ thumbs' = thumbs \ {r}
  /\ Show(r, r.image)
  /\ picture' = [picture EXCEPT
       ![r.slot] = IF Contains(order, r.slot) \/ meta[r.slot] # NoImage THEN r.image ELSE @]
  /\ UNCHANGED <<order, counter, made, element, meta, uploads, disturbed>>

(* probe.onerror: the file is named in the slot. *)
ThumbFailed(r) ==
  /\ r \in thumbs
  /\ thumbs' = thumbs \ {r}
  /\ Show(r, r.image)
  /\ UNCHANGED <<order, counter, made, element, meta, picture, uploads, disturbed>>

(* useProjectFileInQuery, with a slot to put the image in: the first empty *)
(* one, which may be waiting for an upload, or a new one.                  *)
EmptySlots == {i \in DOMAIN order : meta[order[i]] = NoImage}

PutProjectFile(image) ==
  /\ Cardinality(UnderWay) < MaxInFlight
  /\ \/ /\ EmptySlots # {}
        /\ LET s == order[CHOOSE i \in EmptySlots : \A k \in EmptySlots : i <= k]
               request == [slot |-> s, element |-> element[s], image |-> image]
           IN /\ meta' = [meta EXCEPT ![s] = image]
              /\ picture' = [picture EXCEPT ![s] = NoImage]
              /\ thumbs' = thumbs \cup {request}
              /\ Disturb(s)
        /\ UNCHANGED <<order, counter, made, element, preview>>
     \/ /\ EmptySlots = {} /\ HasRoom
        /\ LET s == counter + 1
               request == [slot |-> s, element |-> made + 1, image |-> image]
           IN /\ order' = Append(order, s)
              /\ counter' = s
              /\ Draw(s)
              /\ meta' = [meta EXCEPT ![s] = image]
              /\ picture' = [picture EXCEPT ![s] = NoImage]
              /\ thumbs' = thumbs \cup {request}
              /\ Disturb(s)
  /\ UNCHANGED uploads

Next ==
  \/ AddSlot \/ RemoveSlot \/ ClearSlots
  \/ \E s \in Ids, image \in Images : ChooseFile(s, image)
  \/ \E r \in uploads : UploadDone(r) \/ UploadFailed(r)
  \/ \E r \in thumbs : ThumbLoaded(r) \/ ThumbFailed(r)
  \/ \E image \in Images : PutProjectFile(image)

Spec == Init /\ [][Next]_vars

-----------------------------------------------------------------------------
(* A slot shows the image a query would name, and results are drawn upon   *)
(* that image, unless the slot was given another use while an upload or a  *)
(* thumbnail was under way for it (index.html:550, 564).                   *)
SlotsAgree ==
  \A i \in DOMAIN order :
    LET s == order[i] IN
    s \notin disturbed =>
      /\ picture[s] \in {NoImage, meta[s]}
      /\ preview[s] \in {NoImage, meta[s]}
      /\ meta[s] # NoImage /\ preview[s] = NoImage =>
           \E r \in thumbs : r.slot = s /\ r.element = element[s] /\ r.image = meta[s]
=============================================================================
