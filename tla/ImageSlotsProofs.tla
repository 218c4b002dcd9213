-------------------------- MODULE ImageSlotsProofs --------------------------
(***************************************************************************)
(* Proofs about ImageSlots, for every number of images, of slots drawn and *)
(* of requests under way: slot, picture and query agree on the image.      *)
(***************************************************************************)
EXTENDS ImageSlots, SequenceTheorems, TLAPS

Drawn == Images \cup {NoImage}
Request == [slot : Ids, element : Nat, image : Images]

Used(s) == \E i \in DOMAIN order : order[i] = s

TypeOK ==
  /\ counter \in Nat /\ made \in Nat /\ 1 <= counter /\ counter <= made /\ made <= MaxElements
  /\ element \in [Ids -> Nat]
  /\ meta \in [Ids -> Drawn] /\ picture \in [Ids -> Drawn] /\ preview \in [Ids -> Drawn]
  /\ uploads \subseteq Request /\ thumbs \subseteq Request

(* One slot or two, whose ids were given out.                              *)
OrderOK ==
  \E a \in 1..counter :
    \/ order = <<a>>
    \/ \E b \in 1..counter : a # b /\ order = <<a, b>>

Agrees(s) ==
  /\ picture[s] \in {NoImage, meta[s]}
  /\ preview[s] \in {NoImage, meta[s]}
  /\ meta[s] # NoImage /\ preview[s] = NoImage =>
       \E r \in thumbs : r.slot = s /\ r.element = element[s] /\ r.image = meta[s]

(* Nothing is awaited for an id that was not given out, and at most one    *)
(* request for one that was, by the element the slot is drawn as.          *)
SlotOK(s) ==
  /\ s > counter => \A r \in UnderWay : r.slot # s
  /\ \A r, q \in UnderWay : r.slot = s /\ q.slot = s => r = q
  /\ \A r \in uploads : r.slot = s => r \notin thumbs
  /\ Used(s) =>
       /\ \A r \in UnderWay : r.slot = s => r.element = element[s]
       /\ \A r \in thumbs : r.slot = s => r.image = meta[s]
       /\ Agrees(s)

IInv ==
  /\ TypeOK /\ OrderOK
  /\ \A s \in Ids : s \notin disturbed => SlotOK(s)

-----------------------------------------------------------------------------
LEMMA UsedSlots ==
  ASSUME TypeOK, OrderOK
  PROVE  /\ \A s : Used(s) => s \in Ids /\ s <= counter
         /\ \A s : Contains(order, s) <=> Used(s)
         /\ 1..counter \subseteq Ids
<1>1. MaxElements \in Nat /\ counter \in Nat /\ counter <= MaxElements
  BY MaxElementsAssumption DEF TypeOK
<1>2. 1..counter \subseteq Ids
  BY <1>1 DEF Ids
<1>3. PICK a \in 1..counter :
        \/ order = <<a>>
        \/ \E b \in 1..counter : a # b /\ order = <<a, b>>
  BY DEF OrderOK
<1>4. CASE order = <<a>>
  <2>1. \A s : (Used(s) <=> s = a) /\ (Contains(order, s) <=> s = a)
    BY <1>4 DEF Used, Contains
  <2> QED
    BY <1>1, <1>2, <2>1
<1>5. CASE \E b \in 1..counter : order = <<a, b>>
  <2>1. PICK b \in 1..counter : order = <<a, b>>
    BY <1>5
  <2>2. \A s : (Used(s) <=> s = a \/ s = b) /\ (Contains(order, s) <=> s = a \/ s = b)
    BY <2>1 DEF Used, Contains
  <2> QED
    BY <1>1, <1>2, <2>2
<1> QED
  BY <1>3, <1>4, <1>5

(* A step that leaves a slot, and the requests for it, alone; or the slot  *)
(* goes, and then what was in it does not matter.                          *)
LEMMA SlotKept ==
  ASSUME NEW s \in Ids, SlotOK(s), TypeOK, counter' \in Nat, counter <= counter',
         Used(s)' => /\ Used(s)
                     /\ element'[s] = element[s] /\ meta'[s] = meta[s]
                     /\ picture'[s] = picture[s] /\ preview'[s] = preview[s],
         \A r : r.slot = s => /\ r \in uploads' <=> r \in uploads
                              /\ r \in thumbs' <=> r \in thumbs
  PROVE  SlotOK(s)'
<1> DEFINE Mine(q) == {r \in q : r.slot = s}
<1>1. Mine(uploads') = Mine(uploads) /\ Mine(thumbs') = Mine(thumbs)
  OBVIOUS
<1>2. s \in Nat
  BY MaxElementsAssumption DEF Ids
<1> QED
  BY <1>1, <1>2 DEF SlotOK, Agrees, UnderWay, TypeOK

LEMMA AppendTwo ==
  ASSUME NEW x \in Nat, NEW y \in Nat PROVE Append(<<x>>, y) = <<x, y>>
<1> DEFINE r == Append(<<x>>, y)
<1>1. <<x>> \in Seq(Nat) /\ Len(<<x>>) = 1 /\ <<x>>[1] = x
  OBVIOUS
<1>2. r \in Seq(Nat) /\ Len(r) = 2 /\ r[1] = x /\ r[2] = y
  BY <1>1, AppendProperties
<1>3. <<x, y>> \in Seq(Nat) /\ Len(<<x, y>>) = 2 /\ <<x, y>>[1] = x /\ <<x, y>>[2] = y
  OBVIOUS
<1> HIDE DEF r
<1>4. \A i \in 1..Len(r) : r[i] = <<x, y>>[i]
  BY <1>2, <1>3
<1>5. r = <<x, y>>
  BY <1>2, <1>3, <1>4, SeqEqual
<1> QED
  BY <1>5 DEF r

LEMMA InitOK == Init => IInv
<1> SUFFICES ASSUME Init PROVE IInv
  OBVIOUS
<1>1. MaxElements \in Nat /\ MaxElements >= 1
  BY MaxElementsAssumption
<1>2. TypeOK
  BY <1>1 DEF Init, TypeOK, Ids, Drawn
<1>3. OrderOK
  BY DEF Init, OrderOK
<1>4. \A s \in Ids : SlotOK(s)
  BY <1>1 DEF Init, SlotOK, Agrees, UnderWay, Ids
<1> QED
  BY <1>2, <1>3, <1>4 DEF IInv

-----------------------------------------------------------------------------
(* The slots themselves.                                                   *)
LEMMA AddSlotOK ==
  ASSUME IInv, AddSlot PROVE IInv'
<1> DEFINE n == counter + 1
<1>1. /\ Len(order) < 2 /\ made < MaxElements /\ MaxElements \in Nat /\ n \in Ids
      /\ TypeOK /\ OrderOK /\ \A s \in Ids : s \notin disturbed => SlotOK(s)
  BY MaxElementsAssumption DEF AddSlot, HasRoom, IInv, TypeOK, Ids
<1>2. /\ counter' = n /\ made' = made + 1 /\ order' = Append(order, n)
      /\ element' = [element EXCEPT ![n] = made + 1]
      /\ meta' = [meta EXCEPT ![n] = NoImage] /\ picture' = [picture EXCEPT ![n] = NoImage]
      /\ preview' = [preview EXCEPT ![n] = NoImage]
      /\ UNCHANGED <<uploads, thumbs, disturbed>>
  BY DEF AddSlot, Draw, Empty
<1>3. PICK a \in 1..counter : order = <<a>>
  BY <1>1 DEF OrderOK
<1>4. order' = <<a, n>>
  <2>1. order' = Append(<<a>>, n) /\ a \in Nat /\ n \in Nat
    BY <1>1, <1>2, <1>3 DEF TypeOK
  <2> QED
    BY <2>1, AppendTwo
<1>5. TypeOK'
  <2>1. /\ counter' \in Nat /\ made' \in Nat /\ 1 <= counter' /\ counter' <= made'
        /\ made' <= MaxElements
    BY <1>1, <1>2 DEF TypeOK
  <2>2. /\ element' \in [Ids -> Nat] /\ meta' \in [Ids -> Drawn]
        /\ picture' \in [Ids -> Drawn] /\ preview' \in [Ids -> Drawn]
    BY <1>1, <1>2 DEF TypeOK, Drawn
  <2> QED
    BY <1>1, <1>2, <2>1, <2>2 DEF TypeOK
<1>6. OrderOK'
  <2>1. a \in 1..n /\ n \in 1..n /\ a # n
    BY <1>1 DEF TypeOK
  <2> HIDE DEF n
  <2> QED
    BY <1>2, <1>4, <2>1 DEF OrderOK
<1>8. counter' \in Nat /\ counter <= counter'
  BY <1>1, <1>2 DEF TypeOK
<1> HIDE DEF n
<1>7. ASSUME NEW s \in Ids, s \notin disturbed PROVE SlotOK(s)'
  <2>1. CASE s = n
    <3>1. /\ \A r \in UnderWay : r.slot # s
          /\ uploads' = uploads /\ thumbs' = thumbs
      BY <1>1, <1>2, <1>7, <2>1 DEF SlotOK, TypeOK, n
    <3>2. meta'[s] = NoImage /\ picture'[s] = NoImage /\ preview'[s] = NoImage
      BY <1>1, <1>2, <2>1 DEF TypeOK
    <3> QED
      BY <3>1, <3>2 DEF SlotOK, Agrees, UnderWay
  <2>2. CASE s # n
    <3>1. Used(s)' => Used(s)
      BY <1>3, <1>4, <2>2 DEF Used
    <3>2. /\ element'[s] = element[s] /\ meta'[s] = meta[s]
          /\ picture'[s] = picture[s] /\ preview'[s] = preview[s]
      BY <1>1, <1>2, <2>2 DEF TypeOK
    <3> QED
      BY <1>1, <1>2, <1>7, <1>8, <3>1, <3>2, SlotKept
  <2> QED
    BY <2>1, <2>2
<1> QED
  BY <1>2, <1>5, <1>6, <1>7 DEF IInv

LEMMA RemoveSlotOK ==
  ASSUME IInv, RemoveSlot PROVE IInv'
<1>1. /\ TypeOK /\ OrderOK /\ \A s \in Ids : s \notin disturbed => SlotOK(s)
  BY DEF IInv
<1>2. PICK a \in 1..counter, b \in 1..counter : a # b /\ order = <<a, b>>
  BY <1>1 DEF OrderOK, RemoveSlot
<1>3. /\ order' = <<a>> /\ element' = [element EXCEPT ![b] = 0]
      /\ preview' = [preview EXCEPT ![b] = NoImage]
      /\ meta' = [meta EXCEPT ![b] = NoImage] /\ picture' = [picture EXCEPT ![b] = NoImage]
      /\ UNCHANGED <<counter, made, uploads, thumbs, disturbed>>
  BY <1>2 DEF RemoveSlot, Empty
<1>4. TypeOK' /\ OrderOK'
  BY <1>1, <1>3 DEF TypeOK, OrderOK, Drawn
<1>5. ASSUME NEW s \in Ids, s \notin disturbed PROVE SlotOK(s)'
  <2>1. Used(s)' => s = a
    BY <1>3 DEF Used
  <2>2. Used(a)
    BY <1>2 DEF Used
  <2>3. /\ element'[a] = element[a] /\ meta'[a] = meta[a]
        /\ picture'[a] = picture[a] /\ preview'[a] = preview[a]
    BY <1>1, <1>2, <1>3, UsedSlots DEF TypeOK
  <2> QED
    BY <1>1, <1>3, <1>5, <2>1, <2>2, <2>3, SlotKept DEF TypeOK
<1> QED
  BY <1>3, <1>4, <1>5 DEF IInv

(* What is still under way disturbs the slot it is for; the others start   *)
(* with nothing.                                                           *)
LEMMA ClearSlotsOK ==
  ASSUME IInv, ClearSlots PROVE IInv'
<1>1. /\ TypeOK /\ MaxElements \in Nat /\ MaxElements >= 1
      /\ made < MaxElements
      /\ order' = <<1>> /\ counter' = 1 /\ made' = made + 1
      /\ element' = [s \in Ids |-> IF s = 1 THEN made + 1 ELSE 0]
      /\ meta' = [s \in Ids |-> NoImage] /\ picture' = [s \in Ids |-> NoImage]
      /\ preview' = [s \in Ids |-> NoImage]
      /\ disturbed' = Awaited /\ UNCHANGED <<uploads, thumbs>>
  BY MaxElementsAssumption DEF IInv, ClearSlots
<1>2. TypeOK' /\ OrderOK'
  BY <1>1 DEF TypeOK, OrderOK, Drawn
<1>3. ASSUME NEW s \in Ids, s \notin Awaited PROVE SlotOK(s)'
  <2>1. \A r \in UnderWay : r.slot # s
    BY <1>3 DEF Awaited
  <2> QED
    BY <1>1, <2>1 DEF SlotOK, Agrees, UnderWay
<1> QED
  BY <1>1, <1>2, <1>3 DEF IInv

-----------------------------------------------------------------------------
(* Requests. One that joins another disturbs their slot.                   *)
LEMMA ChooseFileOK ==
  ASSUME IInv, NEW s \in Ids, NEW image \in Images, ChooseFile(s, image) PROVE IInv'
<1> DEFINE q == [slot |-> s, element |-> element[s], image |-> image]
<1>1. /\ TypeOK /\ OrderOK /\ Contains(order, s)
      /\ uploads' = uploads \cup {q} /\ Disturb(s)
      /\ UNCHANGED <<order, counter, made, element, meta, picture, preview, thumbs>>
  BY DEF IInv, ChooseFile
<1>2. q \in Request /\ q.slot = s /\ q.element = element[s] /\ q.image = image
  BY <1>1 DEF Request, TypeOK
<1>3. Used(s) /\ s <= counter /\ s \in Nat /\ counter \in Nat
  BY <1>1, UsedSlots, MaxElementsAssumption DEF TypeOK, Ids
<1> HIDE DEF q
<1>4. TypeOK' /\ OrderOK'
  BY <1>1, <1>2 DEF TypeOK, OrderOK
<1>5. ASSUME NEW t \in Ids, t \notin disturbed' PROVE SlotOK(t)'
  <2>1. t \notin disturbed /\ SlotOK(t)
    BY <1>1, <1>5 DEF Disturb, IInv
  <2>2. CASE t = s
    <3>1. \A r \in UnderWay : r.slot # s
      BY <1>1, <1>5, <2>2 DEF Disturb, Awaited
    <3>2. Agrees(t)'
      BY <1>1, <1>3, <2>1, <2>2 DEF SlotOK, Agrees
    <3> QED
      BY <1>1, <1>2, <1>3, <2>2, <3>1, <3>2 DEF SlotOK, UnderWay
  <2>3. CASE t # s
    <3>1. \A r : r.slot = t => (r \in uploads' <=> r \in uploads)
      BY <1>1, <1>2, <2>3
    <3>2. Used(t)' => Used(t)
      BY <1>1 DEF Used
    <3> QED
      BY <1>1, <1>3, <2>1, <3>1, <3>2, SlotKept
  <2> QED
    BY <2>2, <2>3
<1> QED
  BY <1>4, <1>5 DEF IInv

(* A request that is over leaves the other slots alone.                    *)
LEMMA OthersKept ==
  ASSUME IInv, NEW r \in UnderWay, NEW t \in Ids, t \notin disturbed, t # r.slot,
         UNCHANGED <<order, counter, element>>,
         meta'[t] = meta[t], picture'[t] = picture[t], preview'[t] = preview[t],
         uploads' \cup {r} = uploads \cup {r}, thumbs' \cup {r} = thumbs \cup {r}
  PROVE  SlotOK(t)'
<1>1. \A q : q.slot = t => /\ q \in uploads' <=> q \in uploads
                           /\ q \in thumbs' <=> q \in thumbs
  OBVIOUS
<1>2. Used(t)' => Used(t)
  BY DEF Used
<1> QED
  BY <1>1, <1>2, SlotKept DEF IInv, TypeOK

LEMMA UploadDoneOK ==
  ASSUME IInv, NEW r \in uploads, UploadDone(r) PROVE IInv'
<1> DEFINE s == r.slot
           drawn == IF r.image \in Renderable THEN r.image ELSE NoImage
<1>1. /\ TypeOK /\ OrderOK /\ r \in Request /\ s \in Ids /\ r.image \in Images
      /\ drawn \in Drawn /\ r \in UnderWay
  BY DEF IInv, TypeOK, Request, Drawn, UnderWay
<1>2. /\ uploads' = uploads \ {r} /\ meta' = [meta EXCEPT ![s] = r.image]
      /\ picture' = [picture EXCEPT ![s] = drawn]
      /\ preview' = [preview EXCEPT ![s] = IF element[s] = r.element THEN drawn ELSE @]
      /\ thumbs' = IF r.image \in Renderable THEN thumbs ELSE thumbs \cup {r}
      /\ UNCHANGED <<order, counter, made, element, disturbed>>
  BY DEF UploadDone, Show
<1>3. TypeOK' /\ OrderOK'
  <2>1. uploads' \subseteq Request /\ thumbs' \subseteq Request
    BY <1>1, <1>2 DEF TypeOK
  <2>2. /\ meta' \in [Ids -> Drawn] /\ picture' \in [Ids -> Drawn] /\ preview' \in [Ids -> Drawn]
    BY <1>1, <1>2 DEF TypeOK, Drawn
  <2> QED
    BY <1>1, <1>2, <2>1, <2>2 DEF TypeOK, OrderOK
<1>4. ASSUME NEW t \in Ids, t \notin disturbed PROVE SlotOK(t)'
  <2>1. SlotOK(t)
    BY <1>4 DEF IInv
  <2>2. CASE t = s
    <3>1. /\ \A q \in UnderWay : q.slot = s => q = r
          /\ r \notin thumbs /\ ~(s > counter)
          /\ Used(s) => r.element = element[s]
      BY <1>1, <2>1, <2>2 DEF SlotOK
    <3>2. \A q \in UnderWay' : q.slot = s => q = r
      BY <1>2, <3>1 DEF UnderWay
    <3>3. \A q \in uploads' : q.slot # s
      BY <1>2, <3>1 DEF UnderWay
    <3>4. meta'[s] = r.image /\ picture'[s] = drawn
      BY <1>1, <1>2 DEF TypeOK
    <3>5. Used(s)' => /\ Used(s) /\ element'[s] = r.element
                      /\ preview'[s] = drawn
      BY <1>1, <1>2, <3>1 DEF Used, TypeOK
    <3>6. r.image \in Renderable \/ r \in thumbs'
      BY <1>2
    <3>7. Used(s)' => Agrees(s)'
      BY <3>4, <3>5, <3>6 DEF Agrees
    <3> QED
      BY <1>2, <2>2, <3>1, <3>2, <3>3, <3>4, <3>5, <3>7 DEF SlotOK, UnderWay
  <2>3. CASE t # s
    <3>1. meta'[t] = meta[t] /\ picture'[t] = picture[t] /\ preview'[t] = preview[t]
      BY <1>1, <1>2, <2>3 DEF TypeOK
    <3> QED
      BY <1>1, <1>2, <1>4, <2>3, <3>1, OthersKept
  <2> QED
    BY <2>2, <2>3
<1> QED
  BY <1>2, <1>3, <1>4 DEF IInv

LEMMA UploadFailedOK ==
  ASSUME IInv, NEW r \in uploads, UploadFailed(r) PROVE IInv'
<1>1. /\ TypeOK /\ OrderOK /\ r \in UnderWay /\ uploads' = uploads \ {r}
      /\ UNCHANGED <<order, counter, made, element, meta, picture, preview, thumbs, disturbed>>
  BY DEF IInv, UploadFailed, UnderWay
<1>2. TypeOK' /\ OrderOK'
  BY <1>1 DEF TypeOK, OrderOK
<1>3. ASSUME NEW t \in Ids, t \notin disturbed PROVE SlotOK(t)'
  <2>1. SlotOK(t) /\ (Used(t)' <=> Used(t)) /\ (Agrees(t)' <=> Agrees(t))
    BY <1>1, <1>3 DEF IInv, Used, Agrees
  <2> QED
    BY <1>1, <2>1 DEF SlotOK, UnderWay
<1> QED
  BY <1>1, <1>2, <1>3 DEF IInv

(* The thumbnail comes, or the file's name in its stead.                   *)
LEMMA ThumbOK ==
  ASSUME IInv, NEW r \in thumbs, ThumbLoaded(r) \/ ThumbFailed(r) PROVE IInv'
<1> DEFINE s == r.slot
<1>1. /\ TypeOK /\ OrderOK /\ r \in Request /\ s \in Ids /\ r.image \in Images
      /\ r \in UnderWay
  BY DEF IInv, TypeOK, Request, UnderWay
<1>2. /\ thumbs' = thumbs \ {r}
      /\ preview' = [preview EXCEPT ![s] = IF element[s] = r.element THEN r.image ELSE @]
      /\ \/ picture' = [picture EXCEPT ![s] = r.image]
         \/ picture' = picture
      /\ UNCHANGED <<order, counter, made, element, meta, uploads, disturbed>>
  <2>1. CASE ThumbLoaded(r)
    <3>1. picture' = [picture EXCEPT ![s] = r.image] \/ picture' = picture
      BY <1>1, <2>1 DEF ThumbLoaded, TypeOK
    <3> QED
      BY <2>1, <3>1 DEF ThumbLoaded, Show
  <2>2. CASE ThumbFailed(r)
    BY <2>2 DEF ThumbFailed, Show
  <2> QED
    BY <2>1, <2>2
<1>3. TypeOK' /\ OrderOK'
  <2>1. picture' \in [Ids -> Drawn] /\ preview' \in [Ids -> Drawn]
    BY <1>1, <1>2 DEF TypeOK, Drawn
  <2> QED
    BY <1>1, <1>2, <2>1 DEF TypeOK, OrderOK
<1>4. ASSUME NEW t \in Ids, t \notin disturbed PROVE SlotOK(t)'
  <2>1. SlotOK(t)
    BY <1>4 DEF IInv
  <2>2. CASE t = s
    <3>1. /\ \A q \in UnderWay : q.slot = s => q = r
          /\ r \notin uploads /\ ~(s > counter)
          /\ Used(s) => r.element = element[s] /\ r.image = meta[s] /\ Agrees(s)
      BY <1>1, <2>1, <2>2 DEF SlotOK
    <3>2. \A q \in UnderWay' : q.slot # s
      BY <1>2, <3>1 DEF UnderWay
    <3>3. Used(s)' => Used(s)
      BY <1>2 DEF Used
    <3>4. Used(s) => /\ preview'[s] = meta[s]
                     /\ picture'[s] \in {NoImage, meta[s]}
      BY <1>1, <1>2, <3>1 DEF TypeOK, Agrees
    <3>5. Used(s)' => Agrees(s)'
      BY <1>2, <3>3, <3>4 DEF Agrees
    <3> QED
      BY <1>2, <2>2, <3>1, <3>2, <3>5 DEF SlotOK, UnderWay
  <2>3. CASE t # s
    <3>1. meta'[t] = meta[t] /\ picture'[t] = picture[t] /\ preview'[t] = preview[t]
      BY <1>1, <1>2, <2>3 DEF TypeOK
    <3> QED
      BY <1>1, <1>2, <1>4, <2>3, <3>1, OthersKept
  <2> QED
    BY <2>2, <2>3
<1> QED
  BY <1>2, <1>3, <1>4 DEF IInv

(* A project's image, in an empty slot that may be waiting for an upload   *)
(* or in a new one.                                                        *)
LEMMA PutProjectFileOK ==
  ASSUME IInv, NEW image \in Images, PutProjectFile(image) PROVE IInv'
<1>1. /\ TypeOK /\ OrderOK /\ \A s \in Ids : s \notin disturbed => SlotOK(s)
  BY DEF IInv
<1>2. CASE EmptySlots # {}
  <2> DEFINE s == order[CHOOSE i \in EmptySlots : \A k \in EmptySlots : i <= k]
             q == [slot |-> s, element |-> element[s], image |-> image]
  <2>1. /\ meta' = [meta EXCEPT ![s] = image] /\ picture' = [picture EXCEPT ![s] = NoImage]
        /\ thumbs' = thumbs \cup {q} /\ Disturb(s)
        /\ UNCHANGED <<order, counter, made, element, preview, uploads>>
    BY <1>2 DEF PutProjectFile
  <2>2. (CHOOSE i \in EmptySlots : \A k \in EmptySlots : i <= k) \in EmptySlots
    <3>1. PICK i \in EmptySlots : \A k \in EmptySlots : i <= k
      <4>1. EmptySlots \subseteq {1, 2}
        BY <1>1 DEF EmptySlots, OrderOK
      <4>2. CASE 1 \in EmptySlots
        BY <4>1, <4>2
      <4>3. CASE 1 \notin EmptySlots
        <5>1. EmptySlots = {2}
          BY <1>2, <4>1, <4>3
        <5> QED
          BY <5>1
      <4> QED
        BY <4>2, <4>3
    <3> QED
      BY <3>1
  <2>3. Used(s) /\ meta[s] = NoImage
    BY <2>2 DEF EmptySlots, Used
  <2>4. s \in Ids /\ s <= counter /\ s \in Nat /\ counter \in Nat
    BY <1>1, <2>3, UsedSlots, MaxElementsAssumption DEF TypeOK, Ids
  <2>5. q \in Request /\ q.slot = s /\ q.element = element[s] /\ q.image = image
    BY <1>1, <2>4 DEF Request, TypeOK
  <2> HIDE DEF s, q
  <2>6. TypeOK' /\ OrderOK'
    <3>1. /\ meta' \in [Ids -> Drawn] /\ picture' \in [Ids -> Drawn] /\ thumbs' \subseteq Request
      BY <1>1, <2>1, <2>4, <2>5 DEF TypeOK, Drawn
    <3> QED
      BY <1>1, <2>1, <3>1 DEF TypeOK, OrderOK
  <2>7. ASSUME NEW t \in Ids, t \notin disturbed' PROVE SlotOK(t)'
    <3>1. t \notin disturbed /\ SlotOK(t)
      BY <1>1, <2>1, <2>7 DEF Disturb
    <3>2. CASE t = s
      <4>1. \A r \in UnderWay : r.slot # s
        BY <2>1, <2>7, <3>2 DEF Disturb, Awaited
      <4>2. meta'[t] = image /\ picture'[t] = NoImage /\ preview'[t] = NoImage
        BY <1>1, <2>1, <2>3, <2>4, <3>1, <3>2 DEF TypeOK, SlotOK, Agrees
      <4>3. Agrees(t)'
        BY <2>1, <2>5, <3>2, <4>2 DEF Agrees
      <4> QED
        BY <2>1, <2>4, <2>5, <3>2, <4>1, <4>2, <4>3 DEF SlotOK, UnderWay
    <3>3. CASE t # s
      <4>1. \A r : r.slot = t => (r \in thumbs' <=> r \in thumbs)
        BY <2>1, <2>5, <3>3
      <4>2. Used(t)' => Used(t)
        BY <2>1 DEF Used
      <4>3. meta'[t] = meta[t] /\ picture'[t] = picture[t]
        BY <1>1, <2>1, <2>4, <3>3 DEF TypeOK
      <4> QED
        BY <1>1, <2>1, <2>4, <3>1, <4>1, <4>2, <4>3, SlotKept
    <3> QED
      BY <3>2, <3>3
  <2> QED
    BY <2>6, <2>7 DEF IInv
<1>3. CASE EmptySlots = {} /\ HasRoom
  <2> DEFINE n == counter + 1
             q == [slot |-> n, element |-> made + 1, image |-> image]
  <2>1. /\ order' = Append(order, n) /\ counter' = n /\ made' = made + 1
        /\ element' = [element EXCEPT ![n] = made + 1]
        /\ preview' = [preview EXCEPT ![n] = NoImage]
        /\ meta' = [meta EXCEPT ![n] = image] /\ picture' = [picture EXCEPT ![n] = NoImage]
        /\ thumbs' = thumbs \cup {q} /\ Disturb(n) /\ UNCHANGED uploads
    BY <1>3 DEF PutProjectFile, Draw
  <2>2. /\ Len(order) < 2 /\ made < MaxElements /\ MaxElements \in Nat /\ n \in Ids
        /\ counter \in Nat /\ made \in Nat /\ 1 <= counter /\ counter <= made
    BY <1>1, <1>3, MaxElementsAssumption DEF HasRoom, TypeOK, Ids
  <2>3. PICK a \in 1..counter : order = <<a>>
    BY <1>1, <2>2 DEF OrderOK
  <2>4. order' = <<a, n>>
    <3>1. order' = Append(<<a>>, n) /\ a \in Nat /\ n \in Nat
      BY <2>1, <2>2, <2>3
    <3> QED
      BY <3>1, AppendTwo
  <2>5. q \in Request /\ q.slot = n /\ q.element = made + 1 /\ q.image = image
    BY <2>2 DEF Request
  <2>6. /\ counter' \in Nat /\ made' \in Nat /\ 1 <= counter' /\ counter' <= made'
        /\ made' <= MaxElements /\ counter <= counter' /\ made + 1 \in Nat
        /\ a \in 1..n /\ n \in 1..n /\ a # n
    BY <2>1, <2>2
  <2>7. n > counter /\ ~(n > n)
    BY <2>2
  <2> HIDE DEF n, q
  <2>8. TypeOK' /\ OrderOK'
    <3>1. /\ element' \in [Ids -> Nat] /\ meta' \in [Ids -> Drawn]
          /\ picture' \in [Ids -> Drawn] /\ preview' \in [Ids -> Drawn]
          /\ uploads' \subseteq Request /\ thumbs' \subseteq Request
      BY <1>1, <2>1, <2>2, <2>5, <2>6 DEF TypeOK, Drawn
    <3> QED
      BY <2>1, <2>4, <2>6, <3>1 DEF TypeOK, OrderOK
  <2>9. ASSUME NEW t \in Ids, t \notin disturbed' PROVE SlotOK(t)'
    <3>1. t \notin disturbed /\ SlotOK(t)
      BY <1>1, <2>1, <2>9 DEF Disturb
    <3>2. CASE t = n
      <4>1. \A r \in UnderWay : r.slot # n
        BY <2>7, <3>1, <3>2 DEF SlotOK
      <4>2. /\ meta'[t] = image /\ picture'[t] = NoImage /\ preview'[t] = NoImage
            /\ element'[t] = made + 1
        BY <1>1, <2>1, <2>2, <3>2 DEF TypeOK
      <4>3. Agrees(t)'
        BY <2>1, <2>5, <3>2, <4>2 DEF Agrees
      <4> QED
        BY <2>1, <2>5, <2>7, <3>2, <4>1, <4>2, <4>3 DEF SlotOK, UnderWay
    <3>3. CASE t # n
      <4>1. \A r : r.slot = t => (r \in thumbs' <=> r \in thumbs)
        BY <2>1, <2>5, <3>3
      <4>2. Used(t)' => Used(t)
        BY <2>3, <2>4, <3>3 DEF Used
      <4>3. /\ element'[t] = element[t] /\ meta'[t] = meta[t]
            /\ picture'[t] = picture[t] /\ preview'[t] = preview[t]
        BY <1>1, <2>1, <3>3 DEF TypeOK
      <4> QED
        BY <1>1, <2>1, <2>6, <3>1, <4>1, <4>2, <4>3, SlotKept
    <3> QED
      BY <3>2, <3>3
  <2> QED
    BY <2>8, <2>9 DEF IInv
<1> QED
  BY <1>2, <1>3 DEF PutProjectFile

LEMMA NextOK ==
  ASSUME IInv, [Next]_vars PROVE IInv'
<1>1. CASE AddSlot \/ RemoveSlot \/ ClearSlots
  BY <1>1, AddSlotOK, RemoveSlotOK, ClearSlotsOK
<1>2. CASE \E s \in Ids, image \in Images : ChooseFile(s, image)
  BY <1>2, ChooseFileOK
<1>3. CASE \E r \in uploads : UploadDone(r) \/ UploadFailed(r)
  BY <1>3, UploadDoneOK, UploadFailedOK
<1>4. CASE \E r \in thumbs : ThumbLoaded(r) \/ ThumbFailed(r)
  BY <1>4, ThumbOK
<1>5. CASE \E image \in Images : PutProjectFile(image)
  BY <1>5, PutProjectFileOK
<1>6. CASE UNCHANGED vars
  BY <1>6 DEF vars, IInv, TypeOK, OrderOK, SlotOK, Used, Agrees, UnderWay
<1> QED
  BY <1>1, <1>2, <1>3, <1>4, <1>5, <1>6 DEF Next

-----------------------------------------------------------------------------
(* The invariant: a request under way is the only one for its slot, and    *)
(* the slot still has the element it was started from, or the slot counts  *)
(* as disturbed.                                                           *)
THEOREM InvariantHolds == Spec => []IInv
<1>1. IInv /\ [Next]_vars => IInv'
  BY NextOK
<1> QED
  BY <1>1, InitOK, PTL DEF Spec

(* A slot shows the image a query would name, and results are drawn upon   *)
(* that image, unless the slot was given another use meanwhile             *)
(* (index.html:550, 564).                                                  *)
THEOREM SlotsSafe == Spec => []SlotsAgree
<1>1. IInv => SlotsAgree
  <2> SUFFICES ASSUME IInv, NEW i \in DOMAIN order, order[i] \notin disturbed
               PROVE  Agrees(order[i])
    BY DEF SlotsAgree, Agrees
  <2>1. Used(order[i])
    BY DEF Used
  <2> QED
    BY <2>1, UsedSlots DEF IInv, SlotOK
<1> QED
  BY <1>1, InvariantHolds, PTL
=============================================================================
