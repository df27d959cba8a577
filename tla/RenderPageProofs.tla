--------------------------- MODULE RenderPageProofs ---------------------------
(***************************************************************************)
(* What the render page shows and exports, for every set of geometries,    *)
(* fields and ranges and any number of changes and reloads.                *)
(***************************************************************************)
EXTENDS RenderPage, TLAPS

-----------------------------------------------------------------------------
(* What each function of the render page's script does to the page, and    *)
(* that it leaves a page: a lemma per function.                            *)

(* Messages to the provider and to the page.                               *)
HostMessage == [type : {"ready", "rerender", "overlay", "contours"}, seq : Nat, of : Requests]
RenderAnswer == [type : {"gridReady", "gridError"}, seq : Nat, of : Requests,
                 why : {"failed", "vacant", "refused", "drawn"}]
LayerAnswer == [type : {"overlayReady", "overlayError", "contourReady", "contourError"},
                seq : Nat, of : Requests]
PageMessage == RenderAnswer \cup LayerAnswer

Asks == SUBSET (Nat \X Requests)
Png == [picture : Requests, overlay : Geometries \cup {None}, contours : Requests \cup {None}]
Saved == [want : Requests, ticked : SUBSET Layers, kept : Kept \cup {None}]

Page ==
  [want : Requests, ticked : SUBSET Layers, saved : Saved,
   renderSeq : Nat, answeredSeq : Nat, asked : Asks,
   last : Requests \cup {None}, overPicture : BOOLEAN,
   mountAnswered : BOOLEAN, picture : Requests \cup {None},
   drawnRequest : Requests \cup {None}, pictureKept : BOOLEAN, failedOver : BOOLEAN,
   keptReady : KeptReady \cup {None},
   keptSaved : BOOLEAN, lastRenderFailed : BOOLEAN, drawnNoCells : BOOLEAN,
   refusal : Refusals \cup {None},
   overlay : Layer(Geometries), contours : Layer(Requests), exportWait : BOOLEAN,
   png : Png \cup {None},
   posted : Seq(HostMessage)]

(* What a function of the page leaves alone.                               *)
SameShown(p, q) ==
  /\ q.picture = p.picture /\ q.overlay = p.overlay /\ q.contours = p.contours
  /\ q.ticked = p.ticked
SameVerdict(p, q) ==
  /\ q.refusal = p.refusal /\ q.lastRenderFailed = p.lastRenderFailed
  /\ q.drawnNoCells = p.drawnNoCells
SameMarks(p, q) == q.pictureKept = p.pictureKept /\ q.failedOver = p.failedOver
SameCounts(p, q) ==
  /\ q.renderSeq = p.renderSeq /\ q.answeredSeq = p.answeredSeq /\ q.last = p.last
  /\ q.asked = p.asked /\ q.mountAnswered = p.mountAnswered
SameWaits(p, q) ==
  q.exportWait = p.exportWait /\ q.png = p.png /\ q.keptReady = p.keptReady

-----------------------------------------------------------------------------
(* Layers.                                                                 *)

LEMMA DroppedLayer ==
  ASSUME NEW Of, NEW l \in Layer(Of)
  PROVE  LET q == Dropped(l)
         IN /\ q \in Layer(Of)
            /\ q.seq = l.seq + 1 /\ q.asked = l.asked /\ q.key = None /\ q.runs = None
<1> DEFINE n == l.seq + 1
<1>1. n \in Nat
  BY DEF Layer
<1>2. Dropped(l) = [l EXCEPT !.seq = n, !.runs = None, !.key = None]
  BY DEF Dropped
<1> HIDE DEF n
<1>3. LET q == Dropped(l)
      IN q \in Layer(Of) /\ q.seq = n /\ q.asked = l.asked /\ q.key = None /\ q.runs = None
  BY <1>1, <1>2 DEF Layer
<1> QED BY <1>3 DEF n

LEMMA AskedLayer ==
  ASSUME NEW Of, NEW l \in Layer(Of), NEW key \in Of \cup {None}
  PROVE  LET q == Asked(l, key)
         IN /\ q \in Layer(Of)
            /\ q.seq = l.seq + 1 /\ q.asked = l.seq + 1 /\ q.key = key /\ q.runs = l.runs
            /\ Pending(q)
<1> DEFINE n == l.seq + 1
<1>1. n \in Nat /\ n # 0
  BY DEF Layer
<1>2. Asked(l, key) = [l EXCEPT !.seq = n, !.asked = n, !.key = key]
  BY DEF Asked
<1> HIDE DEF n
<1>3. LET q == Asked(l, key)
      IN q \in Layer(Of) /\ q.seq = n /\ q.asked = n /\ q.key = key /\ q.runs = l.runs
  BY <1>1, <1>2 DEF Layer
<1>4. Pending(Asked(l, key))
  BY <1>1, <1>3 DEF Pending
<1> QED BY <1>3, <1>4 DEF n

-----------------------------------------------------------------------------
(* What each function of the page does to it.                              *)

LEMMA PostEffect ==
  ASSUME NEW p \in Page, NEW m \in HostMessage
  PROVE  LET q == Post(p, m)
         IN /\ q \in Page /\ q.posted = Append(p.posted, m)
            /\ SameShown(p, q) /\ SameVerdict(p, q) /\ SameMarks(p, q) /\ SameCounts(p, q)
            /\ SameWaits(p, q) /\ q.want = p.want
<1>1. Append(p.posted, m) \in Seq(HostMessage)
  BY DEF Page
<1>2. Post(p, m) = [p EXCEPT !.posted = Append(p.posted, m)]
  BY DEF Post
<1> QED BY <1>1, <1>2 DEF Page, SameShown, SameVerdict, SameMarks, SameCounts, SameWaits

LEMMA SnapshotEffect ==
  ASSUME NEW p \in Page
  PROVE  LET q == SnapshotState(p)
         IN /\ q \in Page /\ q.posted = p.posted
            /\ SameShown(p, q) /\ SameVerdict(p, q) /\ SameMarks(p, q) /\ SameCounts(p, q)
            /\ SameWaits(p, q) /\ q.want = p.want
<1> DEFINE kept == IF KeptToSave(p) THEN [request |-> p.drawnRequest, refusal |-> p.refusal] ELSE None
           saved == [want |-> p.want, ticked |-> p.ticked, kept |-> kept]
           keptSaved == KeptToSave(p)
<1>1. keptSaved \in BOOLEAN /\ kept \in Kept \cup {None}
  BY DEF KeptToSave, Kept, Page
<1>2. SnapshotState(p) = [p EXCEPT !.keptSaved = keptSaved, !.saved = saved]
  BY DEF SnapshotState
<1> HIDE DEF kept, keptSaved
<1>3. saved \in Saved
  BY <1>1 DEF Saved, Page
<1> HIDE DEF saved
<1>4. SnapshotState(p) \in Page
  BY <1>1, <1>2, <1>3 DEF Page
<1>5. LET q == SnapshotState(p)
      IN /\ q.posted = p.posted /\ q.want = p.want
         /\ SameShown(p, q) /\ SameVerdict(p, q) /\ SameMarks(p, q)
         /\ SameCounts(p, q) /\ SameWaits(p, q)
  BY <1>2 DEF Page, SameShown, SameVerdict, SameMarks, SameCounts, SameWaits
<1> QED BY <1>4, <1>5

LEMMA NewAskEffect ==
  ASSUME NEW p \in Page, NEW r \in Requests, NEW type \in {"ready", "rerender"}
  PROVE  LET q == NewAsk(p, r, type)
         IN /\ q \in Page
            /\ q.posted = Append(p.posted, [type |-> type, seq |-> p.renderSeq + 1, of |-> r])
            /\ q.renderSeq = p.renderSeq + 1 /\ q.answeredSeq = p.answeredSeq /\ q.last = r
            /\ q.asked = p.asked \cup {<<p.renderSeq + 1, r>>} /\ q.mountAnswered = p.mountAnswered
            /\ SameShown(p, q) /\ SameVerdict(p, q) /\ SameMarks(p, q)
            /\ SameWaits(p, q) /\ q.want = p.want
<1> DEFINE n == p.renderSeq + 1
           asked == p.asked \cup {<<n, r>>}
           over == p.picture # None
           m == [type |-> type, seq |-> n, of |-> r]
           q == [p EXCEPT !.renderSeq = n, !.asked = asked, !.last = r, !.overPicture = over]
<1>1. n \in Nat /\ asked \in Asks /\ over \in BOOLEAN /\ m \in HostMessage
  BY DEF Page, HostMessage, Asks
<1>2. NewAsk(p, r, type) = Post(q, m)
  BY DEF NewAsk
<1> HIDE DEF n, asked, over, m
<1>3. q \in Page
  BY <1>1 DEF Page
<1>4. /\ q.posted = p.posted /\ q.want = p.want
      /\ q.renderSeq = n /\ q.answeredSeq = p.answeredSeq /\ q.last = r
      /\ q.asked = asked /\ q.mountAnswered = p.mountAnswered
  BY DEF Page
<1>5. SameShown(p, q) /\ SameVerdict(p, q) /\ SameMarks(p, q) /\ SameWaits(p, q)
  BY DEF Page, SameShown, SameVerdict, SameMarks, SameWaits
<1> HIDE DEF q
<1> DEFINE t == NewAsk(p, r, type)
<1>6. /\ t \in Page /\ t.posted = Append(q.posted, m) /\ t.want = q.want
      /\ SameShown(q, t) /\ SameVerdict(q, t) /\ SameMarks(q, t) /\ SameCounts(q, t)
      /\ SameWaits(q, t)
  BY <1>1, <1>2, <1>3, PostEffect
<1> HIDE DEF t
<1>7. SameShown(p, t) /\ SameVerdict(p, t) /\ SameMarks(p, t) /\ SameWaits(p, t)
  BY <1>5, <1>6 DEF SameShown, SameVerdict, SameMarks, SameWaits
<1>8. /\ t.posted = Append(p.posted, m) /\ t.want = p.want
      /\ t.renderSeq = n /\ t.answeredSeq = p.answeredSeq /\ t.last = r
      /\ t.asked = asked /\ t.mountAnswered = p.mountAnswered
  BY <1>4, <1>6 DEF SameCounts
<1> QED BY <1>6, <1>7, <1>8 DEF n, asked, m, t

LEMMA PostRerenderEffect ==
  ASSUME NEW p \in Page
  PROVE  LET q == PostRerender(p)
         IN /\ q \in Page
            /\ q.posted = Append(p.posted, [type |-> "rerender", seq |-> p.renderSeq + 1, of |-> p.want])
            /\ q.renderSeq = p.renderSeq + 1 /\ q.answeredSeq = p.answeredSeq /\ q.last = p.want
            /\ q.asked = p.asked \cup {<<p.renderSeq + 1, p.want>>}
            /\ q.mountAnswered = p.mountAnswered
            /\ SameShown(p, q) /\ SameVerdict(p, q) /\ SameMarks(p, q)
            /\ SameWaits(p, q) /\ q.want = p.want
<1> DEFINE a == NewAsk(p, p.want, "rerender")
           q == SnapshotState(a)
<1>1. p.want \in Requests
  BY DEF Page
<1>2. /\ a \in Page
      /\ a.posted = Append(p.posted, [type |-> "rerender", seq |-> p.renderSeq + 1, of |-> p.want])
      /\ a.renderSeq = p.renderSeq + 1 /\ a.answeredSeq = p.answeredSeq /\ a.last = p.want
      /\ a.asked = p.asked \cup {<<p.renderSeq + 1, p.want>>} /\ a.mountAnswered = p.mountAnswered
      /\ SameShown(p, a) /\ SameVerdict(p, a) /\ SameMarks(p, a)
      /\ SameWaits(p, a) /\ a.want = p.want
  BY <1>1, NewAskEffect
<1>3. q = PostRerender(p)
  BY DEF PostRerender
<1> HIDE DEF a
<1>4. /\ q \in Page /\ q.posted = a.posted
      /\ SameShown(a, q) /\ SameVerdict(a, q) /\ SameMarks(a, q) /\ SameCounts(a, q)
      /\ SameWaits(a, q) /\ q.want = a.want
  BY <1>2, SnapshotEffect
<1> HIDE DEF q
<1>5. SameShown(p, q) /\ SameVerdict(p, q) /\ SameMarks(p, q) /\ SameWaits(p, q)
  BY <1>2, <1>4 DEF SameShown, SameVerdict, SameMarks, SameWaits
<1>6. /\ q.posted = a.posted /\ q.want = p.want /\ q.renderSeq = a.renderSeq
      /\ q.answeredSeq = p.answeredSeq /\ q.last = p.want /\ q.asked = a.asked
      /\ q.mountAnswered = p.mountAnswered
  BY <1>2, <1>4 DEF SameCounts
<1> QED BY <1>2, <1>3, <1>4, <1>5, <1>6

LEMMA OverlayEffect ==
  ASSUME NEW p \in Page, p.picture # None
  PROVE  LET q == RequestOverlay(p)
         IN /\ q \in Page
            /\ q.picture = p.picture /\ q.contours = p.contours /\ q.ticked = p.ticked
            /\ q.overlay.seq = p.overlay.seq + 1 /\ q.overlay.key = p.picture.geometry
            /\ \/ /\ "overlay" \in p.ticked /\ q.overlay.runs = p.overlay.runs
                  /\ q.overlay.asked = p.overlay.seq + 1
                  /\ q.posted = Append(p.posted, [type |-> "overlay", seq |-> q.overlay.seq,
                                                  of |-> p.picture])
               \/ /\ "overlay" \notin p.ticked /\ q.overlay.runs = None
                  /\ q.overlay.asked = p.overlay.asked /\ q.posted = p.posted
            /\ SameVerdict(p, q) /\ SameMarks(p, q) /\ SameCounts(p, q) /\ SameWaits(p, q)
            /\ q.want = p.want
<1> DEFINE g == p.picture.geometry
           l == Asked(p.overlay, g)
           d == Dropped(p.overlay)
           k == [d EXCEPT !.key = g]
           m == [type |-> "overlay", seq |-> l.seq, of |-> p.picture]
           a == [p EXCEPT !.overlay = l]
           b == [p EXCEPT !.overlay = k]
<1>1. p.picture \in Requests /\ g \in Geometries /\ p.overlay \in Layer(Geometries)
  BY DEF Page, Requests
<1>2. /\ l \in Layer(Geometries) /\ l.seq = p.overlay.seq + 1 /\ l.asked = p.overlay.seq + 1
      /\ l.key = g /\ l.runs = p.overlay.runs
  BY <1>1, AskedLayer
<1>3. /\ d \in Layer(Geometries) /\ d.seq = p.overlay.seq + 1 /\ d.asked = p.overlay.asked
      /\ d.key = None /\ d.runs = None
  BY <1>1, DroppedLayer
<1>4. RequestOverlay(p) = IF "overlay" \in p.ticked THEN Post(a, m) ELSE b
  BY DEF RequestOverlay
<1> HIDE DEF d, g
<1>5. /\ k \in Layer(Geometries) /\ k.seq = p.overlay.seq + 1 /\ k.asked = p.overlay.asked
      /\ k.key = g /\ k.runs = None
  BY <1>1, <1>3 DEF Layer
<1> HIDE DEF l, k
<1>6. l.seq \in Nat
  BY <1>2 DEF Layer
<1>7. m \in HostMessage
  BY <1>1, <1>6 DEF HostMessage
<1>8. /\ a \in Page /\ a.overlay = l /\ a.posted = p.posted /\ a.picture = p.picture
      /\ a.contours = p.contours /\ a.ticked = p.ticked /\ a.want = p.want
      /\ SameVerdict(p, a) /\ SameMarks(p, a) /\ SameCounts(p, a) /\ SameWaits(p, a)
  BY <1>2 DEF Page, SameVerdict, SameMarks, SameCounts, SameWaits
<1>9. /\ b \in Page /\ b.overlay = k /\ b.posted = p.posted /\ b.picture = p.picture
      /\ b.contours = p.contours /\ b.ticked = p.ticked /\ b.want = p.want
      /\ SameVerdict(p, b) /\ SameMarks(p, b) /\ SameCounts(p, b) /\ SameWaits(p, b)
  BY <1>5 DEF Page, SameVerdict, SameMarks, SameCounts, SameWaits
<1> HIDE DEF a, b
<1>10. CASE "overlay" \in p.ticked
  <2> DEFINE q == Post(a, m)
  <2>1. /\ q \in Page /\ q.posted = Append(a.posted, m)
        /\ SameShown(a, q) /\ SameVerdict(a, q) /\ SameMarks(a, q) /\ SameCounts(a, q)
        /\ SameWaits(a, q) /\ q.want = a.want
    BY <1>7, <1>8, PostEffect
  <2>2. q = RequestOverlay(p)
    BY <1>4, <1>10
  <2> HIDE DEF q
  <2>3. SameVerdict(p, q) /\ SameMarks(p, q) /\ SameCounts(p, q) /\ SameWaits(p, q)
    BY <1>8, <2>1 DEF SameVerdict, SameMarks, SameCounts, SameWaits
  <2>4. /\ q.picture = p.picture /\ q.contours = p.contours /\ q.ticked = p.ticked
        /\ q.overlay = l /\ q.want = p.want /\ q.posted = Append(p.posted, m)
    BY <1>8, <2>1 DEF SameShown
  <2> QED BY <1>2, <1>10, <2>1, <2>2, <2>3, <2>4 DEF g
<1>11. CASE "overlay" \notin p.ticked
  <2>1. RequestOverlay(p) = b
    BY <1>4, <1>11
  <2> QED BY <1>5, <1>9, <1>11, <2>1 DEF g
<1> QED BY <1>10, <1>11

LEMMA ContoursEffect ==
  ASSUME NEW p \in Page
  PROVE  LET q == RequestContours(p)
             asks == p.picture # None /\ "contours" \in p.ticked /\ p.refusal = None
         IN /\ q \in Page
            /\ q.picture = p.picture /\ q.overlay = p.overlay /\ q.ticked = p.ticked
            /\ q.contours.seq = p.contours.seq + 1
            /\ \/ /\ asks /\ q.contours.key = p.picture /\ q.contours.runs = p.contours.runs
                  /\ q.contours.asked = p.contours.seq + 1
                  /\ q.posted = Append(p.posted, [type |-> "contours", seq |-> q.contours.seq,
                                                  of |-> p.picture])
               \/ /\ ~asks /\ q.contours.key = None /\ q.contours.runs = None
                  /\ q.contours.asked = p.contours.asked /\ q.posted = p.posted
            /\ SameVerdict(p, q) /\ SameMarks(p, q) /\ SameCounts(p, q) /\ SameWaits(p, q)
            /\ q.want = p.want
<1> DEFINE asks == p.picture # None /\ "contours" \in p.ticked /\ p.refusal = None
           l == Asked(p.contours, p.picture)
           d == Dropped(p.contours)
           m == [type |-> "contours", seq |-> l.seq, of |-> p.picture]
           a == [p EXCEPT !.contours = l]
           b == [p EXCEPT !.contours = d]
<1>1. p.contours \in Layer(Requests) /\ p.picture \in Requests \cup {None}
  BY DEF Page
<1>2. /\ l \in Layer(Requests) /\ l.seq = p.contours.seq + 1 /\ l.asked = p.contours.seq + 1
      /\ l.key = p.picture /\ l.runs = p.contours.runs
  BY <1>1, AskedLayer
<1>3. /\ d \in Layer(Requests) /\ d.seq = p.contours.seq + 1 /\ d.asked = p.contours.asked
      /\ d.key = None /\ d.runs = None
  BY <1>1, DroppedLayer
<1>4. RequestContours(p) = IF asks THEN Post(a, m) ELSE b
  BY DEF RequestContours, ContourKey
<1> HIDE DEF l, d
<1>5. l.seq \in Nat
  BY <1>2 DEF Layer
<1>6. /\ a \in Page /\ a.contours = l /\ a.posted = p.posted /\ a.picture = p.picture
      /\ a.overlay = p.overlay /\ a.ticked = p.ticked /\ a.want = p.want
      /\ SameVerdict(p, a) /\ SameMarks(p, a) /\ SameCounts(p, a) /\ SameWaits(p, a)
  BY <1>2 DEF Page, SameVerdict, SameMarks, SameCounts, SameWaits
<1>7. /\ b \in Page /\ b.contours = d /\ b.posted = p.posted /\ b.picture = p.picture
      /\ b.overlay = p.overlay /\ b.ticked = p.ticked /\ b.want = p.want
      /\ SameVerdict(p, b) /\ SameMarks(p, b) /\ SameCounts(p, b) /\ SameWaits(p, b)
  BY <1>3 DEF Page, SameVerdict, SameMarks, SameCounts, SameWaits
<1> HIDE DEF a, b
<1>8. CASE asks
  <2> DEFINE q == Post(a, m)
  <2>1. m \in HostMessage
    BY <1>1, <1>5, <1>8 DEF HostMessage
  <2> HIDE DEF m
  <2>2. /\ q \in Page /\ q.posted = Append(a.posted, m)
        /\ SameShown(a, q) /\ SameVerdict(a, q) /\ SameMarks(a, q) /\ SameCounts(a, q)
        /\ SameWaits(a, q) /\ q.want = a.want
    BY <1>6, <2>1, PostEffect
  <2>3. q = RequestContours(p)
    BY <1>4, <1>8
  <2> HIDE DEF q
  <2>4. SameVerdict(p, q) /\ SameMarks(p, q) /\ SameCounts(p, q) /\ SameWaits(p, q)
    BY <1>6, <2>2 DEF SameVerdict, SameMarks, SameCounts, SameWaits
  <2>5. /\ q.picture = p.picture /\ q.overlay = p.overlay /\ q.ticked = p.ticked
        /\ q.contours = l /\ q.want = p.want /\ q.posted = Append(p.posted, m)
    BY <1>6, <2>2 DEF SameShown
  <2> QED BY <1>2, <1>8, <2>2, <2>3, <2>4, <2>5 DEF m
<1>9. CASE ~asks
  <2>1. RequestContours(p) = b
    BY <1>4, <1>9
  <2> QED BY <1>3, <1>7, <1>9, <2>1
<1> QED BY <1>8, <1>9

LEMMA RefusalEffect ==
  ASSUME NEW p \in Page, NEW r \in Refusals \cup {None}
  PROVE  LET q == ShowRangeRefusal(p, r)
         IN /\ q \in Page /\ q.refusal = r /\ q.posted = p.posted
            /\ q.picture = p.picture /\ q.overlay = p.overlay /\ q.ticked = p.ticked
            /\ \/ r = None /\ q.contours = p.contours
               \/ r # None /\ q.contours = Dropped(p.contours)
            /\ q.lastRenderFailed = p.lastRenderFailed /\ q.drawnNoCells = p.drawnNoCells
            /\ SameMarks(p, q) /\ SameCounts(p, q) /\ SameWaits(p, q) /\ q.want = p.want
<1> DEFINE l == IF r = None THEN p.contours ELSE Dropped(p.contours)
<1>1. l \in Layer(Requests)
  BY DroppedLayer DEF Page
<1>2. ShowRangeRefusal(p, r) = [p EXCEPT !.refusal = r, !.contours = l]
  BY DEF ShowRangeRefusal
<1>3. (r = None => l = p.contours) /\ (r # None => l = Dropped(p.contours))
  OBVIOUS
<1> HIDE DEF l
<1>4. ShowRangeRefusal(p, r) \in Page
  BY <1>1, <1>2 DEF Page
<1>5. LET q == ShowRangeRefusal(p, r)
      IN /\ q.refusal = r /\ q.posted = p.posted
         /\ q.picture = p.picture /\ q.overlay = p.overlay /\ q.ticked = p.ticked
         /\ q.contours = l
         /\ q.lastRenderFailed = p.lastRenderFailed /\ q.drawnNoCells = p.drawnNoCells
         /\ SameMarks(p, q) /\ SameCounts(p, q) /\ SameWaits(p, q) /\ q.want = p.want
  BY <1>2 DEF Page, SameMarks, SameCounts, SameWaits
<1> QED BY <1>3, <1>4, <1>5

LEMMA TakeAskedEffect ==
  ASSUME NEW p \in Page, NEW m
  PROVE  LET q == TakeAsked(p, m)
         IN /\ q \in Page /\ q.posted = p.posted /\ q.asked \subseteq p.asked
            /\ q.renderSeq = p.renderSeq /\ q.answeredSeq = p.answeredSeq /\ q.last = p.last
            /\ q.mountAnswered = p.mountAnswered
            /\ SameShown(p, q) /\ SameVerdict(p, q) /\ SameMarks(p, q)
            /\ SameWaits(p, q) /\ q.want = p.want
<1> DEFINE asked == {a \in p.asked : a[1] # m.seq}
<1>1. asked \in Asks /\ asked \subseteq p.asked
  BY DEF Page, Asks
<1>2. TakeAsked(p, m) = [p EXCEPT !.asked = asked]
  BY DEF TakeAsked
<1> HIDE DEF asked
<1> QED BY <1>1, <1>2 DEF Page, SameShown, SameVerdict, SameMarks, SameWaits

LEMMA MarksEffect ==
  ASSUME NEW p \in Page, NEW kept \in BOOLEAN, NEW over \in BOOLEAN
  PROVE  LET q == [p EXCEPT !.pictureKept = kept, !.failedOver = over]
         IN /\ q \in Page /\ q.pictureKept = kept /\ q.failedOver = over /\ q.posted = p.posted
            /\ SameShown(p, q) /\ SameVerdict(p, q) /\ SameCounts(p, q) /\ SameWaits(p, q)
            /\ q.want = p.want
<1> DEFINE q == [p EXCEPT !.pictureKept = kept, !.failedOver = over]
<1>1. q \in Page
  BY DEF Page
<1>2. /\ q.pictureKept = kept /\ q.failedOver = over /\ q.posted = p.posted /\ q.want = p.want
      /\ SameShown(p, q) /\ SameVerdict(p, q) /\ SameCounts(p, q) /\ SameWaits(p, q)
  BY DEF Page, SameShown, SameVerdict, SameCounts, SameWaits
<1> QED BY <1>1, <1>2

LEMMA ClearEffect ==
  ASSUME NEW p \in Page
  PROVE  LET q == ClearDrawn(p)
         IN /\ q \in Page /\ q.posted = p.posted /\ q.picture = None /\ q.ticked = p.ticked
            /\ q.refusal = None /\ q.pictureKept = FALSE /\ q.failedOver = FALSE
            /\ q.overlay = Dropped(p.overlay) /\ q.contours = Dropped(p.contours)
            /\ q.lastRenderFailed = p.lastRenderFailed /\ q.drawnNoCells = p.drawnNoCells
            /\ SameCounts(p, q) /\ SameWaits(p, q) /\ q.want = p.want
<1> DEFINE a == ShowRangeRefusal(p, None)
           o == Dropped(p.overlay)
           c == Dropped(p.contours)
           e == [a EXCEPT !.picture = None, !.drawnRequest = None]
           b == [e EXCEPT !.pictureKept = FALSE, !.failedOver = FALSE]
           q == [b EXCEPT !.overlay = o, !.contours = c]
<1>1. /\ a \in Page /\ a.refusal = None /\ a.posted = p.posted
      /\ a.overlay = p.overlay /\ a.ticked = p.ticked /\ a.contours = p.contours
      /\ a.lastRenderFailed = p.lastRenderFailed /\ a.drawnNoCells = p.drawnNoCells
      /\ SameCounts(p, a) /\ SameWaits(p, a) /\ a.want = p.want
  BY RefusalEffect
<1>2. o \in Layer(Geometries) /\ c \in Layer(Requests)
  BY DroppedLayer DEF Page
<1>3. ClearDrawn(p) = q
  BY <1>1 DEF ClearDrawn
<1> HIDE DEF a, o, c
<1>4. /\ e \in Page /\ e.picture = None
      /\ e.refusal = a.refusal /\ e.posted = a.posted /\ e.ticked = a.ticked
      /\ e.lastRenderFailed = a.lastRenderFailed /\ e.drawnNoCells = a.drawnNoCells
      /\ SameCounts(a, e) /\ SameWaits(a, e) /\ e.want = a.want
  <2>0. a \in Page
    BY <1>1
  <2>1. e \in Page
    BY <2>0 DEF Page
  <2>2. /\ e.picture = None
        /\ e.refusal = a.refusal /\ e.posted = a.posted /\ e.ticked = a.ticked
        /\ e.lastRenderFailed = a.lastRenderFailed /\ e.drawnNoCells = a.drawnNoCells
        /\ SameCounts(a, e) /\ SameWaits(a, e) /\ e.want = a.want
    BY <1>1 DEF Page, SameCounts, SameWaits
  <2> QED BY <2>1, <2>2
<1> HIDE DEF e
<1>5. /\ b \in Page /\ b.picture = None /\ b.pictureKept = FALSE /\ b.failedOver = FALSE
      /\ b.refusal = e.refusal /\ b.posted = e.posted /\ b.ticked = e.ticked
      /\ b.lastRenderFailed = e.lastRenderFailed /\ b.drawnNoCells = e.drawnNoCells
      /\ SameCounts(e, b) /\ SameWaits(e, b) /\ b.want = e.want
  <2>1. /\ b \in Page /\ b.pictureKept = FALSE /\ b.failedOver = FALSE /\ b.posted = e.posted
        /\ SameShown(e, b) /\ SameVerdict(e, b) /\ SameCounts(e, b) /\ SameWaits(e, b)
        /\ b.want = e.want
    BY <1>4, MarksEffect
  <2> HIDE DEF b
  <2> QED BY <1>4, <2>1 DEF SameShown, SameVerdict
<1> HIDE DEF b
<1>6. /\ q \in Page /\ q.picture = None /\ q.pictureKept = FALSE
      /\ q.failedOver = FALSE /\ q.overlay = o /\ q.contours = c
      /\ q.refusal = b.refusal /\ q.posted = b.posted /\ q.ticked = b.ticked
      /\ q.lastRenderFailed = b.lastRenderFailed /\ q.drawnNoCells = b.drawnNoCells
      /\ SameCounts(b, q) /\ SameWaits(b, q) /\ q.want = b.want
  <2>0. b \in Page
    BY <1>5
  <2>1. q \in Page
    BY <1>2, <2>0 DEF Page
  <2>2. /\ q.picture = None /\ q.pictureKept = FALSE
        /\ q.failedOver = FALSE /\ q.overlay = o /\ q.contours = c
        /\ q.refusal = b.refusal /\ q.posted = b.posted /\ q.ticked = b.ticked
        /\ q.lastRenderFailed = b.lastRenderFailed /\ q.drawnNoCells = b.drawnNoCells
        /\ SameCounts(b, q) /\ SameWaits(b, q) /\ q.want = b.want
    BY <1>2, <1>5 DEF Page, SameCounts, SameWaits
  <2> QED BY <2>1, <2>2
<1> HIDE DEF q
<1>7. SameCounts(p, q) /\ SameWaits(p, q)
  BY <1>1, <1>4, <1>5, <1>6 DEF SameCounts, SameWaits
<1> QED BY <1>1, <1>3, <1>4, <1>5, <1>6, <1>7 DEF o, c

LEMMA UnmarkedEffect ==
  ASSUME NEW p \in Page
  PROVE  LET q == Unmarked(p)
         IN /\ q \in Page /\ q.posted = p.posted /\ q.pictureKept = FALSE /\ q.failedOver = FALSE
            /\ SameShown(p, q) /\ SameVerdict(p, q) /\ SameCounts(p, q) /\ SameWaits(p, q)
            /\ q.want = p.want
<1> DEFINE a == [p EXCEPT !.pictureKept = FALSE, !.failedOver = FALSE]
           q == Unmarked(p)
<1>1. /\ a \in Page /\ a.pictureKept = FALSE /\ a.failedOver = FALSE /\ a.posted = p.posted
      /\ SameShown(p, a) /\ SameVerdict(p, a) /\ SameCounts(p, a) /\ SameWaits(p, a)
      /\ a.want = p.want
  BY MarksEffect
<1>2. q = a \/ q = SnapshotState(a)
  BY DEF Unmarked
<1> HIDE DEF a, q
<1>3. /\ q \in Page /\ q.posted = a.posted /\ SameShown(a, q) /\ SameVerdict(a, q)
      /\ SameMarks(a, q) /\ SameCounts(a, q) /\ SameWaits(a, q) /\ q.want = a.want
  BY <1>1, <1>2, SnapshotEffect
     DEF SameShown, SameVerdict, SameMarks, SameCounts, SameWaits
<1>4. SameShown(p, q) /\ SameVerdict(p, q) /\ SameCounts(p, q) /\ SameWaits(p, q)
  BY <1>1, <1>3 DEF SameShown, SameVerdict, SameCounts, SameWaits
<1> QED BY <1>1, <1>3, <1>4 DEF q, SameMarks

LEMMA MarkedEffect ==
  ASSUME NEW p \in Page
  PROVE  LET q == Marked(p)
         IN /\ q \in Page /\ q.posted = p.posted /\ q.failedOver = (p.picture # None)
            /\ q.pictureKept => p.picture # None
            /\ SameShown(p, q) /\ SameVerdict(p, q) /\ SameCounts(p, q) /\ SameWaits(p, q)
            /\ q.want = p.want
<1>1. PICK kept \in BOOLEAN, over \in BOOLEAN :
        /\ kept = (p.picture # None /\ p.drawnRequest # None)
        /\ over = (p.picture # None)
  OBVIOUS
<1> DEFINE a == [p EXCEPT !.pictureKept = kept, !.failedOver = over]
           q == Marked(p)
<1>2. q = SnapshotState(a)
  BY <1>1 DEF Marked
<1> HIDE DEF q
<1>3. /\ a \in Page /\ a.pictureKept = kept /\ a.failedOver = over /\ a.posted = p.posted
      /\ SameShown(p, a) /\ SameVerdict(p, a) /\ SameCounts(p, a) /\ SameWaits(p, a)
      /\ a.want = p.want
  <2>1. kept \in BOOLEAN /\ over \in BOOLEAN
    BY <1>1
  <2>2. a \in Page
    BY <2>1 DEF Page
  <2>3. /\ a.pictureKept = kept /\ a.failedOver = over /\ a.posted = p.posted
        /\ SameShown(p, a) /\ SameVerdict(p, a) /\ SameCounts(p, a) /\ SameWaits(p, a)
        /\ a.want = p.want
    BY DEF Page, SameShown, SameVerdict, SameCounts, SameWaits
  <2> QED BY <2>2, <2>3
<1> HIDE DEF a
<1>4. /\ q \in Page /\ q.posted = a.posted /\ SameShown(a, q) /\ SameVerdict(a, q)
      /\ SameMarks(a, q) /\ SameCounts(a, q) /\ SameWaits(a, q) /\ q.want = a.want
  BY <1>2, <1>3, SnapshotEffect
<1>5. SameShown(p, q) /\ SameVerdict(p, q) /\ SameCounts(p, q) /\ SameWaits(p, q)
  BY <1>3, <1>4 DEF SameShown, SameVerdict, SameCounts, SameWaits
<1>6. q.failedOver = over /\ q.pictureKept = kept /\ q.posted = p.posted /\ q.want = p.want
  BY <1>3, <1>4 DEF SameMarks
<1> QED BY <1>1, <1>4, <1>5, <1>6 DEF q

LEMMA ExportEffect ==
  ASSUME NEW p \in Page
  PROVE  LET q == ExportPng(p)
         IN /\ q \in Page /\ q.posted = p.posted
            /\ SameShown(p, q) /\ SameVerdict(p, q) /\ SameMarks(p, q) /\ SameCounts(p, q)
            /\ q.want = p.want
            /\ \/ q.png = p.png
               \/ /\ ~Unsettled(p) /\ p.refusal = None /\ ~p.lastRenderFailed
                  /\ ~p.drawnNoCells /\ p.picture # None
                  /\ q.png = [picture |-> p.picture, overlay |-> p.overlay.runs,
                              contours |-> p.contours.runs]
<1> DEFINE fine == /\ p.refusal = None /\ ~p.lastRenderFailed /\ ~p.drawnNoCells
                   /\ p.picture # None
           png == [picture |-> p.picture, overlay |-> p.overlay.runs,
                   contours |-> p.contours.runs]
           a == [p EXCEPT !.exportWait = TRUE]
           b == [p EXCEPT !.png = png]
<1>1. ExportPng(p) = IF Unsettled(p) THEN a ELSE IF fine THEN b ELSE p
  BY DEF ExportPng
<1>2. fine => png \in Png
  BY DEF Page, Png, Layer
<1> HIDE DEF png
<1>3. a \in Page /\ (fine => b \in Page)
  <2>1. a \in Page
    BY DEF Page
  <2>2. ASSUME png \in Png PROVE b \in Page
    BY <2>2 DEF Page
  <2> QED BY <1>2, <2>1, <2>2
<1>4. /\ a.posted = p.posted /\ SameShown(p, a) /\ SameVerdict(p, a) /\ SameMarks(p, a)
      /\ SameCounts(p, a) /\ a.want = p.want /\ a.png = p.png
  BY DEF Page, SameShown, SameVerdict, SameMarks, SameCounts
<1>5. /\ b.posted = p.posted /\ SameShown(p, b) /\ SameVerdict(p, b) /\ SameMarks(p, b)
      /\ SameCounts(p, b) /\ b.want = p.want /\ b.png = png
  BY DEF Page, SameShown, SameVerdict, SameMarks, SameCounts
<1>6. SameShown(p, p) /\ SameVerdict(p, p) /\ SameMarks(p, p) /\ SameCounts(p, p)
  BY DEF SameShown, SameVerdict, SameMarks, SameCounts
<1> HIDE DEF a, b
<1>7. CASE Unsettled(p)
  BY <1>1, <1>3, <1>4, <1>7
<1>8. CASE ~Unsettled(p) /\ fine
  BY <1>1, <1>3, <1>5, <1>8 DEF png
<1>9. CASE ~Unsettled(p) /\ ~fine
  BY <1>1, <1>6, <1>9
<1> QED BY <1>7, <1>8, <1>9

LEMMA AskedRequestTyped ==
  ASSUME NEW p \in Page, NEW m
  PROVE  AskedRequest(p, m) \in Requests \cup {None}
<1>1. CASE \E a \in p.asked : a[1] = m.seq
  <2> DEFINE c == CHOOSE a \in p.asked : a[1] = m.seq
  <2>1. c \in p.asked
    BY <1>1
  <2>2. AskedRequest(p, m) = c[2]
    BY <1>1 DEF AskedRequest
  <2> HIDE DEF c
  <2>3. c \in Nat \X Requests
    BY <2>1 DEF Page, Asks
  <2> QED BY <2>2, <2>3
<1>2. CASE ~\E a \in p.asked : a[1] = m.seq
  BY <1>2 DEF AskedRequest
<1> QED BY <1>1, <1>2

LEMMA PictureTyped ==
  ASSUME NEW p \in Page, NEW x \in Requests, NEW y \in Requests \cup {None}
  PROVE  LET q == [p EXCEPT !.picture = x, !.drawnRequest = y]
         IN q \in Page /\ q.picture = x
<1> DEFINE q == [p EXCEPT !.picture = x, !.drawnRequest = y]
<1>1. q \in Page
  BY DEF Page
<1>2. q.picture = x
  BY DEF Page
<1> QED BY <1>1, <1>2

LEMMA AnsweredTyped ==
  ASSUME NEW p \in Page, NEW n \in Nat, NEW mounted \in BOOLEAN
  PROVE  [p EXCEPT !.mountAnswered = mounted, !.answeredSeq = n] \in Page
BY DEF Page

LEMMA AnswerCounted ==
  ASSUME NEW p \in Page, NEW n \in Nat
  PROVE  [p EXCEPT !.answeredSeq = n] \in Page
BY DEF Page

LEMMA VerdictTyped ==
  ASSUME NEW p \in Page, NEW failed \in BOOLEAN, NEW noCells \in BOOLEAN
  PROVE  [p EXCEPT !.lastRenderFailed = failed, !.drawnNoCells = noCells] \in Page
BY DEF Page

\* The answer to the last request counts every request as answered.
AnsweredSeq(m) == IF Latest(m) THEN page.renderSeq ELSE page.answeredSeq

LEMMA DrawnEffect ==
  ASSUME page \in Page, NEW m \in RenderAnswer
  PROVE  LET q == Drawn(page, m)
         IN /\ q \in Page /\ q.posted = page.posted
            /\ q.picture = m.of /\ q.overlay = page.overlay /\ q.contours = page.contours
            /\ q.ticked = page.ticked /\ q.refusal = None
            /\ q.lastRenderFailed = FALSE /\ q.drawnNoCells = FALSE
            /\ q.renderSeq = page.renderSeq /\ q.answeredSeq = AnsweredSeq(m)
            /\ q.last = page.last /\ q.mountAnswered = TRUE /\ q.asked \subseteq page.asked
            /\ SameMarks(page, q) /\ SameWaits(page, q) /\ q.want = page.want
<1> DEFINE t == TakeAsked(page, m)
           a == ShowRangeRefusal(t, None)
           r == AskedRequest(page, m)
           n == AnsweredSeq(m)
           b == [a EXCEPT !.picture = m.of, !.drawnRequest = r]
           c == [b EXCEPT !.mountAnswered = TRUE, !.answeredSeq = n]
           q == [c EXCEPT !.lastRenderFailed = FALSE, !.drawnNoCells = FALSE]
<1>1. /\ t \in Page /\ t.posted = page.posted /\ t.asked \subseteq page.asked
      /\ t.renderSeq = page.renderSeq /\ t.answeredSeq = page.answeredSeq /\ t.last = page.last
      /\ SameShown(page, t) /\ SameMarks(page, t) /\ SameWaits(page, t) /\ t.want = page.want
  BY TakeAskedEffect
<1> HIDE DEF t
<1>2. /\ a \in Page /\ a.refusal = None /\ a.posted = t.posted
      /\ a.overlay = t.overlay /\ a.ticked = t.ticked /\ a.contours = t.contours
      /\ SameMarks(t, a) /\ SameCounts(t, a) /\ SameWaits(t, a) /\ a.want = t.want
  BY <1>1, RefusalEffect
<1>3. r \in Requests \cup {None} /\ n \in Nat /\ m.of \in Requests
  BY AskedRequestTyped DEF RenderAnswer, AnsweredSeq, Page
<1>4. a.answeredSeq = page.answeredSeq
  BY <1>1, <1>2 DEF SameCounts
<1>5. Drawn(page, m) = q
  BY <1>4 DEF Drawn, t, AnsweredSeq
<1> HIDE DEF a, r, n
<1>6. b \in Page /\ b.picture = m.of
  <2>1. a \in Page
    BY <1>2
  <2>2. m.of \in Requests /\ r \in Requests \cup {None}
    BY <1>3
  <2> HIDE DEF b
  <2>3. \A x \in Requests, y \in Requests \cup {None} :
          LET q0 == [a EXCEPT !.picture = x, !.drawnRequest = y]
          IN q0 \in Page /\ q0.picture = x
    BY <2>1, PictureTyped
  <2> QED BY <2>2, <2>3 DEF b
<1>7. /\ b.refusal = None /\ b.posted = a.posted /\ b.overlay = a.overlay
      /\ b.ticked = a.ticked /\ b.contours = a.contours
      /\ SameMarks(a, b) /\ SameCounts(a, b) /\ SameWaits(a, b) /\ b.want = a.want
  BY <1>2 DEF Page, SameMarks, SameCounts, SameWaits
<1> HIDE DEF b
<1>8. c \in Page /\ c.mountAnswered = TRUE /\ c.answeredSeq = n
  <2>1. c \in Page
    BY <1>3, <1>6, AnsweredTyped
  <2>2. c.mountAnswered = TRUE /\ c.answeredSeq = n
    BY <1>6 DEF Page
  <2> QED BY <2>1, <2>2
<1>9. /\ c.picture = b.picture /\ c.refusal = b.refusal /\ c.posted = b.posted
      /\ c.overlay = b.overlay /\ c.renderSeq = b.renderSeq /\ c.last = b.last
      /\ c.ticked = b.ticked /\ c.contours = b.contours /\ c.asked = b.asked
      /\ SameMarks(b, c) /\ SameWaits(b, c) /\ c.want = b.want
  BY <1>6 DEF Page, SameMarks, SameWaits
<1> HIDE DEF c
<1>10. q \in Page /\ q.lastRenderFailed = FALSE /\ q.drawnNoCells = FALSE
  <2>1. q \in Page
    BY <1>8, VerdictTyped
  <2>2. q.lastRenderFailed = FALSE /\ q.drawnNoCells = FALSE
    BY <1>8 DEF Page
  <2> QED BY <2>1, <2>2
<1>11. /\ q.picture = c.picture /\ q.refusal = c.refusal /\ q.posted = c.posted
       /\ q.overlay = c.overlay /\ q.renderSeq = c.renderSeq /\ q.last = c.last
       /\ q.ticked = c.ticked /\ q.contours = c.contours /\ q.asked = c.asked
       /\ q.mountAnswered = c.mountAnswered /\ q.answeredSeq = c.answeredSeq
       /\ SameMarks(c, q) /\ SameWaits(c, q) /\ q.want = c.want
  BY <1>8 DEF Page, SameMarks, SameWaits
<1> HIDE DEF q
<1>12. SameMarks(page, q) /\ SameWaits(page, q)
  BY <1>1, <1>2, <1>7, <1>9, <1>11 DEF SameMarks, SameWaits
<1>13. q.renderSeq = page.renderSeq /\ q.last = page.last /\ q.asked \subseteq page.asked
  BY <1>1, <1>2, <1>7, <1>9, <1>11 DEF SameCounts
<1>14. /\ q.overlay = page.overlay /\ q.contours = page.contours /\ q.ticked = page.ticked
       /\ q.posted = page.posted /\ q.want = page.want
  BY <1>1, <1>2, <1>7, <1>9, <1>11 DEF SameShown
<1> QED BY <1>5, <1>6, <1>7, <1>8, <1>9, <1>10, <1>11, <1>12, <1>13, <1>14 DEF n

\* A latest error after which no picture stands.
Clears(p, m) == m.why = "vacant" \/ HeadsAnother(p, m)

LEMMA JudgedEffect ==
  ASSUME page \in Page, NEW m \in RenderAnswer
  PROVE  LET q == Judged(page, m)
         IN /\ q \in Page /\ q.posted = page.posted /\ q.want = page.want
            /\ q.ticked = page.ticked /\ q.renderSeq = page.renderSeq /\ q.last = page.last
            /\ q.answeredSeq = AnsweredSeq(m) /\ q.mountAnswered = TRUE
            /\ q.asked \subseteq page.asked /\ SameWaits(page, q)
            /\ \/ /\ ~Latest(m)
                  /\ SameShown(page, q) /\ SameVerdict(page, q) /\ SameMarks(page, q)
               \/ /\ Latest(m) /\ ~Clears(page, m) /\ (m.why = "failed" => q.lastRenderFailed)
                  /\ SameShown(page, q) /\ SameMarks(page, q) /\ q.refusal = page.refusal
               \/ /\ Latest(m) /\ Clears(page, m)
                  /\ m.why = "vacant" => q.drawnNoCells
                  /\ m.why = "failed" => q.lastRenderFailed
                  /\ q.picture = None /\ q.refusal = None
                  /\ q.overlay = Dropped(page.overlay) /\ q.contours = Dropped(page.contours)
<1> DEFINE t == TakeAsked(page, m)
           a == [t EXCEPT !.mountAnswered = TRUE]
<1>1. /\ t \in Page /\ t.posted = page.posted /\ t.asked \subseteq page.asked
      /\ t.renderSeq = page.renderSeq /\ t.answeredSeq = page.answeredSeq /\ t.last = page.last
      /\ SameShown(page, t) /\ SameVerdict(page, t) /\ SameMarks(page, t)
      /\ SameWaits(page, t) /\ t.want = page.want
  BY TakeAskedEffect
<1> HIDE DEF t
<1>2. a \in Page
  <2>1. t \in Page
    BY <1>1
  <2> QED BY <2>1 DEF Page
<1>3. /\ a.posted = t.posted /\ a.asked = t.asked /\ a.want = t.want
      /\ a.renderSeq = t.renderSeq /\ a.answeredSeq = t.answeredSeq /\ a.last = t.last
      /\ SameShown(t, a) /\ SameVerdict(t, a) /\ SameMarks(t, a) /\ SameWaits(t, a)
      /\ a.mountAnswered = TRUE
  BY <1>1 DEF Page, SameShown, SameVerdict, SameMarks, SameWaits
<1> HIDE DEF a
<1>4. /\ a.posted = page.posted /\ a.asked \subseteq page.asked /\ a.want = page.want
      /\ a.renderSeq = page.renderSeq /\ a.answeredSeq = page.answeredSeq /\ a.last = page.last
      /\ SameShown(page, a) /\ SameVerdict(page, a) /\ SameMarks(page, a) /\ SameWaits(page, a)
  BY <1>1, <1>3 DEF SameShown, SameVerdict, SameMarks, SameWaits
<1>5. CASE ~Latest(m)
  <2>1. Judged(page, m) = a
    BY <1>5 DEF Judged, a, t
  <2>2. a.ticked = page.ticked /\ a.answeredSeq = AnsweredSeq(m)
    BY <1>4, <1>5 DEF SameShown, AnsweredSeq
  <2> QED BY <1>2, <1>3, <1>4, <1>5, <2>1, <2>2
<1>6. CASE Latest(m)
  <2> DEFINE n == page.renderSeq
             noCells == m.why = "vacant"
             failed == CASE m.why = "vacant" -> FALSE [] m.why = "failed" -> TRUE
                         [] OTHER -> a.lastRenderFailed
  <2>0. n \in Nat
    BY <1>4, <1>2 DEF Page
  <2>1. n = page.renderSeq /\ noCells = (m.why = "vacant")
    OBVIOUS
  <2>2. m.why = "failed" => failed
    OBVIOUS
  <2>3. failed \in BOOLEAN /\ noCells \in BOOLEAN
    BY <1>2 DEF Page
  <2> DEFINE b == [a EXCEPT !.answeredSeq = n]
             c == [b EXCEPT !.lastRenderFailed = failed, !.drawnNoCells = noCells]
             q == Judged(page, m)
  <2>6. q = IF Clears(page, m) THEN ClearDrawn(c) ELSE c
    BY <1>4, <1>6 DEF Judged, Clears, a, t
  <2> HIDE DEF n, failed, noCells
  <2>4. b \in Page
    BY <1>2, <2>0, AnswerCounted
  <2>5. /\ b.posted = a.posted /\ b.answeredSeq = n /\ b.asked = a.asked /\ b.want = a.want
        /\ b.renderSeq = a.renderSeq /\ b.last = a.last /\ b.refusal = a.refusal
        /\ b.mountAnswered = a.mountAnswered /\ b.lastRenderFailed = a.lastRenderFailed
        /\ SameShown(a, b) /\ SameMarks(a, b) /\ SameWaits(a, b)
    BY <1>2 DEF Page, SameShown, SameMarks, SameWaits
  <2> HIDE DEF b, q
  <2>7. c \in Page
    BY <2>3, <2>4, VerdictTyped
  <2>8. c.lastRenderFailed = failed /\ c.drawnNoCells = noCells
    BY <2>4 DEF Page
  <2>9. /\ c.posted = b.posted /\ c.asked = b.asked /\ c.want = b.want
        /\ c.renderSeq = b.renderSeq /\ c.last = b.last /\ c.refusal = b.refusal
        /\ c.mountAnswered = b.mountAnswered /\ c.answeredSeq = b.answeredSeq
        /\ SameShown(b, c) /\ SameMarks(b, c) /\ SameWaits(b, c)
    BY <2>4 DEF Page, SameShown, SameMarks, SameWaits
  <2> HIDE DEF c
  <2>10. /\ c.posted = page.posted /\ c.asked \subseteq page.asked /\ c.want = page.want
         /\ c.renderSeq = page.renderSeq /\ c.last = page.last /\ c.refusal = page.refusal
         /\ c.mountAnswered = TRUE /\ c.answeredSeq = AnsweredSeq(m)
         /\ SameShown(page, c) /\ SameMarks(page, c) /\ SameWaits(page, c)
    BY <1>3, <1>4, <1>6, <2>1, <2>5, <2>9
       DEF SameShown, SameVerdict, SameMarks, SameWaits, AnsweredSeq
  <2>11. CASE ~Clears(page, m)
    <3>1. q = c /\ c.ticked = page.ticked
      BY <2>6, <2>10, <2>11 DEF SameShown
    <3> QED BY <1>6, <2>2, <2>7, <2>8, <2>10, <2>11, <3>1 DEF q
  <2>12. CASE Clears(page, m)
    <3>1. /\ q \in Page /\ q.posted = c.posted /\ q.picture = None /\ q.ticked = c.ticked
          /\ q.refusal = None
          /\ q.overlay = Dropped(c.overlay) /\ q.contours = Dropped(c.contours)
          /\ q.drawnNoCells = c.drawnNoCells /\ q.lastRenderFailed = c.lastRenderFailed
          /\ SameCounts(c, q) /\ SameWaits(c, q) /\ q.want = c.want
      BY <2>6, <2>7, <2>12, ClearEffect
    <3>2. /\ m.why = "vacant" => q.drawnNoCells
          /\ m.why = "failed" => q.lastRenderFailed
      BY <2>1, <2>2, <2>8, <3>1
    <3>3. /\ q.posted = page.posted /\ q.asked \subseteq page.asked /\ q.want = page.want
          /\ q.renderSeq = page.renderSeq /\ q.last = page.last /\ q.mountAnswered = TRUE
          /\ q.answeredSeq = AnsweredSeq(m) /\ q.ticked = page.ticked
          /\ q.overlay = Dropped(page.overlay) /\ q.contours = Dropped(page.contours)
          /\ SameWaits(page, q)
      BY <2>10, <3>1 DEF SameShown, SameCounts, SameWaits
    <3> QED BY <1>6, <2>12, <3>1, <3>2, <3>3 DEF q
  <2> QED BY <2>11, <2>12
<1> QED BY <1>5, <1>6

\* A render of the page's controls was asked for.
AsksRender(p, q) ==
  /\ q.posted = Append(p.posted, [type |-> "rerender", seq |-> p.renderSeq + 1, of |-> q.want])
  /\ q.renderSeq = p.renderSeq + 1 /\ q.answeredSeq = p.answeredSeq /\ q.last = q.want
  /\ q.asked = p.asked \cup {<<p.renderSeq + 1, q.want>>}
  /\ q.mountAnswered = p.mountAnswered
  /\ SameShown(p, q) /\ SameVerdict(p, q) /\ SameMarks(p, q) /\ SameWaits(p, q)

\* PostRerender of a page of which only the controls were changed.
LEMMA RerenderOfControls ==
  ASSUME NEW p \in Page, NEW r \in Requests
  PROVE  LET q == PostRerender([p EXCEPT !.want = r])
         IN q \in Page /\ q.want = r /\ AsksRender(p, q)
<1> DEFINE a == [p EXCEPT !.want = r]
           q == PostRerender(a)
<1>1. a \in Page
  BY DEF Page
<1>2. /\ a.want = r /\ a.posted = p.posted
      /\ SameShown(p, a) /\ SameVerdict(p, a) /\ SameMarks(p, a) /\ SameCounts(p, a)
      /\ SameWaits(p, a)
  BY DEF Page, SameShown, SameVerdict, SameMarks, SameCounts, SameWaits
<1> HIDE DEF a
<1>3. /\ q \in Page
      /\ q.posted = Append(a.posted, [type |-> "rerender", seq |-> a.renderSeq + 1, of |-> a.want])
      /\ q.renderSeq = a.renderSeq + 1 /\ q.answeredSeq = a.answeredSeq /\ q.last = a.want
      /\ q.asked = a.asked \cup {<<a.renderSeq + 1, a.want>>}
      /\ q.mountAnswered = a.mountAnswered
      /\ SameShown(a, q) /\ SameVerdict(a, q) /\ SameMarks(a, q)
      /\ SameWaits(a, q) /\ q.want = a.want
  BY <1>1, PostRerenderEffect
<1> HIDE DEF q
<1>4. SameShown(p, q) /\ SameVerdict(p, q) /\ SameMarks(p, q) /\ SameWaits(p, q)
  BY <1>2, <1>3 DEF SameShown, SameVerdict, SameMarks, SameWaits
<1>5. /\ q.posted = Append(p.posted, [type |-> "rerender", seq |-> p.renderSeq + 1, of |-> r])
      /\ q.renderSeq = p.renderSeq + 1 /\ q.answeredSeq = p.answeredSeq /\ q.last = r
      /\ q.asked = p.asked \cup {<<p.renderSeq + 1, r>>}
      /\ q.mountAnswered = p.mountAnswered /\ q.want = r
  BY <1>2, <1>3 DEF SameCounts
<1> QED BY <1>3, <1>4, <1>5 DEF AsksRender, a, q

LEMMA RefuseEffect ==
  ASSUME NEW p \in Page, p.mountAnswered, NEW m \in RenderAnswer
  PROVE  LET q == Refuse(p, m)
         IN \/ q \in Page /\ AsksRender(p, q)
            \/ /\ m.why = "refused"
               /\ \E r \in Refusals : q = ShowRangeRefusal(p, r)
            \/ m.why # "refused" /\ (q = p \/ q = ShowRangeRefusal(p, None))
<1> DEFINE q == Refuse(p, m)
           want == [p.want EXCEPT !.range = AutoRange]
           r == [said |-> m.of.range, fields |-> p.want.range, field |-> m.of.field,
                 fixed |-> m.of.range \in BadRanges]
<1>1. p.want \in Requests /\ m.of \in Requests
  BY DEF Page, RenderAnswer
<1>2. want \in Requests /\ r \in Refusals
  BY <1>1, RequestAssumption DEF Requests, Refusals
<1>3. CASE m.why = "refused" /\ m.of.range = Log /\ p.want.range = Log
  <2>1. p.want.range \in Ranges /\ [p EXCEPT !.want.range = AutoRange] = [p EXCEPT !.want = want]
    BY <1>1 DEF Requests
  <2> DEFINE a == [p EXCEPT !.want = want]
  <2>2. a.mountAnswered
    BY DEF Page
  <2>3. q = PostRerender(a)
    BY <1>3, <2>1, <2>2 DEF Refuse, RequestRender
  <2> QED BY <1>2, <2>3, RerenderOfControls
<1>4. CASE m.why = "refused" /\ ~(m.of.range = Log /\ p.want.range = Log)
  <2>1. q = ShowRangeRefusal(p, r)
    BY <1>4 DEF Refuse
  <2> QED BY <1>2, <1>4, <2>1
<1>5. CASE m.why # "refused"
  BY <1>5 DEF Refuse
<1> QED BY <1>3, <1>4, <1>5

LEMMA FollowOverlayEffect ==
  ASSUME NEW p \in Page, p.picture # None
  PROVE  LET q == FollowOverlay(p)
         IN \/ q = p /\ p.overlay.key = p.picture.geometry
            \/ /\ p.overlay.key # p.picture.geometry
               /\ q \in Page /\ q.picture = p.picture /\ q.ticked = p.ticked
               /\ q.contours.seq = p.contours.seq /\ q.contours.asked = p.contours.asked
               /\ q.contours.key = p.contours.key /\ q.contours.runs = None
               /\ q.overlay.seq = p.overlay.seq + 1 /\ q.overlay.key = p.picture.geometry
               /\ q.overlay.runs = None
               /\ \/ /\ "overlay" \in p.ticked /\ q.overlay.asked = p.overlay.seq + 1
                     /\ q.posted = Append(p.posted, [type |-> "overlay", seq |-> q.overlay.seq,
                                                     of |-> p.picture])
                  \/ /\ "overlay" \notin p.ticked /\ q.overlay.asked = p.overlay.asked
                     /\ q.posted = p.posted
               /\ SameVerdict(p, q) /\ SameMarks(p, q) /\ SameCounts(p, q) /\ SameWaits(p, q)
               /\ q.want = p.want
<1> DEFINE c == [p.contours EXCEPT !.runs = None]
           o == [p.overlay EXCEPT !.runs = None]
           a == [p EXCEPT !.contours = c, !.overlay = o]
           q == RequestOverlay(a)
<1>1. p.contours \in Layer(Requests) /\ p.overlay \in Layer(Geometries)
  BY DEF Page
<1>2. /\ c \in Layer(Requests) /\ c.runs = None
      /\ c.seq = p.contours.seq /\ c.asked = p.contours.asked /\ c.key = p.contours.key
  BY <1>1 DEF Layer
<1>3. /\ o \in Layer(Geometries) /\ o.runs = None
      /\ o.seq = p.overlay.seq /\ o.asked = p.overlay.asked
  BY <1>1 DEF Layer
<1>4. [p EXCEPT !.contours.runs = None, !.overlay.runs = None] = a
  BY DEF Page
<1>5. FollowOverlay(p) = IF p.picture.geometry = p.overlay.key THEN p ELSE q
  BY <1>4 DEF FollowOverlay
<1> HIDE DEF c, o
<1>6. a \in Page
  BY <1>2, <1>3 DEF Page
<1>7. /\ a.picture = p.picture /\ a.ticked = p.ticked /\ a.contours = c /\ a.overlay = o
      /\ a.posted = p.posted /\ a.want = p.want
      /\ SameVerdict(p, a) /\ SameMarks(p, a) /\ SameCounts(p, a) /\ SameWaits(p, a)
  BY DEF Page, SameVerdict, SameMarks, SameCounts, SameWaits
<1> HIDE DEF a
<1>8. /\ q \in Page
      /\ q.picture = a.picture /\ q.contours = a.contours /\ q.ticked = a.ticked
      /\ q.overlay.seq = a.overlay.seq + 1 /\ q.overlay.key = a.picture.geometry
      /\ \/ /\ "overlay" \in a.ticked /\ q.overlay.runs = a.overlay.runs
            /\ q.overlay.asked = a.overlay.seq + 1
            /\ q.posted = Append(a.posted, [type |-> "overlay", seq |-> q.overlay.seq,
                                            of |-> a.picture])
         \/ /\ "overlay" \notin a.ticked /\ q.overlay.runs = None
            /\ q.overlay.asked = a.overlay.asked /\ q.posted = a.posted
      /\ SameVerdict(a, q) /\ SameMarks(a, q) /\ SameCounts(a, q) /\ SameWaits(a, q)
      /\ q.want = a.want
  BY <1>6, <1>7, OverlayEffect
<1> HIDE DEF q
<1>9. SameVerdict(p, q) /\ SameMarks(p, q) /\ SameCounts(p, q) /\ SameWaits(p, q)
  BY <1>7, <1>8 DEF SameVerdict, SameMarks, SameCounts, SameWaits
<1>10. CASE p.picture.geometry = p.overlay.key
  BY <1>5, <1>10
<1>11. CASE p.picture.geometry # p.overlay.key
  BY <1>2, <1>3, <1>5, <1>7, <1>8, <1>9, <1>11
<1> QED BY <1>10, <1>11

-----------------------------------------------------------------------------

(* The answers the page will read, in order, if the provider reads hs after *)
(* those on their way already.                                             *)
Flight(s, hs) ==
  [i \in 1..(Len(s) + Len(hs)) |-> IF i <= Len(s) THEN s[i] ELSE Answer(hs[i - Len(s)])]

Line == Flight(toPage, toHost)

IsRender(m) == m.type \in {"gridReady", "gridError"}
IsOverlay(m) == m.type \in {"overlayReady", "overlayError"}
IsContours(m) == m.type \in {"contourReady", "contourError"}

Lined(r) == r.geometry \notin NoLines

-----------------------------------------------------------------------------
(* Renders are answered in the order they were asked for, the last with    *)
(* what it asked for.                                                      *)

RenderFits(p, m) ==
  IsRender(m) =>
    /\ m.seq \in Nat /\ m.seq <= p.renderSeq /\ p.answeredSeq < p.renderSeq
    /\ m.seq = p.renderSeq => m.of = p.last
    /\ m.why = Outcome(m.of) /\ (m.type = "gridReady" <=> m.why = "drawn")

Ordered(s) ==
  \A i, j \in 1..Len(s) : i < j /\ IsRender(s[i]) /\ IsRender(s[j]) => s[i].seq < s[j].seq

Renders(p, s) ==
  /\ p.last \in Requests
  /\ p.answeredSeq <= p.renderSeq /\ (~p.mountAnswered => p.answeredSeq < p.renderSeq)
  /\ \A a \in p.asked : a[1] \in 1..p.renderSeq
  /\ \A i \in 1..Len(s) : RenderFits(p, s[i])
  /\ Ordered(s)

-----------------------------------------------------------------------------
(* The overlay is named by the picture's geometry, and is drawn for it     *)
(* unless its answer is on its way.                                        *)

OverlayFits(p, m) ==
  IsOverlay(m) =>
    /\ m.seq <= p.overlay.seq
    /\ m.type = "overlayReady" <=> Lined(m.of)
    /\ m.seq = p.overlay.seq =>
         "overlay" \in p.ticked /\ p.picture # None /\ m.of.geometry = p.picture.geometry

OverlayShown(p) ==
  /\ p.overlay.key # None => p.picture # None /\ p.overlay.key = p.picture.geometry
  /\ p.overlay.key = None /\ p.picture # None => ~Lined(p.picture)
  /\ p.overlay.runs # None =>
       "overlay" \in p.ticked /\ p.picture # None /\ p.overlay.runs = p.picture.geometry
  /\ "overlay" \in p.ticked /\ p.picture # None /\ ~Pending(p.overlay) =>
       p.overlay.runs = IF Lined(p.picture) THEN p.picture.geometry ELSE None

Overlays(p, s) == OverlayShown(p) /\ \A i \in 1..Len(s) : OverlayFits(p, s[i])

(* Contours are named by the picture they were asked for.                  *)

ContoursFit(p, m) ==
  IsContours(m) =>
    /\ m.seq <= p.contours.seq
    /\ m.type = "contourReady" <=> Lined(m.of)
    /\ m.seq = p.contours.seq => p.contours.key # None /\ m.of = p.contours.key

ContoursKept(p) ==
  /\ p.contours.key # None => "contours" \in p.ticked
  /\ p.contours.runs # None =>
       /\ p.contours.key # None /\ p.picture # None
       /\ p.contours.runs.geometry = p.picture.geometry
       /\ p.contours.runs = p.contours.key \/ Pending(p.contours)
  /\ p.contours.key # None /\ p.contours.key = p.picture /\ ~Pending(p.contours) =>
       p.contours.runs = IF Lined(p.picture) THEN p.picture ELSE None

ContoursOfPicture(p) == p.contours.key # None => p.contours.key = p.picture

KeptContours(p, s) == ContoursKept(p) /\ \A i \in 1..Len(s) : ContoursFit(p, s[i])

Contours(p, s) == KeptContours(p, s) /\ ContoursOfPicture(p)

-----------------------------------------------------------------------------
(* What is drawn, and whether it is the last render's.                     *)

Fine(p) ==
  /\ p.answeredSeq = p.renderSeq
  /\ p.refusal = None /\ ~p.lastRenderFailed /\ ~p.drawnNoCells /\ p.picture # None

Marks(p) ==
  p.answeredSeq = p.renderSeq =>
    ((p.pictureKept \/ p.failedOver) <=> (p.picture \notin {None, p.last}))

Finish(p) ==
  Fine(p) => p.picture = p.last /\ ("contours" \in p.ticked => p.contours.key # None)

DrawnPicture(p) == p.picture # None => Outcome(p.picture) = "drawn"

-----------------------------------------------------------------------------

PageInv(p, s) ==
  /\ Renders(p, s) /\ Overlays(p, s) /\ Contours(p, s)
  /\ DrawnPicture(p) /\ Marks(p) /\ Finish(p)

IInv ==
  /\ page \in Page /\ page.posted = <<>>
  /\ toHost \in Seq(HostMessage) /\ toPage \in Seq(PageMessage)
  /\ PageInv(page, Line)

-----------------------------------------------------------------------------
(* Messages and the order they arrive in.                                  *)

LEMMA OutcomeTyped ==
  ASSUME NEW r
  PROVE  Outcome(r) \in {"failed", "vacant", "refused", "drawn"}
BY DEF Outcome

LEMMA AnswerTyped ==
  ASSUME NEW h \in HostMessage
  PROVE  LET m == Answer(h)
         IN /\ m \in PageMessage /\ m.seq = h.seq /\ m.of = h.of
            /\ IsOverlay(m) <=> h.type = "overlay"
            /\ IsContours(m) <=> h.type = "contours"
            /\ IsRender(m) <=> h.type \in {"ready", "rerender"}
            /\ IsOverlay(m) => (m.type = "overlayReady" <=> Lined(m.of))
            /\ IsContours(m) => (m.type = "contourReady" <=> Lined(m.of))
            /\ IsRender(m) => m.why = Outcome(m.of) /\ (m.type = "gridReady" <=> m.why = "drawn")
<1>1. CASE h.type = "overlay"
  BY <1>1 DEF Answer, HostMessage, PageMessage, LayerAnswer, IsOverlay, IsContours, IsRender, Lined
<1>2. CASE h.type = "contours"
  BY <1>2 DEF Answer, HostMessage, PageMessage, LayerAnswer, IsOverlay, IsContours, IsRender, Lined
<1>3. CASE h.type \in {"ready", "rerender"}
  BY <1>3, OutcomeTyped
     DEF Answer, HostMessage, PageMessage, RenderAnswer, IsOverlay, IsContours, IsRender
<1> QED BY <1>1, <1>2, <1>3 DEF HostMessage

LEMMA MessageKinds ==
  ASSUME NEW m \in PageMessage
  PROVE  /\ IsRender(m) <=> m \in RenderAnswer
         /\ ~IsRender(m) <=> m \in LayerAnswer
         /\ m.seq \in Nat /\ m.of \in Requests
         /\ IsRender(m) \/ IsOverlay(m) \/ IsContours(m)
         /\ ~(IsRender(m) /\ IsOverlay(m)) /\ ~(IsRender(m) /\ IsContours(m))
         /\ ~(IsOverlay(m) /\ IsContours(m))
BY DEF PageMessage, RenderAnswer, LayerAnswer, IsRender, IsOverlay, IsContours

LEMMA FlightTyped ==
  ASSUME NEW s \in Seq(PageMessage), NEW hs \in Seq(HostMessage)
  PROVE  /\ Flight(s, hs) \in Seq(PageMessage) /\ Len(Flight(s, hs)) = Len(s) + Len(hs)
         /\ \A i \in 1..(Len(s) + Len(hs)) :
              Flight(s, hs)[i] = IF i <= Len(s) THEN s[i] ELSE Answer(hs[i - Len(s)])
<1> DEFINE n == Len(s) + Len(hs)
           f == Flight(s, hs)
<1>1. n \in Nat
  OBVIOUS
<1>2. f = [i \in 1..n |-> IF i <= Len(s) THEN s[i] ELSE Answer(hs[i - Len(s)])]
  BY DEF Flight
<1>3. ASSUME NEW i \in 1..n
      PROVE  (IF i <= Len(s) THEN s[i] ELSE Answer(hs[i - Len(s)])) \in PageMessage
  <2>1. CASE i <= Len(s)
    BY <2>1
  <2>2. CASE ~(i <= Len(s))
    <3>1. i - Len(s) \in 1..Len(hs)
      BY <2>2
    <3>2. hs[i - Len(s)] \in HostMessage
      BY <3>1
    <3> QED BY <2>2, <3>2, AnswerTyped
  <2> QED BY <2>1, <2>2
<1> HIDE DEF f
<1>4. f \in [1..n -> PageMessage]
  BY <1>2, <1>3
<1> HIDE DEF n
<1>5. f \in Seq(PageMessage) /\ Len(f) = n
  BY <1>1, <1>4
<1> QED BY <1>2, <1>5 DEF f, n

LEMMA SameSequence ==
  ASSUME NEW S, NEW s \in Seq(S), NEW t \in Seq(S), Len(s) = Len(t),
         \A i \in 1..Len(s) : s[i] = t[i]
  PROVE  s = t
OBVIOUS

LEMMA FlightNone ==
  ASSUME NEW s \in Seq(PageMessage)
  PROVE  Flight(s, <<>>) = s
<1> DEFINE none == <<>>
<1>1. none \in Seq(HostMessage) /\ Len(none) = 0 /\ Len(s) \in Nat
  OBVIOUS
<1> HIDE DEF none
<1>2. /\ Flight(s, none) \in Seq(PageMessage) /\ Len(Flight(s, none)) = Len(s)
      /\ \A i \in 1..Len(s) : Flight(s, none)[i] = s[i]
  <2>1. /\ Flight(s, none) \in Seq(PageMessage) /\ Len(Flight(s, none)) = Len(s) + Len(none)
        /\ \A i \in 1..(Len(s) + Len(none)) :
             Flight(s, none)[i] = IF i <= Len(s) THEN s[i] ELSE Answer(none[i - Len(s)])
    BY <1>1, FlightTyped
  <2>2. Len(s) + Len(none) = Len(s)
    BY <1>1
  <2> QED BY <1>1, <2>1, <2>2
<1>3. Flight(s, none) = s
  BY <1>2, SameSequence
<1> QED BY <1>3 DEF none

LEMMA FlightAppend ==
  ASSUME NEW s \in Seq(PageMessage), NEW hs \in Seq(HostMessage), NEW h \in HostMessage
  PROVE  Flight(s, Append(hs, h)) = Append(Flight(s, hs), Answer(h))
<1> DEFINE f == Flight(s, hs)
           g == Flight(s, Append(hs, h))
           n == Len(s) + Len(hs)
           a == Answer(h)
           e == Append(f, a)
<1>1. /\ f \in Seq(PageMessage) /\ Len(f) = n
      /\ \A i \in 1..n : f[i] = IF i <= Len(s) THEN s[i] ELSE Answer(hs[i - Len(s)])
  BY FlightTyped
<1>2. /\ g \in Seq(PageMessage) /\ Len(g) = n + 1
      /\ \A i \in 1..(n + 1) :
           g[i] = IF i <= Len(s) THEN s[i] ELSE Answer(Append(hs, h)[i - Len(s)])
  <2> DEFINE more == Append(hs, h)
  <2>1. more \in Seq(HostMessage) /\ Len(s) + Len(more) = n + 1
    OBVIOUS
  <2> HIDE DEF more
  <2>2. /\ Flight(s, more) \in Seq(PageMessage) /\ Len(Flight(s, more)) = Len(s) + Len(more)
        /\ \A i \in 1..(Len(s) + Len(more)) :
             Flight(s, more)[i] = IF i <= Len(s) THEN s[i] ELSE Answer(more[i - Len(s)])
    BY <2>1, FlightTyped
  <2> QED BY <2>1, <2>2 DEF more
<1>3. a \in PageMessage
  BY AnswerTyped
<1> HIDE DEF f, g, a
<1>0. n \in Nat /\ Len(s) \in Nat /\ Len(s) <= n
  OBVIOUS
<1>4. e \in Seq(PageMessage) /\ Len(e) = n + 1
  <2>1. f \in Seq(PageMessage) /\ Len(f) = n
    BY <1>1
  <2> HIDE DEF n
  <2>2. e \in Seq(PageMessage) /\ Len(e) = Len(f) + 1
    BY <1>3, <2>1
  <2> QED BY <2>1, <2>2
<1>5. ASSUME NEW i \in 1..(n + 1) PROVE g[i] = e[i]
  <2>1. CASE i <= Len(s)
    BY <1>1, <1>2, <2>1
  <2>2. CASE i > Len(s) /\ i <= n
    <3>1. Append(hs, h)[i - Len(s)] = hs[i - Len(s)]
      BY <2>2
    <3>2. g[i] = Answer(hs[i - Len(s)]) /\ f[i] = Answer(hs[i - Len(s)])
      BY <1>1, <1>2, <2>2, <3>1
    <3>3. e[i] = f[i]
      BY <1>1, <2>2
    <3> QED BY <3>2, <3>3
  <2>3. CASE i = n + 1
    <3>1. Append(hs, h)[i - Len(s)] = h
      BY <2>3
    <3>2. g[i] = Answer(h)
      BY <1>2, <2>3, <3>1
    <3>3. e[i] = a
      BY <1>1, <2>3
    <3> QED BY <3>2, <3>3 DEF a
  <2>4. i <= Len(s) \/ (i > Len(s) /\ i <= n) \/ i = n + 1
    BY <1>0
  <2> HIDE DEF e
  <2> QED BY <2>1, <2>2, <2>3, <2>4
<1> HIDE DEF e
<1> QED BY <1>2, <1>4, <1>5, SameSequence DEF e, f, g, a

\* The provider reading a message moves nothing.
LEMMA FlightServed ==
  ASSUME NEW s \in Seq(PageMessage), NEW hs \in Seq(HostMessage), hs # <<>>
  PROVE  Flight(Append(s, Answer(Head(hs))), Tail(hs)) = Flight(s, hs)
<1> DEFINE a == Answer(Head(hs))
           t == Append(s, a)
           g == Flight(t, Tail(hs))
           f == Flight(s, hs)
           n == Len(s) + Len(hs)
<1>1. /\ Head(hs) \in HostMessage /\ Head(hs) = hs[1] /\ Tail(hs) \in Seq(HostMessage)
      /\ Len(Tail(hs)) = Len(hs) - 1 /\ Len(hs) >= 1
      /\ \A i \in 1..(Len(hs) - 1) : Tail(hs)[i] = hs[i + 1]
  OBVIOUS
<1>2. a \in PageMessage
  BY <1>1, AnswerTyped
<1> HIDE DEF a
<1>3. /\ t \in Seq(PageMessage) /\ Len(t) = Len(s) + 1 /\ t[Len(s) + 1] = a
      /\ \A i \in 1..Len(s) : t[i] = s[i]
  BY <1>2
<1> HIDE DEF t
<1>4. /\ f \in Seq(PageMessage) /\ Len(f) = n
      /\ \A i \in 1..n : f[i] = IF i <= Len(s) THEN s[i] ELSE Answer(hs[i - Len(s)])
  BY FlightTyped
<1>5. /\ g \in Seq(PageMessage) /\ Len(g) = Len(t) + Len(Tail(hs))
      /\ \A i \in 1..(Len(t) + Len(Tail(hs))) :
           g[i] = IF i <= Len(t) THEN t[i] ELSE Answer(Tail(hs)[i - Len(t)])
  BY <1>1, <1>3, FlightTyped
<1> HIDE DEF f, g
<1>6. Len(g) = n
  BY <1>1, <1>3, <1>5
<1>7. ASSUME NEW i \in 1..n PROVE g[i] = f[i]
  <2>1. CASE i <= Len(s)
    <3>1. i <= Len(t) /\ i \in 1..(Len(t) + Len(Tail(hs))) /\ i \in 1..Len(s)
      BY <1>1, <1>3, <2>1
    <3>2. g[i] = t[i] /\ t[i] = s[i]
      BY <1>3, <1>5, <3>1
    <3>3. f[i] = s[i]
      BY <1>4, <2>1
    <3> QED BY <3>2, <3>3
  <2>2. CASE i = Len(s) + 1
    <3>1. f[i] = Answer(hs[1])
      BY <1>1, <1>4, <2>2
    <3>2. g[i] = a
      BY <1>1, <1>3, <1>5, <2>2
    <3> QED BY <1>1, <3>1, <3>2 DEF a
  <2>3. CASE i > Len(s) + 1
    <3>1. i - Len(t) \in 1..(Len(hs) - 1) /\ (i - Len(t)) + 1 = i - Len(s)
      BY <1>1, <1>3, <2>3
    <3>2. Tail(hs)[i - Len(t)] = hs[i - Len(s)]
      BY <1>1, <3>1
    <3>3. g[i] = Answer(Tail(hs)[i - Len(t)])
      BY <1>1, <1>3, <1>5, <2>3
    <3>4. f[i] = Answer(hs[i - Len(s)])
      BY <1>1, <1>4, <2>3
    <3> QED BY <3>2, <3>3, <3>4
  <2> QED BY <2>1, <2>2, <2>3
<1> QED BY <1>4, <1>5, <1>6, <1>7, SameSequence DEF f, g, t, a

\* The page reading one takes the first.
LEMMA FlightTaken ==
  ASSUME NEW s \in Seq(PageMessage), NEW hs \in Seq(HostMessage), s # <<>>
  PROVE  /\ Flight(Tail(s), hs) = Tail(Flight(s, hs)) /\ Head(Flight(s, hs)) = Head(s)
         /\ Flight(s, hs) # <<>>
<1> DEFINE f == Flight(s, hs)
           g == Flight(Tail(s), hs)
           n == Len(s) + Len(hs)
<1>1. /\ Tail(s) \in Seq(PageMessage) /\ Len(s) >= 1 /\ Len(Tail(s)) = Len(s) - 1
      /\ \A i \in 1..(Len(s) - 1) : Tail(s)[i] = s[i + 1]
  OBVIOUS
<1>2. /\ f \in Seq(PageMessage) /\ Len(f) = n
      /\ \A i \in 1..n : f[i] = IF i <= Len(s) THEN s[i] ELSE Answer(hs[i - Len(s)])
  BY FlightTyped
<1>3. /\ g \in Seq(PageMessage) /\ Len(g) = Len(Tail(s)) + Len(hs)
      /\ \A i \in 1..(Len(Tail(s)) + Len(hs)) :
           g[i] = IF i <= Len(Tail(s)) THEN Tail(s)[i] ELSE Answer(hs[i - Len(Tail(s))])
  BY <1>1, FlightTyped
<1> HIDE DEF f, g
<1>4. f # <<>> /\ Head(f) = Head(s)
  BY <1>1, <1>2
<1>5. /\ Tail(f) \in Seq(PageMessage) /\ Len(Tail(f)) = n - 1
      /\ \A i \in 1..(n - 1) : Tail(f)[i] = f[i + 1]
  BY <1>2, <1>4
<1>6. Len(g) = n - 1
  BY <1>1, <1>3
<1>7. ASSUME NEW i \in 1..(n - 1) PROVE g[i] = Tail(f)[i]
  <2>1. i + 1 \in 1..n /\ Tail(f)[i] = f[i + 1]
    BY <1>1, <1>5
  <2>2. CASE i <= Len(s) - 1
    <3>1. g[i] = Tail(s)[i] /\ Tail(s)[i] = s[i + 1]
      BY <1>1, <1>3, <2>2
    <3>2. f[i + 1] = s[i + 1]
      BY <1>1, <1>2, <2>1, <2>2
    <3> QED BY <2>1, <3>1, <3>2
  <2>3. CASE i > Len(s) - 1
    <3>1. i - Len(Tail(s)) = (i + 1) - Len(s)
      BY <1>1
    <3>0. i \in 1..(Len(Tail(s)) + Len(hs)) /\ ~(i <= Len(Tail(s)))
      BY <1>1, <2>3
    <3>2. g[i] = Answer(hs[i - Len(Tail(s))])
      BY <1>3, <3>0
    <3>3. f[i + 1] = Answer(hs[(i + 1) - Len(s)])
      BY <1>1, <1>2, <2>1, <2>3
    <3> QED BY <2>1, <3>1, <3>2, <3>3
  <2>4. i <= Len(s) - 1 \/ i > Len(s) - 1
    BY <1>1
  <2> QED BY <2>2, <2>3, <2>4
<1> HIDE DEF n
<1>8. g = Tail(f)
  BY <1>3, <1>5, <1>6, <1>7, SameSequence
<1> QED BY <1>4, <1>8 DEF f, g

\* What the page posts is read after what is on its way.
LEMMA FlightPosted ==
  ASSUME NEW s \in Seq(PageMessage), NEW hs \in Seq(HostMessage), NEW gs \in Seq(HostMessage)
  PROVE  Flight(s, hs \o gs) = Flight(Flight(s, hs), gs)
<1> DEFINE f == Flight(s, hs)
           t == hs \o gs
           g == Flight(s, t)
           k == Flight(f, gs)
<1>1. /\ t \in Seq(HostMessage) /\ Len(t) = Len(hs) + Len(gs)
      /\ \A i \in 1..Len(t) : t[i] = IF i <= Len(hs) THEN hs[i] ELSE gs[i - Len(hs)]
  OBVIOUS
<1> HIDE DEF t
<1>2. /\ f \in Seq(PageMessage) /\ Len(f) = Len(s) + Len(hs)
      /\ \A i \in 1..(Len(s) + Len(hs)) :
           f[i] = IF i <= Len(s) THEN s[i] ELSE Answer(hs[i - Len(s)])
  BY FlightTyped
<1> HIDE DEF f
<1>3. /\ g \in Seq(PageMessage) /\ Len(g) = Len(s) + Len(t)
      /\ \A i \in 1..(Len(s) + Len(t)) :
           g[i] = IF i <= Len(s) THEN s[i] ELSE Answer(t[i - Len(s)])
  BY <1>1, FlightTyped
<1>4. /\ k \in Seq(PageMessage) /\ Len(k) = Len(f) + Len(gs)
      /\ \A i \in 1..(Len(f) + Len(gs)) :
           k[i] = IF i <= Len(f) THEN f[i] ELSE Answer(gs[i - Len(f)])
  BY <1>2, FlightTyped
<1> HIDE DEF g, k
<1>5. Len(g) = Len(k)
  BY <1>1, <1>2, <1>3, <1>4
<1>6. ASSUME NEW i \in 1..Len(g) PROVE g[i] = k[i]
  <2>1. i \in 1..(Len(s) + Len(t)) /\ i \in 1..(Len(f) + Len(gs))
    BY <1>3, <1>4, <1>5
  <2>2. CASE i <= Len(s)
    BY <1>2, <1>3, <1>4, <2>1, <2>2
  <2>3. CASE i > Len(s) /\ i <= Len(f)
    <3>1. i - Len(s) \in 1..Len(t) /\ i - Len(s) <= Len(hs)
      BY <1>1, <1>2, <2>1, <2>3
    <3>2. t[i - Len(s)] = hs[i - Len(s)]
      BY <1>1, <3>1
    <3>3. g[i] = Answer(t[i - Len(s)])
      BY <1>3, <2>1, <2>3
    <3>4. k[i] = f[i] /\ f[i] = Answer(hs[i - Len(s)])
      BY <1>2, <1>4, <2>1, <2>3
    <3> QED BY <3>2, <3>3, <3>4
  <2>4. CASE i > Len(f)
    <3>1. i - Len(s) \in 1..Len(t) /\ ~(i - Len(s) <= Len(hs))
          /\ (i - Len(s)) - Len(hs) = i - Len(f)
      BY <1>1, <1>2, <2>1, <2>4
    <3>2. t[i - Len(s)] = gs[i - Len(f)]
      BY <1>1, <3>1
    <3>3. g[i] = Answer(t[i - Len(s)])
      BY <1>2, <1>3, <2>1, <2>4
    <3>4. k[i] = Answer(gs[i - Len(f)])
      BY <1>4, <2>1, <2>4
    <3> QED BY <3>2, <3>3, <3>4
  <2> QED BY <1>2, <2>2, <2>3, <2>4
<1> QED BY <1>3, <1>4, <1>5, <1>6, SameSequence DEF f, g, k, t

LEMMA AppendItems ==
  ASSUME NEW s \in Seq(PageMessage), NEW m \in PageMessage
  PROVE  /\ Append(s, m) \in Seq(PageMessage) /\ Len(Append(s, m)) = Len(s) + 1
         /\ \A i \in 1..Len(Append(s, m)) :
              \/ i \in 1..Len(s) /\ Append(s, m)[i] = s[i]
              \/ i = Len(s) + 1 /\ Append(s, m)[i] = m
OBVIOUS

LEMMA PostedOne ==
  ASSUME NEW rest \in Seq(PageMessage), NEW p \in Page, NEW q \in Page, NEW h \in HostMessage,
         q.posted = Append(p.posted, h)
  PROVE  /\ Flight(rest, p.posted) \in Seq(PageMessage)
         /\ Flight(rest, q.posted) = Append(Flight(rest, p.posted), Answer(h))
<1>1. p.posted \in Seq(HostMessage)
  BY DEF Page
<1>2. Flight(rest, p.posted) \in Seq(PageMessage)
  BY <1>1, FlightTyped
<1>3. Flight(rest, Append(p.posted, h)) = Append(Flight(rest, p.posted), Answer(h))
  BY <1>1, FlightAppend
<1> QED BY <1>2, <1>3

-----------------------------------------------------------------------------
(* What keeps each part of the invariant.                                  *)

LEMMA RendersKept ==
  ASSUME NEW p, NEW q, NEW s \in Seq(PageMessage), Renders(p, s),
         q.renderSeq = p.renderSeq, q.answeredSeq = p.answeredSeq, q.last = p.last,
         q.asked \subseteq p.asked, q.mountAnswered = p.mountAnswered
  PROVE  Renders(q, s)
BY DEF Renders, RenderFits

LEMMA RendersBesideLayer ==
  ASSUME NEW p \in Page, NEW s \in Seq(PageMessage), NEW m \in PageMessage, ~IsRender(m), Renders(p, s)
  PROVE  Renders(p, Append(s, m))
<1> DEFINE t == Append(s, m)
<1>1. /\ t \in Seq(PageMessage) /\ Len(t) = Len(s) + 1
      /\ \A i \in 1..Len(t) :
           \/ i \in 1..Len(s) /\ t[i] = s[i]
           \/ i = Len(s) + 1 /\ t[i] = m
  BY AppendItems
<1> HIDE DEF t
<1>2. ASSUME NEW i \in 1..Len(t) PROVE RenderFits(p, t[i])
  BY <1>1 DEF Renders, RenderFits
<1>3. ASSUME NEW i \in 1..Len(t), NEW j \in 1..Len(t), i < j, IsRender(t[i]), IsRender(t[j])
      PROVE  t[i].seq < t[j].seq
  <2>1. i \in 1..Len(s) /\ t[i] = s[i] /\ j \in 1..Len(s) /\ t[j] = s[j]
    BY <1>1, <1>3
  <2> QED BY <1>3, <2>1 DEF Renders, Ordered
<1>4. Ordered(t)
  BY <1>3 DEF Ordered
<1> QED BY <1>2, <1>4 DEF Renders, t

LEMMA RendersAsked ==
  ASSUME NEW p \in Page, NEW q \in Page, NEW s \in Seq(PageMessage), NEW m \in PageMessage,
         Renders(p, s), IsRender(m), m.seq = p.renderSeq + 1, m.of = q.last, q.last \in Requests,
         m.why = Outcome(m.of), m.type = "gridReady" <=> m.why = "drawn",
         q.renderSeq = p.renderSeq + 1, q.answeredSeq = p.answeredSeq,
         q.asked = p.asked \cup {<<p.renderSeq + 1, q.last>>}
  PROVE  Renders(q, Append(s, m)) /\ q.answeredSeq # q.renderSeq
<1> DEFINE t == Append(s, m)
<1>1. /\ t \in Seq(PageMessage) /\ Len(t) = Len(s) + 1
      /\ \A i \in 1..Len(t) :
           \/ i \in 1..Len(s) /\ t[i] = s[i]
           \/ i = Len(s) + 1 /\ t[i] = m
  BY AppendItems
<1> HIDE DEF t
<1>2. p.renderSeq \in Nat /\ p.answeredSeq \in Nat
  BY DEF Page
<1>3. p.answeredSeq <= p.renderSeq /\ q.answeredSeq < q.renderSeq
  BY <1>2 DEF Renders
<1>4. ASSUME NEW i \in 1..Len(t) PROVE RenderFits(q, t[i])
  <2>1. CASE i \in 1..Len(s) /\ t[i] = s[i]
    <3>1. RenderFits(p, t[i])
      BY <2>1 DEF Renders
    <3>2. IsRender(t[i]) => t[i].seq \in Nat /\ t[i].seq <= p.renderSeq
      BY <3>1 DEF RenderFits
    <3>3. IsRender(t[i]) => t[i].seq <= q.renderSeq /\ t[i].seq # q.renderSeq
      BY <1>2, <3>2
    <3> QED BY <1>3, <3>1, <3>2, <3>3 DEF RenderFits
  <2>2. CASE t[i] = m
    <3>1. m.seq \in Nat /\ m.seq <= q.renderSeq
      BY <1>2
    <3> QED BY <1>3, <2>2, <3>1 DEF RenderFits
  <2> QED BY <1>1, <2>1, <2>2
<1>5. ASSUME NEW i \in 1..Len(t), NEW j \in 1..Len(t), i < j, IsRender(t[i]), IsRender(t[j])
      PROVE  t[i].seq < t[j].seq
  <2>1. i \in 1..Len(s) /\ t[i] = s[i]
    BY <1>1, <1>5
  <2>2. CASE j \in 1..Len(s) /\ t[j] = s[j]
    BY <1>5, <2>1, <2>2 DEF Renders, Ordered
  <2>3. CASE t[j] = m
    <3>1. s[i].seq \in Nat /\ s[i].seq <= p.renderSeq
      BY <1>5, <2>1 DEF Renders, RenderFits
    <3> QED BY <1>2, <2>1, <2>3, <3>1
  <2> QED BY <1>1, <2>2, <2>3
<1>6. Ordered(t)
  BY <1>5 DEF Ordered
<1>7. \A a \in q.asked : a[1] \in 1..q.renderSeq
  <2>1. ASSUME NEW a \in q.asked PROVE a[1] \in 1..q.renderSeq
    <3>1. CASE a \in p.asked
      BY <1>2, <3>1 DEF Renders
    <3>2. CASE a = <<p.renderSeq + 1, q.last>>
      BY <1>2, <3>2
    <3> QED BY <3>1, <3>2
  <2> QED BY <2>1
<1> QED BY <1>2, <1>3, <1>4, <1>6, <1>7 DEF Renders, t

LEMMA OverlaysKept ==
  ASSUME NEW p, NEW q, NEW s \in Seq(PageMessage), Overlays(p, s),
         q.overlay = p.overlay, q.picture = p.picture, q.ticked = p.ticked
  PROVE  Overlays(q, s)
BY DEF Overlays, OverlayShown, OverlayFits

LEMMA OverlaysBeside ==
  ASSUME NEW p, NEW s \in Seq(PageMessage), NEW m \in PageMessage, ~IsOverlay(m), Overlays(p, s)
  PROVE  Overlays(p, Append(s, m))
<1> DEFINE t == Append(s, m)
<1>1. /\ t \in Seq(PageMessage) /\ Len(t) = Len(s) + 1
      /\ \A i \in 1..Len(t) :
           \/ i \in 1..Len(s) /\ t[i] = s[i]
           \/ i = Len(s) + 1 /\ t[i] = m
  BY AppendItems
<1> HIDE DEF t
<1> QED BY <1>1 DEF Overlays, OverlayFits, t

LEMMA ContoursStay ==
  ASSUME NEW p, NEW q, NEW s \in Seq(PageMessage), Contours(p, s),
         q.contours = p.contours, q.picture = p.picture, q.ticked = p.ticked
  PROVE  Contours(q, s)
BY DEF Contours, KeptContours, ContoursKept, ContoursOfPicture, ContoursFit

LEMMA ContoursBeside ==
  ASSUME NEW p, NEW s \in Seq(PageMessage), NEW m \in PageMessage, ~IsContours(m), Contours(p, s)
  PROVE  Contours(p, Append(s, m))
<1> DEFINE t == Append(s, m)
<1>1. /\ t \in Seq(PageMessage) /\ Len(t) = Len(s) + 1
      /\ \A i \in 1..Len(t) :
           \/ i \in 1..Len(s) /\ t[i] = s[i]
           \/ i = Len(s) + 1 /\ t[i] = m
  BY AppendItems
<1> HIDE DEF t
<1> QED BY <1>1 DEF Contours, KeptContours, ContoursFit, t

LEMMA KeptContoursBeside ==
  ASSUME NEW p, NEW s \in Seq(PageMessage), NEW m \in PageMessage, ~IsContours(m), KeptContours(p, s)
  PROVE  KeptContours(p, Append(s, m))
<1> DEFINE t == Append(s, m)
<1>1. /\ t \in Seq(PageMessage) /\ Len(t) = Len(s) + 1
      /\ \A i \in 1..Len(t) :
           \/ i \in 1..Len(s) /\ t[i] = s[i]
           \/ i = Len(s) + 1 /\ t[i] = m
  BY AppendItems
<1> HIDE DEF t
<1> QED BY <1>1 DEF KeptContours, ContoursFit, t

\* Layers given up: what was on its way for them is dropped.
LEMMA OverlayGone ==
  ASSUME NEW p \in Page, NEW q \in Page, NEW s \in Seq(PageMessage), Overlays(p, s),
         q.overlay = Dropped(p.overlay), q.picture = None
  PROVE  Overlays(q, s)
<1>1. p.overlay \in Layer(Geometries)
  BY DEF Page
<1>2. q.overlay.seq = p.overlay.seq + 1 /\ q.overlay.key = None /\ q.overlay.runs = None
  BY <1>1, DroppedLayer
<1>3. p.overlay.seq \in Nat
  BY <1>1 DEF Layer
<1>4. ASSUME NEW i \in 1..Len(s), IsOverlay(s[i])
      PROVE  s[i].seq <= q.overlay.seq /\ s[i].seq # q.overlay.seq
  <2>1. s[i] \in PageMessage /\ s[i].seq <= p.overlay.seq
    BY <1>4 DEF Overlays, OverlayFits
  <2>2. s[i].seq \in Nat
    BY <2>1, MessageKinds
  <2> QED BY <1>2, <1>3, <2>1, <2>2
<1> QED BY <1>2, <1>4 DEF Overlays, OverlayShown, OverlayFits

LEMMA ContoursGone ==
  ASSUME NEW p \in Page, NEW q \in Page, NEW s \in Seq(PageMessage), KeptContours(p, s),
         q.contours.seq = p.contours.seq + 1, q.contours.key = None, q.contours.runs = None
  PROVE  Contours(q, s)
<1>1. p.contours.seq \in Nat
  BY DEF Page, Layer
<1>2. ASSUME NEW i \in 1..Len(s), IsContours(s[i])
      PROVE  s[i].seq <= q.contours.seq /\ s[i].seq # q.contours.seq
  <2>1. s[i] \in PageMessage /\ s[i].seq <= p.contours.seq
    BY <1>2 DEF KeptContours, ContoursFit
  <2>2. s[i].seq \in Nat
    BY <2>1, MessageKinds
  <2> QED BY <1>1, <2>1, <2>2
<1> QED BY <1>2 DEF Contours, KeptContours, ContoursKept, ContoursOfPicture, ContoursFit

\* Asking for the overlay again: what was on its way for it is superseded.
LEMMA OverlayAskedAgain ==
  ASSUME NEW p \in Page, NEW q \in Page, NEW rest \in Seq(PageMessage), p.picture # None,
         \A i \in 1..Len(Flight(rest, p.posted)) :
           LET m == Flight(rest, p.posted)[i]
           IN IsOverlay(m) => m.seq <= p.overlay.seq /\ (m.type = "overlayReady" <=> Lined(m.of)),
         q.overlay.runs # None => q.overlay.runs = p.picture.geometry,
         q.picture = p.picture, q.ticked = p.ticked,
         q.overlay.seq = p.overlay.seq + 1, q.overlay.key = p.picture.geometry,
         \/ /\ "overlay" \in p.ticked
            /\ q.overlay.asked = p.overlay.seq + 1
            /\ q.posted = Append(p.posted, [type |-> "overlay", seq |-> q.overlay.seq,
                                            of |-> p.picture])
         \/ /\ "overlay" \notin p.ticked /\ q.overlay.runs = None
            /\ q.overlay.asked = p.overlay.asked /\ q.posted = p.posted
  PROVE  /\ Overlays(q, Flight(rest, q.posted))
         /\ \/ q.posted = p.posted
            \/ \E m \in PageMessage : /\ ~IsContours(m) /\ ~IsRender(m)
                                      /\ Flight(rest, q.posted) = Append(Flight(rest, p.posted), m)
<1> DEFINE s == Flight(rest, p.posted)
           h == [type |-> "overlay", seq |-> q.overlay.seq, of |-> p.picture]
           a == Answer(h)
<1>1. p.overlay.seq \in Nat /\ q.overlay.seq \in Nat /\ p.posted \in Seq(HostMessage)
      /\ p.picture \in Requests
  BY DEF Page, Layer
<1>2. h \in HostMessage
  BY <1>1 DEF HostMessage
<1>3. s \in Seq(PageMessage)
  BY <1>1, FlightTyped
<1>4. p.picture.geometry \in Geometries /\ p.picture.geometry # None
  BY <1>1, RequestAssumption DEF Requests
<1>5. ASSUME NEW i \in 1..Len(s), IsOverlay(s[i])
      PROVE  s[i].seq <= q.overlay.seq /\ s[i].seq # q.overlay.seq
             /\ (s[i].type = "overlayReady" <=> Lined(s[i].of))
  <2>1. s[i] \in PageMessage /\ s[i].seq <= p.overlay.seq
        /\ (s[i].type = "overlayReady" <=> Lined(s[i].of))
    BY <1>3, <1>5
  <2>2. s[i].seq \in Nat
    BY <2>1, MessageKinds
  <2> QED BY <1>1, <2>1, <2>2
<1>6. CASE "overlay" \in p.ticked
  <2>1. q.posted = Append(p.posted, h)
    BY <1>6
  <2>2. Flight(rest, q.posted) = Append(s, a)
    BY <1>2, <2>1, PostedOne
  <2>3. a \in PageMessage /\ a.seq = q.overlay.seq /\ a.of = p.picture /\ IsOverlay(a)
        /\ (a.type = "overlayReady" <=> Lined(a.of))
    BY <1>2, AnswerTyped
  <2>4. ~IsContours(a) /\ ~IsRender(a)
    BY <2>3, MessageKinds
  <2> DEFINE t == Append(s, a)
  <2> HIDE DEF a, s
  <2>5. /\ t \in Seq(PageMessage) /\ Len(t) = Len(s) + 1
        /\ \A i \in 1..Len(t) :
             \/ i \in 1..Len(s) /\ t[i] = s[i]
             \/ i = Len(s) + 1 /\ t[i] = a
    BY <1>3, <2>3, AppendItems
  <2> HIDE DEF t
  <2>6. ASSUME NEW i \in 1..Len(t) PROVE OverlayFits(q, t[i])
    <3>1. CASE i \in 1..Len(s) /\ t[i] = s[i]
      BY <1>5, <3>1 DEF OverlayFits
    <3>2. CASE t[i] = a
      BY <1>1, <1>6, <2>3, <3>2 DEF OverlayFits
    <3> QED BY <2>5, <3>1, <3>2
  <2>7. Pending(q.overlay)
    BY <1>1, <1>6 DEF Pending
  <2>8. OverlayShown(q)
    BY <1>4, <1>6, <2>7 DEF OverlayShown
  <2> QED BY <2>2, <2>3, <2>4, <2>6, <2>8 DEF Overlays, t, s
<1>7. CASE "overlay" \notin p.ticked
  <2>1. q.posted = p.posted /\ q.overlay.runs = None
    BY <1>7
  <2>2. \A i \in 1..Len(s) : OverlayFits(q, s[i])
    BY <1>5 DEF OverlayFits
  <2>3. OverlayShown(q)
    BY <1>4, <1>7, <2>1 DEF OverlayShown
  <2> QED BY <2>1, <2>2, <2>3 DEF Overlays
<1> QED BY <1>6, <1>7

\* Asking for contours again, or giving them up.
LEMMA ContoursAskedAgain ==
  ASSUME NEW p \in Page, NEW rest \in Seq(PageMessage),
         \A i \in 1..Len(Flight(rest, p.posted)) :
           LET m == Flight(rest, p.posted)[i]
           IN IsContours(m) => m.seq <= p.contours.seq /\ (m.type = "contourReady" <=> Lined(m.of)),
         p.contours.runs # None =>
           p.picture # None /\ p.contours.runs.geometry = p.picture.geometry
  PROVE  LET q == RequestContours(p)
         IN /\ Contours(q, Flight(rest, q.posted))
            /\ q.refusal = None /\ q.picture # None /\ "contours" \in q.ticked => q.contours.key # None
            /\ \/ q.posted = p.posted
               \/ \E m \in PageMessage : /\ ~IsOverlay(m) /\ ~IsRender(m)
                                         /\ Flight(rest, q.posted) = Append(Flight(rest, p.posted), m)
<1> DEFINE q == RequestContours(p)
           s == Flight(rest, p.posted)
           h == [type |-> "contours", seq |-> q.contours.seq, of |-> p.picture]
           a == Answer(h)
           asks == p.picture # None /\ "contours" \in p.ticked /\ p.refusal = None
<1>1. /\ q \in Page /\ q.picture = p.picture /\ q.ticked = p.ticked
      /\ q.contours.seq = p.contours.seq + 1
      /\ \/ /\ asks /\ q.contours.key = p.picture /\ q.contours.runs = p.contours.runs
            /\ q.contours.asked = p.contours.seq + 1
            /\ q.posted = Append(p.posted, h)
         \/ /\ ~asks /\ q.contours.key = None /\ q.contours.runs = None
            /\ q.posted = p.posted
      /\ q.refusal = p.refusal
  BY ContoursEffect DEF SameVerdict
<1> HIDE DEF q
<1>2. p.contours.seq \in Nat /\ q.contours.seq \in Nat /\ p.posted \in Seq(HostMessage)
      /\ p.picture \in Requests \cup {None}
  BY <1>1 DEF Page, Layer
<1>3. s \in Seq(PageMessage)
  BY <1>2, FlightTyped
<1>4. ASSUME NEW i \in 1..Len(s), IsContours(s[i])
      PROVE  s[i].seq <= q.contours.seq /\ s[i].seq # q.contours.seq
             /\ (s[i].type = "contourReady" <=> Lined(s[i].of))
  <2>1. s[i] \in PageMessage /\ s[i].seq <= p.contours.seq
        /\ (s[i].type = "contourReady" <=> Lined(s[i].of))
    BY <1>3, <1>4
  <2>2. s[i].seq \in Nat
    BY <2>1, MessageKinds
  <2> QED BY <1>1, <1>2, <2>1, <2>2
<1>5. CASE asks
  <2>1. h \in HostMessage
    BY <1>2, <1>5 DEF HostMessage
  <2>2. q.posted = Append(p.posted, h)
    BY <1>1, <1>5
  <2>3. Flight(rest, q.posted) = Append(s, a)
    BY <1>1, <2>1, <2>2, PostedOne
  <2>4. a \in PageMessage /\ a.seq = q.contours.seq /\ a.of = p.picture /\ IsContours(a)
        /\ (a.type = "contourReady" <=> Lined(a.of))
    BY <2>1, AnswerTyped
  <2>5. ~IsOverlay(a) /\ ~IsRender(a)
    BY <2>4, MessageKinds
  <2> DEFINE t == Append(s, a)
  <2> HIDE DEF a, s
  <2>6. /\ t \in Seq(PageMessage) /\ Len(t) = Len(s) + 1
        /\ \A i \in 1..Len(t) :
             \/ i \in 1..Len(s) /\ t[i] = s[i]
             \/ i = Len(s) + 1 /\ t[i] = a
    BY <1>3, <2>4, AppendItems
  <2> HIDE DEF t
  <2>7. q.contours.key = p.picture /\ q.contours.key # None
    BY <1>1, <1>5
  <2>8. ASSUME NEW i \in 1..Len(t) PROVE ContoursFit(q, t[i])
    <3>1. CASE i \in 1..Len(s) /\ t[i] = s[i]
      BY <1>4, <3>1 DEF ContoursFit
    <3>2. CASE t[i] = a
      BY <1>2, <2>4, <2>7, <3>2 DEF ContoursFit
    <3> QED BY <2>6, <3>1, <3>2
  <2>9. Pending(q.contours)
    BY <1>1, <1>2, <1>5 DEF Pending
  <2>10. ContoursKept(q) /\ ContoursOfPicture(q)
    BY <1>1, <1>5, <2>7, <2>9 DEF ContoursKept, ContoursOfPicture
  <2> QED BY <2>3, <2>4, <2>5, <2>7, <2>8, <2>10 DEF Contours, KeptContours, t, s, q
<1>6. CASE ~asks
  <2>1. q.posted = p.posted /\ q.contours.runs = None /\ q.contours.key = None
    BY <1>1, <1>6
  <2>2. \A i \in 1..Len(s) : ContoursFit(q, s[i])
    BY <1>4 DEF ContoursFit
  <2>3. ContoursKept(q) /\ ContoursOfPicture(q)
    BY <2>1 DEF ContoursKept, ContoursOfPicture
  <2>4. ~(q.refusal = None /\ q.picture # None /\ "contours" \in q.ticked)
    BY <1>1, <1>6
  <2> QED BY <2>1, <2>2, <2>3, <2>4 DEF Contours, KeptContours, q
<1> QED BY <1>5, <1>6

-----------------------------------------------------------------------------
(* The invariant as a whole.                                               *)

\* What stands whether or not the last render is answered.
PageBase(p, s) == Renders(p, s) /\ Overlays(p, s) /\ Contours(p, s) /\ DrawnPicture(p)

LEMMA PageInvKept ==
  ASSUME NEW p, NEW q, NEW s \in Seq(PageMessage), PageInv(p, s),
         SameShown(p, q), SameVerdict(p, q), SameMarks(p, q), SameCounts(p, q)
  PROVE  PageInv(q, s)
<1>1. Renders(q, s)
  BY RendersKept DEF PageInv, SameCounts
<1>2. Overlays(q, s) /\ Contours(q, s)
  BY OverlaysKept, ContoursStay DEF PageInv, SameShown
<1>3. DrawnPicture(q) /\ Marks(q) /\ Finish(q)
  BY DEF PageInv, SameShown, SameVerdict, SameMarks, SameCounts, DrawnPicture, Marks, Finish, Fine
<1> QED BY <1>1, <1>2, <1>3 DEF PageInv

LEMMA PageBaseKept ==
  ASSUME NEW p, NEW q, NEW s \in Seq(PageMessage), PageBase(p, s),
         SameShown(p, q), SameCounts(p, q)
  PROVE  PageBase(q, s)
<1>1. Renders(q, s)
  BY RendersKept DEF PageBase, SameCounts
<1>2. Overlays(q, s) /\ Contours(q, s)
  BY OverlaysKept, ContoursStay DEF PageBase, SameShown
<1>3. DrawnPicture(q)
  BY DEF PageBase, SameShown, DrawnPicture
<1> QED BY <1>1, <1>2, <1>3 DEF PageBase

\* A refusal shown or withdrawn.
LEMMA PageBaseRefused ==
  ASSUME NEW p \in Page, NEW r \in Refusals \cup {None}, NEW s \in Seq(PageMessage), PageBase(p, s)
  PROVE  PageBase(ShowRangeRefusal(p, r), s)
<1> DEFINE q == ShowRangeRefusal(p, r)
<1>1. /\ q \in Page /\ q.picture = p.picture /\ q.overlay = p.overlay /\ q.ticked = p.ticked
      /\ \/ r = None /\ q.contours = p.contours
         \/ r # None /\ q.contours = Dropped(p.contours)
      /\ SameCounts(p, q)
  BY RefusalEffect
<1> HIDE DEF q
<1>2. Renders(q, s)
  BY <1>1, RendersKept DEF PageBase, SameCounts
<1>3. Overlays(q, s)
  BY <1>1, OverlaysKept DEF PageBase
<1>4. Contours(q, s)
  <2>1. CASE q.contours = p.contours
    BY <1>1, <2>1, ContoursStay DEF PageBase
  <2>2. CASE q.contours = Dropped(p.contours)
    <3>1. p.contours \in Layer(Requests)
      BY DEF Page
    <3>2. q.contours.seq = p.contours.seq + 1 /\ q.contours.key = None /\ q.contours.runs = None
      BY <2>2, <3>1, DroppedLayer
    <3> QED BY <1>1, <3>2, ContoursGone DEF PageBase, Contours
  <2> QED BY <1>1, <2>1, <2>2
<1>5. DrawnPicture(q)
  BY <1>1 DEF PageBase, DrawnPicture
<1> QED BY <1>2, <1>3, <1>4, <1>5 DEF PageBase, q

LEMMA Unanswered ==
  ASSUME NEW p, NEW s, PageBase(p, s), p.answeredSeq # p.renderSeq
  PROVE  PageInv(p, s)
BY DEF PageBase, PageInv, Marks, Finish, Fine

\* A render asked for: nothing is claimed of the picture until its answer.
LEMMA RerenderInv ==
  ASSUME NEW p \in Page, NEW q \in Page, NEW rest \in Seq(PageMessage),
         PageBase(p, Flight(rest, p.posted)), AsksRender(p, q)
  PROVE  PageInv(q, Flight(rest, q.posted)) /\ q.answeredSeq # q.renderSeq
<1> DEFINE s == Flight(rest, p.posted)
           h == [type |-> "rerender", seq |-> p.renderSeq + 1, of |-> q.want]
           a == Answer(h)
           t == Flight(rest, q.posted)
<1>1. /\ q.posted = Append(p.posted, h)
      /\ q.renderSeq = p.renderSeq + 1 /\ q.answeredSeq = p.answeredSeq /\ q.last = q.want
      /\ q.asked = p.asked \cup {<<p.renderSeq + 1, q.last>>}
      /\ SameShown(p, q)
  BY DEF AsksRender
<1>2. p.renderSeq \in Nat /\ q.want \in Requests /\ p.posted \in Seq(HostMessage)
  BY DEF Page
<1>3. h \in HostMessage
  BY <1>2 DEF HostMessage
<1> HIDE DEF h
<1>4. s \in Seq(PageMessage) /\ t = Append(s, a)
  BY <1>1, <1>3, PostedOne
<1>5. /\ a \in PageMessage /\ a.seq = p.renderSeq + 1 /\ a.of = q.last /\ IsRender(a)
      /\ a.why = Outcome(a.of) /\ (a.type = "gridReady" <=> a.why = "drawn")
  BY <1>1, <1>3, AnswerTyped DEF h
<1>6. ~IsOverlay(a) /\ ~IsContours(a)
  BY <1>5, MessageKinds
<1> HIDE DEF s, a, t
<1>7. Renders(q, Append(s, a)) /\ q.answeredSeq # q.renderSeq
  BY <1>1, <1>2, <1>4, <1>5, RendersAsked DEF PageBase, s
<1>8. Overlays(q, s) /\ Contours(q, s) /\ DrawnPicture(q)
  BY <1>1, <1>4, OverlaysKept, ContoursStay DEF PageBase, SameShown, DrawnPicture, s
<1>9. Overlays(q, Append(s, a)) /\ Contours(q, Append(s, a))
  BY <1>4, <1>5, <1>6, <1>8, OverlaysBeside, ContoursBeside
<1>10. PageBase(q, t)
  BY <1>4, <1>7, <1>8, <1>9 DEF PageBase
<1> QED BY <1>7, <1>10, Unanswered DEF t

\* The next answer, and what is left on its way.
LEMMA TakeHead ==
  ASSUME NEW p, NEW s \in Seq(PageMessage), s # <<>>, PageInv(p, s)
  PROVE  /\ PageInv(p, Tail(s)) /\ Tail(s) \in Seq(PageMessage) /\ Head(s) \in PageMessage
         /\ RenderFits(p, Head(s)) /\ OverlayFits(p, Head(s)) /\ ContoursFit(p, Head(s))
         /\ IsRender(Head(s)) =>
              \A i \in 1..Len(Tail(s)) : IsRender(Tail(s)[i]) => Head(s).seq < Tail(s)[i].seq
<1> DEFINE t == Tail(s)
           m == Head(s)
<1>1. /\ t \in Seq(PageMessage) /\ Len(s) \in Nat /\ Len(s) >= 1 /\ Len(t) = Len(s) - 1
      /\ m \in PageMessage /\ m = s[1] /\ 1 \in 1..Len(s)
      /\ \A i \in 1..Len(t) : t[i] = s[i + 1] /\ i + 1 \in 1..Len(s)
  OBVIOUS
<1> HIDE DEF t, m
<1>2. /\ \A i \in 1..Len(s) : RenderFits(p, s[i]) /\ OverlayFits(p, s[i]) /\ ContoursFit(p, s[i])
      /\ Ordered(s)
  BY DEF PageInv, Renders, Overlays, Contours, KeptContours
<1>3. ASSUME NEW i \in 1..Len(t), NEW j \in 1..Len(t), i < j, IsRender(t[i]), IsRender(t[j])
      PROVE  t[i].seq < t[j].seq
  <2>1. i + 1 < j + 1 /\ i + 1 \in 1..Len(s) /\ j + 1 \in 1..Len(s)
    BY <1>1, <1>3
  <2>2. t[i] = s[i + 1] /\ t[j] = s[j + 1]
    BY <1>1
  <2> QED BY <1>2, <1>3, <2>1, <2>2 DEF Ordered
<1>4. Ordered(t)
  BY <1>3 DEF Ordered
<1>5. ASSUME NEW i \in 1..Len(t), IsRender(m), IsRender(t[i]) PROVE m.seq < t[i].seq
  <2>1. 1 < i + 1 /\ i + 1 \in 1..Len(s) /\ t[i] = s[i + 1]
    BY <1>1
  <2> QED BY <1>1, <1>2, <1>5, <2>1 DEF Ordered
<1>6. \A i \in 1..Len(t) : RenderFits(p, t[i]) /\ OverlayFits(p, t[i]) /\ ContoursFit(p, t[i])
  BY <1>1, <1>2
<1>7. PageInv(p, t)
  BY <1>4, <1>6 DEF PageInv, Renders, Overlays, Contours, KeptContours
<1> QED BY <1>1, <1>2, <1>5, <1>7 DEF t, m

\* Renders once an answer m is taken from their line.
LEMMA RendersTaken ==
  ASSUME page \in Page, NEW q \in Page, NEW rest \in Seq(PageMessage), NEW m \in RenderAnswer,
         Renders(page, rest), RenderFits(page, m),
         \A i \in 1..Len(rest) : IsRender(rest[i]) => m.seq < rest[i].seq,
         q.renderSeq = page.renderSeq, q.answeredSeq = AnsweredSeq(m), q.last = page.last,
         q.asked \subseteq page.asked, q.mountAnswered
  PROVE  /\ Renders(q, rest)
         /\ Latest(m) => m.of = page.last
         /\ ~Latest(m) => q.answeredSeq # q.renderSeq
<1>1. page.renderSeq \in Nat /\ page.answeredSeq \in Nat /\ m \in PageMessage /\ IsRender(m)
  BY DEF Page, PageMessage, RenderAnswer, IsRender
<1>2. /\ m.seq \in Nat /\ m.seq <= page.renderSeq /\ page.answeredSeq < page.renderSeq
      /\ m.seq = page.renderSeq => m.of = page.last
  BY <1>1 DEF RenderFits
<1>3. CASE Latest(m)
  <2>1. m.seq = page.renderSeq /\ q.answeredSeq = page.renderSeq
    BY <1>1, <1>2, <1>3 DEF Latest, AnsweredSeq
  <2>2. ASSUME NEW i \in 1..Len(rest) PROVE ~IsRender(rest[i])
    <3>1. SUFFICES ASSUME IsRender(rest[i]) PROVE FALSE
      OBVIOUS
    <3>2. rest[i].seq \in Nat /\ rest[i].seq <= page.renderSeq /\ m.seq < rest[i].seq
      BY <3>1 DEF Renders, RenderFits
    <3> QED BY <1>1, <2>1, <3>2
  <2>3. Renders(q, rest)
    BY <1>1, <2>1, <2>2 DEF Renders, RenderFits
  <2> QED BY <1>2, <1>3, <2>1, <2>3
<1>4. CASE ~Latest(m)
  <2>1. q.answeredSeq = page.answeredSeq
    BY <1>4 DEF AnsweredSeq
  <2>2. Renders(q, rest)
    BY <1>1, <1>2, <2>1 DEF Renders, RenderFits
  <2> QED BY <1>1, <1>2, <1>4, <2>1, <2>2
<1> QED BY <1>3, <1>4

-----------------------------------------------------------------------------
(* A picture drawn, and the lines that follow it.                          *)

\* FollowOverlay leaves an overlay of the new picture, and contours of its geometry.
LEMMA LinedInv ==
  ASSUME page \in Page, page.posted = <<>>, NEW rest \in Seq(PageMessage), PageInv(page, rest),
         NEW m \in RenderAnswer
  PROVE  LET d == Drawn(page, m)
             l == FollowOverlay(d)
         IN /\ l \in Page /\ l.picture = m.of /\ l.ticked = page.ticked /\ l.want = page.want
            /\ Overlays(l, Flight(rest, l.posted)) /\ KeptContours(l, Flight(rest, l.posted))
            /\ \/ l.posted = d.posted
               \/ \E a \in PageMessage : /\ ~IsContours(a) /\ ~IsRender(a)
                                         /\ Flight(rest, l.posted) = Append(rest, a)
            /\ SameVerdict(d, l) /\ SameMarks(d, l) /\ SameCounts(d, l) /\ SameWaits(d, l)
<1> DEFINE d == Drawn(page, m)
           l == FollowOverlay(d)
<1>1. /\ d \in Page /\ d.posted = <<>>
      /\ d.picture = m.of /\ d.overlay = page.overlay /\ d.contours = page.contours
      /\ d.ticked = page.ticked /\ d.want = page.want
  BY DrawnEffect
<1>2. Flight(rest, d.posted) = rest /\ d.posted = page.posted
  BY <1>1, FlightNone
<1>3. m.of \in Requests /\ m.of # None /\ m.of.geometry \in Geometries /\ m.of.geometry # None
  BY RequestAssumption DEF RenderAnswer, Requests
<1> HIDE DEF d
<1>4. \/ l = d /\ d.overlay.key = d.picture.geometry
      \/ /\ d.overlay.key # d.picture.geometry
         /\ l \in Page /\ l.picture = d.picture /\ l.ticked = d.ticked
         /\ l.contours.seq = d.contours.seq /\ l.contours.asked = d.contours.asked
         /\ l.contours.key = d.contours.key /\ l.contours.runs = None
         /\ l.overlay.seq = d.overlay.seq + 1 /\ l.overlay.key = d.picture.geometry
         /\ l.overlay.runs = None
         /\ \/ /\ "overlay" \in d.ticked /\ l.overlay.asked = d.overlay.seq + 1
               /\ l.posted = Append(d.posted, [type |-> "overlay", seq |-> l.overlay.seq,
                                               of |-> d.picture])
            \/ /\ "overlay" \notin d.ticked /\ l.overlay.asked = d.overlay.asked
               /\ l.posted = d.posted
         /\ SameVerdict(d, l) /\ SameMarks(d, l) /\ SameCounts(d, l) /\ SameWaits(d, l)
         /\ l.want = d.want
  BY <1>1, <1>3, FollowOverlayEffect
<1> HIDE DEF l
<1>5. OverlayShown(page) /\ ContoursKept(page) /\ ContoursOfPicture(page)
      /\ \A i \in 1..Len(rest) : OverlayFits(page, rest[i]) /\ ContoursFit(page, rest[i])
  BY DEF PageInv, Overlays, Contours, KeptContours
<1>6. CASE l = d /\ d.overlay.key = d.picture.geometry
  <2>1. page.picture # None /\ page.picture.geometry = d.picture.geometry
    BY <1>1, <1>3, <1>5, <1>6 DEF OverlayShown
  <2>2. Lined(d.picture) <=> Lined(page.picture)
    BY <2>1 DEF Lined
  <2>3. OverlayShown(d)
    BY <1>1, <1>3, <1>5, <2>1, <2>2 DEF OverlayShown
  <2>4. \A i \in 1..Len(rest) : OverlayFits(d, rest[i])
    BY <1>1, <1>3, <1>5, <2>1 DEF OverlayFits
  <2>5. ContoursKept(d)
    BY <1>1, <1>3, <1>5, <2>1 DEF ContoursKept, ContoursOfPicture
  <2>6. \A i \in 1..Len(rest) : ContoursFit(d, rest[i])
    BY <1>1, <1>5 DEF ContoursFit
  <2>7. SameVerdict(d, d) /\ SameMarks(d, d) /\ SameCounts(d, d) /\ SameWaits(d, d)
    BY DEF SameVerdict, SameMarks, SameCounts, SameWaits
  <2> QED BY <1>1, <1>2, <1>6, <2>3, <2>4, <2>5, <2>6, <2>7 DEF Overlays, KeptContours, l, d
<1>7. CASE d.overlay.key # d.picture.geometry
  <2>1. l \in Page /\ l.picture = m.of /\ l.ticked = page.ticked /\ l.want = page.want
    BY <1>1, <1>4, <1>7
  <2>2. \A i \in 1..Len(rest) :
          IsOverlay(rest[i]) =>
            rest[i].seq <= d.overlay.seq /\ (rest[i].type = "overlayReady" <=> Lined(rest[i].of))
    BY <1>1, <1>5 DEF OverlayFits
  <2>3. /\ Overlays(l, Flight(rest, l.posted))
        /\ \/ l.posted = d.posted
           \/ \E a \in PageMessage : /\ ~IsContours(a) /\ ~IsRender(a)
                                     /\ Flight(rest, l.posted) = Append(Flight(rest, d.posted), a)
    <3>1. /\ l.overlay.seq = d.overlay.seq + 1 /\ l.overlay.key = d.picture.geometry
          /\ l.overlay.runs = None /\ l.picture = d.picture /\ l.ticked = d.ticked
          /\ \/ /\ "overlay" \in d.ticked /\ l.overlay.asked = d.overlay.seq + 1
                /\ l.posted = Append(d.posted, [type |-> "overlay", seq |-> l.overlay.seq,
                                                of |-> d.picture])
             \/ /\ "overlay" \notin d.ticked /\ l.overlay.asked = d.overlay.asked
                /\ l.posted = d.posted
      BY <1>4, <1>7
    <3>2. \A i \in 1..Len(Flight(rest, d.posted)) :
            LET a == Flight(rest, d.posted)[i]
            IN IsOverlay(a) => a.seq <= d.overlay.seq /\ (a.type = "overlayReady" <=> Lined(a.of))
      BY <1>2, <2>2
    <3>3. d.picture # None
      BY <1>1, <1>3
    <3> QED BY <1>1, <2>1, <3>1, <3>2, <3>3, OverlayAskedAgain
  <2>4. ContoursKept(l)
    <3>1. /\ l.contours.seq = page.contours.seq /\ l.contours.asked = page.contours.asked
          /\ l.contours.key = page.contours.key /\ l.contours.runs = None
      BY <1>1, <1>4, <1>7
    <3>2. l.contours.key # None => "contours" \in l.ticked
      BY <1>5, <2>1, <3>1 DEF ContoursKept
    <3>3. ASSUME l.contours.key # None, l.contours.key = l.picture PROVE ~Lined(l.picture)
      <4>1. page.picture = l.picture /\ page.picture # None
        BY <1>5, <3>1, <3>3 DEF ContoursOfPicture
      <4>2. page.overlay.key # page.picture.geometry
        BY <1>1, <1>7, <2>1, <4>1
      <4> QED BY <1>5, <4>1, <4>2 DEF OverlayShown
    <3> QED BY <3>1, <3>2, <3>3 DEF ContoursKept
  <2>5. \A i \in 1..Len(rest) : ContoursFit(l, rest[i])
    BY <1>1, <1>4, <1>5, <1>7 DEF ContoursFit
  <2>6. KeptContours(l, rest)
    BY <2>4, <2>5 DEF KeptContours
  <2>7. KeptContours(l, Flight(rest, l.posted))
    <3>1. CASE l.posted = d.posted
      BY <1>2, <2>6, <3>1
    <3>2. CASE \E a \in PageMessage : /\ ~IsContours(a) /\ ~IsRender(a)
                                      /\ Flight(rest, l.posted) = Append(Flight(rest, d.posted), a)
      BY <1>2, <2>6, <3>2, KeptContoursBeside
    <3> QED BY <2>3, <3>1, <3>2
  <2> QED BY <1>2, <1>4, <1>7, <2>1, <2>3, <2>7 DEF l, d
<1> QED BY <1>4, <1>6, <1>7

\* FollowContours leaves contours of the new picture too.
LEMMA RingedInv ==
  ASSUME NEW l \in Page, NEW rest \in Seq(PageMessage), l.picture # None, l.refusal = None,
         Renders(l, Flight(rest, l.posted)), Overlays(l, Flight(rest, l.posted)),
         KeptContours(l, Flight(rest, l.posted)), DrawnPicture(l)
  PROVE  LET q == FollowContours(l)
         IN /\ q \in Page /\ PageBase(q, Flight(rest, q.posted))
            /\ "contours" \in q.ticked => q.contours.key # None
            /\ q.picture = l.picture /\ q.want = l.want
            /\ SameVerdict(l, q) /\ SameMarks(l, q) /\ SameCounts(l, q) /\ SameWaits(l, q)
<1> DEFINE q == FollowContours(l)
           s == Flight(rest, l.posted)
<1>0. l.posted \in Seq(HostMessage) /\ s \in Seq(PageMessage)
  BY FlightTyped DEF Page
<1>1. CASE ContourKey(l) = l.contours.key
  <2>1. q = l
    BY <1>1 DEF FollowContours
  <2>2. ContoursOfPicture(l) /\ ("contours" \in l.ticked => l.contours.key # None)
    BY <1>1 DEF ContourKey, ContoursOfPicture, KeptContours, ContoursKept
  <2>3. SameVerdict(l, l) /\ SameMarks(l, l) /\ SameCounts(l, l) /\ SameWaits(l, l)
    BY DEF SameVerdict, SameMarks, SameCounts, SameWaits
  <2> QED BY <2>1, <2>2, <2>3 DEF PageBase, Contours
<1>2. CASE ContourKey(l) # l.contours.key
  <2>1. q = RequestContours(l)
    BY <1>2 DEF FollowContours
  <2>2. /\ q \in Page /\ q.picture = l.picture /\ q.overlay = l.overlay /\ q.ticked = l.ticked
        /\ SameVerdict(l, q) /\ SameMarks(l, q) /\ SameCounts(l, q) /\ SameWaits(l, q)
        /\ q.want = l.want
    BY <2>1, ContoursEffect
  <2>3. /\ \A i \in 1..Len(s) :
             IsContours(s[i]) =>
               s[i].seq <= l.contours.seq /\ (s[i].type = "contourReady" <=> Lined(s[i].of))
        /\ l.contours.runs # None =>
             l.picture # None /\ l.contours.runs.geometry = l.picture.geometry
    BY DEF KeptContours, ContoursFit, ContoursKept
  <2>4. /\ Contours(q, Flight(rest, q.posted))
        /\ q.refusal = None /\ q.picture # None /\ "contours" \in q.ticked => q.contours.key # None
        /\ \/ q.posted = l.posted
           \/ \E m \in PageMessage : /\ ~IsOverlay(m) /\ ~IsRender(m)
                                     /\ Flight(rest, q.posted) = Append(s, m)
    BY <2>1, <2>3, ContoursAskedAgain
  <2> HIDE DEF q, s
  <2>5. Renders(q, s) /\ Overlays(q, s) /\ DrawnPicture(q)
    BY <1>0, <2>2, RendersKept, OverlaysKept DEF SameCounts, DrawnPicture, s
  <2>6. Renders(q, Flight(rest, q.posted)) /\ Overlays(q, Flight(rest, q.posted))
    <3>1. CASE q.posted = l.posted
      BY <2>5, <3>1 DEF s
    <3>2. CASE \E m \in PageMessage : /\ ~IsOverlay(m) /\ ~IsRender(m)
                                      /\ Flight(rest, q.posted) = Append(s, m)
      BY <1>0, <2>2, <2>5, <3>2, RendersBesideLayer, OverlaysBeside
    <3> QED BY <2>4, <3>1, <3>2
  <2>7. q.refusal = None
    BY <2>2 DEF SameVerdict
  <2> QED BY <2>2, <2>4, <2>5, <2>6, <2>7 DEF PageBase, q
<1> QED BY <1>1, <1>2

\* A picture drawn, its lines and its marks.
LEMMA ReadyInv ==
  ASSUME page \in Page, page.posted = <<>>, NEW rest \in Seq(PageMessage), PageInv(page, rest),
         NEW m \in RenderAnswer, m.type = "gridReady", RenderFits(page, m),
         \A i \in 1..Len(rest) : IsRender(rest[i]) => m.seq < rest[i].seq
  PROVE  LET r == FollowContours(FollowOverlay(Drawn(page, m)))
             q == IF Following(m) THEN r ELSE Unmarked(r)
         IN /\ q \in Page /\ PageBase(q, Flight(rest, q.posted)) /\ SameWaits(page, q)
            /\ ~Following(m) => PageInv(q, Flight(rest, q.posted))
<1> DEFINE d == Drawn(page, m)
           l == FollowOverlay(d)
           r == FollowContours(l)
           u == Unmarked(r)
<1>1. /\ d \in Page /\ d.picture = m.of /\ d.refusal = None
      /\ d.renderSeq = page.renderSeq /\ d.answeredSeq = AnsweredSeq(m)
      /\ d.last = page.last /\ d.mountAnswered = TRUE /\ d.asked \subseteq page.asked
      /\ SameWaits(page, d)
  BY DrawnEffect
<1>2. /\ l \in Page /\ l.picture = m.of
      /\ Overlays(l, Flight(rest, l.posted)) /\ KeptContours(l, Flight(rest, l.posted))
      /\ \/ l.posted = d.posted
         \/ \E a \in PageMessage : /\ ~IsContours(a) /\ ~IsRender(a)
                                   /\ Flight(rest, l.posted) = Append(rest, a)
      /\ SameVerdict(d, l) /\ SameMarks(d, l) /\ SameCounts(d, l) /\ SameWaits(d, l)
  BY LinedInv
<1>3. d.posted = page.posted /\ Flight(rest, d.posted) = rest
  BY DrawnEffect, FlightNone
<1> HIDE DEF d, l
<1>4. /\ Renders(d, rest) /\ (Latest(m) => m.of = page.last)
      /\ ~Latest(m) => d.answeredSeq # d.renderSeq
  BY <1>1, RendersTaken DEF PageInv
<1>5. Renders(l, Flight(rest, l.posted))
  <2>1. Renders(l, rest)
    BY <1>2, <1>4, RendersKept DEF SameCounts
  <2>2. CASE l.posted = d.posted
    BY <1>3, <2>1, <2>2
  <2>3. CASE \E a \in PageMessage : ~IsRender(a) /\ Flight(rest, l.posted) = Append(rest, a)
    BY <1>2, <2>1, <2>3, RendersBesideLayer
  <2> QED BY <1>2, <2>2, <2>3
<1>6. m.of \in Requests /\ m.of # None /\ Outcome(m.of) = "drawn"
  BY RequestAssumption DEF RenderAnswer, RenderFits, IsRender
<1>7. DrawnPicture(l) /\ l.refusal = None /\ l.picture # None
  BY <1>1, <1>2, <1>6 DEF DrawnPicture, SameVerdict
<1>8. /\ r \in Page /\ PageBase(r, Flight(rest, r.posted))
      /\ "contours" \in r.ticked => r.contours.key # None
      /\ r.picture = l.picture
      /\ SameVerdict(l, r) /\ SameMarks(l, r) /\ SameCounts(l, r) /\ SameWaits(l, r)
  BY <1>2, <1>5, <1>7, RingedInv
<1> HIDE DEF r
<1>9. SameWaits(page, r)
  BY <1>1, <1>2, <1>8 DEF SameWaits
<1>10. r.answeredSeq = r.renderSeq => r.picture = r.last
  BY <1>1, <1>2, <1>4, <1>8 DEF SameCounts
<1>11. CASE Following(m)
  BY <1>8, <1>9, <1>11 DEF r, l, d
<1>12. CASE ~Following(m)
  <2>1. /\ u \in Page /\ u.posted = r.posted /\ u.pictureKept = FALSE /\ u.failedOver = FALSE
        /\ SameShown(r, u) /\ SameVerdict(r, u) /\ SameCounts(r, u) /\ SameWaits(r, u)
    BY <1>8, UnmarkedEffect
  <2> HIDE DEF u
  <2>2. Flight(rest, u.posted) \in Seq(PageMessage) /\ Flight(rest, r.posted) \in Seq(PageMessage)
    BY <1>8, <2>1, FlightTyped DEF Page
  <2>3. PageBase(u, Flight(rest, u.posted))
    BY <1>8, <2>1, <2>2, PageBaseKept
  <2>4. Marks(u) /\ Finish(u)
    BY <1>8, <1>10, <2>1 DEF Marks, Finish, Fine, SameShown, SameCounts
  <2>5. SameWaits(page, u)
    BY <1>9, <2>1 DEF SameWaits
  <2> QED BY <1>12, <2>1, <2>3, <2>4, <2>5 DEF PageInv, PageBase, u, r, l, d
<1> QED BY <1>11, <1>12

\* An error judged: its request is answered, and a field with no cells, or of another
\* variable, clears the picture.
LEMMA JudgedInv ==
  ASSUME page \in Page, page.posted = <<>>, NEW rest \in Seq(PageMessage), PageInv(page, rest),
         NEW m \in RenderAnswer, RenderFits(page, m),
         \A i \in 1..Len(rest) : IsRender(rest[i]) => m.seq < rest[i].seq
  PROVE  LET q == Judged(page, m)
         IN /\ q \in Page /\ q.posted = <<>> /\ q.mountAnswered = TRUE /\ SameWaits(page, q)
            /\ PageBase(q, rest)
            /\ Latest(m) => m.of = q.last
            /\ ~Latest(m) => q.answeredSeq # q.renderSeq
            /\ Latest(m) /\ m.why = "failed" => q.lastRenderFailed
            /\ Latest(m) /\ m.why = "vacant" => q.drawnNoCells
<1> DEFINE q == Judged(page, m)
<1>1. /\ q \in Page /\ q.posted = page.posted
      /\ q.ticked = page.ticked /\ q.renderSeq = page.renderSeq /\ q.last = page.last
      /\ q.answeredSeq = AnsweredSeq(m) /\ q.mountAnswered = TRUE
      /\ q.asked \subseteq page.asked /\ SameWaits(page, q)
      /\ \/ ~Latest(m) /\ SameShown(page, q)
         \/ /\ Latest(m) /\ ~Clears(page, m) /\ (m.why = "failed" => q.lastRenderFailed)
            /\ SameShown(page, q)
         \/ /\ Latest(m) /\ q.picture = None
            /\ m.why = "vacant" => q.drawnNoCells
            /\ m.why = "failed" => q.lastRenderFailed
            /\ q.overlay = Dropped(page.overlay) /\ q.contours = Dropped(page.contours)
  BY JudgedEffect
<1> HIDE DEF q
<1>2. /\ Renders(q, rest) /\ (Latest(m) => m.of = q.last)
      /\ ~Latest(m) => q.answeredSeq # q.renderSeq
  BY <1>1, RendersTaken DEF PageInv
<1>3. Overlays(q, rest) /\ Contours(q, rest) /\ DrawnPicture(q)
  <2>1. CASE SameShown(page, q)
    BY <2>1, OverlaysKept, ContoursStay DEF SameShown, PageInv, DrawnPicture
  <2>2. CASE q.picture = None /\ q.overlay = Dropped(page.overlay)
             /\ q.contours = Dropped(page.contours)
    <3>1. page.contours \in Layer(Requests)
      BY DEF Page
    <3>2. q.contours.seq = page.contours.seq + 1 /\ q.contours.key = None /\ q.contours.runs = None
      BY <2>2, <3>1, DroppedLayer
    <3> QED BY <1>1, <2>2, <3>2, OverlayGone, ContoursGone DEF PageInv, Contours, DrawnPicture
  <2> QED BY <1>1, <2>1, <2>2
<1> QED BY <1>1, <1>2, <1>3 DEF PageBase, Clears, q

\* An error, what it says of the range, and the mark on a picture it left.
LEMMA ErrorInv ==
  ASSUME page \in Page, page.posted = <<>>, NEW rest \in Seq(PageMessage), PageInv(page, rest),
         NEW m \in RenderAnswer, m.type = "gridError", RenderFits(page, m),
         \A i \in 1..Len(rest) : IsRender(rest[i]) => m.seq < rest[i].seq
  PROVE  LET f == Refuse(Judged(page, m), m)
             q == IF Latest(m) THEN Marked(f) ELSE f
         IN q \in Page /\ PageInv(q, Flight(rest, q.posted)) /\ SameWaits(page, q)
<1> DEFINE j == Judged(page, m)
           f == Refuse(j, m)
           k == Marked(f)
<1>1. /\ j \in Page /\ j.posted = <<>> /\ j.mountAnswered = TRUE /\ SameWaits(page, j)
      /\ PageBase(j, rest)
      /\ Latest(m) => m.of = j.last
      /\ ~Latest(m) => j.answeredSeq # j.renderSeq
      /\ Latest(m) /\ m.why = "failed" => j.lastRenderFailed
      /\ Latest(m) /\ m.why = "vacant" => j.drawnNoCells
  BY JudgedInv
<1>2. Flight(rest, j.posted) = rest
  BY <1>1, FlightNone
<1>3. m.why \in {"failed", "vacant", "refused"} /\ m.why = Outcome(m.of)
  BY DEF RenderFits, IsRender, RenderAnswer
<1> HIDE DEF j
<1>4. \/ f \in Page /\ AsksRender(j, f)
      \/ m.why = "refused" /\ \E r \in Refusals : f = ShowRangeRefusal(j, r)
      \/ m.why # "refused" /\ (f = j \/ f = ShowRangeRefusal(j, None))
  BY <1>1, RefuseEffect
<1> HIDE DEF f
<1>5. \/ f \in Page /\ AsksRender(j, f)
      \/ /\ f \in Page /\ f.posted = <<>> /\ PageBase(f, rest)
         /\ SameCounts(j, f) /\ SameWaits(j, f) /\ f.picture = j.picture
         /\ \/ f.refusal # None
            \/ /\ m.why # "refused"
               /\ f.lastRenderFailed = j.lastRenderFailed /\ f.drawnNoCells = j.drawnNoCells
  <2>1. CASE f \in Page /\ AsksRender(j, f)
    BY <2>1
  <2>2. ASSUME NEW r \in Refusals \cup {None}, f = ShowRangeRefusal(j, r), r # None \/ m.why # "refused"
        PROVE  /\ f \in Page /\ f.posted = <<>> /\ PageBase(f, rest)
               /\ SameCounts(j, f) /\ SameWaits(j, f) /\ f.picture = j.picture
               /\ \/ f.refusal # None
                  \/ /\ m.why # "refused"
                     /\ f.lastRenderFailed = j.lastRenderFailed /\ f.drawnNoCells = j.drawnNoCells
    <3>1. /\ f \in Page /\ f.refusal = r /\ f.posted = j.posted /\ f.picture = j.picture
          /\ f.lastRenderFailed = j.lastRenderFailed /\ f.drawnNoCells = j.drawnNoCells
          /\ SameCounts(j, f) /\ SameWaits(j, f)
      BY <1>1, <2>2, RefusalEffect
    <3>2. PageBase(f, rest)
      BY <1>1, <2>2, PageBaseRefused
    <3> QED BY <1>1, <2>2, <3>1, <3>2
  <2>3. CASE m.why = "refused" /\ \E r \in Refusals : f = ShowRangeRefusal(j, r)
    <3>1. PICK r \in Refusals : f = ShowRangeRefusal(j, r)
      BY <2>3
    <3>2. r # None
      BY RequestAssumption
    <3> QED BY <2>2, <3>1, <3>2
  <2>4. CASE m.why # "refused" /\ f = ShowRangeRefusal(j, None)
    BY <2>2, <2>4
  <2>5. CASE m.why # "refused" /\ f = j
    <3>1. SameCounts(j, j) /\ SameWaits(j, j)
      BY DEF SameCounts, SameWaits
    <3> QED BY <1>1, <2>5, <3>1
  <2> QED BY <1>4, <2>1, <2>3, <2>4, <2>5
<1>6. /\ f \in Page => /\ k \in Page /\ k.posted = f.posted /\ k.failedOver = (f.picture # None)
                       /\ k.pictureKept => f.picture # None
                       /\ SameShown(f, k) /\ SameVerdict(f, k) /\ SameCounts(f, k) /\ SameWaits(f, k)
  BY MarkedEffect
<1> HIDE DEF k
<1>7. CASE f \in Page /\ AsksRender(j, f)
  <2>1. PageInv(f, Flight(rest, f.posted)) /\ f.answeredSeq # f.renderSeq
    BY <1>1, <1>2, <1>7, RerenderInv
  <2>2. Flight(rest, f.posted) \in Seq(PageMessage)
    BY <1>7, FlightTyped DEF Page
  <2>3. PageBase(k, Flight(rest, k.posted)) /\ k.answeredSeq # k.renderSeq
    BY <1>6, <1>7, <2>1, <2>2, PageBaseKept DEF PageInv, PageBase, SameCounts
  <2>4. PageInv(k, Flight(rest, k.posted))
    BY <2>3, Unanswered
  <2>5. SameWaits(page, f) /\ SameWaits(page, k)
    BY <1>1, <1>6, <1>7 DEF AsksRender, SameWaits
  <2> QED BY <1>6, <1>7, <2>1, <2>4, <2>5 DEF k, f, j
<1>8. CASE /\ f \in Page /\ f.posted = <<>> /\ PageBase(f, rest)
           /\ SameCounts(j, f) /\ SameWaits(j, f) /\ f.picture = j.picture
           /\ \/ f.refusal # None
              \/ /\ m.why # "refused"
                 /\ f.lastRenderFailed = j.lastRenderFailed /\ f.drawnNoCells = j.drawnNoCells
  <2>1. Flight(rest, f.posted) = rest
    BY <1>8, FlightNone
  <2>2. SameWaits(page, f)
    BY <1>1, <1>8 DEF SameWaits
  <2>3. CASE ~Latest(m)
    <3>1. f.answeredSeq # f.renderSeq
      BY <1>1, <1>8, <2>3 DEF SameCounts
    <3>2. PageInv(f, rest)
      BY <1>8, <3>1, Unanswered
    <3> QED BY <1>8, <2>1, <2>2, <2>3, <3>2 DEF f, j
  <2>4. CASE Latest(m)
    <3>1. PageBase(k, rest) /\ k \in Page /\ Flight(rest, k.posted) = rest
      BY <1>6, <1>8, <2>1, PageBaseKept
    <3>2. ~Fine(f)
      BY <1>1, <1>3, <1>8, <2>4 DEF Fine
    <3>3. Finish(k)
      BY <1>6, <1>8, <3>2 DEF Finish, Fine, SameShown, SameVerdict, SameCounts
    <3>4. f.picture # f.last
      <4>1. f.last = m.of /\ Outcome(f.last) # "drawn"
        BY <1>1, <1>3, <1>8, <2>4 DEF SameCounts
      <4>2. f.last \in Requests
        BY <1>8 DEF PageBase, Renders
      <4>3. f.last # None
        BY <4>2, RequestAssumption
      <4> QED BY <1>8, <4>1, <4>3 DEF PageBase, DrawnPicture
    <3>5. Marks(k)
      BY <1>6, <1>8, <3>4 DEF Marks, SameShown, SameCounts
    <3>6. SameWaits(page, k)
      BY <1>6, <1>8, <2>2 DEF SameWaits
    <3> QED BY <2>4, <3>1, <3>3, <3>5, <3>6 DEF PageInv, PageBase, k, f, j
  <2> QED BY <2>3, <2>4
<1> QED BY <1>5, <1>7, <1>8

-----------------------------------------------------------------------------
(* What every answer ends with.                                            *)

\* A PNG of the last render with its ticked layers.
WholePng(p) ==
  LET lined == p.picture.geometry \notin NoLines
  IN /\ p.png.picture = p.last
     /\ p.png.overlay = IF "overlay" \in p.ticked /\ lined THEN p.png.picture.geometry ELSE None
     /\ p.png.contours = IF "contours" \in p.ticked /\ lined THEN p.png.picture ELSE None

\* The page a step ends with: sound, and any PNG it wrote is whole.
Ends(q, rest) ==
  /\ q \in Page /\ PageInv(q, Flight(rest, q.posted))
  /\ q.png # page.png => WholePng(q)

LEMMA ExportInv ==
  ASSUME NEW p \in Page, NEW s \in Seq(PageMessage), PageInv(p, s)
  PROVE  LET q == ExportPng(p)
         IN /\ q \in Page /\ q.posted = p.posted /\ PageInv(q, s)
            /\ q.png # p.png => WholePng(q)
<1> DEFINE q == ExportPng(p)
<1>1. /\ q \in Page /\ q.posted = p.posted
      /\ SameShown(p, q) /\ SameVerdict(p, q) /\ SameMarks(p, q) /\ SameCounts(p, q)
      /\ \/ q.png = p.png
         \/ /\ ~Unsettled(p) /\ p.refusal = None /\ ~p.lastRenderFailed
            /\ ~p.drawnNoCells /\ p.picture # None
            /\ q.png = [picture |-> p.picture, overlay |-> p.overlay.runs,
                        contours |-> p.contours.runs]
  BY ExportEffect
<1> HIDE DEF q
<1>2. PageInv(q, s)
  BY <1>1, PageInvKept
<1>3. ASSUME q.png # p.png PROVE WholePng(q)
  <2>1. p.renderSeq \in Nat /\ p.answeredSeq \in Nat
    BY DEF Page
  <2>2. p.answeredSeq = p.renderSeq /\ ~Pending(p.overlay) /\ ~Pending(p.contours)
    BY <1>1, <1>3, <2>1 DEF Unsettled, LinesPending, PageInv, Renders
  <2>3. Fine(p)
    BY <1>1, <1>3, <2>2 DEF Fine
  <2>4. p.picture = p.last /\ ("contours" \in p.ticked => p.contours.key # None)
    BY <2>3 DEF PageInv, Finish
  <2>5. p.overlay.runs = IF "overlay" \in p.ticked /\ Lined(p.picture) THEN p.picture.geometry ELSE None
    BY <1>1, <1>3, <2>2 DEF PageInv, Overlays, OverlayShown
  <2>6. p.contours.runs = IF "contours" \in p.ticked /\ Lined(p.picture) THEN p.picture ELSE None
    BY <1>1, <1>3, <2>2, <2>4
       DEF PageInv, Contours, KeptContours, ContoursKept, ContoursOfPicture
  <2>7. q.png.picture = p.picture /\ q.png.overlay = p.overlay.runs /\ q.png.contours = p.contours.runs
    BY <1>1, <1>3
  <2> QED BY <1>1, <2>4, <2>5, <2>6, <2>7 DEF WholePng, Lined, SameShown, SameCounts
<1> QED BY <1>1, <1>2, <1>3 DEF q

LEMMA AnsweredInv ==
  ASSUME NEW p \in Page, NEW rest \in Seq(PageMessage), PageInv(p, Flight(rest, p.posted)),
         p.png = page.png, Answered(p)
  PROVE  \E q : Ends(q, rest) /\ Become(q)
<1> DEFINE s == Flight(rest, p.posted)
           a == [p EXCEPT !.exportWait = FALSE]
           x == ExportPng(a)
<1>1. s \in Seq(PageMessage)
  BY FlightTyped DEF Page
<1>2. Become(p) \/ Become(x)
  BY DEF Answered
<1>3. CASE Become(p)
  BY <1>3 DEF Ends
<1>4. CASE Become(x)
  <2>1. a \in Page
    BY DEF Page
  <2>2. /\ a.posted = p.posted /\ a.png = p.png
        /\ SameShown(p, a) /\ SameVerdict(p, a) /\ SameMarks(p, a) /\ SameCounts(p, a)
    BY DEF Page, SameShown, SameVerdict, SameMarks, SameCounts
  <2> HIDE DEF a
  <2>3. PageInv(a, s)
    BY <1>1, <2>2, PageInvKept
  <2>4. /\ x \in Page /\ x.posted = a.posted /\ PageInv(x, s) /\ (x.png # a.png => WholePng(x))
    BY <1>1, <2>1, <2>3, ExportInv
  <2> HIDE DEF x
  <2>5. Ends(x, rest)
    BY <2>2, <2>4 DEF Ends
  <2> QED BY <1>4, <2>5
<1> QED BY <1>2, <1>3, <1>4

LEMMA AfterInv ==
  ASSUME page \in Page, NEW p \in Page, NEW rest \in Seq(PageMessage), NEW m,
         PageBase(p, Flight(rest, p.posted)), SameWaits(page, p),
         ~Following(m) => PageInv(p, Flight(rest, p.posted)),
         AfterKeptReady(p, m)
  PROVE  \E q : Ends(q, rest) /\ Become(q)
<1>1. CASE ~Following(m)
  BY <1>1, AnsweredInv DEF AfterKeptReady, SameWaits
<1>2. CASE Following(m)
  <2> DEFINE refusal == p.keptReady.refusal
             again == refusal # None /\ p.picture # None /\ refusal.fields = p.want.range
             t == IF again THEN ShowRangeRefusal(p, refusal) ELSE p
             a == [t EXCEPT !.keptReady = None]
             x == PostRerender(a)
             s == Flight(rest, p.posted)
  <2>0. s \in Seq(PageMessage)
    BY FlightTyped DEF Page
  <2>1. Answered(x)
    BY <1>2 DEF AfterKeptReady
  <2>2. refusal \in Refusals \cup {None}
    <3>1. p.keptReady \in KeptReady
      BY <1>2 DEF SameWaits, Following, Page
    <3> QED BY <3>1 DEF KeptReady
  <2> HIDE DEF refusal
  <2>3. /\ t \in Page /\ t.posted = p.posted /\ t.png = p.png /\ PageBase(t, s)
    <3>1. CASE again
      BY <2>0, <2>2, <3>1, RefusalEffect, PageBaseRefused DEF SameWaits
    <3>2. CASE ~again
      BY <3>2
    <3> QED BY <3>1, <3>2
  <2> HIDE DEF t, again
  <2>4. a \in Page
    <3>1. t \in Page
      BY <2>3
    <3> QED BY <3>1 DEF Page
  <2>5. /\ a.posted = t.posted /\ a.png = t.png /\ a.want = t.want
        /\ SameShown(t, a) /\ SameVerdict(t, a) /\ SameMarks(t, a) /\ SameCounts(t, a)
    BY <2>3 DEF Page, SameShown, SameVerdict, SameMarks, SameCounts
  <2> HIDE DEF a
  <2>6. PageBase(a, s)
    BY <2>0, <2>3, <2>5, PageBaseKept
  <2>7. /\ x \in Page /\ x.png = a.png /\ AsksRender(a, x)
    <3>1. /\ x \in Page
          /\ x.posted = Append(a.posted, [type |-> "rerender", seq |-> a.renderSeq + 1, of |-> a.want])
          /\ x.renderSeq = a.renderSeq + 1 /\ x.answeredSeq = a.answeredSeq /\ x.last = a.want
          /\ x.asked = a.asked \cup {<<a.renderSeq + 1, a.want>>}
          /\ x.mountAnswered = a.mountAnswered
          /\ SameShown(a, x) /\ SameVerdict(a, x) /\ SameMarks(a, x)
          /\ SameWaits(a, x) /\ x.want = a.want
      BY <2>4, PostRerenderEffect
    <3> HIDE DEF x
    <3> QED BY <3>1 DEF AsksRender, SameWaits
  <2> HIDE DEF x
  <2>8. Flight(rest, a.posted) = s
    BY <2>3, <2>5
  <2>9. PageInv(x, Flight(rest, x.posted))
    BY <2>4, <2>6, <2>7, <2>8, RerenderInv
  <2>10. x.png = page.png
    BY <2>3, <2>5, <2>7 DEF SameWaits
  <2> QED BY <2>1, <2>7, <2>9, <2>10, AnsweredInv
<1> QED BY <1>1, <1>2

-----------------------------------------------------------------------------
(* Answers to the lines.                                                   *)

LEMMA OverlayAnsweredInv ==
  ASSUME page \in Page, NEW rest \in Seq(PageMessage), PageInv(page, rest),
         NEW m \in PageMessage, IsOverlay(m), OverlayFits(page, m)
  PROVE  LET q == OverlayAnswered(page, m)
         IN q \in Page /\ q.posted = page.posted /\ q.png = page.png /\ PageInv(q, rest)
<1> DEFINE q == OverlayAnswered(page, m)
           g == m.of.geometry
           o == page.overlay
           r == [o EXCEPT !.asked = 0, !.runs = g]
           e == [o EXCEPT !.asked = 0, !.runs = None, !.key = None]
           b == [page EXCEPT !.overlay = r]
           c == [page EXCEPT !.overlay = e]
<1>1. o \in Layer(Geometries) /\ g \in Geometries /\ g # None
  BY MessageKinds, RequestAssumption DEF Page, Requests
<1>2. CASE m.seq # o.seq
  <2>1. q = page
    BY <1>2 DEF OverlayAnswered
  <2> QED BY <2>1
<1>3. CASE m.seq = o.seq /\ m.type = "overlayReady"
  <2>1. q = b
    BY <1>3 DEF OverlayAnswered, Page
  <2>2. /\ r \in Layer(Geometries)
        /\ r.seq = o.seq /\ r.asked = 0 /\ r.runs = g /\ r.key = o.key
    BY <1>1 DEF Layer
  <2> HIDE DEF r, o
  <2>3. b \in Page
    BY <2>2 DEF Page
  <2>4. /\ b.overlay = r /\ b.posted = page.posted /\ b.picture = page.picture
        /\ b.ticked = page.ticked /\ b.contours = page.contours
        /\ SameVerdict(page, b) /\ SameMarks(page, b) /\ SameCounts(page, b)
        /\ b.png = page.png
    BY DEF Page, SameVerdict, SameMarks, SameCounts
  <2> HIDE DEF b
  <2>5. Lined(m.of) /\ "overlay" \in page.ticked /\ page.picture # None
        /\ m.of.geometry = page.picture.geometry
    BY <1>3 DEF OverlayFits, o
  <2>6. Lined(page.picture)
    BY <2>5 DEF Lined
  <2>7. OverlayShown(b)
    BY <1>1, <2>2, <2>4, <2>5, <2>6 DEF OverlayShown, PageInv, Overlays, o
  <2>8. \A i \in 1..Len(rest) : OverlayFits(b, rest[i])
    BY <2>2, <2>4 DEF OverlayFits, PageInv, Overlays, o
  <2>9. Renders(b, rest) /\ Contours(b, rest) /\ DrawnPicture(b) /\ Marks(b) /\ Finish(b)
    BY <2>4, RendersKept, ContoursStay
       DEF PageInv, SameVerdict, SameMarks, SameCounts, DrawnPicture, Marks, Finish, Fine
  <2> QED BY <2>1, <2>3, <2>4, <2>7, <2>8, <2>9 DEF PageInv, Overlays
<1>4. CASE m.seq = o.seq /\ m.type = "overlayError"
  <2>1. q = c
    BY <1>4 DEF OverlayAnswered, Page
  <2>2. /\ e \in Layer(Geometries)
        /\ e.seq = o.seq /\ e.asked = 0 /\ e.runs = None /\ e.key = None
    BY <1>1 DEF Layer
  <2> HIDE DEF e, o
  <2>3. c \in Page
    BY <2>2 DEF Page
  <2>4. /\ c.overlay = e /\ c.posted = page.posted /\ c.picture = page.picture
        /\ c.ticked = page.ticked /\ c.contours = page.contours
        /\ SameVerdict(page, c) /\ SameMarks(page, c) /\ SameCounts(page, c)
        /\ c.png = page.png
    BY DEF Page, SameVerdict, SameMarks, SameCounts
  <2> HIDE DEF c
  <2>5. ~Lined(m.of) /\ m.of.geometry = page.picture.geometry
    BY <1>4 DEF OverlayFits, IsOverlay, o
  <2>6. ~Lined(page.picture)
    BY <2>5 DEF Lined
  <2>7. OverlayShown(c)
    BY <2>2, <2>4, <2>6 DEF OverlayShown
  <2>8. \A i \in 1..Len(rest) : OverlayFits(c, rest[i])
    BY <2>2, <2>4 DEF OverlayFits, PageInv, Overlays, o
  <2>9. Renders(c, rest) /\ Contours(c, rest) /\ DrawnPicture(c) /\ Marks(c) /\ Finish(c)
    BY <2>4, RendersKept, ContoursStay
       DEF PageInv, SameVerdict, SameMarks, SameCounts, DrawnPicture, Marks, Finish, Fine
  <2> QED BY <2>1, <2>3, <2>4, <2>7, <2>8, <2>9 DEF PageInv, Overlays
<1> QED BY <1>2, <1>3, <1>4 DEF IsOverlay

LEMMA ContoursAnsweredInv ==
  ASSUME page \in Page, NEW rest \in Seq(PageMessage), PageInv(page, rest),
         NEW m \in PageMessage, IsContours(m), ContoursFit(page, m)
  PROVE  LET q == ContoursAnswered(page, m)
         IN q \in Page /\ q.posted = page.posted /\ q.png = page.png /\ PageInv(q, rest)
<1> DEFINE q == ContoursAnswered(page, m)
           l == page.contours
           runs == IF m.type = "contourReady" THEN m.of ELSE None
           r == [l EXCEPT !.asked = 0, !.runs = runs]
           b == [page EXCEPT !.contours = r]
<1>1. l \in Layer(Requests) /\ runs \in Requests \cup {None} /\ m.of \in Requests /\ m.of # None
  BY MessageKinds, RequestAssumption DEF Page
<1>2. CASE m.seq # l.seq
  <2>1. q = page
    BY <1>2 DEF ContoursAnswered
  <2> QED BY <2>1
<1>3. CASE m.seq = l.seq
  <2>1. q = b
    BY <1>3 DEF ContoursAnswered, Page
  <2>2. runs = IF Lined(m.of) THEN m.of ELSE None
    BY DEF ContoursFit
  <2> HIDE DEF runs
  <2>3. /\ r \in Layer(Requests)
        /\ r.seq = l.seq /\ r.asked = 0 /\ r.runs = runs /\ r.key = l.key
    BY <1>1 DEF Layer
  <2> HIDE DEF r, l
  <2>4. b \in Page
    BY <2>3 DEF Page
  <2>5. /\ b.contours = r /\ b.posted = page.posted /\ b.picture = page.picture
        /\ b.ticked = page.ticked /\ b.overlay = page.overlay
        /\ SameVerdict(page, b) /\ SameMarks(page, b) /\ SameCounts(page, b)
        /\ b.png = page.png
    BY DEF Page, SameVerdict, SameMarks, SameCounts
  <2> HIDE DEF b
  <2>6. l.key # None /\ m.of = l.key /\ l.key = page.picture /\ "contours" \in page.ticked
    BY <1>3 DEF ContoursFit, PageInv, Contours, KeptContours, ContoursKept, ContoursOfPicture, l
  <2>7. ContoursKept(b) /\ ContoursOfPicture(b)
    BY <2>2, <2>3, <2>5, <2>6 DEF ContoursKept, ContoursOfPicture
  <2>8. \A i \in 1..Len(rest) : ContoursFit(b, rest[i])
    BY <2>3, <2>5 DEF ContoursFit, PageInv, Contours, KeptContours, l
  <2>9. Renders(b, rest) /\ Overlays(b, rest) /\ DrawnPicture(b) /\ Marks(b)
    BY <2>5, RendersKept, OverlaysKept
       DEF PageInv, SameMarks, SameCounts, DrawnPicture, Marks
  <2>10. Finish(b)
    BY <2>3, <2>5, <2>6 DEF PageInv, SameVerdict, SameCounts, Finish, Fine
  <2> QED BY <2>1, <2>4, <2>5, <2>7, <2>8, <2>9, <2>10 DEF PageInv, Contours, KeptContours
<1> QED BY <1>2, <1>3

-----------------------------------------------------------------------------
(* Steps.                                                                  *)

WritesWholePngs == page'.png \notin {None, page.png} => WholePng(page')

LEMMA PageInvPosted ==
  ASSUME NEW q \in Page, NEW s \in Seq(PageMessage), PageInv(q, s)
  PROVE  LET p == [q EXCEPT !.posted = <<>>]
         IN /\ p \in Page /\ p.posted = <<>> /\ PageInv(p, s)
            /\ p.png = q.png /\ (WholePng(q) => WholePng(p))
<1> DEFINE p == [q EXCEPT !.posted = <<>>]
<1>0. <<>> \in Seq(HostMessage)
  OBVIOUS
<1> DEFINE none == <<>>
<1>1. p \in Page
  <2> HIDE DEF none
  <2>1. none \in Seq(HostMessage) => [q EXCEPT !.posted = none] \in Page
    BY DEF Page
  <2> QED BY <1>0, <2>1 DEF none
<1>2. /\ p.posted = <<>> /\ p.png = q.png
      /\ SameShown(q, p) /\ SameVerdict(q, p) /\ SameMarks(q, p) /\ SameCounts(q, p)
  BY DEF Page, SameShown, SameVerdict, SameMarks, SameCounts
<1> HIDE DEF p
<1>3. PageInv(p, s)
  BY <1>2, PageInvKept
<1>4. WholePng(q) => WholePng(p)
  BY <1>2 DEF WholePng, SameShown, SameCounts
<1> QED BY <1>1, <1>2, <1>3, <1>4 DEF p

LEMMA BecomeInv ==
  ASSUME toHost \in Seq(HostMessage), NEW x \in Seq(PageMessage), toPage' = x,
         \E q : Ends(q, Flight(x, toHost)) /\ Become(q)
  PROVE  IInv' /\ WritesWholePngs
<1>1. PICK q : Ends(q, Flight(x, toHost)) /\ Become(q)
  OBVIOUS
<1>2. /\ q \in Page /\ PageInv(q, Flight(Flight(x, toHost), q.posted))
      /\ q.png # page.png => WholePng(q)
  BY <1>1 DEF Ends
<1>3. page' = [q EXCEPT !.posted = <<>>] /\ toHost' = toHost \o q.posted
  BY <1>1 DEF Become
<1>4. q.posted \in Seq(HostMessage)
  BY <1>2 DEF Page
<1>5. toHost' \in Seq(HostMessage)
  BY <1>3, <1>4
<1>6. Line' = Flight(Flight(x, toHost), q.posted)
  <2>1. Line' = Flight(toPage', toHost')
    BY DEF Line, Flight, Answer
  <2>2. Flight(x, toHost \o q.posted) = Flight(Flight(x, toHost), q.posted)
    BY <1>4, FlightPosted
  <2> QED BY <1>3, <2>1, <2>2
<1>7. Flight(Flight(x, toHost), q.posted) \in Seq(PageMessage)
  BY <1>4, FlightTyped
<1>8. /\ page' \in Page /\ page'.posted = <<>> /\ PageInv(page', Line')
      /\ page'.png = q.png /\ (WholePng(q) => WholePng(page'))
  BY <1>2, <1>3, <1>6, <1>7, PageInvPosted
<1>9. WritesWholePngs
  BY <1>2, <1>8 DEF WritesWholePngs
<1>10. IInv'
  BY <1>5, <1>8 DEF IInv
<1> QED BY <1>9, <1>10

LEMMA LineTyped ==
  ASSUME IInv
  PROVE  Line \in Seq(PageMessage) /\ Line = Flight(toPage, toHost) /\ Flight(Line, <<>>) = Line
BY FlightTyped, FlightNone DEF IInv, Line

LEMMA ChangeInv ==
  ASSUME IInv, Change
  PROVE  IInv' /\ WritesWholePngs
<1>1. PICK r \in Requests :
        LET moved == [page EXCEPT !.want = r]
        IN \E edited \in {IF r.range # page.want.range THEN ShowRangeRefusal(moved, None) ELSE moved} :
           \E asked \in {RequestRender(edited)} :
           \E saved \in {SnapshotState(asked)} : Become(saved)
  BY DEF Change
<1> DEFINE moved == [page EXCEPT !.want = r]
           edited == IF r.range # page.want.range THEN ShowRangeRefusal(moved, None) ELSE moved
           asked == RequestRender(edited)
           saved == SnapshotState(asked)
<1>2. Become(saved) /\ toPage' = toPage
  BY <1>1 DEF Change
<1>3. page \in Page /\ page.posted = <<>> /\ PageInv(page, Line)
      /\ toHost \in Seq(HostMessage) /\ toPage \in Seq(PageMessage)
  BY DEF IInv
<1>4. Line \in Seq(PageMessage) /\ Line = Flight(toPage, toHost) /\ Flight(Line, <<>>) = Line
  BY LineTyped
<1>5. moved \in Page
  BY <1>3 DEF Page
<1>6. /\ moved.posted = <<>> /\ moved.png = page.png
      /\ SameShown(page, moved) /\ SameVerdict(page, moved) /\ SameCounts(page, moved)
  BY <1>3 DEF Page, SameShown, SameVerdict, SameCounts
<1> HIDE DEF moved
<1>7. PageBase(moved, Line)
  BY <1>3, <1>4, <1>6, PageBaseKept DEF PageInv, PageBase
<1>8. /\ edited \in Page /\ edited.posted = <<>> /\ edited.png = page.png
      /\ SameCounts(page, edited) /\ PageBase(edited, Line)
  <2>1. CASE r.range # page.want.range
    <3>1. edited = ShowRangeRefusal(moved, None)
      BY <2>1
    <3>2. /\ edited \in Page /\ edited.posted = moved.posted /\ SameCounts(moved, edited)
          /\ SameWaits(moved, edited)
      BY <1>5, <3>1, RefusalEffect
    <3>3. PageBase(edited, Line)
      BY <1>4, <1>5, <1>7, <3>1, PageBaseRefused
    <3> QED BY <1>6, <3>2, <3>3 DEF SameCounts, SameWaits
  <2>2. CASE ~(r.range # page.want.range)
    <3>1. edited = moved
      BY <2>2
    <3> QED BY <1>5, <1>6, <1>7, <3>1
  <2> QED BY <2>1, <2>2
<1> HIDE DEF edited
<1>9. asked \in Page /\ asked.png = page.png /\ PageInv(asked, Flight(Line, asked.posted))
  <2>1. CASE edited.mountAnswered
    <3>1. asked = PostRerender(edited)
      BY <2>1 DEF RequestRender
    <3>2. /\ asked \in Page
          /\ asked.posted = Append(edited.posted, [type |-> "rerender", seq |-> edited.renderSeq + 1,
                                                   of |-> edited.want])
          /\ asked.renderSeq = edited.renderSeq + 1 /\ asked.answeredSeq = edited.answeredSeq
          /\ asked.last = edited.want
          /\ asked.asked = edited.asked \cup {<<edited.renderSeq + 1, edited.want>>}
          /\ asked.mountAnswered = edited.mountAnswered
          /\ SameShown(edited, asked) /\ SameVerdict(edited, asked) /\ SameMarks(edited, asked)
          /\ SameWaits(edited, asked) /\ asked.want = edited.want
      BY <1>8, <3>1, PostRerenderEffect
    <3> HIDE DEF asked
    <3>3. AsksRender(edited, asked) /\ asked.png = page.png
      BY <1>8, <3>2 DEF AsksRender, SameWaits
    <3>4. Flight(Line, edited.posted) = Line
      BY <1>4, <1>8
    <3>5. PageInv(asked, Flight(Line, asked.posted))
      BY <1>4, <1>8, <3>2, <3>3, <3>4, RerenderInv
    <3> QED BY <3>2, <3>3, <3>5
  <2>2. CASE ~edited.mountAnswered
    <3>1. asked = edited
      BY <2>2 DEF RequestRender
    <3>2. edited.answeredSeq # edited.renderSeq
      BY <1>8, <2>2 DEF PageBase, Renders, Page
    <3>3. PageInv(edited, Line)
      BY <1>8, <3>2, Unanswered
    <3>4. Flight(Line, edited.posted) = Line
      BY <1>4, <1>8
    <3> QED BY <1>8, <3>1, <3>3, <3>4
  <2> QED BY <2>1, <2>2
<1> HIDE DEF asked
<1>10. Flight(Line, asked.posted) \in Seq(PageMessage)
  BY <1>4, <1>9, FlightTyped DEF Page
<1>11. /\ saved \in Page /\ saved.posted = asked.posted
       /\ SameShown(asked, saved) /\ SameVerdict(asked, saved) /\ SameMarks(asked, saved)
       /\ SameCounts(asked, saved) /\ SameWaits(asked, saved)
  BY <1>9, SnapshotEffect
<1> HIDE DEF saved
<1>12. PageInv(saved, Flight(Line, saved.posted))
  BY <1>9, <1>10, <1>11, PageInvKept
<1>13. Ends(saved, Flight(toPage, toHost))
  BY <1>4, <1>9, <1>11, <1>12 DEF Ends, SameWaits
<1> QED BY <1>2, <1>3, <1>13, BecomeInv

LEMMA ExportStepInv ==
  ASSUME IInv, Export \/ ExportGivesUp
  PROVE  IInv' /\ WritesWholePngs
<1>1. page \in Page /\ page.posted = <<>> /\ PageInv(page, Line)
      /\ toHost \in Seq(HostMessage) /\ toPage \in Seq(PageMessage)
  BY DEF IInv
<1>2. Line \in Seq(PageMessage) /\ Line = Flight(toPage, toHost) /\ Flight(Line, <<>>) = Line
  BY LineTyped
<1>3. CASE Export
  <2> DEFINE q == ExportPng(page)
  <2>1. Become(q) /\ toPage' = toPage
    BY <1>3 DEF Export
  <2>2. q \in Page /\ q.posted = page.posted /\ PageInv(q, Line) /\ (q.png # page.png => WholePng(q))
    BY <1>1, <1>2, ExportInv
  <2> HIDE DEF q
  <2>3. Ends(q, Flight(toPage, toHost))
    BY <1>1, <1>2, <2>2 DEF Ends
  <2> QED BY <1>1, <2>1, <2>3, BecomeInv
<1>4. CASE ExportGivesUp
  <2> DEFINE q == [page EXCEPT !.exportWait = FALSE]
  <2>1. Become(q) /\ toPage' = toPage
    BY <1>4 DEF ExportGivesUp
  <2>2. q \in Page
    BY <1>1 DEF Page
  <2>3. /\ q.posted = page.posted /\ q.png = page.png
        /\ SameShown(page, q) /\ SameVerdict(page, q) /\ SameMarks(page, q) /\ SameCounts(page, q)
    BY <1>1 DEF Page, SameShown, SameVerdict, SameMarks, SameCounts
  <2> HIDE DEF q
  <2>4. PageInv(q, Line)
    BY <1>1, <1>2, <2>3, PageInvKept
  <2>5. Ends(q, Flight(toPage, toHost))
    BY <1>1, <1>2, <2>2, <2>3, <2>4 DEF Ends
  <2> QED BY <1>1, <2>1, <2>5, BecomeInv
<1> QED BY <1>3, <1>4

LEMMA ServeInv ==
  ASSUME IInv, Serve
  PROVE  IInv' /\ WritesWholePngs
<1> DEFINE a == Answer(Head(toHost))
<1>1. page \in Page /\ page.posted = <<>> /\ PageInv(page, Line)
      /\ toHost \in Seq(HostMessage) /\ toPage \in Seq(PageMessage)
  BY DEF IInv
<1>2. toHost # <<>> /\ toPage' = Append(toPage, a) /\ toHost' = Tail(toHost) /\ page' = page
  BY DEF Serve
<1>3. Head(toHost) \in HostMessage /\ Tail(toHost) \in Seq(HostMessage)
  BY <1>1, <1>2
<1>4. a \in PageMessage
  BY <1>3, AnswerTyped
<1>5. Append(toPage, a) \in Seq(PageMessage)
  BY <1>1, <1>4
<1>6. Line' = Line
  <2>1. Line' = Flight(toPage', toHost') /\ Line = Flight(toPage, toHost)
    BY DEF Line, Flight, Answer
  <2>2. Flight(Append(toPage, a), Tail(toHost)) = Flight(toPage, toHost)
    BY <1>1, <1>2, FlightServed
  <2> QED BY <1>2, <2>1, <2>2
<1>7. IInv'
  BY <1>1, <1>2, <1>3, <1>5, <1>6 DEF IInv
<1>8. WritesWholePngs
  BY <1>2 DEF WritesWholePngs
<1> QED BY <1>7, <1>8

LEMMA ToggleInv ==
  ASSUME IInv, NEW layer \in Layers, Toggle(layer)
  PROVE  IInv' /\ WritesWholePngs
<1> DEFINE ticked == IF layer \in page.ticked THEN page.ticked \ {layer} ELSE page.ticked \cup {layer}
           p == [page EXCEPT !.ticked = ticked]
           asked == IF layer = "overlay" THEN RequestOverlay(p) ELSE RequestContours(p)
           saved == SnapshotState(asked)
<1>1. Become(saved) /\ toPage' = toPage
  BY DEF Toggle
<1>2. page \in Page /\ page.posted = <<>> /\ PageInv(page, Line)
      /\ toHost \in Seq(HostMessage) /\ toPage \in Seq(PageMessage)
  BY DEF IInv
<1>3. Line \in Seq(PageMessage) /\ Line = Flight(toPage, toHost) /\ Flight(Line, <<>>) = Line
  BY LineTyped
<1>4. /\ ticked \in SUBSET Layers
      /\ \A other \in Layers : other # layer => (other \in ticked <=> other \in page.ticked)
      /\ layer \in ticked <=> layer \notin page.ticked
  BY <1>2 DEF Page
<1> HIDE DEF ticked
<1>5. p \in Page
  <2>1. page \in Page
    BY <1>2
  <2> QED BY <1>4, <2>1 DEF Page
<1>6. /\ p.posted = <<>> /\ p.png = page.png /\ p.ticked = ticked
      /\ p.picture = page.picture /\ p.overlay = page.overlay /\ p.contours = page.contours
      /\ SameVerdict(page, p) /\ SameMarks(page, p) /\ SameCounts(page, p)
  BY <1>2 DEF Page, SameVerdict, SameMarks, SameCounts
<1> HIDE DEF p
<1>7. Flight(Line, p.posted) = Line
  BY <1>3, <1>6
<1>8. Renders(p, Line) /\ DrawnPicture(p) /\ Marks(p)
  BY <1>2, <1>3, <1>6, RendersKept DEF PageInv, SameCounts, SameMarks, DrawnPicture, Marks
<1>9. OverlayShown(page) /\ ContoursKept(page) /\ ContoursOfPicture(page) /\ Finish(page)
      /\ \A i \in 1..Len(Line) : OverlayFits(page, Line[i]) /\ ContoursFit(page, Line[i])
  BY <1>2 DEF PageInv, Overlays, Contours, KeptContours
<1>10. asked \in Page /\ asked.png = page.png /\ PageInv(asked, Flight(Line, asked.posted))
  <2>1. CASE layer = "overlay" /\ p.picture = None
    <3>1. asked = p
      BY <2>1 DEF RequestOverlay
    <3>2. Overlays(p, Line)
      BY <1>6, <1>9, <2>1 DEF Overlays, OverlayShown, OverlayFits
    <3>3. "contours" \in p.ticked <=> "contours" \in page.ticked
      BY <1>4, <1>6, <2>1 DEF Layers
    <3>4. Contours(p, Line)
      BY <1>6, <1>9, <3>3 DEF Contours, KeptContours, ContoursKept, ContoursOfPicture, ContoursFit
    <3>5. Finish(p)
      BY <2>1 DEF Finish, Fine
    <3> QED BY <1>5, <1>6, <1>7, <1>8, <3>1, <3>2, <3>4, <3>5 DEF PageInv
  <2>2. CASE layer = "overlay" /\ p.picture # None
    <3>1. asked = RequestOverlay(p)
      BY <2>2
    <3>2. /\ asked \in Page
          /\ asked.picture = p.picture /\ asked.contours = p.contours /\ asked.ticked = p.ticked
          /\ asked.overlay.seq = p.overlay.seq + 1 /\ asked.overlay.key = p.picture.geometry
          /\ \/ /\ "overlay" \in p.ticked /\ asked.overlay.runs = p.overlay.runs
                /\ asked.overlay.asked = p.overlay.seq + 1
                /\ asked.posted = Append(p.posted, [type |-> "overlay", seq |-> asked.overlay.seq,
                                                    of |-> p.picture])
             \/ /\ "overlay" \notin p.ticked /\ asked.overlay.runs = None
                /\ asked.overlay.asked = p.overlay.asked /\ asked.posted = p.posted
          /\ SameVerdict(p, asked) /\ SameMarks(p, asked) /\ SameCounts(p, asked)
          /\ SameWaits(p, asked)
      BY <1>5, <2>2, <3>1, OverlayEffect
    <3> HIDE DEF asked
    <3>3. asked.overlay.runs # None => asked.overlay.runs = p.picture.geometry
      BY <1>6, <1>9, <3>2 DEF OverlayShown
    <3>4. \A i \in 1..Len(Flight(Line, p.posted)) :
            LET m == Flight(Line, p.posted)[i]
            IN IsOverlay(m) => m.seq <= p.overlay.seq /\ (m.type = "overlayReady" <=> Lined(m.of))
      BY <1>6, <1>7, <1>9 DEF OverlayFits
    <3>5. /\ Overlays(asked, Flight(Line, asked.posted))
          /\ \/ asked.posted = p.posted
             \/ \E m \in PageMessage :
                  /\ ~IsContours(m) /\ ~IsRender(m)
                  /\ Flight(Line, asked.posted) = Append(Flight(Line, p.posted), m)
      BY <1>3, <1>5, <2>2, <3>2, <3>3, <3>4, OverlayAskedAgain
    <3>6. "contours" \in asked.ticked <=> "contours" \in page.ticked
      BY <1>4, <1>6, <2>2, <3>2 DEF Layers
    <3>7. asked.contours = page.contours /\ asked.picture = page.picture
      BY <1>6, <3>2
    <3>8. Contours(asked, Line)
      BY <1>9, <3>6, <3>7 DEF Contours, KeptContours, ContoursKept, ContoursOfPicture, ContoursFit
    <3>9. Renders(asked, Line)
      BY <1>3, <1>8, <3>2, RendersKept DEF SameCounts
    <3>10. Renders(asked, Flight(Line, asked.posted)) /\ Contours(asked, Flight(Line, asked.posted))
      <4>1. CASE asked.posted = p.posted
        BY <1>7, <3>8, <3>9, <4>1
      <4>2. CASE \E m \in PageMessage :
                   /\ ~IsContours(m) /\ ~IsRender(m)
                   /\ Flight(Line, asked.posted) = Append(Flight(Line, p.posted), m)
        BY <1>3, <1>7, <3>2, <3>8, <3>9, <4>2, RendersBesideLayer, ContoursBeside
      <4> QED BY <3>5, <4>1, <4>2
    <3>11. DrawnPicture(asked) /\ Marks(asked)
      BY <1>8, <3>2 DEF DrawnPicture, Marks, SameMarks, SameCounts
    <3>12. Finish(asked)
      BY <1>6, <1>9, <3>2, <3>6, <3>7 DEF Finish, Fine, SameVerdict, SameCounts
    <3> QED BY <1>6, <3>2, <3>5, <3>10, <3>11, <3>12 DEF PageInv, SameWaits
  <2>3. CASE layer # "overlay"
    <3>1. asked = RequestContours(p) /\ layer = "contours"
      BY <2>3 DEF Layers
    <3>2. /\ asked \in Page
          /\ asked.picture = p.picture /\ asked.overlay = p.overlay /\ asked.ticked = p.ticked
          /\ SameVerdict(p, asked) /\ SameMarks(p, asked) /\ SameCounts(p, asked)
          /\ SameWaits(p, asked)
      BY <1>5, <3>1, ContoursEffect
    <3>3. /\ \A i \in 1..Len(Flight(Line, p.posted)) :
               LET m == Flight(Line, p.posted)[i]
               IN IsContours(m) =>
                    m.seq <= p.contours.seq /\ (m.type = "contourReady" <=> Lined(m.of))
          /\ p.contours.runs # None =>
               p.picture # None /\ p.contours.runs.geometry = p.picture.geometry
      BY <1>6, <1>7, <1>9 DEF ContoursFit, ContoursKept
    <3>4. /\ Contours(asked, Flight(Line, asked.posted))
          /\ asked.refusal = None /\ asked.picture # None /\ "contours" \in asked.ticked =>
               asked.contours.key # None
          /\ \/ asked.posted = p.posted
             \/ \E m \in PageMessage :
                  /\ ~IsOverlay(m) /\ ~IsRender(m)
                  /\ Flight(Line, asked.posted) = Append(Flight(Line, p.posted), m)
      BY <1>3, <1>5, <3>1, <3>3, ContoursAskedAgain
    <3> HIDE DEF asked
    <3>5. "overlay" \in asked.ticked <=> "overlay" \in page.ticked
      BY <1>4, <1>6, <3>1, <3>2 DEF Layers
    <3>6. asked.overlay = page.overlay /\ asked.picture = page.picture
      BY <1>6, <3>2
    <3>7. Overlays(asked, Line)
      BY <1>9, <3>5, <3>6 DEF Overlays, OverlayShown, OverlayFits
    <3>8. Renders(asked, Line)
      BY <1>3, <1>8, <3>2, RendersKept DEF SameCounts
    <3>9. Renders(asked, Flight(Line, asked.posted)) /\ Overlays(asked, Flight(Line, asked.posted))
      <4>1. CASE asked.posted = p.posted
        BY <1>7, <3>7, <3>8, <4>1
      <4>2. CASE \E m \in PageMessage :
                   /\ ~IsOverlay(m) /\ ~IsRender(m)
                   /\ Flight(Line, asked.posted) = Append(Flight(Line, p.posted), m)
        BY <1>3, <1>7, <3>2, <3>7, <3>8, <4>2, RendersBesideLayer, OverlaysBeside
      <4> QED BY <3>4, <4>1, <4>2
    <3>10. DrawnPicture(asked) /\ Marks(asked)
      BY <1>8, <3>2 DEF DrawnPicture, Marks, SameMarks, SameCounts
    <3>11. Finish(asked)
      BY <1>6, <1>9, <3>2, <3>4, <3>6 DEF Finish, Fine, SameVerdict, SameCounts
    <3> QED BY <1>6, <3>2, <3>4, <3>9, <3>10, <3>11 DEF PageInv, SameWaits
  <2> QED BY <2>1, <2>2, <2>3
<1> HIDE DEF asked
<1>11. Flight(Line, asked.posted) \in Seq(PageMessage)
  BY <1>3, <1>10, FlightTyped DEF Page
<1>12. /\ saved \in Page /\ saved.posted = asked.posted
       /\ SameShown(asked, saved) /\ SameVerdict(asked, saved) /\ SameMarks(asked, saved)
       /\ SameCounts(asked, saved) /\ SameWaits(asked, saved)
  BY <1>10, SnapshotEffect
<1> HIDE DEF saved
<1>13. PageInv(saved, Flight(Line, saved.posted))
  BY <1>10, <1>11, <1>12, PageInvKept
<1>14. Ends(saved, Flight(toPage, toHost))
  BY <1>3, <1>10, <1>12, <1>13 DEF Ends, SameWaits
<1> QED BY <1>1, <1>2, <1>14, BecomeInv

LEMMA ReceiveInv ==
  ASSUME IInv, Receive
  PROVE  IInv' /\ WritesWholePngs
<1> DEFINE m == Head(toPage)
           x == Tail(toPage)
           rest == Tail(Line)
<1>1. page \in Page /\ page.posted = <<>> /\ PageInv(page, Line)
      /\ toHost \in Seq(HostMessage) /\ toPage \in Seq(PageMessage)
  BY DEF IInv
<1>2. toPage # <<>> /\ OnMessage(m) /\ toPage' = x
  BY DEF Receive
<1>3. x \in Seq(PageMessage)
  BY <1>1, <1>2
<1>4. Flight(x, toHost) = rest /\ Head(Line) = m /\ Line # <<>> /\ Line \in Seq(PageMessage)
  BY <1>1, <1>2, FlightTaken, LineTyped DEF Line
<1> HIDE DEF m, x
<1>5. /\ PageInv(page, rest) /\ rest \in Seq(PageMessage) /\ m \in PageMessage
      /\ RenderFits(page, m) /\ OverlayFits(page, m) /\ ContoursFit(page, m)
      /\ IsRender(m) => \A i \in 1..Len(rest) : IsRender(rest[i]) => m.seq < rest[i].seq
  BY <1>1, <1>4, TakeHead
<1> HIDE DEF rest
<1>6. \E q : Ends(q, rest) /\ Become(q)
  <2>1. CASE m.type = "gridReady"
    <3> DEFINE r == FollowContours(FollowOverlay(Drawn(page, m)))
               p == IF Following(m) THEN r ELSE Unmarked(r)
    <3>1. IsRender(m) /\ m \in RenderAnswer
      BY <1>5, <2>1, MessageKinds DEF IsRender
    <3>2. AfterKeptReady(p, m)
      BY <1>2, <2>1 DEF OnMessage, OnGridReady
    <3>3. /\ p \in Page /\ PageBase(p, Flight(rest, p.posted)) /\ SameWaits(page, p)
          /\ ~Following(m) => PageInv(p, Flight(rest, p.posted))
      BY <1>1, <1>5, <2>1, <3>1, ReadyInv
    <3> HIDE DEF p
    <3> QED BY <1>1, <1>5, <3>2, <3>3, AfterInv
  <2>2. CASE m.type = "gridError"
    <3> DEFINE f == Refuse(Judged(page, m), m)
               p == IF Latest(m) THEN Marked(f) ELSE f
    <3>1. IsRender(m) /\ m \in RenderAnswer
      BY <1>5, <2>2, MessageKinds DEF IsRender
    <3>2. AfterKeptReady(p, m)
      BY <1>2, <2>2 DEF OnMessage, OnGridError
    <3>3. p \in Page /\ PageInv(p, Flight(rest, p.posted)) /\ SameWaits(page, p)
      BY <1>1, <1>5, <2>2, <3>1, ErrorInv
    <3> HIDE DEF p
    <3>4. PageBase(p, Flight(rest, p.posted))
      BY <3>3 DEF PageInv, PageBase
    <3> QED BY <1>1, <1>5, <3>2, <3>3, <3>4, AfterInv
  <2>3. CASE IsOverlay(m)
    <3> DEFINE p == OverlayAnswered(page, m)
    <3>1. Answered(p)
      BY <1>2, <2>3 DEF OnMessage, IsOverlay
    <3>2. p \in Page /\ p.posted = page.posted /\ p.png = page.png /\ PageInv(p, rest)
      BY <1>1, <1>5, <2>3, OverlayAnsweredInv
    <3> HIDE DEF p
    <3>3. Flight(rest, p.posted) = rest
      BY <1>1, <1>5, <3>2, FlightNone
    <3> QED BY <1>5, <3>1, <3>2, <3>3, AnsweredInv
  <2>4. CASE IsContours(m)
    <3> DEFINE p == ContoursAnswered(page, m)
    <3>1. Answered(p)
      BY <1>2, <2>4 DEF OnMessage, IsContours
    <3>2. p \in Page /\ p.posted = page.posted /\ p.png = page.png /\ PageInv(p, rest)
      BY <1>1, <1>5, <2>4, ContoursAnsweredInv
    <3> HIDE DEF p
    <3>3. Flight(rest, p.posted) = rest
      BY <1>1, <1>5, <3>2, FlightNone
    <3> QED BY <1>5, <3>1, <3>2, <3>3, AnsweredInv
  <2> QED BY <1>5, <2>1, <2>2, <2>3, <2>4, MessageKinds DEF IsRender
<1> QED BY <1>1, <1>2, <1>3, <1>4, <1>6, BecomeInv

-----------------------------------------------------------------------------
(* The page loaded.                                                        *)

\* A line of one render's answer, over a page that shows nothing yet.
LEMMA FirstAsked ==
  ASSUME NEW p \in Page, NEW a \in PageMessage, IsRender(a),
         a.seq = 1, a.of = p.last, p.last \in Requests,
         a.why = Outcome(a.of), a.type = "gridReady" <=> a.why = "drawn",
         p.renderSeq = 1, p.answeredSeq = 0, p.asked = {<<1, p.last>>}, p.picture = None,
         p.overlay = NoLayer, p.contours = NoLayer,
         NEW s \in Seq(PageMessage), Len(s) = 1, s[1] = a
  PROVE  PageInv(p, s)
<1>1. \A i \in 1..Len(s) : i = 1 /\ s[i] = a
  OBVIOUS
<1>2. \A i, j \in 1..Len(s) : ~(i < j)
  OBVIOUS
<1>3. RenderFits(p, a)
  BY DEF RenderFits
<1>4. Renders(p, s)
  <2>1. \A b \in p.asked : b[1] \in 1..p.renderSeq
    BY DEF Renders
  <2>2. Ordered(s)
    BY <1>2 DEF Ordered
  <2>3. \A i \in 1..Len(s) : RenderFits(p, s[i])
    BY <1>1, <1>3
  <2> QED BY <2>1, <2>2, <2>3 DEF Renders
<1>5. ~IsOverlay(a) /\ ~IsContours(a)
  BY MessageKinds
<1>6. OverlayShown(p) /\ ContoursKept(p) /\ ContoursOfPicture(p)
  BY DEF OverlayShown, ContoursKept, ContoursOfPicture, NoLayer
<1>7. Overlays(p, s)
  BY <1>1, <1>5, <1>6 DEF Overlays, OverlayFits
<1>8. Contours(p, s)
  BY <1>1, <1>5, <1>6 DEF Contours, KeptContours, ContoursFit
<1>9. PageBase(p, s)
  BY <1>4, <1>7, <1>8 DEF PageBase, DrawnPicture
<1> QED BY <1>9, Unanswered

LEMMA LoadInv ==
  ASSUME NEW saved \in Saved
  PROVE  LET p == Load(saved)
         IN p \in Page /\ p.png = None /\ PageInv(p, Flight(<<>>, p.posted))
<1> DEFINE none == <<>>
           blank ==
             [want |-> saved.want, ticked |-> saved.ticked, saved |-> saved,
              renderSeq |-> 0, answeredSeq |-> 0, asked |-> {},
              last |-> None, overPicture |-> FALSE,
              mountAnswered |-> FALSE, picture |-> None, drawnRequest |-> None,
              pictureKept |-> FALSE, failedOver |-> FALSE, keptReady |-> None, keptSaved |-> FALSE,
              lastRenderFailed |-> FALSE, drawnNoCells |-> FALSE, refusal |-> None,
              overlay |-> NoLayer, contours |-> NoLayer, exportWait |-> FALSE, png |-> None,
              posted |-> none]
           kept == saved.kept
           r == IF kept = None THEN saved.want ELSE kept.request
           asked == NewAsk(blank, r, "ready")
           ready == [seq |-> 1, refusal |-> kept.refusal]
           p == Load(saved)
           h == [type |-> "ready", seq |-> 1, of |-> r]
           a == Answer(h)
           s == Flight(none, p.posted)
<1>1. /\ saved.want \in Requests /\ saved.ticked \in SUBSET Layers /\ kept \in Kept \cup {None}
      /\ r \in Requests /\ (kept # None => ready \in KeptReady)
  BY DEF Saved, Kept, KeptReady
<1>2. none \in Seq(HostMessage) /\ none \in Seq(PageMessage) /\ Len(none) = 0
  OBVIOUS
<1>3. p = IF kept = None THEN asked
          ELSE [asked EXCEPT !.keptReady = ready, !.drawnRequest = r, !.pictureKept = TRUE]
  BY DEF Load
<1> HIDE DEF none
<1>4. blank \in Page
  <2>1. NoLayer \in Layer(Geometries) /\ NoLayer \in Layer(Requests) /\ {} \in Asks
    BY DEF NoLayer, Layer, Asks
  <2> QED BY <1>1, <1>2, <2>1 DEF Page
<1>5. /\ blank.renderSeq = 0 /\ blank.answeredSeq = 0 /\ blank.asked = {} /\ blank.picture = None
      /\ blank.overlay = NoLayer /\ blank.contours = NoLayer /\ blank.png = None
      /\ blank.posted = none
  OBVIOUS
<1> HIDE DEF blank
<1>6. /\ asked \in Page /\ asked.posted = Append(none, h)
      /\ asked.renderSeq = 1 /\ asked.answeredSeq = 0 /\ asked.last = r /\ asked.asked = {<<1, r>>}
      /\ asked.picture = None /\ asked.overlay = NoLayer /\ asked.contours = NoLayer
      /\ asked.png = None
  <2>1. /\ asked \in Page
        /\ asked.posted = Append(blank.posted, [type |-> "ready", seq |-> blank.renderSeq + 1, of |-> r])
        /\ asked.renderSeq = blank.renderSeq + 1 /\ asked.answeredSeq = blank.answeredSeq
        /\ asked.last = r /\ asked.asked = blank.asked \cup {<<blank.renderSeq + 1, r>>}
        /\ SameShown(blank, asked) /\ SameWaits(blank, asked)
    BY <1>1, <1>4, NewAskEffect
  <2> HIDE DEF asked, r
  <2>2. blank.renderSeq + 1 = 1 /\ blank.asked \cup {<<blank.renderSeq + 1, r>>} = {<<1, r>>}
    BY <1>5
  <2> QED BY <1>5, <2>1, <2>2 DEF SameShown, SameWaits
<1> HIDE DEF asked, p
<1>7. p \in Page
  <2>1. CASE kept = None
    BY <1>3, <1>6, <2>1
  <2>2. CASE kept # None
    <3>1. ready \in KeptReady /\ asked \in Page /\ r \in Requests
      BY <1>1, <1>6, <2>2
    <3> HIDE DEF ready, r
    <3>2. [asked EXCEPT !.keptReady = ready, !.drawnRequest = r, !.pictureKept = TRUE] \in Page
      BY <3>1 DEF Page
    <3> QED BY <1>3, <2>2, <3>2
  <2> QED BY <2>1, <2>2
<1>8. /\ p.posted = asked.posted /\ p.renderSeq = asked.renderSeq
      /\ p.answeredSeq = asked.answeredSeq /\ p.last = asked.last /\ p.asked = asked.asked
      /\ p.picture = asked.picture /\ p.overlay = asked.overlay /\ p.contours = asked.contours
      /\ p.png = asked.png
  <2>1. asked \in Page
    BY <1>6
  <2> HIDE DEF ready, r
  <2> QED BY <1>3, <2>1 DEF Page
<1>9. h \in HostMessage /\ h.seq = 1 /\ h.of = r /\ h.type = "ready"
  BY <1>1 DEF HostMessage
<1> HIDE DEF h, r
<1>10. /\ a \in PageMessage /\ a.seq = 1 /\ a.of = r /\ IsRender(a)
       /\ a.why = Outcome(a.of) /\ (a.type = "gridReady" <=> a.why = "drawn")
  BY <1>9, AnswerTyped
<1> HIDE DEF a
<1>11. s \in Seq(PageMessage) /\ Len(s) = 1 /\ s[1] = a
  <2>1. s = Append(Flight(none, none), Answer(h))
    BY <1>2, <1>6, <1>8, <1>9, FlightAppend
  <2>2. Flight(none, none) = none
    BY <1>2, FlightNone DEF none
  <2>3. Append(none, a) \in Seq(PageMessage) /\ Len(Append(none, a)) = 1 /\ Append(none, a)[1] = a
    BY <1>2, <1>10
  <2> QED BY <2>1, <2>2, <2>3 DEF a
<1> HIDE DEF s
<1>12. PageInv(p, s)
  BY <1>1, <1>6, <1>7, <1>8, <1>10, <1>11, FirstAsked DEF r
<1> QED BY <1>6, <1>7, <1>8, <1>12 DEF p, s, none

LEMMA ReloadInv ==
  ASSUME IInv, Reload
  PROVE  IInv' /\ WritesWholePngs
<1> DEFINE p == Load(page.saved)
           q == [p EXCEPT !.posted = <<>>]
           s == Flight(<<>>, p.posted)
<1>1. page' = q /\ toHost' = p.posted /\ toPage' = <<>>
  BY DEF Reload
<1>2. page.saved \in Saved
  BY DEF IInv, Page
<1>3. p \in Page /\ p.png = None /\ PageInv(p, s)
  BY <1>2, LoadInv
<1> HIDE DEF p
<1>4. p.posted \in Seq(HostMessage) /\ <<>> \in Seq(PageMessage)
  BY <1>3 DEF Page
<1>5. s \in Seq(PageMessage)
  BY <1>4, FlightTyped
<1>6. Line' = s
  BY <1>1 DEF Line, Flight, Answer
<1> HIDE DEF s
<1>7. q \in Page /\ q.posted = <<>> /\ PageInv(q, s) /\ q.png = None
  BY <1>3, <1>5, PageInvPosted
<1> HIDE DEF q
<1>8. IInv'
  BY <1>1, <1>4, <1>6, <1>7 DEF IInv
<1>9. WritesWholePngs
  BY <1>1, <1>7 DEF WritesWholePngs
<1> QED BY <1>8, <1>9

LEMMA InitInv == Init => IInv
<1> SUFFICES ASSUME Init PROVE IInv
  OBVIOUS
<1>1. PICK ticked \in Ticks :
        LET p == Load([want |-> Home, ticked |-> ticked, kept |-> None])
        IN page = [p EXCEPT !.posted = <<>>] /\ toHost = p.posted
  BY DEF Init
<1> DEFINE saved == [want |-> Home, ticked |-> ticked, kept |-> None]
           p == Load(saved)
           q == [p EXCEPT !.posted = <<>>]
           s == Flight(<<>>, p.posted)
<1>2. page = q /\ toHost = p.posted /\ toPage = <<>>
  BY <1>1 DEF Init
<1>3. saved \in Saved
  BY RequestAssumption DEF Saved
<1> HIDE DEF saved
<1>4. p \in Page /\ PageInv(p, s)
  BY <1>3, LoadInv
<1> HIDE DEF p
<1>5. p.posted \in Seq(HostMessage) /\ <<>> \in Seq(PageMessage)
  BY <1>4 DEF Page
<1>6. s \in Seq(PageMessage)
  BY <1>5, FlightTyped
<1>7. Line = s
  BY <1>2 DEF Line
<1> HIDE DEF s
<1>8. q \in Page /\ q.posted = <<>> /\ PageInv(q, s)
  BY <1>4, <1>6, PageInvPosted
<1> HIDE DEF q
<1> QED BY <1>2, <1>5, <1>7, <1>8 DEF IInv

-----------------------------------------------------------------------------
(* The invariant, and what follows from it.                                *)

LEMMA NextInv == IInv /\ [Next]_vars => IInv' /\ WritesWholePngs
<1> SUFFICES ASSUME IInv, [Next]_vars PROVE IInv' /\ WritesWholePngs
  OBVIOUS
<1>1. CASE Change
  BY <1>1, ChangeInv
<1>2. ASSUME NEW layer \in Layers, Toggle(layer) PROVE IInv' /\ WritesWholePngs
  BY <1>2, ToggleInv
<1>3. CASE Export \/ ExportGivesUp
  BY <1>3, ExportStepInv
<1>4. CASE Reload
  BY <1>4, ReloadInv
<1>5. CASE Serve
  BY <1>5, ServeInv
<1>6. CASE Receive
  BY <1>6, ReceiveInv
<1>7. CASE UNCHANGED vars
  <2>1. page' = page /\ toHost' = toHost /\ toPage' = toPage
    BY <1>7 DEF vars
  <2>2. Line' = Line
    BY <2>1 DEF Line, Flight, Answer
  <2>3. IInv'
    BY <2>1, <2>2 DEF IInv
  <2> QED BY <2>1, <2>3 DEF WritesWholePngs
<1> QED BY <1>1, <1>2, <1>3, <1>4, <1>5, <1>6, <1>7 DEF Next

LEMMA InvGives == IInv => TypeOK /\ LinesFitThePicture /\ KeptPictureIsMarked
<1> SUFFICES ASSUME IInv PROVE TypeOK /\ LinesFitThePicture /\ KeptPictureIsMarked
  OBVIOUS
<1>1. page \in Page /\ page.posted = <<>> /\ PageInv(page, Line)
  BY DEF IInv
<1>2. /\ page.last \in Requests /\ page.answeredSeq <= page.renderSeq
      /\ \A a \in page.asked : a[1] \in 1..page.renderSeq
  BY <1>1 DEF PageInv, Renders
<1>3. page.renderSeq \in Nat /\ page.answeredSeq \in 0..page.renderSeq
  BY <1>1, <1>2 DEF Page
<1>4. page.asked \subseteq (1..page.renderSeq) \X Requests
  BY <1>1, <1>2 DEF Page, Asks
<1>5. page.saved.want \in Requests /\ page.saved.kept \in Kept \cup {None}
  BY <1>1 DEF Page, Saved
<1>6. TypeOK
  BY <1>1, <1>2, <1>3, <1>4, <1>5 DEF TypeOK, Page
<1>7. OverlayShown(page) /\ ContoursKept(page) /\ ContoursOfPicture(page) /\ Marks(page)
  BY <1>1 DEF PageInv, Overlays, Contours, KeptContours
<1>8. LinesFitThePicture
  BY <1>7 DEF LinesFitThePicture, OverlayShown, ContoursKept, ContoursOfPicture
<1>9. KeptPictureIsMarked
  BY <1>7 DEF KeptPictureIsMarked, Marks
<1> QED BY <1>6, <1>8, <1>9

\* Each answer to come finds its request among the page's, and the layers'
\* replies the layer they were asked for (render-panel.ts).
THEOREM PageInvariant == Spec => []IInv
BY InitInv, NextInv, PTL DEF Spec

(* Every variable of the page's script and its saved state is of its kind, *)
(* whatever is asked for and however often the page is loaded.             *)
THEOREM PageTypeCorrect == Spec => []TypeOK
BY PageInvariant, InvGives, PTL

(* No reply, late or out of turn for what the page shows by then, leaves   *)
(* coastlines or contours over a picture they were not drawn for           *)
(* (render-panel.ts, gridReady, overlayReady, contourReady).               *)
THEOREM LinesAlwaysFit == Spec => []LinesFitThePicture
BY PageInvariant, InvGives, PTL

(* Once every render is answered, the picture is marked kept exactly when  *)
(* it is not the last render's (render-panel.ts, gridReady and gridError). *)
THEOREM KeptPicturesAreMarked == Spec => []KeptPictureIsMarked
BY PageInvariant, InvGives, PTL

(* Whenever an export writes a PNG, it is of the last render, with each    *)
(* ticked layer that can be projected (render-panel.ts, exportPng).        *)
THEOREM PngsAreWhole == Spec => PngIsWhole
<1>1. IInv /\ [Next]_vars => [page'.png \notin {None, page.png} => WholePng(page')]_vars
  BY NextInv DEF WritesWholePngs
<1>2. [page'.png \notin {None, page.png} => WholePng(page')]_vars =>
        [page'.png \notin {None, page.png} =>
           LET png == page'.png
               lined == page'.picture.geometry \notin NoLines
           IN /\ png.picture = page'.last
              /\ png.overlay = IF "overlay" \in page'.ticked /\ lined THEN png.picture.geometry ELSE None
              /\ png.contours = IF "contours" \in page'.ticked /\ lined THEN png.picture ELSE None]_vars
  BY DEF WholePng
<1> QED BY <1>1, <1>2, PageInvariant, PTL DEF Spec, PngIsWhole

-----------------------------------------------------------------------------
(* What is saved of a picture, and the requests its answers are found by.  *)

(* The renders a page has just asked for.                                  *)
AsksForRender(h) == h.type \in {"ready", "rerender"}
Posts(p) == {p.posted[i] : i \in {j \in 1..Len(p.posted) : AsksForRender(p.posted[j])}}

(* Each render asked for is known by its number until it is answered.      *)
Asking(p) ==
  /\ \A h \in Posts(p) : <<h.seq, h.of>> \in p.asked
  /\ \A a \in p.asked : a[1] \in 1..p.renderSeq
  /\ \A a, b \in p.asked : a[1] = b[1] => a = b

AskedFor(p, m) == IsRender(m) => <<m.seq, m.of>> \in p.asked

(* The picture is of the request it is known by.                           *)
Drawing(p) ==
  /\ p.picture # None => p.drawnRequest = p.picture
  /\ p.failedOver => p.pictureKept
  /\ p.overPicture /\ p.answeredSeq < p.renderSeq => p.picture # None

(* A kept picture is asked for once, before anything is drawn.             *)
KeptAsked(p) ==
  p.keptReady # None =>
    /\ ~p.mountAnswered /\ p.picture = None
    /\ p.keptReady.seq = 1 /\ p.renderSeq = 1

(* The state saved is that of the page as it is.                           *)
Fresh(p) ==
  /\ p.keptSaved <=> KeptToSave(p)
  /\ KeptToSave(p) => p.saved.kept # None /\ p.saved.kept.request = p.drawnRequest
  /\ ~KeptToSave(p) => p.saved.kept = None

Saving(p) ==
  /\ p.keptSaved => p.saved.kept # None /\ p.saved.kept.request = p.drawnRequest
  /\ p.saved.kept # None /\ ~p.keptSaved => p.keptReady # None
  /\ p.overPicture /\ p.answeredSeq < p.renderSeq => p.keptSaved

Back(p) ==
  /\ p.picture # None /\ p.saved.kept # None => p.saved.kept.request = p.picture
  /\ /\ p.want = p.last
     /\ p.overPicture \/ p.answeredSeq = p.renderSeq
     => p.picture \in {None, p.want} \/ p.saved.kept # None

Sound(p) == p \in Page /\ Drawing(p) /\ Asking(p)

(* The invariant: every render on its way is known by its number.          *)
BackInv ==
  /\ IInv /\ Drawing(page) /\ Asking(page) /\ KeptAsked(page)
  /\ Saving(page) /\ Back(page)
  /\ \A i \in 1..Len(Line) : AskedFor(page, Line[i])

LEMMA FreshBack ==
  ASSUME NEW p \in Page, Fresh(p), Drawing(p), Marks(p), p.answeredSeq <= p.renderSeq
  PROVE  Saving(p) /\ Back(p)
<1>1. p.renderSeq \in Nat /\ p.answeredSeq \in Nat
  BY DEF Page
<1>2. ASSUME p.overPicture, p.answeredSeq < p.renderSeq PROVE KeptToSave(p)
  BY <1>2 DEF Drawing, KeptToSave
<1>3. Saving(p)
  BY <1>2 DEF Fresh, Saving
<1>4. ASSUME p.want = p.last, p.answeredSeq = p.renderSeq, p.picture \notin {None, p.want}
      PROVE  KeptToSave(p)
  BY <1>4 DEF Marks, Drawing, KeptToSave
<1>5. Back(p)
  BY <1>1, <1>2, <1>4 DEF Back, Fresh, Drawing
<1> QED BY <1>3, <1>5

(* What a function leaves of the picture and its request.                  *)
Stored(p, q) ==
  /\ q.drawnRequest = p.drawnRequest /\ q.overPicture = p.overPicture
  /\ q.saved = p.saved /\ q.keptSaved = p.keptSaved

(* Only layers, a refusal or an export were changed, or asked for.         *)
Beside(p, q) ==
  /\ q \in Page /\ Stored(p, q)
  /\ q.picture = p.picture /\ SameMarks(p, q) /\ SameCounts(p, q)
  /\ q.keptReady = p.keptReady /\ q.want = p.want /\ Posts(q) = Posts(p)

LEMMA BesideKeeps ==
  ASSUME NEW p \in Page, NEW q, Beside(p, q)
  PROVE  /\ q \in Page
         /\ Drawing(p) => Drawing(q)
         /\ Asking(p) => Asking(q)
         /\ KeptAsked(p) => KeptAsked(q)
         /\ Fresh(p) => Fresh(q)
         /\ Saving(p) => Saving(q)
         /\ Back(p) => Back(q)
<1>1. /\ q \in Page /\ Stored(p, q)
      /\ q.picture = p.picture /\ SameMarks(p, q) /\ SameCounts(p, q)
      /\ q.keptReady = p.keptReady /\ q.want = p.want /\ Posts(q) = Posts(p)
  BY DEF Beside
<1>2. Drawing(p) => Drawing(q)
  BY <1>1 DEF Drawing, Stored, SameMarks, SameCounts
<1>3. Asking(p) => Asking(q)
  BY <1>1 DEF Asking, SameCounts
<1>4. KeptAsked(p) => KeptAsked(q)
  BY <1>1 DEF KeptAsked, SameCounts
<1>5. KeptToSave(q) = KeptToSave(p)
  BY <1>1 DEF KeptToSave, Stored, SameMarks, SameCounts
<1>6. Fresh(p) => Fresh(q)
  BY <1>1, <1>5 DEF Fresh, Stored
<1>7. (Saving(p) => Saving(q)) /\ (Back(p) => Back(q))
  BY <1>1 DEF Saving, Back, Stored, SameMarks, SameCounts
<1> QED BY <1>1, <1>2, <1>3, <1>4, <1>6, <1>7

LEMMA BesideTwice ==
  ASSUME NEW p, NEW q, NEW t, Beside(p, q), Beside(q, t)
  PROVE  Beside(p, t)
BY DEF Beside, Stored, SameMarks, SameCounts

LEMMA BesideSelf ==
  ASSUME NEW p \in Page
  PROVE  Beside(p, p)
BY DEF Beside, Stored, SameMarks, SameCounts

LEMMA PostsAppended ==
  ASSUME NEW p \in Page, NEW q, NEW h \in HostMessage, q.posted = Append(p.posted, h)
  PROVE  Posts(q) = Posts(p) \cup (IF AsksForRender(h) THEN {h} ELSE {})
<1> DEFINE s == p.posted
           t == q.posted
<1>1. /\ s \in Seq(HostMessage) /\ Len(t) = Len(s) + 1 /\ Len(s) \in Nat
      /\ \A i \in 1..Len(s) : t[i] = s[i]
      /\ t[Len(s) + 1] = h
  BY DEF Page
<1>2. Posts(p) = {s[i] : i \in {j \in 1..Len(s) : AsksForRender(s[j])}}
      /\ Posts(q) = {t[i] : i \in {j \in 1..Len(t) : AsksForRender(t[j])}}
  BY DEF Posts
<1> HIDE DEF s, t
<1>3. ASSUME NEW x \in Posts(q) PROVE x \in Posts(p) \/ (AsksForRender(h) /\ x = h)
  <2>1. PICK i \in 1..Len(t) : AsksForRender(t[i]) /\ x = t[i]
    BY <1>2
  <2>2. i \in 1..Len(s) \/ i = Len(s) + 1
    BY <1>1
  <2> QED BY <1>1, <1>2, <2>1, <2>2
<1>4. ASSUME NEW x \in Posts(p) PROVE x \in Posts(q)
  <2>1. PICK i \in 1..Len(s) : AsksForRender(s[i]) /\ x = s[i]
    BY <1>2
  <2>2. i \in 1..Len(t)
    BY <1>1
  <2> QED BY <1>1, <1>2, <2>1, <2>2
<1>5. AsksForRender(h) => h \in Posts(q)
  <2>1. Len(s) + 1 \in 1..Len(t)
    BY <1>1
  <2> QED BY <1>1, <1>2, <2>1
<1> QED BY <1>3, <1>4, <1>5

-----------------------------------------------------------------------------
(* What each function leaves of it.                                        *)

LEMMA SamePosts ==
  ASSUME NEW p, NEW q, q.posted = p.posted
  PROVE  Posts(q) = Posts(p)
BY DEF Posts

LEMMA OverlayBeside ==
  ASSUME NEW p \in Page
  PROVE  Beside(p, RequestOverlay(p))
<1> DEFINE q == RequestOverlay(p)
<1>1. CASE p.picture = None
  BY <1>1, BesideSelf DEF RequestOverlay
<1>2. CASE p.picture # None
  <2>1. /\ q \in Page
        /\ q.picture = p.picture
        /\ \/ q.posted = Append(p.posted, [type |-> "overlay", seq |-> q.overlay.seq, of |-> p.picture])
           \/ q.posted = p.posted
        /\ SameMarks(p, q) /\ SameCounts(p, q) /\ SameWaits(p, q) /\ q.want = p.want
    BY <1>2, OverlayEffect
  <2>2. Stored(p, q)
    BY <1>2 DEF RequestOverlay, Post, Page, Stored
  <2> HIDE DEF q
  <2> DEFINE h == [type |-> "overlay", seq |-> q.overlay.seq, of |-> p.picture]
  <2>3. h \in HostMessage /\ ~AsksForRender(h)
    BY <1>2, <2>1 DEF HostMessage, Page, Layer, AsksForRender
  <2> HIDE DEF h
  <2>4. q.posted = Append(p.posted, h) \/ q.posted = p.posted
    BY <2>1 DEF h
  <2>5. CASE q.posted = p.posted
    BY <2>1, <2>2, <2>5, SamePosts DEF Beside, SameWaits, q
  <2>6. CASE q.posted = Append(p.posted, h)
    <3>1. Posts(q) = Posts(p) \cup (IF AsksForRender(h) THEN {h} ELSE {})
      BY <2>3, <2>6, PostsAppended
    <3>2. Posts(q) = Posts(p)
      BY <2>3, <3>1
    <3> QED BY <2>1, <2>2, <3>2 DEF Beside, SameWaits, q
  <2> QED BY <2>4, <2>5, <2>6
<1> QED BY <1>1, <1>2

LEMMA ContoursBesidePicture ==
  ASSUME NEW p \in Page
  PROVE  Beside(p, RequestContours(p))
<1> DEFINE q == RequestContours(p)
           asks == p.picture # None /\ "contours" \in p.ticked /\ p.refusal = None
<1>1. /\ q \in Page
      /\ q.picture = p.picture
      /\ \/ /\ asks
            /\ q.posted = Append(p.posted, [type |-> "contours", seq |-> q.contours.seq,
                                            of |-> p.picture])
         \/ q.posted = p.posted
      /\ SameMarks(p, q) /\ SameCounts(p, q) /\ SameWaits(p, q) /\ q.want = p.want
  BY ContoursEffect
<1>2. Stored(p, q)
  BY DEF RequestContours, Post, Page, Stored
<1> HIDE DEF q
<1> DEFINE h == [type |-> "contours", seq |-> q.contours.seq, of |-> p.picture]
<1>3. asks => h \in HostMessage /\ ~AsksForRender(h)
  BY <1>1 DEF HostMessage, Page, Layer, AsksForRender
<1> HIDE DEF h
<1>4. q.posted = p.posted \/ (asks /\ q.posted = Append(p.posted, h))
  BY <1>1 DEF h
<1>5. CASE q.posted = p.posted
  BY <1>1, <1>2, <1>5, SamePosts DEF Beside, SameWaits, q
<1>6. CASE asks /\ q.posted = Append(p.posted, h)
  <2>1. Posts(q) = Posts(p) \cup (IF AsksForRender(h) THEN {h} ELSE {})
    BY <1>3, <1>6, PostsAppended
  <2>2. Posts(q) = Posts(p)
    BY <1>3, <1>6, <2>1
  <2> QED BY <1>1, <1>2, <2>2 DEF Beside, SameWaits, q
<1> QED BY <1>4, <1>5, <1>6

LEMMA RefusalBeside ==
  ASSUME NEW p \in Page, NEW r \in Refusals \cup {None}
  PROVE  Beside(p, ShowRangeRefusal(p, r))
<1> DEFINE q == ShowRangeRefusal(p, r)
<1>1. /\ q \in Page /\ q.posted = p.posted /\ q.picture = p.picture
      /\ SameMarks(p, q) /\ SameCounts(p, q) /\ SameWaits(p, q) /\ q.want = p.want
  BY RefusalEffect
<1>2. Stored(p, q)
  BY DEF ShowRangeRefusal, Page, Stored
<1> QED BY <1>1, <1>2, SamePosts DEF Beside, SameWaits

LEMMA ExportBeside ==
  ASSUME NEW p \in Page
  PROVE  Beside(p, ExportPng(p))
<1> DEFINE q == ExportPng(p)
<1>1. /\ q \in Page /\ q.posted = p.posted /\ SameShown(p, q)
      /\ SameMarks(p, q) /\ SameCounts(p, q) /\ q.want = p.want
  BY ExportEffect
<1>2. Stored(p, q) /\ q.keptReady = p.keptReady
  BY DEF ExportPng, Page, Stored
<1> QED BY <1>1, <1>2, SamePosts DEF Beside, SameShown

LEMMA NotWaitingBeside ==
  ASSUME NEW p \in Page
  PROVE  Beside(p, [p EXCEPT !.exportWait = FALSE])
<1> DEFINE q == [p EXCEPT !.exportWait = FALSE]
<1>1. q \in Page
  BY DEF Page
<1>2. /\ q.posted = p.posted /\ q.picture = p.picture /\ q.want = p.want
      /\ q.keptReady = p.keptReady
      /\ SameMarks(p, q) /\ SameCounts(p, q) /\ Stored(p, q)
  BY DEF Page, SameMarks, SameCounts, Stored
<1> QED BY <1>1, <1>2, SamePosts DEF Beside

LEMMA FollowOverlayBeside ==
  ASSUME NEW p \in Page
  PROVE  Beside(p, FollowOverlay(p))
<1> DEFINE c == [p.contours EXCEPT !.runs = None]
           o == [p.overlay EXCEPT !.runs = None]
           a == [p EXCEPT !.contours = c, !.overlay = o]
<1>1. c \in Layer(Requests) /\ o \in Layer(Geometries)
  BY DEF Page, Layer
<1>2. [p EXCEPT !.contours.runs = None, !.overlay.runs = None] = a
  BY DEF Page
<1>3. FollowOverlay(p) = p \/ FollowOverlay(p) = RequestOverlay(a)
  BY <1>2 DEF FollowOverlay
<1> HIDE DEF c, o
<1>4. a \in Page
  BY <1>1 DEF Page
<1>5. /\ a.posted = p.posted /\ a.picture = p.picture /\ a.want = p.want
      /\ a.keptReady = p.keptReady
      /\ SameMarks(p, a) /\ SameCounts(p, a) /\ Stored(p, a)
  BY DEF Page, SameMarks, SameCounts, Stored
<1> HIDE DEF a
<1>6. Beside(p, a)
  BY <1>4, <1>5, SamePosts DEF Beside
<1>7. Beside(p, RequestOverlay(a))
  BY <1>4, <1>6, OverlayBeside, BesideTwice
<1> QED BY <1>3, <1>7, BesideSelf

LEMMA FollowContoursBeside ==
  ASSUME NEW p \in Page
  PROVE  Beside(p, FollowContours(p))
BY ContoursBesidePicture, BesideSelf DEF FollowContours

LEMMA LayerAnsweredBeside ==
  ASSUME NEW p \in Page, NEW m \in PageMessage, NEW q \in Page,
         q = OverlayAnswered(p, m) \/ q = ContoursAnswered(p, m)
  PROVE  Beside(p, q)
<1>1. /\ q.posted = p.posted /\ q.picture = p.picture /\ q.want = p.want
      /\ q.keptReady = p.keptReady
  BY DEF OverlayAnswered, ContoursAnswered, Page
<1>2. SameMarks(p, q) /\ SameCounts(p, q)
  BY DEF OverlayAnswered, ContoursAnswered, Page, SameMarks, SameCounts
<1>3. Stored(p, q)
  BY DEF OverlayAnswered, ContoursAnswered, Page, Stored
<1> QED BY <1>1, <1>2, <1>3, SamePosts DEF Beside

\* The state saved is the page's.
LEMMA SnapshotSaves ==
  ASSUME NEW p \in Page
  PROVE  LET q == SnapshotState(p)
         IN /\ q \in Page /\ Fresh(q)
            /\ Drawing(p) => Drawing(q)
            /\ Asking(p) => Asking(q)
            /\ KeptAsked(p) => KeptAsked(q)
            /\ q.asked = p.asked /\ q.keptReady = p.keptReady
<1> DEFINE keeps == KeptToSave(p)
           kept == IF keeps THEN [request |-> p.drawnRequest, refusal |-> p.refusal] ELSE None
           saved == [want |-> p.want, ticked |-> p.ticked, kept |-> kept]
           q == SnapshotState(p)
<1>1. /\ q \in Page /\ q.posted = p.posted
      /\ SameShown(p, q) /\ SameMarks(p, q) /\ SameCounts(p, q) /\ SameWaits(p, q)
  BY SnapshotEffect
<1>2. q = [p EXCEPT !.keptSaved = keeps, !.saved = saved]
  BY DEF SnapshotState
<1>3. keeps => kept # None /\ kept.request = p.drawnRequest
  <2>1. ASSUME keeps PROVE kept \in Kept /\ kept.request = p.drawnRequest
    BY <2>1 DEF Kept, KeptToSave, Page
  <2> QED BY <2>1, RequestAssumption
<1>4. ~keeps => kept = None
  OBVIOUS
<1>5. keeps \in BOOLEAN
  BY DEF KeptToSave, Page
<1> HIDE DEF kept
<1>6. /\ q.keptSaved = keeps /\ q.saved = saved
      /\ q.drawnRequest = p.drawnRequest /\ q.overPicture = p.overPicture
  BY <1>2 DEF Page
<1>7. q.saved.kept = kept
  BY <1>6
<1> HIDE DEF q, saved
<1>8. KeptToSave(q) = keeps
  BY <1>1, <1>6 DEF KeptToSave, SameShown, SameMarks, SameCounts
<1> HIDE DEF keeps
<1>9. Fresh(q)
  BY <1>3, <1>4, <1>5, <1>6, <1>7, <1>8 DEF Fresh
<1>10. Posts(q) = Posts(p)
  BY <1>1, SamePosts
<1>11. (Drawing(p) => Drawing(q)) /\ (Asking(p) => Asking(q)) /\ (KeptAsked(p) => KeptAsked(q))
  BY <1>1, <1>6, <1>10
     DEF Drawing, Asking, KeptAsked, SameShown, SameMarks, SameCounts, SameWaits
<1> QED BY <1>1, <1>9, <1>11 DEF q, SameCounts, SameWaits

\* Controls changed: nothing is asked for yet.
LEMMA WantChanged ==
  ASSUME NEW p \in Page, NEW r \in Requests
  PROVE  LET q == [p EXCEPT !.want = r]
         IN /\ q \in Page /\ q.mountAnswered = p.mountAnswered
            /\ Drawing(p) => Drawing(q)
            /\ Asking(p) => Asking(q)
            /\ KeptAsked(p) => KeptAsked(q)
            /\ q.asked = p.asked /\ q.keptReady = p.keptReady
<1> DEFINE q == [p EXCEPT !.want = r]
<1>1. q \in Page
  BY DEF Page
<1>2. /\ q.posted = p.posted /\ q.keptReady = p.keptReady
      /\ q.drawnRequest = p.drawnRequest /\ q.overPicture = p.overPicture
      /\ SameShown(p, q) /\ SameMarks(p, q) /\ SameCounts(p, q)
  BY DEF Page, SameShown, SameMarks, SameCounts
<1> HIDE DEF q
<1>3. Posts(q) = Posts(p)
  BY <1>2, SamePosts
<1>4. (Drawing(p) => Drawing(q)) /\ (Asking(p) => Asking(q)) /\ (KeptAsked(p) => KeptAsked(q))
  BY <1>2, <1>3 DEF Drawing, Asking, KeptAsked, SameShown, SameMarks, SameCounts
<1> QED BY <1>1, <1>2, <1>4 DEF q, SameCounts

\* Another render asked for, over the picture as it is.
LEMMA NewAskKeeps ==
  ASSUME NEW p \in Page, Drawing(p), Asking(p), NEW r \in Requests,
         NEW kind \in {"ready", "rerender"}
  PROVE  LET q == NewAsk(p, r, kind)
         IN /\ Drawing(q) /\ Asking(q) /\ p.asked \subseteq q.asked
            /\ q.drawnRequest = p.drawnRequest /\ q.overPicture = (p.picture # None)
            /\ q.saved = p.saved /\ q.keptSaved = p.keptSaved
<1> DEFINE q == NewAsk(p, r, kind)
<1>0. /\ q \in Page
      /\ q.posted = Append(p.posted, [type |-> kind, seq |-> p.renderSeq + 1, of |-> r])
      /\ q.renderSeq = p.renderSeq + 1
      /\ q.asked = p.asked \cup {<<p.renderSeq + 1, r>>}
      /\ SameShown(p, q) /\ SameMarks(p, q)
  <2>1. CASE kind = "ready"
    BY <2>1, NewAskEffect
  <2>2. CASE kind = "rerender"
    BY <2>2, NewAskEffect
  <2> QED BY <2>1, <2>2
<1> DEFINE n == p.renderSeq + 1
           h == [type |-> kind, seq |-> n, of |-> r]
<1>1. /\ q \in Page /\ q.posted = Append(p.posted, h) /\ q.renderSeq = n
      /\ q.asked = p.asked \cup {<<n, r>>}
      /\ SameShown(p, q) /\ SameMarks(p, q)
  BY <1>0
<1>2. /\ q.drawnRequest = p.drawnRequest /\ q.overPicture = (p.picture # None)
      /\ q.saved = p.saved /\ q.keptSaved = p.keptSaved
  BY DEF NewAsk, Post, Page
<1>3. n \in Nat /\ p.renderSeq \in Nat /\ p.renderSeq < n /\ 1 <= n
  BY DEF Page
<1>4. h \in HostMessage /\ h.seq = n /\ h.of = r
  BY <1>3 DEF HostMessage
<1> HIDE DEF q, h, n
<1>5. Drawing(q)
  BY <1>1, <1>2 DEF Drawing, SameShown, SameMarks
<1>6. \A g \in Posts(q) : g \in Posts(p) \/ g = h
  <2>1. Posts(q) = Posts(p) \cup (IF AsksForRender(h) THEN {h} ELSE {})
    BY <1>1, <1>4, PostsAppended
  <2> QED BY <2>1
<1>7. \A g \in Posts(q) : <<g.seq, g.of>> \in q.asked
  BY <1>1, <1>4, <1>6 DEF Asking
<1>8. ASSUME NEW a \in q.asked
      PROVE  /\ a[1] \in 1..n
             /\ a[1] = n => a = <<n, r>>
             /\ a[1] # n => a \in p.asked
  <2>1. CASE a \in p.asked
    BY <1>3, <2>1 DEF Asking
  <2>2. CASE a = <<n, r>>
    BY <1>3, <2>2
  <2> QED BY <1>1, <2>1, <2>2
<1>9. ASSUME NEW a \in q.asked, NEW b \in q.asked, a[1] = b[1] PROVE a = b
  <2>1. CASE a[1] = n
    BY <1>8, <1>9, <2>1
  <2>2. CASE a[1] # n
    BY <1>8, <1>9, <2>2 DEF Asking
  <2> QED BY <2>1, <2>2
<1>10. Asking(q)
  BY <1>1, <1>7, <1>8, <1>9 DEF Asking
<1> QED BY <1>1, <1>2, <1>5, <1>10 DEF q

\* Every render asked for is saved with the state it is asked from.
LEMMA RerenderSaves ==
  ASSUME NEW p \in Page, Drawing(p), Asking(p)
  PROVE  LET q == PostRerender(p)
         IN /\ q \in Page /\ Fresh(q) /\ Drawing(q) /\ Asking(q)
            /\ p.asked \subseteq q.asked /\ q.keptReady = p.keptReady
<1> DEFINE a == NewAsk(p, p.want, "rerender")
<1>1. p.want \in Requests
  BY DEF Page
<1>2. a \in Page /\ a.keptReady = p.keptReady
  BY <1>1, NewAskEffect DEF SameWaits
<1>3. Drawing(a) /\ Asking(a) /\ p.asked \subseteq a.asked
  BY <1>1, NewAskKeeps
<1>4. PostRerender(p) = SnapshotState(a)
  BY DEF PostRerender
<1> HIDE DEF a
<1> QED BY <1>2, <1>3, <1>4, SnapshotSaves

\* The picture is marked, or no longer.
LEMMA MarksKeep ==
  ASSUME NEW p \in Page, Drawing(p), Asking(p), NEW kept \in BOOLEAN, NEW over \in BOOLEAN,
         over => kept
  PROVE  LET q == [p EXCEPT !.pictureKept = kept, !.failedOver = over]
         IN /\ q \in Page /\ Drawing(q) /\ Asking(q) /\ Stored(p, q)
            /\ q.asked = p.asked /\ q.keptReady = p.keptReady
<1> DEFINE q == [p EXCEPT !.pictureKept = kept, !.failedOver = over]
<1>1. q \in Page
  BY DEF Page
<1>2. /\ q.pictureKept = kept /\ q.failedOver = over /\ q.posted = p.posted
      /\ SameShown(p, q) /\ SameCounts(p, q) /\ SameWaits(p, q)
  BY DEF Page, SameShown, SameCounts, SameWaits
<1>3. Stored(p, q)
  BY DEF Page, Stored
<1> HIDE DEF q
<1>4. Posts(q) = Posts(p)
  BY <1>2, SamePosts
<1>5. Drawing(q) /\ Asking(q)
  BY <1>2, <1>3, <1>4 DEF Drawing, Asking, Stored, SameShown, SameCounts
<1> QED BY <1>1, <1>2, <1>3, <1>5 DEF q, SameCounts, SameWaits

LEMMA MarkedSaves ==
  ASSUME NEW p \in Page, Drawing(p), Asking(p)
  PROVE  LET q == Marked(p)
         IN /\ q \in Page /\ Fresh(q) /\ Drawing(q) /\ Asking(q)
            /\ q.asked = p.asked /\ q.keptReady = p.keptReady
<1> DEFINE kept == p.picture # None /\ p.drawnRequest # None
           over == p.picture # None
           a == [p EXCEPT !.pictureKept = kept, !.failedOver = over]
<1>1. kept \in BOOLEAN /\ over \in BOOLEAN /\ (over => kept)
  BY DEF Drawing
<1>2. Marked(p) = SnapshotState(a)
  BY DEF Marked
<1> HIDE DEF kept, over
<1>3. a \in Page /\ Drawing(a) /\ Asking(a) /\ a.asked = p.asked /\ a.keptReady = p.keptReady
  BY <1>1, MarksKeep
<1> HIDE DEF a
<1> QED BY <1>2, <1>3, SnapshotSaves

LEMMA UnmarkedSaves ==
  ASSUME NEW p \in Page, Drawing(p), Asking(p)
  PROVE  LET q == Unmarked(p)
         IN /\ q \in Page /\ Drawing(q) /\ Asking(q)
            /\ q.asked = p.asked /\ q.keptReady = p.keptReady
            /\ Fresh(q) \/ (~p.keptSaved /\ Stored(p, q))
<1> DEFINE a == [p EXCEPT !.pictureKept = FALSE, !.failedOver = FALSE]
<1>1. Unmarked(p) = IF p.keptSaved THEN SnapshotState(a) ELSE a
  BY DEF Unmarked
<1>2. /\ a \in Page /\ Drawing(a) /\ Asking(a) /\ Stored(p, a)
      /\ a.asked = p.asked /\ a.keptReady = p.keptReady
  BY MarksKeep
<1> HIDE DEF a
<1>3. CASE p.keptSaved
  BY <1>1, <1>2, <1>3, SnapshotSaves
<1>4. CASE ~p.keptSaved
  BY <1>1, <1>2, <1>4
<1> QED BY <1>3, <1>4

-----------------------------------------------------------------------------
(* An answer to a render finds its request.                                *)

\* The requests but one are still known.
KeepsAsks(q, n) == \A a \in page.asked : a[1] # n => a \in q.asked

LEMMA NothingPosted ==
  ASSUME NEW q, q.posted = <<>>
  PROVE  Posts(q) = {}
BY DEF Posts

LEMMA TakenAsks ==
  ASSUME page \in Page, Asking(page), NEW m, NEW q,
         q.asked = {a \in page.asked : a[1] # m.seq}, q.renderSeq = page.renderSeq, Posts(q) = {}
  PROVE  Asking(q) /\ KeepsAsks(q, m.seq)
BY DEF Asking, KeepsAsks

LEMMA RequestFound ==
  ASSUME page \in Page, Asking(page), NEW m \in RenderAnswer, AskedFor(page, m)
  PROVE  AskedRequest(page, m) = m.of
<1> DEFINE c == CHOOSE a \in page.asked : a[1] = m.seq
           b == <<m.seq, m.of>>
<1>1. b \in page.asked /\ b[1] = m.seq /\ b[2] = m.of
  BY DEF AskedFor, RenderAnswer, IsRender
<1>2. AskedRequest(page, m) = c[2]
  BY <1>1 DEF AskedRequest
<1>3. c \in page.asked /\ c[1] = m.seq
  BY <1>1
<1> HIDE DEF c, b
<1>4. c = b
  BY <1>1, <1>3 DEF Asking
<1> QED BY <1>1, <1>2, <1>4

LEMMA DrawnKeeps ==
  ASSUME page \in Page, page.posted = <<>>, Drawing(page), Asking(page),
         NEW m \in RenderAnswer, AskedFor(page, m)
  PROVE  LET q == Drawn(page, m)
         IN /\ Drawing(q) /\ Asking(q) /\ KeepsAsks(q, m.seq) /\ q.keptReady = page.keptReady
            /\ q.saved = page.saved /\ q.keptSaved = page.keptSaved
            /\ q.overPicture = page.overPicture
<1> DEFINE q == Drawn(page, m)
           t == TakeAsked(page, m)
           a == ShowRangeRefusal(t, None)
           x == m.of
           r == AskedRequest(page, m)
           n == IF Latest(m) THEN page.renderSeq ELSE a.answeredSeq
<1>1. /\ q \in Page /\ q.posted = page.posted /\ q.picture = m.of
      /\ q.renderSeq = page.renderSeq /\ SameMarks(page, q) /\ SameWaits(page, q)
  BY DrawnEffect
<1>2. r = m.of /\ m.of \in Requests /\ m.of # None
  BY RequestFound, RequestAssumption DEF RenderAnswer
<1>3. /\ t \in Page /\ t.saved = page.saved /\ t.keptSaved = page.keptSaved
      /\ t.overPicture = page.overPicture /\ t.asked = {b \in page.asked : b[1] # m.seq}
  <2>1. t \in Page
    BY TakeAskedEffect
  <2> QED BY <2>1 DEF TakeAsked, Page
<1>4. q = [a EXCEPT !.picture = x, !.drawnRequest = r, !.mountAnswered = TRUE, !.answeredSeq = n,
                    !.lastRenderFailed = FALSE, !.drawnNoCells = FALSE]
  BY DEF Drawn
<1> HIDE DEF q, t
<1>5. a \in Page /\ Stored(t, a) /\ a.asked = t.asked
  BY <1>3, RefusalBeside DEF Beside, SameCounts
<1> HIDE DEF a, r, n, x
<1>6. /\ q.drawnRequest = r /\ q.overPicture = a.overPicture /\ q.asked = a.asked
      /\ q.saved = a.saved /\ q.keptSaved = a.keptSaved
  BY <1>4, <1>5 DEF Page
<1>7. Posts(q) = {}
  BY <1>1, NothingPosted
<1>8. Asking(q) /\ KeepsAsks(q, m.seq)
  BY <1>1, <1>3, <1>5, <1>6, <1>7, TakenAsks
<1>9. Drawing(q)
  BY <1>1, <1>2, <1>6 DEF Drawing, SameMarks
<1> QED BY <1>1, <1>3, <1>5, <1>6, <1>8, <1>9 DEF q, SameWaits, Stored

LEMMA JudgedKeeps ==
  ASSUME page \in Page, page.posted = <<>>, Drawing(page), Asking(page), NEW m \in RenderAnswer
  PROVE  LET q == Judged(page, m)
         IN /\ Drawing(q) /\ Asking(q) /\ KeepsAsks(q, m.seq) /\ q.keptReady = page.keptReady
            /\ ~Latest(m) => Stored(page, q)
<1> DEFINE q == Judged(page, m)
           t == TakeAsked(page, m)
           taken == [t EXCEPT !.mountAnswered = TRUE]
           n == page.renderSeq
           noCells == m.why = "vacant"
           failed == CASE m.why = "vacant" -> FALSE [] m.why = "failed" -> TRUE
                       [] OTHER -> taken.lastRenderFailed
           counted == [taken EXCEPT !.answeredSeq = n]
           judged == [counted EXCEPT !.lastRenderFailed = failed, !.drawnNoCells = noCells]
<1>1. /\ q \in Page /\ q.posted = page.posted /\ q.renderSeq = page.renderSeq
      /\ q.answeredSeq = AnsweredSeq(m) /\ SameWaits(page, q)
      /\ \/ ~Latest(m) /\ SameShown(page, q) /\ SameMarks(page, q)
         \/ /\ Latest(m) /\ ~Clears(page, m) /\ SameShown(page, q) /\ SameMarks(page, q)
         \/ /\ Latest(m) /\ Clears(page, m) /\ q.picture = None
  BY JudgedEffect
<1>2. q = IF ~Latest(m) THEN taken ELSE IF Clears(page, m) THEN ClearDrawn(judged) ELSE judged
  BY DEF Judged, Clears
<1> HIDE DEF q
<1>3. t \in Page /\ t.asked = {b \in page.asked : b[1] # m.seq} /\ Stored(page, t)
  <2>1. t \in Page
    BY TakeAskedEffect
  <2> QED BY <2>1 DEF TakeAsked, Page, Stored
<1> HIDE DEF t
<1>4. taken \in Page /\ taken.asked = t.asked /\ Stored(t, taken)
  <2>1. t \in Page
    BY <1>3
  <2>2. taken \in Page
    BY <2>1 DEF Page
  <2> QED BY <2>1, <2>2 DEF Page, Stored
<1>5. failed \in BOOLEAN /\ noCells \in BOOLEAN /\ n \in Nat
  BY <1>4 DEF Page
<1> HIDE DEF taken, failed, noCells, n
<1>6. judged \in Page /\ judged.asked = taken.asked /\ Stored(taken, judged)
  <2>1. taken \in Page
    BY <1>4
  <2>2. counted \in Page
    BY <1>5, <2>1, AnswerCounted
  <2>3. judged \in Page
    BY <1>5, <2>2, VerdictTyped
  <2> QED BY <2>1, <2>3 DEF Page, Stored
<1> HIDE DEF judged
<1>7. /\ ClearDrawn(judged).asked = judged.asked
      /\ ClearDrawn(judged).failedOver = FALSE
  BY <1>6, ClearEffect DEF SameCounts
<1>8. Posts(q) = {}
  BY <1>1, NothingPosted
<1>9. q.asked = {b \in page.asked : b[1] # m.seq}
  BY <1>2, <1>3, <1>4, <1>6, <1>7
<1>10. Asking(q) /\ KeepsAsks(q, m.seq)
  BY <1>1, <1>8, <1>9, TakenAsks
<1>11. page.renderSeq \in Nat /\ page.answeredSeq \in Nat
  BY DEF Page
<1>12. CASE ~Latest(m)
  <2>1. q = taken /\ Stored(page, q)
    BY <1>2, <1>3, <1>4, <1>12 DEF Stored
  <2>2. Drawing(q)
    BY <1>1, <1>12, <2>1 DEF Drawing, Stored, SameShown, SameMarks, AnsweredSeq
  <2> QED BY <1>1, <1>10, <2>1, <2>2 DEF q, SameWaits
<1>13. CASE Latest(m)
  <2>1. ~(q.answeredSeq < q.renderSeq)
    BY <1>1, <1>11, <1>13 DEF AnsweredSeq
  <2>2. CASE Clears(page, m)
    <3>1. q.picture = None /\ q.failedOver = FALSE
      BY <1>1, <1>2, <1>7, <1>13, <2>2
    <3> QED BY <1>1, <1>10, <1>13, <2>1, <3>1 DEF Drawing, q, SameWaits
  <2>3. CASE ~Clears(page, m)
    <3>1. q.drawnRequest = page.drawnRequest
      BY <1>2, <1>3, <1>4, <1>6, <1>13, <2>3 DEF Stored
    <3>2. SameShown(page, q) /\ SameMarks(page, q)
      BY <1>1, <1>13, <2>3
    <3>3. Drawing(q)
      BY <2>1, <3>1, <3>2 DEF Drawing, SameShown, SameMarks
    <3> QED BY <1>1, <1>10, <1>13, <3>3 DEF q, SameWaits
  <2> QED BY <2>2, <2>3
<1> QED BY <1>12, <1>13

\* A refusal is shown, or its range is dropped and another render asked for.
LEMMA RefuseKeeps ==
  ASSUME NEW p \in Page, p.mountAnswered, Drawing(p), Asking(p), NEW m \in RenderAnswer
  PROVE  LET q == Refuse(p, m)
         IN /\ q \in Page /\ Drawing(q) /\ Asking(q)
            /\ p.asked \subseteq q.asked /\ q.keptReady = p.keptReady
            /\ Fresh(q) \/ Beside(p, q)
<1> DEFINE q == Refuse(p, m)
           want == [p.want EXCEPT !.range = AutoRange]
           r == [said |-> m.of.range, fields |-> p.want.range, field |-> m.of.field,
                 fixed |-> m.of.range \in BadRanges]
<1>1. p.want \in Requests /\ m.of \in Requests
  BY DEF Page, RenderAnswer
<1>2. want \in Requests /\ r \in Refusals /\ p.want.range \in Ranges
  BY <1>1, RequestAssumption DEF Requests, Refusals
<1>3. ASSUME NEW x \in Refusals \cup {None}, q = ShowRangeRefusal(p, x) \/ q = p
      PROVE  /\ q \in Page /\ Drawing(q) /\ Asking(q)
             /\ p.asked \subseteq q.asked /\ q.keptReady = p.keptReady
             /\ Beside(p, q)
  <2>1. Beside(p, q)
    BY <1>3, RefusalBeside, BesideSelf
  <2> QED BY <2>1, BesideKeeps DEF Beside, SameCounts
<1>4. CASE m.why = "refused" /\ m.of.range = Log /\ p.want.range = Log
  <2> DEFINE a == [p EXCEPT !.want = want]
  <2>1. [p EXCEPT !.want.range = AutoRange] = a
    BY <1>2
  <2>2. /\ a \in Page /\ a.mountAnswered /\ Drawing(a) /\ Asking(a)
        /\ a.asked = p.asked /\ a.keptReady = p.keptReady
    BY <1>2, WantChanged
  <2>3. q = PostRerender(a)
    BY <1>4, <2>1, <2>2 DEF Refuse, RequestRender
  <2> HIDE DEF q, a
  <2> QED BY <2>2, <2>3, RerenderSaves DEF q
<1>5. CASE ~(m.why = "refused" /\ m.of.range = Log /\ p.want.range = Log)
  <2>1. q = ShowRangeRefusal(p, r) \/ q = ShowRangeRefusal(p, None) \/ q = p
    BY <1>5 DEF Refuse
  <2> HIDE DEF q
  <2> QED BY <1>2, <1>3, <2>1 DEF q
<1> QED BY <1>4, <1>5

-----------------------------------------------------------------------------
(* How a step ends.                                                        *)

(* The picture is saved as it is now, or as it was and still should be.    *)
KeepsPicture(q) ==
  /\ q \in Page /\ Drawing(q) /\ Asking(q) /\ KeptAsked(q)
  /\ Fresh(q) \/ (Saving(q) /\ Back(q))

Leaves(n) == \E q : KeepsPicture(q) /\ KeepsAsks(q, n) /\ Become(q)

LEMMA BesideKeepsPicture ==
  ASSUME NEW p, NEW q, NEW n, KeepsPicture(p), Beside(p, q), KeepsAsks(p, n)
  PROVE  KeepsPicture(q) /\ KeepsAsks(q, n)
<1>1. KeepsPicture(q)
  BY BesideKeeps DEF KeepsPicture
<1>2. q.asked = p.asked
  BY DEF Beside, SameCounts
<1> QED BY <1>1, <1>2 DEF KeepsAsks

LEMMA AnsweredKeeps ==
  ASSUME NEW p, NEW n, KeepsPicture(p), KeepsAsks(p, n), Answered(p)
  PROVE  Leaves(n)
<1> DEFINE a == [p EXCEPT !.exportWait = FALSE]
           x == ExportPng(a)
<1>1. Become(p) \/ Become(x)
  BY DEF Answered
<1>2. p \in Page /\ a \in Page /\ Beside(p, a)
  BY NotWaitingBeside DEF KeepsPicture, Beside
<1> HIDE DEF a
<1>3. Beside(p, x)
  BY <1>2, ExportBeside, BesideTwice
<1> HIDE DEF x
<1>4. KeepsPicture(x) /\ KeepsAsks(x, n)
  BY <1>3, BesideKeepsPicture
<1> QED BY <1>1, <1>4 DEF Leaves

\* The controls' own render is asked for over a kept picture, and saved with it.
LEMMA AfterKeeps ==
  ASSUME page \in Page, NEW p \in Page, Drawing(p), Asking(p), p.keptReady = page.keptReady,
         NEW m, NEW n, KeepsAsks(p, n),
         ~Following(m) => KeepsPicture(p),
         AfterKeptReady(p, m)
  PROVE  Leaves(n)
<1>1. CASE ~Following(m)
  BY <1>1, AnsweredKeeps DEF AfterKeptReady
<1>2. CASE Following(m)
  <2> DEFINE refusal == p.keptReady.refusal
             again == refusal # None /\ p.picture # None /\ refusal.fields = p.want.range
             t == IF again THEN ShowRangeRefusal(p, refusal) ELSE p
             a == [t EXCEPT !.keptReady = None]
             x == PostRerender(a)
  <2>1. Answered(x)
    BY <1>2 DEF AfterKeptReady
  <2>2. refusal \in Refusals \cup {None}
    <3>1. p.keptReady \in KeptReady
      BY <1>2 DEF Following, Page
    <3> QED BY <3>1 DEF KeptReady
  <2> HIDE DEF refusal
  <2>3. Beside(p, t)
    BY <2>2, RefusalBeside, BesideSelf
  <2> HIDE DEF t, again
  <2>4. t \in Page /\ Drawing(t) /\ Asking(t) /\ t.asked = p.asked
    BY <2>3, BesideKeeps DEF Beside, SameCounts
  <2>5. a \in Page
    BY <2>4 DEF Page
  <2>6. /\ a.posted = t.posted /\ a.keptReady = None
        /\ Stored(t, a) /\ SameShown(t, a) /\ SameMarks(t, a) /\ SameCounts(t, a)
    BY <2>4 DEF Page, Stored, SameShown, SameMarks, SameCounts
  <2> HIDE DEF a
  <2>7. Posts(a) = Posts(t)
    BY <2>6, SamePosts
  <2>8. Drawing(a) /\ Asking(a) /\ a.asked = p.asked
    BY <2>4, <2>6, <2>7 DEF Drawing, Asking, Stored, SameShown, SameMarks, SameCounts
  <2>9. x \in Page /\ Fresh(x) /\ Drawing(x) /\ Asking(x) /\ a.asked \subseteq x.asked
        /\ x.keptReady = None
    BY <2>5, <2>6, <2>8, RerenderSaves
  <2> HIDE DEF x
  <2>10. KeepsPicture(x) /\ KeepsAsks(x, n)
    BY <2>8, <2>9 DEF KeepsPicture, KeptAsked, KeepsAsks
  <2> QED BY <2>1, <2>10, AnsweredKeeps
<1> QED BY <1>1, <1>2

\* Every render on its way is known, those just asked for too.
LEMMA LineAsked ==
  ASSUME NEW q \in Page, Asking(q), NEW rest \in Seq(PageMessage),
         \A i \in 1..Len(rest) : AskedFor(q, rest[i])
  PROVE  \A i \in 1..Len(Flight(rest, q.posted)) : AskedFor(q, Flight(rest, q.posted)[i])
<1> DEFINE hs == q.posted
           s == Flight(rest, hs)
<1>1. hs \in Seq(HostMessage) /\ Posts(q) = {hs[i] : i \in {j \in 1..Len(hs) : AsksForRender(hs[j])}}
  BY DEF Page, Posts
<1> HIDE DEF hs
<1>2. /\ Len(s) = Len(rest) + Len(hs)
      /\ \A i \in 1..(Len(rest) + Len(hs)) :
           s[i] = IF i <= Len(rest) THEN rest[i] ELSE Answer(hs[i - Len(rest)])
  BY <1>1, FlightTyped
<1> HIDE DEF s
<1>3. ASSUME NEW i \in 1..Len(s) PROVE AskedFor(q, s[i])
  <2>1. i \in 1..(Len(rest) + Len(hs)) /\ Len(rest) \in Nat /\ Len(hs) \in Nat
    BY <1>1, <1>2
  <2>2. CASE i <= Len(rest)
    BY <1>2, <2>1, <2>2
  <2>3. CASE i > Len(rest)
    <3> DEFINE k == i - Len(rest)
               h == hs[k]
    <3>1. k \in 1..Len(hs) /\ s[i] = Answer(h) /\ h \in HostMessage
      BY <1>1, <1>2, <2>1, <2>3
    <3>2. ASSUME IsRender(s[i]) PROVE <<s[i].seq, s[i].of>> \in q.asked
      <4>1. AsksForRender(h) /\ s[i].seq = h.seq /\ s[i].of = h.of
        BY <3>1, <3>2, AnswerTyped DEF AsksForRender, HostMessage
      <4>2. h \in Posts(q)
        BY <1>1, <3>1, <4>1
      <4> QED BY <4>1, <4>2 DEF Asking
    <3> QED BY <3>2 DEF AskedFor
  <2> QED BY <2>1, <2>2, <2>3
<1> QED BY <1>3 DEF s, hs

LEMMA BecomeBack ==
  ASSUME IInv', toHost \in Seq(HostMessage), NEW x \in Seq(PageMessage), toPage' = x, NEW n,
         \A i \in 1..Len(Flight(x, toHost)) :
           /\ AskedFor(page, Flight(x, toHost)[i])
           /\ IsRender(Flight(x, toHost)[i]) => Flight(x, toHost)[i].seq # n,
         Leaves(n)
  PROVE  BackInv'
<1> DEFINE rest == Flight(x, toHost)
<1>1. PICK q : KeepsPicture(q) /\ KeepsAsks(q, n) /\ Become(q)
  BY DEF Leaves
<1>2. q \in Page /\ q.posted \in Seq(HostMessage)
  BY <1>1 DEF KeepsPicture, Page
<1>3. page' = [q EXCEPT !.posted = <<>>] /\ toHost' = toHost \o q.posted
  BY <1>1 DEF Become
<1>4. Line' = Flight(rest, q.posted)
  <2>1. Line' = Flight(toPage', toHost')
    BY DEF Line, Flight, Answer
  <2>2. Flight(x, toHost \o q.posted) = Flight(Flight(x, toHost), q.posted)
    BY <1>2, FlightPosted
  <2> QED BY <1>3, <2>1, <2>2
<1>5. rest \in Seq(PageMessage)
  BY FlightTyped
<1> HIDE DEF rest
<1>6. \A i \in 1..Len(Line') : AskedFor(q, Line'[i])
  <2>1. ASSUME NEW i \in 1..Len(rest), IsRender(rest[i])
        PROVE  <<rest[i].seq, rest[i].of>> \in q.asked
    <3>1. <<rest[i].seq, rest[i].of>> \in page.asked /\ rest[i].seq # n
      BY <2>1 DEF AskedFor, rest
    <3>2. <<rest[i].seq, rest[i].of>>[1] # n
      BY <3>1
    <3> QED BY <1>1, <3>1, <3>2 DEF KeepsAsks
  <2>2. \A i \in 1..Len(rest) : AskedFor(q, rest[i])
    BY <2>1 DEF AskedFor
  <2> QED BY <1>1, <1>2, <1>4, <1>5, <2>2, LineAsked DEF KeepsPicture
<1> DEFINE p == page'
<1>7. /\ p.posted = <<>> /\ p.keptReady = q.keptReady /\ p.want = q.want
      /\ Stored(q, p) /\ SameShown(q, p) /\ SameMarks(q, p) /\ SameCounts(q, p)
  BY <1>2, <1>3 DEF Page, Stored, SameShown, SameMarks, SameCounts
<1>8. p \in Page /\ Marks(p) /\ p.answeredSeq <= p.renderSeq
  BY DEF IInv, PageInv, Renders
<1> HIDE DEF p
<1>9. Drawing(p) /\ KeptAsked(p)
  BY <1>1, <1>7 DEF KeepsPicture, Drawing, KeptAsked, Stored, SameShown, SameMarks, SameCounts
<1>10. Asking(p)
  <2>1. Posts(p) = {}
    BY <1>7, NothingPosted
  <2> QED BY <1>1, <1>7, <2>1 DEF KeepsPicture, Asking, SameCounts
<1>11. Saving(p) /\ Back(p)
  <2>1. CASE Fresh(q)
    <3>1. KeptToSave(p) = KeptToSave(q)
      BY <1>7 DEF KeptToSave, Stored, SameShown, SameMarks, SameCounts
    <3>2. Fresh(p)
      BY <1>7, <2>1, <3>1 DEF Fresh, Stored
    <3> QED BY <1>8, <1>9, <3>2, FreshBack
  <2>2. CASE Saving(q) /\ Back(q)
    BY <1>7, <2>2 DEF Saving, Back, Stored, SameShown, SameCounts
  <2> QED BY <1>1, <2>1, <2>2 DEF KeepsPicture
<1>12. \A i \in 1..Len(Line') : AskedFor(p, Line'[i])
  BY <1>6, <1>7 DEF AskedFor, SameCounts
<1> QED BY <1>9, <1>10, <1>11, <1>12 DEF BackInv, p

\* A step of the page that takes no answer.
LEMMA StepBack ==
  ASSUME BackInv, IInv', toPage' = toPage, Leaves(0)
  PROVE  BackInv'
<1>1. toHost \in Seq(HostMessage) /\ toPage \in Seq(PageMessage)
  BY DEF BackInv, IInv
<1>2. ASSUME NEW i \in 1..Len(Line), IsRender(Line[i]) PROVE Line[i].seq # 0
  <2>1. <<Line[i].seq, Line[i].of>> \in page.asked
    BY <1>2 DEF BackInv, AskedFor
  <2>2. <<Line[i].seq, Line[i].of>>[1] \in 1..page.renderSeq
    BY <2>1 DEF BackInv, Asking
  <2> QED BY <2>2
<1>3. \A i \in 1..Len(Line) : AskedFor(page, Line[i]) /\ (IsRender(Line[i]) => Line[i].seq # 0)
  BY <1>2 DEF BackInv
<1> QED BY <1>1, <1>3, BecomeBack DEF Line

LEMMA PageKeeps ==
  ASSUME BackInv
  PROVE  /\ page \in Page /\ page.posted = <<>> /\ Drawing(page) /\ Asking(page)
         /\ KeptAsked(page) /\ Saving(page) /\ Back(page)
         /\ KeepsPicture(page) /\ \A n : KeepsAsks(page, n)
BY DEF BackInv, IInv, KeepsPicture, KeepsAsks

LEMMA ChangeBack ==
  ASSUME BackInv, IInv', Change
  PROVE  BackInv'
<1>1. PICK r \in Requests :
        LET moved == [page EXCEPT !.want = r]
        IN \E edited \in {IF r.range # page.want.range THEN ShowRangeRefusal(moved, None) ELSE moved} :
           \E asked \in {RequestRender(edited)} :
           \E saved \in {SnapshotState(asked)} : Become(saved)
  BY DEF Change
<1> DEFINE moved == [page EXCEPT !.want = r]
           edited == IF r.range # page.want.range THEN ShowRangeRefusal(moved, None) ELSE moved
           asked == RequestRender(edited)
           saved == SnapshotState(asked)
<1>2. Become(saved) /\ toPage' = toPage
  BY <1>1 DEF Change
<1>3. page \in Page /\ Drawing(page) /\ Asking(page) /\ KeptAsked(page)
  BY PageKeeps
<1>4. /\ moved \in Page /\ Drawing(moved) /\ Asking(moved) /\ KeptAsked(moved)
      /\ moved.asked = page.asked
  BY <1>3, WantChanged
<1> HIDE DEF moved
<1>5. Beside(moved, edited)
  BY <1>4, RefusalBeside, BesideSelf
<1> HIDE DEF edited
<1>6. /\ edited \in Page /\ Drawing(edited) /\ Asking(edited) /\ KeptAsked(edited)
      /\ edited.asked = page.asked
  BY <1>4, <1>5, BesideKeeps DEF Beside, SameCounts
<1>7. /\ asked \in Page /\ Drawing(asked) /\ Asking(asked) /\ KeptAsked(asked)
      /\ page.asked \subseteq asked.asked
  <2>1. CASE edited.mountAnswered
    <3>1. asked = PostRerender(edited) /\ edited.keptReady = None
      BY <1>6, <2>1 DEF RequestRender, KeptAsked
    <3> HIDE DEF asked
    <3> QED BY <1>6, <3>1, RerenderSaves DEF KeptAsked
  <2>2. CASE ~edited.mountAnswered
    BY <1>6, <2>2 DEF RequestRender
  <2> QED BY <2>1, <2>2
<1> HIDE DEF asked
<1>8. KeepsPicture(saved) /\ KeepsAsks(saved, 0)
  BY <1>7, SnapshotSaves DEF KeepsPicture, KeepsAsks
<1> QED BY <1>2, <1>8, StepBack DEF Leaves

LEMMA ToggleBack ==
  ASSUME BackInv, IInv', NEW layer \in Layers, Toggle(layer)
  PROVE  BackInv'
<1> DEFINE ticked == IF layer \in page.ticked THEN page.ticked \ {layer} ELSE page.ticked \cup {layer}
           p == [page EXCEPT !.ticked = ticked]
           asked == IF layer = "overlay" THEN RequestOverlay(p) ELSE RequestContours(p)
           saved == SnapshotState(asked)
<1>1. Become(saved) /\ toPage' = toPage
  BY DEF Toggle
<1>2. page \in Page /\ KeepsPicture(page) /\ KeepsAsks(page, 0)
  BY PageKeeps
<1>3. ticked \in SUBSET Layers
  BY <1>2 DEF Page
<1> HIDE DEF ticked
<1>4. p \in Page
  BY <1>2, <1>3 DEF Page
<1>5. /\ p.posted = page.posted /\ p.picture = page.picture /\ p.want = page.want
      /\ p.keptReady = page.keptReady
      /\ SameMarks(page, p) /\ SameCounts(page, p) /\ Stored(page, p)
  BY <1>2 DEF Page, SameMarks, SameCounts, Stored
<1> HIDE DEF p
<1>6. Beside(page, p)
  BY <1>4, <1>5, SamePosts DEF Beside
<1>7. Beside(page, asked)
  BY <1>4, <1>6, OverlayBeside, ContoursBesidePicture, BesideTwice
<1> HIDE DEF asked
<1>8. KeepsPicture(asked) /\ KeepsAsks(asked, 0)
  BY <1>2, <1>7, BesideKeepsPicture
<1>9. KeepsPicture(saved) /\ KeepsAsks(saved, 0)
  BY <1>8, SnapshotSaves DEF KeepsPicture, KeepsAsks
<1> QED BY <1>1, <1>9, StepBack DEF Leaves

LEMMA ExportBack ==
  ASSUME BackInv, IInv', Export \/ ExportGivesUp
  PROVE  BackInv'
<1>1. page \in Page /\ KeepsPicture(page) /\ KeepsAsks(page, 0)
  BY PageKeeps
<1>2. PICK q : q \in {ExportPng(page), [page EXCEPT !.exportWait = FALSE]} /\ Become(q) /\ toPage' = toPage
  BY DEF Export, ExportGivesUp
<1>3. Beside(page, q)
  BY <1>1, <1>2, ExportBeside, NotWaitingBeside
<1>4. KeepsPicture(q) /\ KeepsAsks(q, 0)
  BY <1>1, <1>3, BesideKeepsPicture
<1> QED BY <1>2, <1>4, StepBack DEF Leaves

LEMMA ServeBack ==
  ASSUME BackInv, IInv', Serve
  PROVE  BackInv'
<1>1. page' = page
  BY DEF Serve
<1>2. Line' = Line
  <2>1. toHost \in Seq(HostMessage) /\ toPage \in Seq(PageMessage)
    BY DEF BackInv, IInv
  <2>2. Line' = Flight(toPage', toHost') /\ Line = Flight(toPage, toHost)
    BY DEF Line, Flight, Answer
  <2>3. Flight(Append(toPage, Answer(Head(toHost))), Tail(toHost)) = Flight(toPage, toHost)
    BY <2>1, FlightServed DEF Serve
  <2> QED BY <2>2, <2>3 DEF Serve
<1>3. \A i \in 1..Len(Line') : AskedFor(page', Line'[i])
  BY <1>1, <1>2 DEF BackInv
<1> QED BY <1>1, <1>3 DEF BackInv

\* A picture drawn is saved as it is, or the state saved keeps none.
LEMMA ReadyBack ==
  ASSUME BackInv, NEW m \in RenderAnswer, AskedFor(page, m), RenderFits(page, m), IsRender(m)
  PROVE  LET r == FollowContours(FollowOverlay(Drawn(page, m)))
             q == IF Following(m) THEN r ELSE Unmarked(r)
         IN /\ q \in Page /\ Drawing(q) /\ Asking(q) /\ q.keptReady = page.keptReady
            /\ KeepsAsks(q, m.seq) /\ (~Following(m) => KeepsPicture(q))
<1> DEFINE d == Drawn(page, m)
           l == FollowOverlay(d)
           r == FollowContours(l)
           u == Unmarked(r)
<1>1. /\ page \in Page /\ page.posted = <<>> /\ Drawing(page) /\ Asking(page)
      /\ KeptAsked(page) /\ Saving(page)
  BY PageKeeps
<1>2. /\ d \in Page /\ d.picture = m.of /\ d.renderSeq = page.renderSeq
      /\ d.answeredSeq = AnsweredSeq(m) /\ d.last = page.last
      /\ SameMarks(page, d) /\ d.want = page.want
  BY <1>1, DrawnEffect
<1>3. /\ Drawing(d) /\ Asking(d) /\ KeepsAsks(d, m.seq) /\ d.keptReady = page.keptReady
      /\ d.saved = page.saved /\ d.keptSaved = page.keptSaved /\ d.overPicture = page.overPicture
  BY <1>1, DrawnKeeps
<1> HIDE DEF d
<1>4. Beside(d, r)
  <2>1. Beside(d, l)
    BY <1>2, FollowOverlayBeside
  <2> HIDE DEF l
  <2>2. l \in Page
    BY <2>1 DEF Beside
  <2> QED BY <2>1, <2>2, FollowContoursBeside, BesideTwice
<1> HIDE DEF r
<1>5. /\ r \in Page /\ Drawing(r) /\ Asking(r) /\ KeepsAsks(r, m.seq)
      /\ r.keptReady = page.keptReady
  BY <1>2, <1>3, <1>4, BesideKeeps DEF Beside, SameCounts, KeepsAsks
<1>6. CASE Following(m)
  BY <1>5, <1>6 DEF r, l, d
<1>7. CASE ~Following(m)
  <2>1. page.keptReady = None
    <3>1. SUFFICES ASSUME page.keptReady # None PROVE FALSE
      OBVIOUS
    <3>2. page.keptReady.seq = 1 /\ page.renderSeq = 1
      BY <1>1, <3>1 DEF KeptAsked
    <3>3. <<m.seq, m.of>> \in page.asked
      BY DEF AskedFor
    <3>4. <<m.seq, m.of>>[1] \in 1..page.renderSeq
      BY <1>1, <3>3 DEF Asking
    <3>5. m.seq = 1
      BY <3>2, <3>4
    <3> QED BY <1>7, <3>1, <3>2, <3>5 DEF Following
  <2>2. /\ u \in Page /\ Drawing(u) /\ Asking(u) /\ u.asked = r.asked /\ u.keptReady = None
        /\ Fresh(u) \/ (~r.keptSaved /\ Stored(r, u))
    BY <1>5, <2>1, UnmarkedSaves
  <2>3. SameShown(r, u) /\ SameCounts(r, u) /\ u.want = r.want
    BY <1>5, UnmarkedEffect
  <2> HIDE DEF u
  <2>4. ASSUME ~r.keptSaved, Stored(r, u) PROVE Saving(u) /\ Back(u)
    <3>1. ~page.keptSaved /\ ~u.keptSaved
      BY <1>3, <1>4, <2>4 DEF Beside, Stored
    <3>2. u.saved.kept = None
      <4>1. page.saved.kept = None
        BY <1>1, <2>1, <3>1 DEF Saving
      <4> QED BY <1>3, <1>4, <2>4, <4>1 DEF Beside, Stored
    <3>3. ~u.overPicture
      <4>1. page.answeredSeq < page.renderSeq
        BY DEF RenderFits
      <4>2. ~page.overPicture
        BY <1>1, <3>1, <4>1 DEF Saving
      <4> QED BY <1>3, <1>4, <2>4, <4>2 DEF Beside, Stored
    <3>4. ASSUME u.want = u.last, u.answeredSeq = u.renderSeq PROVE u.picture = u.want
      <4>1. /\ u.picture = m.of /\ u.last = page.last /\ u.renderSeq = page.renderSeq
            /\ u.answeredSeq = AnsweredSeq(m)
        BY <1>2, <1>4, <2>3 DEF Beside, SameShown, SameCounts
      <4>2. /\ m.seq \in Nat /\ m.seq <= page.renderSeq /\ page.answeredSeq < page.renderSeq
            /\ m.seq = page.renderSeq => m.of = page.last
        BY DEF RenderFits
      <4>3. page.renderSeq \in Nat /\ page.answeredSeq \in Nat
        BY <1>1 DEF Page
      <4>4. Latest(m)
        BY <3>4, <4>1, <4>2, <4>3 DEF AnsweredSeq
      <4>5. m.seq = page.renderSeq
        BY <4>2, <4>3, <4>4 DEF Latest
      <4> QED BY <3>4, <4>1, <4>2, <4>5
    <3> QED BY <3>1, <3>2, <3>3, <3>4 DEF Saving, Back
  <2>5. KeepsPicture(u) /\ KeepsAsks(u, m.seq)
    BY <1>5, <2>2, <2>4 DEF KeepsPicture, KeptAsked, KeepsAsks
  <2> QED BY <1>7, <2>1, <2>2, <2>5 DEF u, r, l, d
<1> QED BY <1>6, <1>7

\* An error answers its render, and the last one's leaves the picture marked and saved.
LEMMA ErrorBack ==
  ASSUME BackInv, NEW m \in RenderAnswer, AskedFor(page, m), RenderFits(page, m), IsRender(m)
  PROVE  LET f == Refuse(Judged(page, m), m)
             q == IF Latest(m) THEN Marked(f) ELSE f
         IN /\ q \in Page /\ Drawing(q) /\ Asking(q) /\ q.keptReady = page.keptReady
            /\ KeepsAsks(q, m.seq) /\ (~Following(m) => KeepsPicture(q))
<1> DEFINE j == Judged(page, m)
           f == Refuse(j, m)
           k == Marked(f)
<1>1. /\ page \in Page /\ page.posted = <<>> /\ Drawing(page) /\ Asking(page)
      /\ KeptAsked(page) /\ Saving(page) /\ Back(page)
  BY PageKeeps
<1>2. /\ j \in Page /\ j.mountAnswered = TRUE /\ j.renderSeq = page.renderSeq /\ j.last = page.last
      /\ j.answeredSeq = AnsweredSeq(m) /\ j.want = page.want
      /\ ~Latest(m) => SameShown(page, j)
  BY <1>1, JudgedEffect
<1>3. /\ Drawing(j) /\ Asking(j) /\ KeepsAsks(j, m.seq) /\ j.keptReady = page.keptReady
      /\ ~Latest(m) => Stored(page, j)
  BY <1>1, JudgedKeeps
<1> HIDE DEF j
<1>4. /\ f \in Page /\ Drawing(f) /\ Asking(f)
      /\ j.asked \subseteq f.asked /\ f.keptReady = page.keptReady
      /\ Fresh(f) \/ Beside(j, f)
  BY <1>2, <1>3, RefuseKeeps
<1> HIDE DEF f
<1>5. KeepsAsks(f, m.seq)
  BY <1>3, <1>4 DEF KeepsAsks
<1>6. ~Latest(m) \/ ~Following(m) => page.keptReady = None
  <2>1. SUFFICES ASSUME page.keptReady # None PROVE Latest(m) /\ Following(m)
    OBVIOUS
  <2>2. page.keptReady.seq = 1 /\ page.renderSeq = 1
    BY <1>1, <2>1 DEF KeptAsked
  <2>3. <<m.seq, m.of>> \in page.asked
    BY DEF AskedFor
  <2>4. <<m.seq, m.of>>[1] \in 1..page.renderSeq
    BY <1>1, <2>3 DEF Asking
  <2>5. m.seq = 1
    BY <2>2, <2>4
  <2> QED BY <2>1, <2>2, <2>5 DEF Following, Latest
<1>7. CASE Latest(m)
  <2>1. /\ k \in Page /\ Fresh(k) /\ Drawing(k) /\ Asking(k)
        /\ k.asked = f.asked /\ k.keptReady = page.keptReady
    BY <1>4, MarkedSaves
  <2> HIDE DEF k
  <2>2. KeepsAsks(k, m.seq) /\ (~Following(m) => KeepsPicture(k))
    BY <1>5, <1>6, <2>1 DEF KeepsAsks, KeepsPicture, KeptAsked
  <2> QED BY <1>7, <2>1, <2>2 DEF k, f, j
<1>8. CASE ~Latest(m)
  <2>1. KeptAsked(f)
    BY <1>4, <1>6, <1>8 DEF KeptAsked
  <2>2. CASE Fresh(f)
    BY <1>4, <1>5, <1>8, <2>1, <2>2 DEF KeepsPicture, f, j
  <2>3. CASE Beside(j, f)
    <3>1. Saving(j) /\ Back(j)
      BY <1>1, <1>2, <1>3, <1>8 DEF Saving, Back, Stored, SameShown, AnsweredSeq
    <3>2. Saving(f) /\ Back(f)
      BY <1>2, <2>3, <3>1, BesideKeeps
    <3> QED BY <1>4, <1>5, <1>8, <2>1, <3>2 DEF KeepsPicture, f, j
  <2> QED BY <1>4, <2>2, <2>3
<1> QED BY <1>7, <1>8

LEMMA ReceiveBack ==
  ASSUME BackInv, IInv', Receive
  PROVE  BackInv'
<1> DEFINE m == Head(toPage)
           x == Tail(toPage)
           rest == Tail(Line)
           n == IF IsRender(m) THEN m.seq ELSE 0
<1>1. page \in Page /\ page.posted = <<>> /\ PageInv(page, Line)
      /\ toHost \in Seq(HostMessage) /\ toPage \in Seq(PageMessage)
  BY DEF BackInv, IInv
<1>2. toPage # <<>> /\ OnMessage(m) /\ toPage' = x
  BY DEF Receive
<1>3. x \in Seq(PageMessage)
  BY <1>1, <1>2
<1>4. Flight(x, toHost) = rest /\ Head(Line) = m /\ Line # <<>> /\ Line \in Seq(PageMessage)
  BY <1>1, <1>2, FlightTaken, LineTyped DEF Line, BackInv
<1> HIDE DEF m, x
<1>5. /\ PageInv(page, rest) /\ rest \in Seq(PageMessage) /\ m \in PageMessage
      /\ RenderFits(page, m) /\ OverlayFits(page, m) /\ ContoursFit(page, m)
      /\ IsRender(m) => \A i \in 1..Len(rest) : IsRender(rest[i]) => m.seq < rest[i].seq
  BY <1>1, <1>4, TakeHead
<1>6. AskedFor(page, m) /\ \A i \in 1..Len(rest) : AskedFor(page, rest[i])
  <2>1. /\ m = Line[1] /\ 1 \in 1..Len(Line)
        /\ \A i \in 1..Len(rest) : rest[i] = Line[i + 1] /\ i + 1 \in 1..Len(Line)
    BY <1>4
  <2> QED BY <2>1 DEF BackInv
<1> HIDE DEF rest
<1>7. ASSUME NEW i \in 1..Len(rest), IsRender(rest[i]) PROVE rest[i].seq # n
  <2>1. <<rest[i].seq, rest[i].of>> \in page.asked
    BY <1>6, <1>7 DEF AskedFor
  <2>2. <<rest[i].seq, rest[i].of>>[1] \in 1..page.renderSeq
    BY <2>1 DEF BackInv, Asking
  <2>3. rest[i].seq \in 1..page.renderSeq /\ page.renderSeq \in Nat
    BY <1>1, <2>2 DEF Page
  <2>4. CASE IsRender(m)
    <3>1. m.seq < rest[i].seq /\ m.seq \in Nat
      BY <1>5, <1>7, <2>4 DEF RenderFits
    <3> QED BY <2>3, <2>4, <3>1
  <2>5. CASE ~IsRender(m)
    BY <2>3, <2>5
  <2> QED BY <2>4, <2>5
<1>8. Leaves(n)
  <2>0. KeepsPicture(page) /\ KeepsAsks(page, 0)
    BY PageKeeps
  <2>1. CASE m.type = "gridReady"
    <3> DEFINE r == FollowContours(FollowOverlay(Drawn(page, m)))
               p == IF Following(m) THEN r ELSE Unmarked(r)
    <3>1. IsRender(m) /\ m \in RenderAnswer /\ n = m.seq
      BY <1>5, <2>1, MessageKinds DEF IsRender
    <3>2. AfterKeptReady(p, m)
      BY <1>2, <2>1 DEF OnMessage, OnGridReady
    <3>3. /\ p \in Page /\ Drawing(p) /\ Asking(p) /\ p.keptReady = page.keptReady
          /\ KeepsAsks(p, m.seq) /\ (~Following(m) => KeepsPicture(p))
      BY <1>5, <1>6, <3>1, ReadyBack
    <3> HIDE DEF p, n
    <3> QED BY <1>1, <3>1, <3>2, <3>3, AfterKeeps
  <2>2. CASE m.type = "gridError"
    <3> DEFINE f == Refuse(Judged(page, m), m)
               p == IF Latest(m) THEN Marked(f) ELSE f
    <3>1. IsRender(m) /\ m \in RenderAnswer /\ n = m.seq
      BY <1>5, <2>2, MessageKinds DEF IsRender
    <3>2. AfterKeptReady(p, m)
      BY <1>2, <2>2 DEF OnMessage, OnGridError
    <3>3. /\ p \in Page /\ Drawing(p) /\ Asking(p) /\ p.keptReady = page.keptReady
          /\ KeepsAsks(p, m.seq) /\ (~Following(m) => KeepsPicture(p))
      BY <1>5, <1>6, <3>1, ErrorBack
    <3> HIDE DEF p, n
    <3> QED BY <1>1, <3>1, <3>2, <3>3, AfterKeeps
  <2>3. CASE IsOverlay(m) \/ IsContours(m)
    <3>1. n = 0
      BY <1>5, <2>3, MessageKinds
    <3> HIDE DEF n
    <3>2. ASSUME NEW p \in Page, p = OverlayAnswered(page, m) \/ p = ContoursAnswered(page, m),
                 Answered(p)
          PROVE  Leaves(n)
      <4>1. KeepsPicture(p) /\ KeepsAsks(p, 0)
        BY <1>1, <1>5, <2>0, <3>2, LayerAnsweredBeside, BesideKeepsPicture
      <4> QED BY <3>1, <3>2, <4>1, AnsweredKeeps
    <3>3. CASE IsOverlay(m)
      <4>1. Answered(OverlayAnswered(page, m))
        BY <1>2, <3>3 DEF OnMessage, IsOverlay
      <4>2. OverlayAnswered(page, m) \in Page
        BY <1>1, <1>5, <3>3, OverlayAnsweredInv
      <4> QED BY <3>2, <4>1, <4>2
    <3>4. CASE IsContours(m)
      <4>1. Answered(ContoursAnswered(page, m))
        BY <1>2, <3>4 DEF OnMessage, IsContours
      <4>2. ContoursAnswered(page, m) \in Page
        BY <1>1, <1>5, <3>4, ContoursAnsweredInv
      <4> QED BY <3>2, <4>1, <4>2
    <3> QED BY <2>3, <3>3, <3>4
  <2> QED BY <1>5, <2>1, <2>2, <2>3, MessageKinds DEF IsRender
<1> HIDE DEF n
<1> QED BY <1>1, <1>2, <1>3, <1>4, <1>6, <1>7, <1>8, BecomeBack

\* The page loaded asks for the kept picture first, and keeps it saved.
LEMMA LoadKeeps ==
  ASSUME NEW saved \in Saved
  PROVE  LET p == Load(saved)
         IN Drawing(p) /\ Asking(p) /\ KeptAsked(p) /\ Saving(p) /\ Back(p)
<1> DEFINE none == <<>>
           blank ==
             [want |-> saved.want, ticked |-> saved.ticked, saved |-> saved,
              renderSeq |-> 0, answeredSeq |-> 0, asked |-> {},
              last |-> None, overPicture |-> FALSE,
              mountAnswered |-> FALSE, picture |-> None, drawnRequest |-> None,
              pictureKept |-> FALSE, failedOver |-> FALSE, keptReady |-> None, keptSaved |-> FALSE,
              lastRenderFailed |-> FALSE, drawnNoCells |-> FALSE, refusal |-> None,
              overlay |-> NoLayer, contours |-> NoLayer, exportWait |-> FALSE, png |-> None,
              posted |-> none]
           kept == saved.kept
           r == IF kept = None THEN saved.want ELSE kept.request
           asked == NewAsk(blank, r, "ready")
           ready == [seq |-> 1, refusal |-> kept.refusal]
           p == Load(saved)
<1>1. /\ saved.want \in Requests /\ saved.ticked \in SUBSET Layers /\ kept \in Kept \cup {None}
      /\ r \in Requests /\ (kept # None => ready \in KeptReady)
  BY DEF Saved, Kept, KeptReady
<1>2. none \in Seq(HostMessage) /\ Len(none) = 0
  OBVIOUS
<1>3. p = IF kept = None THEN asked
          ELSE [asked EXCEPT !.keptReady = ready, !.drawnRequest = r, !.pictureKept = TRUE]
  BY DEF Load
<1> HIDE DEF none
<1>4. blank \in Page
  <2>1. NoLayer \in Layer(Geometries) /\ NoLayer \in Layer(Requests) /\ {} \in Asks
    BY DEF NoLayer, Layer, Asks
  <2> QED BY <1>1, <1>2, <2>1 DEF Page
<1>5. /\ blank.renderSeq = 0 /\ blank.answeredSeq = 0 /\ blank.asked = {} /\ blank.picture = None
      /\ blank.failedOver = FALSE /\ blank.overPicture = FALSE /\ blank.keptSaved = FALSE
      /\ blank.keptReady = None /\ blank.mountAnswered = FALSE /\ blank.saved = saved
      /\ blank.posted = none
  OBVIOUS
<1> HIDE DEF blank
<1>6. Drawing(blank) /\ Asking(blank)
  <2>1. Posts(blank) = {}
    BY <1>5, NothingPosted DEF none
  <2> QED BY <1>5, <2>1 DEF Drawing, Asking
<1>7. /\ asked \in Page /\ asked.renderSeq = 1 /\ asked.answeredSeq = 0
      /\ asked.picture = None /\ asked.failedOver = FALSE /\ asked.mountAnswered = FALSE
      /\ asked.keptReady = None
  <2>1. /\ asked \in Page
        /\ asked.renderSeq = blank.renderSeq + 1 /\ asked.answeredSeq = blank.answeredSeq
        /\ asked.mountAnswered = blank.mountAnswered
        /\ SameShown(blank, asked) /\ SameMarks(blank, asked) /\ SameWaits(blank, asked)
    BY <1>1, <1>4, NewAskEffect
  <2> HIDE DEF asked, r
  <2> QED BY <1>5, <2>1 DEF SameShown, SameMarks, SameWaits
<1>8. /\ Asking(asked) /\ asked.overPicture = FALSE
      /\ asked.saved = saved /\ asked.keptSaved = FALSE
  BY <1>1, <1>4, <1>5, <1>6, NewAskKeeps
<1> HIDE DEF asked, p, r, ready
<1>9. /\ p.posted = asked.posted /\ p.asked = asked.asked /\ p.renderSeq = 1 /\ p.answeredSeq = 0
      /\ p.picture = None /\ p.failedOver = FALSE /\ p.mountAnswered = FALSE
      /\ p.overPicture = FALSE /\ p.saved = saved /\ p.keptSaved = FALSE
      /\ p.keptReady = IF kept = None THEN None ELSE ready
  <2>1. CASE kept = None
    BY <1>3, <1>7, <1>8, <2>1
  <2>2. CASE kept # None
    BY <1>3, <1>7, <1>8, <2>2 DEF Page
  <2> QED BY <2>1, <2>2
<1>10. Posts(p) = Posts(asked)
  BY <1>9, SamePosts
<1>11. Asking(p)
  BY <1>7, <1>8, <1>9, <1>10 DEF Asking
<1>12. kept # None => ready # None /\ ready.seq = 1
  BY <1>1, RequestAssumption DEF ready
<1>13. Drawing(p) /\ KeptAsked(p) /\ Saving(p) /\ Back(p)
  BY <1>9, <1>12 DEF Drawing, KeptAsked, Saving, Back
<1> QED BY <1>11, <1>13 DEF p

\* A page loaded: nothing but its first request is on its way.
LEMMA LoadedBack ==
  ASSUME NEW saved \in Saved, NEW q, q = [Load(saved) EXCEPT !.posted = <<>>]
  PROVE  /\ Drawing(q) /\ Asking(q) /\ KeptAsked(q) /\ Saving(q) /\ Back(q)
         /\ \A i \in 1..Len(Flight(<<>>, Load(saved).posted)) :
              AskedFor(q, Flight(<<>>, Load(saved).posted)[i])
<1> DEFINE p == Load(saved)
<1>1. p \in Page
  BY LoadInv
<1>2. Drawing(p) /\ Asking(p) /\ KeptAsked(p) /\ Saving(p) /\ Back(p)
  BY LoadKeeps
<1> HIDE DEF p
<1>3. /\ q.posted = <<>> /\ q.keptReady = p.keptReady /\ q.want = p.want
      /\ Stored(p, q) /\ SameShown(p, q) /\ SameMarks(p, q) /\ SameCounts(p, q)
  BY <1>1 DEF Page, Stored, SameShown, SameMarks, SameCounts, p
<1>4. Drawing(q) /\ KeptAsked(q) /\ Saving(q) /\ Back(q)
  BY <1>2, <1>3
     DEF Drawing, KeptAsked, Saving, Back, Stored, SameShown, SameMarks, SameCounts
<1>5. Asking(q)
  <2>1. Posts(q) = {}
    BY <1>3, NothingPosted
  <2> QED BY <1>2, <1>3, <2>1 DEF Asking, SameCounts
<1>6. \A i \in 1..Len(Flight(<<>>, p.posted)) : AskedFor(p, Flight(<<>>, p.posted)[i])
  <2>1. <<>> \in Seq(PageMessage) /\ \A i \in 1..Len(<<>>) : AskedFor(p, <<>>[i])
    OBVIOUS
  <2> QED BY <1>1, <1>2, <2>1, LineAsked
<1>7. \A i \in 1..Len(Flight(<<>>, p.posted)) : AskedFor(q, Flight(<<>>, p.posted)[i])
  BY <1>3, <1>6 DEF AskedFor, SameCounts
<1> QED BY <1>4, <1>5, <1>7 DEF p

LEMMA ReloadBack ==
  ASSUME BackInv, IInv', Reload
  PROVE  BackInv'
<1> DEFINE p == Load(page.saved)
<1>1. page' = [p EXCEPT !.posted = <<>>] /\ toHost' = p.posted /\ toPage' = <<>>
  BY DEF Reload
<1>2. page.saved \in Saved
  BY DEF BackInv, IInv, Page
<1>3. Line' = Flight(<<>>, p.posted)
  BY <1>1 DEF Line, Flight, Answer
<1>4. /\ Drawing(page') /\ Asking(page') /\ KeptAsked(page') /\ Saving(page') /\ Back(page')
      /\ \A i \in 1..Len(Flight(<<>>, p.posted)) : AskedFor(page', Flight(<<>>, p.posted)[i])
  BY <1>1, <1>2, LoadedBack
<1> HIDE DEF p
<1> QED BY <1>3, <1>4 DEF BackInv

LEMMA InitBack == Init => BackInv
<1> SUFFICES ASSUME Init PROVE BackInv
  OBVIOUS
<1>1. PICK ticked \in Ticks :
        LET p == Load([want |-> Home, ticked |-> ticked, kept |-> None])
        IN page = [p EXCEPT !.posted = <<>>] /\ toHost = p.posted
  BY DEF Init
<1> DEFINE saved == [want |-> Home, ticked |-> ticked, kept |-> None]
           p == Load(saved)
<1>2. page = [p EXCEPT !.posted = <<>>] /\ toHost = p.posted /\ toPage = <<>>
  BY <1>1 DEF Init
<1>3. saved \in Saved
  BY RequestAssumption DEF Saved
<1> HIDE DEF saved
<1>4. Line = Flight(<<>>, p.posted)
  BY <1>2 DEF Line
<1>5. /\ Drawing(page) /\ Asking(page) /\ KeptAsked(page) /\ Saving(page) /\ Back(page)
      /\ \A i \in 1..Len(Flight(<<>>, p.posted)) : AskedFor(page, Flight(<<>>, p.posted)[i])
  BY <1>2, <1>3, LoadedBack
<1> HIDE DEF p
<1> QED BY <1>4, <1>5, InitInv DEF BackInv

LEMMA NextBack == BackInv /\ [Next]_vars => BackInv'
<1> SUFFICES ASSUME BackInv, [Next]_vars PROVE BackInv'
  OBVIOUS
<1>0. IInv /\ IInv'
  BY NextInv DEF BackInv
<1>1. CASE Change
  BY <1>0, <1>1, ChangeBack
<1>2. ASSUME NEW layer \in Layers, Toggle(layer) PROVE BackInv'
  BY <1>0, <1>2, ToggleBack
<1>3. CASE Export \/ ExportGivesUp
  BY <1>0, <1>3, ExportBack
<1>4. CASE Reload
  BY <1>0, <1>4, ReloadBack
<1>5. CASE Serve
  BY <1>0, <1>5, ServeBack
<1>6. CASE Receive
  BY <1>0, <1>6, ReceiveBack
<1>7. CASE UNCHANGED vars
  <2>1. page' = page /\ toHost' = toHost /\ toPage' = toPage
    BY <1>7 DEF vars
  <2>2. Line' = Line
    BY <2>1 DEF Line, Flight, Answer
  <2> QED BY <1>0, <2>1, <2>2 DEF BackInv
<1> QED BY <1>1, <1>2, <1>3, <1>4, <1>5, <1>6, <1>7 DEF Next

(* A picture that the controls would not draw is in the saved state with   *)
(* the request that drew it, whenever the page may be hidden, for every    *)
(* sequence of changes, answers and reloads (snapshotState).               *)
THEOREM PictureAlwaysComesBack == Spec => []PictureComesBack
<1>1. BackInv => PictureComesBack
  BY DEF BackInv, Back, PictureComesBack
<1> QED BY <1>1, InitBack, NextBack, PTL DEF Spec
==============================================================================
