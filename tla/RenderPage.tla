------------------------------ MODULE RenderPage ------------------------------
(***************************************************************************)
(* The render page's script (extension/src/render-panel.ts): the picture   *)
(* it shows, the renders it has asked for, the overlay and contours drawn  *)
(* over the picture, a PNG export that waits for them, the mark on a       *)
(* picture that a refusal left standing, and the state it saves, from      *)
(* which the page is loaded again after its tab was hidden.  The provider  *)
(* serves one message at a time and answers in order; what is on its way   *)
(* to or from a page that is hidden goes with that page.                   *)
(*                                                                         *)
(* A request names a geometry (projection, bounds and the rest that place  *)
(* pixels), a field (slice and Compare) and a color range.  What a layer   *)
(* shows is named by what it was projected for.                            *)
(***************************************************************************)
EXTENDS Integers, Sequences, SequencesExt

CONSTANTS
  None,        \* no picture, no refusal, no key
  Geometries, Fields, Ranges,
  AutoRange, Log, \* the automatic range, and log10 over it
  VariableOf,  \* a field's variable, which heads a slice panel; in a GRIB panel,
               \* which draws one message, one for all fields
  Failing,     \* fields whose render fails before the range is read
  Vacant,      \* fields with no cells
  BadRanges,   \* ranges refused on any field: the typed values do not hold
  Refused,     \* <<field, range>> refused for what the field holds
  NoLines,     \* geometries onto which no line can be projected
  Home,        \* the request of the page's default controls
  Ticks,       \* the layers an earlier page may have left ticked
  MaxEdits, MaxReloads  \* bounds on what the user does

Layers == {"overlay", "contours"}
Requests == [geometry : Geometries, field : Fields, range : Ranges]

(* What an error may say of a range: what was refused, what the range       *)
(* fields held then, on which field, and whether it is so on any.           *)
Refusals == [said : Ranges, fields : Ranges, field : Fields, fixed : BOOLEAN]

(* What is saved of a picture kept, and what a page loaded over it awaits.  *)
Kept == [request : Requests, refusal : Refusals \cup {None}]
KeptReady == [seq : Nat, refusal : Refusals \cup {None}]

ASSUME RequestAssumption ==
  /\ None \notin Requests \cup Geometries \cup Ranges \cup Refusals
  /\ None \notin Kept /\ None \notin KeptReady
  /\ {AutoRange, Log} \subseteq Ranges
  /\ DOMAIN VariableOf = Fields
  /\ Failing \subseteq Fields /\ Vacant \subseteq Fields
  /\ BadRanges \subseteq Ranges \ {AutoRange, Log}
  /\ Refused \subseteq Fields \X Ranges
  /\ NoLines \subseteq Geometries
  /\ Home \in Requests /\ Ticks \subseteq SUBSET Layers

VARIABLES
  page,     \* the script's variables, its controls and its saved state; and,
            \* for the properties, the render last asked for and whether it
            \* was asked for over a picture (last, overPicture)
  toHost,   \* requests the provider has not read
  toPage,   \* answers the page has not read
  done      \* how often controls were changed and the page loaded again

vars == <<page, toHost, toPage, done>>

(* What the provider answers a render with.                                *)
Outcome(r) ==
  CASE r.field \in Failing -> "failed"
    [] r.field \in Vacant \ Failing -> "vacant"
    [] r.field \notin Failing \cup Vacant
         /\ (r.range \in BadRanges \/ <<r.field, r.range>> \in Refused) -> "refused"
    [] OTHER -> "drawn"

-----------------------------------------------------------------------------
(* The lines over the picture.                                             *)

NoLayer == [seq |-> 0, asked |-> 0, key |-> None, runs |-> None]

Pending(l) == l.asked # 0 /\ l.asked = l.seq

LinesPending(p) == Pending(p.overlay) \/ Pending(p.contours)

(* Gone, with the reply on its way for it and the key it was drawn under.  *)
Dropped(l) == [l EXCEPT !.seq = @ + 1, !.runs = None, !.key = None]

Asked(l, key) == [l EXCEPT !.seq = @ + 1, !.asked = l.seq + 1, !.key = key]

Post(p, m) == [p EXCEPT !.posted = Append(@, m)]

RequestOverlay(p) ==
  IF p.picture = None THEN p
  ELSE LET g == p.picture.geometry
           l == Asked(p.overlay, g)
       IN IF "overlay" \in p.ticked
          THEN Post([p EXCEPT !.overlay = l], [type |-> "overlay", seq |-> l.seq, of |-> p.picture])
          ELSE [p EXCEPT !.overlay = [Dropped(@) EXCEPT !.key = g]]

ContourKey(p) == IF "contours" \in p.ticked THEN p.picture ELSE None

RequestContours(p) ==
  IF p.picture = None \/ "contours" \notin p.ticked \/ p.refusal # None
  THEN [p EXCEPT !.contours = Dropped(@)]
  ELSE LET l == Asked(p.contours, ContourKey(p))
       IN Post([p EXCEPT !.contours = l], [type |-> "contours", seq |-> l.seq, of |-> p.picture])

ShowRangeRefusal(p, refusal) ==
  [p EXCEPT !.refusal = refusal, !.contours = IF refusal = None THEN @ ELSE Dropped(@)]

ClearDrawn(p) ==
  [ShowRangeRefusal(p, None) EXCEPT
    !.picture = None, !.drawnRequest = None, !.pictureKept = FALSE, !.failedOver = FALSE,
    !.overlay = Dropped(@), !.contours = Dropped(@)]

-----------------------------------------------------------------------------
(* Asking for a render, and the state saved for a page loaded again.       *)

KeptToSave_NotOnItsWay(p) == p.drawnRequest # None /\ p.pictureKept
KeptToSave(p) ==
  p.drawnRequest # None /\ (p.pictureKept \/ (p.picture # None /\ p.answeredSeq < p.renderSeq))

SnapshotState(p) ==
  [p EXCEPT
    !.keptSaved = KeptToSave(p),
    !.saved = [want |-> p.want, ticked |-> p.ticked,
               kept |-> IF KeptToSave(p) THEN [request |-> p.drawnRequest, refusal |-> p.refusal]
                        ELSE None]]

NewAsk_UnderTheLast(p, r, type) ==
  LET seq == p.renderSeq + 1
  IN Post([p EXCEPT !.renderSeq = seq, !.asked = @ \cup {<<p.renderSeq, r>>}, !.last = r,
                    !.overPicture = (p.picture # None)],
          [type |-> type, seq |-> seq, of |-> r])
NewAsk(p, r, type) ==
  LET seq == p.renderSeq + 1
  IN Post([p EXCEPT !.renderSeq = seq, !.asked = @ \cup {<<seq, r>>}, !.last = r,
                    !.overPicture = (p.picture # None)],
          [type |-> type, seq |-> seq, of |-> r])

PostRerender(p) == SnapshotState(NewAsk(p, p.want, "rerender"))

RequestRender(p) == IF p.mountAnswered THEN PostRerender(p) ELSE p

AskedRequest(p, m) ==
  IF \E a \in p.asked : a[1] = m.seq THEN (CHOOSE a \in p.asked : a[1] = m.seq)[2] ELSE None

TakeAsked(p, m) == [p EXCEPT !.asked = {a \in @ : a[1] # m.seq}]

(* The script as it is loaded over a saved state: a kept picture is asked  *)
(* for first, else what the controls ask for.  (Init is a page with no     *)
(* picture kept, its lines ticked as an earlier page left them.)           *)
Load(saved) ==
  LET blank ==
        [want |-> saved.want, ticked |-> saved.ticked, saved |-> saved,
         renderSeq |-> 0, answeredSeq |-> 0, asked |-> {},
         last |-> None, overPicture |-> FALSE,
         mountAnswered |-> FALSE, picture |-> None, drawnRequest |-> None,
         pictureKept |-> FALSE, failedOver |-> FALSE, keptReady |-> None, keptSaved |-> FALSE,
         lastRenderFailed |-> FALSE, drawnNoCells |-> FALSE, refusal |-> None,
         overlay |-> NoLayer, contours |-> NoLayer, exportWait |-> FALSE, png |-> None,
         posted |-> <<>>]
      kept == saved.kept
  IN IF kept = None THEN NewAsk(blank, saved.want, "ready")
     ELSE [NewAsk(blank, kept.request, "ready") EXCEPT
            !.keptReady = [seq |-> 1, refusal |-> kept.refusal],
            !.drawnRequest = kept.request, !.pictureKept = TRUE]

-----------------------------------------------------------------------------
(* Exporting a PNG.                                                        *)

Unsettled_PictureOnly(p) == p.answeredSeq < p.renderSeq
Unsettled(p) == p.answeredSeq < p.renderSeq \/ LinesPending(p)

ExportPng(p) ==
  IF Unsettled(p) THEN [p EXCEPT !.exportWait = TRUE]
  ELSE IF p.refusal # None \/ p.lastRenderFailed \/ p.drawnNoCells \/ p.picture = None THEN p
  ELSE [p EXCEPT !.png = [picture |-> p.picture, overlay |-> p.overlay.runs,
                          contours |-> p.contours.runs]]

-----------------------------------------------------------------------------
(* Steps.  A handler is a chain of what it does to the page, each bound by *)
(* \E to the page as the one before left it.                               *)

Become(p) ==
  /\ page' = [p EXCEPT !.posted = <<>>]
  /\ toHost' = toHost \o p.posted

-----------------------------------------------------------------------------
(* The page reads an answer.                                               *)

Latest(m) == m.seq >= page.renderSeq

Following(m) == page.keptReady # None /\ page.keptReady.seq = m.seq

(* What every answer ends with: an export that waited for it goes ahead.   *)
Answered(p) ==
  \E q \in {IF ~p.exportWait \/ Unsettled(p) THEN p ELSE ExportPng([p EXCEPT !.exportWait = FALSE])} :
    Become(q)

(* What follows the answer to a ready that asked for a kept picture: the   *)
(* refusal said again, and the controls' own render.                       *)
AfterKeptReady(p, m) ==
  IF ~Following(m) THEN Answered(p)
  ELSE LET refusal == p.keptReady.refusal
           again == refusal # None /\ p.picture # None /\ refusal.fields = p.want.range
       IN \E q \in {[IF again THEN ShowRangeRefusal(p, refusal) ELSE p EXCEPT !.keptReady = None]} :
          \E asked \in {PostRerender(q)} : Answered(asked)

Drawn(p, m) ==
  [ShowRangeRefusal(TakeAsked(p, m), None) EXCEPT
    !.picture = m.of, !.drawnRequest = AskedRequest(p, m), !.mountAnswered = TRUE,
    !.answeredSeq = IF Latest(m) THEN p.renderSeq ELSE @,
    !.lastRenderFailed = FALSE, !.drawnNoCells = FALSE]

(* The lines that no longer fit the picture are dropped or asked for again. *)
FollowOverlay(p) ==
  IF p.picture.geometry = p.overlay.key THEN p
  ELSE RequestOverlay([p EXCEPT !.contours.runs = None, !.overlay.runs = None])

FollowContours(p) == IF ContourKey(p) = p.contours.key THEN p ELSE RequestContours(p)

Unmarked_KeptStays(p) ==
  LET q == [p EXCEPT !.failedOver = FALSE]
  IN IF p.keptSaved THEN SnapshotState(q) ELSE q
Unmarked(p) ==
  LET q == [p EXCEPT !.pictureKept = FALSE, !.failedOver = FALSE]
  IN IF p.keptSaved THEN SnapshotState(q) ELSE q

OnGridReady(m) ==
  \E drawn \in {Drawn(page, m)} :
  \E lined \in {FollowOverlay(drawn)} :
  \E ringed \in {FollowContours(lined)} :
  \E marked \in {IF Following(m) THEN ringed ELSE Unmarked(ringed)} :
    AfterKeptReady(marked, m)

(* The heading names the field that failed, and no picture of that         *)
(* variable is on screen.                                                  *)
HeadsAnother(p, m) ==
  p.picture = None \/ VariableOf[p.picture.field] # VariableOf[m.of.field]

(* An error answers its request; if that was the last, it says what is now *)
(* wrong, and no picture stands under the heading of a field with no cells *)
(* or of another variable.                                                 *)
Judged(p, m) ==
  LET taken == [TakeAsked(p, m) EXCEPT !.mountAnswered = TRUE]
      judged == [taken EXCEPT
                  !.answeredSeq = p.renderSeq,
                  !.lastRenderFailed =
                    CASE m.why = "vacant" -> FALSE [] m.why = "failed" -> TRUE [] OTHER -> @,
                  !.drawnNoCells = (m.why = "vacant")]
  IN IF ~Latest(m) THEN taken
     ELSE IF m.why = "vacant" \/ HeadsAnother(p, m) THEN ClearDrawn(judged) ELSE judged

(* The refusal an error carries is shown at the range fields; one standing *)
(* goes when it was read off another field than the one that failed.  Log10 *)
(* over a field with no positive floor is dropped by itself.               *)
Refuse(p, m) ==
  IF m.why = "refused" /\ m.of.range = Log /\ p.want.range = Log
  THEN RequestRender([p EXCEPT !.want.range = AutoRange])
  ELSE IF m.why = "refused"
  THEN ShowRangeRefusal(p, [said |-> m.of.range, fields |-> p.want.range, field |-> m.of.field,
                            fixed |-> m.of.range \in BadRanges])
  ELSE IF p.refusal # None /\ ~(p.refusal.fixed \/ p.refusal.field = m.of.field)
  THEN ShowRangeRefusal(p, None)
  ELSE p

Marked(p) ==
  SnapshotState([p EXCEPT !.pictureKept = (p.picture # None /\ p.drawnRequest # None),
                          !.failedOver = (p.picture # None)])

OnGridError(m) ==
  \E judged \in {Judged(page, m)} :
  \E refused \in {Refuse(judged, m)} :
  \E marked \in {IF Latest(m) THEN Marked(refused) ELSE refused} :
    AfterKeptReady(marked, m)

OverlayAnswered_AnySeq(p, m) ==
  [p EXCEPT !.overlay.asked = 0, !.overlay.runs = IF m.type = "overlayReady" THEN m.of.geometry ELSE None]
OverlayAnswered_ErrorWaits(p, m) ==
  IF m.seq # p.overlay.seq THEN p
  ELSE IF m.type = "overlayReady"
  THEN [p EXCEPT !.overlay.asked = 0, !.overlay.runs = m.of.geometry]
  ELSE [p EXCEPT !.overlay.runs = None, !.overlay.key = None]
OverlayAnswered(p, m) ==
  IF m.seq # p.overlay.seq THEN p
  ELSE IF m.type = "overlayReady"
  THEN [p EXCEPT !.overlay.asked = 0, !.overlay.runs = m.of.geometry]
  ELSE [p EXCEPT !.overlay.asked = 0, !.overlay.runs = None, !.overlay.key = None]

ContoursAnswered(p, m) ==
  IF m.seq # p.contours.seq THEN p
  ELSE [p EXCEPT !.contours.asked = 0,
                 !.contours.runs = IF m.type = "contourReady" THEN m.of ELSE None]

OnMessage(m) ==
  CASE m.type = "gridReady" -> OnGridReady(m)
    [] m.type = "gridError" -> OnGridError(m)
    [] m.type \in {"overlayReady", "overlayError"} ->
         \E p \in {OverlayAnswered(page, m)} : Answered(p)
    [] m.type \in {"contourReady", "contourError"} ->
         \E p \in {ContoursAnswered(page, m)} : Answered(p)

-----------------------------------------------------------------------------
(* What the user does, and the provider.                                   *)

(* One control is changed.  A range edited withdraws what was said of the  *)
(* old one.                                                                *)
Change ==
  /\ done.edits < MaxEdits
  /\ \E r \in Requests :
       /\ r # page.want
       /\ \E k \in DOMAIN r : r = [page.want EXCEPT ![k] = r[k]]
       /\ LET moved == [page EXCEPT !.want = r]
          IN \E edited \in {IF r.range # page.want.range THEN ShowRangeRefusal(moved, None) ELSE moved} :
             \E asked \in {RequestRender(edited)} :
             \E saved \in {SnapshotState(asked)} : Become(saved)
  /\ done' = [done EXCEPT !.edits = @ + 1]
  /\ UNCHANGED toPage

Toggle(layer) ==
  /\ done.edits < MaxEdits
  /\ LET ticked == IF layer \in page.ticked THEN page.ticked \ {layer} ELSE page.ticked \cup {layer}
         p == [page EXCEPT !.ticked = ticked]
     IN \E asked \in {IF layer = "overlay" THEN RequestOverlay(p) ELSE RequestContours(p)} :
        \E saved \in {SnapshotState(asked)} : Become(saved)
  /\ done' = [done EXCEPT !.edits = @ + 1]
  /\ UNCHANGED toPage

Export == (\E p \in {ExportPng(page)} : Become(p)) /\ UNCHANGED <<toPage, done>>

(* EXPORT_WAIT_MS went by.                                                 *)
ExportGivesUp ==
  /\ page.exportWait
  /\ Become([page EXCEPT !.exportWait = FALSE])
  /\ UNCHANGED <<toPage, done>>

(* The tab is hidden and shown, or the panel is written again.             *)
Reload ==
  /\ done.reloads < MaxReloads
  /\ \E p \in {Load(page.saved)} :
       page' = [p EXCEPT !.posted = <<>>] /\ toHost' = p.posted
  /\ toPage' = <<>>
  /\ done' = [done EXCEPT !.reloads = @ + 1]

Answer(m) ==
  LET why == Outcome(m.of)
      blank == m.of.geometry \in NoLines
  IN CASE m.type = "overlay" ->
            [type |-> IF blank THEN "overlayError" ELSE "overlayReady", seq |-> m.seq, of |-> m.of]
       [] m.type = "contours" ->
            [type |-> IF blank THEN "contourError" ELSE "contourReady", seq |-> m.seq, of |-> m.of]
       [] OTHER ->
            [type |-> IF why = "drawn" THEN "gridReady" ELSE "gridError",
             seq |-> m.seq, of |-> m.of, why |-> why]

Serve ==
  /\ toHost # <<>>
  /\ toPage' = Append(toPage, Answer(Head(toHost)))
  /\ toHost' = Tail(toHost)
  /\ UNCHANGED <<page, done>>

Receive ==
  /\ toPage # <<>>
  /\ OnMessage(Head(toPage))
  /\ toPage' = Tail(toPage)
  /\ UNCHANGED done

Init ==
  /\ \E ticked \in Ticks :
       LET p == Load([want |-> Home, ticked |-> ticked, kept |-> None])
       IN page = [p EXCEPT !.posted = <<>>] /\ toHost = p.posted
  /\ toPage = <<>>
  /\ done = [edits |-> 0, reloads |-> 0]

Next ==
  \/ Change
  \/ \E layer \in Layers : Toggle(layer)
  \/ Export
  \/ ExportGivesUp
  \/ Reload
  \/ Serve
  \/ Receive

Spec == Init /\ [][Next]_vars

(* The provider and the page read their messages; the user does nothing    *)
(* that is relied on, and neither does the export's timer.                 *)
FairSpec == Spec /\ WF_vars(Serve) /\ WF_vars(Receive)

-----------------------------------------------------------------------------
(* Properties.                                                             *)

Layer(Of) == [seq : Nat, asked : Nat, key : Of \cup {None}, runs : Of \cup {None}]

(* Every variable holds a value of its kind, a line layer is named by what *)
(* its projection depends on, and no message waits outside the channels.   *)
TypeOK ==
  /\ page.want \in Requests
  /\ page.ticked \subseteq Layers
  /\ page.renderSeq \in Nat /\ page.answeredSeq \in 0..page.renderSeq
  /\ page.asked \subseteq (1..page.renderSeq) \X Requests
  /\ page.last \in Requests
  /\ {page.picture, page.drawnRequest} \subseteq Requests \cup {None}
  /\ page.refusal \in Refusals \cup {None}
  /\ page.overlay \in Layer(Geometries)
  /\ page.contours \in Layer(Requests)
  /\ page.saved.want \in Requests /\ page.saved.kept \in Kept \cup {None}
  /\ page.posted = <<>>

(* The lines over the picture are drawn for its own geometry, and contours *)
(* for its own field and range unless newer ones are on their way: a reply *)
(* that comes late, or a picture that moves under the lines, never leaves  *)
(* coastlines or contours over a map they do not fit.                      *)
LinesFitThePicture ==
  LET p == page
  IN /\ p.overlay.runs # None => p.picture # None /\ p.overlay.runs = p.picture.geometry
     /\ p.contours.runs # None =>
          /\ p.picture # None /\ p.contours.runs.geometry = p.picture.geometry
          /\ p.contours.runs = p.picture \/ Pending(p.contours)

(* Once the last render asked for is answered, the picture is marked as    *)
(* kept exactly when it is not that render's: a picture a refusal left     *)
(* standing is never read as the one asked for, and no answer to an        *)
(* earlier request, nor a page loaded again, leaves a mark on one that is. *)
KeptPictureIsMarked ==
  page.answeredSeq = page.renderSeq =>
    ((page.pictureKept \/ page.failedOver) <=> (page.picture \notin {None, page.last}))

(* A picture that the saved controls would not draw is in the saved state  *)
(* with the request that drew it, so hiding the page at any moment loses   *)
(* it neither to a refusal nor to one still on its way.  (For a page that  *)
(* has asked for what its controls say, over a picture or with an answer;  *)
(* a first picture drawn while another render is already on its way is     *)
(* saved only when that one is answered.)                                  *)
PictureComesBack ==
  /\ page.picture # None /\ page.saved.kept # None => page.saved.kept.request = page.picture
  /\ /\ page.want = page.last
     /\ page.overPicture \/ page.answeredSeq = page.renderSeq
     => page.picture \in {None, page.want} \/ page.saved.kept # None

(* A PNG is of the last render asked for, with every ticked layer on it    *)
(* that can be projected, drawn for it, whatever was on its way when the   *)
(* user asked for it.                                                      *)
PngIsWhole ==
  [][page'.png \notin {None, page.png} =>
       LET png == page'.png
           lined == page'.picture.geometry \notin NoLines
       IN /\ png.picture = page'.last
          /\ png.overlay = IF "overlay" \in page'.ticked /\ lined THEN png.picture.geometry ELSE None
          /\ png.contours = IF "contours" \in page'.ticked /\ lined THEN png.picture ELSE None]_vars

(* An export that waits for the picture or its lines ends without its      *)
(* timer: every render and every layer it waits for is answered.           *)
ExportsEnd == page.exportWait ~> ~page.exportWait

(* A PNG is of what the controls ask for (render-panel.ts:6447, "the       *)
(* export waits for the answer to the last request and applies its checks  *)
(* to that"): a change made before the page's first answer is not asked    *)
(* for at all, and the export writes the picture from before it.           *)
PngIsOfTheControls ==
  [][page'.png \notin {None, page.png} => page'.png.picture = page'.want]_vars

(* A refusal standing at the range fields was said of what they hold       *)
(* (render-panel.ts:4341, "the fields still hold what was refused"): one   *)
(* that answers an earlier request is shown over the fields as edited      *)
(* since, and an error about something else leaves it there.               *)
RefusalIsOfTheFields ==
  page.answeredSeq = page.renderSeq /\ page.want = page.last /\ page.refusal # None =>
    page.refusal.said = page.want.range
=============================================================================
