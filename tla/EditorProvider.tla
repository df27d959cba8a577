--------------------------- MODULE EditorProvider ---------------------------
(***************************************************************************)
(* src/extension/src/provider.ts: the custom editor provider of the VS     *)
(* Code extension, for one document URI and one Zarr store.                *)
(*                                                                         *)
(* The extension host is one event loop, so a handler is one action; an    *)
(* `await` (a file read, a dialog) ends the action, and whatever the user  *)
(* does meanwhile happens before the next one.  Messages between a panel   *)
(* and its page are FIFO queues in each direction.                         *)
(*                                                                         *)
(* A file is a member of Contents: what it holds is its listing (the       *)
(* identities of its messages or variables, numbered from 1) and the kind  *)
(* of handle it opens as.  Rendered values are abstracted to the identity  *)
(* of the field they were read from.                                       *)
(***************************************************************************)
EXTENDS PanelHandleGate, Sequences, FiniteSets

CONSTANTS
  Contents,        \* what can be in the file, or in the store
  Fields,          \* message fingerprints and variable names
  Listing,         \* content to the sequence of its fields
  SlotOf,          \* content to the handle map it opens into, or "none"
  FileContents,    \* what the document's file may hold, whenever it is read
  StoreContents,   \* what the Zarr store may hold
  Unrenderable,    \* fields Rust lists but cannot draw
  Editors,         \* editor panels VS Code can have open on the document
  Panels,          \* render panels
  Exports,         \* CSV exports in flight
  RevertOutlivesEditor,  \* VS Code may close an editor while it reverts
  \* Bounds
  MaxHandles,      \* handles ever opened
  MaxDocs,         \* times the document is opened
  MaxReverts,      \* File: Revert File
  MaxInFlight,     \* messages on their way from one page
  MaxReplies       \* replies on their way to one page

DocSlots == {"grib", "netcdf"}
Slots == DocSlots \cup {"zarr"}
Handles == 1..MaxHandles

ASSUME ContentsAssumption ==
  /\ Listing \in [Contents -> Seq(Fields)]
  /\ SlotOf \in [Contents -> Slots \cup {"none"}]
  /\ FileContents \subseteq {c \in Contents : SlotOf[c] # "zarr"}
  /\ StoreContents \subseteq {c \in Contents : SlotOf[c] = "zarr"}
  /\ Unrenderable \subseteq Fields
ASSUME BoundsAssumption ==
  /\ MaxHandles \in Nat /\ MaxDocs \in Nat /\ MaxReverts \in Nat /\ MaxInFlight \in Nat
  /\ MaxReplies \in Nat
  /\ RevertOutlivesEditor \in BOOLEAN
ASSUME NoneAssumption ==
  None \notin Nat /\ None \notin Contents /\ None \notin Fields /\ None \notin Slots

\* Who can hold a handle: a HeldHandles map, a panel's gate, an export's lease.
MapHolder(s) == <<"map", s>>
GateHolder(p) == <<"gate", p>>
ExportHolder(x) == <<"export", x>>
Holders == {MapHolder(s) : s \in Slots} \cup {GateHolder(p) : p \in Panels}
             \cup {ExportHolder(x) : x \in Exports}

VARIABLES
  docs,        \* FieldglassDocuments ever made; the last may be open
  bytes,       \* _bytes of the one VS Code has open on the URI, None when none is
  reading,     \* reverts waiting on their file read: the document, what it read
  reverts,     \* _reverts: reads from disk again
  host,        \* the handle maps and the native handles behind them
  editor,      \* _editorPages and what each editor page lists
  rowAsk,      \* a message on its way from each editor page
  gate,        \* _renderPanelGates
  panel,       \* what each render panel's closure keeps
  page,        \* the webview page of each render panel
  toHost,      \* messages on their way from each render panel's page
  toPage,      \* replies on their way to it
  export,      \* CSV exports waiting on a dialog
  saved        \* the CSV file last written

docVars == <<docs, bytes, reading, reverts>>
editorVars == <<editor, rowAsk>>
panelVars == <<gate, panel, page, toHost, toPage>>
exportVars == <<export, saved>>
vars == <<docs, bytes, reading, reverts, host, editor, rowAsk, gate, panel, page,
          toHost, toPage, export, saved>>

-----------------------------------------------------------------------------
(* Listings                                                                *)

\* The field a number names in a file.
At(c, i) == IF i \in DOMAIN Listing[c] THEN Listing[c][i] ELSE None
\* Where a field is in a file: message.fingerprint, variable.name.
Found(c, f) == {i \in DOMAIN Listing[c] : Listing[c][i] = f}
Renderable(f) == f # None /\ f \notin Unrenderable

-----------------------------------------------------------------------------
(* The handle maps.  `host` is one record, because a handler opens, drops  *)
(* and replaces several entries, each seen by the next:                    *)
(*   map     _handlesByDoc, _netcdfHandlesByDoc, _zarrHandlesByStore       *)
(*   file    what each handle was opened on                                *)
(*   born    reverts when it was opened (no code reads it)                 *)
(*   opened  handles are numbered as they are opened                       *)
(*   leases  HandleLeases                                                  *)

FileOf(h) == host.file[h]

\* native.open, or openStore, and the map entry it is kept under.
OpenInto(hs, s, c, at) ==
  LET n == hs.opened + 1 IN
  [hs EXCEPT !.opened = n,
             !.file[n] = c,
             !.born[n] = at,
             !.map[s] = n,
             !.leases = Replace(hs.leases, hs.map[s], n, MapHolder(s))]

\* HeldHandles.delete
DropEntry(hs, s) ==
  [hs EXCEPT !.map[s] = None,
             !.leases = Release(hs.leases, hs.map[s], MapHolder(s))]

\* Bytes that are neither GRIB nor NetCDF, or that the reader refuses, open
\* nothing.
NeedsOpen(hs, c) == SlotOf[c] \in DocSlots /\ hs.map[SlotOf[c]] = None

\* openOrReuseHandle and openOrReuseNetcdfHandle, as writeEditorPage calls them.
OpenOrReuse(hs, c, at) == IF NeedsOpen(hs, c) THEN OpenInto(hs, SlotOf[c], c, at) ELSE hs

\* What an editor page written from content c lists: the messages of the cached
\* GRIB handle, or the variables of the cached NetCDF one.
RowsOf(hs, c) ==
  IF hs.map["grib"] # None THEN hs.file[hs.map["grib"]]
  ELSE IF SlotOf[c] = "netcdf" THEN hs.file[hs.map["netcdf"]]
  ELSE None

-----------------------------------------------------------------------------
(* Render panels                                                           *)

IsOpen(p) == panel[p].slot # None
OpenEditors == {e \in Editors : editor[e].open}

ClosedEditor == [open |-> FALSE, page |-> 0, rows |-> None]
ClosedPanel ==
  [slot |-> None, listed |-> None, shown |-> 0, name |-> None, refusing |-> FALSE, lost |-> None]
NoPage ==
  [visible |-> FALSE, loaded |-> FALSE, number |-> 0, listed |-> None, html |-> None,
   offer |-> None, answer |-> None, waiting |-> FALSE]
NoExport ==
  [stage |-> "idle", handle |-> None, slot |-> None, index |-> 0, asked |-> None, at |-> 0,
   csv |-> None]

\* The panel's `write`: new HTML, under the gate's page number, replaces the
\* page, which has yet to load.  Its pick list, if any, is `html`.  Messages the
\* old page posted may still be on their way.
Written(pg, pn, number) ==
  [pg EXCEPT !.loaded = FALSE, !.waiting = FALSE, !.answer = None, !.number = number,
             !.listed = pn.listed, !.html = IF pn.refusing THEN pn.listed ELSE None]

Rebuilt(p, g) == Written(page[p], panel[p], g.written)

\* Replies sent to a page that is then written over, or is hidden, are lost with it.
LosesReplies(ps) == toPage' = [p \in Panels |-> IF p \in ps THEN <<>> ELSE toPage[p]]

\* A GRIB or slice panel on handle h of the host state hs, opened on field i.
OpenPanel(p, s, hs, h, i) ==
  LET c == hs.file[h] IN
  /\ ~IsOpen(p)
  /\ host' = [hs EXCEPT !.leases = Hold(hs.leases, h, GateHolder(p))]
  /\ gate' = [gate EXCEPT ![p] = NewGate(h)]
  /\ panel' = [panel EXCEPT ![p] = [ClosedPanel EXCEPT !.slot = s, !.listed = c, !.shown = i,
                                                       !.name = Listing[c][i]]]
  /\ page' = [page EXCEPT ![p] = [NoPage EXCEPT !.visible = TRUE, !.listed = c]]
  /\ UNCHANGED <<toHost, toPage>>

-----------------------------------------------------------------------------
(* The document: VS Code opens, reverts and closes it.  Its file may be     *)
(* replaced at any time, so a read returns any of the file's contents.     *)

\* FieldglassDocument.create, which ends the await on its read of the file.
OpenDocument(c) ==
  /\ bytes = None
  /\ docs < MaxDocs
  /\ docs' = docs + 1
  /\ bytes' = c
  /\ UNCHANGED <<reading, reverts, host, editorVars, panelVars, exportVars>>

\* writeEditorPage on panel e: a page number of its own.
EditorWritten(ed, hs, c) == [ed EXCEPT !.open = TRUE, !.page = @ + 1, !.rows = RowsOf(hs, c)]

\* redrawRenderPanelsOnOpen: a panel that holds a handle where the document has
\* none, or none where it has one.
Holds(p) == HandleOf(gate[p]) # None
RedrawnOnOpen_OnlyOutdates(hs) ==
  {p \in Panels : panel[p].slot \in DocSlots /\ Holds(p) /\ hs.map[panel[p].slot] = None}
RedrawnOnOpen(hs) ==
  {p \in Panels : panel[p].slot \in DocSlots /\ Holds(p) # (hs.map[panel[p].slot] # None)}

\* resolveCustomEditor
ResolveEditor(e) ==
  LET hs == OpenOrReuse(host, bytes, reverts)
      redrawn == RedrawnOnOpen(hs)
  IN /\ bytes # None
     /\ ~editor[e].open
     /\ NeedsOpen(host, bytes) => host.opened < MaxHandles
     /\ host' = hs
     /\ editor' = [editor EXCEPT ![e] = EditorWritten(ClosedEditor, hs, bytes)]
     /\ gate' = [p \in Panels |->
                   IF p \in redrawn /\ Holds(p) THEN Outdate(gate[p]) ELSE gate[p]]
     /\ page' = [p \in Panels |-> IF p \in redrawn THEN Rebuilt(p, gate[p]) ELSE page[p]]
     /\ LosesReplies(redrawn)
     /\ UNCHANGED <<docVars, rowAsk, panel, toHost, exportVars>>

\* The dispose handler of trackPanel: the handles go with the last editor.
DropDocument_KeepsGrib(hs) == DropEntry(hs, "netcdf")
DropDocument(hs) == DropEntry(DropEntry(hs, "grib"), "netcdf")

CloseEditor(e) ==
  LET last == OpenEditors = {e} IN
  /\ editor[e].open
  /\ RevertOutlivesEditor \/ ~last \/ \A r \in reading : r.doc # docs
  /\ editor' = [editor EXCEPT ![e] = ClosedEditor]
  /\ rowAsk' = [rowAsk EXCEPT ![e] = None]
  /\ bytes' = IF last THEN None ELSE bytes
  /\ host' = IF last THEN DropDocument(host) ELSE host
  /\ UNCHANGED <<docs, reading, reverts, panelVars, exportVars>>

\* revertCustomDocument up to its await: the bytes it will assign are those of
\* the file at some moment of the read, which may as well be this one.
StartRevert(c) ==
  LET nth == reverts + Cardinality(reading) + 1 IN
  /\ OpenEditors # {}
  /\ nth <= MaxReverts
  /\ reading' = reading \cup {[doc |-> docs, read |-> c, nth |-> nth]}
  /\ UNCHANGED <<docs, bytes, reverts, host, editorVars, panelVars, exportVars>>

\* reloadDocument, from the bytes c: the old file's handles are dropped, every
\* editor page on the URI is written again, which opens the new handle, and
\* every render panel on it is outdated and written again.
ReloadDocument(c) ==
  LET dropped == DropDocument(host)
      hs == IF OpenEditors = {} THEN dropped ELSE OpenOrReuse(dropped, c, reverts + 1)
      drawn == {p \in Panels : panel[p].slot \in DocSlots}
  IN /\ (OpenEditors # {} /\ NeedsOpen(dropped, c)) => host.opened < MaxHandles
     /\ reverts' = reverts + 1
     /\ host' = hs
     /\ editor' = [e \in Editors |->
                     IF editor[e].open THEN EditorWritten(editor[e], hs, c) ELSE editor[e]]
     /\ gate' = [p \in Panels |-> IF p \in drawn THEN Outdate(gate[p]) ELSE gate[p]]
     /\ page' = [p \in Panels |-> IF p \in drawn THEN Rebuilt(p, gate[p]) ELSE page[p]]
     /\ LosesReplies(drawn)

\* The read is back: _bytes is assigned and the document reloaded.
FinishRevert(r) ==
  /\ reading' = reading \ {r}
  /\ bytes' = IF bytes # None /\ r.doc = docs THEN r.read ELSE bytes
  /\ ReloadDocument(r.read)
  /\ UNCHANGED <<docs, rowAsk, panel, toHost, exportVars>>

-----------------------------------------------------------------------------
(* The editor's page: the user asks for a row (decodeGrid) or a variable   *)
(* (renderVariable) by its number in the page.                             *)

AskRow(e, i) ==
  /\ editor[e].open
  /\ rowAsk[e] = None
  /\ editor[e].rows # None
  /\ i \in DOMAIN Listing[editor[e].rows]
  /\ rowAsk' = [rowAsk EXCEPT ![e] = [page |-> editor[e].page, of |-> editor[e].rows, index |-> i]]
  /\ UNCHANGED <<docVars, host, editor, panelVars, exportVars>>

\* Whether the message on its way opens a panel: it is from the page as last
\* written, and the document's handle holds something to draw at its number.
RowSlot(e) == SlotOf[rowAsk[e].of]
RowOpens_FromAnyPage(e) ==
  LET h == host.map[RowSlot(e)] IN
  h # None /\ (RowSlot(e) = "grib" => Renderable(At(FileOf(h), rowAsk[e].index)))
RowOpens(e) ==
  LET h == host.map[RowSlot(e)] IN
  /\ rowAsk[e].page = editor[e].page
  /\ h # None
  /\ IF RowSlot(e) = "grib" THEN Renderable(At(FileOf(h), rowAsk[e].index))
     ELSE Listing[FileOf(h)] # <<>>

\* handleDecodeGrid and openNetcdfRenderPanel.  The slice panel falls back to the
\* file's first variable.
OpenRow(e, p) ==
  LET s == RowSlot(e)
      h == host.map[s]
      i == rowAsk[e].index
  IN /\ rowAsk[e] # None
     /\ RowOpens(e)
     /\ OpenPanel(p, s, host, h, IF i \in DOMAIN Listing[FileOf(h)] THEN i ELSE 1)
     /\ rowAsk' = [rowAsk EXCEPT ![e] = None]
     /\ UNCHANGED <<docVars, editor, exportVars>>

DropRow(e) ==
  /\ rowAsk[e] # None
  /\ ~RowOpens(e)
  /\ rowAsk' = [rowAsk EXCEPT ![e] = None]
  /\ UNCHANGED <<docVars, host, editor, panelVars, exportVars>>

-----------------------------------------------------------------------------
(* Panels: the store's, closing one, an imported color table               *)

\* openZarrStore: kept by the map only when it has something to draw, and
\* closed where it was opened otherwise.
OpenStore(p, c) ==
  /\ host.opened < MaxHandles
  /\ LET hs == OpenInto(host, "zarr", c, reverts) IN
     IF Listing[c] # <<>> THEN OpenPanel(p, "zarr", hs, hs.opened, 1)
     ELSE /\ host' = [host EXCEPT !.opened = hs.opened, !.file = hs.file, !.born = hs.born,
                                  !.leases.closed = @ \cup {hs.opened}]
          /\ UNCHANGED panelVars
  /\ UNCHANGED <<docVars, editorVars, exportVars>>

\* The panel's dispose handlers; the store's handle goes with its last panel.
ClosePanel(p) ==
  LET let_go == [host EXCEPT !.leases = GateRelease(@, gate[p], GateHolder(p))]
      lastOnStore == panel[p].slot = "zarr" /\ \A q \in Panels \ {p} : panel[q].slot # "zarr"
  IN /\ IsOpen(p)
     /\ host' = IF lastOnStore THEN DropEntry(let_go, "zarr") ELSE let_go
     /\ gate' = [gate EXCEPT ![p] = NewGate(None)]
     /\ panel' = [panel EXCEPT ![p] = ClosedPanel]
     /\ page' = [page EXCEPT ![p] = NoPage]
     /\ toHost' = [toHost EXCEPT ![p] = <<>>]
     /\ toPage' = [toPage EXCEPT ![p] = <<>>]
     /\ UNCHANGED <<docVars, editorVars, exportVars>>

\* importColorTable writes every render panel's page again, under the number it
\* has.
ImportColorTable ==
  /\ page' = [p \in Panels |-> IF IsOpen(p) THEN Rebuilt(p, gate[p]) ELSE page[p]]
  /\ LosesReplies({p \in Panels : IsOpen(p)})
  /\ UNCHANGED <<docVars, host, editorVars, gate, panel, toHost, exportVars>>

-----------------------------------------------------------------------------
(* The webview page, as far as the provider can tell: what it posts, and   *)
(* what a reply changes in what it will post next.  A message carries the  *)
(* page's number, a number in the page's listing (the variable of a slice, *)
(* the rider of a GRIB render: Field B or V) and `of`, the     *)
(* content that number was listed from, which no code reads.               *)

Numbers(p) == DOMAIN Listing[page[p].listed]

Post(p, type, of, i) ==
  /\ Len(toHost[p]) < MaxInFlight
  /\ toHost' = [toHost EXCEPT ![p] =
       Append(@, [type |-> type, page |-> page[p].number, of |-> of, index |-> i])]
  /\ UNCHANGED <<docVars, host, editorVars, gate, panel, toPage, exportVars>>

\* The page, first shown or shown again after it was hidden, runs from its HTML
\* and asks with the selections it restored.
LoadPage(p, i) ==
  /\ page[p].visible /\ ~page[p].loaded
  /\ i \in Numbers(p)
  /\ Post(p, "ready", page[p].listed, i)
  /\ page' = [page EXCEPT ![p].loaded = TRUE, ![p].waiting = TRUE, ![p].offer = page[p].html]

\* requestRender: nothing is asked for before the ready is answered, nor by a GRIB
\* panel's page while a pick is awaited.
AskRender(p, i) ==
  /\ page[p].answer # None
  /\ page[p].offer # None => panel[p].slot # "grib"
  /\ i \in Numbers(p)
  /\ Post(p, "rerenderRequest", page[p].listed, i)
  /\ page' = [page EXCEPT ![p].waiting = TRUE, ![p].offer = None]

\* Overlays, contours, vectors, the probe, the line and the zonal mean, all as
\* "probeRequest", and Export CSV are of the picture on screen: a refusal or a file
\* that cannot be read leaves none.  A slice panel's page asks for its axes, also
\* as "probeRequest", at any time.
AskOther(p, type, i) ==
  /\ page[p].loaded
  /\ page[p].answer = "gridReady" \/ (panel[p].slot # "grib" /\ type = "probeRequest")
  /\ i \in Numbers(p)
  /\ Post(p, type, page[p].listed, i)
  /\ UNCHANGED page

\* Bound: as many exports as there are slots for them.
ExportsAsked == UNION {{<<p, k>> : k \in {j \in DOMAIN toHost[p] : toHost[p][j].type = "exportCsv"}}
                         : p \in Panels}
AskExport(p, i) ==
  /\ Cardinality(ExportsAsked) < Cardinality({x \in Exports : export[x].stage = "idle"})
  /\ AskOther(p, "exportCsv", i)

AskPick(p, i) ==
  /\ page[p].loaded
  /\ page[p].offer # None /\ panel[p].slot = "grib"
  /\ i \in DOMAIN Listing[page[p].offer]
  /\ Post(p, "pickMessage", page[p].offer, i)
  /\ page' = [page EXCEPT ![p].waiting = TRUE]

\* A reply reaches the page; one that finds it not loaded is lost.
ReceiveReply(p) ==
  /\ toPage[p] # <<>>
  /\ LET r == Head(toPage[p]) IN
     page' = IF ~page[p].loaded THEN page
             ELSE [page EXCEPT ![p].waiting = FALSE, ![p].answer = r.type,
                               ![p].offer = IF r.type = "gone" THEN @ ELSE r.offers]
  /\ toPage' = [toPage EXCEPT ![p] = Tail(@)]
  /\ UNCHANGED <<docVars, host, editorVars, gate, panel, toHost, exportVars>>

\* A hidden panel's page is torn down (retainContextWhenHidden is false).
HidePage(p) ==
  /\ page[p].visible
  /\ page' = [page EXCEPT ![p].visible = FALSE, ![p].loaded = FALSE, ![p].waiting = FALSE,
                          ![p].answer = None, ![p].offer = None]
  /\ LosesReplies({p})
  /\ UNCHANGED <<docVars, host, editorVars, gate, panel, toHost, exportVars>>

ShowPage(p) ==
  /\ IsOpen(p) /\ ~page[p].visible
  /\ page' = [page EXCEPT ![p].visible = TRUE]
  /\ LosesReplies({p})
  /\ UNCHANGED <<docVars, host, editorVars, gate, panel, toHost, exportVars>>

-----------------------------------------------------------------------------
(* A render panel's message handler: admit, then the request's own branch. *)

Ask(p) == Head(toHost[p])
Arrived(p) == toHost[p] # <<>> /\ Len(toPage[p]) < MaxReplies
Current(p) == host.map[panel[p].slot]
PanelMoves(p) == Moves(gate[p], Current(p))

\* sameMessages: a GRIB panel's numbers mean in the document's new handle what
\* they meant in the old one.
SameFile_ByCount(p) ==
  /\ panel[p].slot = "grib" /\ ~panel[p].refusing
  /\ Len(Listing[panel[p].listed]) = Len(Listing[FileOf(Current(p))])
SameFile(p) ==
  /\ panel[p].slot = "grib" /\ ~panel[p].refusing
  /\ Listing[panel[p].listed] = Listing[FileOf(Current(p))]

\* What admit answers, and the state it leaves behind when it serves the request.
Served(p) == ~Dropped(gate[p], Ask(p)) /\ (PanelMoves(p) => SameFile(p))
GateAfter(p) ==
  IF PanelMoves(p) THEN Kept(Heard(gate[p]), Current(p)) ELSE Admitted(gate[p], Current(p))
LeasesAfter(p) ==
  IF PanelMoves(p) THEN GateAdopt(host.leases, gate[p], Current(p), GateHolder(p))
  ELSE AdmittedLeases(host.leases, gate[p], Current(p), GateHolder(p))
PanelAfter(p) ==
  IF PanelMoves(p) THEN [panel[p] EXCEPT !.listed = FileOf(Current(p))] ELSE panel[p]

\* The handle a served request is read from.
Reader(p) == HandleOf(GateAfter(p))

\* Its picture and its "the file can no longer be read", and a refusal with the
\* list to pick from.  A reply to any other request changes nothing in what the
\* page asks next, and is left out.
NoReply == [type |-> "none", offers |-> None]
Picture == [type |-> "gridReady", offers |-> None]
Gone == [type |-> "gone", offers |-> None]
Refusal(c) == [type |-> "refused", offers |-> c]

Consume(p) == toHost' = [toHost EXCEPT ![p] = Tail(@)]
Reply(p, r) ==
  toPage' = IF r = NoReply THEN toPage ELSE [toPage EXCEPT ![p] = Append(@, r)]

\* A request admit serves: its message is consumed and answered with r.
Serve(p, r) ==
  /\ Arrived(p) /\ Served(p)
  /\ gate' = [gate EXCEPT ![p] = GateAfter(p)]
  /\ Consume(p)
  /\ Reply(p, r)
  /\ UNCHANGED <<docVars, editorVars>>

KeepLeases(p) == host' = [host EXCEPT !.leases = LeasesAfter(p)]
Keep(p) == panel' = [panel EXCEPT ![p] = PanelAfter(p)] /\ UNCHANGED page

\* What a served request reads, and what the panel calls it.  A GRIB panel reads
\* the message it shows, and the request's rider; a slice panel the variable the
\* request names.
ReadField(p) ==
  LET i == IF panel[p].slot = "grib" THEN panel[p].shown ELSE Ask(p).index
      heading == IF panel[p].slot = "grib" THEN panel[p].name ELSE At(panel[p].listed, i)
  IN [heading |-> heading, number |-> i, field |-> At(FileOf(Reader(p)), i),
      named |-> At(FileOf(Reader(p)), Ask(p).index)]

IsRender(p) == Ask(p).type \in {"ready", "rerenderRequest"}
\* A GRIB panel draws nothing until a message is picked; a slice panel's page
\* asks for a render only once a variable is.
Refuses_GribOnly(p) == panel[p].refusing /\ panel[p].slot = "grib"
Refuses(p) == panel[p].refusing /\ (panel[p].slot = "grib" \/ Ask(p).type = "ready")

\* From another page than the one on screen, or before its ready.
DropRequest(p) ==
  /\ Arrived(p) /\ Dropped(gate[p], Ask(p))
  /\ Consume(p)
  /\ UNCHANGED <<docVars, host, editorVars, gate, panel, page, toPage, exportVars>>

Paint(p) ==
  /\ Serve(p, IF Reader(p) = None THEN Gone ELSE Picture)
  /\ IsRender(p) /\ ~Refuses(p)
  /\ KeepLeases(p)
  /\ panel' = [panel EXCEPT ![p] =
       IF panel[p].slot # "grib" /\ Ask(p).type = "rerenderRequest"
       THEN [panel[p] EXCEPT !.refusing = FALSE, !.lost = None] ELSE PanelAfter(p)]
  /\ UNCHANGED <<page, exportVars>>

\* refuse(), and a slice panel's answer to a page shown again.
RefuseAgain(p) ==
  /\ Serve(p, IF Reader(p) = None THEN Gone ELSE Refusal(panel[p].listed))
  /\ IsRender(p) /\ Refuses(p)
  /\ KeepLeases(p) /\ Keep(p)
  /\ UNCHANGED exportVars

Probe(p) ==
  /\ Serve(p, NoReply)
  /\ Ask(p).type = "probeRequest"
  /\ KeepLeases(p) /\ Keep(p)
  /\ UNCHANGED exportVars

\* handleExportCsv and handleExportSliceCsv up to their first dialog.
StartExport(p, x) ==
  /\ Serve(p, NoReply)
  /\ Ask(p).type = "exportCsv"
  /\ export[x].stage = "idle"
  /\ IF Reader(p) = None \/ Refuses(p) THEN KeepLeases(p) /\ UNCHANGED exportVars
     ELSE /\ host' = [host EXCEPT !.leases = Hold(LeasesAfter(p), Reader(p), ExportHolder(x))]
          /\ export' = [export EXCEPT ![x] =
               [stage |-> "format", handle |-> Reader(p), slot |-> panel[p].slot,
                index |-> ReadField(p).number, asked |-> ReadField(p).heading,
                at |-> reverts, csv |-> None]]
          /\ UNCHANGED saved
  /\ Keep(p)

\* pick(): a GRIB panel's page chose message i of the list it was offered.
Pick(p) ==
  LET i == Ask(p).index
      h == Reader(p)
      picks == panel[p].refusing /\ h # None /\ i \in DOMAIN Listing[FileOf(h)]
      draws == picks /\ Renderable(At(FileOf(h), i))
      moved == [panel[p] EXCEPT !.shown = i, !.name = At(FileOf(h), i), !.refusing = FALSE]
      g == Rewritten(GateAfter(p), h)
  IN /\ Arrived(p) /\ Served(p) /\ Ask(p).type = "pickMessage"
     /\ gate' = [gate EXCEPT ![p] = IF draws THEN g ELSE GateAfter(p)]
     /\ panel' = [panel EXCEPT ![p] = IF draws THEN moved ELSE PanelAfter(p)]
     /\ page' = IF draws THEN [page EXCEPT ![p] = Written(@, moved, g.written)] ELSE page
     /\ Consume(p)
     /\ IF draws THEN LosesReplies({p})
        ELSE Reply(p, IF panel[p].refusing /\ h = None THEN Gone
                      ELSE IF picks THEN Refusal(panel[p].listed) ELSE NoReply)
     /\ KeepLeases(p)
     /\ UNCHANGED <<docVars, editorVars, exportVars>>

-----------------------------------------------------------------------------
(* adopt: the document has a new handle, and the panel moves to it.        *)

\* The state common to every adopt that moves the gate to the current handle.
AdoptCurrent(p, g) ==
  /\ Arrived(p) /\ ~Dropped(gate[p], Ask(p)) /\ PanelMoves(p) /\ ~SameFile(p)
  /\ gate' = [gate EXCEPT ![p] = g]
  /\ host' = [host EXCEPT !.leases = GateAdopt(@, gate[p], Current(p), GateHolder(p))]
  /\ Consume(p)
  /\ UNCHANGED <<docVars, editorVars, exportVars>>

\* A GRIB panel's message is exactly once in the changed file: drawn under its
\* own heading.
FindMessage(p) ==
  LET c == FileOf(Current(p))
      found == IF panel[p].refusing THEN {} ELSE Found(c, panel[p].name)
      g == Rewritten(Heard(gate[p]), Current(p))
  IN /\ panel[p].slot = "grib"
     /\ AdoptCurrent(p, g)
     /\ Cardinality(found) = 1
     /\ \E i \in found :
          LET moved == [panel[p] EXCEPT !.listed = c, !.shown = i] IN
          /\ panel' = [panel EXCEPT ![p] = moved]
          /\ page' = [page EXCEPT ![p] = Written(@, moved, g.written)]
     /\ LosesReplies({p})

\* None, or more than one: nothing is drawn until one of the new file's messages
\* is picked.  The page stays, and keeps its number.
OfferMessages(p) ==
  LET c == FileOf(Current(p)) IN
  /\ panel[p].slot = "grib"
  /\ AdoptCurrent(p, Kept(Heard(gate[p]), Current(p)))
  /\ panel[p].refusing \/ Cardinality(Found(c, panel[p].name)) # 1
  /\ panel' = [panel EXCEPT ![p].listed = c, ![p].refusing = TRUE]
  /\ Reply(p, Refusal(c))
  /\ UNCHANGED page

\* The variable a slice panel looks for in a changed file, by name.
Wanted_ByNumber(p) ==
  LET i == Ask(p).index IN
  IF i \in DOMAIN Listing[panel[p].listed] THEN At(panel[p].listed, i) ELSE panel[p].name
Wanted(p) ==
  LET i == Ask(p).index IN
  IF panel[p].refusing /\ panel[p].lost # None /\ Ask(p).type # "rerenderRequest"
  THEN panel[p].lost
  ELSE IF i \in DOMAIN Listing[panel[p].listed] THEN At(panel[p].listed, i) ELSE panel[p].name

MoveSlice(p) ==
  LET c == FileOf(Current(p))
      same == Found(c, Wanted(p))
      g == Rewritten(Heard(gate[p]), Current(p))
  IN /\ panel[p].slot # "grib"
     /\ AdoptCurrent(p, g)
     /\ \E i \in DOMAIN Listing[c] :
          LET moved == [panel[p] EXCEPT !.listed = c, !.shown = i, !.name = Listing[c][i],
                                        !.refusing = (same = {}),
                                        !.lost = IF same = {} THEN Wanted(p) ELSE None]
          IN /\ IF same = {} THEN i = 1 ELSE i \in same /\ \A j \in same : i <= j
             /\ panel' = [panel EXCEPT ![p] = moved]
             /\ page' = [page EXCEPT ![p] = Written(@, moved, g.written)]
     /\ LosesReplies({p})

\* The changed file has no variable left: the gate keeps the old handle,
\* outdated, and the next request looks again.
FindNoVariable(p) ==
  /\ panel[p].slot # "grib"
  /\ Arrived(p) /\ ~Dropped(gate[p], Ask(p)) /\ PanelMoves(p)
  /\ Listing[FileOf(Current(p))] = <<>>
  /\ gate' = [gate EXCEPT ![p] = Outdate(Heard(@))]
  /\ panel' = [panel EXCEPT ![p].refusing = TRUE, ![p].lost = Wanted(p)]
  /\ Consume(p)
  /\ Reply(p, Refusal(panel[p].listed))
  /\ UNCHANGED <<docVars, host, editorVars, page, exportVars>>

-----------------------------------------------------------------------------
(* A CSV export waits on its dialogs, holding its handle (whileHeld).      *)

\* unrevertedSince: a store has no document to revert.
Unreverted_Always(x) == export[x].stage # "idle"
Unreverted(x) == export[x].slot = "zarr" \/ export[x].at = reverts

EndExport(x) ==
  /\ export' = [export EXCEPT ![x] = NoExport]
  /\ host' = [host EXCEPT !.leases = Release(@, export[x].handle, ExportHolder(x))]

\* The layout is picked: the field is read, unless the document was reverted.
\* A large CSV is confirmed before its save dialog.
PickCsvFormat(x, next) ==
  /\ export[x].stage = "format"
  /\ next \in {"confirm", "save"}
  /\ IF Unreverted(x)
     THEN /\ export' = [export EXCEPT ![x].stage = next,
                                      ![x].csv = At(FileOf(export[x].handle), export[x].index)]
          /\ UNCHANGED host
     ELSE EndExport(x)
  /\ UNCHANGED <<docVars, editorVars, panelVars, saved>>

ConfirmLargeCsv(x) ==
  /\ export[x].stage = "confirm"
  /\ IF Unreverted(x) THEN export' = [export EXCEPT ![x].stage = "save"] /\ UNCHANGED host
     ELSE EndExport(x)
  /\ UNCHANGED <<docVars, editorVars, panelVars, saved>>

SaveCsv(x) ==
  /\ export[x].stage = "save"
  /\ saved' = IF Unreverted(x)
              THEN [field |-> export[x].csv, asked |-> export[x].asked,
                    slot |-> export[x].slot, at |-> export[x].at]
              ELSE saved
  /\ EndExport(x)
  /\ UNCHANGED <<docVars, editorVars, panelVars>>

CancelExport(x) ==
  /\ export[x].stage # "idle"
  /\ EndExport(x)
  /\ UNCHANGED <<docVars, editorVars, panelVars, saved>>

-----------------------------------------------------------------------------
(* The specification                                                       *)

Init ==
  /\ docs = 0 /\ bytes = None
  /\ reading = {} /\ reverts = 0
  /\ host = [map |-> [s \in Slots |-> None], file |-> [h \in Handles |-> None],
             born |-> [h \in Handles |-> 0], opened |-> 0, leases |-> NoLeases(Handles)]
  /\ editor = [e \in Editors |-> ClosedEditor]
  /\ rowAsk = [e \in Editors |-> None]
  /\ gate = [p \in Panels |-> NewGate(None)]
  /\ panel = [p \in Panels |-> ClosedPanel]
  /\ page = [p \in Panels |-> NoPage]
  /\ toHost = [p \in Panels |-> <<>>]
  /\ toPage = [p \in Panels |-> <<>>]
  /\ export = [x \in Exports |-> NoExport]
  /\ saved = None

\* The requests a page makes, by the numbers in its listing.
Load(p) == \E i \in Numbers(p) : LoadPage(p, i)
Request(p) ==
  \/ \E i \in Numbers(p) :
       AskRender(p, i) \/ AskOther(p, "probeRequest", i) \/ AskExport(p, i)
  \/ page[p].offer # None /\ \E i \in DOMAIN Listing[page[p].offer] : AskPick(p, i)

HandleRequest(p) ==
  \/ DropRequest(p) \/ Paint(p) \/ RefuseAgain(p) \/ Probe(p) \/ Pick(p)
  \/ \E x \in Exports : StartExport(p, x)
  \/ FindMessage(p) \/ OfferMessages(p) \/ MoveSlice(p) \/ FindNoVariable(p)

Document ==
  \/ \E c \in FileContents : OpenDocument(c) \/ StartRevert(c)
  \/ \E e \in Editors : ResolveEditor(e) \/ CloseEditor(e)
  \/ \E r \in reading : FinishRevert(r)

EditorPage ==
  \E e \in Editors :
    \/ editor[e].rows # None /\ \E i \in DOMAIN Listing[editor[e].rows] : AskRow(e, i)
    \/ \E p \in Panels : OpenRow(e, p)
    \/ DropRow(e)

RenderPanel ==
  \E p \in Panels :
    \/ \E c \in StoreContents : OpenStore(p, c)
    \/ IsOpen(p) /\ (\/ ClosePanel(p) \/ Load(p) \/ Request(p) \/ HandleRequest(p)
                     \/ ReceiveReply(p) \/ HidePage(p) \/ ShowPage(p))

CsvExport ==
  \E x \in Exports :
    \/ \E next \in {"confirm", "save"} : PickCsvFormat(x, next)
    \/ ConfirmLargeCsv(x) \/ SaveCsv(x) \/ CancelExport(x)

Next == Document \/ EditorPage \/ RenderPanel \/ ImportColorTable \/ CsvExport

Spec == Init /\ [][Next]_vars

\* The event loop runs every handler whose message has arrived, a webview that is
\* shown loads its HTML, and VS Code delivers what is posted to it.  Nothing is
\* assumed of the user.
Fairness ==
  \A p \in Panels :
    /\ WF_vars(IsOpen(p) /\ Load(p))
    /\ WF_vars(IsOpen(p) /\ HandleRequest(p))
    /\ WF_vars(IsOpen(p) /\ ReceiveReply(p))

FairSpec == Spec /\ Fairness

-----------------------------------------------------------------------------
(* Invariants                                                              *)

Content == Contents \cup {None}
Handle == Handles \cup {None}
HostState ==
  [map : [Slots -> Handle], file : [Handles -> Content], born : [Handles -> Nat],
   opened : 0..MaxHandles, leases : LeaseState(Handles, Holders)]
ExportState ==
  [stage : {"idle", "format", "confirm", "save"}, handle : Handle, slot : Slots \cup {None},
   index : Nat, asked : Fields \cup {None}, at : Nat, csv : Fields \cup {None}]
PanelState ==
  [slot : Slots \cup {None}, listed : Content, shown : Nat, name : Fields \cup {None},
   refusing : BOOLEAN, lost : Fields \cup {None}]
PageState ==
  [visible : BOOLEAN, loaded : BOOLEAN, number : Nat, listed : Content, html : Content,
   offer : Content, answer : {"gridReady", "refused", "gone", None}, waiting : BOOLEAN]
RequestType == {"ready", "rerenderRequest", "probeRequest", "exportCsv", "pickMessage"}
RowAsk == [page : Nat, of : Contents, index : Nat]
Message == [type : RequestType, page : Nat, of : Contents, index : Nat]
Answer == [type : {"gridReady", "refused", "gone"}, offers : Content]

\* Every variable keeps its type.
TypeOK ==
  /\ docs \in Nat /\ bytes \in Content
  /\ reading \subseteq [doc : Nat, read : Contents, nth : Nat]
  /\ reverts \in Nat
  /\ host \in HostState
  /\ editor \in [Editors -> [open : BOOLEAN, page : Nat, rows : Content]]
  /\ rowAsk \in [Editors -> RowAsk \cup {None}]
  /\ gate \in [Panels -> GateState(Handles)]
  /\ panel \in [Panels -> PanelState]
  /\ page \in [Panels -> PageState]
  /\ toHost \in [Panels -> Seq(Message)]
  /\ toPage \in [Panels -> Seq(Answer)]
  /\ export \in [Exports -> ExportState]
  /\ saved \in [field : Fields \cup {None}, asked : Fields \cup {None}, slot : Slots, at : Nat]
                 \cup {None}

\* The handle each holder's own state names: an entry, a gate, an export.
Refs(hs, g, x) ==
  [o \in Holders |-> CASE o[1] = "map" -> hs.map[o[2]]
                       [] o[1] = "gate" -> g[o[2]].handle
                       [] o[1] = "export" -> x[o[2]].handle]
UsersOf(h) == {o \in Holders : Refs(host, gate, export)[o] = h}

HandleStatus(h) ==
  IF h \in host.leases.closed THEN "closed" ELSE IF h <= host.opened THEN "open" ELSE "unopened"

\* What the leases record is what the provider's state refers to, so no handle is
\* closed under a map entry, a panel or an export that will read it, and none
\* that nothing refers to is left open: over every order of opens, reverts,
\* reopens, panel moves and exports (handle-leases.ts:1-13).
LeasesMatchReferences ==
  \A h \in Handles :
    /\ host.leases.holders[h] = UsersOf(h)
    /\ HandleStatus(h) = "open" <=> UsersOf(h) # {}

\* The provider implements the abstract lifetime of a native handle.
Lifetime == INSTANCE HandleLifetime WITH
  Users <- Holders,
  users <- [h \in Handles |-> UsersOf(h)],
  state <- [h \in Handles |-> HandleStatus(h)]
LifetimeSpec == Lifetime!Spec

\* The numbers a panel keeps mean what they meant when it chose them: its field is
\* at its number in the file its gate holds, whatever sequence of files, refusals
\* and picks it went through (provider.ts:1044-1052, 1878-1881).
PanelKeepsItsField ==
  \A p \in Panels :
    IsOpen(p) /\ gate[p].handle # None =>
      /\ Listing[panel[p].listed] = Listing[FileOf(gate[p].handle)]
      /\ \/ panel[p].slot = "grib" /\ panel[p].refusing
         \/ At(panel[p].listed, panel[p].shown) = panel[p].name

\* A request about to be served with a handle to read.
Reads(p) ==
  /\ IsOpen(p) /\ Arrived(p) /\ Served(p) /\ ~Refuses(p)
  /\ Ask(p).type # "pickMessage" /\ Reader(p) # None

\* A request is drawn from the field the panel names, and its own number is read
\* in a file where it means what it meant on the page that sent it, however old
\* the message (provider.ts:2356-2365).
NumbersMeanWhatThePageMeant ==
  \A p \in Panels :
    Reads(p) =>
      /\ ReadField(p).field = ReadField(p).heading
      /\ ReadField(p).named = At(Ask(p).of, Ask(p).index)

\* Nothing is read from a handle opened before the document's last revert, and
\* where the document has a handle it is the one read (provider.ts:1578-1586).
NothingReadFromARevertedFile ==
  \A p \in Panels :
    Reads(p) /\ panel[p].slot \in DocSlots =>
      /\ host.born[Reader(p)] = reverts
      /\ Current(p) # None => Reader(p) = Current(p)

\* A panel opened from an editor page shows the field of the row that was asked
\* for, though the file may have been reverted since the page was written
\* (provider.ts:497-502).
RowsOpenTheirField ==
  [][\A e \in Editors, p \in Panels :
       OpenRow(e, p) => panel'[p].name = At(rowAsk[e].of, rowAsk[e].index)]_vars

\* A message picked from the list a refusal offered is the message drawn
\* (provider.ts:1124-1126).
PicksDrawTheListedMessage ==
  [][\A p \in Panels :
       Pick(p) /\ panel[p].refusing /\ ~panel'[p].refusing
         => panel'[p].name = At(Ask(p).of, Ask(p).index)]_vars

\* A refusal ends only with a pick, or with the variable it is about back in the
\* file, though the file may change many times while the page's own numbers name
\* a variable nobody picked (provider.ts:1888-1892).
RefusalsEndInAPick ==
  [][\A p \in Panels :
       panel[p].refusing /\ IsOpen(p)' /\ ~panel'[p].refusing =>
         \/ Ask(p).type \in {"pickMessage", "rerenderRequest"}
         \/ panel'[p].name = panel[p].lost]_vars

\* A panel awaits a pick exactly when the last it told its page is that it does,
\* be the reply on its way or received (provider.ts:1881-1887).
LastTold(p) == IF toPage[p] = <<>> THEN page[p].answer ELSE toPage[p][Len(toPage[p])].type
PagesKnowOfTheRefusal ==
  \A p \in Panels :
    /\ LastTold(p) = "gridReady" => ~panel[p].refusing
    /\ LastTold(p) = "refused" => panel[p].refusing

\* Every render a page waits on is answered, or its page is written again.
RendersAreAnswered ==
  [][\A p \in Panels :
       IsOpen(p) /\ IsOpen(p)' /\ Arrived(p) /\ toHost'[p] = Tail(toHost[p])
         /\ ~Dropped(gate[p], Ask(p)) /\ IsRender(p)
         => Len(toPage'[p]) > Len(toPage[p]) \/ gate'[p].written # gate[p].written]_vars

\* An editor page is written from its document's bytes (provider.ts:516-518).
EditorShowsItsDocument ==
  \A e \in Editors :
    editor[e].open /\ SlotOf[bytes] \in DocSlots => editor[e].rows = bytes

\* A CSV file holds the field its panel headed, and is written only if the
\* document has not been reverted since it was asked for (provider.ts:725-738).
CsvHoldsTheFieldAsked ==
  [][saved' # saved =>
       saved'.field = saved'.asked /\ (saved'.slot # "zarr" => saved'.at = reverts)]_vars

-----------------------------------------------------------------------------
(* Liveness, under FairSpec                                                *)

\* A page never waits on "Rendering..." for good.
AsksAreAnswered == \A p \in Panels : page[p].waiting ~> ~page[p].waiting

\* A panel on screen that draws nothing, where its document has a file it can
\* draw, comes to hold it without being asked (provider.ts:1602-1620).
Drawable(p) ==
  IsOpen(p) /\ page[p].visible /\ Current(p) # None /\ Listing[FileOf(Current(p))] # <<>>
EmptyPanelsLearn ==
  \A p \in Panels : Drawable(p) /\ ~Holds(p) ~> ~Drawable(p) \/ Holds(p)

\* The old file's handle is let go by every panel on screen (provider.ts:2407-2414),
\* except a slice panel that was told its file has nothing to draw: it keeps the
\* handle until it asks again (provider.ts:1928-1932).
OutdatedHandlesAreLetGo ==
  \A p \in Panels :
    gate[p].outdated ~>
      ~gate[p].outdated \/ ~page[p].visible \/ (panel[p].slot # "grib" /\ panel[p].refusing)
=============================================================================
