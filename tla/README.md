# Fieldglass: a verification of its stateful core

Fieldglass reads GRIB, NetCDF, HDF5 and Zarr files and draws their fields, as a
VS Code extension over a Rust library. Most of the repository is arithmetic on
byte layouts, which its own tests compare with reference decoders
(`docs/verification.md`). What those tests hardly reach is the part that keeps
state between calls: which file a panel draws from while the file changes, who
holds a native handle, what a memo answers after other callers have been
through it. That part is what this directory models, in TLA+, checked with TLC
and, for the results listed below, proved with TLAPS.

Paths below are relative to the repository (`src/` in `PROJECT.json`).

## 1. Inventory of the system

| Part | State it keeps | Operations, and who calls them | What is hard |
|---|---|---|---|
| **Handle leases** `extension/src/handle-leases.ts` | holder sets per native handle; a `HeldHandles` map from document or store to handle | hold, release, set, delete, from the provider and the panel gates | a handle has several holders that come and go in any order; closing is for good |
| **Panel handle gate** `extension/src/provider.ts`, class `PanelHandleGate` | the handle a panel draws from, the number of the page it last wrote, *outdated*, *awaiting ready* | admit, outdate, rewrite, keep, dispose | messages of a page that is gone, a document whose handle changed |
| **Editor provider** `extension/src/provider.ts`, class `FieldglassEditorProvider` | open documents, handles per document and per store, editor pages, render panels, exports waiting on dialogs | VS Code's open, revert, close; messages of the pages; commands | callbacks in any order around two `await`s: the read of a revert, the dialogs of an export |
| **Render page** `extension/src/render-panel.ts` | numbers of the last render asked for and answered, the picture, what a refusal left standing, line layers, an export that waits, the state saved for a reload | the user's controls; posts requests to the provider, takes its answers | answers to several requests on their way; a page hidden before its answer |
| **HDF5 reader memo** `crates/fieldglass-netcdf/src/hdf5/cache.rs` | the identity it is bound to; headers, children, chunk records, an LRU of decompressed chunks, each under a mutex | a lookup, a parse with no lock held, a store, from any thread | two threads miss on one key; two files at one address; limits in bytes and in entries |
| **Plane memo** `crates/fieldglass-napi/src/lib.rs`, `PinnedLru` | decoded planes in use order, the pinned pair of a combined map | get, insert, pin, unpin, from every method of a NetCDF or Zarr handle | the map on screen must stay decoded although it is over the budget |
| **Warp memo** `crates/fieldglass/src/render.rs`, `WarpMemo` | the last warp plan and the last target | project, probe, overlay, contours | a plan that serves the wrong request paints a wrong picture with no error |
| **Session and fetch planning** `crates/fieldglass/src/session.rs`, `session/window.rs`, `fieldglass-core/src/bytes.rs`, `fieldglass-fetchplan` | prefetched objects, whole or in ranges; a memo of placements | a loop of "what is still owed" and "here are bytes" with the host | ranges that overlap or leave holes; what is missing must be named |
| **Readers** `fieldglass-grib1`, `-grib2`, `-netcdf`, `-zarr` | none between calls, but for the memo above | parse, list, decode | offsets and lengths at their limits |
| **AEC decoder** `fieldglass-aec` | its position in a reference interval, the last sample | decode, over the whole input at once | zero runs and reference samples at segment and interval boundaries; input cut short |
| **Core** `fieldglass-core` | none | projections, packing, CF decoding, warps, output limits | floating point and limits |
| **Bindings and shell** `fieldglass-wasm`, `extension/src/extension.ts`, `native.ts`, ... | none of their own | wiring | |
| **Development tools** `fieldglass-verify`, `fieldglass-perf` | none | compare, time | |

How they interact. The extension host is one thread: the provider's handlers
run to the end, or to an `await`, one at a time. Panels and editor pages are
webviews, other processes that exchange messages with it, in order in each
direction. The provider opens a native handle per document and kind of file and
shares it, by leases, with the panels that draw from it. A native handle is
called on that thread and keeps planes and warps (ADR-0011: a host's memo lives
in the handle). The HDF5 memo sits below it, in the library, and is written for
callers on several threads and for several sources (ADR-0005, ADR-0013).

What makes each part correct is the list of properties in section 3; every
hazard they are for, and those no property covers yet, is in `PROJECT.json`
under `hazards`, at the line where it bites.

## 2. The modules and how they correspond to the code

`PROJECT.json` maps each definition to its lines. An operator named `X_Y` is
not part of a model: it is `X` with a plausible mistake `Y`, by which the
properties are shown to depend on `X`.

### Provider

* **HandleLeases** has the lease record (holders per handle, and the handles
  that were closed) and its `Hold`, `Release` and `Replace`: operators, since
  leases are always a part of somebody's larger step.
* **HandleLifetime** is the abstract specification: a native handle is opened
  for a first user, stays open while it has one, is closed in the step in which
  the last lets go, and is never used again. It knows no leases.
* **PanelHandleGate** has the gate's state and `admit` cut at its decisions:
  `Dropped`, `Moves`, `LetsGo`, `GateAdopt`, `Outdate`, `Rewritten`, `Kept`.
* **EditorProvider** composes them: one document URI, whose file may be replaced
  at any time; editors on it; GRIB and slice panels on it or on one Zarr store;
  the message queues between each panel's page and the provider; CSV exports.

| State | Code |
|---|---|
| `bytes`, `docs`, `reverts`, `reading` | `FieldglassDocument._bytes`, the document opened last, `_reverts`, the reverts whose read has not returned |
| `host.map`, `host.leases`, `host.file`, `host.opened` | `_handlesByDoc`, `_netcdfHandlesByDoc`, `_zarrHandlesByStore`, the leases, the native handles |
| `editor`, `rowAsk` | `_editorPages` and the page's rows; a click on its way |
| `gate`, `panel` | a `PanelHandleGate`; the closure variables of a panel (`listed`, `shown`, `picking`, `lost`) |
| `page`, `toHost`, `toPage` | the webview's page, and `postMessage` in both directions |
| `export`, `saved` | an `exportCsv` waiting on a dialog; the file it wrote last |

An action is a handler up to its end or its `await`: `ReloadDocument` drops the
handles, writes every editor page (which opens the new handle), outdates every
panel and writes its page again, in one step, as the code does with no `await`
in between. `FindMessage`, `OfferMessages`, `MoveSlice` and `FindNoVariable`
are the ways `adopt` ends; each includes the admission that called it, the
lease it moves, the page it writes or the refusal it posts.

Abstractions. A *content* stands for the bytes of a file and is known by what
it lists; a *field* is a message's heading or a variable's name. Overlays,
contours, vectors, probes, lines and zonal means reach the gate the same way
and are one request, `probeRequest`. A message that a page posted before it was
written again is still delivered, in order. Each message carries, beside what
the code sends, the content its number was listed from (`of`): no action reads
it, the properties do. Reads of a file return any of the contents it may have.
A page asks for a render, an overlay or a probe only after its `ready` was answered
(`requestRender` and its `mountAnswered`, the picture on screen): `page.answer` is
the kind of the last reply it read. Its pick list has no such guard, and opens with
what the HTML was written with (`html`, then `offer`). Replies on their way to a page
that is written over or hidden are lost with it (`LosesReplies`).

* **MCEditorProvider** names the contents for TLC; **MCEditorPanel** is one panel in
  two kinds of run, on a GRIB file and on a NetCDF file.

### Render page

* **RenderPage** is the script of one slice panel's page and a provider that
  answers in order, one message at a time. `page` is a record of the script's
  variables under their own names (`renderSeq`, `answeredSeq`, `asked` for
  `askedRequests`, `drawnRequest`, `pictureKept`, `failedOver`, `keptReady`,
  `mountAnswered`, ...), its controls (`want`, `ticked`), its saved state
  (`saved`), and what the properties ask about (`last`, `overPicture`, the last
  PNG). `toHost` and `toPage` are the two directions of `postMessage`.

| Action | Code |
|---|---|
| `Change`, `Toggle` | a control's handler: `requestRender`, `requestOverlay` or `requestContours`, then `snapshotState` |
| `Receive` | the `message` handler of `gridReady`, `gridError`, `overlayReady`, `overlayError`, `contourReady`, `contourError`, to its end |
| `Export`, `ExportGivesUp` | `exportPng` and its `EXPORT_WAIT_MS` timer |
| `Reload` | the tab hidden and shown, or the panel written again: the script from its saved state, with what was on its way lost |
| `Serve` | the provider's answer |

A handler calls several functions on the same variables, so each function is an
operator from a page to a page (`Judged`, `Refuse`, `Marked`, `ClearDrawn`, ...)
and the handler is their chain. A request is a geometry, a field and a color
range; what the provider answers (`Outcome`) depends on the field and the range.
A field has a variable (`VariableOf`), which heads the panel: a failure of another
variable takes the picture down with it (`HeadsAnother`, `headFailedField`); one of
the same leaves it. A GRIB panel draws one message: one variable for all its fields.
A layer's lines are named by what they were projected for.

* **MCRenderPage** names the page's first request and a range refused on one field.

### HDF5 memo

* **ExpandedStore** is the LRU of decompressed chunks: `by_key`, the use order,
  the bytes, the tick; get, keep, and eviction to both limits.
* **Hdf5Cache** is the memo under several threads. A call is `Call` (which
  binds or refuses the identity), then `Lookup`, `Build` (the parse, with no
  lock held) and the store of its kind, each a step, since each takes the lock
  for itself; a source that may not use the memo goes by `ReadBare`. A value is
  what the source holds at a key; each answer records which thread's object it
  is (`arc`), so that sharing can be stated. Chunk records are what one dataset reads
  of its chunk index, by its shape, chunk dims, chunk bytes and kind of index
  (`values.rs:497-533`, `891-976`): `RecordKeys` are datasets with their index, and
  what the memo keeps is by `IndexOf`, the index's address and the dataset's rank
  (`cache.rs:162`). Two of them may share one. A chunk below the floor is looked
  up in the model as in `get_expanded_chunk`; `values.rs` does not ask for it.
  Of `values.rs` only the order lookup, inflate, keep is modelled; a parse that
  calls back into the memo for another header is two calls.
* **MCHdf5Cache** has three sources: two files, and an anonymous one. Its initial
  states are of two kinds, so that one run asks both questions: headers, chunk
  records of two datasets that name one index, and one chunk raced for by three sources, or four chunks and two
  sources.

### Native handle

* **PinnedLru** is the plane memo with its pinned pair. A plane is its key, and
  weighs its cells.
* **WarpMemo** is the kept plan and target. A request is a grid, a view and a
  resampling; a *raster* is what a warp of it does. The source view warps
  nothing; some targets are refused; some plans are over the budget.
* **SliceHandle** composes the two: every method of `NetcdfFile` and `ZarrStore`
  that touches either memo, one step each, since a method runs to its end on the
  one thread. A read of a plane that is not kept may be refused. `flip_y` and the
  palette are parameters of one answer and are not kept, so they are left out.
* **MCSliceHandle** has planes on two grids, with weights around the budget. An
  initial state is of one of two kinds: three planes drawn in every view, or six
  planes read, combined and probed in the source view.

### A window of a Zarr variable

* **WindowColumns** is the arithmetic of `session/window.rs`: which columns a box
  holds (`OnArc`), the runs it reads them in (`ColumnRuns`), a single column
  widened to two. Longitudes are whole numbers; `Slack` stands for the fraction of
  a cell an edge is allowed.
* **PrefetchedObjects** is `fieldglass-core/src/bytes.rs`: what a host gave of an
  object, and what a ranged read of it answers. A range stands for its bytes,
  which are the object's own. `ByteRange::end` has no width here: one past 2^64 is
  `None` in the code, and refused like any other that ends past the object.
* **WindowFetch** composes them with the plan and the decode. `FetchCoords`,
  `FetchWhole`, `FetchRange`, `FetchSpan`, `FetchShort` are what a host does
  between two calls of the bindings (`fieldglass-wasm/src/zarr.rs`); `Plan` is
  `plan_window`, `Decode` is `decode_window`, which refuses with what is `Owed`
  or reads each cell. `Publish` is another writer of the store; `Pan` is another
  request of the same session. The bytes of a chunk are its content's name, so
  a wrong position, a stale range or a hole shows as another name.
* **MCWindowFetch** has a plain store, and two sharded ones: on a grid that
  closes and one that does not, with the index first and last, inner chunks out of
  order, sharing bytes and never written, and an object that does not decode.

### AEC

* **AecCode** is the code as the decoder reads it: `Cds` (one coded data set from
  the bits at the head of an input), by its option, and `Postprocessed` (the
  inverse of the prediction mapping). A read that can fail is the set of what it
  reads.
* **AecDecoder** has `Read`, one turn of the loop of `Kernel::run`, and an encoder
  (`CodeBlock`, `CodeRun`, `CutShort`) written from CCSDS 121.0-B-3, which the
  repository does not contain: it is external, and independent of the decoder.
  The decoder is one call over a whole input; here the encoder runs at most
  `MaxAhead` data sets before it, which changes nothing it reads, since a data
  set is read from its own bits only.
  A read that finds its input cut (`Truncated`) and one that finds a code no encoder
  writes (`InvalidCode`) are one outcome, `failed`: both end the call with the samples
  before it delivered (`decode.rs:247-256`), and no property tells them apart.
* **MCAecDecoder** has the settings and the inputs of noise.

## 3. The runs

Each run takes from seconds to a few minutes on two cores; `expect` is
`pass` unless said. The bounds are the constants named `Max...` (counters the
actions' guards cap) and the sets.

| Run | Instance | What it shows |
|---|---|---|
| `panel` | 1 editor, 1 panel, 3 handles, 2 messages in flight. A GRIB panel on contents `gAB`, `gCA`, `bad`, over 2 openings of the document and 1 revert; or a slice panel on `nUV`, `nVW`, `n0` (no variable), over 2 reverts, with 2 messages in flight over one of them. A revert may outlive its editor | the panel draws what it heads, from the newest file, answers every render, and ends a refusal as the user was told |
| `leases` | 2 panels of any kind, 1 export, a store with and one without a variable, 1 message in flight | leases match references; `HandleLifetime` is implemented; a CSV holds the field asked |
| `live` | 1 editor, 1 panel, contents of both kinds, with fairness | the editor lists its document; three liveness properties |
| `stale_pick` | 1 panel, 2 reverts, 3 handles | *violation*, first finding |
| `page` | 3 geometries (one without lines), 4 fields (two fail, one of another variable than the first's; one is vacant), 3 ranges (one bad, one refused on a field), layers ticked or not at first, 3 changes, 1 reload, with fairness | lines fit their picture, a picture left standing is marked and saved, a PNG is whole, exports end |
| `lost_change`, `stale_refusal` | as `page` | *violations*, third and fourth finding |
| `hdf5` | 2 threads; 3 sources, root, headers (one does not parse), records of two datasets with one index (one of which does not parse), a chunk; or 2 sources, 4 chunks, 8 uses | the memo's answers, sharing and accounting; the chunk memo's order and eviction |
| `handle` | 3 planes on 2 grids in 3 views and 2 resamplings; or 6 planes, 4 entries as in the code, 8 cells; deadlock checked | warps answer as fresh ones would, and are made once; the map on screen stays decoded, memory bounded |
| `refused_pair` | 4 planes, the source view | *violation*, second finding |
| `window` | 3 stores, 4 boxes, 2 objects of 2 chunks by 2 times, 1 short range, 1 pan, any object published meanwhile, with fairness | the right columns, an answer that is the store's, a plan that is enough, rounds that end |
| `aec` | 7 settings: widths 1, 2, 3, 9; blocks of 2 and 4; intervals of 2 blocks, and of 67 and 70 (two segments); every block and run; any cut; all inputs of one byte and 768 of two | the samples coded or an error; the bound on samples |

The properties, in the order of what they protect:

* *The right field.* `PanelKeepsItsField`: a panel's number denotes its heading
  in the file its gate holds, through any sequence of files, refusals and picks.
  `NumbersMeanWhatThePageMeant`: a number in a request is read where it means
  what it meant on the page that sent it. `NothingReadFromARevertedFile`,
  `EditorShowsItsDocument`, `RowsOpenTheirField`, `CsvHoldsTheFieldAsked`.
* *Refusals.* `RefusalsEndInAPick`: a panel whose field its file lost draws again only
  by a pick, or with that variable, by name, back in the file; the number its page
  sends meanwhile is of a variable nobody picked. `PagesKnowOfTheRefusal`: a panel
  awaits a pick exactly when the last it told its page is that it does.
* *Handles.* `LeasesMatchReferences`: the leases are exactly the references the
  maps, gates and exports hold, and a handle is open exactly while there is one.
  `LifetimeSpec`: the refinement of `HandleLifetime`, with `users` mapped to the
  references (not to the lease records).
* *Answers.* `RendersAreAnswered` (each handler that takes a render answers it
  or writes the page again), and under fairness `AsksAreAnswered`,
  `EmptyPanelsLearn`, `OutdatedHandlesAreLetGo`. The last excepts a slice panel
  that was told its file has nothing to draw: it keeps the old handle, outdated
  and unread, until it asks again (`provider.ts:1928-1932`).
* *The page.* `LinesFitThePicture`: coastlines are of the picture's geometry, and
  contours of its field and range unless newer ones are asked for.
  `KeptPictureIsMarked`: with every render answered, the picture is marked kept
  exactly when it is not the last render's. `PictureComesBack`: a picture the
  controls would not draw is in the saved state with its request. `PngIsWhole`: a
  PNG is of the last render with every ticked layer that can be projected.
  `ExportsEnd`: a waiting export ends without its timer.
* *Windows.* `WindowIsTheBox`: each column in the box once, eastwards, over the
  seam only where the grid closes. `AnswersAreTheStores`, `PlanIsEnough` (once
  everything a plan names was given, nothing is owed) and `WindowsAreAnswered`.
* *AEC.* `DeliversTheSource`: whatever options and runs the encoder chose, each
  data set gives the samples it was coded from; a cut input gives those before
  the cut, or an error. `WithinMaxSamples`: no input decodes to more than
  `max_samples` says of its bits, so refusing a larger count refuses no valid file.
* *Memos.* `AnswersAreTheSources`: what a call is answered is what its source holds
  at its key, or, of chunk records given through the memo, what some dataset that
  names the same index and rank reads. That is as much as the code does. `cache.rs:25-27`
  says more, that a hit and a miss must produce the same value (`HitsAreMisses`):
  in a file where two datasets of one rank name one index and read different records of
  it, the second is given the first's. No HDF5 writer makes such a file, but the memo
  guards against its like (`cache.rs:198-201` has the rank in the key for a malformed
  file). `HitsAreMisses` is proved where the datasets agree, `DatasetsAgree`; without
  that, the instance of `hdf5` violates it: in seven states, one dataset's records are
  stored and the other's call hits them.
  Also `HeadersAreShared`, `HeaderBytesAccounted`,
  `ChunkMemoCoherent`, `EvictsLeastRecentlyUsed`; `ShownMapStaysDecoded`,
  `AtMostTwoPastTheBudget`, `AnswersAreFreshWarps`, `NoRewarp`.

Why the bounds are enough. What goes wrong in the provider takes a change of
file between a page's request and its handling, and at most one more message of
another page behind it. Three handles, one revert and one reopening are two
changes of handle, one that counts as a revert and one that does not, and two
messages in flight give every order of an old page's message and a new page's.
The contents move a field to another number and lose one: the two ways a listing
can change under a number. Two changes are what a slice panel needs to lose a
variable and find it again, or to lose it in one file and have its page offer another;
so its runs have two reverts, over which one message is in flight, and over one, two. Two panels and an export are three holders beside
the map entry, one more than a release distinguishes (last, or not last).

In the HDF5 memo two threads are enough for each race (a lookup between
another's parse and store), and three sources for each answer of `usable`. A
lookup that misses and the store after it are two uses, so eight uses are four
chunks stored, or three and two hits between them; the sizes make file `f`
evict by bytes, one chunk and two at once, fill its budget to the byte with two of
its chunks, and file `g` evict by count alone. In
`handle` one plane is over the cell budget by itself, a pair is with either of
two others, and five planes within it are one entry too many.

In the page, three changes put three requests on their way, the fewest that have
a first, a last and one between; each kind of answer (drawn, refused for what the
field holds, refused on any field, failed for the picture's variable or another, vacant) can be any of the three, and the
reload can fall between any two. A fourth change meets the page in a state it can
also have after fewer, and the safety properties are proved for any number.

In a window, two shards of two inner chunks have every case of an index (read,
owed, absent, refused beside one that is read) and of two ranges (apart, touching,
overlapping, one within the other). Four columns are enough for a run split at the
seam, for two runs that meet, and for a rectangle that is not one run. One short
range and one pan are one fetch that must be repeated and one plan made over bytes
fetched for another.

In AEC, two blocks an interval have a block with and without a reference sample, at
the end of an interval and before it. 67 and 70 blocks cross one segment boundary,
for runs that end before, at and past it. Counts that are not a multiple of the
block end inside one. The widths reach identifiers of 1, 2, 3 and 4 bits; the
fifth length (above 16 bits a sample) differs in nothing else.

`CHECK_DEADLOCK FALSE` is set where the bounds, or a user who does nothing more,
stop the system; a handle can always be called, and its runs check it.

`RevertOutlivesEditor` states what VS Code is assumed to do in the run that
checks `EditorShowsItsDocument`: not to close the last editor and open the same
URI again while `revertCustomDocument` is awaited. Where it may, the property
does not hold: the late reload writes the new document's pages from the old
document's bytes. The panels' properties do not need it: `panel` allows it, and the leases
are proved with and without.

Fairness (`live`). The event loop handles each message that has arrived, a
webview that is shown loads its HTML, and VS Code delivers what is posted to it:
weak fairness of these three per panel. The user, the file and VS Code's
open, close and revert are under no fairness at all. In `page` the provider and the
page read what was sent them (`Serve`, `Receive`): the same two facts. The user and
the export's timer are not relied on, so `ExportsEnd` says that the timer is never
needed. In `window` the host goes on while a step of its loop would change
something (`WF` of `HostStep`): the coordinates, a plan, a planned range it lacks, the
decode. It owes nothing else: repeated fetches, spans, cuts, other writers are free.

### Findings

Four of the repository's own statements do not hold as they are written. The third
is a defect a user can meet; the others cost no more than their lines say. A fifth,
that a hit of the HDF5 memo is what a miss would be, holds but for malformed files
(*Memos*, above).

1. `stale_pick`: `provider.ts:1124-1126` says that the index of a pick is the one
   the refusal listed, in the file the gate holds. A page may be written for one
   change of the file, its HTML with that file's messages to pick from, and its `ready`
   be served after another change: the new file's messages are then offered under the
   page number the page has. A pick made from the HTML's list before that answer came,
   which nothing in the page prevents, is queued behind the `ready`, admitted, and read
   in the newer file. What is drawn is headed correctly, but is not what was picked.
2. `refused_pair`: `lib.rs:3035-3037` says that a pair that is refused holds
   nothing past the budget. `unpin` evicts nothing, so two planes that were both
   read and then refused together (two grids) stay past it until the next insert.
3. `lost_change`: `render-panel.ts:6447-6451` says that an export waits for the
   answer to the last request, so that a range edited just before the click is in
   the PNG. A control changed before the page's first answer asks for nothing
   (`requestRender`, line 3871) and nothing asks afterwards: the page shows, and
   exports, the picture of the controls before it until another is touched.
4. `stale_refusal`: `render-panel.ts:4338-4341` leaves a refusal standing under an
   unrelated error because "the fields still hold what was refused". A refusal that
   answers an earlier request is shown over fields edited since, and then stays.

## 4. What is proved

For every value of the constants that satisfies the named assumptions of the
modules (finite sets of contents, a listing per content, sizes in `Nat`, ...).

* **EditorProviderProofs** starts with what `Hold`, `Release` and `Replace` do to
  leases that account for a function of references (`HoldAccounted`,
  `ReleaseAccounted`, `ReplaceAccounted`). The order in `Replace`, new lease before
  old, is what `ReplaceAccounted` needs when the two handles are one. Its results
  are `TypeCorrect`, `LeasesAlwaysMatch` and `ImplementsLifetime`. Neither the types
  nor the leases are inductive alone:
  that a lease matches needs each map, gate and export to name a handle that was
  opened, and that a moved gate names an open one needs the leases. `IInv` is the
  typed parts together with `Sound(host, gate, export)`: the leases account for
  `Refs`, the handles past `opened` are untouched, and a referred handle is not
  closed. Each action has a lemma of its own, that cites the lemma on what
  it does to the handles (`OpenIntoSound`, `DropEntrySound`, `AdoptSound`,
  `LetGoSound`, `EndExportSound`). The refinement needs one fact more, of steps:
  `Grows`, that closed handles stay closed and opened ones opened, which each
  lemma proves beside its invariant.
* **EditorFieldProofs**: `PanelsKeepTheirFields`, `NumbersKeepTheirMeaning`,
  `RevertedFilesAreNotRead`. To `IInv` the invariant `FieldInv` adds `MapBorn`
  (what a map holds was opened since the last revert) and, for each open panel,
  `PanelsMean`: its number is of its heading in its list, unless it awaits a pick;
  its gate's file has that list, and is of the last revert unless outdated; its page
  is the one last written, from the same list; and so is each message in the queue
  that carries the page's number. On top of it stand `RowsAlwaysOpenTheirField` (`RowsMean`: an editor's rows
  are of the file its map entry holds, and a click is of the page that lists them or
  is known to be older), `EditorsShowTheirDocument` (`DocumentMeans`, under the
  assumption that no revert outlives its editor), `CsvFilesHoldTheFieldAsked`
  (`ExportsMean`: before the first dialog ends the export's number denotes the field
  asked in the file of its lease, and after it the text made is that field's), and
  `EveryRenderIsAnswered`: only a panel's handler takes from its queue
  (`OnlyHandlersTake`), and every path of it posts a reply (`ReplyArrives`,
  `RenderReplied`).
* **SumTheorems** has what the next proofs need of data. `tlapm` cannot instantiate
  the library's induction rules, which take an operator; the same facts can be
  stated of a set. `LeastNatural` gives every non-empty set of naturals a least
  element; `Induction` follows for a set `S \subseteq Nat` of the numbers at which a
  fact holds. `Recursion` and `Iteration` say what a recursive function on `0 .. n`
  is at each place. From these come the sums over a finite set: of none, of one more
  or fewer, of a part and the rest, of the same terms under other names; each is a
  natural number.
* **Hdf5CacheProofs**: `TypeCorrect`, `AnswersAlwaysTheSources`, `HitsAreAlwaysMisses`,
  `HeadersAlwaysShared`, `UseOrderAlwaysTheKeptKeys`, `HeaderBytesAlwaysAccounted`,
  `ChunkMemoAlwaysCoherent` and `AlwaysEvictsLeastRecentlyUsed`. The invariant says
  that what the memo keeps is what the source it is bound to holds (of an index, what
  some dataset that names it reads), and that a call
  past its lookup belongs to a source that is either bound or bare. The chunk
  store has an invariant of its own (each kept chunk at the tick of its last use,
  no tick twice; the bytes are the charges of what is kept, within both limits),
  preserved by `UsedNow`, `Drop`, `Get` and `Keep`; the headers' is that the bytes
  are the sizes of what is kept (`HeadersCharged`). `MakeRoom` stops at the first
  tick that meets the limits, so the chunk of that tick, had it stayed, would have
  passed one: that is the eviction theorem. `EvictsLeastRecentlyUsed` says it of the
  last chunk to go, not of each: when two go at once, the first may be so small
  that it alone would still have fitted.
* **SliceHandleProofs**: `AnswersAlwaysFresh` and `NeverRewarps`: what is kept
  holds the raster of its own key, and the last plan made is the kept one; this
  depends on no plane, so every method has the same proof. `HandleTypeCorrect`,
  `ShownMapAlwaysDecoded` and `NeverMoreThanTwoPastTheBudget` are of the plane memo.
  `MemoInv`: no key is kept twice, the pair has at most two keys, the entries are
  within their limit, and over the cell budget there are two at most. The loop of
  `insert` is a recursive function of its turns; a turn keeps the newest entry, the
  pair and the order, and takes one entry, so after as many turns as there are
  entries nothing is left to drop or both bounds hold. `ShownInv` adds that what is shown is
  kept: a read drops neither the pair nor the newest, which are what is then shown.
* **WindowFetchProofs**: `WindowTypeCorrect`, `AnswersAlwaysTheStores`,
  `PlanAlwaysEnough` and `WindowAlwaysTheBox`. `GivenInv`: what is held of an object is ranges within it, one
  from each offset, of an object that was there and has the store's size. Giving a
  range loses none: the one it replaces is shorter, so what could be read still can
  (`StillRead`). `PlanCovers`: a plan names ranges of the window's own chunks, and once
  it is complete each of its shards is given whole, absent, or with its index read
  and all that the decode needs of it named. An answer is, a cell at a time, what
  `StoredCell` says, by the column's inner chunk and its place in the index.
  The box needs arithmetic: the remainder the code takes of a longitude is in the
  box exactly when whole turns bring the longitude into it (`OnArc`). On a grid that
  closes, the columns selected are those between two bounds, taken around the grid,
  so they are one circular run, whose one start and size `ColumnRuns` finds; a window
  of one column is widened by the next, or by the one before. Boxes have west at most
  east, as the code refuses any other (`window.rs:658`).
* **AecProofs**: `DecoderTypeCorrect` and `NeverMoreThanMaxSamples`, for every
  width, block size and interval, and for any bits at all. Type correctness has two
  parts that are not obvious: every code read is at most the largest of its width
  (each option has a lemma, down to `Number` over the bits of a field), and the
  inverse of the prediction mapping stays in the range of samples whatever the
  code. The bound on samples rests on `PaidFor`: the samples delivered are at most
  those of the blocks begun, and 64 times the bits read pay for each block the
  length of an identifier and six: no option is denser than a run of 64 zero blocks,
  which itself costs an identifier and at least a bit more than its length says.

* **RenderPageProofs** starts with a lemma for each function of the page: what it
  changes and what it leaves. Its results: `PageTypeCorrect`, `LinesAlwaysFit`,
  `KeptPicturesAreMarked`, `PictureAlwaysComesBack`, `PngsAreWhole`. What the page will read is one line of
  answers: those on their way, then the provider's to what is on its way to it
  (`Flight`); the provider's step does not move the line, and the page's posts
  append to it. The invariant is of the page and that line. Renders are in the order
  of their numbers, and the answer with the last number is to the last request
  (`Renders`). A layer's answers carry numbers up to the layer's own, and one with
  its own number is for the picture as it is (`Overlays`), or for the key it was
  asked under (`Contours`); a layer that waits for none already shows what it should.
  `Marks` is `KeptPictureIsMarked`; `Finish` says that with nothing wrong and every
  render answered the picture is the last render's. A PNG is written only in such a
  state with no layer waiting, so it is whole.
  That a picture comes back needs more (`BackInv`): each answer to a render, on the
  line, has a number and a request that were asked together (`Asking`, `AskedFor`),
  so the picture is of the request it is known by (`Drawing`). A state saved from
  the page (`Fresh`) then keeps every picture that is not the controls' own, by
  `Marks`; a step that saves nothing afresh, such as an answer that is not the last,
  carries what was saved over (`Saving`, `Back`); and a page loaded over a kept
  picture asks for that one first (`KeptAsked`). The one assumption this adds is that
  `None` is neither a kept picture nor the record of one awaited (`Kept`,
  `KeptReady`), which TypeScript's `null` is not.

Only model-checked: the liveness properties (`AsksAreAnswered`, `EmptyPanelsLearn`,
`OutdatedHandlesAreLetGo`, `WindowsAreAnswered`, `ExportsEnd`), out of the prover's
reach; `RefusalsEndInAPick` and `PagesKnowOfTheRefusal`; and `DeliversTheSource`,
which would have to follow the encoder's bits through the decoder, option by option.

## 5. What is not modelled

* In the provider: PNG export, tab titles, and the edit path (`applyP1Edit`,
  `reparseAndCache`, save, backup), which no control of the editor reaches; the
  `seq` a page stamps on its requests and gets back.
* In the render page: vectors (a third layer of the overlay's shape), the held Y
  axis, a page that waits for a pick or whose handle is gone, animation,
  palette-only changes, the limit of 64 on remembered contour levels, presentation.
  What is on its way to or from a hidden page is lost with it. Lines fail for
  both layers or none (`NoLines`): contours that fail alone, and an overlay that fails
  alone (an unreadable coastline asset), are left out. After the latter the next
  render of the same picture finds the overlay's key unset and drops the contours
  with it without asking for them (`render-panel.ts:4223-4243`), which these
  properties do not see. A first picture drawn by an answer to an earlier request,
  with a later one on its way, is saved only when that one is answered:
  `PictureComesBack` excepts it.
* In the warp memo: the two copies a grid can have (`render.rs:1624-1628`), the
  counters that only tests read.
* In the handle: metadata, line and axis queries, which read no memo.
* In the session: the rows of a window's box (their selection has no seam), requests
  other than a window, the placement memo (two threads may both make a placement; it
  is a pure function of its key), and the fetch plans of GRIB and index files.
* In the Zarr reader: metadata, consolidated listings, codecs, checksums, nested
  shards. In AEC: the szip framing, the byte layout a sink writes, the refills of
  the bit accumulator.
* The GRIB, NetCDF and HDF5 readers and the core: sequential parsers and
  arithmetic over data, with no state between calls but the memo. Most of the
  repository's 179,000 lines are of this kind or are tables (parameter names, codes,
  short names), so the share of lines the map covers is small and will stay small:
  a small instance says nothing of a table or of a floating-point projection, which
  the repository compares with reference decoders instead (`docs/verification.md`).

## 6. What is left

1. **MessageScan**: the GRIB scan and the GRIB2 section loop, with lengths of small
   width: it ends, and each message it lists lies in the file.
2. Coalescing of fetch ranges, output limits, packing groups, as pure operators.
3. The page's third layer and an overlay that fails alone (section 5).
4. Proofs: `RefusalsEndInAPick`, which needs that a page's own number is never what a
   refusing slice panel looks for; `DeliversTheSource`, an option at a time.
