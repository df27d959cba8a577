------------------------- MODULE EditorFieldProofs --------------------------
(***************************************************************************)
(* Theorems about what EditorProvider reads, for every value of its        *)
(* constants: the numbers a panel and its page keep mean what they meant,  *)
(* no reverted file is read, a row opens its field, an editor page shows   *)
(* its document, and a CSV file holds the field its export was of.         *)
(*                                                                         *)
(* The argument.  A number means a field only in a listing, so everything  *)
(* that keeps a number (a panel, its page, a message on its way) is tied   *)
(* to the listing of the panel's file, as long as the page number says     *)
(* that the message would be served; and a handle, once opened, keeps its  *)
(* file, so a panel's listing stays that of the handle its gate holds.     *)
(*                                                                         *)
(* An editor page's number is its own, so a request with the number the    *)
(* page has now is about the rows it has now, and those are of the handle  *)
(* its document's map still holds: an entry is replaced only where every   *)
(* page is written again.  An export holds its handle, whose file does not *)
(* change.                                                                 *)
(***************************************************************************)
EXTENDS EditorProviderProofs

-----------------------------------------------------------------------------
(* What is opened keeps its file, and what a map holds is of the last      *)
(* revert.                                                                 *)

FilesKept(hs, hs2) ==
  \A h \in 1..hs.opened : hs2.file[h] = hs.file[h] /\ hs2.born[h] = hs.born[h]

MapBorn(hs, at) == \A s \in DocSlots : hs.map[s] # None => hs.born[hs.map[s]] = at

SameFiles(hs, hs2) ==
  hs2.file = hs.file /\ hs2.born = hs.born /\ hs2.map = hs.map /\ hs2.opened = hs.opened

\* New leases change no file and no entry.
LEMMA LeasesKeepFiles ==
  ASSUME NEW hs \in HostState, NEW l
  PROVE  SameFiles(hs, [hs EXCEPT !.leases = l])
BY DEF HostState, SameFiles

\* The same files and entries are kept, and of the same revert.
LEMMA SameFilesKept ==
  ASSUME NEW hs, NEW hs2, SameFiles(hs, hs2)
  PROVE  FilesKept(hs, hs2) /\ \A at : MapBorn(hs, at) => MapBorn(hs2, at)
BY DEF SameFiles, FilesKept, MapBorn

\* A handle is opened on its file, and those opened before keep theirs.
LEMMA OpenIntoKeeps ==
  ASSUME NEW hs \in HostState, NEW s \in Slots, NEW c, NEW at, hs.opened < MaxHandles
  PROVE  LET hs2 == OpenInto(hs, s, c, at) IN
         /\ FilesKept(hs, hs2)
         /\ hs2.opened = hs.opened + 1 /\ hs2.map = [hs.map EXCEPT ![s] = hs.opened + 1]
         /\ hs2.file[hs.opened + 1] = c /\ hs2.born[hs.opened + 1] = at
         /\ hs.opened + 1 \in Handles
<1> DEFINE n == hs.opened + 1
           ls == Replace(hs.leases, hs.map[s], n, MapHolder(s))
           hs2 == OpenInto(hs, s, c, at)
<1>1. /\ hs.opened \in Nat /\ n \in Handles /\ \A h \in 1..hs.opened : h # n
      /\ hs.map \in [Slots -> Handle] /\ hs.file \in [Handles -> Content]
      /\ hs.born \in [Handles -> Nat]
  BY BoundsAssumption DEF HostState, Handles
<1> HIDE DEF ls
<1>2. hs2 = [hs EXCEPT !.opened = n, !.file[n] = c, !.born[n] = at, !.map[s] = n, !.leases = ls]
  BY DEF OpenInto, ls
<1>3. /\ hs2.opened = n /\ hs2.map = [hs.map EXCEPT ![s] = n]
      /\ hs2.file = [hs.file EXCEPT ![n] = c] /\ hs2.born = [hs.born EXCEPT ![n] = at]
  <2> HIDE DEF n, hs2
  <2> QED BY <1>2 DEF HostState
<1> HIDE DEF hs2
<1>4. FilesKept(hs, hs2)
  BY <1>1, <1>3 DEF FilesKept
<1>5. hs2.file[n] = c /\ hs2.born[n] = at
  BY <1>1, <1>3
<1> QED BY <1>1, <1>3, <1>4, <1>5 DEF hs2

\* Dropping entries changes no file.
LEMMA DropEntryKeeps ==
  ASSUME NEW hs \in HostState, NEW s \in Slots
  PROVE  LET hs2 == DropEntry(hs, s) IN
         /\ hs2.file = hs.file /\ hs2.born = hs.born /\ hs2.opened = hs.opened
         /\ hs2.map = [hs.map EXCEPT ![s] = None]
BY DEF DropEntry, HostState

\* Both of a document's entries go.
LEMMA DropDocumentKeeps ==
  ASSUME NEW hs, NEW g, NEW x, Sound(hs, g, x)
  PROVE  LET hs2 == DropDocument(hs) IN
         /\ hs2.file = hs.file /\ hs2.born = hs.born /\ hs2.opened = hs.opened
         /\ FilesKept(hs, hs2)
         /\ \A s \in DocSlots : hs2.map[s] = None
<1> DEFINE h1 == DropEntry(hs, "grib")
           h2 == DropEntry(h1, "netcdf")
<1>0. "grib" \in Slots /\ "netcdf" \in Slots /\ DocSlots = {"grib", "netcdf"}
  BY DEF Slots, DocSlots
<1>1. h1 \in HostState /\ Sound(h1, g, x)
  BY <1>0, DropEntrySound DEF Sound
<1>2. h1.file = hs.file /\ h1.born = hs.born /\ h1.opened = hs.opened
  BY <1>0, DropEntryKeeps DEF Sound
<1>3. h2.file = h1.file /\ h2.born = h1.born /\ h2.opened = h1.opened
  <2> HIDE DEF h1
  <2> QED BY <1>0, <1>1, DropEntryKeeps
<1>4. h2.map["grib"] = None /\ h2.map["netcdf"] = None
  BY DropDocumentSound DEF DropDocument
<1> HIDE DEF h1, h2
<1>5. FilesKept(hs, h2)
  BY <1>2, <1>3 DEF FilesKept
<1> QED BY <1>0, <1>2, <1>3, <1>4, <1>5 DEF DropDocument, h1, h2

\* What an editor page opens is of this revert, and replaces nothing.
LEMMA OpenOrReuseKeeps ==
  ASSUME NEW hs, NEW g, NEW x, NEW c \in Contents, NEW at \in Nat,
         Sound(hs, g, x), NeedsOpen(hs, c) => hs.opened < MaxHandles
  PROVE  LET hs2 == OpenOrReuse(hs, c, at) IN
         /\ FilesKept(hs, hs2)
         /\ MapBorn(hs, at) => MapBorn(hs2, at)
         /\ \A s \in Slots : hs.map[s] # None => hs2.map[s] = hs.map[s]
         /\ \A s \in Slots : hs.map[s] = None /\ hs2.map[s] # None => hs2.file[hs2.map[s]] = c
         /\ SlotOf[c] \in DocSlots => hs2.map[SlotOf[c]] # None
         /\ hs2.map["zarr"] = hs.map["zarr"]
<1> DEFINE hs2 == OpenOrReuse(hs, c, at)
           n == hs.opened + 1
<1>0. /\ hs \in HostState /\ hs.map \in [Slots -> Handle] /\ DocSlots \subseteq Slots
      /\ "zarr" \in Slots /\ "zarr" \notin DocSlots
      /\ \A s \in Slots : hs.map[s] # None => hs.map[s] \in 1..hs.opened
  BY ReferredIsOpen DEF Sound, HostState, Slots, DocSlots
<1>1. CASE NeedsOpen(hs, c)
  <2>1. SlotOf[c] \in Slots /\ SlotOf[c] \in DocSlots /\ hs.map[SlotOf[c]] = None
    BY <1>0, <1>1 DEF NeedsOpen
  <2>2. hs2 = OpenInto(hs, SlotOf[c], c, at)
    BY <1>1 DEF OpenOrReuse
  <2> HIDE DEF hs2
  <2>3. /\ FilesKept(hs, hs2) /\ hs2.map = [hs.map EXCEPT ![SlotOf[c]] = n]
        /\ hs2.file[n] = c /\ hs2.born[n] = at /\ n \in Handles
    BY <1>0, <1>1, <2>1, <2>2, OpenIntoKeeps
  <2>4. n # None
    BY <2>3, BoundsAssumption, NoneAssumption DEF Handles
  <2> HIDE DEF n
  <2>5. MapBorn(hs, at) => MapBorn(hs2, at)
    BY <1>0, <2>1, <2>3 DEF MapBorn, FilesKept
  <2> QED BY <1>0, <2>1, <2>3, <2>4, <2>5 DEF hs2
<1>2. CASE ~NeedsOpen(hs, c)
  <2>1. hs2 = hs
    BY <1>2 DEF OpenOrReuse
  <2> HIDE DEF hs2
  <2> QED BY <1>0, <1>2, <2>1 DEF NeedsOpen, FilesKept, hs2
<1> QED BY <1>1, <1>2

-----------------------------------------------------------------------------
(* What an open panel's numbers mean                                       *)

\* A GRIB panel that waits for a pick draws nothing, and may not know its field.
Awaits(pn) == pn.slot = "grib" /\ pn.refusing

\* Panel pn with gate g on page pg, with messages q on their way from it:
\* its number is that of its field, in the listing of the file its gate holds,
PanelMeans(hs, g, pn) ==
  /\ Awaits(pn) \/ At(pn.listed, pn.shown) = pn.name
  /\ g.handle # None => Listing[pn.listed] = Listing[hs.file[g.handle]]

\* which is of the document's last revert unless the gate knows better;
Newest(hs, at, g, pn) ==
  pn.slot \in DocSlots /\ g.handle # None /\ ~g.outdated => hs.born[g.handle] = at

\* its page is the one last written, from the same listing;
PageMeans(g, pn, pg) ==
  /\ pg.number = g.written
  /\ ~Awaits(pn) => Listing[pg.listed] = Listing[pn.listed]

\* and so is a message that would be served.
MailMeans(g, pn, q) ==
  \A k \in 1..Len(q) :
    /\ q[k].page <= g.written
    /\ q[k].page = g.written /\ q[k].type # "pickMessage" /\ ~Awaits(pn)
         => Listing[q[k].of] = Listing[pn.listed]

Means(hs, at, g, pn, pg, q) ==
  PanelMeans(hs, g, pn) /\ Newest(hs, at, g, pn) /\ PageMeans(g, pn, pg) /\ MailMeans(g, pn, q)

PanelsMean ==
  \A p \in Panels :
    IF IsOpen(p) THEN Means(host, reverts, gate[p], panel[p], page[p], toHost[p])
    ELSE toHost[p] = <<>>

Meaning == MapBorn(host, reverts) /\ PanelsMean
FieldInv == IInv /\ MapBorn(host, reverts) /\ PanelsMean

\* The gate's methods, by what each leaves of a gate.
LEMMA GateFields ==
  ASSUME NEW g \in GateState(Handles), NEW h \in Handle
  PROVE  /\ Heard(g).outdated = g.outdated /\ Heard(g).written = g.written
         /\ Outdate(g).written = g.written /\ (g.handle # None => Outdate(g).outdated)
         /\ Disposed(g).written = g.written
         /\ Kept(g, h).handle = h /\ ~Kept(g, h).outdated /\ Kept(g, h).written = g.written
         /\ Rewritten(g, h).handle = h /\ ~Rewritten(g, h).outdated
         /\ Rewritten(g, h).written = g.written + 1
         /\ NewGate(h).handle = h /\ NewGate(h).written = 0
         /\ g.written \in Nat
<1>1. /\ Heard(g).outdated = g.outdated /\ Heard(g).written = g.written
      /\ Outdate(g).written = g.written /\ (g.handle # None => Outdate(g).outdated)
      /\ Disposed(g).written = g.written /\ g.written \in Nat
      /\ NewGate(h).handle = h /\ NewGate(h).written = 0
  BY DEF GateState, Heard, Outdate, Disposed, NewGate
<1>2. Kept(g, h).handle = h /\ ~Kept(g, h).outdated /\ Kept(g, h).written = g.written
  BY DEF GateState, Kept
<1>3. Rewritten(g, h).handle = h /\ ~Rewritten(g, h).outdated
  <2> DEFINE k == Kept(g, h)
  <2>1. k \in GateState(Handles) /\ k.handle = h /\ ~k.outdated
    BY <1>2, GateTyped
  <2>2. Rewritten(g, h) = [k EXCEPT !.written = k.written + 1, !.awaitingReady = TRUE]
    BY DEF Rewritten
  <2> HIDE DEF k
  <2> QED BY <2>1, <2>2 DEF GateState
<1> QED BY <1>1, <1>2, <1>3, GateTyped

\* A page that is written has its panel's listing and its gate's number.
LEMMA WrittenFields ==
  ASSUME NEW pg \in PageState, NEW pn, NEW number
  PROVE  Written(pg, pn, number).number = number /\ Written(pg, pn, number).listed = pn.listed
BY DEF PageState, Written

\* A page written again for its panel's gate is a page of its listing.
LEMMA WrittenMeans ==
  ASSUME NEW pg \in PageState, NEW pn, NEW g
  PROVE  PageMeans(g, pn, Written(pg, pn, g.written))
BY WrittenFields DEF PageMeans

\* A message taken from the queue leaves the others what they mean.
LEMMA MailTaken ==
  ASSUME NEW q \in Seq(Message), q # <<>>, NEW g, NEW pn, MailMeans(g, pn, q)
  PROVE  MailMeans(g, pn, Tail(q))
<1>1. /\ Len(Tail(q)) = Len(q) - 1 /\ Len(q) \in Nat
      /\ \A k \in 1..Len(Tail(q)) : Tail(q)[k] = q[k + 1] /\ k + 1 \in 1..Len(q)
  OBVIOUS
<1> QED BY <1>1 DEF MailMeans

\* No message on its way was sent by a page that is only now written.
LEMMA MailBefore ==
  ASSUME NEW q \in Seq(Message), NEW g, NEW pn, MailMeans(g, pn, q), g.written \in Nat,
         NEW g2, g2.written = g.written + 1, NEW pn2
  PROVE  MailMeans(g2, pn2, q)
<1>1. \A k \in 1..Len(q) : q[k] \in Message
  OBVIOUS
<1>2. \A m \in Message : m.page \in Nat
  BY DEF Message
<1>3. \A k \in 1..Len(q) : q[k].page \in Nat /\ q[k].page <= g.written
  BY <1>1, <1>2 DEF MailMeans
<1> QED BY <1>3 DEF MailMeans

\* Files that are kept mean what they meant.
LEMMA MeansKept ==
  ASSUME NEW hs, NEW hs2, FilesKept(hs, hs2), NEW at, NEW g, NEW pn, NEW pg, NEW q,
         g.handle # None => g.handle \in 1..hs.opened, Means(hs, at, g, pn, pg, q)
  PROVE  Means(hs2, at, g, pn, pg, q)
BY DEF FilesKept, Means, PanelMeans, Newest

\* A step of one panel that opens nothing, or opens a handle and keeps the others.
LEMMA OnePanelMeans ==
  ASSUME FieldInv, NEW p \in Panels, FilesKept(host, host'), UNCHANGED reverts,
         NEW g, gate' = [gate EXCEPT ![p] = g], NEW pn, panel' = [panel EXCEPT ![p] = pn],
         NEW pg, page' = [page EXCEPT ![p] = pg], NEW q, toHost' = [toHost EXCEPT ![p] = q],
         IF pn.slot # None THEN Means(host', reverts, g, pn, pg, q) ELSE q = <<>>
  PROVE  PanelsMean'
<1>1. /\ gate'[p] = g /\ panel'[p] = pn /\ page'[p] = pg /\ toHost'[p] = q
      /\ \A o \in Panels : o # p => /\ gate'[o] = gate[o] /\ panel'[o] = panel[o]
                                    /\ page'[o] = page[o] /\ toHost'[o] = toHost[o]
  BY DEF FieldInv, IInv, PanelTyped
<1>2. ASSUME NEW o \in Panels, o # p, IsOpen(o)
      PROVE  Means(host', reverts, gate[o], panel[o], page[o], toHost[o])
  <2>1. gate[o].handle # None => gate[o].handle \in 1..host.opened
    BY ReferredIsOpen DEF FieldInv, IInv
  <2> QED BY <1>2, <2>1, MeansKept DEF FieldInv, PanelsMean
<1> QED BY <1>1, <1>2 DEF FieldInv, PanelsMean, IsOpen

\* A panel's own message handler, which opens no handle.
LEMMA HandlerMeans ==
  ASSUME FieldInv, NEW p \in Panels, SameFiles(host, host'), UNCHANGED reverts,
         NEW g, gate' = [gate EXCEPT ![p] = g], NEW pn, panel' = [panel EXCEPT ![p] = pn],
         NEW pg, page' = [page EXCEPT ![p] = pg], NEW q, toHost' = [toHost EXCEPT ![p] = q],
         pn.slot # None, Means(host, reverts, g, pn, pg, q)
  PROVE  Meaning'
<1>1. FilesKept(host, host') /\ MapBorn(host', reverts')
  BY SameFilesKept DEF FieldInv
<1>2. Means(host', reverts, g, pn, pg, q)
  BY DEF SameFiles, Means, PanelMeans, Newest
<1> QED BY <1>1, <1>2, OnePanelMeans DEF Meaning

\* A step that moves no number: only whether pages are shown, loaded or waiting.
LEMMA QuietMeans ==
  ASSUME FieldInv, SameFiles(host, host'), UNCHANGED <<reverts, gate, panel, toHost>>,
         \A p \in Panels : page'[p].number = page[p].number /\ page'[p].listed = page[p].listed
  PROVE  Meaning'
<1>1. MapBorn(host', reverts')
  BY SameFilesKept DEF FieldInv
<1>2. PanelsMean'
  BY DEF FieldInv, PanelsMean, IsOpen, SameFiles, Means, PanelMeans, Newest, PageMeans
<1> QED BY <1>1, <1>2 DEF Meaning

\* Whatever admit does before it serves a request, the numbers mean what they did.
LEMMA ServedMeans ==
  ASSUME FieldInv, NEW p \in Panels, IsOpen(p), Arrived(p), Served(p)
  PROVE  Means(host, reverts, GateAfter(p), PanelAfter(p), page[p], Tail(toHost[p]))
<1>1. /\ gate[p] \in GateState(Handles) /\ panel[p] \in PanelState /\ panel[p].slot \in Slots
      /\ Current(p) \in Handle
      /\ Heard(gate[p]) \in GateState(Handles) /\ Heard(gate[p]).handle = gate[p].handle
      /\ Heard(gate[p]).outdated = gate[p].outdated /\ Heard(gate[p]).written = gate[p].written
  BY CurrentTyped, GateTyped, GateFields DEF FieldInv
<1>2. Means(host, reverts, gate[p], panel[p], page[p], toHost[p])
  BY DEF FieldInv, PanelsMean
<1>3. MailMeans(gate[p], panel[p], Tail(toHost[p]))
  BY <1>2, MailTaken DEF FieldInv, IInv, PanelTyped, Arrived, Means
<1>4. CASE PanelMoves(p)
  <2> DEFINE pn == PanelAfter(p)
             c == FileOf(Current(p))
  <2>1. /\ panel[p].slot = "grib" /\ ~panel[p].refusing
        /\ Listing[panel[p].listed] = Listing[c]
    BY <1>4 DEF Served, SameFile
  <2>2. /\ pn.slot = "grib" /\ ~pn.refusing /\ pn.listed = c /\ pn.shown = panel[p].shown
        /\ pn.name = panel[p].name
    BY <1>1, <1>4, <2>1 DEF PanelAfter, PanelState
  <2>3. /\ GateAfter(p).handle = Current(p) /\ GateAfter(p).written = gate[p].written
        /\ GateAfter(p).outdated = FALSE
    BY <1>1, <1>4, GateFields DEF GateAfter, Kept, GateState
  <2> HIDE DEF pn
  <2>4. PanelMeans(host, GateAfter(p), pn)
    BY <1>2, <2>1, <2>2, <2>3 DEF Means, PanelMeans, Awaits, At, FileOf
  <2>5. Newest(host, reverts, GateAfter(p), pn)
    BY <2>1, <2>2, <2>3 DEF Newest, FieldInv, MapBorn, Current
  <2>6. PageMeans(GateAfter(p), pn, page[p]) /\ MailMeans(GateAfter(p), pn, Tail(toHost[p]))
    BY <1>2, <1>3, <2>1, <2>2, <2>3 DEF Means, PageMeans, MailMeans, Awaits
  <2> QED BY <2>4, <2>5, <2>6 DEF Means, pn
<1>5. CASE ~PanelMoves(p)
  <2>1. PanelAfter(p) = panel[p] /\ GateAfter(p) = Admitted(gate[p], Current(p))
    BY <1>5 DEF PanelAfter, GateAfter
  <2>2. /\ GateAfter(p).written = gate[p].written
        /\ \/ GateAfter(p).handle = None
           \/ GateAfter(p).handle = gate[p].handle /\ GateAfter(p).outdated = gate[p].outdated
    <3>1. /\ Disposed(Heard(gate[p])).handle = None
          /\ Disposed(Heard(gate[p])).written = gate[p].written
      BY <1>1, GateTyped, GateFields
    <3> QED BY <1>1, <2>1, <3>1 DEF Admitted
  <2> QED BY <1>2, <1>3, <2>1, <2>2 DEF Means, PanelMeans, Newest, PageMeans, MailMeans
<1> QED BY <1>4, <1>5

-----------------------------------------------------------------------------
(* Each action keeps the meaning: the document and its editors             *)

\* Only the leases change.
LEMMA LeasesOnly ==
  ASSUME FieldInv, NEW l, host' = [host EXCEPT !.leases = l]
  PROVE  SameFiles(host, host')
BY LeasesKeepFiles DEF FieldInv, IInv, Sound

\* Nothing changes but what no panel's numbers depend on.
LEMMA ElsewhereMeans ==
  ASSUME FieldInv, UNCHANGED <<reverts, host, panelVars>>
  PROVE  Meaning'
<1>1. SameFiles(host, host')
  BY DEF SameFiles
<1> QED BY <1>1, QuietMeans DEF panelVars

\* The document's entries and its panels, when some gates are outdated and some
\* pages written again.
LEMMA RedrawMeans ==
  ASSUME FieldInv, FilesKept(host, host'), MapBorn(host', reverts'), UNCHANGED <<panel, toHost>>,
         \A p \in Panels : IsOpen(p) =>
           /\ gate'[p] = gate[p] \/ gate'[p] = Outdate(gate[p])
           /\ page'[p] = page[p] \/ page'[p] = Rebuilt(p, gate[p])
           /\ reverts' = reverts \/ (panel[p].slot \in DocSlots => gate'[p] = Outdate(gate[p]))
  PROVE  Meaning'
<1>1. ASSUME NEW p \in Panels, IsOpen(p)
      PROVE  Means(host', reverts', gate'[p], panel[p], page'[p], toHost[p])
  <2>1. /\ gate[p] \in GateState(Handles) /\ page[p] \in PageState /\ gate[p].handle \in Handle
        /\ gate[p].handle # None => gate[p].handle \in 1..host.opened
        /\ Outdate(gate[p]).handle = gate[p].handle /\ Outdate(gate[p]).written = gate[p].written
        /\ gate[p].handle # None => Outdate(gate[p]).outdated
    BY <1>1, CurrentTyped, GateTyped, GateFields, ReferredIsOpen DEF FieldInv, IInv
  <2>2. Means(host', reverts, gate[p], panel[p], page[p], toHost[p])
    BY <1>1, <2>1, MeansKept DEF FieldInv, PanelsMean
  <2>3. /\ gate'[p] = gate[p] \/ gate'[p] = Outdate(gate[p])
        /\ page'[p] = page[p] \/ page'[p] = Rebuilt(p, gate[p])
        /\ reverts' = reverts \/ (panel[p].slot \in DocSlots => gate'[p] = Outdate(gate[p]))
    BY <1>1
  <2>4. /\ gate'[p].handle = gate[p].handle /\ gate'[p].written = gate[p].written
        /\ gate'[p] = gate[p] \/ (gate[p].handle # None => gate'[p].outdated)
    BY <2>1, <2>3
  <2>5. Newest(host', reverts', gate'[p], panel[p])
    BY <2>1, <2>2, <2>3, <2>4 DEF Newest, Means
  <2>6. PageMeans(gate'[p], panel[p], page'[p])
    <3>1. PageMeans(gate[p], panel[p], page[p])
      BY <2>2 DEF Means
    <3>2. PageMeans(gate[p], panel[p], Rebuilt(p, gate[p]))
      BY <2>1, WrittenMeans DEF Rebuilt
    <3> QED BY <2>3, <2>4, <3>1, <3>2 DEF PageMeans
  <2>7. PanelMeans(host', gate'[p], panel[p]) /\ MailMeans(gate'[p], panel[p], toHost[p])
    BY <2>2, <2>4 DEF PanelMeans, MailMeans, Means
  <2> QED BY <2>5, <2>6, <2>7 DEF Means
<1>2. PanelsMean'
  BY <1>1 DEF FieldInv, PanelsMean, IsOpen
<1> QED BY <1>2 DEF Meaning

\* Every open panel is written again, under the number it has.
LEMMA ImportColorTableMeans ==
  ASSUME FieldInv, ImportColorTable
  PROVE  Meaning'
<1>1. FilesKept(host, host') /\ MapBorn(host', reverts')
  BY DEF ImportColorTable, docVars, FieldInv, FilesKept
<1>2. /\ UNCHANGED <<panel, toHost, gate, reverts>>
      /\ \A p \in Panels : IsOpen(p) => page'[p] = Rebuilt(p, gate[p])
  BY DEF ImportColorTable, docVars
<1> QED BY <1>1, <1>2, RedrawMeans

\* An editor opens: panels that learn of a new handle are written again.
LEMMA ResolveEditorMeans ==
  ASSUME FieldInv, NEW e \in Editors, ResolveEditor(e)
  PROVE  Meaning'
<1> DEFINE hs == OpenOrReuse(host, bytes, reverts)
           redrawn == RedrawnOnOpen(hs)
<1>1. bytes \in Contents /\ reverts \in Nat /\ Sound(host, gate, export)
  BY DEF FieldInv, IInv, DocTyped, ResolveEditor, Content
<1>2. FilesKept(host, host') /\ MapBorn(host', reverts)
  BY <1>1, OpenOrReuseKeeps DEF ResolveEditor, FieldInv
<1>3. /\ UNCHANGED <<panel, toHost, reverts>>
      /\ gate' = [p \in Panels |->
                    IF p \in redrawn /\ Holds(p) THEN Outdate(gate[p]) ELSE gate[p]]
      /\ page' = [p \in Panels |-> IF p \in redrawn THEN Rebuilt(p, gate[p]) ELSE page[p]]
  BY DEF ResolveEditor, docVars
<1> HIDE DEF hs, redrawn
<1> QED BY <1>2, <1>3, RedrawMeans

\* An editor closes, the last one with the document's entries.
LEMMA CloseEditorMeans ==
  ASSUME FieldInv, NEW e \in Editors, CloseEditor(e)
  PROVE  Meaning'
<1>1. /\ UNCHANGED <<reverts, gate, panel, page, toHost>>
      /\ host' = DropDocument(host) \/ host' = host
  BY DEF CloseEditor, panelVars
<1>2. FilesKept(host, host') /\ MapBorn(host', reverts')
  BY <1>1, DropDocumentKeeps DEF FieldInv, IInv, MapBorn, FilesKept
<1> QED BY <1>1, <1>2, RedrawMeans

\* A revert ends: new entries are of it, and every panel of the document is
\* outdated.
LEMMA FinishRevertMeans ==
  ASSUME FieldInv, NEW r \in reading, FinishRevert(r)
  PROVE  Meaning'
<1> DEFINE dropped == DropDocument(host)
           drawn == {p \in Panels : panel[p].slot \in DocSlots}
<1>1. /\ r.read \in Contents /\ reverts + 1 \in Nat /\ Sound(host, gate, export)
  BY DEF FieldInv, IInv, DocTyped
<1>2. /\ reverts' = reverts + 1
      /\ host' = IF OpenEditors = {} THEN dropped ELSE OpenOrReuse(dropped, r.read, reverts + 1)
      /\ (OpenEditors # {} /\ NeedsOpen(dropped, r.read)) => host.opened < MaxHandles
      /\ gate' = [p \in Panels |-> IF p \in drawn THEN Outdate(gate[p]) ELSE gate[p]]
      /\ page' = [p \in Panels |-> IF p \in drawn THEN Rebuilt(p, gate[p]) ELSE page[p]]
      /\ UNCHANGED <<panel, toHost>>
  BY DEF FinishRevert, ReloadDocument
<1>3. /\ Sound(dropped, gate, export) /\ FilesKept(host, dropped)
      /\ dropped.opened = host.opened /\ MapBorn(dropped, reverts + 1)
  BY <1>1, DropDocumentSound, DropDocumentKeeps DEF MapBorn
<1> HIDE DEF dropped
<1>4. FilesKept(host, host') /\ MapBorn(host', reverts')
  <2>1. CASE OpenEditors = {}
    BY <1>2, <1>3, <2>1
  <2>2. CASE OpenEditors # {}
    <3>1. FilesKept(dropped, host') /\ MapBorn(host', reverts + 1)
      BY <1>1, <1>2, <1>3, <2>2, OpenOrReuseKeeps
    <3> QED BY <1>2, <1>3, <3>1 DEF FilesKept
  <2> QED BY <2>1, <2>2
<1> QED BY <1>2, <1>4, RedrawMeans

-----------------------------------------------------------------------------
(* Panels that open and close                                              *)

\* A panel opened on number i of the file of handle h.
LEMMA OpenPanelMeans ==
  ASSUME FieldInv, NEW p \in Panels, NEW s \in Slots, NEW hs \in HostState, NEW h \in Handles,
         NEW i \in DOMAIN Listing[hs.file[h]], OpenPanel(p, s, hs, h, i),
         FilesKept(host, hs), MapBorn(hs, reverts), UNCHANGED reverts,
         s \in DocSlots => hs.born[h] = reverts
  PROVE  Meaning'
<1> DEFINE c == hs.file[h]
           pn == [ClosedPanel EXCEPT !.slot = s, !.listed = c, !.shown = i, !.name = Listing[c][i]]
           pg == [NoPage EXCEPT !.visible = TRUE, !.listed = c]
           g == NewGate(h)
<1>1. /\ toHost[p] = <<>> /\ host' = [hs EXCEPT !.leases = Hold(hs.leases, h, GateHolder(p))]
      /\ gate' = [gate EXCEPT ![p] = g] /\ panel' = [panel EXCEPT ![p] = pn]
      /\ page' = [page EXCEPT ![p] = pg] /\ toHost' = toHost
  BY DEF OpenPanel, FieldInv, PanelsMean
<1>2. SameFiles(hs, host')
  BY <1>1, LeasesKeepFiles
<1>3. FilesKept(host, host') /\ MapBorn(host', reverts')
  BY <1>2, SameFilesKept DEF FilesKept, SameFiles
<1>4. /\ pn.slot = s /\ pn.listed = c /\ pn.shown = i /\ pn.name = Listing[c][i] /\ ~pn.refusing
      /\ pg.number = 0 /\ pg.listed = c /\ g.handle = h /\ g.written = 0
      /\ s # None
  BY NoneAssumption DEF ClosedPanel, NoPage, NewGate
<1> HIDE DEF pn, pg, g
<1>5. Means(host', reverts, g, pn, pg, <<>>)
  BY <1>2, <1>4 DEF Means, PanelMeans, Newest, PageMeans, MailMeans, Awaits, At, SameFiles
<1>6. toHost' = [toHost EXCEPT ![p] = <<>>]
  BY <1>1 DEF FieldInv, IInv, PanelTyped
<1>7. PanelsMean'
  BY <1>1, <1>3, <1>4, <1>5, <1>6, OnePanelMeans
<1> QED BY <1>3, <1>7 DEF Meaning

\* A row opens a panel on a number of the document's file.
LEMMA OpenRowMeans ==
  ASSUME FieldInv, NEW e \in Editors, NEW p \in Panels, OpenRow(e, p)
  PROVE  Meaning'
<1> DEFINE s == RowSlot(e)
           h == host.map[s]
           i == rowAsk[e].index
           j == IF i \in DOMAIN Listing[FileOf(h)] THEN i ELSE 1
<1>1. /\ rowAsk[e] # None /\ RowOpens(e) /\ OpenPanel(p, s, host, h, j) /\ UNCHANGED reverts
  BY DEF OpenRow, docVars
<1>2. s \in DocSlots /\ s \in Slots
  BY <1>1 DEF FieldInv, IInv, EditorTyped, Listed, RowSlot, Slots
<1>3. /\ h # None /\ h \in Handles /\ host.file[h] \in Contents /\ host \in HostState
      /\ host.born[h] = reverts
  BY <1>1, <1>2, ReferredIsOpen DEF RowOpens, FieldInv, IInv, Sound, MapBorn
<1>4. j \in DOMAIN Listing[host.file[h]]
  <2>1. s = "grib" => i \in DOMAIN Listing[host.file[h]]
    BY <1>1 DEF RowOpens, Renderable, At, FileOf
  <2>2. s # "grib" => Listing[host.file[h]] # <<>>
    BY <1>1 DEF RowOpens, FileOf
  <2> QED BY <1>3, <2>1, <2>2, ListingTyped DEF FileOf
<1>5. FilesKept(host, host) /\ MapBorn(host, reverts)
  BY DEF FilesKept, FieldInv
<1> HIDE DEF s, h, j
<1> QED BY <1>1, <1>2, <1>3, <1>4, <1>5, OpenPanelMeans

\* A store is opened, and its panel with it if it has something to draw.
LEMMA OpenStoreMeans ==
  ASSUME FieldInv, NEW p \in Panels, NEW c \in StoreContents, OpenStore(p, c)
  PROVE  Meaning'
<1> DEFINE hs == OpenInto(host, "zarr", c, reverts)
           n == host.opened + 1
<1>1. /\ c \in Contents /\ SlotOf[c] = "zarr" /\ "zarr" \in Slots /\ "zarr" \notin DocSlots
      /\ host.opened < MaxHandles /\ reverts \in Nat /\ host \in HostState
      /\ DocSlots \subseteq Slots /\ UNCHANGED reverts
      /\ Sound(host, gate, export) /\ host.map \in [Slots -> Handle]
  BY ContentsAssumption DEF OpenStore, docVars, FieldInv, IInv, Sound, DocTyped, Slots, DocSlots,
                            HostState
<1>2. /\ FilesKept(host, hs) /\ hs.opened = n /\ hs.map = [host.map EXCEPT !["zarr"] = n]
      /\ hs.file[n] = c /\ n \in Handles
  BY <1>1, OpenIntoKeeps
<1>3. hs \in HostState
  BY <1>1, OpenIntoSound DEF Sound
<1>4. CASE Listing[c] # <<>>
  <2>1. OpenPanel(p, "zarr", hs, n, 1) /\ 1 \in DOMAIN Listing[c]
    BY <1>1, <1>2, <1>4, ListingTyped DEF OpenStore
  <2> HIDE DEF hs, n
  <2>2. MapBorn(hs, reverts)
    <3> SUFFICES ASSUME NEW s \in DocSlots, hs.map[s] # None PROVE hs.born[hs.map[s]] = reverts
      BY DEF MapBorn
    <3>1. hs.map[s] = host.map[s] /\ host.map[s] \in 1..host.opened
      BY <1>1, <1>2, ReferredIsOpen
    <3> QED BY <1>2, <3>1 DEF FilesKept, FieldInv, MapBorn
  <2> QED BY <1>1, <1>2, <1>3, <2>1, <2>2, OpenPanelMeans
<1>5. CASE Listing[c] = <<>>
  <2>1. /\ host' = [host EXCEPT !.opened = hs.opened, !.file = hs.file, !.born = hs.born,
                                !.leases.closed = @ \cup {hs.opened}]
        /\ UNCHANGED panelVars
    BY <1>5 DEF OpenStore
  <2> HIDE DEF hs, n
  <2>2. host'.map = host.map /\ host'.file = hs.file /\ host'.born = hs.born
    BY <1>1, <2>1 DEF HostState
  <2>3. FilesKept(host, host')
    BY <1>2, <2>2 DEF FilesKept
  <2>4. MapBorn(host', reverts')
    <3> SUFFICES ASSUME NEW s \in DocSlots, host.map[s] # None
                 PROVE  host'.born[host.map[s]] = reverts
      BY <1>1, <2>2 DEF MapBorn
    <3>1. host.map[s] \in 1..host.opened
      BY <1>1, ReferredIsOpen
    <3> QED BY <2>3, <3>1 DEF FilesKept, FieldInv, MapBorn
  <2> QED BY <1>1, <2>1, <2>3, <2>4, RedrawMeans DEF panelVars
<1> QED BY <1>4, <1>5

\* A closed panel keeps no number, and its messages are gone.
LEMMA ClosePanelMeans ==
  ASSUME FieldInv, NEW p \in Panels, ClosePanel(p)
  PROVE  Meaning'
<1> DEFINE ls == GateRelease(host.leases, gate[p], GateHolder(p))
           let_go == [host EXCEPT !.leases = ls]
<1>1. /\ host' = DropEntry(let_go, "zarr") \/ host' = let_go
      /\ UNCHANGED reverts
      /\ gate' = [gate EXCEPT ![p] = NewGate(None)] /\ panel' = [panel EXCEPT ![p] = ClosedPanel]
      /\ page' = [page EXCEPT ![p] = NoPage] /\ toHost' = [toHost EXCEPT ![p] = <<>>]
  BY DEF ClosePanel, docVars
<1>2. /\ let_go \in HostState /\ "zarr" \in Slots /\ "zarr" \notin DocSlots
      /\ SameFiles(host, let_go) /\ let_go.map \in [Slots -> Handle] /\ DocSlots \subseteq Slots
  <2>1. host \in HostState /\ gate[p] \in GateState(Handles) /\ GateHolder(p) \in Holders
    BY GateChanges DEF FieldInv, IInv, Sound, PanelTyped
  <2>2. ls \in LeaseState(Handles, Holders)
    BY <2>1, GateTyped, LeasesTyped DEF GateRelease, HostState
  <2> HIDE DEF ls
  <2>3. let_go \in HostState /\ SameFiles(host, let_go)
    BY <2>1, <2>2, NewLeases, LeasesKeepFiles
  <2> QED BY <2>3 DEF HostState, Slots, DocSlots
<1> HIDE DEF let_go
<1>3. FilesKept(host, host') /\ MapBorn(host', reverts')
  <2>1. FilesKept(host, let_go) /\ MapBorn(let_go, reverts)
    BY <1>2, SameFilesKept DEF FieldInv
  <2>2. CASE host' = DropEntry(let_go, "zarr")
    <3>1. /\ host'.file = let_go.file /\ host'.born = let_go.born
          /\ host'.map = [let_go.map EXCEPT !["zarr"] = None]
      BY <1>2, <2>2, DropEntryKeeps
    <3> QED BY <1>1, <1>2, <2>1, <3>1 DEF FilesKept, MapBorn
  <2> QED BY <1>1, <2>1, <2>2
<1>4. ClosedPanel.slot = None
  BY DEF ClosedPanel
<1>5. PanelsMean'
  BY <1>1, <1>3, <1>4, OnePanelMeans
<1> QED BY <1>3, <1>5 DEF Meaning

-----------------------------------------------------------------------------
(* What a page posts and receives                                          *)

\* A message posted from the listing of the page, or to pick from a list.
LEMMA PostMeans ==
  ASSUME FieldInv, NEW p \in Panels, IsOpen(p), NEW type, NEW of, NEW i, Post(p, type, of, i),
         type = "pickMessage" \/ of = page[p].listed,
         \A o \in Panels : page'[o].number = page[o].number /\ page'[o].listed = page[o].listed
  PROVE  Meaning'
<1> DEFINE m == [type |-> type, page |-> page[p].number, of |-> of, index |-> i]
           q == Append(toHost[p], m)
<1>1. /\ toHost' = [toHost EXCEPT ![p] = q] /\ UNCHANGED <<reverts, host, gate, panel>>
  BY DEF Post, docVars
<1>2. Means(host, reverts, gate[p], panel[p], page[p], toHost[p])
  BY DEF FieldInv, PanelsMean
<1>3. /\ Len(q) = Len(toHost[p]) + 1 /\ Len(toHost[p]) \in Nat /\ q[Len(q)] = m
      /\ \A k \in 1..Len(toHost[p]) : q[k] = toHost[p][k]
      /\ gate[p].written \in Nat
  BY DEF FieldInv, IInv, PanelTyped, GateState
<1> HIDE DEF q
<1>4. MailMeans(gate[p], panel[p], q)
  <2> SUFFICES ASSUME NEW k \in 1..Len(q)
               PROVE  /\ q[k].page <= gate[p].written
                      /\ q[k].page = gate[p].written /\ q[k].type # "pickMessage" /\ ~Awaits(panel[p])
                           => Listing[q[k].of] = Listing[panel[p].listed]
    BY DEF MailMeans
  <2>1. CASE k = Len(q)
    BY <1>2, <1>3, <2>1 DEF Means, PageMeans
  <2>2. CASE k # Len(q)
    <3>1. k \in 1..Len(toHost[p])
      BY <1>3, <2>2
    <3> QED BY <1>2, <1>3, <3>1 DEF Means, MailMeans
  <2> QED BY <2>1, <2>2
<1>5. PanelsMean'
  <2>1. \A o \in Panels : o # p => toHost'[o] = toHost[o]
    BY <1>1
  <2>2. toHost'[p] = q
    BY <1>1 DEF FieldInv, IInv, PanelTyped
  <2> QED BY <1>1, <1>4, <2>1, <2>2 DEF FieldInv, PanelsMean, IsOpen, Means, PageMeans
<1> QED BY <1>1, <1>5 DEF Meaning, FieldInv

\* Every message a page posts is posted so.
LEMMA AskMeans ==
  ASSUME FieldInv, NEW p \in Panels, IsOpen(p), NEW i, NEW type,
         LoadPage(p, i) \/ AskRender(p, i) \/ AskOther(p, type, i) \/ AskPick(p, i)
  PROVE  Meaning'
<1>1. page \in [Panels -> PageState]
  BY DEF FieldInv, IInv, PanelTyped
<1>2. CASE LoadPage(p, i)
  BY <1>1, <1>2, PostMeans DEF LoadPage, PageState
<1>3. CASE AskRender(p, i)
  BY <1>1, <1>3, PostMeans DEF AskRender, PageState
<1>4. CASE AskOther(p, type, i)
  BY <1>1, <1>4, PostMeans DEF AskOther, PageState
<1>5. CASE AskPick(p, i)
  BY <1>1, <1>5, PostMeans DEF AskPick, PageState
<1> QED BY <1>2, <1>3, <1>4, <1>5

\* Replies, hiding and showing change no number.
LEMMA PageOnlyMeans ==
  ASSUME FieldInv, NEW p \in Panels, ReceiveReply(p) \/ HidePage(p) \/ ShowPage(p)
  PROVE  Meaning'
<1>1. page \in [Panels -> PageState] /\ SameFiles(host, host)
  BY DEF FieldInv, IInv, PanelTyped, SameFiles
<1>2. UNCHANGED <<reverts, host, gate, panel, toHost>>
  BY DEF ReceiveReply, HidePage, ShowPage, docVars
<1>3. \A o \in Panels : page'[o].number = page[o].number /\ page'[o].listed = page[o].listed
  <2>1. page[p] \in PageState
    BY <1>1
  <2>2. CASE ReceiveReply(p)
    <3> DEFINE r == Head(toPage[p])
               o == IF r.type = "gone" THEN page[p].offer ELSE r.offers
               pg == [page[p] EXCEPT !.waiting = FALSE, !.answer = r.type, !.offer = o]
    <3>1. page' = page \/ page' = [page EXCEPT ![p] = pg]
      <4>1. \/ page' = page
            \/ page' = [page EXCEPT ![p].waiting = FALSE, ![p].answer = r.type, ![p].offer = o]
        BY <2>2 DEF ReceiveReply
      <4> HIDE DEF r, o
      <4> QED BY <1>1, <2>1, <4>1 DEF PageState
    <3> HIDE DEF r, o
    <3>2. pg.number = page[p].number /\ pg.listed = page[p].listed
      BY <2>1 DEF PageState
    <3> HIDE DEF pg
    <3> QED BY <1>1, <3>1, <3>2
  <2>3. CASE HidePage(p) \/ ShowPage(p)
    BY <1>1, <2>1, <2>3 DEF HidePage, ShowPage, PageState
  <2> QED BY <2>2, <2>3
<1> QED BY <1>1, <1>2, <1>3, QuietMeans

-----------------------------------------------------------------------------
(* What a panel's message handler does                                     *)

\* The message a handler takes, and what those behind it mean.
LEMMA Taken ==
  ASSUME FieldInv, NEW p \in Panels, IsOpen(p), Arrived(p)
  PROVE  /\ Means(host, reverts, gate[p], panel[p], page[p], toHost[p])
         /\ toHost[p] \in Seq(Message) /\ toHost[p] # <<>> /\ Tail(toHost[p]) \in Seq(Message)
         /\ MailMeans(gate[p], panel[p], Tail(toHost[p]))
         /\ Ask(p) = toHost[p][1] /\ 1 \in 1..Len(toHost[p])
<1>1. Means(host, reverts, gate[p], panel[p], page[p], toHost[p])
  BY DEF FieldInv, PanelsMean
<1>2. toHost[p] \in Seq(Message) /\ toHost[p] # <<>>
  BY DEF FieldInv, IInv, PanelTyped, Arrived
<1>3. /\ Tail(toHost[p]) \in Seq(Message) /\ 1 \in 1..Len(toHost[p])
      /\ Head(toHost[p]) = toHost[p][1]
  BY <1>2
<1> QED BY <1>1, <1>2, <1>3, MailTaken DEF Ask, Means

\* What a panel's numbers mean depends on these of what it keeps only.
LEMMA SameMeaning ==
  ASSUME NEW hs, NEW at, NEW g, NEW pn, NEW pg, NEW q, Means(hs, at, g, pn, pg, q),
         NEW pn2, pn2.slot = pn.slot, pn2.listed = pn.listed, pn2.shown = pn.shown,
         pn2.name = pn.name, pn.slot = "grib" => pn2.refusing = pn.refusing
  PROVE  Means(hs, at, g, pn2, pg, q)
BY DEF Means, PanelMeans, Newest, PageMeans, MailMeans, Awaits

\* A message that is dropped.
LEMMA DropRequestMeans ==
  ASSUME FieldInv, NEW p \in Panels, IsOpen(p), DropRequest(p)
  PROVE  Meaning'
<1>1. /\ Arrived(p) /\ toHost' = [toHost EXCEPT ![p] = Tail(toHost[p])]
      /\ UNCHANGED <<reverts, host, gate, panel, page>>
  BY DEF DropRequest, Consume, docVars
<1>2. Means(host, reverts, gate[p], panel[p], page[p], Tail(toHost[p]))
  BY <1>1, Taken DEF Means
<1>3. /\ gate' = [gate EXCEPT ![p] = gate[p]] /\ panel' = [panel EXCEPT ![p] = panel[p]]
      /\ page' = [page EXCEPT ![p] = page[p]] /\ SameFiles(host, host')
  BY <1>1 DEF FieldInv, IInv, PanelTyped, SameFiles
<1> QED BY <1>1, <1>2, <1>3, HandlerMeans DEF IsOpen

\* A request admit serves, with no page written for it.
LEMMA ServeMeans ==
  ASSUME FieldInv, NEW p \in Panels, IsOpen(p), Arrived(p), Served(p), Consume(p),
         gate' = [gate EXCEPT ![p] = GateAfter(p)], UNCHANGED <<reverts, page>>,
         NEW l, host' = [host EXCEPT !.leases = l],
         NEW pn, panel' = [panel EXCEPT ![p] = pn],
         pn.slot = PanelAfter(p).slot, pn.listed = PanelAfter(p).listed,
         pn.shown = PanelAfter(p).shown, pn.name = PanelAfter(p).name,
         PanelAfter(p).slot = "grib" => pn.refusing = PanelAfter(p).refusing
  PROVE  Meaning'
<1>1. Means(host, reverts, GateAfter(p), PanelAfter(p), page[p], Tail(toHost[p]))
  BY ServedMeans
<1>2. Means(host, reverts, GateAfter(p), pn, page[p], Tail(toHost[p]))
  BY <1>1, SameMeaning
<1>3. /\ SameFiles(host, host') /\ toHost' = [toHost EXCEPT ![p] = Tail(toHost[p])]
      /\ page' = [page EXCEPT ![p] = page[p]]
  BY LeasesOnly DEF Consume, FieldInv, IInv, PanelTyped
<1>4. pn.slot # None
  BY ServedSound DEF FieldInv, IsOpen
<1> QED BY <1>2, <1>3, <1>4, HandlerMeans

\* Paint, RefuseAgain, Probe and StartExport: served, and no page written.
LEMMA AnswerMeans ==
  ASSUME FieldInv, NEW p \in Panels, IsOpen(p),
         Paint(p) \/ RefuseAgain(p) \/ Probe(p) \/ \E x \in Exports : StartExport(p, x)
  PROVE  Meaning'
<1>1. \E r : Serve(p, r)
  BY DEF Paint, RefuseAgain, Probe, StartExport
<1>2. /\ Arrived(p) /\ Served(p) /\ Consume(p) /\ gate' = [gate EXCEPT ![p] = GateAfter(p)]
      /\ UNCHANGED reverts
  BY <1>1 DEF Serve, docVars
<1>3. UNCHANGED page
  BY DEF Paint, RefuseAgain, Probe, StartExport, Keep
<1>4. \E l : host' = [host EXCEPT !.leases = l]
  BY DEF Paint, RefuseAgain, Probe, StartExport, KeepLeases
<1>5. CASE panel' = [panel EXCEPT ![p] = PanelAfter(p)]
  BY <1>2, <1>3, <1>4, <1>5, ServeMeans
<1>6. CASE /\ panel[p].slot # "grib"
           /\ panel' = [panel EXCEPT ![p] = [panel[p] EXCEPT !.refusing = FALSE, !.lost = None]]
  <2> DEFINE pn == [panel[p] EXCEPT !.refusing = FALSE, !.lost = None]
  <2>1. PanelAfter(p) = panel[p]
    BY <1>2, <1>6 DEF Served, SameFile, PanelAfter
  <2>2. /\ pn.slot = panel[p].slot /\ pn.listed = panel[p].listed
        /\ pn.shown = panel[p].shown /\ pn.name = panel[p].name
    BY DEF FieldInv, IInv, PanelTyped, PanelState
  <2> HIDE DEF pn
  <2>3. panel' = [panel EXCEPT ![p] = pn]
    BY <1>6 DEF pn
  <2>4. PICK l : host' = [host EXCEPT !.leases = l]
    BY <1>4
  <2>5. PanelAfter(p).slot # "grib"
    BY <1>6, <2>1
  <2> QED BY <1>2, <1>3, <2>1, <2>2, <2>3, <2>4, <2>5, ServeMeans
<1> QED BY <1>5, <1>6 DEF Paint, RefuseAgain, Probe, StartExport, Keep

\* A picked message is read in the listing it was picked from the panel's file.
LEMMA PickMeans ==
  ASSUME FieldInv, NEW p \in Panels, IsOpen(p), Pick(p)
  PROVE  Meaning'
<1> DEFINE i == Ask(p).index
           h == Reader(p)
           picks == panel[p].refusing /\ h # None /\ i \in DOMAIN Listing[FileOf(h)]
           draws == picks /\ Renderable(At(FileOf(h), i))
           moved == [panel[p] EXCEPT !.shown = i, !.name = At(FileOf(h), i), !.refusing = FALSE]
           g == Rewritten(GateAfter(p), h)
<1>1. /\ Arrived(p) /\ Served(p) /\ Consume(p) /\ UNCHANGED reverts
      /\ gate' = [gate EXCEPT ![p] = IF draws THEN g ELSE GateAfter(p)]
      /\ panel' = [panel EXCEPT ![p] = IF draws THEN moved ELSE PanelAfter(p)]
      /\ page' = IF draws THEN [page EXCEPT ![p] = Written(@, moved, g.written)] ELSE page
      /\ host' = [host EXCEPT !.leases = LeasesAfter(p)]
  BY DEF Pick, KeepLeases, docVars
<1>2. CASE ~draws
  BY <1>1, <1>2, ServeMeans
<1>3. CASE draws
  <2>1. PanelAfter(p) = panel[p]
    BY <1>1, <1>3 DEF Served, SameFile, PanelAfter
  <2>2. /\ h \in Handle /\ GateAfter(p) \in GateState(Handles)
        /\ GateAfter(p).handle = h /\ ~GateAfter(p).outdated /\ h # None
    BY <1>3, ReaderOpen, ServedSound DEF FieldInv, Reader, HandleOf
  <2>3. Means(host, reverts, GateAfter(p), panel[p], page[p], Tail(toHost[p]))
    BY <1>1, <2>1, ServedMeans
  <2>4. /\ g.handle = h /\ g.written = GateAfter(p).written + 1 /\ GateAfter(p).written \in Nat
    BY <2>2, GateFields
  <2>5. /\ moved.slot = panel[p].slot /\ moved.listed = panel[p].listed /\ moved.shown = i
        /\ moved.name = At(FileOf(h), i) /\ panel[p].slot # None /\ page[p] \in PageState
    BY CurrentTyped, NoneAssumption DEF FieldInv, PanelState, IsOpen
  <2> DEFINE pg == Written(page[p], moved, g.written)
  <2> HIDE DEF moved, g, h, i
  <2>6. PanelMeans(host, g, moved)
    BY <2>2, <2>3, <2>4, <2>5 DEF Means, PanelMeans, FileOf, At
  <2>7. Newest(host, reverts, g, moved)
    BY <2>2, <2>3, <2>4, <2>5 DEF Means, Newest
  <2>8. PageMeans(g, moved, pg)
    BY <2>5, WrittenMeans
  <2>9. MailMeans(g, moved, Tail(toHost[p]))
    BY <1>1, <2>3, <2>4, Taken, MailBefore DEF Means
  <2>10. Means(host, reverts, g, moved, pg, Tail(toHost[p])) /\ SameFiles(host, host')
    BY <1>1, <2>6, <2>7, <2>8, <2>9, LeasesOnly DEF Means
  <2>11. /\ gate' = [gate EXCEPT ![p] = g] /\ panel' = [panel EXCEPT ![p] = moved]
         /\ page' = [page EXCEPT ![p] = pg] /\ toHost' = [toHost EXCEPT ![p] = Tail(toHost[p])]
    BY <1>1, <1>3 DEF Consume
  <2> HIDE DEF pg
  <2> QED BY <1>1, <2>5, <2>10, <2>11, HandlerMeans
<1> QED BY <1>2, <1>3

\* The gate moves to the document's handle, and a panel pn of its file is written.
LEMMA MovedMeans ==
  ASSUME FieldInv, NEW p \in Panels, IsOpen(p), NEW g, g = Rewritten(Heard(gate[p]), Current(p)),
         AdoptCurrent(p, g), NEW pn, panel' = [panel EXCEPT ![p] = pn],
         page' = [page EXCEPT ![p] = Written(page[p], pn, g.written)],
         pn.slot = panel[p].slot, pn.listed = FileOf(Current(p)),
         At(pn.listed, pn.shown) = pn.name
  PROVE  Meaning'
<1>1. /\ Arrived(p) /\ Consume(p) /\ gate' = [gate EXCEPT ![p] = g] /\ UNCHANGED reverts
      /\ \E l : host' = [host EXCEPT !.leases = l]
      /\ Current(p) # None
  BY DEF AdoptCurrent, docVars, PanelMoves, Moves
<1>2. /\ gate[p] \in GateState(Handles) /\ Current(p) \in Handle /\ page[p] \in PageState
      /\ Heard(gate[p]) \in GateState(Handles) /\ Heard(gate[p]).written = gate[p].written
      /\ panel[p].slot # None
  BY CurrentTyped, GateTyped, GateFields DEF FieldInv, IsOpen
<1>3. g.handle = Current(p) /\ g.written = gate[p].written + 1 /\ gate[p].written \in Nat
  BY <1>2, GateFields
<1> DEFINE pg == Written(page[p], pn, g.written)
<1>4. PanelMeans(host, g, pn) /\ PageMeans(g, pn, pg)
  BY <1>2, <1>3, WrittenMeans DEF PanelMeans, FileOf
<1>5. Newest(host, reverts, g, pn)
  BY <1>1, <1>3 DEF Newest, FieldInv, MapBorn, Current
<1>6. MailMeans(g, pn, Tail(toHost[p]))
  BY <1>1, <1>3, Taken, MailBefore
<1>7. Means(host, reverts, g, pn, pg, Tail(toHost[p])) /\ SameFiles(host, host')
  BY <1>1, <1>4, <1>5, <1>6, LeasesOnly DEF Means
<1> HIDE DEF pg
<1>8. page' = [page EXCEPT ![p] = pg] /\ toHost' = [toHost EXCEPT ![p] = Tail(toHost[p])]
  BY <1>1 DEF Consume, pg
<1> QED BY <1>1, <1>2, <1>7, <1>8, HandlerMeans

\* The panel's message is once in the changed file.
LEMMA FindMessageMeans ==
  ASSUME FieldInv, NEW p \in Panels, IsOpen(p), FindMessage(p)
  PROVE  Meaning'
<1> DEFINE c == FileOf(Current(p))
           found == IF panel[p].refusing THEN {} ELSE Found(c, panel[p].name)
           g == Rewritten(Heard(gate[p]), Current(p))
<1>1. PICK i \in found :
        LET moved == [panel[p] EXCEPT !.listed = c, !.shown = i] IN
        /\ panel' = [panel EXCEPT ![p] = moved]
        /\ page' = [page EXCEPT ![p] = Written(@, moved, g.written)]
  BY DEF FindMessage
<1>2. AdoptCurrent(p, g) /\ panel[p] \in PanelState
  BY CurrentTyped DEF FindMessage, FieldInv
<1>3. i \in DOMAIN Listing[c] /\ Listing[c][i] = panel[p].name
  BY <1>1 DEF Found
<1> DEFINE moved == [panel[p] EXCEPT !.listed = c, !.shown = i]
<1>4. /\ moved.slot = panel[p].slot /\ moved.listed = c /\ moved.shown = i
      /\ moved.name = panel[p].name
  BY <1>2 DEF PanelState
<1>5. At(moved.listed, moved.shown) = moved.name
  BY <1>3, <1>4 DEF At
<1> HIDE DEF moved, g, c
<1>6. /\ panel' = [panel EXCEPT ![p] = moved]
      /\ page' = [page EXCEPT ![p] = Written(page[p], moved, g.written)]
  BY <1>1 DEF moved
<1> QED BY <1>2, <1>4, <1>5, <1>6, MovedMeans DEF g, c

\* A slice panel moves to a variable of the changed file.
LEMMA MoveSliceMeans ==
  ASSUME FieldInv, NEW p \in Panels, IsOpen(p), MoveSlice(p)
  PROVE  Meaning'
<1> DEFINE c == FileOf(Current(p))
           same == Found(c, Wanted(p))
           lost == IF same = {} THEN Wanted(p) ELSE None
           none == (same = {})
           g == Rewritten(Heard(gate[p]), Current(p))
<1>1. PICK i \in DOMAIN Listing[c] :
        LET moved == [panel[p] EXCEPT !.listed = c, !.shown = i, !.name = Listing[c][i],
                                      !.refusing = none, !.lost = lost]
        IN /\ panel' = [panel EXCEPT ![p] = moved]
           /\ page' = [page EXCEPT ![p] = Written(@, moved, g.written)]
  BY DEF MoveSlice
<1>2. AdoptCurrent(p, g) /\ panel[p] \in PanelState
  BY CurrentTyped DEF MoveSlice, FieldInv
<1> HIDE DEF same, lost, none, g, c
<1> DEFINE moved == [panel[p] EXCEPT !.listed = c, !.shown = i, !.name = Listing[c][i],
                                     !.refusing = none, !.lost = lost]
<1>3. /\ moved.slot = panel[p].slot /\ moved.listed = c /\ moved.shown = i
      /\ moved.name = Listing[c][i]
  BY <1>2 DEF PanelState
<1>4. At(moved.listed, moved.shown) = moved.name
  BY <1>1, <1>3 DEF At
<1> HIDE DEF moved
<1>5. /\ panel' = [panel EXCEPT ![p] = moved]
      /\ page' = [page EXCEPT ![p] = Written(page[p], moved, g.written)]
  BY <1>1 DEF moved
<1> QED BY <1>2, <1>3, <1>4, <1>5, MovedMeans DEF g, c

\* The panel's message is not, or not only once: the panel waits for a pick.
LEMMA OfferMessagesMeans ==
  ASSUME FieldInv, NEW p \in Panels, IsOpen(p), OfferMessages(p)
  PROVE  Meaning'
<1> DEFINE c == FileOf(Current(p))
           g == Kept(Heard(gate[p]), Current(p))
           pn == [panel[p] EXCEPT !.listed = c, !.refusing = TRUE]
<1>1. /\ AdoptCurrent(p, g) /\ panel[p].slot = "grib" /\ UNCHANGED page
      /\ panel' = [panel EXCEPT ![p].listed = c, ![p].refusing = TRUE]
  BY DEF OfferMessages
<1>2. /\ Arrived(p) /\ Consume(p) /\ gate' = [gate EXCEPT ![p] = g] /\ UNCHANGED reverts
      /\ \E l : host' = [host EXCEPT !.leases = l]
      /\ Current(p) # None
  BY <1>1 DEF AdoptCurrent, docVars, PanelMoves, Moves
<1>3. /\ gate[p] \in GateState(Handles) /\ Current(p) \in Handle
      /\ Heard(gate[p]) \in GateState(Handles) /\ Heard(gate[p]).written = gate[p].written
      /\ panel[p] \in PanelState /\ panel[p].slot # None
      /\ panel \in [Panels -> PanelState] /\ page \in [Panels -> PageState]
  BY CurrentTyped, GateTyped, GateFields DEF FieldInv, IsOpen, IInv, PanelTyped
<1>4. g.handle = Current(p) /\ g.written = gate[p].written
  BY <1>3, GateFields
<1>5. pn.slot = "grib" /\ pn.refusing /\ pn.listed = c
  BY <1>1, <1>3 DEF PanelState
<1> HIDE DEF g
<1>6. panel' = [panel EXCEPT ![p] = pn] /\ page' = [page EXCEPT ![p] = page[p]]
  BY <1>1, <1>3 DEF PanelState
<1> HIDE DEF pn
<1>7. Means(host, reverts, gate[p], panel[p], page[p], toHost[p])
      /\ MailMeans(gate[p], panel[p], Tail(toHost[p]))
  BY <1>2, Taken
<1>8. Means(host, reverts, g, pn, page[p], Tail(toHost[p]))
  <2>1. PanelMeans(host, g, pn)
    BY <1>4, <1>5 DEF PanelMeans, Awaits, FileOf
  <2>2. Newest(host, reverts, g, pn)
    BY <1>1, <1>2, <1>4, <1>5 DEF Newest, FieldInv, MapBorn, Current
  <2>3. PageMeans(g, pn, page[p]) /\ MailMeans(g, pn, Tail(toHost[p]))
    BY <1>4, <1>5, <1>7 DEF PageMeans, MailMeans, Means, Awaits
  <2> QED BY <2>1, <2>2, <2>3 DEF Means
<1>9. SameFiles(host, host') /\ toHost' = [toHost EXCEPT ![p] = Tail(toHost[p])]
  BY <1>2, LeasesOnly DEF Consume
<1>10. pn.slot # None /\ gate' = [gate EXCEPT ![p] = g] /\ UNCHANGED reverts
  BY <1>1, <1>2, <1>3, <1>5
<1> QED BY <1>6, <1>8, <1>9, <1>10, HandlerMeans

\* A slice panel finds nothing to draw, and keeps what it has.
LEMMA FindNoVariableMeans ==
  ASSUME FieldInv, NEW p \in Panels, IsOpen(p), FindNoVariable(p)
  PROVE  Meaning'
<1> DEFINE g == Outdate(Heard(gate[p]))
           wanted == Wanted(p)
           pn == [panel[p] EXCEPT !.refusing = TRUE, !.lost = wanted]
<1>1. /\ Arrived(p) /\ Consume(p) /\ UNCHANGED <<reverts, host, page>>
      /\ panel[p].slot # "grib" /\ gate' = [gate EXCEPT ![p] = Outdate(Heard(@))]
      /\ panel' = [panel EXCEPT ![p].refusing = TRUE, ![p].lost = wanted]
  BY DEF FindNoVariable, docVars
<1>2. /\ gate[p] \in GateState(Handles) /\ gate[p].handle \in Handle
      /\ Heard(gate[p]) \in GateState(Handles) /\ Heard(gate[p]).written = gate[p].written
      /\ Heard(gate[p]).handle = gate[p].handle
      /\ panel[p] \in PanelState /\ panel[p].slot # None
      /\ panel \in [Panels -> PanelState] /\ page \in [Panels -> PageState]
  BY CurrentTyped, GateTyped, GateFields DEF FieldInv, IsOpen, IInv, PanelTyped
<1>3. /\ g.handle = gate[p].handle /\ g.written = gate[p].written
      /\ g.handle # None => g.outdated
  BY <1>2, GateTyped, GateFields
<1> HIDE DEF g, wanted
<1>4. /\ pn.slot = panel[p].slot /\ pn.listed = panel[p].listed
      /\ pn.shown = panel[p].shown /\ pn.name = panel[p].name
  BY <1>2 DEF PanelState
<1>5. /\ panel' = [panel EXCEPT ![p] = pn] /\ page' = [page EXCEPT ![p] = page[p]]
      /\ gate' = [gate EXCEPT ![p] = g]
  BY <1>1, <1>2 DEF PanelState, g
<1> HIDE DEF pn
<1>6. Means(host, reverts, gate[p], panel[p], page[p], toHost[p])
      /\ MailMeans(gate[p], panel[p], Tail(toHost[p]))
  BY <1>1, Taken
<1>7. Means(host, reverts, g, panel[p], page[p], Tail(toHost[p]))
  BY <1>3, <1>6 DEF Means, PanelMeans, Newest, PageMeans, MailMeans
<1>8. Means(host, reverts, g, pn, page[p], Tail(toHost[p]))
  BY <1>1, <1>4, <1>7, SameMeaning
<1>9. SameFiles(host, host') /\ toHost' = [toHost EXCEPT ![p] = Tail(toHost[p])]
  BY <1>1 DEF SameFiles, Consume
<1> QED BY <1>1, <1>2, <1>4, <1>5, <1>8, <1>9, HandlerMeans

-----------------------------------------------------------------------------
(* The theorems about panels                                               *)

\* A CSV export's dialogs change no number.
LEMMA ExportMeans ==
  ASSUME FieldInv, CsvExport
  PROVE  Meaning'
<1>1. PICK x \in Exports : \/ \E next \in {"confirm", "save"} : PickCsvFormat(x, next)
                           \/ ConfirmLargeCsv(x) \/ SaveCsv(x) \/ CancelExport(x)
  BY DEF CsvExport
<1>2. UNCHANGED <<reverts, panelVars>>
  BY <1>1 DEF PickCsvFormat, ConfirmLargeCsv, SaveCsv, CancelExport, docVars
<1>3. host' = host \/ \E l : host' = [host EXCEPT !.leases = l]
  BY <1>1 DEF PickCsvFormat, ConfirmLargeCsv, SaveCsv, CancelExport, EndExport
<1>4. SameFiles(host, host')
  BY <1>3, LeasesOnly DEF SameFiles
<1> QED BY <1>2, <1>4, QuietMeans DEF panelVars

\* Every step keeps what the numbers mean.
LEMMA NextMeans == FieldInv /\ [Next]_vars => Meaning'
<1> SUFFICES ASSUME FieldInv, [Next]_vars PROVE Meaning'
  OBVIOUS
<1>1. CASE Document
  <2>1. ASSUME NEW c \in FileContents, OpenDocument(c) \/ StartRevert(c) PROVE Meaning'
    BY <2>1, ElsewhereMeans DEF OpenDocument, StartRevert
  <2>2. ASSUME NEW e \in Editors, ResolveEditor(e) PROVE Meaning'
    BY <2>2, ResolveEditorMeans
  <2>3. ASSUME NEW e \in Editors, CloseEditor(e) PROVE Meaning'
    BY <2>3, CloseEditorMeans
  <2>4. ASSUME NEW r \in reading, FinishRevert(r) PROVE Meaning'
    BY <2>4, FinishRevertMeans
  <2> QED BY <1>1, <2>1, <2>2, <2>3, <2>4 DEF Document
<1>2. CASE EditorPage
  <2>1. ASSUME NEW e \in Editors, DropRow(e) \/ \E i : AskRow(e, i) PROVE Meaning'
    BY <2>1, ElsewhereMeans DEF AskRow, DropRow, docVars
  <2>2. ASSUME NEW e \in Editors, NEW p \in Panels, OpenRow(e, p) PROVE Meaning'
    BY <2>2, OpenRowMeans
  <2> QED BY <1>2, <2>1, <2>2 DEF EditorPage
<1>3. CASE RenderPanel
  <2>1. ASSUME NEW p \in Panels, NEW c \in StoreContents, OpenStore(p, c) PROVE Meaning'
    BY <2>1, OpenStoreMeans
  <2>2. ASSUME NEW p \in Panels, ClosePanel(p) PROVE Meaning'
    BY <2>2, ClosePanelMeans
  <2>3. ASSUME NEW p \in Panels, IsOpen(p), Load(p) \/ Request(p) PROVE Meaning'
    <3>1. \E i, type : LoadPage(p, i) \/ AskRender(p, i) \/ AskOther(p, type, i) \/ AskPick(p, i)
      BY <2>3 DEF Load, Request, AskExport
    <3> QED BY <2>3, <3>1, AskMeans
  <2>4. ASSUME NEW p \in Panels, IsOpen(p), HandleRequest(p) PROVE Meaning'
    BY <2>4, DropRequestMeans, AnswerMeans, PickMeans, FindMessageMeans, OfferMessagesMeans,
       MoveSliceMeans, FindNoVariableMeans DEF HandleRequest
  <2>5. ASSUME NEW p \in Panels, ReceiveReply(p) \/ HidePage(p) \/ ShowPage(p) PROVE Meaning'
    BY <2>5, PageOnlyMeans
  <2> QED BY <1>3, <2>1, <2>2, <2>3, <2>4, <2>5 DEF RenderPanel
<1>4. CASE ImportColorTable
  BY <1>4, ImportColorTableMeans
<1>5. CASE CsvExport
  BY <1>5, ExportMeans
<1>6. CASE UNCHANGED vars
  BY <1>6, ElsewhereMeans DEF vars, panelVars
<1> QED BY <1>1, <1>2, <1>3, <1>4, <1>5, <1>6 DEF Next

\* No panel is open at first, and no entry is kept.
LEMMA InitMeans == Init => Meaning
<1> SUFFICES ASSUME Init PROVE Meaning
  OBVIOUS
<1>1. DocSlots \subseteq Slots
  BY DEF Slots, DocSlots
<1> QED BY <1>1 DEF Init, Meaning, MapBorn, PanelsMean, IsOpen, ClosedPanel

\* The numbers mean what they meant in every state.
LEMMA FieldInvariance == Spec => []FieldInv
<1>1. Init => FieldInv
  BY InitInvariant, InitMeans DEF FieldInv, Meaning
<1>2. FieldInv /\ [Next]_vars => FieldInv'
  <2> SUFFICES ASSUME FieldInv, [Next]_vars PROVE FieldInv'
    OBVIOUS
  <2>1. IInv' /\ Meaning'
    BY NextInvariant, NextMeans DEF FieldInv
  <2> QED BY <2>1 DEF FieldInv, Meaning
<1> QED BY <1>1, <1>2, PTL DEF Spec

\* A panel draws the field it headed, at the number that field has in the file
\* its gate holds (provider.ts:1044-1052, 1878-1881).
THEOREM PanelsKeepTheirFields == Spec => []PanelKeepsItsField
<1>1. FieldInv => PanelKeepsItsField
  BY DEF FieldInv, PanelsMean, Means, PanelMeans, Awaits, PanelKeepsItsField, FileOf
<1> QED BY <1>1, FieldInvariance, PTL

\* What a request about to be read is read from.
LEMMA ReadsMeans ==
  ASSUME FieldInv, NEW p \in Panels, Reads(p)
  PROVE  /\ Reader(p) # None /\ GateAfter(p).handle = Reader(p) /\ ~GateAfter(p).outdated
         /\ Means(host, reverts, GateAfter(p), PanelAfter(p), page[p], Tail(toHost[p]))
         /\ Listing[panel[p].listed] = Listing[FileOf(Reader(p))]
         /\ ~Awaits(panel[p])
         /\ At(panel[p].listed, panel[p].shown) = panel[p].name
         /\ Listing[Ask(p).of] = Listing[panel[p].listed]
<1>1. /\ IsOpen(p) /\ Arrived(p) /\ Served(p) /\ ~Refuses(p) /\ Reader(p) # None
      /\ Ask(p).type # "pickMessage" /\ Ask(p).page = gate[p].written
  BY DEF Reads, Served, Dropped
<1>2. GateAfter(p).handle = Reader(p) /\ ~GateAfter(p).outdated
  BY <1>1 DEF Reader, HandleOf
<1>3. Means(host, reverts, GateAfter(p), PanelAfter(p), page[p], Tail(toHost[p]))
  BY <1>1, ServedMeans
<1>4. ~Awaits(panel[p])
  BY <1>1 DEF Refuses, Awaits
<1>5. /\ Means(host, reverts, gate[p], panel[p], page[p], toHost[p])
      /\ Ask(p) = toHost[p][1] /\ 1 \in 1..Len(toHost[p])
  BY <1>1, Taken
<1>6. Listing[PanelAfter(p).listed] = Listing[panel[p].listed]
  <2>1. panel[p] \in PanelState
    BY DEF FieldInv, IInv, PanelTyped
  <2>2. CASE PanelMoves(p)
    <3>1. Listing[panel[p].listed] = Listing[FileOf(Current(p))]
      BY <1>1, <2>2 DEF Served, SameFile
    <3>2. PanelAfter(p).listed = FileOf(Current(p))
      BY <2>1, <2>2 DEF PanelAfter, PanelState
    <3> QED BY <3>1, <3>2
  <2>3. CASE ~PanelMoves(p)
    BY <2>3 DEF PanelAfter
  <2> QED BY <2>2, <2>3
<1>7. Listing[panel[p].listed] = Listing[FileOf(Reader(p))]
  BY <1>1, <1>2, <1>3, <1>6 DEF Means, PanelMeans, FileOf
<1>8. At(panel[p].listed, panel[p].shown) = panel[p].name
  BY <1>4, <1>5 DEF Means, PanelMeans
<1>9. Listing[Ask(p).of] = Listing[panel[p].listed]
  BY <1>1, <1>4, <1>5 DEF Means, MailMeans
<1> QED BY <1>1, <1>2, <1>3, <1>4, <1>7, <1>8, <1>9

\* What is read is the field the panel heads.
LEMMA ReadsItsField ==
  ASSUME FieldInv, NEW p \in Panels, Reads(p)
  PROVE  /\ ReadField(p).field = ReadField(p).heading
         /\ ReadField(p).named = At(Ask(p).of, Ask(p).index)
BY ReadsMeans DEF ReadField, At

\* A request, however old, is drawn from the field the panel names, and its own
\* number is read where it means what it meant on the page that sent it
\* (provider.ts:2356-2365).
THEOREM NumbersKeepTheirMeaning == Spec => []NumbersMeanWhatThePageMeant
<1>1. FieldInv => NumbersMeanWhatThePageMeant
  BY ReadsItsField DEF NumbersMeanWhatThePageMeant
<1> QED BY <1>1, FieldInvariance, PTL

\* Nothing is read from a file that was reverted, nor from another handle than
\* the document's own (provider.ts:1578-1586).
THEOREM RevertedFilesAreNotRead == Spec => []NothingReadFromARevertedFile
<1>1. FieldInv => NothingReadFromARevertedFile
  <2> SUFFICES ASSUME FieldInv, NEW p \in Panels, Reads(p), panel[p].slot \in DocSlots
               PROVE  /\ host.born[Reader(p)] = reverts
                      /\ Current(p) # None => Reader(p) = Current(p)
    BY DEF NothingReadFromARevertedFile
  <2>1. /\ Reader(p) # None /\ GateAfter(p).handle = Reader(p) /\ ~GateAfter(p).outdated
        /\ Means(host, reverts, GateAfter(p), PanelAfter(p), page[p], Tail(toHost[p]))
    BY ReadsMeans
  <2>2. IsOpen(p)
    BY DEF Reads
  <2>3. PanelAfter(p).slot = panel[p].slot
    BY <2>2, ServedSound DEF FieldInv
  <2>4. host.born[Reader(p)] = reverts
    BY <2>1, <2>3 DEF Means, Newest
  <2>5. Current(p) # None => Reader(p) = Current(p)
    <3>0. /\ gate[p] \in GateState(Handles) /\ Current(p) \in Handle
          /\ Heard(gate[p]) \in GateState(Handles) /\ Heard(gate[p]).handle = gate[p].handle
      BY <2>2, CurrentTyped, GateTyped DEF FieldInv
    <3>1. CASE PanelMoves(p)
      <4>1. GateAfter(p) = Kept(Heard(gate[p]), Current(p))
        BY <3>1 DEF GateAfter
      <4>2. \A g \in GateState(Handles), h \in Handle : Kept(g, h).handle = h
        BY GateFields
      <4>3. GateAfter(p).handle = Current(p)
        BY <3>0, <4>1, <4>2
      <4> QED BY <2>1, <4>3
    <3>2. CASE ~PanelMoves(p)
      <4>1. Disposed(Heard(gate[p])).handle = None
        BY <3>0, GateTyped
      <4>2. GateAfter(p).handle \in {None, gate[p].handle}
        BY <3>0, <3>2, <4>1 DEF GateAfter, Admitted
      <4> QED BY <2>1, <3>2, <4>2 DEF PanelMoves, Moves
    <3> QED BY <3>1, <3>2
  <2> QED BY <2>4, <2>5
<1> QED BY <1>1, FieldInvariance, PTL

-----------------------------------------------------------------------------
(* Steps that leave the document's entries as they are                     *)

\* The document has the entries it had, and no file is changed.
EntriesKept(hs, hs2) ==
  FilesKept(hs, hs2) /\ \A s \in DocSlots : hs2.map[s] = hs.map[s]

\* A step of a panel, or of its page, changes no entry of the document.
LEMMA PanelKeepsEntries ==
  ASSUME FieldInv, RenderPanel
  PROVE  EntriesKept(host, host') /\ UNCHANGED <<docVars, editorVars>>
<1>0. /\ "zarr" \in Slots /\ "zarr" \notin DocSlots /\ host \in HostState
      /\ DocSlots \subseteq Slots /\ host.map \in [Slots -> Handle]
      /\ gate \in [Panels -> GateState(Handles)]
  BY DEF FieldInv, IInv, Sound, Slots, DocSlots, HostState, PanelTyped
<1>1. SameFiles(host, host') => EntriesKept(host, host')
  BY DEF SameFiles, EntriesKept, FilesKept
<1>2. ASSUME NEW p \in Panels, NEW c \in StoreContents, OpenStore(p, c)
      PROVE  EntriesKept(host, host') /\ UNCHANGED <<docVars, editorVars>>
  <2> DEFINE hs == OpenInto(host, "zarr", c, reverts)
  <2>1. host.opened < MaxHandles /\ UNCHANGED <<docVars, editorVars>>
    BY <1>2 DEF OpenStore
  <2>2. /\ FilesKept(host, hs) /\ hs.map = [host.map EXCEPT !["zarr"] = host.opened + 1]
    BY <1>0, <2>1, OpenIntoKeeps
  <2>3. CASE Listing[c] # <<>>
    <3>1. \E l : host' = [hs EXCEPT !.leases = l]
      BY <1>2, <2>3 DEF OpenStore, OpenPanel
    <3>2. hs \in HostState
      BY <1>0, <1>2, <2>1, OpenIntoSound, ContentsAssumption DEF FieldInv, IInv, Sound, DocTyped
    <3> HIDE DEF hs
    <3>3. SameFiles(hs, host')
      BY <3>1, <3>2, LeasesKeepFiles
    <3> QED BY <1>0, <2>1, <2>2, <3>3 DEF SameFiles, EntriesKept, FilesKept
  <2>4. CASE Listing[c] = <<>>
    <3>1. host' = [host EXCEPT !.opened = hs.opened, !.file = hs.file, !.born = hs.born,
                               !.leases.closed = @ \cup {hs.opened}]
      BY <1>2, <2>4 DEF OpenStore
    <3> HIDE DEF hs
    <3>2. host'.map = host.map /\ host'.file = hs.file /\ host'.born = hs.born
      BY <1>0, <3>1 DEF HostState
    <3> QED BY <2>1, <2>2, <3>2 DEF EntriesKept, FilesKept
  <2> QED BY <2>3, <2>4
<1>3. ASSUME NEW p \in Panels, ClosePanel(p)
      PROVE  EntriesKept(host, host') /\ UNCHANGED <<docVars, editorVars>>
  <2> DEFINE ls == GateRelease(host.leases, gate[p], GateHolder(p))
             let_go == [host EXCEPT !.leases = ls]
  <2>1. host' \in {let_go, DropEntry(let_go, "zarr")} /\ UNCHANGED <<docVars, editorVars>>
    BY <1>3 DEF ClosePanel
  <2>2. ls \in LeaseState(Handles, Holders)
    BY <1>0, GateTyped, LeasesTyped, RefsAt DEF GateRelease, HostState
  <2> HIDE DEF ls
  <2>3. let_go \in HostState /\ SameFiles(host, let_go)
    BY <1>0, <2>2, NewLeases, LeasesKeepFiles
  <2> HIDE DEF let_go
  <2>4. /\ DropEntry(let_go, "zarr").file = let_go.file
        /\ DropEntry(let_go, "zarr").born = let_go.born
        /\ DropEntry(let_go, "zarr").map = [let_go.map EXCEPT !["zarr"] = None]
    BY <1>0, <2>3, DropEntryKeeps
  <2> QED BY <1>0, <2>1, <2>3, <2>4 DEF SameFiles, EntriesKept, FilesKept
<1>4. ASSUME NEW p \in Panels, Load(p) \/ Request(p) \/ ReceiveReply(p) \/ HidePage(p) \/ ShowPage(p)
      PROVE  UNCHANGED <<docVars, host, editorVars>>
  <2>1. Load(p) => UNCHANGED <<docVars, host, editorVars>>
    BY DEF Load, LoadPage, Post
  <2>2. Request(p) => UNCHANGED <<docVars, host, editorVars>>
    BY DEF Request, AskRender, AskOther, AskExport, AskPick, Post
  <2> QED BY <1>4, <2>1, <2>2 DEF ReceiveReply, HidePage, ShowPage
<1>5. ASSUME NEW p \in Panels, HandleRequest(p)
      PROVE  /\ host' = host \/ \E l : host' = [host EXCEPT !.leases = l]
             /\ UNCHANGED <<docVars, editorVars>>
  <2>1. CASE DropRequest(p) \/ FindNoVariable(p)
    BY <2>1 DEF DropRequest, FindNoVariable
  <2>2. CASE Paint(p) \/ RefuseAgain(p) \/ Probe(p) \/ \E x \in Exports : StartExport(p, x)
    BY <2>2 DEF Paint, RefuseAgain, Probe, StartExport, Serve, KeepLeases
  <2>3. CASE Pick(p)
    BY <2>3 DEF Pick, KeepLeases
  <2>4. CASE FindMessage(p) \/ OfferMessages(p) \/ MoveSlice(p)
    BY <2>4 DEF FindMessage, OfferMessages, MoveSlice, AdoptCurrent
  <2> QED BY <1>5, <2>1, <2>2, <2>3, <2>4 DEF HandleRequest
<1>6. ASSUME NEW p \in Panels, HandleRequest(p)
      PROVE  EntriesKept(host, host') /\ UNCHANGED <<docVars, editorVars>>
  <2>1. SameFiles(host, host')
    BY <1>5, <1>6, LeasesOnly DEF SameFiles
  <2> QED BY <1>1, <1>5, <1>6, <2>1
<1>7. SameFiles(host, host)
  BY DEF SameFiles
<1> QED BY <1>1, <1>2, <1>3, <1>4, <1>6, <1>7 DEF RenderPanel

\* A CSV export, an imported color table and a stutter change no entry either.
LEMMA ExportKeepsEntries ==
  ASSUME FieldInv, CsvExport \/ ImportColorTable \/ UNCHANGED vars
  PROVE  EntriesKept(host, host') /\ UNCHANGED <<docVars, editorVars>>
<1>1. CASE CsvExport
  <2>1. PICK x \in Exports : \/ \E next \in {"confirm", "save"} : PickCsvFormat(x, next)
                             \/ ConfirmLargeCsv(x) \/ SaveCsv(x) \/ CancelExport(x)
    BY <1>1 DEF CsvExport
  <2>2. UNCHANGED <<docVars, editorVars>>
    BY <2>1 DEF PickCsvFormat, ConfirmLargeCsv, SaveCsv, CancelExport
  <2>3. host' = host \/ \E l : host' = [host EXCEPT !.leases = l]
    BY <2>1 DEF PickCsvFormat, ConfirmLargeCsv, SaveCsv, CancelExport, EndExport
  <2>4. SameFiles(host, host')
    BY <2>3, LeasesOnly DEF SameFiles
  <2> QED BY <2>2, <2>4 DEF SameFiles, EntriesKept, FilesKept
<1>2. CASE ImportColorTable
  BY <1>2 DEF ImportColorTable, EntriesKept, FilesKept
<1>3. CASE UNCHANGED vars
  BY <1>3 DEF vars, EntriesKept, FilesKept, docVars, editorVars
<1> QED BY <1>1, <1>2, <1>3

\* Steps that ask for a row, or open or drop one, change no entry.
LEMMA RowKeepsEntries ==
  ASSUME FieldInv, EditorPage
  PROVE  EntriesKept(host, host') /\ UNCHANGED <<docVars, editor>>
<1>1. PICK e \in Editors : (\E i : AskRow(e, i)) \/ (\E p \in Panels : OpenRow(e, p)) \/ DropRow(e)
  BY DEF EditorPage
<1>2. UNCHANGED <<docVars, editor>>
  BY <1>1 DEF AskRow, OpenRow, DropRow, editorVars
<1>3. host' = host \/ \E l : host' = [host EXCEPT !.leases = l]
  BY <1>1 DEF AskRow, OpenRow, DropRow, OpenPanel
<1>4. SameFiles(host, host')
  BY <1>3, LeasesOnly DEF SameFiles
<1> QED BY <1>2, <1>4 DEF SameFiles, EntriesKept, FilesKept

-----------------------------------------------------------------------------
(* Editor pages and what is asked of them                                  *)

\* The content r is what its map's entry of hs was opened on.
Entered(hs, r) == hs.map[SlotOf[r]] # None /\ hs.file[hs.map[SlotOf[r]]] = r

\* A request on its way from the page of ed as it is now is about its rows.
AskOf(ed, ask) ==
  /\ ask.index \in DOMAIN Listing[ask.of]
  /\ ask.page <= ed.page
  /\ ask.page = ed.page => ask.of = ed.rows

RowsMean ==
  \A e \in Editors :
    /\ editor[e].rows # None => Entered(host, editor[e].rows)
    /\ ~editor[e].open => editor[e].rows = None /\ rowAsk[e] = None
    /\ rowAsk[e] # None => AskOf(editor[e], rowAsk[e])

\* Entries that are kept are of what they were opened on.
LEMMA EnteredKept ==
  ASSUME FieldInv, EntriesKept(host, host'), NEW r \in Listed, Entered(host, r)
  PROVE  Entered(host', r)
<1>1. SlotOf[r] \in DocSlots /\ SlotOf[r] \in Slots
  BY DEF Listed, Slots
<1>2. host.map[SlotOf[r]] \in 1..host.opened
  BY <1>1, ReferredIsOpen DEF Entered, FieldInv, IInv
<1> QED BY <1>1, <1>2 DEF Entered, EntriesKept, FilesKept

\* What a page lists is what an entry was opened on.
LEMMA RowsEntered ==
  ASSUME NEW hs, NEW c, Filed(hs), SlotOf[c] = "netcdf" => hs.map["netcdf"] # None,
         RowsOf(hs, c) # None
  PROVE  Entered(hs, RowsOf(hs, c))
<1>1. "grib" \in Slots /\ "netcdf" \in Slots
  BY DEF Slots, DocSlots
<1>2. CASE hs.map["grib"] # None
  <2>1. RowsOf(hs, c) = hs.file[hs.map["grib"]]
    BY <1>2 DEF RowsOf
  <2> QED BY <1>1, <1>2, <2>1 DEF Filed, Entered
<1>3. CASE hs.map["grib"] = None
  <2>1. SlotOf[c] = "netcdf" /\ RowsOf(hs, c) = hs.file[hs.map["netcdf"]]
    BY <1>3 DEF RowsOf
  <2> QED BY <1>1, <2>1 DEF Filed, Entered
<1> QED BY <1>2, <1>3

\* A page that is written has a number of its own.
LEMMA EditorFields ==
  ASSUME NEW ed \in EditorState, NEW hs, NEW c
  PROVE  /\ EditorWritten(ed, hs, c).open
         /\ EditorWritten(ed, hs, c).page = ed.page + 1
         /\ EditorWritten(ed, hs, c).rows = RowsOf(hs, c)
         /\ ed.page \in Nat
BY DEF EditorState, EditorWritten

\* A page written from c, once the document's entries are opened for it.
LEMMA OpenedRows ==
  ASSUME NEW hs, NEW g, NEW x, NEW c \in Contents, NEW at \in Nat,
         Sound(hs, g, x), NeedsOpen(hs, c) => hs.opened < MaxHandles,
         NEW hs2, hs2 = OpenOrReuse(hs, c, at), RowsOf(hs2, c) # None
  PROVE  Entered(hs2, RowsOf(hs2, c))
<1>1. Filed(hs2)
  BY OpenOrReuseSound DEF Sound
<1>2. SlotOf[c] = "netcdf" => hs2.map["netcdf"] # None
  BY OpenOrReuseKeeps DEF DocSlots
<1> QED BY <1>1, <1>2, RowsEntered

\* Entries that are reused or joined by another are of what they were.
LEMMA EnteredReused ==
  ASSUME NEW hs, NEW g, NEW x, NEW c \in Contents, NEW at \in Nat,
         Sound(hs, g, x), NeedsOpen(hs, c) => hs.opened < MaxHandles,
         NEW r \in Listed, Entered(hs, r)
  PROVE  Entered(OpenOrReuse(hs, c, at), r)
<1> DEFINE hs2 == OpenOrReuse(hs, c, at)
<1>1. /\ FilesKept(hs, hs2)
      /\ \A s \in Slots : hs.map[s] # None => hs2.map[s] = hs.map[s]
  BY OpenOrReuseKeeps
<1>2. SlotOf[r] \in Slots
  BY DEF Listed, Slots
<1>3. hs.map[SlotOf[r]] \in 1..hs.opened
  BY <1>2, ReferredIsOpen DEF Entered
<1> HIDE DEF hs2
<1>4. Entered(hs2, r)
  BY <1>1, <1>2, <1>3 DEF Entered, FilesKept
<1> QED BY <1>4 DEF hs2

\* The editors' types, as the invariant states them.
LEMMA EditorsTyped ==
  ASSUME FieldInv
  PROVE  /\ editor \in [Editors -> EditorState]
         /\ rowAsk \in [Editors -> [page : Nat, of : Listed, index : Nat] \cup {None}]
         /\ \A e \in Editors : editor[e].rows \in Listed \cup {None} /\ editor[e].page \in Nat
         /\ Sound(host, gate, export) /\ reverts \in Nat /\ bytes \in Content
         /\ \A r \in reading : r.read \in Contents
         /\ ClosedEditor \in EditorState /\ ClosedEditor.rows = None /\ ~ClosedEditor.open
BY DEF FieldInv, IInv, EditorTyped, EditorState, DocTyped, ClosedEditor

\* A step that changes no entry and no editor page leaves the rows as they are.
LEMMA RowsKept ==
  ASSUME FieldInv, RowsMean, EntriesKept(host, host'), UNCHANGED editor,
         \A e \in Editors : rowAsk'[e] \in {None, rowAsk[e]}
  PROVE  RowsMean'
BY EditorsTyped, EnteredKept DEF RowsMean

\* A row is asked for on the page as it is.
LEMMA AskRowMeans ==
  ASSUME FieldInv, RowsMean, NEW e \in Editors, NEW i, AskRow(e, i), EntriesKept(host, host')
  PROVE  RowsMean'
<1> DEFINE ask == [page |-> editor[e].page, of |-> editor[e].rows, index |-> i]
<1>1. /\ editor[e].open /\ i \in DOMAIN Listing[editor[e].rows]
      /\ UNCHANGED editor /\ rowAsk' = [rowAsk EXCEPT ![e] = ask]
  BY DEF AskRow
<1>2. editor[e].page <= editor[e].page
  BY EditorsTyped
<1>3. AskOf(editor[e], ask)
  BY <1>1, <1>2 DEF AskOf
<1>4. rowAsk'[e] = ask /\ \A d \in Editors : d # e => rowAsk'[d] = rowAsk[d]
  BY <1>1, EditorsTyped
<1> HIDE DEF ask
<1> QED BY <1>1, <1>3, <1>4, EditorsTyped, EnteredKept DEF RowsMean

\* An editor opens on the document, which keeps the entries it has.
LEMMA ResolveEditorRows ==
  ASSUME FieldInv, RowsMean, NEW e \in Editors, ResolveEditor(e)
  PROVE  RowsMean'
<1> DEFINE hs == OpenOrReuse(host, bytes, reverts)
           new == EditorWritten(ClosedEditor, hs, bytes)
<1>1. /\ ~editor[e].open /\ bytes \in Contents /\ host' = hs /\ UNCHANGED rowAsk
      /\ editor' = [editor EXCEPT ![e] = new]
      /\ NeedsOpen(host, bytes) => host.opened < MaxHandles
  BY EditorsTyped DEF ResolveEditor, Content
<1>2. /\ new.open /\ new.rows = RowsOf(hs, bytes)
      /\ new.rows # None => Entered(hs, new.rows)
  BY <1>1, EditorsTyped, EditorFields, OpenedRows
<1>3. ASSUME NEW r \in Listed, Entered(host, r)
      PROVE  Entered(hs, r)
  BY <1>1, <1>3, EditorsTyped, EnteredReused
<1> HIDE DEF hs, new
<1>4. editor'[e] = new /\ \A d \in Editors : d # e => editor'[d] = editor[d]
  BY <1>1, EditorsTyped
<1>5. rowAsk[e] = None
  BY <1>1 DEF RowsMean
<1> QED BY <1>1, <1>2, <1>3, <1>4, <1>5, EditorsTyped DEF RowsMean

\* With the last editor go the document's entries, and the rows that listed them.
LEMMA CloseEditorRows ==
  ASSUME FieldInv, RowsMean, NEW e \in Editors, CloseEditor(e)
  PROVE  RowsMean'
<1> DEFINE last == OpenEditors = {e}
<1>1. /\ editor' = [editor EXCEPT ![e] = ClosedEditor] /\ rowAsk' = [rowAsk EXCEPT ![e] = None]
      /\ host' = IF last THEN DropDocument(host) ELSE host
  BY DEF CloseEditor
<1>2. /\ editor'[e] = ClosedEditor /\ rowAsk'[e] = None
      /\ \A d \in Editors : d # e => editor'[d] = editor[d] /\ rowAsk'[d] = rowAsk[d]
  BY <1>1, EditorsTyped
<1>3. CASE last
  <2>1. \A d \in Editors : d # e => ~editor[d].open
    BY <1>3 DEF OpenEditors
  <2> QED BY <1>2, <2>1, EditorsTyped DEF RowsMean
<1>4. CASE ~last
  BY <1>1, <1>2, <1>4, EditorsTyped DEF RowsMean
<1> QED BY <1>3, <1>4

\* Every editor page is written again from the file that was read.
LEMMA FinishRevertRows ==
  ASSUME FieldInv, RowsMean, NEW r \in reading, FinishRevert(r)
  PROVE  RowsMean'
<1> DEFINE dropped == DropDocument(host)
           c == r.read
           hs == OpenOrReuse(dropped, c, reverts + 1)
<1>1. /\ UNCHANGED rowAsk
      /\ host' = IF OpenEditors = {} THEN dropped ELSE hs
      /\ (OpenEditors # {} /\ NeedsOpen(dropped, c)) => host.opened < MaxHandles
      /\ editor' = [e \in Editors |->
                      IF editor[e].open THEN EditorWritten(editor[e], host', c) ELSE editor[e]]
  BY DEF FinishRevert, ReloadDocument
<1>2. c \in Contents /\ reverts + 1 \in Nat /\ Sound(dropped, gate, export)
      /\ dropped.opened = host.opened
  BY EditorsTyped, DropDocumentSound
<1>3. ASSUME NEW e \in Editors, editor[e].open
      PROVE  /\ editor'[e].open /\ editor'[e].page = editor[e].page + 1
             /\ editor'[e].rows # None => Entered(host', editor'[e].rows)
  <2>1. OpenEditors # {}
    BY <1>3 DEF OpenEditors
  <2>2. host' = hs /\ (NeedsOpen(dropped, c) => dropped.opened < MaxHandles)
    BY <1>1, <1>2, <2>1
  <2>3. RowsOf(hs, c) # None => Entered(hs, RowsOf(hs, c))
    <3> HIDE DEF dropped
    <3> QED BY <1>2, <2>2, OpenedRows
  <2> HIDE DEF dropped, hs
  <2>4. editor'[e] = EditorWritten(editor[e], hs, c) /\ editor[e] \in EditorState
    BY <1>1, <1>3, <2>2, EditorsTyped
  <2> QED BY <2>2, <2>3, <2>4, EditorFields
<1> HIDE DEF dropped, hs, c
<1>4. ASSUME NEW e \in Editors, ~editor[e].open
      PROVE  editor'[e] = editor[e] /\ editor[e].rows = None /\ rowAsk[e] = None
  BY <1>1, <1>4 DEF RowsMean
<1>5. ASSUME NEW e \in Editors, editor[e].open, rowAsk[e] # None
      PROVE  AskOf(editor'[e], rowAsk[e])
  <2>1. rowAsk[e].page \in Nat /\ rowAsk[e].page <= editor[e].page /\ editor[e].page \in Nat
        /\ rowAsk[e].index \in DOMAIN Listing[rowAsk[e].of]
    BY <1>5, EditorsTyped DEF RowsMean, AskOf
  <2> QED BY <1>3, <1>5, <2>1 DEF AskOf
<1> QED BY <1>1, <1>3, <1>4, <1>5 DEF RowsMean

\* Every step keeps what an editor page's rows are, and what is asked of them.
LEMMA RowsNext == FieldInv /\ RowsMean /\ [Next]_vars => RowsMean'
<1> SUFFICES ASSUME FieldInv, RowsMean, [Next]_vars PROVE RowsMean'
  OBVIOUS
<1>1. CASE Document
  <2>1. ASSUME NEW c \in FileContents, OpenDocument(c) \/ StartRevert(c) PROVE RowsMean'
    BY <2>1, RowsKept DEF OpenDocument, StartRevert, editorVars, EntriesKept, FilesKept
  <2> QED BY <1>1, <2>1, ResolveEditorRows, CloseEditorRows, FinishRevertRows DEF Document
<1>2. CASE EditorPage
  <2>1. EntriesKept(host, host') /\ UNCHANGED editor
    BY <1>2, RowKeepsEntries
  <2>2. PICK e \in Editors : (\E i : AskRow(e, i)) \/ (\E p \in Panels : OpenRow(e, p)) \/ DropRow(e)
    BY <1>2 DEF EditorPage
  <2>3. CASE \E i : AskRow(e, i)
    BY <2>1, <2>3, AskRowMeans
  <2>4. CASE (\E p \in Panels : OpenRow(e, p)) \/ DropRow(e)
    <3>1. \A d \in Editors : rowAsk'[d] \in {None, rowAsk[d]}
      BY <2>4, EditorsTyped DEF OpenRow, DropRow
    <3> QED BY <2>1, <3>1, RowsKept
  <2> QED BY <2>2, <2>3, <2>4
<1>3. CASE RenderPanel
  BY <1>3, PanelKeepsEntries, RowsKept DEF editorVars
<1>4. CASE CsvExport \/ ImportColorTable \/ UNCHANGED vars
  BY <1>4, ExportKeepsEntries, RowsKept DEF editorVars
<1> QED BY <1>1, <1>2, <1>3, <1>4 DEF Next

RequestInv == FieldInv /\ RowsMean

\* The rows are of their entries in every state.
LEMMA RowsInvariance == Spec => []RequestInv
<1>1. Init => RowsMean
  BY DEF Init, RowsMean, ClosedEditor
<1>2. RequestInv /\ [Next]_vars => RowsMean'
  BY RowsNext DEF RequestInv
<1>3. FieldInv /\ RowsMean <=> RequestInv
  BY DEF RequestInv
<1> QED BY <1>1, <1>2, <1>3, FieldInvariance, PTL DEF Spec

\* A panel opened from an editor page shows the field of the row that was asked
\* for, whatever the file was reverted to since the page was written
\* (provider.ts:497-502).
THEOREM RowsAlwaysOpenTheirField == Spec => RowsOpenTheirField
<1>1. RequestInv /\ [Next]_vars =>
        [\A e \in Editors, p \in Panels :
           OpenRow(e, p) => panel'[p].name = At(rowAsk[e].of, rowAsk[e].index)]_vars
  <2> SUFFICES ASSUME RequestInv, NEW e \in Editors, NEW p \in Panels, OpenRow(e, p)
               PROVE  panel'[p].name = At(rowAsk[e].of, rowAsk[e].index)
    OBVIOUS
  <2> DEFINE s == RowSlot(e)
             h == host.map[s]
             i == rowAsk[e].index
             c == host.file[h]
             j == IF i \in DOMAIN Listing[c] THEN i ELSE 1
  <2>1. rowAsk[e] # None /\ RowOpens(e) /\ OpenPanel(p, s, host, h, j)
    BY DEF OpenRow, FileOf
  <2>2. /\ AskOf(editor[e], rowAsk[e]) /\ rowAsk[e].of # None
        /\ editor[e].rows # None => Entered(host, editor[e].rows)
    BY <2>1, EditorsTyped, NoneAssumption DEF RequestInv, RowsMean, Listed
  <2>3. c = rowAsk[e].of /\ i \in DOMAIN Listing[rowAsk[e].of]
    BY <2>1, <2>2 DEF RowOpens, AskOf, Entered, RowSlot
  <2> DEFINE pn == [ClosedPanel EXCEPT !.slot = s, !.listed = c, !.shown = j,
                                       !.name = Listing[c][j]]
  <2>4. panel' = [panel EXCEPT ![p] = pn] /\ panel \in [Panels -> PanelState]
    BY <2>1 DEF OpenPanel, RequestInv, FieldInv, IInv, PanelTyped
  <2>5. pn.name = Listing[c][j]
    BY DEF ClosedPanel
  <2> HIDE DEF pn, c
  <2> QED BY <2>3, <2>4, <2>5 DEF At
<1> QED BY <1>1, RowsInvariance, PTL DEF Spec, RowsOpenTheirField

-----------------------------------------------------------------------------
(* Editor pages and their document, where VS Code closes no editor during  *)
(* its revert                                                              *)

DocumentMeans ==
  /\ \A r \in reading : r.doc = docs
  /\ reading # {} => OpenEditors # {}
  /\ OpenEditors # {} => bytes # None
  /\ \A s \in DocSlots : host.map[s] # None => bytes # None /\ host.file[host.map[s]] = bytes
  /\ EditorShowsItsDocument

DocumentInv == ~RevertOutlivesEditor /\ FieldInv /\ DocumentMeans

\* A step that changes neither the document nor its entries.
LEMMA DocumentKept ==
  ASSUME FieldInv, DocumentMeans, EntriesKept(host, host'), UNCHANGED <<docVars, editor>>
  PROVE  DocumentMeans'
<1>1. \A s \in DocSlots : host.map[s] # None => host.map[s] \in 1..host.opened
  BY ReferredIsOpen DEF FieldInv, IInv, Slots
<1> QED BY <1>1 DEF DocumentMeans, EntriesKept, FilesKept, OpenEditors, EditorShowsItsDocument,
                    docVars

\* A page written from c, where every entry is of c, lists c.
LEMMA RowsOfTheBytes ==
  ASSUME NEW hs, NEW c, SlotOf[c] \in DocSlots, hs.map[SlotOf[c]] # None,
         \A s \in DocSlots : hs.map[s] # None => hs.file[hs.map[s]] = c
  PROVE  RowsOf(hs, c) = c
<1>1. DocSlots = {"grib", "netcdf"}
  BY DEF DocSlots
<1>2. CASE hs.map["grib"] # None
  BY <1>1, <1>2 DEF RowsOf
<1>3. CASE hs.map["grib"] = None
  BY <1>1, <1>3 DEF RowsOf
<1> QED BY <1>2, <1>3

\* What opening for a page written from c leaves, where every entry is of c.
LEMMA EntriesOfTheBytes ==
  ASSUME NEW hs, NEW g, NEW x, NEW c \in Contents, NEW at \in Nat,
         Sound(hs, g, x), NeedsOpen(hs, c) => hs.opened < MaxHandles,
         \A s \in DocSlots : hs.map[s] # None => hs.file[hs.map[s]] = c
  PROVE  LET hs2 == OpenOrReuse(hs, c, at) IN
         /\ \A s \in DocSlots : hs2.map[s] # None => hs2.file[hs2.map[s]] = c
         /\ SlotOf[c] \in DocSlots => RowsOf(hs2, c) = c
<1> DEFINE hs2 == OpenOrReuse(hs, c, at)
<1>1. /\ FilesKept(hs, hs2)
      /\ \A s \in Slots : hs.map[s] # None => hs2.map[s] = hs.map[s]
      /\ \A s \in Slots : hs.map[s] = None /\ hs2.map[s] # None => hs2.file[hs2.map[s]] = c
      /\ SlotOf[c] \in DocSlots => hs2.map[SlotOf[c]] # None
  BY OpenOrReuseKeeps
<1>2. /\ \A s \in Slots : hs.map[s] # None => hs.map[s] \in 1..hs.opened
      /\ DocSlots \subseteq Slots
  BY ReferredIsOpen DEF Slots
<1> HIDE DEF hs2
<1>3. \A s \in DocSlots : hs2.map[s] # None => hs2.file[hs2.map[s]] = c
  BY <1>1, <1>2 DEF FilesKept
<1>4. SlotOf[c] \in DocSlots => RowsOf(hs2, c) = c
  BY <1>1, <1>3, RowsOfTheBytes
<1> QED BY <1>3, <1>4 DEF hs2

\* A document that is opened has no editor, and no entry from the one before.
LEMMA OpenDocumentShows ==
  ASSUME DocumentInv, NEW c \in FileContents, OpenDocument(c)
  PROVE  DocumentMeans'
<1>1. /\ bytes = None /\ bytes' = c /\ UNCHANGED <<reading, host, editor>>
  BY DEF OpenDocument, editorVars
<1>2. OpenEditors = {} /\ reading = {} /\ \A s \in DocSlots : host.map[s] = None
  BY <1>1 DEF DocumentInv, DocumentMeans
<1>3. \A e \in Editors : ~editor[e].open
  BY <1>2 DEF OpenEditors
<1> QED BY <1>1, <1>2, <1>3 DEF DocumentMeans, OpenEditors, EditorShowsItsDocument

\* A revert starts on an editor's document.
LEMMA StartRevertShows ==
  ASSUME DocumentInv, NEW c \in FileContents, StartRevert(c)
  PROVE  DocumentMeans'
BY DEF StartRevert, editorVars, DocumentInv, DocumentMeans, OpenEditors, EditorShowsItsDocument

\* An editor opens on the document's bytes, as its entries did.
LEMMA ResolveEditorShows ==
  ASSUME DocumentInv, NEW e \in Editors, ResolveEditor(e)
  PROVE  DocumentMeans'
<1> DEFINE hs == OpenOrReuse(host, bytes, reverts)
           new == EditorWritten(ClosedEditor, hs, bytes)
<1>1. /\ bytes # None /\ bytes \in Contents /\ host' = hs
      /\ UNCHANGED <<docs, bytes, reading>>
      /\ editor' = [editor EXCEPT ![e] = new]
      /\ NeedsOpen(host, bytes) => host.opened < MaxHandles
      /\ FieldInv /\ DocumentMeans
  BY EditorsTyped DEF ResolveEditor, Content, docVars, DocumentInv
<1>2. /\ \A s \in DocSlots : hs.map[s] # None => hs.file[hs.map[s]] = bytes
      /\ SlotOf[bytes] \in DocSlots => RowsOf(hs, bytes) = bytes
  <2>1. \A s \in DocSlots : host.map[s] # None => host.file[host.map[s]] = bytes
    BY <1>1 DEF DocumentMeans
  <2> QED BY <1>1, <2>1, EditorsTyped, EntriesOfTheBytes
<1>3. new.open /\ new.rows = RowsOf(hs, bytes)
  BY <1>1, EditorsTyped, EditorFields
<1> HIDE DEF hs, new
<1>4. editor'[e] = new /\ \A d \in Editors : d # e => editor'[d] = editor[d]
  BY <1>1, EditorsTyped
<1>5. OpenEditors' # {}
  BY <1>3, <1>4 DEF OpenEditors
<1> QED BY <1>1, <1>2, <1>3, <1>4, <1>5 DEF DocumentMeans, EditorShowsItsDocument

\* The last editor closes with its document, once no revert is waited on.
LEMMA CloseEditorShows ==
  ASSUME DocumentInv, NEW e \in Editors, CloseEditor(e)
  PROVE  DocumentMeans'
<1> DEFINE last == OpenEditors = {e}
<1>1. /\ editor[e].open /\ (~last \/ \A r \in reading : r.doc # docs)
      /\ editor' = [editor EXCEPT ![e] = ClosedEditor]
      /\ bytes' = IF last THEN None ELSE bytes
      /\ host' = IF last THEN DropDocument(host) ELSE host
      /\ UNCHANGED <<docs, reading>> /\ FieldInv /\ DocumentMeans
  BY DEF CloseEditor, DocumentInv
<1>2. /\ editor'[e] = ClosedEditor /\ ~ClosedEditor.open
      /\ \A d \in Editors : d # e => editor'[d] = editor[d]
  BY <1>1, EditorsTyped
<1>3. OpenEditors' = OpenEditors \ {e}
  BY <1>2 DEF OpenEditors
<1>4. CASE last
  <2>1. reading = {}
    BY <1>1, <1>4 DEF DocumentMeans
  <2>2. \A s \in DocSlots : host'.map[s] = None
    BY <1>1, <1>4, EditorsTyped, DropDocumentKeeps
  <2>3. OpenEditors' = {} /\ \A d \in Editors : ~editor'[d].open
    BY <1>3, <1>4 DEF OpenEditors
  <2> QED BY <1>1, <2>1, <2>2, <2>3 DEF DocumentMeans, EditorShowsItsDocument
<1>5. CASE ~last
  <2>1. e \in OpenEditors /\ OpenEditors # {} /\ OpenEditors' # {}
    BY <1>1, <1>3, <1>5 DEF OpenEditors
  <2> QED BY <1>1, <1>2, <1>5, <2>1 DEF DocumentMeans, EditorShowsItsDocument
<1> QED BY <1>4, <1>5

\* A revert ends on the document it started on, and every page is written from
\* what it read.
LEMMA FinishRevertShows ==
  ASSUME DocumentInv, NEW r \in reading, FinishRevert(r)
  PROVE  DocumentMeans'
<1> DEFINE dropped == DropDocument(host)
           c == r.read
           hs == OpenOrReuse(dropped, c, reverts + 1)
<1>1. FieldInv /\ DocumentMeans /\ OpenEditors # {} /\ bytes # None /\ r.doc = docs
  BY DEF DocumentInv, DocumentMeans
<1>2. /\ host' = hs /\ (NeedsOpen(dropped, c) => host.opened < MaxHandles)
      /\ reading' = reading \ {r} /\ bytes' = c /\ UNCHANGED docs
      /\ editor' = [e \in Editors |->
                      IF editor[e].open THEN EditorWritten(editor[e], hs, c) ELSE editor[e]]
  BY <1>1 DEF FinishRevert, ReloadDocument
<1>3. c \in Contents /\ reverts + 1 \in Nat /\ Sound(dropped, gate, export)
      /\ dropped.opened = host.opened /\ (\A s \in DocSlots : dropped.map[s] = None)
  BY <1>1, EditorsTyped, DropDocumentSound, DropDocumentKeeps
<1>4. /\ \A s \in DocSlots : hs.map[s] # None => hs.file[hs.map[s]] = c
      /\ SlotOf[c] \in DocSlots => RowsOf(hs, c) = c
  <2> HIDE DEF dropped
  <2> QED BY <1>2, <1>3, EntriesOfTheBytes
<1> HIDE DEF dropped, hs, c
<1>5. ASSUME NEW e \in Editors
      PROVE  /\ editor'[e].open <=> editor[e].open
             /\ editor[e].open => editor'[e].rows = RowsOf(hs, c)
  BY <1>1, <1>2, EditorsTyped, EditorFields
<1>6. OpenEditors' = OpenEditors
  BY <1>5 DEF OpenEditors
<1>7. c # None
  BY <1>3, NoneAssumption
<1> QED BY <1>1, <1>2, <1>4, <1>5, <1>6, <1>7 DEF DocumentMeans, EditorShowsItsDocument

\* Every editor page lists its document's own content, if it opens at all and no
\* editor is closed while VS Code reverts it (provider.ts:516-518).
THEOREM EditorsShowTheirDocument == Spec /\ ~RevertOutlivesEditor => []EditorShowsItsDocument
<1>1. Init => DocumentMeans
  <2>1. DocSlots \subseteq Slots
    BY DEF Slots
  <2> QED BY <2>1 DEF Init, DocumentMeans, OpenEditors, EditorShowsItsDocument, ClosedEditor
<1>2. DocumentInv /\ [Next]_vars => DocumentMeans'
  <2> SUFFICES ASSUME DocumentInv, [Next]_vars PROVE DocumentMeans'
    OBVIOUS
  <2>0. FieldInv /\ DocumentMeans
    BY DEF DocumentInv
  <2>1. CASE Document
    BY <2>1, OpenDocumentShows, StartRevertShows, ResolveEditorShows, CloseEditorShows,
       FinishRevertShows DEF Document
  <2>2. CASE EditorPage
    BY <2>0, <2>2, RowKeepsEntries, DocumentKept
  <2>3. CASE RenderPanel
    BY <2>0, <2>3, PanelKeepsEntries, DocumentKept DEF editorVars
  <2>4. CASE CsvExport \/ ImportColorTable \/ UNCHANGED vars
    BY <2>0, <2>4, ExportKeepsEntries, DocumentKept DEF editorVars
  <2> QED BY <2>1, <2>2, <2>3, <2>4 DEF Next
<1>3. DocumentInv <=> ~RevertOutlivesEditor /\ FieldInv /\ DocumentMeans
  BY DEF DocumentInv
<1>4. DocumentMeans => EditorShowsItsDocument
  BY DEF DocumentMeans
<1>5. ~RevertOutlivesEditor => (~RevertOutlivesEditor)'
  OBVIOUS
<1>6. Spec /\ ~RevertOutlivesEditor => []DocumentMeans
  BY <1>1, <1>2, <1>3, <1>5, FieldInvariance, PTL DEF Spec
<1> QED BY <1>4, <1>6, PTL

-----------------------------------------------------------------------------
(* CSV exports                                                             *)

\* An export's number is that of the field it was asked for, and once the field
\* is read it is that field.
ExportsMean ==
  \A x \in Exports :
    /\ export[x].stage = "format" => At(FileOf(export[x].handle), export[x].index) = export[x].asked
    /\ export[x].stage \in {"confirm", "save"} => export[x].csv = export[x].asked

\* No step changes the file of a handle.
LEMMA FilesAreKept ==
  ASSUME FieldInv, [Next]_vars
  PROVE  FilesKept(host, host')
<1>1. CASE Document
  <2>1. ASSUME NEW c \in FileContents, OpenDocument(c) \/ StartRevert(c)
        PROVE  FilesKept(host, host')
    BY <2>1 DEF OpenDocument, StartRevert, FilesKept
  <2>2. ASSUME NEW e \in Editors, ResolveEditor(e) PROVE FilesKept(host, host')
    <3>1. bytes \in Contents /\ host' = OpenOrReuse(host, bytes, reverts)
          /\ (NeedsOpen(host, bytes) => host.opened < MaxHandles)
      BY <2>2, EditorsTyped DEF ResolveEditor, Content
    <3> QED BY <3>1, EditorsTyped, OpenOrReuseKeeps
  <2>3. ASSUME NEW e \in Editors, CloseEditor(e) PROVE FilesKept(host, host')
    <3>1. host' \in {host, DropDocument(host)}
      BY <2>3 DEF CloseEditor
    <3> QED BY <3>1, EditorsTyped, DropDocumentKeeps DEF FilesKept
  <2>4. ASSUME NEW r \in reading, FinishRevert(r) PROVE FilesKept(host, host')
    <3> DEFINE dropped == DropDocument(host)
    <3>1. /\ host' = IF OpenEditors = {} THEN dropped
                     ELSE OpenOrReuse(dropped, r.read, reverts + 1)
          /\ (OpenEditors # {} /\ NeedsOpen(dropped, r.read)) => host.opened < MaxHandles
      BY <2>4 DEF FinishRevert, ReloadDocument
    <3>2. /\ r.read \in Contents /\ reverts + 1 \in Nat /\ Sound(dropped, gate, export)
          /\ dropped.opened = host.opened /\ FilesKept(host, dropped)
      BY EditorsTyped, DropDocumentSound, DropDocumentKeeps
    <3> HIDE DEF dropped
    <3>3. CASE OpenEditors # {}
      <4>1. FilesKept(dropped, host')
        BY <3>1, <3>2, <3>3, OpenOrReuseKeeps
      <4> QED BY <3>2, <4>1 DEF FilesKept
    <3> QED BY <3>1, <3>2, <3>3
  <2> QED BY <1>1, <2>1, <2>2, <2>3, <2>4 DEF Document
<1>2. CASE EditorPage
  BY <1>2, RowKeepsEntries DEF EntriesKept
<1>3. CASE RenderPanel
  BY <1>3, PanelKeepsEntries DEF EntriesKept
<1>4. CASE CsvExport \/ ImportColorTable \/ UNCHANGED vars
  BY <1>4, ExportKeepsEntries DEF EntriesKept
<1> QED BY <1>1, <1>2, <1>3, <1>4 DEF Next

\* The exports that a step leaves, ends or starts.
LEMMA ExportsTyped ==
  ASSUME FieldInv
  PROVE  /\ export \in [Exports -> ExportState]
         /\ \A x \in Exports : export[x].stage # "idle" => export[x].handle \in 1..host.opened
         /\ NoExport.stage = "idle"
<1>1. \A x \in Exports : export[x].handle # None => export[x].handle \in 1..host.opened
  BY ReferredIsOpen DEF FieldInv, IInv
<1> QED BY <1>1 DEF FieldInv, IInv, ExportTyped, NoExport

\* Every step keeps what an export is of.
LEMMA ExportsNext == FieldInv /\ ExportsMean /\ [Next]_vars => ExportsMean'
<1> SUFFICES ASSUME FieldInv, ExportsMean, [Next]_vars PROVE ExportsMean'
  OBVIOUS
<1>1. ASSUME NEW x \in Exports, export'[x] = export[x] \/ export'[x] = NoExport
      PROVE  /\ export'[x].stage = "format"
                  => At(FileOf(export[x].handle)', export'[x].index) = export'[x].asked
             /\ export'[x].stage = "format" => export'[x].handle = export[x].handle
             /\ export'[x].stage \in {"confirm", "save"} => export'[x].csv = export'[x].asked
  BY <1>1, ExportsTyped, FilesAreKept DEF ExportsMean, FilesKept, FileOf
<1>2. CASE \A x \in Exports : export'[x] = export[x] \/ export'[x] = NoExport
  BY <1>1, <1>2 DEF ExportsMean, FileOf
<1>3. ASSUME NEW x \in Exports, NEW p \in Panels, IsOpen(p), StartExport(p, x),
             ~UNCHANGED export
      PROVE  ExportsMean'
  <2> DEFINE new == [stage |-> "format", handle |-> Reader(p), slot |-> panel[p].slot,
                     index |-> ReadField(p).number, asked |-> ReadField(p).heading,
                     at |-> reverts, csv |-> None]
  <2>1. /\ Reads(p) /\ export' = [export EXCEPT ![x] = new]
        /\ host' = [host EXCEPT !.leases = Hold(LeasesAfter(p), Reader(p), ExportHolder(x))]
    BY <1>3 DEF StartExport, Serve, Reads, exportVars
  <2>2. ReadField(p).field = ReadField(p).heading
    BY <2>1, ReadsItsField
  <2>3. At(host.file[Reader(p)], ReadField(p).number) = ReadField(p).heading
    BY <2>2 DEF ReadField, FileOf
  <2>4. host'.file = host.file
    BY <2>1, LeasesOnly DEF SameFiles
  <2>5. export'[x] = new /\ \A y \in Exports : y # x => export'[y] = export[y]
    BY <2>1, ExportsTyped
  <2>6. /\ new.stage = "format" /\ new.handle = Reader(p) /\ new.index = ReadField(p).number
        /\ new.asked = ReadField(p).heading
    BY DEF new
  <2> HIDE DEF new
  <2> QED BY <1>1, <2>3, <2>4, <2>5, <2>6 DEF ExportsMean, FileOf
<1>4. ASSUME NEW x \in Exports, NEW next \in {"confirm", "save"}, PickCsvFormat(x, next),
             Unreverted(x)
      PROVE  ExportsMean'
  <2> DEFINE csv == At(FileOf(export[x].handle), export[x].index)
             new == [export[x] EXCEPT !.stage = next, !.csv = csv]
  <2>1. /\ export[x].stage = "format" /\ csv = export[x].asked /\ UNCHANGED host
        /\ export' = [export EXCEPT ![x].stage = next, ![x].csv = csv]
    BY <1>4 DEF PickCsvFormat, ExportsMean
  <2> HIDE DEF csv
  <2>2. export'[x] = new /\ \A y \in Exports : y # x => export'[y] = export[y]
    BY <2>1, ExportsTyped DEF ExportState
  <2>3. new.stage = next /\ new.csv = csv /\ new.asked = export[x].asked
    BY ExportsTyped DEF ExportState
  <2> HIDE DEF new
  <2> QED BY <1>1, <2>1, <2>2, <2>3 DEF ExportsMean, FileOf
<1>5. ASSUME NEW x \in Exports, ConfirmLargeCsv(x), Unreverted(x)
      PROVE  ExportsMean'
  <2> DEFINE new == [export[x] EXCEPT !.stage = "save"]
  <2>1. /\ export[x].stage = "confirm" /\ export[x].csv = export[x].asked
        /\ export' = [export EXCEPT ![x].stage = "save"]
    BY <1>5 DEF ConfirmLargeCsv, ExportsMean
  <2>2. export'[x] = new /\ \A y \in Exports : y # x => export'[y] = export[y]
    BY <2>1, ExportsTyped DEF ExportState
  <2>3. new.stage = "save" /\ new.csv = export[x].csv /\ new.asked = export[x].asked
    BY ExportsTyped DEF ExportState
  <2> HIDE DEF new
  <2> QED BY <1>1, <2>1, <2>2, <2>3 DEF ExportsMean, FileOf
<1>6. ASSUME NEW x \in Exports, EndExport(x)
      PROVE  ExportsMean'
  <2>1. \A y \in Exports : export'[y] = export[y] \/ export'[y] = NoExport
    BY <1>6, ExportsTyped DEF EndExport
  <2> QED BY <1>2, <2>1
<1>7. CASE UNCHANGED export
  BY <1>2, <1>7
<1>8. CASE CsvExport
  BY <1>4, <1>5, <1>6, <1>8 DEF CsvExport, PickCsvFormat, ConfirmLargeCsv, SaveCsv, CancelExport
<1>9. CASE RenderPanel /\ ~UNCHANGED export
  <2>1. PICK p \in Panels : \/ \E c \in StoreContents : OpenStore(p, c)
                            \/ IsOpen(p) /\ (ClosePanel(p) \/ Load(p) \/ Request(p))
                            \/ IsOpen(p) /\ HandleRequest(p)
                            \/ IsOpen(p) /\ (ReceiveReply(p) \/ HidePage(p) \/ ShowPage(p))
    BY <1>9 DEF RenderPanel
  <2>2. CASE (\E c \in StoreContents : OpenStore(p, c)) \/ ClosePanel(p)
    BY <1>7, <2>2 DEF OpenStore, ClosePanel, exportVars
  <2>3. CASE Load(p) \/ Request(p)
    BY <1>7, <2>3 DEF Load, Request, LoadPage, AskRender, AskOther, AskExport, AskPick, Post,
                      exportVars
  <2>4. CASE IsOpen(p) /\ HandleRequest(p)
    <3>1. \/ UNCHANGED export
          \/ \E x \in Exports : StartExport(p, x)
      BY <2>4 DEF HandleRequest, DropRequest, Paint, RefuseAgain, Probe, Pick, FindMessage,
                  OfferMessages, MoveSlice, AdoptCurrent, FindNoVariable, exportVars
    <3> QED BY <1>3, <1>9, <2>4, <3>1
  <2>5. CASE ReceiveReply(p) \/ HidePage(p) \/ ShowPage(p)
    BY <1>7, <2>5 DEF ReceiveReply, HidePage, ShowPage, exportVars
  <2> QED BY <2>1, <2>2, <2>3, <2>4, <2>5
<1>10. CASE Document
  BY <1>7, <1>10 DEF Document, OpenDocument, StartRevert, ResolveEditor, CloseEditor, FinishRevert,
                     exportVars
<1>11. CASE EditorPage
  BY <1>7, <1>11 DEF EditorPage, AskRow, OpenRow, DropRow, exportVars
<1>12. CASE ImportColorTable \/ UNCHANGED vars
  BY <1>7, <1>12 DEF ImportColorTable, vars, exportVars
<1> QED BY <1>7, <1>8, <1>9, <1>10, <1>11, <1>12 DEF Next

\* Only SaveCsv writes a file.
LEMMA OnlySaveCsvWrites ==
  ASSUME [Next]_vars, saved' # saved
  PROVE  \E x \in Exports : SaveCsv(x)
<1>1. ASSUME Document PROVE UNCHANGED saved
  BY <1>1 DEF Document, OpenDocument, StartRevert, ResolveEditor, CloseEditor, FinishRevert,
              exportVars
<1>2. ASSUME EditorPage PROVE UNCHANGED saved
  BY <1>2 DEF EditorPage, AskRow, OpenRow, DropRow, exportVars
<1>3. ASSUME RenderPanel PROVE UNCHANGED saved
  <2>1. PICK p \in Panels : \/ \E c \in StoreContents : OpenStore(p, c)
                            \/ ClosePanel(p) \/ Load(p) \/ Request(p)
                            \/ HandleRequest(p)
                            \/ ReceiveReply(p) \/ HidePage(p) \/ ShowPage(p)
    BY <1>3 DEF RenderPanel
  <2>2. CASE (\E c \in StoreContents : OpenStore(p, c)) \/ ClosePanel(p)
    BY <2>2 DEF OpenStore, ClosePanel, exportVars
  <2>3. CASE Load(p) \/ Request(p)
    BY <2>3 DEF Load, Request, LoadPage, AskRender, AskOther, AskExport, AskPick, Post, exportVars
  <2>4. CASE HandleRequest(p)
    BY <2>4 DEF HandleRequest, DropRequest, Paint, RefuseAgain, Probe, Pick, FindMessage,
                StartExport, OfferMessages, MoveSlice, AdoptCurrent, FindNoVariable, exportVars
  <2>5. CASE ReceiveReply(p) \/ HidePage(p) \/ ShowPage(p)
    BY <2>5 DEF ReceiveReply, HidePage, ShowPage, exportVars
  <2> QED BY <2>1, <2>2, <2>3, <2>4, <2>5
<1>4. ASSUME ImportColorTable \/ UNCHANGED vars PROVE UNCHANGED saved
  BY <1>4 DEF ImportColorTable, vars, exportVars
<1> QED BY <1>1, <1>2, <1>3, <1>4 DEF Next, CsvExport, PickCsvFormat, ConfirmLargeCsv, CancelExport

ExportInv == FieldInv /\ ExportsMean

\* A CSV file holds the field that was asked for, and is not written once the
\* document was reverted (provider.ts:725-738).
THEOREM CsvFilesHoldTheFieldAsked == Spec => CsvHoldsTheFieldAsked
<1>1. Init => ExportsMean
  BY DEF Init, ExportsMean, NoExport
<1>2. Spec => []ExportInv
  <2>1. ExportInv <=> FieldInv /\ ExportsMean
    BY DEF ExportInv
  <2> QED BY <1>1, <2>1, ExportsNext, FieldInvariance, PTL DEF Spec
<1>3. ExportInv /\ [Next]_vars =>
        [saved' # saved =>
           saved'.field = saved'.asked /\ (saved'.slot # "zarr" => saved'.at = reverts)]_vars
  <2> SUFFICES ASSUME ExportInv, [Next]_vars, saved' # saved
               PROVE  saved'.field = saved'.asked /\ (saved'.slot # "zarr" => saved'.at = reverts)
    OBVIOUS
  <2>1. PICK x \in Exports : SaveCsv(x)
    BY OnlySaveCsvWrites
  <2>2. /\ Unreverted(x) /\ export[x].stage = "save"
        /\ saved' = [field |-> export[x].csv, asked |-> export[x].asked,
                     slot |-> export[x].slot, at |-> export[x].at]
    BY <2>1 DEF SaveCsv
  <2> QED BY <2>2 DEF ExportInv, ExportsMean, Unreverted
<1> QED BY <1>2, <1>3, PTL DEF Spec, CsvHoldsTheFieldAsked

-----------------------------------------------------------------------------
(* Answers to renders                                                      *)

\* Only its handler takes the first message of an open panel.
LEMMA OnlyHandlersTake ==
  ASSUME FieldInv, [Next]_vars, NEW p \in Panels, IsOpen(p), IsOpen(p)', Arrived(p),
         toHost'[p] = Tail(toHost[p])
  PROVE  HandleRequest(p)
<1>1. /\ toHost \in [Panels -> Seq(Message)] /\ toHost[p] \in Seq(Message) /\ toHost[p] # <<>>
      /\ Len(Tail(toHost[p])) = Len(toHost[p]) - 1 /\ Len(toHost[p]) \in Nat
  BY DEF FieldInv, IInv, PanelTyped, Arrived
<1>2. ~UNCHANGED toHost /\ toHost'[p] # toHost[p]
  <2>1. toHost'[p] # toHost[p]
    <3> SUFFICES ASSUME toHost'[p] = toHost[p] PROVE FALSE
      OBVIOUS
    <3>1. Tail(toHost[p]) = toHost[p]
      OBVIOUS
    <3>2. Len(toHost[p]) = Len(toHost[p]) - 1
      BY <1>1, <3>1
    <3> QED BY <1>1, <3>2
  <2> QED BY <2>1
<1>3. ASSUME NEW q \in Panels, NEW m, toHost' = [toHost EXCEPT ![q] = Append(toHost[q], m)]
      PROVE  FALSE
  <2>1. q = p
    BY <1>1, <1>2, <1>3
  <2>2. toHost'[p] = Append(toHost[p], m)
    BY <1>1, <1>3, <2>1
  <2>3. toHost[p] \in Seq(Message \cup {m}) /\ m \in Message \cup {m}
    BY <1>1
  <2>4. Len(Append(toHost[p], m)) = Len(toHost[p]) + 1
    BY <2>3
  <2>5. Tail(toHost[p]) = Append(toHost[p], m)
    BY <2>2
  <2>6. Len(toHost[p]) - 1 = Len(toHost[p]) + 1
    BY <1>1, <2>4, <2>5
  <2> QED BY <1>1, <2>6
<1>4. ASSUME NEW q \in Panels, Load(q) \/ Request(q)
      PROVE  FALSE
  <2>1. \E m : toHost' = [toHost EXCEPT ![q] = Append(toHost[q], m)]
    BY <1>4 DEF Load, Request, LoadPage, AskRender, AskOther, AskExport, AskPick, Post
  <2> QED BY <1>3, <2>1
<1>5. ASSUME NEW q \in Panels, ClosePanel(q)
      PROVE  FALSE
  <2>1. toHost' = [toHost EXCEPT ![q] = <<>>] /\ panel' = [panel EXCEPT ![q] = ClosedPanel]
    BY <1>5 DEF ClosePanel
  <2>2. q = p
    BY <1>1, <1>2, <2>1
  <2>3. ~IsOpen(p)'
    BY <2>1, <2>2 DEF IsOpen, ClosedPanel, FieldInv, IInv, PanelTyped
  <2> QED BY <2>3
<1>6. ASSUME NEW q \in Panels, HandleRequest(q)
      PROVE  q = p
  <2>1. UNCHANGED toHost \/ \E m : toHost' = [toHost EXCEPT ![q] = m]
    BY <1>6 DEF HandleRequest, DropRequest, Paint, RefuseAgain, Probe, StartExport, Serve, Pick,
                FindMessage, OfferMessages, MoveSlice, AdoptCurrent, FindNoVariable, Consume
  <2> QED BY <1>1, <1>2, <2>1
<1>7. ASSUME NEW q \in Panels, \/ \E c \in StoreContents : OpenStore(q, c)
                               \/ ReceiveReply(q) \/ HidePage(q) \/ ShowPage(q)
      PROVE  UNCHANGED toHost
  BY <1>7 DEF OpenStore, OpenPanel, panelVars, ReceiveReply, HidePage, ShowPage
<1>8. RenderPanel => HandleRequest(p)
  BY <1>2, <1>4, <1>5, <1>6, <1>7 DEF RenderPanel
<1>9. ASSUME Document \/ EditorPage PROVE UNCHANGED toHost
  BY <1>9 DEF Document, OpenDocument, StartRevert, ResolveEditor, CloseEditor, FinishRevert,
              EditorPage, AskRow, OpenRow, OpenPanel, DropRow, panelVars
<1>10. ASSUME CsvExport \/ ImportColorTable \/ UNCHANGED vars PROVE UNCHANGED toHost
  BY <1>10 DEF CsvExport, PickCsvFormat, ConfirmLargeCsv, SaveCsv, CancelExport,
               ImportColorTable, vars, panelVars
<1> QED BY <1>2, <1>8, <1>9, <1>10 DEF Next

\* A reply lengthens the queue of replies.
LEMMA ReplyArrives ==
  ASSUME FieldInv, NEW p \in Panels, NEW r, r # NoReply, Reply(p, r)
  PROVE  Len(toPage'[p]) > Len(toPage[p])
<1>1. toPage \in [Panels -> Seq(Answer)] /\ toPage' = [toPage EXCEPT ![p] = Append(toPage[p], r)]
  BY DEF FieldInv, IInv, PanelTyped, Reply
<1>2. toPage'[p] = Append(toPage[p], r) /\ Len(toPage[p]) \in Nat
  BY <1>1
<1>3. Len(Append(toPage[p], r)) = Len(toPage[p]) + 1
  BY <1>1
<1> QED BY <1>2, <1>3

\* A render whose page is not written again is replied to.
LEMMA RenderReplied ==
  ASSUME FieldInv, NEW p \in Panels, IsOpen(p), Arrived(p), ~Dropped(gate[p], Ask(p)),
         IsRender(p), HandleRequest(p)
  PROVE  Len(toPage'[p]) > Len(toPage[p]) \/ gate'[p].written # gate[p].written
<1>0. Picture # NoReply /\ Gone # NoReply /\ \A c : Refusal(c) # NoReply
  BY DEF Picture, Gone, NoReply, Refusal
<1>1. CASE Paint(p) \/ RefuseAgain(p)
  <2>1. \E r : r # NoReply /\ Reply(p, r)
    BY <1>0, <1>1 DEF Paint, RefuseAgain, Serve
  <2> QED BY <2>1, ReplyArrives
<1>2. CASE OfferMessages(p) \/ FindNoVariable(p)
  <2>1. \E r : r # NoReply /\ Reply(p, r)
    BY <1>0, <1>2 DEF OfferMessages, FindNoVariable
  <2> QED BY <2>1, ReplyArrives
<1>3. CASE FindMessage(p) \/ MoveSlice(p)
  <2> DEFINE g == Rewritten(Heard(gate[p]), Current(p))
  <2>1. gate' = [gate EXCEPT ![p] = g]
    BY <1>3 DEF FindMessage, MoveSlice, AdoptCurrent
  <2>2. /\ gate \in [Panels -> GateState(Handles)] /\ gate[p] \in GateState(Handles)
        /\ Current(p) \in Handle /\ Heard(gate[p]) \in GateState(Handles)
        /\ Heard(gate[p]).written = gate[p].written /\ gate[p].written \in Nat
    BY CurrentTyped, GateTyped, GateFields DEF FieldInv, IInv, PanelTyped
  <2>3. g.written = gate[p].written + 1
    BY <2>2, GateFields
  <2>4. gate'[p] = g
    BY <2>1, <2>2
  <2> HIDE DEF g
  <2> QED BY <2>2, <2>3, <2>4
<1>4. ~(DropRequest(p) \/ Probe(p) \/ Pick(p) \/ \E x \in Exports : StartExport(p, x))
  BY DEF IsRender, DropRequest, Probe, Pick, StartExport
<1> QED BY <1>1, <1>2, <1>3, <1>4 DEF HandleRequest

\* No render is taken and forgotten: it is replied to, or the page it came from is
\* written again (provider.ts:2356-2405).
THEOREM EveryRenderIsAnswered == Spec => RendersAreAnswered
<1>1. FieldInv /\ [Next]_vars =>
        [\A p \in Panels :
           IsOpen(p) /\ IsOpen(p)' /\ Arrived(p) /\ toHost'[p] = Tail(toHost[p])
             /\ ~Dropped(gate[p], Ask(p)) /\ IsRender(p)
             => Len(toPage'[p]) > Len(toPage[p]) \/ gate'[p].written # gate[p].written]_vars
  BY OnlyHandlersTake, RenderReplied
<1> QED BY <1>1, FieldInvariance, PTL DEF Spec, RendersAreAnswered
=============================================================================
