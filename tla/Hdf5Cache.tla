----------------------------- MODULE Hdf5Cache ------------------------------
(***************************************************************************)
(* fieldglass-netcdf/src/hdf5/cache.rs: what one HDF5 reader remembers of  *)
(* the file it walks, shared by the threads that read through it.          *)
(*                                                                         *)
(* Every entry is keyed by an address in the file, so it answers for one   *)
(* file only: the first lookup binds the memo to its source's identity,    *)
(* and any other source is served without the memo.  Each field has a lock *)
(* of its own, and a miss is parsed with no lock held, so two threads may  *)
(* parse one entry at once: a lookup, a parse and a store are three steps. *)
(*                                                                         *)
(* What is parsed is a value per source and key, or Failed.  Chunk records *)
(* are parsed as a dataset reads its chunk index, by its shape, its chunks *)
(* and the kind of its index, but kept by the index alone.                 *)
(***************************************************************************)
EXTENDS ExpandedStore

CONSTANTS
  None,
  Failed,          \* a parse that refuses the bytes; never remembered
  Threads,
  Sources,         \* byte sources a call may be made with
  Identity,        \* source to ByteSource::identity(), None when it declines
  SlotKeys,        \* the root address, the B-tree K values, the child list
  HeaderKeys,      \* object headers, by offset
  RecordKeys,      \* chunk records, by the dataset that reads them and its index
  Indexes,         \* ChunkIndexKey: a chunk index's address and its dataset's rank
  IndexOf,         \* the index a dataset's chunk records are kept by
  ChunkKeys,       \* decompressed chunks, by ExpandedKey
  Values,
  Parsed,          \* source to key to what the bytes there hold
  HeaderBudget,    \* HEADER_BYTE_BUDGET
  MaxTicks         \* bound: uses of the chunk memo

Keys == SlotKeys \cup HeaderKeys \cup RecordKeys \cup ChunkKeys
Identities == {Identity[s] : s \in Sources} \ {None}

ASSUME KeysAssumption ==
  /\ SlotKeys \cap (HeaderKeys \cup RecordKeys \cup ChunkKeys) = {}
  /\ HeaderKeys \cap (RecordKeys \cup ChunkKeys) = {}
  /\ RecordKeys \cap ChunkKeys = {}
  /\ IndexOf \in [RecordKeys -> Indexes]
ASSUME ParsedAssumption ==
  /\ Parsed \in [Sources -> [Keys -> Values \cup {Failed}]]
  /\ Size \in [Values -> Nat]
  /\ Failed \notin Values /\ None \notin Values /\ None # Failed
ASSUME LimitsAssumption == HeaderBudget \in Nat /\ MaxTicks \in Nat
\* Sources with one identity hold the same bytes (core/src/bytes.rs, SourceIdentity).
ASSUME IdentityAssumption ==
  \A s, t \in Sources : Identity[s] # None /\ Identity[s] = Identity[t] => Parsed[s] = Parsed[t]

VARIABLES
  bound,      \* the identity the memo was populated against
  slots,      \* root, btree_k, children
  headers,    \* HeaderStore: each kept header and the thread that parsed it, and their bytes
  records,    \* chunks, by index
  expanded,   \* ExpandedStore
  call        \* what each thread is doing

memo == <<slots, headers, records, expanded>>
vars == <<bound, slots, headers, records, expanded, call>>

-----------------------------------------------------------------------------
(* A call: (source, key), then `stage` is what the thread does next.       *)

\* A kept object is an Arc: `arc` is the thread whose parse made it, which no
\* code reads.
Object(t, value) == [value |-> value, arc |-> t]
Nothing == Object(None, None)
Idle == [stage |-> "idle", source |-> None, key |-> None, built |-> None, answer |-> Nothing]

\* usable(): binds on first use.  A source that will not identify itself is
\* never served from the memo.
UsableWhen_Named(s) == Identity[s] # None
UsableWhen(s) == Identity[s] # None /\ (bound = None \/ bound = Identity[s])

Call(t, s, k) ==
  /\ call[t].stage = "idle"
  /\ bound' = IF bound = None THEN Identity[s] ELSE bound
  /\ call' = [call EXCEPT ![t] = [Idle EXCEPT !.stage = IF UsableWhen(s) THEN "lookup" ELSE "bare",
                                              !.source = s, !.key = k]]
  /\ UNCHANGED memo

Answer(t, object) == call' = [call EXCEPT ![t].stage = "done", ![t].answer = object]

Read(t) == Parsed[call[t].source][call[t].key]

\* Served without the memo: parsed, and not kept.
ReadBare(t) ==
  /\ call[t].stage = "bare"
  /\ Answer(t, Object(t, Read(t)))
  /\ UNCHANGED <<bound, memo>>

\* What the memo holds for key k, Nothing when it holds nothing.
HeldFor(k) ==
  CASE k \in SlotKeys -> slots[k]
    [] k \in HeaderKeys -> headers.by_offset[k]
    [] k \in RecordKeys -> records[IndexOf[k]]
    [] k \in ChunkKeys -> IF k \in KeptKeys(expanded) THEN Object(None, expanded.by_key[k].chunk)
                          ELSE Nothing

Lookup(t) ==
  LET k == call[t].key IN
  /\ call[t].stage = "lookup"
  /\ k \in ChunkKeys => expanded.tick < MaxTicks
  /\ expanded' = IF k \in ChunkKeys THEN Get(expanded, k) ELSE expanded
  /\ IF HeldFor(k) = Nothing THEN call' = [call EXCEPT ![t].stage = "build"]
     ELSE Answer(t, HeldFor(k))
  /\ UNCHANGED <<bound, slots, headers, records>>

\* The file is parsed, or the chunk inflated, with no lock held.  A failure is
\* answered and not kept.
Build_RemembersFailure(t) ==
  /\ call[t].stage = "build"
  /\ call' = [call EXCEPT ![t].stage = "store", ![t].built = Read(t)]
  /\ UNCHANGED <<bound, memo>>
Build(t) ==
  /\ call[t].stage = "build"
  /\ IF Read(t) = Failed THEN Answer(t, Object(t, Failed))
     ELSE call' = [call EXCEPT ![t].stage = "store", ![t].built = Read(t)]
  /\ UNCHANGED <<bound, memo>>

Built(t) == Object(t, call[t].built)

\* header(): the loser of a race adopts the winner's copy; past the budget the
\* header is answered and not kept.
StoreHeader_Overwrites(t) ==
  LET size == Size[call[t].built]
      fits == headers.bytes + size <= HeaderBudget
  IN /\ call[t].stage = "store" /\ call[t].key \in HeaderKeys
     /\ headers' = IF fits THEN [by_offset |-> [headers.by_offset EXCEPT ![call[t].key] = Built(t)],
                                 bytes |-> headers.bytes + size]
                   ELSE headers
     /\ Answer(t, Built(t))
     /\ UNCHANGED <<bound, slots, records, expanded>>
StoreHeader(t) ==
  LET held == headers.by_offset[call[t].key]
      size == Size[call[t].built]
      keeps == held = Nothing /\ headers.bytes + size <= HeaderBudget
  IN /\ call[t].stage = "store" /\ call[t].key \in HeaderKeys
     /\ headers' = IF keeps
                   THEN [by_offset |-> [headers.by_offset EXCEPT ![call[t].key] = Built(t)],
                         bytes |-> headers.bytes + size]
                   ELSE headers
     /\ Answer(t, IF held = Nothing THEN Built(t) ELSE held)
     /\ UNCHANGED <<bound, slots, records, expanded>>

\* root(), btree_k(), children(): the last to store wins.
StoreSlot(t) ==
  /\ call[t].stage = "store" /\ call[t].key \in SlotKeys
  /\ slots' = [slots EXCEPT ![call[t].key] = Built(t)]
  /\ Answer(t, Built(t))
  /\ UNCHANGED <<bound, headers, records, expanded>>

\* chunk_records(): kept for every dataset that names the index.
StoreRecords(t) ==
  /\ call[t].stage = "store" /\ call[t].key \in RecordKeys
  /\ records' = [records EXCEPT ![IndexOf[call[t].key]] = Built(t)]
  /\ Answer(t, Built(t))
  /\ UNCHANGED <<bound, slots, headers, expanded>>

\* keep_expanded_chunk()
KeepChunk(t) ==
  /\ call[t].stage = "store" /\ call[t].key \in ChunkKeys
  /\ expanded.tick < MaxTicks
  /\ expanded' = Keep(expanded, call[t].key, call[t].built)
  /\ Answer(t, Built(t))
  /\ UNCHANGED <<bound, slots, headers, records>>

Return(t) ==
  /\ call[t].stage = "done"
  /\ call' = [call EXCEPT ![t] = Idle]
  /\ UNCHANGED <<bound, memo>>

-----------------------------------------------------------------------------
Init ==
  /\ bound = None
  /\ slots = [k \in SlotKeys |-> Nothing]
  /\ headers = [by_offset |-> [k \in HeaderKeys |-> Nothing], bytes |-> 0]
  /\ records = [i \in Indexes |-> Nothing]
  /\ expanded = EmptyStore
  /\ call = [t \in Threads |-> Idle]

Next ==
  \E t \in Threads :
    \/ \E s \in Sources, k \in Keys : Call(t, s, k)
    \/ ReadBare(t) \/ Lookup(t) \/ Build(t)
    \/ StoreHeader(t) \/ StoreSlot(t) \/ StoreRecords(t) \/ KeepChunk(t)
    \/ Return(t)

Spec == Init /\ [][Next]_vars

-----------------------------------------------------------------------------
ObjectType == [value : Values, arc : Threads] \cup {Nothing}
CallType ==
  [stage : {"idle", "bare", "lookup", "build", "store", "done"}, source : Sources \cup {None},
   key : Keys \cup {None}, built : Values \cup {None},
   answer : [value : Values \cup {Failed, None}, arc : Threads \cup {None}]]

\* Every variable keeps its type.
TypeOK ==
  /\ bound \in Identities \cup {None}
  /\ slots \in [SlotKeys -> ObjectType]
  /\ headers \in [by_offset : [HeaderKeys -> ObjectType], bytes : Nat]
  /\ records \in [Indexes -> ObjectType]
  /\ expanded.tick \in Nat
  /\ Uses(expanded) \subseteq 1..expanded.tick /\ KeptKeys(expanded) \subseteq ChunkKeys
  /\ call \in [Threads -> CallType]

\* A hit and a miss answer the same (cache.rs:25-27).
HitsAreMisses ==
  \A t \in Threads : call[t].stage = "done" => call[t].answer.value = Read(t)

\* It is so wherever datasets that name one chunk index, at one rank, read the
\* same records of it, as those of a file any HDF5 writer made do: each has an
\* index of its own.
DatasetsAgree ==
  \A s \in Sources, j, k \in RecordKeys :
    IndexOf[j] = IndexOf[k] => Parsed[s][j] = Parsed[s][k]

\* A call is answered what its own source holds, whichever threads, sources and
\* evictions came between: at that key, or, of chunk records given through the
\* memo, as some dataset reads them that names the same index (cache.rs:18-23,
\* 198-201).
AnswersAreTheSources ==
  \A t \in Threads : call[t].stage = "done" =>
    LET s == call[t].source
        k == call[t].key
    IN \/ call[t].answer.value = Read(t)
       \/ /\ k \in RecordKeys /\ Identity[s] # None /\ Identity[s] = bound
          /\ \E j \in RecordKeys :
               IndexOf[j] = IndexOf[k] /\ call[t].answer.value = Parsed[s][j]
          /\ call[t].answer.value # Failed

KeptHeaders(store) == {k \in HeaderKeys : store.by_offset[k] # Nothing}
HeaderSizes(store) == [k \in KeptHeaders(store) |-> Size[store.by_offset[k].value]]

\* The header memo's bytes are those of the headers it keeps, within its budget,
\* also when two threads parse one header at once (cache.rs:168-171).
HeaderBytesAccounted ==
  /\ headers.bytes = SumFunctionOnSet(HeaderSizes(headers), KeptHeaders(headers))
  /\ headers.bytes <= HeaderBudget

\* Threads that raced to one header share one copy of it: an answer given through
\* the memo is the object the memo keeps, when it keeps one (cache.rs:273-277).
HeadersAreShared ==
  \A t \in Threads :
    LET held == headers.by_offset[call[t].key] IN
    call[t].stage = "done" /\ call[t].key \in HeaderKeys /\ Identity[call[t].source] = bound
      /\ bound # None /\ call[t].answer.value # Failed
      => held = Nothing \/ call[t].answer = held

\* The chunk memo's use order and its chunks agree, and it stays within its
\* limits, through every order of hits, replacements and evictions
\* (cache.rs:99-106).
ChunkMemoCoherent == UseOrderIsTheKeptKeys(expanded) /\ ChargedWithinLimits(expanded)

\* A chunk goes only when it was used before every chunk that stays, and no more
\* go than the limits ask (cache.rs:133-135, 150-158).
EvictsLeastRecentlyUsed == [][EvictsOldest(expanded, expanded')]_vars
=============================================================================
