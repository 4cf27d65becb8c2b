# A verification of the Rust core: tables, scans, files, schemas

The repository is a data library with a Rust core (`src/rust`) and Python and
Node views of it. What keeps state, shares it, or is hard to get right is an
Iceberg table format written from scratch (`iceberg/`), memory-mapped files and
the handles over them (`local/`, `io/`, `ipc/`, `parquet/`), folder writes
(`io/partition.rs`), and the algorithms every read and write goes through: the
cast of an array to a field, the comparison of two schemas and their
normalization for an engine (`field/`, `datatype/`). This directory models that
part in TLA+, checks it with TLC on small instances, and proves what matters
most with TLAPS for every value of the constants.

Paths below are relative to `src/rust/src/`.

## 1. Inventory

| Component | State | Operations | Interacts with | Model |
|---|---|---|---|---|
| commit protocol (`iceberg/table.rs`) | numbered metadata documents, `version-hint.text`, each `Table`'s document and number | open, create, open_or_create, append, overwrite_where, merge_where, compact, tags and branches, expire, all through `commit_document` | storage; other writers, only through storage | `IcebergCommit`, `SerialTable` |
| metadata document (`iceberg/metadata.rs`, `snapshot.rs`) | snapshots, references, log, current snapshot; schemas, specs, properties | set_current_snapshot, reference operations, expire_snapshots_older_than, remove_snapshots | is what a commit's change closure changes | `TableMetadata` (references and expiry), `TableDocument` with `SchemaDocuments` (everything else, as JSON) |
| schema evolution (`iceberg/evolve.rs`) | a document's schemas and field ids, an update's operations | add, rename, drop, promote, make optional, validation; append and scan by name | documents, casts, statistics | `SchemaEvolution` |
| manifests and lists (`iceberg/manifest.rs`, `avro.rs`) | containers by location | encode and decode integers, values, containers, manifests and lists of every format version; what a commit writes, carries and rewrites of them | written by commits, read by plans | `AvroContainers`, `Manifests`, `ManifestCommits` |
| scan planning, statistics (`iceberg/scan.rs`, `statistics.rs`) | none beyond a plan | plan, manifest_matches, file_matches, statistics_allow, apply_filters, KeyBounds | read by scan, overwrite, merge, compact | `ScanPruning` |
| row rewriting (`iceberg/table.rs`, `io/merge.rs`) | manifests, data files | append, overwrite_where, merge_where, compact, change of spec | uses planning; ends in a commit | `IcebergScan`, `RecordMerge` |
| scan execution (`iceberg/scan.rs`) | worker threads, one channel, reorder buffer | next, drop; spawn_next, read_part | consumes a plan | `ScanPlan`, `OrderedScan`, `ParallelScan` |
| local files (`local/file.rs`) | a shared mapping, the logical size each handle remembers | open, pread, pwrite, truncate, reserve, flush, close, drop | operating system; other handles on the file | `LocalFile`, `ByteStore` |
| local paths (`local/path.rs`, `local/folder.rs`) | a resolution kept for good | every byte operation, through what the path resolved to | a file or a folder at the location | `PathHandle` |
| coded handles (`io/coding.rs`) | the decoded value, a dirty flag | pread, pwrite, truncate, flush, close | the wrapped handle, which may fail | `Coded`, `ByteStore` |
| in-memory buffer (`io/buffer.rs`, `io/mod.rs`) | bytes, a declared type, a cached inferred one | byte operations, transfers, compress_into, decompress_into | other handles | `Buffers` |
| ipc and parquet media (`ipc/`, `parquet/`) | the handle they own, options, a cached schema or footer | open, schema, write, options, and the byte operations mirrored | a buffer | `MediaHandle` |
| folders (`io/partition.rs`) | a tree of leaves | write_folder, folder_reader | leaves, the keyed merge | `FolderWrites`, `RecordMerge` |
| field and its metadata (`field/mod.rs`, `metadata.rs`, `field/arrow.rs`) | properties, children, a cached Arrow projection | setters, views, partition marks, import and export | every schema | `Fields`, `FieldMetadata` |
| array casts (`field/cast/plan.rs`, `arrow/value.rs`) | none beyond a plan | bind, cast, fill, and reading values out of an array | every write and read | `ArrayCast` |
| schema comparison (`field/diff.rs`) | a stack of work, pending lines | a lazy iterator | two schemas, sharing storage or not | `SchemaDiff` |
| engine compatibility (`datatype/compatibility.rs`) | none | normalize a schema for one of four engines | schemas | `SchemaCompat` |
| locations (`uri.rs`, `uri/pattern.rs`) | a URI, URL or URN: scheme, authority, path, query, fragment | read from text, JSON or a path and written back; set a name or a part of it; join, walk up; globs and partitions read off | every handle, listing and table is found by one | `Uris`, `Locations` |
| catalog (`iceberg/catalog.rs`) | a root | locate, create, open | tables | not modelled: section 8 |
| data files' encodings, text formats, scalar types, enums | none, or an immutable value | conversions | | not modelled: section 8 |

What is hard here, and what a test does not reach: the storage offers no
compare-and-swap, so two writers may write the same document number; a commit
is three writes and may stop between any two; a beaten commit is re-applied to
a document it was not planned on; planning may skip data only if nothing is
lost; worker threads answer in any order, panic, and outlive the reader; a
mapping outlives the length of its file; a publish may fail half-way; what was
inferred or cached outlives the bytes it was read from; a folder write is many
writes, and any of them may fail; a column has an id, but files and batches are
matched by name; an array holds slots nobody sees, and a cast meets them; a
location is spelt in many ways, edited in parts and read again; a document or
manifest read back is edited, carried and written by a later version.
`PROJECT.json` lists these hazards, each at its line, with the properties that
cover it.

What makes each component correct:

- **commit protocol**: a published snapshot does to the parent it names exactly
  what its operation says, no row is live twice, sequence numbers grow along
  the chain, what a document names it retains, a commit answered as failed is
  nowhere, every call returns; with serialized writers, a table that changes by
  whole commits.
- **metadata document**: every name resolves, `main` and the current snapshot
  agree, a fast-forward loses no history, expiry keeps what surviving
  references ask for and nothing else; saved and opened again it is the same
  document, whatever version and writer it came from, and no edit gives a number
  or a name a second meaning.
- **manifests**: read back as written, and each file keeps the number of the
  commit that added it, whoever carries it.
- **schema evolution**: an id names one column for good, and a file shows each
  column its own cells or none, whatever was renamed, dropped or added since.
- **planning and rewriting**: a filtered scan is the full scan, filtered; a
  merge is the upsert of the whole table; compaction moves rows only.
- **scan execution**: the plan's answers, once, in order; bounded concurrency;
  no wait for a worker that is gone; no thread that stays.
- **files, paths, coded handles**: a byte store, whatever is mapped, padded,
  cached or not yet written.
- **buffers and media**: what is inferred is inferred from the bytes there are;
  what is declared is what was applied; no cache outlives what it was read from.
- **folders**: the rows one unpartitioned file would hold, however split; a
  write that fails leaves whole leaves.
- **locations**: text, JSON and platform path read back as the location; a part
  that is set is read and the others stay; a glob selects the same whichever way
  it is asked; partitions read off a file are those its folder spells.
- **fields, casts, comparisons**: a cache equals what it caches; a cast is the
  cast of the values, not of the slots; every difference once; a normalized
  schema needs no second pass.

## 2. Modules

| Module | What it is | Code |
|---|---|---|
| `IcebergCommit` | the commit protocol, with faults | `Table::create` .. `commit_metadata`, `find_metadata` |
| `SerialTable` | abstract: commits take effect one at a time, for good | the promise of the module's documentation |
| `IcebergCommitProofs` | the inductive invariant and six properties; the refinement `IcebergCommit` => `SerialTable`, and its lookups | |
| `TableMetadata` | snapshots, references and expiry of one document | `metadata.rs`, `snapshot.rs` |
| `TableMetadataProofs` | four properties of it, with what the walk along parents computes | |
| `Options` | absence, failure, loops that stop at the first failure; keys of a JSON object | |
| `SchemaDocuments` | Iceberg's JSON of types, schemas and partition specs, read and written, pure | `types.rs`, `schema.rs`, `partition.rs` |
| `TableDocument` | a document edited, validated, saved as JSON and opened again (EXTENDS `SchemaDocuments`) | `metadata.rs` |
| `AvroContainers` | the container manifests are kept in, pure | `avro.rs` |
| `Manifests` | manifest and list records by format version (EXTENDS both) | `manifest.rs` |
| `ManifestCommits` | one table's commits as they write, carry and rewrite manifests | `table.rs`, `manifest.rs`, `scan.rs` |
| `ScanPruning` | what may be skipped: summaries, tuples, bounds, key bounds | `scan.rs`, `statistics.rs`, `KeyBounds` |
| `IcebergScanProofs` | scans, writes and merges are exact (EXTENDS `RecordMergeProofs`) | |
| `RecordMerge` | the keyed fold of batches into stored rows | `io/merge.rs` |
| `RecordMergeProofs` | what the fold keeps and replaces; sequences: induction, concatenation, choosing, counting | |
| `IcebergScan` | rows under append, overwrite, merge, compact (EXTENDS `ScanPruning`, `RecordMerge`) | `table.rs`, `io/merge.rs` |
| `ScanPlan`, `OrderedScan` | the plan; abstract: its answers in order | `scan.rs` |
| `ParallelScan` | workers, channel, reorder buffer | `ParallelScan` in `scan.rs` |
| `ParallelScanProofs` | the inductive invariant, four properties, the refinement | |
| `ArrayCast` | arrays of every layout, their values, and the cast to a field | `field/cast/plan.rs`, `arrow/value.rs` |
| `SchemaEvolution` | updates of a table's columns, appends and scans by name (EXTENDS `ArrayCast`) | `evolve.rs`, `metadata.rs`, `table.rs`, `scan.rs` |
| `ByteStore` | abstract: contents, and what is published | `io/mod.rs` |
| `LocalFile` | memory-mapped file handles | `local/file.rs` |
| `PathHandle` | one of them behind a path (EXTENDS `LocalFile`) | `local/path.rs`, `io/roles.rs` |
| `FileProofs` | sharing, the refinement of `ByteStore`, and both for a path | |
| `Coded` | a coded handle over a failing one | `io/coding.rs`, `io/mod.rs` |
| `Buffers` | buffers and the transfers between them | `io/buffer.rs`, `io/mod.rs`, `enums/` |
| `MediaHandle` | an IPC or Parquet media over a buffer (EXTENDS `Buffers`) | `ipc/mod.rs`, `parquet/mod.rs` |
| `HandleProofs` | the same for coded handles and media, and of `MCHandles`, which runs them all | |
| `FolderWrites` | a folder as a table (EXTENDS `RecordMerge`) | `io/partition.rs` |
| `FolderProofs` | its two properties (EXTENDS `RecordMergeProofs`) | |
| `Uris` | texts, names and paths; how a location is read and written, pure | `uri.rs` |
| `Locations` | a location in a caller's hands; globs, listings and partitions (EXTENDS `Uris`) | `uri.rs`, `uri/pattern.rs`, `io/mod.rs`, `local/folder.rs` |
| `FieldMetadata` | keys, values and protocol views, pure | `metadata.rs` |
| `Fields` | a field's life (EXTENDS `FieldMetadata`) | `field/mod.rs`, `field/arrow.rs` |
| `SchemaDiff` | the comparison as a machine | `field/diff.rs` |
| `SchemaCompat` | normalization, one engine after another | `datatype/compatibility.rs` |
| `MC*` | constants and symmetry for TLC; `MCTables`, `MCHandles`, `MCSchemas`, `MCSchemaEvolution` and `MCCommitHistory` put unrelated machines side by side in one run, `MCTableFiles` holds the documents and manifests of the last | |

### How state and actions correspond

`IcebergCommit`. `docs` is the metadata directory: a version's contents is a
set of at most one document, empty for a file that was truncated and never
written. `hint` is `version-hint.text` (0: absent or empty). `handle[w]` is a
`Table`, `txn[w]` the local variables of a call, `snap[i]` the manifest list
commit *i* wrote, keyed by snapshot id; a file is the set of commits whose rows
it holds, so that a compacted file is a union. One action is one storage
access: `ReadHint`; the read of the document the hint names, with the decision
it leads to (`Load`, `Probe`, `Clear`, `Beaten`, `Conflict`, `LookupFails`);
the change closure with the write of the next document (`Publish`, `Rejected`);
`PointHint`. Data files and manifests have fresh names, nobody else reads them
before the document, and they are part of the step that uses them. An
*overwrite* keeps any subset of the live files, which stands for whatever
filters or key bounds exclude: which subset is right is `IcebergScan`'s
question. An *expire* drops any unreferenced snapshots, which stands for the
retention rules: which ones is `TableMetadata`'s. Sequence numbers are those of
format version 2 and later. `ReadFault`, `DocumentFault`, `HintFault` and
`Crash` are a storage error at each place and the death of a process;
`write_all_bytes` truncates first, so a failed write may leave an empty file.

`TableMetadata`. Each action is one change closure on the document. `time` is
the snapshot's timestamp: the clock, or any earlier moment, since a writer's
clock may lag. `expired` remembers the cutoff of the last step when it was an
expiry.

`TableDocument`. `document` is what a handle holds, `kept` what a refused commit
restores, `stored` the JSON last written. An edit is one change closure, with the
validation that ends it; `Save` writes and `Open` reads the newest document. A
JSON object is a function from its keys, so that an absent key and a null are
different things. `unmarked` remembers the schemas added without partition
marks. Other writers' documents, of every version and with what the format
allows and this code never writes, are initial states (`Foreign`).

`AvroContainers`, `Manifests`. Encoded bytes are a sequence of integers and runs
of bytes; the bytes of one integer are a definition of their own. A record is
read by the schema its container carries, which is the one of the version that
wrote it. `ManifestCommits` is one table's commits in the order they took:
`live` remembers of each file the number of the commit that added it.

`ScanPruning` / `IcebergScan`. A row has a column `part` a spec may partition
on by identity and a column `key`; the default spec is `identity` or `none`,
and files of both live side by side. Rows also carry where they came from, so
that two equal rows are two rows. Bounds are sets with at most one element,
empty when nothing was recorded. `Unbounded` values are those a Parquet footer
leaves out of its minimum and maximum: NaN. `asked` remembers the last write
and the rows it found. The text of partition values is the value: that a
string could equal the marker for null is left out (section 7).

`ParallelScan`. `worker[f]` is where the thread of file *f* stands (about to
decode, to send, to send the end mark, gone), `channel` the one mpsc channel in
order, `batches` and `done` the reader's `PartState`s. A worker's step is one
decode or one send; a reader's step one turn of the loop of `next`. A file's
script says whether it opens, how many answers it has and whether its decode
panics.

`LocalFile`. `disk` is the file's bytes with the padding remap leaves behind,
`file[h]` the handle's `Mapped`: the size it remembers and how much it has
mapped. An access through a mapping past the end of the file either reads zeros
and stores nothing, or is a SIGBUS: both outcomes are in every such step.
`touched` and `shared` remember whether anybody wrote and whether two handles
were in use at once, `cut` whether a handle cut the file below what it had opened
(section 4), until nobody has it open.

`PathHandle`. `Leaf` is the handle behind the path: each of its operations first
resolves (`slot`), by what is at the location or, with nothing there, by what the
operation assumes. `settled` remembers which of the two it was; `folder` is
whether a folder is at the location now, which others may change.

`Coded`. `plain` holds the decoded value when it is materialized, `dirty` the
flag, `stored` the wrapped handle's bytes: none, an encoding, or a torn one.
`size()` makes 0 of any failure, so `ReadAll` may answer nothing and
`AppendBytes` begin at 0 (`SizeFails`), and where the wrapped handle does the same
this one takes the value for empty (`Decodes`). `value` is what the caller has
made of it; `spoilt` remembers a publish that failed, `misled` a call that went by
an empty value where there was another, both until the handle is dropped.

`Buffers`. Bytes are a base value under a sequence of codings, which is what a
signature table can tell apart; a handle has its bytes, its declared type and
the cached inference. `misdeclared` remembers the buffers a caller declared
something of that the bytes never were. `MediaHandle` owns one of two buffers,
so that bytes also arrive from, and leave to, a handle the media knows nothing
of; `aside` remembers that the bytes or options changed past the cache.

`FolderWrites`. A tree is its directories and leaves. A call is `Begin`,
which lists the tree and settles the layout, `ClearLeaf` for each leaf of an overwrite, `NextBatch` and `WriteLeaf` for each
partition a batch names; each may fail and then ends the call. `before` are the
table's rows when the call began.

`ArrayCast`. An array is [kind, rows, children] by its physical layout: a list
is spans over a child, a dictionary keys into one, a union type ids and slots, a
run-end array runs. The child of a null struct row, the part of a child no span
covers, the dictionary value no key names are there and hold anything: the
hidden slots. `ValueAt` reads a value, `CastArray` is `Plan::cast` by layout.
Scalars are few: numbers that fit a narrower type or not, texts that spell a
number or not, flags, null.

`SchemaEvolution`. `table` is the newest document (its schemas, the current one,
`last-column-id`, the files with the columns they were written under),
`handles[h]` the one a handle holds. An update is built in one of three ways,
as the three bindings do: "bound" to the handle's document (Rust, Node),
"replayed" on the one it lands on (Python), or "raw", numbered by `add_schema`.
`born` names the update that introduced a column, `overridden` how the updates
were built that landed on a document they had not seen.

`Locations`. A text is a sequence of pieces: marks, percent escapes, single
letters, which may name a drive, and words, whose characters no rule
tells apart. `location` is a record of the five parts with a mark for "//", `view`
whether it is held as `Uri`, `Url` or `Urn`; every setter, `joinpath`,
`join_path`, `parent` and conversion is a step, a refused one none. A tree, for a
listing, is the set of the paths below its root.

`FieldMetadata`, `Fields`. A key is a sequence of tokens, so that one scheme may
be a prefix of another key; a value is a token. A field is its name, type,
nullability, dictionary, metadata and the cached projection; each setter of
`field/mod.rs` is an action. `SchemaDiff` keeps the iterator's `work` stack and
`pending` lines; "at" is the address of a shared storage, 0 for none.
`SchemaCompat`'s two steps normalize what the step before left.

## 3. Runs

| Run | Asks | Bounds and why they are enough |
|---|---|---|
| `commit_raced` | what published documents hold while two writers race with append, compact, tag, untag and expire; what manifests keep from commit to commit; a document edited, saved and opened again | Two edits of a document this code or another writer made, of each version: one to give something a number, one to take the next or meet it; every type with a spelling of its own, two levels deep. Two commits over tables of every format version, two files, two specs: the second carries or rewrites what the first wrote. In a race, 4 commits: two to have a snapshot that is not current, one to tag or compact, one to race it; 1 retry: once beaten and once giving up; the handles are opened by `open` (`open_or_create` of a table that exists is the same lookup twice, and `commit_faults` races it). An overwrite's race is in `commit_faults`, whose `CommitInv` holds the same facts |
| `commit_faults` | what failed commits leave behind; the inductive invariant; every call returns | 2 writers, 2 commits, one fault of any kind at any place, starting from no table, so that creations race too |
| `commit_serialized` | implements `SerialTable`, and the version found never moves back | 3 commits, so that one can be built on what a failed one left; each writer opens with `open` a table that is there with its hint; one fault of a write, or a death. Creating writers, failing reads and more faults are the theorems' (section 6) |
| `tables` | exact scans, merges, overwrites, compactions; one table however a folder is split, and what failures leave; what a location reads back as, selects and spells | 3 writes over two specs, values 1, 2, NaN and null, batches with a repeated key: the third meets files of both specs and files already rewritten. Six trees (empty, declared only, leaves in and above their directories), 2 calls of every kind with up to two batches, the second of which meets what the first left, one failure of any step. 24 spellings (drives, servers, globs, URNs, wrong cases and separators), 2 changes of 9 pieces: one to make a location no text spells, one to read, join or climb from it; every pattern of one segment against every text of three characters |
| `joined_paths` (violation) | does an absolute path replace a URL's? | the same instance |
| `refs_expiry` | references and expiry | 3 snapshots: a head, one retention may keep, one it may drop; one reference beside `main`, two times |
| `evolved_filters` (violation) | are filters exact after a promotion? | one update, one file |
| `handles` | files, a path, a coded handle, a media: byte store, sharing, codings, caches | growth step 2 and values up to 3 bytes, so that a file may be longer than a step and be cut; 2 handles, one behind the path; 2 faults of a coded handle, so that a retry fails too; 2 buffers, two codings deep of one codec (which of two codecs is told apart by the declared type alone), what callers bring plain or coded |
| `file_growth` (violation) | does the file always hold the value? | growth step 2, 3 bytes |
| `coded_append` (violation) | does an append begin after the end? | values up to 2 bytes, one failing read |
| `schemas` | a field's caches and views; every difference once; normalized once and for all; casts of every layout; a table two handles evolve while rows are appended by name | a field with one child and two metadata entries of ten between them, two at a time or one by one; pairs of schemas two levels deep, shared or not; schemas two levels deep through any two engines. Arrays of two rows over two slots, every span of them and every content of the hidden slots, a layout in a layout; a table of two levels, 2 updates (one to differ, the next to land on it unseen), 1 file |
| `parallel_scan` | order, window, termination | 3 files, 2 workers at once: the third is spawned by the end of one of the others; every script of up to two batches |

`tables`, `handles`, `schemas` and `commit_raced` each put machines side
by side that share nothing: an execution begins as one of them and stays it, and
each of their properties speaks of one (`HandlesHold` of paths and media,
`AllImplementByteStore` of files, paths and coded handles).

Where a system really may stop (all commits begun, the scan dropped and its
workers gone, a cast done, a comparison ended, a table's writes or a folder's calls made) deadlock
is not checked; `CallsReturn` and `EveryoneFinishes` say what must not stop. In
the others deadlock is checked.

Writers are interchangeable in the safety runs and symmetric there, as are the
handles of an evolved table in `schemas`; the runs with liveness use no symmetry.

Each property comes with a mutant: a definition with the same parameters,
placed before the one it changes and marked `Mutant:`, with which TLC finds the
property violated under the same configuration.

## 4. What the checks show

- Whatever two writers overwrite of each other, each published document is
  consistent (`SnapshotFollowsParent`, `RowsOnce`, `NamedIsRetained`, and with
  faults `CommitInv`). What plain storage does not give is that a winner's commit
  survives: the documentation says so, and only `Serialized` gives it.
- With serialized writers the table is a `SerialTable` through hint and
  document faults and crashes. `SerialTable`'s answer "doubtful" is needed: a
  commit whose hint write failed is in effect although its caller got an error.
- Planning is exact, but for two exceptions that `ScanExact` spells out
  (section 7), and merges on bounds are upserts (`MergesExact`).
- A scan ends, in order, with threads that panic or fail, and after a drop each
  worker comes to at most one more answer before it ends.
- A cast never fails on, and never shows, what stands in a slot nobody sees,
  but for one case (`CastIsOfValues` in `CastsHold`, and section 7); its answer is
  of the field it was asked for, nulls filled (`ResultIsOfField`, likewise).
- As long as an update lands on the document it was numbered on, ids name
  columns (`IdsNameColumns`); a file shows each column its own cells, and a filter
  loses none, as long as its names still say what its ids do and nothing was
  promoted (`ScansFollowColumns`). The code goes wrong outside these conditions
  (section 7, `evolved_filters`); the properties say that it does so nowhere else.
- A folder is the table one file would be (`FolderIsOneTable`); an overwrite
  never leaves old beside new rows, and a failed append or merge leaves what it
  did not reach (`FailureKeepsRows`), except that an append that ended between the
  truncation of a leaf and its write is answered for by nothing.
- A location reads back as itself from its text, its JSON and its platform path
  (`LocationsReadBack`), edits touch what they name (`LocationsKeepNames`), globs
  and listings agree and a folder's partitions are read off its files
  (`LocationsSelect`), but for the spellings section 7 lists.
- A document is the same after it is saved and opened (`DocumentsReadBack`), but
  for the types the format has no word for; numbers of columns, schemas, specs
  and orders are given once (`EditsKeepNumbers`).
- Manifests read back whatever version wrote them and whichever carried them, and
  no file changes its place in the order of commits (`ManifestsKeepOrder`).
- Handles used one after the other are one byte store, through a path or not,
  until one cuts the file (`AllImplementByteStore`); two used at once are, as long as
  nobody writes (`SharingIsSafe`). Both are about files of any length: a handle
  alone does panic, but only once it cut a file longer than the growth step,
  which is what `file_growth` reports.
- A coded handle holds, stores and answers what was written (`CodedHolds`),
  whatever fails, until a publish failed or a call took a value it could not read
  for the empty one, which is what `coded_append` reports. A read that met a failure may
  answer nothing instead of an error, and changes nothing.
- Inferred types are those of the bytes, and of a buffer whose codings were
  declared as they were applied every coding comes off (`HandlesHold`); no media
  answers a schema that a fresh one would not read (`CacheIsFresh`), unless the
  bytes were changed past it: nothing tells a media of those, as section 7 says.

Violations among the runs, each a disagreement of code and documentation
(`PROJECT.json` quotes the lines):

1. `file_growth`: the first growing write to a file longer than 64 KiB, with
   nothing mapped, sizes the file from the write alone and cuts it.
2. `evolved_filters`: a bound is decoded as the column's type is now. After int
   became long its four bytes are taken as zero, and a filter prunes files that
   hold the rows asked for; the key bounds of a merge (`table.rs:1772`) do the same.
3. `coded_append`: `Coded::size` makes 0 of a failed read or decode. `append` takes
   that for the end, so that after one failure that passes it writes over the
   beginning of the value and answers ok, and `read_all` answers nothing and ok.
4. `joined_paths`: `Url::join_path` makes the location of an absolute path and
   then appends the components of that path to it.

## 5. Fairness

`CallsReturn` assumes `WF(Step(w))` for each writer: a call in progress runs on
its own thread and waits for nobody; the only loop, `commit_document`, counts.
Storage calls are assumed to return, with an answer or an error. Nothing makes a
writer begin a call. `EveryoneFinishes` (each call of `next`
answers, each worker ends) assumes `WF(Turn)` and
`WF(Work(f))`: threads are scheduled, the decode of one batch ends, and once
inside `next` the reader goes on to its answer. Nothing makes the caller
call `next` again, or drop the scan.

## 6. Proofs

Proofs hold for every value of the constants allowed by the named ASSUMEs.

**`IcebergCommitProofs`.** `CommitInvariant` proves `CommitInv` inductive, for
any set of writers, any operations, retries, faults and bounds, serialized or
not. The six properties follow. None of the six is inductive alone:
`SnapshotFollowsParent` of a document needs that a commit still proposing
planned against the snapshot its handle holds (`PlanInv`: `Beaten` adopts a newer
document only for commits that may rebase), that a snapshot record is never
rewritten (`IdInv`: ids are fresh and each belongs to one call), and that every
written record follows its parent, retained or not (`SnapshotInv`), because a
handle may resurrect what the directory no longer holds. `FailedNeverPublished`
needs that a document in any handle or any `saved` copy is built on commits no
longer proposing (`DocumentInv`). The step is one lemma per kind of step
(`LookingUp`, `Beginning`, `Publishing`, ...), each showing the five parts.

**`IcebergScanProofs`.** All four properties of `IcebergScan`, for any values,
any columns with bounds, any filters, keys and files and any number of writes:
`TablesHold`, `ScansExact`, `WritesAreExact`, `MergesAreExact`. Three steps carry them.

- *Pruning hides nothing.* `FilesNotHidden`, `ManifestsNotHidden` and
  `MatchesNotMissed`: a file with a row the filters select passes
  `FileMatches`, its manifest passes `ManifestMatches`, and a file with a row
  whose key arrives passes the key bounds.
- *Every write keeps that true.* `DataAlways` proves `DataInv` inductive: every
  manifest lists files of its own spec, none empty, each with the rows of one
  partition (`GoodManifest`). `TableHolds` alone is not enough: that carried
  manifests are well formed needs the files of each to share a spec, and that a
  file's tuple is its first row's needs groups without empty batches.
- *Rows are counted, not listed.* A scan is exact in order: what is planned, read
  and filtered is a concatenation over the manifests (`Over`), and dropping the parts
  that hold nothing changes nothing. A write moves rows, so two sequences are the
  `Same` when each element is as often in both: grouping by partition, carrying by
  spec and what a plan takes and leaves are all `Regrouped` or `SameParts`. A merge
  folds batch by batch; `Grown` says what any number of folds come to (every
  stored row its key's last arrival, every new key once), so that it composes
  (`GrownStep`), and `MatchesNotMissed` makes the unread files' rows unmatched.

Concatenation, counting and folding are lemmas of sequences, in
`RecordMergeProofs`, which `FolderProofs` shares. Each is an induction
over a set of sequences that has the empty one and every extension of a
member by an element, and therefore has all (`SequencesInductive`).

**`FolderProofs`.** `FoldersAreOneTable` and `FailedCallsKeepRows`, which are both
properties of `FolderWrites`: for any schema, values, text columns, requests
(any columns to merge by, any declared layout, any number of batches) and
numbers of calls and faults, from any tree in one layout (`IsTree` in
`FolderAssumption`: what this module's writes can have made; a tree with
directories of two layouts is outside the theorem). Neither property is
inductive: both speak of whole calls, a step writes one leaf. `FolderInv` says of a
call under way that there are a layout and rows `done`
(`Working`) such that

- `done`, the rows of the groups still to be written and those of the batches
  still to be read are together what arrived, each as often (`Progress`): a batch
  split by directory loses and doubles nothing (`SplitSorts`);
- the table is what the call's way of writing makes of `done`: the old rows and
  the new (`Appended`), the new alone, with every leaf not yet written empty
  (`Overwritten`), the new and the partitions not yet written (`Replaced`), the
  upsert of the old table (`Upserted`), and always the old rows in every partition
  nobody named (`Stayed`);
- what is stored under a directory reads back in its partition (`Typed`, `Laid`),
  so that a write to one leaf disturbs no rows but its own (`OthersApart`,
  `WriteAdds`).

The upsert is the hard one: each leaf merges its own batch by what is left of the
key, the promise merges all batches into the whole table by the key and the
layout. Within a partition the two keys tell rows apart alike (`KeyInLeaf`,
`GrownMapped`), so a merge into its one leaf is a merge into the table
(`PutUpserts`); one upsert after another is the upsert of both (`UpsertTwice`);
and arrivals may be reordered between partitions, as the split does
(`UpsertReordered`). At a failure
`WorkingKeeps` reads the promise of a failed call off the same invariant, for a leaf
left as it was, emptied or complete.

**`ParallelScanProofs`.** `ScanInvariant` proves `ScanInv` inductive, for any
number of files, any window and any scripts: where each worker stands and what
it has decoded, what the channel holds of each file and in which order, what
the reader has, and that released and buffered answers together with those in
the channel are what the workers sent. From it follow `PlanPrefix`,
`WithinWindow`, `SomeoneWillAnswer` and `StopsAfterDrop`, and
`ParallelIsOrdered`: the parallel reader implements `OrderedScan`.

**The second half of `IcebergCommitProofs`.** `SerializedCommits`: with one writer at a time and
whatever dies or fails to be read or written meanwhile, `IcebergCommit`
implements `SerialTable`; `VersionsOnlyGrow`: the version a lookup finds never
moves back. `SerialInv` says that a lookup always finds one and the same
document (`Shows`), which is the abstract table, and what a call in progress has
read, planned and may still do to it. Serialized is not enough by itself, and
the theorems say what else is needed: either the hint is there and keeps its
bytes (`HintKept`), or every document is whole and every open is made in turn
(`LookupsInTurn`). Without either, TLC shows two losses: a hint write fails, then
a document write fails half-way, and `open_or_create` takes the empty file for
the newest version; a hint write fails, a writer dies after its document, and a
plain open outside the lock adopts that document before the next commit
overwrites it. Each takes two faults, or one and a death; `commit_serialized`
runs with one fault of any kind, outside these hypotheses, and finds none: run
and theorem complement each other.

**`TableMetadataProofs`.** `DocumentsHold`, `FastForwardsKeepHistory`,
`ExpiriesAreComplete` and `ExpiriesKeepWhatRefsName`, for any number of
snapshots, names, ages and clocks. What matters is the walk along parents
(`Walk`, a recursive function) and that it never leaves the tree: parents are
older than children, so it ends. The provers cannot instantiate an induction
theorem with an operator; here induction is over sets: a set of numbers with 0
and each member's successor holds them all (`Inductive`, from the
well-foundedness of strict inclusion on finite sets).

**`FileProofs`.** For every set of handles, any bytes, any lengths and any
growth step: `FilesAreSharedSafely` (while nobody writes every handle holds the whole
file and none panics; one used alone panics only after it cut the file),
`ValuesFitTheFile` (`FileHoldsTheValue`, the promise `file_growth` finds broken,
holds until a cut), `FilesImplementByteStore` (one handle after another is a byte
store until a cut), the same for a path (`PathsUseFiles`, `PathsAreFiles`), and
`PathsResolve`. `FileInv` bounds what each handle remembers and has mapped by
what is on disk; `GrowthInv` adds that a handle used alone, on a file nobody cut,
fits: its value is no longer than the file, and its mapping is all of it. Every step that may set the file's
length is one lemma (`RemapFits`, `UpdateFits`, `OpenedFits`, `GrowsFits`): a cut is
exactly where `remap` sizes the file below what the handle opened, and nothing
else is assumed of lengths.

**`HandleProofs`.** `CodedValuesHold` and `CodedImplementByteStore` (a coded
handle, whatever fails, however often, its size included), `MediaStayFresh` (a media answers
what one bound afresh would), and for the machine `handles` runs:
`HandlesAreConsistent`, `HandlesHoldTheirValues`, `HandlesShareSafely`,
`HandlesStayFresh`, `HandlesImplementByteStore`, which are all five properties of
that run. `CodedInv` says what decodes to what, and what of it a failure may have
taken (`Failed`); `BuffersInv` that a buffer's declared codings begin its bytes
unless it is in `misdeclared`; `MediaInv` what the cache was read from.

**Model-checked only.** Liveness (`CallsReturn`, `EveryoneFinishes`): the prover
has neither fairness nor ENABLED. What is recursive over types, bytes or text:
`ArrayCast`, `SchemaEvolution`, `SchemaDiff`, `SchemaCompat`, `Fields` (its
metadata's views), the documents, the containers and manifests, the locations;
tlapm has no SMT in a module that reaches a RECURSIVE operator. `FolderInv` itself
is not a run's invariant, since it asks for a layout and rows among all there are; what it
implies, `FolderIsOneTable` and `FailureKeepsRows`, is what `tables` checks.

## 7. Where the code and its text differ, besides the four runs

Met while modelling; the model follows the code, and each is stated at the
definition it concerns, or excepted by name in a property.

Tables:

- *A beaten overwrite publishes.* A slow writer's hint write moves the hint back;
  with three writers (one late, one that wins, one that was beaten) a beaten
  overwrite then finds the version it planned on and publishes instead of
  answering a conflict. `VersionsNeverMoveBack` holds for serialized writers only.
- *A filtered overwrite replaces whole files.* Filters on a column that is not a
  partition column select files, and rows they do not select go with them;
  `WritesExact` states the rows that go.
- *A failed commit may be visible.* `table.rs:54` says "a failed commit leaves
  no visible change". When the hint's write fails (`table.rs:1165`) the document is
  in place and a lookup without a usable hint finds it: "doubtful" in
  `SerialTable`.
- *Unreadable filter text.* `scan.rs:143` says a value the type cannot read
  "becomes null, which is what makes it match nothing". `file_matches` compares the
  partition tuple with that null, so it selects the null partition, and an overwrite replaces
  it; `ScanExact` and `OverwriteExact` except it (`Readable`).
- *NaN.* `tests.rs:1902` says a NaN "must not produce a bound that excludes the
  file". It produces none, but a filter *for* NaN compares above the bound and
  the file is excluded; a merge keyed on a NaN may likewise append a duplicate.
  `ScanExact` and `MergesExact` except filters and keys that are NaN.
- *The null marker.* `table.rs:1874` says no formatted value can collide with
  it; a string partition value can be that text.
- *`min-snapshots-to-keep` of main.* `set_current_snapshot` (`metadata.rs:734`)
  replaces main's reference by a plain branch, so the next commit forgets it.
- *Outlived references.* `expire_snapshots` (`table.rs:1100`) commits nothing
  when no snapshot is dropped, also when the probe removed references past
  their `max-ref-age-ms` (`metadata.rs:1146`).
- *Young snapshots.* A snapshot no reference reaches is dropped whatever its
  age (`metadata.rs:1222`), where `metadata.rs:1152` says a table with nothing old
  returns an empty list.

- *Delete manifests.* `plan` (`scan.rs`) makes no task of a delete manifest and does
  not list it as skipped either, so a rewrite that retains only what a plan
  skipped drops it (`docs/core/iceberg.md:2758`).

Documents and manifests:

- *Partition types.* `partition_record` (`manifest.rs:561`) writes the Iceberg name of
  a partition value's type as an Avro type. Avro has no type "date", "timestamp",
  "decimal", "uuid" or "fixed" of that spelling, so the manifest of a table
  partitioned on such a column cannot be written, though `partition.rs:55-56`
  and `70-75` derive these types for a spec.
- *Types without a word.* A uuid column is read as fixed[16] and written so again,
  and a zone other than UTC becomes UTC, where `types.rs:3-6` has it that a type
  goes and comes "without loss".
- *Marks by name.* `mark_partitions` (`partition.rs:370-408`) finds a nested source by
  its id and then marks the top-level column of the same name. `add_schema` marks
  nothing of the schema it adds, while reading a document and changing the
  default spec do (`unmarked`).

Evolution, all excepted by `Followed` and `overridden`:

- *A rename hides what was stored.* Files are read by name (`table.rs`,
  `CastBatch`), so after a rename the files written before show null, or the
  default, in a column that `docs/core/iceberg.md:2141` says "survives a rename".
- *Dropped and added again.* A new column of a dropped one's name shows the old
  cells, or makes the file unreadable when its type differs
  (`table.rs:988-990`, `evolve.rs:3-6` promise a new column).
- *Names that differ in case.* `evolve.rs` compares names exactly, a cast folds
  their case: "A" added beside "a" makes the table unreadable and refuses appends.
- *Updates built on an older document.* A "bound" update numbers its columns on
  the document its handle saw: committed on a newer one it may give an id a
  second column, lose the winner's column, and set back a type or a
  nullability (`table.rs:995-996` speaks of the document it lands on). Python
  replays the operations on that document and has none of this.
- *Partition columns.* Dropping the source column of a partition field makes
  every later scan and append fail (`partition.rs:464`, `594`).
- *Required additions.* A null in an optional column of the batch, appended to a
  required one, becomes the default without an error.

Casts and schemas:

- *Present and hidden.* A struct slot that is present but hidden, under a target
  with a required column, fails the cast although nobody sees the slot: it is
  cast to null and refused (`plan.rs:4874-4876` has it that a masked null is
  legal; `value.rs:1463-1466`). `CastIsOfValues` excepts `HidesPresent`.
- *Run-end values.* Normalizing a run-end-encoded column drops the nullability
  of its values: a required column over nullable values becomes non-null.
- *An explicit "false".* The comment at `field/mod.rs:1224` says two schemas that
  partition the same way stay exactly equal; a marker set to "false" stays
  stored, and is kept when the partition fields are set again.

Files and handles:

- *A size that failed.* `Coded::size` (`coding.rs:176`) answers 0 when the value
  cannot be read or decoded: `read_all` answers ok and nothing where `io/mod.rs:503`
  has it return the failure, and `append` begins at 0 (the run `coded_append`). Over a
  handle that does the same, such as another coded one, the value itself is taken
  for the empty one and may be published so: `misled`.
- *A failed publish, then a flush.* After a failed publish of a coded handle the
  decoded value is gone while the handle stays dirty, so the next flush stores
  the empty value and answers ok (`coding.rs:117`): `spoilt` in `Coded`.
- *A reader resizes.* `local/file.rs:172` says "Reading must never change a
  file's length"; `publish` (`file.rs:186`) sets it to the size remembered, also
  for a handle that only read, and beside a writer that cuts the file.
- *Two coded handles over one file.* Each keeps its own value; the one that
  publishes last wins (`coding.rs:83`).
- *Looking settles.* Opening, flushing or closing an undecided path settles it as a
  file for good (`local/path.rs`), and every path of a file answers with one
  media type where the comment (`path.rs:234`) says its name decides.
- *Order of codings.* `magic.rs` lists what it peels outermost first, where
  `media_type.rs:16` says "application order"; `Codec::from_media_type` takes the
  last. They agree as long as there is one.
- *Coding twice.* `compress_into` (`io/mod.rs:639`) replaces the declared codings
  where its text (`io/mod.rs:603`) adds one; Deflate is recorded as zlib;
  `decompress_into` empties its target before it decodes (`io/mod.rs:659`).
- *A stale schema.* The cached schema of an IPC media is "retained until the next
  write"; bytes written through the mirrored byte operations or the handle do not
  drop it. `CacheIsFresh` excepts `aside`.
- *Gzipped json.* A media encodes the next stream with the coding its handle's type
  names. When that coding was only inferred, from the bytes the stream replaces,
  nothing records it: an IPC stream so coded has no signature of its own, the
  handle is then inferred to be plain, and a media bound afresh to it cannot read
  what the one that wrote it answers from its cache. `CodedByInference` marks
  these writes, and `CacheIsFresh` excepts what was stored by one.
- *Folder appends.* A batch that fails in the middle of a folder append leaves
  the leaves it wrote; a retry appends them again.

Locations, all excepted by name in the properties of `Locations`:

- *Schemes of one letter.* "c:x" joined with "/y", and "c://h", read back as
  Windows drives (`DriveLike`).
- *Drives made by joining.* A file path that becomes "/c:/x" is not made canonical
  until it is read again (`FromParts` in `ReadsBack`).
- *Slashes at the front.* `file:////a` has the path "//a", whose platform path names a
  server; "file://host" gains "/" (`ManySlashes`, `OfPath`).
- *Joining "..".* A relative location joined with "../" and emptied becomes the root
  "/"; the parent of a relative "../.." is "..".
- *Names.* A stem with a dot, set on a name without extension, gives it one; new
  extensions after a last dot change the base (`SameBase`); clearing the
  extensions of "..a" leaves "."; `set_file_name` adds the slash an authority
  needs, and `joinpath` fails for want of it.
- *Globs.* ".." after the pattern makes the root climb too far (`Dotted`); an
  unterminated "[^a" matches "[!a", and "[1-1" matches "[1", although
  `pattern.rs:358` says they are matched as written; private names after a pattern
  are never listed, and neither is a directory of a private column.
- *Partition values are spelt as they are* (`pattern.rs:246`, `partition.rs:515`): "/"
  opens another directory, "%43" reads back as "C", a space is refused, and an
  existing directory with a space reads back as "%20" (`Spellable`). A folder
  whose own URL keeps an escape nobody needs lists entries that are not under it.

## 8. Not modelled

- Encodings of data (single values, Arrow, Parquet, the codecs) and text
  formats (JSON, YAML, TOML, the parsers of types and fields) are functions
  of text or bytes without state; their tests compare them with fixtures. A
  TLA+ account of one is the format again.
- The catalog keeps a root and builds paths; it has no drop or rename. Its
  create is the look and `Table::create` that `open_or_create` is, which
  `IcebergCommit` races.
- Scalar conversions beyond what a cast can tell apart (overflow, text, null);
  the tables of type names, time zones, units and media types, which are data.
- The Python and Node packages, views of the core held to it by parity tests.
  What differs by binding, how an update of a schema is built, is modelled.
- The sequential reader of a scan, a loop on the caller's thread.
- Inside the modelled parts: one tag name stands for all references in
  `IcebergCommit`; rolling by size is "several files or one"; `backoff_ms` is
  time, and time is absent; only identity transforms settle a filter, so the
  others are "none" to planning; Windows' refusal to resize a mapped file is
  absent; a folder's leaves all have the declared columns, and one caller at a
  time; projection and pushdown of a media's reader are the Parquet crate's.
  Initial tables without a hint ("bare") are covered by the proofs and, in the
  runs, by hints that fail.

## 9. Plan

In order of weight.

1. `IcebergLocal`: `IcebergCommit`'s storage made of `LocalFile`s. While a writer
   has the hint or a document mapped, the file is padded to the growth step: what
   does a concurrent lookup read?
2. Branch commits beside tags in `IcebergCommit`; `evolve_schema` and the
   property changes as further callers of `commit_changes`.
3. Proofs: `FieldHolds` once `Fields` no longer reaches a RECURSIVE operator. `ArrayCast`, `SchemaEvolution`,
   `SchemaDiff`, `SchemaCompat`, the documents, the containers and the locations
   are recursive over types, bytes and text and stay with TLC.
4. `rolled` and `backoff_ms` as pure functions against a reference definition;
   column projection in a scan; the sequential reader; time zones and the texts of
   types.
