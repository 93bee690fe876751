# go-sofa in TLA+

go-sofa reads and writes SOFA files (AES69: head-related impulse responses and
the like in HDF5/netCDF-4). This directory holds a TLA+ model of what is hard to
get right in it: replacing a file safely, sending one to a stream, owning file
handles when opening fails, sharing an open file between goroutines, laying data
out so that what is written is what is read, keeping what it does not interpret,
limiting what a file may make it read, cutting data into chunks, and exporting
to JSON beside other exports. TLC checks the models on small instances; TLAPS
proves every safety property for all instances.

`tlc -workers 2 -config MC_X.cfg MC_X.tla` runs a model, `tlapm X_proofs.tla`
checks proofs.

## The system

| component | source | state it keeps | operations | hard because of |
|---|---|---|---|---|
| Save | `sofa_io.go`, `sofa_fsync.go`, `writeHDF5` in `sofa.go` | the directory: the path, a temporary file, what is on disk | `Save` | failing system calls, crashes, concurrent Saves and chmods |
| WriteTo | `sofa_io.go` | bytes passed on, `committed` | `WriteTo`, `commitWriter.Write` | failures before and after the commit |
| Opening | `sofa_io.go`, `read` in `sofa.go` | the OS file, the HDF5 handle | `Open`, `OpenReader`, `OpenLazy`, `OpenLazyReader` | every step can fail; two owners |
| Lazy audio | `sofa_stream.go` | handle, file and mutex; the File's exported fields | `ReadMeasurement*`, `RangeMeasurements*`, `Close`, edits of the fields | goroutines, callbacks, stale fields |
| Layouts | `sofa.go`, `sofa_shapes.go`, `sofa_netcdf.go`, `sofa_spatial.go`, `sofa_accessors.go` | the File; scales, shapes, labels and values in the file; `delayLayout` | read, edit, `validate`, write | sizes that coincide or are 1; state that outlives edits |
| Read budget | `sofa_dataspace.go`, `read` and `readDimensions` in `sofa.go` | the dimensions found so far | `checkReadBudget`, `elementCount`, every read | limits, overflow, two readers that must agree |
| Chunking | `sofa_netcdf.go` (`dataChunk`), `sofa_stream.go` (`chunkCacheSize`) | - | pure functions | limits, overflow |
| Extras | `sofa_extras.go`, `sofa_netcdf.go` | `Attributes`, `Variables`, `VariableAttributes`, `Dropped` | read, validate, write back | clashes after edits, silent loss |
| Provenance | `sofa.go` (`collectRootAttributes`, `resaveHistory`) | dates, API attributes, History | on every Save | repeated saves |
| Conventions | `sofa_conventions.go`, `sofa_brir.go`, `sofa_srir.go`, `sofa_sh.go` | - | rules, defaults, warnings, detection | what is checked is not yet what is saved |
| Values | `sofa_datavalidation.go` | - | stateless checks | floating point |
| sofa2json | `cmd/sofa2json` | the `.json` file, a temporary file | `convert` | concurrent runs, failures |
| sofainfo, sofaprobe | `cmd/sofainfo`, `cmd/sofaprobe` | - | print a File | - |
| Test tooling | `internal/`, `scripts/` | - | - | - |

How they interact: Open asks the read budget first, then builds a File from what
Layouts, Extras and Provenance find; a lazy File keeps the handle Opening opened
and Lazy audio uses and closes it. Save and WriteTo validate the File (Values,
Conventions, the shape part in Layouts), lay it out and hand it to the go-hdf5
writer; Save then puts the finished file at its path. go-hdf5 is a library
outside the repository and only appears as handles, datasets and calls that
succeed or fail.

What makes each part correct:

- Save: the path is complete at every moment and after every crash; success
  survives a crash; failure leaves nothing behind; permission bits are kept.
- Opening: what was opened is closed exactly once, by whoever owns it, whatever
  fails; an error of closing is not lost.
- Lazy audio: the handle is used by one goroutine at a time and never after it
  was closed; a range that reports success was complete; a closed File says so;
  nobody waits forever.
- Layouts: what Save writes Open reads back unchanged, again and again, whatever
  was opened and edited before; labels decide what sizes leave open.
- Chunking: at most 64 chunks, as small as that allows; a File read in order
  decompresses each once.
- WriteTo: nothing reaches the writer before the commit, and the count is honest.
- Read budget: no file makes Open read more than its budget, Open and OpenLazy
  accept the same files, and what WriteTo made is accepted.
- Extras, Provenance, Conventions: no name is written twice, saving again changes
  nothing, History names every API, what is lost is listed or documented, and a
  File means the same once saved.
- sofa2json: with `-f` an existing export is replaced by a complete one or not at
  all, without `-f` it is not replaced, and a failed one leaves nothing behind.

`PROJECT.json` lists the hazards line by line with the properties that answer
them, and the lines each definition models.

## Modules

| module | what it is |
|---|---|
| `PublishedFile` | what `Save`'s doc comment promises, as a reader of the path and the caller see it |
| `AtomicSave` | `File.Save`, system call by system call; refines `PublishedFile` |
| `AtomicSave_proofs` | the theorems about it |
| `OpenFile` | the four functions that open a File |
| `LazyAudio` | a lazy File shared by goroutines |
| `SharedFile` | what a File from `OpenLazy` promises to those who share it |
| `LazyFile` | `OpenFile` and `LazyAudio` composed over one handle and one file; refines `SharedFile` |
| `LazyFile_proofs` | the theorems about `LazyAudio` and `LazyFile` |
| `StoredData` | pure operators: the File, the stored file, `Valid`, `Stored`, `Readable`, `Opened` |
| `RoundTrip` | a caller who opens, edits and saves, over `StoredData` |
| `StoredData_proofs` | lemmas: what the folds and the layouts of `StoredData` compute |
| `RoundTrip_proofs` | the theorems about `RoundTrip` |
| `Conventions` | pure operators: the registry of conventions and what `Save` requires, adds and defaults by it |
| `Extras` | pure operators over names and attributes: what `Save` writes and `Open` keeps |
| `Metadata` | a File over several generations, saved by several programs, over `Extras` |
| `Metadata_proofs` | the theorems about `Metadata`, with lemmas about `Conventions` and `Extras` |
| `WriteTo` | senders who write Files to one `io.Writer` |
| `ReadLimits` | `Open` and `OpenLazy` read one file, variable by variable, within limits; uses the layouts of `StoredData` |
| `Transfer` | `WriteTo` and `ReadLimits` composed: what was sent, or another program's file, is read |
| `Transfer_proofs` | the theorems about `WriteTo`, `ReadLimits` and `Transfer` |
| `Chunks` | `dataChunk`, `chunkCacheSize`, and reading in order through that cache |
| `Chunks_proofs` | the theorems about them |
| `Convert` | `convert` of sofa2json, by several processes |
| `Convert_proofs` | the theorems about it |
| `MC_*` | instances for TLC |

Definitions named `Bug...`, `RetryOnError` and `MoreReceivers` are not part of a
model: each stands before the definition it could replace, as a mistake somebody
could make in that code, and breaks one of the properties when it does.

### AtomicSave

`pc[s]` is the line a call of `Save` has reached: `stat`, `create`, `open`,
`write`, `sync`, `chmod`, `rename`, `syncdir`, `remove` (the deferred
`os.Remove`), then `ok`, `failed`, `left` (failed, and the remove failed as
well) or `killed`. `want[s]` is its local variable `mode`. `path` and `temps` are
the directory, `data` and `mode` the inodes. `synced`, `dpath` and `pending` say
what is certain to be on disk: files that were fsynced, the entry for the path at
the last fsync of the directory, and the renames since. A call stands for its
temporary file, as `os.CreateTemp` never gives two calls one name. `stale` is a
ghost: calls whose idea of the path's permission bits has been outdated, by a
chmod, a failed `os.Stat` or a call that itself had it outdated.

Actions: each system call has one action for success; `Fail` is the error of
any call after `CreateTemp` (through the `defer`), `StatFails` and
`CreateTempFails` the errors before it. `Kill`, `UserChmod` and `Crash` are the
world. A crash keeps what was fsynced and any part of the rest: the path is
what it was at the last directory fsync or what any rename since made it; files
that were not fsynced may be torn; permission bits of new files may be back at
0600, as the chmod is never fsynced; temporary names may come back.

`PublishedFile` has what remains of this for a reader: `file`, `kept` and
`recent`, and one step that publishes. `AtomicSave` implements it under the
mapping `Promise`: a file that is not complete, or not fsynced when a crash may
expose it, is seen as `"torn"`, which no step of the promise can produce; so the
refinement fails if the code syncs too late or writes in place.

### LazyAudio, OpenFile, LazyFile

`mu`, `handle` and `osfile` are `lazyAudio`'s fields, `fields` what the caller
can edit (the DataType, M, and whether R, N and E still are what was read).
`pc[g]` follows one goroutine through a call: `precheck` (`checkLazyRange`),
`loop`, `bounds` (`requireDataType`, `checkMeasurement`), `lookup`
(`lazyVariable`, which locks the mutex for a moment), `lock` and `slice`
(`readMeasurement`), `callback`, and `closing`, `closehandle`, `closefile`
(`lazyAudio.close`). A callback may call Close (`CallbackCloses`; `inside`
remembers to return to it) and edit fields. TF and TF-E reads have two
variables, which `part` counts. Values are left out: a read delivers its
measurement, or fails with one of the classes of errors the code tells apart.
Callbacks that read from the File are not modelled as nested calls: they take
the mutex when `fn` runs, which `EveryCallReturns` shows is free.

`OpenFile` has `open`, `openReader` and `read` with their deferred closes: `step`
is the call it has come to, `err` an error on its way out, `own` whether the file
is its own, `got` what the caller received. In `LazyFile` its handle and file are
those of `LazyAudio`, which only moves once a lazy File has been returned
(`InUse`); an eager one has no `lazyAudio`, and its `Close` does nothing.

`SharedFile` is the same for a caller who knows of no mutex, variables or
handles: one `life` of the File, and calls of which each delivery and each Close
happens at one moment. A delivery, or an error of reading, needs an open File,
fs.ErrClosed a closed one; a range returns nil when it has handed over as many
measurements as there are, counted one by one; only the Close that closes can
fail. `LazyFile` implements it under the mapping `Shared`: a measurement is
delivered when its last variable has been read, and the File closes when the
HDF5 handle does, which is while the mutex is held.

### StoredData, RoundTrip

A File is a record of its sizes, DataType, audio data (shape and flat values),
frequencies, sampling rates, delay with `delayLayout`, positions, positions per
measurement and orientations. `Data` stands for Data.IR, Data.SOS, or Data.Real
and Data.Imag, which are treated alike. A stored file has four dimension scales
(the netCDF NAME in three forms: a size, a mere label, none) and variables with
shape, values in row-major order, and the label of each axis. `Valid` is the
part of `validate` that is about shapes. `Stored` is what `writeHDF5` writes,
`Readable` whether Open accepts a file, `Opened` the File it returns.

`RoundTrip` starts from a File made in memory or another program's file (axes
without labels, all or the last; sizes in the scale's only value or in its
length; TF-E with frequencies last or emitters last; delays in all five layouts
and flat; no emitter positions), and lets the caller resize, set the delay, the
rate, positions and orientations, save and open, in any order. `Inv` is what the
fields of a File and the variables of a file may hold (`FileOK`, `DiskOK`),
accepted by `validate` and by Open or not.

### Conventions, Extras, Metadata

An attribute is a name with a value, a sequence of lines or symbols; a variable
has a name, dimension names, a shape, a form (numeric, characters, scalar, one
go-sofa cannot write, none), data and attributes. What go-sofa interprets has the
data `<<"given">>`: its values and layouts are those of `StoredData`.

`Conventions` is the registry with what follows from it: `MissingGlobals`,
`MissingVariables`, `WithMandatory`, `SavedRoomType`, `ConventionMet`. `Extras`
has Save's side (`SavedVariables`, `SavedDimensions`, `ScaleOf`,
`OwnedVariables`, `SavedDatasets`), the validation between (`ExtrasFit`, with
`WrittenVariables`), and Open's (`KeptGlobals`, `KeptAttributes`, what becomes a
Variable and what is dropped). `Metadata` adds root attributes, History and
dates (`SaveOf`, `OpenOf`), `Valid`, and the warnings and the detection of
spherical harmonics (`Meaning`). The nine root attributes that are only a text of
the File are one function, `texts`: some are written when they are empty, the
others are not (`SavedTexts`). Its state is the caller's `file`, the file on
`disk`, who wrote both (ghosts `writers`, `source`) and the History there was
before (ghost `before`). The caller opens, edits (convention, room, size,
emitters, attributes, variables and their attributes) and saves with one of two
versions; between, another program may save the file under its own name. What is
picked from a list is picked by the set of its places (`Chosen`, `Filtered` in
`Conventions`). `OtherFilesGiven` says of files of other programs what HDF5
and Open make sure of (`DiskOK`), and what is assumed beyond that (`Described`, see
Proofs). `Inv` is what a File and a file may hold (`FileOK`, `DiskOK`), that API and
History of each are those of its last generation (`Followed`), and two of the
properties.

### WriteTo, ReadLimits, Transfer

`pc[s]` follows one call of `WriteTo`: `create` (with the checks before it),
`encode` (each `Encode` writes one variable or fails), `close`. `committed` and `n`
are the fields of its `commitWriter`. The HDF5 library hands a file over in one
`Write` when it is closed, also after an error: `Discard` is that `Write` when
nothing was committed, `HandOver` when it was, where the writer may accept any
part and fail, and the library may fail after it. `stream` is what was accepted
and `handed` a ghost that counts it.

In `ReadLimits`, `todo[r]` is what `read` has left to do once it knows the DataType,
in the order in which Open and OpenLazy do it (`Plan`): the budget, the four
dimensions, their product, audio and rates, positions, room variables, extras.
`seen` counts how often each dataset was read. Any read may fail. `ReadInv`, its
invariant, says that what is left to do is the end of `Plan` (`LeftToDo`), what the
steps before it have found out (`FoundOut`) and which of them have read a dataset
(`ReadBehind`).

`Transfer` describes a sent File by its sizes, the rows of its emitter positions,
its room variables and the length its audio is compressed to (`FilesValid`: what
`validate` lets pass); `Sent` is the file Open finds, with the layouts Save writes
(`SavedLayout`), at least as long as the values that are not compressed
(`LengthsGiven`). A file of another program (`OtherFilesGiven`) may lack any
dataset and have any shapes.

### Chunks

A shape is `<<measurements, receivers, values>>`; the axes after the first two
are one, as `dataChunk` only multiplies them. `file` is one that Save wrote,
whose chunk is `DataChunk` of its shape, or another program's, with any chunk, an
empty one included. `m` and `k` walk through it as a Range function does:
`ReadChunk` is one of the chunks `lazyVariable.read`'s `ReadSlice` visits, which the
cache has or has not. `cache`
is go-hdf5's, outside the repository, taken to keep what was used last within
the limits it is given. `AsDocumented` finds by search the chunk that
`dataChunk`'s comment describes; `CacheAsExact` compares with arithmetic that
has no largest number.

### Convert

`pc[x]` follows one call of `convert`: `create`, `encode`, `close`, `rename` (with
`-f`), `remove` (the deferred `os.Remove`), then as in `AtomicSave`. `out` is the
JSON file's directory entry, `temps` the temporary files. The important
asymmetry: a call without `-f` creates `out` itself and, if it fails, removes it
*by name* (`RemovesOut`), whatever file has that name by then. `PreviousKept`
therefore holds only as long as no call without `-f` is about to end.
`UnforcedKeep` has no such condition and names what may be lost instead: a call
without `-f` that fails removes the file it created, or the complete one a call
with `-f` has renamed into its place, and no other: neither a file of before nor
one that another call without `-f` has finished or left.

## Runs

| run | instance | shows |
|---|---|---|
| `save` | 2 Saves, 2 modes, 1 crash | path always complete (`AtomicPath`), success durable, no litter, bits kept, published files immutable, every Save ends, refinement of `PublishedFile` |
| `lazy_file` | all four ways to open, 2 goroutines, 2 measurements, a TF file read as FIR, TF and TF-E, 1 edit | nothing leaks, one owner closes, errors of closing are reported; exclusive use, complete ranges, closed comes first, every call returns, refinement of `SharedFile` |
| `round_trip` | 3 sizes, 4 DataTypes, 2 edits | writable, readable, unchanged after one round trip and after two, labels obeyed |
| `metadata` | 37 files of another program, of 3 conventions, 6 Files built in memory; 2 generations, 1 edit, 2 versions of go-sofa and another program | nothing written twice, saving again is a fixed point, History names every API, meaning kept, known losses only |
| `transfer` | 2 senders, 2 calls, 6 Files, 20 files of other programs | nothing before the commit, honest count, what was sent is read, reads within the budget, Open and OpenLazy agree |
| `convert` | 3 exports with or without `-f` | nothing partial stays after an error, no partial file is renamed into place, complete ones are only replaced by complete ones, an export without `-f` replaces nothing and removes only its own file or one that an export with `-f` has put in its place, every export ends |
| `chunks` | every shape up to 9 × 5 × 3, chunks up to 4 × 3 × 2 | few enough chunks, chosen as documented, decompressed once, no overflow |
| `failed_leaves_path` | 1 Save, undisturbed | **fails**: a Save can fail after it has replaced the file |
| `changed_delay` | 2 measurements, 2 receivers | **fails**: a changed delay keeps the layout that was read |
| `sh_not_saved` | as `metadata` | **fails**: a File that declares spherical harmonics and has no EmitterPositions is saved as a cartesian one |
| `lost_silently` | as `metadata` | **fails**: a second value of RoomVolume is lost with `Dropped` empty |
| `bound_per_variable` | as `transfer` | **fails**: a file is refused for M · R · E · N though each variable is small |

The five that fail check what a comment or the README of the repository says, and
find the code does otherwise; `PROJECT.json` quotes the lines under "findings".
The properties of the passing runs say what does hold instead:
`OnlyKnownLosses` names what is lost (`Overlooked`: among it empty texts, values of
dimension scales other than frequencies, and a RoomVolume that is not a single
number), `MeaningKept` excludes Files
without emitters, `ReceivedIsReadable` is about `Ordinary` Files.

Seen while modelling, and not worth a run because one reading of the code shows
it:

- Any error of `os.Stat`, not only "no such file", selects mode 0644
  (`sofa_io.go:115`); `ModeKept` excludes calls whose `os.Stat` failed.
- After Close, an edited M or DataType is reported before fs.ErrClosed
  (`sofa_stream.go:354`); `ClosedComesFirst` lists the two errors.
- sofa2json without `-f` removes by name, on failure, whatever is at its output,
  also the complete file an export with `-f` has put there meanwhile
  (`main.go:136`); `PreviousKept` says when, `UnforcedKeep` that it is such a file
  or its own.
- A variable without a label on its last axis is refused, where one without a
  label elsewhere is read by its sizes (`sofa_shapes.go:50`).
- /N of TF files is read twice, so that "how many elements Open reads at most"
  (`sofa_dataspace.go:10`) is that much too small; a room variable that is 0 is read
  again as an extra one. `ReadsWithinBudget` counts both.
- Scales count in the budget though the file stores no values for them: a File
  with very many emitters and little data is refused. Audio that compresses to
  much less than a byte per sample is refused by Open and accepted by OpenLazy.
- A caller's Variable named RoomVolume, beside a field that is 0, becomes the field
  in the next Open, and its Units are not looked at (`TakenForField`):
  `ResaveIsFixedPoint` and `MeaningKept` leave such a file out.

Bounds, and why they are enough:

- *Two Saves, one crash* (`MaxCrashes`): all of a Save's interaction is through
  the path and its own inode; two calls, one before and one after any step of
  the other, meet every order. One crash is followed by whatever calls have not
  begun yet. `AtomicSave_proofs` has neither bound.
- *Two goroutines, two measurements, one edit* (`MaxEdits`): one mutex has one
  holder and one waiter; two measurements have a first, a last and a next. The
  kind of file is TF, the one DataType with two variables, a Range function and
  a sibling (TF-E) that differs in layout only. `LazyFile_proofs` has
  no bound.
- *Sizes* `<<M, R, E, N>>` of `<<1,2,1,1>>`, `<<2,2,2,2>>`, `<<2,1,2,6>>`:
  layouts are mistaken when sizes coincide or are 1, so there is M = R, E = N, M
  = 1, R = 1, E = 1, N = 1, M ≠ R, and an N divisible by 6 for SOS. Resizing
  goes between them. `MaxElements` is `maxDataElements`, as small as these
  allow.
- *Two edits* (`MaxEdits`), of which the second is a new delay or a new size
  (`EditFirst`): fields that have no bearing on each other need not be combined.
  Save and Open are not bounded.
  `RoundTrip_proofs` has none of these bounds: any sizes and any number of edits,
  each as the model's caller makes them.
- *Two generations, one edit* (`MaxWriters`, `MaxEdits`) in `metadata`: a file
  has then met every rule of History once (nobody before, the same version,
  changed hands, another program after), and a default that a save adds is there
  when it is opened again, edited and judged by what Save would write next. An
  edit is one field; edits of two fields meet through files that come with 21
  features of their own, each once and in six pairs that share a name or a rule.
  Of the eleven registered conventions the four used have every kind of default
  and of rule but one, a fixed number of emitters or receivers, which refuses or
  warns and adds nothing. `Metadata_proofs` has no bound: any generations,
  edits, versions and programs, every registered convention, any attributes and
  variables.
- *Two senders, two calls* (`MaxCalls`), *one write* (`Writes`): each call has
  its own `commitWriter`, so what is to be excluded needs two calls, of two
  senders at once or of one after the other. `Pieces` are nothing and a part.
  `Transfer_proofs` has no bound. Senders are interchangeable (symmetry, without
  temporal properties).
- *Limits* in `transfer`: 2^30, 2^26 and 2^64 become 2^16, 2^12 and 2^20, so
  that TLC's integers hold them, in the same order, with the word so close that
  a product of two sizes wraps around. Files lie on both sides of each limit.
  OpenLazy starts when Open is done, as the two share nothing; a file of another
  program is read only when nothing was sent, as it has no bearing on sending.
  In `Transfer_proofs` the limits are any numbers, with the largest number of
  elements below the word.
- *Three exports*: one without `-f` that loses its file to one with `-f`, and a
  third that begins anywhere. `Convert_proofs` has no bound.
- *Chunks*: `MaxChunks`, `MaxChunkBytes`, `MaxCacheBytes`, the default cache and
  `MaxUint` are so small that shapes exceed each, alone and together: blocks of
  measurements below and above `MaxChunks`, chunks larger than the whole cache,
  products that wrap around. `Chunks_proofs` has no bound.
- A callback calls Close at most once for each measurement.

Fairness:

- *AtomicSave*: weak fairness of each call's steps. They are system calls of a
  single goroutine and wait for nobody; `Begin`, kills, chmods and crashes are
  not fair.
- *LazyFile*: weak fairness of opening, a sequential function that waits for
  nobody, and strong fairness of each goroutine's steps. `sync.Mutex` hands the
  lock over to a goroutine that has waited for more than a millisecond, so one
  that could lock it again and again does. That `fn` returns is the caller's
  part. Nobody has to begin a call, to close, or to edit.
- *Convert*: weak fairness of each export's steps, as in AtomicSave.

`Chunks`, `RoundTrip`, `Metadata` and `Transfer` state safety only and need no
fairness.

Every system may end (a call returns, a File is closed, nobody begins another
one), so TLC's check for deadlock is off; that nobody is stuck is
`EveryCallReturns`, `EverySaveEnds` and `EveryExportEnds`.

## Proofs

For any number of Saves, crashes, modes, goroutines, measurements, senders, calls,
exports, edits, files, sizes and limits:

- `AtomicSave_proofs`: `TypeCorrect`, `Atomic`, `Durable`, `Tidy`, `Immutable`,
  `KeepsMode`, and `KeepsPromise` (the safety part of the refinement).
- `LazyFile_proofs`: `TypeCorrect`, `Exclusive`, `CompleteRanges`, `ClosedFirst`, of
  a File that is open to begin with; `NoLeaks`, `OneCloser`, `CloseErrors`, and the
  four of `LazyAudio` from the opening on (`FileTypes`, `FileExclusive`, `FileRanges`,
  `FileClosedFirst`); and `SharedAsPromised`, the refinement of `SharedFile`.
- `RoundTrip_proofs`: `RoundTripInvariant`, `RoundTripTypeOK`, `WhatIsSavedFits`,
  `RoundTripKeepsMeaning`, `RoundTripIsStable`, `LabelsAreFollowed`.
- `Transfer_proofs`: `CommitsFirst`, `Honest`, of senders alone;
  `TransferInvariant`, `SentWhenCommitted`, `SentHonestly`, `BudgetHolds`,
  `ReadersAccept`, `SentIsReadable`.
- `Convert_proofs`: `TypeCorrect`, `Clean`, `Complete`, `KeepsPrevious`,
  `KeepsUnforced`.
- `Metadata_proofs`: `MetadataInvariant`, `MetadataTypeOK`, `NothingWrittenTwice`,
  `HistoryIsComplete`, `ResaveChangesNothing`, `MeaningIsKept`, `LossesAreKnown`.
- `Chunks_proofs`: `TypeCorrect`, `NeverTooManyChunks`, `ChunksAsDocumented`,
  `EachChunkOnce`, `CacheLimitsExact`.

Assumptions are those of the modules: the constants are distinct, TempMode and
DefaultMode are modes, bounds are natural numbers, limits and sizes positive,
the cache's limit below `MaxUint`, the file's DataType is one of those that are
read; in `RoundTrip`, sizes are at most `MaxElements`, which `validate` and
`readDimensions` check; in `Transfer`, a sent File is one `validate` accepts and its
file as long as the values it stores uncompressed, `MaxElements` is below `Word`,
and a byte stands for at least 3 elements of the budget (8 in the code); in
`Metadata`, a file of another program holds no two attributes or datasets of one
name, which HDF5 does not allow, has the sizes and the DataType without which Open
refuses it, and no program but go-sofa writes "go-sofa" as its APIName. Only
`LossesAreKnown` needs `Described` as well: Conventions is "SOFA", the attributes
that name conventions, versions and the DataType have one value, no variable has
more dimension names than dimensions, positions and orientations are not empty,
what go-sofa interprets has the data `<<"given">>` (its values are `StoredData`'s
business), and there is no RoomTemperature, which is not modelled.

`AtomicPath` is not inductive: a crash may put at the path what was there at
the last directory fsync or what was renamed since, and a rename what a call has
written. `IInv` of `AtomicSave` adds that all of these are `Sealed`, that is
fsynced and complete (`NamedAreSealed`), and that a call which has come as far
as `chmod` has sealed its own file, which nothing else names before its rename
(`Progress`). `WantIsCurrent` is what `ModeKept` rests on: unless outdated, the
bits a call will grant are those of the path; it holds after another call's
rename because that call granted the same bits. `NamesInUse` says who has a
temporary name. `KeepsPromise` follows step by step; `IInv` supplies that no
torn file is ever named.

The types of `AtomicSave`, `LazyAudio`, `LazyFile`, `Convert` and `Metadata` are
proved and therefore not in the runs.

`ExclusiveUse` rests on the mutex being held exactly by the goroutine whose `pc`
is in a critical section (`MutexHeld`) and on handle and file going from open to
closed there (`Resources`). `RangeIsComplete` needs that a loop's bound is the
number of stored measurements (`Loops`): `checkLazyRange` compared it with M just
before, and no other goroutine may edit fields during a call. `ClosedComesFirst`
rests on a call that began after Close getting no further than its lookup
(`Late`).

`FileInv` says what each step of opening holds (`HeldWhileOpening`), that nothing
is held afterwards unless a lazy File was returned (`HeldAfterwards`), and then
that `LazyAudio`'s invariant holds, whose steps leave opening alone: a step of
`LazyFile` is either one of opening, before any call has begun, or one of
`LazyAudio`, so its lemmas are used again.

`SharedAsPromised` follows from `FileInv` and `Nested`, which says that a Close a
callback has called belongs to a range that goes on after it. `OnlyMoves` is the
frame: what the others do stays as it is, so a step is one of its goroutine's
actions in `SharedFile`, or none. `Resources` supplies that whoever delivers or
closes finds the handle open, `Loops` that a range's bound is the number of
measurements.

`StoredData_proofs` supplies what the proofs about layouts rest on. What a fold
computes would need induction over data, which the provers cannot instantiate
as a rule with an operator; as a rule about *sets* they can (`NatSetInduction`,
`FiniteSetInduction`: a set that holds the least and with every number the next
holds all). With it, `Count` and `SumFunction` do not depend on the order in which
they go through a sequence or a set (`FoldAnyOrder`), `Count` is the product of the
sizes (`CountSizes`, `CountShort`), and a place in row-major order and its
coordinates determine each other (`Coordinates`, `CoordinatesUnique`). So
`SwapLastAxes` undoes itself (`SwapBack`), positions that were flattened come back
(`VectorsFlat`, `PerMBack`), and a variable that was written with labels resolves to
the layout it was written with, whatever sizes coincide (`ResolvedOwn`).

`Inv` of `RoundTrip` holds of a File that was made, opened or edited, and of a file
that was saved or is another program's (`OpenedOK`, `StoredOK`, `ForeignOK`). From
it and `Valid`, each variable fills its shape (`WrittenFits`); what was stored is
readable with the same sizes (`SizesBack`, `StoredReadable`); audio, delay,
positions and orientations come back as the accessors answered before
(`AudioKept`, `DelayKept`, `PositionsKept`, `OrientationsKept`), the delay by cases
of the layouts `DelayAxes` may choose; and what is written again is the same
(`WrittenAgain`, `DefaultOnce`). `OpenedAsLabelled` needs that a variable without
an unlabelled axis resolves to its labels (`LabelledLayout`), and the offset of
coordinates under both layouts.

`SendInv` says that only a writer without an error is committed, only after its
last write, and that handing over is the last thing a call does (`Committed`).
A `commitWriter` shared by two calls would break it: `Begin` resets it.

`ReadInv` is inductive because `Plan` lists each step once (`PlanListed`): what a
reader has found and read is determined by how many steps are behind it, up to
steps that failed. `BudgetHolds` takes three facts from it: that `ElementCount` is
the true product when it is at most `MaxElements`, though the code multiplies with
wrap-around (`ElementsCounted`: the division before each product excludes it);
that only /N and the room variables have two steps that may read them
(`ReadByTwoSteps`); and that the budget sums what all others hold. `ReadersAccept`
says that the outcome tells which steps can be passed (`OutcomeSays`), that both
plans have the same ones but for audio, and that Open's and OpenLazy's conditions
on audio agree although they list layouts apart (`FitsAlike`). `SentIsReadable` adds
up the variables of a saved file (`OrdinaryWithinBudget`): those that are not audio
are stored uncompressed, so that 8 bytes each are in the length; audio counts at
most its samples, scales no more than samples; the sum stays within 3 elements
per byte. Then the sizes are found (`SentDimensions`), and each layout Save writes is
one that Open looks for (`SentFits`).

In `Metadata`, what a filter leaves of a list is again an induction over sets:
it holds what is at the places chosen, and no name twice if the list did not
(`Picked`). From there it goes upwards: `MissingGlobals`, `MissingVariables` and
`SavedAttributes` add no name that is there (`MissingGlobalsFit`,
`MissingVariablesFit`, `SavedAttributesFit`); the root attributes, and the
scales, go-sofa's own variables and the caller's, have no name in common
(`SavedRootFits`, `SavedDatasetsFit`); and a dimension two variables share has
one size (`SizesAgree`), so that `NothingWrittenTwice` follows (`SavedOnce`).
All of it rests on what `ExtrasFit` refuses.

`Inv` of `Metadata` is inductive with `Followed`: what was opened is some generation of
what is on disk or of before. `HistoryIsComplete` takes from it that the line
`resaveHistory` appends is the one due (`LineAdded`), and that `Due` of one more
generation is `Due` with that line or as it was (`DueAppended`).

`MeaningIsKept` and `ResaveChangesNothing` follow a File through the file, item
by item. `SavedKinds` sorts the datasets Save writes: scales, go-sofa's own, the
caller's with a label for each axis. What of them Open keeps is exactly
`Attributes`, `Variables` and `VariableAttributes`, with what conventions and
rules have added (`GlobalsReread`, `AttributesReread`, `VariablesReread`), and
nothing is dropped (`NothingDropped`). Their order is not followed: the two
Files, and the two files, are compared by what they hold (`Reopened`,
`Content`). Of the File read back nothing mandatory is missing any more
(`NothingMissing`), so `validate` accepts it (`ExtrasFitAgain`, `ValidAgain`)
and Save writes the same root, scales and variables (`RootAgain`,
`DatasetsAgain`, `ContentAgain`). The invariant under it is `OwnWork`: what is
on disk under go-sofa's name is what Save made of a valid File. It is an
invariant of its own, as nothing of `Inv` needs it.

`LossesAreKnown` goes through what a file says item by item (`ItemOf`): root
attributes (`RootExplained`), data, dimension names and attributes of each variable
(`DataExplained`, `LabelsExplained`, `AttributeExplained`). An item that go-sofa
interprets is a field of the File, which Save writes as it was read (`OwnedData`)
or as its own; any other is kept, and written again, or `Dropped` lists it
(`OtherKept`, `DroppedAre`), or it is of the kinds `Overlooked` names. The invariant
under it is `DiskDescribed`: what go-sofa and other programs save meets `Described`
again, with whatever the conventions have filled in (`SavedDescribed`), so that the
theorem is also about files of several generations.

`Convert`'s invariant says where the JSON file can have come from (`OutIsFrom`),
that what was encoded is complete (`EncodedIsFull`), which temporary files exist
(`TempsInUse`), and that at most one export without `-f` is under way once it has
created the JSON file, and has lost it to exports with `-f` only (`OneInPlace`),
which `UnforcedKeep` needs.

`FewChunks` rests on rounding up twice: if `b` pieces of length `CeilDiv(a, b)`
cover `a`, then `CeilDiv(a, CeilDiv(a, b))` is at most `b` (`CeilDivCovers`,
`CeilDivLeast`), so blocks of measurements times chunks per block stay within
`blocks * (MaxChunks \div blocks)`. `ChunksAsDocumented` adds that nothing
smaller would do: what the code computes by divisions is what a search finds.
`CacheAsExact` moves saturation and bound out of the products, factor by factor
(`SaturateLater`, `BoundLater`), which is sound as no factor is 0 and the bound
is below `MaxUint`. `DecompressedOnce` needs `CacheInv`: nothing in the cache
lies ahead of the reader, and the chunks already visited of the current block
are the last it has used (`Recent`), which a cache as large as a block keeps
until the block is done.

Only model-checked: liveness (`EverySaveEnds`, `EveryCallReturns`,
`EveryExportEnds`, the fairness of `ImplementsPromise`), which is out of the
prover's reach.

## Not modelled

- *Save*: a path that is a symbolic link or a special file beyond "not regular";
  two names of one directory; umask and ownership; a temporary name that comes
  back after a crash and is drawn again. The values, the metadata and the
  deflate level, which `newSaveOptions` checks before anything is touched.
- *LazyAudio*: eager Files, whose readers copy from memory; data races of a caller
  who edits fields while another goroutine reads, which Go leaves undefined and
  the documentation excludes; the values.
- *WriteTo*: a writer that reports more bytes than it was given, which no
  `io.Writer` may do.
- *RoundTrip*: the values themselves; deflated storage (only its chunks, in
  `Chunks`); variables of another element type, the frequencies' units.
- *Metadata*: the formats of dates and SOURCE_DATE_EPOCH, the Go types of
  attribute values beyond "can be written or not", units of room scalars, and
  `Values`; RoomTemperature, which goes the way of RoomVolume.
- *Transfer*: positions per measurement, which Open reads like the others.
  A File whose positions for each measurement come near the limit of elements
  is outside `Ordinary`.
- *Conventions*: accessors that compute values from a File (BRIR, directivity,
  evaluating spherical harmonics) and change nothing.
- *Convert*: crashes of the machine (nothing is fsynced, nothing promised), an
  output path that is a directory, the flags and the JSON encoder.
- *Chunks*: the decompression itself; reads out of order; chunk shapes of the
  wrong rank, which get the default cache like an empty one.
- `Values` is floating point, value by value, and stateless; `sofainfo` and
  `sofaprobe` print; the test tooling compares programs; go-hdf5 is another
  repository's.

## Plan

1. Eager Files beside lazy ones behind the same readers.
2. RoomTemperature and the units of room scalars in `Metadata`, which would take
   their assumption out of `Described`.
3. An abstract specification of a reliable stream that `WriteTo` implements.
