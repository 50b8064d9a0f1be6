# Verification of tux-io-encoding

`tux-io-encoding` encodes values, and stores *objects*: files with a fixed
header, a metadata section, a tag section and a content section, which can be
created while their content is streamed, opened by several readers, and updated
atomically. This directory holds TLA+ models of the part of the crate where
order, failure and concurrency matter and of the encodings it rests on, the TLC
runs that check them on small instances, and proofs, checked by TLAPS, of what
holds for every instance.

All line numbers are those of the files under `src/src/`.

## 1. Inventory

### The object file

```
 0          HEADER_SIZE = 32   tags_start          content_start
 | header   | metadata, slack  | tags, slack       | content ...
```

`tags_start` is a `u16`, `content_start` a `u32` in the header
(`header.rs`). Content is streamed before the final sections are known, so
`content_start` is decided first and the *prefix* (everything before it) is
written last.

### Components

| Component | State | Operations | Talks to |
|---|---|---|---|
| section layout (`fs/layout.rs`) | none (pure) | `align_up`, `LayoutOptions::compute`, `SectionLayout::repartition` | called by writer and handle |
| object writer (`fs/writer.rs`) | `ObjectWriter`: temp file, `temp_path: Option`, options, `layout`, metadata, tags, `content_length`, `allow_raw_writes` | `create`, `write`, `content_encoder`, `metadata_mut`, `tags_mut`, `finish` (`finish_by_rewriting`, `publish`), `abort`, `Drop` | file system; returns a `TuxObject` |
| object handle (`fs/object.rs`, `fs/reader.rs`) | `TuxObject`: descriptor, path, remembered `header` and `metadata`, `writable` | `open`, `open_writable`, `read_tags`, `find_tag`, content readers, ranges, `set_metadata`, `set_tags`, `set_sections`, `modify_metadata`, `set_sections_in_place` | creates an `ObjectWriter` to rewrite the object |
| content encoder (`fs/compression.rs`) | borrow of the writer, codec state, bytes counted | `write`, `finish` | writer's file, counter and metadata |
| async objects and writer (`fs/async_io.rs`) | the same, with futures | the same, split at every `.await`; rename and creation run on the blocking pool | tokio |
| header (`header.rs`), compression types | none | read, write, sizes | everything above |
| tags and metadata (`tags.rs`, `tags/meta_key.rs`, `value.rs`) | maps | read, write, size, `find_from_reader` | handle |
| value encodings (`lib.rs`, `types*`) | a cursor over a buffer | `write`, `read`, `size`, `read_size` | sections |
| tokio adapters (`tokio_io.rs`) | none | the value encodings over `AsyncRead` | async objects |
| macros and command line | none | code generation; a stub | |
| file system (external) | directory, open files, what is flushed | create, write, fsync, rename, unlink | writer and handle |

### What is hard

* **Interleaving.** Several processes or threads open, replace and update the
  same path. There is no lock: everything rests on "write a file of your own,
  then rename it".
* **Partial failure.** Each step of `finish` can fail. `Drop` cleans up by what
  `temp_path` says at that moment, and up to two writers are alive.
* **Crash.** A killed process leaves temporary files; a power loss may undo
  whatever was not flushed. Two flushes, in the right places, make a synced
  write durable.
* **Stale state.** A layout is replaced under content that was already
  streamed; a handle remembers a header and metadata while its path, or its
  file, moves on.
* **Recursion.** `finish` calls `finish_by_rewriting`, which calls `finish`.
  That it ends rests on `compute` and `repartition` agreeing on every number.
* **Numbers.** Offsets are cast to `u16` and `u32`, alignment may carry a value
  over either limit, and updates must not push the content forward for ever.
* **Cursors.** Reading, measuring and searching are chains of reads, each of
  which starts where the one before it left the cursor. Measuring leaves it in
  different places for different types. Over a stream every read may stop
  half way, and the stream may end there.
* **Two codecs.** The async readers repeat by hand what the blocking ones do.
* **Cancellation** (async only). A dropped future stops at an `.await`; what
  was handed to the blocking pool still happens.

The full list, each at its line with the properties that watch it, is
`hazards` in `PROJECT.json`.

### What makes each component correct

* Layout: sections never overlap, offsets fit their fields, the content is
  where the header says, `finish` recurses at most once, updates do not creep.
* Writer: a path names a whole object or nothing; nothing is left behind by a
  write that is given up; a synced write that was acknowledged survives.
* Handle: a reader keeps the version it opened; what it remembers is what its
  file holds; a setter that meets no failure ends with the new version.
* Store as a whole: an atomic register of whole objects.
* Encodings: what is read is what was written, in order, however the bytes
  arrive; a short read is reported when and only when bytes are missing; a tag
  section is measured and searched right wherever it lies and in whatever order
  its map was written.

## 2. Modules

```
 Layout --> LayoutSession --> MCLayoutSession
   |
   +--> LayoutLemmas            (cited by all proofs that lay sections out)
   |
   +--> ObjectFiles --> ObjectStore --> ObjectStoreInvariant --> MCObjectStore
   |      ^    |             |                                      |
   | FileSystem|             \--> ObjectStoreRefinement <-----------/
   |           |                       \--(INSTANCE)--> ObjectRegister
   |           |
   |           \--> AsyncObjectStore --> AsyncObjectStoreInvariant ---> MCAsyncObjectStore
   |                     |                                                |
   |                     \--> AsyncObjectStoreRefinement <--------------/
   |                               \--(INSTANCE)--> AsyncRegister --> ObjectRegister
   |
   \--> InPlaceUpdate --> MCInPlaceUpdate

 Totals --> ContentEncoder --> MCContentEncoder
   |
   \--> TimeConversions --> Codec --> CodecStream --> CodecStreamInvariant --> MCCodecStream
```

The proofs are in modules of their own:

```
 LayoutSession               + LayoutLemmas --> LayoutProofs
 ObjectStoreInvariant
  + ObjectStoreRefinement    + LayoutLemmas --> ObjectStoreProofs
 AsyncObjectStoreInvariant
  + AsyncObjectStoreRefinement + LayoutLemmas --> AsyncObjectStoreProofs
 InPlaceUpdate               + LayoutLemmas --> InPlaceUpdateProofs
 Totals                                     --> SequenceLemmas
 ContentEncoder              + SequenceLemmas --> ContentEncoderProofs
 CodecStreamInvariant        + SequenceLemmas --> CodecStreamProofs
```

The store takes sections to be values with a size; `Codec` and `CodecStream`
are about what those sections are made of. They share no state: the store
encodes a section in memory and writes or reads it whole. `InPlaceUpdate` goes
below the store: there a file is cells, and the one operation that changes a
file others have open is taken apart. The atomic setters are one step of it, as
the refinement of `ObjectRegister` shows they may be. `ContentEncoder` is about
one writer alone, which nobody else sees.

### Layout

The pure functions of `fs/layout.rs`, with the widths of the fields and the
size of the header as constants. `compute` and `repartition` return `None`
where the code returns `Err(SectionOffsetTooLarge)` or `None`. Sums are those
of unbounded integers: the code adds `usize` values, and sections or reserves
near `usize::MAX` are not modelled.

### LayoutSession

One object's layout through its life. Sections are their sizes, the content is
the offset it was written at (`content_at`, which no code variable holds: it is
where the bytes went).

| Action | Code |
|---|---|
| `Create` | `ObjectWriter::create`: `compute`, seek to `content_start` |
| `Mutate` | `metadata_mut`, `tags_mut` |
| `Finish` | `finish`: `repartition` says `Some` |
| `FinishByRewriting`, `FinishFails` | `finish`: `repartition` says `None`; the replacement has, or has no, layout |
| `Rewrite` | `TuxObject::rewrite`: the floor is the current `content_start` |
| `SetSectionsInPlace` | `set_sections_in_place`: `repartition` with the default alignment |

### FileSystem

External: what the code relies on. Files are numbered in the order they are
created and keep their identity through a rename, so a descriptor keeps its
file. `names[path]` is the list of files a power loss may leave the path
naming; flushing the directory cuts it to its last element. A file in
`unsynced` may lose its bytes. `MaxFiles` bounds the files ever created; when
it is reached, creation fails, which is also how a full directory looks to the
code.

### ObjectFiles

What an object file holds and when it is whole: the header, the sections, the
content with the offset it was written at, a `TuxObject`, what a content reader
reads (`StoredContent`), what `from_file` accepts (`Openable`), and
`Complete`/`PublishedComplete`, the promise both writers make. Shared by the
blocking and the async store.

### ObjectStore

`ObjectWriter` and the replacing part of `TuxObject`, for any number of
processes. A process has a stack of writers (`writers[p]`: empty; one made by
the caller or a setter; or that one and the replacement made by
`finish_by_rewriting`), a handle (`handle[p]`) and a location (`pc[p]`).

| `pc` | Where |
|---|---|
| `idle` | no call, no writer |
| `writing` | the caller streams content |
| `copying` | before `io::copy` into a new writer (writer.rs:268, object.rs:273) |
| `finishing` | before `finish` of that writer |
| `prefix` | `finish`: layout decided, prefix not yet written |
| `fsync` | before `sync_all` of the file |
| `rename` | in `publish`, before the rename |
| `fsyncdir` | renamed, before the flush of the parent |
| `reopen` | before `try_clone` and the return |

| Action | Code |
|---|---|
| `Open`, `Close` | `TuxObject::open`, `open_writable`, drop |
| `CallerCreates` | `ObjectWriter::create` by a caller |
| `Write`, `Encode` | `Write for ObjectWriter`; `content_encoder` with its `finish` |
| `Mutate`, `Abandon` | `metadata_mut`/`tags_mut`; `abort` or drop, whose `remove_file` may fail (`RemoveTemps`) |
| `Finish`, `FinishByRewriting`, `RewritingFails` | the three outcomes of the fit check |
| `Copy`, `CopyRefused` | `io::copy`, or its refusal by a writer that takes no raw bytes |
| `WritePrefix`, `SyncAll`, `Rename`, `RenameFails`, `SyncParent`, `Reopen` | the rest of `finish` and `publish` |
| `SetMetadata`, `SetTags`, `SetSections` | the atomic setters, up to the copy |
| `CallRefused` | calls that fail before they change anything |
| `CallFails` | an I/O error in any other step: `?` and `Drop`, with `RemoveTemps` |
| `Kill`, `PowerLoss` | the process, or the machine, dies |

An action is one visible call into the file system. Several code steps share an
action only if they touch a file that has no name and no reader but the acting
process: nobody can see the difference. `Rename` takes `temp_path` and renames
in one step because nothing but the caller's own thread sees `temp_path`;
`RenameFails` is the other outcome of the same lines.

`RemoveTemps` leaves any of the files it should remove where `"unlink"` is among
the `Faults`: `abort` has taken `temp_path` when its `remove_file` returns an
error (writer.rs:215), and `Drop` ignores one (writer.rs:300).

`published` and `acked` are history: which files were renamed over a path, and
how many of them an acknowledged, synced `finish` covers.

### ObjectRegister and ObjectStoreRefinement

The register is what the store promises: a path holds a whole object or
nothing, it is replaced in one step, every handle is a snapshot, an update is
made from the snapshot of whoever makes it. The refinement maps a path to what
a reader that opened it now would *read* (through the header's offsets, not
what the model knows to be there), a handle to what can be read through it, and
shows that `Rename` is the step that publishes.

### AsyncObjectStore

`AsyncObjectWriter` and the replacing part of `AsyncTuxObject`, called by the
tasks of one process. Locations are the `.await`s; an action goes from one to
the next. Two things run beside the tasks, as tokio has it:

* *jobs* on the blocking pool (creating, `sync_all`, renaming, unlinking,
  flushing the directory). `job[p]` is the one the future of `p` waits for;
  when the future is dropped and the job is still queued, it moves to
  `detached` and runs all the same;
* the *background write* of a tokio `File`: `poll_write` says `Ok` when the
  bytes are handed over (`pending[f]`), and the outcome comes out of the next
  write or flush (`failed`, tokio's `last_write_err`), not of a seek or a read.

| Action | Code |
|---|---|
| `Open`, `Close`, `CallerCreates`, `Created` | `open`, `create`, its await in `create_temp_file` |
| `Write`, `WriteErrs`, `Mutate` | `poll_write`, which counts what it hands over; an error of the write before |
| `Abandon` | `Drop`, which unlinks synchronously |
| `Abort`, `Aborted` | `abort`: takes `temp_path`, unlinks on the pool |
| `Finish`, `FinishByRewriting`, `RewritingFails` | the fit check of `finish` |
| `SourceFlushed`, `Copy` | `finish_by_rewriting`, and the copy of a setter |
| `Flushed`, `PrefixFlushed`, `Synced`, `Renamed`, `ParentSynced`, `CleanUp`, `Return` | the awaits of `finish`, `publish` and `finish_by_rewriting` |
| `SetMetadata`, `SetTags`, `SetSections` | the setters |
| `JobRuns`, `JobFails`, `DetachedRuns`, `WriteRuns`, `WriteFails` | external: the pool |
| `CallFails`, `CallRefused` | `?`; calls that change nothing |
| `Cancel` | the future of the call is dropped at one of `Cancels` |
| `Kill`, `PowerLoss` | the process, or the machine, dies |

A future is dropped at an await only, and `Drop` of what it owns runs at once.
`temp_path` is taken in the same step that hands the rename or the removal to
the pool because no await lies between the two. The setters and `create` work
on uncompressed objects only, as `create` refuses a codec.

`sent` is history: what the writers of a file were told is written. `GoOn` says
whether callers write on after a write returned an error; no caller should, and
the runs have `FALSE` (section 4 says what happens otherwise).

### AsyncRegister and AsyncObjectStoreRefinement

The register above, for callers whose futures may be dropped. A call that is
given up when the object is complete leaves an *update* in `late`: it takes
effect whole and once, or comes to nothing, at any later time, whatever was
published meanwhile. The refinement maps the renames among the detached jobs to
`late`, and shows that nothing else of a cancelled call is ever seen. A crash
takes `late` with it.

### InPlaceUpdate

Several handles on one path, blocking or async, that update the file in place,
are opened in the middle of it, read tags at the offset they remember, read
ranges of the content, and replace the file atomically. A file is a function
from offsets to *cells*. `tags_start`, which alone changes in the header, is two
cells, so that a torn header holds half of it; `content_start` and
`content_length` are one cell, as every update writes the value that is there.

| Action | Code |
|---|---|
| `OpenHeader`, `OpenMetadata`, `OpenFails` | `open` and the two reads of `from_file`, with others writing between them |
| `UpdateInPlace`, `UpdateRefused` | `set_sections_in_place`: `repartition` in front of the content, or nothing |
| `WriteCell`, `Written`, `WriteFails` | `write_all` of the prefix, cell by cell; its end, or an error or a crash anywhere |
| `Cancel` | the async future is dropped; tokio writes on, and the handle keeps its old header |
| `SetMetadata`, `SetTags`, `SetSections`, `Replace`, `SetFails` | the atomic setters; `set_metadata` reads the tags through the handle |
| `ReadStored`, `ReadRange` | `stored_content_reader`, `content_range_reader` and the owned readers |
| `ReadSome`, `StopReading` | a read of any size, bounded by what is left |
| `Close` | a handle is dropped |

Cells out of place decode to `Garbage`: another section, or an error. The one
decoding that needs care is that of zero bytes, which are the empty section:
padding reads as a section without entries. `settled` and `fresh` are history:
which sections the last undisturbed update stored, and which handles know it.

### ContentEncoder

One writer and the encoders it hands out. Content is a sequence of segments: raw
bytes, and frames with what was fed into them, how many bytes of them are
written, and whether the codec wrote its end. The codecs are external: they may
write any number of bytes at any time (`Encode`, `Flush`, `FinishEncoder`, and
`Drop` for gzip, which tries to end its member and ignores that it could not).
`Decoded` is what the reader makes of the segments: all frames for zstd, the
first for gzip, everything for none. Both decoders end with an error at content
in which no frame was whole, and at content of no bytes.
`ended`, with `fed`, `direct`, `handed` and `given`, is history.

| Action | Code |
|---|---|
| `Write`, `WriteRefused`, `Grow` | `Write for ObjectWriter`, its guard; `metadata_mut`, `tags_mut` |
| `HandOut` | `content_encoder`, which sets `allow_raw_writes` |
| `Encode`, `Flush`, `Drop` | `Write for ContentEncoder` with `record`; `flush`; dropped without `finish` |
| `FinishEncoder` | `ContentEncoder::finish`: the end of the frame, then the length into the metadata if it differs |
| `Publish`, `PublishFails` | `ObjectWriter::finish`; the copy of a compressed object that outgrew its prefix is refused |

### TimeConversions

The types of `chrono` and the raw forms `types/time.rs` stores: which numbers a
raw form holds, how a date is cut to them, what a reader refuses, and in which
order it looks. The calendar itself is external.

### Codec

The encodings as pure operators over sequences of bytes. An *outcome* is a value
with the place where the cursor is after it, or an error; `AndThen` is the `?`
operator. What a number or a string means is left out, except in a date or a
time of `chrono`: the data of a value is the bytes that `to_le_bytes` or
`as_bytes` gives, and `BadByte` is a byte that makes text invalid. A metadata
section is a tag section whose keys are header names. `MaxPrefix` is `MAX_PREFIXED_LENGTH`, so that the
cast `as u16` is `% (MaxPrefix + 1)` and wraps within the instance.

| Operators | Code |
|---|---|
| `NumberWidth`, `TimeWidth`, `UuidWidth`, `TYPE_KEY`, `ValueKinds` | `number!`, the derives of `types/time.rs`, `Uuid`, `ValueType` |
| `size` and its parts | `TuxIOType::size` of each type |
| `Prefix`, `Count`, `write_to_writer` and its parts | `length_is_allowed`, `count_is_allowed`, `WritableObjectType` |
| `read_from_reader` and its parts | `ReadableObjectType` |
| `read_from_async_reader`, `AsyncKinds` | `AsyncReadableObjectType`; the dispatch of `ValueType` written by hand |
| `read_size` and its parts | `ReadableObjectType::read_size`, with the seeks of `Tags` and of `HashMap` |
| `header_entry`, `compression_type`, `read_header` | `header.rs`, `compression_types.rs` |
| `find_from_reader` | `Tags::find_from_reader` |

An item is a value of one of the types that can be encoded, with its entries.
`IsItem` says what Rust's types leave of them: how wide a number is, that a
`String` has no invalid byte, that the keys of a map differ, which values one
generic type holds at a time, what `chrono` can make. `StreamAssumption` asks it
of every item, so that TLC evaluates it and the proofs may use it.

A map is the sequence of its entries in the order in which it is iterated. The
readers of `bool` and of the kinds of fixed width are the same in both codecs;
what differs is which kinds the async one has an arm for.

### CodecStream

A task that writes items and one that reads them, over a stream that holds
`Capacity` bytes and moves any number of them at a time. `write_to_async_writer`
encodes the item whole and then polls `write_all` (`WriteSome`); the reader is
inside one `read_exact` of the chain (`ReadSome`), and takes no byte that
belongs to a later one. `Close` drops the writing end at any byte. Items with an
async reader are read with it, the others with `read_from_reader`. Items without
an async writer (maps, vecs, options, arrays, `chrono` types) are taken to be
sent in the same way, from a buffer, as `encode_prefix` encodes sections
(writer.rs:305).

`written` is also the file such a writer leaves: `read_size` and
`find_from_reader`, which need to seek, are looked at there.

### Totals and SequenceLemmas

The sum of a sequence of numbers, as a recursive function, and lemmas about it
and about `FlattenSeq`.

### The modules named ...Invariant, ...Lemmas and ...Proofs

Inductive invariants in named parts, and the proofs (section 5).

### Variants with a bug put in

Definitions under a comment "Wrong:" are used by nothing. Each has the
parameters of the definition after it and differs from it by one plausible
slip: a forgotten flush, a limit not checked, a counter not advanced, a
temporary file not removed. Exchanging the two must make a run fail; the pairs
are under `mutants` in `PROJECT.json`.

## 3. Runs

`tlc -config <cfg> <module>`; the properties are in the cfg.

| Run | Instance | Shows |
|---|---|---|
| `layout_session` | header 4, `tags_start` up to 15, `content_start` up to 47, four kinds of options, eight metadata and five tag sizes | sections stay apart and in range, content is where the header says, `finish` recurses once, updates do not creep |
| `store` | 2 processes, I/O errors, plain and compressed objects, packed layouts | paths name whole objects, readers keep theirs and remember what their file holds, every temporary name has an owner, a replacement is never replaced, and `ObjectStore` implements `ObjectRegister` |
| `store_power` | 2 processes, synced writers, I/O errors, failing renames and removals, kills, power loss | the inductive invariant (whole objects after a power loss among it); acknowledged writes stay |
| `store_setters` | 2 processes, no failures, fairness | a setter ends with the new object held |
| `async` | 2 tasks, synced writers, packed layouts, cancelled while a file is created, filled, flushed, renamed and reopened (`async_temps` cancels the other awaits), I/O errors, failing renames, kills, power loss | the inductive invariant of section 5, and with it: paths name whole objects, handles remember what their file holds |
| `async_temps` | 1 task, synced writers and others, with what it left on the pool, every await but that of the creation cancelled, I/O errors, fairness | temporary files have an owner, those left to the pool go, nothing that was written is missing from what is published, what section 5 adds to prove both, and `AsyncObjectStore` implements `AsyncRegister` |
| `in_place` | 2 handles, 2 files, 2 updates in place, a plain and a compressed object, a header of 4 cells, 2 cells of content | content stays reachable through every header, an undisturbed update is stored whole, handles that know of it agree with the file, ranges are exact |
| `content` | 3 chunks, 2 encoders, frames of up to 3 bytes, three codecs, prefixes with and without room | a published object states the length its encoder was fed, and finished encoders read back |
| `codec` | 2 items of 58 (a value of every kind, tag and metadata sections, collections, arrays, chrono types, headers), a stream of 3 bytes that may end anywhere | items are read in order and whole, errors have their reason, no reader is left waiting, sections are measured and searched right, and the inductive invariant of section 5 |
| `codec_sizes` | the same | **fails**: `read_size` is not the size of what was written (finding 3) |
| `store_compressed` | 1 process, a codec | **fails**: setters of a compressed object never succeed (finding 1) |
| `store_barename` | a parent that cannot be opened | **fails**: an acknowledged write is lost (finding 2) |

### Why these bounds are enough to be interesting

* *Sizes.* The layout's arithmetic only compares sums with four limits (the
  current `content_start`, the two field widths, the next multiple of the
  alignment). The scaled instance has sizes on both sides of, and exactly at,
  each of them: metadata of 11 fills a 4-byte header's `tags_start` of 15 and
  metadata of 12 passes it. `LayoutProofs` removes the scale altogether.
* *Files.* Three files let one process publish an object, a second one replace
  it while the first updates it, and let one `finish_by_rewriting` run with two
  writers alive. Creation fails at the fourth, so exhaustion happens in every
  run.
* *Async files.* Two: one task can have the file of a cancelled call on the pool
  and work on another, and a `finish_by_rewriting` has two writers. Detached
  jobs are kept in a set, so no two equal ones are queued at a time (a bound in
  `Cancel`).
* *Sections.* `m1` fits in every layout, `m3` outgrows a packed layout and what
  `m1` reserves, and `m8` fits nowhere, so both sides of the fit check occur in
  both callers of `finish`.
* *Paths.* One: calls on different paths share only the directory.
  `ObjectStoreProofs` is for any number.
* *Content.* At most one piece; a copy of none and a copy
  of some are different paths through the code, a longer copy is not.
* *Items.* Two are enough for the second to start in the wrong place if the
  first was read to the wrong end. Strings, blocks and sections have none, one,
  `MaxPrefix` = 2 and three elements, so the cast wraps where it is not checked;
  their bytes look like prefixes, keys and type keys, so a reader that is off
  by a byte goes on with a plausible value. A stream of 3 bytes ends or stalls
  inside every prefix, key and value.
* *In place.* Two updates are enough to overlap, to follow a torn one, and to be
  made through a handle that does not know of the other. The two metadata sizes
  give `tags_start` the values 5 and 6, whose two bytes in base 3 both differ, so
  a torn header is neither of them and may point into the header itself. Two
  files let one handle stay on a file that was replaced. Offsets and lengths of
  ranges go one past the content on either side.
* *Encoders.* Two are enough for a second frame and for a recorded length to be
  replaced. A frame may be as long as its input, longer or shorter.
* *Reductions.* `MCSymmetry` permutes processes and is used with safety
  properties only. The views hide the bytes of files nobody can reach any more:
  no action reads them, and of the properties checked under them only `TypeOK`,
  which then speaks of what can be reached. `MCView` of `MCObjectStore` also
  hides the older entries of `names`, and is used where power is not lost;
  `MCView` of `MCInPlaceUpdate` hides replaced files nobody is on, and of what a
  reader has given so far all but its length and whether it is right. The views
  `MCPowerView`, and `MCView` of `MCAsyncObjectStore`, count every name a power
  loss may bring back. None is used where liveness is checked.

### Fairness

`store_setters` and `store_compressed` assume weak fairness of `InCall(p)`: a
thread inside a call keeps running the call, and calls into the file system
return. Nothing is assumed of callers between calls, and nothing of failures.
`async_temps` assumes that the runtime polls a future that can go on, and that
tokio's blocking pool runs every job and every background write it was given,
waited for or not. That is what tokio does while the process lives, so the run
has no kills.

`InCall` leaves failures out, so `RewritingFails` and `CopyRefused`, which are
decided by state and not by chance, are in it.

The runs of the stores and of the layout leave `CHECK_DEADLOCK` on, and no state
of them is a dead end: an idle process can always be refused something or do
something. `codec` may stop: all is sent and read. That it stops only there is
`DrainedMeansRead`, a property of states; no fairness is assumed of a stream.

## 4. Findings

Each is a run that fails, checked against a sentence of the code's own docs.

1. `TuxObject::rewrite` (object.rs:273) copies the stored bytes through the
   `Write` impl of a writer made with the object's codec, which refuses raw
   bytes (writer.rs:282): no setter works on a compressed object with content.
2. The parent directory is flushed only if it can be opened (writer.rs:241).
   `Path::parent` of a bare file name is the empty path, which cannot, so a
   synced write under such a name can be taken back by a power loss.
3. The doc of `TuxIOType` (lib.rs:240) says of `size`, the bytes written and
   `read_size`: "For any value, these must all be the same number". It is not so
   for an `Option` that is `None` or holds a string (option.rs:24 never looks at
   the flag), for a `HashMap` with strings (map.rs:34 goes on inside a value),
   and, as its own doc says, for a `Vec` of anything wider than a byte. All that
   objects are made of, `Tags` and `ValueType`, is measured right:
   `SectionsMeasured` holds.

More is seen without a run of its own.

In the store:

* `publish` takes `temp_path` before it renames (writer.rs:234): if the rename
  fails, nothing removes the temporary file. With `"rename"` among the `Faults`
  of `ObjectStore.cfg`, `NoTempLeaks` fails.
* `abort` takes `temp_path` before it removes the file (writer.rs:211): if
  `remove_file` fails, the caller has the error but no writer to try again with,
  and `Drop` finds nothing to remove. `Drop` itself ignores the error. With
  `"unlink"` among the same `Faults`, `NoTempLeaks` fails.
* `content_encoder` sets `allow_raw_writes` for good (writer.rs:165): after
  the encoder is gone, raw bytes are accepted under a header with a codec,
  against the doc of `content_encoder` (writer.rs:155). `Encode` followed by
  `Write` shows it.
  What is written so is lost for the reader of a gzip object, which stops after
  the first member, and an error for that of a zstd object. An encoder that is
  dropped before its codec wrote anything leaves nothing at all, and what was fed
  into it is gone without an error from the encoder.
* A compressed object that is published before anything was stored does not read
  as empty. `content_length` is 0 and its decoder gets no bytes, which is an
  incomplete frame to zstd and a missing header to gzip (object.rs:341-346). An
  empty object has to hand out an encoder and finish it; `ReadsBack` asks for one.
* The doc of `ContentEncoder` (compression.rs:43) says that dropping it loses
  the tail of the content. For gzip it may not: a dropped `GzEncoder` tries to
  end its member. What is lost then is the recorded length.
* `ContentEncoder::finish` records the length of the last encoder only, and does
  not remove a value that an earlier one, or the caller, put there when the
  lengths agree (compression.rs:151). It also makes the metadata of a compressed
  object with a tight prefix outgrow it: `finish_by_rewriting` then refuses the
  stored bytes, and the object cannot be published.
* The async `poll_write` counts bytes before they are written
  (async_io.rs:682). If that write fails, the next call returns the error and
  the count stays: a caller that goes on publishes an object whose header
  promises more content than there is. The blocking writer counts what was
  written. With `GoOn = TRUE` and `"io"` among the faults, `PublishedComplete`
  of `AsyncObjectStore` fails.
* A rename of a cancelled async call that is still on the pool may replace an
  object that was published after the call was given up (async_io.rs:615).
  `AsyncRegister` has this as a step of its own, `TakeEffect`.
* `create_temp_file` of the async writer awaits an open on the blocking pool
  (async_io.rs:713). If the future is dropped there, the file is created and no
  writer exists whose `Drop` would remove it. With `"creating"` among the
  `Cancels` of `AsyncObjectStore_temps.cfg`, `TempsOwned` fails.
* The doc of `read_size` (lib.rs:267) says that the cursor is left at the end of
  what was measured. Only `Tags` does that; numbers do not move it, and strings,
  blocks and values leave it after their prefix. `Tags::read_size` seeks for
  itself and is right in spite of it.
* `repartition` (layout.rs:151) returns `None` also when the sections fit and
  only the *aligned* `tags_start` passes `u16::MAX`; the packed one is not
  tried. Its doc says `None` means "the two sections simply do not fit".
  `RepartitionTotal` and `NeverCreeps` therefore ask for the aligned offset to
  be in range.
* The doc of `AsyncObjectWriter` (async_io.rs:481) says that dropping it leaves
  the temporary file behind; its `Drop` (async_io.rs:666) removes it, and
  `TempsOwned` holds because it does.

Of handles that others update in place under them:

* A handle opened before such an update reads tags at the `tags_start` it
  remembers (object.rs:146). If that is padding now, it reads an empty section,
  and `set_metadata`, which keeps the tags it reads, drops all tags without an
  error. `FreshHandlesAgree` says which handles are safe from that.
* An update in place through a handle whose path was replaced changes a file
  nobody else can open, and returns `Ok`.
* A `tags_start` behind `content_start`, or in front of the metadata, is not
  refused when a header is read: `tags_space` and `metadata_space` subtract
  without a check (layout.rs:25-32), and a torn header may be such a one.

In the encodings:

* The year of a `NaiveDate` is cut to sixteen bits (chrono_impl.rs:62): the year
  65536 is read back as 0, and a 29 February may become a date there is none of,
  which every reader refuses.
* A leap second that is not at the end of a minute, which `DateTime` allows for
  time zones with an offset of seconds, is written and then refused
  (chrono_impl.rs:143).
* The doc of `tokio_io.rs` (line 8) says that `MetadataMap` is readable by the
  async adapters; `MetaKey` has no async reader, so it is not.

## 5. Proofs

`tlapm` on `LayoutLemmas`, `LayoutProofs`, `ObjectStoreProofs`,
`AsyncObjectStoreProofs`, `InPlaceUpdateProofs`, `ContentEncoderProofs`,
`SequenceLemmas` and `CodecStreamProofs`. The theorems hold for every number of
processes, tasks, paths, files, handles, chunks, items and updates and for
sections and items of any size; what else they assume is stated with each.

### Layout

Assumptions: `LayoutAssumption` (a header of at least one byte, `u16` not wider
than `u32`) and `LayoutSessionAssumption` (the types of the constants).

`LayoutLemmas` works up from division: `AlignUpBounds` (rounds up, by less than
one alignment), `AlignUpMonotone`, `RepartitionSound` (what it returns fits and
does not move the content), `RepartitionTotal` (when it must return something),
`ComputeSound` (what `compute` returns, `repartition` accepts for the same
sizes: the fact the recursion of `finish` rests on), `ComputeKeepsFloor`.

`LayoutProofs` shows that `LayoutIInv` (types, sections apart, content in
place, copied layouts accepted) is inductive and derives `LayoutTypeCorrect`,
`SectionsNeverOverlap`, `ContentStaysPut`, `RewritingHappensOnce` and
`UpdatesNeverCreep`, each for every size, reserve, alignment and field width.

### Store

Assumptions: those of the three modules' constants, and `PowerSafe`: if power
may be lost, every caller asks for `sync`. Without it the theorem is false, as
it should be: an unsynced object may be renamed and lose its bytes.

`PublishedComplete` is not inductive. `StoreIInv` adds why it stays true:

* `WritersOwnFiles`, `WritersApart`: each writer has a file nobody else writes,
  with as many bytes as it counted, at the offset of its layout;
* `TempsUnpublished`: until it is renamed, no path names that file and no
  handle holds it;
* `FinishInOrder`: past the fit check the sections fit; past `WritePrefix` the
  header in the file is the one `build_header` makes of the writer; past the
  flush the file is not in `unsynced`;
* `CopiesHaveSource`: a copy reads a writer's or an open object's file;
* `WritersSync`, `NamesComplete`, `HandlesComplete`: everything a path names,
  or may come to name, and everything a handle holds is whole.

The proof groups the actions by what they do to files (`WriterStep`, `EndCall`,
`CreateStep`, `RenameStep`, `SyncParentStep`, `PowerStep`) and then shows, one
lemma per action, that each is an instance. From `StoreInvariant` follow
`StoreTypeCorrect`, `NamedObjectsAreWhole` (`PublishedComplete`),
`OpenObjectsAreFaithful` (`HandlesFaithful`) and, with `BytesChange` (which
files a step may change), `OpenObjectsKeepTheirBytes`
(`ReadersKeepTheirObject`).

### Store: replacements, temporary names, power loss

The last part of `ObjectStoreProofs` proves three properties, each from an
invariant of its own on top of `StoreIInv`.

* `ReplacementsAreFinal` (`RewritesOnce`), under `PowerSafe`. `OnceInv` says
  that whatever a copy goes into has a layout that accepts its own sections
  (`ComputeSound`), so a `finish` that ends a copy cannot need another
  replacement, and that only a caller without an object streams.
* `TempsAreRemoved` (`NoTempLeaks`), under `NothingCutShort`: processes are not
  killed, power is not lost, and renames and removals do not fail. Any other error,
  at any step, leaves no file behind. The property is its own invariant, with `StoreIInv` to say that every
  writer but a publishing one still has its `temp_path`.
* `SyncedWritesSurvive` (`SyncedSurvivesPowerLoss`), under `PowerSafe` and
  `ParentOpens`. `RecentInv` compares what a path may come to name with what was
  acknowledged: every such name is the object acknowledged last or one published
  later (`NamesRecent`); a synced `finish` that renamed and has not returned yet
  finds the path as new as its own object and, once it has flushed the
  directory, every name the path may come to have (`ReturnsRecent`).
  `store_barename` shows that `ParentOpens` cannot be dropped.

### Store: the register

`StoreImplementsRegister` proves `Spec => ImplementsRegister` under
`RegisterApplies`: no power is lost, the register's `Contents` contain whatever
callers write, and `None` is no object, snapshot or publication. The mapping of
`ObjectStoreRefinement` reads objects through the offsets their headers state,
so the proof needs `StoreIInv` (objects are whole) and `ContentIInv`: what is in
a file is content somebody wrote (`ContentsWritten`), a copy starts from an empty
file (`CopiesIntoEmpty`), and a setter's writer has the path, the codec and,
after the copy, the content of the handle it updates (`UpdatesKeep`).

`Open` and `Close` map to the register's own, `Rename` to the publication,
`Reopen` to the return with the new snapshot, `CallFails` to the return of an
error (or to nothing, for a writer nobody started a call with) and `Kill` to the
exit of a process. Every other step changes files no path and no handle can
reach, and maps to a stutter.

### Async store

`AsyncInvariant` proves `Spec => []AsyncIInv` under `PowerSafe` and `~GoOn`:
callers drop a writer after a write returned an error. With `GoOn` the theorem is
false (section 4: an object is published short). `AsyncObjectStoreAssumption`
gives the constants their types, and has `None` outside the files.

What makes the async store harder than the blocking one is that a file is in use
by more than its writer: a background write may still change it, and jobs whose
future was dropped still rename or unlink it. `AsyncIInv` therefore follows each
file from the job that creates it to the rename:

* `FileOf(p, k)` is the file of a writer, or the one its creating job has made
  and not handed over; `WritersApart` says no two writers have the same one.
* `WritersHaveFiles` speaks of `Coming(f)`, what a file holds once its background
  write ran: unless a write failed, it is as long as the writer counted and where
  its layout says. `poll_write` counts before the bytes are written, so nothing
  of the kind holds of the file itself.
* `NothingUnderWay` says where the code has waited for the background: from the
  flush of the prefix on, and in a source that is being copied.
* `FinishInOrder` has the fit check, the prefix and the sync in their order, and
  `JobsInStep` that the job awaited is that step's and works on that file.
* `Shown(f)` is what a name, a handle and an abandoned rename (`NamesShown`,
  `HandlesShown`, `DetachedApart`) have in common: whole, no write under way, no
  unlink queued, and no writer on it but one that is publishing it. `Cancel` at
  `renaming` needs the last part: the rename it leaves behind is of a file that
  nobody writes or removes any more, since `temp_path` was taken before.

The lemmas are one per action, on top of a few about what an action does to
files (`Drop`, the background write, a job). From the invariant follow
`AsyncTypeCorrect`, `AsyncNamedObjectsAreWhole` (`PublishedComplete`) and
`AsyncHandlesAreFaithful` (`HandlesFaithful`).

`AsyncNothingLost` (`NothingLost`) follows from `AsyncSentArrives`
(`SentArrives`), proved with `AsyncIInv`: a live file will hold what its writers were
told is written, unless a write failed and nobody was told. A file is `Live` while
a writer holds it that is not being given up, while it is open or named, or while
an abandoned rename will name it. The invariant is needed because the property
speaks of names only, and what a name gets is decided before the rename. The step
that matters is `Copy`: by `NothingUnderWay` the source was flushed without an
error, so that what is read from it is all its writer was told
(`SourceIsWhole`).

`AsyncTempsAreOwned` (`TempsOwned`) follows from `AsyncTempsInvariant`
(`TempsIInv`), and both assume `NothingCutShort`: no kill and no
power loss, no failing rename or unlink, and `creating` not in `Cancels`. Without
the last it is false (section 4). `TempsOwned` counts a file as handed over also
when the job awaited is done, so it does not say enough of the call's end:
`TempsIInv` adds that a rename or an unlink that is over has taken the name away,
and that the writer `finish_by_rewriting` replaced has given up its `temp_path`
when `finish` returns. `OwnedTemps` of a call that ends are removed by `Drop`, and
what its job had in hand is done or stays on the pool (`TempsByEndings`).

### Async store: the register

`AsyncStoreImplementsRegister` proves `Spec => ImplementsAsyncRegister` under
`RegisterApplies`: no power is lost, callers drop a writer after a failed write,
the register's `Contents` contain whatever callers write up to the bound, and
`None` is no object, snapshot or publication. Any set of awaits may be in
`Cancels`, renames, unlinks and I/O may fail and the process may be killed.

`AsyncIInv` says what can be read of an object through a name or a handle, and
`SentArrives` that it is what its writers were told is written. `RegisterIInv`
adds what the register has to know of a call before its rename:

* `SentWritten`: every content is one a caller wrote, copies included.
* `UpdateKeeps`: a setter works on a writable, uncompressed object, with one
  writer for the path of that object; once it has copied, its writer was told
  exactly the content of that object. So what it publishes, or leaves to be
  published, is an `Update` of the snapshot, not any object.
* `RenamesToPath`: the rename goes where the writer was to go.
* `LateApart`: a rename nobody waits for is the only one of its file, and no call
  is publishing that file. Without it two abandoned updates could be one in
  `late`, and one of them could take effect twice.

Every step is then of one of four kinds. `Open`, `Close` and `Return` are the
register's own. The rename of a call that waits is the publication
(`RenameRefines`); one nobody waits for is `TakeEffect` or, when it fails,
`ComeToNothing` (`DetachedRefines`). A call that ends early is nothing before its
rename is queued, `GiveUp` while it is queued, and the return of an error after
it (`EndsRefine`). Everything else writes, flushes, creates and unlinks files
that are not `Shown`, and nothing the register knows of changes (`WorkRefines`,
`JobRefines`, `WriteRefines`).

### Updates in place

Assumption: `InPlaceAssumption` (types; a header of at least four cells; two
bytes hold a `tags_start`; sections have at least one cell, `None` is no handle
and no pair of sections).

`InPlaceIInv` says of files that their cells state one place of the content and
it is there (`BytesSound`), and of handles, updates and readers that they agree
with their file about that place (`Placed`), stay in front of the content
(`WritingSound`) or inside it (`ReadingSound`). It is inductive because
`repartition` never moves the content (`RepartitionSound`), so that a cell of the
header that an update writes says what was there before, or is half of some
`tags_start`, which any reader has to expect. It gives `InPlaceTypeCorrect`,
`ContentStaysReachable` and `RangesStayExact`.

`SettledIInv` follows what is stored. An update that is still `alone` has its
first `at` cells in the file (`UpdatesBegun`), two updates of a file are never
both alone (`UpdatesApart`), a settled file is not being updated and holds its
two sections where its header says (`SettledSound`, `Holds`), and a handle in
`fresh`, or an open that will become one, has the header of its settled file
(`FreshSound`). `WholePrefix` (all cells of a prefix are a header and two
sections) and `SectionFound` (sections decode to themselves) turn that into
`SettledStaysStored` and `FreshHandlesStayRight`.

### The content encoder

`RecordedLengthIsTrue` proves `LengthIsTrue` of `ContentEncoder`. `EncoderIInv`
follows a writer through its first encoder: before it everything fed was written
directly, while it lives it counts what was fed and nothing is recorded
(`FirstEncoder`), and if it was finished (`ended`) the length is recorded where
it differs (`AfterEncoder`). Nothing is assumed of the codec.

`EncoderReadsBack` (`ReadsBack`) and `ContentEncoderTypeCorrect` are about what
the segments add up to. `ContentIInv` says that they are as long as the writer
counted and that what was fed is in them, in order (`AddsUp`), whatever the codec
has kept back. The rest of it says which of them a reader comes to: nothing whole
is without bytes (`WholeHasBytes`), so that the file is not taken for an empty
one; without a codec all is whole (`PlainIsWhole`); with one, nothing but frames
is there until somebody writes directly, and that cannot be before the first
encoder (`FramesOnly`), which has its frame from the beginning (`HasFrame`).
That is also why zstd finds a frame to decode: where no encoder was handed out
there is none, and the property asks for one (section 4).

### Induction over data

Sums, joined sequences and the readers of counted sections are recursive. The
library's induction rules take an operator, which the provers here do not find an
instance for. `SequenceLemmas` states induction over *sets* instead: `LeastNat`
(a set of numbers has a least one, from the library's well-founded order) gives
`Induct` (a set that has 0, and with each number the next, has all). A proof by
induction names the set of the numbers its claim holds of and cites `Induct`;
every recursive operator is a function with a number as its argument.

### The encodings

Assumptions: `CodecAssumption` (`MAX_PREFIXED_LENGTH` fits a `u16`, which is what
the code chooses it for) and `StreamAssumption` (every item is one that Rust's
types let through, `IsItem`; a stream holds at least one byte).

The first part of `CodecStreamProofs` is about one item. `Gives(o, buf, at, w, full)`
is what it is to read the bytes `w` where `buf` has as much of them as it reaches:
all of them lead to `full`, fewer to a short read that asks for more than there
is and for nothing behind `w`. `Chain` carries that through `AndThen`, and so
through any chain of reads: `U16Bytes`, `ReadPrefixed`, `ReadString`,
`ReadData`, `ReadValue` for the parts; `EachYields` and `CountedYields`, by
induction, for what comes in a count. On top of them there is one lemma per form,
`ValueRoundTrip`, `TagsRoundTrip`, `MapRoundTrip`, `VecRoundTrip`,
`OptionRoundTrip`, `ArrayRoundTrip`, `HeaderRoundTrip` and `ChronoRoundTrip`,
each for both sides at once: the writer's bytes, and that they are read back.
The last one goes through the digits of the raw forms of `types/time.rs`
(`DigitsOfTwo`, `DigitsOfFour`: a number is the one its bytes in two's complement
stand for) and needs to know which of them overflow. Together they are
`EveryItemReads`. The async reader is the blocking one (`AsyncKindsAreAll`: the
dispatch written by hand leaves no kind out).

`OutcomeIsDue` says that what is read is what was written, and names the only
exceptions: a header of another version, a leap second in the middle of a
minute, and a year that sixteen bits do not hold, with the 29 February that such
a year may lose.

The second part is about the stream and knows of an item only these two lemmas.
`CodecStreamInvariantHolds` proves `StreamIInv`:

* `Consecutive`: every item begins where the one before it ends;
* `WrittenAsSent`: `written` and `outgoing` together are the bytes of the items,
  except that the last one may be cut where the writer was dropped. `Has` is what
  the first part asks of a buffer;
* `ReadSoFar`: the reader began its item where the writer did, has taken less
  than the whole of it, and everything before was received;
* `StoppedAt`: it stopped inside an item that was cut, or at one that
  `OutcomeIsDue` names.

`OutcomeOfTaken` is the step between the two: of an item of which some bytes are
taken, the outcome is a short read as long as they are not all, and the one that
is due when they are. Because no read asks for a byte behind the item,
`ReadSome` cannot run over its end. From the invariant follow
`CodecStreamTypeCorrect` (`TypeOK`), `CodecStreamFramedInOrder`
(`FramedInOrder`), `CodecStreamFailsForAReason` (`FailsForAReason`) and
`CodecStreamDrainedMeansRead` (`DrainedMeansRead`).

The third part is about lengths and lookups. `Sized(o, n)` says of a write that it
made `n` bytes, if it did not fail; `ThenSized` adds two writes up, and with a lemma
per form (`ValueSized` to `HeaderSized`) `SizeIsLength` follows: `size` is what is
written, for every item of every form. `WholeItem` puts that into the stream,
`TagsMeasured` shows by induction that `read_size` comes to the same number where a
section lies, and `CodecStreamSectionsMeasured` (`SectionsMeasured`) is both.
`find_from_reader` returns at the first entry with the key and reads past the
others. What it has found after `m` entries is `FoundIn`: a short read before the
`m`-th ends, the value of an entry with that key, or nothing yet because none of
them has it, and then it stands where the next one begins. `TagsFound` is that
induction, for whole sections and torn ones, and gives
`CodecStreamFindsWhatWasWritten` (`FindsWhatWasWritten`).

### Only model-checked

* `SettersSucceed` and `OrphansGo`: liveness under fairness is out of the
  prover's reach.

## 6. Not modelled

* In the store, the bytes: a section is a value with a size there. In
  `InPlaceUpdate`, cells are bytes of a section, without what they say. In
  `Codec`, what the bytes of a number or a text mean, `read_from_bytes`,
  `read_with_size` and `skip` by seeking.
* `usize` overflow in the sums of `layout.rs`.
* Failures of the synchronous `remove_file` in the `Drop` of the async writer, and
  of a flush of the directory that was opened (both ignored by the code). The
  blocking writer's removals do fail in the model, and so does the one that the
  async `abort` runs on the pool.
* What the `write_to_writer` of a section, map, vec, option or array leaves in a
  stream when a later entry cannot be encoded: count and entries before it. The
  code of the crate that writes to files encodes into a buffer first, and
  `CodecStream` has every writer do so.
* Torn writes *inside* a file that has no name: such a file is dropped or lost
  whole. Torn writes of an in-place update are in `InPlaceUpdate`.
* The choice of temporary names: the 32 attempts of `create_temp_file` against
  names that earlier processes with the same pid left behind. Names are taken as
  fresh.
* A partial background write: what fails has written nothing. The file is given
  up, or (with `GoOn`) published short either way.
* What the codecs compress to, and when they write it: left open.
* The clock that `now_chrono_local` and `now_chrono_utc` ask.
* The parsing of the derive macros' attributes, and the command line, a stub.

## 7. Plan

Done: every module of section 2 and the proofs of section 5. What is left:

* `TempNames`: the attempts of `create_temp_file`.
