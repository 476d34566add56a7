# A TLA+ model of search-index-library

search-index-library builds inverted indexes in files and queries them from
memory; it also serializes single documents, matches sets of terms against
them and chooses snippets to show. This directory models all four, checks them
with TLC on small instances and proves most of the safety properties for all
sizes with TLAPS. `PROJECT.json` maps every definition to the lines of the
source it stands for and lists the hazards the properties are aimed at.

To check: `tlc -config cursor.cfg MCTermCursor` (and likewise for the other
rows of the table of runs); to prove: `tlapm SearchIndexProofs.tla` (and
likewise for the other modules with `Proofs` in their name, and
`DataInduction`).

## The system

| Component | State | Operations | Source |
|---|---|---|---|
| Search builder | the document in `global_bh`, its length, `current_id`, `max_id`, the totals, two external sorters | `global`, `term`, `wterm`, `*_position`, `*_value`, `destroy` | `sil_search_builder.c` |
| Posting format | none: bytes | `compress_groups` and below, `advance_id` and below | `sil_search_builder.c:272-456`, `impl/sil_term_impl.h`, `impl/sil_constants.h` |
| Search image | table of headers by id, sorted table of terms, term data | `init`, `global`, `content`, `embeddings`, `term` | `sil_search_image.c` |
| Term cursor | `id`, `value`, group id, five pointers into the term data, decoded positions | `advance`, `advance_to`, `sil_term_decode_positions` | `sil_search_image.c:173-326`, `impl/sil_term_impl.h` |
| Document builder | a list of terms with positions and values, the document's length | `term`, `term_position`, `term_value`, `global` | `sil_document_builder.c` |
| Document image | pointers into one serialized document | `init`, `term`, `match_term`, `terms` | `sil_document_image.c` |
| Term sets | query terms with frequencies and position buffers | `construct`, `copy`, `update_frequency`, `prepare`, `match_set` | `sil_document_image.c` |
| Snippets | term occurrences, a cluster of them, the recursion over its region, the snippets so far | `snippet_position_sort`, `snippets_create`, `snippets_top` | `snippets.c` |
| Pair proximity | none | `sil_pair_proximity` | `impl/sil_term_impl.h:218-243` |
| Scoring | none | BM25, spread | `impl/sil_term_impl.h` |

A client announces a document to the builder with `global`, then adds its
terms; records go to two sorters (the-io-library), one of documents by id, one
of (term, id, position). `destroy` reads both back in order and writes six
files: `_gbl`, `_embeddings`, `_content`, `_term_idx`, `_term_data` and
`_stats.txt`. The image loads them; a lookup finds a term by binary search and
makes a cursor that points into the bytes of `_term_data`. There is no
threading in the library itself and no shared mutable state between a builder
and an image except these files.

What is hard here is not scheduling but agreement at a distance: an encoder and
a decoder written in two files; five pointers moved by four functions; sizes
that one side counts and the other trusts (`max_id`, `max_positions`, the
length of a term block); statistics counted per call over records that a
reducer drops afterwards; a protocol (announce first, then add) that nothing
enforces. What makes each component correct:

* builder: every posting belongs to a document that is written; offsets are
  those of the right document; statistics describe the files; the table
  entries point at the right blocks.
* format and cursor: what was written is what is read, for every width of
  every field; the windows stay nested; buffers are large enough; the end is
  found.
* image: a query returns exactly the documents its term was added to.
* documents: a serialized document shows what its client added, and nothing of
  the document before, wherever its buffer is; a lookup finds a term exactly when the document has it.
* term sets: a match shows the terms and positions of the document it was made
  against and nothing of another, except for values (see Findings), whatever was passed, combined, copied and prepared before, in
  buffers that were sized by earlier passes.
* snippets: in order, disjoint, within the limit, every occurrence in exactly
  one of them; of the snippets a query won, the chosen ones show each term that
  any of them has exactly once.

## Modules

| Module | Models | Lines of the code |
|---|---|---|
| `PostingFormat` | the byte format: all encoders and decoders as operators on sequences of bytes | `sil_search_builder.c:272-456,511-546`, `sil_term_impl.h:70-103,262-328`, `sil_search_image.c:13-30` |
| `TermImpl` | the cursor's functions as operators on a record and a memory | `sil_search_image.c:173-326`, `sil_term_impl.h:246-259` |
| `PostingCursor` | the abstract cursor: a list of postings and an index into it | what `sil_term.h` promises |
| `TermCursor` | the cursor as a state machine, one action a call; shown to implement `PostingCursor` | as `TermImpl` |
| `SearchBuilder` | the builder as a state machine, one action a call | `sil_search_builder.c` |
| `DocumentFormat` | the bytes of one serialized document: layout, 8-bit control words, lookup and merge | `sil_document_builder.c:66-213`, `sil_document_image.c:8-33,217-297`, `impl/sil_document_image_impl.h`, `sil_term_impl.h:330-350` |
| `DocumentBuilder` | the document builder, one action a call | `sil_document_builder.c` |
| `DocumentImage` | builder and image: a lookup in the document built last and the cursor it returns, one action a call | `sil_document_image.c:8-72,283-340` |
| `TermMatch` | the abstract term sets: counts and matches of lists of records, no bytes and no buffers | what a client sees of `sil_document_image.c:100-281` |
| `TermSet` | builder and term sets matched against its documents, one action a call; shown to implement `TermMatch` | `sil_document_image.c:100-281` |
| `PairProximity` | the walk over two position lists | `sil_term_impl.h:218-243` |
| `Snippets` | sorting occurrences, segmenting, choosing; one action a call or an iteration | `snippets.c` |
| `SearchIndex` | builder, files, image and cursor together, and a client's query loop | `sil_search_image.c` on top of the above |
| `MCTermCursor`, `MCSearchBuilder`, `MCSearchIndex`, `MCDocumentImage`, `MCTermSet`, `MCSnippets` | instances for TLC | |
| `Sorting` | what a sort leaves: the orders of a set that the client's comparison allows | the calls of `io_sort` and `quicksort` |
| `TermCursorProofs` | theorems about `TermCursor`, and that it implements `PostingCursor` | |
| `PostingFormatProofs` | theorems about `PostingFormat` and `TermImpl`: round trips, the layout of a term, and how a cursor moves in it | |
| `SearchIndexProofs` | theorems about `SearchBuilder` and `SearchIndex` | |
| `DocumentBuilderProofs`, `DocumentImageProofs` | theorems about `DocumentBuilder` and its use by `DocumentImage` | |
| `TermSetProofs` | theorems about `TermSet` | |
| `SnippetsProofs` | theorems about `Snippets` and `PairProximity` | |
| `DataInduction` | lemmas: minimum and maximum, functions that descend, sums over sets, concatenation, sorting | |

`SearchIndex` EXTENDS `SearchBuilder` and `TermImpl`; both EXTEND
`PostingFormat`. `TermCursor` INSTANCEs `PostingCursor` under the refinement
mapping `Promise`. `DocumentImage` and `TermSet` EXTEND `DocumentBuilder`, which EXTENDS
`DocumentFormat`, which EXTENDS `TermImpl` for the fields a document's postings
share with an index's. `TermSet` INSTANCEs `TermMatch` under the mapping `TM`,
which forgets bytes, sizes and buffers and keeps what a client reads. `Snippets`
EXTENDS `PairProximity` and shares nothing with the rest: a client collects the
occurrences from the cursors.

State. The variables of `SearchBuilder` have the names of the fields of
`struct sil_search_builder_s`; the two sorters are the sets `term_data` and
`global_data`. `t` in `TermCursor` and `SearchIndex` is `sil_term_ext_t`; a C
pointer is an index into a sequence of bytes; `t.fresh` stands for "the
callback is `sil_search_image_first_advance`"; `hits` is not in the code and
changes with each id that `advance` returns, so that an id returned twice is not
mistaken for no step at all. In `DocumentBuilder`, `term_bh` and
`document_length` are the builder's fields and `documents` what it has written
(with what it was given). The records of a document are a bag in the code; here
`term_bh` is a set, and each record has the number of equal ones before it. `DocumentImage` adds the cursor `t`, whose `advance`
names its callback, the term `asked` for, and what `advance` returned. In
`TermSet`, `sets` are the term sets and `heap` the arrays `prepare` allocates,
shared by the sets that point at them; `passed` and `ready` are not in the code:
they remember which documents a set was passed over and which of them a
buffer's sizes come from. In `Snippets`, `calls` is the C stack of
`segment_document`: its first entry is the call (or the append) to run next, and
a call is replaced by the calls and the append it makes. `cluster`, `p` and
`begun` are locals of the loop of `snippets_create`, `bh` its buffer of
snippets, `mask`, `rest` and `chosen` the array `_snippets_top` swaps entries of.

Abstractions. Strings are numbers in the order of strcmp (in the document
modules a string has one letter, which is its number, so that the builder's
lower-casing is done, while the tokens of a query are those the client's callback
returns, which nothing changes any more; the letter 200 stands for the string
"a*", which is behind "a"). A pointer into a document is an offset in its buffer;
only the alignment of its embeddings takes the buffer's address. The bytes of
contents and embeddings are cells tagged with the call that announced them, so
that a slice of a file tells whose it is. A content's cell count includes the
four bytes of its length; an embedding of 512 bytes is one cell. The sorters'
`io_keep_first` keeps one of several equal records, any one: the choice is an
`\E` in `Destroy`. The printf-style variants are the calls they make. Sums are
unbounded except the two bit fields of the global header, which wrap at
`ContentOffsetLimit` and `EmbeddingsOffsetLimit`. The bytes of the posting
format are not abstracted at all. The scores of `snippets.c` are logarithms and
quotients of weights the client gives: where they decide between alternatives
`Snippets` lets any win, and it takes weights to be positive, so that a
snippet scores more than zero exactly when its mask is not empty.
`PairProximity` returns the distance before it is turned into a score.

An operator called `Name_Something` is `Name` with a bug a programmer might
have made. No specification uses it; substituted for `Name` it makes a property
fail, and which one is in `PROJECT.json` under `mutants`.

## Runs

| Run | Instance | Properties |
|---|---|---|
| `cursor` | two terms, the list under test first or second: any two of 23 shapes of postings side by side; any 3 to 5 of 8 ids at the edges of all groups; one group with a three-byte length | `TypeOK`, `WindowsNested`, `PositionsFitBuffer`, `Implements` |
| `builder` | 2 ids in different small groups, 2 terms, 3 calls of `global` and 3 of the term calls in any order, offset fields of 2 and 4 bits | `TypeOK`, `IdsFitTable`, `PostingsHaveDocument`, `SlicesOwned`, `StatsMatchFiles`, `LengthsCoverPositions`, `IndexPointsAtTerms` |
| `document` | up to 4 of 12 records in a document (the letters 'A' and "a*", positions of one to three bytes, values in and behind the control word), in every order the sort leaves, and a second document of at most 1 record; an embedding of 64 bytes; a buffer at a multiple of 64, at one of 16 only and at an odd address; one lookup of "a", "b" or "a*", followed to its end with decoding anywhere | `ImageIsDocument`, `LengthIsOwn`, `LookupIsExact`, `TermsFitArray` |
| `term_set` | 2 documents of up to 1 and of 2 records, 2 sets of a query with a repeated token, frequencies up to 2 of passes and what combining and copying makes of them, 2 calls of `prepare`, in any order | `TypeOK`, `MatchFitsBuffer`, `SetsImplement` |
| `snippets` | up to 4 occurrences at 7 places of 2 terms, one of either and one of both of 2 queries; limits 2, 3 and 6 that shrink from the start of the document on | `TypeOK`, `SnippetsInOrder`, `OccurrencesCovered`, `MaskIsOfRange`, `ClustersMarked`, `TopCoversOnce`, `ProximityIsExact`, `SnippetsEnd` |
| `index` | 2 ids in different high level groups, a term and its wildcard, 2 documents, 3 term calls, one query | `IndexTypeOK`, `QueryIsExact`, `HitIsAsAdded`, `HitHasHeader`, `QueryEnds` |
| `cursor_wide_delta` | two positions 2^28 or more apart | `DecodedAsStored`, violated |
| `cursor_stale_value` | a posting without a value after one with a value | `ValueOfPosting`, violated |
| `cursor_skip` | a skip to the first id of the second high level group | `SkipLandsOnPosting`, violated |
| `cursor_end` | a short term in front of one of more than 255 bytes | `EndIsReported`, violated |
| `document_prefix` | an image made of the whole buffer the builder filled | `ImageIsDocument`, violated |
| `builder_readme_order` | clients that add terms before they announce the document | `WrittenPostingsHaveDocument`, violated |

Why the bounds are enough. The format has a fixed number of forms for each
field (values of 0, 1, 2, 4 bytes, blocks with a short and a long length, four
bases, varints of 1 to 4 bytes, groups with short and long lengths) and
`MCTermCursor` has each of them on both sides of its edge, next to every other
one. What a cursor does depends on the posting it is on and the group boundary
behind it, so lists of two postings and up to five groups show each transition.
In the builder the interesting cases are documents announced out of order or
twice, records that the reducer drops and offsets that wrap: two ids, three
calls of each kind and small fields give all of them. Its only position is 5;
`term_position` at 0, which counts as no position, is in the `index` run. A set's state depends on a document
through the terms both have and the number of their positions, so two documents,
one passed and matched after the other, show what a document leaves behind for
the next; two sets and two allocations show what copies share. `term_set` builds
its documents first (builder and sets have no variable in common), the smaller
first, and only one letter without a position, as `SmallDocuments` says; in
`document` the second document is there for what the first leaves in the builder
and has one record at most (`SmallSecond`). In `snippets` the limit at the start
of the document is twice that at the end, so that gaps on both sides of it, regions
without an occurrence, such regions too long to be a snippet, and up to four
snippets in one cluster all occur; more occurrences repeat the recursion.
In both document runs an
embedding has 64 bytes or none where the code has 512: only the alignment to 64
matters. The four- and five-byte
group lengths (64 kB and more) are beyond an instance; `GroupRoundTrip` proves
them, and `CursorKeepsPromise` that the cursor steps over such groups.

`GlobalFirst = TRUE` is the client protocol of README.md:114-116: a document is
announced before its terms. The clients of the `cursor` run are restricted in two
ways, both under `SkipAnywhere = FALSE`. Targets of `advance_to` are those
`CoversTarget` accepts, the ones the code handles; without this the run would only
rediscover `cursor_skip`. And a client whose first call was an `advance_to` goes on
with `advance_to` (`SkippedFirst`): the next `advance` would repeat the id, which
`PostingCursor` does not allow, and without this `Implements` is violated.

Deadlock is checked in the cursor runs. In `builder` and `index` a behaviour
ends when the files are written, or when the client's queries are used up, so
deadlock is not checked there; nor in the runs of `MCDocumentImage`,
`MCTermSet` and `MCSnippets`, where it ends when the bounded calls are used up or
the snippets are chosen.

`MatchSet` is restricted to documents the set (or one combined into it) was
passed over before `prepare`, the use the interface is made for: `match_set`
has no check of its own, and any other document may overrun its buffers. A
copy shares the buffers of its original until it is prepared; either may be
matched, and `TermMatch` lets the positions the other one shows change with it,
and nothing else. A pass decodes with the cursors a match uses
(`sil_document_image.c:232`), so it changes the value a match has shown, and
`TermMatch` says to which (`ValueShown`). When records of a term without a position
have several values, any of them may be the one shown (see below); `LookupIsExact`
then asks for none.

Fairness. `QueryEnds` needs WF of `Advance` in `SearchIndex`: the loop
`while(advance)` of a client that keeps running. `SnippetsEnd` needs WF of the
whole next step of `Snippets`: three calls one after the other by one thread,
none of which waits for anything. Nothing is assumed of the builders or of other
calls.

## Findings

* `cursor_wide_delta`: `__decode_high_bit32` drops bytes 2 to 4 of a five-byte
  varint (`sil_term_impl.h:101`).
* `cursor_stale_value`: `advance_id` leaves `value` as it was when a posting
  has none (`sil_term_impl.h:317`).
* `cursor_skip`: `advance_group_to` may return with `p` in the old group
  (`sil_search_image.c:221`).
* `cursor_end`: `etp` is eight bytes too far (`sil_search_image.c:298`). The
  bytes of the next term's length are then taken for a group; this goes
  unnoticed while that term is shorter than 256 bytes, since the "group" then
  looks empty, or the file ends with zeros behind it.
* `builder_readme_order`: the README's minimal example adds terms before the
  document they belong to.
* `document_prefix`: the README and `test_document_builder.c` initialise an
  image on the buffer the builder filled, whose first four bytes are a length
  and not the header (`sil_document_builder.c:201`). The other document runs
  point the image behind them (`DocumentAt = 5`).

More disagreements are modelled as the code has them and have no run of
their own:

* `num_terms` of a document counts the calls and not the terms
  (`sil_document_builder.c:183`). `TermsFitArray` shows that the array
  `sil_document_image_terms` makes of it is never too small, but when a term was
  added twice its last entries are never written, while the usage loop in
  `sil_document_image.h` and the test iterate over them.
* A term added both plainly and with a value may lose the value, since records
  at the same position are sorted in no particular order; `LookupIsExact` asks for
  a value only when every record without a position has it, and `TermMatch` allows
  each of the orders.
* `match_set` and `update_frequency` leave the value of a term as it was when the
  posting stores none, because the term has positions only or a 0 beside other
  records (`advance_document_id`, `sil_term_impl.h:339-349`): a document with "a" at
  position 300 shows the value 40 of the document matched before, and a client
  cannot tell. It is `cursor_stale_value` over again, across documents. `ValueShown`
  of `TermMatch` says exactly when it happens, the `term_set` run has the case, and
  no other part of an earlier match survives.
* `advance` after a first `advance_to` returns the id again that `advance_to`
  returned: the lookup's callback `sil_search_image_first_advance`, which stays on
  the posting, is still in place (`sil_search_image.c:186-190`), while `sil_term.h:24-26`
  has each `advance` go to the next id. `PostingCursor` goes on; the clients of the
  `cursor` run and of `CursorKeepsPromise` do not make this call.
* The embeddings of a document image are found only if the buffer it is in starts
  at a multiple of 64. The builder pads their offset in the buffer
  (`sil_document_builder.c:206-210`, "this will make the whole buffer be aligned by
  64"), `sil_document_image_init` rounds their address up
  (`sil_document_image.c:15-17`), and nothing aligns the `aml_buffer_t` between them;
  only the embeddings of a search image are read to an aligned address. At any other
  address the image takes other bytes, up to 63 of them outside the document, for
  embeddings: `ImageIsDocument` says for which addresses, and
  `ImageAlwaysShowsDocument` proves it for all.
* Position 0 stands for no position in the encoders (`sil_search_builder.c:342`,
  `sil_document_builder.c:138`), while README.md:66-67 gives it as an "explicit
  position" of a term. A term at position 0 is a plain one when it is read, and a
  plain call beside positions may read as a position 0, so `HitIsAsAdded`,
  `LookupIsExact` and `TermMatch` compare positions without the zeros.
* `snippets.h:34` says that `snippet_position_sort` merges "where the position is
  equal"; the code merges where the term is the same one, too (`snippets.c:290-292`),
  and `OccurrencesCovered` needs it to.
* `valid_expansion_term` returns false before it looks at the term
  (`sil_search_builder.c:157`), so the `wterm` calls store no wildcard, which
  `sil_search_builder.h` and README.md:70 say they do. Wildcards in the models
  are terms a client adds itself.
* `sil_document_image_terms_to_buffer` appends `sizeof(id)`, four, bytes for each
  term (`sil_document_image.c:346`), so the pointer to the term is not in the
  buffer that `sil_document_image.h:101` says "can be used to build an inverted
  index".
* `advance_to` on the cursor of a document image returns true for every id
  (`sil_document_image.c:47`), also behind the only one; the model calls it with
  that one.
* Pair proximity counts no pair of equal positions, and after one may step over
  the nearest pair in the wrong order (positions 5 and 300 of the first term, 5
  of the second: no distance at all). `ProximityIsExact` asks for the exact
  distance when the lists have no position in common and for no smaller one
  otherwise.

The `cursor` and `index` runs pass because they stay clear of these: no
position gap of 2^28, `PostingCursor` leaves the value of a posting without one
open, targets and first calls as above, no long term behind another one, zeros
behind the file.

## Proofs

`SearchIndexProofs` (from `BuilderAssumption` and `NoDocumentAssumption`, and for
the index `IndexAssumption` and `NoHeaderAssumption`):

* `BuilderInvariant`: `Spec => []BuilderInv`. `BuilderInv` is `TypeOK` and four
  parts that make it inductive. `LengthInv` (a document is not longer than the
  calls made) is needed because `TypeOK` bounds the length of a document by
  `MaxTerms`; `MaxInv` relates every announced id and the current one to
  `max_id`; `OwnerInv` says the document in the buffer has the current id, and
  that with `GlobalFirst` every record has a document; `FilesInv` says what is
  in the files when they are written.
* `TypeCorrect`, `IdsAlwaysFitTable`, `PostingsAlwaysHaveDocument` follow: the
  second is why `gbls[*id]` needs no check in `sil_search_image_init`, the third
  is why a hit always has a header, when clients announce first.

* `LengthsAlwaysCoverPositions`. Positions are counted where the sorter keeps
  them, the length where the calls are made, so `LengthsInv` has to relate the
  two while documents move from the buffer to the sorter: `TagInv` tells
  documents with one id apart, `CountInv` says that without reused ids each
  length bounds the positions sorted so far (a call then adds to no document but
  the current one), `HeaderInv` that the headers are those of sorted documents.
* `StatsAlwaysMatchFiles`, from `TotalsInv`: the two totals count the sorted
  documents and sum their lengths, which tags keep apart, and `WrittenInv`: what
  is in the files is `Written` of some documents and records the reducers keep.
  Without reused ids the reducer keeps all documents, so the sums agree.
* `SlicesAlwaysOwned`, from `WrittenInv`. Documents are written by ascending id
  (`DocumentsInOrder`), the cells of each behind those of the ones before it
  (`CellsInOrder`); an offset is the sum of lengths, and as long as it fits its
  bit field the slice found there is the document's own (`SliceOfField`).
* `IndexAlwaysPointsAtTerms`, under `FilesInWidths`: a term's block is behind the
  blocks of the terms before it, so the offset in the table, a sum of lengths, is
  where it starts (`BlockInFile`); that the numbers in its header are those of
  this term (`HeaderCounts`) is a fact about all records that the reducer kept.

The rest is about clients that read the index (`IndexSpec`), any number of
queries over an index of any size. `IndexInvariant` is the builder's invariant
and `ReaderInv`: what a client has asked for and seen (`QueryInv`), and while it
holds a cursor, that the cursor stands on a posting of the term it asked for, in
the layout of that term (`ReadsTerm`), and that the ids seen are those of the
postings up to there.

* `QueryIsAlwaysExact`: a query that ran to its end has returned each document
  its term was added to and no other, and a lookup that returns nothing had
  nothing to find. It joins four parts: what a client adds is in the sorter
  (the builder), is one set of records of the files (`WrittenTerms`), is the list
  of postings of one term (the format) and is what the cursor walks over
  (`PostingFormatProofs`). `MatchesAsked` is the lookup with its wildcard.
* `HitIsAlwaysAsAdded`: the positions decoded are those of the client, in order.
* `IndexTypeCorrect`: no hit is outside the table of headers, which
  `sil_search_image_global` relies on without a check.
* `HitAlwaysHasHeader`, for clients that announce documents first (`GlobalFirst`)
  and files within the offset fields (`FilesInOffsets`): a hit has a header, and
  the header leads to the document it should.

These hold under `FilesReadable`: what clients added fits the widths of the
format (`FilesInWidths`, which the builder does not check), and the eight bytes
that `etp` takes in behind a term read as empty groups. The second excludes
indexes that have a block of 256 bytes or more behind another one, for which
`cursor_end` shows the code to be wrong. Two theorems derive it from what clients
pass, and a third the first half of it. `NarrowInput` is the condition on numbers: values of 32 bits
and positions below 2^28.

* `ShortListsAlwaysReadable`: with such numbers the files are readable as long as
  no term has more than 53,687,091 records (`ListsFit`), and every term behind
  another one has at most 8 (`ShortLists`). It rests on how long a block is: a
  record takes at most 17 bytes in its posting (`PostingIsShort`), and 12 more when
  it alone needs a small group and a high level group around it, so a term takes
  at most 29 bytes a record (`TermIsShort`). The groups share the records out; `JoinedIsShort`
  sums over them. `BytesBehind` says what is behind a block: the length of the
  next one and its most positions, which in a block this short are one byte each.
* `FilesAlwaysInWidths`: a client that makes at most that many term calls, in any
  order, gets an index that fits the widths and points at its terms. `RecordsInv`,
  that a call adds one record at most, is the invariant it needs.
* `FewCallsAlwaysReadable`: with at most 8 term calls, `QueryIsExact` and
  `HitIsAsAdded` hold without a condition on the files, for every choice of
  ids, keys, positions and values. `InstanceNarrow`, which TLC evaluates, says that the
  `index` run is such a client, so its files are readable and these theorems are
  about all of its states.

`PostingFormatProofs` (no assumption): for all values, at any place of any
memory, decoding undoes encoding and stops at the right byte.

* `SingleValueRoundTrip` and `PositionValueRoundTrip` hold for 32 bits,
  `VarintRoundTrip` below 2^28 (above it the code is wrong), `GroupRoundTrip` for
  all three forms of a length, `ControlWordRoundTrip` and `IdLevels` for the three
  levels of an id below 2^26. The argument is one of digits: a number is its
  lowest byte (or 7 bits) and the rest, repeated.
* `DecodedExact` and `PostingReadBack` put these together: any posting of any
  number of positions, each less than 2^28 behind the one before, is read back,
  and reading ends where the next posting starts.
* The rest of the module is the layout of a whole term. `Joined` is what a fold
  of the writer over a set in ascending order leaves; wherever it is stored, its
  pieces tile the bytes (`Tiled`): in the order of their ids, without a gap or an
  overlap. Applied to postings, small groups and high level groups it gives
  `Layout`, which says where each of them begins and ends. Nothing else about the
  writer is needed to say what a call of the cursor does: from a posting of the
  layout to the next one, to the first one that is not below the target, or to the
  end. `TermCursorProofs` and `SearchIndexProofs` use these lemmas.

`TermCursorProofs` (from `CursorAssumption`, `Readable(Indexes, Tails)` and
`SkipAnywhere = FALSE`): the cursor on any index, of any number of terms and
postings.

* `CursorInvAlways`: `Spec => []CursorInv`. An open cursor that has not returned
  false stands on a posting of its own term (`On`): for some `Layout` of the
  term its windows are those of the two groups around the posting, its `p` is
  the end of the posting and what it holds is what the posting says. Nesting
  alone is not inductive: that a pointer is inside a group does not say that a
  posting begins there. The layout is bound by an existential over functions, so TLC
  cannot evaluate `CursorInv`; it checks what follows from it.
* `CursorTypeOK`, `WindowsAlwaysNested`, `PositionsAlwaysFit` follow. The last
  relates a number in the header (`MaxPositions`) to what decoding any posting of
  the term appends one by one.
* `CursorKeepsPromise`: `Spec => Implements`, the refinement of `PostingCursor`,
  one lemma for each action. `advance` moves to the next id of the term, across
  a group or two where there are no more postings in this one; `advance_to`
  to the first id that is not below the target. The loops of the reader are
  functions defined by recursion; `LoopExists` and `LoopResult` say that a loop
  which comes closer to its end with every round has the result of its last one.

`Readable` (in `TermCursor`; `ReadableIndex` and its parts are in `PostingFormat`)
is what an index must be: ids below 2^26, values and
block lengths of 32 bits, gaps between positions and lengths of position blocks
below 2^28, a record for each id and position only once (the reducer), and zeros
where the eight bytes behind a term would be taken for the lengths of groups
(`EmptyBehind`). The last is a condition only because `etp` is eight bytes too
far; `cursor_end` shows what happens without it, `cursor_wide_delta` what a gap
of 2^28 does. `SkipAnywhere = FALSE` keeps targets to those `CoversTarget`
accepts, which `cursor_skip` shows to be necessary, and has clients call no `advance`
after a first `advance_to` (`SkippedFirst`), where the code repeats an id. TLC evaluates `Readable` for
the instance of the `cursor` run (`InstanceReadable`), so the theorems are about
all of its 82,463 states, and about every longer list of postings.

`DocumentBuilderProofs` and `DocumentImageProofs` (from
`DocumentFormatAssumption` and `DocumentBuilderAssumption`): `DocumentInv` is
kept by every call of the builder. `RecordsInv` says that equal records are
numbered without a gap, so that the next one is new and a call adds one to the
number of records; `LengthInv` that the length is between the records with a
position and all of them; `DocumentsInv` that so it was for each document when
it was written, and that what is in the memory is `Blob` of the records in the order
of `sort_term_data`. `LengthIsOwnAlways` follows: nothing of the document before
is in a length. `TermSet` shares the builder and its invariant.

* `ImageAlwaysShowsDocument` and `TermsAlwaysFitArray`. `BlobShown` follows the
  header through the bytes to each part; `AlignedPlace` says that rounding up an
  address and rounding up an offset agree for buffers at a multiple of 64 and for no
  others. The terms are where `Walk` says: at
  `at[x]` for each letter `x`, one behind the other in ascending order. `AreaWalk`
  derives that from `Joined`, the layout lemma of the posting lists, and
  `DocumentPostingBack`, the same round trip as `PostingReadBack` for a control
  word of 8 bits; that `sil_skip_id` and `advance_document_id` end at the same
  byte (`SkipIsAdvance`) holds for any bytes. Records with the same position all
  stay in a document, so the lemmas of the codec are about positions that ascend
  weakly; the reducer's strict order is only needed of an index.
* `LookupIsAlwaysExact`. `CursorInv` keeps the cursor with the posting it was
  filled from (`FilledFrom`), decoded or not, and `PassesOnce` relates what
  advance returned to how often it did; from there `MatchFinds` (the walk of a
  lookup finds a letter of `Walk` and nothing else) and `PostingShown` (what is
  decoded is what the records of that letter say) give the property.

These assume `DocumentAt = PrefixSize + 1`, an image behind the length (see
`document_prefix` for the other one), and are about documents that fit the widths
(`LastInWidths`): values and lengths of 32 bits, positions of a term less than
2^28 apart. Nothing in the code checks that. All documents of the `document` run
fit them: the largest values and positions there are 300 and 70000.

`TermSetProofs` (from `TermSetAssumption` too): `TermSetsTypeOK` and
`MatchFitsBufferAlways`, from `TermSetInv`. `MatchFitsBuffer` is about the
buffers and the match just made, while the sizes come from passes long before,
perhaps of other sets. `SetAscends` keeps the terms of a set in order, so that a
merge visits each once; `SetPassed` says that a set is sized for each document
that was passed over, combining and copying included; `SetReady` that the
buffers `prepare` allocated are large enough for each document they were sized
by, and stay so when only one of two sets that share them is prepared again.
TLC checked `TermSetInv` on 175,996 states before it was proved.

`TermSetsImplementTermMatch` is the refinement, from the same invariant:
`Spec /\ []AllInWidths => SetsImplement`, with `DocumentAt = PrefixSize + 1`.
`AllInWidths` is `DocumentInWidths` of each document; nothing in the code checks
it, and all documents of the `term_set` run fit. Its argument has three parts:

* The merge. `MergeFinds` of `DocumentBuilderProofs` says that two ascending
  lists, the postings in the bytes of a document (`Walk`) and the keys of a set,
  meet in each key that both have and in no other. `DocumentRead` adds that what
  is decoded there is what the records of that key say.
* The buffers. `OverwrittenShows`: a match writes a buffer from its start and sets
  the end behind what it wrote, so every cell a client sees is one just written.
  A term the document does not have is marked unmatched (`Missed`); its old
  positions and value stay, as `TermMatch` says they do. `ValueFollows` has the value
  of a term the document has: that of its first record, or the old one.
* The steps. One lemma for each call (`ConstructImplements`, `CopyImplements`,
  `PrepareImplements`, `AddSetFreqImplements`, `UpdateFrequencyImplements`,
  `MatchImplements`): it is the action of `TermMatch`, and what it does to other
  sets is what that action allows, positions in shared buffers.

The theorems about `Snippets` hold for every document, limit and set of queries
that `SnippetsAssumption` admits (the widths of the masks, limits of at least one
token), and whichever alternatives the scores prefer:

* `SnippetsInvariant`: `Spec => []SnippetsInv`. That snippets ascend is not
  inductive, since where the next one goes depends on the calls that are
  pending. `QueueInv` makes the snippets in `bh` and the regions of the pending
  `calls` one ascending list; `PastInv` ends it before the occurrences that no
  cluster has had; `CallsInv` says which phases have calls and that an append has
  the region of its snippet. `SnippetsTypeCorrect` and `SnippetsAlwaysInOrder`
  follow.
* `OccurrencesAlwaysCovered`, from `CoverInv`: sorting keeps what was given
  (`GivenInv`), and the place of each occurrence of an earlier cluster is in a
  snippet or in a pending region (`PlacesInv`). A region is dropped only when no
  window is found in it; it then has no occurrence of the cluster, since a single
  occurrence is always a window and counts are at most 128 (64 terms, each
  counted once or twice), so one window counts most; and it has no other, since
  the regions begin with the cluster (`ClusterInv`). That a place is in one snippet only is `SnippetsInOrder`.
* `MaskIsAlwaysOfRange` and `ClustersAlwaysMarked`, from `FieldInv`. The best
  window may count only some of the occurrences at its two ends; the window with
  all of them is a candidate too and does not count more, so it has the same
  terms (`MaskInv`, and `PendingInv` for snippets not appended yet). `MarkInv`
  tells the snippets of the current cluster, all marked as followed by
  another, from those of earlier ones; when a cluster is finished its last snippet
  holds its last occurrence.
* `TopAlwaysCoversOnce`, from `TopInv`: a step of `_snippets_top` loses no term
  (`TermsInv`), a chosen snippet shares none with the others of its query
  (`DisjointInv`), and at the end nothing that is left has terms (`StateInv`).

* `ProximityIsAlwaysExact`, about the walk over the positions of two terms of a
  document: each step either counts the pair it stands on or leaves only pairs
  behind that are further apart, so what is found is never too small, and the
  smallest when no position is in both lists. Positions are below `NoProximity`
  in every state, which stands for "no pair".

`DataInduction` has what these proofs need of data. The theorems of the library
on induction take an operator as a parameter, which the provers here cannot
instantiate. A set can be a parameter, so the induction is on sets: the least
number for which a statement is false, of which there is none. From this come
minima and maxima of sets of numbers, that a function whose calls descend exists
and has the value its definition says (`DescendingFunction`, `DescentInduction`),
what summing over a set and concatenating a sequence of sequences return, and
that `Ascending` sorts. Folds of the community modules are such functions.

Not proved:

* `FilesReadable` of indexes whose terms are longer than the theorems above
  allow. It is false for some of them (numbers too wide for a posting list, a
  block of 256 bytes behind another one), so there it stays a condition.
* `QueryEnds` and `SnippetsEnd`, which TLC checks: they are liveness, which TLAPS
  does not prove under fairness.

## Not modelled

* BM25 and spread scores: floating point.
* Files being written or missing: `destroy` writes six files one after the other
  and `init` reads them one by one. Neither looks at what the other does, and
  nothing in the repository says what an interrupted or rebuilt index is good for;
  a model would have nothing to check.
* `terms_to_buffer` and the field `term_index` of a term set, which nothing
  changes once it is constructed; `snippets_sort`, by a score, and
  `snippets_print`.
* Memory allocation, the pool allocator, file I/O errors, the tokenizer and the
  cursor library on top: external or without state of this library.
* Ids of 2^26 and more: posting lists cannot hold them and nothing checks them
  (`sil_search_builder.c:422`).
* `sil_term_dump`, `max_id` and the `custom_cb` wrappers.

## Plan

Done: all modules above, the refinements of the cursor and of the term sets
checked and proved, the invariants of the builder, the clients of an index, the
document builder and image, the term sets and of snippets, and the codec with the
layout and the length of a term and the layout of a document.

Left: nothing of this plan. What is not proved is under "Not proved", and
what is not modelled has its reason above.
