# idx in TLA+

A verification project for **idx** (`github.com/globalmac/idx`), a Go library
that writes an index of `uint64` keys to JSON-like values into one file
(`writer/`), reads it through a memory mapping (`reader/`), and packs and
encrypts the file (`encrypt/`).

The modules model the code; TLC checks them on small instances; the proof
system checks theorems about them for instances of every size.
`PROJECT.json` lists components, runs, mutants, the lines every definition
stands for, findings, hazards and theorems.

To check one run: `tlc -config writer.cfg MCSerializer`. To check the proofs:
`tlapm WriterProofs.tla`, and likewise for `NumberLemmas`, `TrieProofs`,
`ReaderProofs`, `LifecycleProofs`, `WireProofs`, `DataSectionProofs` and
`FileProofs`.

## 1. The system

### In-memory tree and value storage (`writer/btree.go`, `storage.go`, `write.go`)

*State.* A binary trie over the 64 bits of the key. A `record` is empty, holds
a `*dataEntry`, or holds a node with two records. `storage.entries` maps the
32-bit Murmur3 hash of a value's serialization to its entry, which counts its
references. `totalSize` counts calls, `totalNodes` is the cached node count
(0: unknown), `node.id` the number of a node.

*Operations.* `Insert`, `InsertDefaultNull` (drops empty fields first), `Find`.
An insert always goes down to bit 64, turning each leaf on the way into a node
with two copies of it, writes the leaf, and joins equal children on the way up.

*Hard.* Copies take no reference of their own, so counts are low and can wrap;
values are compared by hash alone; an error on the way leaves the tree split
and its record half written; a nil entry is dereferenced later.

*Correct when* every key leads to one leaf; an insert changes its key only; an
insert that fails changes none; the trie is as small as its content allows; the
index holds no value that left the trie.

### Serialize and the file (`writer/write.go`, `btree.go`, `core.go`)

*State.* Node table (two 32-bit numbers a node), separator, data section,
marker, metadata. A number below the node count is a node, the node count means
"no record", a larger one points into the data section.

*Operations.* `Serialize`: `prepare` numbers the nodes if `totalNodes` is 0,
`writeNode` writes them and, on the way, the values.

*Hard.* Two walks must agree on an order; the cached count must match the tree;
limits and write errors stop in the middle and leave part of a file.

*Correct when* the file is a tree, equal content gives an equal file, and Find
on it gives what the writer held.

### Data section (`writer/core.go`, `pack.go`; `reader/unpack.go`, `validate.go`)

*State.* The bytes written, the position and length of every part by hash, and
one running Murmur3 digest with one buffer for its sums.

*Operations.* `filterEmptyFields` drops what is empty before an insert;
`WriteOrRef` writes a part or a pointer to its first copy; `decode` (into Go
types by reflection), `decodePath`, `decodeToDeserializer`, `nextValueOffset`
read it; `Where`, `WhereInSlice` and `WhereHas` walk into a value and compare;
`Validate` walks the whole section.

*Hard.* What one value looks like depends on what was written before it; the
hash state is shared by nested calls; headers, sizes and pointers change their
width at limits; conversions wrap; pointers count towards the depth limit.

*Correct when* every value decodes to itself, every path and query ends at the
part it names, pointers go back and to no other pointer, what was written stays
whole, equal maps and slices stand once, a Go type gets a value
exactly when it fits, and reader and writer agree on the length of everything.

### Reader (`reader/read.go`, `mmap.go`)

*State.* The buffer (nil once closed), the mapping, the metadata, and for every
iteration a stack of its own.

*Operations.* `Open`, `OpenRaw`, `Close`, `Find`, `GetAll`/`Scan`, `GetRange`,
the `Where` family; iterators call the consumer back, who may stop them or
close the reader.

*Hard.* Stacks of fixed length; a Close during an iteration or from two
goroutines; a finalizer; addresses that are mapped again; results that outlive
their reader; no locks.

*Correct when* an iterator gives exactly the leaves of its query, in order,
each once, and ends; every mapping is unmapped once, by its own reader.

### Partitions (`writer/write.go`, `reader/read.go`)

`CreatePartitions` sorts the keys in place and cuts them into ranges,
`GetPartition` finds the range of a key, every file has all ranges in its
metadata and `CheckPartition` names the file for an id. Writer and reader are
different processes; keys may repeat on both sides of a cut.
*Correct when* the files divide the keys and no reader concludes something
false, however far the writer is.

### Encryption (`encrypt/encrypt.go`)

`EncryptDB` starts a goroutine that packs the file (tar, gzip) into an
`io.Pipe`, reads the pipe, encrypts and writes. `DecryptDB` does the reverse.
The goroutine may fail, the archive may not be writable, the file may change
size, the process may die.
*Correct when* nil means a whole archive, nil from `DecryptDB` means the whole
file, and both sides end.

### How they interact

The writer's tree is walked by Serialize, which calls the data section for
every leaf. The file is all that the reader shares with the writer; the ranges
in its metadata are all that two files share. The encryption takes the file as
bytes. Callbacks run inside the iterators. Nothing in the writer or the reader
is locked, and the writer is used by one goroutine at a time.

## 2. The modules

| module | models | state and actions, in the code |
|---|---|---|
| `Trie` | keys, bits, paths | `getBit`, `node.children` |
| `KeyValueStore` | what the index promises: a map | abstract |
| `BinaryTree` | tree and storage | `tree` = records by path, `heap` = dataEntry objects, `entries`; one action per call: `Insert`, `InsertDefaultNull`, `FindAbsent` |
| `Digits` | numbers from their digits: bytes of the section, bits of a key | `Horner`, `Power256`, `Power2`: pure |
| `DbFile` | file format: writing and Find | `Layout`, `NodeValue`, `File`; `Walk`, `FindValue` |
| `Serializer` | `BinaryTree` and `DbFile` composed | `nodeId`, `totalNodes`, `file`; `Serialize` |
| `Cursor` | what an iterator promises | abstract |
| `Reader` | iterators and Close over a `DbFile` | `stack`, `query`, `out`, `open`; one `Turn` per turn of a loop, with the callback's answer |
| `Lifecycle` | Open, OpenRaw, Close, the finalizer, mmap | `mapping`, `reader`, `closing` = where each goroutine is in `Close`, `results`; `Open` in its steps, `Check`, `Clear`, `Unmap`, `Forget`, `Finalized`, `Find`, `Decode`, `Drop` |
| `Codec` | the bytes of headers, numbers and pointers | `Header`, `NumberSize`, `BigEndian`, `RefLength`, `Ref`: pure |
| `Wire` | a section byte by byte, for values without parts | `byte`, `payload`, `positions`; `WriteOrRef`, `WriteFails`; `Ctrl`, `PointerAt`, `Decode`, `NextOffset` read |
| `Values` | DataItems and what stands in the section for one | `SizeOf`, `NumberSize`, `Cell`: pure |
| `ValueTrees` | recursion over a whole value: what is hashed of it, the empty-field filter | `Cells`, `IsEmpty`, `Filter`: pure |
| `Murmur3` | the running hash, up to its mixing | `DigestWrite`, `Sum`: pure |
| `DataSection` | writing and sharing | `buf`, `positions`, `hashBuffer`, `calls` = the `Serialize` calls under way; `Write` = `writeWithRef` up to its call of `Serialize`, `WriteFiltered` = the same behind `InsertDefaultNull`, `WritePart` = one call of `WriteOrRef`, `Return` = a return of `Serialize` |
| `Walks` | walks that decode nothing | `NextValue`, `ResolvePath`, `PathOffset`: functions of the section |
| `Decoding` | decode, Go types, paths, deserializer, Validate | `Decode`, `DecodePath`, `Calls`, `Accepts`: functions of the section |
| `Where` | queries on one value | `Compare`, `Finds` |
| `Partitions` | both sides and the client between | `ranges`, `files`; `CreatePartitions`, `WriteFile`, `Open`, `CheckPartition`, `Follow`, `Find`, `Close` |
| `EncryptPipe` | goroutine, pipe, EncryptDB, DecryptDB | `producer`, `pipe`, `closed`, `archive`; one action per call that can fail |
| `MC...` | small instances | |
| `TrieProofs` | lemmas on `Trie` and `DbFile` that writer and reader share | |
| `WriterProofs` | the theorems about `BinaryTree` and `Serializer` | |
| `FileProofs` | the theorems about `Partitions` and `EncryptPipe` | |
| `...Proofs` | else the theorems about the module before `Proofs` | |
| `NumberLemmas` | lemmas on natural numbers and `Horner` that the proofs share | |

`Where` extends `Decoding`, which extends `Walks`, which extends `DataSection` and
`ValueTrees`; these extend `Values`, and `DataSection` also `Murmur3`; `Wire` extends `Codec`; `Codec` and `DbFile` extend `Digits`.
`Serializer` extends `BinaryTree` and `DbFile`; `Reader` extends `DbFile`; both
file modules share `Trie`, so the pointers that `Serializer` writes are read by
the `Walk` that `Reader` uses. `BinaryTree` refines `KeyValueStore`
(`Refines`), `Reader` refines `Cursor` (`CursorSpec`).

Abstractions worth knowing:

- *The recursion of insert is closed.* `Split` is the way down, and
  `JoinsUpTo(..., m)` says how far up the joins go. One action is one call; a
  panic or an error is a disjunct of it.
- *An entry is an identity.* `heap` maps `EntryIds` to a value and a count; an
  entry nothing refers to is `Free` again, as the garbage collector makes it.
  A new entry is any free one, so entries are symmetric.
- *The hash is a constant.* It has collisions or not as the run says. Whether
  the serialization of a value fails (`sizeMax`) is the set `Oversized`; what the
  empty-field filter makes of a value is the function `Filtered`.
- *The recursion of Serialize is a stack.* `Serialize` and `WriteOrRef` call each
  other for every part of a value. `calls` holds the calls under way, with what
  is local to them (value, key, `exists`, bytes so far), and a step goes on until
  the next call begins or one ends. So the one hash buffer is used again
  between two steps of a call that waits, as in the code. Nothing reads a section
  before the calls have ended (`Complete`).
- *Functions of whole values are constants of `DataSection`*: `CellsOf` (what
  `hashBuffer.Hash` serializes), `Rest` (the filter), `AllParts` and `Depth`.
  `ValueTrees` defines them by recursion and the cfg puts those in, so the
  assumptions that the proofs make of them are evaluated by TLC.
- *Three views of the data section.* A value takes one unit in the node table's
  view (`DbFile`); in `DataSection` a cell is a header with its payload, and an
  offset is the number of a cell; in `Wire` everything but payloads is bytes.
- *Numbers are narrow* in `Decoding`: a byte has two bits (`ByteBits`), so that an
  int8 is -2..1 and a uint64 ends at 65535; conversions wrap there. A float32
  holds the even numbers up to 100. In `Wire` bytes are bytes, but TLC's numbers
  end at 2^31.
- *Murmur3 keeps its bookkeeping* (blocks, tail, count, reset) and loses its
  mixing: two inputs have one sum when they are the same. Collisions are the
  business of `BinaryTree`. `CellsAssumption` says that two values have the same
  cells only if they are the same, which the headers see to.
- *A Go type is a tree of kinds*, pointers among them: the client passes one
  (`Into`), and `Indirect` looks through them where the code does. So a `uintptr`
  gets an offset as a field or an element, and a number where the client asks for
  one itself. A field `*uintptr` gets a number or, where the file has a pointer, an
  offset; `Decode` does that too, but no type of the run has such a field, since
  `Fit` would depend on the file.
- *What the decoder is for* is stated without any file: `Fit` says which value of
  a type stands for an item, `Get` what a path names, `Spell` what a deserializer
  is told, `Satisfies` which values a query is about (as the README says, `Provided`
  what the code has of that), `FullLeaves` what the filter leaves.
- *Ghosts of the section.* `stands` records where each value was written and where
  its parts begin; `tops` and `filtered` record what `Validate` and the filter are
  held against. No action reads them.
- *Reader's files* are those of a content: `Serializer`'s `Canonical` says a
  content has one file (as long as no insert failed). Two variables are ghosts, which
  no action reads but to state properties: `leaves`, the leaves by their lowest
  ids, and `expected`, the results the query should give, each with the lowest id
  of its leaf. `Seen` is what `CursorSpec` sees of a result: its value and what its
  id stands for (`Named`), which is the id, or for an aligned Scan the leaf that
  holds it. So Scan's extra bit is neither expected nor hidden: `CursorSpec` asks
  that the id lies in the right leaf, and `ScanNames`, that it is the leaf's lowest,
  is a finding. The id that Scan makes of an argument with bits past its prefix
  stands for nothing, and `CursorSpec` says nothing of it.

## 3. The runs

| run | question | bounds |
|---|---|---|
| `writer` | does the trie stay a small trie that implements a map, and is every file its content? | 3 bits, 6 of 8 keys, 3 values of which one fails, 4 inserts, a node limit that part of the tries exceeds |
| `reader` | do the iterators give exactly what they should? | 3 bits, 2 values, 82 contents, every query, stop and Close anywhere |
| `lifecycle` | is every mapping unmapped once, by its own reader? | 2 readers, 2 addresses, 2 goroutines and the finalizer, 6 files |
| `wire` | do reader and writer agree on every byte? | 3 values out of 32, around every limit of a size and a number; 9 starts, around every limit of a pointer |
| `records` | does what was written stand, do shared parts decode, and paths, types, queries and deserializers find them? | 4 of 10 values that share parts, all orders, filtered or not; 9 paths, 11 Go types, 24 queries, depth limit 5 |
| `partitions` | are the answers right, the keys divided? | 4 keys of 5 ids, 3 files |
| `encrypt` | does nil mean whole, do both end? | 2 chunks, 1 change of size, 2 passwords |
| `tree_collision` | finding | 2 bits, 2 values of one hash |
| `tree_insert_panic` | finding | 2 bits, one failing value |
| `range_complete` | finding | 2 bits |
| `scan_promises` | 2 findings | 2 bits |
| `record_promises` | 5 findings | as `records`, up to 5 values |

*Why the bounds are enough.* Everything insert does happens between a leaf, its
sibling and the pair above: three bits have a join that cascades, one that
stops on the way, and a leaf above the full depth split twice. Four inserts
reach a count that is too low, its wrap, and the insert after it. `writer` uses
six keys: the two halves of the trie never join, so the left half shows every
join and one key of the right half what happens beside it. Of a value that the
filter leaves alone `InsertDefaultNull` is `Insert`, so only the other value is
inserted that way. Entries are symmetric, and node ids do not count in a state
whose `totalNodes` is 0, since `prepare` gives new ones before anyone reads them
(`LiveState`). In `records` the depth limit is such that one value can be read or
not, by what was written before it. In `wire` three values are a first one, one
that may be a pointer to it, and one that follows. In the reader
the stacks shrink with the keys, as in the code: `RangeStack` is the number of
bits (64 for 64) and `WhereStack` twice that (128 for 64), so that both limits
are met exactly where the code meets them. The partition run has duplicates on
both sides of every cut and sizes that do and do not divide. Two chunks are a
first, a last, and a file that breaks off between them.

*What they show.* All the passing runs hold. In particular: counts that are too
low never make the index keep a value that left the trie, and a second entry of
the same hash does no harm; Where's stack suffices; a Close during an iteration
never brings a wrong result, only an end or an error, where the process
survives it; the finalizer and Close never unmap twice, and no error path of
Open loses a mapping; no value, number or pointer is a byte longer for the reader
than for the writer; a value once written stands there whole, whatever its parts and the
values after it put into the hash buffer; a map or slice with parts stands in full
once, so that a deserializer that skips its offset misses it everywhere; a query never compares a
neighbouring part; `Validate`'s verdict is
whether every value of the tree was first written at the top level; an archive
that breaks off is never decrypted with nil.

*Exceptions that properties state.* `Canonical` needs that no insert fails (an
error skips `tryMerge`). `CursorSpec` gives GetRange all but
the leaf of `NoRoom`, and `IdLeadsBack` asks of Scan an id whose bits after the
prefix are 0. `NilMeansWhole` excepts a file that shrank after Stat, and
`BothEnd` the goroutine of an EncryptDB that failed to write. `UnmapsItsOwn`,
`NoMappingLost` and `ReadsItsOwn` except a reader that two goroutines were
closing at the same time: the second may unmap an address that is another
reader's by then. `ReadsItsOwn` is about a client that holds the reader: a Result
alone does not keep it from its finalizer. `OpensWhatWasWritten` leaves out a
name that holds the marker; Open refuses that file. `RoundTrip`, `PathsDecode` and
`CallsSpell` except a value that is too deep for its pointers, which twice its
nesting within the limit excludes. `DecodesIntoTypes` and `WhereFinds` except, of
the values that fit into no place of the type, those with an integer below 0 or from
2^63 on (`Wraps`), which the code may take for another one: `RefusesMisfits`.
Both take a map for a zero big.Int, as the code does, which finds a struct with no
field in common. `FilterKeepsTheRest` allows the panic for an int32 and for nothing
else: `FilterTakesAll` has the int32. `WhereFinds` asks for completeness where no
map or slice of the value is a pointer, in the modes that the code has, and of
WhereHas for the whole value: `WhereIsComplete`,
`WhereTakesModes` and `WhereHasLooksInside` have what the README promises beyond
that. Run `record_promises` refutes these five.

*Runs that refute several promises at once.* `OnePromiseStands` and
`OneScanPromiseStands` are disjunctions of what documents say: as long as one of
the promises stands they hold, so the state in which TLC stops breaks each of them.
That of `record_promises` is a file of five values: the maps {a, b, geo} and
{1, geo}, which share geo (`WhereIsComplete`; for the first, the text a is not found
by `!=`, `WhereTakesModes`), a map with the largest uint64 and an int32, once as it
is (`RefusesMisfits`) and once through the filter (`FilterTakesAll`), and a slice
with the text b (`WhereHasLooksInside`). In `scan_promises` GetAll gives the Id 1 for
the leaf of the keys 0 and 1 (`ScanNames`), and is closed before its next turn
(`NeverFaults`).

*Deadlock* is not checked where the client may stop calling, an iteration is
over, the bound on writes is reached, or the process has ended.

*Fairness.* Three specifications need it. `Lifecycle`: weak fairness of the steps
of each goroutine that is in a Close, which nothing blocks; none of the garbage
collector, which may never come, and none of the client. `Reader`: weak fairness of
`Turn \/ End`, since a loop that was entered runs on in its goroutine and the
callbacks return; none of Begin and Close, which are the client's.
`EncryptPipe`: weak fairness of `Start`, of `Producer` and of
`Transfer \/ Return`: the Go scheduler runs both goroutines and system calls
return; none of Crash, Resize and decryption.

## 4. Findings

1. `tree_collision`: values are identified by a 32-bit hash. The second of two
   colliding values is lost, without an error (`storage.go:73`).
2. `tree_insert_panic`: after a failed insert a later insert of the sibling key
   dereferences nil (`btree.go:253`); README's example goes on inserting.
3. `range_complete`: GetRange's stack of 64 is one too short: key 0 at the full
   depth is missing when the range reaches the upper half (`read.go:1385`).
4. `scan_promises`, `NeverFaults`: Scan and GetRange do not look whether the reader
   is closed and read unmapped memory (`read.go:1369`).
5. `record_promises`, `WhereIsComplete`: Where does not follow pointers, so it misses
   records whose nested part was written before (`read.go:1006`).
6. `WhereTakesModes`: a text, a float, a bool or bytes cannot be compared by
   `!=`; the query finds nothing, without an error (`read.go:715`; README:400).
7. `WhereHasLooksInside`: WhereHas compares the whole value only, so it does not find
   a slice by its element, as README:451-459 shows it (`read.go:600`).
8. `RefusesMisfits`: the largest uint64 is decoded into every signed type as -1, a
   negative int32 into a uint64, instead of the TypeMismatchError of `errors.go:28`
   (`unpack.go:530`).
9. `FilterTakesAll`: InsertDefaultNull panics for a value that holds an int32
   (`write.go:167`), one of the types that README:77 lists. 5 to 9 are one run's.
10. `scan_promises`, `ScanNames`: the Id of Scan and GetAll has a bit more than the
   leaf, and is not formed as in Where (`read.go:1273`; the comment at 1270).

## 5. The theorems

Each is proved for every value of the constants that satisfies the named
assumptions, so for 64 bits, any number of values, readers, goroutines, files,
keys and chunks.

| module | theorem | states | needs |
|---|---|---|---|
| `WriterProofs` | `TypeCorrect`, `ShapePreserved` | `[]TypeOK`, `[]TrieShape`, with failed inserts and collisions | |
| | `InsertCorrect`, `Refinement` | `InsertIsPut`, `Refines` | `HashInjective` |
| | `IndexHasNoLeak` | `[]NoLeak`, with failed inserts and collisions | `MaxInserts < RefMod` |
| | `CountIsFresh`, `FilesAreTrees` | `[]CountStands`, `[]FileIsTree` | |
| | `FilesHoldContent`, `SmallestTrie`, `WriterRefinement` | `FileHoldsContent`, `[]Canonical`, `Refines` | `HashInjective` |
| | `WriterHasNoLeak` | `[]NoLeak` | `MaxInserts < RefMod` |
| `ReaderProofs` | `IdsLeadBack` | `[]IdLeadsBack` | |
| | `CursorRefinement` | `CursorSpec` | `HashInjective`, stacks as in the code, `[]Aligned(query)` |
| `LifecycleProofs` | `UnmapsOnce`, `MappingsAreHeld`, `ReadsItsOwnFile`, `OpensWritten` | `[]` of `UnmapsItsOwn`, `NoMappingLost`, `ReadsItsOwn`, `OpensWhatWasWritten` | |
| `WireProofs` | `Reads`, `Steps`, `Saves` | `[]` of `ReadsBack`, `StepsOver`, `PointersSave` | |
| `DataSectionProofs` | `PointersLead`, `PartsStandThere`, `SharesParts` | `[]` of `PointersAreDirect`, `PartsStand`, `Shares` | |
| `FileProofs` | `Answers`, `FilesDivide` | `[]AnswersAreRight`, `[]FilesDivideKeys` | |
| | `NilIsWhole`, `NilIsInput` | `[]NilMeansWhole`, `[]DecryptNilIsInput` | |

`Invariance` (for `Serializer`, `WriterInvariance`; for `EncryptPipe`,
`PipeInvariance`) says of each module that its inductive invariant holds.

*Assumptions.* The `ASSUME`s of the modules give the constants their types, as the
code does. Three say more. `WireAssumption` asks that the section ends
before its offsets need more than 32 bits, since `RefMarker` is a uint32; the
wraparound beyond is not modelled. `FileAssumption` asks that the separator is not
empty (it has 16 bytes): with none, position 0 of the data section would be "no
record". `DataItemsAssumption` and `CellsAssumption` say that values are trees (parts
are less deep, the items of a map are keys and values in turn) and that
their serialization without pointers tells them apart; that the 32 bits of the
hash do so as well is assumed with it, as everywhere in `DataSection`. Two conditions are not given by the code, and the theorems that
need one name it: `HashInjective`, which fails in run `tree_collision`, and
`MaxInserts < RefMod`, fewer inserts than a uint32 counts. `CursorRefinement`
also fixes what the code fixes, `RangeStack = PrefixBits` (64) and `WhereStack >
PrefixBits + 1` (128 > 65), and takes Scan's ids to be aligned (`Aligned`: the bits
past the prefix are 0, as GetAll's are). Run `reader` checks `CursorSpec` for
the other ids too.

*The tree.* `TrieShape` alone is not inductive: the way up compares the hashes of
entries, so the entries must hold values. `IInv` adds `RecordsOK` (a
record that refers to an entry refers to one with a value, and only data
records do) and `IndexOK` (the index leads from a hash to an entry whose value
has that hash). Both survive counts that are too low, because a record keeps
its entry alive whatever its count says (`CollectedOK`). `LeafIsUnique` and
`SharedLeaf`: keys that agree down to a leaf share it. `SplitAtOther`: the way
down changes the value of no key. `LeafAfterJoin`, `SiblingIsLeafOfOther`: a join
replaces a leaf by one of the same hash. `RemoveKeepsValues`, `AddKeepsValues`:
the storage changes counts but no value in use. `AscendStep` joins these into
the effect of the way up; `WriteNilStep`, `WriteEqualStep`, `WriteNewStep`,
`WriteFailsStep` are the cases of insert and `InsertStep` sums them up.

*The counts.* An entry leaves the index when its count reaches 0, so a leak is an
indexed entry whose count is above the number of its leaves. `CountInv` excludes
it: an indexed entry is counted at least once, at most as often as leaves refer to
it, and at most as often as inserts were called, so that no count in the index
wraps. (The count of an entry that has left the index may: splits copy leaves
without counting, and every copy is released.) Splits only add leaves and move
one (`WrittenHolds`). A join that cascades replaces several leaves by one; it
releases all of them but that one, and what is lost is among the released
(`LostHasJoined`, `JoinHolds`), so counts fall at least as far as leaves
(`RemoveCounts`, `AscendCounts`).

*The file.* `SInv` adds to `IInv` that cached ids are those of the trie as it is
(`CountStands`) and what a complete file looks like. `Preorder` numbers the
nodes without gaps (`PreorderOnto`, by the order `Before`), so the table has every
node at its own number, and `Layout` gives every hash a position of its own; from
these `FileShape` follows. `WalkLeads`, by induction along the walk: the reader is
at the number of the node that the writer has at the same path, until it meets
the leaf, and stays there. `FindReads`: what it reads there is the first value of
the leaf's hash, and `Separator` keeps data apart from "no record".

*The smallest trie.* `NormalForm`: until an insert fails, the two halves under
every node hold different content (`Reduced`). The way down breaks that on the
path of one key only, and the way up restores it: where it stops there are two
keys of different values (`JoinsStop`), and off the path nothing changed
(`UniformElsewhere`). `NormalIsSmallest` shows
by comparison with `Uniform` that a reduced trie is `TrieOf` its content.

*Iterators.* An item holds a node number and an id, computed apart: the number
is read from the table, the id made from that of the parent. `Items` says that
they belong together: the number is where `Walk` comes to by the first `bit` bits
of the id, and the other bits are 0. That the rest is 0 is what makes
`RightItem` right, which adds a power of two to set a bit (`NextBit`), and what Scan
needs of its caller (`Aligned`). The id of a child has the bits of its parent's
as far as the parent is (`SameWay`), and so leads there too (`ChildItems`). At a
leaf, Find goes on to the last bit and stays (`StaysAtLeaf`), so it has the value
of the result, and of Scan's with one bit more (`LeafResults`). Colliding hashes do
no harm here, since both sides read the same file.

*The cursor.* `Expected` defines the results of a query from the leaves alone: the
`Chosen` ones, by their lowest ids (`Nth`). The id that Scan gives is one of the
item's (`MiddleId`), and so one that this leaf and no other holds (`HoldsOne`). The
invariant `CInv` says that what is on
the stack is what is still to come: a chosen leaf has an id in common with
(`Touches`) an item on the stack exactly when its `Rank` is above the number of
results there were (`ToCome`). For that the items must be apart, the lowest at the
top (`Stacked`), and hang from nodes, so that no leaf has a part in two of them
(`AllHung`, `Rooted`); leaves are apart since no leaf lies below another
(`LeavesDisjoint`). A turn takes a leaf, which is the next (`LeafAtTop`,
`TakeReady`); or an item that leads to nothing chosen (`DropReady`); or a node, whose
two halves take its place (`SplitReady`). `Fits` bounds the depth of the stack by the
bit of its top item: Where's always has room, and GetRange's is full at one item
only, the left child at full depth of a way that went left from the root, which is
`NoRoom`. After a Close the results without a value come behind the others
(`Delivered`), so `Given` stays.

*Opening and closing.* `HoldersOK`, `ClosersOK` and `MappingsOK` say that, as long as
no two goroutines were in the Close of one reader, each mapping has one reader
and is in one pair of hands: `Open` before it returns, the open reader with
`hasMappedFile` and finalizer set, or the goroutine that has passed `Check`.
An address is mapped again only when none of these holds it.

*Bytes.* `Horner` read back is division and remainder (`HornerAppend`), so headers,
numbers of any width, negative ones too, and pointers of the four widths come
back. The invariant is that everything written stands whole in the section
(`PositionsOK`, `LogOK`): bytes are only put at its end. A pointer is followed
once, since positions are those of values (`EntryReads`).

*The data section.* `PartsStand` says nothing of a value that is half written, so
it is not inductive. `Layout` adds what is true in the middle: each open call has its
header in the buffer and, behind it, the parts it has written so far
(`CallStands`); each call but the innermost waits for a part that begins
where its own parts end (`Waits`), and the innermost ends at the end of the
buffer (`CallsNest`); what has a position stands there itself and is the value of
that key (`PositionStands`). The last needs `Call.key` to be the key of its value,
whatever was hashed since: the code copies it before it writes the parts
(`HashedKey`, `KeysTell`). `Grows`: the buffer is only appended to, so what stands
stays (`StandsRightStays`, `CallGoesOn`); a pointer is put where a position says
that the value stands (`WritePointerKeeps`); `CallEnds`: a call that returns has
written all parts.

`Sharing` is about there being no second copy. The hard case is a part that has the
value of one being written: `OnlyOnce` would fail when both return. It does not
occur, since a part is less deep than what it is in, and open calls are nested
(`ReturnShares`). The other way to a second copy is a known value whose
position is too short for a pointer; a value with parts is longer than one
(`FullIsLong`). `Covered` and `AllArePartsOfSome` say that every cell belongs to a
value that stands or is being written, and every value to one that has an offset
or will. `PartsStandOnce`: then the place of a map or slice determines its value, and
every part with parts of a written value has such a place, behind at most one
pointer (`PartsStandThemselves`, by induction on the depth), which makes a
bijection of the two sets that `Shares` counts.

*Partitions.* The chunks meet and cover all positions (`Chunks`), sorting keeps the
keys (`SortExists`, `SortedKeys`), and `FirstWith` is the same operator for writer and reader: so the file that
`CheckPartition` names is the one the key was written to, with equal keys on both
sides of a cut as well.

*The pipe.* `StreamOK`: the archive with the piece in the pipe is a prefix of one
stream of pieces, and `NothingLost` how long that prefix is at each step of the
goroutine. `CopiedAll`: the goroutine gets past the copy only when all chunks were
sent or the file changed. `DecryptOK`: what DecryptDB has written are the chunks of the
archive as far as it read.

*Model-checked only.* Liveness (`Terminates`, `CloseReleases`, `BothEnd`) and
ENABLED are out of the prover's reach; so is what the recursive definitions of
`ValueTrees`, `Walks`, `Decoding` and `Where` compute, by RECURSIVE and by
induction over data: `RoundTrip`, `PathsDecode`, `DecodesIntoTypes`, `CallsSpell`,
`FilterKeepsTheRest`, `WhereFinds` and `ValidateVerdict`. What the decoder needs
of the section, `PartsStand` and `PointersAreDirect`, is proved. Of
`CursorSpec` the Scan of an id that is not aligned is model-checked only: the
items on its stack carry bits that their records have not, so `Items` fails.

## 6. Not modelled

AES, PBKDF2, tar and gzip (their contracts are used); the arithmetic with which
Murmur3 mixes a block; the bytes of texts and floats; malformed files, for which
the decoder has its bounds and size checks; the cache of struct fields; mergers and record types that no caller passes; data
items that are nil inside a value; the metadata beyond their place, the node count
and the ranges; `GetAllPartitionsFiles`, which formats names. The hazards without
a property are in `PROJECT.json` with a note.

## 7. Plan

1. *(done)* `BinaryTree` with `KeyValueStore`, its proofs; `DbFile` and
   `Serializer`; `Reader` with `Cursor`; `DataSection`; `Partitions`;
   `EncryptPipe`.
2. *(done)* `Lifecycle`; `Codec` and `Wire`; `Values`, `Murmur3`, `Decoding`,
   `Where`; one run for the whole writer.
3. *(done)* Proofs: `NoLeak` of `BinaryTree`; the invariants of `Serializer`, the
   content of its files and their canonical form; `Lifecycle`; `Codec` and `Wire`;
   `Partitions`; `EncryptPipe`; `IdLeadsBack` and `CursorSpec` of `Reader`;
   `PointersAreDirect`, `PartsStand` and `Shares` of `DataSection`, for which its
   recursion became a stack of calls.
4. `CursorSpec` for a Scan of any id: items that carry the rest of the id along.
