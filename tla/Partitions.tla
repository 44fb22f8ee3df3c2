----------------------------- MODULE Partitions -----------------------------
(***************************************************************************)
(* A database cut into partition files: CreatePartitions and GetPartition  *)
(* on the writer's side, CheckPartition and Find on the reader's side, and *)
(* the client between them (TestCreatePartitionFile, TestReadPartitions).  *)
(* The two sides are processes of their own: a reader may look for a key   *)
(* while the writer is still at a later file, or has died before it.       *)
(***************************************************************************)
EXTENDS Integers, Sequences, Functions

CONSTANTS
  MaxId,     \* ids are 0..MaxId
  MaxKeys,   \* bound: how many keys the client has
  MaxParts   \* bound: how many partitions it asks for

ASSUME BoundsAssumption == MaxId \in Nat /\ MaxKeys \in Nat /\ MaxParts \in Nat

Ids == 0..MaxId
Inputs == UNION {[1..n -> Ids] : n \in 0..MaxKeys}
NoFile == {MaxId + 1}   \* no set of ids

VARIABLES
  input,    \* the ids the client set out with
  keys,     \* the client's slice, which CreatePartitions sorts in place
  ranges,   \* []PartitionsRanges
  files,    \* part -> the ids in its file, or NoFile
  at,       \* the partition whose file the reader has open, or 0
  asked,    \* the id it looks for
  goal,     \* the partition that CheckPartition named, or 0
  answer    \* "none", or what the client concludes

vars == <<input, keys, ranges, files, at, asked, goal, answer>>

Elements(s) == {s[i] : i \in DOMAIN s}
Parts == DOMAIN ranges
-----------------------------------------------------------------------------
(***************************************************************************)
(* writer/write.go.  The last chunk takes what the division leaves over.   *)
(***************************************************************************)
Reorderings(s) == {[i \in DOMAIN s |-> s[p[i]]] : p \in Bijection(DOMAIN s, DOMAIN s)}
Sorted(s) ==
  CHOOSE t \in Reorderings(s) : \A i, j \in DOMAIN s : i < j => t[i] <= t[j]

ChunkEnd_EvenOnly(i, total, parts) == i * (total \div parts)   \* mutant: rest lost
ChunkEnd(i, total, parts) ==
  IF i = parts THEN total ELSE i * (total \div parts)
ChunkStart(i, total, parts) == (i - 1) * (total \div parts) + 1

Ranges(s, parts) ==
  [i \in 1..parts |-> [part |-> i, min |-> s[ChunkStart(i, Len(s), parts)],
                                   max |-> s[ChunkEnd(i, Len(s), parts)]]]

Contains(r, id) == r.min <= id /\ id <= r.max
FirstWith(id) ==
  CHOOSE i \in Parts :
    Contains(ranges[i], id) /\ \A j \in 1..(i - 1) : ~Contains(ranges[j], id)
GetPartition_Open(key) ==   \* mutant: key < p.Max
  IF \E i \in Parts : ranges[i].min <= key /\ key < ranges[i].max
  THEN ranges[FirstWith(key)].part ELSE 0
GetPartition(key) ==
  IF \E i \in Parts : Contains(ranges[i], key) THEN ranges[FirstWith(key)].part ELSE 0

CreatePartitions(parts) ==
  /\ ranges = <<>>
  /\ IF parts <= 0 \/ Len(keys) < parts
     THEN UNCHANGED <<keys, ranges>>
     ELSE keys' = Sorted(keys) /\ ranges' = Ranges(Sorted(keys), parts)
  /\ files' = [p \in DOMAIN ranges' |-> NoFile]
  /\ UNCHANGED <<input, at, asked, goal, answer>>

\* One turn of the client's loop: New with Current = p, Insert of the keys of
\* partition p, Serialize.  Files are written one after the other.
WriteFile(p) ==
  /\ p \in Parts /\ files[p] = NoFile
  /\ \A q \in 1..(p - 1) : files[q] # NoFile
  /\ files' = [files EXCEPT ![p] = {k \in Elements(keys) : GetPartition(k) = p}]
  /\ UNCHANGED <<input, keys, ranges, at, asked, goal, answer>>
-----------------------------------------------------------------------------
(***************************************************************************)
(* reader/read.go.  Every file has the ranges in its metadata, and its own *)
(* partition as Current.                                                   *)
(***************************************************************************)
Open(p) ==
  /\ p \in Parts /\ files[p] # NoFile
  /\ at = 0 /\ at' = p
  /\ UNCHANGED <<input, keys, ranges, files, asked, goal, answer>>

\* CheckPartition: not in any range, in this file, or in another one.
OutOfBounds(id) == id < ranges[1].min \/ id > ranges[Len(ranges)].max
InSomeRange(id) == ~OutOfBounds(id) /\ \E i \in Parts : Contains(ranges[i], id)
CheckPartition(id) ==
  /\ at # 0 /\ goal = 0
  /\ asked' = id
  /\ IF InSomeRange(id)
     THEN goal' = ranges[FirstWith(id)].part /\ answer' = "none"
     ELSE answer' = "absent" /\ UNCHANGED goal
  /\ UNCHANGED <<input, keys, ranges, files, at>>

\* The client closes this file and opens the one that was named; or fails to.
Follow ==
  /\ goal # 0 /\ goal # at
  /\ IF files[goal] # NoFile
     THEN at' = goal /\ UNCHANGED <<goal, answer>>
     ELSE at' = 0 /\ goal' = 0 /\ answer' = "error"
  /\ UNCHANGED <<input, keys, ranges, files, asked>>

\* Find in the partition that was named.
Find ==
  /\ goal # 0 /\ goal = at
  /\ answer' = IF asked \in files[at] THEN "found" ELSE "absent"
  /\ goal' = 0
  /\ UNCHANGED <<input, keys, ranges, files, at, asked>>

Close ==
  /\ at # 0 /\ goal = 0
  /\ at' = 0 /\ answer' = "none"
  /\ UNCHANGED <<input, keys, ranges, files, asked, goal>>

Init ==
  /\ input \in Inputs
  /\ keys = input
  /\ ranges = <<>> /\ files = <<>>
  /\ at = 0 /\ asked = 0 /\ goal = 0
  /\ answer = "none"

Next ==
  \/ \E n \in 0..MaxParts : CreatePartitions(n)
  \/ \E p \in 1..MaxParts : WriteFile(p) \/ Open(p)
  \/ \E id \in Ids : CheckPartition(id)
  \/ Follow \/ Find \/ Close

Spec == Init /\ [][Next]_vars
-----------------------------------------------------------------------------
(***************************************************************************)
(* Properties.                                                             *)
(***************************************************************************)

\* From whatever file a reader starts, and however far the writer is, what it
\* concludes about an id is right: the writer's and the reader's idea of the
\* partition of an id are the same, duplicates on both sides of a cut included.
AnswersAreRight ==
  /\ answer = "found" => asked \in Elements(input)
  /\ answer = "absent" => asked \notin Elements(input)

\* The files that are written divide the keys among them: no key is in two, and
\* once all are there none is lost.  (The cut falls between keys, not ranges: a
\* key that stands on both sides of it lies in two ranges.)
FilesDivideKeys ==
  LET written == {p \in DOMAIN files : files[p] # NoFile}
  IN  /\ \A p, q \in written : p # q => files[p] \cap files[q] = {}
      /\ written = Parts /\ ranges # <<>> =>
           UNION {files[p] : p \in Parts} = Elements(input)
=============================================================================
