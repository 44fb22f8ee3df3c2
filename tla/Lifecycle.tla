------------------------------ MODULE Lifecycle ------------------------------
(***************************************************************************)
(* The life of readers: Open and OpenRaw (reader/read.go, reader/mmap.go), *)
(* Close from any goroutine, the finalizer that Open sets, and Results,    *)
(* which hold a slice of the mapping but do not keep the Reader alive.     *)
(*                                                                         *)
(* A file is a sequence of cells: "marker" for the bytes of HeaderMarker,  *)
(* wherever they stand; <<"map", "name">> for the metadata, whose name may *)
(* hold those bytes too; anything else for the table and the data.  munmap *)
(* takes an address and whatever is mapped there: addresses are used again.*)
(***************************************************************************)
EXTENDS Integers, FiniteSets, Sequences

CONSTANTS
  Readers,     \* as many as Open may be called for
  Addresses,   \* where the kernel puts mappings
  Goroutines,  \* goroutines of the client that call Close
  Finalizer,   \* the goroutine of the runtime that runs finalizers
  Files,       \* [cells, nodeCount]; nodeCount as its metadata says it
  None, Heap   \* no buffer (nil), a buffer in the heap

ASSUME LifecycleAssumption ==
  /\ IsFiniteSet(Readers) /\ IsFiniteSet(Addresses)
  /\ Finalizer \notin Goroutines
  /\ {None, Heap} \cap Addresses = {} /\ None \notin Readers /\ None # Heap
  /\ Files # {}
  /\ \A f \in Files : f.cells \in Seq(STRING) /\ f.nodeCount \in Nat

VARIABLES
  mapping,     \* address -> the reader whose file Open mapped there, or None
  reader,      \* reader -> its fields, and how far Open has got
  closing,     \* goroutine -> the reader it closes, where, and what it took
  results,     \* the Results the client holds: [reader, at]
  overlapped,  \* two goroutines were closing one reader at a time (ghost)
  stray,       \* a Close panicked, or unmapped what is not its reader's (ghost)
  dead         \* the process ended by a panic or a fault

vars == <<mapping, reader, closing, results, overlapped, stray, dead>>
ghosts == <<overlapped, stray, dead>>

Closers == Goroutines \cup {Finalizer}
Idle == [reader |-> None, at |-> "idle", took |-> None]
Unopened == [stage |-> "unopened", file |-> CHOOSE f \in Files : TRUE, buffer |-> None,
             hasMappedFile |-> FALSE, finalizer |-> FALSE, held |-> FALSE]

Init ==
  /\ mapping = [a \in Addresses |-> None]
  /\ reader = [r \in Readers |-> Unopened]
  /\ closing = [g \in Closers |-> Idle]
  /\ results = {}
  /\ overlapped = FALSE /\ stray = FALSE /\ dead = FALSE
-----------------------------------------------------------------------------
(***************************************************************************)
(* Open.                                                                   *)
(***************************************************************************)
Markers(f) == {i \in DOMAIN f.cells : f.cells[i] = "marker"}
MetadataStart_First(f) == CHOOSE i \in Markers(f) : \A j \in Markers(f) : i <= j   \* mutant
MetadataStart(f) == CHOOSE i \in Markers(f) : \A j \in Markers(f) : j <= i

\* OpenRaw: a marker, metadata that decode behind the last one, and before it
\* the node table they speak of and the separator.
OpenRawAccepts(f) ==
  /\ Markers(f) # {}
  /\ SubSeq(f.cells, MetadataStart(f) + 1, Len(f.cells)) = <<"map", "name">>
  /\ f.nodeCount + 1 <= MetadataStart(f) - 1

\* os.Open, Stat, an empty or too large file, mmap: nothing is mapped yet.
OpenFails(r, f) ==
  /\ reader[r] = Unopened
  /\ reader' = [reader EXCEPT ![r] = [@ EXCEPT !.stage = "noinput", !.file = f]]
  /\ UNCHANGED <<mapping, closing, results, ghosts>>

OpenMapped(r, f, a) ==
  /\ reader[r] = Unopened /\ f.cells # <<>> /\ mapping[a] = None
  /\ mapping' = [mapping EXCEPT ![a] = r]
  /\ reader' = [reader EXCEPT ![r] = [@ EXCEPT !.stage = "mapped", !.file = f, !.buffer = a]]
  /\ UNCHANGED <<closing, results, ghosts>>

\* A file system without mappings (ENODEV), or OpenRaw called by the client.
OpenLoaded(r, f) ==
  /\ reader[r] = Unopened
  /\ reader' = [reader EXCEPT ![r] =
       IF OpenRawAccepts(f)
       THEN [@ EXCEPT !.stage = "open", !.file = f, !.buffer = Heap, !.held = TRUE]
       ELSE [@ EXCEPT !.stage = "refused", !.file = f]]
  /\ UNCHANGED <<mapping, closing, results, ghosts>>

OpenAccepts(r) ==
  /\ mapping' = mapping
  /\ reader' = [reader EXCEPT ![r] =
       [@ EXCEPT !.stage = "open", !.hasMappedFile = TRUE, !.finalizer = TRUE, !.held = TRUE]]
OpenRefuses_Keeps(r) ==   \* mutant: no munmap
  /\ mapping' = mapping
  /\ reader' = [reader EXCEPT ![r] = [@ EXCEPT !.stage = "refused", !.buffer = None]]
OpenRefuses(r) ==
  /\ mapping' = [mapping EXCEPT ![reader[r].buffer] = None]
  /\ reader' = [reader EXCEPT ![r] = [@ EXCEPT !.stage = "refused", !.buffer = None]]

OpenEnds(r) ==
  /\ reader[r].stage = "mapped"
  /\ IF OpenRawAccepts(reader[r].file) THEN OpenAccepts(r) ELSE OpenRefuses(r)
  /\ UNCHANGED <<closing, results, ghosts>>

Open ==
  \E r \in Readers :
    \/ \E f \in Files :
         OpenFails(r, f) \/ OpenLoaded(r, f) \/ \E a \in Addresses : OpenMapped(r, f, a)
    \/ OpenEnds(r)
-----------------------------------------------------------------------------
(***************************************************************************)
(* Close, step by step: `if r.hasMappedFile`; SetFinalizer(r, nil) and     *)
(* r.hasMappedFile = false, and the slice that munmap is called with; the  *)
(* system call; r.buffer = nil.  Nothing is locked.                        *)
(***************************************************************************)
ClosedBy(r) == {g \in Closers : closing[g].reader = r}
GoTo(g, r, at, took) == closing' = [closing EXCEPT ![g] = [reader |-> r, at |-> at, took |-> took]]

Begin(g, r) ==
  /\ closing[g] = Idle
  /\ GoTo(g, r, "check", None)
  /\ overlapped' = (overlapped \/ ClosedBy(r) # {})
  /\ UNCHANGED <<mapping, results, stray, dead>>

CloseCalled(g, r) ==
  /\ reader[r].stage = "open" /\ reader[r].held
  /\ Begin(g, r) /\ UNCHANGED reader

\* The garbage collector found the reader unreachable: no variable of the
\* client holds it, and no method of it is under way.
Finalized(r) ==
  /\ reader[r].finalizer /\ ~reader[r].held /\ ClosedBy(r) = {}
  /\ Begin(Finalizer, r)
  /\ reader' = [reader EXCEPT ![r].finalizer = FALSE]

AfterCheck_Never(r) == "forget"   \* mutant: Close only drops the buffer
AfterCheck(r) == IF reader[r].hasMappedFile THEN "clear" ELSE "forget"
Check(g) ==
  LET r == closing[g].reader
  IN  /\ closing[g].at = "check"
      /\ GoTo(g, r, AfterCheck(r), None)
      /\ UNCHANGED <<mapping, reader, results, ghosts>>

Cleared_Keeps(r) == [reader[r] EXCEPT !.finalizer = FALSE]   \* mutant: flag not cleared
Cleared(r) == [reader[r] EXCEPT !.finalizer = FALSE, !.hasMappedFile = FALSE]
Clear(g) ==
  LET r == closing[g].reader
  IN  /\ closing[g].at = "clear"
      /\ reader' = [reader EXCEPT ![r] = Cleared(r)]
      /\ GoTo(g, r, "unmap", reader[r].buffer)
      /\ UNCHANGED <<mapping, results, ghosts>>

\* munmap(b) takes the address of b[0], which panics for nil, and unmaps what is
\* there, be it the mapping of another reader, or nothing.
Unmap(g) ==
  LET r == closing[g].reader
      a == closing[g].took
  IN  /\ closing[g].at = "unmap"
      /\ IF a = None
         THEN dead' = TRUE /\ stray' = TRUE /\ UNCHANGED mapping
         ELSE /\ mapping' = [mapping EXCEPT ![a] = None]
              /\ stray' = (stray \/ mapping[a] # r)
              /\ UNCHANGED dead
      /\ GoTo(g, r, "forget", None)
      /\ UNCHANGED <<reader, results, overlapped>>

Forget_Buffer(r) == reader[r]   \* mutant: r.buffer is kept
Forgotten(r) == [reader[r] EXCEPT !.buffer = None]
Forget(g) ==
  LET r == closing[g].reader
  IN  /\ closing[g].at = "forget"
      /\ reader' = [reader EXCEPT ![r] = Forgotten(r)]
      /\ closing' = [closing EXCEPT ![g] = Idle]
      /\ UNCHANGED <<mapping, results, ghosts>>

Step(g) == Check(g) \/ Clear(g) \/ Unmap(g) \/ Forget(g)
Close ==
  \/ \E g \in Goroutines, r \in Readers : CloseCalled(g, r)
  \/ \E r \in Readers : Finalized(r)
  \/ \E g \in Closers : Step(g)
-----------------------------------------------------------------------------
(***************************************************************************)
(* What the client does with a reader.                                     *)
(***************************************************************************)

\* Reading what a slice points to: the heap, or whatever is mapped there.
Read(at) == dead' = (at \in Addresses /\ mapping[at] = None)

\* Find checks r.buffer; the Result has the slice of the data section.
Find(r) ==
  /\ reader[r].stage = "open" /\ reader[r].held /\ reader[r].buffer # None
  /\ Read(reader[r].buffer)
  /\ results' = results \cup {[reader |-> r, at |-> reader[r].buffer]}
  /\ UNCHANGED <<mapping, reader, closing, overlapped, stray>>

Decode(result) ==
  /\ Read(result.at)
  /\ UNCHANGED <<mapping, reader, closing, results, overlapped, stray>>

\* The client's last reference to the reader goes; its Results may stay.
Drop(r) ==
  /\ reader[r].stage = "open" /\ reader[r].held
  /\ \A g \in Goroutines : closing[g].reader # r
  /\ reader' = [reader EXCEPT ![r].held = FALSE]
  /\ UNCHANGED <<mapping, closing, results, ghosts>>

Use == \/ \E r \in Readers : Find(r) \/ Drop(r)
       \/ \E result \in results : Decode(result)

Next == ~dead /\ (Open \/ Close \/ Use)

\* A goroutine that is in Close goes on; the garbage collector may never come.
Spec == Init /\ [][Next]_vars /\ \A g \in Closers : WF_vars(~dead /\ Step(g))
-----------------------------------------------------------------------------
(***************************************************************************)
(* Properties.                                                             *)
(***************************************************************************)
\* Close unmaps what Open mapped, once, and does not panic, however often it is
\* called and with the finalizer besides, but for two calls at the same time.
UnmapsItsOwn == stray => overlapped

\* No mapping is lost: Open is still busy with it, or a Close is about to unmap
\* it, or its reader can still be closed, and by the finalizer if nobody does.
NoMappingLost ==
  \A a \in Addresses : mapping[a] # None =>
    LET r == reader[mapping[a]]
    IN  \/ r.stage = "mapped" /\ r.buffer = a
        \/ r.stage = "open" /\ r.buffer = a /\ r.hasMappedFile /\ r.finalizer
        \/ \E g \in ClosedBy(mapping[a]) : closing[g].at \in {"check", "clear", "unmap"}
        \/ overlapped

\* Find and Decode read the reader's own file as long as the client holds the
\* reader and no Close of it has begun.  (A client that keeps a Result alone may
\* see the memory go: the Result does not keep the reader from its finalizer.)
Closable(r) == reader[r].held /\ ClosedBy(r) = {} /\ reader[r].buffer # None
ReadsItsOwn ==
  \A result \in results :
    Closable(result.reader) /\ result.at \in Addresses /\ ~overlapped
      => mapping[result.at] = result.reader

\* Open takes a file that Serialize wrote, marker bytes among the data or not,
\* and no other: the metadata are those behind the last marker.  (A name that
\* holds the marker puts the last one inside the metadata: that file is refused.)
Written(f) ==
  \E i \in DOMAIN f.cells : /\ i > f.nodeCount + 1
                            /\ SubSeq(f.cells, i, Len(f.cells)) = <<"marker", "map", "name">>
OpensWhatWasWritten ==
  \A r \in Readers : /\ reader[r].stage = "open" => Written(reader[r].file)
                     /\ reader[r].stage = "refused" => ~Written(reader[r].file)

\* A Close that began, the finalizer's too, comes to its end, and nothing of its
\* reader is mapped any more (or the process is gone).
CloseReleases ==
  \A g \in Closers, r \in Readers :
    closing[g].reader = r ~> (dead \/ (closing[g] = Idle /\ \A a \in Addresses : mapping[a] # r))
=============================================================================
