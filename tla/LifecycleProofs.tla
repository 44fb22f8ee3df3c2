--------------------------- MODULE LifecycleProofs ---------------------------
(***************************************************************************)
(* Proofs about Lifecycle, for any number of readers, addresses,           *)
(* goroutines and files.                                                   *)
(***************************************************************************)
EXTENDS Lifecycle, NumberLemmas, TLAPS, SequenceTheorems
-----------------------------------------------------------------------------
(***************************************************************************)
(* The inductive invariant.                                                *)
(***************************************************************************)
Buffers == Addresses \cup {None, Heap}
ReaderType ==
  [stage : {"unopened", "noinput", "mapped", "open", "refused"}, file : Files,
   buffer : Buffers, hasMappedFile : BOOLEAN, finalizer : BOOLEAN, held : BOOLEAN]
CloserType ==
  [reader : Readers \cup {None}, at : {"idle", "check", "clear", "unmap", "forget"},
   took : Buffers]

TypeOK ==
  /\ mapping \in [Addresses -> Readers \cup {None}]
  /\ reader \in [Readers -> ReaderType]
  /\ closing \in [Closers -> CloserType]
  /\ results \subseteq [reader : Readers, at : Addresses \cup {Heap}]
  /\ overlapped \in BOOLEAN /\ stray \in BOOLEAN /\ dead \in BOOLEAN

\* Only an open reader is held, finalized, closed or read from; its file was
\* accepted, and its buffer changes once more, to nil.
StagesOK ==
  /\ \A r \in Readers :
       /\ reader[r].held \/ reader[r].finalizer \/ reader[r].hasMappedFile =>
            reader[r].stage = "open"
       /\ reader[r].stage = "open" => OpenRawAccepts(reader[r].file)
       /\ reader[r].stage = "refused" => ~OpenRawAccepts(reader[r].file)
  /\ \A g \in Closers : 
       /\ closing[g].at = "idle" <=> closing[g].reader = None
       /\ closing[g].reader # None => reader[closing[g].reader].stage = "open"
  /\ \A result \in results :
       /\ reader[result.reader].stage = "open"
       /\ reader[result.reader].buffer \in {None, result.at}

Mine(r, a) == a \in Addresses /\ mapping[a] = r

\* The reader that Open has mapped, and one whose mapping is not given up yet,
\* has it.  No flag is set but for a closer to come, or one that will look at it.
HoldersOK ==
  \A r \in Readers :
    /\ reader[r].stage = "mapped" \/ reader[r].hasMappedFile => Mine(r, reader[r].buffer)
    /\ reader[r].hasMappedFile => reader[r].finalizer \/ ClosedBy(r) # {}
    /\ reader[r].stage = "open" /\ reader[r].buffer \in Addresses =>
         reader[r].hasMappedFile \/ ClosedBy(r) # {}

\* The one goroutine in a reader's Close knows the flag, and between the flag
\* and the system call the mapping is in its hands.
ClosersOK ==
  /\ \A g, h \in Closers : closing[g].reader = closing[h].reader /\ g # h =>
       closing[g].reader = None
  /\ \A g \in Closers :
       /\ closing[g].at = "clear" => reader[closing[g].reader].hasMappedFile
       /\ closing[g].at \in {"unmap", "forget"} => ~reader[closing[g].reader].hasMappedFile
       /\ closing[g].at = "unmap" => Mine(closing[g].reader, closing[g].took)

\* Every mapping is in somebody's hands.
MappingsOK ==
  \A a \in Addresses : mapping[a] # None =>
    LET r == reader[mapping[a]]
    IN  \/ r.stage = "mapped" /\ r.buffer = a
        \/ r.hasMappedFile /\ r.buffer = a
        \/ \E g \in ClosedBy(mapping[a]) : closing[g].at = "unmap" /\ closing[g].took = a

IInv ==
  /\ TypeOK
  /\ StagesOK
  /\ ~overlapped => HoldersOK /\ ClosersOK /\ MappingsOK /\ ~stray
-----------------------------------------------------------------------------
(***************************************************************************)
(* Open.                                                                   *)
(***************************************************************************)
USE DEF Mine, ClosedBy, ghosts

\* What the assignment of a reader's fields leaves as it was.
LEMMA ReaderUpdate ==
  ASSUME TypeOK, NEW r \in Readers, NEW x \in ReaderType,
         reader' = [reader EXCEPT ![r] = x]
  PROVE  /\ reader' \in [Readers -> ReaderType]
         /\ reader'[r] = x
         /\ \A q \in Readers : q # r => reader'[q] = reader[q]
BY DEF TypeOK

LEMMA OpenFailsStep ==
  ASSUME IInv, NEW r \in Readers, NEW f \in Files, OpenFails(r, f)
  PROVE  IInv'
<1> USE LifecycleAssumption DEF IInv, OpenFails
<1>1. reader[r].stage = "unopened" /\ reader[r].buffer = None
      /\ ~reader[r].held /\ ~reader[r].finalizer /\ ~reader[r].hasMappedFile
  BY DEF Unopened
<1>2. TypeOK'
  BY DEF TypeOK, ReaderType
<1>3. StagesOK'
  BY <1>1 DEF StagesOK, TypeOK, ReaderType
<1>4. ~overlapped => HoldersOK'
  BY <1>1 DEF HoldersOK, TypeOK, ReaderType
<1>5. ~overlapped => ClosersOK' /\ MappingsOK'
  BY <1>1 DEF ClosersOK, MappingsOK, TypeOK, ReaderType
<1> QED BY <1>2, <1>3, <1>4, <1>5

LEMMA OpenLoadedStep ==
  ASSUME IInv, NEW r \in Readers, NEW f \in Files, OpenLoaded(r, f)
  PROVE  IInv'
<1> USE LifecycleAssumption DEF IInv, OpenLoaded
<1>1. reader[r].stage = "unopened" /\ reader[r].buffer = None
      /\ ~reader[r].held /\ ~reader[r].finalizer /\ ~reader[r].hasMappedFile
  BY DEF Unopened
<1>2. TypeOK'
  <2> DEFINE x == IF OpenRawAccepts(f)
                  THEN [reader[r] EXCEPT !.stage = "open", !.file = f, !.buffer = Heap, !.held = TRUE]
                  ELSE [reader[r] EXCEPT !.stage = "refused", !.file = f]
  <2>1. x \in ReaderType
    BY DEF TypeOK, ReaderType, Buffers
  <2>2. reader' \in [Readers -> ReaderType]
    BY <2>1, ReaderUpdate
  <2> QED BY <2>2 DEF TypeOK
<1>3. StagesOK'
  BY <1>1 DEF StagesOK, TypeOK, ReaderType, CloserType, Buffers
<1>4. ~overlapped' => HoldersOK'
  BY <1>1 DEF HoldersOK, ClosersOK, MappingsOK, TypeOK, ReaderType, CloserType, Buffers
<1>5. ~overlapped' => ClosersOK'
  BY <1>1 DEF StagesOK, HoldersOK, ClosersOK, MappingsOK, TypeOK, ReaderType, CloserType, Buffers
<1>6. ~overlapped' => MappingsOK'
  BY <1>1 DEF HoldersOK, ClosersOK, MappingsOK, TypeOK, ReaderType, CloserType, Buffers
<1> QED BY <1>1, <1>2, <1>3, <1>4, <1>5, <1>6

LEMMA OpenMappedStep ==
  ASSUME IInv, NEW r \in Readers, NEW f \in Files, NEW a \in Addresses,
         OpenMapped(r, f, a)
  PROVE  IInv'
<1> USE LifecycleAssumption DEF IInv, OpenMapped
<1>1. reader[r].stage = "unopened" /\ reader[r].buffer = None
      /\ ~reader[r].held /\ ~reader[r].finalizer /\ ~reader[r].hasMappedFile
  BY DEF Unopened
<1>2. TypeOK'
  BY <1>1 DEF TypeOK, ReaderType, CloserType, Buffers
<1>3. StagesOK'
  BY <1>1 DEF StagesOK, TypeOK, ReaderType, CloserType, Buffers
<1>4. ~overlapped' => HoldersOK'
  BY <1>1 DEF HoldersOK, ClosersOK, MappingsOK, TypeOK, ReaderType, CloserType, Buffers
<1>5. ~overlapped' => ClosersOK'
  BY <1>1 DEF StagesOK, HoldersOK, ClosersOK, MappingsOK, TypeOK, ReaderType, CloserType, Buffers
<1>6. ~overlapped' => MappingsOK'
  BY <1>1 DEF HoldersOK, ClosersOK, MappingsOK, TypeOK, ReaderType, CloserType, Buffers
<1> QED BY <1>1, <1>2, <1>3, <1>4, <1>5, <1>6

LEMMA OpenAcceptsStep ==
  ASSUME IInv, NEW r \in Readers, OpenEnds(r), OpenRawAccepts(reader[r].file)
  PROVE  IInv'
<1> USE LifecycleAssumption DEF IInv
<1>1. /\ reader[r].stage = "mapped"
      /\ ~reader[r].held /\ ~reader[r].finalizer /\ ~reader[r].hasMappedFile
      /\ \A g \in Closers : closing[g].reader # r
  BY DEF OpenEnds, StagesOK, TypeOK, ReaderType
<1>7. /\ reader' \in [Readers -> ReaderType]
      /\ reader'[r].stage = "open" /\ reader'[r].hasMappedFile /\ reader'[r].finalizer
      /\ reader'[r].buffer = reader[r].buffer /\ reader'[r].file = reader[r].file
      /\ \A q \in Readers : q # r => reader'[q] = reader[q]
  <2> DEFINE x == [reader[r] EXCEPT !.stage = "open", !.hasMappedFile = TRUE,
                                    !.finalizer = TRUE, !.held = TRUE]
  <2>1. /\ x \in ReaderType
        /\ x.stage = "open" /\ x.hasMappedFile /\ x.finalizer
        /\ x.buffer = reader[r].buffer /\ x.file = reader[r].file
    BY DEF TypeOK, ReaderType
  <2>2. reader' = [reader EXCEPT ![r] = x]
    BY DEF OpenEnds, OpenAccepts
  <2> HIDE DEF x
  <2> QED BY <2>1, <2>2, ReaderUpdate
<1>8. UNCHANGED <<mapping, closing, results, overlapped, stray, dead>>
  BY DEF OpenEnds, OpenAccepts
<1>2. TypeOK'
  BY <1>1, <1>7, <1>8 DEF TypeOK, ReaderType, CloserType, Buffers
<1>3. StagesOK'
  <2>1. \A q \in Readers :
          /\ reader'[q].held \/ reader'[q].finalizer \/ reader'[q].hasMappedFile =>
               reader'[q].stage = "open"
          /\ reader'[q].stage = "open" => OpenRawAccepts(reader'[q].file)
          /\ reader'[q].stage = "refused" => ~OpenRawAccepts(reader'[q].file)
    BY <1>1, <1>7 DEF StagesOK
  <2>2. \A g \in Closers :
          /\ closing[g].at = "idle" <=> closing[g].reader = None
          /\ closing[g].reader # None => reader'[closing[g].reader].stage = "open"
    BY <1>1, <1>7 DEF StagesOK, TypeOK, CloserType
  <2>3. \A result \in results :
          /\ reader'[result.reader].stage = "open"
          /\ reader'[result.reader].buffer \in {None, result.at}
    BY <1>1, <1>7 DEF StagesOK, TypeOK
  <2> QED BY <1>8, <2>1, <2>2, <2>3 DEF StagesOK
<1>4. ~overlapped' => HoldersOK'
  <2> SUFFICES ASSUME ~overlapped, NEW q \in Readers
               PROVE  /\ reader'[q].stage = "mapped" \/ reader'[q].hasMappedFile =>
                           reader'[q].buffer \in Addresses /\ mapping'[reader'[q].buffer] = q
                      /\ reader'[q].hasMappedFile => reader'[q].finalizer \/ ClosedBy(q)' # {}
                      /\ reader'[q].stage = "open" /\ reader'[q].buffer \in Addresses =>
                           reader'[q].hasMappedFile \/ ClosedBy(q)' # {}
    BY <1>8 DEF HoldersOK
  <2>3. ClosedBy(q)' = ClosedBy(q)
    BY <1>8
  <2>1. CASE q = r
    BY <1>1, <1>7, <1>8, <2>1 DEF HoldersOK
  <2>2. CASE q # r
    <3>1. reader'[q] = reader[q]
      BY <1>7, <2>2
    <3>2. reader[r].buffer \in Addresses /\ mapping[reader[r].buffer] = r
      BY <1>1 DEF HoldersOK
    <3> QED BY <1>8, <2>2, <2>3, <3>1, <3>2 DEF HoldersOK, TypeOK
  <2> QED BY <2>1, <2>2
<1>5. ~overlapped' => ClosersOK'
  BY <1>1, <1>7, <1>8 DEF StagesOK, HoldersOK, ClosersOK, MappingsOK, TypeOK, ReaderType, CloserType, Buffers
<1>6. ~overlapped' => MappingsOK'
  <2> SUFFICES ASSUME ~overlapped, NEW a \in Addresses, mapping'[a] # None
               PROVE  \/ reader'[mapping'[a]].stage = "mapped" /\ reader'[mapping'[a]].buffer = a
                      \/ reader'[mapping'[a]].hasMappedFile /\ reader'[mapping'[a]].buffer = a
                      \/ \E g \in Closers : /\ closing[g].reader = mapping'[a]
                                            /\ closing[g].at = "unmap" /\ closing[g].took = a
    BY <1>8 DEF MappingsOK
  <2>1. mapping' = mapping
    BY <1>8 DEF HoldersOK, TypeOK
  <2> QED BY <1>1, <1>7, <1>8, <2>1 DEF MappingsOK, TypeOK
<1> QED BY <1>1, <1>7, <1>8, <1>2, <1>3, <1>4, <1>5, <1>6

LEMMA OpenRefusesStep ==
  ASSUME IInv, NEW r \in Readers, OpenEnds(r), ~OpenRawAccepts(reader[r].file)
  PROVE  IInv'
<1> USE LifecycleAssumption DEF IInv
<1>1. /\ reader[r].stage = "mapped"
      /\ ~reader[r].held /\ ~reader[r].finalizer /\ ~reader[r].hasMappedFile
      /\ \A g \in Closers : closing[g].reader # r
  BY DEF OpenEnds, StagesOK, TypeOK, ReaderType
<1>7. /\ reader' \in [Readers -> ReaderType]
      /\ reader'[r].stage = "refused" /\ reader'[r].file = reader[r].file
      /\ ~reader'[r].held /\ ~reader'[r].finalizer /\ ~reader'[r].hasMappedFile
      /\ \A q \in Readers : q # r => reader'[q] = reader[q]
  <2> DEFINE x == [reader[r] EXCEPT !.stage = "refused", !.buffer = None]
  <2>1. /\ x \in ReaderType
        /\ x.stage = "refused" /\ x.file = reader[r].file
        /\ ~x.held /\ ~x.finalizer /\ ~x.hasMappedFile
    BY <1>1 DEF TypeOK, ReaderType, Buffers
  <2>2. reader' = [reader EXCEPT ![r] = x]
    BY DEF OpenEnds, OpenRefuses
  <2> HIDE DEF x
  <2> QED BY <2>1, <2>2, ReaderUpdate
<1>8. /\ mapping' = [mapping EXCEPT ![reader[r].buffer] = None]
      /\ UNCHANGED <<closing, results, overlapped, stray, dead>>
  BY DEF OpenEnds, OpenRefuses
<1>2. TypeOK'
  BY <1>1, <1>7, <1>8 DEF TypeOK, ReaderType, CloserType, Buffers
<1>3. StagesOK'
  <2>1. \A q \in Readers :
          /\ reader'[q].held \/ reader'[q].finalizer \/ reader'[q].hasMappedFile =>
               reader'[q].stage = "open"
          /\ reader'[q].stage = "open" => OpenRawAccepts(reader'[q].file)
          /\ reader'[q].stage = "refused" => ~OpenRawAccepts(reader'[q].file)
    BY <1>1, <1>7 DEF StagesOK
  <2>2. \A g \in Closers :
          /\ closing[g].at = "idle" <=> closing[g].reader = None
          /\ closing[g].reader # None => reader'[closing[g].reader].stage = "open"
    BY <1>1, <1>7 DEF StagesOK, TypeOK, CloserType
  <2>3. \A result \in results :
          /\ reader'[result.reader].stage = "open"
          /\ reader'[result.reader].buffer \in {None, result.at}
    BY <1>1, <1>7 DEF StagesOK, TypeOK
  <2> QED BY <1>8, <2>1, <2>2, <2>3 DEF StagesOK
<1>4. ~overlapped' => HoldersOK'
  <2> SUFFICES ASSUME ~overlapped, NEW q \in Readers
               PROVE  /\ reader'[q].stage = "mapped" \/ reader'[q].hasMappedFile =>
                           reader'[q].buffer \in Addresses /\ mapping'[reader'[q].buffer] = q
                      /\ reader'[q].hasMappedFile => reader'[q].finalizer \/ ClosedBy(q)' # {}
                      /\ reader'[q].stage = "open" /\ reader'[q].buffer \in Addresses =>
                           reader'[q].hasMappedFile \/ ClosedBy(q)' # {}
    BY <1>8 DEF HoldersOK
  <2>3. ClosedBy(q)' = ClosedBy(q)
    BY <1>8
  <2>1. CASE q = r
    BY <1>1, <1>7, <1>8, <2>1 DEF HoldersOK
  <2>2. CASE q # r
    <3>1. reader'[q] = reader[q]
      BY <1>7, <2>2
    <3>2. reader[r].buffer \in Addresses /\ mapping[reader[r].buffer] = r
      BY <1>1 DEF HoldersOK
    <3> QED BY <1>8, <2>2, <2>3, <3>1, <3>2 DEF HoldersOK, TypeOK
  <2> QED BY <2>1, <2>2
<1>5. ~overlapped' => ClosersOK'
  BY <1>1, <1>7, <1>8 DEF StagesOK, HoldersOK, ClosersOK, MappingsOK, TypeOK, ReaderType, CloserType, Buffers
<1>6. ~overlapped' => MappingsOK'
  <2> SUFFICES ASSUME ~overlapped, NEW a \in Addresses, mapping'[a] # None
               PROVE  \/ reader'[mapping'[a]].stage = "mapped" /\ reader'[mapping'[a]].buffer = a
                      \/ reader'[mapping'[a]].hasMappedFile /\ reader'[mapping'[a]].buffer = a
                      \/ \E g \in Closers : /\ closing[g].reader = mapping'[a]
                                            /\ closing[g].at = "unmap" /\ closing[g].took = a
    BY <1>8 DEF MappingsOK
  <2>0. reader[r].buffer \in Addresses /\ mapping[reader[r].buffer] = r
    BY <1>1 DEF HoldersOK
  <2>2. a # reader[r].buffer /\ mapping'[a] = mapping[a]
    BY <1>8, <2>0 DEF TypeOK
  <2>1. mapping'[a] = mapping[a] /\ mapping[a] # r
    BY <1>1, <2>2 DEF MappingsOK, TypeOK
  <2> QED BY <1>1, <1>7, <1>8, <2>1 DEF MappingsOK, TypeOK
<1> QED BY <1>1, <1>7, <1>8, <1>2, <1>3, <1>4, <1>5, <1>6

LEMMA OpenStep ==
  ASSUME IInv, Open
  PROVE  IInv'
BY OpenFailsStep, OpenLoadedStep, OpenMappedStep, OpenAcceptsStep, OpenRefusesStep DEF Open
-----------------------------------------------------------------------------
(***************************************************************************)
(* Close.                                                                  *)
(***************************************************************************)

LEMMA CloseCalledStep ==
  ASSUME IInv, NEW g \in Goroutines, NEW r \in Readers, CloseCalled(g, r)
  PROVE  IInv'
<1> USE LifecycleAssumption DEF IInv, Closers, CloseCalled, Begin, GoTo, Idle
<1>2. TypeOK'
  BY DEF TypeOK, ReaderType, CloserType, Buffers
<1>3. StagesOK'
  BY DEF StagesOK, TypeOK, ReaderType, CloserType, Buffers
<1>4. ~overlapped' => HoldersOK'
  BY DEF HoldersOK, ClosersOK, MappingsOK, TypeOK, ReaderType, CloserType, Buffers
<1>5. ~overlapped' => ClosersOK'
  BY DEF StagesOK, HoldersOK, ClosersOK, MappingsOK, TypeOK, ReaderType, CloserType, Buffers
<1>6. ~overlapped' => MappingsOK'
  BY DEF HoldersOK, ClosersOK, MappingsOK, TypeOK, ReaderType, CloserType, Buffers
<1> QED BY <1>2, <1>3, <1>4, <1>5, <1>6

LEMMA FinalizedStep ==
  ASSUME IInv, NEW r \in Readers, Finalized(r)
  PROVE  IInv'
<1> USE LifecycleAssumption DEF IInv, Closers, Finalized, Begin, GoTo, Idle
<1>2. TypeOK'
  BY DEF TypeOK, ReaderType, CloserType, Buffers
<1>3. StagesOK'
  BY DEF StagesOK, TypeOK, ReaderType, CloserType, Buffers
<1>4. ~overlapped' => HoldersOK'
  BY DEF HoldersOK, ClosersOK, MappingsOK, TypeOK, ReaderType, CloserType, Buffers
<1>5. ~overlapped' => ClosersOK'
  BY DEF StagesOK, HoldersOK, ClosersOK, MappingsOK, TypeOK, ReaderType, CloserType, Buffers
<1>6. ~overlapped' => MappingsOK'
  BY DEF HoldersOK, ClosersOK, MappingsOK, TypeOK, ReaderType, CloserType, Buffers
<1> QED BY <1>2, <1>3, <1>4, <1>5, <1>6

LEMMA CheckStep ==
  ASSUME IInv, NEW g \in Closers, Check(g)
  PROVE  IInv'
<1> USE LifecycleAssumption DEF IInv, Check, GoTo, AfterCheck
<1>1. closing[g].reader \in Readers /\ reader[closing[g].reader].stage = "open"
  BY DEF Check, StagesOK, TypeOK, CloserType
<1>2. TypeOK'
  BY <1>1 DEF TypeOK, ReaderType, CloserType, Buffers
<1>3. StagesOK'
  BY <1>1 DEF StagesOK, TypeOK, ReaderType, CloserType, Buffers
<1>4. ~overlapped' => HoldersOK'
  BY <1>1 DEF HoldersOK, ClosersOK, MappingsOK, TypeOK, ReaderType, CloserType, Buffers
<1>5. ~overlapped' => ClosersOK'
  BY <1>1 DEF StagesOK, HoldersOK, ClosersOK, MappingsOK, TypeOK, ReaderType, CloserType, Buffers
<1>6. ~overlapped' => MappingsOK'
  BY <1>1 DEF HoldersOK, ClosersOK, MappingsOK, TypeOK, ReaderType, CloserType, Buffers
<1> QED BY <1>1, <1>2, <1>3, <1>4, <1>5, <1>6

LEMMA ClearStep ==
  ASSUME IInv, NEW g \in Closers, Clear(g)
  PROVE  IInv'
<1> USE LifecycleAssumption DEF IInv, Clear, GoTo, Cleared
<1>1. closing[g].reader \in Readers /\ reader[closing[g].reader].stage = "open"
  BY DEF Clear, StagesOK, TypeOK, CloserType
<1>2. TypeOK'
  <2> DEFINE r == closing[g].reader
  <2>4. reader[r] \in ReaderType
    BY <1>1 DEF TypeOK
  <2>1. Cleared(r) \in ReaderType
    <3> HIDE DEF r
    <3> QED BY <2>4 DEF ReaderType
  <2>2. reader' \in [Readers -> ReaderType]
    BY <1>1, <2>1, ReaderUpdate
  <2>3. closing' \in [Closers -> CloserType]
    BY <1>1 DEF TypeOK, ReaderType, CloserType
  <2> QED BY <2>2, <2>3 DEF TypeOK
<1>3. StagesOK'
  BY <1>1 DEF StagesOK, TypeOK, ReaderType, CloserType, Buffers
<1>4. ~overlapped' => HoldersOK'
  BY <1>1 DEF HoldersOK, ClosersOK, MappingsOK, TypeOK, ReaderType, CloserType, Buffers
<1>5. ~overlapped' => ClosersOK'
  BY <1>1 DEF StagesOK, HoldersOK, ClosersOK, MappingsOK, TypeOK, ReaderType, CloserType, Buffers
<1>6. ~overlapped' => MappingsOK'
  BY <1>1 DEF HoldersOK, ClosersOK, MappingsOK, TypeOK, ReaderType, CloserType, Buffers
<1> QED BY <1>1, <1>2, <1>3, <1>4, <1>5, <1>6

LEMMA UnmapStep ==
  ASSUME IInv, NEW g \in Closers, Unmap(g)
  PROVE  IInv'
<1> USE LifecycleAssumption DEF IInv, Unmap, GoTo
<1>1. closing[g].reader \in Readers /\ reader[closing[g].reader].stage = "open"
  BY DEF Unmap, StagesOK, TypeOK, CloserType
<1>2. TypeOK'
  BY <1>1 DEF TypeOK, ReaderType, CloserType, Buffers
<1>3. StagesOK'
  BY <1>1 DEF StagesOK, TypeOK, ReaderType, CloserType, Buffers
<1>4. ~overlapped' => HoldersOK'
  BY <1>1 DEF HoldersOK, ClosersOK, MappingsOK, TypeOK, ReaderType, CloserType, Buffers
<1>5. ~overlapped' => ClosersOK'
  BY <1>1 DEF StagesOK, HoldersOK, ClosersOK, MappingsOK, TypeOK, ReaderType, CloserType, Buffers
<1>7. ~overlapped' => ~stray' /\ closing[g].took \in Addresses
                      /\ mapping[closing[g].took] = closing[g].reader
  BY DEF ClosersOK, TypeOK
<1>6. ~overlapped' => MappingsOK'
  <2> SUFFICES ASSUME ~overlapped, NEW a \in Addresses, mapping'[a] # None
               PROVE  \/ reader[mapping'[a]].stage = "mapped" /\ reader[mapping'[a]].buffer = a
                      \/ reader[mapping'[a]].hasMappedFile /\ reader[mapping'[a]].buffer = a
                      \/ \E h \in Closers : /\ closing'[h].reader = mapping'[a]
                                            /\ closing'[h].at = "unmap" /\ closing'[h].took = a
    BY DEF MappingsOK
  <2>1. a # closing[g].took /\ mapping'[a] = mapping[a]
    BY <1>7 DEF TypeOK
  <2>2. ASSUME NEW h \in Closers, closing[h].took = a
        PROVE  closing'[h] = closing[h]
    BY <2>1, <2>2 DEF TypeOK
  <2> QED BY <2>1, <2>2 DEF MappingsOK
<1> QED BY <1>1, <1>2, <1>3, <1>4, <1>5, <1>6, <1>7

LEMMA ForgetStep ==
  ASSUME IInv, NEW g \in Closers, Forget(g)
  PROVE  IInv'
<1> USE LifecycleAssumption DEF IInv, Forget, GoTo, Forgotten, Idle
<1>1. closing[g].reader \in Readers /\ reader[closing[g].reader].stage = "open"
  BY DEF Forget, StagesOK, TypeOK, CloserType
<1>2. TypeOK'
  <2>1. Forgotten(closing[g].reader) \in ReaderType
    <3>1. PICK x \in ReaderType : x = reader[closing[g].reader]
      BY <1>1 DEF TypeOK
    <3>2. [x EXCEPT !.buffer = None] \in ReaderType
      BY DEF ReaderType, Buffers
    <3> QED BY <3>1, <3>2
  <2>2. reader' \in [Readers -> ReaderType]
    BY <1>1, <2>1 DEF TypeOK
  <2>3. closing' \in [Closers -> CloserType]
    BY DEF TypeOK, CloserType, Buffers
  <2> QED BY <2>2, <2>3 DEF TypeOK
<1>3. StagesOK'
  BY <1>1 DEF StagesOK, TypeOK, ReaderType, CloserType, Buffers
<1>4. ~overlapped' => HoldersOK'
  BY <1>1 DEF HoldersOK, ClosersOK, MappingsOK, TypeOK, ReaderType, CloserType, Buffers
<1>5. ~overlapped' => ClosersOK'
  BY <1>1 DEF StagesOK, HoldersOK, ClosersOK, MappingsOK, TypeOK, ReaderType, CloserType, Buffers
<1>6. ~overlapped' => MappingsOK'
  BY <1>1 DEF HoldersOK, ClosersOK, MappingsOK, TypeOK, ReaderType, CloserType, Buffers
<1> QED BY <1>1, <1>2, <1>3, <1>4, <1>5, <1>6

LEMMA CloseStep ==
  ASSUME IInv, Close
  PROVE  IInv'
BY CloseCalledStep, FinalizedStep, CheckStep, ClearStep, UnmapStep, ForgetStep DEF Close, Step
-----------------------------------------------------------------------------
(***************************************************************************)
(* The client.                                                             *)
(***************************************************************************)

LEMMA FindStep ==
  ASSUME IInv, NEW r \in Readers, Find(r)
  PROVE  IInv'
<1> USE LifecycleAssumption DEF IInv, Find, Read
<1>2. TypeOK'
  BY DEF TypeOK, ReaderType, CloserType, Buffers
<1>3. StagesOK'
  BY DEF StagesOK, TypeOK, ReaderType, CloserType, Buffers
<1>4. ~overlapped' => HoldersOK'
  BY DEF HoldersOK, ClosersOK, MappingsOK, TypeOK, ReaderType, CloserType, Buffers
<1>5. ~overlapped' => ClosersOK'
  BY DEF StagesOK, HoldersOK, ClosersOK, MappingsOK, TypeOK, ReaderType, CloserType, Buffers
<1>6. ~overlapped' => MappingsOK'
  BY DEF HoldersOK, ClosersOK, MappingsOK, TypeOK, ReaderType, CloserType, Buffers
<1> QED BY <1>2, <1>3, <1>4, <1>5, <1>6

LEMMA DecodeStep ==
  ASSUME IInv, NEW result \in results, Decode(result)
  PROVE  IInv'
<1> USE LifecycleAssumption DEF IInv, Decode, Read
<1>2. TypeOK'
  BY DEF TypeOK, ReaderType, CloserType, Buffers
<1>3. StagesOK'
  BY DEF StagesOK, TypeOK, ReaderType, CloserType, Buffers
<1>4. ~overlapped' => HoldersOK'
  BY DEF HoldersOK, ClosersOK, MappingsOK, TypeOK, ReaderType, CloserType, Buffers
<1>5. ~overlapped' => ClosersOK'
  BY DEF StagesOK, HoldersOK, ClosersOK, MappingsOK, TypeOK, ReaderType, CloserType, Buffers
<1>6. ~overlapped' => MappingsOK'
  BY DEF HoldersOK, ClosersOK, MappingsOK, TypeOK, ReaderType, CloserType, Buffers
<1> QED BY <1>2, <1>3, <1>4, <1>5, <1>6

LEMMA DropStep ==
  ASSUME IInv, NEW r \in Readers, Drop(r)
  PROVE  IInv'
<1> USE LifecycleAssumption DEF IInv, Drop
<1>2. TypeOK'
  BY DEF TypeOK, ReaderType, CloserType, Buffers
<1>3. StagesOK'
  BY DEF StagesOK, TypeOK, ReaderType, CloserType, Buffers
<1>4. ~overlapped' => HoldersOK'
  BY DEF HoldersOK, ClosersOK, MappingsOK, TypeOK, ReaderType, CloserType, Buffers
<1>5. ~overlapped' => ClosersOK'
  BY DEF StagesOK, HoldersOK, ClosersOK, MappingsOK, TypeOK, ReaderType, CloserType, Buffers
<1>6. ~overlapped' => MappingsOK'
  BY DEF HoldersOK, ClosersOK, MappingsOK, TypeOK, ReaderType, CloserType, Buffers
<1> QED BY <1>2, <1>3, <1>4, <1>5, <1>6
-----------------------------------------------------------------------------
(***************************************************************************)
(* The invariant, and what follows from it.                                *)
(***************************************************************************)

LEMMA InitInvariant == Init => IInv
<1> SUFFICES ASSUME Init PROVE IInv
  OBVIOUS
<1> USE LifecycleAssumption DEF Init
<1>1. Unopened \in ReaderType
  <2>1. (CHOOSE f \in Files : TRUE) \in Files
    OBVIOUS
  <2> QED BY <2>1 DEF Unopened, ReaderType, Buffers
<1>2. Idle \in CloserType
  BY DEF Idle, CloserType, Buffers
<1>3. TypeOK
  BY <1>1, <1>2 DEF TypeOK
<1>4. StagesOK /\ HoldersOK /\ ClosersOK /\ MappingsOK
  BY DEF StagesOK, HoldersOK, ClosersOK, MappingsOK, Unopened, Idle
<1> QED BY <1>3, <1>4 DEF IInv

LEMMA NextInvariant == IInv /\ [Next]_vars => IInv'
<1> SUFFICES ASSUME IInv, [Next]_vars PROVE IInv'
  OBVIOUS
<1>1. CASE Open
  BY <1>1, OpenStep
<1>2. CASE Close
  BY <1>2, CloseStep
<1>3. CASE Use
  BY <1>3, FindStep, DecodeStep, DropStep DEF Use
<1>4. CASE UNCHANGED vars
  BY <1>4 DEF vars, IInv, TypeOK, StagesOK, HoldersOK, ClosersOK, MappingsOK
<1> QED BY <1>1, <1>2, <1>3, <1>4 DEF Next

\* The types, and in whose hands each mapping is, in every reachable state.
THEOREM Invariance == Spec => []IInv
<1>1. Init => IInv
  BY InitInvariant
<1>2. IInv /\ [Next]_vars => IInv'
  BY NextInvariant
<1> QED BY <1>1, <1>2, PTL DEF Spec

\* However many Closes there are, and the finalizer besides, each mapping goes
\* back once and a Close never takes another reader's, but for two at a time.
THEOREM UnmapsOnce == Spec => []UnmapsItsOwn
<1>1. IInv => UnmapsItsOwn
  BY DEF IInv, UnmapsItsOwn, TypeOK
<1> QED BY <1>1, Invariance, PTL

\* Whatever is mapped is still in the hands of Open, a Close or the finalizer.
THEOREM MappingsAreHeld == Spec => []NoMappingLost
<1>1. IInv => NoMappingLost
  <2> SUFFICES ASSUME IInv, NEW a \in Addresses, mapping[a] # None, ~overlapped
               PROVE  \/ reader[mapping[a]].stage = "mapped" /\ reader[mapping[a]].buffer = a
                      \/ /\ reader[mapping[a]].stage = "open" /\ reader[mapping[a]].buffer = a
                         /\ reader[mapping[a]].hasMappedFile /\ reader[mapping[a]].finalizer
                      \/ \E g \in Closers : /\ closing[g].reader = mapping[a]
                                            /\ closing[g].at \in {"check", "clear", "unmap"}
    BY DEF NoMappingLost
  <2>1. mapping[a] \in Readers
    BY DEF IInv, TypeOK
  <2>2. CASE reader[mapping[a]].hasMappedFile /\ reader[mapping[a]].buffer = a
    <3>1. reader[mapping[a]].stage = "open"
      BY <2>1, <2>2 DEF IInv, StagesOK
    <3>2. reader[mapping[a]].finalizer
          \/ \E g \in Closers : closing[g].reader = mapping[a]
      BY <2>1, <2>2 DEF IInv, HoldersOK
    <3>3. ASSUME NEW g \in Closers, closing[g].reader = mapping[a]
          PROVE  closing[g].at \in {"check", "clear", "unmap"}
      <4>1. closing[g].at \notin {"idle", "forget"}
        BY <2>1, <2>2, <3>3, LifecycleAssumption DEF IInv, StagesOK, ClosersOK
      <4> QED BY <4>1 DEF IInv, TypeOK, CloserType
    <3> QED BY <2>2, <3>1, <3>2, <3>3
  <2> QED BY <2>2 DEF IInv, MappingsOK
<1> QED BY <1>1, Invariance, PTL

\* While the client holds the reader and nobody closes it, its Results point into
\* the reader's own file, or into the heap.
THEOREM ReadsItsOwnFile == Spec => []ReadsItsOwn
<1>1. IInv => ReadsItsOwn
  <2> SUFFICES ASSUME IInv, NEW result \in results, Closable(result.reader),
                      result.at \in Addresses, ~overlapped
               PROVE  mapping[result.at] = result.reader
    BY DEF ReadsItsOwn
  <2>1. result.reader \in Readers /\ ClosedBy(result.reader) = {}
    BY DEF IInv, TypeOK, Closable
  <2>2. /\ reader[result.reader].stage = "open"
        /\ reader[result.reader].buffer = result.at
    BY DEF IInv, StagesOK, Closable
  <2> QED BY <2>1, <2>2 DEF IInv, HoldersOK
<1> QED BY <1>1, Invariance, PTL

\* The last marker of a file is one, and none comes after it.
LEMMA LastMarker ==
  ASSUME NEW f \in Files, Markers(f) # {}
  PROVE  MetadataStart(f) \in Markers(f) /\ \A j \in Markers(f) : j <= MetadataStart(f)
<1>1. f.cells \in Seq(STRING)
  BY LifecycleAssumption
<1>2. /\ Markers(f) \in SUBSET Nat /\ Len(f.cells) \in Nat
      /\ \A i \in Markers(f) : i <= Len(f.cells)
  BY <1>1 DEF Markers
<1>3. \E i \in Markers(f) : \A j \in Markers(f) : j <= i
  BY <1>2, GreatestNumber
<1> QED BY <1>3 DEF MetadataStart

\* When the end of a sequence is two or three given elements.
LEMMA EndOfTwo ==
  ASSUME NEW S, NEW s \in Seq(S), NEW k \in 1..(Len(s) + 1), NEW x, NEW y
  PROVE  SubSeq(s, k, Len(s)) = <<x, y>> <=> Len(s) = k + 1 /\ s[k] = x /\ s[k + 1] = y
<1> DEFINE t == SubSeq(s, k, Len(s))
           T == S \cup {x, y}
<1>1. /\ t \in Seq(T) /\ Len(t) = Len(s) - k + 1
      /\ \A i \in 1..(Len(s) - k + 1) : t[i] = s[k + i - 1]
  <2>1. \A i \in k..Len(s) : s[i] \in T
    OBVIOUS
  <2> HIDE DEF T
  <2> QED BY <2>1, SubSeqProperties
<1>2. <<x, y>> \in Seq(T) /\ Len(<<x, y>>) = 2
  OBVIOUS
<1> HIDE DEF t, T
<1>3. ASSUME t = <<x, y>> PROVE Len(s) = k + 1 /\ s[k] = x /\ s[k + 1] = y
  <2>1. Len(s) = k + 1
    BY <1>1, <1>2, <1>3
  <2>2. t[1] = s[k] /\ t[2] = s[k + 1]
    BY <1>1, <2>1
  <2> QED BY <1>3, <2>1, <2>2
<1>4. ASSUME Len(s) = k + 1, s[k] = x, s[k + 1] = y PROVE t = <<x, y>>
  <2>1. t[1] = x /\ t[2] = y /\ Len(t) = 2
    BY <1>1, <1>4
  <2> DEFINE u == <<x, y>>
  <2>2. u[1] = x /\ u[2] = y /\ Len(u) = 2 /\ u \in Seq(T)
    BY <1>2
  <2> HIDE DEF u
  <2>3. \A i \in 1..Len(t) : t[i] = u[i]
    BY <2>1, <2>2
  <2>4. t = u
    BY <1>1, <2>1, <2>2, <2>3, SeqEqual
  <2> QED BY <2>4 DEF u
<1> QED BY <1>3, <1>4 DEF t

LEMMA EndOfThree ==
  ASSUME NEW S, NEW s \in Seq(S), NEW k \in 1..(Len(s) + 1),
         NEW x, NEW y, NEW z
  PROVE  SubSeq(s, k, Len(s)) = <<x, y, z>> <=>
           Len(s) = k + 2 /\ s[k] = x /\ s[k + 1] = y /\ s[k + 2] = z
<1> DEFINE t == SubSeq(s, k, Len(s))
           T == S \cup {x, y, z}
<1>1. /\ t \in Seq(T) /\ Len(t) = Len(s) - k + 1
      /\ \A i \in 1..(Len(s) - k + 1) : t[i] = s[k + i - 1]
  <2>1. \A i \in k..Len(s) : s[i] \in T
    OBVIOUS
  <2> HIDE DEF T
  <2> QED BY <2>1, SubSeqProperties
<1>2. <<x, y, z>> \in Seq(T) /\ Len(<<x, y, z>>) = 3
  OBVIOUS
<1> HIDE DEF t, T
<1>3. ASSUME t = <<x, y, z>>
      PROVE  Len(s) = k + 2 /\ s[k] = x /\ s[k + 1] = y /\ s[k + 2] = z
  <2>1. Len(s) = k + 2
    BY <1>1, <1>2, <1>3
  <2>2. t[1] = s[k] /\ t[2] = s[k + 1] /\ t[3] = s[k + 2]
    BY <1>1, <2>1
  <2> QED BY <1>3, <2>1, <2>2
<1>4. ASSUME Len(s) = k + 2, s[k] = x, s[k + 1] = y, s[k + 2] = z PROVE t = <<x, y, z>>
  <2>1. t[1] = x /\ t[2] = y /\ t[3] = z /\ Len(t) = 3
    BY <1>1, <1>4
  <2> DEFINE u == <<x, y, z>>
  <2>2. u[1] = x /\ u[2] = y /\ u[3] = z /\ Len(u) = 3 /\ u \in Seq(T)
    BY <1>2
  <2> HIDE DEF u
  <2>3. \A i \in 1..Len(t) : t[i] = u[i]
    BY <2>1, <2>2
  <2>4. t = u
    BY <1>1, <2>1, <2>2, <2>3, SeqEqual
  <2> QED BY <2>4 DEF u
<1> QED BY <1>3, <1>4 DEF t

\* What OpenRaw looks for is what Serialize puts at the end of a file: where the
\* metadata have two cells, no other place than the last marker can be meant.
LEMMA AcceptsWritten ==
  ASSUME NEW f \in Files
  PROVE  OpenRawAccepts(f) <=> Written(f)
<1> DEFINE c == f.cells
           n == Len(c)
           m == MetadataStart(f)
<1>1. c \in Seq(STRING) /\ n \in Nat /\ f.nodeCount \in Nat
  BY LifecycleAssumption
<1>4. \A k \in 1..(n + 1) : SubSeq(c, k, n) = <<"map", "name">> <=>
                             n = k + 1 /\ c[k] = "map" /\ c[k + 1] = "name"
  <2> HIDE DEF c
  <2> QED BY <1>1, EndOfTwo
<1>5. \A k \in 1..(n + 1) : SubSeq(c, k, n) = <<"marker", "map", "name">> <=>
                      n = k + 2 /\ c[k] = "marker" /\ c[k + 1] = "map" /\ c[k + 2] = "name"
  <2> HIDE DEF c
  <2>1. \A k \in 1..(Len(c) + 1) : \A x, y, z :
          SubSeq(c, k, Len(c)) = <<x, y, z>> <=>
            Len(c) = k + 2 /\ c[k] = x /\ c[k + 1] = y /\ c[k + 2] = z
    BY <1>1, EndOfThree
  <2> QED BY <1>1, <2>1
<1>2. ASSUME OpenRawAccepts(f) PROVE Written(f)
  <2>1. m \in 1..n /\ c[m] = "marker" /\ f.nodeCount + 1 <= m - 1
    BY <1>1, <1>2, LastMarker DEF OpenRawAccepts, Markers
  <2>2. SubSeq(c, m + 1, n) = <<"map", "name">>
    BY <1>2 DEF OpenRawAccepts
  <2> HIDE DEF c, m
  <2>3. n = m + 2 /\ c[m + 1] = "map" /\ c[m + 2] = "name"
    BY <1>1, <2>1, <2>2, <1>4
  <2>4. SubSeq(c, m, n) = <<"marker", "map", "name">>
    BY <1>1, <2>1, <2>3, <1>5
  <2> QED BY <1>1, <2>1, <2>4 DEF Written, c
<1>3. ASSUME Written(f) PROVE OpenRawAccepts(f)
  <2>1. PICK i \in DOMAIN c : /\ i > f.nodeCount + 1
                              /\ SubSeq(c, i, n) = <<"marker", "map", "name">>
    BY <1>3 DEF Written
  <2>2. /\ i \in 1..n /\ n = i + 2
        /\ c[i] = "marker" /\ c[i + 1] = "map" /\ c[i + 2] = "name"
    <3>1. i \in 1..n
      BY <1>1, <2>1
    <3> HIDE DEF c, n
    <3> QED BY <1>1, <1>5, <2>1, <3>1
  <2>3. i \in Markers(f)
    BY <2>2 DEF Markers
  <2>4. \A j \in Markers(f) : j <= i
    BY <1>1, <2>2 DEF Markers
  <2>5. m = i
    <3>1. m \in Markers(f) /\ i <= m
      BY <2>3, LastMarker
    <3>2. m \in Nat
      BY <1>1, <3>1 DEF Markers
    <3> HIDE DEF m
    <3> QED BY <2>2, <2>4, <3>1, <3>2
  <2>6. SubSeq(c, i + 1, n) = <<"map", "name">>
    <3> HIDE DEF c
    <3> QED BY <1>1, <2>2, <1>4
  <2> QED BY <1>1, <2>1, <2>2, <2>3, <2>5, <2>6 DEF OpenRawAccepts
<1> QED BY <1>2, <1>3

\* Open gives a reader of the files that Serialize writes, and of no other.
THEOREM OpensWritten == Spec => []OpensWhatWasWritten
<1>1. IInv => OpensWhatWasWritten
  <2> SUFFICES ASSUME IInv, NEW r \in Readers
               PROVE  /\ reader[r].stage = "open" => Written(reader[r].file)
                      /\ reader[r].stage = "refused" => ~Written(reader[r].file)
    BY DEF OpensWhatWasWritten
  <2>1. reader[r].file \in Files
    BY DEF IInv, TypeOK, ReaderType
  <2> QED BY <2>1, AcceptsWritten DEF IInv, StagesOK
<1> QED BY <1>1, Invariance, PTL
=============================================================================
