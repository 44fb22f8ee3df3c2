------------------------------- MODULE Reader -------------------------------
(***************************************************************************)
(* reader.Reader over one file: Find, and the iterators GetAll (Scan),     *)
(* GetRange and Where, which walk the node table with a stack of their own *)
(* and call the consumer back for every result.  The consumer may stop an  *)
(* iterator, and it, or another goroutine, may close the reader meanwhile. *)
(***************************************************************************)
EXTENDS DbFile, FiniteSetsExt

CONSTANTS
  Contents,    \* what the files under study were written from
  RangeStack,  \* length of GetRange's stack; 64 in the code, for 64 bits
  WhereStack,  \* length of Where's stack; 128 in the code
  Mapped       \* TRUE for Open (a file mapping), FALSE for OpenRaw (a slice)

ASSUME ReaderAssumption ==
  /\ Contents \subseteq [Keys -> Values \cup {Nil}]
  /\ RangeStack \in Nat /\ WhereStack \in Nat /\ Mapped \in BOOLEAN

VARIABLES
  content,  \* what the file was written from
  leaves,   \* the leaves of its trie by their lowest id (ghost)
  file,     \* the bytes: node table, data section and metadata
  open,     \* r.buffer # nil
  query,    \* the iterator under way, and its arguments
  status,   \* "idle", "running", "done" or "stopped"
  stack,    \* its stack, the top at the end
  out,      \* the results its consumer has got
  faulted,  \* memory was read that munmap had given back
  expected  \* what the query should give (ghost)

bytes == <<content, leaves, file>>
vars == <<bytes, open, query, status, stack, out, faulted, expected>>

\* The file of a content: it has one trie (Serializer's Canonical).
FileOf(t) == File(t, Layout(t), Numbered(t), Cardinality(NodePaths(t)), 0)

\* The lowest and the highest id that the leaf at path p stands for.
NumberOf(bits) == Horner(2, 0, bits)
Low(p) == NumberOf(p) * Power2(PrefixBits - Len(p))
High(p) == Low(p) + Power2(PrefixBits - Len(p)) - 1

LeafAt(t, id) ==
  LET path == CHOOSE p \in DataPaths(t) : Low(p) = id
  IN  [path |-> path, value |-> t[path].value]
LeavesOf(t) == [id \in {Low(p) : p \in DataPaths(t)} |-> LeafAt(t, id)]

Queries ==
  [kind : {"scan"}, id : Ids, prefixLen : 0..(PrefixBits + 1)]
    \cup [kind : {"range"}, start : Ids, end : Ids]
    \cup [kind : {"where"}, matches : SUBSET Values]
NoQuery == [kind |-> "none"]

Item(node, id, bit) == [node |-> node, id |-> id, bit |-> bit]
Power(bit) == Power2(PrefixBits - 1 - bit)
WithBit(id, bit) == IF GetBit(id, bit) = 1 THEN id ELSE id + Power(bit)

-----------------------------------------------------------------------------
(***************************************************************************)
(* What a query should give.                                               *)
(***************************************************************************)
StopBit(q) == Min({q.prefixLen, PrefixBits})

\* Scan: the leaves that share an id with those that begin like q.id.
InPrefix(q, p) ==
  LET size == Power2(PrefixBits - StopBit(q))
      first == q.id - (q.id % size)
  IN  Low(p) < first + size /\ High(p) >= first

\* GetRange: the leaves that share an id with start..end, but for the leaf of
\* key 0 when it is as deep as a leaf can be and the whole way down to it lies
\* in the range: then there is no room left for it on the stack.
InRange(q, p) ==
  q.start <= q.end /\ Low(p) <= q.end /\ High(p) >= q.start
NoRoom(q, p) == Low(p) = 0 /\ Len(p) = PrefixBits /\ q.end >= Power(0)

Selected(q, leaf) ==
  CASE q.kind = "scan" -> InPrefix(q, leaf.path)
    [] q.kind = "range" -> InRange(q, leaf.path) /\ ~NoRoom(q, leaf.path)
    [] q.kind = "where" -> leaf.value \in q.matches
ResultOf(leaf) == [id |-> Low(leaf.path), value |-> leaf.value]

\* The n-th number of a set, and the results of the query in the order of ids.
Nth(S, n) == CHOOSE x \in S : Cardinality({y \in S : y <= x}) = n
Chosen(q) == {id \in DOMAIN leaves : Selected(q, leaves[id])}
Expected(q) ==
  LET chosen == Chosen(q)
  IN  [n \in 1..Cardinality(chosen) |-> ResultOf(leaves[Nth(chosen, n)])]

-----------------------------------------------------------------------------
Init ==
  /\ content \in Contents
  /\ LET t == TrieOf(content) IN file = FileOf(t) /\ leaves = LeavesOf(t)
  /\ open = TRUE
  /\ query = NoQuery
  /\ status = "idle"
  /\ stack = <<>>
  /\ out = <<>>
  /\ faulted = FALSE
  /\ expected = <<>>

\* Reading the node table of a mapping that is gone ends the process.
Unreadable == Mapped /\ ~open
Continue(s) ==
  IF Unreadable THEN faulted' = TRUE /\ UNCHANGED stack
  ELSE stack' = s /\ UNCHANGED faulted

\* Scan walks down prefixLen bits of the table before its loop begins.
BeginScan(q) ==
  LET first == <<Item(Walk(file, q.id, StopBit(q)), q.id, StopBit(q))>>
  IN  IF StopBit(q) > 0 THEN Continue(first) ELSE stack' = first /\ UNCHANGED faulted
BeginRange_Backwards(q) ==   \* mutant: no check of start > end
  stack' = <<Item(0, 0, 0)>> /\ UNCHANGED faulted
BeginRange(q) ==
  /\ stack' = IF q.start > q.end THEN <<>> ELSE <<Item(0, 0, 0)>>
  /\ UNCHANGED faulted
\* Where is the only one of the three that looks at r.buffer first.
BeginWhere(q) ==
  /\ stack' = IF open THEN <<Item(0, 0, 0)>> ELSE <<>>
  /\ UNCHANGED faulted

Begin(q) ==
  /\ status = "idle"
  /\ query' = q /\ expected' = Expected(q)
  /\ status' = "running"
  /\ \/ q.kind = "scan" /\ BeginScan(q)
     \/ q.kind = "range" /\ BeginRange(q)
     \/ q.kind = "where" /\ BeginWhere(q)
  /\ UNCHANGED <<bytes, open, out>>
-----------------------------------------------------------------------------
(***************************************************************************)
(* One turn of the loop.  top is popped, rest is what remains.             *)
(***************************************************************************)
Top == stack[Len(stack)]
Popped == SubSeq(stack, 1, Len(stack) - 1)

Drop_Stays == UNCHANGED <<stack, out, status, faulted>>   \* mutant: no stackSize--
Drop == stack' = Popped /\ UNCHANGED <<out, status, faulted>>

\* The callback gets a result, and returns false to stop the iterator.
Yield(result) ==
  /\ out' = Append(out, result)
  /\ status' \in {"running", "stopped"}
  /\ stack' = IF status' = "stopped" THEN <<>> ELSE Popped
  /\ UNCHANGED faulted

\* Both children are read from the node table, then the stack becomes s.
Descend(s) == Continue(s) /\ UNCHANGED <<out, status>>

LeftItem(i) == Item(file.nodes[i.node][0], i.id, i.bit + 1)
RightItem_OnTheLeft(i) ==   \* mutant: nodeID for both children
  Item(file.nodes[i.node][1], i.id, i.bit + 1)
RightItem(i) == Item(file.nodes[i.node][1], WithBit(i.id, i.bit), i.bit + 1)

\* What resolveDataPointer makes of a leaf: with r.buffer gone, an error.
Result(id, i) == [id |-> id, value |-> file.data[Resolve(file, i.node)]]
Failed == [id |-> 0, value |-> Nil]

\* The left child goes on in the inner loop, which is being next on the stack.
ScanTurn ==
  CASE IsData(file, Top.node) ->
         Yield(IF open
               THEN Result(IF Top.bit < PrefixBits THEN WithBit(Top.id, Top.bit)
                                                   ELSE Top.id, Top)
               ELSE Failed)
    [] IsNode(file, Top.node) -> Descend(Popped \o <<RightItem(Top), LeftItem(Top)>>)
    [] OTHER -> Drop

NetEnd(i) == i.id + Power2(PrefixBits - i.bit) - 1
PushIf(s, cond, item) == IF cond /\ Len(s) < RangeStack THEN Append(s, item) ELSE s
RangeTurn ==
  CASE Top.id > query.end \/ NetEnd(Top) < query.start -> Drop
    [] OTHER ->
         CASE IsData(file, Top.node) ->
                Yield(IF open THEN Result(Top.id, Top) ELSE [Failed EXCEPT !.id = Top.id])
           [] IsNode(file, Top.node) ->
                LET right == WithBit(Top.id, Top.bit) <= query.end
                IN  Descend(PushIf(PushIf(Popped, right, RightItem(Top)),
                                   Top.id <= query.end, LeftItem(Top)))
           [] OTHER -> Drop

\* A node for which the stack has no room is dropped with all below it.
WhereTurn ==
  CASE IsData(file, Top.node) ->
         IF open /\ Result(Top.id, Top).value \in query.matches
         THEN Yield(Result(Top.id, Top)) ELSE Drop
    [] IsNode(file, Top.node) ->
         IF Len(Popped) + 2 < WhereStack
         THEN Descend(Popped \o <<RightItem(Top), LeftItem(Top)>>)
         ELSE Drop
    [] OTHER -> Drop

Turn ==
  /\ status = "running" /\ ~faulted /\ stack # <<>>
  /\ \/ query.kind = "scan" /\ ScanTurn
     \/ query.kind = "range" /\ RangeTurn
     \/ query.kind = "where" /\ WhereTurn
  /\ UNCHANGED <<bytes, open, query, expected>>

End ==
  /\ status = "running" /\ ~faulted /\ stack = <<>>
  /\ status' = "done"
  /\ UNCHANGED <<bytes, open, query, stack, out, faulted, expected>>

Close ==
  /\ ~faulted /\ open
  /\ open' = FALSE
  /\ UNCHANGED <<bytes, query, status, stack, out, faulted, expected>>

Next == (\E q \in Queries : Begin(q)) \/ Turn \/ End \/ Close

\* A for loop that was entered goes on by itself, and callbacks return.
Spec == Init /\ [][Next]_vars /\ WF_vars(Turn \/ End)
-----------------------------------------------------------------------------
(***************************************************************************)
(* Properties.                                                             *)
(***************************************************************************)

\* An iterator hands out exactly the leaves of its query, in key order, each
\* once, however the tree is shaped and wherever its stack is full; and a Close
\* on the way costs it the rest, but never brings it a wrong result.  (After a
\* Close there may be results that failed, all of them behind the others.)
Given == SubSeq(out, 1, Cardinality({i \in DOMAIN out : out[i].value # Nil}))
StillToCome ==
  IF open THEN SubSeq(expected, Len(out) + 1, Len(expected)) ELSE <<>>

\* GetAll, and any Scan of an id whose bits past the prefix are 0.
Aligned(q) == q.kind = "scan" => q.id % Power2(PrefixBits - StopBit(q)) = 0

\* What the id of a result stands for: itself, or for an aligned Scan the leaf that
\* holds it, whatever id of that leaf it is (ScanNames).  The id that another Scan
\* gives carries bits of its argument and stands for nothing.
Holding(id) == {low \in DOMAIN leaves : low <= id /\ id <= High(leaves[low].path)}
Named(id) ==
  CASE query.kind # "scan" -> {id}
    [] query.kind = "scan" /\ Aligned(query) -> Holding(id)
    [] OTHER -> {}
Seen(r) == [leaf |-> Named(r.id), value |-> r.value]
AsSeen(results) == [i \in DOMAIN results |-> Seen(results[i])]

IsCursor == INSTANCE Cursor WITH
  Results <- [leaf : SUBSET Ids, value : Values],
  todo <- AsSeen(StillToCome), got <- AsSeen(Given)
CursorSpec == IsCursor!Spec

\* The Id of a result leads back to it: Find(Id) has the value the iterator
\* gave.  (Scan needs an id whose bits past the prefix are 0, as GetAll's.)
IdLeadsBack ==
  query # NoQuery /\ Aligned(query) =>
    \A i \in DOMAIN out :
      out[i].value # Nil => FindValue(file, out[i].id) = out[i].value

\* An iterator that began comes to its end, or its consumer's, or the process's.
Terminates == status = "running" ~> (status # "running" \/ faulted)
-----------------------------------------------------------------------------
(***************************************************************************)
(* What the comments and the README say, and the code does not do.         *)
(***************************************************************************)

\* GetRange returns the range: every id in it that has a value lies in one of
\* the leaves that a complete iteration gave.
RangeComplete ==
  status = "done" /\ open /\ query.kind = "range" =>
    \A id \in query.start..query.end :
      content[KeyOfId(id)] # Nil =>
        \E i \in DOMAIN out : /\ out[i].id <= id
                              /\ out[i].value = content[KeyOfId(id)]

\* Scan makes the Id of a result as Where does: it is the lowest id of its leaf.
ScanNames ==
  query.kind = "scan" /\ Aligned(query) =>
    \A i \in DOMAIN out : out[i].value # Nil => out[i].id = expected[i].id

\* After Close the database is not available for reading, and calls say so.
NeverFaults == ~faulted

\* No Scan breaks both of the last two; one that does shows that neither holds.
OneScanPromiseStands == ScanNames \/ NeverFaults
=============================================================================
