----------------------------- MODULE EncryptPipe -----------------------------
(***************************************************************************)
(* encrypt.EncryptDB and DecryptDB.  EncryptDB starts a goroutine that     *)
(* packs the database file (tar, gzip) into an io.Pipe, and encrypts what  *)
(* comes out of the pipe into the archive.  The file may change size while *)
(* it is read, calls of the operating system may fail, and the process may *)
(* die.                                                                    *)
(*                                                                         *)
(* The stream is a sequence of pieces: the tar header, which holds the     *)
(* size of the file, its chunks, the end of the tar and the end of the     *)
(* gzip.  gzip holds pieces back before it hands them on, which changes    *)
(* nothing but the moment; a key that is wrong makes the stream unreadable *)
(* from its first piece on.                                                *)
(***************************************************************************)
EXTENDS Integers, Sequences

CONSTANTS
  MaxChunks,   \* bound: chunks of the database file
  Passwords    \* the passwords that come up

ASSUME ChunksAssumption == MaxChunks \in Nat

VARIABLES
  size,       \* chunks of the database file
  changed,    \* its size changed after Stat
  statSize,   \* the size in the tar header
  producer,   \* where the goroutine is
  sent,       \* chunks it has read
  pipe,       \* the piece that Write waits to get rid of, or none
  closed,     \* the pipe's end: "no", "eof" or "error"
  encrypt,    \* EncryptDB: "start", "running", or how it ended
  archive,    \* the pieces in the archive
  salted,     \* salt and nonce stand before them
  key,        \* the password the archive was made with
  decrypt,    \* DecryptDB: "idle", "next", "copying", or how it ended
  output      \* the chunks it wrote

file == <<size, changed>>
goroutine == <<statSize, producer, sent>>
pack == <<goroutine, closed>>
reading == <<decrypt, output>>
pipeVars == <<file, pack, pipe, encrypt, archive, salted, key, reading>>

None == [kind |-> "none", n |-> 0]
Header(n) == [kind |-> "header", n |-> n]
Chunk(i) == [kind |-> "chunk", n |-> i]
TarEnd == [kind |-> "tarend", n |-> 0]
GzipEnd == [kind |-> "gzipend", n |-> 0]
Pieces == {Header(n) : n \in 0..MaxChunks} \cup {Chunk(i) : i \in 1..MaxChunks}
            \cup {None, TarEnd, GzipEnd}
Whole(n) == <<Header(n)>> \o [i \in 1..n |-> Chunk(i)] \o <<TarEnd, GzipEnd>>

Running == encrypt \in {"running", "failed", "nil"}   \* the process lives
-----------------------------------------------------------------------------
(***************************************************************************)
(* The goroutine.  A Write to the pipe returns when the reader has taken   *)
(* what it holds.                                                          *)
(***************************************************************************)
At(pc) == Running /\ producer = pc /\ pipe = None
Write(piece) == pipe' = piece /\ UNCHANGED closed

\* return, after pw.CloseWithError(err); the deferred pw.Close comes too late
\* to change the error.
Fail_Closes ==   \* mutant: the deferred pw.Close alone
  producer' = "done" /\ closed' = "eof" /\ UNCHANGED <<statSize, sent, pipe>>
Fail_Silently ==   \* mutant: no defer pw.Close(), and return without closing
  producer' = "done" /\ UNCHANGED <<statSize, sent, pipe, closed>>
Fail ==
  /\ producer' = "done" /\ closed' = "error"
  /\ UNCHANGED <<statSize, sent, pipe>>

Stat ==
  /\ At("stat")
  /\ \/ /\ Write(Header(size))
        /\ statSize' = size
        /\ producer' = "open"
        /\ UNCHANGED sent
     \/ Fail

OpenInput ==
  /\ At("open")
  /\ \/ producer' = "copy" /\ UNCHANGED <<statSize, sent, pipe, closed>>
     \/ Fail

\* io.Copy: the tar refuses what is more than its header says.
Copy ==
  /\ At("copy")
  /\ \/ /\ sent < size /\ sent < statSize
        /\ Write(Chunk(sent + 1))
        /\ sent' = sent + 1
        /\ UNCHANGED <<statSize, producer>>
     \/ /\ sent >= size
        /\ producer' = "tarclose"
        /\ UNCHANGED <<statSize, sent, pipe, closed>>
     \/ Fail   \* more than statSize, or a read error

\* tw.Close, whose error is dropped: a tar that lacks chunks gets no end.
CloseTar ==
  /\ At("tarclose")
  /\ IF sent = statSize THEN Write(TarEnd) ELSE UNCHANGED <<pipe, closed>>
  /\ producer' = "gzipclose"
  /\ UNCHANGED <<statSize, sent>>

CloseGzip ==
  /\ At("gzipclose")
  /\ Write(GzipEnd)
  /\ producer' = "pipeclose"
  /\ UNCHANGED <<statSize, sent>>

ClosePipe ==
  /\ At("pipeclose")
  /\ closed' = "eof"
  /\ producer' = "done"
  /\ UNCHANGED <<statSize, sent, pipe>>

Producer ==
  /\ Stat \/ OpenInput \/ Copy \/ CloseTar \/ CloseGzip \/ ClosePipe
  /\ UNCHANGED <<file, encrypt, archive, salted, key, reading>>
-----------------------------------------------------------------------------
(***************************************************************************)
(* EncryptDB itself.                                                       *)
(***************************************************************************)
\* os.Create empties an archive that was there; salt and nonce come first.
Start ==
  /\ encrypt = "start"
  /\ \/ encrypt' = "running" /\ salted' = TRUE /\ producer' = "stat"
     \/ encrypt' = "failed" /\ UNCHANGED <<salted, producer>>
  /\ UNCHANGED <<file, statSize, sent, closed, pipe, archive, key, reading>>

\* io.CopyBuffer: a piece is read, encrypted and written; a write that fails
\* ends EncryptDB, which leaves the pipe open and the goroutine in its Write.
Transfer ==
  /\ encrypt = "running" /\ pipe # None
  /\ pipe' = None
  /\ \/ archive' = Append(archive, pipe) /\ UNCHANGED encrypt
     \/ encrypt' = "failed" /\ UNCHANGED archive
  /\ UNCHANGED <<file, pack, salted, key, reading>>

Return ==
  /\ encrypt = "running" /\ pipe = None /\ closed # "no"
  /\ encrypt' = IF closed = "eof" THEN "nil" ELSE "failed"
  /\ UNCHANGED <<file, pack, pipe, archive, salted, key, reading>>

\* Somebody else changes the size of the database file, once.
Resize ==
  /\ ~changed /\ producer # "stat" /\ Running
  /\ size' \in (0..MaxChunks) \ {size}
  /\ changed' = TRUE
  /\ UNCHANGED <<pack, pipe, encrypt, archive, salted, key, reading>>

Crash ==
  /\ encrypt = "running"
  /\ encrypt' = "crashed"
  /\ UNCHANGED <<file, pack, pipe, archive, salted, key, reading>>
-----------------------------------------------------------------------------
(***************************************************************************)
(* DecryptDB, of what a finished, failed or crashed EncryptDB has left.    *)
(***************************************************************************)
Has(n) == n <= Len(archive)
DecryptFails == decrypt' = "failed" /\ UNCHANGED output

\* Salt, nonce, the gzip header, and the first tr.Next; then os.Create.
BeginDecrypt(password) ==
  /\ encrypt \in {"nil", "failed", "crashed"} /\ decrypt = "idle"
  /\ IF salted /\ password = key /\ Has(1)
     THEN decrypt' \in {"copying", "failed"} /\ output' = <<>>
     ELSE DecryptFails
  /\ UNCHANGED <<file, pack, pipe, encrypt, archive, salted, key>>

\* io.Copy of the file in the tar: as many chunks as the header says.
Next1 == Len(output) + 2   \* the place of the next piece
CopyOut_UntilEnd ==   \* mutant: the file ends where its chunks do
  IF Has(Next1) /\ archive[Next1].kind = "chunk"
  THEN output' = Append(output, archive[Next1].n) /\ UNCHANGED decrypt
  ELSE decrypt' = "next" /\ UNCHANGED output
CopyOut ==
  IF Len(output) = archive[1].n THEN decrypt' = "next" /\ UNCHANGED output
  ELSE IF Has(Next1) /\ archive[Next1].kind = "chunk"
  THEN \/ output' = Append(output, archive[Next1].n) /\ UNCHANGED decrypt
       \/ DecryptFails
  ELSE DecryptFails

\* The next tr.Next: the end of the tar, or an error where the stream breaks off.
NextEntry ==
  /\ decrypt' = IF Has(Next1) THEN "nil" ELSE "failed"
  /\ UNCHANGED output

Decrypt ==
  /\ \/ decrypt = "copying" /\ CopyOut
     \/ decrypt = "next" /\ NextEntry
  /\ UNCHANGED <<file, pack, pipe, encrypt, archive, salted, key>>

PipeInit ==
  /\ size \in 0..MaxChunks /\ changed = FALSE /\ statSize = 0
  /\ producer = "none" /\ sent = 0 /\ pipe = None /\ closed = "no"
  /\ encrypt = "start" /\ archive = <<>> /\ salted = FALSE
  /\ key \in Passwords
  /\ decrypt = "idle" /\ output = <<>>

PipeNext ==
  \/ Producer \/ Start \/ Transfer \/ Return \/ Resize \/ Crash
  \/ \E p \in Passwords : BeginDecrypt(p)
  \/ Decrypt

\* The scheduler runs a goroutine that can run, and system calls return.
PipeSpec == PipeInit /\ [][PipeNext]_pipeVars /\ WF_pipeVars(Start) /\ WF_pipeVars(Producer)
          /\ WF_pipeVars(Transfer \/ Return)
-----------------------------------------------------------------------------
(***************************************************************************)
(* Properties.                                                             *)
(***************************************************************************)

\* When EncryptDB says nil, the archive holds the whole file, wherever the
\* goroutine may have failed: its error reaches EncryptDB through the pipe.
\* But for a file that became shorter while it was packed: tw.Close says so,
\* and its error is dropped.
NilMeansWhole ==
  encrypt = "nil" => \/ archive = Whole(statSize)
                     \/ changed /\ size < statSize

\* When DecryptDB says nil, the output is the file that was packed, in the
\* size it had when it was packed, whatever a crash, a failed write or a
\* shrinking file has left of the archive: a part of it is never the answer.
DecryptNilIsInput == decrypt = "nil" => output = [i \in 1..statSize |-> i]

\* EncryptDB returns, and so does the goroutine unless EncryptDB failed to
\* write the archive: nobody waits at the pipe for ever.
BothEnd ==
  <>(\/ encrypt = "crashed"
     \/ encrypt = "failed"
     \/ encrypt = "nil" /\ producer = "done")
=============================================================================
