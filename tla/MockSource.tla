----------------------------- MODULE MockSource -----------------------------
(***************************************************************************)
(* src/mockRuntime.ts, loadSource and initializeContents: the one file the *)
(* mock runtime holds.  The file is recorded before it is read, and its    *)
(* lines replace those there are when the read is answered, so the two     *)
(* differ while a read is outstanding.  Whoever waits for the read goes on *)
(* when it is answered; a read that fails ends the waiter with a rejected  *)
(* promise and leaves the record as it is.                                 *)
(***************************************************************************)
EXTENDS Naturals, Sequences, SequencesExt

CONSTANTS
  Files,       \* the files of the workspace
  MaxReads     \* bound: the reads outstanding

VARIABLES
  sourceFile,  \* _sourceFile, "none" at first
  loaded,      \* the file that sourceLines was read from
  reads        \* the reads not yet answered: each a file and who waits for it

SourceInit == sourceFile = "none" /\ loaded = "none" /\ reads = << >>

Read(file, waiter) == [file |-> file, waiter |-> waiter]

\* loadSource of the current file returns at once.
IsCurrent(file) == sourceFile = file

\* loadSource of another one, which is begun on top of the reads given.
LoadSource(outstanding, file, waiter) ==
  /\ sourceFile # file /\ Len(reads) < MaxReads
  /\ sourceFile' = file
  /\ reads' = Append(outstanding, Read(file, waiter))

InitializeContents(i) ==
  /\ loaded' = reads[i].file
  /\ reads' = RemoveAt(reads, i)
  /\ UNCHANGED sourceFile

ReadRejected(i) == reads' = RemoveAt(reads, i) /\ UNCHANGED <<sourceFile, loaded>>
=============================================================================
