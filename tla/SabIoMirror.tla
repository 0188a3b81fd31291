---------------------------- MODULE SabIoMirror ----------------------------
(* The small-file mirror in a SharedArrayBuffer (sabIoMirror.js): a table of *)
(* sequence-locked entries, found by open addressing.  Each path has one     *)
(* writing I/O worker; readers on other threads copy an entry and discard    *)
(* the copy when its sequence number was odd or has changed.                  *)
(*                                                                          *)
(* One action is one access to the shared words of an entry, in program      *)
(* order.  The probe loops are one step: the words they test only move from   *)
(* EMPTY through CLAIMING to a path that never changes again.  All paths      *)
(* hash to the same home entry, the worst case of the probing.               *)
EXTENDS Integers, Sequences, FiniteSets

CONSTANTS
  MirrorPaths,      \* paths, one writer each
  Readers,
  Entries,          \* entries of the table
  EntryBytes,       \* mirrored prefix of a file
  MaxFileBytes,
  StoredFiles,      \* per path: the bytes stored before the start, or Absent
  MaxUpdates,       \* per path: updates and clears
  MaxAttempts,      \* MAX_READ_ATTEMPTS
  MaxKills,         \* I/O workers killed
  KillAnywhere      \* TRUE: also between the two sequence number increments

VARIABLES
  table,    \* the entries of the shared table
  writer,   \* per path: the I/O worker's update or clear, and the file before it
  file,     \* per path: the bytes the backend holds, Absent when unlinked
  reader,   \* per reader: the read under way
  opened,   \* per path: its I/O worker has the file open
  updates, kills

mirrorVars == <<table, writer, file, reader, opened, updates, kills>>

Absent == <<-1>>
None == "none"
Indexes == 1..Entries
Offsets == 0..MaxFileBytes
EmptyEntry == [state |-> "EMPTY", seq |-> 0, path |-> None, covered |-> 0, size |-> 0,
               data |-> [i \in 1..EntryBytes |-> 0]]
IdleWriter == [pc |-> "idle", index |-> 0, live |-> FALSE, op |-> <<>>, was |-> Absent]
IdleReader == [pc |-> "idle"]

MinOf(a, b) == IF a < b THEN a ELSE b
MaxOf(a, b) == IF a < b THEN b ELSE a

----------------------------------------------------------------------------
(* What a file holds after a write or a truncation, and what a read returns: *)
(* the reference the mirror is compared with.                                *)

ByteAt(bytes, i) == IF i \in DOMAIN bytes THEN bytes[i] ELSE 0
sizeAfter(size, op) ==
  IF op.truncateTo >= 0 THEN op.truncateTo
  ELSE IF op.bytes = <<>> THEN size ELSE MaxOf(size, op.offset + Len(op.bytes))
fileAfter(bytes, op) ==
  [i \in 1..sizeAfter(Len(bytes), op) |->
     IF i - op.offset \in DOMAIN op.bytes THEN op.bytes[i - op.offset] ELSE ByteAt(bytes, i)]
readOf(bytes, offset, len) == SubSeq(bytes, offset + 1, MinOf(offset + len, Len(bytes)))

----------------------------------------------------------------------------
(* The table.                                                               *)

find(path) ==
  LET held == {i \in Indexes : table[i].state \in {"LIVE", "CLEARED"} /\ table[i].path = path
                             /\ \A j \in 1..(i - 1) : table[j].state # "EMPTY"}
  IN IF held = {} THEN 0 ELSE CHOOSE i \in held : TRUE

freeIndex ==
  LET empty == {i \in Indexes : table[i].state = "EMPTY"}
  IN IF empty = {} THEN 0 ELSE CHOOSE i \in empty : \A j \in empty : i <= j

----------------------------------------------------------------------------
(* The writing I/O worker of a path.                                         *)

WriterAt(p, pc) == writer[p].pc = pc
Entry(p) == table[writer[p].index]
StoreEntry(p, pc, entry) ==
  /\ writer' = [writer EXCEPT ![p].pc = pc]
  /\ table' = [table EXCEPT ![writer[p].index] = entry]
  /\ UNCHANGED <<file, reader, opened, updates, kills>>

\* Readers under way learn what the file may be seen to hold from now on.
Witness(p, bytes) ==
  reader' = [r \in Readers |->
    IF reader[r].pc # "idle" /\ reader[r].path = p
    THEN [reader[r] EXCEPT !.seen = @ \union {bytes}] ELSE reader[r]]

\* The backend has written, truncated or opened the file (a seed is a write of
\* the prefix with truncateTo); updateSabIoMirror looks for the entry.
BeginUpdate(p, op) ==
  /\ WriterAt(p, "idle") /\ updates[p] < MaxUpdates[p]
  /\ LET after == fileAfter(IF file[p] = Absent THEN <<>> ELSE file[p], op) IN
     /\ Len(after) <= MaxFileBytes
     /\ file' = [file EXCEPT ![p] = after]
     /\ Witness(p, after)
  /\ writer' = [writer EXCEPT ![p] =
                  [pc |-> IF find(p) = 0 THEN "insert" ELSE "odd", index |-> find(p),
                   live |-> FALSE, op |-> op, was |-> file[p]]]
  /\ opened' = [opened EXCEPT ![p] = TRUE]
  /\ updates' = [updates EXCEPT ![p] = @ + 1]
  /\ UNCHANGED <<table, kills>>

Writes(v) == {[offset |-> o, bytes |-> b, truncateTo |-> -1] : o \in Offsets, b \in {<<v>>}}
Truncations == {[offset |-> 0, bytes |-> <<>>, truncateTo |-> n] : n \in Offsets}
Seed(p) == [offset |-> 0, bytes |-> SubSeq(file[p], 1, MinOf(Len(file[p]), EntryBytes)),
            truncateTo |-> Len(file[p])]

\* A write or a truncation of an open file, or the open of an existing file or
\* of a new one.
UpdateStarts(p) ==
  \/ \E op \in Writes(updates[p] + 1) \union Truncations : opened[p] /\ BeginUpdate(p, op)
  \/ ~opened[p] /\ file[p] # Absent /\ BeginUpdate(p, Seed(p))
  \/ \E op \in Truncations : op.truncateTo = 0 /\ file[p] = Absent /\ BeginUpdate(p, op)

\* The compare-exchange of insert; a full table leaves the path to the file.
InsertClaim(p) ==
  /\ WriterAt(p, "insert")
  /\ IF freeIndex = 0
     THEN writer' = [writer EXCEPT ![p] = IdleWriter] /\ UNCHANGED table
     ELSE /\ writer' = [writer EXCEPT ![p].pc = "publish", ![p].index = freeIndex]
          /\ table' = [table EXCEPT ![freeIndex].state = "CLAIMING"]
  /\ UNCHANGED <<file, reader, opened, updates, kills>>

InsertPublish(p) ==
  WriterAt(p, "publish")
  /\ StoreEntry(p, "odd", [Entry(p) EXCEPT !.path = p, !.covered = 0, !.size = 0, !.state = "CLEARED"])

MakeOdd(p) ==
  /\ WriterAt(p, "odd")
  /\ writer' = [writer EXCEPT ![p].pc = "data", ![p].live = Entry(p).state = "LIVE"]
  /\ table' = [table EXCEPT ![writer[p].index].seq = @ + 1]
  /\ UNCHANGED <<file, reader, opened, updates, kills>>

\* The bytes of the entry after the fills and the copy of updateSabIoMirror.
dataAfter(p) ==
  LET op == writer[p].op
      covered == IF writer[p].live THEN Entry(p).covered ELSE 0
      old(i) == IF writer[p].live THEN Entry(p).data[i] ELSE 0
      put(i) == IF i - op.offset \in DOMAIN op.bytes THEN op.bytes[i - op.offset]
                ELSE IF op.bytes # <<>> /\ op.offset < EntryBytes /\ i > covered /\ i <= op.offset
                     THEN 0 ELSE old(i)
  IN [i \in 1..EntryBytes |->
        IF op.truncateTo >= 0 /\ i > op.truncateTo /\ i <= covered THEN 0 ELSE put(i)]

\* R_COVERED is computed from the new size before it is stored.
StoreData(p) ==
  /\ WriterAt(p, "data")
  /\ StoreEntry(p, "size", [Entry(p) EXCEPT !.data = dataAfter(p)])

newSize(p) == sizeAfter(IF writer[p].live THEN Entry(p).size ELSE 0, writer[p].op)

StoreSize(p) ==
  /\ WriterAt(p, "size")
  /\ StoreEntry(p, "covered", [Entry(p) EXCEPT !.size = newSize(p)])

StoreCovered(p) ==
  /\ WriterAt(p, "covered")
  /\ StoreEntry(p, "live", [Entry(p) EXCEPT !.covered = MinOf(Entry(p).size, EntryBytes)])

StoreLive(p) == WriterAt(p, "live") /\ StoreEntry(p, "even", [Entry(p) EXCEPT !.state = "LIVE"])

MakeEven(p) ==
  /\ WriterAt(p, "even")
  /\ writer' = [writer EXCEPT ![p] = IdleWriter]
  /\ table' = [table EXCEPT ![writer[p].index].seq = @ + 1]
  /\ UNCHANGED <<file, reader, opened, updates, kills>>

\* The file, closed by then, is unlinked: clearSabIoMirror.
BeginClear(p) ==
  /\ WriterAt(p, "idle") /\ updates[p] < MaxUpdates[p] /\ file[p] # Absent
  /\ file' = [file EXCEPT ![p] = Absent]
  /\ Witness(p, Absent)
  /\ writer' = IF find(p) = 0 THEN writer
               ELSE [writer EXCEPT ![p].pc = "clear", ![p].index = find(p), ![p].was = file[p]]
  /\ opened' = [opened EXCEPT ![p] = FALSE]
  /\ updates' = [updates EXCEPT ![p] = @ + 1]
  /\ UNCHANGED <<table, kills>>

ClearOdd(p) == WriterAt(p, "clear") /\ StoreEntry(p, "cleared", [Entry(p) EXCEPT !.seq = @ + 1])
ClearState(p) == WriterAt(p, "cleared") /\ StoreEntry(p, "zero", [Entry(p) EXCEPT !.state = "CLEARED"])
ClearSize(p) == WriterAt(p, "zero") /\ StoreEntry(p, "even", [Entry(p) EXCEPT !.covered = 0, !.size = 0])

\* The I/O worker is killed; its replacement writes to the same mirror.
Kill(p) ==
  /\ kills < MaxKills /\ ~WriterAt(p, "idle")
  /\ KillAnywhere \/ WriterAt(p, "insert") \/ WriterAt(p, "publish")
  /\ writer' = [writer EXCEPT ![p] = IdleWriter]
  /\ kills' = kills + 1 /\ opened' = [opened EXCEPT ![p] = FALSE]
  /\ UNCHANGED <<table, file, reader, updates>>

----------------------------------------------------------------------------
(* A reader: findSabIoMirrorEntry, then readSabIoMirrorEntry.                *)

ReaderAt(r, pc) == reader[r].pc = pc
ReaderGoes(r, change) ==
  /\ reader' = [reader EXCEPT ![r] = change]
  /\ UNCHANGED <<table, writer, file, opened, updates, kills>>
Source(r) == table[reader[r].index]

ReadStarts(r, p, offset, len) ==
  /\ ReaderAt(r, "idle") /\ find(p) # 0 /\ table[find(p)].state = "LIVE"
  /\ ReaderGoes(r, [pc |-> "seq", path |-> p, index |-> find(p), offset |-> offset, len |-> len,
                    attempt |-> 0, before |-> 0, size |-> 0, covered |-> 0, result |-> <<>>,
                    seen |-> {file[p], writer[p].was}])

LoadSeq(r) ==
  /\ ReaderAt(r, "seq")
  /\ ReaderGoes(r, IF reader[r].attempt = MaxAttempts THEN [reader[r] EXCEPT !.pc = "miss"]
                   ELSE IF Source(r).seq % 2 = 1 THEN [reader[r] EXCEPT !.attempt = @ + 1]
                   ELSE [reader[r] EXCEPT !.pc = "state", !.before = Source(r).seq])

LoadState(r) ==
  /\ ReaderAt(r, "state")
  /\ ReaderGoes(r, [reader[r] EXCEPT !.pc = IF Source(r).state = "LIVE" THEN "size" ELSE "miss"])

LoadSize(r) ==
  ReaderAt(r, "size") /\ ReaderGoes(r, [reader[r] EXCEPT !.pc = "covered", !.size = Source(r).size])

LoadCovered(r) ==
  ReaderAt(r, "covered") /\ ReaderGoes(r, [reader[r] EXCEPT !.pc = "copy", !.covered = Source(r).covered])

want(r) == MinOf(reader[r].len, reader[r].size - reader[r].offset)

Copy(r) ==
  /\ ReaderAt(r, "copy")
  /\ ReaderGoes(r, [reader[r] EXCEPT !.pc = "check", !.result =
       IF reader[r].offset >= reader[r].size THEN <<>>
       ELSE IF reader[r].offset + want(r) > reader[r].covered THEN Absent
       ELSE SubSeq(Source(r).data, reader[r].offset + 1, reader[r].offset + want(r))])

CheckNothing(r) ==
  /\ ReaderAt(r, "check")
  /\ ReaderGoes(r, [reader[r] EXCEPT !.pc = "done"])

CheckSeq(r) ==
  /\ ReaderAt(r, "check")
  /\ ReaderGoes(r, IF Source(r).seq = reader[r].before THEN [reader[r] EXCEPT !.pc = "done"]
                   ELSE [reader[r] EXCEPT !.pc = "seq", !.attempt = @ + 1])

ReadEnds(r) == reader[r].pc \in {"done", "miss"} /\ ReaderGoes(r, IdleReader)

----------------------------------------------------------------------------
MirrorInit ==
  /\ table = [i \in Indexes |-> EmptyEntry]
  /\ writer = [p \in MirrorPaths |-> IdleWriter]
  /\ file = StoredFiles /\ opened = [p \in MirrorPaths |-> FALSE]
  /\ reader = [r \in Readers |-> IdleReader]
  /\ updates = [p \in MirrorPaths |-> 0]
  /\ kills = 0

WriterStep(p) ==
  \/ UpdateStarts(p) \/ InsertClaim(p) \/ InsertPublish(p) \/ MakeOdd(p) \/ StoreData(p)
  \/ StoreSize(p) \/ StoreCovered(p) \/ StoreLive(p) \/ MakeEven(p)
  \/ BeginClear(p) \/ ClearOdd(p) \/ ClearState(p) \/ ClearSize(p) \/ Kill(p)

ReaderStep(r) ==
  \/ \E p \in MirrorPaths, offset \in 0..1 : ReadStarts(r, p, offset, EntryBytes)
  \/ LoadSeq(r) \/ LoadState(r) \/ LoadSize(r) \/ LoadCovered(r) \/ Copy(r)
  \/ CheckSeq(r) \/ ReadEnds(r)

MirrorNext == (\E p \in MirrorPaths : WriterStep(p)) \/ (\E r \in Readers : ReaderStep(r))

MirrorSpec == MirrorInit /\ [][MirrorNext]_mirrorVars

----------------------------------------------------------------------------
(* "A reader that consults it gets exactly what a read of the file would     *)
(* return": the bytes a read of the mirror delivers are those of one state    *)
(* the file had during the read, never a mixture of two (the sequence check   *)
(* of readSabIoMirrorEntry), after any sequence of writes past the end,        *)
(* truncations and clears, the zeros of holes included (updateSabIoMirror).   *)
ReadIsSnapshot ==
  \A r \in Readers : ReaderAt(r, "done") /\ reader[r].result # Absent =>
    \E bytes \in reader[r].seen : bytes # Absent /\ reader[r].result = readOf(bytes, reader[r].offset, reader[r].len)

=============================================================================
