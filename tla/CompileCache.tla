---------------------------- MODULE CompileCache ----------------------------
(* The compile cache (compileCache.js) under concurrent builds               *)
(* (compileModule.js): one compile step whose object depends on an external   *)
(* header, and the link step keyed on the object.  Builds share one           *)
(* directory, interleave at every file system call and may die; headers are   *)
(* edited meanwhile.  A header, and what was compiled from it, is the number  *)
(* of the edit; every entry has size one.                                     *)
EXTENDS Naturals, Sequences, FiniteSets

CONSTANTS
  Builds,         \* processes
  maxBytes,       \* the size the cache is pruned to
  MaxEdits,       \* edits of the header
  MaxRounds,      \* builds started
  MaxCacheDeaths  \* processes that die

VARIABLES
  header,      \* the header's current bytes
  entries,     \* the entry files: per key, NoEntry or [object, dep, whole]
  recency,     \* the keys of existing entries, the latest modified first
  temps,       \* per build: its temporary file: "none", "partial", "whole", "old"
  cBuild,      \* per build: [pc, key, object, dep, entry, remove]
  prunedRoots, \* builds that have pruned: once per process
  rounds, cacheDeaths,
  editedMeanwhile, \* the header was edited between a compile and its description
  badHit       \* a lookup accepted an object of other bytes than the header's

cVars == <<header, entries, recency, temps, cBuild, prunedRoots, rounds, cacheDeaths, editedMeanwhile, badHit>>

CompileKey == <<"step", 0>>
LinkKey(object) == <<"link", object>>
Keys == {CompileKey} \union {LinkKey(v) : v \in 0..MaxEdits}
NoEntry == [object |-> 0, dep |-> 0, whole |-> FALSE, is |-> FALSE]
IdleBuild == [pc |-> "idle", key |-> CompileKey, object |-> 0, dep |-> 0, entry |-> NoEntry, remove |-> <<>>]
In(b, pc) == cBuild[b].pc = pc
To(b, pc) == cBuild' = [cBuild EXCEPT ![b].pc = pc]
AtFront(key) == <<key>> \o SelectSeq(recency, LAMBDA k : k # key)
Without(key) == SelectSeq(recency, LAMBDA k : k # key)

----------------------------------------------------------------------------
(* get: read the file, check the entry and its dependencies, touch it.        *)

\* What follows a lookup: the link step after the compile step, or the end.
AfterHit(b, entry) ==
  IF cBuild[b].key = CompileKey
  THEN [IdleBuild EXCEPT !.pc = "get", !.key = LinkKey(entry.object), !.object = entry.object]
  ELSE IdleBuild
AfterMiss(b) == [cBuild[b] EXCEPT !.pc = IF cBuild[b].key = CompileKey THEN "compile" ELSE "link", !.entry = NoEntry]

readEntry(b) ==
  /\ In(b, "get")
  /\ cBuild' = [cBuild EXCEPT ![b] =
       IF entries[cBuild[b].key].is /\ entries[cBuild[b].key].whole
       THEN [cBuild[b] EXCEPT !.pc = "check", !.entry = entries[cBuild[b].key]] ELSE AfterMiss(b)]
  /\ UNCHANGED <<header, entries, recency, temps, prunedRoots, rounds, cacheDeaths, editedMeanwhile, badHit>>

\* A linked output has no external dependencies of its own.
trustsEntry(b) == TRUE
externalDependenciesUnchanged(b) == cBuild[b].key # CompileKey \/ cBuild[b].entry.dep = header
checkEntry(b) ==
  /\ In(b, "check")
  /\ IF externalDependenciesUnchanged(b)
     THEN /\ To(b, "touch")
          /\ badHit' = (badHit \/ (cBuild[b].key = CompileKey /\ cBuild[b].entry.object # header))
     ELSE cBuild' = [cBuild EXCEPT ![b] = AfterMiss(b)] /\ UNCHANGED badHit
  /\ UNCHANGED <<header, entries, recency, temps, prunedRoots, rounds, cacheDeaths, editedMeanwhile>>

\* utimes fails quietly when the entry is gone.
touch(b) ==
  /\ In(b, "touch")
  /\ recency' = IF entries[cBuild[b].key].is THEN AtFront(cBuild[b].key) ELSE recency
  /\ cBuild' = [cBuild EXCEPT ![b] = AfterHit(b, cBuild[b].entry)]
  /\ UNCHANGED <<header, entries, temps, prunedRoots, rounds, cacheDeaths, editedMeanwhile, badHit>>

----------------------------------------------------------------------------
(* A miss: compile, describe the headers of the depfile, put; or link and put. *)

compile(b) ==
  /\ In(b, "compile")
  /\ cBuild' = [cBuild EXCEPT ![b].pc = "describe", ![b].object = header]
  /\ UNCHANGED <<header, entries, recency, temps, prunedRoots, rounds, cacheDeaths, editedMeanwhile, badHit>>

describeExternalDependencies(b) ==
  /\ In(b, "describe")
  /\ cBuild' = [cBuild EXCEPT ![b].pc = "put", ![b].dep = header]
  /\ UNCHANGED <<header, entries, recency, temps, prunedRoots, rounds, cacheDeaths, editedMeanwhile, badHit>>

link(b) ==
  /\ In(b, "link")
  /\ To(b, "put")
  /\ UNCHANGED <<header, entries, recency, temps, prunedRoots, rounds, cacheDeaths, editedMeanwhile, badHit>>

Stored(b, whole) == [object |-> cBuild[b].object, dep |-> cBuild[b].dep, whole |-> whole, is |-> TRUE]

\* put: the entry is written under a temporary name.
createTemp(b) ==
  /\ In(b, "put")
  /\ temps' = [temps EXCEPT ![b] = "partial"]
  /\ To(b, "write")
  /\ UNCHANGED <<header, entries, recency, prunedRoots, rounds, cacheDeaths, editedMeanwhile, badHit>>

writeTemp(b) ==
  /\ In(b, "write")
  /\ temps' = [temps EXCEPT ![b] = IF @ = "none" THEN "none" ELSE "whole"]
  /\ To(b, "rename")
  /\ UNCHANGED <<header, entries, recency, prunedRoots, rounds, cacheDeaths, editedMeanwhile, badHit>>

AfterPut(b) ==
  IF cBuild[b].key = CompileKey
  THEN [IdleBuild EXCEPT !.pc = "get", !.key = LinkKey(cBuild[b].object), !.object = cBuild[b].object]
  ELSE IdleBuild

\* Published, or, when a prune has removed the temporary file, given up.
renameTemp(b) ==
  /\ In(b, "rename")
  /\ temps' = [temps EXCEPT ![b] = "none"]
  /\ IF temps[b] = "none"
     THEN cBuild' = [cBuild EXCEPT ![b] = AfterPut(b)] /\ UNCHANGED <<entries, recency>>
     ELSE /\ entries' = [entries EXCEPT ![cBuild[b].key] = Stored(b, TRUE)]
          /\ recency' = AtFront(cBuild[b].key)
          /\ cBuild' = [cBuild EXCEPT ![b] = IF b \in prunedRoots THEN AfterPut(b) ELSE [cBuild[b] EXCEPT !.pc = "list"]]
  /\ UNCHANGED <<header, prunedRoots, rounds, cacheDeaths, editedMeanwhile, badHit>>

----------------------------------------------------------------------------
(* pruneCompileCache, once per process after its first store.                 *)

beyondLimit(listing) == SubSeq(listing, maxBytes + 1, Len(listing))

listCache(b) ==
  /\ In(b, "list")
  /\ prunedRoots' = prunedRoots \union {b}
  /\ temps' = [o \in Builds |-> IF temps[o] = "old" THEN "none" ELSE temps[o]]
  /\ cBuild' = [cBuild EXCEPT ![b].pc = "prune", ![b].remove = beyondLimit(recency)]
  /\ UNCHANGED <<header, entries, recency, rounds, cacheDeaths, editedMeanwhile, badHit>>

removeNext(b) ==
  /\ In(b, "prune") /\ cBuild[b].remove # <<>>
  /\ LET key == Head(cBuild[b].remove) IN
     entries' = [entries EXCEPT ![key] = NoEntry] /\ recency' = Without(key)
  /\ cBuild' = [cBuild EXCEPT ![b].remove = Tail(@)]
  /\ UNCHANGED <<header, temps, prunedRoots, rounds, cacheDeaths, editedMeanwhile, badHit>>

pruneEnds(b) ==
  /\ In(b, "prune") /\ cBuild[b].remove = <<>>
  /\ cBuild' = [cBuild EXCEPT ![b] = AfterPut(b)]
  /\ UNCHANGED <<header, entries, recency, temps, prunedRoots, rounds, cacheDeaths, editedMeanwhile, badHit>>

----------------------------------------------------------------------------
BuildStarts(b) ==
  /\ In(b, "idle") /\ rounds < MaxRounds
  /\ cBuild' = [cBuild EXCEPT ![b] = [IdleBuild EXCEPT !.pc = "get"]] /\ rounds' = rounds + 1
  /\ UNCHANGED <<header, entries, recency, temps, prunedRoots, cacheDeaths, editedMeanwhile, badHit>>

BuildDies(b) ==
  /\ ~In(b, "dead") /\ ~In(b, "idle") /\ cacheDeaths < MaxCacheDeaths
  /\ cBuild' = [cBuild EXCEPT ![b] = [IdleBuild EXCEPT !.pc = "dead"]] /\ cacheDeaths' = cacheDeaths + 1
  /\ UNCHANGED <<header, entries, recency, temps, prunedRoots, rounds, editedMeanwhile, badHit>>

HeaderEdited ==
  /\ header < MaxEdits
  /\ header' = header + 1
  /\ editedMeanwhile' = (editedMeanwhile \/ \E b \in Builds : In(b, "describe"))
  /\ UNCHANGED <<entries, recency, temps, cBuild, prunedRoots, rounds, cacheDeaths, badHit>>

\* A temporary file has been there for more than an hour.
TempAges(b) ==
  /\ temps[b] \in {"partial", "whole"}
  /\ temps' = [temps EXCEPT ![b] = "old"]
  /\ UNCHANGED <<header, entries, recency, cBuild, prunedRoots, rounds, cacheDeaths, editedMeanwhile, badHit>>

CInit ==
  /\ header = 0 /\ rounds = 0 /\ cacheDeaths = 0
  /\ entries = [k \in Keys |-> NoEntry] /\ recency = <<>>
  /\ temps = [b \in Builds |-> "none"]
  /\ cBuild = [b \in Builds |-> IdleBuild]
  /\ prunedRoots = {} /\ editedMeanwhile = FALSE /\ badHit = FALSE

CNext ==
  \/ \E b \in Builds :
       \/ BuildStarts(b) \/ readEntry(b) \/ checkEntry(b) \/ touch(b)
       \/ compile(b) \/ describeExternalDependencies(b) \/ link(b)
       \/ createTemp(b) \/ writeTemp(b) \/ renameTemp(b)
       \/ listCache(b) \/ removeNext(b) \/ pruneEnds(b)
       \/ BuildDies(b) \/ TempAges(b)
  \/ HeaderEdited

CSpec == CInit /\ [][CNext]_cVars

----------------------------------------------------------------------------
(* Whatever builds, deaths and prunes cross, "a reader sees a complete entry   *)
(* or none" (put, renameTemp), and a lookup accepts an object only if it was   *)
(* compiled from the bytes the header has at that moment, as long as no        *)
(* header is edited between a compile and the hashing of its headers           *)
(* (externalDependenciesUnchanged).                                           *)
HitIsSound ==
  (\A k \in Keys : entries[k].is => entries[k].whole) /\ (~editedMeanwhile => ~badHit)
=============================================================================
