------------------------ MODULE EmceptionRootProofs ------------------------
(* The shared compiler root stays whole, for any number of processes, publish *)
(* attempts and deaths.                                                       *)
(*                                                                           *)
(* While no cleaner has struck, the name only ever goes from nothing to a     *)
(* built root: to take a root away a process must first find it bad, and all  *)
(* that it can have seen of a root that exists is that it is whole.           *)
EXTENDS EmceptionRoot, TLAPS

\* Where a process can be only because there was a root.
AfterRoot == {"checkFiles", "using", "recheck", "recheckFiles", "cleanup-using"}
Labels == AfterRoot \cup {"check", "orphans", "mkdtemp", "build", "publish", "aside", "rmStale",
                         "cleanup-threw", "threw", "dead"}
ProcType == [pc : Labels, attempt : Nat]

\* What may be said of a process while no cleaner has struck.
Clean(pc, r) == pc \notin {"aside", "rmStale"} /\ (pc \in AfterRoot => r = Built)

RootInv ==
  /\ eProc \in [Procs -> ProcType]
  /\ damages \in Nat
  /\ damages = 0 => /\ root \in {NoRoot, Built}
                    /\ \A p \in Procs : Clean(eProc[p].pc, root)

----------------------------------------------------------------------------
\* RootInv holds when nothing has been built.
LEMMA RootInit == EInit => RootInv
<1> SUFFICES ASSUME EInit PROVE RootInv
  OBVIOUS
<1>1. [pc |-> "check", attempt |-> 0] \in ProcType
  BY DEF ProcType, Labels
<1>2. \A p \in Procs : eProc[p].pc = "check"
  BY Zenon DEF EInit
<1>3. Clean("check", root)
  BY DEF Clean, AfterRoot
<1> QED BY <1>1, <1>2, <1>3 DEF EInit, RootInv

\* A step that moves one process to a place it may be in, and leaves a built
\* root alone, keeps RootInv.
LEMMA ProcMoves ==
  ASSUME RootInv, NEW p \in Procs, NEW to \in ProcType,
         eProc' = [eProc EXCEPT ![p] = to], damages' = damages,
         damages = 0 => /\ root' \in {NoRoot, Built}
                        /\ root = Built => root' = Built
                        /\ Clean(to.pc, root')
  PROVE RootInv'
  BY DEF RootInv, Clean

\* The same when only the place of the process changes.
LEMMA PlaceMoves ==
  ASSUME RootInv, NEW p \in Procs, NEW pc \in Labels, MovesTo(p, pc), damages' = damages,
         damages = 0 => /\ root' \in {NoRoot, Built}
                        /\ root = Built => root' = Built
                        /\ Clean(pc, root')
  PROVE RootInv'
<1> DEFINE to == [pc |-> pc, attempt |-> eProc[p].attempt]
<1>1. eProc[p] \in ProcType
  BY DEF RootInv
<1>2. to \in ProcType /\ to.pc = pc
  BY <1>1 DEF ProcType
<1>3. [eProc[p] EXCEPT !.pc = pc] = to
  BY <1>1 DEF ProcType
<1>4. eProc' = [eProc EXCEPT ![p] = to]
  BY Zenon, <1>3 DEF MovesTo
<1> QED BY Zenon, <1>2, <1>4, ProcMoves

----------------------------------------------------------------------------
\* isPatchedRootValid, first look: the marker is there only with the root.
LEMMA MarkerStep ==
  ASSUME RootInv, NEW p \in Procs, CheckMarker(p) \/ RecheckMarker(p)
  PROVE RootInv'
<1> DEFINE to == IF CheckMarker(p) THEN IF root.is = "dir" THEN "checkFiles" ELSE "orphans"
                 ELSE IF root.is = "dir" THEN "recheckFiles" ELSE "aside"
<1>1. MovesTo(p, to) /\ damages' = damages /\ root' = root
  BY DEF CheckMarker, RecheckMarker, checkMarker
<1>2. damages = 0 => Clean(to, root) /\ root \in {NoRoot, Built}
  BY DEF RootInv, Clean, AfterRoot, CheckMarker, RecheckMarker, checkMarker, NoRoot, Built, StandsAt
<1>3. to \in Labels
  BY DEF Labels, AfterRoot
<1> QED BY <1>1, <1>2, <1>3, PlaceMoves

\* isPatchedRootValid, the files: a root that exists passes.
LEMMA FilesStep ==
  ASSUME RootInv, NEW p \in Procs, CheckFiles(p) \/ RecheckFiles(p)
  PROVE RootInv'
<1> DEFINE to == IF CheckFiles(p) THEN IF filesMatch(p) THEN "using" ELSE "orphans"
                 ELSE IF filesMatch(p) THEN "cleanup-using" ELSE "aside"
<1>1. MovesTo(p, to) /\ damages' = damages /\ root' = root
  BY DEF CheckFiles, RecheckFiles, checkFiles
<1>2. damages = 0 => Clean(to, root) /\ root \in {NoRoot, Built}
  BY DEF RootInv, Clean, AfterRoot, CheckFiles, RecheckFiles, checkFiles, filesMatch, NoRoot, Built, StandsAt
<1>3. to \in Labels
  BY DEF Labels, AfterRoot
<1> QED BY <1>1, <1>2, <1>3, PlaceMoves

\* Building touches no root.
LEMMA BuildStep ==
  ASSUME RootInv, NEW p \in Procs, removeOrphanedBuildDirs(p) \/ mkdtemp(p) \/ build(p)
  PROVE RootInv'
<1> DEFINE to == IF removeOrphanedBuildDirs(p) THEN "mkdtemp" ELSE IF mkdtemp(p) THEN "build" ELSE "publish"
<1>1. MovesTo(p, to) /\ damages' = damages /\ root' = root
  BY Zenon DEF removeOrphanedBuildDirs, mkdtemp, build
<1>2. damages = 0 => Clean(to, root) /\ root \in {NoRoot, Built}
  BY DEF RootInv, Clean, AfterRoot
<1>3. to \in Labels
  BY DEF Labels, AfterRoot
<1> QED BY <1>1, <1>2, <1>3, PlaceMoves

\* publish: the rename goes onto a free name, or is a collision with a root.
LEMMA PublishStep ==
  ASSUME RootInv, NEW p \in Procs, publish(p)
  PROVE RootInv'
<1>0. damages' = damages
  BY DEF publish
<1>1. CASE MovesTo(p, "cleanup-threw") /\ root' = root
  <2>1. damages = 0 => Clean("cleanup-threw", root) /\ root \in {NoRoot, Built}
    BY DEF RootInv, Clean, AfterRoot
  <2>2. "cleanup-threw" \in Labels
    BY DEF Labels
  <2> QED BY <1>0, <1>1, <2>1, <2>2, PlaceMoves
<1>2. CASE MovesTo(p, "cleanup-using") /\ root' = Built
  <2>1. Clean("cleanup-using", Built) /\ "cleanup-using" \in Labels
    BY DEF Clean, Labels, AfterRoot
  <2> QED BY <1>0, <1>2, <2>1, PlaceMoves
<1>3. CASE /\ eProc' = [eProc EXCEPT ![p] = [pc |-> "recheck", attempt |-> @.attempt + 1]]
           /\ root' = root /\ root.is # "none"
  <2> DEFINE to == [pc |-> "recheck", attempt |-> eProc[p].attempt + 1]
  <2>1. eProc[p] \in ProcType
    BY DEF RootInv
  <2>2. to \in ProcType
    BY <2>1 DEF ProcType, Labels, AfterRoot
  <2>3. eProc' = [eProc EXCEPT ![p] = to]
    BY <1>3
  <2>4. damages = 0 => root = Built /\ Clean(to.pc, root)
    BY <1>3 DEF RootInv, NoRoot, Clean
  <2> QED BY Zenon, <1>0, <1>3, <2>2, <2>3, <2>4, ProcMoves
<1> QED BY <1>1, <1>2, <1>3 DEF publish

\* A root is moved aside only after a cleaner has struck.
LEMMA AsideStep ==
  ASSUME RootInv, NEW p \in Procs, moveAside(p) \/ rmStale(p)
  PROVE RootInv'
<1> DEFINE to == IF moveAside(p) THEN IF root.is = "none" THEN "publish" ELSE "rmStale" ELSE "publish"
<1>1. MovesTo(p, to) /\ damages' = damages
  BY DEF moveAside, rmStale
<1>2. damages # 0
  BY DEF RootInv, Clean, moveAside, rmStale, StandsAt
<1>3. to \in Labels
  BY DEF Labels, AfterRoot
<1> QED BY <1>1, <1>2, <1>3, PlaceMoves

\* The end of a process, by itself or by death.
LEMMA EndStep ==
  ASSUME RootInv, NEW p \in Procs, cleanup(p) \/ Dies(p)
  PROVE RootInv'
<1> DEFINE to == IF Dies(p) THEN "dead" ELSE IF StandsAt(p, "cleanup-using") THEN "using" ELSE "threw"
<1>1. MovesTo(p, to) /\ damages' = damages /\ root' = root
  BY DEF cleanup, Dies, StandsAt
<1>2. damages = 0 => Clean(to, root) /\ root \in {NoRoot, Built}
  BY DEF RootInv, Clean, AfterRoot, StandsAt
<1>3. to \in Labels
  BY DEF Labels, AfterRoot
<1> QED BY <1>1, <1>2, <1>3, PlaceMoves

\* From the first purge on RootInv says nothing of the root.
LEMMA PurgeStep == ASSUME RootInv, CleanerPurges PROVE RootInv'
  BY DEF RootInv, CleanerPurges

----------------------------------------------------------------------------
(* For any number of processes that check, build, publish and die, a root is  *)
(* whole from the moment it has its name, and one that was handed out stays,  *)
(* until a cleaner strikes (preparePatchedEmceptionRoot).                     *)
THEOREM RootIsSafe == ESpec => []HandedOutRootStays
<1>1. EInit => RootInv
  BY RootInit
<1>2. ASSUME RootInv, [ENext]_eVars PROVE RootInv'
  <2>1. CASE UNCHANGED eVars
    BY <1>2, <2>1 DEF RootInv, eVars
  <2>2. CASE CleanerPurges
    BY <1>2, <2>2, PurgeStep
  <2>3. ASSUME NEW p \in Procs,
               \/ CheckMarker(p) \/ CheckFiles(p) \/ removeOrphanedBuildDirs(p) \/ mkdtemp(p) \/ build(p)
               \/ publish(p) \/ RecheckMarker(p) \/ RecheckFiles(p) \/ moveAside(p) \/ rmStale(p) \/ cleanup(p)
               \/ Dies(p)
        PROVE RootInv'
    BY <1>2, <2>3, MarkerStep, FilesStep, BuildStep, PublishStep, AsideStep, EndStep
  <2> QED BY <1>2, <2>1, <2>2, <2>3 DEF ENext
<1>3. RootInv => HandedOutRootStays
  BY DEF RootInv, Clean, HandedOutRootStays, Users, AfterRoot
<1> QED BY <1>1, <1>2, <1>3, PTL DEF ESpec
=============================================================================
