--------------------------- MODULE EmceptionRoot ---------------------------
(* The patched compiler tree shared by all processes of a user               *)
(* (emceptionNode.js, preparePatchedEmceptionRoot): each process checks the   *)
(* root, or builds a copy in a staging directory and renames it into place.   *)
(* Processes interleave at every file system call, may die at any of them,    *)
(* and a cleaner of the temporary directory may delete files of the root.     *)
EXTENDS Naturals

CONSTANTS
  Procs,                \* processes
  MAX_PUBLISH_ATTEMPTS,
  MaxDamages,           \* times the cleaner strikes
  MaxDeaths             \* processes that die

VARIABLES
  root,      \* what finalDir names: [is, whole]; is = "none", or "dir"
  eProc,     \* per process: [pc, attempt]
  staging,   \* per process: its staging directory: "none", "partial", "built"
  stale,     \* per process: a root it has moved aside and not yet deleted
  damages, deaths

eVars == <<root, eProc, staging, stale, damages, deaths>>

NoRoot == [is |-> "none", whole |-> FALSE]
Built == [is |-> "dir", whole |-> TRUE]
StandsAt(p, pc) == eProc[p].pc = pc
MovesTo(p, pc) == eProc' = [eProc EXCEPT ![p].pc = pc]

----------------------------------------------------------------------------
(* isPatchedRootValid: the marker is read first, then every file is looked at; *)
(* the directory under the name may change between the two.                   *)

checkMarker(p, from, next, otherwise) ==
  /\ StandsAt(p, from)
  /\ MovesTo(p, IF root.is = "dir" THEN next ELSE otherwise)
  /\ UNCHANGED <<root, staging, stale, damages, deaths>>

filesMatch(p) == root.is = "dir" /\ root.whole
checkFiles(p, from, valid, otherwise) ==
  /\ StandsAt(p, from)
  /\ MovesTo(p, IF filesMatch(p) THEN valid ELSE otherwise)
  /\ UNCHANGED <<root, staging, stale, damages, deaths>>

\* The check that decides whether to build.
CheckMarker(p) == checkMarker(p, "check", "checkFiles", "orphans")
CheckFiles(p) == checkFiles(p, "checkFiles", "using", "orphans")

----------------------------------------------------------------------------
(* removeOrphanedBuildDirs: directories whose creator is no longer alive.     *)

isOrphan(p, q) == q # p /\ StandsAt(q, "dead")
removeOrphanedBuildDirs(p) ==
  /\ StandsAt(p, "orphans")
  /\ staging' = [q \in Procs |-> IF isOrphan(p, q) THEN "none" ELSE staging[q]]
  /\ stale' = [q \in Procs |-> IF isOrphan(p, q) THEN FALSE ELSE stale[q]]
  /\ MovesTo(p, "mkdtemp")
  /\ UNCHANGED <<root, damages, deaths>>

mkdtemp(p) ==
  /\ StandsAt(p, "mkdtemp")
  /\ staging' = [staging EXCEPT ![p] = "partial"]
  /\ MovesTo(p, "build")
  /\ UNCHANGED <<root, stale, damages, deaths>>

\* Copy, patch, and the marker last.
build(p) ==
  /\ StandsAt(p, "build")
  /\ MovesTo(p, "publish")
  /\ staging' = [staging EXCEPT ![p] = "built"]
  /\ UNCHANGED <<root, stale, damages, deaths>>

----------------------------------------------------------------------------
(* publishPatchedRoot.                                                       *)

\* rename(2): into place, or a collision, or an error that is thrown.
publish(p) ==
  /\ StandsAt(p, "publish")
  /\ \/ /\ eProc[p].attempt = MAX_PUBLISH_ATTEMPTS \/ staging[p] = "none"
        /\ MovesTo(p, "cleanup-threw") /\ UNCHANGED <<root, staging>>
     \/ /\ eProc[p].attempt < MAX_PUBLISH_ATTEMPTS /\ staging[p] # "none" /\ root.is = "none"
        /\ root' = Built /\ staging' = [staging EXCEPT ![p] = "none"] /\ MovesTo(p, "cleanup-using")
     \/ /\ eProc[p].attempt < MAX_PUBLISH_ATTEMPTS /\ staging[p] # "none" /\ root.is # "none"
        /\ eProc' = [eProc EXCEPT ![p] = [pc |-> "recheck", attempt |-> @.attempt + 1]]
        /\ UNCHANGED <<root, staging>>
  /\ UNCHANGED <<stale, damages, deaths>>

RecheckMarker(p) == checkMarker(p, "recheck", "recheckFiles", "aside")
replacesAnyway(p) == checkFiles(p, "recheckFiles", "aside", "aside")
RecheckFiles(p) == checkFiles(p, "recheckFiles", "cleanup-using", "aside")

\* What sits there is moved aside in one rename.
moveAside(p) ==
  /\ StandsAt(p, "aside")
  /\ IF root.is = "none" THEN MovesTo(p, "publish") /\ UNCHANGED <<root, stale>>
     ELSE root' = NoRoot /\ stale' = [stale EXCEPT ![p] = TRUE] /\ MovesTo(p, "rmStale")
  /\ UNCHANGED <<staging, damages, deaths>>

rmStale(p) ==
  /\ StandsAt(p, "rmStale")
  /\ stale' = [stale EXCEPT ![p] = FALSE]
  /\ MovesTo(p, "publish")
  /\ UNCHANGED <<root, staging, damages, deaths>>

\* finally: the copy of a lost race, or of a failure, is removed.
cleanup(p) ==
  /\ \/ StandsAt(p, "cleanup-using") /\ MovesTo(p, "using")
     \/ StandsAt(p, "cleanup-threw") /\ MovesTo(p, "threw")
  /\ staging' = [staging EXCEPT ![p] = "none"]
  /\ UNCHANGED <<root, stale, damages, deaths>>

----------------------------------------------------------------------------
Dies(p) ==
  /\ deaths < MaxDeaths /\ ~StandsAt(p, "dead")
  /\ MovesTo(p, "dead") /\ deaths' = deaths + 1
  /\ UNCHANGED <<root, staging, stale, damages>>

\* A cleaner deletes files of the root, by age.
CleanerPurges ==
  /\ damages < MaxDamages /\ root.is = "dir" /\ root.whole
  /\ root' = [root EXCEPT !.whole = FALSE] /\ damages' = damages + 1
  /\ UNCHANGED <<eProc, staging, stale, deaths>>

EInit ==
  /\ root = NoRoot
  /\ eProc = [p \in Procs |-> [pc |-> "check", attempt |-> 0]]
  /\ staging = [p \in Procs |-> "none"] /\ stale = [p \in Procs |-> FALSE]
  /\ damages = 0 /\ deaths = 0

ENext ==
  \/ \E p \in Procs :
       \/ CheckMarker(p) \/ CheckFiles(p) \/ removeOrphanedBuildDirs(p) \/ mkdtemp(p) \/ build(p)
       \/ publish(p) \/ RecheckMarker(p) \/ RecheckFiles(p) \/ moveAside(p) \/ rmStale(p) \/ cleanup(p)
       \/ Dies(p)
  \/ CleanerPurges

ESpec == EInit /\ [][ENext]_eVars

----------------------------------------------------------------------------
Users == {p \in Procs : eProc[p].pc \in {"using", "cleanup-using"}}

(* As long as no cleaner has damaged it, a root is whole from the moment it    *)
(* has its name, "so no reader ever sees it half-deleted", and one that was    *)
(* handed to a process stays there, through any number of builders that race   *)
(* to publish or die on the way (publishPatchedRoot).                         *)
HandedOutRootStays ==
  damages = 0 => root \in {NoRoot, Built} /\ (Users # {} => root = Built)
=============================================================================
