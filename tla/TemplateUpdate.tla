--------------------------- MODULE TemplateUpdate ---------------------------
(***************************************************************************)
(* The template update engine of the projx CLI: `init`, `update`, `add`,   *)
(* `pin`, `unpin` and `doctor --fix` acting on one git clone of a project, *)
(* interleaved with the edits and commits of its owner, with new template  *)
(* releases, with fresh clones and with a CLI process that dies midway.    *)
(*                                                                         *)
(* A file is a function from its Regions (the hunks a line merge works on) *)
(* to the set of variants a region holds: one in ordinary text, two        *)
(* between conflict markers.  A template line is the number of the release *)
(* that wrote it; a line of the owner is a member of Edits.  Projects with *)
(* recorded features are not modelled here: update() then skips the        *)
(* re-application step.                                                    *)
(***************************************************************************)
EXTENDS Naturals, FiniteSets

CONSTANTS
  RootFiles,      \* template paths outside the component's directory
  CompFiles,      \* template paths inside it
  StaticFiles,    \* root files copyStaticFiles copies always (.editorconfig)
  StaticScripts,  \* root files it copies unless the destination has them
  DefaultSkip,    \* DEFAULT_COMPONENT_SKIP_PATTERNS of the component
  Regions,        \* hunks of a file
  Edits,          \* lines the owner may write
  MaxRelease,     \* bound: template releases published
  MaxOps,         \* bound: operations of the owner and CLI commands
  Absent          \* no file at this path; no such ref

ASSUME ConstantsAssumption ==
  /\ RootFiles \cap CompFiles = {}
  /\ StaticFiles \cup StaticScripts \subseteq RootFiles
  /\ StaticFiles \cap StaticScripts = {}
  /\ DefaultSkip \subseteq CompFiles
  /\ Regions # {}
  /\ MaxRelease \in Nat \ {0} /\ MaxOps \in Nat
  /\ Edits \cap (1..MaxRelease) = {}

Files == RootFiles \cup CompFiles

VARIABLES
  release,      \* the published template: version and files
  work,         \* the working tree
  index,        \* git's index
  head,         \* the tree of HEAD
  baseline,     \* the tree of refs/projx/baseline, Absent without the ref
  projxCommit,  \* the tree of the last commit that touched .projx, or Absent
  tmpBranch,    \* a branch projx/tmp-* exists
  run,          \* the CLI process
  ops           \* operations so far

vars == <<release, work, index, head, baseline, projxCommit, tmpBranch, run, ops>>

-----------------------------------------------------------------------------
(* Data *)

Line    == (1..MaxRelease) \cup Edits
Content == [Regions -> (SUBSET Line) \ {{}}]
Projx   == [version: 0..MaxRelease, skip: SUBSET Files, defaults: BOOLEAN, pm: BOOLEAN]
Tree    == [files: [Files -> Content \cup {Absent}],
            projx: Projx \cup {Absent},
            marker: (SUBSET CompFiles) \cup {Absent}]

\* Absent is none of the things it stands in for.
ASSUME AbsentAssumption == Absent \notin Content /\ Absent \notin Projx

Pcs == {"idle", "tier1", "tier2", "manage", "stage", "commit", "tier3", "save", "prompt"}

IdleRun == [pc |-> "idle", cmd |-> "none", rootSkip |-> {}, compSkip |-> {},
            legacy |-> FALSE, todo |-> {}, merged |-> {}, conflicted |-> {}]

EmptyTree == [files |-> [f \in Files |-> Absent], projx |-> Absent, marker |-> Absent]

Plain(l)   == [r \in Regions |-> {l}]
Present(t) == {f \in Files : t.files[f] # Absent}

\* Conflict markers in a file: some region holds both sides.
Marked(c)      == c # Absent /\ \E r \in Regions : Cardinality(c[r]) > 1
MarkedFiles(t) == {f \in Files : Marked(t.files[f])}

\* findFilesWithConflictMarkers: git grep reads the tracked files of the work tree.
PendingConflicts == MarkedFiles(work) \cap Present(index)

\* hasUncommittedChanges: git status --porcelain prints something.  Taken to be
\* so: no path of the template is ignored by git, and git status does not fail
\* (the check then finds no changes).
Clean == work = index /\ index = head

-----------------------------------------------------------------------------
(* Writing a template: baseline.ts *)

\* writeManagedProjx: keep what is recorded, set the version, record what is missing.
ManagedProjx(old, legacy) ==
  [version  |-> release.version,
   skip     |-> IF old = Absent THEN {} ELSE old.skip,
   defaults |-> legacy \/ (old # Absent /\ old.defaults),
   pm       |-> TRUE]

\* Fault: a legacy migration forgets the default patterns.
InstanceSkipNoLegacy(real, compSkip, legacy) ==
  compSkip \cup (IF real.marker = Absent THEN DefaultSkip ELSE real.marker)

\* The skip patterns writeOneInstance works with.
InstanceSkip(real, compSkip, legacy) ==
  compSkip \cup (IF real.marker = Absent THEN {} ELSE real.marker)
           \cup (IF real.marker = Absent \/ legacy THEN DefaultSkip ELSE {})

\* copyStaticFiles asks no skip list; its scripts give way to existing files.
CopyStaticFiles(f, dest) ==
  \/ f \in StaticFiles
  \/ f \in StaticScripts /\ dest.files[f] = Absent

\* Fault: the skip list is not consulted.
WritesUnskipped(f, dest, real, rootSkip, compSkip, legacy) ==
  release.files[f] # Absent /\ (f \in StaticScripts => CopyStaticFiles(f, dest))

\* Does writeTemplateToDir write f?  shouldWrite and removeSkippedFiles leave out
\* a skipped path only where the project has the file.
Writes(f, dest, real, rootSkip, compSkip, legacy) ==
  /\ release.files[f] # Absent
  /\ run.cmd = "add" => f \in RootFiles  \* instancesToScaffold is the new one only
  /\ \/ CopyStaticFiles(f, dest)
     \/ /\ f \notin StaticFiles \cup StaticScripts
        /\ \/ f \notin rootSkip \cup InstanceSkip(real, compSkip, legacy)
           \/ real.files[f] = Absent

WriteTemplateToDir(dest, real, rootSkip, compSkip, legacy) ==
  [files  |-> [f \in Files |-> IF Writes(f, dest, real, rootSkip, compSkip, legacy)
                               THEN release.files[f] ELSE dest.files[f]],
   projx  |-> ManagedProjx(dest.projx, legacy),
   marker |-> InstanceSkip(real, compSkip, legacy)]

\* What the orphan worktree, and the temporary directory of tier 2, hold.
Theirs == WriteTemplateToDir(EmptyTree, work, run.rootSkip, run.compSkip, run.legacy)

\* Fault: the default patterns are added on every run.
MigratedMarkerAlways(m, legacy) == IF m = Absent THEN Absent ELSE m \cup DefaultSkip

\* migrateComponentMarkers
MigratedMarker(m, legacy) ==
  IF m = Absent THEN Absent ELSE m \cup (IF legacy THEN DefaultSkip ELSE {})

\* getBaselineRef: the explicit ref, else the commit that last touched .projx.
BaselineRef == IF baseline # Absent THEN baseline ELSE projxCommit

\* Fault: git merge-file --theirs.
MergeRegionTheirs(ours, base, theirs) == IF theirs = base THEN ours ELSE theirs

\* git merge-file on one region.
MergeRegion(ours, base, theirs) ==
  CASE ours = base \/ ours = theirs -> theirs
    [] theirs = base                -> ours
    [] OTHER                        -> ours \cup theirs

MergeFile(ours, base, theirs) ==
  [r \in Regions |-> MergeRegion(ours[r], base[r], theirs[r])]

\* tryThreeWayMerge on one path: the content left in the work tree.
ThreeWay(ours, base, theirs) ==
  CASE ours = Absent  -> theirs
    [] ours # Absent /\ base = Absent -> ours
    [] OTHER -> IF theirs = base THEN ours
                ELSE IF ours = base THEN theirs
                ELSE MergeFile(ours, base, theirs)

\* git merge of the orphan branch: without a common ancestor every path both
\* sides have must be equal, and the work tree must not be in the way.
OrphanMerges(theirs) ==
  /\ Clean
  /\ \A f \in Files : theirs.files[f] = Absent \/ head.files[f] \in {Absent, theirs.files[f]}
  /\ head.projx \in {Absent, theirs.projx}
  /\ head.marker \in {Absent, theirs.marker}

Overlay(t, over) ==
  [files  |-> [f \in Files |-> IF over.files[f] = Absent THEN t.files[f] ELSE over.files[f]],
   projx  |-> over.projx,
   marker |-> over.marker]

\* A commit of tree t: git log -1 -- .projx finds it when .projx differs from the
\* parent's, and may when only the dates inside .projx do.
CommitsProjx(t, mayTouchDates) ==
  projxCommit' \in (IF t.projx # head.projx THEN {t}
                    ELSE {projxCommit} \cup (IF mayTouchDates THEN {t} ELSE {}))

-----------------------------------------------------------------------------
(* CLI commands and the steps of applyTemplate *)

Step == /\ ops < MaxOps /\ ops' = ops + 1
Idle == run.pc = "idle"

Begin(cmd, rootSkip, compSkip, legacy) ==
  /\ run' = [IdleRun EXCEPT !.pc = "tier1", !.cmd = cmd, !.rootSkip = rootSkip,
                            !.compSkip = compSkip, !.legacy = legacy]
  /\ tmpBranch' = TRUE

\* Fault: update() does not look for uncommitted changes.
UpdateDirty ==
  /\ Idle /\ PendingConflicts = {} /\ work.marker # Absent
  /\ Begin("update", IF work.projx = Absent THEN {} ELSE work.projx.skip, work.marker,
           work.projx = Absent \/ ~work.projx.defaults)
  /\ Step
  /\ UNCHANGED <<release, work, index, head, baseline, projxCommit>>

\* update(): nothing pending, nothing uncommitted, components found; a detected
\* lockfile is recorded in .projx before the template is applied.  The orphan
\* worktree is created, filled and committed.
Update ==
  /\ Idle /\ PendingConflicts = {} /\ Clean /\ work.marker # Absent
  /\ Begin("update", IF work.projx = Absent THEN {} ELSE work.projx.skip, work.marker,
           work.projx = Absent \/ ~work.projx.defaults)
  /\ \/ UNCHANGED work
     \/ /\ work.projx = Absent
        /\ work' = [work EXCEPT !.projx =
                      [version |-> 0, skip |-> {}, defaults |-> FALSE, pm |-> TRUE]]
     \/ /\ work.projx # Absent /\ ~work.projx.pm
        /\ work' = [work EXCEPT !.projx.pm = TRUE]
  /\ Step
  /\ UNCHANGED <<release, index, head, baseline, projxCommit>>

\* init(): adopt a repository without .projx in which components are detected.
InitProject ==
  /\ Idle /\ work.projx = Absent /\ Clean
  /\ Begin("init", {}, {}, TRUE)
  /\ Step
  /\ UNCHANGED <<release, work, index, head, baseline, projxCommit>>

\* addInstance(): applyTemplate for the root files and one new directory, which no
\* other path here is in; nobody asks for a clean tree or for pending conflicts.
AddInstance ==
  /\ Idle /\ work.projx # Absent
  /\ Begin("add", work.projx.skip, IF work.marker = Absent THEN {} ELSE work.marker, FALSE)
  /\ Step
  /\ UNCHANGED <<release, work, index, head, baseline, projxCommit>>

\* Tier 1 succeeds: merge commit, temporary branch deleted, markers migrated.
\* The commit git log reports for .projx is then the orphan one.
Tier1Merge ==
  /\ run.pc = "tier1" /\ OrphanMerges(Theirs)
  /\ LET t == Overlay(head, Theirs)
     IN  /\ head' = t /\ index' = t
         /\ work' = [t EXCEPT !.marker = MigratedMarker(t.marker, run.legacy)]
  /\ projxCommit' = Theirs
  /\ tmpBranch' = FALSE
  /\ run' = [run EXCEPT !.pc = "save"]
  /\ UNCHANGED <<release, baseline, ops>>

\* Fault: paths the template no longer has are merged too, as deletions.
Tier1AbortDeletes ==
  /\ run.pc = "tier1" /\ ~OrphanMerges(Theirs)
  /\ tmpBranch' = FALSE
  /\ run' = [run EXCEPT !.pc = IF BaselineRef # Absent THEN "tier2" ELSE "tier3", !.todo = Files]
  /\ UNCHANGED <<release, work, index, head, baseline, projxCommit, ops>>

\* Tier 1 fails: merge aborted, temporary branch deleted.  That the process dies
\* between git merge and git merge --abort is left out: the repository is then in
\* the middle of a merge, which index and work cannot express.
Tier1Abort ==
  /\ run.pc = "tier1" /\ ~OrphanMerges(Theirs)
  /\ tmpBranch' = FALSE
  /\ run' = IF BaselineRef # Absent
            THEN [run EXCEPT !.pc = "tier2", !.todo = Present(Theirs)]
            ELSE [run EXCEPT !.pc = "tier3",
                    !.todo = {f \in Files : Writes(f, work, work, run.rootSkip,
                                                   run.compSkip, run.legacy)}]
  /\ UNCHANGED <<release, work, index, head, baseline, projxCommit, ops>>

\* Tier 2, one path of the template.
Tier2File(f) ==
  /\ run.pc = "tier2" /\ f \in run.todo
  /\ LET ours == work.files[f]
         new  == ThreeWay(ours, BaselineRef.files[f], release.files[f])
     IN  /\ work' = [work EXCEPT !.files[f] = new]
         /\ run' = [run EXCEPT !.todo = @ \ {f},
                       !.merged = IF new # ours /\ ~Marked(new) THEN @ \cup {f} ELSE @,
                       !.conflicted = IF Marked(new) THEN @ \cup {f} ELSE @]
  /\ UNCHANGED <<release, index, head, baseline, projxCommit, tmpBranch, ops>>

\* Tier 2 after its last path: markers are migrated ...
Tier2Migrate ==
  /\ run.pc = "tier2" /\ run.todo = {}
  /\ work' = [work EXCEPT !.marker = MigratedMarker(IF @ = Absent THEN Theirs.marker ELSE @,
                                                    run.legacy)]
  /\ run' = [run EXCEPT !.pc = "manage"]
  /\ UNCHANGED <<release, index, head, baseline, projxCommit, tmpBranch, ops>>

\* ... and .projx is rewritten.
Tier2Manage ==
  /\ run.pc = "manage"
  /\ work' = [work EXCEPT !.projx = ManagedProjx(@, run.legacy)]
  /\ run' = [run EXCEPT !.pc = "stage"]
  /\ UNCHANGED <<release, index, head, baseline, projxCommit, tmpBranch, ops>>

\* Fault: git add -A does not wait for the conflicts.
Tier2AddAllAlways ==
  /\ run.pc = "stage"
  /\ index' = work
  /\ run' = [run EXCEPT !.pc = "commit"]
  /\ UNCHANGED <<release, work, head, baseline, projxCommit, tmpBranch, ops>>

\* Without conflicts: git add -A ...
Tier2AddAll ==
  /\ run.pc = "stage" /\ run.conflicted = {}
  /\ index' = work
  /\ run' = [run EXCEPT !.pc = "commit"]
  /\ UNCHANGED <<release, work, head, baseline, projxCommit, tmpBranch, ops>>

\* ... and a commit of what is staged, if anything is.
Tier2Commit ==
  /\ run.pc = "commit"
  /\ head' = index /\ CommitsProjx(index, TRUE)
  /\ run' = [run EXCEPT !.pc = "save"]
  /\ UNCHANGED <<release, work, index, baseline, tmpBranch, ops>>

\* With conflicts: merged files, .projx and markers are staged, nothing is committed.
Tier2Stage ==
  /\ run.pc = "stage" /\ run.conflicted # {}
  /\ index' = [work EXCEPT !.files = [f \in Files |-> IF f \in run.merged
                                        THEN work.files[f] ELSE index.files[f]]]
  /\ run' = [run EXCEPT !.pc = "prompt"]
  /\ UNCHANGED <<release, work, head, baseline, projxCommit, tmpBranch, ops>>

\* Tier 3, writeOneInstance: the component's files and its marker.
Tier3Instance ==
  /\ run.pc = "tier3" /\ run.todo \cap CompFiles # {}
  /\ work' = [work EXCEPT
       !.files  = [f \in Files |-> IF f \in run.todo \cap CompFiles
                                   THEN release.files[f] ELSE @[f]],
       !.marker = InstanceSkip(work, run.compSkip, run.legacy)]
  /\ run' = [run EXCEPT !.todo = @ \ CompFiles]
  /\ UNCHANGED <<release, index, head, baseline, projxCommit, tmpBranch, ops>>

\* Tier 3, one root file written over the project's.
Tier3File(f) ==
  /\ run.pc = "tier3" /\ run.todo \cap CompFiles = {} /\ f \in run.todo
  /\ work' = [work EXCEPT !.files[f] = release.files[f]]
  /\ run' = [run EXCEPT !.todo = @ \ {f}]
  /\ UNCHANGED <<release, index, head, baseline, projxCommit, tmpBranch, ops>>

\* Tier 3 ends with .projx and the markers; no list of conflicted files.
Tier3Finish ==
  /\ run.pc = "tier3" /\ run.todo = {}
  /\ work' = [work EXCEPT
       !.projx  = ManagedProjx(work.projx, run.legacy),
       !.marker = InstanceSkip(work, run.compSkip, run.legacy)]
  /\ run' = [run EXCEPT !.pc = "prompt"]
  /\ UNCHANGED <<release, index, head, baseline, projxCommit, tmpBranch, ops>>

\* saveBaselineRef: the ref now names HEAD.
SaveBaseline ==
  /\ run.pc = "save"
  /\ baseline' = head
  /\ run' = IdleRun
  /\ UNCHANGED <<release, work, index, head, projxCommit, tmpBranch, ops>>

\* Fault: learnSkips records every path in the component's marker.
DiscardUnclassified(files) ==
  work' = [work EXCEPT
    !.files  = [f \in Files |-> IF f \in files THEN index.files[f] ELSE @[f]],
    !.marker = IF @ = Absent THEN @ ELSE @ \cup files]

\* promptSkipLearning with an answer: git checkout -- restores each discarded
\* file from the index, learnSkips pins it.
Discard(files) ==
  work' = [work EXCEPT
    !.files  = [f \in Files |-> IF f \in files THEN index.files[f] ELSE @[f]],
    !.projx  = IF @ = Absent THEN @
               ELSE [@ EXCEPT !.skip = work.projx.skip \cup (files \cap RootFiles)],
    !.marker = IF @ = Absent THEN @ ELSE @ \cup (files \cap CompFiles)]

\* The end of a run that reported conflicts.  init() only prints advice; update()
\* asks when files conflicted and somebody is there to answer.
PromptSkipLearning ==
  /\ run.pc = "prompt"
  /\ \/ UNCHANGED work
     \/ /\ run.cmd = "update" /\ run.conflicted # {}
        /\ \E discarded \in SUBSET run.conflicted : discarded # {} /\ Discard(discarded)
  /\ run' = IdleRun
  /\ UNCHANGED <<release, index, head, baseline, projxCommit, tmpBranch, ops>>

\* update() on a project with pending conflicts resumes the prompt and returns.
ResumePrompt ==
  /\ Idle /\ PendingConflicts # {}
  /\ \E discarded \in SUBSET PendingConflicts : discarded # {} /\ Discard(discarded)
  /\ Step
  /\ UNCHANGED <<release, index, head, baseline, projxCommit, tmpBranch, run>>

\* add(): the template of every component is written over the work tree.
AddComponents ==
  /\ Idle /\ work.projx # Absent /\ work.marker # Absent
  /\ work' = WriteTemplateToDir(work, work, work.projx.skip, work.marker, FALSE)
  /\ Step
  /\ UNCHANGED <<release, index, head, baseline, projxCommit, tmpBranch, run>>

\* pin() and unpin() of one path, in .projx or in the component's marker.
SetSkip(f, pinned) ==
  work' = IF f \in CompFiles
          THEN [work EXCEPT !.marker = IF pinned THEN @ \cup {f} ELSE @ \ {f}]
          ELSE [work EXCEPT !.projx.skip = IF pinned THEN @ \cup {f} ELSE @ \ {f}]

Pin(f) ==
  /\ Idle /\ work.projx # Absent /\ work.marker # Absent
  /\ SetSkip(f, TRUE)
  /\ Step
  /\ UNCHANGED <<release, index, head, baseline, projxCommit, tmpBranch, run>>

Unpin(f) ==
  /\ Idle /\ work.projx # Absent /\ work.marker # Absent
  /\ SetSkip(f, FALSE)
  /\ Step
  /\ UNCHANGED <<release, index, head, baseline, projxCommit, tmpBranch, run>>

\* doctor --fix recreates a missing baseline ref from HEAD.
DoctorFix ==
  /\ Idle /\ work.projx # Absent /\ baseline = Absent
  /\ baseline' = head
  /\ Step
  /\ UNCHANGED <<release, work, index, head, projxCommit, tmpBranch, run>>

\* The CLI process dies between two of its steps.
Crash ==
  /\ ~Idle
  /\ run' = IdleRun
  /\ UNCHANGED <<release, work, index, head, baseline, projxCommit, tmpBranch, ops>>

-----------------------------------------------------------------------------
(* The owner, other clones and the template's publisher *)

\* Write a line of one's own, or settle a conflict by keeping one side.
OwnerEdit(f, r) ==
  /\ Idle /\ work.files[f] # Absent
  /\ \E l \in Edits \cup work.files[f][r] :
        /\ {l} # work.files[f][r]
        /\ work' = [work EXCEPT !.files[f][r] = {l}]
  /\ Step
  /\ UNCHANGED <<release, index, head, baseline, projxCommit, tmpBranch, run>>

OwnerCreate(f) ==
  /\ Idle /\ work.files[f] = Absent
  /\ \E e \in Edits : work' = [work EXCEPT !.files[f] = Plain(e)]
  /\ Step
  /\ UNCHANGED <<release, index, head, baseline, projxCommit, tmpBranch, run>>

OwnerDelete(f) ==
  /\ Idle /\ work.files[f] # Absent
  /\ work' = [work EXCEPT !.files[f] = Absent]
  /\ Step
  /\ UNCHANGED <<release, index, head, baseline, projxCommit, tmpBranch, run>>

\* git add of one file
OwnerStage(f) ==
  /\ Idle /\ index.files[f] # work.files[f]
  /\ index' = [index EXCEPT !.files[f] = work.files[f]]
  /\ Step
  /\ UNCHANGED <<release, work, head, baseline, projxCommit, tmpBranch, run>>

\* git add . && git commit
OwnerCommit ==
  /\ Idle /\ ~Clean
  /\ head' = work /\ index' = work
  /\ CommitsProjx(work, FALSE)
  /\ Step
  /\ UNCHANGED <<release, work, baseline, tmpBranch, run>>

\* A fresh clone of HEAD: refs/projx/* and temporary branches do not travel.
FreshClone ==
  /\ Idle /\ baseline # Absent
  /\ work' = head /\ index' = head
  /\ baseline' = Absent /\ tmpBranch' = FALSE
  /\ Step
  /\ UNCHANGED <<release, head, projxCommit, run>>

\* The next release changes a region of a file, adds the file or removes it.
Publish(f) ==
  /\ Idle /\ release.version < MaxRelease
  /\ LET v == release.version + 1
     IN \E c \in (IF release.files[f] = Absent THEN {Plain(v)}
                  ELSE {[release.files[f] EXCEPT ![r] = {v}] : r \in Regions} \cup {Absent}) :
          release' = [version |-> v, files |-> [release.files EXCEPT ![f] = c]]
  /\ UNCHANGED <<work, index, head, baseline, projxCommit, tmpBranch, run, ops>>

-----------------------------------------------------------------------------
(* Specification *)

FirstRelease(files) ==
  [version |-> 1, files |-> [f \in Files |-> IF f \in files THEN Plain(1) ELSE Absent]]

\* scaffold(): the template of release 1 is written, committed and saved as baseline.
Scaffolded ==
  [files  |-> release.files,
   projx  |-> [version |-> 1, skip |-> {}, defaults |-> TRUE, pm |-> TRUE],
   marker |-> DefaultSkip]

\* A project scaffolded before default skips and package managers were recorded.
Legacy == [Scaffolded EXCEPT !.projx.defaults = FALSE, !.projx.pm = FALSE, !.marker = {}]

\* A repository of the owner's own, files equal to the template's, own or missing;
\* with a component marker but no .projx, or with neither.
Adopted == {t \in [files: [Files -> {Plain(1), Absent} \cup {Plain(e) : e \in Edits}],
                   projx: {Absent}, marker: {Absent, {}}] :
              \A f \in Files : t.files[f] = Plain(1) => release.files[f] = Plain(1)}

Start(t, base, pc) ==
  /\ head = t /\ index = t /\ work = t /\ baseline = base /\ projxCommit = pc

Init ==
  /\ \E present \in SUBSET Files : release = FirstRelease(present)
  /\ \/ Start(Scaffolded, Scaffolded, Scaffolded)
     \/ Start(Legacy, Absent, Legacy)
     \/ \E t \in Adopted : Start(t, Absent, Absent)
  /\ tmpBranch = FALSE /\ run = IdleRun /\ ops = 0

CliStep ==
  \/ Tier1Merge \/ Tier1Abort
  \/ \E f \in Files : Tier2File(f)
  \/ Tier2Migrate \/ Tier2Manage \/ Tier2AddAll \/ Tier2Commit \/ Tier2Stage
  \/ Tier3Instance \/ (\E f \in Files : Tier3File(f)) \/ Tier3Finish
  \/ SaveBaseline

Command ==
  \/ Update \/ InitProject \/ ResumePrompt \/ AddComponents \/ AddInstance \/ DoctorFix
  \/ \E f \in Files : Pin(f) \/ Unpin(f)

Owner ==
  \/ \E f \in Files, r \in Regions : OwnerEdit(f, r)
  \/ \E f \in Files : OwnerCreate(f) \/ OwnerDelete(f) \/ OwnerStage(f)
  \/ OwnerCommit \/ FreshClone

Next ==
  \/ CliStep \/ PromptSkipLearning \/ Crash
  \/ Command \/ Owner
  \/ \E f \in Files : Publish(f)

Spec == Init /\ [][Next]_vars

-----------------------------------------------------------------------------
(* Properties *)

\* Every variable keeps its type.
TypeOK ==
  /\ release \in [version: 1..MaxRelease, files: [Files -> Content \cup {Absent}]]
  /\ {work, index, head} \subseteq Tree
  /\ {baseline, projxCommit} \subseteq Tree \cup {Absent}
  /\ tmpBranch \in BOOLEAN
  /\ run \in [pc: Pcs, cmd: {"none", "update", "init", "add"}, rootSkip: SUBSET Files,
              compSkip: SUBSET CompFiles, legacy: BOOLEAN, todo: SUBSET Files,
              merged: SUBSET Files, conflicted: SUBSET Files]
  /\ ops \in 0..MaxOps

\* The skip list a run works with: what was recorded when it began, and the
\* defaults where they apply (head still has the marker of that moment).
Skipped == run.rootSkip \cup InstanceSkip(head, run.compSkip, run.legacy)

\* A run never changes a file of the project that its skip list names, whichever
\* tier it ends in, and commits nothing for it but what the owner had in the work
\* tree (removeSkippedFiles, shouldWrite).  Static files are the exception that
\* PinsHonoured is about.
PinnedFilesUntouched ==
  [][~Idle => \A f \in Skipped \ (StaticFiles \cup StaticScripts) :
        /\ work.files[f] # Absent => work'.files[f] = work.files[f]
        /\ head'.files[f] \in {head.files[f], work'.files[f]}]_vars

\* No CLI command removes a file from the work tree, not even the discarded
\* answers of the prompt (promptSkipLearning has an unlink branch).
FilesNeverDeleted ==
  [][~Idle \/ ResumePrompt \/ AddComponents => Present(work) \subseteq Present(work')]_vars

\* update and init never commit a file that holds conflict markers.
ConflictsNeverCommitted ==
  [][run.cmd \in {"update", "init"} /\ head' # head => MarkedFiles(head') = {}]_vars

\* A line the owner wrote since the baseline commit survives the per-file merge,
\* alone or as one side of a reported conflict (tryThreeWayMerge).
NewEditsSurviveMerge ==
  [][run.pc = "tier2" /\ run.cmd = "update" =>
       \A f \in Files : work.files[f] # Absent =>
         \A r \in Regions :
           \/ BaselineRef.files[f] # Absent /\ work.files[f][r] = BaselineRef.files[f][r]
           \/ work.files[f][r] \subseteq work'.files[f][r]]_vars

\* A template applied by update or init only ever overwrites content that HEAD still has: what a
\* run replaces can be restored with git checkout, even after a crash and a rerun.
OnlyCommittedOverwritten ==
  [][run.cmd \in {"update", "init"} /\ run.pc # "prompt" =>
       \A f \in Files : work'.files[f] # work.files[f] => work.files[f] = head.files[f]]_vars

\* "Defaults are applied once": a run on a project whose .projx records
\* defaultsApplied adds nothing to the skip list, so an unpinned default stays so.
DefaultsAppliedOnce ==
  [][run.pc \in {"tier1", "tier2", "tier3"} /\ head.projx # Absent /\ head.projx.defaults
       => (work.marker # Absent => work'.marker = work.marker)]_vars

\* An update or init about to report success leaves nothing behind: no uncommitted change that
\* would make the next update refuse, no markers, the version recorded.
SuccessLeavesCleanTree ==
  run.pc = "save" /\ run.cmd # "add" =>
    Clean /\ MarkedFiles(head) = {} /\ head.projx.version = release.version

\* README.md:263 "Your additions [...] are preserved alongside template updates":
\* no line of the owner's disappears in the per-file merge.
EditsSurviveMerge ==
  [][run.pc = "tier2" /\ run.cmd = "update" =>
       \A f \in Files : work.files[f] # Absent =>
         \A r \in Regions : work.files[f][r] \cap Edits \subseteq work'.files[f][r]]_vars

\* README.md:270 and 279: template updates do not touch a path in the skip list.
PinsHonoured ==
  [][run.cmd = "update" => \A f \in run.rootSkip :
        work.files[f] # Absent => work'.files[f] = work.files[f]]_vars

\* README.md:249 "`update` keeps every instance refreshed on every run": a successful
\* update leaves no line of an older release in a file that is not skipped, where the
\* template has moved on.
RefreshedOnSuccess ==
  run.pc = "save" /\ run.cmd = "update" =>
    \A f \in Files \ Skipped : release.files[f] # Absent =>
      \A r \in Regions : head.files[f][r] \subseteq release.files[f][r] \cup Edits

\* README.md:223 init works "without overwriting your code".
InitKeepsCode ==
  [][run.cmd = "init" => \A f \in Files :
        work.files[f] # Absent => work'.files[f] = work.files[f]]_vars

=============================================================================
