------------------------ MODULE TemplateUpdateProofs ------------------------
(***************************************************************************)
(* Theorems about TemplateUpdate, for any template, any number of files,   *)
(* regions, releases and operations.                                       *)
(***************************************************************************)
EXTENDS TemplateUpdate, FiniteSetTheorems, TLAPS

-----------------------------------------------------------------------------
(* The inductive invariant *)

Tiers == {"tier1", "tier2", "tier3"}
Finishing == {"manage", "stage"}  \* the second tier after its last path
Static == StaticFiles \cup StaticScripts

\* update and init ask for a clean tree; addInstance does not.
AsksForClean == run.cmd \in {"update", "init"}

\* What a process works on: paths of the template, none before the first tier
\* has failed, and the second tier only with a baseline to merge from.  What it
\* commits there is the work tree, with the version recorded and no markers.
RunShape ==
  /\ run.pc = "idle" => run = IdleRun
  /\ run.pc # "idle" => run.cmd # "none"
  /\ run.pc = "tier1" => run.todo = {} /\ run.merged = {} /\ run.conflicted = {}
  /\ run.todo \subseteq Present(release)
  /\ run.cmd = "add" => run.todo \subseteq RootFiles
  /\ run.pc \in Finishing \cup {"commit"} => run.todo = {}
  /\ run.pc = "tier2" => BaselineRef # Absent
  /\ run.pc \in {"tier2"} \cup Finishing => run.merged \subseteq Present(work)
  /\ run.pc \in {"stage", "commit", "save", "prompt"} => work.projx # Absent
  /\ run.pc \in {"stage", "commit"} => work.projx.version = release.version
  /\ run.pc = "commit" => index = work /\ (AsksForClean => MarkedFiles(work) = {})

\* A project without .projx has no baseline to merge from, so no run has left
\* conflict markers in it: init need not look for them.
Unversioned ==
  /\ work.projx = Absent => head.projx = Absent /\ baseline = Absent /\ MarkedFiles(work) = {}
  /\ head.projx = Absent => projxCommit = Absent /\ MarkedFiles(head) = {}

\* While update or init applies the template, HEAD and the index are what they
\* were, paths still to come are as committed, and markers are accounted for.
FromClean ==
  /\ AsksForClean /\ run.pc \in Tiers \cup Finishing =>
       /\ index = head /\ MarkedFiles(head) = {}
       /\ MarkedFiles(work) \subseteq run.conflicted
  /\ AsksForClean /\ run.pc \in Tiers =>
       /\ \A f \in Files : run.pc = "tier1" \/ f \in run.todo => work.files[f] = head.files[f]
       /\ run.pc = "tier1" => work.marker = head.marker
  /\ run.cmd = "update" /\ run.pc \in Tiers \cup Finishing \cup {"prompt"} =>
       run.conflicted \subseteq Present(index)

\* Skipped paths the project has are not on the list of paths to write, and
\* did not conflict.
SkipsHold ==
  run.pc \in Tiers \cup Finishing \cup {"prompt"} =>
    /\ \A f \in run.todo : f \in Static \/ f \notin Skipped \/ work.files[f] = Absent
    /\ run.conflicted \cap Skipped \subseteq Static

\* The default patterns are due only where they were not recorded yet.
DefaultsDue ==
  run.pc \in Tiers =>
    /\ head.projx # Absent /\ head.projx.defaults => ~run.legacy
    /\ work.marker # Absent => run.compSkip \subseteq work.marker

Inv ==
  /\ TypeOK /\ MarkedFiles(release) = {} /\ RunShape /\ Unversioned
  /\ FromClean /\ SkipsHold /\ DefaultsDue /\ SuccessLeavesCleanTree

-----------------------------------------------------------------------------
(* Trees and runs *)

FileContent == Content \cup {Absent}
RunRecord ==
  [pc: Pcs, cmd: {"none", "update", "init", "add"}, rootSkip: SUBSET Files,
   compSkip: SUBSET CompFiles, legacy: BOOLEAN, todo: SUBSET Files,
   merged: SUBSET Files, conflicted: SUBSET Files]

LEMMA TreeParts ==
  ASSUME NEW t \in Tree
  PROVE  /\ t.files \in [Files -> FileContent]
         /\ \A f \in Files : t.files[f] \in FileContent
         /\ t.projx \in Projx \cup {Absent}
         /\ t.marker \in (SUBSET CompFiles) \cup {Absent}
  BY DEF Tree, FileContent

LEMMA TreeOf ==
  ASSUME NEW F \in [Files -> FileContent], NEW p \in Projx \cup {Absent},
         NEW m \in (SUBSET CompFiles) \cup {Absent}
  PROVE  [files |-> F, projx |-> p, marker |-> m] \in Tree
  BY DEF Tree, FileContent

\* A tree with some of its parts replaced.
IsTree(t, F, p, m) == t \in Tree /\ t.files = F /\ t.projx = p /\ t.marker = m

LEMMA TreeWith ==
  ASSUME NEW t \in Tree, NEW F \in [Files -> FileContent], NEW p \in Projx \cup {Absent},
         NEW m \in (SUBSET CompFiles) \cup {Absent}
  PROVE  /\ IsTree([t EXCEPT !.files = F], F, t.projx, t.marker)
         /\ IsTree([t EXCEPT !.projx = p], t.files, p, t.marker)
         /\ IsTree([t EXCEPT !.marker = m], t.files, t.projx, m)
         /\ IsTree([t EXCEPT !.files = F, !.marker = m], F, t.projx, m)
         /\ IsTree([t EXCEPT !.files = F, !.projx = p, !.marker = m], F, p, m)
  BY DEF Tree, FileContent, IsTree

LEMMA ProjxParts ==
  ASSUME NEW p \in Projx
  PROVE  /\ p.version \in 0..MaxRelease /\ p.skip \in SUBSET Files
         /\ p.defaults \in BOOLEAN /\ p.pm \in BOOLEAN /\ p # Absent
         /\ \A S \in SUBSET Files : [p EXCEPT !.skip = S] \in Projx
         /\ [p EXCEPT !.pm = TRUE] \in Projx
  BY AbsentAssumption DEF Projx

\* What TypeOK says of each variable.
LEMMA Typed ==
  ASSUME TypeOK
  PROVE  /\ release.version \in 1..MaxRelease /\ release.files \in [Files -> FileContent]
         /\ release = [version |-> release.version, files |-> release.files]
         /\ work \in Tree /\ index \in Tree /\ head \in Tree
         /\ baseline \in Tree \cup {Absent} /\ projxCommit \in Tree \cup {Absent}
         /\ run \in RunRecord /\ ops \in 0..MaxOps
  BY DEF TypeOK, FileContent, RunRecord

LEMMA RunParts ==
  ASSUME NEW q \in RunRecord
  PROVE  /\ q.pc \in Pcs /\ q.cmd \in {"none", "update", "init", "add"}
         /\ q.rootSkip \in SUBSET Files /\ q.compSkip \in SUBSET CompFiles
         /\ q.legacy \in BOOLEAN
         /\ q.todo \in SUBSET Files /\ q.merged \in SUBSET Files /\ q.conflicted \in SUBSET Files
  BY DEF RunRecord

\* A run with some of its parts replaced.
IsRun(q, p, pc, S, M, C) ==
  /\ q \in RunRecord /\ q.pc = pc /\ q.todo = S /\ q.merged = M /\ q.conflicted = C
  /\ q.cmd = p.cmd /\ q.rootSkip = p.rootSkip /\ q.compSkip = p.compSkip /\ q.legacy = p.legacy

LEMMA RunAt ==
  ASSUME NEW q \in RunRecord, NEW pc \in Pcs
  PROVE  IsRun([q EXCEPT !.pc = pc], q, pc, q.todo, q.merged, q.conflicted)
  BY DEF RunRecord, IsRun

LEMMA RunWith ==
  ASSUME NEW q \in RunRecord, NEW pc \in Pcs, NEW S \in SUBSET Files
  PROVE  /\ IsRun([q EXCEPT !.todo = S], q, q.pc, S, q.merged, q.conflicted)
         /\ IsRun([q EXCEPT !.pc = pc, !.todo = S], q, pc, S, q.merged, q.conflicted)
  BY DEF RunRecord, IsRun

LEMMA RunMerged ==
  ASSUME NEW q \in RunRecord, NEW S \in SUBSET Files, NEW M \in SUBSET Files, NEW C \in SUBSET Files
  PROVE  IsRun([q EXCEPT !.todo = S, !.merged = M, !.conflicted = C], q, q.pc, S, M, C)
  BY DEF RunRecord, IsRun

LEMMA IdleRunParts ==
  /\ IdleRun \in RunRecord
  /\ IdleRun.pc = "idle" /\ IdleRun.cmd = "none" /\ IdleRun.todo = {}
  /\ IdleRun.merged = {} /\ IdleRun.conflicted = {}
  BY DEF IdleRun, RunRecord, Pcs

-----------------------------------------------------------------------------
(* Files, markers and merges *)

LEMMA Stepped ==
  ASSUME TypeOK, Step
  PROVE  ops' \in 0..MaxOps
  BY ConstantsAssumption DEF Step, TypeOK

LEMMA PlainFile ==
  ASSUME NEW l \in Line
  PROVE  Plain(l) \in Content /\ ~Marked(Plain(l)) /\ Plain(l) # Absent
<1>1. Plain(l) \in Content
  BY DEF Plain, Content
<1>2. \A r \in Regions : Cardinality(Plain(l)[r]) = 1
  BY FS_Singleton DEF Plain
<1> QED
  BY <1>1, <1>2, AbsentAssumption DEF Marked

\* Writing one line to a region leaves no more markers than there were.
LEMMA OneLine ==
  ASSUME NEW c \in Content, NEW r \in Regions, NEW l \in Line
  PROVE  /\ [c EXCEPT ![r] = {l}] \in Content /\ [c EXCEPT ![r] = {l}] # Absent
         /\ ~Marked(c) => ~Marked([c EXCEPT ![r] = {l}])
<1>1. [c EXCEPT ![r] = {l}] \in Content
  BY DEF Content
<1>2. Cardinality({l}) = 1
  BY FS_Singleton
<1>3. c # Absent /\ [c EXCEPT ![r] = {l}] # Absent
  BY <1>1, AbsentAssumption
<1>4. \A s \in Regions : [c EXCEPT ![r] = {l}][s] = IF s = r THEN {l} ELSE c[s]
  BY DEF Content
<1> QED
  BY <1>1, <1>2, <1>3, <1>4 DEF Marked

LEMMA MergedRegion ==
  ASSUME NEW ours \in (SUBSET Line) \ {{}}, NEW base, NEW theirs \in (SUBSET Line) \ {{}}
  PROVE  /\ MergeRegion(ours, base, theirs) \in (SUBSET Line) \ {{}}
         /\ ours = base \/ ours \subseteq MergeRegion(ours, base, theirs)
  BY DEF MergeRegion

\* The per-file merge yields a file, keeps it, and loses nothing but what
\* the baseline has.
LEMMA MergedFile ==
  ASSUME NEW ours \in FileContent, NEW base \in FileContent, NEW theirs \in Content
  PROVE  /\ ThreeWay(ours, base, theirs) \in Content
         /\ ours = Absent => ThreeWay(ours, base, theirs) = theirs
         /\ ours # Absent => \A r \in Regions :
              \/ base # Absent /\ ours[r] = base[r]
              \/ ours[r] \subseteq ThreeWay(ours, base, theirs)[r]
<1>1. CASE ours = Absent
  BY <1>1 DEF ThreeWay
<1>2. CASE ours # Absent /\ base = Absent
  BY <1>2 DEF ThreeWay, FileContent
<1>3. CASE ours # Absent /\ base # Absent /\ (theirs = base \/ ours = base)
  BY <1>3 DEF ThreeWay, FileContent
<1>4. CASE ours # Absent /\ base # Absent /\ theirs # base /\ ours # base
  <2>1. ThreeWay(ours, base, theirs) = MergeFile(ours, base, theirs)
    BY <1>4 DEF ThreeWay
  <2>2. ours \in Content
    BY <1>4 DEF FileContent
  <2>3. \A r \in Regions : ours[r] \in (SUBSET Line) \ {{}} /\ theirs[r] \in (SUBSET Line) \ {{}}
    BY <2>2 DEF Content
  <2>4. \A r \in Regions : /\ MergeRegion(ours[r], base[r], theirs[r]) \in (SUBSET Line) \ {{}}
                           /\ \/ ours[r] = base[r]
                              \/ ours[r] \subseteq MergeRegion(ours[r], base[r], theirs[r])
    BY <2>3, MergedRegion
  <2>5. MergeFile(ours, base, theirs) \in Content
    BY <2>4 DEF MergeFile, Content
  <2>6. \A r \in Regions : MergeFile(ours, base, theirs)[r] = MergeRegion(ours[r], base[r], theirs[r])
    BY DEF MergeFile
  <2> QED
    BY <1>4, <2>1, <2>4, <2>5, <2>6
<1> QED
  BY <1>1, <1>2, <1>3, <1>4


-----------------------------------------------------------------------------
(* Writing a template *)

LEMMA SkipTyped ==
  ASSUME NEW real \in Tree, NEW cs \in SUBSET CompFiles, NEW legacy \in BOOLEAN
  PROVE  InstanceSkip(real, cs, legacy) \in SUBSET CompFiles
  BY ConstantsAssumption, TreeParts DEF InstanceSkip

LEMMA ProjxWritten ==
  ASSUME TypeOK, NEW old \in Projx \cup {Absent}, NEW legacy \in BOOLEAN
  PROVE  /\ ManagedProjx(old, legacy) \in Projx
         /\ ManagedProjx(old, legacy) # Absent
         /\ ManagedProjx(old, legacy).version = release.version
<1> DEFINE S == IF old = Absent THEN {} ELSE old.skip
           d == legacy \/ (old # Absent /\ old.defaults)
<1>1. release.version \in 0..MaxRelease
  BY Typed, ConstantsAssumption
<1>2. S \in SUBSET Files
  BY ProjxParts
<1>3. d \in BOOLEAN
  BY Zenon
<1>4. ManagedProjx(old, legacy) = [version |-> release.version, skip |-> S, defaults |-> d, pm |-> TRUE]
  BY Zenon DEF ManagedProjx
<1> HIDE DEF S, d
<1>5. ManagedProjx(old, legacy) \in Projx
  BY <1>1, <1>2, <1>3, <1>4 DEF Projx
<1>6. ManagedProjx(old, legacy).version = release.version
  BY <1>4
<1> QED
  BY <1>5, <1>6, AbsentAssumption

LEMMA Written ==
  ASSUME TypeOK, NEW dest \in Tree, NEW real \in Tree, NEW rs \in SUBSET Files,
         NEW cs \in SUBSET CompFiles, NEW legacy \in BOOLEAN
  PROVE  LET t == WriteTemplateToDir(dest, real, rs, cs, legacy)
         IN  /\ IsTree(t, t.files, ManagedProjx(dest.projx, legacy), InstanceSkip(real, cs, legacy))
             /\ \A f \in Files : t.files[f] = IF Writes(f, dest, real, rs, cs, legacy)
                                              THEN release.files[f] ELSE dest.files[f]
<1> DEFINE F == [f \in Files |-> IF Writes(f, dest, real, rs, cs, legacy)
                                 THEN release.files[f] ELSE dest.files[f]]
           t == WriteTemplateToDir(dest, real, rs, cs, legacy)
<1>1. \A f \in Files : release.files[f] \in FileContent /\ dest.files[f] \in FileContent
  BY Typed, TreeParts
<1>2. F \in [Files -> FileContent]
  BY <1>1
<1>3. ManagedProjx(dest.projx, legacy) \in Projx
  BY ProjxWritten, TreeParts
<1>4. InstanceSkip(real, cs, legacy) \in SUBSET CompFiles
  BY SkipTyped
<1>5. t = [files |-> F, projx |-> ManagedProjx(dest.projx, legacy), marker |-> InstanceSkip(real, cs, legacy)]
  BY DEF WriteTemplateToDir
<1> HIDE DEF F, t
<1>6. t \in Tree
  BY <1>2, <1>3, <1>4, <1>5, TreeOf
<1>7. t.files = F /\ t.projx = ManagedProjx(dest.projx, legacy) /\ t.marker = InstanceSkip(real, cs, legacy)
  BY <1>5
<1>8. \A f \in Files : F[f] = IF Writes(f, dest, real, rs, cs, legacy)
                              THEN release.files[f] ELSE dest.files[f]
  BY DEF F
<1> QED
  BY <1>6, <1>7, <1>8 DEF IsTree, t

LEMMA EmptyTyped == EmptyTree \in Tree /\ EmptyTree.projx = Absent /\ \A f \in Files : EmptyTree.files[f] = Absent
  BY TreeOf DEF EmptyTree, FileContent

\* The tree that is merged.
LEMMA TheirsTyped ==
  ASSUME TypeOK
  PROVE  /\ Theirs \in Tree
         /\ Theirs.projx \in Projx /\ Theirs.projx # Absent
         /\ Theirs.projx.version = release.version
         /\ Theirs.marker = InstanceSkip(work, run.compSkip, run.legacy)
         /\ Theirs.marker \in SUBSET CompFiles
         /\ \A f \in Files :
              Theirs.files[f] = IF Writes(f, EmptyTree, work, run.rootSkip, run.compSkip, run.legacy)
                                THEN release.files[f] ELSE Absent
<1>1. /\ work \in Tree /\ run.rootSkip \in SUBSET Files
      /\ run.compSkip \in SUBSET CompFiles /\ run.legacy \in BOOLEAN
  BY Typed, RunParts
<1>2. ManagedProjx(EmptyTree.projx, run.legacy) \in Projx
  BY <1>1, EmptyTyped, ProjxWritten
<1>3. ManagedProjx(EmptyTree.projx, run.legacy).version = release.version
  BY <1>1, EmptyTyped, ProjxWritten
<1>4. /\ IsTree(Theirs, Theirs.files, ManagedProjx(EmptyTree.projx, run.legacy),
                InstanceSkip(work, run.compSkip, run.legacy))
      /\ \A f \in Files :
           Theirs.files[f] = IF Writes(f, EmptyTree, work, run.rootSkip, run.compSkip, run.legacy)
                             THEN release.files[f] ELSE EmptyTree.files[f]
  BY <1>1, EmptyTyped, Written DEF Theirs
<1>5. InstanceSkip(work, run.compSkip, run.legacy) \in SUBSET CompFiles
  BY <1>1, SkipTyped
<1> QED
  BY <1>2, <1>3, <1>4, <1>5, EmptyTyped, AbsentAssumption DEF IsTree

LEMMA WritesTemplate ==
  ASSUME NEW f, NEW dest, NEW real, NEW rs, NEW cs, NEW legacy, Writes(f, dest, real, rs, cs, legacy)
  PROVE  /\ release.files[f] # Absent
         /\ run.cmd = "add" => f \in RootFiles
         /\ f \in Static \/ f \notin rs \cup InstanceSkip(real, cs, legacy) \/ real.files[f] = Absent
  BY DEF Writes, CopyStaticFiles, Static

-----------------------------------------------------------------------------
(* Steps taken while no process runs *)

LEMMA NoRun ==
  ASSUME run' = IdleRun
  PROVE  RunShape' /\ FromClean' /\ SkipsHold' /\ DefaultsDue' /\ SuccessLeavesCleanTree'
<1>1. run'.pc = "idle" /\ run'.cmd = "none" /\ run'.todo = {}
  BY IdleRunParts
<1>2. RunShape'
  BY <1>1 DEF RunShape, Finishing
<1>3. FromClean' /\ SkipsHold' /\ DefaultsDue' /\ SuccessLeavesCleanTree'
  BY <1>1
    DEF FromClean, SkipsHold, DefaultsDue, SuccessLeavesCleanTree, AsksForClean, Tiers, Finishing
<1> QED
  BY <1>2, <1>3

\* Somebody changes the work tree.
LEMMA WorkStep ==
  ASSUME Inv, Idle, work' \in Tree, ops' \in 0..MaxOps,
         UNCHANGED <<release, index, head, baseline, projxCommit, tmpBranch, run>>,
         work'.projx = Absent =>
           work.projx = Absent /\ (MarkedFiles(work) = {} => MarkedFiles(work') = {})
  PROVE  Inv'
<1>1. run' = IdleRun
  BY DEF Inv, RunShape, Idle, Finishing
<1>2. TypeOK'
  BY DEF Inv, TypeOK
<1>3. Unversioned'
  BY DEF Inv, Unversioned
<1>4. MarkedFiles(release') = {}
  BY DEF Inv
<1> QED
  BY <1>1, <1>2, <1>3, <1>4, NoRun DEF Inv

\* A file gets a new content.
WithFile(t, f, c) == [t EXCEPT !.files[f] = c]

LEMMA FileWritten ==
  ASSUME NEW t \in Tree, NEW f \in Files, NEW c \in FileContent, NEW u, u = WithFile(t, f, c)
  PROVE  /\ u \in Tree /\ u.projx = t.projx /\ u.marker = t.marker
         /\ u.files[f] = c /\ \A g \in Files \ {f} : u.files[g] = t.files[g]
         /\ MarkedFiles(t) = {} /\ ~Marked(c) => MarkedFiles(u) = {}
<1> DEFINE F == [t.files EXCEPT ![f] = c]
<1>1. t.files \in [Files -> FileContent]
  BY TreeParts
<1>2. F \in [Files -> FileContent] /\ F[f] = c /\ \A g \in Files \ {f} : F[g] = t.files[g]
  BY <1>1
<1> HIDE DEF F
<1>3. u = [t EXCEPT !.files = F]
  BY DEF F, WithFile
<1>4. IsTree(u, F, t.projx, t.marker)
  BY <1>2, <1>3 DEF IsTree, Tree, FileContent
<1> QED
  BY <1>2, <1>4 DEF IsTree, MarkedFiles

LEMMA OwnerEditKeeps ==
  ASSUME Inv, NEW f \in Files, NEW r \in Regions, OwnerEdit(f, r)
  PROVE  Inv'
<1>1. work \in Tree /\ work.files[f] \in Content
  BY Typed, TreeParts DEF Inv, OwnerEdit, FileContent
<1>2. PICK l \in Edits \cup work.files[f][r] : work' = [work EXCEPT !.files[f][r] = {l}]
  BY DEF OwnerEdit
<1>3. l \in Line
  BY <1>1 DEF Content, Line
<1> DEFINE c == [work.files[f] EXCEPT ![r] = {l}]
<1>4. c \in Content /\ (~Marked(work.files[f]) => ~Marked(c))
  BY <1>1, <1>3, OneLine
<1>5. work' = WithFile(work, f, c)
  BY <1>2 DEF WithFile
<1> HIDE DEF c
<1>6. work' \in Tree /\ work'.projx = work.projx /\ (MarkedFiles(work) = {} /\ ~Marked(c) => MarkedFiles(work') = {})
  BY <1>1, <1>4, <1>5, FileWritten DEF FileContent
<1>7. MarkedFiles(work) = {} => MarkedFiles(work') = {}
  BY <1>4, <1>6 DEF MarkedFiles
<1>8. ops' \in 0..MaxOps
  BY Stepped DEF Inv, OwnerEdit
<1> QED
  BY <1>6, <1>7, <1>8, WorkStep DEF OwnerEdit

LEMMA OwnerCreateKeeps ==
  ASSUME Inv, NEW f \in Files, OwnerCreate(f) \/ OwnerDelete(f)
  PROVE  Inv'
<1>1. work \in Tree
  BY Typed DEF Inv
<1>2. PICK c \in FileContent : ~Marked(c) /\ work' = WithFile(work, f, c)
  <2>1. CASE OwnerCreate(f)
    BY <2>1, PlainFile DEF OwnerCreate, FileContent, Line, WithFile
  <2>2. CASE OwnerDelete(f)
    BY <2>2 DEF OwnerDelete, FileContent, Marked, WithFile
  <2> QED
    BY <2>1, <2>2
<1>3. work' \in Tree /\ work'.projx = work.projx /\ (MarkedFiles(work) = {} => MarkedFiles(work') = {})
  BY <1>1, <1>2, FileWritten
<1>4. ops' \in 0..MaxOps
  BY Stepped DEF Inv, OwnerCreate, OwnerDelete
<1> QED
  BY <1>3, <1>4, WorkStep DEF OwnerCreate, OwnerDelete

LEMMA PinKeeps ==
  ASSUME Inv, NEW f \in Files, NEW b \in BOOLEAN, Idle, SetSkip(f, b), Step,
         work.projx # Absent, work.marker # Absent,
         UNCHANGED <<release, index, head, baseline, projxCommit, tmpBranch, run>>
  PROVE  Inv'
<1>1. work \in Tree /\ work.projx \in Projx /\ work.marker \in SUBSET CompFiles
  BY Typed, TreeParts DEF Inv
<1>2. work' \in Tree /\ work'.projx # Absent
  <2>1. CASE f \in CompFiles
    <3> DEFINE m == IF b THEN work.marker \cup {f} ELSE work.marker \ {f}
    <3>1. work' = [work EXCEPT !.marker = m] /\ m \in SUBSET CompFiles
      BY <1>1, <2>1 DEF SetSkip
    <3> HIDE DEF m
    <3>2. IsTree(work', work.files, work.projx, m)
      BY <1>1, <3>1, TreeWith, TreeParts
    <3> QED
      BY <3>2 DEF IsTree
  <2>2. CASE f \notin CompFiles
    <3> DEFINE S == IF b THEN work.projx.skip \cup {f} ELSE work.projx.skip \ {f}
               p == [work.projx EXCEPT !.skip = S]
    <3>1. S \in SUBSET Files
      BY <1>1, ProjxParts
    <3>2. work' = [work EXCEPT !.projx = p]
      BY <2>2 DEF SetSkip
    <3> HIDE DEF S
    <3>3. p \in Projx /\ p # Absent
      BY <1>1, <3>1, ProjxParts
    <3> HIDE DEF p
    <3>4. IsTree(work', work.files, p, work.marker)
      BY <1>1, <3>2, <3>3, TreeWith, TreeParts
    <3> QED
      BY <3>3, <3>4 DEF IsTree
  <2> QED
    BY <2>1, <2>2
<1>3. ops' \in 0..MaxOps
  BY Stepped DEF Inv
<1> QED
  BY <1>2, <1>3, WorkStep

LEMMA AddComponentsKeeps ==
  ASSUME Inv, AddComponents
  PROVE  Inv'
<1>1. /\ work \in Tree /\ work.projx \in Projx /\ work.marker \in SUBSET CompFiles
      /\ work.projx.skip \in SUBSET Files
  BY Typed, TreeParts, ProjxParts DEF Inv, AddComponents
<1>2. TypeOK
  BY DEF Inv
<1>3. ManagedProjx(work.projx, FALSE) # Absent
  BY <1>1, <1>2, ProjxWritten
<1>4. IsTree(work', work'.files, ManagedProjx(work.projx, FALSE), InstanceSkip(work, work.marker, FALSE))
  BY <1>1, <1>2, Written DEF AddComponents
<1>5. ops' \in 0..MaxOps
  BY <1>2, Stepped DEF AddComponents
<1> QED
  BY <1>3, <1>4, <1>5, WorkStep DEF IsTree, AddComponents

LEMMA Discarded ==
  ASSUME TypeOK, NEW D \in SUBSET Files, Discard(D)
  PROVE  /\ work' \in Tree /\ (work'.projx = Absent => work.projx = Absent)
         /\ \A f \in Files : work'.files[f] = IF f \in D THEN index.files[f] ELSE work.files[f]
<1> DEFINE F == [f \in Files |-> IF f \in D THEN index.files[f] ELSE work.files[f]]
           q == [work.projx EXCEPT !.skip = @ \cup (D \cap RootFiles)]
           p == IF work.projx = Absent THEN work.projx ELSE q
           m == IF work.marker = Absent THEN work.marker ELSE work.marker \cup (D \cap CompFiles)
<1>1. /\ work \in Tree /\ index \in Tree
      /\ \A f \in Files : work.files[f] \in FileContent /\ index.files[f] \in FileContent
      /\ work.projx \in Projx \cup {Absent} /\ work.marker \in (SUBSET CompFiles) \cup {Absent}
  BY Typed, TreeParts
<1>2. F \in [Files -> FileContent]
  BY <1>1
<1>3. m \in (SUBSET CompFiles) \cup {Absent}
  BY <1>1
<1>4. work.projx # Absent => q \in Projx /\ q # Absent
  <2> SUFFICES ASSUME work.projx # Absent PROVE q \in Projx /\ q # Absent
    OBVIOUS
  <2>1. work.projx \in Projx
    BY <1>1
  <2>2. work.projx.skip \cup (D \cap RootFiles) \in SUBSET Files
    BY <2>1, ProjxParts DEF Files
  <2> QED
    BY <2>1, <2>2, ProjxParts
<1>5. work' = [work EXCEPT !.files = F, !.projx = p, !.marker = m]
  BY DEF Discard
<1>6. \A f \in Files : F[f] = IF f \in D THEN index.files[f] ELSE work.files[f]
  OBVIOUS
<1> HIDE DEF F, q, m
<1>7. p \in Projx \cup {Absent} /\ (p = Absent => work.projx = Absent)
  BY <1>1, <1>4
<1> HIDE DEF p
<1>8. IsTree(work', F, p, m)
  BY <1>1, <1>2, <1>3, <1>5, <1>7, TreeWith
<1> QED
  BY <1>6, <1>7, <1>8 DEF IsTree

LEMMA ResumePromptKeeps ==
  ASSUME Inv, ResumePrompt
  PROVE  Inv'
<1>1. PendingConflicts # {} /\ PendingConflicts \subseteq MarkedFiles(work) /\ PendingConflicts \in SUBSET Files
  BY DEF ResumePrompt, PendingConflicts, MarkedFiles
<1>2. work.projx # Absent
  BY <1>1 DEF Inv, Unversioned
<1>3. PICK D \in SUBSET PendingConflicts : Discard(D)
  BY DEF ResumePrompt
<1>4. work' \in Tree /\ work'.projx # Absent
  BY <1>1, <1>2, <1>3, Discarded DEF Inv
<1>5. ops' \in 0..MaxOps
  BY Stepped DEF Inv, ResumePrompt
<1> QED
  BY <1>4, <1>5, WorkStep DEF ResumePrompt

LEMMA OwnerStageKeeps ==
  ASSUME Inv, NEW f \in Files, OwnerStage(f)
  PROVE  Inv'
<1>1. index \in Tree /\ work \in Tree /\ work.files[f] \in FileContent
  BY Typed, TreeParts DEF Inv
<1>2. index' = WithFile(index, f, work.files[f]) /\ index' \in Tree
  BY <1>1, FileWritten DEF OwnerStage, WithFile
<1>3. run' = IdleRun
  BY DEF Inv, RunShape, Idle, OwnerStage, Finishing
<1>4. ops' \in 0..MaxOps
  BY Stepped DEF Inv, OwnerStage
<1>5. TypeOK'
  BY <1>2, <1>4 DEF Inv, TypeOK, OwnerStage
<1>6. Unversioned' /\ MarkedFiles(release') = {}
  BY DEF Inv, Unversioned, OwnerStage
<1> QED
  BY <1>3, <1>5, <1>6, NoRun DEF Inv

\* A commit finds the tree it makes, or the one that was known.
LEMMA Committed ==
  ASSUME TypeOK, NEW t \in Tree, NEW b \in BOOLEAN, CommitsProjx(t, b)
  PROVE  projxCommit' \in Tree \cup {Absent} /\ (t.projx = head.projx /\ ~b => projxCommit' = projxCommit)
<1>1. projxCommit \in Tree \cup {Absent}
  BY Typed
<1> QED
  BY <1>1 DEF CommitsProjx

LEMMA OwnerCommitKeeps ==
  ASSUME Inv, OwnerCommit
  PROVE  Inv'
<1>1. work \in Tree /\ head' = work /\ index' = work /\ UNCHANGED <<release, work, baseline, tmpBranch, run>>
  BY Typed DEF Inv, OwnerCommit
<1>2. projxCommit' \in Tree \cup {Absent} /\ (work.projx = head.projx => projxCommit' = projxCommit)
  BY <1>1, Committed DEF Inv, OwnerCommit
<1>3. run' = IdleRun
  BY DEF Inv, RunShape, Idle, OwnerCommit, Finishing
<1>4. ops' \in 0..MaxOps
  BY Stepped DEF Inv, OwnerCommit
<1>5. TypeOK'
  BY <1>1, <1>2, <1>4 DEF Inv, TypeOK
<1>6. Unversioned' /\ MarkedFiles(release') = {}
  BY <1>1, <1>2 DEF Inv, Unversioned
<1> QED
  BY <1>3, <1>5, <1>6, NoRun DEF Inv

LEMMA FreshCloneKeeps ==
  ASSUME Inv, FreshClone \/ DoctorFix
  PROVE  Inv'
<1>1. head \in Tree
  BY Typed DEF Inv
<1>2. run' = IdleRun
  BY DEF Inv, RunShape, Idle, FreshClone, DoctorFix, Finishing
<1>3. ops' \in 0..MaxOps
  BY Stepped DEF Inv, FreshClone, DoctorFix
<1>4. TypeOK'
  BY <1>1, <1>3 DEF Inv, TypeOK, FreshClone, DoctorFix
<1>5. Unversioned' /\ MarkedFiles(release') = {}
  BY DEF Inv, Unversioned, FreshClone, DoctorFix
<1> QED
  BY <1>2, <1>4, <1>5, NoRun DEF Inv

LEMMA PublishKeeps ==
  ASSUME Inv, NEW f \in Files, Publish(f)
  PROVE  Inv'
<1> DEFINE v == release.version + 1
<1>1. /\ release.version \in 1..MaxRelease /\ release.files \in [Files -> FileContent]
      /\ MarkedFiles(release) = {}
  BY Typed DEF Inv
<1>2. v \in 1..MaxRelease /\ v \in Line
  BY <1>1, ConstantsAssumption DEF Publish, Line
<1>3. PICK c \in (IF release.files[f] = Absent THEN {Plain(v)}
                  ELSE {[release.files[f] EXCEPT ![r] = {v}] : r \in Regions} \cup {Absent}) :
        release' = [version |-> v, files |-> [release.files EXCEPT ![f] = c]]
  BY DEF Publish
<1>4. c \in FileContent /\ ~Marked(c)
  <2>1. CASE release.files[f] = Absent
    BY <1>2, <1>3, <2>1, PlainFile DEF FileContent
  <2>2. CASE c = Absent
    BY <2>2 DEF FileContent, Marked
  <2>3. CASE release.files[f] # Absent /\ c # Absent
    <3>1. PICK r \in Regions : c = [release.files[f] EXCEPT ![r] = {v}]
      BY <1>3, <2>3
    <3>2. release.files[f] \in Content /\ ~Marked(release.files[f])
      BY <1>1, <2>3 DEF FileContent, MarkedFiles
    <3> QED
      BY <1>2, <3>1, <3>2, OneLine DEF FileContent
  <2> QED
    BY <2>1, <2>2, <2>3
<1> HIDE DEF v
<1>5. /\ release' \in [version: 1..MaxRelease, files: [Files -> FileContent]]
      /\ \A g \in Files : release'.files[g] = IF g = f THEN c ELSE release.files[g]
  BY <1>1, <1>2, <1>3, <1>4
<1>6. MarkedFiles(release') = {}
  BY <1>1, <1>4, <1>5 DEF MarkedFiles
<1>7. run' = IdleRun
  BY DEF Inv, RunShape, Idle, Publish, Finishing
<1>8. TypeOK'
  BY <1>5 DEF Inv, TypeOK, Publish, FileContent
<1>9. Unversioned'
  BY DEF Inv, Unversioned, Publish
<1> QED
  BY <1>6, <1>7, <1>8, <1>9, NoRun DEF Inv

-----------------------------------------------------------------------------
(* A process begins *)

LEMMA Begun ==
  ASSUME Inv, NEW cmd \in {"update", "init", "add"}, NEW rs \in SUBSET Files,
         NEW cs \in SUBSET CompFiles, NEW legacy \in BOOLEAN, Begin(cmd, rs, cs, legacy),
         work' \in Tree, work'.files = work.files, work'.marker = work.marker,
         work'.projx = Absent => work.projx = Absent,
         ops' \in 0..MaxOps, UNCHANGED <<release, index, head, baseline, projxCommit>>,
         cmd # "add" => Clean /\ MarkedFiles(work) = {},
         head.projx # Absent /\ head.projx.defaults => ~legacy,
         work.marker # Absent => cs \subseteq work.marker
  PROVE  Inv'
<1>1. /\ run' \in RunRecord /\ tmpBranch' \in BOOLEAN /\ run'.pc = "tier1" /\ run'.cmd = cmd
      /\ run'.rootSkip = rs /\ run'.compSkip = cs /\ run'.legacy = legacy
      /\ run'.todo = {} /\ run'.merged = {} /\ run'.conflicted = {}
  BY DEF Begin, IdleRun, RunRecord, Pcs
<1>2. MarkedFiles(work') = MarkedFiles(work) /\ MarkedFiles(release') = {}
  BY DEF MarkedFiles, Inv
<1>3. TypeOK'
  BY <1>1 DEF Inv, TypeOK, RunRecord
<1>4. RunShape'
  BY <1>1 DEF RunShape, Finishing
<1>5. Unversioned'
  BY <1>2 DEF Inv, Unversioned
<1>6. FromClean'
  BY <1>1, <1>2 DEF FromClean, AsksForClean, Clean, Tiers, Finishing
<1>7. SkipsHold' /\ DefaultsDue' /\ SuccessLeavesCleanTree'
  BY <1>1 DEF SkipsHold, DefaultsDue, SuccessLeavesCleanTree
<1> QED
  BY <1>2, <1>3, <1>4, <1>5, <1>6, <1>7 DEF Inv

LEMMA UpdateKeeps ==
  ASSUME Inv, Update
  PROVE  Inv'
<1>1. /\ work \in Tree /\ work.marker \in SUBSET CompFiles /\ Clean /\ head = work
      /\ work.projx \in Projx \cup {Absent}
  BY Typed, TreeParts DEF Inv, Update, Clean
<1>2. MarkedFiles(work) = {}
  BY DEF Update, Clean, PendingConflicts, MarkedFiles, Marked, Present
<1>3. work.projx # Absent => /\ work.projx.skip \in SUBSET Files /\ work.projx.defaults \in BOOLEAN
                             /\ [work.projx EXCEPT !.pm = TRUE] \in Projx
  BY <1>1, ProjxParts
<1> DEFINE rs == IF work.projx = Absent THEN {} ELSE work.projx.skip
           legacy == work.projx = Absent \/ ~work.projx.defaults
<1>4. rs \in SUBSET Files /\ legacy \in BOOLEAN
  BY <1>3
<1>5. /\ work' \in Tree /\ work'.files = work.files /\ work'.marker = work.marker
      /\ work'.projx = Absent => work.projx = Absent
  <2>1. CASE UNCHANGED work
    BY <1>1, <2>1
  <2>2. CASE \E p \in Projx : work' = [work EXCEPT !.projx = p]
    <3>1. PICK p \in Projx : work' = [work EXCEPT !.projx = p]
      BY <2>2
    <3>2. IsTree(work', work.files, p, work.marker)
      BY <1>1, <3>1, TreeWith, TreeParts
    <3> QED
      BY <3>2, AbsentAssumption DEF IsTree
  <2>3. [version |-> 0, skip |-> {}, defaults |-> FALSE, pm |-> TRUE] \in Projx
    BY ConstantsAssumption DEF Projx
  <2>4. work.projx # Absent /\ work' = [work EXCEPT !.projx.pm = TRUE] =>
          \E p \in Projx : work' = [work EXCEPT !.projx = p]
    BY <1>3
  <2> QED
    BY <2>1, <2>2, <2>3, <2>4 DEF Update
<1>6. Begin("update", rs, work.marker, legacy) /\ ops' \in 0..MaxOps
  BY Stepped DEF Update, Inv
<1>7. UNCHANGED <<release, index, head, baseline, projxCommit>>
  BY DEF Update
<1>8. head.projx # Absent /\ head.projx.defaults => ~legacy
  BY <1>1
<1> HIDE DEF rs, legacy
<1> QED
  BY <1>1, <1>2, <1>4, <1>5, <1>6, <1>7, <1>8, Begun

LEMMA InitProjectKeeps ==
  ASSUME Inv, InitProject
  PROVE  Inv'
<1>1. work \in Tree /\ Clean /\ work.projx = Absent /\ UNCHANGED work
  BY Typed DEF Inv, InitProject
<1>2. MarkedFiles(work) = {} /\ head.projx = Absent
  BY <1>1 DEF Inv, Unversioned
<1>3. Begin("init", {}, {}, TRUE) /\ ops' \in 0..MaxOps
  BY Stepped DEF InitProject, Inv
<1>4. UNCHANGED <<release, index, head, baseline, projxCommit>>
  BY DEF InitProject
<1> QED
  BY <1>1, <1>2, <1>3, <1>4, Begun

LEMMA AddInstanceKeeps ==
  ASSUME Inv, AddInstance
  PROVE  Inv'
<1> DEFINE cs == IF work.marker = Absent THEN {} ELSE work.marker
<1>1. work \in Tree /\ work.projx \in Projx /\ UNCHANGED work /\ cs \in SUBSET CompFiles
  BY Typed, TreeParts DEF Inv, AddInstance
<1>2. work.projx.skip \in SUBSET Files
  BY <1>1, ProjxParts
<1>3. Begin("add", work.projx.skip, cs, FALSE) /\ ops' \in 0..MaxOps
  BY Stepped DEF AddInstance, Inv
<1>4. UNCHANGED <<release, index, head, baseline, projxCommit>>
  BY DEF AddInstance
<1>5. work.marker # Absent => cs \subseteq work.marker
  OBVIOUS
<1> HIDE DEF cs
<1> QED
  BY <1>1, <1>2, <1>3, <1>4, <1>5, Begun

-----------------------------------------------------------------------------
(* The first tier *)

\* git merge of the template's tree: what neither side has stays as it is.
LEMMA Overlaid ==
  ASSUME NEW t \in Tree, NEW over \in Tree
  PROVE  /\ Overlay(t, over) \in Tree
         /\ Overlay(t, over).projx = over.projx /\ Overlay(t, over).marker = over.marker
         /\ \A f \in Files : Overlay(t, over).files[f] =
              IF over.files[f] = Absent THEN t.files[f] ELSE over.files[f]
<1> DEFINE F == [f \in Files |-> IF over.files[f] = Absent THEN t.files[f] ELSE over.files[f]]
<1>1. \A f \in Files : over.files[f] \in FileContent /\ t.files[f] \in FileContent
  BY TreeParts
<1>2. F \in [Files -> FileContent]
  BY <1>1
<1>3. Overlay(t, over) = [files |-> F, projx |-> over.projx, marker |-> over.marker]
  BY DEF Overlay
<1>4. \A f \in Files : F[f] = IF over.files[f] = Absent THEN t.files[f] ELSE over.files[f]
  OBVIOUS
<1> HIDE DEF F
<1>5. Overlay(t, over) \in Tree
  BY <1>2, <1>3, TreeOf, TreeParts
<1>6. /\ Overlay(t, over).files = F /\ Overlay(t, over).projx = over.projx
      /\ Overlay(t, over).marker = over.marker
  BY <1>3
<1> QED
  BY <1>4, <1>5, <1>6

\* Migrating the markers of a tree that has the template's changes nothing.
LEMMA MarkerMigrated ==
  ASSUME NEW real, NEW cs, NEW legacy \in BOOLEAN
  PROVE  MigratedMarker(InstanceSkip(real, cs, legacy), legacy) = InstanceSkip(real, cs, legacy)
  BY DEF MigratedMarker, InstanceSkip

\* The merge commit.
LEMMA Tier1MergeEffect ==
  ASSUME Inv, Tier1Merge
  PROVE  /\ head' = Overlay(head, Theirs) /\ index' = head' /\ work' = head' /\ head' \in Tree
         /\ Clean /\ projxCommit' = Theirs /\ UNCHANGED <<release, baseline, ops>>
<1>1. Theirs \in Tree /\ Theirs.marker = InstanceSkip(work, run.compSkip, run.legacy) /\ head \in Tree
  BY TheirsTyped, Typed DEF Inv
<1>2. Overlay(head, Theirs) \in Tree /\ Overlay(head, Theirs).marker = Theirs.marker
  BY <1>1, Overlaid
<1>3. run.legacy \in BOOLEAN
  BY Typed, RunParts DEF Inv
<1>4. MigratedMarker(Overlay(head, Theirs).marker, run.legacy) = Overlay(head, Theirs).marker
  BY <1>1, <1>2, <1>3, MarkerMigrated
<1>5. \A t \in Tree : [t EXCEPT !.marker = t.marker] = t
  BY DEF Tree
<1>6. work' = [Overlay(head, Theirs) EXCEPT !.marker = Overlay(head, Theirs).marker]
  BY <1>4 DEF Tier1Merge
<1> QED
  BY <1>2, <1>5, <1>6 DEF Tier1Merge, OrphanMerges

LEMMA Tier1MergeKeeps ==
  ASSUME Inv, Tier1Merge
  PROVE  Inv'
<1>1. /\ head' = Overlay(head, Theirs) /\ index' = head' /\ work' = head' /\ head' \in Tree
      /\ Clean /\ projxCommit' = Theirs /\ UNCHANGED <<release, baseline, ops>>
  BY Tier1MergeEffect
<1>2. /\ Theirs \in Tree /\ Theirs.projx # Absent /\ Theirs.projx.version = release.version
      /\ \A f \in Files : Theirs.files[f] \in {release.files[f], Absent}
  BY TheirsTyped DEF Inv
<1>3. /\ head'.projx = Theirs.projx
      /\ \A f \in Files : head'.files[f] = IF Theirs.files[f] = Absent THEN head.files[f] ELSE Theirs.files[f]
  BY <1>1, <1>2, Overlaid, Typed DEF Inv
<1>4. /\ run' = [run EXCEPT !.pc = "save"] /\ run \in RunRecord /\ run.pc = "tier1" /\ tmpBranch' = FALSE
  BY Typed DEF Inv, Tier1Merge
<1>5. /\ run' \in RunRecord /\ run'.pc = "save" /\ run'.cmd = run.cmd /\ run'.todo = run.todo
  BY <1>4, RunAt DEF IsRun, Pcs
<1>6. run.todo = {} /\ run.cmd # "none"
  BY <1>4 DEF Inv, RunShape, Finishing
<1>7. TypeOK'
  BY <1>1, <1>2, <1>4, <1>5 DEF Inv, TypeOK, RunRecord
<1>8. RunShape'
  BY <1>1, <1>2, <1>3, <1>5, <1>6 DEF RunShape, Finishing
<1>9. Unversioned'
  BY <1>1, <1>2, <1>3 DEF Unversioned
<1>10. FromClean' /\ SkipsHold' /\ DefaultsDue'
  BY <1>5 DEF FromClean, SkipsHold, DefaultsDue, Tiers, Finishing
<1>11. SuccessLeavesCleanTree'
  <2> SUFFICES ASSUME run.cmd # "add"
               PROVE  Clean' /\ MarkedFiles(head') = {} /\ head'.projx.version = release'.version
    BY <1>5 DEF SuccessLeavesCleanTree
  <2>1. MarkedFiles(head) = {} /\ MarkedFiles(release) = {}
    BY <1>4, <1>6, RunParts DEF Inv, FromClean, AsksForClean, Tiers, Finishing
  <2>2. MarkedFiles(head') = {}
    BY <1>2, <1>3, <2>1 DEF MarkedFiles
  <2>3. Clean'
    BY <1>1 DEF Clean
  <2> QED
    BY <1>1, <1>2, <1>3, <2>2, <2>3
<1>12. MarkedFiles(release') = {}
  BY <1>1 DEF Inv
<1> QED
  BY <1>7, <1>8, <1>9, <1>10, <1>11, <1>12 DEF Inv

LEMMA SkippedKept ==
  ASSUME head' = head, run'.rootSkip = run.rootSkip, run'.compSkip = run.compSkip,
         run'.legacy = run.legacy
  PROVE  Skipped' = Skipped
  BY DEF Skipped

LEMMA Tier1AbortKeeps ==
  ASSUME Inv, Tier1Abort
  PROVE  Inv'
<1> DEFINE pc == IF BaselineRef # Absent THEN "tier2" ELSE "tier3"
           dest == IF BaselineRef # Absent THEN EmptyTree ELSE work
           T == {f \in Files : Writes(f, dest, work, run.rootSkip, run.compSkip, run.legacy)}
<1>1. /\ run \in RunRecord /\ run.pc = "tier1" /\ tmpBranch' = FALSE
      /\ UNCHANGED <<release, work, index, head, baseline, projxCommit, ops>>
  BY Typed DEF Inv, Tier1Abort
<1>2. work \in Tree /\ head \in Tree
  BY Typed DEF Inv
<1>3. pc \in Pcs /\ T \in SUBSET Files
  BY DEF Pcs
<1>4. \A f \in T : /\ release.files[f] # Absent
                   /\ run.cmd = "add" => f \in RootFiles
                   /\ \/ f \in Static \/ work.files[f] = Absent
                      \/ f \notin run.rootSkip \cup InstanceSkip(work, run.compSkip, run.legacy)
  BY WritesTemplate
<1>5. Present(Theirs) = {f \in Files : Writes(f, EmptyTree, work, run.rootSkip, run.compSkip, run.legacy)}
  BY TheirsTyped, WritesTemplate DEF Inv, Present
<1>6. run' = [run EXCEPT !.pc = pc, !.todo = T]
  BY <1>5 DEF Tier1Abort
<1>7. BaselineRef' = BaselineRef /\ (pc = "tier2" => BaselineRef # Absent) /\ pc \in {"tier2", "tier3"}
  BY <1>1 DEF BaselineRef
<1> HIDE DEF pc, T, dest
<1>8. IsRun(run', run, pc, T, run.merged, run.conflicted)
  BY <1>1, <1>3, <1>6, RunWith
<1>9. Skipped' = Skipped
  BY <1>1, <1>8, SkippedKept DEF IsRun
<1>10. run.merged = {} /\ run.conflicted = {} /\ run.cmd # "none"
  BY <1>1 DEF Inv, RunShape, Finishing
<1>11. \A f \in T : f \in Static \/ f \notin Skipped \/ work.files[f] = Absent
  <2>1. CASE run.cmd = "add"
    <3>1. InstanceSkip(head, run.compSkip, run.legacy) \in SUBSET CompFiles
      BY <1>1, <1>2, SkipTyped, RunParts
    <3> QED
      BY <1>4, <2>1, <3>1, ConstantsAssumption DEF Skipped
  <2>2. CASE run.cmd # "add"
    <3>1. work.marker = head.marker
      BY <1>1, <1>10, <2>2, RunParts DEF Inv, FromClean, AsksForClean, Tiers, Finishing
    <3>2. InstanceSkip(head, run.compSkip, run.legacy) = InstanceSkip(work, run.compSkip, run.legacy)
      BY <3>1 DEF InstanceSkip
    <3> QED
      BY <1>4, <3>2 DEF Skipped
  <2> QED
    BY <2>1, <2>2
<1>12. TypeOK'
  BY <1>1, <1>8 DEF Inv, TypeOK, RunRecord, IsRun
<1>13. RunShape'
  BY <1>1, <1>3, <1>4, <1>7, <1>8, <1>10 DEF RunShape, IsRun, Present, Finishing
<1>14. Unversioned' /\ MarkedFiles(release') = {}
  BY <1>1 DEF Inv, Unversioned
<1>15. FromClean'
  BY <1>1, <1>7, <1>8, <1>10, <1>3 DEF Inv, FromClean, AsksForClean, Tiers, Finishing, IsRun
<1>16. SkipsHold'
  BY <1>1, <1>8, <1>9, <1>10, <1>11 DEF SkipsHold, IsRun
<1>17. DefaultsDue'
  BY <1>1, <1>8 DEF Inv, DefaultsDue, IsRun, Tiers, Finishing
<1>18. SuccessLeavesCleanTree'
  BY <1>7, <1>8 DEF SuccessLeavesCleanTree, IsRun
<1> QED
  BY <1>12, <1>13, <1>14, <1>15, <1>16, <1>17, <1>18 DEF Inv

-----------------------------------------------------------------------------
(* The second and third tier, path by path *)

\* The paths S of the list are written; C is the list of conflicts afterwards.
LEMMA PathsWritten ==
  ASSUME Inv, run.pc \in {"tier2", "tier3"}, NEW S \in SUBSET run.todo, NEW M, NEW C,
         IsRun(run', run, run.pc, run.todo \ S, M, C),
         work' \in Tree, work'.projx = work.projx,
         work'.marker # Absent => run.compSkip \subseteq work'.marker,
         \A g \in Files \ S : work'.files[g] = work.files[g],
         run.conflicted \subseteq C, C \subseteq run.conflicted \cup S,
         \A g \in S : Marked(work'.files[g]) => g \in C /\ work.projx # Absent,
         \A g \in S : g \in C => g \in run.conflicted \/ work.files[g] # Absent,
         run.pc = "tier2" => M \subseteq Present(work'),
         UNCHANGED <<release, index, head, baseline, projxCommit, tmpBranch, ops>>
  PROVE  Inv'
<1>1. run \in RunRecord /\ run.todo \in SUBSET Files
  BY Typed, RunParts DEF Inv
<1>2. Skipped' = Skipped
  BY SkippedKept DEF IsRun
<1>3. TypeOK'
  BY DEF Inv, TypeOK, RunRecord, IsRun
<1>4. RunShape'
  BY DEF Inv, RunShape, IsRun, BaselineRef, Present, Finishing
<1>5. Unversioned' /\ MarkedFiles(release') = {}
  <2>1. work.projx = Absent /\ MarkedFiles(work) = {} => MarkedFiles(work') = {}
    BY DEF MarkedFiles
  <2> QED
    BY <2>1 DEF Inv, Unversioned
<1>6. FromClean'
  <2>1. ASSUME AsksForClean, run.pc \in Tiers
        PROVE  /\ index' = head' /\ MarkedFiles(head') = {} /\ MarkedFiles(work') \subseteq C
               /\ \A f \in Files : f \in run.todo \ S => work'.files[f] = head'.files[f]
    <3>1. /\ index = head /\ MarkedFiles(head) = {} /\ MarkedFiles(work) \subseteq run.conflicted
          /\ \A f \in run.todo : work.files[f] = head.files[f]
      BY <1>1, <2>1 DEF Inv, FromClean
    <3>2. MarkedFiles(work') \subseteq C
      BY <3>1 DEF MarkedFiles
    <3> QED
      BY <3>1, <3>2
  <2>2. ASSUME run.cmd = "update" PROVE C \subseteq Present(index)'
    <3>1. /\ index = head /\ run.conflicted \subseteq Present(index)
          /\ \A f \in run.todo : work.files[f] = head.files[f]
      BY <1>1, <2>2 DEF Inv, FromClean, AsksForClean, Tiers, Finishing
    <3>2. \A g \in S : g \in C => g \in Present(index)
      BY <1>1, <3>1 DEF Present
    <3> QED
      BY <3>1, <3>2 DEF Present
  <2> QED
    BY <2>1, <2>2 DEF FromClean, AsksForClean, IsRun, Tiers, Finishing
<1>7. SkipsHold'
  <2>1. /\ \A f \in run.todo : f \in Static \/ f \notin Skipped \/ work.files[f] = Absent
        /\ run.conflicted \cap Skipped \subseteq Static
    BY DEF Inv, SkipsHold, Tiers, Finishing
  <2>2. \A f \in run.todo \ S : f \in Static \/ f \notin Skipped \/ work'.files[f] = Absent
    BY <1>1, <2>1
  <2>3. C \cap Skipped \subseteq Static
    BY <2>1
  <2> QED
    BY <1>2, <2>2, <2>3 DEF SkipsHold, IsRun
<1>8. DefaultsDue'
  BY DEF Inv, DefaultsDue, IsRun, Tiers, Finishing
<1>9. SuccessLeavesCleanTree'
  BY DEF SuccessLeavesCleanTree, IsRun
<1> QED
  BY <1>3, <1>4, <1>5, <1>6, <1>7, <1>8, <1>9 DEF Inv

\* One path of the second tier: the new content, and what becomes of it.
LEMMA Tier2FileEffect ==
  ASSUME Inv, NEW f \in Files, Tier2File(f)
  PROVE  LET new == ThreeWay(work.files[f], BaselineRef.files[f], release.files[f])
         IN  /\ work' \in Tree /\ work'.projx = work.projx /\ work'.marker = work.marker
             /\ work'.files[f] = new /\ new \in Content
             /\ \A g \in Files \ {f} : work'.files[g] = work.files[g]
             /\ work.files[f] = Absent => ~Marked(new)
             /\ work.files[f] # Absent => \A r \in Regions :
                  \/ BaselineRef.files[f] # Absent /\ work.files[f][r] = BaselineRef.files[f][r]
                  \/ work.files[f][r] \subseteq new[r]
<1> DEFINE new == ThreeWay(work.files[f], BaselineRef.files[f], release.files[f])
<1>1. f \in run.todo /\ run.pc = "tier2" /\ work' = WithFile(work, f, new)
  BY DEF Tier2File, WithFile
<1>2. BaselineRef # Absent /\ release.files[f] # Absent
  BY <1>1 DEF Inv, RunShape, Present, Finishing
<1>3. BaselineRef \in Tree
  BY <1>2, Typed DEF Inv, BaselineRef
<1>4. work \in Tree /\ work.files[f] \in FileContent /\ BaselineRef.files[f] \in FileContent
  BY <1>3, Typed, TreeParts DEF Inv
<1>5. release.files[f] \in Content /\ ~Marked(release.files[f])
  BY <1>2, Typed DEF Inv, FileContent, MarkedFiles
<1>6. /\ new \in Content
      /\ work.files[f] = Absent => new = release.files[f]
      /\ work.files[f] # Absent => \A r \in Regions :
           \/ BaselineRef.files[f] # Absent /\ work.files[f][r] = BaselineRef.files[f][r]
           \/ work.files[f][r] \subseteq new[r]
  BY <1>4, <1>5, MergedFile
<1> HIDE DEF new
<1>7. /\ work' \in Tree /\ work'.projx = work.projx /\ work'.marker = work.marker
      /\ work'.files[f] = new /\ \A g \in Files \ {f} : work'.files[g] = work.files[g]
  BY <1>1, <1>4, <1>6, FileWritten DEF FileContent
<1> QED
  BY <1>5, <1>6, <1>7 DEF new

LEMMA Tier2FileKeeps ==
  ASSUME Inv, NEW f \in Files, Tier2File(f)
  PROVE  Inv'
<1> DEFINE S == {f}
           new == ThreeWay(work.files[f], BaselineRef.files[f], release.files[f])
           M == IF new # work.files[f] /\ ~Marked(new) THEN run.merged \cup {f} ELSE run.merged
           C == IF Marked(new) THEN run.conflicted \cup {f} ELSE run.conflicted
<1>1. /\ run.pc = "tier2" /\ f \in run.todo
      /\ run' = [run EXCEPT !.todo = run.todo \ {f}, !.merged = M, !.conflicted = C]
      /\ UNCHANGED <<release, index, head, baseline, projxCommit, tmpBranch, ops>>
  BY DEF Tier2File
<1>2. run \in RunRecord /\ M \in SUBSET Files /\ C \in SUBSET Files /\ run.todo \ {f} \in SUBSET Files
  BY Typed, RunParts DEF Inv
<1>3. /\ work' \in Tree /\ work'.projx = work.projx /\ work'.marker = work.marker
      /\ work'.files[f] = new
      /\ \A g \in Files \ {f} : work'.files[g] = work.files[g]
      /\ work.files[f] = Absent => ~Marked(new)
      /\ new # Absent
  BY Tier2FileEffect, AbsentAssumption
<1> HIDE DEF new
<1>4. /\ run.conflicted \subseteq C /\ C \subseteq run.conflicted \cup {f}
      /\ Marked(new) => f \in C
      /\ f \in C => f \in run.conflicted \/ work.files[f] # Absent
  BY <1>3
<1>9. M \subseteq Present(work')
  <2>1. run.merged \subseteq Present(work)
    BY <1>1 DEF Inv, RunShape, Finishing
  <2> QED
    BY <1>3, <2>1 DEF Present
<1> HIDE DEF M, C
<1>5. IsRun(run', run, run.pc, run.todo \ {f}, M, C)
  BY <1>1, <1>2, RunMerged
<1>6. work.projx # Absent
  BY <1>1 DEF Inv, RunShape, Unversioned, BaselineRef, Finishing
<1>7. work.marker # Absent => run.compSkip \subseteq work.marker
  BY <1>1 DEF Inv, DefaultsDue, Tiers, Finishing
<1>8. /\ S \in SUBSET run.todo /\ run.pc \in {"tier2", "tier3"}
      /\ work' \in Tree /\ work'.projx = work.projx
      /\ work'.marker # Absent => run.compSkip \subseteq work'.marker
      /\ run.conflicted \subseteq C
      /\ IsRun(run', run, run.pc, run.todo \ S, M, C)
      /\ \A g \in Files \ S : work'.files[g] = work.files[g]
      /\ C \subseteq run.conflicted \cup S
      /\ \A g \in S : Marked(work'.files[g]) => g \in C /\ work.projx # Absent
      /\ \A g \in S : g \in C => g \in run.conflicted \/ work.files[g] # Absent
  BY <1>1, <1>3, <1>4, <1>5, <1>6, <1>7
<1>10. UNCHANGED <<release, index, head, baseline, projxCommit, tmpBranch, ops>>
  BY DEF Tier2File
<1> HIDE DEF S
<1> QED
  BY <1>8, <1>9, <1>10, PathsWritten

\* The third tier writes the template's file over the project's.
LEMMA Overwritten ==
  ASSUME Inv, run.pc = "tier3", NEW S \in SUBSET run.todo, run' = [run EXCEPT !.todo = run.todo \ S],
         work' \in Tree, work'.projx = work.projx,
         work'.marker # Absent => run.compSkip \subseteq work'.marker,
         \A g \in Files : work'.files[g] = IF g \in S THEN release.files[g] ELSE work.files[g],
         UNCHANGED <<release, index, head, baseline, projxCommit, tmpBranch, ops>>
  PROVE  Inv'
<1>1. run \in RunRecord /\ run.todo \ S \in SUBSET Files /\ S \subseteq Files /\ run.pc \in Pcs
  BY Typed, RunParts DEF Inv
<1>2. IsRun(run', run, run.pc, run.todo \ S, run.merged, run.conflicted)
  BY <1>1, RunWith
<1>3. \A g \in S : ~Marked(work'.files[g])
  BY <1>1 DEF Inv, MarkedFiles
<1> QED
  BY <1>1, <1>2, <1>3, PathsWritten

LEMMA Tier3InstanceKeeps ==
  ASSUME Inv, Tier3Instance
  PROVE  Inv'
<1> DEFINE S == run.todo \cap CompFiles
           F == [f \in Files |-> IF f \in S THEN release.files[f] ELSE work.files[f]]
           m == InstanceSkip(work, run.compSkip, run.legacy)
<1>1. /\ work \in Tree /\ run \in RunRecord /\ run.compSkip \in SUBSET CompFiles /\ run.legacy \in BOOLEAN
      /\ \A f \in Files : release.files[f] \in FileContent /\ work.files[f] \in FileContent
  BY Typed, RunParts, TreeParts DEF Inv
<1>2. F \in [Files -> FileContent] /\ \A f \in Files : F[f] = IF f \in S THEN release.files[f] ELSE work.files[f]
  BY <1>1
<1>3. m \in SUBSET CompFiles /\ run.compSkip \subseteq m
  BY <1>1, SkipTyped DEF InstanceSkip
<1>4. work' = [work EXCEPT !.files = F, !.marker = m]
  BY DEF Tier3Instance
<1>5. run.todo \ CompFiles = run.todo \ S
  OBVIOUS
<1>6. run.pc = "tier3" /\ run' = [run EXCEPT !.todo = run.todo \ S]
  BY <1>5 DEF Tier3Instance
<1>7. UNCHANGED <<release, index, head, baseline, projxCommit, tmpBranch, ops>>
  BY DEF Tier3Instance
<1>8. S \in SUBSET run.todo
  OBVIOUS
<1> HIDE DEF S, F, m
<1>9. IsTree(work', F, work.projx, m)
  BY <1>1, <1>2, <1>3, <1>4, TreeWith, TreeParts
<1> QED
  BY <1>2, <1>3, <1>6, <1>7, <1>8, <1>9, Overwritten DEF IsTree

LEMMA Tier3FileKeeps ==
  ASSUME Inv, NEW f \in Files, Tier3File(f)
  PROVE  Inv'
<1>1. work \in Tree /\ release.files[f] \in FileContent
  BY Typed DEF Inv
<1>2. /\ work' \in Tree /\ work'.projx = work.projx /\ work'.marker = work.marker
      /\ work'.files[f] = release.files[f] /\ \A g \in Files \ {f} : work'.files[g] = work.files[g]
  <2>1. work' = WithFile(work, f, release.files[f])
    BY DEF Tier3File, WithFile
  <2> QED
    BY <1>1, <2>1, FileWritten
<1>3. work.marker # Absent => run.compSkip \subseteq work.marker
  BY DEF Inv, DefaultsDue, Tiers, Finishing, Tier3File
<1>4. {f} \in SUBSET run.todo /\ run' = [run EXCEPT !.todo = run.todo \ {f}] /\ run.pc = "tier3"
  BY DEF Tier3File
<1>5. UNCHANGED <<release, index, head, baseline, projxCommit, tmpBranch, ops>>
  BY DEF Tier3File
<1> QED
  BY <1>2, <1>3, <1>4, <1>5, Overwritten

-----------------------------------------------------------------------------
(* The end of a run *)

\* A step of the second tier after its last path, towards the index.
LEMMA FinishingKeeps ==
  ASSUME Inv, run.pc \in {"tier2", "manage"}, run.todo = {}, NEW pc \in Finishing,
         IsRun(run', run, pc, run.todo, run.merged, run.conflicted),
         work' \in Tree, work'.files = work.files,
         pc = "manage" => work'.projx = work.projx,
         pc = "stage" => work'.projx # Absent /\ work'.projx.version = release.version,
         UNCHANGED <<release, index, head, baseline, projxCommit, tmpBranch, ops>>
  PROVE  Inv'
<1>1. pc \in {"manage", "stage"} /\ pc \in Pcs
  BY DEF Finishing, Pcs
<1>2. TypeOK'
  BY DEF Inv, TypeOK, RunRecord, IsRun
<1>3. MarkedFiles(work') = MarkedFiles(work) /\ Present(work') = Present(work)
  BY DEF MarkedFiles, Present
<1>4. RunShape'
  BY <1>1, <1>3 DEF Inv, RunShape, IsRun, Finishing
<1>5. Unversioned' /\ MarkedFiles(release') = {}
  BY <1>1, <1>3 DEF Inv, Unversioned
<1>6. FromClean'
  BY <1>1, <1>3 DEF Inv, FromClean, AsksForClean, IsRun, Tiers, Finishing, Present
<1>7. Skipped' = Skipped
  BY SkippedKept DEF IsRun
<1>8. SkipsHold'
  BY <1>1, <1>7 DEF Inv, SkipsHold, IsRun, Tiers, Finishing
<1>9. DefaultsDue' /\ SuccessLeavesCleanTree'
  BY <1>1 DEF DefaultsDue, SuccessLeavesCleanTree, IsRun, Tiers, Finishing
<1> QED
  BY <1>2, <1>4, <1>5, <1>6, <1>8, <1>9 DEF Inv

\* migrateComponentMarkers leaves a marker that has the defaults as it is.
LEMMA Tier2MigrateEffect ==
  ASSUME TypeOK, Tier2Migrate
  PROVE  /\ work' \in Tree /\ work'.files = work.files /\ work'.projx = work.projx
         /\ work.marker # Absent /\ ~run.legacy => work'.marker = work.marker
<1> DEFINE m == MigratedMarker(IF work.marker = Absent THEN Theirs.marker ELSE work.marker, run.legacy)
<1>1. run.legacy \in BOOLEAN /\ work \in Tree
  BY Typed, RunParts
<1>2. m \in (SUBSET CompFiles) \cup {Absent}
  BY <1>1, TheirsTyped, TreeParts, ConstantsAssumption DEF MigratedMarker
<1>3. work.marker # Absent /\ ~run.legacy => m = work.marker
  BY DEF MigratedMarker
<1>4. work' = [work EXCEPT !.marker = m]
  BY DEF Tier2Migrate
<1> HIDE DEF m
<1>5. IsTree(work', work.files, work.projx, m)
  BY <1>1, <1>2, <1>4, TreeWith, TreeParts
<1> QED
  BY <1>3, <1>5 DEF IsTree

LEMMA Tier2ManageEffect ==
  ASSUME TypeOK, Tier2Manage
  PROVE  /\ work' \in Tree /\ work'.files = work.files /\ work'.marker = work.marker
         /\ work'.projx # Absent /\ work'.projx.version = release.version
<1> DEFINE p == ManagedProjx(work.projx, run.legacy)
<1>1. run.legacy \in BOOLEAN /\ work \in Tree /\ work.projx \in Projx \cup {Absent}
  BY Typed, RunParts, TreeParts
<1>2. p \in Projx /\ p # Absent /\ p.version = release.version
  BY <1>1, ProjxWritten
<1>3. work' = [work EXCEPT !.projx = p]
  BY DEF Tier2Manage
<1> HIDE DEF p
<1>4. IsTree(work', work.files, p, work.marker)
  BY <1>1, <1>2, <1>3, TreeWith, TreeParts
<1> QED
  BY <1>2, <1>4 DEF IsTree

LEMMA Tier2MigrateKeeps ==
  ASSUME Inv, Tier2Migrate \/ Tier2Manage
  PROVE  Inv'
<1>1. TypeOK /\ run \in RunRecord
  BY Typed DEF Inv
<1>2. CASE Tier2Migrate
  <2>1. IsRun(run', run, "manage", run.todo, run.merged, run.conflicted)
    BY <1>1, <1>2, RunAt DEF Tier2Migrate, Pcs
  <2>2. run.pc = "tier2" /\ run.todo = {} /\ "manage" \in Finishing
    BY <1>2 DEF Tier2Migrate, Finishing
  <2>3. UNCHANGED <<release, index, head, baseline, projxCommit, tmpBranch, ops>>
    BY <1>2 DEF Tier2Migrate
  <2> QED
    BY <1>1, <1>2, <2>1, <2>2, <2>3, Tier2MigrateEffect, FinishingKeeps
<1>3. CASE Tier2Manage
  <2>1. IsRun(run', run, "stage", run.todo, run.merged, run.conflicted)
    BY <1>1, <1>3, RunAt DEF Tier2Manage, Pcs
  <2>2. run.pc = "manage" /\ run.todo = {} /\ "stage" \in Finishing
    BY <1>3 DEF Tier2Manage, Finishing, Inv, RunShape
  <2>3. UNCHANGED <<release, index, head, baseline, projxCommit, tmpBranch, ops>>
    BY <1>3 DEF Tier2Manage
  <2> QED
    BY <1>1, <1>3, <2>1, <2>2, <2>3, Tier2ManageEffect, FinishingKeeps
<1> QED
  BY <1>2, <1>3

LEMMA Tier2AddAllKeeps ==
  ASSUME Inv, Tier2AddAll
  PROVE  Inv'
<1>1. /\ TypeOK /\ work \in Tree /\ run \in RunRecord /\ run.pc = "stage" /\ run.conflicted = {}
      /\ index' = work /\ UNCHANGED <<release, work, head, baseline, projxCommit, tmpBranch, ops>>
  BY Typed DEF Inv, Tier2AddAll
<1>2. IsRun(run', run, "commit", run.todo, run.merged, run.conflicted)
  BY <1>1, RunAt DEF Tier2AddAll, Pcs
<1>3. TypeOK'
  BY <1>1, <1>2 DEF Inv, TypeOK, RunRecord, IsRun
<1>4. AsksForClean => MarkedFiles(work) = {}
  BY <1>1 DEF Inv, FromClean, Finishing
<1>5. AsksForClean' <=> AsksForClean
  BY <1>2 DEF AsksForClean, IsRun
<1>6. MarkedFiles(work') = MarkedFiles(work)
  BY <1>1 DEF MarkedFiles
<1>7. RunShape'
  BY <1>1, <1>2, <1>4, <1>5, <1>6 DEF Inv, RunShape, IsRun, Finishing
<1>8. Unversioned' /\ MarkedFiles(release') = {}
  BY <1>1 DEF Inv, Unversioned
<1>9. FromClean' /\ SkipsHold' /\ DefaultsDue' /\ SuccessLeavesCleanTree'
  BY <1>2 DEF FromClean, SkipsHold, DefaultsDue, SuccessLeavesCleanTree, IsRun, Tiers, Finishing
<1> QED
  BY <1>3, <1>7, <1>8, <1>9 DEF Inv

LEMMA Tier2CommitKeeps ==
  ASSUME Inv, Tier2Commit
  PROVE  Inv'
<1>1. TypeOK /\ work \in Tree /\ run \in RunRecord
  BY Typed DEF Inv
<1>2. /\ run.pc = "commit" /\ run.todo = {} /\ index = work
      /\ work.projx # Absent /\ work.projx.version = release.version
      /\ AsksForClean => MarkedFiles(work) = {}
  BY DEF Tier2Commit, Inv, RunShape, Finishing
<1>3. head' = work /\ UNCHANGED <<release, work, index, baseline, tmpBranch, ops>>
  BY <1>2 DEF Tier2Commit
<1>4. projxCommit' \in Tree \cup {Absent}
  BY <1>1, <1>2, Committed DEF Tier2Commit
<1>5. IsRun(run', run, "save", run.todo, run.merged, run.conflicted)
  BY <1>1, RunAt DEF Tier2Commit, Pcs
<1>6. run.cmd # "none"
  BY <1>2 DEF Inv, RunShape, Finishing
<1>7. TypeOK'
  BY <1>1, <1>3, <1>4, <1>5 DEF Inv, TypeOK, RunRecord, IsRun
<1>8. RunShape'
  BY <1>2, <1>3, <1>5, <1>6 DEF Inv, RunShape, IsRun, Finishing
<1>9. Unversioned' /\ MarkedFiles(release') = {}
  BY <1>2, <1>3 DEF Inv, Unversioned
<1>10. FromClean' /\ SkipsHold' /\ DefaultsDue'
  BY <1>5 DEF FromClean, SkipsHold, DefaultsDue, IsRun, Tiers, Finishing
<1>11. SuccessLeavesCleanTree'
  <2> SUFFICES ASSUME run.cmd # "add"
               PROVE  Clean' /\ MarkedFiles(head') = {} /\ head'.projx.version = release'.version
    BY <1>5 DEF SuccessLeavesCleanTree, IsRun
  <2>1. AsksForClean
    BY <1>1, <1>6, RunParts DEF AsksForClean
  <2>2. MarkedFiles(head') = {}
    BY <1>2, <1>3, <2>1 DEF MarkedFiles
  <2> QED
    BY <1>2, <1>3, <2>2 DEF Clean
<1> QED
  BY <1>7, <1>8, <1>9, <1>10, <1>11 DEF Inv

\* A run that stops before its commit and waits for the owner.
LEMMA Waits ==
  ASSUME Inv, run.pc \in Tiers \cup {"stage"}, run.todo = {}, work' \in Tree, index' \in Tree, work'.projx # Absent,
         IsRun(run', run, "prompt", run.todo, run.merged, run.conflicted),
         \A f \in run.conflicted : index.files[f] # Absent => index'.files[f] # Absent,
         UNCHANGED <<release, head, baseline, projxCommit, tmpBranch, ops>>
  PROVE  Inv'
<1>1. TypeOK'
  BY DEF Inv, TypeOK, RunRecord, IsRun
<1>2. RunShape'
  BY DEF Inv, RunShape, IsRun, Tiers, Finishing
<1>3. Unversioned' /\ MarkedFiles(release') = {}
  BY DEF Inv, Unversioned
<1>4. FromClean'
  BY DEF Inv, FromClean, IsRun, Tiers, Finishing, Present
<1>5. Skipped' = Skipped
  BY SkippedKept DEF IsRun
<1>6. SkipsHold'
  BY <1>5 DEF Inv, SkipsHold, IsRun, Tiers, Finishing
<1>7. DefaultsDue' /\ SuccessLeavesCleanTree'
  BY DEF DefaultsDue, SuccessLeavesCleanTree, IsRun, Tiers, Finishing
<1> QED
  BY <1>1, <1>2, <1>3, <1>4, <1>6, <1>7 DEF Inv

LEMMA Tier2StageKeeps ==
  ASSUME Inv, Tier2Stage
  PROVE  Inv'
<1> DEFINE F == [f \in Files |-> IF f \in run.merged THEN work.files[f] ELSE index.files[f]]
<1>1. TypeOK /\ work \in Tree /\ index \in Tree /\ run \in RunRecord
  BY Typed DEF Inv
<1>2. /\ run.pc = "stage" /\ run.todo = {} /\ work.projx # Absent /\ index' = [work EXCEPT !.files = F]
      /\ UNCHANGED <<release, work, head, baseline, projxCommit, tmpBranch, ops>>
  BY DEF Tier2Stage, Inv, RunShape, Finishing
<1>3. IsRun(run', run, "prompt", run.todo, run.merged, run.conflicted)
  BY <1>1, RunAt DEF Tier2Stage, Pcs
<1>4. \A f \in Files : work.files[f] \in FileContent /\ index.files[f] \in FileContent
  BY <1>1, TreeParts
<1>5. F \in [Files -> FileContent] /\ \A f \in Files : F[f] = IF f \in run.merged THEN work.files[f] ELSE index.files[f]
  BY <1>4
<1> HIDE DEF F
<1>6. IsTree(index', F, work.projx, work.marker)
  BY <1>1, <1>2, <1>5, TreeWith, TreeParts
<1>7. \A f \in run.conflicted : index.files[f] # Absent => index'.files[f] # Absent
  <2>1. run.conflicted \subseteq Files
    BY <1>1, RunParts
  <2>2. \A f \in run.merged : work.files[f] # Absent
    BY <1>2 DEF Inv, RunShape, Present, Finishing
  <2> QED
    BY <1>5, <1>6, <2>1, <2>2 DEF IsTree
<1> QED
  BY <1>1, <1>2, <1>3, <1>6, <1>7, Waits DEF IsTree

LEMMA Tier3FinishKeeps ==
  ASSUME Inv, Tier3Finish
  PROVE  Inv'
<1> DEFINE p == ManagedProjx(work.projx, run.legacy)
           m == InstanceSkip(work, run.compSkip, run.legacy)
<1>1. /\ TypeOK /\ work \in Tree /\ index \in Tree /\ run \in RunRecord
      /\ work.projx \in Projx \cup {Absent}
      /\ run.compSkip \in SUBSET CompFiles /\ run.legacy \in BOOLEAN
  BY Typed, TreeParts, RunParts DEF Inv
<1>2. p \in Projx /\ p # Absent
  BY <1>1, ProjxWritten
<1>3. m \in SUBSET CompFiles
  BY <1>1, SkipTyped
<1>4. work' = [work EXCEPT !.projx = p, !.marker = m]
  BY DEF Tier3Finish
<1> HIDE DEF p, m
<1>5. work' \in Tree /\ work'.projx # Absent
  BY <1>1, <1>2, <1>3, <1>4 DEF Tree
<1>6. IsRun(run', run, "prompt", run.todo, run.merged, run.conflicted)
  BY <1>1, RunAt DEF Tier3Finish, Pcs
<1>7. /\ run.pc \in Tiers /\ run.todo = {} /\ index' = index
      /\ UNCHANGED <<release, head, baseline, projxCommit, tmpBranch, ops>>
  BY DEF Tier3Finish, Tiers, Finishing
<1> QED
  BY <1>1, <1>5, <1>6, <1>7, Waits

\* A process ends; of the work tree at most the discarded files have changed.
LEMMA Ends ==
  ASSUME Inv, run' = IdleRun, work' \in Tree, baseline' \in Tree \cup {Absent},
         work'.projx = Absent => UNCHANGED <<work, baseline>>,
         UNCHANGED <<release, index, head, projxCommit, tmpBranch, ops>>
  PROVE  Inv'
<1>1. TypeOK'
  BY IdleRunParts DEF Inv, TypeOK, RunRecord
<1>2. Unversioned' /\ MarkedFiles(release') = {}
  BY DEF Inv, Unversioned
<1> QED
  BY <1>1, <1>2, NoRun DEF Inv

LEMMA SaveBaselineKeeps ==
  ASSUME Inv, SaveBaseline
  PROVE  Inv'
<1>1. /\ head \in Tree /\ work \in Tree
      /\ run' = IdleRun /\ baseline' = head /\ UNCHANGED <<release, work, index, head, projxCommit, tmpBranch, ops>>
  BY Typed DEF Inv, SaveBaseline
<1>2. work.projx # Absent
  BY DEF Inv, RunShape, SaveBaseline, Finishing
<1> QED
  BY <1>1, <1>2, Ends

LEMMA PromptSkipLearningKeeps ==
  ASSUME Inv, PromptSkipLearning
  PROVE  Inv'
<1>1. /\ work \in Tree /\ run.conflicted \in SUBSET Files /\ baseline \in Tree \cup {Absent}
      /\ TypeOK /\ work.projx # Absent
  BY Typed, RunParts DEF Inv, PromptSkipLearning, RunShape, Finishing
<1>2. /\ run' = IdleRun
      /\ UNCHANGED <<release, index, head, baseline, projxCommit, tmpBranch, ops>>
  BY DEF PromptSkipLearning
<1>3. work' \in Tree /\ work'.projx # Absent
  <2>1. CASE UNCHANGED work
    BY <1>1, <2>1
  <2>2. CASE \E D \in SUBSET run.conflicted : Discard(D)
    <3>1. PICK D \in SUBSET Files : Discard(D)
      BY <1>1, <2>2
    <3> QED
      BY <1>1, <3>1, Discarded
  <2> QED
    BY <2>1, <2>2 DEF PromptSkipLearning
<1> QED
  BY <1>1, <1>2, <1>3, Ends

LEMMA CrashKeeps ==
  ASSUME Inv, Crash
  PROVE  Inv'
<1>1. /\ work \in Tree /\ baseline \in Tree \cup {Absent} /\ run' = IdleRun
      /\ UNCHANGED <<release, work, index, head, baseline, projxCommit, tmpBranch, ops>>
  BY Typed DEF Inv, Crash
<1> QED
  BY <1>1, Ends

-----------------------------------------------------------------------------
(* The first state, and every step *)

LEMMA InitHasInv == Init => Inv
<1> SUFFICES ASSUME Init PROVE Inv
  OBVIOUS
<1>1. PICK present \in SUBSET Files : release = FirstRelease(present)
  BY DEF Init
<1>2. 1 \in 1..MaxRelease /\ 1 \in Line /\ 1 \in 0..MaxRelease
  BY ConstantsAssumption DEF Line
<1>3. Plain(1) \in Content /\ ~Marked(Plain(1))
  BY <1>2, PlainFile
<1>4. \A e \in Edits : Plain(e) \in Content /\ ~Marked(Plain(e))
  BY PlainFile DEF Line
<1>5. ~Marked(Absent)
  BY DEF Marked
<1>6. /\ release \in [version: 1..MaxRelease, files: [Files -> FileContent]]
      /\ \A f \in Files : release.files[f] \in {Plain(1), Absent}
  BY <1>1, <1>2, <1>3 DEF FirstRelease, FileContent
<1>7. MarkedFiles(release) = {}
  BY <1>3, <1>5, <1>6 DEF MarkedFiles
<1>8. Scaffolded \in Tree /\ Scaffolded.projx # Absent
  <2> DEFINE p == [version |-> 1, skip |-> {}, defaults |-> TRUE, pm |-> TRUE]
  <2>1. p \in Projx
    BY <1>2 DEF Projx
  <2>2. Scaffolded = [files |-> release.files, projx |-> p, marker |-> DefaultSkip]
    BY DEF Scaffolded
  <2> HIDE DEF p
  <2>3. release.files \in [Files -> FileContent] /\ DefaultSkip \in SUBSET CompFiles
    BY <1>6, ConstantsAssumption
  <2>4. Scaffolded \in Tree
    BY <2>1, <2>2, <2>3, TreeOf
  <2> QED
    BY <2>1, <2>2, <2>4, AbsentAssumption
<1>9. Legacy \in Tree /\ Legacy.projx # Absent
  <2> DEFINE p == [Scaffolded.projx EXCEPT !.defaults = FALSE, !.pm = FALSE]
  <2>1. Legacy = [Scaffolded EXCEPT !.projx = p, !.marker = {}]
    BY DEF Legacy
  <2>2. Scaffolded.projx \in Projx
    BY <1>8, TreeParts
  <2>3. p \in Projx
    BY <2>2 DEF Projx
  <2> HIDE DEF p
  <2>4. Legacy \in Tree /\ Legacy.projx = p
    BY <1>8, <2>1, <2>3 DEF Tree
  <2> QED
    BY <2>3, <2>4, AbsentAssumption
<1>10. \A t \in Adopted : t \in Tree /\ MarkedFiles(t) = {}
  <2> SUFFICES ASSUME NEW t \in Adopted PROVE t \in Tree /\ MarkedFiles(t) = {}
    OBVIOUS
  <2>1. /\ t = [files |-> t.files, projx |-> t.projx, marker |-> t.marker]
        /\ t.files \in [Files -> {Plain(1), Absent} \cup {Plain(e) : e \in Edits}]
        /\ t.projx = Absent /\ t.marker \in {Absent, {}}
    BY DEF Adopted
  <2>2. \A f \in Files : t.files[f] \in FileContent /\ ~Marked(t.files[f])
    BY <1>3, <1>4, <1>5, <2>1 DEF FileContent
  <2>3. t.files \in [Files -> FileContent]
    BY <2>1, <2>2
  <2> QED
    BY <2>1, <2>2, <2>3, TreeOf DEF MarkedFiles
<1>11. /\ work \in Tree /\ index = work /\ head = work
       /\ baseline \in Tree \cup {Absent} /\ projxCommit \in Tree \cup {Absent}
       /\ work.projx = Absent => baseline = Absent /\ projxCommit = Absent /\ MarkedFiles(work) = {}
  BY <1>8, <1>9, <1>10 DEF Init, Start
<1>12. run = IdleRun /\ tmpBranch = FALSE /\ ops = 0
  BY DEF Init
<1>13. TypeOK
  <2>1. ops \in 0..MaxOps
    BY <1>12, ConstantsAssumption
  <2>2. run \in RunRecord /\ tmpBranch \in BOOLEAN
    BY <1>12, IdleRunParts
  <2> QED
    BY <1>6, <1>11, <2>1, <2>2 DEF TypeOK, FileContent, RunRecord
<1>14. Unversioned
  BY <1>11 DEF Unversioned
<1>15. RunShape /\ FromClean /\ SkipsHold /\ DefaultsDue /\ SuccessLeavesCleanTree
  BY <1>12, IdleRunParts
    DEF RunShape, FromClean, SkipsHold, DefaultsDue, SuccessLeavesCleanTree, AsksForClean, Tiers, Finishing
<1> QED
  BY <1>7, <1>13, <1>14, <1>15 DEF Inv

LEMMA StutterKeeps ==
  ASSUME Inv, UNCHANGED vars
  PROVE  Inv'
<1>1. /\ release' = release /\ work' = work /\ index' = index /\ head' = head /\ run' = run
      /\ baseline' = baseline /\ projxCommit' = projxCommit /\ tmpBranch' = tmpBranch /\ ops' = ops
  BY DEF vars
<1> QED
  BY <1>1 DEF Inv, TypeOK, RunShape, Unversioned, FromClean, SkipsHold, DefaultsDue,
    SuccessLeavesCleanTree, Skipped, BaselineRef, AsksForClean, Clean, Present

LEMMA NextKeepsInv == Inv /\ [Next]_vars => Inv'
<1> SUFFICES ASSUME Inv, [Next]_vars PROVE Inv'
  OBVIOUS
<1>1. CASE UNCHANGED vars
  BY <1>1, StutterKeeps
<1>2. CASE CliStep
  BY <1>2, Tier1MergeKeeps, Tier1AbortKeeps, Tier2FileKeeps, Tier2MigrateKeeps, Tier2AddAllKeeps, Tier2CommitKeeps,
     Tier2StageKeeps,
     Tier3InstanceKeeps, Tier3FileKeeps, Tier3FinishKeeps, SaveBaselineKeeps DEF CliStep
<1>3. CASE PromptSkipLearning \/ Crash
  BY <1>3, PromptSkipLearningKeeps, CrashKeeps
<1>4. CASE Update \/ InitProject \/ ResumePrompt \/ AddComponents \/ AddInstance \/ DoctorFix
  BY <1>4, UpdateKeeps, InitProjectKeeps, ResumePromptKeeps, AddComponentsKeeps, AddInstanceKeeps,
     FreshCloneKeeps
<1>5. CASE \E f \in Files : Pin(f) \/ Unpin(f)
  BY <1>5, PinKeeps DEF Pin, Unpin
<1>6. CASE Owner
  BY <1>6, OwnerEditKeeps, OwnerCreateKeeps, OwnerStageKeeps, OwnerCommitKeeps, FreshCloneKeeps
    DEF Owner
<1>7. CASE \E f \in Files : Publish(f)
  BY <1>7, PublishKeeps
<1> QED
  BY <1>1, <1>2, <1>3, <1>4, <1>5, <1>6, <1>7 DEF Next, Command

THEOREM InvariantHolds == Spec => []Inv
  BY InitHasInv, NextKeepsInv, PTL DEF Spec

-----------------------------------------------------------------------------
(* What one step of a process does *)

LEMMA ProcessSteps ==
  ASSUME Next, ~Idle
  PROVE  CliStep \/ PromptSkipLearning \/ Crash
  BY DEF Next, Command, Owner, Update, InitProject, ResumePrompt, AddComponents, AddInstance,
    DoctorFix, Pin, Unpin, OwnerEdit, OwnerCreate, OwnerDelete, OwnerStage, OwnerCommit,
    FreshClone, Publish

LEMMA NotIdle ==
  ASSUME Inv, AsksForClean
  PROVE  ~Idle
  BY IdleRunParts DEF Inv, RunShape, Idle, AsksForClean, Finishing

\* The ways in which the content of a file changes.
Kept(f)        == work'.files[f] = work.files[f]
MergedIn(f)    == run.pc = "tier1" /\ Clean /\ Theirs.files[f] # Absent /\ work'.files[f] = release.files[f]
Combined(f)    ==
  /\ run.pc = "tier2" /\ f \in run.todo /\ work'.files[f] # Absent
  /\ work.files[f] # Absent => \A r \in Regions :
       \/ BaselineRef.files[f] # Absent /\ work.files[f][r] = BaselineRef.files[f][r]
       \/ work.files[f][r] \subseteq work'.files[f][r]
Overwrote(f)   == run.pc = "tier3" /\ f \in run.todo /\ work'.files[f] = release.files[f]
GaveBack(f)    ==
  run.pc = "prompt" /\ run.cmd = "update" /\ f \in run.conflicted /\ work'.files[f] = index.files[f]

LEMMA FileEffect ==
  ASSUME Inv, Next, ~Idle, NEW f \in Files
  PROVE  Kept(f) \/ MergedIn(f) \/ Combined(f) \/ Overwrote(f) \/ GaveBack(f)
<1>1. TypeOK /\ work \in Tree /\ head \in Tree
  BY Typed DEF Inv
<1>2. CASE Tier1Merge
  <2>1. work' = Overlay(head, Theirs) /\ Clean /\ run.pc = "tier1"
    BY <1>2, Tier1MergeEffect DEF Tier1Merge
  <2>2. Theirs \in Tree /\ Theirs.files[f] \in {release.files[f], Absent}
    BY <1>1, TheirsTyped
  <2>3. work'.files[f] = IF Theirs.files[f] = Absent THEN head.files[f] ELSE Theirs.files[f]
    BY <1>1, <2>1, <2>2, Overlaid
  <2> QED
    BY <2>1, <2>2, <2>3 DEF Kept, MergedIn, Clean
<1>3. CASE \E g \in Files : Tier2File(g)
  <2>1. PICK g \in Files : Tier2File(g)
    BY <1>3
  <2>2. run.pc = "tier2" /\ g \in run.todo
    BY <2>1 DEF Tier2File
  <2>3. /\ \A h \in Files \ {g} : work'.files[h] = work.files[h]
        /\ work'.files[g] \in Content
        /\ work.files[g] # Absent => \A r \in Regions :
             \/ BaselineRef.files[g] # Absent /\ work.files[g][r] = BaselineRef.files[g][r]
             \/ work.files[g][r] \subseteq work'.files[g][r]
    BY <2>1, Tier2FileEffect
  <2> QED
    BY <2>2, <2>3, AbsentAssumption DEF Kept, Combined
<1>4. CASE Tier2Migrate \/ Tier2Manage
  BY <1>1, <1>4, Tier2MigrateEffect, Tier2ManageEffect DEF Kept
<1>5. CASE Tier3Instance
  <2>1. work' = [work EXCEPT
          !.files  = [g \in Files |-> IF g \in run.todo \cap CompFiles
                                      THEN release.files[g] ELSE work.files[g]],
          !.marker = InstanceSkip(work, run.compSkip, run.legacy)]
    BY <1>5 DEF Tier3Instance
  <2>2. work'.files[f] = IF f \in run.todo \cap CompFiles THEN release.files[f] ELSE work.files[f]
    BY <1>1, <2>1 DEF Tree
  <2> QED
    BY <1>5, <2>2 DEF Tier3Instance, Kept, Overwrote
<1>6. CASE \E g \in Files : Tier3File(g)
  <2>1. PICK g \in Files : Tier3File(g)
    BY <1>6
  <2>2. work' = WithFile(work, g, release.files[g]) /\ release.files[g] \in FileContent
    BY <1>1, <2>1, Typed DEF Tier3File, WithFile
  <2>3. work'.files[g] = release.files[g] /\ \A h \in Files \ {g} : work'.files[h] = work.files[h]
    BY <1>1, <2>2, FileWritten
  <2> QED
    BY <2>1, <2>3 DEF Tier3File, Kept, Overwrote
<1>7. CASE Tier3Finish
  <2>1. work'.files = work.files
    BY <1>1, <1>7 DEF Tier3Finish, Tree
  <2> QED
    BY <2>1 DEF Kept
<1>8. CASE PromptSkipLearning
  <2>1. CASE UNCHANGED work
    BY <2>1 DEF Kept
  <2>2. CASE run.cmd = "update" /\ \E D \in SUBSET run.conflicted : Discard(D)
    <3>1. PICK D \in SUBSET run.conflicted : Discard(D)
      BY <2>2
    <3>2. D \in SUBSET Files
      BY <1>1, Typed, RunParts
    <3>3. work'.files[f] = IF f \in D THEN index.files[f] ELSE work.files[f]
      BY <1>1, <3>1, <3>2, Discarded
    <3> QED
      BY <1>8, <2>2, <3>3 DEF PromptSkipLearning, Kept, GaveBack
  <2> QED
    BY <1>8, <2>1, <2>2 DEF PromptSkipLearning
<1>9. CASE Tier1Abort \/ Tier2AddAll \/ Tier2Commit \/ Tier2Stage \/ SaveBaseline \/ Crash
  BY <1>9 DEF Tier1Abort, Tier2AddAll, Tier2Commit, Tier2Stage, SaveBaseline, Crash, Kept
<1> QED
  BY <1>2, <1>3, <1>4, <1>5, <1>6, <1>7, <1>8, <1>9, ProcessSteps DEF CliStep

\* A process commits the work tree it leaves, or nothing.
LEMMA HeadEffect ==
  ASSUME Inv, Next, ~Idle
  PROVE  /\ head' = head \/ head' = work'
         /\ head' # head /\ AsksForClean => MarkedFiles(head') = {}
<1>1. Inv'
  BY NextKeepsInv
<1>2. CASE Tier1Merge \/ Tier2Commit
  <2>1. head' = work'
    BY <1>2, Tier1MergeEffect DEF Tier2Commit, Inv, RunShape, Finishing
  <2>2. run' = [run EXCEPT !.pc = "save"] /\ run \in RunRecord
    BY <1>2, Typed DEF Inv, Tier1Merge, Tier2Commit
  <2>3. run'.pc = "save" /\ run'.cmd = run.cmd
    BY <2>2 DEF RunRecord
  <2> QED
    BY <1>1, <2>1, <2>3 DEF Inv, SuccessLeavesCleanTree, AsksForClean
<1>3. CASE ~(Tier1Merge \/ Tier2Commit)
  BY <1>3, ProcessSteps
    DEF CliStep, Tier1Abort, Tier2File, Tier2Migrate, Tier2Manage, Tier2AddAll, Tier2Stage, Tier3Instance, Tier3File,
    Tier3Finish, SaveBaseline, PromptSkipLearning, Crash
<1> QED
  BY <1>2, <1>3

\* The component's marker gets the patterns the run began with, and the
\* defaults where they are due.
LEMMA MarkerEffect ==
  ASSUME Inv, Next, run.pc \in Tiers, work.marker # Absent, ~run.legacy
  PROVE  work'.marker = work.marker
<1>1. /\ TypeOK /\ work \in Tree /\ head \in Tree /\ work.marker \in SUBSET CompFiles
      /\ run.compSkip \subseteq work.marker
  BY Typed, TreeParts DEF Inv, DefaultsDue
<1>2. InstanceSkip(work, run.compSkip, run.legacy) = work.marker
  BY <1>1 DEF InstanceSkip
<1>3. CASE Tier1Merge
  <2>1. Theirs \in Tree /\ Theirs.marker = work.marker
    BY <1>1, <1>2, TheirsTyped
  <2> QED
    BY <1>1, <1>3, <2>1, Tier1MergeEffect, Overlaid
<1>4. CASE \E g \in Files : Tier2File(g)
  BY <1>4, Tier2FileEffect
<1>5. CASE Tier2Migrate \/ Tier2Manage
  BY <1>1, <1>5, Tier2MigrateEffect, Tier2ManageEffect
<1>6. CASE Tier3Instance \/ Tier3Finish
  BY <1>1, <1>2, <1>6 DEF Tier3Instance, Tier3Finish, Tree
<1>7. CASE \E g \in Files : Tier3File(g)
  BY <1>1, <1>7 DEF Tier3File, Tree
<1>8. CASE Tier1Abort \/ Tier2AddAll \/ Tier2Commit \/ Tier2Stage \/ SaveBaseline \/ Crash
  BY <1>8 DEF Tier1Abort, Tier2AddAll, Tier2Commit, Tier2Stage, SaveBaseline, Crash
<1>9. ~Idle /\ ~PromptSkipLearning
  BY DEF Idle, PromptSkipLearning, Tiers, Finishing
<1> QED
  BY <1>3, <1>4, <1>5, <1>6, <1>7, <1>8, <1>9, ProcessSteps DEF CliStep

-----------------------------------------------------------------------------
(* Theorems *)

\* Every variable keeps its type in every behaviour of the engine.
THEOREM TypeCorrect == Spec => []TypeOK
  BY InvariantHolds, PTL DEF Inv

\* An update or init about to report success leaves a clean tree without
\* conflict markers, with the release's version recorded, however the owner's
\* edits, crashes and clones came before (applyTemplate).
THEOREM SuccessIsClean == Spec => []SuccessLeavesCleanTree
  BY InvariantHolds, PTL DEF Inv

\* update and init commit no file that holds conflict markers, neither by the
\* orphan merge nor by the second tier's git add -A.
THEOREM NeverCommitsConflicts == Spec => ConflictsNeverCommitted
<1>1. Inv /\ [Next]_vars => [run.cmd \in {"update", "init"} /\ head' # head => MarkedFiles(head') = {}]_vars
  BY NotIdle, HeadEffect DEF AsksForClean
<1> QED
  BY <1>1, InvariantHolds, PTL DEF Spec, ConflictsNeverCommitted

\* A run changes no file of the project its skip list names, in any tier and
\* in the discarded answers of the prompt, static files aside.
THEOREM PinsHold == Spec => PinnedFilesUntouched
<1>1. ASSUME Inv, Next, ~Idle, NEW f \in Skipped \ (StaticFiles \cup StaticScripts)
      PROVE  /\ work.files[f] # Absent => work'.files[f] = work.files[f]
             /\ head'.files[f] \in {head.files[f], work'.files[f]}
  <2>1. /\ run.rootSkip \in SUBSET Files /\ run.compSkip \in SUBSET CompFiles /\ run.legacy \in BOOLEAN
        /\ head \in Tree /\ TypeOK
    BY <1>1, Typed, RunParts DEF Inv
  <2>2. f \in Files /\ f \notin Static
    BY <1>1, <2>1, SkipTyped DEF Skipped, Files, Static
  <2>3. ASSUME work.files[f] # Absent PROVE Kept(f)
    <3>1. ~MergedIn(f)
      <4>1. SUFFICES ASSUME MergedIn(f) PROVE FALSE
        OBVIOUS
      <4>2. Writes(f, EmptyTree, work, run.rootSkip, run.compSkip, run.legacy)
        BY <2>1, <2>2, <4>1, TheirsTyped DEF MergedIn
      <4>3. f \notin run.rootSkip \cup InstanceSkip(work, run.compSkip, run.legacy)
        BY <2>2, <2>3, <4>2, WritesTemplate
      <4>4. work = head
        BY <4>1 DEF MergedIn, Clean
      <4> QED
        BY <1>1, <4>3, <4>4 DEF Skipped
    <3>2. ~Combined(f) /\ ~Overwrote(f) /\ ~GaveBack(f)
      BY <1>1, <2>2, <2>3 DEF Inv, SkipsHold, Combined, Overwrote, GaveBack, Tiers, Finishing
    <3> QED
      BY <1>1, <2>2, <3>1, <3>2, FileEffect
  <2> QED
    BY <1>1, <2>3, HeadEffect DEF Kept
<1>2. Inv /\ [Next]_vars =>
        [~Idle => \A f \in Skipped \ (StaticFiles \cup StaticScripts) :
           /\ work.files[f] # Absent => work'.files[f] = work.files[f]
           /\ head'.files[f] \in {head.files[f], work'.files[f]}]_vars
  BY <1>1
<1> QED
  BY <1>2, InvariantHolds, PTL DEF Spec, PinnedFilesUntouched

\* No command of the CLI removes a file from the work tree: the template's
\* list holds only files it has, and git checkout of a discarded file finds it
\* in the index.
THEOREM NeverDeletes == Spec => FilesNeverDeleted
<1>1. ASSUME Inv, Next, ~Idle, NEW f \in Files, work.files[f] # Absent
      PROVE  work'.files[f] # Absent
  <2>1. TypeOK /\ run.todo \subseteq Present(release)
    BY <1>1 DEF Inv, RunShape, Finishing
  <2>2. MergedIn(f) => release.files[f] # Absent
    BY <1>1, <2>1, TheirsTyped DEF MergedIn
  <2>3. Overwrote(f) => release.files[f] # Absent
    BY <2>1 DEF Overwrote, Present
  <2>4. GaveBack(f) => index.files[f] # Absent
    BY <1>1 DEF Inv, FromClean, GaveBack, Present
  <2> QED
    BY <1>1, <2>2, <2>3, <2>4, FileEffect DEF Kept, MergedIn, Combined, Overwrote, GaveBack
<1>2. ASSUME Inv, ResumePrompt, NEW f \in Files, work.files[f] # Absent
      PROVE  work'.files[f] # Absent
  <2>1. PICK D \in SUBSET PendingConflicts : Discard(D)
    BY <1>2 DEF ResumePrompt
  <2>2. D \in SUBSET Files /\ \A g \in D : index.files[g] # Absent
    BY DEF PendingConflicts, Present
  <2> QED
    BY <1>2, <2>1, <2>2, Discarded DEF Inv
<1>3. ASSUME Inv, AddComponents, NEW f \in Files, work.files[f] # Absent
      PROVE  work'.files[f] # Absent
  <2>1. /\ TypeOK /\ work \in Tree /\ work.projx.skip \in SUBSET Files /\ work.marker \in SUBSET CompFiles
    BY <1>3, Typed, TreeParts, ProjxParts DEF Inv, AddComponents
  <2>2. work'.files[f] = IF Writes(f, work, work, work.projx.skip, work.marker, FALSE)
                         THEN release.files[f] ELSE work.files[f]
    BY <1>3, <2>1, Written DEF AddComponents
  <2> QED
    BY <1>3, <2>2, WritesTemplate
<1>4. Inv /\ [Next]_vars =>
        [~Idle \/ ResumePrompt \/ AddComponents => Present(work) \subseteq Present(work')]_vars
  BY <1>1, <1>2, <1>3 DEF Present
<1> QED
  BY <1>4, InvariantHolds, PTL DEF Spec, FilesNeverDeleted

\* A line the owner wrote since the baseline commit survives the per-file
\* merge, alone or as one side of a reported conflict (tryThreeWayMerge).
THEOREM MergeKeepsNewEdits == Spec => NewEditsSurviveMerge
<1>1. ASSUME Inv, Next, run.pc = "tier2", NEW f \in Files, work.files[f] # Absent, NEW r \in Regions
      PROVE  \/ BaselineRef.files[f] # Absent /\ work.files[f][r] = BaselineRef.files[f][r]
             \/ work.files[f][r] \subseteq work'.files[f][r]
  <2>1. Kept(f) \/ Combined(f)
    BY <1>1, FileEffect DEF Idle, MergedIn, Overwrote, GaveBack
  <2> QED
    BY <1>1, <2>1 DEF Kept, Combined
<1>2. Inv /\ [Next]_vars =>
        [run.pc = "tier2" /\ run.cmd = "update" =>
           \A f \in Files : work.files[f] # Absent =>
             \A r \in Regions :
               \/ BaselineRef.files[f] # Absent /\ work.files[f][r] = BaselineRef.files[f][r]
               \/ work.files[f][r] \subseteq work'.files[f][r]]_vars
  BY <1>1
<1> QED
  BY <1>2, InvariantHolds, PTL DEF Spec, NewEditsSurviveMerge

\* update and init overwrite only content that HEAD still has, in every tier
\* and after any number of crashes and reruns.
THEOREM OverwritesOnlyCommitted == Spec => OnlyCommittedOverwritten
<1>1. ASSUME Inv, Next, AsksForClean, run.pc # "prompt", NEW f \in Files
      PROVE  Kept(f) \/ work.files[f] = head.files[f]
  <2>1. MergedIn(f) => work.files[f] = head.files[f]
    BY DEF MergedIn, Clean
  <2>2. Combined(f) \/ Overwrote(f) => work.files[f] = head.files[f]
    BY <1>1 DEF Inv, FromClean, Tiers, Finishing, Combined, Overwrote
  <2> QED
    BY <1>1, <2>1, <2>2, NotIdle, FileEffect DEF GaveBack
<1>2. Inv /\ [Next]_vars =>
        [run.cmd \in {"update", "init"} /\ run.pc # "prompt" =>
           \A f \in Files : work'.files[f] # work.files[f] => work.files[f] = head.files[f]]_vars
  BY <1>1 DEF AsksForClean, Kept
<1> QED
  BY <1>2, InvariantHolds, PTL DEF Spec, OnlyCommittedOverwritten

\* A run on a project whose .projx records the default patterns adds nothing
\* to the component's skip list.
THEOREM DefaultsOnce == Spec => DefaultsAppliedOnce
<1>1. Inv /\ [Next]_vars =>
        [run.pc \in {"tier1", "tier2", "tier3"} /\ head.projx # Absent /\ head.projx.defaults
           => (work.marker # Absent => work'.marker = work.marker)]_vars
  BY MarkerEffect DEF Inv, DefaultsDue, Tiers, Finishing
<1> QED
  BY <1>1, InvariantHolds, PTL DEF Spec, DefaultsAppliedOnce

=============================================================================
