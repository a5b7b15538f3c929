-------------------------- MODULE EntityCrudProofs --------------------------
(***************************************************************************)
(* Theorems about EntityCrud, for any port whose routes have the shape     *)
(* EntityProgramsAssumption states, any number of rows, requests and       *)
(* writes, whatever ids the bodies name and whichever reads, writes and    *)
(* audit entries fail.                                                     *)
(***************************************************************************)
EXTENDS EntityCrud, TLAPS

-----------------------------------------------------------------------------
(* The inductive invariant *)

AuditEntry == [action: {"INSERT", "UPDATE", "DELETE"}, ids: SUBSET Ids, old: Row, new: Row]
ClientState ==
  [op: EntityOps \cup {"none"}, pc: Nat, ids: SUBSET Ids, at: Ids \cup {""},
   column: Columns, value: Values, old: Row, olds: SUBSET (Ids \X Row),
   differs: SUBSET {"state", "a", "b"}, pending: SUBSET AuditEntry]

EntityTypes ==
  /\ entityPort \in EntityPorts /\ soft \in BOOLEAN /\ unlogged \in SUBSET Ids
  /\ table \in [Ids -> Row] /\ been \in [Ids -> SUBSET Row]
  /\ audit \subseteq AuditEntry /\ client \in [Clients -> ClientState]

\* The history has every row there is; a row that is gone left nothing behind.
Rows ==
  \A i \in Ids : /\ table[i].state = "absent" => table[i] = Absent
                 /\ table[i] \in been[i] \/ (table[i] = Absent /\ been[i] = {})

\* Entries that are in the trail or will be, unless a request ends before.
Entries == audit \cup UNION {client[c].pending : c \in Clients}

Covered == \A i \in Ids \ unlogged : \A row \in been[i] : Told(Entries, i, row)

Real(e) ==
  \A i \in e.ids : /\ e.old # Absent => e.old \in been[i]
                   /\ LogsReturnedRow => e.new \in been[i]

\* A request for one row works on that row.
Aimed(c) == client[c].op \in {"patch", "remove"} => client[c].at \in client[c].ids

\* What a request has read.
Recalls(c) ==
  /\ client[c].old # Absent => client[c].at \in Ids /\ client[c].old \in been[client[c].at]
  /\ \A o \in client[c].olds : o[2] \in been[o[1]]

\* What a deletion will remove it has read, but for what it is excused from.
Prepared(c) ==
  \A i \in client[c].ids :
    i \in unlogged \/ table[i].state = "absent" \/ \E o \in client[c].olds : o[1] = i

\* What a request has done or found out when it comes to one of these steps.
Due(c, step) ==
  /\ step \notin AuditSteps => client[c].pending = {}
  /\ step \in {"updateInstance", "loadForSave", "saveEntity", "destroy"} => Visible(client[c].old)
  /\ step \in {"saveBody", "deleteIds"} => \A o \in client[c].olds : o[1] \in client[c].ids
  /\ step = "deleteIds" => Prepared(c)
  /\ step = "hideNext" => client[c].at \in client[c].ids

Placed(c) == client[c].op \in EntityOps /\ client[c].pc \in 1..Len(Steps(c))

RequestOK(c) ==
  IF client[c].pc = 0 THEN client[c] = NoClient
  ELSE Placed(c) /\ Aimed(c) /\ Recalls(c) /\ Due(c, Steps(c)[client[c].pc])

EntityInv ==
  /\ EntityTypes /\ Rows /\ Covered /\ (\A e \in Entries : Real(e))
  /\ \A c \in Clients : RequestOK(c)

-----------------------------------------------------------------------------
(* Programs *)

\* What a request's program is, and what it says of two steps in a row.
LEMMA Shape ==
  ASSUME EntityTypes, NEW c \in Clients, Placed(c)
  PROVE  /\ EntityProgram(client[c].op, Steps(c))
         /\ Len(Steps(c)) \in Nat /\ client[c].pc \in 1..Len(Steps(c))
<1>1. client[c].op \in EntityOps /\ entityPort \in EntityPorts
  BY DEF Placed, EntityTypes
<1>2. EntityProgram(client[c].op, Steps(c))
  BY <1>1, EntityProgramsAssumption DEF Steps, Routes
<1>3. Len(Steps(c)) \in Nat
  BY <1>2 DEF EntityProgram
<1> QED
  BY <1>2, <1>3 DEF Placed

\* What two steps in a row have to do with each other.
Follows(s, step) ==
  /\ step \in EntityWrites => s \in AuditSteps
  /\ s \in {"updateInstance", "loadForSave", "destroy"} => step = "findRow"
  /\ s = "saveEntity" => step = "loadForSave"
  /\ s = "saveBody" => step = "loadBody"
  /\ s = "deleteIds" => step \in {"lookupMatching", "findOlds"}
  /\ s = "hideNext" => step = "lookupNext"

LEMMA Succession ==
  ASSUME NEW op, NEW program, EntityProgram(op, program), NEW n \in 1..Len(program),
         n < Len(program)
  PROVE  Follows(program[n + 1], program[n])
<1>1. Len(program) \in Nat
  BY DEF EntityProgram
<1>2. n + 1 \in 1..Len(program) /\ n + 1 # 1 /\ (n + 1) - 1 = n
  BY <1>1
<1> QED
  BY <1>2 DEF EntityProgram, RightAfter, Follows

LEMMA NotLast ==
  ASSUME NEW op, NEW program, EntityProgram(op, program), NEW n \in 1..Len(program),
         program[n] \in EntityWrites
  PROVE  n < Len(program)
  BY DEF EntityProgram

LEMMA StepNames ==
  /\ EntityWrites \cap AuditSteps = {}
  /\ \A op \in EntityOps : \A s \in StepsOf(op) :
       /\ s \in {"insert", "insertBody", "createMany", "loadBody", "saveBody"} => op \in Creating
       /\ s = "findRow" => op \in {"patch", "remove"}
       /\ s \in {"lookupOld", "selectBefore"} => op \in {"patch", "remove"}
       /\ s \in {"updateById", "updateInstance", "loadForSave", "saveEntity"} => op = "patch"
       /\ s \in {"deleteById", "hideById", "destroy"} => op = "remove"
       /\ s \in {"findOlds", "lookupMatching", "deleteIds", "deleteReturning"} =>
            op \in {"remove", "bulkDelete"}
       /\ s \in {"lookupNext", "hideNext", "again", "inScopeIds"} => op = "bulkDelete"
<1>1. EntityWrites \cap AuditSteps = {}
  BY DEF EntityWrites, AuditSteps
<1>2. ASSUME NEW op \in EntityOps, NEW s \in StepsOf(op)
      PROVE  /\ s \in {"insert", "insertBody", "createMany", "loadBody", "saveBody"} => op \in Creating
             /\ s = "findRow" => op \in {"patch", "remove"}
             /\ s \in {"lookupOld", "selectBefore"} => op \in {"patch", "remove"}
             /\ s \in {"updateById", "updateInstance", "loadForSave", "saveEntity"} => op = "patch"
             /\ s \in {"deleteById", "hideById", "destroy"} => op = "remove"
             /\ s \in {"findOlds", "lookupMatching", "deleteIds", "deleteReturning"} =>
                  op \in {"remove", "bulkDelete"}
             /\ s \in {"lookupNext", "hideNext", "again", "inScopeIds"} => op = "bulkDelete"
  <2>1. CASE op \in {"list", "get"}
    BY <2>1 DEF StepsOf, Creating
  <2>2. CASE op \in Creating
    BY <2>2 DEF StepsOf, Creating, AuditSteps
  <2>3. CASE op = "patch"
    BY <2>3 DEF StepsOf, Creating, AuditSteps
  <2>4. CASE op = "remove"
    BY <2>4 DEF StepsOf, Creating, AuditSteps
  <2>5. CASE op = "bulkDelete"
    BY <2>5 DEF StepsOf, Creating, AuditSteps
  <2> QED
    BY <2>1, <2>2, <2>3, <2>4, <2>5 DEF EntityOps, Creating
<1> QED
  BY <1>1, <1>2

\* What is known of a request at one of its steps.
LEMMA AtStep ==
  ASSUME EntityInv, NEW c \in Clients, NEW step, Doing(c, step)
  PROVE  /\ c \in Working /\ client[c] \in ClientState
         /\ Placed(c) /\ Aimed(c) /\ Recalls(c) /\ Due(c, step)
         /\ EntityProgram(client[c].op, Steps(c)) /\ Len(Steps(c)) \in Nat
         /\ client[c].pc \in 1..Len(Steps(c)) /\ Steps(c)[client[c].pc] = step
         /\ step \in StepsOf(client[c].op) /\ client[c].op \in EntityOps
<1>1. client[c].pc # 0 /\ Steps(c)[client[c].pc] = step /\ client[c] \in ClientState
  BY DEF Doing, EntityInv, EntityTypes
<1>2. Placed(c) /\ Aimed(c) /\ Recalls(c) /\ Due(c, step)
  BY <1>1 DEF EntityInv, RequestOK
<1>3. /\ EntityProgram(client[c].op, Steps(c)) /\ Len(Steps(c)) \in Nat
      /\ client[c].pc \in 1..Len(Steps(c))
  BY <1>2, Shape DEF EntityInv
<1>4. step \in StepsOf(client[c].op)
  BY <1>1, <1>3 DEF EntityProgram
<1> QED
  BY <1>1, <1>2, <1>3, <1>4 DEF Working, Placed

-----------------------------------------------------------------------------
(* Rows and requests *)

LEMMA RowFacts ==
  /\ Absent \in Row /\ NewRow \in Row /\ Absent.state = "absent" /\ NewRow.state = "present"
  /\ ~Visible(Absent) /\ Visible(NewRow) /\ NewRow # Absent
  BY DEF Absent, NewRow, Row, Values, Visible

LEMMA NoClientFacts ==
  /\ NoClient \in ClientState /\ NoClient.op = "none" /\ NoClient.pc = 0
  /\ NoClient.pending = {} /\ NoClient.old = Absent /\ NoClient.olds = {}
  BY RowFacts DEF NoClient, ClientState, Columns, Values

LEMMA ClientParts ==
  ASSUME NEW k \in ClientState
  PROVE  /\ k.op \in EntityOps \cup {"none"} /\ k.pc \in Nat /\ k.ids \in SUBSET Ids
         /\ k.at \in Ids \cup {""} /\ k.column \in Columns /\ k.value \in Values /\ k.old \in Row
         /\ k.olds \in SUBSET (Ids \X Row) /\ k.pending \in SUBSET AuditEntry
  BY DEF ClientState

\* Everything but the program counter.
Carries(k, known) ==
  /\ k.op = known.op /\ k.ids = known.ids /\ k.at = known.at /\ k.old = known.old
  /\ k.olds = known.olds /\ k.pending = known.pending

\* One request's state is replaced.
Replaced(c, k) == /\ client' \in [Clients -> ClientState] /\ client'[c] = k
                  /\ \A d \in Clients \ {c} : client'[d] = client[d]

LEMMA Replacing ==
  ASSUME EntityTypes, NEW c \in Clients, NEW k \in ClientState, client' = [client EXCEPT ![c] = k]
  PROVE  Replaced(c, k)
  BY DEF EntityTypes, Replaced

LEMMA Continued ==
  ASSUME EntityInv, NEW c \in Clients, NEW step, Doing(c, step),
         NEW known \in ClientState, known.pc = client[c].pc, Continue(c, known)
  PROVE  \E k \in ClientState :
           /\ Replaced(c, k)
           /\ \/ k = NoClient /\ client[c].pc = Len(Steps(c))
              \/ /\ client[c].pc < Len(Steps(c)) /\ Carries(k, known)
                 /\ k.pc = client[c].pc + 1
<1>1. client[c].pc \in Nat /\ Len(Steps(c)) \in Nat /\ client[c].pc \in 1..Len(Steps(c))
  BY AtStep
<1>2. EntityTypes
  BY DEF EntityInv
<1>3. CASE client[c].pc = Len(Steps(c))
  <2>1. client' = [client EXCEPT ![c] = NoClient]
    BY <1>3 DEF Continue
  <2> QED
    BY <1>2, <1>3, <2>1, NoClientFacts, Replacing
<1>4. CASE client[c].pc # Len(Steps(c))
  <2> DEFINE k == [known EXCEPT !.pc = known.pc + 1]
  <2>1. client' = [client EXCEPT ![c] = k]
    BY <1>4 DEF Continue
  <2>2. k \in ClientState /\ Carries(k, known) /\ k.pc = client[c].pc + 1
    <3> DEFINE n == known.pc + 1
    <3>1. n \in Nat /\ n = client[c].pc + 1
      BY <1>1
    <3> HIDE DEF n
    <3>2. [known EXCEPT !.pc = n] \in ClientState
      BY <3>1 DEF ClientState
    <3>3. Carries([known EXCEPT !.pc = n], known) /\ [known EXCEPT !.pc = n].pc = n
      BY DEF ClientState, Carries
    <3> QED
      BY <3>1, <3>2, <3>3 DEF n
  <2> HIDE DEF k
  <2>3. client[c].pc < Len(Steps(c))
    BY <1>1, <1>4
  <2> QED
    BY <1>2, <2>1, <2>2, <2>3, Replacing
<1> QED
  BY <1>3, <1>4

-----------------------------------------------------------------------------
(* One request takes a step *)

LEMMA EntriesAre ==
  \A e : e \in Entries <=> e \in audit \/ \E d \in Clients : e \in client[d].pending
  BY DEF Entries

LEMMA EntriesBecome ==
  ASSUME NEW c \in Clients, NEW k, Replaced(c, k)
  PROVE  \A e : e \in Entries' <=>
           \/ e \in audit' \/ e \in k.pending \/ \E d \in Clients \ {c} : e \in client[d].pending
<1>1. \A e : e \in Entries' <=> e \in audit' \/ \E d \in Clients : e \in client'[d].pending
  BY DEF Entries
<1> QED
  BY <1>1 DEF Replaced

\* What the others rely on.
Grown ==
  /\ entityPort' = entityPort /\ soft' = soft /\ unlogged \subseteq unlogged'
  /\ \A i \in Ids : been[i] \subseteq been'[i]

\* A row that comes to be under a deletion that has not read it is excused.
Noticed(c) ==
  \A d \in Clients \ {c} : Doing(d, "deleteIds") =>
    \A i \in client[d].ids : table[i].state = "absent" =>
      table'[i].state = "absent" \/ i \in unlogged' \/ \E o \in client[d].olds : o[1] = i

LEMMA OthersOK ==
  ASSUME EntityInv, NEW c \in Clients, NEW k \in ClientState, Replaced(c, k), Grown, Noticed(c),
         NEW d \in Clients \ {c}
  PROVE  RequestOK(d)'
<1>1. RequestOK(d) /\ client'[d] = client[d] /\ client[d] \in ClientState
  BY DEF EntityInv, EntityTypes, Replaced
<1>2. CASE client[d].pc = 0
  BY <1>1, <1>2 DEF RequestOK
<1>3. CASE client[d].pc # 0
  <2> DEFINE s == Steps(d)[client[d].pc]
  <2>1. Placed(d) /\ Aimed(d) /\ Recalls(d) /\ Due(d, s)
    BY <1>1, <1>3 DEF RequestOK
  <2>2. Steps(d)' = Steps(d)
    BY <1>1 DEF Steps, Routes, Grown
  <2>3. Placed(d)' /\ Aimed(d)'
    BY <1>1, <2>1, <2>2 DEF Placed, Aimed
  <2>4. client[d].ids \subseteq Ids /\ \A o \in client[d].olds : o[1] \in Ids
    BY <1>1, ClientParts
  <2>5. Recalls(d)'
    BY <1>1, <2>1, <2>4 DEF Recalls, Grown
  <2>6. s = "deleteIds" => Prepared(d)'
    <3> SUFFICES ASSUME s = "deleteIds", NEW i \in client[d].ids
                 PROVE  \/ i \in unlogged' \/ table'[i].state = "absent"
                        \/ \E o \in client[d].olds : o[1] = i
      BY <1>1 DEF Prepared
    <3>1. Doing(d, "deleteIds")
      BY <1>3 DEF Doing
    <3> QED
      BY <2>1, <3>1 DEF Due, Prepared, Noticed, Grown
  <2>7. PICK t : t = s
    OBVIOUS
  <2>8. Due(d, t)'
    <3>1. Due(d, t) /\ (t = "deleteIds" => Prepared(d)')
      BY <2>1, <2>6, <2>7
    <3> QED
      BY <1>1, <3>1 DEF Due, Visible
  <2>9. Due(d, Steps(d)[client[d].pc])'
    BY <1>1, <2>2, <2>7, <2>8 DEF Due
  <2> QED
    BY <1>1, <1>3, <2>3, <2>5, <2>9 DEF RequestOK
<1> QED
  BY <1>2, <1>3

LEMMA StepKeeps ==
  ASSUME EntityInv, NEW c \in Clients, NEW k \in ClientState, Replaced(c, k), Grown, Noticed(c),
         unlogged' \in SUBSET Ids, table' \in [Ids -> Row], been' \in [Ids -> SUBSET Row],
         audit' \subseteq AuditEntry, Rows', Covered', \A e \in Entries' : Real(e)',
         RequestOK(c)'
  PROVE  EntityInv'
<1>1. EntityTypes'
  BY DEF EntityInv, EntityTypes, Grown, Replaced
<1>2. ASSUME NEW d \in Clients PROVE RequestOK(d)'
  BY OthersOK
<1>3. (\A e \in Entries : Real(e))'
  OBVIOUS
<1>4. (\A d \in Clients : RequestOK(d))'
  BY <1>2
<1> QED
  BY <1>1, <1>3, <1>4 DEF EntityInv

\* How a request that goes on relates to what it was.
Stays(c, k) ==
  /\ k.op = client[c].op /\ k.pc \in 1..Len(Steps(c))
  /\ k.op \in {"patch", "remove"} => k.at \in k.ids

GoesOn(c, k) == Stays(c, k) /\ Recalls(c)' /\ \E s : s = Steps(c)[k.pc] /\ Due(c, s)'

LEMMA Kept ==
  ASSUME EntityInv, NEW c \in Clients, client[c].pc # 0, NEW k \in ClientState, Replaced(c, k), Grown,
         k = NoClient \/ GoesOn(c, k)
  PROVE  RequestOK(c)'
<1>1. client'[c] = k /\ client[c] \in ClientState
  BY DEF Replaced, EntityInv, EntityTypes
<1>2. Placed(c) /\ Aimed(c)
  BY DEF EntityInv, RequestOK
<1>3. CASE k = NoClient
  BY <1>1, <1>3, NoClientFacts DEF RequestOK
<1>4. CASE GoesOn(c, k)
  <2>0. Stays(c, k) /\ Recalls(c)'
    BY <1>4 DEF GoesOn
  <2>1. Steps(c)' = Steps(c)
    BY <1>1, <2>0 DEF Steps, Routes, Grown, Stays
  <2>2. Len(Steps(c)) \in Nat
    BY <1>2, Shape DEF EntityInv
  <2>3. Placed(c)' /\ client'[c].pc # 0
    BY <1>1, <1>2, <2>0, <2>1, <2>2 DEF Placed, Stays
  <2>4. Aimed(c)'
    BY <1>1, <2>0 DEF Aimed, Stays
  <2>5. PICK s : s = Steps(c)[k.pc] /\ Due(c, s)'
    BY <1>4 DEF GoesOn
  <2>6. Due(c, Steps(c)[client[c].pc])'
    BY <1>1, <2>1, <2>5 DEF Due
  <2> QED
    BY <1>1, <2>0, <2>3, <2>4, <2>6 DEF RequestOK
<1> QED
  BY <1>3, <1>4

\* A request goes on to its next step.
LEMMA Onward ==
  ASSUME EntityInv, NEW c \in Clients, NEW step, Doing(c, step), NEW k \in ClientState,
         client[c].pc < Len(Steps(c)), k.pc = client[c].pc + 1, k.op = client[c].op,
         k.op \in {"patch", "remove"} => k.at \in k.ids
  PROVE  /\ Stays(c, k)
         /\ \E s : s = Steps(c)[k.pc] /\ Follows(s, step)
<1>1. /\ EntityProgram(client[c].op, Steps(c)) /\ Len(Steps(c)) \in Nat
      /\ client[c].pc \in 1..Len(Steps(c)) /\ Steps(c)[client[c].pc] = step
  BY AtStep
<1>2. Stays(c, k)
  BY <1>1 DEF Stays
<1>3. PICK s : s = Steps(c)[k.pc]
  OBVIOUS
<1>4. Follows(s, step)
  <2>1. Follows(Steps(c)[client[c].pc + 1], Steps(c)[client[c].pc])
    BY <1>1, Succession
  <2> QED
    BY <1>1, <1>3, <2>1
<1> QED
  BY <1>2, <1>3, <1>4

-----------------------------------------------------------------------------
(* What the trail tells *)

\* More entries tell no less, and one with the value itself is enough.
LEMMA ToldMore ==
  ASSUME NEW E, NEW F, NEW i, NEW row, Told(E, i, row), \A e \in E : i \in e.ids => e \in F
  PROVE  Told(F, i, row)
  BY DEF Told

LEMMA ToldBy ==
  ASSUME NEW F, NEW i, NEW row, NEW e \in F, i \in e.ids, e.new = row
  PROVE  Told(F, i, row)
  BY DEF Told

LEMMA SameTelling ==
  ASSUME entityPort' = entityPort
  PROVE  /\ LogsReturnedRow' <=> LogsReturnedRow
         /\ \A E, i, row : Told(E, i, row)' <=> Told(E, i, row)
  BY DEF LogsReturnedRow, ReturningPorts, Told

LEMMA EntriesTyped ==
  ASSUME EntityInv, NEW e \in Entries
  PROVE  e \in AuditEntry /\ e.ids \subseteq Ids
<1>1. e \in AuditEntry
  BY EntriesAre, ClientParts DEF EntityInv, EntityTypes
<1> QED
  BY <1>1 DEF AuditEntry

LEMMA StillCovered ==
  ASSUME EntityInv, entityPort' = entityPort, unlogged \subseteq unlogged',
         \A i \in Ids \ unlogged' : \A e \in Entries : i \in e.ids => e \in Entries',
         \A i \in Ids \ unlogged' : \A row \in been'[i] : row \in been[i] \/ Told(Entries', i, row)
  PROVE  Covered'
<1>1. ASSUME NEW i \in Ids \ unlogged', NEW row \in been'[i] PROVE Told(Entries', i, row)
  <2>1. CASE row \in been[i]
    <3>1. Told(Entries, i, row)
      BY <1>1, <2>1 DEF EntityInv, Covered
    <3> QED
      BY <1>1, <3>1, ToldMore
  <2> QED
    BY <1>1, <2>1
<1>2. ASSUME NEW i \in Ids \ unlogged', NEW row \in been'[i] PROVE Told(Entries, i, row)'
  <2>1. Told(Entries', i, row)
    BY <1>1, <1>2
  <2>2. LogsReturnedRow' <=> LogsReturnedRow
    BY SameTelling
  <2> QED
    BY <2>1, <2>2 DEF Told
<1> QED
  BY <1>2 DEF Covered

LEMMA StillReal ==
  ASSUME EntityInv, entityPort' = entityPort, \A i \in Ids : been[i] \subseteq been'[i],
         \A e \in Entries' : e \in Entries \/ Real(e)'
  PROVE  \A e \in Entries' : Real(e)'
<1> SUFFICES ASSUME NEW e \in Entries, NEW i \in e.ids
             PROVE  /\ e.old # Absent => e.old \in been'[i]
                    /\ LogsReturnedRow' => e.new \in been'[i]
  BY DEF Real
<1>1. i \in Ids /\ Real(e)
  BY EntriesTyped DEF EntityInv
<1> QED
  BY <1>1, SameTelling DEF Real

-----------------------------------------------------------------------------
(* Steps that write nothing *)

Quiet ==
  /\ UNCHANGED <<entityPort, soft, table, audit, been>>
  /\ unlogged \subseteq unlogged' /\ unlogged' \in SUBSET Ids

LEMMA StateSame ==
  ASSUME EntityInv, UNCHANGED <<entityPort, soft, table, audit, writes, been, unlogged>>
  PROVE  Quiet
  BY DEF Quiet, EntityInv, EntityTypes

LEMMA QuietKeeps ==
  ASSUME EntityInv, NEW c \in Clients, NEW step, Doing(c, step), step \notin AuditSteps,
         NEW k \in ClientState, Replaced(c, k), k.pending = {}, Quiet,
         k = NoClient \/ GoesOn(c, k)
  PROVE  EntityInv'
<1>1. client[c].pending = {} /\ client[c].pc # 0
  BY AtStep DEF Due, Doing
<1>2. \A e : e \in Entries' <=> e \in Entries
  BY <1>1, EntriesAre, EntriesBecome DEF Quiet
<1>3. Grown /\ Noticed(c)
  BY DEF Grown, Noticed, Quiet
<1>4. Covered'
  <2>1. \A i \in Ids \ unlogged' : \A row \in been'[i] : row \in been[i]
    BY DEF Quiet
  <2> QED
    BY <1>2, <2>1, StillCovered DEF Quiet
<1>5. Rows'
  BY DEF Rows, EntityInv, Quiet
<1>6. \A e \in Entries' : Real(e)'
  BY <1>2, StillReal DEF Quiet
<1>7. RequestOK(c)'
  BY <1>1, <1>3, Kept
<1>8. /\ unlogged' \in SUBSET Ids /\ table' \in [Ids -> Row] /\ been' \in [Ids -> SUBSET Row]
      /\ audit' \subseteq AuditEntry
  BY DEF Quiet, EntityInv, EntityTypes
<1> QED
  BY <1>3, <1>4, <1>5, <1>6, <1>7, <1>8, StepKeeps

LEMMA RespondKeeps ==
  ASSUME EntityInv, NEW c \in Clients, NEW step, Doing(c, step), step \notin AuditSteps,
         Respond(c), Quiet
  PROVE  EntityInv'
<1>1. Replaced(c, NoClient)
  BY NoClientFacts, Replacing DEF Respond, EntityInv
<1> QED
  BY <1>1, NoClientFacts, QuietKeeps

\* What a request that goes on after a read knows.
Learned(c, step, known) ==
  /\ known.pc = client[c].pc /\ known.op = client[c].op /\ known.pending = {}
  /\ known.ids \subseteq client[c].ids
  /\ known.op \in {"patch", "remove"} => known.at \in known.ids
  /\ known.old # Absent => known.at \in Ids /\ known.old \in been[known.at]
  /\ \A o \in known.olds : o[2] \in been[o[1]]
  /\ step \in {"findRow", "loadForSave"} => Visible(known.old)
  /\ step \in {"lookupMatching", "findOlds", "loadBody"} => \A o \in known.olds : o[1] \in known.ids
  /\ step \in {"lookupMatching", "findOlds"} =>
       \A i \in known.ids : i \in unlogged' \/ table[i].state = "absent" \/ \E o \in known.olds : o[1] = i
  /\ step = "lookupNext" => known.at \in known.ids

LEMMA ReadKeeps ==
  ASSUME EntityInv, NEW c \in Clients, NEW step, Doing(c, step),
         step \notin AuditSteps,
         NEW known \in ClientState, Learned(c, step, known), Continue(c, known), Quiet
  PROVE  EntityInv'
<1>0. known.pc = client[c].pc /\ known.op = client[c].op
  BY DEF Learned
<1>1. PICK k \in ClientState :
        /\ Replaced(c, k)
        /\ \/ k = NoClient /\ client[c].pc = Len(Steps(c))
           \/ /\ client[c].pc < Len(Steps(c)) /\ Carries(k, known)
              /\ k.pc = client[c].pc + 1
  BY <1>0, Continued
<1>2. CASE k = NoClient
  BY <1>1, <1>2, NoClientFacts, QuietKeeps
<1>3. CASE client[c].pc < Len(Steps(c)) /\ Carries(k, known) /\ k.pc = client[c].pc + 1
  <2>1. Stays(c, k) /\ \E s : s = Steps(c)[k.pc] /\ Follows(s, step)
    BY <1>0, <1>3, Onward DEF Carries, Learned
  <2>2. PICK s : s = Steps(c)[k.pc] /\ Follows(s, step)
    BY <2>1
  <2>3. client'[c] = k
    BY <1>1 DEF Replaced
  <2>4. s = "deleteIds" => Prepared(c)'
    BY <1>3, <2>2, <2>3 DEF Follows, Prepared, Carries, Learned, Quiet
  <2>5. s = "hideNext" => k.at \in k.ids
    BY <1>3, <2>2 DEF Follows, Carries, Learned
  <2>6. s \in {"saveBody", "deleteIds"} => \A o \in k.olds : o[1] \in k.ids
    BY <1>3, <2>2 DEF Follows, Carries, Learned
  <2>7. s \in {"updateInstance", "loadForSave", "saveEntity", "destroy"} => Visible(k.old)
    BY <1>3, <2>2 DEF Follows, Carries, Learned
  <2>8. k.pending = {}
    BY <1>3 DEF Carries, Learned
  <2>9. Due(c, s)'
    BY <2>3, <2>4, <2>5, <2>6, <2>7, <2>8 DEF Due, Visible
  <2>10. Recalls(c)'
    BY <1>3, <2>3 DEF Recalls, Carries, Quiet, Learned
  <2>11. GoesOn(c, k)
    BY <2>1, <2>2, <2>9, <2>10 DEF GoesOn
  <2> QED
    BY <1>1, <2>8, <2>11, QuietKeeps
<1> QED
  BY <1>1, <1>2, <1>3

\* What a request knows may be replaced piece by piece.
LEMMA Knowing ==
  ASSUME NEW k \in ClientState
  PROVE  /\ \A x \in SUBSET Ids : LET n == [k EXCEPT !.ids = x] IN
              /\ n \in ClientState /\ n.ids = x /\ n.pc = k.pc /\ n.op = k.op /\ n.at = k.at
              /\ n.old = k.old /\ n.olds = k.olds /\ n.pending = k.pending
         /\ \A x \in Row : LET n == [k EXCEPT !.old = x] IN
              /\ n \in ClientState /\ n.old = x /\ n.pc = k.pc /\ n.op = k.op /\ n.at = k.at
              /\ n.ids = k.ids /\ n.olds = k.olds /\ n.pending = k.pending
         /\ \A x \in SUBSET (Ids \X Row) : LET n == [k EXCEPT !.olds = x] IN
              /\ n \in ClientState /\ n.olds = x /\ n.pc = k.pc /\ n.op = k.op /\ n.at = k.at
              /\ n.ids = k.ids /\ n.old = k.old /\ n.pending = k.pending
         /\ \A x \in SUBSET {"state", "a", "b"} : LET n == [k EXCEPT !.differs = x] IN
              /\ n \in ClientState /\ n.pc = k.pc /\ n.op = k.op /\ n.at = k.at
              /\ n.ids = k.ids /\ n.old = k.old /\ n.olds = k.olds /\ n.pending = k.pending
         /\ \A x \in SUBSET AuditEntry : LET n == [k EXCEPT !.pending = x] IN
              /\ n \in ClientState /\ n.pending = x /\ n.pc = k.pc /\ n.op = k.op /\ n.at = k.at
              /\ n.ids = k.ids /\ n.old = k.old /\ n.olds = k.olds
  BY DEF ClientState

\* A request's row, for the steps that work on one.
LEMMA AtRow ==
  ASSUME EntityInv, NEW c \in Clients, client[c].at \in client[c].ids, client[c].ids \subseteq Ids
  PROVE  /\ Id(c) = client[c].at /\ Id(c) \in Ids /\ Current(c) = table[Id(c)] /\ Current(c) \in Row
         /\ Current(c).state = "absent" => Current(c) = Absent
         /\ Current(c) # Absent => Current(c) \in been[Id(c)]
<1>1. Id(c) = client[c].at /\ Id(c) \in Ids /\ Current(c) = table[Id(c)]
  BY DEF Id, Current
<1> QED
  BY <1>1 DEF EntityInv, EntityTypes, Rows

\* A step that only goes on.
LEMMA SameKeeps ==
  ASSUME EntityInv, NEW c \in Clients, NEW step, Doing(c, step), Quiet, Continue(c, client[c]),
         step \notin AuditSteps \cup {"findRow", "loadForSave", "loadBody", "lookupMatching",
                                      "findOlds", "lookupNext"}
  PROVE  EntityInv'
<1>1. client[c] \in ClientState /\ Due(c, step) /\ Recalls(c) /\ Aimed(c) /\ step \notin AuditSteps
  BY AtStep
<1>2. Learned(c, step, client[c])
  BY <1>1 DEF Learned, Due, Recalls, Aimed
<1> QED
  BY <1>1, <1>2, ReadKeeps

LEMMA ScopesKeep ==
  ASSUME EntityInv, NEW c \in Clients, ReadRows(c) \/ InScope(c) \/ InScopeIds(c)
  PROVE  EntityInv'
<1>1. CASE ReadRows(c)
  <2>1. Doing(c, "readRows") /\ Continue(c, client[c]) /\ Quiet
    BY <1>1, StateSame DEF ReadRows
  <2> QED
    BY <2>1, SameKeeps DEF AuditSteps
<1>2. CASE InScope(c)
  <2>1. Doing(c, "inScope") /\ (Continue(c, client[c]) \/ Respond(c)) /\ Quiet
    BY <1>2, StateSame DEF InScope
  <2> QED
    BY <2>1, SameKeeps, RespondKeeps DEF AuditSteps
<1>3. CASE InScopeIds(c)
  <2>1. Doing(c, "inScopeIds") /\ Quiet
    BY <1>3, StateSame DEF InScopeIds
  <2>2. CASE Respond(c)
    BY <2>1, <2>2, RespondKeeps DEF AuditSteps
  <2>3. ASSUME NEW ids \in SUBSET client[c].ids, Continue(c, [client[c] EXCEPT !.ids = ids])
        PROVE  EntityInv'
    <3> DEFINE n == [client[c] EXCEPT !.ids = ids]
    <3>1. client[c] \in ClientState /\ Due(c, "inScopeIds") /\ Recalls(c) /\ client[c].op = "bulkDelete"
      BY <2>1, AtStep, StepNames
    <3>2. ids \in SUBSET Ids
      BY <3>1, ClientParts
    <3>3. /\ n \in ClientState /\ n.ids = ids /\ n.pc = client[c].pc /\ n.op = client[c].op
          /\ n.at = client[c].at /\ n.old = client[c].old /\ n.olds = client[c].olds
          /\ n.pending = client[c].pending
      BY <3>1, <3>2, Knowing
    <3>4. Continue(c, n)
      BY <2>3
    <3> HIDE DEF n
    <3>5. Learned(c, "inScopeIds", n)
      BY <3>1, <3>3 DEF Learned, Due, Recalls, AuditSteps
    <3> QED
      BY <2>1, <3>3, <3>4, <3>5, ReadKeeps DEF AuditSteps
  <2> QED
    BY <1>3, <2>2, <2>3 DEF InScopeIds
<1> QED
  BY <1>1, <1>2, <1>3

LEMMA RowReadsKeep ==
  ASSUME EntityInv, NEW c \in Clients, FindRow(c) \/ LookupOld(c) \/ SelectBefore(c)
  PROVE  EntityInv'
<1>1. ASSUME NEW step \in {"findRow", "lookupOld", "selectBefore"}, Doing(c, step), Quiet,
             step = "findRow" => Visible(Current(c)),
             NEW old \in {Current(c), Absent}, step = "findRow" => old = Current(c),
             Continue(c, [client[c] EXCEPT !.old = old])
      PROVE  EntityInv'
  <2> DEFINE n == [client[c] EXCEPT !.old = old]
  <2>1. /\ client[c] \in ClientState /\ Due(c, step) /\ Recalls(c) /\ Aimed(c)
        /\ client[c].op \in {"patch", "remove"} /\ step \notin AuditSteps
    BY <1>1, AtStep, StepNames DEF AuditSteps
  <2>2. client[c].ids \subseteq Ids /\ client[c].at \in client[c].ids
    BY <2>1, ClientParts DEF Aimed
  <2>3. old \in Row /\ (old # Absent => client[c].at \in Ids /\ old \in been[client[c].at])
    BY <2>2, AtRow, RowFacts
  <2>4. /\ n \in ClientState /\ n.ids = client[c].ids /\ n.pc = client[c].pc /\ n.op = client[c].op
        /\ n.at = client[c].at /\ n.old = old /\ n.olds = client[c].olds
        /\ n.pending = client[c].pending
    BY <2>1, <2>3, Knowing
  <2>5. Continue(c, n)
    BY <1>1
  <2> HIDE DEF n
  <2>6. Learned(c, step, n)
    BY <1>1, <2>1, <2>2, <2>3, <2>4 DEF Learned, Due, Recalls
  <2> QED
    BY <1>1, <2>1, <2>4, <2>5, <2>6, ReadKeeps
<1>2. CASE FindRow(c)
  <2>1. Doing(c, "findRow") /\ Quiet
    BY <1>2, StateSame DEF FindRow
  <2>2. CASE Respond(c)
    BY <2>1, <2>2, RespondKeeps DEF AuditSteps
  <2>3. CASE Visible(Current(c)) /\ Continue(c, [client[c] EXCEPT !.old = Current(c)])
    BY <1>1, <2>1, <2>3
  <2> QED
    BY <1>2, <2>2, <2>3 DEF FindRow
<1>3. CASE LookupOld(c)
  <2>1. Doing(c, "lookupOld") /\ Quiet
    BY <1>3, StateSame DEF LookupOld
  <2>2. PICK old \in {Current(c), Absent} : Continue(c, [client[c] EXCEPT !.old = old])
    BY <1>3 DEF LookupOld
  <2> QED
    BY <1>1, <2>1, <2>2
<1>4. CASE SelectBefore(c)
  <2>1. Doing(c, "selectBefore") /\ Quiet
    BY <1>4, StateSame DEF SelectBefore
  <2>2. Continue(c, [client[c] EXCEPT !.old = Current(c)])
    BY <1>4 DEF SelectBefore
  <2> QED
    BY <1>1, <2>1, <2>2
<1> QED
  BY <1>2, <1>3, <1>4

\* The rows a request reads before it deletes or saves them.
LEMMA RowsRead ==
  ASSUME EntityInv, NEW c \in Clients, client[c].ids \subseteq Ids
  PROVE  /\ RowsOf(c) \in SUBSET (Ids \X Row)
         /\ \A o \in RowsOf(c) : o[2] \in been[o[1]] /\ o[1] \in client[c].ids
         /\ \A i \in client[c].ids : table[i].state = "absent" \/ \E o \in RowsOf(c) : o[1] = i
<1>1. RowsOf(c) \in SUBSET (Ids \X Row)
  BY DEF RowsOf, EntityInv, EntityTypes
<1>2. \A o \in RowsOf(c) : o[2] \in been[o[1]] /\ o[1] \in client[c].ids
  BY RowFacts DEF RowsOf, EntityInv, Rows, Existing
<1>3. ASSUME NEW i \in client[c].ids, table[i].state # "absent" PROVE \E o \in RowsOf(c) : o[1] = i
  <2>1. <<i, table[i]>> \in RowsOf(c)
    BY <1>3 DEF RowsOf, Existing
  <2> QED
    BY <2>1
<1> QED
  BY <1>1, <1>2, <1>3

LEMMA ManyReadsKeep ==
  ASSUME EntityInv, NEW c \in Clients, LookupMatching(c) \/ FindOlds(c)
  PROVE  EntityInv'
<1>1. ASSUME NEW step \in {"lookupMatching", "findOlds", "loadBody"}, Doing(c, step), Quiet,
             Continue(c, [client[c] EXCEPT !.olds = RowsOf(c)])
      PROVE  EntityInv'
  <2> DEFINE n == [client[c] EXCEPT !.olds = RowsOf(c)]
  <2>1. client[c] \in ClientState /\ Due(c, step) /\ Recalls(c) /\ Aimed(c) /\ step \notin AuditSteps
    BY <1>1, AtStep DEF AuditSteps
  <2>2. client[c].ids \subseteq Ids
    BY <2>1, ClientParts
  <2>3. PICK olds \in SUBSET (Ids \X Row) : olds = RowsOf(c)
    BY <2>2, RowsRead
  <2>4. /\ \A o \in olds : o[2] \in been[o[1]] /\ o[1] \in client[c].ids
        /\ \A i \in client[c].ids : table[i].state = "absent" \/ \E o \in olds : o[1] = i
    BY <2>2, <2>3, RowsRead
  <2>5. /\ n \in ClientState /\ n.ids = client[c].ids /\ n.pc = client[c].pc /\ n.op = client[c].op
        /\ n.at = client[c].at /\ n.old = client[c].old /\ n.olds = olds
        /\ n.pending = client[c].pending
    BY <2>1, <2>3, Knowing
  <2>6. Continue(c, n)
    BY <1>1
  <2> HIDE DEF n
  <2>7. Learned(c, step, n)
    BY <1>1, <2>1, <2>4, <2>5 DEF Learned, Due, Recalls, Aimed
  <2> QED
    BY <1>1, <2>1, <2>5, <2>6, <2>7, ReadKeeps
<1>2. CASE FindOlds(c)
  BY <1>1, <1>2, StateSame DEF FindOlds
<1>3. CASE LookupMatching(c)
  <2>1. /\ Doing(c, "lookupMatching")
        /\ UNCHANGED <<entityPort, soft, table, audit, writes, been>>
    BY <1>3 DEF LookupMatching
  <2>2. CASE Continue(c, [client[c] EXCEPT !.olds = RowsOf(c)]) /\ UNCHANGED unlogged
    <3>1. Quiet
      BY <2>1, <2>2, StateSame
    <3> QED
      BY <1>1, <2>1, <2>2, <3>1
  <2>3. CASE /\ Continue(c, [client[c] EXCEPT !.olds = {}])
             /\ unlogged' = unlogged \cup client[c].ids
    <3> DEFINE n == [client[c] EXCEPT !.olds = {}]
    <3>1. client[c] \in ClientState /\ Due(c, "lookupMatching") /\ Recalls(c) /\ Aimed(c)
      BY <2>1, AtStep
    <3>2. Quiet
      BY <2>1, <2>3, <3>1, ClientParts DEF Quiet, EntityInv, EntityTypes
    <3>3. PICK olds \in SUBSET (Ids \X Row) : olds = {}
      OBVIOUS
    <3>4. /\ n \in ClientState /\ n.ids = client[c].ids /\ n.pc = client[c].pc /\ n.op = client[c].op
          /\ n.at = client[c].at /\ n.old = client[c].old /\ n.olds = {}
          /\ n.pending = client[c].pending
      BY <3>1, <3>3, Knowing
    <3>5. Continue(c, n)
      BY <2>3
    <3> HIDE DEF n
    <3>6. Learned(c, "lookupMatching", n)
      BY <2>3, <3>1, <3>4 DEF Learned, Due, Recalls, Aimed, AuditSteps
    <3> QED
      BY <2>1, <3>2, <3>4, <3>5, <3>6, ReadKeeps DEF AuditSteps
  <2> QED
    BY <1>3, <2>2, <2>3 DEF LookupMatching
<1> QED
  BY <1>2, <1>3

LEMMA LookupsKeep ==
  ASSUME EntityInv, NEW c \in Clients, LookupNext(c) \/ LoadForSave(c) \/ NoSuchRow(c)
  PROVE  EntityInv'
<1>1. CASE LookupNext(c)
  <2>1. Doing(c, "lookupNext") /\ Quiet
    BY <1>1, StateSame DEF LookupNext
  <2>2. PICK i \in client[c].ids :
          \E row \in {table[i], Absent} : Continue(c, [client[c] EXCEPT !.at = i, !.old = row])
    BY <1>1 DEF LookupNext
  <2> PICK old \in {table[i], Absent} : Continue(c, [client[c] EXCEPT !.at = i, !.old = old])
    BY <2>2
  <2> DEFINE n == [client[c] EXCEPT !.at = i, !.old = old]
  <2>3. client[c] \in ClientState /\ Due(c, "lookupNext") /\ Recalls(c) /\ client[c].op = "bulkDelete"
    BY <2>1, AtStep, StepNames
  <2>4. i \in Ids /\ old \in Row /\ (old # Absent => old \in been[i])
    BY <2>3, ClientParts, RowFacts DEF EntityInv, EntityTypes, Rows
  <2>5. /\ n \in ClientState /\ n.ids = client[c].ids /\ n.pc = client[c].pc /\ n.op = client[c].op
        /\ n.at = i /\ n.old = old /\ n.olds = client[c].olds /\ n.pending = client[c].pending
    <3>1. PICK row \in Row : row = old
      BY <2>4
    <3> QED
      BY <2>3, <2>4, <3>1 DEF ClientState
  <2>6. Continue(c, n)
    OBVIOUS
  <2> HIDE DEF n
  <2>7. Learned(c, "lookupNext", n)
    BY <2>3, <2>4, <2>5 DEF Learned, Due, Recalls, AuditSteps
  <2> QED
    BY <2>1, <2>5, <2>6, <2>7, ReadKeeps DEF AuditSteps
<1>2. CASE LoadForSave(c)
  <2> DEFINE differs == IF Current(c).state = "absent" THEN {"state"}
                        ELSE {k \in Columns : Patched(c, client[c].old)[k] # Current(c)[k]}
             n == [client[c] EXCEPT !.differs = differs]
  <2>1. Doing(c, "loadForSave") /\ Quiet /\ Continue(c, n)
    BY <1>2, StateSame DEF LoadForSave
  <2>2. client[c] \in ClientState /\ Due(c, "loadForSave") /\ Recalls(c) /\ Aimed(c)
    BY <2>1, AtStep
  <2>3. differs \in SUBSET {"state", "a", "b"}
    BY DEF Columns
  <2> HIDE DEF differs
  <2>4. /\ n \in ClientState /\ n.ids = client[c].ids /\ n.pc = client[c].pc /\ n.op = client[c].op
        /\ n.at = client[c].at /\ n.old = client[c].old /\ n.olds = client[c].olds
        /\ n.pending = client[c].pending
    BY <2>2, <2>3, Knowing
  <2> HIDE DEF n
  <2>5. Learned(c, "loadForSave", n)
    BY <2>2, <2>4 DEF Learned, Due, Recalls, Aimed, AuditSteps
  <2> QED
    BY <2>1, <2>4, <2>5, ReadKeeps DEF AuditSteps
<1>3. CASE NoSuchRow(c)
  BY <1>3, StateSame, RespondKeeps DEF NoSuchRow, AuditSteps
<1> QED
  BY <1>1, <1>2, <1>3

LEMMA FailureKeeps ==
  ASSUME EntityInv, NEW c \in Clients, StatementFails(c)
  PROVE  EntityInv'
<1>1. PICK step : step = Steps(c)[client[c].pc]
  OBVIOUS
<1>2. Doing(c, step) /\ step \notin AuditSteps /\ Respond(c) /\ Quiet
  BY <1>1, StateSame DEF StatementFails, Doing
<1> QED
  BY <1>2, RespondKeeps

LEMMA AgainKeeps ==
  ASSUME EntityInv, NEW c \in Clients, Again(c)
  PROVE  EntityInv'
<1> DEFINE loop == CHOOSE n \in 1..Len(Steps(c)) : Steps(c)[n] = "lookupNext"
<1>1. Doing(c, "again") /\ Quiet
  BY StateSame DEF Again
<1>2. /\ client[c] \in ClientState /\ Due(c, "again") /\ Recalls(c) /\ client[c].op = "bulkDelete"
      /\ EntityProgram(client[c].op, Steps(c)) /\ Len(Steps(c)) \in Nat
      /\ client[c].pc \in 1..Len(Steps(c)) /\ Steps(c)[client[c].pc] = "again"
  BY <1>1, AtStep, StepNames
<1>3. \E n \in 1..Len(Steps(c)) : Steps(c)[n] = "lookupNext"
  BY <1>2 DEF EntityProgram
<1>4. loop \in 1..Len(Steps(c)) /\ Steps(c)[loop] = "lookupNext"
  BY <1>3
<1>5. CASE Respond(c)
  BY <1>1, <1>5, RespondKeeps DEF AuditSteps
<1>6. CASE client' = [client EXCEPT ![c] = [client[c] EXCEPT !.ids = client[c].ids \ {Id(c)}, !.pc = loop]]
  <2> HIDE DEF loop
  <2> DEFINE k == [client[c] EXCEPT !.ids = client[c].ids \ {Id(c)}, !.pc = loop]
  <2>1. loop \in Nat
    BY <1>2, <1>4
  <2>2. /\ k \in ClientState /\ k.op = client[c].op /\ k.pc = loop /\ k.ids = client[c].ids \ {Id(c)}
        /\ k.at = client[c].at /\ k.old = client[c].old /\ k.olds = client[c].olds
        /\ k.pending = client[c].pending
    BY <1>2, <2>1 DEF ClientState
  <2>3. client' = [client EXCEPT ![c] = k]
    BY <1>6
  <2> HIDE DEF k
  <2>4. Replaced(c, k) /\ client'[c] = k
    BY <2>2, <2>3, Replacing DEF EntityInv, Replaced
  <2>5. Stays(c, k) /\ Recalls(c)'
    BY <1>1, <1>2, <1>4, <2>2, <2>4 DEF Stays, Recalls, Quiet
  <2>6. k.pending = {}
    BY <1>2, <2>2 DEF Due, AuditSteps
  <2>7. PICK s : s = Steps(c)[k.pc]
    OBVIOUS
  <2>8. s = "lookupNext"
    BY <1>4, <2>2, <2>7
  <2>9. Due(c, s)'
    BY <2>4, <2>6, <2>8 DEF Due
  <2>10. GoesOn(c, k)
    BY <2>5, <2>7, <2>9 DEF GoesOn
  <2> QED
    BY <1>1, <2>2, <2>4, <2>6, <2>10, QuietKeeps DEF AuditSteps
<1> QED
  BY <1>5, <1>6 DEF Again

-----------------------------------------------------------------------------
(* Writes *)

\* The rows after a write.
Written(c) ==
  /\ table' \in [Ids -> Row] /\ been' \in [Ids -> SUBSET Row] /\ unlogged' \in SUBSET Ids
  /\ Rows' /\ Grown /\ Noticed(c) /\ audit' = audit
  /\ \A i \in Ids : \A row \in been'[i] :
       row \in been[i] \/ (row = table'[i] /\ table'[i] # table[i])

\* The entries P account for the write.
Accounted(P) ==
  /\ \A i \in Ids \ unlogged' : table'[i] # table[i] => Told(Entries \cup P, i, table'[i])
  /\ \A e \in P : Real(e)'

\* A write is followed by its audit entries.
LEMMA WriteKeeps ==
  ASSUME EntityInv, NEW c \in Clients, NEW step \in EntityWrites, Doing(c, step),
         NEW known \in ClientState, known.pc = client[c].pc, known.op = client[c].op,
         known.ids = client[c].ids, known.at = client[c].at, known.old = client[c].old,
         known.olds \subseteq client[c].olds, Continue(c, known),
         Written(c), Accounted(known.pending)
  PROVE  EntityInv'
<1>1. /\ client[c].pending = {} /\ client[c].pc # 0 /\ client[c] \in ClientState
      /\ EntityProgram(client[c].op, Steps(c)) /\ Len(Steps(c)) \in Nat
      /\ client[c].pc \in 1..Len(Steps(c)) /\ Steps(c)[client[c].pc] = step
      /\ Aimed(c) /\ Recalls(c)
  BY AtStep, StepNames DEF Due, Doing
<1>2. client[c].pc < Len(Steps(c))
  BY <1>1, NotLast
<1>3. PICK k \in ClientState : /\ Replaced(c, k) /\ Carries(k, known) /\ k.pc = client[c].pc + 1
  BY <1>1, <1>2, Continued
<1>4. k.pending = known.pending /\ client'[c] = k
  BY <1>3 DEF Carries, Replaced
<1>5. \A e : e \in Entries' <=> e \in Entries \/ e \in known.pending
  BY <1>1, <1>3, <1>4, EntriesAre, EntriesBecome DEF Written
<1>6. Covered'
  <2>1. Entries' = Entries \cup known.pending
    BY <1>5
  <2>2. \A i \in Ids \ unlogged' : \A row \in been'[i] : row \in been[i] \/ Told(Entries', i, row)
    BY <2>1 DEF Written, Accounted
  <2> QED
    BY <1>5, <2>2, StillCovered DEF Written, Grown
<1>7. \A e \in Entries' : Real(e)'
  BY <1>5, StillReal DEF Written, Grown, Accounted
<1>8. GoesOn(c, k)
  <2>1. Stays(c, k) /\ \E s : s = Steps(c)[k.pc] /\ Follows(s, step)
    BY <1>1, <1>2, <1>3, Onward DEF Carries, Aimed
  <2>2. Recalls(c)'
    <3>1. \A o \in client[c].olds : o[1] \in Ids
      BY <1>1, ClientParts
    <3> QED
      BY <1>1, <1>3, <1>4, <3>1 DEF Recalls, Carries, Written, Grown
  <2>3. PICK s : s = Steps(c)[k.pc] /\ Follows(s, step)
    BY <2>1
  <2>4. Due(c, s)'
    <3>1. s \in {"auditEach", "auditAll"}
      BY <2>3 DEF Follows, AuditSteps
    <3> QED
      BY <3>1 DEF Due, AuditSteps
  <2> QED
    BY <2>1, <2>2, <2>3, <2>4 DEF GoesOn
<1>9. RequestOK(c)'
  BY <1>1, <1>3, <1>8, Kept DEF Written
<1>10. audit' \subseteq AuditEntry
  BY DEF EntityInv, EntityTypes, Written
<1> QED
  BY <1>3, <1>6, <1>7, <1>9, <1>10, StepKeeps DEF Written

\* What Become does.
LEMMA Became ==
  ASSUME EntityInv, NEW c \in Clients, NEW new \in [Ids -> Row], Become(new),
         \A i \in Ids : new[i].state = "absent" => new[i] = Absent,
         UNCHANGED <<entityPort, soft, audit>>
  PROVE  /\ Written(c) /\ table' = new
         /\ \A i \in Ids : new[i] # table[i] \/ been[i] # {} => new[i] \in been'[i]
<1>1. /\ table' = new /\ been \in [Ids -> SUBSET Row] /\ unlogged \in SUBSET Ids
      /\ unlogged' = unlogged \cup Overtaken(new)
  BY DEF Become, EntityInv, EntityTypes
<1>2. \A i \in Ids : been'[i] = IF new[i] = table[i] THEN been[i] ELSE been[i] \cup {new[i]}
  BY DEF Become
<1>3. been' \in [Ids -> SUBSET Row] /\ unlogged' \in SUBSET Ids
  <2>1. Overtaken(new) \subseteq Ids
    BY DEF Overtaken
  <2>2. been' = [i \in Ids |-> IF new[i] = table[i] THEN been[i] ELSE been[i] \cup {new[i]}]
    BY DEF Become
  <2> QED
    BY <1>1, <2>1, <2>2
<1>4. Grown
  BY <1>1, <1>2 DEF Grown
<1>5. Rows' /\ \A i \in Ids : new[i] # table[i] \/ been[i] # {} => new[i] \in been'[i]
  <2>1. \A i \in Ids : new[i] # table[i] \/ been[i] # {} => new[i] \in been'[i]
    BY <1>2 DEF EntityInv, Rows
  <2>2. \A i \in Ids : new[i] \in been'[i] \/ (new[i] = Absent /\ been'[i] = {})
    BY <1>2, <2>1 DEF EntityInv, Rows
  <2> QED
    BY <1>1, <2>1, <2>2 DEF Rows
<1>6. Noticed(c)
  <2> SUFFICES ASSUME NEW d \in Clients \ {c}, Doing(d, "deleteIds"), NEW i \in client[d].ids,
                      table[i].state = "absent", table'[i].state # "absent",
                      \A o \in client[d].olds : o[1] # i
               PROVE  i \in unlogged'
    BY DEF Noticed
  <2>1. i \in Ids
    BY ClientParts DEF EntityInv, EntityTypes
  <2>2. i \in Overtaken(new)
    BY <1>1, <2>1 DEF Overtaken
  <2> QED
    BY <1>1, <2>2
<1> QED
  BY <1>1, <1>2, <1>3, <1>4, <1>5, <1>6 DEF Written

LEMMA Untouched ==
  ASSUME EntityInv, NEW c \in Clients, UNCHANGED <<entityPort, soft, audit, table, been, unlogged>>
  PROVE  Written(c)
<1>1. Rows'
  BY DEF EntityInv, Rows
<1> QED
  BY <1>1 DEF Written, Grown, Noticed, EntityInv, EntityTypes

\* A request keeps what it knows and gets entries to write.
LEMMA Logging ==
  ASSUME EntityInv, NEW c \in Clients, NEW step \in EntityWrites, Doing(c, step),
         NEW P \in SUBSET AuditEntry, Continue(c, [client[c] EXCEPT !.pending = P]),
         Written(c), Accounted(P)
  PROVE  EntityInv'
<1> DEFINE known == [client[c] EXCEPT !.pending = P]
<1>1. client[c] \in ClientState
  BY DEF EntityInv, EntityTypes
<1>2. /\ known \in ClientState /\ known.pending = P /\ known.pc = client[c].pc
      /\ known.op = client[c].op /\ known.at = client[c].at /\ known.ids = client[c].ids
      /\ known.old = client[c].old /\ known.olds = client[c].olds
  BY <1>1, Knowing
<1>3. Continue(c, known)
  OBVIOUS
<1> HIDE DEF known
<1> QED
  BY <1>2, <1>3, WriteKeeps

\* The same when what was read is let go.
LEMMA LoggingReads ==
  ASSUME EntityInv, NEW c \in Clients, NEW step \in EntityWrites, Doing(c, step),
         NEW P \in SUBSET AuditEntry, Continue(c, [client[c] EXCEPT !.olds = {}, !.pending = P]),
         Written(c), Accounted(P)
  PROVE  EntityInv'
<1> DEFINE known == [client[c] EXCEPT !.olds = {}, !.pending = P]
<1>1. client[c] \in ClientState
  BY DEF EntityInv, EntityTypes
<1>2. /\ known \in ClientState /\ known.pending = P /\ known.pc = client[c].pc
      /\ known.op = client[c].op /\ known.at = client[c].at /\ known.ids = client[c].ids
      /\ known.old = client[c].old /\ known.olds = {}
  BY <1>1 DEF ClientState
<1>3. Continue(c, known)
  OBVIOUS
<1> HIDE DEF known
<1> QED
  BY <1>2, <1>3, WriteKeeps

LEMMA EntryParts ==
  ASSUME NEW action \in {"INSERT", "UPDATE", "DELETE"}, NEW ids \in SUBSET Ids, NEW old \in Row,
         NEW new \in Row
  PROVE  LET e == Entry(action, ids, old, new) IN
         e \in AuditEntry /\ e.ids = ids /\ e.old = old /\ e.new = new
  BY DEF Entry, AuditEntry

\* A write of the one row a request is at.
LEMMA RowWritten ==
  ASSUME EntityInv, NEW c \in Clients, NEW step \in EntityWrites, Doing(c, step),
         UNCHANGED <<entityPort, soft, audit>>,
         client[c].at \in client[c].ids,
         NEW row \in Row, row.state = "absent" => row = Absent,
         Become([table EXCEPT ![Id(c)] = row]),
         NEW e \in AuditEntry, e.ids = {Id(c)}, e.old = client[c].old,
         Id(c) \in unlogged \/ row = Current(c) \/ Told(Entries \cup {e}, Id(c), row),
         LogsReturnedRow => e.new = row /\ (row # Current(c) \/ been[Id(c)] # {}),
         Continue(c, [client[c] EXCEPT !.pending = {e}])
  PROVE  EntityInv'
<1>1. client[c] \in ClientState /\ Recalls(c)
  BY AtStep
<1>2. Id(c) \in Ids /\ Current(c) = table[Id(c)] /\ Id(c) = client[c].at
  BY <1>1, ClientParts, AtRow
<1> DEFINE new == [table EXCEPT ![Id(c)] = row]
<1>3. /\ new \in [Ids -> Row] /\ new[Id(c)] = row
      /\ \A i \in Ids \ {Id(c)} : new[i] = table[i]
  BY <1>2 DEF EntityInv, EntityTypes
<1>4. Become(new)
  OBVIOUS
<1> HIDE DEF new
<1>5. \A i \in Ids : new[i].state = "absent" => new[i] = Absent
  BY <1>3 DEF EntityInv, Rows
<1>6. /\ Written(c) /\ table' = new
      /\ \A i \in Ids : new[i] # table[i] \/ been[i] # {} => new[i] \in been'[i]
  BY <1>3, <1>4, <1>5, Became
<1>7. Real(e)'
  <2>1. e.old # Absent => e.old \in been'[Id(c)]
    BY <1>1, <1>2, <1>6 DEF Recalls, Written, Grown
  <2>2. LogsReturnedRow' => e.new \in been'[Id(c)]
    <3>1. LogsReturnedRow' <=> LogsReturnedRow
      BY SameTelling
    <3> QED
      BY <1>2, <1>3, <1>6, <3>1
  <2> QED
    BY <2>1, <2>2 DEF Real
<1>8. Accounted({e})
  <2>1. ASSUME NEW i \in Ids \ unlogged', table'[i] # table[i]
        PROVE  Told(Entries \cup {e}, i, table'[i])
    <3>1. i = Id(c) /\ table'[i] = row
      BY <1>2, <1>3, <1>6, <2>1
    <3>2. i \notin unlogged
      BY <1>6, <2>1 DEF Written, Grown
    <3> QED
      BY <1>2, <2>1, <3>1, <3>2
  <2> QED
    BY <1>7, <2>1 DEF Accounted
<1>9. {e} \in SUBSET AuditEntry
  OBVIOUS
<1> QED
  BY <1>6, <1>8, <1>9, Logging

\* The same when there was nothing to write.
LEMMA NothingWritten ==
  ASSUME EntityInv, NEW c \in Clients, NEW step \in EntityWrites, Doing(c, step),
         UNCHANGED <<entityPort, soft, audit, table, been, unlogged>>,
         client[c].at \in client[c].ids,
         NEW e \in AuditEntry, e.ids = {Id(c)}, e.old = client[c].old, ~LogsReturnedRow,
         Continue(c, [client[c] EXCEPT !.pending = {e}])
  PROVE  EntityInv'
<1>1. client[c] \in ClientState /\ Recalls(c)
  BY AtStep
<1>2. Id(c) \in Ids /\ Id(c) = client[c].at
  BY <1>1, ClientParts, AtRow
<1>3. Written(c)
  BY Untouched
<1>4. Real(e)'
  <2>1. e.old # Absent => e.old \in been'[Id(c)]
    BY <1>1, <1>2 DEF Recalls
  <2>2. ~LogsReturnedRow'
    BY SameTelling
  <2> QED
    BY <2>1, <2>2 DEF Real
<1>5. Accounted({e}) /\ {e} \in SUBSET AuditEntry
  BY <1>4 DEF Accounted
<1> QED
  BY <1>3, <1>5, Logging

\* Where the object in memory is logged, an entry tells of the columns that were
\* written and earlier entries of the others.
LEMMA ToldInParts ==
  ASSUME EntityInv, ~LogsReturnedRow, NEW i \in Ids \ unlogged, table[i].state # "absent",
         NEW P, NEW e \in P, i \in e.ids, e.new # Absent, NEW row, row # Absent,
         \A k \in Fields : row[k] = table[i][k] \/ row[k] = e.new[k]
  PROVE  Told(Entries \cup P, i, row)
<1>1. table[i] \in been[i] /\ table[i] # Absent
  BY RowFacts DEF EntityInv, Rows
<1>2. \A k \in Fields : \E f \in Entries :
        i \in f.ids /\ f.new[k] = table[i][k] /\ (f.new = Absent <=> table[i] = Absent)
  BY <1>1 DEF EntityInv, Covered, Told
<1>3. ASSUME NEW k \in Fields
      PROVE  \E f \in Entries \cup P :
               i \in f.ids /\ f.new[k] = row[k] /\ (f.new = Absent <=> row = Absent)
  BY <1>1, <1>2
<1> QED
  BY <1>3 DEF Told

LEMMA PatchedRow ==
  ASSUME NEW k \in ClientState, NEW row \in Row
  PROVE  LET p == [row EXCEPT ![k.column] = k.value] IN
         /\ p \in Row /\ p.state = row.state /\ p[k.column] = k.value
         /\ \A x \in Fields \ {k.column} : p[x] = row[x]
<1>1. k.column \in {"a", "b"} /\ k.value \in Values
  BY ClientParts DEF Columns
<1>2. PICK col \in {"a", "b"}, v \in Values : col = k.column /\ v = k.value
  BY <1>1
<1>3. LET p == [row EXCEPT ![col] = v] IN
      p \in Row /\ p.state = row.state /\ p[col] = v /\ \A x \in Fields \ {col} : p[x] = row[x]
  BY DEF Row, Columns, Fields
<1> QED
  BY <1>2, <1>3

LEMMA StateSet ==
  ASSUME NEW row \in Row, NEW s \in {"absent", "present", "hidden"}
  PROVE  /\ [row EXCEPT !.state = s] \in Row /\ [row EXCEPT !.state = s].state = s
         /\ \A x \in Columns : [row EXCEPT !.state = s][x] = row[x]
  BY DEF Row, Columns

\* A request at one of the steps that work on a row.
LEMMA AtRowStep ==
  ASSUME EntityInv, NEW c \in Clients, NEW step, Doing(c, step),
         step = "hideNext" \/ client[c].op \in {"patch", "remove"}
  PROVE  /\ client[c] \in ClientState /\ client[c].at \in client[c].ids
         /\ Id(c) \in Ids /\ Id(c) = client[c].at /\ Current(c) = table[Id(c)] /\ Current(c) \in Row
         /\ Current(c).state = "absent" => Current(c) = Absent
         /\ Current(c) # Absent => Current(c) \in been[Id(c)]
         /\ client[c].old \in Row /\ (client[c].old # Absent => client[c].old \in been[Id(c)])
<1>1. client[c] \in ClientState /\ Aimed(c) /\ Recalls(c) /\ Due(c, step)
  BY AtStep
<1>2. client[c].at \in client[c].ids /\ client[c].ids \subseteq Ids /\ client[c].old \in Row
  BY <1>1, ClientParts DEF Aimed, Due
<1> QED
  BY <1>1, <1>2, AtRow DEF Recalls

\* The entry of a write by id holds what the row was made.
LEMMA RowLogged ==
  ASSUME EntityInv, NEW c \in Clients, NEW step \in EntityWrites, Doing(c, step),
         step = "hideNext" \/ client[c].op \in {"patch", "remove"},
         NEW action \in {"INSERT", "UPDATE", "DELETE"}, NEW row \in Row,
         row.state = "absent" => row = Absent,
         UNCHANGED <<entityPort, soft, audit>>, been[Id(c)] # {},
         Become([table EXCEPT ![Id(c)] = row]),
         Continue(c, [client[c] EXCEPT !.pending = {Entry(action, {Id(c)}, client[c].old, row)}])
  PROVE  EntityInv'
<1>1. client[c].at \in client[c].ids /\ Id(c) \in Ids /\ client[c].old \in Row
  BY AtRowStep
<1>2. PICK e \in AuditEntry : /\ e = Entry(action, {Id(c)}, client[c].old, row)
                              /\ e.ids = {Id(c)} /\ e.old = client[c].old /\ e.new = row
  <2>1. {Id(c)} \in SUBSET Ids
    BY <1>1
  <2> QED
    BY <1>1, <2>1, EntryParts
<1>3. Told(Entries \cup {e}, Id(c), row)
  BY <1>2, ToldBy
<1>4. Continue(c, [client[c] EXCEPT !.pending = {e}])
  BY <1>2
<1> QED
  BY <1>1, <1>2, <1>3, <1>4, RowWritten

LEMMA WriteByIdKeeps ==
  ASSUME EntityInv, NEW c \in Clients, NEW step \in {"updateById", "deleteById", "hideById"},
         NEW action \in {"UPDATE", "DELETE"}, NEW row, WriteById(c, step, action, row),
         Current(c) \in Row /\ Current(c).state # "absent" =>
           row \in Row /\ (row.state = "absent" => row = Absent)
  PROVE  EntityInv'
<1>1. Doing(c, step) /\ UNCHANGED <<entityPort, soft, audit, writes>>
  BY DEF WriteById
<1>2. client[c].op \in {"patch", "remove"} /\ step \in EntityWrites /\ step \notin AuditSteps
  BY <1>1, AtStep, StepNames DEF EntityWrites, AuditSteps
<1>3. Current(c) \in Row /\ (Current(c).state # "absent" => been[Id(c)] # {})
  BY <1>1, <1>2, AtRowStep, RowFacts
<1>4. CASE Respond(c) /\ UNCHANGED <<table, been, unlogged>>
  BY <1>1, <1>2, <1>4, RespondKeeps, StateSame
<1>5. CASE /\ Current(c).state # "absent"
           /\ Become([table EXCEPT ![Id(c)] = row])
           /\ Continue(c, [client[c] EXCEPT !.pending = {Entry(action, {Id(c)}, client[c].old, row)}])
  BY <1>1, <1>2, <1>3, <1>5, RowLogged
<1> QED
  BY <1>4, <1>5 DEF WriteById

LEMMA ByIdKeeps ==
  ASSUME EntityInv, NEW c \in Clients, UpdateById(c) \/ DeleteById(c) \/ HideById(c)
  PROVE  EntityInv'
<1>1. client[c] \in ClientState
  BY DEF EntityInv, EntityTypes
<1>2. CASE UpdateById(c)
  <2>1. Current(c) \in Row /\ Current(c).state # "absent" =>
          Patched(c, Current(c)) \in Row /\ Patched(c, Current(c)).state = Current(c).state
    BY <1>1, PatchedRow DEF Patched
  <2> QED
    BY <1>2, <2>1, WriteByIdKeeps DEF UpdateById
<1>3. CASE DeleteById(c)
  BY <1>3, RowFacts, WriteByIdKeeps DEF DeleteById
<1>4. CASE HideById(c)
  <2>1. Current(c) \in Row => /\ [Current(c) EXCEPT !.state = "hidden"] \in Row
                              /\ [Current(c) EXCEPT !.state = "hidden"].state = "hidden"
    BY StateSet
  <2> QED
    BY <1>4, <2>1, WriteByIdKeeps DEF HideById
<1> QED
  BY <1>2, <1>3, <1>4

\* Sequelize and TypeORM log the object in memory.
LEMMA NoReturnedRow ==
  ASSUME EntityInv, NEW c \in Clients, NEW step \in {"updateInstance", "saveEntity", "saveBody"},
         Doing(c, step)
  PROVE  ~LogsReturnedRow
<1>1. /\ client[c].op \in EntityOps /\ Len(Steps(c)) \in Nat /\ client[c].pc \in 1..Len(Steps(c))
      /\ Steps(c)[client[c].pc] = step
  BY AtStep
<1>2. PICK routes \in {EntityBehaviour[entityPort].entity, EntityBehaviour[entityPort].softEntity} :
        Steps(c) = routes[client[c].op]
  BY DEF Steps, Routes
<1> QED
  BY <1>1, <1>2 DEF LogsReturnedRow, ReturningPorts

LEMMA UpdateInstanceKeeps ==
  ASSUME EntityInv, NEW c \in Clients, UpdateInstance(c)
  PROVE  EntityInv'
<1> DEFINE new == Patched(c, client[c].old)
           row == Patched(c, Current(c))
<1>1. /\ Doing(c, "updateInstance") /\ UNCHANGED <<entityPort, soft, audit>>
      /\ Continue(c, [client[c] EXCEPT !.pending = {Entry("UPDATE", {Id(c)}, client[c].old, new)}])
      /\ \/ Current(c).state # "absent" /\ Become([table EXCEPT ![Id(c)] = row])
         \/ UNCHANGED <<table, been, unlogged>>
  BY DEF UpdateInstance
<1>2. client[c].op = "patch" /\ Due(c, "updateInstance") /\ ~LogsReturnedRow
  BY <1>1, NoReturnedRow, AtStep, StepNames
<1>3. /\ client[c] \in ClientState /\ client[c].at \in client[c].ids /\ Id(c) \in Ids
      /\ Current(c) = table[Id(c)] /\ Current(c) \in Row
      /\ client[c].old \in Row /\ client[c].old.state = "present"
  BY <1>1, <1>2, AtRowStep DEF Due, Visible
<1>4. /\ new \in Row /\ new.state = "present" /\ new[client[c].column] = client[c].value
      /\ row \in Row /\ row.state = Current(c).state /\ row[client[c].column] = client[c].value
      /\ \A k \in Fields \ {client[c].column} : row[k] = Current(c)[k]
  BY <1>3, PatchedRow DEF Patched
<1> HIDE DEF new, row
<1>5. PICK e \in AuditEntry : /\ e = Entry("UPDATE", {Id(c)}, client[c].old, new)
                              /\ e.ids = {Id(c)} /\ e.old = client[c].old /\ e.new = new
  <2>1. {Id(c)} \in SUBSET Ids
    BY <1>3
  <2> QED
    BY <1>3, <1>4, <2>1, EntryParts
<1>6. Continue(c, [client[c] EXCEPT !.pending = {e}]) /\ "updateInstance" \in EntityWrites
  BY <1>1, <1>5 DEF EntityWrites
<1>7. CASE Current(c).state # "absent" /\ Become([table EXCEPT ![Id(c)] = row])
  <2>1. Id(c) \in unlogged \/ Told(Entries \cup {e}, Id(c), row)
    <3> SUFFICES ASSUME Id(c) \notin unlogged PROVE Told(Entries \cup {e}, Id(c), row)
      OBVIOUS
    <3>1. \A k \in Fields : row[k] = table[Id(c)][k] \/ row[k] = e.new[k]
      BY <1>3, <1>4, <1>5
    <3>2. e.new # Absent /\ row # Absent /\ Id(c) \in e.ids
      BY <1>4, <1>5, <1>7, RowFacts
    <3>3. table[Id(c)].state # "absent" /\ Id(c) \in Ids \ unlogged /\ e \in {e}
      BY <1>3, <1>7
    <3> QED
      BY <1>2, <3>1, <3>2, <3>3, ToldInParts
  <2> QED
    BY <1>1, <1>2, <1>3, <1>4, <1>5, <1>6, <1>7, <2>1, RowWritten
<1>8. CASE UNCHANGED <<table, been, unlogged>>
  BY <1>1, <1>2, <1>3, <1>5, <1>6, <1>8, NothingWritten
<1> QED
  BY <1>1, <1>7, <1>8

LEMMA SavedRow ==
  ASSUME NEW new \in Row, NEW current \in Row, NEW S
  PROVE  LET r == [k \in DOMAIN new |-> IF k \in S THEN new[k] ELSE current[k]] IN
         /\ r \in Row /\ (r.state = IF "state" \in S THEN new.state ELSE current.state)
         /\ \A k \in Fields : r[k] = IF k \in S THEN new[k] ELSE current[k]
  BY DEF Row, Fields, Columns

LEMMA SaveEntityKeeps ==
  ASSUME EntityInv, NEW c \in Clients, SaveEntity(c)
  PROVE  EntityInv'
<1> DEFINE new == Patched(c, client[c].old)
           inserts == "state" \in client[c].differs
           gone == Current(c).state = "absent"
           row == [k \in DOMAIN new |->
                     IF inserts \/ k \in client[c].differs THEN new[k] ELSE Current(c)[k]]
           logged == [client[c] EXCEPT !.pending = {Entry("UPDATE", {Id(c)}, client[c].old, new)}]
<1>1. /\ Doing(c, "saveEntity") /\ UNCHANGED <<entityPort, soft, audit, writes>>
      /\ \/ Respond(c) /\ UNCHANGED <<table, been, unlogged>>
         \/ Continue(c, logged) /\ UNCHANGED <<table, been, unlogged>>
         \/ /\ inserts = gone /\ Continue(c, logged)
            /\ Become([table EXCEPT ![Id(c)] = row])
  BY DEF SaveEntity
<1>2. client[c].op = "patch" /\ Due(c, "saveEntity") /\ ~LogsReturnedRow
  BY <1>1, NoReturnedRow, AtStep, StepNames
<1>3. /\ client[c] \in ClientState /\ client[c].at \in client[c].ids /\ Id(c) \in Ids
      /\ Current(c) = table[Id(c)] /\ Current(c) \in Row
      /\ client[c].old \in Row /\ client[c].old.state = "present"
  BY <1>1, <1>2, AtRowStep DEF Due, Visible
<1>4. new \in Row /\ new.state = "present"
  BY <1>3, PatchedRow DEF Patched
<1>5. /\ row \in Row /\ (row.state = IF inserts THEN "present" ELSE Current(c).state)
      /\ \A k \in Fields : row[k] = new[k] \/ (~inserts /\ row[k] = Current(c)[k])
  <2> HIDE DEF new
  <2>1. CASE inserts
    <3>1. row = [k \in DOMAIN new |-> IF k \in DOMAIN new THEN new[k] ELSE Current(c)[k]]
      BY <2>1
    <3>2. "state" \in DOMAIN new /\ Fields \subseteq DOMAIN new
      BY <1>4 DEF Row, Fields, Columns
    <3> QED
      BY <1>3, <1>4, <2>1, <3>1, <3>2, SavedRow
  <2>2. CASE ~inserts
    <3>1. row = [k \in DOMAIN new |-> IF k \in client[c].differs THEN new[k] ELSE Current(c)[k]]
      BY <2>2
    <3> QED
      BY <1>3, <1>4, <2>2, <3>1, SavedRow
  <2> QED
    BY <2>1, <2>2
<1>6. PICK e \in AuditEntry : /\ e = Entry("UPDATE", {Id(c)}, client[c].old, new)
                              /\ e.ids = {Id(c)} /\ e.old = client[c].old /\ e.new = new
  <2> HIDE DEF new
  <2>1. {Id(c)} \in SUBSET Ids
    BY <1>3
  <2> QED
    BY <1>3, <1>4, <2>1, EntryParts
<1>7. Continue(c, logged) => Continue(c, [client[c] EXCEPT !.pending = {e}])
  BY <1>6
<1>8. "saveEntity" \in EntityWrites /\ "saveEntity" \notin AuditSteps
  BY DEF EntityWrites, AuditSteps
<1> HIDE DEF row, new, inserts, logged
<1>9. CASE Respond(c) /\ UNCHANGED <<table, been, unlogged>>
  BY <1>1, <1>8, <1>9, RespondKeeps, StateSame
<1>10. CASE Continue(c, logged) /\ UNCHANGED <<table, been, unlogged>>
  BY <1>1, <1>2, <1>3, <1>6, <1>7, <1>8, <1>10, NothingWritten
<1>11. CASE inserts = gone /\ Continue(c, logged) /\ Become([table EXCEPT ![Id(c)] = row])
  <2>1. row.state # "absent" /\ row # Absent
    BY <1>5, <1>11, RowFacts
  <2>2. Id(c) \in unlogged \/ Told(Entries \cup {e}, Id(c), row)
    <3> SUFFICES ASSUME Id(c) \notin unlogged PROVE Told(Entries \cup {e}, Id(c), row)
      OBVIOUS
    <3>1. CASE inserts
      <4>1. row = new
        <5>1. \A k \in Fields : row[k] = new[k]
          BY <1>5, <3>1
        <5> QED
          BY <1>4, <1>5, <5>1 DEF Row, Fields, Columns
      <4> QED
        BY <1>6, <4>1, ToldBy
    <3>2. CASE ~inserts
      <4>1. \A k \in Fields : row[k] = table[Id(c)][k] \/ row[k] = e.new[k]
        BY <1>3, <1>5, <1>6
      <4>2. e.new # Absent /\ Id(c) \in e.ids /\ e \in {e}
        BY <1>4, <1>6, RowFacts
      <4>3. table[Id(c)].state # "absent" /\ Id(c) \in Ids \ unlogged
        BY <1>3, <1>11, <3>2
      <4> QED
        BY <1>2, <2>1, <4>1, <4>2, <4>3, ToldInParts
    <3> QED
      BY <3>1, <3>2
  <2> QED
    BY <1>1, <1>2, <1>3, <1>5, <1>6, <1>7, <1>8, <1>11, <2>1, <2>2, RowWritten
<1> QED
  BY <1>1, <1>9, <1>10, <1>11

LEMMA DestroyKeeps ==
  ASSUME EntityInv, NEW c \in Clients, Destroy(c)
  PROVE  EntityInv'
<1>1. /\ Doing(c, "destroy") /\ UNCHANGED <<entityPort, soft, audit>>
      /\ Become([table EXCEPT ![Id(c)] = Absent])
      /\ Continue(c, [client[c] EXCEPT !.pending = {Entry("DELETE", {Id(c)}, client[c].old, Absent)}])
  BY DEF Destroy
<1>2. client[c].op = "remove" /\ "destroy" \in EntityWrites /\ Due(c, "destroy")
  BY <1>1, AtStep, StepNames DEF EntityWrites
<1>3. been[Id(c)] # {}
  BY <1>1, <1>2, AtRowStep, RowFacts DEF Due
<1> QED
  BY <1>1, <1>2, <1>3, RowFacts, RowLogged

LEMMA HideNextKeeps ==
  ASSUME EntityInv, NEW c \in Clients, HideNext(c)
  PROVE  EntityInv'
<1> DEFINE row == [Current(c) EXCEPT !.state = "hidden"]
<1>1. /\ Doing(c, "hideNext") /\ UNCHANGED <<entityPort, soft, audit, writes>>
      /\ \/ /\ Visible(Current(c)) /\ Become([table EXCEPT ![Id(c)] = row])
            /\ Continue(c, [client[c] EXCEPT !.pending = {Entry("UPDATE", {Id(c)}, client[c].old, row)}])
         \/ Continue(c, client[c]) /\ UNCHANGED <<table, been, unlogged>>
  BY DEF HideNext
<1>2. "hideNext" \in EntityWrites /\ "hideNext" \notin AuditSteps
  BY DEF EntityWrites, AuditSteps
<1>3. Current(c) \in Row /\ (Visible(Current(c)) => been[Id(c)] # {})
  BY <1>1, AtRowStep, RowFacts
<1>4. row \in Row /\ row.state = "hidden"
  BY <1>3, StateSet
<1> HIDE DEF row
<1>5. CASE Continue(c, client[c]) /\ UNCHANGED <<table, been, unlogged>>
  BY <1>1, <1>2, <1>5, SameKeeps, StateSame
<1>6. CASE /\ Visible(Current(c)) /\ Become([table EXCEPT ![Id(c)] = row])
           /\ Continue(c, [client[c] EXCEPT !.pending = {Entry("UPDATE", {Id(c)}, client[c].old, row)}])
  BY <1>1, <1>2, <1>3, <1>4, <1>6, RowLogged
<1> QED
  BY <1>1, <1>5, <1>6

\* What a body sends to a new row.
LEMMA SentRow ==
  ASSUME EntityInv, NEW c \in Clients
  PROVE  /\ Sent(c) \in Row /\ Sent(c).state = "present" /\ Sent(c) # Absent
         /\ Sent(c)[client[c].column] = client[c].value
<1>1. client[c] \in ClientState
  BY DEF EntityInv, EntityTypes
<1>2. Sent(c) \in Row /\ Sent(c).state = "present" /\ Sent(c)[client[c].column] = client[c].value
  BY <1>1, RowFacts, PatchedRow DEF Sent
<1> QED
  BY <1>2, RowFacts

\* Insertions, each with its entry.
InsertEntries(c, batch) == {Entry("INSERT", {i}, Absent, Sent(c)) : i \in batch}

LEMMA InsertEntriesFacts ==
  ASSUME EntityInv, NEW c \in Clients, NEW batch \in SUBSET Ids
  PROVE  /\ InsertEntries(c, batch) \in SUBSET AuditEntry
         /\ \A e \in InsertEntries(c, batch) :
              e.ids \subseteq batch /\ e.old = Absent /\ e.new = Sent(c)
         /\ \A i \in batch : \E e \in InsertEntries(c, batch) : i \in e.ids /\ e.new = Sent(c)
<1>1. ASSUME NEW i \in batch
      PROVE  /\ Entry("INSERT", {i}, Absent, Sent(c)) \in AuditEntry
             /\ Entry("INSERT", {i}, Absent, Sent(c)).ids = {i}
             /\ Entry("INSERT", {i}, Absent, Sent(c)).old = Absent
             /\ Entry("INSERT", {i}, Absent, Sent(c)).new = Sent(c)
  <2>1. {i} \in SUBSET Ids
    OBVIOUS
  <2> QED
    BY <2>1, SentRow, RowFacts, EntryParts
<1>2. InsertEntries(c, batch) \in SUBSET AuditEntry
  BY <1>1 DEF InsertEntries
<1>3. ASSUME NEW e \in InsertEntries(c, batch)
      PROVE  e.ids \subseteq batch /\ e.old = Absent /\ e.new = Sent(c)
  <2>1. PICK i \in batch : e = Entry("INSERT", {i}, Absent, Sent(c))
    BY DEF InsertEntries
  <2> QED
    BY <1>1, <2>1
<1>4. ASSUME NEW i \in batch
      PROVE  \E e \in InsertEntries(c, batch) : i \in e.ids /\ e.new = Sent(c)
  <2>1. Entry("INSERT", {i}, Absent, Sent(c)) \in InsertEntries(c, batch)
    BY DEF InsertEntries
  <2> QED
    BY <1>1, <2>1
<1> QED
  BY <1>2, <1>3, <1>4

\* The rows of a batch that were not there.
LEMMA RowsInserted ==
  ASSUME EntityInv, NEW c \in Clients, NEW batch \in SUBSET Ids, InsertRows(c, batch),
         UNCHANGED <<entityPort, soft, audit>>
  PROVE  /\ Written(c)
         /\ \A i \in batch : table'[i] = Sent(c) /\ Sent(c) \in been'[i] /\ table[i] = Absent
         /\ \A i \in Ids \ batch : table'[i] = table[i]
<1> DEFINE new == [i \in Ids |-> IF i \in batch THEN Sent(c) ELSE table[i]]
<1>1. /\ new \in [Ids -> Row] /\ \A i \in batch : new[i] = Sent(c)
      /\ \A i \in Ids \ batch : new[i] = table[i]
  BY SentRow DEF EntityInv, EntityTypes
<1>2. Become(new) /\ \A i \in batch : table[i].state = "absent"
  BY DEF InsertRows, Existing
<1> HIDE DEF new
<1>3. \A i \in Ids : new[i].state = "absent" => new[i] = Absent
  BY <1>1, SentRow DEF EntityInv, Rows
<1>4. /\ Written(c) /\ table' = new
      /\ \A i \in Ids : new[i] # table[i] \/ been[i] # {} => new[i] \in been'[i]
  BY <1>1, <1>2, <1>3, Became
<1>5. \A i \in batch : table[i] = Absent
  BY <1>2 DEF EntityInv, Rows
<1> QED
  BY <1>1, <1>4, <1>5, SentRow

LEMMA InsertsKeep ==
  ASSUME EntityInv, NEW c \in Clients, Insert(c) \/ CreateMany(c)
  PROVE  EntityInv'
<1>1. ASSUME NEW step \in {"insert", "insertBody", "createMany"}, Doing(c, step),
             UNCHANGED <<entityPort, soft, audit>>, NEW batch \in SUBSET Ids, InsertRows(c, batch),
             NEW P \in SUBSET AuditEntry, Continue(c, [client[c] EXCEPT !.pending = P]),
             \A e \in P : e.ids \subseteq batch /\ e.old = Absent /\ e.new = Sent(c),
             \A i \in batch : \E e \in P : i \in e.ids /\ e.new = Sent(c)
      PROVE  EntityInv'
  <2>1. /\ Written(c)
        /\ \A i \in batch : table'[i] = Sent(c) /\ Sent(c) \in been'[i]
        /\ \A i \in Ids \ batch : table'[i] = table[i]
    BY <1>1, RowsInserted
  <2>2. ASSUME NEW i \in Ids \ unlogged', table'[i] # table[i]
        PROVE  Told(Entries \cup P, i, table'[i])
    <3>1. i \in batch /\ table'[i] = Sent(c)
      BY <2>1, <2>2
    <3>2. PICK e \in P : i \in e.ids /\ e.new = Sent(c)
      BY <1>1, <3>1
    <3>3. e \in Entries \cup P /\ e.new = table'[i]
      BY <3>1, <3>2
    <3> QED
      BY <3>2, <3>3, ToldBy
  <2>3. \A e \in P : Real(e)'
    BY <1>1, <2>1 DEF Real
  <2>4. step \in EntityWrites
    BY DEF EntityWrites
  <2> QED
    BY <1>1, <2>1, <2>2, <2>3, <2>4, Logging DEF Accounted
<1>2. CASE Insert(c)
  <2>1. PICK batch \in Inserted(c) :
          InsertRows(c, batch) /\ Continue(c, [client[c] EXCEPT !.pending = InsertEntries(c, batch)])
    BY <1>2 DEF Insert, InsertEntries
  <2>2. batch \in SUBSET Ids
    BY <2>1 DEF Inserted
  <2>3. PICK P \in SUBSET AuditEntry :
          /\ P = InsertEntries(c, batch)
          /\ \A e \in P : e.ids \subseteq batch /\ e.old = Absent /\ e.new = Sent(c)
          /\ \A i \in batch : \E e \in P : i \in e.ids /\ e.new = Sent(c)
    BY <2>2, InsertEntriesFacts
  <2>4. Continue(c, [client[c] EXCEPT !.pending = P])
    BY <2>1, <2>3
  <2>5. (Doing(c, "insert") \/ Doing(c, "insertBody")) /\ UNCHANGED <<entityPort, soft, audit>>
    BY <1>2 DEF Insert
  <2> QED
    BY <1>1, <2>1, <2>2, <2>3, <2>4, <2>5
<1>3. CASE CreateMany(c)
  <2>1. PICK batch \in Inserted(c) :
          /\ InsertRows(c, batch)
          /\ Continue(c, [client[c] EXCEPT !.pending = {Entry("INSERT", batch, Absent, Sent(c))}])
    BY <1>3 DEF CreateMany
  <2>2. batch \in SUBSET Ids
    BY <2>1 DEF Inserted
  <2>3. PICK e \in AuditEntry : /\ e = Entry("INSERT", batch, Absent, Sent(c))
                                /\ e.ids = batch /\ e.old = Absent /\ e.new = Sent(c)
    BY <2>2, RowFacts, SentRow, EntryParts
  <2>4. Continue(c, [client[c] EXCEPT !.pending = {e}])
    BY <2>1, <2>3
  <2>5. Doing(c, "createMany") /\ UNCHANGED <<entityPort, soft, audit>>
    BY <1>3 DEF CreateMany
  <2>6. PICK P \in SUBSET AuditEntry : P = {e}
    OBVIOUS
  <2> QED
    BY <1>1, <2>1, <2>2, <2>3, <2>4, <2>5, <2>6
<1> QED
  BY <1>2, <1>3

LEMMA SaveBodyKeeps ==
  ASSUME EntityInv, NEW c \in Clients, SaveBody(c)
  PROVE  EntityInv'
<1> DEFINE found == {o[1] : o \in client[c].olds}
           updated == {o[1] : o \in {p \in client[c].olds : p[2][client[c].column] # client[c].value}}
<1>1. PICK batch \in Inserted(c) :
        /\ (batch \ found) \cap Existing = {}
        /\ Become([i \in Ids |-> IF i \in batch \ found THEN Sent(c)
                               ELSE IF i \in updated \cap Existing THEN Patched(c, table[i])
                               ELSE table[i]])
        /\ Continue(c, [client[c] EXCEPT !.olds = {}, !.pending = InsertEntries(c, batch)])
  BY DEF SaveBody, InsertEntries
<1>2. Doing(c, "saveBody") /\ UNCHANGED <<entityPort, soft, audit>> /\ "saveBody" \in EntityWrites
  BY DEF SaveBody, EntityWrites
<1>3. client[c] \in ClientState /\ Due(c, "saveBody") /\ ~LogsReturnedRow
  BY <1>2, AtStep, NoReturnedRow
<1>4. batch \in SUBSET Ids /\ client[c].ids \subseteq batch
  BY <1>1 DEF Inserted
<1>5. updated \subseteq batch /\ updated \subseteq found
  BY <1>3, <1>4 DEF Due
<1> HIDE DEF found, updated
<1>6. PICK P \in SUBSET AuditEntry :
        /\ P = InsertEntries(c, batch)
        /\ \A e \in P : e.ids \subseteq batch /\ e.old = Absent /\ e.new = Sent(c)
        /\ \A i \in batch : \E e \in P : i \in e.ids /\ e.new = Sent(c)
  BY <1>4, InsertEntriesFacts
<1>7. Continue(c, [client[c] EXCEPT !.olds = {}, !.pending = P])
  BY <1>1, <1>6
<1> DEFINE new == [i \in Ids |-> IF i \in batch \ found THEN Sent(c)
                               ELSE IF i \in updated \cap Existing THEN Patched(c, table[i])
                               ELSE table[i]]
<1>8. \A i \in Ids : /\ Patched(c, table[i]) \in Row /\ Patched(c, table[i]).state = table[i].state
                     /\ Patched(c, table[i])[client[c].column] = client[c].value
                     /\ \A k \in Fields \ {client[c].column} : Patched(c, table[i])[k] = table[i][k]
  BY <1>3, PatchedRow DEF Patched, EntityInv, EntityTypes
<1>9. /\ new \in [Ids -> Row]
      /\ \A i \in Ids : \/ i \in batch \ found /\ new[i] = Sent(c)
                        \/ i \in updated \cap Existing /\ new[i] = Patched(c, table[i])
                        \/ new[i] = table[i]
  BY <1>8, SentRow DEF EntityInv, EntityTypes
<1>10. Become(new)
  BY <1>1
<1> HIDE DEF new
<1>11. \A i \in Ids : new[i].state = "absent" => new[i] = Absent
  BY <1>8, <1>9, SentRow DEF EntityInv, Rows, Existing
<1>12. Written(c) /\ table' = new
  BY <1>2, <1>9, <1>10, <1>11, Became
<1>13. ASSUME NEW i \in Ids \ unlogged', table'[i] # table[i]
       PROVE  Told(Entries \cup P, i, table'[i])
  <2>1. CASE i \in batch \ found /\ new[i] = Sent(c)
    <3>1. PICK e \in P : i \in e.ids /\ e.new = Sent(c)
      BY <1>6, <2>1
    <3>2. e \in Entries \cup P /\ e.new = table'[i]
      BY <1>12, <2>1, <3>1
    <3> QED
      BY <3>1, <3>2, ToldBy
  <2>2. CASE i \in updated \cap Existing /\ new[i] = Patched(c, table[i])
    <3>1. PICK e \in P : i \in e.ids /\ e.new = Sent(c)
      BY <1>5, <1>6, <2>2
    <3>2. table[i].state # "absent" /\ i \in Ids \ unlogged
      BY <1>12, <1>13, <2>2 DEF Existing, Written, Grown
    <3>3. e.new # Absent /\ table'[i] # Absent
      BY <1>8, <1>12, <2>2, <3>1, <3>2, SentRow, RowFacts
    <3>4. \A k \in Fields : table'[i][k] = table[i][k] \/ table'[i][k] = e.new[k]
      BY <1>8, <1>12, <2>2, <3>1, SentRow
    <3> QED
      BY <1>3, <3>1, <3>2, <3>3, <3>4, ToldInParts
  <2> QED
    BY <1>9, <1>12, <1>13, <2>1, <2>2
<1>14. \A e \in P : Real(e)'
  BY <1>2, <1>3, <1>6, SameTelling DEF Real
<1> QED
  BY <1>2, <1>7, <1>12, <1>13, <1>14, LoggingReads DEF Accounted

\* Rows are deleted, all of a set.
LEMMA RowsDeleted ==
  ASSUME EntityInv, NEW c \in Clients, NEW ids \in SUBSET Ids, Become(Without(ids)),
         UNCHANGED <<entityPort, soft, audit>>
  PROVE  /\ Written(c)
         /\ \A i \in ids : table'[i] = Absent
         /\ \A i \in Ids \ ids : table'[i] = table[i]
         /\ \A i \in ids : been[i] # {} => Absent \in been'[i]
<1>1. /\ Without(ids) \in [Ids -> Row] /\ \A i \in ids : Without(ids)[i] = Absent
      /\ \A i \in Ids \ ids : Without(ids)[i] = table[i]
  BY RowFacts DEF Without, EntityInv, EntityTypes
<1>2. PICK new \in [Ids -> Row] : new = Without(ids)
  BY <1>1
<1>3. Become(new) /\ \A i \in Ids : new[i].state = "absent" => new[i] = Absent
  BY <1>1, <1>2 DEF EntityInv, Rows
<1>4. /\ Written(c) /\ table' = new
      /\ \A i \in Ids : new[i] # table[i] \/ been[i] # {} => new[i] \in been'[i]
  BY <1>3, Became
<1> QED
  BY <1>1, <1>2, <1>4

LEMMA DeleteReturningKeeps ==
  ASSUME EntityInv, NEW c \in Clients, DeleteReturning(c)
  PROVE  EntityInv'
<1> DEFINE deleted == client[c].ids \cap Existing
           P == {Entry("DELETE", {i}, table[i], Absent) : i \in deleted}
<1>1. /\ Doing(c, "deleteReturning") /\ UNCHANGED <<entityPort, soft, audit, writes>>
      /\ Become(Without(deleted))
      /\ (deleted = {} /\ Respond(c)) \/ Continue(c, [client[c] EXCEPT !.pending = P])
      /\ "deleteReturning" \in EntityWrites /\ "deleteReturning" \notin AuditSteps
  BY DEF DeleteReturning, EntityWrites, AuditSteps
<1>2. client[c] \in ClientState /\ client[c].ids \subseteq Ids
  BY <1>1, AtStep, ClientParts
<1>3. deleted \in SUBSET Ids
  BY <1>2
<1>4. /\ Written(c)
      /\ \A i \in deleted : table'[i] = Absent
      /\ \A i \in Ids \ deleted : table'[i] = table[i]
      /\ \A i \in deleted : been[i] # {} => Absent \in been'[i]
  <2> HIDE DEF deleted
  <2> QED
    BY <1>1, <1>3, RowsDeleted
<1>5. CASE deleted = {} /\ Respond(c)
  <2>1. table' = table
    BY <1>4, <1>5 DEF Written, EntityInv, EntityTypes
  <2>2. been' = been
    <3>1. \A i \in Ids : been'[i] = been[i]
      BY <1>1, <2>1 DEF Become
    <3> QED
      BY <1>4, <3>1 DEF Written, EntityInv, EntityTypes
  <2>3. Quiet
    BY <1>1, <1>4, <2>1, <2>2 DEF Quiet, Written, Grown
  <2> QED
    BY <1>1, <1>5, <2>3, RespondKeeps
<1>6. CASE Continue(c, [client[c] EXCEPT !.pending = P])
  <2>1. \A i \in deleted : table[i] \in Row /\ table[i] \in been[i]
    BY <1>2, RowFacts DEF EntityInv, EntityTypes, Rows, Existing
  <2>2. ASSUME NEW i \in deleted
        PROVE  LET e == Entry("DELETE", {i}, table[i], Absent) IN
               e \in AuditEntry /\ e.ids = {i} /\ e.old = table[i] /\ e.new = Absent
    <3>1. {i} \in SUBSET Ids
      BY <1>3
    <3> QED
      BY <2>1, <3>1, RowFacts, EntryParts
  <2>3. P \in SUBSET AuditEntry
    BY <2>2
  <2>4. ASSUME NEW e \in P PROVE Real(e)'
    <3>1. PICK i \in deleted : e = Entry("DELETE", {i}, table[i], Absent)
      OBVIOUS
    <3>2. e.ids = {i} /\ e.old = table[i] /\ e.new = Absent /\ i \in Ids
      BY <1>3, <2>2, <3>1
    <3>3. table[i] \in been'[i] /\ Absent \in been'[i]
      BY <1>4, <2>1, <3>2 DEF Written, Grown
    <3> QED
      BY <3>2, <3>3 DEF Real
  <2>5. ASSUME NEW i \in Ids \ unlogged', table'[i] # table[i]
        PROVE  Told(Entries \cup P, i, table'[i])
    <3>1. i \in deleted /\ table'[i] = Absent
      BY <1>4, <2>5
    <3>2. PICK e \in P : i \in e.ids /\ e.new = Absent
      BY <2>2, <3>1
    <3>3. e \in Entries \cup P /\ e.new = table'[i]
      BY <3>1, <3>2
    <3> QED
      BY <3>2, <3>3, ToldBy
  <2> HIDE DEF P, deleted
  <2> QED
    BY <1>1, <1>4, <1>6, <2>3, <2>4, <2>5, Logging DEF Accounted
<1> QED
  BY <1>1, <1>5, <1>6

LEMMA DeleteIdsKeeps ==
  ASSUME EntityInv, NEW c \in Clients, DeleteIds(c)
  PROVE  EntityInv'
<1> DEFINE P == {Entry("DELETE", {o[1]}, o[2], Absent) : o \in client[c].olds}
<1>1. /\ Doing(c, "deleteIds") /\ UNCHANGED <<entityPort, soft, audit>>
      /\ Become(Without(client[c].ids))
      /\ Continue(c, [client[c] EXCEPT !.olds = {}, !.pending = P])
      /\ "deleteIds" \in EntityWrites
  BY DEF DeleteIds, EntityWrites
<1>2. /\ client[c] \in ClientState /\ client[c].ids \subseteq Ids
      /\ Recalls(c) /\ Due(c, "deleteIds") /\ client[c].olds \in SUBSET (Ids \X Row)
  BY <1>1, AtStep, ClientParts
<1>3. ASSUME NEW o \in client[c].olds
      PROVE  LET e == Entry("DELETE", {o[1]}, o[2], Absent) IN
             e \in AuditEntry /\ e.ids = {o[1]} /\ e.old = o[2] /\ e.new = Absent
  <2>1. {o[1]} \in SUBSET Ids /\ o[2] \in Row
    BY <1>2
  <2> QED
    BY <2>1, RowFacts, EntryParts
<1>4. P \in SUBSET AuditEntry
  BY <1>3
<1>5. /\ Written(c)
      /\ \A i \in client[c].ids : table'[i] = Absent
      /\ \A i \in Ids \ client[c].ids : table'[i] = table[i]
      /\ \A i \in client[c].ids : been[i] # {} => Absent \in been'[i]
  BY <1>1, <1>2, RowsDeleted
<1>6. ASSUME NEW e \in P PROVE Real(e)'
  <2>1. PICK o \in client[c].olds : e = Entry("DELETE", {o[1]}, o[2], Absent)
    OBVIOUS
  <2>2. e.ids = {o[1]} /\ e.old = o[2] /\ e.new = Absent /\ o[1] \in Ids
    BY <1>2, <1>3, <2>1
  <2>3. o[2] \in been'[o[1]]
    BY <1>2, <1>5, <2>2 DEF Recalls, Written, Grown
  <2>4. Absent \in been'[o[1]]
    BY <1>2, <1>5, <2>2 DEF Recalls, Due
  <2> QED
    BY <2>2, <2>3, <2>4 DEF Real
<1>7. ASSUME NEW i \in Ids \ unlogged', table'[i] # table[i]
      PROVE  Told(Entries \cup P, i, table'[i])
  <2>1. i \in client[c].ids /\ table'[i] = Absent /\ table[i].state # "absent" /\ i \notin unlogged
    BY <1>5, <1>7 DEF EntityInv, Rows, Written, Grown
  <2>2. PICK o \in client[c].olds : o[1] = i
    BY <1>2, <2>1 DEF Due, Prepared
  <2>3. PICK e \in P : i \in e.ids /\ e.new = Absent
    BY <1>3, <2>2
  <2>4. e \in Entries \cup P /\ e.new = table'[i]
    BY <2>1, <2>3
  <2> QED
    BY <2>3, <2>4, ToldBy
<1> HIDE DEF P
<1> QED
  BY <1>1, <1>4, <1>5, <1>6, <1>7, LoggingReads DEF Accounted


-----------------------------------------------------------------------------
(* The audit trail *)

\* Entries leave a request for the trail, or their ids are known to miss some.
LEMMA AuditKeeps ==
  ASSUME EntityInv, NEW c \in Clients, NEW step \in AuditSteps, Doing(c, step),
         UNCHANGED <<entityPort, soft, table, writes, been>>,
         NEW entries \in SUBSET client[c].pending, AuditWrite(entries),
         NEW k \in ClientState, Replaced(c, k), k.pending \subseteq client[c].pending,
         client[c].pending \subseteq entries \cup k.pending,
         k = NoClient \/ GoesOn(c, k)
  PROVE  EntityInv'
<1>1. /\ client[c].pc # 0 /\ client[c].pending \in SUBSET AuditEntry
      /\ \A e \in client[c].pending : e \in Entries
  BY EntriesAre, ClientParts DEF EntityInv, EntityTypes, Doing
<1>2. IdsOf(entries) \in SUBSET Ids /\ \A e \in entries : \A i \in e.ids : i \in IdsOf(entries)
  BY <1>1 DEF IdsOf, AuditEntry
<1>3. /\ unlogged' \in SUBSET Ids /\ unlogged \subseteq unlogged'
      /\ audit' \subseteq AuditEntry /\ audit \subseteq audit' /\ audit' \subseteq audit \cup entries
      /\ audit' = audit \cup entries \/ IdsOf(entries) \subseteq unlogged'
  BY <1>1, <1>2 DEF AuditWrite, EntityInv, EntityTypes
<1>4. \A e \in Entries' : e \in Entries
  BY <1>1, <1>3, EntriesAre, EntriesBecome
<1>5. ASSUME NEW i \in Ids \ unlogged', NEW e \in Entries, i \in e.ids PROVE e \in Entries'
  <2>1. CASE e \in client[c].pending
    BY <1>2, <1>3, <1>5, <2>1, EntriesBecome
  <2>2. CASE e \notin client[c].pending
    BY <1>3, <2>2, EntriesAre, EntriesBecome
  <2> QED
    BY <2>1, <2>2
<1>6. Grown /\ Noticed(c)
  BY <1>3 DEF Grown, Noticed
<1>7. Covered'
  BY <1>3, <1>5, StillCovered
<1>8. Rows'
  BY DEF Rows, EntityInv
<1>9. \A e \in Entries' : Real(e)'
  BY <1>4, StillReal
<1>10. RequestOK(c)'
  BY <1>1, <1>6, Kept
<1>11. table' \in [Ids -> Row] /\ been' \in [Ids -> SUBSET Row]
  BY DEF EntityInv, EntityTypes
<1> QED
  BY <1>3, <1>6, <1>7, <1>8, <1>9, <1>10, <1>11, StepKeeps

\* After its entries a request goes on to a step that relies on nothing.
LEMMA AuditedKeeps ==
  ASSUME EntityInv, NEW c \in Clients, NEW step \in AuditSteps, Doing(c, step),
         UNCHANGED <<entityPort, soft, table, writes, been>>,
         AuditWrite(client[c].pending),
         NEW known \in ClientState, known.pc = client[c].pc, known.op = client[c].op,
         known.ids = client[c].ids, known.at = client[c].at, known.old = client[c].old,
         known.olds = client[c].olds, known.pending = {}, Continue(c, known)
  PROVE  EntityInv'
<1>1. PICK k \in ClientState :
        /\ Replaced(c, k)
        /\ \/ k = NoClient /\ client[c].pc = Len(Steps(c))
           \/ /\ client[c].pc < Len(Steps(c)) /\ Carries(k, known)
              /\ k.pc = client[c].pc + 1
  BY Continued
<1>2. k.pending = {} /\ client'[c] = k
  BY <1>1, NoClientFacts DEF Carries, Replaced
<1>3. k = NoClient \/ GoesOn(c, k)
  <2>1. CASE k = NoClient
    BY <2>1
  <2>2. CASE client[c].pc < Len(Steps(c)) /\ Carries(k, known) /\ k.pc = client[c].pc + 1
    <3>1. Aimed(c) /\ Recalls(c)
      BY AtStep
    <3>2. k.op = client[c].op /\ k.ids = client[c].ids /\ k.at = client[c].at
      BY <2>2 DEF Carries
    <3>3. k.op \in {"patch", "remove"} => k.at \in k.ids
      BY <3>1, <3>2 DEF Aimed
    <3>4. Stays(c, k)
      BY <2>2, <3>2, <3>3, Onward
    <3>5. PICK s : s = Steps(c)[k.pc] /\ Follows(s, step)
      BY <2>2, <3>2, <3>3, Onward
    <3>6. s \notin {"updateInstance", "loadForSave", "saveEntity", "destroy", "saveBody",
                    "deleteIds", "hideNext"}
      BY <3>5 DEF AuditSteps, Follows
    <3>7. Due(c, s)'
      BY <1>2, <3>6 DEF Due
    <3>8. Recalls(c)'
      BY <1>2, <2>2, <3>1 DEF Recalls, Carries
    <3> QED
      BY <3>4, <3>5, <3>7, <3>8 DEF GoesOn
  <2> QED
    BY <1>1, <2>1, <2>2
<1> QED
  BY <1>1, <1>2, <1>3, AuditKeeps

LEMMA PendingDone ==
  ASSUME EntityInv, NEW c \in Clients, NEW step \in AuditSteps, Doing(c, step),
         UNCHANGED <<entityPort, soft, table, writes, been>>, AuditWrite(client[c].pending),
         Continue(c, [client[c] EXCEPT !.pending = {}])
  PROVE  EntityInv'
<1> DEFINE known == [client[c] EXCEPT !.pending = {}]
<1>1. Continue(c, known) /\ client[c] \in ClientState
  BY DEF EntityInv, EntityTypes
<1>2. /\ known \in ClientState /\ known.pending = {} /\ known.pc = client[c].pc
      /\ known.op = client[c].op /\ known.at = client[c].at /\ known.ids = client[c].ids
      /\ known.old = client[c].old /\ known.olds = client[c].olds
  <2>1. {} \in SUBSET AuditEntry
    OBVIOUS
  <2> QED
    BY <1>1, <2>1, Knowing
<1> HIDE DEF known
<1> QED
  BY <1>1, <1>2, AuditedKeeps

LEMMA AuditsKeep ==
  ASSUME EntityInv, NEW c \in Clients, AuditEach(c) \/ AuditAll(c)
  PROVE  EntityInv'
<1>1. client[c] \in ClientState /\ client[c].pending \in SUBSET AuditEntry
  BY ClientParts DEF EntityInv, EntityTypes
<1>2. CASE AuditAll(c)
  <2>1. /\ Doing(c, "auditAll") /\ UNCHANGED <<entityPort, soft, table, writes, been>>
        /\ AuditWrite(client[c].pending) /\ Continue(c, [client[c] EXCEPT !.pending = {}])
        /\ "auditAll" \in AuditSteps
    BY <1>2 DEF AuditAll, AuditSteps
  <2> QED
    BY <2>1, PendingDone
<1>3. CASE AuditEach(c)
  <2>1. /\ Doing(c, "auditEach") /\ UNCHANGED <<entityPort, soft, table, writes, been>>
        /\ "auditEach" \in AuditSteps
    BY <1>3 DEF AuditEach, AuditSteps
  <2>2. ASSUME NEW e \in client[c].pending, AuditWrite({e}), client[c].pending = {e},
               Continue(c, [client[c] EXCEPT !.pending = {}])
        PROVE  EntityInv'
    BY <2>1, <2>2, PendingDone
  <2>3. ASSUME NEW e \in client[c].pending, AuditWrite({e}),
               client' = [client EXCEPT ![c] = [client[c] EXCEPT !.pending = client[c].pending \ {e}]]
        PROVE  EntityInv'
    <3> DEFINE k == [client[c] EXCEPT !.pending = client[c].pending \ {e}]
    <3>1. {e} \in SUBSET client[c].pending /\ client[c].pending \ {e} \in SUBSET AuditEntry
      BY <1>1
    <3>2. /\ k \in ClientState /\ k.pending = client[c].pending \ {e} /\ k.pc = client[c].pc
          /\ k.op = client[c].op /\ k.at = client[c].at /\ k.ids = client[c].ids
          /\ k.old = client[c].old /\ k.olds = client[c].olds
      BY <1>1, <3>1, Knowing
    <3>3. client' = [client EXCEPT ![c] = k]
      BY <2>3
    <3> HIDE DEF k
    <3>4. Replaced(c, k) /\ client'[c] = k
      BY <3>2, <3>3, Replacing DEF EntityInv, Replaced
    <3>5. /\ Aimed(c) /\ Recalls(c) /\ client[c].pc \in 1..Len(Steps(c))
          /\ Steps(c)[client[c].pc] = "auditEach"
      BY <2>1, AtStep
    <3>6. Stays(c, k) /\ Recalls(c)'
      BY <2>1, <3>2, <3>4, <3>5 DEF Stays, Recalls, Aimed
    <3>7. PICK s : s = Steps(c)[k.pc]
      OBVIOUS
    <3>8. s = "auditEach"
      BY <3>2, <3>5, <3>7
    <3>9. Due(c, s)'
      BY <3>8 DEF Due, AuditSteps
    <3>10. GoesOn(c, k)
      BY <3>6, <3>7, <3>9 DEF GoesOn
    <3>11. k.pending \subseteq client[c].pending /\ client[c].pending \subseteq {e} \cup k.pending
      BY <3>2
    <3> QED
      BY <2>1, <2>3, <3>1, <3>2, <3>4, <3>10, <3>11, AuditKeeps
  <2>4. CASE client[c].pending = {} /\ Continue(c, client[c]) /\ UNCHANGED <<audit, unlogged>>
    <3>1. AuditWrite(client[c].pending)
      BY <2>4 DEF AuditWrite
    <3> QED
      BY <1>1, <2>1, <2>4, <3>1, AuditedKeeps
  <2> QED
    BY <1>3, <2>2, <2>3, <2>4 DEF AuditEach
<1> QED
  BY <1>2, <1>3

-----------------------------------------------------------------------------
(* Requests that arrive, and those that are lost *)

LEMMA FirstStep ==
  ASSUME NEW op, NEW program, EntityProgram(op, program)
  PROVE  /\ 1 \in 1..Len(program) /\ 1 # 0
         /\ program[1] \notin {"updateInstance", "loadForSave", "saveEntity", "destroy",
                               "saveBody", "deleteIds", "hideNext"}
<1>1. Len(program) \in Nat /\ Len(program) # 0
  BY DEF EntityProgram
<1>2. 1 \in 1..Len(program)
  BY <1>1
<1> QED
  BY <1>2 DEF EntityProgram, RightAfter

LEMMA ArrivalKeeps ==
  ASSUME EntityInv, NEW c \in Clients, NEW op \in EntityOps, NEW ids \in SUBSET Ids,
         NEW at \in Ids \cup {""}, NEW column \in Columns, NEW value \in Values,
         EntityRequest(c, op, ids, at, column, value),
         op \in {"patch", "remove"} => at \in ids
  PROVE  EntityInv'
<1> DEFINE k == [NoClient EXCEPT !.op = op, !.pc = 1, !.ids = ids, !.at = at,
                                 !.column = column, !.value = value]
<1>1. /\ c \notin Working /\ client' = [client EXCEPT ![c] = k]
      /\ UNCHANGED <<entityPort, soft, table, audit, been, unlogged>>
  BY DEF EntityRequest
<1>2. /\ k \in ClientState /\ k.op = op /\ k.pc = 1 /\ k.ids = ids /\ k.at = at
      /\ k.old = Absent /\ k.olds = {} /\ k.pending = {}
  BY NoClientFacts DEF ClientState
<1> HIDE DEF k
<1>3. Replaced(c, k) /\ client'[c] = k
  BY <1>1, <1>2, Replacing DEF EntityInv, Replaced
<1>4. client[c].pending = {}
  BY <1>1, NoClientFacts DEF Working, EntityInv, RequestOK
<1>5. \A e : e \in Entries' <=> e \in Entries
  BY <1>1, <1>2, <1>3, <1>4, EntriesAre, EntriesBecome
<1>6. Grown /\ Noticed(c)
  BY <1>1 DEF Grown, Noticed
<1>7. Covered'
  BY <1>1, <1>5, StillCovered
<1>8. Rows'
  BY <1>1 DEF Rows, EntityInv
<1>9. \A e \in Entries' : Real(e)'
  BY <1>1, <1>5, StillReal
<1>10. RequestOK(c)'
  <2>1. PICK program : program = Routes(entityPort)[op]
    OBVIOUS
  <2>2. Steps(c)' = program
    BY <1>1, <1>2, <1>3, <2>1 DEF Steps, Routes
  <2>3. EntityProgram(op, program)
    BY <2>1, EntityProgramsAssumption DEF Routes, EntityInv, EntityTypes
  <2>4. 1 \in 1..Len(program) /\ 1 # 0
    BY <2>3, FirstStep
  <2>5. Placed(c)' /\ client'[c].pc # 0
    BY <1>2, <1>3, <2>2, <2>4 DEF Placed
  <2>6. Aimed(c)' /\ Recalls(c)'
    BY <1>2, <1>3 DEF Aimed, Recalls
  <2>7. PICK s : s = program[1]
    OBVIOUS
  <2>8. s \notin {"updateInstance", "loadForSave", "saveEntity", "destroy",
                  "saveBody", "deleteIds", "hideNext"}
    BY <2>3, <2>7, FirstStep
  <2>9. Due(c, s)'
    BY <1>2, <1>3, <2>8 DEF Due
  <2>10. Due(c, Steps(c)[client[c].pc])'
    BY <1>2, <1>3, <2>2, <2>7, <2>9 DEF Due
  <2> QED
    BY <2>5, <2>6, <2>10 DEF RequestOK
<1>11. /\ unlogged' \in SUBSET Ids /\ table' \in [Ids -> Row] /\ been' \in [Ids -> SUBSET Row]
       /\ audit' \subseteq AuditEntry
  BY <1>1 DEF EntityInv, EntityTypes
<1> QED
  BY <1>2, <1>3, <1>6, <1>7, <1>8, <1>9, <1>10, <1>11, StepKeeps

LEMMA ArriveKeeps ==
  ASSUME EntityInv, NEW c \in Clients, EntityArrive(c)
  PROVE  EntityInv'
<1>1. /\ "a" \in Columns /\ 0 \in Values /\ 1 \in Values /\ "" \in Ids \cup {""} /\ Ids \in SUBSET Ids
      /\ EntityOps = {"list", "get", "create", "patch", "remove", "bulkCreate", "bulkDelete"}
      /\ BodyIds \subseteq SUBSET Ids
  BY DEF Columns, Values, EntityOps, BodyIds
<1>2. CASE RequestCreate(c)
  <2>1. PICK ids \in BodyIds : EntityRequest(c, "create", ids, "", "a", 1)
    BY <1>2 DEF RequestCreate
  <2> QED
    BY <1>1, <2>1, ArrivalKeeps
<1>3. CASE RequestBulkCreate(c)
  <2>1. PICK ids \in BodyIds : EntityRequest(c, "bulkCreate", ids, "", "a", 1)
    BY <1>3 DEF RequestBulkCreate
  <2> QED
    BY <1>1, <2>1, ArrivalKeeps
<1>4. CASE RequestPatch(c)
  <2>1. PICK i \in Ids : \E p \in Patches : EntityRequest(c, "patch", {i}, i, p[1], p[2])
    BY <1>4 DEF RequestPatch
  <2>2. PICK p \in Patches : EntityRequest(c, "patch", {i}, i, p[1], p[2])
    BY <2>1
  <2>3. p[1] \in Columns /\ p[2] \in Values
    BY EntityRequestsAssumption
  <2>4. {i} \in SUBSET Ids /\ i \in {i} /\ "patch" \in EntityOps /\ i \in Ids \cup {""}
    BY <1>1
  <2> QED
    BY <2>2, <2>3, <2>4, ArrivalKeeps
<1>5. CASE RequestRemove(c)
  <2>1. PICK i \in Ids : EntityRequest(c, "remove", {i}, i, "a", 0)
    BY <1>5 DEF RequestRemove
  <2>2. {i} \in SUBSET Ids /\ i \in {i} /\ "remove" \in EntityOps /\ i \in Ids \cup {""}
    BY <1>1
  <2> QED
    BY <1>1, <2>1, <2>2, ArrivalKeeps
<1>6. CASE RequestBulkDelete(c)
  <2>1. PICK ids \in Batches : EntityRequest(c, "bulkDelete", ids, "", "a", 0)
    BY <1>6 DEF RequestBulkDelete
  <2>2. ids \in SUBSET Ids
    BY EntityRequestsAssumption
  <2> QED
    BY <1>1, <2>1, <2>2, ArrivalKeeps
<1>7. CASE RequestRead(c)
  <2>1. PICK op \in {"list", "get"} : EntityRequest(c, op, Ids, "", "a", 0)
    BY <1>7 DEF RequestRead
  <2> QED
    BY <1>1, <2>1, ArrivalKeeps
<1> QED
  BY <1>2, <1>3, <1>4, <1>5, <1>6, <1>7 DEF EntityArrive

LEMMA CrashKeeps ==
  ASSUME EntityInv, EntitiesCrash
  PROVE  EntityInv'
<1>1. /\ client' = [c \in Clients |-> NoClient]
      /\ unlogged' = unlogged \cup UNION {IdsOf(client[c].pending) : c \in Clients}
      /\ UNCHANGED <<entityPort, soft, table, audit, been>>
  BY DEF EntitiesCrash
<1>2. \A e : e \in Entries' <=> e \in audit
  <2>1. \A c \in Clients : client'[c].pending = {}
    BY <1>1, NoClientFacts
  <2> QED
    BY <1>1, <2>1 DEF Entries
<1>3. \A c \in Clients : IdsOf(client[c].pending) \in SUBSET Ids
  <2> SUFFICES ASSUME NEW c \in Clients PROVE IdsOf(client[c].pending) \in SUBSET Ids
    OBVIOUS
  <2>1. client[c].pending \in SUBSET AuditEntry
    BY ClientParts DEF EntityInv, EntityTypes
  <2> QED
    BY <2>1 DEF IdsOf, AuditEntry
<1>4. unlogged' \in SUBSET Ids /\ unlogged \subseteq unlogged'
  BY <1>1, <1>3 DEF EntityInv, EntityTypes
<1>5. ASSUME NEW i \in Ids \ unlogged', NEW e \in Entries, i \in e.ids PROVE e \in Entries'
  <2>1. CASE e \in audit
    BY <1>2, <2>1
  <2>2. ASSUME NEW c \in Clients, e \in client[c].pending PROVE FALSE
    <3>1. i \in IdsOf(client[c].pending)
      BY <1>5, <2>2 DEF IdsOf
    <3> QED
      BY <1>1, <1>5, <3>1
  <2> QED
    BY <2>1, <2>2, EntriesAre
<1>6. EntityTypes'
  <2>1. client' \in [Clients -> ClientState]
    BY <1>1, NoClientFacts
  <2> QED
    BY <1>1, <1>4, <2>1 DEF EntityInv, EntityTypes
<1>7. Covered'
  BY <1>1, <1>4, <1>5, StillCovered
<1>8. Rows'
  BY <1>1 DEF Rows, EntityInv
<1>9. \A e \in Entries' : Real(e)'
  BY <1>1, <1>2, EntriesAre, StillReal
<1>10. (\A c \in Clients : RequestOK(c))'
  BY <1>1, NoClientFacts DEF RequestOK
<1>11. (\A e \in Entries : Real(e))'
  BY <1>9
<1> QED
  BY <1>6, <1>7, <1>8, <1>10, <1>11 DEF EntityInv

-----------------------------------------------------------------------------
(* The invariant holds *)

LEMMA InitHolds == EntitiesInit => EntityInv
<1> SUFFICES ASSUME EntitiesInit PROVE EntityInv
  OBVIOUS
<1>1. PICK S \in SUBSET Ids :
        /\ table = [i \in Ids |-> IF i \in S THEN NewRow ELSE Absent]
        /\ audit = {Entry("INSERT", {i}, Absent, NewRow) : i \in S}
        /\ been = [i \in Ids |-> IF i \in S THEN {NewRow} ELSE {}]
  BY DEF EntitiesInit
<1>2. /\ entityPort \in EntityPorts /\ soft \in BOOLEAN /\ unlogged = {}
      /\ client = [c \in Clients |-> NoClient]
  BY DEF EntitiesInit
<1>3. ASSUME NEW i \in S
      PROVE  LET e == Entry("INSERT", {i}, Absent, NewRow) IN
             e \in AuditEntry /\ e.ids = {i} /\ e.old = Absent /\ e.new = NewRow
  <2>1. {i} \in SUBSET Ids
    OBVIOUS
  <2> QED
    BY <2>1, RowFacts, EntryParts
<1>4. EntityTypes
  BY <1>1, <1>2, <1>3, RowFacts, NoClientFacts DEF EntityTypes
<1>5. Rows
  BY <1>1, RowFacts DEF Rows
<1>6. \A e : e \in Entries <=> e \in audit
  <2>1. \A c \in Clients : client[c].pending = {}
    BY <1>2, NoClientFacts
  <2> QED
    BY <2>1, EntriesAre
<1>7. Covered
  <2> SUFFICES ASSUME NEW i \in Ids, NEW row \in been[i] PROVE Told(Entries, i, row)
    BY DEF Covered
  <2>1. i \in S /\ row = NewRow
    BY <1>1
  <2>2. PICK e : e = Entry("INSERT", {i}, Absent, NewRow)
    OBVIOUS
  <2>3. e \in Entries /\ i \in e.ids /\ e.new = row
    BY <1>1, <1>3, <1>6, <2>1, <2>2
  <2> QED
    BY <2>3, ToldBy
<1>8. \A e \in Entries : Real(e)
  <2> SUFFICES ASSUME NEW e \in Entries PROVE Real(e)
    OBVIOUS
  <2>1. PICK i \in S : e = Entry("INSERT", {i}, Absent, NewRow)
    BY <1>1, <1>6
  <2>2. e.ids = {i} /\ e.old = Absent /\ e.new = NewRow /\ been[i] = {NewRow}
    BY <1>1, <1>3, <2>1
  <2> QED
    BY <2>2 DEF Real
<1>9. \A c \in Clients : RequestOK(c)
  BY <1>2, NoClientFacts DEF RequestOK
<1> QED
  BY <1>4, <1>5, <1>7, <1>8, <1>9 DEF EntityInv

LEMMA NothingHappens ==
  ASSUME EntityInv, UNCHANGED entityVars
  PROVE  EntityInv'
<1>1. UNCHANGED <<entityPort, soft, table, audit, client, been, unlogged>>
  BY DEF entityVars
<1>2. \A e : e \in Entries' <=> e \in Entries
  BY <1>1 DEF Entries
<1>3. EntityTypes' /\ Rows'
  BY <1>1 DEF EntityInv, EntityTypes, Rows
<1>4. Covered'
  BY <1>1, <1>2, StillCovered
<1>5. (\A e \in Entries : Real(e))'
  BY <1>1, <1>2, StillReal
<1>6. (\A c \in Clients : RequestOK(c))'
  <2> SUFFICES ASSUME NEW c \in Clients PROVE RequestOK(c)'
    OBVIOUS
  <2>1. RequestOK(c) /\ Steps(c)' = Steps(c)
    BY <1>1 DEF EntityInv, Steps, Routes
  <2>2. Placed(c)' = Placed(c) /\ Aimed(c)' = Aimed(c) /\ Recalls(c)' = Recalls(c)
    BY <1>1, <2>1 DEF Placed, Aimed, Recalls
  <2>3. \A s : Due(c, s)' = Due(c, s)
    BY <1>1 DEF Due, Visible, Prepared
  <2> QED
    BY <1>1, <2>1, <2>2, <2>3 DEF RequestOK
<1> QED
  BY <1>3, <1>4, <1>5, <1>6 DEF EntityInv

LEMMA NextKeepsInv ==
  ASSUME EntityInv, [EntitiesNext]_entityVars
  PROVE  EntityInv'
<1>1. ASSUME NEW c \in Clients, EntityStep(c) PROVE EntityInv'
  BY <1>1, ScopesKeep, RowReadsKeep, ManyReadsKeep, LookupsKeep, AgainKeeps, InsertsKeep,
     SaveBodyKeeps, ByIdKeeps, UpdateInstanceKeeps, SaveEntityKeeps, DestroyKeeps,
     DeleteReturningKeeps, DeleteIdsKeeps, HideNextKeeps, AuditsKeep, FailureKeeps
     DEF EntityStep
<1> QED
  BY <1>1, ArriveKeeps, CrashKeeps, NothingHappens DEF EntitiesNext

\* EntityInv is inductive, whatever the port's routes are made of.
THEOREM EntitiesInvariant == EntitiesSpec => []EntityInv
<1> QED
  BY InitHolds, NextKeepsInv, PTL DEF EntitiesSpec

\* Rows, audit entries and requests keep their types: a handler's program
\* counter never leaves its route's steps.
THEOREM EntitiesTypeCorrect == EntitiesSpec => []EntitiesTypeOK
<1>1. EntityInv => EntitiesTypeOK
  <2> SUFFICES ASSUME EntityInv PROVE EntitiesTypeOK
    OBVIOUS
  <2>1. \A c \in Working : client[c].pc \in 1..Len(Steps(c)) /\ client[c].ids \subseteq Ids
    <3> SUFFICES ASSUME NEW c \in Working
                 PROVE  client[c].pc \in 1..Len(Steps(c)) /\ client[c].ids \subseteq Ids
      OBVIOUS
    <3>1. c \in Clients /\ client[c].pc # 0 /\ client[c] \in ClientState
      BY DEF Working, EntityInv, EntityTypes
    <3>2. Placed(c)
      BY <3>1 DEF EntityInv, RequestOK
    <3> QED
      BY <3>1, <3>2, ClientParts DEF Placed
  <2>2. \A e \in audit : /\ e.action \in {"INSERT", "UPDATE", "DELETE"}
                         /\ e.ids \subseteq Ids /\ {e.old, e.new} \subseteq Row
    BY DEF EntityInv, EntityTypes, AuditEntry
  <2> QED
    BY <2>1, <2>2 DEF EntitiesTypeOK, EntityInv, EntityTypes
<1> QED
  BY <1>1, EntitiesInvariant, PTL

\* Every value a row ever had, its removal included, is told by the trail as
\* soon as no request owes an entry about the row, however insertions, patches
\* and deletions overlapped and whichever of their statements failed; only the
\* rows are excepted of which an entry could not be written, whose read before
\* a deletion Prisma's lookupMatching swallowed, or whose deletion was overtaken.
THEOREM TrailComplete == EntitiesSpec => []TrailCoversTable
<1>1. EntityInv => TrailCoversTable
  <2> SUFFICES ASSUME EntityInv, NEW i \in Ids \ unlogged, ~Owed(i), NEW row \in been[i]
               PROVE  Told(audit, i, row)
    BY DEF TrailCoversTable
  <2>1. Told(Entries, i, row)
    BY DEF EntityInv, Covered
  <2>2. \A e \in Entries : i \in e.ids => e \in audit
    BY EntriesAre DEF Owed
  <2> QED
    BY <2>1, <2>2, ToldMore
<1> QED
  BY <1>1, EntitiesInvariant, PTL

\* The old value of every audit entry was a value of that row, and so was the
\* new one in the ports that log the row a statement returned.
THEOREM SnapshotsReal == EntitiesSpec => []SnapshotsAreReal
<1>1. EntityInv => SnapshotsAreReal
  BY EntriesAre DEF EntityInv, SnapshotsAreReal, Real
<1> QED
  BY <1>1, EntitiesInvariant, PTL

-----------------------------------------------------------------------------
(* What a write may change *)

Changed(i) == {k \in Fields : table'[i][k] # table[i][k]}

ByCreation(c, i) == /\ client[c].op \in Creating
                    /\ \/ table[i] = Absent
                       \/ i \in client[c].ids /\ Changed(i) = {client[c].column}
ByDeletion(c, i) == /\ client[c].op \in {"remove", "bulkDelete"} /\ i \in client[c].ids
                    /\ table'[i] \in {Absent, [table[i] EXCEPT !.state = "hidden"]}
ByPatch(c, i) == /\ client[c].op = "patch" /\ Id(c) = i
                 /\ \A k \in Changed(i) \ {client[c].column} :
                      Doing(c, "saveEntity") /\ table'[i][k] = client[c].old[k]

Permitted(c, i) == ByCreation(c, i) \/ ByDeletion(c, i) \/ ByPatch(c, i)

LEMMA OneChange ==
  ASSUME EntityInv, NEW i \in Ids, NEW row \in Row, Become([table EXCEPT ![i] = row])
  PROVE  table'[i] = row /\ \A x \in Ids \ {i} : table'[x] = table[x]
  BY DEF Become, EntityInv, EntityTypes

\* Rows are the same if they agree in every field.
LEMMA RowsDiffer ==
  ASSUME NEW r \in Row, NEW s \in Row, \A k \in Fields : r[k] = s[k]
  PROVE  r = s
  BY DEF Row, Fields, Columns

\* An UPDATE of the sent column.
LEMMA PatchChanges ==
  ASSUME EntityInv, NEW c \in Clients, NEW step, Doing(c, step), client[c].op = "patch",
         Become([table EXCEPT ![Id(c)] = Patched(c, Current(c))]),
         NEW i \in Ids, table'[i] # table[i]
  PROVE  ByPatch(c, i)
<1>1. /\ client[c] \in ClientState /\ Id(c) \in Ids
      /\ Current(c) = table[Id(c)] /\ Current(c) \in Row
  BY AtRowStep
<1> DEFINE p == Patched(c, Current(c))
<1>2. p \in Row /\ \A x \in Fields \ {client[c].column} : p[x] = Current(c)[x]
  BY <1>1, PatchedRow DEF Patched
<1>3. Become([table EXCEPT ![Id(c)] = p])
  OBVIOUS
<1> HIDE DEF p
<1>4. i = Id(c) /\ table'[i] = p
  BY <1>1, <1>2, <1>3, OneChange
<1>5. Changed(i) \subseteq {client[c].column}
  BY <1>1, <1>2, <1>4 DEF Changed
<1> QED
  BY <1>4, <1>5 DEF ByPatch

\* A row is removed or hidden by the request that named it.
LEMMA RowLeaves ==
  ASSUME EntityInv, NEW c \in Clients, NEW step, Doing(c, step),
         step = "hideNext" \/ client[c].op = "remove",
         NEW row \in {Absent, [Current(c) EXCEPT !.state = "hidden"]},
         Become([table EXCEPT ![Id(c)] = row]),
         NEW i \in Ids, table'[i] # table[i]
  PROVE  ByDeletion(c, i)
<1>1. /\ client[c].at \in client[c].ids /\ Id(c) = client[c].at
      /\ Id(c) \in Ids /\ Current(c) = table[Id(c)] /\ Current(c) \in Row
  BY AtRowStep
<1>2. row \in Row
  <2>1. "hidden" \in {"absent", "present", "hidden"}
    OBVIOUS
  <2>2. [Current(c) EXCEPT !.state = "hidden"] \in Row
    BY <1>1, <2>1, StateSet
  <2> QED
    BY <2>2, RowFacts
<1>3. i = Id(c) /\ table'[i] = row
  BY <1>1, <1>2, OneChange
<1>4. client[c].op \in {"remove", "bulkDelete"}
  BY AtStep, StepNames
<1> QED
  BY <1>1, <1>3, <1>4 DEF ByDeletion

LEMMA RowsLeave ==
  ASSUME EntityInv, NEW c \in Clients, NEW step \in {"deleteReturning", "deleteIds"}, Doing(c, step),
         NEW ids \in SUBSET client[c].ids, Become(Without(ids)),
         NEW i \in Ids, table'[i] # table[i]
  PROVE  ByDeletion(c, i)
<1>1. table'[i] = IF i \in ids THEN Absent ELSE table[i]
  BY DEF Become, Without
<1>2. client[c].op \in {"remove", "bulkDelete"}
  BY AtStep, StepNames
<1> QED
  BY <1>1, <1>2 DEF ByDeletion

LEMMA SaveChanges ==
  ASSUME EntityInv, NEW c \in Clients, SaveEntity(c), NEW i \in Ids, table'[i] # table[i]
  PROVE  ByPatch(c, i)
<1> DEFINE new == Patched(c, client[c].old)
           inserts == "state" \in client[c].differs
           row == [k \in DOMAIN new |->
                     IF inserts \/ k \in client[c].differs THEN new[k] ELSE Current(c)[k]]
<1>1. Doing(c, "saveEntity") /\ (table' = table \/ Become([table EXCEPT ![Id(c)] = row]))
  BY DEF SaveEntity
<1>2. client[c].op = "patch"
  BY <1>1, AtStep, StepNames
<1>3. /\ client[c] \in ClientState /\ Id(c) \in Ids /\ client[c].old \in Row
      /\ Current(c) = table[Id(c)] /\ Current(c) \in Row
  BY <1>1, <1>2, AtRowStep
<1>4. new \in Row /\ \A x \in Fields \ {client[c].column} : new[x] = client[c].old[x]
  BY <1>3, PatchedRow DEF Patched
<1> HIDE DEF new
<1>5. DOMAIN new = Fields
  BY <1>4 DEF Row, Fields, Columns
<1>6. row \in Row /\ \A k \in Fields : row[k] = new[k] \/ row[k] = Current(c)[k]
  <2>1. \A k \in Fields : row[k] = new[k] \/ row[k] = Current(c)[k]
    BY <1>5
  <2>2. row \in Row
    BY <1>3, <1>4 DEF Row
  <2> QED
    BY <2>1, <2>2
<1>7. Become([table EXCEPT ![Id(c)] = row])
  BY <1>1
<1> HIDE DEF row
<1>8. i = Id(c) /\ table'[i] = row
  BY <1>3, <1>6, <1>7, OneChange
<1>9. \A k \in Changed(i) \ {client[c].column} : table'[i][k] = client[c].old[k]
  BY <1>3, <1>4, <1>6, <1>8 DEF Changed
<1> QED
  BY <1>1, <1>2, <1>8, <1>9 DEF ByPatch

LEMMA SaveBodyChanges ==
  ASSUME EntityInv, NEW c \in Clients, SaveBody(c), NEW i \in Ids, table'[i] # table[i]
  PROVE  ByCreation(c, i)
<1> DEFINE found == {o[1] : o \in client[c].olds}
           updated == {o[1] : o \in {p \in client[c].olds : p[2][client[c].column] # client[c].value}}
<1>1. PICK batch \in Inserted(c) :
        /\ (batch \ found) \cap Existing = {}
        /\ Become([x \in Ids |-> IF x \in batch \ found THEN Sent(c)
                                ELSE IF x \in updated \cap Existing THEN Patched(c, table[x])
                                ELSE table[x]])
  BY DEF SaveBody
<1>2. Doing(c, "saveBody")
  BY DEF SaveBody
<1>3. /\ client[c] \in ClientState /\ client[c].op \in Creating
      /\ \A o \in client[c].olds : o[1] \in client[c].ids
  BY <1>2, AtStep, StepNames DEF Due
<1>4. table'[i] = IF i \in batch \ found THEN Sent(c)
                  ELSE IF i \in updated \cap Existing THEN Patched(c, table[i])
                  ELSE table[i]
  BY <1>1 DEF Become
<1>5. CASE i \in batch \ found
  <2>1. table[i] = Absent
    BY <1>1, <1>5 DEF Existing, EntityInv, Rows
  <2> QED
    BY <1>3, <2>1 DEF ByCreation
<1>6. CASE i \notin batch \ found
  <2>1. i \in updated /\ table'[i] = Patched(c, table[i])
    BY <1>4, <1>6
  <2>2. i \in client[c].ids
    BY <1>3, <2>1
  <2>3. table[i] \in Row
    BY DEF EntityInv, EntityTypes
  <2>4. table'[i] \in Row /\ \A x \in Fields \ {client[c].column} : table'[i][x] = table[i][x]
    BY <1>3, <2>1, <2>3, PatchedRow DEF Patched
  <2>5. client[c].column \in Fields
    BY <1>3, ClientParts DEF Fields
  <2>6. Changed(i) = {client[c].column}
    BY <2>3, <2>4, <2>5, RowsDiffer DEF Changed
  <2> QED
    BY <1>3, <2>2, <2>6 DEF ByCreation
<1> QED
  BY <1>5, <1>6

LEMMA ChangesAllowed ==
  ASSUME EntityInv, [EntitiesNext]_entityVars, NEW i \in Ids, table'[i] # table[i]
  PROVE  \E c \in Working : Permitted(c, i)
<1>1. PICK c \in Clients : EntityStep(c)
  BY DEF EntitiesNext, entityVars, EntitiesCrash, EntityArrive, RequestCreate, RequestBulkCreate,
         RequestPatch, RequestRemove, RequestBulkDelete, RequestRead, EntityRequest
<1>2. ASSUME NEW step, Doing(c, step) PROVE c \in Working
  BY <1>2 DEF Doing, Working
<1>3. CASE Insert(c) \/ CreateMany(c)
  <2>1. PICK step \in {"insert", "insertBody", "createMany"} :
          Doing(c, step) /\ \E batch \in Inserted(c) : InsertRows(c, batch)
    BY <1>3 DEF Insert, CreateMany
  <2>2. PICK batch \in Inserted(c) : InsertRows(c, batch)
    BY <2>1
  <2>3. i \in batch /\ table[i] = Absent
    BY <2>2 DEF InsertRows, Become, Existing, EntityInv, Rows
  <2>4. client[c].op \in Creating
    BY <2>1, AtStep, StepNames
  <2> QED
    BY <1>2, <2>1, <2>3, <2>4 DEF Permitted, ByCreation
<1>4. CASE SaveBody(c)
  BY <1>2, <1>4, SaveBodyChanges DEF Permitted, SaveBody
<1>5. CASE UpdateById(c)
  <2>1. Doing(c, "updateById") /\ Become([table EXCEPT ![Id(c)] = Patched(c, Current(c))])
    BY <1>5 DEF UpdateById, WriteById
  <2>2. client[c].op = "patch"
    BY <2>1, AtStep, StepNames
  <2> QED
    BY <1>2, <2>1, <2>2, PatchChanges DEF Permitted
<1>6. CASE UpdateInstance(c)
  <2>1. Doing(c, "updateInstance") /\ Become([table EXCEPT ![Id(c)] = Patched(c, Current(c))])
    BY <1>6 DEF UpdateInstance
  <2>2. client[c].op = "patch"
    BY <2>1, AtStep, StepNames
  <2> QED
    BY <1>2, <2>1, <2>2, PatchChanges DEF Permitted
<1>7. CASE SaveEntity(c)
  BY <1>2, <1>7, SaveChanges DEF Permitted, SaveEntity
<1>8. ASSUME NEW step \in {"deleteById", "hideById", "destroy", "hideNext"}, Doing(c, step),
             NEW row \in {Absent, [Current(c) EXCEPT !.state = "hidden"]},
             Become([table EXCEPT ![Id(c)] = row])
      PROVE  \E d \in Working : Permitted(d, i)
  <2>1. step = "hideNext" \/ client[c].op = "remove"
    BY <1>8, AtStep, StepNames
  <2>2. ByDeletion(c, i)
    BY <1>8, <2>1, RowLeaves
  <2> QED
    BY <1>2, <1>8, <2>2 DEF Permitted
<1>9. CASE DeleteById(c)
  BY <1>8, <1>9 DEF DeleteById, WriteById
<1>10. CASE HideById(c)
  BY <1>8, <1>10 DEF HideById, WriteById
<1>11. CASE Destroy(c)
  BY <1>8, <1>11 DEF Destroy
<1>12. CASE HideNext(c)
  BY <1>8, <1>12 DEF HideNext
<1>13. CASE DeleteReturning(c)
  <2>1. Doing(c, "deleteReturning") /\ Become(Without(client[c].ids \cap Existing))
    BY <1>13 DEF DeleteReturning
  <2>2. client[c].ids \cap Existing \in SUBSET client[c].ids
    OBVIOUS
  <2>3. ByDeletion(c, i)
    BY <2>1, <2>2, RowsLeave
  <2> QED
    BY <1>2, <2>1, <2>3 DEF Permitted
<1>14. CASE DeleteIds(c)
  <2>1. Doing(c, "deleteIds") /\ Become(Without(client[c].ids))
    BY <1>14 DEF DeleteIds
  <2>2. ByDeletion(c, i)
    BY <2>1, RowsLeave
  <2> QED
    BY <1>2, <2>1, <2>2 DEF Permitted
<1> QED
  BY <1>1, <1>3, <1>4, <1>5, <1>6, <1>7, <1>9, <1>10, <1>11, <1>12, <1>13, <1>14
     DEF EntityStep, ReadRows, InScope, InScopeIds, FindRow, LookupOld, SelectBefore,
         LookupMatching, FindOlds, LookupNext, LoadForSave, Again, NoSuchRow, AuditEach, AuditAll,
         StatementFails

\* A row changes only by the request that may change it, and only as far as it
\* may: a creation revives it or (TypeORM's save of a body) writes the one column
\* it sent, a deletion removes or hides it, a PATCH writes the column it sent.
\* What else a TypeORM save changes gets the value the save had read before.
THEOREM OnlyStaleSaves == EntitiesSpec => OnlyStaleSavesUndo
<1>1. EntityInv /\ [EntitiesNext]_entityVars =>
        [\A i \in Ids : table'[i] # table[i] =>
           LET changed == {k \in Fields : table'[i][k] # table[i][k]} IN
           \E c \in Working :
             \/ /\ client[c].op \in Creating
                /\ \/ table[i] = Absent
                   \/ i \in client[c].ids /\ changed = {client[c].column}
             \/ /\ client[c].op \in {"remove", "bulkDelete"} /\ i \in client[c].ids
                /\ table'[i] \in {Absent, [table[i] EXCEPT !.state = "hidden"]}
             \/ /\ client[c].op = "patch" /\ Id(c) = i
                /\ \A k \in changed \ {client[c].column} :
                     Doing(c, "saveEntity") /\ table'[i][k] = client[c].old[k]]_entityVars
  BY ChangesAllowed DEF Permitted, ByCreation, ByDeletion, ByPatch, Changed
<1> QED
  BY <1>1, EntitiesInvariant, PTL DEF EntitiesSpec, OnlyStaleSavesUndo

=============================================================================
