---------------------------- MODULE EntityCrud ----------------------------
(***************************************************************************)
(* The generated entity routes of a backend (auto-routes.ts) on one table, *)
(* and the audit trail they keep: create, read, patch, delete, their bulk  *)
(* forms and soft deletion, under concurrent requests.                     *)
(*                                                                         *)
(* As in AuthAccounts the ports are data: Behaviour[p].entity gives every  *)
(* route of port p its steps, Behaviour[p].softEntity the same for an      *)
(* entity with soft deletion.  No route uses a transaction, so requests    *)
(* interleave between any two steps.  Hooks of the entity's author run     *)
(* before the first write or after the last and are left out.              *)
(*                                                                         *)
(* A body is taken as the port takes it: those of the Prisma ports name no *)
(* id, those of the other ports are passed on to the ORM and may name any, *)
(* also one that exists or was deleted.  Two things are left out: a PATCH  *)
(* whose body names another primary key, and a write that takes effect     *)
(* although its answer is lost.                                            *)
(***************************************************************************)
EXTENDS Integers, Sequences, FiniteSets

CONSTANTS
  EntityPorts,      \* names of ports
  EntityBehaviour,  \* what each port does, see NodePorts
  Ids,              \* primary keys
  Clients,          \* requests the server works on at the same time
  Patches,          \* bound: bodies a PATCH sends, pairs of a column and a value
  Batches,          \* bound: sets of ids a bulk deletion names
  MaxWrites         \* bound: requests made

EntityOps == {"list", "get", "create", "patch", "remove", "bulkCreate", "bulkDelete"}
Creating == {"create", "bulkCreate"}

EntityWrites == {"insert", "insertBody", "createMany", "saveBody", "updateById", "deleteById",
                 "hideById", "updateInstance", "saveEntity", "destroy", "deleteReturning",
                 "deleteIds", "hideNext"}
AuditSteps == {"auditEach", "auditAll"}
\* Reads whose failure the code catches, and the end of a loop.
NeverFail == {"lookupOld", "lookupMatching", "lookupNext", "again"}

\* The steps a route may be made of.
StepsOf(op) ==
  CASE op \in {"list", "get"} -> {"readRows"}
    [] op \in Creating -> {"insert", "insertBody", "createMany", "loadBody", "saveBody"}
                          \cup AuditSteps
    [] op = "patch" -> {"inScope", "findRow", "lookupOld", "selectBefore", "updateById",
                       "updateInstance", "loadForSave", "saveEntity"} \cup AuditSteps
    [] op = "remove" -> {"inScope", "findRow", "lookupOld", "deleteById", "hideById", "destroy",
                        "deleteReturning", "findOlds", "deleteIds"} \cup AuditSteps
    [] op = "bulkDelete" -> {"inScopeIds", "lookupMatching", "findOlds", "deleteIds",
                            "deleteReturning", "lookupNext", "hideNext", "again", "noSuchRow"}
                            \cup AuditSteps

RightAfter(program, n, steps) == n > 1 /\ program[n - 1] \in steps

\* What the routes of all ports have in common: what was written is logged at
\* once, and what a write relies on was read just before.
EntityProgram(op, program) ==
  /\ program \in Seq(STRING) /\ program # <<>>
  /\ \A n \in 1..Len(program) :
       /\ program[n] \in StepsOf(op)
       /\ program[n] \in EntityWrites => n < Len(program) /\ program[n + 1] \in AuditSteps
       /\ program[n] \in {"updateInstance", "loadForSave", "destroy"} =>
            RightAfter(program, n, {"findRow"})
       /\ program[n] = "saveBody" => RightAfter(program, n, {"loadBody"})
       /\ program[n] = "saveEntity" => RightAfter(program, n, {"loadForSave"})
       /\ program[n] = "deleteIds" => RightAfter(program, n, {"lookupMatching", "findOlds"})
       /\ program[n] = "hideNext" => RightAfter(program, n, {"lookupNext"})
       /\ program[n] = "again" => \E m \in 1..Len(program) : program[m] = "lookupNext"

ASSUME EntityProgramsAssumption ==
  \A p \in EntityPorts, op \in EntityOps :
    /\ EntityProgram(op, EntityBehaviour[p].entity[op])
    /\ EntityProgram(op, EntityBehaviour[p].softEntity[op])

Columns == {"a", "b"}
Values == {0, 1}

ASSUME EntityRequestsAssumption == Patches \subseteq Columns \X Values /\ Batches \subseteq SUBSET Ids

VARIABLES
  entityPort,  \* the port that is deployed
  soft,        \* the entity is configured with softDelete
  table,       \* the rows; a row that was never inserted or is gone is absent
  audit,       \* the table audit_logs
  client,      \* the requests in flight
  writes,      \* bound: requests made
  been,        \* history: values each row has had, Absent once it was removed
  unlogged     \* history: ids of which something is missing in the trail

entityVars == <<entityPort, soft, table, audit, client, writes, been, unlogged>>

Row == [state: {"absent", "present", "hidden"}, a: Values, b: Values]
Absent == [state |-> "absent", a |-> 0, b |-> 0]
NewRow == [Absent EXCEPT !.state = "present"]

Fields == {"state"} \cup Columns

\* An audit entry.  That of a createMany is about its whole batch: it holds the
\* data sent, but its record_id is empty.
Entry(action, ids, old, new) == [action |-> action, ids |-> ids, old |-> old, new |-> new]

NoClient ==
  [op |-> "none", pc |-> 0,
   ids |-> {},           \* the ids it names; of a creation, those of its body
   at |-> "",            \* the one of them that is being worked on
   column |-> "a", value |-> 0,  \* the column it sends
   old |-> Absent,       \* the row that was read
   olds |-> {},          \* ids a bulk request has read, with their rows
   differs |-> {},       \* columns a save found to differ
   pending |-> {}]       \* audit entries still to be written

Existing == {i \in Ids : table[i].state # "absent"}
Routes(p) == IF soft THEN EntityBehaviour[p].softEntity ELSE EntityBehaviour[p].entity

EntitiesInit ==
  /\ entityPort \in EntityPorts /\ soft \in BOOLEAN
  /\ soft => EntityBehaviour[entityPort].softEntity # EntityBehaviour[entityPort].entity
  /\ \E S \in SUBSET Ids :   \* an empty table, or one row
       /\ Cardinality(S) <= 1
       /\ table = [i \in Ids |-> IF i \in S THEN NewRow ELSE Absent]
       /\ audit = {Entry("INSERT", {i}, Absent, NewRow) : i \in S}
       /\ been = [i \in Ids |-> IF i \in S THEN {NewRow} ELSE {}]
  /\ client = [c \in Clients |-> NoClient]
  /\ writes = 0 /\ unlogged = {}

-----------------------------------------------------------------------------
(* Requests *)

Working == {c \in Clients : client[c].pc # 0}

EntityRequest(c, op, ids, at, column, value) ==
  /\ c \notin Working
  /\ writes < MaxWrites /\ writes' = writes + 1
  /\ client' = [client EXCEPT ![c] = [NoClient EXCEPT !.op = op, !.pc = 1, !.ids = ids, !.at = at,
                                                      !.column = column, !.value = value]]
  /\ UNCHANGED <<entityPort, soft, table, audit, been, unlogged>>

\* In the Prisma ports a schema without the id checks the body.
TakesIds == Routes(entityPort).create[1] # "insert"
BodyIds == IF TakesIds THEN SUBSET Ids ELSE {{}}

\* The body of a creation: one column with another value than its default.
RequestCreate(c) ==
  \E ids \in BodyIds : Cardinality(ids) <= 1 /\ EntityRequest(c, "create", ids, "", "a", 1)
RequestBulkCreate(c) == \E ids \in BodyIds : EntityRequest(c, "bulkCreate", ids, "", "a", 1)
RequestPatch(c) ==
  \E i \in Ids, p \in Patches : EntityRequest(c, "patch", {i}, i, p[1], p[2])
RequestRemove(c) == \E i \in Ids : EntityRequest(c, "remove", {i}, i, "a", 0)
RequestBulkDelete(c) ==
  \E ids \in Batches : EntityRequest(c, "bulkDelete", ids, "", "a", 0)
RequestRead(c) == \E op \in {"list", "get"} : EntityRequest(c, op, Ids, "", "a", 0)

Steps(c) == Routes(entityPort)[client[c].op]
Doing(c, step) == client[c].pc # 0 /\ Steps(c)[client[c].pc] = step
Respond(c) == client' = [client EXCEPT ![c] = NoClient]

\* Fault: the handler does not return after its last step.
ContinueWithoutReturn(c, known) == client' = [client EXCEPT ![c] = [known EXCEPT !.pc = @ + 1]]

\* Go on with what the request now knows, or respond after the last step.
Continue(c, known) ==
  client' = [client EXCEPT ![c] =
    IF client[c].pc = Len(Steps(c)) THEN NoClient ELSE [known EXCEPT !.pc = known.pc + 1]]

Id(c) == client[c].at
Current(c) == table[Id(c)]
Visible(row) == row.state = "present"

\* Rows that come to be after a deletion has read what it will delete: it
\* deletes them as well and knows nothing to log.
Overtaken(new) ==
  {i \in Ids : /\ table[i].state = "absent" /\ new[i].state # "absent"
               /\ \E c \in Clients : /\ Doing(c, "deleteIds") /\ i \in client[c].ids
                                     /\ \A o \in client[c].olds : o[1] # i}

\* Rows get new values, which the history keeps.
Become(new) ==
  /\ table' = new
  /\ been' = [i \in Ids |-> IF new[i] = table[i] THEN been[i] ELSE been[i] \cup {new[i]}]
  /\ unlogged' = unlogged \cup Overtaken(new)

\* A statement fails without effect and the handler with it: a connection is
\* lost, a unique key or another constraint violated.
StatementFails(c) ==
  /\ client[c].pc # 0 /\ Steps(c)[client[c].pc] \notin AuditSteps \cup NeverFail
  /\ Respond(c)
  /\ UNCHANGED <<entityPort, soft, table, audit, writes, been, unlogged>>

ReadRows(c) ==
  /\ Doing(c, "readRows") /\ Continue(c, client[c])
  /\ UNCHANGED <<entityPort, soft, table, audit, writes, been, unlogged>>

\* A scoped request goes on with the rows its user may see.
InScope(c) ==
  /\ Doing(c, "inScope") /\ (Continue(c, client[c]) \/ Respond(c))
  /\ UNCHANGED <<entityPort, soft, table, audit, writes, been, unlogged>>

InScopeIds(c) ==
  /\ Doing(c, "inScopeIds")
  /\ \E ids \in SUBSET client[c].ids :
       \/ ids # {} /\ Continue(c, [client[c] EXCEPT !.ids = ids])
       \/ ids = {} /\ Respond(c)
  /\ UNCHANGED <<entityPort, soft, table, audit, writes, been, unlogged>>

\* findById, findOne: 404 without a row, or with a hidden one.
FindRow(c) ==
  /\ Doing(c, "findRow")
  /\ \/ Visible(Current(c)) /\ Continue(c, [client[c] EXCEPT !.old = Current(c)])
     \/ ~Visible(Current(c)) /\ Respond(c)
  /\ UNCHANGED <<entityPort, soft, table, audit, writes, been, unlogged>>

\* Prisma, lookupExisting: the old value for the audit entry, or null when
\* there is no row or the read fails.
LookupOld(c) ==
  /\ Doing(c, "lookupOld")
  /\ \E old \in {Current(c), Absent} : Continue(c, [client[c] EXCEPT !.old = old])
  /\ UNCHANGED <<entityPort, soft, table, audit, writes, been, unlogged>>

\* Drizzle
SelectBefore(c) ==
  /\ Doing(c, "selectBefore") /\ Continue(c, [client[c] EXCEPT !.old = Current(c)])
  /\ UNCHANGED <<entityPort, soft, table, audit, writes, been, unlogged>>

RowsOf(c) == {<<i, table[i]>> : i \in client[c].ids \cap Existing}

\* Prisma: a failed read counts as no rows, and the deletion goes on.
LookupMatching(c) ==
  /\ Doing(c, "lookupMatching")
  /\ \/ Continue(c, [client[c] EXCEPT !.olds = RowsOf(c)]) /\ UNCHANGED unlogged
     \/ Continue(c, [client[c] EXCEPT !.olds = {}]) /\ unlogged' = unlogged \cup client[c].ids
  /\ UNCHANGED <<entityPort, soft, table, audit, writes, been>>

\* TypeORM and Sequelize, before a deletion; TypeORM, before it saves a body
\* that names ids.
FindOlds(c) ==
  /\ Doing(c, "findOlds") \/ Doing(c, "loadBody")
  /\ Continue(c, [client[c] EXCEPT !.olds = RowsOf(c)])
  /\ UNCHANGED <<entityPort, soft, table, audit, writes, been, unlogged>>

-----------------------------------------------------------------------------
(* Writes *)

\* The ids of what is inserted: those the body names and generated ones, which
\* no row has had.
Inserted(c) ==
  {batch \in SUBSET Ids :
     /\ batch # {} /\ client[c].ids \subseteq batch
     /\ \A i \in batch \ client[c].ids : been[i] = {}
     /\ client[c].op = "create" => Cardinality(batch) = 1}

Sent(c) == [NewRow EXCEPT ![client[c].column] = client[c].value]

InsertRows(c, batch) ==
  /\ batch \cap Existing = {}
  /\ Become([i \in Ids |-> IF i \in batch THEN Sent(c) ELSE table[i]])

Insert(c) ==
  /\ Doing(c, "insert") \/ Doing(c, "insertBody")
  /\ \E batch \in Inserted(c) :
       /\ InsertRows(c, batch)
       /\ Continue(c, [client[c] EXCEPT !.pending =
                         {Entry("INSERT", {i}, Absent, Sent(c)) : i \in batch}])
  /\ UNCHANGED <<entityPort, soft, audit, writes>>

\* Prisma: createMany returns no rows and gets one entry.
CreateMany(c) ==
  /\ Doing(c, "createMany")
  /\ \E batch \in Inserted(c) :
       /\ InsertRows(c, batch)
       /\ Continue(c, [client[c] EXCEPT !.pending = {Entry("INSERT", batch, Absent, Sent(c))}])
  /\ UNCHANGED <<entityPort, soft, audit, writes>>

Patched(c, row) == [row EXCEPT ![client[c].column] = client[c].value]

\* One row is written and the entry holds what the database returned; there
\* is an error, or a 404, if the row is gone.
WriteById(c, step, action, new) ==
  /\ Doing(c, step)
  /\ \/ /\ Current(c).state # "absent"
        /\ Become([table EXCEPT ![Id(c)] = new])
        /\ Continue(c, [client[c] EXCEPT !.pending = {Entry(action, {Id(c)}, client[c].old, new)}])
     \/ Current(c).state = "absent" /\ Respond(c) /\ UNCHANGED <<table, been, unlogged>>
  /\ UNCHANGED <<entityPort, soft, audit, writes>>

\* Fault: the row is written back as it was read, with the changes.
UpdateByIdWholeRow(c) == WriteById(c, "updateById", "UPDATE", Patched(c, client[c].old))

\* Fault: the entry holds the row that was read with the changes.
UpdateByIdInMemory(c) ==
  /\ Doing(c, "updateById")
  /\ \/ /\ Current(c).state # "absent"
        /\ Become([table EXCEPT ![Id(c)] = Patched(c, Current(c))])
        /\ Continue(c, [client[c] EXCEPT !.pending =
                          {Entry("UPDATE", {Id(c)}, client[c].old, Patched(c, client[c].old))}])
     \/ Current(c).state = "absent" /\ Respond(c) /\ UNCHANGED <<table, been, unlogged>>
  /\ UNCHANGED <<entityPort, soft, audit, writes>>

UpdateById(c) == WriteById(c, "updateById", "UPDATE", Patched(c, Current(c)))
DeleteById(c) == WriteById(c, "deleteById", "DELETE", Absent)
HideById(c) == WriteById(c, "hideById", "UPDATE", [Current(c) EXCEPT !.state = "hidden"])

\* Sequelize: UPDATE of the sent column where it differs from the instance.
\* The entry holds the instance, whether or not a row was there to change.
UpdateInstance(c) ==
  LET new == Patched(c, client[c].old) IN
  /\ Doing(c, "updateInstance")
  /\ \/ /\ Current(c).state # "absent" /\ new # client[c].old
        /\ Become([table EXCEPT ![Id(c)] = Patched(c, Current(c))])
     \/ (Current(c).state = "absent" \/ new = client[c].old) /\ UNCHANGED <<table, been, unlogged>>
  /\ Continue(c, [client[c] EXCEPT !.pending = {Entry("UPDATE", {Id(c)}, client[c].old, new)}])
  /\ UNCHANGED <<entityPort, soft, audit, writes>>

\* TypeORM: save() reads the row again and compares it with the entity ...
LoadForSave(c) ==
  LET new == Patched(c, client[c].old) IN
  /\ Doing(c, "loadForSave")
  /\ Continue(c, [client[c] EXCEPT !.differs =
       IF Current(c).state = "absent" THEN {"state"}
       ELSE {k \in Columns : new[k] # Current(c)[k]}])
  /\ UNCHANGED <<entityPort, soft, table, audit, writes, been, unlogged>>

\* ... then inserts it if there was none, or updates the columns that differ.
SaveEntity(c) ==
  LET new == Patched(c, client[c].old)
      inserts == "state" \in client[c].differs
      gone == Current(c).state = "absent"
      logged == [client[c] EXCEPT !.pending = {Entry("UPDATE", {Id(c)}, client[c].old, new)}]
  IN
  /\ Doing(c, "saveEntity")
  /\ \/ inserts /\ ~gone /\ Respond(c) /\ UNCHANGED <<table, been, unlogged>>
     \/ ~inserts /\ gone /\ Continue(c, logged) /\ UNCHANGED <<table, been, unlogged>>
     \/ /\ inserts = gone /\ Continue(c, logged)
        /\ Become([table EXCEPT ![Id(c)] =
             [k \in DOMAIN new |->
                IF inserts \/ k \in client[c].differs THEN new[k] ELSE Current(c)[k]]])
  /\ UNCHANGED <<entityPort, soft, audit, writes>>

\* TypeORM: save() of a body inserts what it did not find and updates the sent
\* column of what it found, where it differs; both are logged as insertions, with
\* the columns that were sent (a column that is missing counts as 0 here).
SaveBody(c) ==
  LET found == {o[1] : o \in client[c].olds}
      updated == {o[1] : o \in {p \in client[c].olds : p[2][client[c].column] # client[c].value}}
  IN
  /\ Doing(c, "saveBody")
  /\ \E batch \in Inserted(c) :
       /\ (batch \ found) \cap Existing = {}
       /\ Become([i \in Ids |-> IF i \in batch \ found THEN Sent(c)
                              ELSE IF i \in updated \cap Existing THEN Patched(c, table[i])
                              ELSE table[i]])
       /\ Continue(c, [client[c] EXCEPT !.olds = {}, !.pending =
                         {Entry("INSERT", {i}, Absent, Sent(c)) : i \in batch}])
  /\ UNCHANGED <<entityPort, soft, audit, writes>>

\* Sequelize: DELETE, of a row that may be gone already.
Destroy(c) ==
  /\ Doing(c, "destroy") /\ Become([table EXCEPT ![Id(c)] = Absent])
  /\ Continue(c, [client[c] EXCEPT !.pending = {Entry("DELETE", {Id(c)}, client[c].old, Absent)}])
  /\ UNCHANGED <<entityPort, soft, audit, writes>>

Without(ids) == [i \in Ids |-> IF i \in ids THEN Absent ELSE table[i]]

\* Drizzle: DELETE ... RETURNING gives the rows it deleted.
DeleteReturning(c) ==
  LET deleted == client[c].ids \cap Existing IN
  /\ Doing(c, "deleteReturning") /\ Become(Without(deleted))
  /\ \/ deleted = {} /\ Respond(c)
     \/ /\ deleted # {}
        /\ Continue(c, [client[c] EXCEPT !.pending =
                          {Entry("DELETE", {i}, table[i], Absent) : i \in deleted}])
  /\ UNCHANGED <<entityPort, soft, audit, writes>>

\* DELETE ... WHERE id IN, after the rows were read.
DeleteIds(c) ==
  /\ Doing(c, "deleteIds") /\ Become(Without(client[c].ids))
  /\ Continue(c, [client[c] EXCEPT !.olds = {}, !.pending =
                    {Entry("DELETE", {o[1]}, o[2], Absent) : o \in client[c].olds}])
  /\ UNCHANGED <<entityPort, soft, audit, writes>>

\* Soft deletion in bulk goes id by id and skips rows that are hidden or gone.
LookupNext(c) ==
  /\ Doing(c, "lookupNext")
  /\ \E i \in client[c].ids : \E old \in {table[i], Absent} :
       Continue(c, [client[c] EXCEPT !.at = i, !.old = old])
  /\ UNCHANGED <<entityPort, soft, table, audit, writes, been, unlogged>>

HideNext(c) ==
  LET new == [Current(c) EXCEPT !.state = "hidden"] IN
  /\ Doing(c, "hideNext")
  /\ \/ /\ Visible(Current(c)) /\ Become([table EXCEPT ![Id(c)] = new])
        /\ Continue(c, [client[c] EXCEPT !.pending = {Entry("UPDATE", {Id(c)}, client[c].old, new)}])
     \/ ~Visible(Current(c)) /\ Continue(c, client[c]) /\ UNCHANGED <<table, been, unlogged>>
  /\ UNCHANGED <<entityPort, soft, audit, writes>>

Again(c) ==
  LET left == client[c].ids \ {Id(c)}
      loop == CHOOSE n \in 1..Len(Steps(c)) : Steps(c)[n] = "lookupNext"
  IN
  /\ Doing(c, "again")
  /\ \/ left = {} /\ Respond(c)
     \/ left # {} /\ client' = [client EXCEPT ![c] = [client[c] EXCEPT !.ids = left, !.pc = loop]]
  /\ UNCHANGED <<entityPort, soft, table, audit, writes, been, unlogged>>

\* DELETE of an id that names no row.
NoSuchRow(c) ==
  /\ Doing(c, "noSuchRow") /\ Respond(c)
  /\ UNCHANGED <<entityPort, soft, table, audit, writes, been, unlogged>>

-----------------------------------------------------------------------------
(* The audit trail *)

IdsOf(entries) == UNION {e.ids : e \in entries}

\* Entries that are written are in the trail; a write that fails is caught.
AuditWrite(entries) ==
  \/ audit' = audit \cup entries /\ UNCHANGED unlogged
  \/ entries # {} /\ unlogged' = unlogged \cup IdsOf(entries) /\ UNCHANGED audit

\* Fault: the loop ends with its first entry.
AuditEachFirst(c) ==
  /\ Doing(c, "auditEach")
  /\ \/ \E e \in client[c].pending :
          AuditWrite({e}) /\ Continue(c, [client[c] EXCEPT !.pending = {}])
     \/ client[c].pending = {} /\ Continue(c, client[c]) /\ UNCHANGED <<audit, unlogged>>
  /\ UNCHANGED <<entityPort, soft, table, writes, been>>

\* One INSERT for every entry, one after the other.
AuditEach(c) ==
  /\ Doing(c, "auditEach")
  /\ \/ \E e \in client[c].pending :
          /\ AuditWrite({e})
          /\ IF client[c].pending = {e} THEN Continue(c, [client[c] EXCEPT !.pending = {}])
             ELSE client' = [client EXCEPT ![c] =
                               [client[c] EXCEPT !.pending = client[c].pending \ {e}]]
     \/ client[c].pending = {} /\ Continue(c, client[c]) /\ UNCHANGED <<audit, unlogged>>
  /\ UNCHANGED <<entityPort, soft, table, writes, been>>

\* One INSERT for all of them.
AuditAll(c) ==
  /\ Doing(c, "auditAll") /\ AuditWrite(client[c].pending)
  /\ Continue(c, [client[c] EXCEPT !.pending = {}])
  /\ UNCHANGED <<entityPort, soft, table, writes, been>>

-----------------------------------------------------------------------------

\* The server stops; an entry that was to follow a write is never written.
EntitiesCrash ==
  /\ Working # {} /\ client' = [c \in Clients |-> NoClient]
  /\ unlogged' = unlogged \cup UNION {IdsOf(client[c].pending) : c \in Clients}
  /\ UNCHANGED <<entityPort, soft, table, audit, writes, been>>

EntityArrive(c) ==
  \/ RequestCreate(c) \/ RequestBulkCreate(c) \/ RequestPatch(c)
  \/ RequestRemove(c) \/ RequestBulkDelete(c) \/ RequestRead(c)

EntityStep(c) ==
  \/ ReadRows(c) \/ InScope(c) \/ InScopeIds(c)
  \/ FindRow(c) \/ LookupOld(c) \/ SelectBefore(c) \/ LookupMatching(c) \/ FindOlds(c)
  \/ LookupNext(c)
  \/ Insert(c) \/ CreateMany(c) \/ SaveBody(c)
  \/ UpdateById(c) \/ DeleteById(c) \/ HideById(c)
  \/ UpdateInstance(c) \/ LoadForSave(c) \/ SaveEntity(c)
  \/ Destroy(c) \/ DeleteReturning(c) \/ DeleteIds(c)
  \/ HideNext(c) \/ Again(c) \/ NoSuchRow(c)
  \/ AuditEach(c) \/ AuditAll(c) \/ StatementFails(c)

EntitiesNext ==
  \/ \E c \in Clients : EntityArrive(c) \/ EntityStep(c)
  \/ EntitiesCrash

EntitiesSpec == EntitiesInit /\ [][EntitiesNext]_entityVars

-----------------------------------------------------------------------------
(* Properties *)

\* Every variable keeps its type, and every request stays within its route.
EntitiesTypeOK ==
  /\ table \in [Ids -> Row] /\ unlogged \subseteq Ids
  /\ \A e \in audit : /\ e.action \in {"INSERT", "UPDATE", "DELETE"}
                      /\ e.ids \subseteq Ids /\ {e.old, e.new} \subseteq Row
  /\ \A c \in Working : client[c].pc \in 1..Len(Steps(c)) /\ client[c].ids \subseteq Ids

\* Prisma and Drizzle log the row a statement returned, the others the object in
\* memory, which may never have been in the database.
ReturningPorts ==
  {p \in EntityPorts :
     \A routes \in {EntityBehaviour[p].entity, EntityBehaviour[p].softEntity} :
       \A op \in EntityOps : \A n \in 1..Len(routes[op]) :
         routes[op][n] \notin {"updateInstance", "saveEntity", "saveBody"}}
LogsReturnedRow == entityPort \in ReturningPorts

\* Entries tell that a row had a value: in one entry, or column by column.
Told(entries, i, row) ==
  IF LogsReturnedRow THEN \E e \in entries : i \in e.ids /\ e.new = row
  ELSE \A k \in Fields : \E e \in entries :
         i \in e.ids /\ e.new[k] = row[k] /\ (e.new = Absent <=> row = Absent)

Owed(i) == \E c \in Clients : \E e \in client[c].pending : i \in e.ids

\* CHANGELOG: every write is in the audit trail, "bulk operations are captured".
\* Once the requests that wrote a row have logged it, the trail tells every value
\* the row ever had, its removal included, however insertions, patches and
\* deletions overlapped.  It may not for the ids in unlogged: an entry could not
\* be written, Prisma could not read the rows it was to delete, or a deletion was
\* overtaken by an insertion.
TrailCoversTable ==
  \A i \in Ids \ unlogged : ~Owed(i) => \A row \in been[i] : Told(audit, i, row)

\* "before/after snapshots": the value an entry gives for before was the row's
\* value at some time.  So was the value for after in the ports that log the
\* row a statement returned.
SnapshotsAreReal ==
  \A e \in audit : \A i \in e.ids :
    /\ e.old # Absent => e.old \in been[i]
    /\ LogsReturnedRow => e.new \in been[i]

\* What may become of a row, and by whose request: a creation gives life to a
\* row there was not, or (TypeORM) changes its one column of a row it named; a
\* deletion removes or hides; a PATCH changes the column it was sent.  Only a
\* TypeORM save changes anything else, and then back to what it had read: it
\* undoes what others wrote in between, a deletion included.
OnlyStaleSavesUndo ==
  [][\A i \in Ids : table'[i] # table[i] =>
       LET changed == {k \in Fields : table'[i][k] # table[i][k]} IN
       \E c \in Working :
         \/ /\ client[c].op \in Creating
            /\ \/ table[i] = Absent
               \/ i \in client[c].ids /\ changed = {client[c].column}
         \/ /\ client[c].op \in {"remove", "bulkDelete"} /\ i \in client[c].ids
            /\ table'[i] \in {Absent, [table[i] EXCEPT !.state = "hidden"]}
         \/ /\ client[c].op = "patch" /\ Id(c) = i
            /\ \A k \in changed \ {client[c].column} :
                 Doing(c, "saveEntity") /\ table'[i][k] = client[c].old[k]
    ]_entityVars

=============================================================================
