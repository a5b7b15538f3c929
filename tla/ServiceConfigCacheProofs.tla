---------------------- MODULE ServiceConfigCacheProofs ----------------------
(***************************************************************************)
(* Proofs about ServiceConfigCache, for any number of processes, calls,    *)
(* versions and ticks: how old a served value may be, and that a process   *)
(* sees its own writes.                                                    *)
(*                                                                         *)
(* Both are about the moment between the read of the row and the fill of   *)
(* the cache, so the inductive invariant says for the value a call carries *)
(* what the properties say for the value a cache holds.                    *)
(***************************************************************************)
EXTENDS ServiceConfigCache, TLAPS

Entry == [version: Nat, left: Nat, stale: Nat, raced: BOOLEAN]
CallState ==
  [op: Operations \cup {"none"}, process: Processes \cup {""}, pc: Nat, version: Nat,
   found: BOOLEAN, waited: Nat, stale: Nat, raced: BOOLEAN]

CacheTypes ==
  /\ configPort \in ConfigPorts
  /\ setting \in Nat /\ drawn \in Nat
  /\ cache \in [Processes -> Entry] /\ call \in [Calls -> CallState]
  /\ written \in [Processes -> Nat]

\* The row has the last value that was drawn, or is gone.
Numbered ==
  /\ setting \in {0, drawn}
  /\ \A p \in Processes : written[p] <= drawn
  /\ \A k \in Calls : call[k].version <= drawn

\* A call that works belongs to a process and stands at a step of its program.
Busy(k) ==
  call[k].pc # 0 => /\ call[k].process \in Processes /\ call[k].op \in Operations
                    /\ call[k].pc \in 1..Len(CallSteps(k))

\* The value a call carries, and the value a cache holds.
Carried(k) ==
  /\ call[k].stale <= call[k].waited /\ call[k].waited <= MaxDelay
  /\ Serving(k, "fill") /\ call[k].version < written[call[k].process] => call[k].raced
Held(p) ==
  cache[p].left > 0 =>
    /\ cache[p].stale + cache[p].left <= CacheTTL + MaxDelay
    /\ cache[p].version < written[p] => cache[p].raced

CacheInv ==
  /\ CacheTypes /\ Numbered
  /\ \A k \in Calls : Busy(k) /\ Carried(k)
  /\ \A p \in Processes : Held(p)

-----------------------------------------------------------------------------
(* Programs and records *)

LEMMA Blank ==
  /\ NoEntry \in Entry /\ NoEntry.left = 0
  /\ NoCall \in CallState /\ NoCall.pc = 0 /\ NoCall.version = 0
  /\ NoCall.waited = 0 /\ NoCall.stale = 0
  BY DEF NoEntry, Entry, NoCall, CallState

\* Only get carries a value from its read to the cache.
LEMMA ProgramOf ==
  ASSUME configPort \in ConfigPorts, NEW op \in Operations
  PROVE  LET program == ConfigBehaviour[configPort].config[op] IN
         /\ Len(program) \in Nat \ {0}
         /\ \A i, j \in 1..Len(program) :
              program[j] = "fill" => /\ program[i] \in {"cached", "readRow", "fill"}
                                     /\ program[1] = "cached"
                                     /\ i + 1 = j => program[i] = "readRow"
         /\ \A i \in 1..Len(program) : program[i] = "findOrCreate" => i + 2 <= Len(program)
<1> DEFINE program == ConfigBehaviour[configPort].config[op]
<1>1. /\ program \in Seq(STRING) /\ program # <<>>
      /\ (\E i \in 1..Len(program) : program[i] \in {"cached", "readRow", "fill"}) =>
           program = <<"cached", "readRow", "fill">>
      /\ \A i \in 1..Len(program) : program[i] = "findOrCreate" => i + 2 <= Len(program)
  BY ConfigProgramsAssumption DEF Operations
<1> HIDE DEF program
<1>2. Len(program) \in Nat \ {0}
  BY <1>1
<1>3. ASSUME NEW j \in 1..Len(program), program[j] = "fill", NEW i \in 1..Len(program)
      PROVE  /\ program[i] \in {"cached", "readRow", "fill"} /\ program[1] = "cached"
             /\ i + 1 = j => program[i] = "readRow"
  <2>1. program = <<"cached", "readRow", "fill">>
    BY <1>1, <1>3
  <2>2. i \in 1..3 /\ j \in 1..3
    BY <1>3, <2>1
  <2> QED
    BY <1>3, <2>1, <2>2
<1> QED
  BY <1>1, <1>2, <1>3 DEF program

-----------------------------------------------------------------------------
(* Steps of one call *)

\* One call changes, and it does not carry a value its process has replaced.
LEMMA Moved ==
  ASSUME CacheInv, NEW k \in Calls, NEW new \in CallState,
         call' = [call EXCEPT ![k] = new], UNCHANGED <<configPort, written>>,
         drawn' \in Nat, drawn <= drawn', setting' \in {0, drawn'},
         cache' \in [Processes -> Entry], \A p \in Processes : Held(p)',
         new.version <= drawn', new.stale <= new.waited, new.waited <= MaxDelay,
         new.pc # 0 =>
           /\ new.process \in Processes /\ new.op \in Operations
           /\ new.pc \in 1..Len(ConfigBehaviour[configPort].config[new.op])
           /\ ConfigBehaviour[configPort].config[new.op][new.pc] = "fill" =>
                new.version >= written[new.process]
  PROVE  CacheInv'
<1>1. CacheTypes /\ Numbered
  BY DEF CacheInv
<1>2. /\ call'[k] = new /\ call' \in [Calls -> CallState] /\ CallState' = CallState
      /\ \A j \in Calls \ {k} : call'[j] = call[j]
  BY <1>1 DEF CacheTypes, CallState, Operations
<1>3. CacheTypes'
  BY <1>1, <1>2 DEF CacheTypes
<1>4. Numbered'
  <2>1. \A p \in Processes : written[p] \in Nat /\ written[p] <= drawn
    BY <1>1 DEF CacheTypes, Numbered
  <2>2. \A j \in Calls : call[j].version \in Nat /\ call[j].version <= drawn
    BY <1>1 DEF CacheTypes, Numbered, CallState
  <2>3. drawn \in Nat
    BY <1>1 DEF CacheTypes
  <2> QED
    BY <1>2, <2>1, <2>2, <2>3 DEF Numbered
<1>5. ASSUME NEW j \in Calls \ {k}
      PROVE  Busy(j)' /\ Carried(j)'
  <2>1. Busy(j) /\ Carried(j) /\ call'[j] = call[j]
    BY <1>2 DEF CacheInv
  <2>2. CallSteps(j)' = CallSteps(j) /\ Operations' = Operations
    BY <2>1 DEF CallSteps, Operations
  <2>3. Serving(j, "fill")' = Serving(j, "fill")
    BY <2>1, <2>2 DEF Serving
  <2> QED
    BY <2>1, <2>2, <2>3 DEF Busy, Carried
<1>6. Busy(k)' /\ Carried(k)'
  <2>1. CallSteps(k)' = ConfigBehaviour[configPort].config[new.op] /\ Operations' = Operations
    BY <1>2 DEF CallSteps, Operations
  <2>2. Busy(k)'
    BY <1>2, <2>1 DEF Busy
  <2>3. Serving(k, "fill")' => ~(new.version < written[new.process])
    <3>1. ASSUME Serving(k, "fill")'
          PROVE  new.version >= written[new.process] /\ new.process \in Processes
      BY <1>2, <2>1, <3>1 DEF Serving
    <3>2. new.version \in Nat
      BY DEF CallState
    <3>3. \A p \in Processes : written[p] \in Nat
      BY <1>1 DEF CacheTypes
    <3> QED
      BY <3>1, <3>2, <3>3
  <2> QED
    BY <1>2, <2>2, <2>3 DEF Carried
<1> QED
  BY <1>3, <1>4, <1>5, <1>6 DEF CacheInv

\* What a step on the row may do.
RowOnly ==
  /\ UNCHANGED <<configPort, cache, written>>
  /\ drawn' \in Nat /\ drawn <= drawn' /\ setting' \in {0, drawn'}

LEMMA CachesHold ==
  ASSUME CacheInv, UNCHANGED <<cache, written>>
  PROVE  cache' \in [Processes -> Entry] /\ \A p \in Processes : Held(p)'
  BY DEF CacheInv, CacheTypes, Held

LEMMA Returned ==
  ASSUME CacheInv, NEW k \in Calls, Return(k), RowOnly
  PROVE  CacheInv'
<1>1. MaxDelay \in Nat
  BY CacheAssumption
<1>2. /\ UNCHANGED <<configPort, written>> /\ drawn' \in Nat /\ drawn <= drawn'
      /\ setting' \in {0, drawn'}
      /\ cache' \in [Processes -> Entry] /\ \A p \in Processes : Held(p)'
  BY CachesHold DEF RowOnly
<1>3. call' = [call EXCEPT ![k] = NoCall]
  BY DEF Return
<1>4. /\ NoCall.version <= drawn' /\ NoCall.stale <= NoCall.waited /\ NoCall.waited <= MaxDelay
      /\ NoCall \in CallState /\ ~(NoCall.pc # 0)
  BY <1>1, <1>2, Blank
<1> QED
  BY <1>2, <1>3, <1>4, Moved

\* A call goes on to a later step with what it knows.
LEMMA WentTo ==
  ASSUME CacheInv, NEW k \in Calls, NEW step, Serving(k, step), RowOnly,
         NEW known \in CallState, NEW n \in Nat, n > call[k].pc, n <= Len(CallSteps(k)),
         call' = [call EXCEPT ![k] = [known EXCEPT !.pc = n]],
         known.op = call[k].op, known.process = call[k].process,
         known.stale = call[k].stale, known.waited = call[k].waited,
         known.version <= drawn',
         \/ step \notin {"cached", "readRow", "fill"}
         \/ n = call[k].pc + 1 /\ step # "readRow"
         \/ n = call[k].pc + 1 /\ known.version >= written[call[k].process]
  PROVE  CacheInv'
<1> DEFINE program == ConfigBehaviour[configPort].config[call[k].op]
           new == [known EXCEPT !.pc = n]
<1>1. call[k].pc # 0 /\ program[call[k].pc] = step /\ program = CallSteps(k)
  BY DEF Serving, CallSteps
<1>2. /\ CacheTypes /\ call[k].process \in Processes /\ call[k].op \in Operations
      /\ call[k].pc \in 1..Len(program)
      /\ call[k].stale <= call[k].waited /\ call[k].waited <= MaxDelay
  BY <1>1 DEF CacheInv, Busy, Carried
<1>3. /\ Len(program) \in Nat \ {0}
      /\ \A i, j \in 1..Len(program) :
           program[j] = "fill" => /\ program[i] \in {"cached", "readRow", "fill"}
                                  /\ i + 1 = j => program[i] = "readRow"
  BY <1>2, ProgramOf DEF CacheTypes
<1>4. n \in 1..Len(program)
  BY <1>1, <1>2, <1>3
<1>5. program[n] = "fill" => known.version >= written[call[k].process]
  BY <1>1, <1>2, <1>3, <1>4
<1>6. /\ new \in CallState /\ new.pc = n /\ new.op = call[k].op /\ new.process = call[k].process
      /\ new.stale = call[k].stale /\ new.waited = call[k].waited /\ new.version = known.version
  BY DEF CallState
<1> HIDE DEF new
<1>7. call' = [call EXCEPT ![k] = new]
  BY DEF new
<1>8. /\ UNCHANGED <<configPort, written>> /\ drawn' \in Nat /\ drawn <= drawn'
      /\ setting' \in {0, drawn'}
      /\ cache' \in [Processes -> Entry] /\ \A p \in Processes : Held(p)'
  BY CachesHold DEF RowOnly
<1>9. new.version <= drawn' /\ new.stale <= new.waited /\ new.waited <= MaxDelay
  BY <1>2, <1>6
<1>10. /\ new.process \in Processes /\ new.op \in Operations
       /\ new.pc \in 1..Len(ConfigBehaviour[configPort].config[new.op])
       /\ ConfigBehaviour[configPort].config[new.op][new.pc] = "fill" =>
            new.version >= written[new.process]
  BY <1>2, <1>4, <1>5, <1>6
<1> HIDE DEF program
<1> QED
  BY <1>6, <1>7, <1>8, <1>9, <1>10, Moved

LEMMA Advanced ==
  ASSUME CacheInv, NEW k \in Calls, NEW step, Serving(k, step), RowOnly,
         NEW known \in CallState, Advance(k, known),
         known.op = call[k].op, known.process = call[k].process, known.pc = call[k].pc,
         known.stale = call[k].stale, known.waited = call[k].waited,
         known.version <= drawn',
         step = "readRow" => known.version >= written[call[k].process]
  PROVE  CacheInv'
<1>1. CASE call[k].pc = Len(CallSteps(k))
  BY <1>1, Returned DEF Advance, Return
<1>2. CASE call[k].pc # Len(CallSteps(k))
  <2> DEFINE n == call[k].pc + 1
  <2>1. call[k].pc # 0 /\ Busy(k) /\ configPort \in ConfigPorts
    BY DEF CacheInv, CacheTypes, Serving
  <2>2. Len(CallSteps(k)) \in Nat /\ call[k].pc \in 1..Len(CallSteps(k))
    BY <2>1, ProgramOf DEF Busy, CallSteps
  <2>3. n \in Nat /\ n > call[k].pc /\ n <= Len(CallSteps(k)) /\ n = call[k].pc + 1
    BY <1>2, <2>2
  <2>4. call' = [call EXCEPT ![k] = [known EXCEPT !.pc = n]]
    BY <1>2 DEF Advance
  <2> HIDE DEF n
  <2> QED
    BY <2>3, <2>4, WentTo
<1> QED
  BY <1>1, <1>2

-----------------------------------------------------------------------------
(* The operations *)

LEMMA ConfigCallKeepsInv ==
  ASSUME CacheInv, NEW k \in Calls, ConfigCall(k)
  PROVE  CacheInv'
<1>1. PICK p \in Processes, op \in Operations :
             call' = [call EXCEPT ![k] = [NoCall EXCEPT !.op = op, !.process = p, !.pc = 1]]
  BY DEF ConfigCall
<1> DEFINE new == [NoCall EXCEPT !.op = op, !.process = p, !.pc = 1]
           program == ConfigBehaviour[configPort].config[op]
<1>2. /\ CacheTypes /\ Numbered /\ MaxDelay \in Nat
      /\ UNCHANGED <<configPort, setting, drawn, cache, written>>
  BY CacheAssumption DEF CacheInv, ConfigCall
<1>3. /\ new \in CallState /\ new.op = op /\ new.process = p /\ new.pc = 1
      /\ new.version = NoCall.version /\ new.stale = NoCall.stale /\ new.waited = NoCall.waited
  BY Blank DEF CallState
<1>4. 1 \in 1..Len(program) /\ program[1] # "fill"
  BY <1>2, ProgramOf DEF CacheTypes
<1>5. call' = [call EXCEPT ![k] = new]
  BY <1>1
<1> HIDE DEF new
<1>6. /\ drawn' \in Nat /\ drawn <= drawn' /\ setting' \in {0, drawn'}
      /\ cache' \in [Processes -> Entry] /\ \A q \in Processes : Held(q)'
  BY <1>2, CachesHold DEF CacheTypes, Numbered
<1>7. new.version <= drawn' /\ new.stale <= new.waited /\ new.waited <= MaxDelay
  BY <1>2, <1>3, <1>6, Blank
<1>8. /\ new.process \in Processes /\ new.op \in Operations
      /\ new.pc \in 1..Len(ConfigBehaviour[configPort].config[new.op])
      /\ ConfigBehaviour[configPort].config[new.op][new.pc] # "fill"
  BY <1>3, <1>4
<1> HIDE DEF program
<1> QED
  BY <1>2, <1>3, <1>5, <1>6, <1>7, <1>8, Moved

\* What the invariant says of a call that is at one of its steps.
LEMMA AtStep ==
  ASSUME CacheInv, NEW k \in Calls, NEW step, Serving(k, step)
  PROVE  /\ call[k] \in CallState /\ call[k].version \in Nat /\ call[k].version <= drawn
         /\ call[k].process \in Processes /\ written[call[k].process] \in Nat
         /\ written[call[k].process] <= drawn
         /\ drawn \in Nat /\ setting \in {0, drawn}
         /\ call[k].stale \in Nat /\ call[k].waited \in Nat
         /\ call[k].stale <= call[k].waited /\ call[k].waited <= MaxDelay
<1>1. call[k].pc # 0 /\ CacheTypes /\ Numbered /\ Busy(k) /\ Carried(k)
  BY DEF CacheInv, Serving
<1>2. call[k] \in CallState
  BY <1>1 DEF CacheTypes
<1>3. call[k].version \in Nat /\ call[k].stale \in Nat /\ call[k].waited \in Nat
  BY <1>2 DEF CallState
<1> QED
  BY <1>1, <1>2, <1>3 DEF CacheTypes, Numbered, Busy, Carried

LEMMA Unwritten ==
  ASSUME CacheInv, UNCHANGED <<configPort, setting, drawn, cache, written>>
  PROVE  RowOnly
  BY DEF CacheInv, CacheTypes, Numbered, RowOnly

LEMMA Stored ==
  ASSUME CacheInv, NEW k \in Calls, Store(k)
  PROVE  RowOnly /\ drawn' = drawn + 1 /\ drawn + 1 \in Nat
  BY DEF CacheInv, CacheTypes, RowOnly, Store

\* A call with its version or found replaced.
LEMMA Known ==
  ASSUME NEW c \in CallState, NEW v \in Nat, NEW b \in BOOLEAN
  PROVE  /\ [c EXCEPT !.version = v] \in CallState /\ [c EXCEPT !.found = b] \in CallState
         /\ [c EXCEPT !.version = v].version = v /\ [c EXCEPT !.found = b].version = c.version
         /\ \A f \in {"op", "process", "pc", "stale", "waited"} :
              [c EXCEPT !.version = v][f] = c[f] /\ [c EXCEPT !.found = b][f] = c[f]
  BY DEF CallState

\* Steps at which a call goes on with another version.
LEMMA AdvancedWith ==
  ASSUME CacheInv, NEW k \in Calls, NEW step, Serving(k, step), RowOnly, NEW v \in Nat,
         Advance(k, [call[k] EXCEPT !.version = v]), v <= drawn',
         step = "readRow" => v >= written[call[k].process]
  PROVE  CacheInv'
<1> DEFINE known == [call[k] EXCEPT !.version = v]
<1>1. call[k] \in CallState
  BY AtStep
<1>2. /\ known \in CallState /\ known.version = v /\ known.op = call[k].op
      /\ known.process = call[k].process /\ known.pc = call[k].pc
      /\ known.stale = call[k].stale /\ known.waited = call[k].waited
  BY <1>1, Known DEF CallState
<1> HIDE DEF known
<1>3. Advance(k, known)
  BY DEF known
<1> QED
  BY <1>2, <1>3, Advanced

LEMMA AdvancedFound ==
  ASSUME CacheInv, NEW k \in Calls, NEW step, step # "readRow", Serving(k, step), RowOnly,
         NEW b \in BOOLEAN, Advance(k, [call[k] EXCEPT !.found = b])
  PROVE  CacheInv'
<1> DEFINE known == [call[k] EXCEPT !.found = b]
<1>1. call[k] \in CallState /\ call[k].version \in Nat /\ call[k].version <= drawn /\ drawn \in Nat
  BY AtStep
<1>2. /\ known \in CallState /\ known.version = call[k].version /\ known.op = call[k].op
      /\ known.process = call[k].process /\ known.pc = call[k].pc
      /\ known.stale = call[k].stale /\ known.waited = call[k].waited
  BY <1>1 DEF CallState
<1> HIDE DEF known
<1>3. Advance(k, known) /\ known.version <= drawn'
  BY <1>1, <1>2 DEF known, RowOnly
<1> QED
  BY <1>2, <1>3, Advanced

LEMMA AdvancedSame ==
  ASSUME CacheInv, NEW k \in Calls, NEW step, step # "readRow", Serving(k, step), RowOnly,
         Advance(k, call[k])
  PROVE  CacheInv'
<1>1. call[k] \in CallState /\ call[k].version \in Nat /\ call[k].version <= drawn /\ drawn \in Nat
  BY AtStep
<1>2. call[k].version <= drawn'
  BY <1>1 DEF RowOnly
<1> QED
  BY <1>1, <1>2, Advanced

LEMMA GetKeepsInv ==
  ASSUME CacheInv, NEW k \in Calls, Cached(k) \/ ReadSetting(k)
  PROVE  CacheInv'
<1>1. RowOnly
  BY Unwritten DEF Cached, ReadSetting
<1>2. CASE Return(k)
  BY <1>1, <1>2, Returned
<1>3. CASE Serving(k, "cached") /\ Advance(k, call[k])
  BY <1>1, <1>3, AdvancedSame
<1>4. CASE Serving(k, "readRow") /\ setting # 0 /\ Advance(k, [call[k] EXCEPT !.version = setting])
  <2>1. setting \in Nat /\ setting = drawn /\ setting >= written[call[k].process]
    BY <1>4, AtStep
  <2>2. setting <= drawn'
    BY <1>1, <2>1 DEF RowOnly
  <2> QED
    BY <1>1, <1>4, <2>1, <2>2, AdvancedWith
<1> QED
  BY <1>2, <1>3, <1>4 DEF Cached, ReadSetting

LEMMA FillKeepsInv ==
  ASSUME CacheInv, NEW k \in Calls, Fill(k)
  PROVE  CacheInv'
<1> DEFINE p == call[k].process
           new == [version |-> call[k].version, left |-> CacheTTL,
                   stale |-> call[k].stale, raced |-> call[k].raced]
<1>1. /\ Serving(k, "fill") /\ call' = [call EXCEPT ![k] = NoCall]
      /\ cache' = [cache EXCEPT ![p] = new] /\ UNCHANGED <<configPort, setting, drawn, written>>
  BY DEF Fill, Return
<1>2. /\ CacheTypes /\ p \in Processes /\ call[k] \in CallState
      /\ call[k].stale \in Nat /\ call[k].waited \in Nat /\ call[k].version \in Nat
      /\ call[k].stale <= call[k].waited /\ call[k].waited <= MaxDelay
      /\ drawn \in Nat /\ setting \in {0, drawn}
  BY <1>1, AtStep DEF CacheInv
<1>3. call[k].version < written[p] => call[k].raced
  BY <1>1 DEF CacheInv, Carried
<1>4. MaxDelay \in Nat /\ CacheTTL \in Nat
  BY CacheAssumption
<1>5. call[k].raced \in BOOLEAN
  BY <1>2 DEF CallState
<1>6. new \in Entry
  BY <1>2, <1>4, <1>5 DEF Entry
<1>7. /\ new.stale = call[k].stale /\ new.left = CacheTTL
      /\ new.version = call[k].version /\ new.raced = call[k].raced
  OBVIOUS
<1> HIDE DEF new
<1>8. /\ cache' \in [Processes -> Entry] /\ cache'[p] = new
      /\ \A q \in Processes \ {p} : cache'[q] = cache[q]
  BY <1>1, <1>2, <1>6 DEF CacheTypes
<1>9. new.stale + new.left <= CacheTTL + MaxDelay
  BY <1>2, <1>4, <1>7
<1>10. \A q \in Processes : Held(q)'
  BY <1>1, <1>3, <1>7, <1>8, <1>9 DEF Held, CacheInv
<1>11. /\ NoCall.version <= drawn' /\ NoCall.stale <= NoCall.waited /\ NoCall.waited <= MaxDelay
       /\ NoCall \in CallState /\ ~(NoCall.pc # 0) /\ drawn' \in Nat /\ drawn <= drawn'
       /\ setting' \in {0, drawn'}
  BY <1>1, <1>2, <1>4, Blank
<1> QED
  BY <1>1, <1>8, <1>10, <1>11, Moved

LEMMA WriteKeepsInv ==
  ASSUME CacheInv, NEW k \in Calls,
         Upsert(k) \/ FindOrCreate(k) \/ FindSetting(k) \/ SaveFound(k) \/ DeleteSetting(k)
  PROVE  CacheInv'
<1>1. ASSUME NEW step, step # "readRow", Serving(k, step), Store(k),
             Advance(k, [call[k] EXCEPT !.version = drawn + 1])
      PROVE  CacheInv'
  <2>1. RowOnly /\ drawn + 1 \in Nat /\ drawn + 1 <= drawn'
    BY <1>1, Stored
  <2> QED
    BY <1>1, <2>1, AdvancedWith
<1>2. CASE Upsert(k)
  BY <1>1, <1>2 DEF Upsert
<1>3. CASE FindOrCreate(k)
  <2>1. Serving(k, "findOrCreate")
    BY <1>3 DEF FindOrCreate
  <2>2. CASE /\ Store(k)
             /\ call' = [call EXCEPT ![k].version = drawn + 1, ![k].pc = @ + 2]
    <3> DEFINE known == [call[k] EXCEPT !.version = drawn + 1]
               n == call[k].pc + 2
    <3>1. RowOnly /\ drawn + 1 \in Nat /\ drawn + 1 <= drawn'
      BY <2>2, Stored
    <3>2. call[k] \in CallState /\ call[k].pc # 0 /\ Busy(k) /\ configPort \in ConfigPorts
      BY <2>1, AtStep DEF CacheInv, CacheTypes, Serving
    <3>3. /\ call[k].pc \in 1..Len(CallSteps(k)) /\ Len(CallSteps(k)) \in Nat
          /\ call[k].pc + 2 <= Len(CallSteps(k))
      BY <2>1, <3>2, ProgramOf DEF Busy, CallSteps, Serving
    <3>4. n \in Nat /\ n > call[k].pc /\ n <= Len(CallSteps(k))
      BY <3>3
    <3>5. /\ known \in CallState /\ known.version = drawn + 1 /\ known.op = call[k].op
          /\ known.process = call[k].process
          /\ known.stale = call[k].stale /\ known.waited = call[k].waited
      BY <3>1, <3>2, Known DEF CallState
    <3>6. call' = [call EXCEPT ![k] = [known EXCEPT !.pc = n]]
      <4> DEFINE first == [call EXCEPT ![k] = known]
      <4>1. call' = [first EXCEPT ![k] = [first[k] EXCEPT !.pc = first[k].pc + 2]]
        BY <2>2
      <4>2. call \in [Calls -> CallState]
        BY DEF CacheInv, CacheTypes
      <4>3. first[k] = known /\ known.pc = call[k].pc
        BY <3>2, <4>2 DEF CallState
      <4> HIDE DEF known
      <4>4. call' = [first EXCEPT ![k] = [known EXCEPT !.pc = n]]
        BY <4>1, <4>3
      <4> QED
        BY <4>2, <4>4
    <3>7. "findOrCreate" \notin {"cached", "readRow", "fill"} /\ known.version <= drawn'
      BY <3>1, <3>5
    <3> HIDE DEF known, n
    <3> QED
      BY <2>1, <3>1, <3>4, <3>5, <3>6, <3>7, WentTo
  <2>3. CASE /\ Advance(k, [call[k] EXCEPT !.found = TRUE])
             /\ UNCHANGED <<configPort, setting, drawn, cache, written>>
    BY <2>1, <2>3, Unwritten, AdvancedFound
  <2> QED
    BY <1>3, <2>2, <2>3 DEF FindOrCreate
<1>4. CASE FindSetting(k)
  <2>1. (setting # 0) \in BOOLEAN /\ RowOnly /\ Serving(k, "findRow")
    BY <1>4, Unwritten DEF FindSetting
  <2>2. Advance(k, [call[k] EXCEPT !.found = (setting # 0)])
    BY <1>4 DEF FindSetting
  <2> QED
    BY <2>1, <2>2, AdvancedFound
<1>5. CASE SaveFound(k)
  <2>1. Serving(k, "saveFound")
    BY <1>5 DEF SaveFound
  <2>2. CASE Store(k) /\ Advance(k, [call[k] EXCEPT !.version = drawn + 1])
    BY <1>1, <2>1, <2>2
  <2>3. CASE /\ Advance(k, call[k]) \/ Return(k)
             /\ UNCHANGED <<configPort, setting, drawn, cache, written>>
    BY <2>1, <2>3, Unwritten, AdvancedSame, Returned
  <2> QED
    BY <1>5, <2>2, <2>3 DEF SaveFound
<1>6. CASE DeleteSetting(k)
  <2>1. Serving(k, "deleteRow") /\ RowOnly
    BY <1>6, AtStep DEF DeleteSetting, RowOnly, CacheInv, CacheTypes, Numbered
  <2> QED
    BY <1>6, <2>1, AdvancedSame, Returned DEF DeleteSetting
<1> QED
  BY <1>2, <1>3, <1>4, <1>5, <1>6

-----------------------------------------------------------------------------
(* Invalidation, time and restarts *)

\* The history field raced may be set on any call.
LEMMA Marked ==
  ASSUME NEW c \in CallState, NEW b \in BOOLEAN
  PROVE  /\ [c EXCEPT !.raced = b] \in CallState /\ [c EXCEPT !.raced = b].raced = b
         /\ [c EXCEPT !.raced = b].op = c.op /\ [c EXCEPT !.raced = b].process = c.process
         /\ [c EXCEPT !.raced = b].pc = c.pc /\ [c EXCEPT !.raced = b].version = c.version
         /\ [c EXCEPT !.raced = b].waited = c.waited /\ [c EXCEPT !.raced = b].stale = c.stale
  BY DEF CallState

\* Reads that are under way when a process invalidates are marked: the value
\* they carry may be older than what the process has written.
LEMMA InvalidateKeepsInv ==
  ASSUME CacheInv, NEW k \in Calls, Invalidate(k)
  PROVE  CacheInv'
<1> DEFINE p == call[k].process
           last == IF call[k].version > written[p] THEN call[k].version ELSE written[p]
<1>1. /\ Serving(k, "invalidate") /\ cache' = [cache EXCEPT ![p] = NoEntry]
      /\ written' = [written EXCEPT ![p] = last] /\ call' = [Raced(p) EXCEPT ![k] = NoCall]
      /\ UNCHANGED <<configPort, setting, drawn>>
  BY DEF Invalidate
<1>2. /\ CacheTypes /\ p \in Processes /\ call[k].version \in Nat /\ call[k].version <= drawn
      /\ written[p] \in Nat /\ written[p] <= drawn /\ drawn \in Nat /\ setting \in {0, drawn}
  BY <1>1, AtStep DEF CacheInv
<1>3. last \in Nat /\ last <= drawn /\ last >= written[p]
  BY <1>2
<1> HIDE DEF last
<1>4. /\ written' \in [Processes -> Nat] /\ \A q \in Processes : written'[q] <= drawn
      /\ \A q \in Processes \ {p} : written'[q] = written[q]
  BY <1>1, <1>2, <1>3 DEF CacheTypes, CacheInv, Numbered
<1>5. /\ cache' \in [Processes -> Entry] /\ cache'[p] = NoEntry
      /\ \A q \in Processes \ {p} : cache'[q] = cache[q]
  BY <1>1, <1>2, Blank DEF CacheTypes
<1>6. \A q \in Processes : Held(q)'
  BY <1>4, <1>5, Blank DEF Held, CacheInv
<1>7. CallState' = CallState /\ Operations' = Operations
  BY <1>1 DEF CallState, Operations
<1>8. call'[k] = NoCall
  BY <1>1 DEF Raced
<1>9. ASSUME NEW j \in Calls \ {k}
      PROVE  /\ call'[j] \in CallState /\ call'[j].version <= drawn
             /\ Busy(j)' /\ Carried(j)'
  <2> DEFINE b == call[j].raced \/ (call[j].process = p /\ Serving(j, "fill"))
  <2>1. call'[j] = [call[j] EXCEPT !.raced = b] /\ call[j] \in CallState
    BY <1>1, <1>2, <1>9 DEF Raced, CacheTypes
  <2>2. b \in BOOLEAN /\ (call[j].raced => b) /\ (call[j].process = p /\ Serving(j, "fill") => b)
    OBVIOUS
  <2> HIDE DEF b
  <2>3. /\ call'[j] \in CallState /\ call'[j].raced = b
        /\ call'[j].op = call[j].op /\ call'[j].process = call[j].process
        /\ call'[j].pc = call[j].pc /\ call'[j].version = call[j].version
        /\ call'[j].waited = call[j].waited /\ call'[j].stale = call[j].stale
    BY <2>1, <2>2, Marked
  <2>4. CallSteps(j)' = CallSteps(j)
    BY <1>1, <2>3 DEF CallSteps
  <2>5. Serving(j, "fill")' = Serving(j, "fill")
    BY <2>3, <2>4 DEF Serving
  <2>6. Busy(j) /\ Carried(j) /\ call[j].version <= drawn
    BY DEF CacheInv, Numbered
  <2>7. Busy(j)'
    BY <1>7, <2>3, <2>4, <2>6 DEF Busy
  <2>8. ASSUME Serving(j, "fill"), call[j].version < written'[call[j].process]
        PROVE  b
    <3>1. call[j].process \in Processes
      BY <2>6, <2>8 DEF Busy, Serving
    <3> QED
      BY <1>4, <2>2, <2>6, <2>8, <3>1 DEF Carried
  <2>9. Carried(j)'
    BY <2>3, <2>5, <2>6, <2>8 DEF Carried
  <2> QED
    BY <2>3, <2>6, <2>7, <2>9
<1>10. Busy(k)' /\ Carried(k)' /\ call'[k] \in CallState /\ call'[k].version <= drawn
  <2>1. MaxDelay \in Nat
    BY CacheAssumption
  <2>2. ~Serving(k, "fill")'
    BY <1>8, Blank DEF Serving
  <2> QED
    BY <1>2, <1>8, <2>1, <2>2, Blank DEF Busy, Carried
<1>11. call' \in [Calls -> CallState]
  <2>1. call' = [j \in Calls |-> call'[j]]
    BY <1>1 DEF Raced
  <2>2. \A j \in Calls : call'[j] \in CallState
    BY <1>9, <1>10
  <2> QED
    BY <2>1, <2>2
<1>12. CacheTypes'
  BY <1>1, <1>2, <1>4, <1>5, <1>7, <1>11 DEF CacheTypes
<1>13. Numbered'
  BY <1>1, <1>2, <1>4, <1>9, <1>10 DEF Numbered
<1> QED
  BY <1>6, <1>9, <1>10, <1>12, <1>13 DEF CacheInv

\* A tick makes a value one tick older at most.
LEMMA OlderEntry ==
  ASSUME NEW e \in Entry, NEW n \in Nat
  PROVE  LET x == [Older(e) EXCEPT !.left = n] IN
         /\ x \in Entry /\ x.left = n /\ x.version = e.version /\ x.raced = e.raced
         /\ x.stale <= e.stale + 1
<1>1. e.stale \in Nat
  BY DEF Entry
<1> DEFINE m == e.stale + 1
<1>2. m \in Nat /\ e.stale <= m
  BY <1>1
<1>3. Older(e) = e \/ Older(e) = [e EXCEPT !.stale = m]
  BY DEF Older
<1> DEFINE x == [Older(e) EXCEPT !.left = n]
<1>4. /\ x \in Entry /\ x.left = n /\ x.version = e.version /\ x.raced = e.raced
      /\ x.stale \in {e.stale, m}
  <2> HIDE DEF m
  <2>1. CASE Older(e) = e
    BY <2>1 DEF Entry
  <2>2. CASE Older(e) = [e EXCEPT !.stale = m]
    <3> DEFINE o == [e EXCEPT !.stale = m]
    <3>1. /\ o \in Entry /\ o.stale = m /\ o.version = e.version /\ o.raced = e.raced
      BY <1>2 DEF Entry
    <3> HIDE DEF o
    <3>2. Older(e) = o
      BY <2>2 DEF o
    <3> QED
      BY <3>1, <3>2 DEF Entry
  <2> QED
    BY <1>3, <2>1, <2>2
<1>5. x.stale <= e.stale + 1
  BY <1>1, <1>4
<1> QED
  BY <1>4, <1>5

LEMMA OlderCall ==
  ASSUME NEW c \in CallState
  PROVE  LET x == [Older(c) EXCEPT !.waited = @ + 1] IN
         /\ x \in CallState /\ x.op = c.op /\ x.process = c.process /\ x.pc = c.pc
         /\ x.version = c.version /\ x.raced = c.raced
         /\ x.waited = c.waited + 1 /\ x.stale <= c.stale + 1 /\ x.stale \in Nat
<1>1. c.stale \in Nat /\ c.waited \in Nat
  BY DEF CallState
<1> DEFINE m == c.stale + 1
           w == c.waited + 1
<1>2. m \in Nat /\ w \in Nat /\ c.stale <= m /\ c.stale \in Nat
  BY <1>1
<1>3. Older(c) = c \/ Older(c) = [c EXCEPT !.stale = m]
  BY DEF Older
<1>4. Older(c).waited = c.waited
  BY <1>3 DEF CallState
<1>5. [Older(c) EXCEPT !.waited = @ + 1] = [Older(c) EXCEPT !.waited = w]
  BY <1>4
<1> HIDE DEF m, w
<1> DEFINE x == [Older(c) EXCEPT !.waited = w]
<1>6. /\ x \in CallState /\ x.op = c.op /\ x.process = c.process /\ x.pc = c.pc
      /\ x.version = c.version /\ x.raced = c.raced
      /\ x.waited = w /\ x.stale \in {c.stale, m}
  <2>1. CASE Older(c) = c
    BY <1>2, <2>1 DEF CallState
  <2>2. CASE Older(c) = [c EXCEPT !.stale = m]
    <3> DEFINE o == [c EXCEPT !.stale = m]
    <3>1. /\ o \in CallState /\ o.stale = m /\ o.version = c.version /\ o.raced = c.raced
          /\ o.op = c.op /\ o.process = c.process /\ o.pc = c.pc
      BY <1>2 DEF CallState
    <3> HIDE DEF o
    <3>2. Older(c) = o
      BY <2>2 DEF o
    <3> QED
      BY <1>2, <3>1, <3>2 DEF CallState
  <2> QED
    BY <1>3, <2>1, <2>2
<1>7. x.stale <= m /\ x.stale \in Nat
  BY <1>2, <1>6
<1> QED
  BY <1>5, <1>6, <1>7 DEF m, w

LEMMA TickKeepsInv ==
  ASSUME CacheInv, ConfigTick
  PROVE  CacheInv'
<1>1. /\ CacheTypes /\ Numbered /\ MaxDelay \in Nat /\ CacheTTL \in Nat
      /\ UNCHANGED <<configPort, setting, drawn, written>>
      /\ CallState' = CallState /\ Operations' = Operations
  BY CacheAssumption DEF CacheInv, ConfigTick, CallState, Operations
<1>2. ASSUME NEW p \in Processes
      PROVE  cache'[p] \in Entry /\ Held(p)'
  <2>1. cache[p] \in Entry /\ cache[p].left \in Nat /\ cache[p].stale \in Nat /\ Held(p)
    BY <1>1 DEF CacheTypes, Entry, CacheInv
  <2>2. CASE cache[p].left > 1
    <3> DEFINE n == cache[p].left - 1
               x == [Older(cache[p]) EXCEPT !.left = n]
    <3>1. n \in Nat /\ n + 1 = cache[p].left /\ n > 0
      BY <2>1, <2>2
    <3>2. Older(cache[p]).left = cache[p].left
      BY <2>1 DEF Older, Entry
    <3>3. cache'[p] = [Older(cache[p]) EXCEPT !.left = @ - 1]
      BY <2>2 DEF ConfigTick
    <3>4. cache'[p] = x
      BY <3>2, <3>3
    <3> HIDE DEF n
    <3>5. /\ x \in Entry /\ x.left = n /\ x.version = cache[p].version
          /\ x.raced = cache[p].raced /\ x.stale <= cache[p].stale + 1
      BY <2>1, <3>1, OlderEntry
    <3>6. x.stale \in Nat
      BY <3>5 DEF Entry
    <3> HIDE DEF x
    <3>7. x.stale + x.left <= CacheTTL + MaxDelay /\ (x.version < written[p] => x.raced)
      BY <1>1, <2>1, <2>2, <3>1, <3>5, <3>6 DEF Held
    <3> QED
      BY <1>1, <3>4, <3>5, <3>7 DEF Held
  <2>3. CASE ~(cache[p].left > 1)
    <3>1. cache'[p] = NoEntry
      BY <2>3 DEF ConfigTick
    <3> QED
      BY <3>1, Blank DEF Held
  <2> QED
    BY <2>2, <2>3
<1>3. ASSUME NEW k \in Calls
      PROVE  call'[k] \in CallState /\ call'[k].version <= drawn /\ Busy(k)' /\ Carried(k)'
  <2>1. call[k] \in CallState /\ Busy(k) /\ Carried(k) /\ call[k].version <= drawn
    BY <1>1 DEF CacheTypes, CacheInv, Numbered
  <2>2. CASE Serving(k, "fill")
    <3>1. call[k].waited < MaxDelay /\ call'[k] = [Older(call[k]) EXCEPT !.waited = @ + 1]
      BY <2>2 DEF ConfigTick
    <3>2. /\ call'[k] \in CallState /\ call'[k].op = call[k].op
          /\ call'[k].process = call[k].process /\ call'[k].pc = call[k].pc
          /\ call'[k].version = call[k].version /\ call'[k].raced = call[k].raced
          /\ call'[k].waited = call[k].waited + 1 /\ call'[k].stale <= call[k].stale + 1
          /\ call'[k].stale \in Nat
      BY <2>1, <3>1, OlderCall
    <3>3. call[k].waited \in Nat /\ call[k].stale \in Nat
      BY <2>1 DEF CallState
    <3>4. call'[k].stale <= call'[k].waited /\ call'[k].waited <= MaxDelay
      BY <1>1, <2>1, <3>1, <3>2, <3>3 DEF Carried
    <3>5. CallSteps(k)' = CallSteps(k)
      BY <1>1, <3>2 DEF CallSteps
    <3>6. Busy(k)'
      BY <1>1, <2>1, <3>2, <3>5 DEF Busy
    <3>7. Carried(k)'
      BY <1>1, <2>1, <2>2, <3>2, <3>4 DEF Carried
    <3> QED
      BY <2>1, <3>2, <3>6, <3>7
  <2>3. CASE ~Serving(k, "fill")
    <3>1. call'[k] = call[k]
      BY <2>3 DEF ConfigTick
    <3>2. CallSteps(k)' = CallSteps(k)
      BY <1>1, <3>1 DEF CallSteps
    <3>3. ~Serving(k, "fill")'
      BY <2>3, <3>1, <3>2 DEF Serving
    <3> QED
      BY <1>1, <2>1, <3>1, <3>2, <3>3 DEF Busy, Carried
  <2> QED
    BY <2>2, <2>3
<1>4. cache' \in [Processes -> Entry] /\ call' \in [Calls -> CallState]
  <2>1. cache' = [p \in Processes |-> cache'[p]] /\ call' = [k \in Calls |-> call'[k]]
    BY DEF ConfigTick
  <2> QED
    BY <1>2, <1>3, <2>1
<1>5. CacheTypes' /\ Numbered'
  BY <1>1, <1>3, <1>4 DEF CacheTypes, Numbered
<1> QED
  BY <1>2, <1>3, <1>5 DEF CacheInv

LEMMA RestartKeepsInv ==
  ASSUME CacheInv, NEW p \in Processes, ConfigRestart(p)
  PROVE  CacheInv'
<1>1. /\ CacheTypes /\ Numbered /\ MaxDelay \in Nat
      /\ UNCHANGED <<configPort, setting, drawn, written>>
      /\ CallState' = CallState /\ Operations' = Operations
  BY CacheAssumption DEF CacheInv, ConfigRestart, CallState, Operations
<1>2. /\ cache' \in [Processes -> Entry]
      /\ \A q \in Processes : cache'[q] = NoEntry \/ cache'[q] = cache[q]
  BY <1>1, Blank DEF ConfigRestart, CacheTypes
<1>3. \A q \in Processes : Held(q)'
  BY <1>1, <1>2, Blank DEF Held, CacheInv
<1>4. ASSUME NEW k \in Calls
      PROVE  call'[k] \in CallState /\ call'[k].version <= drawn /\ Busy(k)' /\ Carried(k)'
  <2>1. call'[k] = NoCall \/ call'[k] = call[k]
    BY DEF ConfigRestart
  <2>2. call[k] \in CallState /\ Busy(k) /\ Carried(k) /\ call[k].version <= drawn /\ drawn \in Nat
    BY <1>1 DEF CacheTypes, CacheInv, Numbered
  <2>3. CASE call'[k] = NoCall
    <3>1. ~Serving(k, "fill")'
      BY <2>3, Blank DEF Serving
    <3> QED
      BY <1>1, <2>2, <2>3, <3>1, Blank DEF Busy, Carried
  <2>4. CASE call'[k] = call[k]
    <3>1. CallSteps(k)' = CallSteps(k)
      BY <1>1, <2>4 DEF CallSteps
    <3>2. Serving(k, "fill")' = Serving(k, "fill")
      BY <2>4, <3>1 DEF Serving
    <3> QED
      BY <1>1, <2>2, <2>4, <3>1, <3>2 DEF Busy, Carried
  <2> QED
    BY <2>1, <2>3, <2>4
<1>5. call' \in [Calls -> CallState]
  <2>1. call' = [k \in Calls |-> call'[k]]
    BY DEF ConfigRestart
  <2> QED
    BY <1>4, <2>1
<1>6. CacheTypes' /\ Numbered'
  BY <1>1, <1>2, <1>4, <1>5 DEF CacheTypes, Numbered
<1> QED
  BY <1>3, <1>4, <1>6 DEF CacheInv

-----------------------------------------------------------------------------
(* The invariant and what follows from it *)

LEMMA ConfigInitHasInv == ConfigInit => CacheInv
<1> SUFFICES ASSUME ConfigInit PROVE CacheInv
  OBVIOUS
<1>1. MaxDelay \in Nat
  BY CacheAssumption
<1>2. CacheTypes
  BY Blank DEF ConfigInit, CacheTypes
<1>3. Numbered
  BY Blank DEF ConfigInit, Numbered
<1>4. \A k \in Calls : Busy(k) /\ Carried(k)
  BY <1>1, Blank DEF ConfigInit, Busy, Carried, Serving
<1>5. \A p \in Processes : Held(p)
  BY Blank DEF ConfigInit, Held
<1> QED
  BY <1>2, <1>3, <1>4, <1>5 DEF CacheInv

LEMMA ConfigNextKeepsInv == CacheInv /\ [ConfigNext]_configVars => CacheInv'
<1> SUFFICES ASSUME CacheInv, [ConfigNext]_configVars PROVE CacheInv'
  OBVIOUS
<1>1. CASE ConfigNext
  BY <1>1, ConfigCallKeepsInv, GetKeepsInv, FillKeepsInv, WriteKeepsInv, InvalidateKeepsInv,
     TickKeepsInv, RestartKeepsInv DEF ConfigNext
<1>2. CASE UNCHANGED configVars
  BY <1>2 DEF configVars, CacheInv, CacheTypes, Numbered, Busy, Carried, Held, Serving,
     CallSteps, CallState, Operations
<1> QED
  BY <1>1, <1>2

\* No process serves a value that stopped being the setting longer ago than
\* the cache's lifetime plus the time a read may take.
THEOREM StalenessBounded == ConfigSpec => []ServedValueRecent
<1>1. CacheInv => ServedValueRecent
  <2> SUFFICES ASSUME CacheInv, NEW p \in Processes, cache[p].left > 0
               PROVE  cache[p].stale < CacheTTL + MaxDelay
    BY DEF ServedValueRecent
  <2>1. cache[p] \in Entry /\ Held(p)
    BY DEF CacheInv, CacheTypes
  <2>2. cache[p].left \in Nat /\ cache[p].stale \in Nat
    BY <2>1 DEF Entry
  <2>3. CacheTTL \in Nat /\ MaxDelay \in Nat
    BY CacheAssumption
  <2> QED
    BY <2>1, <2>2, <2>3 DEF Held
<1> QED
  BY <1>1, ConfigInitHasInv, ConfigNextKeepsInv, PTL DEF ConfigSpec

\* Once its set has returned, a process serves no earlier value, unless a read
\* of it crossed the invalidation.
THEOREM OwnWritesAreSeen == ConfigSpec => []OwnWritesSeen
<1>1. CacheInv => OwnWritesSeen
  BY DEF CacheInv, Held, OwnWritesSeen
<1> QED
  BY <1>1, ConfigInitHasInv, ConfigNextKeepsInv, PTL DEF ConfigSpec

=============================================================================
