------------------------- MODULE ServiceConfigCache -------------------------
(***************************************************************************)
(* One setting of the table service_configs and the cache every server     *)
(* process keeps of it (service-config.ts, serviceconfig.go,               *)
(* serviceconfig.rs, ServiceConfigRepository).                             *)
(*                                                                         *)
(* As in AuthAccounts, what a port does is data: ConfigBehaviour[p].config *)
(* gives every operation its steps.  The processes share the database, not *)
(* the caches, so a write invalidates only the cache of the process that   *)
(* made it, and the others serve the old value until their entry expires.  *)
(***************************************************************************)
EXTENDS Integers, Sequences

CONSTANTS
  ConfigPorts,      \* names of ports
  ConfigBehaviour,  \* what each port does
  Processes,        \* server processes on the same database
  Calls,            \* calls in flight at the same time
  CacheTTL,         \* CACHE_TTL, in ticks of the clock
  MaxDelay,         \* bound: ticks between a read and the use of its result
  MaxVersions       \* bound: values the setting has over time

ASSUME CacheAssumption == CacheTTL \in Nat \ {0} /\ MaxDelay \in Nat /\ MaxVersions \in Nat

\* What the proofs use of the programs; it holds of all ports.
ASSUME ConfigProgramsAssumption ==
  \A p \in ConfigPorts : \A op \in DOMAIN ConfigBehaviour[p].config :
    LET program == ConfigBehaviour[p].config[op] IN
    /\ program \in Seq(STRING) /\ program # <<>>
    /\ (\E i \in 1..Len(program) : program[i] \in {"cached", "readRow", "fill"}) =>
         program = <<"cached", "readRow", "fill">>
    /\ \A i \in 1..Len(program) : program[i] = "findOrCreate" => i + 2 <= Len(program)

VARIABLES
  configPort,  \* the port that is deployed
  setting,     \* the value in the row, numbered as written; 0 without a row
  drawn,       \* bound: number of the last value written
  cache,       \* by process: a value and the ticks until it expires
  call,        \* the calls in flight
  written      \* history: the last value each process wrote and invalidated

configVars == <<configPort, setting, drawn, cache, call, written>>

\* History: stale counts the ticks since a value stopped being the setting.
NoEntry == [version |-> 0, left |-> 0, stale |-> 0, raced |-> FALSE]
NoCall ==
  [op |-> "none", process |-> "", pc |-> 0, version |-> 0,
   found |-> FALSE,   \* set: a row was there
   waited |-> 0,      \* ticks since the read
   stale |-> 0,
   raced |-> FALSE]   \* history: the process invalidated since the read

ConfigInit ==
  /\ configPort \in ConfigPorts
  /\ setting \in {0, 1} /\ drawn = setting
  /\ cache = [p \in Processes |-> NoEntry]
  /\ call = [k \in Calls |-> NoCall]
  /\ written = [p \in Processes |-> 0]

Operations == DOMAIN ConfigBehaviour[configPort].config
CallSteps(k) == ConfigBehaviour[configPort].config[call[k].op]
Serving(k, step) == call[k].pc # 0 /\ CallSteps(k)[call[k].pc] = step
Return(k) == call' = [call EXCEPT ![k] = NoCall]
Advance(k, known) ==
  call' = [call EXCEPT ![k] =
    IF @.pc = Len(CallSteps(k)) THEN NoCall ELSE [known EXCEPT !.pc = @ + 1]]

ConfigCall(k) ==
  /\ call[k].pc = 0
  /\ \E p \in Processes, op \in Operations :
       call' = [call EXCEPT ![k] = [NoCall EXCEPT !.op = op, !.process = p, !.pc = 1]]
  /\ UNCHANGED <<configPort, setting, drawn, cache, written>>

-----------------------------------------------------------------------------
(* get *)

\* Fault: a hit renews the entry.
CachedSliding(k) ==
  LET p == call[k].process IN
  /\ Serving(k, "cached")
  /\ \/ /\ cache[p].left > 0 /\ Return(k)
        /\ cache' = [cache EXCEPT ![p].left = CacheTTL]
     \/ cache[p].left = 0 /\ Advance(k, call[k]) /\ UNCHANGED cache
  /\ UNCHANGED <<configPort, setting, drawn, written>>

\* An entry that has not expired is the answer.
Cached(k) ==
  /\ Serving(k, "cached")
  /\ \/ cache[call[k].process].left > 0 /\ Return(k)
     \/ cache[call[k].process].left = 0 /\ Advance(k, call[k])
  /\ UNCHANGED <<configPort, setting, drawn, cache, written>>

ReadSetting(k) ==
  /\ Serving(k, "readRow")
  /\ \/ setting # 0 /\ Advance(k, [call[k] EXCEPT !.version = setting])
     \/ setting = 0 /\ Return(k)
  /\ UNCHANGED <<configPort, setting, drawn, cache, written>>

\* The value is cached whatever happened since it was read.
Fill(k) ==
  /\ Serving(k, "fill") /\ Return(k)
  /\ cache' = [cache EXCEPT ![call[k].process] =
       [version |-> call[k].version, left |-> CacheTTL,
        stale |-> call[k].stale, raced |-> call[k].raced]]
  /\ UNCHANGED <<configPort, setting, drawn, written>>

-----------------------------------------------------------------------------
(* set, delete, invalidate *)

\* A new value in the row.
Store(k) ==
  /\ drawn < MaxVersions /\ drawn' = drawn + 1 /\ setting' = drawn + 1
  /\ UNCHANGED <<configPort, cache, written>>

Upsert(k) ==
  Serving(k, "upsert") /\ Store(k) /\ Advance(k, [call[k] EXCEPT !.version = drawn + 1])

\* Sequelize: a row that was created needs no further write.
FindOrCreate(k) ==
  /\ Serving(k, "findOrCreate")
  /\ \/ /\ setting = 0 /\ Store(k)
        /\ call' = [call EXCEPT ![k].version = drawn + 1, ![k].pc = @ + 2]
     \/ /\ setting # 0 /\ Advance(k, [call[k] EXCEPT !.found = TRUE])
        /\ UNCHANGED <<configPort, setting, drawn, cache, written>>

FindSetting(k) ==
  /\ Serving(k, "findRow") /\ Advance(k, [call[k] EXCEPT !.found = (setting # 0)])
  /\ UNCHANGED <<configPort, setting, drawn, cache, written>>

\* UPDATE of a row that was found, no row if it is gone; INSERT otherwise,
\* which fails if somebody else created the row.
SaveFound(k) ==
  /\ Serving(k, "saveFound")
  /\ \/ /\ call[k].found = (setting # 0) /\ Store(k)
        /\ Advance(k, [call[k] EXCEPT !.version = drawn + 1])
     \/ /\ call[k].found /\ setting = 0 /\ Advance(k, call[k])
        /\ UNCHANGED <<configPort, setting, drawn, cache, written>>
     \/ /\ ~call[k].found /\ setting # 0 /\ Return(k)
        /\ UNCHANGED <<configPort, setting, drawn, cache, written>>

DeleteSetting(k) ==
  /\ Serving(k, "deleteRow")
  /\ \/ setting # 0 /\ setting' = 0 /\ Advance(k, call[k])
     \/ setting = 0 /\ Return(k) /\ UNCHANGED setting
  /\ UNCHANGED <<configPort, drawn, cache, written>>

\* A read of this process that has its value, but has not cached it, is raced.
Raced(p) ==
  [j \in Calls |->
    [call[j] EXCEPT !.raced = @ \/ (call[j].process = p /\ Serving(j, "fill"))]]

\* Fault: the entry is left to expire.
InvalidateLater(k) ==
  LET p == call[k].process IN
  /\ Serving(k, "invalidate")
  /\ written' = [written EXCEPT ![p] = IF call[k].version > @ THEN call[k].version ELSE @]
  /\ call' = [Raced(p) EXCEPT ![k] = NoCall]
  /\ UNCHANGED <<configPort, setting, drawn, cache>>

Invalidate(k) ==
  LET p == call[k].process IN
  /\ Serving(k, "invalidate")
  /\ cache' = [cache EXCEPT ![p] = NoEntry]
  /\ written' = [written EXCEPT ![p] = IF call[k].version > @ THEN call[k].version ELSE @]
  /\ call' = [Raced(p) EXCEPT ![k] = NoCall]
  /\ UNCHANGED <<configPort, setting, drawn>>

-----------------------------------------------------------------------------
(* The clock.  A value that is read waits MaxDelay ticks at most.          *)

Older(x) == IF x.version = setting THEN x ELSE [x EXCEPT !.stale = @ + 1]

\* An entry that has expired is as good as none.
ConfigTick ==
  /\ \A k \in Calls : Serving(k, "fill") => call[k].waited < MaxDelay
  /\ cache' = [p \in Processes |->
       IF cache[p].left > 1 THEN [Older(cache[p]) EXCEPT !.left = @ - 1] ELSE NoEntry]
  /\ call' = [k \in Calls |->
       IF Serving(k, "fill") THEN [Older(call[k]) EXCEPT !.waited = @ + 1] ELSE call[k]]
  /\ UNCHANGED <<configPort, setting, drawn, written>>

\* A process stops and starts again with an empty cache.
ConfigRestart(p) ==
  /\ cache' = [cache EXCEPT ![p] = NoEntry]
  /\ call' = [k \in Calls |-> IF call[k].process = p THEN NoCall ELSE call[k]]
  /\ UNCHANGED <<configPort, setting, drawn, written>>

ConfigNext ==
  \/ \E k \in Calls :
       \/ ConfigCall(k) \/ Cached(k) \/ ReadSetting(k) \/ Fill(k)
       \/ Upsert(k) \/ FindOrCreate(k) \/ FindSetting(k) \/ SaveFound(k)
       \/ DeleteSetting(k) \/ Invalidate(k)
  \/ ConfigTick
  \/ \E p \in Processes : ConfigRestart(p)

ConfigSpec == ConfigInit /\ [][ConfigNext]_configVars

-----------------------------------------------------------------------------
(* Properties *)

\* No process serves a value that was replaced or deleted longer ago than the
\* cache's time to live plus the time a read may take: reads that cross a
\* write, writes of other processes and hits that repeat add nothing to it.
ServedValueRecent ==
  \A p \in Processes : cache[p].left > 0 => cache[p].stale < CacheTTL + MaxDelay

\* A process sees its own writes: once its set has returned it serves no
\* earlier value, unless a read of it was under way when it invalidated and
\* filled the cache afterwards.
OwnWritesSeen ==
  \A p \in Processes : cache[p].left > 0 /\ cache[p].version < written[p] => cache[p].raced

=============================================================================
