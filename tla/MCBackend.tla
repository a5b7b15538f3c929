----------------------------- MODULE MCBackend -----------------------------
(***************************************************************************)
(* Three parts of a backend for TLC: the accounts, the entity routes and   *)
(* the service configuration.  They share no state, so each initial state  *)
(* lets one of them run and the others rest: part says which.              *)
(*                                                                         *)
(* A part is checked once for each way in which the ports do it.           *)
(***************************************************************************)
EXTENDS AuthAccounts, EntityCrud, ServiceConfigCache, NodePorts, ServerPorts, TLC

VARIABLE part

backendVars == <<part, accountVars, entityVars, configVars>>

AccountPorts == Representatives(NodeBehaviour, LAMBDA b : <<b.auth, b.persistence, b.cleanup>>)
Cruds == Representatives(NodeBehaviour, LAMBDA b : <<b.entity, b.softEntity>>)
AllConfigs == NodeBehaviour @@ ServerBehaviour
Configs == Representatives(AllConfigs, LAMBDA b : b.config)

\* A port that offers some of another's operations is checked with the other.
Offers(p, q) ==
  \A op \in DOMAIN AllConfigs[q].config :
    op \in DOMAIN AllConfigs[p].config /\ AllConfigs[p].config[op] = AllConfigs[q].config[op]
CachePorts == {q \in Configs : ~\E p \in Configs \ {q} : Offers(p, q)}

\* A port whose routes are another's without scoping is checked with the other,
\* where a scoped request may find all its rows within its scope.
Unscoped(program) == SelectSeq(program, LAMBDA step : step \notin {"inScope", "inScopeIds"})
Scopes(p, q) ==
  \A op \in EntityOps :
    /\ NodeBehaviour[q].entity[op] = Unscoped(NodeBehaviour[p].entity[op])
    /\ NodeBehaviour[q].softEntity[op] = Unscoped(NodeBehaviour[p].softEntity[op])
CrudPorts == {q \in Cruds : ~\E p \in Cruds \ {q} : Scopes(p, q)}

ASSUME EveryPortAssumption ==
  \A p \in DOMAIN NodeBehaviour, op \in EntityOps :
    /\ EntityProgram(op, NodeBehaviour[p].entity[op])
    /\ EntityProgram(op, NodeBehaviour[p].softEntity[op])

\* Requests, Clients and Calls are given the same model values, and so are
\* Emails, Ids and Processes: the parts do not meet.
BackendSymmetry == Permutations(Requests) \cup Permutations(Emails)

\* A PATCH puts back the column that creations send, or writes the other.
SomePatches == {<<"a", 0>>, <<"b", 1>>}
WholeTable == {Ids}

Some(S) == CHOOSE x \in S : TRUE

\* A part that rests has one initial state; the entity routes start with one row
\* and room for another.
BackendInit ==
  /\ part \in {"accounts", "entities", "config"}
  /\ AccountsInit /\ (part # "accounts" => port = Some(Ports) /\ Registered = {})
  /\ EntitiesInit /\ (part # "entities" => entityPort = Some(EntityPorts) /\ ~soft)
                  /\ (part = "entities" <=> Existing # {})
  /\ ConfigInit /\ (part # "config" => configPort = Some(ConfigPorts) /\ setting = 0)

BackendNext ==
  \/ part = "accounts" /\ AccountsNext /\ UNCHANGED <<part, entityVars, configVars>>
  \/ part = "entities" /\ EntitiesNext /\ UNCHANGED <<part, accountVars, configVars>>
  \/ part = "config" /\ ConfigNext /\ UNCHANGED <<part, accountVars, entityVars>>

BackendSpec == BackendInit /\ [][BackendNext]_backendVars

=============================================================================
