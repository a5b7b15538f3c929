------------------------------ MODULE NodePorts -----------------------------
(***************************************************************************)
(* The eight Node ports of the templates and of the auth feature: two      *)
(* frameworks, four ORMs.                                                  *)
(***************************************************************************)
FastifyPrismaPort == INSTANCE FastifyPrisma
FastifyDrizzlePort == INSTANCE FastifyDrizzle
FastifySequelizePort == INSTANCE FastifySequelize
FastifyTypeormPort == INSTANCE FastifyTypeorm
ExpressPrismaPort == INSTANCE ExpressPrisma
ExpressDrizzlePort == INSTANCE ExpressDrizzle
ExpressSequelizePort == INSTANCE ExpressSequelize
ExpressTypeormPort == INSTANCE ExpressTypeorm

NodeBehaviour ==
  [FastifyPrisma |-> FastifyPrismaPort!port,
   FastifyDrizzle |-> FastifyDrizzlePort!port,
   FastifySequelize |-> FastifySequelizePort!port,
   FastifyTypeorm |-> FastifyTypeormPort!port,
   ExpressPrisma |-> ExpressPrismaPort!port,
   ExpressDrizzle |-> ExpressDrizzlePort!port,
   ExpressSequelize |-> ExpressSequelizePort!port,
   ExpressTypeorm |-> ExpressTypeormPort!port]

\* One port for each way of doing what Aspect looks at: ports that behave
\* alike need not be checked twice.
Representatives(behaviour, Aspect(_)) ==
  {CHOOSE p \in DOMAIN behaviour : Aspect(behaviour[p]) = b :
     b \in {Aspect(behaviour[p]) : p \in DOMAIN behaviour}}

=============================================================================
