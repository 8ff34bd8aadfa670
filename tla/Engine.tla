-------------------------------- MODULE Engine --------------------------------
(***************************************************************************)
(* The engine around the Bedrock sessions: accounts, supervisor and pool.  *)
(*                                                                         *)
(* The three share no state: a supervised bot only pings its server and    *)
(* reads its account, and nothing in the engine runs the pool.  A          *)
(* behaviour is therefore one of one part, drawn at the start, with the    *)
(* others at rest.                                                         *)
(***************************************************************************)
EXTENDS Accounts, Supervisor, BotPool

CONSTANT Part  \* parts to look at, of "accounts", "supervisor" and "pool"

VARIABLE part

engineVars == <<part, accountsVars, supervisorVars, poolVars>>

EngineInit ==
    /\ part \in Part
    /\ AccountsInit /\ SupervisorInit /\ PoolInit
    /\ part # "accounts" => program = CHOOSE p \in Program : TRUE
    /\ part # "supervisor" => reconnect = CHOOSE b \in Reconnect : TRUE

EngineNext ==
    /\ UNCHANGED part
    /\ \/ part = "accounts" /\ AccountsNext /\ UNCHANGED <<supervisorVars, poolVars>>
       \/ part = "supervisor" /\ SupervisorNext /\ UNCHANGED <<accountsVars, poolVars>>
       \/ part = "pool" /\ PoolNext /\ UNCHANGED <<accountsVars, supervisorVars>>

EngineSpec == EngineInit /\ [][EngineNext]_engineVars /\ PoolFairness

-----------------------------------------------------------------------------
(* Properties. *)

\* The type invariants of the parts.
EngineTypeOK == AccountsTypeOK /\ SupervisorTypeOK /\ PoolTypeOK

=============================================================================
