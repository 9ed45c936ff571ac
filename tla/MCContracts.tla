----------------------------- MODULE MCContracts -----------------------------
(***************************************************************************)
(* The treasury and the factory, which never call each other, checked by   *)
(* TLC in one run, as MCParts checks the parts of the backend and browser: *)
(* the initial state chooses the contract that runs, and the other one     *)
(* stays where it began.                                                   *)
(***************************************************************************)
EXTENDS Treasury, MarketFactory

VARIABLE contract  \* the contract that runs

ContractsInit ==
    /\ contract \in {"treasury", "factory"}
    /\ Init /\ FactoryInit
    /\ contract = "factory" => limit = CHOOSE l \in Limits : TRUE
    /\ contract = "treasury" => admin = CHOOSE a \in Admins : TRUE

ContractsNext ==
    /\ UNCHANGED contract
    /\ \/ contract = "treasury" /\ Next /\ UNCHANGED factoryVars
       \/ contract = "factory" /\ FactoryNext /\ UNCHANGED vars

ContractsSpec ==
    ContractsInit /\ [][ContractsNext]_<<contract, vars, factoryVars>>
==============================================================================
