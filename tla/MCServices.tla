---------------------------- MODULE MCServices ----------------------------
(***************************************************************************)
(* Services of the broker that share no state the models keep, for TLC in  *)
(* one run: a behaviour is one of the service chosen at its beginning.     *)
(***************************************************************************)
EXTENDS LineageAuthority, Genesis, GovernanceRequests, PushRegistry, TokenCache,
        TenantContract, TLC

VARIABLE service

Others == <<vars, genesisVars, requestVars, pushVars, cacheVars, contractVars>>

ServicesInit ==
    /\ Init /\ GenesisInit /\ RequestsInit /\ PushInit /\ CacheInit /\ ContractInit
    /\ service \in {"authority", "genesis", "requests", "push", "cache", "contract"}

OnlyAuthority == service = "authority" /\ Next
    /\ UNCHANGED <<genesisVars, requestVars, pushVars, cacheVars, contractVars>>
OnlyGenesis == service = "genesis" /\ GenesisNext
    /\ UNCHANGED <<vars, requestVars, pushVars, cacheVars, contractVars>>
OnlyRequests == service = "requests" /\ RequestsNext
    /\ UNCHANGED <<vars, genesisVars, pushVars, cacheVars, contractVars>>
OnlyPush == service = "push" /\ PushNext
    /\ UNCHANGED <<vars, genesisVars, requestVars, cacheVars, contractVars>>
OnlyCache == service = "cache" /\ CacheNext
    /\ UNCHANGED <<vars, genesisVars, requestVars, pushVars, contractVars>>
OnlyContract == service = "contract" /\ ContractNext
    /\ UNCHANGED <<vars, genesisVars, requestVars, pushVars, cacheVars>>

ServicesNext ==
    /\ UNCHANGED service
    /\ OnlyAuthority \/ OnlyGenesis \/ OnlyRequests \/ OnlyPush \/ OnlyCache \/ OnlyContract

ServicesSpec == ServicesInit /\ [][ServicesNext]_<<service, Others>>

Limits == [challenge |-> [window |-> 2, max |-> 1], gemini |-> [window |-> 1, max |-> 1]]
Margins == [s \in Service |-> 1]
Lives == [s \in Service |-> {1, 3, 4}]

TokenSymmetry == Permutations(Token)
===========================================================================
