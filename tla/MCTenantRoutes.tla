-------------------------- MODULE MCTenantRoutes --------------------------
(* TenantRoutes with a deploy bundle whose one route expires at time 1.    *)
EXTENDS TenantRoutes
ExpiringBundle == [target: Repo, version: {1}, expires: {1}]
=============================================================================
