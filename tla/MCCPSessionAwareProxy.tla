----------------------- MODULE MCCPSessionAwareProxy --------------------------
(***************************************************************************)
(* CPSessionAwareProxy for TLC: two locks of one group and a semaphore of  *)
(* another.                                                                *)
(***************************************************************************)
EXTENDS CPSessionAwareProxy

MCGroups  == {"g1", "g2"}
MCProxies == {"lockA", "lockB", "semaphore"}

MCProxyFields ==
    [proxy \in MCProxies |->
        [serviceName |-> IF proxy = "semaphore" THEN "semaphore" ELSE "lock",
         groupId     |-> IF proxy = "semaphore" THEN "g2" ELSE "g1",
         proxyName   |-> proxy,
         objectName  |-> proxy]]

=============================================================================
