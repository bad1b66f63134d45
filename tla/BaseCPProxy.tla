----------------------------- MODULE BaseCPProxy ------------------------------
(***************************************************************************)
(* The common part of every CP subsystem proxy                             *)
(* (src/proxy/cpsubsystem/BaseCPProxy.ts): the names it was constructed    *)
(* with, and destroy(), which asks any member to destroy the object.  The  *)
(* proxy keeps no mark of having been destroyed.                           *)
(***************************************************************************)
CONSTANTS
    Proxies,        \* the proxies of the client
    ProxyFields,    \* proxy -> [serviceName, groupId, proxyName, objectName]
    ERROR           \* a call that throws

VARIABLES
    destroying      \* the destroy requests in flight

\* What the constructor assigned; none of it changes.
FieldsOf(proxy) == ProxyFields[proxy]

\* UnsupportedOperationError
GetPartitionKey(proxy) == ERROR

GetName(proxy)        == FieldsOf(proxy).proxyName
GetServiceName(proxy) == FieldsOf(proxy).serviceName
GetGroupId(proxy)     == FieldsOf(proxy).groupId

DestroyRequest(proxy) ==
    [groupId     |-> FieldsOf(proxy).groupId,
     serviceName |-> FieldsOf(proxy).serviceName,
     objectName  |-> FieldsOf(proxy).objectName]

\* encodeInvokeOnRandomTarget: the request is on its way to some member.
\* Bound: a request that is in flight is not sent a second time.
EncodeInvokeOnRandomTarget(request) ==
    /\ request \notin destroying
    /\ destroying' = destroying \cup {request}

Destroy(proxy) == EncodeInvokeOnRandomTarget(DestroyRequest(proxy))

\* The promise of destroy() settles as the invocation does.
DestroySettles(request) ==
    /\ request \in destroying
    /\ destroying' = destroying \ {request}

=============================================================================
