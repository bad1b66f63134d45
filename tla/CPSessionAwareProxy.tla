------------------------- MODULE CPSessionAwareProxy --------------------------
(***************************************************************************)
(* The proxies of the CP subsystem that use sessions                       *)
(* (src/proxy/cpsubsystem/CPSessionAwareProxy.ts) over the session manager *)
(* of the client, with the callers of a primitive such as a lock: an       *)
(* attempt takes a thread id and acquires the session of the proxy's       *)
(* group, and later releases it, or invalidates it when the cluster        *)
(* answers that the session is gone.                                       *)
(*                                                                         *)
(* All proxies share the one manager of the client, and the proxies of a   *)
(* group share its session.  Nothing runs in parallel; the steps of the    *)
(* callers interleave at the round trips.                                  *)
(***************************************************************************)
EXTENDS BaseCPProxy, Integers, FiniteSets, FiniteSetsExt

CONSTANTS
    Groups,         \* consensus groups
    Permits,        \* numbers of permits an attempt asks for
    MaxSessions,    \* bound: sessions the cluster is asked to create
    MaxThreads,     \* bound: attempts of one proxy
    NULL

VARIABLES
    sessions, inFlight, created,    \* the session manager
    threadIdSeq,    \* proxy -> its next thread id
    attempts,       \* what callers were promised: [proxy, thread, permits, session]
    invalidated     \* history: the sessions the cluster has reported gone

managerVars == <<sessions, inFlight, created>>
proxyVars   == <<threadIdSeq, attempts, invalidated, destroying>>
vars        == <<managerVars, proxyVars>>

Manager == INSTANCE CPSessionManager

-----------------------------------------------------------------------------
(* The protected methods of the proxy *)

\* return this.threadIdSeq++: answers threadIdSeq[proxy]
NextThreadId(proxy) ==
    threadIdSeq' = [threadIdSeq EXCEPT ![proxy] = @ + 1]

GetSessionId(proxy) == Manager!GetSessionId(GetGroupId(proxy))

\* A faulty call that leaves the permits out: the manager takes one.
AcquireSessionOfOnePermit(proxy, permits, id) ==
    Manager!AcquireSession(GetGroupId(proxy), 1, id)

AcquireSession(proxy, permits, id) ==
    Manager!AcquireSession(GetGroupId(proxy), permits, id)

\* A faulty call that releases the session the group has now.
ReleaseCurrentSession(proxy, sessionId, permits) ==
    Manager!ReleaseSession(GetGroupId(proxy), GetSessionId(proxy), permits)

ReleaseSession(proxy, sessionId, permits) ==
    Manager!ReleaseSession(GetGroupId(proxy), sessionId, permits)

\* A faulty call that invalidates the session the group has now.
InvalidateCurrentSession(proxy, sessionId) ==
    Manager!InvalidateSession(GetGroupId(proxy), GetSessionId(proxy))

InvalidateSession(proxy, sessionId) ==
    Manager!InvalidateSession(GetGroupId(proxy), sessionId)

-----------------------------------------------------------------------------
(* The callers *)

\* An attempt waits while the session it was promised is being created.
Waiting(attempt) == \E request \in inFlight : request.id = attempt.session
Held == {attempt \in attempts : ~Waiting(attempt)}

Init ==
    /\ Manager!Init
    /\ threadIdSeq = [proxy \in Proxies |-> 0]
    /\ attempts = {}
    /\ invalidated = {}
    /\ destroying = {}

\* A caller starts an attempt: a fresh thread id, then acquireSession.
Acquire(proxy, permits) ==
    /\ threadIdSeq[proxy] < MaxThreads
    /\ NextThreadId(proxy)
    /\ \E id \in Manager!SessionIds :
           /\ AcquireSession(proxy, permits, id)
           /\ attempts' = attempts \cup
                  {[proxy |-> proxy, thread |-> threadIdSeq[proxy],
                    permits |-> permits, session |-> id]}
    /\ UNCHANGED <<invalidated, destroying>>

CreateSessionAnswered(request) ==
    /\ Manager!CreateSessionAnswered(request)
    /\ UNCHANGED proxyVars

CreateSessionFails(request) ==
    /\ Manager!CreateSessionFails(request)
    /\ attempts' = {attempt \in attempts : attempt.session # request.id}
    /\ UNCHANGED <<threadIdSeq, invalidated, destroying>>

\* The caller is done with what it acquired.
Release(attempt) ==
    /\ attempt \in Held
    /\ ReleaseSession(attempt.proxy, attempt.session, attempt.permits)
    /\ attempts' = attempts \ {attempt}
    /\ UNCHANGED <<threadIdSeq, invalidated, destroying>>

\* The cluster answers the caller that its session is gone.
Invalidate(attempt) ==
    /\ attempt \in Held
    /\ InvalidateSession(attempt.proxy, attempt.session)
    /\ attempts' = attempts \ {attempt}
    /\ invalidated' = invalidated \cup {attempt.session}
    /\ UNCHANGED <<threadIdSeq, destroying>>

DestroyProxy(proxy) ==
    /\ Destroy(proxy)
    /\ UNCHANGED <<managerVars, threadIdSeq, attempts, invalidated>>

DestroyProxySettles(request) ==
    /\ DestroySettles(request)
    /\ UNCHANGED <<managerVars, threadIdSeq, attempts, invalidated>>

Next ==
    \/ \E proxy \in Proxies, permits \in Permits : Acquire(proxy, permits)
    \/ \E request \in inFlight : CreateSessionAnswered(request)
    \/ \E request \in inFlight : CreateSessionFails(request)
    \/ \E attempt \in attempts : Release(attempt)
    \/ \E attempt \in attempts : Invalidate(attempt)
    \/ \E proxy \in Proxies : DestroyProxy(proxy)
    \/ \E request \in destroying : DestroyProxySettles(request)

Spec == Init /\ [][Next]_vars

-----------------------------------------------------------------------------
(* Properties *)

TypeOK ==
    /\ \A group \in Groups :
           sessions[group] \in [id : Manager!SessionIds, acquireCount : Nat] \cup {NULL}
    /\ inFlight \subseteq [group : Groups, id : Manager!SessionIds, permits : Nat]
    /\ created \in 0..MaxSessions
    /\ threadIdSeq \in [Proxies -> 0..MaxThreads]
    /\ attempts \subseteq [proxy : Proxies, thread : 0..MaxThreads,
                           permits : Permits, session : Manager!SessionIds]
    /\ invalidated \subseteq Manager!SessionIds
    /\ destroying \subseteq {DestroyRequest(proxy) : proxy \in Proxies}

\* The count of a session is the number of permits its holders have
\* acquired and not released, whatever was done meanwhile with the ids of
\* sessions that are gone: a release or an invalidation that names an
\* earlier session of the group leaves the present one alone
\* (acquireSession, releaseSession and invalidateSession of the proxy).
AcquireCountMatchesHolders ==
    \A group \in Groups : sessions[group] # NULL =>
        sessions[group].acquireCount =
            MapThenSumSet(LAMBDA attempt : attempt.permits,
                          {attempt \in Held : /\ GetGroupId(attempt.proxy) = group
                                              /\ attempt.session = sessions[group].id})

\* The callers of a group share one session: two of them hold different
\* sessions only when the cluster has reported one of the two gone.  The
\* acquires that meet while a session is being created get the same one,
\* and a session nobody reported gone is not replaced (acquireSession and
\* invalidateSession of the proxy over the manager).
OneSessionPerGroup ==
    \A one, other \in Held :
        /\ GetGroupId(one.proxy) = GetGroupId(other.proxy)
        /\ one.session # other.session
        => one.session \in invalidated \/ other.session \in invalidated

=============================================================================
