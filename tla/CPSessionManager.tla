--------------------------- MODULE CPSessionManager ---------------------------
(***************************************************************************)
(* The session manager of the CP subsystem, which the session-aware        *)
(* proxies call.  Its code is not part of the sources: this module follows *)
(* section 4.5 of the specification.  It keeps one session per consensus   *)
(* group, {session id, count of outstanding acquires}, and shares one      *)
(* create-session round trip between the acquires that find none.          *)
(*                                                                         *)
(* The cluster numbers the sessions it creates; a request is given its     *)
(* number when it is sent, which names the sessions differently from the   *)
(* cluster and orders nothing.                                             *)
(***************************************************************************)
EXTENDS Integers

CONSTANTS
    Groups,         \* consensus groups
    MaxSessions,    \* bound: sessions the cluster is asked to create
    NULL

VARIABLES
    sessions,   \* group -> [id, acquireCount], or NULL
    inFlight,   \* create-session requests: [group, id, permits of the waiting acquires]
    created     \* number of create-session requests sent

NO_SESSION_ID == -1
SessionIds    == 1..MaxSessions

InFlightFor(group) == {request \in inFlight : request.group = group}

\* Never blocks, never creates.
GetSessionId(group) ==
    IF sessions[group] = NULL THEN NO_SESSION_ID ELSE sessions[group].id

\* The group has a session, and it is this one.
IsSession(group, id) == sessions[group] # NULL /\ sessions[group].id = id

Init ==
    /\ sessions = [group \in Groups |-> NULL]
    /\ inFlight = {}
    /\ created = 0

\* acquireSession(groupId, permits) promises the session id: the known
\* session takes the permits at once, a creation in flight is joined, and
\* only an acquire that finds neither sends a request.
AcquireSession(group, permits, id) ==
    \/ /\ sessions[group] # NULL
       /\ id = sessions[group].id
       /\ sessions' = [sessions EXCEPT ![group].acquireCount = @ + permits]
       /\ UNCHANGED <<inFlight, created>>
    \/ /\ sessions[group] = NULL
       /\ \E request \in InFlightFor(group) :
              /\ id = request.id
              /\ inFlight' = (inFlight \ {request})
                                 \cup {[request EXCEPT !.permits = @ + permits]}
       /\ UNCHANGED <<sessions, created>>
    \/ /\ sessions[group] = NULL
       /\ InFlightFor(group) = {}
       /\ created < MaxSessions
       /\ id = created + 1
       /\ created' = created + 1
       /\ inFlight' = inFlight \cup {[group |-> group, id |-> id, permits |-> permits]}
       /\ UNCHANGED sessions

\* The cluster created the session: every acquire that waited takes its
\* permits and is given the id.
CreateSessionAnswered(request) ==
    /\ request \in inFlight
    /\ sessions' = [sessions EXCEPT ![request.group] =
                        [id |-> request.id, acquireCount |-> request.permits]]
    /\ inFlight' = inFlight \ {request}
    /\ UNCHANGED created

\* The round trip fails: the acquires that waited are rejected.
CreateSessionFails(request) ==
    /\ request \in inFlight
    /\ inFlight' = inFlight \ {request}
    /\ UNCHANGED <<sessions, created>>

\* releaseSession(groupId, sessionId, permits): the count of that session.
\* Does not block and does not fail.  That a release or an invalidation
\* naming another id than the group's session changes nothing is how this
\* module reads "the given session" of section 4.5.
ReleaseSession(group, id, permits) ==
    /\ sessions' = IF IsSession(group, id)
                   THEN [sessions EXCEPT ![group].acquireCount = @ - permits]
                   ELSE sessions
    /\ UNCHANGED <<inFlight, created>>

\* invalidateSession(groupId, sessionId): the session is dead, the next
\* acquire creates another.
InvalidateSession(group, id) ==
    /\ sessions' = IF IsSession(group, id)
                   THEN [sessions EXCEPT ![group] = NULL]
                   ELSE sessions
    /\ UNCHANGED <<inFlight, created>>

=============================================================================
