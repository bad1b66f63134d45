---------------------------- MODULE ClusterService ----------------------------
(***************************************************************************)
(* The membership tracker (src/invocation/ClusterService.ts): the current  *)
(* member list snapshot, the membership listeners and the one-shot signal  *)
(* "initial member list received".                                         *)
(*                                                                         *)
(* A member is its uuid.  A deferred promise is a number: reset() installs *)
(* the next one, and the promise applyInitialState returns remembers the   *)
(* deferred that was current when the view arrived.                        *)
(*                                                                         *)
(* A listener is the caller's code.  The model takes the most literal one: *)
(* it keeps the members it has been told of, sets them at init, adds one   *)
(* at memberAdded and takes one away at memberRemoved, so that its view is *)
(* a bag, in which a member told twice is there twice.  The view of a      *)
(* listener without init, which is never told of the members that were     *)
(* there before it, is not kept.  A listener also remembers whether it was *)
(* registered by a call from outside or from inside a callback of another  *)
(* listener.                                                               *)
(*                                                                         *)
(* Closing the connection of a departed member is a call into the          *)
(* transport.  Its effect on the registry and on the cluster view listener *)
(* is conjoined in ClientCluster; the only way it reaches this component   *)
(* is by re-entering clearMemberListVersion when the closed connection     *)
(* carried the subscription, which HandleMembersViewEvent takes as its     *)
(* parameter reregistered.                                                 *)
(***************************************************************************)
EXTENDS Integers, Sequences, FiniteSets, Bags
LOCAL INSTANCE SequencesExt

CONSTANTS
    Members,        \* uuids of the members a view may name
    ListenerIds,    \* registration ids addMembershipListener may generate
    MaxVersion,     \* bound: member list versions are 1..MaxVersion
    MaxResets       \* bound: number of calls of reset()

ASSUME MaxVersion \in Nat \ {0} /\ MaxResets \in Nat

VARIABLES
    memberListSnapshot, \* [version, memberList]; members is ToSet(memberList)
    listeners,          \* registration id -> [kind, origin, view]
    initialListFetched, \* the current deferred promise
    resolved,           \* the deferred promises that have been resolved
    applying            \* the deferreds an applyInitialState is in flight for

clusterVars == <<memberListSnapshot, listeners, initialListFetched, resolved, applying>>

EMPTY_SNAPSHOT == [version |-> -1, memberList |-> <<>>]

\* The member lists a member of the cluster sends: itself at least, nobody twice.
Views == {list \in BoundedSeq(Members, Cardinality(Members)) :
            list # <<>> /\ Cardinality(ToSet(list)) = Len(list)}

Versions  == 1..MaxVersion
Deferreds == 0..MaxResets

\* "initial": implements init, memberAdded and memberRemoved;
\* "plain": memberAdded and memberRemoved only.
ListenerKinds == {"initial", "plain"}

\* "call": registered from outside; "callback": from inside a callback.
Origins == {"call", "callback"}

\* The view of a listener that has been told of exactly these members.
ViewOf(members) == SetToBag(ToSet(members))

-----------------------------------------------------------------------------
(* Queries *)

GetMemberList == memberListSnapshot.memberList

\* A selector is the set of members it selects.
GetMembers(selector) == SelectSeq(GetMemberList, LAMBDA member : member \in selector)

\* The member found, as a set: empty when there is none.
GetMember(uuid) == {member \in ToSet(GetMemberList) : member = uuid}

GetSize == Cardinality(ToSet(GetMemberList))

-----------------------------------------------------------------------------
(* From one member list to the next *)

CreateSnapshot(memberListVersion, memberInfos) ==
    [version |-> memberListVersion, memberList |-> memberInfos]

\* deadMembers starts as the previous members keyed by id; every current
\* member found in it is deleted from it, every other one is new.
DetectMembershipEvents(prevMembers, currentMembers) ==
    LET scan(acc, member) ==
            IF member \in ToSet(acc.dead)
            THEN [acc EXCEPT !.dead = SelectSeq(@, LAMBDA d : d # member)]
            ELSE [acc EXCEPT !.new = Append(@, member)]
        found == FoldLeft(scan, [dead |-> prevMembers, new |-> <<>>], currentMembers)
    IN  [i \in DOMAIN found.dead |-> [eventType |-> "REMOVED", member |-> found.dead[i]]]
        \o [i \in DOMAIN found.new |-> [eventType |-> "ADDED", member |-> found.new[i]]]

\* The members whose connections detectMembershipEvents closes, in that order.
DeadMembers(prevMembers, currentMembers) ==
    LET removed == SelectSeq(DetectMembershipEvents(prevMembers, currentMembers),
                             LAMBDA e : e.eventType = "REMOVED")
    IN  [i \in DOMAIN removed |-> removed[i].member]

\* A listener after memberAdded or memberRemoved.
Tell(listener, event) ==
    CASE listener.kind # "initial" -> listener
      [] event.eventType = "ADDED" ->
             [listener EXCEPT !.view = @ (+) SetToBag({event.member})]
      [] OTHER ->
             [listener EXCEPT !.view = @ (-) SetToBag({event.member})]

\* fireEvents: every event in order, to every listener.
FireEvents(events) ==
    [id \in DOMAIN listeners |-> FoldLeft(Tell, listeners[id], events)]

\* A listener as addMembershipListener stores it, told of the members when
\* it has init and there are members.
Joined(kind, members) ==
    [kind |-> kind, origin |-> "call",
     view |-> IF kind = "initial" /\ Len(members) # 0 THEN ViewOf(members) ELSE EmptyBag]

\* listeners.set(registrationId, listener)
WithListener(table, registrationId, listener) ==
    [id \in DOMAIN table \cup {registrationId} |->
        IF id = registrationId THEN listener ELSE table[id]]

\* The InitialMembershipEvent delivered by applyInitialState.
FireInitialEvent(members) ==
    [id \in DOMAIN listeners |->
        IF listeners[id].kind = "initial"
        THEN [listeners[id] EXCEPT !.view = ViewOf(members)]
        ELSE listeners[id]]

-----------------------------------------------------------------------------
(* Operations *)

Init ==
    /\ memberListSnapshot = EMPTY_SNAPSHOT
    /\ listeners = <<>>
    /\ initialListFetched = 0
    /\ resolved = {}
    /\ applying = {}

\* handleMembersViewEvent on the empty snapshot: applyInitialState installs
\* the snapshot, tells the initial listeners and starts refreshing the address
\* translation; the promise is chained to the resolve of the current deferred.
ApplyInitialState(memberListVersion, memberInfos) ==
    /\ memberListSnapshot = EMPTY_SNAPSHOT
    /\ memberListSnapshot' = CreateSnapshot(memberListVersion, memberInfos)
    /\ listeners' = FireInitialEvent(memberInfos)
    /\ applying' = applying \cup {initialListFetched}
    /\ UNCHANGED <<initialListFetched, resolved>>

\* A faulty update branch that installs the snapshot after the closes, so
\* that a re-registration clears the version of the snapshot being replaced.
ApplyMembersViewAfterCloses(memberListVersion, memberInfos, reregistered) ==
    /\ memberListSnapshot # EMPTY_SNAPSHOT
    /\ memberListVersion >= memberListSnapshot.version
    /\ memberListSnapshot' = CreateSnapshot(memberListVersion, memberInfos)
    /\ listeners' = FireEvents(DetectMembershipEvents(GetMemberList, memberInfos))
    /\ UNCHANGED <<initialListFetched, resolved, applying>>

\* handleMembersViewEvent with a version that is not older: the snapshot is
\* replaced, then the departed members' connections are closed, then the
\* events are fired.  A close that re-registers the cluster view listener
\* clears the version of the snapshot just installed.
ApplyMembersView(memberListVersion, memberInfos, reregistered) ==
    /\ memberListSnapshot # EMPTY_SNAPSHOT
    /\ memberListVersion >= memberListSnapshot.version
    /\ reregistered => DeadMembers(GetMemberList, memberInfos) # <<>>
    /\ memberListSnapshot' =
           CreateSnapshot(IF reregistered THEN 0 ELSE memberListVersion, memberInfos)
    /\ listeners' = FireEvents(DetectMembershipEvents(GetMemberList, memberInfos))
    /\ UNCHANGED <<initialListFetched, resolved, applying>>

\* The callbacks of a listener are the caller's code and may call back into
\* the tracker.  Here init, called by applyInitialState, registers another
\* listener: addMembershipListener reads the snapshot just installed, and the
\* forEach that is under way visits the new entry as well, so that a listener
\* with init is given the initial event twice.
ApplyInitialStateRegistering(memberListVersion, memberInfos, registrationId, kind) ==
    /\ memberListSnapshot = EMPTY_SNAPSHOT
    /\ \E id \in DOMAIN listeners : listeners[id].kind = "initial"
    /\ registrationId \notin DOMAIN listeners
    /\ memberListSnapshot' = CreateSnapshot(memberListVersion, memberInfos)
    /\ listeners' = WithListener(FireInitialEvent(memberInfos), registrationId,
                                 [Joined(kind, memberInfos) EXCEPT !.origin = "callback"])
    /\ applying' = applying \cup {initialListFetched}
    /\ UNCHANGED <<initialListFetched, resolved>>

\* A faulty update branch that swaps the snapshot in after the events are
\* fired: a listener registered from a callback is told of the list that
\* is being replaced.
ApplyMembersViewRegisteringLate(memberListVersion, memberInfos, during, registrationId, kind) ==
    LET events == DetectMembershipEvents(GetMemberList, memberInfos)
    IN  /\ memberListSnapshot # EMPTY_SNAPSHOT
        /\ memberListVersion >= memberListSnapshot.version
        /\ DOMAIN listeners # {}
        /\ during \in DOMAIN events
        /\ registrationId \notin DOMAIN listeners
        /\ memberListSnapshot' = CreateSnapshot(memberListVersion, memberInfos)
        /\ listeners' = WithListener(FireEvents(events), registrationId,
               FoldLeft(Tell, [Joined(kind, GetMemberList) EXCEPT !.origin = "callback"],
                        SubSeq(events, during, Len(events))))
        /\ UNCHANGED <<initialListFetched, resolved, applying>>

\* memberAdded or memberRemoved, called by fireEvents for the event numbered
\* during, registers another listener.  The snapshot is the new one by then,
\* so a listener with init is told of the new list; the forEach under way
\* visits the new entry, which is told of this event and of those after it:
\* of the members they add it is told twice.
ApplyMembersViewRegistering(memberListVersion, memberInfos, during, registrationId, kind) ==
    LET events == DetectMembershipEvents(GetMemberList, memberInfos)
    IN  /\ memberListSnapshot # EMPTY_SNAPSHOT
        /\ memberListVersion >= memberListSnapshot.version
        /\ DOMAIN listeners # {}
        /\ during \in DOMAIN events
        /\ registrationId \notin DOMAIN listeners
        /\ memberListSnapshot' = CreateSnapshot(memberListVersion, memberInfos)
        /\ listeners' = WithListener(FireEvents(events), registrationId,
               FoldLeft(Tell, [Joined(kind, memberInfos) EXCEPT !.origin = "callback"],
                        SubSeq(events, during, Len(events))))
        /\ UNCHANGED <<initialListFetched, resolved, applying>>

\* handleMembersViewEvent with an older version does nothing.
IgnoreMembersView(memberListVersion) ==
    /\ memberListSnapshot # EMPTY_SNAPSHOT
    /\ memberListVersion < memberListSnapshot.version
    /\ UNCHANGED clusterVars

HandleMembersViewEvent(memberListVersion, memberInfos, reregistered) ==
    \/ ~reregistered /\ ApplyInitialState(memberListVersion, memberInfos)
    \/ ApplyMembersView(memberListVersion, memberInfos, reregistered)
    \/ ~reregistered /\ IgnoreMembersView(memberListVersion)

\* A faulty completion that resolves whatever deferred is current by then.
InitialStateAppliedToCurrent(deferred) ==
    /\ deferred \in applying
    /\ applying' = applying \ {deferred}
    /\ resolved' = resolved \cup {initialListFetched}
    /\ UNCHANGED <<memberListSnapshot, listeners, initialListFetched>>

\* The refresh applyInitialState waited for succeeds: the deferred captured
\* when the view arrived is resolved, the current one or not.
InitialStateApplied(deferred) ==
    /\ deferred \in applying
    /\ applying' = applying \ {deferred}
    /\ resolved' = resolved \cup {deferred}
    /\ UNCHANGED <<memberListSnapshot, listeners, initialListFetched>>

\* The refresh fails: a warning is logged and nothing else happens.
InitialStateFailed(deferred) ==
    /\ deferred \in applying
    /\ applying' = applying \ {deferred}
    /\ UNCHANGED <<memberListSnapshot, listeners, initialListFetched, resolved>>

Reset ==
    /\ initialListFetched < MaxResets
    /\ initialListFetched' = initialListFetched + 1
    /\ memberListSnapshot' = EMPTY_SNAPSHOT
    /\ UNCHANGED <<listeners, resolved, applying>>

\* A faulty clearMemberListVersion that writes into the EMPTY_SNAPSHOT.
ClearAnyMemberListVersion ==
    /\ memberListSnapshot' = [memberListSnapshot EXCEPT !.version = 0]
    /\ UNCHANGED <<listeners, initialListFetched, resolved, applying>>

ClearMemberListVersion ==
    /\ memberListSnapshot' = IF memberListSnapshot # EMPTY_SNAPSHOT
                             THEN [memberListSnapshot EXCEPT !.version = 0]
                             ELSE memberListSnapshot
    /\ UNCHANGED <<listeners, initialListFetched, resolved, applying>>

\* A faulty addMembershipListener that never sends the initial event.
AddMembershipListenerSilently(registrationId, kind) ==
    /\ registrationId \notin DOMAIN listeners
    /\ listeners' = WithListener(listeners, registrationId,
                                 [kind |-> kind, origin |-> "call", view |-> EmptyBag])
    /\ UNCHANGED <<memberListSnapshot, initialListFetched, resolved, applying>>

\* An initial listener that arrives after the members is told at once.
AddMembershipListener(registrationId, kind) ==
    /\ registrationId \notin DOMAIN listeners
    /\ listeners' = WithListener(listeners, registrationId, Joined(kind, GetMemberList))
    /\ UNCHANGED <<memberListSnapshot, initialListFetched, resolved, applying>>

RemoveMembershipListener(listenerId) ==
    /\ listeners' = [id \in DOMAIN listeners \ {listenerId} |-> listeners[id]]
    /\ UNCHANGED <<memberListSnapshot, initialListFetched, resolved, applying>>

\* start: addMembershipListener for each configured listener, here the kinds
\* of the listeners under the registration ids they are given.
Start(configuredListeners) ==
    /\ DOMAIN configuredListeners \cap DOMAIN listeners = {}
    /\ listeners' = [id \in DOMAIN listeners \cup DOMAIN configuredListeners |->
           IF id \in DOMAIN listeners THEN listeners[id]
           ELSE Joined(configuredListeners[id], GetMemberList)]
    /\ UNCHANGED <<memberListSnapshot, initialListFetched, resolved, applying>>

\* waitForInitialMemberList: the caller waits for the promise of the deferred
\* that is current when it calls, until the timer of
\* INITIAL_MEMBERS_TIMEOUT_IN_MILLIS rejects the wait.
WaitForInitialMemberList == initialListFetched

\* The wait is fulfilled once its deferred has been resolved.
Fulfilled(wait) == wait \in resolved

Next ==
    \/ \E version \in Versions, infos \in Views, reregistered \in BOOLEAN :
           HandleMembersViewEvent(version, infos, reregistered)
    \/ \E version \in Versions, infos \in Views, id \in ListenerIds, kind \in ListenerKinds :
           \/ ApplyInitialStateRegistering(version, infos, id, kind)
           \/ \E during \in 1..Cardinality(Members) :
                  ApplyMembersViewRegistering(version, infos, during, id, kind)
    \/ \E deferred \in Deferreds : InitialStateApplied(deferred)
    \/ \E deferred \in Deferreds : InitialStateFailed(deferred)
    \/ Reset
    \/ ClearMemberListVersion
    \/ \E id \in ListenerIds, kind \in ListenerKinds : AddMembershipListener(id, kind)
    \/ \E id \in ListenerIds : RemoveMembershipListener(id)
    \/ \E ids \in SUBSET ListenerIds \ {{}} :
           \E configured \in [ids -> ListenerKinds] : Start(configured)

Spec == Init /\ [][Next]_clusterVars

-----------------------------------------------------------------------------
(* Properties *)

TypeOK ==
    /\ memberListSnapshot \in {EMPTY_SNAPSHOT} \cup [version : 0..MaxVersion, memberList : Views]
    /\ DOMAIN listeners \subseteq ListenerIds
    /\ \A id \in DOMAIN listeners :
           /\ DOMAIN listeners[id] = {"kind", "origin", "view"}
           /\ listeners[id].kind \in ListenerKinds
           /\ listeners[id].origin \in Origins
           /\ IsABag(listeners[id].view)
           /\ BagToSet(listeners[id].view) \subseteq Members
    /\ initialListFetched \in Deferreds
    /\ resolved \subseteq Deferreds
    /\ applying \subseteq Deferreds

\* A listener with init, memberAdded and memberRemoved that was registered
\* by a call from outside can keep the member list by itself: whenever
\* members are known, what it has put together from the initial event and
\* the events fired since is the current member list, every member once,
\* whether it registered before the first view, between two views or across
\* a reset (addMembershipListener, applyInitialState, detectMembershipEvents
\* and fireEvents together).
InitialListenersSeeTheSnapshot ==
    \A id \in DOMAIN listeners :
        (/\ listeners[id].kind = "initial"
         /\ listeners[id].origin = "call"
         /\ GetMemberList # <<>>)
            => listeners[id].view = ViewOf(GetMemberList)

\* No listener with init misses a member, one registered from inside a
\* callback included: handleMembersViewEvent swaps the snapshot in before
\* fireEvents runs, so the initial event addMembershipListener hands out in
\* the middle of the events already names the members whose events the
\* new listener is too late for.
InitialListenersMissNobody ==
    \A id \in DOMAIN listeners :
        (listeners[id].kind = "initial" /\ GetMemberList # <<>>)
            => ToSet(GetMemberList) \subseteq BagToSet(listeners[id].view)

\* A call of waitForInitialMemberList is fulfilled at once only when there
\* are members to read: a refresh started before reset() and finishing after
\* it resolves the deferred it was started for, never the one reset()
\* installed (handleMembersViewEvent passes initialListFetched.resolve when
\* the view arrives).
InitialListSignalMeansMembersKnown ==
    Fulfilled(WaitForInitialMemberList) => memberListSnapshot # EMPTY_SNAPSHOT

\* "Membership-application failures during the very first snapshot are
\* logged and leave the initial-list signal unresolved, so the next incoming
\* view is naturally retried": a view that changes the member list while the
\* signal is neither fulfilled nor being fulfilled starts fulfilling it.
FailedInitialApplyIsRetried ==
    [][(/\ memberListSnapshot' # EMPTY_SNAPSHOT
        /\ memberListSnapshot'.memberList # memberListSnapshot.memberList
        /\ initialListFetched \notin resolved \cup applying)
          => initialListFetched \in applying']_clusterVars

=============================================================================
