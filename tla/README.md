# TLA+ models of the Hazelcast Node.js client

This directory holds TLA+ specifications of the client's sources: the part
that keeps track of the cluster (which connections are open, which of them
carries the cluster view subscription, what the client believes the member
list to be), the SQL service, the proxies of the CP subsystem with the
sessions behind them, and the normalisation of index configurations.
Every definition is written from the TypeScript under `src/src/`; where the
code calls into collaborators that are not part of the sources (the transport,
the invocation service, the cluster itself) the model follows `spec.md` and
says so. `PROJECT.json` lists the components, the runs, the source lines behind
every definition, the findings and the hazards.

## 1. The system

The client runs on a single execution context. A handler, with everything it
calls synchronously, runs to completion; asynchronous work (an invocation, the
refresh of the address translation) completes later as a step of its own, and
anything may have happened in between.

| Part | Source | State | Operations |
|---|---|---|---|
| ClientState | `ClientState.ts` | one of INITIAL, CONNECTED_TO_CLUSTER, INITIALIZED_ON_CLUSTER | `getState`, `setState` (any transition) |
| ConnectionRegistry | `network/ConnectionRegistry.ts` | a `Map` member uuid → connection (insertion ordered), the connection strategy | `setConnection`, `deleteConnection`, `getConnection(s)`, `isEmpty`, `getRandomConnection`, `checkIfInvocationAllowed` |
| ClusterService (membership tracker) | `invocation/ClusterService.ts` | the member list snapshot (version, list), the membership listeners, the deferred `initialListFetched` | `handleMembersViewEvent` (initial / update / ignore), `start`, `reset`, `clearMemberListVersion`, `add/removeMembershipListener`, `waitForInitialMemberList`, queries |
| ClusterViewListenerService | `listener/ClusterViewListenerService.ts` | `listenerAddedConnection`, the connection holding the subscription | `connectionAdded`, `connectionRemoved`, `tryRegister`, `tryRegisterToRandomConnection`, the event handler |
| BaseCPProxy | `proxy/cpsubsystem/BaseCPProxy.ts` | name, service, group of a primitive | the getters, `destroy`, `encodeInvokeOnRandomTarget` |
| CPSessionAwareProxy | `proxy/cpsubsystem/CPSessionAwareProxy.ts` | a thread id counter | `nextThreadId`, `getSessionId`, `acquireSession`, `releaseSession`, `invalidateSession`, each a call into the session manager (not in the sources) |
| SqlService | `sql/SqlService.ts` | none across calls; a result remembers its connection and query id | validation of statements and options, `execute`, `fetch`, `close`, the handling of the response |
| SqlPage, SqlRowMetadata, SqlColumnMetadata | `sql/*.ts` | immutable values | getters, lookups by name |
| IndexUtil | `util/IndexUtil.ts` | none | `validateAndNormalize` of an index configuration |
| Codecs | `codec/**` | none | byte layout of two messages |

How the parts interact:

* The transport keeps the registry and announces `connectionAdded` and
  `connectionRemoved` to the listener service, synchronously.
* `tryRegister` makes a connection the holder, calls
  `clusterService.clearMemberListVersion()` and sends the registration with
  `invokeUrgent`. Its rejection, later, calls `tryRegisterToRandomConnection`
  with the connection the registration was sent on.
* The member behind an accepted registration pushes member lists; the handler
  passes them to `handleMembersViewEvent`.
* `handleMembersViewEvent` installs the new snapshot and then, inside
  `detectMembershipEvents`, closes the connection of every member that left.
  Each close makes the transport delete the connection and emit
  `connectionRemoved`, which may release the holder, pick another connection
  and call `tryRegister`, hence `clearMemberListVersion`, all before
  `handleMembersViewEvent` returns.

What makes it hard, and is hard to test:

* late completions: the rejection of a registration whose holder has been
  replaced; the refresh of `applyInitialState` finishing after `reset()`;
* re-entrancy: the listener service entered several times from inside the
  tracker's handler, and the tracker's version cleared from inside its own
  handler; a membership listener that registers another listener from
  inside its callback, while `fireEvents` is still going through the
  listeners;
* members that lag: after a failover the new holder's member may push a list
  older than the one the client has, and the current one later;
* the version gate: versions start again after a restart of the cluster, and
  the gate must neither accept an older list nor refuse the first list of a new
  subscription;
* failure of one step of several: a refresh that fails after the snapshot was
  installed.

What has to hold: there is exactly one live subscription, on the holder, and
there is a holder whenever there is a connection; the first list of every
subscription is accepted, and none of its lists is ignored; a listener that asked for the initial event can rebuild the member list
from what it is told, exactly when it was registered by a call and without
missing anybody when it was registered from a callback; the initial-list signal is fulfilled only when members
are known; a client that stays connected converges to the cluster's member
list.

## 2. Modules

| Module | Models | Checked through |
|---|---|---|
| `ConnectionRegistry` | `ClientState.ts`, `ConnectionRegistry.ts` | `MCConnectionRegistry` |
| `ClusterService` | `ClusterService.ts` | `MCClusterService` |
| `ClusterViewListenerService` | `ClusterViewListenerService.ts` on top of the registry, with the transport as caller | `MCClusterViewListenerService` |
| `Subscription` | what the listener service promises: an abstract specification, no code of its own | the refinement property of `ClusterViewListenerService` and `ClientCluster` |
| `ClientCluster` | the two services calling each other, facing a cluster | `MCClientCluster` |
| `SqlRowMetadata` | `sql/SqlRowMetadata.ts`, `sql/SqlColumnMetadata.ts` and the construction in `SqlService.handleExecuteResponse` | `MCSqlRowMetadata`, and as the metadata of every result of `SqlService` |
| `SqlPage` | `sql/SqlPage.ts` | as the pages of the results of `SqlService` |
| `SqlService` | `sql/SqlService.ts` over the registry, with the result object as `spec.md` describes it | `MCSqlService` |
| `BaseCPProxy` | `proxy/cpsubsystem/BaseCPProxy.ts` | extended by `CPSessionAwareProxy` |
| `CPSessionManager` | the session manager of section 4.5 of `spec.md`; no code of its own in the sources | instantiated by `CPSessionAwareProxy` |
| `CPSessionAwareProxy` | `proxy/cpsubsystem/CPSessionAwareProxy.ts` with callers that acquire, release and invalidate | `MCCPSessionAwareProxy` |
| `IndexUtil` | `util/IndexUtil.ts` | `MCIndexUtil` |

### ConnectionRegistry

`activeConnections` is a sequence of `[uuid, conn]` entries with distinct
uuids: a JavaScript `Map` iterates in insertion order, and `set` of a present
key keeps its place (`SetConnectionIn` replaces in place, appends otherwise).
The operators whose names end in `In` take the map as an argument, because the
listener service applies them several times within one step.

`Fields` is what the constructor leaves in the object: it copies `asyncStart`
and `reconnectMode`, and leaves `clientState`, `smartRoutingEnabled` and
`loadBalancer` unassigned. `GetRandomConnectionIn` therefore never takes the
load balancer's branch and answers the first entry. `InvocationError` is the
decision table of `checkIfInvocationAllowed`; `CheckIfInvocationAllowed` is the
method as constructed, which throws before it reaches the table; it reads
the state through `GetState`, as the code does through `getState`.

### ClusterService

A member is its uuid; the snapshot is `[version, memberList]` and
`EMPTY_SNAPSHOT` has version -1. A deferred promise is a number: `Reset`
installs the next one. `ApplyInitialState` records in `applying` the deferred
that was current when the view arrived, because
`.then(this.initialListFetched.resolve)` reads the field at that moment;
`InitialStateApplied` and `InitialStateFailed` are the two completions of the
refresh.

A listener is `[kind, origin, view]`. It stands for the listener that keeps
a list of its own: `view` is the bag of the members it has been told were
added and not yet told were removed, so that what it sees can be compared
with the snapshot, and a member it was told of twice counts twice. Only
listeners that asked for the initial event (`kind = "initial"`) keep a view;
the others start from nothing known and theirs is left empty. `origin` says
whether the listener was registered by a call from outside or from inside a
callback. `Tell` is one callback, `FireEvents` the loop of `fireEvents`,
`Joined` what `addMembershipListener` tells a new listener, `WithListener`
the `Map.set`.

`ApplyMembersViewRegistering` and `ApplyInitialStateRegistering` are the two
handlers when a callback they make calls `addMembershipListener`. The new
listener is told of the member list as the tracker has it by then, the new
one, and is then visited by the `forEach` under way, which in JavaScript
reaches entries added during the iteration: it is told the event during
which it was registered and those after it. A callback that removes a
listener is not an action of its own: the removed listener is not told the
rest, and nothing is kept of a listener that is gone, so the step equals
the handler followed by `RemoveMembershipListener`.

`HandleMembersViewEvent(version, infos, reregistered)` is the whole handler:
the initial branch, the update branch (`ApplyMembersView`) and the silent
ignore. `DetectMembershipEvents` is the diff, in the order the code emits it
(removals in the order of the previous list, then additions in the order of the
new one). The parameter `reregistered` says whether one of the closes made by
the update branch re-registered the subscription: in that case the version of
the snapshot just installed is cleared to 0. Alone, the module lets it be
either; in `ClientCluster` it is computed.

`Start` registers several listeners in one step, as the loop of `start` does.
`WaitForInitialMemberList` is the deferred a caller of that method waits for,
the one that is current when it calls; `Fulfilled` says that it has been
resolved. Waits are not kept in the state: a promise settles once whatever
the code does, and what can be asked of the code is which deferred gets
resolved and when, which `resolved`, `applying` and `initialListFetched` say.

### ClusterViewListenerService

The handlers are operators on a record `[connections, holder, pending,
cleared, order]`: `TryRegister`, `TryRegisterToRandomConnection`, `Close` (the
transport's part of `connection.close()`: delete, then `connectionRemoved`),
`CloseAll` (the closes of one view, folded in order). An action computes the
record its handler chain ends in and installs it with `Becomes`.
`MembersLeft` is the step in which the tracker closes the connections to
several members that a view has dropped: each close is announced and the
subscription moved before the next close is made, so the connection that
has just taken the subscription over may be the next to go. `cleared`
records that `clearMemberListVersion` was called.

`pending[c]` counts registrations in flight on connection `c`, `handlers[c]`
those the member accepted. Connection objects are never reused (`opened`), as
in JavaScript, so identity comparison of connections means what it means in
the code. `RegistrationFails` may happen to a registration whose connection is
gone, and, at most `MaxFailures` times, to one whose connection is open.

`tryRegisterToRandomConnection` asks the connection manager for a random
connection. The manager is not in the sources, and `spec.md` says of its
choice that the load balancer is asked and that any tracked connection may be
answered. The model leaves the choice to the environment: an action takes an
`order`, a permutation of the members (`Orders`), `Choosing(order)` puts it
into the record of the handler chain, and `GetRandomConnection` answers the
connection of the first member of the order that has one, `NULL` only when
there is none. Within one chain the connections asked for are distinct (each
replaces one that has just gone), so one order for a chain covers every
combination of answers. `MembersLeft` takes the lists of connected members
only: the loop of the tracker passes over a member without a connection.

### Subscription

The abstract specification of the subscription: a set of live connections, a
carrier that is one of them or nothing, and whether the member behind the
carrier has accepted. A connection that opens becomes the carrier only when
there is none (`Open`); losing connections moves the carrier only when the
carrier is among the lost, and an accepted subscription is then no longer
accepted (`Lose`); the member accepts (`Accept`); a refusal moves an
unaccepted subscription to any live connection (`Refuse`).
`ClusterViewListenerService` implements it under the mapping `live` = the
connections of the registry, `carrier` = `listenerAddedConnection`, `accepted`
= the holder's handler is installed; `Lose` takes a set because one view can
close several connections within one step (`MembersLeft`).

### ClientCluster

The conjunction of the two components along the calls of section 1:
`ConnectionAdded`, `ConnectionRemoved` and `RegistrationFails` conjoin the
listener service's action with `ClearMemberListVersion` when the chain reached
`tryRegister`; `MembersViewEvent` conjoins `HandleMembersViewEvent` with the
closes it makes. The cluster is the environment: `clusterView` is its versioned
member list, a member with an accepted subscription pushes a list it has not
pushed yet over that connection, the cluster's or, for a member that lags,
the one before (`previousView`) and the cluster's later; `MembershipChanges`
raises the version,
`ClusterRestarts` (only while the client has no connection, since a restart
breaks them all) starts the versions again at 1, and `ClusterSwitch` is the
call of `reset()`. A member may still push the list that no longer contains
it, which is how the holder's own connection comes to be closed from inside
the handler. `GetLocalClient(order)` is the tracker's `getLocalClient`: the
local address of the connection the manager's `getRandomConnection` answers,
any of the open ones.

### SqlRowMetadata

A column is `[name, type]`; a row metadata object is `[columns, nameToIndex]`
with `nameToIndex` a function built by folding over the columns, a later
column of the same name overwriting the earlier (`NameToIndex`). Indices start
at 0 as in the code. `Lookup` is the read of a plain JavaScript object: a name
that is not a column reads `undefined` (`NULL`), unless every object inherits
a property of that name (`InheritedNames`, `INHERITED`). `Truthy` is the test
of `columnIndex ? ... : ...`, under which 0 fails. `OnExecuteResponse` is the
construction from a response that carries row metadata.

### SqlPage

A page is a record `[columnTypes, dataHolder, last]`; the holder is one
sequence of values per column. Indices count from 0 as in the code. The row
count of a holder without columns, and a value past the end, are `ERROR`.
`GetColumnValuesForServer` and `GetColumnValuesForClient` answer the empty
sequence, as the two methods do.

### SqlService

A JavaScript value is `Val(kind, n)`: its type and a number standing for the
value, with `ABSENT` for a property that is not there. `IsTruthy` is the
language's test (0, the empty string, `false`, `null` and `undefined` fail; a
`Long` is an object and passes whatever its value). `ValidSqlStatement` and
`ValidSqlStatementOptions` are the two validations, option by option;
`Request` is what `executeStatement` encodes, with the defaults it substitutes
for options that are not truthy.

One action per step of a query: `ExecuteThrows` (validation, no connection,
or a failure to serialise a parameter, each wrapped by `rethrow`), `Execute`
(the request is sent on a connection of the registry and the result created),
`ExecuteAnswered` (the `then` handler: `OnExecuteError` for an error response,
`OnExecuteResponse` otherwise; a response whose handling throws falls into the
`catch` handler), `ExecuteFails` (the invocation is rejected), `Fetch`,
`FetchAnswered`, `FetchFails`, `Close`, `CloseSettles`. Connections come and
go in between (`ConnectionAdded`, `ConnectionRemoved`, the registry's two
operations). The result object is not in the sources: it is a record of what
the service tells it, with the row metadata and the page it was given.
`executeStatement` imports its `ConnectionRegistry` from the connection
manager's module, which is not in the sources, and calls
`getRandomConnection(true)`; the model takes the registry of
`network/ConnectionRegistry.ts`, which never consults its argument as
constructed.

### BaseCPProxy, CPSessionManager, CPSessionAwareProxy

`BaseCPProxy` has the fields of a primitive and `destroy`, which sends a
request and waits for its answer, changing nothing in the proxy.
`CPSessionManager` is written from section 4.5 of `spec.md`: per group at
most one session `[id, acquireCount]`, and at most one creation in flight,
which the acquires that arrive meanwhile share. `AcquireSession(group,
permits, id)` is true of a step in which the call promises session `id`;
`ReleaseSession` and `InvalidateSession` act only when the id they are given
is the group's session: section 4.5 speaks of "the given session", and the
model reads that as a comparison of ids. That reading is the manager's part
of `AcquireCountMatchesHolders` and `OneSessionPerGroup`; the proxy's part,
which is code, is that it hands on the id of the caller and not the id the
group has at that moment.

`CPSessionAwareProxy` extends `BaseCPProxy` and instantiates the manager. Its
four methods pass the proxy's group to the manager; `NextThreadId` answers
the counter and increments it. The callers are the environment: an attempt
`[proxy, thread, session, permits]` starts with `Acquire`, waits while its
session is being created, and ends with `Release`, or with `Invalidate` when
the cluster has reported the session gone; an attempt whose creation fails
ends with the failure.

### IndexUtil

A string is a sequence of characters, of which the model tells apart the
blank, the dot, the word `this` and other words; `THIS_PATTERN` is `this`
followed by a dot at the beginning. `ValidAttribute`, `CanonicalizeAttribute`,
`IndexTypeToName` and `BuildNormalizedConfig` are the methods of those names;
`NormalizeAttributeNames` is the loop of `validateAndNormalize`, a fold that
stops at the first name it refuses; `WithBitmapIndexOptions` is its end for a
bitmap index. A call that throws answers `ERROR`. A behaviour is one call:
`Init` chooses the configuration, `AddIndex` is the call.

## 3. Runs

| Run | Module / cfg | Expect | Shows |
|---|---|---|---|
| `registry` | `MCConnectionRegistry` / `ConnectionRegistry.cfg` | pass | the map keeps one entry per member; the decision table is right for every strategy |
| `registry_gating` | `MCConnectionRegistry` / `ConnectionRegistryGating.cfg` | violation | `checkIfInvocationAllowed` never returns null as constructed |
| `tracker` | `MCClusterService` / `ClusterService.cfg` | pass | listeners registered by calls and from callbacks, and the initial-list signal across resets |
| `tracker_retry` | `MCClusterService` / `ClusterServiceRetry.cfg` | violation | a failed first application is not retried by the next view |
| `listener` | `MCClusterViewListenerService` / `ClusterViewListenerService.cfg` | pass | one subscription, on the holder, and a holder whenever connected, also across several closes in one step; `Subscription` is implemented; the subscription ends up accepted |
| `cluster` | `MCClientCluster` / `ClientCluster.cfg` | pass | the version check facing a cluster, with closes from inside the handler, restarts and members that lag: the first list of a subscription is accepted, and no list of the subscription is ignored |
| `cluster_live` | `MCClientCluster` / `ClientClusterLive.cfg` | pass | convergence to the cluster's member list, also behind members that lag and after a cluster switch |
| `sql` | `MCSqlService` / `SqlService.cfg` | pass | the request carries what was asked; every outcome of the invocation reaches the result; lookups in the metadata of every result agree with a scan of its columns on every column but the first |
| `sql_timeout` | `MCSqlService` / `SqlServiceTimeout.cfg` | violation | a timeout of 0 given as a number is sent as "not set" |
| `sessions` | `MCCPSessionAwareProxy` / `CPSessionAwareProxy.cfg` | pass | the count of a session is what its holders hold; the callers of a group share one session |
| `indexutil` | `MCIndexUtil` / `IndexUtil.cfg` | pass | exactly the well-formed configurations are accepted, and normalized as described |
| `sql_find` | `MCSqlRowMetadata` / `SqlRowMetadataFind.cfg` | violation | `findColumn` answers -1 for the first column |

Properties, beyond one type invariant per module:

* `GatingTable`: allowed exactly when initialized with a connection; the soft
  error exactly when the client will come back by itself.
* `InitialListenersSeeTheSnapshot`: the list kept by an initial listener
  that was registered by a call holds every member of the snapshot once and
  nobody else, whenever members are known.
* `InitialListenersMissNobody`: the list kept by any initial listener, also
  one registered from inside a callback of `fireEvents` or
  `applyInitialState`, holds every member of the snapshot: the snapshot is
  swapped in before the events are fired, so the list the new listener is
  given and the events it is still told of fit together.
* `InitialListSignalMeansMembersKnown`: the current deferred is resolved only
  while the snapshot is not empty.
* `HolderTracksPool`: the holder is a connection of the registry exactly
  when the registry has one. `SingleSubscription`: there is one registration,
  in flight or accepted, and it is on the holder.
* `SubscriptionStartsWithOpenGate`: from the moment a connection becomes the
  holder until its member has pushed a list, the snapshot is empty or has
  version 0.
* `ViewsOfTheSubscriptionAreApplied`: no step of the composition takes the
  silent branch of `handleMembersViewEvent`. Every list a member pushes over
  the holder's connection meets a snapshot that is empty or not newer,
  after restarts of the cluster and behind members that lag. The version
  check is exercised by `tracker`, where views arrive in any order; facing
  a cluster through one subscription it never refuses.
* `ImplementsSubscription`: every step of the listener service is a step of
  `Subscription` or leaves its three variables alone.
* `EventuallySubscribed`, `Converges`: liveness.
* `FoundColumnsAreTheNamedOnes`: for a name whose last occurrence is not the
  first column, `findColumn` answers that occurrence and `getColumn` of the
  answer has the name; checked on the metadata of every result.
* `RequestCarriesTheOptions`: every option of an accepted statement reaches
  the request with the value given, or the default when it was not given,
  although the request tests for truthiness and not for presence.
* `EveryOutcomeReachesTheResult`: a result waits exactly while its invocation
  is in flight, whether that ends with an answer, an answer whose handling
  throws, or a rejection.
* `AcquireCountMatchesHolders`: the count of a group's session is the sum of
  the permits of the attempts that hold it, whatever was released or
  invalidated meanwhile under the ids of sessions that are gone.
* `OneSessionPerGroup`: two attempts of one group have different sessions
  only when one of the two was reported gone.
* `NormalizesTheWellFormed`: `validateAndNormalize` throws exactly for the
  configurations that are not well formed (stated with quantifiers, without
  the loop), and answers the attributes in order, trimmed and without their
  `this.`.
* `AcceptedNamesStayValid`: the second validation, in `buildNormalizedConfig`,
  never refuses a name the loop accepted.

The properties of the subscription are checked in `listener` and not again
in the composition: on the variables of the listener service every step of
the composition is a step of `listener`, whose bounds are the larger ones.
The composition checks what needs both components, the version the tracker
compares with and the lists a cluster pushes.

Each property of a passing run is paired in `PROJECT.json` with a faulty
variant of a definition (defined just before it in the module) under which TLC
finds the property violated.

### Findings

1. **`checkIfInvocationAllowed` throws** (`ConnectionRegistry.ts:121`). The
   constructor drops its `clientState` argument and never sets
   `smartRoutingEnabled` or `loadBalancer`. Run `registry_gating`.
2. **A failed first application is not retried** (`ClusterService.ts:203`).
   `applyInitialState` installs the snapshot before the refresh that may
   fail; the next view finds a snapshot and updates it without resolving
   `initialListFetched`. `spec.md` says the next view retries. Run
   `tracker_retry`; the trace is: first view, refresh fails, second view.

3. **`findColumn` does not find the first column**
   (`SqlRowMetadata.ts:88`). `columnIndex ? columnIndex : -1` treats the
   index 0 as absent. The documentation of `findColumn` promises -1 only for
   a column that is not found. The same test lets the name of an inherited
   property (`toString`) through with a value that is not a number. Run
   `sql_find`; the smallest trace is a response with one column.

4. **A timeout of 0 is sent as "not set"** (`SqlService.ts:310`).
   `executeStatement` tests `timeoutMillis` for truthiness; the validation
   accepts 0. The number 0 becomes `TIMEOUT_NOT_SET` (-1), the `Long` 0 is
   sent as 0. Run `sql_timeout`; the trace is one call of `execute`.

Noted while reading, without a run: `ConnectionRegistryImpl.isActive`
answers a field that nothing assigns after its initialiser, so it is always
false; `SqlPage.getColumnValuesForClient` and
`getColumnValuesForServer` answer an empty array whatever the page holds;
`validateAndNormalize` canonicalizes the unique key of a bitmap index without
trimming it, so `' this.a'` is kept as written where the same attribute name
becomes `a`; `'this. a'` is normalized to `' a'`, with its blank; a bitmap
index without options is refused with "Attribute name cannot be undefined";
the names generated for the attribute lists `['a_b']` and `['a', 'b']` are
the same; a wait of `waitForInitialMemberList` started before `reset()` is
fulfilled by the refresh of the cluster that was left; a listener
registered from inside a callback of `fireEvents` is given the new member
list and then told again of the members added by the event under way and
the later ones, and one registered from inside an initial callback is given
the list twice (first view `<<m1>>`, a listener with init, then the view
`<<m2>>`, during whose events a second listener with init is registered:
it is given `m2` and then told that `m2` was added), so a listener that
appends to a list of its own keeps such a member after it has left; behind
a member that lags, a client that fails over goes back to the older member
list until the member catches up, and closes its connections to the members
that joined in between.
Also: section 5 of `spec.md` says views "not
newer than the current snapshot" are rejected, while the code and section 4.3
accept a view of the same version; section 4.3 describes the snapshot as
swapped in after the diff, while the code swaps it in before (the order the
model follows, and the one `SubscriptionStartsWithOpenGate` depends on).

## 4. Bounds

| Constant | Value | Why it is enough |
|---|---|---|
| `Uuids` / `Members` | 3 (2 in the composition) | in `tracker` a view can drop one member and add another at once, and add two, so that a listener registered during the second event has missed the first; in `listener` two or three connections are closed in a row within one step; in the composition, with 2, a view can drop the holder's member while the other connection is open, and no view drops more than one member: the closes of several are checked in `listener` |
| `Connections` | 4 in `listener`, 3 in `cluster`, 2 in `cluster_live` | lose the holder with a second connection open, lose everything, connect again |
| `ListenerIds` | 2 (1 in `cluster`, none in `cluster_live`) | one listener before and one after the first view; one that is called back and the one it registers |
| `MaxVersion` | 2 | a lower version after a higher one |
| `MaxResets` | 2 (1 in `cluster` and `cluster_live`) | a refresh started under one deferred completes under a later one; in the composition, one cluster switch |
| `MaxFailures` | 2 (1 in the composition) | a rejection on a live connection, followed by a retry on the same or on another connection |
| `MaxChanges` | 2 in `cluster`, 1 in `cluster_live` | a membership change and a restart; the cluster may start at any version, so one restart already brings a lower version; one change already gives a member a list to lag behind with |
| `MaxColumns`, `ColumnNames` | 3 columns over 3 names, one of them inherited by every object | a duplicate name before and after another column, a name at index 0 and elsewhere |
| `Queries` | 1 | queries share nothing but the registry, which no query changes |
| `Calls` | every combination of a few values per argument and option | for each: absent, both sides of what the validation tests, the falsy value of its type, a wrong type |
| `Responses` | an error, an update count, rows with up to 3 columns and a page of one row that is or is not the last | each branch of the handler, the constructor that throws for no columns, a fetch that is and is not allowed |
| `Connections` (SQL) | 2 over 2 members | the connection of a result is removed, or replaced, while the query is under way |
| `Proxies`, `Groups` | 3 proxies, two of them in one group | the manager is shared by the proxies of a group and not by the others |
| `MaxSessions` | 3 | a session, the one after its invalidation, and one more for the other group or a failed creation |
| `MaxThreads` | 2 per proxy | two attempts of one proxy at once |
| destroy requests | one in flight per proxy | `destroy` changes nothing in the proxy; a second request in flight would only repeat the first |
| `Permits` | {1, 2} | counts that a lost or doubled release or acquire changes visibly |
| `MAX_ATTRIBUTES` | 2 (255 in the code) | the code compares the length with the constant only: lists of 2 and of 3 names are the two sides of the limit |
| `MaxLength`, characters | every name of up to 3 characters over blank, dot, `this`, `a`, and five longer ones | `this.a`, ` a `, `a.`, `this.`, `this. `: every test of the validation on both sides, and several spellings of one attribute; the longer ones are ` this.a`, `this.a `, `this.a.`, `this. a` and `this.this.a` |

`tracker` and `cluster` declare the model values symmetric; `listener` and
`cluster_live` check liveness and do not.
`listener`, `cluster` and `cluster_live` do not check deadlock: the client
is reactive, and once no connection is left to open and nothing is in flight
it rightly waits. Neither do `sql`, `sessions` and `indexutil`: a query that
was closed, a caller that released, and a call that returned are ends, and
the bounds on sessions and thread ids stop the callers.

## 5. Fairness

`FairSpec` assumes weak fairness of two steps only, both steps of the
environment the code waits for: the member behind a live connection answers a
registration sent to it (`RegistrationSucceeds`), and a member pushes its list
to its subscriber (`MembersViewEvent`). The second is fairness of the push
whatever list is pushed: a member that lags has one older list to push, after
which only the cluster's is left, so it catches up. Nothing is assumed about connections
being opened or kept, and the rejection of registrations on live connections
is bounded, not excluded. A member that rejects every registration is
excluded by the first assumption: what the client does facing one is decided
by the connection manager's choice of a connection and by the invocation
layer, which are not in the sources. The client's own handlers need no fairness: they run
synchronously inside the steps that trigger them.

## 6. Not modelled

* The partition half of the cluster view handler,
  `translateToPublicAddress`, logging and `membersString`: they read or call
  services that are not in the sources and change nothing in the tracker.
* The views of listeners that did not ask for the initial event: such a
  listener knows nothing of the members that were there before it, no
  property can be stated of its list, and keeping it multiplies the states.
* Members that lag by more than one list, and two live subscriptions at
  once: the version is cleared at every re-registration and a connection
  carries its frames in order, so no older list reaches the gate with a
  version left to compare it with, except after a restart of the cluster,
  which is modelled.
* The 120 s timer of `waitForInitialMemberList`. Time is not modelled; the
  timer is what ends a wait whose deferred is never resolved, and the models
  show when that is.
* Listeners that throw. A throw inside `fireEvents` or `applyInitialState`
  leaves the snapshot installed and the remaining listeners untold, and the
  code states nothing about that case that could be checked; telling which
  listeners were reached would need the order of the listeners' map, which
  the model abstracts to a function.
* The legality of client state transitions: `setState` accepts anything and
  the lifecycle that calls it is not in the sources.
* In the SQL service: serialisation (`toData`, a failure of which is one of
  the ways `ExecuteThrows` happens), the conversion of date and time values
  in the pages and in the parameters (which maps five types to their string
  and passes the rest through, before the serialisation that is left out),
  the messages of the errors.
* An abstract specification of a session for `sessions` to implement. The
  session manager is not in the sources: it is itself written from section
  4.5 of `spec.md`, and the proxy's own code is four calls that pass the
  group on. A refinement would compare two readings of one paragraph, not
  the code with a promise. Liveness of the sessions is left out for the
  same reason: whether a waiting attempt is answered is decided by the
  manager and the cluster, neither of which is code of this repository.
* What a primitive does after `destroy`, and the heartbeats and the expiry of
  sessions: the subclasses of the proxies and the session manager are not in
  the sources. The manager is modelled from `spec.md` as far as the proxy
  calls it.
* An unsupported index type: `indexTypeToName` refuses it, and only when the
  name is generated; the enumeration is not in the sources and the inputs are
  its three values.
* Codecs (byte layout), the SQL integration test.

## 7. Plan

Done: the registry, the tracker with listeners registered from callbacks,
the listener service with its abstract specification, their composition
facing a cluster whose members may lag, and with members that leave
together; the SQL service with pages and row
metadata; the CP proxies over the session manager; `IndexUtil`. What is left
of the sources is listed in section 6 with the reason it is left out.

The hazards that `PROJECT.json` lists without a property are behaviours of
the code about which neither `spec.md`, a comment nor a test says what is
intended (a listener that throws, the name of an inherited property given to
`findColumn`, the unique key that is not trimmed, generated index names that
collide, a connection object replaced in the registry, `fetch` on a
connection that is gone, `destroy` while sessions are held). Each of them
would be a run that expects a violation of a statement of intent. When one
of them is settled by the maintainers, it becomes a property of the run of
its module.
