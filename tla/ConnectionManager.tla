------------------------- MODULE ConnectionManager -------------------------
(***************************************************************************)
(* stdConnectionMgr (src/client_core.go) and Scope.Search                  *)
(* (src/scope_searchquery.go).  The manager holds the gocbcore agent group *)
(* pointer.  buildConfig, connect and close take the manager's lock;       *)
(* openBucket, connection and every get*Provider read the pointer without  *)
(* it, so they interleave with connect and close at any point.  The agent  *)
(* group itself is external: creating it, opening a bucket on it and       *)
(* closing it are single steps whose success is a free choice.            *)
(*                                                                         *)
(* The client drives the lifecycle as Cluster does: buildConfig then       *)
(* connect, once; Bucket() opens buckets and Close() closes, possibly more *)
(* than once.  A getter reads the pointer more than once, but with a       *)
(* single connect the pointer only ever goes from nil to the group, and a *)
(* getter that saw nil returns at once, so one step per getter is exact.  *)
(***************************************************************************)
EXTENDS Naturals

CONSTANTS
  Buckets,     \* bucket names
  NoBucket,    \* the empty bucket name ""
  Callers,     \* API goroutines using the manager
  MaxCloses    \* calls of close() by the client

ASSUME NoBucket \notin Buckets

Group == "group"       \* the agent group connect created
NoTarget == "none"

VARIABLES
  config,      \* c.config has been built
  agentgroup,  \* c.agentgroup: Group or NoTarget (nil)
  agents,      \* buckets opened on the agent group (GetAgent is non-nil)
  groupClosed, \* agentgroup.Close() has been called
  closes,      \* calls of close() so far
  life,        \* client lifecycle: "new", "configured", "connected", "failed"
  result,      \* result[c]: what caller c's last call returned
  call         \* call[c]: caller c's last call (history for the properties)

vars == <<config, agentgroup, agents, groupClosed, closes, life, result, call>>

Errors == {"none", "notConnected", "bucketNotConnected", "providerNotConnected",
           "invalidArgs", "searchError", "openError", "closeError"}



Result(e, on) == [err |-> e, on |-> on]
Err(e) == Result(e, NoTarget)
NoResult == Err("none")

Init ==
  /\ config = FALSE
  /\ agentgroup = NoTarget
  /\ agents = {}
  /\ groupClosed = FALSE
  /\ closes = 0
  /\ life = "new"
  /\ result = [c \in Callers |-> NoResult]
  /\ call = [c \in Callers |-> [op |-> "none", bucket |-> NoBucket, empty |-> FALSE]]

-----------------------------------------------------------------------------
(* What each getter returns, read from the current state *)

Connected == agentgroup # NoTarget

\* c.agentgroup.GetAgent(bucketName) checked for nil.
OnAgent(b, e) == IF b \in agents THEN Result("none", b) ELSE Err(e)

\* A getter that takes GetAgent's result without its nil check.
GetAgentProviderNoAgentCheck(b) ==
  IF ~Connected THEN Err("notConnected") ELSE Result("none", b)

\* getKvProvider, getKvBulkProvider, getKvCapabilitiesProvider,
\* getViewProvider and connection: the group, then the bucket's agent.
GetAgentProvider(b) ==
  IF ~Connected THEN Err("notConnected") ELSE OnAgent(b, "bucketNotConnected")

\* getQueryProvider, getQueryIndexProvider, getAnalyticsProvider,
\* getSearchProvider, getSearchCapabilitiesProvider: the group itself.
GetClusterProvider ==
  IF ~Connected THEN Err("notConnected") ELSE Result("none", Group)

\* getHTTPProvider and getDiagnosticsProvider: the group for "", else the
\* bucket's agent.
GetHTTPProvider(b) ==
  CASE ~Connected     -> Err("notConnected")
    [] b = NoBucket   -> Result("none", Group)
    [] OTHER          -> OnAgent(b, "bucketNotConnected")

\* getWaitUntilReadyProvider: as getHTTPProvider, with its own message.
GetWaitUntilReadyProvider(b) ==
  CASE ~Connected     -> Err("notConnected")
    [] b = NoBucket   -> Result("none", Group)
    [] OTHER          -> OnAgent(b, "providerNotConnected")

\* getViewIndexProvider: the nil check, then getHTTPProvider(bucket).
GetViewIndexProvider(b) ==
  IF ~Connected THEN Err("notConnected") ELSE GetHTTPProvider(b)

\* getCollectionsManagementProvider: getHTTPProvider(bucket), then
\* getKvCapabilitiesProvider(bucket); the first error is returned.
GetCollectionsManagementProvider(b) ==
  LET http == GetHTTPProvider(b) IN
  IF http.err # "none" THEN http ELSE GetAgentProvider(b)

\* getSearchIndexProvider: getHTTPProvider(""), then the capabilities
\* provider.  getBucketManagementProvider and getEventingManagementProvider
\* are getHTTPProvider("") alone.
GetSearchIndexProvider ==
  LET http == GetHTTPProvider(NoBucket) IN
  IF http.err # "none" THEN http ELSE GetClusterProvider

\* Every getter by name, for a bucket argument b (ignored by the
\* cluster-level ones).
Getters(b) ==
  [kv |-> GetAgentProvider(b), kvBulk |-> GetAgentProvider(b),
   kvCaps |-> GetAgentProvider(b), view |-> GetAgentProvider(b),
   connection |-> GetAgentProvider(b),
   query |-> GetClusterProvider, queryIndex |-> GetClusterProvider,
   analytics |-> GetClusterProvider, search |-> GetClusterProvider,
   searchCaps |-> GetClusterProvider,
   http |-> GetHTTPProvider(b), diagnostics |-> GetHTTPProvider(b),
   waitUntilReady |-> GetWaitUntilReadyProvider(b),
   viewIndex |-> GetViewIndexProvider(b),
   collectionsMgmt |-> GetCollectionsManagementProvider(b),
   searchIndex |-> GetSearchIndexProvider,
   bucketMgmt |-> GetHTTPProvider(NoBucket),
   eventingMgmt |-> GetHTTPProvider(NoBucket)]

GetterNames == DOMAIN Getters(NoBucket)

TypeOK ==
  /\ config \in BOOLEAN
  /\ agentgroup \in {Group, NoTarget}
  /\ agents \subseteq Buckets
  /\ groupClosed \in BOOLEAN
  /\ closes \in 0..MaxCloses
  /\ life \in {"new", "configured", "connected", "failed"}
  /\ result \in [Callers -> [err : Errors, on : {Group, NoTarget} \cup Buckets]]
  /\ call \in [Callers -> [op : {"none", "openBucket", "close", "search"} \cup GetterNames,
                           bucket : Buckets \cup {NoBucket}, empty : BOOLEAN]]

-----------------------------------------------------------------------------
(* Operations *)

Called(c, op, b, empty) ==
  call' = [call EXCEPT ![c] = [op |-> op, bucket |-> b, empty |-> empty]]

\* buildConfig, under the lock: the config is stored unless
\* config.FromConnStr fails, which ends Cluster's connect with that error.
BuildConfig ==
  /\ life = "new"
  /\ \/ /\ config' = TRUE
        /\ life' = "configured"
     \/ /\ life' = "failed"
        /\ UNCHANGED config
  /\ UNCHANGED <<agentgroup, agents, groupClosed, closes, result, call>>

\* connect, under the lock: gocbcore.CreateAgentGroup either returns the
\* group, stored in c.agentgroup, or fails and c.agentgroup stays nil.
Connect ==
  /\ life = "configured"
  /\ \/ /\ agentgroup' = Group
        /\ life' = "connected"
     \/ /\ life' = "failed"
        /\ UNCHANGED agentgroup
  /\ UNCHANGED <<config, agents, groupClosed, closes, result, call>>

\* openBucket, without the lock: the nil check, then the group's
\* OpenBucket, which may fail (the agent is then not created).
OpenBucket(c, b) ==
  /\ Called(c, "openBucket", b, FALSE)
  /\ IF ~Connected
       THEN /\ result' = [result EXCEPT ![c] = Err("notConnected")]
            /\ UNCHANGED agents
       ELSE \/ /\ agents' = agents \cup {b}
               /\ result' = [result EXCEPT ![c] = Result("none", b)]
            \/ /\ result' = [result EXCEPT ![c] = Err("openError")]
               /\ UNCHANGED agents
  /\ UNCHANGED <<config, agentgroup, groupClosed, closes, life>>

\* One get*Provider call (or connection) by caller c, for bucket b.
GetProvider(c, g, b) ==
  /\ Called(c, g, b, FALSE)
  /\ result' = [result EXCEPT ![c] = Getters(b)[g]]
  /\ UNCHANGED <<config, agentgroup, agents, groupClosed, closes, life>>

\* close: under the lock, an error if the group was never created, else
\* agentgroup.Close(), whose own result is the group's.  The pointer is
\* left set.
Close(c) ==
  /\ closes < MaxCloses
  /\ closes' = closes + 1
  /\ Called(c, "close", NoBucket, FALSE)
  /\ IF ~Connected
       THEN /\ result' = [result EXCEPT ![c] = Err("notConnected")]
            /\ UNCHANGED groupClosed
       ELSE /\ groupClosed' = TRUE
            /\ \E e \in {"none", "closeError"} :
                 result' = [result EXCEPT ![c] = Err(e)]
  /\ UNCHANGED <<config, agentgroup, agents, life>>

\* Scope.Search: an empty request is refused before anything else; then
\* the search provider is fetched, and its error is wrapped in a
\* SearchError; otherwise the provider runs the search.
Search(c, empty) ==
  /\ Called(c, "search", NoBucket, empty)
  /\ result' = [result EXCEPT ![c] =
                  IF empty THEN Err("invalidArgs")
                  ELSE IF GetClusterProvider.err # "none" THEN Err("searchError")
                  ELSE GetClusterProvider]
  /\ UNCHANGED <<config, agentgroup, agents, groupClosed, closes, life>>

Next ==
  \/ BuildConfig
  \/ Connect
  \/ \E c \in Callers :
       \/ \E b \in Buckets : OpenBucket(c, b)
       \/ \E g \in GetterNames, b \in Buckets \cup {NoBucket} : GetProvider(c, g, b)
       \/ Close(c)
       \/ \E empty \in BOOLEAN : Search(c, empty)

Spec == Init /\ [][Next]_vars

-----------------------------------------------------------------------------
(* Properties *)

\* Bucket-scoped getters: those that take their bucket's agent when the
\* bucket name is not "".
BucketScoped == {"kv", "kvBulk", "kvCaps", "view", "connection", "http",
                 "diagnostics", "waitUntilReady", "viewIndex", "collectionsMgmt"}

\* Every provider a getter hands out wraps a live target of the right
\* scope: the group created by a successful connect for cluster-level
\* getters and for bucket "", and, for a bucket-scoped getter asked for a
\* bucket, that bucket's agent, which a successful openBucket created.
\* It fails if a getter skips the agentgroup nil check or the GetAgent nil
\* check, or hands out the group where the bucket's agent was asked for.
\* A search that Scope.Search hands to its provider likewise runs on the
\* created group.
ProviderTargetsRequestedBucket ==
  \A c \in Callers :
    LET k == call[c] IN
    (k.op \in GetterNames \cup {"search"} /\ result[c].err = "none") =>
      /\ agentgroup = Group
      /\ IF k.op \in BucketScoped /\ k.bucket # NoBucket
           THEN result[c].on = k.bucket /\ k.bucket \in agents
           ELSE result[c].on = Group
=============================================================================
