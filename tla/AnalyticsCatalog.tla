-------------------------- MODULE AnalyticsCatalog --------------------------
(***************************************************************************)
(* What AnalyticsIndexManager promises its caller: each management call    *)
(* names a dataverse, dataset, index or link, and the analytics catalog    *)
(* changes exactly as that call says, or not at all.                       *)
(*                                                                         *)
(*  - a call is served: the catalog takes the call's effect and the call   *)
(*    returns its outcome ("ok", "exists" or "notFound"); IgnoreIfExists  *)
(*    and IgnoreIfNotExists turn "exists" and "notFound" into "ok";        *)
(*  - a call fails ("error"): the request or its answer was lost, so the  *)
(*    effect may or may not have happened;                                 *)
(*  - a call with an empty required name is refused ("invalidArgs").       *)
(*                                                                         *)
(* The catalog semantics (a dataset lives in an existing dataverse, an     *)
(* index on an existing dataset, dropping a container drops its contents) *)
(* are the analytics service's, which the manager only addresses.         *)
(***************************************************************************)
EXTENDS FiniteSets

CONSTANTS
  DataverseNames,  \* dataverse names, Default among them
  DatasetNames,
  IndexNames,
  LinkNames,       \* link names, Local among them
  Default,         \* the Default dataverse, used when none is named
  Local,           \* the Local link, used when none is named
  Empty            \* the empty string

ASSUME /\ Default \in DataverseNames
       /\ Local \in LinkNames
       /\ Empty \notin DataverseNames \cup DatasetNames \cup IndexNames \cup LinkNames

VARIABLES
  cat,      \* [dvs, dss, ixs, links]: the service's catalog
  request,  \* the call being made
  outcome   \* what it returned

Ops == {"none", "createDataverse", "dropDataverse", "createDataset", "dropDataset",
        "createIndex", "dropIndex", "connectLink", "disconnectLink",
        "getAllDatasets", "getAllIndexes", "getPendingMutations"}

Requests ==
  [op : Ops, dv : DataverseNames \cup {Empty}, ds : DatasetNames \cup {Empty},
   ix : IndexNames \cup {Empty}, link : LinkNames \cup {Empty},
   ignore : BOOLEAN, fields : BOOLEAN]

Outcomes == {"none", "ok", "exists", "notFound", "error", "invalidArgs"}

Catalogs ==
  [dvs : SUBSET DataverseNames, dss : SUBSET (DataverseNames \X DatasetNames),
   ixs : SUBSET (DataverseNames \X DatasetNames \X IndexNames),
   links : SUBSET LinkNames]

NoRequest ==
  [op |-> "none", dv |-> Empty, ds |-> Empty, ix |-> Empty, link |-> Empty,
   ignore |-> FALSE, fields |-> FALSE]

InitialCatalog == [dvs |-> {Default}, dss |-> {}, ixs |-> {}, links |-> {}]

Init ==
  /\ cat = InitialCatalog
  /\ request = NoRequest
  /\ outcome = "none"

-----------------------------------------------------------------------------
(* The effect of a call on a catalog c *)

\* The dataverse a dataset or index call addresses, and the link a link
\* call addresses: the empty option means Default, and Local.
DvOf(r) == IF r.dv = Empty THEN Default ELSE r.dv
LinkOf(r) == IF r.link = Empty THEN Local ELSE r.link

Done(c) == [res |-> "ok", cat |-> c]
Refused(res, c) == [res |-> res, cat |-> c]

\* Creating x in set field f of c, when the container is present.
Create(c, f, x, ignore) ==
  IF x \in c[f] THEN IF ignore THEN Done(c) ELSE Refused("exists", c)
  ELSE Done([c EXCEPT ![f] = @ \cup {x}])

\* Dropping x (and what lies inside it) from c.
Drop(c, present, dropped, ignore) ==
  IF ~present THEN IF ignore THEN Done(c) ELSE Refused("notFound", c)
  ELSE Done(dropped)

Effect(r, c) ==
  LET dv == DvOf(r)
      ds == <<dv, r.ds>>
      ix == <<dv, r.ds, r.ix>>
      InDv(t) == t[1] = r.dv
      InDs(t) == t[1] = dv /\ t[2] = r.ds
  IN CASE r.op = "createDataverse" -> Create(c, "dvs", r.dv, r.ignore)
       [] r.op = "dropDataverse" ->
            Drop(c, r.dv \in c.dvs,
                 [c EXCEPT !.dvs = @ \ {r.dv},
                           !.dss = {t \in @ : ~InDv(t)},
                           !.ixs = {t \in @ : ~InDv(t)}], r.ignore)
       [] r.op = "createDataset" /\ dv \notin c.dvs -> Refused("notFound", c)
       [] r.op = "createDataset" -> Create(c, "dss", ds, r.ignore)
       [] r.op = "dropDataset" /\ dv \notin c.dvs -> Refused("notFound", c)
       [] r.op = "dropDataset" ->
            Drop(c, ds \in c.dss,
                 [c EXCEPT !.dss = @ \ {ds}, !.ixs = {t \in @ : ~InDs(t)}], r.ignore)
       [] r.op \in {"createIndex", "dropIndex"} /\ ds \notin c.dss -> Refused("notFound", c)
       [] r.op = "createIndex" -> Create(c, "ixs", ix, r.ignore)
       [] r.op = "dropIndex" ->
            Drop(c, ix \in c.ixs, [c EXCEPT !.ixs = @ \ {ix}], r.ignore)
       [] r.op = "connectLink" -> Done([c EXCEPT !.links = @ \cup {LinkOf(r)}])
       [] r.op = "disconnectLink" -> Done([c EXCEPT !.links = @ \ {LinkOf(r)}])
       [] OTHER -> Done(c)

\* The catalog after the effect.
After(r, c) == Effect(r, c).cat

\* A required name is empty, or an index has no fields.
Invalid(r) ==
  \/ r.op \in {"createDataverse", "dropDataverse"} /\ r.dv = Empty
  \/ r.op \in {"createDataset", "dropDataset"} /\ r.ds = Empty
  \/ r.op \in {"createIndex", "dropIndex"} /\ r.ix = Empty
  \/ r.op = "createIndex" /\ ~r.fields

-----------------------------------------------------------------------------
(* Calls *)

Serve ==
  /\ ~Invalid(request')
  /\ outcome' = Effect(request', cat).res
  /\ cat' = After(request', cat)

Fail ==
  /\ outcome' = "error"
  /\ cat' \in {cat, After(request', cat)}

Reject ==
  /\ Invalid(request')
  /\ outcome' = "invalidArgs"
  /\ UNCHANGED cat

Next ==
  /\ request' \in Requests
  /\ request'.op # "none"
  /\ Serve \/ Fail \/ Reject

Spec == Init /\ [][Next]_<<cat, request, outcome>>
=============================================================================
