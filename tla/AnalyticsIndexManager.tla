----------------------- MODULE AnalyticsIndexManager -----------------------
(***************************************************************************)
(* AnalyticsIndexManager (src/scope_searchquery.go, from line 301).  Each  *)
(* call checks its arguments, formats one statement and runs it through    *)
(* doAnalyticsQuery, or, for GetPendingMutations, sends one management     *)
(* request.  The analytics service is the environment: it parses the       *)
(* statement, applies it to its catalog (AnalyticsCatalog's Effect), and   *)
(* streams back rows; the transport may fail before or after the service  *)
(* acted.  Calls are made one at a time: each is one step.                 *)
(*                                                                         *)
(* A statement is abstracted to the entity it addresses (a request record  *)
(* of AnalyticsCatalog) and the identifiers it spells, each between        *)
(* backticks or not.  The service refuses to parse an empty identifier and *)
(* a bare identifier that needs quoting (one with a '-', say).  Timeouts,  *)
(* retry strategies, spans, WHERE conditions and field types are data the *)
(* properties do not tell apart and are left out.                          *)
(***************************************************************************)
EXTENDS Naturals

CONSTANTS
  DataverseNames, DatasetNames, IndexNames, LinkNames, Default, Local, Empty,
  NeedsQuoting,  \* the names that parse only between backticks
  Buckets,       \* bucket names for CreateDataset
  MaxOpenBodies  \* bound on response bodies left open

VARIABLES
  cat,      \* the service's catalog
  request,  \* the call last made, as AnalyticsCatalog's request record
  outcome,  \* what it returned; "parseError" is the service refusing the text
  listed,   \* the entries the last listing call returned
  open      \* management response bodies never closed

vars == <<cat, request, outcome, listed, open>>

AC == INSTANCE AnalyticsCatalog WITH
        outcome <- IF outcome = "parseError" THEN "error" ELSE outcome

Ident(n, q) == [name |-> n, quoted |-> q]
Statement(target, idents) == [target |-> target, idents |-> idents]

\* The service parses a statement whose identifiers are non-empty and
\* quoted where they must be.
Parses(st) ==
  \A id \in st.idents : id.name # Empty /\ (id.name \in NeedsQuoting => id.quoted)

\* The rows a statement's SELECT returns.
Rows(st) ==
  CASE st.target.op = "getAllDatasets" -> cat.dss
    [] st.target.op = "getAllIndexes"  -> cat.ixs
    [] OTHER                           -> {}

\* doAnalyticsQuery: the possible [res, rows, cat] of running st.  An
\* AnalyticsQuery or result.Err() error returns the error whether or not
\* the service acted.  The branch that logs and skips a row result.Row
\* cannot read is not taken: a streamed row always reads into a
\* json.RawMessage.
DoAnalyticsQuery(st) ==
  LET e == AC!Effect(st.target, cat) IN
  IF ~Parses(st) THEN {[res |-> "parseError", rows |-> {}, cat |-> cat]}
  ELSE {[res |-> "error", rows |-> {}, cat |-> c] : c \in {cat, e.cat}}
       \cup (IF e.res # "ok" THEN {[res |-> e.res, rows |-> {}, cat |-> cat]}
             ELSE {[res |-> "ok", rows |-> Rows(st), cat |-> e.cat]})

Req(op) == [AC!NoRequest EXCEPT !.op = op]

\* A call refused by the client's own argument check.
Refuse(r) ==
  /\ request' = r
  /\ outcome' = "invalidArgs"
  /\ UNCHANGED <<cat, listed, open>>

\* A call that runs statement st and returns its error or nil.
Run(r, st) ==
  /\ request' = r
  /\ \E q \in DoAnalyticsQuery(st) :
       /\ cat' = q.cat
       /\ outcome' = q.res
  /\ UNCHANGED <<listed, open>>

\* The dataset as the dataset and index calls spell it: `ds`, or
\* `dv`.`ds` when opts.DataverseName is set.
DatasetIdents(dv, ds) ==
  IF dv = Empty THEN {Ident(ds, TRUE)} ELSE {Ident(dv, TRUE), Ident(ds, TRUE)}

Init ==
  /\ cat = AC!InitialCatalog
  /\ request = AC!NoRequest
  /\ outcome = "none"
  /\ listed = {}
  /\ open = 0

-----------------------------------------------------------------------------
(* The calls *)

\* CreateDataverse: the name must be non-empty; "CREATE DATAVERSE `dv`".
CreateDataverse(dv, ignore) ==
  LET r == [Req("createDataverse") EXCEPT !.dv = dv, !.ignore = ignore] IN
  IF dv = Empty THEN Refuse(r) ELSE Run(r, Statement(r, {Ident(dv, TRUE)}))

\* DropDataverse: no check; "DROP DATAVERSE dv", the name bare.
DropDataverse(dv, ignore) ==
  LET r == [Req("dropDataverse") EXCEPT !.dv = dv, !.ignore = ignore] IN
  Run(r, Statement(r, {Ident(dv, FALSE)}))

\* CreateDataset: the dataset name must be non-empty; the bucket is
\* quoted but not checked.
CreateDataset(ds, bucket, dv, ignore) ==
  LET r == [Req("createDataset") EXCEPT !.ds = ds, !.dv = dv, !.ignore = ignore] IN
  IF ds = Empty THEN Refuse(r)
  ELSE Run(r, Statement(r, DatasetIdents(dv, ds) \cup {Ident(bucket, TRUE)}))

\* DropDataset with opts.DataverseName ignored: the default dataverse's
\* dataset of that name is addressed.
DropDatasetNoDataverse(ds, dv, ignore) ==
  LET r == [Req("dropDataset") EXCEPT !.ds = ds, !.dv = dv, !.ignore = ignore] IN
  Run(r, Statement([r EXCEPT !.dv = Empty], DatasetIdents(Empty, ds)))

\* DropDataset: no check; the dataset quoted.
DropDataset(ds, dv, ignore) ==
  LET r == [Req("dropDataset") EXCEPT !.ds = ds, !.dv = dv, !.ignore = ignore] IN
  Run(r, Statement(r, DatasetIdents(dv, ds)))

\* CreateIndex: the index name must be non-empty and the field map too;
\* the index name is quoted.
CreateIndex(ds, ix, fields, dv, ignore) ==
  LET r == [Req("createIndex") EXCEPT !.ds = ds, !.ix = ix, !.fields = fields,
                                      !.dv = dv, !.ignore = ignore] IN
  IF ix = Empty \/ ~fields THEN Refuse(r)
  ELSE Run(r, Statement(r, DatasetIdents(dv, ds) \cup {Ident(ix, TRUE)}))

\* DropIndex: no check; "DROP INDEX <dataset>.ix", the index name bare.
DropIndex(ds, ix, dv, ignore) ==
  LET r == [Req("dropIndex") EXCEPT !.ds = ds, !.ix = ix, !.dv = dv,
                                    !.ignore = ignore] IN
  Run(r, Statement(r, DatasetIdents(dv, ds) \cup {Ident(ix, FALSE)}))

\* ConnectLink and DisconnectLink: an empty link name becomes "Local";
\* the name is bare.
LinkCall(op, link) ==
  LET r == [Req(op) EXCEPT !.link = link]
      l == IF link = Empty THEN Local ELSE link
  IN Run(r, Statement([r EXCEPT !.link = l], {Ident(l, FALSE)}))

ConnectLink(link) == LinkCall("connectLink", link)
DisconnectLink(link) == LinkCall("disconnectLink", link)

\* The listing calls: doAnalyticsQuery, then json.Unmarshal of every row;
\* one row that does not unmarshal fails the call.
ListAll(op) ==
  /\ request' = Req(op)
  /\ \E q \in DoAnalyticsQuery(Statement(Req(op), {})) :
       /\ cat' = q.cat
       /\ \/ /\ q.res = "ok"
             /\ outcome' = "ok"
             /\ listed' = q.rows
          \/ /\ q.res # "ok" \/ q.rows # {}
             /\ outcome' = IF q.res = "ok" THEN "error" ELSE q.res
             /\ listed' = {}
  /\ UNCHANGED open

GetAllDatasets == ListAll("getAllDatasets")
GetAllIndexes == ListAll("getAllIndexes")

\* GetPendingMutations: doMgmtRequest, then the status check, the decode
\* and, on success only, resp.Body.Close() (its error only logged).  The
\* bad-status error is built by makeMgmtBadStatusError, which is not in
\* these sources: it may or may not close the body.
GetPendingMutations ==
  /\ open < MaxOpenBodies
  /\ request' = Req("getPendingMutations")
  /\ \/ /\ outcome' = "error"                     \* doMgmtRequest failed
        /\ UNCHANGED open
     \/ /\ outcome' = "error"                     \* StatusCode != 200
        /\ open' \in {open, open + 1}
     \/ /\ outcome' = "error"                     \* jsonDec.Decode failed
        /\ open' = open + 1
     \/ /\ outcome' = "ok"
        /\ UNCHANGED open
  /\ UNCHANGED <<cat, listed>>

DvInputs == DataverseNames \cup {Empty}
DsInputs == DatasetNames \cup {Empty}
IxInputs == IndexNames \cup {Empty}

Next ==
  \/ \E dv \in DvInputs, ignore \in BOOLEAN :
       \/ CreateDataverse(dv, ignore)
       \/ DropDataverse(dv, ignore)
       \/ \E ds \in DsInputs :
            \/ \E b \in Buckets \cup {Empty} : CreateDataset(ds, b, dv, ignore)
            \/ DropDataset(ds, dv, ignore)
            \/ \E ix \in IxInputs :
                 \/ \E fields \in BOOLEAN : CreateIndex(ds, ix, fields, dv, ignore)
                 \/ DropIndex(ds, ix, dv, ignore)
  \/ \E link \in LinkNames \cup {Empty} : ConnectLink(link) \/ DisconnectLink(link)
  \/ GetAllDatasets
  \/ GetAllIndexes
  \/ GetPendingMutations

Spec == Init /\ [][Next]_vars

-----------------------------------------------------------------------------
(* Properties *)

\* Every call changes the catalog exactly as the call the caller made
\* says, or not at all when it fails, and reports "ok", "exists" or
\* "notFound" only as AnalyticsCatalog does for that call: the manager
\* addresses the dataverse, dataset, index and link it was given, with
\* the IF [NOT] EXISTS clause its option asks for, and an error after
\* the service acted is allowed.
ImplementsAnalyticsCatalog == AC!Spec

\* Every statement the manager builds from non-empty names parses: a name
\* CreateDataverse or CreateIndex accepts (they quote it) is accepted by
\* DropDataverse and DropIndex too, and any link name by ConnectLink.
StatementsParse ==
  outcome = "parseError" =>
    \/ request.op \in {"dropDataverse"} /\ request.dv = Empty
    \/ request.op \in {"createDataset", "dropDataset", "createIndex", "dropIndex"}
         /\ request.ds = Empty
    \/ request.op = "dropIndex" /\ request.ix = Empty
    \/ request.op = "createDataset"

\* GetPendingMutations leaves no response body open when it returns,
\* whichever way it returns.
BodiesClosed == open = 0
=============================================================================
