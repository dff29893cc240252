-------------------------- MODULE AggregatingMeter --------------------------
(***************************************************************************)
(* AggregatingMeter (src/scope_searchquery.go): request goroutines resolve *)
(* a value recorder per (service, peer) through ValueRecorder and record   *)
(* latencies into its histogram; the logger goroutine started by           *)
(* startLoggerRoutine wakes every interval, runs generateOutput (per       *)
(* service: copy the group's recorders under its lock, then                *)
(* GetAndResetValues on each, sweeping the bins one at a time) and logs    *)
(* the result; close() hands a value to the logger over the unbuffered    *)
(* stopCh.  The percentile strings of an entry are a pure function of its *)
(* snapshot (checked in MCHistogramMath); an entry here keeps its          *)
(* total_count.                                                            *)
(***************************************************************************)
EXTENDS HistogramMath, TLC

CONSTANTS
  Services,         \* the keys of valueRecorderGroups
  UnknownService,   \* a service tag with no group
  Peers,            \* peer names
  NoTag,            \* a tag missing from the tag map
  Responses,        \* meterNameResponses
  OtherMetric,      \* any other metric name
  Writers,          \* request goroutines
  Values,           \* latencies a recording may carry
  MaxRecords,       \* recordings per request goroutine
  MaxRecorders      \* recorders ever created (bounds recorder identities)

ASSUME /\ UnknownService \notin Services
       /\ NoTag \notin Services \cup Peers \cup {UnknownService}
       /\ MaxRecorders >= Cardinality(Services) * Cardinality(Peers)

RecorderIds == 1..MaxRecorders
Nil == 0                       \* no recorder / the no-op recorder

VARIABLES
  registry,  \* registry[s][p]: valueRecorderGroups[s].recorders[p], Nil if absent
  nextId,    \* identity of the next recorder newAggregatingValueRecorder makes
  hist,      \* hist[r]: the bins of recorder r's histogram
  wpc,       \* request goroutine: "idle" or "holding" a recorder
  held,      \* the recorder ValueRecorder returned to it (Nil: no-op)
  nrec,      \* recordings it has made
  lpc,       \* logger: "wait", "collect", "sweep", "exited" or "stopped"
  todo,      \* services generateOutput has still to visit
  svc,       \* the service being visited
  pending,   \* the copy Recorders() returned, minus those already reset
  sw,        \* GetAndResetValues in progress: [rec, i, countSoFar]
  out,       \* output under construction: service -> summed total_count
  cpc,       \* closing goroutine: "open", "sending" (blocked on stopCh), "closed"
  owner,      \* owner[r]: the service recorder r was created for (history)
  acceptedBy, \* acceptedBy[s]: values recorded into a recorder of s (history)
  emittedBy,  \* emittedBy[s]: total_count logged under s, summed over outputs (history)
  lastLog    \* the last logged output: service -> summed total_count

vars == <<registry, nextId, hist, wpc, held, nrec, lpc, todo, svc, pending,
          sw, out, cpc, owner, acceptedBy, emittedBy, lastLog>>
writerVars == <<wpc, held, nrec>>
loggerVars == <<lpc, todo, svc, pending, sw, out>>
ghostVars  == <<owner, acceptedBy, emittedBy, lastLog>>

Zero == [b \in Bins |-> 0]

TotalRecords == MaxRecords * Cardinality(Writers)
NoSweep == [rec |-> Nil, i |-> 0, countSoFar |-> 0]
NoOutput == [s \in {} |-> 0]

TypeOK ==
  /\ registry \in [Services -> [Peers -> {Nil} \cup RecorderIds]]
  /\ nextId \in 1..(MaxRecorders + 1)
  /\ hist \in [RecorderIds -> [Bins -> Nat]]
  /\ wpc \in [Writers -> {"idle", "holding"}]
  /\ held \in [Writers -> {Nil} \cup RecorderIds]
  /\ nrec \in [Writers -> 0..MaxRecords]
  /\ lpc \in {"wait", "collect", "sweep", "exited", "stopped"}
  /\ todo \subseteq Services /\ svc \in Services
  /\ pending \subseteq RecorderIds
  /\ sw \in [rec : {Nil} \cup RecorderIds, i : 0..NumBuckets, countSoFar : 0..TotalRecords]
  /\ DOMAIN out \subseteq Services /\ \A s \in DOMAIN out : out[s] \in 0..TotalRecords
  /\ cpc \in {"open", "sending", "closed"}
  /\ owner \in [RecorderIds -> Services \cup {NoTag}]
  /\ acceptedBy \in [Services -> 0..TotalRecords]
  /\ emittedBy \in [Services -> 0..TotalRecords]
  /\ DOMAIN lastLog \subseteq Services

\* NewAggregatingMeter followed by startLoggerRoutine: every group empty,
\* the logger waiting in its select.
Init ==
  /\ registry = [s \in Services |-> [p \in Peers |-> Nil]]
  /\ nextId = 1
  /\ hist = [r \in RecorderIds |-> Zero]
  /\ wpc = [w \in Writers |-> "idle"]
  /\ held = [w \in Writers |-> Nil]
  /\ nrec = [w \in Writers |-> 0]
  /\ lpc = "wait"
  /\ todo = {}
  /\ svc = CHOOSE s \in Services : TRUE
  /\ pending = {}
  /\ sw = NoSweep
  /\ out = NoOutput
  /\ cpc = "open"
  /\ owner = [r \in RecorderIds |-> NoTag]
  /\ acceptedBy = [s \in Services |-> 0]
  /\ emittedBy = [s \in Services |-> 0]
  /\ lastLog = NoOutput

-----------------------------------------------------------------------------
(* Request goroutines *)

\* ValueRecorder's early returns: only meterNameResponses with a service tag
\* naming a group and a peer tag gets a real recorder.
Tracked(name, s, p) == name = Responses /\ s \in Services /\ p \in Peers

\* (mutant) the nil check dropped: every call makes a new recorder and
\* stores it over the group's entry.
ValueRecorderNoLookup(w, name, s, p) ==
  /\ wpc[w] = "idle"
  /\ nrec[w] < MaxRecords
  /\ \/ /\ ~Tracked(name, s, p)
        /\ held' = [held EXCEPT ![w] = Nil]
        /\ UNCHANGED <<registry, nextId, owner>>
     \/ /\ Tracked(name, s, p)
        /\ nextId <= MaxRecorders
        /\ registry' = [registry EXCEPT ![s][p] = nextId]
        /\ held' = [held EXCEPT ![w] = nextId]
        /\ nextId' = nextId + 1
        /\ owner' = [owner EXCEPT ![nextId] = s]
  /\ wpc' = [wpc EXCEPT ![w] = "holding"]
  /\ UNCHANGED <<hist, nrec, loggerVars, cpc, acceptedBy, emittedBy, lastLog>>

\* AggregatingMeter.ValueRecorder(name, tags): the gating returns the no-op
\* recorder; otherwise, under the group's lock, the group's recorder for
\* the peer, created and stored if there is none.  The locked section is
\* one step: Recorders() is the only other access to the map and takes the
\* same lock.
ValueRecorder(w, name, s, p) ==
  /\ wpc[w] = "idle"
  /\ nrec[w] < MaxRecords
  /\ \/ /\ ~Tracked(name, s, p)
        /\ held' = [held EXCEPT ![w] = Nil]
        /\ UNCHANGED <<registry, nextId, owner>>
     \/ /\ Tracked(name, s, p)
        /\ registry[s][p] # Nil
        /\ held' = [held EXCEPT ![w] = registry[s][p]]
        /\ UNCHANGED <<registry, nextId, owner>>
     \/ /\ Tracked(name, s, p)
        /\ registry[s][p] = Nil
        /\ nextId <= MaxRecorders
        /\ registry' = [registry EXCEPT ![s][p] = nextId]
        /\ held' = [held EXCEPT ![w] = nextId]
        /\ nextId' = nextId + 1
        /\ owner' = [owner EXCEPT ![nextId] = s]
  /\ wpc' = [wpc EXCEPT ![w] = "holding"]
  /\ UNCHANGED <<hist, nrec, loggerVars, cpc, acceptedBy, emittedBy, lastLog>>

\* aggregatingValueRecorder.RecordValue -> latencyHistogram.RecordValue:
\* one atomic add to the value's bin.  The no-op recorder discards it.
RecordValue(w, v) ==
  /\ wpc[w] = "holding"
  /\ \/ /\ held[w] = Nil
        /\ UNCHANGED <<hist, acceptedBy>>
     \/ /\ held[w] # Nil
        /\ hist' = [hist EXCEPT ![held[w]][BinIndex(v)] = @ + 1]
        /\ acceptedBy' = [acceptedBy EXCEPT ![owner[held[w]]] = @ + 1]
  /\ wpc' = [wpc EXCEPT ![w] = "idle"]
  /\ held' = [held EXCEPT ![w] = Nil]
  /\ nrec' = [nrec EXCEPT ![w] = @ + 1]
  /\ UNCHANGED <<registry, nextId, loggerVars, cpc, owner, emittedBy, lastLog>>

-----------------------------------------------------------------------------
(* The logger goroutine (loggerRoutine, generateOutput) *)

\* time.After(am.interval) fires in the select: generateOutput starts with
\* only the meta entry.
Tick ==
  /\ lpc = "wait"
  /\ lpc' = "collect"
  /\ todo' = Services
  /\ out' = NoOutput
  /\ UNCHANGED <<registry, nextId, hist, writerVars, svc, pending, sw, cpc, ghostVars>>

\* The select receives from stopCh: loggerRoutine returns and close()'s send
\* completes.
StopReceived ==
  /\ lpc = "wait"
  /\ cpc = "sending"
  /\ lpc' = "stopped"
  /\ cpc' = "closed"
  /\ UNCHANGED <<registry, nextId, hist, writerVars, todo, svc, pending, sw, out, ghostVars>>

\* (mutant) the copy taken from every group's map, not the group's own.
RecordersAll(s) == {registry[t][p] : t \in Services, p \in Peers} \ {Nil}

\* aggregatingMeterGroup.Recorders(): the group's recorders, copied under
\* its lock.
Recorders(s) == {registry[s][p] : p \in Peers} \ {Nil}

\* One iteration of the range over valueRecorderGroups (Go map order: any
\* service not yet visited): Recorders() copies the group's recorders under
\* its lock; an empty group is skipped, otherwise the service gets an entry.
VisitService(s) ==
  LET recs == Recorders(s) IN
  /\ lpc = "collect"
  /\ s \in todo
  /\ todo' = todo \ {s}
  /\ \/ /\ recs = {}
        /\ UNCHANGED <<lpc, svc, pending, out>>
     \/ /\ recs # {}
        /\ lpc' = "sweep"
        /\ svc' = s
        /\ pending' = recs
        /\ out' = out @@ (s :> 0)
  /\ UNCHANGED <<registry, nextId, hist, writerVars, sw, cpc, ghostVars>>

\* (mutant) countSoFar carried over from the previous recorder's reset.
StartResetKeepCount(r) ==
  /\ lpc = "sweep"
  /\ sw.rec = Nil
  /\ r \in pending
  /\ sw' = [sw EXCEPT !.rec = r, !.i = 0]
  /\ UNCHANGED <<registry, nextId, hist, writerVars, lpc, todo, svc, pending, out, cpc, ghostVars>>

\* GetAndResetValues on the next copied recorder: AggregateAndReset begins
\* with countSoFar = 0.
StartReset(r) ==
  /\ lpc = "sweep"
  /\ sw.rec = Nil
  /\ r \in pending
  /\ sw' = [rec |-> r, i |-> 0, countSoFar |-> 0]
  /\ UNCHANGED <<registry, nextId, hist, writerVars, lpc, todo, svc, pending, out, cpc, ghostVars>>

\* (mutant) the bin is read with a load and not cleared.
SwapBinNoReset ==
  /\ sw.rec # Nil
  /\ sw.i < NumBuckets
  /\ sw' = [sw EXCEPT !.i = @ + 1, !.countSoFar = @ + hist[sw.rec][sw.i]]
  /\ UNCHANGED <<registry, nextId, hist, writerVars, lpc, todo, svc, pending, out, cpc, ghostVars>>

\* One iteration of AggregateAndReset: atomic.SwapUint64(&lh.bins[i], 0)
\* added to countSoFar.
SwapBin ==
  /\ sw.rec # Nil
  /\ sw.i < NumBuckets
  /\ hist' = [hist EXCEPT ![sw.rec][sw.i] = 0]
  /\ sw' = [sw EXCEPT !.i = @ + 1, !.countSoFar = @ + hist[sw.rec][sw.i]]
  /\ UNCHANGED <<registry, nextId, writerVars, lpc, todo, svc, pending, out, cpc, ghostVars>>

\* (mutant) the reset loop stops one bin early.
FinishResetEarly ==
  /\ sw.rec # Nil
  /\ sw.i = NumBuckets - 1
  /\ out' = [out EXCEPT ![svc] = @ + sw.countSoFar]
  /\ pending' = pending \ {sw.rec}
  /\ sw' = [sw EXCEPT !.rec = Nil]
  /\ lpc' = IF pending' = {} THEN "collect" ELSE "sweep"
  /\ UNCHANGED <<registry, nextId, hist, writerVars, todo, svc, cpc, ghostVars>>

\* The reset loop ends (its locals stay behind, dead, until the next
\* reset); the recorder's entry (total_count = TotalCount of
\* the snapshot) goes into the service map.  After the last copied
\* recorder the service map is stored and the range moves on.
FinishReset ==
  /\ sw.rec # Nil
  /\ sw.i = NumBuckets
  /\ out' = [out EXCEPT ![svc] = @ + sw.countSoFar]
  /\ pending' = pending \ {sw.rec}
  /\ sw' = [sw EXCEPT !.rec = Nil]
  /\ lpc' = IF pending' = {} THEN "collect" ELSE "sweep"
  /\ UNCHANGED <<registry, nextId, hist, writerVars, todo, svc, cpc, ghostVars>>

\* generateOutput returns.  An output holding only "meta" makes
\* loggerRoutine return; any other is marshalled and logged and the loop
\* goes back to its select.
EndOutput ==
  /\ lpc = "collect"
  /\ todo = {}
  /\ \/ /\ DOMAIN out = {}
        /\ lpc' = "exited"
        /\ UNCHANGED <<emittedBy, lastLog>>
     \/ /\ DOMAIN out # {}
        /\ lpc' = "wait"
        /\ emittedBy' = [s \in Services |-> emittedBy[s] + (IF s \in DOMAIN out THEN out[s] ELSE 0)]
        /\ lastLog' = out
  /\ out' = NoOutput
  /\ UNCHANGED <<registry, nextId, hist, writerVars, todo, svc, pending, sw, cpc, owner, acceptedBy>>

-----------------------------------------------------------------------------
(* Client teardown *)

\* close(): am.stopCh <- struct{}{} on the unbuffered channel; the sender
\* blocks until the logger's select receives it.
Close ==
  /\ cpc = "open"
  /\ cpc' = "sending"
  /\ UNCHANGED <<registry, nextId, hist, writerVars, loggerVars, ghostVars>>

-----------------------------------------------------------------------------
Names == {Responses, OtherMetric}
ServiceTags == Services \cup {UnknownService, NoTag}
PeerTags == Peers \cup {NoTag}

LoggerStep ==
  \/ Tick
  \/ \E s \in Services : VisitService(s)
  \/ \E r \in RecorderIds : StartReset(r)
  \/ SwapBin
  \/ FinishReset
  \/ EndOutput

Next ==
  \/ \E w \in Writers, n \in Names, s \in ServiceTags, p \in PeerTags :
        ValueRecorder(w, n, s, p)
  \/ \E w \in Writers, v \in Values : RecordValue(w, v)
  \/ LoggerStep
  \/ StopReceived
  \/ Close

\* The timer always fires and the logger goroutine is always scheduled; when
\* both of its select cases are ready Go picks one at random, so a pending
\* stop is not passed over forever.  Request goroutines and the closer
\* are not obliged to act.
Fairness == WF_vars(LoggerStep) /\ SF_vars(StopReceived)

Spec == Init /\ [][Next]_vars /\ Fairness

-----------------------------------------------------------------------------
(* Properties *)

\* The values recorded and the values logged, over all services.
accepted == SumFunction(acceptedBy)
emitted == SumFunction(emittedBy)

Registered == {registry[s][p] : s \in Services, p \in Peers} \ {Nil}

\* What the reset under way has swapped out so far.
InFlight == IF sw.rec # Nil THEN sw.countSoFar ELSE 0

\* Concurrent ValueRecorder calls for the same (service, peer) resolve to
\* the recorder the group keeps: a recorder a request goroutine records
\* into is never one generateOutput will not find.
RecorderUnique ==
  \A w \in Writers : held[w] # Nil => held[w] \in Registered

\* Recording, the bin-by-bin reset and output assembly interleave without
\* losing or double-counting a value: every value recorded into a real
\* recorder is logged, in the output being assembled, swapped out by the
\* reset under way, or still in a registered recorder's bins.
ValuesAccountedFor ==
  accepted = emitted + SumFunction(out) + InFlight
               + MapThenSumSet(LAMBDA r : SumFunction(hist[r]), Registered)

LoggerGone == lpc \in {"exited", "stopped"}

\* Every value recorded is logged by a later tick, unless the logger
\* goroutine has returned.
RecordedEventuallyEmittedOrLoggerGone ==
  \A n \in 1..TotalRecords : (accepted >= n) ~> (emitted >= n \/ LoggerGone)

\* Spec 4.5/5: close() is a blocking hand-off to the logger loop, so a
\* close always returns.
CloseReturns == (cpc = "sending") ~> (cpc = "closed")

\* Spec 6/8: a service appears in a logged output only if some value was
\* recorded under it since the previous output; an interval without
\* recordings is not logged.
NoEmptyEmission == \A s \in DOMAIN lastLog : lastLog[s] > 0

\* The per-service view of the meter: what was recorded under a service and
\* not yet logged, what was logged under it, and whether the logger runs.
ML == INSTANCE MeterLog WITH
        unlogged <- [s \in Services |-> acceptedBy[s] - emittedBy[s]],
        logged <- emittedBy,
        logging <- ~LoggerGone

\* generateOutput credits each recorder's reset to the service whose group
\* holds it, and each value once: every logged output takes, per service,
\* only values recorded under that service and not logged before, and no
\* output follows the logger's return.
ImplementsMeterLog == ML!Spec
=============================================================================
