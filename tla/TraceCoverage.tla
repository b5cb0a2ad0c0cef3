---------------------------- MODULE TraceCoverage ----------------------------
(***************************************************************************)
(* The data structures of the trace loaders: the spans of the display      *)
(* cache (features/chart/signalTraceDisplayCache.ts), the bundles of the   *)
(* session cache (signalTraceBundleSessionCache.ts) and the ledger of      *)
(* requests (runtime/signalTraceRequestCoordinator.ts).  Unlike the market *)
(* windows a span includes both its ends, and it is counted in seconds: a  *)
(* bar opens every Step seconds.                                           *)
(***************************************************************************)
EXTENDS Intervals, FiniteSets

CONSTANT Step   \* seconds between two bars

ASSUME StepAssumption == Step \in Nat \ {0}

NoSpan == Window(1, 0)
SpanOfBars(w) == Window(w.from * Step, w.to * Step)

(* mergeCoverageIntervals: spans that overlap or follow one another by a   *)
(* second become one.                                                      *)
JoinedSpans(spans) ==
  LET Absorb(done, s) ==
        IF done # <<>> /\ s.from <= Last(done).to + 1
        THEN Front(done) \o <<[Last(done) EXCEPT !.to = Larger(@, s.to)]>>
        ELSE Append(done, s)
  IN  FoldLeft(Absorb, <<>>, ByStart(spans))

(* The cursor of coversTimeRange and missingTimeRange: the first second    *)
(* from a time on that no span reaches.                                    *)
SpanReach(spans, from) ==
  LET Advance(cursor, s) ==
        IF s.to >= cursor /\ s.from <= cursor THEN s.to + 1 ELSE cursor
  IN  FoldLeft(Advance, from, JoinedSpans(spans))

CoversSpan(spans, w) == SpanReach(spans, w.from) > w.to

(* missingTimeRange: from the first second without cover to the end of the *)
(* window, whatever is covered in between.                                 *)
MissingSpan(spans, w) ==
  IF CoversSpan(spans, w) THEN NoSpan ELSE Window(SpanReach(spans, w.from), w.to)

------------------------------------------------------------------------------
(* Responses and chunks.  A response has bars and, of each, an event and a  *)
(* context row; both say which answer they come from.                      *)

ChunkAsRequested(requested, rows) ==
  [from |-> requested.from, to |-> requested.to, events |-> rows, htf |-> rows]

(* computeChunkBoundsFromResponse: the bounds are those of what came, never *)
(* of what was asked.                                                      *)
ChunkOf(requested, rows) ==
  LET times == DOMAIN rows
      low == CHOOSE t \in times : \A u \in times : t <= u
      high == CHOOSE t \in times : \A u \in times : t >= u
  IN  [from |-> low, to |-> high, events |-> rows, htf |-> rows]

(* mergeDisplayChunk: the newest chunks are kept, in the order they came.  *)
Kept(chunks, chunk, cap) ==
  LET all == Append(chunks, chunk)
  IN  IF Len(all) > cap THEN SubSeq(all, Len(all) - cap + 1, Len(all)) ELSE all

(* mergeDisplayChunkFromResponse: nothing is merged from an empty answer.  *)
MergedResponse(chunks, requested, rows, cap) ==
  IF DOMAIN rows = {} THEN chunks
  ELSE Kept(chunks, ChunkOf(requested, rows), cap)

TimesIn(chunks, w) ==
  {t \in UNION {DOMAIN chunks[i].events : i \in DOMAIN chunks} : w.from <= t /\ t <= w.to}

(* sliceEventsForWindow: of two events with one key the first stays.       *)
FirstWith(chunks, t) == SelectInSeq(chunks, LAMBDA c : t \in DOMAIN c.events)
EventsIn(chunks, w) ==
  [t \in TimesIn(chunks, w) |-> chunks[FirstWith(chunks, t)].events[t]]

(* sliceHtfContextForWindow: of two rows of one time the later stays.      *)
LastWith(chunks, t) == SelectLastInSeq(chunks, LAMBDA c : t \in DOMAIN c.htf)
HtfIn(chunks, w) ==
  [t \in TimesIn(chunks, w) |-> chunks[LastWith(chunks, t)].htf[t]]

------------------------------------------------------------------------------
(* A list without the element at a place, and the list with one at its end, *)
(* cut to the newest cap: touchMerged of the ledger, set of the session     *)
(* cache.                                                                  *)
Without(list, place) == IF place = 0 THEN list ELSE RemoveAt(list, place)
Newest(list, cap) ==
  IF Len(list) > cap THEN SubSeq(list, Len(list) - cap + 1, Len(list)) ELSE list

PlaceOfKey(keys, key) == SelectInSeq(keys, LAMBDA k : k = key)
TouchedKey(keys, key, cap) ==
  Newest(Append(Without(keys, PlaceOfKey(keys, key)), key), cap)

PlaceOfBundle(bundles, window) == SelectInSeq(bundles, LAMBDA b : b.window = window)
PutBundle(bundles, window, bundle, cap) ==
  Newest(Append(Without(bundles, PlaceOfBundle(bundles, window)),
                [window |-> window, bundle |-> bundle]), cap)
==============================================================================
