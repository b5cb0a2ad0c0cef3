----------------------------- MODULE MarketCache -----------------------------
(***************************************************************************)
(* The store of one market series (createMarketCandlesCacheStore and       *)
(* createMarketOverlayCacheStore, which differ only in what a row is): a   *)
(* list of chunks that responses are merged into.                          *)
(***************************************************************************)
EXTENDS Intervals, FiniteSets

CONSTANTS Horizon,    \* bars are 0 .. Horizon - 1
          SeriesCap,  \* MAX_CHUNKS_PER_KEY
          Values      \* what a row of a bar may say

ASSUME CacheAssumption ==
  Horizon \in Nat \ {0} /\ SeriesCap \in Nat \ {0} /\ Values # {}

VARIABLE series   \* chunks: what the responses were merged into

Coverages == {w \in [from : 0 .. Horizon, to : 0 .. Horizon] : w.from <= w.to}

(* The rows of a response: every bar of its coverage, all from one answer. *)
RowsOf(w, v) == [b \in BarsOf(w) |-> v]

CacheInit == series = <<>>

(* mergeCandlesWindowBundle: the bounds are the coverage the server        *)
(* reports, which is empty when it has no row.                             *)
MergeBundle ==
  \E w \in Coverages, v \in Values :
    series' = MergedChunks(series, Chunk(w.from, w.to, RowsOf(w, v)), SeriesCap)

(* setCandlesIfAbsent: rows come without coverage; a covered range is kept. *)
SetIfAbsent ==
  \E w \in Coverages, v \in Values :
    /\ w.from < w.to
    /\ series' = IF Covers(Bounds(series), w) THEN series
                 ELSE MergedChunks(series, Chunk(w.from, w.to, RowsOf(w, v)), SeriesCap)

Reset == series' = <<>>

CacheNext == MergeBundle \/ SetIfAbsent \/ Reset
CacheSpec == CacheInit /\ [][CacheNext]_series

------------------------------------------------------------------------------
StoredBars == UNION {DOMAIN series[i].rows : i \in DOMAIN series}

(* The chunks are typed. *)
SeriesTypeOK ==
  \A i \in DOMAIN series :
    /\ Window(series[i].from, series[i].to) \in Coverages
    /\ \A b \in DOMAIN series[i].rows :
         b \in 0 .. Horizon - 1 /\ series[i].rows[b] \in Values

(* The chunks stay apart, in order and within the cap: what mergeChunk     *)
(* leaves needs no further coalescing.                                     *)
ChunksApart ==
  /\ SeriesTypeOK
  /\ Len(series) <= SeriesCap
  /\ \A i, j \in DOMAIN series : i < j => series[i].to < series[j].from

(* The interval walks of marketIntervalCoverage.ts agree with the set of   *)
(* bars: a range is covered when every bar is held, and the missing range  *)
(* starts with the first bar that is not.  It ends where the next held bar  *)
(* begins, or at the chunk of a response without rows, which cuts it short. *)
WalksAgreeWithBars ==
  \A w \in Coverages :
    LET bounds == Bounds(series)
        hole == MissingRange(bounds, w)
        out == BarsOf(w) \ StoredBars
    IN  /\ Covers(bounds, w) <=> out = {}
        /\ out = {} => hole = NoHole
        /\ out # {} =>
             /\ BarsOf(hole) # {} /\ BarsOf(hole) \subseteq out
             /\ \A b \in out : b >= hole.from
             /\ \/ hole.to \notin out
                \/ \E i \in DOMAIN bounds : bounds[i] = Window(hole.to, hole.to)
        /\ UNION {BarsOf(r) : r \in CoveredRanges(bounds, w)}
             = BarsOf(w) \ out

(* What is covered is served in full: coalescing, deduplication and the    *)
(* cap never leave coverage without the rows behind it.                    *)
CoveredIsServed ==
  /\ ChunksApart
  /\ \A w \in Coverages :
       Covers(Bounds(series), w) => DOMAIN Served(series, w) = BarsOf(w)

(* Seen from outside the store is a set of bars that responses add to and  *)
(* that loses only its oldest part.                                        *)
Store == INSTANCE BarStore WITH stored <- StoredBars,
                                Responses <- {BarsOf(w) : w \in Coverages},
                                Cuts <- 0 .. Horizon
ImplementsStore == Store!Spec
==============================================================================
