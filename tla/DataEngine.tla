----------------------------- MODULE DataEngine -----------------------------
(***************************************************************************)
(* The candle store of one symbol and timeframe (data_engine): the backfill *)
(* and fix commands that fill its SQLite table from the exchange.  Each     *)
(* command is a process of its own; nothing keeps two of them from running  *)
(* at the same time, and one may be killed between any two transactions.    *)
(*                                                                          *)
(* A bar is its open time divided by the timeframe's step.  The exchange    *)
(* answers a request with some of the bars of its window, or fails after    *)
(* the fetcher's retries.  Fetching a window and storing its rows is one    *)
(* step: a process killed between the two leaves what it leaves when killed *)
(* before the fetch, and nothing else depends on when the answer came.      *)
(***************************************************************************)
EXTENDS Integers, FiniteSets

CONSTANTS
  None,         \* nothing read, no report
  Workers,      \* processes
  Commands,     \* the commands run, of "backfill" and "fix"
  Launch,       \* first bar at or after the launch time of the symbol
  FirstListed,  \* first bar the exchange has candles for
  LastTick,     \* bound on the clock
  Limit,        \* BYBIT_KLINE_LIMIT
  Qualities,    \* "valid" and, when the exchange may send it, "invalid" OHLC
  Partial,      \* the exchange may leave candles out of an answer
  Kills         \* processes may be killed

ASSUME EngineAssumption ==
  /\ Commands \subseteq {"backfill", "fix"}
  /\ Launch \in Nat /\ FirstListed \in Nat /\ Launch <= FirstListed
  /\ LastTick \in Nat
  /\ Limit \in Nat \ {0}
  /\ Qualities \subseteq {"valid", "invalid"}
  /\ Partial \in BOOLEAN /\ Kills \in BOOLEAN
  /\ None \notin Int

VARIABLES
  clock,        \* the bar that is forming now
  candles,      \* the candles table: stored bar -> quality of its OHLC
  launchKnown,  \* the launch time is cached in meta
  quarantine,   \* the reasons the quarantine table has records of
  run,          \* the run each process is in
  report        \* what the last run of each process reported, or None

vars == <<clock, candles, launchKnown, quarantine, run, report>>

Stored == DOMAIN candles

(***************************************************************************)
(* Time grid, gaps and windows.  A window is [start, end).                  *)
(***************************************************************************)
\* Mutant: the bar that is forming counts as closed.
FormingBar == clock

LastClosed == clock - 1

Window(start, end) == [start |-> start, end |-> end]
Lesser(a, b) == IF a < b THEN a ELSE b

\* The next request of a loop that walks to bar `to` in chunks.
Chunk(cursor, to) == Window(cursor, Lesser(cursor + Limit, to + 1))

Oldest(S) == {t \in S : \A other \in S : t <= other}
Latest(S) == {t \in S : \A other \in S : other <= t}

Missing(from, to) == (from .. to) \ Stored

\* The maximal runs of missing bars.
Gaps(from, to) ==
  LET missing == Missing(from, to)
  IN  {Window(ab[1], ab[2] + 1) : ab \in
         {ab \in missing \X missing : /\ ab[1] .. ab[2] \subseteq missing
                                      /\ ab[1] <= ab[2]
                                      /\ ab[1] - 1 \notin missing
                                      /\ ab[2] + 1 \notin missing}}

\* Each gap cut into windows of at most Limit bars.
FetchWindows(from, to) ==
  UNION {{Window(gap.start + k * Limit, Lesser(gap.start + (k + 1) * Limit, gap.end)) :
            k \in 0 .. (gap.end - gap.start - 1) \div Limit} : gap \in Gaps(from, to)}

(***************************************************************************)
(* The exchange.  It lists the forming bar too, which is why the commands   *)
(* must not ask for it.                                                     *)
(***************************************************************************)
Listed(window) == {t \in window.start .. window.end - 1 : FirstListed <= t /\ t <= clock}

Answers(window) ==
  UNION {[S -> Qualities] : S \in IF Partial THEN SUBSET Listed(window) ELSE {Listed(window)}}

Upserted(rows) ==
  [t \in Stored \cup DOMAIN rows |-> IF t \in DOMAIN rows THEN rows[t] ELSE candles[t]]

(***************************************************************************)
(* Runs.                                                                    *)
(***************************************************************************)
Idle == [pc |-> "idle", cmd |-> None, from |-> None, to |-> None, cursor |-> None,
         plan |-> {}, latest |-> None, hard |-> FALSE]

At(w, cmd, pc) == run[w].cmd = cmd /\ run[w].pc = pc

Continue(w, r) == run' = [run EXCEPT ![w] = r] /\ UNCHANGED report

Result(w, status) ==
  [cmd |-> run[w].cmd, status |-> status, from |-> run[w].from, to |-> run[w].to,
   latest |-> run[w].latest]

\* The process prints its report and exits.
Conclude(w, status) ==
  /\ run' = [run EXCEPT ![w] = Idle]
  /\ report' = [report EXCEPT ![w] = Result(w, status)]

\* The process exits with a traceback, or is killed: no report.
Die(w) == run' = [run EXCEPT ![w] = Idle] /\ UNCHANGED report

Init ==
  /\ clock \in 0 .. LastTick
  /\ candles = [t \in {} |-> "valid"]
  /\ launchKnown = FALSE
  /\ quarantine = {}
  /\ run = [w \in Workers |-> Idle]
  /\ report = [w \in Workers |-> None]

\* A bar closes and the next one opens.
Tick ==
  /\ clock < LastTick
  /\ clock' = clock + 1
  /\ UNCHANGED <<candles, launchKnown, quarantine, run, report>>

Start(w) ==
  /\ run[w].pc = "idle"
  /\ \E cmd \in Commands : run' = [run EXCEPT ![w] = [Idle EXCEPT !.pc = "launch", !.cmd = cmd]]
  /\ report' = [report EXCEPT ![w] = None]
  /\ UNCHANGED <<clock, candles, launchKnown, quarantine>>

\* The launch time is read from meta, or fetched and cached there; then the
\* clock says how far this run goes.
ResolveLaunch(w) ==
  /\ run[w].pc = "launch"
  /\ launchKnown' = TRUE
  /\ Continue(w, [run[w] EXCEPT !.pc = IF run[w].cmd = "fix" THEN "min" ELSE "max",
                                !.to = LastClosed])
  /\ UNCHANGED <<clock, candles, quarantine>>

\* Only backfill catches what the launch request raises.
LaunchFails(w) ==
  /\ run[w].pc = "launch" /\ ~launchKnown
  /\ IF run[w].cmd = "backfill" THEN Conclude(w, "error") ELSE Die(w)
  /\ UNCHANGED <<clock, candles, launchKnown, quarantine>>

(***************************************************************************)
(* backfill: from the bar after the newest one to the last closed one.      *)
(***************************************************************************)
ReadMax(w) ==
  /\ At(w, "backfill", "max")
  /\ \/ Stored = {} /\ Continue(w, [run[w] EXCEPT !.pc = "min", !.cursor = Launch])
     \/ \E newest \in Latest(Stored) :
          Continue(w, [run[w] EXCEPT !.pc = "min", !.cursor = newest + 1])
  /\ UNCHANGED <<clock, candles, launchKnown, quarantine>>

\* A statement of its own: another process may have stored the first candles
\* since ReadMax.
ReadMin(w) ==
  /\ At(w, "backfill", "min")
  /\ \/ Stored = {} /\ Continue(w, [run[w] EXCEPT !.pc = "fetch"])
     \/ \E oldest \in Oldest(Stored) :
          Continue(w, [run[w] EXCEPT !.pc = "fetch", !.from = oldest])
  /\ UNCHANGED <<clock, candles, launchKnown, quarantine>>

Fetching(w) == At(w, "backfill", "fetch") /\ run[w].cursor <= run[w].to

\* A chunk with candles is stored; the next request starts where the chunk
\* ends, whether or not the answer was complete.
StoreChunk(w) ==
  LET chunk == Chunk(run[w].cursor, run[w].to)
  IN  /\ Fetching(w)
      /\ \E rows \in Answers(chunk) :
           \E oldest \in Oldest(DOMAIN rows) :
             /\ candles' = Upserted(rows)
             /\ Continue(w, [run[w] EXCEPT !.cursor = chunk.end,
                                           !.from = IF @ = None THEN oldest ELSE @])
      /\ UNCHANGED <<clock, launchKnown, quarantine>>

\* An empty chunk is skipped before the first candle and an error after it.
EmptyChunk(w) ==
  LET chunk == Chunk(run[w].cursor, run[w].to)
  IN  /\ Fetching(w)
      /\ \E rows \in Answers(chunk) : DOMAIN rows = {}
      /\ IF run[w].from = None
         THEN Continue(w, [run[w] EXCEPT !.cursor = chunk.end])
         ELSE Conclude(w, "error")
      /\ UNCHANGED <<clock, candles, launchKnown, quarantine>>

\* The exchange or the database fails: the chunks stored so far stay.
BackfillFails(w) ==
  /\ Fetching(w)
  /\ Conclude(w, "error")
  /\ UNCHANGED <<clock, candles, launchKnown, quarantine>>

\* Mutant: the last bar of the window is not expected.
ExpectedWithoutLast(from, to) == to - from

ExpectedCount(from, to) == to - from + 1

\* Completion is judged by the number of candles in the table, from the oldest
\* one known to this run up to the last closed bar.
CheckCount(w) ==
  LET from == run[w].from
      to   == run[w].to
  IN  /\ At(w, "backfill", "fetch") /\ run[w].cursor > to
      /\ \/ from = None /\ Conclude(w, IF to >= Launch THEN "error" ELSE "ok")
         \/ /\ from # None
            /\ LET expected == IF to >= from THEN ExpectedCount(from, to) ELSE 0
                   actual   == IF to >= from THEN Cardinality(Stored \cap (from .. to)) ELSE 0
               IN  Conclude(w, IF actual = expected THEN "ok" ELSE "incomplete")
      /\ UNCHANGED <<clock, candles, launchKnown, quarantine>>

(***************************************************************************)
(* fix: the missing bars from the oldest stored one to the last closed one. *)
(***************************************************************************)
FindStart(w) ==
  /\ At(w, "fix", "min")
  /\ \/ Stored = {} /\ Continue(w, [run[w] EXCEPT !.pc = "discover", !.cursor = Launch])
     \/ \E oldest \in Oldest(Stored) :
          Continue(w, [run[w] EXCEPT !.pc = "plan", !.from = oldest])
  /\ UNCHANGED <<clock, candles, launchKnown, quarantine>>

\* With an empty table the first bar the exchange has is looked for; what is
\* fetched for that is not stored.
Discover(w) ==
  LET chunk == Chunk(run[w].cursor, run[w].to)
  IN  /\ At(w, "fix", "discover")
      /\ IF run[w].cursor > run[w].to
         THEN Continue(w, [run[w] EXCEPT !.pc = "plan", !.from = Launch])
         ELSE \E rows \in Answers(chunk) :
                \/ DOMAIN rows = {} /\ Continue(w, [run[w] EXCEPT !.cursor = chunk.end])
                \/ \E oldest \in Oldest(DOMAIN rows) :
                     Continue(w, [run[w] EXCEPT !.pc = "plan", !.from = oldest])
      /\ UNCHANGED <<clock, candles, launchKnown, quarantine>>

\* Nothing catches what discovery or an empty TimeWindow raises.
FixDies(w) ==
  /\ \/ At(w, "fix", "discover") /\ run[w].cursor <= run[w].to
     \/ At(w, "fix", "plan") /\ run[w].from > run[w].to
  /\ Die(w)
  /\ UNCHANGED <<clock, candles, launchKnown, quarantine>>

\* The bar expected last is read from the clock a second time; the gaps are
\* those of this moment.
Plan(w) ==
  /\ At(w, "fix", "plan") /\ run[w].from <= run[w].to
  /\ Continue(w, [run[w] EXCEPT !.pc = "repair", !.cursor = None, !.latest = LastClosed,
                                !.plan = FetchWindows(run[w].from, run[w].to)])
  /\ UNCHANGED <<clock, candles, launchKnown, quarantine>>

NextWindows(w) == {win \in run[w].plan : \A other \in run[w].plan : win.start <= other.start}

Repair(w) ==
  /\ At(w, "fix", "repair")
  /\ \E win \in NextWindows(w) :
       /\ \E rows \in Answers(win) : candles' = Upserted(rows)
       /\ Continue(w, [run[w] EXCEPT !.plan = @ \ {win}])
  /\ UNCHANGED <<clock, launchKnown, quarantine>>

\* A diagnostic record that the database may refuse.
Quarantined(reason) == quarantine' \in {quarantine, quarantine \cup {reason}}

\* A window that cannot be fetched does not stop the repair of the others.
RepairFails(w) ==
  /\ At(w, "fix", "repair")
  /\ \E win \in NextWindows(w) :
       /\ Quarantined("fetch_error")
       /\ Continue(w, [run[w] EXCEPT !.plan = @ \ {win}, !.hard = TRUE])
  /\ UNCHANGED <<clock, candles, launchKnown>>

\* The database fails inside fix_candles.
FixAborts(w) ==
  /\ At(w, "fix", "repair")
  /\ Conclude(w, "error")
  /\ UNCHANGED <<clock, candles, launchKnown, quarantine>>

\* Mutant: the repair starts over while gaps remain.
PostflightAgain(w) ==
  /\ At(w, "fix", "repair") /\ run[w].plan = {}
  /\ IF Gaps(run[w].from, run[w].to) = {} THEN Conclude(w, "ok")
     ELSE Continue(w, [run[w] EXCEPT !.pc = "plan"])
  /\ UNCHANGED <<clock, candles, launchKnown, quarantine>>

\* The verdict on the candles the window holds now.
FixStatus(r) ==
  LET kept == Stored \cap (r.from .. r.to)
  IN  IF r.hard THEN "error"
      ELSE IF \E t \in kept : candles[t] = "invalid" THEN "invalid"
      ELSE IF Gaps(r.from, r.to) # {} \/ r.latest \notin kept THEN "incomplete"
      ELSE "ok"

\* All windows were tried: the window is read again, judged and reported.
Postflight(w) ==
  /\ At(w, "fix", "repair") /\ run[w].plan = {}
  /\ Conclude(w, FixStatus(run[w]))
  /\ IF Gaps(run[w].from, run[w].to) = {} THEN UNCHANGED quarantine
     ELSE Quarantined("postflight_gaps")
  /\ UNCHANGED <<clock, candles, launchKnown>>

Kill(w) ==
  /\ Kills /\ run[w].pc # "idle"
  /\ Die(w)
  /\ UNCHANGED <<clock, candles, launchKnown, quarantine>>

Step(w) ==
  \/ ResolveLaunch(w) \/ LaunchFails(w)
  \/ ReadMax(w) \/ ReadMin(w) \/ StoreChunk(w) \/ EmptyChunk(w) \/ BackfillFails(w)
  \/ CheckCount(w)
  \/ FindStart(w) \/ Discover(w) \/ FixDies(w) \/ Plan(w) \/ Repair(w) \/ RepairFails(w)
  \/ FixAborts(w) \/ Postflight(w)

Next == Tick \/ \E w \in Workers : Start(w) \/ Step(w) \/ Kill(w)

\* A process that runs takes its next step: its requests time out and are
\* retried at most five times, its transactions wait at most busy_timeout.
Spec == Init /\ [][Next]_vars /\ \A w \in Workers : WF_vars(Step(w))

(***************************************************************************)
(* Properties.                                                              *)
(***************************************************************************)
Bars == 0 .. LastTick
Windows == [start : Bars, end : Bars]

\* Every run is at a step of its command, with the bars that step needs.
TypeOK ==
  /\ clock \in Bars
  /\ Stored \subseteq Bars /\ candles \in [Stored -> Qualities]
  /\ launchKnown \in BOOLEAN
  /\ quarantine \subseteq {"fetch_error", "postflight_gaps"}
  /\ \A w \in Workers :
       /\ run[w].pc \in {"idle", "launch", "max", "min", "fetch", "discover", "plan", "repair"}
       /\ run[w].pc \notin {"idle", "launch"} => run[w].to \in -1 .. LastTick - 1
       /\ run[w].pc = "fetch" => run[w].from \in Bars \cup {None} /\ run[w].cursor \in Nat
       /\ run[w].pc \in {"plan", "repair"} => run[w].from \in Nat
       /\ run[w].pc = "repair" => run[w].plan \subseteq Windows
       /\ report[w] # None => report[w].status \in {"ok", "incomplete", "invalid", "error"}

\* The bar that is still forming is never stored: it would keep its unfinished
\* prices for good, since no later run asks for a stored bar again.
OnlyClosedCandles == \A t \in Stored : FirstListed <= t /\ t < clock

\* A run that reported ok told the truth, and it stays true whatever runs, fails
\* or is killed afterwards or meanwhile: every bar of its window is stored, and
\* after a fix so is the bar that was the last closed one when it looked.
OkStaysComplete ==
  \A w \in Workers :
    report[w] # None /\ report[w].status = "ok" =>
      /\ report[w].from # None => report[w].from .. report[w].to \subseteq Stored
      /\ report[w].cmd = "fix" => report[w].latest \in Stored

\* When the exchange answers in full, backfills leave no hole behind, however
\* many run at once and wherever they fail or are killed: the next run resumes
\* after the newest bar and could never come back to a hole.
BackfillLeavesNoHoles == \A a, b \in Stored : a .. b \subseteq Stored

\* When the exchange answers in full, a repair that met no error has closed every
\* gap of its window; it can only be called incomplete because a bar closed
\* after the window was chosen, or because nothing is listed yet.
RepairClosesWindow ==
  \A w \in Workers :
    /\ report[w] # None /\ report[w].cmd = "fix"
    /\ report[w].status # "error" /\ report[w].from >= FirstListed
    => report[w].from .. report[w].to \subseteq Stored

\* Every run that is not killed ends: all its loops advance.
RunsEnd == \A w \in Workers : run[w].pc # "idle" ~> run[w].pc = "idle"
=============================================================================
