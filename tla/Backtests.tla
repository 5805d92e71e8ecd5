----------------------------- MODULE Backtests ------------------------------
(***************************************************************************)
(* `cscan backtest` as a person runs it: the default run with its harness, *)
(* `--sweep` with its gate and its resume, `--phase compute` in chunks and *)
(* `--phase finalize`. The commands meet in the rows of `events` and in    *)
(* the `runs` ledger; the events are those of one day and one signal type, *)
(* so that a configuration has at most one of a ticker. What a row says of *)
(* the engine is given: `flaws` is what the per-row checks would find in   *)
(* it, `profile` how many of the ticker's signals survive each shift of    *)
(* the indicators. A row that is still running, or was interrupted, is     *)
(* what no query asks for, so only closed rows are in the ledger.          *)
(***************************************************************************)
EXTENDS Integers, FiniteSets, Sequences, FiniteSetsExt, SequencesExt, Functions

CONSTANTS
  Tickers,     \* the universe, as the sequence that is cut into chunks
  Base,        \* the default configuration
  Members,     \* the other configurations of the sweep, as a sequence
  Worlds,      \* what fires, what has bars, and what the checks would find
  ChunkSizes,  \* of `--phase compute` and of the harness's workers
  MaxCommands  \* bound on the commands

BacktestsAssumption ==
  /\ Tickers \in Seq(ToSet(Tickers)) /\ IsInjective(Tickers) /\ Tickers # <<>>
  /\ Members \in Seq(ToSet(Members)) /\ Base \notin ToSet(Members)
  /\ ChunkSizes \subseteq Nat \ {0} /\ MaxCommands \in Nat
  /\ \A w \in Worlds :
       /\ w.fires \subseteq ToSet(Tickers) /\ w.fires # {} /\ w.bars \subseteq ToSet(Tickers)
       /\ \A t \in ToSet(Tickers) :
            w.profile[t][1] > 0 /\ \A k \in 2..5 : w.profile[t][k] \in 0..w.profile[t][1]

VARIABLES
  fires,     \* the tickers whose bars fire the signal
  bars,      \* the tickers that have bars at all
  flaws,     \* per ticker, what is wrong with the row the engine makes of it
  profile,   \* per ticker: its signals, how many of them are signals of the
             \* indicators shifted by 1, 5 and 20 bars, and of the control
  rows,      \* per configuration and ticker: cofire_count, Null or Absent
  ledger,    \* the closed rows of `runs` these commands write
  command,   \* the command that is running
  commands   \* how many were started

vars == <<fires, bars, flaws, profile, rows, ledger, command, commands>>
data == <<fires, bars, flaws, profile>>

Universe == ToSet(Tickers)
Configs == {Base} \cup ToSet(Members)
Absent == -1
Null == 0

\* `tickers` are the command's, `run` those of the run it has open.
Idle == [name |-> "idle", config |-> Base, todo |-> <<>>, tickers |-> {}, run |-> {},
         full |-> FALSE, failed |-> {}, chunk |-> 0, of |-> 0, written |-> FALSE]

Opened(cmd, config, tickers) ==
  [cmd EXCEPT !.config = config, !.run = tickers, !.failed = {}, !.written = FALSE]

Entry(job, config, status, notes, full, chunk, of) ==
  [job |-> job, config |-> config, status |-> status, notes |-> notes,
   full |-> full, chunk |-> chunk, of |-> of]

-----------------------------------------------------------------------------
(* run_backtest. *)

\* add_cofire_count, over the rows of this run.
Count(tickers) == Cardinality(fires \cap tickers)

\* Mutant: every write takes the count of its own run.
WrittenWithCount(config, tickers, full) ==
  [rows EXCEPT ![config] = [t \in Universe |->
     IF t \in fires \cap tickers THEN Count(tickers) ELSE rows[config][t]]]

\* copy_upsert: a row that is new takes every column of the frame, one that is
\* there keeps its cofire_count unless the run is of the whole universe.
Written(config, tickers, full) ==
  [rows EXCEPT ![config] = [t \in Universe |->
     IF t \in fires \cap tickers /\ (full \/ rows[config][t] = Absent)
       THEN Count(tickers) ELSE rows[config][t]]]

\* The workers return, all but those that raise, and the frame is written in
\* one transaction.
RunBacktest ==
  /\ command.run # {} /\ ~command.written
  /\ \E failed \in SUBSET command.run :
       /\ failed # command.run
       /\ rows' = Written(command.config, command.run \ failed, command.full)
       /\ command' = [command EXCEPT !.failed = failed, !.written = TRUE]
  /\ UNCHANGED <<data, ledger, commands>>

\* BacktestRunFailed: every worker raised. The command ends.
EveryWorkerRaises ==
  /\ command.run # {} /\ ~command.written
  /\ command' = Idle
  /\ ledger' = ledger \cup {Entry(command.name, command.config, "failed", TRUE,
                                  command.full, command.chunk, command.of)}
  /\ UNCHANGED <<data, rows, commands>>

-----------------------------------------------------------------------------
(* The harness. *)

Chunked(seq, size) ==
  [i \in 1..((Len(seq) + size - 1) \div size) |->
     SubSeq(seq, (i - 1) * size + 1,
            IF i * size > Len(seq) THEN Len(seq) ELSE i * size)]

\* What the per-row checks find in these tickers' rows. A row of a ticker
\* without bars cannot be priced again, and that is a violation as well.
Violations(tickers) ==
  UNION {flaws[t] : t \in tickers} \cup (IF tickers \subseteq bars THEN {} ELSE {"no_bar"})

\* _lookahead_counts: the events of the bars (k = 1), and how many of them are
\* events of the shifted (2 to 4) and of the shuffled (5) indicators as well.
Counted(tickers, k) == MapThenSumSet(LAMBDA t : profile[t][k], tickers)

\* The Jaccard index at k, as a fraction: an event that moves is two in the
\* union. _lookahead_verdict asks it of the counts of the whole universe.
Over(tickers, k) == 2 * Counted(tickers, 1) - Counted(tickers, k)
Below(n, d, m, e) == n * e < m * d
Verdict(inter, union) ==
  /\ union[1] # 0
  /\ Below(inter[5], union[5], 15, 100)
  /\ Below(inter[2], union[2], 80, 100)
  /\ \A k \in 2..3 : Below(inter[k + 1], union[k + 1], inter[k], union[k])
  /\ Below(inter[3], union[3], 50, 100)
  /\ Below(inter[4], union[4], 2 * inter[5], union[5])

NoLookahead(tickers) ==
  Verdict([k \in 1..5 |-> Counted(tickers, k)], [k \in 1..5 |-> Over(tickers, k)])

\* run_harness, in this process.
Serial(tickers) == Violations(tickers) = {} /\ NoLookahead(tickers \cap bars)

\* merge_chunks: the counts of the chunks are added up and judged once.
Merge(chunks) ==
  LET sum(Op(_)) == MapThenSumSet(LAMBDA i : Op(ToSet(chunks[i])), DOMAIN chunks)
  IN Verdict([k \in 1..5 |-> sum(LAMBDA c : Counted(c, k))],
             [k \in 1..5 |-> sum(LAMBDA c : Over(c, k))])

\* _run_harness_parallel: the chunks are those of the tickers that have bars.
Parallel(tickers, size) ==
  LET chunks == Chunked(SelectSeq(Tickers, LAMBDA t : t \in tickers \cap bars), size)
  IN /\ \A i \in DOMAIN chunks : Violations(ToSet(chunks[i])) = {}
     /\ Merge(chunks)

\* With one worker, or no bars at all, the serial path. What is asked is asked
\* of the rows of this run.
Harness(tickers, size) ==
  IF size = 0 \/ tickers \cap bars = {} THEN Serial(tickers) ELSE Parallel(tickers, size)

-----------------------------------------------------------------------------
(* The commands. *)

\* `cscan backtest`, with or without --tickers: every row it writes is checked,
\* a failed ticker or a failed check makes the run a failed one, and the note
\* says how the harness went.
StartAll(tickers) ==
  /\ command = Idle /\ commands < MaxCommands
  /\ command' = [Idle EXCEPT !.name = "backtest", !.run = tickers,
                             !.full = tickers = Universe]
  /\ commands' = commands + 1
  /\ UNCHANGED <<data, rows, ledger>>

CloseAll ==
  /\ command.name = "backtest" /\ command.written
  /\ LET mine == fires \cap (command.run \ command.failed)
     IN \E size \in ChunkSizes \cup {0} :
          ledger' = ledger \cup
            {Entry("backtest", Base,
                   IF command.failed = {} /\ (mine = {} \/ Harness(mine, size))
                     THEN "ok" ELSE "failed",
                   TRUE, command.full, 0, 0)}
  /\ command' = Idle
  /\ UNCHANGED <<data, rows, commands>>

\* _prior_clean_default_run_exists.
Gate ==
  \E e \in ledger : /\ e.job = "backtest" /\ e.config = Base /\ e.status = "ok"
                    /\ ~e.notes /\ e.full

\* _sweep_config_already_done.
Swept(config) ==
  \E e \in ledger : /\ e.job = "backtest_sweep" /\ e.config = config /\ e.status = "ok"
                    /\ ~e.notes /\ e.full

\* `cscan backtest --sweep`: the members in their order, those already done
\* skipped.
StartSweep(tickers) ==
  /\ command = Idle /\ commands < MaxCommands /\ Gate
  /\ command' = [Idle EXCEPT !.name = "backtest_sweep", !.todo = Members,
                             !.full = tickers = Universe, !.tickers = tickers]
  /\ commands' = commands + 1
  /\ UNCHANGED <<data, rows, ledger>>

NextMember ==
  /\ command.name = "backtest_sweep" /\ command.run = {}
  /\ command' =
       IF command.todo = <<>> THEN Idle
       ELSE IF Swept(Head(command.todo)) THEN [command EXCEPT !.todo = Tail(@)]
       ELSE Opened(command, Head(command.todo), command.tickers)
  /\ UNCHANGED <<data, rows, ledger, commands>>

CloseMember ==
  /\ command.name = "backtest_sweep" /\ command.written
  /\ ledger' = ledger \cup {Entry("backtest_sweep", command.config, "ok",
                                  command.failed # {}, command.full, 0, 0)}
  /\ command' = [Opened(command, Base, {}) EXCEPT !.todo = Tail(@)]
  /\ UNCHANGED <<data, rows, commands>>

\* `cscan backtest --phase compute`: each chunk a run of its own, never of the
\* whole universe; _chunk_already_done asks for a closed row of the chunk.
ChunkDone(i, of) ==
  \E e \in ledger : /\ e.job = "backtest_compute" /\ e.config = Base /\ e.status = "ok"
                    /\ e.chunk = i /\ e.of = of

StartCompute(size) ==
  /\ command = Idle /\ commands < MaxCommands
  /\ command' = [Idle EXCEPT !.name = "backtest_compute", !.todo = Chunked(Tickers, size),
                             !.of = Len(Chunked(Tickers, size))]
  /\ commands' = commands + 1
  /\ UNCHANGED <<data, rows, ledger>>

NextChunk ==
  /\ command.name = "backtest_compute" /\ command.run = {}
  /\ command' =
       IF command.chunk = command.of THEN Idle
       ELSE IF ChunkDone(command.chunk + 1, command.of) THEN [command EXCEPT !.chunk = @ + 1]
       ELSE [Opened(command, Base, ToSet(command.todo[command.chunk + 1]))
               EXCEPT !.chunk = @ + 1]
  /\ UNCHANGED <<data, rows, ledger, commands>>

CloseChunk ==
  /\ command.name = "backtest_compute" /\ command.written
  /\ ledger' = ledger \cup {Entry("backtest_compute", Base, "ok", command.failed # {},
                                  FALSE, command.chunk, command.of)}
  /\ command' = Opened(command, Base, {})
  /\ UNCHANGED <<data, rows, commands>>

\* `cscan backtest --phase finalize`: one statement over the rows on file.
Finalize ==
  /\ command = Idle /\ commands < MaxCommands
  /\ LET there == {t \in Universe : rows[Base][t] # Absent}
     IN rows' = [rows EXCEPT ![Base] = [t \in Universe |->
                   IF t \in there THEN Cardinality(there) ELSE Absent]]
  /\ commands' = commands + 1
  /\ UNCHANGED <<data, ledger, command>>

\* Ctrl-C, a kill or a lost connection, at any point of a command.
Interrupt ==
  /\ command # Idle
  /\ command' = Idle
  /\ UNCHANGED <<data, rows, ledger, commands>>

\* The nightly's scan writes a row of the default configuration.
Scan(t) ==
  /\ t \in fires /\ rows[Base][t] = Absent
  /\ rows' = [rows EXCEPT ![Base][t] = Null]
  /\ UNCHANGED <<data, ledger, command, commands>>

\* A ledger from before 2026-08-18 may hold a clean run without a note.
Init ==
  /\ \E w \in Worlds :
       fires = w.fires /\ bars = w.bars /\ flaws = w.flaws /\ profile = w.profile
  /\ rows = [c \in Configs |-> [t \in Universe |-> Absent]]
  /\ ledger \in {{}, {Entry("backtest", Base, "ok", FALSE, TRUE, 0, 0)}}
  /\ command = Idle /\ commands = 0

Next ==
  \/ \E tickers \in SUBSET Universe \ {{}} : StartAll(tickers) \/ StartSweep(tickers)
  \/ \E size \in ChunkSizes : StartCompute(size)
  \/ RunBacktest \/ EveryWorkerRaises \/ CloseAll
  \/ NextMember \/ CloseMember \/ NextChunk \/ CloseChunk
  \/ Finalize \/ Interrupt
  \/ \E t \in Universe : Scan(t)

Spec == Init /\ [][Next]_vars

-----------------------------------------------------------------------------

Whole(config) == \A t \in fires : rows[config][t] = Cardinality(fires)

\* A configuration the sweep will skip was written whole: every ticker that
\* fires has its row and every row the count of the whole universe, whatever
\* was interrupted, failed or was run on a few tickers before and after
\* (_sweep_config_already_done: "either it lands whole or not at all").
SweptIsWhole == \A c \in ToSet(Members) : Swept(c) => Whole(c)

\* Counts of the whole universe are only lost to a run of the whole universe in
\* which a ticker failed, never to a run on a few tickers, a chunk, an early
\* finalize or an interrupt (run_backtest's full_universe).
CountsStayWhole ==
  \A c \in Configs :
    Whole(c) => Whole(c)' \/ (command'.full /\ command'.failed # {})

\* A default run is closed 'ok' only after the whole universe was written and
\* checked: no failed ticker, whole counts, nothing found in the row of a ticker
\* with bars, and the look-ahead test passed on all of them together, however
\* many workers shared the checks (backtest, run_harness, merge_chunks).
OkMeansChecked ==
  (\E e \in ledger' \ ledger : e.job = "backtest" /\ e.status = "ok") =>
    LET mine == fires \cap command.run
    IN /\ command.failed = {}
       /\ \A t \in mine \cap bars : flaws[t] = {}
       /\ mine \cap bars = {} \/ NoLookahead(mine \cap bars)
       /\ command.full => Whole(Base)

\* Once a run of the whole universe is on the ledger with nothing failed, the
\* sweep is allowed (cli.py: "Run `cscan backtest` first, confirm the harness
\* passes, hand-inspect ~20 events, then retry --sweep").
SweepIsAllowed ==
  (\E e \in ledger : e.job = "backtest" /\ e.config = Base /\ e.status = "ok" /\ e.full) => Gate
=============================================================================
