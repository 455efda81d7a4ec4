# twitterInvestor in TLA+

The bot of this repository follows one X account, turns its tweets into trade
signals and places the orders at Robinhood for one or several accounts. This
directory specifies that system in TLA+: state machines of its parts, configurations
under which TLC checks them, and proofs that TLAPS checks.

Paths such as `services/worker.py` are relative to `src/app/`; `docs/` and `README.md:n`
are those of the repository.

## 1. The system

One process runs a FastAPI application (`main.py`). On its event loop lives one task, the
worker; API requests run beside it, and blocking calls (broker, browser, webhooks) run in
threads. The backfill command and the labelling scripts, processes of their own, share the SQLite
database, and the login command shares the file that keeps the age of the login.

    X profile page --> IngestionService --> tweets
                            |  (new tweets, committed)
                            v
                       parser --> signals --> for each enabled AccountManager:
                                                RiskManager (reads parsed_signals, trades)
                                                RobinhoodBroker --> RobinhoodSession --> Robinhood
                                                trades row, refresh of its status
    worker loop: iteration, maintenance (login-age alert, snapshots, digest), sleep
    API: pause, resume, refresh a trade, digests, re-authentication, review queue

| Component | State | Operations | What makes it correct |
|---|---|---|---|
| Trading loop (`services/worker.py`, `account_manager.py`, `risk/risk_manager.py`) | `tweets`, `parsed_signals`, `trades` tables; pauses in memory | poll, gate, order, record, pause, resume | a signal is ordered at most once per account; limits hold; every order leaves a trace |
| Start-up repair (`db/manager_repair.py`) | manager ids of rows | reassignment at every start | rows stay joined, limits are not evaded |
| Robinhood session (`execution/robinhood_session.py`) | session state, re-auth state, token file | ensure, log in, back off, re-authenticate | one re-authentication at a time, cooldowns, the token survives |
| Ingestion and backfill (`ingestion/`) | `tweets` | poll, backfill | each tweet is handed to the loop once; none vanishes |
| Position and trade status (`risk/sell_sizing.py`, `services/trade_status.py`, `portfolio/ledger.py`) | orders, `trades` rows, shares | size, size again, place, refresh, add up | rows end up true; trims stop at their target; the ledger agrees with the account |
| Worker maintenance and digest (`services/daily_digest.py`) | `daily_digests` | rebuild, announce, finalize, the API's own | the day is finalized in full, announced once |
| Parsing and classification (`parsing/`) | a trained model, read only | segment, score, classify, gate | one signal per ticker; without a header no trade from weak evidence; each ticker by its own words when the words differ |
| Review queue and labels (`api/routes.py`, `scripts/`) | flags of rows, `tweet_labels`, the training file | list, label, undo, review, copy to training | nothing uncertain drops out unlabelled; only committed labels are taught |
| Watchlist, recognized tickers (`services/watchlist.py`, `services/recognized_tickers.py`) | two small tables | watch, prune, register | interest adds up to a cap and goes only when stale; what was traded is recognized |
| Login age and alerts (`execution/robinhood_auth_age.py`, `services/alerts.py`) | meta file beside the token, alert times | record, seed, compute, alert, mark | the age is never understated; a login that runs out is announced |
| Buy sizing (`risk/portfolio_sizing.py`) | none | amount from cash, sleeve, multipliers | never above cash less the buffer; stated percentages are exact |
| History, P&L, quotes, API views, CLI, scripts, settings, migrations, logging | derived | reporting | - |

What is hard here:

* **Crashes and half-done work.** Tweets are committed before they are acted on, signals before
  the order, the trade row after it. An exception anywhere drops the rest of the batch.
* **Awaits.** Pause, position, price and daily limit are read before awaits and used after them.
* **Threads that outlive their callers.** A login that timed out, or a broker that accepted an
  order whose call raised, comes back later.
* **Two writers on one row or file.** Refreshes of a trade overlap; the API and the loop both write a digest;
  the bot and the backfill both insert tweets; four threads of control rewrite the login's meta file without a lock;
  rows of several managers share the labels of one signal.
* **Time.** Trading days, cooldowns at their boundary, checkpoints, login back-off.
* **Restarts that rewrite.** The repair moves rows between the managers that limits are counted by.

## 2. Modules

| Module | Models | Source |
|---|---|---|
| `SignalFate` | abstract: one signal for one account is taken up once, then ordered or closed for good | (a promise, no code) |
| `TradeBot` | worker, managers, gate, order, record, pauses, crash, restart with repair, broker | `worker.py`, `account_manager.py`, `risk_manager.py`, `robinhood_broker.py`, `manager_repair.py`, `trade_recorder.py` |
| `TradeBotProofs` | theorems about `TradeBot`: calls and refinement; rows, limits and pauses | |
| `Parser`, `SignalProofs` | a tweet to its signals; theorems, shared with `ReviewQueue` | `hybrid_signal_parser.py`, `signal_parser.py`, `signal_segments.py`, `buy_intent.py`, `sell_intent.py`, `watch_conviction.py`, `ml_action_classifier.py` |
| `BuySizing` | what a buy may cost, as operators on naturals | `portfolio_sizing.py`, `watch_conviction.py` |
| `Watchlist`, `WatchlistProofs` | watch interest, sized buys, recognized tickers; theorems | `watchlist.py`, `recognized_tickers.py`, `risk_manager.py`, `account_manager.py` |
| `RobinhoodSession`, `RobinhoodSessionProofs` | callers, login threads, re-authentication jobs, token file; theorems | `robinhood_session.py` |
| `Ingestion`, `IngestionProofs` | profile page, poll, backfill, the unique index and write lock of SQLite; theorems | `ingestion/service.py`, `ingestion/clients.py` |
| `SellSizing` | sell quantity, cap and target fraction, as operators on naturals | `sell_sizing.py`, `account_manager.py` |
| `Position`, `PositionProofs` | one ticker in one account: sizing, placing, fills, refreshes, ledger; theorems | `account_manager.py`, `trade_status.py`, `order_details.py`, `ledger.py` |
| `Maintenance`, `MaintenanceProofs` | the loop around its iterations, checkpoints, the digest and its API; theorems | `worker.py`, `daily_digest.py`, `routes.py` |
| `LoginAge`, `LoginAgeProofs` | the meta file of the login, its readers and writers step by step, the worker's alert; theorems | `robinhood_auth_age.py`, `worker.py`, `robinhood_session.py`, `rh_login.py`, `routes.py` |
| `ReviewQueue`, `SignalProofs` | flagged rows, labels, the queue of the dashboard, the scripts that label and copy; theorems | `routes.py`, `ingest_labels.py`, `retrain_from_labels.py`, `training_examples.py` |
| `MC*` | instances for TLC | |

`TradeBot` refines `SignalFate` (`F == INSTANCE SignalFate WITH fate <- Fate`); `Position`
extends `SellSizing`, and `Watchlist` extends `BuySizing`. `Parser` yields what `TradeBot` takes as the constant
`SignalsOf`: `EveryTickerAnswered` is the assumption `TradeBot` makes of it (one signal per ticker of a tweet). A step of a module is what the code does between two awaits (or, in
`RobinhoodSession`, under the lock): within it nothing else on the event loop can run.

### TradeBot

A call `<<t, k, m>>` is signal `k` of tweet `t` for manager `m`. `todo` is what is left of the
loops of `_process_iteration`, in its order (`Before`); `cur` is the call being made and `pc`
the await it is at: `fetching` (cash or holding), `resizing` (second look at a position),
`ready` (quote, session), `waiting` (the order call), `recording` (the row); `held` says that a login
under the await waits for its approval. `Evaluate` is the gate
with the commit of the signal's row, which the code makes without an await between them. `sent`,
`wire` and `accepted` are the outside world: what left the process, what the broker has yet to
decide, what it took. The broker may decide after the process gave up or died. Quantities
are abstracted to whether an order could be sized; `Position` has them. A worker paused as a
whole does not poll; a paused manager skips its calls, which leaves no row.

`Restart` runs `repair_manager_ids` with any non-empty set of managers that resolved their account
numbers; with none, the repair is skipped.

### RobinhoodSession

`ensure_session` is `AnswerAtOnce`, `Validate` or `BeginLogin`; `rh.login` is `LoginReturns`, any
time later, and its outcome is written under the lock by `LoginSucceeds` or `LoginFails`. A
re-authentication job runs through `created`, `putaside`, `joining`, then `dropping` or
`restoring`/`moving`, and its login thread `j` lives on when the join times out. `backup` is the name a job gave to
the file it moved the token to, the second it did so, and `aside` what the files of these names hold: two jobs of one second
share a file. Each move or deletion may fail; a job that could not put its backup back is `stuck`. Failures are counted to a
bound: beyond four the back-off no longer grows.

### Ingestion

`Recent` is what `fetch_recent_tweets` returns: the page, ascending, cut at the limit.
`_persist_payloads` is `LookUp`, `Insert` (which takes the write lock and holds it to the commit)
or `InsertFails`, `Commit`, and for the poll `Return`, which hands its rows to the loop; a crash may come between the two.
`Fails` is any other error of a statement, with the rollback, and `Interrupt` ends the backfill command. The page shows the newest
`PageSize` tweets. A fetch that fails, and a loop that does not poll, change nothing and are stutters.

### Position

Quantities are whole numbers (the millionth share that the code rounds down to), fractions are
pairs. `Resize` is `_resolve_live_sell_order`. A refresh is `Load`, `Answer` or `NoAnswer`, and
`Apply`, which writes only the fields that changed since it loaded the row, as the ORM does.
The broker promises a share to one sell only: `free` are the shares no open sell is to take, and a sell of more
is refused (`Accepts`; `tests/test_order_details.py` quotes the answer, "Not enough shares to sell."). A sell is sized
again a moment before it is placed, and from a position that may not yet show what an open sell will take, so
the process does ask for more than is free. Fractions above one are cut to one (`Clamped`), though the parser names none.
The answer to an order may already say that it is filled, or refused: then the row is written with that end and is not
refreshed; only an open order is (`Placed`). A `failed` row of a sell that could not be sized a second time is left out: it carries no order and the ledger
does not count it. Simulated orders are in `TradeBot` only.

### Maintenance

`loop` tells a running task from one that died of an exception; `guarded` says whether the
pass is inside the `try` of `_run_loop` (an iteration is, the maintenance of a paused loop is not).
The content of a digest is abstracted to `upto`, the number of checkpoints that were past when it was
rebuilt; at a date to come there is nothing to cover. A finalize is two commits, a forced rebuild (`FinalizeBegun`,
which shows the digest in progress if the day is not over) and its completion (`FinalizeEnded`), of the loop (`RunCheckpoint`, `Complete`) and of the operator
(`BeginFinalize`, `EndFinalize`), who works through the API or, from a process of its own that may end in between
(`FinalizeBreaksOff`), through `cli/daily_summary.py`. A rebuild is one transaction and one step. `held` is a login inside an iteration
or a snapshot, which may never return. A `Raise` outside the `try`, or in the alert about one inside it, ends the task.
The cooldown of `AlertService` is left out (its keys are per day and checkpoint).

### Parser

A text is the set of phrases the patterns find in it, and constants say what a phrase does: which keywords
it scores, whether it affirms a trade, comments on the market, is hypothetical, reduces a weight, or
expresses watch interest. The control is that of `HybridSignalParser`: `Segments` (one per ticker, its first
mention), `Mixed` and `SharedAction` (one verb for all tickers), `Forced` (under a Trade header), `Classified`
(clear keywords, then the model, then weak keywords, then watch interest), `Gate` (the floor for
trades without a header). A model is a member of `Models`, the set of its guesses, and makes the same guess of the same text; under a header
the better of BUY and SELL is asked for, and a model trained without either answers as it does without a header (`Predictions`), so that
`_force_trade_segment`, whose comment says "never IGNORE/WATCH", may then ignore the ticker. The run has a model of either kind.
Left out: the regular expressions themselves, the 480 characters a snippet is cut to, the sell
fraction, target weight and conviction that a signal carries, training.

### Watchlist and BuySizing

Money is counted in the smallest part the factors of the code produce, so that the arithmetic is exact on
naturals; what the code rounds is rounded too (`Nearest`): the amount to cents after it passed the minimum
(`risk_manager.py:227`), and, each for itself, quantity and limit price of the order (`LimitBuys`). Half-way between
two either may come out, since floats decide it. `round_price` is a library's: an ask comes with the tick it rounds to. `BeginBatch` prunes, as an iteration that found tweets does; `RecordWatch` writes the signal's row and the entry
in one commit, and `SizeBuy`, `RecordTrade`, `Register` are the buy of one call, whose last two steps are
commits of their own. Between them the process may crash, or the refresh of the status, the alert or the second commit
may raise, and then the loop drops the batch (`CallFails`). An order carries the cash, multiplier and date of interest it was
sized with. Known tickers, which the parser uses for tweets without cashtags, are not read back.

### LoginAge

`meta` is `robinhood_auth_meta.json`: the last login and the last status that was alerted. `write_auth_meta` is
three steps of its caller: `ReadMeta`, `OpenMeta` (`write_text` truncates, and an empty file reads like one
without entries) and `CloseMeta`. The callers are a login thread of the bot, the login command, the worker and
API requests; the last two share the event loop (`MayStep`: a request runs to its end while the worker awaits its
webhook). What is closed goes to the front of the file (`Written`): if another actor has written since the file was last emptied
(`filled`), the rest of a longer text may stay, and the file reads like one without entries. `Resolve` and `Seed` are
`resolve_last_authenticated_at` and the seed from the token's time, `Decide` is
`should_alert_auth_status` on the age just computed, `Posted` the end of the webhook, whatever it answered. `Fails` is an exception
at any of these steps, of the webhook, of a read or of a write: it ends the pass without a mark (`worker.py:282`), the login, the
request or the command; a file that was open stays empty. `recorded`, `told`,
`calm` and `warned` are history: the last login whose recording was completed, what was alerted and marked
since, whether since then a rewrite was broken off or accesses overlapped, and whether the worker has completed a pass in its
warning period.
Time is counted in days. A day ends when nothing is half written; it may end without a pass, since the loop may be held by a
login, dead or down. Moves of the token by a re-authentication are in `RobinhoodSession`, not here.

### ReviewQueue

A subject is a tweet and a ticker; `Arrivals` says which rows come for it, one per manager. `row` is the flag
`needs_review`, `labels` the `tweet_labels` of a subject. Every request is one step, since nothing awaits in it;
a script commits in one step (`Ingest`) and appends to the training file in another (`AppendExamples`), and may be `Killed` between. A kill in the middle of the append
(`KilledAppending`) leaves some lines and perhaps a part of one (`torn`); from then on the file is refused whenever it is loaded, so
neither script adds anything. A last line that lacks only its end counts as torn, since the next one spoils it.
`Queue` is the query of the dashboard with its bound of three times the limit. The flag comes from `_force_trade_segment`, which
needs a ticker, so a subject has one; a tweet without cashtags gives a single row and is a subject of its own.

## 3. What TLC checks

`cfg` files are `<module>_<run>.cfg`. Every passing run explores its whole state space.

| Run | Bounds | Shows |
|---|---|---|
| `crash` | 2 managers, 2 tweets that buy one ticker, one clock value, any pauses and resumes, 1 crash | `OneOrderPerSignal`, `OrderLeavesTrace`, `TradeHasAllowedSignal`, `PauseStopsAllButOne`; `AtMostOnce`, i.e. the refinement of `SignalFate`; `CallsSettle` under fairness |
| `gates` | 1 enabled manager of 2, 3 tweets (buy; sell with a foreign and an ignored symbol; buy), simulated and counted, 5 clock units over 2 days, the market closed at the last, 1 restart | `DailyLimitByAccount`, `CooldownByAccount`, `DuplicateWindow` at their boundaries |
| `session` | 1 caller, 2 jobs, 2 clock values | `OneJobAwaits`, `LoggedInMeansClean`, `TokenKept`; `ReauthSettles` under fairness |
| `ingest` | 4 tweets (one filtered), a page of 3 cut at 2, 2 backfills, 1 crash, 1 fault | `HandedOnce`, `NothingStoredSilently`; `StoredOrGone` under fairness |
| `digest` | a weekday and a weekend day, 2 checkpoints, the second announced, 1 crash, 1 exception | `FinalCoversDay`, `AnnouncedOnce`, `CompleteKept`; `EveningFinalizes` under fairness |
| `position` | 3 orders, buys of one share, 2 prices, 2 targets, a half and a full sell, 1 API refresh beside the worker's | `TypeOK`, `TerminalIsTrue`, `TrimStopsAtTarget`, `LedgerAgrees`, `FillKept` |
| `parser` | 12 phrases, one of each kind told apart; up to 2 mentions of 2 tickers with up to 3 phrases; any answer of a model of 6 guesses and of one without BUY or SELL | `NonHeaderFloor`, `TradesHaveIntent`, `EveryTickerAnswered`, `MixedStandAlone` |
| `watch` | 2 managers, 1 ticker, soft and heavy watches (3 at most), 3 buys at both ends of confidence, 2 amounts of cash, one not in whole cents, 2 asks, one half-way between cents, 3 days with interest stale after 1, 2 batches, 1 crash, 1 exception | `WithinCash`, `FreshInterest`, `TradedIsRecognized`, `InterestKept` |
| `age` | a login good for 2 days and warned about for 1, 5 days with or without a pass, 2 logins by the bot or the command, 1 exception, crash or kill | `NeverYounger`, `LostOnlyByOverlap`; `AlertedOnce`, `CriticalAnnounced` as action properties |
| `review` | 1 tweet about 2 tickers, 2 managers (4 rows), a queue of 1, labels BUY by the dashboard and IGNORE by the review, kills of the scripts between and in their steps | `NothingForgotten`, `ClearMeansDone`, `TaughtWasLabelled` |

Why these bounds are enough to be interesting: two calls for the same ticker are what limits,
cooldowns and at-most-once are about, and a crash can fall between any two steps of either; a third
tweet adds a sell between two buys. Two jobs are what single-flight and the restored token are about.
A page as long as the limit, with more tweets than it holds, lets tweets scroll away.
Two buys and a sell of both shares, or a buy and two sells of the one share, filled in part, refused or cancelled, with
overlapping refreshes, are what the rows, the ledger and the account can disagree about.
Two mentions are what a shared verb, a contradiction and a repetition need, and a keyword, a verb, a
hypothetical and a tier of either side are all that decides about a text. A watch, a day and a second batch
are what makes interest stale; two managers show that neither table is shared between accounts. In `crash` the clock
stands still, so the second buy of an account is made only where the first left no trade row (paused, refused,
lost to the crash); `gates` has the clock. Five days hold a full life of a login, its renewal and the warning
period of the next one, which the mark of the first may silence. Four rows with a queue of one let labelled leftovers
fill what the query reads.
Each property comes with a mutant of a modelled operation (the operators
whose comment begins with "Mutant:") under which the same run finds it violated.

Disagreements between the code and what the repository says of it, each shown by a run that
finds the quoted statement violated:

| Run | Statement | What the code does |
|---|---|---|
| `resume` | docs/VPS.md:905, resume a paused worker | an exception in the maintenance of a paused loop is outside the `try` and ends the task; resuming changes nothing |
| `sellcap` | README.md:358, explicit sells are capped only by the shares owned | the second sizing applies the fallback cap to every trim |

Noted while reading, not runs:

* A pause lets the one call past its check still send its order (README.md:395 says "immediately";
  `PauseStopsAllButOne` is the exact bound); signals dropped by a pause leave no row (README.md:181).
* The daily limit (README.md:397, "one per ticker per US day") counts rows of `trades`; an order whose row
  was lost to a crash does not count. `DailyLimitByAccount` is about rows for that reason.
* A 429 is to be waited out (docs/VPS.md:455); a plain failure of a login that began before the 429
  overwrites the longer back-off (`robinhood_session.py:178`). Logins are not single-flight either
  (`robinhood_session.py:72` calls the lock a guard; it is not held across `rh.login`).
* A backup is named by the second (`robinhood_session.py:262`). If one re-authentication ends and the next puts the new token
  aside in the same second, the first then deletes it under the name it takes for its own, and no token is left.
  `TokenKept` has "no two names are equal" as its premise; TLC finds this loss without it.
* "Fetch most recent tweets" (`ingestion/clients.py:53`): the cut at the limit keeps the oldest of the page.
* A refresh that began earlier may put a stale non-terminal state over a terminal one
  (`TerminalIsTrue` is one-directional for that reason).
* A WATCH predicted by the model has no tier; `record_watch` rejects it as invalid and leaves no row.
* A verb that several tickers share trades without the check of intent a single ticker gets, above the floor.
* A ticker mentioned twice is judged by the text of its first mention only.
* The last watch signal sets the tier: a softer one after a heavier one lowers the multiplier while the score grows.
* "mixed Trade alerts (add + trim) keep per-segment local text" (`hybrid_signal_parser.py:83`; README.md:15: "add INTC + META, trim
  ADEA in one post"): a segment with as many words of buying as of selling has no keyword action, so
  `_has_mixed_segment_keyword_actions` does not see it contradict the others; SELL then governs every ticker, the one that is
  only added as well (`Mixed`, `StructureFirst`). `MixedStandAlone` is what the code keeps.
* The mark of a login alert is never reset: when a login is renewed inside its warning period, the warning
  about the next one is silent (docs/VPS.md:908 has webhook alerts "once per status"); `CriticalAnnounced`
  is what remains: no pass keeps silent about a login run out that an earlier one found in its warning period; if none did (the loop was held, dead or down on
  those days), the mark of a former login may silence it (TLC finds this without `warned`). With `ROBINHOOD_PICKLE_WARN_DAYS=0` the second login that runs
  out is silent altogether. The mark is set whether or not anything was sent (`worker.py:281`);
  an exception of the webhook that `alerts.py:102` does not catch, or of the write of the mark, leaves none, and the next pass alerts again:
  "once per status" is true of alerts whose mark was written (`AlertedOnce`).
* The age counts every successful login, also one with the stored token, not the approval on the device (docs/VPS.md:433).
* "Persist last successful Robinhood authentication time" (`robinhood_auth_age.py:66`): an overlapping
  rewrite, a write that fails or a crash loses it until the next login; `NeverYounger` says that the age is then overstated, never understated.
* "Queue clear" on the dashboard (`dashboard.html:532`) is shown as well when three times the limit of newer
  leftovers, flagged rows of other managers whose subject has its label, hide an open one.
* A line of the training file that an interrupted append left cut off makes every load raise (`training_examples.py:34`): of both
  scripts, and of the classifier when it is next fitted. Nothing in the code mends it.
* Taking a label back leaves its example in the training file, so training may later hold both answers for one text.
* `rh_login --list-accounts` passes `force` by position to `ensure_session`, which takes it by keyword only (`cli/rh_login.py:24`).
* `export_feedback --apply` looks for the end of a literal that is no longer in `training_examples.py`, and raises (`cli/export_feedback.py:71`).
* The one-day chart promises the "active or last trading day" but reads the snapshots of the last 24 hours only.

### Fairness

* `TradeBot`: weak fairness of the worker's steps together, none of which is enabled while `held`. The event loop
  schedules the task, but what it awaits goes through `ensure_session`, whose `rh.login` waits for an approval on the phone
  without a time limit (`robinhood_session.py:165`). So `CallsSettle` names that login as the only other way out. Logins,
  operator, broker, clock, crash and restart owe nothing.
* `RobinhoodSession`: weak fairness of each job's own thread, whose join has a time-out. Logins owe nothing.
* `Ingestion`: a process that has begun to store goes on, since nothing in `_persist_payloads` awaits. Polls owe nothing (the loop
  may be paused, dead or held up, the page may not load): `StoredOrGone` has "polls go on" as its premise.
* `Maintenance`: weak fairness of the loop's steps together. Those that await a login are not enabled while it is `held`, and
  a login owes nothing (the snapshots log in too, `worker.py:220`). `Tick` waits until one pass has seen the checkpoints that
  are past, since these are hours apart and a pass takes seconds; it does not wait for a loop that died, is down or is held.
* `LoginAge`, `ReviewQueue`, `Position`, `Parser`, `Watchlist` check safety only; no pass of the worker is assumed.

## 4. What is proved

`TradeBotProofs`, for every number of managers and tweets, every parser outcome, every setting, clock
and number of crashes, from the named assumptions of `TradeBot` (sizes are naturals, days do not run
backwards, one signal per ticker in a tweet):

* `TypeCorrect`: `Spec => []TypeOK`. `TypeOK` ties `cur` and `result` to the program point. The
  part that needs work is the repair, which rebuilds both tables (`RepairTypes`).
* `OnceProved`: `Spec => []OneOrderPerSignal`. The property is not inductive: nothing in it says that a call still in
  `todo` has not been ordered. `OnceInv` adds that calls under way are of tweets committed as seen (`WorkSeen`),
  ordered ones too (`OrdersSeen`), an idle or dead worker has none (`IdleHasNone`), the current call is out of
  `todo` (`CurIsOut`), no call in `todo` and no current call before its submit has been ordered (`NotYetSent`), and
  no call was ordered twice (`SentOnce`). A poll takes up unseen tweets, so `OrdersSeen` gives `NotYetSent`;
  a submit moves past `ready`. `CallsDiffer` brings this to tickers: one signal per ticker of a tweet.
* `Refinement`: `Spec => AtMostOnce`. A poll is `TakeUp`, a submit is `Order`, and every other step
  closes some calls or changes no fate (`FateCloses`).

The second half of the module, about rows and pauses, from the same assumptions:

* `PauseProved`: `PauseInv` says that once an order has gone out after a command, the manager of
  the current call is not a paused one before its submit; a call begins past its pause check.
* `TraceProved`, `JoinProved`: a call past the gate owns a signal row nobody has claimed (`CallLinked`); the record claims
  it, and the repair moves a signal together with its trade.
* `DailyLimitProved`, `CooldownProved`: the properties are about accounts, the gate counts by manager. `OwnAccount` (a
  row with an account number is under the manager of that account, through every repair) joins the two.
  What the gate found stays true until the row is written (`CallCool`, `CallRoom`): no other row comes, time only moves on,
  and a new day starts without rows (`RowsPast`).
* `DuplicateProved`: the row that passed is the newest when the window is read; until the first restart.

`SignalProofs`, about `Parser` for every vocabulary, threshold, model and tweet of any length:

* `FloorProved` (`NonHeaderFloor`), `IntentProved` (`TradesHaveIntent`): whatever leaves the gate as a trade is the
  signal that entered it, not below the floor, and watch interest trades nothing; one case per source of a
  signal (shared verb, clear keywords, model, weak keywords, bare ticker).
* `ParserTypes` (`TypeOK`): only watch signals have a tier, and its confidence; without a header nothing asks for
  review and nothing is known of what is ignored.
* `TickersAnswered` (`EveryTickerAnswered`), which is what `TradeBot` assumes of its signals. `Segments` folds over the
  mentions, and a fold is defined through a recursion that has to be shown to have a solution: `FoldExists` builds it
  mention by mention, `FoldGathers` says that the fold joins the mentions one by one, and `GatheredOnce` that
  after any number of them there is one segment for each ticker so far.
* `MixedAreAlone` (`MixedStandAlone`): without a shared verb a signal depends on its own segment only, and the segment
  alone in a tweet has no neighbour to share one with (`AloneIsTheSame`).

The second half of the module, about `ReviewQueue` for all tweets, arrivals, offers of labels and limits:

* `ReviewTypes` (`QueueTypeOK`), `TaughtProved` (`TaughtWasLabelled`: what a script holds was committed).
* `ForgottenProved` (`NothingForgotten`): rows that have not arrived are not there, so the next row displaces no flag.
* `ClearProved` (`ClearMeansDone`): if the queue is empty, the last open row lies beyond those read, and by `NewestCount` the rows after it are at least
  three times the limit, all leftovers.

`PositionProofs`, for any number of orders, shares, refreshes and API requests, any prices, fractions and targets, and any
sleeve, cap and minimum:

* `PositionTypes` (`TypeOK`): the account is never oversold and no order overfilled. That needs to know how the account and
  the orders hang together. `Booked`: the free shares are the sum over the orders of what was bought less what sells took
  or hold (`Gain`), and the shares are those plus what live sells may still take (`Rest`). `Sums` states the
  sum by its partial sums, all of them naturals, so no prefix of the orders sells what was not there; fills,
  cancellations and new orders change one term (`SumsExcept`) or add one (`SumsAppend`).
* `TerminalRowsAreTrue` (`TerminalIsTrue`): `ReadsTrue` says of every refresh under way that what it loaded or was answered,
  if it is an end, is still the end of its order, since an order that is over stays what it is (`Keeps`). It is
  this that makes late and overlapping answers harmless. `FillsAreKept` (`FillKept`): the write adds a fill and takes none away.
* `TrimsStopAtTheirTarget` (`TrimStopsAtTarget`): `Aimed` says that the fraction was computed for this position while the worker
  believes that it is the same, `Sized` that the quantity is within the fraction; `TargetLeft` is the arithmetic of
  two roundings. `SellsFitThePosition`: no sell is of more than the position it was sized from, which
  is what the comment at `risk/sell_sizing.py:66` says. It follows from `Sized` and `PartFits`, and no run repeats it.
* `LedgerHoldsTheShares` (`LedgerAgrees`): `SharesHeld` is a recursive function; `LedgerExists` and `LedgerIsUnique` show that its recursion
  has a solution (`HeldIsRecursive`), and `LedgerIsBooked` that with every order over it is the partial sum of `Booked`,
  where its floor at zero is never reached. The attempt corrected the model: with sells taken from the same
  shares twice, which a bound of two orders hid, the ledger would not hold the shares; hence `Accepts`.

Both modules prove by induction over the naturals as over a set with zero and successors (`Induction`, from the well-foundedness of
the order of the naturals), for facts about sequences of any length.

`WatchlistProofs`, for every sleeve, setting, number of managers and tickers:

* `WatchTypes` (`TypeOK`); `SizingProved` (`WithinCash`, `InterestBounded`) from the bounds of the minimum, of the
  multiplier and of the roundings (`AmountBounds`, `MultiplierBounds`, `LimitBuyOff`). The bound is reached: without the half cent,
  TLC finds a buy that spends more than the cash less the buffer.
* `FreshProved`: `FreshInv` adds that while a batch is handled no entry is older than the window of the
  day it began. `InterestProved` from `TypeOK`, since a capped sum of naturals does not fall.
* `RecognizedProved`: the set of traded tickers that are missing grows only at a crash or an exception after the trade's commit, by one.

`LoginAgeProofs`, for every age, warning span of at least a day, and number of logins and faults:

* `LoginAgeTypes` (`TypeOK`); `YoungProved` (`NeverYounger`): every time that is read, held or written is at most the last login.
* `LostProved` (`LostOnlyByOverlap`): `FileInv` says who may hold what while nothing has overlapped: a login that is being recorded
  holds the present, the worker holds the recorded login beside its mark, a request writes nothing, and an access that is
  alone saw what was recorded (`AloneSees`). `WriterInv` adds that only one actor is then between its read and its close, with
  nothing under the file it emptied, so its text is whole (`WrittenWhole`).
* `AlertsProved` (`AlertedOnce`), `CriticalProved` (`CriticalAnnounced`): the mark is the last status told of this login, with a warning
  before it at most (`MarkInv`), or a later one whose pass is under way; a pass that began before a login was recorded does not
  count (`PassInv`); after a pass in the warning period the mark is a warning, so a mark that says critical was told
  since (`SilenceInv`), and a pass that keeps silent has read it. A pass that fails writes no mark and tells nothing, so it keeps all of them (`NeutralStep`).

`RobinhoodSessionProofs`, for any number of callers and re-authentication jobs and any cooldowns:

* `SessionTypes` (`TypeOK`); `CleanProved` (`LoggedInMeansClean`) is inductive as it stands: every write of the state is
  whole, since it is made under the lock.
* `OneJobProved` (`OneJobAwaits`): `AwaitInv` says it without counting, that two jobs that wait are one.
* `TokenProved` (`TokenKept`): the danger is a job that deletes its backup while an older one, whose login came late,
  restores. `JoinedInv`: a login that succeeded for the job waiting for it left a token, or an older job is putting one back;
  from it `DroppingInv`, a backup is deleted only while the token is elsewhere. All of it holds while the names differ
  (`NamesDiffer`, which a step can only make false): then what a step does to one file changes what one job holds (`HeldPut`, `HeldRemoved`).

`IngestionProofs`, for any number of tweets, any page, limit and filter, and any number of backfills, faults and restarts:

* `IngestTypes` (`TypeOK`), with `TransactionInv`: at most one process has uncommitted rows, and none of them is in the table; a
  batch of the bot is no longer than the limit (`OldestBound`).
* `HandedProved` (`HandedOnce`): between the commit of a poll and its return the rows are in the table and nowhere else.
  `AccountInv` says that such rows are neither handed over nor of a backfill, and `AccountSteps` keeps it: what a return
  hands over is the pending set in order, each tweet once (`SortedFacts`, from the ranks of a finite set, `RankFacts`).
* `StoredProved` (`NothingStoredSilently`): no step but a crash after a commit adds to `Silent`, and that one adds the rows of
  one batch at most (`SilentStep`).

`MaintenanceProofs`, for any days, checkpoints, webhooks, crashes and exceptions:

* `MaintenanceTypes`: `TypeOK` with `PlaceInv`, what a pass knows of the clock: without it a checkpoint that is marked might not exist.
* `FinalProved` (`FinalCoversDay`): the loop finalizes a day only when it is over (`FinalInv`), a day that is over stays so
  (`OverStep`), and whatever rebuilds such a day covers all of it (`CoverStep`), between the two commits as well.
* `AnnouncedProved` (`AnnouncedOnce`): `PostsInv` counts one post less for a checkpoint that is neither marked nor about to be.
* `CompleteProved` (`CompleteKept`): the first commit of the loop's own finalize would reopen a digest if it came on a later
  day, whose present is in progress. It does not: a checkpoint that a pass finds unmarked is of the present day (`SeenInv`,
  `RunIsTimely`), because the clock does not pass over a running loop.

Model-checked only: liveness (`CallsSettle`, `ReauthSettles`, `StoredOrGone`, `EveningFinalizes`), which is out of the
prover's reach. Every other property of a passing run is proved, and where a `TypeOK` is proved and left out of
a run, the proof is for every value of the constants.

## 5. Not modelled

* Of parsing: the regular expressions, the numbers a signal carries, the numeric model and its training. `TradeBot` takes the
  signals of a tweet as a constant and assumes what `Parser` shows.
* What floats add to the arithmetic; amounts, quantities and limits are rounded as the code rounds them. `TradeBot` keeps of
  sizes "sized or not". A simulated bot with unknown cash sizes without the cash limit; `Watchlist` has the live one, which rejects.
* Alerts as effects of a trade; known tickers of the registry as an input of the parser.
* The cooldown of `AlertService.send`; feedback on the parser and its export; weak labels from outcomes; the fit of the classifier.
* Portfolio history, snapshots, P&L, quotes, API views, scripts: reporting, or glue that amounts to a pause,
  a crash or a restart.
* Browser automation and RSS: `Page` is what they would show.
* Delivery of webhooks: a post arrives or not; the code marks it either way.

## 6. Plan

Done, in this order: trading path, session, ingestion, position, maintenance, parser, watchlist with buy sizing, login
age, review queue, each with the proofs of section 4.

Next, modelling: (1) composition of session and trading path: which calls a cooldown fails, and what a shared
session does to several managers; (2) the registry as an input of the parser: what a ticker lost to a crash costs; (3) the
cooldown of `AlertService.send`, read before the post and written after it; (4) portfolio snapshots and the pages built on them.

Next, proofs: (1) that what a row says of an end is what the ledger counts, with the shares of partly filled orders; (2)
bounds on the overstated age of a login; (3) `WithinCash` joined to the daily limit; (4) refinements:
`ReviewQueue` of a set of subjects under review, `Position` of an account that only fills change.
