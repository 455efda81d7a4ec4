----------------------------- MODULE Ingestion ------------------------------
(***************************************************************************)
(* How tweets get into the database and to the trading loop.  Two          *)
(* processes share the tweets table: the bot, which polls the profile page *)
(* and hands the tweets it inserted to the loop, and the backfill command, *)
(* which scrolls the page and only stores.  Both run _persist_payloads:    *)
(* one transaction that looks up every payload and inserts the unknown     *)
(* ones.  The database serialises writers from their first insert on, so a *)
(* look-up made before that may be stale when the insert comes.            *)
(*                                                                         *)
(* Tweets are numbered by posted_at.                                       *)
(***************************************************************************)
EXTENDS Integers, Sequences, FiniteSets, FiniteSetsExt

CONSTANTS
  NTweets,    \* tweets the account posts
  Filtered,   \* those that ignore_replies or ignore_retweets leave out
  PageSize,   \* articles the profile page shows without scrolling
  Limit,      \* fetch_limit
  MaxBackfills,  \* bound on the runs of the backfill command
  MaxCrashes,    \* bound on the restarts of the bot
  MaxFaults      \* bound on the statements that fail for reasons of their own

Tweets    == 1..NTweets
Processes == {"bot", "cli"}
NoTweet   == 0

ASSUME IngestionAssumption ==
  /\ NTweets \in Nat /\ Filtered \subseteq Tweets
  /\ PageSize \in Nat /\ Limit \in Nat
  /\ MaxBackfills \in Nat /\ MaxCrashes \in Nat /\ MaxFaults \in Nat

VARIABLES
  posted,   \* tweets 1..posted are on the timeline
  rows,     \* committed rows of the tweets table
  handed,   \* batches the poll returned to the loop, in order
  pc,       \* where each process is
  batch,    \* the payloads it fetched
  first,    \* the first payload its look-ups did not find
  pending,  \* rows it has inserted and not yet committed, or not yet returned
  byCli,    \* history: rows the backfill stored
  backfills, crashes, faults

fetchVars == <<pc, batch, first, pending>>
countVars == <<backfills, crashes, faults>>
vars == <<posted, rows, handed, fetchVars, byCli, countVars>>

Init ==
  /\ posted = 0 /\ rows = {} /\ handed = <<>>
  /\ pc = [p \in Processes |-> "idle"]
  /\ batch = [p \in Processes |-> {}] /\ pending = [p \in Processes |-> {}]
  /\ first = [p \in Processes |-> NoTweet]
  /\ byCli = {} /\ backfills = 0 /\ crashes = 0 /\ faults = 0

-----------------------------------------------------------------------------
\* The n oldest, and the n newest, of a set of tweets.
Oldest(n, S) == {t \in S : Cardinality({u \in S : u < t}) < n}
Newest(n, S) == {t \in S : Cardinality({u \in S : u > t}) < n}

Page == Newest(PageSize, 1..posted)

\* fetch_recent_tweets does not scroll, sorts what the page shows by
\* posted_at, ascending, and cuts the list off after Limit elements.
Recent == Oldest(Limit, Page)

Wanted(p) == batch[p] \ Filtered

Sorted(S) == [i \in 1..Cardinality(S) |->
                CHOOSE t \in S : Cardinality({u \in S : u < t}) = i - 1]

Post ==
  /\ posted < NTweets /\ posted' = posted + 1
  /\ UNCHANGED <<rows, handed, fetchVars, byCli, countVars>>

\* The loop polls and the page loads.  Whether and when it does is left open: a
\* fetch that fails returns no tweets, and a loop that is paused, ended or held
\* up elsewhere does not poll, none of which changes anything here.
Poll ==
  /\ pc["bot"] = "idle"
  /\ batch' = [batch EXCEPT !["bot"] = Recent]
  /\ pc' = [pc EXCEPT !["bot"] = "looking"]
  /\ UNCHANGED <<posted, rows, handed, first, pending, byCli, countVars>>

\* The backfill gets the tweets since a date, as far as it managed to scroll.
Backfill ==
  /\ pc["cli"] = "idle" /\ backfills < MaxBackfills
  /\ backfills' = backfills + 1
  /\ \E since \in 1..(posted + 1) : batch' = [batch EXCEPT !["cli"] = since..posted]
  /\ pc' = [pc EXCEPT !["cli"] = "looking"]
  /\ UNCHANGED <<posted, rows, handed, first, pending, byCli, crashes, faults>>

-----------------------------------------------------------------------------
(***************************************************************************)
(* _persist_payloads.                                                      *)
(***************************************************************************)
Done(p) ==
  /\ pc' = [pc EXCEPT ![p] = "idle"] /\ batch' = [batch EXCEPT ![p] = {}]
  /\ first' = [first EXCEPT ![p] = NoTweet]
  /\ pending' = [pending EXCEPT ![p] = {}]

\* Mutant: what is older than the newest row counts as stored.
LookUpNewer(p) ==
  /\ pc[p] = "looking"
  /\ LET new == {t \in Wanted(p) : \A r \in rows : t > r}
     IN  IF new = {} THEN Done(p)
         ELSE /\ first' = [first EXCEPT ![p] = Min(new)]
              /\ pc' = [pc EXCEPT ![p] = "inserting"]
              /\ UNCHANGED <<batch, pending>>
  /\ UNCHANGED <<posted, rows, handed, byCli, countVars>>

\* Payloads in order of posted_at; those that exist are skipped.
LookUp(p) ==
  /\ pc[p] = "looking"
  /\ LET new == Wanted(p) \ rows
     IN  IF new = {} THEN Done(p)
         ELSE /\ first' = [first EXCEPT ![p] = Min(new)]
              /\ pc' = [pc EXCEPT ![p] = "inserting"]
              /\ UNCHANGED <<batch, pending>>
  /\ UNCHANGED <<posted, rows, handed, byCli, countVars>>

Writing(p) == pc[p] = "committing"
NobodyElseWrites(p) == \A q \in Processes \ {p} : ~Writing(q)

\* Mutant: the tweets table has no unique index.
InsertAnyway(p) ==
  /\ pc[p] = "inserting" /\ NobodyElseWrites(p)
  /\ pending' = [pending EXCEPT
                   ![p] = {first[p]} \cup {t \in Wanted(p) : t > first[p] /\ t \notin rows}]
  /\ pc' = [pc EXCEPT ![p] = "committing"]
  /\ UNCHANGED <<posted, rows, handed, batch, first, byCli, countVars>>

\* Mutant: every row is committed on its own.
InsertCommitted(p) ==
  /\ pc[p] = "inserting" /\ NobodyElseWrites(p) /\ first[p] \notin rows
  /\ rows' = rows \cup {first[p]}
  /\ pending' = [pending EXCEPT
                   ![p] = {first[p]} \cup {t \in Wanted(p) : t > first[p] /\ t \notin rows}]
  /\ pc' = [pc EXCEPT ![p] = "committing"]
  /\ UNCHANGED <<posted, handed, batch, first, byCli, countVars>>

\* The first insert takes the write lock; the payloads after it are looked up
\* and inserted under it.
Insert(p) ==
  /\ pc[p] = "inserting" /\ NobodyElseWrites(p) /\ first[p] \notin rows
  /\ pending' = [pending EXCEPT
                   ![p] = {first[p]} \cup {t \in Wanted(p) : t > first[p] /\ t \notin rows}]
  /\ pc' = [pc EXCEPT ![p] = "committing"]
  /\ UNCHANGED <<posted, rows, handed, batch, first, byCli, countVars>>

\* The unique index refuses the row, or the database stays locked: the whole
\* transaction is rolled back and the exception ends the poll or the command.
InsertFails(p) ==
  /\ pc[p] = "inserting" /\ (first[p] \in rows \/ ~NobodyElseWrites(p))
  /\ Done(p)
  /\ UNCHANGED <<posted, rows, handed, byCli, countVars>>

\* Any statement of the transaction may fail otherwise: a full disk, an error
\* of I/O.  Nothing of it stays.
Fails(p) ==
  /\ pc[p] \in {"looking", "inserting", "committing"} /\ faults < MaxFaults
  /\ faults' = faults + 1
  /\ Done(p)
  /\ UNCHANGED <<posted, rows, handed, byCli, backfills, crashes>>

\* The backfill is done with its commit, the poll has to return its tweets.
Commit(p) ==
  /\ Writing(p)
  /\ rows' = rows \cup pending[p]
  /\ IF p = "bot"
     THEN /\ pc' = [pc EXCEPT ![p] = "returning"]
          /\ UNCHANGED <<batch, first, pending, byCli>>
     ELSE Done(p) /\ byCli' = byCli \cup pending[p]
  /\ UNCHANGED <<posted, handed, countVars>>

\* The loop has what the poll inserted.
Return ==
  /\ pc["bot"] = "returning"
  /\ handed' = Append(handed, Sorted(pending["bot"]))
  /\ Done("bot")
  /\ UNCHANGED <<posted, rows, byCli, countVars>>

\* The bot dies and comes back; what it had not committed is gone, and what it
\* had not returned is never handed over.
Crash ==
  /\ pc["bot"] # "idle" /\ crashes < MaxCrashes
  /\ crashes' = crashes + 1
  /\ Done("bot")
  /\ UNCHANGED <<posted, rows, handed, byCli, backfills, faults>>

\* The backfill command is ended.
Interrupt ==
  /\ pc["cli"] # "idle" /\ Done("cli")
  /\ UNCHANGED <<posted, rows, handed, byCli, countVars>>

Persist(p) == LookUp(p) \/ Insert(p) \/ InsertFails(p) \/ Commit(p) \/ (p = "bot" /\ Return)
Next ==
  \/ Post \/ Poll \/ Backfill \/ Crash \/ Interrupt
  \/ \E p \in Processes : Persist(p) \/ Fails(p)

Spec == Init /\ [][Next]_vars

\* A process that has begun to store goes on: nothing in it awaits, and the
\* database gives up on a lock.  Polls, tweets, backfills and crashes owe nothing.
FairSpec == Spec /\ \A p \in Processes : WF_vars(Persist(p))

-----------------------------------------------------------------------------
(***************************************************************************)
(* Properties.                                                             *)
(***************************************************************************)
HandedSet == UNION {{handed[i][j] : j \in DOMAIN handed[i]} : i \in DOMAIN handed}

\* Every variable has its type.
TypeOK ==
  /\ posted \in 0..NTweets /\ rows \subseteq Tweets
  /\ handed \in Seq(Seq(Tweets))
  /\ pc \in [Processes -> {"idle", "looking", "inserting", "committing", "returning"}]
  /\ batch \in [Processes -> SUBSET Tweets] /\ pending \in [Processes -> SUBSET Tweets]
  /\ first \in [Processes -> Tweets \cup {NoTweet}]
  /\ byCli \subseteq Tweets /\ backfills \in 0..MaxBackfills /\ crashes \in 0..MaxCrashes
  /\ faults \in 0..MaxFaults

\* However the bot's polls, its restarts and the backfill interleave, the loop
\* is handed a tweet at most once, and never one that the backfill stored.
HandedOnce ==
  /\ \A i, k \in DOMAIN handed : \A j \in DOMAIN handed[i], l \in DOMAIN handed[k] :
       handed[i][j] = handed[k][l] => i = k /\ j = l
  /\ HandedSet \cap byCli = {}

\* Stored rows that no backfill wrote and the loop neither has nor is about to get.
Silent ==
  rows \ (HandedSet \cup byCli \cup (IF pc["bot"] = "returning" THEN pending["bot"] ELSE {}))

\* A tweet is stored without reaching the loop only by a crash after the commit
\* of its poll, which costs that poll and no other: failed inserts, lost races
\* and interrupted backfills never leave such a row.
NothingStoredSilently == Cardinality(Silent) <= crashes * Limit

\* While the loop keeps polling a page that loads, a tweet that a poll would take
\* is stored or scrolls off the page, whatever the backfill and the database do
\* to single polls.
StoredOrGone ==
  []<>(pc["bot"] = "looking") =>
    \A t \in Tweets \ Filtered : t \in Recent ~> (t \in rows \/ t \notin Page)
=============================================================================
