----------------------------- MODULE ReviewQueue ----------------------------
(***************************************************************************)
(* The review of uncertain signals.  A signal the parser is not sure of is *)
(* stored flagged, once for every manager that takes it up.  The dashboard *)
(* shows a queue of flagged rows, labels them and takes labels back; the   *)
(* weekly review adds labels through a script, and scripts copy labels     *)
(* into the file the classifier is trained from.                           *)
(*                                                                         *)
(* A request, and a commit of a script, is one step: nothing awaits inside *)
(* it.  A label belongs to a tweet and a ticker, not to a row.             *)
(***************************************************************************)
EXTENDS Integers, FiniteSets

CONSTANTS
  Subjects,   \* pairs of a tweet and a ticker
  Arrivals,   \* the rows in the order they are stored: Arrivals[i] is a subject
  NArrivals,
  Uncertain,  \* the subjects whose signals the parser flags
  Offered,    \* actions the dashboard offers
  Truths,     \* actions the weekly review offers
  Limit       \* rows the dashboard asks for

Rows    == 1..NArrivals
LabelActions == {"BUY", "SELL", "WATCH", "IGNORE"}

ASSUME ReviewAssumption ==
  /\ NArrivals \in Nat /\ Limit \in Nat \ {0}
  /\ Arrivals \in [Rows -> Subjects] /\ Uncertain \subseteq Subjects
  /\ Offered \subseteq {"BUY", "SELL"} /\ Truths \subseteq LabelActions

TweetOf(s) == s[1]
Scripts    == {"ingest", "retrain"}
Examples   == Subjects \X LabelActions

VARIABLES
  next,       \* the next row to arrive
  row,        \* parsed_signals: none, flagged (needs_review) or plain
  labels,     \* tweet_labels: the actions a subject is labelled with
  batch,      \* examples a script has read and not yet written
  training,   \* the reviewed examples in labeled_signals.jsonl
  torn,       \* whether its last line is cut off, so that it cannot be loaded
  concerned,  \* history: subjects that were flagged or labelled
  given       \* history: labels that were committed

queueVars == <<next, row, labels, batch, training, torn, concerned, given>>

QueueInit ==
  /\ next = 1 /\ row = [i \in Rows |-> "none"]
  /\ labels = [s \in Subjects |-> {}]
  /\ batch = [x \in Scripts |-> {}] /\ training = {} /\ torn = FALSE
  /\ concerned = {} /\ given = {}

-----------------------------------------------------------------------------
(***************************************************************************)
(* The queue: the newest flagged rows, more than are asked for, without    *)
(* those whose subject has a label, cut at the limit.                      *)
(***************************************************************************)
Stored  == {i \in Rows : row[i] # "none"}
Flagged == {i \in Rows : row[i] = "flagged"}
Newest(ids, n) == {i \in ids : Cardinality({j \in ids : j > i}) < n}

\* Mutant: no more rows are read than are asked for.
QueueUnpadded == Newest({i \in Newest(Flagged, Limit) : labels[Arrivals[i]] = {}}, Limit)

Queue == Newest({i \in Newest(Flagged, 3 * Limit) : labels[Arrivals[i]] = {}}, Limit)

-----------------------------------------------------------------------------
\* A manager takes the signal up and stores its row, or it is paused.
Arrive ==
  /\ next \in Rows /\ next' = next + 1
  /\ LET s == Arrivals[next] IN
     \/ /\ row' = [row EXCEPT ![next] = IF s \in Uncertain THEN "flagged" ELSE "plain"]
        /\ concerned' = concerned \cup ({s} \cap Uncertain)
     \/ UNCHANGED <<row, concerned>>
  /\ UNCHANGED <<labels, batch, training, torn, given>>

\* label_review_queue_item: any row may be named, on the queue or not.  The
\* rows of the same signal under other managers keep their flag.
Label(i, a) ==
  LET s == Arrivals[i] IN
  /\ i \in Stored
  /\ labels' = [labels EXCEPT ![s] = @ \cup {a}]
  /\ row' = [row EXCEPT ![i] = "plain"]
  /\ concerned' = concerned \cup {s} /\ given' = given \cup {<<s, a>>}
  /\ UNCHANGED <<next, batch, training, torn>>

\* Mutant: the labels of the whole tweet go.
UndoWholeTweet(i) ==
  LET s == Arrivals[i] IN
  /\ i \in Stored /\ labels[s] # {}
  /\ labels' = [u \in Subjects |-> IF TweetOf(u) = TweetOf(s) THEN {} ELSE labels[u]]
  /\ row' = [row EXCEPT ![i] = "flagged"]
  /\ UNCHANGED <<next, batch, training, torn, concerned, given>>

\* undo_review_queue_label: every label of the subject goes, whoever gave it.
Undo(i) ==
  LET s == Arrivals[i] IN
  /\ i \in Stored /\ labels[s] # {}
  /\ labels' = [labels EXCEPT ![s] = {}]
  /\ row' = [row EXCEPT ![i] = "flagged"]
  /\ UNCHANGED <<next, batch, training, torn, concerned, given>>

-----------------------------------------------------------------------------
(***************************************************************************)
(* Scripts, each a process of its own that may be killed between its       *)
(* steps.                                                                  *)
(***************************************************************************)
\* Mutant: the examples are appended before the labels are committed.
IngestAppended(truths) ==
  /\ batch["ingest"] = {} /\ truths # {}
  /\ training' = training \cup truths /\ batch' = [batch EXCEPT !["ingest"] = truths]
  /\ UNCHANGED <<next, row, labels, torn, concerned, given>>

\* ingest_review_rows commits the labels of a review, ...
Ingest(truths) ==
  /\ batch["ingest"] = {} /\ truths # {}
  /\ labels' = [s \in Subjects |-> labels[s] \cup {a \in LabelActions : <<s, a>> \in truths}]
  /\ batch' = [batch EXCEPT !["ingest"] = truths]
  /\ concerned' = concerned \cup {e[1] : e \in truths} /\ given' = given \cup truths
  /\ UNCHANGED <<next, row, training, torn>>

\* ... retrain_from_labels loads the file and reads all there are, ...
Retrain ==
  /\ batch["retrain"] = {} /\ ~torn
  /\ batch' = [batch EXCEPT !["retrain"] = {e \in Examples : e[2] \in labels[e[1]]}]
  /\ UNCHANGED <<next, row, labels, training, torn, concerned, given>>

\* ... and append_labeled_examples, which loads it too, adds those it lacks, ...
AppendExamples(x) ==
  /\ batch[x] # {} /\ ~torn /\ training' = training \cup batch[x]
  /\ batch' = [batch EXCEPT ![x] = {}]
  /\ UNCHANGED <<next, row, labels, torn, concerned, given>>

\* ... or some of them, the last one perhaps cut off, when it is killed.
KilledAppending(x) ==
  /\ batch[x] # {} /\ ~torn /\ batch' = [batch EXCEPT ![x] = {}]
  /\ \E part \in SUBSET batch[x] : training' = training \cup part
  /\ torn' \in BOOLEAN
  /\ UNCHANGED <<next, row, labels, concerned, given>>

\* A script is killed before it appends, or cannot load the file.
Killed(x) ==
  /\ batch[x] # {} /\ batch' = [batch EXCEPT ![x] = {}]
  /\ UNCHANGED <<next, row, labels, training, torn, concerned, given>>

-----------------------------------------------------------------------------
\* A review gives one answer for a subject.
Reviews == {truths \in SUBSET (Subjects \X Truths) :
              \A d, e \in truths : d[1] = e[1] => d = e}

QueueNext ==
  \/ Arrive
  \/ \E i \in Rows : Undo(i) \/ \E a \in Offered : Label(i, a)
  \/ \E truths \in Reviews : Ingest(truths)
  \/ Retrain
  \/ \E x \in Scripts : AppendExamples(x) \/ KilledAppending(x) \/ Killed(x)

QueueSpec == QueueInit /\ [][QueueNext]_queueVars

-----------------------------------------------------------------------------
(***************************************************************************)
(* Properties.                                                             *)
(***************************************************************************)
\* Every variable has its type.
QueueTypeOK ==
  /\ next \in 1..(NArrivals + 1) /\ row \in [Rows -> {"none", "flagged", "plain"}]
  /\ labels \in [Subjects -> SUBSET LabelActions]
  /\ batch \in [Scripts -> SUBSET Examples] /\ training \in SUBSET Examples
  /\ torn \in BOOLEAN
  /\ concerned \in SUBSET Subjects /\ given \in SUBSET Examples

\* What was flagged or labelled once has a label or a flagged row: rows of
\* several managers share labels, and labels are taken back through any row,
\* but nothing drops out of the review.
NothingForgotten ==
  \A s \in concerned : labels[s] # {} \/ \E i \in Flagged : Arrivals[i] = s

\* Rows that keep their flag although their subject has a label.
Leftovers == {i \in Flagged : labels[Arrivals[i]] # {}}

\* An empty queue means that everything has its label, as long as there are
\* fewer leftovers of other managers than rows read beyond the limit.
ClearMeansDone ==
  Queue = {} /\ Cardinality(Leftovers) < 3 * Limit => \A s \in concerned : labels[s] # {}

\* Every reviewed example the classifier is trained from is a label that was
\* committed, also if a script was killed halfway or labels were taken back.
TaughtWasLabelled == training \subseteq given
=============================================================================
