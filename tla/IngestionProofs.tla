--------------------------- MODULE IngestionProofs ---------------------------
(***************************************************************************)
(* Theorems about Ingestion, for any number of tweets, any page, limit and *)
(* filter, and any number of backfills and restarts.                       *)
(***************************************************************************)
EXTENDS Ingestion, FiniteSetTheorems, SequenceTheorems, TLAPS

(***************************************************************************)
(* Sets of tweets and their order.                                         *)
(***************************************************************************)
\* The tweets of a set are ranked 0, 1, 2 ... without a gap.
Rank(S) == [t \in S |-> Cardinality({u \in S : u < t})]

LEMMA RankFacts ==
  ASSUME NEW S \in SUBSET Tweets
  PROVE  /\ IsFiniteSet(S) /\ Cardinality(S) \in Nat
         /\ \A t, u \in S : Rank(S)[t] = Rank(S)[u] => t = u
         /\ \A t \in S : Rank(S)[t] \in 0..(Cardinality(S) - 1)
         /\ \A i \in 0..(Cardinality(S) - 1) : \E t \in S : Rank(S)[t] = i
<1> DEFINE Below(t) == {u \in S : u < t}
<1>1. IsFiniteSet(S) /\ Cardinality(S) \in Nat
  <2>1. IsFiniteSet(Tweets)
    BY FS_Interval, IngestionAssumption DEF Tweets
  <2>2. QED
    BY <2>1, FS_Subset, FS_CardinalityType
<1>2. \A t \in S : t \in Int
  BY IngestionAssumption DEF Tweets
<1>3. \A T \in SUBSET S : IsFiniteSet(T) /\ Cardinality(T) \in Nat
  BY <1>1, FS_Subset, FS_CardinalityType
<1>4. \A T, U \in SUBSET S : T \subseteq U /\ T # U => Cardinality(T) < Cardinality(U)
  <2> SUFFICES ASSUME NEW T \in SUBSET S, NEW U \in SUBSET S, T \subseteq U, T # U
               PROVE  Cardinality(T) < Cardinality(U)
    OBVIOUS
  <2>1. Cardinality(T) <= Cardinality(U) /\ Cardinality(U) # Cardinality(T)
    BY <1>3, FS_Subset
  <2>2. QED
    BY <1>3, <2>1
<1>5. \A t \in S : Rank(S)[t] = Cardinality(Below(t))
  BY DEF Rank
<1>6. \A t, u \in S : t < u => Rank(S)[t] < Rank(S)[u]
  <2> SUFFICES ASSUME NEW t \in S, NEW u \in S, t < u
               PROVE  Cardinality(Below(t)) < Cardinality(Below(u))
    BY <1>5
  <2>1. Below(t) \subseteq Below(u) /\ t \in Below(u) /\ t \notin Below(t)
    BY <1>2
  <2>2. Below(t) \in SUBSET S /\ Below(u) \in SUBSET S
    OBVIOUS
  <2> HIDE DEF Below
  <2>3. QED
    BY <1>4, <2>1, <2>2
<1>7. \A t \in S : Rank(S)[t] \in 0..(Cardinality(S) - 1)
  <2> SUFFICES ASSUME NEW t \in S PROVE Rank(S)[t] \in 0..(Cardinality(S) - 1)
    OBVIOUS
  <2>1. Below(t) \in SUBSET S /\ t \notin Below(t)
    BY <1>2
  <2> HIDE DEF Below
  <2>2. Cardinality(Below(t)) < Cardinality(S) /\ Cardinality(Below(t)) \in Nat
    BY <1>3, <1>4, <2>1
  <2>3. QED
    BY <1>1, <1>5, <2>2
<1>8. \A t, u \in S : Rank(S)[t] = Rank(S)[u] => t = u
  <2> SUFFICES ASSUME NEW t \in S, NEW u \in S, Rank(S)[t] = Rank(S)[u] PROVE t = u
    OBVIOUS
  <2>1. t < u \/ u < t \/ t = u
    BY <1>2
  <2>2. Rank(S)[t] \in Int /\ Rank(S)[u] \in Int
    BY <1>7
  <2>3. QED
    BY <1>6, <2>1, <2>2
<1>9. \A i \in 0..(Cardinality(S) - 1) : \E t \in S : Rank(S)[t] = i
  <2> DEFINE T == 0..(Cardinality(S) - 1)
  <2>1. Rank(S) \in Injection(S, T)
    BY <1>7, <1>8 DEF Rank, Injection, IsInjective
  <2>2. IsFiniteSet(T) /\ Cardinality(T) = Cardinality(S)
    BY <1>1, FS_Interval
  <2> HIDE DEF T
  <2>3. Rank(S) \in Surjection(S, T)
    BY <2>1, <2>2, FS_Injection
  <2>4. QED
    BY <2>3 DEF Surjection, T
<1>10. QED
  BY <1>1, <1>7, <1>8, <1>9

\* The payloads in order of posted_at: all of them, each once.
LEMMA SortedFacts ==
  ASSUME NEW S \in SUBSET Tweets
  PROVE  /\ Sorted(S) \in Seq(Tweets)
         /\ {Sorted(S)[j] : j \in DOMAIN Sorted(S)} = S
         /\ \A j, l \in DOMAIN Sorted(S) : Sorted(S)[j] = Sorted(S)[l] => j = l
<1> DEFINE n == Cardinality(S)
           At(i) == CHOOSE t \in S : Cardinality({u \in S : u < t}) = i - 1
<1>1. n \in Nat
  BY RankFacts
<1>2. \A i \in 1..n : i - 1 \in 0..(n - 1)
  BY <1>1
<1>3. \A i \in 1..n : At(i) \in S /\ Rank(S)[At(i)] = i - 1
  <2> SUFFICES ASSUME NEW i \in 1..n PROVE At(i) \in S /\ Rank(S)[At(i)] = i - 1
    OBVIOUS
  <2>1. \E t \in S : Rank(S)[t] = i - 1
    BY <1>2, RankFacts
  <2>2. \E t \in S : Cardinality({u \in S : u < t}) = i - 1
    BY <2>1 DEF Rank
  <2>3. QED
    BY <2>2 DEF Rank
<1>4. Sorted(S) = [i \in 1..n |-> At(i)]
  BY DEF Sorted
<1> HIDE DEF n, At
<1>5. Sorted(S) \in Seq(Tweets)
  BY <1>1, <1>3, <1>4, SeqDef
<1>6. ASSUME NEW t \in S PROVE \E j \in 1..n : Sorted(S)[j] = t
  <2>1. Rank(S)[t] \in 0..(n - 1)
    BY RankFacts DEF n
  <2>2. Rank(S)[t] + 1 \in 1..n
    BY <1>1, <2>1
  <2>3. Rank(S)[At(Rank(S)[t] + 1)] = Rank(S)[t] /\ At(Rank(S)[t] + 1) \in S
    BY <1>3, <2>1, <2>2
  <2>4. At(Rank(S)[t] + 1) = t
    BY <2>3, RankFacts
  <2>5. QED
    BY <1>4, <2>2, <2>4
<1>7. \A j \in 1..n : Sorted(S)[j] \in S
  BY <1>3, <1>4
<1>8. \A j, l \in 1..n : Sorted(S)[j] = Sorted(S)[l] => j = l
  <2> SUFFICES ASSUME NEW j \in 1..n, NEW l \in 1..n, At(j) = At(l) PROVE j = l
    BY <1>4
  <2>1. j - 1 = l - 1
    BY <1>3
  <2>2. QED
    BY <1>1, <2>1
<1>9. DOMAIN Sorted(S) = 1..n
  BY <1>4
<1>10. {Sorted(S)[j] : j \in DOMAIN Sorted(S)} = S
  BY <1>6, <1>7, <1>9
<1>11. QED
  BY <1>5, <1>8, <1>9, <1>10

\* The n oldest tweets of a set are n at most.
LEMMA OldestBound ==
  ASSUME NEW S \in SUBSET Tweets, NEW n \in Nat
  PROVE  Cardinality(Oldest(n, S)) <= n
<1> DEFINE O == Oldest(n, S)
<1>1. O \in SUBSET Tweets /\ O \subseteq S
  BY DEF Oldest
<1>2. Cardinality(O) \in Nat
  BY <1>1, RankFacts
<1>3. SUFFICES ASSUME n < Cardinality(O) PROVE FALSE
  BY <1>2
<1>4. PICK t \in O : Cardinality({u \in O : u < t}) = n
  <2>1. n \in 0..(Cardinality(O) - 1)
    BY <1>2, <1>3
  <2> HIDE DEF O
  <2>2. \E t \in O : Rank(O)[t] = n
    BY <1>1, <2>1, RankFacts
  <2>3. QED
    BY <2>2 DEF Rank
<1>5. Cardinality({u \in S : u < t}) < n
  BY <1>4 DEF Oldest
<1> HIDE DEF O
<1>6. {u \in O : u < t} \subseteq {u \in S : u < t} /\ {u \in S : u < t} \in SUBSET Tweets
  BY <1>1
<1>7. /\ IsFiniteSet({u \in S : u < t}) /\ Cardinality({u \in S : u < t}) \in Nat
      /\ Cardinality({u \in O : u < t}) <= Cardinality({u \in S : u < t})
  BY <1>6, RankFacts, FS_Subset
<1>8. QED
  BY <1>4, <1>5, <1>7

\* A set of tweets has an oldest one.
LEMMA MinFact ==
  ASSUME NEW S \in SUBSET Tweets, S # {}
  PROVE  Min(S) \in S
<1>1. IsFiniteSet(S) /\ Cardinality(S) \in Nat /\ Cardinality(S) # 0
  BY RankFacts, FS_EmptySet
<1>2. 0 \in 0..(Cardinality(S) - 1)
  BY <1>1
<1>3. PICK t \in S : Rank(S)[t] = 0
  BY <1>2, RankFacts
<1>4. {u \in S : u < t} = {}
  <2>1. IsFiniteSet({u \in S : u < t})
    BY <1>1, FS_Subset
  <2>2. Cardinality({u \in S : u < t}) = 0
    BY <1>3 DEF Rank
  <2>3. QED
    BY <2>1, <2>2, FS_EmptySet
<1>5. \A u \in S : t <= u
  BY <1>4, IngestionAssumption DEF Tweets
<1>6. QED
  BY <1>5 DEF Min

-----------------------------------------------------------------------------
(***************************************************************************)
(* Types, and the transaction.                                             *)
(***************************************************************************)
\* A poll takes Limit tweets at most; a process that is about to insert knows
\* its first row, what it inserted was fetched, and at most one has inserted
\* rows it has not committed: those are not in the table.
TransactionInv ==
  /\ Cardinality(batch["bot"]) <= Limit
  /\ \A p \in Processes :
       /\ pc[p] = "inserting" => first[p] \in Wanted(p)
       /\ pc[p] \in {"committing", "returning"} => pending[p] \subseteq batch[p]
       /\ Writing(p) => pending[p] \cap rows = {}
       /\ pc[p] = "returning" => p = "bot"
  /\ \A p, q \in Processes : Writing(p) /\ Writing(q) => p = q

IngestInv == TypeOK /\ TransactionInv

Steps == {"idle", "looking", "inserting", "committing", "returning"}

\* A process that ends or is ended leaves the other one alone.
LEMMA DoneKeeps ==
  ASSUME IngestInv, NEW p \in Processes, Done(p),
         UNCHANGED <<posted, handed, backfills>>,
         rows' = rows \/ (rows' = rows \cup pending[p] /\ Writing(p)),
         byCli' \subseteq Tweets, rows' \subseteq Tweets,
         crashes' \in 0..MaxCrashes, faults' \in 0..MaxFaults
  PROVE  IngestInv'
<1> USE DEF IngestInv, TypeOK, TransactionInv, Writing, Wanted
<1>1. /\ pc' \in [Processes -> Steps]
      /\ batch' \in [Processes -> SUBSET Tweets] /\ pending' \in [Processes -> SUBSET Tweets]
      /\ first' \in [Processes -> Tweets \cup {NoTweet}]
  BY DEF Done, Steps
<1>2. /\ pc'[p] = "idle" /\ batch'[p] = {}
      /\ \A q \in Processes \ {p} : /\ pc'[q] = pc[q] /\ first'[q] = first[q]
                                    /\ pending'[q] = pending[q] /\ batch'[q] = batch[q]
  BY DEF Done
<1>3. Cardinality(batch'["bot"]) <= Limit
  <2>1. Cardinality({}) = 0
    BY FS_EmptySet
  <2>2. CASE p = "bot"
    <3>1. batch'["bot"] = {}
      BY <1>2, <2>2
    <3>2. Limit \in Nat
      BY IngestionAssumption
    <3>3. Cardinality(batch'["bot"]) = 0
      BY <2>1, <3>1, Zenon
    <3>4. QED
      BY <3>2, <3>3
  <2>3. CASE p # "bot"
    BY <1>2, <2>3 DEF Processes
  <2>4. QED
    BY <2>2, <2>3
<1>4. ASSUME NEW q \in Processes, Writing(q)' PROVE Writing(q) /\ pending'[q] \cap rows' = {}
  <2>1. q # p /\ Writing(q)
    BY <1>2, <1>4
  <2>2. rows' = rows
    BY <2>1
  <2>3. QED
    BY <1>2, <2>1, <2>2
<1>5. \A q \in Processes :
        /\ pc'[q] = "inserting" => first'[q] \in batch'[q] \ Filtered
        /\ pc'[q] \in {"committing", "returning"} => pending'[q] \subseteq batch'[q]
        /\ pc'[q] = "returning" => q = "bot"
  BY <1>2
<1>6. TypeOK'
  BY <1>1 DEF Steps
<1>7. QED
  BY <1>3, <1>4, <1>5, <1>6

\* Every step keeps both.
LEMMA IngestStep == IngestInv /\ [Next]_vars => IngestInv'
<1> SUFFICES ASSUME IngestInv, [Next]_vars PROVE IngestInv'
  OBVIOUS
<1> USE DEF IngestInv, TypeOK, TransactionInv, Writing, Wanted
<1>0. /\ pc \in [Processes -> Steps] /\ rows \subseteq Tweets /\ byCli \subseteq Tweets
      /\ batch \in [Processes -> SUBSET Tweets] /\ pending \in [Processes -> SUBSET Tweets]
      /\ first \in [Processes -> Tweets \cup {NoTweet}]
      /\ \A t \in 1..posted : t \in Tweets
      /\ crashes \in 0..MaxCrashes /\ faults \in 0..MaxFaults /\ backfills \in 0..MaxBackfills
  BY IngestionAssumption DEF Tweets, Steps
<1>1. CASE Post
  BY <1>1, IngestionAssumption DEF Post, fetchVars, countVars
<1>2. CASE Poll
  <2>1. Recent \in SUBSET Tweets /\ Cardinality(Recent) <= Limit
    <3>1. Page \in SUBSET Tweets
      BY <1>0 DEF Page, Newest
    <3>2. QED
      BY <3>1, OldestBound, IngestionAssumption DEF Recent, Oldest
  <2>2. /\ batch' = [batch EXCEPT !["bot"] = Recent]
        /\ pc' = [pc EXCEPT !["bot"] = "looking"] /\ pc["bot"] = "idle"
        /\ UNCHANGED <<posted, rows, handed, first, pending, byCli, countVars>>
    BY <1>2 DEF Poll
  <2> HIDE DEF Recent
  <2>3. /\ batch' \in [Processes -> SUBSET Tweets] /\ batch'["bot"] = Recent
        /\ batch'["cli"] = batch["cli"] /\ pc'["cli"] = pc["cli"] /\ pc'["bot"] = "looking"
        /\ pc' \in [Processes -> Steps]
    BY <1>0, <2>1, <2>2 DEF Processes, Steps
  <2>4. QED
    BY <1>0, <2>1, <2>2, <2>3 DEF Processes, Steps, countVars
<1>3. CASE Backfill
  <2>1. \A since \in 1..(posted + 1) : since..posted \in SUBSET Tweets
    BY <1>0, IngestionAssumption DEF Tweets
  <2>2. PICK since \in 1..(posted + 1) : batch' = [batch EXCEPT !["cli"] = since..posted]
    BY <1>3 DEF Backfill
  <2>3. batch' \in [Processes -> SUBSET Tweets]
    BY <1>0, <2>1, <2>2
  <2>4. backfills' \in 0..MaxBackfills
    BY <1>3, IngestionAssumption DEF Backfill
  <2>5. /\ pc' = [pc EXCEPT !["cli"] = "looking"] /\ pc["cli"] = "idle"
        /\ UNCHANGED <<posted, rows, handed, first, pending, byCli, crashes, faults>>
    BY <1>3 DEF Backfill
  <2>6. /\ batch'["bot"] = batch["bot"] /\ pc'["bot"] = pc["bot"] /\ pc'["cli"] = "looking"
        /\ pc' \in [Processes -> Steps]
    BY <1>0, <2>2, <2>5 DEF Processes, Steps
  <2>7. QED
    BY <1>0, <2>3, <2>4, <2>5, <2>6 DEF Processes, Steps
<1>4. ASSUME NEW p \in Processes, LookUp(p) PROVE IngestInv'
  <2> DEFINE new == Wanted(p) \ rows
  <2>1. CASE new = {}
    BY <1>0, <1>4, <2>1, DoneKeeps DEF LookUp, countVars
  <2>2. CASE new # {}
    <3>1. Min(new) \in Wanted(p) /\ Min(new) \in Tweets
      <4>1. new \in SUBSET Tweets /\ new \subseteq Wanted(p)
        BY <1>0
      <4> HIDE DEF new
      <4>2. QED
        BY <2>2, <4>1, MinFact
    <3>2. /\ first' = [first EXCEPT ![p] = Min(new)] /\ pc' = [pc EXCEPT ![p] = "inserting"]
          /\ UNCHANGED <<posted, rows, handed, byCli, countVars, batch, pending>>
      BY <1>4, <2>2 DEF LookUp
    <3> HIDE DEF new
    <3>3. QED
      BY <1>0, <3>1, <3>2 DEF Steps, countVars
  <2>3. QED
    BY <2>1, <2>2
<1>5. ASSUME NEW p \in Processes, Insert(p) PROVE IngestInv'
  <2> DEFINE ins == {first[p]} \cup {t \in Wanted(p) : t > first[p] /\ t \notin rows}
  <2>1. ins \in SUBSET Tweets /\ ins \cap rows = {} /\ ins \subseteq batch[p]
    BY <1>0, <1>5 DEF Insert
  <2>2. /\ pending' = [pending EXCEPT ![p] = ins] /\ pc' = [pc EXCEPT ![p] = "committing"]
        /\ \A q \in Processes \ {p} : ~Writing(q)
        /\ UNCHANGED <<posted, rows, handed, batch, first, byCli, countVars>>
    BY <1>5 DEF Insert, NobodyElseWrites
  <2> HIDE DEF ins
  <2>3. QED
    BY <1>0, <2>1, <2>2 DEF Steps, countVars
<1>6. ASSUME NEW p \in Processes, InsertFails(p) \/ Fails(p) PROVE IngestInv'
  <2>1. faults' \in 0..MaxFaults
    BY <1>0, <1>6, IngestionAssumption DEF InsertFails, Fails, countVars
  <2>2. Done(p) /\ UNCHANGED <<posted, rows, handed, byCli, backfills, crashes>>
    BY <1>6 DEF InsertFails, Fails, countVars
  <2>3. QED
    BY <1>0, <2>1, <2>2, DoneKeeps
<1>7. ASSUME NEW p \in Processes, Commit(p) PROVE IngestInv'
  <2>1. rows' = rows \cup pending[p] /\ rows' \subseteq Tweets /\ Writing(p)
        /\ UNCHANGED <<posted, handed, countVars>>
    BY <1>0, <1>7 DEF Commit
  <2>2. CASE p = "bot"
    <3>1. pc' = [pc EXCEPT ![p] = "returning"] /\ UNCHANGED <<batch, first, pending, byCli>>
      BY <1>7, <2>2 DEF Commit
    <3>2. QED
      BY <1>0, <2>1, <2>2, <3>1 DEF Steps, countVars
  <2>3. CASE p # "bot"
    <3>1. Done(p) /\ byCli' \subseteq Tweets
      BY <1>0, <1>7, <2>3 DEF Commit
    <3>2. QED
      BY <1>0, <2>1, <3>1, DoneKeeps DEF countVars
  <2>4. QED
    BY <2>2, <2>3
<1>8. CASE Return
  <2>1. Sorted(pending["bot"]) \in Seq(Tweets)
    BY <1>0, SortedFacts DEF Processes
  <2>2. handed' = Append(handed, Sorted(pending["bot"])) /\ Done("bot")
        /\ UNCHANGED <<posted, rows, byCli, countVars>>
    BY <1>8 DEF Return
  <2>3. handed' \in Seq(Seq(Tweets))
    <3> DEFINE Batch == Seq(Tweets)
    <3>1. handed \in Seq(Batch) /\ Sorted(pending["bot"]) \in Batch
      BY <2>1
    <3> HIDE DEF Batch
    <3>2. Append(handed, Sorted(pending["bot"])) \in Seq(Batch)
      BY ONLY <3>1, AppendProperties
    <3>3. QED
      BY ONLY <2>2, <3>2 DEF Batch
  <2>4. /\ pc' \in [Processes -> Steps]
        /\ batch' \in [Processes -> SUBSET Tweets] /\ pending' \in [Processes -> SUBSET Tweets]
        /\ first' \in [Processes -> Tweets \cup {NoTweet}]
        /\ pc'["bot"] = "idle" /\ batch'["bot"] = {}
        /\ pc'["cli"] = pc["cli"] /\ first'["cli"] = first["cli"]
        /\ pending'["cli"] = pending["cli"] /\ batch'["cli"] = batch["cli"]
    BY <1>0, <2>2 DEF Done, Processes, Steps
  <2>5. Cardinality(batch'["bot"]) <= Limit
    BY <2>4, FS_EmptySet, IngestionAssumption
  <2>6. QED
    BY <2>2, <2>3, <2>4, <2>5 DEF Processes, Steps, countVars
<1>9. CASE Crash
  <2>1. crashes' \in 0..MaxCrashes
    BY <1>0, <1>9, IngestionAssumption DEF Crash
  <2>2. QED
    BY <1>0, <1>9, <2>1, DoneKeeps DEF Crash, Processes
<1>10. CASE Interrupt
  BY <1>0, <1>10, DoneKeeps DEF Interrupt, Processes, countVars
<1>11. CASE UNCHANGED vars
  BY <1>11 DEF vars, fetchVars, countVars
<1>12. QED
  BY <1>1, <1>2, <1>3, <1>4, <1>5, <1>6, <1>7, <1>8, <1>9, <1>10, <1>11 DEF Next, Persist

\* The types hold in every reachable state, and so does TransactionInv.
THEOREM IngestTypes == Spec => []IngestInv
<1>1. Init => IngestInv
  <2>1. Cardinality({}) = 0
    BY FS_EmptySet
  <2>2. QED
    BY <2>1, IngestionAssumption DEF Init, IngestInv, TypeOK, TransactionInv, Writing, Processes
<1>2. QED
  BY <1>1, IngestStep, PTL DEF Spec

-----------------------------------------------------------------------------
(***************************************************************************)
(* What reaches the loop.                                                  *)
(***************************************************************************)
\* A batch more.
LEMMA HandedMore ==
  ASSUME handed \in Seq(Seq(Tweets)), NEW s \in Seq(Tweets), handed' = Append(handed, s)
  PROVE  HandedSet' = HandedSet \cup {s[j] : j \in DOMAIN s}
<1>1. /\ DOMAIN handed = 1..Len(handed) /\ Len(handed) \in Nat
      /\ DOMAIN handed' = 1..(Len(handed) + 1)
      /\ handed'[Len(handed) + 1] = s
      /\ \A i \in DOMAIN handed : handed'[i] = handed[i]
  OBVIOUS
<1>2. DOMAIN handed' = DOMAIN handed \cup {Len(handed) + 1}
  BY <1>1
<1> DEFINE Set(h, i) == {h[i][j] : j \in DOMAIN h[i]}
<1>3. \A i \in DOMAIN handed : Set(handed', i) = Set(handed, i)
  BY <1>1
<1>4. Set(handed', Len(handed) + 1) = {s[j] : j \in DOMAIN s}
  BY <1>1
<1>5. HandedSet = UNION {Set(handed, i) : i \in DOMAIN handed}
  BY DEF HandedSet
<1>6. HandedSet' = UNION {Set(handed', i) : i \in DOMAIN handed'}
  BY DEF HandedSet
<1> HIDE DEF Set
<1>7. QED
  BY <1>2, <1>3, <1>4, <1>5, <1>6

\* Rows on their way from a commit to the loop.
OnTheWay == IF pc["bot"] = "returning" THEN pending["bot"] ELSE {}

\* What reached the loop, a backfill or the way to the loop is stored, and is
\* only one of the three.
AccountInv ==
  /\ HandedOnce
  /\ HandedSet \cup byCli \cup OnTheWay \subseteq rows
  /\ OnTheWay \cap (HandedSet \cup byCli) = {}

\* What a step does to the account of the rows: nothing, a commit, a return,
\* or a crash that drops what was on its way.
LEMMA AccountSteps ==
  ASSUME IngestInv, [Next]_vars
  PROVE  \/ UNCHANGED <<rows, handed, byCli, OnTheWay>> /\ crashes' \in {crashes, crashes + 1}
         \/ Commit("bot") \/ Commit("cli") \/ Return
         \/ /\ pc["bot"] = "returning" /\ OnTheWay' = {} /\ crashes' = crashes + 1
            /\ UNCHANGED <<rows, handed, byCli>>
<1> USE DEF IngestInv, TypeOK, OnTheWay, Processes
<1>1. CASE Post \/ Poll \/ Backfill \/ UNCHANGED vars
  BY <1>1 DEF Post, Poll, Backfill, vars, fetchVars, countVars
<1>2. ASSUME NEW p \in Processes, LookUp(p) \/ Insert(p) \/ InsertFails(p) \/ Fails(p)
      PROVE  UNCHANGED <<rows, handed, byCli, OnTheWay>> /\ crashes' = crashes
  <2>1. UNCHANGED <<rows, handed, byCli, crashes>>
    BY <1>2 DEF LookUp, Insert, InsertFails, Fails, countVars
  <2>2. CASE p = "bot"
    <3>1. pc["bot"] # "returning" /\ pc'["bot"] # "returning"
      BY <1>2, <2>2 DEF LookUp, Insert, InsertFails, Fails, Done
    <3>2. QED
      BY <2>1, <3>1
  <2>3. CASE p = "cli"
    <3>1. pc'["bot"] = pc["bot"] /\ pending'["bot"] = pending["bot"]
      BY <1>2, <2>3 DEF LookUp, Insert, InsertFails, Fails, Done
    <3>2. QED
      BY <2>1, <3>1
  <2>4. QED
    BY <2>2, <2>3
<1>3. CASE Interrupt
  BY <1>3 DEF Interrupt, Done, countVars
<1>4. CASE Crash
  <2>1. pc'["bot"] = "idle" /\ crashes' = crashes + 1 /\ UNCHANGED <<rows, handed, byCli>>
    BY <1>4 DEF Crash, Done
  <2>2. QED
    BY <2>1
<1>5. QED
  BY <1>1, <1>2, <1>3, <1>4 DEF Next, Persist

\* Every step keeps the account.
LEMMA AccountStep == IngestInv /\ AccountInv /\ [Next]_vars => AccountInv'
<1> SUFFICES ASSUME IngestInv, AccountInv, [Next]_vars PROVE AccountInv'
  OBVIOUS
<1>0. /\ pc \in [Processes -> Steps] /\ pending \in [Processes -> SUBSET Tweets]
      /\ handed \in Seq(Seq(Tweets)) /\ \A p \in Processes : Writing(p) => pending[p] \cap rows = {}
  BY DEF IngestInv, TypeOK, TransactionInv, Steps
<1>1. CASE UNCHANGED <<rows, handed, byCli, OnTheWay>>
  BY <1>1 DEF AccountInv, HandedOnce, HandedSet
<1>2. CASE Commit("bot")
  <2>1. /\ rows' = rows \cup pending["bot"] /\ UNCHANGED <<handed, byCli>>
        /\ OnTheWay' = pending["bot"] /\ pending["bot"] \cap rows = {}
    BY <1>0, <1>2 DEF Commit, OnTheWay, Processes, Writing
  <2>2. QED
    BY <2>1 DEF AccountInv, HandedOnce, HandedSet
<1>3. CASE Commit("cli")
  <2>1. /\ rows' = rows \cup pending["cli"] /\ byCli' = byCli \cup pending["cli"]
        /\ handed' = handed /\ OnTheWay' = OnTheWay /\ pending["cli"] \cap rows = {}
    BY <1>0, <1>3 DEF Commit, OnTheWay, Processes, Writing, Done
  <2>2. HandedSet' = HandedSet
    BY <2>1 DEF HandedSet
  <2>3. QED
    BY <2>1, <2>2 DEF AccountInv, HandedOnce
<1>4. CASE pc["bot"] = "returning" /\ OnTheWay' = {} /\ UNCHANGED <<rows, handed, byCli>>
  BY <1>4 DEF AccountInv, HandedOnce, HandedSet
<1>5. CASE Return
  <2> DEFINE s == Sorted(pending["bot"])
  <2>1. /\ handed' = Append(handed, s) /\ byCli' = byCli /\ rows' = rows /\ OnTheWay' = {}
        /\ OnTheWay = pending["bot"] /\ pending["bot"] \in SUBSET Tweets
    BY <1>0, <1>5 DEF Return, Done, OnTheWay, Processes
  <2>2. /\ s \in Seq(Tweets) /\ {s[j] : j \in DOMAIN s} = pending["bot"]
        /\ \A j, l \in DOMAIN s : s[j] = s[l] => j = l
    BY <2>1, SortedFacts
  <2> HIDE DEF s
  <2>3. HandedSet' = HandedSet \cup pending["bot"]
    BY <1>0, <2>1, <2>2, HandedMore
  <2>4. /\ DOMAIN handed' = DOMAIN handed \cup {Len(handed) + 1}
        /\ handed'[Len(handed) + 1] = s
        /\ \A i \in DOMAIN handed : handed'[i] = handed[i]
        /\ Len(handed) + 1 \notin DOMAIN handed
    BY <1>0, <2>1, <2>2
  <2>5. \A i \in DOMAIN handed : \A j \in DOMAIN handed[i] : handed[i][j] \notin pending["bot"]
    BY <2>1 DEF AccountInv, HandedSet
  <2>6. \A j \in DOMAIN s : s[j] \in pending["bot"]
    BY <2>2
  <2>7. ASSUME NEW i \in DOMAIN handed', NEW k \in DOMAIN handed', NEW j \in DOMAIN handed'[i],
               NEW l \in DOMAIN handed'[k], handed'[i][j] = handed'[k][l]
        PROVE  i = k /\ j = l
    <3>1. CASE i \in DOMAIN handed /\ k \in DOMAIN handed
      BY <2>4, <2>7, <3>1 DEF AccountInv, HandedOnce
    <3>2. CASE i = Len(handed) + 1 /\ k = Len(handed) + 1
      BY <2>2, <2>4, <2>7, <3>2
    <3>3. CASE i \in DOMAIN handed /\ k = Len(handed) + 1
      BY <2>4, <2>5, <2>6, <2>7, <3>3
    <3>4. CASE i = Len(handed) + 1 /\ k \in DOMAIN handed
      BY <2>4, <2>5, <2>6, <2>7, <3>4
    <3>5. QED
      BY <2>4, <3>1, <3>2, <3>3, <3>4
  <2>8. QED
    BY <2>1, <2>3, <2>7 DEF AccountInv, HandedOnce
<1>6. QED
  BY <1>1, <1>2, <1>3, <1>4, <1>5, AccountSteps

\* It holds in every reachable state.
LEMMA AccountProved == Spec => []AccountInv
<1>1. Init => AccountInv
  BY DEF Init, AccountInv, HandedOnce, HandedSet, OnTheWay, Processes
<1>2. QED
  BY <1>1, IngestTypes, AccountStep, PTL DEF Spec

\* The loop is handed a tweet at most once, and none that a backfill stored.
THEOREM HandedProved == Spec => []HandedOnce
<1>1. AccountInv => HandedOnce
  BY DEF AccountInv
<1>2. QED
  BY <1>1, AccountProved, PTL

\* Every step but a crash leaves no row behind, and a crash those of one poll.
LEMMA SilentStep ==
  IngestInv /\ AccountInv /\ NothingStoredSilently /\ [Next]_vars => NothingStoredSilently'
<1> SUFFICES ASSUME IngestInv, AccountInv, NothingStoredSilently, [Next]_vars
             PROVE  NothingStoredSilently'
  OBVIOUS
<1>0. /\ pc \in [Processes -> Steps] /\ pending \in [Processes -> SUBSET Tweets]
      /\ handed \in Seq(Seq(Tweets)) /\ rows \in SUBSET Tweets
      /\ crashes \in Nat /\ Limit \in Nat
      /\ batch["bot"] \in SUBSET Tweets /\ Cardinality(batch["bot"]) <= Limit
      /\ pc["bot"] = "returning" => pending["bot"] \subseteq batch["bot"]
  BY IngestionAssumption DEF IngestInv, TypeOK, TransactionInv, Steps, Processes
<1>1. Silent = rows \ (HandedSet \cup byCli \cup OnTheWay)
      /\ Silent' = rows' \ (HandedSet' \cup byCli' \cup OnTheWay')
  BY DEF Silent, OnTheWay
<1>2. Silent \in SUBSET Tweets /\ IsFiniteSet(Silent) /\ Cardinality(Silent) \in Nat
  BY <1>0, <1>1, RankFacts
<1>3. ASSUME Silent' \subseteq Silent, crashes' \in {crashes, crashes + 1}
      PROVE  NothingStoredSilently'
  <2>1. Cardinality(Silent') <= Cardinality(Silent) /\ Cardinality(Silent') \in Nat
    BY <1>2, <1>3, FS_Subset, FS_CardinalityType
  <2>2. (crashes + 1) * Limit >= crashes * Limit /\ crashes * Limit \in Int
    BY <1>0, SMT
  <2>3. crashes' * Limit >= crashes * Limit
    <3>1. CASE crashes' = crashes
      BY <2>2, <3>1
    <3>2. CASE crashes' = crashes + 1
      BY <2>2, <3>2
    <3>3. QED
      BY <1>3, <3>1, <3>2
  <2>4. crashes * Limit \in Int /\ crashes' * Limit \in Int
    BY <1>0, <1>3, SMT
  <2>5. QED
    BY <1>2, <2>1, <2>3, <2>4 DEF NothingStoredSilently
<1>4. CASE UNCHANGED <<rows, handed, byCli, OnTheWay>> /\ crashes' \in {crashes, crashes + 1}
  <2>1. HandedSet' = HandedSet
    BY <1>4 DEF HandedSet
  <2>2. QED
    BY <1>1, <1>3, <1>4, <2>1
<1>5. CASE Commit("bot") \/ Commit("cli")
  <2>1. PICK p \in {"bot", "cli"} : Commit(p)
    BY <1>5
  <2>2. handed' = handed /\ crashes' = crashes /\ rows' = rows \cup pending[p]
    BY <2>1 DEF Commit, countVars
  <2>3. HandedSet' = HandedSet
    BY <2>2 DEF HandedSet
  <2>4. CASE p = "bot"
    <3>1. OnTheWay' = pending["bot"] /\ byCli' = byCli /\ OnTheWay = {}
      BY <1>0, <2>1, <2>4 DEF Commit, OnTheWay, Processes, Writing
    <3>2. QED
      BY <1>1, <1>3, <2>2, <2>3, <2>4, <3>1
  <2>5. CASE p = "cli"
    <3>1. OnTheWay' = OnTheWay /\ byCli' = byCli \cup pending["cli"]
      BY <1>0, <2>1, <2>5 DEF Commit, OnTheWay, Processes, Done
    <3>2. QED
      BY <1>1, <1>3, <2>2, <2>3, <2>5, <3>1
  <2>6. QED
    BY <2>4, <2>5
<1>6. CASE Return
  <2>1. /\ handed' = Append(handed, Sorted(pending["bot"])) /\ UNCHANGED <<rows, byCli, crashes>>
        /\ OnTheWay = pending["bot"] /\ pending["bot"] \in SUBSET Tweets
    BY <1>0, <1>6 DEF Return, OnTheWay, Processes, countVars
  <2>2. HandedSet' = HandedSet \cup pending["bot"]
    BY <1>0, <2>1, SortedFacts, HandedMore
  <2>3. QED
    BY <1>1, <1>3, <2>1, <2>2
<1>7. CASE /\ pc["bot"] = "returning" /\ OnTheWay' = {} /\ crashes' = crashes + 1
           /\ UNCHANGED <<rows, handed, byCli>>
  <2>1. HandedSet' = HandedSet
    BY <1>7 DEF HandedSet
  <2>2. OnTheWay \subseteq batch["bot"]
    BY <1>0, <1>7 DEF OnTheWay
  <2>3. Silent' \subseteq Silent \cup batch["bot"]
    BY <1>1, <1>7, <2>1, <2>2
  <2>4. /\ IsFiniteSet(batch["bot"]) /\ Cardinality(batch["bot"]) \in Nat
    BY <1>0, RankFacts
  <2>5. /\ IsFiniteSet(Silent \cup batch["bot"])
        /\ Cardinality(Silent \cup batch["bot"]) <= Cardinality(Silent) + Cardinality(batch["bot"])
        /\ Cardinality(Silent \cup batch["bot"]) \in Nat
    <3>1. IsFiniteSet(Silent \cup batch["bot"]) /\ IsFiniteSet(Silent \cap batch["bot"])
      BY <1>2, <2>4, FS_Union, FS_Intersection
    <3>2. Cardinality(Silent \cap batch["bot"]) \in Nat
      BY <3>1, FS_CardinalityType
    <3>3. Cardinality(Silent \cup batch["bot"]) =
            Cardinality(Silent) + Cardinality(batch["bot"]) - Cardinality(Silent \cap batch["bot"])
      BY <1>2, <2>4, FS_Union
    <3>4. QED
      BY <1>2, <2>4, <3>1, <3>2, <3>3, FS_CardinalityType
  <2>6. Cardinality(Silent') <= Cardinality(Silent \cup batch["bot"]) /\ Cardinality(Silent') \in Nat
    BY <2>3, <2>5, FS_Subset, FS_CardinalityType
  <2>7. crashes' * Limit = crashes * Limit + Limit /\ crashes * Limit \in Int
    BY <1>0, <1>7, SMT
  <2>8. QED
    BY <1>0, <1>2, <2>4, <2>5, <2>6, <2>7 DEF NothingStoredSilently
<1>8. QED
  BY <1>4, <1>5, <1>6, <1>7, AccountSteps

\* A row that nobody stored on purpose and the loop never gets costs a crash,
\* and a crash leaves no more of them than one poll takes.
THEOREM StoredProved == Spec => []NothingStoredSilently
<1>1. Init => NothingStoredSilently
  <2>1. Init => Silent = {} /\ crashes = 0
    BY DEF Init, Silent
  <2>2. 0 * Limit = 0
    BY IngestionAssumption
  <2>3. QED
    BY <2>1, <2>2, FS_EmptySet DEF NothingStoredSilently
<1>2. QED
  BY <1>1, IngestTypes, AccountProved, SilentStep, PTL DEF Spec
=============================================================================
