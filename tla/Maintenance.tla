----------------------------- MODULE Maintenance ----------------------------
(***************************************************************************)
(* The worker loop around its iterations: what it does while paused, the   *)
(* maintenance after every pass, and the daily digest, which the loop      *)
(* rebuilds through the day, announces at checkpoints and finalizes in the *)
(* evening, while the operator may rebuild, finalize or read it through    *)
(* the API or the command line, and pause and resume the loop.             *)
(*                                                                         *)
(* The checkpoints of a day are numbered by their time; the last one is    *)
(* "finalize".  A step is what happens between two awaits, or one commit   *)
(* where a step commits twice.                                             *)
(***************************************************************************)
EXTENDS Integers

CONSTANTS
  NDays,         \* bound on the clock, in days
  NCheckpoints,  \* checkpoints of a day
  Weekend,       \* the days that are a Saturday or a Sunday
  Announced,     \* the checkpoints whose webhook the settings turn on
  MaxCrashes,    \* bound on the crashes
  MaxErrors      \* bound on the exceptions

Days        == 1..NDays
Checkpoints == 1..NCheckpoints
Finalize    == NCheckpoints

ASSUME MaintenanceAssumption ==
  /\ NDays \in Nat \ {0} /\ NCheckpoints \in Nat \ {0}
  /\ Weekend \subseteq Days /\ Announced \subseteq Checkpoints
  /\ MaxCrashes \in Nat /\ MaxErrors \in Nat

VARIABLES
  day, slot,    \* the date, and how many of its checkpoints are past
  covered,      \* a pass of the loop has seen them all
  loop,         \* the loop's task: running, died, or the process is down
  paused,
  pc,           \* where the loop is
  held,         \* the pass is in a login that nobody approves
  guarded,      \* the pass is inside the try of _run_loop
  date, passed, at,  \* locals of _maybe_digest_checkpoints
  digest,       \* the daily_digests table, by date
  finalizing,   \* dates of which the operator's finalize has made its first commit
  posts,        \* history: webhooks the receiver got
  crashes, errors

clockVars == <<day, slot, covered>>
passVars  == <<pc, held, guarded, date, passed, at>>
tableVars == <<digest, finalizing>>
countVars == <<crashes, errors>>
vars == <<clockVars, loop, paused, passVars, tableVars, posts, countVars>>

\* upto: the checkpoints that were past when the content was last rebuilt.
NoRow == [status |-> "none", completed |-> FALSE, upto |-> 0, sent |-> {}]

Init ==
  /\ day = 1 /\ slot = 0 /\ covered = FALSE
  /\ loop = "running" /\ paused = FALSE
  /\ pc = "sleeping" /\ held = FALSE /\ guarded = TRUE
  /\ date = 1 /\ passed = 0 /\ at = 1
  /\ digest = [d \in Days |-> NoRow] /\ finalizing = {}
  /\ posts = [d \in Days |-> [k \in Checkpoints |-> 0]]
  /\ crashes = 0 /\ errors = 0

-----------------------------------------------------------------------------
(***************************************************************************)
(* DailyDigestService: what a rebuild and the second commit of a finalize  *)
(* make of the row of a day.  The status is that of the present moment,    *)
(* whatever the date.                                                      *)
(***************************************************************************)
DayIsOver == day \in Weekend \/ slot = NCheckpoints
Upto(d)   == IF d < day THEN NCheckpoints ELSE IF d = day THEN slot ELSE 0

\* Mutant: a complete digest is rebuilt like any other.
RebuiltAlways(row, d, force) ==
  [row EXCEPT !.status = IF DayIsOver THEN "complete" ELSE "in_progress",
              !.completed = @ \/ (force /\ DayIsOver), !.upto = Upto(d)]

\* Mutant: the row is written afresh, without its marks.
RebuiltAfresh(row, d, force) ==
  IF row.status = "complete" /\ ~force THEN row
  ELSE [NoRow EXCEPT !.status = IF DayIsOver THEN "complete" ELSE "in_progress",
                     !.completed = row.completed \/ (force /\ DayIsOver), !.upto = Upto(d)]

Rebuilt(row, d, force) ==
  IF row.status = "complete" /\ ~force THEN row
  ELSE [row EXCEPT !.status = IF DayIsOver THEN "complete" ELSE "in_progress",
                   !.completed = @ \/ (force /\ DayIsOver), !.upto = Upto(d)]

\* Mutant: the rebuild that begins a finalize is not forced.
FinalizeBegunUnforced(row, d) == Rebuilt(row, d, FALSE)

FinalizeBegun(row, d) == Rebuilt(row, d, TRUE)
FinalizeEnded(row)    == [row EXCEPT !.status = "complete", !.completed = TRUE]

-----------------------------------------------------------------------------
(***************************************************************************)
(* The worker loop.                                                        *)
(***************************************************************************)
Begin(place, try) ==
  /\ loop = "running" /\ pc = "sleeping"
  /\ pc' = place /\ guarded' = try
  /\ UNCHANGED <<clockVars, loop, paused, held, date, passed, at, tableVars, posts, countVars>>

\* Mutant: a paused loop only sleeps.
BeginPausedIdle == paused /\ Begin("sleeping", guarded)

\* A paused loop still does the maintenance, outside the try.
BeginPaused    == paused /\ Begin("rebuilding", FALSE)
BeginIteration == ~paused /\ Begin("iterating", TRUE)

IterationEnds ==
  /\ ~held /\ pc = "iterating" /\ pc' = "rebuilding"
  /\ UNCHANGED <<clockVars, loop, paused, held, guarded, date, passed, at, tableVars, posts, countVars>>

\* The alert on the age of the login, the snapshots and the rebuild of today's
\* digest, if one is due: whatever they raise is caught.
LiveRebuild ==
  /\ ~held /\ pc = "rebuilding" /\ pc' = "rebuilt"
  /\ \/ digest' = [digest EXCEPT ![day] = Rebuilt(@, day, FALSE)]
     \/ UNCHANGED digest
  /\ UNCHANGED <<clockVars, loop, paused, held, guarded, date, passed, at, finalizing, posts, countVars>>

BeginChecks ==
  /\ pc = "rebuilt" /\ pc' = "checking"
  /\ date' = day /\ passed' = slot /\ at' = 1
  /\ UNCHANGED <<clockVars, loop, paused, held, guarded, tableVars, posts, countVars>>

SkipCheckpoint ==
  /\ pc = "checking" /\ at <= passed /\ at \in digest[date].sent
  /\ at' = at + 1
  /\ UNCHANGED <<clockVars, loop, paused, pc, held, guarded, date, passed, tableVars, posts, countVars>>

Announce == IF at \in Announced THEN "posting" ELSE "marking"

RunCheckpoint ==
  /\ pc = "checking" /\ at <= passed /\ at \notin digest[date].sent
  /\ IF at = Finalize
     THEN /\ digest' = [digest EXCEPT ![date] = FinalizeBegun(@, date)]
          /\ pc' = "completing"
     ELSE /\ digest' = [digest EXCEPT ![date] = Rebuilt(@, date, FALSE)]
          /\ pc' = Announce
  /\ UNCHANGED <<clockVars, loop, paused, held, guarded, date, passed, at, finalizing, posts, countVars>>

Complete ==
  /\ pc = "completing" /\ pc' = Announce
  /\ digest' = [digest EXCEPT ![date] = FinalizeEnded(@)]
  /\ UNCHANGED <<clockVars, loop, paused, held, guarded, date, passed, at, finalizing, posts, countVars>>

\* The webhook arrives or does not; the loop does not ask which.
Post ==
  /\ pc = "posting" /\ pc' = "marking"
  /\ \/ posts' = [posts EXCEPT ![date][at] = @ + 1]
     \/ UNCHANGED posts
  /\ UNCHANGED <<clockVars, loop, paused, held, guarded, date, passed, at, tableVars, countVars>>

Mark ==
  /\ pc = "marking" /\ pc' = "checking"
  /\ digest' = [digest EXCEPT ![date].sent = @ \cup {at}]
  /\ at' = at + 1
  /\ UNCHANGED <<clockVars, loop, paused, held, guarded, date, passed, finalizing, posts, countVars>>

\* The loop sleeps, and the locals of the pass are gone.
PassEnds ==
  /\ pc' = "sleeping" /\ held' = FALSE /\ guarded' = TRUE
  /\ date' = 1 /\ passed' = 0 /\ at' = 1

EndPass ==
  /\ pc = "checking" /\ at > passed
  /\ covered' = (covered \/ (date = day /\ passed = slot))
  /\ PassEnds
  /\ UNCHANGED <<day, slot, loop, paused, tableVars, posts, countVars>>

\* An exception (a locked database, say) ends the pass inside the try, and the
\* task of the loop outside of it.  The alert about it may raise as well, and
\* that exception nothing catches.
Raise ==
  /\ ~held /\ errors < MaxErrors
  /\ pc \in {"iterating", "checking", "completing", "posting", "marking"}
  /\ errors' = errors + 1
  /\ loop' \in IF guarded THEN {loop, "died"} ELSE {"died"}
  /\ PassEnds
  /\ UNCHANGED <<clockVars, paused, tableVars, posts, crashes>>

\* The calls of an iteration and the snapshots of the maintenance log in, and
\* rh.login waits for an approval on the phone without a time limit.
LoginBlocks ==
  /\ pc \in {"iterating", "rebuilding"} /\ ~held /\ held' = TRUE
  /\ UNCHANGED <<clockVars, loop, paused, pc, guarded, date, passed, at, tableVars, posts, countVars>>

LoginReturns ==
  /\ held /\ held' = FALSE
  /\ UNCHANGED <<clockVars, loop, paused, pc, guarded, date, passed, at, tableVars, posts, countVars>>

-----------------------------------------------------------------------------
(***************************************************************************)
(* The operator, through the API or, the bot running or not, the command   *)
(* line.  Any date may be named, one to come as well.                      *)
(***************************************************************************)
SetPaused(p) ==
  /\ loop # "down" /\ paused' = p
  /\ UNCHANGED <<clockVars, loop, passVars, tableVars, posts, countVars>>

Write(d, row) ==
  /\ digest' = [digest EXCEPT ![d] = row]
  /\ UNCHANGED <<clockVars, loop, paused, passVars, posts, countVars>>

ForcedRebuild(d) == Write(d, Rebuilt(digest[d], d, TRUE)) /\ UNCHANGED finalizing

\* The operator's finalize: a forced rebuild, then its completion, with whatever
\* other steps between the two commits, or none if it fails or is ended there.
BeginFinalize(d) ==
  /\ d \notin finalizing /\ finalizing' = finalizing \cup {d}
  /\ Write(d, FinalizeBegun(digest[d], d))

EndFinalize(d) ==
  /\ d \in finalizing /\ finalizing' = finalizing \ {d}
  /\ Write(d, FinalizeEnded(digest[d]))

FinalizeBreaksOff(d) ==
  /\ d \in finalizing /\ finalizing' = finalizing \ {d}
  /\ UNCHANGED <<clockVars, loop, paused, passVars, digest, posts, countVars>>

\* Reading a digest that does not exist yet makes it.
ApiRead(d) ==
  /\ loop # "down" /\ digest[d] = NoRow
  /\ Write(d, Rebuilt(NoRow, d, FALSE)) /\ UNCHANGED finalizing

-----------------------------------------------------------------------------
Crash ==
  /\ loop # "down" /\ crashes < MaxCrashes
  /\ crashes' = crashes + 1
  /\ loop' = "down" /\ paused' = FALSE /\ PassEnds
  /\ UNCHANGED <<clockVars, tableVars, posts, errors>>

Restart ==
  /\ loop = "down" /\ loop' = "running"
  /\ UNCHANGED <<clockVars, paused, passVars, tableVars, posts, countVars>>

\* Checkpoints are hours apart and a pass takes seconds: unless the loop is down
\* or died, or a login holds it, some pass is completed between two of them.
Tick ==
  /\ covered \/ loop # "running" \/ held
  /\ \/ slot < NCheckpoints /\ slot' = slot + 1 /\ UNCHANGED day
     \/ slot = NCheckpoints /\ day < NDays /\ day' = day + 1 /\ slot' = 0
  /\ covered' = FALSE
  /\ UNCHANGED <<loop, paused, passVars, tableVars, posts, countVars>>

-----------------------------------------------------------------------------
Loop ==
  \/ BeginPaused \/ BeginIteration \/ IterationEnds \/ LiveRebuild \/ BeginChecks
  \/ SkipCheckpoint \/ RunCheckpoint \/ Complete \/ Post \/ Mark \/ EndPass

Login == LoginBlocks \/ LoginReturns

Operator ==
  \/ \E p \in BOOLEAN : SetPaused(p)
  \/ \E d \in Days : \/ ForcedRebuild(d) \/ ApiRead(d)
                     \/ BeginFinalize(d) \/ EndFinalize(d) \/ FinalizeBreaksOff(d)

Next == Loop \/ Raise \/ Login \/ Operator \/ Crash \/ Restart \/ Tick

Spec == Init /\ [][Next]_vars

\* The event loop runs the task, and what it awaits ends, a login apart.  Logins,
\* the operator, the clock, exceptions, crashes and restarts owe nothing.
FairSpec == Spec /\ WF_vars(Loop)

-----------------------------------------------------------------------------
(***************************************************************************)
(* Properties.                                                             *)
(***************************************************************************)
Rows == [status : {"none", "in_progress", "complete"}, completed : BOOLEAN,
         upto : 0..NCheckpoints, sent : SUBSET Checkpoints]

\* Every variable has its type.
TypeOK ==
  /\ day \in Days /\ slot \in 0..NCheckpoints /\ covered \in BOOLEAN
  /\ loop \in {"running", "died", "down"} /\ paused \in BOOLEAN
  /\ pc \in {"sleeping", "iterating", "rebuilding", "rebuilt", "checking", "completing",
             "posting", "marking"}
  /\ held \in BOOLEAN /\ guarded \in BOOLEAN /\ finalizing \subseteq Days
  /\ date \in Days /\ passed \in 0..NCheckpoints /\ at \in 1..(NCheckpoints + 1)
  /\ digest \in [Days -> Rows]
  /\ posts \in [Days -> [Checkpoints -> Nat]]
  /\ crashes \in 0..MaxCrashes /\ errors \in 0..MaxErrors

\* What the loop finalized covers the whole day and has its completion time,
\* even if the operator had finalized the digest early, or rebuilds it later.
FinalCoversDay ==
  \A d \in Days : Finalize \in digest[d].sent =>
    digest[d].completed /\ digest[d].upto = NCheckpoints

\* A checkpoint of a day is announced once, and once more at most for every
\* crash or exception that comes between the webhook and its mark.
AnnouncedOnce ==
  \A d \in Days, k \in Checkpoints : posts[d][k] <= 1 + crashes + errors

\* Only the operator takes a complete digest back, by a forced rebuild or by the
\* one a finalize begins with, and only while a trading day is not over: the
\* loop never does, whatever it overtakes, and not between the two commits of its
\* own finalize either, where a crash would leave the digest in progress.
CompleteKept ==
  [][\A d \in Days : (digest[d].status = "complete" /\ digest'[d].status # "complete")
                       => ~DayIsOver /\ (ForcedRebuild(d) \/ BeginFinalize(d))]_vars

\* On every evening that finds the loop running, paused or not, the digest of
\* the day is finalized, unless a login holds the loop or its task ends.
EveningFinalizes ==
  \A d \in Days : (day = d /\ slot = NCheckpoints /\ loop = "running")
                    ~> (Finalize \in digest[d].sent \/ loop # "running" \/ held)

=============================================================================
