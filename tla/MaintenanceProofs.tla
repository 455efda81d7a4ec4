-------------------------- MODULE MaintenanceProofs --------------------------
(***************************************************************************)
(* Theorems about Maintenance, for any number of days and checkpoints, any *)
(* settings of the webhooks, and any number of crashes and exceptions.     *)
(***************************************************************************)
EXTENDS Maintenance, TLAPS

(***************************************************************************)
(* Rows of the daily_digests table.                                        *)
(***************************************************************************)
\* A rebuild and the completion of a finalize make rows, and leave the marks alone.
LEMMA RowFacts ==
  ASSUME NEW row \in Rows, NEW d \in Days, NEW force \in BOOLEAN, slot \in 0..NCheckpoints
  PROVE  /\ Rebuilt(row, d, force) \in Rows /\ FinalizeEnded(row) \in Rows
         /\ Rebuilt(row, d, force).sent = row.sent /\ FinalizeEnded(row).sent = row.sent
<1> USE DEF Rows
<1>1. Upto(d) \in 0..NCheckpoints
  BY MaintenanceAssumption DEF Upto
<1>2. DayIsOver \in BOOLEAN
  BY DEF DayIsOver
<1>3. Rebuilt(row, d, force) \in Rows /\ Rebuilt(row, d, force).sent = row.sent
  <2> HIDE DEF DayIsOver, Upto
  <2> QED BY <1>1, <1>2 DEF Rebuilt
<1>4. FinalizeEnded(row) \in Rows /\ FinalizeEnded(row).sent = row.sent
  BY DEF FinalizeEnded
<1>5. QED
  BY <1>3, <1>4

\* A rebuild keeps what is completed, and covers a day that is over.
Over(d) == d < day \/ (d = day /\ slot = NCheckpoints)

LEMMA CoverFacts ==
  ASSUME NEW row \in Rows, NEW d \in Days, NEW force \in BOOLEAN, slot \in 0..NCheckpoints,
         day \in Days, Over(d)
  PROVE  /\ row.completed => Rebuilt(row, d, force).completed /\ FinalizeEnded(row).completed
         /\ row.upto = NCheckpoints => /\ Rebuilt(row, d, force).upto = NCheckpoints
                                       /\ FinalizeEnded(row).upto = NCheckpoints
         /\ Rebuilt(row, d, TRUE).upto = NCheckpoints
         /\ FinalizeEnded(row).completed
<1> USE DEF Rows
<1>1. Upto(d) = NCheckpoints
  BY MaintenanceAssumption DEF Upto, Over, Days
<1>2. DayIsOver \in BOOLEAN
  BY DEF DayIsOver
<1>3. /\ row.completed => Rebuilt(row, d, force).completed
      /\ row.upto = NCheckpoints => Rebuilt(row, d, force).upto = NCheckpoints
  <2> HIDE DEF DayIsOver, Upto
  <2> QED BY <1>1, <1>2 DEF Rebuilt
<1>4. Rebuilt(row, d, TRUE).upto = NCheckpoints
  <2>1. Rebuilt(row, d, TRUE).upto = Upto(d)
    BY DEF Rebuilt
  <2>2. QED
    BY <1>1, <2>1
<1>5. FinalizeEnded(row).completed /\ FinalizeEnded(row).upto = row.upto
  BY DEF FinalizeEnded
<1>6. QED
  BY <1>3, <1>4, <1>5

\* A complete row stays complete, unless a rebuild is forced before the day is over.
LEMMA CompleteFacts ==
  ASSUME NEW row \in Rows, NEW d \in Days
  PROVE  /\ row.status = "complete" => Rebuilt(row, d, FALSE).status = "complete"
         /\ DayIsOver => Rebuilt(row, d, TRUE).status = "complete"
         /\ FinalizeEnded(row).status = "complete"
<1>1. row.status = "complete" => Rebuilt(row, d, FALSE) = row
  BY DEF Rebuilt
<1>2. DayIsOver => Rebuilt(row, d, TRUE).status = "complete"
  <2> HIDE DEF DayIsOver, Upto
  <2> QED BY DEF Rebuilt, Rows
<1>3. FinalizeEnded(row).status = "complete"
  BY DEF FinalizeEnded, Rows
<1>4. QED
  BY <1>1, <1>2, <1>3

-----------------------------------------------------------------------------
(***************************************************************************)
(* What the steps do to the table and to the posts.                        *)
(***************************************************************************)
\* The rows a step may write: at one date, one of three.
Writes(d, row) ==
  row \in {Rebuilt(digest[d], d, FALSE), Rebuilt(digest[d], d, TRUE), FinalizeEnded(digest[d])}

\* Every step but Mark leaves the table alone or writes one such row.
LEMMA TableStep ==
  ASSUME TypeOK, [Next]_vars
  PROVE  \/ UNCHANGED digest
         \/ Mark
         \/ \E d \in Days : \E row : digest' = [digest EXCEPT ![d] = row] /\ Writes(d, row)
<1> USE DEF TypeOK, Writes
<1>1. CASE LiveRebuild
  BY <1>1 DEF LiveRebuild
<1>2. CASE RunCheckpoint
  BY <1>2 DEF RunCheckpoint, FinalizeBegun
<1>8. CASE Complete
  BY <1>8 DEF Complete
<1>3. ASSUME NEW d \in Days, ForcedRebuild(d) \/ BeginFinalize(d) \/ EndFinalize(d) \/ ApiRead(d)
      PROVE \E row : digest' = [digest EXCEPT ![d] = row] /\ Writes(d, row)
  BY <1>3 DEF ForcedRebuild, BeginFinalize, FinalizeBegun, EndFinalize, ApiRead, Write
<1>4. CASE BeginPaused \/ BeginIteration \/ IterationEnds \/ BeginChecks
  BY <1>4 DEF BeginPaused, BeginIteration, Begin, IterationEnds, BeginChecks, tableVars
<1>5. CASE SkipCheckpoint \/ Post \/ EndPass \/ Raise
  BY <1>5 DEF SkipCheckpoint, Post, EndPass, Raise, tableVars
<1>6. CASE \/ \E p \in BOOLEAN : SetPaused(p)
           \/ \E d \in Days : FinalizeBreaksOff(d)
           \/ Login \/ Crash \/ Restart \/ Tick \/ UNCHANGED vars
  BY <1>6 DEF SetPaused, FinalizeBreaksOff, Login, LoginBlocks, LoginReturns, Crash, Restart,
              Tick, vars, tableVars
<1>7. QED
  BY <1>1, <1>2, <1>3, <1>4, <1>5, <1>6, <1>8 DEF Next, Loop, Operator

\* Where the loop is: only a running loop is anywhere but asleep, a login holds it
\* in two places, a pass looks at a date that has come and at checkpoints that
\* are past, and what it announces or marks is one of them, not yet marked.
Checking == {"checking", "completing", "posting", "marking"}

PlaceInv ==
  /\ pc # "sleeping" => loop = "running"
  /\ held => pc \in {"iterating", "rebuilding"}
  /\ pc \in Checking => date < day \/ (date = day /\ passed <= slot)
  /\ pc \in Checking \ {"checking"} => at <= passed /\ at \notin digest[date].sent
  /\ pc = "completing" => at = Finalize

\* Every step keeps the types.
LEMMA TypeStep == TypeOK /\ PlaceInv /\ [Next]_vars => TypeOK'
<1> SUFFICES ASSUME TypeOK, PlaceInv, [Next]_vars PROVE TypeOK'
  OBVIOUS
<1>1. (digest \in [Days -> Rows])'
  <2>1. ASSUME NEW d \in Days, NEW row, Writes(d, row), digest' = [digest EXCEPT ![d] = row]
        PROVE  digest' \in [Days -> Rows]
    <3>1. digest[d] \in Rows /\ slot \in 0..NCheckpoints /\ TRUE \in BOOLEAN /\ FALSE \in BOOLEAN
      BY DEF TypeOK
    <3>2. /\ Rebuilt(digest[d], d, FALSE) \in Rows /\ Rebuilt(digest[d], d, TRUE) \in Rows
          /\ FinalizeEnded(digest[d]) \in Rows
      BY ONLY <3>1, RowFacts, d \in Days
    <3>3. row \in Rows
      BY ONLY <2>1, <3>2 DEF Writes
    <3>4. QED
      BY <2>1, <3>3 DEF TypeOK
  <2>2. CASE Mark
    <3>1. at \in Checkpoints /\ date \in Days /\ digest[date] \in Rows
      BY <2>2, MaintenanceAssumption DEF Mark, TypeOK, Checkpoints, PlaceInv, Checking
    <3>2. [digest[date] EXCEPT !.sent = @ \cup {at}] \in Rows
      BY <3>1 DEF Rows
    <3>3. QED
      BY <2>2, <3>1, <3>2 DEF Mark, TypeOK
  <2>3. QED
    BY <2>1, <2>2, TableStep DEF TypeOK
<1>2. (posts \in [Days -> [Checkpoints -> Nat]])'
  <2>1. CASE Post
    <3>1. at \in Checkpoints /\ date \in Days
      BY <2>1, MaintenanceAssumption DEF Post, TypeOK, Checkpoints, PlaceInv, Checking
    <3>2. QED
      BY <2>1, <3>1 DEF Post, TypeOK
  <2>2. CASE ~Post
    <3>1. UNCHANGED posts
      BY <2>2 DEF Next, Loop, Operator, BeginPaused, BeginIteration, Begin, IterationEnds,
                  LiveRebuild, BeginChecks, SkipCheckpoint, RunCheckpoint, Complete, Mark, EndPass, Raise,
                  SetPaused, ForcedRebuild, BeginFinalize, EndFinalize, FinalizeBreaksOff, ApiRead, Write, Login, LoginBlocks,
                  LoginReturns, Crash, Restart, Tick, vars
    <3>2. QED
      BY <3>1 DEF TypeOK
  <2>3. QED
    BY <2>1, <2>2
<1> DEFINE Rest ==
      /\ day \in Days /\ slot \in 0..NCheckpoints /\ covered \in BOOLEAN
      /\ loop \in {"running", "died", "down"} /\ paused \in BOOLEAN
      /\ pc \in {"sleeping", "iterating", "rebuilding", "rebuilt"} \cup Checking
      /\ held \in BOOLEAN /\ guarded \in BOOLEAN /\ finalizing \subseteq Days
      /\ date \in Days /\ passed \in 0..NCheckpoints /\ at \in 1..(NCheckpoints + 1)
      /\ crashes \in 0..MaxCrashes /\ errors \in 0..MaxErrors
<1>3. Rest /\ Days \subseteq Nat /\ NCheckpoints \in Nat \ {0}
  BY MaintenanceAssumption DEF TypeOK, Days, Checking
<1>a. ASSUME PassEnds PROVE /\ pc' = "sleeping" /\ held' \in BOOLEAN /\ guarded' \in BOOLEAN
                            /\ date' \in Days /\ passed' \in 0..NCheckpoints
                            /\ at' \in 1..(NCheckpoints + 1)
  <2>1. 1 \in Days /\ 0 \in 0..NCheckpoints /\ 1 \in 1..(NCheckpoints + 1)
    BY MaintenanceAssumption DEF Days
  <2>2. QED
    BY <1>a, <2>1 DEF PassEnds
<1>4. ASSUME Loop PROVE Rest'
  <2> USE <1>3 DEF clockVars, countVars, tableVars, Checking
  <2>1. CASE BeginPaused \/ BeginIteration \/ IterationEnds \/ LiveRebuild
    BY <2>1 DEF BeginPaused, BeginIteration, Begin, IterationEnds, LiveRebuild
  <2>6. CASE BeginChecks
    <3>1. date' \in Days /\ passed' \in 0..NCheckpoints /\ at' \in 1..(NCheckpoints + 1)
      BY <2>6 DEF BeginChecks
    <3>2. QED
      BY <2>6, <3>1 DEF BeginChecks
  <2>2. CASE SkipCheckpoint
    BY <2>2 DEF SkipCheckpoint
  <2>3. CASE RunCheckpoint \/ Complete \/ Post
    BY <2>3 DEF RunCheckpoint, Complete, Post, Announce
  <2>7. CASE EndPass
    BY <1>a, <2>7 DEF EndPass
  <2>4. CASE Mark
    <3>1. at + 1 \in 1..(NCheckpoints + 1)
      BY <2>4 DEF Mark, PlaceInv
    <3>2. QED
      BY <2>4, <3>1 DEF Mark
  <2>5. QED
    BY <1>4, <2>1, <2>2, <2>3, <2>4, <2>6, <2>7 DEF Loop
<1>5. ASSUME Raise \/ Crash \/ Restart PROVE Rest'
  <2>1. crashes' \in 0..MaxCrashes /\ errors' \in 0..MaxErrors
    BY <1>3, <1>5, MaintenanceAssumption DEF Raise, Crash, Restart, countVars
  <2>2. QED
    BY <1>3, <1>5, <1>a, <2>1 DEF Raise, Crash, Restart, clockVars, passVars, tableVars
<1>6. ASSUME Operator \/ Login \/ UNCHANGED vars PROVE Rest'
  BY <1>3, <1>6 DEF Operator, SetPaused, ForcedRebuild, BeginFinalize, EndFinalize, FinalizeBreaksOff, ApiRead, Write, Login, LoginBlocks, LoginReturns, vars, clockVars,
                    countVars, passVars, tableVars
<1>7. ASSUME Tick PROVE Rest'
  <2>1. day' \in Days /\ slot' \in 0..NCheckpoints
    BY <1>3, <1>7, MaintenanceAssumption DEF Tick, Days
  <2>2. QED
    BY <1>3, <1>7, <2>1 DEF Tick, countVars, passVars, tableVars
<1>8. Rest'
  BY <1>4, <1>5, <1>6, <1>7 DEF Next
<1>9. QED
  BY <1>1, <1>2, <1>8 DEF TypeOK, Checking

\* Every step but Mark leaves the marks alone, and Mark adds one.
LEMMA SentStep ==
  ASSUME TypeOK, [Next]_vars, NEW d \in Days
  PROVE  /\ ~Mark => digest'[d].sent = digest[d].sent
         /\ Mark => digest'[d].sent = IF d = date THEN digest[d].sent \cup {at} ELSE digest[d].sent
<1>0. digest \in [Days -> Rows] /\ slot \in 0..NCheckpoints /\ digest[d] \in Rows
  BY DEF TypeOK
<1>1. ASSUME NEW e \in Days, NEW row, Writes(e, row) PROVE row.sent = digest[e].sent
  <2>1. digest[e] \in Rows /\ TRUE \in BOOLEAN /\ FALSE \in BOOLEAN
    BY <1>0
  <2>2. /\ Rebuilt(digest[e], e, FALSE).sent = digest[e].sent
        /\ Rebuilt(digest[e], e, TRUE).sent = digest[e].sent
        /\ FinalizeEnded(digest[e]).sent = digest[e].sent
    BY ONLY <1>0, <2>1, RowFacts, e \in Days
  <2>3. QED
    BY <1>1, <2>2 DEF Writes
<1>2. ~Mark => digest'[d].sent = digest[d].sent
  BY <1>0, <1>1, TableStep
<1>3. ASSUME Mark
      PROVE  digest'[d].sent = IF d = date THEN digest[d].sent \cup {at} ELSE digest[d].sent
  <2>1. digest' = [digest EXCEPT ![date] = [digest[date] EXCEPT !.sent = @ \cup {at}]]
    BY <1>3 DEF Mark
  <2>2. [digest[d] EXCEPT !.sent = @ \cup {at}].sent = digest[d].sent \cup {at}
    BY <1>0 DEF Rows
  <2>3. QED
    BY <1>0, <2>1, <2>2
<1>4. QED
  BY <1>2, <1>3

\* Every step keeps PlaceInv.
LEMMA PlaceStep == TypeOK /\ PlaceInv /\ [Next]_vars => PlaceInv'
<1> SUFFICES ASSUME TypeOK, PlaceInv, [Next]_vars PROVE PlaceInv'
  OBVIOUS
<1> USE DEF PlaceInv, Checking
<1>0. /\ day \in Nat /\ slot \in Nat /\ date \in Days /\ date \in Nat /\ passed \in Nat /\ at \in Nat
      /\ digest \in [Days -> Rows]
  BY MaintenanceAssumption DEF TypeOK, Days
<1>a. ~Mark => digest'[date].sent = digest[date].sent
  BY <1>0, SentStep
<1>1. CASE BeginPaused \/ BeginIteration \/ IterationEnds \/ LiveRebuild
  <2>1. pc' \in {"iterating", "rebuilding", "rebuilt"} /\ loop' = "running" /\ held' = held
        /\ (held => pc' \in {"iterating", "rebuilding"})
    BY <1>1 DEF BeginPaused, BeginIteration, Begin, IterationEnds, LiveRebuild
  <2>2. QED
    BY <2>1
<1>2. CASE EndPass \/ Raise \/ Crash
  BY <1>2 DEF EndPass, Raise, Crash, PassEnds
<1>3. CASE BeginChecks
  BY <1>0, <1>3 DEF BeginChecks, clockVars
<1>4. CASE SkipCheckpoint \/ Mark
  BY <1>0, <1>4 DEF SkipCheckpoint, Mark, clockVars
<1>5. CASE RunCheckpoint \/ Complete \/ Post
  <2>1. ~Mark
    BY <1>5 DEF RunCheckpoint, Complete, Post, Mark
  <2>2. /\ UNCHANGED <<day, slot, loop, held, date, passed, at>> /\ pc \in Checking
        /\ pc' \in Checking \ {"checking"} /\ (pc' = "completing" => at = Finalize)
        /\ pc = "checking" => at <= passed /\ at \notin digest[date].sent
    BY <1>5 DEF RunCheckpoint, Complete, Post, Announce, clockVars
  <2>3. digest'[date'].sent = digest[date].sent
    BY <1>a, <2>1, <2>2
  <2>4. QED
    BY <1>0, <2>2, <2>3
<1>6. CASE Restart \/ Login \/ UNCHANGED vars
  BY <1>6 DEF Restart, Login, LoginBlocks, LoginReturns, vars, clockVars, passVars, tableVars
<1>7. CASE Tick
  BY <1>0, <1>7 DEF Tick, passVars, tableVars
<1>8. CASE Operator
  <2>1. UNCHANGED <<day, slot, passVars>> /\ (pc # "sleeping" => loop' = loop)
    BY <1>8 DEF Operator, SetPaused, ForcedRebuild, BeginFinalize, EndFinalize,
                FinalizeBreaksOff, ApiRead, Write, clockVars
  <2>2. CASE Mark
    BY <1>4, <2>2
  <2>3. QED
    BY <1>a, <2>1, <2>2 DEF passVars
<1>9. QED
  BY <1>1, <1>2, <1>3, <1>4, <1>5, <1>6, <1>7, <1>8 DEF Next, Loop

\* TypeOK and PlaceInv hold in every reachable state.
THEOREM MaintenanceTypes == Spec => [](TypeOK /\ PlaceInv)
<1>1. Init => TypeOK /\ PlaceInv
  <2> SUFFICES ASSUME Init PROVE TypeOK /\ PlaceInv
    OBVIOUS
  <2>1. NoRow \in Rows
    BY MaintenanceAssumption DEF NoRow, Rows
  <2>2. /\ day \in Days /\ date \in Days /\ slot \in 0..NCheckpoints
        /\ passed \in 0..NCheckpoints /\ at \in 1..(NCheckpoints + 1)
        /\ crashes \in 0..MaxCrashes /\ errors \in 0..MaxErrors
    BY MaintenanceAssumption DEF Init, Days
  <2>3. digest \in [Days -> Rows] /\ posts \in [Days -> [Checkpoints -> Nat]]
    BY <2>1 DEF Init
  <2>4. QED
    BY <2>2, <2>3 DEF Init, TypeOK, PlaceInv, Checking
<1>2. QED
  BY <1>1, TypeStep, PlaceStep, PTL DEF Spec

-----------------------------------------------------------------------------
(***************************************************************************)
(* The operator and the digest of the evening.                             *)
(***************************************************************************)
\* Checkpoints that a pass has seen are marked: those of the present if a pass
\* has seen them all, those before the one a pass looks at, and all of a pass
\* that the clock has overtaken.
SeenInv ==
  /\ covered => \A k \in 1..slot : k \in digest[day].sent
  /\ pc \in Checking => \A k \in 1..passed : k < at => k \in digest[date].sent
  /\ pc \in Checking => \/ date = day /\ passed = slot
                        \/ \A k \in 1..passed : k \in digest[date].sent

\* Every step keeps SeenInv.
LEMMA SeenStep == TypeOK /\ PlaceInv /\ SeenInv /\ [Next]_vars => SeenInv'
<1> SUFFICES ASSUME TypeOK, PlaceInv, SeenInv, [Next]_vars PROVE SeenInv'
  OBVIOUS
<1> USE DEF SeenInv, Checking
<1>0. /\ day \in Days /\ day \in Nat /\ slot \in Nat /\ date \in Days /\ date \in Nat
      /\ passed \in Nat /\ at \in Nat
  BY MaintenanceAssumption DEF TypeOK, Days
<1>1. \A d \in Days : digest[d].sent \subseteq digest'[d].sent
  BY SentStep
<1>2. CASE EndPass
  <2>1. /\ pc' = "sleeping" /\ UNCHANGED <<day, slot, digest>> /\ pc = "checking" /\ at > passed
        /\ (covered' => covered \/ (date = day /\ passed = slot))
    BY <1>2 DEF EndPass, PassEnds, tableVars
  <2>2. \A k \in 1..passed : k \in digest[date].sent
    BY <1>0, <2>1
  <2>3. covered' => \A k \in 1..slot : k \in digest[day].sent
    BY <2>1, <2>2
  <2>4. QED
    BY <2>1, <2>3
<1>3. CASE Mark
  <2>1. /\ pc = "marking" /\ UNCHANGED <<day, slot, covered, date, passed>> /\ at' = at + 1
        /\ at \in digest'[date].sent
    BY <1>0, <1>3, SentStep DEF Mark, clockVars
  <2>2. QED
    BY <1>0, <1>1, <2>1
<1>4. CASE SkipCheckpoint
  <2>1. /\ pc = "checking" /\ UNCHANGED <<day, slot, covered, date, passed, digest>> /\ at' = at + 1
        /\ at \in digest[date].sent
    BY <1>4 DEF SkipCheckpoint, clockVars, tableVars
  <2>2. QED
    BY <1>0, <2>1
<1>5. CASE BeginChecks
  <2>1. /\ UNCHANGED <<day, slot, covered, digest>>
        /\ date' = day' /\ passed' = slot' /\ at' = 1
    BY <1>5 DEF BeginChecks, clockVars, tableVars
  <2>2. QED
    BY <1>0, <2>1
<1>6. CASE Tick
  <2>1. ~covered' /\ UNCHANGED <<pc, date, passed, at, digest>>
        /\ (covered \/ loop # "running" \/ held)
    BY <1>6 DEF Tick, passVars, tableVars
  <2>2. pc \in Checking => covered
    BY <2>1 DEF PlaceInv
  <2>3. QED
    BY <1>0, <2>1, <2>2
<1>7. ASSUME UNCHANGED <<day, slot, covered>>,
             pc' \in Checking => pc \in Checking /\ UNCHANGED <<date, passed, at>>
      PROVE  SeenInv'
  BY <1>0, <1>1, <1>7
<1>8. CASE \/ BeginPaused \/ BeginIteration \/ IterationEnds \/ LiveRebuild \/ RunCheckpoint
           \/ Complete \/ Post
  BY <1>7, <1>8 DEF BeginPaused, BeginIteration, Begin, IterationEnds, LiveRebuild,
                    RunCheckpoint, Complete, Post, clockVars
<1>9. CASE Raise \/ Login \/ Operator \/ Crash \/ Restart \/ UNCHANGED vars
  BY <1>7, <1>9 DEF Raise, Login, LoginBlocks, LoginReturns, Operator, SetPaused, ForcedRebuild,
       BeginFinalize, EndFinalize, FinalizeBreaksOff, ApiRead, Write, Crash, Restart, PassEnds,
       vars, clockVars, passVars
<1>10. QED
  BY <1>2, <1>3, <1>4, <1>5, <1>6, <1>8, <1>9 DEF Next, Loop

\* TypeOK, PlaceInv and SeenInv hold in every reachable state.
LEMMA SeenCorrect == Spec => [](TypeOK /\ PlaceInv /\ SeenInv)
<1>1. Init => SeenInv
  BY DEF Init, SeenInv, Checking
<1>2. QED
  BY <1>1, MaintenanceTypes, SeenStep, PTL DEF Spec

\* A checkpoint that is not marked is of the present day: the loop finalizes
\* nothing but a day that is just over.
LEMMA RunIsTimely ==
  ASSUME TypeOK, PlaceInv, SeenInv, RunCheckpoint PROVE date = day /\ at <= slot
<1>1. at \in 1..passed /\ at \notin digest[date].sent /\ pc \in Checking
  BY MaintenanceAssumption DEF RunCheckpoint, TypeOK, Checking
<1>2. QED
  BY <1>1 DEF SeenInv

\* No step but the operator's forced rebuilds takes a complete digest back, and
\* those only while the day is not over.
THEOREM CompleteProved == Spec => CompleteKept
<1> DEFINE A == \A d \in Days : (digest[d].status = "complete" /\ digest'[d].status # "complete")
                                  => ~DayIsOver /\ (ForcedRebuild(d) \/ BeginFinalize(d))
<1>1. TypeOK /\ PlaceInv /\ SeenInv /\ [Next]_vars => [A]_vars
  <2> SUFFICES ASSUME TypeOK, PlaceInv, SeenInv, [Next]_vars, NEW d \in Days,
                      digest[d].status = "complete", digest'[d].status # "complete"
               PROVE  ~DayIsOver /\ (ForcedRebuild(d) \/ BeginFinalize(d))
    BY DEF A
  <2>1. digest \in [Days -> Rows] /\ digest[d] \in Rows /\ date \in Days
    BY DEF TypeOK
  <2>2. /\ Rebuilt(digest[d], d, FALSE).status = "complete"
        /\ DayIsOver => Rebuilt(digest[d], d, TRUE).status = "complete"
        /\ FinalizeEnded(digest[d]).status = "complete"
    BY <2>1, CompleteFacts
  <2>3. ~LiveRebuild /\ ~Complete
    BY <2>1, <2>2 DEF LiveRebuild, Complete
  <2>4. ~RunCheckpoint
    <3>1. ASSUME RunCheckpoint PROVE FALSE
      <4>1. at = Finalize => DayIsOver
        BY <3>1, RunIsTimely, MaintenanceAssumption DEF DayIsOver, Finalize, TypeOK
      <4>2. QED
        BY <2>1, <2>2, <3>1, <4>1 DEF RunCheckpoint, FinalizeBegun
    <3>2. QED
      BY <3>1
  <2>5. ~Mark
    BY <2>1 DEF Mark, Rows
  <2>6. \A e \in Days : ~EndFinalize(e) /\ ~ApiRead(e)
    BY <2>1, <2>2 DEF EndFinalize, ApiRead, Write, NoRow
  <2>7. digest' # digest
    BY <2>1
  <2>8. PICK e \in Days : ForcedRebuild(e) \/ BeginFinalize(e)
    BY <2>3, <2>4, <2>5, <2>6, <2>7
       DEF Next, Loop, Operator, BeginPaused, BeginIteration, Begin, IterationEnds, BeginChecks,
           SkipCheckpoint, Post, EndPass, Raise, Login, LoginBlocks, LoginReturns, SetPaused,
           FinalizeBreaksOff, Crash, Restart, Tick, vars, tableVars
  <2>9. digest' = [digest EXCEPT ![e] = Rebuilt(digest[e], e, TRUE)]
    BY <2>8 DEF ForcedRebuild, BeginFinalize, FinalizeBegun, Write
  <2>10. e = d
    BY <2>1, <2>9
  <2>11. QED
    BY <2>1, <2>2, <2>8, <2>9, <2>10
<1>2. QED
  BY <1>1, SeenCorrect, PTL DEF Spec, CompleteKept

\* What is completed, and what covers its day, stays so at any date that is over.
LEMMA CoverStep ==
  ASSUME TypeOK, [Next]_vars, ~Mark, NEW d \in Days, Over(d)
  PROVE  /\ digest[d].completed => digest'[d].completed
         /\ digest[d].upto = NCheckpoints => digest'[d].upto = NCheckpoints
<1>0. /\ digest \in [Days -> Rows] /\ digest[d] \in Rows /\ slot \in 0..NCheckpoints
      /\ day \in Days
  BY DEF TypeOK
<1>1. \A row : Writes(d, row) =>
        /\ digest[d].completed => row.completed
        /\ digest[d].upto = NCheckpoints => row.upto = NCheckpoints
  <2>1. \A f \in BOOLEAN :
          /\ digest[d].completed => Rebuilt(digest[d], d, f).completed
          /\ digest[d].upto = NCheckpoints => Rebuilt(digest[d], d, f).upto = NCheckpoints
    BY <1>0, CoverFacts
  <2>2. /\ FinalizeEnded(digest[d]).completed
        /\ digest[d].upto = NCheckpoints => FinalizeEnded(digest[d]).upto = NCheckpoints
    BY <1>0, CoverFacts
  <2>3. QED
    BY <2>1, <2>2 DEF Writes
<1>2. QED
  BY <1>0, <1>1, TableStep

\* A day that is over stays so.
LEMMA OverStep == ASSUME TypeOK, [Next]_vars, NEW d \in Days, Over(d) PROVE Over(d)'
<1>0. day \in Nat /\ slot \in 0..NCheckpoints /\ NCheckpoints \in Nat /\ d \in Nat
  BY MaintenanceAssumption DEF TypeOK, Days
<1>1. CASE Tick
  BY <1>0, <1>1 DEF Tick, Over
<1>2. CASE ~Tick
  <2>1. UNCHANGED <<day, slot>>
    BY <1>2 DEF Next, Loop, Operator, BeginPaused, BeginIteration, Begin, IterationEnds,
                LiveRebuild, BeginChecks, SkipCheckpoint, RunCheckpoint, Complete, Post, Mark,
                EndPass, Raise, Login, LoginBlocks, LoginReturns, SetPaused, ForcedRebuild,
                BeginFinalize, EndFinalize, FinalizeBreaksOff, ApiRead, Write, Crash, Restart,
                clockVars, vars
  <2>2. QED
    BY <2>1 DEF Over
<1>3. QED
  BY <1>1, <1>2

\* What the loop finalizes is a day that was over: its first commit covers the
\* day, and its second one adds the completion time.
FinalInv ==
  /\ \A d \in Days : Finalize \in digest[d].sent =>
       Over(d) /\ digest[d].completed /\ digest[d].upto = NCheckpoints
  /\ pc \in Checking \ {"checking"} /\ at = Finalize =>
       Over(date) /\ digest[date].upto = NCheckpoints
  /\ pc \in {"posting", "marking"} /\ at = Finalize => digest[date].completed

\* Every step keeps FinalInv.
LEMMA FinalStep == TypeOK /\ PlaceInv /\ FinalInv /\ [Next]_vars => FinalInv'
<1> SUFFICES ASSUME TypeOK, PlaceInv, FinalInv, [Next]_vars PROVE FinalInv'
  OBVIOUS
<1>0. /\ digest \in [Days -> Rows] /\ date \in Days /\ at \in 1..(NCheckpoints + 1)
      /\ passed \in 0..NCheckpoints /\ slot \in 0..NCheckpoints /\ day \in Days
      /\ NCheckpoints \in Nat \ {0} /\ day \in Nat /\ date \in Nat
  BY MaintenanceAssumption DEF TypeOK, Days
<1>1. CASE Mark
  <2>1. UNCHANGED <<day, slot, date>> /\ pc' = "checking"
    BY <1>1 DEF Mark, clockVars
  <2>2. ASSUME NEW d \in Days
        PROVE  /\ digest'[d].completed = digest[d].completed /\ digest'[d].upto = digest[d].upto
               /\ Finalize \in digest'[d].sent =>
                    Finalize \in digest[d].sent \/ (d = date /\ at = Finalize)
    <3>1. digest[d] \in Rows
      BY <1>0
    <3>2. QED
      BY <1>0, <1>1, <3>1 DEF Mark, Rows
  <2>3. pc = "marking"
    BY <1>1 DEF Mark
  <2>4. QED
    BY <2>1, <2>2, <2>3 DEF FinalInv, Over, Checking
<1>2. CASE ~Mark
  <2>1. \A d \in Days : Finalize \in digest'[d].sent =>
          (Over(d))' /\ digest'[d].completed /\ digest'[d].upto = NCheckpoints
    BY <1>2, SentStep, OverStep, CoverStep DEF FinalInv
  <2>2. CASE RunCheckpoint
    <3>1. /\ UNCHANGED <<day, slot, date, at, passed>> /\ at <= passed /\ pc = "checking"
          /\ at = Finalize => /\ pc' = "completing"
                              /\ digest' = [digest EXCEPT ![date] = Rebuilt(digest[date], date, TRUE)]
      BY <2>2 DEF RunCheckpoint, FinalizeBegun, clockVars
    <3>2. at = Finalize => Over(date)
      BY <1>0, <3>1 DEF PlaceInv, Over, Finalize, Checking
    <3>3. at = Finalize => Rebuilt(digest[date], date, TRUE).upto = NCheckpoints
      BY <1>0, <3>2, CoverFacts
    <3>4. at = Finalize => (Over(date))' /\ digest'[date'].upto = NCheckpoints /\ pc' = "completing"
      BY <1>0, <3>1, <3>2, <3>3 DEF Over
    <3>5. QED
      BY <2>1, <3>1, <3>4 DEF FinalInv
  <2>3. CASE Complete
    <3>1. /\ UNCHANGED <<day, slot, date, at, passed>> /\ pc = "completing" /\ at = Finalize
          /\ digest' = [digest EXCEPT ![date] = FinalizeEnded(digest[date])]
      BY <2>3 DEF Complete, clockVars, PlaceInv
    <3>2. Over(date) /\ digest[date].upto = NCheckpoints
      BY <3>1 DEF FinalInv, Checking
    <3>3. FinalizeEnded(digest[date]).completed /\ FinalizeEnded(digest[date]).upto = NCheckpoints
      BY <1>0, <3>2, CoverFacts
    <3>4. (Over(date))' /\ digest'[date'].completed /\ digest'[date'].upto = NCheckpoints
      BY <1>0, <3>1, <3>2, <3>3 DEF Over
    <3>5. QED
      BY <2>1, <3>4 DEF FinalInv
  <2>4. CASE ~RunCheckpoint /\ ~Complete
    <3>1. ASSUME pc' \in Checking \ {"checking"}
          PROVE  /\ pc \in Checking \ {"checking"} /\ UNCHANGED <<date, at>>
                 /\ pc' \in {"posting", "marking"} => pc \in {"posting", "marking"}
      BY <1>2, <2>4, <3>1 DEF Next, Loop, Operator, BeginPaused, BeginIteration, Begin,
         IterationEnds, LiveRebuild, BeginChecks, SkipCheckpoint, Post, EndPass, PassEnds, Raise,
         Login, LoginBlocks, LoginReturns, SetPaused, ForcedRebuild, BeginFinalize, EndFinalize,
         FinalizeBreaksOff, ApiRead, Write, Crash, Restart, Tick, passVars, vars, Checking
    <3>2. ASSUME pc' \in Checking \ {"checking"}, at' = Finalize
          PROVE  /\ (Over(date))' /\ digest'[date'].upto = NCheckpoints
                 /\ pc' \in {"posting", "marking"} => digest'[date'].completed
      <4>1. /\ Over(date) /\ digest[date].upto = NCheckpoints
            /\ pc' \in {"posting", "marking"} => digest[date].completed
        BY <3>1, <3>2 DEF FinalInv
      <4>2. (Over(date))'
        BY <1>0, <3>1, <3>2, <4>1, OverStep DEF Over
      <4>3. QED
        BY <1>0, <1>2, <3>1, <3>2, <4>1, <4>2, CoverStep
    <3>3. QED
      BY <2>1, <3>2 DEF FinalInv, Checking
  <2>5. QED
    BY <2>2, <2>3, <2>4
<1>3. QED
  BY <1>1, <1>2

\* What the loop finalized covers the whole day and has its completion time.
THEOREM FinalProved == Spec => []FinalCoversDay
<1>1. Init => FinalInv
  BY DEF Init, FinalInv, NoRow, Checking
<1>2. FinalInv => FinalCoversDay
  BY DEF FinalInv, FinalCoversDay
<1>3. QED
  BY <1>1, <1>2, MaintenanceTypes, FinalStep, PTL DEF Spec

-----------------------------------------------------------------------------
(***************************************************************************)
(* The webhooks.                                                           *)
(***************************************************************************)
\* A checkpoint that is neither marked nor about to be has been announced once
\* at most for every crash and exception; any other, once more.
PostsInv ==
  \A d \in Days, k \in Checkpoints :
    /\ posts[d][k] <= 1 + crashes + errors
    /\ k \notin digest[d].sent /\ ~(pc = "marking" /\ date = d /\ at = k)
         => posts[d][k] <= crashes + errors

\* Every step keeps PostsInv.
LEMMA PostsStep == TypeOK /\ PlaceInv /\ PostsInv /\ [Next]_vars => PostsInv'
<1> SUFFICES ASSUME TypeOK, PlaceInv, PostsInv, [Next]_vars,
                    NEW d \in Days, NEW k \in Checkpoints
             PROVE  /\ posts'[d][k] <= 1 + crashes' + errors'
                    /\ k \notin digest'[d].sent /\ ~(pc' = "marking" /\ date' = d /\ at' = k)
                         => posts'[d][k] <= crashes' + errors'
  BY DEF PostsInv
<1>0. /\ digest \in [Days -> Rows] /\ digest[d] \in Rows /\ date \in Days
      /\ posts \in [Days -> [Checkpoints -> Nat]] /\ posts[d][k] \in Nat
      /\ crashes \in Nat /\ errors \in Nat
  BY MaintenanceAssumption DEF TypeOK
<1>1. /\ posts[d][k] <= 1 + crashes + errors
      /\ k \notin digest[d].sent /\ ~(pc = "marking" /\ date = d /\ at = k)
           => posts[d][k] <= crashes + errors
  BY DEF PostsInv
<1>2. ~Mark => digest'[d].sent = digest[d].sent
  BY SentStep, Zenon
<1>3. CASE Mark
  <2>1. digest'[d].sent = IF d = date THEN digest[d].sent \cup {at} ELSE digest[d].sent
    BY <1>3, SentStep
  <2>2. UNCHANGED <<posts, crashes, errors, date>> /\ pc = "marking" /\ pc' = "checking"
    BY <1>3 DEF Mark, countVars
  <2>3. QED
    BY <1>1, <2>1, <2>2
<1>4. CASE Post
  <2>1. /\ pc = "posting" /\ pc' = "marking" /\ UNCHANGED <<digest, date, at, crashes, errors>>
        /\ \/ posts' = [posts EXCEPT ![date][at] = @ + 1]
           \/ UNCHANGED posts
    BY <1>4 DEF Post, countVars, tableVars
  <2>2. at \notin digest[date].sent
    BY <2>1 DEF PlaceInv, Checking
  <2>3. posts'[d][k] = posts[d][k] \/ (d = date /\ k = at /\ posts'[d][k] = posts[d][k] + 1)
    BY <1>0, <2>1
  <2>4. QED
    BY <1>0, <1>1, <2>1, <2>2, <2>3
<1>5. CASE Raise \/ Crash
  <2>1. UNCHANGED <<posts, digest>> /\ crashes' + errors' = crashes + errors + 1
    BY <1>0, <1>5 DEF Raise, Crash, tableVars
  <2>2. crashes' \in Nat /\ errors' \in Nat
    BY <1>0, <1>5 DEF Raise, Crash
  <2>3. posts'[d][k] <= crashes' + errors'
    BY <1>0, <1>1, <2>1
  <2>4. posts'[d][k] <= 1 + crashes' + errors'
    BY <1>0, <2>1, <2>2, <2>3
  <2>5. QED
    BY <2>3, <2>4
<1>6. CASE ~Mark /\ ~Post /\ ~Raise /\ ~Crash
  <2>1. UNCHANGED <<posts, crashes, errors>>
    BY <1>6 DEF Next, Loop, Operator, BeginPaused, BeginIteration, Begin, IterationEnds,
       LiveRebuild, BeginChecks, SkipCheckpoint, RunCheckpoint, Complete, EndPass, SetPaused, ForcedRebuild,
       BeginFinalize, EndFinalize, FinalizeBreaksOff, ApiRead, Write, Login, LoginBlocks, LoginReturns, Restart, Tick, countVars, vars
  <2>2. pc = "marking" => UNCHANGED <<pc, date, at>>
    BY <1>6 DEF Next, Loop, Operator, BeginPaused, BeginIteration, Begin, IterationEnds,
       LiveRebuild, BeginChecks, SkipCheckpoint, RunCheckpoint, Complete, EndPass, SetPaused, ForcedRebuild,
       BeginFinalize, EndFinalize, FinalizeBreaksOff, ApiRead, Write, Login, LoginBlocks, LoginReturns, PassEnds, Restart, Tick, passVars, vars
  <2>3. QED
    BY <1>1, <1>2, <1>6, <2>1, <2>2
<1>7. QED
  BY <1>3, <1>4, <1>5, <1>6

\* A checkpoint is announced once, and once more for a crash or an exception.
THEOREM AnnouncedProved == Spec => []AnnouncedOnce
<1>1. Init => PostsInv
  BY DEF Init, PostsInv, NoRow
<1>2. PostsInv => AnnouncedOnce
  BY DEF PostsInv, AnnouncedOnce
<1>3. QED
  BY <1>1, <1>2, MaintenanceTypes, PostsStep, PTL DEF Spec
=============================================================================
