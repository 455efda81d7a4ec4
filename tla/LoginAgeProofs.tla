--------------------------- MODULE LoginAgeProofs ---------------------------
(***************************************************************************)
(* Theorems about LoginAge, for every age, warning span and number of      *)
(* days, logins and faults.                                                *)
(***************************************************************************)
EXTENDS LoginAge, TLAPS

Quiet == \A a \in Actors : pc[a] # "open"

\* The worker's local status is set from its decision to alert to its mark.
StageInv ==
  /\ pc["worker"] \in {"idle", "deciding", "seeding"} => status = "none"
  /\ pc["worker"] = "posting" => status # "none"
  /\ status # "none" /\ pc["worker"] = "asking" => copy["worker"].at = Never
  /\ status # "none" /\ Writing("worker") => copy["worker"].mark = status

\* No time in the model is later than the last login, and none after now.
YoungInv == NeverYounger /\ lastLogin <= now /\ recorded <= now

\* While no access has overlapped another one: what is being written is
\* the time of a login that has just succeeded, or a mark beside the recorded
\* login; a token whose login is not recorded has its login being recorded.
FileInv ==
  calm =>
    /\ Quiet => meta.at = recorded
    /\ ~Writing("api")
    /\ Writing("worker") => status # "none"
    /\ pc["worker"] \in {"writing", "open"} => copy["worker"].at = recorded
    /\ \A a \in Logins : Writing(a) => copy[a].at = now
    /\ pickle # Never => recorded # Never \/ \E a \in Logins : Writing(a)

\* While no access has overlapped another one only one actor has read the file
\* to write it, and nothing is under the file it has emptied.
WriterInv ==
  calm => \A a \in Actors : pc[a] \in {"writing", "open"} =>
            /\ \A b \in Actors \ {a} : pc[b] \notin {"writing", "open"}
            /\ pc[a] = "open" => ~filled

\* The worker alerts on what it has computed; a login run out stays run out.
PostInv ==
  status # "none" => /\ status \in {"warn", "critical"}
                     /\ status = "critical" => StatusOf(seen) = "critical"

\* k is the last status that was alerted on: a warning may have come before.
LastTold(k) == \A t \in told : t = k \/ (t = "warn" /\ StatusOf(recorded) = "critical")

\* The mark in the file, and the one the worker is about to write, is or comes
\* after the last status that was alerted on.
MarkInv ==
  /\ told \subseteq {"warn", "critical"}
  /\ "critical" \in told => StatusOf(recorded) = "critical"
  /\ calm /\ Quiet => LastTold(meta.mark)
  /\ calm /\ status # "none" => LastTold(status)

\* A pass that works on a former login is followed by no other before it ends;
\* while it has not decided, a login has just been recorded.
PassInv ==
  /\ calm /\ pc["worker"] = "deciding" => seen = recorded \/ (~warned /\ now = recorded /\ told = {})
  /\ calm /\ status # "none" => seen = recorded \/ ~warned

\* After a pass in the warning period the mark is a warning, so if it says
\* critical that was told since.
SilenceInv == calm /\ warned /\ Quiet /\ meta.mark = "critical" => "critical" \in told

-----------------------------------------------------------------------------
(***************************************************************************)
(* Types.                                                                  *)
(***************************************************************************)
\* The days count up from zero.
LEMMA DayFacts ==
  /\ Days \subseteq Nat /\ Times \subseteq Int /\ Days \subseteq Times /\ Never \in Times
  /\ \A t \in Times : t >= Never /\ t <= MaxDay
  /\ Never \notin Days /\ MaxAge >= 1 /\ WarnDays >= 1 /\ WarnDays <= MaxAge
  /\ MaxAge \in Nat /\ WarnDays \in Nat
BY LoginAgeAssumption DEF Days, Times, Never

\* A status is one of four, and only two of them are marks.
LEMMA StatusType ==
  ASSUME NEW t
  PROVE  /\ StatusOf(t) \in {"missing", "ok", "warn", "critical"}
         /\ ShouldAlert(StatusOf(t)) => StatusOf(t) \in Marks \ {"none"}
BY DEF StatusOf, ShouldAlert, Marks

\* An update of an entry is an entry.
LEMMA UpdatedType ==
  ASSUME NEW old \in Entries, NEW new \in Entries
  PROVE  /\ Updated(old, new) \in Entries
         /\ Updated(old, new).at = (IF new.at = Never THEN old.at ELSE new.at)
         /\ Updated(old, new).mark = (IF new.mark = "none" THEN old.mark ELSE new.mark)
BY DEF Updated, Entries

\* Entries written with EXCEPT.
LEMMA BlankType ==
  /\ Blank \in Entries /\ Blank.at = Never /\ Blank.mark = "none"
  /\ \A t \in Times : /\ [Blank EXCEPT !.at = t] \in Entries
                      /\ [Blank EXCEPT !.at = t].at = t
                      /\ [Blank EXCEPT !.at = t].mark = "none"
  /\ \A k \in Marks : /\ [Blank EXCEPT !.mark = k] \in Entries
                      /\ [Blank EXCEPT !.mark = k].at = Never
                      /\ [Blank EXCEPT !.mark = k].mark = k
BY DEF Blank, Entries, Times, Marks, Never

\* The parts of a step on the file keep the types.
LEMMA AccessTypes ==
  ASSUME TypeOK, NEW a \in Actors, Access(a)
  PROVE  TypeOK'
<1> USE DEF TypeOK
<1> DEFINE Places == {"idle", "deciding", "posting", "seeding", "asking", "writing", "open"}
<1>1. \A at \in Times : Known(a, at) => pc' \in [Actors -> Places] /\ seen' \in Times
  BY DEF Known
<1>2. copy[a] \in Entries /\ copy[a].at \in Times
  BY DEF Entries
<1>3. meta.at \in Times /\ Never \in Times
  BY DEF Entries, Times
<1>4. CASE Resolve(a)
  BY <1>1, <1>3, <1>4 DEF Resolve, fileVars, countVars
<1>5. CASE Seed(a)
  BY <1>1, <1>3, <1>5, BlankType DEF Seed, fileVars, countVars
<1>6. CASE ReadMeta(a)
  BY <1>2, <1>6, UpdatedType DEF ReadMeta, fileVars, countVars
<1>7. CASE OpenMeta(a)
  BY <1>7, BlankType DEF OpenMeta, countVars, pastVars
<1>8. CASE CloseMeta(a)
  <2>1. pc' \in [Actors -> Places] /\ seen' \in Times /\ status' \in Marks
    BY <1>1, <1>2, <1>3, <1>8 DEF CloseMeta, PassEnds, Marks
  <2>2. meta' \in Entries /\ copy' \in [Actors -> Entries]
    BY <1>2, <1>8, BlankType DEF CloseMeta, Written
  <2>3. recorded' \in Times /\ told' \in SUBSET Marks
    BY <1>8, DayFacts DEF CloseMeta
  <2>4. calm' \in BOOLEAN
    BY <1>8, Zenon DEF CloseMeta, Alone, Writing
  <2>5. filled' \in BOOLEAN /\ warned' \in BOOLEAN
    BY <1>8, Zenon DEF CloseMeta, Written, PassEnds
  <2>6. QED
    BY <1>8, <2>1, <2>2, <2>3, <2>4, <2>5 DEF CloseMeta, countVars
<1>9. QED
  BY <1>4, <1>5, <1>6, <1>7, <1>8 DEF Access

\* Every step keeps the types.
LEMMA TypeStep == TypeOK /\ [Next]_vars => TypeOK'
<1> SUFFICES ASSUME TypeOK, [Next]_vars PROVE TypeOK'
  OBVIOUS
<1>1. ASSUME NEW a \in Actors, Access(a) PROVE TypeOK'
  BY <1>1, AccessTypes
<1> USE DEF TypeOK
<1>2. ASSUME NEW a \in Actors, LoginSucceeds(a) PROVE TypeOK'
  BY <1>2, LoginAgeAssumption, DayFacts, BlankType DEF LoginSucceeds
<1>3. CASE CommandBegins
  BY <1>3 DEF CommandBegins, fileVars, countVars, pastVars
<1>4. CASE Decide
  BY <1>4, StatusType DEF Decide, PassEnds, fileVars, countVars, Marks, Times
<1>5. CASE Posted
  BY <1>5, BlankType DEF Posted, fileVars, countVars, pastVars
<1>6. ASSUME NEW A \in SUBSET Actors, Dropped(A), UNCHANGED <<now, fileVars>>,
             UNCHANGED <<lastLogin, recorded, told, warned, logins>>,
             up' \in BOOLEAN, faults' = faults + 1, faults < MaxFaults
      PROVE  TypeOK'
  <2>1. pc' \in [Actors -> {"idle", "deciding", "posting", "seeding", "asking", "writing", "open"}]
    BY <1>6 DEF Dropped
  <2>2. copy' \in [Actors -> Entries]
    BY <1>6, BlankType DEF Dropped
  <2>3. faults' \in 0..MaxFaults
    BY <1>6, LoginAgeAssumption
  <2>4. calm' \in BOOLEAN
    BY <1>6, Zenon DEF Dropped
  <2>5. QED
    BY <1>6, <2>1, <2>2, <2>3, <2>4 DEF Dropped, fileVars, Marks, Times
<1>7. CASE Crash \/ \E a \in Actors : Fails(a)
  BY <1>6, <1>7 DEF Crash, Fails
<1>8. CASE Restart
  BY <1>8 DEF Restart, fileVars, pastVars, countVars
<1>9. CASE Tick
  <2>1. now' \in Days
    BY <1>9, LoginAgeAssumption DEF Tick, Days
  <2>2. QED
    BY <1>9, <2>1 DEF Tick, fileVars, localVars, pastVars, countVars
<1>10. CASE UNCHANGED vars
  BY <1>10 DEF vars, fileVars, localVars, pastVars, countVars
<1>11. QED
  BY <1>1, <1>2, <1>3, <1>4, <1>5, <1>7, <1>8, <1>9, <1>10 DEF Next

\* TypeOK holds in every reachable state.
THEOREM LoginAgeTypes == Spec => []TypeOK
<1>1. Init => TypeOK
  <2> SUFFICES ASSUME Init PROVE TypeOK
    OBVIOUS
  <2>1. 0 \in Days /\ pickle \in Times
    BY LoginAgeAssumption DEF Init, Days, Times
  <2>2. meta \in Entries /\ copy \in [Actors -> Entries]
    BY <2>1, BlankType DEF Init
  <2>3. logins \in 0..MaxLogins /\ faults \in 0..MaxFaults
    BY LoginAgeAssumption DEF Init
  <2>4. now \in Days /\ recorded \in Times /\ lastLogin \in Times /\ seen \in Times
    BY <2>1, DayFacts DEF Init
  <2>5. QED
    BY <2>1, <2>2, <2>3, <2>4 DEF Init, TypeOK, Marks
<1>2. QED
  BY <1>1, TypeStep, PTL DEF Spec

-----------------------------------------------------------------------------
(***************************************************************************)
(* The login never gets younger.                                           *)
(***************************************************************************)
\* Every step keeps the times it moves no later than the last login.
LEMMA YoungStep == TypeOK /\ YoungInv /\ [Next]_vars => YoungInv'
<1> SUFFICES ASSUME TypeOK, YoungInv, [Next]_vars
             PROVE  /\ meta'.at <= lastLogin' /\ seen' <= lastLogin' /\ pickle' <= lastLogin'
                    /\ \A a \in Actors : copy'[a].at <= lastLogin'
                    /\ lastLogin' <= now' /\ recorded' <= now'
  BY DEF YoungInv, NeverYounger
<1> DEFINE Bounded == /\ meta'.at <= lastLogin' /\ seen' <= lastLogin' /\ pickle' <= lastLogin'
                      /\ \A a \in Actors : copy'[a].at <= lastLogin'
                      /\ lastLogin' <= now' /\ recorded' <= now'
<1>1. /\ meta.at <= lastLogin /\ seen <= lastLogin /\ pickle <= lastLogin
      /\ \A a \in Actors : copy[a].at <= lastLogin
      /\ lastLogin <= now /\ recorded <= now
  BY DEF YoungInv, NeverYounger
<1>2. /\ lastLogin \in Int /\ now \in Int /\ recorded \in Int /\ Never <= lastLogin
      /\ copy \in [Actors -> Entries]
  BY DayFacts DEF TypeOK
<1>3. ASSUME NEW a \in Actors, Access(a) PROVE Bounded
  <2>1. CASE Resolve(a)
    BY <1>1, <1>2, <2>1 DEF Resolve, Known, fileVars, countVars
  <2>2. CASE Seed(a)
    <3>1. [Blank EXCEPT !.at = pickle].at = pickle
      BY BlankType DEF TypeOK
    <3>2. \A b \in Actors : copy'[b].at <= lastLogin
      BY <1>1, <1>2, <2>2, <3>1 DEF Seed
    <3>3. seen' <= lastLogin
      BY <1>1, <1>2, <2>2 DEF Seed, Known
    <3>4. QED
      BY <1>1, <2>2, <3>2, <3>3 DEF Seed, fileVars, countVars
  <2>3. CASE ReadMeta(a)
    <3>1. copy'[a].at <= lastLogin
      BY <1>1, <1>2, <2>3, UpdatedType DEF ReadMeta, TypeOK
    <3>2. QED
      BY <1>1, <1>2, <2>3, <3>1 DEF ReadMeta, fileVars, countVars
  <2>4. CASE OpenMeta(a)
    BY <1>1, <1>2, <2>4, BlankType DEF OpenMeta, countVars, pastVars
  <2>5. CASE CloseMeta(a)
    <3>1. seen' <= lastLogin
      BY <1>1, <1>2, <2>5 DEF CloseMeta, PassEnds, Known
    <3>2. recorded' <= now
      BY <1>1, <1>2, <2>5 DEF CloseMeta
    <3>3. QED
      BY <1>1, <1>2, <2>5, <3>1, <3>2, BlankType DEF CloseMeta, Written, countVars
  <2>6. QED
    BY <1>3, <2>1, <2>2, <2>3, <2>4, <2>5 DEF Access
<1>4. ASSUME NEW a \in Actors, LoginSucceeds(a) PROVE Bounded
  <2>1. copy'[a].at = now
    BY <1>4, BlankType, DayFacts DEF LoginSucceeds, TypeOK
  <2>2. \A b \in Actors : copy'[b].at <= now
    BY <1>1, <1>2, <1>4, <2>1, DayFacts DEF LoginSucceeds, Entries
  <2>3. meta.at <= now /\ seen <= now /\ pickle <= now
    <3>1. meta.at \in Int /\ seen \in Int /\ pickle \in Int
      BY DayFacts DEF TypeOK, Entries
    <3>2. QED
      BY <1>1, <1>2, <3>1
  <2>4. QED
    BY <1>1, <1>2, <1>4, <2>2, <2>3 DEF LoginSucceeds
<1>5. CASE CommandBegins \/ UNCHANGED vars
  BY <1>1, <1>5 DEF CommandBegins, vars, fileVars, localVars, countVars, pastVars
<1>6. CASE Decide
  BY <1>1, <1>2, <1>6 DEF Decide, PassEnds, fileVars, countVars
<1>7. CASE Posted
  BY <1>1, <1>2, <1>7, BlankType DEF Posted, fileVars, countVars, pastVars, TypeOK
<1>8. CASE Crash \/ Restart \/ \E a \in Actors : Fails(a)
  BY <1>1, <1>2, <1>8, BlankType DEF Crash, Fails, Dropped, Restart, fileVars, pastVars
<1>9. CASE Tick
  BY <1>1, <1>2, <1>9 DEF Tick, fileVars, localVars, pastVars, countVars
<1>10. QED
  BY <1>3, <1>4, <1>5, <1>6, <1>7, <1>8, <1>9 DEF Next

\* No rewrite, seed or crash makes the login younger than the last one.
THEOREM YoungProved == Spec => []NeverYounger
<1>1. Init => YoungInv
  BY DayFacts, BlankType DEF Init, YoungInv, NeverYounger, Never, Actors
<1>2. YoungInv => NeverYounger
  BY DEF YoungInv
<1>3. QED
  BY <1>1, <1>2, LoginAgeTypes, YoungStep, PTL DEF Spec

-----------------------------------------------------------------------------
(***************************************************************************)
(* What a pass of the worker holds.                                        *)
(***************************************************************************)
\* Every step keeps StageInv: the worker's stages follow one another.
LEMMA StageStep == TypeOK /\ StageInv /\ [Next]_vars => StageInv'
<1> SUFFICES ASSUME TypeOK, StageInv, [Next]_vars PROVE StageInv'
  OBVIOUS
<1> USE DEF StageInv, Writing
<1>1. /\ pc \in [Actors -> {"idle", "deciding", "posting", "seeding", "asking", "writing", "open"}]
      /\ copy \in [Actors -> Entries] /\ meta \in Entries /\ status \in Marks
      /\ "worker" \in Actors
  BY DEF TypeOK, Actors, Loop
<1>2. ASSUME NEW a \in Actors, Access(a) PROVE StageInv'
  <2>1. CASE Resolve(a) \/ OpenMeta(a)
    BY <1>1, <2>1 DEF Resolve, OpenMeta, Known, fileVars, pastVars, countVars
  <2>2. CASE Seed(a)
    BY <1>1, <2>2 DEF Seed, Known
  <2>3. CASE ReadMeta(a)
    <3>1. a = "worker" /\ status # "none" => copy'[a].mark = status
      BY <1>1, <2>3, UpdatedType DEF ReadMeta
    <3>2. QED
      BY <1>1, <2>3, <3>1 DEF ReadMeta
  <2>4. CASE CloseMeta(a)
    BY <1>1, <2>4 DEF CloseMeta, Written, PassEnds, Known
  <2>5. QED
    BY <1>2, <2>1, <2>2, <2>3, <2>4 DEF Access
<1>3. ASSUME NEW a \in Actors, LoginSucceeds(a) PROVE StageInv'
  <2>1. a # "worker"
    BY <1>3 DEF LoginSucceeds, Logins
  <2>2. QED
    BY <1>1, <1>3, <2>1 DEF LoginSucceeds
<1>4. CASE CommandBegins
  BY <1>1, <1>4 DEF CommandBegins
<1>5. CASE Decide
  BY <1>1, <1>5, StatusType DEF Decide, PassEnds
<1>6. CASE Posted
  BY <1>1, <1>6, BlankType DEF Posted
<1>7. CASE Crash \/ Restart \/ \E a \in Actors : Fails(a)
  BY <1>1, <1>7 DEF Crash, Fails, Dropped, Restart
<1>8. CASE Tick \/ UNCHANGED vars
  BY <1>8 DEF Tick, localVars, vars
<1>9. QED
  BY <1>2, <1>3, <1>4, <1>5, <1>6, <1>7, <1>8 DEF Next

-----------------------------------------------------------------------------
(***************************************************************************)
(* What the file holds.                                                    *)
(***************************************************************************)
\* The shape of the state, and who may be where.
LEMMA Shape ==
  ASSUME TypeOK
  PROVE  /\ pc \in [Actors -> {"idle", "deciding", "posting", "seeding", "asking", "writing", "open"}]
         /\ copy \in [Actors -> Entries] /\ meta \in Entries /\ status \in Marks
         /\ now \in Int /\ now # Never /\ recorded \in Times /\ seen \in Times
         /\ calm \in BOOLEAN /\ warned \in BOOLEAN
         /\ Actors = {"bot", "cli", "worker", "api"} /\ Logins = {"bot", "cli"}
BY DayFacts DEF TypeOK, Actors, Loop, Logins

\* An access that overlapped no other one met no rewrite, so it saw the
\* recorded login; it is no seed, and no request rewrites the file.
LEMMA AloneSees ==
  ASSUME TypeOK, FileInv, calm, NEW a \in Actors, Alone(a), pc[a] # "open"
  PROVE  /\ Quiet /\ meta.at = recorded
         /\ ~Writing(a) /\ meta.at = Never => pickle = Never
<1>1. Quiet
  BY Shape DEF Alone, Writing, Quiet
<1>2. \A b \in Logins : Writing(b) => b = a
  BY Shape DEF Alone
<1>3. QED
  BY <1>1, <1>2 DEF FileInv

\* Every step keeps WriterInv: who reads the file to write it looks around.
LEMMA WriterStep == TypeOK /\ WriterInv /\ [Next]_vars => WriterInv'
<1> SUFFICES ASSUME TypeOK, WriterInv, [Next]_vars, calm' PROVE WriterInv'
  BY DEF WriterInv
<1> USE Shape
<1>1. ASSUME NEW a \in Actors, Access(a) PROVE WriterInv'
  <2>1. CASE Resolve(a) \/ Seed(a)
    BY <2>1 DEF Resolve, Seed, Known, WriterInv, fileVars
  <2>2. CASE ReadMeta(a)
    BY <2>2 DEF ReadMeta, WriterInv, Alone, Writing, fileVars
  <2>3. CASE OpenMeta(a)
    BY <2>3 DEF OpenMeta, WriterInv, pastVars
  <2>4. CASE CloseMeta(a)
    <3>1. pc[a] = "open" /\ pc'[a] \in {"idle", "deciding"} /\ \A b \in Actors \ {a} : pc'[b] = pc[b]
      BY <2>4 DEF CloseMeta, PassEnds, Known
    <3>2. Alone(a) \/ calm
      BY <2>4 DEF CloseMeta
    <3>3. \A b \in Actors \ {a} : pc[b] \notin {"writing", "open"}
      BY <3>1, <3>2 DEF Alone, Writing, WriterInv
    <3>4. QED
      BY <3>1, <3>3 DEF WriterInv
  <2>5. QED
    BY <1>1, <2>1, <2>2, <2>3, <2>4 DEF Access
<1>2. ASSUME NEW a \in Actors, LoginSucceeds(a) PROVE WriterInv'
  BY <1>2 DEF LoginSucceeds, WriterInv
<1>3. CASE CommandBegins \/ Decide \/ Posted
  BY <1>3 DEF CommandBegins, Decide, Posted, PassEnds, WriterInv, fileVars, pastVars
<1>4. ASSUME NEW A \in SUBSET Actors, Dropped(A), filled' = filled PROVE WriterInv'
  <2>1. calm /\ \A b \in Actors : pc'[b] = pc[b] \/ pc'[b] = "idle"
    BY <1>4 DEF Dropped
  <2>2. QED
    BY <1>4, <2>1 DEF WriterInv
<1>5. CASE Restart \/ Tick \/ UNCHANGED vars
  BY <1>5 DEF Restart, Tick, vars, WriterInv, fileVars, localVars, pastVars
<1>6. CASE Crash \/ \E a \in Actors : Fails(a)
  BY <1>4, <1>6 DEF Crash, Fails, fileVars
<1>7. QED
  BY <1>1, <1>2, <1>3, <1>5, <1>6 DEF Next

\* Of a write that overlapped none, all is in the file.
LEMMA WrittenWhole ==
  ASSUME TypeOK, WriterInv, NEW a \in Actors, CloseMeta(a), calm'
  PROVE  meta' = copy[a] /\ pc[a] = "open"
BY Shape DEF CloseMeta, Written, WriterInv

\* A rewrite is closed: the file holds what was recorded, or is recorded now.
LEMMA FileClose ==
  ASSUME TypeOK, StageInv, WriterInv, FileInv, NEW a \in Actors, CloseMeta(a)
  PROVE  FileInv'
<1> SUFFICES ASSUME calm' PROVE FileInv'
  BY DEF FileInv
<1> USE Shape
<1>1. meta' = copy[a] /\ now' = now /\ pickle' = pickle /\ pc[a] = "open"
  BY WrittenWhole DEF CloseMeta
<1>2. /\ \A b \in Actors \ {a} : pc'[b] = pc[b] /\ copy'[b] = copy[b]
      /\ pc'[a] \in {"idle", "deciding"}
  BY DEF CloseMeta, Written, PassEnds, Known
<1>3. CASE a \in Logins /\ copy[a].at = now
  <2>1. recorded' = now /\ status' = status /\ Alone(a)
    BY <1>3 DEF CloseMeta
  <2>2. \A b \in Actors \ {a} : ~Writing(b)
    BY <2>1 DEF Alone
  <2>3. \A b \in Actors : ~Writing(b)'
    BY <1>2, <2>2 DEF Writing
  <2>4. pc'["worker"] \notin {"writing", "open"} /\ \A b \in Logins : ~Writing(b)'
    BY <2>3 DEF Writing
  <2>5. meta'.at = recorded' /\ recorded' # Never
    BY <1>1, <1>3, <2>1
  <2>6. QED
    BY <2>3, <2>4, <2>5 DEF FileInv
<1>4. CASE ~(a \in Logins /\ copy[a].at = now)
  <2>1. calm /\ recorded' = recorded
    BY <1>4 DEF CloseMeta
  <2>2. a = "worker" /\ status # "none"
    BY <1>1, <1>4, <2>1 DEF FileInv, Writing
  <2>3. meta'.at = recorded /\ pc'[a] = "idle"
    BY <1>1, <2>1, <2>2 DEF FileInv, CloseMeta, PassEnds
  <2>4. ~Writing(a)' /\ \A b \in Actors \ {a} : Writing(b)' = Writing(b)
    BY <1>2 DEF Writing
  <2>5. QED
    BY <1>1, <1>2, <2>1, <2>2, <2>3, <2>4 DEF FileInv
<1>5. QED
  BY <1>3, <1>4

\* A read that overlapped no rewrite takes over the recorded login.
LEMMA FileRead ==
  ASSUME TypeOK, StageInv, FileInv, NEW a \in Actors, Resolve(a) \/ Seed(a) \/ ReadMeta(a)
  PROVE  FileInv'
<1> SUFFICES ASSUME calm' PROVE FileInv'
  BY DEF FileInv
<1> USE Shape
<1>1. /\ calm /\ Alone(a) /\ meta' = meta /\ pickle' = pickle /\ now' = now
      /\ recorded' = recorded /\ status' = status
  BY DEF Resolve, Seed, ReadMeta, fileVars
<1>2. pc[a] # "open" /\ \A b \in Actors \ {a} : pc'[b] = pc[b] /\ copy'[b] = copy[b]
  BY DEF Resolve, Seed, ReadMeta, Known
<1>3. Quiet /\ meta.at = recorded /\ (~Writing(a) /\ meta.at = Never => pickle = Never)
  BY <1>1, <1>2, AloneSees
<1>4. CASE Resolve(a) \/ Seed(a)
  <2>1. ~Writing(a) /\ ~Writing(a)'
    BY <1>3, <1>4 DEF Resolve, Seed, Known, Writing
  <2>2. \A b \in Actors : Writing(b)' = Writing(b)
    BY <1>2, <2>1 DEF Writing
  <2>3. QED
    BY <1>1, <1>2, <1>3, <2>1, <2>2 DEF FileInv, Writing
<1>5. CASE ReadMeta(a)
  <2>1. pc[a] = "asking" /\ pc'[a] = "writing" /\ copy'[a] = Updated(meta, copy[a])
    BY <1>5 DEF ReadMeta
  <2>2. \A b \in Actors : Writing(b)' = Writing(b)
    BY <1>2, <2>1 DEF Writing
  <2>3. a = "worker" => copy'[a].at = recorded
    BY <1>1, <1>3, <2>1, UpdatedType DEF FileInv, StageInv, Writing
  <2>4. a \in Logins => copy'[a].at = now
    BY <1>1, <2>1, UpdatedType DEF FileInv, Writing
  <2>5. QED
    BY <1>1, <1>2, <1>3, <2>1, <2>2, <2>3, <2>4 DEF FileInv
<1>6. QED
  BY <1>4, <1>5

\* Every step keeps FileInv: opening and the steps off the file change no
\* entry, and a rewrite that is broken off is none of the calm.
LEMMA FileStep == TypeOK /\ StageInv /\ WriterInv /\ FileInv /\ [Next]_vars => FileInv'
<1> SUFFICES ASSUME TypeOK, StageInv, WriterInv, FileInv, [Next]_vars, calm' PROVE FileInv'
  BY DEF FileInv
<1> USE Shape
<1>1. ASSUME NEW a \in Actors, Access(a) PROVE FileInv'
  <2>1. CASE OpenMeta(a)
    <3>1. /\ calm /\ pc[a] = "writing" /\ pc' = [pc EXCEPT ![a] = "open"]
          /\ copy' = copy /\ status' = status /\ recorded' = recorded /\ now' = now /\ pickle' = pickle
      BY <2>1 DEF OpenMeta, pastVars
    <3>2. ~Quiet' /\ \A b \in Actors : Writing(b)' = Writing(b)
      BY <3>1 DEF Writing, Quiet
    <3>3. QED
      BY <3>1, <3>2 DEF FileInv
  <2>2. QED
    BY <1>1, <2>1, FileClose, FileRead DEF Access
<1>2. ASSUME NEW a \in Actors, LoginSucceeds(a) PROVE FileInv'
  <2>1. /\ calm /\ a \in Logins /\ pc[a] = "idle" /\ pc' = [pc EXCEPT ![a] = "asking"]
        /\ copy' = [copy EXCEPT ![a] = [Blank EXCEPT !.at = now]]
        /\ now' = now /\ meta' = meta /\ status' = status /\ recorded' = recorded
    BY <1>2 DEF LoginSucceeds
  <2>2. Writing(a)' /\ copy'[a].at = now /\ (Quiet' => Quiet)
    BY <2>1, BlankType, DayFacts DEF Writing, Quiet, TypeOK
  <2>3. \A b \in Actors \ {a} : Writing(b)' = Writing(b) /\ pc'[b] = pc[b] /\ copy'[b] = copy[b]
    BY <2>1 DEF Writing
  <2>4. QED
    BY <2>1, <2>2, <2>3 DEF FileInv
<1>3. CASE CommandBegins \/ Decide
  <2>1. /\ calm /\ copy' = copy /\ now' = now /\ meta' = meta
        /\ pickle' = pickle /\ recorded' = recorded
    BY <1>3 DEF CommandBegins, Decide, fileVars, pastVars
  <2>2. PICK a \in Actors : /\ pc[a] \in {"idle", "deciding"} /\ pc'[a] \in {"idle", "seeding", "posting"}
                            /\ \A b \in Actors \ {a} : pc'[b] = pc[b]
    <3>1. CASE CommandBegins
      BY <3>1 DEF CommandBegins
    <3>2. CASE Decide
      <4>1. pc["worker"] = "deciding" /\ pc' \in {[pc EXCEPT !["worker"] = p] : p \in {"idle", "posting"}}
        BY <3>2 DEF Decide, PassEnds
      <4>2. QED
        BY <4>1
    <3>3. QED
      BY <1>3, <3>1, <3>2
  <2>3. (Quiet' => Quiet) /\ \A b \in Actors : Writing(b)' = Writing(b)
    BY <2>2 DEF Quiet, Writing
  <2>4. Writing("worker") => status' = status
    BY <1>3 DEF CommandBegins, Decide, Writing
  <2>5. QED
    BY <2>1, <2>2, <2>3, <2>4 DEF FileInv
<1>4. CASE Posted
  <2>1. /\ calm /\ pc["worker"] = "posting" /\ pc' = [pc EXCEPT !["worker"] = "asking"]
        /\ now' = now /\ meta' = meta /\ pickle' = pickle /\ recorded' = recorded /\ status' = status
        /\ \A b \in Logins : copy'[b] = copy[b]
    BY <1>4 DEF Posted, fileVars, pastVars
  <2>2. status # "none" /\ (Quiet' => Quiet)
    BY <2>1 DEF StageInv, Quiet
  <2>3. \A b \in Actors \ {"worker"} : Writing(b)' = Writing(b)
    BY <2>1 DEF Writing
  <2>4. QED
    BY <2>1, <2>2, <2>3 DEF FileInv
<1>5. ASSUME NEW A \in SUBSET Actors, Dropped(A), UNCHANGED <<now, fileVars, recorded>>
      PROVE  FileInv'
  <2>1. calm /\ \A b \in A : ~Writing(b)
    BY <1>5 DEF Dropped
  <2>2. \A b \in Actors : /\ Writing(b)' = Writing(b)
                          /\ Writing(b) => pc'[b] = pc[b] /\ copy'[b] = copy[b]
    BY <1>5, <2>1 DEF Dropped, Writing
  <2>3. Quiet' => Quiet
    BY <2>2 DEF Quiet, Writing
  <2>4. Writing("worker") => status' = status
    BY <1>5, <2>1 DEF Dropped
  <2>5. QED
    BY <1>5, <2>1, <2>2, <2>3, <2>4 DEF FileInv, Writing, fileVars
<1>10. CASE Crash \/ \E a \in Actors : Fails(a)
  BY <1>5, <1>10 DEF Crash, Fails
<1>6. CASE Restart
  <2>1. /\ calm /\ pc' = [pc EXCEPT !["api"] = "seeding"] /\ ~Writing("api")
        /\ copy' = copy /\ now' = now /\ meta' = meta /\ pickle' = pickle
        /\ recorded' = recorded /\ status' = status
    BY <1>6 DEF Restart, fileVars, pastVars, FileInv
  <2>2. (Quiet' => Quiet) /\ \A b \in Actors : Writing(b)' = Writing(b)
    BY <2>1 DEF Quiet, Writing
  <2>3. QED
    BY <2>1, <2>2 DEF FileInv
<1>7. CASE Tick
  <2>1. /\ calm /\ pc' = pc /\ meta' = meta /\ pickle' = pickle /\ recorded' = recorded
        /\ \A b \in Actors : pc[b] \in {"idle", "posting"}
    BY <1>7 DEF Tick, fileVars, localVars, pastVars
  <2>2. \A b \in Actors : ~Writing(b) /\ ~Writing(b)' /\ pc'[b] # "open"
    BY <2>1 DEF Writing
  <2>3. Quiet
    BY <2>1 DEF Quiet
  <2>4. QED
    BY <2>1, <2>2, <2>3 DEF FileInv, Writing
<1>8. CASE UNCHANGED vars
  BY <1>8 DEF FileInv, Quiet, Writing, vars, fileVars, localVars, pastVars
<1>9. QED
  BY <1>1, <1>2, <1>3, <1>4, <1>6, <1>7, <1>8, <1>10 DEF Next

\* Only a rewrite that is broken off, or an access that overlaps another one,
\* loses the recorded login from the file.
THEOREM LostProved == Spec => []LostOnlyByOverlap
<1>1. Init => StageInv /\ WriterInv /\ FileInv
  BY DEF Init, StageInv, WriterInv, FileInv, Writing, Actors, Logins, Loop, Blank
<1>2. TypeOK /\ FileInv => LostOnlyByOverlap
  BY Shape DEF FileInv, LostOnlyByOverlap, Writing, Quiet
<1>3. QED
  BY <1>1, <1>2, LoginAgeTypes, TypeStep, StageStep, WriterStep, FileStep, PTL DEF Spec

-----------------------------------------------------------------------------
(***************************************************************************)
(* What has been told.                                                     *)
(***************************************************************************)
\* A login ages through its warning span, and never grows younger.
LEMMA Aging ==
  ASSUME TypeOK
  PROVE  /\ StatusOf(now) # "critical"
         /\ now' = now /\ recorded' = recorded => StatusOf(recorded)' = StatusOf(recorded)
         /\ now' = now /\ seen' = seen => StatusOf(seen)' = StatusOf(seen)
         /\ now' = now + 1 /\ recorded' = recorded =>
              (StatusOf(recorded) = "critical" => StatusOf(recorded)' = "critical")
         /\ now' = now + 1 /\ seen' = seen =>
              (StatusOf(seen) = "critical" => StatusOf(seen)' = "critical")
<1>1. now \in Int /\ now # Never /\ recorded \in Int /\ seen \in Int
  BY Shape, DayFacts
<1>2. MaxAge \in Int /\ WarnDays \in Int /\ MaxAge >= 1 /\ WarnDays >= 1
  BY DayFacts
<1>3. QED
  BY <1>1, <1>2 DEF StatusOf

\* Every step keeps PostInv: the worker holds what it computed until it is done.
LEMMA PostStep == TypeOK /\ StageInv /\ PostInv /\ [Next]_vars => PostInv'
<1> SUFFICES ASSUME TypeOK, StageInv, PostInv, [Next]_vars, status' # "none" PROVE PostInv'
  BY DEF PostInv
<1> USE Shape
<1>1. ASSUME status' = status, seen' = seen, now' = now \/ now' = now + 1 PROVE PostInv'
  BY <1>1, Aging DEF PostInv
<1>2. ASSUME NEW a \in Actors, Access(a) PROVE PostInv'
  <2>1. CASE Resolve(a) \/ Seed(a)
    <3>1. a # "worker" /\ status' = status /\ now' = now
      BY <2>1 DEF Resolve, Seed, StageInv
    <3>2. seen' = seen
      BY <2>1, <3>1 DEF Resolve, Seed, Known
    <3>3. QED
      BY <1>1, <3>1, <3>2
  <2>2. CASE ReadMeta(a) \/ OpenMeta(a)
    BY <1>1, <2>2 DEF ReadMeta, OpenMeta
  <2>3. CASE CloseMeta(a)
    <3>1. a # "worker" /\ status' = status /\ now' = now /\ seen' = seen
      BY <2>3 DEF CloseMeta, PassEnds, Known
    <3>2. QED
      BY <1>1, <3>1
  <2>4. QED
    BY <1>2, <2>1, <2>2, <2>3 DEF Access
<1>3. CASE Decide
  <2>1. status' = StatusOf(seen) /\ ShouldAlert(StatusOf(seen)) /\ seen' = seen /\ now' = now
    BY <1>3 DEF Decide, PassEnds
  <2>2. QED
    BY <2>1, Aging DEF PostInv, ShouldAlert
<1>4. CASE CommandBegins \/ Posted \/ Restart \/ Tick \/ UNCHANGED vars
  BY <1>1, <1>4 DEF CommandBegins, Posted, Restart, Tick, vars, localVars
<1>5. ASSUME NEW a \in Actors, LoginSucceeds(a) PROVE PostInv'
  BY <1>1, <1>5 DEF LoginSucceeds
<1>6. CASE Crash \/ \E a \in Actors : Fails(a)
  BY <1>1, <1>6 DEF Crash, Fails, Dropped
<1>7. QED
  BY <1>2, <1>3, <1>4, <1>5, <1>6 DEF Next

\* The promises about the mark, and about silence.
ToldInv == MarkInv /\ SilenceInv

\* A step that decides and records nothing, that completes no pass, and leaves
\* the mark of a file it does not open as it is keeps those promises.
LEMMA NeutralStep ==
  ASSUME TypeOK, ToldInv, calm' => calm, warned' = warned, now' = now,
         told' = told, recorded' = recorded,
         calm' /\ Quiet' => Quiet /\ meta'.mark = meta.mark,
         status' \in {"none", status}
  PROVE  ToldInv'
<1>1. StatusOf(recorded)' = StatusOf(recorded)
  BY Aging
<1>2. MarkInv'
  BY <1>1 DEF ToldInv, MarkInv, LastTold
<1>3. SilenceInv'
  BY DEF ToldInv, SilenceInv
<1>4. QED
  BY <1>2, <1>3 DEF ToldInv

\* The worker's mark is what it alerted on; a login that is recorded starts anew.
LEMMA CloseTells ==
  ASSUME TypeOK, StageInv, WriterInv, FileInv, PostInv, PassInv, ToldInv, NEW a \in Actors, CloseMeta(a)
  PROVE  ToldInv'
<1> USE Shape
<1>1. pc[a] = "open" /\ now' = now /\ (calm' => meta' = copy[a])
  BY WrittenWhole DEF CloseMeta
<1>2. CASE a \in Logins /\ copy[a].at = now
  <2>1. recorded' = now /\ told' = {} /\ warned' = FALSE
    BY <1>2 DEF CloseMeta
  <2>2. MarkInv'
    BY <2>1 DEF MarkInv, LastTold
  <2>3. SilenceInv'
    BY <2>1 DEF SilenceInv
  <2>4. QED
    BY <2>2, <2>3 DEF ToldInv
<1>3. CASE a = "worker" /\ status # "none"
  <2>1. /\ recorded' = recorded /\ calm' = calm /\ status' = "none"
        /\ told' = (IF seen = recorded THEN told \cup {status} ELSE told)
        /\ warned' = (warned \/ (seen = recorded /\ status = "warn"))
    BY <1>1, <1>3 DEF CloseMeta, PassEnds
  <2>2. calm' => meta'.mark = status
    BY <1>1, <1>3 DEF StageInv, Writing
  <2>3. StatusOf(recorded)' = StatusOf(recorded)
    BY <1>1, <2>1, Aging
  <2>4. MarkInv'
    <3>1. told' \subseteq {"warn", "critical"} /\ ("critical" \in told' => StatusOf(recorded)' = "critical")
      BY <1>3, <2>1, <2>3 DEF ToldInv, MarkInv, PostInv
    <3>2. calm' => LastTold(meta.mark)'
      BY <1>3, <2>1, <2>2, <2>3 DEF ToldInv, MarkInv, LastTold
    <3>3. QED
      BY <2>1, <3>1, <3>2 DEF MarkInv
  <2>5. SilenceInv'
    <3>1. calm' /\ seen # recorded => ~warned'
      BY <1>3, <2>1 DEF PassInv
    <3>2. seen = recorded /\ status = "critical" => "critical" \in told'
      BY <2>1
    <3>3. QED
      BY <2>1, <2>2, <3>1, <3>2 DEF SilenceInv
  <2>6. QED
    BY <2>4, <2>5 DEF ToldInv
<1>4. CASE ~(a \in Logins /\ copy[a].at = now) /\ ~(a = "worker" /\ status # "none")
  <2>1. /\ recorded' = recorded /\ told' = told /\ calm' = calm /\ status' = status
        /\ warned' = warned
    BY <1>4 DEF CloseMeta
  <2>2. ~calm
    BY <1>1, <1>4 DEF FileInv, Writing
  <2>3. StatusOf(recorded)' = StatusOf(recorded)
    BY <1>1, <2>1, Aging
  <2>4. QED
    BY <2>1, <2>2, <2>3 DEF ToldInv, MarkInv, SilenceInv
<1>5. QED
  BY <1>2, <1>3, <1>4

\* The worker decides: what it alerts on is new, and when it says nothing the
\* last status it told is still the one.
LEMMA DecideTells ==
  ASSUME TypeOK, StageInv, FileInv, ToldInv, PassInv, Decide
  PROVE  ToldInv'
<1> USE Shape
<1>1. /\ pc["worker"] = "deciding" /\ status = "none" /\ recorded' = recorded
      /\ now' = now /\ meta' = meta /\ told' = told
      /\ calm' = (calm /\ Alone("worker"))
  BY DEF Decide, StageInv, fileVars
<1>2. StatusOf(recorded)' = StatusOf(recorded)
  BY <1>1, Aging
<1>3. calm' => calm /\ Quiet
  BY <1>1, AloneSees
<1>4. calm' => seen = recorded \/ (~warned /\ told = {})
  BY <1>1, <1>3 DEF PassInv
<1>5. CASE ShouldAlert(StatusOf(seen))
  <2>1. /\ status' = StatusOf(seen) /\ warned' = warned
        /\ StatusOf(seen) \in {"warn", "critical"} /\ meta.mark # StatusOf(seen)
    BY <1>5 DEF Decide, ShouldAlert
  <2>2. calm' => LastTold(status)'
    <3>1. CASE seen = recorded
      <4>1. status' = StatusOf(recorded)
        BY <2>1, <3>1
      <4>2. QED
        BY <1>1, <1>2, <1>3, <2>1, <4>1 DEF ToldInv, MarkInv, LastTold
    <3>2. CASE seen # recorded
      BY <1>1, <1>4, <3>2 DEF LastTold
    <3>3. QED
      BY <3>1, <3>2
  <2>3. MarkInv'
    BY <1>1, <1>2, <1>3, <2>2 DEF ToldInv, MarkInv, LastTold
  <2>4. SilenceInv'
    BY <1>1, <1>3, <2>1 DEF ToldInv, SilenceInv
  <2>5. QED
    BY <2>3, <2>4 DEF ToldInv
<1>6. CASE ~ShouldAlert(StatusOf(seen))
  <2>1. status' = "none" /\ warned' = (warned \/ (seen = recorded /\ StatusOf(seen) = "warn"))
    BY <1>6 DEF Decide, PassEnds
  <2>2. MarkInv'
    BY <1>1, <1>2, <1>3, <2>1 DEF ToldInv, MarkInv, LastTold
  <2>3. StatusOf(seen) = "warn" => meta.mark = "warn"
    BY <1>6 DEF ShouldAlert
  <2>4. SilenceInv'
    BY <1>1, <1>3, <2>1, <2>3 DEF ToldInv, SilenceInv
  <2>5. QED
    BY <2>2, <2>4 DEF ToldInv
<1>7. QED
  BY <1>5, <1>6

\* A day passes: what had run out stays so.
LEMMA TickTells ==
  ASSUME TypeOK, ToldInv, Tick
  PROVE  ToldInv'
<1> USE Shape
<1>1. /\ now' = now + 1 /\ recorded' = recorded /\ told' = told /\ meta' = meta
      /\ status' = status /\ pc' = pc /\ calm' = calm /\ warned' = warned
  BY DEF Tick, fileVars, localVars, pastVars
<1>2. StatusOf(recorded) = "critical" => StatusOf(recorded)' = "critical"
  BY <1>1, Aging
<1>3. Quiet' = Quiet
  BY <1>1 DEF Quiet
<1>4. MarkInv'
  BY <1>1, <1>2, <1>3 DEF ToldInv, MarkInv, LastTold
<1>5. SilenceInv'
  BY <1>1, <1>3 DEF ToldInv, SilenceInv
<1>6. QED
  BY <1>4, <1>5 DEF ToldInv

\* Every step keeps what has been told true.
LEMMA ToldStep ==
  TypeOK /\ StageInv /\ WriterInv /\ FileInv /\ PostInv /\ PassInv /\ ToldInv /\ [Next]_vars => ToldInv'
<1> SUFFICES ASSUME TypeOK, StageInv, WriterInv, FileInv, PostInv, PassInv, ToldInv, [Next]_vars
             PROVE  ToldInv'
  OBVIOUS
<1> USE Shape
<1>1. ASSUME NEW a \in Actors, Resolve(a) \/ Seed(a) \/ ReadMeta(a) \/ OpenMeta(a)
      PROVE  ToldInv'
  <2>1. /\ now' = now /\ told' = told /\ recorded' = recorded /\ status' = status
        /\ warned' = warned
    BY <1>1 DEF Resolve, Seed, ReadMeta, OpenMeta, pastVars
  <2>2. calm' => calm
    BY <1>1 DEF Resolve, Seed, ReadMeta, OpenMeta, pastVars
  <2>3. Quiet' => Quiet /\ meta'.mark = meta.mark
    BY <1>1 DEF Resolve, Seed, ReadMeta, OpenMeta, Known, Quiet, fileVars
  <2>4. QED
    BY <2>1, <2>2, <2>3, NeutralStep
<1>2. ASSUME NEW a \in Actors, LoginSucceeds(a) PROVE ToldInv'
  <2>1. Quiet' => Quiet
    BY <1>2 DEF LoginSucceeds, Quiet
  <2>2. QED
    BY <1>2, <2>1, NeutralStep DEF LoginSucceeds
<1>3. CASE CommandBegins \/ Posted
  <2>1. Quiet' => Quiet
    BY <1>3 DEF CommandBegins, Posted, Quiet
  <2>2. QED
    BY <1>3, <2>1, NeutralStep DEF CommandBegins, Posted, fileVars, pastVars
<1>4. ASSUME NEW A \in SUBSET Actors, Dropped(A), UNCHANGED <<now, fileVars, recorded, told, warned>>
      PROVE  ToldInv'
  <2>1. calm' => calm /\ \A b \in A : ~Writing(b)
    BY <1>4 DEF Dropped
  <2>2. calm' /\ Quiet' => Quiet
    BY <1>4, <2>1 DEF Dropped, Writing, Quiet
  <2>3. status' \in {"none", status}
    BY <1>4 DEF Dropped
  <2>4. QED
    BY <1>4, <2>1, <2>2, <2>3, NeutralStep DEF fileVars
<1>5. CASE Crash \/ \E a \in Actors : Fails(a)
  BY <1>4, <1>5 DEF Crash, Fails
<1>6. CASE Restart
  <2>1. calm' /\ Quiet' => Quiet
    BY <1>6 DEF Restart, FileInv, Writing, Quiet, pastVars
  <2>2. QED
    BY <1>6, <2>1, NeutralStep DEF Restart, fileVars, pastVars
<1>7. CASE UNCHANGED vars
  BY <1>7, NeutralStep DEF vars, fileVars, localVars, pastVars, Quiet
<1>8. QED
  BY <1>1, <1>2, <1>3, <1>5, <1>6, <1>7, CloseTells, DecideTells, TickTells DEF Next, Access

\* Every step keeps PassInv: a login that is recorded is the present one, and
\* a pass that begins sees the recorded one.
LEMMA PassStep == TypeOK /\ StageInv /\ FileInv /\ PassInv /\ [Next]_vars => PassInv'
<1> SUFFICES ASSUME TypeOK, StageInv, FileInv, PassInv, [Next]_vars, calm' PROVE PassInv'
  BY DEF PassInv
<1> USE Shape
<1>0. ASSUME calm, recorded' = recorded, told' = told, now' = now, warned' = warned,
             pc'["worker"] = "deciding" => pc["worker"] = "deciding" /\ seen' = seen,
             status' # "none" => status # "none" /\ seen' = seen
      PROVE  PassInv'
  BY <1>0 DEF PassInv
<1>1. ASSUME NEW a \in Actors, Resolve(a) \/ Seed(a) PROVE PassInv'
  <2>1. calm /\ Alone(a) /\ pc[a] # "open" /\ ~Writing(a) /\ recorded' = recorded /\ status' = status
    BY <1>1 DEF Resolve, Seed, Writing
  <2>2. meta.at = recorded /\ (meta.at = Never => pickle = Never)
    BY <2>1, AloneSees
  <2>3. CASE a = "worker"
    BY <1>1, <2>1, <2>2, <2>3 DEF Resolve, Seed, Known, PassInv, StageInv
  <2>4. CASE a # "worker"
    <3>1. seen' = seen /\ pc'["worker"] = pc["worker"] /\ told' = told /\ now' = now
      BY <1>1, <2>4 DEF Resolve, Seed, Known
    <3>2. warned' = warned
      BY <1>1 DEF Resolve, Seed
    <3>3. QED
      BY <1>0, <2>1, <3>1, <3>2
  <2>5. QED
    BY <2>3, <2>4
<1>2. ASSUME NEW a \in Actors, ReadMeta(a) \/ OpenMeta(a) \/ LoginSucceeds(a) PROVE PassInv'
  <2>1. /\ calm /\ recorded' = recorded /\ told' = told /\ now' = now /\ seen' = seen /\ status' = status
        /\ pc'["worker"] = "deciding" => pc["worker"] = "deciding"
    BY <1>2 DEF ReadMeta, OpenMeta, LoginSucceeds, pastVars
  <2>2. warned' = warned
    BY <1>2 DEF ReadMeta, OpenMeta, LoginSucceeds, pastVars
  <2>3. QED
    BY <1>0, <2>1, <2>2
<1>3. ASSUME NEW a \in Actors, CloseMeta(a) PROVE PassInv'
  <2>1. CASE a \in Logins /\ copy[a].at = now
    BY <1>3, <2>1 DEF CloseMeta, PassInv
  <2>2. CASE ~(a \in Logins /\ copy[a].at = now)
    <3>1. calm
      BY <1>3, <2>2 DEF CloseMeta
    <3>2. a = "worker" /\ status # "none"
      BY <1>3, <2>2, <3>1 DEF CloseMeta, FileInv, Writing
    <3>3. QED
      BY <1>3, <3>2 DEF CloseMeta, PassEnds, PassInv
  <2>3. QED
    BY <2>1, <2>2
<1>4. CASE CommandBegins \/ Posted \/ Restart \/ UNCHANGED vars
  <2>1. /\ calm /\ recorded' = recorded /\ told' = told /\ now' = now /\ seen' = seen /\ status' = status
        /\ pc'["worker"] = "deciding" => pc["worker"] = "deciding"
    BY <1>4 DEF CommandBegins, Posted, Restart, vars, localVars, pastVars
  <2>2. warned' = warned
    BY <1>4 DEF CommandBegins, Posted, Restart, vars, pastVars
  <2>3. QED
    BY <1>0, <2>1, <2>2
<1>5. CASE Decide
  BY <1>5 DEF Decide, PassEnds, PassInv
<1>6. CASE Crash \/ \E a \in Actors : Fails(a)
  <2>1. /\ calm /\ recorded' = recorded /\ told' = told /\ now' = now
    BY <1>6 DEF Crash, Fails, Dropped
  <2>2. PICK A \in SUBSET Actors : Dropped(A)
    BY <1>6 DEF Crash, Fails
  <2>3. /\ pc'["worker"] = "deciding" => pc["worker"] = "deciding" /\ seen' = seen
        /\ status' # "none" => status # "none" /\ seen' = seen
    BY <2>2 DEF Dropped
  <2>4. warned' = warned
    BY <1>6 DEF Crash, Fails
  <2>5. QED
    BY <1>0, <2>1, <2>3, <2>4
<1>7. CASE Tick
  BY <1>7 DEF Tick, localVars, pastVars, PassInv
<1>8. QED
  BY <1>1, <1>2, <1>3, <1>4, <1>5, <1>6, <1>7 DEF Next, Access

-----------------------------------------------------------------------------
(***************************************************************************)
(* The alerts.                                                             *)
(***************************************************************************)
AgeInv == TypeOK /\ StageInv /\ WriterInv /\ FileInv /\ PostInv /\ PassInv /\ ToldInv

LEMMA AgeInit == Init => StageInv /\ WriterInv /\ FileInv /\ PostInv /\ PassInv /\ ToldInv
<1> SUFFICES ASSUME Init PROVE StageInv /\ WriterInv /\ FileInv /\ PostInv /\ PassInv /\ ToldInv
  OBVIOUS
<1>1. StageInv /\ PassInv /\ WriterInv /\ PostInv
  BY DEF Init, StageInv, PassInv, WriterInv, PostInv, Writing, Actors, Loop
<1>2. FileInv
  BY DEF Init, FileInv, Writing, Actors, Logins, Loop, Blank
<1>3. MarkInv
  BY DEF Init, MarkInv, LastTold
<1>4. SilenceInv
  BY DEF Init, SilenceInv
<1>5. QED
  BY <1>1, <1>2, <1>3, <1>4 DEF ToldInv

LEMMA AgeStep == AgeInv /\ [Next]_vars => AgeInv'
BY TypeStep, StageStep, WriterStep, FileStep, PostStep, PassStep, ToldStep DEF AgeInv

\* Who decides, and how.
LEMMA OnlyDecide ==
  ASSUME TypeOK, [Next]_vars, pc["worker"] = "deciding", pc'["worker"] # "deciding",
         pc'["worker"] = "posting" \/ (calm' /\ faults' = faults)
  PROVE  Decide
<1> USE Shape
<1>1. ASSUME NEW a \in Actors, Access(a) \/ LoginSucceeds(a) \/ Fails(a) PROVE FALSE
  <2>1. CASE Access(a) \/ LoginSucceeds(a)
    BY <2>1 DEF Access, Resolve, Seed, ReadMeta, OpenMeta, CloseMeta, LoginSucceeds, PassEnds, Known
  <2>2. CASE Fails(a)
    <3>1. pc'["worker"] \in {"idle", "deciding"} /\ faults' = faults + 1 /\ faults \in Int
      BY <2>2 DEF Fails, Dropped, TypeOK
    <3>2. QED
      BY <3>1
  <2>3. QED
    BY <1>1, <2>1, <2>2
<1>2. CASE Crash
  <2>1. pc'["worker"] = "idle" /\ faults' = faults + 1 /\ faults \in Int
    BY <1>2 DEF Crash, Dropped, TypeOK
  <2>2. QED
    BY <2>1
<1>3. QED
  BY <1>1, <1>2 DEF Next, CommandBegins, Posted, Restart, Tick, vars, localVars

\* Of a login that was found in its warning period and has run out no pass
\* keeps silent untold, marks of former logins, failed passes and days without
\* one notwithstanding.
THEOREM CriticalProved == Spec => CriticalAnnounced
<1> DEFINE Told == calm' /\ pc["worker"] = "deciding" /\ pc'["worker"] = "idle" /\ faults' = faults
                     => (warned /\ StatusOf(recorded) = "critical" => "critical" \in told)
<1>1. ASSUME AgeInv, [Next]_vars, calm', pc["worker"] = "deciding", pc'["worker"] = "idle",
             faults' = faults, warned, StatusOf(recorded) = "critical"
      PROVE  "critical" \in told
  <2> USE Shape DEF AgeInv
  <2>1. Decide
    BY <1>1, OnlyDecide
  <2>2. calm /\ Quiet
    BY <1>1, <2>1, AloneSees DEF Decide
  <2>3. seen = recorded
    BY <1>1, <2>2 DEF PassInv
  <2>4. ~ShouldAlert(StatusOf(seen))
    BY <1>1, <2>1 DEF Decide
  <2>5. meta.mark = "critical"
    BY <1>1, <2>3, <2>4 DEF ShouldAlert
  <2>6. QED
    BY <1>1, <2>2, <2>5 DEF ToldInv, SilenceInv
<1>2. AgeInv /\ [Next]_vars => [Told]_vars
  BY <1>1
<1>3. QED
  BY <1>2, AgeInit, AgeStep, LoginAgeTypes, PTL DEF Spec, AgeInv, CriticalAnnounced

\* After a login no alert that was sent and marked is sent again.
THEOREM AlertsProved == Spec => AlertedOnce
<1>1. ASSUME AgeInv, [Next]_vars, calm', pc["worker"] = "deciding", pc'["worker"] = "posting",
             seen = recorded
      PROVE  status' \notin told
  <2> USE Shape DEF AgeInv
  <2>1. Decide
    BY <1>1, OnlyDecide
  <2>2. calm /\ Quiet
    BY <1>1, <2>1, AloneSees DEF Decide
  <2>3. status' = StatusOf(recorded) /\ ShouldAlert(StatusOf(recorded))
    BY <1>1, <2>1 DEF Decide, PassEnds
  <2>4. LastTold(meta.mark)
    BY <1>1, <2>2 DEF ToldInv, MarkInv
  <2>5. QED
    BY <1>1, <2>3, <2>4 DEF LastTold, ShouldAlert, ToldInv, MarkInv
<1>2. AgeInv /\ [Next]_vars =>
        [calm' /\ pc["worker"] = "deciding" /\ pc'["worker"] = "posting" /\ seen = recorded
           => status' \notin told]_vars
  BY <1>1
<1>3. QED
  BY <1>2, AgeInit, AgeStep, LoginAgeTypes, PTL DEF Spec, AgeInv, AlertedOnce
=============================================================================
