----------------------- MODULE RobinhoodSessionProofs -----------------------
(***************************************************************************)
(* Theorems about RobinhoodSession, for any number of callers and of       *)
(* re-authentication jobs, and every setting of the cooldowns.             *)
(***************************************************************************)
EXTENDS RobinhoodSession, FiniteSetTheorems, TLAPS

(***************************************************************************)
(* Types.                                                                  *)
(***************************************************************************)
\* A cooldown is a natural number of clock units.
LEMMA BackoffType ==
  ASSUME NEW e, NEW n \in Nat
  PROVE  Backoff(e, n) \in Nat
<1> DEFINE k == IF n < 1 THEN 1 ELSE IF n > 4 THEN 4 ELSE n
<1>1. k \in Nat
  OBVIOUS
<1>2. \A a, b \in Nat : a * b \in Nat
  OBVIOUS
<1>3. Retry * k \in Nat /\ RateRetry \in Nat
  <2> HIDE DEF k
  <2> QED BY <1>1, <1>2, SessionAssumption
<1>4. QED
  BY <1>3 DEF Backoff

\* Every step keeps the types.
LEMMA TypeStep == TypeOK /\ [Next]_vars => TypeOK'
<1> SUFFICES ASSUME TypeOK, [Next]_vars PROVE TypeOK'
  OBVIOUS
<1> USE SessionAssumption DEF TypeOK, stateVars, reauthVars, threadVars, jobVars, fileVars
<1>1. ASSUME NEW c \in Callers, Caller(c) PROVE TypeOK'
  BY <1>1 DEF Caller, Validate, BeginLogin, AnswerAtOnce, Threads, vars
<1>2. ASSUME NEW c \in Threads, LoginReturns(c) PROVE TypeOK'
  BY <1>2 DEF LoginReturns, Errors, Tokens
<1>3. ASSUME NEW c \in Threads, LoginSucceeds(c) PROVE TypeOK'
  BY <1>3 DEF LoginSucceeds, ThreadEnds, Errors
<1>4. ASSUME NEW c \in Threads, LoginFails(c) PROVE TypeOK'
  <2>1. MoreFailures \in 0..MaxFailures
    BY DEF MoreFailures
  <2>2. now + Backoff(outcome[c], MoreFailures) \in Nat
    BY <2>1, BackoffType
  <2>3. outcome[c] \in Errors
    BY <1>4 DEF LoginFails
  <2>4. QED
    BY <1>4, <2>1, <2>2, <2>3 DEF LoginFails, ThreadEnds
<1>5. CASE StartReauth
  BY <1>5 DEF StartReauth, Jobs, JobStates
<1>6. ASSUME NEW j \in Jobs, PutTokenAside(j) \/ DropBackup(j) \/ RestoreUnlink(j) \/ RestoreMove(j)
      PROVE  TypeOK'
  <2>1. Copy(j) \in Tokens /\ (Remove(j) /\ Copy(j) # "none" => aside' \in [0..MaxTime -> Tokens])
    BY DEF Copy, Remove, Tokens
  <2>2. CASE PutTokenAside(j)
    BY <2>2 DEF PutTokenAside, JobStates, Tokens
  <2>3. CASE DropBackup(j) \/ RestoreUnlink(j) \/ RestoreMove(j)
    BY <2>1, <2>3 DEF DropBackup, RestoreUnlink, RestoreMove, JobStates, Tokens
  <2>4. QED
    BY <1>6, <2>2, <2>3
<1>7. ASSUME NEW j \in Jobs, ForceLogin(j) PROVE TypeOK'
  BY <1>7 DEF ForceLogin, JobStates, Threads
<1>8. ASSUME NEW j \in Jobs, JobTimesOut(j) \/ JobEnds(j) PROVE TypeOK'
  BY <1>8 DEF JobTimesOut, JobEnds, JobStates, Threads
<1>9. CASE Tick
  BY <1>9 DEF Tick
<1>10. CASE UNCHANGED vars
  BY <1>10 DEF vars
<1>11. QED
  BY <1>1, <1>2, <1>3, <1>4, <1>5, <1>6, <1>7, <1>8, <1>9, <1>10 DEF Next, Login, JobThread

\* TypeOK holds in every reachable state.
THEOREM SessionTypes == Spec => []TypeOK
<1>1. Init => TypeOK
  <2> SUFFICES ASSUME Init PROVE TypeOK
    OBVIOUS
  <2>1. /\ now \in 0..MaxTime /\ failures \in 0..MaxFailures /\ started \in 0..MaxJobs
        /\ blockedUntil \in Nat
    BY SessionAssumption DEF Init
  <2>2. /\ loggedIn \in BOOLEAN /\ lastError \in Errors \cup {"none", "reauth_in_progress"}
        /\ validatedAt \in 0..MaxTime \cup {Never}
        /\ status \in {"idle", "awaiting_approval", "succeeded", "failed"}
        /\ jobError \in Errors \cup {"none", "approval_timeout"}
        /\ token \in Tokens
    BY DEF Init, Tokens
  <2>3. /\ pc \in [Threads -> {"idle", "login", "returned", "over"}]
        /\ outcome \in [Threads -> Errors \cup {"ok"}]
        /\ job \in [Jobs -> JobStates] /\ backup \in [Jobs -> 0..MaxTime \cup {Never}]
        /\ aside \in [0..MaxTime -> Tokens]
    BY DEF Init, JobStates, Tokens
  <2>4. QED
    BY <2>1, <2>2, <2>3 DEF TypeOK
<1>2. QED
  BY <1>1, TypeStep, PTL DEF Spec

-----------------------------------------------------------------------------
(***************************************************************************)
(* The session.                                                            *)
(***************************************************************************)
\* Being logged in means that no failure came after the success.
THEOREM CleanProved == Spec => []LoggedInMeansClean
<1>1. Init => LoggedInMeansClean
  BY DEF Init, LoggedInMeansClean
<1>2. LoggedInMeansClean /\ [Next]_vars => LoggedInMeansClean'
  <2> SUFFICES ASSUME LoggedInMeansClean, [Next]_vars PROVE LoggedInMeansClean'
    OBVIOUS
  <2> USE DEF LoggedInMeansClean, stateVars
  <2>1. ASSUME NEW c, Caller(c) \/ Login(c) PROVE LoggedInMeansClean'
    BY <2>1 DEF Caller, Validate, BeginLogin, AnswerAtOnce, Login, LoginReturns,
                LoginSucceeds, LoginFails, vars
  <2>2. ASSUME NEW j, JobThread(j) PROVE LoggedInMeansClean'
    BY <2>2 DEF JobThread, PutTokenAside, ForceLogin, JobTimesOut, JobEnds, DropBackup,
                RestoreUnlink, RestoreMove
  <2>3. CASE StartReauth \/ Tick \/ UNCHANGED vars
    BY <2>3 DEF StartReauth, Tick, vars
  <2>4. QED
    BY <2>1, <2>2, <2>3 DEF Next
<1>3. QED
  BY <1>1, <1>2, PTL DEF Spec

-----------------------------------------------------------------------------
(***************************************************************************)
(* The jobs.                                                               *)
(***************************************************************************)
\* OneJobAwaits without counting.
AwaitInv ==
  /\ \A j, k \in Jobs : job[j] \in Awaiting /\ job[k] \in Awaiting => j = k
  /\ status = "awaiting_approval" <=> \E j \in Jobs : job[j] \in Awaiting

\* Every step keeps AwaitInv: a job is created only when none awaits.
LEMMA AwaitStep == TypeOK /\ AwaitInv /\ [Next]_vars => AwaitInv'
<1> SUFFICES ASSUME TypeOK, AwaitInv, [Next]_vars PROVE AwaitInv'
  OBVIOUS
<1> USE DEF AwaitInv
<1>0. job \in [Jobs -> JobStates]
  BY DEF TypeOK
<1>1. CASE StartReauth
  BY <1>0, <1>1, SessionAssumption DEF StartReauth, Awaiting, Jobs, TypeOK
<1>2. ASSUME NEW j \in Jobs, PutTokenAside(j) \/ ForceLogin(j) PROVE AwaitInv'
  <2>1. /\ job[j] \in Awaiting /\ status' = status
        /\ \E s \in Awaiting : job' = [job EXCEPT ![j] = s]
    BY <1>2 DEF PutTokenAside, ForceLogin, Awaiting, reauthVars
  <2>2. QED
    BY <1>0, <2>1
<1>3. ASSUME NEW j \in Jobs, JobTimesOut(j) \/ JobEnds(j) PROVE AwaitInv'
  <2>1. /\ job[j] \in Awaiting /\ status' # "awaiting_approval"
        /\ \E s \in JobStates \ Awaiting : job' = [job EXCEPT ![j] = s]
    BY <1>3 DEF JobTimesOut, JobEnds, Awaiting, JobStates
  <2>2. QED
    BY <1>0, <2>1
<1>4. ASSUME NEW j \in Jobs, DropBackup(j) \/ RestoreUnlink(j) \/ RestoreMove(j) PROVE AwaitInv'
  <2>1. /\ job[j] \notin Awaiting /\ status' = status
        /\ \E s \in JobStates \ Awaiting : job' = [job EXCEPT ![j] = s]
    BY <1>4 DEF DropBackup, RestoreUnlink, RestoreMove, Awaiting, JobStates, reauthVars
  <2>2. QED
    BY <1>0, <2>1
<1>5. CASE UNCHANGED <<status, job>>
  BY <1>5
<1>6. ASSUME NEW c, Caller(c) \/ Login(c) PROVE UNCHANGED <<status, job>>
  BY <1>6 DEF Caller, Validate, BeginLogin, AnswerAtOnce, Login, LoginReturns, LoginSucceeds,
              LoginFails, vars, reauthVars, jobVars
<1>7. QED
  BY <1>1, <1>2, <1>3, <1>4, <1>5, <1>6 DEF Next, JobThread, Tick, vars, reauthVars, jobVars

\* No two jobs wait for an approval, and the status says when one does.
THEOREM OneJobProved == Spec => []OneJobAwaits
<1>1. Init => AwaitInv
  BY DEF Init, AwaitInv, Awaiting
<1>2. AwaitInv => OneJobAwaits
  <2> SUFFICES ASSUME AwaitInv PROVE OneJobAwaits
    OBVIOUS
  <2> DEFINE S == {j \in Jobs : job[j] \in Awaiting}
  <2>1. S = {} \/ \E j \in Jobs : S = {j}
    BY DEF AwaitInv
  <2> HIDE DEF S
  <2>2. Cardinality(S) <= 1
    <3>1. CASE S = {}
      BY <3>1, FS_EmptySet
    <3>2. ASSUME NEW j \in Jobs, S = {j} PROVE Cardinality(S) = 1
      BY <3>2, FS_Singleton
    <3>3. QED
      BY <2>1, <3>1, <3>2
  <2>3. QED
    BY <2>2 DEF AwaitInv, OneJobAwaits, S
<1>3. QED
  BY <1>1, <1>2, SessionTypes, AwaitStep, PTL DEF Spec

-----------------------------------------------------------------------------
(***************************************************************************)
(* The token file.                                                         *)
(***************************************************************************)
\* A job that has no thread yet has not been started, and before it puts the
\* token aside it has no backup.
FreshInv ==
  /\ \A j \in Jobs : j > started => job[j] = "none"
  /\ \A j \in Jobs : job[j] \in {"none", "created"} => backup[j] = Never

\* A job that is about to move its backup back has one.
MovingInv == \A j \in Jobs : job[j] = "moving" => Held(j) # "none"

\* A login that succeeded for the job that waits for it left a token, or an
\* older job is putting one back, or could not.
JoinedInv ==
  \A k \in Jobs :
    job[k] = "joining" /\ pc[k] \in {"returned", "over"} /\ outcome[k] = "ok"
    => token # "none" \/ \E m \in Jobs : job[m] \in {"restoring", "moving", "stuck"} /\ Held(m) # "none"

\* A backup is deleted only while the token is elsewhere.
DroppingInv ==
  (\E j \in Jobs : job[j] = "dropping")
  => token # "none" \/ \E m \in Jobs : job[m] # "dropping" /\ Held(m) # "none"

KeptInv == FreshInv /\ (NamesDiffer => MovingInv /\ JoinedInv /\ DroppingInv)

\* Every step keeps FreshInv.
LEMMA FreshStep == TypeOK /\ FreshInv /\ [Next]_vars => FreshInv'
<1> SUFFICES ASSUME TypeOK, FreshInv, [Next]_vars PROVE FreshInv'
  OBVIOUS
<1> USE DEF FreshInv
<1>0. /\ job \in [Jobs -> JobStates] /\ backup \in [Jobs -> 0..MaxTime \cup {Never}]
      /\ Jobs \subseteq Nat /\ started \in Nat
  BY SessionAssumption DEF TypeOK, Jobs
<1>1. CASE StartReauth
  BY <1>0, <1>1 DEF StartReauth, Jobs, fileVars
<1>2. ASSUME NEW j \in Jobs, PutTokenAside(j) PROVE FreshInv'
  BY <1>0, <1>2 DEF PutTokenAside, fileVars
<1>3. ASSUME NEW j \in Jobs, JobThread(j), ~PutTokenAside(j) PROVE FreshInv'
  <2>1. /\ job[j] \notin {"none", "created"} /\ UNCHANGED <<started, backup>>
        /\ \E t \in JobStates \ {"none", "created"} : job' = [job EXCEPT ![j] = t]
    BY <1>3 DEF JobThread, ForceLogin, JobTimesOut, JobEnds, DropBackup, RestoreUnlink, RestoreMove,
                JobStates, fileVars
  <2>2. QED
    BY <1>0, <2>1
<1>4. ASSUME NEW c, Caller(c) \/ Login(c) PROVE FreshInv'
  BY <1>4 DEF Caller, Validate, BeginLogin, AnswerAtOnce, Login, LoginReturns, LoginSucceeds,
              LoginFails, vars, jobVars, fileVars
<1>5. CASE Tick \/ UNCHANGED vars
  BY <1>5 DEF Tick, vars, jobVars, fileVars
<1>6. QED
  BY <1>1, <1>2, <1>3, <1>4, <1>5 DEF Next

\* Names that differ after a step differed before it.
LEMMA NamesStep == TypeOK /\ FreshInv /\ [Next]_vars /\ NamesDiffer' => NamesDiffer
<1> SUFFICES ASSUME TypeOK, FreshInv, [Next]_vars, NamesDiffer' PROVE NamesDiffer
  OBVIOUS
<1>0. backup \in [Jobs -> 0..MaxTime \cup {Never}]
  BY DEF TypeOK
<1>1. ASSUME NEW j \in Jobs, PutTokenAside(j) PROVE NamesDiffer
  <2>1. backup[j] = Never
    BY <1>1 DEF PutTokenAside, FreshInv
  <2>2. \A k \in Jobs \ {j} : backup'[k] = backup[k]
    BY <1>0, <1>1 DEF PutTokenAside, fileVars
  <2>3. QED
    BY <2>1, <2>2 DEF NamesDiffer
<1>2. CASE UNCHANGED backup
  BY <1>2 DEF NamesDiffer
<1>3. CASE \A j \in Jobs : ~PutTokenAside(j)
  <2>1. UNCHANGED backup
    BY <1>3 DEF Next, Caller, Validate, BeginLogin, AnswerAtOnce, Login, LoginReturns, LoginSucceeds,
       LoginFails, StartReauth, JobThread, ForceLogin, JobTimesOut, JobEnds, DropBackup,
       RestoreUnlink, RestoreMove, Tick, vars, fileVars
  <2>2. QED
    BY <1>2, <2>1
<1>4. QED
  BY <1>1, <1>3

\* Putting the token aside gives it to the job.
LEMMA HeldPut ==
  ASSUME TypeOK, FreshInv, NamesDiffer', NEW j \in Jobs, PutTokenAside(j)
  PROVE  /\ Held(j) = "none" /\ \A k \in Jobs \ {j} : Held(k)' = Held(k)
         /\ \/ token # "none" /\ token' = "none" /\ Held(j)' = token
            \/ token' = token /\ Held(j)' = "none"
<1>0. /\ job \in [Jobs -> JobStates] /\ backup \in [Jobs -> 0..MaxTime \cup {Never}]
      /\ aside \in [0..MaxTime -> Tokens] /\ now \in 0..MaxTime /\ Never \notin 0..MaxTime
  BY SessionAssumption DEF TypeOK, Never
<1>1. backup[j] = Never /\ job[j] = "created"
  BY DEF PutTokenAside, FreshInv
<1>2. Held(j) = "none"
  BY <1>1 DEF Held, Copy
<1>3. job' = [job EXCEPT ![j] = "putaside"]
  BY DEF PutTokenAside
<1>4. CASE UNCHANGED fileVars
  <2>1. UNCHANGED <<backup, aside, token>>
    BY <1>4 DEF fileVars
  <2>2. \A k \in Jobs : Copy(k)' = Copy(k)
    BY <2>1 DEF Copy
  <2>3. QED
    BY <1>0, <1>1, <1>2, <1>3, <2>1, <2>2 DEF Held, Copy
<1>5. CASE /\ token # "none" /\ token' = "none"
           /\ backup' = [backup EXCEPT ![j] = now] /\ aside' = [aside EXCEPT ![now] = token]
  <2>1. Held(j)' = token
    BY <1>0, <1>3, <1>5 DEF Held, Copy
  <2>2. ASSUME NEW k \in Jobs \ {j} PROVE Held(k)' = Held(k)
    <3>1. backup'[k] = backup[k] /\ backup'[j] = now /\ job'[k] = job[k]
      BY <1>0, <1>3, <1>5
    <3>2. backup[k] # now
      BY <1>0, <3>1 DEF NamesDiffer
    <3>3. backup[k] # Never => aside'[backup[k]] = aside[backup[k]]
      BY <1>0, <1>5, <3>2
    <3>4. QED
      BY <3>1, <3>3 DEF Held, Copy
  <2>3. QED
    BY <1>2, <1>5, <2>1, <2>2
<1>6. QED
  BY <1>4, <1>5 DEF PutTokenAside

\* What removing its backup does to a job, and to the others.
LEMMA HeldRemoved ==
  ASSUME TypeOK, NamesDiffer, NEW j \in Jobs, Copy(j) # "none", Remove(j),
         backup' = backup, job' = [job EXCEPT ![j] = "done"]
  PROVE  Held(j)' = "none" /\ \A k \in Jobs \ {j} : Held(k)' = Held(k)
<1>0. /\ job \in [Jobs -> JobStates] /\ backup \in [Jobs -> 0..MaxTime \cup {Never}]
      /\ aside \in [0..MaxTime -> Tokens]
  BY DEF TypeOK
<1>1. Held(j)' = "none"
  BY <1>0 DEF Held
<1>2. ASSUME NEW k \in Jobs \ {j} PROVE Held(k)' = Held(k)
  <2>1. backup[k] # Never => backup[k] # backup[j] /\ aside'[backup[k]] = aside[backup[k]]
    BY <1>0 DEF NamesDiffer, Remove
  <2>2. QED
    BY <1>0, <2>1 DEF Held, Copy
<1>3. QED
  BY <1>1, <1>2

\* A step that leaves the files alone and finishes no job.
LEMMA HeldSame ==
  ASSUME UNCHANGED <<backup, aside>>, \A k \in Jobs : job'[k] = "done" <=> job[k] = "done"
  PROVE  \A k \in Jobs : Held(k)' = Held(k)
BY DEF Held, Copy

\* A step of a job that leaves the files alone.
LEMMA HeldStep ==
  ASSUME TypeOK, NEW j \in Jobs, NEW t, job' = [job EXCEPT ![j] = t], UNCHANGED <<backup, aside>>,
         job[j] # "done"
  PROVE  /\ \A k \in Jobs \ {j} : Held(k)' = Held(k)
         /\ Held(j)' = IF t = "done" THEN "none" ELSE Held(j)
<1>0. job \in [Jobs -> JobStates]
  BY DEF TypeOK
<1>1. \A k \in Jobs : Copy(k)' = Copy(k)
  BY DEF Copy
<1>2. QED
  BY <1>0, <1>1 DEF Held

\* Every step keeps KeptInv.
LEMMA KeptStep == TypeOK /\ AwaitInv /\ KeptInv /\ [Next]_vars => KeptInv'
<1> SUFFICES ASSUME TypeOK, AwaitInv, KeptInv, [Next]_vars, NamesDiffer'
             PROVE  MovingInv' /\ JoinedInv' /\ DroppingInv'
  BY FreshStep DEF KeptInv
<1> DEFINE Goal == MovingInv /\ JoinedInv /\ DroppingInv
<1>0. /\ job \in [Jobs -> JobStates] /\ pc \in [Threads -> {"idle", "login", "returned", "over"}]
      /\ outcome \in [Threads -> Errors \cup {"ok"}] /\ Jobs \subseteq Threads
      /\ FreshInv /\ Goal /\ NamesDiffer
  BY NamesStep DEF TypeOK, Threads, KeptInv
<1> USE DEF MovingInv, JoinedInv, DroppingInv
<1>1. CASE StartReauth
  <2>1. /\ started + 1 \in Jobs /\ job[started + 1] = "none"
        /\ job' = [job EXCEPT ![started + 1] = "created"] /\ UNCHANGED <<backup, aside, token, pc, outcome>>
    BY <1>0, <1>1, SessionAssumption DEF StartReauth, Jobs, TypeOK, FreshInv, threadVars, fileVars
  <2>2. \A k \in Jobs : Held(k)' = Held(k)
    BY <1>0, <2>1, HeldSame
  <2>3. QED
    BY <1>0, <2>1, <2>2
<1>2. ASSUME NEW j \in Jobs, PutTokenAside(j) PROVE Goal'
  <2>1. /\ job[j] = "created" /\ job' = [job EXCEPT ![j] = "putaside"] /\ UNCHANGED <<pc, outcome>>
    BY <1>2 DEF PutTokenAside, threadVars
  <2>2. \A k \in Jobs : job[k] # "joining"
    BY <2>1 DEF AwaitInv, Awaiting
  <2>3. /\ Held(j) = "none" /\ \A k \in Jobs \ {j} : Held(k)' = Held(k)
        /\ \/ token # "none" /\ token' = "none" /\ Held(j)' = token
           \/ token' = token /\ Held(j)' = "none"
    BY <1>0, <1>2, HeldPut
  <2>4. MovingInv' /\ JoinedInv'
    BY <1>0, <2>1, <2>2, <2>3
  <2>5. DroppingInv'
    <3>1. CASE token # "none" /\ token' = "none" /\ Held(j)' = token
      BY <1>0, <2>1, <3>1
    <3>2. CASE token' = token /\ Held(j)' = "none"
      BY <1>0, <2>1, <2>3, <3>2
    <3>3. QED
      BY <2>3, <3>1, <3>2
  <2>6. QED
    BY <2>4, <2>5
<1>3. ASSUME NEW j \in Jobs, ForceLogin(j) PROVE Goal'
  <2>1. /\ job[j] = "putaside" /\ job' = [job EXCEPT ![j] = "joining"] /\ pc' = [pc EXCEPT ![j] = "login"]
        /\ UNCHANGED <<backup, aside, token, outcome>>
    BY <1>3 DEF ForceLogin, fileVars
  <2>2. \A k \in Jobs : Held(k)' = Held(k)
    BY <1>0, <2>1, HeldSame
  <2>3. QED
    BY <1>0, <2>1, <2>2
<1>4. ASSUME NEW j \in Jobs, JobTimesOut(j) \/ JobEnds(j) PROVE Goal'
  <2>1. /\ job[j] = "joining" /\ UNCHANGED <<backup, aside, token, pc, outcome>>
        /\ \/ job' = [job EXCEPT ![j] = "restoring"]
           \/ /\ job' = [job EXCEPT ![j] = "dropping"]
              /\ pc[j] = "over" /\ outcome[j] = "ok"
    BY <1>4 DEF JobTimesOut, JobEnds, fileVars, threadVars
  <2>2. \A k \in Jobs : Held(k)' = Held(k)
    <3>1. PICK t \in {"restoring", "dropping"} : job' = [job EXCEPT ![j] = t]
      BY <2>1
    <3>2. QED
      BY <2>1, <3>1, HeldStep
  <2>3. QED
    BY <1>0, <2>1, <2>2
<1>6. ASSUME NEW j \in Jobs, DropBackup(j) PROVE Goal'
  <2>1. /\ job[j] = "dropping" /\ job' = [job EXCEPT ![j] = "done"]
        /\ UNCHANGED <<backup, token, pc, outcome>>
    BY <1>6 DEF DropBackup, threadVars
  <2>2. Held(j)' = "none" /\ \A k \in Jobs \ {j} : Held(k)' = Held(k)
    BY <1>0, <1>6, <2>1, HeldStep, HeldRemoved DEF DropBackup
  <2>3. QED
    BY <1>0, <2>1, <2>2
<1>7. ASSUME NEW j \in Jobs, RestoreUnlink(j) PROVE Goal'
  <2>1. /\ job[j] = "restoring" /\ UNCHANGED <<backup, aside, pc, outcome>>
        /\ \/ Copy(j) = "none" /\ job' = [job EXCEPT ![j] = "done"] /\ token' = token
           \/ Copy(j) # "none" /\ job' = [job EXCEPT ![j] = "moving"] /\ token' = "none"
           \/ Copy(j) # "none" /\ job' = [job EXCEPT ![j] = "stuck"] /\ token' = token
    BY <1>7 DEF RestoreUnlink, threadVars
  <2>2. Held(j) = Copy(j)
    BY <2>1 DEF Held
  <2>3. \A k \in Jobs : Held(k)' = Held(k)
    <3>1. PICK t \in {"done", "moving", "stuck"} :
            job' = [job EXCEPT ![j] = t] /\ (t = "done" => Copy(j) = "none")
      BY <2>1
    <3>2. QED
      BY <2>1, <2>2, <3>1, HeldStep
  <2>4. QED
    BY <1>0, <2>1, <2>2, <2>3
<1>8. ASSUME NEW j \in Jobs, RestoreMove(j) PROVE Goal'
  <2>1. job[j] = "moving" /\ UNCHANGED <<backup, pc, outcome>>
    BY <1>8 DEF RestoreMove, threadVars
  <2>2. CASE Copy(j) # "none" /\ token' = Copy(j) /\ Remove(j) /\ job' = [job EXCEPT ![j] = "done"]
    <3>1. Held(j)' = "none" /\ \A k \in Jobs \ {j} : Held(k)' = Held(k)
      BY <1>0, <2>1, <2>2, HeldRemoved
    <3>2. QED
      BY <1>0, <2>1, <2>2, <3>1
  <2>3. CASE job' = [job EXCEPT ![j] = "stuck"] /\ UNCHANGED <<aside, token>>
    <3>1. \A k \in Jobs : Held(k)' = Held(k)
      BY <1>0, <2>1, <2>3, HeldSame
    <3>2. QED
      BY <1>0, <2>1, <2>3, <3>1
  <2>4. QED
    BY <1>8, <2>2, <2>3 DEF RestoreMove
<1>9. ASSUME NEW c \in Threads, Login(c) PROVE Goal'
  <2>1. UNCHANGED <<job, backup, aside>>
    BY <1>9 DEF Login, LoginReturns, LoginSucceeds, LoginFails, jobVars, fileVars
  <2>2. \A k \in Jobs : Held(k)' = Held(k)
    BY <2>1 DEF Held, Copy
  <2>3. CASE LoginReturns(c)
    BY <1>0, <2>1, <2>2, <2>3 DEF LoginReturns, Errors
  <2>4. CASE LoginSucceeds(c) \/ LoginFails(c)
    BY <1>0, <2>1, <2>2, <2>4 DEF LoginSucceeds, LoginFails, ThreadEnds, fileVars
  <2>5. QED
    BY <1>9, <2>3, <2>4 DEF Login
<1>10. ASSUME UNCHANGED <<job, backup, aside, token, outcome>>, \A k \in Jobs : pc'[k] = pc[k]
       PROVE  Goal'
  <2>1. \A k \in Jobs : Held(k)' = Held(k)
    BY <1>10 DEF Held, Copy
  <2>2. QED
    BY <1>0, <1>10, <2>1
<1>11. ASSUME NEW c \in Callers, Caller(c) PROVE Goal'
  <2>1. c \notin Jobs
    BY <1>11, SessionAssumption
  <2>2. UNCHANGED <<job, backup, aside, token, outcome>> /\ \A k \in Jobs : pc'[k] = pc[k]
    BY <1>0, <1>11, <2>1 DEF Caller, Validate, BeginLogin, AnswerAtOnce, jobVars, threadVars, fileVars, vars
  <2>3. QED
    BY <1>10, <2>2
<1>12. CASE Tick \/ UNCHANGED vars
  BY <1>10, <1>12 DEF Tick, vars, jobVars, threadVars, fileVars
<1>13. QED
  BY <1>1, <1>2, <1>3, <1>4, <1>6, <1>7, <1>8, <1>9, <1>11, <1>12 DEF Next, JobThread

\* A token that exists somewhere goes on existing somewhere.
Kept == token # "none" \/ \E j \in Jobs : Held(j) # "none"

LEMMA TokenStep == TypeOK /\ KeptInv /\ [Next]_vars /\ NamesDiffer' /\ Kept => Kept'
<1> SUFFICES ASSUME TypeOK, KeptInv, [Next]_vars, NamesDiffer', Kept PROVE Kept'
  OBVIOUS
<1> USE DEF Kept
<1>0. job \in [Jobs -> JobStates] /\ FreshInv /\ NamesDiffer /\ MovingInv /\ DroppingInv
  BY NamesStep DEF TypeOK, KeptInv
<1>1. ASSUME NEW j \in Jobs, PutTokenAside(j) PROVE Kept'
  BY <1>0, <1>1, HeldPut
<1>2. ASSUME NEW j \in Jobs, DropBackup(j) PROVE Kept'
  <2>1. job[j] = "dropping" /\ job' = [job EXCEPT ![j] = "done"] /\ UNCHANGED <<backup, token>>
    BY <1>2 DEF DropBackup
  <2>2. \A k \in Jobs \ {j} : Held(k)' = Held(k)
    BY <1>0, <1>2, <2>1, HeldStep, HeldRemoved DEF DropBackup
  <2>3. QED
    BY <1>0, <2>1, <2>2 DEF DroppingInv
<1>3. ASSUME NEW j \in Jobs, RestoreUnlink(j) PROVE Kept'
  <2>1. /\ job[j] = "restoring" /\ UNCHANGED <<backup, aside>>
        /\ \E t \in {"done", "moving", "stuck"} :
             /\ job' = [job EXCEPT ![j] = t] /\ (t = "done" => Copy(j) = "none")
             /\ token' = token \/ Copy(j) # "none"
    BY <1>3 DEF RestoreUnlink
  <2>2. Held(j) = Copy(j)
    BY <2>1 DEF Held
  <2>3. \A k \in Jobs : Held(k)' = Held(k)
    <3>1. PICK t \in {"done", "moving", "stuck"} :
            job' = [job EXCEPT ![j] = t] /\ (t = "done" => Copy(j) = "none")
      BY <2>1
    <3>2. QED
      BY <2>1, <2>2, <3>1, HeldStep
  <2>4. QED
    BY <2>1, <2>2, <2>3
<1>4. ASSUME NEW j \in Jobs, RestoreMove(j) PROVE Kept'
  <2>1. job[j] = "moving" /\ UNCHANGED backup
    BY <1>4 DEF RestoreMove
  <2>2. CASE Copy(j) # "none" /\ token' = Copy(j)
    BY <2>2
  <2>3. CASE job' = [job EXCEPT ![j] = "stuck"] /\ UNCHANGED <<aside, token>>
    <3>1. \A k \in Jobs : Held(k)' = Held(k)
      BY <1>0, <2>1, <2>3, HeldSame
    <3>2. QED
      BY <2>3, <3>1
  <2>4. QED
    BY <1>4, <2>2, <2>3 DEF RestoreMove
<1>5. ASSUME NEW j \in Jobs, ForceLogin(j) \/ JobTimesOut(j) \/ JobEnds(j) PROVE Kept'
  <2>1. /\ job[j] # "done" /\ UNCHANGED <<backup, aside, token>>
        /\ \E t \in JobStates \ {"done"} : job' = [job EXCEPT ![j] = t]
    BY <1>5 DEF ForceLogin, JobTimesOut, JobEnds, JobStates, fileVars
  <2>2. \A k \in Jobs : Held(k)' = Held(k)
    BY <1>0, <2>1, HeldSame
  <2>3. QED
    BY <2>1, <2>2
<1>6. ASSUME UNCHANGED <<job, backup, aside>>, token # "none" => token' # "none" PROVE Kept'
  BY <1>6 DEF Held, Copy
<1>7. ASSUME NEW c, Login(c) PROVE Kept'
  BY <1>6, <1>7 DEF Login, LoginReturns, LoginSucceeds, LoginFails, jobVars, fileVars
<1>8. ASSUME NEW c, Caller(c) PROVE Kept'
  BY <1>6, <1>8 DEF Caller, Validate, BeginLogin, AnswerAtOnce, jobVars, fileVars, vars
<1>9. CASE Tick \/ UNCHANGED vars
  BY <1>6, <1>9 DEF Tick, vars, jobVars, fileVars
<1>10. CASE StartReauth
  <2>1. /\ started + 1 \in Jobs /\ job[started + 1] = "none" /\ UNCHANGED <<backup, aside, token>>
        /\ job' = [job EXCEPT ![started + 1] = "created"]
    BY <1>0, <1>10, SessionAssumption DEF StartReauth, Jobs, TypeOK, FreshInv, fileVars
  <2>2. \A k \in Jobs : Held(k)' = Held(k)
    BY <1>0, <2>1, HeldSame
  <2>3. QED
    BY <2>1, <2>2
<1>11. QED
  BY <1>1, <1>2, <1>3, <1>4, <1>5, <1>7, <1>8, <1>9, <1>10 DEF Next, JobThread

\* However jobs and late logins interleave, the stored token is never lost, as
\* long as no two jobs name their backups in the same second.
THEOREM TokenProved == Spec => TokenKept
<1>1. Init => KeptInv
  BY DEF Init, KeptInv, FreshInv, MovingInv, JoinedInv, DroppingInv, Jobs
<1>2. Init => AwaitInv
  BY DEF Init, AwaitInv, Awaiting
<1>3. KeptInv /\ TypeOK /\ [Next]_vars => [NamesDiffer' /\ (token # "none" \/ \E j \in Jobs : Held(j) # "none")
       => (token' # "none" \/ \E j \in Jobs : Held(j)' # "none")]_vars
  BY TokenStep DEF Kept
<1>4. QED
  BY <1>1, <1>2, <1>3, SessionTypes, AwaitStep, KeptStep, PTL DEF Spec, TokenKept
=============================================================================
