-------------------------- MODULE RobinhoodSession --------------------------
(***************************************************************************)
(* The one Robinhood session every broker of the process shares: threads   *)
(* that need a session log in when there is none, failures start a         *)
(* cooldown, and the operator may start a re-authentication job, which     *)
(* puts the stored token aside, forces a login in a thread of its own and  *)
(* waits for it with a timeout.  A job that gave up leaves its login       *)
(* thread behind.                                                          *)
(*                                                                         *)
(* What happens under the session's lock is one step; the login itself is  *)
(* made without the lock and may take any time.                            *)
(***************************************************************************)
EXTENDS Integers, FiniteSets

CONSTANTS
  Callers,      \* threads that ask for a session (workers, API requests)
  MaxJobs,      \* bound on the re-authentication jobs
  MaxTime,      \* bound on the clock
  MaxFailures,  \* bound on the failures counted
  ValidFor,     \* robinhood_session_validate_seconds, in clock units
  Retry,        \* robinhood_login_retry_seconds, in clock units
  RateRetry     \* robinhood_login_429_backoff_seconds, in clock units

Jobs    == 1..MaxJobs
Threads == Callers \cup Jobs   \* the login thread of job j is thread j
Errors  == {"robinhood_rate_limited", "robinhood_login_failed"}
Tokens  == {"none", "old", "new"}
Never   == -1

ASSUME SessionAssumption ==
  /\ MaxJobs \in Nat /\ MaxTime \in Nat /\ MaxFailures \in Nat
  /\ ValidFor \in Nat /\ Retry \in Nat /\ RateRetry \in Nat
  /\ Callers \cap Jobs = {}

VARIABLES
  now,
  loggedIn, lastError, blockedUntil, validatedAt, failures,  \* _SessionState
  status, jobError,                                          \* _ReauthState
  pc,        \* where each thread is: idle, login, returned, over
  outcome,   \* what its login returned: "ok" or an error
  started,   \* the jobs created so far
  job,       \* where each job's own thread is
  backup,    \* the name of the file to which each job moved the token, a second
  aside,     \* the files of these names
  token      \* robinhood.pickle

stateVars  == <<loggedIn, lastError, blockedUntil, validatedAt, failures>>
reauthVars == <<status, jobError>>
threadVars == <<pc, outcome>>
fileVars   == <<backup, aside, token>>
jobVars    == <<started, job>>
vars == <<now, stateVars, reauthVars, threadVars, jobVars, fileVars>>

Init ==
  /\ now = 0
  /\ loggedIn = FALSE /\ lastError = "none" /\ blockedUntil = 0
  /\ validatedAt = Never /\ failures = 0
  /\ status = "idle" /\ jobError = "none"
  /\ pc = [c \in Threads |-> "idle"] /\ outcome = [c \in Threads |-> "ok"]
  /\ started = 0 /\ job = [j \in Jobs |-> "none"]
  /\ backup = [j \in Jobs |-> Never] /\ aside = [n \in 0..MaxTime |-> "none"]
  /\ token \in {"none", "old"}

-----------------------------------------------------------------------------
\* min(base * max(1, failures), base * 4), and the longer one after a 429.
Backoff(error, n) ==
  IF error = "robinhood_rate_limited" THEN RateRetry
  ELSE LET k == IF n < 1 THEN 1 ELSE IF n > 4 THEN 4 ELSE n IN Retry * k

\* Counted up to the bound; beyond 4 they make no difference.
MoreFailures == IF failures < MaxFailures THEN failures + 1 ELSE failures

Blocked == blockedUntil > now
RecentlyValidated == validatedAt # Never /\ now - validatedAt <= ValidFor

(***************************************************************************)
(* ensure_session, without force.                                          *)
(***************************************************************************)

\* In cooldown, or the session was validated a moment ago: an answer at once.
AnswerAtOnce(c) ==
  /\ pc[c] = "idle" /\ c \in Callers
  /\ Blocked \/ (loggedIn /\ RecentlyValidated)
  /\ UNCHANGED vars

\* The session is older: its profile is loaded, with the lock held.
Validate(c) ==
  /\ pc[c] = "idle" /\ c \in Callers /\ ~Blocked
  /\ loggedIn /\ ~RecentlyValidated
  /\ validatedAt' = now
  /\ UNCHANGED <<now, loggedIn, lastError, blockedUntil, failures, reauthVars, threadVars,
                 jobVars, fileVars>>

\* No session, or its validation failed: log in, without the lock.
BeginLogin(c) ==
  /\ pc[c] = "idle" /\ c \in Callers /\ ~Blocked
  /\ ~(loggedIn /\ RecentlyValidated)
  /\ pc' = [pc EXCEPT ![c] = "login"]
  /\ UNCHANGED <<now, stateVars, reauthVars, outcome, jobVars, fileVars>>

\* rh.login: it uses the stored token or stores one, or it fails.
LoginReturns(c) ==
  /\ pc[c] = "login"
  /\ pc' = [pc EXCEPT ![c] = "returned"]
  /\ \/ /\ outcome' = [outcome EXCEPT ![c] = "ok"]
        /\ token' \in {"new"} \cup ({token} \ {"none"})
     \/ /\ \E e \in Errors : outcome' = [outcome EXCEPT ![c] = e]
        /\ UNCHANGED token
  /\ UNCHANGED <<now, stateVars, reauthVars, jobVars, backup, aside>>

\* A caller may ask again; a job's login thread ends.
ThreadEnds(c) == pc' = [pc EXCEPT ![c] = IF c \in Jobs THEN "over" ELSE "idle"]

LoginSucceeds(c) ==
  /\ pc[c] = "returned" /\ outcome[c] = "ok"
  /\ loggedIn' = TRUE /\ lastError' = "none" /\ blockedUntil' = 0
  /\ validatedAt' = now /\ failures' = 0
  /\ ThreadEnds(c)
  /\ UNCHANGED <<now, reauthVars, outcome, jobVars, fileVars>>

\* Mutant: the session is left as it was.
LoginFailsQuietly(c) ==
  /\ pc[c] = "returned" /\ outcome[c] # "ok"
  /\ lastError' = outcome[c]
  /\ failures' = MoreFailures
  /\ blockedUntil' = now + Backoff(outcome[c], MoreFailures)
  /\ ThreadEnds(c)
  /\ UNCHANGED <<now, loggedIn, validatedAt, reauthVars, outcome, jobVars, fileVars>>

LoginFails(c) ==
  /\ pc[c] = "returned" /\ outcome[c] # "ok"
  /\ loggedIn' = FALSE /\ validatedAt' = Never
  /\ lastError' = outcome[c]
  /\ failures' = MoreFailures
  /\ blockedUntil' = now + Backoff(outcome[c], MoreFailures)
  /\ ThreadEnds(c)
  /\ UNCHANGED <<now, reauthVars, outcome, jobVars, fileVars>>

-----------------------------------------------------------------------------
(***************************************************************************)
(* start_reauth and _run_reauth_job.                                       *)
(***************************************************************************)

\* Mutant: a job under way is not looked for.
StartReauthAlways ==
  /\ started < MaxJobs
  /\ started' = started + 1
  /\ job' = [job EXCEPT ![started + 1] = "created"]
  /\ status' = "awaiting_approval" /\ jobError' = "none"
  /\ UNCHANGED <<now, stateVars, threadVars, fileVars>>

StartReauth ==
  /\ status # "awaiting_approval" /\ started < MaxJobs
  /\ started' = started + 1
  /\ job' = [job EXCEPT ![started + 1] = "created"]
  /\ status' = "awaiting_approval" /\ jobError' = "none"
  /\ UNCHANGED <<now, stateVars, threadVars, fileVars>>

\* The token file, if there is one, is moved aside (unless the move fails) to a
\* name that a job of the same second has too, and the login thread invalidates
\* the session and forces a login.
PutTokenAside(j) ==
  /\ job[j] = "created"
  /\ job' = [job EXCEPT ![j] = "putaside"]
  /\ \/ /\ token # "none" /\ token' = "none"
        /\ backup' = [backup EXCEPT ![j] = now]
        /\ aside' = [aside EXCEPT ![now] = token]
     \/ UNCHANGED fileVars
  /\ UNCHANGED <<now, stateVars, reauthVars, threadVars, started>>

ForceLogin(j) ==
  /\ job[j] = "putaside"
  /\ job' = [job EXCEPT ![j] = "joining"]
  /\ loggedIn' = FALSE /\ validatedAt' = Never /\ lastError' = "reauth_in_progress"
  /\ pc' = [pc EXCEPT ![j] = "login"]
  /\ UNCHANGED <<now, blockedUntil, failures, reauthVars, outcome, started, fileVars>>

\* Mutant: a job that timed out is finished with.
JobTimesOutForGood(j) ==
  /\ job[j] = "joining" /\ pc[j] # "over"
  /\ job' = [job EXCEPT ![j] = "done"]
  /\ status' = "failed" /\ jobError' = "approval_timeout"
  /\ UNCHANGED <<now, stateVars, threadVars, started, fileVars>>

\* thread.join times out with the login still running.
JobTimesOut(j) ==
  /\ job[j] = "joining" /\ pc[j] # "over"
  /\ job' = [job EXCEPT ![j] = "restoring"]
  /\ status' = "failed" /\ jobError' = "approval_timeout"
  /\ UNCHANGED <<now, stateVars, threadVars, started, fileVars>>

\* Mutant: the end of a failed job is not reported.
JobEndsSilently(j) ==
  /\ job[j] = "joining" /\ pc[j] = "over"
  /\ IF outcome[j] = "ok"
     THEN /\ job' = [job EXCEPT ![j] = "dropping"]
          /\ status' = "succeeded" /\ jobError' = "none"
     ELSE /\ job' = [job EXCEPT ![j] = "restoring"]
          /\ UNCHANGED reauthVars
  /\ UNCHANGED <<now, stateVars, threadVars, started, fileVars>>

JobEnds(j) ==
  /\ job[j] = "joining" /\ pc[j] = "over"
  /\ IF outcome[j] = "ok"
     THEN /\ job' = [job EXCEPT ![j] = "dropping"]
          /\ status' = "succeeded" /\ jobError' = "none"
     ELSE /\ job' = [job EXCEPT ![j] = "restoring"]
          /\ status' = "failed" /\ jobError' = outcome[j]
  /\ UNCHANGED <<now, stateVars, threadVars, started, fileVars>>

\* The backup of a job, if it is (still) there.
Copy(j) == IF backup[j] = Never THEN "none" ELSE aside[backup[j]]
Remove(j) == aside' = [aside EXCEPT ![backup[j]] = "none"]

\* The backup of a job that succeeded is deleted; if that fails, it stays.
DropBackup(j) ==
  /\ job[j] = "dropping"
  /\ job' = [job EXCEPT ![j] = "done"]
  /\ UNCHANGED aside \/ (Copy(j) # "none" /\ Remove(j))
  /\ UNCHANGED <<now, stateVars, reauthVars, threadVars, started, backup, token>>

\* The backup of a job that failed goes back: unlink, then move.  If either
\* fails, the job ends with the backup where it is.
RestoreUnlink(j) ==
  /\ job[j] = "restoring"
  /\ IF Copy(j) = "none"
     THEN job' = [job EXCEPT ![j] = "done"] /\ UNCHANGED token
     ELSE \/ job' = [job EXCEPT ![j] = "moving"] /\ token' = "none"
          \/ job' = [job EXCEPT ![j] = "stuck"] /\ UNCHANGED token
  /\ UNCHANGED <<now, stateVars, reauthVars, threadVars, started, backup, aside>>

RestoreMove(j) ==
  /\ job[j] = "moving"
  /\ \/ /\ Copy(j) # "none" /\ token' = Copy(j) /\ Remove(j)
        /\ job' = [job EXCEPT ![j] = "done"]
     \/ job' = [job EXCEPT ![j] = "stuck"] /\ UNCHANGED <<aside, token>>
  /\ UNCHANGED <<now, stateVars, reauthVars, threadVars, started, backup>>

Tick ==
  /\ now < MaxTime /\ now' = now + 1
  /\ UNCHANGED <<stateVars, reauthVars, threadVars, jobVars, fileVars>>

-----------------------------------------------------------------------------
Caller(c) == Validate(c) \/ BeginLogin(c) \/ AnswerAtOnce(c)
Login(c)  == LoginReturns(c) \/ LoginSucceeds(c) \/ LoginFails(c)
JobThread(j) ==
  \/ PutTokenAside(j) \/ ForceLogin(j) \/ JobTimesOut(j) \/ JobEnds(j)
  \/ DropBackup(j) \/ RestoreUnlink(j) \/ RestoreMove(j)

Next ==
  \/ \E c \in Callers : Caller(c)
  \/ \E c \in Threads : Login(c)
  \/ StartReauth
  \/ \E j \in Jobs : JobThread(j)
  \/ Tick

Spec == Init /\ [][Next]_vars

\* The job's thread runs on, and its join has a timeout; the login itself
\* (somebody must approve it on a phone) owes nothing.
FairSpec == Spec /\ \A j \in Jobs : WF_vars(JobThread(j))

-----------------------------------------------------------------------------
(***************************************************************************)
(* Properties.                                                             *)
(***************************************************************************)
JobStates == {"none", "created", "putaside", "joining", "restoring", "moving",
              "dropping", "stuck", "done"}
Awaiting  == {"created", "putaside", "joining"}

\* Every variable has its type.
TypeOK ==
  /\ now \in 0..MaxTime
  /\ loggedIn \in BOOLEAN /\ lastError \in Errors \cup {"none", "reauth_in_progress"}
  /\ blockedUntil \in Nat /\ validatedAt \in 0..MaxTime \cup {Never}
  /\ failures \in 0..MaxFailures
  /\ status \in {"idle", "awaiting_approval", "succeeded", "failed"}
  /\ jobError \in Errors \cup {"none", "approval_timeout"}
  /\ pc \in [Threads -> {"idle", "login", "returned", "over"}]
  /\ outcome \in [Threads -> Errors \cup {"ok"}]
  /\ started \in 0..MaxJobs
  /\ job \in [Jobs -> JobStates] /\ backup \in [Jobs -> 0..MaxTime \cup {Never}]
  /\ aside \in [0..MaxTime -> Tokens] /\ token \in Tokens

\* Re-authentication is single-flight although a job announces its end before
\* it has tidied up: the status says "awaiting_approval" exactly while one job
\* is waiting, and no two jobs ever wait together.
OneJobAwaits ==
  /\ Cardinality({j \in Jobs : job[j] \in Awaiting}) <= 1
  /\ status = "awaiting_approval" <=> \E j \in Jobs : job[j] \in Awaiting

\* While the process lives, no interleaving of jobs that fail, time out or
\* succeed with logins that come late loses the stored token, as long as no two
\* jobs name their backups in the same second: there is a token, or the backup
\* of a job that will put it back, or that has tried to and could not.
NamesDiffer ==
  \A j, k \in Jobs : backup[j] # Never /\ backup[j] = backup[k] => j = k

Held(j) == IF job[j] = "done" THEN "none" ELSE Copy(j)

TokenKept ==
  [][NamesDiffer' /\ (token # "none" \/ \E j \in Jobs : Held(j) # "none")
       => (token' # "none" \/ \E j \in Jobs : Held(j)' # "none")]_vars

\* A session is never handed out during a cooldown, however logins that began
\* together end: being logged in means that no failure came after the success.
LoggedInMeansClean == loggedIn => blockedUntil = 0 /\ failures = 0 /\ lastError = "none"

\* A re-authentication comes to an end, even if nobody ever approves it.
ReauthSettles == status = "awaiting_approval" ~> status # "awaiting_approval"
=============================================================================
