------------------------------ MODULE LoginAge ------------------------------
(***************************************************************************)
(* The age of the Robinhood login.  A file beside the stored token keeps   *)
(* the time of the last successful login and the status that was alerted   *)
(* last.  Four threads of control read and rewrite it without a lock: a    *)
(* login thread of the bot, the login command (a process of its own), the  *)
(* worker, which alerts on the age, and API requests, which compute it.    *)
(* The worker and the requests share the event loop.                       *)
(*                                                                         *)
(* A rewrite reads the file, opens it (it is empty from then on) and       *)
(* closes it; between these steps the other threads may run.  What it      *)
(* writes goes to the front of the file: over what another one wrote since *)
(* the file was emptied, of which the rest remains if it was longer.       *)
(***************************************************************************)
EXTENDS Integers

CONSTANTS
  MaxAge,     \* days after which a login is to be renewed
  WarnDays,   \* days before that from which the owner is warned
  MaxDay,     \* bound on the clock, in days
  MaxLogins,  \* bound on the successful logins
  MaxFaults   \* bound on the exceptions, crashes of the bot and kills of the command

ASSUME LoginAgeAssumption ==
  /\ MaxAge \in Nat \ {0} /\ WarnDays \in 1..MaxAge
  /\ MaxDay \in Nat /\ MaxLogins \in Nat /\ MaxFaults \in Nat

Logins == {"bot", "cli"}
Loop   == {"worker", "api"}
Actors == Logins \cup Loop

Days   == 0..MaxDay
Never  == -1
Times  == Days \cup {Never}
Marks  == {"none", "warn", "critical"}

\* A missing, empty or broken file reads like one without entries.
Blank == [at |-> Never, mark |-> "none"]

VARIABLES
  now, up,        \* the day; whether the bot runs
  pickle,         \* when the stored token was written
  meta,           \* the file robinhood_auth_meta.json
  filled,         \* whether something was written to it since it was last emptied
  pc, copy,       \* where each actor is, and what it is about to write
  status,         \* the worker's local: the status it alerts on
  seen,           \* the worker's local: the login it computed that from
  logins, faults,
  lastLogin,      \* history: the last successful login
  recorded,       \* history: the last one whose recording was completed
  told,           \* history: statuses alerted on since then, their marks written
  calm,           \* history: no rewrite broken off and no overlapping access since then
  warned          \* history: a pass about it was completed in its warning period

fileVars  == <<pickle, meta, filled>>
localVars == <<pc, copy, status, seen>>
pastVars  == <<lastLogin, recorded, told, calm, warned>>
countVars == <<logins, faults>>
vars == <<now, up, fileVars, localVars, pastVars, countVars>>

Init ==
  /\ now = 0 /\ up = TRUE
  /\ pickle \in {0, Never}
  /\ meta = [Blank EXCEPT !.at = pickle] /\ filled = TRUE
  /\ pc = [a \in Actors |-> "idle"] /\ copy = [a \in Actors |-> Blank]
  /\ status = "none" /\ seen = Never
  /\ logins = 0 /\ faults = 0
  /\ lastLogin = pickle /\ recorded = pickle /\ told = {}
  /\ calm = TRUE /\ warned = FALSE

-----------------------------------------------------------------------------
(***************************************************************************)
(* compute_auth_age and should_alert_auth_status.                          *)
(***************************************************************************)
StatusOf(at) ==
  IF at = Never THEN "missing"
  ELSE LET remaining == MaxAge - (now - at)
       IN  IF remaining <= 0 THEN "critical" ELSE IF remaining <= WarnDays THEN "warn" ELSE "ok"

\* Mutant: what was alerted before is not looked at.
ShouldAlertAlways(s) == s \in {"warn", "critical"}

\* Mutant: one alert of either kind is enough.
ShouldAlertOnce(s) == s \in {"warn", "critical"} /\ meta.mark = "none"

ShouldAlert(s) == s \in {"warn", "critical"} /\ meta.mark # s

-----------------------------------------------------------------------------
(***************************************************************************)
(* Reading and rewriting the file.                                         *)
(***************************************************************************)
Writing(a) == pc[a] \in {"asking", "writing", "open"}
Alone(a)   == \A b \in Actors \ {a} : ~Writing(b)

\* One event loop: a request runs while the worker awaits, and to its end.
MayStep(a) ==
  /\ a # "cli" => up
  /\ a = "worker" => pc["api"] = "idle"
  /\ a = "api" => pc["worker"] \in {"idle", "posting"}

\* A pass of the worker, or a request, has the time of the last login.
Known(a, at) ==
  /\ pc' = [pc EXCEPT ![a] = IF a = "worker" THEN "deciding" ELSE "idle"]
  /\ seen' = IF a = "worker" THEN at ELSE seen

\* A pass that found status s is complete.
PassEnds(s) ==
  /\ pc' = [pc EXCEPT !["worker"] = "idle"] /\ status' = "none" /\ seen' = Never
  /\ warned' = (warned \/ (seen = recorded /\ s = "warn"))

\* resolve_last_authenticated_at: the first look at the file.
Resolve(a) ==
  /\ a \in Loop /\ MayStep(a) /\ pc[a] = "idle"
  /\ \/ meta.at # Never /\ Known(a, meta.at)
     \/ meta.at = Never /\ pc' = [pc EXCEPT ![a] = "seeding"] /\ UNCHANGED seen
  /\ calm' = (calm /\ Alone(a))
  /\ UNCHANGED <<now, up, fileVars, copy, status, lastLogin, recorded, told, warned, countVars>>

\* seed_auth_meta_from_pickle_mtime, which the login command begins with as well.
CommandBegins ==
  /\ pc["cli"] = "idle" /\ pc' = [pc EXCEPT !["cli"] = "seeding"]
  /\ UNCHANGED <<now, up, fileVars, copy, status, seen, pastVars, countVars>>

\* Mutant: the seed is the time of seeding.
SeedNow(a) ==
  /\ pc[a] = "seeding" /\ MayStep(a)
  /\ pc' = [pc EXCEPT ![a] = "asking"] /\ copy' = [copy EXCEPT ![a] = [Blank EXCEPT !.at = now]]
  /\ calm' = (calm /\ Alone(a)) /\ UNCHANGED seen
  /\ UNCHANGED <<now, up, fileVars, status, lastLogin, recorded, told, warned, countVars>>

Seed(a) ==
  /\ pc[a] = "seeding" /\ MayStep(a)
  /\ \/ meta.at # Never /\ Known(a, meta.at) /\ UNCHANGED copy
     \/ meta.at = Never /\ pickle = Never /\ Known(a, Never) /\ UNCHANGED copy
     \/ /\ meta.at = Never /\ pickle # Never
        /\ pc' = [pc EXCEPT ![a] = "asking"]
        /\ copy' = [copy EXCEPT ![a] = [Blank EXCEPT !.at = pickle]]
        /\ UNCHANGED seen
  /\ calm' = (calm /\ Alone(a))
  /\ UNCHANGED <<now, up, fileVars, status, lastLogin, recorded, told, warned, countVars>>

Updated(old, new) ==
  [at   |-> IF new.at = Never THEN old.at ELSE new.at,
   mark |-> IF new.mark = "none" THEN old.mark ELSE new.mark]

\* write_auth_meta: read the file and update what was read, ...
\* Mutant: the file is written afresh.
ReadMetaNot(a) ==
  /\ pc[a] = "asking" /\ MayStep(a)
  /\ pc' = [pc EXCEPT ![a] = "writing"] /\ calm' = (calm /\ Alone(a)) /\ UNCHANGED copy
  /\ UNCHANGED <<now, up, fileVars, status, seen, lastLogin, recorded, told, warned, countVars>>

ReadMeta(a) ==
  /\ pc[a] = "asking" /\ MayStep(a)
  /\ pc' = [pc EXCEPT ![a] = "writing"]
  /\ copy' = [copy EXCEPT ![a] = Updated(meta, copy[a])]
  /\ calm' = (calm /\ Alone(a))
  /\ UNCHANGED <<now, up, fileVars, status, seen, lastLogin, recorded, told, warned, countVars>>

\* ... open it, which empties it, ...
OpenMeta(a) ==
  /\ pc[a] = "writing" /\ MayStep(a)
  /\ pc' = [pc EXCEPT ![a] = "open"] /\ meta' = Blank /\ filled' = FALSE
  /\ UNCHANGED <<now, up, pickle, copy, status, seen, pastVars, countVars>>

\* Written over a longer text, this one makes no file that can be parsed.
Written(a) ==
  /\ meta' = copy[a] \/ (filled /\ meta' = Blank)
  /\ filled' = TRUE /\ copy' = [copy EXCEPT ![a] = Blank]

\* ... write and close it.  The first write of a pass of the worker is its
\* seed, the second its mark.
CloseMeta(a) ==
  /\ pc[a] = "open" /\ MayStep(a) /\ Written(a)
  /\ \/ /\ status # "none" /\ a = "worker" /\ PassEnds(status)
        /\ told' = IF seen = recorded THEN told \cup {status} ELSE told
        /\ UNCHANGED <<recorded, calm>>
     \/ /\ status = "none" \/ a # "worker"
        /\ Known(a, copy[a].at) /\ UNCHANGED status
        /\ IF a \in Logins /\ copy[a].at = now
             THEN /\ recorded' = now /\ told' = {} /\ warned' = FALSE
                  /\ calm' = (Alone(a) /\ ~filled)
             ELSE UNCHANGED <<recorded, told, calm, warned>>
  /\ UNCHANGED <<now, up, pickle, lastLogin, countVars>>

-----------------------------------------------------------------------------
(***************************************************************************)
(* The worker's alert: _maybe_alert_robinhood_auth_age.                    *)
(***************************************************************************)
Decide ==
  /\ pc["worker"] = "deciding" /\ MayStep("worker")
  /\ \/ /\ ShouldAlert(StatusOf(seen))
        /\ pc' = [pc EXCEPT !["worker"] = "posting"] /\ status' = StatusOf(seen)
        /\ UNCHANGED <<seen, warned>>
     \/ ~ShouldAlert(StatusOf(seen)) /\ PassEnds(StatusOf(seen))
  /\ calm' = (calm /\ Alone("worker"))
  /\ UNCHANGED <<now, up, fileVars, copy, lastLogin, recorded, told, countVars>>

\* The webhook has answered, or not; the worker does not ask which.
Posted ==
  /\ pc["worker"] = "posting" /\ MayStep("worker")
  /\ pc' = [pc EXCEPT !["worker"] = "asking"]
  /\ copy' = [copy EXCEPT !["worker"] = [Blank EXCEPT !.mark = status]]
  /\ UNCHANGED <<now, up, fileVars, status, seen, pastVars, countVars>>

-----------------------------------------------------------------------------
(***************************************************************************)
(* Logins, and what they do to the stored token.                           *)
(***************************************************************************)
\* rh.login succeeds, with the stored token or with a new one that it stores,
\* and record_successful_auth takes the time.
LoginSucceeds(a) ==
  /\ a \in Logins /\ MayStep(a) /\ pc[a] = "idle" /\ logins < MaxLogins
  /\ \/ pickle # Never /\ UNCHANGED pickle
     \/ pickle' = now
  /\ pc' = [pc EXCEPT ![a] = "asking"]
  /\ copy' = [copy EXCEPT ![a] = [Blank EXCEPT !.at = now]]
  /\ lastLogin' = now /\ logins' = logins + 1
  /\ UNCHANGED <<now, up, meta, filled, status, seen, recorded, told, calm, warned, faults>>

-----------------------------------------------------------------------------
(***************************************************************************)
(* Exceptions, crashes, restarts and time.                                 *)
(***************************************************************************)
\* Some actors leave what they were at; a file they had opened stays as it is.
Dropped(A) ==
  /\ pc' = [a \in Actors |-> IF a \in A THEN "idle" ELSE pc[a]]
  /\ copy' = [a \in Actors |-> IF a \in A THEN Blank ELSE copy[a]]
  /\ status' = IF "worker" \in A THEN "none" ELSE status
  /\ seen' = IF "worker" \in A THEN Never ELSE seen
  /\ calm' = (calm /\ \A a \in A : ~Writing(a))

\* An exception, of the webhook or of any access to the file, ends the pass of
\* the worker, the login, the request or the command; or the command is killed.
Fails(a) ==
  /\ pc[a] # "idle" /\ MayStep(a) /\ faults < MaxFaults /\ faults' = faults + 1
  /\ Dropped({a})
  /\ UNCHANGED <<now, up, fileVars, lastLogin, recorded, told, warned, logins>>

Crash ==
  /\ up /\ faults < MaxFaults
  /\ up' = FALSE /\ faults' = faults + 1
  /\ Dropped(Actors \ {"cli"})
  /\ UNCHANGED <<now, fileVars, lastLogin, recorded, told, warned, logins>>

\* The session manager seeds the file before the event loop serves anything.
Restart ==
  /\ ~up /\ up' = TRUE
  /\ pc' = [pc EXCEPT !["api"] = "seeding"]
  /\ UNCHANGED <<now, fileVars, copy, status, seen, pastVars, countVars>>

\* A rewrite takes milliseconds: nothing is half written when a day ends.  A
\* day may end without a pass: the loop is held by a login, dead or down.
Tick ==
  /\ now < MaxDay /\ now' = now + 1
  /\ \A a \in Actors : pc[a] \in {"idle", "posting"}
  /\ UNCHANGED <<up, fileVars, localVars, pastVars, countVars>>

-----------------------------------------------------------------------------
Access(a) == Resolve(a) \/ Seed(a) \/ ReadMeta(a) \/ OpenMeta(a) \/ CloseMeta(a)

Next ==
  \/ \E a \in Actors : Access(a) \/ LoginSucceeds(a) \/ Fails(a)
  \/ CommandBegins \/ Decide \/ Posted
  \/ Crash \/ Restart \/ Tick

Spec == Init /\ [][Next]_vars

-----------------------------------------------------------------------------
(***************************************************************************)
(* Properties.                                                             *)
(***************************************************************************)
Entries == [at : Times, mark : Marks]

\* Every variable has its type.
TypeOK ==
  /\ now \in Days /\ up \in BOOLEAN
  /\ pickle \in Times /\ meta \in Entries /\ filled \in BOOLEAN
  /\ pc \in [Actors -> {"idle", "deciding", "posting", "seeding", "asking", "writing", "open"}]
  /\ copy \in [Actors -> Entries] /\ status \in Marks /\ seen \in Times
  /\ logins \in 0..MaxLogins /\ faults \in 0..MaxFaults
  /\ lastLogin \in Times /\ recorded \in Times /\ told \in SUBSET Marks
  /\ calm \in BOOLEAN /\ warned \in BOOLEAN

\* Whatever the file says or is about to say, through overlapping rewrites,
\* seeds, exceptions and crashes: it never makes the login younger than
\* the last one that succeeded, so an age that has run out is not shown as ok.
NeverYounger ==
  \A at \in {meta.at, seen, pickle} \cup {copy[a].at : a \in Actors} : at <= lastLogin

\* The file holds the last recorded login: only a rewrite that was broken off,
\* by an exception or a crash, or an access that overlapped another one can
\* make it lose it, and the next login mends that.
LostOnlyByOverlap ==
  calm /\ (\A a \in Actors : ~Writing(a)) => meta.at = recorded

\* After a login, an alert that was sent and marked is not sent again, whatever
\* passes failed, logins of before were about to be told of, and days went by.
AlertedOnce ==
  [][calm' /\ pc["worker"] = "deciding" /\ pc'["worker"] = "posting" /\ seen = recorded
       => status' \notin told]_vars

\* Although the mark of an alert outlives the login it was about, passes may
\* fail and days go by without one: of a login that a complete pass found in
\* its warning period, and that has run out, no pass keeps silent that was not
\* alerted on as critical.
CriticalAnnounced ==
  [][calm' /\ pc["worker"] = "deciding" /\ pc'["worker"] = "idle" /\ faults' = faults
       => (warned /\ StatusOf(recorded) = "critical" => "critical" \in told)]_vars
=============================================================================
