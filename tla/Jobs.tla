-------------------------------- MODULE Jobs --------------------------------
(***************************************************************************)
(* The scheduler: jobs.js, with what jobRegistry.js registers.             *)
(*                                                                         *)
(* A timer starts a pass over the jobs every 15 s.  A pass decides by the  *)
(* time and the records it read when it began, and waits for each job it   *)
(* runs; nothing keeps the next pass from starting meanwhile, only a job   *)
(* that runs is passed over.  The records of all jobs are one row, read,   *)
(* changed and written as a whole: by the server in one step, by `catwaf   *)
(* jobs run` in two.                                                       *)
(*                                                                         *)
(* Of a record the model keeps whether the interval has passed since.      *)
(*                                                                         *)
(* Of the jobs some end, others may hang for ever.                         *)
(***************************************************************************)
EXTENDS Naturals, Sequences, SequencesExt, FiniteSets

CONSTANTS
    JobList,        \* the registry, in the order of registration
    RunOnStart,     \* those with runOnStart
    Ending,         \* those whose every run ends
    ReloadAfter,    \* those with reloadAfter
    MaxPasses,      \* bound: passes under way at once
    NoJob,
    ByHand,         \* bound: the jobs that are run by hand
    Switched,       \* bound: the jobs that are switched off and on
    MaxRestarts     \* bound: restarts of the server

Jobs == ToSet(JobList)

JobsAssumption ==
    /\ RunOnStart \subseteq Jobs /\ Ending \subseteq Jobs /\ ReloadAfter \subseteq Jobs
    /\ ByHand \subseteq Jobs /\ Switched \subseteq Jobs
    /\ NoJob \notin Jobs /\ MaxRestarts \in Nat
    /\ IsInjective(JobList)
    /\ MaxPasses \in Nat /\ MaxPasses > Cardinality(Jobs \ Ending)

VARIABLES
    runs,       \* the row job_runs: job -> what its record says
    running,    \* the jobs that run in the server
    pass,       \* pass -> the job it waits for, what was due, what is left
    off,        \* the jobs switched off
        \* the server in saveRun(): the job, and the records it has read
    manual,     \* the run by the CLI: the same, once it has read them
    reload,     \* reloadTimer: a reload has been requested
    restarts

Passes == 1..MaxPasses
jobVars == <<runs, running, pass, off, manual, reload, restarts>>

Records == {"never", "recent", "past"}
NoPass == [waits |-> NoJob, due |-> {}, todo |-> <<>>]
NoRun == [job |-> NoJob, read |-> NoJob]
Run == [job : Jobs \cup {NoJob}, read : [Jobs -> Records] \cup {NoJob}]

JobsTypeOK ==
    /\ runs \in [Jobs -> Records] /\ running \subseteq Jobs /\ off \subseteq Jobs
    /\ pass \in [Passes -> [waits : Jobs \cup {NoJob}, due : SUBSET Jobs,
                            todo : {SubSeq(JobList, i, Len(JobList)) : i \in 1..Len(JobList) + 1}]]
    /\ manual \in Run
    /\ reload \in BOOLEAN /\ restarts \in 0..MaxRestarts

-----------------------------------------------------------------------------
\* dueAt(): what never ran is due at once with runOnStart, and never without.
Due == {j \in Jobs : runs[j] = "past" \/ (runs[j] = "never" /\ j \in RunOnStart)}

\* A pass goes on, up to the next job it runs: what runs already or is switched off
\* is passed over.
Proceed(i, due, todo, busy) ==
    LET k == SelectInSeq(todo, LAMBDA j : j \in due \ (busy \cup off))
    IN  IF k = 0 THEN pass' = [pass EXCEPT ![i] = NoPass] /\ running' = busy
        ELSE /\ pass' = [pass EXCEPT ![i] = [waits |-> todo[k], due |-> due,
                           todo |-> SubSeq(todo, k + 1, Len(todo))]]
             /\ running' = busy \cup {todo[k]}

\* Wrong variant: one pass at a time.
AloneBegins(i) ==
    /\ \A k \in Passes : pass[k] = NoPass
    /\ Proceed(i, Due, JobList, running)
    /\ UNCHANGED <<runs, off, manual, reload, restarts>>

\* tick()
Begin(i) ==
    /\ pass[i] = NoPass /\ \A k \in 1..i - 1 : pass[k] # NoPass
    /\ Proceed(i, Due, JobList, running)
    /\ UNCHANGED <<runs, off, manual, reload, restarts>>

\* POST /api/jobs/:name/run
RunNow(j) ==
    /\ j \notin running /\ running' = running \cup {j}
    /\ UNCHANGED <<runs, pass, off, manual, reload, restarts>>

\* runJob(), when the job has ended, well or not: its record is saved, and the pass
\* that has waited goes on.
End(j) ==
    LET idle == running \ {j}
    IN  /\ j \in running
        /\ runs' = [runs EXCEPT ![j] = "recent"]
        /\ \/ \E i \in Passes : pass[i].waits = j /\ Proceed(i, pass[i].due, pass[i].todo, idle)
           \/ (\A i \in Passes : pass[i].waits # j) /\ running' = idle /\ UNCHANGED pass
        /\ reload' \in {reload, reload \/ j \in ReloadAfter}
        /\ UNCHANGED <<off, manual, restarts>>

\* The timer of requestReload().
Reload ==
    /\ reload /\ reload' = FALSE
    /\ UNCHANGED <<runs, running, pass, off, manual, restarts>>

\* The server stops and starts: the records are all that is left.
Restart ==
    /\ restarts < MaxRestarts /\ restarts' = restarts + 1
    /\ running' = {} /\ pass' = [i \in Passes |-> NoPass] /\ reload' = FALSE
    /\ UNCHANGED <<runs, off, manual>>

\* isEnabled(), disabled_jobs
Switch(j) ==
    /\ off' = IF j \in off THEN off \ {j} ELSE off \cup {j}
    /\ UNCHANGED <<runs, running, pass, manual, reload, restarts>>

\* catwaf jobs run: runs the job, reads the records, writes them.
Cli(j) ==
    /\ \/ /\ manual = NoRun /\ manual' = [job |-> j, read |-> NoJob] /\ UNCHANGED runs
       \/ /\ manual = [job |-> j, read |-> NoJob]
          /\ manual' = [manual EXCEPT !.read = runs] /\ UNCHANGED runs
       \/ /\ manual.job = j /\ manual.read # NoJob
          /\ runs' = [manual.read EXCEPT ![j] = "recent"] /\ manual' = NoRun
       \/ manual.job = j /\ manual' = NoRun /\ UNCHANGED runs
    /\ UNCHANGED <<running, pass, off, reload, restarts>>

\* The interval has passed since the record; since an older one that was read, too.
Elapse(j) ==
    LET past(map) == IF map # NoJob /\ map[j] = "recent" THEN [map EXCEPT ![j] = "past"] ELSE map
    IN  /\ runs[j] = "recent" /\ runs' = past(runs)
        /\ manual' = [manual EXCEPT !.read = past(@)]
        /\ UNCHANGED <<running, pass, off, reload, restarts>>

JobsInit ==
    /\ runs = [j \in Jobs |-> "never"] /\ running = {} /\ off = {}
    /\ pass = [i \in Passes |-> NoPass]
    /\ manual = NoRun /\ reload = FALSE /\ restarts = 0

JobsNext ==
    \/ \E i \in Passes : Begin(i)
    \/ \E j \in Jobs : End(j) \/ Elapse(j)
    \/ \E j \in ByHand : RunNow(j) \/ Cli(j)
    \/ \E j \in Switched : Switch(j)
    \/ Reload \/ Restart

\* The timer goes on, and a job that ends does so some time.
JobsFairness ==
    /\ WF_jobVars(\E i \in Passes : Begin(i))
    /\ \A j \in Ending : WF_jobVars(End(j))

JobsSpec == JobsInit /\ [][JobsNext]_jobVars /\ JobsFairness

-----------------------------------------------------------------------------
(***************************************************************************)
(* "One broken feed can never take the scheduler down": a job that is due  *)
(* runs, whatever other jobs fail, hang, are run by hand or switched off,  *)
(* and whatever records are lost to the CLI; unless it is switched off, or *)
(* is not due any more (as when the CLI has run it).  A job that has never *)
(* run and has no runOnStart is not due.                                   *)
(***************************************************************************)
DueJobsRun == \A j \in Jobs : j \in Due ~> j \in running \cup off \/ j \notin Due

=============================================================================
