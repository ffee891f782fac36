------------------------ MODULE ScheduledAcquisition ------------------------
(***************************************************************************)
(* workers/scheduled_acquisition.py: a scheduler takes a lock file, runs   *)
(* the collector of a job as a child process with a timeout, and removes   *)
(* the file.  A scheduler that is killed leaves the file, and its child    *)
(* goes on; the file is then removed by hand.  Collectors are also started *)
(* by hand, without the lock.                                              *)
(*                                                                         *)
(* The jobs of one invocation follow each other under one lock and collect *)
(* different feeders; this is the job of one feeder.                       *)
(***************************************************************************)
EXTENDS Naturals, FiniteSets

CONSTANTS
  Schedulers,   \* slots for invocations of the scheduler
  Workers,      \* slots for collector processes
  TakesResume,  \* the collector accepts --resume beside the arguments of its job
  None

ASSUME NoneAssumption == None \notin Schedulers \cup Workers
ASSUME ResumeAssumption == TakesResume \in BOOLEAN

VARIABLES
  lock,         \* the scheduler that made the lock file, or None
  phase,        \* per scheduler: what it is doing
  resume,       \* per scheduler: invoked with --resume
  child,        \* per scheduler: the collector it waits for, or None
  live,         \* the collectors that are running
  overridden    \* somebody went round the lock

scheduleVars == <<lock, phase, resume, child, live, overridden>>

Phases == {"idle", "locked", "waiting", "done", "dead"}

ScheduleInit ==
  /\ lock = None
  /\ phase = [s \in Schedulers |-> "idle"]
  /\ resume = [s \in Schedulers |-> FALSE]
  /\ child = [s \in Schedulers |-> None]
  /\ live = {}
  /\ overridden = FALSE

-----------------------------------------------------------------------------
\* A process nobody waits for any more.
Free(w) == w \notin live /\ \A s \in Schedulers : child[s] # w

\* Looking for the file and making it are two steps.
AcquireUnchecked(s, again) ==
  /\ phase[s] = "idle"
  /\ lock' = s
  /\ phase' = [phase EXCEPT ![s] = "locked"]
  /\ resume' = [resume EXCEPT ![s] = again]
  /\ UNCHANGED <<child, live, overridden>>

\* O_CREAT | O_EXCL.  Where the file exists the invocation reports SKIPPED_LOCKED.
Acquire(s, again) ==
  /\ phase[s] = "idle"
  /\ lock = None
  /\ lock' = s
  /\ phase' = [phase EXCEPT ![s] = "locked"]
  /\ resume' = [resume EXCEPT ![s] = again]
  /\ UNCHANGED <<child, live, overridden>>

\* The arguments of the job, and --resume after them if the invocation has it.
Spawn(s, w) ==
  /\ phase[s] = "locked"
  /\ resume[s] => TakesResume
  /\ Free(w)
  /\ live' = live \cup {w}
  /\ child' = [child EXCEPT ![s] = w]
  /\ phase' = [phase EXCEPT ![s] = "waiting"]
  /\ UNCHANGED <<lock, resume, overridden>>

\* The collector's parser exits at once.
Refuse(s) ==
  /\ phase[s] = "locked"
  /\ resume[s] /\ ~TakesResume
  /\ phase' = [phase EXCEPT ![s] = "done"]
  /\ UNCHANGED <<lock, resume, child, live, overridden>>

\* A missing credential ends the invocation before the lock is given back.
BlockKeepsLock(s) ==
  /\ phase[s] = "locked"
  /\ phase' = [phase EXCEPT ![s] = "idle"]
  /\ UNCHANGED <<lock, resume, child, live, overridden>>

\* A credential or a setting is missing.
Block(s) ==
  /\ phase[s] = "locked"
  /\ phase' = [phase EXCEPT ![s] = "done"]
  /\ UNCHANGED <<lock, resume, child, live, overridden>>

\* The collector exits and the scheduler writes down how.
Reap(s) ==
  /\ phase[s] = "waiting"
  /\ child[s] \notin live
  /\ phase' = [phase EXCEPT ![s] = "done"]
  /\ child' = [child EXCEPT ![s] = None]
  /\ UNCHANGED <<lock, resume, live, overridden>>

\* The scheduler gives up waiting and lets the collector go on.
TimeoutAbandons(s) ==
  /\ phase[s] = "waiting"
  /\ phase' = [phase EXCEPT ![s] = "done"]
  /\ child' = [child EXCEPT ![s] = None]
  /\ UNCHANGED <<lock, resume, live, overridden>>

\* subprocess.run kills the collector and waits for it before it raises.
Timeout(s) ==
  /\ phase[s] = "waiting"
  /\ child[s] \in live
  /\ live' = live \ {child[s]}
  /\ phase' = [phase EXCEPT ![s] = "done"]
  /\ child' = [child EXCEPT ![s] = None]
  /\ UNCHANGED <<lock, resume, overridden>>

\* __exit__ unlinks the file, whoever made it.
Leave(s) ==
  /\ phase[s] = "done"
  /\ lock' = None
  /\ phase' = [phase EXCEPT ![s] = "idle"]
  /\ UNCHANGED <<resume, child, live, overridden>>

\* The scheduler dies: neither the file nor the child goes with it.
Kill(s) ==
  /\ phase[s] \in {"locked", "waiting", "done"}
  /\ phase' = [phase EXCEPT ![s] = "dead"]
  /\ child' = [child EXCEPT ![s] = None]
  /\ UNCHANGED <<lock, resume, live, overridden>>

\* Somebody removes the file of a dead scheduler, whose child may still be running.
RemoveLock(s) ==
  /\ lock = s /\ phase[s] = "dead"
  /\ lock' = None
  /\ phase' = [phase EXCEPT ![s] = "idle"]
  /\ overridden' = (overridden \/ live # {})
  /\ UNCHANGED <<resume, child, live>>

\* A collector is started from the command line.
StartByHand(w) ==
  /\ Free(w)
  /\ live' = live \cup {w}
  /\ overridden' = TRUE
  /\ UNCHANGED <<lock, phase, resume, child>>

\* A collector ends, whatever the reason.
Exit(w) ==
  /\ w \in live
  /\ live' = live \ {w}
  /\ UNCHANGED <<lock, phase, resume, child, overridden>>

ScheduleNext ==
  \/ \E s \in Schedulers :
       \/ Refuse(s) \/ Block(s) \/ Reap(s) \/ Timeout(s) \/ Leave(s) \/ Kill(s) \/ RemoveLock(s)
       \/ \E again \in BOOLEAN : Acquire(s, again)
       \/ \E w \in Workers : Spawn(s, w)
  \/ \E w \in Workers : StartByHand(w) \/ Exit(w)

ScheduleSpec == ScheduleInit /\ [][ScheduleNext]_scheduleVars

-----------------------------------------------------------------------------
(* Properties                                                               *)

ScheduleTypeOK ==
  /\ lock \in Schedulers \cup {None}
  /\ phase \in [Schedulers -> Phases]
  /\ resume \in [Schedulers -> BOOLEAN]
  /\ child \in [Schedulers -> Workers \cup {None}]
  /\ live \subseteq Workers
  /\ overridden \in BOOLEAN

\* "Exclusive lock file so overlapping schedules never run two collectors at once":
\* true, also across timeouts and kills, until somebody starts a collector by hand or
\* removes the file of a dead scheduler whose child is still collecting.
OneCollector == ~overridden => \A v, w \in live : v = w

\* What holds between a scheduler that has the lock and the collectors.
Guarded(s) ==
  /\ phase[s] \in {"locked", "done"} => live = {}
  /\ phase[s] = "waiting" => live \subseteq {child[s]}
  /\ phase[s] = "dead" => \A v, w \in live : v = w

LockInv ==
  /\ \A s \in Schedulers : phase[s] # "idle" <=> lock = s
  /\ \A s \in Schedulers : phase[s] = "waiting" => child[s] \in Workers
  /\ ~overridden => /\ lock = None => live = {}
                    /\ \A s \in Schedulers : lock = s => Guarded(s)

\* A lock taken is given back, unless its holder is killed: a collector that hangs is
\* timed out, and every way a job can end leads to the unlink.
LockReleased ==
  \A s \in Schedulers : lock = s ~> (lock # s \/ phase[s] = "dead")
=============================================================================
