----------------------------- MODULE Migrations -----------------------------
(***************************************************************************)
(* scripts/apply_migrations.py: the files of db/migrations, numbered in the    *)
(* order of their names, applied by any number of runs of the script at once.  *)
(* Every file has a transaction of its own, which also inserts the file's row   *)
(* into the tracker table; a crash, a lost connection or an error of the file   *)
(* rolls it back and ends the run, and somebody runs the script again.          *)
(***************************************************************************)
EXTENDS Integers, FiniteSets

CONSTANTS
  Runner,          \* places the script is run from
  Last,            \* the files are 1..Last
  Needs,           \* files that must be committed before a file can run: 0014 uses
                   \* the enum value 0013 adds
  MaxFailures      \* bound on crashes and file errors

File == 1..Last

ASSUME LastAssumption == Last \in Nat
ASSUME NeedsAssumption == Needs \in [File -> SUBSET File]
                          /\ \A f \in File : \A n \in Needs[f] : n < f
ASSUME FailureAssumption == MaxFailures \in Nat

VARIABLES
  by_hand,      \* the files were run before there was a tracker
  runs,         \* file -> how often its statements were committed
  tracker,      \* conpass_schema_migrations
  pc,
  mode,         \* local: no flag, --dry-run or --baseline
  applied,      \* local: the tracker as read at the start
  name,         \* local: the file of the loop
  failures

vars == <<by_hand, runs, tracker, pc, mode, applied, name, failures>>

Mode == {"apply", "dry", "baseline"}
Label == {"stopped", "loop", "executed", "inserted"}

TypeOK ==
  /\ by_hand \in BOOLEAN /\ runs \in [File -> Nat] /\ tracker \in SUBSET File
  /\ pc \in [Runner -> Label] /\ mode \in [Runner -> Mode]
  /\ applied \in [Runner -> SUBSET File] /\ name \in [Runner -> 1..(Last + 1)]
  /\ failures \in Nat

-----------------------------------------------------------------------------
Goto(r, label) == pc' = [pc EXCEPT ![r] = label]

Skips(r) == name[r] \in applied[r] \/ mode[r] = "dry"

\* Some other transaction holds the file's key of the tracker.
Waits(r) == \E o \in Runner \ {r} : pc[o] = "inserted" /\ name[o] = name[r]

\* A tracker without a primary key (faulty variant).
NoKey(f) == FALSE

\* filename is the primary key.
KeyTaken(f) == f \in tracker

\* Without autocommit the transactions are savepoints that close() rolls back
\* (faulty variant).
SavepointPersists == FALSE

\* autocommit=True: leaving `with conn.transaction()` commits.
CommitPersists == TRUE

\* An error of one file does not stop the loop (faulty variant).
NextFileAfterError(r) ==
  IF name[r] < Last THEN Goto(r, "loop") /\ name' = [name EXCEPT ![r] = @ + 1]
                    ELSE Goto(r, "stopped") /\ UNCHANGED name

\* The exception ends the run.
AfterError(r) == Goto(r, "stopped") /\ UNCHANGED name

\* Files that were run by hand are only ever baselined, others never.
ModeFits(m) == (m = "baseline" => by_hand) /\ (m = "apply" => ~by_hand)

-----------------------------------------------------------------------------
Init ==
  /\ by_hand \in BOOLEAN /\ runs = [f \in File |-> IF by_hand THEN 1 ELSE 0]
  /\ tracker = {} /\ pc = [r \in Runner |-> "stopped"]
  /\ mode = [r \in Runner |-> "dry"] /\ applied = [r \in Runner |-> {}]
  /\ name = [r \in Runner |-> 1] /\ failures = 0

\* Connect; create the tracker if there is none, and read it, once.
Start(r, m) ==
  /\ pc[r] = "stopped" /\ ModeFits(m) /\ Goto(r, "loop")
  /\ mode' = [mode EXCEPT ![r] = m] /\ applied' = [applied EXCEPT ![r] = tracker]
  /\ name' = [name EXCEPT ![r] = 1]
  /\ UNCHANGED <<by_hand, runs, tracker, failures>>

Skip(r) ==
  /\ pc[r] = "loop" /\ name[r] <= Last /\ Skips(r)
  /\ name' = [name EXCEPT ![r] = @ + 1]
  /\ UNCHANGED <<by_hand, runs, tracker, pc, mode, applied, failures>>

\* The statements of the file, in a new transaction; not when baselining.
Execute(r) ==
  /\ pc[r] = "loop" /\ name[r] <= Last /\ ~Skips(r)
  /\ IF mode[r] = "baseline" \/ \A n \in Needs[name[r]] : runs[n] > 0
     THEN Goto(r, "executed") /\ UNCHANGED name ELSE AfterError(r)
  /\ UNCHANGED <<by_hand, runs, tracker, mode, applied, failures>>

\* The tracker's row, which waits for a transaction that inserts the same one.
Insert(r) ==
  /\ pc[r] = "executed" /\ ~Waits(r)
  /\ IF KeyTaken(name[r]) THEN AfterError(r) ELSE Goto(r, "inserted") /\ UNCHANGED name
  /\ UNCHANGED <<by_hand, runs, tracker, mode, applied, failures>>

Commit(r) ==
  /\ pc[r] = "inserted" /\ Goto(r, "loop")
  /\ IF CommitPersists
     THEN /\ tracker' = tracker \cup {name[r]}
          /\ runs' = IF mode[r] = "baseline" THEN runs
                     ELSE [runs EXCEPT ![name[r]] = @ + 1]
     ELSE UNCHANGED <<tracker, runs>>
  /\ name' = [name EXCEPT ![r] = @ + 1]
  /\ UNCHANGED <<by_hand, mode, applied, failures>>

\* A crash or an error, in or between transactions: nothing uncommitted stays.
Fail(r) ==
  /\ pc[r] # "stopped" /\ name[r] <= Last /\ failures < MaxFailures
  /\ failures' = failures + 1
  /\ AfterError(r)
  /\ UNCHANGED <<by_hand, runs, tracker, mode, applied>>

Finish(r) ==
  /\ pc[r] = "loop" /\ name[r] > Last /\ Goto(r, "stopped")
  /\ UNCHANGED <<by_hand, runs, tracker, mode, applied, name, failures>>

Works(r) == Skip(r) \/ Execute(r) \/ Insert(r) \/ Commit(r) \/ Finish(r)

Next == \E r \in Runner : Works(r) \/ Fail(r) \/ \E m \in Mode : Start(r, m)

Spec == Init /\ [][Next]_vars

\* A run that can go on does, and from every place the script is run again, with
\* the flag that fits, for as long as it takes.
Fairness ==
  \A r \in Runner : WF_vars(Works(r)) /\ SF_vars(Start(r, "apply"))
                                      /\ SF_vars(Start(r, "baseline"))
FairSpec == Spec /\ Fairness

-----------------------------------------------------------------------------
(* Properties.                                                                *)

\* Each file's statements are committed exactly when its tracker row is, and at
\* most once, whatever runs at the same time, crashes or is started again.
AppliedOnce ==
  \A f \in File : runs[f] = IF by_hand \/ f \in tracker THEN 1 ELSE 0

\* A file is committed only after every file before it, and so after the file
\* whose enum value it uses (0013, "its own migration on purpose").
InOrder == \A f \in tracker : 1..f \subseteq tracker

\* Run again until it goes through, the script ends with every file recorded.
EventuallyApplied == <>[](tracker = File)
=============================================================================
