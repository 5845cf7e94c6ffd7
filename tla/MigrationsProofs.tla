-------------------------- MODULE MigrationsProofs --------------------------
(***************************************************************************)
(* That a migration is applied once and in order, for every number of files   *)
(* and runners and any number of crashes.                                     *)
(***************************************************************************)
EXTENDS Migrations, TLAPS

\* A run at work has the flag that fits and has read no more than was recorded.
Flagged ==
  \A r \in Runner : pc[r] # "stopped" =>
    /\ mode[r] = "baseline" => by_hand
    /\ mode[r] = "apply" => ~by_hand
    /\ applied[r] \subseteq tracker

\* The loop has left every file before its own recorded.
Scanned ==
  \A r \in Runner : (pc[r] # "stopped" /\ mode[r] # "dry") => 1..(name[r] - 1) \subseteq tracker

\* A run inside a transaction is at a file, and not a dry run.
AtFile ==
  \A r \in Runner : pc[r] \in {"executed", "inserted"} => name[r] \in File /\ mode[r] # "dry"

\* An inserted key is new, and no other transaction has inserted it.
KeyHeld ==
  \A r \in Runner : pc[r] = "inserted" =>
    /\ name[r] \notin tracker
    /\ \A o \in Runner \ {r} : ~(pc[o] = "inserted" /\ name[o] = name[r])

IInv == TypeOK /\ Flagged /\ Scanned /\ AtFile /\ KeyHeld /\ AppliedOnce /\ InOrder

\* A runner's step that records nothing: its locals stay consistent, the tables stay.
QuietStep(r) ==
  /\ UNCHANGED <<by_hand, runs, tracker>>
  /\ pc' \in [Runner -> Label] /\ mode' \in [Runner -> Mode]
  /\ applied' \in [Runner -> SUBSET File] /\ name' \in [Runner -> 1..(Last + 1)]
  /\ failures' \in Nat
  /\ \A o \in Runner \ {r} : /\ pc'[o] = pc[o] /\ mode'[o] = mode[o]
                             /\ applied'[o] = applied[o] /\ name'[o] = name[o]
  /\ pc'[r] # "stopped" =>
       /\ mode'[r] = "baseline" => by_hand
       /\ mode'[r] = "apply" => ~by_hand
       /\ applied'[r] \subseteq tracker
       /\ mode'[r] # "dry" => 1..(name'[r] - 1) \subseteq tracker
  /\ pc'[r] \in {"executed", "inserted"} => name'[r] \in File /\ mode'[r] # "dry"
  /\ pc'[r] = "inserted" => /\ name'[r] \notin tracker
                            /\ \A o \in Runner \ {r} : ~(pc[o] = "inserted" /\ name[o] = name'[r])

\* A quiet step of any runner keeps the invariant.
LEMMA QuietStepKeeps ==
  ASSUME NEW r \in Runner, IInv, QuietStep(r)
  PROVE  IInv'
<1>1. TypeOK'
  BY DEF IInv, TypeOK, QuietStep
<1>2. Flagged'
  BY DEF IInv, Flagged, QuietStep
<1>3. Scanned'
  BY DEF IInv, Scanned, QuietStep
<1>4. AtFile'
  BY DEF IInv, AtFile, QuietStep
<1>5. KeyHeld'
  BY DEF IInv, KeyHeld, QuietStep
<1>6. AppliedOnce' /\ InOrder'
  BY DEF IInv, AppliedOnce, InOrder, QuietStep
<1>7. QED
  BY <1>1, <1>2, <1>3, <1>4, <1>5, <1>6 DEF IInv

\* Every step but a commit is quiet.
LEMMA StartIsQuiet ==
  ASSUME IInv, NEW r \in Runner, NEW m \in Mode, Start(r, m)
  PROVE  QuietStep(r)
BY LastAssumption DEF IInv, TypeOK, Start, QuietStep, Goto, ModeFits, File, Label, Mode

LEMMA SkipIsQuiet ==
  ASSUME IInv, NEW r \in Runner, Skip(r)
  PROVE  QuietStep(r)
<1>1. name[r] \in 1..Last /\ name'[r] = name[r] + 1
  BY LastAssumption DEF IInv, TypeOK, Skip
<1>2. mode[r] # "dry" => name[r] \in tracker /\ 1..(name[r] - 1) \subseteq tracker
  BY DEF IInv, Flagged, Scanned, Skip, Skips
<1>3. 1..(name'[r] - 1) = 1..(name[r] - 1) \cup {name[r]}
  BY <1>1, LastAssumption
<1>4. name' \in [Runner -> 1..(Last + 1)]
  BY <1>1, LastAssumption DEF IInv, TypeOK, Skip
<1>5. QED
  BY <1>1, <1>2, <1>3, <1>4 DEF IInv, TypeOK, Flagged, Skip, QuietStep

LEMMA StopIsQuiet ==
  ASSUME IInv, NEW r \in Runner, AfterError(r), failures' \in Nat,
         UNCHANGED <<by_hand, runs, tracker, mode, applied>>
  PROVE  QuietStep(r)
BY DEF IInv, TypeOK, AfterError, Goto, QuietStep, Label

LEMMA ExecuteIsQuiet ==
  ASSUME IInv, NEW r \in Runner, Execute(r)
  PROVE  QuietStep(r)
<1>1. CASE AfterError(r)
  BY <1>1, StopIsQuiet DEF Execute, IInv, TypeOK
<1>2. CASE Goto(r, "executed") /\ UNCHANGED name
  <2>1. name[r] \in File /\ mode[r] # "dry"
    BY LastAssumption DEF Execute, Skips, IInv, TypeOK, File
  <2>2. QED
    BY <1>2, <2>1 DEF Execute, IInv, TypeOK, Flagged, Scanned, Goto, QuietStep, Label
<1>3. QED
  BY <1>1, <1>2 DEF Execute

LEMMA InsertIsQuiet ==
  ASSUME IInv, NEW r \in Runner, Insert(r)
  PROVE  QuietStep(r)
<1>1. CASE KeyTaken(name[r])
  BY <1>1, StopIsQuiet DEF Insert, IInv, TypeOK
<1>2. CASE ~KeyTaken(name[r])
  <2>1. name[r] \in File /\ mode[r] # "dry" /\ name[r] \notin tracker
    BY <1>2 DEF Insert, KeyTaken, IInv, AtFile
  <2>2. Goto(r, "inserted") /\ UNCHANGED name
    BY <1>2 DEF Insert
  <2>3. QED
    BY <2>1, <2>2 DEF Insert, Waits, IInv, TypeOK, Flagged, Scanned, Goto, QuietStep, Label
<1>3. QED
  BY <1>1, <1>2

LEMMA FailIsQuiet ==
  ASSUME IInv, NEW r \in Runner, Fail(r)
  PROVE  QuietStep(r)
BY StopIsQuiet DEF Fail, IInv, TypeOK

LEMMA FinishIsQuiet ==
  ASSUME IInv, NEW r \in Runner, Finish(r)
  PROVE  QuietStep(r)
BY DEF Finish, IInv, TypeOK, Goto, QuietStep, Label

\* A commit records one new file, which no other run holds.
LEMMA CommitKeeps ==
  ASSUME IInv, NEW r \in Runner, Commit(r)
  PROVE  IInv'
<1> DEFINE f == name[r]
<1>1. f \in File /\ mode[r] # "dry" /\ f \notin tracker /\ 1..(f - 1) \subseteq tracker
  BY DEF Commit, IInv, AtFile, KeyHeld, Scanned
<1>2. tracker' = tracker \cup {f} /\ name' = [name EXCEPT ![r] = f + 1]
  BY DEF Commit, CommitPersists
<1>3. f + 1 \in 1..(Last + 1) /\ 1..f = 1..(f - 1) \cup {f}
  BY <1>1, LastAssumption DEF File
<1>4. runs' = IF by_hand THEN runs ELSE [runs EXCEPT ![f] = runs[f] + 1]
  BY <1>1 DEF Commit, CommitPersists, IInv, Flagged, TypeOK, Mode
<1>5. TypeOK'
  BY <1>1, <1>2, <1>3, <1>4 DEF Commit, IInv, TypeOK, Goto, Label
<1>6. Flagged'
  BY <1>2 DEF Commit, IInv, Flagged, TypeOK, Goto
<1>7. Scanned'
  <2> SUFFICES ASSUME NEW o \in Runner, pc'[o] # "stopped", mode'[o] # "dry"
               PROVE  1..(name'[o] - 1) \subseteq tracker'
    BY DEF Scanned
  <2>1. CASE o = r
    <3>1. name'[o] = f + 1
      BY <2>1, <1>2 DEF IInv, TypeOK
    <3>2. 1..(name'[o] - 1) = 1..f
      BY <3>1, <1>1, LastAssumption DEF File
    <3>3. QED
      BY <3>2, <1>1, <1>2, <1>3
  <2>2. CASE o # r
    BY <2>2, <1>2 DEF Commit, IInv, Scanned, TypeOK, Goto
  <2>3. QED
    BY <2>1, <2>2
<1>8. AtFile'
  BY <1>2 DEF Commit, IInv, AtFile, TypeOK, Goto
<1>9. KeyHeld'
  BY <1>2 DEF Commit, IInv, KeyHeld, TypeOK, Goto
<1>10. AppliedOnce'
  BY <1>1, <1>2, <1>4 DEF Commit, IInv, AppliedOnce, TypeOK
<1>11. InOrder'
  BY <1>1, <1>2, <1>3 DEF IInv, InOrder
<1>12. QED
  BY <1>5, <1>6, <1>7, <1>8, <1>9, <1>10, <1>11 DEF IInv

-----------------------------------------------------------------------------
\* The strengthened invariant holds in every reachable state: what a run knows of
\* the tracker is old but true, and an uncommitted key excludes every other run.
THEOREM Invariance == Spec => []IInv
<1>1. Init => IInv
  BY LastAssumption DEF Init, IInv, TypeOK, Flagged, Scanned, AtFile, KeyHeld, AppliedOnce,
     InOrder, Label, Mode
<1>2. IInv /\ [Next]_vars => IInv'
  <2> SUFFICES ASSUME IInv, [Next]_vars PROVE IInv'
    OBVIOUS
  <2>1. CASE UNCHANGED vars
    BY <2>1 DEF vars, IInv, TypeOK, Flagged, Scanned, AtFile, KeyHeld, AppliedOnce, InOrder
  <2>2. CASE Next
    <3>1. PICK r \in Runner : Works(r) \/ Fail(r) \/ \E m \in Mode : Start(r, m)
      BY <2>2 DEF Next
    <3>2. CASE Commit(r)
      BY <3>2, CommitKeeps
    <3>3. CASE ~Commit(r)
      <4>1. QuietStep(r)
        BY <3>1, <3>3, SkipIsQuiet, ExecuteIsQuiet, InsertIsQuiet, FinishIsQuiet,
           FailIsQuiet, StartIsQuiet DEF Works
      <4>2. QED
        BY <4>1, QuietStepKeeps
    <3>4. QED
      BY <3>2, <3>3
  <2>3. QED
    BY <2>1, <2>2
<1>3. QED
  BY <1>1, <1>2, PTL DEF Spec

\* However many runners overlap or crash, no migration's statements are committed
\* twice, nor without the row that records them.
THEOREM NeverAppliedTwice == Spec => []AppliedOnce
<1>1. IInv => AppliedOnce
  BY DEF IInv
<1>2. QED
  BY <1>1, Invariance, PTL

\* However many runners overlap or crash, the recorded files are always the first ones.
THEOREM RecordedInOrder == Spec => []InOrder
<1>1. IInv => InOrder
  BY DEF IInv
<1>2. QED
  BY <1>1, Invariance, PTL
=============================================================================
