-------------------------- MODULE VerificationService --------------------------
(***************************************************************************)
(* What the verification store promises whoever reads its records: one job *)
(* works at a time; only that job writes, about the snapshot it was        *)
(* accepted for, and never over its own result; a job that is over stays   *)
(* over.  Records may disappear at any time.  VerificationStore implements *)
(* this specification with verify.lock, files, threads and failing saves.  *)
(***************************************************************************)
CONSTANTS
    Jobs,        \* verification requests
    Snapshots,   \* what they verify
    Reports,     \* statuses of a job that goes on
    Results,     \* statuses of a job that came to its end
    None         \* no job / no snapshot / no record

VARIABLES
    about,     \* the snapshot each job was accepted for
    working,   \* the job at work
    over,      \* the jobs that will never work (again)
    latest     \* the latest record of each snapshot

vars == <<about, working, over, latest>>

Init ==
    /\ about = [j \in Jobs |-> None]
    /\ working = None
    /\ over = {}
    /\ latest = [s \in Snapshots |-> None]

Accept(j) ==
    /\ about[j] = None
    /\ \E s \in Snapshots : about' = [about EXCEPT ![j] = s]
    /\ UNCHANGED <<working, over, latest>>

Begin(j) ==
    /\ about[j] # None /\ j \notin over
    /\ working = None
    /\ working' = j
    /\ UNCHANGED <<about, over, latest>>

(* The job at work saves where it is, or its result; after the result it   *)
(* has nothing more to say.                                                *)
Write(j) ==
    /\ working = j
    /\ LET old == latest[about[j]] IN
       old # None /\ old.status \in Results => old.job # j
    /\ \E st \in Reports \cup Results :
          latest' = [latest EXCEPT ![about[j]] = [job |-> j, status |-> st]]
    /\ UNCHANGED <<about, working, over>>

(* It ends, fails or dies; a job that waits for its turn never gets it. *)
End(j) ==
    /\ about[j] # None /\ j \notin over
    /\ working' = IF working = j THEN None ELSE working
    /\ over' = over \cup {j}
    /\ UNCHANGED <<about, latest>>

(* Old records, and those of deleted snapshots, are removed. *)
Drop ==
    /\ \E gone \in SUBSET Snapshots :
          latest' = [s \in Snapshots |-> IF s \in gone THEN None ELSE latest[s]]
    /\ UNCHANGED <<about, working, over>>

Next ==
    \/ \E j \in Jobs : Accept(j) \/ Begin(j) \/ Write(j) \/ End(j)
    \/ Drop

Spec == Init /\ [][Next]_vars

=============================================================================
