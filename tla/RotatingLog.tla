------------------------------ MODULE RotatingLog ------------------------------
(***************************************************************************)
(* The log of the backups that the dashboard triggers.  Each is wrapped in *)
(* a process of run-with-rotating-log.py, which appends the output of the  *)
(* backup to manual_backup.log, file 0, and keeps the files from before in *)
(* manual_backup.log.1 (the newest) to manual_backup.log.<Count>.  Several *)
(* wrappers run at a time, since their backups wait for one another; every *)
(* change of the files is made under a flock.                              *)
(*                                                                         *)
(* A byte of the output is its number in the order of the writes; bytes    *)
(* that were in the files before are 0.  The wrappers have the same        *)
(* settings, which may be lower than those of the files' first writers.    *)
(***************************************************************************)
EXTENDS Integers, Sequences, FiniteSets

CONSTANTS
    Writers,    \* wrapper processes
    MaxBytes,   \* --max-bytes
    Counts,     \* values of --backup-count
    MaxIndex,   \* highest number of a file from before
    OldSizes,   \* sizes of files from before
    MaxChunk,   \* bound on what is read from the backup at once
    MaxReads,   \* bound on the chunks that are read
    MaxKills,   \* bound on killed wrappers
    None        \* no file / the lock is free

ASSUME SizesAssumption == MaxBytes \in Nat \ {0} /\ MaxChunk \in Nat /\ OldSizes \subseteq Nat
ASSUME CountsAssumption == MaxIndex \in Nat /\ Counts \subseteq 0..MaxIndex
ASSUME BoundsAssumption == MaxReads \in Nat /\ MaxKills \in Nat
ASSUME NoneAssumption == None \notin Writers /\ None \notin Seq(Nat)

VARIABLES
    count,    \* --backup-count
    files,    \* the log files, by number
    temp,     \* the wrappers whose temporary file of a trim exists
    lock,     \* who holds manual_backup.log.lock
    pc,       \* where each wrapper is
    left,     \* files that are still to be normalised or moved
    chunk,    \* bytes it is about to write
    written,  \* bytes appended so far
    reads,    \* chunks read so far
    kills     \* wrappers killed so far

procVars == <<lock, pc, left, chunk>>
boundVars == <<reads, kills>>
vars == <<count, files, temp, procVars, written, boundVars>>

Indexes == 0..MaxIndex
Exists(i) == files[i] # None
Size(i) == IF Exists(i) THEN Len(files[i]) ELSE 0

Holding == {"normalise", "replace", "rotate", "append"}
(* A wrapper in one of these has normalised the files.                     *)
Logging == {"read", "write", "rotate", "append", "done"}

TypeOK ==
    /\ count \in Counts
    /\ files \in [Indexes -> Seq(Nat) \cup {None}]
    /\ temp \in SUBSET Writers
    /\ lock \in Writers \cup {None}
    /\ pc \in [Writers -> {"start", "dead"} \cup Holding \cup Logging]
    /\ left \in [Writers -> SUBSET Indexes]
    /\ chunk \in [Writers -> 0..MaxBytes]
    /\ written \in Nat
    /\ reads \in 0..MaxReads
    /\ kills \in 0..MaxKills

Init ==
    /\ count \in Counts
    /\ files \in [Indexes -> {[k \in 1..n |-> 0] : n \in OldSizes} \cup {None}]
    /\ temp = {}
    /\ lock = None
    /\ pc = [w \in Writers |-> "start"]
    /\ left = [w \in Writers |-> {}]
    /\ chunk = [w \in Writers |-> 0]
    /\ written = 0
    /\ reads = 0
    /\ kills = 0

-----------------------------------------------------------------------------
Goto(w, stage) == pc' = [pc EXCEPT ![w] = stage]
Visit(w, S) == left' = [left EXCEPT ![w] = S]

(* _normalise_existing_logs, which takes the lock and finds the files that *)
(* are too many or too long.                                               *)
Open(w) ==
    /\ pc[w] = "start"
    /\ lock = None
    /\ lock' = w
    /\ Visit(w, {i \in Indexes : Exists(i) /\ (i > count \/ Size(i) > MaxBytes)})
    /\ Goto(w, "normalise")
    /\ UNCHANGED <<count, files, temp, chunk, written, boundVars>>

(* Faulty: only the numbers above the next one are superfluous. *)
RemoveSuperfluous_OffByOne(w) ==
    /\ pc[w] = "normalise"
    /\ \E i \in left[w] :
          /\ i > count
          /\ files' = [files EXCEPT ![i] = IF i > count + 1 THEN None ELSE @]
          /\ Visit(w, left[w] \ {i})
    /\ UNCHANGED <<count, temp, lock, pc, chunk, written, boundVars>>

RemoveSuperfluous(w) ==
    /\ pc[w] = "normalise"
    /\ \E i \in left[w] :
          /\ i > count
          /\ files' = [files EXCEPT ![i] = None]
          /\ Visit(w, left[w] \ {i})
    /\ UNCHANGED <<count, temp, lock, pc, chunk, written, boundVars>>

(* trim_to_tail writes the tail of a file to a temporary one ...           *)
WriteTail(w) ==
    /\ pc[w] = "normalise"
    /\ \E i \in left[w] : i <= count
    /\ temp' = temp \cup {w}
    /\ Goto(w, "replace")
    /\ UNCHANGED <<count, files, lock, left, chunk, written, boundVars>>

TailOf(s) == SubSeq(s, Len(s) - MaxBytes + 1, Len(s))

(* ... which replaces it.                                                  *)
ReplaceByTail(w) ==
    /\ pc[w] = "replace"
    /\ \E i \in left[w] :
          /\ i <= count
          /\ files' = [files EXCEPT ![i] = TailOf(@)]
          /\ Visit(w, left[w] \ {i})
    /\ temp' = temp \ {w}
    /\ Goto(w, "normalise")
    /\ UNCHANGED <<count, lock, chunk, written, boundVars>>

(* The files are in order, and the backup is started. *)
Opened(w) ==
    /\ pc[w] = "normalise" /\ left[w] = {}
    /\ lock' = None
    /\ Goto(w, "read")
    /\ UNCHANGED <<count, files, temp, left, chunk, written, boundVars>>

(* Faulty: a long piece of output is taken as it is. *)
Read_Whole(w) ==
    /\ pc[w] = "read" /\ reads < MaxReads
    /\ \E n \in 1..MaxChunk : chunk' = [chunk EXCEPT ![w] = n]
    /\ reads' = reads + 1
    /\ Goto(w, "write")
    /\ UNCHANGED <<count, files, temp, lock, left, written, kills>>

(* Output is read; of more than a file may hold, only the tail is logged.  *)
Read(w) ==
    /\ pc[w] = "read" /\ reads < MaxReads
    /\ \E n \in 1..MaxChunk :
          chunk' = [chunk EXCEPT ![w] = IF n > MaxBytes THEN MaxBytes ELSE n]
    /\ reads' = reads + 1
    /\ Goto(w, "write")
    /\ UNCHANGED <<count, files, temp, lock, left, written, kills>>

(* Faulty: a file that is just full is rotated away. *)
Write_RotatesEarly(w) ==
    /\ pc[w] = "write"
    /\ lock = None
    /\ lock' = w
    /\ IF Size(0) > 0 /\ Size(0) + chunk[w] >= MaxBytes
       THEN Visit(w, {i \in 0..count : Exists(i)}) /\ Goto(w, "rotate")
       ELSE left' = left /\ Goto(w, "append")
    /\ UNCHANGED <<count, files, temp, chunk, written, boundVars>>

(* write: with the lock, does the chunk fit into the current file?         *)
Write(w) ==
    /\ pc[w] = "write"
    /\ lock = None
    /\ lock' = w
    /\ IF Size(0) > 0 /\ Size(0) + chunk[w] > MaxBytes
       THEN Visit(w, {i \in 0..count : Exists(i)}) /\ Goto(w, "rotate")
       ELSE left' = left /\ Goto(w, "append")
    /\ UNCHANGED <<count, files, temp, chunk, written, boundVars>>

(* File i is removed when it is the last, and renamed to the next one      *)
(* otherwise.                                                              *)
Moved(i) ==
    IF i = count THEN [files EXCEPT ![i] = None]
    ELSE [files EXCEPT ![i] = None, ![i + 1] = files[i]]

(* Faulty: the newest file is moved first. *)
Rotate_NewestFirst(w) ==
    /\ pc[w] = "rotate"
    /\ \E i \in left[w] :
          /\ \A j \in left[w] : i <= j
          /\ files' = Moved(i)
          /\ Visit(w, left[w] \ {i})
          /\ Goto(w, IF left[w] = {i} THEN "append" ELSE "rotate")
    /\ UNCHANGED <<count, temp, lock, chunk, written, boundVars>>

(* _rotate: one removal or renaming after the other, the oldest first.     *)
Rotate(w) ==
    /\ pc[w] = "rotate"
    /\ \E i \in left[w] :
          /\ \A j \in left[w] : j <= i
          /\ files' = Moved(i)
          /\ Visit(w, left[w] \ {i})
          /\ Goto(w, IF left[w] = {i} THEN "append" ELSE "rotate")
    /\ UNCHANGED <<count, temp, lock, chunk, written, boundVars>>

Content(i) == IF Exists(i) THEN files[i] ELSE <<>>

(* n bytes are appended to the current file, which may have to be created. *)
Log(n) ==
    /\ files' = [files EXCEPT ![0] = Content(0) \o [k \in 1..n |-> written + k]]
    /\ written' = written + n

(* The chunk is appended and the lock released. *)
AppendChunk(w) ==
    /\ pc[w] = "append"
    /\ Log(chunk[w])
    /\ chunk' = [chunk EXCEPT ![w] = 0]
    /\ lock' = None
    /\ Goto(w, "read")
    /\ UNCHANGED <<count, temp, left, boundVars>>

(* The backup ends, and the wrapper with its exit status. *)
End(w) ==
    /\ pc[w] = "read"
    /\ Goto(w, "done")
    /\ UNCHANGED <<count, files, temp, lock, left, chunk, written, boundVars>>

Ends(w) ==
    /\ lock' = IF lock = w THEN None ELSE lock
    /\ Goto(w, "dead")
    /\ Visit(w, {})
    /\ chunk' = [chunk EXCEPT ![w] = 0]

(* The volume is full, or another call raises: a part of the chunk may     *)
(* have been appended; the finally clause removes the temporary file.      *)
Fail(w) ==
    /\ pc[w] \in Holding
    /\ \/ pc[w] = "append" /\ \E n \in 1..chunk[w] - 1 : Log(n)
       \/ files' = files /\ written' = written
    /\ temp' = temp \ {w}
    /\ Ends(w)
    /\ UNCHANGED <<count, boundVars>>

(* The wrapper is killed or its container stops. *)
Kill(w) ==
    /\ kills < MaxKills
    /\ pc[w] \notin {"start", "dead", "done"}
    /\ kills' = kills + 1
    /\ Ends(w)
    /\ UNCHANGED <<count, files, temp, written, reads>>

-----------------------------------------------------------------------------
Next ==
    \E w \in Writers :
        \/ Open(w) \/ RemoveSuperfluous(w) \/ WriteTail(w) \/ ReplaceByTail(w) \/ Opened(w)
        \/ Read(w) \/ Write(w) \/ Rotate(w) \/ AppendChunk(w) \/ End(w)
        \/ Fail(w) \/ Kill(w)

Spec == Init /\ [][Next]_vars

-----------------------------------------------------------------------------
(* Properties *)

(* "size-rotated at 10 MiB with three old files" (README.md:78): once a    *)
(* wrapper has normalised the files, they keep within their number and     *)
(* size, whoever writes, fails or is killed between two renames            *)
(* (run-with-rotating-log.py:51-100).                                      *)
LogBounded ==
    (\E w \in Writers : pc[w] \in Logging) =>
        \A i \in Indexes : Exists(i) => i <= count /\ Len(files[i]) <= MaxBytes

(* Every byte in the log: the file it is in and its place there            *)
Places == UNION {{i} \X (1..Size(i)) : i \in Indexes}
Byte(p) == files[p[1]][p[2]]
Before(p, q) == p[1] > q[1] \/ (p[1] = q[1] /\ p[2] < q[2])

(* Read from the highest number to the current file, the log is the output *)
(* of the backups without a gap, a repetition or an exchange, but for what *)
(* was the oldest (run-with-rotating-log.py:64-77).                        *)
OnlyOldestLost ==
    /\ \A p, q \in Places : Before(p, q) => Byte(p) < Byte(q) \/ (Byte(p) = 0 /\ Byte(q) = 0)
    /\ \E n \in 0..written : {Byte(p) : p \in Places} \ {0} = (n + 1)..written

(* With an old file kept, rotation never costs the last bytes: either all  *)
(* output is there, or more than a file may hold is, unless a wrapper      *)
(* ended between two renames.                                              *)
LatestBytesKept ==
    (count > 0 /\ lock = None /\ \A w \in Writers : pc[w] # "dead") =>
        \/ \A n \in 1..written : \E p \in Places : Byte(p) = n
        \/ Cardinality(Places) > MaxBytes

(* trim_to_tail removes its temporary file in a finally clause: without a  *)
(* wrapper at work there is none.                                          *)
NoTemporaryLeft == lock = None => temp = {}

=============================================================================
