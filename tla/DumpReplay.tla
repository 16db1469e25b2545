------------------------------ MODULE DumpReplay ------------------------------
(***************************************************************************)
(* How PostgresRestoreTester.restore replays one dump: split_dump assigns  *)
(* each line to a database (a segment), and _SegmentRunner feeds the lines *)
(* of a segment to a psql of its own, which is connected to a scratch      *)
(* database made with the encoding that the segment's prologue names.      *)
(*                                                                         *)
(* A line is what the regular expressions of the code see of it.  The dump *)
(* is chosen line by line while it is replayed, so every dump of at most   *)
(* MaxLines lines is.                                                      *)
(***************************************************************************)
EXTENDS Integers, Sequences, FiniteSets

CONSTANTS
    Encodings,   \* encodings of databases
    Utf8,        \* the one assumed when a segment names none
    MaxLines,    \* bound on the lines of a dump
    NoPsql       \* no psql

ASSUME EncodingAssumption == Utf8 \in Encodings

ASSUME LinesAssumption == MaxLines \in Nat /\ NoPsql \notin Nat

(* Database header of a cluster dump, "\connect" or CREATE TABLESPACE or a *)
(* statement about the verifier's own role, CREATE DATABASE, SET           *)
(* client_encoding, another line of the prologue, a statement that names   *)
(* the database, any other, COPY ... FROM stdin, the end of its data.      *)
Line ==
    [kind : {"header", "ours", "prologue", "dbref", "statement", "copy", "end"}, encoding : {Utf8}]
        \cup [kind : {"createdb", "setencoding"}, encoding : Encodings]

VARIABLES
    cluster,    \* the dump is one of pg_dumpall
    dump,       \* the lines read so far
    inCopy,     \* split_dump: the next line is data
    segment,    \* split_dump: the current segment
    running,    \* _SegmentRunner.segment, the one that was fed last
    proc,       \* the database psql is connected to
    buffered,   \* numbers of the prologue lines held back
    encoding,   \* for the next scratch database
    scratchDbs, \* encodings of the scratch databases made so far
    fed,        \* history: what psql was given, and of which database
    state       \* feeding, done or aborted

splitVars == <<dump, inCopy, segment>>
runnerVars == <<running, proc, buffered, encoding>>
replayVars == <<cluster, splitVars, runnerVars, scratchDbs, fed, state>>

Maintenance == 0
Segments == 0..MaxLines
Connections == 0..Len(scratchDbs)
Fed == [line : 1..Len(dump), db : Connections, names : BOOLEAN]

ReplayTypeOK ==
    /\ cluster \in BOOLEAN /\ inCopy \in BOOLEAN
    /\ dump \in Seq(Line) /\ Len(dump) <= MaxLines
    /\ segment \in Segments
    /\ running \in {-1} \cup Segments
    /\ proc \in {NoPsql} \cup Connections
    /\ buffered \in Seq(1..Len(dump))
    /\ encoding \in Encodings
    /\ scratchDbs \in Seq(Encodings)
    /\ fed \in Seq(Fed)
    /\ state \in {"feeding", "done", "aborted"}

(* Segment 0 is that of a dump of one database, or the globals of a        *)
(* cluster dump.                                                           *)
ReplayInit ==
    /\ cluster \in BOOLEAN
    /\ dump = <<>> /\ inCopy = FALSE /\ segment = 0
    /\ running = -1 /\ proc = NoPsql /\ buffered = <<>> /\ encoding = Utf8
    /\ scratchDbs = <<>>
    /\ fed = <<>>
    /\ state = "feeding"

IsGlobals(s) == cluster /\ s = 0

(* feed and _is_prologue *)
Filtered(l) == l.kind \in {"ours", "createdb"}
Prologue(l) == l.kind \in {"header", "setencoding", "prologue", "dbref"}
NamesEncoding(l) == l.kind \in {"createdb", "setencoding"}

(* A header outside data begins a segment and is not fed. *)
ReadHeader ==
    /\ state = "feeding" /\ Len(dump) < MaxLines
    /\ cluster /\ ~inCopy
    /\ \E l \in Line : l.kind = "header" /\ dump' = Append(dump, l)
    /\ segment' = segment + 1
    /\ UNCHANGED <<cluster, inCopy, runnerVars, scratchDbs, fed, state>>

(* split_dump: the next line of the segment. *)
Read(l) ==
    /\ state = "feeding" /\ Len(dump) < MaxLines
    /\ ~(cluster /\ ~inCopy /\ l.kind = "header")
    /\ dump' = Append(dump, l)
    /\ inCopy' = IF inCopy THEN l.kind # "end" ELSE l.kind = "copy"
    /\ UNCHANGED <<cluster, segment, state>>

(* Faulty: what was held back is not forgotten. *)
Enter_KeepsBuffer ==
    IF running = segment THEN [proc |-> proc, buffered |-> buffered, encoding |-> encoding]
    ELSE [proc |-> NoPsql, buffered |-> buffered, encoding |-> Utf8]

(* feed's first lines: the first line of a segment finds a fresh runner,   *)
(* of which finish has ended the psql of the segment before.               *)
Enter ==
    IF running = segment THEN [proc |-> proc, buffered |-> buffered, encoding |-> encoding]
    ELSE [proc |-> NoPsql, buffered |-> <<>>, encoding |-> Utf8]

(* The encoding once line l was seen *)
Seen(l) ==
    IF Enter.proc = NoPsql /\ ~IsGlobals(segment) /\ NamesEncoding(l) THEN l.encoding
    ELSE Enter.encoding

(* Statements about the database name the scratch database instead, if it  *)
(* is known under which name the dump has it.                              *)
Given(i, db) ==
    [line |-> i, db |-> db,
     names |-> dump'[i].kind = "dbref" /\ segment > 0 /\ db # Maintenance]

(* A line that psql does not get *)
Filter ==
    \E l \in Line :
        /\ Read(l) /\ Filtered(l)
        /\ running' = segment
        /\ proc' = Enter.proc /\ buffered' = Enter.buffered /\ encoding' = Seen(l)
        /\ UNCHANGED <<scratchDbs, fed>>

(* The prologue is held back. *)
Buffer ==
    \E l \in Line :
        /\ Read(l) /\ Prologue(l)
        /\ Enter.proc = NoPsql /\ ~IsGlobals(segment)
        /\ running' = segment
        /\ proc' = NoPsql /\ buffered' = Append(Enter.buffered, Len(dump')) /\ encoding' = Seen(l)
        /\ UNCHANGED <<scratchDbs, fed>>

(* _start, for the globals: psql is connected to the maintenance database. *)
StartGlobals ==
    \E l \in Line :
        /\ Read(l) /\ ~Filtered(l)
        /\ Enter.proc = NoPsql /\ IsGlobals(segment)
        /\ running' = segment
        /\ proc' = Maintenance /\ buffered' = <<>> /\ encoding' = Enter.encoding
        /\ fed' = Append(fed, Given(Len(dump'), Maintenance))
        /\ UNCHANGED scratchDbs

(* Faulty: psql is started for the last scratch database, made or not. *)
Start_BeforeCreate ==
    \E l \in Line :
        /\ Read(l) /\ ~Filtered(l) /\ ~Prologue(l)
        /\ Enter.proc = NoPsql /\ ~IsGlobals(segment)
        /\ running' = segment
        /\ encoding' = Enter.encoding
        /\ scratchDbs' \in {scratchDbs, Append(scratchDbs, encoding')}
        /\ proc' = Len(scratchDbs) + 1 /\ buffered' = <<>>
        /\ fed' = fed \o [k \in 1..Len(Enter.buffered) |-> Given(Enter.buffered[k], proc')]
                      \o <<Given(Len(dump'), proc')>>

(* _start, at the first statement of a database: a scratch database is     *)
(* made, and its psql given what was held back.                            *)
Start ==
    \E l \in Line :
        /\ Read(l) /\ ~Filtered(l) /\ ~Prologue(l)
        /\ Enter.proc = NoPsql /\ ~IsGlobals(segment)
        /\ running' = segment
        /\ encoding' = Enter.encoding
        /\ scratchDbs' = Append(scratchDbs, encoding')
        /\ proc' = Len(scratchDbs') /\ buffered' = <<>>
        /\ fed' = fed \o [k \in 1..Len(Enter.buffered) |-> Given(Enter.buffered[k], proc')]
                      \o <<Given(Len(dump'), proc')>>

(* psql runs and gets the line. *)
Write ==
    \E l \in Line :
        /\ Read(l) /\ ~Filtered(l)
        /\ Enter.proc # NoPsql
        /\ running' = segment
        /\ proc' = Enter.proc /\ buffered' = Enter.buffered /\ encoding' = Enter.encoding
        /\ fed' = Append(fed, Given(Len(dump'), Enter.proc))
        /\ UNCHANGED scratchDbs

(* The dump ends, and finish ends the last psql. *)
Finish ==
    /\ state = "feeding"
    /\ state' = "done"
    /\ proc' = NoPsql /\ buffered' = <<>>
    /\ UNCHANGED <<cluster, splitVars, running, encoding, scratchDbs, fed>>

(* The server or psql fails, or the dump cannot be read on. *)
Abort ==
    /\ state = "feeding"
    /\ state' = "aborted"
    /\ proc' = NoPsql
    /\ UNCHANGED <<cluster, splitVars, running, buffered, encoding, scratchDbs, fed>>

ReplayNext ==
    \/ ReadHeader \/ Filter \/ Buffer \/ StartGlobals \/ Start \/ Write
    \/ Finish \/ Abort

ReplaySpec == ReplayInit /\ [][ReplayNext]_replayVars

-----------------------------------------------------------------------------
(* What a dump means, independently of the order in which it is read *)

(* Line i is data of a COPY statement (or the end of the data). *)
Data(i) ==
    \E j \in 1..i-1 : dump[j].kind = "copy" /\ \A k \in j+1..i-1 : dump[k].kind # "end"

Header(i) == cluster /\ dump[i].kind = "header" /\ ~Data(i)

SegmentOf(i) == Cardinality({j \in 1..i : Header(j)})

(* psql is needed for it. *)
Needs(i) ==
    /\ ~Header(i) /\ ~Filtered(dump[i])
    /\ IsGlobals(SegmentOf(i)) \/ ~Prologue(dump[i]) \/ Data(i)

(* The segment holds a statement. *)
Replayed(s) == \E i \in 1..Len(dump) : SegmentOf(i) = s /\ Needs(i)

(* The database of a segment: those of earlier ones are made before. *)
Made(s) == Cardinality({r \in 0..s : Replayed(r) /\ ~IsGlobals(r)})
DbOf(s) == IF IsGlobals(s) THEN Maintenance ELSE Made(s)

(* The encoding that is named last before a segment's first statement *)
Named(s) ==
    {i \in 1..Len(dump) : /\ SegmentOf(i) = s /\ ~Header(i) /\ NamesEncoding(dump[i])
                          /\ \A j \in 1..i : SegmentOf(j) = s => ~Needs(j)}
Last(S) == CHOOSE i \in S : \A j \in S : j <= i
EncodingOf(s) == IF Named(s) = {} THEN Utf8 ELSE dump[Last(Named(s))].encoding

(* Psql is to be given the line. *)
Wanted(i) == ~Header(i) /\ ~Filtered(dump[i]) /\ Replayed(SegmentOf(i))

(* What psql was given is of the line's own database, made with its own    *)
(* encoding, and names it if the line does.                                *)
AsMeant(given) ==
    LET s == SegmentOf(given.line) IN
    /\ given.db = DbOf(s)
    /\ given.names <=> cluster /\ ~IsGlobals(s) /\ dump[given.line].kind = "dbref"
    /\ ~IsGlobals(s) => scratchDbs[given.db] = EncodingOf(s)

-----------------------------------------------------------------------------
(* Properties *)

(* "Data can never land in a different database", and "the scratch         *)
(* database can be created with the dump's encoding"                       *)
(* (postgres_verify.py:14-16, 379-380): at any moment psql was given       *)
(* exactly the lines of the segments that hold a statement, each once, in  *)
(* the dump's order and in its segment's own database, which has the       *)
(* segment's own encoding and whose name stands in every statement about   *)
(* it; prologues of empty databases go nowhere.                            *)
FedAsMeant ==
    /\ \A j, k \in 1..Len(fed) : j < k => fed[j].line < fed[k].line
    /\ {fed[k].line : k \in 1..Len(fed)} = {i \in 1..Len(dump) : Wanted(i)}
    /\ \A k \in 1..Len(fed) : AsMeant(fed[k])

(* "COPY data lines are never inspected" (postgres_verify.py:133,          *)
(* tests/test_postgres_verify.py:46): psql gets them all, and unchanged.   *)
DataIntact ==
    state # "aborted" =>
        \A i \in 1..Len(dump) : Data(i) =>
            \E k \in 1..Len(fed) : fed[k].line = i /\ ~fed[k].names

-----------------------------------------------------------------------------
(* What the code keeps from line to line, against what the lines mean *)

SplitInv == segment = SegmentOf(Len(dump)) /\ (inCopy <=> Data(Len(dump) + 1))

Held == {i \in 1..Len(dump) : SegmentOf(i) = segment /\ ~Header(i) /\ ~Filtered(dump[i])}

(* The runner of the current segment has psql once the segment needs it,   *)
(* and holds all its lines and the encoding they name until then.          *)
RunnerInv ==
    state = "feeding" =>
        /\ running <= segment
        /\ inCopy => running = segment
        /\ IF Replayed(segment) THEN Enter.proc = DbOf(segment)
           ELSE /\ Enter.proc = NoPsql /\ ~inCopy
                /\ {Enter.buffered[k] : k \in 1..Len(Enter.buffered)} = Held
                /\ \A j, k \in 1..Len(Enter.buffered) : j < k => Enter.buffered[j] < Enter.buffered[k]
                /\ ~IsGlobals(segment) => Enter.encoding = EncodingOf(segment)

(* The scratch databases are those of the segments so far.                 *)
ScratchInv ==
    /\ Len(scratchDbs) = Made(segment)
    /\ \A s \in 0..segment : Replayed(s) /\ ~IsGlobals(s) => scratchDbs[DbOf(s)] = EncodingOf(s)
    /\ \A s \in 0..segment : Named(s) # {} => \E i \in Named(s) : \A j \in Named(s) : j <= i

ReplayInv == ReplayTypeOK /\ SplitInv /\ RunnerInv /\ ScratchInv /\ FedAsMeant

===============================================================================
