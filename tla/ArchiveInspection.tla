--------------------------- MODULE ArchiveInspection ---------------------------
(***************************************************************************)
(* What inspect_archive finds of one file of a backup.  A file is what the *)
(* inspection can tell apart: how classify_archive names its container,    *)
(* the suffix inside of it, and what is the matter with its bytes.         *)
(***************************************************************************)

(* Files of other names are passed over.                                   *)
Kinds == {"tar", "zip", "compressed", "plain"}
Inner == {"sql", "rdb", "json", "other"}

(* empty: no member, no byte; unread: a password or its size keeps it from *)
(* being read; corrupt: what the checksums or the structure of the         *)
(* container find, a cut-off one too; truncated: what is inside lacks its  *)
(* end; foreign: it is not what the suffix says.                           *)
States == {"sound", "empty", "unread", "corrupt", "truncated", "foreign"}

File == {f \in [kind : Kinds, inner : Inner, state : States] :
            f.kind = "plain" => f.inner # "other"}

Json(f) == f.kind = "plain" /\ f.inner = "json"

(* Tar and zip files are read by their members, JSON is parsed.            *)
ByContent(f) == f.kind \in {"compressed", "plain"} /\ ~Json(f)

(* Every container but a plain file has checksums; a dump of pg_dump ends  *)
(* with a marker, an RDB file begins and ends with one.                    *)
Fails(f) ==
    \/ f.state = "corrupt" /\ f.kind # "plain"
    \/ f.state \in {"corrupt", "truncated", "foreign"} /\ Json(f)
    \/ ByContent(f) /\ f.state = "truncated" /\ f.inner \in {"sql", "rdb"}
    \/ ByContent(f) /\ f.state = "foreign" /\ f.inner = "rdb"

(* An empty archive or dump (an empty file is valid JSON to the code), and *)
(* a ZIP file with a password                                              *)
Warns(f) ==
    \/ f.state = "empty" /\ ~Json(f)
    \/ f.state = "unread" /\ f.kind = "zip"

(* _redis_check_rdb: passed too where redis-check-rdb is not installed, a  *)
(* warning if it could not run or the format is newer.                     *)
CheckRdb == {"passed", "warning", "failed"}

Inspected(f) ==
    CASE Fails(f) -> {"failed"}
      [] ~Fails(f) /\ Warns(f) -> {"warning"}
      [] OTHER -> IF ByContent(f) /\ f.inner = "rdb" THEN CheckRdb ELSE {"passed"}

(* A PostgreSQL dump that the last step is to restore                      *)
PostgresDump(f, result) ==
    result = "passed" /\ ByContent(f) /\ f.inner = "sql" /\ f.state # "foreign"

=============================================================================
