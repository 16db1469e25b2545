----------------------------- MODULE StoredSecrets -----------------------------
(***************************************************************************)
(* The secrets in profiles.json and restic_repositories.json: sealed with  *)
(* the key of the process that stores them, opened by the one that reads,  *)
(* merged with what a request names, and never sent back to a browser.     *)
(*                                                                         *)
(* Each storage call runs under a flock of its file and replaces it        *)
(* atomically: one step.  A handler reads and stores in two of them, other *)
(* requests in between.  The dashboard and the cron container each take    *)
(* the key from their own environment, which a new deployment may change;  *)
(* whoever opens a file for the first time seals what it finds in the      *)
(* clear, written by a version that did not seal.                          *)
(*                                                                         *)
(* Only strings are sealed; validation asks of a secret that it is not     *)
(* empty, null, zero or false, not that it is a string.                    *)
(*                                                                         *)
(* A record is its type and its secrets.  The type mongodb has the rules   *)
(* of redis, and minio those of s3; the authentication method of ssh_files *)
(* is part of its type; aws_access_key_id goes the way of the secret key.  *)
(***************************************************************************)
EXTENDS Naturals

CONSTANTS
    Requests,      \* threads of the dashboard
    Profiles,      \* profile ids (uuids: never used twice)
    Repositories,  \* repository ids, likewise
    Default,       \* the repository "default"
    Types,         \* the types in use
    Values,        \* strings, not empty, that users enter as secrets
    NonStrings,    \* numbers and other JSON that is true and no string
    Entered,       \* which texts there are of each field
    Keys,          \* values of PROFILE_SECRET_KEY
    MaxRedeploys,  \* bound on deployments that may change a key
    Absent,        \* a field that is not there
    Blank,         \* the empty string
    Null,          \* JSON's null, and what else is false and no string
    None           \* no record / no key / no type

SshTypes == {"ssh_files", "ssh_files by password"}
ProfileTypes == {"postgresql", "redis"} \cup SshTypes
RepositoryTypes == {"local", "s3"}

ASSUME TypesAssumption ==
    Types \subseteq ProfileTypes \cup RepositoryTypes /\ "local" \in Types
ASSUME IdsAssumption ==
    Default \in Repositories /\ Profiles \cap Repositories = {} /\ None \notin Profiles \cup Repositories
ASSUME TextsAssumption ==
    /\ {Absent, Blank, Null} \cap (Values \cup NonStrings) = {}
    /\ Values \cap NonStrings = {}
    /\ Absent # Blank /\ Absent # Null /\ Blank # Null
ASSUME RedeploysAssumption == MaxRedeploys \in Nat

VARIABLES
    store,      \* the records of both files
    used,       \* ids given to records so far
    opened,     \* the files that this version has opened
    key,        \* the key of each container
    req,        \* the update each thread has in hand
    redeploys   \* deployments so far

vars == <<store, used, opened, key, req, redeploys>>

Containers == {"dashboard", "cron"}
Files == {"profiles", "repositories"}
Ids == Profiles \cup Repositories
FileOf(i) == IF i \in Profiles THEN "profiles" ELSE "repositories"

ProfileFields == {"password", "ssh_password"}
RepositoryFields == {"password", "aws_secret_access_key"}
Fields == ProfileFields \cup RepositoryFields
FieldsOf(i) == IF i \in Profiles THEN ProfileFields ELSE RepositoryFields

(* A value of a field is a text, and the key it is sealed with. *)
Texts == Values \cup NonStrings \cup {Absent, Blank, Null}
Entries(F) == {x \in [F -> Texts] : \A f \in F : x[f] \in Entered[f]}
Value == [text : Texts, seal : Keys \cup {None}]
Clear(t) == [text |-> t, seal |-> None]
Secrets == [Fields -> Value]
Plain == {s \in Secrets : \A f \in Fields : s[f].seal = None}
Record == [type : Types, secret : Secrets]

ASSUME EnteredAssumption == Entered \in [Fields -> SUBSET Texts]
ASSUME NoneAssumption == None \notin Types \cup Keys /\ None \notin Record

(* A request names a type or not, and of each secret a text or nothing. *)
Named == [type : Types \cup {None}, text : [Fields -> Texts]]

(* What validation accepts as a secret, and which of it is a string.       *)
Given(v) == v.text \in Values \cup NonStrings
GivenString(v) == v.text \in Values

-----------------------------------------------------------------------------
(* encrypt_value, decrypt_value: what has a seal is not sealed again, what *)
(* is no string is left as it is, and what cannot be opened is the empty   *)
(* string.                                                                 *)
Encrypt(k, v) == IF GivenString(v) /\ v.seal = None THEN [v EXCEPT !.seal = k] ELSE v

Decrypt(k, v) == IF v.seal = None THEN v
                 ELSE IF v.seal = k THEN Clear(v.text) ELSE Clear(Blank)

Encrypted(k, rec) == [rec EXCEPT !.secret = [f \in Fields |-> Encrypt(k, rec.secret[f])]]
Decrypted(k, rec) == [rec EXCEPT !.secret = [f \in Fields |-> Decrypt(k, rec.secret[f])]]

InTheClear(v) == GivenString(v) /\ v.seal = None

(* Faulty: only the password is looked at. *)
HoldsClear_PasswordOnly(rec) == InTheClear(rec.secret["password"])

(* contains_unencrypted_secret *)
HoldsClear(rec) == \E f \in Fields : InTheClear(rec.secret[f])

(* validate_profile and validate_repository, as far as secrets go: which   *)
(* fields a type may have, and which it must.                              *)
Allowed(t) ==
    CASE t \in {"postgresql", "redis"} -> {"password"}
      [] t \in SshTypes -> {"ssh_password"}
      [] OTHER -> RepositoryFields

Required(t) ==
    CASE t \in {"postgresql", "local"} -> {"password"}
      [] t = "ssh_files by password" -> {"ssh_password"}
      [] t = "s3" -> RepositoryFields
      [] OTHER -> {}

TypesOf(i) == IF i \in Profiles THEN ProfileTypes ELSE RepositoryTypes

Valid(i, rec) ==
    /\ rec.type \in TypesOf(i)
    /\ \A f \in Fields : rec.secret[f].text # Absent => f \in Allowed(rec.type)
    /\ \A f \in Required(rec.type) : Given(rec.secret[f])

-----------------------------------------------------------------------------
Idle == [id |-> None, named |-> None, merged |-> None]

Request == {Idle} \cup [id : Ids, named : Named, merged : [type : Types, secret : Plain]]

TypeOK ==
    /\ store \in [Ids -> Record \cup {None}]
    /\ used \in SUBSET Ids
    /\ \A i \in Ids : store[i] # None => i \in used
    /\ opened \in SUBSET Files
    /\ store[Default] = None =>
          "repositories" \notin opened /\ \A i \in Repositories : store[i] = None
    /\ key \in [Containers -> Keys]
    /\ req \in [Requests -> Request]
    /\ \A r \in Requests : req[r] # Idle => FileOf(req[r].id) \in opened
    /\ redeploys \in 0..MaxRedeploys

NoSecrets == [f \in Fields |-> Clear(Absent)]

(* What an earlier version may have left: in the clear, sealed with the    *)
(* key k, or partly so.                                                    *)
Found(k) == {v \in Value : v.seal = None \/ (v.seal = k /\ GivenString(v))}

Left(i, k) ==
    {rec \in [type : Types, secret : [Fields -> Found(k)]] :
        Valid(i, rec) /\ \A f \in Fields : rec.secret[f].text \in Entered[f]}

Init ==
    /\ \E k \in Keys :
          /\ key = [c \in Containers |-> k]
          /\ store \in [Ids -> {None} \cup UNION {Left(i, k) : i \in Ids}]
          /\ \A i \in Ids : store[i] # None => store[i] \in Left(i, k)
    /\ (\E i \in Repositories : store[i] # None) => store[Default] # None
    /\ used = {i \in Ids : store[i] # None}
    /\ opened = {}
    /\ req = [r \in Requests |-> Idle]
    /\ redeploys = 0

-----------------------------------------------------------------------------
(* A process creates its ProfileStorage or ResticRepositoryStorage: a      *)
(* missing file is made, with the default repository in it, and what is in *)
(* the clear is sealed.                                                    *)
Migrated(k, rec) == IF HoldsClear(rec) THEN Encrypted(k, rec) ELSE rec

DefaultRepository(k) ==
    {Encrypted(k, [type |-> "local", secret |-> [NoSecrets EXCEPT !["password"] = Clear(t)]]) :
        t \in Values \cup {Blank}}

Open(c, file) ==
    /\ opened' = opened \cup {file}
    /\ IF file = "repositories" /\ store[Default] = None
       THEN /\ \E rec \in DefaultRepository(key[c]) : store' = [store EXCEPT ![Default] = rec]
            /\ used' = used \cup {Default}
       ELSE /\ store' = [i \in Ids |-> IF FileOf(i) = file /\ store[i] # None
                                       THEN Migrated(key[c], store[i]) ELSE store[i]]
            /\ used' = used
    /\ UNCHANGED <<key, req, redeploys>>

(* create_profile, create_restic_repository: what is valid is sealed and   *)
(* stored under a new id.                                                  *)
Create(r) ==
    /\ req[r] = Idle
    /\ \E i \in Ids \ (used \cup {Default}), t \in Types, x \in Entries(Fields) :
          LET rec == [type |-> t, secret |-> [f \in Fields |-> Clear(x[f])]] IN
          /\ FileOf(i) \in opened
          /\ Valid(i, rec)
          /\ store' = [store EXCEPT ![i] = Encrypted(key["dashboard"], rec)]
          /\ used' = used \cup {i}
    /\ UNCHANGED <<opened, key, req, redeploys>>

(* Faulty: a secret left blank is taken as it is given. *)
Kept_AbsentOnly(old, new) == new = Absent

(* What update_profile and update_restic_repository make of a record and a *)
(* request: a secret left blank is not named if the record has one.        *)
Kept(old, new) == new = Absent \/ (new = Blank /\ Given(old))

Merged(old, named) ==
    [type |-> IF named.type = None THEN old.type ELSE named.type,
     secret |-> [f \in Fields |-> IF Kept(old.secret[f], named.text[f]) THEN old.secret[f]
                                  ELSE Clear(named.text[f])]]

(* A database's profile has a host, which one of ssh_files must not have.  *)
Becomes(old, new) == new = None \/ (old \in SshTypes <=> new \in SshTypes)

StartUpdate(r) ==
    /\ req[r] = Idle
    /\ \E i \in Ids, t \in Types \cup {None} :
          /\ FileOf(i) \in opened
          /\ store[i] # None
          /\ Becomes(store[i].type, t)
          /\ \E x \in Entries(FieldsOf(i)) :
                LET named == [type |-> t, text |-> [f \in Fields |-> IF f \in FieldsOf(i) THEN x[f]
                                                                    ELSE Absent]]
                    merged == Merged(Decrypted(key["dashboard"], store[i]), named)
                IN /\ Valid(i, merged)
                   /\ req' = [req EXCEPT ![r] = [id |-> i, named |-> named, merged |-> merged]]
    /\ UNCHANGED <<store, used, opened, key, redeploys>>

(* ProfileStorage.update, ResticRepositoryStorage.update: the record as it *)
(* is now, unsealed, overwritten by every field given, and sealed again.   *)
Overwritten(k, rec, by) ==
    Encrypted(k, [type |-> by.type,
                  secret |-> [f \in Fields |-> IF by.secret[f].text = Absent
                                               THEN Decrypt(k, rec.secret[f])
                                               ELSE by.secret[f]]])

(* Faulty: only the fields that the request named are stored. *)
Update_NamedOnly(r) ==
    /\ req[r] # Idle
    /\ LET i == req[r].id
           named == req[r].named
       IN store' = IF store[i] = None THEN store
                   ELSE [store EXCEPT ![i] =
                            Encrypted(key["dashboard"],
                                      Merged(Decrypted(key["dashboard"], @), named))]
    /\ req' = [req EXCEPT ![r] = Idle]
    /\ UNCHANGED <<used, opened, key, redeploys>>

Update(r) ==
    /\ req[r] # Idle
    /\ LET i == req[r].id IN
       store' = IF store[i] = None THEN store
                ELSE [store EXCEPT ![i] = Overwritten(key["dashboard"], @, req[r].merged)]
    /\ req' = [req EXCEPT ![r] = Idle]
    /\ UNCHANGED <<used, opened, key, redeploys>>

(* update_profile_schedule names no secret, and validates nothing: the     *)
(* profile is unsealed and sealed again.                                   *)
Reschedule(r) ==
    /\ req[r] = Idle
    /\ "profiles" \in opened
    /\ \E i \in Profiles :
          /\ store[i] # None
          /\ store' = [store EXCEPT ![i] =
                          Encrypted(key["dashboard"], Decrypted(key["dashboard"], @))]
    /\ UNCHANGED <<used, opened, key, req, redeploys>>

Delete(r) ==
    /\ req[r] = Idle
    /\ \E i \in Ids \ {Default} :
          /\ FileOf(i) \in opened
          /\ store[i] # None
          /\ store' = [store EXCEPT ![i] = None]
    /\ UNCHANGED <<used, opened, key, req, redeploys>>

(* The SSH check of an update fails, a call raises, or the worker dies.    *)
Abort(r) ==
    /\ req[r] # Idle
    /\ req' = [req EXCEPT ![r] = Idle]
    /\ UNCHANGED <<store, used, opened, key, redeploys>>

(* A container starts with another environment; requests end with the old. *)
Redeploy(c) ==
    /\ redeploys < MaxRedeploys
    /\ redeploys' = redeploys + 1
    /\ \E k \in Keys : key' = [key EXCEPT ![c] = k]
    /\ req' = IF c = "dashboard" THEN [r \in Requests |-> Idle] ELSE req
    /\ UNCHANGED <<store, used, opened>>

Next ==
    \/ \E c \in Containers : Redeploy(c) \/ \E file \in Files : Open(c, file)
    \/ \E r \in Requests :
          Create(r) \/ StartUpdate(r) \/ Update(r) \/ Reschedule(r) \/ Delete(r) \/ Abort(r)

Spec == Init /\ [][Next]_vars

-----------------------------------------------------------------------------
(* Properties *)

(* Once this version has opened a file, every secret string in it is       *)
(* sealed, once, and is one that a user gave, whatever was edited,         *)
(* migrated and deployed since; what is no string is left in the clear.    *)
Sealed ==
    \A i \in Ids : store[i] # None /\ FileOf(i) \in opened =>
        \A f \in Fields :
            /\ GivenString(store[i].secret[f]) <=> store[i].secret[f].seal # None
            /\ f \notin FieldsOf(i) => store[i].secret[f].text = Absent

(* "fields password and ssh_password are stored encrypted" and so are      *)
(* those of repositories (docs/API.md:119-121).  Not so: a password that   *)
(* is a number passes validation and is stored as it is.                   *)
EverySecretSealed ==
    \A i \in Ids, f \in Fields :
        store[i] # None /\ FileOf(i) \in opened /\ Given(store[i].secret[f]) =>
            store[i].secret[f].seal # None

(* "Validate the merged profile" (app.py:617): while the keys stay the     *)
(* same, no interleaving of updates, each validated against what its       *)
(* request had read, stores a record that lacks a secret its type needs or *)
(* has one its type must not have.  The default repository may lack the    *)
(* password that the environment did not give.                             *)
StillValid ==
    redeploys = 0 =>
        \A i \in Ids \ {Default} : store[i] # None => Valid(i, store[i])

Readable(k, rec) == \A f \in Fields : rec.secret[f].seal \in {None, k}

(* The inductive invariant.  What is stored has a seal on strings only,    *)
(* and only fields of its file ...                                         *)
WellFormed(i, rec) ==
    /\ rec.type \in TypesOf(i)
    /\ \A f \in Fields :
          /\ rec.secret[f].seal # None => GivenString(rec.secret[f])
          /\ f \notin FieldsOf(i) => rec.secret[f].text = Absent

StoreInv == \A i \in Ids : store[i] # None => WellFormed(i, store[i])

(* ... an update holds a valid merge, for a record of the family it still  *)
(* has ...                                                                 *)
HandInv ==
    \A r \in Requests : req[r] # Idle =>
        LET q == req[r] IN
        /\ q.id \in used
        /\ Valid(q.id, q.merged)
        /\ store[q.id] # None => Becomes(store[q.id].type, q.merged.type)

(* ... and without a deployment there is one key.                          *)
OneKey ==
    redeploys = 0 =>
        /\ key["cron"] = key["dashboard"]
        /\ \A i \in Ids : store[i] # None => Readable(key["dashboard"], store[i])

Inv == TypeOK /\ StoreInv /\ Sealed /\ HandInv /\ OneKey /\ StillValid

(* "If the user entered no new value, the previous value is kept.  To      *)
(* change the password send the new value" (docs/API.md:1014, 514): of an  *)
(* update of a record that the dashboard can read and nobody else changed  *)
(* meanwhile, so that it holds the merge of what is stored.                *)
Undisturbed(q) == q.merged = Merged(Decrypted(key["dashboard"], store[q.id]), q.named)

BlankKeeps ==
    [][\A r \in Requests :
          (/\ req[r] # Idle /\ req'[r] = Idle /\ store' # store
           /\ store[req[r].id] # None /\ Readable(key["dashboard"], store[req[r].id])
           /\ Undisturbed(req[r]))
             => \A f \in Fields :
                   LET old == store[req[r].id].secret[f]
                       new == store'[req[r].id].secret[f]
                       named == req[r].named.text[f]
                   IN /\ named \in {Absent, Blank} /\ Given(old) => new.text = old.text
                      /\ named \in Values \cup NonStrings \cup {Null} => new.text = named]_vars

(* "changing PROFILE_SECRET_KEY makes stored profile credentials           *)
(* unreadable" (docs/SETUP.md:16), but does not lose them: only a request  *)
(* that names a secret, or deletes the record, takes it away.              *)
SecretsOutliveKeys ==
    [][\A i \in Ids, f \in Fields :
          (/\ store[i] # None /\ Given(store[i].secret[f])
           /\ store'[i] # None /\ ~Given(store'[i].secret[f]))
             => \E r \in Requests :
                   req[r] # Idle /\ req[r].id = i /\ req[r].named.text[f] \in Values \cup NonStrings \cup {Null}]_vars

=============================================================================
