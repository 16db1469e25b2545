------------------------- MODULE StoredSecrets_proofs -------------------------
(***************************************************************************)
(* Proofs about StoredSecrets, for any number of records, requests, keys   *)
(* and deployments: what the storage calls do to one record comes first,   *)
(* then the inductive invariant action by action.                          *)
(***************************************************************************)
EXTENDS StoredSecrets, TLAPS

USE DEF Given, GivenString

(* The seal that encrypt_value puts on a value. *)
LEMMA EncryptValue ==
    ASSUME NEW k \in Keys, NEW v \in Value
    PROVE  /\ Encrypt(k, v) \in Value
           /\ Encrypt(k, v).text = v.text
           /\ Encrypt(k, v).seal = IF GivenString(v) /\ v.seal = None THEN k ELSE v.seal
  BY DEF Encrypt, Value

(* What decrypt_value opens, and what it leaves of what it cannot open. *)
LEMMA DecryptValue ==
    ASSUME NEW k \in Keys, NEW v \in Value
    PROVE  /\ Decrypt(k, v) \in Value
           /\ Decrypt(k, v).seal = None
           /\ Decrypt(k, v).text = IF v.seal \in {None, k} THEN v.text ELSE Blank
  BY DEF Decrypt, Value, Clear, Texts

(* A record with its values replaced one by one. *)
LEMMA EncryptedRecord ==
    ASSUME NEW k \in Keys, NEW rec \in Record
    PROVE  /\ Encrypted(k, rec) \in Record
           /\ Encrypted(k, rec).type = rec.type
           /\ \A f \in Fields : Encrypted(k, rec).secret[f] = Encrypt(k, rec.secret[f])
<1>1. \A f \in Fields : Encrypt(k, rec.secret[f]) \in Value
  BY EncryptValue DEF Record, Secrets
<1>2. Encrypted(k, rec) = [type |-> rec.type, secret |-> [f \in Fields |-> Encrypt(k, rec.secret[f])]]
  BY DEF Encrypted, Record
<1>3. QED
  BY <1>1, <1>2 DEF Record, Secrets

LEMMA DecryptedRecord ==
    ASSUME NEW k \in Keys, NEW rec \in Record
    PROVE  /\ Decrypted(k, rec) \in Record
           /\ Decrypted(k, rec).type = rec.type
           /\ Decrypted(k, rec).secret \in Plain
           /\ \A f \in Fields : Decrypted(k, rec).secret[f] = Decrypt(k, rec.secret[f])
<1>1. \A f \in Fields : Decrypt(k, rec.secret[f]) \in Value /\ Decrypt(k, rec.secret[f]).seal = None
  BY DecryptValue DEF Record, Secrets
<1>2. Decrypted(k, rec) = [type |-> rec.type, secret |-> [f \in Fields |-> Decrypt(k, rec.secret[f])]]
  BY DEF Decrypted, Record
<1>3. QED
  BY <1>1, <1>2 DEF Record, Secrets, Plain

(* The fields a type may have are those of its file. *)
LEMMA AllowedFields ==
    ASSUME NEW i \in Ids, NEW t \in TypesOf(i)
    PROVE  Allowed(t) \subseteq FieldsOf(i) /\ Required(t) \subseteq Allowed(t)
  BY DEF TypesOf, Allowed, Required, FieldsOf, ProfileTypes, SshTypes, RepositoryTypes,
         ProfileFields, RepositoryFields

(* What the browser sends: a valid record in the clear is well-formed. *)
LEMMA ValidWellFormed ==
    ASSUME NEW i \in Ids, NEW rec, Valid(i, rec), \A f \in Fields : rec.secret[f].seal = None
    PROVE  WellFormed(i, rec)
  BY AllowedFields DEF Valid, WellFormed

-----------------------------------------------------------------------------
(* One record, sealed: it stays well-formed and valid, and every secret    *)
(* string in it has a seal.                                                *)
SealedRecord(rec) == \A f \in Fields : GivenString(rec.secret[f]) <=> rec.secret[f].seal # None

LEMMA EncryptedSound ==
    ASSUME NEW k \in Keys, NEW rec \in Record, NEW i \in Ids, WellFormed(i, rec)
    PROVE  /\ WellFormed(i, Encrypted(k, rec))
           /\ SealedRecord(Encrypted(k, rec))
           /\ Valid(i, rec) => Valid(i, Encrypted(k, rec))
           /\ Readable(k, rec) => Readable(k, Encrypted(k, rec))
<1>1. \A f \in Fields :
        LET v == Encrypted(k, rec).secret[f] IN
        /\ v.text = rec.secret[f].text
        /\ v.seal = IF GivenString(rec.secret[f]) /\ rec.secret[f].seal = None THEN k ELSE rec.secret[f].seal
  BY EncryptedRecord, EncryptValue DEF Record, Secrets
<1>2. Encrypted(k, rec).type = rec.type
  BY EncryptedRecord
<1>3. k # None
  BY NoneAssumption
<1>4. WellFormed(i, Encrypted(k, rec))
  BY <1>1, <1>2, <1>3 DEF WellFormed
<1>5. SealedRecord(Encrypted(k, rec))
  BY <1>1, <1>3 DEF SealedRecord, WellFormed
<1>6. ASSUME Valid(i, rec) PROVE Valid(i, Encrypted(k, rec))
  <2>1. \A f \in Fields : Encrypted(k, rec).secret[f].text # Absent => f \in Allowed(rec.type)
    BY <1>1, <1>6 DEF Valid
  <2>2. Required(rec.type) \subseteq Fields
    BY <1>6, AllowedFields DEF Valid, FieldsOf, Fields
  <2>3. \A f \in Required(rec.type) : Given(Encrypted(k, rec).secret[f])
    BY <1>1, <1>6, <2>2 DEF Valid
  <2>4. QED
    BY <1>2, <1>6, <2>1, <2>3 DEF Valid
<1>7. Readable(k, rec) => Readable(k, Encrypted(k, rec))
  BY <1>1 DEF Readable
<1>8. QED
  BY <1>4, <1>5, <1>6, <1>7

(* One record, opened: nothing but the secrets of another key is lost. *)
LEMMA DecryptedSound ==
    ASSUME NEW k \in Keys, NEW rec \in Record, NEW i \in Ids, WellFormed(i, rec)
    PROVE  /\ WellFormed(i, Decrypted(k, rec))
           /\ Readable(k, Decrypted(k, rec))
           /\ Readable(k, rec) => \A f \in Fields : Decrypted(k, rec).secret[f].text = rec.secret[f].text
           /\ Readable(k, rec) /\ Valid(i, rec) => Valid(i, Decrypted(k, rec))
<1>1. \A f \in Fields :
        LET v == Decrypted(k, rec).secret[f] IN
        /\ v.seal = None
        /\ v.text = IF rec.secret[f].seal \in {None, k} THEN rec.secret[f].text ELSE Blank
  BY DecryptedRecord, DecryptValue DEF Record, Secrets
<1>2. Decrypted(k, rec).type = rec.type
  BY DecryptedRecord
<1>3. \A f \in Fields \ FieldsOf(i) : rec.secret[f].text = Absent /\ rec.secret[f].seal = None
  BY TextsAssumption DEF WellFormed
<1>4. WellFormed(i, Decrypted(k, rec))
  BY <1>1, <1>2, <1>3 DEF WellFormed
<1>5. ASSUME Readable(k, rec) PROVE \A f \in Fields : Decrypted(k, rec).secret[f].text = rec.secret[f].text
  BY <1>1, <1>5 DEF Readable
<1>6. ASSUME Readable(k, rec), Valid(i, rec) PROVE Valid(i, Decrypted(k, rec))
  <2>1. Required(rec.type) \subseteq Fields
    BY <1>6, AllowedFields DEF Valid, FieldsOf, Fields
  <2>2. \A f \in Required(rec.type) : Given(Decrypted(k, rec).secret[f])
    BY <1>5, <1>6, <2>1 DEF Valid
  <2>3. QED
    BY <1>2, <1>5, <1>6, <2>2 DEF Valid
<1>7. QED
  BY <1>1, <1>4, <1>5, <1>6 DEF Readable

(* What migration makes of one record. *)
LEMMA MigratedSound ==
    ASSUME NEW k \in Keys, NEW rec \in Record, NEW i \in Ids, WellFormed(i, rec)
    PROVE  /\ Migrated(k, rec) \in Record
           /\ Migrated(k, rec).type = rec.type
           /\ WellFormed(i, Migrated(k, rec))
           /\ SealedRecord(Migrated(k, rec))
           /\ Valid(i, rec) => Valid(i, Migrated(k, rec))
           /\ Readable(k, rec) => Readable(k, Migrated(k, rec))
<1>1. CASE HoldsClear(rec)
  BY <1>1, EncryptedRecord, EncryptedSound DEF Migrated
<1>2. CASE ~HoldsClear(rec)
  BY <1>2 DEF Migrated, HoldsClear, InTheClear, SealedRecord, WellFormed
<1>3. QED
  BY <1>1, <1>2

(* The merge of an update with the record as it was read. *)
LEMMA MergedRecord ==
    ASSUME NEW rec \in Record, rec.secret \in Plain, NEW named \in Named
    PROVE  Merged(rec, named) \in [type : Types, secret : Plain]
<1>1. \A f \in Fields : (IF Kept(rec.secret[f], named.text[f]) THEN rec.secret[f]
                         ELSE Clear(named.text[f])) \in Value
  BY DEF Record, Secrets, Named, Clear, Value
<1>2. \A f \in Fields : (IF Kept(rec.secret[f], named.text[f]) THEN rec.secret[f]
                         ELSE Clear(named.text[f])).seal = None
  BY DEF Plain, Clear
<1>3. (IF named.type = None THEN rec.type ELSE named.type) \in Types
  BY DEF Record, Named
<1>4. QED
  BY <1>1, <1>2, <1>3 DEF Merged, Plain, Secrets

(* A valid merge over a record of its family, whoever changed that record  *)
(* since: a valid record, well-formed and sealed.                          *)
LEMMA OverwrittenSound ==
    ASSUME NEW k \in Keys, NEW i \in Ids, NEW rec \in Record, WellFormed(i, rec),
           NEW by \in [type : Types, secret : Plain], Valid(i, by)
    PROVE  /\ Overwritten(k, rec, by) \in Record
           /\ Overwritten(k, rec, by).type = by.type
           /\ WellFormed(i, Overwritten(k, rec, by))
           /\ SealedRecord(Overwritten(k, rec, by))
           /\ Readable(k, Overwritten(k, rec, by))
           /\ Valid(i, rec) /\ Becomes(rec.type, by.type) => Valid(i, Overwritten(k, rec, by))
<1> DEFINE now == [type |-> by.type,
                   secret |-> [f \in Fields |-> IF by.secret[f].text = Absent
                                                THEN Decrypt(k, rec.secret[f])
                                                ELSE by.secret[f]]]
<1>1. \A f \in Fields :
        /\ now.secret[f] \in Value
        /\ now.secret[f].seal = None
        /\ by.secret[f].text # Absent => now.secret[f].text = by.secret[f].text
        /\ by.secret[f].text = Absent =>
              now.secret[f].text = IF rec.secret[f].seal \in {None, k} THEN rec.secret[f].text ELSE Blank
  BY DecryptValue DEF Record, Secrets, Plain
<1>2. now \in Record /\ now.type = by.type
  BY <1>1 DEF Record, Secrets
<1>3. \A f \in Fields \ FieldsOf(i) : by.secret[f].text = Absent
  BY AllowedFields DEF Valid
<1>4. \A f \in Fields \ FieldsOf(i) : rec.secret[f].text = Absent /\ rec.secret[f].seal = None
  BY TextsAssumption DEF WellFormed
<1>5. WellFormed(i, now)
  BY <1>1, <1>2, <1>3, <1>4 DEF WellFormed, Valid
<1>6. Readable(k, now)
  BY <1>1 DEF Readable
<1>7. ASSUME Valid(i, rec), Becomes(rec.type, by.type) PROVE Valid(i, now)
  <2>1. Required(by.type) \subseteq Fields
    BY AllowedFields DEF Valid, FieldsOf, Fields
  <2>2. \A f \in Required(by.type) : Given(now.secret[f])
    BY <1>1, <2>1, TextsAssumption DEF Valid
  <2>3. by.type # None
    BY NoneAssumption
  <2>4. Allowed(rec.type) = Allowed(by.type)
    BY <1>7, <2>3 DEF Valid, Becomes, Allowed, TypesOf, ProfileTypes, SshTypes, RepositoryTypes
  <2>5. \A f \in Fields : rec.secret[f].seal # None => rec.secret[f].text # Absent
    BY TextsAssumption DEF WellFormed
  <2>6. \A f \in Fields : now.secret[f].text # Absent => f \in Allowed(by.type)
    BY <1>1, <1>7, <2>4, <2>5 DEF Valid
  <2>7. QED
    BY <1>2, <2>2, <2>6 DEF Valid
<1>8. Overwritten(k, rec, by) = Encrypted(k, now)
  BY DEF Overwritten
<1> HIDE DEF now
<1>9. QED
  BY <1>2, <1>5, <1>6, <1>7, <1>8, EncryptedRecord, EncryptedSound

-----------------------------------------------------------------------------
(* The inductive invariant *)

(* One record is stored, and nothing else changes but the ids in use and   *)
(* what one thread has in hand.                                            *)
Stores(i, rec) ==
    /\ store' = [store EXCEPT ![i] = rec]
    /\ UNCHANGED <<opened, key, redeploys>>

(* The parts of the invariant about what is stored follow from what was    *)
(* shown above of the one record.                                          *)
LEMMA StoresOne ==
    ASSUME Inv, NEW i \in Ids, FileOf(i) \in opened, NEW rec \in Record, Stores(i, rec),
           WellFormed(i, rec), SealedRecord(rec),
           redeploys = 0 => Readable(key["dashboard"], rec),
           redeploys = 0 /\ i # Default => Valid(i, rec)
    PROVE  /\ store' \in [Ids -> Record \cup {None}]
           /\ store'[i] = rec
           /\ \A j \in Ids \ {i} : store'[j] = store[j]
           /\ StoreInv' /\ Sealed' /\ OneKey' /\ StillValid'
<1>1. store' \in [Ids -> Record \cup {None}] /\ store'[i] = rec
  BY DEF Inv, TypeOK, Stores
<1>2. \A j \in Ids \ {i} : store'[j] = store[j]
  BY DEF Inv, TypeOK, Stores
<1>3. \A j \in Ids : store'[j] # None => WellFormed(j, store'[j])
  BY <1>1, <1>2 DEF Inv, StoreInv
<1>4. StoreInv'
  BY <1>3 DEF StoreInv, WellFormed
<1>5. Sealed'
  BY <1>1, <1>2, <1>3 DEF Inv, Sealed, SealedRecord, WellFormed, Stores
<1>6. OneKey'
  BY <1>1, <1>2 DEF Inv, OneKey, Readable, Stores
<1>7. StillValid'
  BY <1>1, <1>2 DEF Inv, StillValid, Valid, Stores
<1>8. QED
  BY <1>1, <1>2, <1>4, <1>5, <1>6, <1>7

(* What the threads have in hand stays sound when a record is stored whose *)
(* family is that of the record before, if there was one.                  *)
LEMMA HandKept ==
    ASSUME Inv, NEW i \in Ids, store' \in [Ids -> Record \cup {None}],
           \A j \in Ids \ {i} : store'[j] = store[j],
           \/ i \notin used
           \/ store'[i] = None
           \/ store[i] # None /\ Becomes(store[i].type, store'[i].type),
           used \subseteq used', UNCHANGED key,
           \A r \in Requests : req'[r] \in {req[r], Idle}
    PROVE  HandInv'
<1> SUFFICES ASSUME NEW r \in Requests, req'[r] # Idle
             PROVE  LET q == req'[r] IN
                    /\ q.id \in used'
                    /\ Valid(q.id, q.merged)
                    /\ store'[q.id] # None => Becomes(store'[q.id].type, q.merged.type)
  BY DEF HandInv
<1> DEFINE q == req[r]
<1>1. req'[r] = q /\ q # Idle
  OBVIOUS
<1>2. /\ q.id \in used
      /\ Valid(q.id, q.merged)
      /\ store[q.id] # None => Becomes(store[q.id].type, q.merged.type)
  BY <1>1 DEF Inv, HandInv
<1>3. q.id \in Ids /\ q.merged.type \in Types
  BY <1>1 DEF Inv, TypeOK, Request
<1>4. ASSUME store'[q.id] # None PROVE Becomes(store'[q.id].type, q.merged.type)
  <2>1. CASE q.id # i
    BY <1>2, <1>3, <1>4, <2>1
  <2>2. CASE q.id = i
    <3>1. store[i] # None /\ Becomes(store[i].type, store'[i].type) /\ store'[i].type \in Types
      BY <1>2, <1>3, <1>4, <2>2 DEF Record
    <3>2. store'[i].type # None /\ q.merged.type # None
      BY <1>3, <3>1, NoneAssumption
    <3>3. QED
      BY <1>2, <2>2, <3>1, <3>2 DEF Becomes
  <2>3. QED
    BY <2>1, <2>2
<1>5. QED
  BY <1>1, <1>2, <1>4

LEMMA InitSound ==
    ASSUME Init
    PROVE  Inv
<1>1. PICK k \in Keys :
        /\ key = [c \in Containers |-> k]
        /\ store \in [Ids -> {None} \cup UNION {Left(i, k) : i \in Ids}]
        /\ \A i \in Ids : store[i] # None => store[i] \in Left(i, k)
  BY DEF Init
<1>2. \A i \in Ids : store[i] # None =>
        /\ store[i] \in Record
        /\ WellFormed(i, store[i]) /\ Valid(i, store[i]) /\ Readable(k, store[i])
  <2> SUFFICES ASSUME NEW i \in Ids, store[i] # None
               PROVE  /\ store[i] \in Record
                      /\ WellFormed(i, store[i]) /\ Valid(i, store[i]) /\ Readable(k, store[i])
    OBVIOUS
  <2>1. store[i] \in [type : Types, secret : [Fields -> Found(k)]] /\ Valid(i, store[i])
    BY <1>1 DEF Left
  <2>2. Found(k) \subseteq Value
    BY DEF Found
  <2>3. store[i] \in Record /\ Readable(k, store[i])
    BY <2>1, <2>2 DEF Record, Secrets, Readable, Found
  <2>4. WellFormed(i, store[i])
    BY <2>1, AllowedFields DEF WellFormed, Valid, Found
  <2>5. QED
    BY <2>1, <2>3, <2>4
<1>3. store \in [Ids -> Record \cup {None}]
  BY <1>1, <1>2
<1>4. key \in [Containers -> Keys] /\ key["dashboard"] = k /\ key["cron"] = k
  BY <1>1 DEF Containers
<1>5. /\ used = {i \in Ids : store[i] # None} /\ opened = {}
      /\ req = [r \in Requests |-> Idle] /\ redeploys = 0
  BY DEF Init
<1>6. store[Default] = None => \A i \in Repositories : store[i] = None
  BY DEF Init
<1>7. TypeOK
  BY <1>3, <1>4, <1>5, <1>6, RedeploysAssumption DEF TypeOK, Request
<1>8. StoreInv /\ Sealed /\ HandInv /\ OneKey /\ StillValid
  BY <1>2, <1>4, <1>5 DEF StoreInv, Sealed, HandInv, OneKey, StillValid
<1>9. QED
  BY <1>7, <1>8 DEF Inv

(* The containers' keys are keys. *)
LEMMA DashboardKey ==
    ASSUME Inv
    PROVE  \A c \in Containers : key[c] \in Keys
  BY DEF Inv, TypeOK

LEMMA CreateStep ==
    ASSUME Inv, NEW r \in Requests, Create(r)
    PROVE  Inv'
<1>1. PICK i \in Ids \ (used \cup {Default}), t \in Types, x \in [Fields -> Texts] :
        LET rec == [type |-> t, secret |-> [f \in Fields |-> Clear(x[f])]] IN
        /\ FileOf(i) \in opened
        /\ Valid(i, rec)
        /\ store' = [store EXCEPT ![i] = Encrypted(key["dashboard"], rec)]
        /\ used' = used \cup {i}
  BY DEF Create, Entries
<1> DEFINE rec == [type |-> t, secret |-> [f \in Fields |-> Clear(x[f])]]
           k == key["dashboard"]
<1>2. rec \in Record /\ \A f \in Fields : rec.secret[f].seal = None
  BY DEF Record, Secrets, Clear, Value
<1>3. Valid(i, rec)
  BY <1>1
<1>4. store' = [store EXCEPT ![i] = Encrypted(k, rec)]
  BY <1>1
<1>5. k \in Keys
  BY DashboardKey DEF Containers
<1> HIDE DEF rec, k
<1>6. WellFormed(i, rec) /\ Readable(k, rec)
  BY <1>2, <1>3, ValidWellFormed DEF Readable
<1>7. Stores(i, Encrypted(k, rec))
  BY <1>4 DEF Stores, Create
<1>8. /\ store' \in [Ids -> Record \cup {None}]
      /\ \A j \in Ids \ {i} : store'[j] = store[j]
      /\ StoreInv' /\ Sealed' /\ OneKey' /\ StillValid'
  BY <1>1, <1>2, <1>3, <1>5, <1>6, <1>7, EncryptedRecord, EncryptedSound, StoresOne DEF k
<1>9. HandInv'
  BY <1>1, <1>8, HandKept DEF Create
<1>10. TypeOK'
  <2>1. \A j \in Ids : store'[j] = None => store[j] = None
    BY <1>1, <1>8 DEF Inv, TypeOK
  <2>2. i \in Repositories => store[Default] # None
    BY <1>1, IdsAssumption DEF Inv, TypeOK, FileOf
  <2>3. Default \in Ids /\ i # Default
    BY IdsAssumption DEF Ids
  <2>4. store'[Default] = None =>
          "repositories" \notin opened /\ \A j \in Repositories : store'[j] = None
    BY <1>8, <2>2, <2>3 DEF Inv, TypeOK, Ids
  <2>5. QED
    BY <1>1, <1>8, <2>4 DEF Create, Inv, TypeOK
<1>11. QED
  BY <1>8, <1>9, <1>10 DEF Inv

LEMMA StartUpdateStep ==
    ASSUME Inv, NEW r \in Requests, StartUpdate(r)
    PROVE  Inv'
<1>1. PICK i \in Ids, t \in Types \cup {None}, x \in [Fields -> Texts] :
        /\ FileOf(i) \in opened /\ store[i] # None /\ Becomes(store[i].type, t)
        /\ LET named == [type |-> t, text |-> x]
               merged == Merged(Decrypted(key["dashboard"], store[i]), named)
           IN /\ Valid(i, merged)
              /\ req' = [req EXCEPT ![r] = [id |-> i, named |-> named, merged |-> merged]]
  <2>1. PICK i \in Ids, t \in Types \cup {None} :
          /\ FileOf(i) \in opened /\ store[i] # None /\ Becomes(store[i].type, t)
          /\ \E x \in Entries(FieldsOf(i)) :
                LET named == [type |-> t, text |-> [f \in Fields |-> IF f \in FieldsOf(i) THEN x[f]
                                                                    ELSE Absent]]
                    merged == Merged(Decrypted(key["dashboard"], store[i]), named)
                IN /\ Valid(i, merged)
                   /\ req' = [req EXCEPT ![r] = [id |-> i, named |-> named, merged |-> merged]]
    BY DEF StartUpdate
  <2>2. PICK x \in Entries(FieldsOf(i)) :
            LET named == [type |-> t, text |-> [f \in Fields |-> IF f \in FieldsOf(i) THEN x[f]
                                                                ELSE Absent]]
                merged == Merged(Decrypted(key["dashboard"], store[i]), named)
            IN /\ Valid(i, merged)
               /\ req' = [req EXCEPT ![r] = [id |-> i, named |-> named, merged |-> merged]]
    BY <2>1
  <2> DEFINE y == [f \in Fields |-> IF f \in FieldsOf(i) THEN x[f] ELSE Absent]
  <2>3. y \in [Fields -> Texts]
    BY DEF Texts, Entries
  <2>4. QED
    BY <2>1, <2>2, <2>3
<1> DEFINE named == [type |-> t, text |-> x]
           old == Decrypted(key["dashboard"], store[i])
           merged == Merged(old, named)
           q == [id |-> i, named |-> named, merged |-> merged]
<1>2. named \in Named /\ store[i] \in Record
  BY <1>1 DEF Named, Inv, TypeOK
<1>3. old \in Record /\ old.secret \in Plain /\ old.type = store[i].type
  BY <1>2, DecryptedRecord, DashboardKey DEF Containers
<1>4. merged \in [type : Types, secret : Plain]
  BY <1>2, <1>3, MergedRecord
<1>5. Becomes(store[i].type, merged.type)
  BY <1>1, <1>3 DEF Merged, Becomes
<1>6. Valid(i, merged) /\ req' = [req EXCEPT ![r] = q]
  BY <1>1
<1>7. q \in Request /\ q.id = i /\ i \in used /\ WellFormed(i, store[i])
  BY <1>1, <1>2, <1>4 DEF Request, Inv, TypeOK, StoreInv
<1>8. UNCHANGED <<store, used, opened, key, redeploys>>
  BY DEF StartUpdate
<1>9. TypeOK'
  BY <1>1, <1>6, <1>7, <1>8 DEF Inv, TypeOK
<1>10. HandInv'
  <2> SUFFICES ASSUME NEW s \in Requests, req'[s] # Idle
               PROVE  LET p == req'[s] IN
                      /\ p.id \in used
                      /\ Valid(p.id, p.merged)
                      /\ store[p.id] # None => Becomes(store[p.id].type, p.merged.type)
    BY <1>8 DEF HandInv, WellFormed, Valid
  <2>1. CASE s = r
    <3>1. req'[s] = q
      BY <1>6, <2>1 DEF Inv, TypeOK
    <3>2. q.merged = merged
      OBVIOUS
    <3> HIDE DEF q, merged, named, old
    <3>3. QED
      BY <1>5, <1>6, <1>7, <3>1, <3>2
  <2>2. CASE s # r
    BY <1>6, <2>2 DEF Inv, TypeOK, HandInv
  <2>3. QED
    BY <2>1, <2>2
<1>11. StoreInv' /\ Sealed' /\ OneKey' /\ StillValid'
  BY <1>8 DEF Inv, StoreInv, Sealed, OneKey, StillValid, WellFormed, Valid, Readable
<1>12. QED
  BY <1>9, <1>10, <1>11 DEF Inv

LEMMA UpdateStep ==
    ASSUME Inv, NEW r \in Requests, Update(r)
    PROVE  Inv'
<1> DEFINE q == req[r]
           i == q.id
           k == key["dashboard"]
<1>1. q # Idle /\ q \in Request /\ FileOf(i) \in opened
  BY DEF Update, Inv, TypeOK
<1>2. i \in Ids /\ q.merged \in [type : Types, secret : Plain] /\ Valid(i, q.merged)
  BY <1>1 DEF Request, Inv, HandInv
<1>3. req' = [req EXCEPT ![r] = Idle] /\ UNCHANGED <<used, opened, key, redeploys>>
  BY DEF Update
<1>4. \A s \in Requests : req'[s] \in {req[s], Idle}
  BY <1>3 DEF Inv, TypeOK
<1>5. k \in Keys
  BY DashboardKey DEF Containers
<1>6. CASE store[i] = None
  <2>1. store' = store
    BY <1>6 DEF Update
  <2>2. TypeOK' /\ HandInv'
    BY <1>3, <1>4, <2>1 DEF Inv, TypeOK, HandInv, WellFormed, Valid, Request
  <2>3. StoreInv' /\ Sealed' /\ OneKey' /\ StillValid'
    BY <1>3, <2>1 DEF Inv, StoreInv, Sealed, OneKey, StillValid, WellFormed, Valid, Readable
  <2>4. QED
    BY <2>2, <2>3 DEF Inv
<1>7. CASE store[i] # None
  <2> DEFINE rec == Overwritten(k, store[i], q.merged)
  <2>1. store' = [store EXCEPT ![i] = rec]
    BY <1>7 DEF Update
  <2>2. store[i] \in Record /\ WellFormed(i, store[i])
    BY <1>2, <1>7 DEF Inv, TypeOK, StoreInv
  <2>3. Becomes(store[i].type, q.merged.type)
    BY <1>1, <1>7 DEF Inv, HandInv
  <2>4. redeploys = 0 /\ i # Default => Valid(i, store[i])
    BY <1>2, <1>7 DEF Inv, StillValid
  <2> HIDE DEF k, i
  <2>5. /\ rec \in Record /\ rec.type = q.merged.type
        /\ WellFormed(i, rec) /\ SealedRecord(rec) /\ Readable(k, rec)
        /\ redeploys = 0 /\ i # Default => Valid(i, rec)
    BY <1>2, <1>5, <2>2, <2>3, <2>4, OverwrittenSound
  <2>6. Stores(i, rec)
    BY <1>3, <2>1 DEF Stores
  <2> HIDE DEF rec
  <2>7. /\ store' \in [Ids -> Record \cup {None}]
        /\ store'[i] = rec
        /\ \A j \in Ids \ {i} : store'[j] = store[j]
        /\ StoreInv' /\ Sealed' /\ OneKey' /\ StillValid'
    BY <1>1, <1>2, <2>5, <2>6, StoresOne DEF k
  <2>8. HandInv'
    BY <1>2, <1>3, <1>4, <1>7, <2>3, <2>5, <2>7, HandKept
  <2>9. TypeOK'
    <3>1. store'[i] # None /\ \A j \in Ids : store'[j] # None <=> store[j] # None
      BY <1>7, <2>5, <2>7, NoneAssumption
    <3>2. Default \in Ids
      BY IdsAssumption DEF Ids
    <3>3. req' \in [Requests -> Request] /\ \A s \in Requests : req'[s] # Idle => req'[s] = req[s]
      BY <1>3, <1>4 DEF Inv, TypeOK, Request
    <3>4. QED
      BY <1>3, <2>7, <3>1, <3>2, <3>3 DEF Inv, TypeOK, Ids
  <2>10. QED
    BY <2>7, <2>8, <2>9 DEF Inv
<1>8. QED
  BY <1>6, <1>7

LEMMA RescheduleStep ==
    ASSUME Inv, NEW r \in Requests, Reschedule(r)
    PROVE  Inv'
<1>1. PICK i \in Profiles :
        /\ "profiles" \in opened /\ store[i] # None
        /\ store' = [store EXCEPT ![i] =
                        Encrypted(key["dashboard"], Decrypted(key["dashboard"], store[i]))]
  BY DEF Reschedule
<1> DEFINE k == key["dashboard"]
           old == Decrypted(k, store[i])
           rec == Encrypted(k, old)
<1>2. i \in Ids /\ FileOf(i) \in opened
  BY <1>1 DEF Ids, FileOf
<1>3. store[i] \in Record /\ WellFormed(i, store[i])
  BY <1>1, <1>2 DEF Inv, TypeOK, StoreInv
<1>4. redeploys = 0 => Readable(k, store[i]) /\ (i # Default => Valid(i, store[i]))
  BY <1>1, <1>2 DEF Inv, OneKey, StillValid
<1>5. k \in Keys
  BY DashboardKey DEF Containers
<1>6. Stores(i, rec)
  BY <1>1 DEF Stores, Reschedule
<1>7. /\ old \in Record /\ old.type = store[i].type /\ WellFormed(i, old) /\ Readable(k, old)
      /\ redeploys = 0 /\ i # Default => Valid(i, old)
  BY <1>2, <1>3, <1>4, <1>5, DecryptedRecord, DecryptedSound DEF k
<1>8. /\ rec \in Record /\ rec.type = store[i].type
      /\ WellFormed(i, rec) /\ SealedRecord(rec) /\ Readable(k, rec)
      /\ redeploys = 0 /\ i # Default => Valid(i, rec)
  <2> HIDE DEF old, k
  <2>1. QED
    BY <1>2, <1>5, <1>7, EncryptedRecord, EncryptedSound
<1> HIDE DEF rec, old
<1>9. /\ store' \in [Ids -> Record \cup {None}]
      /\ store'[i] = rec
      /\ \A j \in Ids \ {i} : store'[j] = store[j]
      /\ StoreInv' /\ Sealed' /\ OneKey' /\ StillValid'
  BY <1>2, <1>6, <1>8, StoresOne
<1>10. HandInv'
  BY <1>1, <1>2, <1>8, <1>9, HandKept DEF Reschedule, Becomes
<1>11. TypeOK'
  <2>1. i # Default /\ Default \in Ids
    BY IdsAssumption DEF Ids
  <2>2. \A j \in Ids : store'[j] # None => store[j] # None
    BY <1>1, <1>9
  <2>3. QED
    BY <1>9, <2>1, <2>2 DEF Inv, TypeOK, Reschedule, Ids
<1>12. QED
  BY <1>9, <1>10, <1>11 DEF Inv

(* The repository that Open makes is one of the default's. *)
LEMMA DefaultSound ==
    ASSUME NEW k \in Keys, NEW rec \in DefaultRepository(k)
    PROVE  rec \in Record /\ WellFormed(Default, rec) /\ SealedRecord(rec) /\ Readable(k, rec)
<1>1. PICK t \in Values \cup {Blank} :
        rec = Encrypted(k, [type |-> "local", secret |-> [NoSecrets EXCEPT !["password"] = Clear(t)]])
  BY DEF DefaultRepository
<1> DEFINE made == [type |-> "local", secret |-> [NoSecrets EXCEPT !["password"] = Clear(t)]]
<1>2. made \in Record
  BY TypesAssumption DEF Record, Secrets, Value, NoSecrets, Clear, Texts, Fields
<1>3. \A f \in Fields : made.secret[f].seal = None /\ (f # "password" => made.secret[f].text = Absent)
  BY DEF NoSecrets, Clear
<1>4. Default \in Ids /\ Default \notin Profiles
  BY IdsAssumption DEF Ids
<1>5. WellFormed(Default, made) /\ Readable(k, made)
  BY <1>3, <1>4 DEF WellFormed, Readable, TypesOf, FieldsOf, RepositoryTypes, RepositoryFields
<1>6. rec = Encrypted(k, made)
  BY <1>1
<1> HIDE DEF made
<1>7. QED
  BY <1>2, <1>4, <1>5, <1>6, EncryptedRecord, EncryptedSound

LEMMA OpenStep ==
    ASSUME Inv, NEW c \in Containers, NEW file \in Files, Open(c, file)
    PROVE  Inv'
<1> DEFINE k == key[c]
           missing == file = "repositories" /\ store[Default] = None
           Fine(j) == /\ store'[j] \in Record
                      /\ WellFormed(j, store'[j])
                      /\ FileOf(j) \in opened' => SealedRecord(store'[j])
                      /\ redeploys = 0 => Readable(key["dashboard"], store'[j])
                      /\ redeploys = 0 /\ j # Default => Valid(j, store'[j])
                      /\ store[j] # None => store'[j].type = store[j].type
<1>1. k \in Keys /\ (redeploys = 0 => k = key["dashboard"])
  BY DashboardKey DEF Inv, OneKey, Containers
<1>2. Default \in Ids /\ Default \in Repositories /\ Default \notin Profiles
  BY IdsAssumption DEF Ids
<1>3. opened' = opened \cup {file} /\ UNCHANGED <<key, req, redeploys>>
  BY DEF Open
<1>4. \A j \in Ids : store[j] # None =>
        /\ store[j] \in Record /\ WellFormed(j, store[j])
        /\ redeploys = 0 => Readable(key["dashboard"], store[j])
        /\ redeploys = 0 /\ j # Default => Valid(j, store[j])
        /\ FileOf(j) \in opened => SealedRecord(store[j])
  BY DEF Inv, TypeOK, StoreInv, OneKey, StillValid, Sealed, SealedRecord
<1>5. /\ store' \in [Ids -> Record \cup {None}]
      /\ \A j \in Ids : store'[j] # None => Fine(j) /\ j \in used'
      /\ \A j \in Ids \ {Default} : store'[j] = None <=> store[j] = None
      /\ store[Default] # None => store'[Default] # None
      /\ file = "repositories" => store'[Default] # None
      /\ used \subseteq used' /\ used' \subseteq Ids
  <2>1. CASE missing
    <3>1. PICK rec \in DefaultRepository(k) : store' = [store EXCEPT ![Default] = rec]
      BY <2>1 DEF Open
    <3>2. rec \in Record /\ WellFormed(Default, rec) /\ SealedRecord(rec) /\ Readable(k, rec)
      BY <1>1, DefaultSound
    <3>3. used' = used \cup {Default}
      BY <2>1 DEF Open
    <3>4. store'[Default] = rec /\ rec # None /\ \A j \in Ids \ {Default} : store'[j] = store[j]
      BY <1>2, <3>1, <3>2, NoneAssumption DEF Inv, TypeOK
    <3>5. \A j \in Ids : FileOf(j) = file => store[j] = None
      BY <2>1 DEF Inv, TypeOK, FileOf, Ids
    <3>6. \A j \in Ids : store'[j] # None => Fine(j)
      BY <1>1, <1>3, <1>4, <2>1, <3>2, <3>4, <3>5
    <3>7. store' \in [Ids -> Record \cup {None}]
      BY <3>1, <3>2 DEF Inv, TypeOK
    <3>8. \A j \in Ids : store'[j] # None => j \in used'
      BY <2>1, <3>3, <3>4 DEF Inv, TypeOK
    <3>9. QED
      BY <1>2, <3>3, <3>4, <3>6, <3>7, <3>8 DEF Inv, TypeOK
  <2>2. CASE ~missing
    <3>1. /\ store' = [j \in Ids |-> IF FileOf(j) = file /\ store[j] # None
                                   THEN Migrated(k, store[j]) ELSE store[j]]
          /\ used' = used
      BY <2>2 DEF Open
    <3>2. \A j \in Ids : store[j] = None => store'[j] = None
      BY <3>1
    <3>3. ASSUME NEW j \in Ids, store[j] # None PROVE Fine(j) /\ store'[j] # None
      <4>1. CASE FileOf(j) = file
        <5>1. store'[j] = Migrated(k, store[j])
          BY <3>1, <3>3, <4>1
        <5>2. Fine(j)
          BY <1>1, <1>4, <3>3, <5>1, MigratedSound
        <5>3. QED
          BY <5>2, NoneAssumption
      <4>2. CASE FileOf(j) # file
        BY <1>3, <1>4, <3>1, <3>3, <4>2, NoneAssumption
      <4>3. QED
        BY <4>1, <4>2
    <3>4. store' \in [Ids -> Record \cup {None}]
      <4>1. \A j \in Ids : store'[j] \in Record \cup {None}
        BY <3>2, <3>3
      <4>2. QED
        BY <3>1, <4>1
    <3>5. QED
      BY <1>2, <2>2, <3>1, <3>2, <3>3, <3>4 DEF Inv, TypeOK
  <2>3. QED
    BY <2>1, <2>2
<1>6. TypeOK'
  <2>1. Default \notin Profiles /\ FileOf(Default) = "repositories"
    BY <1>2 DEF FileOf
  <2>2. store'[Default] = None =>
          "repositories" \notin opened' /\ \A i \in Repositories : store'[i] = None
    BY <1>2, <1>3, <1>5 DEF Inv, TypeOK, Ids
  <2>3. QED
    BY <1>3, <1>5, <2>2 DEF Inv, TypeOK
<1>7. HandInv'
  <2> SUFFICES ASSUME NEW r \in Requests, req[r] # Idle
               PROVE  LET q == req[r] IN
                      /\ q.id \in used'
                      /\ Valid(q.id, q.merged)
                      /\ store'[q.id] # None => Becomes(store'[q.id].type, q.merged.type)
    BY <1>3 DEF HandInv, WellFormed, Valid
  <2> DEFINE q == req[r]
  <2>1. q.id \in Ids /\ FileOf(q.id) \in opened
    BY DEF Inv, TypeOK, Request
  <2>2. store'[q.id] # None => store[q.id] # None
    BY <1>2, <1>5, <2>1 DEF Inv, TypeOK, FileOf
  <2>3. QED
    BY <1>5, <2>1, <2>2 DEF Inv, HandInv
<1>8. StoreInv'
  BY <1>5 DEF StoreInv, WellFormed
<1>9. Sealed'
  BY <1>5 DEF Sealed, SealedRecord, WellFormed
<1>10. OneKey'
  BY <1>3, <1>5 DEF Inv, OneKey, Readable
<1>11. StillValid'
  BY <1>3, <1>5 DEF StillValid, Valid
<1>12. QED
  BY <1>6, <1>7, <1>8, <1>9, <1>10, <1>11 DEF Inv

LEMMA DeleteStep ==
    ASSUME Inv, NEW r \in Requests, Delete(r)
    PROVE  Inv'
<1>1. PICK i \in Ids \ {Default} : store' = [store EXCEPT ![i] = None]
  BY DEF Delete
<1>2. UNCHANGED <<used, opened, key, req, redeploys>>
  BY DEF Delete
<1>3. /\ store' \in [Ids -> Record \cup {None}]
      /\ store'[i] = None
      /\ \A j \in Ids \ {i} : store'[j] = store[j]
  BY <1>1 DEF Inv, TypeOK
<1>4. HandInv'
  BY <1>2, <1>3, HandKept
<1>5. TypeOK'
  BY <1>1, <1>2, <1>3, IdsAssumption DEF Inv, TypeOK, Ids
<1>6. StoreInv' /\ OneKey' /\ StillValid'
  BY <1>2, <1>3 DEF Inv, StoreInv, OneKey, StillValid, WellFormed, Valid, Readable
<1>7. Sealed'
  BY <1>2, <1>3 DEF Inv, Sealed
<1>8. QED
  BY <1>4, <1>5, <1>6, <1>7 DEF Inv

(* A request ends without a word, or a container starts anew. *)
LEMMA EndStep ==
    ASSUME Inv, UNCHANGED <<store, used, opened>>,
           \/ \E r \in Requests : Abort(r)
           \/ \E c \in Containers : Redeploy(c)
           \/ UNCHANGED vars
    PROVE  Inv'
<1>1. /\ \A r \in Requests : req'[r] \in {req[r], Idle}
      /\ req' \in [Requests -> Request]
      /\ key' \in [Containers -> Keys]
      /\ redeploys' \in 0..MaxRedeploys
      /\ redeploys' = 0 => redeploys = 0 /\ key' = key
      /\ key'["dashboard"] # key["dashboard"] => \A r \in Requests : req'[r] = Idle
  <2>1. CASE \E r \in Requests : Abort(r)
    BY <2>1 DEF Abort, Inv, TypeOK, Request
  <2>2. CASE \E c \in Containers : Redeploy(c)
    BY <2>2, RedeploysAssumption DEF Redeploy, Inv, TypeOK, Request, Containers
  <2>3. CASE UNCHANGED vars
    BY <2>3 DEF vars, Inv, TypeOK
  <2>4. QED
    BY <2>1, <2>2, <2>3
<1>2. TypeOK'
  BY <1>1 DEF Inv, TypeOK
<1>3. HandInv'
  BY <1>1 DEF Inv, HandInv, WellFormed, Valid
<1>4. StoreInv' /\ OneKey' /\ StillValid' /\ Sealed'
  BY <1>1 DEF Inv, StoreInv, OneKey, StillValid, Sealed, WellFormed, Valid, Readable
<1>5. QED
  BY <1>2, <1>3, <1>4 DEF Inv

(* The inductive invariant. *)
THEOREM Invariance == Spec => []Inv
<1>1. Init => Inv
  BY InitSound
<1>2. Inv /\ [Next]_vars => Inv'
  <2> SUFFICES ASSUME Inv, [Next]_vars PROVE Inv'
    OBVIOUS
  <2>1. CASE \E c \in Containers : Redeploy(c)
    BY <2>1, EndStep DEF Redeploy
  <2>2. CASE \E c \in Containers, file \in Files : Open(c, file)
    BY <2>2, OpenStep
  <2>3. CASE \E r \in Requests : Create(r) \/ StartUpdate(r) \/ Update(r)
    BY <2>3, CreateStep, StartUpdateStep, UpdateStep
  <2>4. CASE \E r \in Requests : Reschedule(r) \/ Delete(r)
    BY <2>4, RescheduleStep, DeleteStep
  <2>5. CASE \E r \in Requests : Abort(r)
    BY <2>5, EndStep DEF Abort
  <2>6. CASE UNCHANGED vars
    BY <2>6, EndStep DEF vars
  <2>7. QED
    BY <2>1, <2>2, <2>3, <2>4, <2>5, <2>6 DEF Next
<1>3. QED
  BY <1>1, <1>2, PTL DEF Spec

(* Every variable keeps its type (profiles.py:19-182, 391-492). *)
THEOREM TypeCorrect == Spec => []TypeOK
  BY Invariance, PTL DEF Inv

(* Secret strings are stored sealed, once, and are what users gave; what   *)
(* is no string is not (profiles.py:38-41, 77-82).                         *)
THEOREM StoredSealed == Spec => []Sealed
  BY Invariance, PTL DEF Inv

(* Updates that interleave never store an invalid record while the keys    *)
(* stay the same (app.py:617-635).                                         *)
THEOREM UpdatesStayValid == Spec => []StillValid
  BY Invariance, PTL DEF Inv

(* What an update that nothing interfered with makes of one secret. *)
LEMMA UpdateKeeps ==
    ASSUME NEW k \in Keys, NEW i \in Ids, NEW base \in Record, WellFormed(i, base),
           Readable(k, base), NEW named \in Named, NEW f \in Fields,
           NEW by \in [type : Types, secret : Plain], by = Merged(Decrypted(k, base), named)
    PROVE  LET old == base.secret[f]
               new == Overwritten(k, base, by).secret[f]
           IN /\ named.text[f] \in {Absent, Blank} /\ Given(old) => new.text = old.text
              /\ named.text[f] \in Values \cup NonStrings \cup {Null} => new.text = named.text[f]
<1> DEFINE open == Decrypted(k, base).secret[f]
           raw == [type |-> by.type,
                   secret |-> [g \in Fields |-> IF by.secret[g].text = Absent
                                                 THEN Decrypt(k, base.secret[g])
                                                 ELSE by.secret[g]]]
           v == raw.secret[f]
<1>1. open = Decrypt(k, base.secret[f]) /\ open.text = base.secret[f].text
  BY DecryptedRecord, DecryptedSound
<1>2. by.secret[f] = IF Kept(open, named.text[f]) THEN open ELSE Clear(named.text[f])
  BY DEF Merged
<1>3. v = IF by.secret[f].text = Absent THEN open ELSE by.secret[f]
  BY <1>1
<1>4. raw \in Record
  <2>1. \A g \in Fields : Decrypt(k, base.secret[g]) \in Value /\ by.secret[g] \in Value
    BY DecryptValue DEF Record, Secrets, Plain
  <2>2. QED
    BY <2>1 DEF Record, Secrets
<1>5. Overwritten(k, base, by) = Encrypted(k, raw)
  BY DEF Overwritten
<1> HIDE DEF raw
<1>6. Overwritten(k, base, by).secret[f] = Encrypt(k, v) /\ v \in Value
  BY <1>4, <1>5, EncryptedRecord DEF Record, Secrets
<1> HIDE DEF v, open
<1>7. Overwritten(k, base, by).secret[f].text = v.text
  BY <1>6, EncryptValue
<1>8. named.text[f] \in {Absent, Blank} /\ Given(base.secret[f]) => v = open
  BY <1>1, <1>2, <1>3 DEF Kept, Given
<1>9. named.text[f] \in Values \cup NonStrings \cup {Null} => v.text = named.text[f]
  BY <1>2, <1>3, TextsAssumption DEF Kept, Clear
<1>10. QED
  BY <1>1, <1>7, <1>8, <1>9

(* A secret left blank is kept, one that is named is stored                *)
(* (docs/API.md:514, 1014).                                                *)
THEOREM BlankIsKept == Spec => BlankKeeps
<1> DEFINE Held(r) == /\ req[r] # Idle /\ req'[r] = Idle /\ store' # store
                      /\ store[req[r].id] # None /\ Readable(key["dashboard"], store[req[r].id])
                      /\ Undisturbed(req[r])
           Kept1(r) == \A f \in Fields :
                          LET old == store[req[r].id].secret[f]
                              new == store'[req[r].id].secret[f]
                              named == req[r].named.text[f]
                          IN /\ named \in {Absent, Blank} /\ Given(old) => new.text = old.text
                             /\ named \in Values \cup NonStrings \cup {Null} => new.text = named
<1>1. Inv /\ [Next]_vars => [\A r \in Requests : Held(r) => Kept1(r)]_vars
  <2> SUFFICES ASSUME Inv, Next, NEW r \in Requests, Held(r) PROVE Kept1(r)
    BY DEF vars
  <2>1. Update(r)
    <3>1. ASSUME NEW s \in Requests, Update(s) PROVE s = r
      BY <3>1 DEF Update, Inv, TypeOK
    <3>2. ASSUME NEW s \in Requests, Create(s) \/ StartUpdate(s) \/ Reschedule(s) \/ Delete(s) \/ Abort(s)
          PROVE  FALSE
      <4>1. ~StartUpdate(s) /\ ~Abort(s)
        BY DEF StartUpdate, Abort
      <4>2. req' = req
        BY <3>2, <4>1 DEF Create, Reschedule, Delete
      <4>3. QED
        BY <4>2
    <3>3. ASSUME NEW c \in Containers, Redeploy(c) \/ \E file \in Files : Open(c, file)
          PROVE  FALSE
      BY <3>3 DEF Redeploy, Open
    <3>4. QED
      BY <3>1, <3>2, <3>3 DEF Next
  <2> DEFINE q == req[r]
  <2>2. q \in Request /\ q # Idle
    BY DEF Inv, TypeOK
  <2> DEFINE old == store[q.id]
  <2>3. /\ q.id \in Ids /\ q.named \in Named /\ old \in Record
        /\ q.merged \in [type : Types, secret : Plain]
    BY <2>2 DEF Request, Inv, TypeOK
  <2>4. WellFormed(q.id, old) /\ q.merged = Merged(Decrypted(key["dashboard"], old), q.named)
    BY <2>3 DEF Inv, StoreInv, Undisturbed
  <2>5. store'[q.id] = Overwritten(key["dashboard"], old, q.merged)
    BY <2>1, <2>3, NoneAssumption DEF Update, Inv, TypeOK
  <2>6. key["dashboard"] \in Keys
    BY DashboardKey DEF Containers
  <2> HIDE DEF q, old
  <2>7. QED
    BY <2>3, <2>4, <2>5, <2>6, UpdateKeeps DEF q, old
<1>2. QED
  BY <1>1, Invariance, PTL DEF Spec, BlankKeeps

=============================================================================
