--------------------------- MODULE RotatingLog_proofs ---------------------------
(***************************************************************************)
(* Proofs about RotatingLog, for any writers, sizes, numbers of files and  *)
(* reads.  The log keeps its bound because the lock admits one writer to   *)
(* the files, who knows of each file whether it is in order.               *)
(***************************************************************************)
EXTENDS RotatingLog, FiniteSetTheorems, TLAPS

Fine(i) == Exists(i) => i <= count /\ Len(files[i]) <= MaxBytes

(* Whoever works on the files has the lock.                                *)
LockInv == \A w \in Writers : pc[w] \in Holding => lock = w

(* The first wrapper has left only what is still to be put in order ...    *)
NormaliseInv ==
    \A w \in Writers : pc[w] \in {"normalise", "replace"} =>
        /\ \A i \in left[w] : Exists(i) /\ (i > count \/ Size(i) > MaxBytes)
        /\ \A i \in Indexes \ left[w] : Fine(i)

(* ... a rotation ends with the current file, and what is appended fits.   *)
RotateInv ==
    \A w \in Writers :
        /\ pc[w] = "rotate" => 0 \in left[w] /\ left[w] \subseteq 0..count
        /\ pc[w] = "append" => Size(0) + chunk[w] <= MaxBytes

Inv == TypeOK /\ LockInv /\ NormaliseInv /\ RotateInv /\ LogBounded

(* The bytes of file i of the files f                                      *)
Numbers(f, i) == IF f[i] = None THEN {} ELSE 1..Len(f[i])
Has(f, b) == \E i \in Indexes : \E k \in Numbers(f, i) : f[i][k] = b

(* From the oldest byte to the newest they ascend, but for those from      *)
(* before, ...                                                             *)
Ascending(f) ==
    \A i, j \in Indexes : \A k \in Numbers(f, i), m \in Numbers(f, j) :
        i > j \/ (i = j /\ k < m) => f[i][k] < f[j][m] \/ (f[i][k] = 0 /\ f[j][m] = 0)

(* ... and of the output exactly the bytes after the n-th are there.       *)
AllAfter(f, n, last) ==
    /\ \A i \in Indexes : \A k \in Numbers(f, i) : f[i][k] = 0 \/ f[i][k] \in (n + 1)..last
    /\ \A b \in (n + 1)..last : Has(f, b)

OrderInv == Ascending(files) /\ \E n \in 0..written : AllAfter(files, n, written)

(* Output is only there once the files are in order: nothing of it is ever *)
(* normalised.                                                             *)
WrittenInv == written > 0 => \A i \in Indexes : Fine(i)

(* A rotation moves a file to a number that is free.                       *)
GapInv ==
    \A w \in Writers : pc[w] = "rotate" =>
        \A k \in left[w] : Exists(k) /\ \A j \in Indexes \ left[w] : j <= k + 1 => ~Exists(j)

Lossless == \A b \in 1..written : Has(files, b)
Plenty == Cardinality(Places) > MaxBytes

(* What a rotation removes is made up for by the file it moves last and    *)
(* the chunk it is made for, which is appended unless the wrapper ends.    *)
KeepInv ==
    count > 0 =>
        /\ \A w \in Writers : pc[w] = "rotate" => Size(0) + chunk[w] > MaxBytes
        /\ (\A w \in Writers : pc[w] # "dead") =>
              /\ \A w \in Writers : pc[w] = "append" =>
                     Lossless \/ Plenty \/ Size(1) + chunk[w] > MaxBytes
              /\ (\A w \in Writers : pc[w] \notin {"rotate", "append"}) => Lossless \/ Plenty

IInv == Inv /\ WrittenInv /\ OrderInv /\ GapInv /\ KeepInv

-----------------------------------------------------------------------------
LEMMA CountIndexes == TypeOK => count \in Indexes /\ 0..count \subseteq Indexes
  BY CountsAssumption DEF TypeOK, Indexes

LEMMA SizeType ==
    ASSUME TypeOK, NEW i \in Indexes
    PROVE  /\ Size(i) \in Nat
           /\ Exists(i) => files[i] \in Seq(Nat) /\ Size(i) = Len(files[i])
           /\ Content(i) \in Seq(Nat) /\ Len(Content(i)) = Size(i)
  BY DEF TypeOK, Size, Exists, Content

(* The tail of a file that is too long is as long as a file may be. *)
LEMMA TailFits ==
    ASSUME NEW s \in Seq(Nat), Len(s) > MaxBytes
    PROVE  TailOf(s) \in Seq(Nat) /\ Len(TailOf(s)) = MaxBytes
<1>1. MaxBytes \in Nat \ {0} /\ Len(s) \in Nat
  BY SizesAssumption
<1>2. Len(s) - MaxBytes + 1 \in 1..Len(s)
  BY <1>1
<1>3. \A k \in (Len(s) - MaxBytes + 1)..Len(s) : s[k] \in Nat
  BY <1>1
<1>4. QED
  BY <1>1, <1>2, <1>3 DEF TailOf

(* What an append does to the files *)
LEMMA LogType ==
    ASSUME TypeOK, NEW n \in Nat, Log(n)
    PROVE  /\ files' \in [Indexes -> Seq(Nat) \cup {None}]
           /\ files'[0] \in Seq(Nat) /\ Len(files'[0]) = Size(0) + n
           /\ \A i \in Indexes \ {0} : files'[i] = files[i]
           /\ written' \in Nat
<1>1. 0 \in Indexes /\ written \in Nat
  BY CountsAssumption DEF Indexes, TypeOK
<1> DEFINE new == [k \in 1..n |-> written + k]
<1>2. new \in Seq(Nat) /\ Len(new) = n
  BY <1>1
<1>3. Content(0) \in Seq(Nat) /\ Len(Content(0)) = Size(0)
  BY <1>1, SizeType
<1> HIDE DEF new
<1>4. Content(0) \o new \in Seq(Nat) /\ Len(Content(0) \o new) = Size(0) + n
  BY <1>2, <1>3
<1>5. files' = [files EXCEPT ![0] = Content(0) \o new] /\ written' = written + n
  BY DEF Log, new
<1>6. QED
  BY <1>1, <1>4, <1>5 DEF TypeOK

(* One removal or renaming of a rotation *)
LEMMA MovedType ==
    ASSUME TypeOK, NEW i \in 0..count, files' = Moved(i)
    PROVE  /\ files' \in [Indexes -> Seq(Nat) \cup {None}]
           /\ files'[i] = None
           /\ \A j \in Indexes : files'[j] \in {None, files[j]} \/ (j = i + 1 /\ i < count /\ files'[j] = files[i])
<1>0. MaxIndex \in Nat /\ count \in 0..MaxIndex /\ i \in 0..count
  BY CountsAssumption DEF TypeOK
<1>1. i \in Indexes /\ count \in Indexes
  BY CountIndexes
<1>2. i # count => i + 1 \in Indexes /\ i < count /\ i + 1 # i
  BY <1>0 DEF Indexes
<1>3. CASE i = count
  BY <1>1, <1>3 DEF Moved, TypeOK
<1>4. CASE i # count
  BY <1>1, <1>2, <1>4 DEF Moved, TypeOK
<1>5. QED
  BY <1>3, <1>4

-----------------------------------------------------------------------------
LEMMA StepCases ==
    ASSUME [Next]_vars
    PROVE  \/ \E w \in Writers :
                 \/ Open(w) \/ RemoveSuperfluous(w) \/ WriteTail(w) \/ ReplaceByTail(w) \/ Opened(w)
                 \/ Read(w) \/ Write(w) \/ Rotate(w) \/ AppendChunk(w) \/ End(w)
                 \/ Fail(w) \/ Kill(w)
           \/ UNCHANGED vars
  BY DEF Next

LEMMA InitSound == Init => Inv
<1> SUFFICES ASSUME Init PROVE Inv
  OBVIOUS
<1>1. \A n \in OldSizes : [k \in 1..n |-> 0] \in Seq(Nat)
  BY SizesAssumption
<1>2. files \in [Indexes -> Seq(Nat) \cup {None}]
  BY <1>1 DEF Init
<1>3. TypeOK
  BY <1>2, SizesAssumption, BoundsAssumption DEF Init, TypeOK, Holding, Logging
<1>4. QED
  BY <1>3 DEF Init, Inv, LockInv, NormaliseInv, RotateInv, LogBounded, Holding, Logging

LEMMA StepType ==
    ASSUME TypeOK, RotateInv, NormaliseInv, [Next]_vars
    PROVE  TypeOK'
<1> USE DEF procVars, boundVars, Goto, Visit, Holding, Logging
<1>1. ASSUME NEW w \in Writers, Open(w) PROVE TypeOK'
  BY <1>1 DEF TypeOK, Open
<1>2. ASSUME NEW w \in Writers, RemoveSuperfluous(w) PROVE TypeOK'
  BY <1>2 DEF TypeOK, RemoveSuperfluous
<1>3. ASSUME NEW w \in Writers, WriteTail(w) \/ Opened(w) \/ End(w) PROVE TypeOK'
  BY <1>3 DEF TypeOK, WriteTail, Opened, End
<1>4. ASSUME NEW w \in Writers, ReplaceByTail(w) PROVE TypeOK'
  <2>1. PICK i \in left[w] : /\ i <= count /\ files' = [files EXCEPT ![i] = TailOf(files[i])]
                             /\ left' = [left EXCEPT ![w] = left[w] \ {i}]
    BY <1>4 DEF ReplaceByTail
  <2>2. i \in Indexes /\ Exists(i) /\ (i > count \/ Size(i) > MaxBytes)
    BY <1>4, <2>1 DEF TypeOK, NormaliseInv, ReplaceByTail
  <2>5. Size(i) > MaxBytes
    <3>1. i \in Nat /\ count \in Nat
      BY <2>2, CountsAssumption DEF TypeOK, Indexes
    <3>2. QED
      BY <2>1, <2>2, <3>1
  <2>3. TailOf(files[i]) \in Seq(Nat)
    BY <2>2, <2>5, SizeType, TailFits
  <2>4. QED
    BY <1>4, <2>1, <2>3 DEF TypeOK, ReplaceByTail
<1>5. ASSUME NEW w \in Writers, Read(w) PROVE TypeOK'
  <2>1. chunk' \in [Writers -> 0..MaxBytes] /\ reads' \in 0..MaxReads
    BY <1>5, SizesAssumption, BoundsAssumption DEF TypeOK, Read
  <2>2. QED
    BY <1>5, <2>1 DEF TypeOK, Read
<1>6. ASSUME NEW w \in Writers, Write(w) PROVE TypeOK'
  <2>1. left' \in [Writers -> SUBSET Indexes]
    BY <1>6, CountIndexes DEF TypeOK, Write
  <2>2. QED
    BY <1>6, <2>1 DEF TypeOK, Write
<1>7. ASSUME NEW w \in Writers, Rotate(w) PROVE TypeOK'
  <2>1. PICK i \in left[w] : files' = Moved(i) /\ left' = [left EXCEPT ![w] = left[w] \ {i}]
    BY <1>7 DEF Rotate
  <2>2. i \in 0..count
    BY <1>7, <2>1 DEF RotateInv, Rotate
  <2>3. files' \in [Indexes -> Seq(Nat) \cup {None}]
    BY <2>1, <2>2, MovedType
  <2>4. QED
    BY <1>7, <2>1, <2>3 DEF TypeOK, Rotate
<1>8. ASSUME NEW w \in Writers, AppendChunk(w) PROVE TypeOK'
  <2>1. files' \in [Indexes -> Seq(Nat) \cup {None}] /\ written' \in Nat
    BY <1>8, LogType DEF TypeOK, AppendChunk
  <2>2. chunk' \in [Writers -> 0..MaxBytes]
    BY <1>8, SizesAssumption DEF TypeOK, AppendChunk
  <2>3. QED
    BY <1>8, <2>1, <2>2 DEF TypeOK, AppendChunk
<1>9. ASSUME NEW w \in Writers, Fail(w) \/ Kill(w) PROVE TypeOK'
  <2>1. files' \in [Indexes -> Seq(Nat) \cup {None}] /\ written' \in Nat
    <3>1. CASE \E n \in 1..chunk[w] - 1 : Log(n)
      BY <3>1, LogType DEF TypeOK
    <3>2. CASE files' = files /\ written' = written
      BY <3>2 DEF TypeOK
    <3>3. QED
      BY <1>9, <3>1, <3>2 DEF Fail, Kill
  <2>2. chunk' \in [Writers -> 0..MaxBytes] /\ left' \in [Writers -> SUBSET Indexes]
    <3>1. Ends(w)
      BY <1>9 DEF Fail, Kill
    <3>2. chunk \in [Writers -> 0..MaxBytes] /\ left \in [Writers -> SUBSET Indexes] /\ 0 \in 0..MaxBytes
      BY SizesAssumption DEF TypeOK
    <3>3. chunk' = [chunk EXCEPT ![w] = 0] /\ left' = [left EXCEPT ![w] = {}]
      BY <3>1 DEF Ends
    <3>4. QED
      BY <3>2, <3>3
  <2>3. kills' \in 0..MaxKills /\ temp' \in SUBSET Writers
    BY <1>9, BoundsAssumption DEF TypeOK, Fail, Kill
  <2>4. QED
    BY <1>9, <2>1, <2>2, <2>3 DEF TypeOK, Fail, Kill, Ends
<1>10. CASE UNCHANGED vars
  BY <1>10 DEF TypeOK, vars
<1>11. QED
  BY StepCases, <1>1, <1>2, <1>3, <1>4, <1>5, <1>6, <1>7, <1>8, <1>9, <1>10

(* The lock admits one writer to the files. *)
LEMMA LockStep ==
    ASSUME TypeOK, LockInv, [Next]_vars
    PROVE  LockInv'
<1> USE DEF procVars, boundVars, Goto, Visit, Holding
<1>1. ASSUME NEW w \in Writers, Open(w) PROVE LockInv'
  BY <1>1, NoneAssumption DEF TypeOK, LockInv, Open
<1>2. ASSUME NEW w \in Writers, RemoveSuperfluous(w) \/ WriteTail(w) \/ ReplaceByTail(w) PROVE LockInv'
  BY <1>2 DEF TypeOK, LockInv, RemoveSuperfluous, WriteTail, ReplaceByTail
<1>3. ASSUME NEW w \in Writers, Opened(w) PROVE LockInv'
  BY <1>3 DEF TypeOK, LockInv, Opened
<1>4. ASSUME NEW w \in Writers, Read(w) \/ End(w) PROVE LockInv'
  BY <1>4 DEF TypeOK, LockInv, Read, End
<1>5. ASSUME NEW w \in Writers, Write(w) PROVE LockInv'
  BY <1>5, NoneAssumption DEF TypeOK, LockInv, Write
<1>6. ASSUME NEW w \in Writers, Rotate(w) PROVE LockInv'
  BY <1>6 DEF TypeOK, LockInv, Rotate
<1>7. ASSUME NEW w \in Writers, AppendChunk(w) PROVE LockInv'
  BY <1>7 DEF TypeOK, LockInv, AppendChunk
<1>8. ASSUME NEW w \in Writers, Fail(w) \/ Kill(w) PROVE LockInv'
  BY <1>8 DEF TypeOK, LockInv, Fail, Kill, Ends
<1>9. CASE UNCHANGED vars
  BY <1>9 DEF LockInv, vars
<1>10. QED
  BY StepCases, <1>1, <1>2, <1>3, <1>4, <1>5, <1>6, <1>7, <1>8, <1>9

-----------------------------------------------------------------------------
(* Steps that leave the files alone, taken by w *)
LEMMA FilesKept ==
    ASSUME Inv, NEW w \in Writers, UNCHANGED <<files, count>>,
           \A v \in Writers \ {w} : pc'[v] = pc[v] /\ left'[v] = left[v] /\ chunk'[v] = chunk[v],
           pc'[w] \notin {"normalise", "replace", "rotate", "append"},
           pc'[w] \in Logging => (\E v \in Writers : pc[v] \in Logging) \/ \A i \in Indexes : Fine(i)
    PROVE  NormaliseInv' /\ RotateInv' /\ LogBounded'
<1>1. NormaliseInv'
  BY DEF Inv, NormaliseInv, Fine, Exists, Size
<1>2. RotateInv'
  BY DEF Inv, RotateInv, Size, Exists
<1>3. (\E v \in Writers : pc'[v] \in Logging) =>
          (\E v \in Writers : pc[v] \in Logging) \/ \A i \in Indexes : Fine(i)
  OBVIOUS
<1>4. LogBounded'
  BY <1>3 DEF Inv, LogBounded, Fine, Exists
<1>5. QED
  BY <1>1, <1>2, <1>4

(* Steps of one who has or takes the lock: nobody else works on the files. *)
LEMMA FilesChange ==
    ASSUME Inv, NEW w \in Writers, lock \in {w, None}, UNCHANGED count,
           \A v \in Writers \ {w} : pc'[v] = pc[v] /\ left'[v] = left[v] /\ chunk'[v] = chunk[v],
           pc'[w] \in {"normalise", "replace"} =>
              /\ \A i \in left'[w] : Exists(i)' /\ (i > count \/ Size(i)' > MaxBytes)
              /\ \A i \in Indexes \ left'[w] : Fine(i)',
           pc'[w] = "rotate" => 0 \in left'[w] /\ left'[w] \subseteq 0..count,
           pc'[w] = "append" => Size(0)' + chunk'[w] <= MaxBytes,
           (\E v \in Writers : pc'[v] \in Logging) => \A i \in Indexes : Fine(i)'
    PROVE  NormaliseInv' /\ RotateInv' /\ LogBounded'
<1>1. \A v \in Writers \ {w} : pc'[v] \notin Holding
  BY NoneAssumption DEF Inv, LockInv
<1>2. NormaliseInv'
  BY <1>1 DEF NormaliseInv, Holding
<1>3. RotateInv'
  BY <1>1 DEF RotateInv, Holding
<1>4. LogBounded'
  BY DEF LogBounded, Fine
<1>5. QED
  BY <1>2, <1>3, <1>4

(* Taking the lock shows what is to be put in order. *)
LEMMA OpenStep ==
    ASSUME Inv, NEW w \in Writers, Open(w)
    PROVE  NormaliseInv' /\ RotateInv' /\ LogBounded'
<1> USE DEF Goto, Visit
<1>1. /\ lock \in {w, None} /\ UNCHANGED <<count, files>> /\ pc'[w] = "normalise"
      /\ left'[w] = {i \in Indexes : Exists(i) /\ (i > count \/ Size(i) > MaxBytes)}
      /\ \A v \in Writers \ {w} : pc'[v] = pc[v] /\ left'[v] = left[v] /\ chunk'[v] = chunk[v]
  BY DEF Open, Inv, TypeOK
<1>2. \A i \in Indexes : ~(i > count \/ Size(i) > MaxBytes) => Fine(i)
  <2> TAKE i \in Indexes
  <2>1. i \in Nat /\ count \in Nat /\ MaxBytes \in Nat /\ Size(i) \in Nat
    <3>1. TypeOK
      BY DEF Inv
    <3>2. Size(i) \in Nat
      BY <3>1, SizeType
    <3>3. i \in Nat /\ count \in Nat
      BY <3>1, CountsAssumption DEF TypeOK, Indexes
    <3>4. QED
      BY <3>2, <3>3, SizesAssumption
  <2>2. QED
    BY <2>1, SizeType DEF Fine, Inv
<1>3. \A i \in Indexes : (Fine(i) <=> Fine(i)') /\ (Exists(i) <=> Exists(i)') /\ Size(i)' = Size(i)
  BY <1>1 DEF Fine, Exists, Size
<1>4. (\E v \in Writers : pc'[v] \in Logging) => \A i \in Indexes : Fine(i)'
  BY <1>1, <1>3 DEF Inv, LogBounded, Logging, Fine
<1>5. /\ \A i \in left'[w] : Exists(i)' /\ (i > count \/ Size(i)' > MaxBytes)
      /\ \A i \in Indexes \ left'[w] : Fine(i)'
  BY <1>1, <1>2, <1>3 DEF Fine
<1>6. QED
  BY <1>1, <1>4, <1>5, FilesChange

(* A file less is superfluous. *)
LEMMA RemoveStep ==
    ASSUME Inv, NEW w \in Writers, RemoveSuperfluous(w)
    PROVE  NormaliseInv' /\ RotateInv' /\ LogBounded'
<1> USE DEF Goto, Visit
<1>1. PICK k \in left[w] : files' = [files EXCEPT ![k] = None] /\ left' = [left EXCEPT ![w] = left[w] \ {k}]
  BY DEF RemoveSuperfluous
<1>2. /\ lock = w /\ UNCHANGED <<count, pc, chunk>> /\ pc[w] = "normalise" /\ k \in Indexes
      /\ \A v \in Writers \ {w} : left'[v] = left[v]
      /\ left'[w] = left[w] \ {k}
  BY <1>1 DEF RemoveSuperfluous, Inv, LockInv, Holding, TypeOK
<1>3. /\ ~Exists(k)'
      /\ \A i \in Indexes \ {k} : files'[i] = files[i]
  BY <1>1, <1>2 DEF Exists, Inv, TypeOK
<1>4. \A i \in Indexes : Fine(i) => Fine(i)'
  BY <1>2, <1>3 DEF Fine, Exists
<1>5. (\E v \in Writers : pc'[v] \in Logging) => \A i \in Indexes : Fine(i)'
  BY <1>2, <1>4 DEF Inv, LogBounded, Fine
<1>6. /\ \A i \in left'[w] : Exists(i)' /\ (i > count \/ Size(i)' > MaxBytes)
      /\ \A i \in Indexes \ left'[w] : Fine(i)'
  <2>1. \A i \in left[w] : i \in Indexes /\ Exists(i) /\ (i > count \/ Size(i) > MaxBytes)
    BY <1>2 DEF Inv, NormaliseInv, TypeOK
  <2>2. \A i \in Indexes \ left[w] : Fine(i)
    BY <1>2 DEF Inv, NormaliseInv
  <2>3. \A i \in Indexes \ {k} : Exists(i)' = Exists(i) /\ Size(i)' = Size(i)
    BY <1>3 DEF Exists, Size
  <2>4. Fine(k)'
    BY <1>3 DEF Fine
  <2>5. QED
    BY <1>2, <1>4, <2>1, <2>2, <2>3, <2>4
<1>7. QED
  BY <1>2, <1>5, <1>6, FilesChange

(* A file less is too long. *)
LEMMA ReplaceStep ==
    ASSUME Inv, NEW w \in Writers, ReplaceByTail(w)
    PROVE  NormaliseInv' /\ RotateInv' /\ LogBounded'
<1> USE DEF Goto, Visit
<1>1. PICK k \in left[w] : /\ k <= count /\ files' = [files EXCEPT ![k] = TailOf(files[k])]
                           /\ left' = [left EXCEPT ![w] = left[w] \ {k}]
  BY DEF ReplaceByTail
<1>2. /\ lock = w /\ UNCHANGED <<count, chunk>> /\ pc[w] = "replace" /\ pc'[w] = "normalise" /\ k \in Indexes
      /\ \A v \in Writers \ {w} : pc'[v] = pc[v] /\ left'[v] = left[v]
      /\ left'[w] = left[w] \ {k}
  BY <1>1 DEF ReplaceByTail, Inv, LockInv, Holding, TypeOK
<1>3. \A i \in left[w] : i \in Indexes /\ Exists(i) /\ (i > count \/ Size(i) > MaxBytes)
  BY <1>2 DEF Inv, NormaliseInv, TypeOK
<1>4. Size(k) > MaxBytes
  <2>1. k \in Nat /\ count \in Nat
    BY <1>2, CountsAssumption DEF Inv, TypeOK, Indexes
  <2>2. QED
    BY <1>1, <1>3, <2>1
<1>5. files'[k] \in Seq(Nat) /\ Len(files'[k]) = MaxBytes /\ \A i \in Indexes \ {k} : files'[i] = files[i]
  <2>1. files[k] \in Seq(Nat) /\ Len(files[k]) > MaxBytes
    BY <1>2, <1>3, <1>4, SizeType DEF Inv
  <2>2. QED
    BY <1>1, <1>2, <2>1, TailFits DEF Inv, TypeOK
<1>6. Fine(k)'
  BY <1>1, <1>2, <1>5, SizesAssumption DEF Fine
<1>7. \A i \in Indexes \ {k} : Exists(i)' = Exists(i) /\ Size(i)' = Size(i) /\ (Fine(i) => Fine(i)')
  BY <1>2, <1>5 DEF Exists, Size, Fine
<1>8. (\E v \in Writers : pc'[v] \in Logging) => \A i \in Indexes : Fine(i)'
  BY <1>2, <1>6, <1>7 DEF Inv, LogBounded, Fine, Logging
<1>9. /\ \A i \in left'[w] : Exists(i)' /\ (i > count \/ Size(i)' > MaxBytes)
      /\ \A i \in Indexes \ left'[w] : Fine(i)'
  <2>1. \A i \in Indexes \ left[w] : Fine(i)
    BY <1>2 DEF Inv, NormaliseInv
  <2>2. QED
    BY <1>2, <1>3, <1>6, <1>7, <2>1
<1>10. QED
  BY <1>2, <1>8, <1>9, FilesChange

LEMMA WriteTailStep ==
    ASSUME Inv, NEW w \in Writers, WriteTail(w)
    PROVE  NormaliseInv' /\ RotateInv' /\ LogBounded'
<1> USE DEF Goto
<1>1. /\ lock = w /\ UNCHANGED <<count, files, left, chunk>> /\ pc[w] = "normalise" /\ pc'[w] = "replace"
      /\ \A v \in Writers \ {w} : pc'[v] = pc[v]
  BY DEF WriteTail, Inv, LockInv, Holding, TypeOK
<1>2. \A i \in Indexes : Fine(i)' = Fine(i) /\ Exists(i)' = Exists(i) /\ Size(i)' = Size(i)
  BY <1>1 DEF Fine, Exists, Size
<1>3. (\E v \in Writers : pc'[v] \in Logging) => \A i \in Indexes : Fine(i)'
  BY <1>1, <1>2 DEF Inv, LogBounded, Fine, Logging
<1>4. /\ \A i \in left'[w] : Exists(i)' /\ (i > count \/ Size(i)' > MaxBytes)
      /\ \A i \in Indexes \ left'[w] : Fine(i)'
  <2>1. left[w] \subseteq Indexes
    BY DEF Inv, TypeOK
  <2>2. QED
    BY <1>1, <1>2, <2>1 DEF Inv, NormaliseInv
<1>5. QED
  BY <1>1, <1>3, <1>4, FilesChange

(* The steps of a wrapper that leave the files alone and free or leave the lock *)
LEMMA QuietStep ==
    ASSUME Inv, NEW w \in Writers, Opened(w) \/ Read(w) \/ End(w) \/ Kill(w)
    PROVE  NormaliseInv' /\ RotateInv' /\ LogBounded'
<1> USE DEF Goto, Visit, Holding, Logging
<1>1. ASSUME Opened(w) PROVE \A i \in Indexes : Fine(i)
  BY <1>1 DEF Opened, Inv, NormaliseInv
<1>2. /\ UNCHANGED <<files, count>>
      /\ \A v \in Writers \ {w} : pc'[v] = pc[v] /\ left'[v] = left[v] /\ chunk'[v] = chunk[v]
      /\ pc'[w] \in {"read", "write", "done", "dead"}
  BY DEF Opened, Read, End, Kill, Ends, Inv, TypeOK
<1>3. pc'[w] \in Logging => (\E v \in Writers : pc[v] \in Logging) \/ \A i \in Indexes : Fine(i)
  BY <1>1 DEF Read, End, Kill, Ends, Inv, TypeOK
<1>4. QED
  BY <1>2, <1>3, FilesKept

(* A rotation starts with every file that exists, and what is appended     *)
(* without one fits.                                                       *)
LEMMA WriteStep ==
    ASSUME Inv, NEW w \in Writers, Write(w)
    PROVE  NormaliseInv' /\ RotateInv' /\ LogBounded'
<1> USE DEF Goto, Visit
<1>1. /\ lock = None /\ UNCHANGED <<count, files, chunk>> /\ pc[w] = "write"
      /\ \A v \in Writers \ {w} : pc'[v] = pc[v] /\ left'[v] = left[v]
      /\ \/ pc'[w] = "rotate" /\ left'[w] = {i \in 0..count : Exists(i)} /\ Size(0) > 0
         \/ pc'[w] = "append" /\ ~(Size(0) > 0 /\ Size(0) + chunk[w] > MaxBytes)
  BY DEF Write, Inv, TypeOK
<1>2. /\ 0 \in Indexes /\ MaxBytes \in Nat /\ Size(0) \in Nat /\ chunk[w] \in 0..MaxBytes /\ count \in Nat
  BY SizesAssumption, CountsAssumption, SizeType DEF Indexes, Inv, TypeOK
<1>3. pc'[w] = "append" => Size(0)' + chunk'[w] <= MaxBytes
  <2>1. Size(0)' = Size(0) /\ chunk'[w] = chunk[w]
    BY <1>1 DEF Size, Exists
  <2>2. QED
    BY <1>1, <1>2, <2>1
<1>4. pc'[w] = "rotate" => 0 \in left'[w] /\ left'[w] \subseteq 0..count
  <2>1. Size(0) > 0 => Exists(0)
    BY DEF Size
  <2>2. QED
    BY <1>1, <1>2, <2>1
<1>5. \A i \in Indexes : Fine(i)'
  BY <1>1 DEF Fine, Exists, Inv, LogBounded, Logging
<1>6. QED
  BY <1>1, <1>3, <1>4, <1>5, FilesChange

(* A renamed file is as long as before, and its number within the count.   *)
LEMMA RotateFine ==
    ASSUME Inv, NEW w \in Writers, Rotate(w)
    PROVE  \A i \in Indexes : Fine(i)'
<1>1. PICK k \in left[w] : files' = Moved(k)
  BY DEF Rotate
<1>2. count' = count /\ pc[w] = "rotate"
  BY DEF Rotate
<1>3. k \in 0..count /\ count \in 0..MaxIndex /\ MaxIndex \in Nat
  BY <1>2, CountsAssumption DEF Inv, RotateInv, TypeOK
<1>4. \A j \in Indexes : \/ files'[j] \in {None, files[j]}
                         \/ j = k + 1 /\ k < count /\ files'[j] = files[k]
  BY <1>1, <1>3, MovedType DEF Inv
<1>5. \A i \in Indexes : Fine(i)
  BY <1>2 DEF Inv, LogBounded, Logging, Fine
<1>6. k \in Indexes
  BY <1>3 DEF Indexes
<1> TAKE i \in Indexes
<1>7. CASE files'[i] \in {None, files[i]}
  BY <1>2, <1>5, <1>7 DEF Fine, Exists
<1>8. CASE i = k + 1 /\ k < count /\ files'[i] = files[k]
  BY <1>2, <1>3, <1>5, <1>6, <1>8 DEF Fine, Exists
<1>9. QED
  BY <1>4, <1>7, <1>8

LEMMA RotateStep ==
    ASSUME Inv, NEW w \in Writers, Rotate(w)
    PROVE  NormaliseInv' /\ RotateInv' /\ LogBounded'
<1> USE DEF Goto, Visit
<1>1. PICK k \in left[w] : /\ \A j \in left[w] : j <= k
                           /\ files' = Moved(k)
                           /\ left' = [left EXCEPT ![w] = left[w] \ {k}]
                           /\ Goto(w, IF left[w] = {k} THEN "append" ELSE "rotate")
  BY DEF Rotate
<1>2. /\ lock = w /\ UNCHANGED <<count, chunk>> /\ pc[w] = "rotate" /\ left'[w] = left[w] \ {k}
      /\ \A v \in Writers \ {w} : pc'[v] = pc[v] /\ left'[v] = left[v]
      /\ pc'[w] = IF left[w] = {k} THEN "append" ELSE "rotate"
  BY <1>1 DEF Rotate, Inv, LockInv, Holding, TypeOK
<1>3. 0 \in left[w] /\ left[w] \subseteq 0..count /\ k \in 0..count /\ count \in 0..MaxIndex /\ MaxIndex \in Nat
  BY <1>2, CountsAssumption DEF Inv, RotateInv, TypeOK
<1>4. /\ files'[k] = None
      /\ \A j \in Indexes : \/ files'[j] \in {None, files[j]}
                            \/ j = k + 1 /\ k < count /\ files'[j] = files[k]
  BY <1>1, <1>3, MovedType DEF Inv
<1>5. \A i \in Indexes : Fine(i)'
  BY RotateFine
<1>6. pc'[w] = "rotate" => 0 \in left'[w] /\ left'[w] \subseteq 0..count
  <2>1. ASSUME left[w] # {k} PROVE k # 0
    BY <1>1, <1>3, <2>1
  <2>2. QED
    BY <1>2, <1>3, <2>1
<1>7. pc'[w] = "append" => Size(0)' + chunk'[w] <= MaxBytes
  <2>1. ASSUME left[w] = {k} PROVE k = 0
    BY <1>3, <2>1
  <2>2. ASSUME k = 0 PROVE Size(0)' = 0
    BY <1>4, <2>2 DEF Size, Exists
  <2>3. chunk'[w] \in 0..MaxBytes /\ MaxBytes \in Nat
    BY <1>2, SizesAssumption DEF Inv, TypeOK
  <2>4. QED
    BY <1>2, <2>1, <2>2, <2>3
<1>8. pc'[w] \in {"append", "rotate"}
  BY <1>2
<1>9. QED
  BY <1>2, <1>5, <1>6, <1>7, <1>8, FilesChange

(* What is appended, in whole or in part, fits into the current file.      *)
LEMMA LogStep ==
    ASSUME Inv, NEW w \in Writers, pc[w] = "append", NEW n \in 0..chunk[w], Log(n), count' = count
    PROVE  \A i \in Indexes : Fine(i)'
<1>1. 0 \in Indexes /\ MaxBytes \in Nat /\ Size(0) \in Nat /\ chunk[w] \in 0..MaxBytes /\ n \in Nat /\ count \in Nat
  BY SizesAssumption, CountsAssumption, SizeType DEF Indexes, Inv, TypeOK
<1>2. Len(files'[0]) = Size(0) + n /\ \A i \in Indexes \ {0} : files'[i] = files[i]
  BY <1>1, LogType DEF Inv
<1>3. Size(0) + chunk[w] <= MaxBytes
  BY DEF Inv, RotateInv
<1>4. Fine(0)'
  BY <1>1, <1>2, <1>3 DEF Fine
<1>5. \A i \in Indexes \ {0} : Fine(i)'
  BY <1>2 DEF Fine, Exists, Inv, LogBounded, Logging
<1>6. QED
  BY <1>4, <1>5

LEMMA AppendStep ==
    ASSUME Inv, NEW w \in Writers, AppendChunk(w) \/ Fail(w)
    PROVE  NormaliseInv' /\ RotateInv' /\ LogBounded'
<1> USE DEF Goto, Visit
<1>1. /\ pc[w] \in Holding /\ lock = w /\ UNCHANGED count /\ pc'[w] \in {"read", "dead"}
      /\ \A v \in Writers \ {w} : pc'[v] = pc[v] /\ left'[v] = left[v] /\ chunk'[v] = chunk[v]
  BY DEF AppendChunk, Fail, Ends, Inv, LockInv, Holding, TypeOK
<1>2. CASE pc[w] = "append" /\ \E n \in 0..chunk[w] : Log(n)
  <2>1. \A i \in Indexes : Fine(i)'
    BY <1>1, <1>2, LogStep
  <2>2. QED
    BY <1>1, <2>1, FilesChange
<1>3. CASE UNCHANGED files /\ pc'[w] = "dead"
  BY <1>1, <1>3, FilesKept DEF Logging
<1>4. chunk[w] \in Nat
  BY SizesAssumption DEF Inv, TypeOK
<1>5. CASE AppendChunk(w)
  BY <1>2, <1>4, <1>5 DEF AppendChunk
<1>6. CASE Fail(w)
  <2>1. pc'[w] = "dead"
    BY <1>6 DEF Fail, Ends, Inv, TypeOK
  <2>2. 1..chunk[w] - 1 \subseteq 0..chunk[w]
    BY <1>4
  <2>3. QED
    BY <1>2, <1>3, <1>6, <2>1, <2>2 DEF Fail
<1>7. QED
  BY <1>5, <1>6

-----------------------------------------------------------------------------
LEMMA InvStep == Inv /\ [Next]_vars => Inv'
<1> SUFFICES ASSUME Inv, [Next]_vars PROVE Inv'
  OBVIOUS
<1>1. TypeOK' /\ LockInv'
  BY StepType, LockStep DEF Inv
<1>2. NormaliseInv' /\ RotateInv' /\ LogBounded'
  <2>1. CASE UNCHANGED vars
    BY <2>1 DEF vars, procVars, Inv, NormaliseInv, RotateInv, LogBounded, Fine, Exists, Size
  <2>2. QED
    BY StepCases, <2>1, OpenStep, RemoveStep, ReplaceStep, WriteTailStep, QuietStep, WriteStep,
       RotateStep, AppendStep
<1>3. QED
  BY <1>1, <1>2 DEF Inv

-----------------------------------------------------------------------------
(* The order of the bytes *)

Files == [Indexes -> Seq(Nat) \cup {None}]

LEMMA ByteType ==
    ASSUME NEW f \in Files, NEW i \in Indexes, NEW k \in Numbers(f, i)
    PROVE  f[i] # None /\ f[i] \in Seq(Nat) /\ k \in 1..Len(f[i]) /\ k \in Nat /\ f[i][k] \in Nat /\ i \in Nat
<1>1. f[i] # None /\ k \in 1..Len(f[i])
  BY DEF Numbers
<1>2. f[i] \in Seq(Nat)
  BY <1>1 DEF Files
<1>3. i \in Nat
  BY CountsAssumption DEF Indexes
<1>4. QED
  BY <1>1, <1>2, <1>3

(* Without output, the bytes are all from before. *)
LEMMA OldOrdered ==
    ASSUME NEW f, \A i \in Indexes : \A k \in Numbers(f, i) : f[i][k] = 0
    PROVE  Ascending(f) /\ \E n \in 0..0 : AllAfter(f, n, 0)
<1>1. AllAfter(f, 0, 0)
  BY DEF AllAfter
<1>2. QED
  BY <1>1 DEF Ascending

(* Renaming the last file that matters keeps order and bytes.              *)
LEMMA RenameOrdered ==
    ASSUME NEW f \in Files, NEW g \in Files, NEW i \in Indexes, i + 1 \in Indexes,
           f[i + 1] = None, g[i] = None, g[i + 1] = f[i],
           \A j \in Indexes \ {i, i + 1} : g[j] = f[j],
           Ascending(f)
    PROVE  /\ Ascending(g)
           /\ \A b : Has(f, b) => Has(g, b)
           /\ \A j \in Indexes : \A k \in Numbers(g, j) : Has(f, g[j][k])
<1> DEFINE src(j) == IF j = i + 1 THEN i ELSE j
<1>1. i \in Nat /\ i # i + 1 /\ \A j \in Indexes : j \in Nat
  BY CountsAssumption DEF Indexes
<1>2. ASSUME NEW j \in Indexes, NEW k \in Numbers(g, j)
      PROVE  src(j) \in Indexes /\ k \in Numbers(f, src(j)) /\ g[j][k] = f[src(j)][k] /\ j # i
  <2>1. j # i
    BY <1>2 DEF Numbers
  <2>2. CASE j = i + 1
    BY <1>1, <1>2, <2>2 DEF Numbers
  <2>3. CASE j # i + 1
    BY <1>2, <2>1, <2>3 DEF Numbers
  <2>4. QED
    BY <2>1, <2>2, <2>3
<1>3. \A j, l \in Indexes \ {i} : j > l => src(j) > src(l)
  BY <1>1
<1>4. Ascending(g)
  <2> SUFFICES ASSUME NEW j \in Indexes, NEW l \in Indexes,
                      NEW k \in Numbers(g, j), NEW m \in Numbers(g, l),
                      j > l \/ (j = l /\ k < m)
               PROVE  g[j][k] < g[l][m] \/ (g[j][k] = 0 /\ g[l][m] = 0)
    BY DEF Ascending
  <2>1. /\ src(j) \in Indexes /\ k \in Numbers(f, src(j)) /\ g[j][k] = f[src(j)][k] /\ j # i
        /\ src(l) \in Indexes /\ m \in Numbers(f, src(l)) /\ g[l][m] = f[src(l)][m] /\ l # i
    BY <1>2
  <2>2. src(j) > src(l) \/ (src(j) = src(l) /\ k < m)
    BY <1>3, <2>1
  <2> HIDE DEF src
  <2>3. QED
    BY <2>1, <2>2 DEF Ascending
<1>5. ASSUME NEW b, Has(f, b) PROVE Has(g, b)
  <2>0. PICK j \in Indexes : \E k \in Numbers(f, j) : f[j][k] = b
    BY <1>5 DEF Has
  <2>1. PICK k \in Numbers(f, j) : f[j][k] = b
    BY <2>0
  <2>2. j # i + 1
    BY <2>1 DEF Numbers
  <2>3. CASE j = i
    BY <1>1, <2>1, <2>3 DEF Has, Numbers
  <2>4. CASE j # i
    BY <2>1, <2>2, <2>4 DEF Has, Numbers
  <2>5. QED
    BY <2>3, <2>4
<1>6. \A j \in Indexes : \A k \in Numbers(g, j) : Has(f, g[j][k])
  <2> TAKE j \in Indexes
  <2> TAKE k \in Numbers(g, j)
  <2>1. src(j) \in Indexes /\ k \in Numbers(f, src(j)) /\ g[j][k] = f[src(j)][k]
    BY <1>2
  <2> HIDE DEF src
  <2>2. QED
    BY <2>1 DEF Has
<1>7. QED
  BY <1>4, <1>5, <1>6

(* Removing the oldest file takes the first of the bytes that are there.   *)
LEMMA RemoveOrdered ==
    ASSUME NEW f \in Files, NEW g \in Files, NEW i \in Indexes, NEW last \in Nat,
           g[i] = None, \A j \in Indexes \ {i} : g[j] = f[j],
           \A j \in Indexes : j > i => f[j] = None,
           Ascending(f), NEW n \in 0..last, AllAfter(f, n, last)
    PROVE  Ascending(g) /\ \E m \in 0..last : AllAfter(g, m, last)
<1>1. \A j \in Indexes : \A k \in Numbers(g, j) : j < i /\ k \in Numbers(f, j) /\ g[j][k] = f[j][k]
  <2> TAKE j \in Indexes
  <2> TAKE k \in Numbers(g, j)
  <2>1. j # i /\ g[j] # None
    BY DEF Numbers
  <2>2. i \in Nat /\ j \in Nat
    BY CountsAssumption DEF Indexes
  <2>3. QED
    BY <2>1, <2>2 DEF Numbers
<1>2. Ascending(g)
  BY <1>1 DEF Ascending
<1>3. CASE Numbers(f, i) = {}
  <2>1. \A b : Has(f, b) => Has(g, b)
    BY <1>3 DEF Has, Numbers
  <2>2. AllAfter(g, n, last)
    BY <1>1, <2>1 DEF AllAfter
  <2>3. QED
    BY <1>2, <2>2
<1>4. CASE Numbers(f, i) # {}
  <2> DEFINE z == Len(f[i])
             m == f[i][z]
  <2>1. f[i] \in Seq(Nat) /\ Numbers(f, i) = 1..z /\ z \in Nat
    BY <1>4 DEF Numbers, Files
  <2>2. z \in Numbers(f, i) /\ m \in Nat
    BY <1>4, <2>1
  <2>3. \A k \in Numbers(f, i) : k = z \/ f[i][k] < m \/ f[i][k] = 0
    <3> TAKE k \in Numbers(f, i)
    <3>1. k = z \/ k < z
      BY <2>1
    <3>2. QED
      BY <2>2, <3>1 DEF Ascending
  <2>4. \A j \in Indexes : \A k \in Numbers(g, j) : m < g[j][k] \/ (m = 0 /\ g[j][k] = 0)
    <3> TAKE j \in Indexes
    <3> TAKE k \in Numbers(g, j)
    <3>1. j < i /\ k \in Numbers(f, j) /\ g[j][k] = f[j][k]
      BY <1>1
    <3>2. i > j
      BY <3>1, CountsAssumption DEF Indexes
    <3> HIDE DEF m, z
    <3>3. m = f[i][z]
      BY DEF m
    <3>4. f[i][z] < f[j][k] \/ (f[i][z] = 0 /\ f[j][k] = 0)
      BY <2>2, <3>1, <3>2 DEF Ascending
    <3>5. QED
      BY <3>1, <3>3, <3>4
  <2>5. m = 0 \/ m \in (n + 1)..last
    BY <2>2 DEF AllAfter
  <2> HIDE DEF m, z
  <2>6. ASSUME NEW b \in Nat, Has(f, b), b > m PROVE Has(g, b)
    <3>0. PICK j \in Indexes : \E k \in Numbers(f, j) : f[j][k] = b
      BY <2>6 DEF Has
    <3>1. PICK k \in Numbers(f, j) : f[j][k] = b
      BY <3>0
    <3>2. j # i
      <4>1. ASSUME j = i PROVE f[i][k] = m \/ f[i][k] < m \/ f[i][k] = 0
        BY <2>3, <3>1, <4>1 DEF m
      <4>2. QED
        BY <2>2, <2>6, <3>1, <4>1
    <3>3. k \in Numbers(g, j) /\ g[j][k] = b
      BY <3>1, <3>2 DEF Numbers
    <3>4. QED
      BY <3>3 DEF Has
  <2>7. CASE m = 0
    <3>1. AllAfter(g, n, last)
      <4>1. \A b \in (n + 1)..last : b \in Nat /\ b > m
        BY <2>7
      <4>2. QED
        BY <1>1, <2>6, <4>1 DEF AllAfter
    <3>2. QED
      BY <1>2, <3>1
  <2>8. CASE m # 0
    <3>1. m \in 0..last /\ m \in (n + 1)..last
      BY <2>5, <2>8
    <3>2. \A j \in Indexes : \A k \in Numbers(g, j) : g[j][k] = 0 \/ g[j][k] \in (m + 1)..last
      <4> TAKE j \in Indexes
      <4> TAKE k \in Numbers(g, j)
      <4>1. m < g[j][k]
        BY <2>4, <2>8
      <4>2. g[j][k] \in (n + 1)..last
        BY <1>1, <4>1, <2>2 DEF AllAfter
      <4>3. QED
        BY <2>2, <4>1, <4>2
    <3>3. \A b \in (m + 1)..last : Has(g, b)
      <4>1. \A b \in (m + 1)..last : b \in Nat /\ b > m /\ b \in (n + 1)..last
        BY <2>2, <3>1
      <4>2. QED
        BY <2>6, <4>1 DEF AllAfter
    <3>4. QED
      BY <1>2, <3>1, <3>2, <3>3 DEF AllAfter
  <2>9. QED
    BY <2>7, <2>8
<1>5. QED
  BY <1>3, <1>4

(* What is appended is newer than all that is there.                       *)
LEMMA AppendOrdered ==
    ASSUME NEW f \in Files, NEW g \in Files, NEW size \in Nat, NEW last \in Nat, NEW c \in Nat,
           0 \in Indexes, size = (IF f[0] = None THEN 0 ELSE Len(f[0])),
           g[0] # None, Len(g[0]) = size + c,
           \A k \in 1..size : g[0][k] = f[0][k],
           \A k \in (size + 1)..(size + c) : g[0][k] = last + (k - size),
           \A j \in Indexes \ {0} : g[j] = f[j],
           Ascending(f), NEW n \in 0..last, AllAfter(f, n, last)
    PROVE  Ascending(g) /\ AllAfter(g, n, last + c) /\ \A b : Has(f, b) => Has(g, b)
<1> DEFINE New(j, k) == j = 0 /\ k > size
<1>0. size \in Nat /\ last \in Nat /\ c \in Nat /\ \A j \in Indexes : j \in Nat
  BY CountsAssumption DEF Indexes
<1> HIDE DEF New
<1>1. ASSUME NEW j \in Indexes, NEW k \in Numbers(g, j)
      PROVE  /\ k \in Nat
             /\ New(j, k) => j = 0 /\ k > size /\ k <= size + c /\ g[j][k] = last + (k - size)
             /\ ~New(j, k) => /\ ~(j = 0 /\ k > size)
                              /\ k \in Numbers(f, j) /\ g[j][k] = f[j][k]
                              /\ f[j][k] = 0 \/ f[j][k] \in (n + 1)..last
                              /\ f[j][k] \in 0..last
  <2>1. k \in Nat /\ (j = 0 => k \in 1..(size + c))
    BY <1>1, ByteType DEF Numbers
  <2>2. CASE New(j, k)
    <3>1. j = 0 /\ k > size
      BY <2>2 DEF New
    <3>2. k \in (size + 1)..(size + c)
      BY <2>1, <3>1
    <3>3. k <= size + c
      BY ONLY <1>0, <3>2
    <3>4. g[j][k] = last + (k - size)
      BY <3>1, <3>2
    <3>5. QED
      BY ONLY <2>1, <2>2, <3>1, <3>3, <3>4
  <2>3. CASE ~New(j, k)
    <3>1. k \in Numbers(f, j) /\ g[j][k] = f[j][k]
      <4>1. CASE j = 0
        <5>1. k \in 1..size
          BY <2>1, <2>3, <4>1 DEF New
        <5>2. f[0] # None
          BY <5>1
        <5>3. QED
          BY <4>1, <5>1, <5>2 DEF Numbers
      <4>2. CASE j # 0
        BY <1>1, <4>2 DEF Numbers
      <4>3. QED
        BY <4>1, <4>2
    <3>2. f[j][k] = 0 \/ f[j][k] \in (n + 1)..last
      BY <3>1 DEF AllAfter
    <3>3. f[j][k] \in 0..last
      BY <3>2
    <3>4. ~(j = 0 /\ k > size)
      BY <2>3 DEF New
    <3>5. QED
      BY <2>1, <2>3, <3>1, <3>2, <3>3, <3>4
  <2>4. QED
    BY <2>2, <2>3
<1>2. Ascending(g)
  <2> SUFFICES ASSUME NEW i \in Indexes, NEW j \in Indexes,
                      NEW k \in Numbers(g, i), NEW m \in Numbers(g, j),
                      i > j \/ (i = j /\ k < m)
               PROVE  g[i][k] < g[j][m] \/ (g[i][k] = 0 /\ g[j][m] = 0)
    BY DEF Ascending
  <2>1. k \in Nat /\ m \in Nat /\ i \in Nat /\ j \in Nat
    BY <1>0, <1>1
  <2>2. CASE New(i, k)
    <3>1. i = 0 /\ k > size /\ g[i][k] = last + (k - size)
      BY <1>1, <2>2
    <3>2. j = 0 /\ m > size /\ k < m
      BY <2>1, <3>1
    <3>3. New(j, m)
      BY <3>2 DEF New
    <3>4. g[j][m] = last + (m - size)
      BY <1>1, <3>3
    <3>5. last + (k - size) < last + (m - size)
      BY ONLY <1>0, <2>1, <3>2
    <3>6. QED
      BY ONLY <3>1, <3>4, <3>5
  <2>3. CASE ~New(i, k) /\ New(j, m)
    <3>1. g[i][k] \in 0..last
      BY <1>1, <2>3
    <3>2. g[j][m] = last + (m - size) /\ m > size
      BY <1>1, <2>3
    <3>3. last + (m - size) > last /\ last + (m - size) \in Nat
      BY ONLY <1>0, <2>1, <3>2
    <3>4. QED
      BY ONLY <1>0, <3>1, <3>2, <3>3
  <2>4. CASE ~New(i, k) /\ ~New(j, m)
    <3>1. /\ k \in Numbers(f, i) /\ g[i][k] = f[i][k]
          /\ m \in Numbers(f, j) /\ g[j][m] = f[j][m]
      BY <1>1, <2>4
    <3>2. QED
      BY <3>1 DEF Ascending
  <2>5. QED
    BY <2>2, <2>3, <2>4
<1>3. ASSUME NEW b, Has(f, b) PROVE Has(g, b)
  <2>0. PICK j \in Indexes : \E k \in Numbers(f, j) : f[j][k] = b
    BY <1>3 DEF Has
  <2>1. PICK k \in Numbers(f, j) : f[j][k] = b
    BY <2>0
  <2>2. k \in Numbers(g, j) /\ g[j][k] = f[j][k]
    <3>1. CASE j = 0
      <4>1. k \in 1..size
        BY <2>1, <3>1 DEF Numbers
      <4>2. k \in 1..(size + c)
        BY <4>1
      <4>3. QED
        BY <3>1, <4>1, <4>2 DEF Numbers
    <3>2. CASE j # 0
      BY <2>1, <3>2 DEF Numbers
    <3>3. QED
      BY <3>1, <3>2
  <2>3. QED
    BY <2>1, <2>2 DEF Has
<1>4. ASSUME NEW b \in (last + 1)..(last + c) PROVE Has(g, b)
  <2>1. size + (b - last) \in (size + 1)..(size + c) /\ size + (b - last) \in 1..(size + c)
    OBVIOUS
  <2>2. g[0][size + (b - last)] = b
    <3>1. last + ((size + (b - last)) - size) = b
      OBVIOUS
    <3>2. QED
      BY <2>1, <3>1
  <2>3. size + (b - last) \in Numbers(g, 0)
    BY <2>1 DEF Numbers
  <2>4. QED
    BY <2>2, <2>3 DEF Has
<1>5. AllAfter(g, n, last + c)
  <2>1. \A j \in Indexes : \A k \in Numbers(g, j) : g[j][k] = 0 \/ g[j][k] \in (n + 1)..(last + c)
    <3> TAKE j \in Indexes
    <3> TAKE k \in Numbers(g, j)
    <3>1. CASE New(j, k)
      <4>1. g[j][k] = last + (k - size) /\ k \in Nat /\ k > size /\ k <= size + c
        BY <1>1, <3>1
      <4>2. last + (k - size) \in (n + 1)..(last + c)
        <5>1. k \in Nat /\ k > size /\ k <= size + c
          BY <4>1
        <5> HIDE <4>1
        <5>2. k - size \in 1..c /\ n \in 0..last
          BY <5>1
        <5>3. QED
          BY <5>2
      <4>3. QED
        BY <4>1, <4>2
    <3>2. CASE ~New(j, k)
      <4>1. g[j][k] = f[j][k] /\ (f[j][k] = 0 \/ f[j][k] \in (n + 1)..last)
        BY <1>1, <3>2
      <4>2. QED
        BY <4>1
    <3>3. QED
      BY <3>1, <3>2
  <2>2. \A b \in (n + 1)..(last + c) : b \in (n + 1)..last \/ b \in (last + 1)..(last + c)
    OBVIOUS
  <2>3. QED
    BY <1>3, <1>4, <2>1, <2>2 DEF AllAfter
<1>6. QED
  BY <1>2, <1>3, <1>5

(* The tail of a file has no byte that the file has not.                   *)
LEMMA TailBytes ==
    ASSUME NEW s \in Seq(Nat), Len(s) > MaxBytes, NEW k \in 1..MaxBytes
    PROVE  \E m \in 1..Len(s) : TailOf(s)[k] = s[m]
<1>1. MaxBytes \in Nat /\ Len(s) \in Nat
  BY SizesAssumption
<1>2. (Len(s) - MaxBytes) + k \in 1..Len(s)
  BY <1>1
<1>3. TailOf(s)[k] = s[(Len(s) - MaxBytes) + k]
  BY <1>1 DEF TailOf
<1>4. QED
  BY <1>2, <1>3

(* What a rotation's step does, exactly *)
LEMMA MovedExact ==
    ASSUME TypeOK, NEW i \in 0..count, files' = Moved(i)
    PROVE  /\ i \in Indexes /\ files'[i] = None
           /\ i = count => \A j \in Indexes \ {i} : files'[j] = files[j]
           /\ i # count => /\ i + 1 \in Indexes /\ files'[i + 1] = files[i]
                          /\ \A j \in Indexes \ {i, i + 1} : files'[j] = files[j]
<1>1. MaxIndex \in Nat /\ count \in 0..MaxIndex
  BY CountsAssumption DEF TypeOK
<1>2. i \in Indexes /\ (i # count => i + 1 \in Indexes /\ i + 1 # i)
  BY <1>1 DEF Indexes
<1>3. CASE i = count
  BY <1>2, <1>3 DEF Moved, TypeOK
<1>4. CASE i # count
  BY <1>2, <1>4 DEF Moved, TypeOK
<1>5. QED
  BY <1>2, <1>3, <1>4

(* What an append does, exactly *)
LEMMA LogExact ==
    ASSUME TypeOK, NEW n \in Nat, Log(n)
    PROVE  /\ files' \in Files /\ files'[0] # None
           /\ Len(files'[0]) = Size(0) + n
           /\ \A k \in 1..Size(0) : files'[0][k] = files[0][k]
           /\ \A k \in (Size(0) + 1)..(Size(0) + n) : files'[0][k] = written + (k - Size(0))
           /\ \A j \in Indexes \ {0} : files'[j] = files[j]
           /\ written' = written + n
<1>1. 0 \in Indexes /\ written \in Nat
  BY CountsAssumption DEF Indexes, TypeOK
<1> DEFINE new == [k \in 1..n |-> written + k]
<1>2. new \in Seq(Nat) /\ Len(new) = n /\ \A k \in 1..n : new[k] = written + k
  BY <1>1
<1>3. Content(0) \in Seq(Nat) /\ Len(Content(0)) = Size(0)
  BY <1>1, SizeType
<1>4. Size(0) > 0 => Content(0) = files[0]
  BY DEF Size, Content
<1> HIDE DEF new
<1>5. files'[0] = Content(0) \o new /\ written' = written + n
  BY <1>1 DEF Log, new, TypeOK
<1>6. /\ \A k \in 1..Size(0) : files'[0][k] = Content(0)[k]
      /\ \A k \in (Size(0) + 1)..(Size(0) + n) : files'[0][k] = new[k - Size(0)]
  <2>1. \A s, t \in Seq(Nat) :
            /\ \A k \in 1..Len(s) : (s \o t)[k] = s[k]
            /\ \A k \in (Len(s) + 1)..(Len(s) + Len(t)) : (s \o t)[k] = t[k - Len(s)]
    OBVIOUS
  <2>2. /\ \A k \in 1..Len(Content(0)) : (Content(0) \o new)[k] = Content(0)[k]
        /\ \A k \in (Len(Content(0)) + 1)..(Len(Content(0)) + Len(new)) :
               (Content(0) \o new)[k] = new[k - Len(Content(0))]
    BY ONLY <1>2, <1>3, <2>1
  <2>3. QED
    BY ONLY <1>2, <1>3, <1>5, <2>2
<1>7. \A k \in (Size(0) + 1)..(Size(0) + n) : k - Size(0) \in 1..n
  BY <1>1, SizeType
<1>8. \A k \in 1..Size(0) : Content(0) = files[0]
  BY <1>1, <1>4, SizeType
<1>9. files'[0] # None
  BY NoneAssumption, LogType
<1>10. QED
  BY <1>2, <1>5, <1>6, <1>7, <1>8, <1>9, LogType DEF Files

-----------------------------------------------------------------------------
(* How a step changes the files *)

(* What is normalised is from before the first output.                     *)
LEMMA NormalisedIsOld ==
    ASSUME IInv, NEW w \in Writers, pc[w] \in {"normalise", "replace"}, left[w] # {}
    PROVE  written = 0 /\ \A i \in Indexes : \A k \in Numbers(files, i) : files[i][k] = 0
<1>1. PICK i \in left[w] : TRUE
  OBVIOUS
<1>2. i \in Indexes /\ Exists(i) /\ (i > count \/ Size(i) > MaxBytes)
  BY DEF IInv, Inv, TypeOK, NormaliseInv
<1>3. i \in Nat /\ count \in Nat /\ MaxBytes \in Nat /\ Size(i) \in Nat /\ Size(i) = Len(files[i])
  BY <1>2, CountsAssumption, SizesAssumption, SizeType DEF IInv, Inv, TypeOK, Indexes
<1>4. ~Fine(i)
  BY <1>2, <1>3 DEF Fine
<1>5. written = 0
  BY <1>2, <1>4 DEF IInv, WrittenInv, Inv, TypeOK
<1>6. PICK n \in 0..written : AllAfter(files, n, written)
  BY DEF IInv, OrderInv
<1>7. (n + 1)..written = {}
  BY <1>5, <1>6
<1>8. QED
  BY <1>5, <1>6, <1>7 DEF AllAfter

(* A step leaves the files as they are, or removes some of what was there  *)
(* before the output, or is one of a rotation, or appends.                 *)
LEMMA FilesEffect ==
    ASSUME IInv, [Next]_vars
    PROVE  \/ UNCHANGED <<files, written>>
           \/ /\ written = 0 /\ written' = 0
              /\ \A i \in Indexes : \A k \in Numbers(files', i) : files'[i][k] = 0
              /\ \E w \in Writers : pc[w] \in {"normalise", "replace"} /\ pc'[w] = "normalise"
           \/ \E w \in Writers : Rotate(w)
           \/ \E w \in Writers : /\ pc[w] = "append" /\ (AppendChunk(w) \/ Fail(w))
                                 /\ \E n \in 0..chunk[w] : Log(n) /\ (AppendChunk(w) => n = chunk[w])
<1> USE DEF procVars, boundVars, Goto
<1>1. ASSUME NEW w \in Writers, RemoveSuperfluous(w)
      PROVE  /\ written = 0 /\ written' = 0
             /\ \A i \in Indexes : \A k \in Numbers(files', i) : files'[i][k] = 0
             /\ pc[w] \in {"normalise", "replace"} /\ pc'[w] = "normalise"
  <2>1. PICK i \in left[w] : files' = [files EXCEPT ![i] = None]
    BY <1>1 DEF RemoveSuperfluous
  <2>2. /\ pc[w] \in {"normalise", "replace"} /\ pc'[w] = "normalise" /\ left[w] # {}
        /\ written' = written /\ i \in Indexes
    BY <1>1, <2>1 DEF RemoveSuperfluous, IInv, Inv, TypeOK
  <2>3. written = 0 /\ \A j \in Indexes : \A k \in Numbers(files, j) : files[j][k] = 0
    BY <2>2, NormalisedIsOld
  <2>4. \A j \in Indexes : \A k \in Numbers(files', j) : k \in Numbers(files, j) /\ files'[j][k] = files[j][k]
    BY <2>1, <2>2 DEF Numbers, IInv, Inv, TypeOK
  <2>5. QED
    BY <2>2, <2>3, <2>4
<1>2. ASSUME NEW w \in Writers, ReplaceByTail(w)
      PROVE  /\ written = 0 /\ written' = 0
             /\ \A i \in Indexes : \A k \in Numbers(files', i) : files'[i][k] = 0
             /\ pc[w] \in {"normalise", "replace"} /\ pc'[w] = "normalise"
  <2>1. PICK i \in left[w] : i <= count /\ files' = [files EXCEPT ![i] = TailOf(files[i])]
    BY <1>2 DEF ReplaceByTail
  <2>2. /\ pc[w] \in {"normalise", "replace"} /\ pc'[w] = "normalise" /\ left[w] # {}
        /\ written' = written /\ i \in Indexes
        /\ Exists(i) /\ (i > count \/ Size(i) > MaxBytes)
    BY <1>2, <2>1 DEF ReplaceByTail, IInv, Inv, TypeOK, NormaliseInv
  <2>3. written = 0 /\ \A j \in Indexes : \A k \in Numbers(files, j) : files[j][k] = 0
    BY <2>2, NormalisedIsOld
  <2>4. \A j \in Indexes \ {i} : files'[j] = files[j]
    BY <2>1 DEF IInv, Inv, TypeOK
  <2>5. files[i] \in Seq(Nat) /\ Len(files[i]) > MaxBytes /\ files[i] # None
    <3>1. i \in Nat /\ count \in Nat
      BY <2>2, CountsAssumption DEF IInv, Inv, TypeOK, Indexes
    <3>2. QED
      BY <2>1, <2>2, <3>1, SizeType DEF IInv, Inv, Exists
  <2>6. files'[i] = TailOf(files[i]) /\ Len(files'[i]) = MaxBytes
    BY <2>1, <2>2, <2>5, TailFits DEF IInv, Inv, TypeOK
  <2>7. \A k \in Numbers(files', i) : files'[i][k] = 0
    <3> TAKE k \in Numbers(files', i)
    <3>1. k \in 1..MaxBytes
      BY <2>6 DEF Numbers
    <3>2. PICK m \in 1..Len(files[i]) : TailOf(files[i])[k] = files[i][m]
      BY <2>5, <3>1, TailBytes
    <3>3. m \in Numbers(files, i)
      BY <2>5 DEF Numbers
    <3>4. QED
      BY <2>2, <2>3, <2>6, <3>2, <3>3
  <2>8. \A j \in Indexes \ {i} : \A k \in Numbers(files', j) : files'[j][k] = 0
    BY <2>3, <2>4 DEF Numbers
  <2>9. QED
    BY <2>2, <2>3, <2>7, <2>8
<1>3. ASSUME NEW w \in Writers, AppendChunk(w)
      PROVE  pc[w] = "append" /\ \E n \in 0..chunk[w] : Log(n) /\ n = chunk[w]
  <2>1. chunk[w] \in Nat
    BY SizesAssumption DEF IInv, Inv, TypeOK
  <2>2. QED
    BY <1>3, <2>1 DEF AppendChunk
<1>4. ASSUME NEW w \in Writers, Fail(w)
      PROVE  \/ UNCHANGED <<files, written>>
             \/ pc[w] = "append" /\ \E n \in 0..chunk[w] : Log(n) /\ (AppendChunk(w) => n = chunk[w])
  <2>1. chunk[w] \in Nat /\ 1..chunk[w] - 1 \subseteq 0..chunk[w]
    BY SizesAssumption DEF IInv, Inv, TypeOK
  <2>2. AppendChunk(w) => FALSE
    BY <1>4 DEF AppendChunk, Fail, Ends, IInv, Inv, TypeOK
  <2>3. QED
    BY <1>4, <2>1, <2>2 DEF Fail
<1>5. ASSUME NEW w \in Writers, Open(w) \/ WriteTail(w) \/ Opened(w) \/ Read(w) \/ Write(w) \/ End(w) \/ Kill(w)
      PROVE  UNCHANGED <<files, written>>
  BY <1>5 DEF Open, WriteTail, Opened, Read, Write, End, Kill
<1>6. CASE UNCHANGED vars
  BY <1>6 DEF vars
<1>7. QED
  BY StepCases, <1>1, <1>2, <1>3, <1>4, <1>5, <1>6

LEMMA CountKept == [Next]_vars => count' = count
  BY StepCases DEF Open, RemoveSuperfluous, WriteTail, ReplaceByTail, Opened, Read, Write, Rotate,
                   AppendChunk, End, Fail, Kill, vars

LEMMA WrittenStep ==
    ASSUME IInv, [Next]_vars
    PROVE  WrittenInv'
<1>1. count' = count
  BY CountKept
<1>2. CASE UNCHANGED <<files, written>>
  BY <1>1, <1>2 DEF IInv, WrittenInv, Fine, Exists
<1>3. CASE written' = 0
  BY <1>3 DEF WrittenInv
<1>4. CASE \E w \in Writers : Rotate(w)
  BY <1>4, RotateFine DEF IInv, WrittenInv
<1>5. CASE \E w \in Writers : pc[w] = "append" /\ \E n \in 0..chunk[w] : Log(n)
  BY <1>1, <1>5, LogStep DEF IInv, WrittenInv
<1>6. QED
  BY <1>2, <1>3, <1>4, <1>5, FilesEffect

(* A rotation's step: a rename to a free number, or the removal of the     *)
(* oldest file.                                                            *)
LEMMA RotateExact ==
    ASSUME IInv, NEW w \in Writers, Rotate(w), files' \in Files
    PROVE  \E k \in Indexes :
              /\ files[k] # None /\ files'[k] = None
              /\ \A j \in left[w] : j <= k
              /\ left'[w] = left[w] \ {k} /\ k \in left[w]
              /\ pc'[w] = IF left[w] = {k} THEN "append" ELSE "rotate"
              /\ \/ /\ k # count /\ k + 1 \in Indexes /\ files[k + 1] = None /\ files'[k + 1] = files[k]
                    /\ \A j \in Indexes \ {k, k + 1} : files'[j] = files[j]
                 \/ /\ k = count /\ \A j \in Indexes : j > k => files[j] = None
                    /\ \A j \in Indexes \ {k} : files'[j] = files[j]
<1> USE DEF Goto, Visit
<1>1. PICK k \in left[w] : /\ \A j \in left[w] : j <= k
                           /\ files' = Moved(k)
                           /\ left' = [left EXCEPT ![w] = left[w] \ {k}]
                           /\ pc' = [pc EXCEPT ![w] = IF left[w] = {k} THEN "append" ELSE "rotate"]
  BY DEF Rotate
<1>2. pc[w] = "rotate" /\ TypeOK
  BY DEF Rotate, IInv, Inv
<1>3. k \in 0..count
  BY <1>2 DEF IInv, Inv, RotateInv
<1>4. /\ k \in Indexes /\ files'[k] = None
      /\ k = count => \A j \in Indexes \ {k} : files'[j] = files[j]
      /\ k # count => /\ k + 1 \in Indexes /\ files'[k + 1] = files[k]
                     /\ \A j \in Indexes \ {k, k + 1} : files'[j] = files[j]
  BY <1>1, <1>2, <1>3, MovedExact
<1>5. files[k] # None
  BY <1>2 DEF IInv, GapInv, Exists
<1>6. k # count => files[k + 1] = None
  <2>1. k \in Nat
    BY <1>3
  <2>2. k + 1 \notin left[w]
    BY <1>1, <2>1
  <2>3. ASSUME k # count PROVE k + 1 \in Indexes \ left[w] /\ k + 1 <= k + 1
    BY <1>4, <2>1, <2>2, <2>3
  <2>4. QED
    BY <1>2, <2>3 DEF IInv, GapInv, Exists
<1>7. \A j \in Indexes : j > count => files[j] = None
  <2>1. \A j \in Indexes : Exists(j) => j <= count
    BY <1>2 DEF IInv, Inv, LogBounded, Logging
  <2>2. \A j \in Indexes : j \in Nat /\ count \in Nat
    BY <1>2, CountsAssumption DEF TypeOK, Indexes
  <2>3. QED
    BY <2>1, <2>2 DEF Exists
<1>8. left'[w] = left[w] \ {k} /\ pc'[w] = IF left[w] = {k} THEN "append" ELSE "rotate"
  BY <1>1, <1>2 DEF TypeOK
<1>9. QED
  BY <1>1, <1>4, <1>5, <1>6, <1>7, <1>8

LEMMA OrderStep ==
    ASSUME IInv, [Next]_vars
    PROVE  OrderInv'
<1>1. files \in Files /\ files' \in Files /\ written \in Nat
  BY StepType DEF IInv, Inv, TypeOK, Files
<1>2. Ascending(files) /\ \E n \in 0..written : AllAfter(files, n, written)
  BY DEF IInv, OrderInv
<1>3. CASE UNCHANGED <<files, written>>
  BY <1>2, <1>3 DEF OrderInv, Ascending, AllAfter, Has, Numbers
<1>4. CASE written' = 0 /\ \A i \in Indexes : \A k \in Numbers(files', i) : files'[i][k] = 0
  BY <1>4, OldOrdered DEF OrderInv
<1>5. CASE \E w \in Writers : Rotate(w)
  <2>1. PICK w \in Writers : Rotate(w)
    BY <1>5
  <2>2. written' = written
    BY <2>1 DEF Rotate
  <2>3. PICK k \in Indexes :
            /\ files'[k] = None
            /\ \/ /\ k # count /\ k + 1 \in Indexes /\ files[k + 1] = None /\ files'[k + 1] = files[k]
                  /\ \A j \in Indexes \ {k, k + 1} : files'[j] = files[j]
               \/ /\ k = count /\ \A j \in Indexes : j > k => files[j] = None
                  /\ \A j \in Indexes \ {k} : files'[j] = files[j]
    BY <1>1, <2>1, RotateExact
  <2>4. PICK n \in 0..written : AllAfter(files, n, written)
    BY <1>2
  <2>5. CASE k # count
    <3>1. /\ Ascending(files')
          /\ \A b : Has(files, b) => Has(files', b)
          /\ \A j \in Indexes : \A m \in Numbers(files', j) : Has(files, files'[j][m])
      BY <1>1, <1>2, <2>3, <2>5, RenameOrdered
    <3>2. \A b : Has(files, b) => b = 0 \/ b \in (n + 1)..written
      BY <2>4 DEF AllAfter, Has
    <3>3. AllAfter(files', n, written)
      BY <2>4, <3>1, <3>2 DEF AllAfter
    <3>4. QED
      BY <2>2, <3>1, <3>3 DEF OrderInv
  <2>6. CASE k = count
    <3>1. Ascending(files') /\ \E m \in 0..written : AllAfter(files', m, written)
      BY <1>1, <1>2, <2>3, <2>4, <2>6, RemoveOrdered
    <3>2. QED
      BY <2>2, <3>1 DEF OrderInv
  <2>7. QED
    BY <2>5, <2>6
<1>6. CASE \E w \in Writers : pc[w] = "append" /\ \E c \in 0..chunk[w] : Log(c)
  <2>1. PICK w \in Writers : \E c \in 0..chunk[w] : Log(c)
    BY <1>6
  <2>2. PICK c \in 0..chunk[w] : Log(c)
    BY <2>1
  <2>3. c \in Nat /\ 0 \in Indexes /\ Size(0) \in Nat /\ TypeOK
    <3>1. TypeOK /\ 0 \in Indexes
      BY CountsAssumption DEF IInv, Inv, Indexes
    <3>2. Size(0) \in Nat
      BY <3>1, SizeType
    <3>3. w \in Writers /\ chunk[w] \in 0..MaxBytes /\ MaxBytes \in Nat
      BY <3>1, SizesAssumption DEF TypeOK
    <3>4. c \in Nat
      BY <3>3
    <3>5. QED
      BY <3>1, <3>2, <3>4
  <2>4. PICK n \in 0..written : AllAfter(files, n, written)
    BY <1>2
  <2>5. Size(0) = IF files[0] = None THEN 0 ELSE Len(files[0])
    BY DEF Size, Exists
  <2>6. /\ files' \in Files /\ files'[0] # None
        /\ Len(files'[0]) = Size(0) + c
        /\ \A k \in 1..Size(0) : files'[0][k] = files[0][k]
        /\ \A k \in (Size(0) + 1)..(Size(0) + c) : files'[0][k] = written + (k - Size(0))
        /\ \A j \in Indexes \ {0} : files'[j] = files[j]
        /\ written' = written + c
    BY <2>2, <2>3, LogExact
  <2>7. Ascending(files') /\ AllAfter(files', n, written + c)
    BY <1>1, <1>2, <2>3, <2>4, <2>5, <2>6, AppendOrdered
  <2>8. n \in 0..written'
    BY <1>1, <2>3, <2>6
  <2>9. QED
    BY <2>6, <2>7, <2>8 DEF OrderInv
<1>7. QED
  BY <1>3, <1>4, <1>5, <1>6, FilesEffect

-----------------------------------------------------------------------------
(* The number of bytes *)

PlacesOf(f) == UNION {{i} \X Numbers(f, i) : i \in Indexes}

LEMMA PlacesAre == TypeOK => Places = PlacesOf(files)
<1> SUFFICES ASSUME TypeOK PROVE Places = PlacesOf(files)
  OBVIOUS
<1>1. \A i \in Indexes : 1..Size(i) = Numbers(files, i)
  BY DEF Size, Exists, Numbers
<1>2. QED
  BY <1>1 DEF Places, PlacesOf

LEMMA NextPlaces == TypeOK' => Places' = PlacesOf(files')
<1> SUFFICES ASSUME TypeOK' PROVE Places' = PlacesOf(files')
  OBVIOUS
<1>1. \A i \in Indexes : 1..Size(i)' = Numbers(files', i)
  BY DEF Size, Exists, Numbers
<1>2. QED
  BY <1>1 DEF Places, PlacesOf

LEMMA InPlacesOf ==
    ASSUME NEW f, NEW p
    PROVE  p \in PlacesOf(f) <=> \E i \in Indexes : \E k \in Numbers(f, i) : p = <<i, k>>
  BY DEF PlacesOf

LEMMA PlacesFinite ==
    ASSUME NEW f \in Files
    PROVE  IsFiniteSet(PlacesOf(f)) /\ Cardinality(PlacesOf(f)) \in Nat
<1> DEFINE S == {{i} \X Numbers(f, i) : i \in Indexes}
           h == [i \in Indexes |-> {i} \X Numbers(f, i)]
<1>1. IsFiniteSet(Indexes)
  BY FS_Interval, CountsAssumption DEF Indexes
<1>2. h \in Surjection(Indexes, S)
  BY DEF Surjection
<1>3. IsFiniteSet(S)
  BY <1>1, <1>2, FS_Surjection
<1>4. \A i \in Indexes : IsFiniteSet({i} \X Numbers(f, i))
  <2> TAKE i \in Indexes
  <2>1. IsFiniteSet(Numbers(f, i))
    <3>1. CASE f[i] = None
      BY <3>1, FS_EmptySet DEF Numbers
    <3>2. CASE f[i] # None
      <4>1. Len(f[i]) \in Nat
        BY <3>2 DEF Files
      <4>2. QED
        BY <3>2, <4>1, FS_Interval DEF Numbers
    <3>3. QED
      BY <3>1, <3>2
  <2>2. QED
    BY <2>1, FS_Singleton, FS_Product
<1>5. IsFiniteSet(PlacesOf(f))
  BY <1>3, <1>4, FS_UNION DEF PlacesOf
<1>6. QED
  BY <1>5, FS_CardinalityType

LEMMA PlacesGrow ==
    ASSUME NEW f \in Files, NEW g \in Files, \A i \in Indexes : Numbers(f, i) \subseteq Numbers(g, i)
    PROVE  Cardinality(PlacesOf(f)) <= Cardinality(PlacesOf(g))
<1>1. PlacesOf(f) \subseteq PlacesOf(g)
  BY DEF PlacesOf
<1>2. QED
  BY <1>1, PlacesFinite, FS_Subset

(* The bytes of two files are at as many places as both have together.     *)
LEMMA TwoFiles ==
    ASSUME NEW f \in Files, NEW a \in Nat, NEW b \in Nat, 0 \in Indexes, 1 \in Indexes,
           1..a \subseteq Numbers(f, 0), 1..b \subseteq Numbers(f, 1)
    PROVE  a + b <= Cardinality(PlacesOf(f))
<1> DEFINE h == [k \in 1..(a + b) |-> IF k <= b THEN <<1, k>> ELSE <<0, k - b>>]
<1>1. h \in [1..(a + b) -> PlacesOf(f)]
  <2> SUFFICES ASSUME NEW k \in 1..(a + b)
               PROVE  (IF k <= b THEN <<1, k>> ELSE <<0, k - b>>) \in PlacesOf(f)
    OBVIOUS
  <2>1. CASE k <= b
    <3>1. k \in Numbers(f, 1)
      BY <2>1
    <3>2. QED
      BY <2>1, <3>1, InPlacesOf
  <2>2. CASE ~(k <= b)
    <3>1. k - b \in Numbers(f, 0)
      BY <2>2
    <3>2. QED
      BY <2>2, <3>1, InPlacesOf
  <2>3. QED
    BY <2>1, <2>2
<1>2. ASSUME NEW k \in 1..(a + b), NEW m \in 1..(a + b), h[k] = h[m] PROVE k = m
  <2>1. CASE k <= b /\ m <= b
    BY <1>2, <2>1
  <2>2. CASE ~(k <= b) /\ ~(m <= b)
    <3>1. <<0, k - b>> = <<0, m - b>>
      BY <1>2, <2>2
    <3>2. k - b = m - b
      BY <3>1
    <3>3. QED
      BY <3>2
  <2>3. CASE k <= b /\ ~(m <= b)
    BY <1>2, <2>3
  <2>4. CASE ~(k <= b) /\ m <= b
    BY <1>2, <2>4
  <2>5. QED
    BY <2>1, <2>2, <2>3, <2>4
<1>3. h \in Injection(1..(a + b), PlacesOf(f))
  BY <1>1, <1>2 DEF Injection, IsInjective
<1>4. Cardinality(1..(a + b)) = a + b
  BY FS_Interval
<1>5. QED
  BY <1>3, <1>4, PlacesFinite, FS_Injection

-----------------------------------------------------------------------------
(* What a rotation costs *)

(* A step is one of a wrapper, and leaves the others where they are.       *)
LEMMA OthersWait ==
    ASSUME TypeOK, NEW w \in Writers,
           \/ Open(w) \/ RemoveSuperfluous(w) \/ WriteTail(w) \/ ReplaceByTail(w) \/ Opened(w)
           \/ Read(w) \/ Write(w) \/ Rotate(w) \/ AppendChunk(w) \/ End(w)
           \/ Fail(w) \/ Kill(w)
    PROVE  \A v \in Writers \ {w} : pc'[v] = pc[v] /\ left'[v] = left[v] /\ chunk'[v] = chunk[v]
  BY DEF TypeOK, Goto, Visit, Open, RemoveSuperfluous, WriteTail, ReplaceByTail, Opened, Read, Write,
         Rotate, AppendChunk, End, Fail, Kill, Ends

(* Who works on the files does so alone.                                   *)
LEMMA Alone ==
    ASSUME Inv, NEW w \in Writers, pc[w] \in Holding \/ lock = None
    PROVE  \A v \in Writers \ {w} : pc[v] \notin Holding
  BY NoneAssumption DEF Inv, LockInv

(* The steps that neither rotate nor append nor change a file *)
Quiet(w) == Open(w) \/ WriteTail(w) \/ Opened(w) \/ Read(w) \/ End(w) \/ Kill(w)

LEMMA QuietFacts ==
    ASSUME TypeOK, NEW w \in Writers, Quiet(w)
    PROVE  /\ UNCHANGED <<files, written>> /\ pc'[w] \notin {"rotate", "append"}
           /\ pc[w] \notin {"rotate", "append"} \/ pc'[w] = "dead"
  BY DEF TypeOK, Goto, Quiet, Open, WriteTail, Opened, Read, End, Kill, Ends

(* The steps that change files and are not of a rotation *)
Busy(w) == RemoveSuperfluous(w) \/ ReplaceByTail(w) \/ AppendChunk(w) \/ Fail(w)

LEMMA BusyFacts ==
    ASSUME IInv, NEW w \in Writers, Busy(w)
    PROVE  /\ pc[w] \in Holding /\ pc'[w] \in {"normalise", "read", "dead"}
           /\ \A v \in Writers : pc'[v] \notin {"rotate", "append"}
<1>1. pc[w] \in Holding /\ pc'[w] \in {"normalise", "read", "dead"}
  BY DEF IInv, Inv, TypeOK, Goto, Holding, Busy, RemoveSuperfluous, ReplaceByTail, AppendChunk, Fail, Ends
<1>2. \A v \in Writers \ {w} : pc'[v] = pc[v] /\ pc[v] \notin Holding
  BY <1>1, OthersWait, Alone DEF Busy, IInv, Inv
<1>3. QED
  BY <1>1, <1>2 DEF Holding

LEMMA RotateFacts ==
    ASSUME IInv, NEW w \in Writers, Rotate(w)
    PROVE  /\ UNCHANGED <<chunk, written>> /\ pc[w] = "rotate" /\ pc'[w] \in {"rotate", "append"}
           /\ \A v \in Writers \ {w} : pc'[v] \notin {"rotate", "append"}
<1>1. UNCHANGED <<chunk, written>> /\ pc[w] = "rotate" /\ pc'[w] \in {"rotate", "append"}
  BY DEF IInv, Inv, TypeOK, Goto, Rotate
<1>2. \A v \in Writers \ {w} : pc'[v] = pc[v] /\ pc[v] \notin Holding
  BY <1>1, OthersWait, Alone DEF Holding, IInv, Inv
<1>3. QED
  BY <1>1, <1>2 DEF Holding

LEMMA WriteFacts ==
    ASSUME IInv, NEW w \in Writers, Write(w)
    PROVE  /\ UNCHANGED <<files, chunk, written>> /\ pc[w] = "write"
           /\ \A v \in Writers : pc[v] \notin {"rotate", "append"}
           /\ \A v \in Writers \ {w} : pc'[v] = pc[v]
           /\ \/ /\ pc'[w] = "rotate" /\ left'[w] = {i \in 0..count : Exists(i)}
                 /\ Size(0) + chunk[w] > MaxBytes
              \/ pc'[w] = "append"
<1>1. \A v \in Writers \ {w} : pc'[v] = pc[v] /\ pc[v] \notin Holding
  BY OthersWait, Alone DEF Write, IInv, Inv
<1>2. /\ UNCHANGED <<files, chunk, written>> /\ pc[w] = "write"
      /\ \/ /\ pc'[w] = "rotate" /\ left'[w] = {i \in 0..count : Exists(i)}
            /\ Size(0) + chunk[w] > MaxBytes
         \/ pc'[w] = "append"
  BY DEF Write, Goto, Visit, IInv, Inv, TypeOK
<1>3. QED
  BY <1>1, <1>2 DEF Holding

LEMMA KindsOfStep ==
    ASSUME [Next]_vars
    PROVE  (\E w \in Writers : Quiet(w) \/ Busy(w) \/ Write(w) \/ Rotate(w)) \/ UNCHANGED vars
  BY StepCases DEF Quiet, Busy

LEMMA GapStep ==
    ASSUME IInv, [Next]_vars
    PROVE  GapInv'
<1>1. ASSUME NEW w \in Writers, Quiet(w) PROVE GapInv'
  <2>1. UNCHANGED files /\ pc'[w] # "rotate"
    BY <1>1, QuietFacts DEF IInv, Inv
  <2>2. \A v \in Writers \ {w} : pc'[v] = pc[v] /\ left'[v] = left[v]
    BY <1>1, OthersWait DEF Quiet, IInv, Inv
  <2>3. QED
    BY <2>1, <2>2 DEF IInv, GapInv, Exists
<1>2. ASSUME NEW w \in Writers, Busy(w) PROVE GapInv'
  BY <1>2, BusyFacts DEF GapInv
<1>3. ASSUME NEW w \in Writers, Write(w) PROVE GapInv'
  <2>1. /\ UNCHANGED files /\ pc[w] = "write"
        /\ \A v \in Writers \ {w} : pc'[v] # "rotate"
        /\ pc'[w] = "rotate" => left'[w] = {i \in 0..count : Exists(i)}
    BY <1>3, WriteFacts
  <2>2. \A j \in Indexes : Exists(j) => j \in 0..count
    <3> TAKE j \in Indexes
    <3>1. Exists(j) => j <= count
      BY <2>1 DEF IInv, Inv, LogBounded, Logging
    <3>2. j \in Nat /\ count \in Nat
      BY CountsAssumption DEF IInv, Inv, TypeOK, Indexes
    <3>3. QED
      BY <3>1, <3>2
  <2>3. QED
    BY <2>1, <2>2 DEF GapInv, Exists
<1>4. ASSUME NEW w \in Writers, Rotate(w) PROVE GapInv'
  <2>1. files' \in Files /\ files \in Files
    BY StepType DEF IInv, Inv, TypeOK, Files
  <2>2. PICK k \in Indexes :
            /\ files'[k] = None
            /\ \A j \in left[w] : j <= k
            /\ left'[w] = left[w] \ {k} /\ k \in left[w]
            /\ \A j \in Indexes \ {k, k + 1} : files'[j] = files[j]
    BY <1>4, <2>1, RotateExact
  <2>3. \A v \in Writers \ {w} : pc'[v] # "rotate"
    BY <1>4, RotateFacts
  <2>4. left[w] \subseteq Indexes /\ pc[w] = "rotate"
    BY <1>4, RotateFacts DEF IInv, Inv, TypeOK
  <2>5. \A i \in Indexes : i \in Nat
    BY CountsAssumption DEF Indexes
  <2>6. ASSUME NEW i \in left'[w] PROVE i \in left[w] /\ i < k /\ Exists(i)'
    <3>1. i \in left[w] /\ i # k /\ i <= k /\ i \in Nat /\ k \in Nat /\ i # k + 1
      BY <2>2, <2>4, <2>5, <2>6
    <3>2. files'[i] = files[i] /\ Exists(i)
      BY <2>2, <2>4, <3>1 DEF IInv, GapInv
    <3>3. QED
      BY <3>1, <3>2 DEF Exists
  <2>7. ASSUME NEW i \in left'[w], NEW j \in Indexes \ left'[w], j <= i + 1 PROVE ~Exists(j)'
    <3>1. i \in left[w] /\ i < k /\ i \in Nat /\ j \in Nat /\ k \in Nat
      BY <2>4, <2>5, <2>6
    <3>2. CASE j = k
      BY <2>2, <3>2 DEF Exists
    <3>3. CASE j # k
      <4>1. j \in Indexes \ left[w] /\ j # k + 1
        BY <2>2, <2>7, <3>1, <3>3
      <4>2. ~Exists(j) /\ files'[j] = files[j]
        BY <2>2, <2>4, <2>7, <3>1, <3>3, <4>1 DEF IInv, GapInv
      <4>3. QED
        BY <4>2 DEF Exists
    <3>4. QED
      BY <3>2, <3>3
  <2>8. QED
    BY <2>3, <2>6, <2>7 DEF GapInv
<1>5. CASE UNCHANGED vars
  BY <1>5 DEF vars, procVars, IInv, GapInv, Exists
<1>6. QED
  BY KindsOfStep, <1>1, <1>2, <1>3, <1>4, <1>5

-----------------------------------------------------------------------------
(* A rotation keeps more than a file may hold.                             *)

(* With the files, all that is said of them stays. *)
LEMMA SameFiles ==
    ASSUME UNCHANGED <<files, written>>
    PROVE  /\ \A i \in Indexes : Size(i)' = Size(i)
           /\ Lossless' <=> Lossless
           /\ Plenty' <=> Plenty
<1>1. \A i \in Indexes : Size(i)' = Size(i)
  BY DEF Size, Exists
<1>2. Lossless' <=> Lossless
  BY DEF Lossless
<1>3. Places' = Places
  BY DEF Places, Size, Exists
<1>4. QED
  BY <1>1, <1>2, <1>3 DEF Plenty

LEMMA FilesBeforeAndAfter ==
    ASSUME IInv, [Next]_vars
    PROVE  files \in Files /\ files' \in Files /\ TypeOK /\ TypeOK' /\ count' = count /\ 0 \in Indexes
           /\ (count > 0 => 1 \in Indexes)
<1>1. TypeOK /\ TypeOK'
  BY StepType DEF IInv, Inv
<1>2. 0 \in Indexes /\ (count > 0 => 1 \in Indexes)
  BY <1>1, CountsAssumption DEF TypeOK, Indexes
<1>3. QED
  BY <1>1, <1>2, CountKept DEF TypeOK, Files

LEMMA KeepQuiet ==
    ASSUME IInv, [Next]_vars, NEW w \in Writers, Quiet(w)
    PROVE  KeepInv'
<1>1. TypeOK /\ count' = count /\ 0 \in Indexes /\ (count > 0 => 1 \in Indexes)
  BY FilesBeforeAndAfter
<1>2. /\ UNCHANGED <<files, written>> /\ pc'[w] \notin {"rotate", "append"}
      /\ pc[w] \notin {"rotate", "append"} \/ pc'[w] = "dead"
  BY <1>1, QuietFacts
<1>3. pc[w] # "dead"
  BY DEF Quiet, Open, WriteTail, Opened, Read, End, Kill
<1>4. \A v \in Writers \ {w} : pc'[v] = pc[v] /\ chunk'[v] = chunk[v]
  BY <1>1, OthersWait DEF Quiet
<1>5. QED
  BY <1>1, <1>2, <1>3, <1>4, SameFiles DEF KeepInv, IInv

LEMMA KeepWrite ==
    ASSUME IInv, [Next]_vars, NEW w \in Writers, Write(w)
    PROVE  KeepInv'
<1>1. count' = count /\ 0 \in Indexes /\ (count > 0 => 1 \in Indexes)
  BY FilesBeforeAndAfter
<1>2. /\ UNCHANGED <<files, chunk, written>> /\ pc[w] = "write"
      /\ \A v \in Writers : pc[v] \notin {"rotate", "append"}
      /\ \A v \in Writers \ {w} : pc'[v] = pc[v]
      /\ \/ pc'[w] = "rotate" /\ Size(0) + chunk[w] > MaxBytes
         \/ pc'[w] = "append"
  BY WriteFacts
<1>3. QED
  BY <1>1, <1>2, SameFiles DEF KeepInv, IInv

(* The file that a rotation moves last is the current one.                 *)
LEMMA KeepRotate ==
    ASSUME IInv, [Next]_vars, NEW w \in Writers, Rotate(w)
    PROVE  KeepInv'
<1>1. /\ files \in Files /\ files' \in Files /\ TypeOK /\ count' = count
      /\ 0 \in Indexes /\ (count > 0 => 1 \in Indexes)
  BY FilesBeforeAndAfter
<1>2. /\ UNCHANGED <<chunk, written>> /\ pc[w] = "rotate" /\ pc'[w] \in {"rotate", "append"}
      /\ \A v \in Writers \ {w} : pc'[v] \notin {"rotate", "append"}
  BY RotateFacts
<1>3. PICK k \in Indexes :
          /\ files[k] # None
          /\ \A j \in left[w] : j <= k
          /\ k \in left[w]
          /\ pc'[w] = IF left[w] = {k} THEN "append" ELSE "rotate"
          /\ k # count => files'[k + 1] = files[k]
          /\ \A j \in Indexes \ {k, k + 1} : files'[j] = files[j]
  BY <1>1, RotateExact
<1>4. 0 \in left[w] /\ k \in Nat /\ left[w] \subseteq Nat
  BY <1>1, <1>2, CountsAssumption DEF IInv, Inv, RotateInv, TypeOK, Indexes
<1>5. ASSUME count > 0 PROVE Size(0) + chunk[w] > MaxBytes
  BY <1>2, <1>5 DEF IInv, KeepInv
<1>6. ASSUME pc'[w] = "rotate" PROVE Size(0)' = Size(0)
  <2>1. k # 0 /\ k + 1 # 0
    BY <1>3, <1>4, <1>6
  <2>2. files'[0] = files[0]
    BY <1>1, <1>3, <2>1
  <2>3. QED
    BY <2>2 DEF Size, Exists
<1>7. ASSUME pc'[w] = "append", count > 0 PROVE Size(1)' = Size(0)
  <2>1. k = 0 /\ k + 1 = 1 /\ k # count
    BY <1>3, <1>4, <1>7
  <2>2. files'[1] = files[0]
    BY <1>3, <2>1
  <2>3. QED
    BY <2>2 DEF Size, Exists
<1>8. QED
  BY <1>1, <1>2, <1>5, <1>6, <1>7 DEF KeepInv

LEMMA KeepAppend ==
    ASSUME IInv, [Next]_vars, NEW w \in Writers, AppendChunk(w), Lossless \/ Plenty \/ Size(1) + chunk[w] > MaxBytes,
           count > 0
    PROVE  Lossless' \/ Plenty'
<1>1. /\ files \in Files /\ files' \in Files /\ TypeOK /\ TypeOK'
      /\ 0 \in Indexes /\ 1 \in Indexes
  BY FilesBeforeAndAfter
<1> DEFINE c == chunk[w]
<1>2. c \in Nat /\ Size(0) \in Nat /\ Size(1) \in Nat /\ written \in Nat /\ MaxBytes \in Nat
  BY <1>1, SizesAssumption, SizeType DEF TypeOK
<1>3. Log(c)
  BY DEF AppendChunk
<1> HIDE DEF c
<1>4. /\ files'[0] # None
      /\ Len(files'[0]) = Size(0) + c
      /\ \A k \in 1..Size(0) : files'[0][k] = files[0][k]
      /\ \A k \in (Size(0) + 1)..(Size(0) + c) : files'[0][k] = written + (k - Size(0))
      /\ \A j \in Indexes \ {0} : files'[j] = files[j]
      /\ written' = written + c
  BY <1>1, <1>2, <1>3, LogExact
<1>5. CASE Lossless
  <2>1. PICK n \in 0..written : AllAfter(files, n, written)
    BY DEF IInv, OrderInv
  <2>2. Size(0) = IF files[0] = None THEN 0 ELSE Len(files[0])
    BY DEF Size, Exists
  <2>3. Ascending(files)
    BY DEF IInv, OrderInv
  <2>4. AllAfter(files', n, written + c) /\ \A b : Has(files, b) => Has(files', b)
    <3>1. files \in Files /\ files' \in Files /\ 0 \in Indexes /\ c \in Nat /\ Size(0) \in Nat /\ written \in Nat
      BY <1>1, <1>2
    <3>2. QED
      BY <1>4, <2>1, <2>2, <2>3, <3>1, AppendOrdered
  <2>5. \A b \in 1..(written + c) : b \in 1..written \/ b \in (n + 1)..(written + c)
    BY <1>2, <2>1
  <2>6. QED
    BY <1>4, <1>5, <2>4, <2>5 DEF Lossless, AllAfter
<1>6. CASE Plenty
  <2>1. ASSUME NEW i \in Indexes PROVE Numbers(files, i) \subseteq Numbers(files', i)
    <3>1. CASE i = 0
      <4>1. Numbers(files, 0) = 1..Size(0)
        BY DEF Numbers, Size, Exists
      <4>2. Numbers(files', 0) = 1..(Size(0) + c)
        BY <1>4 DEF Numbers
      <4>3. QED
        BY <1>2, <3>1, <4>1, <4>2
    <3>2. CASE i # 0
      BY <1>4, <3>2 DEF Numbers
    <3>3. QED
      BY <3>1, <3>2
  <2>2. Cardinality(PlacesOf(files)) <= Cardinality(PlacesOf(files'))
    BY <1>1, <2>1, PlacesGrow
  <2>3. Places = PlacesOf(files) /\ Places' = PlacesOf(files')
    BY <1>1, PlacesAre, NextPlaces
  <2>4. Cardinality(PlacesOf(files)) \in Nat /\ Cardinality(PlacesOf(files')) \in Nat
    BY <1>1, PlacesFinite
  <2>5. QED
    BY <1>2, <1>6, <2>2, <2>3, <2>4 DEF Plenty
<1>7. CASE Size(1) + c > MaxBytes
  <2>1. 1..c \subseteq Numbers(files', 0)
    BY <1>2, <1>4 DEF Numbers
  <2>2. 1..Size(1) \subseteq Numbers(files', 1)
    BY <1>1, <1>2, <1>4 DEF Numbers, Size, Exists
  <2>3. c + Size(1) <= Cardinality(PlacesOf(files'))
    BY <1>1, <1>2, <2>1, <2>2, TwoFiles
  <2>4. Places' = PlacesOf(files') /\ Cardinality(PlacesOf(files')) \in Nat
    BY <1>1, NextPlaces, PlacesFinite
  <2>5. QED
    BY <1>2, <1>7, <2>3, <2>4 DEF Plenty
<1>8. QED
  BY <1>5, <1>6, <1>7 DEF c

LEMMA KeepBusy ==
    ASSUME IInv, [Next]_vars, NEW w \in Writers, Busy(w)
    PROVE  KeepInv'
<1>1. TypeOK /\ count' = count
  BY FilesBeforeAndAfter
<1>2. /\ pc[w] \in Holding /\ \A v \in Writers : pc'[v] \notin {"rotate", "append"}
  BY BusyFacts
<1>3. SUFFICES ASSUME count > 0, \A v \in Writers : pc'[v] # "dead" PROVE Lossless' \/ Plenty'
  BY <1>1, <1>2 DEF KeepInv
<1>4. CASE RemoveSuperfluous(w) \/ ReplaceByTail(w)
  <2>1. pc[w] \in {"normalise", "replace"} /\ left[w] # {} /\ written' = written
    BY <1>4 DEF RemoveSuperfluous, ReplaceByTail
  <2>2. written' = 0
    BY <2>1, NormalisedIsOld
  <2>3. QED
    BY <2>2 DEF Lossless
<1>5. CASE AppendChunk(w)
  <2>1. \A v \in Writers \ {w} : pc'[v] = pc[v]
    BY <1>1, OthersWait DEF Busy
  <2>2. pc[w] = "append"
    BY <1>5 DEF AppendChunk
  <2>3. \A v \in Writers : pc[v] # "dead"
    BY <1>3, <2>1, <2>2
  <2>4. Lossless \/ Plenty \/ Size(1) + chunk[w] > MaxBytes
    BY <1>3, <2>2, <2>3 DEF IInv, KeepInv
  <2>5. QED
    BY <1>3, <1>5, <2>4, KeepAppend
<1>6. CASE Fail(w)
  BY <1>1, <1>3, <1>6 DEF Fail, Ends, Goto, TypeOK
<1>7. QED
  BY <1>4, <1>5, <1>6 DEF Busy

LEMMA KeepStep ==
    ASSUME IInv, [Next]_vars
    PROVE  KeepInv'
<1>1. CASE UNCHANGED vars
  <2>1. UNCHANGED <<files, written, pc, chunk, count>>
    BY <1>1 DEF vars, procVars
  <2>2. 0 \in Indexes /\ (count > 0 => 1 \in Indexes)
    BY FilesBeforeAndAfter
  <2>3. QED
    BY <2>1, <2>2, SameFiles DEF KeepInv, IInv
<1>2. QED
  BY KindsOfStep, <1>1, KeepQuiet, KeepBusy, KeepWrite, KeepRotate

-----------------------------------------------------------------------------
LEMMA IInvInit == Init => IInv
<1> SUFFICES ASSUME Init PROVE IInv
  OBVIOUS
<1>1. Inv /\ written = 0
  BY InitSound DEF Init
<1>2. \A i \in Indexes : \A k \in Numbers(files, i) : files[i][k] = 0
  <2> SUFFICES ASSUME NEW i \in Indexes, files[i] # None, NEW k \in 1..Len(files[i]) PROVE files[i][k] = 0
    BY DEF Numbers
  <2>1. PICK n \in OldSizes : files[i] = [m \in 1..n |-> 0]
    BY DEF Init
  <2>2. n \in Nat
    BY SizesAssumption
  <2>3. k \in 1..n
    BY <2>1, <2>2
  <2>4. QED
    BY <2>1, <2>3
<1>3. OrderInv
  BY <1>1, <1>2, OldOrdered DEF OrderInv
<1>4. Lossless
  BY <1>1 DEF Lossless
<1>5. WrittenInv /\ GapInv /\ KeepInv
  BY <1>1, <1>4 DEF Init, WrittenInv, GapInv, KeepInv
<1>6. QED
  BY <1>1, <1>3, <1>5 DEF IInv

LEMMA IInvStep == IInv /\ [Next]_vars => IInv'
<1> SUFFICES ASSUME IInv, [Next]_vars PROVE IInv'
  OBVIOUS
<1>1. Inv'
  BY InvStep DEF IInv
<1>2. QED
  BY <1>1, WrittenStep, OrderStep, GapStep, KeepStep DEF IInv

(* The output's bytes in file and place, as the invariant has them         *)
LEMMA Orderly == TypeOK /\ OrderInv => OnlyOldestLost
<1> SUFFICES ASSUME TypeOK, OrderInv PROVE OnlyOldestLost
  OBVIOUS
<1>1. Ascending(files)
  BY DEF OrderInv
<1>2. PICK n \in 0..written : AllAfter(files, n, written)
  BY DEF OrderInv
<1>3. \A p : p \in Places <=> \E i \in Indexes : \E k \in Numbers(files, i) : p = <<i, k>>
  BY PlacesAre, InPlacesOf
<1>4. ASSUME NEW p \in Places, NEW q \in Places, Before(p, q)
      PROVE  Byte(p) < Byte(q) \/ (Byte(p) = 0 /\ Byte(q) = 0)
  <2>1. PICK i \in Indexes : \E k \in Numbers(files, i) : p = <<i, k>>
    BY <1>3
  <2>2. PICK k \in Numbers(files, i) : p = <<i, k>>
    BY <2>1
  <2>3. PICK j \in Indexes : \E m \in Numbers(files, j) : q = <<j, m>>
    BY <1>3
  <2>4. PICK m \in Numbers(files, j) : q = <<j, m>>
    BY <2>3
  <2>5. i > j \/ (i = j /\ k < m)
    BY <1>4, <2>2, <2>4 DEF Before
  <2>6. files[i][k] < files[j][m] \/ (files[i][k] = 0 /\ files[j][m] = 0)
    BY <1>1, <2>5 DEF Ascending
  <2>7. QED
    BY <2>2, <2>4, <2>6 DEF Byte
<1>5. ASSUME NEW p \in Places PROVE Byte(p) = 0 \/ Byte(p) \in (n + 1)..written
  <2>1. PICK i \in Indexes : \E k \in Numbers(files, i) : p = <<i, k>>
    BY <1>3
  <2>2. PICK k \in Numbers(files, i) : p = <<i, k>>
    BY <2>1
  <2>3. QED
    BY <1>2, <2>2 DEF AllAfter, Byte
<1>6. ASSUME NEW b \in (n + 1)..written PROVE b # 0 /\ \E p \in Places : Byte(p) = b
  <2>1. b # 0
    BY <1>2
  <2>2. PICK i \in Indexes : \E k \in Numbers(files, i) : files[i][k] = b
    BY <1>2 DEF AllAfter, Has
  <2>3. PICK k \in Numbers(files, i) : files[i][k] = b
    BY <2>2
  <2>4. <<i, k>> \in Places /\ Byte(<<i, k>>) = b
    BY <1>3, <2>3 DEF Byte
  <2>5. QED
    BY <2>1, <2>4
<1>7. {Byte(p) : p \in Places} \ {0} = (n + 1)..written
  BY <1>5, <1>6
<1>8. QED
  BY <1>4, <1>7 DEF OnlyOldestLost

LEMMA Kept == IInv => LatestBytesKept
<1> SUFFICES ASSUME IInv, count > 0, lock = None, \A w \in Writers : pc[w] # "dead"
             PROVE  \/ \A n \in 1..written : \E p \in Places : Byte(p) = n
                    \/ Cardinality(Places) > MaxBytes
  BY DEF LatestBytesKept
<1>1. \A w \in Writers : pc[w] \notin {"rotate", "append"}
  BY NoneAssumption DEF IInv, Inv, LockInv, Holding
<1>2. Lossless \/ Plenty
  BY <1>1 DEF IInv, KeepInv
<1>3. CASE Lossless
  <2>1. ASSUME NEW b \in 1..written PROVE \E p \in Places : Byte(p) = b
    <3>1. PICK i \in Indexes : \E k \in Numbers(files, i) : files[i][k] = b
      BY <1>3 DEF Lossless, Has
    <3>2. PICK k \in Numbers(files, i) : files[i][k] = b
      BY <3>1
    <3>3. <<i, k>> \in Places
      BY <3>2, PlacesAre, InPlacesOf DEF IInv, Inv
    <3>4. QED
      BY <3>2, <3>3 DEF Byte
  <2>2. QED
    BY <2>1
<1>4. QED
  BY <1>2, <1>3 DEF Plenty

-----------------------------------------------------------------------------
(* Of every file it is known whether it is in order: by the wrapper that   *)
(* still normalises, or, once one logs, by all (run-with-rotating-log.py:  *)
(* 51-100).                                                                *)
THEOREM Invariance == Spec => []Inv
<1>1. Init => Inv
  BY InitSound
<1>2. Inv /\ [Next]_vars => Inv'
  BY InvStep
<1>3. QED
  BY <1>1, <1>2, PTL DEF Spec

(* Every variable keeps its type; no rotation leaves the numbered files.   *)
THEOREM TypeCorrect == Spec => []TypeOK
<1>1. Inv => TypeOK
  BY DEF Inv
<1>2. QED
  BY <1>1, Invariance, PTL

(* The log keeps within its number of files and their size, with any       *)
(* wrappers that fail or are killed at any point of a rotation             *)
(* (run-with-rotating-log.py:51-100).                                      *)
THEOREM Bounded == Spec => []LogBounded
<1>1. Inv => LogBounded
  BY DEF Inv
<1>2. QED
  BY <1>1, Invariance, PTL

(* The strengthening under which the order and the loss of bytes are       *)
(* proved: nothing of the output is normalised away, a rotation has a free *)
(* number for each file it moves, and what it removes is made up for       *)
(* (run-with-rotating-log.py:51-100).                                      *)
THEOREM StrongInvariance == Spec => []IInv
<1>1. QED
  BY IInvInit, IInvStep, PTL DEF Spec

(* From the oldest file to the current one, the log is the output of all   *)
(* wrappers without a gap, a repetition or an exchange, but for what was   *)
(* the oldest, with any wrappers that fail or are killed at any point      *)
(* (run-with-rotating-log.py:64-77).                                       *)
THEOREM InOrder == Spec => []OnlyOldestLost
<1>1. IInv => OnlyOldestLost
  BY Orderly DEF IInv, Inv
<1>2. QED
  BY <1>1, StrongInvariance, PTL

(* While no wrapper has ended between two renames and an old file is kept, *)
(* all of the output is in the log or more than a file may hold            *)
(* (run-with-rotating-log.py:64-100).                                      *)
THEOREM LatestKept == Spec => []LatestBytesKept
<1>1. IInv => LatestBytesKept
  BY Kept
<1>2. QED
  BY <1>1, StrongInvariance, PTL

=============================================================================
