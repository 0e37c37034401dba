----------------------- MODULE VehicleInventoryProofs -----------------------
(***************************************************************************)
(* The cache of the vehicle inventory and the lookups in it, for any       *)
(* number of threads and of versions of the file, and for any rows.        *)
(***************************************************************************)
EXTENDS VehicleInventory, FiniteSetTheorems, WellFoundedInduction, TLAPS

-----------------------------------------------------------------------------
(* The inductive invariant.                                                  *)

Shapes ==
    /\ contents \in [Versions -> Inventories]
    /\ newest \in Versions /\ file \in {Absent, newest}
    /\ records \in 0 .. newest /\ loadedMtime \in 0 .. newest
    /\ pc \in [Callers -> Steps]
    /\ stat \in [Callers -> Nat] /\ read \in [Callers -> Nat]
    /\ since \in [Callers -> Nat] /\ used \in [Callers -> Nat]
    /\ overlapped \in BOOLEAN

(* A call looks at a file that is at least as new as the call, and reads one *)
(* that is at least as new as the one it looked at.                          *)
CallInv(c) ==
    /\ since[c] <= newest
    /\ pc[c] # "idle" => used[c] = Absent
    /\ pc[c] \in {"compare"} \cup Reloading =>
           stat[c] \in Versions /\ since[c] <= stat[c] /\ stat[c] <= newest
    /\ pc[c] \in {"records", "mtime"} => stat[c] <= read[c] /\ read[c] <= newest

(* A reload that has met no other is the only one there is; the rows it has  *)
(* read serve the time stamp in the cache and everyone about to use it.      *)
SoloInv(c) ==
    /\ ~overlapped /\ pc[c] \in Reloading => solo = c
    /\ solo = c /\ pc[c] \in Reloading =>
           /\ \A d \in Callers \ {c} : pc[d] \notin Reloading
           /\ pc[c] \in {"records", "mtime"} =>
                  /\ loadedMtime <= read[c]
                  /\ \A d \in Callers : pc[d] = "use" => since[d] <= read[c]
           /\ pc[c] = "mtime" => records = read[c]

ServeInv(c) == ~overlapped /\ pc[c] = "use" => since[c] <= records

GoodInv(c) ==
    /\ pc[c] \in {"records", "mtime"} => BadRows(contents[read[c]]) = {}
    /\ pc[c] = "mtime" => records # Absent

Inv ==
    /\ Shapes
    /\ \A c \in Callers : CallInv(c)
    /\ \A c \in Callers : SoloInv(c)
    /\ \A c \in Callers : ServeInv(c)
    /\ \A c \in Callers : GoodInv(c)
    /\ RowsNotOlder
    /\ FreshAnswers
    /\ OnlyGoodFilesServe
-----------------------------------------------------------------------------
(* Facts about steps.                                                        *)

(* The constants and the steps of _load_records are what they look like.     *)
LEMMA Bounds ==
    /\ MaxVersion \in Nat /\ 1 \in Versions
    /\ \A v : v \in Versions <=> v \in Nat /\ 1 <= v /\ v <= MaxVersion
    /\ "nobody" \notin Callers
  BY InventoryAssumption DEF Versions

(* Before the first call nothing is cached and the invariant holds.          *)
LEMMA InitInv == Init => Inv
<1> SUFFICES ASSUME Init PROVE Inv
  OBVIOUS
<1> USE Bounds DEF Init, Absent, Steps, Reloading
<1>1. Shapes
  <2>1. contents \in [Versions -> Inventories] /\ overlapped \in BOOLEAN
    BY Zenon DEF Init
  <2>2. /\ newest \in Versions /\ file \in {Absent, newest}
        /\ records \in 0 .. newest /\ loadedMtime \in 0 .. newest
    OBVIOUS
  <2>3. /\ pc \in [Callers -> Steps]
        /\ stat \in [Callers -> Nat] /\ read \in [Callers -> Nat]
        /\ since \in [Callers -> Nat] /\ used \in [Callers -> Nat]
    OBVIOUS
  <2>4. QED
    BY <2>1, <2>2, <2>3 DEF Shapes
<1>2. \A c \in Callers : pc[c] = "idle" /\ since[c] = 0 /\ used[c] = 0
  OBVIOUS
<1>3. \A c \in Callers : CallInv(c) /\ SoloInv(c) /\ ServeInv(c) /\ GoodInv(c)
  BY <1>2 DEF CallInv, SoloInv, ServeInv, GoodInv
<1>4. RowsNotOlder /\ FreshAnswers /\ OnlyGoodFilesServe
  BY <1>2 DEF RowsNotOlder, FreshAnswers, OnlyGoodFilesServe
<1>5. QED
  BY <1>1, <1>3, <1>4 DEF Inv

(* A call that begins takes note of the newest version.                      *)
LEMMA BeginInv ==
    ASSUME Inv, NEW c \in Callers, NEW f, NEW k, Begin(c, f, k)
    PROVE  Inv'
<1> USE Bounds DEF Begin, Answer, Goto, disk, cache, Absent, Steps, Reloading
<1>1. Shapes'
  BY DEF Inv, Shapes
<1>2. \A d \in Callers : CallInv(d)' /\ SoloInv(d)'
  BY DEF Inv, Shapes, CallInv, SoloInv
<1>3. \A d \in Callers : ServeInv(d)' /\ GoodInv(d)'
  BY DEF Inv, Shapes, ServeInv, GoodInv
<1>4. RowsNotOlder' /\ FreshAnswers' /\ OnlyGoodFilesServe'
  BY DEF Inv, Shapes, RowsNotOlder, FreshAnswers, OnlyGoodFilesServe
<1>5. QED
  BY <1>1, <1>2, <1>3, <1>4 DEF Inv

(* stat sees the newest version or no file.                                  *)
LEMMA StatInv ==
    ASSUME Inv, NEW c \in Callers, Stat(c)
    PROVE  Inv'
<1> USE Bounds DEF Stat, Answer, Goto, disk, cache, Absent, Steps, Reloading
<1>1. Shapes'
  BY DEF Inv, Shapes, CallInv
<1>2. \A d \in Callers : CallInv(d)'
  BY DEF Inv, Shapes, CallInv
<1>3. \A d \in Callers : SoloInv(d)'
  BY DEF Inv, Shapes, CallInv, SoloInv
<1>4. \A d \in Callers : ServeInv(d)'
  BY DEF Inv, Shapes, CallInv, SoloInv, ServeInv, RowsNotOlder
<1>5. \A d \in Callers : GoodInv(d)'
  BY DEF Inv, Shapes, CallInv, GoodInv
<1>6. RowsNotOlder'
  BY DEF Inv, Shapes, CallInv, SoloInv, RowsNotOlder
<1>7. FreshAnswers'
  BY DEF Inv, Shapes, CallInv, ServeInv, FreshAnswers
<1>8. OnlyGoodFilesServe'
  BY DEF Inv, Shapes, CallInv, GoodInv, OnlyGoodFilesServe
<1>9. QED
  BY <1>1, <1>2, <1>3, <1>4, <1>5, <1>6, <1>7, <1>8 DEF Inv

(* A hit is as new as the time stamp, a miss begins a reload.                *)
LEMMA CompareInv ==
    ASSUME Inv, NEW c \in Callers, Compare(c)
    PROVE  Inv'
<1> USE Bounds DEF Compare, Answer, Goto, disk, cache, Absent, Steps, Reloading
<1>1. Shapes'
  BY DEF Inv, Shapes, CallInv
<1>2. \A d \in Callers : CallInv(d)'
  BY DEF Inv, Shapes, CallInv
<1>3. \A d \in Callers : SoloInv(d)'
  <2>1. CASE loadedMtime = stat[c]
    BY <2>1 DEF Inv, Shapes, CallInv, SoloInv
  <2>2. CASE loadedMtime # stat[c] /\ \E e \in Callers \ {c} : pc[e] \in Reloading
    BY <2>2 DEF Inv, Shapes, SoloInv
  <2>3. CASE loadedMtime # stat[c] /\ ~ \E e \in Callers \ {c} : pc[e] \in Reloading
    BY <2>3 DEF Inv, Shapes, SoloInv
  <2>4. QED
    BY <2>1, <2>2, <2>3
<1>4. \A d \in Callers : ServeInv(d)'
  BY DEF Inv, Shapes, CallInv, SoloInv, ServeInv, RowsNotOlder
<1>5. \A d \in Callers : GoodInv(d)'
  BY DEF Inv, Shapes, CallInv, GoodInv
<1>6. RowsNotOlder'
  BY DEF Inv, Shapes, CallInv, SoloInv, RowsNotOlder
<1>7. FreshAnswers'
  BY DEF Inv, Shapes, CallInv, ServeInv, FreshAnswers
<1>8. OnlyGoodFilesServe'
  BY DEF Inv, Shapes, CallInv, GoodInv, OnlyGoodFilesServe
<1>9. QED
  BY <1>1, <1>2, <1>3, <1>4, <1>5, <1>6, <1>7, <1>8 DEF Inv

(* A call that cannot read the file ends without an answer from the cache.   *)
LEMMA ReadFailsInv ==
    ASSUME Inv, NEW c \in Callers, ReadFails(c)
    PROVE  Inv'
<1> USE Bounds DEF ReadFails, Answer, Goto, disk, cache, Absent, Steps, Reloading
<1>1. Shapes'
  BY DEF Inv, Shapes, CallInv
<1>2. \A d \in Callers : CallInv(d)'
  BY DEF Inv, Shapes, CallInv
<1>3. \A d \in Callers : SoloInv(d)'
  BY DEF Inv, Shapes, CallInv, SoloInv
<1>4. \A d \in Callers : ServeInv(d)'
  BY DEF Inv, Shapes, CallInv, SoloInv, ServeInv, RowsNotOlder
<1>5. \A d \in Callers : GoodInv(d)'
  BY DEF Inv, Shapes, CallInv, GoodInv
<1>6. RowsNotOlder'
  BY DEF Inv, Shapes, CallInv, SoloInv, RowsNotOlder
<1>7. FreshAnswers'
  BY DEF Inv, Shapes, CallInv, ServeInv, FreshAnswers
<1>8. OnlyGoodFilesServe'
  BY DEF Inv, Shapes, CallInv, GoodInv, OnlyGoodFilesServe
<1>9. QED
  BY <1>1, <1>2, <1>3, <1>4, <1>5, <1>6, <1>7, <1>8 DEF Inv

(* So does one that refuses the file.                                        *)
LEMMA RefuseFileInv ==
    ASSUME Inv, NEW c \in Callers, RefuseFile(c)
    PROVE  Inv'
<1> USE Bounds DEF RefuseFile, Answer, Goto, disk, cache, Absent, Steps, Reloading
<1>1. Shapes'
  BY DEF Inv, Shapes, CallInv
<1>2. \A d \in Callers : CallInv(d)'
  BY DEF Inv, Shapes, CallInv
<1>3. \A d \in Callers : SoloInv(d)'
  BY DEF Inv, Shapes, CallInv, SoloInv
<1>4. \A d \in Callers : ServeInv(d)'
  BY DEF Inv, Shapes, CallInv, SoloInv, ServeInv, RowsNotOlder
<1>5. \A d \in Callers : GoodInv(d)'
  BY DEF Inv, Shapes, CallInv, GoodInv
<1>6. RowsNotOlder'
  BY DEF Inv, Shapes, CallInv, SoloInv, RowsNotOlder
<1>7. FreshAnswers'
  BY DEF Inv, Shapes, CallInv, ServeInv, FreshAnswers
<1>8. OnlyGoodFilesServe'
  BY DEF Inv, Shapes, CallInv, GoodInv, OnlyGoodFilesServe
<1>9. QED
  BY <1>1, <1>2, <1>3, <1>4, <1>5, <1>6, <1>7, <1>8 DEF Inv

(* What is read is the newest version.                                       *)
LEMMA ReadFileInv ==
    ASSUME Inv, NEW c \in Callers, ReadFile(c)
    PROVE  Inv'
<1> USE Bounds DEF ReadFile, Answer, Goto, disk, cache, Absent, Steps, Reloading
<1>1. Shapes'
  BY DEF Inv, Shapes, CallInv
<1>2. \A d \in Callers : CallInv(d)'
  BY DEF Inv, Shapes, CallInv
<1>3. \A d \in Callers : SoloInv(d)'
  BY DEF Inv, Shapes, CallInv, SoloInv
<1>4. \A d \in Callers : ServeInv(d)'
  BY DEF Inv, Shapes, CallInv, SoloInv, ServeInv, RowsNotOlder
<1>5. \A d \in Callers : GoodInv(d)'
  BY DEF Inv, Shapes, CallInv, GoodInv
<1>6. RowsNotOlder'
  BY DEF Inv, Shapes, CallInv, SoloInv, RowsNotOlder
<1>7. FreshAnswers'
  BY DEF Inv, Shapes, CallInv, ServeInv, FreshAnswers
<1>8. OnlyGoodFilesServe'
  BY DEF Inv, Shapes, CallInv, GoodInv, OnlyGoodFilesServe
<1>9. QED
  BY <1>1, <1>2, <1>3, <1>4, <1>5, <1>6, <1>7, <1>8 DEF Inv

(* The rows in the cache are replaced before their time stamp is.            *)
LEMMA SetRecordsInv ==
    ASSUME Inv, NEW c \in Callers, SetRecords(c)
    PROVE  Inv'
<1> USE Bounds DEF SetRecords, Answer, Goto, disk, cache, Absent, Steps, Reloading
<1>1. Shapes'
  BY DEF Inv, Shapes, CallInv
<1>2. \A d \in Callers : CallInv(d)'
  BY DEF Inv, Shapes, CallInv
<1>3. \A d \in Callers : SoloInv(d)'
  BY DEF Inv, Shapes, CallInv, SoloInv
<1>4. \A d \in Callers : ServeInv(d)'
  BY DEF Inv, Shapes, CallInv, SoloInv, ServeInv, RowsNotOlder
<1>5. \A d \in Callers : GoodInv(d)'
  <2>1. records' # Absent /\ read' = read /\ contents' = contents
    BY DEF Inv, Shapes, CallInv
  <2>2. \A d \in Callers : pc'[d] = IF d = c THEN "mtime" ELSE pc[d]
    BY DEF Inv, Shapes
  <2>3. QED
    BY <2>1, <2>2 DEF Inv, GoodInv
<1>6. RowsNotOlder'
  BY DEF Inv, Shapes, CallInv, SoloInv, RowsNotOlder
<1>7. FreshAnswers'
  BY DEF Inv, Shapes, CallInv, ServeInv, FreshAnswers
<1>8. OnlyGoodFilesServe'
  BY DEF Inv, Shapes, CallInv, GoodInv, OnlyGoodFilesServe
<1>9. QED
  BY <1>1, <1>2, <1>3, <1>4, <1>5, <1>6, <1>7, <1>8 DEF Inv

(* A reload that met no other makes the cache right again.                   *)
LEMMA SetMtimeInv ==
    ASSUME Inv, NEW c \in Callers, SetMtime(c)
    PROVE  Inv'
<1> USE Bounds DEF SetMtime, Answer, Goto, disk, cache, Absent, Steps, Reloading
<1>1. Shapes'
  BY DEF Inv, Shapes, CallInv
<1>2. \A d \in Callers : CallInv(d)'
  BY DEF Inv, Shapes, CallInv
<1>3. \A d \in Callers : SoloInv(d)'
  BY DEF Inv, Shapes, CallInv, SoloInv
<1>4. \A d \in Callers : ServeInv(d)'
  BY DEF Inv, Shapes, CallInv, SoloInv, ServeInv, RowsNotOlder
<1>5. \A d \in Callers : GoodInv(d)'
  BY DEF Inv, Shapes, CallInv, GoodInv
<1>6. RowsNotOlder'
  BY DEF Inv, Shapes, CallInv, SoloInv, RowsNotOlder
<1>7. FreshAnswers'
  BY DEF Inv, Shapes, CallInv, ServeInv, FreshAnswers
<1>8. OnlyGoodFilesServe'
  BY DEF Inv, Shapes, CallInv, GoodInv, OnlyGoodFilesServe
<1>9. QED
  BY <1>1, <1>2, <1>3, <1>4, <1>5, <1>6, <1>7, <1>8 DEF Inv

(* The answer comes from the rows of the cache.                              *)
LEMMA UseInv ==
    ASSUME Inv, NEW c \in Callers, Use(c)
    PROVE  Inv'
<1> USE Bounds DEF Use, Answer, Goto, disk, cache, Absent, Steps, Reloading
<1>1. Shapes'
  BY DEF Inv, Shapes, CallInv
<1>2. \A d \in Callers : CallInv(d)'
  BY DEF Inv, Shapes, CallInv
<1>3. \A d \in Callers : SoloInv(d)'
  BY DEF Inv, Shapes, CallInv, SoloInv
<1>4. \A d \in Callers : ServeInv(d)'
  BY DEF Inv, Shapes, CallInv, SoloInv, ServeInv, RowsNotOlder
<1>5. \A d \in Callers : GoodInv(d)'
  BY DEF Inv, Shapes, CallInv, GoodInv
<1>6. RowsNotOlder'
  BY DEF Inv, Shapes, CallInv, SoloInv, RowsNotOlder
<1>7. FreshAnswers'
  BY DEF Inv, Shapes, CallInv, ServeInv, FreshAnswers
<1>8. OnlyGoodFilesServe'
  BY DEF Inv, Shapes, CallInv, GoodInv, OnlyGoodFilesServe
<1>9. QED
  BY <1>1, <1>2, <1>3, <1>4, <1>5, <1>6, <1>7, <1>8 DEF Inv

(* Writing and removing the file touches no caller.                          *)
LEMMA FileInv ==
    ASSUME Inv, WriteFile \/ RemoveFile
    PROVE  Inv'
<1> USE Bounds DEF WriteFile, RemoveFile, cache, Absent, Steps, Reloading
<1>1. Shapes'
  BY DEF Inv, Shapes
<1>2. \A d \in Callers : CallInv(d)'
  BY DEF Inv, Shapes, CallInv
<1>3. \A d \in Callers : SoloInv(d)' /\ ServeInv(d)' /\ GoodInv(d)'
  BY DEF Inv, SoloInv, ServeInv, GoodInv
<1>4. RowsNotOlder' /\ FreshAnswers' /\ OnlyGoodFilesServe'
  BY DEF Inv, RowsNotOlder, FreshAnswers, OnlyGoodFilesServe
<1>5. QED
  BY <1>1, <1>2, <1>3, <1>4 DEF Inv

(* Every step preserves the invariant.                                       *)
LEMMA NextInv == Inv /\ [Next]_vars => Inv'
<1> SUFFICES ASSUME Inv, [Next]_vars PROVE Inv'
  OBVIOUS
<1>1. CASE UNCHANGED vars
  BY <1>1 DEF vars, Inv, Shapes, CallInv, SoloInv, ServeInv, GoodInv, RowsNotOlder,
              FreshAnswers, OnlyGoodFilesServe
<1>2. CASE \E c \in Callers : ResolveQuery(c) \/ ResolveVehicle(c)
  BY <1>2, BeginInv DEF ResolveQuery, ResolveVehicle
<1>3. CASE \E c \in Callers : Stat(c) \/ Compare(c) \/ ReadFails(c) \/ RefuseFile(c)
  BY <1>3, StatInv, CompareInv, ReadFailsInv, RefuseFileInv
<1>4. CASE \E c \in Callers : ReadFile(c) \/ SetRecords(c) \/ SetMtime(c) \/ Use(c)
  BY <1>4, ReadFileInv, SetRecordsInv, SetMtimeInv, UseInv
<1>5. CASE WriteFile \/ RemoveFile
  BY <1>5, FileInv
<1>6. QED
  BY <1>1, <1>2, <1>3, <1>4, <1>5 DEF Next

-----------------------------------------------------------------------------
(* What a lookup computes.                                                   *)

(* A non-empty set of naturals has a least element.                          *)
LEMMA LeastNatural ==
    ASSUME NEW T \in SUBSET Nat, T # {}
    PROVE  \E x \in T : \A y \in T : x <= y
<1> DEFINE R == OpToRel(<, Nat)
<1>1. \A x, y \in Nat : y < x => <<y, x>> \in R BY DEF OpToRel
<1>2. IsWellFoundedOn(R, Nat) BY NatLessThanWellFounded, Zenon
<1> HIDE DEF R
<1>3. PICK x \in T : \A y \in T : ~ (<<y, x>> \in R) BY <1>2, WFMin
<1>4. ASSUME NEW y \in T PROVE x <= y
  <2>1. x \in Nat /\ y \in Nat OBVIOUS
  <2>2. ~ (y < x) BY <1>1, <1>3, <2>1, Zenon
  <2>3. QED BY <2>1, <2>2
<1>5. QED BY <1>4

(* The rows that match are none, one, or two and more.                       *)
LEMMA MatchesCount ==
    ASSUME NEW rows \in Seq(Row), NEW field, NEW key
    PROVE  LET M == Matches(rows, field, key)
           IN  /\ Cardinality(M) \in Nat
               /\ Cardinality(M) = 0 <=> M = {}
               /\ Cardinality(M) = 1 => \E i \in DOMAIN rows : M = {i}
               /\ Cardinality(M) > 1 => \E i, j \in M : i # j
<1> DEFINE M == Matches(rows, field, key)
<1>1. M \in SUBSET (1 .. Len(rows)) /\ Len(rows) \in Int /\ DOMAIN rows = 1 .. Len(rows)
  BY DEF Matches
<1> HIDE DEF M
<1>2. IsFiniteSet(M)
  <2>1. 1 \in Int /\ Len(rows) \in Int BY <1>1
  <2>2. IsFiniteSet(1 .. Len(rows)) BY <2>1, FS_Interval
  <2>3. QED BY <1>1, <2>2, FS_Subset, Zenon
<1>3. Cardinality(M) \in Nat /\ (Cardinality(M) = 0 <=> M = {})
  BY <1>2, FS_CardinalityType, FS_EmptySet
<1>4. ASSUME Cardinality(M) = 1 PROVE \E i \in DOMAIN rows : M = {i}
  <2>1. PICK i : M = {i} BY <1>2, <1>4, FS_Singleton, Zenon
  <2>2. QED BY <1>1, <2>1
<1>5. ASSUME Cardinality(M) > 1 PROVE \E i, j \in M : i # j
  <2>1. M # {} BY <1>3, <1>5
  <2>2. PICK i : i \in M BY <2>1
  <2>3. Cardinality({i}) = 1 BY FS_Singleton, Zenon
  <2>4. M # {i}
    <3>1. M = {i} => Cardinality(M) = 1 BY <2>3, Zenon
    <3>2. QED BY <1>5, <3>1
  <2>5. QED BY <2>2, <2>4
<1>6. QED BY <1>3, <1>4, <1>5 DEF M

(* One turn of the loop of resolve_query, with f for the turns that follow.  *)
TryField(rows, fields, key, f, n) ==
    IF n > Len(fields) THEN Error("vehicle_ip_not_found")
    ELSE LET matches == Matches(rows, fields[n], key)
         IN  CASE Cardinality(matches) = 1 -> Validated(rows, CHOOSE i \in matches : TRUE)
               [] Cardinality(matches) > 1 -> Error("vehicle_inventory_ambiguous")
               [] OTHER -> f[n + 1]

Tries(rows, fields, key, f) ==
    f = [n \in 1 .. Len(fields) + 1 |-> TryField(rows, fields, key, f, n)]

(* The recursion in Lookup defines something as soon as any function         *)
(* satisfies it.                                                             *)
LEMMA LookupTries ==
    ASSUME NEW rows, NEW fields, NEW key, NEW g, Tries(rows, fields, key, g)
    PROVE  \E f : Tries(rows, fields, key, f) /\ Lookup(rows, fields, key) = f[1]
<1> DEFINE h == CHOOSE f : Tries(rows, fields, key, f)
<1>1. Tries(rows, fields, key, h) BY Zenon
<1>2. Lookup(rows, fields, key) = h[1] BY Zenon DEF Lookup, Tries, TryField
<1> HIDE DEF h
<1>3. QED BY <1>1, <1>2, Zenon

FieldNames == {"garage_number", "vehicle_id", "plate"}

(* m is the first of the fields from n on in which a row matches, or past    *)
(* the last one.                                                             *)
IsFirst(rows, fields, key, n, m) ==
    /\ m \in n .. Len(fields) + 1
    /\ m <= Len(fields) => Matches(rows, fields[m], key) # {}
    /\ \A k \in n .. m - 1 : Matches(rows, fields[k], key) = {}

LEMMA FirstExists ==
    ASSUME NEW rows, NEW fields \in Seq(FieldNames), NEW key,
           NEW n \in 1 .. Len(fields) + 1
    PROVE  \E m : IsFirst(rows, fields, key, n, m)
<1> DEFINE T == {m \in n .. Len(fields) + 1 :
                     m <= Len(fields) => Matches(rows, fields[m], key) # {}}
<1>0. Len(fields) \in Nat OBVIOUS
<1>1. T \in SUBSET Nat /\ Len(fields) + 1 \in T BY <1>0
<1>2. PICK m \in T : \A y \in T : m <= y
  <2> HIDE DEF T
  <2>1. QED BY <1>1, LeastNatural
<1>3. ASSUME NEW k \in n .. m - 1 PROVE Matches(rows, fields[k], key) = {}
  <2>1. k \in n .. Len(fields) + 1 /\ k <= Len(fields) /\ ~ (m <= k) BY <1>0, <1>2
  <2>2. k \notin T BY <1>2, <2>1
  <2>3. QED BY <2>1, <2>2
<1>4. IsFirst(rows, fields, key, n, m) BY <1>2, <1>3 DEF IsFirst
<1>5. QED BY <1>4

LEMMA FirstUnique ==
    ASSUME NEW rows, NEW fields \in Seq(FieldNames), NEW key,
           NEW n \in 1 .. Len(fields) + 1, NEW m, NEW k,
           IsFirst(rows, fields, key, n, m), IsFirst(rows, fields, key, n, k)
    PROVE  m = k
<1>0. Len(fields) \in Nat /\ n \in Nat OBVIOUS
<1>1. m \in n .. Len(fields) + 1 /\ k \in n .. Len(fields) + 1 BY DEF IsFirst
<1>2. m \in Int /\ k \in Int BY <1>0, <1>1
<1>3. ~ (m < k)
  <2> SUFFICES ASSUME m < k PROVE FALSE OBVIOUS
  <2>1. m <= Len(fields) /\ m \in n .. k - 1 BY <1>0, <1>1, <1>2
  <2>2. QED BY <2>1 DEF IsFirst
<1>4. ~ (k < m)
  <2> SUFFICES ASSUME k < m PROVE FALSE OBVIOUS
  <2>1. k <= Len(fields) /\ k \in n .. m - 1 BY <1>0, <1>1, <1>2
  <2>2. QED BY <2>1 DEF IsFirst
<1>5. QED BY <1>2, <1>3, <1>4

(* What the lookup answers once it is in the m-th field.                     *)
Verdict(rows, fields, key, m) ==
    IF m > Len(fields) THEN Error("vehicle_ip_not_found")
    ELSE IF Cardinality(Matches(rows, fields[m], key)) = 1
         THEN Validated(rows, CHOOSE i \in Matches(rows, fields[m], key) : TRUE)
         ELSE Error("vehicle_inventory_ambiguous")

(* A turn in a field without a match is the next turn, any other is final.   *)
LEMMA TryFieldCases ==
    ASSUME NEW rows \in Seq(Row), NEW fields \in Seq(FieldNames), NEW key, NEW f,
           NEW n \in 1 .. Len(fields) + 1
    PROVE  /\ n <= Len(fields) /\ Matches(rows, fields[n], key) = {} =>
                  TryField(rows, fields, key, f, n) = f[n + 1]
           /\ (n <= Len(fields) => Matches(rows, fields[n], key) # {}) =>
                  TryField(rows, fields, key, f, n) = Verdict(rows, fields, key, n)
<1> DEFINE M == Matches(rows, fields[n], key)
<1>0. Len(fields) \in Nat /\ n \in Nat OBVIOUS
<1>1. Cardinality(M) \in Nat /\ (Cardinality(M) = 0 <=> M = {})
  BY MatchesCount
<1>2. TryField(rows, fields, key, f, n) =
          IF n > Len(fields) THEN Error("vehicle_ip_not_found")
          ELSE CASE Cardinality(M) = 1 -> Validated(rows, CHOOSE i \in M : TRUE)
                 [] Cardinality(M) > 1 -> Error("vehicle_inventory_ambiguous")
                 [] OTHER -> f[n + 1]
  BY DEF TryField
<1>3. Verdict(rows, fields, key, n) =
          IF n > Len(fields) THEN Error("vehicle_ip_not_found")
          ELSE IF Cardinality(M) = 1 THEN Validated(rows, CHOOSE i \in M : TRUE)
                                     ELSE Error("vehicle_inventory_ambiguous")
  BY DEF Verdict
<1> HIDE DEF M
<1>4. ASSUME n <= Len(fields), M = {} PROVE TryField(rows, fields, key, f, n) = f[n + 1]
  BY <1>0, <1>1, <1>2, <1>4
<1>5. ASSUME n <= Len(fields) => M # {}
      PROVE  TryField(rows, fields, key, f, n) = Verdict(rows, fields, key, n)
  BY <1>0, <1>1, <1>2, <1>3, <1>5
<1>6. QED BY <1>4, <1>5 DEF M

(* The loop ends, with the verdict of the first field in which a row matches.*)
LEMMA LookupVerdict ==
    ASSUME NEW rows \in Seq(Row), NEW fields \in Seq(FieldNames), NEW key
    PROVE  \E m : /\ IsFirst(rows, fields, key, 1, m)
                  /\ Lookup(rows, fields, key) = Verdict(rows, fields, key, m)
<1> DEFINE L == Len(fields)
           First(n) == CHOOSE m : IsFirst(rows, fields, key, n, m)
           g == [n \in 1 .. L + 1 |-> Verdict(rows, fields, key, First(n))]
<1>0. L \in Nat OBVIOUS
<1>1. ASSUME NEW n \in 1 .. L + 1 PROVE IsFirst(rows, fields, key, n, First(n))
  BY FirstExists, Zenon
<1> HIDE DEF First
<1>2. ASSUME NEW n \in 1 .. L + 1 PROVE g[n] = TryField(rows, fields, key, g, n)
  <2>1. CASE n <= L => Matches(rows, fields[n], key) # {}
    <3>1. IsFirst(rows, fields, key, n, n) BY <1>0, <2>1 DEF IsFirst
    <3>2. First(n) = n BY <1>1, <3>1, FirstUnique
    <3>3. QED BY <2>1, <3>2, TryFieldCases
  <2>2. CASE n <= L /\ Matches(rows, fields[n], key) = {}
    <3>1. n + 1 \in 1 .. L + 1 BY <1>0, <2>2
    <3>2. IsFirst(rows, fields, key, n + 1, First(n + 1)) BY <1>1, <3>1
    <3>3. IsFirst(rows, fields, key, n, First(n + 1))
      <4>1. First(n + 1) \in n .. L + 1 BY <1>0, <3>2 DEF IsFirst
      <4>2. ASSUME NEW k \in n .. First(n + 1) - 1 PROVE Matches(rows, fields[k], key) = {}
        <5>1. k = n \/ k \in n + 1 .. First(n + 1) - 1 BY <1>0, <4>1
        <5>2. QED BY <2>2, <3>2, <5>1 DEF IsFirst
      <4>3. QED BY <3>2, <4>1, <4>2 DEF IsFirst
    <3>4. First(n) = First(n + 1) BY <1>1, <3>3, FirstUnique
    <3>5. g[n] = g[n + 1] BY <3>1, <3>4
    <3> HIDE DEF g
    <3>6. QED BY <2>2, <3>5, TryFieldCases
  <2>3. QED BY <2>1, <2>2
<1>3. Tries(rows, fields, key, g) BY <1>2 DEF Tries
<1> HIDE DEF g
<1>4. PICK f : Tries(rows, fields, key, f) /\ Lookup(rows, fields, key) = f[1]
  BY <1>3, LookupTries
<1>5. \A n \in 1 .. L + 1 : f[n] = TryField(rows, fields, key, f, n)
  BY <1>4 DEF Tries
<1>6. PICK m : IsFirst(rows, fields, key, 1, m)
  <2>1. 1 \in 1 .. L + 1 BY <1>0
  <2>2. QED BY <2>1, FirstExists
<1>7. m \in 1 .. L + 1 BY <1>6 DEF IsFirst
<1>8. f[m] = Verdict(rows, fields, key, m)
  <2>1. m <= L => Matches(rows, fields[m], key) # {} BY <1>6 DEF IsFirst
  <2>2. TryField(rows, fields, key, f, m) = Verdict(rows, fields, key, m)
    BY <1>7, <2>1, TryFieldCases
  <2>3. QED BY <1>5, <1>7, <2>2
<1>9. f[1] = f[m]
  <2> DEFINE T == {n \in 1 .. m : f[n] = f[m]}
  <2>1. T \in SUBSET Nat /\ m \in T BY <1>0, <1>7
  <2>2. PICK x \in T : \A y \in T : x <= y
    <3> HIDE DEF T
    <3>1. QED BY <2>1, LeastNatural
  <2>3. ASSUME x # 1 PROVE FALSE
    <3>1. PICK p \in 1 .. L : p = x - 1 BY <1>0, <1>7, <2>2, <2>3
    <3>2. p \in 1 .. m - 1 /\ p \in 1 .. L + 1 /\ p + 1 = x BY <1>0, <1>7, <2>2, <3>1
    <3>3. Matches(rows, fields[p], key) = {} BY <1>6, <3>2 DEF IsFirst
    <3>4. f[p] = f[x] BY <1>5, <3>1, <3>2, <3>3, TryFieldCases
    <3>5. p \in T BY <1>0, <1>7, <2>2, <3>2, <3>4
    <3>6. QED BY <1>0, <2>2, <3>1, <3>5
  <2>4. QED BY <2>2, <2>3
<1>10. QED BY <1>4, <1>6, <1>8, <1>9

(* vehicle_inventory.py:55-85: a lookup answers what it may, however many    *)
(* fields it is to look in and whatever the rows.                            *)
LEMMA LookupFits ==
    ASSUME NEW rows \in Seq(Row), NEW fields \in Seq(FieldNames), NEW key
    PROVE  /\ AnswerFits(rows, fields, key, Lookup(rows, fields, key))
           /\ Lookup(rows, fields, key) \in [row : Nat, error : Errors]
<1>1. PICK m : /\ IsFirst(rows, fields, key, 1, m)
               /\ Lookup(rows, fields, key) = Verdict(rows, fields, key, m)
  BY LookupVerdict
<1> DEFINE a == Lookup(rows, fields, key)
           M(n) == Matches(rows, fields[n], key)
<1>0. Len(fields) \in Nat /\ DOMAIN fields = 1 .. Len(fields) OBVIOUS
<1>2. m \in Nat /\ m \in 1 .. Len(fields) + 1 /\ \A k \in 1 .. m - 1 : M(k) = {}
  <2>1. /\ m \in 1 .. Len(fields) + 1
        /\ \A k \in 1 .. m - 1 : Matches(rows, fields[k], key) = {}
    BY <1>1, Zenon DEF IsFirst
  <2>2. m \in Nat BY <1>0, <2>1
  <2>3. QED BY <2>1, <2>2
<1>3. CASE m > Len(fields)
  <2>1. a = Error("vehicle_ip_not_found") BY <1>1, <1>3 DEF Verdict
  <2>2. ASSUME NEW n \in DOMAIN fields PROVE M(n) = {}
    <3>1. n \in 1 .. m - 1 BY <1>0, <1>2, <1>3
    <3>2. QED BY <1>2, <3>1
  <2>3. \A n \in DOMAIN fields : ~ Finds(rows, fields, key, n) BY <2>2 DEF Finds
  <2>4. QED BY <2>1, <2>3 DEF AnswerFits, Error, Errors
<1>4. CASE m <= Len(fields)
  <2>1. m \in DOMAIN fields /\ M(m) # {} /\ Finds(rows, fields, key, m)
    <3>1. m \in DOMAIN fields BY <1>0, <1>2, <1>4
    <3>2. M(m) # {} BY <1>1, <1>4 DEF IsFirst
    <3>3. Finds(rows, fields, key, m) BY <1>2, <3>2 DEF Finds
    <3>4. QED BY <3>1, <3>2, <3>3
  <2>2. CASE Cardinality(M(m)) = 1
    <3>1. PICK i \in DOMAIN rows : M(m) = {i} BY <2>2, MatchesCount
    <3>2. a = Validated(rows, i)
      <4>1. (CHOOSE k \in M(m) : TRUE) = i BY <3>1
      <4>2. ~ (m > Len(fields)) BY <1>0, <1>2, <1>4
      <4>3. a = Validated(rows, CHOOSE k \in M(m) : TRUE)
        BY <1>1, <2>2, <4>2, Zenon DEF Verdict
      <4>4. QED BY <4>1, <4>3, Zenon
    <3>3. i \in Nat OBVIOUS
    <3>4. CASE rows[i].ip = "valid"
      <4>1. a.error = "none" /\ a.row = i /\ a \in [row : Nat, error : Errors]
        BY <3>2, <3>3, <3>4 DEF Validated, Found, Errors
      <4>2. QED BY <2>1, <3>1, <3>4, <4>1 DEF AnswerFits
    <3>5. CASE rows[i].ip # "valid"
      <4>1. a = Error("vehicle_ip_not_found") BY <3>2, <3>5 DEF Validated
      <4>2. ASSUME NEW n \in DOMAIN fields, Finds(rows, fields, key, n) PROVE n = m
        <5>0. n \in Nat /\ 1 <= n /\ 1 <= m BY <1>0, <1>2, <4>2
        <5>1. ~ (n < m)
          <6>1. M(n) # {} BY <4>2 DEF Finds
          <6>2. n < m => n \in 1 .. m - 1 BY <1>2, <5>0
          <6>3. QED BY <1>2, <6>1, <6>2
        <5>2. ~ (m < n)
          <6>1. m \in 1 .. n - 1 => M(m) = {} BY <4>2 DEF Finds
          <6>2. m < n => m \in 1 .. n - 1 BY <1>2, <5>0
          <6>3. QED BY <2>1, <6>1, <6>2
        <5>3. QED BY <1>0, <1>2, <5>1, <5>2
      <4>3. QED BY <3>1, <3>5, <4>1, <4>2 DEF AnswerFits, Error, Errors
    <3>6. QED BY <3>4, <3>5
  <2>3. CASE Cardinality(M(m)) # 1
    <3>1. a = Error("vehicle_inventory_ambiguous")
      BY <1>0, <1>1, <1>2, <1>4, <2>3 DEF Verdict
    <3>2. PICK i, j \in M(m) : i # j
      <4>1. /\ Cardinality(M(m)) \in Nat
            /\ Cardinality(M(m)) = 0 <=> M(m) = {}
            /\ Cardinality(M(m)) > 1 => \E i, j \in M(m) : i # j
        BY MatchesCount
      <4>2. Cardinality(M(m)) > 1 BY <2>1, <2>3, <4>1
      <4>3. QED BY <4>1, <4>2
    <3>3. QED BY <2>1, <3>1, <3>2 DEF AnswerFits, Error, Errors
  <2>4. QED BY <2>2, <2>3
<1>5. QED BY <1>0, <1>2, <1>3, <1>4

-----------------------------------------------------------------------------
(* The answers.                                                              *)

(* What was looked for and what was answered; the answers of lookups fit the *)
(* rows they were looked up in, and there are rows for every call about to   *)
(* use the cache.                                                            *)
AnswerKinds ==
    /\ search \in [Callers -> [fields : Seq(FieldNames), key : Texts]]
    /\ answer \in [Callers -> [row : Nat, error : Errors]]
    /\ stat \in [Callers -> Versions \cup {Absent}]
    /\ read \in [Callers -> Versions \cup {Absent}]
    /\ since \in [Callers -> Versions \cup {Absent}]
    /\ used \in [Callers -> Versions \cup {Absent}]
    /\ solo \in Callers \cup {"nobody"}

AnswerInv ==
    /\ AnswerKinds
    /\ \A c \in Callers : pc[c] = "use" => records # Absent
    /\ LookupRight

LEMMA AnswersInit == Init => AnswerInv
<1> SUFFICES ASSUME Init PROVE AnswerInv OBVIOUS
<1>1. NoSearch \in [fields : Seq(FieldNames), key : Texts]
  BY InventoryAssumption DEF NoSearch
<1>2. NoAnswer \in [row : Nat, error : Errors] BY DEF NoAnswer, Error, Errors
<1>3. AnswerKinds BY <1>1, <1>2 DEF Init, AnswerKinds
<1>4. \A c \in Callers : pc[c] = "idle" /\ used[c] = Absent BY DEF Init
<1>5. QED BY <1>3, <1>4 DEF AnswerInv, LookupRight

(* A call that looks for nothing yet, or no more, and the others as before.  *)
LEMMA AnswersKept ==
    ASSUME Inv, AnswerInv, AnswerKinds', NEW c \in Callers,
           contents' = contents,
           pc'[c] = "use" => records' # Absent,
           records # Absent => records' # Absent,
           used'[c] = Absent,
           \A d \in Callers \ {c} : /\ pc'[d] = pc[d] /\ used'[d] = used[d]
                                    /\ search'[d] = search[d] /\ answer'[d] = answer[d]
    PROVE  AnswerInv'
<1>1. \A d \in Callers : pc'[d] = "use" => records' # Absent BY DEF AnswerInv
<1>2. LookupRight' BY DEF AnswerInv, LookupRight
<1>3. QED BY <1>1, <1>2 DEF AnswerInv

LEMMA BeginAnswers ==
    ASSUME Inv, AnswerInv, NEW c \in Callers, NEW f \in Seq(FieldNames), NEW k \in Texts,
           Begin(c, f, k)
    PROVE  AnswerInv'
<1>1. PICK a \in [row : Nat, error : Errors], step \in {"idle", "stat"} :
          /\ answer' = [answer EXCEPT ![c] = a]
          /\ pc' = [pc EXCEPT ![c] = step]
  <2>1. CASE k = Empty BY <2>1 DEF Begin, Answer, Goto, Error, Errors
  <2>2. CASE k # Empty BY <2>2 DEF Begin, Goto, NoAnswer, Error, Errors
  <2>3. QED BY <2>1, <2>2
<1>2. /\ search' = [search EXCEPT ![c] = [fields |-> f, key |-> k]]
      /\ since' = [since EXCEPT ![c] = newest]
      /\ used' = [used EXCEPT ![c] = Absent]
      /\ newest \in Versions
      /\ UNCHANGED <<contents, records, solo>>
  BY DEF Begin, disk, cache, Inv, Shapes
<1>3. /\ stat' \in [Callers -> Versions \cup {Absent}]
      /\ read' \in [Callers -> Versions \cup {Absent}]
  BY DEF Begin, Answer, AnswerInv, AnswerKinds
<1>4. AnswerKinds' BY <1>1, <1>2, <1>3 DEF AnswerInv, AnswerKinds
<1>5. QED BY <1>1, <1>2, <1>4, AnswersKept DEF AnswerInv, AnswerKinds, Inv, Shapes

LEMMA CallsLookForFields ==
    ASSUME NEW c \in Callers, ResolveQuery(c) \/ ResolveVehicle(c)
    PROVE  \E f \in Seq(FieldNames), k \in Texts : Begin(c, f, k)
<1>1. Fields \in Seq(FieldNames) /\ \A n \in DOMAIN Fields : <<Fields[n]>> \in Seq(FieldNames)
  BY DEF Fields, FieldNames
<1>2. \A t \in Texts : Normal[t] \in Texts BY InventoryAssumption
<1>3. CASE ResolveQuery(c) BY <1>1, <1>2, <1>3 DEF ResolveQuery
<1>4. CASE ResolveVehicle(c) BY <1>1, <1>2, <1>4 DEF ResolveVehicle
<1>5. QED BY <1>3, <1>4

(* Calls on the way through _load_records, or out of it with an error.       *)
LEMMA LoadAnswers ==
    ASSUME Inv, AnswerInv, NEW c \in Callers,
           \/ Stat(c) \/ Compare(c) \/ ReadFails(c) \/ RefuseFile(c)
           \/ ReadFile(c) \/ SetRecords(c) \/ SetMtime(c)
    PROVE  AnswerInv'
<1> USE DEF Stat, Compare, ReadFails, RefuseFile, ReadFile, SetRecords, SetMtime
<1>0. pc[c] # "idle" /\ used[c] = Absent /\ Absent \notin Versions /\ pc[c] # "use"
  BY Bounds DEF Inv, CallInv, Absent
<1>1. /\ contents' = contents /\ search' = search /\ used' = used /\ since' = since
      /\ solo' \in Callers \cup {"nobody"}
  BY DEF disk, cache, AnswerInv, AnswerKinds
<1>2. answer' = answer \/ \E a \in [row : Nat, error : Errors] : answer' = [answer EXCEPT ![c] = a]
  <2>1. \A r : RowError(r) \in [row : Nat, error : Errors] BY DEF RowError, Error, Errors
  <2>2. QED BY <2>1 DEF Answer, Error, Errors
<1>3. \E step : pc' = [pc EXCEPT ![c] = step]
  BY DEF Answer, Goto
<1>4. file \in Versions \cup {Absent} BY DEF Inv, Shapes
<1>5. stat' \in [Callers -> Versions \cup {Absent}] /\ read' \in [Callers -> Versions \cup {Absent}]
  BY <1>4 DEF Answer, AnswerInv, AnswerKinds
<1>6. AnswerKinds' BY <1>1, <1>2, <1>5 DEF AnswerInv, AnswerKinds
<1>7. records # Absent => records' # Absent
  <2>1. records' = records \/ (pc[c] = "records" /\ records' = read[c])
    BY DEF cache
  <2>2. pc[c] = "records" => read[c] # Absent
    BY Bounds DEF Inv, Shapes, CallInv, Absent, Reloading
  <2>3. QED BY <2>1, <2>2
<1>8. pc'[c] = "use" => records' # Absent
  <2>1. CASE Compare(c)
    <3>1. pc'[c] = "use" => loadedMtime = stat[c] /\ stat[c] \in Versions /\ records' = records
      BY <2>1 DEF Goto, Inv, Shapes, CallInv
    <3>2. QED BY <1>0, <3>1 DEF Inv, OnlyGoodFilesServe
  <2>2. CASE SetMtime(c) BY <2>2 DEF Inv, GoodInv
  <2>3. CASE Stat(c) \/ ReadFails(c) \/ RefuseFile(c) \/ ReadFile(c) \/ SetRecords(c)
    BY <2>3 DEF Answer, Goto, Inv, Shapes
  <2>4. QED BY <2>1, <2>2, <2>3
<1> HIDE DEF Stat, Compare, ReadFails, RefuseFile, ReadFile, SetRecords, SetMtime
<1>9. \A d \in Callers \ {c} : pc'[d] = pc[d] /\ answer'[d] = answer[d]
  BY <1>2, <1>3 DEF AnswerInv, AnswerKinds, Inv, Shapes
<1>10. QED BY <1>0, <1>1, <1>6, <1>7, <1>8, <1>9, AnswersKept

(* The answer of a lookup fits the rows it was looked up in.                 *)
LEMMA UseAnswers ==
    ASSUME Inv, AnswerInv, NEW c \in Callers, Use(c)
    PROVE  AnswerInv'
<1> DEFINE a == Lookup(contents[records], search[c].fields, search[c].key)
<1>1. /\ pc[c] = "use"
      /\ pc' = [pc EXCEPT ![c] = "idle"]
      /\ answer' = [answer EXCEPT ![c] = a]
      /\ stat' = [stat EXCEPT ![c] = Absent]
      /\ read' = [read EXCEPT ![c] = Absent]
      /\ used' = [used EXCEPT ![c] = IF overlapped THEN Absent ELSE records]
      /\ UNCHANGED <<contents, records, solo, search, since>>
  BY DEF Use, Answer, Goto, disk, cache
<1>2. records \in Versions
  BY <1>1, Bounds DEF AnswerInv, Inv, Shapes, Absent
<1>3. contents[records] \in Seq(Row) BY <1>2, InventoryAssumption DEF Inv, Shapes
<1>4. search[c].fields \in Seq(FieldNames) BY DEF AnswerInv, AnswerKinds
<1>5. /\ AnswerFits(contents[records], search[c].fields, search[c].key, a)
      /\ a \in [row : Nat, error : Errors]
  BY <1>3, <1>4, LookupFits
<1> HIDE DEF a
<1>6. AnswerKinds' BY <1>1, <1>2, <1>5 DEF AnswerInv, AnswerKinds
<1>7. ASSUME NEW d \in Callers
      PROVE  /\ pc'[d] = "use" => records' # Absent
             /\ used'[d] # Absent =>
                    AnswerFits(contents[used'[d]], search[d].fields, search[d].key, answer'[d])
  <2>1. CASE d = c
    <3>1. answer'[c] = a /\ pc'[c] = "idle" /\ used'[c] \in {Absent, records}
      BY <1>1 DEF AnswerInv, AnswerKinds, Inv, Shapes
    <3>2. QED BY <1>5, <2>1, <3>1
  <2>2. CASE d # c
    <3>1. answer'[d] = answer[d] /\ pc'[d] = pc[d] /\ used'[d] = used[d]
      BY <1>1, <2>2 DEF AnswerInv, AnswerKinds, Inv, Shapes
    <3>2. QED BY <1>1, <3>1 DEF AnswerInv, LookupRight
  <2>3. QED BY <2>1, <2>2
<1>8. LookupRight' BY <1>1, <1>7 DEF LookupRight
<1>9. QED BY <1>6, <1>7, <1>8 DEF AnswerInv

LEMMA AnswersNext == Inv /\ AnswerInv /\ [Next]_vars => AnswerInv'
<1> SUFFICES ASSUME Inv, AnswerInv, [Next]_vars PROVE AnswerInv'
  OBVIOUS
<1>1. CASE \E c \in Callers : ResolveQuery(c) \/ ResolveVehicle(c)
  BY <1>1, CallsLookForFields, BeginAnswers
<1>2. CASE \E c \in Callers : \/ Stat(c) \/ Compare(c) \/ ReadFails(c) \/ RefuseFile(c)
                              \/ ReadFile(c) \/ SetRecords(c) \/ SetMtime(c)
  BY <1>2, LoadAnswers
<1>3. CASE \E c \in Callers : Use(c)
  BY <1>3, UseAnswers
<1>4. CASE WriteFile \/ RemoveFile \/ UNCHANGED vars
  <2>1. UNCHANGED <<contents, records, solo, pc, search, stat, read, answer, since, used>>
    BY <1>4 DEF WriteFile, RemoveFile, vars, cache
  <2>2. QED BY <2>1 DEF AnswerInv, AnswerKinds, LookupRight
<1>5. QED BY <1>1, <1>2, <1>3, <1>4 DEF Next

-----------------------------------------------------------------------------
(* vehicle_inventory.py:87-103: however many threads resolve while the file  *)
(* is written and removed, rows kept under a time stamp are at least as new  *)
(* as it, unless reloads have met and none has run by itself since.          *)
THEOREM RowsNeverOlder == Spec => []RowsNotOlder
<1>1. Inv => RowsNotOlder
  BY DEF Inv
<1>2. QED
  BY InitInv, NextInv, <1>1, PTL DEF Spec

(* Under the same exception no call is answered from an inventory older than *)
(* the one that was on disk when it began.                                   *)
THEOREM AnswersFresh == Spec => []FreshAnswers
<1>1. Inv => FreshAnswers
  BY DEF Inv
<1>2. QED
  BY InitInv, NextInv, <1>1, PTL DEF Spec

(* A file with a row that cannot be used never reaches the cache, overlapping*)
(* reloads or not.                                                           *)
THEOREM CacheHoldsGoodFiles == Spec => []OnlyGoodFilesServe
<1>1. Inv => OnlyGoodFilesServe
  BY DEF Inv
<1>2. QED
  BY InitInv, NextInv, <1>1, PTL DEF Spec

(* The types of calls, answers and cache, whoever calls and writes the file. *)
THEOREM TypesHold == Spec => []TypeOK
<1>1. Inv /\ AnswerInv => TypeOK
  <2> SUFFICES ASSUME Inv, AnswerInv PROVE TypeOK OBVIOUS
  <2>1. /\ contents \in [Versions -> Inventories] /\ newest \in Versions
        /\ file \in Versions \cup {Absent}
        /\ pc \in [Callers -> Steps] /\ overlapped \in BOOLEAN
    BY DEF Inv, Shapes
  <2>2. records \in Versions \cup {Absent} /\ loadedMtime \in Versions \cup {Absent}
    BY Bounds DEF Inv, Shapes, Absent
  <2>3. \A c \in Callers : /\ search[c].key \in Texts
                           /\ answer[c].row \in Nat /\ answer[c].error \in Errors
    BY DEF AnswerInv, AnswerKinds
  <2>4. QED BY <2>1, <2>2, <2>3 DEF TypeOK, AnswerInv, AnswerKinds
<1>2. QED
  BY InitInv, NextInv, AnswersInit, AnswersNext, <1>1, PTL DEF Spec

(* resolve_query and resolve_vehicle give a vehicle only if it is the one    *)
(* with the identifier, in the first field in which there is one, and say    *)
(* "ambiguous" and "not found" only when that is so, for any inventory.      *)
THEOREM LookupsRight == Spec => []LookupRight
<1>1. AnswerInv => LookupRight
  BY DEF AnswerInv
<1>2. QED
  BY InitInv, NextInv, AnswersInit, AnswersNext, <1>1, PTL DEF Spec
=============================================================================
