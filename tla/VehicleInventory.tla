-------------------------- MODULE VehicleInventory --------------------------
(***************************************************************************)
(* VehicleInventory of src/bo_vpn_agent/vehicle_inventory.py, and the two  *)
(* ways into it: GET /vehicles/resolve, which takes no lock, and POST      *)
(* /tasks, which comes in under the lock of the worker.                    *)
(*                                                                         *)
(* The CSV file is cached: the rows in _records, the time stamp they were  *)
(* read under in _loaded_mtime_ns.  The two are compared and written in    *)
(* steps of their own, so that calls of several threads can interleave.    *)
(***************************************************************************)
EXTENDS Integers, Sequences, FiniteSets

CONSTANTS
    Readers,        \* threads that answer GET /vehicles/resolve
    TaskCaller,     \* the thread of POST /tasks that holds the worker's lock
    Texts,          \* cell contents and query parameters as they come in
    Normal,         \* what normalize_identifier makes of each of them
    Empty,          \* the empty text
    Inventories,    \* sequences of rows a file may hold
    MaxVersion      \* how often the file is written; a version is its mtime

Fields == <<"garage_number", "vehicle_id", "plate">>      \* IDENTIFIER_FIELDS
Ips == {"valid", "invalid", "empty"}
Row == [garage_number : Texts, vehicle_id : Texts, plate : Texts, ip : Ips]
Callers == Readers \cup {TaskCaller}
Absent == 0                                    \* there is no file, no cache yet
Versions == 1 .. MaxVersion

ASSUME InventoryAssumption ==
    /\ TaskCaller \notin Readers /\ "nobody" \notin Callers
    /\ Empty \in Texts
    /\ Normal \in [Texts -> Texts]
    /\ Normal[Empty] = Empty
    /\ \A t \in Texts : Normal[Normal[t]] = Normal[t]
    /\ Inventories \subseteq Seq(Row)
    /\ MaxVersion \in Nat \ {0}

VARIABLES
    contents,       \* the rows of each version of the file
    file,           \* the version on disk, or Absent
    newest,         \* the last version written
    records,        \* the version self._records was read from
    loadedMtime,    \* self._loaded_mtime_ns
    pc,             \* where each caller is in _load_records
    search,         \* the fields it looks in, and for which identifier
    stat,           \* stat.st_mtime_ns of its call
    read,           \* the version its rows were read from
    answer,         \* what the call gave
    since,          \* ghost: the newest version when the call began
    used,           \* ghost: the version the answer was looked up in
    solo,           \* ghost: the reload that no other has met so far
    overlapped      \* ghost: reloads have met since the last one of its own

vars == <<contents, file, newest, records, loadedMtime, pc, search, stat, read,
          answer, since, used, solo, overlapped>>
cache == <<records, loadedMtime, solo, overlapped>>
disk == <<contents, file, newest>>

Reloading == {"read", "records", "mtime"}
Steps == {"idle", "stat", "compare", "use"} \cup Reloading
Errors == {"none", "vehicle_ip_not_found", "vehicle_inventory_ambiguous",
           "invalid_request", "crash"}
NoSearch == [fields |-> <<>>, key |-> Empty]
Found(i) == [row |-> i, error |-> "none"]
Error(code) == [row |-> 0, error |-> code]
NoAnswer == Error("none")

Init == /\ contents \in [Versions -> Inventories]
        /\ file \in {Absent, 1} /\ newest = 1
        /\ records = Absent /\ loadedMtime = Absent
        /\ pc = [c \in Callers |-> "idle"]
        /\ search = [c \in Callers |-> NoSearch]
        /\ stat = [c \in Callers |-> Absent]
        /\ read = [c \in Callers |-> Absent]
        /\ answer = [c \in Callers |-> NoAnswer]
        /\ since = [c \in Callers |-> Absent]
        /\ used = [c \in Callers |-> Absent]
        /\ solo = "nobody"
        /\ overlapped = FALSE

Goto(c, step) == pc' = [pc EXCEPT ![c] = step]

-----------------------------------------------------------------------------
(* The lookup in a list of records.                                          *)

(* _validate_resolved_record: a vehicle is named by its row in the file.     *)
Validated(rows, i) == IF rows[i].ip = "valid" THEN Found(i) ELSE Error("vehicle_ip_not_found")

Matches(rows, field, key) == {i \in DOMAIN rows : Normal[rows[i][field]] = key}

(* Variant for mutation: a field with several matches is passed over.        *)
LookupAnyField(rows, fields, key) ==
    LET tryField[n \in 1 .. Len(fields) + 1] ==
            IF n > Len(fields) THEN Error("vehicle_ip_not_found")
            ELSE LET matches == Matches(rows, fields[n], key)
                 IN  IF Cardinality(matches) = 1
                     THEN Validated(rows, CHOOSE i \in matches : TRUE)
                     ELSE tryField[n + 1]
    IN  tryField[1]

(* resolve_query and _resolve_by_field: the first field in which any row     *)
(* matches decides.                                                          *)
Lookup(rows, fields, key) ==
    LET tryField[n \in 1 .. Len(fields) + 1] ==
            IF n > Len(fields) THEN Error("vehicle_ip_not_found")
            ELSE LET matches == Matches(rows, fields[n], key)
                 IN  CASE Cardinality(matches) = 1 ->
                              Validated(rows, CHOOSE i \in matches : TRUE)
                       [] Cardinality(matches) > 1 -> Error("vehicle_inventory_ambiguous")
                       [] OTHER -> tryField[n + 1]
    IN  tryField[1]

(* _record_from_row raises at the first row without an address or an         *)
(* identifier, and the whole file is refused.                                *)
BadRows(rows) == {i \in DOMAIN rows :
                     \/ rows[i].ip = "empty"
                     \/ \A n \in 1 .. Len(Fields) : Normal[rows[i][Fields[n]]] = Empty}
RowError(rows) ==
    LET first == CHOOSE i \in BadRows(rows) : \A k \in BadRows(rows) : i <= k
    IN  Error(IF rows[first].ip = "empty" THEN "vehicle_ip_not_found"
                                         ELSE "invalid_request")

-----------------------------------------------------------------------------
(* Calls.                                                                    *)

Answer(c, a) == /\ Goto(c, "idle")
                /\ answer' = [answer EXCEPT ![c] = a]
                /\ stat' = [stat EXCEPT ![c] = Absent]
                /\ read' = [read EXCEPT ![c] = Absent]

(* A call that looks for key in some fields; an empty key is refused at once.*)
Begin(c, fields, key) ==
    /\ pc[c] = "idle"
    /\ search' = [search EXCEPT ![c] = [fields |-> fields, key |-> key]]
    /\ since' = [since EXCEPT ![c] = newest]
    /\ used' = [used EXCEPT ![c] = Absent]
    /\ IF key = Empty
       THEN Answer(c, Error("vehicle_ip_not_found"))
       ELSE /\ Goto(c, "stat")
            /\ answer' = [answer EXCEPT ![c] = NoAnswer]
            /\ UNCHANGED <<stat, read>>
    /\ UNCHANGED <<disk, cache>>

(* GET /vehicles/resolve: resolve_query.                                     *)
ResolveQuery(c) == \E q \in Texts : c \in Readers /\ Begin(c, Fields, Normal[q])

(* POST /tasks without an address: resolve_vehicle looks in the first field  *)
(* of which an identifier is given, or for the number in all of them.        *)
ResolveVehicle(c) ==
    /\ c = TaskCaller
    /\ \/ \E n \in DOMAIN Fields, value \in Texts :
             Normal[value] # Empty /\ Begin(c, <<Fields[n]>>, Normal[value])
       \/ \E number \in Texts : Begin(c, Fields, Normal[number])

(* _load_records: path.stat().                                               *)
Stat(c) ==
    /\ pc[c] = "stat"
    /\ \/ file = Absent /\ Answer(c, Error("vehicle_ip_not_found"))
       \/ /\ file # Absent
          /\ Goto(c, "compare")
          /\ stat' = [stat EXCEPT ![c] = file]
          /\ UNCHANGED <<read, answer>>
    /\ UNCHANGED <<disk, cache, search, since, used>>

(* Variant for mutation: what has been loaded once is used for ever.         *)
CompareLoaded(c) ==
    /\ pc[c] = "compare"
    /\ Goto(c, IF loadedMtime # Absent THEN "use" ELSE "read")
    /\ UNCHANGED <<disk, records, loadedMtime, search, stat, read, answer, since, used, solo, overlapped>>

(* The cache answers when its time stamp is the one of the file.             *)
Compare(c) ==
    /\ pc[c] = "compare"
    /\ IF loadedMtime = stat[c]
       THEN Goto(c, "use") /\ UNCHANGED <<solo, overlapped>>
       ELSE LET met == \E d \in Callers \ {c} : pc[d] \in Reloading
            IN  /\ Goto(c, "read")
                /\ solo' = IF met THEN "nobody" ELSE c
                /\ overlapped' = (overlapped \/ met)
    /\ UNCHANGED <<disk, records, loadedMtime, search, stat, read, answer, since, used>>

(* The file is gone between stat and open, may not be read, or is no CSV or  *)
(* no UTF-8: an exception nobody catches.                                    *)
ReadFails(c) ==
    /\ pc[c] = "read"
    /\ Answer(c, Error("crash"))
    /\ UNCHANGED <<disk, cache, search, since, used>>

(* A file with a bad row is refused, and the cache left alone.               *)
RefuseFile(c) ==
    /\ pc[c] = "read"
    /\ file # Absent
    /\ BadRows(contents[file]) # {}
    /\ Answer(c, RowError(contents[file]))
    /\ UNCHANGED <<disk, cache, search, since, used>>

(* Variant for mutation: bad rows do not stop the file from being loaded.    *)
ReadFileLax(c) ==
    /\ pc[c] = "read"
    /\ file # Absent
    /\ Goto(c, "records")
    /\ read' = [read EXCEPT ![c] = file]
    /\ UNCHANGED <<disk, cache, search, stat, answer, since, used>>

(* The rows are read; the file may be a newer one than the one stat-ed.      *)
ReadFile(c) ==
    /\ pc[c] = "read"
    /\ file # Absent
    /\ BadRows(contents[file]) = {}
    /\ Goto(c, "records")
    /\ read' = [read EXCEPT ![c] = file]
    /\ UNCHANGED <<disk, cache, search, stat, answer, since, used>>

SetRecords(c) ==
    /\ pc[c] = "records"
    /\ Goto(c, "mtime")
    /\ records' = read[c]
    /\ UNCHANGED <<disk, loadedMtime, solo, overlapped, search, stat, read, answer, since, used>>

(* Variant for mutation: the file is stat-ed again when it has been read.    *)
SetMtimeLate(c) ==
    /\ pc[c] = "mtime"
    /\ Goto(c, "use")
    /\ loadedMtime' = file
    /\ overlapped' = (overlapped /\ solo # c)
    /\ UNCHANGED <<disk, records, solo, search, stat, read, answer, since, used>>

SetMtime(c) ==
    /\ pc[c] = "mtime"
    /\ Goto(c, "use")
    /\ loadedMtime' = stat[c]
    /\ overlapped' = (overlapped /\ solo # c)
    /\ UNCHANGED <<disk, records, solo, search, stat, read, answer, since, used>>

(* return self._records, and the lookup in them.                             *)
Use(c) ==
    /\ pc[c] = "use"
    /\ Answer(c, Lookup(contents[records], search[c].fields, search[c].key))
    /\ used' = [used EXCEPT ![c] = IF overlapped THEN Absent ELSE records]
    /\ UNCHANGED <<disk, cache, search, since>>

(* Somebody writes a new inventory or removes it.                            *)
WriteFile == /\ newest < MaxVersion
             /\ newest' = newest + 1
             /\ file' = newest'
             /\ UNCHANGED <<contents, cache, pc, search, stat, read, answer, since, used>>
RemoveFile == /\ file # Absent
              /\ file' = Absent
              /\ UNCHANGED <<contents, newest, cache, pc, search, stat, read, answer, since, used>>

Next == \/ \E c \in Callers : \/ ResolveQuery(c)
                              \/ ResolveVehicle(c)
                              \/ Stat(c)
                              \/ Compare(c)
                              \/ ReadFails(c)
                              \/ RefuseFile(c)
                              \/ ReadFile(c)
                              \/ SetRecords(c)
                              \/ SetMtime(c)
                              \/ Use(c)
        \/ WriteFile
        \/ RemoveFile

Spec == Init /\ [][Next]_vars

-----------------------------------------------------------------------------
(* Properties.                                                               *)

(* Every variable holds a value of its kind.                                 *)
TypeOK ==
    /\ contents \in [Versions -> Inventories]
    /\ file \in Versions \cup {Absent}
    /\ newest \in Versions
    /\ records \in Versions \cup {Absent} /\ loadedMtime \in Versions \cup {Absent}
    /\ pc \in [Callers -> Steps]
    /\ \A c \in Callers : search[c].key \in Texts
    /\ stat \in [Callers -> Versions \cup {Absent}]
    /\ read \in [Callers -> Versions \cup {Absent}]
    /\ \A c \in Callers : answer[c].row \in Nat /\ answer[c].error \in Errors
    /\ since \in [Callers -> Versions \cup {Absent}]
    /\ used \in [Callers -> Versions \cup {Absent}]
    /\ solo \in Callers \cup {"nobody"}
    /\ overlapped \in BOOLEAN

(* vehicle_inventory.py:101-102: the rows in the cache are never older than  *)
(* the time stamp kept with them, so that a file that changed while it was   *)
(* being read is read again - unless reloads of two threads met, which       *)
(* nothing prevents: then older rows can stay under a newer time stamp, and  *)
(* they do until a later reload has run by itself.                           *)
RowsNotOlder == overlapped \/ records >= loadedMtime

(* vehicle_inventory.py:87-103: under the same exception a call is answered  *)
(* from an inventory that is not older than the one on disk when it began,   *)
(* whatever other threads load and whoever replaces the file meanwhile.      *)
FreshAnswers ==
    \A c \in Callers : pc[c] = "idle" /\ used[c] # Absent => used[c] >= since[c]

(* vehicle_inventory.py:55-85: what a lookup may answer of an inventory.     *)
(* A row is given only if it alone has the identifier in some field in       *)
(* which it was sought, no row has it in an earlier field and its address is *)
(* good; "ambiguous" only if two rows share it in such a field; "not found"  *)
(* only if nobody has it or the one who does has no good address.            *)
Finds(rows, fields, key, n) ==
    /\ Matches(rows, fields[n], key) # {}
    /\ \A k \in 1 .. n - 1 : Matches(rows, fields[k], key) = {}

AnswerFits(rows, fields, key, a) ==
    CASE a.error = "none" ->
             \E n \in DOMAIN fields :
                 Finds(rows, fields, key, n) /\ Matches(rows, fields[n], key) = {a.row}
                 /\ rows[a.row].ip = "valid"
      [] a.error = "vehicle_inventory_ambiguous" ->
             \E n \in DOMAIN fields : \E i, j \in Matches(rows, fields[n], key) :
                 i # j /\ Finds(rows, fields, key, n)
      [] OTHER ->
             \A n \in DOMAIN fields :
                 Finds(rows, fields, key, n) =>
                     \E i \in DOMAIN rows : Matches(rows, fields[n], key) = {i}
                                            /\ rows[i].ip # "valid"

LookupRight ==
    \A c \in Callers :
        used[c] # Absent => AnswerFits(contents[used[c]], search[c].fields, search[c].key, answer[c])

(* vehicle_inventory.py:97-101, 114-120: rows of a file with a row that      *)
(* cannot be used are never looked up in, not even the good rows before it,  *)
(* and such a file takes nothing from the cache it would have replaced.      *)
OnlyGoodFilesServe ==
    /\ records # Absent => BadRows(contents[records]) = {}
    /\ loadedMtime # Absent => records # Absent
=============================================================================
