------------------------------- MODULE Store --------------------------------
(* storage/leveldb.go: a map in memory and a file for each key.  All calls     *)
(* hold the mutex, so they do not interleave; they are cut where the file      *)
(* system can fail or the process can die.  A crash is that of the process:    *)
(* what WriteFile handed to the operating system is kept.                      *)
(*   The file of a key is filepath.Join(dataDir, key+".dat"), which cleans the *)
(* path: "a" and "./a" are two keys of the map and one file, and "../x" lies   *)
(* outside the data directory.  A start takes its keys from the names it finds *)
(* in the directory itself, so a key whose file lies elsewhere, or is listed   *)
(* there under another name, is not found again.                               *)
CONSTANTS
  Key, Value,
  Empty,     \* the empty key, which Put refuses and the file ".dat" stands for
  File,      \* the paths that keys lead to, inside the data directory or not
  filePath,  \* filePath[k]: the cleaned path of k
  Plain,     \* the keys that a start makes from the names in the directory
  Absent,  \* no entry in the map, no file
  Torn,    \* a file that was truncated and not, or not wholly, written
  NoCall

ASSUME StoreAssumption ==
  /\ Absent \notin Value /\ Torn \notin Value /\ Absent # Torn
  /\ NoCall \notin Key \X (Value \cup {Absent, Torn})
  /\ filePath \in [Key -> File]
  /\ Plain \subseteq Key
  /\ \A k, j \in Plain : filePath[k] = filePath[j] => k = j

VARIABLES
  phase,    \* "open", "closed" (Close has returned nil) or "down"
  cache,    \* db.cache
  disk,     \* the files
  pc, job,  \* the call that holds the mutex: its next step, its key and value
  left,     \* the keys that Close has still to flush
  doubtful  \* history: keys whose file was last used by a call that was not
            \* acknowledged, or by one on another key, or could not be read

vars == <<phase, cache, disk, pc, job, left, doubtful>>

Content == Value \cup {Absent, Torn}
Nothing == [k \in Key |-> Absent]

Get(k) == cache[k]
Has(k) == Get(k) # Absent
Keys == {k \in Key : Has(k)}

(* The keys that share the file of k, itself among them.                       *)
Kin(k) == {j \in Key : filePath[j] = filePath[k]}

\* Mutant: a start does not load what is there.
loadNothing(unreadable) == Nothing

(* What ReadDir lists, without the files that ReadFile cannot read.            *)
loadFromDisk(unreadable) ==
  [k \in Key |-> IF k \in Plain \ unreadable THEN disk[filePath[k]] ELSE Absent]

Init ==
  /\ phase = "open"
  /\ disk \in [File -> Value \cup {Absent}]
  /\ cache = loadFromDisk({})
  /\ pc = "idle" /\ job = NoCall /\ left = {} /\ doubtful = {}

Running == phase # "down"

Starts(step, k, v) ==
  /\ pc' = step
  /\ job' = <<k, v>>
  /\ doubtful' = doubtful \cup Kin(k)

Returns == pc' = "idle" /\ job' = NoCall /\ left' = {}

Put(k, v) ==
  /\ Running /\ pc = "idle" /\ k # Empty
  /\ cache' = [cache EXCEPT ![k] = v]
  /\ Starts("create", k, v)
  /\ UNCHANGED <<phase, disk, left>>

Delete(k) ==
  /\ Running /\ pc = "idle" /\ Has(k)
  /\ cache' = [cache EXCEPT ![k] = Absent]
  /\ Starts("remove", k, Absent)
  /\ UNCHANGED <<phase, disk, left>>

(* The file of the call under way.                                             *)
JobFile == filePath[job[1]]

(* saveToDisk: WriteFile creates or truncates the file ...                     *)
saveToDisk ==
  /\ pc = "create"
  /\ disk' = [disk EXCEPT ![JobFile] = Torn]
  /\ pc' = "write"
  /\ UNCHANGED <<phase, cache, job, left, doubtful>>

(* ... and writes the value.  Put returns; Close takes the next key.           *)
Written ==
  /\ pc = "write"
  /\ disk' = [disk EXCEPT ![JobFile] = job[2]]
  /\ doubtful' = doubtful \ {job[1]}
  /\ job' = NoCall
  /\ pc' = IF left = {} THEN "idle" ELSE "flush"
  /\ left' = left \ {job[1]}
  /\ UNCHANGED <<phase, cache>>

\* Mutant: the file stays.
RemovedFromCacheOnly ==
  /\ pc = "remove" /\ disk[JobFile] # Absent
  /\ doubtful' = doubtful \ {job[1]}
  /\ Returns
  /\ UNCHANGED <<phase, cache, disk>>

Removed ==
  /\ pc = "remove" /\ disk[JobFile] # Absent
  /\ disk' = [disk EXCEPT ![JobFile] = Absent]
  /\ doubtful' = doubtful \ {job[1]}
  /\ Returns
  /\ UNCHANGED <<phase, cache>>

(* Opening, writing or removing the file fails, because of the disk or because *)
(* the key leads to a directory that does not exist: the call returns the      *)
(* error, and the cache keeps what the call did to it.                         *)
DiskFails ==
  /\ pc \in {"create", "write", "remove"}
  /\ Returns
  /\ UNCHANGED <<phase, cache, disk, doubtful>>

(* Close flushes the whole cache, key by key, and then drops it.               *)
Close ==
  /\ Running /\ pc = "idle"
  /\ pc' = "flush"
  /\ left' = Keys
  /\ UNCHANGED <<phase, cache, disk, job, doubtful>>

Flush(k) ==
  /\ pc = "flush" /\ k \in left
  /\ Starts("create", k, cache[k])
  /\ UNCHANGED <<phase, cache, disk, left>>

Closed ==
  /\ pc = "flush" /\ left = {}
  /\ cache' = Nothing
  /\ phase' = "closed"
  /\ Returns
  /\ UNCHANGED <<disk, doubtful>>

(* The process ends, with or without Close, and wherever it is.                *)
Crash ==
  /\ Running
  /\ phase' = "down"
  /\ cache' = Nothing
  /\ Returns
  /\ UNCHANGED <<disk, doubtful>>

NewLevelDB(unreadable) ==
  /\ phase = "down"
  /\ phase' = "open"
  /\ cache' = loadFromDisk(unreadable)
  /\ doubtful' = unreadable
  /\ UNCHANGED <<disk, pc, job, left>>

Next ==
  \/ \E k \in Key, v \in Value : Put(k, v)
  \/ \E k \in Key : Delete(k) \/ Flush(k)
  \/ saveToDisk \/ Written \/ Removed \/ DiskFails
  \/ Close \/ Closed \/ Crash
  \/ \E u \in SUBSET {k \in Plain : disk[filePath[k]] # Absent} : NewLevelDB(u)

Spec == Init /\ [][Next]_vars
-----------------------------------------------------------------------------
TypeOK ==
  /\ phase \in {"open", "closed", "down"}
  /\ cache \in [Key -> Content] /\ disk \in [File -> Content]
  /\ pc \in {"idle", "create", "write", "remove", "flush"}
  /\ job \in (Key \X Content) \cup {NoCall}
  /\ left \subseteq Key /\ doubtful \subseteq Key

Working == pc \in {"create", "write", "remove"}

(* The call under way works for what the cache shows, and every key of its     *)
(* file is doubtful; a key that is still to be flushed is in the cache.        *)
CallOK ==
  /\ Working <=> job # NoCall
  /\ Working => Kin(job[1]) \subseteq doubtful /\ cache[job[1]] = job[2]
  /\ pc = "remove" <=> (Working /\ job[2] = Absent)
  /\ left \subseteq Keys
  /\ left # {} => pc # "idle" /\ (Working => job[1] \in left)
  /\ phase = "down" => pc = "idle"

(* Cache and file agree on every plain key whose file was last used by a call  *)
(* on it that was acknowledged, over failing writes, half-flushed Closes,      *)
(* crashes and restarts; a store that was closed and is used again (Close      *)
(* leaves the object usable) knows only what was put since.                    *)
SettledOnDisk ==
  \A k \in Plain \ doubtful :
    CASE phase = "open" -> cache[k] = disk[filePath[k]]
      [] phase = "closed" -> cache[k] \in {disk[filePath[k]], Absent}
      [] OTHER -> TRUE

StoreOK == TypeOK /\ CallOK /\ SettledOnDisk

(* While the store is open its content is what Get finds; otherwise it is what *)
(* the next start will find.                                                   *)
KV == INSTANCE KeyValue WITH
        kin <- [k \in Key |-> Kin(k)],
        map <- IF phase = "open" THEN [k \in Key |-> Get(k)] ELSE loadFromDisk({}),
        doubt <- doubtful,
        call <- job

(* The store keeps the promise of KeyValue: an acknowledged Put or Delete of a *)
(* plain key is found again, by Get and by every later start.  What else can   *)
(* change is named there: a key whose call failed, was cut off or could not be *)
(* read, one whose file a call on another key has used, and at a restart every *)
(* key that is not plain.                                                      *)
ImplementsMap == KV!Spec
=============================================================================
