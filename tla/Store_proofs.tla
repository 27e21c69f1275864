---------------------------- MODULE Store_proofs ----------------------------
(* StoreOK is inductive, and with it every step of Store is a step of          *)
(* KeyValue, or none, for any keys and values.                                 *)
EXTENDS Store, TLAPS

Keyed == Key \X Content

LEMMA Initially == Init => StoreOK
<1> SUFFICES ASSUME Init PROVE StoreOK
  OBVIOUS
<1>1. TypeOK
  BY StoreAssumption DEF Init, TypeOK, loadFromDisk, Content
<1>2. CallOK
  BY DEF Init, CallOK, Working
<1>3. SettledOnDisk
  BY StoreAssumption DEF Init, SettledOnDisk, loadFromDisk
<1> QED
  BY <1>1, <1>2, <1>3 DEF StoreOK

(* What the invariant says of a call under way.                                *)
LEMMA UnderWay ==
  ASSUME StoreOK, Working
  PROVE  /\ job \in Keyed /\ job[1] \in Key /\ job[2] \in Content
         /\ Kin(job[1]) \subseteq doubtful
         /\ cache[job[1]] = job[2]
         /\ pc = "remove" <=> job[2] = Absent
         /\ phase # "down"
BY StoreAssumption DEF StoreOK, TypeOK, CallOK, Working, Keyed, Content

LEMMA KinIn == ASSUME NEW k \in Key PROVE Kin(k) \subseteq Key /\ k \in Kin(k)
BY DEF Kin

LEMMA AtRest ==
  ASSUME StoreOK, pc = "idle"
  PROVE  job = NoCall /\ left = {}
BY DEF StoreOK, TypeOK, CallOK, Working

(* A settled key does not share the file of the call under way.                *)
LEMMA OtherFile ==
  ASSUME StoreOK, Working, NEW k \in Key \ doubtful
  PROVE  filePath[k] \in File /\ filePath[k] # JobFile
<1>1. Kin(job[1]) \subseteq doubtful
  BY UnderWay
<1> QED
  BY <1>1, StoreAssumption DEF Kin, JobFile

(* A key and a value are never taken for "no call".                            *)
LEMMA IsACall ==
  ASSUME NEW k \in Key, NEW v \in Content
  PROVE  <<k, v>> # NoCall /\ <<k, v>> \in Keyed
BY StoreAssumption DEF Keyed, Content
-----------------------------------------------------------------------------
LEMMA PutKeeps ==
  ASSUME StoreOK, NEW k \in Key, NEW v \in Value, Put(k, v)
  PROVE  StoreOK'
<1>1. v # Absent /\ v \in Content
  BY StoreAssumption DEF Content
<1>2. left = {} /\ <<k, v>> # NoCall /\ <<k, v>> \in Keyed
  BY <1>1, AtRest, IsACall DEF Put
<1>3. TypeOK'
  BY <1>1, <1>2, KinIn DEF StoreOK, TypeOK, Put, Starts, Keyed
<1>4. CallOK'
  BY <1>1, <1>2 DEF StoreOK, TypeOK, CallOK, Put, Starts, Running, Working
<1>5. SettledOnDisk'
  BY KinIn DEF StoreOK, TypeOK, SettledOnDisk, Put, Starts
<1> QED
  BY <1>3, <1>4, <1>5 DEF StoreOK

LEMMA DeleteKeeps ==
  ASSUME StoreOK, NEW k \in Key, Delete(k)
  PROVE  StoreOK'
<1>1. left = {} /\ <<k, Absent>> # NoCall /\ <<k, Absent>> \in Keyed
  BY AtRest, IsACall DEF Delete, Content
<1>2. TypeOK'
  BY <1>1, KinIn DEF StoreOK, TypeOK, Delete, Starts, Keyed, Content
<1>3. CallOK'
  BY <1>1 DEF StoreOK, TypeOK, CallOK, Delete, Starts, Running, Working
<1>4. SettledOnDisk'
  BY KinIn DEF StoreOK, TypeOK, SettledOnDisk, Delete, Starts
<1> QED
  BY <1>2, <1>3, <1>4 DEF StoreOK

LEMMA FlushKeeps ==
  ASSUME StoreOK, NEW k \in Key, Flush(k)
  PROVE  StoreOK'
<1>1. cache[k] \in Content /\ cache[k] # Absent
  BY DEF StoreOK, TypeOK, CallOK, Flush, Keys, Has, Get
<1>2. <<k, cache[k]>> # NoCall /\ <<k, cache[k]>> \in Keyed
  BY <1>1, IsACall
<1>3. TypeOK'
  BY <1>2, KinIn DEF StoreOK, TypeOK, Flush, Starts, Keyed
<1>4. CallOK'
  BY <1>1, <1>2 DEF StoreOK, TypeOK, CallOK, Flush, Starts, Working, Keys, Has, Get
<1>5. SettledOnDisk'
  BY KinIn DEF StoreOK, SettledOnDisk, Flush, Starts
<1> QED
  BY <1>3, <1>4, <1>5 DEF StoreOK

(* The steps on the disk of a call under way.                                  *)
LEMMA saveToDiskKeeps ==
  ASSUME StoreOK, saveToDisk
  PROVE  StoreOK'
<1>1. Working
  BY DEF saveToDisk, Working
<1>2. TypeOK'
  BY DEF StoreOK, TypeOK, saveToDisk, Content
<1>3. CallOK'
  BY DEF StoreOK, CallOK, saveToDisk, Working, Keys, Has, Get
<1>4. ASSUME NEW k \in Plain \ doubtful PROVE disk'[filePath[k]] = disk[filePath[k]]
  <2>1. filePath[k] \in File /\ filePath[k] # JobFile
    BY <1>1, OtherFile, StoreAssumption
  <2> QED
    BY <2>1 DEF StoreOK, TypeOK, saveToDisk
<1>5. SettledOnDisk'
  BY <1>4 DEF StoreOK, SettledOnDisk, saveToDisk
<1> QED
  BY <1>2, <1>3, <1>5 DEF StoreOK

LEMMA WrittenKeeps ==
  ASSUME StoreOK, Written
  PROVE  StoreOK'
<1>1. /\ Working /\ job[1] \in Key /\ job[2] \in Content
      /\ cache[job[1]] = job[2] /\ phase # "down"
  BY UnderWay DEF Written, Working
<1>2. TypeOK'
  BY <1>1 DEF StoreOK, TypeOK, Written
<1>3. CallOK'
  BY <1>1 DEF StoreOK, TypeOK, CallOK, Written, Working, Keys, Has, Get
<1>4. ASSUME NEW k \in Plain \ doubtful PROVE disk'[filePath[k]] = disk[filePath[k]]
  <2>1. filePath[k] \in File /\ filePath[k] # JobFile
    BY <1>1, OtherFile, StoreAssumption
  <2> QED
    BY <2>1 DEF StoreOK, TypeOK, Written
<1>5. cache[job[1]] = disk'[JobFile]
  BY <1>1, StoreAssumption DEF StoreOK, TypeOK, Written, JobFile
<1>6. SettledOnDisk'
  BY <1>1, <1>4, <1>5 DEF StoreOK, SettledOnDisk, Written, JobFile
<1> QED
  BY <1>2, <1>3, <1>6 DEF StoreOK

LEMMA RemovedKeeps ==
  ASSUME StoreOK, Removed
  PROVE  StoreOK'
<1>1. /\ Working /\ job[1] \in Key
      /\ cache[job[1]] = Absent
  BY UnderWay DEF Removed, Working
<1>2. TypeOK'
  BY <1>1 DEF StoreOK, TypeOK, Removed, Returns, Content
<1>3. CallOK'
  BY DEF CallOK, Removed, Returns, Working
<1>4. ASSUME NEW k \in Plain \ doubtful PROVE disk'[filePath[k]] = disk[filePath[k]]
  <2>1. filePath[k] \in File /\ filePath[k] # JobFile
    BY <1>1, OtherFile, StoreAssumption
  <2> QED
    BY <2>1 DEF StoreOK, TypeOK, Removed
<1>5. cache[job[1]] = disk'[JobFile]
  BY <1>1, StoreAssumption DEF StoreOK, TypeOK, Removed, JobFile
<1>6. SettledOnDisk'
  BY <1>1, <1>4, <1>5 DEF StoreOK, SettledOnDisk, Removed, JobFile
<1> QED
  BY <1>2, <1>3, <1>6 DEF StoreOK

LEMMA ReturnsKeep ==
  ASSUME StoreOK, DiskFails \/ Closed \/ Crash
  PROVE  StoreOK'
<1>1. TypeOK'
  BY DEF StoreOK, TypeOK, DiskFails, Closed, Crash, Returns, Nothing, Content
<1>2. CallOK'
  BY DEF CallOK, DiskFails, Closed, Crash, Returns, Working
<1>3. SettledOnDisk'
  BY StoreAssumption DEF StoreOK, TypeOK, SettledOnDisk, DiskFails, Closed, Crash, Nothing
<1> QED
  BY <1>1, <1>2, <1>3 DEF StoreOK

LEMMA CloseKeeps ==
  ASSUME StoreOK, Close
  PROVE  StoreOK'
<1>1. job = NoCall
  BY AtRest DEF Close
<1> QED
  BY <1>1 DEF StoreOK, TypeOK, CallOK, SettledOnDisk, Close, Running, Working, Keys, Has, Get

LEMMA NewLevelDBKeeps ==
  ASSUME StoreOK, NEW u \in SUBSET Key, NewLevelDB(u)
  PROVE  StoreOK'
<1>1. pc = "idle" /\ job = NoCall /\ left = {}
  BY AtRest DEF StoreOK, CallOK, NewLevelDB
<1>2. TypeOK'
  BY StoreAssumption DEF StoreOK, TypeOK, NewLevelDB, loadFromDisk, Content
<1>3. CallOK'
  BY <1>1 DEF CallOK, NewLevelDB, Working
<1>4. SettledOnDisk'
  BY StoreAssumption DEF StoreOK, TypeOK, SettledOnDisk, NewLevelDB, loadFromDisk
<1> QED
  BY <1>2, <1>3, <1>4 DEF StoreOK

LEMMA Inductive == StoreOK /\ [Next]_vars => StoreOK'
<1> SUFFICES ASSUME StoreOK, [Next]_vars PROVE StoreOK'
  OBVIOUS
<1>1. CASE UNCHANGED vars
  BY <1>1 DEF vars, StoreOK, TypeOK, CallOK, SettledOnDisk, Working, Keys, Has, Get
<1>2. ASSUME NEW k \in Key, NEW v \in Value, Put(k, v) PROVE StoreOK'
  BY <1>2, PutKeeps
<1>3. ASSUME NEW k \in Key, Delete(k) PROVE StoreOK'
  BY <1>3, DeleteKeeps
<1>4. ASSUME NEW k \in Key, Flush(k) PROVE StoreOK'
  BY <1>4, FlushKeeps
<1>5. ASSUME NEW u \in SUBSET Key, NewLevelDB(u) PROVE StoreOK'
  BY <1>5, NewLevelDBKeeps
<1>6. CASE saveToDisk
  BY <1>6, saveToDiskKeeps
<1>7. CASE Written
  BY <1>7, WrittenKeeps
<1>8. CASE Removed
  BY <1>8, RemovedKeeps
<1>9. CASE DiskFails \/ Closed \/ Crash
  BY <1>9, ReturnsKeep
<1>10. CASE Close
  BY <1>10, CloseKeeps
<1>11. CASE \E u \in SUBSET {k \in Plain : disk[filePath[k]] # Absent} : NewLevelDB(u)
  <2>1. PICK u \in SUBSET {k \in Plain : disk[filePath[k]] # Absent} : NewLevelDB(u)
    BY <1>11
  <2>2. u \in SUBSET Key
    BY StoreAssumption
  <2> QED
    BY <1>5, <2>1, <2>2
<1> QED
  BY <1>1, <1>2, <1>3, <1>4, <1>6, <1>7, <1>8, <1>9, <1>10, <1>11 DEF Next

(* Cache and file agree on every plain key whose file was last used by an      *)
(* acknowledged call on it, and a call works for what the cache shows, in      *)
(* every reachable state, for any keys, values and paths, shared or not.       *)
THEOREM Consistent == Spec => []StoreOK
<1>1. Init => StoreOK
  BY Initially
<1>2. StoreOK /\ [Next]_vars => StoreOK'
  BY Inductive
<1> QED
  BY <1>1, <1>2, PTL DEF Spec
-----------------------------------------------------------------------------
(* What the store holds, as KeyValue sees it.                                  *)
Held == IF phase = "open" THEN [k \in Key |-> Get(k)] ELSE loadFromDisk({})

LEMMA SavedIs ==
  ASSUME StoreOK
  PROVE  /\ loadFromDisk({}) \in [Key -> Content]
         /\ \A k \in Plain : loadFromDisk({})[k] = disk[filePath[k]]
         /\ \A k \in Key \ Plain : loadFromDisk({})[k] = Absent
BY StoreAssumption DEF loadFromDisk, StoreOK, TypeOK, Content

LEMMA HeldIs ==
  ASSUME StoreOK
  PROVE  /\ Held = IF phase = "open" THEN cache ELSE loadFromDisk({})
         /\ Held \in [Key -> Content]
BY SavedIs DEF Held, Get, StoreOK, TypeOK

LEMMA HeldNext ==
  ASSUME StoreOK'
  PROVE  /\ Held' = IF phase' = "open" THEN cache' ELSE loadFromDisk({})'
         /\ Held' \in [Key -> Content]
         /\ \A k \in Plain : loadFromDisk({})'[k] = disk'[filePath[k]]
         /\ \A k \in Key \ Plain : loadFromDisk({})'[k] = Absent
<1>1. /\ loadFromDisk({})' \in [Key -> Content]
      /\ \A k \in Plain : loadFromDisk({})'[k] = disk'[filePath[k]]
      /\ \A k \in Key \ Plain : loadFromDisk({})'[k] = Absent
  BY StoreAssumption DEF loadFromDisk, StoreOK, TypeOK, Content
<1>2. cache' \in [Key -> Content]
  BY DEF StoreOK, TypeOK
<1>3. Held' = IF phase' = "open" THEN cache' ELSE loadFromDisk({})'
  BY <1>2 DEF Held, Get
<1> QED
  BY <1>1, <1>2, <1>3

LEMMA ContentIsContent == KV!Content = Content
BY DEF KV!Content, Content

LEMMA InitRefines == Init => KV!Init
<1> SUFFICES ASSUME Init PROVE KV!Init
  OBVIOUS
<1>1. Held = loadFromDisk({})
  BY DEF Init, Held, Get, loadFromDisk
<1>2. loadFromDisk({}) \in [Key -> Value \cup {Absent}]
  BY StoreAssumption DEF Init, loadFromDisk
<1> QED
  BY <1>1, <1>2 DEF Init, KV!Init, Held

(* A call begins: it is KeyValue's Begin, and only while the store is open     *)
(* does what it holds change with the cache.                                   *)
LEMMA BeginRefines ==
  ASSUME StoreOK, StoreOK', NEW k \in Key, NEW v \in Content,
         job = NoCall, job' = <<k, v>>, doubtful' = doubtful \cup Kin(k),
         phase' = phase, disk' = disk,
         cache' \in {cache, [cache EXCEPT ![k] = v]}
  PROVE  KV!Next
<1>1. loadFromDisk({})' = loadFromDisk({})
  BY DEF loadFromDisk
<1>2. Held' \in {Held, [Held EXCEPT ![k] = v]}
  BY <1>1, HeldIs, HeldNext
<1>3. \A j \in Key : Held'[j] # Held[j] => j \in {k} /\ Held'[j] \in {v}
  BY <1>2, HeldIs
<1>4. KV!Changes({k}, {v})
  BY <1>3, HeldNext, ContentIsContent DEF KV!Changes, Held
<1>5. KV!Begin(k, v)
  BY <1>4 DEF KV!Begin
<1> QED
  BY <1>5, ContentIsContent DEF KV!Next

LEMMA PutRefines ==
  ASSUME StoreOK, StoreOK', NEW k \in Key, NEW v \in Value, Put(k, v)
  PROVE  KV!Next
BY AtRest, BeginRefines DEF Put, Starts, Content

LEMMA DeleteRefines ==
  ASSUME StoreOK, StoreOK', NEW k \in Key, Delete(k)
  PROVE  KV!Next
BY AtRest, BeginRefines DEF Delete, Starts, Content

LEMMA FlushRefines ==
  ASSUME StoreOK, StoreOK', NEW k \in Key, Flush(k)
  PROVE  KV!Next
<1>1. job = NoCall
  BY DEF StoreOK, CallOK, Flush, Working
<1>2. cache[k] \in Content
  BY DEF StoreOK, TypeOK
<1> QED
  BY <1>1, <1>2, BeginRefines DEF Flush, Starts

(* The file is truncated, or the call fails: KeyValue's Tear, which an open    *)
(* store, whose cache stays, takes without a change.                           *)
LEMMA TearRefines ==
  ASSUME StoreOK, StoreOK', saveToDisk \/ DiskFails
  PROVE  KV!Next
<1> DEFINE k == job[1]
           v == job[2]
<1>1. Working
  BY DEF saveToDisk, DiskFails, Working
<1>2. k \in Key /\ v \in Content /\ job = <<k, v>>
  BY <1>1, UnderWay DEF Keyed
<1>3. /\ job' \in {job, NoCall} /\ doubtful' = doubtful
      /\ phase' = phase /\ cache' = cache
      /\ disk' \in {disk, [disk EXCEPT ![JobFile] = Torn]}
  BY DEF saveToDisk, DiskFails, Returns
<1>4. ASSUME NEW j \in Key, Held'[j] # Held[j]
      PROVE  j \in Kin(k) /\ Held'[j] \in {v, Torn}
  <2>1. phase # "open" /\ Held = loadFromDisk({}) /\ Held' = loadFromDisk({})'
    BY <1>3, <1>4, HeldIs, HeldNext
  <2>2. j \in Plain /\ disk'[filePath[j]] # disk[filePath[j]] /\ Held'[j] = disk'[filePath[j]]
    BY <1>4, <2>1, SavedIs, HeldNext
  <2>3. filePath[j] \in File /\ disk \in [File -> Content]
    BY StoreAssumption DEF StoreOK, TypeOK
  <2>4. filePath[j] = JobFile /\ disk'[filePath[j]] = Torn
    BY <1>3, <2>2, <2>3
  <2> QED
    BY <2>2, <2>4 DEF Kin, JobFile
<1>5. KV!Changes(Kin(k), {v, Torn})
  BY <1>4, HeldNext, ContentIsContent DEF KV!Changes, Held
<1>6. KV!Tear(k, v)
  BY <1>2, <1>3, <1>5 DEF KV!Tear
<1> QED
  BY <1>2, <1>6, ContentIsContent DEF KV!Next

(* The disk has done it: KeyValue's Acknowledge.  The cache showed it already. *)
LEMMA AcknowledgeRefines ==
  ASSUME StoreOK, StoreOK', Written \/ Removed
  PROVE  KV!Next
<1> DEFINE k == job[1]
           v == job[2]
<1>1. Working
  BY DEF Written, Removed, Working
<1>2. /\ k \in Key /\ v \in Content /\ job = <<k, v>>
      /\ cache[k] = v
      /\ pc = "remove" => v = Absent
  BY <1>1, UnderWay DEF Keyed
<1>3. /\ job' = NoCall /\ doubtful' = doubtful \ {k}
      /\ phase' = phase /\ cache' = cache
      /\ disk' = [disk EXCEPT ![JobFile] = v]
  BY <1>2 DEF Written, Removed, Returns
<1>4. filePath \in [Key -> File] /\ disk \in [File -> Content]
  BY StoreAssumption DEF StoreOK, TypeOK
<1>5. ASSUME NEW j \in Key, Held'[j] # Held[j]
      PROVE  j \in Kin(k) /\ Held'[j] \in {v}
  <2>1. phase # "open" /\ Held = loadFromDisk({}) /\ Held' = loadFromDisk({})'
    BY <1>3, <1>5, HeldIs, HeldNext
  <2>2. j \in Plain /\ disk'[filePath[j]] # disk[filePath[j]] /\ Held'[j] = disk'[filePath[j]]
    BY <1>5, <2>1, SavedIs, HeldNext
  <2>3. filePath[j] = JobFile /\ disk'[filePath[j]] = v
    BY <1>3, <1>4, <2>2
  <2> QED
    BY <2>2, <2>3 DEF Kin, JobFile
<1>6. KV!Changes(Kin(k), {v})
  BY <1>5, HeldNext, ContentIsContent DEF KV!Changes, Held
<1>7. Held'[k] \in (IF k \in Plain THEN {v} ELSE {v, Absent})
  <2>1. CASE phase = "open"
    BY <1>2, <1>3, <2>1, HeldNext
  <2>2. CASE phase # "open"
    <3>1. Held' = loadFromDisk({})'
      BY <1>3, <2>2, HeldNext
    <3>2. disk'[filePath[k]] = v
      BY <1>2, <1>3, <1>4 DEF JobFile
    <3> QED
      BY <1>2, <3>1, <3>2, HeldNext
  <2> QED
    BY <2>1, <2>2
<1>8. KV!Acknowledge(k, v)
  BY <1>2, <1>3, <1>6, <1>7 DEF KV!Acknowledge, Held
<1> QED
  BY <1>2, <1>8, ContentIsContent DEF KV!Next

(* The store is closed, dies or is opened: KeyValue's Restart, because cache   *)
(* and files agree on the settled keys.                                        *)
LEMMA RestartRefines ==
  ASSUME StoreOK, StoreOK', NEW u \in SUBSET Key,
         Closed \/ Crash \/ NewLevelDB(u)
  PROVE  KV!Next
<1>1. job' = NoCall
  BY AtRest DEF StoreOK, CallOK, Closed, Crash, NewLevelDB, Returns
<1>2. doubtful' \subseteq Key
  BY DEF StoreOK, TypeOK
<1>3. Held' \in [Key -> Content]
  BY HeldNext DEF StoreOK, TypeOK
<1>4. ASSUME NEW k \in Plain \ (doubtful \cup doubtful')
      PROVE  Held'[k] = Held[k]
  <2> k \in Key /\ loadFromDisk({})[k] = disk[filePath[k]]
    BY SavedIs, StoreAssumption
  <2>1. CASE Closed \/ Crash
    <3>1. Held'[k] = disk[filePath[k]]
      BY <2>1, HeldNext DEF Closed, Crash
    <3>2. Held[k] = disk[filePath[k]]
      BY HeldIs DEF StoreOK, SettledOnDisk
    <3> QED
      BY <3>1, <3>2
  <2>2. CASE NewLevelDB(u)
    <3>1. Held[k] = disk[filePath[k]]
      BY <2>2, HeldIs DEF NewLevelDB
    <3>2. Held' = loadFromDisk(u) /\ k \notin u
      BY <2>2, HeldNext DEF NewLevelDB
    <3> QED
      BY <3>1, <3>2 DEF loadFromDisk
  <2> QED
    BY <2>1, <2>2
<1>5. KV!Restart
  BY <1>1, <1>2, <1>3, <1>4, ContentIsContent DEF KV!Restart, Held
<1> QED
  BY <1>5 DEF KV!Next

(* Close only looks up what it has to flush.                                   *)
LEMMA StutterRefines ==
  ASSUME Close \/ UNCHANGED vars
  PROVE  UNCHANGED KV!vars
BY DEF Close, vars, KV!vars, Get, loadFromDisk

LEMMA StepRefines == StoreOK /\ StoreOK' /\ [Next]_vars => [KV!Next]_(KV!vars)
<1> SUFFICES ASSUME StoreOK, StoreOK', [Next]_vars
             PROVE  KV!Next \/ UNCHANGED KV!vars
  OBVIOUS
<1>1. CASE Close \/ UNCHANGED vars
  BY <1>1, StutterRefines
<1>2. ASSUME NEW k \in Key, NEW v \in Value, Put(k, v) PROVE KV!Next
  BY <1>2, PutRefines
<1>3. ASSUME NEW k \in Key, Delete(k) PROVE KV!Next
  BY <1>3, DeleteRefines
<1>4. ASSUME NEW k \in Key, Flush(k) PROVE KV!Next
  BY <1>4, FlushRefines
<1>5. CASE saveToDisk \/ DiskFails
  BY <1>5, TearRefines
<1>6. CASE Written \/ Removed
  BY <1>6, AcknowledgeRefines
<1>7. ASSUME NEW u \in SUBSET Key, NewLevelDB(u) PROVE KV!Next
  BY <1>7, RestartRefines
<1>8. CASE Closed \/ Crash
  BY <1>8, RestartRefines, {} \in SUBSET Key
<1>9. CASE \E u \in SUBSET {k \in Plain : disk[filePath[k]] # Absent} : NewLevelDB(u)
  <2>1. PICK u \in SUBSET {k \in Plain : disk[filePath[k]] # Absent} : NewLevelDB(u)
    BY <1>9
  <2>2. u \in SUBSET Key
    BY StoreAssumption
  <2> QED
    BY <1>7, <2>1, <2>2
<1> QED
  BY <1>1, <1>2, <1>3, <1>4, <1>5, <1>6, <1>8, <1>9 DEF Next

(* The store keeps the promise of KeyValue, for any keys, values and paths: an *)
(* acknowledged call on a plain key has taken effect for good; only keys in    *)
(* doubt, those whose file another call has used among them, and at a restart  *)
(* the keys that are not plain can change otherwise, over failing disks,       *)
(* crashes and restarts.                                                       *)
THEOREM Implementation == Spec => ImplementsMap
<1>1. Init => KV!Init
  BY InitRefines
<1>2. StoreOK /\ StoreOK' /\ [Next]_vars => [KV!Next]_(KV!vars)
  BY StepRefines
<1> QED
  BY <1>1, <1>2, Consistent, PTL DEF Spec, ImplementsMap, KV!Spec
=============================================================================
