------------------------------- MODULE Fat16 -------------------------------
(***************************************************************************)
(* The FAT16 driver, src/fs/fat16.c, from the cluster chains up to the     *)
(* calls on files and directories, at the level of its sector writes: a    *)
(* call is a sequence of steps with one disk write each, so that every     *)
(* state is one in which the machine may lose power.                       *)
(*                                                                         *)
(* A cluster is one sector of ClusterBytes bytes.  A directory is a table  *)
(* from names to entries, kept in the root area (cluster 0) or in the      *)
(* cluster of a subdirectory; the slots that hold an entry are modelled in *)
(* FatDir, the paths that lead to a directory in FatPath.                  *)
(***************************************************************************)
EXTENDS Integers, Sequences, FiniteSets

CONSTANTS
  NumClusters,     \* total_clusters
  ClusterBytes,    \* cluster_bytes
  Names,           \* file and directory names
  RootEntries,     \* entries the root directory has room for
  DirEntries,      \* entries a subdirectory has room for
  Payloads,        \* what callers write
  MaxSize          \* bound: the size up to which callers write

FREE == 0
EOF == 65535
Root == 0
Clusters == 2 .. NumClusters + 1
Dirs == {Root} \cup Clusters
Objects == Dirs \X Names

\* A byte that no file is entitled to: what was on the disk before, and what
\* a freed cluster still holds.
Junk == "junk"
NoEntry == [kind |-> "none", start |-> 0, size |-> 0]

\* The bytes that callers write.
Bytes == UNION {{b[i] : i \in DOMAIN b} : b \in Payloads}

\* Cluster numbers are below 0xFFF0, where fat16_free_chain stops: the volume
\* is of 10MB.
ASSUME Fat16Assumption ==
  /\ {NumClusters, ClusterBytes} \subseteq Nat \ {0}
  /\ NumClusters + 1 < 65520
  /\ {RootEntries, DirEntries, MaxSize} \subseteq Nat
  /\ IsFiniteSet(Names)
  /\ Payloads \subseteq Seq(Bytes)

VARIABLES
  fat, fat2,   \* the two copies of the FAT; only the first is read
  table,       \* the directories
  data,        \* the bytes of the data area
  pc,          \* the next step of the call in progress, or "idle"
  op,          \* its variables
  failed,      \* history: the disk reported an error
  trust,       \* history: what failed calls have left each object as
  lost         \* history: a call failed after it had allocated clusters

vars == <<fat, fat2, table, data, pc, op, failed, trust, lost>>
disk == <<fat, fat2, table, data>>
history == <<failed, trust, lost>>

\* call, obj, bytes, append: the call and its arguments; start, size: the
\* directory entry it read; first, curr, prev, new, written, safety: its
\* variables; ret: where it goes on after a FAT write; result: what the last
\* call returned, between calls; before: history, what the object was when the
\* call began.
NoOp ==
  [call |-> "none", obj |-> <<Root, "">>, bytes |-> <<>>, append |-> FALSE,
   start |-> 0, size |-> 0, first |-> 0, curr |-> 0, prev |-> 0, new |-> 0,
   written |-> 0, safety |-> 0, ret |-> "idle", result |-> "none",
   before |-> [kind |-> "none", bytes |-> <<>>]]

Init ==
  /\ fat = [c \in Clusters |-> FREE] /\ fat2 = fat
  /\ table = [d \in Dirs |-> [n \in Names |-> NoEntry]]
  /\ data = [c \in Clusters |-> [i \in 0 .. ClusterBytes - 1 |-> Junk]]
  /\ pc = "idle" /\ op = NoOp
  /\ failed = FALSE /\ trust = [k \in Objects |-> "whole"] /\ lost = FALSE

-----------------------------------------------------------------------------
(* Reading the disk *)

\* fat16_read_fat_entry
Follow(c) == IF c \in Clusters THEN fat[c] ELSE c

\* Where a walk along the FAT is after i steps.
Chain(start) ==
  LET walk[i \in 0 .. NumClusters] ==
        IF i = 0 THEN start ELSE Follow(walk[i - 1])
  IN  walk

ChainClusters(start) ==
  LET walk == Chain(start)
  IN  {walk[i] : i \in 0 .. NumClusters} \cap Clusters

Entry(k) == table[k[1]][k[2]]
Found(k) == Entry(k) # NoEntry
IsDir(k) == Entry(k).kind = "dir"

\* fat16_load_file: size bytes along the chain; a chain that ends too soon
\* leaves the rest of the buffer as kmalloc returned it.
Load(k) ==
  LET walk == Chain(Entry(k).start)
  IN  [i \in 1 .. Entry(k).size |->
     LET c == walk[(i - 1) \div ClusterBytes]
     IN  IF c \in Clusters THEN data[c][(i - 1) % ClusterBytes] ELSE Junk]

\* What the store of files holds for an object, between calls.
Stored(k) ==
  IF trust[k] = "torn" THEN [kind |-> "torn", bytes |-> <<>>]
  ELSE [kind |-> IF trust[k] = "frayed" THEN "frayed" ELSE Entry(k).kind,
        bytes |-> Load(k)]

Occupied(d) == Cardinality({n \in Names : table[d][n] # NoEntry})
DirFull(d) == Occupied(d) >= IF d = Root THEN RootEntries ELSE DirEntries

\* What fat16_resolve_path can lead to.
LiveDirs ==
  {Root} \cup {Entry(k).start : k \in {j \in Objects : IsDir(j)}}

-----------------------------------------------------------------------------
(* Steps on the FAT.  A FAT write goes to the first copy and then, as a    *)
(* whole sector, to the second; no caller looks at its result.             *)

fat16_write_fat_entry(o, c, value, ret) ==
  /\ fat' = [fat EXCEPT ![c] = value]
  /\ pc' = "mirror"
  /\ op' = [o EXCEPT !.ret = ret]
  /\ UNCHANGED fat2

mirror ==
  /\ pc = "mirror"
  /\ fat2' = fat
  /\ pc' = op.ret
  /\ UNCHANGED <<fat, table, data, op, history>>

\* The call returns; its object is as far to be trusted as t says, or torn if
\* the disk failed during the call.
Return(result, t) ==
  /\ pc' = "idle" /\ op' = [NoOp EXCEPT !.result = result]
  /\ trust' = [trust EXCEPT ![op.obj] = IF failed' THEN "torn" ELSE t]

\* The lowest free cluster, 0 if there is none.
FreeCluster ==
  LET free == {c \in Clusters : fat[c] = FREE}
  IN  IF free = {} THEN 0 ELSE CHOOSE c \in free : \A d \in free : c <= d

AfterAlloc == IF op.call = "mkdir" THEN "zero" ELSE "link"

fat16_alloc_cluster ==
  /\ pc = "alloc"
  /\ FreeCluster # 0
  /\ fat16_write_fat_entry([op EXCEPT !.new = FreeCluster], FreeCluster, EOF,
                           AfterAlloc)
  /\ UNCHANGED <<table, data, history>>

\* -ENOSPC.  The directory entry is not updated: it still has the old size
\* and the old start.  Of an overwrite that start has been freed; an append
\* may have left clusters behind the file's last one.
alloc_enospc ==
  /\ pc = "alloc"
  /\ FreeCluster = 0
  /\ UNCHANGED <<disk, failed>>
  /\ Return("error",
            CASE op.start # 0 /\ ~op.append -> "torn"
              [] op.start # 0 /\ op.append /\ op.new # 0 /\ trust[op.obj] = "whole"
                   -> "frayed"
              [] OTHER -> trust[op.obj])
  /\ lost' = (lost \/ op.start # op.first)

AfterFree ==
  CASE op.call = "delete" -> "tombstone"
    [] op.call = "write" /\ op.bytes = <<>> -> "commit"
    [] OTHER -> "alloc"

InChain == op.curr >= 2 /\ op.curr < 65520 /\ op.safety > 0

\* Nobody relies any more on what cluster c holds.
Stale(c) == data' = [data EXCEPT ![c] = [i \in DOMAIN @ |-> Junk]]

fat16_free_chain_lateRead ==
  /\ pc = "free"
  /\ InChain
  /\ fat16_write_fat_entry(
       [op EXCEPT !.curr = FREE, !.safety = @ - 1], op.curr, FREE, "free")
  /\ UNCHANGED <<table, data, history>>

fat16_free_chain_stuck ==
  /\ pc = "free"
  /\ InChain
  /\ fat16_write_fat_entry(op, op.curr, FREE, "free")
  /\ UNCHANGED <<table, data, history>>

fat16_free_chain ==
  /\ pc = "free"
  /\ InChain
  /\ fat16_write_fat_entry(
       [op EXCEPT !.curr = fat[op.curr], !.safety = @ - 1], op.curr, FREE, "free")
  /\ Stale(op.curr)
  /\ UNCHANGED <<table, history>>

free_chain_end ==
  /\ pc = "free"
  /\ ~InChain
  /\ pc' = AfterFree
  /\ op' = [op EXCEPT !.curr = 0, !.safety = 0]
  /\ UNCHANGED <<disk, history>>

-----------------------------------------------------------------------------
(* fat16_create_file, fat16_write_file *)

\* Bound: no call is made after one in which the disk failed.
Idle == pc = "idle" /\ ~failed

Calling(call, k) ==
  [NoOp EXCEPT !.call = call, !.obj = k, !.before = Stored(k)]

StartCreate(k) == op' = Calling("create", k) /\ pc' = "insert" /\ UNCHANGED disk

fat16_create_file(k) ==
  /\ Idle
  /\ ~Found(k)
  /\ StartCreate(k)
  /\ UNCHANGED history

OffsetZero(o) == 0

Offset(o) ==
  IF o.append /\ o.size > 0 /\ o.written = 0 THEN o.size % ClusterBytes ELSE 0

\* The head of the write loop.
LoopHead(o) ==
  CASE o.written = Len(o.bytes) -> "commit"
    [] o.written < Len(o.bytes) /\ (Offset(o) = 0 \/ o.curr < 2) -> "alloc"
    [] OTHER -> "data"

Writing(k, b, append) ==
  [Calling("write", k) EXCEPT !.bytes = b, !.append = append]

\* The call goes on with the entry e of its file.
OpenFile(o, e) ==
  /\ op' = [o EXCEPT !.start = e.start, !.size = e.size,
                     !.first = IF o.append THEN e.start ELSE 0,
                     !.curr = e.start,
                     !.safety = IF o.append THEN 0 ELSE NumClusters]
  /\ pc' = IF o.append THEN "walk" ELSE "free"

Fits(k, b, append) == (IF append THEN Entry(k).size ELSE 0) + Len(b) <= MaxSize

fat16_write_file(k, b, append) ==
  /\ Idle
  /\ Found(k) /\ ~IsDir(k)
  /\ Fits(k, b, append)
  /\ OpenFile(Writing(k, b, append), Entry(k))
  /\ UNCHANGED <<disk, history>>

\* The file is created first.
StartNewFile(k, b, append) ==
  op' = Writing(k, b, append) /\ pc' = "insert" /\ UNCHANGED disk

write_new_file(k, b, append) ==
  /\ Idle
  /\ ~Found(k)
  /\ Fits(k, b, append)
  /\ StartNewFile(k, b, append)
  /\ UNCHANGED history

\* One turn of the walk to the terminal cluster of an existing chain.  It has
\* no counter: a chain with a cycle would hold the call here for ever.
walk_chain ==
  /\ pc = "walk"
  /\ IF op.curr \in 2 .. 65527
     THEN LET next == Follow(op.curr)
              o == [op EXCEPT !.prev = op.curr,
                              !.curr = IF next >= 65528 THEN op.curr ELSE next]
          IN  op' = o /\ pc' = IF next >= 65528 THEN LoopHead(o) ELSE "walk"
     ELSE pc' = LoopHead(op) /\ UNCHANGED op
  /\ UNCHANGED <<disk, history>>

\* The new cluster is linked behind the previous one.
link_cluster ==
  /\ pc = "link"
  /\ LET o == [op EXCEPT !.first = IF @ = 0 THEN op.new ELSE @,
                         !.curr = op.new, !.prev = op.new]
     IN  IF op.prev >= 2
         THEN fat16_write_fat_entry(o, op.prev, op.new, "data")
         ELSE pc' = "data" /\ op' = o /\ UNCHANGED <<fat, fat2>>
  /\ UNCHANGED <<table, data, history>>

Chunk ==
  LET room == ClusterBytes - Offset(op)
      left == Len(op.bytes) - op.written
  IN  IF room < left THEN room ELSE left

write_data_atStart ==
  /\ pc = "data"
  /\ LET o == [op EXCEPT !.written = @ + Chunk]
     IN  /\ data' = [data EXCEPT ![op.curr] =
              [i \in DOMAIN @ |->
                 IF i < Chunk THEN op.bytes[op.written + i + 1] ELSE @[i]]]
         /\ op' = o
         /\ pc' = LoopHead(o)
  /\ UNCHANGED <<fat, fat2, table, history>>

\* The sector with the next chunk of the payload.
PutData ==
  LET off == Offset(op)
  IN  /\ data' = [data EXCEPT ![op.curr] =
           [i \in DOMAIN @ |->
              IF i \in off .. off + Chunk - 1
              THEN op.bytes[op.written + i - off + 1] ELSE @[i]]]
      /\ UNCHANGED <<fat, fat2, table>>

write_data ==
  /\ pc = "data"
  /\ PutData
  /\ LET o == [op EXCEPT !.written = @ + Chunk]
     IN  op' = o /\ pc' = LoopHead(o)
  /\ UNCHANGED history

\* The sector with the directory entry of the call's object.
PutEntry(e) ==
  /\ table' = [table EXCEPT ![op.obj[1]][op.obj[2]] = e]
  /\ UNCHANGED <<fat, fat2, data>>

WrittenEntry ==
  [kind |-> "file", start |-> op.first,
   size |-> Len(op.bytes) + IF op.append THEN op.size ELSE 0]

\* update_dir
commit ==
  /\ pc = "commit"
  /\ PutEntry(WrittenEntry)
  /\ UNCHANGED <<failed, lost>>
  /\ Return("ok",
            CASE ~op.append -> "whole"
              [] op.append /\ trust[op.obj] # "whole" /\ op.bytes # <<>> -> "torn"
              [] OTHER -> trust[op.obj])

-----------------------------------------------------------------------------
(* fat16_delete_file, fat16_make_directory, fat16_remove_directory *)

StartDelete(k) ==
  /\ op' = [Calling("delete", k) EXCEPT !.curr = Entry(k).start,
                                        !.safety = NumClusters]
  /\ pc' = "free"
  /\ UNCHANGED disk

fat16_delete_file(k) ==
  /\ Idle
  /\ Found(k) /\ ~IsDir(k)
  /\ StartDelete(k)
  /\ UNCHANGED history

fat16_remove_directory(k) ==
  /\ Idle
  /\ IsDir(k) /\ Occupied(Entry(k).start) = 0
  /\ StartDelete(k)
  /\ UNCHANGED history

tombstone_none ==
  /\ pc = "tombstone"
  /\ UNCHANGED <<disk, failed, lost>>
  /\ Return("ok", "whole")

tombstone ==
  /\ pc = "tombstone"
  /\ PutEntry(NoEntry)
  /\ UNCHANGED <<failed, lost>>
  /\ Return("ok", "whole")

StartMkdir(k) == op' = Calling("mkdir", k) /\ pc' = "alloc" /\ UNCHANGED disk

fat16_make_directory(k) ==
  /\ Idle
  /\ ~Found(k)
  /\ StartMkdir(k)
  /\ UNCHANGED history

\* "." and "..", and nothing else.
PutEmptyDirectory ==
  /\ table' = [table EXCEPT ![op.new] = [n \in Names |-> NoEntry]]
  /\ Stale(op.new)
  /\ UNCHANGED <<fat, fat2>>

zero_directory ==
  /\ pc = "zero"
  /\ PutEmptyDirectory
  /\ pc' = "insert"
  /\ UNCHANGED <<op, history>>

-----------------------------------------------------------------------------
(* fat16_insert_entry, for the three calls that make an entry *)

NewEntry ==
  [kind |-> IF op.call = "mkdir" THEN "dir" ELSE "file", start |-> op.new, size |-> 0]

\* A search that failed may have missed an entry of the same name: the new one
\* gets slots before it, and hides it, or behind it, and is hidden.  A write
\* searches the directory again and goes on with the entry that it finds.
fat16_insert_entry ==
  /\ pc = "insert"
  /\ ~DirFull(op.obj[1])
  /\ PutEntry(NewEntry) \/ (Found(op.obj) /\ UNCHANGED disk)
  /\ UNCHANGED <<failed, lost>>
  /\ LET e == table'[op.obj[1]][op.obj[2]]
     IN  CASE op.call = "write" /\ e.kind = "file" ->
                OpenFile(op, e) /\ UNCHANGED trust
           [] op.call = "write" /\ e.kind = "dir" -> Return("error", "whole")
           [] OTHER -> Return("ok", "whole")

\* A full directory: the new cluster of mkdir stays allocated.
insert_enospc ==
  /\ pc = "insert"
  /\ DirFull(op.obj[1])
  /\ UNCHANGED <<disk, failed>>
  /\ Return("error", trust[op.obj])
  /\ lost' = (lost \/ op.call = "mkdir")

\* -EEXIST, -ENOENT, -EISDIR, -ENOTDIR, -ENOTEMPTY: nothing was written yet.
\* For every object there is a call that is refused: to create it if it
\* exists, to delete it if it does not.
refused ==
  /\ pc = "idle"
  /\ op' = [NoOp EXCEPT !.result = "error"]
  /\ UNCHANGED <<disk, pc, history>>

-----------------------------------------------------------------------------
(* Disk errors, at any number of the steps of one call: after a timeout    *)
(* the disk may go on as before, with ERR set every later access fails.    *)
(* fat16_read_fat_entry answers 0xFFFF, the end of a chain;                *)
(* fat16_find_in_dir answers -ENOENT; the result of fat16_write_fat_entry  *)
(* is ignored; elsewhere the call returns -EIO.  A write that fails may    *)
(* have reached the disk: the driver also reports an error in the flush    *)
(* behind it.                                                              *)

DiskError == failed' = TRUE /\ lost' = TRUE

Tear(k) == trust' = [trust EXCEPT ![k] = "torn"]

\* The first copy of the FAT when writing entry c fails; the second is not
\* written then.
FailedFatWrite(c, value) ==
  /\ fat' \in {fat, [fat EXCEPT ![c] = value]}
  /\ UNCHANGED <<fat2, table>>

\* The search did not reach the entry of k, which counts as absent.
search_error(k) ==
  /\ Idle
  /\ Found(k)
  /\ DiskError
  /\ Tear(k)
  /\ \/ StartCreate(k)
     \/ StartMkdir(k)
     \/ \E b \in Payloads, append \in BOOLEAN :
          Fits(k, b, append) /\ StartNewFile(k, b, append)

\* A path that does not resolve, or a file to delete that is not found.
lookup_error ==
  /\ Idle
  /\ DiskError
  /\ op' = [NoOp EXCEPT !.result = "error"]
  /\ UNCHANGED <<disk, pc, trust>>

\* The directory counts as empty when it cannot be read.
empty_check_error(k) ==
  /\ Idle
  /\ IsDir(k)
  /\ DiskError
  /\ StartDelete(k)
  /\ UNCHANGED trust

\* The append goes on at a cluster that is not the last one.
walk_read_error ==
  /\ pc = "walk" /\ op.curr >= 2
  /\ DiskError
  /\ Tear(op.obj)
  /\ LET o == [op EXCEPT !.prev = op.curr]
     IN  op' = o /\ pc' = LoopHead(o)
  /\ UNCHANGED disk

\* The second copy is not written; if it was in spite of the error, which
\* nobody looks at, the step is mirror.
mirror_error ==
  /\ pc = "mirror"
  /\ DiskError
  /\ pc' = op.ret
  /\ UNCHANGED <<disk, op, trust>>

free_read_error ==
  /\ pc = "free" /\ InChain
  /\ DiskError
  /\ fat16_write_fat_entry([op EXCEPT !.curr = EOF, !.safety = @ - 1], op.curr,
                           FREE, "free")
  /\ Stale(op.curr)
  /\ UNCHANGED <<table, trust>>

free_write_error ==
  /\ pc = "free" /\ InChain
  /\ DiskError
  /\ op' = [op EXCEPT !.curr = fat[op.curr], !.safety = @ - 1]
  /\ FailedFatWrite(op.curr, FREE)
  /\ UNCHANGED <<data, pc, trust>>

alloc_read_error ==
  /\ pc = "alloc"
  /\ DiskError
  /\ Return("error", "torn")
  /\ UNCHANGED disk

\* The cluster is handed out although it may not be marked.
alloc_write_error ==
  /\ pc = "alloc" /\ FreeCluster # 0
  /\ DiskError
  /\ op' = [op EXCEPT !.new = FreeCluster]
  /\ pc' = AfterAlloc
  /\ FailedFatWrite(FreeCluster, EOF)
  /\ UNCHANGED <<data, trust>>

link_write_error ==
  /\ pc = "link" /\ op.prev >= 2
  /\ DiskError
  /\ op' = [op EXCEPT !.curr = op.new, !.prev = op.new]
  /\ pc' = "data"
  /\ FailedFatWrite(op.prev, op.new)
  /\ UNCHANGED <<data, trust>>

eio ==
  /\ pc \in {"data", "commit", "tombstone", "zero", "insert"}
  /\ DiskError
  /\ Return("error", "torn")
  /\ \/ UNCHANGED disk
     \/ pc = "data" /\ PutData
     \/ pc = "commit" /\ PutEntry(WrittenEntry)
     \/ pc = "tombstone" /\ PutEntry(NoEntry)
     \/ pc = "zero" /\ PutEmptyDirectory
     \/ pc = "insert" /\ ~DirFull(op.obj[1]) /\ PutEntry(NewEntry)

-----------------------------------------------------------------------------
Step ==
  \/ mirror \/ fat16_alloc_cluster \/ alloc_enospc
  \/ fat16_free_chain \/ free_chain_end
  \/ walk_chain \/ link_cluster \/ write_data \/ commit
  \/ tombstone \/ zero_directory \/ fat16_insert_entry \/ insert_enospc

Error ==
  \/ lookup_error \/ walk_read_error
  \/ mirror_error \/ free_read_error \/ free_write_error
  \/ alloc_read_error \/ alloc_write_error \/ link_write_error \/ eio

Next ==
  \/ \E k \in LiveDirs \X Names :
       \/ fat16_create_file(k) \/ fat16_delete_file(k)
       \/ fat16_make_directory(k) \/ fat16_remove_directory(k)
       \/ search_error(k) \/ empty_check_error(k)
       \/ \E b \in Payloads, append \in BOOLEAN :
            fat16_write_file(k, b, append) \/ write_new_file(k, b, append)
  \/ refused
  \/ Step
  \/ Error

\* A call in progress goes on.
Spec == Init /\ [][Next]_vars /\ WF_vars(Step)

-----------------------------------------------------------------------------
(* Properties *)

\* As long as the disk works, no cluster belongs to two objects, at any
\* moment of any call, whether calls before succeeded or ran out of space.
ChainsDisjoint ==
  ~failed =>
    \A j, k \in {o \in Objects : Entry(o).start # 0} :
      j # k => ChainClusters(Entry(j).start) \cap ChainClusters(Entry(k).start) = {}

\* Between calls, as long as the disk works, the volume is in order: the
\* copies of the FAT agree (fat16.c:127), no entry points to a free cluster
\* and every chain ends with an end mark, so what alloc_cluster hands out
\* next is in nobody's file, and no entry is in a directory that was removed.
VolumeInOrder ==
  pc = "idle" /\ ~failed =>
    /\ fat = fat2
    /\ \A k \in Objects :
         Entry(k).start # 0 => Chain(Entry(k).start)[NumClusters] = EOF
    /\ {k[1] : k \in {j \in Objects : Found(j)}} \subseteq LiveDirs

\* Between calls every allocated cluster is in the chain of an object, unless
\* a call ran out of space before, a write that had given the file a new
\* first cluster, or mkdir; or the disk failed.
NoLostClusters ==
  pc = "idle" /\ ~lost =>
    {c \in Clusters : fat[c] # FREE}
      = UNION {ChainClusters(Entry(k).start) : k \in Objects}

\* Power loss during an append costs nothing: until the directory entry is
\* committed the file loads what it held before, also when other disk accesses
\* of the append fail.  Unless the file is torn: a chain that a failed
\* overwrite left too short, or that the walk cannot read to its end, makes
\* the append write over bytes of the file.
AppendKeepsOld ==
  pc # "idle" /\ op.append /\ trust[op.obj] # "torn" =>
    Load(op.obj) = op.before.bytes

\* During a call its object counts as what it was before.
Object(k) ==
  IF pc # "idle" /\ op.obj = k /\ trust[k] # "torn" THEN op.before ELSE Stored(k)

F == INSTANCE FileStore WITH
       store <- [k \in Objects |-> Object(k)],
       call <- IF pc = "idle" THEN [op |-> "none"]
               ELSE [op |-> IF op.append THEN "append" ELSE op.call,
                     obj |-> op.obj, bytes |-> op.bytes],
       result <- op.result

\* The driver implements the store of files: a call that returns success has
\* had the effect it promises, with its own payload and all at once, one that
\* returns an error has left the object as FileStore says, and no step of any
\* call, nor a disk error in it, changes what another file loads.
StoreSpec == F!Spec

\* Every call returns.
CallsReturn == []<>(pc = "idle")
=============================================================================
