-------------------------------- MODULE Saver --------------------------------
(***************************************************************************)
(* write_shards (src/fastsafetensors/saver.py): processes save the same    *)
(* tensors under the same base name, over an older checkpoint or over      *)
(* nothing.  Each fills temporary files of its own through memory maps and *)
(* renames them to the final names one by one.  Any call may fail, a       *)
(* process may die at any point (a page of a sparse map that finds no      *)
(* space on the disk kills it), and the machine may lose power once.  A    *)
(* reader opens files by their final names, in any order and at any time,  *)
(* and validates what it opened as a set (validate_shard_set).             *)
(*                                                                         *)
(* A file is named by its save and its shard, wherever it is linked; a     *)
(* save stands for the id in the shards' metadata.                         *)
(***************************************************************************)
EXTENDS ShardPlan

CONSTANTS
    Savers,      \* calls of write_shards
    Old,         \* the save that wrote the checkpoint that was there
    NoFile,
    NumShards,
    Size,        \* Size[e]: the bytes of entry e
    Dir          \* Dir[k]: the directory of shard k

Shards == 1 .. NumShards
Entries == DOMAIN Size
Plan == PlanShards(Size, NumShards)

ASSUME SaverAssumption ==
    /\ NumShards \in Nat \ {0}
    /\ Size \in Seq(Nat)
    /\ DOMAIN Dir = Shards
    /\ Old \notin Savers /\ NoFile \notin Savers \cup {Old}

VARIABLES
    fsync,       \* the parameter of each call
    pooled,      \* the fill is per_entry_fill with several threads
    pc, at,      \* where each call is; the shard its loop has come to
    task,        \* task[s][e]: the fill of entry e
    toSync,      \* directories it has yet to fsync
    temps,       \* files linked by their temporary names
    final,       \* final[k]: the save whose file has the final name of shard k
    past,        \* past[k]: what a power loss could leave under that name
    head,        \* files whose header was written
    filled,      \* <<save, entry>> whose bytes are in their file
    durable,     \* files that were fsynced
    lost,        \* the machine has lost power
    seen,        \* the files a reader opened, in order
    verdict      \* what validate_shard_set said of them

options == <<fsync, pooled>>
call == <<pc, at, task, toSync>>
disk == <<temps, final, past, head, filled, durable>>
reader == <<seen, verdict>>
vars == <<options, call, disk, lost, reader>>

-----------------------------------------------------------------------------
(* Decisions of the code, each after the slip a maintainer could make.     *)

\* per_entry_fill: with threads, leaving the pool waits for every task; the
\* loop of a single thread stops at the first that raised
AnyFailed(s) == \E e \in Entries : task[s][e] = "failed"
FillOver(s) ==
    (\A e \in Entries : task[s][e] # "todo") \/ (~pooled /\ AnyFailed(s))

\* except: every temporary name is unlinked, those not created included
SlipUndoOver(s) == at[s] = NumShards
StrayUndoOver(s) == at[s] > NumShards + 1
UndoOver(s) == at[s] > NumShards

\* after the renames every directory of the set is fsynced
SlipDirsOver(s) == ~fsync[s] \/ Cardinality(toSync[s]) < 2
DirsOver(s) == ~fsync[s] \/ toSync[s] = {}

\* validate_shard_set: the index of each, their number, one set
SlipAccepts(files) ==
    /\ Len(files) = NumShards
    /\ \A i \in Shards : files[i][2] = i
Accepts(files) ==
    /\ Len(files) = NumShards
    /\ \A i \in Shards : files[i][2] = i /\ files[i][1] = files[1][1]

-----------------------------------------------------------------------------
Untouched == [e \in Entries |-> "todo"]
AllDirs == {Dir[k] : k \in Shards}

Init ==
    /\ fsync \in [Savers -> BOOLEAN]
    /\ pooled \in BOOLEAN
    /\ pc = [s \in Savers |-> "check"]
    /\ at = [s \in Savers |-> 1]
    /\ task = [s \in Savers |-> Untouched]
    /\ toSync = [s \in Savers |-> AllDirs]
    /\ \E first \in {Old, NoFile} :
          /\ final = [k \in Shards |-> first]
          /\ past = [k \in Shards |-> {first}]
    /\ temps = {} /\ head = {} /\ filled = {} /\ durable = {}
    /\ lost = FALSE
    /\ seen = <<>> /\ verdict = "none"

Goes(s, from, to) == pc[s] = from /\ pc' = [pc EXCEPT ![s] = to]

\* A call that is over keeps no state of its own.
Ends(s, how) ==
    /\ pc' = [pc EXCEPT ![s] = how]
    /\ at' = [at EXCEPT ![s] = 1]
    /\ task' = [task EXCEPT ![s] = Untouched]
    /\ toSync' = [toSync EXCEPT ![s] = AllDirs]

\* A loop over the shards: the body runs for at[s], then the next phase
\* begins at the first shard.
Loop(s, phase, next) ==
    /\ pc[s] = phase
    /\ at' = [at EXCEPT ![s] = IF @ < NumShards THEN @ + 1 ELSE 1]
    /\ pc' = IF at[s] < NumShards THEN pc ELSE [pc EXCEPT ![s] = next]

-----------------------------------------------------------------------------
(* A call of write_shards.                                                 *)

\* makedirs and disk_usage, before anything is created
CheckSpace(s) ==
    /\ Goes(s, "check", "make") \/ Goes(s, "check", "raised")
    /\ UNCHANGED <<options, at, task, toSync, disk, lost, reader>>

\* open, ftruncate, mmap, and the header through the map
MakeShard(s) ==
    /\ Loop(s, "make", "fill")
    /\ temps' = temps \cup {<<s, at[s]>>}
    /\ head' = head \cup {<<s, at[s]>>}
    /\ UNCHANGED <<options, task, toSync, final, past, filled, durable, lost,
                   reader>>

\* one of them raises, before the file exists or after
MakeRaises(s) ==
    /\ Goes(s, "make", "undo")
    /\ temps' \in {temps, temps \cup {<<s, at[s]>>}}
    /\ at' = [at EXCEPT ![s] = 1]
    /\ UNCHANGED <<options, task, toSync, final, past, head, filled, durable,
                   lost, reader>>

\* fn(buffer, entry) on a thread of the pool or on the caller's
FillEntry(s, e) ==
    /\ pc[s] = "fill" /\ task[s][e] = "todo"
    /\ pooled \/ ~AnyFailed(s)
    /\ \/ /\ task' = [task EXCEPT ![s][e] = "done"]
          /\ filled' = filled \cup {<<s, e>>}
       \/ /\ task' = [task EXCEPT ![s][e] = "failed"]
          /\ UNCHANGED filled
    /\ UNCHANGED <<options, pc, at, toSync, temps, final, past, head, durable,
                   lost, reader>>

\* fill() returns or raises; release_views, flush and close of the maps may
\* raise too
EndFill(s) ==
    /\ FillOver(s)
    /\ \/ Goes(s, "fill", "undo")
       \/ ~AnyFailed(s) /\ Goes(s, "fill", IF fsync[s] THEN "sync" ELSE "rename")
    /\ UNCHANGED <<options, at, task, toSync, disk, lost, reader>>

\* os.fsync(fd) for every shard, before any is renamed
SyncShard(s) ==
    /\ Loop(s, "sync", "rename")
    /\ durable' = durable \cup {<<s, at[s]>>}
    /\ UNCHANGED <<options, task, toSync, temps, final, past, head, filled,
                   lost, reader>>

\* os.replace(tmp, path)
Publish(s) ==
    LET k == at[s] IN
    /\ Loop(s, "rename", "dirs")
    /\ temps' = temps \ {<<s, k>>}
    /\ final' = [final EXCEPT ![k] = s]
    /\ past' = [past EXCEPT ![k] = @ \cup {s}]
    /\ UNCHANGED <<options, task, toSync, head, filled, durable, lost, reader>>

\* os.fsync or os.replace raises
LateRaise(s) ==
    /\ Goes(s, "sync", "undo") \/ Goes(s, "rename", "undo")
    /\ at' = [at EXCEPT ![s] = 1]
    /\ UNCHANGED <<options, task, toSync, disk, lost, reader>>

\* fsync of a directory settles which files its names have
SyncDir(s) ==
    /\ pc[s] = "dirs" /\ ~DirsOver(s)
    /\ \E d \in toSync[s] :
          /\ toSync' = [toSync EXCEPT ![s] = @ \ {d}]
          /\ past' = [k \in Shards |->
                        IF Dir[k] = d THEN {final[k]} ELSE past[k]]
    /\ UNCHANGED <<options, pc, at, task, temps, final, head, filled, durable,
                   lost, reader>>

SyncDirRaises(s) ==
    /\ pc[s] = "dirs" /\ ~DirsOver(s)
    /\ Ends(s, "raised")
    /\ UNCHANGED <<options, disk, lost, reader>>

Return(s) ==
    /\ pc[s] = "dirs" /\ DirsOver(s)
    /\ Ends(s, "returned")
    /\ UNCHANGED <<options, disk, lost, reader>>

\* except BaseException: unlink every temporary name, those already renamed
\* or never created are not found
Unlink(s) ==
    /\ pc[s] = "undo" /\ ~UndoOver(s)
    /\ temps' = temps \ {<<s, at[s]>>}
    /\ at' = [at EXCEPT ![s] = @ + 1]
    /\ UNCHANGED <<options, pc, task, toSync, final, past, head, filled,
                   durable, lost, reader>>

Raise(s) ==
    /\ pc[s] = "undo" /\ UndoOver(s)
    /\ Ends(s, "raised")
    /\ UNCHANGED <<options, disk, lost, reader>>

\* an unlink that fails in another way raises out of the cleanup, which stays
\* where it is
UnlinkRaises(s) ==
    /\ ~UndoOver(s) /\ <<s, at[s]>> \in temps
    /\ Goes(s, "undo", "cutShort")
    /\ task' = [task EXCEPT ![s] = Untouched]
    /\ UNCHANGED <<options, at, toSync, disk, lost, reader>>

Save(s) ==
    \/ CheckSpace(s) \/ MakeShard(s) \/ MakeRaises(s)
    \/ (\E e \in Entries : FillEntry(s, e)) \/ EndFill(s)
    \/ SyncShard(s) \/ Publish(s) \/ LateRaise(s)
    \/ SyncDir(s) \/ SyncDirRaises(s) \/ Return(s)
    \/ Unlink(s) \/ Raise(s) \/ UnlinkRaises(s)

-----------------------------------------------------------------------------
(* The machine.                                                            *)

Over(s) == pc[s] \in {"returned", "raised", "cutShort", "dead"}

\* The process dies; what it wrote stays in the page cache.
Die(s) ==
    /\ ~Over(s)
    /\ Ends(s, "dead")
    /\ UNCHANGED <<options, disk, lost, reader>>

\* Every process dies.  A name has any of its files since its directory was
\* last synced; of a file that was not fsynced the data may be gone, with or
\* without the header.
PowerLoss ==
    /\ ~lost /\ lost' = TRUE
    /\ pc' = [s \in Savers |-> IF Over(s) THEN pc[s] ELSE "dead"]
    /\ at' = [s \in Savers |-> IF Over(s) THEN at[s] ELSE 1]
    /\ task' = [s \in Savers |-> Untouched]
    /\ toSync' = [s \in Savers |-> AllDirs]
    /\ final' \in {f \in [Shards -> UNION {past[k] : k \in Shards}] :
                     \A k \in Shards : f[k] \in past[k]}
    /\ past' = [k \in Shards |-> {final'[k]}]
    /\ \E gone \in SUBSET (head \ durable) :
          /\ filled' = {x \in filled : <<x[1], Plan.shard[x[2]]>> \notin gone}
          /\ head' \in {head, head \ gone}
    /\ seen' = <<>> /\ verdict' = "none"
    /\ UNCHANGED <<options, temps, durable>>

\* A reader: SafeTensorsMetadata.from_file by a final name; a file without a
\* header is refused there.
Readable(f) == f[1] = Old \/ f \in head

Open(k) ==
    /\ verdict = "none" /\ Len(seen) < NumShards
    /\ final[k] # NoFile /\ Readable(<<final[k], k>>)
    /\ seen' = Append(seen, <<final[k], k>>)
    /\ UNCHANGED <<options, call, disk, lost, verdict>>

validate_shard_set ==
    /\ verdict = "none" /\ seen # <<>>
    /\ verdict' = IF Accepts(seen) THEN "accepted" ELSE "refused"
    /\ UNCHANGED <<options, call, disk, lost, seen>>

Next ==
    \/ \E s \in Savers : Save(s) \/ Die(s)
    \/ PowerLoss
    \/ (\E k \in Shards : Open(k)) \/ validate_shard_set

Spec == Init /\ [][Next]_vars

-----------------------------------------------------------------------------
(* Properties.                                                             *)

\* Types of the variables.
Saves == Savers \cup {Old}
Files == Saves \X Shards
TypeOK ==
    /\ fsync \in [Savers -> BOOLEAN] /\ pooled \in BOOLEAN
    /\ pc \in [Savers -> {"check", "make", "fill", "sync", "rename", "dirs",
                          "undo", "returned", "raised", "cutShort", "dead"}]
    /\ at \in [Savers -> 1 .. NumShards + 1]
    /\ task \in [Savers -> [Entries -> {"todo", "done", "failed"}]]
    /\ toSync \in [Savers -> SUBSET AllDirs]
    /\ temps \subseteq Files /\ head \subseteq Files /\ durable \subseteq Files
    /\ filled \subseteq Saves \X Entries
    /\ final \in [Shards -> Saves \cup {NoFile}]
    /\ past \in [Shards -> SUBSET (Saves \cup {NoFile})]
    /\ lost \in BOOLEAN
    /\ seen \in Seq(Files)
    /\ verdict \in {"none", "accepted", "refused"}

\* A set of files that validate_shard_set accepted is one save, whole, at
\* whatever moments of however many saves each file was opened; after a loss
\* of power too when the save used fsync.
Whole(f) ==
    \/ f[1] = Old
    \/ f \in head /\ \A e \in EntriesOf(Plan, f[2]) : <<f[1], e>> \in filled
AcceptedIsWhole ==
    verdict = "accepted" =>
        \E s \in Saves :
            /\ seen = [k \in Shards |-> <<s, k>>]
            /\ (lost => s = Old \/ fsync[s]) => \A k \in Shards : Whole(<<s, k>>)

\* A save that returned or raised has left no temporary file behind; one whose
\* cleanup was cut short has left none of those before the one it could not
\* remove.
NoLitter ==
    \A s \in Savers, k \in Shards : <<s, k>> \in temps =>
        /\ pc[s] \notin {"returned", "raised"}
        /\ pc[s] = "cutShort" => at[s] <= k

\* When a save with fsync has returned, a loss of power leaves under every
\* final name a file that this save or another one published there, never
\* the checkpoint before it; its own file where no other was published
\* since; and if that save used fsync the file is whole.
SavedIsDurable ==
    \A s \in Savers : pc[s] = "returned" /\ fsync[s] =>
        \A k \in Shards :
            /\ past[k] \subseteq Savers
            /\ final[k] = s => past[k] = {s}
            /\ \A t \in past[k] : fsync[t] => <<t, k>> \in durable /\ Whole(<<t, k>>)

=============================================================================
