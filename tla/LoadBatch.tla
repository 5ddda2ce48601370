----------------------------- MODULE LoadBatch -----------------------------
(***************************************************************************)
(* copy_files_to_device (src/fastsafetensors/loader.py) with the factories *)
(* (tensor_factory.py), the reference-counted allocations (allocation.py,  *)
(* dlpack.py) and the FilesBufferOnDevice (file_buffer.py) it returns, in  *)
(* a single-process group.                                                 *)
(*                                                                         *)
(* One thread, the caller, loads the files in order, uses the tensors and  *)
(* closes the buffer; reads go on in the background; the tensors it handed *)
(* out are dropped on any thread, whose DLPack deleter releases the        *)
(* allocation.  Every call on a copier may raise.  A file's device buffer  *)
(* is known by the file.  A storage is what one DLPack capsule exports; the *)
(* tensors of a file are views of its storages.                            *)
(***************************************************************************)
EXTENDS Naturals, FiniteSets

CONSTANTS
    NumFiles,   \* len(self.meta)
    Storages,   \* the tensors of a file, those of each storage in a set
    Clashes     \* may two of the files hold a tensor of the same name?

ASSUME NumFilesAssumption == NumFiles \in Nat \ {0}
ASSUME StoragesAssumption ==
    IsFiniteSet(Storages) /\ \A s \in Storages : IsFiniteSet(s)
ASSUME ClashesAssumption == Clashes \subseteq BOOLEAN

VARIABLES
    clash,      \* a tensor name occurs in two of the files
    inflight,   \* allow_inflight, and the copiers support readiness
    borrowed,   \* borrowed_tensors
    pc,         \* where the caller is
    file,       \* the file its loop is at
    listed,     \* files whose factory is in `factories`
    copier,     \* files whose factory.copier is not None
    gbuf,       \* files whose factory.gbuf is not None
    alloc,      \* files whose factory.allocation is not None
    open,       \* files whose descriptor is open
    io,         \* io[f]: the reads of the file
    ready,      \* ready[f]: tensors of the file whose bytes have landed
    given,      \* given[f]: tensors of the file that the user was given
    mem,        \* mem[f]: the device memory of the file
    refs,       \* refs[f]: _refcount of its SharedDeviceAllocation
    freer,      \* freer[f]: the thread that is about to free mem[f]
    held        \* held[f][s]: who has storage s of the file

options == <<clash, inflight, borrowed>>
control == <<pc, file>>
reads   == <<io, ready>>
factory == <<listed, copier, gbuf, alloc>>
memory  == <<mem, refs, freer, held>>
vars == <<options, control, factory, open, reads, memory, given>>

Files == 1 .. NumFiles
Tensors == UNION Storages

\* Who keeps a storage alive: factory.tensors, the user, the frames of a
\* traceback
Holders == {"factory", "user", "trace"}

-----------------------------------------------------------------------------
(* Decisions of the code, each after the slip a maintainer could make.     *)

\* SharedDeviceAllocation: the factory that creates it holds a reference
SlipFirstRefs == 0
FirstRefs == 1

\* release: the last reference frees
SlipLastOne(n) == n > 0
LastOne(n) == n = 0

\* free_dev_ptrs: the copier is drained before the buffer is freed
SlipMustFinish(f) == f \in copier /\ inflight
MustFinish(f) == f \in copier

\* copy_files_to_device: a factory is listed before its copier is configured
SlipListedBy == "submit"
ListedBy == "construct"

\* iter_local_tensors, shuffle: wait for the tensor's bytes while the copier
\* still reads
SlipMustWait == FALSE
MustWait == inflight

-----------------------------------------------------------------------------
Init ==
    /\ clash \in Clashes /\ inflight \in BOOLEAN /\ borrowed \in BOOLEAN
    /\ pc = "construct" /\ file = 1
    /\ listed = {} /\ copier = {} /\ gbuf = {} /\ alloc = {}
    /\ open = {}
    /\ io = [f \in Files |-> "none"]
    /\ ready = [f \in Files |-> {}] /\ given = [f \in Files |-> {}]
    /\ mem = [f \in Files |-> "none"]
    /\ refs = [f \in Files |-> 0]
    /\ freer = [f \in Files |-> "nobody"]
    /\ held = [f \in Files |-> [s \in Storages |-> {}]]

\* The caller frees what it has to free before it goes on.
CallerGoes(from, to) ==
    /\ pc = from /\ pc' = to
    /\ \A f \in Files : freer[f] # "caller"

\* The exception handler starts with the first factory.
Raise(from) == CallerGoes(from, "undo: finish") /\ file' = 1

\* The next file of a loop, or what follows the loop
NextFile(loop, after) ==
    IF file < NumFiles THEN pc' = loop /\ file' = file + 1
                       ELSE pc' = after /\ file' = 1

AtPoint(point) == pc = point /\ \A f \in Files : freer[f] # "caller"

List(point) == listed' = IF ListedBy = point THEN listed \cup {file} ELSE listed

-----------------------------------------------------------------------------
(* The loop that constructs, configures and submits.                       *)

\* copier_constructor opens the file; the factory is made and listed
Construct ==
    /\ CallerGoes("construct", "configure")
    /\ open' = open \cup {file}
    /\ copier' = copier \cup {file}
    /\ List("construct")
    /\ UNCHANGED <<options, file, gbuf, alloc, reads, memory, given>>

ConstructRaises ==
    /\ Raise("construct")
    /\ UNCHANGED <<options, factory, open, reads, memory, given>>

\* set_chunk or set_byte_ranges
Configure ==
    /\ CallerGoes("configure", "submit")
    /\ UNCHANGED <<options, file, factory, open, reads, memory, given>>

ConfigureRaises ==
    /\ Raise("configure")
    /\ UNCHANGED <<options, factory, open, reads, memory, given>>

\* submit_io allocates the buffer and starts the reads ...
Submit ==
    /\ AtPoint("submit")
    /\ NextFile("construct", "own")
    /\ List("submit")
    /\ gbuf' = gbuf \cup {file}
    /\ mem' = [mem EXCEPT ![file] = "live"]
    /\ io' = [io EXCEPT ![file] = "reading"]
    /\ UNCHANGED <<options, copier, alloc, open, ready, refs, freer, held, given>>

\* ... or raises: before it allocates, or after it drained the reads that it
\* had started, closed the file and freed the buffer
SubmitRaises ==
    /\ Raise("submit")
    /\ List("submit")
    /\ \/ UNCHANGED <<open, mem>>
       \/ open' = open \ {file} /\ mem' = [mem EXCEPT ![file] = "freed"]
    /\ UNCHANGED <<options, copier, gbuf, alloc, reads, refs, freer, held, given>>

\* The bytes of a tensor land.
Land(f, t) ==
    /\ io[f] = "reading" /\ t \notin ready[f]
    /\ ready' = [ready EXCEPT ![f] = @ \cup {t}]
    /\ UNCHANGED <<options, control, factory, open, io, memory, given>>

\* The reads end, well or not.
EndReads(f) ==
    /\ io[f] = "reading"
    /\ \/ ready[f] = Tensors /\ io' = [io EXCEPT ![f] = "read"]
       \/ io' = [io EXCEPT ![f] = "failed"]
    /\ UNCHANGED <<options, control, factory, open, ready, memory, given>>

-----------------------------------------------------------------------------
(* The loop of wait_io: the allocation takes the buffer, blocking copiers  *)
(* are waited for, and tensors are made.                                   *)

Own ==
    /\ CallerGoes("own", IF inflight THEN "make" ELSE "finish")
    /\ alloc' = alloc \cup {file}
    /\ refs' = [refs EXCEPT ![file] = FirstRefs]
    /\ UNCHANGED <<options, file, listed, copier, gbuf, open, reads, mem,
                   freer, held, given>>

\* finish_io: waits for every read, closes the file, then reports failures
Finish ==
    /\ io[file] # "reading"
    /\ IF io[file] = "failed" THEN Raise("finish")
                              ELSE CallerGoes("finish", "make") /\ UNCHANGED file
    /\ open' = open \ {file}
    /\ UNCHANGED <<options, factory, reads, memory, given>>

Count(S) == IF borrowed THEN 0 ELSE Cardinality(S)

\* _get_tensors: each storage acquires the allocation, unless it is borrowed
Make ==
    /\ AtPoint("make")
    /\ NextFile("own", "register")
    /\ held' = [held EXCEPT ![file] = [s \in Storages |-> {"factory"}]]
    /\ refs' = [refs EXCEPT ![file] = @ + Count(Storages)]
    /\ copier' = IF inflight THEN copier ELSE copier \ {file}
    /\ UNCHANGED <<options, listed, gbuf, alloc, open, reads, mem, freer, given>>

\* It raises half way: what it made lives until the traceback is dropped.
MakeRaises ==
    /\ Raise("make")
    /\ \E made \in SUBSET Storages :
        /\ held' = [held EXCEPT ![file] =
                      [s \in Storages |-> IF s \in made THEN {"trace"} ELSE {}]]
        /\ refs' = [refs EXCEPT ![file] = @ + Count(made)]
    /\ UNCHANGED <<options, factory, open, reads, mem, freer, given>>

\* FilesBufferOnDevice.__init__
Register ==
    /\ CallerGoes("register", "use")
    /\ ~clash
    /\ UNCHANGED <<options, file, factory, open, reads, memory, given>>

\* ... raises for a tensor name that two files share, when the handler that
\* frees the factories is already left
RegisterRaises ==
    /\ CallerGoes("register", "raised")
    /\ clash
    /\ held' = [f \in Files |-> [s \in Storages |-> {"trace"}]]
    /\ UNCHANGED <<options, file, factory, open, reads, mem, refs, freer, given>>

-----------------------------------------------------------------------------
(* free_dev_ptrs, for each listed factory, from the exception handler      *)
(* ("undo") and from FilesBufferOnDevice.close ("close").                  *)

\* The copier is drained and closes its file; an error does not stop it.
FinishToFree ==
    /\ \/ CallerGoes("undo: finish", "undo: free")
       \/ CallerGoes("close: finish", "close: free")
    /\ IF file \in listed /\ MustFinish(file)
       THEN io[file] # "reading" /\ open' = open \ {file}
       ELSE UNCHANGED open
    /\ copier' = copier \ (listed \cap {file})
    /\ UNCHANGED <<options, file, listed, gbuf, alloc, reads, memory, given>>

\* Storages of f that nobody has when h lets go of it
Dropped(f, h) == {s \in Storages : held[f][s] = {h}}

LetGo(f, h) == [s \in Storages |-> held[f][s] \ {h}]

\* release: n references of f are given back by a thread
Release(f, n, thread) ==
    /\ refs' = [refs EXCEPT ![f] = @ - n]
    /\ freer' = IF n > 0 /\ LastOne(refs[f] - n)
                THEN [freer EXCEPT ![f] = thread] ELSE freer

\* _free_buffer: the tensors of the factory, then its own reference; without
\* an allocation the raw buffer is freed
FreeBuffer ==
    /\ \/ AtPoint("undo: free") /\ NextFile("undo: finish", "raised")
       \/ AtPoint("close: free") /\ NextFile("close: finish", "closed")
    /\ IF file \in listed
       THEN /\ held' = [held EXCEPT ![file] = LetGo(file, "factory")]
            /\ IF file \in alloc
               THEN Release(file, 1 + Count(Dropped(file, "factory")), "caller")
               ELSE /\ freer' = IF file \in gbuf
                                THEN [freer EXCEPT ![file] = "caller"] ELSE freer
                    /\ UNCHANGED refs
            /\ alloc' = alloc \ {file}
            /\ gbuf' = gbuf \ {file}
       ELSE UNCHANGED <<held, refs, freer, alloc, gbuf>>
    /\ UNCHANGED <<options, listed, copier, open, reads, mem, given>>

\* free_tensor_memory, outside the lock of the allocation
Free(f) ==
    /\ freer[f] # "nobody"
    /\ mem' = [mem EXCEPT ![f] = IF @ = "live" THEN "freed" ELSE "freed twice"]
    /\ freer' = [freer EXCEPT ![f] = "nobody"]
    /\ UNCHANGED <<options, control, factory, open, reads, refs, held, given>>

-----------------------------------------------------------------------------
(* The user, and the threads on which tensors are dropped.                 *)

\* get_tensor, iter_local_tensors: a view of one of the file's storages, once
\* the bytes of the tensor are there; a failed read raises and gives nothing
Take(f, s, t) ==
    /\ AtPoint("use")
    /\ MustWait => t \in ready[f]
    /\ held' = [held EXCEPT ![f][s] = @ \cup {"user"}]
    /\ given' = [given EXCEPT ![f] = @ \cup {t}]
    /\ UNCHANGED <<options, control, factory, open, reads, mem, refs, freer>>

\* FilesBufferOnDevice.close
Close ==
    /\ CallerGoes("use", "close: finish")
    /\ UNCHANGED <<options, file, factory, open, reads, memory, given>>

\* The last view of a storage is dropped, on any thread.
Drop(f, s) ==
    /\ "user" \in held[f][s]
    /\ held' = [held EXCEPT ![f][s] = @ \ {"user"}]
    /\ Release(f, IF held[f][s] = {"user"} THEN Count({s}) ELSE 0, "deleter")
    /\ UNCHANGED <<options, control, factory, open, reads, mem, given>>

\* The exception is dropped, with the frames of its traceback.
DropTrace(f) ==
    /\ pc = "raised"
    /\ \E s \in Storages : "trace" \in held[f][s]
    /\ held' = [held EXCEPT ![f] = LetGo(f, "trace")]
    /\ Release(f, Count(Dropped(f, "trace")), "deleter")
    /\ UNCHANGED <<options, control, factory, open, reads, mem, given>>

Load ==
    \/ Construct \/ ConstructRaises \/ Configure \/ ConfigureRaises
    \/ Submit \/ SubmitRaises \/ Own \/ Finish \/ Make \/ MakeRaises
    \/ Register \/ RegisterRaises \/ FinishToFree \/ FreeBuffer

User ==
    \/ Close
    \/ \E f \in Files, s \in Storages : Drop(f, s) \/ \E t \in s : Take(f, s, t)
    \/ \E f \in Files : DropTrace(f)

Background ==
    \E f \in Files :
        EndReads(f) \/ Free(f) \/ \E t \in Tensors : Land(f, t)

Next == Load \/ User \/ Background

Spec == Init /\ [][Next]_vars

-----------------------------------------------------------------------------
(* Properties.                                                             *)

\* Types of the variables; no memory is freed twice.
TypeOK ==
    /\ clash \in BOOLEAN /\ inflight \in BOOLEAN /\ borrowed \in BOOLEAN
    /\ pc \in {"construct", "configure", "submit", "own", "finish", "make",
               "register", "use", "undo: finish", "undo: free", "raised",
               "close: finish", "close: free", "closed"}
    /\ file \in Files
    /\ listed \subseteq Files /\ copier \subseteq Files
    /\ gbuf \subseteq Files /\ alloc \subseteq Files /\ open \subseteq Files
    /\ io \in [Files -> {"none", "reading", "read", "failed"}]
    /\ ready \in [Files -> SUBSET Tensors] /\ given \in [Files -> SUBSET Tensors]
    /\ mem \in [Files -> {"none", "live", "freed"}]
    /\ refs \in [Files -> 0 .. 1 + Cardinality(Storages)]
    /\ freer \in [Files -> {"nobody", "caller", "deleter"}]
    /\ held \in [Files -> [Storages -> SUBSET Holders]]

\* A tensor that owns its storage stays valid, after close and after a failed
\* load too; a borrowed one until the close begins.
Valid(f) == mem[f] = "live" /\ freer[f] = "nobody"
TensorsStayValid ==
    \A f \in Files, s \in Storages :
        held[f][s] # {} /\ (borrowed => pc \in {"make", "own", "finish",
                                                "register", "use"})
            => Valid(f)

\* Device memory is never freed under a read that may still write it.
NoWriteAfterFree == \A f \in Files : io[f] = "reading" => Valid(f)

\* A tensor the user was given has its bytes.
ReadyWhenGiven ==
    \A f \in Files : given[f] \subseteq ready[f]

\* copy_files_to_device that raised, and a buffer that was closed, keep no
\* memory beyond what tensors still own, and no open file.
NothingKept ==
    pc \in {"raised", "closed"} =>
        \A f \in Files :
            /\ mem[f] = "live" =>
                  \/ freer[f] # "nobody"
                  \/ ~borrowed /\ \E s \in Storages : held[f][s] # {}
            /\ f \notin open

\* The same of a load whose files hold tensors of different names: every other
\* error, at whatever point a factory has reached, is undone completely.
UndoneOtherwise == ~clash => NothingKept

=============================================================================
