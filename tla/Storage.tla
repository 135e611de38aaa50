--------------------------------- MODULE Storage --------------------------------
(* The storage stack below the file-system operations: the write-back block    *)
(* cache (block.c), the write-ahead journal (journal.c) and the transactions   *)
(* of SFS that use both (sfs.c: sfs_write_meta, sfs_begin_op, sfs_end_op).     *)
(* Power may fail between any two writes of the device, also in recovery.      *)
(*                                                                             *)
(* The device writes a sector at once and does not fail. The content of a      *)
(* block is the set of the updates in it: an operation reads a block, adds an  *)
(* update and writes it back. A slot of the journal holds a descriptor, a      *)
(* commit record, or the raw copy of a block.                                  *)
EXTENDS Integers, Sequences, FiniteSets, SequencesExt

CONSTANTS
    Thread,        \* the threads that use the file system
    Blk,           \* the blocks of the file system
    Slots,         \* JENT_COUNT
    Lines,         \* BLOCK_CACHE_SIZE
    MaxUpd,        \* bound: updates made
    MaxSeq,        \* bound: transactions begun
    MaxNest        \* bound: journal_nest

ASSUME StorageConstants ==
    {Slots, Lines, MaxUpd, MaxSeq, MaxNest} \subseteq Nat \ {0} /\ Slots > 3

Slot == 0 .. Slots - 1
Line == 1 .. Lines

VARIABLES
    disk,          \* [Blk -> content]
    slot,          \* [Slot -> what the journal slot holds]
    jsb,           \* the journal super block: seq, head, tail
    line,          \* [Line -> valid, dirty, lba, data] of the cache
    lru,           \* the lines in the order of access_time, oldest first
    seq, nest,     \* journal_seq and journal_nest of the mounted file system
    up,            \* is the file system mounted?
    upd,           \* the last update made
    pc, depth,     \* where a thread is, and its begun operations
    blk, buf,      \* the block it works on and its copy of the content
    at,            \* the cache line that a read miss fills
    txn, jl,       \* the sequence number and the super block in its locals
    split,         \* is it in the commit-and-restart of sfs_write_meta?
    todo, last,    \* what a checkpoint or the recovery still writes home; the new head
    mine,          \* history: updates logged under the number of the current transaction
    committed      \* history: updates whose COMMIT is in the journal or beyond

device == <<disk, slot, jsb>>
cache  == <<line, lru>>
fs     == <<seq, nest, up>>
local  == <<depth, blk, buf, at, txn, jl, split, todo, last>>
hist   == <<upd, mine, committed>>
vars   == <<device, cache, fs, pc, local, hist>>

Goto(t, l)  == pc' = [pc EXCEPT ![t] = l]
Set(f, t, v) == [f EXCEPT ![t] = v]
(* Where a thread is between two calls: in an operation or outside. *)
Rest(n)     == IF n > 0 THEN "op" ELSE "idle"
Resting(t)  == up /\ pc[t] = Rest(depth[t])

--------------------------------------------------------------------------------
(* The block cache.                                                            *)

(* cache_lookup, which also touches the line *)
Found(b)   == {i \in Line : line[i].valid /\ line[i].lba = b}
Touch(i)   == Append(SelectSeq(lru, LAMBDA j : j # i), i)

(* cache_evict: the oldest clean line, else the oldest, of the valid ones, and *)
(* line 1 when no line is valid.                                               *)
Victim ==
    LET valid == SelectSeq(lru, LAMBDA i : line[i].valid)
        clean == SelectSeq(valid, LAMBDA i : ~line[i].dirty)
    IN  IF clean # <<>> THEN Head(clean) ELSE IF valid # <<>> THEN Head(valid) ELSE 1

(* What the device holds after line i was written back, if it was dirty. *)
WrittenBack(S) ==
    [b \in Blk |-> IF \E i \in S : line[i].valid /\ line[i].dirty /\ line[i].lba = b
                   THEN line[CHOOSE i \in S : line[i].valid /\ line[i].dirty /\ line[i].lba = b].data
                   ELSE disk[b]]
Cleaned(S) == [i \in Line |-> IF i \in S THEN [line[i] EXCEPT !.dirty = FALSE] ELSE line[i]]

(* block_read of a cached block *)
ReadHit(t, b) ==
    /\ Resting(t) /\ Found(b) # {}
    /\ LET i == CHOOSE i \in Found(b) : TRUE
       IN  lru' = Touch(i) /\ buf' = Set(buf, t, line[i].data)
    /\ blk' = Set(blk, t, b) /\ Goto(t, "have")
    /\ UNCHANGED <<device, line, fs, depth, at, txn, jl, split, todo, last, hist>>

(* block_read of another block: the line is relabelled under the lock ... *)
ReadMiss(t, b) ==
    /\ Resting(t) /\ Found(b) = {}
    /\ disk' = WrittenBack({Victim})
    /\ line' = [line EXCEPT ![Victim] = [@ EXCEPT !.valid = TRUE, !.dirty = FALSE, !.lba = b]]
    /\ lru' = Touch(Victim) /\ at' = Set(at, t, Victim)
    /\ blk' = Set(blk, t, b) /\ Goto(t, "fill")
    /\ UNCHANGED <<slot, jsb, fs, depth, buf, txn, jl, split, todo, last, hist>>

(* Mutant: the line keeps the data of the block it held before. *)
ReadFill_Stale(t) ==
    /\ pc[t] = "fill" /\ Goto(t, "copy")
    /\ UNCHANGED <<device, cache, fs, local, hist>>

(* ... filled without it ... *)
ReadFill(t) ==
    /\ pc[t] = "fill" /\ Goto(t, "copy")
    /\ line' = [line EXCEPT ![at[t]].data = disk[blk[t]]]
    /\ UNCHANGED <<device, lru, fs, local, hist>>

(* ... and copied to the caller, whatever the line holds by then. *)
ReadCopy(t) ==
    /\ pc[t] = "copy" /\ Goto(t, "have")
    /\ buf' = Set(buf, t, line[at[t]].data)
    /\ UNCHANGED <<device, cache, fs, depth, blk, at, txn, jl, split, todo, last, hist>>

(* block_write at the end of sfs_write_meta *)
CacheWrite(t) ==
    /\ pc[t] = "cache"
    /\ LET hit == Found(blk[t])
           i   == IF hit # {} THEN CHOOSE i \in hit : TRUE ELSE Victim
       IN  /\ disk' = IF hit # {} THEN disk ELSE WrittenBack({i})
           /\ line' = [line EXCEPT ![i] = [valid |-> TRUE, dirty |-> TRUE, lba |-> blk[t], data |-> buf[t]]]
           /\ lru' = Touch(i)
    /\ Goto(t, Rest(depth[t]))
    /\ UNCHANGED <<slot, jsb, fs, local, hist>>

(* block_sync, block_sync_dev and block_try_sync *)
Sync ==
    /\ \E i \in Line : line[i].valid /\ line[i].dirty
    /\ disk' = WrittenBack(Line) /\ line' = Cleaned(Line)
    /\ UNCHANGED <<slot, jsb, lru, fs, pc, local, hist>>

--------------------------------------------------------------------------------
(* The journal.                                                                *)

Data(s, b)  == [type |-> "DATA", seq |-> s, block |-> b]
Commit(s)   == [type |-> "COMMIT", seq |-> s]
Raw(c)      == [type |-> "RAW", data |-> c]

(* journal_init *)
EmptyJournal == [seq |-> 1, head |-> 0, tail |-> 0]

(* Mutant: the ring does not wrap around. *)
After_NoWrap(i) == i + 1

(* jent_next, and the slot after a parsed entry *)
After(i)    == (i + 1) % Slots
Hop(i)      == IF slot[i].type = "DATA" THEN After(After(i)) ELSE After(i)
Content(i)  == IF slot[i].type = "RAW" THEN slot[i].data ELSE {}

(* jspace *)
Space(j) ==
    IF j.head = j.tail THEN Slots - 1
    ELSE IF j.tail > j.head THEN Slots - 1 - (j.tail - j.head)
    ELSE j.head - j.tail - 1

(* The slots that a scan from a to b parses, in order; a scan that jumps over  *)
(* its end is cut off.                                                         *)
Scan(a, b) ==
    LET f[k \in 0 .. Slots] ==
            IF k = 0 THEN <<a>> ELSE LET s == f[k - 1] IN
            IF s[Len(s)] = b THEN s ELSE Append(s, Hop(s[Len(s)]))
    IN  f[Slots]
Entries(a, b) == SelectSeq(Scan(a, b), LAMBDA i : i # b)

(* The home writes for the DATA descriptors at the slots of s. *)
HomeWrites(s) ==
    [k \in DOMAIN s |-> [block |-> slot[s[k]].block, data |-> Content(After(s[k]))]]
Descriptors(s) == SelectSeq(s, LAMBDA i : slot[i].type = "DATA")

(* The slot after the last COMMIT, or the head (checkpoint, pass 1). *)
AfterLastCommit(j) ==
    LET c == SelectSeq(Entries(j.head, j.tail), LAMBDA i : slot[i].type = "COMMIT")
    IN  IF c = <<>> THEN j.head ELSE After(c[Len(c)])

(* What the inner loop of journal_recover replays for the COMMIT at slot c:    *)
(* it walks over the descriptors of other transactions slot by slot.           *)
Replayed(j, c) ==
    LET f[k \in 0 .. Slots] ==
            IF k = 0 THEN <<j.head, <<>>>> ELSE
            LET i == f[k - 1][1]
                s == f[k - 1][2]
            IN  IF i = c THEN f[k - 1]
                ELSE IF slot[i].type = "DATA" /\ slot[i].seq = slot[c].seq
                     THEN <<After(After(i)), Append(s, i)>>
                ELSE <<After(i), s>>
    IN  HomeWrites(f[Slots][2])

(* The home writes of journal_recover. *)
Recovery(j) ==
    LET c == SelectSeq(Entries(j.head, j.tail), LAMBDA i : slot[i].type = "COMMIT")
    IN  FlattenSeq([k \in DOMAIN c |-> Replayed(j, c[k])])

(* journal_log: read the super block; when the journal is full, sfs_write_meta *)
(* commits what there is, checkpoints, and tries once more.                    *)
LogCall(t) ==
    /\ pc[t] = "log"
    /\ jl' = Set(jl, t, jsb) /\ txn' = Set(txn, t, seq)
    /\ IF Space(jsb) >= 3 THEN Goto(t, "desc") /\ UNCHANGED split
       ELSE IF ~split[t] THEN Goto(t, "commit") /\ split' = Set(split, t, TRUE)
       ELSE Goto(t, Rest(depth[t])) /\ split' = Set(split, t, FALSE)
    /\ UNCHANGED <<device, cache, fs, depth, blk, buf, at, todo, last, hist>>

LogDescriptor(t) ==
    /\ pc[t] = "desc"
    /\ slot' = [slot EXCEPT ![jl[t].tail] = Data(txn[t], blk[t])] /\ Goto(t, "raw")
    /\ UNCHANGED <<disk, jsb, cache, fs, local, hist>>

LogRaw(t) ==
    /\ pc[t] = "raw"
    /\ slot' = [slot EXCEPT ![After(jl[t].tail)] = Raw(buf[t])] /\ Goto(t, "tail")
    /\ UNCHANGED <<disk, jsb, cache, fs, local, hist>>

(* Mutant: the tail moves by one slot for an entry of two. *)
LogTail_OneSlot(t) ==
    /\ pc[t] = "tail"
    /\ jsb' = [jl[t] EXCEPT !.tail = After(@)] /\ Goto(t, "cache")
    /\ split' = Set(split, t, FALSE)
    /\ mine' = IF nest > 0 /\ txn[t] = seq THEN mine \cup {<<blk[t], Max(buf[t])>>} ELSE mine
    /\ UNCHANGED <<disk, slot, cache, fs, depth, blk, buf, at, txn, jl, todo, last, upd, committed>>

LogTail(t) ==
    /\ pc[t] = "tail"
    /\ jsb' = [jl[t] EXCEPT !.tail = After(After(@))] /\ Goto(t, "cache")
    /\ split' = Set(split, t, FALSE)
    /\ mine' = IF nest > 0 /\ txn[t] = seq THEN mine \cup {<<blk[t], Max(buf[t])>>} ELSE mine
    /\ UNCHANGED <<disk, slot, cache, fs, depth, blk, buf, at, txn, jl, todo, last, upd, committed>>

(* journal_commit, called by sfs_end_op and by the commit-and-restart. An      *)
(* error ends sfs_end_op and is ignored by sfs_write_meta.                     *)
CommitCall(t) ==
    /\ pc[t] = "commit"
    /\ jl' = Set(jl, t, jsb) /\ txn' = Set(txn, t, seq)
    /\ Goto(t, IF Space(jsb) >= 1 THEN "record"
               ELSE IF split[t] THEN "ckpt" ELSE Rest(depth[t]))
    /\ UNCHANGED <<device, cache, fs, depth, blk, buf, at, split, todo, last, hist>>

CommitRecord(t) ==
    /\ pc[t] = "record"
    /\ slot' = [slot EXCEPT ![jl[t].tail] = Commit(txn[t])] /\ Goto(t, "ctail")
    /\ UNCHANGED <<disk, jsb, cache, fs, local, hist>>

CommitTail(t) ==
    /\ pc[t] = "ctail"
    /\ jsb' = [jl[t] EXCEPT !.tail = After(@), !.seq = txn[t] + 1] /\ Goto(t, "ckpt")
    /\ committed' = committed \cup mine /\ mine' = {}
    /\ UNCHANGED <<disk, slot, cache, fs, local, upd>>

(* Mutant: the head moves and nothing is written home. *)
CheckpointCall_NoReplay(t) ==
    /\ pc[t] = "ckpt"
    /\ jl' = Set(jl, t, jsb) /\ last' = Set(last, t, AfterLastCommit(jsb)) /\ Goto(t, "home")
    /\ UNCHANGED <<device, cache, fs, depth, blk, buf, at, txn, split, todo, hist>>

(* journal_checkpoint: pass 1 and the reads of pass 2 ... *)
CheckpointCall(t) ==
    /\ pc[t] = "ckpt"
    /\ jl' = Set(jl, t, jsb) /\ last' = Set(last, t, AfterLastCommit(jsb))
    /\ IF AfterLastCommit(jsb) = jsb.head THEN Goto(t, "ckpted") /\ UNCHANGED todo
       ELSE /\ todo' = Set(todo, t, HomeWrites(Descriptors(Entries(jsb.head, AfterLastCommit(jsb)))))
            /\ Goto(t, "home")
    /\ UNCHANGED <<device, cache, fs, depth, blk, buf, at, txn, split, hist>>

(* ... each block is written past the cache ... *)
CheckpointWrite(t) ==
    /\ pc[t] = "home" /\ todo[t] # <<>>
    /\ disk' = [disk EXCEPT ![Head(todo[t]).block] = Head(todo[t]).data] /\ Goto(t, "flush")
    /\ UNCHANGED <<slot, jsb, cache, fs, local, hist>>

(* ... its dirty line, if there is one, is written over that (block_flush) ... *)
CheckpointFlush(t) ==
    /\ pc[t] = "flush"
    /\ disk' = WrittenBack(Found(Head(todo[t]).block)) /\ line' = Cleaned(Found(Head(todo[t]).block))
    /\ todo' = Set(todo, t, Tail(todo[t])) /\ Goto(t, "home")
    /\ UNCHANGED <<slot, jsb, lru, fs, depth, blk, buf, at, txn, jl, split, last, hist>>

(* Mutant: the super block is not written after the replay. *)
CheckpointHead_NotWritten(t) ==
    /\ pc[t] = "home" /\ todo[t] = <<>> /\ Goto(t, "ckpted")
    /\ UNCHANGED <<device, cache, fs, local, hist>>

(* ... and the journal is emptied. *)
CheckpointHead(t) ==
    /\ pc[t] = "home" /\ todo[t] = <<>>
    /\ jsb' = [jl[t] EXCEPT !.head = last[t]] /\ Goto(t, "ckpted")
    /\ UNCHANGED <<disk, slot, cache, fs, local, hist>>

(* Back in sfs_write_meta (journal_start_txn, second try) or in sfs_end_op. *)
Checkpointed(t) ==
    /\ pc[t] = "ckpted"
    /\ IF split[t] THEN seq' = jsb.seq /\ Goto(t, "log")
       ELSE Goto(t, Rest(depth[t])) /\ UNCHANGED seq
    /\ UNCHANGED <<device, cache, nest, up, local, hist>>

--------------------------------------------------------------------------------
(* The operations of SFS: reads and sfs_write_meta calls between sfs_begin_op  *)
(* and sfs_end_op. Reading a file, chmod and lock call sfs_write_meta outside. *)

(* sfs_begin_op; an operation that writes a directory begins another inside.   *)
Begin(t) ==
    /\ Resting(t) /\ depth[t] < 2 /\ nest < MaxNest /\ jsb.seq < MaxSeq
    /\ IF nest > 0
       THEN /\ nest' = nest + 1 /\ depth' = Set(depth, t, depth[t] + 1)
            /\ Goto(t, "op") /\ UNCHANGED <<seq, jl>>
       ELSE /\ jl' = Set(jl, t, jsb) /\ Goto(t, "begin") /\ UNCHANGED <<seq, nest, depth>>
    /\ UNCHANGED <<device, cache, up, blk, buf, at, txn, split, todo, last, hist>>

Begun(t) ==
    /\ pc[t] = "begin"
    /\ seq' = jl[t].seq /\ nest' = 1
    /\ depth' = Set(depth, t, depth[t] + 1) /\ Goto(t, "op")
    /\ UNCHANGED <<device, cache, up, blk, buf, at, txn, jl, split, todo, last, hist>>

(* The block was only read. *)
ReadOnly(t) ==
    /\ pc[t] = "have" /\ Goto(t, Rest(depth[t]))
    /\ UNCHANGED <<device, cache, fs, local, hist>>

(* sfs_write_meta with the block that was read and changed *)
WriteMeta(t) ==
    /\ pc[t] = "have" /\ upd < MaxUpd
    /\ upd' = upd + 1 /\ buf' = Set(buf, t, buf[t] \cup {upd + 1}) /\ Goto(t, "log")
    /\ UNCHANGED <<device, cache, fs, depth, blk, at, txn, jl, split, todo, last, mine, committed>>

(* sfs_end_op *)
End(t) ==
    /\ up /\ pc[t] = "op"
    /\ depth' = Set(depth, t, depth[t] - 1)
    /\ IF nest > 1 THEN nest' = nest - 1 /\ Goto(t, Rest(depth[t] - 1))
       ELSE nest' = 0 /\ Goto(t, "commit")
    /\ UNCHANGED <<device, cache, seq, up, blk, buf, at, txn, jl, split, todo, last, hist>>

(* sfs_vfs_create finds no free inode and returns without sfs_end_op. *)
CreateFails(t) ==
    /\ up /\ pc[t] = "op" /\ depth[t] = 1
    /\ depth' = Set(depth, t, 0) /\ Goto(t, "idle")
    /\ UNCHANGED <<device, cache, fs, blk, buf, at, txn, jl, split, todo, last, hist>>

--------------------------------------------------------------------------------
(* Power failure and mount. The recovery runs in one thread, here in all.      *)

(* The variables in memory after a boot. *)
Boot ==
    LET b == CHOOSE b \in Blk : TRUE
    IN  [line  |-> [i \in Line |-> [valid |-> FALSE, dirty |-> FALSE, lba |-> b, data |-> {}]],
         blk   |-> [t \in Thread |-> b],
         jl    |-> [t \in Thread |-> EmptyJournal]]
All(v) == [t \in Thread |-> v]

(* sfs_format: journal_init, and blocks without updates *)
Init ==
    /\ disk = [b \in Blk |-> {}]
    /\ slot = [i \in Slot |-> Raw({})] /\ jsb = EmptyJournal
    /\ line = Boot.line /\ lru = [i \in Line |-> i] /\ seq = 0 /\ nest = 0 /\ up = FALSE
    /\ pc = All("mount") /\ depth = All(0) /\ blk = Boot.blk /\ buf = All({}) /\ at = All(1)
    /\ txn = All(0) /\ jl = Boot.jl /\ split = All(FALSE) /\ todo = All(<<>>) /\ last = All(0)
    /\ upd = 0 /\ mine = {} /\ committed = {}

(* Power fails; at the next boot sfs_mount calls journal_recover. *)
Crash ==
    /\ line' = Boot.line /\ lru' = [i \in Line |-> i] /\ seq' = 0 /\ nest' = 0 /\ up' = FALSE
    /\ pc' = All("mount") /\ depth' = All(0) /\ blk' = Boot.blk /\ buf' = All({}) /\ at' = All(1)
    /\ txn' = All(0) /\ jl' = Boot.jl /\ split' = All(FALSE) /\ todo' = All(Recovery(jsb))
    /\ last' = All(0) /\ mine' = {}
    /\ UNCHANGED <<device, upd, committed>>

RecoverWrite ==
    /\ \E t \in Thread :
          /\ pc[t] = "mount" /\ todo[t] # <<>>
          /\ disk' = [disk EXCEPT ![Head(todo[t]).block] = Head(todo[t]).data]
    /\ todo' = [t \in Thread |-> Tail(todo[t])]
    /\ UNCHANGED <<slot, jsb, cache, fs, pc, depth, blk, buf, at, txn, jl, split, last, hist>>

(* The journal is emptied and the file system is mounted. *)
Mounted ==
    /\ \A t \in Thread : pc[t] = "mount" /\ todo[t] = <<>>
    /\ jsb' = [jsb EXCEPT !.head = jsb.tail] /\ up' = TRUE
    /\ pc' = [t \in Thread |-> "idle"]
    /\ UNCHANGED <<disk, slot, cache, seq, nest, local, hist>>

--------------------------------------------------------------------------------
Step(t) ==
    \/ \E b \in Blk : ReadHit(t, b) \/ ReadMiss(t, b)
    \/ ReadFill(t) \/ ReadCopy(t) \/ ReadOnly(t) \/ WriteMeta(t) \/ CacheWrite(t)
    \/ LogCall(t) \/ LogDescriptor(t) \/ LogRaw(t) \/ LogTail(t)
    \/ CommitCall(t) \/ CommitRecord(t) \/ CommitTail(t)
    \/ CheckpointCall(t) \/ CheckpointWrite(t) \/ CheckpointFlush(t) \/ CheckpointHead(t)
    \/ Checkpointed(t) \/ Begin(t) \/ Begun(t) \/ End(t) \/ CreateFails(t)

Next == Sync \/ Crash \/ RecoverWrite \/ Mounted \/ \E t \in Thread : Step(t)
Spec == Init /\ [][Next]_vars

--------------------------------------------------------------------------------
Labels == {"mount", "idle", "op", "fill", "copy", "have", "log", "desc", "raw", "tail", "cache", "commit",
           "record", "ctail", "ckpt", "home", "flush", "ckpted", "begin"}
Jsb == [seq : Nat, head : Slot, tail : Slot]
Upd == 1 .. MaxUpd

(* Every variable has its type. *)
TypeOK ==
    /\ disk \in [Blk -> SUBSET Upd] /\ jsb \in Jsb
    /\ \A i \in Slot : slot[i] \in [type : {"DATA"}, seq : Nat, block : Blk]
          \cup [type : {"COMMIT"}, seq : Nat] \cup [type : {"RAW"}, data : SUBSET Upd]
    /\ line \in [Line -> [valid : BOOLEAN, dirty : BOOLEAN, lba : Blk, data : SUBSET Upd]]
    /\ Len(lru) = Lines /\ ToSet(lru) = Line
    /\ seq \in Nat /\ nest \in 0 .. MaxNest /\ up \in BOOLEAN /\ upd \in 0 .. MaxUpd
    /\ pc \in [Thread -> Labels] /\ depth \in [Thread -> 0 .. 2]
    /\ blk \in [Thread -> Blk] /\ buf \in [Thread -> SUBSET Upd] /\ at \in [Thread -> Line]
    /\ txn \in [Thread -> Nat] /\ jl \in [Thread -> Jsb] /\ split \in [Thread -> BOOLEAN]
    /\ last \in [Thread -> Slot] /\ mine \subseteq Blk \X Upd /\ committed \subseteq Blk \X Upd
    /\ \A t \in Thread : todo[t] \in Seq([block : Blk, data : SUBSET Upd])

(* The content of block b if power failed now and the recovery ran to its end. *)
AfterCrash(b) ==
    LET w == SelectSeq(Recovery(jsb), LAMBDA x : x.block = b)
    IN  IF w = <<>> THEN disk[b] ELSE w[Len(w)].data

(* No committed update is lost, whenever power fails: in the middle of a log   *)
(* entry, a commit, a checkpoint, a write-back, or of the recovery itself.     *)
Durable == \A x \in committed : x[2] \in AfterCrash(x[1])

(* While no thread is inside the journal or a read miss, a clean cache line    *)
(* holds what is on the device, although checkpoints write past the cache.     *)
CacheCoherent ==
    (\A t \in Thread : Resting(t) \/ pc[t] = "have") =>
        \A i \in Line : line[i].valid /\ ~line[i].dirty => line[i].data = disk[line[i].lba]

(* The slots from head to tail parse as entries, each descriptor is followed   *)
(* by its raw copy, and the last entry ends at the tail: the ring never        *)
(* overruns, and no scan jumps over its end.                                   *)
JournalParses ==
    LET s == Scan(jsb.head, jsb.tail)
    IN  /\ s[Len(s)] = jsb.tail
        /\ \A k \in 1 .. Len(s) - 1 :
              slot[s[k]].type # "RAW" /\ (slot[s[k]].type = "DATA" => slot[After(s[k])].type = "RAW")

(* The commit-and-restart of sfs_write_meta makes room: the second journal_log *)
(* never fails, so no update is dropped for want of journal space.             *)
RetrySucceeds == [][\A t \in Thread : pc[t] = "log" /\ up' => pc'[t] # Rest(depth[t])]_vars

(* 3_APP_FLOW.md: a crash before COMMIT leaves no trace of the transaction.    *)
IncompleteIsSkipped == \A x \in mine \ committed : x[2] \notin AfterCrash(x[1])
================================================================================
