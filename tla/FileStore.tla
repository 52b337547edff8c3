------------------------------ MODULE FileStore ------------------------------
(***************************************************************************)
(* The file-backed message store of truefix-store/src/file.rs, as          *)
(* CachedFileStore has it (FileStore is the same without the cache).       *)
(*                                                                         *)
(* An operation is the list of file-system calls it makes, each with the   *)
(* memory updates up to the next call.  The process may die between any    *)
(* two of them, or in the middle of an append; what was written survives.  *)
(* A file-system call may also fail, and then the operation returns the    *)
(* error.  One task uses a store, so operations do not overlap.            *)
(***************************************************************************)
EXTENDS Integers, Sequences, FiniteSets

CONSTANTS
  Msgs,         \* message bodies
  MaxSeq,       \* bound: largest sequence number
  MaxAppends,   \* bound: records in the body file
  MaxRecords,   \* max_body_records, 0 for no limit
  MaxCached,    \* max_cached_msgs, 0 for no limit
  Legacies,     \* what may be in an old `seqnums' file: pairs, or NoFile
  MaxCrashes,   \* bound: crashes of the process
  MaxFaults     \* bound: failing file-system calls

NoFile == <<>>
Gone == 0       \* a sequence file that does not exist
Torn == "torn"  \* what an interrupted append leaves: a header, no body

Numbers == 1..(MaxSeq + 1)

ASSUME FileStoreAssumption ==
  /\ Torn \notin Msgs
  /\ MaxSeq \in Nat /\ MaxAppends \in Nat
  /\ MaxRecords \in Nat /\ MaxCached \in Nat
  /\ Legacies \subseteq {NoFile} \cup (Numbers \X Numbers)
  /\ MaxCrashes \in Nat /\ MaxFaults \in Nat

Record == [seq : Numbers, msg : Msgs \cup {Torn}]

VARIABLES
  legacy,   \* the contents of the old `seqnums' file, which is only ever read
  disk,     \* the files: sender and target numbers, body records, creation time
  mem,      \* SeqFile::state
  index,    \* BodyLog::index: sequence number -> record number
  cache,    \* CacheState: the map, and its keys in order of insertion
  todo,     \* file-system calls the current operation has still to make
  open,     \* the process is up and has opened the store
  saved,    \* history: what was saved (and acknowledged) since the last reset
  before,   \* history: the numbers when the current operation began
  after,    \* history: the numbers the current operation would leave
  spoiled,  \* history: "body" if an append failed after its header, "numbers"
            \* if a reset was cut short while a number had no file, "stuck" if
            \* a reset could neither remove nor rewrite a number's file
  crashes, faults

vars == <<legacy, disk, mem, index, cache, todo, open, saved, before, after,
          spoiled, crashes, faults>>

Step == [do : {"sender", "target", "header", "body", "truncate", "rm_sender",
               "rm_target", "clear", "migrate_sender", "migrate_target",
               "load", "read_born", "cut_born", "write_born"},
         num : Nat, msg : Msgs \cup {Torn}]

Pair == [sender : Nat, target : Nat]

TypeOK ==
  /\ legacy \in Legacies
  /\ disk \in [sender : Nat, target : Nat, body : Seq(Record),
              born : {"none", "empty", "ok"}]
  /\ mem \in Pair
  /\ DOMAIN index \subseteq Numbers
  /\ \A n \in DOMAIN index : index[n] \in 1..Len(disk.body)
  /\ DOMAIN cache.map \subseteq Numbers
  /\ \A n \in DOMAIN cache.map : cache.map[n] \in Msgs \cup {Torn}
  /\ cache.order \in Seq(Numbers)
  /\ todo \in Seq(Step)
  /\ open \in BOOLEAN
  /\ DOMAIN saved \subseteq Numbers
  /\ \A n \in DOMAIN saved : saved[n] \in Msgs
  /\ before \in Pair /\ after \in Pair
  /\ spoiled \subseteq {"body", "numbers", "stuck"}
  /\ crashes \in 0..MaxCrashes /\ faults \in 0..MaxFaults

Do(name, num) == [do |-> name, num |-> num, msg |-> Torn]
DoMsg(name, num, msg) == [do |-> name, num |-> num, msg |-> msg]

Nothing == [n \in {} |-> Torn]
NoCache == [map |-> Nothing, order |-> <<>>]

With(f, n, v) == [k \in DOMAIN f \cup {n} |-> IF k = n THEN v ELSE f[k]]
Only(f, S) == [k \in DOMAIN f \cap S |-> f[k]]

-----------------------------------------------------------------------------
(***************************************************************************)
(* Reading the files.                                                      *)
(***************************************************************************)

\* load_seq_value: no file means a new store.
load_seq_value(file) == IF file = Gone THEN 1 ELSE file

(***************************************************************************)
(* load_index walks the records from the start.  A header without its body *)
(* takes the bytes that follow for its body: at the end of the file that   *)
(* is a corrupt tail.  Before the end it is indexed with bytes of later    *)
(* records as its body (messages are of like size), and the walk goes on   *)
(* in the middle of a message, where the next "length" (four characters of *)
(* FIX text) points far beyond the end of the file.  In both cases the     *)
(* file is cut there.                                                      *)
(***************************************************************************)
CleanLen(body) ==
  LET torn == {i \in DOMAIN body : body[i].msg = Torn}
      first == CHOOSE i \in torn : \A j \in torn : i <= j
  IN  IF torn = {} THEN Len(body)
      ELSE IF first = Len(body) THEN first - 1 ELSE first

\* For each number the last record that has it, of the first len records.
load_index(body, len) ==
  [n \in {body[i].seq : i \in 1..len} |->
     CHOOSE i \in 1..len :
       /\ body[i].seq = n
       /\ \A j \in 1..len : body[j].seq = n => j <= i]

-----------------------------------------------------------------------------
(***************************************************************************)
(* Bounded index and cache.                                                *)
(***************************************************************************)

\* evict_oldest: keep the highest max_records numbers.
evict_oldest(ix) ==
  IF MaxRecords = 0 THEN ix
  ELSE Only(ix, {n \in DOMAIN ix :
                   Cardinality({k \in DOMAIN ix : k > n}) < MaxRecords})

\* CacheState::insert: a new number goes to the end of the order; while the map
\* is too large the front of the order leaves it.
CacheInsert(c, n, msg) ==
  LET map == With(c.map, n, msg)
      order == IF n \in DOMAIN c.map THEN c.order ELSE Append(c.order, n)
      full == MaxCached > 0 /\ Cardinality(DOMAIN map) > MaxCached
  IN  IF full
      THEN [map |-> Only(map, DOMAIN map \ {Head(order)}), order |-> Tail(order)]
      ELSE [map |-> map, order |-> order]

\* Insert the bodies of the numbers in ns, lowest first.
CacheInsertAll(c, body, ix, ns) ==
  LET nth(i) == CHOOSE n \in ns : Cardinality({k \in ns : k <= n}) = i
      run[i \in 0..Cardinality(ns)] ==
        IF i = 0 THEN c
        ELSE CacheInsert(run[i - 1], nth(i), body[ix[nth(i)]].msg)
  IN  run[Cardinality(ns)]

\* open_with_options warms the cache with the highest max_cached_msgs numbers.
WarmCache(body, ix) ==
  CacheInsertAll(NoCache, body, ix,
    {n \in DOMAIN ix :
       MaxCached = 0 \/ Cardinality({k \in DOMAIN ix : k > n}) < MaxCached})

-----------------------------------------------------------------------------
(***************************************************************************)
(* Operations.  `before' and `after' remember what the numbers were and    *)
(* what the operation makes of them.                                       *)
(***************************************************************************)

Init ==
  /\ legacy \in Legacies
  /\ disk = [sender |-> Gone, target |-> Gone, body |-> <<>>, born |-> "none"]
  /\ mem = [sender |-> 1, target |-> 1]
  /\ index = Nothing
  /\ cache = NoCache
  /\ todo = <<>>
  /\ open = FALSE
  /\ saved = Nothing
  /\ before = IF legacy = NoFile THEN [sender |-> 1, target |-> 1]
              ELSE [sender |-> legacy[1], target |-> legacy[2]]
  /\ after = before
  /\ spoiled = {}
  /\ crashes = 0
  /\ faults = 0

Begin(steps, numbers) ==
  /\ open /\ todo = <<>>
  /\ todo' = steps
  /\ before' = mem
  /\ after' = numbers
  /\ UNCHANGED <<legacy, disk, mem, index, cache, open, saved, spoiled,
                 crashes, faults>>

set_next_sender_seq(v) ==
  Begin(<<Do("sender", v)>>, [mem EXCEPT !.sender = v])

set_next_target_seq(v) ==
  Begin(<<Do("target", v)>>, [mem EXCEPT !.target = v])

\* Faulty variant: the number's file is emptied before it is written.
save_truncates_first(n, msg) ==
  /\ Len(disk.body) < MaxAppends
  /\ Begin(<<Do("rm_sender", 0), Do("sender", n + 1), DoMsg("header", n, msg),
             DoMsg("body", n, msg)>>,
           [mem EXCEPT !.sender = n + 1])

\* The number first, then the body.
save_and_advance_sender(n, msg) ==
  /\ Len(disk.body) < MaxAppends
  /\ Begin(<<Do("sender", n + 1), DoMsg("header", n, msg),
             DoMsg("body", n, msg)>>,
           [mem EXCEPT !.sender = n + 1])

save(n, msg) ==
  /\ Len(disk.body) < MaxAppends
  /\ Begin(<<DoMsg("header", n, msg), DoMsg("body", n, msg)>>, mem)

\* Faulty variant: the numbers first, then the body.
reset_numbers_first ==
  Begin(<<Do("rm_sender", 0), Do("rm_target", 0),
          Do("sender", 1), Do("target", 1), Do("truncate", 0), Do("clear", 0),
          Do("cut_born", 0), Do("write_born", 0)>>,
        [sender |-> 1, target |-> 1])

\* The body first, then the numbers (each file is removed and written again),
\* then the creation time.
reset ==
  Begin(<<Do("truncate", 0), Do("rm_sender", 0), Do("rm_target", 0),
          Do("sender", 1), Do("target", 1), Do("clear", 0),
          Do("cut_born", 0), Do("write_born", 0)>>,
        [sender |-> 1, target |-> 1])

\* get: numbers not in the cache are read from the file and cached.
get(begin, end) ==
  /\ open /\ todo = <<>>
  /\ LET wanted == {n \in DOMAIN index : n \in begin..end}
     IN  cache' = CacheInsertAll(cache, disk.body, index,
                                 wanted \ DOMAIN cache.map)
  /\ UNCHANGED <<legacy, disk, mem, index, todo, open, saved, before, after,
                 spoiled, crashes, faults>>

\* open_with_options: an old `seqnums' file is used for a file that is missing.
open_with_options ==
  /\ ~open /\ todo = <<>>
  /\ todo' = <<Do("migrate_sender", 0), Do("migrate_target", 0), Do("load", 0),
               Do("read_born", 0)>>
  /\ UNCHANGED <<legacy, disk, mem, index, cache, open, saved, before, after,
                 spoiled, crashes, faults>>

-----------------------------------------------------------------------------
(***************************************************************************)
(* The file-system calls.                                                  *)
(***************************************************************************)

Due(name) == todo # <<>> /\ Head(todo).do = name
Done == todo' = Tail(todo)
NotHistory == UNCHANGED <<legacy, before, after, spoiled, crashes, faults>>

\* write_seq_value: written beside the file and renamed over it.
WriteSender ==
  /\ Due("sender") /\ Done
  /\ disk' = [disk EXCEPT !.sender = Head(todo).num]
  /\ mem' = [mem EXCEPT !.sender = Head(todo).num]
  /\ UNCHANGED <<index, cache, open, saved>> /\ NotHistory

WriteTarget ==
  /\ Due("target") /\ Done
  /\ disk' = [disk EXCEPT !.target = Head(todo).num]
  /\ mem' = [mem EXCEPT !.target = Head(todo).num]
  /\ UNCHANGED <<index, cache, open, saved>> /\ NotHistory

\* BodyLog::append, up to the header and then the body.
AppendHeader ==
  /\ Due("header") /\ Done
  /\ disk' = [disk EXCEPT !.body =
                Append(@, [seq |-> Head(todo).num, msg |-> Torn])]
  /\ UNCHANGED <<mem, index, cache, open, saved>> /\ NotHistory

AppendBody ==
  /\ Due("body") /\ Done
  /\ LET n == Head(todo).num
         msg == Head(todo).msg
     IN  /\ disk' = [disk EXCEPT !.body[Len(disk.body)].msg = msg]
         /\ index' = evict_oldest(With(index, n, Len(disk.body)))
         /\ cache' = CacheInsert(cache, n, msg)
         /\ saved' = With(saved, n, msg)
  /\ UNCHANGED <<mem, open>> /\ NotHistory

\* BodyLog::reset, then the numbers in memory.
Truncate ==
  /\ Due("truncate") /\ Done
  /\ disk' = [disk EXCEPT !.body = <<>>]
  /\ index' = Nothing
  /\ mem' = [sender |-> 1, target |-> 1]
  /\ saved' = Nothing
  /\ UNCHANGED <<cache, open>> /\ NotHistory

\* An error of remove_file is ignored.
RemoveSender ==
  /\ Due("rm_sender") /\ Done
  /\ disk' = [disk EXCEPT !.sender = Gone]
  /\ UNCHANGED <<mem, index, cache, open, saved>> /\ NotHistory

RemoveTarget ==
  /\ Due("rm_target") /\ Done
  /\ disk' = [disk EXCEPT !.target = Gone]
  /\ UNCHANGED <<mem, index, cache, open, saved>> /\ NotHistory

ClearCache ==
  /\ Due("clear") /\ Done
  /\ cache' = NoCache
  /\ UNCHANGED <<disk, mem, index, open, saved>> /\ NotHistory

MigrateSender ==
  /\ Due("migrate_sender") /\ Done
  /\ disk' = [disk EXCEPT !.sender =
                IF @ = Gone /\ legacy # NoFile THEN legacy[1] ELSE @]
  /\ UNCHANGED <<mem, index, cache, open, saved>> /\ NotHistory

MigrateTarget ==
  /\ Due("migrate_target") /\ Done
  /\ disk' = [disk EXCEPT !.target =
                IF @ = Gone /\ legacy # NoFile THEN legacy[2] ELSE @]
  /\ UNCHANGED <<mem, index, cache, open, saved>> /\ NotHistory

\* The numbers are read, the records indexed, a corrupt tail cut off and the
\* cache filled.
Load ==
  /\ Due("load") /\ Done
  /\ LET len == CleanLen(disk.body)
         ix == evict_oldest(load_index(disk.body, len))
     IN  /\ disk' = [disk EXCEPT !.body = SubSeq(@, 1, len)]
         /\ index' = ix
         /\ cache' = WarmCache(disk.body, ix)
  /\ mem' = [sender |-> load_seq_value(disk.sender),
             target |-> load_seq_value(disk.target)]
  /\ UNCHANGED <<open, saved>> /\ NotHistory

\* creation_time_file: a file without a number is an error, and the store is not
\* opened; a missing one is written.
ReadBorn ==
  /\ Due("read_born")
  /\ todo' = IF disk.born = "none"
             THEN <<Do("cut_born", 0), Do("write_born", 0)>> ELSE <<>>
  /\ open' = (disk.born = "ok")
  /\ UNCHANGED <<disk, mem, index, cache, saved>> /\ NotHistory

\* reset_creation_time_file: fs::write empties the file and then fills it.
CutBorn ==
  /\ Due("cut_born") /\ Done
  /\ disk' = [disk EXCEPT !.born = "empty"]
  /\ UNCHANGED <<mem, index, cache, open, saved>> /\ NotHistory

WriteBorn ==
  /\ Due("write_born") /\ Done
  /\ disk' = [disk EXCEPT !.born = "ok"]
  /\ open' = TRUE
  /\ UNCHANGED <<mem, index, cache, saved>> /\ NotHistory

\* An operation other than open_with_options is under way, and a number that it
\* will write has no file.
NumberMissing ==
  open /\ todo # <<>> /\ (disk.sender = Gone \/ disk.target = Gone)

\* A reset is about to write a number, and an old file that it could not remove
\* is still there.
FileStuck ==
  /\ \E i \in DOMAIN todo : todo[i].do = "clear"
  /\ \/ Head(todo).do = "sender" /\ (disk.sender # Gone \/ disk.target # Gone)
     \/ Head(todo).do = "target" /\ disk.target # Gone

\* The process dies.
Crash ==
  /\ crashes < MaxCrashes
  /\ open \/ todo # <<>>
  /\ crashes' = crashes + 1
  /\ open' = FALSE
  /\ todo' = <<>>
  /\ spoiled' = spoiled \cup (IF NumberMissing THEN {"numbers"} ELSE {})
  /\ UNCHANGED <<legacy, disk, mem, index, cache, saved, before, after, faults>>

\* A file-system call fails; the operation ends with the error, except that a
\* file that cannot be removed is left alone.
Fail ==
  /\ faults < MaxFaults
  /\ todo # <<>>
  /\ Head(todo).do # "clear"
  /\ faults' = faults + 1
  /\ todo' = IF Head(todo).do \in {"rm_sender", "rm_target"} THEN Tail(todo)
                                                            ELSE <<>>
  /\ spoiled' = spoiled
       \cup (IF Head(todo).do = "body" THEN {"body"} ELSE {})
       \cup (IF NumberMissing THEN {"numbers"} ELSE {})
       \cup (IF FileStuck THEN {"stuck"} ELSE {})
  /\ UNCHANGED <<legacy, disk, mem, index, cache, open, saved, before, after,
                 crashes>>

(***************************************************************************)
(* The transport keeps the numbers it stores growing until a reset, and    *)
(* saves only messages whose number it has taken.                          *)
(***************************************************************************)
Next ==
  \/ \E v \in {mem.sender, mem.sender + 1} \cap Numbers : set_next_sender_seq(v)
  \/ \E v \in {mem.target, mem.target + 1} \cap Numbers : set_next_target_seq(v)
  \/ \E n \in {mem.sender, mem.sender + 1} \cap 1..MaxSeq, msg \in Msgs :
       save_and_advance_sender(n, msg)
  \/ \E n \in 1..(mem.sender - 1), msg \in Msgs : save(n, msg)
  \/ reset
  \/ \E begin \in 1..MaxSeq, end \in 1..MaxSeq : get(begin, end)
  \/ open_with_options
  \/ WriteSender \/ WriteTarget \/ AppendHeader \/ AppendBody
  \/ Truncate \/ RemoveSender \/ RemoveTarget \/ ClearCache
  \/ MigrateSender \/ MigrateTarget \/ Load
  \/ ReadBorn \/ CutBorn \/ WriteBorn
  \/ Crash
  \/ Fail

Spec == Init /\ [][Next]_vars

-----------------------------------------------------------------------------
(***************************************************************************)
(* Properties.                                                             *)
(***************************************************************************)

Idle == open /\ todo = <<>>

\* What get(1, MaxSeq) returns: the cache hides the file.
View ==
  [n \in DOMAIN index |-> IF n \in DOMAIN cache.map THEN cache.map[n]
                                                   ELSE disk.body[index[n]].msg]

\* An operation that a crash or an error interrupts leaves each number at its
\* old or at its new value, never at a third one, however the store is opened
\* again.  The exceptions are a reset that is cut short between the removal and
\* the rewriting of a number while an old `seqnums' file is still there, and one
\* that can neither remove nor rewrite a file.
OldOrNewNumber ==
  (Idle /\ ("numbers" \in spoiled => legacy = NoFile) /\ "stuck" \notin spoiled) =>
    /\ mem.sender \in {before.sender, after.sender}
    /\ mem.target \in {before.target, after.target}

\* No message of before a reset comes back, and none is returned under a number
\* that is still to be used: a resend would repeat old contents under a number
\* that now means something else.
NoStaleBody ==
  Idle => \A n \in DOMAIN index : n < mem.sender

\* get returns what was last saved under each number since the last reset, from
\* the cache or from the file, and an acknowledged save is not lost by a later
\* crash, unless an append failed after its header.  (With
\* FileStoreMaxBodyRecords only the highest numbers stay.)
SavedIsFound ==
  (Idle /\ "body" \notin spoiled) => View = evict_oldest(saved)

\* The same after an append that failed: every save that succeeded is found
\* again when the store is opened the next time.
AppendsSurvive ==
  Idle => View = evict_oldest(saved)

\* The numbers in memory are those a restart would find in the files, with the
\* second of those exceptions.
RuntimeIsDurable ==
  (Idle /\ "stuck" \notin spoiled) =>
    /\ mem.sender = load_seq_value(disk.sender)
    /\ mem.target = load_seq_value(disk.target)

\* The cache keeps to its limit and knows the order of everything it holds, so
\* that eviction never runs out of candidates.
CacheBounded ==
  /\ MaxCached > 0 => Cardinality(DOMAIN cache.map) <= MaxCached
  /\ DOMAIN cache.map = {cache.order[i] : i \in DOMAIN cache.order}
  /\ Len(cache.order) = Cardinality(DOMAIN cache.map)

\* The bodies: those last saved are found, those of before a reset are not, and
\* the cache in between keeps to its limit.
BodiesKept == TypeOK /\ SavedIsFound /\ NoStaleBody /\ CacheBounded

\* The numbers: each operation changes them whole or not at all, and those in
\* memory are those on the disk.
NumbersKept == OldOrNewNumber /\ RuntimeIsDurable
=============================================================================
