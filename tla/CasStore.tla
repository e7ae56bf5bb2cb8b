------------------------------ MODULE CasStore ------------------------------
(***************************************************************************)
(* The content-addressed chunk store (musicfs-cas/src/store.rs).           *)
(*                                                                         *)
(* A chunk is a file named by its hash.  put, get and delete take no lock: *)
(* tasks interleave between any two system calls, and the process can be   *)
(* killed there.  Next to the files there is the counter current_size,     *)
(* which open computes from them.  Of the sled index, which nothing but    *)
(* the statistics reads, only the place where it is written is kept.       *)
(*                                                                         *)
(* A chunk is two units long, written by one or two write calls at offsets *)
(* 0 and 1, so that a file may be short, or have a hole after a second     *)
(* writer truncated it.                                                    *)
(***************************************************************************)
EXTENDS Maps, Integers, FiniteSets, FiniteSetsExt

CONSTANTS
    Workers,     \* the tasks that use the store
    Chunks,      \* the chunks, each under its hash
    MaxSize,     \* max_size; 0 is no limit and no verification
    Width,       \* current_size is an integer modulo Width (2^64 in the code)
    MaxMissed,   \* bound on missed
    Events       \* what else may happen, see below

ASSUME CasAssumption ==
    /\ MaxMissed \in Nat /\ MaxSize \in Nat /\ Width \in Nat /\ MaxSize + 2 < Width
    /\ Events \subseteq {"crash", "power_loss", "io_error", "timeout"}

VARIABLES
    disk,          \* the files: chunk to the units written
    current_size,
    call,          \* the call each worker is in
    adrift,        \* what dropped calls had asked of the disk and is still to come
    reply,         \* how its last call ended
    missed         \* history: the puts since open that wrote and did not count

store == <<disk, current_size, call, adrift, reply, missed>>

Units == {1, 2}
Size == Cardinality(Units)

Exists(c) == c \in DOMAIN disk
Length(units) == IF units = {} THEN 0 ELSE Max(units)

\* The lengths of all files together.
OnDisk == Cardinality({s \in (DOMAIN disk) \X Units : s[2] <= Length(disk[s[1]])})

NoCall == [pc |-> "none"]
NoReply == [is |-> "none"]
Writing == {"write", "index", "count"}

Init ==
    /\ disk = EmptyMap
    /\ current_size = 0
    /\ call = [w \in Workers |-> NoCall] /\ adrift = {}
    /\ reply = [w \in Workers |-> NoReply]
    /\ missed = 0

Return(w, r) ==
    /\ call' = [call EXCEPT ![w] = NoCall]
    /\ reply' = [reply EXCEPT ![w] = r]

Begin(w, k) ==
    /\ call' = [call EXCEPT ![w] = k]
    /\ reply' = [reply EXCEPT ![w] = NoReply]

Goto(w, pc) ==
    /\ call' = [call EXCEPT ![w].pc = pc]
    /\ UNCHANGED reply

Ok == [is |-> "ok"]
IoError == [is |-> "io"]

----------------------------------------------------------------------------
(* put.  fs::write opens with truncation, then writes.                     *)

Put(w, c) ==
    /\ call[w] = NoCall
    /\ IF Exists(c) THEN Return(w, Ok)
       ELSE Begin(w, [pc |-> "limit", chunk |-> c])
    /\ UNCHANGED <<disk, current_size, adrift, missed>>

\* A mutant: the size of the chunk is forgotten.
FitsNow(size) == MaxSize = 0 \/ size <= MaxSize

\* The sum wraps as the release build's does (a debug build panics).
Fits(size) == MaxSize = 0 \/ (size + Size) % Width <= MaxSize

PutLimit(w) ==
    /\ call[w].pc = "limit"
    /\ IF Fits(current_size) THEN Goto(w, "open") ELSE Return(w, [is |-> "full"])
    /\ UNCHANGED <<disk, current_size, adrift, missed>>

Writer(c) == [pc |-> "write", chunk |-> c, linked |-> TRUE, left |-> Units]

PutOpen(w) ==
    /\ call[w].pc = "open"
    /\ disk' = Insert(disk, call[w].chunk, {})
    /\ call' = [call EXCEPT ![w] = Writer(@.chunk)]
    /\ UNCHANGED <<current_size, adrift, reply, missed>>

\* The units go to the file that was opened; if it was unlinked meanwhile,
\* nowhere.
Written(writer, units) ==
    IF writer.linked THEN [disk EXCEPT ![writer.chunk] = @ \cup units] ELSE disk

NextWrites(writer) == {writer.left, {Min(writer.left)}}

PutWrite(w) ==
    /\ call[w].pc = "write"
    /\ \E units \in NextWrites(call[w]) :
         /\ disk' = Written(call[w], units)
         /\ IF units = call[w].left THEN Goto(w, "index")
            ELSE /\ call' = [call EXCEPT ![w].left = @ \ units]
                 /\ UNCHANGED reply
    /\ UNCHANGED <<current_size, adrift, missed>>

PutIndex(w) ==
    /\ call[w].pc = "index"
    /\ Goto(w, "count")
    /\ UNCHANGED <<disk, current_size, adrift, missed>>

PutCount(w) ==
    /\ call[w].pc = "count"
    /\ current_size' = (current_size + Size) % Width
    /\ Return(w, Ok)
    /\ UNCHANGED <<disk, adrift, missed>>

----------------------------------------------------------------------------
(* get.  A file that vanishes after the check is an Io error, no NotFound. *)

Get(w, c) ==
    /\ call[w] = NoCall
    /\ IF Exists(c)
       THEN Begin(w, [pc |-> "read", chunk |-> c])
       ELSE Return(w, [is |-> "not_found"])
    /\ UNCHANGED <<disk, current_size, adrift, missed>>

\* A mutant: no verification.
Unverified(units) == TRUE

\* verify_integrity, of the units read.
Verified(units) == MaxSize = 0 \/ units = Units

GetRead(w) ==
    /\ call[w].pc = "read"
    /\ LET c == call[w].chunk
       IN  Return(w, IF ~Exists(c) THEN IoError
                     ELSE IF Verified(disk[c])
                     THEN [is |-> "data", chunk |-> c, units |-> disk[c]]
                     ELSE [is |-> "corrupt"])
    /\ UNCHANGED <<disk, current_size, adrift, missed>>

----------------------------------------------------------------------------
(* delete.                                                                 *)

Delete(w, c) ==
    /\ call[w] = NoCall
    /\ IF Exists(c)
       THEN Begin(w, [pc |-> "metadata", chunk |-> c])
       ELSE Return(w, Ok)
    /\ UNCHANGED <<disk, current_size, adrift, missed>>

DeleteMetadata(w) ==
    /\ call[w].pc = "metadata"
    /\ LET c == call[w].chunk
       IN  IF Exists(c)
           THEN /\ call' = [call EXCEPT ![w] = [pc |-> "remove", chunk |-> c,
                                                length |-> Length(disk[c])]]
                /\ UNCHANGED reply
           ELSE Return(w, IoError)
    /\ UNCHANGED <<disk, current_size, adrift, missed>>

\* Who has the file open keeps writing to it.
Unlinked(writer, c) ==
    IF writer.pc \in Writing /\ writer.chunk = c
    THEN [writer EXCEPT !.linked = FALSE] ELSE writer

Unlink(c, calls) ==
    /\ disk' = Remove(disk, {c})
    /\ call' = [w \in Workers |-> Unlinked(calls[w], c)]
    /\ adrift' = {Unlinked(a, c) : a \in adrift}

\* A mutant: a file that is gone is no error.
DeleteRemoveGone(w) ==
    /\ call[w].pc = "remove"
    /\ Unlink(call[w].chunk, [call EXCEPT ![w].pc = "unindex"])
    /\ UNCHANGED <<current_size, reply, missed>>

DeleteRemove(w) ==
    /\ call[w].pc = "remove"
    /\ LET c == call[w].chunk
       IN  IF Exists(c)
           THEN Unlink(c, [call EXCEPT ![w].pc = "unindex"]) /\ UNCHANGED reply
           ELSE Return(w, IoError) /\ UNCHANGED <<disk, adrift>>
    /\ UNCHANGED <<current_size, missed>>

DeleteUnindex(w) ==
    /\ call[w].pc = "unindex"
    /\ Goto(w, "uncount")
    /\ UNCHANGED <<disk, current_size, adrift, missed>>

DeleteCount(w) ==
    /\ call[w].pc = "uncount"
    /\ current_size' = (current_size - call[w].length) % Width
    /\ Return(w, Ok)
    /\ UNCHANGED <<disk, adrift, missed>>

----------------------------------------------------------------------------
(* Failures.                                                               *)

\* A put that wrote and does not come to count.
Misses == missed < MaxMissed /\ missed' = missed + 1

\* An error of the disk or the index ends a call where it stands; what was
\* written or removed stays so.
CallFails(w) ==
    /\ "io_error" \in Events
    /\ \/ call[w].pc \in {"open", "read", "metadata", "remove", "unindex"} /\ UNCHANGED missed
       \/ call[w].pc \in {"write", "index"} /\ Misses
    /\ Return(w, IoError)
    /\ UNCHANGED <<disk, current_size, adrift>>

----------------------------------------------------------------------------
(* A read that takes too long is dropped where it waits for the disk.  What *)
(* it had asked of the disk (tokio::fs runs it in the blocking pool) is    *)
(* done all the same, sooner or later, but nobody comes back for it: no    *)
(* index, no counting.                                                     *)

TimedOut == [is |-> "timeout"]

GoesAdrift(w) == call[w] \notin adrift /\ adrift' = adrift \cup {call[w]}

Timeout(w) ==
    /\ "timeout" \in Events
    /\ \/ call[w].pc \in {"open", "read", "metadata"} /\ UNCHANGED <<adrift, missed>>
       \/ call[w].pc \in {"open", "write"} /\ GoesAdrift(w) /\ Misses
       \/ /\ call[w].pc = "remove" /\ Cardinality(adrift) < MaxMissed
          /\ GoesAdrift(w)
          /\ UNCHANGED missed
    /\ Return(w, TimedOut)
    /\ UNCHANGED <<disk, current_size>>

AdriftOpen ==
    /\ \E a \in adrift :
         /\ a.pc = "open"
         /\ disk' = Insert(disk, a.chunk, {})
         /\ adrift' = (adrift \ {a}) \cup {Writer(a.chunk)}
    /\ UNCHANGED <<current_size, call, reply, missed>>

AdriftWrite ==
    /\ \E a \in {b \in adrift : b.pc = "write"} : \E units \in NextWrites(a) :
         /\ disk' = Written(a, units)
         /\ adrift' = (adrift \ {a}) \cup
                        (IF units = a.left THEN {} ELSE {[a EXCEPT !.left = @ \ units]})
    /\ UNCHANGED <<current_size, call, reply, missed>>

AdriftRemove ==
    /\ \E a \in adrift :
         /\ a.pc = "remove"
         /\ disk' = Remove(disk, {a.chunk})
         /\ call' = [w \in Workers |-> Unlinked(call[w], a.chunk)]
         /\ adrift' = {Unlinked(b, a.chunk) : b \in adrift \ {a}}
    /\ UNCHANGED <<current_size, reply, missed>>

----------------------------------------------------------------------------
(* The process dies and opens the store again.  No file is ever synced, so *)
(* a power loss may empty any of them.                                     *)

Reopen ==
    /\ current_size' = OnDisk'
    /\ call' = [w \in Workers |-> NoCall] /\ adrift' = {} /\ missed' = 0
    /\ reply' = [w \in Workers |-> NoReply]

Crash ==
    /\ "crash" \in Events
    /\ UNCHANGED disk
    /\ Reopen

PowerLoss ==
    /\ "power_loss" \in Events
    /\ \E lost \in SUBSET DOMAIN disk :
         disk' = [c \in DOMAIN disk |-> IF c \in lost THEN {} ELSE disk[c]]
    /\ Reopen

Step(w) ==
    \/ PutLimit(w) \/ PutOpen(w) \/ PutWrite(w) \/ PutIndex(w) \/ PutCount(w)
    \/ GetRead(w)
    \/ DeleteMetadata(w) \/ DeleteRemove(w) \/ DeleteUnindex(w) \/ DeleteCount(w)
    \/ CallFails(w) \/ Timeout(w)

Next ==
    \/ \E w \in Workers, c \in Chunks : Put(w, c) \/ Get(w, c) \/ Delete(w, c)
    \/ \E w \in Workers : Step(w)
    \/ AdriftOpen \/ AdriftWrite \/ AdriftRemove
    \/ Crash \/ PowerLoss

Spec == Init /\ [][Next]_store

----------------------------------------------------------------------------
(* Properties.                                                             *)

\* When nobody is in a call the counter covers the files, but for a chunk for
\* each put that wrote and was then dropped or failed, whatever raced before
\* and whatever a crash cut short: the limit is never applied to less.  A
\* counter that went below zero counts as negative.
Counted == IF current_size > Width \div 2 THEN current_size - Width ELSE current_size

SizeCoversDisk ==
    (\A w \in Workers : call[w] = NoCall) => OnDisk <= Counted + Size * missed

\* put checks the limit before it writes and counts after, so workers may
\* exceed it, but only by the chunk each of the others has in hand, and by
\* those never counted since open.  What open found beyond that never grows.
OvershootBounded ==
    [][MaxSize > 0 /\ OnDisk' > OnDisk =>
         OnDisk' <= MaxSize + Size * (Cardinality(Workers) - 1 + missed)]_store

\* "CAS rejects writes that would exceed max_size."  Not so (see README.md),
\* and checked by no configuration.
DiskWithinLimit == MaxSize > 0 => OnDisk <= MaxSize
=============================================================================
