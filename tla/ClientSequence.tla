--------------------------- MODULE ClientSequence ---------------------------
(***************************************************************************)
(* The request numbers of RSL clients over UDP                             *)
(* (lion-server/src/bin/client.rs): a worker reserves a range of numbers   *)
(* in a checkpoint file that all workers of all processes of the machine   *)
(* share, one file-system call at a time, and then numbers its requests.   *)
(*                                                                         *)
(* A worker may be killed between any two calls, and the next process that *)
(* takes its endpoint starts from the file.  In a power failure a rename   *)
(* whose directory was not synced may be lost, and a file that was not     *)
(* synced may be left unreadable.                                          *)
(***************************************************************************)
EXTENDS Naturals

CONSTANTS
    Workers,
    None,
    Floors,             \* readings of the clock, which may go back
    SequenceRange,      \* SEQUENCE_RANGE
    MaxSequence         \* the largest request number (2^64 - 1 in the code)

ASSUME ClientSequenceAssumption ==
    /\ None \notin Workers
    /\ Floors \subseteq Nat
    /\ SequenceRange \in Nat \ {0}
    /\ MaxSequence \in Nat

VARIABLES
    pc,             \* where a worker is
    lock,           \* the holder of rsl-sequence.lock
    value, end,     \* a worker's RequestSequence
    next_file,      \* rsl-sequence.next: the number and whether it is synced
    checkpoint,     \* rsl-sequence as processes see it; 0 when there is none
    disk,           \* rsl-sequence as the synced directory has it
    top,            \* ghost: the end of the highest range that a worker was given
    uses            \* ghost: how many requests had a number

vars == <<pc, lock, value, end, next_file, checkpoint, disk, top, uses>>

\* What parse::<u64> does not accept.
Invalid == MaxSequence + 1

Max2(m, n) == IF m >= n THEN m ELSE n

Init ==
    /\ pc = [w \in Workers |-> "start"]
    /\ lock = None
    /\ value = [w \in Workers |-> 0]
    /\ end = [w \in Workers |-> 0]
    /\ next_file = [number |-> 0, synced |-> TRUE]
    /\ checkpoint = [number |-> 0, synced |-> TRUE]
    /\ disk = [number |-> 0, synced |-> TRUE]
    /\ top = 0
    /\ uses = [n \in 0 .. MaxSequence |-> 0]

lock_sequence(w) ==
    /\ pc[w] = "start"
    /\ lock = None
    /\ lock' = w
    /\ pc' = [pc EXCEPT ![w] = "locked"]
    /\ UNCHANGED <<value, end, next_file, checkpoint, disk, top, uses>>

\* A checkpoint that cannot be parsed, or too few numbers left, is an error that
\* ends the run (stop).
read_checkpoint(w) ==
    /\ pc[w] = "locked"
    /\ checkpoint.number # Invalid
    /\ \E floor \in Floors :
          LET first == IF checkpoint.number = 0 THEN Max2(floor, 1) ELSE Max2(checkpoint.number, floor) IN
          /\ first + SequenceRange <= MaxSequence
          /\ value' = [value EXCEPT ![w] = first]
          /\ end' = [end EXCEPT ![w] = first + SequenceRange]
    /\ pc' = [pc EXCEPT ![w] = "read"]
    /\ UNCHANGED <<lock, next_file, checkpoint, disk, top, uses>>

write_next(w) ==
    /\ pc[w] = "read"
    /\ next_file' = [number |-> end[w], synced |-> FALSE]
    /\ pc' = [pc EXCEPT ![w] = "written"]
    /\ UNCHANGED <<lock, value, end, checkpoint, disk, top, uses>>

sync_next(w) ==
    /\ pc[w] = "written"
    /\ next_file' = [next_file EXCEPT !.synced = TRUE]
    /\ pc' = [pc EXCEPT ![w] = "synced"]
    /\ UNCHANGED <<lock, value, end, checkpoint, disk, top, uses>>

rename_next(w) ==
    /\ pc[w] = "synced"
    /\ checkpoint' = next_file
    /\ pc' = [pc EXCEPT ![w] = "renamed"]
    /\ UNCHANGED <<lock, value, end, next_file, disk, top, uses>>

\* Mutant: the directory is not synced.
sync_directory_skip(w) ==
    /\ pc[w] = "renamed"
    /\ lock' = None
    /\ pc' = [pc EXCEPT ![w] = "ready"]
    /\ top' = Max2(top, end[w])
    /\ UNCHANGED <<value, end, next_file, checkpoint, disk, uses>>

\* The range is the worker's; the lock is dropped with the file.
sync_directory(w) ==
    /\ pc[w] = "renamed"
    /\ disk' = checkpoint
    /\ lock' = None
    /\ pc' = [pc EXCEPT ![w] = "ready"]
    /\ top' = Max2(top, end[w])
    /\ UNCHANGED <<value, end, next_file, checkpoint, uses>>

\* Mutant: the number that ends the range is still used.
advance_past_end(w) ==
    /\ pc[w] = "ready"
    /\ uses' = [uses EXCEPT ![value[w]] = @ + 1]
    /\ value' = [value EXCEPT ![w] = @ + 1]
    /\ pc' = [pc EXCEPT ![w] = IF value[w] = end[w] THEN "start" ELSE "ready"]
    /\ UNCHANGED <<lock, end, next_file, checkpoint, disk, top>>

\* A request has the worker's number, however often it is sent again; then the
\* sequence advances, and at its end a new range is reserved.
advance(w) ==
    /\ pc[w] = "ready"
    /\ uses' = [uses EXCEPT ![value[w]] = @ + 1]
    /\ value' = [value EXCEPT ![w] = @ + 1]
    /\ pc' = [pc EXCEPT ![w] = IF value[w] + 1 = end[w] THEN "start" ELSE "ready"]
    /\ UNCHANGED <<lock, end, next_file, checkpoint, disk, top>>

\* The worker's process ends, by itself or not; another one takes its endpoint.
stop(w) ==
    /\ pc[w] # "start"
    /\ pc' = [pc EXCEPT ![w] = "start"]
    /\ lock' = IF lock = w THEN None ELSE lock
    /\ UNCHANGED <<value, end, next_file, checkpoint, disk, top, uses>>

\* What a file is after a power failure.
AfterFailure(file) == IF file.synced THEN file ELSE [number |-> Invalid, synced |-> TRUE]

power_failure ==
    /\ pc' = [w \in Workers |-> "start"]
    /\ lock' = None
    /\ \E file \in {disk, checkpoint} :
          /\ checkpoint' = AfterFailure(file)
          /\ disk' = AfterFailure(file)
    /\ UNCHANGED <<value, end, next_file, top, uses>>

Next ==
    \/ \E w \in Workers :
          \/ lock_sequence(w) \/ read_checkpoint(w)
          \/ write_next(w) \/ sync_next(w) \/ rename_next(w) \/ sync_directory(w)
          \/ advance(w) \/ stop(w)
    \/ power_failure

Spec == Init /\ [][Next]_vars
-----------------------------------------------------------------------------
Files == [number : 0 .. MaxSequence, synced : BOOLEAN]

Locations == {"start", "locked", "read", "written", "synced", "renamed", "ready"}

TypeOK ==
    /\ pc \in [Workers -> Locations]
    /\ lock \in Workers \cup {None}
    /\ value \in [Workers -> 0 .. MaxSequence]
    /\ end \in [Workers -> 0 .. MaxSequence]
    /\ next_file \in Files
    /\ checkpoint \in Files
    /\ disk \in Files
    /\ top \in 0 .. MaxSequence
    /\ uses \in [0 .. MaxSequence -> Nat]

\* No two requests have the same number, whichever workers, runs, crashes and
\* readings of the clock lie between them.
NumbersUsedOnce == \A n \in 0 .. MaxSequence : uses[n] <= 1

\* A range that is handed out lies above every range handed out before: a later
\* owner of an endpoint never numbers its requests below an earlier one.
RangesIncrease ==
    [][\A w \in Workers : pc[w] = "renamed" /\ pc'[w] = "ready" => top <= value[w]]_vars

\* No crash leaves a checkpoint that the next run refuses to read.
CheckpointReadable == checkpoint.number # Invalid /\ disk.number # Invalid

Inside == {"locked", "read", "written", "synced", "renamed"}

\* Worker w's range is disjoint from worker v's.
Apart(v, w) == end[v] <= value[w] \/ end[w] <= value[v]

\* The reservation: only the holder of the lock is inside it, and what it is
\* about to take lies above all that was handed out.
ReservationInv ==
    /\ TypeOK
    /\ checkpoint.synced /\ disk.synced
    /\ top <= checkpoint.number /\ top <= disk.number
    /\ \A w \in Workers :
          /\ pc[w] \in Inside => lock = w
          /\ pc[w] \in Inside \ {"locked"} => top <= value[w] /\ value[w] < end[w]
          /\ pc[w] \in {"written", "synced"} => next_file.number = end[w]
          /\ pc[w] = "synced" => next_file.synced
          /\ pc[w] = "renamed" => checkpoint.number = end[w]

\* The use: what the ready workers still have is unused and theirs alone.
UseInv ==
    /\ \A n \in 0 .. MaxSequence : uses[n] <= 1 /\ (top <= n => uses[n] = 0)
    /\ \A w \in Workers : pc[w] = "ready" =>
          /\ value[w] < end[w] /\ end[w] <= top
          /\ \A n \in value[w] .. end[w] - 1 : uses[n] = 0
    /\ \A v, w \in Workers : v # w /\ pc[v] = "ready" /\ pc[w] = "ready" => Apart(v, w)

\* The inductive invariant.
IInv == ReservationInv /\ UseInv
=============================================================================
