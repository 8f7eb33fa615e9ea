------------------------------- MODULE NodeFile -------------------------------
(***************************************************************************)
(* NodeTraceFile (service/pipeline/node_trace_file.h): drain threads       *)
(* append whole gzip members to the node trace.  reserve() gives each a    *)
(* range of a file under a mutex, rolling over to the next file; write_at  *)
(* fills the range outside it, piece by piece.                             *)
(*                                                                         *)
(* A file is named by its place in paths_.  close() is RingSink's, after   *)
(* every writer has returned (module Sink).                                *)
(***************************************************************************)
EXTENDS Integers

CONSTANTS
    Writers,     \* drain threads
    Lengths,     \* lengths of a member
    Rollover,    \* rollover_, 0: never
    MaxFiles,    \* bound: files
    MaxSize,     \* bound: bytes of a file
    OpenFails,   \* the next file may not open
    WriteFails   \* pwrite may fail

ASSUME NodeFileConstants ==
    /\ Lengths \subseteq Nat \ {0}
    /\ Rollover \in Nat
    /\ MaxFiles \in Nat \ {0}
    /\ MaxSize \in Nat
    /\ OpenFails \in BOOLEAN /\ WriteFails \in BOOLEAN

Files == 1 .. MaxFiles

VARIABLES
    current,   \* the file fd_ is open on: paths_.size()
    size,      \* per file: size_ when it was the current one
    members,   \* per file: ranges reserved in it
    fd,        \* per writer: the file of its range
    offset,    \* per writer: the next byte to write
    len,       \* per writer: bytes left to write, 0 between calls
    written,   \* <<file, offset>> of every byte written
    failed     \* and of every byte whose pwrite failed

vars == <<current, size, members, fd, offset, len, written, failed>>

\* open(), and writers between calls
Init ==
    /\ current = 1
    /\ size = [f \in Files |-> 0]
    /\ members = [f \in Files |-> 0]
    /\ fd = [w \in Writers |-> 1]
    /\ offset = [w \in Writers |-> 0]
    /\ len = [w \in Writers |-> 0]
    /\ written = {}
    /\ failed = {}

\* The bytes w has still to write.
Pending(w) == {<<fd[w], o>> : o \in offset[w] .. offset[w] + len[w] - 1}

\* Mutant: the member that crosses the limit goes into the full file.
RollsOverLate(n) == Rollover # 0 /\ size[current] # 0 /\ size[current] > Rollover

\* reserve: the current file holds something and the member would not fit
RollsOver(n) == Rollover # 0 /\ size[current] # 0 /\ size[current] + n > Rollover

\* Mutant: size_ is read outside the lock, before another writer's range.
RangeStale(w, f, n) ==
    /\ fd' = [fd EXCEPT ![w] = f]
    /\ offset' = [offset EXCEPT ![w] = IF size[f] = 0 THEN 0 ELSE size[f] - 1]
    /\ len' = [len EXCEPT ![w] = n]
    /\ size' = [size EXCEPT ![f] = @ + n]
    /\ members' = [members EXCEPT ![f] = @ + 1]

\* Mutant: size_ is advanced too far.
RangeGap(w, f, n) ==
    /\ fd' = [fd EXCEPT ![w] = f]
    /\ offset' = [offset EXCEPT ![w] = size[f]]
    /\ len' = [len EXCEPT ![w] = n]
    /\ size' = [size EXCEPT ![f] = @ + n + 1]
    /\ members' = [members EXCEPT ![f] = @ + 1]

\* reserve: the range of n bytes of file f from its end on
Range(w, f, n) ==
    /\ fd' = [fd EXCEPT ![w] = f]
    /\ offset' = [offset EXCEPT ![w] = size[f]]
    /\ len' = [len EXCEPT ![w] = n]
    /\ size' = [size EXCEPT ![f] = @ + n]
    /\ members' = [members EXCEPT ![f] = @ + 1]

\* write, append_members: reserve a range of the current file
Reserve(w, n) ==
    /\ len[w] = 0
    /\ size[current] + n <= MaxSize
    /\ ~RollsOver(n)
    /\ Range(w, current, n)
    /\ UNCHANGED <<current, written, failed>>

\* Mutant: the next file is written but never made the current one.
ReserveNextKeepsCurrent(w, n) ==
    /\ len[w] = 0
    /\ current < MaxFiles /\ n <= MaxSize
    /\ RollsOver(n)
    /\ Range(w, current + 1, n)
    /\ UNCHANGED <<current, written, failed>>

\* reserve: open the next file and take its first range
ReserveNext(w, n) ==
    /\ len[w] = 0
    /\ current < MaxFiles /\ n <= MaxSize
    /\ RollsOver(n)
    /\ current' = current + 1
    /\ Range(w, current + 1, n)
    /\ UNCHANGED <<written, failed>>

\* reserve: the next file cannot be opened and the member is not written
ReserveFails(w, n) ==
    /\ OpenFails
    /\ len[w] = 0
    /\ RollsOver(n)
    /\ UNCHANGED vars

\* write_at: pwrite writes the first k bytes of what is left
WriteAt(w, k) ==
    /\ k \in 1 .. len[w]
    /\ written' = written \cup {<<fd[w], o>> : o \in offset[w] .. offset[w] + k - 1}
    /\ offset' = [offset EXCEPT ![w] = @ + k]
    /\ len' = [len EXCEPT ![w] = @ - k]
    /\ UNCHANGED <<current, size, members, fd, failed>>

\* write_at: pwrite fails (other than EINTR); the rest of the range stays empty
WriteFailsAt(w) ==
    /\ WriteFails
    /\ len[w] # 0
    /\ failed' = failed \cup Pending(w)
    /\ len' = [len EXCEPT ![w] = 0]
    /\ UNCHANGED <<current, size, members, fd, offset, written>>

Step(w) ==
    \/ \E n \in Lengths : Reserve(w, n) \/ ReserveNext(w, n) \/ ReserveFails(w, n)
    \/ \E k \in 1 .. len[w] : WriteAt(w, k)
    \/ WriteFailsAt(w)

Next == \E w \in Writers : Step(w)

Spec == Init /\ [][Next]_vars

----------------------------------------------------------------------------
(* Properties *)

\* Files are opened one after the other, and nothing is reserved in one that is
\* not open yet.
TypeOK ==
    /\ current \in Files
    /\ size \in [Files -> Nat]
    /\ members \in [Files -> Nat]
    /\ fd \in [Writers -> Files]
    /\ offset \in [Writers -> Nat]
    /\ len \in [Writers -> Nat]
    /\ written \subseteq Files \X Nat
    /\ failed \subseteq Files \X Nat
    /\ \A f \in Files : f > current => size[f] = 0 /\ members[f] = 0

\* "reserves its range under a short lock and then pwrite()s into it without
\* one": no two writers have a byte in common, and none writes over a byte that
\* is written already, so no member is damaged by another.
RangesApart ==
    /\ \A v, w \in Writers : v # w => Pending(v) \cap Pending(w) = {}
    /\ \A w \in Writers : Pending(w) \cap written = {}

\* The members tile each file: a byte below the end is written, being written,
\* or was refused by the file system.
Tiled ==
    \A f \in Files, o \in 0 .. MaxSize :
        o < size[f] => \/ <<f, o>> \in written \cup failed
                       \/ \E w \in Writers : <<f, o>> \in Pending(w)

\* A file outgrows the rollover limit only by its first member, since "no
\* member ever spans two files".
RolloverKept == \A f \in Files : Rollover # 0 /\ size[f] > Rollover => members[f] = 1

=============================================================================
