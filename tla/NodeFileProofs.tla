---------------------------- MODULE NodeFileProofs ----------------------------
(***************************************************************************)
(* The node trace file, for any number of writers, any member lengths and  *)
(* any rollover limit: ranges never overlap, they tile each file, and a    *)
(* file outgrows the limit only by its first member.                       *)
(*                                                                         *)
(* RangesApart is not inductive: a new range starts at size_, which is     *)
(* free only because every range and every byte written lies below it.     *)
(* FileInv adds that, with a range described by its bounds (Has) rather    *)
(* than as a set of tuples.                                                *)
(***************************************************************************)
EXTENDS NodeFile, TLAPS

\* Byte o of file f is one w has still to write.
Has(w, f, o) == fd[w] = f /\ offset[w] <= o /\ o < offset[w] + len[w]

\* Ranges and written bytes lie below the end of their file.
Below ==
    /\ \A w \in Writers : fd[w] <= current /\ offset[w] + len[w] <= size[fd[w]]
    /\ \A f \in Files, o \in Nat : <<f, o>> \in written => o < size[f]

\* RangesApart, byte by byte.
Apart ==
    \A f \in Files, o \in Nat, w \in Writers : Has(w, f, o) =>
        /\ <<f, o>> \notin written
        /\ \A v \in Writers : v # w => ~Has(v, f, o)

\* Tiled, byte by byte.
Covered ==
    \A f \in Files, o \in Nat : o < size[f] =>
        <<f, o>> \in written \cup failed \/ \E w \in Writers : Has(w, f, o)

\* An empty file has no members.
Counted == \A f \in Files : size[f] = 0 => members[f] = 0

FileInv == TypeOK /\ Below /\ Apart /\ Covered /\ Counted /\ RolloverKept

\* The bytes of Pending are the ones Has describes.
LEMMA PendingHas ==
    ASSUME TypeOK, NEW w \in Writers, NEW f \in Files, NEW o \in Nat
    PROVE  <<f, o>> \in Pending(w) <=> Has(w, f, o)
BY DEF TypeOK, Pending, Has

\* Every pending byte is a byte of a file.
LEMMA PendingBytes ==
    ASSUME TypeOK, NEW w \in Writers, NEW b \in Pending(w)
    PROVE  \E f \in Files, o \in Nat : b = <<f, o>>
BY DEF TypeOK, Pending

\* The invariant says what the runs check.
LEMMA FileInvSuffices == FileInv => RangesApart /\ Tiled
<1> SUFFICES ASSUME FileInv PROVE RangesApart /\ Tiled
  OBVIOUS
<1>t. TypeOK
  BY DEF FileInv
<1>1. ASSUME NEW v \in Writers, NEW w \in Writers, v # w
      PROVE  Pending(v) \cap Pending(w) = {}
  <2> SUFFICES ASSUME NEW b \in Pending(v), b \in Pending(w) PROVE FALSE
    OBVIOUS
  <2>1. PICK f \in Files, o \in Nat : b = <<f, o>>
    BY <1>t, PendingBytes
  <2>2. Has(v, f, o) /\ Has(w, f, o)
    BY <1>t, <2>1, PendingHas
  <2> QED
    BY <1>1, <2>2 DEF FileInv, Apart
<1>2. ASSUME NEW w \in Writers PROVE Pending(w) \cap written = {}
  <2> SUFFICES ASSUME NEW b \in Pending(w), b \in written PROVE FALSE
    OBVIOUS
  <2>1. PICK f \in Files, o \in Nat : b = <<f, o>>
    BY <1>t, PendingBytes
  <2>2. Has(w, f, o)
    BY <1>t, <2>1, PendingHas
  <2> QED
    BY <2>1, <2>2 DEF FileInv, Apart
<1>3. ASSUME NEW f \in Files, NEW o \in 0 .. MaxSize, o < size[f]
      PROVE  <<f, o>> \in written \cup failed \/ \E w \in Writers : <<f, o>> \in Pending(w)
  <2>1. o \in Nat
    BY NodeFileConstants
  <2> QED
    BY <1>t, <1>3, <2>1, PendingHas DEF FileInv, Covered
<1> QED
  BY <1>1, <1>2, <1>3 DEF RangesApart, Tiled

\* open() establishes the invariant.
LEMMA FileInvInit == Init => FileInv
<1> SUFFICES ASSUME Init PROVE FileInv
  OBVIOUS
<1> USE NodeFileConstants DEF Init, Files
<1>1. TypeOK
  BY DEF TypeOK
<1>2. Below
  BY DEF Below
<1>3. Apart
  BY DEF Apart, Has
<1>4. Covered /\ Counted /\ RolloverKept
  BY DEF Covered, Counted, RolloverKept
<1> QED
  BY <1>1, <1>2, <1>3, <1>4 DEF FileInv

\* A range of n bytes at the end of file f keeps the parts of the invariant
\* that do not name the current file.
LEMMA RangeKeeps ==
    ASSUME FileInv, NEW w \in Writers, NEW f \in Files, NEW n \in Lengths,
           len[w] = 0, Range(w, f, n), current' \in Files, f <= current', current <= current',
           UNCHANGED <<written, failed>>
    PROVE  TypeOK' /\ Below' /\ Apart' /\ Covered' /\ Counted'
<1>n. n \in Nat /\ n > 0
  BY NodeFileConstants
<1>t. TypeOK
  BY DEF FileInv
<1>f. /\ fd' = [fd EXCEPT ![w] = f]
      /\ offset' = [offset EXCEPT ![w] = size[f]]
      /\ len' = [len EXCEPT ![w] = n]
      /\ size' = [size EXCEPT ![f] = size[f] + n]
      /\ members' = [members EXCEPT ![f] = members[f] + 1]
      /\ written' = written /\ failed' = failed
  BY DEF Range
<1>1. TypeOK'
  <2>1. ASSUME NEW g \in Files, g > current' PROVE size'[g] = 0 /\ members'[g] = 0
    BY <1>f, <1>t, <2>1 DEF TypeOK, Files
  <2> QED
    BY <1>n, <1>f, <1>t, <2>1 DEF TypeOK
<1>s. \A g \in Files : size[g] <= size'[g]
  BY <1>n, <1>f, <1>t DEF TypeOK
<1>2. Below'
  <2>1. ASSUME NEW v \in Writers
        PROVE  fd'[v] <= current' /\ offset'[v] + len'[v] <= size'[fd'[v]]
    <3>1. CASE v = w
      BY <1>n, <1>f, <1>t, <3>1 DEF TypeOK
    <3>2. CASE v # w
      <4>1. fd'[v] = fd[v] /\ offset'[v] = offset[v] /\ len'[v] = len[v]
        BY <1>f, <1>t, <3>2 DEF TypeOK
      <4>2. fd[v] <= current /\ offset[v] + len[v] <= size[fd[v]] /\ fd[v] \in Files
        BY <1>t DEF FileInv, Below, TypeOK
      <4>3. size[fd[v]] <= size'[fd[v]]
        BY <1>s, <4>2
      <4>4. /\ offset[v] \in Nat /\ len[v] \in Nat /\ current \in Int /\ current' \in Int
            /\ fd[v] \in Int /\ size[fd[v]] \in Nat /\ size'[fd[v]] \in Nat
        BY <1>t, <1>1, <4>2 DEF TypeOK, Files
      <4> QED
        BY <4>1, <4>2, <4>3, <4>4
    <3> QED
      BY <3>1, <3>2
  <2>2. ASSUME NEW g \in Files, NEW o \in Nat, <<g, o>> \in written' PROVE o < size'[g]
    BY <1>f, <1>s, <1>t, <1>1, <2>2 DEF FileInv, Below, TypeOK
  <2> QED
    BY <2>1, <2>2 DEF Below
\* w's range is the new one; the others' are unchanged and lie below it.
<1>h. ASSUME NEW v \in Writers, NEW g \in Files, NEW o \in Nat
      PROVE  /\ v # w => (Has(v, g, o)' <=> Has(v, g, o))
             /\ Has(v, g, o) => o < size[g]
             /\ Has(w, g, o)' <=> g = f /\ size[f] <= o /\ o < size[f] + n
             /\ ~Has(w, g, o)
  <2>1. v # w => (Has(v, g, o)' <=> Has(v, g, o))
    BY <1>f, <1>t DEF TypeOK, Has
  <2>2. Has(v, g, o) => o < size[g]
    BY <1>t DEF FileInv, Below, TypeOK, Has
  <2>3. Has(w, g, o)' <=> g = f /\ size[f] <= o /\ o < size[f] + n
    BY <1>f, <1>t, <1>n DEF TypeOK, Has
  <2>4. ~Has(w, g, o)
    BY <1>t DEF TypeOK, Has
  <2> QED
    BY <2>1, <2>2, <2>3, <2>4
<1>3. Apart'
  <2> SUFFICES ASSUME NEW g \in Files, NEW o \in Nat, NEW v \in Writers, Has(v, g, o)'
               PROVE  /\ <<g, o>> \notin written
                      /\ \A u \in Writers : u # v => ~Has(u, g, o)'
    BY <1>f DEF Apart
  <2>1. CASE v = w
    <3>1. g = f /\ size[f] <= o
      BY <1>h, <2>1
    <3>2. size[g] \in Nat
      BY <1>t DEF TypeOK
    <3>3. <<g, o>> \notin written
      BY <3>1, <3>2 DEF FileInv, Below
    <3>4. ASSUME NEW u \in Writers, u # v PROVE ~Has(u, g, o)'
      BY <1>h, <2>1, <3>1, <3>2, <3>4
    <3> QED
      BY <3>3, <3>4
  <2>2. CASE v # w
    <3>1. Has(v, g, o) /\ o < size[g]
      BY <1>h, <2>2
    <3>2. size[g] \in Nat
      BY <1>t DEF TypeOK
    <3>3. ASSUME NEW u \in Writers, u # v PROVE ~Has(u, g, o)'
      <4>1. CASE u = w
        BY <1>h, <3>1, <3>2, <4>1
      <4>2. CASE u # w
        BY <1>h, <3>1, <3>3, <4>2 DEF FileInv, Apart
      <4> QED
        BY <4>1, <4>2
    <3> QED
      BY <3>1, <3>3 DEF FileInv, Apart
  <2> QED
    BY <2>1, <2>2
<1>4. Covered'
  <2> SUFFICES ASSUME NEW g \in Files, NEW o \in Nat, o < size'[g]
               PROVE  \/ <<g, o>> \in written \cup failed
                      \/ \E v \in Writers : Has(v, g, o)'
    BY <1>f DEF Covered
  <2>1. CASE o < size[g]
    <3>1. CASE <<g, o>> \in written \cup failed
      BY <3>1
    <3>2. CASE \E v \in Writers : Has(v, g, o)
      BY <1>h, <3>2
    <3> QED
      BY <2>1, <3>1, <3>2 DEF FileInv, Covered
  <2>2. CASE ~(o < size[g])
    <3>1. g = f /\ size[f] <= o /\ o < size[f] + n
      BY <1>f, <1>t, <1>n, <2>2 DEF TypeOK
    <3> QED
      BY <1>h, <3>1
  <2> QED
    BY <2>1, <2>2
<1>5. Counted'
  BY <1>f, <1>t, <1>n DEF FileInv, Counted, TypeOK
<1> QED
  BY <1>1, <1>2, <1>3, <1>4, <1>5
\* reserve keeps the rollover limit: it adds to a file only if the member fits
\* or the file is empty.
LEMMA RangeKeepsRollover ==
    ASSUME FileInv, NEW w \in Writers, NEW f \in Files, NEW n \in Lengths, Range(w, f, n),
           Rollover # 0 /\ size[f] + n > Rollover => members[f] = 0
    PROVE  RolloverKept'
<1> SUFFICES ASSUME NEW g \in Files, Rollover # 0, size'[g] > Rollover PROVE members'[g] = 1
  BY DEF RolloverKept
<1>t. TypeOK /\ n \in Nat
  BY NodeFileConstants DEF FileInv
<1>1. CASE g = f
  BY <1>t, <1>1 DEF TypeOK, Range
<1>2. CASE g # f
  BY <1>t, <1>2 DEF TypeOK, Range, FileInv, RolloverKept
<1> QED
  BY <1>1, <1>2

\* write_at writing k bytes of w's range, or giving the rest of it up: w's
\* range shrinks by the bytes that become written or failed.
LEMMA ShrinkKeeps ==
    ASSUME FileInv, NEW w \in Writers, NEW k \in Nat, k <= len[w],
           offset' = [offset EXCEPT ![w] = @ + k] \/ (k = len[w] /\ offset' = offset),
           len' = [len EXCEPT ![w] = @ - k],
           UNCHANGED <<current, size, members, fd>>,
           NEW B, B = {<<fd[w], o>> : o \in offset[w] .. offset[w] + k - 1},
           \/ written' = written \cup B /\ failed' = failed
           \/ written' = written /\ failed' = failed \cup B
    PROVE  FileInv'
<1>t. TypeOK
  BY DEF FileInv
<1>b. ASSUME NEW g \in Files, NEW o \in Nat
      PROVE  <<g, o>> \in B <=> g = fd[w] /\ offset[w] <= o /\ o < offset[w] + k
  BY <1>t DEF TypeOK
<1>B. B \subseteq Files \X Nat
  BY <1>t DEF TypeOK
<1>1. TypeOK'
  BY <1>t, <1>B DEF TypeOK
<1>h. ASSUME NEW v \in Writers, NEW g \in Files, NEW o \in Nat
      PROVE  /\ v # w => (Has(v, g, o)' <=> Has(v, g, o))
             /\ Has(w, g, o)' <=> Has(w, g, o) /\ <<g, o>> \notin B
             /\ <<g, o>> \in B => Has(w, g, o)
             /\ Has(v, g, o) => o < size[g]
  <2>1. v # w => (Has(v, g, o)' <=> Has(v, g, o))
    BY <1>t DEF TypeOK, Has
  <2>2. <<g, o>> \in B => Has(w, g, o)
    BY <1>t, <1>b DEF TypeOK, Has
  <2>3. Has(w, g, o)' <=> Has(w, g, o) /\ <<g, o>> \notin B
    BY <1>t, <1>b DEF TypeOK, Has
  <2>4. Has(v, g, o) => o < size[g]
    BY <1>t DEF FileInv, Below, TypeOK, Has
  <2> QED
    BY <2>1, <2>2, <2>3, <2>4
<1>2. Below'
  <2>1. ASSUME NEW v \in Writers PROVE fd'[v] <= current' /\ offset'[v] + len'[v] <= size'[fd'[v]]
    BY <1>t DEF FileInv, Below, TypeOK
  <2>2. ASSUME NEW g \in Files, NEW o \in Nat, <<g, o>> \in written' PROVE o < size'[g]
    BY <1>h, <2>2 DEF FileInv, Below
  <2> QED
    BY <2>1, <2>2 DEF Below
<1>3. Apart'
  <2> SUFFICES ASSUME NEW g \in Files, NEW o \in Nat, NEW v \in Writers, Has(v, g, o)'
               PROVE  <<g, o>> \notin written' /\ \A u \in Writers : u # v => ~Has(u, g, o)'
    BY DEF Apart
  <2>1. Has(v, g, o) /\ \A u \in Writers : Has(u, g, o)' => Has(u, g, o)
    BY <1>h
  <2>2. <<g, o>> \notin written /\ \A u \in Writers : u # v => ~Has(u, g, o)
    BY <2>1 DEF FileInv, Apart
  <2>3. <<g, o>> \notin B
    BY <1>h, <2>1, <2>2
  <2> QED
    BY <2>1, <2>2, <2>3
<1>4. Covered'
  <2> SUFFICES ASSUME NEW g \in Files, NEW o \in Nat, o < size[g]
               PROVE  \/ <<g, o>> \in written' \cup failed'
                      \/ \E v \in Writers : Has(v, g, o)'
    BY DEF Covered
  <2>1. CASE <<g, o>> \in written \cup failed \cup B
    BY <2>1
  <2>2. CASE <<g, o>> \notin B /\ \E v \in Writers : Has(v, g, o)
    BY <1>h, <2>2
  <2> QED
    BY <2>1, <2>2 DEF FileInv, Covered
<1>5. Counted' /\ RolloverKept'
  BY DEF FileInv, Counted, RolloverKept
<1> QED
  BY <1>1, <1>2, <1>3, <1>4, <1>5 DEF FileInv

\* Every step of a writer keeps the invariant.
LEMMA FileInvNext == FileInv /\ [Next]_vars => FileInv'
<1> SUFFICES ASSUME FileInv, [Next]_vars PROVE FileInv'
  OBVIOUS
<1>t. TypeOK
  BY DEF FileInv
<1>1. ASSUME NEW w \in Writers, NEW n \in Lengths, Reserve(w, n) PROVE FileInv'
  <2>1. current \in Files /\ current' = current /\ len[w] = 0 /\ Range(w, current, n)
    BY <1>1, <1>t DEF Reserve, TypeOK
  <2>2. Rollover # 0 /\ size[current] + n > Rollover => members[current] = 0
    <3> SUFFICES ASSUME Rollover # 0, size[current] + n > Rollover PROVE members[current] = 0
      OBVIOUS
    <3>1. size[current] = 0
      BY <1>1 DEF Reserve, RollsOver
    <3> QED
      BY <2>1, <3>1 DEF FileInv, Counted
  <2>3. RolloverKept'
    BY <2>1, <2>2, RangeKeepsRollover
  <2>4. UNCHANGED <<written, failed>> /\ current <= current'
    BY <1>1, <1>t DEF Reserve, TypeOK, Files
  <2> QED
    BY <2>1, <2>3, <2>4, RangeKeeps DEF FileInv
<1>2. ASSUME NEW w \in Writers, NEW n \in Lengths, ReserveNext(w, n) PROVE FileInv'
  <2>1. /\ current + 1 \in Files /\ current' = current + 1 /\ len[w] = 0
        /\ Range(w, current + 1, n)
        /\ current <= current' /\ UNCHANGED <<written, failed>>
    BY <1>2, <1>t, NodeFileConstants DEF ReserveNext, TypeOK, Files
  <2>2. members[current + 1] = 0
    BY <1>t, <2>1 DEF TypeOK, Files
  <2>3. RolloverKept'
    BY <2>1, <2>2, RangeKeepsRollover
  <2>4. current' <= current' /\ current' \in Files
    BY <2>1 DEF Files
  <2> QED
    BY <2>1, <2>3, <2>4, RangeKeeps DEF FileInv
<1>3. ASSUME NEW w \in Writers, NEW k \in 1 .. len[w], WriteAt(w, k) PROVE FileInv'
  <2>1. k \in Nat /\ k <= len[w]
    BY <1>t DEF TypeOK
  <2> QED
    BY <1>3, <2>1, ShrinkKeeps DEF WriteAt
<1>4. ASSUME NEW w \in Writers, WriteFailsAt(w) PROVE FileInv'
  <2>1. len[w] \in Nat /\ len[w] <= len[w] /\ len[w] - len[w] = 0
    BY <1>t DEF TypeOK
  <2>2. len' = [len EXCEPT ![w] = @ - len[w]]
    BY <1>4, <2>1 DEF WriteFailsAt
  <2> QED
    BY <1>4, <2>1, <2>2, ShrinkKeeps DEF WriteFailsAt, Pending
<1>5. CASE UNCHANGED vars
  BY <1>5 DEF vars, FileInv, TypeOK, Below, Apart, Has, Covered, Counted, RolloverKept
<1>6. ASSUME NEW w \in Writers, NEW n \in Lengths, ReserveFails(w, n) PROVE FileInv'
  BY <1>5, <1>6 DEF ReserveFails
<1> QED
  BY <1>1, <1>2, <1>3, <1>4, <1>5, <1>6 DEF Next, Step

\* The invariant holds throughout.
LEMMA FileInvAlways == Spec => []FileInv
BY FileInvInit, FileInvNext, PTL DEF Spec

\* However many drain threads write chunks of whatever length, and whichever
\* writes or files fail, no writer touches a byte that another has reserved or
\* that is written already: pwrite() needs no lock.
THEOREM NoOverlap == Spec => []RangesApart
<1>1. FileInv => RangesApart
  BY FileInvSuffices
<1> QED
  BY FileInvAlways, <1>1, PTL

\* Every byte below the end of a file belongs to a range that is written, being
\* written, or refused by the file system: reserve() leaves no gap.
THEOREM NoGap == Spec => []Tiled
<1>1. FileInv => Tiled
  BY FileInvSuffices
<1> QED
  BY FileInvAlways, <1>1, PTL

\* A file is longer than the rollover limit only if it holds a single member.
THEOREM LimitKept == Spec => []RolloverKept
<1>1. FileInv => RolloverKept
  BY DEF FileInv
<1> QED
  BY FileInvAlways, <1>1, PTL

\* The files are opened in order: whatever fails, no byte is ever reserved in a
\* file past the current one.
THEOREM Typing == Spec => []TypeOK
<1>1. FileInv => TypeOK
  BY DEF FileInv
<1> QED
  BY FileInvAlways, <1>1, PTL

=============================================================================
