---------------------------- MODULE FdTableProofs ----------------------------
(***************************************************************************)
(* The safety properties of FdTable, for any number of threads, descriptor *)
(* numbers, FILE* and files.                                               *)
(***************************************************************************)
EXTENDS FdTable, TLAPS

\* Calls that take a number or a FILE* over for themselves.
Changing == Calls \ {"none", "look"}

\* The points of each call, and the operands it has there.
CallInv ==
    \A t \in Threads :
        /\ pc[t] = "idle" => fd[t] = NoFd /\ fh[t] = NoStream
        /\ call[t] \in {"look", "pclose"} => pc[t] = "real"
        /\ call[t] = "closedir" => pc[t] \in {"real", "late"}
        /\ call[t] \in {"close", "fclose"} => pc[t] \in {"untrack", "real"}
        /\ call[t] \in {"open", "fopen", "popen", "fdopen", "dup2"} => pc[t] \in {"real", "track"}
        /\ call[t] = "freopen" => pc[t] \in {"untrack", "real", "track"}
        /\ call[t] \in {"open", "fopen", "popen"} /\ pc[t] = "real" => fd[t] = NoFd
        /\ call[t] \in {"open", "fopen", "popen", "fdopen"} /\ pc[t] = "real" => fh[t] = NoStream
        /\ call[t] \in {"open", "dup2", "close", "closedir"} => fh[t] = NoStream
        /\ call[t] \in {"fclose", "pclose", "freopen"} => fh[t] \in Streams
        /\ call[t] \in {"fopen", "popen", "fdopen"} /\ pc[t] = "track" => fh[t] \in Streams
        /\ pc[t] = "track" \/ call[t] \in {"look", "fdopen", "dup2", "close", "closedir"} =>
              fd[t] \in Fds
        /\ call[t] \in {"open", "fopen", "popen", "fdopen", "dup2", "freopen"} =>
              file[t] \in Files
        /\ InVforkChild(t) => call[t] \in {"none", "open", "dup2", "close"}

\* Thread t of the process acts on number d.
Holds(t, d) == ~InVforkChild(t) /\ fd[t] = d /\ pc[t] # "late"

\* What the application's discipline comes to: a number in use is open,
HeldOpen == \A t \in Threads, d \in Fds : Holds(t, d) => kern[d] # NoFile

\* only look-ups share one,
HeldAlone ==
    \A t, u \in Threads, d \in Fds :
        Holds(t, d) /\ Holds(u, d) /\ t # u => call[t] = "look"

\* a call on a FILE* acts on its number,
FhOfFd == \A t \in Threads : fh[t] \in Streams => stream[fh[t]] = fd[t] /\ fd[t] \in Fds

\* a call that changes a number knows the FILE* it has,
FdOfFh ==
    \A t \in Threads, d \in Fds, s \in Streams :
        Holds(t, d) /\ call[t] \in Changing /\ stream[s] = d => fh[t] = s

\* and a FILE* is on an open number, of its own.
StreamOwn ==
    /\ \A s \in Streams : stream[s] # NoFd => kern[stream[s]] # NoFile
    /\ \A r, s \in Streams : stream[r] = stream[s] /\ stream[s] # NoFd => r = s

HoldInv == HeldOpen /\ HeldAlone /\ FhOfFd /\ FdOfFh /\ StreamOwn

\* Number d has its file's hash, or none, but for the exceptions.
Sound(d) == d >= MaxFd \/ d \in off \/ tracked_fd[d] = HashOf(kern[d])
Clear(d) == d >= MaxFd \/ d \in off \/ tracked_fd[d] = NoHash

\* What a call under way knows of the entries of its number and its FILE*.
TableOK(t) ==
    /\ pc[t] = "track" \/ call[t] = "fdopen" => kern[fd[t]] = file[t]
    /\ call[t] \in {"fopen", "popen"} => ~Mistaken(t)
    /\ call[t] \in {"fdopen", "dup2"} /\ pc[t] = "real" => Sound(fd[t])
    /\ call[t] = "fdopen" /\ pc[t] = "real" /\ Mistaken(t) => fd[t] >= MaxFd \/ fd[t] \in off
    /\ call[t] \in {"close", "fclose", "freopen"} /\ pc[t] = "real" => Clear(fd[t])
    /\ call[t] \in {"closedir", "pclose"} /\ pc[t] = "real" /\ hash[t] = NoHash => Clear(fd[t])
    /\ call[t] \in {"fclose", "freopen"} /\ pc[t] = "real" => tracked_fh[fh[t]] = NoHash
    /\ call[t] = "pclose" /\ hash[t] = NoHash => tracked_fh[fh[t]] = NoHash
    /\ call[t] = "freopen" /\ hash[t] = NoHash /\ Mistaken(t) =>
          pc[t] # "untrack" /\ (fd[t] >= MaxFd \/ fd[t] \in off) /\ fh[t] \in off

\* A FILE* without a hash, on a traced file, has a number that is an exception.
Pair(s) ==
    stream[s] # NoFd /\ ~Busy(stream[s]) /\ tracked_fh[s] = NoHash =>
        stream[s] >= MaxFd \/ stream[s] \in off \/ kern[stream[s]] \notin Traced

\* The two parts of TableAgrees, and CallNamesItsFile for one thread.
AgreeFd(d) == Busy(d) \/ d \in off \/ tracked_fd[d] = HashOf(kern[d])
AgreeFh(s) ==
    \/ \E t \in Threads : fh[t] = s /\ call[t] # "look"
    \/ s \in off
    \/ tracked_fh[s] = IF stream[s] = NoFd THEN NoHash ELSE HashOf(kern[stream[s]])
Names(t)   == call[t] = "look" /\ ~bad[t] => hash[t] = HashOf(kern[fd[t]])

CallTables == \A t \in Threads : ~InVforkChild(t) => TableOK(t)
Tables == /\ \A d \in 0 .. MaxFd - 1 : AgreeFd(d)
          /\ \A s \in Streams : AgreeFh(s) /\ Pair(s)

Inv == TypeOK /\ CallInv /\ HoldInv /\ CallTables /\ Tables /\ CallNamesItsFile

-----------------------------------------------------------------------------
\* A call changes one number of the process, or of its vfork child.
LEMMA SetKernFacts ==
    ASSUME TypeOK, NEW t \in Threads, NEW d, NEW f \in Files \cup {NoFile},
           SetKern(t, [Kern(t) EXCEPT ![d] = f])
    PROVE  /\ kern' \in [Fds -> Files \cup {NoFile}] /\ ckern' \in [Fds -> Files \cup {NoFile}]
           /\ kern' = IF InVforkChild(t) THEN kern ELSE [kern EXCEPT ![d] = f]
<1>1. CASE InVforkChild(t)
  BY <1>1 DEF SetKern, Kern, TypeOK
<1>2. CASE ~InVforkChild(t)
  BY <1>2 DEF SetKern, Kern, TypeOK
<1> QED
  BY <1>1, <1>2

\* Beginning a wrapper with operands in range keeps the types.
LEMMA StartType ==
    ASSUME TypeOK, NEW t \in Threads, NEW next \in {"untrack", "real"}, NEW c \in Calls \ {"none"},
           NEW d \in Fds \cup {NoFd}, NEW s \in Streams \cup {NoStream},
           NEW f \in Files \cup {NoFile}, NEW h \in Hashes, Start(t, next, c, d, s, f, h)
    PROVE  TypeOK'
<1>1. bad' \in [Threads -> BOOLEAN]
  <2>1. (c = "look" /\ Wrong(t, d, s)) \in BOOLEAN
    BY Zenon
  <2>2. [bad EXCEPT ![t] = c = "look" /\ Wrong(t, d, s)] \in [Threads -> BOOLEAN]
    BY <2>1, Zenon DEF TypeOK
  <2> QED
    BY <2>2 DEF Start
<1>2. UNCHANGED <<kern, ckern, stream, pipes, tracked_fd, tracked_fh, vchild, off>>
  BY DEF Start, kernel, tables
<1>3. pc' = [pc EXCEPT ![t] = next] /\ call' = [call EXCEPT ![t] = c]
  BY DEF Start
<1>4. /\ fd' = [fd EXCEPT ![t] = d] /\ fh' = [fh EXCEPT ![t] = s]
      /\ file' = [file EXCEPT ![t] = f] /\ hash' = [hash EXCEPT ![t] = h]
  BY DEF Start
<1> QED
  BY <1>1, <1>2, <1>3, <1>4 DEF TypeOK

\* A look-up gives a hash.
LEMMA HashTypes ==
    ASSUME TypeOK, NEW d \in Fds
    PROVE  /\ IsTraced(d) \in Hashes
           /\ \A t : Kern(t)[d] \in Files \cup {NoFile}
BY FdConstants DEF TypeOK, IsTraced, Hashes, Fds, Kern

\* The hash of a file.
LEMMA HashOfType == \A f : HashOf(f) \in Hashes
BY DEF HashOf, Hashes

\* The operands of a thread that has returned are in range.
LEMMA ReturnType ==
    ASSUME TypeOK, NEW t \in Threads, NEW a, Return(t, a)
    PROVE  /\ pc' \in [Threads -> {"idle", "untrack", "real", "track", "late"}]
           /\ call' \in [Threads -> Calls]
           /\ fd' \in [Threads -> Fds \cup {NoFd}] /\ fh' \in [Threads -> Streams \cup {NoStream}]
           /\ file' \in [Threads -> Files \cup {NoFile}] /\ hash' \in [Threads -> Hashes]
           /\ bad' \in [Threads -> BOOLEAN]
           /\ \A u \in Threads : pc'[u] = "idle" <=> call'[u] = "none"
<1>1. [bad EXCEPT ![t] = FALSE] \in [Threads -> BOOLEAN]
  BY Zenon DEF TypeOK
<1> QED
  BY <1>1 DEF Return, Goto, TypeOK, Calls, Hashes

\* So are those of a thread that goes on to track what it got.
LEMMA GotType ==
    ASSUME TypeOK, NEW t \in Threads, NEW d \in Fds \cup {NoFd}, NEW s \in Streams \cup {NoStream},
           Got(t, d, s)
    PROVE  /\ pc' \in [Threads -> {"idle", "untrack", "real", "track", "late"}]
           /\ call' \in [Threads -> Calls]
           /\ fd' \in [Threads -> Fds \cup {NoFd}] /\ fh' \in [Threads -> Streams \cup {NoStream}]
           /\ file' \in [Threads -> Files \cup {NoFile}] /\ hash' \in [Threads -> Hashes]
           /\ bad' \in [Threads -> BOOLEAN]
           /\ \A u \in Threads : pc'[u] = "idle" <=> call'[u] = "none"
<1>1. CASE hash[t] = NoHash
  BY <1>1, ReturnType DEF Got
<1>2. CASE hash[t] # NoHash
  BY <1>2 DEF Got, Goto, TypeOK
<1> QED
  BY <1>1, <1>2

\* Every step keeps the types.
LEMMA TypeNext ==
    ASSUME TypeOK, CallInv, [Next]_vars
    PROVE  TypeOK'
<1> USE FdConstants DEF kernel, tables, op, TypeOK, Fds, NoFd, Files, Hashes, Calls, CallInv,
      Entries
<1>1. ASSUME NEW t \in Threads, DescriptorCall(t) PROVE TypeOK'
  BY <1>1, StartType, HashTypes, HashOfType DEF DescriptorCall
<1>2. ASSUME NEW t \in Threads, AioCall(t) PROVE TypeOK'
  BY <1>2, StartType, HashTypes, HashOfType DEF AioCall, TracedAioFd
<1>3. ASSUME NEW t \in Threads, StreamCall(t) PROVE TypeOK'
  BY <1>3, StartType, HashTypes, HashOfType DEF StreamCall, MayUseFh
<1>4. ASSUME NEW t \in Threads, LookDone(t) PROVE TypeOK'
  BY <1>4, ReturnType DEF LookDone
<1>5. ASSUME NEW t \in Threads, Open(t) PROVE TypeOK'
  BY <1>5, StartType, HashOfType DEF Open
<1>6. ASSUME NEW t \in Threads, OpenAt(t) PROVE TypeOK'
  BY <1>6, StartType, HashTypes, HashOfType DEF OpenAt, MayUse
<1>7. ASSUME NEW t \in Threads, Dup(t) PROVE TypeOK'
  BY <1>7, StartType, HashTypes, HashOfType DEF Dup, MayUse
<1>8. ASSUME NEW t \in Threads, Fopen(t) PROVE TypeOK'
  BY <1>8, StartType, HashOfType DEF Fopen
<1>9. ASSUME NEW t \in Threads, RealOpen(t) PROVE TypeOK'
  <2> PICK d \in Fds, s \in Streams \cup {NoStream} :
         /\ SetKern(t, [Kern(t) EXCEPT ![d] = file[t]])
         /\ call[t] # "open" => s # NoStream
         /\ stream' = [x \in Streams |-> IF x = s THEN d ELSE stream[x]]
         /\ pipes' = IF call[t] = "popen" THEN pipes \cup {s} ELSE pipes
         /\ Got(t, d, s)
    BY <1>9 DEF RealOpen
  <2>1. /\ kern' \in [Fds -> Files \cup {NoFile}] /\ ckern' \in [Fds -> Files \cup {NoFile}]
        /\ stream' \in [Streams -> Fds \cup {NoFd}] /\ pipes' \subseteq Streams
    BY SetKernFacts
  <2>2. off' \subseteq Entries /\ UNCHANGED <<tables, vchild>>
    BY <1>9 DEF RealOpen, Off
  <2> QED
    BY <2>1, <2>2, GotType
<1>10. ASSUME NEW t \in Threads, RealFails(t) PROVE TypeOK'
  BY <1>10, ReturnType DEF RealFails
<1>11. ASSUME NEW t \in Threads, Fdopen(t) PROVE TypeOK'
  BY <1>11, StartType, HashTypes, HashOfType DEF Fdopen
<1>12. ASSUME NEW t \in Threads, RealFdopen(t) PROVE TypeOK'
  <2> PICK s \in Streams : stream' = [stream EXCEPT ![s] = fd[t]] /\ Got(t, fd[t], s)
    BY <1>12 DEF RealFdopen
  <2>1. /\ stream' \in [Streams -> Fds \cup {NoFd}] /\ off' \subseteq Entries
        /\ UNCHANGED <<kern, ckern, pipes, tables, vchild>>
    BY <1>12 DEF RealFdopen, Off
  <2> QED
    BY <2>1, GotType
<1>13. ASSUME NEW t \in Threads, Dup2(t) PROVE TypeOK'
  BY <1>13, StartType, HashTypes, HashOfType DEF Dup2, MayUse
<1>14. ASSUME NEW t \in Threads, RealDup2(t) PROVE TypeOK'
  BY <1>14, ZenonT(60) DEF RealDup2, Goto, Kern, SetKern, InVforkChild
<1>15. ASSUME NEW t \in Threads, Track(t) PROVE TypeOK'
  BY <1>15, ReturnType DEF Track, SetFd, Off, InVforkChild, Mistaken
<1>16. ASSUME NEW t \in Threads, Close(t) PROVE TypeOK'
  BY <1>16, StartType, HashTypes, HashOfType DEF Close
<1>17. ASSUME NEW t \in Threads, Fclose(t) PROVE TypeOK'
  BY <1>17, StartType, HashTypes, HashOfType DEF Fclose, MayCloseFh
<1>18. ASSUME NEW t \in Threads, Freopen(t) PROVE TypeOK'
  <2> PICK s \in Streams \ pipes, f \in Files \cup {NoFile} :
         /\ MayCloseFh(t, s)
         /\ Start(t, IF tracked_fh[s] = NoHash THEN "real" ELSE "untrack", "freopen", stream[s], s,
                  IF f = NoFile THEN kern[stream[s]] ELSE f,
                  IF f = NoFile THEN tracked_fh[s] ELSE HashOf(f))
    BY <1>18 DEF Freopen
  <2> DEFINE g == IF f = NoFile THEN kern[stream[s]] ELSE f
             h == IF f = NoFile THEN tracked_fh[s] ELSE HashOf(f)
             n == IF tracked_fh[s] = NoHash THEN "real" ELSE "untrack"
  <2>1. g \in Files \cup {NoFile} /\ stream[s] \in Fds
    BY DEF MayCloseFh
  <2>2. h \in Hashes /\ n \in {"untrack", "real"}
    BY HashOfType
  <2> HIDE DEF g, h, n
  <2>3. Start(t, n, "freopen", stream[s], s, g, h)
    BY DEF g, h, n
  <2>4. TypeOK
    OBVIOUS
  <2> HIDE DEF TypeOK, Fds, NoFd, Files, Hashes, CallInv, Entries
  <2> QED
    BY <2>1, <2>2, <2>3, <2>4, StartType DEF Calls
<1>19. ASSUME NEW t \in Threads, Closedir(t) PROVE TypeOK'
  BY <1>19, StartType, HashTypes, HashOfType DEF Closedir
<1>20. ASSUME NEW t \in Threads, Pclose(t) PROVE TypeOK'
  BY <1>20, StartType, HashTypes, HashOfType DEF Pclose, MayCloseFh
<1>21. ASSUME NEW t \in Threads, Untrack(t) PROVE TypeOK'
  BY <1>21, ZenonT(60) DEF Untrack, Goto, RemoveTrace, SetFd, InVforkChild
<1>22. ASSUME NEW t \in Threads, RealClose(t) PROVE TypeOK'
  <2>1. /\ kern' \in [Fds -> Files \cup {NoFile}] /\ ckern' \in [Fds -> Files \cup {NoFile}]
        /\ stream' \in [Streams -> Fds \cup {NoFd}] /\ pipes' \subseteq Streams
        /\ off' \subseteq Entries /\ UNCHANGED <<tables, vchild>>
    BY <1>22, SetKernFacts DEF RealClose, Off
  <2>2. CASE Return(t, "real")
    BY <2>1, <2>2, ReturnType
  <2>3. CASE Goto(t, "real", "late") /\ UNCHANGED op
    BY <2>1, <2>3 DEF Goto
  <2> QED
    BY <1>22, <2>2, <2>3 DEF RealClose
<1>23. ASSUME NEW t \in Threads, UntrackLate(t) PROVE TypeOK'
  <2>1. /\ tracked_fd' \in [0 .. MaxFd - 1 -> Hashes] /\ off' \subseteq Entries
        /\ UNCHANGED <<kernel, tracked_fh, vchild>> /\ Return(t, "late")
    BY <1>23, ZenonT(60) DEF UntrackLate, RemoveTrace, SetFd, Off
  <2> QED
    BY <2>1, ReturnType
<1>24. ASSUME NEW t \in Threads, RealFreopen(t) PROVE TypeOK'
  <2>1. /\ kern' \in [Fds -> Files \cup {NoFile}] /\ stream' \in [Streams -> Fds \cup {NoFd}]
        /\ UNCHANGED <<ckern, pipes, tables, vchild, off>>
    BY <1>24 DEF RealFreopen
  <2>2. CASE Return(t, "real")
    BY <2>1, <2>2, ReturnType
  <2>3. CASE Goto(t, "real", "track") /\ UNCHANGED op
    BY <2>1, <2>3 DEF Goto
  <2> QED
    BY <1>24, <2>2, <2>3 DEF RealFreopen
<1>25. ASSUME NEW t \in Threads, CloseRange(t) PROVE TypeOK'
  BY <1>25 DEF CloseRange, InVforkChild, Owned, SetKern, Kern
<1>26. ASSUME NEW t \in Threads, Vfork(t) PROVE TypeOK'
  BY <1>26 DEF Vfork
<1>27. ASSUME NEW t \in Threads, VforkEnd(t) PROVE TypeOK'
  BY <1>27 DEF VforkEnd, InVforkChild
<1>28. CASE UNCHANGED vars
  BY <1>28 DEF vars
<1> QED
  BY <1>1, <1>2, <1>3, <1>4, <1>5, <1>6, <1>7, <1>8, <1>9, <1>10, <1>11, <1>12, <1>13, <1>14,
     <1>15, <1>16, <1>17, <1>18, <1>19, <1>20, <1>21, <1>22, <1>23, <1>24, <1>25, <1>26,
     <1>27, <1>28 DEF Next, Looks, Opens, Closes

\* Every step keeps CallInv.
LEMMA CallNext ==
    ASSUME TypeOK, CallInv, HoldInv, [Next]_vars
    PROVE  CallInv'
<1> USE FdConstants DEF kernel, tables, op, TypeOK, Fds, NoFd, Files, Hashes, Calls, CallInv,
      HoldInv, FhOfFd, StreamOwn, InVforkChild
<1>1. ASSUME NEW t \in Threads, DescriptorCall(t) PROVE CallInv'
  BY <1>1 DEF DescriptorCall, Start, IsTraced, HashOf, Wrong, MayUse, Kern, Closing, Peers,
     InVforkChild
<1>2. ASSUME NEW t \in Threads, AioCall(t) PROVE CallInv'
  BY <1>2 DEF AioCall, Start, IsTraced, HashOf, Wrong, TracedAioFd, MayUse, Kern, Closing,
     Peers, InVforkChild
<1>3. ASSUME NEW t \in Threads, StreamCall(t) PROVE CallInv'
  BY <1>3 DEF StreamCall, Start, IsTraced, HashOf, MayUseFh, Closing, Peers, InVforkChild
<1>4. ASSUME NEW t \in Threads, LookDone(t) PROVE CallInv'
  BY <1>4 DEF LookDone, Return, Goto
<1>5. ASSUME NEW t \in Threads, Open(t) PROVE CallInv'
  BY <1>5 DEF Open, Start, IsTraced, HashOf
<1>6. ASSUME NEW t \in Threads, OpenAt(t) PROVE CallInv'
  BY <1>6 DEF OpenAt, Start, IsTraced, HashOf, MayUse, Kern, Closing, Peers, InVforkChild
<1>7. ASSUME NEW t \in Threads, Dup(t) PROVE CallInv'
  <2> PICK d \in Fds :
         MayUse(t, d) /\ Start(t, "real", "open", NoFd, NoStream, Kern(t)[d], IsTraced(d))
    BY <1>7 DEF Dup
  <2> DEFINE f == Kern(t)[d]
  <2>1. f \in Files
    BY DEF MayUse, Kern
  <2> HIDE DEF f
  <2>2. Start(t, "real", "open", NoFd, NoStream, f, IsTraced(d))
    BY DEF f
  <2> QED
    BY <2>1, <2>2 DEF Start
<1>8. ASSUME NEW t \in Threads, Fopen(t) PROVE CallInv'
  BY <1>8 DEF Fopen, Start, IsTraced, HashOf, InVforkChild
<1>9. ASSUME NEW t \in Threads, RealOpen(t) PROVE CallInv'
  BY <1>9 DEF RealOpen, Got, Return, Goto, Kern, SetKern, InVforkChild, Lowest, Mistaken, Off,
     HashOf
<1>10. ASSUME NEW t \in Threads, RealFails(t) PROVE CallInv'
  BY <1>10 DEF RealFails, Return, Goto
<1>11. ASSUME NEW t \in Threads, Fdopen(t) PROVE CallInv'
  BY <1>11 DEF Fdopen, Start, IsTraced, HashOf, MayClose, Kern, Using, Peers, Owned,
     InVforkChild
<1>12. ASSUME NEW t \in Threads, RealFdopen(t) PROVE CallInv'
  BY <1>12 DEF RealFdopen, Got, Return, Goto, Mistaken, Off, HashOf
<1>13. ASSUME NEW t \in Threads, Dup2(t) PROVE CallInv'
  BY <1>13 DEF Dup2, Start, IsTraced, HashOf, MayUse, Kern, Closing, Peers, InVforkChild,
     MayClose, Using, Owned
<1>14. ASSUME NEW t \in Threads, RealDup2(t) PROVE CallInv'
  BY <1>14 DEF RealDup2, Goto, Kern, SetKern, InVforkChild
<1>15. ASSUME NEW t \in Threads, Track(t) PROVE CallInv'
  BY <1>15 DEF Track, Return, Goto, SetFd, InVforkChild, Mistaken, Off, HashOf
<1>16. ASSUME NEW t \in Threads, Close(t) PROVE CallInv'
  BY <1>16 DEF Close, Start, IsTraced, HashOf, MayClose, Kern, Using, Peers, Owned,
     InVforkChild
<1>17. ASSUME NEW t \in Threads, Fclose(t) PROVE CallInv'
  BY <1>17 DEF Fclose, Start, IsTraced, HashOf, MayCloseFh, Using, Peers, InVforkChild
<1>18. ASSUME NEW t \in Threads, Freopen(t) PROVE CallInv'
  BY <1>18 DEF Freopen, Start, IsTraced, HashOf, MayCloseFh, Using, Peers, InVforkChild
<1>19. ASSUME NEW t \in Threads, Closedir(t) PROVE CallInv'
  BY <1>19 DEF Closedir, Start, IsTraced, HashOf, MayClose, Kern, Using, Peers, Owned,
     InVforkChild
<1>20. ASSUME NEW t \in Threads, Pclose(t) PROVE CallInv'
  BY <1>20 DEF Pclose, Start, IsTraced, HashOf, MayCloseFh, Using, Peers, InVforkChild
<1>21. ASSUME NEW t \in Threads, Untrack(t) PROVE CallInv'
  BY <1>21 DEF Untrack, Goto, RemoveTrace, SetFd, InVforkChild
<1>22. ASSUME NEW t \in Threads, RealClose(t) PROVE CallInv'
  BY <1>22 DEF RealClose, Kern, SetKern, InVforkChild, Return, Goto, Off
<1>23. ASSUME NEW t \in Threads, UntrackLate(t) PROVE CallInv'
  BY <1>23 DEF UntrackLate, Return, Goto, RemoveTrace, SetFd, InVforkChild, Off
<1>24. ASSUME NEW t \in Threads, RealFreopen(t) PROVE CallInv'
  BY <1>24 DEF RealFreopen, Return, Goto
<1>25. ASSUME NEW t \in Threads, CloseRange(t) PROVE CallInv'
  BY <1>25 DEF CloseRange, InVforkChild, Owned, SetKern, Kern
<1>26. ASSUME NEW t \in Threads, Vfork(t) PROVE CallInv'
  BY <1>26 DEF Vfork
<1>27. ASSUME NEW t \in Threads, VforkEnd(t) PROVE CallInv'
  BY <1>27 DEF VforkEnd, InVforkChild
<1>28. CASE UNCHANGED vars
  BY <1>28 DEF vars
<1> QED
  BY <1>1, <1>2, <1>3, <1>4, <1>5, <1>6, <1>7, <1>8, <1>9, <1>10, <1>11, <1>12, <1>13, <1>14,
     <1>15, <1>16, <1>17, <1>18, <1>19, <1>20, <1>21, <1>22, <1>23, <1>24, <1>25, <1>26,
     <1>27, <1>28 DEF Next, Looks, Opens, Closes

\* Beginning to open something takes no number yet.
LEMMA StartOpenHold ==
    ASSUME TypeOK, CallInv, HoldInv, NEW t \in Threads, NEW c, NEW f, NEW h,
           Start(t, "real", c, NoFd, NoStream, f, h)
    PROVE  HoldInv'
<1> USE FdConstants DEF kernel, TypeOK, Fds, NoFd, Start, Holds, InVforkChild, Changing,
      CallInv, HoldInv
<1>1. HeldOpen' /\ HeldAlone' /\ FhOfFd'
  BY DEF HeldOpen, HeldAlone, FhOfFd
<1>2. FdOfFh' /\ StreamOwn'
  BY DEF FdOfFh, StreamOwn
<1> QED
  BY <1>1, <1>2

\* The number that open() got is nobody's, and no FILE* is on it.
LEMMA RealOpenHold ==
    ASSUME TypeOK, CallInv, HoldInv, NEW t \in Threads, RealOpen(t)
    PROVE  HoldInv'
<1> PICK d \in Fds, s \in Streams \cup {NoStream} :
         /\ Lowest(Kern(t), d)
         /\ SetKern(t, [Kern(t) EXCEPT ![d] = file[t]])
         /\ IF call[t] = "open" THEN s = NoStream ELSE s # NoStream /\ stream[s] = NoFd
         /\ stream' = [x \in Streams |-> IF x = s THEN d ELSE stream[x]]
         /\ Got(t, d, s)
  BY DEF RealOpen
<1>1. /\ pc[t] = "real" /\ call[t] \in {"open", "fopen", "popen"} /\ UNCHANGED vchild
      /\ file[t] \in Files /\ (InVforkChild(t) => call[t] = "open")
  BY DEF RealOpen, Got, Return, Goto, CallInv, TypeOK
<1>2. file[t] # NoFile /\ NoFd \notin Fds
  BY <1>1, FdConstants DEF Files, Fds, NoFd
<1>3. /\ kern' = IF InVforkChild(t) THEN kern ELSE [kern EXCEPT ![d] = file[t]]
      /\ kern \in [Fds -> Files \cup {NoFile}] /\ stream \in [Streams -> Fds \cup {NoFd}]
  <2>1. kern' = IF InVforkChild(t) THEN kern ELSE [kern EXCEPT ![d] = file[t]]
    BY <1>1, SetKernFacts
  <2> QED
    BY <2>1 DEF TypeOK
<1>4. ~InVforkChild(t) => kern[d] = NoFile
  BY DEF Lowest, Kern
<1>5. ~InVforkChild(t) => /\ \A u \in Threads : ~Holds(u, d)
                          /\ \A x \in Streams : stream[x] # d
  BY <1>2, <1>4 DEF HoldInv, HeldOpen, StreamOwn
<1>6. \A u \in Threads \ {t} : /\ pc'[u] = pc[u] /\ call'[u] = call[u]
                               /\ fd'[u] = fd[u] /\ fh'[u] = fh[u]
  BY DEF Got, Return, Goto, TypeOK
<1>7. \/ pc'[t] = "idle" /\ call'[t] = "none" /\ fd'[t] = NoFd /\ fh'[t] = NoStream
      \/ pc'[t] = "track" /\ call'[t] = call[t] /\ fd'[t] = d /\ fh'[t] = s
  BY DEF Got, Return, Goto, TypeOK
<1>8. InVforkChild(t) => s = NoStream
  BY <1>1
<1> USE FdConstants DEF HoldInv, Holds, InVforkChild
<1>9. HeldOpen'
  BY <1>1, <1>2, <1>3, <1>6, <1>7 DEF HeldOpen
<1>10. HeldAlone'
  BY <1>1, <1>2, <1>5, <1>6, <1>7 DEF HeldAlone
<1>11. FhOfFd'
  BY <1>2, <1>3, <1>6, <1>7 DEF FhOfFd
<1>12. StreamOwn'
  BY <1>2, <1>3, <1>5, <1>8 DEF StreamOwn
<1>13. FdOfFh'
  BY <1>1, <1>2, <1>3, <1>5, <1>6, <1>7 DEF FdOfFh, Changing
<1> QED
  BY <1>9, <1>10, <1>11, <1>12, <1>13

\* The number that fdopen() puts under its FILE* had none.
LEMMA RealFdopenHold ==
    ASSUME TypeOK, CallInv, HoldInv, NEW t \in Threads, RealFdopen(t)
    PROVE  HoldInv'
<1> PICK s \in Streams : /\ stream[s] = NoFd /\ stream' = [stream EXCEPT ![s] = fd[t]]
                         /\ Got(t, fd[t], s)
  BY DEF RealFdopen
<1>1. /\ pc[t] = "real" /\ call[t] = "fdopen" /\ fd[t] \in Fds /\ fh[t] = NoStream
      /\ ~InVforkChild(t) /\ UNCHANGED <<kern, vchild>>
  BY DEF RealFdopen, Got, Return, Goto, CallInv, TypeOK
<1>2. /\ NoFd \notin Fds /\ stream \in [Streams -> Fds \cup {NoFd}]
      /\ NoStream \notin Streams
  BY FdConstants DEF Fds, NoFd, TypeOK
<1>3. /\ \A u \in Threads \ {t} : ~Holds(u, fd[t])
      /\ \A x \in Streams : stream[x] # fd[t]
      /\ kern[fd[t]] # NoFile
  BY <1>1, <1>2 DEF HoldInv, HeldOpen, HeldAlone, FdOfFh, Holds, Changing, Calls
<1>4. \A u \in Threads \ {t} : /\ pc'[u] = pc[u] /\ call'[u] = call[u]
                               /\ fd'[u] = fd[u] /\ fh'[u] = fh[u]
  BY DEF Got, Return, Goto, TypeOK
<1>5. \/ pc'[t] = "idle" /\ call'[t] = "none" /\ fd'[t] = NoFd /\ fh'[t] = NoStream
      \/ pc'[t] = "track" /\ call'[t] = call[t] /\ fd'[t] = fd[t] /\ fh'[t] = s
  BY DEF Got, Return, Goto, TypeOK
<1> USE DEF HoldInv, Holds, InVforkChild
<1>6. HeldOpen'
  BY <1>1, <1>2, <1>3, <1>4, <1>5 DEF HeldOpen
<1>7. HeldAlone'
  BY <1>1, <1>2, <1>3, <1>4, <1>5 DEF HeldAlone
<1>8. FhOfFd'
  BY <1>1, <1>2, <1>4, <1>5 DEF FhOfFd
<1>9. StreamOwn'
  BY <1>1, <1>2, <1>3 DEF StreamOwn
<1>10. FdOfFh'
  BY <1>1, <1>2, <1>3, <1>4, <1>5 DEF FdOfFh
<1> QED
  BY <1>6, <1>7, <1>8, <1>9, <1>10

\* The number and the FILE* that a close gives up were the closer's alone.
LEMMA RealCloseHold ==
    ASSUME TypeOK, CallInv, HoldInv, NEW t \in Threads, RealClose(t)
    PROVE  HoldInv'
<1>1. /\ pc[t] = "real" /\ call[t] \in {"close", "closedir", "fclose", "pclose"} /\ UNCHANGED vchild
      /\ SetKern(t, [Kern(t) EXCEPT ![fd[t]] = NoFile])
      /\ stream' = [s \in Streams |-> IF s = fh[t] THEN NoFd ELSE stream[s]]
  BY DEF RealClose, Return, Goto
<1>2. /\ NoFd \notin Fds /\ NoStream \notin Streams
      /\ kern \in [Fds -> Files \cup {NoFile}] /\ stream \in [Streams -> Fds \cup {NoFd}]
  BY FdConstants DEF Fds, NoFd, TypeOK
<1>3. kern' = IF InVforkChild(t) THEN kern ELSE [kern EXCEPT ![fd[t]] = NoFile]
  BY <1>1, SetKernFacts
<1>4. fd[t] \in Fds /\ (InVforkChild(t) => fh[t] = NoStream)
  BY <1>1 DEF HoldInv, FhOfFd, CallInv
<1>5. ~InVforkChild(t) => /\ \A u \in Threads \ {t} : ~Holds(u, fd[t])
                          /\ \A x \in Streams : stream[x] = fd[t] => x = fh[t]
  BY <1>1, <1>4 DEF HoldInv, HeldAlone, FdOfFh, Holds, Changing, Calls
<1>6. \A u \in Threads \ {t} : /\ pc'[u] = pc[u] /\ call'[u] = call[u]
                               /\ fd'[u] = fd[u] /\ fh'[u] = fh[u]
  BY DEF RealClose, Return, Goto, TypeOK, op
<1>7. \/ pc'[t] = "idle" /\ call'[t] = "none" /\ fd'[t] = NoFd /\ fh'[t] = NoStream
      \/ pc'[t] = "late" /\ fd'[t] = fd[t] /\ fh'[t] = NoStream
  BY <1>1 DEF RealClose, Return, Goto, TypeOK, CallInv, op
<1>8. \A u \in Threads \ {t} : fh[u] \in Streams => fh[u] # fh[t]
  <2> SUFFICES ASSUME NEW u \in Threads \ {t}, fh[u] \in Streams, fh[u] = fh[t] PROVE FALSE
    OBVIOUS
  <2>1. fd[u] = fd[t]
    BY DEF HoldInv, FhOfFd
  <2>2. ~InVforkChild(t) /\ ~InVforkChild(u) /\ pc[u] # "late"
    BY <1>2, <1>4 DEF CallInv, TypeOK, Calls
  <2> QED
    BY <1>5, <2>1, <2>2 DEF Holds
<1> USE DEF HoldInv, Holds, InVforkChild
<1>9. HeldOpen'
  BY <1>1, <1>2, <1>3, <1>4, <1>5, <1>6, <1>7 DEF HeldOpen
<1>10. HeldAlone'
  BY <1>1, <1>2, <1>6, <1>7 DEF HeldAlone
<1>11. FhOfFd'
  BY <1>1, <1>2, <1>6, <1>7, <1>8 DEF FhOfFd
<1>12. StreamOwn'
  BY <1>1, <1>2, <1>3, <1>4, <1>5 DEF StreamOwn
<1>13. FdOfFh'
  BY <1>1, <1>2, <1>4, <1>5, <1>6, <1>7 DEF FdOfFh
<1> QED
  BY <1>9, <1>10, <1>11, <1>12, <1>13

\* freopen() keeps its number and its FILE*, or gives up both.
LEMMA RealFreopenHold ==
    ASSUME TypeOK, CallInv, HoldInv, NEW t \in Threads, RealFreopen(t)
    PROVE  HoldInv'
<1>1. /\ pc[t] = "real" /\ call[t] = "freopen" /\ UNCHANGED vchild /\ ~InVforkChild(t)
      /\ file[t] \in Files /\ fh[t] \in Streams
  BY DEF RealFreopen, Return, Goto, CallInv
<1>2. /\ NoFd \notin Fds /\ NoStream \notin Streams /\ file[t] # NoFile
      /\ kern \in [Fds -> Files \cup {NoFile}] /\ stream \in [Streams -> Fds \cup {NoFd}]
  BY <1>1, FdConstants DEF Fds, NoFd, TypeOK, Files
<1>3. stream[fh[t]] = fd[t] /\ fd[t] \in Fds
  BY <1>1 DEF HoldInv, FhOfFd
<1>4. /\ \A u \in Threads \ {t} : ~Holds(u, fd[t])
      /\ \A x \in Streams : stream[x] = fd[t] => x = fh[t]
  BY <1>1, <1>3 DEF HoldInv, HeldAlone, FdOfFh, Holds, Changing, Calls
<1>5. \A u \in Threads \ {t} : /\ pc'[u] = pc[u] /\ call'[u] = call[u]
                               /\ fd'[u] = fd[u] /\ fh'[u] = fh[u]
  BY DEF RealFreopen, Return, Goto, TypeOK, op
<1>6. \/ /\ kern' = [kern EXCEPT ![fd[t]] = file[t]] /\ UNCHANGED stream
         /\ \/ pc'[t] = "idle" /\ call'[t] = "none" /\ fd'[t] = NoFd /\ fh'[t] = NoStream
            \/ pc'[t] = "track" /\ call'[t] = call[t] /\ fd'[t] = fd[t] /\ fh'[t] = fh[t]
      \/ /\ kern' = [kern EXCEPT ![fd[t]] = NoFile] /\ stream' = [stream EXCEPT ![fh[t]] = NoFd]
         /\ pc'[t] = "idle" /\ call'[t] = "none" /\ fd'[t] = NoFd /\ fh'[t] = NoStream
  BY DEF RealFreopen, Return, Goto, TypeOK, op
<1>7. \A u \in Threads \ {t} : fh[u] \in Streams => fh[u] # fh[t]
  <2> SUFFICES ASSUME NEW u \in Threads \ {t}, fh[u] \in Streams, fh[u] = fh[t] PROVE FALSE
    OBVIOUS
  <2>1. fd[u] = fd[t]
    BY DEF HoldInv, FhOfFd
  <2>2. ~InVforkChild(u) /\ pc[u] # "late"
    BY <1>2 DEF CallInv, TypeOK, Calls
  <2> QED
    BY <1>4, <2>1, <2>2 DEF Holds
<1> USE DEF HoldInv, Holds, InVforkChild
<1>8. HeldOpen'
  BY <1>1, <1>2, <1>3, <1>4, <1>5, <1>6 DEF HeldOpen
<1>9. HeldAlone'
  BY <1>1, <1>2, <1>3, <1>4, <1>5, <1>6 DEF HeldAlone
<1>10. FhOfFd'
  BY <1>1, <1>2, <1>3, <1>5, <1>6, <1>7 DEF FhOfFd
<1>11. StreamOwn'
  BY <1>1, <1>2, <1>3, <1>4, <1>6 DEF StreamOwn
<1>12. FdOfFh'
  BY <1>1, <1>2, <1>3, <1>4, <1>5, <1>6 DEF FdOfFh
<1> QED
  BY <1>8, <1>9, <1>10, <1>11, <1>12

\* Every step keeps HoldInv.
LEMMA HoldNext ==
    ASSUME TypeOK, CallInv, HoldInv, [Next]_vars
    PROVE  HoldInv'
<1> USE FdConstants DEF kernel, tables, op, TypeOK, Fds, NoFd, Files, Hashes, Calls, CallInv,
      HoldInv, Holds, Changing, InVforkChild
<1>1. ASSUME NEW t \in Threads, DescriptorCall(t) PROVE HoldInv'
  BY <1>1 DEF DescriptorCall, Start, IsTraced, HashOf, Wrong, MayUse, Kern, Closing, Peers,
     InVforkChild, HeldOpen, HeldAlone, FhOfFd, FdOfFh, StreamOwn
<1>2. ASSUME NEW t \in Threads, AioCall(t) PROVE HoldInv'
  BY <1>2 DEF AioCall, Start, IsTraced, HashOf, Wrong, TracedAioFd, MayUse, Kern, Closing, Peers,
     InVforkChild, HeldOpen, HeldAlone, FhOfFd, FdOfFh, StreamOwn
<1>3. ASSUME NEW t \in Threads, StreamCall(t) PROVE HoldInv'
  BY <1>3 DEF StreamCall, Start, IsTraced, HashOf, MayUseFh, Closing, Peers, InVforkChild,
     HeldOpen, HeldAlone, FhOfFd, FdOfFh, StreamOwn
<1>4. ASSUME NEW t \in Threads, LookDone(t) PROVE HoldInv'
  BY <1>4 DEF LookDone, Return, Goto, HeldOpen, HeldAlone, FhOfFd, FdOfFh, StreamOwn
<1>5. ASSUME NEW t \in Threads, Open(t) PROVE HoldInv'
  BY <1>5, StartOpenHold DEF Open
<1>6. ASSUME NEW t \in Threads, OpenAt(t) PROVE HoldInv'
  BY <1>6, StartOpenHold DEF OpenAt
<1>7. ASSUME NEW t \in Threads, Dup(t) PROVE HoldInv'
  BY <1>7, StartOpenHold DEF Dup
<1>8. ASSUME NEW t \in Threads, Fopen(t) PROVE HoldInv'
  BY <1>8, StartOpenHold DEF Fopen
<1>9. ASSUME NEW t \in Threads, RealOpen(t) PROVE HoldInv'
  BY <1>9, RealOpenHold
<1>10. ASSUME NEW t \in Threads, RealFails(t) PROVE HoldInv'
  BY <1>10 DEF RealFails, Return, Goto, HeldOpen, HeldAlone, FhOfFd, FdOfFh, StreamOwn
<1>11. ASSUME NEW t \in Threads, Fdopen(t) PROVE HoldInv'
  BY <1>11 DEF Fdopen, Start, IsTraced, HashOf, MayClose, Kern, Using, Peers, Owned, InVforkChild,
     HeldOpen, HeldAlone, FhOfFd, FdOfFh, StreamOwn
<1>12. ASSUME NEW t \in Threads, RealFdopen(t) PROVE HoldInv'
  BY <1>12, RealFdopenHold
<1>13. ASSUME NEW t \in Threads, Dup2(t) PROVE HoldInv'
  <2> PICK d \in Fds, e \in Fds :
         /\ InVforkChild(t) \/ MayClose(t, e)
         /\ Start(t, "real", "dup2", e, NoStream, Kern(t)[d], IsTraced(d))
    BY <1>13 DEF Dup2
  <2>1. ~InVforkChild(t) => /\ kern[e] # NoFile /\ \A u \in Threads : ~Holds(u, e)
                            /\ \A s \in Streams : stream[s] # e
    BY DEF MayClose, Kern, Using, Peers, Owned, Start
  <2>2. HeldOpen' /\ HeldAlone' /\ FhOfFd'
    BY <2>1 DEF Start, HeldOpen, HeldAlone, FhOfFd
  <2>3. FdOfFh' /\ StreamOwn'
    BY <2>1 DEF Start, FdOfFh, StreamOwn
  <2> QED
    BY <2>2, <2>3
<1>14. ASSUME NEW t \in Threads, RealDup2(t) PROVE HoldInv'
  BY <1>14 DEF RealDup2, Goto, Kern, SetKern, InVforkChild, HeldOpen, HeldAlone, FhOfFd, FdOfFh,
     StreamOwn
<1>15. ASSUME NEW t \in Threads, Track(t) PROVE HoldInv'
  BY <1>15 DEF Track, Return, Goto, SetFd, InVforkChild, Mistaken, Off, HashOf, HeldOpen,
     HeldAlone, FhOfFd, FdOfFh, StreamOwn
<1>16. ASSUME NEW t \in Threads, Close(t) PROVE HoldInv'
  BY <1>16 DEF Close, Start, IsTraced, HashOf, MayClose, Kern, Using, Peers, Owned, InVforkChild,
     HeldOpen, HeldAlone, FhOfFd, FdOfFh, StreamOwn
<1>17. ASSUME NEW t \in Threads, Fclose(t) PROVE HoldInv'
  BY <1>17 DEF Fclose, Start, IsTraced, HashOf, MayCloseFh, Using, Peers, InVforkChild, HeldOpen,
     HeldAlone, FhOfFd, FdOfFh, StreamOwn
<1>18. ASSUME NEW t \in Threads, Freopen(t) PROVE HoldInv'
  BY <1>18 DEF Freopen, Start, IsTraced, HashOf, MayCloseFh, Using, Peers, InVforkChild, HeldOpen,
     HeldAlone, FhOfFd, FdOfFh, StreamOwn
<1>19. ASSUME NEW t \in Threads, Closedir(t) PROVE HoldInv'
  BY <1>19 DEF Closedir, Start, IsTraced, HashOf, MayClose, Kern, Using, Peers, Owned,
     InVforkChild, HeldOpen, HeldAlone, FhOfFd, FdOfFh, StreamOwn
<1>20. ASSUME NEW t \in Threads, Pclose(t) PROVE HoldInv'
  BY <1>20 DEF Pclose, Start, IsTraced, HashOf, MayCloseFh, Using, Peers, InVforkChild, HeldOpen,
     HeldAlone, FhOfFd, FdOfFh, StreamOwn
<1>21. ASSUME NEW t \in Threads, Untrack(t) PROVE HoldInv'
  BY <1>21 DEF Untrack, Goto, RemoveTrace, SetFd, InVforkChild, HeldOpen, HeldAlone, FhOfFd,
     FdOfFh, StreamOwn
<1>22. ASSUME NEW t \in Threads, RealClose(t) PROVE HoldInv'
  BY <1>22, RealCloseHold
<1>23. ASSUME NEW t \in Threads, UntrackLate(t) PROVE HoldInv'
  BY <1>23 DEF UntrackLate, Return, Goto, RemoveTrace, SetFd, InVforkChild, Off, HeldOpen,
     HeldAlone, FhOfFd, FdOfFh, StreamOwn
<1>24. ASSUME NEW t \in Threads, RealFreopen(t) PROVE HoldInv'
  BY <1>24, RealFreopenHold
<1>25. ASSUME NEW t \in Threads, CloseRange(t) PROVE HoldInv'
  BY <1>25 DEF CloseRange, InVforkChild, Owned, SetKern, Kern, HeldOpen, HeldAlone, FhOfFd,
     FdOfFh, StreamOwn
<1>26. ASSUME NEW t \in Threads, Vfork(t) PROVE HoldInv'
  <2>1. vchild = NoThread /\ vchild' = t /\ fd[t] = NoFd
        /\ UNCHANGED <<kern, stream, pc, call, fd, fh>>
    BY <1>26 DEF Vfork
  <2>2. \A u \in Threads, d \in Fds : Holds(u, d)' => Holds(u, d)
    BY <2>1
  <2> HIDE DEF Holds, TypeOK, CallInv
  <2>3. HeldOpen' /\ HeldAlone' /\ FhOfFd'
    BY <2>1, <2>2 DEF HeldOpen, HeldAlone, FhOfFd
  <2>4. FdOfFh' /\ StreamOwn'
    BY <2>1, <2>2 DEF FdOfFh, StreamOwn
  <2> QED
    BY <2>3, <2>4
<1>27. ASSUME NEW t \in Threads, VforkEnd(t) PROVE HoldInv'
  BY <1>27 DEF VforkEnd, InVforkChild, HeldOpen, HeldAlone, FhOfFd, FdOfFh, StreamOwn
<1>28. CASE UNCHANGED vars
  BY <1>28 DEF vars, HeldOpen, HeldAlone, FhOfFd, FdOfFh, StreamOwn
<1> QED
  BY <1>1, <1>2, <1>3, <1>4, <1>5, <1>6, <1>7, <1>8, <1>9, <1>10, <1>11, <1>12, <1>13, <1>14,
     <1>15, <1>16, <1>17, <1>18, <1>19, <1>20, <1>21, <1>22, <1>23, <1>24, <1>25, <1>26,
     <1>27, <1>28 DEF Next, Looks, Opens, Closes

-----------------------------------------------------------------------------
(* The tables *)

\* Facts of the constants.
LEMMA ConstFacts ==
    /\ NoFd \notin Fds /\ NoStream \notin Streams /\ NoStream \notin Fds
    /\ \A d \in Fds : d \notin Streams /\ (d >= MaxFd <=> d \notin 0 .. MaxFd - 1)
    /\ \A d \in 0 .. MaxFd - 1 : d \in Fds /\ d < MaxFd /\ ~(d >= MaxFd)
    /\ \A f : HashOf(f) = NoHash <=> f \notin Traced
    /\ NoFile \notin Traced
<1>1. \A f : HashOf(f) = NoHash <=> f \notin Traced
  BY FdConstants DEF HashOf
<1> QED
  BY <1>1, FdConstants DEF Fds, NoFd

\* A number that a call is changing has no other user, and no other FILE*.
LEMMA HeldByOne ==
    ASSUME TypeOK, CallInv, HoldInv, NEW t \in Threads,
           ~InVforkChild(t), call[t] \in Changing, pc[t] # "late", fd[t] \in Fds
    PROVE  /\ kern[fd[t]] # NoFile
           /\ \A s \in Streams : stream[s] = fd[t] => s = fh[t]
           /\ \A u \in Threads \ {t} :
                 ~Holds(u, fd[t]) /\ (fh[u] \in Streams => fh[u] # fh[t])
<1>1. /\ kern[fd[t]] # NoFile
      /\ \A s \in Streams : stream[s] = fd[t] => s = fh[t]
      /\ \A u \in Threads \ {t} : ~Holds(u, fd[t])
  BY DEF HoldInv, HeldOpen, HeldAlone, FdOfFh, Holds, Changing
<1>2. ASSUME NEW u \in Threads \ {t}, fh[u] \in Streams, fh[u] = fh[t] PROVE FALSE
  <2>1. fd[u] = fd[t]
    BY <1>2 DEF HoldInv, FhOfFd
  <2>2. ~InVforkChild(u) /\ pc[u] # "late"
    BY <1>2, FdConstants DEF CallInv, TypeOK, Calls
  <2> QED
    BY <1>1, <2>1, <2>2 DEF Holds
<1> QED
  BY <1>1, <1>2

\* What a step of thread t leaves alone: the other threads' variables, and the
\* entries of the numbers and FILE* they act on, but for new exceptions.
FrameOp(t) ==
    \A u \in Threads \ {t} :
        /\ pc'[u] = pc[u] /\ call'[u] = call[u] /\ fd'[u] = fd[u] /\ fh'[u] = fh[u]
        /\ file'[u] = file[u] /\ hash'[u] = hash[u] /\ bad'[u] = bad[u]
        /\ vchild' = u <=> vchild = u

FrameTables(t) ==
    \A u \in Threads \ {t} :
        /\ \A d \in Fds : Holds(u, d) =>
              /\ kern'[d] = kern[d]
              /\ d \in off => d \in off'
              /\ d < MaxFd => d \in off' \/ tracked_fd'[d] = tracked_fd[d]
        /\ fh[u] \in Streams =>
              /\ tracked_fh'[fh[u]] = tracked_fh[fh[u]]
              /\ fh[u] \in off => fh[u] \in off'

\* What another thread's call knows stays true.
LEMMA FrameOthers ==
    ASSUME TypeOK, CallInv, HoldInv, NEW t \in Threads, FrameOp(t), FrameTables(t),
           NEW u \in Threads \ {t}
    PROVE  /\ ~InVforkChild(u) /\ TableOK(u) => TableOK(u)'
           /\ InVforkChild(u)' = InVforkChild(u)
           /\ Names(u) => Names(u)'
<1>1. /\ pc'[u] = pc[u] /\ call'[u] = call[u] /\ fd'[u] = fd[u] /\ fh'[u] = fh[u]
      /\ file'[u] = file[u] /\ hash'[u] = hash[u] /\ bad'[u] = bad[u]
      /\ vchild' = u <=> vchild = u
  BY DEF FrameOp
<1>2. Mistaken(u)' = Mistaken(u)
  BY <1>1 DEF Mistaken, HashOf
<1>3. ASSUME NEW d \in Fds, fd[u] = d, ~InVforkChild(u), pc[u] # "late"
      PROVE  /\ kern'[d] = kern[d] /\ (d \in off => d \in off')
             /\ d >= MaxFd \/ d \in off' \/ tracked_fd'[d] = tracked_fd[d]
  BY <1>3, FdConstants DEF FrameTables, Holds, Fds
<1>4. fh[u] \in Streams => /\ tracked_fh'[fh[u]] = tracked_fh[fh[u]]
                           /\ fh[u] \in off => fh[u] \in off'
  BY DEF FrameTables
<1>5. /\ call[u] \in {"fclose", "pclose", "freopen"} => fh[u] \in Streams
      /\ call[u] \in {"look", "fdopen", "dup2", "close", "closedir", "fclose", "pclose", "freopen"}
         \/ pc[u] = "track" => fd[u] \in Fds
      /\ pc[u] = "late" => call[u] = "closedir"
      /\ call[u] = "look" => ~InVforkChild(u) /\ pc[u] # "late"
  BY DEF CallInv, HoldInv, FhOfFd, TypeOK, Calls
<1>6. ~InVforkChild(u) /\ TableOK(u) => TableOK(u)'
  <2> SUFFICES ASSUME ~InVforkChild(u), TableOK(u) PROVE TableOK(u)'
    OBVIOUS
  <2>1. CASE fd[u] \in Fds /\ pc[u] # "late"
    <3>1. PICK d \in Fds : fd[u] = d
      BY <2>1
    <3>2. /\ kern'[d] = kern[d] /\ (d \in off => d \in off')
          /\ d >= MaxFd \/ d \in off' \/ tracked_fd'[d] = tracked_fd[d]
      BY <1>3, <2>1, <3>1
    <3> QED
      BY <1>1, <1>2, <1>4, <1>5, <3>1, <3>2 DEF TableOK, Sound, Clear, HashOf
  <2>2. CASE ~(fd[u] \in Fds /\ pc[u] # "late")
    BY <1>1, <1>2, <1>4, <1>5, <2>2 DEF TableOK
  <2> QED
    BY <2>1, <2>2
<1>7. Names(u) => Names(u)'
  <2> SUFFICES ASSUME Names(u), call[u] = "look", ~bad[u] PROVE hash'[u] = HashOf(kern'[fd'[u]])
    BY <1>1 DEF Names
  <2>1. PICK d \in Fds : fd[u] = d
    BY <1>5
  <2> QED
    BY <1>1, <1>3, <1>5, <2>1 DEF Names
<1> QED
  BY <1>1, <1>6, <1>7 DEF InVforkChild

\* A number whose entry and file a step leaves alone agrees as before.
LEMMA FdRest ==
    ASSUME NEW t \in Threads, FrameOp(t), NEW d \in Fds, AgreeFd(d),
           kern'[d] = kern[d], tracked_fd'[d] = tracked_fd[d], d \in off => d \in off',
           Holds(t, d) /\ call[t] # "look" => Holds(t, d)' /\ call'[t] # "look"
    PROVE  AgreeFd(d)'
<1>1. Busy(d) => Busy(d)'
  BY DEF FrameOp, Busy, Holds, InVforkChild
<1> QED
  BY <1>1 DEF AgreeFd, HashOf

\* So does a FILE*.
LEMMA FhRest ==
    ASSUME NEW t \in Threads, FrameOp(t), NEW s \in Streams, AgreeFh(s), Pair(s),
           NEW d, stream[s] = d, stream'[s] = d,
           tracked_fh'[s] = tracked_fh[s], s \in off => s \in off',
           fh[t] = s /\ call[t] # "look" => fh'[t] = s /\ call'[t] # "look",
           d # NoFd =>
              /\ kern'[d] = kern[d]
              /\ d \in off => d \in off'
              /\ Holds(t, d) /\ call[t] # "look" => Holds(t, d)' /\ call'[t] # "look"
    PROVE  AgreeFh(s)' /\ Pair(s)'
<1>1. d # NoFd /\ Busy(d) => Busy(d)'
  BY DEF FrameOp, Busy, Holds, InVforkChild
<1>2. (\E u \in Threads : fh[u] = s /\ call[u] # "look") =>
         \E u \in Threads : fh'[u] = s /\ call'[u] # "look"
  BY DEF FrameOp
<1>3. AgreeFh(s)'
  BY <1>2 DEF AgreeFh, HashOf, NoFd
<1>4. Pair(s)'
  BY <1>1 DEF Pair, NoFd, Busy
<1> QED
  BY <1>3, <1>4

\* The other threads keep what they know; thread t has to show its own.
LEMMA Combine ==
    ASSUME TypeOK, CallInv, HoldInv, CallTables, CallNamesItsFile, NEW t \in Threads,
           FrameOp(t), FrameTables(t), ~InVforkChild(t)' => TableOK(t)', Names(t)'
    PROVE  CallTables' /\ CallNamesItsFile'
<1>1. CallTables'
  BY FrameOthers, Zenon DEF CallTables
<1>2. \A u \in Threads : Names(u)
  BY DEF CallNamesItsFile, Names
<1>3. \A u \in Threads : Names(u)'
  BY <1>2, FrameOthers, Zenon
<1> QED
  BY <1>1, <1>3 DEF CallNamesItsFile, Names

\* No wrapper is changing a number or a FILE* that a thread may begin to use.
LEMMA NotBusy ==
    ASSUME TypeOK, CallInv, HoldInv, NEW t \in Threads, pc[t] = "idle", ~InVforkChild(t)
    PROVE  /\ \A d \in Fds : MayUse(t, d) \/ MayClose(t, d) => ~Busy(d) /\ Kern(t)[d] = kern[d]
           /\ \A s \in Streams : MayUseFh(t, s) \/ MayCloseFh(t, s) =>
                 /\ stream[s] \in Fds /\ ~Busy(stream[s])
                 /\ ~ \E u \in Threads : fh[u] = s /\ call[u] # "look"
<1>1. fd[t] = NoFd
  BY DEF CallInv
<1>2. ASSUME NEW d \in Fds, ~Closing(t, d) PROVE ~Busy(d)
  BY <1>1, <1>2, ConstFacts DEF Closing, Peers, Busy
<1>3. \A d : Using(t, d) \/ ~Closing(t, d)
  BY DEF Using, Closing
<1>4. ASSUME NEW d \in Fds, MayUse(t, d) \/ MayClose(t, d) PROVE ~Busy(d) /\ Kern(t)[d] = kern[d]
  BY <1>2, <1>3, <1>4 DEF MayUse, MayClose, Kern
<1>5. ASSUME NEW s \in Streams, MayUseFh(t, s) \/ MayCloseFh(t, s)
      PROVE  /\ stream[s] \in Fds /\ ~Busy(stream[s])
             /\ ~ \E u \in Threads : fh[u] = s /\ call[u] # "look"
  <2>1. stream[s] \in Fds /\ ~Closing(t, stream[s])
    BY <1>3, <1>5 DEF MayUseFh, MayCloseFh, TypeOK
  <2>2. ~Busy(stream[s])
    BY <1>2, <2>1
  <2>3. ASSUME NEW u \in Threads, fh[u] = s, call[u] # "look" PROVE FALSE
    <3>1. fd[u] = stream[s]
      BY <2>3 DEF HoldInv, FhOfFd
    <3>2. ~InVforkChild(u) /\ pc[u] # "late"
      BY <2>3, ConstFacts DEF CallInv, TypeOK, Calls
    <3> QED
      BY <2>2, <2>3, <3>1, <3>2 DEF Busy
  <2> QED
    BY <2>1, <2>2, <2>3
<1> QED
  BY <1>4, <1>5

\* A wrapper that begins writes nothing.
LEMMA StartAgrees ==
    ASSUME TypeOK, CallInv, HoldInv, CallTables, Tables, CallNamesItsFile, NEW t \in Threads,
           NEW next, NEW c, NEW d, NEW s, NEW f, NEW h, Start(t, next, c, d, s, f, h),
           ~InVforkChild(t) => TableOK(t)', Names(t)'
    PROVE  CallTables' /\ Tables' /\ CallNamesItsFile'
<1>1. /\ UNCHANGED <<kern, stream, tracked_fd, tracked_fh, vchild, off>>
      /\ fd[t] = NoFd /\ fh[t] = NoStream
  BY DEF Start, kernel, tables, CallInv
<1>2. FrameOp(t)
  BY DEF Start, FrameOp, TypeOK
<1>3. FrameTables(t)
  BY <1>1 DEF FrameTables
<1>4. CallTables' /\ CallNamesItsFile'
  BY <1>1, <1>2, <1>3, Combine DEF InVforkChild
<1>5. ASSUME NEW e \in 0 .. MaxFd - 1 PROVE AgreeFd(e)'
  <2>1. AgreeFd(e) /\ ~Holds(t, e) /\ e \in Fds
    BY <1>1, ConstFacts DEF Tables, Holds
  <2> QED
    BY <1>1, <1>2, <2>1, FdRest
<1>6. ASSUME NEW r \in Streams PROVE AgreeFh(r)' /\ Pair(r)'
  <2>1. PICK e : stream[r] = e
    OBVIOUS
  <2>2. AgreeFh(r) /\ Pair(r) /\ (e # NoFd => ~Holds(t, e)) /\ fh[t] # r /\ stream'[r] = e
    BY <1>1, <2>1, ConstFacts DEF Tables, Holds
  <2> QED
    BY <1>1, <1>2, <2>1, <2>2, FhRest
<1> QED
  BY <1>4, <1>5, <1>6 DEF Tables

\* What an entry says of a number that no wrapper is changing.
LEMMA Settled ==
    ASSUME Tables, NEW d \in Fds, ~Busy(d)
    PROVE  /\ Sound(d)
           /\ d < MaxFd /\ d \notin off => IsTraced(d) = HashOf(kern[d])
           /\ IsTraced(d) = NoHash => Clear(d)
BY ConstFacts, FdConstants DEF Tables, AgreeFd, Sound, IsTraced, Clear, Fds

\* And of a FILE*.
LEMMA SettledFh ==
    ASSUME Tables, NEW s \in Streams, stream[s] \in Fds, ~Busy(stream[s]),
           ~ \E u \in Threads : fh[u] = s /\ call[u] # "look"
    PROVE  /\ s \in off \/ tracked_fh[s] = HashOf(kern[stream[s]])
           /\ tracked_fh[s] = NoHash => Clear(stream[s])
           /\ tracked_fh[s] = NoHash /\ HashOf(kern[stream[s]]) # NoHash =>
                 stream[s] >= MaxFd \/ stream[s] \in off
<1>1. stream[s] # NoFd /\ (stream[s] >= MaxFd \/ stream[s] \in 0 .. MaxFd - 1)
  BY ConstFacts
<1>2. stream[s] >= MaxFd \/ AgreeFd(stream[s])
  BY <1>1 DEF Tables
<1>3. AgreeFh(s) /\ Pair(s)
  BY DEF Tables
<1>4. s \in off \/ tracked_fh[s] = HashOf(kern[stream[s]])
  BY <1>1, <1>3 DEF AgreeFh
<1>5. tracked_fh[s] = NoHash =>
         stream[s] >= MaxFd \/ stream[s] \in off \/ HashOf(kern[stream[s]]) = NoHash
  BY <1>1, <1>3, ConstFacts DEF Pair
<1> QED
  BY <1>2, <1>4, <1>5 DEF AgreeFd, Clear

\* What a step has to keep, besides the types and the discipline.
After == CallTables' /\ Tables' /\ CallNamesItsFile'

\* The variables of a thread that begins a wrapper.
LEMMA StartVars ==
    ASSUME TypeOK, CallInv, NEW t \in Threads, NEW next, NEW c, NEW d, NEW s, NEW f, NEW h,
           Start(t, next, c, d, s, f, h)
    PROVE  /\ pc[t] = "idle" /\ pc'[t] = next /\ call'[t] = c /\ fd'[t] = d /\ fh'[t] = s
           /\ file'[t] = f /\ hash'[t] = h
           /\ bad'[t] <=> c = "look" /\ Wrong(t, d, s)
           /\ UNCHANGED <<kern, ckern, stream, tracked_fd, tracked_fh, vchild, off>>
<1>1. bad'[t] = (c = "look" /\ Wrong(t, d, s))
  BY DEF Start, TypeOK
<1>2. bad'[t] <=> c = "look" /\ Wrong(t, d, s)
  BY <1>1, Zenon
<1> QED
  BY <1>2 DEF Start, kernel, tables, TypeOK

\* A look-up names the file of its number.
LEMMA LooksAgree ==
    ASSUME Inv, NEW t \in Threads, DescriptorCall(t) \/ AioCall(t) \/ StreamCall(t)
    PROVE  After
<1> USE DEF Inv, After
<1>1. ASSUME NEW d \in Fds, MayUse(t, d), ~InVforkChild(t),
             Start(t, "real", "look", d, NoStream, NoFile, IsTraced(d))
      PROVE  After
  <2>1. /\ pc[t] = "idle" /\ call'[t] = "look" /\ fd'[t] = d /\ hash'[t] = IsTraced(d)
        /\ bad'[t] <=> Wrong(t, d, NoStream)
        /\ pc'[t] = "real" /\ UNCHANGED <<kern, tracked_fd, off>>
    BY <1>1, StartVars
  <2>2. ~Busy(d) /\ Kern(t)[d] = kern[d]
    BY <1>1, <2>1, NotBusy
  <2>3. ~Wrong(t, d, NoStream) => d \notin off /\ (d < MaxFd \/ kern[d] \notin Traced)
    BY <2>2, FdConstants DEF Wrong, Fds
  <2>4. ~Wrong(t, d, NoStream) => IsTraced(d) = HashOf(kern[d])
    BY <2>2, <2>3, Settled, ConstFacts DEF IsTraced
  <2>5. Names(t)'
    BY <2>1, <2>4 DEF Names, HashOf
  <2>6. TableOK(t)'
    BY <2>1 DEF TableOK
  <2> QED
    BY <1>1, <2>5, <2>6, StartAgrees
<1>2. CASE DescriptorCall(t)
  BY <1>1, <1>2 DEF DescriptorCall
<1>3. CASE AioCall(t)
  <2>1. PICK d \in Fds, e \in Fds :
           /\ MayUse(t, d) /\ MayUse(t, e) /\ ~InVforkChild(t) /\ TracedAioFd(d, e) # NoFd
           /\ Start(t, "real", "look", TracedAioFd(d, e), NoStream, NoFile,
                    IsTraced(TracedAioFd(d, e)))
    BY <1>3 DEF AioCall
  <2>2. TracedAioFd(d, e) \in {d, e}
    BY <2>1 DEF TracedAioFd
  <2> QED
    BY <1>1, <2>1, <2>2
<1>4. CASE StreamCall(t)
  <2>1. PICK s \in Streams :
           MayUseFh(t, s) /\ Start(t, "real", "look", stream[s], s, NoFile, tracked_fh[s])
    BY <1>4 DEF StreamCall
  <2>2. /\ pc[t] = "idle" /\ call'[t] = "look" /\ fd'[t] = stream[s] /\ hash'[t] = tracked_fh[s]
        /\ bad'[t] <=> Wrong(t, stream[s], s)
        /\ pc'[t] = "real" /\ UNCHANGED <<kern, tracked_fd, off>>
    BY <2>1, StartVars
  <2>3. /\ stream[s] \in Fds /\ ~Busy(stream[s])
        /\ ~ \E u \in Threads : fh[u] = s /\ call[u] # "look"
    BY <2>1, <2>2, NotBusy DEF MayUseFh
  <2>4. ~Wrong(t, stream[s], s) => tracked_fh[s] = HashOf(kern[stream[s]])
    BY <2>3, SettledFh, ConstFacts DEF Wrong
  <2>5. Names(t)'
    BY <2>2, <2>4 DEF Names, HashOf
  <2>6. TableOK(t)'
    BY <2>2 DEF TableOK
  <2> QED
    BY <2>1, <2>5, <2>6, StartAgrees
<1> QED
  BY <1>2, <1>3, <1>4

\* The wrappers that open know nothing of the entries yet.
LEMMA OpensAgree ==
    ASSUME Inv, NEW t \in Threads, Open(t) \/ OpenAt(t) \/ Dup(t) \/ Fopen(t)
    PROVE  After
<1> USE DEF Inv, After
<1>1. ASSUME NEW c, NEW f, NEW h, Start(t, "real", c, NoFd, NoStream, f, h),
             c = "open" \/ (c \in {"fopen", "popen"} /\ h = HashOf(f))
      PROVE  After
  <2>1. pc'[t] = "real" /\ call'[t] = c /\ file'[t] = f /\ hash'[t] = h
    BY <1>1, StartVars
  <2>2. TableOK(t)' /\ Names(t)'
    BY <1>1, <2>1 DEF TableOK, Names, Mistaken, HashOf
  <2> QED
    BY <1>1, <2>2, StartAgrees
<1> QED
  BY <1>1 DEF Open, OpenAt, Dup, Fopen

\* fdopen, dup2, close and closedir know the entry of their number.
LEMMA TakesFdAgree ==
    ASSUME Inv, NEW t \in Threads, Fdopen(t) \/ Dup2(t) \/ Close(t) \/ Closedir(t)
    PROVE  After
<1> USE DEF Inv, After
<1>1. ASSUME NEW d \in Fds, pc[t] = "idle", ~InVforkChild(t), MayClose(t, d)
      PROVE  /\ Sound(d) /\ (IsTraced(d) = NoHash => Clear(d))
             /\ d < MaxFd /\ d \notin off => IsTraced(d) = HashOf(kern[d])
  BY <1>1, NotBusy, Settled
<1>2. CASE Fdopen(t)
  <2>1. PICK d \in Fds : /\ MayClose(t, d) /\ ~InVforkChild(t)
                         /\ Start(t, "real", "fdopen", d, NoStream, kern[d], IsTraced(d))
    BY <1>2 DEF Fdopen
  <2>2. /\ pc[t] = "idle" /\ pc'[t] = "real" /\ call'[t] = "fdopen" /\ fd'[t] = d
        /\ file'[t] = kern[d] /\ hash'[t] = IsTraced(d) /\ UNCHANGED <<kern, tracked_fd, off>>
    BY <2>1, StartVars
  <2>3. Sound(d) /\ (d < MaxFd /\ d \notin off => IsTraced(d) = HashOf(kern[d]))
    BY <1>1, <2>1, <2>2
  <2>4. d < MaxFd \/ d >= MaxFd
    BY FdConstants DEF Fds
  <2>5. TableOK(t)' /\ Names(t)'
    BY <2>2, <2>3, <2>4 DEF TableOK, Names, Mistaken, Sound, HashOf
  <2> QED
    BY <2>1, <2>5, StartAgrees
<1>3. CASE Dup2(t)
  <2>1. PICK d \in Fds, e \in Fds :
           /\ InVforkChild(t) \/ MayClose(t, e)
           /\ Start(t, "real", "dup2", e, NoStream, Kern(t)[d], IsTraced(d))
    BY <1>3 DEF Dup2
  <2>2. /\ pc[t] = "idle" /\ pc'[t] = "real" /\ call'[t] = "dup2" /\ fd'[t] = e
        /\ UNCHANGED <<kern, tracked_fd, off>>
    BY <2>1, StartVars
  <2>3. ~InVforkChild(t) => Sound(e)
    BY <1>1, <2>1, <2>2
  <2>4. ~InVforkChild(t) => TableOK(t)'
    BY <2>2, <2>3 DEF TableOK, Sound, HashOf
  <2>5. Names(t)'
    BY <2>2 DEF Names
  <2> QED
    BY <2>1, <2>4, <2>5, StartAgrees
<1>4. CASE Close(t)
  <2>1. PICK d \in Fds :
           /\ MayClose(t, d)
           /\ Start(t, IF IsTraced(d) = NoHash THEN "real" ELSE "untrack",
                    "close", d, NoStream, NoFile, NoHash)
    BY <1>4 DEF Close
  <2>2. /\ pc[t] = "idle" /\ call'[t] = "close" /\ fd'[t] = d
        /\ pc'[t] = IF IsTraced(d) = NoHash THEN "real" ELSE "untrack"
        /\ UNCHANGED <<kern, tracked_fd, off>>
    BY <2>1, StartVars
  <2>3. ~InVforkChild(t) /\ IsTraced(d) = NoHash => Clear(d)
    BY <1>1, <2>1, <2>2
  <2>4. ~InVforkChild(t) => TableOK(t)'
    BY <2>2, <2>3 DEF TableOK, Clear
  <2>5. Names(t)'
    BY <2>2 DEF Names
  <2> QED
    BY <2>1, <2>4, <2>5, StartAgrees
<1>5. CASE Closedir(t)
  <2>1. PICK d \in Fds : /\ MayClose(t, d) /\ ~InVforkChild(t)
                         /\ Start(t, "real", "closedir", d, NoStream, NoFile, IsTraced(d))
    BY <1>5 DEF Closedir
  <2>2. /\ pc[t] = "idle" /\ pc'[t] = "real" /\ call'[t] = "closedir" /\ fd'[t] = d
        /\ hash'[t] = IsTraced(d) /\ UNCHANGED <<kern, tracked_fd, off>>
    BY <2>1, StartVars
  <2>3. IsTraced(d) = NoHash => Clear(d)
    BY <1>1, <2>1, <2>2
  <2>4. TableOK(t)' /\ Names(t)'
    BY <2>2, <2>3 DEF TableOK, Names, Clear
  <2> QED
    BY <2>1, <2>4, StartAgrees
<1> QED
  BY <1>2, <1>3, <1>4, <1>5

\* fclose, pclose and freopen know the entries of their FILE* and its number.
LEMMA TakesFhAgree ==
    ASSUME Inv, NEW t \in Threads, Fclose(t) \/ Pclose(t) \/ Freopen(t)
    PROVE  After
<1> USE DEF Inv, After
<1>1. ASSUME NEW s \in Streams, MayCloseFh(t, s), NEW next,
             NEW c \in {"fclose", "pclose", "freopen"},
             NEW f, NEW h, Start(t, next, c, stream[s], s, f, h),
             c # "pclose" => (next = "real" <=> tracked_fh[s] = NoHash),
             c = "pclose" => next = "real" /\ h = tracked_fh[s], next \in {"real", "untrack"},
             c = "freopen" => h = HashOf(f) \/ (f = kern[stream[s]] /\ h = tracked_fh[s])
      PROVE  After
  <2>1. PICK d : stream[s] = d
    OBVIOUS
  <2>2. /\ pc[t] = "idle" /\ pc'[t] = next /\ call'[t] = c /\ fd'[t] = d /\ fh'[t] = s
        /\ file'[t] = f /\ hash'[t] = h /\ UNCHANGED <<kern, tracked_fd, tracked_fh, off>>
    BY <1>1, <2>1, StartVars
  <2>3. /\ d \in Fds /\ ~Busy(d)
        /\ ~ \E u \in Threads : fh[u] = s /\ call[u] # "look"
    BY <1>1, <2>1, <2>2, NotBusy DEF MayCloseFh
  <2>4. /\ s \in off \/ tracked_fh[s] = HashOf(kern[d])
        /\ tracked_fh[s] = NoHash => Clear(d)
        /\ tracked_fh[s] = NoHash /\ HashOf(kern[d]) # NoHash => d >= MaxFd \/ d \in off
    BY <2>1, <2>3, SettledFh
  <2>5. c = "freopen" /\ hash'[t] = NoHash /\ Mistaken(t)' =>
           next = "real" /\ (d >= MaxFd \/ d \in off) /\ s \in off
    <3> SUFFICES ASSUME c = "freopen", h = NoHash, HashOf(f) # NoHash
                 PROVE  next = "real" /\ (d >= MaxFd \/ d \in off) /\ s \in off
      BY <2>2 DEF Mistaken, HashOf
    <3>1. f = kern[d] /\ tracked_fh[s] = NoHash
      BY <1>1, <2>1
    <3> QED
      BY <1>1, <2>4, <3>1
  <2>6. TableOK(t)' /\ Names(t)'
    BY <1>1, <2>2, <2>4, <2>5 DEF TableOK, Names, Clear
  <2> QED
    BY <1>1, <2>6, StartAgrees
<1>2. CASE Fclose(t)
  BY <1>1, <1>2 DEF Fclose
<1>3. CASE Pclose(t)
  BY <1>1, <1>3 DEF Pclose, TypeOK
<1>4. CASE Freopen(t)
  BY <1>1, <1>4 DEF Freopen
<1> QED
  BY <1>2, <1>3, <1>4

-----------------------------------------------------------------------------
(* The steps of a wrapper under way *)

\* Thread t's step leaves number e, or FILE* r, as it was.
Keeps(t, e) ==
    /\ kern'[e] = kern[e]
    /\ e \in off => e \in off'
    /\ Holds(t, e) /\ call[t] # "look" =>
          vchild' # t /\ fd'[t] = e /\ pc'[t] # "late" /\ call'[t] # "look"

KeepsFh(t, r) ==
    /\ stream'[r] = stream[r] /\ tracked_fh'[r] = tracked_fh[r]
    /\ r \in off => r \in off'
    /\ fh[t] = r /\ call[t] # "look" => fh'[t] = r /\ call'[t] # "look"
    /\ stream[r] \in Fds => Keeps(t, stream[r])

\* A step has to be argued for its own thread, and for what it touches.
LEMMA StepAgrees ==
    ASSUME Inv, NEW t \in Threads, FrameOp(t), FrameTables(t),
           ~InVforkChild(t)' => TableOK(t)', Names(t)',
           \A e \in 0 .. MaxFd - 1 :
              (Keeps(t, e) /\ tracked_fd'[e] = tracked_fd[e]) \/ AgreeFd(e)',
           \A r \in Streams : KeepsFh(t, r) \/ (AgreeFh(r)' /\ Pair(r)')
    PROVE  After
<1> USE DEF Inv, After
<1>1. CallTables' /\ CallNamesItsFile'
  BY Combine
<1>2. ASSUME NEW e \in 0 .. MaxFd - 1, Keeps(t, e), tracked_fd'[e] = tracked_fd[e] PROVE AgreeFd(e)'
  <2>1. AgreeFd(e) /\ e \in Fds
    BY ConstFacts DEF Tables
  <2>2. Holds(t, e) /\ call[t] # "look" => Holds(t, e)' /\ call'[t] # "look"
    BY <1>2 DEF Keeps, Holds, InVforkChild
  <2> QED
    BY <1>2, <2>1, <2>2, FdRest DEF Keeps
<1>3. ASSUME NEW r \in Streams, KeepsFh(t, r) PROVE AgreeFh(r)' /\ Pair(r)'
  <2>1. PICK e : stream[r] = e
    OBVIOUS
  <2>2. AgreeFh(r) /\ Pair(r) /\ KeepsFh(t, r) /\ e \in Fds \cup {NoFd}
    BY <1>3, <2>1 DEF Tables, TypeOK
  <2>3. e # NoFd => Keeps(t, e)
    BY <2>1, <2>2 DEF KeepsFh
  <2>4. e # NoFd => (Holds(t, e) /\ call[t] # "look" => Holds(t, e)' /\ call'[t] # "look")
    BY <2>3 DEF Keeps, Holds, InVforkChild
  <2>5. /\ stream'[r] = e /\ tracked_fh'[r] = tracked_fh[r] /\ (r \in off => r \in off')
        /\ fh[t] = r /\ call[t] # "look" => fh'[t] = r /\ call'[t] # "look"
    BY <2>1, <2>2 DEF KeepsFh
  <2>6. e # NoFd => kern'[e] = kern[e] /\ (e \in off => e \in off')
    BY <2>3 DEF Keeps
  <2> QED
    BY <2>1, <2>2, <2>4, <2>5, <2>6, FhRest
<1> QED
  BY <1>1, <1>2, <1>3 DEF Tables

\* A thread that has returned knows nothing of the entries.
LEMMA ReturnKnows ==
    ASSUME TypeOK, NEW t \in Threads, NEW a, Return(t, a), vchild' = vchild
    PROVE  /\ TableOK(t)' /\ Names(t)' /\ FrameOp(t)
           /\ pc[t] = a /\ pc'[t] = "idle" /\ call'[t] = "none"
           /\ fd'[t] = NoFd /\ fh'[t] = NoStream
<1>1. /\ pc[t] = a /\ pc'[t] = "idle" /\ call'[t] = "none" /\ fd'[t] = NoFd /\ fh'[t] = NoStream
  BY DEF Return, Goto, TypeOK
<1>2. TableOK(t)' /\ Names(t)'
  BY <1>1 DEF TableOK, Names
<1>3. FrameOp(t)
  BY DEF Return, Goto, TypeOK, FrameOp
<1> QED
  BY <1>1, <1>2, <1>3

\* The end of a call that only looked up.
LEMMA LookDoneAgrees ==
    ASSUME Inv, NEW t \in Threads, LookDone(t)
    PROVE  After
<1> USE DEF Inv
<1>1. /\ call[t] = "look" /\ UNCHANGED <<kern, stream, tracked_fd, tracked_fh, vchild, off>>
  BY DEF LookDone, kernel, tables
<1>2. TableOK(t)' /\ Names(t)' /\ FrameOp(t)
  BY <1>1, ReturnKnows DEF LookDone
<1>3. FrameTables(t)
  BY <1>1 DEF FrameTables
<1>4. /\ \A e \in 0 .. MaxFd - 1 : Keeps(t, e) /\ tracked_fd'[e] = tracked_fd[e]
      /\ \A r \in Streams : KeepsFh(t, r)
  BY <1>1 DEF Keeps, KeepsFh
<1> QED
  BY <1>2, <1>3, <1>4, StepAgrees

\* A call that failed leaves its number as it found it.
LEMMA RealFailsAgrees ==
    ASSUME Inv, NEW t \in Threads, RealFails(t)
    PROVE  After
<1> USE DEF Inv
<1>1. UNCHANGED <<kern, stream, tracked_fd, tracked_fh, vchild, off>>
  BY DEF RealFails, kernel, tables
<1>2. /\ TableOK(t)' /\ Names(t)' /\ FrameOp(t)
      /\ pc[t] = "real" /\ pc'[t] = "idle" /\ call'[t] = "none" /\ fd'[t] = NoFd
  BY <1>1, ReturnKnows DEF RealFails
<1>3. /\ call[t] \in {"open", "fopen", "popen", "fdopen", "dup2"}
      /\ fh[t] = NoStream
      /\ call[t] \in {"open", "fopen", "popen"} => fd[t] = NoFd
      /\ call[t] \in {"fdopen", "dup2"} => fd[t] \in Fds
  BY <1>2 DEF RealFails, CallInv
<1>4. FrameTables(t)
  BY <1>1 DEF FrameTables
<1>5. \A e \in 0 .. MaxFd - 1 : e # fd[t] => Keeps(t, e) /\ tracked_fd'[e] = tracked_fd[e]
  BY <1>1 DEF Keeps, Holds
<1>6. \A r \in Streams : stream[r] \in Fds => Keeps(t, stream[r])
  <2> SUFFICES ASSUME NEW r \in Streams, stream[r] \in Fds, Holds(t, stream[r]),
                      call[t] # "look"
               PROVE  FALSE
    BY <1>1 DEF Keeps
  <2> QED
    BY <1>3, ConstFacts DEF HoldInv, FdOfFh, Changing, Holds, Calls
<1>7. \A r \in Streams : KeepsFh(t, r)
  BY <1>1, <1>3, <1>6, ConstFacts DEF KeepsFh
<1>8. ASSUME NEW e \in 0 .. MaxFd - 1, e = fd[t] PROVE AgreeFd(e)'
  <2>1. CASE InVforkChild(t)
    <3>1. AgreeFd(e)
      BY <1>8 DEF Tables
    <3>2. e \in Fds
      BY <1>8, ConstFacts
    <3> QED
      BY <1>1, <1>2, <2>1, <3>1, <3>2, FdRest DEF Holds
  <2>2. CASE ~InVforkChild(t)
    <3>1. Sound(fd[t])
      BY <1>2, <1>3, <1>8, <2>2, ConstFacts DEF CallTables, TableOK
    <3> QED
      BY <1>1, <1>8, <3>1, ConstFacts DEF Sound, AgreeFd, HashOf
  <2> QED
    BY <2>1, <2>2
<1> QED
  BY <1>2, <1>4, <1>5, <1>7, <1>8, StepAgrees

\* A step of a vfork child, which has numbers of its own and no FILE*.
LEMMA ChildAgrees ==
    ASSUME Inv, NEW t \in Threads, FrameOp(t), InVforkChild(t), vchild' = vchild,
           UNCHANGED <<kern, stream, tracked_fh>>, off \subseteq off', call'[t] # "look",
           \A e \in 0 .. MaxFd - 1 : e \in off' \/ tracked_fd'[e] = tracked_fd[e]
    PROVE  After
<1> USE DEF Inv
<1>1. fh[t] = NoStream
  BY DEF CallInv, TypeOK
<1>2. FrameTables(t)
  BY FdConstants DEF FrameTables, Fds
<1>3. Names(t)'
  BY DEF Names
<1>4. \A e : Keeps(t, e)
  BY DEF Keeps, Holds
<1>5. \A r \in Streams : KeepsFh(t, r)
  BY <1>1, <1>4, ConstFacts DEF KeepsFh
<1>6. \A e \in 0 .. MaxFd - 1 : tracked_fd'[e] = tracked_fd[e] \/ AgreeFd(e)'
  BY DEF AgreeFd
<1>7. InVforkChild(t)'
  BY DEF InVforkChild
<1> QED
  BY <1>2, <1>3, <1>4, <1>5, <1>6, <1>7, StepAgrees

\* Nobody uses a closed number, or a FILE* that is not open.
LEMMA Unused ==
    ASSUME TypeOK, CallInv, HoldInv
    PROVE  /\ \A d \in Fds : kern[d] = NoFile =>
                 /\ ~Busy(d) /\ \A u \in Threads : ~Holds(u, d)
                 /\ \A r \in Streams : stream[r] # d
           /\ \A s \in Streams : stream[s] = NoFd => \A u \in Threads : fh[u] # s
<1>1. ASSUME NEW d \in Fds, kern[d] = NoFile PROVE \A u \in Threads : ~Holds(u, d)
  BY <1>1 DEF HoldInv, HeldOpen
<1>2. ASSUME NEW d \in Fds, kern[d] = NoFile PROVE ~Busy(d)
  BY <1>1, <1>2 DEF Busy, Holds
<1>3. ASSUME NEW d \in Fds, kern[d] = NoFile, NEW r \in Streams PROVE stream[r] # d
  BY <1>3, ConstFacts DEF HoldInv, StreamOwn
<1>4. ASSUME NEW s \in Streams, stream[s] = NoFd, NEW u \in Threads PROVE fh[u] # s
  BY <1>4, ConstFacts DEF HoldInv, FhOfFd
<1> QED
  BY <1>1, <1>2, <1>3, <1>4

\* The variables of a thread that got d and s.
LEMMA GotVars ==
    ASSUME TypeOK, NEW t \in Threads, NEW d, NEW s, Got(t, d, s), vchild' = vchild
    PROVE  /\ FrameOp(t) /\ pc[t] = "real"
           /\ hash[t] = NoHash => /\ TableOK(t)' /\ Names(t)' /\ call'[t] = "none"
                                  /\ fd'[t] = NoFd /\ fh'[t] = NoStream
           /\ hash[t] # NoHash => /\ pc'[t] = "track" /\ fd'[t] = d /\ fh'[t] = s
                                  /\ UNCHANGED <<call, file, hash>>
<1>1. CASE hash[t] = NoHash
  BY <1>1, ReturnKnows DEF Got
<1>2. CASE hash[t] # NoHash
  BY <1>2 DEF Got, Goto, TypeOK, FrameOp
<1> QED
  BY <1>1, <1>2

\* open, dup, fopen and popen: a number nobody used before.
LEMMA RealOpenAgrees ==
    ASSUME Inv, NEW t \in Threads, RealOpen(t)
    PROVE  After
<1> USE DEF Inv
<1>1. PICK d \in Fds, s \in Streams \cup {NoStream} :
         /\ Lowest(Kern(t), d)
         /\ SetKern(t, [Kern(t) EXCEPT ![d] = file[t]])
         /\ IF call[t] = "open" THEN s = NoStream ELSE s # NoStream /\ stream[s] = NoFd
         /\ stream' = [x \in Streams |-> IF x = s THEN d ELSE stream[x]]
         /\ Got(t, d, s)
         /\ off' = IF hash[t] = NoHash /\ Mistaken(t) /\ ~InVforkChild(t) THEN Off({d, s}) ELSE off
  BY DEF RealOpen
<1>2. /\ call[t] \in {"open", "fopen", "popen"}
      /\ vchild' = vchild /\ tracked_fd' = tracked_fd /\ tracked_fh' = tracked_fh
  BY DEF RealOpen, tables
<1>3. /\ FrameOp(t) /\ pc[t] = "real"
      /\ hash[t] = NoHash => /\ TableOK(t)' /\ Names(t)' /\ call'[t] = "none"
                             /\ fd'[t] = NoFd /\ fh'[t] = NoStream
      /\ hash[t] # NoHash => /\ pc'[t] = "track" /\ fd'[t] = d /\ fh'[t] = s
                             /\ UNCHANGED <<call, file, hash>>
  BY <1>1, <1>2, GotVars
<1>4. fd[t] = NoFd /\ fh[t] = NoStream /\ file[t] \in Files
  BY <1>2, <1>3 DEF CallInv
<1>5. kern' = IF InVforkChild(t) THEN kern ELSE [kern EXCEPT ![d] = file[t]]
  BY <1>1, <1>4, SetKernFacts
<1>6. off \subseteq off'
  BY <1>1 DEF Off
<1>7. CASE InVforkChild(t)
  <2>1. call[t] = "open" /\ s = NoStream
    BY <1>1, <1>2, <1>7 DEF CallInv
  <2>2. stream' = stream
    BY <1>1, <2>1, ConstFacts DEF TypeOK
  <2>3. call'[t] # "look"
    BY <1>2, <1>3
  <2> QED
    BY <1>2, <1>3, <1>5, <1>6, <1>7, <2>2, <2>3, ChildAgrees
<1>8. CASE ~InVforkChild(t)
  <2>1. kern[d] = NoFile
    BY <1>1, <1>8 DEF Lowest, Kern
  <2>2. /\ ~Busy(d) /\ \A u \in Threads : ~Holds(u, d)
        /\ \A r \in Streams : stream[r] # d
        /\ s \in Streams => \A u \in Threads : fh[u] # s
    BY <1>1, <1>2, <2>1, Unused, ConstFacts
  <2>3. kern'[d] = file[t] /\ \A e \in Fds \ {d} : kern'[e] = kern[e]
    BY <1>5, <1>8 DEF TypeOK
  <2>4. FrameTables(t)
    BY <1>2, <1>6, <2>2, <2>3 DEF FrameTables
  <2>5. hash[t] # NoHash => TableOK(t)' /\ Names(t)'
    <3>1. call[t] \in {"fopen", "popen"} => ~Mistaken(t)
      BY <1>8 DEF CallTables, TableOK
    <3> QED
      BY <1>2, <1>3, <2>3, <3>1 DEF TableOK, Names, Mistaken, HashOf
  <2>6. \A e \in Fds \ {d} : Keeps(t, e)
    BY <1>4, <1>6, <2>3, ConstFacts DEF Keeps, Holds
  <2>7. d \in 0 .. MaxFd - 1 => AgreeFd(d)'
    <3> SUFFICES ASSUME d \in 0 .. MaxFd - 1 PROVE AgreeFd(d)'
      OBVIOUS
    <3>1. d \in off \/ tracked_fd[d] = NoHash
      BY <2>1, <2>2, ConstFacts DEF Tables, AgreeFd
    <3>2. CASE hash[t] # NoHash
      <4>1. Busy(d)'
        BY <1>2, <1>3, <1>8, <3>2 DEF Busy, InVforkChild
      <4> QED
        BY <4>1 DEF AgreeFd
    <3>3. CASE hash[t] = NoHash /\ Mistaken(t)
      BY <1>1, <1>8, <3>3 DEF Off, Entries, AgreeFd
    <3>4. CASE hash[t] = NoHash /\ ~Mistaken(t)
      BY <1>2, <1>6, <2>3, <3>1, <3>4 DEF AgreeFd, Mistaken, HashOf
    <3> QED
      BY <3>2, <3>3, <3>4
  <2>8. \A r \in Streams \ {s} : KeepsFh(t, r)
    BY <1>1, <1>2, <1>4, <1>6, <2>2, <2>6, ConstFacts DEF KeepsFh
  <2>9. s \in Streams => AgreeFh(s)' /\ Pair(s)'
    <3> SUFFICES ASSUME s \in Streams PROVE AgreeFh(s)' /\ Pair(s)'
      OBVIOUS
    <3>1. stream[s] = NoFd /\ stream'[s] = d /\ call[t] \in {"fopen", "popen"}
      BY <1>1, <1>2, ConstFacts
    <3>2. s \in off \/ tracked_fh[s] = NoHash
      BY <2>2, <3>1 DEF Tables, AgreeFh
    <3>3. ~Mistaken(t)
      BY <1>8, <3>1 DEF CallTables, TableOK
    <3>4. CASE hash[t] # NoHash
      <4>1. Busy(stream[s])'
        BY <1>2, <1>3, <1>8, <3>1, <3>4 DEF Busy, InVforkChild
      <4>2. AgreeFh(s)'
        BY <1>2, <1>3, <3>4 DEF AgreeFh
      <4> QED
        BY <4>1, <4>2 DEF Pair
    <3>5. CASE hash[t] = NoHash
      <4>1. HashOf(file[t]) = NoHash /\ file[t] \notin Traced
        BY <3>3, <3>5, ConstFacts DEF Mistaken
      <4>2. AgreeFh(s)'
        BY <1>2, <1>6, <2>3, <3>1, <3>2, <4>1, ConstFacts DEF AgreeFh, HashOf
      <4>3. Pair(s)'
        BY <2>3, <3>1, <4>1 DEF Pair
      <4> QED
        BY <4>2, <4>3
    <3> QED
      BY <3>4, <3>5
  <2>10. \A e \in 0 .. MaxFd - 1 : (Keeps(t, e) /\ tracked_fd'[e] = tracked_fd[e]) \/ AgreeFd(e)'
    BY <1>2, <2>6, <2>7, ConstFacts
  <2>11. \A r \in Streams : KeepsFh(t, r) \/ (AgreeFh(r)' /\ Pair(r)')
    BY <2>8, <2>9
  <2> QED
    BY <1>3, <2>4, <2>5, <2>10, <2>11, StepAgrees
<1> QED
  BY <1>7, <1>8

\* fdopen: the number's entry is as it was, and the FILE* is new.
LEMMA RealFdopenAgrees ==
    ASSUME Inv, NEW t \in Threads, RealFdopen(t)
    PROVE  After
<1> USE DEF Inv
<1>1. PICK s \in Streams :
         /\ stream[s] = NoFd /\ stream' = [stream EXCEPT ![s] = fd[t]] /\ Got(t, fd[t], s)
         /\ off' = IF hash[t] = NoHash /\ Mistaken(t) THEN Off({s}) ELSE off
  BY DEF RealFdopen
<1>2. /\ call[t] = "fdopen"
      /\ vchild' = vchild /\ kern' = kern /\ tracked_fd' = tracked_fd /\ tracked_fh' = tracked_fh
  BY DEF RealFdopen, tables
<1>3. PICK d : d = fd[t]
  OBVIOUS
<1>4. /\ FrameOp(t) /\ pc[t] = "real"
      /\ hash[t] = NoHash => /\ TableOK(t)' /\ Names(t)' /\ call'[t] = "none"
                             /\ fd'[t] = NoFd /\ fh'[t] = NoStream
      /\ hash[t] # NoHash => /\ pc'[t] = "track" /\ fd'[t] = d /\ fh'[t] = s
                             /\ UNCHANGED <<call, file, hash>>
  BY <1>1, <1>2, <1>3, GotVars
<1>5. d \in Fds /\ fh[t] = NoStream /\ ~InVforkChild(t)
  BY <1>2, <1>3, <1>4 DEF CallInv
<1>6. /\ kern[d] = file[t] /\ Sound(d)
      /\ Mistaken(t) => d >= MaxFd \/ d \in off
  BY <1>2, <1>3, <1>4, <1>5 DEF CallTables, TableOK
<1>7. \A r \in Streams : stream[r] # d
  BY <1>2, <1>3, <1>4, <1>5, HeldByOne, ConstFacts DEF Changing, Calls
<1>8. off \subseteq off' /\ stream'[s] = d
  BY <1>1, <1>3 DEF Off, TypeOK
<1>9. FrameTables(t)
  BY <1>2, <1>8 DEF FrameTables
<1>10. hash[t] # NoHash => TableOK(t)' /\ Names(t)'
  BY <1>2, <1>4, <1>6 DEF TableOK, Names
<1>11. \A e \in Fds \ {d} : Keeps(t, e)
  BY <1>2, <1>3, <1>8 DEF Keeps, Holds
<1>12. d \in 0 .. MaxFd - 1 => AgreeFd(d)'
  BY <1>2, <1>6, <1>8, ConstFacts DEF Sound, AgreeFd, HashOf
<1>13. \A r \in Streams \ {s} : KeepsFh(t, r)
  BY <1>1, <1>2, <1>5, <1>7, <1>8, <1>11, ConstFacts DEF KeepsFh, TypeOK
<1>14. AgreeFh(s)' /\ Pair(s)'
  <2>1. \A u \in Threads : fh[u] # s
    BY <1>1, Unused
  <2>2. s \in off \/ tracked_fh[s] = NoHash
    BY <1>1, <2>1 DEF Tables, AgreeFh
  <2>3. CASE hash[t] # NoHash
    <3>1. Busy(stream[s])'
      BY <1>2, <1>4, <1>5, <1>8, <2>3 DEF Busy, InVforkChild
    <3>2. AgreeFh(s)'
      BY <1>2, <1>4, <2>3 DEF AgreeFh
    <3> QED
      BY <3>1, <3>2 DEF Pair
  <2>4. CASE hash[t] = NoHash /\ Mistaken(t)
    <3>1. s \in off'
      BY <1>1, <2>4 DEF Off, Entries
    <3>2. d >= MaxFd \/ d \in off'
      BY <1>6, <1>8, <2>4
    <3> QED
      BY <1>8, <3>1, <3>2 DEF AgreeFh, Pair
  <2>5. CASE hash[t] = NoHash /\ ~Mistaken(t)
    <3>1. HashOf(kern'[d]) = NoHash /\ kern'[d] \notin Traced
      BY <1>2, <1>6, <2>5, ConstFacts DEF Mistaken
    <3>2. s \in off' \/ tracked_fh'[s] = NoHash
      BY <1>2, <1>8, <2>2
    <3> QED
      BY <1>5, <1>8, <3>1, <3>2, ConstFacts DEF AgreeFh, Pair, HashOf
  <2> QED
    BY <2>3, <2>4, <2>5
<1>15. \A e \in 0 .. MaxFd - 1 : (Keeps(t, e) /\ tracked_fd'[e] = tracked_fd[e]) \/ AgreeFd(e)'
  BY <1>2, <1>11, <1>12, ConstFacts
<1>16. \A r \in Streams : KeepsFh(t, r) \/ (AgreeFh(r)' /\ Pair(r)')
  BY <1>13, <1>14
<1> QED
  BY <1>4, <1>9, <1>10, <1>15, <1>16, StepAgrees

\* dup2: the number changes its file, and the entry is still to be written.
LEMMA RealDup2Agrees ==
    ASSUME Inv, NEW t \in Threads, RealDup2(t)
    PROVE  After
<1> USE DEF Inv
<1>1. /\ call[t] = "dup2" /\ pc[t] = "real" /\ pc' = [pc EXCEPT ![t] = "track"]
      /\ UNCHANGED <<call, fd, fh, file, hash, bad, stream, tracked_fd, tracked_fh, vchild, off>>
  BY DEF RealDup2, Goto, op, tables
<1>2. PICK d : d = fd[t]
  OBVIOUS
<1>3. d \in Fds /\ fh[t] = NoStream /\ file[t] \in Files
  BY <1>1, <1>2 DEF CallInv
<1>4. kern' = IF InVforkChild(t) THEN kern ELSE [kern EXCEPT ![d] = file[t]]
  BY <1>2, <1>3, SetKernFacts, ZenonT(60) DEF RealDup2
<1>5. FrameOp(t) /\ pc'[t] = "track" /\ call'[t] = "dup2" /\ fd'[t] = d
  BY <1>1, <1>2 DEF FrameOp, TypeOK
<1>6. CASE InVforkChild(t)
  BY <1>1, <1>4, <1>5, <1>6, ChildAgrees
<1>7. CASE ~InVforkChild(t)
  <2>1. /\ \A r \in Streams : stream[r] # d
        /\ \A u \in Threads \ {t} : ~Holds(u, d)
    BY <1>1, <1>2, <1>3, <1>7, HeldByOne, ConstFacts DEF Changing, Calls
  <2>2. kern'[d] = file[t] /\ \A e \in Fds \ {d} : kern'[e] = kern[e]
    BY <1>3, <1>4, <1>7 DEF TypeOK
  <2>3. FrameTables(t)
    BY <1>1, <2>1, <2>2 DEF FrameTables
  <2>4. TableOK(t)' /\ Names(t)'
    BY <1>1, <1>5, <2>2 DEF TableOK, Names
  <2>5. \A e \in Fds \ {d} : Keeps(t, e)
    BY <1>1, <1>2, <2>2 DEF Keeps, Holds
  <2>6. AgreeFd(d)'
    BY <1>1, <1>5, <1>7 DEF AgreeFd, Busy, InVforkChild
  <2>7. \A r \in Streams : KeepsFh(t, r)
    BY <1>1, <1>3, <2>1, <2>5, ConstFacts DEF KeepsFh
  <2>8. \A e \in 0 .. MaxFd - 1 : (Keeps(t, e) /\ tracked_fd'[e] = tracked_fd[e]) \/ AgreeFd(e)'
    BY <1>1, <2>5, <2>6, ConstFacts
  <2> QED
    BY <1>5, <2>3, <2>4, <2>7, <2>8, StepAgrees
<1> QED
  BY <1>6, <1>7

\* What one entry of the table becomes.
LEMMA SetFdFacts ==
    ASSUME TypeOK, NEW d \in Fds, NEW h, SetFd(d, h)
    PROVE  /\ d < MaxFd => tracked_fd'[d] = h
           /\ \A e \in 0 .. MaxFd - 1 : e # d => tracked_fd'[e] = tracked_fd[e]
BY FdConstants DEF SetFd, TypeOK, Fds

\* Track writes the entries of its number and FILE*, which is right unless
\* the hash is not the file's, or a vfork child writes.
LEMMA TrackAgrees ==
    ASSUME Inv, NEW t \in Threads, Track(t)
    PROVE  After
<1> USE DEF Inv
<1>1. PICK d, s : d = fd[t] /\ s = fh[t]
  OBVIOUS
<1>2. /\ SetFd(d, hash[t]) /\ vchild' = vchild /\ kern' = kern /\ stream' = stream
      /\ tracked_fh' = [r \in Streams |-> IF r = s THEN hash[t] ELSE tracked_fh[r]]
      /\ off' = IF InVforkChild(t) \/ Mistaken(t) THEN Off({d, s}) ELSE off \ {d, s}
  BY <1>1 DEF Track, kernel
<1>3. /\ TableOK(t)' /\ Names(t)' /\ FrameOp(t)
      /\ pc[t] = "track" /\ call'[t] = "none" /\ fd'[t] = NoFd /\ fh'[t] = NoStream
  BY <1>2, ReturnKnows DEF Track
<1>4. /\ d \in Fds /\ call[t] \in {"open", "fopen", "popen", "fdopen", "dup2", "freopen"}
      /\ s \in Streams \/ s = NoStream
      /\ InVforkChild(t) => s = NoStream
  BY <1>1, <1>3 DEF CallInv, TypeOK, Calls
<1>5. /\ d < MaxFd => tracked_fd'[d] = hash[t]
      /\ \A e \in 0 .. MaxFd - 1 : e # d => tracked_fd'[e] = tracked_fd[e]
  BY <1>2, <1>4, SetFdFacts
<1>6. d \in 0 .. MaxFd - 1 /\ (InVforkChild(t) \/ Mistaken(t)) => d \in off'
  BY <1>2 DEF Off, Entries
<1>7. s \in Streams /\ Mistaken(t) => s \in off'
  BY <1>2 DEF Off, Entries
<1>8. CASE InVforkChild(t)
  <2>1. tracked_fh' = tracked_fh
    BY <1>2, <1>4, <1>8, ConstFacts DEF TypeOK
  <2>2. off \subseteq off'
    BY <1>2, <1>8 DEF Off
  <2>3. \A e \in 0 .. MaxFd - 1 : e \in off' \/ tracked_fd'[e] = tracked_fd[e]
    BY <1>5, <1>6, <1>8
  <2> QED
    BY <1>2, <1>3, <1>8, <2>1, <2>2, <2>3, ChildAgrees
<1>9. CASE ~InVforkChild(t)
  <2>1. kern[d] = file[t]
    BY <1>1, <1>3, <1>9 DEF CallTables, TableOK
  <2>2. /\ \A r \in Streams : stream[r] = d => r = s
        /\ \A u \in Threads \ {t} : ~Holds(u, d) /\ (fh[u] \in Streams => fh[u] # s)
    BY <1>1, <1>3, <1>4, <1>9, HeldByOne DEF Changing, Calls
  <2>3. s \in Streams => stream[s] = d
    BY <1>1 DEF HoldInv, FhOfFd
  <2>4. \A x : x # d /\ x # s /\ x \in off => x \in off'
    BY <1>2 DEF Off
  <2>5. FrameTables(t)
    <3>1. \A e \in Fds : e # d =>
             (e \in off => e \in off') /\ (e < MaxFd => tracked_fd'[e] = tracked_fd[e])
      BY <1>4, <1>5, <2>4, ConstFacts, FdConstants DEF Fds
    <3>2. \A r \in Streams : r # s => tracked_fh'[r] = tracked_fh[r] /\ (r \in off => r \in off')
      BY <1>2, <1>4, <2>4, ConstFacts
    <3> QED
      BY <1>2, <2>2, <3>1, <3>2 DEF FrameTables
  <2>6. \A e \in Fds \ {d} : Keeps(t, e)
    BY <1>1, <1>2, <1>4, <2>4, ConstFacts DEF Keeps, Holds
  <2>7. d \in 0 .. MaxFd - 1 => AgreeFd(d)'
    BY <1>2, <1>5, <1>6, <2>1, ConstFacts DEF AgreeFd, Mistaken, HashOf
  <2>8. \A r \in Streams \ {s} : KeepsFh(t, r)
    BY <1>1, <1>2, <1>4, <2>2, <2>4, <2>6, ConstFacts DEF KeepsFh
  <2>9. s \in Streams => AgreeFh(s)' /\ Pair(s)'
    <3> SUFFICES ASSUME s \in Streams PROVE AgreeFh(s)' /\ Pair(s)'
      OBVIOUS
    <3>1. stream'[s] = d /\ kern'[d] = file[t] /\ tracked_fh'[s] = hash[t] /\ d # NoFd
      BY <1>2, <1>4, <2>1, <2>3, ConstFacts
    <3>2. CASE Mistaken(t)
      <4>1. s \in off' /\ (d >= MaxFd \/ d \in off')
        BY <1>4, <1>6, <1>7, <3>2, ConstFacts
      <4> QED
        BY <3>1, <4>1 DEF AgreeFh, Pair
    <3>3. CASE ~Mistaken(t)
      <4>1. hash[t] = HashOf(file[t]) /\ (hash[t] = NoHash => file[t] \notin Traced)
        BY <3>3, ConstFacts DEF Mistaken
      <4> QED
        BY <3>1, <4>1 DEF AgreeFh, Pair, HashOf
    <3> QED
      BY <3>2, <3>3
  <2>10. \A e \in 0 .. MaxFd - 1 : (Keeps(t, e) /\ tracked_fd'[e] = tracked_fd[e]) \/ AgreeFd(e)'
    BY <1>5, <2>6, <2>7, ConstFacts
  <2>11. \A r \in Streams : KeepsFh(t, r) \/ (AgreeFh(r)' /\ Pair(r)')
    BY <2>8, <2>9
  <2> QED
    BY <1>3, <2>5, <2>10, <2>11, StepAgrees
<1> QED
  BY <1>8, <1>9

\* close, fclose and freopen: the entries are cleared while the number is held.
LEMMA UntrackAgrees ==
    ASSUME Inv, NEW t \in Threads, Untrack(t)
    PROVE  After
<1> USE DEF Inv
<1>1. PICK d, s : d = fd[t] /\ s = fh[t]
  OBVIOUS
<1>2. /\ pc[t] = "untrack" /\ pc' = [pc EXCEPT ![t] = "real"]
      /\ UNCHANGED <<kern, stream, vchild, call, fd, fh, file, hash, bad>>
      /\ tracked_fh' = [r \in Streams |-> IF r = s THEN NoHash ELSE tracked_fh[r]]
      /\ off' = IF InVforkChild(t) THEN off ELSE off \ {d, s}
  BY <1>1 DEF Untrack, Goto, kernel, op
<1>3. FrameOp(t) /\ pc'[t] = "real"
  BY <1>2 DEF FrameOp, TypeOK
<1>4. /\ call[t] \in {"close", "fclose", "freopen"} /\ d \in Fds
      /\ s \in Streams \/ s = NoStream
      /\ call[t] \in {"fclose", "freopen"} => s \in Streams
      /\ InVforkChild(t) => call[t] = "close" /\ s = NoStream
  BY <1>1, <1>2 DEF CallInv, TypeOK, Calls, HoldInv, FhOfFd
<1>5. CASE InVforkChild(t)
  <2>1. tracked_fd' = tracked_fd
    BY <1>4, <1>5 DEF Untrack, RemoveTrace
  <2>2. tracked_fh' = tracked_fh
    BY <1>2, <1>4, <1>5, ConstFacts DEF TypeOK
  <2> QED
    BY <1>2, <1>3, <1>4, <1>5, <2>1, <2>2, ChildAgrees
<1>6. CASE ~InVforkChild(t)
  <2>1. SetFd(d, NoHash)
    BY <1>1, <1>6 DEF Untrack, RemoveTrace
  <2>2. /\ d < MaxFd => tracked_fd'[d] = NoHash
        /\ \A e \in 0 .. MaxFd - 1 : e # d => tracked_fd'[e] = tracked_fd[e]
    BY <1>4, <2>1, SetFdFacts
  <2>3. /\ \A r \in Streams : stream[r] = d => r = s
        /\ \A u \in Threads \ {t} : ~Holds(u, d) /\ (fh[u] \in Streams => fh[u] # s)
    BY <1>1, <1>2, <1>4, <1>6, HeldByOne DEF Changing, Calls
  <2>4. \A x : x # d /\ x # s /\ x \in off => x \in off'
    BY <1>2
  <2>5. FrameTables(t)
    <3>1. \A e \in Fds : e # d =>
             (e \in off => e \in off') /\ (e < MaxFd => tracked_fd'[e] = tracked_fd[e])
      BY <1>4, <2>2, <2>4, ConstFacts, FdConstants DEF Fds
    <3>2. \A r \in Streams : r # s => tracked_fh'[r] = tracked_fh[r] /\ (r \in off => r \in off')
      BY <1>2, <1>4, <2>4, ConstFacts
    <3> QED
      BY <1>2, <2>3, <3>1, <3>2 DEF FrameTables
  <2>6. TableOK(t)' /\ Names(t)'
    <3>1. TableOK(t)
      BY <1>6 DEF CallTables
    <3>2. Clear(d)'
      BY <1>4, <2>2, FdConstants DEF Clear, Fds
    <3>3. Clear(fd[t])'
      BY <1>1, <1>2, <3>2 DEF Clear
    <3>4. call[t] \in {"fclose", "freopen"} => tracked_fh'[fh'[t]] = NoHash
      BY <1>1, <1>2, <1>4
    <3>5. ~(call[t] = "freopen" /\ hash[t] = NoHash /\ Mistaken(t))
      BY <1>2, <3>1 DEF TableOK
    <3> QED
      BY <1>2, <1>3, <1>4, <3>3, <3>4, <3>5 DEF TableOK, Names, Mistaken, HashOf
  <2>7. \A e \in Fds \ {d} : Keeps(t, e)
    BY <1>1, <1>2, <1>3, <1>4, <1>6, <2>4, ConstFacts DEF Keeps, Holds
  <2>8. AgreeFd(d)' /\ Busy(d)'
    BY <1>1, <1>2, <1>3, <1>4, <1>6 DEF AgreeFd, Busy, InVforkChild
  <2>9. \A r \in Streams \ {s} : KeepsFh(t, r)
    BY <1>1, <1>2, <1>4, <2>3, <2>4, <2>7, ConstFacts DEF KeepsFh
  <2>10. s \in Streams => AgreeFh(s)' /\ Pair(s)'
    <3> SUFFICES ASSUME s \in Streams PROVE AgreeFh(s)' /\ Pair(s)'
      OBVIOUS
    <3>1. stream'[s] = d
      BY <1>1, <1>2 DEF HoldInv, FhOfFd
    <3>2. Busy(stream[s])'
      BY <2>8, <3>1 DEF Busy
    <3>3. AgreeFh(s)'
      BY <1>1, <1>2, <1>4 DEF AgreeFh
    <3> QED
      BY <3>2, <3>3 DEF Pair
  <2>11. \A e \in 0 .. MaxFd - 1 : (Keeps(t, e) /\ tracked_fd'[e] = tracked_fd[e]) \/ AgreeFd(e)'
    BY <2>2, <2>7, <2>8, ConstFacts
  <2>12. \A r \in Streams : KeepsFh(t, r) \/ (AgreeFh(r)' /\ Pair(r)')
    BY <2>9, <2>10
  <2> QED
    BY <1>3, <2>5, <2>6, <2>11, <2>12, StepAgrees
<1> QED
  BY <1>5, <1>6

\* The real close: the entry is clear, or the number becomes an exception.
LEMMA RealCloseAgrees ==
    ASSUME Inv, NEW t \in Threads, RealClose(t)
    PROVE  After
<1> USE DEF Inv
<1>1. PICK d, s : d = fd[t] /\ s = fh[t]
  OBVIOUS
<1>2. /\ call[t] \in {"close", "closedir", "fclose", "pclose"}
      /\ vchild' = vchild /\ tracked_fd' = tracked_fd /\ tracked_fh' = tracked_fh
      /\ stream' = [r \in Streams |-> IF r = s THEN NoFd ELSE stream[r]]
      /\ off' = IF call[t] \in {"closedir", "pclose"} /\ hash[t] # NoHash THEN Off({d, s}) ELSE off
  BY <1>1 DEF RealClose, tables
<1>3. /\ pc[t] = "real" /\ FrameOp(t) /\ Names(t)' /\ TableOK(t)' /\ call'[t] # "look"
      /\ ~(pc'[t] # "late" /\ fd'[t] = d /\ d # NoFd)
  <2>1. CASE call[t] = "closedir" /\ hash[t] # NoHash
    <3>1. /\ pc[t] = "real" /\ pc' = [pc EXCEPT ![t] = "late"]
          /\ UNCHANGED <<call, fd, fh, file, hash, bad>>
      BY <2>1 DEF RealClose, Goto, op
    <3>2. pc'[t] = "late" /\ call'[t] = "closedir"
      BY <2>1, <3>1 DEF TypeOK
    <3>3. TableOK(t)' /\ Names(t)'
      BY <3>2 DEF TableOK, Names
    <3> QED
      BY <1>2, <3>1, <3>2, <3>3 DEF FrameOp, TypeOK
  <2>2. CASE ~(call[t] = "closedir" /\ hash[t] # NoHash)
    <3>1. Return(t, "real")
      BY <2>2 DEF RealClose
    <3> QED
      BY <1>2, <3>1, ReturnKnows
  <2> QED
    BY <2>1, <2>2
<1>4. /\ d \in Fds
      /\ s \in Streams \/ s = NoStream
      /\ call[t] \in {"fclose", "pclose"} <=> s \in Streams
      /\ InVforkChild(t) => s = NoStream /\ call[t] = "close"
  BY <1>1, <1>2, ConstFacts DEF CallInv, HoldInv, FhOfFd
<1>5. kern' = IF InVforkChild(t) THEN kern ELSE [kern EXCEPT ![d] = NoFile]
  BY <1>1, SetKernFacts DEF RealClose
<1>6. off \subseteq off'
  BY <1>2 DEF Off
<1>7. CASE InVforkChild(t)
  <2>1. stream' = stream
    BY <1>2, <1>4, <1>7, ConstFacts DEF TypeOK
  <2> QED
    BY <1>2, <1>3, <1>5, <1>6, <1>7, <2>1, ChildAgrees
<1>8. CASE ~InVforkChild(t)
  <2>1. kern'[d] = NoFile /\ \A e \in Fds \ {d} : kern'[e] = kern[e]
    BY <1>4, <1>5, <1>8 DEF TypeOK
  <2>2. /\ \A r \in Streams : stream[r] = d => r = s
        /\ \A u \in Threads \ {t} : ~Holds(u, d) /\ (fh[u] \in Streams => fh[u] # s)
    BY <1>1, <1>2, <1>3, <1>4, <1>8, HeldByOne DEF Changing, Calls
  <2>3. FrameTables(t)
    BY <1>2, <1>6, <2>1, <2>2 DEF FrameTables
  <2>4. \A e \in Fds \ {d} : Keeps(t, e)
    BY <1>1, <1>6, <2>1 DEF Keeps, Holds
  <2>5. TableOK(t)
    BY <1>8 DEF CallTables
  <2>6. d \in 0 .. MaxFd - 1 => AgreeFd(d)'
    <3> SUFFICES ASSUME d \in 0 .. MaxFd - 1 PROVE AgreeFd(d)'
      OBVIOUS
    <3>1. CASE call[t] \in {"closedir", "pclose"} /\ hash[t] # NoHash
      BY <1>2, <3>1 DEF Off, Entries, AgreeFd
    <3>2. CASE ~(call[t] \in {"closedir", "pclose"} /\ hash[t] # NoHash)
      <4>1. Clear(d)
        BY <1>1, <1>2, <1>3, <2>5, <3>2 DEF TableOK
      <4>2. d \in off' \/ tracked_fd'[d] = NoHash
        BY <1>2, <1>6, <4>1, ConstFacts DEF Clear
      <4> QED
        BY <2>1, <4>2, ConstFacts DEF AgreeFd, HashOf
    <3> QED
      BY <3>1, <3>2
  <2>7. \A r \in Streams \ {s} : KeepsFh(t, r)
    BY <1>1, <1>2, <1>6, <2>2, <2>4 DEF KeepsFh
  <2>8. s \in Streams => AgreeFh(s)' /\ Pair(s)'
    <3> SUFFICES ASSUME s \in Streams PROVE AgreeFh(s)' /\ Pair(s)'
      OBVIOUS
    <3>1. stream'[s] = NoFd
      BY <1>2
    <3>2. CASE call[t] = "pclose" /\ hash[t] # NoHash
      BY <1>2, <3>1, <3>2 DEF Off, Entries, AgreeFh, Pair
    <3>3. CASE ~(call[t] = "pclose" /\ hash[t] # NoHash)
      <4>1. tracked_fh[s] = NoHash
        BY <1>1, <1>3, <1>4, <2>5, <3>3 DEF TableOK
      <4> QED
        BY <1>2, <3>1, <4>1 DEF AgreeFh, Pair
    <3> QED
      BY <3>2, <3>3
  <2>9. \A e \in 0 .. MaxFd - 1 : (Keeps(t, e) /\ tracked_fd'[e] = tracked_fd[e]) \/ AgreeFd(e)'
    BY <1>2, <2>4, <2>6, ConstFacts
  <2>10. \A r \in Streams : KeepsFh(t, r) \/ (AgreeFh(r)' /\ Pair(r)')
    BY <2>7, <2>8
  <2> QED
    BY <1>3, <2>3, <2>9, <2>10, StepAgrees
<1> QED
  BY <1>7, <1>8

\* closedir's late untracking of a number somebody else may have by now.
LEMMA UntrackLateAgrees ==
    ASSUME Inv, NEW t \in Threads, UntrackLate(t)
    PROVE  After
<1> USE DEF Inv
<1>1. PICK d : d = fd[t]
  OBVIOUS
<1>2. /\ UNCHANGED <<kern, stream, tracked_fh, vchild>>
      /\ off' = IF kern[d] = NoFile THEN off \ {d} ELSE Off({d})
  BY <1>1 DEF UntrackLate, kernel
<1>3. /\ TableOK(t)' /\ Names(t)' /\ FrameOp(t) /\ pc[t] = "late"
  BY <1>2, ReturnKnows DEF UntrackLate
<1>4. call[t] = "closedir" /\ d \in Fds /\ fh[t] = NoStream /\ ~InVforkChild(t)
  BY <1>1, <1>3 DEF CallInv, TypeOK, Calls
<1>5. /\ d < MaxFd => tracked_fd'[d] = NoHash
      /\ \A e \in 0 .. MaxFd - 1 : e # d => tracked_fd'[e] = tracked_fd[e]
  BY <1>1, <1>4, SetFdFacts DEF UntrackLate, RemoveTrace
<1>6. /\ \A x : x # d /\ x \in off => x \in off'
      /\ kern[d] # NoFile => off \subseteq off' /\ (d \in 0 .. MaxFd - 1 => d \in off')
  BY <1>2 DEF Off, Entries
<1>7. kern[d] = NoFile => /\ \A u \in Threads : ~Holds(u, d)
                          /\ \A r \in Streams : stream[r] # d
  BY <1>4, Unused
<1>8. FrameTables(t)
  <2>1. \A e \in Fds : (kern[d] # NoFile \/ e # d) =>
           (e \in off => e \in off') /\ (e < MaxFd => e \in off' \/ tracked_fd'[e] = tracked_fd[e])
    BY <1>5, <1>6, FdConstants DEF Fds
  <2>2. \A r \in Streams : r \in off => r \in off'
    BY <1>4, <1>6, ConstFacts
  <2> QED
    BY <1>2, <1>7, <2>1, <2>2 DEF FrameTables
<1>9. \A e \in Fds : kern[d] # NoFile \/ e # d => Keeps(t, e)
  BY <1>2, <1>3, <1>6 DEF Keeps, Holds
<1>10. d \in 0 .. MaxFd - 1 => AgreeFd(d)'
  BY <1>2, <1>5, <1>6, ConstFacts DEF AgreeFd, HashOf
<1>11. \A r \in Streams : KeepsFh(t, r)
  BY <1>2, <1>4, <1>6, <1>7, <1>9, ConstFacts DEF KeepsFh
<1>12. \A e \in 0 .. MaxFd - 1 : (Keeps(t, e) /\ tracked_fd'[e] = tracked_fd[e]) \/ AgreeFd(e)'
  BY <1>5, <1>9, <1>10, ConstFacts
<1> QED
  BY <1>3, <1>8, <1>11, <1>12, StepAgrees

\* freopen: the FILE* keeps its number, which is on another file or closed.
LEMMA RealFreopenAgrees ==
    ASSUME Inv, NEW t \in Threads, RealFreopen(t)
    PROVE  After
<1> USE DEF Inv
<1>1. PICK d, s : d = fd[t] /\ s = fh[t]
  OBVIOUS
<1>2. call[t] = "freopen" /\ UNCHANGED <<tracked_fd, tracked_fh, vchild, off>>
  BY DEF RealFreopen, tables
<1>3. PICK f \in {file[t], NoFile} :
         /\ kern' = [kern EXCEPT ![d] = f]
         /\ \/ /\ f = file[t] /\ stream' = stream
               /\ IF hash[t] = NoHash THEN Return(t, "real")
                                      ELSE Goto(t, "real", "track") /\ UNCHANGED op
            \/ f = NoFile /\ stream' = [stream EXCEPT ![s] = NoFd] /\ Return(t, "real")
  <2>1. CASE kern' = [kern EXCEPT ![d] = file[t]] /\ stream' = stream
             /\ IF hash[t] = NoHash THEN Return(t, "real")
                                    ELSE Goto(t, "real", "track") /\ UNCHANGED op
    BY <2>1
  <2>2. CASE kern' = [kern EXCEPT ![d] = NoFile] /\ stream' = [stream EXCEPT ![s] = NoFd]
             /\ Return(t, "real")
    BY <2>2
  <2> QED
    BY <1>1, <2>1, <2>2 DEF RealFreopen
<1>4. s \in Streams /\ stream[s] = d /\ d \in Fds /\ ~InVforkChild(t) /\ file[t] \in Files
  BY <1>1, <1>2 DEF CallInv, HoldInv, FhOfFd
<1>5. pc[t] = "real"
  BY <1>3 DEF Return, Goto
<1>6. /\ Clear(d) /\ tracked_fh[s] = NoHash
      /\ hash[t] = NoHash /\ Mistaken(t) => (d >= MaxFd \/ d \in off) /\ s \in off
  BY <1>1, <1>2, <1>4, <1>5 DEF CallTables, TableOK
<1>7. /\ \A r \in Streams : stream[r] = d => r = s
      /\ \A u \in Threads \ {t} : ~Holds(u, d) /\ (fh[u] \in Streams => fh[u] # s)
  BY <1>1, <1>2, <1>4, <1>5, HeldByOne DEF Changing, Calls
<1>8. kern'[d] = f /\ \A e \in Fds \ {d} : kern'[e] = kern[e]
  BY <1>3, <1>4 DEF TypeOK
<1>9. FrameTables(t)
  BY <1>2, <1>7, <1>8 DEF FrameTables
<1>10. \A e \in Fds \ {d} : Keeps(t, e)
  BY <1>1, <1>2, <1>8 DEF Keeps, Holds
<1>11. \A r \in Streams \ {s} : KeepsFh(t, r)
  BY <1>1, <1>2, <1>3, <1>7, <1>10 DEF KeepsFh, TypeOK
<1>12. CASE Return(t, "real")
  <2>1. TableOK(t)' /\ Names(t)' /\ FrameOp(t)
    BY <1>2, <1>12, ReturnKnows
  <2>2. \/ stream'[s] = NoFd /\ f = NoFile
        \/ stream'[s] = d /\ f = file[t] /\ hash[t] = NoHash
    <3>1. pc'[t] = "idle"
      BY <1>12 DEF Return, Goto, TypeOK
    <3>2. ~(Goto(t, "real", "track") /\ UNCHANGED op)
      BY <3>1 DEF Goto, TypeOK
    <3>3. CASE f = file[t] /\ stream' = stream /\ hash[t] = NoHash
      BY <1>4, <3>3
    <3>4. CASE f = NoFile /\ stream' = [stream EXCEPT ![s] = NoFd]
      BY <1>4, <3>4 DEF TypeOK
    <3> QED
      BY <1>3, <3>2, <3>3, <3>4
  <2>3. AgreeFd(d)' \/ d \notin 0 .. MaxFd - 1
    BY <1>2, <1>6, <1>8, <2>2, ConstFacts DEF AgreeFd, Clear, Mistaken, HashOf
  <2>4. AgreeFh(s)' /\ Pair(s)'
    <3>1. CASE stream'[s] = NoFd
      BY <1>2, <1>6, <3>1 DEF AgreeFh, Pair
    <3>2. CASE stream'[s] = d /\ f = file[t] /\ hash[t] = NoHash /\ Mistaken(t)
      BY <1>2, <1>6, <3>2 DEF AgreeFh, Pair
    <3>3. CASE stream'[s] = d /\ f = file[t] /\ hash[t] = NoHash /\ ~Mistaken(t)
      <4>1. HashOf(f) = NoHash /\ f \notin Traced
        BY <3>3, ConstFacts DEF Mistaken
      <4> QED
        BY <1>2, <1>4, <1>6, <1>8, <3>3, <4>1, ConstFacts DEF AgreeFh, Pair, HashOf
    <3> QED
      BY <2>2, <3>1, <3>2, <3>3
  <2>5. \A e \in 0 .. MaxFd - 1 : (Keeps(t, e) /\ tracked_fd'[e] = tracked_fd[e]) \/ AgreeFd(e)'
    BY <1>2, <1>10, <2>3, ConstFacts
  <2>6. \A r \in Streams : KeepsFh(t, r) \/ (AgreeFh(r)' /\ Pair(r)')
    BY <1>11, <2>4
  <2> QED
    BY <1>9, <2>1, <2>5, <2>6, StepAgrees
<1>13. CASE ~Return(t, "real")
  <2>1. /\ hash[t] # NoHash /\ f = file[t] /\ stream' = stream
        /\ pc' = [pc EXCEPT ![t] = "track"] /\ UNCHANGED <<call, fd, fh, file, hash, bad>>
    BY <1>3, <1>13 DEF Goto, op
  <2>2. FrameOp(t) /\ pc'[t] = "track"
    BY <1>2, <2>1 DEF FrameOp, TypeOK
  <2>3. TableOK(t)' /\ Names(t)'
    BY <1>1, <1>2, <1>8, <2>1, <2>2 DEF TableOK, Names
  <2>4. Busy(d)'
    BY <1>1, <1>2, <1>4, <2>1, <2>2 DEF Busy, InVforkChild
  <2>5. AgreeFh(s)'
    BY <1>1, <1>2, <2>1 DEF AgreeFh
  <2>6. Busy(stream[s])'
    BY <1>4, <2>1, <2>4 DEF Busy
  <2>7. \A e \in 0 .. MaxFd - 1 : (Keeps(t, e) /\ tracked_fd'[e] = tracked_fd[e]) \/ AgreeFd(e)'
    BY <1>2, <1>10, <2>4, ConstFacts DEF AgreeFd
  <2>8. \A r \in Streams : KeepsFh(t, r) \/ (AgreeFh(r)' /\ Pair(r)')
    BY <1>11, <2>5, <2>6 DEF Pair
  <2> QED
    BY <1>9, <2>2, <2>3, <2>7, <2>8, StepAgrees
<1> QED
  BY <1>12, <1>13

\* close_range: no other call is under way, or a vfork child makes it.
LEMMA CloseRangeAgrees ==
    ASSUME Inv, NEW t \in Threads, CloseRange(t)
    PROVE  After
<1> USE DEF Inv
<1>1. PICK a \in Fds, b \in Fds :
         /\ pc[t] = "idle"
         /\ InVforkChild(t) \/ (vchild = NoThread /\ \A u \in Threads : pc[u] = "idle")
         /\ \A d \in a .. b : ~Owned(t, d)
         /\ SetKern(t, [d \in Fds |-> IF d \in a .. b THEN NoFile ELSE Kern(t)[d]])
         /\ tracked_fd' = [d \in 0 .. MaxFd - 1 |->
                             IF d \in a .. b /\ ~InVforkChild(t) THEN NoHash ELSE tracked_fd[d]]
         /\ off' = IF InVforkChild(t) THEN off ELSE off \ (a .. b)
  BY DEF CloseRange
<1>2. UNCHANGED <<stream, tracked_fh, vchild, pc, call, fd, fh, file, hash, bad>>
  BY DEF CloseRange, op
<1>3. FrameOp(t)
  BY <1>2 DEF FrameOp
<1>4. call[t] = "none" /\ fd[t] = NoFd /\ fh[t] = NoStream
  BY <1>1 DEF TypeOK, CallInv
<1>5. CASE InVforkChild(t)
  <2>1. kern' = kern /\ off' = off
    BY <1>1, <1>5 DEF SetKern
  <2>2. \A e \in 0 .. MaxFd - 1 : tracked_fd'[e] = tracked_fd[e]
    BY <1>1, <1>5
  <2> QED
    BY <1>2, <1>3, <1>4, <1>5, <2>1, <2>2, ChildAgrees
<1>6. CASE ~InVforkChild(t)
  <2>1. \A u \in Threads : fd[u] = NoFd /\ fh[u] = NoStream
    BY <1>1, <1>6 DEF CallInv
  <2>2. \A u \in Threads, e \in Fds : ~Holds(u, e)
    BY <2>1, ConstFacts DEF Holds
  <2>3. FrameTables(t)
    BY <2>1, <2>2, ConstFacts DEF FrameTables
  <2>4. kern' = [d \in Fds |-> IF d \in a .. b THEN NoFile ELSE kern[d]]
    BY <1>1, <1>6 DEF SetKern, Kern
  <2>5. TableOK(t)' /\ Names(t)'
    BY <1>1, <1>2, <1>4 DEF TableOK, Names
  <2>6. \A e \in Fds : e \notin a .. b => Keeps(t, e)
    BY <1>1, <2>2, <2>4 DEF Keeps
  <2>7. \A e \in 0 .. MaxFd - 1 : e \in a .. b => AgreeFd(e)'
    BY <1>1, <1>6, <2>4, ConstFacts DEF AgreeFd, HashOf
  <2>8. \A e \in 0 .. MaxFd - 1 : e \notin a .. b => tracked_fd'[e] = tracked_fd[e]
    BY <1>1
  <2>9. \A r \in Streams : stream[r] \notin a .. b /\ r \notin a .. b
    <3>1. \A r \in Streams : stream[r] \notin a .. b
      BY <1>1, <1>6 DEF Owned
    <3>2. \A x \in a .. b : x \in Fds
      BY FdConstants DEF Fds
    <3> QED
      BY <3>1, <3>2, ConstFacts
  <2>10. \A r \in Streams : KeepsFh(t, r)
    BY <1>1, <1>2, <1>4, <2>6, <2>9, ConstFacts DEF KeepsFh
  <2>11. \A e \in 0 .. MaxFd - 1 : (Keeps(t, e) /\ tracked_fd'[e] = tracked_fd[e]) \/ AgreeFd(e)'
    BY <2>6, <2>7, <2>8, ConstFacts
  <2> QED
    BY <1>3, <2>3, <2>5, <2>10, <2>11, StepAgrees
<1> QED
  BY <1>5, <1>6

\* vfork and its end: the thread is between two calls.
LEMMA VforkAgrees ==
    ASSUME Inv, NEW t \in Threads, Vfork(t) \/ VforkEnd(t)
    PROVE  After
<1> USE DEF Inv
<1>1. /\ pc[t] = "idle"
      /\ UNCHANGED <<kern, stream, tracked_fd, tracked_fh, pc, call, fd, fh, file, hash, bad, off>>
      /\ {vchild, vchild'} = {t, NoThread}
  BY DEF Vfork, VforkEnd, tables, op, InVforkChild
<1>2. FrameOp(t)
  BY <1>1, FdConstants DEF FrameOp
<1>3. call[t] = "none" /\ fd[t] = NoFd /\ fh[t] = NoStream
  BY <1>1 DEF TypeOK, CallInv
<1>4. FrameTables(t)
  BY <1>1 DEF FrameTables
<1>5. TableOK(t)' /\ Names(t)'
  BY <1>1, <1>3 DEF TableOK, Names
<1>6. \A e \in Fds : Keeps(t, e)
  BY <1>1, <1>3, ConstFacts DEF Keeps, Holds
<1>7. \A r \in Streams : KeepsFh(t, r)
  BY <1>1, <1>3, <1>6, ConstFacts DEF KeepsFh
<1>8. \A e \in 0 .. MaxFd - 1 : Keeps(t, e) /\ tracked_fd'[e] = tracked_fd[e]
  BY <1>1, <1>6, ConstFacts
<1> QED
  BY <1>2, <1>4, <1>5, <1>7, <1>8, StepAgrees

\* Every step keeps what the calls know, the tables and the names.
LEMMA AgreeNext ==
    ASSUME Inv, [Next]_vars
    PROVE  CallTables' /\ Tables' /\ CallNamesItsFile'
<1>2. ASSUME NEW t \in Threads, Looks(t) PROVE After
  BY <1>2, LooksAgree, LookDoneAgrees DEF Looks
<1>3. ASSUME NEW t \in Threads, Opens(t) PROVE After
  BY <1>3, OpensAgree, RealOpenAgrees, RealFailsAgrees, TakesFdAgree, RealFdopenAgrees,
     RealDup2Agrees, TrackAgrees DEF Opens
<1>4. ASSUME NEW t \in Threads, Closes(t) PROVE After
  BY <1>4, TakesFdAgree, TakesFhAgree, UntrackAgrees, RealCloseAgrees, UntrackLateAgrees,
     RealFreopenAgrees, CloseRangeAgrees DEF Closes
<1>5. CASE Next
  BY <1>2, <1>3, <1>4, <1>5, VforkAgrees DEF Next, After
<1>6. CASE UNCHANGED vars
  <2> USE <1>6 DEF Inv, vars, kernel, tables, op
  <2>1. CallTables'
    BY DEF CallTables, TableOK, InVforkChild, Mistaken, HashOf, Sound, Clear
  <2>2. Tables'
    BY DEF Tables, AgreeFd, AgreeFh, Pair, Busy, InVforkChild, HashOf
  <2>3. CallNamesItsFile'
    BY DEF CallNamesItsFile, HashOf
  <2> QED
    BY <2>1, <2>2, <2>3
<1> QED
  BY <1>5, <1>6

-----------------------------------------------------------------------------
(* The theorems *)

\* The program starts with nothing open, nothing tracked and no call.
LEMMA InvInit ==
    ASSUME Init
    PROVE  Inv
<1>1. /\ \A d \in Fds : kern[d] = NoFile
      /\ \A s \in Streams : stream[s] = NoFd /\ tracked_fh[s] = NoHash
      /\ \A d \in 0 .. MaxFd - 1 : tracked_fd[d] = NoHash
      /\ \A t \in Threads : pc[t] = "idle" /\ call[t] = "none" /\ fd[t] = NoFd /\ fh[t] = NoStream
  BY DEF Init
<1>2. TypeOK
  <2>1. bad \in [Threads -> BOOLEAN]
    BY Zenon DEF Init
  <2> QED
    BY <2>1 DEF Init, TypeOK, Hashes, Calls
<1>3. CallInv
  BY <1>1, FdConstants DEF CallInv, Init, InVforkChild
<1>4. HoldInv
  BY <1>1, ConstFacts DEF HoldInv, HeldOpen, HeldAlone, FhOfFd, FdOfFh, StreamOwn, Holds
<1>5. CallTables
  BY <1>1 DEF CallTables, TableOK
<1>6. Tables
  BY <1>1, ConstFacts DEF Tables, AgreeFd, AgreeFh, Pair
<1>7. CallNamesItsFile
  BY <1>1 DEF CallNamesItsFile
<1> QED
  BY <1>2, <1>3, <1>4, <1>5, <1>6, <1>7 DEF Inv

\* Inv is an inductive invariant.
LEMMA InvAlways == Spec => []Inv
<1>1. Init => Inv
  BY InvInit
<1>2. ASSUME Inv, [Next]_vars PROVE Inv'
  BY <1>2, TypeNext, CallNext, HoldNext, AgreeNext DEF Inv
<1> QED
  BY PTL, <1>2, <1>1 DEF Spec

\* Every variable of the tables, the wrappers and the kernel keeps its type.
THEOREM FdTyping == Spec => []TypeOK
<1>1. Inv => TypeOK
  BY DEF Inv
<1> QED
  BY <1>1, InvAlways, PTL

\* However the wrappers of any number of threads interleave, between calls
\* tracked_fd and tracked_fh hold the hash of the file that each number and
\* each FILE* is on, and nothing for a closed one, but for the exceptions off.
THEOREM FdTableAgrees == Spec => []TableAgrees
<1>1. Inv => TableAgrees
  BY DEF Inv, Tables, AgreeFd, AgreeFh, TableAgrees
<1> QED
  BY <1>1, InvAlways, PTL

\* The event of a call that looks its number or FILE* up (is_traced) names the
\* file that the call goes to, until the real call is over.
THEOREM FdCallNamesItsFile == Spec => []CallNamesItsFile
<1>1. Inv => CallNamesItsFile
  BY DEF Inv
<1> QED
  BY <1>1, InvAlways, PTL

=============================================================================
