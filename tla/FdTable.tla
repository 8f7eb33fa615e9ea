-------------------------------- MODULE FdTable --------------------------------
(***************************************************************************)
(* The POSIX and STDIO interceptors (core/brahma/posix.h, posix.cpp,       *)
(* stdio.h, stdio.cpp): which descriptor numbers and which FILE* are       *)
(* traced, and under which file's hash.                                    *)
(*                                                                         *)
(* A wrapper is up to four steps: DFT_LOGGER_START looks its operand up;   *)
(* some wrappers untrack; the real call changes the kernel's descriptors;  *)
(* some wrappers track what it returned.  The threads of the application   *)
(* interleave between them.  The kernel and libc are external: open takes  *)
(* the lowest free number, and a FILE* address is any free one.            *)
(*                                                                         *)
(* The application is assumed correct: it uses and closes only numbers it  *)
(* was given, closes nothing another thread is using, closes the number of *)
(* a FILE* with the FILE*, and calls close_range from its only thread.  A  *)
(* file opened through a directory's number is traced under the directory, *)
(* so it is the same file here.                                            *)
(*                                                                         *)
(* The history variable off holds the numbers and FILE* whose entry one of *)
(* the wrappers is known to leave wrong: pclose, closedir when its number  *)
(* is reused at once, openat by path, and whatever a vfork child writes.   *)
(***************************************************************************)
EXTENDS Naturals

CONSTANTS
    Threads,
    Numbers,     \* descriptor numbers the kernel hands out: 0 .. Numbers - 1
    MaxFd,       \* max_fd: numbers the table has room for
    Streams,     \* addresses of FILE*
    Traced,      \* files under a traced prefix, each its own hash
    Untraced,    \* other files, and pipes
    NoFile, NoHash, NoThread, NoStream

ASSUME FdConstants ==
    /\ Numbers \in Nat /\ MaxFd \in 0 .. Numbers
    /\ Traced \cap Untraced = {} /\ NoFile \notin Traced \cup Untraced
    /\ NoHash \notin Traced
    /\ NoThread \notin Threads /\ NoStream \notin Streams \cup 0 .. Numbers
    /\ \A d \in 0 .. Numbers : d \notin Streams

Fds    == 0 .. Numbers - 1
NoFd   == Numbers             \* -1 in the code
Files  == Traced \cup Untraced
Hashes == Traced \cup {NoHash}
Entries == 0 .. MaxFd - 1 \cup Streams      \* of the two tables
Calls  == {"none", "look", "open", "fopen", "popen", "fdopen", "dup2",
           "close", "closedir", "fclose", "pclose", "freopen"}

VARIABLES
    kern,        \* the process's descriptors: the file each number is open on
    ckern,       \* those of a vfork child, which shares all other state
    stream,      \* the number behind each FILE*, or NoFd
    pipes,       \* the FILE* that popen returned
    tracked_fd,  \* POSIXDFTracer::tracked_fd
    tracked_fh,  \* STDIODFTracer::tracked_fh
    vchild,      \* the thread whose vfork child is running, or NoThread
    pc,          \* per thread: next step of its wrapper
    call,        \* per thread: the wrapper
    fd,          \* per thread: the number it acts on, or got
    fh,          \* per thread: the FILE* it acts on, or got
    file,        \* per thread: the file it opens, or that its number is open on
    hash,        \* per thread: fhash
    bad,         \* history, per thread: a call that only looks up met a wrong entry
    off          \* history, see above

kernel == <<kern, ckern, stream, pipes>>
tables == <<tracked_fd, tracked_fh>>
op     == <<call, fd, fh, file, hash, bad>>
vars   == <<kernel, tables, vchild, pc, op, off>>

Init ==
    /\ kern = [d \in Fds |-> NoFile]
    /\ ckern = [d \in Fds |-> NoFile]
    /\ stream = [s \in Streams |-> NoFd]
    /\ pipes = {}
    /\ tracked_fd = [d \in 0 .. MaxFd - 1 |-> NoHash]
    /\ tracked_fh = [s \in Streams |-> NoHash]
    /\ vchild = NoThread
    /\ pc = [t \in Threads |-> "idle"]
    /\ call = [t \in Threads |-> "none"]
    /\ fd = [t \in Threads |-> NoFd] /\ fh = [t \in Threads |-> NoStream]
    /\ file = [t \in Threads |-> NoFile] /\ hash = [t \in Threads |-> NoHash]
    /\ bad = [t \in Threads |-> FALSE]
    /\ off = {}

----------------------------------------------------------------------------
(* Look-ups and table writes *)

\* is_traced(filename)
HashOf(f) == IF f \in Traced THEN f ELSE NoHash

\* is_traced(fd)
IsTraced(d) == IF d < MaxFd THEN tracked_fd[d] ELSE NoHash

\* Mutant of SetFd: without the bound, a write past the end of the table.
SetFdUnbounded(d, h) == tracked_fd' = [x \in DOMAIN tracked_fd \cup {d} |-> IF x = d THEN h ELSE tracked_fd[x]]

\* trace(fd, hash)
SetFd(d, h) == tracked_fd' = IF d < MaxFd THEN [tracked_fd EXCEPT ![d] = h] ELSE tracked_fd

\* in_vfork_child
InVforkChild(t) == vchild = t

\* Mutant of RemoveTrace: a vfork child's close untracks the parent's number.
RemoveTraceInChild(t, d) == SetFd(d, NoHash)

\* remove_trace(fd)
RemoveTrace(t, d) == IF InVforkChild(t) THEN UNCHANGED tracked_fd ELSE SetFd(d, NoHash)

\* The descriptors that thread t's calls, or its vfork child's, act on.
Kern(t)       == IF InVforkChild(t) THEN ckern ELSE kern
SetKern(t, k) == IF InVforkChild(t) THEN ckern' = k /\ UNCHANGED kern
                                    ELSE kern' = k /\ UNCHANGED ckern

\* What the application keeps to: Using(t, d) by another thread of t's
\* process excludes closing d, Closing(t, d) excludes using it.
Peers(t)       == {u \in Threads \ {t} : ~InVforkChild(t) /\ ~InVforkChild(u)}
Using(t, d)    == \E u \in Peers(t) : fd[u] = d /\ pc[u] # "late"
Closing(t, d)  == \E u \in Peers(t) : fd[u] = d /\ pc[u] # "late" /\ call[u] # "look"
Owned(t, d)    == ~InVforkChild(t) /\ \E s \in Streams : stream[s] = d
MayUse(t, d)   == Kern(t)[d] # NoFile /\ ~Closing(t, d)
MayClose(t, d) == Kern(t)[d] # NoFile /\ ~Using(t, d) /\ ~Owned(t, d)
MayUseFh(t, s)   == ~InVforkChild(t) /\ stream[s] # NoFd /\ ~Closing(t, stream[s])
MayCloseFh(t, s) == ~InVforkChild(t) /\ stream[s] # NoFd /\ ~Using(t, stream[s])

\* The entries xs may be wrong from now on; a wrapper's hash is not its file's.
Off(xs)     == off \cup (xs \cap Entries)
Mistaken(t) == hash[t] # HashOf(file[t])

\* A look-up of s, or of d without one, may not read the hash of its file.
Wrong(t, d, s) == IF s # NoStream THEN s \in off
                  ELSE d \in off \/ (d >= MaxFd /\ Kern(t)[d] \in Traced)

\* DFT_LOGGER_START: begin wrapper c on number d and FILE* s, for file f, with
\* the hash h looked up.
Start(t, next, c, d, s, f, h) ==
    /\ pc[t] = "idle"
    /\ pc' = [pc EXCEPT ![t] = next] /\ call' = [call EXCEPT ![t] = c]
    /\ fd' = [fd EXCEPT ![t] = d] /\ fh' = [fh EXCEPT ![t] = s]
    /\ file' = [file EXCEPT ![t] = f] /\ hash' = [hash EXCEPT ![t] = h]
    /\ bad' = [bad EXCEPT ![t] = c = "look" /\ Wrong(t, d, s)]
    /\ UNCHANGED <<kernel, tables, vchild, off>>

Goto(t, a, b) == pc[t] = a /\ pc' = [pc EXCEPT ![t] = b]

\* From a back to the application.
Return(t, a)  ==
    /\ Goto(t, a, "idle") /\ call' = [call EXCEPT ![t] = "none"]
    /\ fd' = [fd EXCEPT ![t] = NoFd] /\ fh' = [fh EXCEPT ![t] = NoStream]
    /\ file' = [file EXCEPT ![t] = NoFile] /\ hash' = [hash EXCEPT ![t] = NoHash]
    /\ bad' = [bad EXCEPT ![t] = FALSE]

----------------------------------------------------------------------------
(* Wrappers that only look an operand up *)

\* preadv2 ... sync_file_range, and the calls on a DIR*: by number
DescriptorCall(t) == \E d \in Fds : MayUse(t, d) /\ ~InVforkChild(t)
    /\ Start(t, "real", "look", d, NoStream, NoFile, IsTraced(d))

\* traced_aio_fd: the first of two numbers that is traced, else -1
TracedAioFd(d, e) == CASE IsTraced(d) # NoHash -> d [] IsTraced(e) # NoHash -> e [] OTHER -> NoFd

\* aio_read ... lio_listio: by the first traced number of the list
AioCall(t) == \E d, e \in Fds :
    LET a == TracedAioFd(d, e) IN
    /\ MayUse(t, d) /\ MayUse(t, e) /\ ~InVforkChild(t) /\ a # NoFd
    /\ Start(t, "real", "look", a, NoStream, NoFile, IsTraced(a))

\* fread ... fputs: by FILE*
StreamCall(t) == \E s \in Streams : MayUseFh(t, s)
    /\ Start(t, "real", "look", stream[s], s, NoFile, tracked_fh[s])

\* The real call of these, and DFT_LOGGER_END.
LookDone(t) ==
    /\ call[t] = "look"
    /\ Return(t, "real")
    /\ UNCHANGED <<kernel, tables, vchild, off>>

----------------------------------------------------------------------------
(* Wrappers that open *)

\* open, creat, opendir, openat64, mkstemp
Open(t) == \E f \in Files : Start(t, "real", "open", NoFd, NoStream, f, HashOf(f))

\* openat looks up the directory's number, which AT_FDCWD does not have.
OpenAt(t) ==
    \/ \E d \in Fds : MayUse(t, d)
          /\ Start(t, "real", "open", NoFd, NoStream, Kern(t)[d], IsTraced(d))
    \/ \E f \in Files : Start(t, "real", "open", NoFd, NoStream, f, NoHash)

\* dup, and fcntl with F_DUPFD
Dup(t) == \E d \in Fds : MayUse(t, d)
    /\ Start(t, "real", "open", NoFd, NoStream, Kern(t)[d], IsTraced(d))

\* fopen, popen: the command of popen is looked up as a path
Fopen(t) == \E f \in Files, c \in {"fopen", "popen"} :
    ~InVforkChild(t) /\ Start(t, "real", c, NoFd, NoStream, f, HashOf(f))

Lowest(k, d) == k[d] = NoFile /\ \A e \in Fds : e < d => k[e] # NoFile

\* The real call returned d and s: track them, unless there is no hash.
Got(t, d, s) ==
    IF hash[t] = NoHash THEN Return(t, "real")
    ELSE /\ Goto(t, "real", "track")
         /\ fd' = [fd EXCEPT ![t] = d] /\ fh' = [fh EXCEPT ![t] = s]
         /\ UNCHANGED <<call, file, hash, bad>>

\* The real open, dup, fopen or popen
RealOpen(t) ==
    /\ call[t] \in {"open", "fopen", "popen"}
    /\ \E d \in Fds, s \in Streams \cup {NoStream} :
          /\ Lowest(Kern(t), d)
          /\ SetKern(t, [Kern(t) EXCEPT ![d] = file[t]])
          /\ IF call[t] = "open" THEN s = NoStream ELSE s # NoStream /\ stream[s] = NoFd
          /\ stream' = [x \in Streams |-> IF x = s THEN d ELSE stream[x]]
          /\ pipes' = IF call[t] = "popen" THEN pipes \cup {s} ELSE pipes
          /\ Got(t, d, s)
          /\ off' = IF hash[t] = NoHash /\ Mistaken(t) /\ ~InVforkChild(t) THEN Off({d, s}) ELSE off
    /\ UNCHANGED <<tables, vchild>>

\* The real call fails: trace(-1, hash) and trace(nullptr, hash) do nothing.
RealFails(t) ==
    /\ call[t] \in {"open", "fopen", "popen", "fdopen", "dup2"}
    /\ Return(t, "real")
    /\ UNCHANGED <<kernel, tables, vchild, off>>

\* fdopen
Fdopen(t) == \E d \in Fds : MayClose(t, d) /\ ~InVforkChild(t)
    /\ Start(t, "real", "fdopen", d, NoStream, kern[d], IsTraced(d))

RealFdopen(t) ==
    /\ call[t] = "fdopen"
    /\ \E s \in {x \in Streams : stream[x] = NoFd} :
          /\ stream' = [stream EXCEPT ![s] = fd[t]]
          /\ Got(t, fd[t], s)
          /\ off' = IF hash[t] = NoHash /\ Mistaken(t) THEN Off({s}) ELSE off
    /\ UNCHANGED <<kern, ckern, pipes, tables, vchild>>

\* dup2, dup3: onto an open number nothing else uses; a vfork child onto any.
\* (With one number for both they are a DescriptorCall.)
Dup2(t) == \E d, e \in Fds :
    /\ d # e /\ MayUse(t, d)
    /\ InVforkChild(t) \/ MayClose(t, e)
    /\ Start(t, "real", "dup2", e, NoStream, Kern(t)[d], IsTraced(d))

\* Mutant of RealDup2: the entry is written only for a traced source.
RealDup2IfTraced(t) ==
    /\ call[t] = "dup2"
    /\ SetKern(t, [Kern(t) EXCEPT ![fd[t]] = file[t]])
    /\ IF hash[t] = NoHash THEN Return(t, "real") ELSE Goto(t, "real", "track") /\ UNCHANGED op
    /\ UNCHANGED <<stream, pipes, tables, vchild, off>>

\* The entry of the new number is then written whatever the hash.
RealDup2(t) ==
    /\ call[t] = "dup2"
    /\ SetKern(t, [Kern(t) EXCEPT ![fd[t]] = file[t]])
    /\ Goto(t, "real", "track")
    /\ UNCHANGED <<op, stream, pipes, tables, vchild, off>>

\* this->trace(ret, fhash), in STDIO with trace_stream_fd
Track(t) ==
    LET wrote == {fd[t], fh[t]} IN
    /\ Return(t, "track")
    /\ SetFd(fd[t], hash[t])
    /\ tracked_fh' = [s \in Streams |-> IF s = fh[t] THEN hash[t] ELSE tracked_fh[s]]
    /\ off' = IF InVforkChild(t) \/ Mistaken(t) THEN Off(wrote) ELSE off \ wrote
    /\ UNCHANGED <<kernel, vchild>>

----------------------------------------------------------------------------
(* Wrappers that close *)

\* close untracks first, if the number is traced
Close(t) == \E d \in Fds : MayClose(t, d)
    /\ Start(t, IF IsTraced(d) = NoHash THEN "real" ELSE "untrack",
             "close", d, NoStream, NoFile, NoHash)

\* fclose, and freopen with a path or to change the mode (no path), too
Fclose(t) == \E s \in Streams \ pipes : MayCloseFh(t, s)
    /\ Start(t, IF tracked_fh[s] = NoHash THEN "real" ELSE "untrack",
             "fclose", stream[s], s, NoFile, NoHash)

Freopen(t) == \E s \in Streams \ pipes, f \in Files \cup {NoFile} : MayCloseFh(t, s)
    /\ Start(t, IF tracked_fh[s] = NoHash THEN "real" ELSE "untrack",
             "freopen", stream[s], s, IF f = NoFile THEN kern[stream[s]] ELSE f,
             IF f = NoFile THEN tracked_fh[s] ELSE HashOf(f))

\* closedir does not untrack before the real call, pclose not at all
Closedir(t) == \E d \in Fds : MayClose(t, d) /\ ~InVforkChild(t)
    /\ Start(t, "real", "closedir", d, NoStream, NoFile, IsTraced(d))

Pclose(t) == \E s \in pipes : MayCloseFh(t, s)
    /\ Start(t, "real", "pclose", stream[s], s, NoFile, tracked_fh[s])

\* if (trace) this->remove_trace(...)
Untrack(t) ==
    /\ Goto(t, "untrack", "real")
    /\ IF call[t] = "close" THEN RemoveTrace(t, fd[t]) ELSE SetFd(fd[t], NoHash)
    /\ tracked_fh' = [s \in Streams |-> IF s = fh[t] THEN NoHash ELSE tracked_fh[s]]
    /\ off' = IF InVforkChild(t) THEN off ELSE off \ {fd[t], fh[t]}
    /\ UNCHANGED <<kernel, vchild, op>>

RealClose(t) ==
    /\ call[t] \in {"close", "closedir", "fclose", "pclose"}
    /\ SetKern(t, [Kern(t) EXCEPT ![fd[t]] = NoFile])
    /\ stream' = [s \in Streams |-> IF s = fh[t] THEN NoFd ELSE stream[s]]
    /\ pipes' = pipes \ {fh[t]}
    /\ IF call[t] = "closedir" /\ hash[t] # NoHash
       THEN Goto(t, "real", "late") /\ UNCHANGED op
       ELSE Return(t, "real")
    /\ off' = IF call[t] \in {"closedir", "pclose"} /\ hash[t] # NoHash
              THEN Off({fd[t], fh[t]}) ELSE off
    /\ UNCHANGED <<tables, vchild>>

\* closedir's remove_trace: right only if nobody has the number yet
UntrackLate(t) ==
    /\ Return(t, "late")
    /\ RemoveTrace(t, fd[t])
    /\ off' = IF kern[fd[t]] = NoFile THEN off \ {fd[t]} ELSE Off({fd[t]})
    /\ UNCHANGED <<kernel, tracked_fh, vchild>>

\* The real freopen keeps the number; a failure closes it.  trace_reopened:
\* without a path the hash is the one the FILE* had.
RealFreopen(t) ==
    /\ call[t] = "freopen"
    /\ \/ /\ kern' = [kern EXCEPT ![fd[t]] = file[t]]
          /\ UNCHANGED stream
          /\ IF hash[t] = NoHash THEN Return(t, "real") ELSE Goto(t, "real", "track") /\ UNCHANGED op
       \/ /\ kern' = [kern EXCEPT ![fd[t]] = NoFile]
          /\ stream' = [stream EXCEPT ![fh[t]] = NoFd]
          /\ Return(t, "real")
    /\ UNCHANGED <<ckern, pipes, tables, vchild, off>>

\* close_range, closefrom: the whole range is untracked before the real call,
\* but not by a vfork child
CloseRange(t) == \E a, b \in Fds :
    /\ pc[t] = "idle"
    /\ InVforkChild(t) \/ (vchild = NoThread /\ \A u \in Threads : pc[u] = "idle")
    /\ \A d \in a .. b : ~Owned(t, d)
    /\ SetKern(t, [d \in Fds |-> IF d \in a .. b THEN NoFile ELSE Kern(t)[d]])
    /\ tracked_fd' = [d \in 0 .. MaxFd - 1 |->
                        IF d \in a .. b /\ ~InVforkChild(t) THEN NoHash ELSE tracked_fd[d]]
    /\ off' = IF InVforkChild(t) THEN off ELSE off \ (a .. b)
    /\ UNCHANGED <<stream, pipes, tracked_fh, vchild, pc, op>>

----------------------------------------------------------------------------
(* vfork: the child runs in the thread's place until it execs or exits *)

Vfork(t) ==
    /\ pc[t] = "idle" /\ vchild = NoThread
    /\ vchild' = t /\ ckern' = kern
    /\ UNCHANGED <<kern, stream, pipes, tables, pc, op, off>>

VforkEnd(t) ==
    /\ pc[t] = "idle" /\ InVforkChild(t)
    /\ vchild' = NoThread /\ ckern' = [d \in Fds |-> NoFile]
    /\ UNCHANGED <<kern, stream, pipes, tables, pc, op, off>>

Looks(t)  == DescriptorCall(t) \/ AioCall(t) \/ StreamCall(t) \/ LookDone(t)
Opens(t)  == \/ Open(t) \/ OpenAt(t) \/ Dup(t) \/ Fopen(t) \/ RealOpen(t) \/ RealFails(t)
             \/ Fdopen(t) \/ RealFdopen(t) \/ Dup2(t) \/ RealDup2(t) \/ Track(t)
Closes(t) == \/ Close(t) \/ Fclose(t) \/ Freopen(t) \/ Closedir(t) \/ Pclose(t) \/ Untrack(t)
             \/ RealClose(t) \/ UntrackLate(t) \/ RealFreopen(t) \/ CloseRange(t)
Next == \E t \in Threads : Looks(t) \/ Opens(t) \/ Closes(t) \/ Vfork(t) \/ VforkEnd(t)

Spec == Init /\ [][Next]_vars

----------------------------------------------------------------------------
(* Properties *)

\* Every variable has its type, and a thread between calls has no operands.
TypeOK ==
    /\ kern \in [Fds -> Files \cup {NoFile}] /\ ckern \in [Fds -> Files \cup {NoFile}]
    /\ stream \in [Streams -> Fds \cup {NoFd}] /\ pipes \subseteq Streams
    /\ tracked_fd \in [0 .. MaxFd - 1 -> Hashes] /\ tracked_fh \in [Streams -> Hashes]
    /\ vchild \in Threads \cup {NoThread}
    /\ pc \in [Threads -> {"idle", "untrack", "real", "track", "late"}]
    /\ call \in [Threads -> Calls]
    /\ fd \in [Threads -> Fds \cup {NoFd}] /\ fh \in [Threads -> Streams \cup {NoStream}]
    /\ file \in [Threads -> Files \cup {NoFile}] /\ hash \in [Threads -> Hashes]
    /\ bad \in [Threads -> BOOLEAN]
    /\ off \subseteq Entries
    /\ \A t \in Threads : pc[t] = "idle" <=> call[t] = "none"

\* A wrapper of the process is about to change, or has changed, number d.
Busy(d) == \E t \in Threads : ~InVforkChild(t) /\ fd[t] = d /\ pc[t] # "late"
                               /\ call[t] # "look"

\* Between calls the tables hold the hash of the file each number and each
\* FILE* is open on, and nothing for a closed one, through every interleaving
\* of the wrappers (close and fclose untrack before the real close can hand the
\* number or the address out again, open tracks after the real open) and
\* whatever a vfork child closes; off holds the exceptions.
TableAgrees ==
    /\ \A d \in 0 .. MaxFd - 1 :
           Busy(d) \/ d \in off \/ tracked_fd[d] = HashOf(kern[d])
    /\ \A s \in Streams :
           \/ \E t \in Threads : fh[t] = s /\ call[t] # "look"
           \/ s \in off
           \/ tracked_fh[s] = IF stream[s] = NoFd THEN NoHash ELSE HashOf(kern[stream[s]])

\* The event of a call on a number or a FILE* names the file it really goes to,
\* from the look-up to the end of the real call.
CallNamesItsFile == \A t \in Threads :
    call[t] = "look" /\ ~bad[t] => hash[t] = HashOf(kern[fd[t]])

================================================================================
