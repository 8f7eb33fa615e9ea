-------------------------- MODULE ServiceBufferProofs --------------------------
(***************************************************************************)
(* The safety properties of ServiceBuffer, for any number of threads,      *)
(* events and flushes.                                                     *)
(***************************************************************************)
EXTENDS ServiceBuffer, TLAPS

\* Program points: inside emit() or emit_control(), with a registered slot, of
\* the spill manager's creation and use, of ~ThreadRef, of flush_all.
Emitting  == {"alive", "orphan_lock", "register", "cas", "push", "release", "release_fail"}
WithSlot  == {"cas", "push", "release", "release_fail"}
Creating  == {"spill_init", "spill_open", "spill_flock"}
Spilling  == {"spill", "spill_lock", "spill_log"} \cup Creating
Exiting   == {"exit_cas", "exit_flush", "exit_erase"}
Flushing  == {"flush_lock", "flush_slot", "flush_publish"}

\* What the call a thread is in is for.
CallInv ==
    \A t \in Threads :
        /\ pc[t] \in Emitting => goal[t] \in {"event", "bye"}
        /\ pc[t] \in Spilling => goal[t] = "event"
        /\ pc[t] \in Exiting => exited[t] /\ goal[t] = "exit"
        /\ pc[t] \in Flushing => goal[t] \in {"flush", "bye"}
        /\ pc[t] = "flush_spill" => goal[t] = "flush"
        /\ pc[t] \in {"fin_ready", "fin_spill"} => goal[t] = "bye"
        /\ pc[t] = "orphan_lock" => exited[t]
        /\ goal[t] = "bye" => t = Main
        /\ InCall(t) => nev[t] \in 1 .. MaxEvents

\* A slot outside slots_ holds nothing: it has not been used yet, or its thread
\* published its block before it took the slot out.
SlotInv ==
    /\ \A s \in Slots :
          /\ s \notin slots => block[s] = {}
          /\ state[s] # "none" => s \in slots \/ (s \in Threads /\ exited[s])
          /\ state[s] = "DEAD" => s \in Threads /\ exited[s] /\ block[s] = {}
    /\ \A t \in Threads :
          /\ pc[t] \in WithSlot => MySlot(t) \in slots
          /\ pc[t] = "exit_erase" => block[t] = {}
          /\ pc[t] = "flush_publish" => state[cursor] # "none"

\* The thread that has set a slot's word to BUSY, and not yet back.
Owns(t, s) ==
    \/ pc[t] \in {"push", "release", "release_fail"} /\ s = MySlot(t)
    \/ pc[t] = "exit_flush" /\ s = t
    \/ pc[t] = "flush_publish" /\ s = cursor

\* If no CAS fails spuriously, a slot has one owner, and is BUSY while it does.
OwnInv ==
    /\ \A t \in Threads : pc[t] = "register" => state[MySlot(t)] = "none"
    /\ \A s \in Slots, t \in Threads : Owns(t, s) => state[s] = "BUSY"
    /\ \A s \in Slots, t, u \in Threads : Owns(t, s) /\ Owns(u, s) => t = u

\* The spill manager is created once, and after finalize() not used again.
SpillInv ==
    /\ \A t \in Threads : pc[t] \in Creating => spill = "none"
    /\ spill # "ready" => spillbuf = {}
    /\ finalized \/ spill = "finalized" => ~ready
    /\ \A t \in Threads :
          goal[t] = "bye" /\ pc[t] \in Flushing \cup {"fin_spill"} => ~ready

\* If the spill file opens, the manager in use has it open.
OpenInv ==
    /\ spill = "ready" => writable
    /\ \A t \in Threads : pc[t] \in {"spill_open", "spill_flock"} => writable

\* Event e is on its way to the node trace, or counted as dropped.
Kept(e) ==
    \/ e \in published \cup traced \cup spillfile \cup dropped \cup spillbuf
    \/ \E s \in Slots : e \in block[s]

\* Every event whose log call has returned is kept, until finalize() ends the
\* accepting of events; those logged before finalize() are kept for ever, and
\* no call still under way is one of theirs.
KeptInv ==
    /\ ready => \A e \in Events :
          e[2] <= nev[e[1]] /\ ~(e = Event(e[1]) /\ InCall(e[1])) => Kept(e)
    /\ \A t \in Threads : pc[t] = "release" /\ goal[t] = "event" => Kept(Event(t))
    /\ \A e \in before : Kept(e) /\ e[2] <= nev[e[1]]
    /\ \A t \in Threads : InCall(t) => Event(t) \notin before

\* The slots that finalize() has visited, and not given up, hold none of them;
\* nor does the spill manager's buffer when it has returned.
WalkInv ==
    /\ pc[Main] \in {"flush_slot", "flush_publish"} /\ goal[Main] = "bye" =>
          \A s \in Slots \ (todo \cup gaveup) : block[s] \cap before = {}
    /\ pc[Main] = "fin_spill" \/ finalized =>
          \A s \in Slots \ gaveup : block[s] \cap before = {}
    /\ finalized => spillbuf \cap before = {}


------------------------------------------------------------
\* Every step keeps the types, and gives mutexes to, and takes them from, the
\* threads that enter and leave their sections.
LEMMA TypeNext ==
    ASSUME TypeOK, CallInv, [Next]_vars
    PROVE  TypeOK'
<1> USE ServiceBufferConstants DEF process, thread, events, history, At, TypeOK, LocksHeld,
      CallInv, Slots, MySlot, Events, Event, InCall, Emitting, WithSlot, Creating, Spilling,
      Exiting, Flushing, Points
<1>1. ASSUME NEW t \in Threads, Log(t) PROVE TypeOK'
  BY <1>1 DEF Log
<1>2. ASSUME NEW t \in Threads, Exit(t) PROVE TypeOK'
  BY <1>2 DEF Exit
<1>3. ASSUME NEW t \in Threads, Flush(t) PROVE TypeOK'
  BY <1>3 DEF Flush
<1>4. ASSUME NEW t \in Threads, Finalize(t) PROVE TypeOK'
  BY <1>4 DEF Finalize
<1>5. ASSUME NEW t \in Threads, ServiceGone(t) PROVE TypeOK'
  BY <1>5 DEF ServiceGone, NotPushed
<1>6. ASSUME NEW t \in Threads, ServiceAlive(t) PROVE TypeOK'
  <2>1. [backoff EXCEPT ![t] = FALSE] \in [Threads -> BOOLEAN]
    BY Zenon
  <2>2. backoff' \in [Threads -> BOOLEAN]
    BY <1>6, <2>1 DEF ServiceAlive
  <2>3. pc' \in [Threads -> Points] /\ LocksHeld'
    BY <1>6 DEF ServiceAlive, Acquire
  <2> QED
    BY <1>6, <2>2, <2>3 DEF ServiceAlive
<1>7. ASSUME NEW t \in Threads, OrphanLock(t) PROVE TypeOK'
  BY <1>7 DEF OrphanLock
<1>8. ASSUME NEW t \in Threads, Register(t) PROVE TypeOK'
  BY <1>8 DEF Register
<1>9. ASSUME NEW t \in Threads, AcquireCas(t) PROVE TypeOK'
  BY <1>9 DEF AcquireCas
<1>10. ASSUME NEW t \in Threads, PushOK(t) PROVE TypeOK'
  BY <1>10 DEF PushOK
<1>11. ASSUME NEW t \in Threads, PushFails(t) PROVE TypeOK'
  BY <1>11 DEF PushFails
<1>12. ASSUME NEW t \in Threads, Release(t) PROVE TypeOK'
  <2>1. [backoff EXCEPT ![t] = TRUE] \in [Threads -> BOOLEAN]
    BY Zenon
  <2>2. backoff' \in [Threads -> BOOLEAN]
    BY <1>12, <2>1 DEF Release
  <2>3. pc' \in [Threads -> Points] /\ LocksHeld'
    BY <1>12 DEF Release, NotPushed
  <2> QED
    BY <1>12, <2>2, <2>3 DEF Release
<1>13. ASSUME NEW t \in Threads, SpillGet(t) PROVE TypeOK'
  BY <1>13 DEF SpillGet
<1>14. ASSUME NEW t \in Threads, SpillLock(t) PROVE TypeOK'
  BY <1>14 DEF SpillLock
<1>15. ASSUME NEW t \in Threads, SpillInit(t) PROVE TypeOK'
  <2>1. writable' \in BOOLEAN
    BY <1>15, Zenon DEF SpillInit
  <2> QED
    BY <1>15, <2>1 DEF SpillInit
<1>16. ASSUME NEW t \in Threads, SpillOpen(t) PROVE TypeOK'
  BY <1>16 DEF SpillOpen
<1>17. ASSUME NEW t \in Threads, SpillFlock(t) PROVE TypeOK'
  BY <1>17 DEF SpillFlock
<1>18. ASSUME NEW t \in Threads, SpillLog(t) PROVE TypeOK'
  BY <1>18 DEF SpillLog, WriteOut
<1>19. ASSUME NEW t \in Threads, ExitCas(t) PROVE TypeOK'
  BY <1>19 DEF ExitCas
<1>20. ASSUME NEW t \in Threads, ExitFlush(t) PROVE TypeOK'
  BY <1>20 DEF ExitFlush
<1>21. ASSUME NEW t \in Threads, ExitErase(t) PROVE TypeOK'
  BY <1>21 DEF ExitErase
<1>22. ASSUME NEW t \in Threads, FinReady(t) PROVE TypeOK'
  <2>1. pc' \in [Threads -> Points] /\ LocksHeld'
    BY <1>22 DEF FinReady
  <2>2. ready' \in BOOLEAN
    BY <1>22 DEF FinReady
  <2> QED
    BY <1>22, <2>1, <2>2 DEF FinReady
<1>23. ASSUME NEW t \in Threads, FlushLock(t) PROVE TypeOK'
  BY <1>23 DEF FlushLock
<1>24. ASSUME NEW t \in Threads, FlushPublish(t) PROVE TypeOK'
  BY <1>24 DEF FlushPublish
<1>25. ASSUME NEW t \in Threads, FlushDone(t) PROVE TypeOK'
  BY <1>25 DEF FlushDone
<1>26. ASSUME NEW t \in Threads, FlushSpill(t) PROVE TypeOK'
  BY <1>26 DEF FlushSpill, WriteOut
<1>27. ASSUME NEW t \in Threads, FinSpill(t) PROVE TypeOK'
  <2>1. finalized' \in BOOLEAN /\ writable' \in BOOLEAN /\ lock_fd' \in BOOLEAN
    BY <1>27, Zenon DEF FinSpill
  <2> QED
    BY <1>27, <2>1 DEF FinSpill, WriteOut
<1>28. ASSUME NEW t \in Threads, NEW s \in Slots, FlushCas(t, s) PROVE TypeOK'
  BY <1>28 DEF FlushCas
<1>29. ASSUME NEW t \in Threads, NEW s \in Slots, FlushSpurious(t, s) PROVE TypeOK'
  BY <1>29 DEF FlushSpurious
<1>30. ASSUME NEW t \in Threads, NEW s \in Slots, FlushSkip(t, s) PROVE TypeOK'
  BY <1>30 DEF FlushSkip
<1>31. CASE Drain
  BY <1>31 DEF Drain
<1>32. ASSUME NEW s \in Slots, TakeOver(s) PROVE TypeOK'
  BY <1>32 DEF TakeOver
<1>33. CASE StopStep
  BY <1>33 DEF StopStep
<1>34. CASE Append
  BY <1>34 DEF Append
<1>35. CASE Unlink
  BY <1>35 DEF Unlink
<1>36. CASE Close
  BY <1>36 DEF Close
<1>37. CASE Crash
  BY <1>37 DEF Crash
<1>38. CASE UNCHANGED vars
  BY <1>38 DEF vars
<1> QED
  BY <1>1, <1>2, <1>3, <1>4, <1>5, <1>6, <1>7, <1>8, <1>9, <1>10, <1>11, <1>12, <1>13, <1>14,
     <1>15, <1>16, <1>17, <1>18, <1>19, <1>20, <1>21, <1>22, <1>23, <1>24, <1>25, <1>26, <1>27,
     <1>28, <1>29, <1>30, <1>31, <1>32, <1>33, <1>34, <1>35, <1>36, <1>37, <1>38 DEF Next,
     CallStep, ServiceStep

\* Every step keeps CallInv: a call ends where its purpose says.
LEMMA CallNext ==
    ASSUME TypeOK, CallInv, [Next]_vars
    PROVE  CallInv'
<1> USE ServiceBufferConstants DEF process, thread, events, history, At, TypeOK, LocksHeld,
      CallInv, Slots, MySlot, InCall, Emitting, WithSlot, Creating, Spilling, Exiting, Flushing,
      Points
<1>1. ASSUME NEW t \in Threads, Log(t) PROVE CallInv'
  BY <1>1 DEF Log
<1>2. ASSUME NEW t \in Threads, Exit(t) PROVE CallInv'
  BY <1>2 DEF Exit
<1>3. ASSUME NEW t \in Threads, Flush(t) PROVE CallInv'
  BY <1>3 DEF Flush
<1>4. ASSUME NEW t \in Threads, Finalize(t) PROVE CallInv'
  BY <1>4 DEF Finalize
<1>5. ASSUME NEW t \in Threads, ServiceGone(t) PROVE CallInv'
  BY <1>5 DEF ServiceGone, NotPushed
<1>6. ASSUME NEW t \in Threads, ServiceAlive(t) PROVE CallInv'
  BY <1>6 DEF ServiceAlive, Acquire
<1>7. ASSUME NEW t \in Threads, OrphanLock(t) PROVE CallInv'
  BY <1>7 DEF OrphanLock
<1>8. ASSUME NEW t \in Threads, Register(t) PROVE CallInv'
  BY <1>8 DEF Register
<1>9. ASSUME NEW t \in Threads, AcquireCas(t) PROVE CallInv'
  BY <1>9 DEF AcquireCas
<1>10. ASSUME NEW t \in Threads, PushOK(t) PROVE CallInv'
  BY <1>10 DEF PushOK
<1>11. ASSUME NEW t \in Threads, PushFails(t) PROVE CallInv'
  BY <1>11 DEF PushFails
<1>12. ASSUME NEW t \in Threads, Release(t) PROVE CallInv'
  BY <1>12 DEF Release, NotPushed
<1>13. ASSUME NEW t \in Threads, SpillGet(t) PROVE CallInv'
  BY <1>13 DEF SpillGet
<1>14. ASSUME NEW t \in Threads, SpillLock(t) PROVE CallInv'
  BY <1>14 DEF SpillLock
<1>15. ASSUME NEW t \in Threads, SpillInit(t) PROVE CallInv'
  BY <1>15 DEF SpillInit
<1>16. ASSUME NEW t \in Threads, SpillOpen(t) PROVE CallInv'
  BY <1>16 DEF SpillOpen
<1>17. ASSUME NEW t \in Threads, SpillFlock(t) PROVE CallInv'
  BY <1>17 DEF SpillFlock
<1>18. ASSUME NEW t \in Threads, SpillLog(t) PROVE CallInv'
  BY <1>18 DEF SpillLog, WriteOut
<1>19. ASSUME NEW t \in Threads, ExitCas(t) PROVE CallInv'
  BY <1>19 DEF ExitCas
<1>20. ASSUME NEW t \in Threads, ExitFlush(t) PROVE CallInv'
  BY <1>20 DEF ExitFlush
<1>21. ASSUME NEW t \in Threads, ExitErase(t) PROVE CallInv'
  BY <1>21 DEF ExitErase
<1>22. ASSUME NEW t \in Threads, FinReady(t) PROVE CallInv'
  BY <1>22 DEF FinReady
<1>23. ASSUME NEW t \in Threads, FlushLock(t) PROVE CallInv'
  BY <1>23 DEF FlushLock
<1>24. ASSUME NEW t \in Threads, FlushPublish(t) PROVE CallInv'
  BY <1>24 DEF FlushPublish
<1>25. ASSUME NEW t \in Threads, FlushDone(t) PROVE CallInv'
  BY <1>25 DEF FlushDone
<1>26. ASSUME NEW t \in Threads, FlushSpill(t) PROVE CallInv'
  BY <1>26 DEF FlushSpill, WriteOut
<1>27. ASSUME NEW t \in Threads, FinSpill(t) PROVE CallInv'
  BY <1>27 DEF FinSpill, WriteOut
<1>28. ASSUME NEW t \in Threads, NEW s \in Slots, FlushCas(t, s) PROVE CallInv'
  BY <1>28 DEF FlushCas
<1>29. ASSUME NEW t \in Threads, NEW s \in Slots, FlushSpurious(t, s) PROVE CallInv'
  BY <1>29 DEF FlushSpurious
<1>30. ASSUME NEW t \in Threads, NEW s \in Slots, FlushSkip(t, s) PROVE CallInv'
  BY <1>30 DEF FlushSkip
<1>31. CASE Drain
  BY <1>31 DEF Drain
<1>32. ASSUME NEW s \in Slots, TakeOver(s) PROVE CallInv'
  BY <1>32 DEF TakeOver
<1>33. CASE StopStep
  BY <1>33 DEF StopStep
<1>34. CASE Append
  BY <1>34 DEF Append
<1>35. CASE Unlink
  BY <1>35 DEF Unlink
<1>36. CASE Close
  BY <1>36 DEF Close
<1>37. CASE Crash
  BY <1>37 DEF Crash
<1>38. CASE UNCHANGED vars
  BY <1>38 DEF vars
<1> QED
  BY <1>1, <1>2, <1>3, <1>4, <1>5, <1>6, <1>7, <1>8, <1>9, <1>10, <1>11, <1>12, <1>13, <1>14,
     <1>15, <1>16, <1>17, <1>18, <1>19, <1>20, <1>21, <1>22, <1>23, <1>24, <1>25, <1>26, <1>27,
     <1>28, <1>29, <1>30, <1>31, <1>32, <1>33, <1>34, <1>35, <1>36, <1>37, <1>38 DEF Next,
     CallStep, ServiceStep

\* Every step keeps SlotInv: a slot leaves slots_ only with its block published.
LEMMA SlotNext ==
    ASSUME TypeOK, CallInv, SlotInv, [Next]_vars
    PROVE  SlotInv'
<1> USE ServiceBufferConstants DEF process, thread, events, history, At, TypeOK, LocksHeld,
      CallInv, Slots, MySlot, SlotInv, Emitting, WithSlot, Creating, Spilling, Exiting,
      Flushing, Points
<1>1. ASSUME NEW t \in Threads, Log(t) PROVE SlotInv'
  BY <1>1 DEF Log
<1>2. ASSUME NEW t \in Threads, Exit(t) PROVE SlotInv'
  BY <1>2 DEF Exit
<1>3. ASSUME NEW t \in Threads, Flush(t) PROVE SlotInv'
  BY <1>3 DEF Flush
<1>4. ASSUME NEW t \in Threads, Finalize(t) PROVE SlotInv'
  BY <1>4 DEF Finalize
<1>5. ASSUME NEW t \in Threads, ServiceGone(t) PROVE SlotInv'
  BY <1>5 DEF ServiceGone, NotPushed
<1>6. ASSUME NEW t \in Threads, ServiceAlive(t) PROVE SlotInv'
  BY <1>6 DEF ServiceAlive, Acquire
<1>7. ASSUME NEW t \in Threads, OrphanLock(t) PROVE SlotInv'
  BY <1>7 DEF OrphanLock
<1>8. ASSUME NEW t \in Threads, Register(t) PROVE SlotInv'
  BY <1>8 DEF Register
<1>9. ASSUME NEW t \in Threads, AcquireCas(t) PROVE SlotInv'
  BY <1>9 DEF AcquireCas
<1>10. ASSUME NEW t \in Threads, PushOK(t) PROVE SlotInv'
  BY <1>10 DEF PushOK
<1>11. ASSUME NEW t \in Threads, PushFails(t) PROVE SlotInv'
  BY <1>11 DEF PushFails
<1>12. ASSUME NEW t \in Threads, Release(t) PROVE SlotInv'
  BY <1>12 DEF Release, NotPushed
<1>13. ASSUME NEW t \in Threads, SpillGet(t) PROVE SlotInv'
  BY <1>13 DEF SpillGet
<1>14. ASSUME NEW t \in Threads, SpillLock(t) PROVE SlotInv'
  BY <1>14 DEF SpillLock
<1>15. ASSUME NEW t \in Threads, SpillInit(t) PROVE SlotInv'
  BY <1>15 DEF SpillInit
<1>16. ASSUME NEW t \in Threads, SpillOpen(t) PROVE SlotInv'
  BY <1>16 DEF SpillOpen
<1>17. ASSUME NEW t \in Threads, SpillFlock(t) PROVE SlotInv'
  BY <1>17 DEF SpillFlock
<1>18. ASSUME NEW t \in Threads, SpillLog(t) PROVE SlotInv'
  BY <1>18 DEF SpillLog, WriteOut
<1>19. ASSUME NEW t \in Threads, ExitCas(t) PROVE SlotInv'
  BY <1>19 DEF ExitCas
<1>20. ASSUME NEW t \in Threads, ExitFlush(t) PROVE SlotInv'
  BY <1>20 DEF ExitFlush
<1>21. ASSUME NEW t \in Threads, ExitErase(t) PROVE SlotInv'
  BY <1>21 DEF ExitErase
<1>22. ASSUME NEW t \in Threads, FinReady(t) PROVE SlotInv'
  BY <1>22 DEF FinReady
<1>23. ASSUME NEW t \in Threads, FlushLock(t) PROVE SlotInv'
  BY <1>23 DEF FlushLock
<1>24. ASSUME NEW t \in Threads, FlushPublish(t) PROVE SlotInv'
  BY <1>24 DEF FlushPublish
<1>25. ASSUME NEW t \in Threads, FlushDone(t) PROVE SlotInv'
  BY <1>25 DEF FlushDone
<1>26. ASSUME NEW t \in Threads, FlushSpill(t) PROVE SlotInv'
  BY <1>26 DEF FlushSpill, WriteOut
<1>27. ASSUME NEW t \in Threads, FinSpill(t) PROVE SlotInv'
  BY <1>27 DEF FinSpill, WriteOut
<1>28. ASSUME NEW t \in Threads, NEW s \in Slots, FlushCas(t, s) PROVE SlotInv'
  BY <1>28 DEF FlushCas
<1>29. ASSUME NEW t \in Threads, NEW s \in Slots, FlushSpurious(t, s) PROVE SlotInv'
  BY <1>29 DEF FlushSpurious
<1>30. ASSUME NEW t \in Threads, NEW s \in Slots, FlushSkip(t, s) PROVE SlotInv'
  BY <1>30 DEF FlushSkip
<1>31. CASE Drain
  BY <1>31 DEF Drain
<1>32. ASSUME NEW s \in Slots, TakeOver(s) PROVE SlotInv'
  BY <1>32 DEF TakeOver
<1>33. CASE StopStep
  BY <1>33 DEF StopStep
<1>34. CASE Append
  BY <1>34 DEF Append
<1>35. CASE Unlink
  BY <1>35 DEF Unlink
<1>36. CASE Close
  BY <1>36 DEF Close
<1>37. CASE Crash
  BY <1>37 DEF Crash
<1>38. CASE UNCHANGED vars
  BY <1>38 DEF vars
<1> QED
  BY <1>1, <1>2, <1>3, <1>4, <1>5, <1>6, <1>7, <1>8, <1>9, <1>10, <1>11, <1>12, <1>13, <1>14,
     <1>15, <1>16, <1>17, <1>18, <1>19, <1>20, <1>21, <1>22, <1>23, <1>24, <1>25, <1>26, <1>27,
     <1>28, <1>29, <1>30, <1>31, <1>32, <1>33, <1>34, <1>35, <1>36, <1>37, <1>38 DEF Next,
     CallStep, ServiceStep

\* Every step keeps OwnInv: a slot's word passes from IDLE to BUSY by one CAS, and
\* only its owner sets it back.
LEMMA OwnNext ==
    ASSUME ~Spurious, TypeOK, CallInv, SlotInv, OwnInv, [Next]_vars
    PROVE  OwnInv'
<1> USE ServiceBufferConstants DEF process, thread, events, history, At, TypeOK, LocksHeld,
      CallInv, Slots, MySlot, SlotInv, OwnInv, Owns, Emitting, WithSlot, Creating, Spilling,
      Exiting, Flushing, Points
<1>1. ASSUME NEW t \in Threads, Log(t) PROVE OwnInv'
  BY <1>1 DEF Log
<1>2. ASSUME NEW t \in Threads, Exit(t) PROVE OwnInv'
  BY <1>2 DEF Exit
<1>3. ASSUME NEW t \in Threads, Flush(t) PROVE OwnInv'
  BY <1>3 DEF Flush
<1>4. ASSUME NEW t \in Threads, Finalize(t) PROVE OwnInv'
  BY <1>4 DEF Finalize
<1>5. ASSUME NEW t \in Threads, ServiceGone(t) PROVE OwnInv'
  BY <1>5 DEF ServiceGone, NotPushed
<1>6. ASSUME NEW t \in Threads, ServiceAlive(t) PROVE OwnInv'
  BY <1>6, SMTT(20) DEF ServiceAlive, Acquire
<1>7. ASSUME NEW t \in Threads, OrphanLock(t) PROVE OwnInv'
  BY <1>7 DEF OrphanLock
<1>8. ASSUME NEW t \in Threads, Register(t) PROVE OwnInv'
  BY <1>8 DEF Register
<1>9. ASSUME NEW t \in Threads, AcquireCas(t) PROVE OwnInv'
  BY <1>9 DEF AcquireCas
<1>10. ASSUME NEW t \in Threads, PushOK(t) PROVE OwnInv'
  BY <1>10 DEF PushOK
<1>11. ASSUME NEW t \in Threads, PushFails(t) PROVE OwnInv'
  BY <1>11 DEF PushFails
<1>12. ASSUME NEW t \in Threads, Release(t) PROVE OwnInv'
  BY <1>12 DEF Release, NotPushed
<1>13. ASSUME NEW t \in Threads, SpillGet(t) PROVE OwnInv'
  BY <1>13 DEF SpillGet
<1>14. ASSUME NEW t \in Threads, SpillLock(t) PROVE OwnInv'
  BY <1>14 DEF SpillLock
<1>15. ASSUME NEW t \in Threads, SpillInit(t) PROVE OwnInv'
  BY <1>15 DEF SpillInit
<1>16. ASSUME NEW t \in Threads, SpillOpen(t) PROVE OwnInv'
  BY <1>16 DEF SpillOpen
<1>17. ASSUME NEW t \in Threads, SpillFlock(t) PROVE OwnInv'
  BY <1>17 DEF SpillFlock
<1>18. ASSUME NEW t \in Threads, SpillLog(t) PROVE OwnInv'
  BY <1>18 DEF SpillLog, WriteOut
<1>19. ASSUME NEW t \in Threads, ExitCas(t) PROVE OwnInv'
  BY <1>19 DEF ExitCas
<1>20. ASSUME NEW t \in Threads, ExitFlush(t) PROVE OwnInv'
  BY <1>20 DEF ExitFlush
<1>21. ASSUME NEW t \in Threads, ExitErase(t) PROVE OwnInv'
  BY <1>21 DEF ExitErase
<1>22. ASSUME NEW t \in Threads, FinReady(t) PROVE OwnInv'
  BY <1>22 DEF FinReady
<1>23. ASSUME NEW t \in Threads, FlushLock(t) PROVE OwnInv'
  BY <1>23 DEF FlushLock
<1>24. ASSUME NEW t \in Threads, FlushPublish(t) PROVE OwnInv'
  BY <1>24 DEF FlushPublish
<1>25. ASSUME NEW t \in Threads, FlushDone(t) PROVE OwnInv'
  BY <1>25 DEF FlushDone
<1>26. ASSUME NEW t \in Threads, FlushSpill(t) PROVE OwnInv'
  BY <1>26 DEF FlushSpill, WriteOut
<1>27. ASSUME NEW t \in Threads, FinSpill(t) PROVE OwnInv'
  BY <1>27 DEF FinSpill, WriteOut
<1>28. ASSUME NEW t \in Threads, NEW s \in Slots, FlushCas(t, s) PROVE OwnInv'
  BY <1>28 DEF FlushCas
<1>29. ASSUME NEW t \in Threads, NEW s \in Slots, FlushSpurious(t, s) PROVE OwnInv'
  BY <1>29 DEF FlushSpurious
<1>30. ASSUME NEW t \in Threads, NEW s \in Slots, FlushSkip(t, s) PROVE OwnInv'
  BY <1>30 DEF FlushSkip
<1>31. CASE Drain
  BY <1>31 DEF Drain
<1>32. ASSUME NEW s \in Slots, TakeOver(s) PROVE OwnInv'
  BY <1>32 DEF TakeOver
<1>33. CASE StopStep
  BY <1>33 DEF StopStep
<1>34. CASE Append
  BY <1>34 DEF Append
<1>35. CASE Unlink
  BY <1>35 DEF Unlink
<1>36. CASE Close
  BY <1>36 DEF Close
<1>37. CASE Crash
  BY <1>37 DEF Crash
<1>38. CASE UNCHANGED vars
  BY <1>38 DEF vars
<1> QED
  BY <1>1, <1>2, <1>3, <1>4, <1>5, <1>6, <1>7, <1>8, <1>9, <1>10, <1>11, <1>12, <1>13, <1>14,
     <1>15, <1>16, <1>17, <1>18, <1>19, <1>20, <1>21, <1>22, <1>23, <1>24, <1>25, <1>26, <1>27,
     <1>28, <1>29, <1>30, <1>31, <1>32, <1>33, <1>34, <1>35, <1>36, <1>37, <1>38 DEF Next,
     CallStep, ServiceStep

\* Every step keeps SpillInv: spill_mtx_ lets one thread create the manager.
LEMMA SpillNext ==
    ASSUME TypeOK, CallInv, SpillInv, [Next]_vars
    PROVE  SpillInv'
<1> USE ServiceBufferConstants DEF process, thread, events, history, At, TypeOK, LocksHeld,
      CallInv, Slots, MySlot, SpillInv, Emitting, WithSlot, Creating, Spilling, Exiting,
      Flushing, Points
<1>1. ASSUME NEW t \in Threads, Log(t) PROVE SpillInv'
  BY <1>1 DEF Log
<1>2. ASSUME NEW t \in Threads, Exit(t) PROVE SpillInv'
  BY <1>2 DEF Exit
<1>3. ASSUME NEW t \in Threads, Flush(t) PROVE SpillInv'
  BY <1>3 DEF Flush
<1>4. ASSUME NEW t \in Threads, Finalize(t) PROVE SpillInv'
  BY <1>4 DEF Finalize
<1>5. ASSUME NEW t \in Threads, ServiceGone(t) PROVE SpillInv'
  BY <1>5 DEF ServiceGone, NotPushed
<1>6. ASSUME NEW t \in Threads, ServiceAlive(t) PROVE SpillInv'
  BY <1>6 DEF ServiceAlive, Acquire
<1>7. ASSUME NEW t \in Threads, OrphanLock(t) PROVE SpillInv'
  BY <1>7 DEF OrphanLock
<1>8. ASSUME NEW t \in Threads, Register(t) PROVE SpillInv'
  BY <1>8 DEF Register
<1>9. ASSUME NEW t \in Threads, AcquireCas(t) PROVE SpillInv'
  BY <1>9 DEF AcquireCas
<1>10. ASSUME NEW t \in Threads, PushOK(t) PROVE SpillInv'
  BY <1>10 DEF PushOK
<1>11. ASSUME NEW t \in Threads, PushFails(t) PROVE SpillInv'
  BY <1>11 DEF PushFails
<1>12. ASSUME NEW t \in Threads, Release(t) PROVE SpillInv'
  BY <1>12 DEF Release, NotPushed
<1>13. ASSUME NEW t \in Threads, SpillGet(t) PROVE SpillInv'
  BY <1>13 DEF SpillGet
<1>14. ASSUME NEW t \in Threads, SpillLock(t) PROVE SpillInv'
  BY <1>14 DEF SpillLock
<1>15. ASSUME NEW t \in Threads, SpillInit(t) PROVE SpillInv'
  BY <1>15 DEF SpillInit
<1>16. ASSUME NEW t \in Threads, SpillOpen(t) PROVE SpillInv'
  BY <1>16 DEF SpillOpen
<1>17. ASSUME NEW t \in Threads, SpillFlock(t) PROVE SpillInv'
  BY <1>17 DEF SpillFlock
<1>18. ASSUME NEW t \in Threads, SpillLog(t) PROVE SpillInv'
  BY <1>18 DEF SpillLog, WriteOut
<1>19. ASSUME NEW t \in Threads, ExitCas(t) PROVE SpillInv'
  BY <1>19 DEF ExitCas
<1>20. ASSUME NEW t \in Threads, ExitFlush(t) PROVE SpillInv'
  BY <1>20 DEF ExitFlush
<1>21. ASSUME NEW t \in Threads, ExitErase(t) PROVE SpillInv'
  BY <1>21 DEF ExitErase
<1>22. ASSUME NEW t \in Threads, FinReady(t) PROVE SpillInv'
  BY <1>22 DEF FinReady
<1>23. ASSUME NEW t \in Threads, FlushLock(t) PROVE SpillInv'
  BY <1>23 DEF FlushLock
<1>24. ASSUME NEW t \in Threads, FlushPublish(t) PROVE SpillInv'
  BY <1>24 DEF FlushPublish
<1>25. ASSUME NEW t \in Threads, FlushDone(t) PROVE SpillInv'
  BY <1>25 DEF FlushDone
<1>26. ASSUME NEW t \in Threads, FlushSpill(t) PROVE SpillInv'
  BY <1>26 DEF FlushSpill, WriteOut
<1>27. ASSUME NEW t \in Threads, FinSpill(t) PROVE SpillInv'
  BY <1>27 DEF FinSpill, WriteOut
<1>28. ASSUME NEW t \in Threads, NEW s \in Slots, FlushCas(t, s) PROVE SpillInv'
  BY <1>28 DEF FlushCas
<1>29. ASSUME NEW t \in Threads, NEW s \in Slots, FlushSpurious(t, s) PROVE SpillInv'
  BY <1>29 DEF FlushSpurious
<1>30. ASSUME NEW t \in Threads, NEW s \in Slots, FlushSkip(t, s) PROVE SpillInv'
  BY <1>30 DEF FlushSkip
<1>31. CASE Drain
  BY <1>31 DEF Drain
<1>32. ASSUME NEW s \in Slots, TakeOver(s) PROVE SpillInv'
  BY <1>32 DEF TakeOver
<1>33. CASE StopStep
  BY <1>33 DEF StopStep
<1>34. CASE Append
  BY <1>34 DEF Append
<1>35. CASE Unlink
  BY <1>35 DEF Unlink
<1>36. CASE Close
  BY <1>36 DEF Close
<1>37. CASE Crash
  BY <1>37 DEF Crash
<1>38. CASE UNCHANGED vars
  BY <1>38 DEF vars
<1> QED
  BY <1>1, <1>2, <1>3, <1>4, <1>5, <1>6, <1>7, <1>8, <1>9, <1>10, <1>11, <1>12, <1>13, <1>14,
     <1>15, <1>16, <1>17, <1>18, <1>19, <1>20, <1>21, <1>22, <1>23, <1>24, <1>25, <1>26, <1>27,
     <1>28, <1>29, <1>30, <1>31, <1>32, <1>33, <1>34, <1>35, <1>36, <1>37, <1>38 DEF Next,
     CallStep, ServiceStep

\* Every step keeps OpenInv.
LEMMA OpenNext ==
    ASSUME ~OpenFails, TypeOK, CallInv, SpillInv, OpenInv, [Next]_vars
    PROVE  OpenInv'
<1> USE ServiceBufferConstants DEF process, thread, events, history, At, TypeOK, LocksHeld,
      CallInv, Slots, MySlot, SpillInv, OpenInv, Emitting, WithSlot, Creating, Spilling,
      Exiting, Flushing, Points
<1>1. ASSUME NEW t \in Threads, Log(t) PROVE OpenInv'
  BY <1>1 DEF Log
<1>2. ASSUME NEW t \in Threads, Exit(t) PROVE OpenInv'
  BY <1>2 DEF Exit
<1>3. ASSUME NEW t \in Threads, Flush(t) PROVE OpenInv'
  BY <1>3 DEF Flush
<1>4. ASSUME NEW t \in Threads, Finalize(t) PROVE OpenInv'
  BY <1>4 DEF Finalize
<1>5. ASSUME NEW t \in Threads, ServiceGone(t) PROVE OpenInv'
  BY <1>5 DEF ServiceGone, NotPushed
<1>6. ASSUME NEW t \in Threads, ServiceAlive(t) PROVE OpenInv'
  BY <1>6 DEF ServiceAlive, Acquire
<1>7. ASSUME NEW t \in Threads, OrphanLock(t) PROVE OpenInv'
  BY <1>7 DEF OrphanLock
<1>8. ASSUME NEW t \in Threads, Register(t) PROVE OpenInv'
  BY <1>8 DEF Register
<1>9. ASSUME NEW t \in Threads, AcquireCas(t) PROVE OpenInv'
  BY <1>9 DEF AcquireCas
<1>10. ASSUME NEW t \in Threads, PushOK(t) PROVE OpenInv'
  BY <1>10 DEF PushOK
<1>11. ASSUME NEW t \in Threads, PushFails(t) PROVE OpenInv'
  BY <1>11 DEF PushFails
<1>12. ASSUME NEW t \in Threads, Release(t) PROVE OpenInv'
  BY <1>12 DEF Release, NotPushed
<1>13. ASSUME NEW t \in Threads, SpillGet(t) PROVE OpenInv'
  BY <1>13 DEF SpillGet
<1>14. ASSUME NEW t \in Threads, SpillLock(t) PROVE OpenInv'
  BY <1>14 DEF SpillLock
<1>15. ASSUME NEW t \in Threads, SpillInit(t) PROVE OpenInv'
  BY <1>15 DEF SpillInit
<1>16. ASSUME NEW t \in Threads, SpillOpen(t) PROVE OpenInv'
  BY <1>16 DEF SpillOpen
<1>17. ASSUME NEW t \in Threads, SpillFlock(t) PROVE OpenInv'
  BY <1>17 DEF SpillFlock
<1>18. ASSUME NEW t \in Threads, SpillLog(t) PROVE OpenInv'
  BY <1>18 DEF SpillLog, WriteOut
<1>19. ASSUME NEW t \in Threads, ExitCas(t) PROVE OpenInv'
  BY <1>19 DEF ExitCas
<1>20. ASSUME NEW t \in Threads, ExitFlush(t) PROVE OpenInv'
  BY <1>20 DEF ExitFlush
<1>21. ASSUME NEW t \in Threads, ExitErase(t) PROVE OpenInv'
  BY <1>21 DEF ExitErase
<1>22. ASSUME NEW t \in Threads, FinReady(t) PROVE OpenInv'
  BY <1>22 DEF FinReady
<1>23. ASSUME NEW t \in Threads, FlushLock(t) PROVE OpenInv'
  BY <1>23 DEF FlushLock
<1>24. ASSUME NEW t \in Threads, FlushPublish(t) PROVE OpenInv'
  BY <1>24 DEF FlushPublish
<1>25. ASSUME NEW t \in Threads, FlushDone(t) PROVE OpenInv'
  BY <1>25 DEF FlushDone
<1>26. ASSUME NEW t \in Threads, FlushSpill(t) PROVE OpenInv'
  BY <1>26 DEF FlushSpill, WriteOut
<1>27. ASSUME NEW t \in Threads, FinSpill(t) PROVE OpenInv'
  BY <1>27 DEF FinSpill, WriteOut
<1>28. ASSUME NEW t \in Threads, NEW s \in Slots, FlushCas(t, s) PROVE OpenInv'
  BY <1>28 DEF FlushCas
<1>29. ASSUME NEW t \in Threads, NEW s \in Slots, FlushSpurious(t, s) PROVE OpenInv'
  BY <1>29 DEF FlushSpurious
<1>30. ASSUME NEW t \in Threads, NEW s \in Slots, FlushSkip(t, s) PROVE OpenInv'
  BY <1>30 DEF FlushSkip
<1>31. CASE Drain
  BY <1>31 DEF Drain
<1>32. ASSUME NEW s \in Slots, TakeOver(s) PROVE OpenInv'
  BY <1>32 DEF TakeOver
<1>33. CASE StopStep
  BY <1>33 DEF StopStep
<1>34. CASE Append
  BY <1>34 DEF Append
<1>35. CASE Unlink
  BY <1>35 DEF Unlink
<1>36. CASE Close
  BY <1>36 DEF Close
<1>37. CASE Crash
  BY <1>37 DEF Crash
<1>38. CASE UNCHANGED vars
  BY <1>38 DEF vars
<1> QED
  BY <1>1, <1>2, <1>3, <1>4, <1>5, <1>6, <1>7, <1>8, <1>9, <1>10, <1>11, <1>12, <1>13, <1>14,
     <1>15, <1>16, <1>17, <1>18, <1>19, <1>20, <1>21, <1>22, <1>23, <1>24, <1>25, <1>26, <1>27,
     <1>28, <1>29, <1>30, <1>31, <1>32, <1>33, <1>34, <1>35, <1>36, <1>37, <1>38 DEF Next,
     CallStep, ServiceStep

\* No step loses an event that is kept.
LEMMA KeptStays ==
    ASSUME TypeOK, OpenInv, SpillInv, NEW e, Kept(e), [Next]_vars
    PROVE  Kept(e)'
<1> USE ServiceBufferConstants DEF process, thread, events, history, At, TypeOK, SpillInv,
      OpenInv, Kept
<1>1. ASSUME NEW t \in Threads, Log(t) PROVE Kept(e)'
  BY <1>1 DEF Log
<1>2. ASSUME NEW t \in Threads, Exit(t) PROVE Kept(e)'
  BY <1>2 DEF Exit
<1>3. ASSUME NEW t \in Threads, Flush(t) PROVE Kept(e)'
  BY <1>3 DEF Flush
<1>4. ASSUME NEW t \in Threads, Finalize(t) PROVE Kept(e)'
  BY <1>4 DEF Finalize
<1>5. ASSUME NEW t \in Threads, ServiceGone(t) PROVE Kept(e)'
  BY <1>5 DEF ServiceGone, NotPushed
<1>6. ASSUME NEW t \in Threads, ServiceAlive(t) PROVE Kept(e)'
  BY <1>6 DEF ServiceAlive, Acquire
<1>7. ASSUME NEW t \in Threads, OrphanLock(t) PROVE Kept(e)'
  BY <1>7 DEF OrphanLock
<1>8. ASSUME NEW t \in Threads, Register(t) PROVE Kept(e)'
  BY <1>8 DEF Register
<1>9. ASSUME NEW t \in Threads, AcquireCas(t) PROVE Kept(e)'
  BY <1>9 DEF AcquireCas
<1>10. ASSUME NEW t \in Threads, PushOK(t) PROVE Kept(e)'
  BY <1>10 DEF PushOK
<1>11. ASSUME NEW t \in Threads, PushFails(t) PROVE Kept(e)'
  BY <1>11 DEF PushFails
<1>12. ASSUME NEW t \in Threads, Release(t) PROVE Kept(e)'
  BY <1>12 DEF Release, NotPushed
<1>13. ASSUME NEW t \in Threads, SpillGet(t) PROVE Kept(e)'
  BY <1>13 DEF SpillGet
<1>14. ASSUME NEW t \in Threads, SpillLock(t) PROVE Kept(e)'
  BY <1>14 DEF SpillLock
<1>15. ASSUME NEW t \in Threads, SpillInit(t) PROVE Kept(e)'
  BY <1>15 DEF SpillInit
<1>16. ASSUME NEW t \in Threads, SpillOpen(t) PROVE Kept(e)'
  BY <1>16 DEF SpillOpen
<1>17. ASSUME NEW t \in Threads, SpillFlock(t) PROVE Kept(e)'
  BY <1>17 DEF SpillFlock
<1>18. ASSUME NEW t \in Threads, SpillLog(t) PROVE Kept(e)'
  BY <1>18 DEF SpillLog, WriteOut
<1>19. ASSUME NEW t \in Threads, ExitCas(t) PROVE Kept(e)'
  BY <1>19 DEF ExitCas
<1>20. ASSUME NEW t \in Threads, ExitFlush(t) PROVE Kept(e)'
  BY <1>20 DEF ExitFlush
<1>21. ASSUME NEW t \in Threads, ExitErase(t) PROVE Kept(e)'
  BY <1>21 DEF ExitErase
<1>22. ASSUME NEW t \in Threads, FinReady(t) PROVE Kept(e)'
  BY <1>22 DEF FinReady
<1>23. ASSUME NEW t \in Threads, FlushLock(t) PROVE Kept(e)'
  BY <1>23 DEF FlushLock
<1>24. ASSUME NEW t \in Threads, FlushPublish(t) PROVE Kept(e)'
  BY <1>24 DEF FlushPublish
<1>25. ASSUME NEW t \in Threads, FlushDone(t) PROVE Kept(e)'
  BY <1>25 DEF FlushDone
<1>26. ASSUME NEW t \in Threads, FlushSpill(t) PROVE Kept(e)'
  BY <1>26 DEF FlushSpill, WriteOut
<1>27. ASSUME NEW t \in Threads, FinSpill(t) PROVE Kept(e)'
  BY <1>27 DEF FinSpill, WriteOut
<1>28. ASSUME NEW t \in Threads, NEW s \in Slots, FlushCas(t, s) PROVE Kept(e)'
  BY <1>28 DEF FlushCas
<1>29. ASSUME NEW t \in Threads, NEW s \in Slots, FlushSpurious(t, s) PROVE Kept(e)'
  BY <1>29 DEF FlushSpurious
<1>30. ASSUME NEW t \in Threads, NEW s \in Slots, FlushSkip(t, s) PROVE Kept(e)'
  BY <1>30 DEF FlushSkip
<1>31. CASE Drain
  BY <1>31 DEF Drain
<1>32. ASSUME NEW s \in Slots, TakeOver(s) PROVE Kept(e)'
  BY <1>32 DEF TakeOver
<1>33. CASE StopStep
  BY <1>33 DEF StopStep
<1>34. CASE Append
  BY <1>34 DEF Append
<1>35. CASE Unlink
  BY <1>35 DEF Unlink
<1>36. CASE Close
  BY <1>36 DEF Close
<1>37. CASE Crash
  BY <1>37 DEF Crash
<1>38. CASE UNCHANGED vars
  BY <1>38 DEF vars
<1> QED
  BY <1>1, <1>2, <1>3, <1>4, <1>5, <1>6, <1>7, <1>8, <1>9, <1>10, <1>11, <1>12, <1>13, <1>14,
     <1>15, <1>16, <1>17, <1>18, <1>19, <1>20, <1>21, <1>22, <1>23, <1>24, <1>25, <1>26, <1>27,
     <1>28, <1>29, <1>30, <1>31, <1>32, <1>33, <1>34, <1>35, <1>36, <1>37, <1>38 DEF Next,
     CallStep, ServiceStep

\* Every step keeps KeptInv: a log call returns only with its event kept.
LEMMA KeptNext ==
    ASSUME TypeOK, CallInv, SlotInv, SpillInv, OpenInv, KeptInv, \A e : Kept(e) =>
           Kept(e)', [Next]_vars
    PROVE  KeptInv'
<1> USE ServiceBufferConstants DEF process, thread, events, history, At, TypeOK, LocksHeld,
      CallInv, Slots, MySlot, Events, Event, InCall, SpillInv, OpenInv, KeptInv, Emitting,
      WithSlot, Creating, Spilling, Exiting, Flushing, Points
<1>1. ASSUME NEW t \in Threads, Log(t) PROVE KeptInv'
  BY <1>1 DEF Log
<1>2. ASSUME NEW t \in Threads, Exit(t) PROVE KeptInv'
  BY <1>2 DEF Exit
<1>3. ASSUME NEW t \in Threads, Flush(t) PROVE KeptInv'
  BY <1>3 DEF Flush
<1>4. ASSUME NEW t \in Threads, Finalize(t) PROVE KeptInv'
  BY <1>4 DEF Finalize
<1>5. ASSUME NEW t \in Threads, ServiceGone(t) PROVE KeptInv'
  BY <1>5 DEF ServiceGone, NotPushed
<1>6. ASSUME NEW t \in Threads, ServiceAlive(t) PROVE KeptInv'
  BY <1>6 DEF ServiceAlive, Acquire
<1>7. ASSUME NEW t \in Threads, OrphanLock(t) PROVE KeptInv'
  BY <1>7 DEF OrphanLock
<1>8. ASSUME NEW t \in Threads, Register(t) PROVE KeptInv'
  BY <1>8 DEF Register
<1>9. ASSUME NEW t \in Threads, AcquireCas(t) PROVE KeptInv'
  BY <1>9 DEF AcquireCas
<1>10. ASSUME NEW t \in Threads, PushOK(t) PROVE KeptInv'
  <2>1. goal[t] = "event" => Kept(<<t, nev[t]>>)'
    BY <1>10 DEF PushOK, Kept
  <2> QED
    BY <1>10, <2>1 DEF PushOK
<1>11. ASSUME NEW t \in Threads, PushFails(t) PROVE KeptInv'
  BY <1>11 DEF PushFails
<1>12. ASSUME NEW t \in Threads, Release(t) PROVE KeptInv'
  BY <1>12 DEF Release, NotPushed
<1>13. ASSUME NEW t \in Threads, SpillGet(t) PROVE KeptInv'
  BY <1>13 DEF SpillGet
<1>14. ASSUME NEW t \in Threads, SpillLock(t) PROVE KeptInv'
  <2>1. spill = "none" /\ ~named => Kept(<<t, nev[t]>>)'
    BY <1>14 DEF SpillLock, Kept
  <2> QED
    BY <1>14, <2>1 DEF SpillLock
<1>15. ASSUME NEW t \in Threads, SpillInit(t) PROVE KeptInv'
  BY <1>15 DEF SpillInit
<1>16. ASSUME NEW t \in Threads, SpillOpen(t) PROVE KeptInv'
  BY <1>16 DEF SpillOpen
<1>17. ASSUME NEW t \in Threads, SpillFlock(t) PROVE KeptInv'
  BY <1>17 DEF SpillFlock
<1>18. ASSUME NEW t \in Threads, SpillLog(t) PROVE KeptInv'
  <2>1. spill = "ready" => Kept(<<t, nev[t]>>)'
    BY <1>18 DEF SpillLog, WriteOut, Kept
  <2> QED
    BY <1>18, <2>1 DEF SpillLog
<1>19. ASSUME NEW t \in Threads, ExitCas(t) PROVE KeptInv'
  BY <1>19 DEF ExitCas
<1>20. ASSUME NEW t \in Threads, ExitFlush(t) PROVE KeptInv'
  BY <1>20 DEF ExitFlush
<1>21. ASSUME NEW t \in Threads, ExitErase(t) PROVE KeptInv'
  BY <1>21 DEF ExitErase
<1>22. ASSUME NEW t \in Threads, FinReady(t) PROVE KeptInv'
  BY <1>22 DEF FinReady
<1>23. ASSUME NEW t \in Threads, FlushLock(t) PROVE KeptInv'
  BY <1>23 DEF FlushLock
<1>24. ASSUME NEW t \in Threads, FlushPublish(t) PROVE KeptInv'
  BY <1>24 DEF FlushPublish
<1>25. ASSUME NEW t \in Threads, FlushDone(t) PROVE KeptInv'
  BY <1>25 DEF FlushDone
<1>26. ASSUME NEW t \in Threads, FlushSpill(t) PROVE KeptInv'
  BY <1>26 DEF FlushSpill, WriteOut
<1>27. ASSUME NEW t \in Threads, FinSpill(t) PROVE KeptInv'
  BY <1>27 DEF FinSpill, WriteOut
<1>28. ASSUME NEW t \in Threads, NEW s \in Slots, FlushCas(t, s) PROVE KeptInv'
  BY <1>28 DEF FlushCas
<1>29. ASSUME NEW t \in Threads, NEW s \in Slots, FlushSpurious(t, s) PROVE KeptInv'
  BY <1>29 DEF FlushSpurious
<1>30. ASSUME NEW t \in Threads, NEW s \in Slots, FlushSkip(t, s) PROVE KeptInv'
  BY <1>30 DEF FlushSkip
<1>31. CASE Drain
  BY <1>31 DEF Drain
<1>32. ASSUME NEW s \in Slots, TakeOver(s) PROVE KeptInv'
  BY <1>32 DEF TakeOver
<1>33. CASE StopStep
  BY <1>33 DEF StopStep
<1>34. CASE Append
  BY <1>34 DEF Append
<1>35. CASE Unlink
  BY <1>35 DEF Unlink
<1>36. CASE Close
  BY <1>36 DEF Close
<1>37. CASE Crash
  BY <1>37 DEF Crash
<1>38. CASE UNCHANGED vars
  BY <1>38 DEF vars
<1> QED
  BY <1>1, <1>2, <1>3, <1>4, <1>5, <1>6, <1>7, <1>8, <1>9, <1>10, <1>11, <1>12, <1>13, <1>14,
     <1>15, <1>16, <1>17, <1>18, <1>19, <1>20, <1>21, <1>22, <1>23, <1>24, <1>25, <1>26, <1>27,
     <1>28, <1>29, <1>30, <1>31, <1>32, <1>33, <1>34, <1>35, <1>36, <1>37, <1>38 DEF Next,
     CallStep, ServiceStep

\* Every step keeps WalkInv: what is pushed during and after finalize() was
\* not logged before it.
LEMMA WalkNext ==
    ASSUME TypeOK, CallInv, SlotInv, SpillInv, KeptInv, WalkInv, [Next]_vars
    PROVE  WalkInv'
<1> USE ServiceBufferConstants DEF process, thread, events, history, At, TypeOK, LocksHeld,
      CallInv, Slots, MySlot, Events, Event, InCall, SpillInv, SlotInv, KeptInv, WalkInv,
      Emitting, WithSlot, Creating, Spilling, Exiting, Flushing, Points
<1>1. ASSUME NEW t \in Threads, Log(t) PROVE WalkInv'
  BY <1>1 DEF Log
<1>2. ASSUME NEW t \in Threads, Exit(t) PROVE WalkInv'
  BY <1>2 DEF Exit
<1>3. ASSUME NEW t \in Threads, Flush(t) PROVE WalkInv'
  BY <1>3 DEF Flush
<1>4. ASSUME NEW t \in Threads, Finalize(t) PROVE WalkInv'
  BY <1>4 DEF Finalize
<1>5. ASSUME NEW t \in Threads, ServiceGone(t) PROVE WalkInv'
  BY <1>5 DEF ServiceGone, NotPushed
<1>6. ASSUME NEW t \in Threads, ServiceAlive(t) PROVE WalkInv'
  BY <1>6 DEF ServiceAlive, Acquire
<1>7. ASSUME NEW t \in Threads, OrphanLock(t) PROVE WalkInv'
  BY <1>7 DEF OrphanLock
<1>8. ASSUME NEW t \in Threads, Register(t) PROVE WalkInv'
  BY <1>8 DEF Register
<1>9. ASSUME NEW t \in Threads, AcquireCas(t) PROVE WalkInv'
  BY <1>9 DEF AcquireCas
<1>10. ASSUME NEW t \in Threads, PushOK(t) PROVE WalkInv'
  BY <1>10 DEF PushOK
<1>11. ASSUME NEW t \in Threads, PushFails(t) PROVE WalkInv'
  BY <1>11 DEF PushFails
<1>12. ASSUME NEW t \in Threads, Release(t) PROVE WalkInv'
  BY <1>12 DEF Release, NotPushed
<1>13. ASSUME NEW t \in Threads, SpillGet(t) PROVE WalkInv'
  BY <1>13 DEF SpillGet
<1>14. ASSUME NEW t \in Threads, SpillLock(t) PROVE WalkInv'
  BY <1>14 DEF SpillLock
<1>15. ASSUME NEW t \in Threads, SpillInit(t) PROVE WalkInv'
  BY <1>15 DEF SpillInit
<1>16. ASSUME NEW t \in Threads, SpillOpen(t) PROVE WalkInv'
  BY <1>16 DEF SpillOpen
<1>17. ASSUME NEW t \in Threads, SpillFlock(t) PROVE WalkInv'
  BY <1>17 DEF SpillFlock
<1>18. ASSUME NEW t \in Threads, SpillLog(t) PROVE WalkInv'
  BY <1>18 DEF SpillLog, WriteOut
<1>19. ASSUME NEW t \in Threads, ExitCas(t) PROVE WalkInv'
  BY <1>19 DEF ExitCas
<1>20. ASSUME NEW t \in Threads, ExitFlush(t) PROVE WalkInv'
  BY <1>20 DEF ExitFlush
<1>21. ASSUME NEW t \in Threads, ExitErase(t) PROVE WalkInv'
  BY <1>21 DEF ExitErase
<1>22. ASSUME NEW t \in Threads, FinReady(t) PROVE WalkInv'
  BY <1>22 DEF FinReady
<1>23. ASSUME NEW t \in Threads, FlushLock(t) PROVE WalkInv'
  BY <1>23 DEF FlushLock
<1>24. ASSUME NEW t \in Threads, FlushPublish(t) PROVE WalkInv'
  BY <1>24 DEF FlushPublish
<1>25. ASSUME NEW t \in Threads, FlushDone(t) PROVE WalkInv'
  BY <1>25 DEF FlushDone
<1>26. ASSUME NEW t \in Threads, FlushSpill(t) PROVE WalkInv'
  BY <1>26 DEF FlushSpill, WriteOut
<1>27. ASSUME NEW t \in Threads, FinSpill(t) PROVE WalkInv'
  BY <1>27 DEF FinSpill, WriteOut
<1>28. ASSUME NEW t \in Threads, NEW s \in Slots, FlushCas(t, s) PROVE WalkInv'
  BY <1>28 DEF FlushCas
<1>29. ASSUME NEW t \in Threads, NEW s \in Slots, FlushSpurious(t, s) PROVE WalkInv'
  BY <1>29 DEF FlushSpurious
<1>30. ASSUME NEW t \in Threads, NEW s \in Slots, FlushSkip(t, s) PROVE WalkInv'
  BY <1>30 DEF FlushSkip
<1>31. CASE Drain
  BY <1>31 DEF Drain
<1>32. ASSUME NEW s \in Slots, TakeOver(s) PROVE WalkInv'
  BY <1>32 DEF TakeOver
<1>33. CASE StopStep
  BY <1>33 DEF StopStep
<1>34. CASE Append
  BY <1>34 DEF Append
<1>35. CASE Unlink
  BY <1>35 DEF Unlink
<1>36. CASE Close
  BY <1>36 DEF Close
<1>37. CASE Crash
  BY <1>37 DEF Crash
<1>38. CASE UNCHANGED vars
  BY <1>38 DEF vars
<1> QED
  BY <1>1, <1>2, <1>3, <1>4, <1>5, <1>6, <1>7, <1>8, <1>9, <1>10, <1>11, <1>12, <1>13, <1>14,
     <1>15, <1>16, <1>17, <1>18, <1>19, <1>20, <1>21, <1>22, <1>23, <1>24, <1>25, <1>26, <1>27,
     <1>28, <1>29, <1>30, <1>31, <1>32, <1>33, <1>34, <1>35, <1>36, <1>37, <1>38 DEF Next,
     CallStep, ServiceStep


\* After initialize() nothing is logged, used or held.
LEMMA InvInit ==
    Init => /\ TypeOK /\ CallInv /\ SlotInv /\ OwnInv /\ SpillInv
            /\ OpenInv /\ KeptInv /\ WalkInv
<1> SUFFICES ASSUME Init
             PROVE  TypeOK /\ CallInv /\ SlotInv /\ OwnInv /\ SpillInv /\ OpenInv /\ KeptInv /\ WalkInv
  OBVIOUS
<1> USE ServiceBufferConstants DEF Init, Slots
<1>1. {named, ready, gone, lock_fd, writable, finalized} \subseteq BOOLEAN
  BY Zenon
<1>2. exited \in [Threads -> BOOLEAN] /\ backoff \in [Threads -> BOOLEAN]
  BY Zenon
<1>3. TypeOK
  BY <1>1, <1>2 DEF TypeOK, LocksHeld, Points
<1>4. CallInv /\ SlotInv /\ SpillInv /\ OpenInv
  BY DEF CallInv, InCall, SlotInv, SpillInv, OpenInv, Emitting, WithSlot, Creating, Spilling,
         Exiting, Flushing
<1>5. OwnInv /\ KeptInv /\ WalkInv
  BY DEF OwnInv, Owns, KeptInv, WalkInv, Events, InCall
<1> QED
  BY <1>3, <1>4, <1>5

\* The part of the invariant that needs nothing of the constants.
LEMMA TypeAlways == Spec => [](TypeOK /\ CallInv /\ SlotInv /\ SpillInv)
<1>1. Init => TypeOK /\ CallInv /\ SlotInv /\ SpillInv
  BY InvInit
<1>2. (TypeOK /\ CallInv /\ SlotInv /\ SpillInv) /\ [Next]_vars
        => (TypeOK /\ CallInv /\ SlotInv /\ SpillInv)'
  BY TypeNext, CallNext, SlotNext, SpillNext
<1>3. QED
  BY PTL, <1>2, <1>1 DEF Spec

\* Every word and every local of ServiceBufferManager stays in range, and its
\* three mutexes are held by exactly the threads inside their sections.
THEOREM BufferTyping == Spec => []TypeOK
BY TypeAlways, PTL

\* acquire_slot(), ~ThreadRef and flush_all() never have two threads inside one
\* slot's RingProducer, if compare_exchange_weak does not fail spuriously.
THEOREM BufferOneUser == ~Spurious => (Spec => []OneUser)
<1> SUFFICES ASSUME ~Spurious PROVE Spec => []OneUser
  OBVIOUS
<1>1. Init => OwnInv
  BY InvInit
<1>2. (TypeOK /\ CallInv /\ SlotInv) /\ OwnInv /\ [Next]_vars => OwnInv'
  BY OwnNext
<1>3. OwnInv => OneUser
  BY DEF OwnInv, OneUser, Owns, Uses
<1> QED
  BY <1>1, <1>2, <1>3, TypeAlways, PTL DEF Spec

\* finalize(): what was logged before it is published, traced, spilled or
\* counted when it returns, but for the slots it gave up, if the spill file
\* opens, whether or not a compare_exchange_weak fails spuriously.
THEOREM BufferFlushedAtFinalize == ~OpenFails => (Spec => []FlushedAtFinalize)
<1> SUFFICES ASSUME ~OpenFails PROVE Spec => []FlushedAtFinalize
  OBVIOUS
<1>1. Init => OpenInv /\ KeptInv /\ WalkInv
  BY InvInit
<1>2. (TypeOK /\ CallInv /\ SlotInv /\ SpillInv) /\ OpenInv /\ [Next]_vars => OpenInv'
  BY OpenNext
<1>3. (TypeOK /\ CallInv /\ SlotInv /\ SpillInv) /\ OpenInv /\ KeptInv /\ [Next]_vars => KeptInv'
  BY KeptNext, KeptStays
<1>4. (TypeOK /\ CallInv /\ SlotInv /\ SpillInv) /\ KeptInv /\ WalkInv /\ [Next]_vars => WalkInv'
  BY WalkNext
<1>5. KeptInv /\ WalkInv => FlushedAtFinalize
  BY DEF KeptInv, WalkInv, Kept, FlushedAtFinalize
<1> QED
  BY <1>1, <1>2, <1>3, <1>4, <1>5, TypeAlways, PTL DEF Spec

=============================================================================
