------------------------- MODULE EffectJournalProofs -------------------------
(***************************************************************************)
(* TLAPS proofs about EffectJournal, for any set of callers, processes and   *)
(* keys and any number of calls.                                            *)
(***************************************************************************)
EXTENDS EffectJournal, TLAPS

(* A caller that is inside a call knows its slot, and so does one that was   *)
(* told its effect is settled.                                              *)
CallsHaveSlots ==
    \A c \in Callers :
        pc[c] # "idle" \/ answer[c] # "none" => call[c] \in Slots

TypeInv == TypeOK /\ CallsHaveSlots

(* What the holder of the flock has learned from the journal stays true      *)
(* until it appends: this is what the lock is for.                          *)
HolderKnows ==
    \A c \in Callers :
        /\ InsideLock(c) => fileLock = c
        /\ pc[c] \in {"run", "append"} =>
              /\ ~torn
              /\ ~Settled(call[c])
              /\ call[c][1] = "compensation" => Settled(<<"effect", call[c][2]>>)
              /\ attempt[c] = NextAttempt(call[c])

-------------------------------------------------------------------------------
(* The last element of a non-empty log is a record.                         *)
LEMMA LastRecord ==
  ASSUME NEW q \in Seq(Record), q # <<>>
  PROVE  /\ Len(q) \in Nat \ {0}
         /\ q[Len(q)] \in Record
  OBVIOUS

LEMMA NextAttemptIsNat ==
  ASSUME TypeOK, NEW s \in Slots
  PROVE  NextAttempt(s) \in Nat
<1>1. CASE journal[s] = <<>>
  BY <1>1 DEF NextAttempt
<1>2. CASE journal[s] # <<>>
  <2>1. journal[s] \in Seq(Record)
    BY DEF TypeOK
  <2>2. journal[s][Len(journal[s])] \in Record
    BY <1>2, <2>1, LastRecord
  <2>3. journal[s][Len(journal[s])].attempt \in Nat
    BY <2>2 DEF Record
  <2> QED
    BY <1>2, <2>3 DEF NextAttempt
<1> QED
  BY <1>1, <1>2

LEMMA InitTypeInv == Init => TypeInv
<1> SUFFICES ASSUME Init PROVE TypeInv
  OBVIOUS
<1>1. <<>> \in Seq(Record)
  OBVIOUS
<1>2. TypeOK
  BY <1>1 DEF Init, TypeOK, Locations, Answers, FailureStatuses
<1>3. CallsHaveSlots
  BY DEF Init, CallsHaveSlots
<1> QED
  BY <1>2, <1>3 DEF TypeInv

LEMMA StepTypeInv == TypeInv /\ [Next]_vars => TypeInv'
<1> SUFFICES ASSUME TypeInv, [Next]_vars PROVE TypeInv'
  OBVIOUS
<1> USE HomeAssumption, NoneAssumption
    DEF TypeInv, TypeOK, CallsHaveSlots, log, locks, ghosts, Go, Leave
<1>1. ASSUME NEW c \in Callers, NEW s \in Slots, Call(c, s) PROVE TypeInv'
  BY <1>1 DEF Call, Locations, Answers
<1>2. ASSUME NEW c \in Callers, AcquireThreadLock(c) PROVE TypeInv'
  BY <1>2 DEF AcquireThreadLock, Locations
<1>3. ASSUME NEW c \in Callers, AcquireFileLock(c) PROVE TypeInv'
  BY <1>3 DEF AcquireFileLock, Locations
<1>4. ASSUME NEW c \in Callers, Read(c) PROVE TypeInv'
  <2>0. call[c] \in Slots
    BY <1>4 DEF Read, ReadRaises, ReadRejects, ReadReplays, ReadProceeds
  <2>1. NextAttempt(call[c]) \in Nat
    BY <2>0, NextAttemptIsNat
  <2>2. CASE ReadRaises(c)
    BY <1>4, <2>0, <2>2 DEF Read, ReadRaises, Locations, Answers
  <2>3. CASE ReadRejects(c)
    BY <1>4, <2>0, <2>3 DEF Read, ReadRejects, Locations, Answers
  <2>4. CASE ReadReplays(c)
    BY <1>4, <2>0, <2>4 DEF Read, ReadReplays, Locations, Answers
  <2>5. CASE ReadProceeds(c)
    BY <1>4, <2>0, <2>1, <2>5 DEF Read, ReadProceeds, Locations, Answers
  <2> QED
    BY <1>4, <2>2, <2>3, <2>4, <2>5 DEF Read
<1>5. ASSUME NEW c \in Callers, Run(c) PROVE TypeInv'
  <2>0. call[c] \in Slots
    BY <1>5 DEF Run, RunSucceeds, RunFails, RunInterrupted
  <2>1. CASE RunSucceeds(c)
    BY <1>5, <2>0, <2>1
       DEF Run, RunSucceeds, Happened, SuccessStatus, SettledStatuses, Locations
  <2>2. CASE RunFails(c)
    <3>1. outcome' \in [Callers -> SettledStatuses \cup FailureStatuses]
      BY <2>2 DEF RunFails
    <3>2. /\ performed' \in [Slots -> Nat]
          /\ unrecorded' \in [Slots -> Nat]
      <4>1. CASE HappenedUnrecorded(c)
        BY <2>0, <4>1 DEF HappenedUnrecorded, Happened
      <4>2. CASE UNCHANGED ghosts
        BY <4>2
      <4> QED
        BY <2>2, <4>1, <4>2 DEF RunFails
    <3> QED
      BY <1>5, <2>0, <2>2, <3>1, <3>2 DEF Run, RunFails, Locations
  <2>3. CASE RunInterrupted(c)
    <3>1. /\ performed' \in [Slots -> Nat]
          /\ unrecorded' \in [Slots -> Nat]
      <4>1. CASE HappenedUnrecorded(c)
        BY <2>0, <4>1 DEF HappenedUnrecorded, Happened
      <4>2. CASE UNCHANGED ghosts
        BY <4>2
      <4> QED
        BY <2>3, <4>1, <4>2 DEF RunInterrupted
    <3> QED
      BY <1>5, <2>0, <2>3, <3>1 DEF Run, RunInterrupted, Locations, Answers
  <2> QED
    BY <1>5, <2>1, <2>2, <2>3 DEF Run
<1>6. ASSUME NEW c \in Callers, AppendRecord(c) PROVE TypeInv'
  <2>0. call[c] \in Slots
    BY <1>6 DEF AppendRecord
  <2>1. [status |-> outcome[c], attempt |-> attempt[c]] \in Record
    BY DEF Record
  <2>2. Append(journal[call[c]], [status |-> outcome[c], attempt |-> attempt[c]])
          \in Seq(Record)
    BY <2>0, <2>1
  <2>3. journal' \in [Slots -> Seq(Record)]
    BY <1>6, <2>0, <2>2 DEF AppendRecord
  <2> QED
    BY <1>6, <2>0, <2>3 DEF AppendRecord, Locations, Answers
<1>7. ASSUME NEW c \in Callers, AppendFails(c) PROVE TypeInv'
  <2>1. unrecorded' \in [Slots -> Nat]
    BY <1>7 DEF AppendFails, LoseRecordOf
  <2>2. torn' \in BOOLEAN
    BY <1>7 DEF AppendFails
  <2> QED
    BY <1>7, <2>1, <2>2 DEF AppendFails, Locations, Answers
<1>8. ASSUME NEW c \in Callers, ReleaseFileLock(c) PROVE TypeInv'
  BY <1>8 DEF ReleaseFileLock, Locations
<1>9. ASSUME NEW c \in Callers, ReleaseThreadLock(c) PROVE TypeInv'
  BY <1>9 DEF ReleaseThreadLock, Locations, FailureStatuses
<1>10. ASSUME NEW p \in Processes, Crash(p) PROVE TypeInv'
  <2>1. unrecorded' \in [Slots -> Nat]
    BY <1>10 DEF Crash, LoseRecordOf
  <2> QED
    BY <1>10, <2>1 DEF Crash, Locations, Answers, FailureStatuses
<1>11. CASE UNCHANGED vars
  BY <1>11 DEF vars
<1> QED
  BY <1>1, <1>2, <1>3, <1>4, <1>5, <1>6, <1>7, <1>8, <1>9, <1>10, <1>11
     DEF Next, Step

(* The types of all thirteen variables are kept by every step: local values,  *)
(* lock holders and log records of WorkflowEffectStore.                      *)
THEOREM TypeCorrect == Spec => []TypeOK
<1>1. TypeInv => TypeOK
  BY DEF TypeInv
<1> QED
  BY <1>1, InitTypeInv, StepTypeInv, PTL DEF Spec

-------------------------------------------------------------------------------
(* What the readers see of a slot depends on the journal alone.             *)
LEMMA JournalKept ==
  ASSUME journal' = journal, NEW s
  PROVE  /\ Settled(s)' <=> Settled(s)
         /\ NextAttempt(s)' = NextAttempt(s)
  BY DEF Settled, NextAttempt

(* Only the holder of the flock is inside the section, so only it has a      *)
(* success to append.                                                       *)
LEMMA HolderIsAlone ==
  ASSUME HolderKnows, NEW c \in Callers, InsideLock(c)
  PROVE  /\ \A d \in Callers : InsideLock(d) => d = c
         /\ \A s : Pending(s) <=>
              /\ pc[c] = "append"
              /\ call[c] = s
              /\ outcome[c] \in SettledStatuses
<1>1. \A d \in Callers : InsideLock(d) => d = c
  BY DEF HolderKnows
<1>2. \A d \in Callers : pc[d] = "append" => InsideLock(d)
  BY DEF InsideLock
<1> QED
  BY <1>1, <1>2 DEF Pending

(* Nothing is pending while the flock is free.                              *)
LEMMA FreeLockNothingPending ==
  ASSUME HolderKnows, fileLock = None, NEW s
  PROVE  ~Pending(s)
  BY NoneAssumption DEF HolderKnows, Pending, InsideLock

(* How an append changes what is read of a slot.                            *)
LEMMA AppendedSlot ==
  ASSUME TypeInv, NEW c \in Callers, AppendRecord(c)
  PROVE  /\ call[c] \in Slots
         /\ \A s \in Slots \ {call[c]} :
              /\ journal'[s] = journal[s]
              /\ Settled(s)' <=> Settled(s)
         /\ Len(journal[call[c]]) \in Nat
         /\ Len(journal'[call[c]]) = Len(journal[call[c]]) + 1
         /\ \A i \in 1 .. Len(journal[call[c]]) :
               journal'[call[c]][i] = journal[call[c]][i]
         /\ journal'[call[c]][Len(journal[call[c]]) + 1]
              = [status |-> outcome[c], attempt |-> attempt[c]]
         /\ Settled(call[c])' <=> outcome[c] \in SettledStatuses
<1> DEFINE q == journal[call[c]]
           r == [status |-> outcome[c], attempt |-> attempt[c]]
<1>1. call[c] \in Slots
  BY DEF TypeInv, CallsHaveSlots, AppendRecord, Go
<1>2. /\ q \in Seq(Record)
      /\ r \in Record
      /\ journal'[call[c]] = Append(q, r)
      /\ \A s \in Slots : s # call[c] => journal'[s] = journal[s]
  BY <1>1 DEF TypeInv, TypeOK, AppendRecord, Record
<1>3. /\ Len(q) \in Nat
      /\ Len(Append(q, r)) = Len(q) + 1
      /\ Append(q, r)[Len(q) + 1] = r
      /\ \A i \in 1 .. Len(q) : Append(q, r)[i] = q[i]
      /\ Append(q, r) # <<>>
  BY <1>2
<1>4. Settled(call[c])' <=> r.status \in SettledStatuses
  <2>1. call' = call
    BY DEF AppendRecord
  <2> QED
    BY <1>2, <1>3, <2>1 DEF Settled
<1>5. \A s \in Slots : s # call[c] => (Settled(s)' <=> Settled(s))
  BY <1>2 DEF Settled
<1> HIDE DEF q, r
<1> QED
  BY <1>1, <1>2, <1>3, <1>4, <1>5 DEF q, r

LEMMA StepHolderKnows == TypeInv /\ HolderKnows /\ [Next]_vars => HolderKnows'
<1> SUFFICES ASSUME TypeInv, HolderKnows, [Next]_vars PROVE HolderKnows'
  OBVIOUS
<1> USE HomeAssumption, NoneAssumption
    DEF TypeInv, TypeOK, CallsHaveSlots, log, locks, ghosts, Go, Leave, InsideLock
<1>1. ASSUME NEW c \in Callers, NEW s \in Slots, Call(c, s) PROVE HolderKnows'
  BY <1>1, JournalKept DEF Call, HolderKnows
<1>2. ASSUME NEW c \in Callers, AcquireThreadLock(c) PROVE HolderKnows'
  BY <1>2, JournalKept DEF AcquireThreadLock, HolderKnows
<1>3. ASSUME NEW c \in Callers, AcquireFileLock(c) PROVE HolderKnows'
  BY <1>3, JournalKept DEF AcquireFileLock, HolderKnows
<1>4. ASSUME NEW c \in Callers, Read(c) PROVE HolderKnows'
  <2>1. CASE ReadRaises(c)
    BY <1>4, <2>1, JournalKept DEF Read, ReadRaises, HolderKnows
  <2>2. CASE ReadRejects(c)
    BY <1>4, <2>2, JournalKept DEF Read, ReadRejects, HolderKnows
  <2>3. CASE ReadReplays(c)
    BY <1>4, <2>3, JournalKept DEF Read, ReadReplays, HolderKnows
  <2>4. CASE ReadProceeds(c)
    BY <1>4, <2>4, JournalKept DEF Read, ReadProceeds, HolderKnows
  <2> QED
    BY <1>4, <2>1, <2>2, <2>3, <2>4 DEF Read
<1>5. ASSUME NEW c \in Callers, Run(c) PROVE HolderKnows'
  <2>1. /\ pc[c] = "run"
        /\ \/ pc' = [pc EXCEPT ![c] = "append"]
           \/ pc' = [pc EXCEPT ![c] = "unlock_file"]
    BY <1>5 DEF Run, RunSucceeds, RunFails, RunInterrupted
  <2> QED
    BY <1>5, <2>1, JournalKept DEF Run, HolderKnows
<1>6. ASSUME NEW c \in Callers, AppendRecord(c) PROVE HolderKnows'
  BY <1>6, HolderIsAlone DEF AppendRecord, HolderKnows
<1>7. ASSUME NEW c \in Callers, AppendFails(c) PROVE HolderKnows'
  BY <1>7, HolderIsAlone DEF AppendFails, HolderKnows
<1>8. ASSUME NEW c \in Callers, ReleaseFileLock(c) PROVE HolderKnows'
  BY <1>8, HolderIsAlone DEF ReleaseFileLock, HolderKnows
<1>9. ASSUME NEW c \in Callers, ReleaseThreadLock(c) PROVE HolderKnows'
  BY <1>9, JournalKept DEF ReleaseThreadLock, HolderKnows
<1>10. ASSUME NEW p \in Processes, Crash(p) PROVE HolderKnows'
  <2> SUFFICES ASSUME NEW d \in Callers, InsideLock(d)'
               PROVE  /\ (fileLock = d)'
                      /\ pc'[d] \in {"run", "append"} =>
                            (/\ ~torn
                             /\ ~Settled(call[d])
                             /\ call[d][1] = "compensation"
                                  => Settled(<<"effect", call[d][2]>>)
                             /\ attempt[d] = NextAttempt(call[d]))'
    BY DEF HolderKnows
  <2>1. Home[d] # p /\ pc'[d] = pc[d] /\ attempt'[d] = attempt[d]
    BY <1>10 DEF Crash
  <2>2. fileLock = d
    BY <2>1 DEF HolderKnows
  <2>3. fileLock' = d
    BY <1>10, <2>1, <2>2 DEF Crash
  <2>4. \A c \in Callers : Home[c] = p => pc[c] # "append"
    BY <2>1, <2>2, HolderIsAlone
  <2>5. torn' = torn
    BY <1>10, <2>4 DEF Crash
  <2>6. journal' = journal /\ call' = call
    BY <1>10 DEF Crash
  <2> QED
    BY <2>1, <2>2, <2>3, <2>5, <2>6, JournalKept DEF HolderKnows
<1>11. CASE UNCHANGED vars
  BY <1>11, JournalKept DEF vars, HolderKnows
<1> QED
  BY <1>1, <1>2, <1>3, <1>4, <1>5, <1>6, <1>7, <1>8, <1>9, <1>10, <1>11
     DEF Next, Step

(* Two callers, of one process or of two, are never both between the read   *)
(* of the journal and the append in execute_once_with_outcome or compensate. *)
THEOREM MutualExclusion == Spec => []ExclusiveSection
<1>1. Init => HolderKnows
  BY DEF Init, HolderKnows, InsideLock
<1>2. HolderKnows => ExclusiveSection
  BY HolderIsAlone DEF ExclusiveSection
<1> QED
  BY <1>1, <1>2, InitTypeInv, StepTypeInv, StepHolderKnows, PTL DEF Spec

-------------------------------------------------------------------------------
(* Every step but AppendRecord leaves the file's complete lines alone.      *)
LEMMA OnlyAppendWrites ==
  ASSUME [Next]_vars
  PROVE  journal' = journal \/ \E c \in Callers : AppendRecord(c)
<1>1. ASSUME NEW c \in Callers, Step(c)
      PROVE  journal' = journal \/ AppendRecord(c)
  BY <1>1 DEF Step, AcquireThreadLock, AcquireFileLock, Read, Run, AppendFails,
              ReleaseFileLock, ReleaseThreadLock, log
<1>2. ASSUME NEW c \in Callers, NEW s \in Slots, Call(c, s)
      PROVE  journal' = journal
  BY <1>2 DEF Call, log
<1>3. ASSUME NEW p \in Processes, Crash(p)
      PROVE  journal' = journal
  BY <1>3 DEF Crash
<1>4. CASE UNCHANGED vars
  BY <1>4 DEF vars
<1> QED
  BY <1>1, <1>2, <1>3, <1>4 DEF Next

(* What the holder of the flock knows of its own slot when it appends.      *)
LEMMA AppenderKnows ==
  ASSUME TypeInv, HolderKnows, NEW c \in Callers, pc[c] = "append"
  PROVE  /\ call[c] \in Slots
         /\ ~torn
         /\ ~Settled(call[c])
         /\ call[c][1] = "compensation" => Settled(<<"effect", call[c][2]>>)
         /\ attempt[c] = NextAttempt(call[c])
  BY DEF TypeInv, CallsHaveSlots, HolderKnows

LEMMA StepJournalWellFormed ==
  TypeInv /\ HolderKnows /\ JournalWellFormed /\ [Next]_vars => JournalWellFormed'
<1> SUFFICES ASSUME TypeInv, HolderKnows, JournalWellFormed, [Next]_vars
             PROVE  JournalWellFormed'
  OBVIOUS
<1>1. CASE journal' = journal
  BY <1>1, JournalKept DEF JournalWellFormed
<1>2. ASSUME NEW c \in Callers, AppendRecord(c) PROVE JournalWellFormed'
  <2> DEFINE n == Len(journal[call[c]])
  <2>1. /\ call[c] \in Slots
        /\ ~Settled(call[c])
        /\ call[c][1] = "compensation" => Settled(<<"effect", call[c][2]>>)
        /\ attempt[c] = NextAttempt(call[c])
    BY <1>2, AppenderKnows DEF AppendRecord, Go
  <2>2. n \in Nat /\ (journal[call[c]] = <<>> <=> n = 0)
    BY <2>1 DEF TypeInv, TypeOK
  <2>3. attempt[c] = n + 1
    <3>1. CASE n = 0
      BY <2>1, <2>2, <3>1 DEF NextAttempt
    <3>2. CASE n # 0
      <4>1. journal[call[c]][n].attempt = n
        BY <2>1, <2>2, <3>2 DEF JournalWellFormed
      <4> QED
        BY <2>1, <2>2, <3>2, <4>1 DEF NextAttempt
    <3> QED
      BY <3>1, <3>2
  <2>4. \A i \in 1 .. n : journal[call[c]][i].status \notin SettledStatuses
    BY <2>1, <2>2 DEF JournalWellFormed, Settled
  <2>5. SUFFICES ASSUME NEW s \in Slots
                 PROVE  (/\ \A i \in 1 .. Len(journal[s]) :
                              /\ journal[s][i].attempt = i
                              /\ journal[s][i].status \in SettledStatuses
                                   => i = Len(journal[s])
                         /\ s[1] = "compensation" /\ journal[s] # <<>>
                              => Settled(<<"effect", s[2]>>))'
    BY DEF JournalWellFormed
  <2>6. s[1] \in {"effect", "compensation"} /\ s[2] \in Keys /\ s = <<s[1], s[2]>>
    BY DEF Slots
  <2>7. s[1] = "compensation" => <<"effect", s[2]>> \in Slots
    BY <2>6 DEF Slots
  <2>8. ASSUME s[1] = "compensation", Settled(<<"effect", s[2]>>)
        PROVE  Settled(<<"effect", s[2]>>)'
    <3>1. <<"effect", s[2]>> # call[c]
      BY <2>1, <2>8 DEF Settled
    <3> QED
      BY <1>2, <2>7, <2>8, <3>1, AppendedSlot
  <2>9. CASE s # call[c]
    <3>1. journal'[s] = journal[s]
      BY <1>2, <2>9, AppendedSlot
    <3> QED
      BY <2>8, <3>1 DEF JournalWellFormed
  <2>10. CASE s = call[c]
    <3>1. /\ Len(journal'[s]) = n + 1
          /\ \A i \in 1 .. n : journal'[s][i] = journal[s][i]
          /\ journal'[s][n + 1] = [status |-> outcome[c], attempt |-> attempt[c]]
      BY <1>2, <2>10, AppendedSlot
    <3>2. \A i \in 1 .. n + 1 : i \in 1 .. n \/ i = n + 1
      BY <2>2
    <3>3. ASSUME NEW i \in 1 .. n
          PROVE  /\ journal'[s][i].attempt = i
                 /\ journal'[s][i].status \notin SettledStatuses
      BY <2>1, <2>4, <2>10, <3>1 DEF JournalWellFormed
    <3>4. journal'[s][n + 1].attempt = n + 1
      BY <2>3, <3>1
    <3>5. \A i \in 1 .. Len(journal'[s]) :
            /\ journal'[s][i].attempt = i
            /\ journal'[s][i].status \in SettledStatuses => i = Len(journal'[s])
      <4> HIDE DEF n
      <4> QED
        BY <3>1, <3>2, <3>3, <3>4
    <3> QED
      BY <2>1, <2>8, <2>10, <3>5
  <2> QED
    BY <2>9, <2>10
<1> QED
  BY <1>1, <1>2, OnlyAppendWrites

(* A step of a caller that neither runs the effect nor appends changes none *)
(* of the terms of EveryRepeatExplained.                                    *)
LEMMA QuietStep ==
  ASSUME TypeInv, EveryRepeatExplained,
         journal' = journal, performed' = performed, unrecorded' = unrecorded,
         \A c \in Callers :
            (pc[c] = "append" \/ pc'[c] = "append") =>
                pc'[c] = pc[c] /\ call'[c] = call[c] /\ outcome'[c] = outcome[c]
  PROVE  EveryRepeatExplained'
<1>1. \A s \in Slots : Pending(s)' <=> Pending(s)
  BY DEF Pending
<1> QED
  BY <1>1, JournalKept DEF EveryRepeatExplained

LEMMA RunExplained ==
  ASSUME TypeInv, HolderKnows, EveryRepeatExplained,
         NEW c \in Callers, Run(c)
  PROVE  EveryRepeatExplained'
<1> USE DEF ghosts, Go, Leave
<1>1. /\ pc[c] = "run"
      /\ call[c] \in Slots
      /\ ~Settled(call[c])
      /\ InsideLock(c)
  BY DEF Run, RunSucceeds, RunFails, RunInterrupted, HolderKnows, InsideLock,
         TypeInv, CallsHaveSlots
<1>2. \A s : ~Pending(s)
  BY <1>1, HolderIsAlone
<1>3. /\ journal' = journal
      /\ call' = call
      /\ \A s : Settled(s)' <=> Settled(s)
  BY JournalKept DEF Run, log
<1>4. \A d \in Callers : d # c => pc'[d] = pc[d] /\ pc[d] # "append"
  <2>1. \A d \in Callers : d # c => pc'[d] = pc[d]
    BY DEF Run, RunSucceeds, RunFails, RunInterrupted, TypeInv, TypeOK
  <2>2. \A d \in Callers : d # c => pc[d] # "append"
    BY <1>1, HolderIsAlone DEF InsideLock
  <2> QED
    BY <2>1, <2>2
<1>5. performed \in [Slots -> Nat] /\ unrecorded \in [Slots -> Nat]
  BY DEF TypeInv, TypeOK
<1>6. CASE RunSucceeds(c)
  <2>1. SuccessStatus(call[c]) \in SettledStatuses
    BY DEF SuccessStatus, SettledStatuses
  <2>2. pc'[c] = "append" /\ outcome'[c] = SuccessStatus(call[c])
    BY <1>6 DEF RunSucceeds, TypeInv, TypeOK
  <2>3. \A s : Pending(s)' <=> s = call[c]
    BY <1>3, <1>4, <2>1, <2>2 DEF Pending
  <2>4. /\ performed' = [performed EXCEPT ![call[c]] = @ + 1]
        /\ unrecorded' = unrecorded
    BY <1>6 DEF RunSucceeds, Happened
  <2> QED
    BY <1>1, <1>2, <1>3, <1>5, <2>3, <2>4 DEF EveryRepeatExplained
<1>7. CASE RunFails(c) \/ RunInterrupted(c)
  <2>1. \A s : ~Pending(s)'
    <3>1. pc'[c] = "append" => outcome'[c] \in FailureStatuses
      BY <1>7 DEF RunFails, RunInterrupted, TypeInv, TypeOK
    <3>2. FailureStatuses \cap SettledStatuses = {}
      BY DEF FailureStatuses, SettledStatuses
    <3> QED
      BY <1>4, <3>1, <3>2 DEF Pending
  <2>2. CASE HappenedUnrecorded(c)
    <3>1. /\ performed' = [performed EXCEPT ![call[c]] = @ + 1]
          /\ unrecorded' = [unrecorded EXCEPT ![call[c]] = @ + 1]
      BY <2>2 DEF HappenedUnrecorded, Happened
    <3> QED
      BY <1>1, <1>2, <1>3, <1>5, <2>1, <3>1 DEF EveryRepeatExplained
  <2>3. CASE UNCHANGED ghosts
    BY <1>2, <1>3, <2>1, <2>3 DEF EveryRepeatExplained
  <2> QED
    BY <1>7, <2>2, <2>3 DEF RunFails, RunInterrupted
<1> QED
  BY <1>6, <1>7 DEF Run

LEMMA AppendExplained ==
  ASSUME TypeInv, HolderKnows, EveryRepeatExplained,
         NEW c \in Callers, AppendRecord(c)
  PROVE  EveryRepeatExplained'
<1>1. pc[c] = "append" /\ InsideLock(c)
  BY DEF AppendRecord, Go, InsideLock
<1>2. call[c] \in Slots /\ ~Settled(call[c])
  BY <1>1, AppenderKnows
<1>3. \A s : Pending(s) <=> s = call[c] /\ outcome[c] \in SettledStatuses
  BY <1>1, HolderIsAlone
<1>4. \A s : ~Pending(s)'
  <2>1. \A d \in Callers : pc'[d] # "append"
    BY <1>1, HolderIsAlone DEF AppendRecord, Go, InsideLock, TypeInv, TypeOK
  <2> QED
    BY <2>1 DEF Pending
<1>5. /\ performed' = performed /\ unrecorded' = unrecorded
      /\ performed \in [Slots -> Nat] /\ unrecorded \in [Slots -> Nat]
  BY DEF AppendRecord, ghosts, TypeInv, TypeOK
<1>6. ASSUME NEW s \in Slots
      PROVE  (performed[s] = (IF Settled(s) THEN 1 ELSE 0)
                             + (IF Pending(s) THEN 1 ELSE 0) + unrecorded[s])'
  <2>1. CASE s = call[c]
    <3>1. Settled(s)' <=> outcome[c] \in SettledStatuses
      BY <2>1, AppendedSlot DEF AppendRecord
    <3> QED
      BY <1>2, <1>3, <1>4, <1>5, <2>1, <3>1 DEF EveryRepeatExplained
  <2>2. CASE s # call[c]
    <3>1. Settled(s)' <=> Settled(s)
      BY <2>2, AppendedSlot
    <3> QED
      BY <1>3, <1>4, <1>5, <2>2, <3>1 DEF EveryRepeatExplained
  <2> QED
    BY <2>1, <2>2
<1> QED
  BY <1>6 DEF EveryRepeatExplained

(* A success that dies with its caller moves from pending to unrecorded.     *)
LEMMA LossExplained ==
  ASSUME TypeInv, HolderKnows, EveryRepeatExplained,
         NEW lost \in SUBSET Callers, LoseRecordOf(lost),
         journal' = journal, performed' = performed, call' = call,
         \A c \in lost : pc'[c] # "append",
         \A c \in Callers \ lost : pc'[c] = pc[c] /\ outcome'[c] = outcome[c]
  PROVE  EveryRepeatExplained'
<1> DEFINE L(s) == \E c \in lost : /\ pc[c] = "append"
                                   /\ call[c] = s
                                   /\ outcome[c] \in SettledStatuses
<1>1. \A s : Pending(s)' <=> \E c \in Callers \ lost :
                                /\ pc[c] = "append"
                                /\ call[c] = s
                                /\ outcome[c] \in SettledStatuses
  BY DEF Pending
<1>2. \A s : L(s) => Pending(s) /\ ~Pending(s)'
  <2> SUFFICES ASSUME NEW s, NEW c \in lost,
                      pc[c] = "append", call[c] = s, outcome[c] \in SettledStatuses
               PROVE  Pending(s) /\ ~Pending(s)'
    OBVIOUS
  <2>1. Pending(s)
    BY DEF Pending
  <2>2. \A d \in Callers : pc[d] = "append" => d = c
    BY HolderIsAlone DEF InsideLock
  <2> QED
    BY <1>1, <2>1, <2>2
<1>3. \A s : ~L(s) => (Pending(s)' <=> Pending(s))
  BY <1>1 DEF Pending
<1>4. \A s \in Slots : unrecorded'[s] = unrecorded[s] + IF L(s) THEN 1 ELSE 0
  BY DEF LoseRecordOf
<1>5. performed \in [Slots -> Nat] /\ unrecorded \in [Slots -> Nat]
  BY DEF TypeInv, TypeOK
<1>6. \A s : Settled(s)' <=> Settled(s)
  BY JournalKept
<1> HIDE DEF L
<1> QED
  BY <1>2, <1>3, <1>4, <1>5, <1>6 DEF EveryRepeatExplained

LEMMA StepEveryRepeatExplained ==
  TypeInv /\ HolderKnows /\ EveryRepeatExplained /\ [Next]_vars
    => EveryRepeatExplained'
<1> SUFFICES ASSUME TypeInv, HolderKnows, EveryRepeatExplained, [Next]_vars
             PROVE  EveryRepeatExplained'
  OBVIOUS
<1> USE DEF log, locks, ghosts, Go, Leave
<1>1. ASSUME NEW c \in Callers, NEW s \in Slots, Call(c, s)
      PROVE  EveryRepeatExplained'
  BY <1>1, QuietStep DEF Call, TypeInv, TypeOK
<1>2. ASSUME NEW c \in Callers, AcquireThreadLock(c) PROVE EveryRepeatExplained'
  BY <1>2, QuietStep DEF AcquireThreadLock, TypeInv, TypeOK
<1>3. ASSUME NEW c \in Callers, AcquireFileLock(c) PROVE EveryRepeatExplained'
  BY <1>3, QuietStep DEF AcquireFileLock, TypeInv, TypeOK
<1>4. ASSUME NEW c \in Callers, Read(c) PROVE EveryRepeatExplained'
  <2>1. /\ pc[c] = "read"
        /\ pc' \in {[pc EXCEPT ![c] = "run"], [pc EXCEPT ![c] = "unlock_file"]}
        /\ outcome' = outcome
    BY <1>4 DEF Read, ReadRaises, ReadRejects, ReadReplays, ReadProceeds
  <2> QED
    BY <1>4, <2>1, QuietStep DEF Read, TypeInv, TypeOK
<1>5. ASSUME NEW c \in Callers, Run(c) PROVE EveryRepeatExplained'
  BY <1>5, RunExplained
<1>6. ASSUME NEW c \in Callers, AppendRecord(c) PROVE EveryRepeatExplained'
  BY <1>6, AppendExplained
<1>7. ASSUME NEW c \in Callers, AppendFails(c) PROVE EveryRepeatExplained'
  BY <1>7, LossExplained DEF AppendFails, TypeInv, TypeOK
<1>8. ASSUME NEW c \in Callers, ReleaseFileLock(c) PROVE EveryRepeatExplained'
  BY <1>8, QuietStep DEF ReleaseFileLock, TypeInv, TypeOK
<1>9. ASSUME NEW c \in Callers, ReleaseThreadLock(c) PROVE EveryRepeatExplained'
  BY <1>9, QuietStep DEF ReleaseThreadLock, TypeInv, TypeOK
<1>10. ASSUME NEW p \in Processes, Crash(p) PROVE EveryRepeatExplained'
  BY <1>10, LossExplained DEF Crash, TypeInv, TypeOK
<1>11. CASE UNCHANGED vars
  BY <1>11, QuietStep DEF vars
<1> QED
  BY <1>1, <1>2, <1>3, <1>4, <1>5, <1>6, <1>7, <1>8, <1>9, <1>10, <1>11
     DEF Next, Step

-------------------------------------------------------------------------------
(* Settled slots stay settled: no step rewrites the log.                    *)
LEMMA SettledStays ==
  ASSUME TypeInv, HolderKnows, [Next]_vars, NEW s \in Slots, Settled(s)
  PROVE  Settled(s)'
<1>1. CASE journal' = journal
  BY <1>1, JournalKept
<1>2. ASSUME NEW c \in Callers, AppendRecord(c) PROVE Settled(s)'
  <2>1. s # call[c]
    BY <1>2, AppenderKnows DEF AppendRecord, Go
  <2> QED
    BY <1>2, <2>1, AppendedSlot
<1> QED
  BY <1>1, <1>2, OnlyAppendWrites

(* A caller is only ever told "settled" or "replayed" of a settled slot.     *)
AnswersSettled ==
    \A c \in Callers : answer[c] \in {"settled", "replayed"} => Settled(call[c])

LEMMA StepAnswersSettled ==
  TypeInv /\ HolderKnows /\ AnswersSettled /\ [Next]_vars => AnswersSettled'
<1> SUFFICES ASSUME TypeInv, HolderKnows, AnswersSettled, [Next]_vars,
                    NEW d \in Callers, answer'[d] \in {"settled", "replayed"}
             PROVE  Settled(call[d])'
  BY DEF AnswersSettled
<1>1. ASSUME answer'[d] = answer[d], call'[d] = call[d] PROVE Settled(call[d])'
  <2>1. Settled(call[d]) /\ call[d] \in Slots
    BY <1>1 DEF AnswersSettled, TypeInv, CallsHaveSlots
  <2>2. PICK s \in Slots : s = call[d]
    BY <2>1
  <2>3. Settled(s)'
    BY <2>1, <2>2, SettledStays
  <2> QED
    BY <1>1, <2>2, <2>3 DEF Settled
<1> USE DEF log, locks, ghosts, Go, Leave, TypeInv, TypeOK
<1>2. ASSUME NEW c \in Callers, NEW s \in Slots, Call(c, s) PROVE Settled(call[d])'
  BY <1>1, <1>2 DEF Call
<1>3. ASSUME NEW c \in Callers, Read(c) PROVE Settled(call[d])'
  <2>1. CASE ReadRaises(c)
    BY <1>1, <1>3, <2>1 DEF Read, ReadRaises
  <2>2. CASE ReadRejects(c)
    BY <1>1, <1>3, <2>2 DEF Read, ReadRejects
  <2>3. CASE ReadReplays(c)
    <3>1. CASE d = c
      BY <1>3, <2>3, <3>1, JournalKept DEF Read, ReadReplays
    <3>2. CASE d # c
      BY <1>1, <1>3, <2>3, <3>2 DEF Read, ReadReplays
    <3> QED
      BY <3>1, <3>2
  <2>4. CASE ReadProceeds(c)
    BY <1>1, <1>3, <2>4 DEF Read, ReadProceeds
  <2> QED
    BY <1>3, <2>1, <2>2, <2>3, <2>4 DEF Read
<1>4. ASSUME NEW c \in Callers, Run(c) PROVE Settled(call[d])'
  BY <1>1, <1>4 DEF Run, RunSucceeds, RunFails, RunInterrupted
<1>5. ASSUME NEW c \in Callers, AppendRecord(c) PROVE Settled(call[d])'
  <2>1. CASE d = c
    BY <1>5, <2>1, AppendedSlot DEF AppendRecord
  <2>2. CASE d # c
    BY <1>1, <1>5, <2>2 DEF AppendRecord
  <2> QED
    BY <2>1, <2>2
<1>6. ASSUME NEW c \in Callers,
             \/ AcquireThreadLock(c) \/ AcquireFileLock(c) \/ AppendFails(c)
             \/ ReleaseFileLock(c) \/ ReleaseThreadLock(c)
      PROVE  Settled(call[d])'
  BY <1>1, <1>6 DEF AcquireThreadLock, AcquireFileLock, AppendFails, ReleaseFileLock,
                    ReleaseThreadLock
<1>7. ASSUME NEW p \in Processes, Crash(p) PROVE Settled(call[d])'
  BY <1>1, <1>7 DEF Crash
<1>8. CASE UNCHANGED vars
  BY <1>1, <1>8 DEF vars
<1> QED
  BY <1>2, <1>3, <1>4, <1>5, <1>6, <1>7, <1>8 DEF Next, Step

(* The inductive invariant.                                                 *)
IInv ==
    /\ TypeInv
    /\ HolderKnows
    /\ JournalWellFormed
    /\ EveryRepeatExplained
    /\ AnswersSettled

LEMMA InitIInv == Init => IInv
<1> SUFFICES ASSUME Init PROVE IInv
  OBVIOUS
<1>1. HolderKnows
  BY DEF Init, HolderKnows, InsideLock
<1>2. JournalWellFormed
  BY DEF Init, JournalWellFormed
<1>3. EveryRepeatExplained
  BY DEF Init, EveryRepeatExplained, Settled, Pending
<1>4. AnswersSettled
  BY DEF Init, AnswersSettled
<1> QED
  BY <1>1, <1>2, <1>3, <1>4, InitTypeInv DEF IInv

LEMMA StepIInv == IInv /\ [Next]_vars => IInv'
  BY StepTypeInv, StepHolderKnows, StepJournalWellFormed, StepEveryRepeatExplained,
     StepAnswersSettled DEF IInv

LEMMA Invariance == Spec => []IInv
  BY InitIInv, StepIInv, PTL DEF Spec

(* The log of a key is well formed: attempts numbered from 1, at most one    *)
(* success and nothing after it, a compensation only of a settled effect.    *)
THEOREM JournalIsWellFormed == Spec => []JournalWellFormed
<1>1. IInv => JournalWellFormed
  BY DEF IInv
<1> QED
  BY <1>1, Invariance, PTL

(* However calls, failures and crashes interleave, an external effect is     *)
(* performed once more than the successes that left no record.              *)
THEOREM RepeatsAreExplained == Spec => []EveryRepeatExplained
<1>1. IInv => EveryRepeatExplained
  BY DEF IInv
<1> QED
  BY <1>1, Invariance, PTL

(* A caller told of a success can rely on it, whatever others do later.      *)
THEOREM AnswersAreOnFile == Spec => []SuccessAnswersAreOnFile
<1>1. IInv => SuccessAnswersAreOnFile
  <2> SUFFICES ASSUME IInv, NEW c \in Callers, answer[c] \in {"settled", "replayed"}
               PROVE  Settled(call[c]) /\ performed[call[c]] >= 1
    BY DEF SuccessAnswersAreOnFile
  <2>1. call[c] \in Slots /\ Settled(call[c])
    BY DEF IInv, AnswersSettled, TypeInv, CallsHaveSlots
  <2>2. unrecorded[call[c]] \in Nat
    BY <2>1 DEF IInv, TypeInv, TypeOK
  <2> QED
    BY <2>1, <2>2 DEF IInv, EveryRepeatExplained
<1> QED
  BY <1>1, Invariance, PTL

(* Once a partial line is in the file no call performs an effect or writes   *)
(* a record.                                                                *)
THEOREM TornJournalIsInert == Spec => TornJournalStopsEffects
<1>1. IInv /\ [Next]_vars => [torn => UNCHANGED <<journal, performed>>]_vars
  <2> SUFFICES ASSUME IInv, Next, torn
               PROVE  journal' = journal /\ performed' = performed
    BY DEF vars
  <2>1. \A c \in Callers : pc[c] \notin {"run", "append"}
    BY DEF IInv, HolderKnows
  <2>2. ASSUME NEW c \in Callers, Step(c)
        PROVE  journal' = journal /\ performed' = performed
    BY <2>1, <2>2
       DEF Step, AcquireThreadLock, AcquireFileLock, Read, Run, RunSucceeds, RunFails,
           RunInterrupted, AppendRecord, AppendFails, ReleaseFileLock,
           ReleaseThreadLock, Go, log, ghosts
  <2>3. ASSUME NEW c \in Callers, NEW s \in Slots, Call(c, s)
        PROVE  journal' = journal /\ performed' = performed
    BY <2>3 DEF Call, log, ghosts
  <2>4. ASSUME NEW p \in Processes, Crash(p)
        PROVE  journal' = journal /\ performed' = performed
    BY <2>4 DEF Crash
  <2> QED
    BY <2>2, <2>3, <2>4 DEF Next
<1> QED
  BY <1>1, Invariance, PTL DEF Spec, TornJournalStopsEffects

-------------------------------------------------------------------------------
(* EffectOnce: the state of a key.                                          *)
LEMMA LedgerOfKey ==
  ASSUME NEW k \in Keys
  PROVE  /\ ledger[k] = IF Settled(<<"compensation", k>>) THEN "undone"
                        ELSE IF Settled(<<"effect", k>>) THEN "done" ELSE "open"
         /\ ledger'[k] = IF Settled(<<"compensation", k>>)' THEN "undone"
                         ELSE IF Settled(<<"effect", k>>)' THEN "done" ELSE "open"
  BY DEF ledger

LEMMA LedgerKept ==
  ASSUME \A s \in Slots : Settled(s)' <=> Settled(s)
  PROVE  ledger' = ledger
<1>1. \A k \in Keys : <<"compensation", k>> \in Slots /\ <<"effect", k>> \in Slots
  BY DEF Slots
<1> QED
  BY <1>1 DEF ledger

(* An unsettled slot a caller works on: its key is open, or done if it is    *)
(* about to be compensated.                                                 *)
LEMMA KeyOfWorkingSlot ==
  ASSUME IInv, NEW c \in Callers, pc[c] \in {"run", "append"}
  PROVE  \E k \in Keys :
            \/ call[c] = <<"effect", k>> /\ ledger[k] = "open"
            \/ call[c] = <<"compensation", k>> /\ ledger[k] = "done"
<1>1. /\ call[c] \in Slots
      /\ ~Settled(call[c])
      /\ call[c][1] = "compensation" => Settled(<<"effect", call[c][2]>>)
  BY DEF IInv, HolderKnows, TypeInv, CallsHaveSlots
<1>2. PICK k \in Keys : call[c] = <<"effect", k>> \/ call[c] = <<"compensation", k>>
  BY <1>1 DEF Slots
<1>3. CASE call[c] = <<"effect", k>>
  <2>1. ~Settled(<<"effect", k>>)
    BY <1>1, <1>3
  <2>2. ~Settled(<<"compensation", k>>)
    <3>1. <<"compensation", k>> \in Slots
      BY DEF Slots
    <3>2. journal[<<"compensation", k>>] = <<>>
      BY <2>1, <3>1 DEF IInv, JournalWellFormed
    <3> QED
      BY <3>2 DEF Settled
  <2> QED
    BY <1>3, <2>1, <2>2, LedgerOfKey
<1>4. CASE call[c] = <<"compensation", k>>
  <2>1. ~Settled(<<"compensation", k>>)
    BY <1>1, <1>4
  <2>2. Settled(<<"effect", k>>)
    BY <1>1, <1>4
  <2> QED
    BY <1>4, <2>1, <2>2, LedgerOfKey
<1> QED
  BY <1>2, <1>3, <1>4

LEMMA RunImplements ==
  ASSUME IInv, NEW c \in Callers, Run(c)
  PROVE  [Abstract!Next]_<<ledger, performed>>
<1>1. pc[c] = "run"
  BY DEF Run, RunSucceeds, RunFails, RunInterrupted, Go
<1>2. \/ performed' = performed
      \/ performed' = [performed EXCEPT ![call[c]] = @ + 1]
  BY DEF Run, RunSucceeds, RunFails, RunInterrupted, HappenedUnrecorded, Happened, ghosts
<1>3. ledger' = ledger
  <2>1. journal' = journal
    BY DEF Run, log
  <2> QED
    BY <2>1, JournalKept, LedgerKept
<1>4. PICK k \in Keys :
            \/ call[c] = <<"effect", k>> /\ ledger[k] = "open"
            \/ call[c] = <<"compensation", k>> /\ ledger[k] = "done"
  BY <1>1, KeyOfWorkingSlot
<1>5. CASE performed' = performed
  BY <1>3, <1>5
<1>6. CASE performed' = [performed EXCEPT ![call[c]] = @ + 1]
  BY <1>3, <1>4, <1>6 DEF Abstract!Next, Abstract!Perform, Abstract!Revert
<1> QED
  BY <1>2, <1>5, <1>6

LEMMA AppendImplements ==
  ASSUME IInv, NEW c \in Callers, AppendRecord(c)
  PROVE  [Abstract!Next]_<<ledger, performed>>
<1>1. pc[c] = "append" /\ performed' = performed
  BY DEF AppendRecord, Go, ghosts
<1>2. PICK k \in Keys :
            \/ call[c] = <<"effect", k>> /\ ledger[k] = "open"
            \/ call[c] = <<"compensation", k>> /\ ledger[k] = "done"
  BY <1>1, KeyOfWorkingSlot
<1>3. /\ call[c] \in Slots
      /\ \A s \in Slots \ {call[c]} : Settled(s)' <=> Settled(s)
      /\ Settled(call[c])' <=> outcome[c] \in SettledStatuses
      /\ ~Settled(call[c])
      /\ call' = call
  BY <1>1, AppendedSlot, AppenderKnows DEF IInv, AppendRecord
<1>4. CASE outcome[c] \notin SettledStatuses
  <2>1. \A s \in Slots : Settled(s)' <=> Settled(s)
    <3> TAKE s \in Slots
    <3>1. CASE s = call[c]
      BY <1>3, <1>4, <3>1 DEF Settled
    <3> QED
      BY <1>3, <3>1
  <2> QED
    BY <1>1, <2>1, LedgerKept
<1>5. CASE outcome[c] \in SettledStatuses
  <2>1. performed[call[c]] > 0
    <3>1. Pending(call[c])
      BY <1>1, <1>5 DEF Pending
    <3>2. unrecorded[call[c]] \in Nat
      BY <1>3 DEF IInv, TypeInv, TypeOK
    <3> QED
      BY <1>3, <3>1, <3>2 DEF IInv, EveryRepeatExplained
  <2>2. \A j \in Keys : <<"compensation", j>> \in Slots /\ <<"effect", j>> \in Slots
    BY DEF Slots
  <2>3. \A j \in Keys \ {k} : ledger'[j] = ledger[j]
    <3> TAKE j \in Keys \ {k}
    <3>1. <<"compensation", j>> # call[c] /\ <<"effect", j>> # call[c]
      BY <1>2
    <3> QED
      BY <1>3, <2>2, <3>1, LedgerOfKey
  <2>4. DOMAIN ledger = Keys /\ DOMAIN ledger' = Keys
    BY DEF ledger
  <2>5. CASE call[c] = <<"effect", k>> /\ ledger[k] = "open"
    <3>1. Settled(<<"effect", k>>)'
      BY <1>3, <1>5, <2>5 DEF Settled
    <3>2. ~Settled(<<"compensation", k>>)'
      <4>1. <<"compensation", k>> # call[c]
        BY <2>5
      <4>2. ~Settled(<<"compensation", k>>)
        BY <2>5, LedgerOfKey
      <4> QED
        BY <1>3, <2>2, <4>1, <4>2
    <3>3. ledger'[k] = "done"
      BY <3>1, <3>2, LedgerOfKey
    <3>4. ledger' = [ledger EXCEPT ![k] = "done"]
      BY <2>3, <2>4, <3>3 DEF ledger
    <3> QED
      BY <1>1, <2>1, <2>5, <3>4 DEF Abstract!Next, Abstract!Commit
  <2>6. CASE call[c] = <<"compensation", k>> /\ ledger[k] = "done"
    <3>1. Settled(<<"compensation", k>>)'
      BY <1>3, <1>5, <2>6 DEF Settled
    <3>2. ledger'[k] = "undone"
      BY <3>1, LedgerOfKey
    <3>3. ledger' = [ledger EXCEPT ![k] = "undone"]
      BY <2>3, <2>4, <3>2 DEF ledger
    <3> QED
      BY <1>1, <2>1, <2>6, <3>3 DEF Abstract!Next, Abstract!CommitRevert
  <2> QED
    BY <1>2, <2>5, <2>6
<1> QED
  BY <1>4, <1>5

LEMMA OtherStepsStutter ==
  ASSUME [Next]_vars, \A c \in Callers : ~Run(c) /\ ~AppendRecord(c)
  PROVE  UNCHANGED <<ledger, performed>>
<1>1. performed' = performed
  <2>1. ASSUME NEW c \in Callers, Step(c) PROVE performed' = performed
    BY <2>1 DEF Step, AcquireThreadLock, AcquireFileLock, Read, AppendFails,
                ReleaseFileLock, ReleaseThreadLock, ghosts
  <2>2. ASSUME NEW c \in Callers, NEW s \in Slots, Call(c, s) PROVE performed' = performed
    BY <2>2 DEF Call, ghosts
  <2>3. ASSUME NEW p \in Processes, Crash(p) PROVE performed' = performed
    BY <2>3 DEF Crash
  <2>4. CASE UNCHANGED vars
    BY <2>4 DEF vars
  <2> QED
    BY <2>1, <2>2, <2>3, <2>4 DEF Next
<1>2. ledger' = ledger
  <2>1. journal' = journal
    BY OnlyAppendWrites
  <2> QED
    BY <2>1, JournalKept, LedgerKept
<1> QED
  BY <1>1, <1>2

(* The journal refines EffectOnce: crashes, failing calls and failing        *)
(* appends never make a recorded effect happen again, nor an unrecorded one  *)
(* be compensated.                                                          *)
THEOREM Refinement == Spec => ImplementsEffectOnce
<1>1. Init => Abstract!Init
  <2> SUFFICES ASSUME Init PROVE Abstract!Init
    OBVIOUS
  <2>1. ledger = [k \in Keys |-> "open"]
    <3>1. \A k \in Keys : ~Settled(<<"compensation", k>>) /\ ~Settled(<<"effect", k>>)
      BY DEF Init, Settled, Slots
    <3> QED
      BY <3>1 DEF ledger
  <2> QED
    BY <2>1 DEF Init, Abstract!Init, Abstract!Kinds, Slots
<1>2. IInv /\ [Next]_vars => [Abstract!Next]_<<ledger, performed>>
  BY RunImplements, AppendImplements, OtherStepsStutter
<1> QED
  BY <1>1, <1>2, Invariance, PTL DEF Spec, ImplementsEffectOnce, Abstract!Spec
===============================================================================
