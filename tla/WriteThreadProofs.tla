------------------------- MODULE WriteThreadProofs -------------------------
(***************************************************************************)
(* Proofs about the queue of writers: the types, that the queue loses      *)
(* nobody and has one leader, that a follower does not return before it    *)
(* was signalled, and that no wake-up is lost.                             *)
(***************************************************************************)
EXTENDS WriteThread, TLAPS

Waiting == {"spin", "block", "check", "park"}
Leading == {"leading", "panicked", "crashed"}

(* A writer is in the queue once, and exactly when its thread is past the   *)
(* compare-and-swap.                                                        *)
QueueHasNoRepeats ==
  \A i, j \in 1 .. Len(queue) : queue[i] = queue[j] => i = j

LinkedIsJoined ==
  \A w \in Writers :
    pc[w] \notin {"new", "link"} <=> \E i \in 1 .. Len(queue) : queue[i] = w

(* A flag is there exactly when the signaller has been.                     *)
Flagged(w) == state[w] \cap {"COMPLETE", "LEADER"} # {}

SignalIsFlag == \A w \in Writers : signal[w] # "none" <=> Flagged(w)

(* Only the first writer returns without a signal.                          *)
ReturnIsSignalled ==
  \A w \in Writers :
    pc[w] = "returned" => w = queue[1] \/ signal[w] # "none"

(* The inductive invariant of the queue and of the waiting.                 *)
QueueInv == QueueIsIntact /\ QueueHasNoRepeats /\ LinkedIsJoined
WaitInv == SignalIsFlag /\ ReturnIsSignalled /\ NoLostWakeUp
IInv == TypeOK /\ QueueInv /\ WaitInv

-----------------------------------------------------------------------------
(* What Append does to a sequence, element by element.                      *)
LEMMA AppendFacts ==
  ASSUME NEW S, NEW s \in Seq(S), NEW x \in S
  PROVE  /\ Append(s, x) \in Seq(S)
         /\ Len(s) \in Nat
         /\ Len(Append(s, x)) = Len(s) + 1
         /\ \A i \in 1 .. Len(s) : Append(s, x)[i] = s[i]
         /\ Append(s, x)[Len(s) + 1] = x
         /\ Append(s, x) # <<>>
  OBVIOUS

(* The empty queue is the one of length 0.                                  *)
LEMMA EmptySeq ==
  ASSUME NEW S, NEW s \in Seq(S)
  PROVE  s = <<>> <=> Len(s) = 0
  OBVIOUS

(* The first state satisfies the invariant: there is no writer in the queue.*)
LEMMA InitIInv == Init => IInv
<1> SUFFICES ASSUME Init PROVE IInv
  OBVIOUS
<1>1. TypeOK
  BY NullAssumption
  DEF Init, TypeOK, NoGroup, WriteGroup, Flags, PcValues
<1>2. QueueInv
  BY DEF Init, QueueInv, QueueIsIntact, QueueHasNoRepeats, LinkedIsJoined
<1>3. WaitInv
  BY DEF Init, WaitInv, SignalIsFlag, ReturnIsSignalled, NoLostWakeUp, Flagged
<1> QED
  BY <1>1, <1>2, <1>3 DEF IInv

-----------------------------------------------------------------------------
(* Types and the parked thread's flag, one action at a time.                *)
LEMMA NextTypeOK == TypeOK /\ [Next]_vars => TypeOK'
<1> SUFFICES ASSUME TypeOK, [Next]_vars PROVE TypeOK'
  OBVIOUS
<1> USE DEF TypeOK, links, Goto, PcValues
<1>1. ASSUME NEW w \in Writers, Join(w) PROVE TypeOK'
  BY <1>1 DEF Join
<1>2. ASSUME NEW w \in Writers, LinkWriter(w) PROVE TypeOK'
  <2>1. queue' \in Seq(Writers)
    BY <1>2, AppendFacts DEF LinkWriter
  <2>2. group' \in [leader : Writers \union {Null},
                    last_writer : Writers \union {Null}, writers : {0, 1}]
    BY <1>2 DEF LinkWriter, WriteGroup
  <2>3. /\ pc' \in [Writers -> PcValues]
        /\ \A u \in Writers : pc'[u] \in {"check", "park"} => pc'[u] = pc[u]
    BY <1>2 DEF LinkWriter
  <2> QED
    BY <1>2, <2>1, <2>2, <2>3 DEF LinkWriter
<1>3. ASSUME NEW w \in Writers, LinkFails(w) PROVE TypeOK'
  BY <1>3 DEF LinkFails
<1>4. ASSUME NEW w \in Writers, LeaderReturns(w) PROVE TypeOK'
  BY <1>4 DEF LeaderReturns, NoGroup, WriteGroup
<1>5. ASSUME NEW w \in Writers, EnterBatchGroup(w) PROVE TypeOK'
  BY <1>5 DEF EnterBatchGroup, SetNewLinks
<1>6. ASSUME NEW w \in Writers, SpinDone(w) PROVE TypeOK'
  BY <1>6 DEF SpinDone
<1>7. ASSUME NEW w \in Writers, FallThrough(w) PROVE TypeOK'
  BY <1>7 DEF FallThrough
<1>8. ASSUME NEW w \in Writers, MarkWaiting(w) PROVE TypeOK'
  BY <1>8 DEF MarkWaiting, Flags
<1>9. ASSUME NEW w \in Writers, CheckState(w) PROVE TypeOK'
  BY <1>9 DEF CheckState
<1>10. ASSUME NEW w \in Writers, Unparked(w) PROVE TypeOK'
  BY <1>10 DEF Unparked
<1>11. ASSUME NEW w \in Writers, SpuriousWake(w) PROVE TypeOK'
  BY <1>11 DEF SpuriousWake
<1>12. ASSUME NEW w \in Writers, SetFlag(w) PROVE TypeOK'
  BY <1>12 DEF SetFlag, Flags
<1>13. ASSUME NEW w \in Writers, LoadState(w) PROVE TypeOK'
  BY <1>13 DEF LoadState
<1>14. ASSUME NEW w \in Writers, Unpark(w) PROVE TypeOK'
  BY <1>14 DEF Unpark
<1>15. CASE UNCHANGED vars
  BY <1>15 DEF vars
<1> QED
  BY <1>1, <1>2, <1>3, <1>4, <1>5, <1>6, <1>7, <1>8, <1>9, <1>10, <1>11,
     <1>12, <1>13, <1>14, <1>15 DEF Next, WaitStep, SignalStep

-----------------------------------------------------------------------------
(* A step that leaves the queue alone and moves no writer into or out of   *)
(* it, nor among the leading ones, keeps the queue's invariant.            *)
LEMMA QueueKept ==
  ASSUME TypeOK, QueueInv, UNCHANGED <<newest_writer, link_older, queue>>,
         group'.leader = group.leader,
         \A w \in Writers :
           \/ pc'[w] = pc[w]
           \/ pc[w] \in Leading /\ pc'[w] \in Leading \union {"returned"}
           \/ pc[w] \in Waiting /\ pc'[w] \in Waiting \union {"returned"}
           \/ pc[w] = "new" /\ pc'[w] = "link"
  PROVE  QueueInv'
<1>1. QueueHasNoRepeats'
  BY DEF QueueInv, QueueHasNoRepeats
<1>2. LinkedIsJoined'
  BY DEF QueueInv, LinkedIsJoined, Leading, Waiting
<1>3. QueueIsIntact'
  <2>1. /\ newest_writer' = IF queue' = <<>> THEN Null ELSE queue'[Len(queue')]
        /\ \A i \in DOMAIN queue' :
             link_older'[queue'[i]] = IF i = 1 THEN Null ELSE queue'[i - 1]
    BY DEF QueueInv, QueueIsIntact
  <2>2. ASSUME NEW w \in Writers, pc'[w] \in Leading
        PROVE  w = queue'[1] /\ group'.leader = w
    BY <2>2 DEF QueueInv, QueueIsIntact, Leading, Waiting
  <2>3. ASSUME NEW w \in Writers, pc'[w] \in Waiting
        PROVE  \E i \in 2 .. Len(queue') : queue'[i] = w
    BY <2>3 DEF QueueInv, QueueIsIntact, Leading, Waiting
  <2> QED
    BY <2>1, <2>2, <2>3 DEF QueueIsIntact, Leading, Waiting
<1> QED
  BY <1>1, <1>2, <1>3 DEF QueueInv

(* The compare-and-swap succeeds: the writer found is the last of the queue,*)
(* the new one goes behind it, and it leads only if there was none.         *)
LEMMA LinkWriterQueue ==
  ASSUME TypeOK, QueueInv, NEW w \in Writers, LinkWriter(w)
  PROVE  QueueInv'
<1> DEFINE n == Len(queue)
<1>1. /\ pc[w] = "link"
      /\ newest_writer = newest[w]
      /\ link_older' = [link_older EXCEPT ![w] = newest[w]]
      /\ newest_writer' = w
      /\ queue' = Append(queue, w)
      /\ newest[w] = Null => /\ pc' = [pc EXCEPT ![w] = "leading"]
                             /\ group' = WriteGroup(w)
      /\ newest[w] # Null => /\ pc' = [pc EXCEPT ![w] = "spin"]
                             /\ group' = group
  BY DEF LinkWriter, Goto
<1>2. /\ queue' \in Seq(Writers) /\ n \in Nat /\ Len(queue') = n + 1
      /\ \A i \in 1 .. n : queue'[i] = queue[i]
      /\ queue'[n + 1] = w
      /\ queue' # <<>>
  BY <1>1, AppendFacts DEF TypeOK
<1>3. /\ queue = <<>> <=> n = 0
      /\ DOMAIN queue = 1 .. n
      /\ \A i \in 1 .. n : queue[i] \in Writers
  BY EmptySeq DEF TypeOK
<1>4. \A i \in 1 .. n : queue[i] # w
  BY <1>1, <1>2 DEF QueueInv, LinkedIsJoined
<1>5. newest[w] = IF n = 0 THEN Null ELSE queue[n]
  BY <1>1, <1>2, <1>3 DEF QueueInv, QueueIsIntact
<1>6. newest[w] = Null <=> n = 0
  BY <1>2, <1>3, <1>5, NullAssumption
<1>7. \A u \in Writers : u # w => pc'[u] = pc[u]
  BY <1>1 DEF TypeOK
<1>8. pc'[w] = IF n = 0 THEN "leading" ELSE "spin"
  BY <1>1, <1>6 DEF TypeOK
<1>9. QueueHasNoRepeats'
  <2> SUFFICES ASSUME NEW i \in 1 .. n + 1, NEW j \in 1 .. n + 1,
                      queue'[i] = queue'[j]
               PROVE  i = j
    BY <1>2 DEF QueueHasNoRepeats
  <2>1. CASE i \in 1 .. n /\ j \in 1 .. n
    BY <1>2, <2>1 DEF QueueInv, QueueHasNoRepeats
  <2>2. CASE i = n + 1 \/ j = n + 1
    BY <1>2, <1>4, <2>2
  <2> QED
    BY <1>2, <2>1, <2>2
<1>10. LinkedIsJoined'
  <2> SUFFICES ASSUME NEW u \in Writers
               PROVE  pc'[u] \notin {"new", "link"} <=>
                        \E i \in 1 .. n + 1 : queue'[i] = u
    BY <1>2 DEF LinkedIsJoined
  <2>1. CASE u = w
    BY <1>2, <1>8, <2>1
  <2>2. CASE u # w
    <3>1. pc[u] \notin {"new", "link"} <=> \E i \in 1 .. n : queue[i] = u
      BY DEF QueueInv, LinkedIsJoined
    <3>2. (\E i \in 1 .. n + 1 : queue'[i] = u) <=>
            \E i \in 1 .. n : queue[i] = u
      BY <1>2, <2>2
    <3> QED
      BY <1>7, <2>2, <3>1, <3>2
  <2> QED
    BY <2>1, <2>2
<1>11. \A i \in DOMAIN queue' :
        link_older'[queue'[i]] = IF i = 1 THEN Null ELSE queue'[i - 1]
  <2> SUFFICES ASSUME NEW i \in 1 .. n + 1
               PROVE  link_older'[queue'[i]] =
                        IF i = 1 THEN Null ELSE queue'[i - 1]
    BY <1>2
  <2>1. CASE i = n + 1
    <3>1. link_older'[w] = newest[w]
      BY <1>1 DEF TypeOK
    <3>2. n > 0 => queue'[n] = queue[n]
      BY <1>2
    <3> QED
      BY <1>2, <1>5, <2>1, <3>1, <3>2
  <2>2. CASE i \in 1 .. n
    <3>1. link_older'[queue[i]] = link_older[queue[i]]
      BY <1>1, <1>3, <1>4, <2>2 DEF TypeOK
    <3>2. link_older[queue[i]] = IF i = 1 THEN Null ELSE queue[i - 1]
      BY <1>3, <2>2 DEF QueueInv, QueueIsIntact
    <3>3. i # 1 => queue'[i - 1] = queue[i - 1]
      BY <1>2, <2>2
    <3> QED
      BY <1>2, <2>2, <3>1, <3>2, <3>3
  <2> QED
    BY <1>2, <2>1, <2>2
<1>12. ASSUME NEW u \in Writers, pc'[u] \in Leading
       PROVE  u = queue'[1] /\ group'.leader = u
  <2>1. CASE u = w
    <3>1. n = 0 /\ newest[w] = Null
      BY <1>2, <1>6, <1>8, <1>12, <2>1 DEF Leading
    <3> QED
      BY <1>1, <1>2, <2>1, <3>1 DEF WriteGroup
  <2>2. CASE u # w
    <3>1. pc[u] \in Leading
      BY <1>7, <1>12, <2>2
    <3>2. PICK i \in 1 .. n : queue[i] = u
      BY <3>1 DEF QueueInv, LinkedIsJoined, Leading
    <3>3. n # 0 /\ 1 \in 1 .. n
      BY <1>2, <3>2
    <3>4. u = queue[1] /\ group.leader = u
      BY <3>1 DEF QueueInv, QueueIsIntact, Leading
    <3> QED
      BY <1>1, <1>2, <1>6, <3>3, <3>4
  <2> QED
    BY <2>1, <2>2
<1>13. ASSUME NEW u \in Writers, pc'[u] \in Waiting
       PROVE  \E i \in 2 .. n + 1 : queue'[i] = u
  <2>1. CASE u = w
    <3>1. n # 0
      BY <1>8, <1>13, <2>1 DEF Waiting
    <3> QED
      BY <1>2, <2>1, <3>1
  <2>2. CASE u # w
    <3>1. PICK i \in 2 .. n : queue[i] = u
      BY <1>7, <1>13, <2>2 DEF QueueInv, QueueIsIntact, Waiting
    <3> QED
      BY <1>2, <3>1
  <2> QED
    BY <2>1, <2>2
<1>14. QueueIsIntact'
  <2>1. newest_writer' = IF queue' = <<>> THEN Null ELSE queue'[Len(queue')]
    BY <1>1, <1>2
  <2> QED
    BY <1>2, <1>11, <1>12, <1>13, <2>1 DEF QueueIsIntact, Leading, Waiting
<1> QED
  BY <1>9, <1>10, <1>14 DEF QueueInv

(* The queue's invariant, one action at a time: LinkWriter is the only one  *)
(* that changes the queue; the leader gives up the group as it returns.     *)
LEMMA NextQueue == TypeOK /\ QueueInv /\ [Next]_vars => QueueInv'
<1> SUFFICES ASSUME TypeOK, QueueInv, [Next]_vars PROVE QueueInv'
  OBVIOUS
<1> USE DEF links, Goto, Leading, Waiting
<1>1. ASSUME NEW w \in Writers, Join(w) PROVE QueueInv'
  BY <1>1, QueueKept DEF Join, TypeOK
<1>2. ASSUME NEW w \in Writers, LinkWriter(w) PROVE QueueInv'
  BY <1>2, LinkWriterQueue
<1>3. ASSUME NEW w \in Writers, LinkFails(w) PROVE QueueInv'
  BY <1>3, QueueKept DEF LinkFails, TypeOK
<1>4. ASSUME NEW w \in Writers, LeaderReturns(w) PROVE QueueInv'
  <2>1. /\ UNCHANGED <<newest_writer, link_older, queue>>
        /\ pc[w] = "leading"
        /\ pc' = [pc EXCEPT ![w] = "returned"]
    BY <1>4 DEF LeaderReturns
  <2>2. /\ pc'[w] = "returned"
        /\ \A u \in Writers : u # w => pc'[u] = pc[u]
    BY <2>1 DEF TypeOK
  <2>3. \A u \in Writers : pc'[u] \notin {"leading", "panicked", "crashed"}
    BY <2>1, <2>2 DEF QueueInv, QueueIsIntact
  <2>4. QueueHasNoRepeats'
    BY <2>1 DEF QueueInv, QueueHasNoRepeats
  <2>5. LinkedIsJoined'
    BY <2>1, <2>2 DEF QueueInv, LinkedIsJoined
  <2>6. QueueIsIntact'
    <3>1. \A u \in Writers : pc'[u] \in {"spin", "block", "check", "park"} =>
            \E i \in 2 .. Len(queue') : queue'[i] = u
      BY <2>1, <2>2 DEF QueueInv, QueueIsIntact
    <3> QED
      BY <2>1, <2>3, <3>1 DEF QueueInv, QueueIsIntact
  <2> QED
    BY <2>4, <2>5, <2>6 DEF QueueInv
<1>5. ASSUME NEW w \in Writers, EnterBatchGroup(w) PROVE QueueInv'
  <2>1. group'.leader = group.leader
    BY <1>5 DEF EnterBatchGroup, TypeOK
  <2> QED
    BY <1>5, <2>1, QueueKept DEF EnterBatchGroup, TypeOK
<1>6. ASSUME NEW w \in Writers, WaitStep(w) \/ SpuriousWake(w) PROVE QueueInv'
  <2>1. /\ UNCHANGED <<newest_writer, link_older, queue, group>>
        /\ pc[w] \in Waiting
        /\ \E to \in Waiting \union {"returned"} :
             pc' = [pc EXCEPT ![w] = to]
    BY <1>6 DEF WaitStep, SpuriousWake, SpinDone, FallThrough, MarkWaiting,
                CheckState, Unparked
  <2> QED
    BY <2>1, QueueKept DEF TypeOK
<1>7. ASSUME NEW w \in Writers, SetFlag(w) \/ SignalStep(w) PROVE QueueInv'
  BY <1>7, QueueKept DEF SetFlag, SignalStep, LoadState, Unpark
<1>8. CASE UNCHANGED vars
  BY <1>8, QueueKept DEF vars
<1> QED
  BY <1>1, <1>2, <1>3, <1>4, <1>5, <1>6, <1>7, <1>8 DEF Next

-----------------------------------------------------------------------------
(* A flag that is there stays, and a signal that was given stays given.     *)
LEMMA SignalKept ==
  ASSUME TypeOK, SignalIsFlag, [Next]_vars
  PROVE  SignalIsFlag' /\ \A w \in Writers : signal[w] # "none" => signal'[w] # "none"
<1> USE DEF SignalIsFlag, Flagged
<1>1. ASSUME NEW w \in Writers, SetFlag(w)
      PROVE  /\ SignalIsFlag'
             /\ \A u \in Writers : signal[u] # "none" => signal'[u] # "none"
  <2>1. PICK flag \in {"COMPLETE", "LEADER"} :
          state' = [state EXCEPT ![w] = @ \union {flag}]
    BY <1>1 DEF SetFlag
  <2>2. signal' = [signal EXCEPT ![w] = "flagged"]
    BY <1>1 DEF SetFlag
  <2> QED
    BY <2>1, <2>2 DEF TypeOK
<1>2. ASSUME NEW w \in Writers, MarkWaiting(w)
      PROVE  /\ SignalIsFlag'
             /\ \A u \in Writers : signal[u] # "none" => signal'[u] # "none"
  <2>1. signal' = signal /\ state' = [state EXCEPT ![w] = @ \union {"LOCKED_WAITING"}]
    BY <1>2 DEF MarkWaiting
  <2>2. ASSUME NEW u \in Writers PROVE Flagged(u)' <=> Flagged(u)
    BY <2>1 DEF TypeOK
  <2> QED
    BY <2>1, <2>2
<1>3. ASSUME NEW w \in Writers, SignalStep(w)
      PROVE  /\ SignalIsFlag'
             /\ \A u \in Writers : signal[u] # "none" => signal'[u] # "none"
  <2>1. /\ state' = state
        /\ signal[w] \in {"flagged", "unpark"}
        /\ \E to \in {"unpark", "done"} : signal' = [signal EXCEPT ![w] = to]
    BY <1>3 DEF SignalStep, LoadState, Unpark
  <2> QED
    BY <2>1 DEF TypeOK
<1>4. ASSUME NEW w \in Writers,
             \/ Join(w) \/ LinkWriter(w) \/ LinkFails(w) \/ LeaderReturns(w)
             \/ EnterBatchGroup(w) \/ SpinDone(w) \/ FallThrough(w)
             \/ CheckState(w) \/ Unparked(w) \/ SpuriousWake(w)
      PROVE  UNCHANGED <<state, signal>>
  BY <1>4 DEF Join, LinkWriter, LinkFails, LeaderReturns, EnterBatchGroup,
              SpinDone, FallThrough, CheckState, Unparked, SpuriousWake
<1>5. CASE UNCHANGED <<state, signal>>
  BY <1>5
<1> QED
  BY <1>1, <1>2, <1>3, <1>4, <1>5 DEF Next, WaitStep, vars

(* Every action that lets a follower return has seen a flag; the first of   *)
(* the queue stays the first.                                               *)
LEMMA ReturnKept ==
  ASSUME TypeOK, QueueInv, SignalIsFlag, ReturnIsSignalled, [Next]_vars
  PROVE  ReturnIsSignalled'
<1> SUFFICES ASSUME NEW u \in Writers, pc'[u] = "returned"
             PROVE  u = queue'[1] \/ signal'[u] # "none"
  BY DEF ReturnIsSignalled
<1>1. signal[u] # "none" => signal'[u] # "none"
  BY SignalKept
<1>2. (\E i \in 1 .. Len(queue) : queue[i] = u) => queue'[1] = queue[1]
  <2>1. CASE queue' = queue
    BY <2>1
  <2>2. CASE \E w \in Writers : queue' = Append(queue, w)
    <3>1. Len(queue) \in Nat
      BY EmptySeq DEF TypeOK
    <3> QED
      BY <2>2, <3>1, AppendFacts DEF TypeOK
  <2> QED
    BY <2>1, <2>2 DEF Next, vars, links, Join, LinkWriter, LinkFails,
       LeaderReturns, EnterBatchGroup, WaitStep, SpinDone, FallThrough,
       MarkWaiting, CheckState, Unparked, SpuriousWake, SetFlag, SignalStep,
       LoadState, Unpark
<1>3. CASE pc[u] = "returned"
  BY <1>1, <1>2, <1>3 DEF ReturnIsSignalled, QueueInv, LinkedIsJoined
<1>4. ASSUME NEW w \in Writers, LeaderReturns(w), pc[u] # "returned"
      PROVE  u = queue'[1]
  BY <1>4 DEF LeaderReturns, TypeOK, Goto, QueueInv, QueueIsIntact
<1>5. ASSUME NEW w \in Writers, SpinDone(w) \/ CheckState(w), pc[u] # "returned"
      PROVE  signal[u] # "none"
  <2>1. u = w /\ Flagged(w)
    BY <1>5 DEF SpinDone, CheckState, TypeOK, Goto, Flagged
  <2> QED
    BY <2>1 DEF SignalIsFlag
<1>6. ASSUME NEW w \in Writers,
             \/ Join(w) \/ LinkWriter(w) \/ LinkFails(w) \/ EnterBatchGroup(w)
             \/ FallThrough(w) \/ MarkWaiting(w) \/ Unparked(w)
             \/ SpuriousWake(w) \/ SetFlag(w) \/ LoadState(w) \/ Unpark(w)
      PROVE  pc[u] = "returned"
  BY <1>6 DEF TypeOK, Goto, Join, LinkWriter, LinkFails, EnterBatchGroup,
     FallThrough, MarkWaiting, Unparked, SpuriousWake, SetFlag, LoadState, Unpark
<1>7. CASE UNCHANGED vars
  BY <1>3, <1>7 DEF vars
<1> QED
  BY <1>1, <1>3, <1>4, <1>5, <1>6, <1>7 DEF Next, WaitStep, SignalStep

(* A thread parks only if it saw no flag, so that the signaller is still to *)
(* come; and a signaller that finds it about to park gives it a token.      *)
LEMMA WakeUpKept ==
  ASSUME TypeOK, SignalIsFlag, NoLostWakeUp, [Next]_vars
  PROVE  NoLostWakeUp'
<1> SUFFICES ASSUME NEW u \in Writers, pc'[u] = "park", signal'[u] = "done"
             PROVE  parked'[u]
  BY DEF NoLostWakeUp
<1> USE DEF TypeOK, Goto
<1>1. ASSUME NEW w \in Writers, CheckState(w) PROVE parked'[u]
  <2>1. signal' = signal /\ parked' = parked
    BY <1>1 DEF CheckState
  <2>2. u = w => ~Flagged(w)
    BY <1>1 DEF CheckState, Flagged
  <2>3. u # w
    BY <2>1, <2>2 DEF SignalIsFlag
  <2>4. pc[u] = "park"
    BY <1>1, <2>3 DEF CheckState
  <2> QED
    BY <2>1, <2>4 DEF NoLostWakeUp
<1>2. ASSUME NEW w \in Writers, Unparked(w) PROVE parked'[u]
  BY <1>2 DEF Unparked, NoLostWakeUp
<1>3. ASSUME NEW w \in Writers, LoadState(w) PROVE parked'[u]
  BY <1>3 DEF LoadState, NoLostWakeUp
<1>4. ASSUME NEW w \in Writers, Unpark(w) PROVE parked'[u]
  BY <1>4 DEF Unpark, NoLostWakeUp
<1>5. ASSUME NEW w \in Writers, SetFlag(w) PROVE parked'[u]
  BY <1>5 DEF SetFlag, NoLostWakeUp
<1>6. ASSUME NEW w \in Writers,
             \/ Join(w) \/ LinkWriter(w) \/ LinkFails(w) \/ LeaderReturns(w)
             \/ EnterBatchGroup(w) \/ SpinDone(w) \/ FallThrough(w)
             \/ MarkWaiting(w) \/ SpuriousWake(w)
      PROVE  pc[u] = "park" /\ UNCHANGED <<signal, parked>>
  BY <1>6 DEF Join, LinkWriter, LinkFails, LeaderReturns, EnterBatchGroup,
              SpinDone, FallThrough, MarkWaiting, SpuriousWake
<1>7. CASE UNCHANGED vars
  BY <1>7 DEF vars, NoLostWakeUp
<1> QED
  BY <1>1, <1>2, <1>3, <1>4, <1>5, <1>6, <1>7
  DEF Next, WaitStep, SignalStep, NoLostWakeUp

-----------------------------------------------------------------------------
(* Every reachable state satisfies the inductive invariant.                 *)
THEOREM Invariance == Spec => []IInv
<1>1. Init => IInv
  BY InitIInv
<1>2. IInv /\ [Next]_vars => IInv'
  <2> SUFFICES ASSUME IInv, [Next]_vars PROVE IInv'
    OBVIOUS
  <2>1. TypeOK /\ QueueInv /\ SignalIsFlag /\ ReturnIsSignalled /\ NoLostWakeUp
    BY DEF IInv, WaitInv
  <2>2. TypeOK' /\ QueueInv'
    BY <2>1, NextTypeOK, NextQueue
  <2>3. SignalIsFlag' /\ ReturnIsSignalled' /\ NoLostWakeUp'
    BY <2>1, SignalKept, ReturnKept, WakeUpKept
  <2> QED
    BY <2>2, <2>3 DEF IInv, WaitInv
<1> QED
  BY <1>1, <1>2, PTL DEF Spec

(* Every variable of the write thread keeps its type, and a thread looks at *)
(* its state before it parks, and parks, with LOCKED_WAITING set only.      *)
THEOREM WriteThreadTypeOK == Spec => []TypeOK
<1>1. IInv => TypeOK
  BY DEF IInv
<1> QED
  BY <1>1, Invariance, PTL

(* For any number of writers, link_writer loses nobody: link_older leads    *)
(* from the newest writer through all that joined, and exactly the first    *)
(* of them is the leader.                                                   *)
THEOREM QueueStaysIntact == Spec => []QueueIsIntact
<1>1. IInv => QueueIsIntact
  BY DEF IInv, QueueInv
<1> QED
  BY <1>1, Invariance, PTL

(* No follower returns from join before it was signalled, whatever spurious *)
(* wake-ups it has and however many writers there are.                      *)
THEOREM FollowersWait == Spec => []FollowerWaits
<1>1. IInv => FollowerWaits
  BY DEF IInv, TypeOK, WaitInv, ReturnIsSignalled, SignalIsFlag, Flagged,
         FollowerWaits, Linked
<1> QED
  BY <1>1, Invariance, PTL

(* No follower is left parked without a token by a signaller that is done:  *)
(* the safety half of SignalledReturns.                                     *)
THEOREM WakeUpsAreNotLost == Spec => []NoLostWakeUp
<1>1. IInv => NoLostWakeUp
  BY DEF IInv, WaitInv
<1> QED
  BY <1>1, Invariance, PTL
=============================================================================
