---------------------------- MODULE WriteThread ----------------------------
(***************************************************************************)
(* The queue of writers of crates/engine/src/db/write_thread.rs and the    *)
(* waiting of a follower in crates/engine/src/db/writer.rs.                *)
(*                                                                         *)
(* A thread that writes puts a Writer on its stack and joins: it pushes    *)
(* the Writer on `newest_writer`.  The one that finds the queue empty is   *)
(* the leader and goes on; the others spin, then park until somebody sets  *)
(* COMPLETE or LEADER in their state and unparks them.                     *)
(*                                                                         *)
(* No code sets these flags yet outside the tests, which show the protocol *)
(* (fetch_or the flag, load the state, unpark if LOCKED_WAITING); here it  *)
(* is a signaller per writer, which may come at any time or never.  The    *)
(* model is of a build without debug assertions.  The 200 + 64 iterations  *)
(* of the spin phases are any finite number of them.                       *)
(***************************************************************************)
EXTENDS Integers, Sequences, FiniteSets

CONSTANTS
  Writers,    \* Writer nodes, one per writing thread
  Null

ASSUME NullAssumption == Null \notin Writers

Flags == {"INIT", "LEADER", "LOCKED_WAITING", "COMPLETE"}

VARIABLES
  newest_writer,  \* head of the queue
  link_older,     \* Writer.link_older
  group_next,     \* Writer.group_next
  state,          \* Writer.state: the set of flags
  pc,             \* where the writer's thread is
  newest,         \* its local current_newest_writer
  parked,         \* whether the thread has a token for thread::park
  signal,         \* how far the signaller of a writer is
  group,          \* the leader's WriteGroup, NoGroup before it and after it
  queue           \* history: the writers in the order they were linked

links == <<newest_writer, link_older, group_next, group, queue>>
vars == <<links, state, pc, newest, parked, signal>>

(* WriteGroup::new, but for the batches' size and sequence number.          *)
WriteGroup(leader) == [leader |-> leader, last_writer |-> Null, writers |-> 0]
NoGroup == WriteGroup(Null)

Init ==
  /\ newest_writer = Null
  /\ link_older = [w \in Writers |-> Null]
  /\ group_next = [w \in Writers |-> Null]
  /\ state = [w \in Writers |-> {}]
  /\ pc = [w \in Writers |-> "new"]
  /\ newest = [w \in Writers |-> Null]
  /\ parked = [w \in Writers |-> FALSE]
  /\ signal = [w \in Writers |-> "none"]
  /\ group = NoGroup
  /\ queue = <<>>

Goto(w, to) == pc' = [pc EXCEPT ![w] = to]

-----------------------------------------------------------------------------
(* `join` and `link_writer`                                                 *)

Join(w) ==
  /\ pc[w] = "new"
  /\ newest' = [newest EXCEPT ![w] = newest_writer]
  /\ Goto(w, "link")
  /\ UNCHANGED <<links, state, parked, signal>>

(* Mutant: a store in place of the compare-and-swap.                        *)
MutantLinkWriter(w) ==
  /\ pc[w] = "link"
  /\ link_older' = [link_older EXCEPT ![w] = newest[w]]
  /\ newest_writer' = w
  /\ queue' = Append(queue, w)
  /\ IF newest[w] = Null
     THEN Goto(w, "leading") /\ group' = WriteGroup(w)
     ELSE Goto(w, "spin") /\ UNCHANGED group
  /\ UNCHANGED <<group_next, state, newest, parked, signal>>

(* compare_exchange_weak succeeds: whoever found the queue empty leads.     *)
LinkWriter(w) ==
  /\ pc[w] = "link"
  /\ newest_writer = newest[w]
  /\ link_older' = [link_older EXCEPT ![w] = newest[w]]
  /\ newest_writer' = w
  /\ queue' = Append(queue, w)
  /\ IF newest[w] = Null
     THEN Goto(w, "leading") /\ group' = WriteGroup(w)
     ELSE Goto(w, "spin") /\ UNCHANGED group
  /\ UNCHANGED <<group_next, state, newest, parked, signal>>

(* It fails, perhaps spuriously: again with the writer found.               *)
LinkFails(w) ==
  /\ pc[w] = "link"
  /\ newest' = [newest EXCEPT ![w] = newest_writer]
  /\ UNCHANGED <<links, state, pc, parked, signal>>

(* The leader's branch of join is empty: join returns to the leader.        *)
LeaderReturns(w) ==
  /\ pc[w] = "leading"
  /\ group' = NoGroup
  /\ Goto(w, "returned")
  /\ UNCHANGED <<newest_writer, link_older, group_next, queue, state, newest,
                 parked, signal>>

-----------------------------------------------------------------------------
(* `EnterBatchGroup`, which a leader is to call                             *)

(* `set_new_links`: the test of older's group_next asks whether the cell    *)
(* has an address, not what is in it, so the loop stops at the newest       *)
(* writer and no link is set.                                               *)
SetNewLinks(group_newest) == group_next

(* The group is the leader alone so far.  With nobody else in the queue the *)
(* function ends in todo!(); otherwise it follows the leader's group_next,  *)
(* which is null, so that the checks of the followers are never reached.    *)
EnterBatchGroup(w) ==
  /\ pc[w] = "leading"
  /\ group' = [group EXCEPT !.last_writer = w, !.writers = 1]
  /\ newest' = [newest EXCEPT ![w] = newest_writer]
  /\ group_next' = SetNewLinks(newest_writer)
  /\ Goto(w, IF newest_writer = w THEN "panicked" ELSE "crashed")
  /\ UNCHANGED <<newest_writer, link_older, queue, state, parked, signal>>

-----------------------------------------------------------------------------
(* `wait` and `wait_and_block`                                              *)

(* The spin phases look for COMPLETE only.                                  *)
SpinDone(w) ==
  /\ pc[w] = "spin"
  /\ "COMPLETE" \in state[w]
  /\ Goto(w, "returned")
  /\ UNCHANGED <<links, state, newest, parked, signal>>

(* The flag was not there in the last iteration: block.                     *)
FallThrough(w) ==
  /\ pc[w] = "spin"
  /\ "COMPLETE" \notin state[w]
  /\ Goto(w, "block")
  /\ UNCHANGED <<links, state, newest, parked, signal>>

(* Mutant: the flag is set only after the state was looked at.              *)
MutantMarkWaiting(w) ==
  /\ pc[w] = "block"
  /\ IF state[w] \cap {"COMPLETE", "LEADER"} # {}
     THEN Goto(w, "returned") ELSE Goto(w, "park")
  /\ UNCHANGED <<links, state, newest, parked, signal>>

MarkWaiting(w) ==
  /\ pc[w] = "block"
  /\ state' = [state EXCEPT ![w] = @ \union {"LOCKED_WAITING"}]
  /\ Goto(w, "check")
  /\ UNCHANGED <<links, newest, parked, signal>>

CheckState(w) ==
  /\ pc[w] = "check"
  /\ Goto(w, IF state[w] \cap {"COMPLETE", "LEADER"} = {} THEN "park"
             ELSE "returned")
  /\ UNCHANGED <<links, state, newest, parked, signal>>

(* thread::park returns once there is a token, and uses it up.              *)
Unparked(w) ==
  /\ pc[w] = "park"
  /\ parked[w]
  /\ parked' = [parked EXCEPT ![w] = FALSE]
  /\ Goto(w, "check")
  /\ UNCHANGED <<links, state, newest, signal>>

(* Mutant: the state is not looked at again.                                *)
MutantSpuriousWake(w) ==
  /\ pc[w] = "park"
  /\ Goto(w, "returned")
  /\ UNCHANGED <<links, state, newest, parked, signal>>

(* It may also return for no reason.                                        *)
SpuriousWake(w) ==
  /\ pc[w] = "park"
  /\ Goto(w, "check")
  /\ UNCHANGED <<links, state, newest, parked, signal>>

-----------------------------------------------------------------------------
(* The signaller of writer w, as in the tests                               *)

SetFlag(w) ==
  /\ signal[w] = "none"
  /\ pc[w] \in {"spin", "block", "check", "park"}
  /\ \E flag \in {"COMPLETE", "LEADER"} :
       state' = [state EXCEPT ![w] = @ \union {flag}]
  /\ signal' = [signal EXCEPT ![w] = "flagged"]
  /\ UNCHANGED <<links, pc, newest, parked>>

(* Mutant: the test for a waiting thread is inverted.                       *)
MutantLoadState(w) ==
  /\ signal[w] = "flagged"
  /\ signal' = [signal EXCEPT ![w] =
                  IF "LOCKED_WAITING" \in state[w] THEN "done" ELSE "unpark"]
  /\ UNCHANGED <<links, state, pc, newest, parked>>

LoadState(w) ==
  /\ signal[w] = "flagged"
  /\ signal' = [signal EXCEPT ![w] =
                  IF "LOCKED_WAITING" \in state[w] THEN "unpark" ELSE "done"]
  /\ UNCHANGED <<links, state, pc, newest, parked>>

Unpark(w) ==
  /\ signal[w] = "unpark"
  /\ signal' = [signal EXCEPT ![w] = "done"]
  /\ parked' = [parked EXCEPT ![w] = TRUE]
  /\ UNCHANGED <<links, state, pc, newest>>

-----------------------------------------------------------------------------
WaitStep(w) ==
  \/ SpinDone(w) \/ FallThrough(w) \/ MarkWaiting(w) \/ CheckState(w)
  \/ Unparked(w)

SignalStep(w) == LoadState(w) \/ Unpark(w)

Next ==
  \E w \in Writers :
    \/ Join(w) \/ LinkWriter(w) \/ LinkFails(w) \/ LeaderReturns(w)
    \/ EnterBatchGroup(w) \/ WaitStep(w) \/ SpuriousWake(w)
    \/ SetFlag(w) \/ SignalStep(w)

Spec == Init /\ [][Next]_vars

(* Running threads keep running, and compare_exchange_weak does not fail    *)
(* spuriously for ever.  Nobody has to wake without a token.                *)
Fairness ==
  \A w \in Writers :
    WF_vars(WaitStep(w)) /\ WF_vars(SignalStep(w)) /\ SF_vars(LinkWriter(w))

FairSpec == Spec /\ Fairness

-----------------------------------------------------------------------------
PcValues ==
  {"new", "link", "leading", "returned", "panicked", "crashed", "spin",
   "block", "check", "park"}

(* The type of every variable; a thread looks at its state before it parks, *)
(* and parks, with LOCKED_WAITING set only.                                 *)
TypeOK ==
  /\ newest_writer \in Writers \union {Null}
  /\ link_older \in [Writers -> Writers \union {Null}]
  /\ group_next \in [Writers -> Writers \union {Null}]
  /\ state \in [Writers -> SUBSET Flags]
  /\ pc \in [Writers -> PcValues]
  /\ newest \in [Writers -> Writers \union {Null}]
  /\ parked \in [Writers -> BOOLEAN]
  /\ signal \in [Writers -> {"none", "flagged", "unpark", "done"}]
  /\ group \in [leader : Writers \union {Null},
                last_writer : Writers \union {Null}, writers : {0, 1}]
  /\ queue \in Seq(Writers)
  /\ \A w \in Writers :
       pc[w] \in {"check", "park"} => "LOCKED_WAITING" \in state[w]

Linked == {queue[i] : i \in DOMAIN queue}

(* Whatever the races in link_writer, the queue loses nobody: link_older    *)
(* leads from the newest writer through all that joined, in reverse order,  *)
(* and exactly the first of them leads and has the group.                   *)
QueueIsIntact ==
  /\ newest_writer = IF queue = <<>> THEN Null ELSE queue[Len(queue)]
  /\ \A i \in DOMAIN queue :
       link_older[queue[i]] = IF i = 1 THEN Null ELSE queue[i - 1]
  /\ \A w \in Writers :
       pc[w] \in {"leading", "panicked", "crashed"} =>
         w = queue[1] /\ group.leader = w
  /\ \A w \in Writers : pc[w] \in {"spin", "block", "check", "park"} =>
                          \E i \in 2 .. Len(queue) : queue[i] = w

(* A follower never returns before it was signalled: "must wait and block  *)
(* until the leader completes", in spite of spurious wake-ups and of tokens*)
(* left over.                                                               *)
FollowerWaits ==
  \A w \in Linked :
    w # queue[1] /\ pc[w] = "returned" =>
      signal[w] # "none" /\ state[w] \cap {"COMPLETE", "LEADER"} # {}

(* The signaller has come and gone: a follower that is parked has a token,  *)
(* so that its next step is to wake.  The flag is set before the state is   *)
(* loaded, and LOCKED_WAITING before the state is looked at, so that one of *)
(* the two sees the other.                                                  *)
NoLostWakeUp ==
  \A w \in Writers : pc[w] = "park" /\ signal[w] = "done" => parked[w]

(* No wake-up is lost: a follower that is signalled returns, whether it was *)
(* spinning, about to park or parked.                                       *)
SignalledReturns ==
  \A w \in Writers : (signal[w] # "none") ~> (pc[w] = "returned")
=============================================================================
