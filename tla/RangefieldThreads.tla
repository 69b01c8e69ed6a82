-------------------------- MODULE RangefieldThreads --------------------------
(***************************************************************************)
(* One rangefield shared by several threads, at the granularity of its     *)
(* mutex (include/avhttp/rangefield.hpp).  multi_download shares           *)
(* m_downlaoded_field like this: handle_read records blocks from the io    *)
(* threads, on_tick saves the bitfield, fetch_data asks from a user thread.*)
(*                                                                         *)
(* A query reads m_need_merge without the lock (Start), merges under the   *)
(* lock if it was set (MergeLocked), and looks at the map under the lock   *)
(* again (Body): other threads run in between.  A locked section is one    *)
(* step.  out_space() and inverse() are left out: they call merge() with   *)
(* the lock held and are not safe to call concurrently; multi_download     *)
(* uses out_space() on m_rangefield only, under m_rangefield_mutex.        *)
(***************************************************************************)
EXTENDS Rangefield, Integers, FiniteSets

CONSTANTS
  Thread,
  Ops,         \* the queries the threads may call
  Size,
  Blocks,      \* the intervals that update() is called with, once each
  Questions,   \* the intervals that check_range() is asked about
  Piece

ASSUME OpsAssumption ==
  Ops \subseteq {"check_range", "range_to_bitfield", "is_full"}
ASSUME SizeAssumption == Size \in Nat \ {0} /\ Piece \in Nat \ {0}
ASSUME BlocksAssumption ==
  \A p \in Blocks \cup Questions : p \in (0 .. Size) \X (0 .. Size) /\ p[1] < p[2]

VARIABLES
  m_ranges, m_need_merge,
  pc,          \* thread -> "idle", "merge" or "body"
  call,        \* thread -> the call it is in: its name, interval, and what
               \* was recorded when it started
  answer,      \* the last answer given, with its call
  unreported   \* the blocks no update() has been called for yet

vars == <<m_ranges, m_need_merge, pc, call, answer, unreported>>

NoCall   == [op |-> "none", l |-> 0, r |-> 0, before |-> {}]
Have     == Covered(m_ranges)
AllBytes == 0 .. (Size - 1)
IntLimit == 2 * Size + 2 * Piece

Init ==
  /\ m_ranges = EmptyMap
  /\ m_need_merge = FALSE
  /\ pc = [t \in Thread |-> "idle"]
  /\ call = [t \in Thread |-> NoCall]
  /\ answer = [call |-> NoCall, out |-> FALSE]
  /\ unreported = Blocks

(* update(): one locked section. *)
Report(t, block) ==
  /\ pc[t] = "idle"
  /\ block \in unreported
  /\ unreported' = unreported \ {block}
  /\ m_ranges' = Update(m_ranges, block[1], block[2])
  /\ m_need_merge' = TRUE
  /\ UNCHANGED <<pc, call, answer>>

(* The unlocked "if (m_need_merge)" a query starts with.                   *)
Start(t, op, q) ==
  /\ pc[t] = "idle"
  /\ pc' = [pc EXCEPT ![t] = IF m_need_merge THEN "merge" ELSE "body"]
  /\ call' = [call EXCEPT ![t] = [op |-> op, l |-> q[1], r |-> q[2], before |-> Have]]
  /\ UNCHANGED <<m_ranges, m_need_merge, answer, unreported>>

(* Mutant of MergeLocked: the flag is cleared, the map not merged. *)
MergeFlagOnly(t) ==
  /\ pc[t] = "merge"
  /\ m_need_merge' = FALSE
  /\ pc' = [pc EXCEPT ![t] = "body"]
  /\ UNCHANGED <<m_ranges, call, answer, unreported>>

MergeLocked(t) ==
  /\ pc[t] = "merge"
  /\ m_ranges' = Merge(m_ranges)
  /\ m_need_merge' = FALSE
  /\ pc' = [pc EXCEPT ![t] = "body"]
  /\ UNCHANGED <<call, answer, unreported>>

Outcome(c) ==
  CASE c.op = "check_range"       -> CheckRange(m_ranges, c.l, c.r)
    [] c.op = "is_full"           -> IsFull(m_ranges, Size)
    [] c.op = "range_to_bitfield" -> RangeToBitfield(m_ranges, Size, Piece, IntLimit).ones
Body(t) ==
  /\ pc[t] = "body"
  /\ answer' = [call |-> call[t], out |-> Outcome(call[t])]
  /\ pc' = [pc EXCEPT ![t] = "idle"]
  /\ call' = [call EXCEPT ![t] = NoCall]
  /\ UNCHANGED <<m_ranges, m_need_merge, unreported>>

Step(t) ==
  \/ \E block \in Blocks : Report(t, block)
  \/ \E op \in Ops, q \in Questions : Start(t, op, q)
  \/ MergeLocked(t)
  \/ Body(t)

Next == \E t \in Thread : Step(t)

Spec == Init /\ [][Next]_vars

-----------------------------------------------------------------------------
TypeOK ==
  /\ DOMAIN m_ranges \subseteq 0 .. Size
  /\ m_need_merge \in BOOLEAN
  /\ pc \in [Thread -> {"idle", "merge", "body"}]
  /\ \A t \in Thread : call[t].op \in Ops \cup {"none"}
  /\ unreported \subseteq Blocks

(* The answer a query gives was right at some moment between its call and  *)
(* its return, although the map may have become unmerged again before the  *)
(* query looked at it: "yes" is true when it is given, "no" was true when  *)
(* the call was made.  fetch_data reads from the storage what check_range  *)
(* says yes to, on_tick saves the bitfield for the next start.             *)
AnswersLinearize ==
  LET q == Bytes(answer.call.l, answer.call.r)
      before == answer.call.before
  IN  CASE answer.call.op = "check_range" ->
             IF answer.out THEN q \subseteq Have ELSE ~(q \subseteq before)
        [] answer.call.op = "is_full" ->
             IF answer.out THEN Have = AllBytes ELSE before # AllBytes
        [] answer.call.op = "range_to_bitfield" ->
             \A i \in answer.out : PieceBytes(i, Size, Piece) \subseteq Have
        [] OTHER -> TRUE

(* Merging in one thread never loses what another has just recorded: as    *)
(* long as every block is reported once, recorded bytes stay.              *)
RecordedBytesStay == [][Have \subseteq Have']_vars

=============================================================================
