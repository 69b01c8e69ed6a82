----------------------- MODULE DownloadLifecycleProofs -----------------------
(***************************************************************************)
(* Proofs about DownloadLifecycle, for any finite set of io threads and    *)
(* any set of stream objects.                                              *)
(*                                                                         *)
(* Counting is not inductive by itself: an operation that is started on an *)
(* object which already has one would be counted twice and end once, and a *)
(* second timer wait would be lost.  The inductive invariant therefore     *)
(* also says who owns an object (OneOwner) and who may start the timer     *)
(* (OneChain), and what the program counters imply about the locals of a   *)
(* handler (Locals).                                                       *)
(***************************************************************************)
EXTENDS DownloadLifecycle, FiniteSetTheorems, TLAPS

(* Which user call can be where. *)
UserPcs ==
  /\ pc["starter"] \in {"idle", "issue", "async"}
  /\ pc["stopper"] \in {"idle", "close", "stopped"}
  /\ pc["waiter"] \in {"idle", "w_abort", "w_count", "w_check", "w_sleep", "waiting",
                      "returned"}

(* What a thread works on, by its program counter. *)
ThreadLocals(t) ==
  /\ pc[t] \in ThreadPc
  /\ pc[t] = "idle" => obj[t] = NoObject
  /\ pc[t] \in {"begin", "push", "first", "more", "arm", "armed"} =>
       job[t] = "start"
  /\ pc[t] \in {"rearm", "rearmed", "lock", "loop"} => job[t] = "tick"
  /\ pc[t] \in {"begin", "push", "first", "issue", "async"} => obj[t] \in Object
  /\ pc[t] \in {"entered", "check"} /\ job[t] # "tick" => obj[t] \in Object
  /\ pc[t] \in {"issue", "async"} =>
       /\ next[t] \in {"open", "request", "read"}
       /\ cont[t] \in {"leave", "more", "arm", "loop"}
       /\ cont[t] \in {"more", "arm"} <=> job[t] = "start"
       /\ cont[t] = "loop" => job[t] = "tick"

StarterLocals ==
  pc["starter"] \in {"issue", "async"} =>
    obj["starter"] \in Object /\ next["starter"] = "start"
      /\ cont["starter"] = "idle"

Locals == UserPcs /\ StarterLocals /\ \A t \in Thread : ThreadLocals(t)

(* At most one of: a timer wait, a thread that may start it, a pending open *)
(* of async_start, a call of async_start.                                  *)
Starting(o) == op[o] = "start"
OneChain ==
  /\ \A t, u \in Thread : WillArm(t) /\ WillArm(u) => t = u
  /\ \A o, p \in Object : Starting(o) /\ Starting(p) => o = p
  /\ timer # "off" =>
       /\ \A t \in Thread : ~WillArm(t)
       /\ \A o \in Object : ~Starting(o)
       /\ pc["starter"] = "idle"
  /\ (\E t \in Thread : WillArm(t)) =>
       /\ \A o \in Object : ~Starting(o)
       /\ pc["starter"] = "idle"
  /\ (\E o \in Object : Starting(o)) => pc["starter"] = "idle"

-----------------------------------------------------------------------------
(* close() closes no stream that it is not called on. *)
LEMMA CaughtAreStreams ==
  \A os : \A c \in Caught(os) : c \subseteq os
BY DEF Caught

(* The sets that are counted are finite. *)
LEMMA ThreadSetsFinite ==
  ASSUME Locals
  PROVE  IsFiniteSet(Running) /\ IsFiniteSet(Entered) /\ IsFiniteSet(Counted)
<1>1. IsFiniteSet(Running) /\ IsFiniteSet(Entered)
  BY FiniteThreads, FS_Subset DEF Running, Entered
<1>2. Counted \subseteq Thread \cup {"starter"}
  BY DEF Counted, Proc, User, Locals, UserPcs
<1>3. IsFiniteSet(Thread \cup {"starter"})
  BY FiniteThreads, FS_AddElement
<1>4. QED BY <1>1, <1>2, <1>3, FS_Subset

-----------------------------------------------------------------------------
(* The variables keep their types, whatever step is taken. *)
LEMMA TypeStep == TypeOK /\ Locals /\ [Next]_vars => TypeOK'
<1> SUFFICES ASSUME TypeOK, Locals, [Next]_vars PROVE TypeOK' OBVIOUS
<1> USE DEF TypeOK, Kinds, ThreadPc, UserPc, Jobs, Conts, Proc, User, shared, called, plan, Goto
<1>1. CASE UNCHANGED vars BY <1>1 DEF vars
<1>2. CASE \E t \in Thread, o \in Object : MayDispatch /\ Dispatch(t, o)
  BY <1>2 DEF Dispatch
<1>3. CASE \E t \in Thread : MayDispatch /\ DispatchTick(t)
  <2> PICK t \in Thread : DispatchTick(t) BY <1>3
  <2>1. PICK e \in {FALSE, timer = "cancelled"} : err' = [err EXCEPT ![t] = e]
    BY DEF DispatchTick
  <2>2. e \in BOOLEAN BY <2>1
  <2> QED BY <2>1, <2>2 DEF DispatchTick
<1>4. ASSUME NEW t \in Thread, HandlerStep(t) PROVE TypeOK'
  <2>1. CASE Uncount(t) BY <2>1 DEF Uncount
  <2>2. CASE Leave(t) BY <2>2 DEF Leave
  <2>3. CASE AbortAndCancel(t) BY <2>3 DEF AbortAndCancel, CancelTimer
  <2>4. CASE CheckFailed(t) BY <2>4 DEF CheckFailed
  <2>5. CASE HandleOpenOrRequest(t)
    BY <2>5 DEF HandleOpenOrRequest, WillIssue
  <2>6. CASE HandleRead(t) BY <2>6 DEF HandleRead, WillIssue
  <2>7. CASE StartFails(t) BY <2>7 DEF StartFails
  <2>8. CASE StartSucceeds(t) BY <2>8 DEF StartSucceeds
  <2>9. CASE StartClearsAbort(t) BY <2>9 DEF StartClearsAbort
  <2>10. CASE StartPushes(t)
    BY <2>10 DEF StartPushes, Locals, ThreadLocals
  <2>11. CASE StartFirst(t)
    BY <2>11 DEF StartFirst, WillIssue, Locals, ThreadLocals
  <2>12. CASE StartMore(t) BY <2>12 DEF StartMore, WillIssue
  <2>13. CASE ArmTimer(t) BY <2>13 DEF ArmTimer, CountTimer, StartTimer
  <2>14. CASE CheckTick(t) BY <2>14 DEF CheckTick
  <2>15. CASE RearmTimer(t) BY <2>15 DEF RearmTimer, CountTimer, StartTimer
  <2>16. CASE TickLock(t) BY <2>16 DEF TickLock
  <2>17. CASE TickEnds(t)
    <3>1. pc' \in [Proc -> ThreadPc \cup UserPc] BY <2>17 DEF TickEnds
    <3> QED BY <2>17, <3>1 DEF TickEnds, CancelTimer
  <2>18. CASE \E o \in Object : TickSkips(t, o) BY <2>18 DEF TickSkips
  <2>19. CASE \E o \in Object : TickGivesUp(t, o)
    <3> PICK o \in Object : TickGivesUp(t, o) BY <2>19
    <3>1. closed' \subseteq closed \cup {o} BY CaughtAreStreams DEF TickGivesUp
    <3>2. m_abort' \in BOOLEAN BY DEF TickGivesUp
    <3> QED BY <3>1, <3>2 DEF TickGivesUp
  <2>20. CASE \E o \in Object : TickReconnects(t, o)
    <3> PICK o \in Object : TickReconnects(t, o) BY <2>20
    <3> PICK n \in Object :
               /\ m_streams' = (m_streams \ {o}) \cup {n}
               /\ closed' \subseteq (closed \cup {o}) \ {n}
               /\ \/ done' = done \ {n} /\ WillIssue(t, n, "open", "loop")
                  \/ done' = done \cup {n} /\ UNCHANGED <<pc, obj, plan>>
      BY CaughtAreStreams DEF TickReconnects
    <3> QED BY DEF TickReconnects, WillIssue
  <2> QED
    BY <1>4, <2>1, <2>2, <2>3, <2>4, <2>5, <2>6, <2>7, <2>8, <2>9, <2>10, <2>11,
       <2>12, <2>13, <2>14, <2>15, <2>16, <2>17, <2>18, <2>19, <2>20 DEF HandlerStep
<1>5. ASSUME NEW p \in Proc, IssueStep(p) PROVE TypeOK'
  BY <1>5 DEF IssueStep, Count, Issue
<1>6. CASE AsyncStart
  <2>1. pc' \in [Proc -> ThreadPc \cup UserPc] BY <1>6 DEF AsyncStart
  <2>2. next' \in [Proc -> Kinds \cup {"none"}] /\ cont' \in [Proc -> Conts]
    BY <1>6 DEF AsyncStart
  <2> PICK o \in Object :
             /\ closed' = closed \ {o} /\ done' = done \ {o}
             /\ obj' = [obj EXCEPT !["starter"] = o]
    BY <1>6 DEF AsyncStart
  <2> QED BY <1>6, <2>1, <2>2 DEF AsyncStart
<1>7. CASE CallStop BY <1>7 DEF CallStop, CancelTimer
<1>8. CASE StopCloses BY <1>8, CaughtAreStreams DEF StopCloses
<1>9. CASE CallWait \/ WaiterRuns
  BY <1>9 DEF CallWait, WaiterRuns, WaitReadsAbort, WaitReadsCount, WaitDecides,
              WaitSleeps, WaiterStep
<1> QED
  BY <1>1, <1>2, <1>3, <1>4, <1>5, <1>6, <1>7, <1>8, <1>9 DEF Next

-----------------------------------------------------------------------------
(* A handler keeps its job from the first statement to the last, and has   *)
(* the object and the plan its program counter calls for.                  *)
LEMMA LocalsStep == TypeOK /\ Locals /\ [Next]_vars => Locals'
<1> SUFFICES ASSUME TypeOK, Locals, [Next]_vars PROVE Locals' OBVIOUS
<1> USE DEF TypeOK, Kinds, ThreadPc, UserPc, Jobs, Conts, Proc, User, shared, called,
            plan, Goto, Locals, UserPcs, StarterLocals, ThreadLocals
<1> USE ThreadAssumption, NamesAssumption
<1>1. CASE UNCHANGED vars BY <1>1 DEF vars
<1>2. CASE \E t \in Thread, o \in Object : MayDispatch /\ Dispatch(t, o)
  BY <1>2 DEF Dispatch
<1>3. CASE \E t \in Thread : MayDispatch /\ DispatchTick(t)
  BY <1>3 DEF DispatchTick
<1>4. ASSUME NEW t \in Thread, HandlerStep(t) PROVE Locals'
  <2>1. CASE Uncount(t) BY <2>1 DEF Uncount
  <2>2. CASE Leave(t) BY <2>2 DEF Leave
  <2>3. CASE AbortAndCancel(t) BY <2>3 DEF AbortAndCancel, CancelTimer
  <2>4. CASE CheckFailed(t) BY <2>4 DEF CheckFailed
  <2>5. CASE HandleOpenOrRequest(t) BY <2>5 DEF HandleOpenOrRequest, WillIssue
  <2>6. CASE HandleRead(t) BY <2>6 DEF HandleRead, WillIssue
  <2>7. CASE StartFails(t) BY <2>7 DEF StartFails
  <2>8. CASE StartSucceeds(t) BY <2>8 DEF StartSucceeds
  <2>9. CASE StartClearsAbort(t) BY <2>9 DEF StartClearsAbort
  <2>10. CASE StartPushes(t) BY <2>10 DEF StartPushes
  <2>11. CASE StartFirst(t) BY <2>11 DEF StartFirst, WillIssue
  <2>12. CASE StartMore(t) BY <2>12 DEF StartMore, WillIssue
  <2>13. CASE ArmTimer(t) BY <2>13 DEF ArmTimer, CountTimer, StartTimer
  <2>14. CASE CheckTick(t) BY <2>14 DEF CheckTick
  <2>15. CASE RearmTimer(t) BY <2>15 DEF RearmTimer, CountTimer, StartTimer
  <2>16. CASE TickLock(t) BY <2>16 DEF TickLock
  <2>17. CASE TickEnds(t) BY <2>17 DEF TickEnds, CancelTimer
  <2>18. CASE \E o \in Object : TickSkips(t, o) BY <2>18 DEF TickSkips
  <2>19. CASE \E o \in Object : TickGivesUp(t, o) BY <2>19 DEF TickGivesUp
  <2>20. CASE \E o \in Object : TickReconnects(t, o) BY <2>20 DEF TickReconnects, WillIssue
  <2> QED
    BY <1>4, <2>1, <2>2, <2>3, <2>4, <2>5, <2>6, <2>7, <2>8, <2>9, <2>10, <2>11,
       <2>12, <2>13, <2>14, <2>15, <2>16, <2>17, <2>18, <2>19, <2>20 DEF HandlerStep
<1>5. ASSUME NEW p \in Proc, IssueStep(p) PROVE Locals'
  BY <1>5 DEF IssueStep, Count, Issue
<1>6. CASE AsyncStart BY <1>6 DEF AsyncStart
<1>7. CASE CallStop BY <1>7 DEF CallStop, CancelTimer
<1>8. CASE StopCloses BY <1>8 DEF StopCloses
<1>9. CASE CallWait \/ WaiterRuns
  BY <1>9 DEF CallWait, WaiterRuns, WaitReadsAbort, WaitReadsCount, WaitDecides,
              WaitSleeps, WaiterStep
<1> QED
  BY <1>1, <1>2, <1>3, <1>4, <1>5, <1>6, <1>7, <1>8, <1>9 DEF Next

-----------------------------------------------------------------------------
(* An operation is started on an object only by the handler that has it,   *)
(* or on a new object, and a handler that has started one lets go of it.   *)
LEMMA OwnerStep == TypeOK /\ Locals /\ OneOwner /\ [Next]_vars => OneOwner'
<1> SUFFICES ASSUME TypeOK, Locals, OneOwner, [Next]_vars PROVE OneOwner' OBVIOUS
<1> USE DEF TypeOK, Kinds, Proc, User, shared, called, plan, Goto, Locals, UserPcs, StarterLocals,
            ThreadLocals, OneOwner, Acting, Fresh
<1> USE ThreadAssumption, NamesAssumption
<1>1. CASE UNCHANGED vars BY <1>1 DEF vars
<1>2. CASE \E t \in Thread, o \in Object : MayDispatch /\ Dispatch(t, o)
  BY <1>2 DEF Dispatch
<1>3. CASE \E t \in Thread : MayDispatch /\ DispatchTick(t)
  BY <1>3 DEF DispatchTick
<1>4. ASSUME NEW t \in Thread, HandlerStep(t) PROVE OneOwner'
  <2>1. CASE Uncount(t) BY <2>1 DEF Uncount
  <2>2. CASE Leave(t) BY <2>2 DEF Leave
  <2>3. CASE AbortAndCancel(t) BY <2>3 DEF AbortAndCancel, CancelTimer
  <2>4. CASE CheckFailed(t) BY <2>4 DEF CheckFailed
  <2>5. CASE HandleOpenOrRequest(t) BY <2>5 DEF HandleOpenOrRequest, WillIssue
  <2>6. CASE HandleRead(t) BY <2>6 DEF HandleRead, WillIssue
  <2>7. CASE StartFails(t) BY <2>7 DEF StartFails
  <2>8. CASE StartSucceeds(t) BY <2>8 DEF StartSucceeds
  <2>9. CASE StartClearsAbort(t) BY <2>9 DEF StartClearsAbort
  <2>10. CASE StartPushes(t) BY <2>10 DEF StartPushes
  <2>11. CASE StartFirst(t) BY <2>11 DEF StartFirst, WillIssue
  <2>12. CASE StartMore(t) BY <2>12 DEF StartMore, WillIssue
  <2>13. CASE ArmTimer(t) BY <2>13 DEF ArmTimer, CountTimer, StartTimer
  <2>14. CASE CheckTick(t) BY <2>14 DEF CheckTick
  <2>15. CASE RearmTimer(t) BY <2>15 DEF RearmTimer, CountTimer, StartTimer
  <2>16. CASE TickLock(t) BY <2>16 DEF TickLock
  <2>17. CASE TickEnds(t) BY <2>17 DEF TickEnds, CancelTimer
  <2>18. CASE \E o \in Object : TickSkips(t, o) BY <2>18 DEF TickSkips
  <2>19. CASE \E o \in Object : TickGivesUp(t, o) BY <2>19 DEF TickGivesUp
  <2>20. CASE \E o \in Object : TickReconnects(t, o) BY <2>20 DEF TickReconnects, WillIssue
  <2> QED
    BY <1>4, <2>1, <2>2, <2>3, <2>4, <2>5, <2>6, <2>7, <2>8, <2>9, <2>10, <2>11,
       <2>12, <2>13, <2>14, <2>15, <2>16, <2>17, <2>18, <2>19, <2>20 DEF HandlerStep
<1>5. ASSUME NEW p \in Proc, IssueStep(p) PROVE OneOwner'
  BY <1>5 DEF IssueStep, Count, Issue
<1>6. CASE AsyncStart BY <1>6 DEF AsyncStart
<1>7. CASE CallStop BY <1>7 DEF CallStop, CancelTimer
<1>8. CASE StopCloses BY <1>8 DEF StopCloses
<1>9. CASE CallWait \/ WaiterRuns
  BY <1>9 DEF CallWait, WaiterRuns, WaitReadsAbort, WaitReadsCount, WaitDecides,
              WaitSleeps, WaiterStep
<1> QED
  BY <1>1, <1>2, <1>3, <1>4, <1>5, <1>6, <1>7, <1>8, <1>9 DEF Next

-----------------------------------------------------------------------------
(* When the count is exact, m_outstanding = 0 says that nothing is in      *)
(* flight: five cardinalities with the sum 0.                              *)
Quiet == Pending = {} /\ timer = "off" /\ Running = {} /\ Counted = {}

LEMMA ZeroIsQuiet ==
  ASSUME Locals, IsFiniteSet(Pending), OutstandingExact, m_outstanding = 0
  PROVE  Quiet
<1>1. IsFiniteSet(Running) /\ IsFiniteSet(Entered) /\ IsFiniteSet(Counted)
  BY ThreadSetsFinite
<1>2. /\ Cardinality(Pending) \in Nat /\ Cardinality(Running) \in Nat
      /\ Cardinality(Entered) \in Nat /\ Cardinality(Counted) \in Nat
  BY <1>1, FS_CardinalityType
<1>3. Waits \in Nat BY DEF Waits
<1>4. /\ Cardinality(Pending) = 0 /\ Cardinality(Running) = 0
      /\ Cardinality(Counted) = 0 /\ Waits = 0
  <2>1. 0 = Cardinality(Pending) + Waits + Cardinality(Running)
            + Cardinality(Entered) + Cardinality(Counted)
    BY DEF OutstandingExact
  <2>2. \A a, b, c, d, e \in Nat :
          0 = a + b + c + d + e => a = 0 /\ b = 0 /\ c = 0 /\ e = 0
    OBVIOUS
  <2> QED BY <1>2, <1>3, <2>1, <2>2
<1>5. Pending = {} /\ Running = {} /\ Counted = {}
  BY <1>1, <1>4, FS_EmptySet
<1> QED BY <1>4, <1>5 DEF Quiet, Waits

-----------------------------------------------------------------------------
(* The timer is started only by on_tick, which its end started, and by     *)
(* handle_start, which comes once after async_start().                     *)
LEMMA ChainStep ==
  TypeOK /\ Locals /\ OneChain /\ (Stopped => Quiet) /\ [Next]_vars => OneChain'
<1> SUFFICES ASSUME TypeOK, Locals, OneChain, Stopped => Quiet, [Next]_vars
             PROVE  OneChain'
  OBVIOUS
<1> USE DEF TypeOK, Kinds, Proc, User, shared, called, plan, Goto, Locals, UserPcs, StarterLocals,
            ThreadLocals, OneChain, Starting, WillArm
<1> USE ThreadAssumption, NamesAssumption
<1>1. CASE UNCHANGED vars BY <1>1 DEF vars
<1>2. CASE \E t \in Thread, o \in Object : MayDispatch /\ Dispatch(t, o)
  BY <1>2 DEF Dispatch
<1>3. CASE \E t \in Thread : MayDispatch /\ DispatchTick(t)
  BY <1>3 DEF DispatchTick
<1>4. ASSUME NEW t \in Thread, HandlerStep(t) PROVE OneChain'
  <2>1. CASE Uncount(t) BY <2>1 DEF Uncount
  <2>2. CASE Leave(t) BY <2>2 DEF Leave
  <2>3. CASE AbortAndCancel(t) BY <2>3 DEF AbortAndCancel, CancelTimer
  <2>4. CASE CheckFailed(t) BY <2>4 DEF CheckFailed
  <2>5. CASE HandleOpenOrRequest(t) BY <2>5 DEF HandleOpenOrRequest, WillIssue
  <2>6. CASE HandleRead(t) BY <2>6 DEF HandleRead, WillIssue
  <2>7. CASE StartFails(t) BY <2>7 DEF StartFails
  <2>8. CASE StartSucceeds(t) BY <2>8 DEF StartSucceeds
  <2>9. CASE StartClearsAbort(t) BY <2>9 DEF StartClearsAbort
  <2>10. CASE StartPushes(t) BY <2>10 DEF StartPushes
  <2>11. CASE StartFirst(t) BY <2>11 DEF StartFirst, WillIssue
  <2>12. CASE StartMore(t) BY <2>12 DEF StartMore, WillIssue
  <2>13. CASE ArmTimer(t) BY <2>13 DEF ArmTimer, CountTimer, StartTimer
  <2>14. CASE CheckTick(t) BY <2>14 DEF CheckTick
  <2>15. CASE RearmTimer(t) BY <2>15 DEF RearmTimer, CountTimer, StartTimer
  <2>16. CASE TickLock(t) BY <2>16 DEF TickLock
  <2>17. CASE TickEnds(t) BY <2>17 DEF TickEnds, CancelTimer
  <2>18. CASE \E o \in Object : TickSkips(t, o) BY <2>18 DEF TickSkips
  <2>19. CASE \E o \in Object : TickGivesUp(t, o) BY <2>19 DEF TickGivesUp
  <2>20. CASE \E o \in Object : TickReconnects(t, o) BY <2>20 DEF TickReconnects, WillIssue
  <2> QED
    BY <1>4, <2>1, <2>2, <2>3, <2>4, <2>5, <2>6, <2>7, <2>8, <2>9, <2>10, <2>11,
       <2>12, <2>13, <2>14, <2>15, <2>16, <2>17, <2>18, <2>19, <2>20 DEF HandlerStep
<1>5. ASSUME NEW p \in Proc, IssueStep(p) PROVE OneChain'
  BY <1>5 DEF IssueStep, Count, Issue
<1>6. CASE AsyncStart
  <2>1. Quiet BY <1>6 DEF AsyncStart
  <2>2. /\ \A t \in Thread : pc[t] = "idle"
        /\ \A o \in Object : op[o] = "none"
        /\ timer = "off"
    BY <2>1 DEF Quiet, Pending, Running
  <2>3. /\ \A t \in Thread : pc'[t] = "idle"
        /\ \A o \in Object : op'[o] = "none"
        /\ timer' = "off"
    BY <1>6, <2>2 DEF AsyncStart
  <2> QED BY <2>3
<1>7. CASE CallStop BY <1>7 DEF CallStop, CancelTimer
<1>8. CASE StopCloses BY <1>8 DEF StopCloses
<1>9. CASE CallWait \/ WaiterRuns
  BY <1>9 DEF CallWait, WaiterRuns, WaitReadsAbort, WaitReadsCount, WaitDecides,
              WaitSleeps, WaiterStep
<1> QED
  BY <1>1, <1>2, <1>3, <1>4, <1>5, <1>6, <1>7, <1>8, <1>9 DEF Next

-----------------------------------------------------------------------------
(* Every step that changes m_outstanding, or one of the sets it counts,    *)
(* moves one element.                                                      *)
Unmoved ==
  /\ Pending' = Pending /\ Running' = Running /\ Entered' = Entered
  /\ Counted' = Counted /\ Waits' = Waits

CountInv == IsFiniteSet(Pending) /\ OutstandingExact

LEMMA CountUnmoved ==
  ASSUME CountInv, Unmoved, m_outstanding' = m_outstanding
  PROVE  CountInv'
BY DEF CountInv, Unmoved, OutstandingExact

LEMMA AddOne ==
  ASSUME NEW S, NEW x, IsFiniteSet(S), x \notin S
  PROVE  IsFiniteSet(S \cup {x}) /\ Cardinality(S \cup {x}) = Cardinality(S) + 1
BY FS_AddElement

LEMMA DropOne ==
  ASSUME NEW S, NEW x, IsFiniteSet(S), x \in S
  PROVE  IsFiniteSet(S \ {x}) /\ Cardinality(S \ {x}) = Cardinality(S) - 1
BY FS_RemoveElement

LEMMA CountFacts ==
  ASSUME Locals, CountInv
  PROVE  /\ IsFiniteSet(Pending) /\ IsFiniteSet(Running) /\ IsFiniteSet(Entered)
         /\ IsFiniteSet(Counted)
         /\ Cardinality(Pending) \in Nat /\ Cardinality(Running) \in Nat
         /\ Cardinality(Entered) \in Nat /\ Cardinality(Counted) \in Nat
         /\ Waits \in Nat
BY ThreadSetsFinite, FS_CardinalityType DEF CountInv, Waits

(* Dispatch: the operation is over, its handler runs and is not uncounted. *)
LEMMA CountDispatch ==
  ASSUME TypeOK, Locals, CountInv, NEW t \in Thread, NEW o \in Object, Dispatch(t, o)
  PROVE  CountInv'
<1> USE DEF TypeOK, Proc, User, shared, plan, Goto, Dispatch
<1>1. /\ Pending' = Pending \ {o} /\ o \in Pending
      /\ Running' = Running \cup {t} /\ t \notin Running
      /\ Entered' = Entered \cup {t} /\ t \notin Entered
      /\ Counted' = Counted /\ Waits' = Waits
  BY ThreadAssumption DEF Pending, Running, Entered, Counted, Waits
<1>2. /\ IsFiniteSet(Pending') /\ Cardinality(Pending') = Cardinality(Pending) - 1
      /\ Cardinality(Running') = Cardinality(Running) + 1
      /\ Cardinality(Entered') = Cardinality(Entered) + 1
  BY <1>1, CountFacts, AddOne, DropOne
<1> QED BY <1>1, <1>2, CountFacts DEF CountInv, OutstandingExact


LEMMA CountDispatchTick ==
  ASSUME TypeOK, Locals, CountInv, NEW t \in Thread, DispatchTick(t)
  PROVE  CountInv'
<1> USE DEF TypeOK, Proc, User, shared, plan, Goto, DispatchTick
<1>1. /\ Running' = Running \cup {t} /\ t \notin Running
      /\ Entered' = Entered \cup {t} /\ t \notin Entered
      /\ Pending' = Pending /\ Counted' = Counted
  BY ThreadAssumption DEF Pending, Running, Entered, Counted
<1>2. /\ Cardinality(Running') = Cardinality(Running) + 1
      /\ Cardinality(Entered') = Cardinality(Entered) + 1
  BY <1>1, CountFacts, AddOne
<1>3. Waits = 1 /\ Waits' = 0 BY DEF Waits
<1> QED BY <1>1, <1>2, <1>3, CountFacts DEF CountInv, OutstandingExact

LEMMA CountUncount ==
  ASSUME TypeOK, Locals, CountInv, NEW t \in Thread, Uncount(t)
  PROVE  CountInv'
<1> USE DEF TypeOK, Proc, User, shared, called, plan, Goto, Uncount
<1>1. /\ Entered' = Entered \ {t} /\ t \in Entered
      /\ Pending' = Pending /\ Running' = Running /\ Counted' = Counted
      /\ Waits' = Waits
  BY ThreadAssumption DEF Pending, Running, Entered, Counted, Waits
<1>2. Cardinality(Entered') = Cardinality(Entered) - 1
  BY <1>1, CountFacts, DropOne
<1> QED BY <1>1, <1>2, CountFacts DEF CountInv, OutstandingExact

LEMMA CountLeave ==
  ASSUME TypeOK, Locals, CountInv, NEW t \in Thread, Leave(t)
  PROVE  CountInv'
<1> USE DEF TypeOK, Proc, User, shared, plan, Goto, Leave
<1>1. /\ Running' = Running \ {t} /\ t \in Running
      /\ Pending' = Pending /\ Entered' = Entered /\ Counted' = Counted
      /\ Waits' = Waits
  BY ThreadAssumption DEF Pending, Running, Entered, Counted, Waits
<1>2. Cardinality(Running') = Cardinality(Running) - 1
  BY <1>1, CountFacts, DropOne
<1> QED BY <1>1, <1>2, CountFacts DEF CountInv, OutstandingExact

(* Counting an operation before it is started ... *)
LEMMA CountCount ==
  ASSUME TypeOK, Locals, CountInv, NEW p \in Proc, Count(p)
  PROVE  CountInv'
<1> USE DEF TypeOK, Proc, User, shared, called, plan, Goto, Count
<1>1. /\ Counted' = Counted \cup {p} /\ p \notin Counted
      /\ Pending' = Pending /\ Running' = Running /\ Entered' = Entered
      /\ Waits' = Waits
  BY ThreadAssumption DEF Pending, Running, Entered, Counted, Waits
<1>2. Cardinality(Counted') = Cardinality(Counted) + 1
  BY <1>1, CountFacts, AddOne
<1> QED BY <1>1, <1>2, CountFacts DEF CountInv, OutstandingExact

(* ... and starting it: nobody else has one in flight on the same object.  *)
LEMMA CountIssue ==
  ASSUME TypeOK, Locals, OneOwner, CountInv, NEW p \in Proc, Issue(p)
  PROVE  CountInv'
<1> USE DEF TypeOK, Kinds, Proc, User, called
<1>1. obj[p] \in Object /\ next[p] # "none"
  BY DEF Issue, Locals, UserPcs, StarterLocals, ThreadLocals
<1>2. op[obj[p]] = "none"
  BY <1>1, NamesAssumption DEF OneOwner, Acting, Issue
<1>3. Pending' = Pending \cup {obj[p]} /\ obj[p] \notin Pending
  BY <1>1, <1>2 DEF Pending, Issue
<1>4. Counted' = Counted \ {p} /\ p \in Counted
  BY DEF Counted, Issue, Goto, Conts
<1>5. Running' = Running
  BY ThreadAssumption DEF Running, Issue, Goto, Locals, UserPcs, ThreadLocals
<1>6. Entered' = Entered /\ Waits' = Waits
  BY DEF Entered, Waits, Issue, Goto, Conts
<1>7. /\ IsFiniteSet(Pending') /\ Cardinality(Pending') = Cardinality(Pending) + 1
      /\ Cardinality(Counted') = Cardinality(Counted) - 1
  BY <1>3, <1>4, CountFacts, AddOne, DropOne
<1>8. m_outstanding' = m_outstanding BY DEF Issue
<1> QED BY <1>5, <1>6, <1>7, <1>8, CountFacts DEF CountInv, OutstandingExact

(* The same for the timer. *)
LEMMA CountTimerWait ==
  ASSUME TypeOK, Locals, OneChain, CountInv, NEW t \in Thread,
         ArmTimer(t) \/ RearmTimer(t)
  PROVE  CountInv'
<1> USE DEF TypeOK, Proc, User, shared, called, plan, Goto
<1>1. CASE CountTimer(t, "arm", "armed") \/ CountTimer(t, "rearm", "rearmed")
  <2>1. /\ Counted' = Counted \cup {t} /\ t \notin Counted
        /\ Pending' = Pending /\ Running' = Running /\ Entered' = Entered
        /\ Waits' = Waits
    BY <1>1, ThreadAssumption DEF CountTimer, Pending, Running, Entered, Counted, Waits
  <2>2. Cardinality(Counted') = Cardinality(Counted) + 1
    BY <2>1, CountFacts, AddOne
  <2>3. m_outstanding' = m_outstanding + 1 BY <1>1 DEF CountTimer
  <2> QED BY <2>1, <2>2, <2>3, CountFacts DEF CountInv, OutstandingExact
<1>2. CASE StartTimer(t, "armed", "leave") \/ StartTimer(t, "rearmed", "lock")
  <2>1. /\ Counted' = Counted \ {t} /\ t \in Counted
        /\ Pending' = Pending /\ Running' = Running /\ Entered' = Entered
    BY <1>2, ThreadAssumption DEF StartTimer, Pending, Running, Entered, Counted
  <2>2. Cardinality(Counted') = Cardinality(Counted) - 1
    BY <2>1, CountFacts, DropOne
  <2>3. WillArm(t)
    BY <1>2 DEF StartTimer, WillArm, Locals, ThreadLocals
  <2>4. Waits = 0 /\ Waits' = 1
    BY <1>2, <2>3 DEF OneChain, StartTimer, Waits
  <2>5. m_outstanding' = m_outstanding BY <1>2 DEF StartTimer
  <2> QED BY <2>1, <2>2, <2>4, <2>5, CountFacts DEF CountInv, OutstandingExact
<1> QED BY <1>1, <1>2 DEF ArmTimer, RearmTimer

LEMMA CountStep ==
  TypeOK /\ Locals /\ OneOwner /\ OneChain /\ CountInv /\ [Next]_vars => CountInv'
<1> SUFFICES ASSUME TypeOK, Locals, OneOwner, OneChain, CountInv, [Next]_vars
             PROVE  CountInv'
  OBVIOUS
<1> USE DEF Unmoved, Pending, Running, Entered, Counted, Waits
<1> USE ThreadAssumption DEF TypeOK, Proc, User, shared, called, plan, Goto
<1>1. CASE UNCHANGED vars BY <1>1, CountUnmoved DEF vars
<1>2. CASE \E t \in Thread, o \in Object : MayDispatch /\ Dispatch(t, o)
  BY <1>2, CountDispatch
<1>3. CASE \E t \in Thread : MayDispatch /\ DispatchTick(t)
  BY <1>3, CountDispatchTick
<1>4. ASSUME NEW t \in Thread, HandlerStep(t) PROVE CountInv'
  <2>1. CASE Uncount(t) BY <2>1, CountUncount
  <2>2. CASE Leave(t) BY <2>2, CountLeave
  <2>3. CASE ArmTimer(t) \/ RearmTimer(t) BY <2>3, CountTimerWait
  <2>4. CASE AbortAndCancel(t) BY <2>4, CountUnmoved DEF AbortAndCancel, CancelTimer
  <2>5. CASE CheckFailed(t) BY <2>5, CountUnmoved DEF CheckFailed
  <2>6. CASE HandleOpenOrRequest(t) BY <2>6, CountUnmoved DEF HandleOpenOrRequest, WillIssue
  <2>7. CASE HandleRead(t) BY <2>7, CountUnmoved DEF HandleRead, WillIssue
  <2>8. CASE StartFails(t) BY <2>8, CountUnmoved DEF StartFails
  <2>9. CASE StartSucceeds(t) BY <2>9, CountUnmoved DEF StartSucceeds
  <2>10. CASE StartClearsAbort(t) BY <2>10, CountUnmoved DEF StartClearsAbort
  <2>11. CASE StartPushes(t) BY <2>11, CountUnmoved DEF StartPushes
  <2>12. CASE StartFirst(t) BY <2>12, CountUnmoved DEF StartFirst, WillIssue
  <2>13. CASE StartMore(t) BY <2>13, CountUnmoved DEF StartMore, WillIssue
  <2>14. CASE CheckTick(t) BY <2>14, CountUnmoved DEF CheckTick
  <2>15. CASE TickLock(t) BY <2>15, CountUnmoved DEF TickLock
  <2>16. CASE TickEnds(t) BY <2>16, CountUnmoved DEF TickEnds, CancelTimer
  <2>17. CASE \E o \in Object : TickSkips(t, o)
    BY <2>17, CountUnmoved DEF TickSkips
  <2>18. CASE \E o \in Object : TickGivesUp(t, o)
    BY <2>18, CountUnmoved DEF TickGivesUp
  <2>19. CASE \E o \in Object : TickReconnects(t, o)
    BY <2>19, CountUnmoved DEF TickReconnects, WillIssue
  <2> QED
    BY <1>4, <2>1, <2>2, <2>3, <2>4, <2>5, <2>6, <2>7, <2>8, <2>9, <2>10,
       <2>11, <2>12, <2>13, <2>14, <2>15, <2>16, <2>17, <2>18, <2>19 DEF HandlerStep
<1>5. ASSUME NEW p \in Proc, IssueStep(p) PROVE CountInv'
  BY <1>5, CountCount, CountIssue DEF IssueStep
<1>6. CASE AsyncStart BY <1>6, CountUnmoved DEF AsyncStart
<1>7. CASE CallStop BY <1>7, CountUnmoved DEF CallStop, CancelTimer
<1>8. CASE StopCloses BY <1>8, CountUnmoved DEF StopCloses
<1>9. CASE CallWait \/ WaiterRuns
  BY <1>9, CountUnmoved DEF CallWait, WaiterRuns, WaitReadsAbort, WaitReadsCount,
              WaitDecides, WaitSleeps, WaiterStep
<1> QED
  BY <1>1, <1>2, <1>3, <1>4, <1>5, <1>6, <1>7, <1>8, <1>9 DEF Next

-----------------------------------------------------------------------------
(* The inductive invariant. *)
IInv == TypeOK /\ Locals /\ OneOwner /\ OneChain /\ CountInv

LEMMA InitIInv == Init => IInv
<1> SUFFICES ASSUME Init PROVE IInv OBVIOUS
<1> USE DEF Init
<1>1. TypeOK
  <2>1. pc \in [Proc -> ThreadPc \cup UserPc] BY DEF UserPc
  <2>2. op \in [Object -> Kinds \cup {"none"}] BY DEF Kinds
  <2>3. job \in [Thread -> Jobs] /\ next \in [Proc -> Kinds \cup {"none"}]
    BY DEF Jobs, Kinds
  <2>4. cont \in [Proc -> Conts] BY DEF Conts
  <2>5. obj \in [Proc -> Object \cup {NoObject}] OBVIOUS
  <2>6. err \in [Thread -> BOOLEAN] OBVIOUS
  <2>7. m_abort \in BOOLEAN /\ m_accept_multi \in BOOLEAN BY Zenon
  <2>8. /\ m_outstanding \in Int
        /\ timer \in {"off", "armed", "cancelled"} /\ lock \in Thread \cup {NoProc}
    OBVIOUS
  <2>9. /\ m_streams \subseteq Object /\ closed \subseteq Object /\ done \subseteq Object
        /\ todo \subseteq Object
    OBVIOUS
  <2> HIDE DEF Init
  <2> QED BY <2>1, <2>2, <2>3, <2>4, <2>5, <2>6, <2>7, <2>8, <2>9 DEF TypeOK
<1>2. Locals
  BY ThreadAssumption
  DEF Locals, UserPcs, StarterLocals, ThreadLocals, Proc, User, ThreadPc
<1>3. OneOwner BY DEF OneOwner, Acting, Proc
<1>4. OneChain BY DEF OneChain, WillArm, Starting, Proc, User
<1>5. Pending = {} /\ Running = {} /\ Entered = {} /\ Counted = {} /\ Waits = 0
  BY DEF Pending, Running, Entered, Counted, Waits, Proc
<1>6. CountInv BY <1>5, FS_EmptySet DEF CountInv, OutstandingExact
<1> QED BY <1>1, <1>2, <1>3, <1>4, <1>6 DEF IInv

LEMMA NextIInv == IInv /\ [Next]_vars => IInv'
<1> SUFFICES ASSUME IInv, [Next]_vars PROVE IInv' OBVIOUS
<1>1. Stopped => Quiet BY ZeroIsQuiet DEF IInv, CountInv, Stopped
<1> QED BY <1>1, TypeStep, LocalsStep, OwnerStep, ChainStep, CountStep DEF IInv

LEMMA Invariance == Spec => []IInv
BY InitIInv, NextIInv, PTL DEF Spec

-----------------------------------------------------------------------------
(* The variables keep their types. *)
THEOREM TypeCorrect == Spec => []TypeOK
BY Invariance, PTL DEF IInv

(* change_outstranding() and auto_outstanding keep m_outstanding equal to  *)
(* what is in flight, however many threads run the handlers.               *)
THEOREM CountIsExact == Spec => []OutstandingExact
<1>1. IInv => OutstandingExact BY DEF IInv, CountInv
<1> QED BY <1>1, Invariance, PTL

(* When stopped() answers true nothing is in flight and nothing will be,   *)
(* which is what the destructor asserts and start() relies on.             *)
THEOREM StoppedMeansQuiet == Spec => []StoppedIsQuiet
<1>1. IInv => StoppedIsQuiet
  BY ZeroIsQuiet DEF IInv, CountInv, StoppedIsQuiet, Stopped, Quiet
<1> QED BY <1>1, Invariance, PTL

(* A stream object is never used by two handlers, or by a handler and an   *)
(* operation in flight, at once: on_tick's replacement of timed-out        *)
(* streams included.                                                       *)
THEOREM OwnersAreUnique == Spec => []OneOwner
BY Invariance, PTL DEF IInv

(* One timer chain, whatever stop() and restarts are interleaved with it.  *)
THEOREM TimerChain == Spec => []OneTimerChain
<1>1. IInv => OneTimerChain BY DEF IInv, OneChain, OneTimerChain
<1> QED BY <1>1, Invariance, PTL

-----------------------------------------------------------------------------
(* wait_for_complete() reads m_outstanding after m_abort.  Nothing can      *)
(* start between the two reads, or after the return, because it is not     *)
(* called during async_start() and a quiet download stays quiet until the  *)
(* next async_start().                                                     *)
ReturnInv ==
  /\ pc["waiter"] # "idle" => pc["starter"] = "idle"
  /\ pc["waiter"] = "returned" => Quiet

LEMMA QuietStep ==
  ASSUME TypeOK, Locals, Quiet, pc["starter"] = "idle", [Next]_vars
  PROVE  (Quiet' /\ pc'["starter"] = "idle") \/ AsyncStart
<1> USE ThreadAssumption DEF TypeOK, Proc, User, Quiet, Goto
<1>1. /\ \A t \in Thread : pc[t] = "idle"
      /\ \A o \in Object : op[o] = "none"
      /\ \A p \in Proc : pc[p] \notin {"issue", "async", "armed", "rearmed"}
  BY DEF Pending, Running, Locals, UserPcs
<1>2. ~ \E t \in Thread : HandlerStep(t)
  BY <1>1 DEF HandlerStep, Uncount, Leave, AbortAndCancel, CheckFailed,
     HandleOpenOrRequest, HandleRead, StartFails, StartSucceeds, StartClearsAbort,
     StartPushes, StartFirst, StartMore, ArmTimer, CountTimer, StartTimer, CheckTick,
     RearmTimer, TickLock, TickEnds, TickSkips, TickGivesUp, TickReconnects
<1>3. ~ \E t \in Thread, o \in Object : MayDispatch /\ Dispatch(t, o)
  BY <1>1 DEF Dispatch
<1>4. ~ \E t \in Thread : MayDispatch /\ DispatchTick(t)
  BY DEF DispatchTick
<1>5. ~ \E p \in Proc : IssueStep(p)
  BY <1>1 DEF IssueStep, Count, Issue
<1>6. ASSUME UNCHANGED vars \/ CallStop \/ StopCloses \/ CallWait \/ WaiterRuns
      PROVE  Quiet' /\ pc'["starter"] = "idle"
  <2>1. UNCHANGED op /\ timer' = "off"
    BY <1>6 DEF vars, CallStop, StopCloses, CallWait, WaiterRuns, WaitReadsAbort,
       WaitReadsCount, WaitDecides, WaitSleeps, WaiterStep, CancelTimer, shared
  <2>2. \/ UNCHANGED pc
        \/ \E u \in {"stopper", "waiter"}, to \in UserPc \ {"async"} : Goto(u, to)
    BY <1>6 DEF vars, CallStop, StopCloses, CallWait, WaiterRuns, WaitReadsAbort,
       WaitReadsCount, WaitDecides, WaitSleeps, WaiterStep, UserPc
  <2>3. Counted' = {} /\ Running' = {} /\ pc'["starter"] = "idle"
    BY <1>1, <2>2 DEF Counted, Running, UserPc
  <2> QED BY <2>1, <2>3 DEF Pending
<1> QED BY <1>2, <1>3, <1>4, <1>5, <1>6 DEF Next

(* What a step does to the program counters of the user threads. *)
LEMMA UserStep ==
  ASSUME TypeOK, Locals, [Next]_vars, ~AsyncStart
  PROVE  /\ pc["starter"] = "idle" => pc'["starter"] = "idle"
         /\ \/ pc'["waiter"] = pc["waiter"]
            \/ pc["waiter"] = "idle" /\ pc["starter"] = "idle" /\ pc'["waiter"] = "w_abort"
            \/ pc["waiter"] # "idle" /\ pc'["waiter"] \notin {"idle", "returned"}
            \/ pc["waiter"] # "idle" /\ m_outstanding = 0
<1> USE ThreadAssumption DEF TypeOK, Proc, User, Goto
<1>1. CASE UNCHANGED vars BY <1>1 DEF vars
<1>2. ASSUME NEW t \in Thread, NEW o \in Object, Dispatch(t, o)
      PROVE  pc'["starter"] = pc["starter"] /\ pc'["waiter"] = pc["waiter"]
  BY <1>2 DEF Dispatch
<1>3. ASSUME NEW t \in Thread, DispatchTick(t)
      PROVE  pc'["starter"] = pc["starter"] /\ pc'["waiter"] = pc["waiter"]
  BY <1>3 DEF DispatchTick
<1>4. ASSUME NEW t \in Thread, HandlerStep(t), ~TickEnds(t)
      PROVE  pc'["starter"] = pc["starter"] /\ pc'["waiter"] = pc["waiter"]
  <2>1. UNCHANGED pc \/ \E to \in ThreadPc : Goto(t, to)
    BY <1>4 DEF ThreadPc, HandlerStep, Uncount, Leave, AbortAndCancel, CheckFailed,
       HandleOpenOrRequest, HandleRead, StartFails, StartSucceeds, StartClearsAbort,
       StartPushes, StartFirst, StartMore, ArmTimer, CountTimer, StartTimer, CheckTick,
       RearmTimer, TickLock, TickSkips, TickGivesUp, TickReconnects, WillIssue, plan
  <2> QED BY <2>1
<1>5. ASSUME NEW t \in Thread, TickEnds(t)
      PROVE  /\ pc'["starter"] = pc["starter"]
             /\ \/ pc'["waiter"] = pc["waiter"]
                \/ pc["waiter"] # "idle" /\ pc'["waiter"] \notin {"idle", "returned"}
  BY <1>5 DEF TickEnds
<1>6. ASSUME NEW q \in Proc, IssueStep(q)
      PROVE  /\ pc["starter"] = "idle" => pc'["starter"] = "idle"
             /\ pc'["waiter"] = pc["waiter"]
  BY <1>6 DEF IssueStep, Count, Issue, Locals, UserPcs
<1>7. CASE CallStop \/ StopCloses BY <1>7 DEF CallStop, StopCloses
<1>8. CASE CallWait \/ WaiterRuns
  BY <1>8 DEF CallWait, WaiterRuns, WaitReadsAbort, WaitReadsCount, WaitDecides,
     WaitSleeps, WaiterStep
<1> QED BY <1>1, <1>2, <1>3, <1>4, <1>5, <1>6, <1>7, <1>8 DEF Next

LEMMA ReturnStep == IInv /\ ReturnInv /\ [Next]_vars => ReturnInv'
<1> SUFFICES ASSUME IInv, ReturnInv, [Next]_vars PROVE ReturnInv' OBVIOUS
<1> USE DEF IInv
<1>1. CASE AsyncStart BY <1>1 DEF AsyncStart, ReturnInv, TypeOK, Proc, User
<1>2. CASE ~AsyncStart
  <2>1. pc'["waiter"] # "idle" => pc'["starter"] = "idle"
    BY <1>2, UserStep DEF ReturnInv
  <2>2. ASSUME pc'["waiter"] = "returned" PROVE Quiet'
    <3>1. pc["waiter"] = "returned" \/ m_outstanding = 0
      BY <1>2, <2>2, UserStep
    <3>2. Quiet BY <3>1, ZeroIsQuiet DEF ReturnInv, CountInv
    <3>3. pc["starter"] = "idle"
      BY <1>2, <2>2, UserStep DEF ReturnInv
    <3> QED BY <1>2, <3>2, <3>3, QuietStep
  <2> QED BY <2>1, <2>2 DEF ReturnInv
<1> QED BY <1>1, <1>2

(* After wait_for_complete() has returned, true or false, no handler runs  *)
(* and no operation is in flight until the next start.                     *)
THEOREM ReturnMeansQuiet == Spec => []ReturnIsQuiet
<1>1. Init => ReturnInv BY DEF Init, ReturnInv, Proc, User
<1>2. ReturnInv => ReturnIsQuiet BY DEF ReturnInv, ReturnIsQuiet, Quiet
<1> QED BY <1>1, <1>2, ReturnStep, Invariance, PTL DEF Spec

-----------------------------------------------------------------------------
(* The on_tick that walks through m_streams holds m_streams_mutex from     *)
(* TickLock to TickEnds, and the others add to the vector or, in           *)
(* async_start(), clear it only when nobody holds it.                      *)
WalkInv == \A t \in Thread : Walking(t) => lock = t /\ todo \subseteq m_streams

LEMMA WalkStep == TypeOK /\ Locals /\ WalkInv /\ [Next]_vars => WalkInv'
<1> SUFFICES ASSUME TypeOK, Locals, WalkInv, [Next]_vars PROVE WalkInv' OBVIOUS
<1> USE DEF TypeOK, Kinds, Proc, User, shared, called, plan, Goto, Locals, UserPcs,
            StarterLocals, ThreadLocals, WalkInv, Walking
<1> USE ThreadAssumption, NamesAssumption
<1>1. CASE UNCHANGED vars BY <1>1 DEF vars
<1>2. CASE \E t \in Thread, o \in Object : MayDispatch /\ Dispatch(t, o)
  BY <1>2 DEF Dispatch
<1>3. CASE \E t \in Thread : MayDispatch /\ DispatchTick(t)
  BY <1>3 DEF DispatchTick
<1>4. ASSUME NEW t \in Thread, HandlerStep(t) PROVE WalkInv'
  <2>1. CASE Uncount(t) BY <2>1 DEF Uncount
  <2>2. CASE Leave(t) BY <2>2 DEF Leave
  <2>3. CASE AbortAndCancel(t) BY <2>3 DEF AbortAndCancel, CancelTimer
  <2>4. CASE CheckFailed(t) BY <2>4 DEF CheckFailed
  <2>5. CASE HandleOpenOrRequest(t) BY <2>5 DEF HandleOpenOrRequest, WillIssue
  <2>6. CASE HandleRead(t) BY <2>6 DEF HandleRead, WillIssue
  <2>7. CASE StartFails(t) BY <2>7 DEF StartFails
  <2>8. CASE StartSucceeds(t) BY <2>8 DEF StartSucceeds
  <2>9. CASE StartClearsAbort(t) BY <2>9 DEF StartClearsAbort
  <2>10. CASE StartPushes(t) BY <2>10 DEF StartPushes
  <2>11. CASE StartFirst(t) BY <2>11 DEF StartFirst, WillIssue
  <2>12. CASE StartMore(t) BY <2>12 DEF StartMore, WillIssue
  <2>13. CASE ArmTimer(t) BY <2>13 DEF ArmTimer, CountTimer, StartTimer
  <2>14. CASE CheckTick(t) BY <2>14 DEF CheckTick
  <2>15. CASE RearmTimer(t) BY <2>15 DEF RearmTimer, CountTimer, StartTimer
  <2>16. CASE TickLock(t) BY <2>16 DEF TickLock
  <2>17. CASE TickEnds(t) BY <2>17 DEF TickEnds, CancelTimer
  <2>18. CASE \E o \in Object : TickSkips(t, o) BY <2>18 DEF TickSkips
  <2>19. CASE \E o \in Object : TickGivesUp(t, o) BY <2>19 DEF TickGivesUp
  <2>20. CASE \E o \in Object : TickReconnects(t, o) BY <2>20 DEF TickReconnects, WillIssue
  <2> QED
    BY <1>4, <2>1, <2>2, <2>3, <2>4, <2>5, <2>6, <2>7, <2>8, <2>9, <2>10, <2>11,
       <2>12, <2>13, <2>14, <2>15, <2>16, <2>17, <2>18, <2>19, <2>20 DEF HandlerStep
<1>5. ASSUME NEW p \in Proc, IssueStep(p) PROVE WalkInv'
  BY <1>5 DEF IssueStep, Count, Issue
<1>6. CASE AsyncStart BY <1>6 DEF AsyncStart
<1>7. CASE CallStop BY <1>7 DEF CallStop, CancelTimer
<1>8. CASE StopCloses BY <1>8 DEF StopCloses
<1>9. CASE CallWait \/ WaiterRuns
  BY <1>9 DEF CallWait, WaiterRuns, WaitReadsAbort, WaitReadsCount, WaitDecides,
              WaitSleeps, WaiterStep
<1> QED
  BY <1>1, <1>2, <1>3, <1>4, <1>5, <1>6, <1>7, <1>8, <1>9 DEF Next

(* One on_tick at a time walks through the connections, and it looks only  *)
(* at connections that are in the vector still.                            *)
THEOREM OneWalk == Spec => []OneTickWalks
<1>1. Init => WalkInv BY ThreadAssumption DEF Init, WalkInv, Walking, Proc
<1>2. WalkInv => OneTickWalks BY DEF WalkInv, OneTickWalks
<1> QED BY <1>1, <1>2, WalkStep, Invariance, PTL DEF Spec, IInv

-----------------------------------------------------------------------------
(* Why the timer chain does not break off while connections are working.   *)

(* on_tick gives up without a word only after m_abort: its wait ends with  *)
(* an error only when somebody has cancelled it, and whoever cancels it    *)
(* sets m_abort first.  handle_start clears m_abort, but no wait exists    *)
(* then.                                                                   *)
ErrInv ==
  /\ timer = "cancelled" => m_abort
  /\ \A t \in Thread :
       job[t] = "tick" /\ pc[t] \in {"entered", "check"} /\ err[t] => m_abort

(* From async_start() until handle_start has started its first operation   *)
(* it is alone: the only object in the vector is its own.                  *)
EarlyStage(t) ==
  job[t] = "start" /\ pc[t] \in {"entered", "check", "begin", "push", "first"}
Early ==
  \/ pc["starter"] \in {"issue", "async"}
  \/ \E o \in Object : Starting(o)
  \/ \E t \in Thread : EarlyStage(t)
EarlyInv ==
  Early =>
    /\ timer = "off"
    /\ \A t \in Thread : pc[t] = "idle" \/ EarlyStage(t)
    /\ \A o \in Object : op[o] \in {"none", "start"}
    /\ \A o \in m_streams : \E t \in Thread : pc[t] = "first" /\ obj[t] = o

(* Without a chain, no connection is working and none will be reopened, so *)
(* that none is working later either.                                      *)
Active(o) == op[o] # "none" \/ \E p \in Proc : Acting(p) /\ obj[p] = o
Dormant ==
  /\ \A o \in m_streams : ~Active(o)
  /\ \A t \in Thread : ~Walking(t) /\ pc[t] # "lock"
AliveInv == m_abort \/ timer # "off" \/ (\E t \in Thread : WillArm(t)) \/ Dormant

(* A cancelled wait keeps m_abort set until its on_tick has seen it.       *)
LEMMA ErrStep ==
  TypeOK /\ Locals /\ OneChain /\ (Stopped => Quiet) /\ ErrInv /\ [Next]_vars => ErrInv'
<1> SUFFICES ASSUME TypeOK, Locals, OneChain, Stopped => Quiet, ErrInv, [Next]_vars
             PROVE  ErrInv'
  OBVIOUS
<1> USE DEF TypeOK, Kinds, Proc, User, shared, called, plan, Goto, Locals, UserPcs,
            StarterLocals, ThreadLocals, ErrInv, OneChain, WillArm
<1> USE ThreadAssumption, NamesAssumption
<1>1. CASE UNCHANGED vars BY <1>1 DEF vars
<1>2. CASE \E t \in Thread, o \in Object : MayDispatch /\ Dispatch(t, o)
  BY <1>2 DEF Dispatch
<1>3. CASE \E t \in Thread : MayDispatch /\ DispatchTick(t)
  <2> PICK t \in Thread : DispatchTick(t) BY <1>3
  <2>1. PICK e \in {FALSE, timer = "cancelled"} : err' = [err EXCEPT ![t] = e]
    BY DEF DispatchTick
  <2>2. e \in BOOLEAN /\ (e => timer = "cancelled") BY <2>1
  <2>3. err'[t] = e /\ \A u \in Thread : u # t => err'[u] = err[u]
    BY <2>1, <2>2
  <2>4. ASSUME NEW u \in Thread, job'[u] = "tick", pc'[u] \in {"entered", "check"}, err'[u]
        PROVE  m_abort
    <3>1. CASE u = t BY <2>2, <2>3, <2>4, <3>1
    <3>2. CASE u # t
      <4>1. job[u] = job'[u] /\ pc[u] = pc'[u] BY <3>2 DEF DispatchTick
      <4> QED BY <2>3, <2>4, <3>2, <4>1
    <3> QED BY <3>1, <3>2
  <2>5. timer' = "off" /\ m_abort' = m_abort BY DEF DispatchTick
  <2> QED BY <2>4, <2>5
<1>4. ASSUME NEW t \in Thread, HandlerStep(t) PROVE ErrInv'
  <2>1. CASE Uncount(t) BY <2>1 DEF Uncount
  <2>2. CASE Leave(t) BY <2>2 DEF Leave
  <2>3. CASE AbortAndCancel(t) BY <2>3 DEF AbortAndCancel, CancelTimer
  <2>4. CASE CheckFailed(t) BY <2>4 DEF CheckFailed
  <2>5. CASE HandleOpenOrRequest(t) BY <2>5 DEF HandleOpenOrRequest, WillIssue
  <2>6. CASE HandleRead(t) BY <2>6 DEF HandleRead, WillIssue
  <2>7. CASE StartFails(t) BY <2>7 DEF StartFails
  <2>8. CASE StartSucceeds(t) BY <2>8 DEF StartSucceeds
  <2>9. CASE StartClearsAbort(t) BY <2>9 DEF StartClearsAbort
  <2>10. CASE StartPushes(t) BY <2>10 DEF StartPushes
  <2>11. CASE StartFirst(t) BY <2>11 DEF StartFirst, WillIssue
  <2>12. CASE StartMore(t) BY <2>12 DEF StartMore, WillIssue
  <2>13. CASE ArmTimer(t) BY <2>13 DEF ArmTimer, CountTimer, StartTimer
  <2>14. CASE CheckTick(t) BY <2>14 DEF CheckTick, Fails
  <2>15. CASE RearmTimer(t) BY <2>15 DEF RearmTimer, CountTimer, StartTimer
  <2>16. CASE TickLock(t) BY <2>16 DEF TickLock
  <2>17. CASE TickEnds(t) BY <2>17 DEF TickEnds, CancelTimer
  <2>18. CASE \E o \in Object : TickSkips(t, o) BY <2>18 DEF TickSkips
  <2>19. CASE \E o \in Object : TickGivesUp(t, o) BY <2>19 DEF TickGivesUp
  <2>20. CASE \E o \in Object : TickReconnects(t, o) BY <2>20 DEF TickReconnects, WillIssue
  <2> QED
    BY <1>4, <2>1, <2>2, <2>3, <2>4, <2>5, <2>6, <2>7, <2>8, <2>9, <2>10, <2>11,
       <2>12, <2>13, <2>14, <2>15, <2>16, <2>17, <2>18, <2>19, <2>20 DEF HandlerStep
<1>5. ASSUME NEW p \in Proc, IssueStep(p) PROVE ErrInv'
  BY <1>5 DEF IssueStep, Count, Issue
<1>6. CASE AsyncStart BY <1>6 DEF AsyncStart, Quiet, Pending, Running, Counted
<1>7. CASE CallStop BY <1>7 DEF CallStop, CancelTimer
<1>8. CASE StopCloses BY <1>8 DEF StopCloses
<1>9. CASE CallWait \/ WaiterRuns
  BY <1>9 DEF CallWait, WaiterRuns, WaitReadsAbort, WaitReadsCount, WaitDecides,
              WaitSleeps, WaiterStep
<1> QED
  BY <1>1, <1>2, <1>3, <1>4, <1>5, <1>6, <1>7, <1>8, <1>9 DEF Next

(* Nothing but handle_start is under way before its first operation.       *)
LEMMA EarlyStep ==
  TypeOK /\ Locals /\ OneChain /\ (Stopped => Quiet) /\ EarlyInv /\ [Next]_vars => EarlyInv'
<1> SUFFICES ASSUME TypeOK, Locals, OneChain, Stopped => Quiet, EarlyInv, [Next]_vars
             PROVE  EarlyInv'
  OBVIOUS
<1> USE DEF TypeOK, Kinds, Proc, User, shared, called, plan, Goto, Locals, UserPcs,
            StarterLocals, ThreadLocals, EarlyInv, Early, EarlyStage, OneChain, WillArm,
            Starting
<1> USE ThreadAssumption, NamesAssumption
<1>1. CASE UNCHANGED vars BY <1>1 DEF vars
<1>2. CASE \E t \in Thread, o \in Object : MayDispatch /\ Dispatch(t, o)
  BY <1>2 DEF Dispatch
<1>3. CASE \E t \in Thread : MayDispatch /\ DispatchTick(t)
  BY <1>3 DEF DispatchTick
<1>4. ASSUME NEW t \in Thread, HandlerStep(t) PROVE EarlyInv'
  <2>1. CASE Uncount(t) BY <2>1 DEF Uncount
  <2>2. CASE Leave(t) BY <2>2 DEF Leave
  <2>3. CASE AbortAndCancel(t) BY <2>3 DEF AbortAndCancel, CancelTimer
  <2>4. CASE CheckFailed(t) BY <2>4 DEF CheckFailed
  <2>5. CASE HandleOpenOrRequest(t) BY <2>5 DEF HandleOpenOrRequest, WillIssue
  <2>6. CASE HandleRead(t) BY <2>6 DEF HandleRead, WillIssue
  <2>7. CASE StartFails(t) BY <2>7 DEF StartFails
  <2>8. CASE StartSucceeds(t) BY <2>8 DEF StartSucceeds
  <2>9. CASE StartClearsAbort(t) BY <2>9 DEF StartClearsAbort
  <2>10. CASE StartPushes(t) BY <2>10 DEF StartPushes
  <2>11. CASE StartFirst(t) BY <2>11 DEF StartFirst, WillIssue
  <2>12. CASE StartMore(t) BY <2>12 DEF StartMore, WillIssue
  <2>13. CASE ArmTimer(t) BY <2>13 DEF ArmTimer, CountTimer, StartTimer
  <2>14. CASE CheckTick(t) BY <2>14 DEF CheckTick, Fails
  <2>15. CASE RearmTimer(t) BY <2>15 DEF RearmTimer, CountTimer, StartTimer
  <2>16. CASE TickLock(t) BY <2>16 DEF TickLock
  <2>17. CASE TickEnds(t) BY <2>17 DEF TickEnds, CancelTimer
  <2>18. CASE \E o \in Object : TickSkips(t, o) BY <2>18 DEF TickSkips
  <2>19. CASE \E o \in Object : TickGivesUp(t, o) BY <2>19 DEF TickGivesUp
  <2>20. CASE \E o \in Object : TickReconnects(t, o) BY <2>20 DEF TickReconnects, WillIssue
  <2> QED
    BY <1>4, <2>1, <2>2, <2>3, <2>4, <2>5, <2>6, <2>7, <2>8, <2>9, <2>10, <2>11,
       <2>12, <2>13, <2>14, <2>15, <2>16, <2>17, <2>18, <2>19, <2>20 DEF HandlerStep
<1>5. ASSUME NEW p \in Proc, IssueStep(p) PROVE EarlyInv'
  BY <1>5 DEF IssueStep, Count, Issue
<1>6. CASE AsyncStart BY <1>6 DEF AsyncStart, Quiet, Pending, Running, Counted
<1>7. CASE CallStop BY <1>7 DEF CallStop, CancelTimer
<1>8. CASE StopCloses BY <1>8 DEF StopCloses
<1>9. CASE CallWait \/ WaiterRuns
  BY <1>9 DEF CallWait, WaiterRuns, WaitReadsAbort, WaitReadsCount, WaitDecides,
              WaitSleeps, WaiterStep
<1> QED
  BY <1>1, <1>2, <1>3, <1>4, <1>5, <1>6, <1>7, <1>8, <1>9 DEF Next

(* The chain ends with m_abort, or in handle_start before a connection is  *)
(* working.                                                                *)
LEMMA AliveStep ==
  /\ TypeOK /\ Locals /\ OneOwner /\ OneChain /\ (Stopped => Quiet)
  /\ ErrInv /\ EarlyInv /\ AliveInv /\ [Next]_vars
  => AliveInv'
<1> SUFFICES ASSUME TypeOK, Locals, OneOwner, OneChain, Stopped => Quiet,
                    ErrInv, EarlyInv, AliveInv, [Next]_vars
             PROVE  AliveInv'
  OBVIOUS
<1> USE DEF TypeOK, Kinds, Proc, User, shared, called, plan, Goto, Locals, UserPcs,
            StarterLocals, ThreadLocals, OneOwner, ErrInv, AliveInv, Dormant, Active, Acting,
            Walking, WillArm
<1> USE ThreadAssumption, NamesAssumption
<1>1. CASE UNCHANGED vars BY <1>1 DEF vars
<1>2. CASE \E t \in Thread, o \in Object : MayDispatch /\ Dispatch(t, o)
  BY <1>2 DEF Dispatch
<1>3. CASE \E t \in Thread : MayDispatch /\ DispatchTick(t)
  BY <1>3 DEF DispatchTick
<1>4. ASSUME NEW t \in Thread, HandlerStep(t) PROVE AliveInv'
  <2>1. CASE Uncount(t) BY <2>1 DEF Uncount
  <2>2. CASE Leave(t) BY <2>2 DEF Leave
  <2>3. CASE AbortAndCancel(t) BY <2>3 DEF AbortAndCancel, CancelTimer
  <2>4. CASE CheckFailed(t) BY <2>4 DEF CheckFailed
  <2>5. CASE HandleOpenOrRequest(t) BY <2>5 DEF HandleOpenOrRequest, WillIssue
  <2>6. CASE HandleRead(t) BY <2>6 DEF HandleRead, WillIssue
  <2>7. CASE StartFails(t)
    BY <2>7 DEF StartFails, EarlyInv, Early, EarlyStage, OneChain
  <2>8. CASE StartSucceeds(t) BY <2>8 DEF StartSucceeds
  <2>9. CASE StartClearsAbort(t) BY <2>9 DEF StartClearsAbort
  <2>10. CASE StartPushes(t) BY <2>10 DEF StartPushes
  <2>11. CASE StartFirst(t)
    BY <2>11 DEF StartFirst, WillIssue, EarlyInv, Early, EarlyStage, OneChain
  <2>12. CASE StartMore(t) BY <2>12 DEF StartMore, WillIssue
  <2>13. CASE ArmTimer(t) BY <2>13 DEF ArmTimer, CountTimer, StartTimer
  <2>14. CASE CheckTick(t) BY <2>14 DEF CheckTick, Fails
  <2>15. CASE RearmTimer(t) BY <2>15 DEF RearmTimer, CountTimer, StartTimer
  <2>16. CASE TickLock(t) BY <2>16 DEF TickLock
  <2>17. CASE TickEnds(t) BY <2>17 DEF TickEnds, CancelTimer
  <2>18. CASE \E o \in Object : TickSkips(t, o) BY <2>18 DEF TickSkips
  <2>19. CASE \E o \in Object : TickGivesUp(t, o) BY <2>19 DEF TickGivesUp
  <2>20. CASE \E o \in Object : TickReconnects(t, o) BY <2>20 DEF TickReconnects, WillIssue
  <2> QED
    BY <1>4, <2>1, <2>2, <2>3, <2>4, <2>5, <2>6, <2>7, <2>8, <2>9, <2>10, <2>11,
       <2>12, <2>13, <2>14, <2>15, <2>16, <2>17, <2>18, <2>19, <2>20 DEF HandlerStep
<1>5. ASSUME NEW p \in Proc, IssueStep(p) PROVE AliveInv'
  BY <1>5 DEF IssueStep, Count, Issue
<1>6. CASE AsyncStart BY <1>6 DEF AsyncStart, Quiet, Pending, Running, Counted
<1>7. CASE CallStop BY <1>7 DEF CallStop, CancelTimer
<1>8. CASE StopCloses BY <1>8 DEF StopCloses
<1>9. CASE CallWait \/ WaiterRuns
  BY <1>9 DEF CallWait, WaiterRuns, WaitReadsAbort, WaitReadsCount, WaitDecides,
              WaitSleeps, WaiterStep
<1> QED
  BY <1>1, <1>2, <1>3, <1>4, <1>5, <1>6, <1>7, <1>8, <1>9 DEF Next

(* Every connection in flight of a download that is not aborted is watched *)
(* by a timer that runs or is about to be started: one that hangs is found *)
(* by some on_tick.                                                        *)
THEOREM ConnectionsWatched == Spec => []Watched
<1> DEFINE WInv == ErrInv /\ EarlyInv /\ AliveInv
<1>1. Init => WInv
  BY ThreadAssumption
  DEF Init, ErrInv, EarlyInv, Early, EarlyStage, Starting, AliveInv, Proc, User
<1>2. IInv /\ WInv /\ [Next]_vars => WInv'
  <2> SUFFICES ASSUME IInv, WInv, [Next]_vars PROVE WInv' OBVIOUS
  <2>1. Stopped => Quiet BY ZeroIsQuiet DEF IInv, CountInv, Stopped
  <2> QED BY <2>1, ErrStep, EarlyStep, AliveStep DEF IInv
<1>3. WInv => Watched BY DEF AliveInv, Dormant, Active, Watched
<1> HIDE DEF WInv
<1> QED BY <1>1, <1>2, <1>3, Invariance, PTL DEF Spec

=============================================================================
