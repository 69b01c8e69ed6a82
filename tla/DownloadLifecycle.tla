-------------------------- MODULE DownloadLifecycle --------------------------
(***************************************************************************)
(* The life of one multi_download (include/avhttp/impl/multi_download.ipp): *)
(* the handlers that the threads of the io_service run, the timer, and the *)
(* calls of user threads - async_start(), stop(), wait_for_complete() -    *)
(* that share m_abort, m_outstanding, m_streams and two mutexes with them. *)
(*                                                                         *)
(* This module keeps the control of the handlers, statement by statement   *)
(* where another thread can observe the difference, and leaves out the     *)
(* bytes: whether a range is finished or can be allocated is an arbitrary  *)
(* choice here and is the subject of MultiDownload.                        *)
(*                                                                         *)
(* An http_stream_object is an element of Object.  It is alive while it is *)
(* in m_streams, has an asynchronous operation, or is held by a handler    *)
(* (the shared_ptr bound into the handler); otherwise it can be reused as  *)
(* a new one.                                                              *)
(***************************************************************************)
EXTENDS Integers, FiniteSets

CONSTANTS
  Thread,        \* the threads that run the io_service
  Object,        \* http_stream_objects
  Connections,   \* settings::connections_limit
  PostedStop     \* TRUE: stop() is called by the only io thread, between
                 \* two handlers and after the start handler has run

ASSUME ConnectionsAssumption == Connections \in Nat \ {0}
ASSUME ThreadAssumption == {"starter", "stopper", "waiter"} \cap Thread = {}
ASSUME FiniteThreads == IsFiniteSet(Thread)
ASSUME PostedStopAssumption == PostedStop \in BOOLEAN

VARIABLES
  m_abort, m_outstanding, m_accept_multi,
  m_streams,     \* the objects in the vector
  op,            \* object -> the asynchronous operation started on it
  closed,        \* objects whose stream has been closed: its operation is
                 \* aborted, if the close has not come too early to do so
  done,          \* objects with done set
  timer,         \* m_timer: "off", "armed", or "cancelled" with on_tick queued
  lock,          \* the holder of m_streams_mutex, or NoProc
  pc, obj,       \* process -> where it is, and the object it works on
  job, err,      \* thread -> the handler it runs, and whether its ec is set
  next, cont,    \* process -> the operation it is starting, and its pc after
  todo           \* on_tick: the streams it has yet to look at (under lock)

vars == <<m_abort, m_outstanding, m_accept_multi, m_streams, op, closed, done,
          timer, lock, pc, obj, job, err, next, cont, todo>>
shared == <<m_abort, m_accept_multi, m_streams, closed, done, timer, lock, todo>>
called == <<job, err>>
plan   == <<next, cont>>

NoProc   == "nobody"
NoObject == "no object"
User     == {"starter", "stopper", "waiter"}
Proc     == Thread \cup User

ASSUME NamesAssumption == NoObject \notin Object /\ NoProc \notin Thread

Kinds  == {"start", "open", "request", "read"}
Jobs   == Kinds \cup {"tick", "none"}
Conts  == {"leave", "more", "arm", "loop", "idle"}

(* Program counters.  entered: ao constructed, change_outstranding(false)  *)
(* to come; issue: change_outstranding(true) to come; async: the async_xxx *)
(* call to come; arm, rearm: the same before m_timer.async_wait, armed and *)
(* rearmed after it has been counted; leave: the destructor of ao to come. *)
ThreadPc == {"idle", "entered", "check", "abort", "issue", "async", "leave",
             "begin", "push", "first", "more", "arm", "armed",
             "rearm", "rearmed", "lock", "loop"}
UserPc   == {"idle", "issue", "async", "close", "stopped",
             "w_abort", "w_count", "w_check", "w_sleep", "waiting", "returned"}

Init ==
  /\ m_abort = TRUE
  /\ m_outstanding = 0
  /\ m_accept_multi = FALSE
  /\ m_streams = {} /\ closed = {} /\ done = {}
  /\ op = [o \in Object |-> "none"]
  /\ timer = "off"
  /\ lock = NoProc
  /\ pc = [p \in Proc |-> "idle"]
  /\ obj = [p \in Proc |-> NoObject]
  /\ job = [t \in Thread |-> "none"]
  /\ err = [t \in Thread |-> FALSE]
  /\ next = [p \in Proc |-> "none"]
  /\ cont = [p \in Proc |-> "idle"]
  /\ todo = {}

-----------------------------------------------------------------------------
Goto(p, to) == pc' = [pc EXCEPT ![p] = to]

(* The destructor of the last shared_ptr has run: o can be a new object.   *)
Fresh(o) ==
  /\ o \notin m_streams
  /\ op[o] = "none"
  /\ \A p \in Proc : obj[p] # o

CancelTimer == timer' = IF timer = "armed" THEN "cancelled" ELSE timer

(* What close() on the streams of os can catch.  It acts on a socket that  *)
(* is open: while the name is still being resolved it does nothing, and a  *)
(* connect that it aborts is followed by one to the next address.  An      *)
(* async_open that is no further may go on as if nothing had happened; any *)
(* other operation is aborted.                                             *)
Caught(os) == {os \ missed : missed \in SUBSET {o \in os : op[o] = "open"}}

(* Go and start the operation kind on object o, then continue at to. *)
WillIssue(p, o, kind, to) ==
  /\ Goto(p, "issue")
  /\ obj' = [obj EXCEPT ![p] = o]
  /\ next' = [next EXCEPT ![p] = kind]
  /\ cont' = [cont EXCEPT ![p] = to]

-----------------------------------------------------------------------------
(* Mutant of Dispatch: a handler without auto_outstanding. *)
DispatchUnguarded(t, o) ==
  /\ pc[t] = "idle" /\ op[o] # "none"
  /\ job' = [job EXCEPT ![t] = op[o]]
  /\ \E e \in BOOLEAN : err' = [err EXCEPT ![t] = e]
  /\ op' = [op EXCEPT ![o] = "none"]
  /\ obj' = [obj EXCEPT ![t] = o]
  /\ Goto(t, "entered")
  /\ UNCHANGED <<shared, m_outstanding, plan>>

(* Completions.  The operation on o ends, with an error or not, and an     *)
(* idle thread runs its handler: the first statement is auto_outstanding.  *)
(* A closed stream may still deliver a success that was already queued.    *)
Dispatch(t, o) ==
  /\ pc[t] = "idle" /\ op[o] # "none"
  /\ job' = [job EXCEPT ![t] = op[o]]
  /\ \E e \in BOOLEAN : err' = [err EXCEPT ![t] = e]
  /\ op' = [op EXCEPT ![o] = "none"]
  /\ obj' = [obj EXCEPT ![t] = o]
  /\ m_outstanding' = m_outstanding + 1
  /\ Goto(t, "entered")
  /\ UNCHANGED <<shared, plan>>

(* The timer expires, or its wait was cancelled: on_tick.  A cancelled wait *)
(* whose handler was already queued still reports success.                 *)
DispatchTick(t) ==
  /\ pc[t] = "idle" /\ timer # "off"
  /\ job' = [job EXCEPT ![t] = "tick"]
  /\ \E e \in {FALSE, timer = "cancelled"} : err' = [err EXCEPT ![t] = e]
  /\ timer' = "off"
  /\ m_outstanding' = m_outstanding + 1
  /\ Goto(t, "entered")
  /\ UNCHANGED <<m_abort, m_accept_multi, m_streams, op, closed, done, lock, obj,
                 plan, todo>>

(* change_outstranding(false), the second statement of every handler. *)
Uncount(t) ==
  /\ pc[t] = "entered"
  /\ m_outstanding' = m_outstanding - 1
  /\ Goto(t, "check")
  /\ UNCHANGED <<shared, op, obj, called, plan>>

(* Mutant of Count: change_outstranding(true) is forgotten. *)
CountForgotten(p) ==
  /\ pc[p] = "issue"
  /\ Goto(p, "async")
  /\ UNCHANGED <<shared, m_outstanding, op, obj, called, plan>>

(* change_outstranding(true), then the async_xxx call it announces. *)
Count(p) ==
  /\ pc[p] = "issue"
  /\ m_outstanding' = m_outstanding + 1
  /\ Goto(p, "async")
  /\ UNCHANGED <<shared, op, obj, called, plan>>

(* Mutant of Issue: where to go on and what to start are swapped. *)
IssueSwapped(p) ==
  /\ pc[p] = "async"
  /\ op' = [op EXCEPT ![obj[p]] = cont[p]]
  /\ Goto(p, next[p])
  /\ UNCHANGED <<shared, m_outstanding, obj, called, plan>>

(* async_open() opens a new connection; the others use the one there is. *)
Issue(p) ==
  /\ pc[p] = "async"
  /\ op' = [op EXCEPT ![obj[p]] = next[p]]
  /\ closed' = IF next[p] = "open" THEN closed \ {obj[p]} ELSE closed
  /\ Goto(p, cont[p])
  /\ obj' = IF cont[p] = "idle" THEN [obj EXCEPT ![p] = NoObject] ELSE obj
  /\ next' = [next EXCEPT ![p] = "none"]
  /\ cont' = [cont EXCEPT ![p] = "idle"]
  /\ UNCHANGED <<m_abort, m_outstanding, m_accept_multi, m_streams, done, timer,
                 lock, called, todo>>

(* ~auto_outstanding, and the handler is over. *)
Leave(t) ==
  /\ pc[t] = "leave"
  /\ m_outstanding' = m_outstanding - 1
  /\ Goto(t, "idle")
  /\ obj' = [obj EXCEPT ![t] = NoObject]
  /\ job' = [job EXCEPT ![t] = "none"]
  /\ err' = [err EXCEPT ![t] = FALSE]
  /\ UNCHANGED <<shared, op, plan>>

(* m_abort = true; m_timer.cancel() - a single connection has ended. *)
AbortAndCancel(t) ==
  /\ pc[t] = "abort"
  /\ m_abort' = TRUE
  /\ CancelTimer
  /\ Goto(t, "leave")
  /\ UNCHANGED <<m_outstanding, m_accept_multi, m_streams, op, closed, done, lock,
                 obj, called, plan, todo>>

-----------------------------------------------------------------------------
(* handle_open, handle_request and handle_read: on an error or an abort    *)
(* they leave it to on_tick to reconnect, or end a single connection.      *)
Fails(t) == err[t] \/ m_abort

CheckFailed(t) ==
  /\ pc[t] = "check" /\ job[t] \in {"open", "request", "read"}
  /\ Fails(t)
  /\ Goto(t, IF m_accept_multi THEN "leave" ELSE "abort")
  /\ UNCHANGED <<shared, m_outstanding, op, obj, called, plan>>

HandleOpenOrRequest(t) ==
  /\ pc[t] = "check" /\ job[t] \in {"open", "request"}
  /\ ~Fails(t)
  /\ WillIssue(t, obj[t], "read", "leave")
  /\ UNCHANGED <<shared, m_outstanding, op, called>>

(* More to read; or a finished range, which leads to a request for another *)
(* one on the same connection, or to a reconnect by on_tick; or, with a    *)
(* single connection, the finished file.                                   *)
HandleRead(t) ==
  /\ pc[t] = "check" /\ job[t] = "read"
  /\ ~Fails(t)
  /\ \/ WillIssue(t, obj[t], "read", "leave")
     \/ m_accept_multi /\ WillIssue(t, obj[t], "request", "leave")
     \/ /\ Goto(t, IF m_accept_multi THEN "leave" ELSE "abort")
        /\ UNCHANGED <<obj, plan>>
  /\ UNCHANGED <<shared, m_outstanding, op, called>>

-----------------------------------------------------------------------------
(* handle_start.  It never looks at m_abort.                               *)

(* The open failed, the file is complete already, or the storage cannot be *)
(* opened: tell the user and leave.                                        *)
StartFails(t) ==
  /\ pc[t] = "check" /\ job[t] = "start"
  /\ \/ err[t] /\ UNCHANGED m_accept_multi
     \/ ~err[t] /\ m_accept_multi' \in BOOLEAN
  /\ Goto(t, "leave")
  /\ UNCHANGED <<m_abort, m_outstanding, m_streams, op, closed, done, timer, lock,
                 obj, called, plan, todo>>

StartSucceeds(t) ==
  /\ pc[t] = "check" /\ job[t] = "start"
  /\ ~err[t]
  /\ m_accept_multi' \in BOOLEAN
  /\ Goto(t, "begin")
  /\ UNCHANGED <<m_abort, m_outstanding, m_streams, op, closed, done, timer, lock,
                 obj, called, plan, todo>>

StartClearsAbort(t) ==
  /\ pc[t] = "begin"
  /\ m_abort' = FALSE
  /\ Goto(t, "push")
  /\ UNCHANGED <<m_outstanding, m_accept_multi, m_streams, op, closed, done, timer,
                 lock, obj, called, plan, todo>>

StartPushes(t) ==
  /\ pc[t] = "push" /\ lock = NoProc
  /\ m_streams' = m_streams \cup {obj[t]}
  /\ Goto(t, "first")
  /\ UNCHANGED <<m_abort, m_outstanding, m_accept_multi, op, closed, done, timer,
                 lock, obj, called, plan, todo>>

(* The first stream goes on reading; or is reopened because its range does *)
(* not start at 0 (the close before may fail, and then handle_start is     *)
(* over); or is done because no range is left.                             *)
StartFirst(t) ==
  /\ pc[t] = "first"
  /\ \/ /\ WillIssue(t, obj[t], "read", IF m_accept_multi THEN "more" ELSE "arm")
        /\ UNCHANGED <<closed, done>>
     \/ /\ m_accept_multi
        /\ closed' = closed \cup {obj[t]}
        /\ \/ WillIssue(t, obj[t], "open", "more")
           \/ Goto(t, "leave") /\ UNCHANGED <<obj, plan>>
        /\ UNCHANGED done
     \/ /\ m_accept_multi
        /\ done' = done \cup {obj[t]}
        /\ Goto(t, "more")
        /\ UNCHANGED <<closed, obj, plan>>
  /\ UNCHANGED <<m_abort, m_outstanding, m_accept_multi, m_streams, op, timer, lock,
                 called, todo>>

(* One more connection, as long as the limit and the ranges allow. *)
StartMore(t) ==
  /\ pc[t] = "more"
  /\ \/ /\ lock = NoProc
        /\ Cardinality(m_streams) < Connections
        /\ \E o \in Object :
             /\ Fresh(o)
             /\ m_streams' = m_streams \cup {o}
             /\ closed' = closed \ {o}
             /\ done' = done \ {o}
             /\ WillIssue(t, o, "open", "more")
     \/ /\ Goto(t, "arm")
        /\ UNCHANGED <<m_streams, closed, done, obj, plan>>
  /\ UNCHANGED <<m_abort, m_outstanding, m_accept_multi, op, timer, lock, called, todo>>

(* Count and start the timer: at the end of handle_start ... *)
CountTimer(t, from, to) ==
  /\ pc[t] = from
  /\ m_outstanding' = m_outstanding + 1
  /\ Goto(t, to)
  /\ UNCHANGED <<shared, op, obj, called, plan>>

StartTimer(t, from, to) ==
  /\ pc[t] = from
  /\ timer' = "armed"
  /\ Goto(t, to)
  /\ UNCHANGED <<m_abort, m_outstanding, m_accept_multi, m_streams, op, closed, done,
                 lock, obj, called, plan, todo>>

ArmTimer(t) == CountTimer(t, "arm", "armed") \/ StartTimer(t, "armed", "leave")

-----------------------------------------------------------------------------
(* Mutant of CheckTick: on_tick does not start the timer again. *)
CheckTickOnce(t) ==
  /\ pc[t] = "check" /\ job[t] = "tick"
  /\ Goto(t, IF Fails(t) THEN "leave" ELSE "lock")
  /\ UNCHANGED <<shared, m_outstanding, op, obj, called, plan>>

(* ... and near the beginning of on_tick, unless the download is over. *)
CheckTick(t) ==
  /\ pc[t] = "check" /\ job[t] = "tick"
  /\ Goto(t, IF Fails(t) THEN "leave" ELSE "rearm")
  /\ UNCHANGED <<shared, m_outstanding, op, obj, called, plan>>

RearmTimer(t) == CountTimer(t, "rearm", "rearmed") \/ StartTimer(t, "rearmed", "lock")

(* Mutant of TickLock: on_tick does not wait for m_streams_mutex. *)
TickLockNothing(t) ==
  /\ pc[t] = "lock"
  /\ lock' = t
  /\ todo' = m_streams
  /\ Goto(t, "loop")
  /\ UNCHANGED <<m_abort, m_outstanding, m_accept_multi, m_streams, op, closed, done,
                 timer, obj, called, plan>>

TickLock(t) ==
  /\ pc[t] = "lock" /\ lock = NoProc
  /\ lock' = t
  /\ todo' = m_streams
  /\ Goto(t, "loop")
  /\ UNCHANGED <<m_abort, m_outstanding, m_accept_multi, m_streams, op, closed, done,
                 timer, obj, called, plan>>

(* The stream needs nothing: it is done, or has been active recently. *)
TickSkips(t, o) ==
  /\ pc[t] = "loop" /\ o \in todo
  /\ todo' = todo \ {o}
  /\ UNCHANGED <<m_abort, m_outstanding, m_accept_multi, m_streams, op, closed, done,
                 timer, lock, pc, obj, called, plan>>

(* It has timed out or asked for a reconnect, and will not be tried again: *)
(* the server has refused it, or it is the single connection.              *)
TickGivesUp(t, o) ==
  /\ pc[t] = "loop" /\ o \in todo \ done
  /\ todo' = todo \ {o}
  /\ \E c \in Caught({o}) : closed' = closed \cup c
  /\ done' = done \cup {o}
  /\ m_abort' \in {m_abort, m_abort \/ ~m_accept_multi}
  /\ UNCHANGED <<m_outstanding, m_accept_multi, m_streams, op, timer, lock, pc, obj,
                 called, plan>>

(* Mutant of TickReconnects: the object is opened again, not replaced. *)
TickReopens(t, o) ==
  /\ pc[t] = "loop" /\ o \in todo \ done
  /\ m_accept_multi
  /\ todo' = todo \ {o}
  /\ closed' = closed \ {o}
  /\ WillIssue(t, o, "open", "loop")
  /\ UNCHANGED <<m_abort, m_outstanding, m_accept_multi, m_streams, op, done, timer,
                 lock, called>>

(* It is replaced by a copy with a new stream, which is opened, or is done *)
(* because no range is left.  The old stream is closed; if its open goes on *)
(* all the same its handlers do too, outside m_streams.                    *)
TickReconnects(t, o) ==
  /\ pc[t] = "loop" /\ o \in todo \ done
  /\ m_accept_multi
  /\ todo' = todo \ {o}
  /\ \E n \in Object :
       /\ Fresh(n)
       /\ m_streams' = (m_streams \ {o}) \cup {n}
       /\ \E c \in Caught({o}) : closed' = (closed \cup c) \ {n}
       /\ \/ /\ done' = done \ {n}
             /\ WillIssue(t, n, "open", "loop")
          \/ /\ done' = done \cup {n}
             /\ UNCHANGED <<pc, obj, plan>>
  /\ UNCHANGED <<m_abort, m_outstanding, m_accept_multi, op, timer, lock, called>>

(* If every stream is done the download is over: notify_one() wakes the    *)
(* waiter if it is waiting at this moment.                                 *)
TickEnds(t) ==
  /\ pc[t] = "loop" /\ todo = {}
  /\ lock' = NoProc
  /\ IF m_streams \subseteq done
     THEN /\ m_abort' = TRUE
          /\ CancelTimer
          /\ pc' = [pc EXCEPT ![t] = "leave",
                              !["waiter"] = IF @ = "waiting" THEN "w_abort" ELSE @]
     ELSE Goto(t, "leave") /\ UNCHANGED <<m_abort, timer>>
  /\ UNCHANGED <<m_outstanding, m_accept_multi, m_streams, op, closed, done, obj,
                 called, plan, todo>>

-----------------------------------------------------------------------------
(* The calls of the user threads.                                          *)

(* stopped() *)

(* Mutant of Stopped: m_outstanding is not looked at. *)
StoppedByAbort == m_abort
Stopped == m_abort /\ m_outstanding = 0

(* async_start(), by a user who has seen stopped(). *)
AsyncStart ==
  /\ pc["starter"] = "idle" /\ Stopped /\ lock = NoProc
  /\ pc["stopper"] \in {"idle", "stopped"} /\ pc["waiter"] \in {"idle", "returned"}
  /\ m_streams' = {}
  /\ m_abort' = FALSE
  /\ \E o \in Object :
       /\ \A p \in Proc : obj[p] # o
       /\ op[o] = "none"
       /\ closed' = closed \ {o}
       /\ done' = done \ {o}
       /\ obj' = [obj EXCEPT !["starter"] = o]
  /\ next' = [next EXCEPT !["starter"] = "start"]
  /\ cont' = [cont EXCEPT !["starter"] = "idle"]
  /\ pc' = [pc EXCEPT !["starter"] = "issue", !["stopper"] = "idle", !["waiter"] = "idle"]
  /\ UNCHANGED <<m_outstanding, m_accept_multi, op, timer, lock, called, todo>>

(* stop(): m_abort and the timer first, then the streams under the lock.   *)
CallStop ==
  /\ pc["stopper"] = "idle" /\ pc["starter"] = "idle"
  /\ PostedStop => m_streams # {} /\ \A t \in Thread : pc[t] = "idle"
  /\ m_abort' = TRUE
  /\ CancelTimer
  /\ Goto("stopper", "close")
  /\ UNCHANGED <<m_outstanding, m_accept_multi, m_streams, op, closed, done, lock,
                 obj, called, plan, todo>>


StopCloses ==
  /\ pc["stopper"] = "close" /\ lock = NoProc
  /\ \E c \in Caught(m_streams) : closed' = closed \cup c
  /\ Goto("stopper", "stopped")
  /\ UNCHANGED <<m_abort, m_outstanding, m_accept_multi, m_streams, op, done, timer,
                 lock, obj, called, plan, todo>>

(* wait_for_complete(): while (!stopped()) if (!m_abort) wait.  stopped()  *)
(* reads m_abort and then m_outstanding.                                   *)
WaiterStep(from, to) ==
  /\ pc["waiter"] = from
  /\ Goto("waiter", to)
  /\ UNCHANGED <<shared, m_outstanding, op, obj, called, plan>>

CallWait       == pc["starter"] = "idle" /\ WaiterStep("idle", "w_abort")
WaitReadsAbort == WaiterStep("w_abort", IF m_abort THEN "w_count" ELSE "w_check")

(* Mutant of WaitReadsCount: m_abort is enough to return. *)
WaitIgnoresCount == WaiterStep("w_count", "returned")
WaitReadsCount == WaiterStep("w_count", IF m_outstanding = 0 THEN "returned" ELSE "w_check")
WaitDecides    == WaiterStep("w_check", IF m_abort THEN "w_abort" ELSE "w_sleep")
WaitSleeps     == WaiterStep("w_sleep", "waiting")

WaiterRuns == WaitReadsAbort \/ WaitReadsCount \/ WaitDecides \/ WaitSleeps

-----------------------------------------------------------------------------
(* PostedStop: the io thread that runs stop() runs nothing else meanwhile. *)
MayDispatch == ~PostedStop \/ pc["stopper"] # "close"

HandlerStep(t) ==
  \/ Uncount(t) \/ Leave(t) \/ AbortAndCancel(t)
  \/ CheckFailed(t) \/ HandleOpenOrRequest(t) \/ HandleRead(t)
  \/ StartFails(t) \/ StartSucceeds(t) \/ StartClearsAbort(t) \/ StartPushes(t)
  \/ StartFirst(t) \/ StartMore(t) \/ ArmTimer(t)
  \/ CheckTick(t) \/ RearmTimer(t) \/ TickLock(t) \/ TickEnds(t)
  \/ \E o \in Object : TickSkips(t, o) \/ TickGivesUp(t, o) \/ TickReconnects(t, o)

IssueStep(p) == Count(p) \/ Issue(p)

Next ==
  \/ \E t \in Thread, o \in Object : MayDispatch /\ Dispatch(t, o)
  \/ \E t \in Thread : MayDispatch /\ DispatchTick(t)
  \/ \E t \in Thread : HandlerStep(t)
  \/ \E p \in Proc : IssueStep(p)
  \/ AsyncStart
  \/ CallStop
  \/ StopCloses
  \/ CallWait
  \/ WaiterRuns

Spec == Init /\ [][Next]_vars

(* A thread that has something to do does it; the io_service runs a queued *)
(* handler some time: that of the timer, and that of an operation that a   *)
(* close has caught (it ends with operation_aborted at the latest).  Any   *)
(* other operation may take for ever, an async_open that no close has      *)
(* caught among them: no fairness there.                                   *)
Fairness ==
  /\ \A t \in Thread : WF_vars(HandlerStep(t))
  /\ \A p \in Proc : WF_vars(IssueStep(p))
  /\ SF_vars(\E t \in Thread : MayDispatch /\ DispatchTick(t))
  /\ \A o \in Object :
       SF_vars(\E t \in Thread : MayDispatch /\ o \in closed /\ Dispatch(t, o))
  /\ WF_vars(StopCloses)
  /\ WF_vars(WaiterRuns)

FairSpec == Spec /\ Fairness

-----------------------------------------------------------------------------
(* What m_outstanding has to count.                                        *)
Pending == {o \in Object : op[o] # "none"}
Running == {t \in Thread : pc[t] # "idle"}
Entered == {t \in Thread : pc[t] = "entered"}
Counted == {p \in Proc : pc[p] \in {"async", "armed", "rearmed"}}
Waits   == IF timer = "off" THEN 0 ELSE 1

(* The handler of p still acts for the object it was called with: it has   *)
(* not handed it on to a new operation yet.                                *)
Acting(p) ==
  /\ obj[p] # NoObject
  /\ pc[p] \in {"entered", "check", "abort", "begin", "push", "first", "issue", "async"}

(* The call that will start the timer, or decide that none is needed, is   *)
(* under way in thread t.                                                  *)
WillArm(t) ==
  \/ /\ job[t] = "tick"
     /\ pc[t] \in {"entered", "check", "rearm", "rearmed"}
  \/ /\ job[t] = "start"
     /\ pc[t] \in {"entered", "check", "begin", "push", "first", "more", "arm",
                   "armed", "issue", "async"}

TypeOK ==
  /\ m_abort \in BOOLEAN
  /\ m_outstanding \in Int
  /\ m_accept_multi \in BOOLEAN
  /\ m_streams \subseteq Object /\ closed \subseteq Object /\ done \subseteq Object
  /\ op \in [Object -> Kinds \cup {"none"}]
  /\ timer \in {"off", "armed", "cancelled"}
  /\ lock \in Thread \cup {NoProc}
  /\ pc \in [Proc -> ThreadPc \cup UserPc]
  /\ obj \in [Proc -> Object \cup {NoObject}]
  /\ job \in [Thread -> Jobs]
  /\ err \in [Thread -> BOOLEAN]
  /\ next \in [Proc -> Kinds \cup {"none"}]
  /\ cont \in [Proc -> Conts]
  /\ todo \subseteq Object

(* m_outstanding counts exactly the asynchronous operations in flight, the *)
(* timer wait, the running handlers and the operations announced but not   *)
(* started or finished but not yet uncounted, in every interleaving.       *)
OutstandingExact ==
  m_outstanding = Cardinality(Pending) + Waits + Cardinality(Running)
                  + Cardinality(Entered) + Cardinality(Counted)

(* When stopped() answers true, no operation is in flight, no handler runs *)
(* and none will: the object can be destroyed (the assertion in            *)
(* ~multi_download relies on it) or started again.                         *)
StoppedIsQuiet == Stopped => Pending = {} /\ timer = "off" /\ Running = {}

(* wait_for_complete() reads m_abort and m_outstanding at two moments; even *)
(* so, once it has returned and until the next start nothing is running.   *)
ReturnIsQuiet == pc["waiter"] = "returned" => Pending = {} /\ timer = "off" /\ Running = {}

(* An http_stream_object has one owner at a time, either an operation in   *)
(* flight or one handler: handlers use its fields without any lock.        *)
OneOwner ==
  \A o \in Object :
    \/ op[o] = "none" /\ \A p, q \in Proc :
         Acting(p) /\ Acting(q) /\ obj[p] = o /\ obj[q] = o => p = q
    \/ \A p \in Proc : ~(Acting(p) /\ obj[p] = o)

(* Every connection of a download that is not aborted is watched: the timer *)
(* is running, or on_tick or handle_start is about to start it.  A hung    *)
(* connection would otherwise never be reopened.                           *)
Watched ==
  (~m_abort /\ \E o \in m_streams : op[o] # "none") =>
    timer # "off" \/ \E t \in Thread : WillArm(t)

(* There is never a second timer chain: two would double every time-out    *)
(* check and reconnect streams twice.                                      *)
OneTimerChain ==
  /\ \A t, u \in Thread : WillArm(t) /\ WillArm(u) => t = u
  /\ (\E t \in Thread : WillArm(t)) => timer = "off"

(* on_tick starts the timer again before it walks through m_streams, so    *)
(* that another thread may be in the next on_tick already: one of them at  *)
(* a time walks, and what it has yet to look at is in the vector still,    *)
(* whatever handle_start, stop() and the other on_tick do meanwhile.       *)
Walking(t) == pc[t] = "loop" \/ (pc[t] \in {"issue", "async"} /\ cont[t] = "loop")
OneTickWalks ==
  \A t, u \in Thread :
    Walking(t) => todo \subseteq m_streams /\ (Walking(u) => t = u)

-----------------------------------------------------------------------------
(* A replaced connection whose open has outlived the close that went with  *)
(* the replacement, and that has begun to download: stop() does not find   *)
(* it in m_streams.                                                        *)
Orphan(o) == op[o] \in {"request", "read"} /\ o \notin m_streams \cup closed

(* An open that no close has caught, and the server that never answers it. *)
Unanswered(o) == op[o] = "open" /\ o \notin closed


(* What the comments of the class promise and the code does not keep.      *)

(* multi_download.hpp:151, "stop当前所有连接, 停止工作": after stop() the     *)
(* download stays stopped until it is started again.                       *)
StopIsFinal ==
  [][pc["stopper"] = "stopped" /\ m_abort => m_abort' \/ pc'["starter"] # "idle"]_vars

(* The same line: stop() stops all connections and the work, so that       *)
(* stopped() becomes true; but close() misses an open that still resolves  *)
(* or has another address to try, and a silent server keeps it for ever.   *)
StopEnds == pc["stopper"] = "stopped" ~> (Stopped \/ pc["starter"] # "idle")

(* multi_download.hpp:169, "等待直接下载完成. 完成返回true, 否则返回false":    *)
(* wait_for_complete() returns, true or false, when the download is over.  *)
WaitReturns == [](pc["waiter"] = "waiting" /\ Stopped => <>(pc["waiter"] # "waiting"))

=============================================================================
