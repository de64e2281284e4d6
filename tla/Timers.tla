------------------------------- MODULE Timers -------------------------------
(***************************************************************************)
(* The timer facility of src/timers.c, on the intrusive lists of           *)
(* src/sets.c: pr_timer_add, pr_timer_remove and pr_timer_reset, the       *)
(* SIGALRM handler, handle_alarm, the pass process_timers makes over the   *)
(* lists with the callbacks it runs, alarm blocking, and pr_timer_sleep.   *)
(*                                                                         *)
(* Time is relative: every clock value the code keeps is modelled by its   *)
(* age in seconds, which saturates at MaxLag.  No timer is longer than     *)
(* MaxLag, so an elapsed time of MaxLag or more expires every timer and    *)
(* the saturation loses nothing.                                           *)
(***************************************************************************)
EXTENDS Integers, Sequences, SequencesExt

CONSTANTS
    MaxTimers,     \* bound: timer structs ever allocated from timer_pool
    Seconds,       \* the intervals pr_timer_add is called with
    Ids,           \* static timer numbers, such as PR_TIMER_IDLE
    Modules,       \* owners of timers
    NoModule,      \* a NULL module: sleep timers belong to it
    AlarmCap,      \* longest alarm(2) the code asks for; 5 in timers.c
    MaxLag,        \* bound: where ages saturate
    MaxBlock,      \* bound: nesting of pr_alarms_block by the program
    SlowCode,      \* where in the code (values of pc) time may pass
    PallocPrev     \* what palloc may leave in a new struct's prev pointer

Never == -1        \* _alarmed_time = 0
NoAlarm == -1      \* no alarm(2) outstanding
Dynamic == -1      \* stands for any number from dynamic_timerno
Slots == 1..MaxTimers

(* Where the process is.  "run" and "callback" are code outside timers.c. *)
PCs == {"run", "remove_all", "drain", "loop", "callback", "finish",
        "sleep_check", "suspend", "woken", "corrupt"}

ASSUME TimersAssumption ==
    /\ MaxTimers \in Nat \ {0}
    /\ AlarmCap \in Nat \ {0}
    /\ MaxLag \in Nat \ {0}
    /\ MaxBlock \in Nat
    /\ Seconds \subseteq 1..MaxLag
    /\ Ids \subseteq Nat
    /\ NoModule \notin Modules
    /\ SlowCode \subseteq PCs
    /\ PallocPrev \subseteq {"null", "junk"}

VARIABLES
    tm,               \* the structs: struct timer
    timers,           \* main list, kept sorted by count
    recycled,         \* restarted, reset or added during a pass
    free_timers,      \* structs for reuse
    fresh,            \* how many structs have been allocated
    alarms_blocked,
    alarm_pending,    \* alarm_pending # 0
    nalarms,          \* nalarms # 0
    recvd_alrm,       \* RECEIVED_SIG_ALRM is in recvd_signal_flags
    in_dispatch,      \* _indispatch
    alarm,            \* seconds left on alarm(2); 0 is due
    current_timeout,
    total_time,
    alarmed,          \* age of _alarmed_time
    elapsed,          \* the argument of the current process_timers
    todo,             \* structs the pass has yet to visit: next, next->next...
    cur,              \* the struct whose callback runs
    frames,           \* ages of the "now" of each handle_alarm activation
    sleeping,         \* inside pr_timer_sleep
    sleep_sem,        \* _sleep_sem # 0
    rmod,             \* module of a pr_timer_remove(-1, mod) in progress
    pc,               \* where the process is
    gone,             \* history: structs successfully removed by a caller
    lived             \* history: age of each timer's last add or reset

lists == <<tm, timers, recycled, free_timers, fresh>>
signals == <<alarms_blocked, alarm_pending, nalarms, recvd_alrm>>
clock == <<alarm, current_timeout, total_time, alarmed>>
pass == <<in_dispatch, elapsed, todo, cur, frames>>
sleep == <<sleeping, sleep_sem>>
history == <<gone, lived>>
vars == <<lists, signals, clock, pass, sleep, rmod, pc, history>>

TimerRec == [timerno : Ids \cup {Dynamic}, mod : Modules \cup {NoModule},
             count : Int, interval : Int, remove : BOOLEAN,
             cb : {"user", "sleep_cb"}, prev : {"null", "junk"}]

Sat(n) == IF n > MaxLag THEN MaxLag ELSE n

(* Is t a member of the list? *)
Member(list, t) == \E i \in 1..Len(list) : list[i] = t

(* xaset_insert: at the beginning. *)
xaset_insert(list, t) == <<t>> \o list

(* xaset_remove: unlink t, where the list holds it. *)
xaset_remove(list, t) ==
    IF Member(list, t)
    THEN RemoveAt(list, CHOOSE i \in 1..Len(list) : list[i] = t)
    ELSE list

(* timer_cmp and xaset_insert_sort: before the first member that is not    *)
(* smaller; duplicates are allowed.                                        *)
SortPosition(list, t, rec) ==
    CHOOSE i \in 1..(Len(list) + 1) :
        /\ \A j \in 1..(i - 1) : rec[t].count > rec[list[j]].count
        /\ i <= Len(list) => rec[t].count <= rec[list[i]].count

(* Mutant: xaset_insert used where xaset_insert_sort is needed. *)
InsertUnsorted(list, t, rec) == <<t>> \o list

xaset_insert_sort(list, t, rec) == InsertAt(list, SortPosition(list, t, rec), t)

(* The proposed next timeout: the first timer's count, capped.             *)
NextTimeout ==
    IF timers = <<>> THEN 0
    ELSE IF tm[timers[1]].count > AlarmCap THEN AlarmCap
    ELSE tm[timers[1]].count

Init ==
    /\ tm = [t \in Slots |-> [timerno |-> Dynamic, mod |-> NoModule,
                              count |-> 0, interval |-> 0, remove |-> FALSE,
                              cb |-> "user", prev |-> "null"]]
    /\ timers = <<>> /\ recycled = <<>> /\ free_timers = <<>> /\ fresh = 0
    /\ alarms_blocked = 0 /\ alarm_pending = FALSE
    /\ nalarms = FALSE /\ recvd_alrm = FALSE
    /\ in_dispatch = 0
    /\ alarm = NoAlarm /\ current_timeout = 0 /\ total_time = 0
    /\ alarmed = Never
    /\ elapsed = 0 /\ todo = <<>> /\ cur = 1 /\ frames = <<>>
    /\ sleeping = FALSE /\ sleep_sem = FALSE
    /\ rmod = NoModule
    /\ pc = "run"
    /\ gone = {} /\ lived = [t \in Slots |-> 0]
-----------------------------------------------------------------------------
(***************************************************************************)
(* Time and the SIGALRM handler.                                           *)
(***************************************************************************)

(* A second passes. *)
Tick ==
    /\ pc \in SlowCode
    /\ alarm' = IF alarm > 0 THEN alarm - 1 ELSE alarm
    /\ alarmed' = IF alarmed = Never THEN Never ELSE Sat(alarmed + 1)
    /\ frames' = [i \in 1..Len(frames) |-> Sat(frames[i] + 1)]
    /\ lived' = [t \in Slots |->
                   IF Member(timers, t) \/ Member(recycled, t)
                   THEN Sat(lived[t] + 1) ELSE 0]
    /\ UNCHANGED <<lists, signals, current_timeout, total_time, in_dispatch,
                   elapsed, todo, cur, sleep, rmod, pc, gone>>

(* The alarm sig_alarm asks for: the same again. *)
NoRearm == 0   \* mutant: the handler does not reset the alarm
RearmTimeout == current_timeout

(* sig_alarm, at any point of the program; it wakes a sigsuspend.          *)
sig_alarm ==
    /\ alarm = 0
    /\ pc # "corrupt"
    /\ recvd_alrm' = TRUE
    /\ nalarms' = TRUE
    /\ total_time' = Sat(total_time + current_timeout)
    /\ IF RearmTimeout > 0
       THEN alarmed' = 0 /\ alarm' = RearmTimeout
       ELSE alarm' = NoAlarm /\ UNCHANGED alarmed
    /\ pc' = IF pc = "suspend" THEN "woken" ELSE pc
    /\ UNCHANGED <<lists, alarms_blocked, alarm_pending, current_timeout,
                   pass, sleep, rmod, history>>
-----------------------------------------------------------------------------
(***************************************************************************)
(* handle_alarm and process_timers.                                        *)
(***************************************************************************)

(* handle_alarm entered with nalarms set: with alarms blocked it leaves    *)
(* alarm_pending behind, otherwise it goes on to drain the clock.          *)
IgnoreBlocked(here) ==   \* mutant: alarms_blocked is not tested
    nalarms' = FALSE /\ pc' = "drain" /\ UNCHANGED alarm_pending

EnterHandleAlarm(here) ==
    /\ nalarms' = FALSE
    /\ IF alarms_blocked > 0
       THEN alarm_pending' = TRUE /\ pc' = here
       ELSE pc' = "drain" /\ UNCHANGED alarm_pending

(* The end of a list operation outside a pass: nalarms++, handle_alarm     *)
(* under pr_alarms_block, then pr_alarms_unblock, which enters             *)
(* handle_alarm again when nobody else blocks alarms.                      *)
Readjust ==
    /\ nalarms' = FALSE
    /\ IF alarms_blocked = 0
       THEN alarm_pending' = FALSE /\ pc' = "drain"
       ELSE alarm_pending' = TRUE /\ pc' = "run"

(* alarm(0), time(&now), and the entry of process_timers.                  *)
ElapsedTime == Sat(total_time + (IF alarmed = Never THEN 0 ELSE alarmed))

BeginPass ==
    /\ pc = "drain"
    /\ alarm' = NoAlarm
    /\ total_time' = 0
    /\ frames' = <<0>> \o frames
    /\ IF ElapsedTime = 0 /\ recycled = <<>>
       THEN pc' = "finish" /\ UNCHANGED <<alarms_blocked, in_dispatch, elapsed, todo>>
       ELSE /\ pc' = "loop"
            /\ alarms_blocked' = alarms_blocked + 1
            /\ in_dispatch' = in_dispatch + 1
            /\ elapsed' = ElapsedTime
            /\ todo' = IF ElapsedTime > 0 THEN timers ELSE <<>>
    /\ UNCHANGED <<lists, alarm_pending, nalarms, recvd_alrm, current_timeout,
                   alarmed, cur, sleep, rmod, history>>

(* Was the struct removed by an earlier callback? *)
NeverMarked(t) == FALSE   \* mutant: t->remove is not tested
Marked(t) == tm[t].remove

(* One struct of the loop: freed when marked, else aged; when its time is  *)
(* up its callback starts.  sleep_cb is executed on the spot.              *)
VisitTimer ==
    /\ pc = "loop" /\ todo # <<>>
    /\ todo' = Tail(todo)
    /\ LET t == Head(todo)
           left == tm[t].count - elapsed
       IN \/ /\ Marked(t)
             /\ timers' = xaset_remove(timers, t)
             /\ free_timers' = xaset_insert(free_timers, t)
             /\ UNCHANGED <<tm, cur, pc, sleep_sem>>
          \/ /\ ~Marked(t) /\ left > 0
             /\ tm' = [tm EXCEPT ![t].count = left]
             /\ UNCHANGED <<timers, free_timers, cur, pc, sleep_sem>>
          \/ /\ ~Marked(t) /\ left <= 0 /\ tm[t].cb = "sleep_cb"
             /\ tm' = [tm EXCEPT ![t].count = left]
             /\ timers' = xaset_remove(timers, t)
             /\ free_timers' = xaset_insert(free_timers, t)
             /\ sleep_sem' = TRUE
             /\ UNCHANGED <<cur, pc>>
          \/ /\ ~Marked(t) /\ left <= 0 /\ tm[t].cb = "user"
             /\ tm' = [tm EXCEPT ![t].count = left]
             /\ cur' = t
             /\ pc' = "callback"
             /\ UNCHANGED <<timers, free_timers, sleep_sem>>
    /\ UNCHANGED <<recycled, fresh, signals, clock, in_dispatch, elapsed,
                   frames, sleeping, rmod, history>>

(* The callback returns 0: the timer is done.  Otherwise it is restarted.  *)
CallbackDone ==
    /\ pc = "callback"
    /\ timers' = xaset_remove(timers, cur)
    /\ free_timers' = xaset_insert(free_timers, cur)
    /\ pc' = "loop"
    /\ UNCHANGED <<tm, recycled, fresh, signals, clock, pass, sleep, rmod, history>>

CallbackRestart ==
    /\ pc = "callback"
    /\ timers' = xaset_remove(timers, cur)
    /\ tm' = [tm EXCEPT ![cur].count = tm[cur].interval]
    /\ recycled' = xaset_insert(recycled, cur)
    /\ lived' = [lived EXCEPT ![cur] = 0]
    /\ pc' = "loop"
    /\ UNCHANGED <<free_timers, fresh, signals, clock, pass, sleep, rmod, gone>>

(* Put the head of recycled back.  xaset_remove follows the prev pointer   *)
(* of the struct; xaset_insert never set it, so one that palloc left with  *)
(* junk is dereferenced.  The structs behind the head had theirs written   *)
(* when the next one was inserted, and get the head's on its removal.      *)
PrevWritten(list) ==
    [t \in Slots |-> IF Member(list, t) THEN [tm[t] EXCEPT !.prev = "null"]
                     ELSE tm[t]]

Resplice ==
    /\ pc = "loop" /\ todo = <<>> /\ recycled # <<>>
    /\ LET t == Head(recycled)
       IN IF tm[t].prev = "junk"
          THEN pc' = "corrupt" /\ UNCHANGED <<tm, timers, recycled>>
          ELSE /\ recycled' = Tail(recycled)
               /\ timers' = xaset_insert_sort(timers, t, tm)
               /\ tm' = PrevWritten(Tail(recycled))
               /\ UNCHANGED pc
    /\ UNCHANGED <<free_timers, fresh, signals, clock, pass, sleep, rmod,
                   history>>

(* _indispatch--, pr_alarms_unblock: a handle_alarm that came in meanwhile *)
(* is served before this one returns.                                      *)
EndPass ==
    /\ pc = "loop" /\ todo = <<>> /\ recycled = <<>>
    /\ in_dispatch' = in_dispatch - 1
    /\ alarms_blocked' = alarms_blocked - 1
    /\ IF alarms_blocked = 1 /\ alarm_pending
       THEN alarm_pending' = FALSE /\ nalarms' = FALSE /\ pc' = "drain"
       ELSE pc' = "finish" /\ UNCHANGED <<alarm_pending, nalarms>>
    /\ elapsed' = 0
    /\ UNCHANGED <<lists, recvd_alrm, clock, todo, cur, frames, sleep, rmod,
                   history>>

(* process_timers returns; handle_alarm notes its "now", sets the next     *)
(* alarm and goes round again if a signal came in.  When this activation   *)
(* was nested in another one, that one's process_timers returns next.      *)
NextAlarmOff == NoAlarm   \* mutant: the next alarm is not requested
NextAlarm == IF NextTimeout > 0 THEN NextTimeout ELSE NoAlarm

FinishPass ==
    /\ pc = "finish"
    /\ alarmed' = Head(frames)
    /\ frames' = Tail(frames)
    /\ current_timeout' = NextTimeout
    /\ alarm' = NextAlarm
    /\ nalarms' = FALSE
    /\ pc' = IF nalarms THEN "drain"
             ELSE IF Tail(frames) # <<>> THEN "finish"
             ELSE IF sleeping THEN "sleep_check" ELSE "run"
    /\ UNCHANGED <<lists, alarms_blocked, alarm_pending, recvd_alrm,
                   total_time, in_dispatch, elapsed, todo, cur, sleep, rmod,
                   history>>
-----------------------------------------------------------------------------
(***************************************************************************)
(* The interface, called by the program and by callbacks.                  *)
(***************************************************************************)

(* pr_signals_handle, for SIGALRM. *)
HandleSignals ==
    /\ pc \in {"run", "callback"}
    /\ recvd_alrm
    /\ recvd_alrm' = FALSE
    /\ IF nalarms THEN EnterHandleAlarm(pc)
       ELSE UNCHANGED <<nalarms, alarm_pending, pc>>
    /\ UNCHANGED <<lists, alarms_blocked, clock, pass, sleep, rmod, history>>

(* The struct a new timer uses: the head of free_timers, else a new one.   *)
TakeStruct(t, prev) ==
    \/ /\ free_timers # <<>> /\ t = Head(free_timers) /\ prev = "null"
       /\ free_timers' = Tail(free_timers)
       /\ UNCHANGED fresh
    \/ /\ free_timers = <<>> /\ fresh < MaxTimers /\ t = fresh + 1
       /\ prev \in PallocPrev
       /\ fresh' = t
       /\ UNCHANGED free_timers

NewTimer(id, seconds, m, cb, prev) ==
    [timerno |-> id, mod |-> m, count |-> seconds, interval |-> seconds,
     remove |-> FALSE, cb |-> cb, prev |-> prev]

(* A static number must not be that of a timer in the main list.           *)
InUse(id) == id # Dynamic /\ \E i \in 1..Len(timers) : tm[timers[i]].timerno = id

(* pr_timer_add from the program: xaset_insert_sort sets prev.             *)
AddTimer(id, seconds, m, cb) ==
    /\ ~InUse(id)
    /\ \E t \in Slots, prev \in {"null", "junk"} :
          /\ TakeStruct(t, prev)
          /\ tm' = [tm EXCEPT ![t] = NewTimer(id, seconds, m, cb, "null")]
          /\ timers' = xaset_insert_sort(timers, t, tm')
          /\ gone' = gone \ {t}
          /\ lived' = [lived EXCEPT ![t] = 0]
    /\ Readjust
    /\ UNCHANGED <<recycled, alarms_blocked, recvd_alrm, clock, pass, rmod>>

pr_timer_add ==
    /\ pc = "run"
    /\ \E id \in Ids \cup {Dynamic}, s \in Seconds, m \in Modules :
          AddTimer(id, s, m, "user")
    /\ UNCHANGED sleep

(* pr_timer_add from a callback: onto recycled, to keep the lists sound.   *)
pr_timer_add_in_dispatch ==
    /\ pc = "callback"
    /\ \E id \in Ids \cup {Dynamic}, s \in Seconds, m \in Modules :
       /\ ~InUse(id)
       /\ \E t \in Slots, prev \in {"null", "junk"} :
          /\ TakeStruct(t, prev)
          /\ tm' = [tm EXCEPT ![t] = NewTimer(id, s, m, "user", prev)]
          /\ recycled' = xaset_insert(recycled, t)
          /\ gone' = gone \ {t}
          /\ lived' = [lived EXCEPT ![t] = 0]
    /\ UNCHANGED <<timers, signals, clock, pass, sleep, rmod, pc>>

(* The first timer of the main list that a caller's number and module name.*)
FirstMatch(match, t) ==
    \E i \in 1..Len(timers) :
        /\ t = timers[i] /\ t \in match
        /\ \A j \in 1..(i - 1) : timers[j] \notin match

(* pr_timer_reset(id, ANY_MODULE); in a callback it refuses with EINTR.    *)
pr_timer_reset ==
    /\ pc = "run"
    /\ \E id \in Ids, t \in Slots :
          /\ FirstMatch({u \in Slots : tm[u].timerno = id}, t)
          /\ tm' = [tm EXCEPT ![t].count = tm[t].interval]
          /\ timers' = xaset_remove(timers, t)
          /\ recycled' = xaset_insert(recycled, t)
          /\ lived' = [lived EXCEPT ![t] = 0]
    /\ Readjust
    /\ UNCHANGED <<free_timers, fresh, alarms_blocked, recvd_alrm, clock, pass,
                   sleep, rmod, gone>>

(* pr_timer_remove(id, ANY_MODULE) from the program. *)
pr_timer_remove ==
    /\ pc = "run"
    /\ \E id \in Ids, t \in Slots :
          /\ FirstMatch({u \in Slots : tm[u].timerno = id}, t)
          /\ timers' = xaset_remove(timers, t)
          /\ free_timers' = xaset_insert(free_timers, t)
          /\ gone' = gone \cup {t}
    /\ Readjust
    /\ UNCHANGED <<tm, recycled, fresh, alarms_blocked, recvd_alrm, clock, pass,
                   sleep, rmod, lived>>

(* pr_timer_remove(id, ANY_MODULE) from a callback only marks the struct.  *)
RemoveAtOnce ==   \* mutant: the removal is not deferred to the loop
    /\ pc = "callback"
    /\ \E id \in Ids, t \in Slots :
          /\ FirstMatch({u \in Slots : tm[u].timerno = id}, t)
          /\ timers' = xaset_remove(timers, t)
          /\ free_timers' = xaset_insert(free_timers, t)
          /\ gone' = gone \cup {t}
    /\ UNCHANGED <<tm, recycled, fresh, signals, clock, pass, sleep, rmod, pc,
                   lived>>

pr_timer_remove_in_dispatch ==
    /\ pc = "callback"
    /\ \E id \in Ids, t \in Slots :
          /\ FirstMatch({u \in Slots : tm[u].timerno = id}, t)
          /\ tm' = [tm EXCEPT ![t].remove = TRUE]
          /\ gone' = gone \cup {t}
    /\ UNCHANGED <<timers, recycled, free_timers, fresh, signals, clock, pass,
                   sleep, rmod, pc, lived>>

(* pr_timer_remove(-1, m), as when module m is unloaded: one struct of m   *)
(* after the other, alarms blocked, and pr_alarms_unblock at the end.      *)
Block == alarms_blocked + 1

RemoveModuleBegin ==
    /\ pc = "run"
    /\ \E m \in Modules : rmod' = m
    /\ alarms_blocked' = Block
    /\ pc' = "remove_all"
    /\ UNCHANGED <<lists, alarm_pending, nalarms, recvd_alrm, clock, pass,
                   sleep, history>>

RemoveModuleTimer ==
    /\ pc = "remove_all"
    /\ \E t \in Slots :
          /\ FirstMatch({u \in Slots : tm[u].mod = rmod}, t)
          /\ timers' = xaset_remove(timers, t)
          /\ free_timers' = xaset_insert(free_timers, t)
          /\ gone' = gone \cup {t}
    /\ nalarms' = FALSE
    /\ alarm_pending' = TRUE
    /\ UNCHANGED <<tm, recycled, fresh, alarms_blocked, recvd_alrm, clock,
                   pass, sleep, rmod, pc, lived>>

(* pr_alarms_unblock, and what it does with a pending alarm. *)
Unblock ==
    /\ alarms_blocked' = alarms_blocked - 1
    /\ IF alarms_blocked = 1 /\ alarm_pending
       THEN alarm_pending' = FALSE /\ nalarms' = FALSE /\ pc' = "drain"
       ELSE pc' = "run" /\ UNCHANGED <<alarm_pending, nalarms>>

RemoveModuleEnd ==
    /\ pc = "remove_all"
    /\ \A i \in 1..Len(timers) : tm[timers[i]].mod # rmod
    /\ Unblock
    /\ rmod' = NoModule
    /\ UNCHANGED <<lists, recvd_alrm, clock, pass, sleep, history>>

(* The same from a callback: every match is marked. *)
RemoveModuleInDispatch ==
    /\ pc = "callback"
    /\ \E m \in Modules :
       LET hit == {t \in Slots : tm[t].mod = m /\ Member(timers, t)}
       IN /\ hit # {}
          /\ tm' = [t \in Slots |-> IF t \in hit THEN [tm[t] EXCEPT !.remove = TRUE]
                                    ELSE tm[t]]
          /\ gone' = gone \cup hit
    /\ UNCHANGED <<timers, recycled, free_timers, fresh, signals, clock, pass,
                   sleep, rmod, pc, lived>>

pr_alarms_block ==
    /\ pc = "run"
    /\ alarms_blocked < MaxBlock
    /\ alarms_blocked' = Block
    /\ UNCHANGED <<lists, alarm_pending, nalarms, recvd_alrm, clock, pass,
                   sleep, rmod, pc, history>>

pr_alarms_unblock ==
    /\ pc = "run"
    /\ alarms_blocked > 0
    /\ Unblock
    /\ UNCHANGED <<lists, recvd_alrm, clock, pass, sleep, rmod, history>>

(* pr_timer_sleep: EPERM while alarms are blocked or in a callback. *)
pr_timer_sleep ==
    /\ pc = "run"
    /\ alarms_blocked = 0
    /\ \E s \in Seconds : AddTimer(Dynamic, s, NoModule, "sleep_cb")
    /\ sleeping' = TRUE
    /\ sleep_sem' = FALSE

(* while (!_sleep_sem) { sigsuspend(); handle_alarm(); }                   *)
SleepCheck ==
    /\ pc = "sleep_check"
    /\ IF sleep_sem
       THEN pc' = "run" /\ sleeping' = FALSE
       ELSE pc' = "suspend" /\ UNCHANGED sleeping
    /\ UNCHANGED <<lists, signals, clock, pass, sleep_sem, rmod, history>>

SleepWoken ==
    /\ pc = "woken"
    /\ EnterHandleAlarm("sleep_check")
    /\ UNCHANGED <<lists, alarms_blocked, recvd_alrm, clock, pass, sleep, rmod,
                   history>>

(* timers_init in a session process, just forked: it inherits neither the  *)
(* parent's alarm(2) nor its timers.                                       *)
timers_init ==
    /\ pc = "run"
    /\ alarms_blocked = 0
    /\ timers' = <<>> /\ recycled' = <<>> /\ free_timers' = <<>> /\ fresh' = 0
    /\ nalarms' = FALSE
    /\ alarm' = NoAlarm /\ current_timeout' = 0 /\ total_time' = 0
    /\ alarmed' = Never
    /\ gone' = {}
    /\ UNCHANGED <<tm, alarms_blocked, alarm_pending, recvd_alrm, pass, sleep,
                   rmod, pc, lived>>
-----------------------------------------------------------------------------
(* What the program runs to completion once it has started. *)
Internal ==
    \/ BeginPass \/ VisitTimer \/ CallbackDone \/ CallbackRestart \/ Resplice
    \/ EndPass \/ FinishPass \/ RemoveModuleTimer \/ RemoveModuleEnd
    \/ SleepCheck \/ SleepWoken

Interface ==
    \/ HandleSignals \/ pr_timer_add \/ pr_timer_add_in_dispatch
    \/ pr_timer_reset \/ pr_timer_remove \/ pr_timer_remove_in_dispatch
    \/ RemoveModuleBegin \/ RemoveModuleInDispatch
    \/ pr_alarms_block \/ pr_alarms_unblock \/ pr_timer_sleep \/ timers_init

Next == Tick \/ sig_alarm \/ Internal \/ Interface

Spec == Init /\ [][Next]_vars

(***************************************************************************)
(* Time passes, the kernel delivers a due SIGALRM, the code runs on, and   *)
(* the program keeps calling pr_signals_handle and leaves its critical     *)
(* sections.                                                               *)
(***************************************************************************)
Fairness ==
    /\ SF_vars(Tick) /\ WF_vars(sig_alarm)
    /\ WF_vars(Internal)
    /\ SF_vars(HandleSignals) /\ WF_vars(pr_alarms_unblock)

FairSpec == Spec /\ Fairness
-----------------------------------------------------------------------------
(***************************************************************************)
(* Properties.                                                             *)
(***************************************************************************)

(* The variables hold values of the kinds the C declarations and their     *)
(* uses allow: alarms_blocked and _indispatch never fall below zero, and   *)
(* every list holds allocated structs.                                     *)
TypeLists ==
    /\ tm \in [Slots -> TimerRec]
    /\ timers \in Seq(Slots) /\ recycled \in Seq(Slots)
    /\ free_timers \in Seq(Slots) /\ fresh \in 0..MaxTimers
    /\ gone \subseteq Slots /\ lived \in [Slots -> Int]
TypeSignals ==
    /\ alarms_blocked \in Nat /\ alarm_pending \in BOOLEAN
    /\ nalarms \in BOOLEAN /\ recvd_alrm \in BOOLEAN
TypeClock ==
    /\ alarm \in Int /\ current_timeout \in Int
    /\ total_time \in Int /\ alarmed \in Int
TypePass ==
    /\ in_dispatch \in Nat /\ elapsed \in Int
    /\ todo \in Seq(Slots) /\ cur \in Slots /\ frames \in Seq(Int)
TypeControl ==
    /\ sleeping \in BOOLEAN /\ sleep_sem \in BOOLEAN
    /\ rmod \in Modules \cup {NoModule}
    /\ pc \in PCs
TypeOK == TypeLists /\ TypeSignals /\ TypeClock /\ TypePass /\ TypeControl

Distinct(list) == \A i, j \in 1..Len(list) : list[i] = list[j] => i = j
Disjoint(l1, l2) == \A t \in Slots : ~(Member(l1, t) /\ Member(l2, t))

(* List integrity: whatever callbacks add, remove or restart during a pass *)
(* (timers.c keeps next, defers removals and adds to recycled for this),   *)
(* a struct is on at most one of timers, recycled and free_timers, once.   *)
OneList ==
    /\ Distinct(timers) /\ Distinct(recycled) /\ Distinct(free_timers)
    /\ Disjoint(timers, recycled) /\ Disjoint(timers, free_timers)
    /\ Disjoint(recycled, free_timers)

(* The structs still to be visited by process_timers are on the main list, *)
(* each once, and so is the one whose callback runs, until it returns: the *)
(* saved next pointers stay valid whatever the callbacks do.               *)
PassOnTrack ==
    /\ pc = "callback" => Member(timers, cur) /\ ~Member(todo, cur)
    /\ pc \in {"loop", "callback"} =>
          /\ Distinct(todo)
          /\ \A t \in Slots : Member(todo, t) => Member(timers, t)

(* Critical sections: a pass never starts inside another one, although     *)
(* pr_alarms_unblock calls handle_alarm from within process_timers, and no *)
(* callback runs while the program has alarms blocked; alarm_pending is    *)
(* set only for as long as somebody will unblock and serve it.             *)
PassExcluded ==
    /\ in_dispatch = IF pc \in {"loop", "callback", "corrupt"} THEN 1 ELSE 0
    /\ pc \in {"loop", "callback"} => alarms_blocked = 1
    /\ pc \in {"drain", "finish", "suspend", "sleep_check", "woken"} =>
          alarms_blocked = 0
    /\ pc = "remove_all" => alarms_blocked > 0
    /\ alarm_pending => alarms_blocked > 0

(* No lost wakeup: whenever the program runs outside timer code and no     *)
(* handle_alarm is pending, alarm(2) is set, if there is a timer, and not  *)
(* beyond the end of any: the code looks at the head of the list only, so  *)
(* the list must be sorted after everything a pass did to it.  And reset   *)
(* timers do not stay on recycled.                                         *)
AlarmSet ==
    pc \in {"run", "sleep_check", "suspend"} /\ ~alarm_pending =>
        /\ recycled = <<>>
        /\ timers # <<>> => alarm # NoAlarm
        /\ \A i \in 1..Len(timers) : current_timeout <= tm[timers[i]].count

(* Supporting facts: list members have been allocated, a removed timer     *)
(* that is still on a list is marked, and a pass has its frame.            *)
Allocated ==
    \A t \in Slots :
        Member(timers, t) \/ Member(recycled, t) \/ Member(free_timers, t) => t <= fresh

GoneMarked ==
    \A t \in gone : Member(timers, t) \/ Member(recycled, t) => tm[t].remove

HasFrame == pc \in {"loop", "callback", "finish"} => frames # <<>>

(* The inductive invariant. *)
IInv ==
    /\ TypeOK /\ OneList /\ PassOnTrack /\ PassExcluded
    /\ Allocated /\ GoneMarked /\ HasFrame

(***************************************************************************)
(* Why AlarmSet holds.  What is left of each timer, once the pass that is  *)
(* going on has subtracted the elapsed time from those it has yet to       *)
(* visit, orders the main list; every timer that is not just being invoked *)
(* has time left; recycled is emptied by a pass that is going on or will   *)
(* be made; and whenever neither is the case the alarm covers every timer. *)
(***************************************************************************)
Remaining == [t \in Slots |-> tm[t].count - (IF Member(todo, t) THEN elapsed ELSE 0)]
Sorted(list, left) ==
    \A i, j \in 1..Len(list) : i < j => left[list[i]] <= left[list[j]]

TimersSorted == Sorted(timers, Remaining)

TimeLeft ==
    \A t \in Slots :
        /\ Member(timers, t) \/ Member(recycled, t) => tm[t].interval > 0
        /\ Member(timers, t) => tm[t].count > 0 \/ (pc = "callback" /\ t = cur)
        /\ Member(recycled, t) => tm[t].count > 0

PassComes ==
    /\ todo # <<>> => pc \in {"loop", "callback"}
    /\ recycled # <<>> => alarm_pending \/ pc \in {"drain", "loop", "callback", "corrupt"}

Covered ==
    pc \in {"run", "remove_all", "sleep_check", "suspend", "woken"} /\ ~alarm_pending =>
        \A t \in Slots : Member(timers, t) =>
            /\ alarm # NoAlarm
            /\ 0 < current_timeout /\ current_timeout <= tm[t].count

AlarmInv == TimersSorted /\ TimeLeft /\ PassComes /\ Covered

(* A timer that pr_timer_remove has reported as removed never has its      *)
(* callback invoked again, even when it was removed in the middle of the   *)
(* pass that would have invoked it.                                        *)
RemovedNeverRuns ==
    [][pc # "callback" /\ pc' = "callback" => cur' \notin gone]_vars

(* pr_timer_sleep returns: sig_alarm may run between the test of           *)
(* _sleep_sem and sigsuspend, but it re-arms the alarm.                    *)
SleepReturns == sleeping ~> ~sleeping

(* A timer that stays scheduled and is not reset is eventually invoked.    *)
TimerRuns ==
    \A t \in Slots :
        Member(timers, t) /\ t \notin gone ~>
            \/ pc = "callback" /\ cur = t
            \/ t \in gone \/ lived[t] = 0
            \/ ~Member(timers, t)

-----------------------------------------------------------------------------
(***************************************************************************)
(* What the documentation or a comment says and the code does not keep;    *)
(* README.md has the behaviours that show it.                              *)
(***************************************************************************)

(* include/timers.h: "Schedule a timer for the given amount of seconds":   *)
(* a callback is not invoked before that many seconds have passed since    *)
(* the timer was added, reset or restarted.                                *)
NotEarly == pc = "callback" => lived[cur] >= tm[cur].interval

(* include/timers.h: "The timerno argument specifies a unique ID for the   *)
(* scheduled timer", and pr_timer_add: "Check to see that, if specified,   *)
(* the timerno is not already in use".                                     *)
UniqueTimerno ==
    LET live == {t \in Slots : Member(timers, t) \/ Member(recycled, t)}
    IN \A t, u \in live :
           tm[t].timerno = tm[u].timerno /\ tm[t].timerno # Dynamic => t = u

(* pr_timer_add: "If called while _indispatch, add to the recycled list to *)
(* prevent list corruption".                                               *)
NoListCorruption == pc # "corrupt"
=============================================================================
