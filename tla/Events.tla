------------------------------- MODULE Events -------------------------------
(***************************************************************************)
(* The event facility of src/event.c: lists of handlers per event, doubly  *)
(* linked, that modules register with and unregister from at any time,     *)
(* also from within a handler, and the dispatch loop of pr_event_generate, *)
(* which handlers may enter again.                                         *)
(*                                                                         *)
(* The pointers are modelled as they are written: unlinked structs stay in *)
(* the event pool, and the dispatch loop follows their next pointers.      *)
(***************************************************************************)
EXTENDS Integers, Sequences, FiniteSets

CONSTANTS
    Names,          \* event names
    Callbacks,      \* handler functions
    Core,           \* those of the core, registered with a NULL module
    MaxHandlers,    \* bound: structs ever allocated from event_pool
    MaxDepth        \* bound: nesting of pr_event_generate

Null == 0
NoName == "no event"    \* curr_event = NULL
NoModule == "no module" \* module = NULL
Slots == 1..MaxHandlers

ASSUME EventsAssumption ==
    /\ MaxHandlers \in Nat /\ MaxDepth \in Nat
    /\ Core \subseteq Callbacks
    /\ NoName \notin Names

VARIABLES
    next, prev,     \* links of each struct event_handler
    cb,             \* its callback
    module,         \* its module; a module is named by its callback
    name,           \* the event whose list it was put on
    used,           \* number of structs allocated
    listed,         \* events that have a struct event_list
    handlers,       \* evl->handlers
    curr_event,     \* the cache: event, and the listener to go on with
    curr_evh,
    frames,         \* active calls of pr_event_generate, innermost first
    registered,     \* history: <<event, callback>> registered and not
                    \* unregistered, as the return values told the callers
    in_order        \* history: only heads of lists were ever unregistered

links == <<next, prev, cb, module, name, used, listed, handlers>>
cache == <<curr_event, curr_evh>>
history == <<registered, in_order>>
vars == <<links, cache, frames, history>>

(* An activation: its event, the struct whose callback runs, and (history) *)
(* the structs it still owes the event to.                                 *)
Frame == [event : Names, evh : Slots, due : SUBSET Slots]

Init ==
    /\ next = [s \in Slots |-> Null] /\ prev = [s \in Slots |-> Null]
    /\ cb = [s \in Slots |-> NoModule] /\ module = [s \in Slots |-> NoModule]
    /\ name = [s \in Slots |-> NoName]
    /\ used = 0
    /\ listed = {} /\ handlers = [e \in Names |-> Null]
    /\ curr_event = NoName /\ curr_evh = Null
    /\ frames = <<>>
    /\ registered = {} /\ in_order = TRUE

(* The struct n links after the given one. *)
After(s) == IF s = Null THEN Null ELSE next[s]

Walk(start) ==
    LET w[n \in 0..MaxHandlers] == IF n = 0 THEN start ELSE After(w[n - 1])
    IN w

(* The structs on the list that starts there. *)
Linked(start) == {Walk(start)[n] : n \in 0..MaxHandlers} \ {Null}

Last(start) == CHOOSE s \in Linked(start) : next[s] = Null

Uncached == curr_event' = NoName /\ curr_evh' = Null
-----------------------------------------------------------------------------
(***************************************************************************)
(* pr_event_register.                                                      *)
(***************************************************************************)

(* Is the callback on the list already? *)
Duplicate(c, e) == \E s \in Linked(handlers[e]) : cb[s] = c

(* A module's handler goes to the start of a non-empty list.  The prev     *)
(* pointer written is that of the second struct, not of the first.         *)
AtStart(s, e) ==
    LET first == handlers[e]
    IN /\ prev' = IF next[first] # Null THEN [prev EXCEPT ![next[first]] = s]
                  ELSE prev
       /\ next' = [next EXCEPT ![s] = first]
       /\ handlers' = [handlers EXCEPT ![e] = s]

(* A handler of the core goes to the end. *)
AtEnd(s, e) ==
    LET last == Last(handlers[e])
    IN /\ next' = [next EXCEPT ![last] = s]
       /\ prev' = [prev EXCEPT ![s] = last]
       /\ UNCHANGED handlers

AddAtStart(c, s, e) == AtStart(s, e)   \* mutant: the core's handlers too
AddToList(c, s, e) == IF c \in Core THEN AtEnd(s, e) ELSE AtStart(s, e)

pr_event_register(c, e) ==
    /\ used < MaxHandlers
    /\ ~Duplicate(c, e)
    /\ LET s == used + 1
       IN /\ used' = s
          /\ cb' = [cb EXCEPT ![s] = c]
          /\ module' = [module EXCEPT ![s] = IF c \in Core THEN NoModule ELSE c]
          /\ name' = [name EXCEPT ![s] = e]
          /\ IF handlers[e] # Null
             THEN AddToList(c, s, e)
             ELSE handlers' = [handlers EXCEPT ![e] = s] /\ UNCHANGED <<next, prev>>
    /\ listed' = listed \cup {e}
    /\ IF e \in listed THEN UNCHANGED cache ELSE Uncached
    /\ registered' = registered \cup {<<e, c>>}
    /\ UNCHANGED <<frames, in_order>>
-----------------------------------------------------------------------------
(***************************************************************************)
(* pr_event_unregister.                                                    *)
(***************************************************************************)

(* Unlink struct s; l holds next, prev and the head of the list. *)
UnlinkKeepsHead(l, s) ==   \* mutant: the head of the list is not replaced
    LET p == l.prev[s]  n == l.next[s]
    IN [l EXCEPT !.prev = IF n # Null THEN [@ EXCEPT ![n] = p] ELSE @,
                 !.next = IF p # Null THEN [@ EXCEPT ![p] = n] ELSE @]

Unlink(l, s) ==
    LET p == l.prev[s]  n == l.next[s]
    IN [l EXCEPT !.prev = IF n # Null THEN [@ EXCEPT ![n] = p] ELSE @,
                 !.next = IF p # Null THEN [@ EXCEPT ![p] = n] ELSE @,
                 !.head = IF p # Null THEN @ ELSE n]

(* The arguments: one handler of a module or of the core, all handlers of  *)
(* a module, all handlers of an event.                                     *)
Request ==
    {[m |-> c, events |-> {e}, cbs |-> {c}] : e \in Names, c \in Callbacks \ Core}
    \cup {[m |-> NoModule, events |-> {e}, cbs |-> {c}] : e \in Names, c \in Core}
    \cup {[m |-> c, events |-> Names, cbs |-> Callbacks] : c \in Callbacks \ Core}
    \cup {[m |-> NoModule, events |-> {e}, cbs |-> Callbacks] : e \in Names}

Matches(r, s) == (r.m = NoModule \/ module[s] = r.m) /\ cb[s] \in r.cbs

(* The loop over the list of an event, in which "at" is evh. *)
UnlinkStep(r, l) ==
    IF l.at = Null THEN l
    ELSE [IF Matches(r, l.at) THEN Unlink(l, l.at) ELSE l EXCEPT !.at = l.next[l.at]]

UnlinkList(r, e) ==
    LET start == [next |-> next, prev |-> prev, head |-> handlers[e],
                  at |-> handlers[e]]
        u[n \in 0..MaxHandlers] == IF n = 0 THEN start ELSE UnlinkStep(r, u[n - 1])
    IN u[MaxHandlers]

(* The loop over the lists.  They have no struct in common. *)
UnlinkAll(r) ==
    LET l == [e \in r.events |-> UnlinkList(r, e)]
    IN /\ next' = [s \in Slots |-> IF name[s] \in r.events THEN l[name[s]].next[s]
                                  ELSE next[s]]
       /\ prev' = [s \in Slots |-> IF name[s] \in r.events THEN l[name[s]].prev[s]
                                  ELSE prev[s]]
       /\ handlers' = [e \in Names |-> IF e \in r.events THEN l[e].head
                                      ELSE handlers[e]]

Hit(r) == {s \in UNION {Linked(handlers[e]) : e \in r.events} : Matches(r, s)}

pr_event_unregister(r) ==
    /\ listed # {}
    /\ UnlinkAll(r)
    /\ module' = [s \in Slots |-> IF s \in Hit(r) THEN NoModule ELSE module[s]]
    /\ Uncached
    /\ registered' = registered \ {<<name[s], cb[s]>> : s \in Hit(r)}
    /\ in_order' = (in_order /\ \A s \in Hit(r) : s = handlers[name[s]])
    /\ frames' = [i \in 1..Len(frames) |-> [frames[i] EXCEPT !.due = @ \ Hit(r)]]
    /\ UNCHANGED <<cb, name, used, listed>>
-----------------------------------------------------------------------------
(***************************************************************************)
(* pr_event_generate.                                                      *)
(***************************************************************************)

UseCache(e) == curr_event = e

(* The first listener of a new call. *)
FirstListener(e) == IF UseCache(e) THEN curr_evh ELSE handlers[e]

Invoke(e, s, due) == [event |-> e, evh |-> s, due |-> due \ {s}]

(* The cache after the callback of s has been chosen. *)
Cached(e, s) == curr_event' = e /\ curr_evh' = next[s]

pr_event_generate(e) ==
    /\ Len(frames) < MaxDepth
    /\ \/ /\ e \in listed /\ handlers[e] = Null     \* no handlers: return
          /\ UNCHANGED <<cache, frames>>
       \/ /\ e \notin listed \/ handlers[e] # Null
          /\ LET s == IF e \in listed THEN FirstListener(e) ELSE Null
             IN IF s = Null
                THEN Uncached /\ UNCHANGED frames
                ELSE /\ Cached(e, s)
                     /\ frames' = <<Invoke(e, s, Linked(s))>> \o frames
    /\ UNCHANGED <<links, history>>

(* The listener the loop goes on with. *)
FollowCache(s) == curr_evh   \* mutant: the loop follows the cache
Following(s) == next[s]

(* The callback returns: on to the next listener, or out of the loop. *)
CallbackReturns ==
    /\ frames # <<>>
    /\ LET f == Head(frames)
           s == Following(f.evh)
       IN IF s = Null
          THEN frames' = Tail(frames) /\ Uncached
          ELSE /\ frames' = <<Invoke(f.event, s, f.due)>> \o Tail(frames)
               /\ curr_evh' = next[s] /\ UNCHANGED curr_event
    /\ UNCHANGED <<links, history>>
-----------------------------------------------------------------------------
Next ==
    \/ \E c \in Callbacks, e \in Names : pr_event_register(c, e)
    \/ \E r \in Request : pr_event_unregister(r)
    \/ \E e \in Names : pr_event_generate(e)
    \/ CallbackReturns

Spec == Init /\ [][Next]_vars
-----------------------------------------------------------------------------
(***************************************************************************)
(* Properties.                                                             *)
(***************************************************************************)

Allocated == 1..used

(* Pointers are NULL or point to allocated structs of the same list, and   *)
(* the dispatch of an event visits structs of its list only; the cache is  *)
(* that of the innermost dispatch, or empty.                               *)
TypeOK ==
    /\ used \in 0..MaxHandlers
    /\ next \in [Slots -> 0..used] /\ prev \in [Slots -> 0..used]
    /\ handlers \in [Names -> 0..used]
    /\ \A s \in Slots \ Allocated : next[s] = Null /\ prev[s] = Null
    /\ \A s \in Allocated :
          /\ cb[s] \in Callbacks /\ module[s] \in {cb[s], NoModule}
          /\ name[s] \in Names
          /\ next[s] # Null => name[next[s]] = name[s]
          /\ prev[s] # Null => name[prev[s]] = name[s]
    /\ \A e \in Names : handlers[e] # Null => name[handlers[e]] = e
    /\ DOMAIN cb = Slots /\ DOMAIN module = Slots /\ DOMAIN name = Slots
    /\ listed \subseteq Names
    /\ curr_event \in Names \cup {NoName} /\ curr_evh \in 0..used
    /\ frames \in Seq(Frame)
    /\ \A i \in 1..Len(frames) :
          frames[i].evh \in Allocated /\ name[frames[i].evh] = frames[i].event
    /\ curr_event # NoName =>
          /\ frames # <<>> /\ Head(frames).event = curr_event
          /\ curr_evh # Null => name[curr_evh] = curr_event
    /\ registered \subseteq Names \X Callbacks /\ in_order \in BOOLEAN

(* The structs from which a dispatch follows next pointers: the heads of   *)
(* the lists, and those that a dispatch in progress still holds.           *)
Starts == {handlers[e] : e \in Names} \cup
          {frames[i].evh : i \in 1..Len(frames)}

(* pr_event_register: "preserve module load order handling of events (i.e. *)
(* last module loaded, first module handled)"; core callbacks "will always *)
(* be invoked last".  So it is at every time, for every list and for what  *)
(* is left of a dispatch in progress, although prev pointers may be wrong  *)
(* when structs are unlinked; and no struct comes after itself, so that    *)
(* every dispatch comes to the end of its list.                            *)
DispatchOrder ==
    \A h \in Starts : \A s \in Linked(h) : \A t \in Linked(next[s]) :
        /\ s # t
        /\ cb[s] \in Core => cb[t] \in Core
        /\ cb[t] \notin Core => s > t

(* The lists hold exactly the handlers that callers have registered and    *)
(* not unregistered (event.h: "Remove the given event handler from the     *)
(* event registration lists").                                             *)
Complete ==
    \A e \in Names :
        {cb[s] : s \in Linked(handlers[e])} = {c \in Callbacks : <<e, c>> \in registered}

(* Complete holds for as long as callers of pr_event_unregister ask for    *)
(* the first handler of a list only; for those the prev pointer, NULL as   *)
(* pr_event_register left it, is right.                                    *)
CompleteInOrder == in_order => Complete

(* As long as that is so: every handler that was listed when an event was  *)
(* generated, and was not unregistered meanwhile, has been given the event *)
(* when pr_event_generate is through with its list (event.h: "dispatched   *)
(* to any handlers that have registered an interest").                     *)
Delivered ==
    [][in_order' /\ Len(frames') < Len(frames) => Head(frames).due = {}]_vars

-----------------------------------------------------------------------------
(***************************************************************************)
(* The inductive invariants from which these are proved.                   *)
(***************************************************************************)

(* The order that DispatchOrder rests on, of any two allocated structs:    *)
(* modules before the core, modules newest first, the core oldest first.   *)
(* All pointers, also those of structs no longer on a list and those that  *)
(* are wrong, respect it; so unlinking, which joins two of them, does.     *)
Before(s, t) ==
    \/ cb[s] \notin Core /\ cb[t] \in Core
    \/ cb[s] \notin Core /\ cb[t] \notin Core /\ s > t
    \/ cb[s] \in Core /\ cb[t] \in Core /\ s < t

Ordered ==
    \A s \in Allocated : /\ next[s] # Null => Before(s, next[s])
                         /\ prev[s] # Null => Before(prev[s], s)

IInv == TypeOK /\ Ordered

(* As long as callers unregister heads only: a head has no prev pointer,   *)
(* so that unregistering it leaves the next pointers alone; no callback is *)
(* twice on a list; and what a dispatch owes is ahead of it.               *)
HeadsFirst ==
    in_order =>
    /\ Complete
    /\ \A e \in Names :
          /\ handlers[e] # Null => prev[handlers[e]] = Null
          /\ \A s, t \in Linked(handlers[e]) : cb[s] = cb[t] => s = t
    /\ \A i \in 1..Len(frames) : frames[i].due \subseteq Linked(next[frames[i].evh])

-----------------------------------------------------------------------------
(***************************************************************************)
(* What the documentation or a comment says and the code does not keep;    *)
(* README.md has the behaviours that show it.                              *)
(***************************************************************************)

(* A handler is not called once it has been unregistered.                  *)
UnregisteredNotInvoked ==
    [][frames' # <<>> /\ (frames = <<>> \/ Head(frames').evh # Head(frames).evh)
           /\ Len(frames') >= Len(frames)
       => <<Head(frames').event, cb[Head(frames').evh]>> \in registered]_vars

(* pr_event_generate: "Make sure that if the same event is generated by    *)
(* the current listener, the next time through we go to the next listener, *)
(* rather sending the same event against to the same listener (Bug#3619)": *)
(* no listener is active twice.                                            *)
NotReentered ==
    \A i, j \in 1..Len(frames) : frames[i].evh = frames[j].evh => i = j
=============================================================================
