---------------------------- MODULE EventRegistry ----------------------------
(***************************************************************************)
(* The event registry of prototype.js: observe, stopObserving, fire and    *)
(* the purge of an element, over the listeners the browser keeps.          *)
(* Handlers run inside a dispatch and may call any of these themselves.    *)
(***************************************************************************)
EXTENDS Naturals, Sequences, SequencesExt, FiniteSets

CONSTANTS
  Elements, NoElement,
  ParentOf,                     \* [Elements -> Elements \cup {NoElement}]
  Custom, Standard,             \* event names, with and without a colon
  Handlers,
  Pages,                        \* what the scripts of a page may use
  MaxUID,                       \* bound: unique ids handed out
  MaxEvents,                    \* bound: events dispatched
  MaxDepth                      \* bound: dispatches inside each other

\* The document is a tree: an element, what contains it, and so on to the top.
Ancestors(e) ==
  {a \in Elements :
     \A above \in SUBSET Elements :
       e \in above /\ (\A x \in above : ParentOf[x] \in Elements => ParentOf[x] \in above)
         => a \in above}

EventRegistryAssumption ==
  /\ IsFiniteSet(Elements) /\ NoElement \notin Elements
  /\ ParentOf \in [Elements -> Elements \cup {NoElement}]
  /\ \A e \in Elements : ParentOf[e] \in Elements => e \notin Ancestors(ParentOf[e])
  /\ Custom \cap Standard = {}
  /\ \A p \in Pages : /\ p.names \subseteq Custom \cup Standard /\ p.handlers \subseteq Handlers
                       /\ p.responders \in Nat
  /\ {MaxUID, MaxEvents, MaxDepth} \subseteq Nat

VARIABLES
  page,         \* chosen at the start
  uid,          \* element -> its _prototypeUID, 0 while undefined
  nextUID,      \* Element.Storage.UID
  cache,        \* Event.cache: unique id -> its element and its entries by event name
  listeners,    \* element -> the responders the browser has for it, in order
  responders,   \* how many responders were created
  frames,       \* the dispatches going on, the innermost first
  events        \* how many events were dispatched

vars == <<page, uid, nextUID, cache, listeners, responders, frames, events>>

Names == Custom \cup Standard

\* A custom event travels as a dataavailable event.
TypeOf(name) == IF name \in Custom THEN "dataavailable" ELSE name

Entries(e, name) ==
  IF uid[e] \in DOMAIN cache THEN cache[uid[e]].entries[name] ELSE <<>>

Empty(e) == [element |-> e, entries |-> [n \in Names |-> <<>>]]

\* The elements of a sequence that are in a set, and the others.
Only(s, chosen) ==
  LET kept[n \in 0..Len(s)] ==
        IF n = 0 THEN <<>>
        ELSE IF s[n] \in chosen THEN Append(kept[n - 1], s[n]) ELSE kept[n - 1]
  IN kept[Len(s)]
Without(s, dropped) == Only(s, ToSet(s) \ dropped)
Named(s, name) == Only(s, {r \in ToSet(s) : r.name = name})

\* What a frame owes a call to: what is attached on the event's way.
OnTheWay(e, name, bubble) ==
  UNION {{<<a, r>> : r \in {x \in ToSet(listeners[a]) : x.name = name}} :
         a \in IF bubble THEN Ancestors(e) ELSE {e}}

-----------------------------------------------------------------------------
(* Faulty variants of the helpers below; no action uses them. *)

RegistryOnly(es) == listeners
AllQueued(f) == f.queue

-----------------------------------------------------------------------------
\* getUniqueElementID hands an id out at the first question.
HasUID(e) == uid[e] # 0
UIDOf(e) == IF HasUID(e) THEN uid[e] ELSE nextUID
TakeUID(e) ==
  /\ HasUID(e) \/ nextUID <= MaxUID
  /\ uid' = [uid EXCEPT ![e] = UIDOf(e)]
  /\ nextUID' = IF HasUID(e) THEN nextUID ELSE nextUID + 1

\* getRegistryForElement makes an empty registry at the first question.
RegistryOf(e) == IF UIDOf(e) \in DOMAIN cache THEN cache[UIDOf(e)] ELSE Empty(e)
WithRegistry(e, registry) ==
  [u \in DOMAIN cache \cup {UIDOf(e)} |-> IF u = UIDOf(e) THEN registry ELSE cache[u]]

\* register looks for the handler among the entries of the name.
Known(e, name, h) == \E i \in DOMAIN Entries(e, name) : Entries(e, name)[i].handler = h

Observe(e, name, h) ==
  /\ TakeUID(e)
  /\ LET r == [uid |-> UIDOf(e), name |-> name, handler |-> h, id |-> responders + 1]
     IN IF Known(e, name, h)
        THEN UNCHANGED <<cache, listeners, responders>>
        ELSE /\ responders < page.responders
             /\ responders' = responders + 1
             /\ cache' = WithRegistry(e, [RegistryOf(e) EXCEPT !.entries[name] = Append(@, r)])
             /\ listeners' = [listeners EXCEPT ![e] = Append(@, r)]
  /\ UNCHANGED <<frames, events>>

\* unregister takes the last entry of the handler out of its array.
Unregistered(e, name, h) ==
  LET found == {i \in DOMAIN Entries(e, name) : Entries(e, name)[i].handler = h}
  IN {Entries(e, name)[i] : i \in {j \in found : \A k \in found : k <= j}}

StopObserving(e, name, h) ==
  /\ TakeUID(e)
  /\ LET gone == Unregistered(e, name, h)
     IN /\ cache' = WithRegistry(e, [RegistryOf(e) EXCEPT !.entries[name] = Without(@, gone)])
        /\ listeners' = [listeners EXCEPT ![e] = Without(@, gone)]
  /\ UNCHANGED <<responders, frames, events>>

\* stopObserving(element, name).
StopObservingEventName(e, name) ==
  /\ TakeUID(e)
  /\ cache' = WithRegistry(e, [RegistryOf(e) EXCEPT !.entries[name] = <<>>])
  /\ listeners' = [listeners EXCEPT ![e] = Without(@, ToSet(Entries(e, name)))]
  /\ UNCHANGED <<responders, frames, events>>

\* stopObserving(element) destroys the registry and removes what was in it.
Attached(e) == UNION {ToSet(Entries(e, n)) : n \in Names}
Destroyed(es) == [u \in DOMAIN cache \ {UIDOf(e) : e \in es} |-> cache[u]]
Removed(es) == [e \in Elements |-> IF e \in es THEN Without(listeners[e], Attached(e)) ELSE listeners[e]]

StopObservingElement(e) ==
  /\ TakeUID(e)
  /\ cache' = Destroyed({e})
  /\ listeners' = Removed({e})
  /\ UNCHANGED <<responders, frames, events>>

\* Element.purge does so for the element and its descendants, which lose their ids.
Purged(e) == {d \in Elements : e \in Ancestors(d)}

Purge(e) ==
  LET new == {d \in Purged(e) : ~HasUID(d)}
  IN /\ nextUID + Cardinality(new) <= MaxUID + 1
     /\ nextUID' = nextUID + Cardinality(new)
     /\ cache' = Destroyed({d \in Purged(e) : HasUID(d)})
     /\ listeners' = Removed(Purged(e))
     /\ uid' = [d \in Elements |-> IF d \in Purged(e) THEN 0 ELSE uid[d]]
     /\ UNCHANGED <<responders, frames, events>>

\* fire, and the browser, which starts an event only when no script runs.  The
\* browser copies the listeners of an element when the event gets there.
Copied(e, name) == Only(listeners[e], {r \in ToSet(listeners[e]) : TypeOf(r.name) = TypeOf(name)})

Fire(e, name, bubble) ==
  /\ name \in Custom \/ (frames = <<>> /\ bubble)
  /\ events < MaxEvents /\ Len(frames) < MaxDepth
  /\ events' = events + 1
  /\ frames' = <<[name |-> name, at |-> e, bubble |-> bubble, stopped |-> FALSE,
                  running |-> FALSE, queue |-> Copied(e, name), called |-> {},
                  owed |-> OnTheWay(e, name, bubble)]>> \o frames
  /\ UNCHANGED <<uid, nextUID, cache, listeners, responders>>

-----------------------------------------------------------------------------
\* The responder of a custom event lets the other names pass.
Wanted(r, f) == r.name = f.name

\* The browser leaves out what was removed since; what is left is called.
Pending(f) == Only(f.queue, ToSet(listeners[f.at]))
Callable(f) == Only(Pending(f), {r \in ToSet(Pending(f)) : Wanted(r, f)})

Top == Head(frames)
Waiting == frames # <<>> /\ ~Top.running

Call ==
  /\ Waiting /\ Callable(Top) # <<>>
  /\ LET r == Head(Callable(Top)) IN
     frames' = [frames EXCEPT ![1].running = TRUE, ![1].called = @ \cup {<<Top.at, r>>},
                  ![1].queue = Only(@, {x \in ToSet(@) : x.id > r.id})]
  /\ UNCHANGED <<uid, nextUID, cache, listeners, responders, events>>

\* The handler returns, or throws, which the browser reports only.
Return ==
  /\ frames # <<>> /\ Top.running
  /\ frames' = [frames EXCEPT ![1].running = FALSE]
  /\ UNCHANGED <<uid, nextUID, cache, listeners, responders, events>>

\* Event.stop, called by the handler that runs.
Stop ==
  /\ frames # <<>> /\ Top.running /\ ~Top.stopped
  /\ frames' = [frames EXCEPT ![1].stopped = TRUE]
  /\ UNCHANGED <<uid, nextUID, cache, listeners, responders, events>>

Climbs(f) == f.bubble /\ ~f.stopped /\ ParentOf[f.at] # NoElement

Bubble ==
  /\ Waiting /\ Callable(Top) = <<>> /\ Climbs(Top)
  /\ frames' = [frames EXCEPT ![1].at = ParentOf[@],
                  ![1].queue = Copied(ParentOf[Top.at], Top.name)]
  /\ UNCHANGED <<uid, nextUID, cache, listeners, responders, events>>

Over(f) == ~f.running /\ Callable(f) = <<>> /\ ~Climbs(f)

End ==
  /\ frames # <<>> /\ Over(Top)
  /\ frames' = Tail(frames)
  /\ UNCHANGED <<uid, nextUID, cache, listeners, responders, events>>

-----------------------------------------------------------------------------
Init ==
  /\ page \in Pages
  /\ uid = [e \in Elements |-> 0] /\ nextUID = 1
  /\ cache = [u \in {} |-> Empty(u)]
  /\ listeners = [e \in Elements |-> <<>>]
  /\ responders = 0 /\ frames = <<>> /\ events = 0

\* Code runs between two dispatches, or in the handler of the innermost one.
Code == frames # <<>> => Top.running

Changes ==
  \E e \in Elements :
    \/ \E n \in page.names, h \in page.handlers : Observe(e, n, h) \/ StopObserving(e, n, h)
    \/ \E n \in page.names : StopObservingEventName(e, n)
    \/ StopObservingElement(e)
    \/ Purge(e)

Fires == \E e \in Elements, n \in page.names, bubble \in BOOLEAN : Fire(e, n, bubble)

Next ==
  /\ \/ Code /\ (Changes \/ Fires)
     \/ Call \/ Return \/ Stop \/ Bubble \/ End
  /\ UNCHANGED page

Spec == Init /\ [][Next]_vars

-----------------------------------------------------------------------------
TypeOK ==
  /\ uid \in [Elements -> 0..MaxUID] /\ nextUID \in 1..(MaxUID + 1)
  /\ DOMAIN cache \subseteq 1..MaxUID
  /\ \A u \in DOMAIN cache : cache[u].element \in Elements /\ DOMAIN cache[u].entries = Names
  /\ DOMAIN listeners = Elements
  /\ responders \in 0..page.responders /\ events \in 0..MaxEvents /\ Len(frames) <= MaxDepth

\* The browser has exactly the responders of the registry, in the same order for
\* every event name, whatever was observed, stopped and purged meanwhile.
Mirrored ==
  \A e \in Elements, n \in Names :
    Named(listeners[e], n) = Entries(e, n)

\* A registry belongs to the element that has its id, and a responder the browser
\* has finds it there: Event.cache[uid].element is never undefined.
Owned ==
  /\ \A u \in DOMAIN cache : uid[cache[u].element] = u
  /\ \A e \in Elements : \A r \in ToSet(listeners[e]) : r.uid \in DOMAIN cache /\ r.uid = uid[e]

\* An event calls a handler once at most for an element, whatever was observed
\* again while it was on its way.
CalledOnce ==
  \A i \in DOMAIN frames : \A c, d \in frames[i].called :
    c[1] = d[1] /\ c[2].handler = d[2].handler => c = d

\* A handler is called only while it is registered for the name of the event.
CallsRegistered ==
  \A i \in DOMAIN frames : Len(frames') = Len(frames) =>
    \A c \in frames'[i].called \ frames[i].called :
      \E j \in DOMAIN Entries(c[1], frames[i].name) : Entries(c[1], frames[i].name)[j] = c[2]

\* An event that is over has called every handler that was registered on its way
\* and still is, up to the element where a handler stopped it.
ServedAll ==
  frames # <<>> /\ Over(Top) =>
    \A o \in Top.owed :
      o[2] \in ToSet(listeners[o[1]]) /\ (Top.stopped => o[1] \notin Ancestors(Top.at) \ {Top.at})
        => o \in Top.called
=============================================================================
