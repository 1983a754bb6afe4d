------------------------------ MODULE Observers ------------------------------
(***************************************************************************)
(* The observers of an FVizObject (src/Core/FVizObject.c): registration,   *)
(* removal and event dispatch, all of which a running callback may call    *)
(* again, and the reference counts of the object and of the FVizCommand    *)
(* objects its observers hold.                                             *)
(*                                                                         *)
(* Dispatch belongs to one thread, so the state between two callbacks is   *)
(* the list and the stack of dispatches that are in progress.              *)
(***************************************************************************)
EXTENDS Integers, Sequences, SequencesExt, FiniteSets

CONSTANTS
    Events,            \* the events of the program
    InteractionEvents, \* those FVIZ_EVENT_INTERACTION_ANY stands for
    ObservedEvents,    \* what observers are registered for: an event, "ANY" or
                       \* "INTERACTION_ANY"
    Priorities,        \* the priorities they are registered with
    Commands,          \* FVizCommand objects
    MaxObservers,      \* bound: observers registered
    MaxDispatches,     \* bound: outermost dispatches
    MaxDepth,          \* bound: nesting of dispatches
    None

VARIABLES
    list,            \* the observers of the list, in order
    nextTag,         \* next_tag, and next_sequence, which grows with it
    serial,          \* dispatch_serial
    needsCompaction, needsSort,
    stack,           \* the dispatches in progress, the innermost last
    references,      \* ref_count of the object
    state,           \* "live", "deleting" (in fviz_release), "freed"
    commandRefs,     \* ref_count of each command
    owned            \* the commands the program holds a reference to

\* Priorities are numbers; None is not a tag.
ObserversGiven ==
    /\ Priorities \subseteq Int /\ None \notin Nat
    /\ MaxObservers \in Nat /\ MaxDispatches \in Nat

vars == <<list, nextTag, serial, needsCompaction, needsSort, stack, references,
          state, commandRefs, owned>>

Tags == 1 .. MaxObservers

Init ==
    /\ list = <<>> /\ nextTag = 1 /\ serial = 0
    /\ needsCompaction = FALSE /\ needsSort = FALSE
    /\ stack = <<>>
    /\ references = 1 /\ state = "live"
    /\ commandRefs = [c \in Commands |-> 1]
    /\ owned = Commands

-----------------------------------------------------------------------------
(* Helpers *)

\* Higher priority first, then earlier registration.
Precedes(o, p) ==
    \/ o.priority > p.priority
    \/ o.priority = p.priority /\ o.tag < p.tag

Matches(observed, event) ==
    \/ observed \in {"ANY", event}
    \/ observed = "INTERACTION_ANY" /\ event \in InteractionEvents

\* The observers of a set that hold a command.
HoldersOf(S, c) == {o.tag : o \in {p \in S : p.command = c}}

\* The observers of a set in the order of their calls.
Arranged(S) ==
    CHOOSE s \in [1 .. Cardinality(S) -> S] :
        \A i, j \in DOMAIN s : i < j => Precedes(s[i], s[j])

NeverDeferred(depth) == FALSE
\* fviz_object_observers_maintain does nothing while a dispatch is in progress.
Deferred(depth) == depth # 0

\* The list becomes l, with the flags and reference counts given, and is
\* maintained: removed entries go and release their commands, the rest is sorted.
Maintain(depth, l, refs, compact, sort) ==
    LET kept == {o \in ToSet(l) : compact => o.active} IN
    IF Deferred(depth)
    THEN /\ list' = l /\ commandRefs' = refs
         /\ needsCompaction' = compact /\ needsSort' = sort
    ELSE /\ list' = IF compact \/ sort THEN Arranged(kept) ELSE l
         /\ commandRefs' = [c \in Commands |->
                              refs[c] - (Cardinality(HoldersOf(ToSet(l), c))
                                         - Cardinality(HoldersOf(kept, c)))]
         /\ needsCompaction' = FALSE /\ needsSort' = FALSE

Depth == Len(stack)
Top == stack[Depth]

\* The program runs: outside every dispatch, or inside a callback.
InProgram == Depth > 0 => Top.calling # None

\* It has the object: by a reference, or as the caller of a DELETE callback.
HasObject == state = "live" \/ (state = "deleting" /\ Depth > 0)

-----------------------------------------------------------------------------
(* Registration and removal *)

\* A new observer makes the list need sorting.
SortNeeded == TRUE

\* activation_dispatch of a new observer.
Activation == serial

\* fviz_object_add_observer (c = None) and fviz_object_add_command_observer.
AddObserver(event, priority, c) ==
    LET o == [tag |-> nextTag, event |-> event, priority |-> priority,
              activation |-> Activation, command |-> c, active |-> TRUE]
        retained == [d \in Commands |-> IF d = c THEN commandRefs[d] + 1 ELSE commandRefs[d]]
    IN
    /\ nextTag <= MaxObservers /\ InProgram /\ HasObject
    /\ c # None => c \in owned
    /\ nextTag' = nextTag + 1
    /\ Maintain(Depth, Append(list, o), retained, needsCompaction, SortNeeded)
    /\ UNCHANGED <<serial, stack, references, state, owned>>

\* The list with the observers of these tags deactivated.
Deactivated(tags) ==
    [i \in DOMAIN list |-> IF list[i].tag \in tags THEN [list[i] EXCEPT !.active = FALSE]
                           ELSE list[i]]

\* fviz_object_remove_observer, of an observer that is registered.
RemoveObserver(tag) ==
    /\ InProgram /\ HasObject
    /\ \E i \in DOMAIN list : list[i].active /\ list[i].tag = tag
    /\ Maintain(Depth, Deactivated({tag}), commandRefs, TRUE, needsSort)
    /\ UNCHANGED <<nextTag, serial, stack, references, state, owned>>

\* fviz_object_remove_observers(event), which compares the event itself, and
\* fviz_object_remove_all_observers with "ANY".
RemoveObservers(event) ==
    LET selected == {i \in DOMAIN list : list[i].active /\ event \in {"ANY", list[i].event}}
    IN
    /\ InProgram /\ HasObject /\ selected # {}
    /\ Maintain(Depth, Deactivated({list[i].tag : i \in selected}), commandRefs, TRUE, needsSort)
    /\ UNCHANGED <<nextTag, serial, stack, references, state, owned>>

\* The program releases its reference to a command.
ReleaseCommand(c) ==
    /\ InProgram /\ c \in owned
    /\ owned' = owned \ {c}
    /\ commandRefs' = [commandRefs EXCEPT ![c] = @ - 1]
    /\ UNCHANGED <<list, nextTag, serial, needsCompaction, needsSort, stack,
                   references, state>>

-----------------------------------------------------------------------------
(* fviz_object_invoke_event *)

CallsLate(o, event) == o.active /\ o.activation + 1 < serial /\ Matches(o.event, event)
\* An observer is called if it is registered for the event since before the
\* outermost dispatch began.
Calls(o, event) == o.active /\ o.activation < serial /\ Matches(o.event, event)

\* The dispatch that starts on the list l.  What is due to be called and the
\* first tag given out since the outermost dispatch began state the properties.
Frame(event, l) ==
    LET fresh == IF Depth = 0 THEN nextTag ELSE stack[1].fresh IN
    [event |-> event, next |-> 1, count |-> Len(l), calling |-> None,
     called |-> <<>>, aborted |-> FALSE,
     due |-> {l[i].tag : i \in {j \in DOMAIN l : l[j].active /\ Matches(l[j].event, event)
                                                      /\ l[j].tag < fresh}},
     fresh |-> fresh]

\* Start of a dispatch: an outermost one maintains the list first.
Begin(event) ==
    /\ IF Depth = 0
       THEN /\ Maintain(0, list, commandRefs, needsCompaction, needsSort) /\ serial' = serial + 1
       ELSE UNCHANGED <<list, needsCompaction, needsSort, commandRefs, serial>>
    /\ stack' = Append(stack, Frame(event, list'))

\* The program invokes an event; without observers nothing happens.
InvokeEvent(event) ==
    /\ serial < MaxDispatches /\ list # <<>>
    /\ InProgram /\ HasObject /\ Depth < MaxDepth
    /\ event # "DELETE"
    /\ Begin(event)
    /\ UNCHANGED <<nextTag, references, state, owned>>

SetTop(frame) == stack' = [stack EXCEPT ![Depth] = frame]

\* dispatch_count: the length of the list when the dispatch began.
DispatchCount == Top.count

\* Look at the next observer: call it, or pass over it.
Visit ==
    /\ Depth > 0 /\ Top.calling = None /\ ~Top.aborted /\ Top.next <= DispatchCount
    /\ LET o == list[Top.next] IN
         SetTop(IF Calls(o, Top.event)
                THEN [Top EXCEPT !.calling = o.tag, !.called = Append(@, o.tag)]
                ELSE [Top EXCEPT !.next = @ + 1])
    /\ UNCHANGED <<list, nextTag, serial, needsCompaction, needsSort, references,
                   state, commandRefs, owned>>

\* The callback returns; FVIZ_TRUE ends the dispatch.
CallbackReturns(abort) ==
    /\ Depth > 0 /\ Top.calling # None
    /\ SetTop([Top EXCEPT !.calling = None, !.next = @ + 1, !.aborted = abort])
    /\ UNCHANGED <<list, nextTag, serial, needsCompaction, needsSort, references,
                   state, commandRefs, owned>>

\* fviz_object_observer_list_destroy, and the object is freed.
DestroyList(l, refs) ==
    /\ list' = <<>> /\ needsCompaction' = FALSE /\ needsSort' = FALSE
    /\ commandRefs' = [c \in Commands |-> refs[c] - Cardinality(HoldersOf(ToSet(l), c))]
    /\ state' = "freed"

\* The dispatch is over.  An outermost one maintains the list; the one of the
\* DELETE event returns to fviz_release, which destroys the object.
End ==
    /\ Depth > 0 /\ Top.calling = None
    /\ Top.aborted \/ Top.next > DispatchCount
    /\ stack' = Front(stack)
    /\ IF Top.event = "DELETE" THEN DestroyList(list, commandRefs)
       ELSE /\ Maintain(Depth - 1, list, commandRefs, needsCompaction, needsSort)
            /\ state' = state
    /\ UNCHANGED <<nextTag, serial, references, owned>>

-----------------------------------------------------------------------------
(* The object itself *)

\* fviz_retain
Retain ==
    /\ InProgram /\ state = "live" /\ references < 2
    /\ references' = references + 1
    /\ UNCHANGED <<list, nextTag, serial, needsCompaction, needsSort, stack,
                   state, commandRefs, owned>>

\* fviz_release.  Who invokes an event holds a reference until it returns, so
\* the last one goes outside every dispatch.
Release ==
    /\ InProgram /\ state = "live"
    /\ Depth = 0 \/ references > 1
    /\ references' = references - 1
    /\ IF references > 1
       THEN UNCHANGED <<list, serial, needsCompaction, needsSort, stack, state,
                        commandRefs>>
       ELSE IF list = <<>>
       THEN DestroyList(list, commandRefs) /\ UNCHANGED <<serial, stack>>
       ELSE Begin("DELETE") /\ state' = "deleting"
    /\ UNCHANGED <<nextTag, owned>>

-----------------------------------------------------------------------------
Program ==
    \/ \E event \in ObservedEvents, p \in Priorities, c \in Commands \cup {None} :
         AddObserver(event, p, c)
    \/ \E tag \in Tags : RemoveObserver(tag)
    \/ \E event \in ObservedEvents : RemoveObservers(event)
    \/ \E c \in Commands : ReleaseCommand(c)
    \/ \E event \in Events : InvokeEvent(event)
    \/ \E abort \in BOOLEAN : CallbackReturns(abort)
    \/ Retain \/ Release

Next == Program \/ Visit \/ End

Spec == Init /\ [][Next]_vars

-----------------------------------------------------------------------------
Entry == [tag : Tags, event : ObservedEvents, priority : Priorities,
          activation : 0 .. MaxDispatches + 1, command : Commands \cup {None},
          active : BOOLEAN]

\* The types; a dispatch never runs past the end of the list.
TypeOK ==
    /\ list \in Seq(Entry)
    /\ nextTag \in 1 .. MaxObservers + 1
    /\ serial \in 0 .. MaxDispatches + 1
    /\ needsCompaction \in BOOLEAN /\ needsSort \in BOOLEAN
    /\ \A k \in DOMAIN stack : stack[k].count <= Len(list)
    /\ references \in 0 .. 2
    /\ state \in {"live", "deleting", "freed"}
    /\ commandRefs \in [Commands -> Nat]
    /\ owned \subseteq Commands

EntryOf(tag) == list[CHOOSE i \in DOMAIN list : list[i].tag = tag]

\* "Higher priority runs first; equal priorities preserve registration order",
\* in every dispatch of a nest, and no observer is called twice, whatever the
\* callbacks add, remove and invoke.
CalledInOrder ==
    \A k \in DOMAIN stack : \A i, j \in DOMAIN stack[k].called :
        i < j => Precedes(EntryOf(stack[k].called[i]), EntryOf(stack[k].called[j]))

\* A dispatch that runs to its end, not aborted, has called every observer that
\* was registered for the event when it began and has not been removed since.
NoneSkipped ==
    Depth > 0 /\ Top.calling = None /\ ~Top.aborted /\ Top.next > Top.count =>
        \A i \in DOMAIN list :
            list[i].active /\ list[i].tag \in Top.due => list[i].tag \in ToSet(Top.called)

\* "Adding an observer during dispatch is safe; it becomes eligible only after
\* the outermost dispatch returns.  Nested dispatch follows the same mutation
\* boundary."
NewcomersWait ==
    \A k \in DOMAIN stack : \A i \in DOMAIN stack[k].called :
        stack[k].called[i] < stack[k].fresh

\* "Registration owns a reference": the reference count of a command is what the
\* program and the list hold, and a command is alive while its callback runs,
\* even when that callback removes its own observer and the program has dropped
\* its reference.
CommandAlive ==
    /\ \A c \in Commands :
          commandRefs[c] = Cardinality(HoldersOf(ToSet(list), c)) + (IF c \in owned THEN 1 ELSE 0)
    /\ \A k \in DOMAIN stack : stack[k].calling # None =>
          \E i \in DOMAIN list :
              /\ list[i].tag = stack[k].calling
              /\ list[i].command # None => commandRefs[list[i].command] > 0

=============================================================================
