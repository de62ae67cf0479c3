---------------------------- MODULE RecordEvents -----------------------------
(***************************************************************************)
(* The events of one DatabaseRecord instance: what insert, update, delete  *)
(* and a subclass's own methods fire once their statements are done, the   *)
(* switch disableEvents, and listeners that use the bus and the record     *)
(* while they are called.                                                  *)
(*                                                                         *)
(* From its first fireEvent on, a method runs without an await: it is a    *)
(* frame at the bottom of the stack, with the events it has yet to fire.   *)
(* delete goes on to invalidate the cache afterwards (DatabaseRecord).     *)
(***************************************************************************)
EXTENDS EventBus

CONSTANTS
  FieldEvents,   (* The map form of static events: its <<field, event>>    *)
                 (* entries in order; <<>> for the list form.              *)
  Declared,      (* The events of the list form; {} for the map form.      *)
  Field,         (* Fields an update may assign.                           *)
  Method,        (* The methods that may be called.                        *)
  Shared,        (* Functions that several services subscribe with on.     *)
  Single,        (* Functions subscribed with once.                        *)
  Audit,         (* A function subscribed to every event, for good.        *)
  MaxCalls,      (* Bound of the model: methods called.                    *)
  MaxOps         (* Bound of the model: other uses of the bus or switch.   *)

(* upd: what the sanitised update does to each field.                      *)
MethodType == [op: {"update", "insert", "delete", "custom"},
               upd: [Field -> {"same", "value", "null"}], event: Event]

BaseEvent == {"insert", "update", "delete"}

(* What an entry whose field is not in the update fires.                   *)
NoEvent == ""

ASSUME EventAssumption ==
  /\ FieldEvents \in Seq(Field \X Event)
  /\ Declared \subseteq Event
  /\ IsFiniteSet(Event) /\ NoEvent \notin Event
  /\ Method \subseteq MethodType
  /\ \A m \in Method : m.op \in {"custom"} \cup Event
  /\ Listener = Shared \cup Single \cup {Audit}
  /\ Shared \cap Single = {} /\ Audit \notin Shared \cup Single

(* The last four only record what happened, for the properties.            *)
VARIABLES
  eventsDisabled,
  calls, ops,  (* Methods called, and uses of the bus or the switch.       *)
  open,   (* Subscriptions of on whose disposer was not called.            *)
  runs,   (* How often each subscription of once was called.               *)
  heard,  (* Events of the current method that Audit was called with.      *)
  muted   (* Were events ever disabled during the current method?          *)

evars == <<subs, fired, made, stack, eventsDisabled, calls, ops, open, runs, heard, muted>>

IsValidEvent(e) ==
  e \in BaseEvent \cup Declared \cup {FieldEvents[i][2] : i \in DOMAIN FieldEvents}

(* Fault for a mutant: a field that was set to null is taken for absent.   *)
FieldEventsOfValues(m) ==
  [i \in DOMAIN FieldEvents |->
     IF m.upd[FieldEvents[i][1]] = "value" THEN FieldEvents[i][2] ELSE NoEvent]

(* Fault for a mutant: the names of the fields are fired.                  *)
FieldNames(m) ==
  [i \in DOMAIN FieldEvents |->
     IF m.upd[FieldEvents[i][1]] = "same" THEN NoEvent ELSE FieldEvents[i][1]]

(* fireFieldEvents: one event for each entry whose field the update has.   *)
FireFieldEvents(m) ==
  [i \in DOMAIN FieldEvents |->
     IF m.upd[FieldEvents[i][1]] = "same" THEN NoEvent ELSE FieldEvents[i][2]]

(* What the method fires; fireEvent makes nothing of NoEvent.              *)
Fires(m) ==
  CASE m.op = "update" -> <<"update">> \o FireFieldEvents(m)
    [] m.op = "custom" -> <<m.event>>
    [] OTHER -> <<m.op>>

-----------------------------------------------------------------------------
(* A method's statements are done and it comes to its first fireEvent.     *)
Start(m) ==
  /\ stack = <<>> /\ calls < MaxCalls
  /\ calls' = calls + 1
  /\ stack' = <<[kind |-> "method", method |-> m, todo |-> Fires(m)]>>
  /\ heard' = <<>> /\ muted' = eventsDisabled
  /\ UNCHANGED <<subs, fired, made, eventsDisabled, ops, open, runs>>

(* fireEvent.                                                              *)
FireEvent ==
  /\ stack # <<>> /\ Top.kind = "method" /\ Top.todo # <<>>
  /\ LET e == Head(Top.todo)
         rest == <<[Top EXCEPT !.todo = Tail(@)]>>
     IN  stack' = IF eventsDisabled \/ ~IsValidEvent(e) THEN rest ELSE Append(rest, Emitting(e))
  /\ UNCHANGED <<subs, fired, made, eventsDisabled, calls, ops, open, runs, heard, muted>>

Finish ==
  /\ stack # <<>> /\ Top.kind = "method" /\ Top.todo = <<>>
  /\ stack' = <<>>
  /\ UNCHANGED <<subs, fired, made, eventsDisabled, calls, ops, open, runs, heard, muted>>

(* The bus calls a listener, and what the history keeps of it.             *)
CallListener ==
  /\ Deliver
  /\ LET s == Head(Top.todo)  called == Len(stack') > Len(stack)
     IN  /\ runs' = IF called /\ s.fn \in Single THEN [runs EXCEPT ![s.id] = @ + 1] ELSE runs
         /\ heard' = IF called /\ s.fn = Audit /\ Len(stack) = 2 /\ stack[1].kind = "method"
                     THEN Append(heard, Top.event) ELSE heard
  /\ UNCHANGED <<eventsDisabled, calls, ops, open, muted>>

Unwind ==
  /\ Emitted \/ Return \/ Throw
  /\ UNCHANGED <<eventsDisabled, calls, ops, open, runs, heard, muted>>

-----------------------------------------------------------------------------
(* What a service does between events, or the code of a listener.          *)
Use ==
  /\ stack = <<>> \/ InListener
  /\ ops < MaxOps
  /\ ops' = ops + 1
  /\ UNCHANGED <<calls, heard>>

SubscribeOn(e, fn) ==
  /\ Use /\ On(e, fn)
  /\ open' = open \cup {[id |-> made', event |-> e, fn |-> fn]}
  /\ runs' = Append(runs, 0)
  /\ UNCHANGED <<eventsDisabled, muted>>

SubscribeOnce(e, fn) ==
  /\ Use /\ Once(e, fn)
  /\ runs' = Append(runs, 0)
  /\ UNCHANGED <<eventsDisabled, open, muted>>

(* A service that called on calls the disposer it got.                     *)
Dispose(s) ==
  /\ Use /\ Off(s.event, s.fn)
  /\ open' = open \ {s}
  /\ UNCHANGED <<eventsDisabled, runs, muted>>

(* off, for a function given to once.                                      *)
CancelOnce(e, fn) ==
  /\ Use /\ Off(e, fn)
  /\ UNCHANGED <<eventsDisabled, open, runs, muted>>

EmitDirectly(e) ==
  /\ Use /\ Emit(e)
  /\ UNCHANGED <<eventsDisabled, open, runs, muted>>

(* disableEvents and enableEvents.                                         *)
SwitchEvents ==
  /\ Use
  /\ eventsDisabled' = ~eventsDisabled
  /\ muted' = (muted \/ eventsDisabled')
  /\ UNCHANGED <<subs, fired, made, stack, open, runs>>

-----------------------------------------------------------------------------
(* Each event has one service's function and, after it, Audit.             *)
First(fn, n) == [id |-> n, fn |-> fn, once |-> FALSE]

Init ==
  \E fn \in Shared :
    LET order == SetToSeq(Event)
        at(e) == 2 * (CHOOSE i \in DOMAIN order : order[i] = e)
    IN  /\ subs = [e \in Event |-> <<First(fn, at(e) - 1), First(Audit, at(e))>>]
        /\ open = {[id |-> at(e) - 1, event |-> e, fn |-> fn] : e \in Event}
        /\ made = 2 * Len(order)
        /\ runs = [n \in 1..made |-> 0]
        /\ fired = {} /\ stack = <<>> /\ eventsDisabled = FALSE
        /\ calls = 0 /\ ops = 0 /\ heard = <<>> /\ muted = FALSE

(* No method is called any more and the bus is left alone.                 *)
Quiet == stack = <<>> /\ UNCHANGED evars

Next ==
  \/ \E m \in Method : Start(m)
  \/ FireEvent \/ Finish \/ CallListener \/ Unwind
  \/ \E e \in Event, fn \in Shared : SubscribeOn(e, fn)
  \/ \E e \in Event, fn \in Single : SubscribeOnce(e, fn) \/ CancelOnce(e, fn)
  \/ \E s \in open : s.fn # Audit /\ Dispose(s)
  \/ \E e \in Event : EmitDirectly(e)
  \/ SwitchEvents
  \/ Quiet

Spec == Init /\ [][Next]_evars
=============================================================================
