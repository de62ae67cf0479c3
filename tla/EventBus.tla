------------------------------ MODULE EventBus -------------------------------
(***************************************************************************)
(* src/EventBus.ts, a facade over Node's EventEmitter: subscriptions, and  *)
(* the JavaScript stack of the emits under way.  An emit calls the         *)
(* listeners that were subscribed when it began, one after the other; a    *)
(* listener runs to its end, or throws, and may use the bus meanwhile.     *)
(***************************************************************************)
EXTENDS Naturals, SequencesExt

CONSTANTS
  Event,     (* Names of events.                                           *)
  Listener   (* Functions passed to on and once.                           *)

VARIABLES
  subs,      (* The emitter's list of subscriptions to each event.         *)
  fired,     (* The subscriptions of once whose listener was called.       *)
  made,      (* How many subscriptions were made; the last one's id.       *)
  stack      (* Emits and listeners under way, innermost last.             *)

bvars == <<subs, fired, made, stack>>

(* The id tells the wrappers that once makes apart, each with its flag     *)
(* fired.                                                                  *)
Subscription == [id: Nat, fn: Listener, once: BOOLEAN]

Top == Last(stack)

(* removeListener: the last of the entries that match goes, if there is one. *)
DropLast(list, entries) ==
  IF entries = {} THEN list ELSE RemoveAt(list, Max(entries))

-----------------------------------------------------------------------------
Subscribe(e, fn, once) ==
  /\ made' = made + 1
  /\ subs' = [subs EXCEPT ![e] = Append(@, [id |-> made + 1, fn |-> fn, once |-> once])]
  /\ UNCHANGED <<fired, stack>>

On(e, fn) == Subscribe(e, fn, FALSE)

(* Fault for a mutant: the listener is subscribed for good.                *)
OnceAsOn(e, fn) == Subscribe(e, fn, FALSE)
Once(e, fn) == Subscribe(e, fn, TRUE)

(* Fault for a mutant: every subscription of the function goes.            *)
OffEvery(e, fn) ==
  /\ subs' = [subs EXCEPT ![e] = SelectSeq(@, LAMBDA s : s.fn # fn)]
  /\ UNCHANGED <<fired, made, stack>>

(* The most recent subscription of the function goes, if there is one.     *)
(* The disposer that on returns calls this too.                            *)
Off(e, fn) ==
  /\ subs' = [subs EXCEPT ![e] = DropLast(@, {i \in DOMAIN @ : @[i].fn = fn})]
  /\ UNCHANGED <<fired, made, stack>>

(* The frame of an emit, with the listeners it has yet to call.            *)
Emitting(e) == [kind |-> "emit", event |-> e, todo |-> subs[e]]

Emit(e) ==
  /\ stack' = Append(stack, Emitting(e))
  /\ UNCHANGED <<subs, fired, made>>

(* The wrapper of once was called already, by an emit inside this one.     *)
Skip(s) == s.once /\ s.id \in fired

(* The next listener of the innermost emit is called.                      *)
Deliver ==
  LET s == Head(Top.todo)
      rest == Append(Front(stack), [Top EXCEPT !.todo = Tail(@)])
  IN  /\ stack # <<>> /\ Top.kind = "emit" /\ Top.todo # <<>>
      /\ IF Skip(s)
         THEN stack' = rest /\ UNCHANGED <<subs, fired>>
         ELSE /\ stack' = Append(rest, [kind |-> "listener", event |-> Top.event, todo |-> <<s>>])
              /\ fired' = IF s.once THEN fired \cup {s.id} ELSE fired
              /\ subs' = IF s.once
                         THEN [subs EXCEPT ![Top.event] =
                                 DropLast(@, {i \in DOMAIN @ : @[i].id = s.id})]
                         ELSE subs
      /\ UNCHANGED made

Emitted ==
  /\ stack # <<>> /\ Top.kind = "emit" /\ Top.todo = <<>>
  /\ stack' = Front(stack)
  /\ UNCHANGED <<subs, fired, made>>

InListener == stack # <<>> /\ Top.kind = "listener"

Return ==
  /\ InListener
  /\ stack' = Front(stack)
  /\ UNCHANGED <<subs, fired, made>>

(* The listener throws: emit catches nothing, so the error ends every      *)
(* frame up to a listener whose own code catches it, or all of them.       *)
Throw ==
  /\ InListener
  /\ \E j \in {0} \cup {j \in 1..(Len(stack) - 1) : stack[j].kind = "listener"} :
       stack' = SubSeq(stack, 1, j)
  /\ UNCHANGED <<subs, fired, made>>
=============================================================================
