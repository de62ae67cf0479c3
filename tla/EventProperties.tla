-------------------------- MODULE EventProperties ---------------------------
(***************************************************************************)
(* Properties of RecordEvents: what listeners may rely on, whatever other  *)
(* listeners do to the bus and the record while they are called.           *)
(***************************************************************************)
EXTENDS RecordEvents

Opened == [id: Nat, event: Event, fn: Shared]

Frame ==
  [kind: {"method"}, method: Method, todo: Seq(Event \cup {NoEvent})]
    \cup [kind: {"emit", "listener"}, event: Event, todo: Seq(Subscription)]

(* Every variable holds what the code can put there.                       *)
EventTypeOK ==
  /\ subs \in [Event -> Seq(Subscription)]
  /\ made \in Nat /\ fired \subseteq 1..made
  /\ stack \in Seq(Frame)
  /\ eventsDisabled \in BOOLEAN /\ muted \in BOOLEAN
  /\ open \subseteq Opened
  /\ runs \in [1..made -> Nat]
  /\ heard \in Seq(Event)

(* A listener given to once is called once at most, also when a listener   *)
(* before it emits the same event again: the emit outside still has it on  *)
(* its list ("Subscribes to a single event emission.").                    *)
OnceAtMostOnce == \A n \in 1..made : runs[n] <= 1

(* Two services may subscribe the same function.  It stays on the list as  *)
(* often as it was given to on without its disposer being called, so a     *)
(* disposer ends one subscription and leaves the other service its own.    *)
DisposersBalance ==
  \A e \in Event, fn \in Shared :
    Cardinality({i \in DOMAIN subs[e] : subs[e][i].fn = fn})
      = Cardinality({s \in open : s.event = e /\ s.fn = fn})

(* The events that Audit should hear of a method.                          *)
Entries(m, e) ==
  {i \in DOMAIN FieldEvents : FieldEvents[i][2] = e /\ m.upd[FieldEvents[i][1]] # "same"}
Times(m, e) ==
  CASE m.op = "update" -> Cardinality(Entries(m, e)) + (IF e = "update" THEN 1 ELSE 0)
    [] m.op = "custom" -> IF e = m.event /\ IsValidEvent(e) THEN 1 ELSE 0
    [] OTHER -> IF e = m.op THEN 1 ELSE 0

(* A method that comes to its end without a listener's error, and with     *)
(* events enabled all the time, has called a listener that was there all   *)
(* the time: once for the method and once for each entry of the events map *)
(* whose field it updated, the method's event first, whatever the other    *)
(* listeners subscribed, disposed of or emitted.                           *)
Delivered ==
  [][Len(stack) = 1 /\ stack[1].kind = "method" /\ stack' = <<>> /\ ~muted =>
       LET m == stack[1].method
       IN  /\ \A e \in Event : Cardinality({i \in DOMAIN heard : heard[i] = e}) = Times(m, e)
           /\ m.op # "custom" => heard[1] = m.op]_evars
=============================================================================
