----------------------------- MODULE EventProofs ------------------------------
(***************************************************************************)
(* Proofs about RecordEvents, for any events, functions, fields and        *)
(* methods, and any number of calls and uses of the bus: listeners may     *)
(* subscribe, dispose, emit, throw and switch events while they are called. *)
(***************************************************************************)
EXTENDS EventProperties, SequenceTheorems, FunctionTheorems, FiniteSetTheorems,
        WellFoundedInduction, TLAPS

-----------------------------------------------------------------------------
(* Lists of subscriptions.                                                 *)

LEMMA GreatestIndex ==
  ASSUME NEW n \in Nat, NEW I, I \subseteq 1..n, I # {}
  PROVE  Max(I) \in I
<1> DEFINE T == {i..n : i \in I}
<1>1. T \subseteq FiniteSubsetsOf(Nat) /\ T # {}
  <2>1. \A i \in I : i..n \subseteq Nat /\ IsFiniteSet(i..n)
    BY FS_Interval
  <2>2. \A i \in I : i..n \in FiniteSubsetsOf(Nat)
    BY <2>1 DEF FiniteSubsetsOf
  <2> QED BY <2>2
<1>2. PICK t \in T : \A u \in T : <<u, t>> \notin StrictSubsetOrdering(Nat)
  <2> HIDE DEF T
  <2> QED BY <1>1, FS_StrictSubsetOrderingWellFounded, WFMin
<1>3. PICK m \in I : t = m..n
  BY <1>2
<1>4. \A j \in I : m >= j
  <2> SUFFICES ASSUME NEW j \in I, j > m PROVE FALSE
    BY <1>3
  <2>1. j..n \in T /\ j..n \subseteq m..n /\ m \in m..n /\ m \notin j..n
    BY <1>3
  <2>2. <<j..n, m..n>> \in StrictSubsetOrdering(Nat)
    BY <2>1, <1>1, <1>2, <1>3 DEF StrictSubsetOrdering, FiniteSubsetsOf
  <2> QED BY <1>2, <1>3, <2>1, <2>2
<1> QED BY <1>3, <1>4 DEF Max

(* The list t is s without its m-th entry.                                 *)
Without(t, s, m) ==
  /\ m \in 1..Len(s)
  /\ Len(t) = Len(s) - 1
  /\ \A i \in 1..Len(t) : t[i] = IF i < m THEN s[i] ELSE s[i + 1]

LEMMA RemoveAtWithout ==
  ASSUME NEW S, NEW s \in Seq(S), NEW m \in 1..Len(s)
  PROVE  RemoveAt(s, m) \in Seq(S) /\ Without(RemoveAt(s, m), s, m)
<1> DEFINE a == SubSeq(s, 1, m - 1)
           b == SubSeq(s, m + 1, Len(s))
<1>1. /\ a \in Seq(S) /\ Len(a) = m - 1
      /\ \A i \in 1..(m - 1) : a[i] = s[i]
  BY SubSeqProperties, ElementOfSeq
<1>2. /\ b \in Seq(S) /\ Len(b) = Len(s) - m
      /\ \A i \in 1..(Len(s) - m) : b[i] = s[m + i]
  BY SubSeqProperties, ElementOfSeq
<1>3. RemoveAt(s, m) = a \o b
  BY DEF RemoveAt
<1> HIDE DEF a, b
<1>4. /\ a \o b \in Seq(S) /\ Len(a \o b) = Len(a) + Len(b)
      /\ \A i \in 1..(Len(a) + Len(b)) :
           (a \o b)[i] = IF i <= Len(a) THEN a[i] ELSE b[i - Len(a)]
  BY <1>1, <1>2, ConcatProperties
<1>5. Len(s) \in Nat /\ m \in Nat /\ m >= 1 /\ m <= Len(s)
  BY LenProperties
<1>6. Len(a \o b) = Len(s) - 1
  BY <1>1, <1>2, <1>4, <1>5
<1>7. ASSUME NEW i \in 1..(Len(s) - 1)
      PROVE  (a \o b)[i] = IF i < m THEN s[i] ELSE s[i + 1]
  <2>1. CASE i < m
    BY <1>1, <1>2, <1>4, <1>5, <2>1
  <2>2. CASE ~(i < m)
    <3>1. (a \o b)[i] = b[i - (m - 1)] /\ i - (m - 1) \in 1..(Len(s) - m)
      BY <1>1, <1>2, <1>4, <1>5, <2>2
    <3>2. b[i - (m - 1)] = s[m + (i - (m - 1))] /\ m + (i - (m - 1)) = i + 1
      BY <1>2, <1>5, <3>1
    <3> QED BY <2>2, <3>1, <3>2
  <2> QED BY <2>1, <2>2
<1> QED BY <1>3, <1>4, <1>5, <1>6, <1>7 DEF Without

LEMMA DropLastWithout ==
  ASSUME NEW S, NEW s \in Seq(S), NEW I, I \subseteq DOMAIN s, I # {}
  PROVE  \E m \in I : DropLast(s, I) \in Seq(S) /\ Without(DropLast(s, I), s, m)
<1>1. Max(I) \in I /\ Max(I) \in 1..Len(s)
  BY GreatestIndex, LenProperties
<1> QED BY <1>1, RemoveAtWithout DEF DropLast

LEMMA DropLastType ==
  ASSUME NEW S, NEW s \in Seq(S), NEW I, I \subseteq DOMAIN s
  PROVE  /\ DropLast(s, I) \in Seq(S)
         /\ \A i \in DOMAIN DropLast(s, I) : \E j \in DOMAIN s : DropLast(s, I)[i] = s[j]
<1>1. CASE I = {}
  BY <1>1 DEF DropLast
<1>2. CASE I # {}
  <2>1. PICK m \in I : DropLast(s, I) \in Seq(S) /\ Without(DropLast(s, I), s, m)
    BY <1>2, DropLastWithout
  <2> DEFINE t == DropLast(s, I)
  <2> HIDE DEF t
  <2>2. t \in Seq(S) /\ Without(t, s, m)
    BY <2>1 DEF t
  <2>3. \A i \in DOMAIN t : \E j \in DOMAIN s : t[i] = s[j]
    <3> SUFFICES ASSUME NEW i \in DOMAIN t PROVE \E j \in DOMAIN s : t[i] = s[j]
      OBVIOUS
    <3>1. i \in 1..Len(t) /\ Len(t) = Len(s) - 1 /\ DOMAIN s = 1..Len(s) /\ Len(s) \in Nat
      BY <2>2, LenProperties DEF Without
    <3> QED BY <2>2, <3>1 DEF Without
  <2> QED BY <2>2, <2>3 DEF t
<1> QED BY <1>1, <1>2

LEMMA TailWithout ==
  ASSUME NEW S, NEW s \in Seq(S), s # <<>>
  PROVE  Without(Tail(s), s, 1)
BY HeadTailProperties, LenProperties, EmptySeq DEF Without

(* The entries of a list that call fn.                                     *)
Entry(s, fn) == {i \in 1..Len(s) : s[i].fn = fn}

LEMMA EntryFinite ==
  ASSUME NEW S, NEW s \in Seq(S), NEW fn
  PROVE  IsFiniteSet(Entry(s, fn)) /\ Cardinality(Entry(s, fn)) \in Nat
<1>1. Entry(s, fn) \subseteq 1..Len(s) /\ IsFiniteSet(1..Len(s))
  BY LenProperties, FS_Interval DEF Entry
<1> QED BY <1>1, FS_Subset, FS_CardinalityType

LEMMA EntryWithout ==
  ASSUME NEW S, NEW s \in Seq(S), NEW t \in Seq(S), NEW m, Without(t, s, m), NEW fn
  PROVE  Cardinality(Entry(t, fn)) = Cardinality(Entry(s, fn))
                                     - (IF s[m].fn = fn THEN 1 ELSE 0)
<1>1. m \in 1..Len(s) /\ Len(s) \in Nat /\ Len(t) = Len(s) - 1 /\ Len(t) \in Nat
  BY LenProperties DEF Without
<1> DEFINE A == Entry(t, fn)
           B == Entry(s, fn) \ {m}
           f == [i \in A |-> IF i < m THEN i ELSE i + 1]
<1>2. f \in Bijection(A, B)
  <2>1. \A i \in A : f[i] \in B
    BY <1>1 DEF Entry, Without
  <2>2. \A i \in A, j \in A : f[i] = f[j] => i = j
    BY <1>1 DEF Entry
  <2>3. \A b \in B : \E i \in A : f[i] = b
    <3> SUFFICES ASSUME NEW b \in B PROVE \E i \in A : f[i] = b
      OBVIOUS
    <3> DEFINE i == IF b < m THEN b ELSE b - 1
    <3>1. i \in 1..Len(t) /\ t[i] = s[b]
      BY <1>1 DEF Entry, Without
    <3>2. i \in A
      BY <3>1 DEF Entry
    <3>3. f[i] = b
      BY <1>1, <3>2 DEF Entry
    <3> QED BY <3>2, <3>3
  <2> HIDE DEF f, A, B
  <2>4. f \in [A -> B]
    BY <2>1 DEF f
  <2> QED BY <2>2, <2>3, <2>4, Fun_IsBij
<1>3. IsFiniteSet(Entry(s, fn)) /\ Cardinality(Entry(s, fn)) \in Nat /\ IsFiniteSet(A)
  BY EntryFinite
<1>4. IsFiniteSet(B) /\ Cardinality(B) = Cardinality(Entry(s, fn))
                                         - (IF m \in Entry(s, fn) THEN 1 ELSE 0)
  BY <1>3, FS_RemoveElement
<1>5. Cardinality(A) = Cardinality(B)
  <2> HIDE DEF f, A, B
  <2> QED BY <1>2, <1>3, FS_Bijection DEF ExistsBijection
<1>6. m \in Entry(s, fn) <=> s[m].fn = fn
  BY <1>1 DEF Entry
<1> QED BY <1>4, <1>5, <1>6

LEMMA EntryAppend ==
  ASSUME NEW S, NEW s \in Seq(S), NEW x \in S, NEW fn
  PROVE  Cardinality(Entry(Append(s, x), fn)) = Cardinality(Entry(s, fn))
                                                + (IF x.fn = fn THEN 1 ELSE 0)
<1>1. /\ Len(s) \in Nat /\ Len(Append(s, x)) = Len(s) + 1
      /\ \A i \in 1..Len(s) : Append(s, x)[i] = s[i]
      /\ Append(s, x)[Len(s) + 1] = x
  BY LenProperties, AppendProperties
<1>2. Entry(Append(s, x), fn) = Entry(s, fn) \cup (IF x.fn = fn THEN {Len(s) + 1} ELSE {})
  BY <1>1 DEF Entry
<1>3. Len(s) + 1 \notin Entry(s, fn)
  BY <1>1 DEF Entry
<1>4. IsFiniteSet(Entry(s, fn)) /\ Cardinality(Entry(s, fn)) \in Nat
  BY EntryFinite
<1>5. CASE x.fn = fn
  BY <1>2, <1>3, <1>4, <1>5, FS_AddElement
<1>6. CASE x.fn # fn
  BY <1>2, <1>4, <1>6
<1> QED BY <1>5, <1>6

-----------------------------------------------------------------------------
(* The stack.                                                              *)

(* A method's events and what listeners emit call listeners.               *)
Shape ==
  \A k \in 1..Len(stack) :
    /\ k = 1 => stack[k].kind # "listener"
    /\ k > 1 => stack[k].kind = IF stack[k - 1].kind = "emit" THEN "listener" ELSE "emit"

Typed == EventTypeOK /\ Shape

Keeps(n) == Len(stack') >= n /\ \A k \in 1..n : stack'[k] = stack[k]

(* The frames from the n-th on go.                                         *)
Pops(n) == n \in 1..Len(stack) /\ Len(stack') = n - 1 /\ Keeps(n - 1)

(* A frame is added.                                                       *)
Pushes(f) ==
  f \in Frame /\ Len(stack') = Len(stack) + 1 /\ Keeps(Len(stack)) /\ stack'[Len(stack) + 1] = f

(* The next entry of the innermost frame is taken.                         *)
Takes ==
  /\ stack # <<>> /\ Top.todo # <<>>
  /\ Len(stack') \in {Len(stack), Len(stack) + 1} /\ Keeps(Len(stack) - 1)
  /\ stack'[Len(stack)] = [Top EXCEPT !.todo = Tail(@)]

LEMMA FrameKinds ==
  ASSUME NEW f \in Frame
  PROVE  /\ f.kind \in {"method", "emit", "listener"}
         /\ f.kind = "method" => /\ f.method \in Method /\ f.todo \in Seq(Event \cup {NoEvent})
                                 /\ f = [kind |-> "method", method |-> f.method, todo |-> f.todo]
         /\ f.kind # "method" => /\ f.event \in Event /\ f.todo \in Seq(Subscription)
                                 /\ f = [kind |-> f.kind, event |-> f.event, todo |-> f.todo]
BY DEF Frame

LEMMA StackFacts ==
  ASSUME EventTypeOK, stack # <<>>
  PROVE  /\ Len(stack) \in Nat /\ Len(stack) >= 1
         /\ Top \in Frame /\ Top = stack[Len(stack)]
         /\ Front(stack) \in Seq(Frame) /\ Len(Front(stack)) = Len(stack) - 1
         /\ \A k \in 1..(Len(stack) - 1) : Front(stack)[k] = stack[k]
<1>1. stack \in Seq(Frame) /\ Len(stack) \in Nat /\ Len(stack) >= 1
  BY EmptySeq, LenProperties DEF EventTypeOK
<1>2. Top = stack[Len(stack)] /\ Top \in Frame
  BY <1>1, ElementOfSeq DEF Top, Last
<1>3. \A k \in 1..(Len(stack) - 1) : stack[k] \in Frame
  BY <1>1, ElementOfSeq
<1>4. /\ Front(stack) \in Seq(Frame)
      /\ Len(Front(stack)) = IF 1 <= Len(stack) - 1 THEN Len(stack) - 1 - 1 + 1 ELSE 0
      /\ \A k \in 1..(Len(stack) - 1 - 1 + 1) : Front(stack)[k] = stack[1 + k - 1]
  BY <1>1, <1>3, SubSeqProperties DEF Front
<1>5. ASSUME NEW k \in 1..(Len(stack) - 1) PROVE Front(stack)[k] = stack[k]
  <2>1. k \in 1..(Len(stack) - 1 - 1 + 1) /\ 1 + k - 1 = k
    BY <1>1
  <2> QED BY <1>4, <2>1
<1>6. Len(Front(stack)) = Len(stack) - 1
  <2>1. Len(stack) \in Nat /\ Len(stack) >= 1
    BY <1>1
  <2>2. Len(Front(stack)) = IF 1 <= Len(stack) - 1 THEN Len(stack) - 1 - 1 + 1 ELSE 0
    BY <1>4
  <2>3. \A n \in Nat : n >= 1 => (IF 1 <= n - 1 THEN n - 1 - 1 + 1 ELSE 0) = n - 1
    OBVIOUS
  <2> QED BY <2>1, <2>2, <2>3
<1> QED BY <1>1, <1>2, <1>4, <1>5, <1>6

LEMMA StackPops ==
  ASSUME EventTypeOK, stack # <<>>, NEW j \in 0..(Len(stack) - 1), stack' = SubSeq(stack, 1, j)
  PROVE  stack' \in Seq(Frame) /\ Pops(j + 1)
<1>1. stack \in Seq(Frame) /\ Len(stack) \in Nat /\ Len(stack) >= 1
  BY StackFacts DEF EventTypeOK
<1>2. \A k \in 1..j : stack[k] \in Frame
  BY <1>1, ElementOfSeq
<1>3. /\ SubSeq(stack, 1, j) \in Seq(Frame)
      /\ Len(SubSeq(stack, 1, j)) = IF 1 <= j THEN j - 1 + 1 ELSE 0
      /\ \A k \in 1..(j - 1 + 1) : SubSeq(stack, 1, j)[k] = stack[1 + k - 1]
  BY <1>2, SubSeqProperties
<1>4. Len(stack') = j /\ \A k \in 1..j : stack'[k] = stack[k]
  BY <1>3
<1> QED BY <1>1, <1>3, <1>4 DEF Pops, Keeps

LEMMA StackPushes ==
  ASSUME EventTypeOK, NEW f \in Frame, stack' = Append(stack, f)
  PROVE  stack' \in Seq(Frame) /\ Pushes(f)
BY AppendProperties, LenProperties DEF EventTypeOK, Pushes, Keeps

LEMMA FrameTakes ==
  ASSUME NEW f \in Frame, f.todo # <<>>
  PROVE  [f EXCEPT !.todo = Tail(@)] \in Frame
<1>1. CASE f.kind = "method"
  <2>1. f.todo \in Seq(Event \cup {NoEvent}) /\ f.method \in Method
        /\ f = [kind |-> "method", method |-> f.method, todo |-> f.todo]
    BY <1>1, FrameKinds
  <2>2. Tail(f.todo) \in Seq(Event \cup {NoEvent})
    BY <2>1, HeadTailProperties
  <2> QED BY <2>1, <2>2 DEF Frame
<1>2. CASE f.kind # "method"
  <2>1. f.todo \in Seq(Subscription) /\ f.event \in Event /\ f.kind \in {"emit", "listener"}
        /\ f = [kind |-> f.kind, event |-> f.event, todo |-> f.todo]
    BY <1>2, FrameKinds
  <2>2. Tail(f.todo) \in Seq(Subscription)
    BY <2>1, HeadTailProperties
  <2> QED BY <2>1, <2>2 DEF Frame
<1> QED BY <1>1, <1>2

(* The entry of the innermost frame is taken, and its listener or emit     *)
(* pushed, if any.                                                         *)
LEMMA TakenFrame ==
  ASSUME NEW f \in Frame, NEW u
  PROVE  /\ [f EXCEPT !.todo = u].kind = f.kind /\ [f EXCEPT !.todo = u].todo = u
         /\ f.kind = "method" => [f EXCEPT !.todo = u].method = f.method
         /\ f.kind # "method" => [f EXCEPT !.todo = u].event = f.event
BY DEF Frame

LEMMA StackTakes ==
  ASSUME EventTypeOK, stack # <<>>, Top.todo # <<>>, NEW rest,
         rest = Append(Front(stack), [Top EXCEPT !.todo = Tail(@)])
  PROVE  /\ stack' = rest =>
              stack' \in Seq(Frame) /\ Takes /\ Len(stack') = Len(stack)
         /\ \A f \in Frame : stack' = Append(rest, f) =>
              /\ stack' \in Seq(Frame) /\ Takes
              /\ Len(stack') = Len(stack) + 1 /\ stack'[Len(stack) + 1] = f
<1> DEFINE g == [Top EXCEPT !.todo = Tail(@)]
<1>1. /\ Len(stack) \in Nat /\ Len(stack) >= 1 /\ g \in Frame
      /\ Front(stack) \in Seq(Frame) /\ Len(Front(stack)) = Len(stack) - 1
      /\ \A k \in 1..(Len(stack) - 1) : Front(stack)[k] = stack[k]
  BY StackFacts, FrameTakes
<1> HIDE DEF g
<1>2. /\ rest \in Seq(Frame) /\ Len(rest) = Len(stack)
      /\ \A k \in 1..(Len(stack) - 1) : rest[k] = stack[k]
      /\ rest[Len(stack)] = g
  BY <1>1, AppendProperties DEF g
<1>3. stack' = rest => stack' \in Seq(Frame) /\ Takes /\ Len(stack') = Len(stack)
  BY <1>1, <1>2 DEF Takes, Keeps, g
<1>4. ASSUME NEW f \in Frame, stack' = Append(rest, f)
      PROVE  /\ stack' \in Seq(Frame) /\ Takes
             /\ Len(stack') = Len(stack) + 1 /\ stack'[Len(stack) + 1] = f
  <2>1. /\ Append(rest, f) \in Seq(Frame) /\ Len(Append(rest, f)) = Len(rest) + 1
        /\ \A k \in 1..Len(rest) : Append(rest, f)[k] = rest[k]
        /\ Append(rest, f)[Len(rest) + 1] = f
    BY <1>2, AppendProperties
  <2> QED BY <1>1, <1>2, <1>4, <2>1 DEF Takes, Keeps, g
<1> QED BY <1>3, <1>4

LEMMA ShapePops ==
  ASSUME Typed, NEW n, Pops(n)
  PROVE  Shape'
<1>1. /\ Len(stack) \in Nat /\ n \in 1..Len(stack)
      /\ Len(stack') = n - 1 /\ \A k \in 1..(n - 1) : stack'[k] = stack[k]
  BY LenProperties DEF Typed, EventTypeOK, Pops, Keeps
<1>2. ASSUME NEW k \in 1..(n - 1)
      PROVE  /\ k = 1 => stack[k].kind # "listener"
             /\ k > 1 => stack[k].kind = IF stack[k - 1].kind = "emit"
                                         THEN "listener" ELSE "emit"
  BY <1>1 DEF Typed, Shape
<1> QED BY <1>1, <1>2 DEF Shape

LEMMA ShapePushes ==
  ASSUME Typed, NEW f, Pushes(f), f.kind = "emit" \/ (f.kind = "method" /\ stack = <<>>),
         stack = <<>> \/ InListener
  PROVE  Shape'
<1>1. Len(stack) \in Nat /\ stack \in Seq(Frame)
  BY LenProperties DEF Typed, EventTypeOK
<1>2. stack # <<>> => Top = stack[Len(stack)] /\ Len(stack) >= 1
  BY StackFacts DEF Typed
<1>3. stack = <<>> => Len(stack) = 0
  BY EmptySeq
<1> QED BY <1>1, <1>2, <1>3 DEF Typed, Shape, Pushes, Keeps, InListener

LEMMA ShapeTakes ==
  ASSUME Typed, Takes,
         Len(stack') = Len(stack) + 1 =>
           stack'[Len(stack) + 1].kind = IF Top.kind = "emit" THEN "listener" ELSE "emit"
  PROVE  Shape'
<1>1. Len(stack) \in Nat /\ Len(stack) >= 1 /\ Top = stack[Len(stack)] /\ Top \in Frame
  BY StackFacts DEF Typed, Takes
<1>2. stack'[Len(stack)].kind = Top.kind
  <2>1. DOMAIN Top = {"kind", "method", "todo"} \/ DOMAIN Top = {"kind", "event", "todo"}
    BY <1>1 DEF Frame
  <2> QED BY <2>1 DEF Takes
<1>3. /\ Len(stack') \in {Len(stack), Len(stack) + 1}
      /\ \A k \in 1..(Len(stack) - 1) : stack'[k] = stack[k]
  BY DEF Takes, Keeps
<1>4. \A k \in 1..Len(stack) : stack'[k].kind = stack[k].kind
  BY <1>1, <1>2, <1>3
<1>5. ASSUME NEW k \in 1..Len(stack')
      PROVE  /\ k = 1 => stack'[k].kind # "listener"
             /\ k > 1 => stack'[k].kind = IF stack'[k - 1].kind = "emit"
                                          THEN "listener" ELSE "emit"
  <2>1. CASE k \in 1..Len(stack)
    <3>1. /\ k = 1 => stack[k].kind # "listener"
          /\ k > 1 => stack[k].kind = IF stack[k - 1].kind = "emit"
                                      THEN "listener" ELSE "emit"
      BY <2>1 DEF Typed, Shape
    <3>2. k > 1 => k - 1 \in 1..Len(stack)
      BY <1>1, <2>1
    <3> QED BY <1>4, <2>1, <3>1, <3>2
  <2>2. CASE k = Len(stack) + 1
    BY <1>1, <1>2, <1>3, <2>2
  <2> QED BY <1>1, <1>3, <2>1, <2>2
<1> QED BY <1>5 DEF Shape

-----------------------------------------------------------------------------
(* Steps.                                                                  *)

Records == <<calls, ops, open, runs, heard, muted, eventsDisabled>>

(* The sequences that an event, or a method, makes frames of.              *)
LEMMA EmittingFrame ==
  ASSUME EventTypeOK, NEW e \in Event
  PROVE  Emitting(e) \in Frame /\ Emitting(e) = [kind |-> "emit", event |-> e, todo |-> subs[e]]
BY DEF EventTypeOK, Emitting, Frame

LEMMA ValidEvent ==
  ASSUME NEW e \in Event \cup {NoEvent}, IsValidEvent(e)
  PROVE  e = NoEvent => FALSE
<1>1. FieldEvents \in Seq(Field \X Event) /\ Declared \subseteq Event /\ NoEvent \notin Event
  BY EventAssumption
<1>2. \A i \in DOMAIN FieldEvents : FieldEvents[i][2] \in Event
  <2> SUFFICES ASSUME NEW i \in DOMAIN FieldEvents PROVE FieldEvents[i][2] \in Event
    OBVIOUS
  <2>1. FieldEvents[i] \in Field \X Event
    BY <1>1, LenProperties, ElementOfSeq
  <2> QED BY <2>1
<1> QED BY <1>1, <1>2 DEF IsValidEvent, BaseEvent, NoEvent

LEMMA FiresType ==
  ASSUME NEW m \in Method
  PROVE  /\ Fires(m) \in Seq(Event \cup {NoEvent}) /\ Fires(m) # <<>>
         /\ m.op # "custom" => Fires(m)[1] = m.op
         /\ m.op # "update" => Len(Fires(m)) = 1
                               /\ Fires(m)[1] = IF m.op = "custom" THEN m.event ELSE m.op
         /\ m.op = "update" =>
              /\ Len(Fires(m)) = Len(FieldEvents) + 1
              /\ \A i \in 1..Len(FieldEvents) :
                   Fires(m)[i + 1] = IF m.upd[FieldEvents[i][1]] = "same" THEN NoEvent
                                     ELSE FieldEvents[i][2]
<1>1. m \in MethodType /\ m.op \in {"custom"} \cup Event /\ m.event \in Event
  BY EventAssumption DEF MethodType
<1>2. CASE m.op = "update"
  <2> DEFINE fe == FireFieldEvents(m)
             T == Event \cup {NoEvent}
  <2>1. FieldEvents \in Seq(Field \X Event)
    BY EventAssumption
  <2>2. DOMAIN FieldEvents = 1..Len(FieldEvents) /\ Len(FieldEvents) \in Nat
    BY <2>1, LenProperties
  <2>3. ASSUME NEW i \in 1..Len(FieldEvents) PROVE fe[i] \in T
    <3>1. FieldEvents[i] \in Field \X Event
      BY <2>1, ElementOfSeq
    <3> QED BY <2>2, <3>1 DEF FireFieldEvents
  <2>4. fe = [i \in 1..Len(FieldEvents) |-> fe[i]]
    BY <2>2 DEF FireFieldEvents
  <2>5. \A i \in 1..Len(FieldEvents) :
          fe[i] = IF m.upd[FieldEvents[i][1]] = "same" THEN NoEvent ELSE FieldEvents[i][2]
    BY <2>2 DEF FireFieldEvents
  <2> HIDE DEF fe
  <2>6. fe \in Seq(T) /\ Len(fe) = Len(FieldEvents)
    BY <2>2, <2>3, <2>4
  <2>7. <<"update">> \in Seq(T) /\ Len(<<"update">>) = 1 /\ <<"update">>[1] = "update"
    BY <1>1, <1>2
  <2>8. Fires(m) = <<"update">> \o fe
    BY <1>2 DEF Fires, fe
  <2>9. /\ Fires(m) \in Seq(T) /\ Len(Fires(m)) = 1 + Len(fe)
        /\ \A i \in 1..(1 + Len(fe)) :
             Fires(m)[i] = IF i <= 1 THEN <<"update">>[i] ELSE fe[i - 1]
    BY <2>6, <2>7, <2>8, ConcatProperties
  <2>10. Fires(m)[1] = "update"
    BY <2>2, <2>6, <2>7, <2>9
  <2>11. \A i \in 1..Len(FieldEvents) : Fires(m)[i + 1] = fe[i]
    BY <2>2, <2>6, <2>9
  <2>12. Fires(m) # <<>>
    BY <2>2, <2>6, <2>9
  <2> QED BY <1>2, <2>2, <2>5, <2>6, <2>9, <2>10, <2>11, <2>12
<1>3. CASE m.op # "update"
  <2>1. Fires(m) = <<IF m.op = "custom" THEN m.event ELSE m.op>>
    BY <1>3 DEF Fires
  <2> QED BY <1>1, <1>3, <2>1
<1> QED BY <1>2, <1>3

(* A method fires an event, or one that nobody may hear.                   *)
LEMMA FireFacts ==
  ASSUME Typed, FireEvent
  PROVE  /\ Len(stack) = 1 /\ stack[1].kind = "method" /\ stack[1].todo # <<>> /\ Takes
         /\ stack' \in Seq(Frame) /\ Shape'
         /\ UNCHANGED <<subs, fired, made, Records>>
         /\ LET e == Head(stack[1].todo)
            IN  IF eventsDisabled \/ ~IsValidEvent(e) THEN Len(stack') = 1
                ELSE e \in Event /\ Len(stack') = 2 /\ stack'[2] = Emitting(e)
<1> DEFINE e == Head(Top.todo)
           rest == <<[Top EXCEPT !.todo = Tail(@)]>>
<1>1. /\ Len(stack) \in Nat /\ Len(stack) >= 1 /\ Top \in Frame /\ Top = stack[Len(stack)]
      /\ Front(stack) \in Seq(Frame) /\ Len(Front(stack)) = Len(stack) - 1
      /\ stack # <<>> /\ Top.todo # <<>> /\ Top.kind = "method"
  BY StackFacts DEF FireEvent, Typed
<1>2. Len(stack) = 1
  BY <1>1 DEF Typed, Shape
<1>3. Top.todo \in Seq(Event \cup {NoEvent}) /\ e \in Event \cup {NoEvent}
  BY <1>1, FrameKinds, HeadTailProperties
<1>4. rest = Append(Front(stack), [Top EXCEPT !.todo = Tail(@)])
  <2>1. Front(stack) = <<>>
    BY <1>1, <1>2, EmptySeq
  <2> QED BY <2>1
<1>5. /\ UNCHANGED <<subs, fired, made, Records>>
      /\ stack' = IF eventsDisabled \/ ~IsValidEvent(e) THEN rest ELSE Append(rest, Emitting(e))
  BY DEF FireEvent, Records
<1> HIDE DEF rest
<1>6. CASE eventsDisabled \/ ~IsValidEvent(e)
  <2>1. stack' \in Seq(Frame) /\ Takes /\ Len(stack') = Len(stack)
    BY <1>1, <1>4, <1>5, <1>6, StackTakes DEF Typed
  <2>2. Shape'
    BY <1>2, <2>1, ShapeTakes
  <2> QED BY <1>1, <1>2, <1>5, <1>6, <2>1, <2>2
<1>7. CASE ~(eventsDisabled \/ ~IsValidEvent(e))
  <2>1. e \in Event
    BY <1>3, <1>7, ValidEvent
  <2>2. Emitting(e) \in Frame /\ Emitting(e).kind = "emit"
    BY <2>1, EmittingFrame DEF Typed
  <2>3. stack' \in Seq(Frame) /\ Takes /\ Len(stack') = Len(stack) + 1
        /\ stack'[Len(stack) + 1] = Emitting(e)
    BY <1>1, <1>4, <1>5, <1>7, <2>2, StackTakes DEF Typed
  <2>4. Shape'
    BY <1>1, <2>2, <2>3, ShapeTakes
  <2> QED BY <1>1, <1>2, <1>5, <1>7, <2>1, <2>3, <2>4
<1> QED BY <1>6, <1>7

(* The bus takes the next listener of an emit, and calls it unless it was  *)
(* a subscription of once already called.                                  *)
LEMMA DeliverFacts ==
  ASSUME Typed, CallListener
  PROVE  LET s == Head(Top.todo)
             fresh == Len(stack) = 2 /\ stack[1].kind = "method" /\ s.fn = Audit
         IN
         /\ Takes /\ Top.kind = "emit" /\ Top.todo \in Seq(Subscription) /\ Top.event \in Event
         /\ s \in Subscription /\ s = Top.todo[1]
         /\ stack' \in Seq(Frame) /\ Shape'
         /\ UNCHANGED <<made, eventsDisabled, calls, ops, open, muted>>
         /\ \/ /\ Skip(s) /\ Len(stack') = Len(stack)
               /\ UNCHANGED <<subs, fired, runs, heard>>
            \/ /\ ~Skip(s) /\ Len(stack') = Len(stack) + 1
               /\ stack'[Len(stack) + 1] =
                    [kind |-> "listener", event |-> Top.event, todo |-> <<s>>]
               /\ fired' = IF s.once THEN fired \cup {s.id} ELSE fired
               /\ IF s.once
                  THEN LET l == subs[Top.event]
                       IN  subs' = [subs EXCEPT ![Top.event] =
                                      DropLast(l, {i \in DOMAIN l : l[i].id = s.id})]
                  ELSE subs' = subs
               /\ runs' = IF s.fn \in Single THEN [runs EXCEPT ![s.id] = @ + 1] ELSE runs
               /\ heard' = IF fresh THEN Append(heard, Top.event) ELSE heard
<1> DEFINE s == Head(Top.todo)
           rest == Append(Front(stack), [Top EXCEPT !.todo = Tail(@)])
           f == [kind |-> "listener", event |-> Top.event, todo |-> <<s>>]
<1>1. /\ stack # <<>> /\ Top.kind = "emit" /\ Top.todo # <<>> /\ Top \in Frame
      /\ Len(stack) \in Nat /\ Len(stack) >= 1
      /\ UNCHANGED <<made, eventsDisabled, calls, ops, open, muted>>
  BY StackFacts DEF CallListener, Deliver, Typed
<1>2. Top.todo \in Seq(Subscription) /\ Top.event \in Event
  BY <1>1, FrameKinds
<1>3. s \in Subscription /\ s = Top.todo[1]
  BY <1>1, <1>2, HeadTailProperties
<1>4. f \in Frame /\ f.kind = "listener"
  <2>1. <<s>> \in Seq(Subscription)
    BY <1>3
  <2> QED BY <1>2, <2>1 DEF Frame
<1>5. CASE Skip(s)
  <2>1. stack' = rest /\ subs' = subs /\ fired' = fired
    BY <1>5 DEF CallListener, Deliver
  <2>2. stack' \in Seq(Frame) /\ Takes /\ Len(stack') = Len(stack)
    BY <1>1, <2>1, StackTakes DEF Typed
  <2>3. Shape'
    BY <1>1, <2>2, ShapeTakes
  <2>4. runs' = runs /\ heard' = heard
    <3>1. ~(Len(stack') > Len(stack))
      BY <1>1, <2>2
    <3> QED BY <3>1 DEF CallListener
  <2> QED BY <1>1, <1>2, <1>3, <1>5, <2>1, <2>2, <2>3, <2>4
<1>6. CASE ~Skip(s)
  <2>1. /\ stack' = Append(rest, f)
        /\ fired' = IF s.once THEN fired \cup {s.id} ELSE fired
        /\ IF s.once
           THEN LET l == subs[Top.event]
                IN  subs' = [subs EXCEPT ![Top.event] =
                               DropLast(l, {i \in DOMAIN l : l[i].id = s.id})]
           ELSE subs' = subs
    BY <1>6 DEF CallListener, Deliver
  <2> HIDE DEF f
  <2>2. /\ stack' \in Seq(Frame) /\ Takes /\ Len(stack') = Len(stack) + 1
        /\ stack'[Len(stack) + 1] = f
    BY <1>1, <1>4, <2>1, StackTakes DEF Typed
  <2>3. Shape'
    BY <1>1, <1>4, <2>2, ShapeTakes
  <2>4. /\ runs' = IF s.fn \in Single THEN [runs EXCEPT ![s.id] = @ + 1] ELSE runs
        /\ heard' = IF s.fn = Audit /\ Len(stack) = 2 /\ stack[1].kind = "method"
                    THEN Append(heard, Top.event) ELSE heard
    <3>1. Len(stack') > Len(stack)
      BY <1>1, <2>2
    <3> QED BY <3>1 DEF CallListener
  <2> QED BY <1>1, <1>2, <1>3, <1>6, <2>1, <2>2, <2>3, <2>4 DEF f
<1> QED BY <1>5, <1>6

(* An emit, a listener or a method ends, or an error ends several frames.  *)
LEMMA EndFacts ==
  ASSUME Typed, Unwind \/ Finish
  PROVE  /\ stack' \in Seq(Frame) /\ Shape' /\ UNCHANGED <<subs, fired, made, Records>>
         /\ \E n \in 1..Len(stack) :
              Pops(n) /\ (n = 1 \/ stack[n - 1].kind # "method" \/ stack[n].todo = <<>>)
<1>1. UNCHANGED <<subs, fired, made, Records>> /\ stack # <<>>
  BY DEF Unwind, Finish, Emitted, Return, Throw, InListener, Records
<1>2. /\ Len(stack) \in Nat /\ Len(stack) >= 1 /\ Top \in Frame /\ Top = stack[Len(stack)]
      /\ stack \in Seq(Frame)
  BY <1>1, StackFacts DEF Typed, EventTypeOK
<1>3. Len(stack) > 1 => stack[Len(stack)].kind = IF stack[Len(stack) - 1].kind = "emit"
                                               THEN "listener" ELSE "emit"
  BY <1>2 DEF Typed, Shape
<1>4. \E j \in 0..(Len(stack) - 1) :
        /\ stack' = SubSeq(stack, 1, j)
        /\ j = 0 \/ stack[j].kind # "method" \/ stack[j + 1].todo = <<>>
  <2>0. /\ 0 \in 0..(Len(stack) - 1)
        /\ Len(stack) - 1 \in 0..(Len(stack) - 1)
        /\ \A j \in 1..(Len(stack) - 1) : j \in 0..(Len(stack) - 1)
        /\ (Len(stack) - 1) + 1 = Len(stack)
    <3>1. \A n \in Nat : n >= 1 => /\ 0 \in 0..(n - 1) /\ n - 1 \in 0..(n - 1)
                                   /\ \A j \in 1..(n - 1) : j \in 0..(n - 1)
                                   /\ (n - 1) + 1 = n
      OBVIOUS
    <3> QED BY <1>2, <3>1
  <2>1. CASE Emitted
    <3>1. stack' = SubSeq(stack, 1, Len(stack) - 1) /\ stack[Len(stack)].todo = <<>>
      BY <1>2, <2>1 DEF Emitted, Front
    <3> QED BY <2>0, <3>1
  <2>2. CASE Return
    <3>1. /\ stack' = SubSeq(stack, 1, Len(stack) - 1)
          /\ stack[Len(stack)].kind = "listener"
      BY <1>2, <2>2 DEF Return, InListener, Front
    <3>2. ASSUME Len(stack) > 1 PROVE stack[Len(stack) - 1].kind # "method"
      BY <1>3, <3>1, <3>2
    <3>3. Len(stack) > 1 \/ Len(stack) - 1 = 0
      <4>1. \A n \in Nat : n >= 1 => n > 1 \/ n - 1 = 0
        OBVIOUS
      <4> QED BY <1>2, <4>1
    <3> QED BY <2>0, <3>1, <3>2, <3>3
  <2>3. CASE Throw
    <3>1. PICK j \in {0} \cup {j \in 1..(Len(stack) - 1) : stack[j].kind = "listener"} :
            stack' = SubSeq(stack, 1, j)
      BY <2>3 DEF Throw
    <3>2. j \in 0..(Len(stack) - 1)
      BY <2>0, <3>1
    <3>3. j = 0 \/ stack[j].kind = "listener"
      BY <3>1
    <3>4. j = 0 \/ stack[j].kind # "method"
      BY <3>3
    <3> QED BY <3>1, <3>2, <3>4
  <2>4. CASE Finish
    <3>1. stack' = <<>> /\ SubSeq(stack, 1, 0) = <<>>
      BY <2>4, SubSeqEmpty DEF Finish
    <3> QED BY <2>0, <3>1
  <2> QED BY <2>1, <2>2, <2>3, <2>4 DEF Unwind
<1>5. PICK j \in 0..(Len(stack) - 1) :
        /\ stack' = SubSeq(stack, 1, j)
        /\ j = 0 \/ stack[j].kind # "method" \/ stack[j + 1].todo = <<>>
  BY <1>4
<1>6. stack' \in Seq(Frame) /\ Pops(j + 1)
  BY <1>1, <1>5, StackPops DEF Typed
<1>7. j + 1 \in 1..Len(stack) /\ (j + 1) - 1 = j
  BY <1>2
<1>8. Shape'
  BY <1>6, ShapePops
<1> QED BY <1>1, <1>5, <1>6, <1>7, <1>8

(* A service or a listener emits an event.                                 *)
LEMMA EmitFacts ==
  ASSUME Typed, NEW e \in Event, EmitDirectly(e)
  PROVE  /\ stack' \in Seq(Frame) /\ Shape' /\ Pushes(Emitting(e)) /\ (stack = <<>> \/ InListener)
         /\ UNCHANGED <<subs, fired, made, calls, open, runs, heard, muted, eventsDisabled>>
<1>1. /\ stack = <<>> \/ InListener
      /\ stack' = Append(stack, Emitting(e))
      /\ UNCHANGED <<subs, fired, made, calls, open, runs, heard, muted, eventsDisabled>>
  BY DEF EmitDirectly, Use, Emit
<1>2. Emitting(e) \in Frame /\ Emitting(e).kind = "emit"
  BY EmittingFrame DEF Typed
<1>3. stack' \in Seq(Frame) /\ Pushes(Emitting(e))
  BY <1>1, <1>2, StackPushes DEF Typed
<1> QED BY <1>1, <1>2, <1>3, ShapePushes

(* A method comes to its first event.                                      *)
LEMMA StartFacts ==
  ASSUME Typed, NEW m \in Method, Start(m)
  PROVE  /\ stack = <<>> /\ stack' \in Seq(Frame) /\ Shape' /\ Len(stack') = 1
         /\ stack'[1] = [kind |-> "method", method |-> m, todo |-> Fires(m)]
         /\ heard' = <<>> /\ muted' = eventsDisabled
         /\ UNCHANGED <<subs, fired, made, eventsDisabled, open, runs>>
<1> DEFINE f == [kind |-> "method", method |-> m, todo |-> Fires(m)]
<1>1. /\ stack = <<>> /\ stack' = <<f>>
      /\ heard' = <<>> /\ muted' = eventsDisabled
      /\ UNCHANGED <<subs, fired, made, eventsDisabled, open, runs>>
  BY DEF Start
<1>2. f \in Frame /\ f.kind = "method"
  BY FiresType DEF Frame
<1> HIDE DEF f
<1>3. stack' \in Seq(Frame) /\ Len(stack') = 1 /\ stack'[1] = f
  BY <1>1, <1>2
<1>4. Shape'
  BY <1>2, <1>3 DEF Shape
<1> QED BY <1>1, <1>3, <1>4 DEF f

(* A subscription of the function is added to the list of the event.       *)
Adds(e, x) ==
  /\ x \in Subscription /\ x.id = made + 1
  /\ made' = made + 1
  /\ subs' = [subs EXCEPT ![e] = Append(@, x)]
  /\ UNCHANGED <<fired, stack, heard, eventsDisabled, muted>>
  /\ runs' = Append(runs, 0)

LEMMA SubscribeFacts ==
  ASSUME EventTypeOK, NEW e \in Event
  PROVE  /\ \A fn \in Shared : SubscribeOn(e, fn) =>
              /\ Adds(e, [id |-> made + 1, fn |-> fn, once |-> FALSE])
              /\ open' = open \cup {[id |-> made + 1, event |-> e, fn |-> fn]}
         /\ \A fn \in Single : SubscribeOnce(e, fn) =>
              /\ Adds(e, [id |-> made + 1, fn |-> fn, once |-> TRUE])
              /\ open' = open
<1>1. made \in Nat /\ Shared \subseteq Listener /\ Single \subseteq Listener
  BY EventAssumption DEF EventTypeOK
<1> QED BY <1>1 DEF SubscribeOn, SubscribeOnce, On, Once, Subscribe, Use, Adds, Subscription

(* The last subscription of the function, if any, leaves the event's list. *)
Drops(e, fn) ==
  /\ subs' = [subs EXCEPT ![e] = DropLast(subs[e], {i \in DOMAIN subs[e] : subs[e][i].fn = fn})]
  /\ UNCHANGED <<fired, made, stack, heard, eventsDisabled, muted, runs>>

LEMMA OffFacts ==
  /\ \A e \in Event, fn \in Single : CancelOnce(e, fn) => Drops(e, fn) /\ open' = open
  /\ \A s \in open : Dispose(s) => Drops(s.event, s.fn) /\ open' = open \ {s}
BY DEF CancelOnce, Dispose, Use, Off, Drops

(* A list that loses an entry, if any, has no other entries than before.   *)
LEMMA DroppedList ==
  ASSUME EventTypeOK, NEW e \in Event, NEW I, I \subseteq DOMAIN subs[e],
         subs' = [subs EXCEPT ![e] = DropLast(subs[e], I)]
  PROVE  /\ subs' \in [Event -> Seq(Subscription)]
         /\ \A d \in Event : \A i \in DOMAIN subs'[d] : \E j \in DOMAIN subs[d] :
              subs'[d][i] = subs[d][j]
<1>1. subs[e] \in Seq(Subscription) /\ subs \in [Event -> Seq(Subscription)]
  BY DEF EventTypeOK
<1>2. /\ DropLast(subs[e], I) \in Seq(Subscription)
      /\ \A i \in DOMAIN DropLast(subs[e], I) :
           \E j \in DOMAIN subs[e] : DropLast(subs[e], I)[i] = subs[e][j]
  BY <1>1, DropLastType
<1>3. \A d \in Event : subs'[d] = IF d = e THEN DropLast(subs[e], I) ELSE subs[d]
  BY <1>1
<1> QED BY <1>1, <1>2, <1>3

LEMMA AddedList ==
  ASSUME EventTypeOK, NEW e \in Event, NEW x \in Subscription,
         subs' = [subs EXCEPT ![e] = Append(@, x)]
  PROVE  /\ subs' \in [Event -> Seq(Subscription)]
         /\ \A d \in Event : \A i \in DOMAIN subs'[d] :
              subs'[d][i] = x \/ \E j \in DOMAIN subs[d] : subs'[d][i] = subs[d][j]
<1>1. subs[e] \in Seq(Subscription) /\ subs \in [Event -> Seq(Subscription)]
  BY DEF EventTypeOK
<1>2. /\ Append(subs[e], x) \in Seq(Subscription)
      /\ \A i \in DOMAIN Append(subs[e], x) :
           Append(subs[e], x)[i] = x \/ \E j \in DOMAIN subs[e] : Append(subs[e], x)[i] = subs[e][j]
  <2>1. /\ Append(subs[e], x) \in Seq(Subscription) /\ Len(subs[e]) \in Nat
        /\ DOMAIN Append(subs[e], x) = 1..(Len(subs[e]) + 1) /\ DOMAIN subs[e] = 1..Len(subs[e])
        /\ \A i \in 1..Len(subs[e]) : Append(subs[e], x)[i] = subs[e][i]
        /\ Append(subs[e], x)[Len(subs[e]) + 1] = x
    BY <1>1, AppendProperties, LenProperties
  <2> QED BY <2>1
<1>3. \A d \in Event : subs'[d] = IF d = e THEN Append(subs[e], x) ELSE subs[d]
  BY <1>1
<1> QED BY <1>1, <1>2, <1>3

LEMMA RunsAdded ==
  ASSUME EventTypeOK, runs' = Append(runs, 0), made' = made + 1
  PROVE  /\ runs' \in [1..made' -> Nat]
         /\ \A n \in 1..made : runs'[n] = runs[n]
         /\ runs'[made + 1] = 0
<1>1. made \in Nat /\ runs \in Seq(Nat) /\ Len(runs) = made
  BY DEF EventTypeOK
<1>2. /\ runs' \in Seq(Nat) /\ Len(runs') = made + 1
      /\ \A n \in 1..made : runs'[n] = runs[n]
      /\ runs'[made + 1] = 0
  BY <1>1, AppendProperties
<1> QED BY <1>2, LenProperties

-----------------------------------------------------------------------------
(* The subscriptions that are around.                                      *)

OnList(s) == \E e \in Event : \E i \in DOMAIN subs[e] : subs[e][i] = s

OnStack(s) ==
  \E k \in 1..Len(stack) :
    stack[k].kind # "method" /\ \E i \in DOMAIN stack[k].todo : stack[k].todo[i] = s

Seen(s) == OnList(s) \/ OnStack(s)

(* Its id tells a subscription, and its function whether it is for once.   *)
KnownInv ==
  /\ \A s : Seen(s) => s.id \in 1..made /\ (s.once <=> s.fn \in Single)
  /\ \A s, t : Seen(s) /\ Seen(t) /\ s.id = t.id => s = t

Base == Typed /\ KnownInv

LEMMA OnStackPops ==
  ASSUME EventTypeOK, NEW n, Pops(n)
  PROVE  \A s : OnStack(s)' => OnStack(s)
<1>1. /\ Len(stack) \in Nat /\ n \in 1..Len(stack)
      /\ Len(stack') = n - 1 /\ \A k \in 1..(n - 1) : stack'[k] = stack[k]
  BY LenProperties DEF EventTypeOK, Pops, Keeps
<1> SUFFICES ASSUME NEW s, OnStack(s)' PROVE OnStack(s)
  OBVIOUS
<1>2. PICK k \in 1..(n - 1) :
        stack'[k].kind # "method" /\ \E i \in DOMAIN stack'[k].todo : stack'[k].todo[i] = s
  BY <1>1 DEF OnStack
<1>3. k \in 1..Len(stack) /\ stack'[k] = stack[k]
  BY <1>1, <1>2
<1> QED BY <1>2, <1>3 DEF OnStack

LEMMA OnStackPushes ==
  ASSUME EventTypeOK, NEW e \in Event, Pushes(Emitting(e))
  PROVE  \A s : OnStack(s)' => Seen(s)
<1> SUFFICES ASSUME NEW s, OnStack(s)' PROVE Seen(s)
  OBVIOUS
<1>1. PICK k \in 1..Len(stack') :
        stack'[k].kind # "method" /\ \E i \in DOMAIN stack'[k].todo : stack'[k].todo[i] = s
  BY DEF OnStack
<1>2. /\ Len(stack) \in Nat /\ Len(stack') = Len(stack) + 1
      /\ \A j \in 1..Len(stack) : stack'[j] = stack[j]
      /\ stack'[Len(stack) + 1].todo = subs[e]
  BY EmittingFrame, LenProperties DEF EventTypeOK, Pushes, Keeps
<1>3. CASE k \in 1..Len(stack)
  BY <1>1, <1>2, <1>3 DEF OnStack, Seen
<1>4. CASE k = Len(stack) + 1
  BY <1>1, <1>2, <1>4 DEF OnList, Seen
<1> QED BY <1>1, <1>2, <1>3, <1>4

LEMMA OnStackTakes ==
  ASSUME EventTypeOK, Takes, Top.kind # "method" => Top.todo \in Seq(Subscription),
         Len(stack') = Len(stack) + 1 =>
           \A i \in DOMAIN stack'[Len(stack) + 1].todo : Seen(stack'[Len(stack) + 1].todo[i])
  PROVE  \A s : OnStack(s)' => Seen(s)
<1> SUFFICES ASSUME NEW s, OnStack(s)' PROVE Seen(s)
  OBVIOUS
<1>1. PICK k \in 1..Len(stack') :
        stack'[k].kind # "method" /\ \E i \in DOMAIN stack'[k].todo : stack'[k].todo[i] = s
  BY DEF OnStack
<1>2. /\ Len(stack) \in Nat /\ Len(stack) >= 1 /\ Len(stack') \in {Len(stack), Len(stack) + 1}
      /\ \A j \in 1..(Len(stack) - 1) : stack'[j] = stack[j]
      /\ stack'[Len(stack)] = [Top EXCEPT !.todo = Tail(@)]
      /\ Top = stack[Len(stack)] /\ Top \in Frame
  BY StackFacts DEF Takes, Keeps
<1>3. CASE k \in 1..(Len(stack) - 1)
  BY <1>1, <1>2, <1>3 DEF OnStack, Seen
<1>4. CASE k = Len(stack)
  <2>1. DOMAIN Top = {"kind", "method", "todo"} \/ DOMAIN Top = {"kind", "event", "todo"}
    BY <1>2 DEF Frame
  <2>2. stack'[k].kind = Top.kind /\ stack'[k].todo = Tail(Top.todo)
    BY <1>2, <1>4, <2>1
  <2>3. Top.todo \in Seq(Subscription) /\ Top.todo # <<>>
    BY <1>1, <2>2 DEF Takes
  <2>4. PICK i \in DOMAIN Tail(Top.todo) : Tail(Top.todo)[i] = s
    BY <1>1, <2>2
  <2>5. /\ Tail(Top.todo) \in Seq(Subscription) /\ Len(Tail(Top.todo)) = Len(Top.todo) - 1
        /\ \A j \in 1..Len(Tail(Top.todo)) : Tail(Top.todo)[j] = Top.todo[j + 1]
        /\ DOMAIN Top.todo = 1..Len(Top.todo) /\ Len(Top.todo) \in Nat
        /\ DOMAIN Tail(Top.todo) = 1..Len(Tail(Top.todo))
    BY <2>3, HeadTailProperties, LenProperties
  <2>6. i + 1 \in DOMAIN Top.todo /\ Top.todo[i + 1] = s
    BY <2>4, <2>5
  <2> QED BY <1>1, <1>2, <1>4, <2>2, <2>6 DEF OnStack, Seen
<1>5. CASE k = Len(stack) + 1
  BY <1>1, <1>2, <1>5
<1> QED BY <1>1, <1>2, <1>3, <1>4, <1>5

LEMMA KnownKept ==
  ASSUME KnownInv, made' = made, \A s : Seen(s)' => Seen(s)
  PROVE  KnownInv'
BY DEF KnownInv

LEMMA KnownGrows ==
  ASSUME KnownInv, made \in Nat, made' = made + 1,
         NEW x, x.id = made + 1, x.once <=> x.fn \in Single,
         \A s : Seen(s)' => s = x \/ Seen(s)
  PROVE  KnownInv'
<1>1. ASSUME NEW s, Seen(s)' PROVE s.id \in 1..made' /\ (s.once <=> s.fn \in Single)
  BY <1>1 DEF KnownInv
<1>2. ASSUME NEW s, NEW t, Seen(s)', Seen(t)', s.id = t.id PROVE s = t
  BY <1>2 DEF KnownInv
<1> QED BY <1>1, <1>2 DEF KnownInv

(* The subscription whose listener is called next.                         *)
LEMMA TakenSeen ==
  ASSUME Typed, KnownInv, Takes, Top.kind = "emit", Top.todo \in Seq(Subscription)
  PROVE  Seen(Top.todo[1]) /\ Top.todo[1].id \in 1..made
         /\ (Top.todo[1].once <=> Top.todo[1].fn \in Single)
<1>1. Len(stack) \in Nat /\ Len(stack) >= 1 /\ Top = stack[Len(stack)]
  BY StackFacts DEF Takes, Typed
<1>2. 1 \in DOMAIN Top.todo
  BY LenProperties, EmptySeq DEF Takes
<1>3. OnStack(Top.todo[1])
  BY <1>1, <1>2 DEF OnStack
<1> QED BY <1>3 DEF KnownInv, Seen

LEMMA BaseStart ==
  ASSUME Base, NEW m \in Method, Start(m)
  PROVE  Base'
<1>1. /\ stack' \in Seq(Frame) /\ Shape' /\ Len(stack') = 1 /\ stack'[1].kind = "method"
      /\ heard' = <<>> /\ muted' = eventsDisabled
      /\ UNCHANGED <<subs, fired, made, eventsDisabled, open, runs>>
  <2>1. stack'[1] = [kind |-> "method", method |-> m, todo |-> Fires(m)]
    BY StartFacts DEF Base
  <2>2. stack'[1].kind = "method"
    BY <2>1
  <2> QED BY <2>2, StartFacts DEF Base
<1>2. EventTypeOK'
  BY <1>1 DEF Base, Typed, EventTypeOK
<1>3. \A s : Seen(s)' => Seen(s)
  BY <1>1 DEF Seen, OnList, OnStack
<1>4. KnownInv'
  BY <1>1, <1>3, KnownKept DEF Base
<1> QED BY <1>1, <1>2, <1>4 DEF Base, Typed

LEMMA BaseFire ==
  ASSUME Base, FireEvent
  PROVE  Base'
<1>1. /\ Len(stack) = 1 /\ stack[1].kind = "method" /\ Takes
      /\ stack' \in Seq(Frame) /\ Shape'
      /\ UNCHANGED <<subs, fired, made, Records>>
      /\ Len(stack') = 1 \/ \E e \in Event : Len(stack') = 2 /\ stack'[2] = Emitting(e)
  BY FireFacts DEF Base
<1>2. EventTypeOK'
  BY <1>1 DEF Base, Typed, EventTypeOK, Records
<1>3. Top.kind = "method"
  BY <1>1 DEF Top, Last
<1>4. \A s : OnStack(s)' => Seen(s)
  <2>1. Len(stack') = Len(stack) + 1 =>
          \A i \in DOMAIN stack'[Len(stack) + 1].todo : Seen(stack'[Len(stack) + 1].todo[i])
    BY <1>1 DEF Emitting, Seen, OnList
  <2> QED BY <1>1, <1>3, <2>1, OnStackTakes DEF Base, Typed
<1>5. \A s : Seen(s)' => Seen(s)
  BY <1>1, <1>4 DEF Seen, OnList
<1> QED BY <1>1, <1>2, <1>5, KnownKept DEF Base, Typed

LEMMA BaseDeliver ==
  ASSUME Base, CallListener
  PROVE  Base'
<1> DEFINE s == Head(Top.todo)
           l == subs[Top.event]
           I == {i \in DOMAIN l : l[i].id = s.id}
<1>1. /\ Takes /\ Top.kind = "emit" /\ Top.todo \in Seq(Subscription) /\ Top.event \in Event
      /\ s \in Subscription /\ s = Top.todo[1]
      /\ stack' \in Seq(Frame) /\ Shape'
      /\ UNCHANGED <<made, eventsDisabled, calls, ops, open, muted>>
      /\ fired' = fired \/ fired' = fired \cup {s.id}
      /\ subs' = subs \/ subs' = [subs EXCEPT ![Top.event] = DropLast(l, I)]
      /\ runs' = runs \/ runs' = [runs EXCEPT ![s.id] = @ + 1]
      /\ heard' = heard \/ heard' = Append(heard, Top.event)
      /\ Len(stack') = Len(stack) + 1 => stack'[Len(stack) + 1].todo = <<s>>
  <2> HIDE DEF I
  <2>1. ASSUME /\ Skip(s) /\ Len(stack') = Len(stack)
               /\ UNCHANGED <<subs, fired, runs, heard>>
        PROVE  Len(stack') = Len(stack) + 1 => stack'[Len(stack) + 1].todo = <<s>>
    BY <2>1, LenProperties DEF Base, Typed, EventTypeOK
  <2> QED BY <2>1, DeliverFacts DEF Base, I
<1>2. Seen(s) /\ s.id \in 1..made
  BY <1>1, TakenSeen DEF Base
<1> HIDE DEF s
<1>3. /\ subs' \in [Event -> Seq(Subscription)]
      /\ \A d \in Event : \A i \in DOMAIN subs'[d] : \E j \in DOMAIN subs[d] :
           subs'[d][i] = subs[d][j]
  <2>1. CASE subs' = subs
    BY <2>1 DEF Base, Typed, EventTypeOK
  <2>2. CASE subs' = [subs EXCEPT ![Top.event] = DropLast(l, I)]
    <3>1. I \subseteq DOMAIN l
      OBVIOUS
    <3> HIDE DEF I
    <3> QED BY <1>1, <2>2, <3>1, DroppedList DEF Base, Typed
  <2> QED BY <1>1, <2>1, <2>2
<1>4. runs' \in [1..made' -> Nat] /\ fired' \subseteq 1..made'
  <2>1. runs \in [1..made -> Nat] /\ fired \subseteq 1..made /\ made' = made
    BY <1>1 DEF Base, Typed, EventTypeOK
  <2>2. runs' = runs \/ runs' = [runs EXCEPT ![s.id] = @ + 1]
    BY <1>1
  <2>3. fired' = fired \/ fired' = fired \cup {s.id}
    BY <1>1
  <2>4. runs' \in [1..made -> Nat]
    BY <1>2, <2>1, <2>2
  <2> QED BY <1>2, <2>1, <2>3, <2>4
<1>5. heard' \in Seq(Event)
  <2>1. heard \in Seq(Event) /\ Top.event \in Event
    BY <1>1 DEF Base, Typed, EventTypeOK
  <2>2. heard' = heard \/ heard' = Append(heard, Top.event)
    BY <1>1
  <2>3. Append(heard, Top.event) \in Seq(Event)
    BY <2>1, AppendProperties
  <2> QED BY <2>1, <2>2, <2>3
<1>6. EventTypeOK'
  BY <1>1, <1>3, <1>4, <1>5 DEF Base, Typed, EventTypeOK
<1>7. \A t : OnStack(t)' => Seen(t)
  <2>1. Len(stack') = Len(stack) + 1 =>
          \A i \in DOMAIN stack'[Len(stack) + 1].todo : Seen(stack'[Len(stack) + 1].todo[i])
    BY <1>1, <1>2
  <2> QED BY <1>1, <2>1, OnStackTakes DEF Base, Typed
<1>8. \A t : Seen(t)' => Seen(t)
  BY <1>3, <1>7 DEF Seen, OnList
<1> QED BY <1>1, <1>6, <1>8, KnownKept DEF Base, Typed

LEMMA BaseEnd ==
  ASSUME Base, Unwind \/ Finish
  PROVE  Base'
<1>1. /\ stack' \in Seq(Frame) /\ Shape' /\ UNCHANGED <<subs, fired, made, Records>>
      /\ \E n \in 1..Len(stack) : Pops(n)
  BY EndFacts DEF Base
<1>2. EventTypeOK'
  BY <1>1 DEF Base, Typed, EventTypeOK, Records
<1>3. \A s : Seen(s)' => Seen(s)
  BY <1>1, OnStackPops DEF Base, Typed, Seen, OnList
<1> QED BY <1>1, <1>2, <1>3, KnownKept DEF Base, Typed

LEMMA BaseAdds ==
  ASSUME Base, NEW e \in Event, NEW x, Adds(e, x), x.once <=> x.fn \in Single,
         open' \subseteq open \cup {[id |-> made + 1, event |-> e, fn |-> x.fn]},
         open' \subseteq open \/ x.fn \in Shared
  PROVE  Base'
<1>1. /\ subs' \in [Event -> Seq(Subscription)]
      /\ \A d \in Event : \A i \in DOMAIN subs'[d] :
           subs'[d][i] = x \/ \E j \in DOMAIN subs[d] : subs'[d][i] = subs[d][j]
  BY AddedList DEF Base, Typed, Adds
<1>2. runs' \in [1..made' -> Nat]
  BY RunsAdded DEF Base, Typed, Adds
<1>3. open' \subseteq Opened
  BY DEF Base, Typed, EventTypeOK, Opened
<1>4. EventTypeOK'
  BY <1>1, <1>2, <1>3 DEF Base, Typed, EventTypeOK, Adds
<1>5. \A s : Seen(s)' => s = x \/ Seen(s)
  BY <1>1 DEF Seen, OnList, OnStack, Adds
<1>6. KnownInv'
  BY <1>5, KnownGrows DEF Base, Typed, EventTypeOK, Adds
<1> QED BY <1>4, <1>6 DEF Base, Typed, Shape, Adds

LEMMA BaseDrops ==
  ASSUME Base, NEW e \in Event, NEW fn, Drops(e, fn), open' \subseteq open
  PROVE  Base'
<1> DEFINE I == {i \in DOMAIN subs[e] : subs[e][i].fn = fn}
<1>1. I \subseteq DOMAIN subs[e] /\ subs' = [subs EXCEPT ![e] = DropLast(subs[e], I)]
  BY DEF Drops
<1> HIDE DEF I
<1>2. /\ subs' \in [Event -> Seq(Subscription)]
      /\ \A d \in Event : \A i \in DOMAIN subs'[d] : \E j \in DOMAIN subs[d] :
           subs'[d][i] = subs[d][j]
  BY <1>1, DroppedList DEF Base, Typed
<1>3. EventTypeOK'
  BY <1>2 DEF Base, Typed, EventTypeOK, Drops
<1>4. \A s : Seen(s)' => Seen(s)
  BY <1>2 DEF Seen, OnList, OnStack, Drops
<1> QED BY <1>3, <1>4, KnownKept DEF Base, Typed, Shape, Drops

LEMMA BaseEmit ==
  ASSUME Base, NEW e \in Event, EmitDirectly(e)
  PROVE  Base'
<1>1. /\ stack' \in Seq(Frame) /\ Shape' /\ Pushes(Emitting(e))
      /\ UNCHANGED <<subs, fired, made, calls, open, runs, heard, muted, eventsDisabled>>
  BY EmitFacts DEF Base
<1>2. EventTypeOK'
  BY <1>1 DEF Base, Typed, EventTypeOK
<1>3. \A s : Seen(s)' => Seen(s)
  BY <1>1, OnStackPushes DEF Base, Typed, Seen, OnList
<1> QED BY <1>1, <1>2, <1>3, KnownKept DEF Base, Typed

LEMMA BaseSwitch ==
  ASSUME Base, SwitchEvents \/ UNCHANGED evars
  PROVE  Base'
<1>1. /\ UNCHANGED <<subs, fired, made, stack, open, runs, heard>>
      /\ eventsDisabled' \in BOOLEAN /\ muted' \in BOOLEAN
  BY DEF SwitchEvents, Use, evars, Base, Typed, EventTypeOK
<1>2. EventTypeOK' /\ Shape'
  BY <1>1 DEF Base, Typed, EventTypeOK, Shape
<1>3. \A s : Seen(s)' => Seen(s)
  BY <1>1 DEF Seen, OnList, OnStack
<1> QED BY <1>1, <1>2, <1>3, KnownKept DEF Base, Typed

(* Every step is one of these.                                             *)
LEMMA Steps ==
  ASSUME Base, [Next]_evars
  PROVE  \/ \E m \in Method : Start(m)
         \/ FireEvent
         \/ CallListener
         \/ Unwind \/ Finish
         \/ \E e \in Event, fn \in Shared :
              /\ Adds(e, [id |-> made + 1, fn |-> fn, once |-> FALSE])
              /\ open' = open \cup {[id |-> made + 1, event |-> e, fn |-> fn]}
         \/ \E e \in Event, fn \in Single :
              Adds(e, [id |-> made + 1, fn |-> fn, once |-> TRUE]) /\ open' = open
         \/ \E e \in Event, fn \in Single : Drops(e, fn) /\ open' = open
         \/ \E s \in open : Drops(s.event, s.fn) /\ open' = open \ {s}
         \/ \E e \in Event : EmitDirectly(e)
         \/ SwitchEvents
         \/ UNCHANGED evars
<1>1. ASSUME NEW e \in Event, NEW fn \in Shared, SubscribeOn(e, fn)
      PROVE  /\ Adds(e, [id |-> made + 1, fn |-> fn, once |-> FALSE])
             /\ open' = open \cup {[id |-> made + 1, event |-> e, fn |-> fn]}
  BY <1>1, SubscribeFacts DEF Base, Typed
<1>2. ASSUME NEW e \in Event, NEW fn \in Single, SubscribeOnce(e, fn)
      PROVE  Adds(e, [id |-> made + 1, fn |-> fn, once |-> TRUE]) /\ open' = open
  BY <1>2, SubscribeFacts DEF Base, Typed
<1>3. ASSUME NEW e \in Event, NEW fn \in Single, CancelOnce(e, fn)
      PROVE  Drops(e, fn) /\ open' = open
  BY <1>3, OffFacts
<1>4. ASSUME NEW s \in open, Dispose(s)
      PROVE  Drops(s.event, s.fn) /\ open' = open \ {s}
  BY <1>4, OffFacts
<1> QED BY <1>1, <1>2, <1>3, <1>4 DEF Next, Quiet

LEMMA BaseStep ==
  ASSUME Base, [Next]_evars
  PROVE  Base'
<1>1. ASSUME NEW e \in Event, NEW fn \in Shared,
             Adds(e, [id |-> made + 1, fn |-> fn, once |-> FALSE]),
             open' = open \cup {[id |-> made + 1, event |-> e, fn |-> fn]}
      PROVE  Base'
  <2>1. fn \notin Single
    BY EventAssumption
  <2> QED BY <1>1, <2>1, BaseAdds
<1>2. ASSUME NEW e \in Event, NEW fn \in Single,
             Adds(e, [id |-> made + 1, fn |-> fn, once |-> TRUE]), open' = open
      PROVE  Base'
  BY <1>2, BaseAdds
<1>3. ASSUME NEW s \in open, Drops(s.event, s.fn), open' = open \ {s}
      PROVE  Base'
  <2>1. s.event \in Event
    BY DEF Base, Typed, EventTypeOK, Opened
  <2> QED BY <1>3, <2>1, BaseDrops
<1> QED BY <1>1, <1>2, <1>3, Steps, BaseStart, BaseFire, BaseDeliver, BaseEnd, BaseDrops,
           BaseEmit, BaseSwitch

-----------------------------------------------------------------------------
(* The initial state.                                                      *)

(* The order of the events has each of them.                               *)
LEMMA EventOrder ==
  /\ SetToSeq(Event) \in Seq(Event)
  /\ \A e \in Event : \E i \in DOMAIN SetToSeq(Event) : SetToSeq(Event)[i] = e
<1> DEFINE n == Cardinality(Event)
           order == SetToSeq(Event)
<1>1. n \in Nat /\ ExistsBijection(1..n, Event) /\ IsFiniteSet(Event)
  BY EventAssumption, FS_CardinalityType
<1>2. \E f \in [1..n -> Event] : IsInjective(f)
  BY <1>1 DEF ExistsBijection, Bijection, Injection
<1>3. order \in [1..n -> Event] /\ IsInjective(order)
  BY <1>2 DEF SetToSeq
<1> HIDE DEF order
<1>4. order \in Injection(1..n, Event)
  BY <1>3 DEF Injection
<1>5. Cardinality(1..n) = n
  BY <1>1, FS_Interval
<1>6. order \in Surjection(1..n, Event)
  BY <1>1, <1>4, <1>5, FS_Injection
<1>7. \A e \in Event : \E i \in 1..n : order[i] = e
  BY <1>6 DEF Surjection
<1>8. order \in Seq(Event) /\ DOMAIN order = 1..n
  BY <1>1, <1>3
<1> QED BY <1>7, <1>8 DEF order

(* Each event has two listeners: a service's, which it may dispose of, and *)
(* Audit.                                                                  *)
InitLists ==
  /\ \A e \in Event :
       \E fn \in Shared, n \in 1..made, m \in 1..made :
         /\ n # m /\ subs[e] = <<First(fn, n), First(Audit, m)>>
         /\ {s \in open : s.event = e} = {[id |-> n, event |-> e, fn |-> fn]}
  /\ \A s, t : OnList(s) /\ OnList(t) /\ s.id = t.id => s = t
  /\ subs \in [Event -> Seq(Subscription)] /\ open \subseteq Opened

LEMMA InitState ==
  ASSUME Init
  PROVE  /\ InitLists
         /\ made \in Nat /\ fired = {} /\ stack = <<>> /\ eventsDisabled = FALSE /\ muted = FALSE
         /\ runs = [n \in 1..made |-> 0] /\ heard = <<>>
<1> DEFINE order == SetToSeq(Event)
           pos(e) == CHOOSE i \in DOMAIN order : order[i] = e
<1>1. PICK fn \in Shared :
        /\ subs = [e \in Event |-> <<First(fn, 2 * pos(e) - 1), First(Audit, 2 * pos(e))>>]
        /\ open = {[id |-> 2 * pos(e) - 1, event |-> e, fn |-> fn] : e \in Event}
        /\ made = 2 * Len(order)
        /\ fired = {} /\ stack = <<>> /\ eventsDisabled = FALSE /\ muted = FALSE
        /\ runs = [n \in 1..made |-> 0] /\ heard = <<>>
  BY DEF Init
<1>2. order \in Seq(Event) /\ Len(order) \in Nat /\ DOMAIN order = 1..Len(order)
  BY EventOrder, LenProperties
<1>3. \A e \in Event : pos(e) \in 1..Len(order) /\ order[pos(e)] = e
  BY <1>2, EventOrder
<1> HIDE DEF order, pos
<1>4. made \in Nat /\ \A e \in Event : 2 * pos(e) - 1 \in 1..made /\ 2 * pos(e) \in 1..made
  BY <1>1, <1>2, <1>3
<1>5. fn \in Listener /\ Audit \in Listener
  BY EventAssumption
<1>6. \A e \in Event : /\ First(fn, 2 * pos(e) - 1) \in Subscription
                       /\ First(Audit, 2 * pos(e)) \in Subscription
  BY <1>4, <1>5 DEF First, Subscription
<1>7. subs \in [Event -> Seq(Subscription)]
  BY <1>1, <1>6
<1>8. open \subseteq Opened
  BY <1>1, <1>4 DEF Opened
<1>9. ASSUME NEW e \in Event
      PROVE  \E f \in Shared, n \in 1..made, m \in 1..made :
               /\ n # m /\ subs[e] = <<First(f, n), First(Audit, m)>>
               /\ {s \in open : s.event = e} = {[id |-> n, event |-> e, fn |-> f]}
  <2>1. 2 * pos(e) - 1 # 2 * pos(e)
    BY <1>2, <1>3
  <2> QED BY <1>1, <1>4, <2>1
<1>10. ASSUME NEW s, OnList(s)
       PROVE  \E e \in Event : \/ s = First(fn, 2 * pos(e) - 1)
                               \/ s = First(Audit, 2 * pos(e))
  BY <1>1, <1>10 DEF OnList
<1>11. ASSUME NEW s, NEW t, OnList(s), OnList(t), s.id = t.id PROVE s = t
  <2>1. PICK e \in Event : s = First(fn, 2 * pos(e) - 1) \/ s = First(Audit, 2 * pos(e))
    BY <1>10, <1>11
  <2>2. PICK d \in Event : t = First(fn, 2 * pos(d) - 1) \/ t = First(Audit, 2 * pos(d))
    BY <1>10, <1>11
  <2>3. pos(e) \in Nat /\ pos(d) \in Nat
    BY <1>2, <1>3
  <2>4. \A a \in Nat, b \in Nat : 2 * a - 1 # 2 * b
    OBVIOUS
  <2>5. /\ s.id = IF s.fn = fn THEN 2 * pos(e) - 1 ELSE 2 * pos(e)
        /\ t.id = IF t.fn = fn THEN 2 * pos(d) - 1 ELSE 2 * pos(d)
        /\ s = First(s.fn, s.id) /\ t = First(t.fn, t.id)
        /\ s.fn \in {fn, Audit} /\ t.fn \in {fn, Audit}
    BY <2>1, <2>2, EventAssumption DEF First
  <2> QED BY <1>11, <2>3, <2>4, <2>5
<1> QED BY <1>1, <1>4, <1>7, <1>8, <1>9, <1>11 DEF InitLists

LEMMA InitBase ==
  ASSUME Init
  PROVE  Base
<1>1. /\ InitLists
      /\ made \in Nat /\ fired = {} /\ stack = <<>> /\ eventsDisabled = FALSE /\ muted = FALSE
      /\ runs = [n \in 1..made |-> 0] /\ heard = <<>>
  BY InitState
<1>2. EventTypeOK
  <2>1. subs \in [Event -> Seq(Subscription)] /\ open \subseteq Opened
    BY <1>1 DEF InitLists
  <2>2. /\ made \in Nat /\ fired = {} /\ stack = <<>> /\ eventsDisabled = FALSE
        /\ muted = FALSE /\ runs = [n \in 1..made |-> 0] /\ heard = <<>>
    BY <1>1
  <2> QED BY <2>1, <2>2, EmptySeq DEF EventTypeOK
<1>3. Shape /\ \A s : ~OnStack(s)
  BY <1>1 DEF Shape, OnStack
<1>4. ASSUME NEW s, OnList(s)
      PROVE  s.id \in 1..made /\ (s.once <=> s.fn \in Single)
  <2>1. PICK e \in Event : \E i \in DOMAIN subs[e] : s = subs[e][i]
    BY <1>4 DEF OnList
  <2>2. PICK fn \in Shared, n \in 1..made, m \in 1..made :
          subs[e] = <<First(fn, n), First(Audit, m)>>
    BY <1>1 DEF InitLists
  <2>3. s = First(fn, n) \/ s = First(Audit, m)
    BY <2>1, <2>2
  <2> QED BY <2>3, EventAssumption DEF First
<1> QED BY <1>1, <1>2, <1>3, <1>4 DEF Base, Typed, KnownInv, Seen, InitLists

(* BaseInvariance: the stack is a method or an emit with listeners and     *)
(* emits in turn, and an id tells the subscription that bears it, whether  *)
(* it is on a list or with an emit that copied the list.                   *)
THEOREM BaseInvariance == Spec => []Base
BY InitBase, BaseStep, PTL DEF Spec

(* The lists, the stack and the switch of events keep their types.         *)
THEOREM EventTypes == Spec => []EventTypeOK
<1>1. Base => EventTypeOK
  BY DEF Base, Typed
<1> QED BY <1>1, BaseInvariance, PTL

-----------------------------------------------------------------------------
(* What is called once.                                                    *)

(* The flag of a subscription of once is set before its listener runs.     *)
OnceInv ==
  \A n \in 1..made : runs[n] <= 1 /\ (runs[n] # 0 => n \in fired)

LEMMA OnceStep ==
  ASSUME Base, OnceInv, [Next]_evars
  PROVE  OnceInv'
<1>1. made \in Nat /\ runs \in [1..made -> Nat] /\ fired \subseteq 1..made
  BY DEF Base, Typed, EventTypeOK
<1>2. CASE UNCHANGED <<made, runs, fired>>
  BY <1>2 DEF OnceInv
<1>3. ASSUME NEW e, NEW x, Adds(e, x)
      PROVE  OnceInv'
  <2>1. /\ \A n \in 1..made : runs'[n] = runs[n]
        /\ runs'[made + 1] = 0 /\ made' = made + 1 /\ fired' = fired
    BY <1>3, RunsAdded DEF Base, Typed, Adds
  <2> QED BY <1>1, <2>1 DEF OnceInv
<1>4. CASE CallListener
  <2> DEFINE s == Head(Top.todo)
  <2>1. s.id \in 1..made /\ (s.once <=> s.fn \in Single) /\ made' = made
    BY <1>4, DeliverFacts, TakenSeen DEF Base
  <2>2. \/ UNCHANGED <<fired, runs>>
        \/ /\ ~Skip(s)
           /\ fired' = IF s.once THEN fired \cup {s.id} ELSE fired
           /\ runs' = IF s.fn \in Single THEN [runs EXCEPT ![s.id] = @ + 1] ELSE runs
    BY <1>4, DeliverFacts DEF Base
  <2> HIDE DEF s
  <2>3. CASE s.fn \in Single /\ ~Skip(s) /\ fired' = fired \cup {s.id}
             /\ runs' = [runs EXCEPT ![s.id] = @ + 1]
    <3>1. s.id \notin fired
      BY <2>1, <2>3 DEF Skip
    <3>2. runs[s.id] = 0
      BY <1>1, <2>1, <3>1 DEF OnceInv
    <3>3. ASSUME NEW n \in 1..made PROVE runs'[n] <= 1 /\ (runs'[n] # 0 => n \in fired')
      BY <1>1, <2>1, <2>3, <3>2 DEF OnceInv
    <3> QED BY <2>1, <3>3 DEF OnceInv
  <2> QED BY <1>2, <2>1, <2>2, <2>3
<1>5. CASE Unwind \/ Finish \/ FireEvent
  BY <1>2, <1>5, EndFacts, FireFacts DEF Base, Records
<1>6. ASSUME \/ \E m \in Method : Start(m)
             \/ \E e \in Event : EmitDirectly(e)
             \/ \E e, fn : Drops(e, fn)
             \/ SwitchEvents \/ UNCHANGED evars
      PROVE  OnceInv'
  BY <1>2, <1>6 DEF Start, EmitDirectly, Use, Emit, Drops, SwitchEvents, evars
<1> QED BY <1>3, <1>4, <1>5, <1>6, Steps

(* A listener given to once is called once at most, for any listeners that *)
(* emit the same event again, subscribe or throw meanwhile.                *)
THEOREM OnceIsOnce == Spec => []OnceAtMostOnce
<1>1. Init => OnceInv
  BY InitState DEF OnceInv
<1>2. Base /\ OnceInv /\ [Next]_evars => OnceInv'
  BY OnceStep
<1>3. OnceInv => OnceAtMostOnce
  BY DEF OnceInv, OnceAtMostOnce
<1> QED BY <1>1, <1>2, <1>3, BaseInvariance, PTL DEF Spec

-----------------------------------------------------------------------------
(* How often a function is on the list of an event.                        *)

Count(e, fn) == Cardinality(Entry(subs[e], fn))

LEMMA CountDrops ==
  ASSUME Base, NEW e \in Event, NEW fn, Drops(e, fn), NEW d \in Event, NEW g
  PROVE  /\ Count(d, g)' = Count(d, g) - (IF d = e /\ g = fn /\ Count(e, fn) # 0 THEN 1 ELSE 0)
         /\ Count(d, g) \in Nat
<1> DEFINE l == subs[e]
           I == {i \in DOMAIN l : l[i].fn = fn}
<1>1. /\ subs \in [Event -> Seq(Subscription)] /\ l \in Seq(Subscription)
      /\ subs' = [subs EXCEPT ![e] = DropLast(l, I)]
  BY DEF Base, Typed, EventTypeOK, Drops
<1>2. I = Entry(l, fn)
  BY <1>1, LenProperties DEF Entry
<1>3. Count(d, g) \in Nat /\ Count(e, fn) \in Nat
  BY <1>1, EntryFinite DEF Count
<1>4. CASE I = {}
  <2>1. subs' = subs /\ Count(e, fn) = 0
    BY <1>1, <1>2, <1>4, FS_EmptySet DEF DropLast, Count
  <2> QED BY <1>3, <2>1 DEF Count
<1>5. CASE I # {}
  <2>1. PICK m \in I : DropLast(l, I) \in Seq(Subscription) /\ Without(DropLast(l, I), l, m)
    <3>1. I \subseteq DOMAIN l
      OBVIOUS
    <3> HIDE DEF I
    <3> QED BY <1>1, <1>5, <3>1, DropLastWithout
  <2>2. l[m].fn = fn
    BY <2>1
  <2>3. Count(e, fn) # 0
    BY <1>1, <1>2, <1>5, EntryFinite, FS_EmptySet DEF Count
  <2>4. subs'[d] = IF d = e THEN DropLast(l, I) ELSE subs[d]
    BY <1>1
  <2> HIDE DEF I
  <2>5. CASE d = e
    <3>1. Count(d, g)' = Cardinality(Entry(DropLast(l, I), g))
      BY <2>4, <2>5 DEF Count
    <3>2. Cardinality(Entry(DropLast(l, I), g)) = Cardinality(Entry(l, g))
                                                  - (IF l[m].fn = g THEN 1 ELSE 0)
      BY <1>1, <2>1, EntryWithout
    <3> QED BY <1>3, <2>2, <2>3, <2>5, <3>1, <3>2 DEF Count
  <2>6. CASE d # e
    BY <1>3, <2>4, <2>6 DEF Count
  <2> QED BY <2>5, <2>6
<1> QED BY <1>3, <1>4, <1>5

LEMMA CountAdds ==
  ASSUME Base, NEW e \in Event, NEW x, Adds(e, x), NEW d \in Event, NEW g
  PROVE  /\ Count(d, g)' = Count(d, g) + (IF d = e /\ g = x.fn THEN 1 ELSE 0)
         /\ Count(d, g) \in Nat
<1>1. /\ subs \in [Event -> Seq(Subscription)] /\ x \in Subscription
      /\ subs' = [subs EXCEPT ![e] = Append(@, x)]
  BY DEF Base, Typed, EventTypeOK, Adds
<1>2. Count(d, g) \in Nat
  BY <1>1, EntryFinite DEF Count
<1>3. subs'[d] = IF d = e THEN Append(subs[e], x) ELSE subs[d]
  BY <1>1
<1>4. CASE d = e
  <2>1. Count(d, g)' = Cardinality(Entry(Append(subs[e], x), g))
    BY <1>3, <1>4 DEF Count
  <2>2. Cardinality(Entry(Append(subs[e], x), g)) = Cardinality(Entry(subs[e], g))
                                                    + (IF x.fn = g THEN 1 ELSE 0)
    BY <1>1, EntryAppend
  <2> QED BY <1>2, <1>4, <2>1, <2>2 DEF Count
<1>5. CASE d # e
  BY <1>2, <1>3, <1>5 DEF Count
<1> QED BY <1>2, <1>4, <1>5

(* The wrapper of once takes nobody else's subscription off the list.      *)
LEMMA CountDeliver ==
  ASSUME Base, CallListener, NEW d \in Event, NEW g, g \notin Single
  PROVE  Count(d, g)' = Count(d, g)
<1> DEFINE s == Head(Top.todo)
           e == Top.event
           l == subs[e]
           I == {i \in DOMAIN l : l[i].id = s.id}
<1>1. /\ e \in Event /\ Seen(s) /\ (s.once <=> s.fn \in Single)
      /\ subs' = subs \/ (s.once /\ subs' = [subs EXCEPT ![e] = DropLast(l, I)])
  <2>1. Seen(s) /\ (s.once <=> s.fn \in Single)
    BY DeliverFacts, TakenSeen DEF Base
  <2> QED BY <2>1, DeliverFacts DEF Base
<1> HIDE DEF s, e
<1>2. subs \in [Event -> Seq(Subscription)] /\ l \in Seq(Subscription)
  BY <1>1 DEF Base, Typed, EventTypeOK
<1>3. Count(d, g) \in Nat
  BY <1>2, EntryFinite DEF Count
<1>4. CASE subs' = subs
  BY <1>4 DEF Count
<1>5. CASE s.once /\ subs' = [subs EXCEPT ![e] = DropLast(l, I)]
  <2>1. subs'[d] = IF d = e THEN DropLast(l, I) ELSE subs[d]
    BY <1>2, <1>5
  <2>2. CASE I = {}
    BY <2>1, <2>2 DEF DropLast, Count
  <2>3. CASE I # {} /\ d = e
    <3>1. PICK m \in I : DropLast(l, I) \in Seq(Subscription) /\ Without(DropLast(l, I), l, m)
      <4>1. I \subseteq DOMAIN l
        OBVIOUS
      <4> HIDE DEF I
      <4> QED BY <1>2, <2>3, <4>1, DropLastWithout
    <3>2. l[m] = s
      <4>1. Seen(l[m]) /\ l[m].id = s.id
        BY <1>1, <3>1 DEF Seen, OnList
      <4> QED BY <1>1, <4>1 DEF Base, KnownInv
    <3> HIDE DEF I
    <3>3. l[m].fn # g
      BY <1>1, <1>5, <3>2
    <3>4. Cardinality(Entry(DropLast(l, I), g)) = Cardinality(Entry(l, g))
                                                  - (IF l[m].fn = g THEN 1 ELSE 0)
      BY <1>2, <3>1, EntryWithout
    <3> QED BY <1>3, <2>1, <2>3, <3>3, <3>4 DEF Count
  <2>4. CASE d # e
    BY <2>1, <2>4 DEF Count
  <2> QED BY <2>2, <2>3, <2>4
<1> QED BY <1>1, <1>4, <1>5

-----------------------------------------------------------------------------
(* What disposers end.                                                     *)

OpenFor(e, fn) == {s \in open : s.event = e /\ s.fn = fn}

BalanceInv ==
  /\ \A s \in open : s.id \in 1..made
  /\ \A e \in Event, fn \in Shared :
       IsFiniteSet(OpenFor(e, fn)) /\ Count(e, fn) = Cardinality(OpenFor(e, fn))

LEMMA BalanceKept ==
  ASSUME BalanceInv, UNCHANGED <<open, made>>,
         \A e \in Event, fn \in Shared : Count(e, fn)' = Count(e, fn)
  PROVE  BalanceInv'
BY DEF BalanceInv, OpenFor

LEMMA BalanceAdds ==
  ASSUME Base, BalanceInv, NEW e \in Event, NEW x, Adds(e, x),
         open' = IF x.fn \in Shared THEN open \cup {[id |-> made + 1, event |-> e, fn |-> x.fn]}
                 ELSE open
  PROVE  BalanceInv'
<1> DEFINE o == [id |-> made + 1, event |-> e, fn |-> x.fn]
<1>1. made \in Nat /\ made' = made + 1
  BY DEF Base, Typed, EventTypeOK, Adds
<1>2. o \notin open
  BY <1>1 DEF BalanceInv
<1>3. \A s \in open' : s.id \in 1..made'
  BY <1>1 DEF BalanceInv
<1>4. ASSUME NEW d \in Event, NEW fn \in Shared
      PROVE  IsFiniteSet(OpenFor(d, fn))' /\ Count(d, fn)' = Cardinality(OpenFor(d, fn))'
  <2>1. /\ IsFiniteSet(OpenFor(d, fn)) /\ Count(d, fn) = Cardinality(OpenFor(d, fn))
        /\ Count(d, fn)' = Count(d, fn) + (IF d = e /\ fn = x.fn THEN 1 ELSE 0)
        /\ Count(d, fn) \in Nat
    BY CountAdds DEF BalanceInv
  <2>2. CASE d = e /\ fn = x.fn
    <3>1. OpenFor(d, fn)' = OpenFor(d, fn) \cup {o} /\ o \notin OpenFor(d, fn)
      BY <1>2, <2>2 DEF OpenFor
    <3> HIDE DEF o
    <3>2. /\ IsFiniteSet(OpenFor(d, fn) \cup {o})
          /\ Cardinality(OpenFor(d, fn) \cup {o}) = Cardinality(OpenFor(d, fn)) + 1
      BY <2>1, <3>1, FS_AddElement
    <3>3. Cardinality(OpenFor(d, fn))' = Cardinality(OpenFor(d, fn) \cup {o})
      BY <3>1
    <3>4. IsFiniteSet(OpenFor(d, fn))'
      BY <3>1, <3>2
    <3> QED BY <2>1, <2>2, <3>2, <3>3, <3>4
  <2>3. CASE ~(d = e /\ fn = x.fn)
    <3>1. OpenFor(d, fn)' = OpenFor(d, fn)
      BY <2>3 DEF OpenFor
    <3> QED BY <2>1, <2>3, <3>1
  <2> QED BY <2>2, <2>3
<1> QED BY <1>3, <1>4 DEF BalanceInv

LEMMA BalanceDisposes ==
  ASSUME Base, BalanceInv, NEW o \in open, Drops(o.event, o.fn), open' = open \ {o}
  PROVE  BalanceInv'
<1>1. o.event \in Event /\ o.fn \in Shared /\ made' = made
  BY DEF Base, Typed, EventTypeOK, Opened, Drops
<1>2. \A s \in open' : s.id \in 1..made'
  BY <1>1 DEF BalanceInv
<1>3. Count(o.event, o.fn) # 0
  <2>1. /\ IsFiniteSet(OpenFor(o.event, o.fn)) /\ o \in OpenFor(o.event, o.fn)
        /\ Count(o.event, o.fn) = Cardinality(OpenFor(o.event, o.fn))
    BY <1>1 DEF BalanceInv, OpenFor
  <2> QED BY <2>1, FS_EmptySet
<1>4. ASSUME NEW d \in Event, NEW fn \in Shared
      PROVE  IsFiniteSet(OpenFor(d, fn))' /\ Count(d, fn)' = Cardinality(OpenFor(d, fn))'
  <2>1. /\ IsFiniteSet(OpenFor(d, fn)) /\ Count(d, fn) = Cardinality(OpenFor(d, fn))
        /\ Count(d, fn)' = Count(d, fn) - (IF d = o.event /\ fn = o.fn THEN 1 ELSE 0)
        /\ Count(d, fn) \in Nat
    BY <1>1, <1>3, CountDrops DEF BalanceInv
  <2>2. OpenFor(d, fn)' = OpenFor(d, fn) \ {o}
    BY DEF OpenFor
  <2>3. /\ IsFiniteSet(OpenFor(d, fn) \ {o})
        /\ Cardinality(OpenFor(d, fn) \ {o}) =
             IF o \in OpenFor(d, fn) THEN Cardinality(OpenFor(d, fn)) - 1
             ELSE Cardinality(OpenFor(d, fn))
    BY <2>1, FS_RemoveElement
  <2>4. o \in OpenFor(d, fn) <=> d = o.event /\ fn = o.fn
    BY DEF OpenFor
  <2>5. Count(d, fn)' = Cardinality(OpenFor(d, fn) \ {o})
    BY <2>1, <2>3, <2>4
  <2> QED BY <2>2, <2>3, <2>5
<1> QED BY <1>2, <1>4 DEF BalanceInv

LEMMA BalanceStep ==
  ASSUME Base, BalanceInv, [Next]_evars
  PROVE  BalanceInv'
<1>1. CASE UNCHANGED <<open, made, subs>>
  BY <1>1, BalanceKept DEF Count
<1>2. CASE CallListener
  <2>1. UNCHANGED <<open, made>>
    BY <1>2, DeliverFacts DEF Base
  <2>2. \A fn \in Shared : fn \notin Single
    BY EventAssumption
  <2> QED BY <1>2, <2>1, <2>2, BalanceKept, CountDeliver
<1>3. ASSUME NEW e \in Event, NEW fn \in Single, Drops(e, fn), open' = open
      PROVE  BalanceInv'
  <2>1. fn \notin Shared
    BY EventAssumption
  <2>2. ASSUME NEW d \in Event, NEW g \in Shared PROVE Count(d, g)' = Count(d, g)
    BY <1>3, <2>1, CountDrops
  <2> QED BY <1>3, <2>2, BalanceKept DEF Drops
<1>4. ASSUME NEW e \in Event, NEW fn \in Shared,
             Adds(e, [id |-> made + 1, fn |-> fn, once |-> FALSE]),
             open' = open \cup {[id |-> made + 1, event |-> e, fn |-> fn]}
      PROVE  BalanceInv'
  BY <1>4, BalanceAdds
<1>5. ASSUME NEW e \in Event, NEW fn \in Single,
             Adds(e, [id |-> made + 1, fn |-> fn, once |-> TRUE]), open' = open
      PROVE  BalanceInv'
  <2>1. fn \notin Shared
    BY EventAssumption
  <2> QED BY <1>5, <2>1, BalanceAdds
<1>6. CASE Unwind \/ Finish \/ FireEvent
  BY <1>1, <1>6, EndFacts, FireFacts DEF Base, Records
<1>7. ASSUME \/ \E m \in Method : Start(m)
             \/ \E e \in Event : EmitDirectly(e)
             \/ SwitchEvents \/ UNCHANGED evars
      PROVE  BalanceInv'
  BY <1>1, <1>7 DEF Start, EmitDirectly, Use, Emit, SwitchEvents, evars
<1> QED BY <1>2, <1>3, <1>4, <1>5, <1>6, <1>7, Steps, BalanceDisposes

(* How often a function is on the list of an event in the initial state.   *)
LEMMA InitCount ==
  ASSUME Init
  PROVE  BalanceInv /\ \A e \in Event : Count(e, Audit) = 1
<1>1. InitLists
  BY InitState
<1>2. ASSUME NEW e \in Event, NEW g \in Shared \cup {Audit}
      PROVE  /\ Count(e, g) = Cardinality(OpenFor(e, g)) + (IF g = Audit THEN 1 ELSE 0)
             /\ IsFiniteSet(OpenFor(e, g))
             /\ g = Audit => OpenFor(e, g) = {}
  <2>1. PICK fn \in Shared, n \in 1..made, m \in 1..made :
          /\ n # m /\ subs[e] = <<First(fn, n), First(Audit, m)>>
          /\ {s \in open : s.event = e} = {[id |-> n, event |-> e, fn |-> fn]}
    BY <1>1 DEF InitLists
  <2>2. fn # Audit
    BY EventAssumption
  <2>3. Entry(subs[e], g) = IF g = fn THEN {1} ELSE IF g = Audit THEN {2} ELSE {}
    <3> DEFINE l == <<First(fn, n), First(Audit, m)>>
    <3>1. Len(l) = 2 /\ l[1].fn = fn /\ l[2].fn = Audit
      BY DEF First
    <3> HIDE DEF l
    <3> QED BY <2>1, <2>2, <3>1 DEF Entry, l
  <2>4. OpenFor(e, g) = IF g = fn THEN {[id |-> n, event |-> e, fn |-> fn]} ELSE {}
    <3>1. OpenFor(e, g) = {s \in {[id |-> n, event |-> e, fn |-> fn]} : s.fn = g}
      BY <2>1 DEF OpenFor
    <3> QED BY <3>1
  <2>5. /\ IsFiniteSet({}) /\ Cardinality({}) = 0
        /\ \A x : IsFiniteSet({x}) /\ Cardinality({x}) = 1
    BY FS_EmptySet, FS_Singleton
  <2>6. CASE g = fn
    <3>1. Count(e, g) = 1
      BY <2>3, <2>5, <2>6 DEF Count
    <3>2. PICK s : OpenFor(e, g) = {s}
      BY <2>4, <2>6
    <3>3. IsFiniteSet(OpenFor(e, g)) /\ Cardinality(OpenFor(e, g)) = 1
      BY <2>5, <3>2
    <3>4. g # Audit
      BY <2>2, <2>6
    <3> QED BY <3>1, <3>3, <3>4
  <2>7. CASE g = Audit
    <3>1. Entry(subs[e], g) = {2}
      BY <2>2, <2>3, <2>7
    <3>2. Count(e, g) = 1
      BY <2>5, <3>1 DEF Count
    <3>3. OpenFor(e, g) = {}
      BY <2>2, <2>4, <2>7
    <3>4. Cardinality(OpenFor(e, g)) = 0 /\ IsFiniteSet(OpenFor(e, g))
      BY <2>5, <3>3
    <3> QED BY <2>7, <3>2, <3>3, <3>4
  <2>8. CASE g # fn /\ g # Audit
    BY <2>3, <2>4, <2>5, <2>8 DEF Count
  <2> QED BY <2>6, <2>7, <2>8
<1>3. \A s \in open : s.id \in 1..made
  <2> SUFFICES ASSUME NEW s \in open PROVE s.id \in 1..made
    OBVIOUS
  <2>1. s.event \in Event
    BY <1>1 DEF InitLists, Opened
  <2>2. PICK n \in 1..made, fn \in Shared :
          {t \in open : t.event = s.event} = {[id |-> n, event |-> s.event, fn |-> fn]}
    BY <1>1, <2>1 DEF InitLists
  <2>3. s \in {t \in open : t.event = s.event}
    OBVIOUS
  <2>4. s = [id |-> n, event |-> s.event, fn |-> fn]
    BY <2>2, <2>3
  <2> QED BY <2>4
<1>4. ASSUME NEW e \in Event, NEW fn \in Shared
      PROVE  IsFiniteSet(OpenFor(e, fn)) /\ Count(e, fn) = Cardinality(OpenFor(e, fn))
  <2>1. fn # Audit
    BY EventAssumption
  <2>2. IsFiniteSet(OpenFor(e, fn)) /\ Cardinality(OpenFor(e, fn)) \in Nat
    BY <1>2, FS_CardinalityType
  <2> QED BY <1>2, <2>1, <2>2
<1>5. ASSUME NEW e \in Event PROVE Count(e, Audit) = 1
  BY <1>2, FS_EmptySet
<1> QED BY <1>3, <1>4, <1>5 DEF BalanceInv

(* A function is on the list of an event as often as it was given to on    *)
(* without its disposer being called, for any interleaving of the services *)
(* that share it and of listeners under way.                               *)
THEOREM DisposersEndTheirOwn == Spec => []DisposersBalance
<1>1. Init => BalanceInv
  BY InitCount
<1>2. Base /\ BalanceInv /\ [Next]_evars => BalanceInv'
  BY BalanceStep
<1>3. Base /\ BalanceInv => DisposersBalance
  <2> SUFFICES ASSUME Base, BalanceInv, NEW e \in Event, NEW fn \in Shared
               PROVE  Cardinality({i \in DOMAIN subs[e] : subs[e][i].fn = fn})
                        = Cardinality({s \in open : s.event = e /\ s.fn = fn})
    BY DEF DisposersBalance
  <2>1. {i \in DOMAIN subs[e] : subs[e][i].fn = fn} = Entry(subs[e], fn)
    BY LenProperties DEF Base, Typed, EventTypeOK, Entry
  <2> QED BY <2>1 DEF BalanceInv, Count, OpenFor
<1> QED BY <1>1, <1>2, <1>3, BaseInvariance, PTL DEF Spec

-----------------------------------------------------------------------------
(* What Audit hears of a method.                                           *)

(* Where a sequence has e, up to its n-th entry.                           *)
At(s, n, e) == {i \in 1..n : s[i] = e}

LEMMA AtNone ==
  ASSUME NEW s, NEW e
  PROVE  Cardinality(At(s, 0, e)) = 0
<1>1. At(s, 0, e) = {}
  BY DEF At
<1> QED BY <1>1, FS_EmptySet

LEMMA AtFinite ==
  ASSUME NEW s, NEW n \in Nat, NEW e
  PROVE  IsFiniteSet(At(s, n, e)) /\ Cardinality(At(s, n, e)) \in Nat
<1>1. At(s, n, e) \subseteq 1..n /\ IsFiniteSet(1..n)
  BY FS_Interval DEF At
<1> QED BY <1>1, FS_Subset, FS_CardinalityType

LEMMA AtNext ==
  ASSUME NEW s, NEW n \in Nat, NEW e
  PROVE  Cardinality(At(s, n + 1, e)) = Cardinality(At(s, n, e))
                                        + (IF s[n + 1] = e THEN 1 ELSE 0)
<1>1. At(s, n + 1, e) = At(s, n, e) \cup (IF s[n + 1] = e THEN {n + 1} ELSE {})
  BY DEF At
<1>2. n + 1 \notin At(s, n, e)
  BY DEF At
<1>3. IsFiniteSet(At(s, n, e)) /\ Cardinality(At(s, n, e)) \in Nat
  BY AtFinite
<1>4. CASE s[n + 1] = e
  BY <1>1, <1>2, <1>3, <1>4, FS_AddElement
<1>5. CASE s[n + 1] # e
  <2>1. At(s, n + 1, e) = At(s, n, e)
    BY <1>1, <1>5
  <2> QED BY <1>3, <1>5, <2>1
<1> QED BY <1>4, <1>5

Hears(e) == Cardinality(At(heard, Len(heard), e))

LEMMA HearsAppend ==
  ASSUME heard \in Seq(Event), NEW d \in Event, heard' = Append(heard, d), NEW e \in Event
  PROVE  Hears(e)' = Hears(e) + (IF d = e THEN 1 ELSE 0)
<1>1. /\ Len(heard) \in Nat /\ Len(heard') = Len(heard) + 1 /\ heard'[Len(heard) + 1] = d
      /\ \A i \in 1..Len(heard) : heard'[i] = heard[i]
  BY LenProperties, AppendProperties
<1>2. At(heard', Len(heard), e) = At(heard, Len(heard), e)
  BY <1>1 DEF At
<1>3. \A s, n : n \in Nat => Cardinality(At(s, n + 1, e)) = Cardinality(At(s, n, e))
                                                     + (IF s[n + 1] = e THEN 1 ELSE 0)
  BY AtNext
<1>4. Cardinality(At(heard', Len(heard) + 1, e)) = Cardinality(At(heard', Len(heard), e))
                                           + (IF heard'[Len(heard) + 1] = e THEN 1 ELSE 0)
  BY <1>1, <1>3
<1> QED BY <1>1, <1>2, <1>4 DEF Hears

(* The method under way, and how many of its events it has fired, or       *)
(* passed over.                                                            *)
InMethod == stack # <<>> /\ stack[1].kind = "method"
Current == stack[1].method
Past == Len(Fires(Current)) - Len(stack[1].todo)

(* How often it has fired e.                                               *)
Sent(e) == IF IsValidEvent(e) THEN Cardinality(At(Fires(Current), Past, e)) ELSE 0

(* The call of Audit that the emit under way has yet to make.              *)
Awaits(e) ==
  IF Len(stack) >= 2 /\ stack[2].event = e THEN Cardinality(Entry(stack[2].todo, Audit)) ELSE 0

AuditOnce == \A e \in Event : Count(e, Audit) = 1

(* The events that the method has yet to fire are the last ones it fires.  *)
InTurn ==
  InMethod => /\ Past \in Nat
              /\ \A i \in 1..Len(stack[1].todo) : stack[1].todo[i] = Fires(Current)[Past + i]

(* What the method has fired, Audit has heard, or will from the emit under *)
(* way; once a second event is fired, the first one was heard first.       *)
Heeds ==
  InMethod /\ ~muted =>
    /\ \A e \in Event : Hears(e) + Awaits(e) = Sent(e)
    /\ Current.op # "custom" /\ Past >= 2 => heard # <<>> /\ heard[1] = Current.op

HeardInv == (eventsDisabled => muted) /\ AuditOnce /\ InTurn /\ Heeds

(* Audit stays on every list, once.                                        *)
LEMMA AuditStep ==
  ASSUME Base, AuditOnce, [Next]_evars
  PROVE  AuditOnce'
<1> SUFFICES ASSUME NEW d \in Event PROVE Count(d, Audit)' = 1
  BY DEF AuditOnce
<1>1. Count(d, Audit) = 1
  BY DEF AuditOnce
<1>2. Audit \notin Single /\ Audit \notin Shared
  BY EventAssumption
<1>3. subs' = subs => Count(d, Audit)' = 1
  BY <1>1 DEF Count
<1>4. CASE CallListener
  BY <1>1, <1>2, <1>4, CountDeliver
<1>5. ASSUME NEW e \in Event, NEW x, Adds(e, x), x.fn # Audit
      PROVE  Count(d, Audit)' = 1
  BY <1>1, <1>5, CountAdds
<1>6. ASSUME NEW e \in Event, NEW fn, Drops(e, fn), fn # Audit
      PROVE  Count(d, Audit)' = 1
  BY <1>1, <1>6, CountDrops
<1>7. \A s \in open : s.event \in Event /\ s.fn \in Shared
  BY DEF Base, Typed, EventTypeOK, Opened
<1>8. ASSUME \/ \E m \in Method : Start(m)
             \/ FireEvent \/ Unwind \/ Finish
             \/ \E e \in Event : EmitDirectly(e)
             \/ SwitchEvents \/ UNCHANGED evars
      PROVE  subs' = subs
  BY <1>8, StartFacts, FireFacts, EndFacts, EmitFacts DEF Base, SwitchEvents, evars
<1> QED BY <1>2, <1>3, <1>4, <1>5, <1>6, <1>7, <1>8, Steps

(* The method's frame and what is past of it.                              *)
LEMMA MethodFacts ==
  ASSUME Typed, InMethod
  PROVE  /\ Current \in Method /\ stack[1].todo \in Seq(Event \cup {NoEvent})
         /\ stack[1] = [kind |-> "method", method |-> Current, todo |-> stack[1].todo]
         /\ Fires(Current) \in Seq(Event \cup {NoEvent}) /\ Fires(Current) # <<>>
         /\ Len(Fires(Current)) \in Nat /\ Len(stack[1].todo) \in Nat
         /\ Len(stack) = 1 => Top = stack[1]
         /\ Len(stack) >= 2 => stack[2].kind = "emit" /\ stack[2].event \in Event
                               /\ stack[2].todo \in Seq(Subscription)
<1>1. Len(stack) \in Nat /\ Len(stack) >= 1 /\ Top = stack[Len(stack)]
  BY StackFacts DEF InMethod, Typed
<1>2. \A k \in 1..Len(stack) : stack[k] \in Frame
  BY ElementOfSeq DEF Typed, EventTypeOK
<1>3. /\ Current \in Method /\ stack[1].todo \in Seq(Event \cup {NoEvent})
      /\ stack[1] = [kind |-> "method", method |-> Current, todo |-> stack[1].todo]
  BY <1>1, <1>2, FrameKinds DEF InMethod, Current
<1>4. Fires(Current) \in Seq(Event \cup {NoEvent}) /\ Fires(Current) # <<>>
  BY <1>3, FiresType
<1>5. Len(Fires(Current)) \in Nat /\ Len(stack[1].todo) \in Nat
  BY <1>3, <1>4, LenProperties
<1>6. ASSUME Len(stack) >= 2
      PROVE  stack[2].kind = "emit" /\ stack[2].event \in Event
             /\ stack[2].todo \in Seq(Subscription)
  <2>1. 1 \in 1..Len(stack) /\ 2 \in 1..Len(stack)
    BY <1>1, <1>6
  <2>2. stack[2].kind = IF stack[2 - 1].kind = "emit" THEN "listener" ELSE "emit"
    BY <2>1 DEF Typed, Shape
  <2>3. stack[2 - 1].kind = "method"
    BY DEF InMethod
  <2> QED BY <1>2, <2>1, <2>2, <2>3, FrameKinds
<1> QED BY <1>1, <1>3, <1>4, <1>5, <1>6

LEMMA AwaitsNothing ==
  ASSUME Len(stack) < 2 \/ stack[2].todo = <<>>
  PROVE  \A e \in Event : Awaits(e) = 0
<1>1. stack[2].todo = <<>> => Entry(stack[2].todo, Audit) = {}
  BY DEF Entry
<1>2. CASE stack[2].todo = <<>>
  BY <1>1, <1>2, FS_EmptySet DEF Awaits
<1>3. CASE Len(stack) < 2
  BY <1>3 DEF Awaits
<1> QED BY <1>2, <1>3

(* Audit has heard the method's own event before the next one is fired.    *)
LEMMA OwnEventFirst ==
  ASSUME Typed, InTurn, Heeds, InMethod, ~muted, Len(stack) = 1, Past >= 1,
         Current.op # "custom"
  PROVE  heard # <<>> /\ heard[1] = Current.op
<1> DEFINE op == Current.op
<1>1. Past \in Nat /\ \A e \in Event : Hears(e) = Sent(e)
  <2>1. \A e \in Event : Hears(e) + 0 = Sent(e)
    BY AwaitsNothing DEF Heeds
  <2>2. \A e \in Event : Hears(e) \in Nat
    BY AtFinite, LenProperties DEF Hears, Typed, EventTypeOK
  <2> QED BY <2>1, <2>2 DEF InTurn
<1>2. CASE Past >= 2
  BY <1>2 DEF Heeds
<1>3. CASE Past = 1
  <2>1. op \in Event /\ Fires(Current)[1] = op /\ IsValidEvent(op)
    <3>1. Current \in Method /\ op \in BaseEvent
      BY MethodFacts, EventAssumption DEF MethodType, BaseEvent
    <3> QED BY <3>1, FiresType, EventAssumption DEF IsValidEvent
  <2>2. \A s, e : Cardinality(At(s, 0 + 1, e)) = Cardinality(At(s, 0, e))
                                                + (IF s[0 + 1] = e THEN 1 ELSE 0)
    BY AtNext
  <2>3. \A e : Cardinality(At(Fires(Current), 1, e)) = IF op = e THEN 1 ELSE 0
    BY <2>1, <2>2, AtNone
  <2>4. Hears(op) = 1 /\ \A e \in Event : e # op => Hears(e) = 0
    BY <1>1, <1>3, <2>1, <2>3 DEF Sent
  <2>5. heard \in Seq(Event) /\ Len(heard) \in Nat
    BY LenProperties DEF Typed, EventTypeOK
  <2>6. Len(heard) # 0
    BY <2>4, AtNone DEF Hears
  <2>7. heard # <<>> /\ heard[1] \in Event
    BY <2>5, <2>6, ElementOfSeq
  <2>8. \A e \in Event : Hears(e) = 0 => At(heard, Len(heard), e) = {}
    BY <2>5, AtFinite, FS_EmptySet DEF Hears
  <2>9. 1 \in At(heard, Len(heard), heard[1])
    BY <2>5, <2>6 DEF At
  <2>10. Hears(heard[1]) # 0
    BY <2>7, <2>8, <2>9
  <2> QED BY <2>4, <2>7, <2>10
<1> QED BY <1>1, <1>2, <1>3

LEMMA HeedsKept ==
  ASSUME InTurn, Heeds, InMethod' => InMethod /\ stack'[1] = stack[1],
         heard' = heard, muted => muted',
         InMethod' => \A e \in Event : Awaits(e)' = Awaits(e)
  PROVE  InTurn' /\ Heeds'
<1> SUFFICES ASSUME InMethod' PROVE InTurn' /\ Heeds'
  BY DEF InTurn, Heeds
<1>1. InMethod /\ Current' = Current /\ Past' = Past /\ stack'[1] = stack[1]
  BY DEF Current, Past
<1>2. \A e \in Event : Sent(e)' = Sent(e) /\ Hears(e)' = Hears(e)
  BY <1>1 DEF Sent, Hears, IsValidEvent
<1> QED BY <1>1, <1>2 DEF InTurn, Heeds

LEMMA HeedsStart ==
  ASSUME Base, NEW m \in Method, Start(m)
  PROVE  InTurn' /\ Heeds'
<1>1. /\ Len(stack') = 1 /\ heard' = <<>>
      /\ stack'[1] = [kind |-> "method", method |-> m, todo |-> Fires(m)]
  BY StartFacts DEF Base
<1>2. Fires(m) \in Seq(Event \cup {NoEvent}) /\ Len(Fires(m)) \in Nat
  BY FiresType, LenProperties
<1>3. Current' = m /\ Past' = 0 /\ stack'[1].todo = Fires(m)
  BY <1>1, <1>2 DEF Current, Past
<1>4. InTurn'
  BY <1>2, <1>3 DEF InTurn
<1>5. ASSUME NEW e \in Event PROVE Hears(e)' = 0 /\ Awaits(e)' = 0 /\ Sent(e)' = 0
  <2>1. Hears(e)' = 0
    BY <1>1, AtNone DEF Hears
  <2>2. Sent(e)' = 0
    BY <1>3, AtNone DEF Sent
  <2> QED BY <1>1, <2>1, <2>2 DEF Awaits
<1> QED BY <1>3, <1>4, <1>5 DEF Heeds

LEMMA HeedsFire ==
  ASSUME Base, HeardInv, FireEvent
  PROVE  InTurn' /\ Heeds'
<1> DEFINE h == Head(stack[1].todo)
           F == Fires(Current)
<1>1. /\ Len(stack) = 1 /\ stack[1].kind = "method" /\ stack[1].todo # <<>> /\ Takes
      /\ UNCHANGED <<subs, heard, muted>>
      /\ IF eventsDisabled \/ ~IsValidEvent(h) THEN Len(stack') = 1
         ELSE h \in Event /\ Len(stack') = 2 /\ stack'[2] = Emitting(h)
  BY FireFacts DEF Base, Records
<1>2. InMethod
  BY <1>1 DEF Takes, InMethod
<1>3. /\ stack[1].todo \in Seq(Event \cup {NoEvent}) /\ Len(stack[1].todo) \in Nat
      /\ stack[1] = [kind |-> "method", method |-> Current, todo |-> stack[1].todo]
      /\ Len(F) \in Nat /\ Top = stack[1]
  BY <1>1, <1>2, MethodFacts DEF Base
<1>4. stack'[1].method = Current /\ stack'[1].todo = Tail(stack[1].todo)
  <2>1. stack'[1] = [stack[1] EXCEPT !.todo = Tail(stack[1].todo)]
    BY <1>1, <1>3 DEF Takes
  <2>2. stack[1] \in Frame
    BY <1>1, <1>3, StackFacts DEF Base, Typed, Takes
  <2> QED BY <1>1, <2>1, <2>2, TakenFrame DEF Current
<1>5. /\ Len(Tail(stack[1].todo)) = Len(stack[1].todo) - 1 /\ h = stack[1].todo[1]
      /\ \A i \in 1..Len(Tail(stack[1].todo)) : Tail(stack[1].todo)[i] = stack[1].todo[i + 1]
  BY <1>1, <1>3, HeadTailProperties
<1>6. Current' = Current /\ Past' = Past + 1 /\ stack'[1].todo = Tail(stack[1].todo)
  <2>1. Current' = Current /\ stack'[1].todo = Tail(stack[1].todo)
    BY <1>4 DEF Current
  <2>2. Past' = Len(F) - Len(Tail(stack[1].todo)) /\ Past = Len(F) - Len(stack[1].todo)
    BY <2>1 DEF Past
  <2>3. \A a, b \in Nat : a - (b - 1) = a - b + 1
    OBVIOUS
  <2>4. Past' = Past + 1
    BY <1>3, <1>5, <2>2, <2>3
  <2> QED BY <2>1, <2>4
<1>7. /\ Past \in Nat /\ Len(stack[1].todo) >= 1 /\ h = F[Past + 1]
      /\ \A i \in 1..Len(stack[1].todo) : stack[1].todo[i] = F[Past + i]
  <2>1. Len(stack[1].todo) >= 1
    BY <1>1, <1>3, EmptySeq
  <2>2. Past \in Nat /\ \A i \in 1..Len(stack[1].todo) : stack[1].todo[i] = F[Past + i]
    BY <1>2 DEF HeardInv, InTurn
  <2> QED BY <1>3, <1>5, <2>1, <2>2
<1>8. InTurn'
  <2>1. ASSUME NEW i \in 1..Len(Tail(stack[1].todo))
        PROVE  Tail(stack[1].todo)[i] = F[Past + 1 + i]
    <3>1. i + 1 \in 1..Len(stack[1].todo) /\ Past + (i + 1) = Past + 1 + i
      BY <1>3, <1>5, <1>7
    <3> QED BY <1>5, <1>7, <3>1
  <2> QED BY <1>6, <1>7, <2>1 DEF InTurn
<1>9. ASSUME ~muted' PROVE Heeds'
  <2>1. ~muted /\ ~eventsDisabled
    BY <1>1, <1>9 DEF HeardInv
  <2>2. ASSUME NEW e \in Event PROVE Hears(e)' + Awaits(e)' = Sent(e)'
    <3>1. Hears(e)' = Hears(e) /\ Hears(e) \in Nat
      BY <1>1, AtFinite, LenProperties DEF Hears, Base, Typed, EventTypeOK
    <3>2. Hears(e) + 0 = Sent(e)
      BY <1>1, <1>2, <2>1, AwaitsNothing DEF HeardInv, Heeds
    <3>3. Sent(e)' = IF IsValidEvent(e) THEN Cardinality(At(F, Past + 1, e)) ELSE 0
      BY <1>6 DEF Sent, IsValidEvent
    <3>4. Cardinality(At(F, Past + 1, e)) = Cardinality(At(F, Past, e))
                                            + (IF h = e THEN 1 ELSE 0)
      BY <1>7, AtNext
    <3>5. Cardinality(At(F, Past, e)) \in Nat
      BY <1>7, AtFinite
    <3>6. CASE IsValidEvent(h)
      <4>1. Len(stack') = 2 /\ stack'[2] = [kind |-> "emit", event |-> h, todo |-> subs[h]]
        BY <1>1, <2>1, <3>6, EmittingFrame DEF Base, Typed
      <4>2. Awaits(e)' = IF h = e THEN Count(e, Audit) ELSE 0
        BY <1>1, <4>1 DEF Awaits, Count
      <4>3. Awaits(e)' = IF h = e THEN 1 ELSE 0
        BY <4>2 DEF HeardInv, AuditOnce
      <4>4. CASE h = e
        BY <3>1, <3>2, <3>3, <3>4, <3>5, <3>6, <4>3, <4>4 DEF Sent
      <4>5. CASE h # e
        BY <3>1, <3>2, <3>3, <3>4, <3>5, <4>3, <4>5 DEF Sent
      <4> QED BY <4>4, <4>5
    <3>7. CASE ~IsValidEvent(h)
      <4>1. Awaits(e)' = 0
        <5>1. Len(stack') = 1
          BY <1>1, <3>7
        <5>2. ~(Len(stack') >= 2)
          BY <5>1
        <5> QED BY <5>2 DEF Awaits
      <4>2. Sent(e)' = Sent(e)
        BY <3>3, <3>4, <3>5, <3>7 DEF Sent
      <4> QED BY <3>1, <3>2, <4>1, <4>2
    <3> QED BY <3>6, <3>7
  <2>3. ASSUME Current.op # "custom", Past + 1 >= 2
        PROVE  heard # <<>> /\ heard[1] = Current.op
    <3>1. Past >= 1
      BY <1>7, <2>3
    <3> QED BY <1>1, <1>2, <2>1, <2>3, <3>1, OwnEventFirst DEF HeardInv, Base
  <2> QED BY <1>1, <1>6, <2>2, <2>3 DEF Heeds
<1> QED BY <1>8, <1>9 DEF Heeds

LEMMA HeedsDeliver ==
  ASSUME Base, HeardInv, CallListener
  PROVE  InTurn' /\ Heeds'
<1> DEFINE s == Head(Top.todo)
<1>1. /\ Takes /\ Top.kind = "emit" /\ Top.todo \in Seq(Subscription) /\ Top.event \in Event
      /\ s \in Subscription /\ s = Top.todo[1] /\ muted' = muted
      /\ Len(stack) \in Nat /\ Len(stack) >= 1 /\ Top = stack[Len(stack)]
  BY DeliverFacts, StackFacts DEF Base, Typed, Takes
<1>2. \/ Skip(s) /\ heard' = heard
      \/ ~Skip(s) /\ heard' = IF Len(stack) = 2 /\ stack[1].kind = "method" /\ s.fn = Audit
                              THEN Append(heard, Top.event) ELSE heard
  BY DeliverFacts DEF Base
<1>3. s.once <=> s.fn \in Single
  BY <1>1, TakenSeen DEF Base
<1> HIDE DEF s
<1>4. stack'[Len(stack)] = [Top EXCEPT !.todo = Tail(@)] /\ Keeps(Len(stack) - 1)
      /\ Len(stack') >= Len(stack)
  BY <1>1 DEF Takes
<1>5. CASE Len(stack) = 1
  <2>1. stack'[1].kind = "emit"
    <3>1. Top \in Frame
      BY <1>1, StackFacts DEF Base, Typed, Takes
    <3>2. [Top EXCEPT !.todo = Tail(Top.todo)].kind = "emit"
      BY <1>1, <3>1, TakenFrame
    <3> QED BY <1>4, <1>5, <3>2
  <2>2. ~InMethod'
    BY <2>1 DEF InMethod
  <2> QED BY <2>2 DEF InTurn, Heeds
<1>6. CASE Len(stack) > 2
  <2>1. stack'[1] = stack[1] /\ stack'[2] = stack[2] /\ Len(stack') >= 2 /\ heard' = heard
    BY <1>1, <1>2, <1>4, <1>6 DEF Keeps
  <2>2. InMethod' => InMethod /\ stack'[1] = stack[1]
    BY <1>1, <2>1 DEF InMethod, Takes
  <2>3. \A e \in Event : Awaits(e)' = Awaits(e)
    BY <1>6, <2>1 DEF Awaits
  <2> QED BY <1>1, <2>1, <2>2, <2>3, HeedsKept DEF HeardInv
<1>7. CASE Len(stack) = 2 /\ ~InMethod'
  BY <1>7 DEF InTurn, Heeds
<1>8. CASE Len(stack) = 2 /\ InMethod'
  <2>1. stack'[1] = stack[1] /\ InMethod
    BY <1>1, <1>4, <1>8 DEF Keeps, InMethod, Takes
  <2>2. /\ stack'[2].event = stack[2].event /\ stack'[2].todo = Tail(stack[2].todo)
        /\ Len(stack') >= 2 /\ Top = stack[2]
    <3>1. stack[2] \in Frame /\ stack[2].kind # "method"
      BY <1>1, <1>8, StackFacts DEF Base, Typed, Takes
    <3>2. \A u : [stack[2] EXCEPT !.todo = u].event = stack[2].event
                /\ [stack[2] EXCEPT !.todo = u].todo = u
      BY <3>1, TakenFrame
    <3>3. stack'[2] = [stack[2] EXCEPT !.todo = Tail(stack[2].todo)]
      BY <1>1, <1>4, <1>8
    <3> QED BY <1>1, <1>4, <1>8, <3>1, <3>2, <3>3
  <2>3. ASSUME NEW e \in Event
        PROVE  /\ Awaits(e)' = Awaits(e)
                               - (IF stack[2].event = e /\ s.fn = Audit THEN 1 ELSE 0)
               /\ Awaits(e) \in Nat
    <3>1. Top.todo # <<>> /\ Tail(Top.todo) \in Seq(Subscription)
      BY <1>1, HeadTailProperties DEF Takes
    <3>2. Without(Tail(Top.todo), Top.todo, 1)
      BY <1>1, <3>1, TailWithout
    <3>3. Cardinality(Entry(Tail(Top.todo), Audit)) = Cardinality(Entry(Top.todo, Audit))
                                                      - (IF s.fn = Audit THEN 1 ELSE 0)
      <4>1. \A q, t \in Seq(Subscription) : Without(t, q, 1) =>
              Cardinality(Entry(t, Audit)) = Cardinality(Entry(q, Audit))
                                             - (IF q[1].fn = Audit THEN 1 ELSE 0)
        BY EntryWithout
      <4> QED BY <1>1, <3>1, <3>2, <4>1
    <3>4. Cardinality(Entry(Top.todo, Audit)) \in Nat
      BY <1>1, EntryFinite
    <3>5. Awaits(e) = IF Top.event = e THEN Cardinality(Entry(Top.todo, Audit)) ELSE 0
      BY <1>8, <2>2 DEF Awaits
    <3>6. Awaits(e)' = IF Top.event = e THEN Cardinality(Entry(Tail(Top.todo), Audit)) ELSE 0
      BY <2>2 DEF Awaits
    <3> QED BY <2>2, <3>3, <3>4, <3>5, <3>6
  <2>4. heard' = IF s.fn = Audit THEN Append(heard, stack[2].event) ELSE heard
    <3>1. s.fn = Audit => ~Skip(s)
      BY <1>3, EventAssumption DEF Skip
    <3> QED BY <1>2, <1>8, <2>1, <2>2, <3>1 DEF InMethod
  <2>5. Current' = Current /\ Past' = Past /\ \A e \in Event : Sent(e)' = Sent(e)
    BY <2>1 DEF Current, Past, Sent, IsValidEvent
  <2>6. InTurn'
    BY <2>1, <2>5 DEF HeardInv, InTurn
  <2>7. heard \in Seq(Event) /\ stack[2].event \in Event
    BY <1>1, <2>2 DEF Base, Typed, EventTypeOK
  <2>8. ASSUME ~muted', NEW e \in Event PROVE Hears(e)' + Awaits(e)' = Sent(e)'
    <3>1. Hears(e) + Awaits(e) = Sent(e)
      BY <1>1, <2>1, <2>8 DEF HeardInv, Heeds
    <3>2. Hears(e) \in Nat
      BY <2>7, AtFinite, LenProperties DEF Hears
    <3>3. CASE s.fn = Audit
      <4>1. Hears(e)' = Hears(e) + (IF stack[2].event = e THEN 1 ELSE 0)
        BY <2>4, <2>7, <3>3, HearsAppend
      <4> QED BY <2>3, <2>5, <3>1, <3>2, <3>3, <4>1
    <3>4. CASE s.fn # Audit
      <4>1. Hears(e)' = Hears(e)
        BY <2>4, <3>4 DEF Hears
      <4> QED BY <2>3, <2>5, <3>1, <3>2, <3>4, <4>1
    <3> QED BY <3>3, <3>4
  <2>9. heard # <<>> => heard' # <<>> /\ heard'[1] = heard[1]
    <3>1. Len(heard) \in Nat /\ (heard # <<>> => Len(heard) >= 1)
      BY <2>7, LenProperties, EmptySeq
    <3> QED BY <2>4, <2>7, <3>1, AppendProperties
  <2>10. Heeds'
    BY <1>1, <2>1, <2>5, <2>8, <2>9 DEF HeardInv, Heeds
  <2> QED BY <2>6, <2>10
<1>9. Len(stack) = 1 \/ Len(stack) = 2 \/ Len(stack) > 2
  <2>1. \A n \in Nat : n >= 1 => n = 1 \/ n = 2 \/ n > 2
    OBVIOUS
  <2> QED BY <1>1, <2>1
<1> QED BY <1>5, <1>6, <1>7, <1>8, <1>9

LEMMA HeedsEnd ==
  ASSUME Base, HeardInv, Unwind \/ Finish
  PROVE  InTurn' /\ Heeds'
<1>1. PICK n \in 1..Len(stack) :
        Pops(n) /\ (n = 1 \/ stack[n - 1].kind # "method" \/ stack[n].todo = <<>>)
  BY EndFacts DEF Base
<1>2. /\ stack' \in Seq(Frame) /\ heard' = heard /\ muted' = muted
      /\ Len(stack) \in Nat /\ n \in Nat /\ Len(stack') = n - 1 /\ n <= Len(stack)
      /\ \A k \in 1..(n - 1) : stack'[k] = stack[k]
  BY <1>1, EndFacts, LenProperties DEF Base, Typed, EventTypeOK, Records, Pops, Keeps
<1>3. CASE n = 1
  <2>1. stack' = <<>>
    BY <1>2, <1>3, EmptySeq
  <2> QED BY <2>1 DEF InTurn, Heeds, InMethod
<1>4. CASE n >= 2
  <2>1. stack'[1] = stack[1] /\ Len(stack) >= 2 /\ stack # <<>>
    BY <1>2, <1>4, EmptySeq DEF Base, Typed, EventTypeOK
  <2>2. InMethod' => InMethod
    BY <2>1 DEF InMethod
  <2>3. ASSUME InMethod, NEW e \in Event PROVE Awaits(e)' = Awaits(e)
    <3>1. CASE n = 2
      <4>1. stack[2 - 1].kind = "method"
        BY <2>3 DEF InMethod
      <4>2. Awaits(e) = 0
        BY <1>1, <3>1, <4>1, AwaitsNothing
      <4>3. Awaits(e)' = 0
        BY <1>2, <3>1 DEF Awaits
      <4> QED BY <4>2, <4>3
    <3>2. CASE n > 2
      <4>1. stack'[2] = stack[2] /\ Len(stack') >= 2
        BY <1>2, <3>2
      <4> QED BY <2>1, <4>1 DEF Awaits
    <3> QED BY <1>2, <1>4, <3>1, <3>2
  <2> QED BY <1>2, <2>1, <2>2, <2>3, HeedsKept DEF HeardInv
<1> QED BY <1>1, <1>3, <1>4

(* Listeners that emit push frames on top of the method's emit.            *)
LEMMA HeedsEmit ==
  ASSUME Base, HeardInv, NEW d \in Event, EmitDirectly(d)
  PROVE  InTurn' /\ Heeds'
<1>1. /\ heard' = heard /\ muted' = muted /\ Pushes(Emitting(d))
      /\ stack = <<>> \/ InListener
  BY EmitFacts DEF Base
<1>2. CASE stack = <<>>
  <2>1. stack'[1].kind = "emit"
    BY <1>1, <1>2 DEF Pushes, Emitting
  <2> QED BY <2>1 DEF InTurn, Heeds, InMethod
<1>3. CASE InListener
  <2>1. /\ Len(stack) \in Nat /\ Len(stack) >= 1 /\ Top = stack[Len(stack)]
        /\ Top.kind = "listener"
    BY <1>3, StackFacts DEF Base, Typed, InListener
  <2>2. Len(stack) # 1
    BY <2>1 DEF Base, Typed, Shape
  <2>3. Len(stack) >= 2 /\ Len(stack') >= 2 /\ stack'[1] = stack[1] /\ stack'[2] = stack[2]
    <3>1. \A n \in Nat : n >= 1 /\ n # 1 => n >= 2 /\ n + 1 >= 2 /\ 1 \in 1..n /\ 2 \in 1..n
      OBVIOUS
    <3> QED BY <1>1, <2>1, <2>2, <3>1 DEF Pushes, Keeps
  <2>4. InMethod' => InMethod
    BY <1>3, <2>3 DEF InMethod, InListener
  <2>5. \A e \in Event : Awaits(e)' = Awaits(e)
    BY <2>3 DEF Awaits
  <2> QED BY <1>1, <2>3, <2>4, <2>5, HeedsKept DEF HeardInv
<1> QED BY <1>1, <1>2, <1>3

LEMMA HeardStep ==
  ASSUME Base, HeardInv, [Next]_evars
  PROVE  HeardInv'
<1>1. AuditOnce'
  BY AuditStep DEF HeardInv
<1>2. InTurn' /\ Heeds'
  <2>1. UNCHANGED <<stack, heard>> /\ (muted => muted') => InTurn' /\ Heeds'
    <3> SUFFICES ASSUME UNCHANGED <<stack, heard>>, muted => muted'
                 PROVE  InTurn' /\ Heeds'
      OBVIOUS
    <3>1. (InMethod' => InMethod) /\ stack'[1] = stack[1] /\ heard' = heard
      BY DEF InMethod
    <3>2. \A e \in Event : Awaits(e)' = Awaits(e)
      BY DEF Awaits
    <3> QED BY <3>1, <3>2, HeedsKept DEF HeardInv
  <2>2. ASSUME NEW e, NEW x, Adds(e, x) \/ Drops(e, x)
        PROVE  UNCHANGED <<stack, heard>> /\ (muted => muted')
    BY <2>2 DEF Adds, Drops
  <2>3. ASSUME SwitchEvents PROVE UNCHANGED <<stack, heard>> /\ (muted => muted')
    <3>1. muted' = (muted \/ eventsDisabled') /\ UNCHANGED <<stack, heard>>
      BY <2>3 DEF SwitchEvents, Use
    <3> QED BY <3>1, Zenon
  <2>4. UNCHANGED evars => UNCHANGED <<stack, heard>> /\ (muted => muted')
    BY DEF evars
  <2> QED BY <2>1, <2>2, <2>3, <2>4, Steps, HeedsStart, HeedsFire, HeedsDeliver, HeedsEnd, HeedsEmit
<1>3. eventsDisabled' => muted'
  <2>1. UNCHANGED <<eventsDisabled, muted>> => (eventsDisabled' => muted')
    BY DEF HeardInv
  <2>2. ASSUME NEW e, NEW x, Adds(e, x) \/ Drops(e, x)
        PROVE  UNCHANGED <<eventsDisabled, muted>>
    BY <2>2 DEF Adds, Drops
  <2>3. ASSUME \/ FireEvent \/ CallListener \/ Unwind \/ Finish
               \/ \E e \in Event : EmitDirectly(e)
               \/ UNCHANGED evars
        PROVE  UNCHANGED <<eventsDisabled, muted>>
    BY <2>3, FireFacts, DeliverFacts, EndFacts, EmitFacts DEF Base, Records, evars
  <2>4. ASSUME SwitchEvents PROVE eventsDisabled' => muted'
    BY <2>4 DEF SwitchEvents
  <2>5. ASSUME NEW m \in Method, Start(m) PROVE eventsDisabled' => muted'
    BY <2>5 DEF Start
  <2> QED BY <2>1, <2>2, <2>3, <2>4, <2>5, Steps
<1> QED BY <1>1, <1>2, <1>3 DEF HeardInv

LEMMA InitHeard ==
  ASSUME Init
  PROVE  HeardInv
<1>1. stack = <<>> /\ eventsDisabled = FALSE
  BY InitState
<1>2. AuditOnce
  BY InitCount DEF AuditOnce
<1> QED BY <1>1, <1>2 DEF HeardInv, InTurn, Heeds, InMethod

(* How often a method fires an event: an update once for itself and once   *)
(* for each entry of the map whose field it has.                           *)
LEMMA FiresTimes ==
  ASSUME NEW m \in Method, NEW e \in Event
  PROVE  Times(m, e) = IF IsValidEvent(e)
                       THEN Cardinality(At(Fires(m), Len(Fires(m)), e)) ELSE 0
<1> DEFINE F == Fires(m)
<1>1. m \in MethodType /\ m.op \in {"custom"} \cup BaseEvent
  BY EventAssumption DEF MethodType, BaseEvent
<1>2. \A d \in BaseEvent : IsValidEvent(d)
  BY DEF IsValidEvent
<1>3. \A s, n : n \in Nat => Cardinality(At(s, n + 1, e)) = Cardinality(At(s, n, e))
                                                          + (IF s[n + 1] = e THEN 1 ELSE 0)
  BY AtNext
<1>4. Cardinality(At(F, 1, e)) = IF F[1] = e THEN 1 ELSE 0
  <2>1. Cardinality(At(F, 0 + 1, e)) = Cardinality(At(F, 0, e))
                                       + (IF F[0 + 1] = e THEN 1 ELSE 0)
    BY <1>3
  <2> QED BY <2>1, AtNone
<1>5. CASE m.op # "update"
  <2>1. Len(F) = 1 /\ F[1] = IF m.op = "custom" THEN m.event ELSE m.op
    BY <1>5, FiresType
  <2> DEFINE fires == Cardinality(At(F, Len(F), e))
  <2>2. fires = IF F[1] = e THEN 1 ELSE 0
    <3> HIDE DEF F
    <3> QED BY <1>4, <2>1
  <2> HIDE DEF fires
  <2>3. CASE m.op = "custom"
    <3>1. fires = IF m.event = e THEN 1 ELSE 0
      BY <2>1, <2>2, <2>3
    <3>2. Times(m, e) = IF e = m.event /\ IsValidEvent(e) THEN 1 ELSE 0
      BY <2>3 DEF Times
    <3>3. Times(m, e) = IF IsValidEvent(e) THEN fires ELSE 0
      BY <3>1, <3>2
    <3> QED BY <3>3 DEF fires
  <2>4. CASE m.op # "custom"
    <3>1. fires = IF m.op = e THEN 1 ELSE 0
      BY <2>1, <2>2, <2>4
    <3>2. IsValidEvent(m.op)
      BY <1>1, <1>2, <2>4
    <3>3. Times(m, e) = IF e = m.op THEN 1 ELSE 0
      BY <1>5, <2>4 DEF Times
    <3>4. Times(m, e) = IF IsValidEvent(e) THEN fires ELSE 0
      BY <3>1, <3>2, <3>3
    <3> QED BY <3>4 DEF fires
  <2> QED BY <2>3, <2>4
<1>6. CASE m.op = "update"
  <2> DEFINE k == Len(FieldEvents)
             A == Entries(m, e)
             B == At(F, k + 1, e) \ {1}
             f == [i \in A |-> i + 1]
  <2>1. /\ k \in Nat /\ DOMAIN FieldEvents = 1..k /\ Len(F) = k + 1 /\ F[1] = "update"
        /\ \A i \in 1..k : F[i + 1] = IF m.upd[FieldEvents[i][1]] = "same" THEN NoEvent
                                      ELSE FieldEvents[i][2]
    BY <1>6, FiresType, EventAssumption, LenProperties
  <2>2. e # NoEvent
    BY EventAssumption
  <2>3. \A i \in 1..k : i \in A <=> F[i + 1] = e
    BY <2>1, <2>2 DEF Entries
  <2>4. A \subseteq 1..k
    BY <2>1 DEF Entries
  <2> HIDE DEF F, k, A
  <2>5. f \in Bijection(A, B)
    <3>1. \A i \in A : f[i] \in B
      BY <2>1, <2>3, <2>4 DEF At
    <3>2. \A i \in A, j \in A : f[i] = f[j] => i = j
      BY <2>4
    <3>3. \A b \in B : \E i \in A : f[i] = b
      <4> SUFFICES ASSUME NEW b \in B PROVE \E i \in A : f[i] = b
        OBVIOUS
      <4>1. b \in 1..(k + 1) /\ b # 1 /\ F[b] = e
        BY DEF At
      <4>2. b - 1 \in 1..k /\ (b - 1) + 1 = b
        BY <2>1, <4>1
      <4>3. b - 1 \in A
        BY <2>3, <4>1, <4>2
      <4> QED BY <4>2, <4>3
    <3> HIDE DEF f, B
    <3>4. f \in [A -> B]
      BY <3>1 DEF f
    <3> QED BY <3>2, <3>3, <3>4, Fun_IsBij
  <2>6. IsFiniteSet(A) /\ Cardinality(A) \in Nat
    <3>1. IsFiniteSet(1..k)
      BY <2>1, FS_Interval
    <3>2. IsFiniteSet(A)
      BY <2>4, <3>1, FS_Subset
    <3> QED BY <3>2, FS_CardinalityType
  <2>7. Cardinality(A) = Cardinality(B)
    <3> HIDE DEF f, B
    <3> QED BY <2>5, <2>6, FS_Bijection DEF ExistsBijection
  <2>8. /\ Cardinality(At(F, k + 1, e)) \in Nat
        /\ Cardinality(B) = Cardinality(At(F, k + 1, e))
                            - (IF 1 \in At(F, k + 1, e) THEN 1 ELSE 0)
    <3>1. k + 1 \in Nat
      BY <2>1
    <3>2. IsFiniteSet(At(F, k + 1, e)) /\ Cardinality(At(F, k + 1, e)) \in Nat
      BY <3>1, AtFinite
    <3>3. \A S, x : IsFiniteSet(S) =>
            Cardinality(S \ {x}) = IF x \in S THEN Cardinality(S) - 1 ELSE Cardinality(S)
      BY FS_RemoveElement
    <3>4. Cardinality(B) = IF 1 \in At(F, k + 1, e) THEN Cardinality(At(F, k + 1, e)) - 1
                           ELSE Cardinality(At(F, k + 1, e))
      BY <3>2, <3>3
    <3> QED BY <3>2, <3>4
  <2>9. 1 \in At(F, k + 1, e) <=> e = "update"
    BY <2>1 DEF At
  <2>10. Times(m, e) = Cardinality(A) + (IF e = "update" THEN 1 ELSE 0)
    BY <1>6 DEF Times, A
  <2>11. Times(m, e) = Cardinality(At(F, k + 1, e))
    <3> HIDE DEF B
    <3> QED BY <2>6, <2>7, <2>8, <2>9, <2>10
  <2>12. ASSUME ~IsValidEvent(e) PROVE Cardinality(At(F, k + 1, e)) = 0
    <3>1. e # "update"
      BY <1>2, <2>12 DEF BaseEvent
    <3>2. A = {}
      BY <2>12 DEF IsValidEvent, Entries, A
    <3> QED BY <2>10, <2>11, <3>1, <3>2, FS_EmptySet
  <2> QED BY <2>1, <2>11, <2>12 DEF F
<1> QED BY <1>5, <1>6

(* A method that ends with events enabled all the time, and without an     *)
(* error of a listener, has made Audit hear each of its events, as often   *)
(* as it fires it, its own event first: whatever the other listeners       *)
(* subscribe, dispose of or emit while they are called, and however deep   *)
(* they nest.                                                              *)
THEOREM MethodsAreHeard == Spec => Delivered
<1> DEFINE A == Len(stack) = 1 /\ stack[1].kind = "method" /\ stack' = <<>> /\ ~muted =>
                  /\ \A e \in Event : Cardinality({i \in DOMAIN heard : heard[i] = e})
                                        = Times(stack[1].method, e)
                  /\ stack[1].method.op # "custom" => heard[1] = stack[1].method.op
<1>1. Base /\ HeardInv /\ [Next]_evars => [A]_evars
  <2> SUFFICES ASSUME Base, HeardInv, [Next]_evars, Len(stack) = 1, InMethod, stack' = <<>>,
                      ~muted
               PROVE  /\ \A e \in Event : Cardinality({i \in DOMAIN heard : heard[i] = e})
                                            = Times(Current, e)
                      /\ Current.op # "custom" => heard[1] = Current.op
    <3>1. Len(stack) = 1 => stack # <<>>
      BY EmptySeq
    <3> QED BY <3>1 DEF InMethod, Current
  <2>1. Top = stack[1] /\ Len(Fires(Current)) \in Nat /\ Len(Fires(Current)) >= 1
        /\ Current \in Method
    BY MethodFacts, EmptySeq DEF Base
  <2>2. Len(stack') = 0
    BY EmptySeq
  <2>3. stack[1].todo = <<>>
    <3>1. CASE Finish
      BY <2>1, <3>1 DEF Finish
    <3>2. CASE Unwind
      BY <2>1, <3>2 DEF Unwind, Emitted, Return, Throw, InListener, InMethod
    <3>3. CASE FireEvent \/ CallListener
      BY <2>2, <3>3, FireFacts, DeliverFacts DEF Base
    <3>4. ASSUME NEW e, NEW x, Adds(e, x) \/ Drops(e, x) PROVE stack' = stack
      BY <3>4 DEF Adds, Drops
    <3>5. ASSUME \/ \E m \in Method : Start(m)
                 \/ \E e \in Event : EmitDirectly(e)
          PROVE  FALSE
      BY <2>1, <3>5 DEF Start, EmitDirectly, Use, InListener, InMethod
    <3>6. ASSUME SwitchEvents \/ UNCHANGED evars PROVE stack' = stack
      BY <3>6 DEF SwitchEvents, evars
    <3> QED BY <3>1, <3>2, <3>3, <3>4, <3>5, <3>6, Steps DEF InMethod
  <2>4. Past = Len(Fires(Current))
    BY <2>1, <2>3, EmptySeq DEF Past
  <2>5. ASSUME NEW e \in Event
        PROVE  Cardinality({i \in DOMAIN heard : heard[i] = e}) = Times(Current, e)
    <3>1. Hears(e) + 0 = Sent(e)
      BY <2>3, AwaitsNothing DEF HeardInv, Heeds
    <3>2. Len(heard) \in Nat /\ DOMAIN heard = 1..Len(heard)
      BY LenProperties DEF Base, Typed, EventTypeOK
    <3>3. Hears(e) \in Nat
      BY <3>2, AtFinite DEF Hears
    <3>4. {i \in DOMAIN heard : heard[i] = e} = At(heard, Len(heard), e)
      BY <3>2 DEF At
    <3>5. Sent(e) = Times(Current, e)
      BY <2>1, <2>4, FiresTimes DEF Sent
    <3>6. Hears(e) = Times(Current, e)
      BY <3>1, <3>3, <3>5
    <3> QED BY <3>4, <3>6 DEF Hears
  <2>6. Current.op # "custom" => heard[1] = Current.op
    BY <2>1, <2>4, OwnEventFirst DEF HeardInv, Base
  <2> QED BY <2>5, <2>6
<1>2. Spec => []HeardInv
  BY InitHeard, HeardStep, BaseInvariance, PTL DEF Spec
<1> QED BY <1>1, <1>2, BaseInvariance, PTL DEF Spec, Delivered
=============================================================================
