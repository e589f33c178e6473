------------------------ MODULE KeyedHistoryProofs ------------------------
(* What a loss leaves: created_at is never assigned twice, and the bytes   *)
(* reported as inherited are the bytes the previous incarnation served.    *)
(* And what a stream remembers stays within the producer cap: what         *)
(* producer_cap_admits lets in, evict_producers_over_cap makes room for.   *)
EXTENDS KeyedAnswersProofs, FiniteSetTheorems, WellFoundedInduction

---------------------------------------------------------------------------
(* Generations.  While recoveries wait for the clock, the counter bounds   *)
(* every created_at ever assigned, lost ones included.                     *)
CreatedInv == ClocksKeepUp => \A t \in minted : t.created <= last_created

GenerationNew ==
    /\ slot' # NoSlot /\ drawn' = drawn
    /\ slot = NoSlot \/ slot'.created # slot.created
    => slot'.created \notin Assigned

LEMMA CreatedStep ==
    ASSUME TypeOK, TokenInv, CreatedInv, ClocksKeepUp, [Next]_vars
    PROVE  CreatedInv' /\ GenerationNew
<1>0. /\ \A t \in minted : t.created \in Nat /\ t.created <= last_created
      /\ last_created \in Nat /\ kept.last_created \in Nat /\ drawn \in Nat
  BY DEF TypeOK, Token, CreatedInv
<1>r. ASSUME Remove PROVE CreatedInv' /\ GenerationNew
  BY <1>r, <1>0 DEF Remove, CreatedInv, GenerationNew
<1>s. ASSUME slot # NoSlot, slot' # NoSlot, slot'.created = slot.created,
             last_created' = last_created, minted' \subseteq minted \cup {TokenOf(slot', history')}
      PROVE  CreatedInv' /\ GenerationNew
  <2>1. TokenOf(slot', history').created = slot.created
    BY <1>s DEF TokenOf
  <2>2. slot.created <= last_created
    BY <1>s DEF TokenInv
  <2>. QED
    BY <1>0, <1>s, <2>1, <2>2 DEF CreatedInv, GenerationNew
<1>1. ASSUME NEW now \in Clock, ExpireStream(now) PROVE CreatedInv' /\ GenerationNew
  BY <1>1, <1>r DEF ExpireStream
<1>2. ASSUME NEW now \in Clock, NEW tok \in minted \cup {NoToken}, NEW w \in Requests,
             NEW b \in Bodies, WriteLive(now, tok, w, b)
      PROVE  CreatedInv' /\ GenerationNew
  <2>1. slot # NoSlot /\ slot' # NoSlot /\ slot'.created = slot.created
    BY <1>2, WriteLiveSlot, WriteLiveShape
  <2>2. last_created' = last_created /\ minted' \subseteq minted \cup {TokenOf(slot', history')}
    BY <1>2 DEF WriteLive, Observe
  <2>. QED
    BY <1>s, <2>1, <2>2
<1>3. ASSUME NEW now \in Clock, NEW b \in Bodies, NEW ttl \in Ttls, NEW exp \in Expiries,
             Create(now, b, ttl, exp)
      PROVE  CreatedInv' /\ GenerationNew
  <2> DEFINE created == NextCreated(now)
  <2>1. created \in Nat /\ created > last_created /\ NewSlot(now, b, ttl, exp).created = created
    BY NewSlotFacts
  <2>2. Observe
    BY <1>3 DEF Create
  <2>3. CASE slot' = NoSlot
    <3>1. last_created' \in {last_created, MaxOf(last_created, created)} /\ minted' = minted
      BY <1>3, <2>2, <2>3 DEF Create, Observe
    <3> HIDE DEF created
    <3>2. last_created' \in Nat /\ last_created <= last_created'
      BY <1>0, <2>1, <3>1 DEF MaxOf
    <3>. QED
      BY <1>0, <2>3, <3>1, <3>2 DEF CreatedInv, GenerationNew
  <2>4. CASE slot' # NoSlot
    <3>1. /\ slot' = NewSlot(now, b, ttl, exp) /\ last_created' = MaxOf(last_created, created)
          /\ minted' = minted \cup {TokenOf(slot', history')}
      BY <1>3, <2>2, <2>4 DEF Create, Observe
    <3> HIDE DEF created
    <3>2. slot'.created = created /\ last_created' = created
      BY <1>0, <2>1, <3>1 DEF MaxOf
    <3>3. TokenOf(slot', history').created = created
      BY <3>2 DEF TokenOf
    <3>4. \A t \in minted' : t.created <= last_created'
      BY <1>0, <2>1, <3>1, <3>2, <3>3
    <3>5. created \notin Assigned
      BY <1>0, <2>1 DEF Assigned
    <3>. QED
      BY <3>2, <3>4, <3>5 DEF CreatedInv, GenerationNew
  <2>. QED
    BY <2>3, <2>4
<1>4. ASSUME NEW now \in Clock, NEW tok \in minted \cup {NoToken}, Delete(now, tok)
      PROVE  CreatedInv' /\ GenerationNew
  BY <1>4, <1>r DEF Delete
<1>5. ASSUME NEW now \in Clock, Touch(now) PROVE CreatedInv' /\ GenerationNew
  BY <1>5, <1>s, TouchSlot, SentinelAssumption DEF Touch, ghosts
<1>6. ASSUME NEW now \in Clock, Tidy(now) PROVE CreatedInv' /\ GenerationNew
  BY <1>6, <1>s, TidySlot, SentinelAssumption DEF Tidy, ghosts
<1>7. ASSUME NEW now \in Clock, Genesis(now) PROVE CreatedInv' /\ GenerationNew
  <2>1. /\ slot' = slot /\ last_created' = MaxOf(last_created, now) /\ drawn' = drawn + 1 /\ Observe
    BY <1>7 DEF Genesis, NewHistory, CounterRaised
  <2>2. last_created' \in Nat /\ last_created <= last_created'
    BY <1>0, <2>1, ConstantsAssumption DEF MaxOf
  <2>3. slot # NoSlot => slot.created \in Nat /\ slot.created <= last_created
    BY DEF TypeOK, Slot, TokenInv
  <2>4. \A t \in minted' : t \in minted \/ (slot # NoSlot /\ t.created = slot.created)
    BY <2>1 DEF Observe, TokenOf
  <2>5. CreatedInv'
    BY <1>0, <2>2, <2>3, <2>4 DEF CreatedInv
  <2>. QED
    BY <1>0, <2>1, <2>5 DEF GenerationNew
<1>8. ASSUME NEW now \in Clock, AcceptLoss(now) PROVE CreatedInv' /\ GenerationNew
  <2>1. /\ slot' = kept.slot /\ last_created' = MaxOf(kept.last_created, now)
        /\ drawn' = drawn + 1 /\ Observe /\ \A c \in Assigned : c <= now
    BY <1>8 DEF AcceptLoss, NewHistory, CounterRaised
  <2>2. last_created' \in Nat /\ kept.last_created <= last_created' /\ now <= last_created'
        /\ now \in Nat
    BY <1>0, <2>1, ConstantsAssumption DEF MaxOf
  <2>3. kept.slot # NoSlot => kept.slot.created \in Nat /\ kept.slot.created <= kept.last_created
    BY DEF TypeOK, Slot, TokenInv
  <2>4. \A t \in minted' : t \in minted \/ (kept.slot # NoSlot /\ t.created = kept.slot.created)
    BY <2>1 DEF Observe, TokenOf
  <2>5. \A t \in minted : t.created <= now
    BY <2>1 DEF Assigned
  <2>6. CreatedInv'
    BY <1>0, <2>2, <2>3, <2>4, <2>5 DEF CreatedInv
  <2>. QED
    BY <1>0, <2>1, <2>6 DEF GenerationNew
<1>9. CASE CatchUp
  <2>1. slot' = slot /\ minted' = minted /\ last_created' = last_created
    BY <1>9 DEF CatchUp, state, ghosts
  <2>. QED
    BY <1>0, <2>1 DEF CreatedInv, GenerationNew
<1>10. CASE UNCHANGED vars
  <2>1. slot' = slot /\ minted' = minted /\ last_created' = last_created
    BY <1>10 DEF vars, state, ghosts
  <2>. QED
    BY <1>0, <2>1 DEF CreatedInv, GenerationNew
<1>. QED
  BY <1>1, <1>2, <1>3, <1>4, <1>5, <1>6, <1>7, <1>8, <1>9, <1>10, NextCases

(* Where recoveries wait until the clock passed every create, a create     *)
(* takes a created_at, and with it a cold generation, that no incarnation  *)
(* ever had, the ones a loss took included (new_history,                   *)
(* next_created_at_ms).                                                    *)
THEOREM GenerationsFresh == ASSUME ClocksKeepUp PROVE Spec => GenerationFresh
<1>1. Init => TypeOK /\ TokenInv /\ CreatedInv
  BY TypeInit DEF Init, TokenInv, CreatedInv
<1>2. TypeOK /\ TokenInv /\ CreatedInv /\ [Next]_vars
        => (TypeOK /\ TokenInv /\ CreatedInv)' /\ GenerationNew
  BY TypeStep, TokenStep, CreatedStep
<1>3. GenerationFresh <=> [][GenerationNew]_vars
  BY DEF GenerationFresh, GenerationNew
<1>. QED
  BY <1>1, <1>2, <1>3, PTL DEF Spec

---------------------------------------------------------------------------
(* Inherited prefixes. *)

ServedAs(S, created, h, e) == <<[created |-> created, history |-> h], e>> \in S
In(s, e) == \E i \in DOMAIN s.log : s.log[i] = e

(* What was served under a stream's token of the history it was last       *)
(* written in is what it holds, but for bytes beyond its tail that a loss  *)
(* took; and below the inherited offset the stream holds what the history  *)
(* it inherited from served.                                               *)
Continues(S, s) ==
    /\ \A e \in Entry : ServedAs(S, s.created, s.history, e) => In(s, e) \/ e.start >= s.tail
    /\ \A e \in Entry : In(s, e) => ServedAs(S, s.created, s.history, e)
    /\ s.inherited # NotInherited =>
        /\ s.inherited.history < s.history
        /\ s.inherited.offset <= s.tail
        /\ \A e \in Entry :
            e.start < s.inherited.offset =>
                (ServedAs(S, s.created, s.inherited.history, e) <=> In(s, e))

Current(S, s, h) ==
    /\ s.history <= h
    /\ Continues(S, s)
    /\ \A e \in Entry : ServedAs(S, s.created, h, e) <=> In(s, e)

HistoryInv ==
    /\ kept.history <= history
    /\ kept.last_created <= last_created
    /\ \A x \in served : x[1] \in minted
    /\ slot # NoSlot => Current(served, slot, history)
    /\ kept.slot # NoSlot =>
        kept.slot.history <= kept.history /\ Continues(served, kept.slot)
    /\ kept.slot # NoSlot /\ slot # NoSlot /\ kept.slot.created = slot.created =>
        kept.slot.tail <= slot.tail

(* T is S and what the stream s serves under the history h. *)
Grew(S, T, s, h) ==
    \A e \in Entry, c \in Nat, g \in Nat :
        ServedAs(T, c, g, e) <=> ServedAs(S, c, g, e) \/ (c = s.created /\ g = h /\ In(s, e))

LEMMA ObserveGrew ==
    ASSUME Observe, slot' # NoSlot
    PROVE  /\ Grew(served, served', slot', history')
           /\ \A x \in served' : x \in served \/ x[1] = TokenOf(slot', history')
           /\ TokenOf(slot', history') \in minted' /\ minted \subseteq minted'
<1>1. served' = served \cup {<<TokenOf(slot', history'), slot'.log[i]>> : i \in DOMAIN slot'.log}
  BY DEF Observe, Rendered
<1>2. TokenOf(slot', history') = [created |-> slot'.created, history |-> history']
  BY DEF TokenOf
<1>3. ASSUME NEW e \in Entry, NEW c \in Nat, NEW g \in Nat
      PROVE  ServedAs(served', c, g, e)
                <=> ServedAs(served, c, g, e) \/ (c = slot'.created /\ g = history' /\ In(slot', e))
  <2> DEFINE tok == [created |-> c, history |-> g]
  <2>1. tok = TokenOf(slot', history') <=> c = slot'.created /\ g = history'
    <3>1. tok.created = c /\ tok.history = g
      OBVIOUS
    <3>2. TokenOf(slot', history').created = slot'.created
          /\ TokenOf(slot', history').history = history'
      BY <1>2
    <3>. QED
      BY <1>2, <3>1, <3>2
  <2> HIDE DEF tok
  <2>2. <<tok, e>> \in served'
          <=> <<tok, e>> \in served \/ (tok = TokenOf(slot', history') /\ In(slot', e))
    BY <1>1 DEF In
  <2>. QED
    BY <2>1, <2>2 DEF ServedAs, tok
<1>4. \A x \in served' : x \in served \/ x[1] = TokenOf(slot', history')
  BY <1>1
<1>5. TokenOf(slot', history') \in minted' /\ minted \subseteq minted'
  BY DEF Observe
<1>. QED
  BY <1>3, <1>4, <1>5 DEF Grew

(* A token that was never minted served nothing. *)
LEMMA NeverServed ==
    ASSUME HistoryInv, NEW c \in Nat, NEW h \in Nat, [created |-> c, history |-> h] \notin minted
    PROVE  \A e \in Entry : ~ServedAs(served, c, h, e)
<1> DEFINE tok == [created |-> c, history |-> h]
<1>1. \A e : <<tok, e>>[1] = tok
  OBVIOUS
<1> HIDE DEF tok
<1>. QED
  BY <1>1 DEF HistoryInv, ServedAs, tok

(* What another token serves says nothing of s; the stream's own token     *)
(* serves more only beyond its tail.                                       *)
LEMMA ContinuesGrown ==
    ASSUME NEW S, NEW T, NEW s \in Slot, NEW u, NEW h \in Nat,
           Continues(S, s), Grew(S, T, u, h), s.history <= h,
           s.created = u.created /\ s.history = h =>
               \A e \in Entry : In(u, e) => ServedAs(S, s.created, h, e) \/ e.start >= s.tail
    PROVE  Continues(T, s)
<1>1. s.created \in Nat /\ s.history \in Nat /\ s.inherited.history \in Nat
  BY DEF Slot, Inherited
<1>2. \A e \in Entry : ServedAs(T, s.created, s.history, e) => In(s, e) \/ e.start >= s.tail
  <2> SUFFICES ASSUME NEW e \in Entry, ServedAs(T, s.created, s.history, e)
               PROVE  In(s, e) \/ e.start >= s.tail
    OBVIOUS
  <2>1. \/ ServedAs(S, s.created, s.history, e)
        \/ s.created = u.created /\ s.history = h /\ In(u, e)
    BY <1>1 DEF Grew
  <2>2. ServedAs(S, s.created, s.history, e) \/ e.start >= s.tail
    BY <2>1
  <2>. QED
    BY <2>2 DEF Continues
<1>3. \A e \in Entry : In(s, e) => ServedAs(T, s.created, s.history, e)
  BY <1>1 DEF Grew, Continues
<1>4. ASSUME s.inherited # NotInherited
      PROVE  /\ s.inherited.history < s.history
             /\ s.inherited.offset <= s.tail
             /\ \A e \in Entry :
                    e.start < s.inherited.offset =>
                        (ServedAs(T, s.created, s.inherited.history, e) <=> In(s, e))
  <2>1. /\ s.inherited.history < s.history
        /\ s.inherited.offset <= s.tail
        /\ \A e \in Entry :
            e.start < s.inherited.offset =>
                (ServedAs(S, s.created, s.inherited.history, e) <=> In(s, e))
    BY <1>4 DEF Continues
  <2>2. s.inherited.history # h
    BY <1>1, <2>1
  <2>3. \A e \in Entry : ServedAs(T, s.created, s.inherited.history, e)
                            <=> ServedAs(S, s.created, s.inherited.history, e)
    BY <1>1, <2>2 DEF Grew
  <2>. QED
    BY <2>1, <2>3
<1>. QED
  BY <1>2, <1>3, <1>4 DEF Continues

(* Two streams with the same content and the same past. *)
SameContent(s, t) ==
    /\ t.created = s.created /\ t.log = s.log /\ t.tail = s.tail
    /\ t.history = s.history /\ t.inherited = s.inherited

(* t is s and one more write of the history h. *)
Extends(s, t, h) ==
    /\ t.created = s.created /\ t.history = h /\ t.tail >= s.tail
    /\ t.inherited = IF s.history = h THEN s.inherited
                     ELSE [history |-> s.history, offset |-> s.tail]
    /\ \E e \in Entry : /\ e.start = s.tail
                        /\ \A x \in Entry : In(t, x) <=> In(s, x) \/ x = e

LEMMA WriteContent ==
    ASSUME TypeOK, NEW now \in Clock, NEW tok, NEW w \in Requests, NEW b \in Bodies,
           WriteLive(now, tok, w, b)
    PROVE  SameContent(slot, slot') \/ Extends(slot, slot', history)
<1> DEFINE tokened == tok # NoToken
<1>1. /\ slot \in Slot
      /\ \E s, t, V, E : WriteShape(now, tokened, w, b, s, t, V, E)
  BY WriteLiveShape
<1>2. PICK s, t, V, E : WriteShape(now, tokened, w, b, s, t, V, E)
  BY <1>1
<1> DEFINE gate == Gate(s, w, tokened, now)
<1>3. s \in Slot /\ t \in Slot /\ V \in SUBSET Known(slot) /\ s \in Retirements(slot, V)
      /\ E \in SUBSET Known(t) /\ slot' \in Retirements(t, E)
  BY <1>2 DEF WriteShape
<1>4. SameContent(slot, s) /\ SameContent(t, slot')
  BY <1>1, <1>3, RetirementsEffect DEF SameContent
<1>5. tokened \in BOOLEAN /\ history \in Nat /\ writes \in Nat
  BY DEF TypeOK
<1> HIDE DEF tokened
<1>6. CASE ~Applies(s, b, gate)
  <2>1. t = s
    BY <1>2, <1>6 DEF WriteShape
  <2>. QED
    BY <1>4, <2>1 DEF SameContent
<1>7. CASE Applies(s, b, gate)
  <2> DEFINE e == EntryOf(s, w, b, tokened)
  <2>1. gate.kind \in {"Unkeyed", "Claim", "Next"} /\ t = Applied(s, w, b, gate, tokened, now)
    BY <1>2, <1>7 DEF WriteShape
  <2>2. /\ t.log = Append(s.log, e) /\ t.created = s.created /\ t.tail = s.tail + b.len
        /\ t.history = history /\ t.inherited = InheritedBy(s)
    BY <1>3, <1>5, <2>1, AppliedType
  <2>3. e \in Entry /\ e.start = s.tail
    BY <1>3, <1>5, EntryType DEF EntryOf
  <2>4. s.tail \in Nat /\ b.len \in Nat /\ s.log \in Seq(Entry)
    BY <1>3, ConstantsAssumption DEF Slot, Body
  <2> HIDE DEF e
  <2>5. /\ DOMAIN slot'.log = 1..(Len(slot.log) + 1) /\ DOMAIN slot.log = 1..Len(slot.log)
        /\ Len(slot.log) \in Nat
        /\ slot'.log[Len(slot.log) + 1] = e
        /\ \A i \in 1..Len(slot.log) : slot'.log[i] = slot.log[i]
    BY <1>4, <2>2, <2>3, <2>4 DEF SameContent
  <2>6. \A x \in Entry : In(slot', x) <=> In(slot, x) \/ x = e
    BY <2>5 DEF In
  <2>7. slot'.inherited = IF slot.history = history THEN slot.inherited
                          ELSE [history |-> slot.history, offset |-> slot.tail]
    BY <1>4, <2>2 DEF SameContent, InheritedBy
  <2>8. slot'.created = slot.created /\ slot'.history = history /\ slot'.tail >= slot.tail
        /\ e.start = slot.tail
    BY <1>4, <2>2, <2>3, <2>4 DEF SameContent
  <2>. QED
    BY <2>3, <2>6, <2>7, <2>8 DEF Extends
<1>. QED
  BY <1>6, <1>7

LEMMA CurrentSame ==
    ASSUME NEW S, NEW s, NEW t, NEW h, SameContent(s, t)
    PROVE  /\ Continues(S, s) => Continues(S, t)
           /\ Current(S, s, h) => Current(S, t, h)
<1>1. \A e : In(s, e) <=> In(t, e)
  BY DEF In, SameContent
<1>2. Continues(S, s) => Continues(S, t)
  BY <1>1 DEF SameContent, Continues
<1>. QED
  BY <1>1, <1>2 DEF SameContent, Current

(* A stream that is observed unchanged serves nothing new. *)
LEMMA GrewSame ==
    ASSUME NEW S, NEW T, NEW s \in Slot, NEW h \in Nat, Current(S, s, h), Grew(S, T, s, h)
    PROVE  Current(T, s, h)
<1>1. \A e \in Entry : In(s, e) => ServedAs(S, s.created, h, e)
  BY DEF Current
<1>2. Continues(T, s)
  BY <1>1, ContinuesGrown DEF Current
<1>3. \A e \in Entry : ServedAs(T, s.created, h, e) <=> In(s, e)
  BY DEF Current, Grew, Slot
<1>. QED
  BY <1>2, <1>3 DEF Current

LEMMA GrewExtended ==
    ASSUME NEW S, NEW T, NEW s \in Slot, NEW t \in Slot, NEW h \in Nat,
           Current(S, s, h), Extends(s, t, h), Grew(S, T, t, h)
    PROVE  Current(T, t, h)
<1>1. PICK n \in Entry : n.start = s.tail /\ \A x \in Entry : In(t, x) <=> In(s, x) \/ x = n
  BY DEF Extends
<1>2. /\ t.created = s.created /\ t.history = h /\ t.tail >= s.tail
      /\ t.inherited = IF s.history = h THEN s.inherited
                       ELSE [history |-> s.history, offset |-> s.tail]
  BY DEF Extends
<1>3. /\ s.created \in Nat /\ s.history \in Nat /\ s.tail \in Nat /\ t.tail \in Nat
      /\ t.history \in Nat /\ t.inherited.history \in Nat /\ t.inherited.offset \in Nat
      /\ \A e \in Entry : e.start \in Nat
  BY DEF Slot, Inherited, Entry
<1>4. \A e \in Entry : ServedAs(T, t.created, h, e) <=> In(t, e)
  BY <1>1, <1>2, <1>3 DEF Current, Grew
<1>5. ASSUME t.inherited # NotInherited
      PROVE  /\ t.inherited.history < h
             /\ t.inherited.offset <= s.tail
             /\ \A e \in Entry :
                    e.start < t.inherited.offset =>
                        (ServedAs(S, s.created, t.inherited.history, e) <=> In(s, e))
  <2>1. CASE s.history = h
    BY <1>2, <1>5, <2>1 DEF Current, Continues
  <2>2. CASE s.history # h
    <3>1. t.inherited.history = s.history /\ t.inherited.offset = s.tail
      BY <1>2, <2>2
    <3>2. s.history < h
      BY <1>3, <2>2 DEF Current
    <3>3. \A e \in Entry : e.start < s.tail =>
            (ServedAs(S, s.created, s.history, e) <=> In(s, e))
      BY <1>3 DEF Current, Continues
    <3>. QED
      BY <1>3, <3>1, <3>2, <3>3
  <2>. QED
    BY <2>1, <2>2
<1>6. ASSUME t.inherited # NotInherited
      PROVE  /\ t.inherited.history < t.history
             /\ t.inherited.offset <= t.tail
             /\ \A e \in Entry :
                    e.start < t.inherited.offset =>
                        (ServedAs(T, t.created, t.inherited.history, e) <=> In(t, e))
  <2>1. t.inherited.history < t.history /\ t.inherited.offset <= t.tail
    BY <1>2, <1>3, <1>5, <1>6
  <2> SUFFICES ASSUME NEW e \in Entry, e.start < t.inherited.offset
               PROVE  ServedAs(T, t.created, t.inherited.history, e) <=> In(t, e)
    BY <2>1
  <2>2. ServedAs(S, s.created, t.inherited.history, e) <=> In(s, e)
    BY <1>5, <1>6
  <2>3. ServedAs(T, t.created, t.inherited.history, e)
          <=> ServedAs(S, s.created, t.inherited.history, e)
    BY <1>2, <1>3, <2>1 DEF Grew
  <2>4. e # n
    BY <1>1, <1>3, <1>5, <1>6
  <2>. QED
    BY <1>1, <2>2, <2>3, <2>4
<1>7. Continues(T, t)
  BY <1>2, <1>4, <1>6 DEF Continues
<1>. QED
  BY <1>2, <1>3, <1>4, <1>7 DEF Current

LEMMA HistoryWrite ==
    ASSUME TypeOK, TokenInv, HistoryInv, NEW now \in Clock, NEW tok, NEW w \in Requests,
           NEW b \in Bodies, WriteLive(now, tok, w, b)
    PROVE  HistoryInv'
<1>1. /\ slot \in Slot /\ slot # NoSlot /\ slot' \in Slot /\ slot' # NoSlot
      /\ history' = history /\ kept' = kept /\ history \in Nat
  BY WriteLiveShape DEF TypeOK
<1>2. last_created' = last_created /\ Observe
  BY DEF WriteLive
<1>3. /\ Grew(served, served', slot', history)
      /\ \A x \in served' : x \in served \/ x[1] = TokenOf(slot', history')
      /\ TokenOf(slot', history') \in minted' /\ minted \subseteq minted'
  BY <1>1, <1>2, ObserveGrew
<1>4. SameContent(slot, slot') \/ Extends(slot, slot', history)
  BY WriteContent
<1>5. Current(served, slot, history)
  BY <1>1 DEF HistoryInv
<1>6. Current(served', slot', history)
  <2>1. CASE SameContent(slot, slot')
    BY <1>1, <1>3, <1>5, <2>1, CurrentSame, GrewSame
  <2>2. CASE Extends(slot, slot', history)
    BY <1>1, <1>3, <1>5, <2>2, GrewExtended
  <2>. QED
    BY <1>4, <2>1, <2>2
<1>7. slot'.created = slot.created /\ slot.tail <= slot'.tail
      /\ slot.tail \in Nat /\ slot'.tail \in Nat /\ slot.created \in Nat
  BY <1>1, <1>4 DEF SameContent, Extends, Slot
<1>8. ASSUME kept.slot # NoSlot
      PROVE  Continues(served', kept.slot)
  <2>1. /\ kept.slot \in Slot /\ kept.slot.history <= history /\ Continues(served, kept.slot)
        /\ kept.slot.tail \in Nat
    BY <1>8 DEF TypeOK, HistoryInv, Slot
  <2>2. ASSUME kept.slot.created = slot'.created, NEW e \in Entry, In(slot', e)
        PROVE  ServedAs(served, kept.slot.created, history, e) \/ e.start >= kept.slot.tail
    <3>1. kept.slot.tail <= slot.tail
      BY <1>1, <1>7, <1>8, <2>2 DEF HistoryInv
    <3>2. In(slot, e) \/ e.start = slot.tail
      BY <1>4, <2>2 DEF SameContent, Extends, In
    <3>3. In(slot, e) => ServedAs(served, slot.created, history, e)
      BY <1>5 DEF Current
    <3>. QED
      BY <1>7, <2>1, <2>2, <3>1, <3>2, <3>3
  <2>. QED
    BY <1>1, <1>3, <2>1, <2>2, ContinuesGrown
<1>9. \A x \in served' : x[1] \in minted'
  BY <1>3 DEF HistoryInv
<1>10. ASSUME kept.slot # NoSlot, kept.slot.created = slot'.created
       PROVE  kept.slot.tail <= slot'.tail
  <2>1. kept.slot.tail \in Nat /\ kept.slot.tail <= slot.tail
    BY <1>1, <1>7, <1>10 DEF TypeOK, Slot, HistoryInv
  <2>. QED
    BY <1>7, <2>1
<1>11. /\ kept'.history <= history' /\ kept'.last_created <= last_created'
       /\ kept'.slot # NoSlot => kept'.slot.history <= kept'.history
  BY <1>1, <1>2 DEF HistoryInv
<1>. QED
  BY <1>1, <1>6, <1>8, <1>9, <1>10, <1>11 DEF HistoryInv

(* A step that touches neither what the streams hold nor what was served. *)
LEMMA HistoryQuiet ==
    ASSUME TypeOK, HistoryInv, slot' \in Slot, slot # NoSlot, SameContent(slot, slot'),
           UNCHANGED <<history, last_created, kept, minted, served>>
    PROVE  HistoryInv'
<1>1. slot \in Slot /\ slot' # NoSlot
  BY SentinelAssumption DEF TypeOK
<1>2. Current(served, slot', history)
  BY CurrentSame DEF HistoryInv
<1>. QED
  BY <1>1, <1>2 DEF HistoryInv, SameContent

LEMMA HistoryRemove ==
    ASSUME HistoryInv, Remove
    PROVE  HistoryInv'
BY DEF HistoryInv, Remove

LEMMA HistoryCreate ==
    ASSUME TypeOK, TokenInv, HistoryInv, NEW now \in Clock, NEW b \in Bodies, NEW ttl \in Ttls,
           NEW exp \in Expiries, Create(now, b, ttl, exp)
    PROVE  HistoryInv'
<1> DEFINE created == NextCreated(now)
<1>1. UNCHANGED <<history, kept, drawn>> /\ Observe
  BY DEF Create
<1>2. /\ created \in Nat /\ created > last_created
      /\ NewSlot(now, b, ttl, exp) \in Slot /\ NewSlot(now, b, ttl, exp).created = created
      /\ NewSlot(now, b, ttl, exp).history = history
      /\ NewSlot(now, b, ttl, exp).inherited = NotInherited
  BY NewSlotFacts
<1>3. last_created \in Nat /\ history \in Nat /\ kept.last_created \in Nat
  BY DEF TypeOK
<1> HIDE DEF created
<1>4. last_created' \in Nat /\ kept.last_created <= last_created'
  <2>1. last_created' = last_created \/ last_created' = MaxOf(last_created, created)
    BY DEF Create, created
  <2>. QED
    BY <1>2, <1>3, <2>1 DEF MaxOf, HistoryInv
<1>5. CASE slot' = NoSlot
  <2>1. minted' = minted /\ served' = served
    BY <1>1, <1>5 DEF Observe, Rendered
  <2>. QED
    BY <1>1, <1>4, <1>5, <2>1 DEF HistoryInv
<1>6. CASE slot' # NoSlot
  <2>1. slot' = NewSlot(now, b, ttl, exp)
    BY <1>6 DEF Create
  <2>2. /\ slot' \in Slot /\ slot'.created = created /\ slot'.history = history
        /\ slot'.inherited = NotInherited
    BY <1>2, <2>1
  <2>3. /\ Grew(served, served', slot', history)
        /\ \A x \in served' : x \in served \/ x[1] = TokenOf(slot', history')
        /\ TokenOf(slot', history') \in minted' /\ minted \subseteq minted'
    BY <1>1, <1>6, ObserveGrew
  <2>4. [created |-> created, history |-> history] \notin minted
    <3>1. \A t \in minted : t.created \in Nat /\ (t.history = history => t.created <= last_created)
      BY DEF TypeOK, Token, TokenInv
    <3>. QED
      BY <1>2, <1>3, <3>1
  <2>5. \A e \in Entry : ~ServedAs(served, created, history, e)
    BY <1>2, <1>3, <2>4, NeverServed
  <2>6. \A e \in Entry : ServedAs(served', created, history, e) <=> In(slot', e)
    BY <1>2, <1>3, <2>2, <2>3, <2>5 DEF Grew
  <2>7. Current(served', slot', history)
    BY <1>3, <2>2, <2>6 DEF Current, Continues
  <2>8. kept.slot # NoSlot => kept.slot.created # created
    <3>1. kept.slot # NoSlot => kept.slot.created \in Nat /\ kept.slot.created <= kept.last_created
      BY DEF TypeOK, Slot, TokenInv
    <3>. QED
      BY <1>2, <1>3, <3>1 DEF HistoryInv
  <2>9. ASSUME kept.slot # NoSlot PROVE Continues(served', kept.slot)
    <3>1. /\ kept.slot \in Slot /\ kept.slot.history \in Nat /\ kept.history \in Nat
          /\ kept.slot.history <= kept.history /\ kept.history <= history
          /\ Continues(served, kept.slot)
      BY <2>9 DEF TypeOK, HistoryInv, Slot
    <3>2. kept.slot.history <= history
      BY <1>3, <3>1
    <3>. QED
      BY <1>3, <2>2, <2>3, <2>8, <2>9, <3>1, <3>2, ContinuesGrown
  <2>10. \A x \in served' : x[1] \in minted'
    BY <2>3 DEF HistoryInv
  <2>11. /\ kept'.history <= history'
         /\ kept'.slot # NoSlot => kept'.slot.history <= kept'.history
    BY <1>1 DEF HistoryInv
  <2>. QED
    BY <1>1, <1>4, <1>6, <2>2, <2>7, <2>8, <2>9, <2>10, <2>11 DEF HistoryInv
<1>. QED
  BY <1>5, <1>6

LEMMA HistoryDrawn ==
    ASSUME TypeOK, TokenInv, HistoryInv, NEW now \in Clock, Genesis(now) \/ AcceptLoss(now)
    PROVE  HistoryInv'
<1>1. /\ kept' = kept /\ history' = drawn + 1 /\ Observe
      /\ \/ slot' = slot /\ last_created' = MaxOf(last_created, now)
         \/ slot' = kept.slot /\ last_created' = MaxOf(kept.last_created, now)
  BY DEF Genesis, AcceptLoss, NewHistory, CounterRaised
<1>2. /\ history \in Nat /\ drawn \in Nat /\ history <= drawn /\ kept.history \in Nat
      /\ kept.history <= history /\ kept.last_created \in Nat /\ last_created \in Nat
      /\ kept.last_created <= last_created /\ now \in Nat
  BY ConstantsAssumption DEF TypeOK, TokenInv, HistoryInv
<1>3. kept.last_created <= last_created'
  BY <1>1, <1>2 DEF MaxOf
<1>4. \A c \in Nat, e \in Entry : ~ServedAs(served, c, drawn + 1, e)
  <2> SUFFICES ASSUME NEW c \in Nat PROVE \A e \in Entry : ~ServedAs(served, c, drawn + 1, e)
    OBVIOUS
  <2>1. [created |-> c, history |-> drawn + 1] \notin minted
    <3>1. \A t \in minted : t.history \in Nat /\ t.history <= drawn
      BY DEF TypeOK, Token, TokenInv
    <3>. QED
      BY <1>2, <3>1
  <2>. QED
    BY <1>2, <2>1, NeverServed
<1>5. /\ slot # NoSlot => slot \in Slot /\ slot.history \in Nat /\ slot.history <= history
                          /\ Continues(served, slot)
      /\ kept.slot # NoSlot => /\ kept.slot \in Slot /\ kept.slot.history \in Nat
                               /\ kept.slot.history <= kept.history /\ Continues(served, kept.slot)
  BY DEF TypeOK, HistoryInv, Slot, Current
<1>6. CASE slot' = NoSlot
  <2>1. minted' = minted /\ served' = served
    BY <1>1, <1>6 DEF Observe, Rendered
  <2>2. kept.history <= history'
    BY <1>1, <1>2
  <2>. QED
    BY <1>1, <1>3, <1>6, <2>1, <2>2 DEF HistoryInv
<1>7. CASE slot' # NoSlot
  <2>1. /\ Grew(served, served', slot', history')
        /\ \A x \in served' : x \in served \/ x[1] = TokenOf(slot', history')
        /\ TokenOf(slot', history') \in minted' /\ minted \subseteq minted'
    BY <1>1, <1>7, ObserveGrew
  <2>2. /\ slot' \in Slot /\ slot'.created \in Nat /\ slot'.history \in Nat
        /\ slot'.history <= history /\ Continues(served, slot')
    <3>1. slot' = slot \/ slot' = kept.slot
      BY <1>1
    <3>2. \A t \in Slot : t.created \in Nat
      BY DEF Slot
    <3>3. CASE slot' = slot
      BY <1>5, <1>7, <3>2, <3>3
    <3>4. CASE slot' = kept.slot
      BY <1>2, <1>5, <1>7, <3>2, <3>4
    <3>. QED
      BY <3>1, <3>3, <3>4
  <2>3. history' \in Nat /\ history < history' /\ slot'.history <= history'
        /\ slot'.history # history'
    BY <1>1, <1>2, <2>2
  <2>4. Continues(served', slot')
    BY <2>1, <2>2, <2>3, ContinuesGrown
  <2>5. \A e \in Entry : ServedAs(served', slot'.created, history', e) <=> In(slot', e)
    BY <1>1, <1>4, <2>1, <2>2, <2>3 DEF Grew
  <2>6. Current(served', slot', history')
    BY <2>3, <2>4, <2>5 DEF Current
  <2>7. ASSUME kept.slot # NoSlot PROVE Continues(served', kept.slot)
    <3>1. kept.slot.history <= history' /\ kept.slot.history # history'
      BY <1>2, <1>5, <2>3, <2>7
    <3>. QED
      BY <1>5, <2>1, <2>3, <2>7, <3>1, ContinuesGrown
  <2>8. \A x \in served' : x[1] \in minted'
    BY <2>1 DEF HistoryInv
  <2>9. kept.slot # NoSlot /\ kept.slot.created = slot'.created => kept.slot.tail <= slot'.tail
    <3>1. CASE slot' = slot
      BY <1>7, <3>1 DEF HistoryInv
    <3>2. CASE slot' = kept.slot
      BY <1>5, <1>7, <3>2 DEF Slot
    <3>. QED
      BY <1>1, <3>1, <3>2
  <2>10. /\ kept'.history <= history'
         /\ kept'.slot # NoSlot => kept'.slot.history <= kept'.history
    BY <1>1, <1>2, <1>5, <2>3
  <2>. QED
    BY <1>1, <1>3, <1>7, <2>6, <2>7, <2>8, <2>9, <2>10 DEF HistoryInv
<1>. QED
  BY <1>6, <1>7

LEMMA HistoryStep ==
    ASSUME TypeOK, TokenInv, HistoryInv, [Next]_vars
    PROVE  HistoryInv'
<1>1. ASSUME NEW now \in Clock, ExpireStream(now) PROVE HistoryInv'
  BY <1>1, HistoryRemove DEF ExpireStream
<1>2. ASSUME NEW now \in Clock, NEW tok \in minted \cup {NoToken}, NEW w \in Requests,
             NEW b \in Bodies, WriteLive(now, tok, w, b)
      PROVE  HistoryInv'
  BY <1>2, HistoryWrite
<1>3. ASSUME NEW now \in Clock, NEW b \in Bodies, NEW ttl \in Ttls, NEW exp \in Expiries,
             Create(now, b, ttl, exp)
      PROVE  HistoryInv'
  BY <1>3, HistoryCreate
<1>4. ASSUME NEW now \in Clock, NEW tok \in minted \cup {NoToken}, Delete(now, tok)
      PROVE  HistoryInv'
  BY <1>4, HistoryRemove DEF Delete
<1>5. ASSUME NEW now \in Clock, Touch(now) PROVE HistoryInv'
  <2>1. slot # NoSlot /\ UNCHANGED <<history, last_created, kept, minted, served>>
    BY <1>5 DEF Touch, ghosts
  <2>2. slot' \in Slot /\ SameContent(slot, slot')
    BY <1>5, TouchSlot DEF SameContent
  <2>. QED
    BY <2>1, <2>2, HistoryQuiet
<1>6. ASSUME NEW now \in Clock, Tidy(now) PROVE HistoryInv'
  <2>1. slot # NoSlot /\ UNCHANGED <<history, last_created, kept, minted, served>>
    BY <1>6 DEF Tidy, ghosts
  <2>2. /\ slot \in Slot /\ slot' \in Slot
        /\ \E s \in Slot : \E V, E : /\ V \in SUBSET Known(slot) /\ s \in Retirements(slot, V)
                                     /\ E \in SUBSET Known(s) /\ slot' \in Retirements(s, E)
    BY <1>6, TidyShape
  <2>3. SameContent(slot, slot')
    BY <2>2, RetirementsEffect DEF SameContent
  <2>. QED
    BY <2>1, <2>2, <2>3, HistoryQuiet
<1>7. ASSUME NEW now \in Clock, Genesis(now) \/ AcceptLoss(now) PROVE HistoryInv'
  BY <1>7, HistoryDrawn
<1>8. CASE CatchUp
  <2>1. /\ slot' = slot /\ history' = history /\ last_created' = last_created
        /\ minted' = minted /\ served' = served
        /\ kept'.slot = slot /\ kept'.history = history /\ kept'.last_created = last_created
    BY <1>8 DEF CatchUp, state, ghosts
  <2>2. history \in Nat /\ last_created \in Nat /\ (slot # NoSlot => slot.tail \in Nat)
    BY DEF TypeOK, Slot
  <2>. QED
    BY <2>1, <2>2 DEF HistoryInv, Current
<1>9. CASE UNCHANGED vars
  BY <1>9 DEF HistoryInv, vars, state, ghosts
<1>. QED
  BY <1>1, <1>2, <1>3, <1>4, <1>5, <1>6, <1>7, <1>8, <1>9, NextCases

(* The bytes below the offset HEAD reports as inherited are exactly those  *)
(* served at these offsets under the token of the history it names, which  *)
(* is not the current one, through any number of losses, writes and        *)
(* recreations (inherit_history, stream_inherited).                        *)
THEOREM InheritedTruthAlways == Spec => []InheritedTruth
<1>1. Init => TypeOK /\ TokenInv /\ HistoryInv
  BY TypeInit DEF Init, TokenInv, HistoryInv
<1>2. TypeOK /\ TokenInv /\ HistoryInv /\ [Next]_vars => (TypeOK /\ TokenInv /\ HistoryInv)'
  BY TypeStep, TokenStep, HistoryStep
<1>3. TypeOK /\ HistoryInv => InheritedTruth
  <2> SUFFICES ASSUME TypeOK, HistoryInv, slot # NoSlot, InheritedReport(slot) # NotInherited
               PROVE  LET report == InheritedReport(slot)
                          previous == TokenOf(slot, report.history)
                      IN  /\ report.history # history
                          /\ report.offset <= slot.tail
                          /\ BytesBelow({x[2] : x \in {y \in served : y[1] = previous}},
                                        report.offset)
                               = BytesBelow({slot.log[i] : i \in DOMAIN slot.log}, report.offset)
    BY DEF InheritedTruth
  <2> DEFINE report == InheritedReport(slot)
             previous == TokenOf(slot, report.history)
             before == {x[2] : x \in {y \in served : y[1] = previous}}
             content == {slot.log[i] : i \in DOMAIN slot.log}
  <2>1. slot \in Slot /\ history \in Nat /\ served \subseteq Token \X Entry
    BY DEF TypeOK
  <2>2. /\ slot.history \in Nat /\ slot.history <= history /\ Continues(served, slot)
        /\ slot.tail \in Nat /\ slot.inherited.history \in Nat /\ slot.inherited.offset \in Nat
    BY <2>1 DEF HistoryInv, Current, Slot, Inherited
  <2>3. /\ report.history < history /\ report.offset <= slot.tail
        /\ \A e \in Entry : e.start < report.offset =>
                (ServedAs(served, slot.created, report.history, e) <=> In(slot, e))
    <3>1. CASE slot.history # history
      <4>1. report.history = slot.history /\ report.offset = slot.tail
        BY <3>1 DEF InheritedReport
      <4>2. \A e \in Entry : e.start \in Nat
        BY DEF Entry
      <4>. QED
        BY <2>1, <2>2, <3>1, <4>1, <4>2 DEF Continues
    <3>2. CASE slot.history = history
      <4>1. report = slot.inherited
        BY <3>2 DEF InheritedReport
      <4>. QED
        BY <2>2, <3>2, <4>1 DEF Continues
    <3>. QED
      BY <3>1, <3>2
  <2>4. previous = [created |-> slot.created, history |-> report.history]
    BY DEF TokenOf
  <2> HIDE DEF report, previous
  <2>5. \A e : e \in before <=> e \in Entry /\ ServedAs(served, slot.created, report.history, e)
    <3>1. ASSUME NEW e \in before
          PROVE  e \in Entry /\ ServedAs(served, slot.created, report.history, e)
      <4>1. PICK x \in served : x[1] = previous /\ e = x[2]
        OBVIOUS
      <4>2. x \in Token \X Entry
        BY <2>1
      <4>3. x = <<x[1], x[2]>> /\ x[2] \in Entry
        BY <4>2
      <4>. QED
        BY <2>4, <4>1, <4>3 DEF ServedAs
    <3>2. ASSUME NEW e \in Entry, ServedAs(served, slot.created, report.history, e)
          PROVE  e \in before
      <4>1. <<previous, e>> \in served
        BY <2>4, <3>2 DEF ServedAs
      <4>2. <<previous, e>>[1] = previous /\ <<previous, e>>[2] = e
        OBVIOUS
      <4>. QED
        BY <4>1, <4>2
    <3>. QED
      BY <3>1, <3>2
  <2>6. \A e : e \in content <=> e \in Entry /\ In(slot, e)
    BY <2>1, LogEntry DEF In
  <2> HIDE DEF before, content
  <2>7. BytesBelow(before, report.offset) = BytesBelow(content, report.offset)
    BY <2>3, <2>5, <2>6 DEF BytesBelow
  <2>8. report.history # history
    BY <2>1, <2>3
  <2>. QED
    BY <2>3, <2>7, <2>8 DEF before, content, previous, report
<1>. QED
  BY <1>1, <1>2, <1>3, PTL DEF Spec

---------------------------------------------------------------------------
(* The producer cap. *)

(* Every set of naturals but the empty one has a smallest member. *)
Less == {pair \in Nat \X Nat : pair[1] < pair[2]}

LEMMA SmallestExists ==
    ASSUME NEW S \in SUBSET Nat, S # {}
    PROVE  \E m \in S : \A n \in S : m <= n
<1>1. IsWellFoundedOn(Less, Nat)
  BY NatLessThanWellFounded DEF OpToRel, Less
<1>2. PICK m \in S : \A n \in S : ~(<<n, m>> \in Less)
  BY <1>1, WFMin
<1>3. ASSUME NEW n \in S PROVE m <= n
  <2>1. n \in Nat /\ m \in Nat
    OBVIOUS
  <2>2. <<n, m>> \in Nat \X Nat /\ <<n, m>>[1] = n /\ <<n, m>>[2] = m
    BY <2>1
  <2>3. n < m => <<n, m>> \in Less
    BY <2>2 DEF Less
  <2>4. ~(n < m)
    BY <1>2, <2>3
  <2>. QED
    BY <2>1, <2>4
<1>. QED
  BY <1>3

(* Among some known producers one is the oldest. *)
LEMMA OldestExists ==
    ASSUME NEW s \in Slot, NEW C \in SUBSET Known(s), C # {}
    PROVE  \E p \in C : \A q \in C : ~Older(s, q, p)
<1> DEFINE seen(p) == s.producers[p].last_seen
           times == {seen(p) : p \in C}
<1>1. \A p \in C : p \in Nat /\ seen(p) \in Nat
  BY ConstantsAssumption DEF Known, HasRecord, Slot, Record
<1>2. \A p, q : Older(s, p, q) <=> seen(p) < seen(q) \/ (seen(p) = seen(q) /\ p < q)
  BY DEF Older
<1> HIDE DEF seen
<1>3. times \in SUBSET Nat /\ times # {}
  BY <1>1
<1>4. PICK m \in times : \A n \in times : m <= n
  <2> HIDE DEF times
  <2>. QED
    BY <1>3, SmallestExists
<1> DEFINE first == {p \in C : seen(p) = m}
<1>5. first \in SUBSET Nat /\ first # {}
  BY <1>1
<1>6. PICK p \in first : \A q \in first : p <= q
  <2> HIDE DEF first
  <2>. QED
    BY <1>5, SmallestExists
<1>7. ASSUME NEW q \in C PROVE ~Older(s, q, p)
  <2>1. /\ p \in C /\ seen(p) = m /\ m <= seen(q) /\ (seen(q) = m => p <= q)
        /\ p \in Nat /\ q \in Nat /\ seen(p) \in Nat /\ seen(q) \in Nat
    BY <1>1, <1>4, <1>6
  <2>. QED
    BY <1>2, <2>1
<1>. QED
  BY <1>7

---------------------------------------------------------------------------
CapIn(s) == IsFiniteSet(Known(s)) /\ Cardinality(Known(s)) <= MaxProducers

CapInv ==
    /\ slot # NoSlot => CapIn(slot)
    /\ kept.slot # NoSlot => CapIn(kept.slot)

LEMMA KnownRetired ==
    ASSUME NEW s \in Slot, NEW V \in SUBSET Known(s), NEW t \in Retirements(s, V)
    PROVE  Known(t) = Known(s) \ V
BY RetirementsEffect DEF Known, HasRecord

LEMMA CapRetired ==
    ASSUME NEW s \in Slot, NEW V \in SUBSET Known(s), NEW t \in Retirements(s, V), CapIn(s)
    PROVE  CapIn(t)
<1>1. Known(t) \in SUBSET Known(s)
  BY KnownRetired
<1>2. IsFiniteSet(Known(s)) /\ Cardinality(Known(s)) <= MaxProducers
  BY DEF CapIn
<1>3. /\ IsFiniteSet(Known(t)) /\ Cardinality(Known(t)) <= Cardinality(Known(s))
      /\ Cardinality(Known(t)) \in Nat /\ Cardinality(Known(s)) \in Nat
  BY <1>1, <1>2, FS_Subset, FS_CardinalityType
<1>. QED
  BY <1>2, <1>3, ConstantsAssumption DEF CapIn

(* One producer over the cap, with an evictable one among them. *)
LEMMA CapEvicted ==
    ASSUME NEW t \in Slot, NEW now \in Clock, NEW u \in Retirements(t, EvictedOverCap(t, now)),
           IsFiniteSet(Known(t)), Cardinality(Known(t)) = MaxProducers + 1,
           NEW q \in Known(t), CapEvictable(t.producers[q], now)
    PROVE  CapIn(u)
<1> DEFINE C == {p \in Known(t) : CapEvictable(t.producers[p], now)}
           E == EvictedOverCap(t, now)
<1>1. OverCap(t) = 1
  BY ConstantsAssumption DEF OverCap
<1>2. E = {p \in C : Cardinality({x \in C : Older(t, x, p)}) < 1}
  BY <1>1 DEF EvictedOverCap
<1>3. PICK p \in C : \A x \in C : ~Older(t, x, p)
  <2>1. C \in SUBSET Known(t) /\ C # {}
    OBVIOUS
  <2> HIDE DEF C
  <2>. QED
    BY <2>1, OldestExists
<1>4. p \in E
  <2>1. {x \in C : Older(t, x, p)} = {}
    BY <1>3
  <2>2. Cardinality({x \in C : Older(t, x, p)}) = 0
    BY <2>1, FS_EmptySet
  <2>. QED
    BY <1>2, <2>2
<1>5. Known(u) = Known(t) \ E
  BY KnownRetired, RetireSets
<1>6. Known(u) \in SUBSET (Known(t) \ {p}) /\ p \in Known(t)
  BY <1>4, <1>5
<1>7. IsFiniteSet(Known(t) \ {p}) /\ Cardinality(Known(t) \ {p}) = MaxProducers
  <2> DEFINE K == Known(t)
  <2>1. IsFiniteSet(K) /\ Cardinality(K) = MaxProducers + 1 /\ p \in K /\ MaxProducers \in Nat
    BY <1>6, ConstantsAssumption
  <2> HIDE DEF K
  <2>2. IsFiniteSet(K \ {p}) /\ Cardinality(K \ {p}) = Cardinality(K) - 1
    BY <2>1, FS_RemoveElement
  <2>. QED
    BY <2>1, <2>2 DEF K
<1>. QED
  BY <1>6, <1>7, FS_Subset DEF CapIn

(* A write that applies leaves the cap held. *)
LEMMA CapApplied ==
    ASSUME NEW s \in Slot, NEW w \in Requests, NEW b \in Bodies, NEW tokened \in BOOLEAN,
           NEW now \in Clock, history \in Nat, writes \in Nat, CapIn(s),
           Gate(s, w, tokened, now).kind \in {"Unkeyed", "Claim", "Next"},
           NEW u \in Retirements(Applied(s, w, b, Gate(s, w, tokened, now), tokened, now),
                                 EvictedOverCap(Applied(s, w, b, Gate(s, w, tokened, now),
                                                        tokened, now), now)),
           w.producer \in Producer
    PROVE  CapIn(u)
<1> DEFINE gate == Gate(s, w, tokened, now)
           t == Applied(s, w, b, gate, tokened, now)
           R == RecordAfter(s, w, b, gate, now)
           p == w.producer
<1>1. /\ t \in Slot
      /\ \A q \in Producer : t.producers[q] = IF q = p THEN R ELSE s.producers[q]
  BY AppliedType
<1>2. R \in Record /\ R # NoRecord
  BY RecordAfterType, NoRecordAssumption
<1>3. u \in Retirements(t, EvictedOverCap(t, now))
  OBVIOUS
<1>g. /\ gate = Evaluate(s.producers[p], s.floor, history, KeyOf(w), tokened)
      /\ p # NoProducer
  BY GateIsEvaluate, ConstantsAssumption
<1> HIDE DEF t, R
<1>4. Known(t) = Known(s) \cup {p}
  BY <1>1, <1>2 DEF Known, HasRecord
<1>5. IsFiniteSet(Known(s)) /\ Cardinality(Known(s)) <= MaxProducers
      /\ Cardinality(Known(s)) \in Nat /\ MaxProducers \in Nat
  BY FS_CardinalityType, ConstantsAssumption DEF CapIn
<1>6. /\ IsFiniteSet(Known(t))
      /\ Cardinality(Known(t))
           = IF p \in Known(s) THEN Cardinality(Known(s)) ELSE Cardinality(Known(s)) + 1
  <2> DEFINE K == Known(s)
  <2>1. IsFiniteSet(K)
    BY <1>5
  <2> HIDE DEF K
  <2>2. /\ IsFiniteSet(K \cup {p})
        /\ Cardinality(K \cup {p}) = IF p \in K THEN Cardinality(K) ELSE Cardinality(K) + 1
    BY <2>1, FS_AddElement
  <2>. QED
    BY <1>4, <2>2 DEF K
<1>7. CASE Cardinality(Known(t)) <= MaxProducers
  BY <1>1, <1>3, <1>6, <1>7, RetireSets, CapRetired DEF CapIn
<1>8. CASE ~(Cardinality(Known(t)) <= MaxProducers)
  <2>1. p \notin Known(s) /\ Cardinality(Known(s)) = MaxProducers
        /\ Cardinality(Known(t)) = MaxProducers + 1
    BY <1>5, <1>6, <1>8
  <2>2. s.producers[p] = NoRecord
    BY <2>1 DEF Known, HasRecord
  <2>3. gate.kind = "Claim" /\ gate.closed = NotClosed
    <3>1. gate = EvaluateNew(s.floor, KeyOf(w), tokened)
      BY <1>g, <2>2 DEF Evaluate
    <3>. QED
      BY <3>1 DEF EvaluateNew, Answer, Claim
  <2>4. CapAdmits(s, p, now)
    <3>1. Answer("ProducerLimit", Absent, NotClosed).kind = "ProducerLimit"
      BY DEF Answer
    <3>. QED
      BY <1>g, <2>3, <3>1 DEF Gate
  <2> DEFINE staying == {q \in Known(s) : ~CapEvictable(s.producers[q], now)}
  <2>5. Cardinality(staying) < MaxProducers
    BY <1>5, <2>1, <2>2, <2>4 DEF CapAdmits, HasRecord
  <2>6. staying # Known(s)
    <3> HIDE DEF staying
    <3>. QED
      BY <1>5, <2>1, <2>5
  <2>7. PICK q \in Known(s) : CapEvictable(s.producers[q], now)
    BY <2>6
  <2>8. q \in Known(t) /\ CapEvictable(t.producers[q], now)
    BY <1>1, <1>4, <2>1, <2>7 DEF Known
  <2>. QED
    BY <1>1, <1>3, <1>6, <2>1, <2>8, CapEvicted
<1>. QED
  BY <1>7, <1>8

LEMMA CapUnkeyed ==
    ASSUME NEW s \in Slot, NEW w \in Requests, NEW b \in Bodies, NEW tokened \in BOOLEAN,
           NEW now \in Clock, history \in Nat, writes \in Nat, CapIn(s),
           Gate(s, w, tokened, now).kind \in {"Unkeyed", "Claim", "Next"},
           w.producer \notin Producer
    PROVE  CapIn(Applied(s, w, b, Gate(s, w, tokened, now), tokened, now))
<1> DEFINE t == Applied(s, w, b, Gate(s, w, tokened, now), tokened, now)
<1>1. \A q \in Producer : t.producers[q] = s.producers[q]
  BY AppliedType
<1> HIDE DEF t
<1>2. Known(t) = Known(s)
  BY <1>1 DEF Known, HasRecord
<1>. QED
  BY <1>2 DEF CapIn, t

LEMMA CapWrite ==
    ASSUME TypeOK, CapInv, NEW now \in Clock, NEW tok, NEW w \in Requests,
           NEW b \in Bodies, WriteLive(now, tok, w, b)
    PROVE  CapIn(slot')
<1> DEFINE tokened == tok # NoToken
<1>1. /\ slot \in Slot /\ slot # NoSlot
      /\ \E s, t, V, E : WriteShape(now, tokened, w, b, s, t, V, E)
  BY WriteLiveShape
<1>2. PICK s, t, V, E : WriteShape(now, tokened, w, b, s, t, V, E)
  BY <1>1
<1> DEFINE gate == Gate(s, w, tokened, now)
<1>3. s \in Slot /\ t \in Slot /\ V \in SUBSET Known(slot) /\ s \in Retirements(slot, V)
      /\ E \in SUBSET Known(t) /\ slot' \in Retirements(t, E)
      /\ E = IF w.producer = NoProducer THEN {} ELSE EvictedOverCap(t, now)
  BY <1>2 DEF WriteShape
<1>4. CapIn(s)
  BY <1>1, <1>3, CapRetired DEF CapInv
<1>5. tokened \in BOOLEAN /\ history \in Nat /\ writes \in Nat
  BY DEF TypeOK
<1>6. w.producer \in Producer <=> w.producer # NoProducer
  BY RequestType, ConstantsAssumption
<1> HIDE DEF tokened
<1>7. CASE Applies(s, b, gate)
  <2>1. gate.kind \in {"Unkeyed", "Claim", "Next"} /\ t = Applied(s, w, b, gate, tokened, now)
    BY <1>2, <1>7 DEF WriteShape
  <2>2. CASE w.producer \in Producer
    BY <1>3, <1>4, <1>5, <1>6, <2>1, <2>2, CapApplied
  <2>3. CASE w.producer \notin Producer
    BY <1>3, <1>4, <1>5, <2>1, <2>3, CapUnkeyed, CapRetired
  <2>. QED
    BY <2>2, <2>3
<1>8. CASE ~Applies(s, b, gate)
  <2>1. t = s
    BY <1>2, <1>8 DEF WriteShape
  <2>. QED
    BY <1>3, <1>4, <2>1, CapRetired
<1>. QED
  BY <1>7, <1>8

LEMMA CapStep ==
    ASSUME TypeOK, CapInv, [Next]_vars
    PROVE  CapInv'
<1>1. ASSUME NEW now \in Clock, ExpireStream(now) PROVE CapInv'
  BY <1>1 DEF CapInv, ExpireStream, Remove
<1>2. ASSUME NEW now \in Clock, NEW tok \in minted \cup {NoToken}, NEW w \in Requests,
             NEW b \in Bodies, WriteLive(now, tok, w, b)
      PROVE  CapInv'
  <2>1. CapIn(slot') /\ kept' = kept
    BY <1>2, CapWrite DEF WriteLive
  <2>. QED
    BY <2>1 DEF CapInv, CapIn, Known, HasRecord
<1>3. ASSUME NEW now \in Clock, NEW b \in Bodies, NEW ttl \in Ttls, NEW exp \in Expiries,
             Create(now, b, ttl, exp)
      PROVE  CapInv'
  <2>1. kept' = kept /\ (slot' # NoSlot => slot' = NewSlot(now, b, ttl, exp))
    BY <1>3 DEF Create
  <2>2. slot' # NoSlot => slot'.producers = [p \in Producer |-> NoRecord]
    BY <2>1, NewSlotFacts
  <2>3. slot' # NoSlot => Known(slot') = {}
    BY <2>2 DEF Known, HasRecord
  <2>4. slot' # NoSlot => CapIn(slot')
    BY <2>3, FS_EmptySet, ConstantsAssumption DEF CapIn
  <2>. QED
    BY <2>1, <2>4 DEF CapInv, CapIn, Known, HasRecord
<1>4. ASSUME NEW now \in Clock, NEW tok \in minted \cup {NoToken}, Delete(now, tok)
      PROVE  CapInv'
  BY <1>4 DEF CapInv, Delete, Remove
<1>5. ASSUME NEW now \in Clock, Touch(now) PROVE CapInv'
  <2>1. slot # NoSlot /\ kept' = kept
    BY <1>5 DEF Touch
  <2>2. Known(slot') = Known(slot)
    BY <1>5, TouchSlot DEF Known, HasRecord
  <2>. QED
    BY <2>1, <2>2 DEF CapInv, CapIn
<1>6. ASSUME NEW now \in Clock, Tidy(now) PROVE CapInv'
  <2>1. /\ slot \in Slot /\ slot # NoSlot /\ kept' = kept
        /\ \E s \in Slot : \E V, E : /\ V \in SUBSET Known(slot) /\ s \in Retirements(slot, V)
                                     /\ E \in SUBSET Known(s) /\ slot' \in Retirements(s, E)
    BY <1>6, TidyShape
  <2>2. CapIn(slot')
    BY <2>1, CapRetired DEF CapInv
  <2>. QED
    BY <2>1, <2>2 DEF CapInv, CapIn, Known, HasRecord
<1>7. ASSUME NEW now \in Clock, Genesis(now) \/ AcceptLoss(now) PROVE CapInv'
  <2>1. kept' = kept /\ (slot' = slot \/ slot' = kept.slot)
    BY <1>7 DEF Genesis, AcceptLoss, NewHistory
  <2>. QED
    BY <2>1 DEF CapInv
<1>8. CASE CatchUp
  BY <1>8 DEF CapInv, CatchUp, state
<1>9. CASE UNCHANGED vars
  BY <1>9 DEF CapInv, vars, state
<1>. QED
  BY <1>1, <1>2, <1>3, <1>4, <1>5, <1>6, <1>7, <1>8, <1>9, NextCases

(* A stream never keeps more producer records than the cap, whatever the   *)
(* clocks of the writers and however a loss sets it back                   *)
(* (producer_cap_admits, evict_producers_over_cap).                        *)
THEOREM CapHeldAlways == Spec => []CapHeld
<1>1. Init => TypeOK /\ CapInv
  BY TypeInit DEF Init, CapInv
<1>2. TypeOK /\ CapInv /\ [Next]_vars => (TypeOK /\ CapInv)'
  BY TypeStep, CapStep
<1>3. CapInv => CapHeld
  BY DEF CapInv, CapIn, CapHeld
<1>. QED
  BY <1>1, <1>2, <1>3, PTL DEF Spec
============================================================================
