------------------------- MODULE SessionListenerProofs -------------------------
(***************************************************************************)
(* Theorems about SessionListener, for any sets of keys, tokens and        *)
(* connections, any control plane and any TTL.                             *)
(***************************************************************************)
EXTENDS SessionListener, TLAPS

USE ListenerAssumption, NoOfferAssumption

-----------------------------------------------------------------------------
(* Type correctness                                                        *)

LEMMA InsertType ==
  ASSUME TypeOK, NEW t \in Tokens, NEW key \in Keys \cup {NoKey}, NEW kept,
         Insert(t, key, kept)
  PROVE  /\ pending' \in [Tokens -> Offer \cup {NoOffer}]
         /\ nextId' \in Nat
<1>1. [id |-> nextId, token |-> t, client |-> key, expires |-> now + TTL] \in Offer
  BY DEF TypeOK, Offer, Times
<1>. QED  BY <1>1 DEF Insert, TypeOK

LEMMA ControlType == ASSUME TypeOK, Control PROVE TypeOK'
<1>1. ASSUME NEW t \in Tokens, NEW key \in Keys, NegotiateRest(t, key)
      PROVE  TypeOK'
  <2>1. now + TTL \in Times
    BY DEF TypeOK, Times
  <2>. QED  BY <1>1, <2>1, InsertType DEF NegotiateRest, Register, Grant, TypeOK
<1>2. ASSUME NEW t \in Tokens, NEW key \in Keys, NegotiateZome(t, key)
      PROVE  TypeOK'
  BY <1>2 DEF NegotiateZome, TypeOK
<1>3. ASSUME NEW s \in signals, HandleSignal(s)
      PROVE  TypeOK'
  <2>1. s.token \in Tokens /\ s.client \in Keys
    BY DEF TypeOK
  <2>. QED  BY <1>3, <2>1, InsertType DEF HandleSignal, Register, TypeOK
<1>4. ASSUME NEW r \in replies, ReceiveReply(r)
      PROVE  TypeOK'
  <2>1. now + TTL \in Times /\ r.token \in Tokens /\ r.client \in Keys
    BY DEF TypeOK, Times
  <2>. QED  BY <1>4, <2>1 DEF ReceiveReply, Grant, TypeOK
<1>5. ASSUME NEW t \in Tokens, NEW key \in Keys \cup {NoKey}, RegisterSession(t, key)
      PROVE  TypeOK'
  <2>1. now + TTL \in Times
    BY DEF TypeOK, Times
  <2>. QED  BY <1>5, <2>1, InsertType DEF RegisterSession, Grant, TypeOK
<1>. QED  BY <1>1, <1>2, <1>3, <1>4, <1>5 DEF Control

(* Until the token is there, a task does nothing but wait.                 *)
LEMMA Waiting ==
  ASSUME NEW c \in Conns, AuthTimeout(c) \/ Client(c)
  PROVE  /\ UNCHANGED <<now, pending, cert, token, taken, control>>
         /\ \E from \in {"opening", "reading"},
               to \in {"reading", "received", "timeout", "broken"} : Goto(c, from, to)
BY DEF Client, AuthTimeout, OpenAuth, TokenArrives, ClientGone

LEMMA TypeStep == ASSUME TypeOK, [Next]_vars PROVE TypeOK'
<1>1. CASE Control
  BY <1>1, ControlType
<1>2. ASSUME NEW c \in Conns, AuthTimeout(c) \/ Client(c) PROVE TypeOK'
  BY <1>2, Waiting DEF Goto, TypeOK, control, PC, Refused
<1>3. ASSUME NEW c \in Conns, Lookup(c) PROVE TypeOK'
  BY <1>3 DEF Lookup, LookupOutcome, Goto, TypeOK, control, PC, Refused
<1>4. ASSUME NEW c \in Conns, PurgeExpired(c) PROVE TypeOK'
  BY <1>4 DEF PurgeExpired, Remove, Goto, TypeOK, control, PC, Refused
<1>5. ASSUME NEW c \in Conns, Consume(c) PROVE TypeOK'
  <2>1. ConsumeOutcome(c, pending[token[c]]) \in PC
    BY DEF ConsumeOutcome, PC, Refused
  <2>2. taken' \in [Conns -> Offer \cup {NoOffer}]
    <3>1. pending[token[c]] \in Offer \cup {NoOffer}
      BY <1>5 DEF Consume, Goto, TypeOK
    <3>. QED  BY <1>5, <3>1 DEF Consume, TypeOK
  <2>. QED  BY <1>5, <2>1, <2>2 DEF Consume, Remove, Goto, TypeOK, control
<1>7. ASSUME NEW c \in Conns, NEW g \in granted, NEW key \in Keys, Connect(c, g, key)
      PROVE TypeOK'
  <2>1. g.token \in Tokens
    BY DEF TypeOK
  <2>. QED  BY <1>7, <2>1 DEF Connect, Goto, TypeOK, control, PC
<1>8. CASE Tick
  BY <1>8 DEF Tick, TypeOK, control
<1>9. CASE UNCHANGED vars
  BY <1>9 DEF TypeOK, vars
<1>. QED  BY <1>1, <1>2, <1>3, <1>4, <1>5, <1>7, <1>8, <1>9 DEF Next, Task

(* Every reachable state is well typed (all of listener.rs).               *)
THEOREM TypeCorrect == Spec => []TypeOK
<1>1. Init => TypeOK
  BY DEF Init, TypeOK, PC
<1>2. TypeOK /\ [Next]_vars => TypeOK'
  BY TypeStep
<1>. QED  BY <1>1, <1>2, PTL DEF Spec

-----------------------------------------------------------------------------
(* Single use and agreement                                                *)

Inv == TypeOK /\ RegistryInv /\ ServedAsAgreed /\ SingleUse

(* What one registration does to the registry.                             *)
LEMMA InsertRegistry ==
  ASSUME TypeOK, NEW t \in Tokens, NEW key \in Keys \cup {NoKey}, NEW kept,
         kept \subseteq Registered, Insert(t, key, kept)
  PROVE  /\ nextId' = nextId + 1
         /\ Registered' = kept \cup {t}
         /\ \A u \in kept \ {t} : pending'[u] = pending[u]
         /\ pending'[t].id = nextId
         /\ pending'[t].token = t
         /\ pending'[t].client = key
<1>1. [id |-> nextId, token |-> t, client |-> key, expires |-> now + TTL] \in Offer
  BY DEF TypeOK, Offer, Times
<1>. QED  BY <1>1 DEF Insert, TypeOK, Registered

(* A registration of an agreed pair keeps the registry in order.           *)
LEMMA InsertKeepsInv ==
  ASSUME Inv, NEW t \in Tokens, NEW key \in Keys \cup {NoKey}, NEW kept,
         kept \subseteq Registered, Insert(t, key, kept),
         agreed \subseteq agreed', signals' \subseteq agreed',
         [token |-> t, client |-> key] \in agreed',
         UNCHANGED <<pc, cert, token, taken>>
  PROVE  RegistryInv' /\ ServedAsAgreed' /\ SingleUse'
<1>1. nextId \in Nat
  BY DEF Inv, TypeOK
<1>2. /\ nextId' = nextId + 1
      /\ Registered' = kept \cup {t}
      /\ \A u \in kept \ {t} : pending'[u] = pending[u]
      /\ pending'[t].id = nextId /\ pending'[t].token = t /\ pending'[t].client = key
  BY InsertRegistry DEF Inv
<1>3. \A u \in Registered : pending[u] \in Offer
  BY DEF Inv, TypeOK, Registered
<1>4. \A c \in Conns : Handed(c) => taken[c] \in Offer
  BY DEF Inv, TypeOK, Handed
<1>5. \A u \in Registered' :
        /\ pending'[u].token = u
        /\ pending'[u].id < nextId'
        /\ [token |-> u, client |-> pending'[u].client] \in agreed'
        /\ \A v \in Registered' : pending'[v].id = pending'[u].id => v = u
  <2>1. \A u \in kept : pending[u].id \in Nat /\ pending[u].id < nextId
    BY <1>3 DEF Inv, RegistryInv, Offer
  <2>2. \A u \in kept : [token |-> u, client |-> pending[u].client] \in agreed'
    BY DEF Inv, RegistryInv
  <2>3. \A u, v \in kept : pending[v].id = pending[u].id => v = u
    BY DEF Inv, RegistryInv
  <2>4. \A u \in kept : pending[u].token = u
    BY DEF Inv, RegistryInv
  <2>5. \A u \in Registered' : u = t \/ (u \in kept \ {t} /\ pending'[u] = pending[u])
    BY <1>2
  <2>6. ASSUME NEW u \in Registered', NEW v \in Registered',
               pending'[v].id = pending'[u].id
        PROVE  v = u
    BY <1>1, <1>2, <2>1, <2>3, <2>5, <2>6
  <2>7. ASSUME NEW u \in Registered'
        PROVE  pending'[u].token = u /\ pending'[u].id < nextId'
    BY <1>1, <1>2, <2>1, <2>4, <2>5
  <2>8. ASSUME NEW u \in Registered'
        PROVE  [token |-> u, client |-> pending'[u].client] \in agreed'
    BY <1>2, <2>2, <2>5
  <2>. QED  BY <2>6, <2>7, <2>8
<1>6. \A c \in Conns : Handed(c)' =>
        /\ pc'[c] = "serving"
        /\ taken'[c].id < nextId'
        /\ \A u \in Registered' : pending'[u].id # taken'[c].id
  BY <1>1, <1>2, <1>4 DEF Inv, RegistryInv, Handed, Offer
<1>7. RegistryInv'
  BY <1>5, <1>6 DEF RegistryInv
<1>8. ServedAsAgreed' /\ SingleUse'
  BY DEF Inv, ServedAsAgreed, SingleUse, Handed
<1>. QED  BY <1>7, <1>8

LEMMA ControlInv == ASSUME Inv, Control PROVE RegistryInv' /\ ServedAsAgreed' /\ SingleUse'
<1>1. ASSUME NEW t \in Tokens, NEW key \in Keys, NegotiateRest(t, key)
      PROVE  RegistryInv' /\ ServedAsAgreed' /\ SingleUse'
  BY <1>1, InsertKeepsInv DEF NegotiateRest, Register, Inv, RegistryInv
<1>2. ASSUME NEW t \in Tokens, NEW key \in Keys, NegotiateZome(t, key)
      PROVE  RegistryInv' /\ ServedAsAgreed' /\ SingleUse'
  <2>1. RegistryInv'
    BY <1>2 DEF NegotiateZome, Inv, RegistryInv, Registered, Handed
  <2>. QED  BY <1>2, <2>1 DEF NegotiateZome, Inv, ServedAsAgreed, SingleUse, Handed
<1>3. ASSUME NEW s \in signals, HandleSignal(s)
      PROVE  RegistryInv' /\ ServedAsAgreed' /\ SingleUse'
  <2>1. s.token \in Tokens /\ s.client \in Keys
        /\ s = [token |-> s.token, client |-> s.client] /\ s \in agreed
    BY DEF Inv, TypeOK, RegistryInv
  <2>. QED  BY <1>3, <2>1, InsertKeepsInv DEF HandleSignal, Register, Inv, RegistryInv
<1>4. ASSUME NEW r \in replies, ReceiveReply(r)
      PROVE  RegistryInv' /\ ServedAsAgreed' /\ SingleUse'
  BY <1>4 DEF ReceiveReply, Inv, RegistryInv, Registered, ServedAsAgreed, SingleUse, Handed
<1>5. ASSUME NEW t \in Tokens, NEW key \in Keys \cup {NoKey}, RegisterSession(t, key)
      PROVE  RegistryInv' /\ ServedAsAgreed' /\ SingleUse'
  BY <1>5, InsertKeepsInv DEF RegisterSession, Inv, RegistryInv
<1>. QED  BY <1>1, <1>2, <1>3, <1>4, <1>5 DEF Control

(* Removing one entry from the registry, with no offer handed out.         *)
LEMMA RemoveKeepsInv ==
  ASSUME Inv, NEW c \in Conns, Remove(c), UNCHANGED <<cert, token, taken, control>>,
         NEW from, NEW to, Goto(c, from, to), from # "serving"
  PROVE  RegistryInv' /\ ServedAsAgreed' /\ SingleUse'
<1>1. /\ Registered' \subseteq Registered
      /\ \A t \in Registered' : pending'[t] = pending[t]
  BY DEF Inv, TypeOK, Remove, Registered
<1>2. \A d \in Conns : Handed(d) => pc'[d] = pc[d]
  BY DEF Inv, TypeOK, RegistryInv, Goto, Handed
<1>. QED  BY <1>1, <1>2 DEF Inv, RegistryInv, ServedAsAgreed, SingleUse, Handed, control

(* A task that only moves on.                                              *)
LEMMA GotoKeepsInv ==
  ASSUME Inv, NEW c \in Conns, UNCHANGED <<pending, cert, token, taken, control>>,
         NEW from, NEW to, Goto(c, from, to),
         from # "serving"
  PROVE  RegistryInv' /\ ServedAsAgreed' /\ SingleUse'
<1>1. \A d \in Conns : Handed(d) => pc'[d] = "serving"
  BY DEF Inv, TypeOK, RegistryInv, Goto, Handed
<1>. QED  BY <1>1 DEF Inv, RegistryInv, Registered, ServedAsAgreed, SingleUse, Handed, control

(* The consumption that succeeds: the entry moves from the registry to the *)
(* handler in one critical section.                                        *)
LEMMA ServeKeepsInv ==
  ASSUME Inv, NEW c \in Conns, Consume(c),
         ConsumeOutcome(c, pending[token[c]]) = "serving"
  PROVE  RegistryInv' /\ ServedAsAgreed' /\ SingleUse'
<1>. DEFINE o == pending[token[c]]
<1>1. token[c] \in Registered /\ token[c] \in Tokens /\ cert[c] \in Keys
  BY DEF Inv, TypeOK, Consume, Goto, ConsumeOutcome, Registered
<1>2. o \in Offer /\ o # NoOffer /\ o.client = cert[c]
  BY <1>1 DEF Inv, TypeOK, ConsumeOutcome, Admits, Registered
<1>3. /\ taken' = [taken EXCEPT ![c] = o]
      /\ pc' = [pc EXCEPT ![c] = "serving"]
      /\ Registered' = Registered \ {token[c]}
      /\ \A t \in Registered' : pending'[t] = pending[t]
      /\ UNCHANGED <<cert, token, agreed, signals, nextId>>
  BY <1>1 DEF Consume, Goto, Remove, Registered, Inv, TypeOK, control
<1>4. \A d \in Conns \ {c} : taken'[d] = taken[d] /\ pc'[d] = pc[d]
  BY <1>3 DEF Inv, TypeOK
<1>5. taken'[c] = o /\ pc'[c] = "serving"
  BY <1>3 DEF Inv, TypeOK
<1>6. /\ o.token = token[c] /\ o.id < nextId
      /\ [token |-> token[c], client |-> cert[c]] \in agreed
      /\ \A t \in Registered' : pending[t].id # o.id
      /\ \A d \in Conns : Handed(d) => taken[d].id # o.id
  BY <1>1, <1>2, <1>3 DEF Inv, RegistryInv
<1>7. RegistryInv'
  BY <1>3, <1>4, <1>5, <1>6 DEF Inv, RegistryInv, Handed
<1>8. ServedAsAgreed'
  BY <1>1, <1>2, <1>3, <1>4, <1>5, <1>6 DEF Inv, ServedAsAgreed, Handed
<1>9. SingleUse'
  BY <1>4, <1>5, <1>6 DEF Inv, SingleUse, Handed
<1>. QED  BY <1>7, <1>8, <1>9

LEMMA InvStep == ASSUME Inv, [Next]_vars PROVE Inv'
<1>. SUFFICES RegistryInv' /\ ServedAsAgreed' /\ SingleUse'
  BY TypeStep DEF Inv
<1>1. CASE Control
  BY <1>1, ControlInv
<1>2. ASSUME NEW c \in Conns, AuthTimeout(c) \/ Client(c)
      PROVE  RegistryInv' /\ ServedAsAgreed' /\ SingleUse'
  BY <1>2, Waiting, GotoKeepsInv
<1>3. ASSUME NEW c \in Conns, Lookup(c)
      PROVE  RegistryInv' /\ ServedAsAgreed' /\ SingleUse'
  BY <1>3, GotoKeepsInv DEF Lookup
<1>4. ASSUME NEW c \in Conns, PurgeExpired(c)
      PROVE  RegistryInv' /\ ServedAsAgreed' /\ SingleUse'
  BY <1>4, RemoveKeepsInv DEF PurgeExpired
<1>5. ASSUME NEW c \in Conns, Consume(c)
      PROVE  RegistryInv' /\ ServedAsAgreed' /\ SingleUse'
  <2>1. CASE ConsumeOutcome(c, pending[token[c]]) = "serving"
    BY <1>5, <2>1, ServeKeepsInv
  <2>2. CASE ConsumeOutcome(c, pending[token[c]]) # "serving"
    <3>1. taken' = taken
      BY <1>5, <2>2 DEF Consume, Inv, TypeOK
    <3>. QED  BY <1>5, <3>1, RemoveKeepsInv DEF Consume
  <2>. QED  BY <2>1, <2>2
<1>7. ASSUME NEW c \in Conns, NEW g \in granted, NEW key \in Keys, Connect(c, g, key)
      PROVE  RegistryInv' /\ ServedAsAgreed' /\ SingleUse'
  <2>1. ~Handed(c) /\ \A d \in Conns \ {c} :
           pc'[d] = pc[d] /\ cert'[d] = cert[d] /\ token'[d] = token[d]
    BY <1>7 DEF Connect, Goto, Inv, TypeOK, RegistryInv
  <2>. QED  BY <1>7, <2>1 DEF Connect, Inv, RegistryInv, Registered, ServedAsAgreed,
                              SingleUse, Handed, control
<1>8. CASE Tick
  BY <1>8 DEF Tick, Inv, RegistryInv, Registered, ServedAsAgreed, SingleUse, Handed, control
<1>9. CASE UNCHANGED vars
  BY <1>9 DEF vars, Inv, RegistryInv, Registered, ServedAsAgreed, SingleUse, Handed
<1>. QED  BY <1>1, <1>2, <1>3, <1>4, <1>5, <1>7, <1>8, <1>9 DEF Next, Task

LEMMA InvInvariant == Spec => []Inv
<1>1. Init => Inv
  BY DEF Init, Inv, TypeOK, PC, RegistryInv, Registered, ServedAsAgreed, SingleUse, Handed
<1>2. Inv /\ [Next]_vars => Inv'
  BY InvStep
<1>. QED  BY <1>1, <1>2, PTL DEF Spec

(* No two registered offers, and no registered and no handed-out one, are  *)
(* the same registration, and every offer was agreed on                    *)
(* (listener.rs:20-30, 174-194).                                           *)
THEOREM RegistryTheorem == Spec => []RegistryInv
<1>1. Inv => RegistryInv
  BY DEF Inv
<1>. QED  BY <1>1, InvInvariant, PTL

(* One registration is handed to one connection at most                    *)
(* (listener.rs:174-194).                                                  *)
THEOREM SingleUseTheorem == Spec => []SingleUse
<1>1. Inv => SingleUse
  BY DEF Inv
<1>. QED  BY <1>1, InvInvariant, PTL

(* A session is served only to the key the control plane agreed on for its *)
(* token, registrations of a token already registered included             *)
(* (listener.rs:155-192).                                                  *)
THEOREM ServedAsAgreedTheorem == Spec => []ServedAsAgreed
<1>1. Inv => ServedAsAgreed
  BY DEF Inv
<1>. QED  BY <1>1, InvInvariant, PTL
-----------------------------------------------------------------------------
(* Refusals and registrations in the daemon                                *)

DInv == TypeOK /\ DaemonInv

(* A registration of a token that no task is working on.                   *)
LEMMA InsertKeepsDaemonInv ==
  ASSUME DInv, NEW t \in Tokens, NEW key \in Keys, Register(t, key),
         drawn \subseteq drawn', t \in drawn', signals' \subseteq signals,
         \A s \in signals' : s.token # t,
         \A c \in Conns : pc[c] \in {"consume", "purge"} => token[c] # t,
         UNCHANGED <<now, pc, cert, token, taken>>
  PROVE  DaemonInv'
<1>. DEFINE kept == {u \in Registered : ~Expired(pending[u])}
<1>1. Insert(t, key, kept)
  BY DEF Register
<1>2. Registered' = kept \cup {t} /\ \A u \in kept \ {t} : pending'[u] = pending[u]
  BY <1>1, InsertRegistry DEF DInv
<1>. QED  BY <1>2 DEF DInv, DaemonInv, Expired, Admits

LEMMA DInvStep == ASSUME Direct = FALSE, DInv, [Next]_vars PROVE DInv'
<1>. SUFFICES DaemonInv'
  BY TypeStep DEF DInv
<1>1. ASSUME NEW t \in Tokens, NEW key \in Keys, NegotiateRest(t, key)
      PROVE  DaemonInv'
  BY <1>1, InsertKeepsDaemonInv DEF NegotiateRest, DInv, DaemonInv
<1>2. ASSUME NEW t \in Tokens, NEW key \in Keys, NegotiateZome(t, key)
      PROVE  DaemonInv'
  BY <1>2 DEF NegotiateZome, DInv, DaemonInv, Registered, Expired, Admits
<1>3. ASSUME NEW s \in signals, HandleSignal(s)
      PROVE  DaemonInv'
  <2>1. s.token \in Tokens /\ s.client \in Keys
    BY DEF DInv, TypeOK
  <2>2. s.token \in drawn /\ \A r \in signals' : r.token # s.token
    BY <1>3 DEF HandleSignal, DInv, DaemonInv
  <2>3. \A c \in Conns : pc[c] \in {"consume", "purge"} => token[c] # s.token
    BY DEF DInv, DaemonInv
  <2>. QED  BY <1>3, <2>1, <2>2, <2>3, InsertKeepsDaemonInv DEF HandleSignal
<1>4. ASSUME NEW r \in replies, ReceiveReply(r)
      PROVE  DaemonInv'
  BY <1>4 DEF ReceiveReply, DInv, DaemonInv, Registered, Expired, Admits
<1>5. ASSUME Direct, NEW t \in Tokens, NEW key, RegisterSession(t, key)
      PROVE  DaemonInv'
  BY <1>5
<1>6. ASSUME NEW c \in Conns, NEW from, NEW to, Goto(c, from, to),
             to \notin {"consume", "purge"}, UNCHANGED <<now, cert, token, control>>,
             \/ UNCHANGED pending \/ Remove(c)
      PROVE  DaemonInv'
  <2>1. Registered' \subseteq Registered /\ \A t \in Registered' : pending'[t] = pending[t]
    BY <1>6 DEF DInv, TypeOK, Remove, Registered
  <2>2. \A d \in Conns : pc'[d] \in {"consume", "purge"} => pc'[d] = pc[d]
    BY <1>6 DEF DInv, TypeOK, Goto
  <2>. QED  BY <1>6, <2>1, <2>2 DEF DInv, DaemonInv, Expired, Admits, control
<1>7. ASSUME NEW c \in Conns, AuthTimeout(c) \/ Client(c) PROVE DaemonInv'
  BY <1>7, <1>6, Waiting
<1>8. ASSUME NEW c \in Conns, Lookup(c) PROVE DaemonInv'
  <2>1. token[c] \in Tokens
    BY <1>8 DEF Lookup, Goto, DInv, TypeOK
  <2>2. pc'[c] \in {"consume", "purge"} =>
          /\ token[c] \in Registered
          /\ IF pc'[c] = "purge" THEN Expired(pending[token[c]])
                                 ELSE Admits(pending[token[c]], cert[c])
    BY <1>8, <2>1 DEF Lookup, LookupOutcome, Goto, DInv, TypeOK, Registered
  <2>3. \A d \in Conns \ {c} : pc'[d] = pc[d]
    BY <1>8 DEF Lookup, Goto, DInv, TypeOK
  <2>4. UNCHANGED <<now, pending, cert, token, drawn, signals>>
    BY <1>8 DEF Lookup, control
  <2>. QED  BY <2>2, <2>3, <2>4 DEF DInv, DaemonInv, Registered, Expired, Admits
<1>9. ASSUME NEW c \in Conns, PurgeExpired(c) PROVE DaemonInv'
  BY <1>9, <1>6 DEF PurgeExpired
<1>10. ASSUME NEW c \in Conns, Consume(c) PROVE DaemonInv'
  <2>1. ConsumeOutcome(c, pending[token[c]]) \notin {"consume", "purge"}
    BY DEF ConsumeOutcome
  <2>. QED  BY <1>10, <2>1, <1>6 DEF Consume
<1>12. ASSUME NEW c \in Conns, NEW g \in granted, NEW key \in Keys, Connect(c, g, key)
       PROVE DaemonInv'
  <2>1. /\ pc'[c] = "opening"
        /\ \A d \in Conns \ {c} : pc'[d] = pc[d] /\ cert'[d] = cert[d] /\ token'[d] = token[d]
        /\ UNCHANGED <<now, pending, drawn, signals>>
    BY <1>12 DEF Connect, Goto, DInv, TypeOK, control
  <2>. QED  BY <2>1 DEF DInv, DaemonInv, Registered, Expired, Admits
<1>13. CASE Tick
  <2>1. \A t \in Registered : pending[t].expires \in Nat
    BY DEF DInv, TypeOK, Registered, Offer, Times
  <2>2. \A t \in Registered : Expired(pending[t]) => Expired(pending[t])'
    BY <1>13, <2>1 DEF Tick, Expired, DInv, TypeOK
  <2>3. /\ Registered' = Registered
        /\ UNCHANGED <<pc, cert, token, drawn, signals, pending>>
    BY <1>13 DEF Tick, control, Registered
  <2>. QED  BY <2>2, <2>3 DEF DInv, DaemonInv, Admits
<1>14. CASE UNCHANGED vars
  BY <1>14 DEF vars, DInv, DaemonInv, Registered, Expired, Admits
<1>15. ~\E t \in Tokens, key \in Keys \cup {NoKey} : RegisterSession(t, key)
  BY DEF RegisterSession
<1>. QED  BY <1>1, <1>2, <1>3, <1>4, <1>7, <1>8, <1>9, <1>10, <1>12, <1>13, <1>14,
             <1>15 DEF Next, Control, Task

LEMMA DInvInvariant == ASSUME Direct = FALSE PROVE Spec => []DInv
<1>1. Init => DInv
  BY DEF Init, DInv, TypeOK, PC, DaemonInv, Registered
<1>2. DInv /\ [Next]_vars => DInv'
  BY DInvStep
<1>. QED  BY <1>1, <1>2, PTL DEF Spec

(* In the daemon a task that has looked its token up finds, until it has   *)
(* consumed or purged it, its own offer or none (listener.rs:137-194).     *)
THEOREM DaemonTheorem == ASSUME Direct = FALSE PROVE Spec => []DaemonInv
<1>1. DInv => DaemonInv
  BY DEF DInv
<1>. QED  BY <1>1, DInvInvariant, PTL

(* In the daemon, whose tokens are random and registered once, a           *)
(* connection that is refused removes no offer that is still valid         *)
(* (listener.rs:133-137).                                                  *)
THEOREM RefusalTheorem == ASSUME Direct = FALSE PROVE Spec => RefusalKeepsOffers
<1>. DEFINE A == \A c \in Conns, t \in Tokens :
       /\ pc[c] \notin Refused /\ pc'[c] \in Refused
       /\ pending[t] # NoOffer /\ ~Expired(pending[t])
       => pending'[t] = pending[t]
<1>1. ASSUME DInv, Next, NEW c \in Conns, NEW t \in Tokens,
             pc[c] \notin Refused, pc'[c] \in Refused,
             pending[t] # NoOffer, ~Expired(pending[t])
      PROVE  pending'[t] = pending[t]
  <2>1. UNCHANGED pc => FALSE
    BY <1>1
  <2>2. ASSUME NEW d \in Conns, NEW from, NEW to, Goto(d, from, to) PROVE d = c
    BY <1>1, <2>2 DEF Goto, DInv, TypeOK
  <2>3. ~Control
    BY <2>1 DEF Control, NegotiateRest, NegotiateZome, HandleSignal, ReceiveReply,
                RegisterSession
  <2>4. ~Tick
    BY <2>1 DEF Tick
  <2>5. ASSUME NEW d \in Conns, AuthTimeout(d) \/ Client(d) \/ Lookup(d)
        PROVE  pending'[t] = pending[t]
    BY <2>5, Waiting DEF Lookup
  <2>6. ASSUME NEW d \in Conns, NEW g \in granted, NEW key \in Keys, Connect(d, g, key)
        PROVE  pending'[t] = pending[t]
    BY <2>6 DEF Connect
  <2>7. ASSUME NEW d \in Conns, PurgeExpired(d)
        PROVE  pending'[t] = pending[t]
    <3>1. token[d] \in Registered => Expired(pending[token[d]])
      BY <1>1, <2>7 DEF PurgeExpired, Goto, DInv, DaemonInv
    <3>2. t # token[d]
      BY <1>1, <3>1 DEF Registered
    <3>. QED  BY <1>1, <2>7, <3>2 DEF PurgeExpired, Remove, DInv, TypeOK
  <2>8. ASSUME NEW d \in Conns, Consume(d)
        PROVE  pending'[t] = pending[t]
    <3>1. d = c /\ ConsumeOutcome(d, pending[token[d]]) \in Refused
      BY <1>1, <2>8, <2>2 DEF Consume, Goto, DInv, TypeOK
    <3>2. token[d] \in Registered => Admits(pending[token[d]], cert[d])
      BY <1>1, <2>8 DEF Consume, Goto, DInv, DaemonInv
    <3>3. t # token[d]
      BY <1>1, <3>1, <3>2 DEF ConsumeOutcome, Registered, Refused
    <3>. QED  BY <1>1, <2>8, <3>3 DEF Consume, Remove, DInv, TypeOK
  <2>. QED  BY <1>1, <2>3, <2>4, <2>5, <2>6, <2>7, <2>8 DEF Next, Task
<1>2. DInv /\ [Next]_vars => [A]_vars
  BY <1>1
<1>3. Spec => [][A]_vars
  BY <1>2, DInvInvariant, PTL DEF Spec
<1>. QED  BY <1>3 DEF RefusalKeepsOffers

-----------------------------------------------------------------------------
(* In the daemon a registration drops only offers that have expired        *)
(* (listener.rs:20-29).                                                    *)
THEOREM RegisterTheorem == ASSUME Direct = FALSE PROVE Spec => RegisterKeepsOffers
<1>. DEFINE A == nextId' # nextId =>
       \A t \in Tokens :
         \/ pending[t] = NoOffer \/ Expired(pending[t])
         \/ pending'[t] = pending[t]
         \/ pending'[t] # NoOffer /\ pending'[t].id = nextId
<1>1. ASSUME TypeOK, NEW t \in Tokens, NEW key \in Keys, Register(t, key)
      PROVE  A
  <2>. DEFINE kept == {u \in Registered : ~Expired(pending[u])}
  <2>1. /\ Registered' = kept \cup {t}
        /\ \A u \in kept \ {t} : pending'[u] = pending[u]
        /\ pending'[t].id = nextId
    BY <1>1, InsertRegistry DEF Register
  <2>2. ASSUME NEW u \in Tokens, u # t, pending[u] # NoOffer, ~Expired(pending[u])
        PROVE  pending'[u] = pending[u]
    BY <2>1, <2>2 DEF Registered
  <2>3. pending'[t] # NoOffer
    BY <2>1 DEF Registered
  <2>. QED  BY <2>1, <2>2, <2>3
<1>2. ASSUME TypeOK, Next
      PROVE  A
  <2>1. ASSUME NEW t \in Tokens, NEW key \in Keys, NegotiateRest(t, key) PROVE A
    <3>1. Register(t, key)
      BY <2>1 DEF NegotiateRest
    <3>. QED  BY <1>1, <1>2, <3>1
  <2>2. ASSUME NEW s \in signals, HandleSignal(s) PROVE A
    <3>1. Register(s.token, s.client) /\ s.token \in Tokens /\ s.client \in Keys
      BY <1>2, <2>2 DEF HandleSignal, TypeOK
    <3>. QED  BY <1>1, <1>2, <3>1
  <2>3. ASSUME nextId' # nextId
        PROVE  \/ \E t \in Tokens, key \in Keys : NegotiateRest(t, key)
               \/ \E s \in signals : HandleSignal(s)
    BY <1>2, <2>3 DEF Next, Control, Task, NegotiateZome, ReceiveReply, RegisterSession,
       Connect, AuthTimeout, Client, OpenAuth, TokenArrives, ClientGone, Lookup,
       PurgeExpired, Consume, Tick, control
  <2>. QED  BY <2>1, <2>2, <2>3
<1>3. TypeOK /\ [Next]_vars => [A]_vars
  BY <1>2
<1>4. Spec => [][A]_vars
  BY <1>3, TypeCorrect, PTL DEF Spec
<1>. QED  BY <1>4 DEF RegisterKeepsOffers

-----------------------------------------------------------------------------
(* Offers of the REST plane                                                *)

Used(t) == \E d \in Conns : Handed(d) /\ taken[d].token = t

Answered(g) ==
  \/ g.token \in Registered /\ pending[g.token].expires = g.expires
  \/ now > g.expires
  \/ Used(g.token)

(* An offer given out by the REST plane is registered until it is used or  *)
(* has expired, and its token is not on its way to the registry again.     *)
RestInv ==
  \A g \in granted : g.plane = "rest" =>
    /\ g.token \in drawn /\ \A s \in signals : s.token # g.token
    /\ Answered(g)

LInv == Inv /\ DaemonInv /\ RestInv

LEMMA UsedStays ==
  ASSUME Inv, [Next]_vars, NEW t, Used(t) PROVE Used(t)'
<1>1. PICK d \in Conns : Handed(d) /\ taken[d].token = t
  BY DEF Used
<1>2. pc[d] = "serving" /\ d \in DOMAIN taken
  BY <1>1 DEF Inv, RegistryInv, TypeOK
<1>3. taken'[d] = taken[d]
  <2>1. ASSUME NEW c \in Conns, Consume(c) PROVE taken'[d] = taken[d]
    <3>1. c # d
      BY <1>2, <2>1 DEF Consume, Goto
    <3>. QED  BY <2>1, <3>1 DEF Consume, Inv, TypeOK
  <2>. QED  BY <2>1 DEF Next, Control, Task, NegotiateRest, NegotiateZome, HandleSignal,
       ReceiveReply, RegisterSession, AuthTimeout, Client, OpenAuth, TokenArrives,
       ClientGone, Lookup, PurgeExpired, Connect, Tick, control, vars
<1>. QED  BY <1>1, <1>3 DEF Used, Handed

(* An offer is answered for after every step that keeps it registered, or  *)
(* takes it from the registry when it is used or has expired.              *)
LEMMA AnsweredStays ==
  ASSUME Inv, [Next]_vars, NEW g \in granted, Answered(g),
         \/ g.token \in Registered' /\ pending'[g.token] = pending[g.token]
         \/ g.token \in Registered => Expired(pending[g.token]) \/ Used(g.token)'
  PROVE  Answered(g)'
<1>1. CASE now > g.expires
  <2>1. g.expires \in Nat /\ now \in Nat
    BY DEF Inv, TypeOK, Times
  <2>2. now' = now \/ now' = now + 1
    BY DEF Next, Control, Task, NegotiateRest, NegotiateZome, HandleSignal,
       ReceiveReply, RegisterSession, AuthTimeout, Client, OpenAuth, TokenArrives,
       ClientGone, Lookup, PurgeExpired, Consume, Connect, Tick, vars
  <2>. QED  BY <1>1, <2>1, <2>2 DEF Answered
<1>2. CASE Used(g.token)
  BY <1>2, UsedStays DEF Answered
<1>3. CASE /\ g.token \in Registered /\ pending[g.token].expires = g.expires
           /\ ~(now > g.expires)
  BY <1>3 DEF Answered, Expired
<1>. QED  BY <1>1, <1>2, <1>3 DEF Answered

(* Registering another token.                                              *)
LEMMA RegisterAnswers ==
  ASSUME Inv, [Next]_vars, NEW t \in Tokens, NEW key \in Keys, Register(t, key),
         NEW g \in granted, g.token # t, Answered(g)
  PROVE  Answered(g)'
<1>. DEFINE kept == {u \in Registered : ~Expired(pending[u])}
<1>1. /\ Registered' = kept \cup {t}
      /\ \A u \in kept \ {t} : pending'[u] = pending[u]
  BY InsertRegistry DEF Register, Inv
<1>. QED  BY <1>1, AnsweredStays

LEMMA RestStep ==
  ASSUME Direct = FALSE, LInv, [Next]_vars PROVE RestInv'
<1>. USE DEF LInv
<1>1. ASSUME NEW t \in Tokens, NEW key \in Keys, NegotiateRest(t, key)
      PROVE  RestInv'
  <2>1. /\ t \notin drawn /\ drawn' = drawn \cup {t} /\ Register(t, key)
        /\ granted' = granted \cup {Grant(t, "rest")} /\ UNCHANGED <<now, signals>>
    BY <1>1 DEF NegotiateRest
  <2>2. ASSUME NEW g \in granted, g.plane = "rest"
        PROVE  g.token \in drawn' /\ (\A s \in signals' : s.token # g.token) /\ Answered(g)'
    BY <2>1, <2>2, RegisterAnswers DEF RestInv
  <2>3. \A s \in signals' : s.token # t
    BY <2>1 DEF DaemonInv
  <2>4. PICK h : h = Grant(t, "rest")
    OBVIOUS
  <2>5. /\ h.token = t /\ h.expires = now + TTL
        /\ t \in Registered' /\ pending'[t].expires = now + TTL
    <3>1. [id |-> nextId, token |-> t, client |-> key, expires |-> now + TTL] \in Offer
      BY DEF Inv, TypeOK, Offer, Times
    <3>2. pending'[t] = [id |-> nextId, token |-> t, client |-> key, expires |-> now + TTL]
      BY <2>1 DEF Register, Insert
    <3>. QED  BY <2>4, <3>1, <3>2 DEF Grant, Registered
  <2>6. Answered(h)'
    BY <2>5 DEF Answered
  <2>7. granted' = granted \cup {h} /\ h.token \in drawn'
    BY <2>1, <2>4, <2>5
  <2>. QED  BY <2>1, <2>2, <2>3, <2>5, <2>6, <2>7 DEF RestInv
<1>2. ASSUME NEW t \in Tokens, NEW key \in Keys, NegotiateZome(t, key)
      PROVE  RestInv'
  <2>1. /\ t \notin drawn /\ drawn' = drawn \cup {t} /\ granted' = granted
        /\ pending' = pending
        /\ signals' = signals \cup {[token |-> t, client |-> key]}
    BY <1>2 DEF NegotiateZome
  <2>2. ASSUME NEW g \in granted, g.plane = "rest" PROVE Answered(g)'
    BY <2>1, <2>2, AnsweredStays DEF RestInv, Registered
  <2>. QED  BY <2>1, <2>2 DEF RestInv
<1>3. ASSUME NEW s \in signals, HandleSignal(s)
      PROVE  RestInv'
  <2>1. /\ s.token \in Tokens /\ s.client \in Keys /\ Register(s.token, s.client)
        /\ signals' = signals \ {s} /\ UNCHANGED <<drawn, granted>>
    BY <1>3 DEF HandleSignal, Inv, TypeOK
  <2>2. ASSUME NEW g \in granted, g.plane = "rest" PROVE Answered(g)'
    BY <2>1, <2>2, RegisterAnswers DEF RestInv
  <2>. QED  BY <2>1, <2>2 DEF RestInv
<1>4. ASSUME NEW r \in replies, ReceiveReply(r)
      PROVE  RestInv'
  <2>1. /\ granted' = granted \cup {Grant(r.token, "signal")}
        /\ UNCHANGED <<pending, drawn, signals>>
    BY <1>4 DEF ReceiveReply
  <2>2. ASSUME NEW g \in granted, g.plane = "rest" PROVE Answered(g)'
    BY <2>1, <2>2, AnsweredStays DEF RestInv, Registered
  <2>. QED  BY <2>1, <2>2 DEF RestInv, Grant
<1>5. ASSUME UNCHANGED <<pending, drawn, signals, granted>> PROVE RestInv'
  <2>1. ASSUME NEW g \in granted, g.plane = "rest" PROVE Answered(g)'
    BY <1>5, <2>1, AnsweredStays DEF RestInv, Registered
  <2>. QED  BY <1>5, <2>1 DEF RestInv
<1>6. ASSUME NEW c \in Conns, Remove(c), UNCHANGED <<token, control>>,
             token[c] \in Registered => Expired(pending[token[c]]) \/ Used(token[c])'
      PROVE  RestInv'
  <2>1. ASSUME NEW g \in granted, g.plane = "rest" PROVE Answered(g)'
    <3>1. g.token \in Tokens /\ Answered(g)
      BY <2>1 DEF Inv, TypeOK, RestInv
    <3>2. CASE g.token = token[c]
      <4>1. g.token \in Registered => Expired(pending[g.token]) \/ Used(g.token)'
        BY <1>6, <3>2 DEF Used
      <4>. QED  BY <3>1, <4>1, AnsweredStays
    <3>3. CASE g.token # token[c]
      <4>1. pending'[g.token] = pending[g.token]
        BY <1>6, <3>1, <3>3 DEF Remove, Inv, TypeOK
      <4>. QED  BY <3>1, <4>1, AnsweredStays, UsedStays DEF Registered, Answered
    <3>. QED  BY <3>2, <3>3
  <2>. QED  BY <1>6, <2>1 DEF RestInv, control
<1>7. ASSUME NEW c \in Conns, PurgeExpired(c) PROVE RestInv'
  <2>1. token[c] \in Registered => Expired(pending[token[c]])
    BY <1>7 DEF PurgeExpired, Goto, DaemonInv
  <2>. QED  BY <1>6, <1>7, <2>1 DEF PurgeExpired
<1>8. ASSUME NEW c \in Conns, Consume(c) PROVE RestInv'
  <2>1. token[c] \in Registered =>
          Admits(pending[token[c]], cert[c]) /\ pending[token[c]].token = token[c]
    BY <1>8 DEF Consume, Goto, DaemonInv, Inv, RegistryInv
  <2>2. ASSUME token[c] \in Registered, ~Expired(pending[token[c]])
        PROVE  Used(token[c])'
    <3>1. ConsumeOutcome(c, pending[token[c]]) = "serving"
      BY <2>1, <2>2 DEF ConsumeOutcome, Registered
    <3>2. taken'[c] = pending[token[c]] /\ UNCHANGED token
      BY <1>8, <3>1 DEF Consume, Inv, TypeOK
    <3>. QED  BY <2>1, <2>2, <3>2 DEF Used, Handed, Registered
  <2>. QED  BY <1>6, <1>8, <2>2 DEF Consume
<1>9. ASSUME NEW c \in Conns, AuthTimeout(c) \/ Client(c) \/ Lookup(c) PROVE RestInv'
  BY <1>5, <1>9, Waiting DEF Lookup, control
<1>10. ASSUME NEW c \in Conns, NEW g \in granted, NEW key \in Keys, Connect(c, g, key)
       PROVE  RestInv'
  BY <1>5, <1>10 DEF Connect, control
<1>11. CASE Tick \/ UNCHANGED vars
  BY <1>5, <1>11 DEF Tick, control, vars
<1>12. ~\E t \in Tokens, key \in Keys \cup {NoKey} : RegisterSession(t, key)
  BY DEF RegisterSession
<1>. QED  BY <1>1, <1>2, <1>3, <1>4, <1>7, <1>8, <1>9, <1>10, <1>11, <1>12
          DEF Next, Control, Task

(* A client with an offer of the REST plane is told that its token is      *)
(* unknown only if the token was used or has expired: by the time a client *)
(* can connect, its offer is registered (listener.rs:11-13).               *)
THEOREM RestTheorem == ASSUME Direct = FALSE PROVE Spec => RestTokenAccepted
<1>1. Init => LInv
  BY DEF Init, LInv, Inv, TypeOK, PC, RegistryInv, Registered, ServedAsAgreed, SingleUse,
         Handed, DaemonInv, RestInv
<1>2. LInv /\ [Next]_vars => LInv'
  BY InvStep, DInvStep, RestStep DEF LInv, Inv, DInv
<1>3. LInv /\ [Next]_vars => AcceptedStep({"rest"})
  <2>. SUFFICES ASSUME LInv, [Next]_vars, NEW c \in Conns,
                       pc[c] = "received", pc'[c] = "invalid",
                       NEW g \in granted, g.token = token[c], g.plane = "rest"
                PROVE  Used(token[c]) \/ now > g.expires
    BY DEF AcceptedStep, Used
  <2>1. \A d \in Conns : \A from, to : Goto(d, from, to) => d = c
    BY DEF Goto, LInv, Inv, TypeOK
  <2>2. Lookup(c)
    <3>1. ASSUME UNCHANGED pc PROVE FALSE
      BY <3>1
    <3>2. ASSUME NEW d \in Conns, \/ AuthTimeout(d) \/ Client(d)
                                   \/ PurgeExpired(d) \/ Consume(d)
          PROVE  FALSE
      BY <3>2, Waiting DEF PurgeExpired, Consume, Goto, LInv, Inv, TypeOK
    <3>3. ASSUME NEW d \in Conns, NEW h \in granted, NEW key \in Keys, Connect(d, h, key)
          PROVE  FALSE
      BY <3>3 DEF Connect, Goto, LInv, Inv, TypeOK
    <3>4. ~Control /\ ~Tick /\ ~UNCHANGED vars
      BY <3>1 DEF Control, NegotiateRest, NegotiateZome, HandleSignal, ReceiveReply,
                  RegisterSession, Tick, vars
    <3>. QED  BY <2>1, <3>2, <3>3, <3>4 DEF Next, Task, Lookup
  <2>3. pending[token[c]] = NoOffer
    BY <2>2 DEF Lookup, LookupOutcome, Goto, LInv, Inv, TypeOK
  <2>. QED  BY <2>3 DEF LInv, RestInv, Answered, Registered
<1>. QED  BY <1>1, <1>2, <1>3, PTL DEF Spec, RestTokenAccepted
=============================================================================
