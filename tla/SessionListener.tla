---------------------------- MODULE SessionListener ----------------------------
(***************************************************************************)
(* The session registry and the accept path of a worker's QUIC listener    *)
(* (crates/ainonymous-quic/src/listener.rs, session.rs), with the two      *)
(* control planes that fill the registry (the daemon's REST route and the  *)
(* Holochain signal) and the clients that connect with the offers they     *)
(* were given.                                                             *)
(*                                                                         *)
(* Every connection is a tokio task of its own on a multi-threaded         *)
(* runtime; the registry is a map under a mutex.  A step of this module    *)
(* is one critical section of that mutex together with the task-local code *)
(* that follows it, so the look-up of a token, the purge of an expired one *)
(* and its consumption are steps of three different kinds that the other   *)
(* tasks may come between.                                                 *)
(***************************************************************************)
EXTENDS Naturals

CONSTANTS
  Keys,     (* ed25519 transport keys of the clients                          *)
  Tokens,   (* values a session token can take                                *)
  Conns,    (* incoming connections (bounds the model)                        *)
  Planes,   (* control planes in use: a subset of {"rest", "signal"}          *)
  Direct,   (* TRUE: the embedding program calls register_session itself      *)
  TTL,      (* SESSION_TOKEN_TTL_SECS                                         *)
  MaxTime,  (* last instant of the clock (bounds the model)                   *)
  MaxRegs,  (* registrations made in a behaviour (bounds the model)           *)
  NoKey,    (* client_pubkey = None                                           *)
  NoOffer   (* absent from the registry                                       *)

ASSUME ListenerAssumption ==
  /\ Planes \subseteq {"rest", "signal"}
  /\ Direct \in BOOLEAN
  /\ TTL \in Nat /\ MaxTime \in Nat /\ MaxRegs \in Nat
  /\ NoKey \notin Keys

Times == 0 .. (MaxTime + TTL)

(* SessionOffer, reduced to what the accept path reads.  id tells apart    *)
(* two registrations of the same token; the code has no such field.        *)
Offer == [id : Nat, token : Tokens, client : Keys \cup {NoKey}, expires : Times]

ASSUME NoOfferAssumption == NoOffer \notin Offer

VARIABLES
  now,      (* wall clock of the worker                                       *)
  drawn,    (* tokens generated so far                                        *)
  pending,  (* the registry: token -> offer                                   *)
  signals,  (* QuicListenerSignal emitted by the zome, not yet handled        *)
  replies,  (* results of call_remote on their way to the requester           *)
  granted,  (* offers in the hands of the clients                             *)
  agreed,   (* history: (token, client key) pairs the control plane agreed on *)
  nextId,   (* history: id of the next registration                           *)
  pc,       (* where each connection's task stands                            *)
  cert,     (* key of the certificate each client presented                   *)
  token,    (* token each client writes on the authentication stream          *)
  taken     (* the offer each task handed to the session handler              *)

vars == <<now, drawn, pending, signals, replies, granted, agreed, nextId,
          pc, cert, token, taken>>
control == <<drawn, signals, replies, granted, agreed, nextId>>

(* The results accept_connection can return with, other than Ok.           *)
Refused ==
  {"timeout", "broken", "invalid", "expired", "no_key", "mismatch", "replaced"}
PC == {"free", "opening", "reading", "received", "purge", "consume", "serving"}
        \cup Refused

Expired(o) == now > o.expires
Admits(o, key) == o.client = key

TypeOK ==
  /\ now \in 0 .. MaxTime
  /\ drawn \subseteq Tokens
  /\ pending \in [Tokens -> Offer \cup {NoOffer}]
  /\ signals \subseteq [token : Tokens, client : Keys]
  /\ replies \subseteq [token : Tokens, client : Keys]
  /\ granted \subseteq [token : Tokens, expires : Times, plane : {"rest", "signal", "direct"}]
  /\ agreed \subseteq [token : Tokens, client : Keys \cup {NoKey}]
  /\ nextId \in Nat
  /\ pc \in [Conns -> PC]
  /\ cert \in [Conns -> Keys \cup {NoKey}]
  /\ token \in [Conns -> Tokens \cup {NoOffer}]
  /\ \A c \in Conns : pc[c] # "free" => cert[c] \in Keys /\ token[c] \in Tokens
  /\ taken \in [Conns -> Offer \cup {NoOffer}]

Init ==
  /\ now = 0
  /\ drawn = {}
  /\ pending = [t \in Tokens |-> NoOffer]
  /\ signals = {} /\ replies = {} /\ granted = {} /\ agreed = {}
  /\ nextId = 0
  /\ pc = [c \in Conns |-> "free"]
  /\ cert = [c \in Conns |-> NoKey]
  /\ token = [c \in Conns |-> NoOffer]
  /\ taken = [c \in Conns |-> NoOffer]

-----------------------------------------------------------------------------
(* Control plane                                                           *)

Registered == {t \in Tokens : pending[t] # NoOffer}

(* Insert an offer and keep, of the others, those of the tokens in kept.   *)
Insert(t, key, kept) ==
  /\ nextId < MaxRegs
  /\ nextId' = nextId + 1
  /\ pending' = [u \in Tokens |->
       IF u = t
       THEN [id |-> nextId, token |-> t, client |-> key, expires |-> now + TTL]
       ELSE IF u \in kept THEN pending[u] ELSE NoOffer]

(* Mutant of Register: drops offers in the last instant they are valid.    *)
RegisterDropsBoundary(t, key) ==
  Insert(t, key, {u \in Registered : pending[u].expires > now})

(* SessionRegistry::register.                                              *)
Register(t, key) == Insert(t, key, {u \in Registered : ~Expired(pending[u])})

(* Mutant of Grant: the TTL is counted twice.                              *)
GrantDoubled(t, plane) == [token |-> t, expires |-> now + TTL + TTL, plane |-> plane]

(* The client's copy of an offer that was made now, and how it came by it. *)
Grant(t, plane) == [token |-> t, expires |-> now + TTL, plane |-> plane]

(* Mutant of NegotiateRest: the offer is returned without registration.    *)
NegotiateUnregistered(t, key) ==
  /\ "rest" \in Planes
  /\ t \notin drawn
  /\ drawn' = drawn \cup {t}
  /\ granted' = granted \cup {Grant(t, "rest")}
  /\ agreed' = agreed \cup {[token |-> t, client |-> key]}
  /\ UNCHANGED <<now, pending, nextId, signals, replies, pc, cert, token, taken>>

(* POST /mesh/session/negotiate: draw a token, register the offer, return  *)
(* it.  The expiry the client gets is the one the listener holds.          *)
NegotiateRest(t, key) ==
  /\ "rest" \in Planes
  /\ t \notin drawn
  /\ drawn' = drawn \cup {t}
  /\ Register(t, key)
  /\ granted' = granted \cup {Grant(t, "rest")}
  /\ agreed' = agreed \cup {[token |-> t, client |-> key]}
  /\ UNCHANGED <<now, signals, replies, pc, cert, token, taken>>

(* Zome negotiate_quic_session: draw a token and emit the signal to the    *)
(* local daemon; then publish the hashed offer, which may fail, in which   *)
(* case the caller gets an error though the signal is on its way.          *)
NegotiateZome(t, key) ==
  /\ "signal" \in Planes
  /\ t \notin drawn
  /\ drawn' = drawn \cup {t}
  /\ signals' = signals \cup {[token |-> t, client |-> key]}
  /\ agreed' = agreed \cup {[token |-> t, client |-> key]}
  /\ \/ replies' = replies \cup {[token |-> t, client |-> key]}
     \/ UNCHANGED replies
  /\ UNCHANGED <<now, pending, granted, nextId, pc, cert, token, taken>>

(* Mutants of HandleSignal: the client's key is lost; a signal is handled  *)
(* again after it was handled.                                             *)
HandleSignalKeyless(s) ==
  /\ s \in signals
  /\ signals' = signals \ {s}
  /\ Register(s.token, NoKey)
  /\ UNCHANGED <<now, drawn, replies, granted, agreed, pc, cert, token, taken>>

HandleSignalAgain(s) ==
  /\ s \in signals
  /\ Register(s.token, s.client)
  /\ UNCHANGED <<now, drawn, signals, replies, granted, agreed, pc, cert, token, taken>>

(* The daemon's on_signal callback: the TTL starts when the signal is      *)
(* handled, not when the token was drawn.                                  *)
HandleSignal(s) ==
  /\ s \in signals
  /\ signals' = signals \ {s}
  /\ Register(s.token, s.client)
  /\ UNCHANGED <<now, drawn, replies, granted, agreed, pc, cert, token, taken>>

(* The requester's daemon receives the zome's result; its copy of the      *)
(* offer has a TTL of its own.                                             *)
ReceiveReply(r) ==
  /\ r \in replies
  /\ replies' = replies \ {r}
  /\ granted' = granted \cup {Grant(r.token, "signal")}
  /\ UNCHANGED <<now, drawn, pending, signals, agreed, nextId, pc, cert, token, taken>>

(* QuicListener::register_session, called by a program that embeds the     *)
(* crate and chooses the token itself: it may register a token again.      *)
RegisterSession(t, key) ==
  /\ Direct
  /\ drawn' = drawn \cup {t}
  /\ Insert(t, key, {u \in Registered : pending[u].expires > now})
  /\ granted' = granted \cup {Grant(t, "direct")}
  /\ agreed' = agreed \cup {[token |-> t, client |-> key]}
  /\ UNCHANGED <<now, signals, replies, pc, cert, token, taken>>

-----------------------------------------------------------------------------
(* Data plane                                                              *)

Goto(c, from, to) ==
  /\ pc[c] = from
  /\ pc' = [pc EXCEPT ![c] = to]

(* QuicSession::connect with an offer that is not expired, and a           *)
(* certificate that need not be the one the offer names.                   *)
Connect(c, g, key) ==
  /\ Goto(c, "free", "opening")
  /\ g \in granted
  /\ ~Expired(g)
  /\ cert' = [cert EXCEPT ![c] = key]
  /\ token' = [token EXCEPT ![c] = g.token]
  /\ UNCHANGED <<now, pending, taken, control>>

(* The client opens the authentication stream.                             *)
OpenAuth(c) ==
  /\ Goto(c, "opening", "reading")
  /\ UNCHANGED <<now, pending, cert, token, taken, control>>

(* The last of the 32 bytes arrives; the loop that reads them has no timer. *)
TokenArrives(c) ==
  /\ Goto(c, "reading", "received")
  /\ UNCHANGED <<now, pending, cert, token, taken, control>>

(* The stream ends early, or the connection is lost.                       *)
ClientGone(c) ==
  /\ Goto(c, "opening", "broken") \/ Goto(c, "reading", "broken")
  /\ UNCHANGED <<now, pending, cert, token, taken, control>>

(* No authentication stream within 5 s.                                    *)
AuthTimeout(c) ==
  /\ Goto(c, "opening", "timeout")
  /\ UNCHANGED <<now, pending, cert, token, taken, control>>

(* Mutant of LookupOutcome: the certificate is left for later.             *)
LookupUnverified(c, o) ==
  IF o = NoOffer THEN "invalid" ELSE IF Expired(o) THEN "purge" ELSE "consume"

(* First critical section: look the token up without consuming it, then    *)
(* check the certificate against the offer that was found.                 *)
LookupOutcome(c, o) ==
  IF o = NoOffer THEN "invalid"
  ELSE IF Expired(o) THEN "purge"
  ELSE IF o.client = NoKey THEN "no_key"
  ELSE IF ~Admits(o, cert[c]) THEN "mismatch"
  ELSE "consume"

Lookup(c) ==
  /\ Goto(c, "received", LookupOutcome(c, pending[token[c]]))
  /\ UNCHANGED <<now, pending, cert, token, taken, control>>

(* Mutant of Remove: the entry is read and left in the registry.           *)
RemoveNothing(c) == c \in Conns /\ UNCHANGED pending

Remove(c) == pending' = [pending EXCEPT ![token[c]] = NoOffer]

(* Mutant of PurgeExpired: the guard of the look-up is still held, so the  *)
(* second lock is never obtained.                                          *)
PurgeSelfDeadlock(c) ==
  /\ FALSE
  /\ Goto(c, "purge", "expired")
  /\ Remove(c)
  /\ UNCHANGED <<now, cert, token, taken, control>>

(* Second critical section of a task that found its offer expired: it      *)
(* removes whatever is registered under the token by then.                 *)
PurgeExpired(c) ==
  /\ Goto(c, "purge", "expired")
  /\ Remove(c)
  /\ UNCHANGED <<now, cert, token, taken, control>>

(* Mutants of ConsumeOutcome: the entry found the second time is trusted;  *)
(* the last instant of an offer counts as expired here and not before.     *)
ConsumeTrusting(c, o) ==
  IF o = NoOffer THEN "invalid" ELSE IF Expired(o) THEN "expired" ELSE "serving"

ConsumeAtBoundary(c, o) ==
  IF o = NoOffer THEN "invalid"
  ELSE IF now >= o.expires THEN "expired"
  ELSE IF ~Admits(o, cert[c]) THEN "replaced"
  ELSE "serving"

(* Second critical section of a task whose certificate was verified.  The  *)
(* entry leaves the registry before its expiry and its key are checked.    *)
ConsumeOutcome(c, o) ==
  IF o = NoOffer THEN "invalid"
  ELSE IF Expired(o) THEN "expired"
  ELSE IF ~Admits(o, cert[c]) THEN "replaced"
  ELSE "serving"

Consume(c) ==
  LET o   == pending[token[c]]
      out == ConsumeOutcome(c, o)
  IN  /\ Goto(c, "consume", out)
      /\ Remove(c)
      /\ taken' = [taken EXCEPT ![c] = IF out = "serving" THEN o ELSE @]
      /\ UNCHANGED <<now, cert, token, control>>

Tick ==
  /\ now < MaxTime
  /\ now' = now + 1
  /\ UNCHANGED <<pending, pc, cert, token, taken, control>>

-----------------------------------------------------------------------------
Control ==
  \/ \E t \in Tokens, key \in Keys : NegotiateRest(t, key) \/ NegotiateZome(t, key)
  \/ \E s \in signals : HandleSignal(s)
  \/ \E r \in replies : ReceiveReply(r)
  \/ \E t \in Tokens, key \in Keys \cup {NoKey} : RegisterSession(t, key)

Client(c) == OpenAuth(c) \/ TokenArrives(c) \/ ClientGone(c)
Task(c) == AuthTimeout(c) \/ Lookup(c) \/ PurgeExpired(c) \/ Consume(c)

Next ==
  \/ Control
  \/ \E c \in Conns : Task(c) \/ Client(c)
  \/ \E c \in Conns, g \in granted, key \in Keys : Connect(c, g, key)
  \/ Tick

Spec == Init /\ [][Next]_vars

(* The runtime polls every accept task that can go on, and its 5 s timer   *)
(* goes off.  Nothing is asked of the clients, of the control plane or of  *)
(* the session handler: a client whose connection lives, kept alive by the *)
(* transport, may send fewer than 32 bytes for ever.                       *)
Fairness == \A c \in Conns : WF_vars(Task(c))
FairSpec == Spec /\ Fairness

-----------------------------------------------------------------------------
(* Properties                                                              *)

Handed(c) == taken[c] # NoOffer

(* A registered offer opens at most one session: no two connections are    *)
(* handed the same registration, whatever the order in which their look-up *)
(* and their consumption interleave (listener.rs:174-194).                 *)
SingleUse ==
  \A c, d \in Conns :
    c # d /\ Handed(c) /\ Handed(d) => taken[c].id # taken[d].id

(* The handler runs only for a client whose certificate is the one named   *)
(* by the offer it uses up, and the control plane agreed on that key for   *)
(* the very token presented: also when the token is registered again for   *)
(* another key between the check and the consumption                       *)
(* (listener.rs:155-192).                                                  *)
ServedAsAgreed ==
  \A c \in Conns : Handed(c) =>
    /\ taken[c].token = token[c]
    /\ taken[c].client = cert[c] /\ cert[c] # NoKey
    /\ [token |-> token[c], client |-> cert[c]] \in agreed

(* The inductive strengthening of the two invariants above: registrations  *)
(* and the offers handed to handlers never share an id, and everything     *)
(* registered or on its way to the registry was agreed on.                 *)
RegistryInv ==
  /\ signals \subseteq agreed
  /\ \A t \in Registered :
       /\ pending[t].token = t
       /\ pending[t].id < nextId
       /\ [token |-> t, client |-> pending[t].client] \in agreed
       /\ \A u \in Registered : pending[u].id = pending[t].id => u = t
  /\ \A c \in Conns : Handed(c) =>
       /\ pc[c] = "serving"
       /\ taken[c].id < nextId
       /\ \A t \in Registered : pending[t].id # taken[c].id

(* What makes refusals harmless in the daemon, where a token is drawn once *)
(* and registered once: a verified task finds its own offer or none, and a *)
(* task about to purge finds an expired offer or none.                     *)
DaemonInv ==
  /\ Registered \subseteq drawn
  /\ \A s \in signals : s.token \in drawn /\ s.token \notin Registered
  /\ \A r, s \in signals : r.token = s.token => r = s
  /\ \A c \in Conns : pc[c] \in {"consume", "purge"} =>
       /\ token[c] \in drawn
       /\ \A s \in signals : s.token # token[c]
       /\ token[c] \in Registered =>
            IF pc[c] = "purge" THEN Expired(pending[token[c]])
                               ELSE Admits(pending[token[c]], cert[c])

(* A connection that is refused leaves every live offer where it was: only *)
(* the rightful client can use a token up (listener.rs:133-137).           *)
RefusalKeepsOffers ==
  [][\A c \in Conns, t \in Tokens :
       /\ pc[c] \notin Refused /\ pc'[c] \in Refused
       /\ pending[t] # NoOffer /\ ~Expired(pending[t])
       => pending'[t] = pending[t]]_vars

(* Registering an offer drops no other offer that is still valid           *)
(* (SessionRegistry::register, listener.rs:20-29; register_session has     *)
(* another test, and only a program with Direct = TRUE calls it).          *)
RegisterKeepsOffers ==
  [][nextId' # nextId =>
       \A t \in Tokens :
         \/ pending[t] = NoOffer \/ Expired(pending[t])
         \/ pending'[t] = pending[t]
         \/ pending'[t] # NoOffer /\ pending'[t].id = nextId]_vars

(* A client that was given an offer is told "invalid token" only if the    *)
(* token was used or has expired: by the time a client can connect, its    *)
(* offer is in the registry (listener.rs:11-13).  True of the REST plane;  *)
(* the signal plane answers the client before the listener hears of it.    *)
AcceptedStep(planes) ==
  \A c \in Conns :
    pc[c] = "received" /\ pc'[c] = "invalid" =>
      \/ \E d \in Conns : Handed(d) /\ taken[d].token = token[c]
      \/ \A g \in granted :
           g.token = token[c] /\ g.plane \in planes => now > g.expires
RestTokenAccepted  == [][AcceptedStep({"rest"})]_vars
KnownTokenAccepted == [][AcceptedStep(Planes)]_vars

(* Every connection the listener accepted is handed to the session handler *)
(* or refused, with one exception: a client that opened its stream and     *)
(* stops short of 32 bytes is waited for as long as its connection lives.  *)
(* No task hangs anywhere else, on the registry's mutex included           *)
(* (listener.rs:113-194).                                                  *)
ConnectionsResolve ==
  \A c \in Conns :
    pc[c] = "opening" ~>
      pc[c] \in {"serving"} \cup Refused \/ [](pc[c] = "reading")

(* Losing the race for a token has a winner: a task that passed the check  *)
(* of its certificate ends up serving, unless another connection with the  *)
(* same certificate was served with that token or the token ran out        *)
(* (listener.rs:174-176).  Stated where client and listener agree on the   *)
(* expiry.                                                                 *)
VerifiedIsServed ==
  \A c \in Conns :
    pc[c] = "consume" /\ (\E g \in granted : g.token = token[c] /\ g.plane = "rest") ~>
      \/ pc[c] = "serving"
      \/ \E d \in Conns \ {c} :
           Handed(d) /\ taken[d].token = token[c] /\ cert[d] = cert[c]
      \/ \E g \in granted : g.token = token[c] /\ now > g.expires
=============================================================================
