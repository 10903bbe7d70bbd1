----------------------------- MODULE MDLProofs ------------------------------
(***************************************************************************)
(* Proofs, for any number of connections, keys and tickets, that metadata  *)
(* locks are granted only beside locks they are compatible with, that no   *)
(* ticket is lost, that a wait gets the right answer, that no deadlock     *)
(* stays undetected and no request is left behind that could be granted,   *)
(* that only deadlocks have victims and acquire_locks() is all or nothing. *)
(***************************************************************************)
EXTENDS MDLProperties, MDLFindDeadlock, ListsProofs, TLAPS

Ops == {"none", "acquire", "try", "batch", "upgrade"}
CallSet == [op : Ops, req : MDLRequest \cup {None}, mine : TicketIds \cup {None},
            rest : SUBSET Requests, target : TicketIds \cup {None},
            svp : MDLSavepoints \cup {None}, asked : SUBSET Requests,
            held : SUBSET TicketIds]

Types ==
  /\ TypeOK
  /\ call \in [Contexts -> CallSet]
  /\ savepoint \in [Contexts -> MDLSavepoints \cup {None}]

(* The call cl of c: a request, and for an upgrade the ticket it is for.   *)
CallOK(c, cl) ==
  /\ cl \in CallSet /\ cl.op # "none"
  /\ cl.req \in MDLRequest /\ cl.req.type \in LockTypes(cl.req.key)
  /\ cl.op = "batch" =>
       /\ cl.svp \in MDLSavepoints
       /\ savepoint[c] # None =>
            savepoint[c].transaction \notin ToSet(AcquiredAfter(c, cl.svp))
  /\ cl.op = "upgrade" =>
       /\ cl.req.type = "X" /\ cl.req.dur = "transaction" /\ ~cl.req.nowait
       /\ cl.target \in Held(c)
       /\ ticket[cl.target].key = cl.req.key
       /\ ticket[cl.target].type \in {"SNW", "SNRW"}
       /\ cl.svp \in MDLSavepoints
       /\ cl.svp.statement = FrontOf(m_tickets[c]["statement"])

(* The savepoint of an upgrade is the newest ticket ...                    *)
AtSavepoint(c, cl) ==
  cl.op = "upgrade" => cl.svp.transaction = FrontOf(m_tickets[c]["transaction"])

(* ... until the X ticket is added before it.                              *)
PastSavepoint(c, cl) ==
  LET list == m_tickets[c]["transaction"]
  IN /\ list # <<>> /\ Head(list) = cl.mine
     /\ cl.svp.transaction = FrontOf(Tail(list))
     /\ savepoint[c] # None => savepoint[c].transaction # cl.mine

(* The ticket id is for the request of the call cl.                        *)
IsFor(id, cl) ==
  /\ id \in TicketIds /\ ticket[id] # None
  /\ ticket[id].key = cl.req.key /\ ticket[id].type = cl.req.type

(* The lists of tickets of c.                                              *)
ListsInv(c) ==
  /\ \A d \in Durations : Distinct(m_tickets[c][d])
  /\ \A d, e \in Durations :
       d # e => ToSet(m_tickets[c][d]) \cap ToSet(m_tickets[c][e]) = {}
  /\ \A id \in Held(c) :
       Ctx(id) = c /\ id \in granted /\ (Queued(c) => id # call[c].mine)
  /\ Distinct(release[c]) /\ ToSet(release[c]) \subseteq Held(c)
  /\ \A id \in TicketIds : Ctx(id) = c /\ ticket[id] # None =>
       id \in Held(c) \/ (Queued(c) /\ call[c].mine = id)

(* The call in progress of c.                                              *)
CallInv(c) ==
  /\ pc[c] \in {"run", "resched"} => call[c] = NoCall
  /\ pc[c] \notin {"run", "resched"} => CallOK(c, call[c]) /\ release[c] = <<>>
  /\ Queued(c) => IsFor(call[c].mine, call[c]) /\ Ctx(call[c].mine) = c
  /\ pc[c] = "mark" => /\ IsFor(call[c].mine, call[c]) /\ call[c].mine \in Held(c)
                       /\ call[c].op # "upgrade"
  /\ pc[c] = "merge" =>
       /\ IsFor(call[c].mine, call[c]) /\ call[c].mine \in Held(c)
       /\ call[c].op = "upgrade"
       /\ AtSavepoint(c, call[c]) \/ PastSavepoint(c, call[c])
  /\ pc[c] # "merge" => AtSavepoint(c, call[c])

(* The savepoint of c's caller.                                            *)
SavepointInv(c) ==
  savepoint[c] # None =>
    /\ savepoint[c].statement = None
    /\ savepoint[c].transaction # None =>
         /\ savepoint[c].transaction \in ToSet(m_tickets[c]["transaction"])
         /\ savepoint[c].transaction \notin ToSet(release[c])

(* reschedule_waiters() visits tickets that wait, with m_rwlock held.      *)
LoopInv(c) ==
  pc[c] = "resched" =>
    /\ loop[c].key \in Keys /\ rwlock[loop[c].key] = c
    /\ Distinct(loop[c].rest) /\ ToSet(loop[c].rest) \subseteq WaitingOn(loop[c].key)

(* m_waiting has the tickets of the contexts that wait for k.              *)
WaiterInv(k, id) ==
  /\ ticket[id] # None /\ ticket[id].key = k /\ id \notin granted
  /\ Queued(Ctx(id)) /\ call[Ctx(id)].mine = id

TicketInv(id) ==
  /\ id \in granted => ticket[id] # None
  /\ ticket[id] # None => ticket[id].type \in LockTypes(ticket[id].key)

(* The answer in the wait slot of c.                                       *)
AnswerInv(c) ==
  Queued(c) =>
    IF wait_status[c] = "GRANTED"
      THEN call[c].mine \in granted
      ELSE /\ call[c].mine \notin granted
           /\ call[c].mine \in WaitingOn(ticket[call[c].mine].key)

(* m_waiting_for is the ticket of the call that waits.                     *)
WaitForInv(c) ==
  waiting_for[c] = IF pc[c] \in {"search", "victim", "wait"} THEN call[c].mine ELSE None

(* What concerns the context c and its tickets.                            *)
SelfInv(c) ==
  /\ ListsInv(c) /\ CallInv(c) /\ SavepointInv(c) /\ LoopInv(c) /\ AnswerInv(c)
  /\ WaitForInv(c)
  /\ \A id \in TicketIds : Ctx(id) = c => TicketInv(id)
  /\ \A k \in Keys : \A id \in WaitingOn(k) : Ctx(id) = c => WaiterInv(k, id)

Structure ==
  /\ Types
  /\ \A k \in Keys : Distinct(waiting[k])
  /\ \A c \in Contexts : SelfInv(c)

(* The victim a search has pinned waits.                                   *)
PinInv ==
  \A c \in Contexts :
    /\ victim[c] # None => waiting_for[victim[c]] # None
    /\ pc[c] = "victim" => victim[c] # None

-----------------------------------------------------------------------------
(* The matrices.                                                           *)

LEMMA GrantedSymmetric ==
  ASSUME NEW scoped \in BOOLEAN, NEW s \in MDLTypeSet, NEW t \in MDLTypeSet
  PROVE  s \in GrantedIncompatible(scoped, t) <=> t \in GrantedIncompatible(scoped, s)
BY DEF GrantedIncompatible, ScopedGrantedIncompatible, ObjectGrantedIncompatible, MDLTypeSet

(* A waiting request of higher priority excludes once it is granted.       *)
LEMMA WaitingWeaker ==
  ASSUME NEW scoped \in BOOLEAN, NEW t \in MDLTypeSet
  PROVE  WaitingIncompatible(scoped, t) \subseteq GrantedIncompatible(scoped, t)
BY DEF WaitingIncompatible, GrantedIncompatible, ScopedGrantedIncompatible,
       ObjectGrantedIncompatible, ScopedWaitingIncompatible, ObjectWaitingIncompatible,
       MDLTypeSet

(* Only an X ticket satisfies a request for X.                             *)
LEMMA OnlyX ==
  ASSUME NEW scoped \in BOOLEAN, NEW t \in MDLTypeSet, HasStrongerOrEqualType(scoped, t, "X")
  PROVE  t = "X"
BY DEF HasStrongerOrEqualType, GrantedIncompatible, ScopedGrantedIncompatible,
       ObjectGrantedIncompatible, MDLTypeSet

(* X excludes what SNW and SNRW exclude, and these exclude each other.     *)
LEMMA UpgradeTypes ==
  ASSUME NEW s \in {"SNW", "SNRW"}, NEW t \in {"SNW", "SNRW"}
  PROVE  /\ GrantedIncompatible(FALSE, t) \subseteq GrantedIncompatible(FALSE, "X")
         /\ s \in GrantedIncompatible(FALSE, t)
BY DEF GrantedIncompatible, ObjectGrantedIncompatible, MDLTypeSet

-----------------------------------------------------------------------------
(* Tickets.                                                                *)

LEMMA CtxType == ASSUME NEW id \in TicketIds PROVE Ctx(id) \in Contexts
BY DEF TicketIds, Ctx

LEMMA NewTicketFacts ==
  ASSUME NEW c \in Contexts, Free(c) # {}
  PROVE  NewTicket(c) \in TicketIds /\ Ctx(NewTicket(c)) = c /\ ticket[NewTicket(c)] = None
<1>1. Free(c) \subseteq Nat
  BY DEF Free
<1>2. \E i \in Free(c) : \A j \in Free(c) : i <= j
  BY <1>1, MinExists
<1>3. \E i \in Free(c) : NewTicket(c) = <<c, i>>
  BY <1>2 DEF NewTicket
<1>. QED BY <1>3 DEF Free, TicketIds, Ctx

LEMMA HeldDef ==
  ASSUME NEW c, NEW id
  PROVE  id \in Held(c) <=> \E d \in Durations : id \in ToSet(m_tickets[c][d])
BY DEF Held

(* find_ticket() finds a ticket that is at least as strong.                *)
LEMMA FindTicketFacts ==
  ASSUME NEW c, NEW r, r.dur \in Durations, IsLockOwner(c, r.key, r.type),
         \A d \in Durations : m_tickets[c][d] \in Seq(TicketIds)
  PROVE  /\ FoundDuration(c, r) \in Durations
         /\ FindTicket(c, r) \in ToSet(m_tickets[c][FoundDuration(c, r)])
         /\ ticket[FindTicket(c, r)].key = r.key
         /\ HasStrongerOrEqualType(Scoped(r.key), ticket[FindTicket(c, r)].type, r.type)
<1>. DEFINE dur(i) == DurationAt((DurationNo[r.dur] + i) % 3)
            hits == {i \in 0 .. 2 : Matches(c, dur(i), r.key, r.type) # {}}
            f == FoundDuration(c, r)
            found == Matches(c, f, r.key, r.type)
<1>1. DurationAt(0) = "statement" /\ DurationAt(1) = "transaction" /\ DurationAt(2) = "explicit"
  BY DEF DurationAt, DurationNo, Durations
<1>2. ASSUME NEW d \in Durations PROVE \E i \in 0 .. 2 : dur(i) = d
  <2>1. CASE r.dur = "statement"
    <3>1. dur(0) = "statement" /\ dur(1) = "transaction" /\ dur(2) = "explicit"
      BY <1>1, <2>1 DEF DurationNo
    <3>. QED BY <3>1 DEF Durations
  <2>2. CASE r.dur = "transaction"
    <3>1. dur(0) = "transaction" /\ dur(1) = "explicit" /\ dur(2) = "statement"
      BY <1>1, <2>2 DEF DurationNo
    <3>. QED BY <3>1 DEF Durations
  <2>3. CASE r.dur = "explicit"
    <3>1. dur(0) = "explicit" /\ dur(1) = "statement" /\ dur(2) = "transaction"
      BY <1>1, <2>3 DEF DurationNo
    <3>. QED BY <3>1 DEF Durations
  <2>. QED BY <2>1, <2>2, <2>3 DEF Durations
<1>3. \A i \in 0 .. 2 : dur(i) \in Durations
  BY <1>1 DEF DurationNo, Durations
<1>. HIDE DEF dur
<1>4. hits # {} /\ hits \subseteq Nat
  BY <1>2 DEF IsLockOwner
<1>5. \E i \in hits : \A j \in hits : i <= j
  BY <1>4, MinExists
<1>6. \E i \in hits : f = dur(i)
  BY <1>5 DEF FoundDuration, dur
<1>7. f \in Durations /\ found # {}
  BY <1>3, <1>6
<1>8. found \subseteq DOMAIN m_tickets[c][f] /\ found \subseteq Nat
  <2>1. DOMAIN m_tickets[c][f] \subseteq Nat
    BY <1>7, LenProperties
  <2>. QED BY <2>1 DEF Matches
<1>9. \E i \in found : \A j \in found : i <= j
  BY <1>7, <1>8, MinExists
<1>10. \E i \in found : FindTicket(c, r) = m_tickets[c][f][i]
  BY <1>9 DEF FindTicket
<1>. QED BY <1>7, <1>8, <1>10 DEF Matches, ToSet

-----------------------------------------------------------------------------
(* A step of c leaves the other contexts and their tickets alone; they may *)
(* be given an answer that is not GRANTED.                                 *)
Frame(c) ==
  /\ \A d \in Contexts \ {c} :
       /\ m_tickets'[d] = m_tickets[d] /\ release'[d] = release[d]
       /\ savepoint'[d] = savepoint[d] /\ call'[d] = call[d] /\ pc'[d] = pc[d]
       /\ loop'[d] = loop[d] /\ waiting_for'[d] = waiting_for[d]
       /\ wait_status'[d] = wait_status[d]
            \/ (wait_status[d] = "EMPTY" /\ wait_status'[d] # "GRANTED")
  /\ \A id \in TicketIds : Ctx(id) # c =>
       /\ ticket'[id] = ticket[id] /\ (id \in granted' <=> id \in granted)
       /\ \A k \in Keys : id \in WaitingOn(k)' <=> id \in WaitingOn(k)
  /\ \A k \in Keys : rwlock[k] \notin {None, c} =>
       rwlock'[k] = rwlock[k] /\ waiting'[k] = waiting[k]

LEMMA TypeFacts ==
  ASSUME Types, NEW c \in Contexts
  PROVE  /\ \A d \in Durations : m_tickets[c][d] \in Seq(TicketIds)
         /\ Held(c) \subseteq TicketIds
         /\ release[c] \in Seq(TicketIds) /\ ToSet(release[c]) \subseteq TicketIds
         /\ call[c] \in CallSet
         /\ \A id \in TicketIds : ticket[id] = None \/ ticket[id] \in MDLTicket
         /\ \A k \in Keys : waiting[k] \in Seq(TicketIds) /\ WaitingOn(k) \subseteq TicketIds
<1>1. \A d \in Durations : m_tickets[c][d] \in Seq(TicketIds)
  BY DEF Types, TypeOK
<1>2. Held(c) \subseteq TicketIds
  <2>1. \A d \in Durations : ToSet(m_tickets[c][d]) \subseteq TicketIds
    BY <1>1, ToSetFacts
  <2>. QED BY <2>1 DEF Held
<1>3. release[c] \in Seq(TicketIds)
  BY DEF Types, TypeOK
<1>4. ToSet(release[c]) \subseteq TicketIds
  BY <1>3, ToSetFacts
<1>5. call[c] \in CallSet /\ \A id \in TicketIds : ticket[id] = None \/ ticket[id] \in MDLTicket
  BY DEF Types, TypeOK
<1>6. \A k \in Keys : waiting[k] \in Seq(TicketIds)
  BY DEF Types, TypeOK
<1>7. \A k \in Keys : WaitingOn(k) \subseteq TicketIds
  BY <1>6, ToSetFacts DEF WaitingOn
<1>. QED BY <1>1, <1>2, <1>3, <1>4, <1>5, <1>6, <1>7

LEMMA FrameKeeps ==
  ASSUME Structure, Types', NEW c \in Contexts, Frame(c), NEW d \in Contexts \ {c}
  PROVE  SelfInv(d)'
<1>1. SelfInv(d) /\ Types
  BY DEF Structure
<1>2. /\ m_tickets'[d] = m_tickets[d] /\ release'[d] = release[d]
      /\ savepoint'[d] = savepoint[d] /\ call'[d] = call[d] /\ pc'[d] = pc[d]
      /\ loop'[d] = loop[d] /\ waiting_for'[d] = waiting_for[d]
      /\ wait_status'[d] = wait_status[d]
           \/ (wait_status[d] = "EMPTY" /\ wait_status'[d] # "GRANTED")
  BY DEF Frame
<1>3. ASSUME NEW id \in TicketIds, Ctx(id) = d
      PROVE  /\ ticket'[id] = ticket[id] /\ (id \in granted' <=> id \in granted)
             /\ \A k \in Keys : id \in WaitingOn(k)' <=> id \in WaitingOn(k)
  BY <1>3 DEF Frame
<1>4. Held(d)' = Held(d) /\ Queued(d)' = Queued(d)
  BY <1>2 DEF Held, Queued
<1>5. Held(d) \subseteq TicketIds
  BY <1>1, TypeFacts
<1>6. ListsInv(d)'
  BY <1>1, <1>2, <1>3, <1>4, <1>5 DEF SelfInv, ListsInv
<1>7. CallInv(d)'
  <2>1. ASSUME NEW cl, CallOK(d, cl) PROVE CallOK(d, cl)'
    <3>1. cl.op = "upgrade" => ticket'[cl.target] = ticket[cl.target]
      BY <1>1, <1>3, <1>5, <2>1 DEF CallOK, SelfInv, ListsInv
    <3>. QED BY <1>2, <1>4, <2>1, <3>1 DEF CallOK, AcquiredAfter
  <2>2. ASSUME NEW cl, NEW id, IsFor(id, cl), Ctx(id) = d PROVE IsFor(id, cl)'
    BY <1>3, <2>2 DEF IsFor
  <2>3. ASSUME NEW cl
        PROVE  (AtSavepoint(d, cl)' <=> AtSavepoint(d, cl))
               /\ (PastSavepoint(d, cl)' <=> PastSavepoint(d, cl))
    BY <1>2 DEF AtSavepoint, PastSavepoint
  <2>4. PICK cl : cl = call[d]
    OBVIOUS
  <2>5. \A id \in Held(d) : Ctx(id) = d
    BY <1>1 DEF SelfInv, ListsInv
  <2>. QED BY <1>1, <1>2, <1>4, <2>1, <2>2, <2>3, <2>4, <2>5 DEF SelfInv, CallInv
<1>8. SavepointInv(d)'
  BY <1>1, <1>2 DEF SelfInv, SavepointInv
<1>9. LoopInv(d)'
  BY <1>1, <1>2, NoneAssumption DEF SelfInv, LoopInv, Frame, WaitingOn
<1>10. AnswerInv(d)'
  <2>. SUFFICES ASSUME Queued(d) PROVE AnswerInv(d)'
    BY <1>4 DEF AnswerInv
  <2>1. /\ call[d].mine \in TicketIds /\ Ctx(call[d].mine) = d
        /\ ticket[call[d].mine].key \in Keys
    <3>1. IsFor(call[d].mine, call[d]) /\ Ctx(call[d].mine) = d
      BY <1>1 DEF SelfInv, CallInv
    <3>. QED BY <1>1, <3>1, TypeFacts DEF IsFor, MDLTicket
  <2>. QED BY <1>1, <1>2, <1>3, <1>4, <2>1 DEF SelfInv, AnswerInv
<1>11. ASSUME NEW id \in TicketIds, Ctx(id) = d PROVE TicketInv(id)'
  BY <1>1, <1>3, <1>11 DEF SelfInv, TicketInv
<1>12. ASSUME NEW k \in Keys, NEW id \in WaitingOn(k)', Ctx(id) = d
       PROVE  WaiterInv(k, id)'
  <2>1. waiting'[k] \in Seq(TicketIds)
    BY DEF Types, TypeOK
  <2>2. id \in TicketIds
    BY <1>12, <2>1, ToSetFacts DEF WaitingOn
  <2>. QED BY <1>1, <1>2, <1>3, <1>4, <1>12, <2>2 DEF SelfInv, WaiterInv
<1>13. WaitForInv(d)'
  BY <1>1, <1>2 DEF SelfInv, WaitForInv
<1>. QED BY <1>6, <1>7, <1>8, <1>9, <1>10, <1>11, <1>12, <1>13 DEF SelfInv

-----------------------------------------------------------------------------
(* The search for a deadlock: its recursive function exists, and what it   *)
(* finds are contexts that wait.                                           *)

(* One node of VisitSubgraph(), with f the visits one level down.          *)
Visit(f, d, start, edges, live, weights, maxDepth) ==
  [c \in DOMAIN edges |->
     IF c \notin live THEN {}
     ELSE IF d = maxDepth \/ start \in edges[c] THEN {c}
     ELSE {OptChangeVictimTo(weights, v, c) : v \in UNION {f[d + 1][b] : b \in edges[c]}}]

IsVisit(f, start, edges, live, weights, maxDepth) ==
  f = [d \in 1 .. maxDepth |-> Visit(f, d, start, edges, live, weights, maxDepth)]

LEMMA VisitExists ==
  ASSUME NEW start, NEW edges, NEW live, NEW weights, NEW M \in Nat \ {0}
  PROVE  \E f : IsVisit(f, start, edges, live, weights, M)
<1>. DEFINE V(f, d) == Visit(f, d, start, edges, live, weights, M)
            S == {n \in Nat : n < M => \E f : f = [d \in M - n .. M |-> V(f, d)]}
<1>1. ASSUME NEW f, NEW g, NEW d, d = M \/ f[d + 1] = g[d + 1] PROVE V(f, d) = V(g, d)
  <2>1. CASE d = M
    BY <2>1 DEF Visit
  <2>2. CASE f[d + 1] = g[d + 1]
    BY <2>2 DEF Visit
  <2>. QED BY <1>1, <2>1, <2>2
<1>. HIDE DEF V
<1>2. 0 \in S
  <2>. DEFINE g == [d \in M - 0 .. M |-> V({}, M)]
  <2>1. \A d \in M - 0 .. M : d = M
    OBVIOUS
  <2>2. \A d \in M - 0 .. M : V({}, M) = V(g, d)
    BY <1>1, <2>1
  <2>3. g = [d \in M - 0 .. M |-> V(g, d)]
    BY <2>2
  <2>. QED BY <2>3
<1>3. ASSUME NEW n \in S PROVE n + 1 \in S
  <2>. SUFFICES ASSUME n + 1 < M PROVE \E g : g = [d \in M - (n + 1) .. M |-> V(g, d)]
    OBVIOUS
  <2>1. n \in Nat /\ n < M
    OBVIOUS
  <2>2. PICK f : f = [d \in M - n .. M |-> V(f, d)]
    BY <2>1
  <2>. DEFINE D == M - (n + 1) .. M
              g == [d \in D |-> IF d = M - (n + 1) THEN V(f, d) ELSE f[d]]
  <2>3. ASSUME NEW d \in D PROVE (d = M \/ f[d + 1] = g[d + 1]) /\ g[d] = V(f, d)
    <3>1. d # M => d + 1 \in D /\ d + 1 # M - (n + 1)
      BY <2>1
    <3>2. d # M - (n + 1) => d \in M - n .. M
      BY <2>1
    <3>3. d # M - (n + 1) => f[d] = V(f, d)
      BY <2>2, <3>2
    <3>. QED BY <3>1, <3>3
  <2>. HIDE DEF D
  <2>4. \A d \in D : g[d] = V(g, d)
    BY <1>1, <2>3
  <2>5. g = [d \in D |-> V(g, d)]
    BY <2>4
  <2>. HIDE DEF g
  <2>. QED BY <2>5 DEF D
<1>4. S = Nat
  <2>. HIDE DEF S
  <2>1. S \subseteq Nat
    BY DEF S
  <2>. QED BY <1>2, <1>3, <2>1, SetInduction
<1>5. \E f : f = [d \in M - (M - 1) .. M |-> V(f, d)]
  <2>1. M - 1 \in Nat /\ M - 1 < M
    OBVIOUS
  <2>2. M - 1 \in S
    <3>. HIDE DEF S
    <3>. QED BY <1>4, <2>1
  <2>. QED BY <2>1, <2>2
<1>6. M - (M - 1) = 1
  OBVIOUS
<1>. QED BY <1>5, <1>6 DEF V, IsVisit

LEMMA VisitEquation ==
  ASSUME NEW start, NEW edges, NEW live, NEW weights, NEW M \in Nat \ {0},
         NEW d \in 1 .. M
  PROVE  LET f == VisitSubgraph(start, edges, live, weights, M)
         IN f[d] = Visit(f, d, start, edges, live, weights, M)
<1>1. \E g : IsVisit(g, start, edges, live, weights, M)
  BY VisitExists
<1>. DEFINE f == VisitSubgraph(start, edges, live, weights, M)
<1>2. f = [e \in 1 .. M |-> Visit(f, e, start, edges, live, weights, M)]
  BY <1>1 DEF VisitSubgraph, Visit, IsVisit
<1>. HIDE DEF f
<1>. QED BY <1>2 DEF f

(* A victim is a context that waits and has no answer yet.                 *)
LEMMA VictimsActive ==
  ASSUME NEW edges, NEW start \in DOMAIN edges, NEW live, NEW weights,
         NEW M \in Nat \ {0},
         \A c \in DOMAIN edges : edges[c] \subseteq DOMAIN edges
  PROVE  DeadlockVictims(start, edges, live, weights, M) \subseteq live
<1>. DEFINE f == VisitSubgraph(start, edges, live, weights, M)
            Good(d) == \A c \in DOMAIN edges : f[d][c] \subseteq live
            S == {n \in Nat : n < M => Good(M - n)}
<1>1. \A d \in 1 .. M : f[d] = Visit(f, d, start, edges, live, weights, M)
  BY VisitEquation
<1>. HIDE DEF f
<1>2. ASSUME NEW d \in 1 .. M, d = M \/ Good(d + 1) PROVE Good(d)
  <2>. SUFFICES ASSUME NEW c \in DOMAIN edges, NEW v \in f[d][c] PROVE v \in live
    OBVIOUS
  <2>1. v \in Visit(f, d, start, edges, live, weights, M)[c]
    BY <1>1
  <2>2. c \in live /\ (v = c \/ (d # M /\ \E b \in edges[c] : \E w \in f[d + 1][b] :
                                      v = OptChangeVictimTo(weights, w, c)))
    BY <2>1 DEF Visit
  <2>3. d # M => \A b \in edges[c] : f[d + 1][b] \subseteq live
    BY <1>2
  <2>. QED BY <2>2, <2>3 DEF OptChangeVictimTo
<1>. HIDE DEF Good
<1>3. 0 \in S
  BY <1>2
<1>4. ASSUME NEW n \in S PROVE n + 1 \in S
  <2>. SUFFICES ASSUME n + 1 < M PROVE Good(M - (n + 1))
    OBVIOUS
  <2>1. M - (n + 1) \in 1 .. M /\ (M - (n + 1)) + 1 = M - n /\ n < M
    OBVIOUS
  <2>. QED BY <1>2, <2>1
<1>5. S = Nat
  <2>. HIDE DEF S
  <2>1. S \subseteq Nat
    BY DEF S
  <2>. QED BY <1>3, <1>4, <2>1, SetInduction
<1>6. Good(1)
  <2>1. M - 1 \in Nat /\ M - 1 < M /\ M - (M - 1) = 1
    OBVIOUS
  <2>2. M - 1 \in S
    <3>. HIDE DEF S
    <3>. QED BY <1>5, <2>1
  <2>. QED BY <2>1, <2>2
<1>. QED BY <1>6 DEF Good, DeadlockVictims, f

-----------------------------------------------------------------------------
(* The structure of the lists is kept by every step.                       *)

LEMMA Assemble ==
  ASSUME Structure, Types', NEW c \in Contexts, Frame(c),
         \A k \in Keys : Distinct(waiting'[k]), SelfInv(c)'
  PROVE  Structure'
<1>1. \A d \in Contexts \ {c} : SelfInv(d)'
  BY FrameKeeps
<1>. QED BY <1>1 DEF Structure

(* The steps of a context that waits.                                      *)
LEMMA WaitStep ==
  ASSUME Structure, Types', NEW c \in Contexts, Queued(c), Queued(c)',
         UNCHANGED <<ticket, lock, loop, own, call>>,
         \A d \in Contexts \ {c} : pc'[d] = pc[d] /\ waiting_for'[d] = waiting_for[d],
         WaitForInv(c)',
         \A d \in Contexts : wait_status'[d] = wait_status[d]
            \/ (wait_status[d] = "EMPTY" /\ wait_status'[d] # "GRANTED")
  PROVE  Structure'
<1>. USE DEF lock, own
<1>1. Frame(c)
  BY DEF Frame, WaitingOn
<1>2. \A k \in Keys : Distinct(waiting'[k])
  BY DEF Structure
<1>3. SelfInv(c) /\ Types
  BY DEF Structure
<1>4. Held(c)' = Held(c)
  BY DEF Held
<1>5. ListsInv(c)'
  BY <1>3, <1>4 DEF SelfInv, ListsInv
<1>6. CallInv(c)'
  BY <1>3, <1>4 DEF SelfInv, CallInv, CallOK, AcquiredAfter, AtSavepoint, IsFor, Queued
<1>7. SavepointInv(c)' /\ LoopInv(c)'
  BY <1>3 DEF SelfInv, SavepointInv, LoopInv, WaitingOn, Queued
<1>8. AnswerInv(c)'
  BY <1>3 DEF SelfInv, AnswerInv, WaitingOn
<1>9. ASSUME NEW id \in TicketIds, Ctx(id) = c PROVE TicketInv(id)'
  BY <1>3, <1>9 DEF SelfInv, TicketInv
<1>10. ASSUME NEW k \in Keys, NEW id \in WaitingOn(k)', Ctx(id) = c PROVE WaiterInv(k, id)'
  <2>1. WaiterInv(k, id)
    BY <1>3, <1>10 DEF SelfInv, WaitingOn
  <2>. QED BY <1>10, <2>1 DEF WaiterInv
<1>11. SelfInv(c)'
  BY <1>5, <1>6, <1>7, <1>8, <1>9, <1>10 DEF SelfInv
<1>. QED BY <1>1, <1>2, <1>11, Assemble

(* The wait-for graph is one of contexts.                                  *)
LEMMA BlockersType ==
  ASSUME Structure, NEW b \in Contexts PROVE Blockers(b) \subseteq Contexts
<1>. SUFFICES ASSUME waiting_for[b] # None, NEW x \in Blockers(b) PROVE x \in Contexts
  BY DEF Blockers
<1>1. waiting_for[b] \in TicketIds /\ granted \subseteq TicketIds
  BY DEF Structure, Types, TypeOK
<1>. DEFINE k == ticket[waiting_for[b]].key
<1>2. \E id \in granted \cup WaitingOn(k) : x = Ctx(id)
  BY DEF Blockers, GrantedOn
<1>3. CASE \E id \in granted : x = Ctx(id)
  BY <1>1, <1>3, CtxType
<1>4. CASE \E id \in WaitingOn(k) : x = Ctx(id)
  <2>1. IsFor(waiting_for[b], call[b])
    BY DEF Structure, SelfInv, WaitForInv, CallInv, Queued
  <2>2. Types
    BY DEF Structure
  <2>3. k \in Keys
    BY <1>1, <2>1, <2>2, TypeFacts DEF IsFor, MDLTicket
  <2>. HIDE DEF k
  <2>4. WaitingOn(k) \subseteq TicketIds
    BY <2>2, <2>3, TypeFacts
  <2>. QED BY <1>4, <2>4, CtxType
<1>. QED BY <1>2, <1>3, <1>4

LEMMA SearchVictims ==
  ASSUME Structure, NEW c \in Contexts,
         NEW v \in DeadlockVictims(c, [b \in Contexts |-> Blockers(b)],
                     {b \in Contexts : waiting_for[b] # None /\ wait_status[b] = "EMPTY"},
                     [b \in Contexts |-> DeadlockWeight(b)], MaxSearchDepth)
  PROVE  v \in Contexts /\ waiting_for[v] # None
<1>. DEFINE live == {b \in Contexts : waiting_for[b] # None /\ wait_status[b] = "EMPTY"}
            edges == [b \in Contexts |-> Blockers(b)]
            weights == [b \in Contexts |-> DeadlockWeight(b)]
<1>1. \A b \in Contexts : Blockers(b) \subseteq Contexts
  BY BlockersType
<1>2. DOMAIN edges = Contexts /\ \A b \in Contexts : edges[b] = Blockers(b)
  OBVIOUS
<1>. HIDE DEF live, edges, weights
<1>3. DeadlockVictims(c, edges, live, weights, MaxSearchDepth) \subseteq live
  BY <1>1, <1>2, BoundsAssumption, VictimsActive
<1>. QED BY <1>3 DEF live, edges, weights

LEMMA WaitForTicket ==
  ASSUME Structure, NEW c \in Contexts, Queued(c)
  PROVE  call[c].mine \in TicketIds /\ ticket[call[c].mine] \in MDLTicket
<1>1. Types /\ IsFor(call[c].mine, call[c])
  BY DEF Structure, SelfInv, CallInv
<1>. QED BY <1>1, TypeFacts DEF IsFor

LEMMA WillWaitForStep ==
  ASSUME Structure, NEW c \in Contexts, WillWaitFor(c) PROVE Structure'
<1>. USE DEF WillWaitFor, At, Goto
<1>1. Types /\ call[c].mine \in TicketIds
  BY WaitForTicket DEF Structure, Queued
<1>2. Types'
  BY <1>1 DEF Types, TypeOK, lock, own, Labels
<1>3. Queued(c) /\ Queued(c)' /\ WaitForInv(c)'
  BY <1>1 DEF Queued, WaitForInv, Types, TypeOK
<1>4. \A d \in Contexts \ {c} : pc'[d] = pc[d] /\ waiting_for'[d] = waiting_for[d]
  BY <1>1 DEF Types, TypeOK
<1>. QED BY <1>2, <1>3, <1>4, WaitStep

LEMMA SearchStep ==
  ASSUME Structure, NEW c \in Contexts, Search(c) PROVE Structure'
<1>. USE DEF Search, At, Goto
<1>1. Types
  BY DEF Structure
<1>2. /\ UNCHANGED <<ticket, lock, loop, own, wait_status, waiting_for, call>>
      /\ pc[c] = "search"
      /\ \/ pc' = [pc EXCEPT ![c] = "wait"] /\ victim' = victim
         \/ \E v \in Contexts : victim' = [victim EXCEPT ![c] = v]
                                 /\ pc' = [pc EXCEPT ![c] = "victim"]
  BY SearchVictims
<1>. HIDE DEF Search
<1>3. Types'
  <2>1. victim \in [Contexts -> Contexts \cup {None}] /\ pc \in [Contexts -> Labels]
    BY <1>1 DEF Types, TypeOK
  <2>2. CASE pc' = [pc EXCEPT ![c] = "wait"] /\ victim' = victim
    BY <1>1, <1>2, <2>2 DEF Types, TypeOK, lock, own, Labels
  <2>3. CASE \E v \in Contexts : victim' = [victim EXCEPT ![c] = v]
                                  /\ pc' = [pc EXCEPT ![c] = "victim"]
    <3>1. victim' \in [Contexts -> Contexts \cup {None}] /\ pc' \in [Contexts -> Labels]
      BY <2>1, <2>3 DEF Labels
    <3>. QED BY <1>1, <1>2, <3>1 DEF Types, TypeOK, lock, own
  <2>. QED BY <1>2, <2>2, <2>3
<1>4. pc[c] = "search" /\ pc'[c] \in {"wait", "victim"}
      /\ \A d \in Contexts \ {c} : pc'[d] = pc[d]
  BY <1>1, <1>2 DEF Types, TypeOK
<1>5. WaitForInv(c)
  BY DEF Structure, SelfInv
<1>6. Queued(c) /\ Queued(c)' /\ WaitForInv(c)'
  BY <1>2, <1>4, <1>5 DEF Queued, WaitForInv
<1>. QED BY <1>2, <1>3, <1>4, <1>6, WaitStep

LEMMA SetVictimStep ==
  ASSUME Structure, NEW c \in Contexts, SetVictim(c) PROVE Structure'
<1>. USE DEF SetVictim, At, Goto
<1>1. Types
  BY DEF Structure
<1>2. wait_status' \in [Contexts -> WaitStatuses]
  BY <1>1 DEF Types, TypeOK, SetStatus, WaitStatuses
<1>3. \A d \in Contexts : wait_status'[d] = wait_status[d]
            \/ (wait_status[d] = "EMPTY" /\ wait_status'[d] # "GRANTED")
  BY DEF SetStatus
<1>4. Types'
  BY <1>1, <1>2 DEF Types, TypeOK, lock, own, Labels
<1>5. pc[c] = "victim" /\ pc'[c] \in {"wait", "search"}
      /\ \A d \in Contexts \ {c} : pc'[d] = pc[d]
  BY <1>1 DEF Types, TypeOK
<1>6. WaitForInv(c)
  BY DEF Structure, SelfInv
<1>7. Queued(c) /\ Queued(c)' /\ WaitForInv(c)'
  BY <1>5, <1>6 DEF Queued, WaitForInv
<1>. QED BY <1>3, <1>4, <1>5, <1>7, WaitStep

LEMMA InterruptWaitStep ==
  ASSUME Structure, NEW c \in Contexts, NEW status \in Interrupts, InterruptWait(c, status)
  PROVE  Structure'
<1>. USE DEF InterruptWait, At
<1>1. Types /\ status \in {"TIMEOUT", "KILLED"}
  BY RequestsAssumption DEF Structure
<1>2. \A d \in Contexts : wait_status'[d] = wait_status[d]
            \/ (wait_status[d] = "EMPTY" /\ wait_status'[d] # "GRANTED")
  BY <1>1 DEF Types, TypeOK
<1>3. Types'
  BY <1>1 DEF Types, TypeOK, lock, own, WaitStatuses
<1>4. WaitForInv(c)
  BY DEF Structure, SelfInv
<1>5. Queued(c) /\ Queued(c)' /\ WaitForInv(c)'
  BY <1>4 DEF Queued, WaitForInv
<1>. QED BY <1>2, <1>3, <1>5, WaitStep

LEMMA DoneWaitingForStep ==
  ASSUME Structure, NEW c \in Contexts, DoneWaitingFor(c) PROVE Structure'
<1>. USE DEF DoneWaitingFor, At, Goto
<1>1. Types
  BY DEF Structure
<1>2. Types'
  BY <1>1 DEF Types, TypeOK, lock, own, Labels
<1>3. Queued(c) /\ Queued(c)' /\ WaitForInv(c)'
  BY <1>1 DEF Queued, WaitForInv, Types, TypeOK
<1>4. \A d \in Contexts \ {c} : pc'[d] = pc[d] /\ waiting_for'[d] = waiting_for[d]
  BY <1>1 DEF Types, TypeOK
<1>. QED BY <1>2, <1>3, <1>4, WaitStep

(* The tickets release_locks_stored_before() visits.                       *)
LEMMA StoredBeforeFacts ==
  ASSUME NEW S, NEW s \in Seq(S), NEW e
  PROVE  /\ StoredBefore(s, e) \in Seq(S)
         /\ ToSet(StoredBefore(s, e)) \subseteq ToSet(s)
         /\ Distinct(s) => Distinct(StoredBefore(s, e)) /\ e \notin ToSet(StoredBefore(s, e))
         /\ \A j \in 1 .. Len(s) :
              Distinct(s) /\ s[j] = e => ToSet(StoredBefore(s, e)) = {s[i] : i \in 1 .. j - 1}
<1>1. CASE e \notin ToSet(s)
  <2>1. \A j \in 1 .. Len(s) : s[j] # e
    BY <1>1, ToSetFacts
  <2>. QED BY <1>1, <2>1 DEF StoredBefore
<1>2. CASE e \in ToSet(s)
  <2>. DEFINE n == SelectInSeq(s, LAMBDA id : id = e)
  <2>1. n \in 1 .. Len(s) /\ s[n] = e
    BY <1>2, FirstFacts
  <2>2. StoredBefore(s, e) = SubSeq(s, 1, n - 1)
    BY <1>2 DEF StoredBefore
  <2>. HIDE DEF n
  <2>3. Len(s) \in Nat /\ n - 1 \in 0 .. Len(s)
    BY <2>1, LenProperties
  <2>. DEFINE p == SubSeq(s, 1, n - 1)
  <2>4. p \in Seq(S) /\ ToSet(p) = {s[i] : i \in 1 .. n - 1} /\ (Distinct(s) => Distinct(p))
    BY <2>3, PrefixFacts
  <2>. HIDE DEF p
  <2>5. ToSet(s) = {s[i] : i \in 1 .. Len(s)}
    BY ToSetFacts
  <2>6. ToSet(p) \subseteq ToSet(s)
    BY <2>1, <2>3, <2>4, <2>5
  <2>7. Distinct(s) => e \notin ToSet(p)
    <3>1. \A i \in 1 .. n - 1 : i \in 1 .. Len(s) /\ i # n
      BY <2>1, <2>3
    <3>. QED BY <2>1, <2>4, <3>1 DEF Distinct
  <2>8. \A j \in 1 .. Len(s) : Distinct(s) /\ s[j] = e => j = n
    BY <2>1 DEF Distinct
  <2>9. \A j \in 1 .. Len(s) :
          Distinct(s) /\ s[j] = e => ToSet(p) = {s[i] : i \in 1 .. j - 1}
    BY <2>4, <2>8
  <2>. QED BY <2>2, <2>4, <2>6, <2>7, <2>9 DEF p
<1>. QED BY <1>1, <1>2

LEMMA SingleFacts ==
  ASSUME NEW S, NEW e \in S
  PROVE  <<e>> \in Seq(S) /\ ToSet(<<e>>) = {e} /\ Distinct(<<e>>)
<1>. DEFINE s == <<e>>
<1>1. s \in Seq(S) /\ Len(s) = 1 /\ s[1] = e
  OBVIOUS
<1>. HIDE DEF s
<1>2. ToSet(s) = {s[i] : i \in 1 .. Len(s)}
  BY <1>1, ToSetFacts
<1>3. Distinct(s)
  BY <1>1 DEF Distinct
<1>. QED BY <1>1, <1>2, <1>3 DEF s

(* rollback_to_savepoint() releases tickets of c, each once.               *)
LEMMA AcquiredAfterFacts ==
  ASSUME Structure, NEW c \in Contexts, NEW svp
  PROVE  /\ AcquiredAfter(c, svp) \in Seq(TicketIds)
         /\ ToSet(AcquiredAfter(c, svp)) \subseteq Held(c)
         /\ Distinct(AcquiredAfter(c, svp))
         /\ svp.transaction \in ToSet(m_tickets[c]["transaction"]) =>
              svp.transaction \notin ToSet(AcquiredAfter(c, svp))
<1>1. Types /\ ListsInv(c)
  BY DEF Structure, SelfInv
<1>. DEFINE s == m_tickets[c]["statement"]
            t == m_tickets[c]["transaction"]
            a == StoredBefore(s, svp.statement)
            b == StoredBefore(t, svp.transaction)
<1>2. "statement" \in Durations /\ "transaction" \in Durations
  BY DEF Durations
<1>3. s \in Seq(TicketIds) /\ t \in Seq(TicketIds)
  BY <1>1, <1>2, TypeFacts
<1>4. Distinct(s) /\ Distinct(t) /\ ToSet(s) \cap ToSet(t) = {}
  BY <1>1, <1>2 DEF ListsInv
<1>5. ToSet(s) \subseteq Held(c) /\ ToSet(t) \subseteq Held(c)
  BY <1>2, HeldDef
<1>. HIDE DEF s, t
<1>6. a \in Seq(TicketIds) /\ ToSet(a) \subseteq ToSet(s) /\ Distinct(a)
  BY <1>3, <1>4, StoredBeforeFacts
<1>7. b \in Seq(TicketIds) /\ ToSet(b) \subseteq ToSet(t) /\ Distinct(b)
      /\ svp.transaction \notin ToSet(b)
  BY <1>3, <1>4, StoredBeforeFacts
<1>. HIDE DEF a, b
<1>8. ToSet(a) \cap ToSet(b) = {}
  BY <1>4, <1>6, <1>7
<1>9. a \o b \in Seq(TicketIds) /\ ToSet(a \o b) = ToSet(a) \cup ToSet(b) /\ Distinct(a \o b)
  BY <1>6, <1>7, <1>8, ConcatFacts
<1>10. svp.transaction \in ToSet(t) => svp.transaction \notin ToSet(a)
  BY <1>4, <1>6
<1>11. AcquiredAfter(c, svp) = a \o b
  BY DEF AcquiredAfter, a, b, s, t
<1>. QED BY <1>5, <1>6, <1>7, <1>9, <1>10, <1>11 DEF t

(* A savepoint just taken: there is nothing to release.                    *)
LEMMA NothingAcquired ==
  ASSUME Structure, NEW c \in Contexts
  PROVE  ToSet(AcquiredAfter(c, MDLSavepoint(c))) = {}
<1>. DEFINE s == m_tickets[c]["statement"]
            t == m_tickets[c]["transaction"]
<1>1. /\ s \in Seq(TicketIds) /\ Distinct(s)
      /\ t \in Seq(TicketIds) /\ Distinct(t)
  <2>1. Types /\ ListsInv(c) /\ "statement" \in Durations /\ "transaction" \in Durations
    BY DEF Structure, SelfInv, Durations
  <2>. QED BY <2>1, TypeFacts DEF ListsInv
<1>. HIDE DEF s, t
<1>2. ASSUME NEW u \in Seq(TicketIds), Distinct(u)
      PROVE  /\ StoredBefore(u, FrontOf(u)) \in Seq(TicketIds)
             /\ ToSet(StoredBefore(u, FrontOf(u))) = {}
  <2>1. PICK f : f = FrontOf(u)
    OBVIOUS
  <2>2. CASE u = <<>>
    <3>1. ToSet(StoredBefore(u, f)) \subseteq ToSet(u) /\ StoredBefore(u, f) \in Seq(TicketIds)
      BY StoredBeforeFacts
    <3>. QED BY <2>1, <2>2, <3>1, EmptyFacts
  <2>3. CASE u # <<>>
    <3>1. 1 \in 1 .. Len(u) /\ u[1] = f
      BY <2>1, <2>3 DEF FrontOf
    <3>2. ToSet(StoredBefore(u, f)) = {u[i] : i \in 1 .. 1 - 1}
      BY <1>2, <3>1, StoredBeforeFacts
    <3>3. 1 .. 1 - 1 = {}
      OBVIOUS
    <3>. QED BY <2>1, <3>2, <3>3, StoredBeforeFacts
  <2>. QED BY <2>2, <2>3
<1>. DEFINE a == StoredBefore(s, FrontOf(s))
            b == StoredBefore(t, FrontOf(t))
<1>3. a \in Seq(TicketIds) /\ ToSet(a) = {} /\ b \in Seq(TicketIds) /\ ToSet(b) = {}
  BY <1>1, <1>2
<1>. HIDE DEF a, b
<1>4. ToSet(a \o b) = ToSet(a) \cup ToSet(b)
  BY <1>3, ConcatFacts
<1>5. AcquiredAfter(c, MDLSavepoint(c)) = a \o b
  BY DEF AcquiredAfter, MDLSavepoint, a, b, s, t
<1>. QED BY <1>3, <1>4, <1>5

(* A ticket added to a list comes before the sentinel.                     *)
LEMMA PushStored ==
  ASSUME NEW S, NEW s \in Seq(S), Distinct(s), NEW id \in S, id \notin ToSet(s), NEW m
  PROVE  /\ <<id>> \o s \in Seq(S)
         /\ ToSet(StoredBefore(<<id>> \o s, m)) \subseteq ToSet(StoredBefore(s, m)) \cup {id}
         /\ m # id => ToSet(StoredBefore(<<id>> \o s, m)) = ToSet(StoredBefore(s, m)) \cup {id}
<1>. DEFINE l == <<id>> \o s
<1>1. l \in Seq(S) /\ ToSet(l) = ToSet(s) \cup {id} /\ Distinct(l)
  BY PushFacts
<1>2. Len(l) = Len(s) + 1 /\ l[1] = id /\ \A i \in 1 .. Len(s) : l[i + 1] = s[i]
  OBVIOUS
<1>. HIDE DEF l
<1>3. CASE m \notin ToSet(s) /\ m # id
  <2>1. StoredBefore(s, m) = s /\ StoredBefore(l, m) = l
    BY <1>1, <1>3 DEF StoredBefore
  <2>. QED BY <1>1, <2>1 DEF l
<1>4. CASE m = id
  <2>1. StoredBefore(s, m) = s
    BY <1>4 DEF StoredBefore
  <2>2. ToSet(StoredBefore(l, m)) \subseteq ToSet(l)
    BY <1>1, StoredBeforeFacts
  <2>. QED BY <1>1, <1>4, <2>1, <2>2 DEF l
<1>5. CASE m \in ToSet(s)
  <2>1. PICK j \in 1 .. Len(s) : s[j] = m
    BY <1>5, ToSetFacts
  <2>2. Len(s) \in Nat /\ j + 1 \in 1 .. Len(l) /\ l[j + 1] = m
    BY <1>2, <2>1, LenProperties
  <2>3. /\ ToSet(StoredBefore(s, m)) = {s[i] : i \in 1 .. j - 1}
        /\ ToSet(StoredBefore(l, m)) = {l[i] : i \in 1 .. (j + 1) - 1}
    BY <1>1, <2>1, <2>2, StoredBeforeFacts
  <2>4. {l[i] : i \in 1 .. (j + 1) - 1} = {s[i] : i \in 1 .. j - 1} \cup {id}
    <3>1. ASSUME NEW i \in 1 .. (j + 1) - 1
          PROVE  l[i] = id \/ \E n \in 1 .. j - 1 : l[i] = s[n]
      <4>1. CASE i = 1
        BY <1>2, <4>1
      <4>2. CASE i # 1
        <5>1. i - 1 \in 1 .. j - 1 /\ i - 1 \in 1 .. Len(s) /\ (i - 1) + 1 = i
          BY <2>2, <4>2
        <5>2. l[(i - 1) + 1] = s[i - 1]
          BY <1>2, <5>1
        <5>. QED BY <5>1, <5>2
      <4>. QED BY <4>1, <4>2
    <3>2. 1 \in 1 .. (j + 1) - 1
      BY <2>2
    <3>3. ASSUME NEW n \in 1 .. j - 1
          PROVE  \E i \in 1 .. (j + 1) - 1 : l[i] = s[n]
      <4>1. n \in 1 .. Len(s) /\ n + 1 \in 1 .. (j + 1) - 1
        BY <2>1, <2>2
      <4>2. l[n + 1] = s[n]
        BY <1>2, <4>1
      <4>. QED BY <4>1, <4>2
    <3>4. {l[i] : i \in 1 .. (j + 1) - 1} \subseteq {s[i] : i \in 1 .. j - 1} \cup {id}
      BY <3>1
    <3>5. {s[i] : i \in 1 .. j - 1} \subseteq {l[i] : i \in 1 .. (j + 1) - 1}
      BY <3>3
    <3>. QED BY <1>2, <3>2, <3>4, <3>5
  <2>. QED BY <1>1, <2>3, <2>4 DEF l
<1>. QED BY <1>1, <1>3, <1>4, <1>5 DEF l

(* What a rollback would release when a ticket is added.                   *)
LEMMA PushAcquired ==
  ASSUME Structure, NEW c \in Contexts, NEW e \in Durations, NEW id \in TicketIds,
         id \notin Held(c), PushFront(c, e, id), NEW svp
  PROVE  /\ ToSet(AcquiredAfter(c, svp)') \subseteq ToSet(AcquiredAfter(c, svp)) \cup {id}
         /\ e # "explicit" /\ svp.statement # id /\ svp.transaction # id =>
              ToSet(AcquiredAfter(c, svp)') = ToSet(AcquiredAfter(c, svp)) \cup {id}
<1>. DEFINE s == m_tickets[c]["statement"]
            t == m_tickets[c]["transaction"]
<1>1. /\ m_tickets \in [Contexts -> [Durations -> Seq(TicketIds)]] /\ ListsInv(c)
      /\ "statement" \in Durations /\ "transaction" \in Durations
  BY DEF Structure, Types, TypeOK, SelfInv, Durations
<1>2. s \in Seq(TicketIds) /\ Distinct(s) /\ t \in Seq(TicketIds) /\ Distinct(t)
  BY <1>1 DEF ListsInv
<1>3. id \notin ToSet(s) /\ id \notin ToSet(t)
  BY <1>1, HeldDef
<1>4. /\ m_tickets'[c]["statement"] = IF e = "statement" THEN <<id>> \o s ELSE s
      /\ m_tickets'[c]["transaction"] = IF e = "transaction" THEN <<id>> \o t ELSE t
  BY <1>1 DEF PushFront
<1>. HIDE DEF s, t
<1>. DEFINE a == StoredBefore(s, svp.statement)
            b == StoredBefore(t, svp.transaction)
            a2 == StoredBefore(<<id>> \o s, svp.statement)
            b2 == StoredBefore(<<id>> \o t, svp.transaction)
<1>5. /\ a \in Seq(TicketIds) /\ a2 \in Seq(TicketIds)
      /\ ToSet(a2) \subseteq ToSet(a) \cup {id}
      /\ svp.statement # id => ToSet(a2) = ToSet(a) \cup {id}
  <2>1. <<id>> \o s \in Seq(TicketIds)
    BY <1>2, <1>3, PushStored
  <2>2. a \in Seq(TicketIds) /\ a2 \in Seq(TicketIds)
    BY <1>2, <2>1, StoredBeforeFacts
  <2>. QED BY <1>2, <1>3, <2>2, PushStored
<1>6. /\ b \in Seq(TicketIds) /\ b2 \in Seq(TicketIds)
      /\ ToSet(b2) \subseteq ToSet(b) \cup {id}
      /\ svp.transaction # id => ToSet(b2) = ToSet(b) \cup {id}
  <2>1. <<id>> \o t \in Seq(TicketIds)
    BY <1>2, <1>3, PushStored
  <2>2. b \in Seq(TicketIds) /\ b2 \in Seq(TicketIds)
    BY <1>2, <2>1, StoredBeforeFacts
  <2>. QED BY <1>2, <1>3, <2>2, PushStored
<1>7. /\ AcquiredAfter(c, svp) = a \o b
      /\ AcquiredAfter(c, svp)' = (IF e = "statement" THEN a2 ELSE a)
                                     \o (IF e = "transaction" THEN b2 ELSE b)
  BY <1>4 DEF AcquiredAfter, a, b, a2, b2, s, t
<1>. HIDE DEF a, b, a2, b2
<1>8. /\ ToSet(a \o b) = ToSet(a) \cup ToSet(b)
      /\ ToSet(a2 \o b) = ToSet(a2) \cup ToSet(b)
      /\ ToSet(a \o b2) = ToSet(a) \cup ToSet(b2)
  BY <1>5, <1>6, ConcatFacts
<1>9. CASE e = "statement"
  BY <1>5, <1>7, <1>8, <1>9
<1>10. CASE e = "transaction"
  BY <1>6, <1>7, <1>8, <1>10
<1>11. CASE e = "explicit"
  BY <1>7, <1>11
<1>. QED BY <1>9, <1>10, <1>11 DEF Durations

(* A step that only changes the lists of c or what it is to release.       *)
LEMMA OwnStep ==
  ASSUME Structure, Types', NEW c \in Contexts, pc[c] = "run",
         UNCHANGED <<ticket, lock, loop, graph, call, pc>>,
         \A d \in Contexts \ {c} : /\ m_tickets'[d] = m_tickets[d]
                                   /\ savepoint'[d] = savepoint[d]
                                   /\ release'[d] = release[d],
         Held(c)' = Held(c),
         \A d \in Durations : Distinct(m_tickets'[c][d]),
         \A d, e \in Durations :
           d # e => ToSet(m_tickets'[c][d]) \cap ToSet(m_tickets'[c][e]) = {},
         Distinct(release'[c]), ToSet(release'[c]) \subseteq Held(c),
         SavepointInv(c)'
  PROVE  Structure'
<1>. USE DEF lock, graph
<1>1. Frame(c)
  BY DEF Frame, WaitingOn
<1>2. \A k \in Keys : Distinct(waiting'[k])
  BY DEF Structure
<1>3. SelfInv(c) /\ Types
  BY DEF Structure
<1>4. ~Queued(c) /\ ~Queued(c)' /\ call[c] = NoCall
  BY <1>3 DEF Queued, SelfInv, CallInv
<1>5. ListsInv(c)'
  BY <1>3, <1>4 DEF SelfInv, ListsInv
<1>6. CallInv(c)'
  BY <1>4 DEF CallInv, AtSavepoint, NoCall
<1>7. LoopInv(c)' /\ AnswerInv(c)' /\ WaitForInv(c)'
  BY <1>3, <1>4 DEF SelfInv, WaitForInv, LoopInv, AnswerInv
<1>8. ASSUME NEW id \in TicketIds, Ctx(id) = c PROVE TicketInv(id)'
  BY <1>3, <1>8 DEF SelfInv, TicketInv
<1>9. ASSUME NEW k \in Keys, NEW id \in WaitingOn(k)', Ctx(id) = c PROVE WaiterInv(k, id)'
  BY <1>3, <1>4, <1>9 DEF SelfInv, WaitingOn, WaiterInv
<1>10. SelfInv(c)'
  BY <1>5, <1>6, <1>7, <1>8, <1>9 DEF SelfInv
<1>. QED BY <1>1, <1>2, <1>10, Assemble

LEMMA StartReleaseStep ==
  ASSUME Structure, NEW c \in Contexts, NEW list \in Seq(TicketIds),
         Idle(c), StartRelease(c, list), Distinct(list), ToSet(list) \subseteq Held(c),
         \/ /\ savepoint' = savepoint
            /\ savepoint[c] # None => savepoint[c].transaction \notin ToSet(list)
         \/ savepoint' = [savepoint EXCEPT ![c] = None]
  PROVE  Structure'
<1>. USE DEF Idle, At, StartRelease
<1>1. Types /\ SavepointInv(c) /\ ListsInv(c)
  BY DEF Structure, SelfInv
<1>2. release'[c] = list /\ release' \in [Contexts -> Seq(TicketIds)]
      /\ \A d \in Contexts \ {c} : release'[d] = release[d]
  BY <1>1 DEF Types, TypeOK
<1>3. /\ savepoint' \in [Contexts -> MDLSavepoints \cup {None}]
      /\ \A d \in Contexts \ {c} : savepoint'[d] = savepoint[d]
      /\ \/ savepoint'[c] = None
         \/ savepoint'[c] = savepoint[c]
            /\ (savepoint[c] # None => savepoint[c].transaction \notin ToSet(list))
  BY <1>1 DEF Types
<1>4. Types'
  BY <1>1, <1>2, <1>3 DEF Types, TypeOK, lock, graph
<1>5. SavepointInv(c)'
  BY <1>1, <1>2, <1>3 DEF SavepointInv
<1>6. Held(c)' = Held(c)
  BY DEF Held
<1>. QED BY <1>1, <1>2, <1>3, <1>4, <1>5, <1>6, OwnStep DEF ListsInv

LEMMA OneListFacts ==
  ASSUME Structure, NEW c \in Contexts
  PROVE  /\ m_tickets[c]["statement"] \in Seq(TicketIds)
         /\ m_tickets[c]["transaction"] \in Seq(TicketIds)
         /\ m_tickets[c]["explicit"] \in Seq(TicketIds)
         /\ Distinct(m_tickets[c]["statement"]) /\ Distinct(m_tickets[c]["transaction"])
         /\ Distinct(m_tickets[c]["explicit"])
         /\ ToSet(m_tickets[c]["statement"]) \cap ToSet(m_tickets[c]["transaction"]) = {}
         /\ ToSet(m_tickets[c]["statement"]) \cap ToSet(m_tickets[c]["explicit"]) = {}
         /\ ToSet(m_tickets[c]["transaction"]) \cap ToSet(m_tickets[c]["explicit"]) = {}
         /\ Held(c) = ToSet(m_tickets[c]["statement"]) \cup ToSet(m_tickets[c]["transaction"])
                        \cup ToSet(m_tickets[c]["explicit"])
         /\ Held(c) \subseteq TicketIds
<1>1. Types /\ ListsInv(c)
  BY DEF Structure, SelfInv
<1>2. "statement" \in Durations /\ "transaction" \in Durations /\ "explicit" \in Durations
  BY DEF Durations
<1>3. \A d \in Durations : d = "statement" \/ d = "transaction" \/ d = "explicit"
  BY DEF Durations
<1>4. Held(c) = ToSet(m_tickets[c]["statement"]) \cup ToSet(m_tickets[c]["transaction"])
                  \cup ToSet(m_tickets[c]["explicit"])
  BY <1>2, <1>3, HeldDef
<1>5. Held(c) \subseteq TicketIds /\ \A d \in Durations : m_tickets[c][d] \in Seq(TicketIds)
  BY <1>1, TypeFacts
<1>. QED BY <1>1, <1>2, <1>4, <1>5 DEF ListsInv

LEMMA ReleaseLockStep ==
  ASSUME Structure, NEW c \in Contexts, NEW id, ReleaseLock(c, id) PROVE Structure'
<1>1. id \in ToSet(m_tickets[c]["explicit"]) /\ Idle(c) /\ StartRelease(c, <<id>>)
      /\ savepoint' = savepoint
  BY DEF ReleaseLock
<1>2. id \in TicketIds /\ id \in Held(c) /\ id \notin ToSet(m_tickets[c]["transaction"])
  BY <1>1, OneListFacts
<1>. DEFINE list == <<id>>
<1>3. list \in Seq(TicketIds) /\ ToSet(list) = {id} /\ Distinct(list)
  BY <1>2, SingleFacts
<1>4. StartRelease(c, list)
  BY <1>1
<1>. HIDE DEF list
<1>5. SavepointInv(c) /\ Types
  BY DEF Structure, SelfInv
<1>6. savepoint[c] # None => savepoint[c].transaction \notin ToSet(list)
  <2>1. id # None
    BY <1>2, NoneAssumption
  <2>. QED BY <1>2, <1>3, <1>5, <2>1 DEF SavepointInv
<1>. QED BY <1>1, <1>2, <1>3, <1>4, <1>6, StartReleaseStep

LEMMA ReleaseAllLocksForNameStep ==
  ASSUME Structure, NEW c \in Contexts, NEW k, ReleaseAllLocksForName(c, k) PROVE Structure'
<1>. DEFINE s == m_tickets[c]["explicit"]
            P == {i \in DOMAIN s : ticket[s[i]].key = k}
            list == Sublist(s, P)
<1>1. Idle(c) /\ StartRelease(c, list) /\ savepoint' = savepoint
  BY DEF ReleaseAllLocksForName
<1>2. s \in Seq(TicketIds) /\ Distinct(s) /\ P \subseteq DOMAIN s
  BY OneListFacts
<1>3. ToSet(s) \subseteq Held(c) /\ ToSet(m_tickets[c]["transaction"]) \cap ToSet(s) = {}
  BY OneListFacts
<1>. HIDE DEF s, P
<1>4. list \in Seq(TicketIds) /\ Distinct(list) /\ ToSet(list) = {s[i] : i \in P}
  BY <1>2, SublistFacts
<1>. HIDE DEF list
<1>5. ToSet(list) \subseteq ToSet(s)
  BY <1>2, <1>4 DEF ToSet
<1>6. SavepointInv(c) /\ ToSet(s) \subseteq TicketIds
  BY <1>2, ToSetFacts DEF Structure, SelfInv
<1>7. savepoint[c] # None => savepoint[c].transaction \notin ToSet(list)
  BY <1>3, <1>5, <1>6, NoneAssumption DEF SavepointInv
<1>. QED BY <1>1, <1>3, <1>4, <1>5, <1>7, StartReleaseStep

LEMMA ReleaseStatementLocksStep ==
  ASSUME Structure, NEW c \in Contexts, ReleaseStatementLocks(c) PROVE Structure'
<1>. DEFINE s == m_tickets[c]["statement"]
<1>1. Idle(c) /\ StartRelease(c, s) /\ savepoint' = savepoint
  BY DEF ReleaseStatementLocks
<1>2. s \in Seq(TicketIds) /\ Distinct(s) /\ ToSet(s) \subseteq Held(c)
      /\ ToSet(s) \cap ToSet(m_tickets[c]["transaction"]) = {}
  BY OneListFacts
<1>. HIDE DEF s
<1>3. SavepointInv(c) /\ ToSet(s) \subseteq TicketIds
  BY <1>2, ToSetFacts DEF Structure, SelfInv
<1>4. savepoint[c] # None => savepoint[c].transaction \notin ToSet(s)
  BY <1>2, <1>3, NoneAssumption DEF SavepointInv
<1>. QED BY <1>1, <1>2, <1>4, StartReleaseStep

LEMMA ReleaseTransactionalLocksStep ==
  ASSUME Structure, NEW c \in Contexts, ReleaseTransactionalLocks(c) PROVE Structure'
<1>. DEFINE s == m_tickets[c]["statement"]
            t == m_tickets[c]["transaction"]
            list == s \o t
<1>1. Idle(c) /\ StartRelease(c, list) /\ savepoint' = [savepoint EXCEPT ![c] = None]
  BY DEF ReleaseTransactionalLocks
<1>2. /\ s \in Seq(TicketIds) /\ Distinct(s) /\ ToSet(s) \subseteq Held(c)
      /\ t \in Seq(TicketIds) /\ Distinct(t) /\ ToSet(t) \subseteq Held(c)
      /\ ToSet(s) \cap ToSet(t) = {}
  BY OneListFacts
<1>. HIDE DEF s, t
<1>3. list \in Seq(TicketIds) /\ Distinct(list) /\ ToSet(list) = ToSet(s) \cup ToSet(t)
  BY <1>2, ConcatFacts
<1>. HIDE DEF list
<1>. QED BY <1>1, <1>2, <1>3, StartReleaseStep

LEMMA RollbackToSavepointStep ==
  ASSUME Structure, NEW c \in Contexts, RollbackToSavepoint(c) PROVE Structure'
<1>. DEFINE list == AcquiredAfter(c, savepoint[c])
<1>1. Idle(c) /\ StartRelease(c, list) /\ savepoint' = savepoint /\ savepoint[c] # None
  BY DEF RollbackToSavepoint
<1>2. /\ list \in Seq(TicketIds) /\ Distinct(list) /\ ToSet(list) \subseteq Held(c)
      /\ savepoint[c].transaction \in ToSet(m_tickets[c]["transaction"]) =>
           savepoint[c].transaction \notin ToSet(list)
  BY AcquiredAfterFacts
<1>. HIDE DEF list
<1>3. SavepointInv(c) /\ Held(c) \subseteq TicketIds
  BY OneListFacts DEF Structure, SelfInv
<1>4. savepoint[c].transaction \notin ToSet(list)
  BY <1>1, <1>2, <1>3, NoneAssumption DEF SavepointInv
<1>. QED BY <1>1, <1>2, <1>4, StartReleaseStep

LEMMA MDLSavepointType ==
  ASSUME Structure, NEW c \in Contexts
  PROVE  /\ MDLSavepoint(c) \in MDLSavepoints
         /\ MDLSavepoint(c) # None
         /\ \A list \in {m_tickets[c]["statement"], m_tickets[c]["transaction"]} :
              FrontOf(list) # None => list # <<>> /\ FrontOf(list) \in ToSet(list)
<1>1. ASSUME NEW s \in Seq(TicketIds)
      PROVE  FrontOf(s) \in TicketIds \cup {None}
             /\ (FrontOf(s) # None => s # <<>> /\ FrontOf(s) \in ToSet(s))
  BY TailFacts DEF FrontOf
<1>2. MDLSavepoint(c) \in MDLSavepoints
  BY <1>1, OneListFacts DEF MDLSavepoint, MDLSavepoints
<1>. QED BY <1>1, <1>2, OneListFacts, NoneAssumption

LEMMA SetSavepointStep ==
  ASSUME Structure, NEW c \in Contexts, SetSavepoint(c) PROVE Structure'
<1>. USE DEF Idle, At
<1>1. /\ pc[c] = "run" /\ release[c] = <<>> /\ m_tickets[c]["statement"] = <<>>
      /\ savepoint' = [savepoint EXCEPT ![c] = MDLSavepoint(c)]
      /\ UNCHANGED <<ticket, lock, loop, m_tickets, release, graph, call, pc>>
  BY DEF SetSavepoint
<1>2. Types /\ ListsInv(c)
  BY DEF Structure, SelfInv
<1>3. /\ savepoint' \in [Contexts -> MDLSavepoints \cup {None}]
      /\ \A d \in Contexts \ {c} : savepoint'[d] = savepoint[d]
      /\ savepoint'[c] = MDLSavepoint(c)
  BY <1>1, <1>2, MDLSavepointType DEF Types
<1>4. Types'
  BY <1>1, <1>2, <1>3 DEF Types, TypeOK, lock, graph
<1>5. SavepointInv(c)'
  <2>1. MDLSavepoint(c).statement = None
    BY <1>1 DEF MDLSavepoint, FrontOf
  <2>2. MDLSavepoint(c).transaction = FrontOf(m_tickets[c]["transaction"])
    BY DEF MDLSavepoint
  <2>3. MDLSavepoint(c).transaction # None =>
          MDLSavepoint(c).transaction \in ToSet(m_tickets[c]["transaction"])
    BY <2>2, MDLSavepointType
  <2>. QED BY <1>1, <1>3, <2>1, <2>3, EmptyFacts DEF SavepointInv
<1>6. Held(c)' = Held(c)
  BY <1>1 DEF Held
<1>. QED BY <1>1, <1>2, <1>3, <1>4, <1>5, <1>6, OwnStep DEF ListsInv

(* The tickets of c are moved from one list to another.                    *)
LEMMA SetTicketsStep ==
  ASSUME Structure, NEW c \in Contexts, NEW lists, Idle(c), SetTickets(c, lists),
         lists \in [Durations -> Seq(TicketIds)],
         \A d \in Durations : Distinct(lists[d]),
         ToSet(lists["statement"]) \cap ToSet(lists["transaction"]) = {},
         ToSet(lists["statement"]) \cap ToSet(lists["explicit"]) = {},
         ToSet(lists["transaction"]) \cap ToSet(lists["explicit"]) = {},
         Held(c) = ToSet(lists["statement"]) \cup ToSet(lists["transaction"])
                     \cup ToSet(lists["explicit"]),
         savepoint[c] # None /\ savepoint[c].transaction # None =>
           savepoint[c].transaction \in ToSet(lists["transaction"])
  PROVE  Structure'
<1>. USE DEF Idle, At
<1>1. /\ pc[c] = "run" /\ release[c] = <<>> /\ m_tickets' = [m_tickets EXCEPT ![c] = lists]
      /\ UNCHANGED <<ticket, lock, loop, savepoint, release, graph, call, pc>>
  BY DEF SetTickets
<1>2. Types /\ SavepointInv(c)
  BY DEF Structure, SelfInv
<1>3. /\ m_tickets' \in [Contexts -> [Durations -> Seq(TicketIds)]]
      /\ m_tickets'[c] = lists
      /\ \A d \in Contexts \ {c} : m_tickets'[d] = m_tickets[d]
  BY <1>1, <1>2 DEF Types, TypeOK
<1>4. Types'
  BY <1>1, <1>2, <1>3 DEF Types, TypeOK, lock, graph
<1>5. SavepointInv(c)'
  BY <1>1, <1>2, <1>3, EmptyFacts DEF SavepointInv
<1>6. Held(c)' = Held(c)
  <2>1. Held(c)' = UNION {ToSet(lists[d]) : d \in Durations}
    BY <1>3 DEF Held
  <2>2. UNION {ToSet(lists[d]) : d \in Durations} =
          ToSet(lists["statement"]) \cup ToSet(lists["transaction"])
            \cup ToSet(lists["explicit"])
    BY DEF Durations
  <2>. QED BY <2>1, <2>2
<1>7. \A d, e \in Durations :
        d # e => ToSet(m_tickets'[c][d]) \cap ToSet(m_tickets'[c][e]) = {}
  BY <1>3 DEF Durations
<1>8. Distinct(release'[c]) /\ ToSet(release'[c]) \subseteq Held(c)
  BY <1>1, EmptyFacts
<1>9. \A d \in Durations : Distinct(m_tickets'[c][d])
  BY <1>3
<1>. QED BY <1>1, <1>3, <1>4, <1>5, <1>6, <1>7, <1>8, <1>9, OwnStep

LEMMA SetLockDurationStep ==
  ASSUME Structure, NEW c \in Contexts, NEW id, SetLockDuration(c, id) PROVE Structure'
<1>. DEFINE s == m_tickets[c]["statement"]
            t == m_tickets[c]["transaction"]
            x == m_tickets[c]["explicit"]
            t2 == RemoveFirst(t, id)
            x2 == <<id>> \o x
            lists == [m_tickets[c] EXCEPT !["transaction"] = t2, !["explicit"] = x2]
<1>1. Idle(c) /\ id \in ToSet(t) /\ SetTickets(c, lists)
      /\ (savepoint[c] # None => ~HasLock(c, savepoint[c], id))
  BY DEF SetLockDuration
<1>2. m_tickets[c] \in [Durations -> Seq(TicketIds)]
  BY DEF Structure, Types, TypeOK
<1>3. /\ s \in Seq(TicketIds) /\ t \in Seq(TicketIds) /\ x \in Seq(TicketIds)
      /\ Distinct(s) /\ Distinct(t) /\ Distinct(x)
      /\ ToSet(s) \cap ToSet(t) = {} /\ ToSet(s) \cap ToSet(x) = {}
      /\ ToSet(t) \cap ToSet(x) = {} /\ Held(c) = ToSet(s) \cup ToSet(t) \cup ToSet(x)
  BY OneListFacts
<1>4. id \in TicketIds /\ id \notin ToSet(x)
  BY <1>1, OneListFacts
<1>5. savepoint[c] # None => savepoint[c].transaction # id
  BY <1>1, AcquiredAfterFacts DEF HasLock
<1>6. SavepointInv(c)
  BY DEF Structure, SelfInv
<1>7. savepoint[c] # None /\ savepoint[c].transaction # None =>
        savepoint[c].transaction \in ToSet(t) \ {id}
  BY <1>5, <1>6 DEF SavepointInv
<1>8. t2 \in Seq(TicketIds) /\ Distinct(t2) /\ ToSet(t2) = ToSet(t) \ {id}
  <2>. HIDE DEF t
  <2>. QED BY <1>3, RemoveFirstFacts
<1>9. x2 \in Seq(TicketIds) /\ Distinct(x2) /\ ToSet(x2) = ToSet(x) \cup {id}
  <2>. HIDE DEF x
  <2>. QED BY <1>3, <1>4, PushFacts
<1>. HIDE DEF t2, x2
<1>10. /\ lists["statement"] = s /\ lists["transaction"] = t2 /\ lists["explicit"] = x2
       /\ lists \in [Durations -> Seq(TicketIds)]
  BY <1>2, <1>8, <1>9 DEF Durations
<1>. HIDE DEF s, t, x, lists
<1>11. \A d \in Durations : Distinct(lists[d])
  BY <1>3, <1>8, <1>9, <1>10 DEF Durations
<1>12. /\ ToSet(lists["statement"]) \cap ToSet(lists["transaction"]) = {}
       /\ ToSet(lists["statement"]) \cap ToSet(lists["explicit"]) = {}
       /\ ToSet(lists["transaction"]) \cap ToSet(lists["explicit"]) = {}
       /\ Held(c) = ToSet(lists["statement"]) \cup ToSet(lists["transaction"])
                     \cup ToSet(lists["explicit"])
  BY <1>1, <1>3, <1>8, <1>9, <1>10
<1>. QED BY <1>1, <1>7, <1>8, <1>10, <1>11, <1>12, SetTicketsStep

LEMMA SetExplicitStep ==
  ASSUME Structure, NEW c \in Contexts, SetExplicitDurationForAllLocks(c) PROVE Structure'
<1>. DEFINE s == m_tickets[c]["statement"]
            t == m_tickets[c]["transaction"]
            x == m_tickets[c]["explicit"]
            e == <<>>
            u == Reverse(x) \o Reverse(s)
            l == u \o t
            lists == [statement |-> e, transaction |-> e, explicit |-> l]
<1>1. Idle(c) /\ SetTickets(c, lists) /\ savepoint[c] = None
  BY DEF SetExplicitDurationForAllLocks
<1>2. /\ s \in Seq(TicketIds) /\ t \in Seq(TicketIds) /\ x \in Seq(TicketIds)
      /\ Distinct(s) /\ Distinct(t) /\ Distinct(x)
      /\ ToSet(s) \cap ToSet(t) = {} /\ ToSet(s) \cap ToSet(x) = {}
      /\ ToSet(t) \cap ToSet(x) = {} /\ Held(c) = ToSet(s) \cup ToSet(t) \cup ToSet(x)
  BY OneListFacts
<1>3. e \in Seq(TicketIds) /\ ToSet(e) = {} /\ Distinct(e)
  BY EmptyFacts
<1>. HIDE DEF s, t, x, e
<1>4. /\ Reverse(x) \in Seq(TicketIds) /\ ToSet(Reverse(x)) = ToSet(x) /\ Distinct(Reverse(x))
      /\ Reverse(s) \in Seq(TicketIds) /\ ToSet(Reverse(s)) = ToSet(s) /\ Distinct(Reverse(s))
  BY <1>2, ReverseFacts
<1>5. u \in Seq(TicketIds) /\ Distinct(u) /\ ToSet(u) = ToSet(x) \cup ToSet(s)
  BY <1>2, <1>4, ConcatFacts
<1>. HIDE DEF u
<1>6. l \in Seq(TicketIds) /\ Distinct(l) /\ ToSet(l) = ToSet(x) \cup ToSet(s) \cup ToSet(t)
  BY <1>2, <1>5, ConcatFacts
<1>. HIDE DEF l
<1>7. /\ lists["statement"] = e /\ lists["transaction"] = e /\ lists["explicit"] = l
      /\ lists \in [Durations -> Seq(TicketIds)]
  BY <1>3, <1>6 DEF Durations
<1>. HIDE DEF lists
<1>8. \A d \in Durations : Distinct(lists[d])
  BY <1>3, <1>6, <1>7 DEF Durations
<1>. QED BY <1>1, <1>2, <1>3, <1>6, <1>7, <1>8, SetTicketsStep

LEMMA SetTransactionStep ==
  ASSUME Structure, NEW c \in Contexts, SetTransactionDurationForAllLocks(c) PROVE Structure'
<1>. DEFINE s == m_tickets[c]["statement"]
            t == m_tickets[c]["transaction"]
            x == m_tickets[c]["explicit"]
            e == <<>>
            l == Reverse(t) \o x
            lists == [statement |-> e, explicit |-> e, transaction |-> l]
<1>1. Idle(c) /\ SetTickets(c, lists) /\ savepoint[c] = None /\ s = e
  BY DEF SetTransactionDurationForAllLocks
<1>2. /\ s \in Seq(TicketIds) /\ t \in Seq(TicketIds) /\ x \in Seq(TicketIds)
      /\ Distinct(t) /\ Distinct(x)
      /\ ToSet(t) \cap ToSet(x) = {} /\ Held(c) = ToSet(s) \cup ToSet(t) \cup ToSet(x)
  BY OneListFacts
<1>3. e \in Seq(TicketIds) /\ ToSet(e) = {} /\ Distinct(e)
  BY EmptyFacts
<1>. HIDE DEF s, t, x, e
<1>4. Reverse(t) \in Seq(TicketIds) /\ ToSet(Reverse(t)) = ToSet(t) /\ Distinct(Reverse(t))
  BY <1>2, ReverseFacts
<1>5. l \in Seq(TicketIds) /\ Distinct(l) /\ ToSet(l) = ToSet(t) \cup ToSet(x)
  BY <1>2, <1>4, ConcatFacts
<1>. HIDE DEF l
<1>6. /\ lists["statement"] = e /\ lists["transaction"] = l /\ lists["explicit"] = e
      /\ lists \in [Durations -> Seq(TicketIds)]
  BY <1>3, <1>5 DEF Durations
<1>. HIDE DEF lists
<1>7. \A d \in Durations : Distinct(lists[d])
  BY <1>3, <1>5, <1>6 DEF Durations
<1>. QED BY <1>1, <1>2, <1>3, <1>5, <1>6, <1>7, SetTicketsStep

-----------------------------------------------------------------------------
(* The acquire calls.                                                      *)

LEMMA SatisfiedFacts ==
  ASSUME Types, NEW c \in Contexts, NEW cl \in CallSet, NEW id \in TicketIds,
         Satisfied(c, cl, id)
  PROVE  /\ call' \in [Contexts -> CallSet] /\ pc' \in [Contexts -> Labels]
         /\ \A d \in Contexts \ {c} : call'[d] = call[d] /\ pc'[d] = pc[d]
         /\ \/ /\ cl.op = "upgrade" /\ call'[c] = [cl EXCEPT !.mine = id]
               /\ pc'[c] = "merge"
            \/ /\ cl.op = "batch" /\ pc'[c] = "ask"
               /\ \E r \in Requests :
                    call'[c] = [cl EXCEPT !.req = r, !.mine = None, !.rest = @ \ {r}]
            \/ call'[c] = NoCall /\ pc'[c] = "run"
<1>1. call \in [Contexts -> CallSet] /\ pc \in [Contexts -> Labels]
  BY DEF Types, TypeOK
<1>2. ASSUME NEW new \in CallSet, NEW label \in Labels,
             call' = [call EXCEPT ![c] = new], pc' = [pc EXCEPT ![c] = label]
      PROVE  /\ call' \in [Contexts -> CallSet] /\ pc' \in [Contexts -> Labels]
             /\ \A d \in Contexts \ {c} : call'[d] = call[d] /\ pc'[d] = pc[d]
             /\ call'[c] = new /\ pc'[c] = label
  BY <1>1, <1>2
<1>3. {"merge", "ask", "run"} \subseteq Labels
  BY DEF Labels
<1>4. CASE cl.op = "upgrade"
  <2>1. call' = [call EXCEPT ![c] = [cl EXCEPT !.mine = id]]
        /\ pc' = [pc EXCEPT ![c] = "merge"]
    BY <1>4 DEF Satisfied, Goto
  <2>2. [cl EXCEPT !.mine = id] \in CallSet
    BY DEF CallSet
  <2>. QED BY <1>2, <1>3, <1>4, <2>1, <2>2
<1>5. CASE cl.op = "batch" /\ cl.rest # {}
  <2>1. pc' = [pc EXCEPT ![c] = "ask"]
    BY <1>5 DEF Satisfied, Goto
  <2>2. PICK r \in First(cl.rest) : call' =
          [call EXCEPT ![c] = [cl EXCEPT !.req = r, !.mine = None, !.rest = @ \ {r}]]
    BY <1>5 DEF Satisfied
  <2>3. cl.rest \subseteq Requests
    BY DEF CallSet
  <2>4. r \in Requests /\ r \in MDLRequest
    BY <2>3, RequestsAssumption DEF First
  <2>5. [cl EXCEPT !.req = r, !.mine = None, !.rest = @ \ {r}] \in CallSet
    BY <2>3, <2>4 DEF CallSet
  <2>. QED BY <1>2, <1>3, <1>5, <2>1, <2>2, <2>4, <2>5
<1>6. CASE cl.op # "upgrade" /\ ~(cl.op = "batch" /\ cl.rest # {})
  <2>1. call' = [call EXCEPT ![c] = NoCall] /\ pc' = [pc EXCEPT ![c] = "run"]
    BY <1>6 DEF Satisfied, Goto
  <2>2. NoCall \in CallSet
    BY DEF CallSet, NoCall, Ops
  <2>. QED BY <1>2, <1>3, <2>1, <2>2
<1>. QED BY <1>4, <1>5, <1>6

LEMMA SatisfiedCall ==
  ASSUME Types, NEW c \in Contexts, NEW cl, NEW id \in TicketIds,
         CallOK(c, cl)', Satisfied(c, cl, id), release'[c] = <<>>, waiting_for'[c] = None,
         cl.op = "upgrade" => /\ IsFor(id, cl)' /\ id \in Held(c)'
                              /\ AtSavepoint(c, cl)'
                                   \/ PastSavepoint(c, [cl EXCEPT !.mine = id])'
  PROVE  CallInv(c)' /\ ~Queued(c)' /\ LoopInv(c)' /\ AnswerInv(c)' /\ WaitForInv(c)'
<1>1. cl \in CallSet
  BY DEF CallOK
<1>2. CASE cl.op = "upgrade"
  <2>. DEFINE new == [cl EXCEPT !.mine = id]
  <2>1. call'[c] = new /\ pc'[c] = "merge"
    BY <1>2 DEF Satisfied, Goto, Types, TypeOK
  <2>2. new \in CallSet /\ new.op = cl.op /\ new.req = cl.req /\ new.mine = id
        /\ new.target = cl.target /\ new.svp = cl.svp
    BY <1>1 DEF CallSet
  <2>. HIDE DEF new
  <2>3. CallOK(c, new)'
    BY <1>2, <2>2 DEF CallOK
  <2>4. IsFor(id, new)'
    BY <1>2, <2>2 DEF IsFor
  <2>5. AtSavepoint(c, new)' \/ PastSavepoint(c, new)'
    BY <1>2, <2>2 DEF AtSavepoint, new
  <2>6. CallInv(c)'
    BY <1>2, <2>1, <2>2, <2>3, <2>4, <2>5 DEF CallInv, Queued
  <2>. QED BY <2>1, <2>6 DEF Queued, LoopInv, AnswerInv, WaitForInv
<1>3. CASE cl.op = "batch" /\ pc'[c] = "ask"
           /\ \E r \in Requests :
                call'[c] = [cl EXCEPT !.req = r, !.mine = None, !.rest = @ \ {r}]
  <2>1. PICK r \in Requests :
                call'[c] = [cl EXCEPT !.req = r, !.mine = None, !.rest = @ \ {r}]
    BY <1>3
  <2>2. r \in MDLRequest /\ r.type \in LockTypes(r.key)
    BY RequestsAssumption
  <2>. DEFINE new == [cl EXCEPT !.req = r, !.mine = None, !.rest = @ \ {r}]
  <2>3. new \in CallSet /\ new.op = "batch" /\ new.req = r /\ new.svp = cl.svp
    BY <1>1, <1>3, <2>2 DEF CallSet
  <2>. HIDE DEF new
  <2>4. CallOK(c, new)' /\ AtSavepoint(c, new)'
    BY <1>3, <2>2, <2>3 DEF CallOK, AcquiredAfter, AtSavepoint
  <2>5. call'[c] = new
    BY <2>1 DEF new
  <2>6. CallInv(c)'
    BY <1>3, <2>4, <2>5 DEF CallInv, Queued
  <2>. QED BY <1>3, <2>6 DEF Queued, LoopInv, AnswerInv, WaitForInv
<1>4. CASE call'[c] = NoCall /\ pc'[c] = "run"
  <2>1. CallInv(c)'
    BY <1>4 DEF CallInv, Queued, AtSavepoint, NoCall
  <2>. QED BY <1>4, <2>1 DEF Queued, LoopInv, AnswerInv, WaitForInv
<1>. QED BY <1>1, <1>2, <1>3, <1>4, SatisfiedFacts

(* c is about to ask for the lock of the call cl.                          *)
Asking(c, cl) ==
  pc[c] \in {"run", "ask"} /\ release[c] = <<>> /\ CallOK(c, cl) /\ AtSavepoint(c, cl)

LEMMA HeldFacts ==
  ASSUME Structure, NEW c \in Contexts, NEW id \in Held(c)
  PROVE  /\ id \in TicketIds /\ Ctx(id) = c /\ id \in granted
         /\ ticket[id] # None /\ ticket[id] \in MDLTicket
         /\ ticket[id].type \in LockTypes(ticket[id].key)
<1>1. Types /\ ListsInv(c) /\ \A i \in TicketIds : Ctx(i) = c => TicketInv(i)
  BY DEF Structure, SelfInv
<1>2. id \in TicketIds
  BY OneListFacts
<1>3. Ctx(id) = c /\ id \in granted
  BY <1>1 DEF ListsInv
<1>. QED BY <1>1, <1>2, <1>3, TypeFacts DEF TicketInv

LEMMA AskingFacts ==
  ASSUME Structure, NEW c \in Contexts, pc[c] \in {"run", "ask"}
  PROVE  /\ ~Queued(c) /\ waiting_for[c] = None
         /\ \A k \in Keys : \A id \in WaitingOn(k) : Ctx(id) # c
<1>1. WaitForInv(c) /\ ~Queued(c)
  BY DEF Structure, SelfInv, Queued
<1>2. ASSUME NEW k \in Keys, NEW id \in WaitingOn(k), Ctx(id) = c PROVE FALSE
  BY <1>1, <1>2 DEF Structure, SelfInv, WaiterInv
<1>. QED BY <1>1, <1>2 DEF WaitForInv

LEMMA ReuseTicketStep ==
  ASSUME Structure, NEW c \in Contexts, NEW cl, Asking(c, cl), ReuseTicket(c, cl)
  PROVE  Structure'
<1>. USE DEF lock, own, graph
<1>1. /\ IsLockOwner(c, cl.req.key, cl.req.type)
      /\ Satisfied(c, cl, FindTicket(c, cl.req))
      /\ UNCHANGED <<ticket, lock, loop, own, graph>>
  BY DEF ReuseTicket
<1>2. Types /\ SelfInv(c) /\ CallOK(c, cl) /\ AtSavepoint(c, cl) /\ release[c] = <<>>
  BY DEF Structure, Asking
<1>3. ~Queued(c) /\ waiting_for[c] = None
  BY AskingFacts DEF Asking
<1>4. PICK id : id = FindTicket(c, cl.req)
  OBVIOUS
<1>5. cl.req \in MDLRequest /\ cl \in CallSet
  BY <1>2 DEF CallOK
<1>6. /\ id \in Held(c) /\ ticket[id].key = cl.req.key
      /\ HasStrongerOrEqualType(Scoped(cl.req.key), ticket[id].type, cl.req.type)
  <2>1. cl.req.dur \in Durations
    BY <1>5 DEF MDLRequest
  <2>2. \A d \in Durations : m_tickets[c][d] \in Seq(TicketIds)
    BY <1>2, TypeFacts
  <2>. QED BY <1>1, <1>4, <2>1, <2>2, FindTicketFacts, HeldDef
<1>7. id \in TicketIds /\ ticket[id] \in MDLTicket /\ ticket[id] # None
  BY <1>6, HeldFacts
<1>8. cl.op = "upgrade" => IsFor(id, cl)
  <2>1. cl.op = "upgrade" => cl.req.type = "X"
    BY <1>2 DEF CallOK
  <2>2. ticket[id].type \in MDLTypeSet /\ Scoped(cl.req.key) \in BOOLEAN
    BY <1>7 DEF MDLTicket, Scoped
  <2>3. cl.op = "upgrade" => ticket[id].type = "X"
    BY <1>6, <2>1, <2>2, OnlyX
  <2>. QED BY <1>6, <1>7, <2>1, <2>3 DEF IsFor
<1>9. Held(c)' = Held(c)
  BY <1>1 DEF Held
<1>10. CallOK(c, cl)' /\ AtSavepoint(c, cl)' /\ (cl.op = "upgrade" => IsFor(id, cl)')
  BY <1>1, <1>2, <1>8, <1>9 DEF CallOK, AcquiredAfter, AtSavepoint, IsFor
<1>11. CallInv(c)' /\ ~Queued(c)' /\ LoopInv(c)' /\ AnswerInv(c)' /\ WaitForInv(c)'
  BY <1>1, <1>2, <1>3, <1>4, <1>6, <1>7, <1>9, <1>10, SatisfiedCall
<1>12. /\ call' \in [Contexts -> CallSet] /\ pc' \in [Contexts -> Labels]
       /\ \A d \in Contexts \ {c} : call'[d] = call[d] /\ pc'[d] = pc[d]
  BY <1>1, <1>2, <1>4, <1>5, <1>7, SatisfiedFacts
<1>13. Types'
  BY <1>1, <1>2, <1>12 DEF Types, TypeOK
<1>14. Frame(c) /\ \A k \in Keys : Distinct(waiting'[k])
  BY <1>1, <1>12 DEF Frame, WaitingOn, Structure
<1>15. ListsInv(c)' /\ SavepointInv(c)'
  BY <1>1, <1>2, <1>3, <1>9, <1>11 DEF SelfInv, ListsInv, SavepointInv
<1>16. ASSUME NEW i \in TicketIds, Ctx(i) = c PROVE TicketInv(i)'
  BY <1>1, <1>2, <1>16 DEF SelfInv, TicketInv
<1>17. \A k \in Keys : \A i \in WaitingOn(k)' : Ctx(i) # c
  BY <1>1, AskingFacts DEF WaitingOn, Asking
<1>18. SelfInv(c)'
  BY <1>11, <1>15, <1>16, <1>17 DEF SelfInv
<1>. QED BY <1>13, <1>14, <1>18, Assemble

(* The ticket id becomes one of the tickets c holds.                       *)
LEMMA TicketGained ==
  ASSUME Structure, NEW c \in Contexts, NEW cl, CallOK(c, cl), AtSavepoint(c, cl),
         release[c] = <<>>, waiting_for[c] = None,
         \A k \in Keys : \A i \in WaitingOn(k) : Ctx(i) # c,
         NEW id \in TicketIds, Ctx(id) = c, id \notin Held(c),
         \A i \in TicketIds : Ctx(i) = c /\ ticket[i] # None => i \in Held(c) \/ i = id,
         NEW new \in MDLTicket, new.key = cl.req.key, new.type = cl.req.type,
         ticket' = [ticket EXCEPT ![id] = new],
         granted' = granted \cup {id}, PushFront(c, cl.req.dur, id),
         hog' \in [Keys -> Nat], wait_status' \in [Contexts -> WaitStatuses],
         \A d \in Contexts \ {c} : wait_status'[d] = wait_status[d]
            \/ (wait_status[d] = "EMPTY" /\ wait_status'[d] # "GRANTED"),
         UNCHANGED <<waiting, rwlock, loop, savepoint, release, waiting_for, victim>>,
         \/ Satisfied(c, cl, id)
         \/ /\ cl.op # "upgrade" /\ pc' = [pc EXCEPT ![c] = "mark"]
            /\ call' = [call EXCEPT ![c] = [cl EXCEPT !.mine = id]]
  PROVE  Structure'
<1>1. Types /\ SelfInv(c) /\ CallOK(c, cl) /\ AtSavepoint(c, cl) /\ release[c] = <<>>
  BY DEF Structure
<1>2. waiting_for[c] = None /\ \A k \in Keys : \A i \in WaitingOn(k) : Ctx(i) # c
  OBVIOUS
<1>3. id \in TicketIds /\ Ctx(id) = c
  OBVIOUS
<1>4. id \notin Held(c)
  OBVIOUS
<1>5. /\ cl.req \in MDLRequest /\ cl \in CallSet /\ cl.req.type \in LockTypes(cl.req.key)
      /\ cl.req.dur \in Durations /\ cl.req.key \in Keys /\ cl.req.type \in MDLTypeSet
  BY <1>1 DEF CallOK, MDLRequest
<1>6. ticket \in [TicketIds -> MDLTicket \cup {None}] /\ granted \in SUBSET TicketIds
  BY <1>1 DEF Types, TypeOK
<1>7. new \in MDLTicket /\ new # None /\ new.key = cl.req.key /\ new.type = cl.req.type
  BY NoneAssumption
<1>8. ticket' = [ticket EXCEPT ![id] = new]
  OBVIOUS
<1>9. /\ ticket' \in [TicketIds -> MDLTicket \cup {None}] /\ ticket'[id] = new
      /\ \A i \in TicketIds : i # id => ticket'[i] = ticket[i]
  BY <1>3, <1>6, <1>7, <1>8
<1>. DEFINE e == cl.req.dur
<1>10. m_tickets \in [Contexts -> [Durations -> Seq(TicketIds)]]
  BY <1>1 DEF Types, TypeOK
<1>11. m_tickets' =
         [m_tickets EXCEPT ![c] = [m_tickets[c] EXCEPT ![e] = <<id>> \o m_tickets[c][e]]]
  BY <1>10, <1>5 DEF PushFront
<1>. DEFINE list == <<id>> \o m_tickets[c][e]
<1>12. /\ list \in Seq(TicketIds) /\ list # <<>> /\ Head(list) = id
       /\ Tail(list) = m_tickets[c][e] /\ ToSet(list) = ToSet(m_tickets[c][e]) \cup {id}
       /\ (Distinct(m_tickets[c][e]) => Distinct(list))
  <2>1. m_tickets[c][e] \in Seq(TicketIds)
    BY <1>5, <1>10
  <2>2. ToSet(m_tickets[c][e]) \subseteq Held(c)
    BY <1>5, HeldDef
  <2>. QED BY <1>3, <1>4, <2>1, <2>2, PushFacts
<1>13. m_tickets' = [m_tickets EXCEPT ![c] = [m_tickets[c] EXCEPT ![e] = list]]
  BY <1>11
<1>. HIDE DEF list
<1>14. e \in Durations
  BY <1>5
<1>. HIDE DEF e
<1>15. /\ m_tickets' \in [Contexts -> [Durations -> Seq(TicketIds)]]
       /\ m_tickets'[c][e] = list
       /\ \A d \in Durations : d # e => m_tickets'[c][d] = m_tickets[c][d]
       /\ \A d \in Contexts \ {c} : m_tickets'[d] = m_tickets[d]
  BY <1>10, <1>12, <1>13, <1>14
<1>16. Held(c)' = Held(c) \cup {id}
  <2>1. ASSUME NEW i PROVE i \in Held(c)' <=> \E d \in Durations : i \in ToSet(m_tickets'[c][d])
    BY DEF Held
  <2>2. ASSUME NEW i
        PROVE  (\E d \in Durations : i \in ToSet(m_tickets'[c][d]))
                 <=> i = id \/ \E d \in Durations : i \in ToSet(m_tickets[c][d])
    <3>1. ASSUME NEW d \in Durations
          PROVE  i \in ToSet(m_tickets'[c][d])
                   <=> i \in ToSet(m_tickets[c][d]) \/ (d = e /\ i = id)
      BY <1>12, <1>15
    <3>. QED BY <1>14, <3>1
  <2>. QED BY <2>1, <2>2, HeldDef
<1>17. CallOK(c, cl)'
  <2>1. CASE cl.op = "upgrade"
    <3>1. cl.target \in Held(c) /\ cl.target \in TicketIds /\ cl.target # id
      BY <1>1, <1>4, <2>1, HeldFacts DEF CallOK
    <3>2. ticket'[cl.target] = ticket[cl.target]
      BY <1>9, <3>1
    <3>3. m_tickets'[c]["statement"] = m_tickets[c]["statement"]
      BY <1>1, <1>15, <2>1 DEF CallOK, Durations, e
    <3>. QED BY <1>1, <1>16, <2>1, <3>1, <3>2, <3>3 DEF CallOK
  <2>2. CASE cl.op = "batch"
    <3>1. savepoint[c] # None => savepoint[c].transaction # id
      <4>1. SavepointInv(c) /\ ToSet(m_tickets[c]["transaction"]) \subseteq Held(c)
        BY <1>1, OneListFacts DEF SelfInv
      <4>. QED BY <1>3, <1>4, <4>1, NoneAssumption DEF SavepointInv
    <3>2. ToSet(AcquiredAfter(c, cl.svp)') \subseteq ToSet(AcquiredAfter(c, cl.svp)) \cup {id}
      BY <1>3, <1>4, <1>5, PushAcquired
    <3>. QED BY <1>1, <2>2, <3>1, <3>2 DEF CallOK
  <2>3. CASE cl.op \notin {"upgrade", "batch"}
    BY <1>1, <2>3 DEF CallOK
  <2>. QED BY <2>1, <2>2, <2>3
<1>18. IsFor(id, cl)' /\ id \in Held(c)'
  BY <1>3, <1>7, <1>9, <1>16 DEF IsFor
<1>19. cl.op = "upgrade" => PastSavepoint(c, [cl EXCEPT !.mine = id])'
  <2>. SUFFICES ASSUME cl.op = "upgrade" PROVE PastSavepoint(c, [cl EXCEPT !.mine = id])'
    OBVIOUS
  <2>1. e = "transaction" /\ cl.svp.transaction = FrontOf(m_tickets[c]["transaction"])
    BY <1>1 DEF CallOK, AtSavepoint, e
  <2>2. m_tickets'[c]["transaction"] = list /\ Tail(list) = m_tickets[c]["transaction"]
    BY <1>12, <1>15, <2>1
  <2>3. [cl EXCEPT !.mine = id].mine = id /\ [cl EXCEPT !.mine = id].svp = cl.svp
    BY <1>5 DEF CallSet
  <2>4. savepoint[c] # None => savepoint[c].transaction # id
    <3>1. SavepointInv(c) /\ ToSet(m_tickets[c]["transaction"]) \subseteq Held(c)
      BY <1>1, OneListFacts DEF SelfInv
    <3>. QED BY <1>3, <1>4, <3>1, NoneAssumption DEF SavepointInv
  <2>. QED BY <1>12, <2>1, <2>2, <2>3, <2>4 DEF PastSavepoint
<1>20. /\ CallInv(c)' /\ ~Queued(c)' /\ LoopInv(c)' /\ AnswerInv(c)' /\ WaitForInv(c)'
       /\ call' \in [Contexts -> CallSet] /\ pc' \in [Contexts -> Labels]
       /\ \A d \in Contexts \ {c} : call'[d] = call[d] /\ pc'[d] = pc[d]
  <2>1. CASE Satisfied(c, cl, id)
    <3>1. release'[c] = <<>> /\ waiting_for'[c] = None
      BY <1>1, <1>2
    <3>. QED BY <1>1, <1>3, <1>5, <1>17, <1>18, <1>19, <2>1, <3>1, SatisfiedCall, SatisfiedFacts
  <2>2. CASE /\ cl.op # "upgrade" /\ pc' = [pc EXCEPT ![c] = "mark"]
             /\ call' = [call EXCEPT ![c] = [cl EXCEPT !.mine = id]]
    <3>. DEFINE nc == [cl EXCEPT !.mine = id]
    <3>1. nc \in CallSet /\ nc.op = cl.op /\ nc.req = cl.req /\ nc.mine = id /\ nc.svp = cl.svp
      BY <1>3, <1>5 DEF CallSet
    <3>2. call' = [call EXCEPT ![c] = nc]
      BY <2>2
    <3>. HIDE DEF nc
    <3>3. /\ call' \in [Contexts -> CallSet] /\ pc' \in [Contexts -> Labels]
          /\ \A d \in Contexts \ {c} : call'[d] = call[d] /\ pc'[d] = pc[d]
          /\ call'[c] = nc /\ pc'[c] = "mark"
      <4>1. call \in [Contexts -> CallSet] /\ pc \in [Contexts -> Labels] /\ "mark" \in Labels
        BY <1>1 DEF Types, TypeOK, Labels
      <4>. QED BY <2>2, <3>1, <3>2, <4>1
    <3>4. CallOK(c, nc)' /\ IsFor(id, nc)' /\ AtSavepoint(c, nc)'
      BY <1>17, <1>18, <2>2, <3>1 DEF CallOK, AcquiredAfter, IsFor, AtSavepoint
    <3>5. CallInv(c)'
      BY <1>1, <1>18, <2>2, <3>1, <3>3, <3>4 DEF CallInv, Queued
    <3>. QED BY <1>2, <3>3, <3>5 DEF Queued, LoopInv, AnswerInv, WaitForInv
  <2>. QED BY <2>1, <2>2
<1>21. Types'
  BY <1>1, <1>3, <1>6, <1>9, <1>15, <1>20 DEF Types, TypeOK
<1>22. Frame(c) /\ \A k \in Keys : Distinct(waiting'[k])
  BY <1>3, <1>9, <1>15, <1>20 DEF Frame, WaitingOn, Structure
<1>23. ListsInv(c)'
  <2>1. \A d \in Durations : Distinct(m_tickets'[c][d])
    BY <1>1, <1>12, <1>14, <1>15 DEF SelfInv, ListsInv
  <2>2. ASSUME NEW d \in Durations, NEW f \in Durations, d # f
        PROVE  ToSet(m_tickets'[c][d]) \cap ToSet(m_tickets'[c][f]) = {}
    <3>1. \A g \in Durations : ToSet(m_tickets[c][g]) \subseteq Held(c)
      BY HeldDef
    <3>2. ToSet(m_tickets[c][d]) \cap ToSet(m_tickets[c][f]) = {}
      BY <1>1, <2>2 DEF SelfInv, ListsInv
    <3>3. id \notin ToSet(m_tickets[c][d]) /\ id \notin ToSet(m_tickets[c][f])
      BY <1>4, <3>1
    <3>4. CASE d = e
      BY <1>12, <1>15, <2>2, <3>2, <3>3, <3>4
    <3>5. CASE f = e
      BY <1>12, <1>15, <2>2, <3>2, <3>3, <3>5
    <3>6. CASE d # e /\ f # e
      BY <1>15, <3>2, <3>6
    <3>. QED BY <3>4, <3>5, <3>6
  <2>3. \A i \in Held(c)' : Ctx(i) = c /\ i \in granted'
    BY <1>1, <1>3, <1>16 DEF SelfInv, ListsInv
  <2>4. Distinct(release'[c]) /\ ToSet(release'[c]) \subseteq Held(c)'
    BY <1>1, <1>16 DEF SelfInv, ListsInv
  <2>5. \A i \in TicketIds : Ctx(i) = c /\ ticket'[i] # None => i \in Held(c)'
    BY <1>9, <1>16
  <2>. QED BY <1>20, <2>1, <2>2, <2>3, <2>4, <2>5 DEF ListsInv
<1>24. SavepointInv(c)'
  <2>1. ToSet(m_tickets[c]["transaction"]) \subseteq ToSet(m_tickets'[c]["transaction"])
    BY <1>12, <1>15 DEF Durations
  <2>. QED BY <1>1, <2>1 DEF SelfInv, SavepointInv
<1>25. ASSUME NEW i \in TicketIds, Ctx(i) = c PROVE TicketInv(i)'
  BY <1>1, <1>3, <1>5, <1>7, <1>9, <1>25 DEF SelfInv, TicketInv
<1>26. \A k \in Keys : \A i \in WaitingOn(k)' : Ctx(i) # c
  BY <1>2 DEF WaitingOn
<1>27. SelfInv(c)'
  BY <1>20, <1>23, <1>24, <1>25, <1>26 DEF SelfInv
<1>. QED BY <1>21, <1>22, <1>27, Assemble

(* A new ticket, granted at once or a clone.                               *)
LEMMA NewGrantStep ==
  ASSUME Structure, NEW c \in Contexts, NEW cl, Asking(c, cl), Free(c) # {},
         NEW id, id = NewTicket(c), NEW nowait \in BOOLEAN,
         ticket' = [ticket EXCEPT ![id] =
           [key |-> cl.req.key, type |-> cl.req.type, nowait |-> nowait]],
         granted' = granted \cup {id}, PushFront(c, cl.req.dur, id),
         hog' \in [Keys -> Nat],
         UNCHANGED <<waiting, rwlock, loop, savepoint, release, graph>>,
         \/ Satisfied(c, cl, id)
         \/ /\ cl.op # "upgrade" /\ pc' = [pc EXCEPT ![c] = "mark"]
            /\ call' = [call EXCEPT ![c] = [cl EXCEPT !.mine = id]]
  PROVE  Structure'
<1>1. CallOK(c, cl) /\ AtSavepoint(c, cl) /\ release[c] = <<>> /\ cl.req \in MDLRequest
  BY DEF Asking, CallOK
<1>2. ~Queued(c) /\ waiting_for[c] = None /\ \A k \in Keys : \A i \in WaitingOn(k) : Ctx(i) # c
  BY AskingFacts DEF Asking
<1>3. id \in TicketIds /\ Ctx(id) = c /\ ticket[id] = None
  BY NewTicketFacts
<1>4. id \notin Held(c)
  BY <1>3, HeldFacts
<1>5. \A i \in TicketIds : Ctx(i) = c /\ ticket[i] # None => i \in Held(c) \/ i = id
  BY <1>2 DEF Structure, SelfInv, ListsInv
<1>6. PICK new : new = [key |-> cl.req.key, type |-> cl.req.type, nowait |-> nowait]
  OBVIOUS
<1>7. new \in MDLTicket /\ new.key = cl.req.key /\ new.type = cl.req.type
      /\ ticket' = [ticket EXCEPT ![id] = new]
  BY <1>1, <1>6 DEF MDLTicket, MDLRequest
<1>8. wait_status' = wait_status /\ wait_status \in [Contexts -> WaitStatuses]
      /\ UNCHANGED <<waiting, rwlock, loop, savepoint, release, waiting_for, victim>>
  BY DEF graph, Structure, Types, TypeOK
<1>. QED BY <1>1, <1>2, <1>3, <1>4, <1>5, <1>7, <1>8, TicketGained

LEMMA CloneTicketStep ==
  ASSUME Structure, NEW c \in Contexts, NEW cl, Asking(c, cl), CloneTicket(c, cl)
  PROVE  Structure'
<1>1. Types /\ cl.req \in MDLRequest
  BY DEF Structure, Asking, CallOK
<1>2. PICK id : id = NewTicket(c)
  OBVIOUS
<1>3. PICK nowait : nowait = ticket[FindTicket(c, cl.req)].nowait
  OBVIOUS
<1>4. /\ IsLockOwner(c, cl.req.key, cl.req.type) /\ Free(c) # {}
      /\ ticket' = [ticket EXCEPT ![id] =
           [key |-> cl.req.key, type |-> cl.req.type, nowait |-> nowait]]
      /\ granted' = granted \cup {id} /\ PushFront(c, cl.req.dur, id)
      /\ Satisfied(c, cl, id)
      /\ UNCHANGED <<waiting, hog, rwlock, loop, savepoint, release, graph>>
  BY <1>2, <1>3 DEF CloneTicket
<1>5. nowait \in BOOLEAN
  <2>1. cl.req.dur \in Durations /\ \A d \in Durations : m_tickets[c][d] \in Seq(TicketIds)
    BY <1>1, TypeFacts DEF MDLRequest
  <2>2. FindTicket(c, cl.req) \in Held(c)
    BY <1>4, <2>1, FindTicketFacts, HeldDef
  <2>. QED BY <1>3, <2>2, HeldFacts DEF MDLTicket
<1>6. hog' \in [Keys -> Nat]
  BY <1>1, <1>4 DEF Types, TypeOK
<1>. QED BY <1>2, <1>4, <1>5, <1>6, NewGrantStep

LEMMA GrantAtOnceStep ==
  ASSUME Structure, NEW c \in Contexts, NEW cl, Asking(c, cl), GrantAtOnce(c, cl)
  PROVE  Structure'
<1>1. Types /\ CallOK(c, cl) /\ cl.req.key \in Keys
  BY DEF Structure, Asking, CallOK, MDLRequest
<1>2. PICK id : id = NewTicket(c)
  OBVIOUS
<1>3. /\ Free(c) # {} /\ FirstUse(cl.req.key)
      /\ ticket' = [ticket EXCEPT ![id] =
           [key |-> cl.req.key, type |-> cl.req.type, nowait |-> FALSE]]
      /\ granted' = granted \cup {id} /\ PushFront(c, cl.req.dur, id)
      /\ UNCHANGED <<waiting, rwlock, loop, savepoint, release, graph>>
  BY <1>2 DEF GrantAtOnce, GotLock
<1>4. \/ Satisfied(c, cl, id)
      \/ /\ cl.op # "upgrade" /\ pc' = [pc EXCEPT ![c] = "mark"]
         /\ call' = [call EXCEPT ![c] = [cl EXCEPT !.mine = id]]
  BY <1>1, <1>2 DEF GrantAtOnce, Goto, CallOK
<1>5. hog' \in [Keys -> Nat]
  <2>1. hog \in [Keys -> Nat]
    BY <1>1 DEF Types, TypeOK
  <2>2. ObjectKeys \subseteq Keys
    BY DEF Keys
  <2>. QED BY <1>1, <1>3, <2>1, <2>2 DEF FirstUse
<1>. QED BY <1>2, <1>3, <1>4, <1>5, NewGrantStep

LEMMA FailedFacts ==
  ASSUME Structure, NEW c \in Contexts, NEW cl, CallOK(c, cl), Failed(c, cl),
         release[c] = <<>>
  PROVE  /\ call' \in [Contexts -> CallSet] /\ release' \in [Contexts -> Seq(TicketIds)]
         /\ \A d \in Contexts \ {c} : call'[d] = call[d] /\ release'[d] = release[d]
         /\ call'[c] = NoCall
         /\ Distinct(release'[c]) /\ ToSet(release'[c]) \subseteq Held(c)
         /\ savepoint[c] # None /\ savepoint[c].transaction # None =>
              savepoint[c].transaction \notin ToSet(release'[c])
<1>1. Types /\ ListsInv(c) /\ SavepointInv(c)
  BY DEF Structure, SelfInv
<1>2. NoCall \in CallSet
  BY DEF CallSet, NoCall, Ops
<1>3. /\ call' \in [Contexts -> CallSet] /\ call'[c] = NoCall
      /\ \A d \in Contexts \ {c} : call'[d] = call[d]
  BY <1>1, <1>2 DEF Failed, Types
<1>4. CASE cl.op = "batch"
  <2>. DEFINE list == AcquiredAfter(c, cl.svp)
  <2>1. list \in Seq(TicketIds) /\ Distinct(list) /\ ToSet(list) \subseteq Held(c)
    BY AcquiredAfterFacts
  <2>2. release' = [release EXCEPT ![c] = list]
    BY <1>4 DEF Failed
  <2>. HIDE DEF list
  <2>3. /\ release' \in [Contexts -> Seq(TicketIds)] /\ release'[c] = list
        /\ \A d \in Contexts \ {c} : release'[d] = release[d]
    BY <1>1, <2>1, <2>2 DEF Types, TypeOK
  <2>4. savepoint[c] # None => savepoint[c].transaction \notin ToSet(list)
    BY <1>4 DEF CallOK, list
  <2>. QED BY <1>3, <2>1, <2>3, <2>4
<1>5. CASE cl.op # "batch"
  <2>1. release' = release
    BY <1>5 DEF Failed
  <2>2. release' \in [Contexts -> Seq(TicketIds)]
    BY <1>1, <2>1 DEF Types, TypeOK
  <2>. QED BY <1>3, <2>1, <2>2, EmptyFacts
<1>. QED BY <1>4, <1>5

LEMMA RefusedStep ==
  ASSUME Structure, NEW c \in Contexts, NEW cl, Asking(c, cl), Refused(c, cl)
  PROVE  Structure'
<1>. USE DEF lock, graph
<1>1. Types /\ SelfInv(c) /\ CallOK(c, cl) /\ release[c] = <<>>
  BY DEF Structure, Asking
<1>2. ~Queued(c) /\ waiting_for[c] = None /\ \A k \in Keys : \A i \in WaitingOn(k) : Ctx(i) # c
  BY AskingFacts DEF Asking
<1>3. /\ Failed(c, cl) /\ pc' = [pc EXCEPT ![c] = "run"]
      /\ UNCHANGED <<ticket, lock, loop, m_tickets, savepoint, graph>>
  BY DEF Refused, Goto
<1>4. /\ call' \in [Contexts -> CallSet] /\ release' \in [Contexts -> Seq(TicketIds)]
      /\ \A d \in Contexts \ {c} : call'[d] = call[d] /\ release'[d] = release[d]
      /\ call'[c] = NoCall
      /\ Distinct(release'[c]) /\ ToSet(release'[c]) \subseteq Held(c)
      /\ savepoint[c] # None /\ savepoint[c].transaction # None =>
           savepoint[c].transaction \notin ToSet(release'[c])
  BY <1>1, <1>3, FailedFacts
<1>5. /\ pc' \in [Contexts -> Labels] /\ pc'[c] = "run"
      /\ \A d \in Contexts \ {c} : pc'[d] = pc[d]
  BY <1>1, <1>3 DEF Types, TypeOK, Labels
<1>6. Types'
  BY <1>1, <1>3, <1>4, <1>5 DEF Types, TypeOK
<1>7. Frame(c) /\ \A k \in Keys : Distinct(waiting'[k])
  BY <1>3, <1>4, <1>5 DEF Frame, WaitingOn, Structure
<1>8. Held(c)' = Held(c) /\ ~Queued(c)'
  BY <1>3, <1>5 DEF Held, Queued
<1>9. ListsInv(c)'
  BY <1>1, <1>2, <1>3, <1>4, <1>8 DEF SelfInv, ListsInv
<1>10. SavepointInv(c)'
  BY <1>1, <1>3, <1>4 DEF SelfInv, SavepointInv
<1>11. CallInv(c)'
  BY <1>4, <1>5, <1>8 DEF CallInv, AtSavepoint, NoCall
<1>12. LoopInv(c)' /\ AnswerInv(c)' /\ WaitForInv(c)'
  BY <1>2, <1>3, <1>5, <1>8 DEF LoopInv, AnswerInv, WaitForInv
<1>13. ASSUME NEW i \in TicketIds, Ctx(i) = c PROVE TicketInv(i)'
  BY <1>1, <1>3, <1>13 DEF SelfInv, TicketInv
<1>14. \A k \in Keys : \A i \in WaitingOn(k)' : Ctx(i) # c
  BY <1>2, <1>3 DEF WaitingOn
<1>15. SelfInv(c)'
  BY <1>9, <1>10, <1>11, <1>12, <1>13, <1>14 DEF SelfInv
<1>. QED BY <1>6, <1>7, <1>15, Assemble

LEMMA EnqueueStep ==
  ASSUME Structure, NEW c \in Contexts, NEW cl, Asking(c, cl), Enqueue(c, cl)
  PROVE  Structure'
<1>. USE DEF own
<1>1. Types /\ SelfInv(c) /\ CallOK(c, cl) /\ AtSavepoint(c, cl) /\ release[c] = <<>>
  BY DEF Structure, Asking
<1>2. ~Queued(c) /\ waiting_for[c] = None /\ \A k \in Keys : \A i \in WaitingOn(k) : Ctx(i) # c
  BY AskingFacts DEF Asking
<1>3. PICK id : id = NewTicket(c)
  OBVIOUS
<1>4. PICK new : new = [key |-> cl.req.key, type |-> cl.req.type, nowait |-> cl.req.nowait]
  OBVIOUS
<1>5. PICK nc : nc = [cl EXCEPT !.mine = id]
  OBVIOUS
<1>6. PICK k : k = cl.req.key
  OBVIOUS
<1>7. /\ Free(c) # {} /\ ticket' = [ticket EXCEPT ![id] = new] /\ rwlock[k] = None
      /\ waiting' = [waiting EXCEPT ![k] = Append(waiting[k], id)]
      /\ wait_status' = [wait_status EXCEPT ![c] = "EMPTY"]
      /\ call' = [call EXCEPT ![c] = nc] /\ pc' = [pc EXCEPT ![c] = "queued"]
      /\ UNCHANGED <<granted, hog, rwlock, loop, own, waiting_for, victim>>
  BY <1>3, <1>4, <1>5, <1>6 DEF Enqueue, GotLock, Goto
<1>8. id \in TicketIds /\ Ctx(id) = c /\ ticket[id] = None
  BY <1>3, <1>7, NewTicketFacts
<1>9. id \notin Held(c) /\ id \notin granted
  <2>1. TicketInv(id)
    BY <1>1, <1>8 DEF SelfInv
  <2>. QED BY <1>8, <2>1, HeldFacts DEF TicketInv
<1>10. /\ cl.req \in MDLRequest /\ cl \in CallSet /\ cl.req.type \in LockTypes(k)
       /\ k \in Keys
  BY <1>1, <1>6 DEF CallOK, MDLRequest
<1>11. new \in MDLTicket /\ new # None /\ new.key = k /\ new.type = cl.req.type
  BY <1>4, <1>6, <1>10, NoneAssumption DEF MDLTicket, MDLRequest
<1>12. nc \in CallSet /\ nc.op = cl.op /\ nc.req = cl.req /\ nc.mine = id /\ nc.svp = cl.svp
       /\ nc.target = cl.target
  BY <1>5, <1>8, <1>10 DEF CallSet
<1>13. /\ ticket' \in [TicketIds -> MDLTicket \cup {None}] /\ ticket'[id] = new
       /\ \A i \in TicketIds : i # id => ticket'[i] = ticket[i]
  BY <1>1, <1>7, <1>8, <1>11 DEF Types, TypeOK
<1>14. /\ call' \in [Contexts -> CallSet] /\ pc' \in [Contexts -> Labels]
       /\ wait_status' \in [Contexts -> WaitStatuses]
       /\ \A d \in Contexts \ {c} : /\ call'[d] = call[d] /\ pc'[d] = pc[d]
                                    /\ wait_status'[d] = wait_status[d]
       /\ call'[c] = nc /\ pc'[c] = "queued" /\ wait_status'[c] = "EMPTY"
  BY <1>1, <1>7, <1>12 DEF Types, TypeOK, Labels, WaitStatuses
<1>15. waiting[k] \in Seq(TicketIds) /\ Distinct(waiting[k]) /\ id \notin ToSet(waiting[k])
  <2>1. waiting[k] \in Seq(TicketIds) /\ Distinct(waiting[k])
    BY <1>1, <1>10, TypeFacts DEF Structure
  <2>2. id \notin ToSet(waiting[k])
    BY <1>2, <1>8, <1>10 DEF WaitingOn
  <2>. QED BY <2>1, <2>2
<1>16. PICK list : list = Append(waiting[k], id)
  OBVIOUS
<1>17. list \in Seq(TicketIds) /\ ToSet(list) = ToSet(waiting[k]) \cup {id} /\ Distinct(list)
  BY <1>8, <1>15, <1>16, AppendFacts
<1>18. /\ waiting' \in [Keys -> Seq(TicketIds)] /\ waiting'[k] = list
       /\ \A j \in Keys : j # k => waiting'[j] = waiting[j]
  BY <1>1, <1>7, <1>10, <1>16, <1>17 DEF Types, TypeOK
<1>19. \A j \in Keys : WaitingOn(j)' = IF j = k THEN WaitingOn(j) \cup {id} ELSE WaitingOn(j)
  BY <1>17, <1>18 DEF WaitingOn
<1>20. Types'
  BY <1>1, <1>7, <1>13, <1>14, <1>18 DEF Types, TypeOK
<1>21. Frame(c)
  <2>1. \A i \in TicketIds : Ctx(i) # c => i # id
    BY <1>8
  <2>2. \A j \in Keys : rwlock[j] \notin {None, c} => waiting'[j] = waiting[j]
    BY <1>7, <1>18
  <2>. QED BY <1>7, <1>13, <1>14, <1>19, <2>1, <2>2 DEF Frame
<1>22. \A j \in Keys : Distinct(waiting'[j])
  BY <1>17, <1>18 DEF Structure
<1>23. Held(c)' = Held(c) /\ Queued(c)'
  BY <1>7, <1>14 DEF Held, Queued
<1>24. ListsInv(c)'
  <2>1. ListsInv(c)
    BY <1>1 DEF SelfInv
  <2>2. \A i \in Held(c)' : Ctx(i) = c /\ i \in granted' /\ i # call'[c].mine
    BY <1>7, <1>9, <1>12, <1>14, <1>23, <2>1 DEF ListsInv
  <2>3. ASSUME NEW i \in TicketIds, Ctx(i) = c, ticket'[i] # None
        PROVE  i \in Held(c)' \/ call'[c].mine = i
    BY <1>2, <1>12, <1>13, <1>14, <1>23, <2>1, <2>3 DEF ListsInv
  <2>. QED BY <1>7, <1>23, <2>1, <2>2, <2>3 DEF ListsInv
<1>25. CallInv(c)'
  <2>1. IsFor(id, nc)'
    BY <1>6, <1>8, <1>11, <1>12, <1>13 DEF IsFor
  <2>2. CallOK(c, nc)' /\ AtSavepoint(c, nc)'
    <3>1. cl.op = "upgrade" => ticket'[cl.target] = ticket[cl.target]
      BY <1>1, <1>9, <1>13, HeldFacts DEF CallOK
    <3>2. AtSavepoint(c, nc)'
      BY <1>1, <1>7, <1>12 DEF AtSavepoint
    <3>. QED BY <1>1, <1>7, <1>12, <1>23, <3>1, <3>2 DEF CallOK, AcquiredAfter
  <2>. QED BY <1>1, <1>7, <1>8, <1>12, <1>14, <2>1, <2>2 DEF CallInv
<1>26. SavepointInv(c)' /\ LoopInv(c)' /\ WaitForInv(c)'
  BY <1>1, <1>2, <1>7, <1>14 DEF SelfInv, SavepointInv, LoopInv, WaitForInv
<1>27. AnswerInv(c)'
  BY <1>7, <1>9, <1>10, <1>11, <1>12, <1>13, <1>14, <1>19 DEF AnswerInv
<1>28. ASSUME NEW i \in TicketIds, Ctx(i) = c PROVE TicketInv(i)'
  BY <1>1, <1>7, <1>9, <1>10, <1>11, <1>13, <1>28 DEF SelfInv, TicketInv
<1>29. ASSUME NEW j \in Keys, NEW i \in WaitingOn(j)', Ctx(i) = c PROVE WaiterInv(j, i)'
  <2>1. i = id /\ j = k
    BY <1>2, <1>19, <1>29
  <2>. QED BY <1>7, <1>8, <1>9, <1>11, <1>12, <1>13, <1>14, <1>23, <2>1 DEF WaiterInv
<1>30. SelfInv(c)'
  BY <1>24, <1>25, <1>26, <1>27, <1>28, <1>29 DEF SelfInv
<1>. QED BY <1>20, <1>21, <1>22, <1>30, Assemble

LEMMA AttemptStep ==
  ASSUME Structure, NEW c \in Contexts, NEW cl, Asking(c, cl), Attempt(c, cl)
  PROVE  Structure'
BY ReuseTicketStep, CloneTicketStep, GrantAtOnceStep, RefusedStep, EnqueueStep
   DEF Attempt, Conflict, OutOfMemory

LEMMA AcquireLockAsks ==
  ASSUME Structure, NEW c \in Contexts, NEW r \in Requests, NEW op \in {"acquire", "try"},
         AcquireLock(c, op, r)
  PROVE  \E new : new.op # "batch" /\ Asking(c, new) /\ Attempt(c, new)
<1>1. PICK cl : cl = [NoCall EXCEPT !.op = op, !.req = r]
  OBVIOUS
<1>2. Idle(c) /\ Attempt(c, cl)
  BY <1>1 DEF AcquireLock
<1>3. r \in MDLRequest /\ r.type \in LockTypes(r.key)
  BY RequestsAssumption
<1>4. cl \in CallSet /\ cl.op \in {"acquire", "try"} /\ cl.req = r
  BY <1>1, <1>3 DEF NoCall, CallSet, Ops
<1>5. Asking(c, cl)
  BY <1>2, <1>3, <1>4 DEF Asking, CallOK, AtSavepoint, Idle, At
<1>. QED BY <1>2, <1>4, <1>5

LEMMA AcquireLocksStep ==
  ASSUME Structure, NEW c \in Contexts, NEW b \in Batches, AcquireLocks(c, b)
  PROVE  Structure'
<1>. USE DEF lock, own, graph
<1>1. Types /\ SelfInv(c)
  BY DEF Structure
<1>2. PICK svp : svp = MDLSavepoint(c)
  OBVIOUS
<1>3. PICK held : held = Held(c)
  OBVIOUS
<1>4. PICK r \in First(b) :
        call' = [call EXCEPT ![c] =
          [NoCall EXCEPT !.op = "batch", !.req = r, !.rest = b \ {r}, !.svp = svp,
                         !.asked = b, !.held = held]]
  BY <1>2, <1>3 DEF AcquireLocks
<1>5. /\ pc[c] = "run" /\ release[c] = <<>> /\ pc' = [pc EXCEPT ![c] = "ask"]
      /\ UNCHANGED <<ticket, lock, loop, own, graph>>
  BY DEF AcquireLocks, Idle, At, Goto
<1>6. PICK cl : cl = [NoCall EXCEPT !.op = "batch", !.req = r, !.rest = b \ {r},
                                    !.svp = svp, !.asked = b, !.held = held]
  OBVIOUS
<1>7. svp \in MDLSavepoints /\ held \subseteq TicketIds
  BY <1>1, <1>2, <1>3, MDLSavepointType, TypeFacts
<1>8. b \subseteq Requests /\ r \in b /\ r \in MDLRequest /\ r.type \in LockTypes(r.key)
  BY RequestsAssumption DEF First
<1>9. cl \in CallSet /\ cl.op = "batch" /\ cl.req = r /\ cl.svp = svp
  BY <1>6, <1>7, <1>8 DEF NoCall, CallSet, Ops
<1>10. ToSet(AcquiredAfter(c, svp)') = {}
  <2>1. AcquiredAfter(c, svp)' = AcquiredAfter(c, svp)
    BY <1>5 DEF AcquiredAfter
  <2>. QED BY <1>2, <2>1, NothingAcquired
<1>11. CallOK(c, cl)' /\ AtSavepoint(c, cl)'
  BY <1>7, <1>8, <1>9, <1>10 DEF CallOK, AtSavepoint
<1>12. /\ call' \in [Contexts -> CallSet] /\ pc' \in [Contexts -> Labels]
       /\ call'[c] = cl /\ pc'[c] = "ask"
       /\ \A d \in Contexts \ {c} : call'[d] = call[d] /\ pc'[d] = pc[d]
  <2>1. call \in [Contexts -> CallSet] /\ pc \in [Contexts -> Labels] /\ "ask" \in Labels
    BY <1>1 DEF Types, TypeOK, Labels
  <2>. QED BY <1>4, <1>5, <1>6, <1>9, <2>1
<1>13. Types'
  BY <1>1, <1>5, <1>12 DEF Types, TypeOK
<1>14. Frame(c) /\ \A k \in Keys : Distinct(waiting'[k])
  BY <1>5, <1>12 DEF Frame, WaitingOn, Structure
<1>15. ~Queued(c) /\ ~Queued(c)' /\ Held(c)' = Held(c) /\ waiting_for[c] = None
       /\ \A k \in Keys : \A id \in WaitingOn(k) : Ctx(id) # c
  BY <1>5, <1>12, AskingFacts DEF Queued, Held
<1>16. ListsInv(c)' /\ SavepointInv(c)'
  BY <1>1, <1>5, <1>15 DEF SelfInv, ListsInv, SavepointInv
<1>17. CallInv(c)' /\ LoopInv(c)' /\ AnswerInv(c)' /\ WaitForInv(c)'
  BY <1>5, <1>11, <1>12, <1>15 DEF CallInv, LoopInv, AnswerInv, WaitForInv
<1>18. ASSUME NEW i \in TicketIds, Ctx(i) = c PROVE TicketInv(i)'
  BY <1>1, <1>5, <1>18 DEF SelfInv, TicketInv
<1>19. \A k \in Keys : \A i \in WaitingOn(k)' : Ctx(i) # c
  BY <1>5, <1>15 DEF WaitingOn
<1>20. SelfInv(c)'
  BY <1>16, <1>17, <1>18, <1>19 DEF SelfInv
<1>. QED BY <1>13, <1>14, <1>20, Assemble

LEMMA AcquireNextAsks ==
  ASSUME Structure, NEW c \in Contexts, AcquireNext(c)
  PROVE  \E new : Asking(c, new) /\ Attempt(c, new)
<1>1. PICK cl : cl = call[c]
  OBVIOUS
<1>2. pc[c] = "ask" /\ Attempt(c, cl) /\ CallInv(c)
  BY <1>1 DEF AcquireNext, At, Structure, SelfInv
<1>3. Asking(c, cl)
  BY <1>1, <1>2 DEF Asking, CallInv
<1>. QED BY <1>2, <1>3

LEMMA UpgradeSharedLockAsks ==
  ASSUME Structure, NEW c \in Contexts, NEW id \in Held(c), UpgradeSharedLock(c, id)
  PROVE  \E new : new.op # "batch" /\ Asking(c, new) /\ Attempt(c, new)
<1>1. PICK r : r = [key |-> ticket[id].key, type |-> "X", dur |-> "transaction",
                    nowait |-> FALSE]
  OBVIOUS
<1>2. PICK svp : svp = MDLSavepoint(c)
  OBVIOUS
<1>3. PICK cl : cl = [NoCall EXCEPT !.op = "upgrade", !.req = r, !.target = id, !.svp = svp]
  OBVIOUS
<1>4. Idle(c) /\ ticket[id].type \in {"SNW", "SNRW"} /\ Attempt(c, cl)
  BY <1>1, <1>2, <1>3 DEF UpgradeSharedLock
<1>5. id \in TicketIds /\ ticket[id] \in MDLTicket
  BY HeldFacts
<1>6. r \in MDLRequest /\ r.type = "X" /\ r.dur = "transaction" /\ ~r.nowait
      /\ r.key = ticket[id].key
  BY <1>1, <1>5 DEF MDLRequest, MDLTicket, MDLTypeSet, Durations
<1>7. r.type \in LockTypes(r.key)
  BY <1>6 DEF LockTypes, MDLTypeSet
<1>8. svp \in MDLSavepoints /\ svp.statement = FrontOf(m_tickets[c]["statement"])
      /\ svp.transaction = FrontOf(m_tickets[c]["transaction"])
  BY <1>2, MDLSavepointType DEF MDLSavepoint
<1>9. cl \in CallSet /\ cl.op = "upgrade" /\ cl.req = r /\ cl.target = id /\ cl.svp = svp
  BY <1>3, <1>5, <1>6, <1>8 DEF NoCall, CallSet, Ops
<1>10. Asking(c, cl)
  BY <1>4, <1>6, <1>7, <1>8, <1>9 DEF Asking, CallOK, AtSavepoint, Idle, At
<1>. QED BY <1>4, <1>9, <1>10

LEMMA MarkNoWaitStep ==
  ASSUME Structure, NEW c \in Contexts, MarkNoWait(c) PROVE Structure'
<1>. USE DEF lock, own, graph
<1>1. Types /\ SelfInv(c)
  BY DEF Structure
<1>2. PICK cl : cl = call[c]
  OBVIOUS
<1>3. PICK id : id = cl.mine
  OBVIOUS
<1>4. /\ pc[c] = "mark" /\ ticket' = [ticket EXCEPT ![id].nowait = TRUE]
      /\ Satisfied(c, cl, id) /\ UNCHANGED <<lock, loop, own, graph>>
  BY <1>2, <1>3 DEF MarkNoWait, At
<1>5. /\ CallOK(c, cl) /\ release[c] = <<>> /\ id \in Held(c) /\ cl.op # "upgrade"
      /\ cl \in CallSet
  BY <1>1, <1>2, <1>3, <1>4 DEF SelfInv, CallInv, CallOK
<1>6. id \in TicketIds /\ ticket[id] \in MDLTicket /\ Ctx(id) = c /\ id \in granted
  BY <1>5, HeldFacts
<1>7. /\ ticket' \in [TicketIds -> MDLTicket \cup {None}]
      /\ \A i \in TicketIds : i # id => ticket'[i] = ticket[i]
      /\ ticket'[id] \in MDLTicket
      /\ ticket'[id].key = ticket[id].key /\ ticket'[id].type = ticket[id].type
  <2>1. ticket \in [TicketIds -> MDLTicket \cup {None}]
    BY <1>1 DEF Types, TypeOK
  <2>2. PICK t : t = [ticket[id] EXCEPT !.nowait = TRUE]
    OBVIOUS
  <2>3. t \in MDLTicket /\ t.key = ticket[id].key /\ t.type = ticket[id].type
    BY <1>6, <2>2 DEF MDLTicket
  <2>4. ticket' = [ticket EXCEPT ![id] = t]
    BY <1>4, <2>2
  <2>. QED BY <1>6, <2>1, <2>3, <2>4
<1>8. Held(c)' = Held(c) /\ waiting_for'[c] = None /\ ~Queued(c)
  BY <1>1, <1>4 DEF Held, Queued, SelfInv, WaitForInv
<1>9. CallOK(c, cl)'
  BY <1>4, <1>5 DEF CallOK, AcquiredAfter
<1>10. /\ call' \in [Contexts -> CallSet] /\ pc' \in [Contexts -> Labels]
       /\ \A d \in Contexts \ {c} : call'[d] = call[d] /\ pc'[d] = pc[d]
  BY <1>1, <1>4, <1>5, <1>6, SatisfiedFacts
<1>11. release'[c] = <<>>
  BY <1>4, <1>5
<1>12. CallInv(c)' /\ ~Queued(c)' /\ LoopInv(c)' /\ AnswerInv(c)' /\ WaitForInv(c)'
  BY <1>1, <1>4, <1>5, <1>6, <1>8, <1>9, <1>11, SatisfiedCall
<1>13. Types'
  BY <1>1, <1>4, <1>7, <1>10 DEF Types, TypeOK
<1>14. Frame(c) /\ \A k \in Keys : Distinct(waiting'[k])
  BY <1>4, <1>6, <1>7, <1>10 DEF Frame, WaitingOn, Structure
<1>15. ListsInv(c)' /\ SavepointInv(c)'
  <2>1. \A i \in TicketIds : ticket'[i] # None => ticket[i] # None \/ i = id
    BY <1>7
  <2>. QED BY <1>1, <1>4, <1>5, <1>8, <1>12, <2>1 DEF SelfInv, ListsInv, SavepointInv
<1>16. ASSUME NEW i \in TicketIds, Ctx(i) = c PROVE TicketInv(i)'
  <2>1. CASE i = id
    BY <1>5, <1>7, <2>1, HeldFacts, NoneAssumption DEF TicketInv
  <2>2. CASE i # id
    BY <1>1, <1>4, <1>7, <1>16, <2>2 DEF SelfInv, TicketInv
  <2>. QED BY <2>1, <2>2
<1>17. \A k \in Keys : \A i \in WaitingOn(k)' : Ctx(i) # c
  BY <1>1, <1>4, <1>8 DEF WaitingOn, SelfInv, WaiterInv
<1>18. SelfInv(c)'
  BY <1>12, <1>15, <1>16, <1>17 DEF SelfInv
<1>. QED BY <1>13, <1>14, <1>18, Assemble

LEMMA WaitGrantedStep ==
  ASSUME Structure, NEW c \in Contexts, WaitGranted(c) PROVE Structure'
<1>1. Types /\ SelfInv(c)
  BY DEF Structure
<1>2. PICK cl : cl = call[c]
  OBVIOUS
<1>3. PICK id : id = cl.mine
  OBVIOUS
<1>4. /\ pc[c] = "finish" /\ wait_status[c] = "GRANTED"
      /\ PushFront(c, cl.req.dur, id) /\ Satisfied(c, cl, id)
      /\ UNCHANGED <<ticket, lock, loop, savepoint, release, waiting_for, victim>>
      /\ \/ SetStatus({Ctx(w) : w \in WaitingOn(ticket[id].key)}, "ABORTED")
         \/ wait_status' = wait_status
  BY <1>2, <1>3 DEF WaitGranted, At
<1>5. Queued(c)
  BY <1>4 DEF Queued
<1>6. /\ CallOK(c, cl) /\ AtSavepoint(c, cl) /\ release[c] = <<>>
      /\ IsFor(id, cl) /\ Ctx(id) = c /\ waiting_for[c] = None
  BY <1>1, <1>2, <1>3, <1>4, <1>5 DEF SelfInv, CallInv, WaitForInv
<1>7. id \in TicketIds /\ ticket[id] \in MDLTicket /\ ticket[id].key = cl.req.key
      /\ ticket[id].type = cl.req.type
  BY <1>1, <1>6, TypeFacts DEF IsFor
<1>8. id \in granted /\ id \notin Held(c)
  BY <1>1, <1>2, <1>3, <1>4, <1>5 DEF SelfInv, AnswerInv, ListsInv
<1>9. \A k \in Keys : \A i \in WaitingOn(k) : Ctx(i) # c
  BY <1>1, <1>2, <1>3, <1>8 DEF SelfInv, WaiterInv
<1>10. \A i \in TicketIds : Ctx(i) = c /\ ticket[i] # None => i \in Held(c) \/ i = id
  BY <1>1, <1>2, <1>3 DEF SelfInv, ListsInv
<1>11. PICK new : new = ticket[id]
  OBVIOUS
<1>12. ticket' = [ticket EXCEPT ![id] = new] /\ granted' = granted \cup {id}
       /\ hog' \in [Keys -> Nat]
       /\ UNCHANGED <<waiting, rwlock, loop, savepoint, release, waiting_for, victim>>
  <2>1. ticket \in [TicketIds -> MDLTicket \cup {None}] /\ hog \in [Keys -> Nat]
    BY <1>1 DEF Types, TypeOK
  <2>. QED BY <1>4, <1>7, <1>8, <1>11, <2>1 DEF lock
<1>13. /\ wait_status' \in [Contexts -> WaitStatuses]
       /\ \A d \in Contexts \ {c} : wait_status'[d] = wait_status[d]
            \/ (wait_status[d] = "EMPTY" /\ wait_status'[d] # "GRANTED")
  <2>1. wait_status \in [Contexts -> WaitStatuses]
    BY <1>1 DEF Types, TypeOK
  <2>2. CASE SetStatus({Ctx(w) : w \in WaitingOn(ticket[id].key)}, "ABORTED")
    <3>1. PICK X : X = {Ctx(w) : w \in WaitingOn(ticket[id].key)}
      OBVIOUS
    <3>2. SetStatus(X, "ABORTED")
      BY <2>2, <3>1
    <3>. QED BY <2>1, <3>2 DEF SetStatus, WaitStatuses
  <2>. QED BY <1>4, <2>1, <2>2
<1>. QED BY <1>4, <1>6, <1>7, <1>8, <1>9, <1>10, <1>11, <1>12, <1>13, TicketGained

-----------------------------------------------------------------------------
(* Tickets are destroyed.                                                  *)

LEMMA StartLoopFacts ==
  ASSUME Types, NEW c \in Contexts, NEW k \in Keys, NEW waiters \in Seq(TicketIds),
         StartLoop(c, k, waiters)
  PROVE  /\ rwlock' \in [Keys -> Contexts \cup {None}] /\ rwlock'[k] = c
         /\ \A j \in Keys : j # k => rwlock'[j] = rwlock[j]
         /\ loop' \in [Contexts ->
              [key : Keys \cup {None}, rest : Seq(TicketIds), skip : BOOLEAN]]
         /\ \A d \in Contexts \ {c} : loop'[d] = loop[d] /\ pc'[d] = pc[d]
         /\ loop'[c].key = k /\ loop'[c].rest = waiters
         /\ pc' \in [Contexts -> Labels] /\ pc'[c] = "resched"
<1>1. PICK skip : skip = (HogLimitReached(k) /\ WeakAmong(k, waiters))
  OBVIOUS
<1>2. skip \in BOOLEAN
  BY <1>1
<1>3. PICK l : l = [key |-> k, rest |-> waiters, skip |-> skip]
  OBVIOUS
<1>4. l \in [key : Keys \cup {None}, rest : Seq(TicketIds), skip : BOOLEAN]
      /\ l.key = k /\ l.rest = waiters
  BY <1>2, <1>3
<1>5. /\ rwlock' = [rwlock EXCEPT ![k] = c] /\ loop' = [loop EXCEPT ![c] = l]
      /\ pc' = [pc EXCEPT ![c] = "resched"]
  BY <1>1, <1>3 DEF StartLoop, Goto
<1>6. /\ rwlock \in [Keys -> Contexts \cup {None}]
      /\ loop \in [Contexts ->
              [key : Keys \cup {None}, rest : Seq(TicketIds), skip : BOOLEAN]]
      /\ pc \in [Contexts -> Labels] /\ "resched" \in Labels
  BY DEF Types, TypeOK, Labels
<1>. QED BY <1>4, <1>5, <1>6

LEMMA RemoveTicketFacts ==
  ASSUME Structure, NEW c \in Contexts, NEW id \in TicketIds, ticket[id] # None,
         Ctx(id) = c, RemoveTicket(c, id)
  PROVE  /\ ticket' \in [TicketIds -> MDLTicket \cup {None}] /\ ticket'[id] = None
         /\ \A i \in TicketIds : i # id => ticket'[i] = ticket[i]
         /\ granted' = granted \ {id} /\ hog' = hog
         /\ waiting' \in [Keys -> Seq(TicketIds)]
         /\ \A j \in Keys : WaitingOn(j)' = WaitingOn(j) \ {id} /\ Distinct(waiting'[j])
         /\ rwlock' \in [Keys -> Contexts \cup {None}]
         /\ \A j \in Keys : rwlock[j] \notin {None, c} =>
              rwlock'[j] = rwlock[j] /\ waiting'[j] = waiting[j]
         /\ loop' \in [Contexts ->
              [key : Keys \cup {None}, rest : Seq(TicketIds), skip : BOOLEAN]]
         /\ pc' \in [Contexts -> Labels] /\ pc'[c] \in {"run", "resched"}
         /\ \A d \in Contexts \ {c} : loop'[d] = loop[d] /\ pc'[d] = pc[d]
         /\ LoopInv(c)'
<1>1. Types /\ SelfInv(c)
  BY DEF Structure
<1>2. PICK k : k = ticket[id].key
  OBVIOUS
<1>3. PICK others : others = RemoveFirst(waiting[k], id)
  OBVIOUS
<1>4. /\ rwlock[k] = None /\ granted' = granted \ {id} /\ hog' = hog
      /\ waiting' = [waiting EXCEPT ![k] = others]
      /\ ticket' = [ticket EXCEPT ![id] = None]
      /\ \/ pc' = [pc EXCEPT ![c] = "run"] /\ UNCHANGED <<rwlock, loop>>
         \/ StartLoop(c, k, others)
  BY <1>2, <1>3 DEF RemoveTicket, Goto
<1>5. k \in Keys
  BY <1>1, <1>2, TypeFacts DEF MDLTicket
<1>6. /\ ticket' \in [TicketIds -> MDLTicket \cup {None}] /\ ticket'[id] = None
      /\ \A i \in TicketIds : i # id => ticket'[i] = ticket[i]
  BY <1>1, <1>4 DEF Types, TypeOK
<1>7. waiting[k] \in Seq(TicketIds) /\ Distinct(waiting[k])
  BY <1>1, <1>5, TypeFacts DEF Structure
<1>8. others \in Seq(TicketIds) /\ Distinct(others) /\ ToSet(others) = ToSet(waiting[k]) \ {id}
  BY <1>3, <1>7, RemoveFirstFacts
<1>9. /\ waiting' \in [Keys -> Seq(TicketIds)] /\ waiting'[k] = others
      /\ \A j \in Keys : j # k => waiting'[j] = waiting[j]
  BY <1>1, <1>4, <1>5, <1>8 DEF Types, TypeOK
<1>10. ASSUME NEW j \in Keys PROVE WaitingOn(j)' = WaitingOn(j) \ {id} /\ Distinct(waiting'[j])
  <2>1. CASE j = k
    BY <1>8, <1>9, <2>1 DEF WaitingOn
  <2>2. CASE j # k
    <3>1. id \notin WaitingOn(j)
      BY <1>1, <1>2, <2>2 DEF SelfInv, WaiterInv
    <3>2. waiting'[j] = waiting[j]
      BY <1>9, <2>2
    <3>. QED BY <3>1, <3>2 DEF WaitingOn, Structure
  <2>. QED BY <2>1, <2>2
<1>11. CASE pc' = [pc EXCEPT ![c] = "run"] /\ UNCHANGED <<rwlock, loop>>
  <2>1. /\ pc' \in [Contexts -> Labels] /\ pc'[c] = "run"
        /\ \A d \in Contexts \ {c} : pc'[d] = pc[d]
    BY <1>1, <1>11 DEF Types, TypeOK, Labels
  <2>2. LoopInv(c)'
    BY <2>1 DEF LoopInv
  <2>3. \A j \in Keys : rwlock[j] \notin {None, c} => waiting'[j] = waiting[j]
    BY <1>4, <1>9
  <2>4. /\ rwlock' \in [Keys -> Contexts \cup {None}]
        /\ loop' \in [Contexts ->
              [key : Keys \cup {None}, rest : Seq(TicketIds), skip : BOOLEAN]]
    BY <1>1, <1>11 DEF Types, TypeOK
  <2>. QED BY <1>4, <1>6, <1>9, <1>10, <1>11, <2>1, <2>2, <2>3, <2>4
<1>12. CASE StartLoop(c, k, others)
  <2>1. /\ rwlock' \in [Keys -> Contexts \cup {None}] /\ rwlock'[k] = c
        /\ \A j \in Keys : j # k => rwlock'[j] = rwlock[j]
        /\ loop' \in [Contexts ->
              [key : Keys \cup {None}, rest : Seq(TicketIds), skip : BOOLEAN]]
        /\ \A d \in Contexts \ {c} : loop'[d] = loop[d] /\ pc'[d] = pc[d]
        /\ loop'[c].key = k /\ loop'[c].rest = others
        /\ pc' \in [Contexts -> Labels] /\ pc'[c] = "resched"
    BY <1>1, <1>5, <1>8, <1>12, StartLoopFacts
  <2>2. LoopInv(c)'
    <3>1. ToSet(others) = WaitingOn(k)'
      BY <1>9 DEF WaitingOn
    <3>. QED BY <1>5, <1>8, <2>1, <3>1 DEF LoopInv
  <2>3. \A j \in Keys : rwlock[j] \notin {None, c} =>
          rwlock'[j] = rwlock[j] /\ waiting'[j] = waiting[j]
    BY <1>4, <1>9, <2>1
  <2>. QED BY <1>4, <1>6, <1>9, <1>10, <2>1, <2>2, <2>3
<1>. QED BY <1>4, <1>11, <1>12

LEMMA TicketLost ==
  ASSUME Structure, NEW c \in Contexts, NEW id \in TicketIds, ticket[id] # None,
         Ctx(id) = c, RemoveTicket(c, id), UNCHANGED <<savepoint, graph>>,
         m_tickets' \in [Contexts -> [Durations -> Seq(TicketIds)]],
         release' \in [Contexts -> Seq(TicketIds)], call' \in [Contexts -> CallSet],
         \A d \in Contexts \ {c} : /\ m_tickets'[d] = m_tickets[d]
                                   /\ release'[d] = release[d] /\ call'[d] = call[d],
         call'[c] = NoCall, waiting_for[c] = None,
         \A d \in Durations : Distinct(m_tickets'[c][d]),
         \A d, e \in Durations :
           d # e => ToSet(m_tickets'[c][d]) \cap ToSet(m_tickets'[c][e]) = {},
         Held(c)' = Held(c) \ {id},
         Distinct(release'[c]), ToSet(release'[c]) \subseteq Held(c)',
         \A i \in TicketIds : Ctx(i) = c /\ ticket[i] # None => i \in Held(c) \/ i = id,
         \A k \in Keys : \A i \in WaitingOn(k) : Ctx(i) = c => i = id,
         SavepointInv(c)'
  PROVE  Structure'
<1>. USE DEF graph
<1>1. Types /\ SelfInv(c)
  BY DEF Structure
<1>2. /\ ticket' \in [TicketIds -> MDLTicket \cup {None}] /\ ticket'[id] = None
      /\ \A i \in TicketIds : i # id => ticket'[i] = ticket[i]
      /\ granted' = granted \ {id} /\ hog' = hog
      /\ waiting' \in [Keys -> Seq(TicketIds)]
      /\ \A j \in Keys : WaitingOn(j)' = WaitingOn(j) \ {id} /\ Distinct(waiting'[j])
      /\ rwlock' \in [Keys -> Contexts \cup {None}]
      /\ \A j \in Keys : rwlock[j] \notin {None, c} =>
           rwlock'[j] = rwlock[j] /\ waiting'[j] = waiting[j]
      /\ loop' \in [Contexts ->
           [key : Keys \cup {None}, rest : Seq(TicketIds), skip : BOOLEAN]]
      /\ pc' \in [Contexts -> Labels] /\ pc'[c] \in {"run", "resched"}
      /\ \A d \in Contexts \ {c} : loop'[d] = loop[d] /\ pc'[d] = pc[d]
      /\ LoopInv(c)'
  BY RemoveTicketFacts
<1>3. Types'
  BY <1>1, <1>2 DEF Types, TypeOK
<1>4. Frame(c)
  BY <1>2 DEF Frame
<1>5. ~Queued(c)'
  BY <1>2 DEF Queued
<1>6. ListsInv(c)'
  <2>1. \A i \in Held(c)' : Ctx(i) = c /\ i \in granted'
    BY <1>1, <1>2 DEF SelfInv, ListsInv
  <2>2. \A i \in TicketIds : Ctx(i) = c /\ ticket'[i] # None => i \in Held(c)'
    BY <1>2
  <2>. QED BY <1>5, <2>1, <2>2 DEF ListsInv
<1>7. CallInv(c)' /\ AnswerInv(c)' /\ WaitForInv(c)'
  BY <1>2, <1>5 DEF CallInv, AnswerInv, WaitForInv, AtSavepoint, NoCall
<1>8. ASSUME NEW i \in TicketIds, Ctx(i) = c PROVE TicketInv(i)'
  BY <1>1, <1>2, <1>8 DEF SelfInv, TicketInv
<1>9. \A k \in Keys : \A i \in WaitingOn(k)' : Ctx(i) # c
  BY <1>2
<1>10. SelfInv(c)'
  BY <1>2, <1>6, <1>7, <1>8, <1>9 DEF SelfInv
<1>. QED BY <1>2, <1>3, <1>4, <1>10, Assemble

LEMMA WaitFailedStep ==
  ASSUME Structure, NEW c \in Contexts, WaitFailed(c) PROVE Structure'
<1>1. Types /\ SelfInv(c)
  BY DEF Structure
<1>2. PICK cl : cl = call[c]
  OBVIOUS
<1>3. PICK id : id = cl.mine
  OBVIOUS
<1>4. /\ pc[c] = "finish" /\ wait_status[c] # "GRANTED" /\ RemoveTicket(c, id)
      /\ Failed(c, cl) /\ UNCHANGED <<m_tickets, savepoint, graph>>
  BY <1>2, <1>3 DEF WaitFailed, At
<1>5. Queued(c)
  BY <1>4 DEF Queued
<1>6. /\ CallOK(c, cl) /\ release[c] = <<>> /\ IsFor(id, cl) /\ Ctx(id) = c
      /\ waiting_for[c] = None
  BY <1>1, <1>2, <1>3, <1>4, <1>5 DEF SelfInv, CallInv, WaitForInv
<1>7. id \in TicketIds /\ ticket[id] # None
  BY <1>6 DEF IsFor
<1>8. id \notin Held(c)
  BY <1>1, <1>2, <1>3, <1>5 DEF SelfInv, ListsInv
<1>9. Held(c)' = Held(c)
  BY <1>4 DEF Held
<1>10. \A k \in Keys : \A i \in WaitingOn(k) : Ctx(i) = c => i = id
  BY <1>1, <1>2, <1>3 DEF SelfInv, WaiterInv
<1>11. \A i \in TicketIds : Ctx(i) = c /\ ticket[i] # None => i \in Held(c) \/ i = id
  BY <1>1, <1>2, <1>3 DEF SelfInv, ListsInv
<1>12. /\ call' \in [Contexts -> CallSet] /\ release' \in [Contexts -> Seq(TicketIds)]
       /\ \A d \in Contexts \ {c} : call'[d] = call[d] /\ release'[d] = release[d]
       /\ call'[c] = NoCall
       /\ Distinct(release'[c]) /\ ToSet(release'[c]) \subseteq Held(c)
       /\ savepoint[c] # None /\ savepoint[c].transaction # None =>
            savepoint[c].transaction \notin ToSet(release'[c])
  BY <1>4, <1>6, FailedFacts
<1>13. SavepointInv(c)'
  BY <1>1, <1>4, <1>12 DEF SelfInv, SavepointInv
<1>14. m_tickets' \in [Contexts -> [Durations -> Seq(TicketIds)]] /\ m_tickets' = m_tickets
  BY <1>1, <1>4 DEF Types, TypeOK
<1>15. /\ \A d \in Durations : Distinct(m_tickets'[c][d])
       /\ \A d, e \in Durations :
            d # e => ToSet(m_tickets'[c][d]) \cap ToSet(m_tickets'[c][e]) = {}
  BY <1>1, <1>14 DEF SelfInv, ListsInv
<1>16. Held(c)' = Held(c) \ {id} /\ ToSet(release'[c]) \subseteq Held(c)'
  BY <1>8, <1>9, <1>12
<1>. QED BY <1>4, <1>6, <1>7, <1>10, <1>11, <1>12, <1>13, <1>14, <1>15, <1>16, TicketLost

LEMMA ReleaseNextStep ==
  ASSUME Structure, NEW c \in Contexts, ReleaseNext(c) PROVE Structure'
<1>1. Types /\ SelfInv(c)
  BY DEF Structure
<1>2. PICK id : id = Head(release[c])
  OBVIOUS
<1>3. /\ pc[c] = "run" /\ release[c] # <<>> /\ RemoveTicket(c, id)
      /\ release' = [release EXCEPT ![c] = Tail(release[c])]
      /\ m_tickets' = [m_tickets EXCEPT ![c] =
           [d \in Durations |-> RemoveFirst(m_tickets[c][d], id)]]
      /\ UNCHANGED <<savepoint, graph, call>>
  BY <1>2 DEF ReleaseNext, At
<1>4. PICK rest : rest = Tail(release[c])
  OBVIOUS
<1>5. /\ rest \in Seq(TicketIds) /\ id \in ToSet(release[c])
      /\ ToSet(release[c]) = ToSet(rest) \cup {id} /\ Distinct(rest) /\ id \notin ToSet(rest)
  <2>1. release[c] \in Seq(TicketIds) /\ Distinct(release[c])
    BY <1>1, TypeFacts DEF SelfInv, ListsInv
  <2>. QED BY <1>2, <1>3, <1>4, <2>1, TailFacts
<1>6. id \in Held(c) /\ ToSet(rest) \subseteq Held(c) \ {id}
  BY <1>1, <1>5 DEF SelfInv, ListsInv
<1>7. id \in TicketIds /\ Ctx(id) = c /\ ticket[id] # None
  BY <1>6, HeldFacts
<1>8. ~Queued(c) /\ waiting_for[c] = None /\ \A k \in Keys : \A i \in WaitingOn(k) : Ctx(i) # c
  BY <1>3, AskingFacts
<1>9. call[c] = NoCall
  BY <1>1, <1>3 DEF SelfInv, CallInv
<1>10. ASSUME NEW d \in Durations
       PROVE  /\ RemoveFirst(m_tickets[c][d], id) \in Seq(TicketIds)
              /\ ToSet(RemoveFirst(m_tickets[c][d], id)) = ToSet(m_tickets[c][d]) \ {id}
              /\ Distinct(RemoveFirst(m_tickets[c][d], id))
  <2>1. m_tickets[c][d] \in Seq(TicketIds) /\ Distinct(m_tickets[c][d])
    BY <1>1, TypeFacts DEF SelfInv, ListsInv
  <2>. QED BY <2>1, RemoveFirstFacts
<1>11. /\ m_tickets' \in [Contexts -> [Durations -> Seq(TicketIds)]]
       /\ \A d \in Durations : /\ ToSet(m_tickets'[c][d]) = ToSet(m_tickets[c][d]) \ {id}
                               /\ Distinct(m_tickets'[c][d])
       /\ \A d \in Contexts \ {c} : m_tickets'[d] = m_tickets[d]
  <2>1. m_tickets \in [Contexts -> [Durations -> Seq(TicketIds)]]
    BY <1>1 DEF Types, TypeOK
  <2>. DEFINE new == [d \in Durations |-> RemoveFirst(m_tickets[c][d], id)]
  <2>2. new \in [Durations -> Seq(TicketIds)]
        /\ \A d \in Durations : new[d] = RemoveFirst(m_tickets[c][d], id)
    BY <1>10
  <2>3. m_tickets' = [m_tickets EXCEPT ![c] = new]
    BY <1>3
  <2>. HIDE DEF new
  <2>4. m_tickets' \in [Contexts -> [Durations -> Seq(TicketIds)]] /\ m_tickets'[c] = new
        /\ \A d \in Contexts \ {c} : m_tickets'[d] = m_tickets[d]
    BY <2>1, <2>2, <2>3
  <2>. QED BY <1>10, <2>2, <2>4
<1>12. Held(c)' = Held(c) \ {id}
  <2>1. \A i : i \in Held(c)' <=> \E d \in Durations : i \in ToSet(m_tickets'[c][d])
    BY DEF Held
  <2>2. ASSUME NEW i
        PROVE  (\E d \in Durations : i \in ToSet(m_tickets'[c][d]))
                 <=> i # id /\ \E d \in Durations : i \in ToSet(m_tickets[c][d])
    BY <1>11
  <2>. QED BY <2>1, <2>2, HeldDef
<1>13. \A d, e \in Durations :
         d # e => ToSet(m_tickets'[c][d]) \cap ToSet(m_tickets'[c][e]) = {}
  BY <1>1, <1>11 DEF SelfInv, ListsInv
<1>14. /\ release' \in [Contexts -> Seq(TicketIds)] /\ release'[c] = rest
       /\ \A d \in Contexts \ {c} : release'[d] = release[d]
  BY <1>1, <1>3, <1>4, <1>5 DEF Types, TypeOK
<1>15. SavepointInv(c)'
  BY <1>1, <1>3, <1>5, <1>11, <1>14 DEF SelfInv, SavepointInv, Durations
<1>16. \A i \in TicketIds : Ctx(i) = c /\ ticket[i] # None => i \in Held(c) \/ i = id
  BY <1>1, <1>8 DEF SelfInv, ListsInv
<1>17. call' \in [Contexts -> CallSet] /\ call' = call
  BY <1>1, <1>3 DEF Types
<1>18. Distinct(release'[c]) /\ ToSet(release'[c]) \subseteq Held(c)'
  BY <1>5, <1>6, <1>12, <1>14
<1>19. /\ UNCHANGED <<savepoint, graph>> /\ call'[c] = NoCall /\ RemoveTicket(c, id)
       /\ \A d \in Contexts \ {c} : /\ m_tickets'[d] = m_tickets[d]
                                    /\ release'[d] = release[d] /\ call'[d] = call[d]
       /\ \A k \in Keys : \A i \in WaitingOn(k) : Ctx(i) = c => i = id
       /\ \A d \in Durations : Distinct(m_tickets'[c][d])
  BY <1>3, <1>8, <1>9, <1>11, <1>14, <1>17
<1>20. /\ m_tickets' \in [Contexts -> [Durations -> Seq(TicketIds)]]
       /\ release' \in [Contexts -> Seq(TicketIds)] /\ call' \in [Contexts -> CallSet]
       /\ waiting_for[c] = None
  BY <1>8, <1>11, <1>14, <1>17
<1>. QED BY <1>7, <1>12, <1>13, <1>15, <1>16, <1>18, <1>19, <1>20, TicketLost

LEMMA DowngradeStep ==
  ASSUME Structure, NEW c \in Contexts, NEW id \in Held(c), NEW type \in {"SNW", "SNRW"},
         DowngradeExclusiveLock(c, id, type)
  PROVE  Structure'
<1>. USE DEF own, graph
<1>1. Types /\ SelfInv(c)
  BY DEF Structure
<1>2. PICK k : k = ticket[id].key
  OBVIOUS
<1>3. PICK waiters : waiters = waiting[k]
  OBVIOUS
<1>4. /\ pc[c] = "run" /\ k \in ObjectKeys /\ rwlock[k] = None
      /\ ticket' = [ticket EXCEPT ![id].type = type]
      /\ StartLoop(c, k, waiters)
      /\ UNCHANGED <<granted, waiting, hog, own, graph, call>>
  BY <1>2, <1>3 DEF DowngradeExclusiveLock, Idle, At
<1>5. id \in TicketIds /\ Ctx(id) = c /\ id \in granted /\ ticket[id] \in MDLTicket
  BY HeldFacts
<1>6. k \in Keys /\ type \in LockTypes(k)
  BY <1>4, RequestsAssumption DEF Keys, LockTypes, MDLTypeSet
<1>7. /\ ticket' \in [TicketIds -> MDLTicket \cup {None}]
      /\ \A i \in TicketIds : i # id => ticket'[i] = ticket[i]
      /\ ticket'[id] \in MDLTicket /\ ticket'[id].key = k /\ ticket'[id].type = type
  <2>1. ticket \in [TicketIds -> MDLTicket \cup {None}]
    BY <1>1 DEF Types, TypeOK
  <2>2. PICK t : t = [ticket[id] EXCEPT !.type = type]
    OBVIOUS
  <2>3. t \in MDLTicket /\ t.key = k /\ t.type = type
    BY <1>2, <1>5, <2>2 DEF MDLTicket, MDLTypeSet
  <2>4. ticket' = [ticket EXCEPT ![id] = t]
    BY <1>4, <2>2
  <2>. QED BY <1>5, <2>1, <2>3, <2>4
<1>8. waiters \in Seq(TicketIds) /\ Distinct(waiters) /\ ToSet(waiters) = WaitingOn(k)'
  BY <1>1, <1>3, <1>4, <1>6, TypeFacts DEF Structure, WaitingOn
<1>9. /\ rwlock' \in [Keys -> Contexts \cup {None}] /\ rwlock'[k] = c
      /\ \A j \in Keys : j # k => rwlock'[j] = rwlock[j]
      /\ loop' \in [Contexts ->
            [key : Keys \cup {None}, rest : Seq(TicketIds), skip : BOOLEAN]]
      /\ \A d \in Contexts \ {c} : loop'[d] = loop[d] /\ pc'[d] = pc[d]
      /\ loop'[c].key = k /\ loop'[c].rest = waiters
      /\ pc' \in [Contexts -> Labels] /\ pc'[c] = "resched"
  BY <1>1, <1>4, <1>6, <1>8, StartLoopFacts
<1>10. LoopInv(c)'
  BY <1>6, <1>8, <1>9 DEF LoopInv
<1>11. ~Queued(c) /\ waiting_for[c] = None /\ \A j \in Keys : \A i \in WaitingOn(j) : Ctx(i) # c
  BY <1>4, AskingFacts
<1>12. call[c] = NoCall
  BY <1>1, <1>4 DEF SelfInv, CallInv
<1>13. Types'
  BY <1>1, <1>4, <1>7, <1>9 DEF Types, TypeOK
<1>14. Frame(c)
  BY <1>4, <1>5, <1>7, <1>9 DEF Frame, WaitingOn
<1>15. \A j \in Keys : Distinct(waiting'[j])
  BY <1>4 DEF Structure
<1>16. Held(c)' = Held(c) /\ ~Queued(c)'
  BY <1>4, <1>9 DEF Held, Queued
<1>17. ListsInv(c)'
  <2>1. \A i \in TicketIds : ticket'[i] # None => ticket[i] # None \/ i = id
    BY <1>7
  <2>. QED BY <1>1, <1>4, <1>11, <1>16, <2>1 DEF SelfInv, ListsInv
<1>18. CallInv(c)' /\ AnswerInv(c)' /\ WaitForInv(c)' /\ SavepointInv(c)'
  BY <1>1, <1>4, <1>9, <1>11, <1>12, <1>16
     DEF SelfInv, CallInv, AnswerInv, WaitForInv, SavepointInv, AtSavepoint, NoCall
<1>19. ASSUME NEW i \in TicketIds, Ctx(i) = c PROVE TicketInv(i)'
  <2>1. CASE i = id
    BY <1>6, <1>7, <2>1, NoneAssumption DEF TicketInv
  <2>2. CASE i # id
    BY <1>1, <1>4, <1>7, <1>19, <2>2 DEF SelfInv, TicketInv
  <2>. QED BY <2>1, <2>2
<1>20. \A j \in Keys : \A i \in WaitingOn(j)' : Ctx(i) # c
  BY <1>4, <1>11 DEF WaitingOn
<1>21. SelfInv(c)'
  BY <1>10, <1>17, <1>18, <1>19, <1>20 DEF SelfInv
<1>. QED BY <1>13, <1>14, <1>15, <1>21, Assemble

LEMMA RescheduleEndStep ==
  ASSUME Structure, NEW c \in Contexts, RescheduleEnd(c) PROVE Structure'
<1>. USE DEF own, graph
<1>1. Types /\ SelfInv(c)
  BY DEF Structure
<1>2. PICK k : k = loop[c].key
  OBVIOUS
<1>3. /\ pc[c] = "resched" /\ pc' = [pc EXCEPT ![c] = "run"]
      /\ rwlock' = [rwlock EXCEPT ![k] = None] /\ loop' = [loop EXCEPT ![c] = NoLoop]
      /\ hog' = hog \/ hog' = [hog EXCEPT ![k] = 0]
      /\ UNCHANGED <<ticket, granted, waiting, own, graph, call>>
  BY <1>2 DEF RescheduleEnd, At, Goto
<1>4. k \in Keys /\ rwlock[k] = c
  BY <1>1, <1>2, <1>3 DEF SelfInv, LoopInv
<1>5. NoLoop \in [key : Keys \cup {None}, rest : Seq(TicketIds), skip : BOOLEAN]
  BY DEF NoLoop
<1>6. /\ pc' \in [Contexts -> Labels] /\ pc'[c] = "run"
      /\ \A d \in Contexts \ {c} : pc'[d] = pc[d] /\ loop'[d] = loop[d]
      /\ rwlock' \in [Keys -> Contexts \cup {None}]
      /\ \A j \in Keys : j # k => rwlock'[j] = rwlock[j]
      /\ hog' \in [Keys -> Nat]
      /\ loop' \in [Contexts ->
           [key : Keys \cup {None}, rest : Seq(TicketIds), skip : BOOLEAN]]
  <2>1. /\ pc \in [Contexts -> Labels] /\ "run" \in Labels
        /\ rwlock \in [Keys -> Contexts \cup {None}] /\ hog \in [Keys -> Nat]
        /\ loop \in [Contexts ->
             [key : Keys \cup {None}, rest : Seq(TicketIds), skip : BOOLEAN]]
    BY <1>1 DEF Types, TypeOK, Labels
  <2>2. hog' \in [Keys -> Nat]
    <3>1. hog \in [Keys -> Nat] /\ (hog' = hog \/ hog' = [hog EXCEPT ![k] = 0])
      BY <1>3, <2>1
    <3>2. [hog EXCEPT ![k] = 0] \in [Keys -> Nat]
      BY <3>1
    <3>. QED BY <3>1, <3>2
  <2>3. /\ rwlock' \in [Keys -> Contexts \cup {None}]
        /\ \A j \in Keys : j # k => rwlock'[j] = rwlock[j]
    BY <1>3, <2>1
  <2>4. /\ loop' \in [Contexts ->
             [key : Keys \cup {None}, rest : Seq(TicketIds), skip : BOOLEAN]]
        /\ \A d \in Contexts \ {c} : loop'[d] = loop[d]
    <3>. HIDE DEF NoLoop
    <3>. QED BY <1>3, <1>5, <2>1
  <2>. QED BY <1>3, <2>1, <2>2, <2>3, <2>4
<1>7. Types'
  BY <1>1, <1>3, <1>6 DEF Types, TypeOK
<1>8. Frame(c)
  BY <1>3, <1>4, <1>6 DEF Frame, WaitingOn
<1>9. \A j \in Keys : Distinct(waiting'[j])
  BY <1>3 DEF Structure
<1>10. Held(c)' = Held(c) /\ ~Queued(c) /\ ~Queued(c)'
  BY <1>3, <1>6 DEF Held, Queued
<1>11. ListsInv(c)' /\ LoopInv(c)' /\ AnswerInv(c)' /\ SavepointInv(c)'
  <2>1. ListsInv(c)'
    BY <1>1, <1>3, <1>10 DEF SelfInv, ListsInv
  <2>2. LoopInv(c)' /\ AnswerInv(c)'
    BY <1>6, <1>10 DEF LoopInv, AnswerInv
  <2>3. SavepointInv(c)'
    BY <1>1, <1>3 DEF SelfInv, SavepointInv
  <2>. QED BY <2>1, <2>2, <2>3
<1>12. CallInv(c)' /\ WaitForInv(c)'
  BY <1>1, <1>3, <1>6, <1>10 DEF SelfInv, CallInv, WaitForInv, AtSavepoint, NoCall
<1>13. ASSUME NEW i \in TicketIds, Ctx(i) = c PROVE TicketInv(i)'
  BY <1>1, <1>3, <1>13 DEF SelfInv, TicketInv
<1>14. \A j \in Keys : \A i \in WaitingOn(j)' : Ctx(i) # c
  BY <1>1, <1>3, <1>10 DEF SelfInv, WaiterInv, WaitingOn
<1>15. SelfInv(c)'
  BY <1>11, <1>12, <1>13, <1>14 DEF SelfInv
<1>. QED BY <1>7, <1>8, <1>9, <1>15, Assemble

(* Nothing is stored before the newest ticket.                             *)
LEMMA HeadBefore ==
  ASSUME NEW S, NEW s \in Seq(S), Distinct(s), s # <<>>
  PROVE  ToSet(StoredBefore(s, Head(s))) = {}
<1>1. Len(s) \in Nat /\ 1 \in 1 .. Len(s) /\ s[1] = Head(s)
  BY HeadTailProperties, LenProperties
<1>2. ToSet(StoredBefore(s, s[1])) = {s[i] : i \in 1 .. 1 - 1}
  BY <1>1, StoredBeforeFacts
<1>3. ToSet(StoredBefore(s, s[1])) = {}
  BY <1>2
<1>. QED BY <1>1, <1>3

LEMMA FrontBefore ==
  ASSUME NEW s \in Seq(TicketIds), Distinct(s)
  PROVE  ToSet(StoredBefore(s, FrontOf(s))) = {}
<1>1. CASE s = <<>>
  <2>1. ToSet(s) = {}
    BY <1>1, EmptyFacts
  <2>. QED BY <2>1 DEF StoredBefore
<1>2. CASE s # <<>>
  BY <1>2, HeadBefore DEF FrontOf
<1>. QED BY <1>1, <1>2

(* What upgrade_shared_lock_to_exclusive() decides from its savepoint.     *)
LEMMA MergeFacts ==
  ASSUME Structure, NEW c \in Contexts, pc[c] = "merge",
         NEW cl, cl = call[c], NEW x, x = cl.mine, NEW id, id = cl.target
  PROVE  /\ CallOK(c, cl) /\ release[c] = <<>> /\ cl.op = "upgrade"
         /\ id \in Held(c) /\ x \in Held(c) /\ x # id
         /\ ticket[x].key = ticket[id].key /\ ticket[x].type = "X"
         /\ ticket[id].type \in {"SNW", "SNRW"}
         /\ ~HasLock(c, cl.svp, x) =>
              /\ x \in ToSet(m_tickets[c]["transaction"])
              /\ savepoint[c] # None => savepoint[c].transaction # x
<1>1. Types /\ CallInv(c)
  BY DEF Structure, SelfInv
<1>2. /\ CallOK(c, cl) /\ release[c] = <<>> /\ cl.op = "upgrade" /\ IsFor(x, cl)
      /\ x \in Held(c) /\ (AtSavepoint(c, cl) \/ PastSavepoint(c, cl))
  BY <1>1 DEF CallInv
<1>3. /\ id \in Held(c) /\ ticket[id].key = cl.req.key /\ ticket[id].type \in {"SNW", "SNRW"}
      /\ cl.req.type = "X" /\ cl.svp.statement = FrontOf(m_tickets[c]["statement"])
  BY <1>2 DEF CallOK
<1>4. ticket[x].key = cl.req.key /\ ticket[x].type = "X" /\ x # id
  BY <1>2, <1>3 DEF IsFor
<1>5. ASSUME ~HasLock(c, cl.svp, x)
      PROVE  /\ x \in ToSet(m_tickets[c]["transaction"])
             /\ savepoint[c] # None => savepoint[c].transaction # x
  <2>. DEFINE s == m_tickets[c]["statement"]
              t == m_tickets[c]["transaction"]
              a == StoredBefore(s, cl.svp.statement)
              b == StoredBefore(t, cl.svp.transaction)
  <2>1. s \in Seq(TicketIds) /\ Distinct(s) /\ t \in Seq(TicketIds) /\ Distinct(t)
    BY OneListFacts
  <2>2. ToSet(a) = {}
    BY <1>3, <2>1, FrontBefore
  <2>3. a \in Seq(TicketIds) /\ b \in Seq(TicketIds) /\ ToSet(b) \subseteq ToSet(t)
    BY <2>1, StoredBeforeFacts
  <2>4. AtSavepoint(c, cl) => ToSet(b) = {}
    BY <1>2, <2>1, FrontBefore DEF AtSavepoint
  <2>5. x \in ToSet(a \o b)
    BY <1>5 DEF HasLock, AcquiredAfter
  <2>. HIDE DEF a, b
  <2>6. x \in ToSet(b)
    BY <2>2, <2>3, <2>5, ConcatFacts
  <2>7. PastSavepoint(c, cl)
    BY <1>2, <2>4, <2>6
  <2>. QED BY <2>3, <2>6, <2>7 DEF PastSavepoint
<1>. QED BY <1>2, <1>3, <1>4, <1>5

LEMMA MergeStep ==
  ASSUME Structure, NEW c \in Contexts, Merge(c) PROVE Structure'
<1>. USE DEF graph
<1>1. Types /\ SelfInv(c)
  BY DEF Structure
<1>2. PICK cl : cl = call[c]
  OBVIOUS
<1>3. PICK x : x = cl.mine
  OBVIOUS
<1>4. PICK id : id = cl.target
  OBVIOUS
<1>. DEFINE isNew == ~HasLock(c, cl.svp, x)
<1>7. /\ pc[c] = "merge"
      /\ ticket' = [i \in TicketIds |->
           CASE i = id -> [ticket[id] EXCEPT !.type = "X"]
             [] i = x /\ isNew -> None
             [] OTHER -> ticket[i]]
      /\ granted' = IF isNew THEN granted \ {x} ELSE granted
      /\ m_tickets' = IF isNew
           THEN [m_tickets EXCEPT ![c]["transaction"] = RemoveFirst(@, x)]
           ELSE m_tickets
      /\ call' = [call EXCEPT ![c] = NoCall] /\ pc' = [pc EXCEPT ![c] = "run"]
      /\ UNCHANGED <<waiting, hog, rwlock, loop, savepoint, release, graph>>
  BY <1>2, <1>3, <1>4 DEF Merge, At, Goto
<1>8. /\ CallOK(c, cl) /\ release[c] = <<>> /\ cl.op = "upgrade"
      /\ id \in Held(c) /\ x \in Held(c) /\ x # id
      /\ ticket[x].key = ticket[id].key /\ ticket[x].type = "X"
      /\ isNew => /\ x \in ToSet(m_tickets[c]["transaction"])
                  /\ savepoint[c] # None => savepoint[c].transaction # x
  BY <1>2, <1>3, <1>4, <1>7, MergeFacts
<1>. HIDE DEF isNew
<1>9. /\ id \in TicketIds /\ Ctx(id) = c /\ id \in granted /\ ticket[id] \in MDLTicket
      /\ x \in TicketIds /\ Ctx(x) = c /\ x \in granted
  BY <1>8, HeldFacts
<1>10. PICK t : t = [ticket[id] EXCEPT !.type = "X"]
  OBVIOUS
<1>11. t \in MDLTicket /\ t # None /\ t.key = ticket[id].key /\ t.type = "X"
  BY <1>9, <1>10, NoneAssumption DEF MDLTicket, MDLTypeSet
<1>12. /\ ticket' \in [TicketIds -> MDLTicket \cup {None}] /\ ticket'[id] = t
       /\ \A i \in TicketIds : i # id /\ ~(i = x /\ isNew) => ticket'[i] = ticket[i]
       /\ isNew => ticket'[x] = None
  <2>1. ticket \in [TicketIds -> MDLTicket \cup {None}]
    BY <1>1 DEF Types, TypeOK
  <2>2. ticket' = [i \in TicketIds |->
           CASE i = id -> t [] i = x /\ isNew -> None [] OTHER -> ticket[i]]
    BY <1>7, <1>10
  <2>3. \A i \in TicketIds : ticket'[i] =
          IF i = id THEN t ELSE IF i = x /\ isNew THEN None ELSE ticket[i]
    <3>1. ASSUME NEW i \in TicketIds PROVE ticket'[i] =
            CASE i = id -> t [] i = x /\ isNew -> None [] OTHER -> ticket[i]
      BY <2>2
    <3>2. ASSUME NEW i \in TicketIds, i = id PROVE ticket'[i] = t
      BY <1>8, <3>1, <3>2
    <3>3. ASSUME NEW i \in TicketIds, i = x, isNew PROVE ticket'[i] = None
      BY <1>8, <3>1, <3>3
    <3>4. ASSUME NEW i \in TicketIds, i # id, ~(i = x /\ isNew) PROVE ticket'[i] = ticket[i]
      BY <3>1, <3>4
    <3>. QED BY <1>8, <3>2, <3>3, <3>4
  <2>4. ticket' \in [TicketIds -> MDLTicket \cup {None}]
    BY <1>11, <2>1, <2>2, <2>3
  <2>. QED BY <1>8, <1>9, <2>3, <2>4
<1>13. /\ m_tickets' \in [Contexts -> [Durations -> Seq(TicketIds)]]
       /\ \A d \in Contexts \ {c} : m_tickets'[d] = m_tickets[d]
       /\ \A d \in Durations : Distinct(m_tickets'[c][d])
       /\ \A d \in Durations : ToSet(m_tickets'[c][d]) =
            IF isNew THEN ToSet(m_tickets[c][d]) \ {x} ELSE ToSet(m_tickets[c][d])
  <2>1. /\ m_tickets \in [Contexts -> [Durations -> Seq(TicketIds)]]
        /\ \A d \in Durations : Distinct(m_tickets[c][d])
    BY <1>1 DEF Types, TypeOK, SelfInv, ListsInv
  <2>2. CASE ~isNew
    BY <1>7, <2>1, <2>2
  <2>3. CASE isNew
    <3>1. PICK l : l = RemoveFirst(m_tickets[c]["transaction"], x)
      OBVIOUS
    <3>2. m_tickets' = [m_tickets EXCEPT ![c] = [m_tickets[c] EXCEPT !["transaction"] = l]]
      BY <1>7, <2>1, <2>3, <3>1
    <3>3. /\ l \in Seq(TicketIds) /\ Distinct(l)
          /\ ToSet(l) = ToSet(m_tickets[c]["transaction"]) \ {x}
      BY <3>1, OneListFacts, RemoveFirstFacts
    <3>4. /\ m_tickets' \in [Contexts -> [Durations -> Seq(TicketIds)]]
          /\ \A d \in Contexts \ {c} : m_tickets'[d] = m_tickets[d]
          /\ m_tickets'[c]["transaction"] = l
          /\ \A d \in Durations : d # "transaction" => m_tickets'[c][d] = m_tickets[c][d]
      BY <2>1, <3>2, <3>3 DEF Durations
    <3>5. \A d \in Durations : d # "transaction" => x \notin ToSet(m_tickets[c][d])
      BY <1>8, <2>3, OneListFacts DEF Durations
    <3>. QED BY <2>1, <2>3, <3>3, <3>4, <3>5
  <2>. QED BY <2>2, <2>3
<1>14. Held(c)' = IF isNew THEN Held(c) \ {x} ELSE Held(c)
  <2>1. \A i : i \in Held(c)' <=> \E d \in Durations : i \in ToSet(m_tickets'[c][d])
    BY DEF Held
  <2>2. ASSUME NEW i
        PROVE  (\E d \in Durations : i \in ToSet(m_tickets'[c][d]))
                 <=> ~(isNew /\ i = x) /\ \E d \in Durations : i \in ToSet(m_tickets[c][d])
    BY <1>13
  <2>3. \A i : i \in Held(c)' <=> ~(isNew /\ i = x) /\ i \in Held(c)
    BY <2>1, <2>2, HeldDef
  <2>. QED BY <2>3
<1>15. /\ call' \in [Contexts -> CallSet] /\ pc' \in [Contexts -> Labels]
       /\ \A d \in Contexts \ {c} : call'[d] = call[d] /\ pc'[d] = pc[d]
       /\ call'[c] = NoCall /\ pc'[c] = "run"
  <2>1. /\ call \in [Contexts -> CallSet] /\ pc \in [Contexts -> Labels] /\ "run" \in Labels
        /\ NoCall \in CallSet
    BY <1>1 DEF Types, TypeOK, Labels, NoCall, CallSet, Ops
  <2>. QED BY <1>7, <2>1
<1>16. granted' \subseteq granted /\ granted' \in SUBSET TicketIds
       /\ \A i : i # x => (i \in granted' <=> i \in granted)
  <2>1. granted \in SUBSET TicketIds
    BY <1>1 DEF Types, TypeOK
  <2>. QED BY <1>7, <2>1
<1>17. Types'
  BY <1>1, <1>7, <1>12, <1>13, <1>15, <1>16 DEF Types, TypeOK
<1>18. Frame(c) /\ \A k \in Keys : Distinct(waiting'[k])
  BY <1>7, <1>9, <1>12, <1>13, <1>15, <1>16 DEF Frame, WaitingOn, Structure
<1>19. ~Queued(c) /\ ~Queued(c)' /\ waiting_for'[c] = None
  BY <1>1, <1>7, <1>15 DEF Queued, SelfInv, WaitForInv
<1>20. ListsInv(c)'
  <2>1. ListsInv(c)
    BY <1>1 DEF SelfInv
  <2>2. \A d, e \in Durations :
          d # e => ToSet(m_tickets'[c][d]) \cap ToSet(m_tickets'[c][e]) = {}
    <3>1. \A d \in Durations : ToSet(m_tickets'[c][d]) \subseteq ToSet(m_tickets[c][d])
      BY <1>13
    <3>. QED BY <2>1, <3>1 DEF ListsInv
  <2>3. \A i \in Held(c)' : Ctx(i) = c /\ i \in granted'
    BY <1>7, <1>14, <2>1 DEF ListsInv
  <2>4. Distinct(release'[c]) /\ ToSet(release'[c]) \subseteq Held(c)'
    BY <1>7, <1>8, EmptyFacts
  <2>5. ASSUME NEW i \in TicketIds, Ctx(i) = c, ticket'[i] # None PROVE i \in Held(c)'
    <3>1. i \in Held(c) /\ ~(i = x /\ isNew)
      BY <1>8, <1>12, <1>19, <2>1, <2>5 DEF ListsInv
    <3>. QED BY <1>14, <3>1
  <2>. QED BY <1>13, <1>19, <2>2, <2>3, <2>4, <2>5 DEF ListsInv
<1>21. CallInv(c)' /\ LoopInv(c)' /\ AnswerInv(c)' /\ WaitForInv(c)'
  BY <1>15, <1>19 DEF CallInv, LoopInv, AnswerInv, WaitForInv, AtSavepoint, NoCall
<1>22. SavepointInv(c)'
  <2>1. "transaction" \in Durations
    BY DEF Durations
  <2>. QED BY <1>1, <1>7, <1>8, <1>13, <2>1 DEF SelfInv, SavepointInv
<1>23. ASSUME NEW i \in TicketIds, Ctx(i) = c PROVE TicketInv(i)'
  <2>1. CASE i = id
    BY <1>11, <1>12, <2>1 DEF TicketInv, LockTypes, MDLTypeSet
  <2>2. CASE i # id /\ i = x /\ isNew
    BY <1>7, <1>12, <2>2 DEF TicketInv
  <2>3. CASE i # id /\ ~(i = x /\ isNew)
    BY <1>1, <1>12, <1>16, <1>23, <2>3 DEF SelfInv, TicketInv
  <2>. QED BY <2>1, <2>2, <2>3
<1>24. \A k \in Keys : \A i \in WaitingOn(k)' : Ctx(i) # c
  BY <1>1, <1>7, <1>19 DEF SelfInv, WaiterInv, WaitingOn
<1>25. SelfInv(c)'
  BY <1>20, <1>21, <1>22, <1>23, <1>24 DEF SelfInv
<1>. QED BY <1>17, <1>18, <1>25, Assemble

(* The loop of reschedule_waiters() goes on to the next waiter, which it   *)
(* may grant.                                                              *)
LEMMA RescheduleNextFacts ==
  ASSUME Structure, NEW c \in Contexts, RescheduleNext(c)
  PROVE  LET k == loop[c].key
             id == Head(loop[c].rest)
         IN
         /\ k \in Keys /\ rwlock[k] = c /\ pc[c] = "resched"
         /\ id \in WaitingOn(k) /\ id \in TicketIds /\ WaiterInv(k, id)
         /\ Ctx(id) \in Contexts \ {c}
         /\ loop' \in [Contexts ->
              [key : Keys \cup {None}, rest : Seq(TicketIds), skip : BOOLEAN]]
         /\ \A d \in Contexts \ {c} : loop'[d] = loop[d]
         /\ loop'[c].key = k /\ loop'[c].skip = loop[c].skip
         /\ Distinct(loop'[c].rest) /\ ToSet(loop'[c].rest) = ToSet(loop[c].rest) \ {id}
         /\ ToSet(loop'[c].rest) \subseteq WaitingOn(k)
<1>. DEFINE k == loop[c].key
            id == Head(loop[c].rest)
<1>1. Types /\ SelfInv(c)
  BY DEF Structure
<1>2. pc[c] = "resched" /\ loop[c].rest # <<>>
      /\ loop' = [loop EXCEPT ![c].rest = Tail(@)]
  BY DEF RescheduleNext, At
<1>3. /\ k \in Keys /\ rwlock[k] = c /\ Distinct(loop[c].rest)
      /\ ToSet(loop[c].rest) \subseteq WaitingOn(k)
  BY <1>1, <1>2 DEF SelfInv, LoopInv
<1>4. loop[c] \in [key : Keys \cup {None}, rest : Seq(TicketIds), skip : BOOLEAN]
  BY <1>1 DEF Types, TypeOK
<1>5. PICK rest : rest = Tail(loop[c].rest)
  OBVIOUS
<1>6. /\ rest \in Seq(TicketIds) /\ Distinct(rest)
      /\ ToSet(loop[c].rest) = ToSet(rest) \cup {id} /\ id \notin ToSet(rest)
      /\ id \in ToSet(loop[c].rest) /\ id \in TicketIds
  BY <1>2, <1>3, <1>4, <1>5, TailFacts
<1>7. PICK l : l = [loop[c] EXCEPT !.rest = rest]
  OBVIOUS
<1>8. /\ l \in [key : Keys \cup {None}, rest : Seq(TicketIds), skip : BOOLEAN]
      /\ l.key = loop[c].key /\ l.rest = rest /\ l.skip = loop[c].skip
  BY <1>4, <1>6, <1>7
<1>9. loop' = [loop EXCEPT ![c] = l]
  BY <1>2, <1>5, <1>7
<1>10. /\ loop' \in [Contexts ->
            [key : Keys \cup {None}, rest : Seq(TicketIds), skip : BOOLEAN]]
       /\ loop'[c] = l /\ \A d \in Contexts \ {c} : loop'[d] = loop[d]
  BY <1>1, <1>8, <1>9 DEF Types, TypeOK
<1>11. id \in WaitingOn(k) /\ Ctx(id) \in Contexts
  BY <1>3, <1>6, CtxType
<1>12. WaiterInv(k, id)
  BY <1>3, <1>11 DEF Structure, SelfInv
<1>13. Ctx(id) # c
  BY <1>2, <1>12 DEF WaiterInv, Queued
<1>. QED BY <1>2, <1>3, <1>6, <1>8, <1>10, <1>11, <1>12, <1>13

LEMMA RescheduleNextStep ==
  ASSUME Structure, NEW c \in Contexts, RescheduleNext(c) PROVE Structure'
<1>. USE DEF own
<1>1. PICK k : k = loop[c].key
  OBVIOUS
<1>2. PICK id : id = Head(loop[c].rest)
  OBVIOUS
<1>3. /\ k \in Keys /\ rwlock[k] = c /\ pc[c] = "resched"
      /\ id \in WaitingOn(k) /\ id \in TicketIds /\ WaiterInv(k, id)
      /\ Ctx(id) \in Contexts \ {c}
      /\ loop' \in [Contexts ->
           [key : Keys \cup {None}, rest : Seq(TicketIds), skip : BOOLEAN]]
      /\ \A d \in Contexts \ {c} : loop'[d] = loop[d]
      /\ loop'[c].key = k
      /\ Distinct(loop'[c].rest) /\ ToSet(loop'[c].rest) = ToSet(loop[c].rest) \ {id}
      /\ ToSet(loop'[c].rest) \subseteq WaitingOn(k)
  BY <1>1, <1>2, RescheduleNextFacts
<1>4. UNCHANGED <<ticket, rwlock, own, waiting_for, victim, call, pc>>
  BY DEF RescheduleNext
<1>5. Types /\ \A d \in Contexts : SelfInv(d)
  BY DEF Structure
<1>6. \A d \in Contexts : Held(d)' = Held(d) /\ Queued(d)' = Queued(d)
  BY <1>4 DEF Held, Queued
<1>7. CASE UNCHANGED <<wait_status, waiting, granted, hog>>
  <2>1. Types'
    BY <1>3, <1>4, <1>5, <1>7 DEF Types, TypeOK
  <2>2. Frame(c) /\ \A j \in Keys : Distinct(waiting'[j])
    BY <1>3, <1>4, <1>7 DEF Frame, WaitingOn, Structure
  <2>3. LoopInv(c)'
    BY <1>3, <1>4, <1>7 DEF LoopInv, WaitingOn
  <2>4. ListsInv(c)'
    BY <1>4, <1>5, <1>6, <1>7 DEF SelfInv, ListsInv
  <2>5. CallInv(c)'
    BY <1>3, <1>4, <1>5, <1>6 DEF SelfInv, CallInv, AtSavepoint, NoCall, Queued
  <2>6. SavepointInv(c)' /\ WaitForInv(c)'
    BY <1>4, <1>5 DEF SelfInv, SavepointInv, WaitForInv
  <2>7. AnswerInv(c)'
    BY <1>3, <1>4 DEF AnswerInv, Queued
  <2>8. ASSUME NEW i \in TicketIds, Ctx(i) = c PROVE TicketInv(i)'
    BY <1>4, <1>5, <1>7, <2>8 DEF SelfInv, TicketInv
  <2>9. \A j \in Keys : \A i \in WaitingOn(j)' : Ctx(i) # c
    <3>1. ASSUME NEW j \in Keys, NEW i \in WaitingOn(j), Ctx(i) = c PROVE FALSE
      <4>1. WaiterInv(j, i)
        BY <1>5, <3>1 DEF SelfInv
      <4>2. Queued(c)
        BY <3>1, <4>1 DEF WaiterInv
      <4>. QED BY <1>3, <4>2 DEF Queued
    <3>2. \A j \in Keys : WaitingOn(j)' = WaitingOn(j)
      BY <1>7 DEF WaitingOn
    <3>. QED BY <3>1, <3>2
  <2>10. SelfInv(c)'
    BY <2>3, <2>4, <2>5, <2>6, <2>7, <2>8, <2>9 DEF SelfInv
  <2>. QED BY <2>1, <2>2, <2>10, Assemble
<1>8. CASE /\ wait_status[Ctx(id)] = "EMPTY" /\ SetStatus({Ctx(id)}, "GRANTED")
           /\ waiting' = [waiting EXCEPT ![k] = RemoveFirst(@, id)]
           /\ granted' = granted \cup {id}
           /\ hog' = hog \/ hog' = [hog EXCEPT ![k] = IncHog(@)]
  <2>1. PICK w : w = Ctx(id)
    OBVIOUS
  <2>2. PICK others : others = RemoveFirst(waiting[k], id)
    OBVIOUS
  <2>3. waiting[k] \in Seq(TicketIds) /\ Distinct(waiting[k])
    BY <1>3, <1>5, TypeFacts DEF Structure
  <2>4. others \in Seq(TicketIds) /\ Distinct(others)
        /\ ToSet(others) = ToSet(waiting[k]) \ {id}
    BY <2>2, <2>3, RemoveFirstFacts
  <2>5. /\ waiting' \in [Keys -> Seq(TicketIds)] /\ waiting'[k] = others
        /\ \A j \in Keys : j # k => waiting'[j] = waiting[j]
    <3>1. waiting \in [Keys -> Seq(TicketIds)] /\ waiting' = [waiting EXCEPT ![k] = others]
      BY <1>5, <1>8, <2>2 DEF Types, TypeOK
    <3>. QED BY <1>3, <2>4, <3>1
  <2>6. \A j \in Keys : WaitingOn(j)' = WaitingOn(j) \ {id} /\ Distinct(waiting'[j])
    <3>1. ASSUME NEW j \in Keys, j # k PROVE id \notin WaitingOn(j)
      <4>1. id \in WaitingOn(j) => ticket[id].key = j
        BY <1>3, <1>5 DEF SelfInv, WaiterInv
      <4>. QED BY <1>3, <3>1, <4>1 DEF WaiterInv
    <3>. QED BY <2>4, <2>5, <3>1 DEF WaitingOn, Structure
  <2>7. /\ wait_status' \in [Contexts -> WaitStatuses] /\ wait_status'[w] = "GRANTED"
        /\ \A d \in Contexts \ {w} : wait_status'[d] = wait_status[d]
    <3>1. wait_status \in [Contexts -> WaitStatuses] /\ w \in Contexts
      BY <1>3, <1>5, <2>1 DEF Types, TypeOK
    <3>2. wait_status[w] = "EMPTY" /\ SetStatus({w}, "GRANTED")
      BY <1>8, <2>1
    <3>. QED BY <3>1, <3>2 DEF SetStatus, WaitStatuses
  <2>8. hog' \in [Keys -> Nat]
    <3>1. hog \in [Keys -> Nat] /\ hog[k] \in Nat
      BY <1>3, <1>5 DEF Types, TypeOK
    <3>2. IncHog(hog[k]) \in Nat
      BY <3>1 DEF IncHog
    <3>3. hog' = hog \/ hog' = [hog EXCEPT ![k] = IncHog(hog[k])]
      BY <1>8
    <3>. QED BY <1>3, <3>1, <3>2, <3>3
  <2>9. granted' = granted \cup {id} /\ granted' \in SUBSET TicketIds
    BY <1>3, <1>5, <1>8 DEF Types, TypeOK
  <2>10. Types'
    BY <1>3, <1>4, <1>5, <2>5, <2>7, <2>8, <2>9 DEF Types, TypeOK
  <2>11. ASSUME NEW d \in Contexts PROVE SelfInv(d)'
    <3>1. SelfInv(d) /\ WaiterInv(k, id)
      BY <1>3, <1>5
    <3>2. ListsInv(d)'
      BY <1>4, <1>6, <2>9, <3>1 DEF SelfInv, ListsInv
    <3>3. CallInv(d)'
      <4>1. PICK cl : cl = call[d]
        OBVIOUS
      <4>2. CallOK(d, cl)' <=> CallOK(d, cl)
        BY <1>4, <1>6 DEF CallOK, AcquiredAfter
      <4>3. /\ AtSavepoint(d, cl)' <=> AtSavepoint(d, cl)
            /\ PastSavepoint(d, cl)' <=> PastSavepoint(d, cl)
            /\ IsFor(cl.mine, cl)' <=> IsFor(cl.mine, cl)
        BY <1>4 DEF AtSavepoint, PastSavepoint, IsFor
      <4>4. call'[d] = cl /\ pc'[d] = pc[d] /\ release'[d] = release[d]
        BY <1>4, <4>1
      <4>. QED BY <1>6, <3>1, <4>1, <4>2, <4>3, <4>4 DEF SelfInv, CallInv
    <3>4. SavepointInv(d)' /\ WaitForInv(d)'
      BY <1>4, <3>1 DEF SelfInv, SavepointInv, WaitForInv
    <3>5. LoopInv(d)'
      <4>1. CASE d = c
        <5>1. ToSet(loop'[c].rest) \subseteq WaitingOn(k)'
          BY <1>3, <2>6
        <5>. QED BY <1>3, <1>4, <4>1, <5>1 DEF LoopInv
      <4>2. CASE d # c /\ pc[d] = "resched"
        <5>1. loop[d].key \in Keys /\ rwlock[loop[d].key] = d
          BY <3>1, <4>2 DEF SelfInv, LoopInv
        <5>2. loop[d].key # k
          BY <1>3, <4>2, <5>1
        <5>3. waiting'[loop[d].key] = waiting[loop[d].key]
          BY <2>5, <5>1, <5>2
        <5>. QED BY <1>3, <1>4, <3>1, <4>2, <5>3 DEF SelfInv, LoopInv, WaitingOn
      <4>3. CASE pc[d] # "resched"
        BY <1>4, <4>3 DEF LoopInv
      <4>. QED BY <4>1, <4>2, <4>3
    <3>6. AnswerInv(d)'
      <4>. SUFFICES ASSUME Queued(d) PROVE AnswerInv(d)'
        BY <1>6 DEF AnswerInv
      <4>1. CASE d = w
        BY <1>4, <2>1, <2>7, <2>9, <3>1, <4>1 DEF AnswerInv, WaiterInv
      <4>2. CASE d # w
        <5>1. /\ Ctx(call[d].mine) = d /\ call[d].mine \in TicketIds
              /\ ticket[call[d].mine] \in MDLTicket
          BY <3>1, WaitForTicket DEF SelfInv, CallInv
        <5>2. call[d].mine # id /\ ticket[call[d].mine].key \in Keys
          BY <2>1, <4>2, <5>1 DEF MDLTicket
        <5>. QED BY <1>4, <1>6, <2>6, <2>7, <2>9, <3>1, <4>2, <5>2 DEF SelfInv, AnswerInv
      <4>. QED BY <4>1, <4>2
    <3>7. ASSUME NEW i \in TicketIds, Ctx(i) = d PROVE TicketInv(i)'
      BY <1>4, <2>9, <3>1, <3>7 DEF SelfInv, TicketInv, WaiterInv
    <3>8. ASSUME NEW j \in Keys, NEW i \in WaitingOn(j)', Ctx(i) = d PROVE WaiterInv(j, i)'
      <4>1. i \in WaitingOn(j) /\ i # id
        BY <2>6
      <4>2. WaiterInv(j, i)
        BY <3>1, <3>8, <4>1 DEF SelfInv
      <4>. QED BY <1>4, <1>6, <2>9, <3>8, <4>1, <4>2 DEF WaiterInv
    <3>. QED BY <3>2, <3>3, <3>4, <3>5, <3>6, <3>7, <3>8 DEF SelfInv
  <2>. QED BY <2>6, <2>10, <2>11 DEF Structure
<1>. QED BY <1>1, <1>2, <1>7, <1>8 DEF RescheduleNext

-----------------------------------------------------------------------------
(* The structure of the lists.                                             *)

LEMMA StructureInit == Init => Structure
<1>. SUFFICES ASSUME Init PROVE Structure
  OBVIOUS
<1>. USE DEF Init
<1>. DEFINE e == <<>>
<1>1. e \in Seq(TicketIds) /\ ToSet(e) = {} /\ Distinct(e)
  BY EmptyFacts
<1>2. /\ waiting = [k \in Keys |-> e] /\ release = [c \in Contexts |-> e]
      /\ m_tickets = [c \in Contexts |-> [d \in Durations |-> e]]
  OBVIOUS
<1>3. NoCall \in CallSet
  BY DEF CallSet, NoCall, Ops
<1>4. NoLoop \in [key : Keys \cup {None}, rest : Seq(TicketIds), skip : BOOLEAN]
  BY DEF NoLoop
<1>. HIDE DEF e
<1>5. TypeOK
  BY <1>1, <1>2, <1>4 DEF TypeOK, WaitStatuses, Labels
<1>6. Types
  BY <1>3, <1>5 DEF Types
<1>7. \A k \in Keys : WaitingOn(k) = {} /\ Distinct(waiting[k])
  BY <1>1, <1>2 DEF WaitingOn
<1>8. ASSUME NEW c \in Contexts PROVE SelfInv(c)
  <2>1. \A d \in Durations : m_tickets[c][d] = e
    BY <1>2
  <2>2. Held(c) = {}
    BY <1>1, <2>1, HeldDef
  <2>3. pc[c] = "run" /\ call[c] = NoCall /\ release[c] = e /\ ~Queued(c)
        /\ savepoint[c] = None /\ waiting_for[c] = None
    BY <1>2 DEF Queued
  <2>4. \A i \in TicketIds : ticket[i] = None /\ i \notin granted
    OBVIOUS
  <2>5. ListsInv(c)
    BY <1>1, <2>1, <2>2, <2>3, <2>4 DEF ListsInv
  <2>6. CallInv(c)
    BY <2>3 DEF CallInv, AtSavepoint, NoCall
  <2>7. SavepointInv(c) /\ LoopInv(c) /\ AnswerInv(c) /\ WaitForInv(c)
    BY <2>3 DEF SavepointInv, LoopInv, AnswerInv, WaitForInv
  <2>8. \A i \in TicketIds : TicketInv(i)
    BY <2>4 DEF TicketInv
  <2>. QED BY <1>7, <2>5, <2>6, <2>7, <2>8 DEF SelfInv
<1>. QED BY <1>6, <1>7, <1>8 DEF Structure

LEMMA StructureStutter == Structure /\ UNCHANGED vars => Structure'
<1>. SUFFICES ASSUME Structure, UNCHANGED vars PROVE Structure'
  OBVIOUS
<1>. USE DEF vars, lock, own, graph
<1>1. Types'
  BY DEF Structure, Types, TypeOK
<1>2. \A k \in Keys : Distinct(waiting'[k])
  BY DEF Structure
<1>3. ASSUME NEW c \in Contexts PROVE SelfInv(c)'
  <2>1. SelfInv(c)
    BY DEF Structure
  <2>2. ListsInv(c)' /\ CallInv(c)'
    BY <2>1 DEF SelfInv, ListsInv, CallInv, Held, Queued, CallOK, AcquiredAfter, AtSavepoint,
                PastSavepoint, IsFor
  <2>3. SavepointInv(c)' /\ LoopInv(c)' /\ AnswerInv(c)' /\ WaitForInv(c)'
    BY <2>1 DEF SelfInv, SavepointInv, LoopInv, AnswerInv, WaitForInv, WaitingOn, Queued
  <2>4. \A i \in TicketIds : Ctx(i) = c => TicketInv(i)'
    BY <2>1 DEF SelfInv, TicketInv
  <2>5. \A k \in Keys : \A i \in WaitingOn(k)' : Ctx(i) = c => WaiterInv(k, i)'
    BY <2>1 DEF SelfInv, WaiterInv, WaitingOn, Queued
  <2>. QED BY <2>2, <2>3, <2>4, <2>5 DEF SelfInv
<1>. QED BY <1>1, <1>2, <1>3 DEF Structure

LEMMA StructureNext == Structure /\ [Next]_vars => Structure'
<1>. SUFFICES ASSUME Structure, Next PROVE Structure'
  BY StructureStutter
<1>1. ASSUME NEW c \in Contexts, Caller(c) PROVE Structure'
  BY <1>1, AttemptStep, AcquireLockAsks, AcquireLocksStep, UpgradeSharedLockAsks,
     DowngradeStep,
     ReleaseLockStep, ReleaseAllLocksForNameStep, ReleaseStatementLocksStep,
     SetSavepointStep, RollbackToSavepointStep, SetLockDurationStep, SetExplicitStep,
     SetTransactionStep DEF Caller
<1>2. ASSUME NEW c \in Contexts, Continue(c) PROVE Structure'
  BY <1>2, AttemptStep, AcquireNextAsks, MarkNoWaitStep, WillWaitForStep, SearchStep,
     SetVictimStep,
     DoneWaitingForStep, WaitFailedStep, WaitGrantedStep, MergeStep, ReleaseNextStep,
     RescheduleNextStep, RescheduleEndStep DEF Continue
<1>. QED BY <1>1, <1>2, ReleaseTransactionalLocksStep, InterruptWaitStep DEF Next

(* In every state of the metadata locks the lists of a connection hold its *)
(* granted tickets, each once; m_waiting of an object holds the tickets of *)
(* the connections that wait for it, and what acquire_lock(),              *)
(* acquire_locks(), upgrade_shared_lock_to_exclusive() and                 *)
(* reschedule_waiters() keep across their steps is still true when they go *)
(* on.                                                                     *)
THEOREM StructureInvariant == Spec => []Structure
<1>1. Init => Structure
  BY StructureInit
<1>2. Structure /\ [Next]_vars => Structure'
  BY StructureNext
<1>. QED BY <1>1, <1>2, PTL DEF Spec

(* The variables of MDL keep their types.                                  *)
THEOREM TypesCorrect == Spec => []TypeOK
<1>1. Structure => TypeOK
  BY DEF Structure, Types
<1>. QED BY <1>1, StructureInvariant, PTL

(* A waiter told GRANTED has its ticket in m_granted, any other has it in  *)
(* m_waiting, whoever won the race for its wait slot.                      *)
THEOREM AnswersAgree == Spec => []AnswerAgrees
<1>1. Structure => AnswerAgrees
  BY DEF Structure, SelfInv, AnswerInv, AnswerAgrees
<1>. QED BY <1>1, StructureInvariant, PTL

(* No ticket is lost: each one is in a list of the connection that owns    *)
(* it, or is that of its call in progress.                                 *)
THEOREM NothingOrphaned == Spec => []NoOrphan
<1>1. ASSUME Structure, NEW id \in TicketIds, ticket[id] # None
      PROVE  \/ id \in granted /\ id \in Held(Ctx(id))
             \/ Queued(Ctx(id)) /\ call[Ctx(id)].mine = id
  <2>1. ListsInv(Ctx(id))
    BY <1>1, CtxType DEF Structure, SelfInv
  <2>. QED BY <1>1, <2>1 DEF ListsInv
<1>2. Structure => NoOrphan
  BY <1>1 DEF NoOrphan
<1>. QED BY <1>2, StructureInvariant, PTL

(* The ticket that marks a savepoint stays in its list, so that ROLLBACK   *)
(* TO SAVEPOINT stops there.                                               *)
THEOREM SavepointsStay == Spec => []SavepointValid
<1>1. Structure => SavepointValid
  BY DEF Structure, SelfInv, SavepointInv, SavepointValid
<1>. QED BY <1>1, StructureInvariant, PTL

-----------------------------------------------------------------------------
(* Granted tickets are compatible.                                         *)

LEMMA GrantedFacts ==
  ASSUME Structure, NEW id \in granted
  PROVE  /\ id \in TicketIds /\ ticket[id] \in MDLTicket /\ ticket[id] # None
         /\ ticket[id].key \in Keys /\ ticket[id].type \in MDLTypeSet
         /\ Scoped(ticket[id].key) \in BOOLEAN
<1>1. id \in TicketIds /\ Types
  BY DEF Structure, Types, TypeOK
<1>2. TicketInv(id)
  BY <1>1, CtxType DEF Structure, SelfInv
<1>3. ticket[id] # None /\ ticket[id] \in MDLTicket
  BY <1>1, <1>2 DEF TicketInv, Types, TypeOK
<1>. QED BY <1>1, <1>3 DEF MDLTicket, Scoped

LEMMA GrantedTypesNext ==
  Structure' => (\A id \in granted : ticket[id].type \in MDLTypeSet)'
<1>1. Structure => \A id \in granted : ticket[id].type \in MDLTypeSet
  BY GrantedFacts
<1>. QED BY <1>1, PTL

(* The tickets after the step are each covered by one before it: of the    *)
(* same context, on the same object and at least as strong.                *)
LEMMA Inherited ==
  ASSUME Structure, Structure', GrantedCompatible,
         \A s \in granted' : \E r \in granted :
           /\ Ctx(r) = Ctx(s) /\ ticket[r].key = ticket'[s].key
           /\ HasStrongerOrEqualType(Scoped(ticket[r].key), ticket[r].type, ticket'[s].type)
  PROVE  GrantedCompatible'
<1>. SUFFICES ASSUME NEW s \in granted', NEW t \in granted',
                     Ctx(s) # Ctx(t), ticket'[s].key = ticket'[t].key,
                     ticket'[s].type \in
                       GrantedIncompatible(Scoped(ticket'[t].key), ticket'[t].type)
              PROVE  FALSE
  BY DEF GrantedCompatible, Scoped
<1>1. PICK a \in granted :
        /\ Ctx(a) = Ctx(s) /\ ticket[a].key = ticket'[s].key
        /\ HasStrongerOrEqualType(Scoped(ticket[a].key), ticket[a].type, ticket'[s].type)
  OBVIOUS
<1>2. PICK b \in granted :
        /\ Ctx(b) = Ctx(t) /\ ticket[b].key = ticket'[t].key
        /\ HasStrongerOrEqualType(Scoped(ticket[b].key), ticket[b].type, ticket'[t].type)
  OBVIOUS
<1>3. PICK scoped : scoped = Scoped(ticket[a].key)
  OBVIOUS
<1>4. /\ scoped \in BOOLEAN /\ ticket[a].type \in MDLTypeSet /\ ticket[b].type \in MDLTypeSet
  BY <1>3, GrantedFacts
<1>5. PICK x : x = ticket'[s].type
  OBVIOUS
<1>6. PICK y : y = ticket'[t].type
  OBVIOUS
<1>7. x \in MDLTypeSet /\ y \in MDLTypeSet
  BY <1>5, <1>6, GrantedTypesNext
<1>8. /\ GrantedIncompatible(scoped, x) \subseteq GrantedIncompatible(scoped, ticket[a].type)
      /\ GrantedIncompatible(scoped, y) \subseteq GrantedIncompatible(scoped, ticket[b].type)
      /\ x \in GrantedIncompatible(scoped, y)
  BY <1>1, <1>2, <1>3, <1>5, <1>6 DEF HasStrongerOrEqualType
<1>9. y \in GrantedIncompatible(scoped, ticket[a].type)
  BY <1>4, <1>7, <1>8, GrantedSymmetric
<1>10. ticket[a].type \in GrantedIncompatible(scoped, ticket[b].type)
  BY <1>4, <1>7, <1>8, <1>9, GrantedSymmetric
<1>. QED BY <1>1, <1>2, <1>3, <1>10 DEF GrantedCompatible

LEMMA Kept ==
  ASSUME Structure, Structure', GrantedCompatible, granted' \subseteq granted,
         \A s \in granted' : ticket'[s].key = ticket[s].key /\ ticket'[s].type = ticket[s].type
  PROVE  GrantedCompatible'
BY Inherited DEF HasStrongerOrEqualType

(* can_grant_lock() allows the ticket id.                                  *)
LEMMA Granted ==
  ASSUME Structure, Structure', GrantedCompatible, NEW id, granted' = granted \cup {id},
         \A s \in granted : ticket'[s].key = ticket[s].key /\ ticket'[s].type = ticket[s].type,
         NEW ignore, CanGrantLock(Ctx(id), ticket'[id].key, ticket'[id].type, ignore)
  PROVE  GrantedCompatible'
<1>1. ASSUME NEW s \in granted, Ctx(s) # Ctx(id), ticket[s].key = ticket'[id].key
      PROVE  /\ ticket[s].type \notin
                  GrantedIncompatible(Scoped(ticket'[id].key), ticket'[id].type)
             /\ ticket'[id].type \notin
                  GrantedIncompatible(Scoped(ticket[s].key), ticket[s].type)
  <2>1. ticket[s].type \notin GrantedIncompatible(Scoped(ticket'[id].key), ticket'[id].type)
    BY <1>1 DEF CanGrantLock, GrantedOn
  <2>2. ticket'[id].type \in MDLTypeSet
    BY GrantedTypesNext
  <2>3. ticket[s].type \in MDLTypeSet /\ Scoped(ticket[s].key) \in BOOLEAN
    BY GrantedFacts
  <2>. QED BY <1>1, <2>1, <2>2, <2>3, GrantedSymmetric
<1>2. ASSUME NEW s \in granted', NEW t \in granted',
             Ctx(s) # Ctx(t), ticket'[s].key = ticket'[t].key
      PROVE  ticket'[s].type \notin
               GrantedIncompatible(Scoped(ticket'[t].key), ticket'[t].type)
  <2>1. CASE s = id /\ t # id
    BY <1>1, <1>2, <2>1
  <2>2. CASE t = id /\ s # id
    BY <1>1, <1>2, <2>2
  <2>3. CASE s # id /\ t # id
    BY <1>2, <2>3 DEF GrantedCompatible
  <2>. QED BY <1>2, <2>1, <2>2, <2>3
<1>. QED BY <1>2 DEF GrantedCompatible, Scoped

LEMMA AttemptCompatible ==
  ASSUME Structure, GrantedCompatible, NEW c \in Contexts, NEW cl, Asking(c, cl),
         Attempt(c, cl)
  PROVE  GrantedCompatible'
<1>1. Structure'
  BY AttemptStep
<1>2. Types /\ cl.req \in MDLRequest
  BY DEF Structure, Asking, CallOK
<1>3. ticket \in [TicketIds -> MDLTicket \cup {None}] /\ granted \subseteq TicketIds
  BY <1>2 DEF Types, TypeOK
<1>4. PICK id : id = NewTicket(c)
  OBVIOUS
<1>5. Free(c) # {} => id \in TicketIds /\ Ctx(id) = c /\ id \notin granted
  BY <1>4, NewTicketFacts, GrantedFacts
<1>6. CASE ReuseTicket(c, cl) \/ Refused(c, cl)
  BY <1>1, <1>6, Kept DEF ReuseTicket, Refused, lock
<1>7. CASE CloneTicket(c, cl)
  <2>1. PICK t : t = [key |-> cl.req.key, type |-> cl.req.type,
                      nowait |-> ticket[FindTicket(c, cl.req)].nowait]
    OBVIOUS
  <2>2. /\ IsLockOwner(c, cl.req.key, cl.req.type) /\ Free(c) # {}
        /\ ticket' = [ticket EXCEPT ![id] = t] /\ granted' = granted \cup {id}
    BY <1>4, <1>7, <2>1 DEF CloneTicket
  <2>3. PICK f : f = FindTicket(c, cl.req)
    OBVIOUS
  <2>4. /\ f \in Held(c) /\ ticket[f].key = cl.req.key
        /\ HasStrongerOrEqualType(Scoped(cl.req.key), ticket[f].type, cl.req.type)
    <3>1. cl.req.dur \in Durations /\ \A d \in Durations : m_tickets[c][d] \in Seq(TicketIds)
      BY <1>2, TypeFacts DEF MDLRequest
    <3>. QED BY <2>2, <2>3, <3>1, FindTicketFacts, HeldDef
  <2>5. f \in granted /\ Ctx(f) = c
    BY <2>4, HeldFacts
  <2>6. ticket'[id] = t /\ \A i \in granted : ticket'[i] = ticket[i]
    BY <1>3, <1>5, <2>2
  <2>7. t.key = cl.req.key /\ t.type = cl.req.type
    BY <2>1
  <2>8. ASSUME NEW s \in granted'
        PROVE  \E r \in granted :
                 /\ Ctx(r) = Ctx(s) /\ ticket[r].key = ticket'[s].key
                 /\ HasStrongerOrEqualType(Scoped(ticket[r].key), ticket[r].type,
                                           ticket'[s].type)
    <3>1. CASE s = id
      BY <1>5, <2>2, <2>4, <2>5, <2>6, <2>7, <3>1
    <3>2. CASE s \in granted
      BY <2>6, <3>2 DEF HasStrongerOrEqualType
    <3>. QED BY <2>2, <3>1, <3>2
  <2>. QED BY <1>1, <2>8, Inherited
<1>8. CASE GrantAtOnce(c, cl)
  <2>1. PICK t : t = [key |-> cl.req.key, type |-> cl.req.type, nowait |-> FALSE]
    OBVIOUS
  <2>2. /\ Free(c) # {} /\ CanGrantLock(c, cl.req.key, cl.req.type, FALSE)
        /\ ticket' = [ticket EXCEPT ![id] = t] /\ granted' = granted \cup {id}
    BY <1>4, <1>8, <2>1 DEF GrantAtOnce, GotLock
  <2>3. t.key = cl.req.key /\ t.type = cl.req.type
    BY <2>1
  <2>4. ticket'[id] = t /\ \A i \in granted : ticket'[i] = ticket[i]
    BY <1>3, <1>5, <2>2
  <2>. QED BY <1>1, <1>5, <2>2, <2>3, <2>4, Granted
<1>9. CASE Enqueue(c, cl)
  <2>1. PICK t : t = [key |-> cl.req.key, type |-> cl.req.type, nowait |-> cl.req.nowait]
    OBVIOUS
  <2>2. Free(c) # {} /\ ticket' = [ticket EXCEPT ![id] = t] /\ granted' = granted
    BY <1>4, <1>9, <2>1 DEF Enqueue, GotLock
  <2>3. \A i \in granted : ticket'[i] = ticket[i]
    BY <1>3, <1>5, <2>2
  <2>. QED BY <1>1, <2>2, <2>3, Kept
<1>. QED BY <1>6, <1>7, <1>8, <1>9 DEF Attempt, Conflict, OutOfMemory

LEMMA CallerCompatible ==
  ASSUME Structure, GrantedCompatible, Structure', NEW c \in Contexts, Caller(c)
  PROVE  GrantedCompatible'
<1>1. CASE UNCHANGED <<ticket, lock>>
  BY <1>1, Kept DEF lock
<1>2. CASE \E cl : Asking(c, cl) /\ Attempt(c, cl)
  BY <1>2, AttemptCompatible
<1>3. ASSUME NEW id \in Held(c), NEW type \in {"SNW", "SNRW"},
             DowngradeExclusiveLock(c, id, type)
      PROVE  GrantedCompatible'
  <2>1. /\ ticket[id].type = "X" /\ ticket[id].key \in ObjectKeys
        /\ ticket' = [ticket EXCEPT ![id].type = type] /\ granted' = granted
    BY <1>3 DEF DowngradeExclusiveLock
  <2>2. id \in granted /\ id \in TicketIds /\ ticket[id] \in MDLTicket
    BY HeldFacts
  <2>3. PICK t : t = [ticket[id] EXCEPT !.type = type]
    OBVIOUS
  <2>4. t.key = ticket[id].key /\ t.type = type
    BY <2>2, <2>3 DEF MDLTicket
  <2>5. ticket'[id] = t /\ \A i \in granted : i # id => ticket'[i] = ticket[i]
    <3>1. ticket \in [TicketIds -> MDLTicket \cup {None}] /\ granted \subseteq TicketIds
      BY DEF Structure, Types, TypeOK
    <3>. QED BY <2>1, <2>2, <2>3, <3>1
  <2>6. Scoped(ticket[id].key) = FALSE
    BY <2>1, RequestsAssumption DEF Scoped
  <2>7. HasStrongerOrEqualType(Scoped(ticket[id].key), ticket[id].type, type)
    BY <2>1, <2>6, UpgradeTypes DEF HasStrongerOrEqualType
  <2>8. ASSUME NEW s \in granted'
        PROVE  \E r \in granted :
                 /\ Ctx(r) = Ctx(s) /\ ticket[r].key = ticket'[s].key
                 /\ HasStrongerOrEqualType(Scoped(ticket[r].key), ticket[r].type,
                                           ticket'[s].type)
    <3>1. CASE s = id
      BY <2>2, <2>4, <2>5, <2>7, <3>1
    <3>2. CASE s # id
      BY <2>1, <2>5, <3>2 DEF HasStrongerOrEqualType
    <3>. QED BY <3>1, <3>2
  <2>. QED BY <2>8, Inherited
<1>4. \/ UNCHANGED <<ticket, lock>>
      \/ \E cl : Asking(c, cl) /\ Attempt(c, cl)
      \/ \E id \in Held(c), type \in {"SNW", "SNRW"} : DowngradeExclusiveLock(c, id, type)
  BY AcquireLockAsks, UpgradeSharedLockAsks
     DEF Caller, AcquireLocks, ReleaseLock, ReleaseAllLocksForName, ReleaseStatementLocks, SetSavepoint,
         RollbackToSavepoint, SetLockDuration, SetExplicitDurationForAllLocks,
         SetTransactionDurationForAllLocks, StartRelease, SetTickets
<1>. QED BY <1>1, <1>2, <1>3, <1>4

LEMMA ContinueCompatible ==
  ASSUME Structure, GrantedCompatible, Structure', NEW c \in Contexts, Continue(c)
  PROVE  GrantedCompatible'
<1>1. ticket \in [TicketIds -> MDLTicket \cup {None}] /\ granted \subseteq TicketIds
  BY DEF Structure, Types, TypeOK
<1>2. CASE UNCHANGED <<ticket, granted>>
  BY <1>2, Kept
<1>3. ASSUME NEW id, RemoveTicket(c, id) PROVE GrantedCompatible'
  <2>1. granted' = granted \ {id} /\ ticket' = [ticket EXCEPT ![id] = None]
    BY <1>3 DEF RemoveTicket
  <2>2. \A s \in granted' : ticket'[s] = ticket[s]
    BY <1>1, <2>1
  <2>. QED BY <2>1, <2>2, Kept
<1>4. CASE MarkNoWait(c)
  <2>1. PICK id : id = call[c].mine
    OBVIOUS
  <2>2. ticket' = [ticket EXCEPT ![id].nowait = TRUE] /\ granted' = granted
    BY <1>4, <2>1 DEF MarkNoWait, lock
  <2>3. \A s \in granted : ticket'[s].key = ticket[s].key /\ ticket'[s].type = ticket[s].type
    <3>1. \A s \in granted : ticket[s] \in MDLTicket
      BY GrantedFacts
    <3>2. ASSUME NEW s \in granted PROVE ticket'[s] =
            IF s = id THEN [ticket[s] EXCEPT !.nowait = TRUE] ELSE ticket[s]
      BY <1>1, <2>2
    <3>. QED BY <3>1, <3>2 DEF MDLTicket
  <2>. QED BY <2>2, <2>3, Kept
<1>5. CASE AcquireNext(c)
  BY <1>5, AcquireNextAsks, AttemptCompatible
<1>6. CASE RescheduleNext(c) /\ ~UNCHANGED granted
  <2>1. PICK k : k = loop[c].key
    OBVIOUS
  <2>2. PICK id : id = Head(loop[c].rest)
    OBVIOUS
  <2>3. WaiterInv(k, id)
    BY <1>6, <2>1, <2>2, RescheduleNextFacts
  <2>4. CanGrantLock(Ctx(id), k, ticket[id].type, loop[c].skip)
        /\ granted' = granted \cup {id} /\ ticket' = ticket
    BY <1>6, <2>1, <2>2 DEF RescheduleNext
  <2>5. CanGrantLock(Ctx(id), ticket'[id].key, ticket'[id].type, loop[c].skip)
    BY <2>3, <2>4 DEF WaiterInv
  <2>6. PICK ignore : ignore = loop[c].skip
    OBVIOUS
  <2>. QED BY <2>4, <2>5, <2>6, Granted
<1>7. CASE Merge(c)
  <2>1. PICK cl : cl = call[c]
    OBVIOUS
  <2>2. PICK x : x = cl.mine
    OBVIOUS
  <2>3. PICK id : id = cl.target
    OBVIOUS
  <2>4. /\ pc[c] = "merge"
        /\ ticket' = [i \in TicketIds |->
             CASE i = id -> [ticket[id] EXCEPT !.type = "X"]
               [] i = x /\ ~HasLock(c, cl.svp, x) -> None
               [] OTHER -> ticket[i]]
        /\ granted' = IF ~HasLock(c, cl.svp, x) THEN granted \ {x} ELSE granted
    BY <1>7, <2>1, <2>2, <2>3 DEF Merge, At
  <2>5. /\ id \in Held(c) /\ x \in Held(c) /\ x # id
        /\ ticket[x].key = ticket[id].key /\ ticket[x].type = "X"
    BY <2>1, <2>2, <2>3, <2>4, MergeFacts
  <2>6. /\ id \in granted /\ Ctx(id) = c /\ x \in granted /\ Ctx(x) = c
        /\ ticket[id] \in MDLTicket
    BY <2>5, HeldFacts
  <2>7. PICK t : t = [ticket[id] EXCEPT !.type = "X"]
    OBVIOUS
  <2>8. t.key = ticket[id].key /\ t.type = "X"
    BY <2>6, <2>7 DEF MDLTicket
  <2>9. ASSUME NEW s \in granted'
        PROVE  s \in granted /\ ticket'[s] = IF s = id THEN t ELSE ticket[s]
    <3>1. s \in granted /\ s \in TicketIds /\ ~(s = x /\ ~HasLock(c, cl.svp, x))
      BY <1>1, <2>4
    <3>2. ticket'[s] = CASE s = id -> [ticket[id] EXCEPT !.type = "X"]
                         [] s = x /\ ~HasLock(c, cl.svp, x) -> None
                         [] OTHER -> ticket[s]
      BY <2>4, <3>1
    <3>3. CASE s = id
      BY <2>5, <2>7, <3>1, <3>2, <3>3
    <3>4. CASE s # id
      BY <3>1, <3>2, <3>4
    <3>. QED BY <3>1, <3>3, <3>4
  <2>10. ASSUME NEW s \in granted'
         PROVE  \E r \in granted :
                  /\ Ctx(r) = Ctx(s) /\ ticket[r].key = ticket'[s].key
                  /\ HasStrongerOrEqualType(Scoped(ticket[r].key), ticket[r].type,
                                            ticket'[s].type)
    <3>1. CASE s = id
      BY <2>5, <2>6, <2>8, <2>9, <3>1 DEF HasStrongerOrEqualType
    <3>2. CASE s # id
      BY <2>9, <3>2 DEF HasStrongerOrEqualType
    <3>. QED BY <3>1, <3>2
  <2>. QED BY <2>10, Inherited
<1>8. \/ UNCHANGED <<ticket, granted>> \/ \E id : RemoveTicket(c, id)
      \/ MarkNoWait(c) \/ AcquireNext(c) \/ Merge(c)
      \/ RescheduleNext(c)
  BY DEF Continue, WillWaitFor, Search, SetVictim, DoneWaitingFor, WaitFailed, WaitGranted,
         ReleaseNext, RescheduleEnd, lock
<1>9. RescheduleNext(c) => UNCHANGED ticket
  BY DEF RescheduleNext
<1>. QED BY <1>2, <1>3, <1>4, <1>5, <1>6, <1>7, <1>8, <1>9

LEMMA CompatibleNext ==
  Structure /\ GrantedCompatible /\ [Next]_vars => GrantedCompatible'
<1>. SUFFICES ASSUME Structure, GrantedCompatible, [Next]_vars PROVE GrantedCompatible'
  OBVIOUS
<1>1. Structure'
  BY StructureNext
<1>2. CASE UNCHANGED <<ticket, granted>>
  BY <1>1, <1>2, Kept
<1>3. \/ UNCHANGED <<ticket, granted>>
      \/ \E c \in Contexts : Caller(c) \/ Continue(c)
  BY DEF Next, vars, lock, ReleaseTransactionalLocks, StartRelease, InterruptWait
<1>. QED BY <1>1, <1>2, <1>3, CallerCompatible, ContinueCompatible

(* Two connections never hold locks on one object that the matrix of       *)
(* m_granted_incompatible excludes, however many connections, objects and  *)
(* tickets there are: not through try_acquire_lock_impl(), not through     *)
(* reschedule_waiters(), a clone, an upgrade or a downgrade.               *)
THEOREM GrantedAreCompatible == Spec => []GrantedCompatible
<1>1. Init => GrantedCompatible
  BY DEF Init, GrantedCompatible
<1>2. Structure /\ GrantedCompatible /\ [Next]_vars => GrantedCompatible'
  BY CompatibleNext
<1>. QED BY <1>1, <1>2, StructureInvariant, PTL DEF Spec

(* "There can be only one upgrader for a lock": two connections never      *)
(* upgrade locks on the same object.                                       *)
THEOREM OneUpgraderOnly == Spec => []OneUpgrader
<1>1. ASSUME Structure, GrantedCompatible, NEW c \in Contexts, NEW d \in Contexts, c # d,
             call[c].op = "upgrade", call[d].op = "upgrade",
             call[c].req.key = call[d].req.key
      PROVE  FALSE
  <2>1. ASSUME NEW e \in Contexts, call[e].op = "upgrade"
        PROVE  /\ call[e].target \in granted /\ Ctx(call[e].target) = e
               /\ ticket[call[e].target].key = call[e].req.key
               /\ ticket[call[e].target].type \in {"SNW", "SNRW"}
               /\ Scoped(call[e].req.key) = FALSE
    <3>1. CallInv(e)
      BY <1>1 DEF Structure, SelfInv
    <3>2. CallOK(e, call[e])
      BY <2>1, <3>1 DEF CallInv, NoCall
    <3>3. /\ call[e].target \in Held(e) /\ ticket[call[e].target].key = call[e].req.key
          /\ ticket[call[e].target].type \in {"SNW", "SNRW"}
      BY <2>1, <3>2 DEF CallOK
    <3>4. ticket[call[e].target].type \in LockTypes(call[e].req.key)
      BY <1>1, <3>3, HeldFacts
    <3>. QED BY <1>1, <3>3, <3>4, HeldFacts DEF LockTypes, Scoped
  <2>2. ticket[call[c].target].type \in
          GrantedIncompatible(FALSE, ticket[call[d].target].type)
    BY <1>1, <2>1, UpgradeTypes
  <2>. QED BY <1>1, <2>1, <2>2 DEF GrantedCompatible
<1>2. Structure /\ GrantedCompatible => OneUpgrader
  BY <1>1 DEF OneUpgrader
<1>. QED BY <1>2, StructureInvariant, GrantedAreCompatible, PTL

-----------------------------------------------------------------------------
(* Deadlock victims.                                                       *)

(* A step that has nothing to do with the deadlock detector.               *)
Quiet ==
  /\ UNCHANGED <<waiting_for, victim>>
  /\ \A d \in Contexts :
       /\ pc'[d] = "victim" => pc[d] = "victim"
       /\ wait_status'[d] = "VICTIM" => wait_status[d] = "VICTIM"

LEMMA SatisfiedQuiet ==
  ASSUME Structure, NEW c \in Contexts, NEW cl, NEW id, Satisfied(c, cl, id),
         NEW d \in Contexts, pc'[d] = "victim"
  PROVE  pc[d] = "victim"
<1>1. pc \in [Contexts -> Labels]
  BY DEF Structure, Types, TypeOK
<1>2. Goto(c, "merge") \/ Goto(c, "ask") \/ Goto(c, "run")
  BY DEF Satisfied
<1>. QED BY <1>1, <1>2 DEF Goto

LEMMA AttemptQuiet ==
  ASSUME Structure, NEW c \in Contexts, NEW cl, Attempt(c, cl)
  PROVE  Quiet
<1>1. pc \in [Contexts -> Labels] /\ wait_status \in [Contexts -> WaitStatuses]
  BY DEF Structure, Types, TypeOK
<1>2. CASE ReuseTicket(c, cl)
  BY <1>2, SatisfiedQuiet DEF ReuseTicket, Quiet, graph
<1>3. CASE CloneTicket(c, cl)
  BY <1>3, SatisfiedQuiet DEF CloneTicket, Quiet, graph
<1>4. CASE GrantAtOnce(c, cl)
  <2>1. UNCHANGED graph /\ (Goto(c, "mark") \/ Satisfied(c, cl, NewTicket(c)))
    BY <1>4 DEF GrantAtOnce
  <2>. QED BY <1>1, <2>1, SatisfiedQuiet DEF Quiet, graph, Goto
<1>5. CASE Refused(c, cl)
  BY <1>1, <1>5 DEF Refused, Goto, Quiet, graph
<1>6. CASE Enqueue(c, cl)
  <2>1. /\ wait_status' = [wait_status EXCEPT ![c] = "EMPTY"] /\ Goto(c, "queued")
        /\ UNCHANGED <<waiting_for, victim>>
    BY <1>6 DEF Enqueue
  <2>. QED BY <1>1, <2>1 DEF Goto, Quiet
<1>. QED BY <1>2, <1>3, <1>4, <1>5, <1>6 DEF Attempt, Conflict, OutOfMemory

LEMMA SetStatusQuiet ==
  ASSUME NEW S, NEW status, SetStatus(S, status), status # "VICTIM",
         NEW d \in Contexts, wait_status'[d] = "VICTIM"
  PROVE  wait_status[d] = "VICTIM"
BY DEF SetStatus

LEMMA StepQuiet ==
  ASSUME Structure, NEW c \in Contexts, Caller(c) \/ Continue(c)
  PROVE  Quiet \/ WillWaitFor(c) \/ Search(c) \/ SetVictim(c) \/ DoneWaitingFor(c)
<1>1. pc \in [Contexts -> Labels] /\ wait_status \in [Contexts -> WaitStatuses]
  BY DEF Structure, Types, TypeOK
<1>2. CASE \E cl : Attempt(c, cl)
  BY <1>2, AttemptQuiet
<1>3. CASE UNCHANGED <<graph, pc>>
  BY <1>3 DEF Quiet, graph
<1>4. ASSUME NEW id, NEW type, DowngradeExclusiveLock(c, id, type) PROVE Quiet
  <2>1. UNCHANGED graph /\ Goto(c, "resched")
    BY <1>4 DEF DowngradeExclusiveLock, StartLoop
  <2>. QED BY <1>1, <2>1 DEF Quiet, graph, Goto
<1>5. ASSUME NEW id, RemoveTicket(c, id), UNCHANGED graph PROVE Quiet
  <2>1. Goto(c, "run") \/ Goto(c, "resched")
    BY <1>5 DEF RemoveTicket, StartLoop
  <2>. QED BY <1>1, <1>5, <2>1 DEF Quiet, graph, Goto
<1>6. CASE MarkNoWait(c)
  BY <1>6, SatisfiedQuiet DEF MarkNoWait, Quiet, graph
<1>7. CASE WaitGranted(c)
  <2>1. /\ UNCHANGED <<waiting_for, victim>> /\ Satisfied(c, call[c], call[c].mine)
        /\ \/ UNCHANGED wait_status
           \/ SetStatus({Ctx(w) : w \in WaitingOn(ticket[call[c].mine].key)}, "ABORTED")
    BY <1>7 DEF WaitGranted
  <2>2. \A d \in Contexts : pc'[d] = "victim" => pc[d] = "victim"
    BY <2>1, SatisfiedQuiet
  <2>3. \A d \in Contexts : wait_status'[d] = "VICTIM" => wait_status[d] = "VICTIM"
    BY <2>1, SetStatusQuiet
  <2>. QED BY <2>1, <2>2, <2>3 DEF Quiet
<1>8. CASE Merge(c) \/ RescheduleEnd(c)
  <2>1. UNCHANGED graph /\ Goto(c, "run")
    BY <1>8 DEF Merge, RescheduleEnd
  <2>. QED BY <1>1, <2>1 DEF Quiet, graph, Goto
<1>9. CASE RescheduleNext(c)
  <2>1. /\ UNCHANGED <<waiting_for, victim, pc>>
        /\ UNCHANGED wait_status \/ \E S : SetStatus(S, "GRANTED")
    BY <1>9 DEF RescheduleNext
  <2>2. \A d \in Contexts : wait_status'[d] = "VICTIM" => wait_status[d] = "VICTIM"
    BY <2>1, SetStatusQuiet
  <2>. QED BY <2>1, <2>2 DEF Quiet
<1>10. CASE Caller(c)
  <2>1. \/ \E cl : Attempt(c, cl) \/ UNCHANGED <<graph, pc>>
        \/ \E id, type : DowngradeExclusiveLock(c, id, type)
        \/ \E b \in Batches : AcquireLocks(c, b)
    BY <1>10, AcquireLockAsks, UpgradeSharedLockAsks
       DEF Caller, ReleaseLock, ReleaseAllLocksForName, ReleaseStatementLocks, SetSavepoint,
           RollbackToSavepoint, SetLockDuration, SetExplicitDurationForAllLocks,
           SetTransactionDurationForAllLocks, StartRelease, SetTickets
  <2>2. ASSUME NEW b, AcquireLocks(c, b) PROVE Quiet
    <3>1. UNCHANGED graph /\ Goto(c, "ask")
      BY <2>2 DEF AcquireLocks
    <3>. QED BY <1>1, <3>1 DEF Quiet, graph, Goto
  <2>. QED BY <1>2, <1>3, <1>4, <2>1, <2>2
<1>11. CASE Continue(c)
  BY <1>2, <1>5, <1>6, <1>7, <1>8, <1>9, <1>11
     DEF Continue, AcquireNext, WaitFailed, ReleaseNext
<1>. QED BY <1>10, <1>11

LEMMA NextQuiet ==
  ASSUME Structure, [Next]_vars
  PROVE  \/ Quiet
         \/ \E c \in Contexts :
              WillWaitFor(c) \/ Search(c) \/ SetVictim(c) \/ DoneWaitingFor(c)
<1>1. wait_status \in [Contexts -> WaitStatuses]
  BY DEF Structure, Types, TypeOK
<1>2. ASSUME NEW c \in Contexts, NEW status \in Interrupts, InterruptWait(c, status)
      PROVE  Quiet
  <2>1. status # "VICTIM"
    BY RequestsAssumption
  <2>. QED BY <1>1, <1>2, <2>1 DEF InterruptWait, Quiet
<1>3. ASSUME UNCHANGED vars \/ \E c \in Contexts : ReleaseTransactionalLocks(c) PROVE Quiet
  BY <1>3 DEF ReleaseTransactionalLocks, StartRelease, vars, graph, Quiet
<1>. QED BY <1>2, <1>3, StepQuiet DEF Next

LEMMA PinNext == Structure /\ PinInv /\ [Next]_vars => PinInv'
<1>. SUFFICES ASSUME Structure, PinInv, [Next]_vars, NEW s \in Contexts
              PROVE  (/\ victim[s] # None => waiting_for[victim[s]] # None
                      /\ pc[s] = "victim" => victim[s] # None)'
  BY DEF PinInv
<1>1. /\ pc \in [Contexts -> Labels] /\ waiting_for \in [Contexts -> TicketIds \cup {None}]
      /\ victim \in [Contexts -> Contexts \cup {None}]
  BY DEF Structure, Types, TypeOK
<1>2. CASE Quiet
  BY <1>2 DEF Quiet, PinInv
<1>3. ASSUME NEW c \in Contexts, WillWaitFor(c)
      PROVE  (/\ victim[s] # None => waiting_for[victim[s]] # None
              /\ pc[s] = "victim" => victim[s] # None)'
  <2>1. /\ waiting_for' = [waiting_for EXCEPT ![c] = call[c].mine]
        /\ Goto(c, "search") /\ victim' = victim /\ Queued(c)
    BY <1>3 DEF WillWaitFor, At, Queued
  <2>2. call[c].mine # None
    BY <2>1, WaitForTicket, NoneAssumption
  <2>. QED BY <1>1, <2>1, <2>2 DEF Goto, PinInv
<1>4. ASSUME NEW c \in Contexts, Search(c)
      PROVE  (/\ victim[s] # None => waiting_for[victim[s]] # None
              /\ pc[s] = "victim" => victim[s] # None)'
  <2>1. waiting_for' = waiting_for
    BY <1>4 DEF Search
  <2>2. CASE Goto(c, "wait") /\ UNCHANGED victim
    BY <1>1, <2>1, <2>2 DEF Goto, PinInv
  <2>3. CASE ~(Goto(c, "wait") /\ UNCHANGED victim)
    <3>1. PICK v \in DeadlockVictims(c, [b \in Contexts |-> Blockers(b)],
                   {b \in Contexts : waiting_for[b] # None /\ wait_status[b] = "EMPTY"},
                   [b \in Contexts |-> DeadlockWeight(b)], MaxSearchDepth) :
            victim' = [victim EXCEPT ![c] = v] /\ Goto(c, "victim")
      BY <1>4, <2>3 DEF Search
    <3>2. v \in Contexts /\ waiting_for[v] # None
      BY <3>1, SearchVictims
    <3>3. v # None
      BY <3>2, NoneAssumption
    <3>. QED BY <1>1, <2>1, <3>1, <3>2, <3>3 DEF Goto, PinInv
  <2>. QED BY <2>2, <2>3
<1>5. ASSUME NEW c \in Contexts, SetVictim(c)
      PROVE  (/\ victim[s] # None => waiting_for[victim[s]] # None
              /\ pc[s] = "victim" => victim[s] # None)'
  <2>1. /\ waiting_for' = waiting_for /\ victim' = [victim EXCEPT ![c] = None]
        /\ Goto(c, "wait") \/ Goto(c, "search")
    BY <1>5 DEF SetVictim
  <2>. QED BY <1>1, <2>1 DEF Goto, PinInv
<1>6. ASSUME NEW c \in Contexts, DoneWaitingFor(c)
      PROVE  (/\ victim[s] # None => waiting_for[victim[s]] # None
              /\ pc[s] = "victim" => victim[s] # None)'
  <2>1. /\ waiting_for' = [waiting_for EXCEPT ![c] = None] /\ victim' = victim
        /\ Goto(c, "finish") /\ \A d \in Contexts : victim[d] # c
    BY <1>6 DEF DoneWaitingFor
  <2>. QED BY <1>1, <2>1 DEF Goto, PinInv
<1>. QED BY <1>2, <1>3, <1>4, <1>5, <1>6, NextQuiet

(* Only a connection that waits is made a deadlock victim: between the     *)
(* search of find_deadlock() and set_status(VICTIM) the lock of            *)
(* m_waiting_for keeps it from ending its wait.                            *)
THEOREM VictimsWait == Spec => VictimIsWaiting
<1>1. Init => PinInv
  BY DEF Init, PinInv
<1>2. Structure /\ PinInv /\ [Next]_vars => PinInv'
  BY PinNext
<1>3. ASSUME Structure, PinInv, [Next]_vars, NEW c \in Contexts,
             wait_status[c] # "VICTIM", wait_status'[c] = "VICTIM"
      PROVE  waiting_for[c] # None
  <2>1. PICK d \in Contexts : SetVictim(d)
    BY <1>3, NextQuiet DEF Quiet, WillWaitFor, Search, DoneWaitingFor
  <2>2. victim[d] = c /\ pc[d] = "victim"
    BY <1>3, <2>1 DEF SetVictim, SetStatus, At
  <2>3. c # None
    BY NoneAssumption
  <2>. QED BY <1>3, <2>2, <2>3 DEF PinInv
<1>4. Structure /\ PinInv /\ [Next]_vars =>
        [\A c \in Contexts :
           wait_status[c] # "VICTIM" /\ wait_status'[c] = "VICTIM" => waiting_for[c] # None]_vars
  BY <1>3
<1>. QED BY <1>1, <1>2, <1>4, StructureInvariant, PTL DEF Spec, VictimIsWaiting

-----------------------------------------------------------------------------
(* Every loop of waits is found.                                           *)

(* A search that starts in a set of contexts that wait for each other      *)
(* reports a victim, whatever the depth at which it gives up.              *)
LEMMA DeadlockFound ==
  ASSUME NEW edges, NEW D, D \subseteq DOMAIN edges, NEW start \in D,
         NEW live, D \subseteq live, NEW weights, NEW M \in Nat \ {0},
         \A c \in D : edges[c] \cap D # {}
  PROVE  DeadlockVictims(start, edges, live, weights, M) # {}
<1>. DEFINE f == VisitSubgraph(start, edges, live, weights, M)
            Finds(d) == \A c \in D : f[d][c] # {}
            S == {n \in Nat : n < M => Finds(M - n)}
<1>1. \A d \in 1 .. M : f[d] = Visit(f, d, start, edges, live, weights, M)
  BY VisitEquation
<1>. HIDE DEF f
<1>2. ASSUME NEW d \in 1 .. M, d = M \/ Finds(d + 1) PROVE Finds(d)
  <2>. SUFFICES ASSUME NEW c \in D PROVE f[d][c] # {}
    OBVIOUS
  <2>1. f[d][c] = IF d = M \/ start \in edges[c] THEN {c}
                  ELSE {OptChangeVictimTo(weights, v, c) :
                          v \in UNION {f[d + 1][b] : b \in edges[c]}}
    BY <1>1 DEF Visit
  <2>2. CASE d = M \/ start \in edges[c]
    BY <2>1, <2>2
  <2>3. CASE ~(d = M \/ start \in edges[c])
    <3>1. PICK b \in edges[c] : b \in D
      OBVIOUS
    <3>2. PICK v : v \in f[d + 1][b]
      BY <1>2, <2>3, <3>1
    <3>3. OptChangeVictimTo(weights, v, c) \in f[d][c]
      BY <2>1, <2>3, <3>1, <3>2
    <3>. QED BY <3>3
  <2>. QED BY <2>2, <2>3
<1>. HIDE DEF Finds
<1>3. 0 \in S
  BY <1>2
<1>4. ASSUME NEW n \in S PROVE n + 1 \in S
  <2>. SUFFICES ASSUME n + 1 < M PROVE Finds(M - (n + 1))
    OBVIOUS
  <2>1. M - (n + 1) \in 1 .. M /\ (M - (n + 1)) + 1 = M - n /\ n < M
    OBVIOUS
  <2>. QED BY <1>2, <2>1
<1>5. S = Nat
  <2>. HIDE DEF S
  <2>1. S \subseteq Nat
    BY DEF S
  <2>. QED BY <1>3, <1>4, <2>1, SetInduction
<1>6. Finds(1)
  <2>1. M - 1 \in Nat /\ M - 1 < M /\ M - (M - 1) = 1
    OBVIOUS
  <2>2. M - 1 \in S
    <3>. HIDE DEF S
    <3>. QED BY <1>5, <2>1
  <2>. QED BY <2>1, <2>2
<1>. QED BY <1>6 DEF Finds, DeadlockVictims, f

(* What a step of s that is not about its wait leaves alone: only its own  *)
(* tickets are new or join a list, unless their owner is told so.          *)
OwnTicketsOnly(s) ==
  \A id \in TicketIds : Ctx(id) # s =>
    /\ ticket'[id] = ticket[id]
    /\ id \in granted' => id \in granted \/ wait_status'[Ctx(id)] = "GRANTED"
    /\ \A k \in Keys : id \in WaitingOn(k)' => id \in WaitingOn(k)

Waits == {"search", "victim", "wait"}

Moves(s) ==
  /\ pc[s] \notin Waits /\ pc'[s] \notin Waits
  /\ \A d \in Contexts \ {s} :
       pc'[d] = pc[d] /\ (wait_status'[d] = "EMPTY" => wait_status[d] = "EMPTY")
  /\ waiting_for' = waiting_for
  /\ OwnTicketsOnly(s)

LEMMA GotoFacts ==
  ASSUME Structure, NEW c \in Contexts, NEW label, Goto(c, label)
  PROVE  pc'[c] = label /\ \A d \in Contexts \ {c} : pc'[d] = pc[d]
<1>1. pc \in [Contexts -> Labels]
  BY DEF Structure, Types, TypeOK
<1>. QED BY <1>1 DEF Goto

LEMMA SatisfiedMoves ==
  ASSUME Structure, NEW c \in Contexts, NEW cl, NEW id, Satisfied(c, cl, id)
  PROVE  pc'[c] \notin Waits /\ \A d \in Contexts \ {c} : pc'[d] = pc[d]
<1>1. Goto(c, "merge") \/ Goto(c, "ask") \/ Goto(c, "run")
  BY DEF Satisfied
<1>. QED BY <1>1, GotoFacts DEF Waits

(* The ticket id is the only one that changes.                             *)
LEMMA OneTicketOnly ==
  ASSUME NEW s, NEW id, Ctx(id) = s,
         \A i \in TicketIds : i # id => ticket'[i] = ticket[i],
         granted' \subseteq granted \cup {id},
         \A k \in Keys : WaitingOn(k)' \subseteq WaitingOn(k) \cup {id}
  PROVE  OwnTicketsOnly(s)
BY DEF OwnTicketsOnly

LEMMA AttemptMoves ==
  ASSUME Structure, NEW c \in Contexts, NEW cl, Asking(c, cl), Attempt(c, cl)
  PROVE  Moves(c)
<1>1. Types /\ pc[c] \notin Waits /\ cl.req.key \in Keys
  BY DEF Structure, Asking, Waits, CallOK, MDLRequest
<1>2. PICK id : id = NewTicket(c)
  OBVIOUS
<1>3. Free(c) # {} => id \in TicketIds /\ Ctx(id) = c
  BY <1>2, NewTicketFacts
<1>4. CASE ReuseTicket(c, cl) \/ Refused(c, cl)
  <2>1. OwnTicketsOnly(c) /\ UNCHANGED graph
    BY <1>4 DEF OwnTicketsOnly, WaitingOn, ReuseTicket, Refused, lock
  <2>2. pc'[c] \notin Waits /\ \A d \in Contexts \ {c} : pc'[d] = pc[d]
    BY <1>4, SatisfiedMoves, GotoFacts DEF ReuseTicket, Refused, Waits
  <2>. QED BY <1>1, <2>1, <2>2 DEF Moves, graph
<1>5. CASE Free(c) # {} /\ \E t : ticket' = [ticket EXCEPT ![id] = t]
  <2>1. \A i \in TicketIds : i # id => ticket'[i] = ticket[i]
    BY <1>1, <1>5 DEF Types, TypeOK
  <2>2. CASE granted' = granted \cup {id} /\ waiting' = waiting /\ UNCHANGED graph
             /\ (Goto(c, "mark") \/ Satisfied(c, cl, id))
    <3>1. OwnTicketsOnly(c)
      BY <1>3, <1>5, <2>1, <2>2, OneTicketOnly DEF WaitingOn
    <3>2. pc'[c] \notin Waits /\ \A d \in Contexts \ {c} : pc'[d] = pc[d]
      BY <2>2, SatisfiedMoves, GotoFacts DEF Waits
    <3>. QED BY <1>1, <2>2, <3>1, <3>2 DEF Moves, graph
  <2>3. CASE Enqueue(c, cl)
    <3>1. /\ wait_status' = [wait_status EXCEPT ![c] = "EMPTY"] /\ Goto(c, "queued")
          /\ UNCHANGED <<waiting_for, victim, granted>>
          /\ waiting' = [waiting EXCEPT ![cl.req.key] = Append(waiting[cl.req.key], id)]
      BY <1>2, <2>3 DEF Enqueue
    <3>2. wait_status \in [Contexts -> WaitStatuses] /\ waiting \in [Keys -> Seq(TicketIds)]
      BY <1>1 DEF Types, TypeOK
    <3>3. PICK list : list = Append(waiting[cl.req.key], id)
      OBVIOUS
    <3>4. ToSet(list) = ToSet(waiting[cl.req.key]) \cup {id}
      BY <1>1, <1>3, <1>5, <3>2, <3>3, AppendFacts
    <3>5. ASSUME NEW k \in Keys PROVE WaitingOn(k)' \subseteq WaitingOn(k) \cup {id}
      <4>1. waiting'[k] = IF k = cl.req.key THEN list ELSE waiting[k]
        BY <3>1, <3>2, <3>3
      <4>. QED BY <3>4, <4>1 DEF WaitingOn
    <3>6. OwnTicketsOnly(c)
      BY <1>3, <1>5, <2>1, <3>1, <3>5, OneTicketOnly
    <3>7. pc'[c] = "queued" /\ \A d \in Contexts \ {c} : pc'[d] = pc[d]
      BY <3>1, GotoFacts
    <3>8. \A d \in Contexts \ {c} : wait_status'[d] = wait_status[d]
      BY <3>1, <3>2
    <3>. QED BY <1>1, <3>1, <3>6, <3>7, <3>8 DEF Moves, Waits
  <2>4. CloneTicket(c, cl) \/ GrantAtOnce(c, cl) =>
          granted' = granted \cup {id} /\ waiting' = waiting /\ UNCHANGED graph
             /\ (Goto(c, "mark") \/ Satisfied(c, cl, id))
    BY <1>2 DEF CloneTicket, GrantAtOnce
  <2>. QED BY <1>4, <2>2, <2>3, <2>4 DEF Attempt, Conflict, OutOfMemory
<1>6. CloneTicket(c, cl) \/ GrantAtOnce(c, cl) \/ Enqueue(c, cl) =>
        Free(c) # {} /\ \E t : ticket' = [ticket EXCEPT ![id] = t]
  BY <1>2 DEF CloneTicket, GrantAtOnce, Enqueue, GotLock
<1>. QED BY <1>4, <1>5, <1>6 DEF Attempt, Conflict, OutOfMemory

LEMMA ContinueMoves ==
  ASSUME Structure, NEW c \in Contexts, Continue(c)
  PROVE  Moves(c) \/ WillWaitFor(c) \/ Search(c) \/ SetVictim(c) \/ DoneWaitingFor(c)
<1>1. Types /\ SelfInv(c) /\ ticket \in [TicketIds -> MDLTicket \cup {None}]
  BY DEF Structure, Types, TypeOK
<1>2. CASE AcquireNext(c)
  BY <1>2, AcquireNextAsks, AttemptMoves
<1>3. CASE MarkNoWait(c)
  <2>1. PICK id : id = call[c].mine
    OBVIOUS
  <2>2. pc[c] = "mark" /\ ticket' = [ticket EXCEPT ![id].nowait = TRUE]
        /\ Satisfied(c, call[c], id) /\ UNCHANGED <<lock, graph>>
    BY <1>3, <2>1 DEF MarkNoWait, At
  <2>3. id \in Held(c)
    BY <1>1, <2>1, <2>2 DEF SelfInv, CallInv
  <2>4. OwnTicketsOnly(c)
    BY <1>1, <2>2, <2>3, HeldFacts, OneTicketOnly DEF lock, WaitingOn
  <2>5. pc'[c] \notin Waits /\ \A d \in Contexts \ {c} : pc'[d] = pc[d]
    BY <2>2, SatisfiedMoves
  <2>. QED BY <2>2, <2>4, <2>5 DEF Moves, Waits, graph
<1>4. ASSUME NEW id \in TicketIds, ticket[id] # None, Ctx(id) = c, RemoveTicket(c, id),
             pc[c] \notin Waits, UNCHANGED graph
      PROVE  Moves(c)
  <2>1. /\ \A i \in TicketIds : i # id => ticket'[i] = ticket[i]
        /\ granted' = granted \ {id}
        /\ \A k \in Keys : WaitingOn(k)' = WaitingOn(k) \ {id}
        /\ pc'[c] \in {"run", "resched"} /\ \A d \in Contexts \ {c} : pc'[d] = pc[d]
    BY <1>4, RemoveTicketFacts
  <2>2. OwnTicketsOnly(c)
    BY <1>4, <2>1, OneTicketOnly
  <2>. QED BY <1>4, <2>1, <2>2 DEF Moves, Waits, graph
<1>5. CASE WaitFailed(c)
  <2>1. pc[c] = "finish" /\ RemoveTicket(c, call[c].mine) /\ UNCHANGED graph
    BY <1>5 DEF WaitFailed, At
  <2>2. /\ call[c].mine \in TicketIds /\ ticket[call[c].mine] # None
        /\ Ctx(call[c].mine) = c
    BY <1>1, <2>1 DEF SelfInv, CallInv, IsFor, Queued
  <2>. QED BY <1>4, <2>1, <2>2 DEF Waits
<1>6. CASE ReleaseNext(c)
  <2>1. /\ pc[c] = "run" /\ release[c] # <<>> /\ RemoveTicket(c, Head(release[c]))
        /\ UNCHANGED graph
    BY <1>6 DEF ReleaseNext, At
  <2>2. Head(release[c]) \in Held(c)
    <3>1. release[c] \in Seq(TicketIds) /\ ToSet(release[c]) \subseteq Held(c)
      BY <1>1, TypeFacts DEF SelfInv, ListsInv
    <3>. QED BY <2>1, <3>1, TailFacts
  <2>. QED BY <1>4, <2>1, <2>2, HeldFacts DEF Waits
<1>7. CASE WaitGranted(c)
  <2>1. /\ pc[c] = "finish" /\ Satisfied(c, call[c], call[c].mine)
        /\ UNCHANGED <<ticket, lock, waiting_for>>
        /\ UNCHANGED wait_status \/ \E S : SetStatus(S, "ABORTED")
    BY <1>7 DEF WaitGranted, At
  <2>2. OwnTicketsOnly(c)
    BY <2>1 DEF OwnTicketsOnly, WaitingOn, lock
  <2>3. \A d \in Contexts : wait_status'[d] = "EMPTY" => wait_status[d] = "EMPTY"
    BY <2>1 DEF SetStatus
  <2>4. pc'[c] \notin Waits /\ \A d \in Contexts \ {c} : pc'[d] = pc[d]
    BY <2>1, SatisfiedMoves
  <2>. QED BY <2>1, <2>2, <2>3, <2>4 DEF Moves, Waits
<1>8. CASE Merge(c)
  <2>1. PICK cl : cl = call[c]
    OBVIOUS
  <2>2. PICK x : x = cl.mine
    OBVIOUS
  <2>3. PICK id : id = cl.target
    OBVIOUS
  <2>4. /\ pc[c] = "merge" /\ Goto(c, "run") /\ UNCHANGED <<waiting, graph>>
        /\ \A i \in TicketIds : i # id /\ i # x => ticket'[i] = ticket[i]
        /\ granted' \subseteq granted
    BY <1>8, <2>1, <2>2, <2>3 DEF Merge, At
  <2>5. Ctx(id) = c /\ Ctx(x) = c
    BY <2>1, <2>2, <2>3, <2>4, MergeFacts, HeldFacts
  <2>6. OwnTicketsOnly(c)
    BY <2>4, <2>5 DEF OwnTicketsOnly, WaitingOn
  <2>. QED BY <2>4, <2>6, GotoFacts DEF Moves, Waits, graph
<1>9. CASE RescheduleEnd(c)
  <2>1. pc[c] = "resched" /\ Goto(c, "run") /\ UNCHANGED <<ticket, granted, waiting, graph>>
    BY <1>9 DEF RescheduleEnd, At
  <2>2. OwnTicketsOnly(c)
    BY <2>1 DEF OwnTicketsOnly, WaitingOn
  <2>. QED BY <2>1, <2>2, GotoFacts DEF Moves, Waits, graph
<1>10. CASE RescheduleNext(c)
  <2>1. PICK k : k = loop[c].key
    OBVIOUS
  <2>2. PICK id : id = Head(loop[c].rest)
    OBVIOUS
  <2>3. k \in Keys /\ pc[c] = "resched" /\ id \in WaitingOn(k) /\ Ctx(id) \in Contexts
    BY <1>10, <2>1, <2>2, RescheduleNextFacts
  <2>4. UNCHANGED <<ticket, waiting_for, pc>>
    BY <1>10 DEF RescheduleNext
  <2>5. CASE UNCHANGED <<wait_status, waiting, granted>>
    BY <2>3, <2>4, <2>5 DEF Moves, Waits, OwnTicketsOnly, WaitingOn
  <2>6. CASE ~UNCHANGED <<wait_status, waiting, granted>>
    <3>1. /\ wait_status[Ctx(id)] = "EMPTY" /\ SetStatus({Ctx(id)}, "GRANTED")
          /\ waiting' = [waiting EXCEPT ![k] = RemoveFirst(waiting[k], id)]
          /\ granted' = granted \cup {id}
      BY <1>10, <2>1, <2>2, <2>6 DEF RescheduleNext
    <3>2. wait_status'[Ctx(id)] = "GRANTED"
          /\ \A d \in Contexts : wait_status'[d] = "EMPTY" => wait_status[d] = "EMPTY"
      BY <2>3, <3>1 DEF SetStatus
    <3>3. ASSUME NEW j \in Keys PROVE WaitingOn(j)' \subseteq WaitingOn(j)
      <4>1. waiting[k] \in Seq(TicketIds) /\ Distinct(waiting[k])
        BY <1>1, <2>3, TypeFacts DEF Structure
      <4>2. PICK others : others = RemoveFirst(waiting[k], id)
        OBVIOUS
      <4>3. ToSet(others) \subseteq ToSet(waiting[k])
        BY <4>1, <4>2, RemoveFirstFacts
      <4>4. waiting'[j] = IF j = k THEN others ELSE waiting[j]
        BY <1>1, <3>1, <4>2 DEF Types, TypeOK
      <4>. QED BY <4>3, <4>4 DEF WaitingOn
    <3>4. OwnTicketsOnly(c)
      BY <2>4, <3>1, <3>2, <3>3 DEF OwnTicketsOnly
    <3>. QED BY <2>3, <2>4, <3>2, <3>4 DEF Moves, Waits
  <2>. QED BY <2>5, <2>6
<1>. QED BY <1>2, <1>3, <1>5, <1>6, <1>7, <1>8, <1>9, <1>10 DEF Continue

LEMMA CallerMoves ==
  ASSUME Structure, NEW c \in Contexts, Caller(c) PROVE Moves(c)
<1>1. CASE \E cl : Asking(c, cl) /\ Attempt(c, cl)
  BY <1>1, AttemptMoves
<1>2. CASE Idle(c) /\ UNCHANGED <<ticket, lock, graph>> /\ (UNCHANGED pc \/ Goto(c, "ask"))
  <2>1. /\ pc[c] = "run" /\ pc'[c] \in {"run", "ask"}
        /\ \A d \in Contexts \ {c} : pc'[d] = pc[d]
    BY <1>2, GotoFacts DEF Idle, At
  <2>2. OwnTicketsOnly(c)
    BY <1>2 DEF OwnTicketsOnly, lock, WaitingOn
  <2>. QED BY <1>2, <2>1, <2>2 DEF Moves, Waits, graph
<1>3. ASSUME NEW id \in Held(c), NEW type, DowngradeExclusiveLock(c, id, type)
      PROVE  Moves(c)
  <2>1. /\ pc[c] = "run" /\ Goto(c, "resched") /\ UNCHANGED <<granted, waiting, graph>>
        /\ ticket' = [ticket EXCEPT ![id].type = type]
    BY <1>3 DEF DowngradeExclusiveLock, StartLoop, Idle, At
  <2>2. ticket \in [TicketIds -> MDLTicket \cup {None}]
    BY DEF Structure, Types, TypeOK
  <2>3. OwnTicketsOnly(c)
    BY <2>1, <2>2, HeldFacts, OneTicketOnly DEF WaitingOn
  <2>. QED BY <2>1, <2>3, GotoFacts DEF Moves, Waits, graph
<1>4. \/ \E cl : Asking(c, cl) /\ Attempt(c, cl)
      \/ Idle(c) /\ UNCHANGED <<ticket, lock, graph>> /\ (UNCHANGED pc \/ Goto(c, "ask"))
      \/ \E id \in Held(c), type \in {"SNW", "SNRW"} : DowngradeExclusiveLock(c, id, type)
  BY AcquireLockAsks, UpgradeSharedLockAsks
     DEF Caller, AcquireLocks, ReleaseLock, ReleaseAllLocksForName, ReleaseStatementLocks, SetSavepoint,
         RollbackToSavepoint, SetLockDuration, SetExplicitDurationForAllLocks,
         SetTransactionDurationForAllLocks, StartRelease, SetTickets
<1>. QED BY <1>1, <1>2, <1>3, <1>4

Sleeps(c) == pc[c] = "wait" /\ wait_status[c] = "EMPTY"

(* A context that sleeps after a step slept before it, or has just ended   *)
(* its search; its tickets were where they are.                            *)
LEMMA SleeperStays ==
  ASSUME Structure, [Next]_vars, NEW d \in Contexts, Sleeps(d)'
  PROVE  /\ Search(d) \/ Sleeps(d)
         /\ wait_status[d] = "EMPTY" /\ waiting_for'[d] = waiting_for[d]
         /\ \A id \in TicketIds : Ctx(id) = d =>
              /\ ticket'[id] = ticket[id] /\ (id \in granted' => id \in granted)
              /\ \A k \in Keys : id \in WaitingOn(k)' => id \in WaitingOn(k)
<1>1. /\ pc \in [Contexts -> Labels] /\ wait_status \in [Contexts -> WaitStatuses]
      /\ waiting_for \in [Contexts -> TicketIds \cup {None}]
  BY DEF Structure, Types, TypeOK
<1>2. pc'[d] = "wait" /\ wait_status'[d] = "EMPTY"
  BY DEF Sleeps
<1>3. ASSUME NEW s \in Contexts, Moves(s)
      PROVE  /\ Sleeps(d) /\ waiting_for'[d] = waiting_for[d]
             /\ \A id \in TicketIds : Ctx(id) = d =>
                  /\ ticket'[id] = ticket[id] /\ (id \in granted' => id \in granted)
                  /\ \A k \in Keys : id \in WaitingOn(k)' => id \in WaitingOn(k)
  <2>1. d # s
    BY <1>2, <1>3 DEF Moves, Waits
  <2>2. Sleeps(d) /\ waiting_for'[d] = waiting_for[d]
    BY <1>2, <1>3, <2>1 DEF Moves, Sleeps
  <2>. QED BY <1>2, <1>3, <2>1, <2>2 DEF Moves, OwnTicketsOnly
<1>4. ASSUME UNCHANGED <<ticket, lock>>
      PROVE  \A id \in TicketIds :
               /\ ticket'[id] = ticket[id] /\ (id \in granted' => id \in granted)
               /\ \A k \in Keys : id \in WaitingOn(k)' => id \in WaitingOn(k)
  BY <1>4 DEF lock, WaitingOn
<1>5. ASSUME NEW s \in Contexts, WillWaitFor(s)
      PROVE  Sleeps(d) /\ waiting_for'[d] = waiting_for[d]
  <2>1. pc'[s] = "search" /\ \A e \in Contexts \ {s} : pc'[e] = pc[e]
    BY <1>5, GotoFacts DEF WillWaitFor
  <2>. QED BY <1>1, <1>2, <1>5, <2>1 DEF WillWaitFor, Sleeps
<1>6. ASSUME NEW s \in Contexts, Search(s)
      PROVE  /\ s = d \/ Sleeps(d)
             /\ wait_status[d] = "EMPTY" /\ waiting_for'[d] = waiting_for[d]
  <2>1. \A e \in Contexts \ {s} : pc'[e] = pc[e]
    BY <1>6, GotoFacts DEF Search
  <2>. QED BY <1>2, <1>6, <2>1 DEF Search, Sleeps
<1>7. ASSUME NEW s \in Contexts, SetVictim(s)
      PROVE  Sleeps(d) /\ waiting_for'[d] = waiting_for[d]
  <2>1. /\ pc'[s] = IF victim[s] = s THEN "wait" ELSE "search"
        /\ \A e \in Contexts \ {s} : pc'[e] = pc[e]
    BY <1>7, GotoFacts DEF SetVictim
  <2>2. SetStatus({victim[s]}, "VICTIM")
    BY <1>7 DEF SetVictim
  <2>3. wait_status[d] = "EMPTY" /\ victim[s] # d
    BY <1>2, <2>2 DEF SetStatus
  <2>4. d # s
    BY <1>2, <2>1, <2>3
  <2>. QED BY <1>2, <1>7, <2>1, <2>3, <2>4 DEF SetVictim, Sleeps
<1>8. ASSUME NEW s \in Contexts, DoneWaitingFor(s)
      PROVE  Sleeps(d) /\ waiting_for'[d] = waiting_for[d]
  <2>1. pc'[s] = "finish" /\ \A e \in Contexts \ {s} : pc'[e] = pc[e]
    BY <1>8, GotoFacts DEF DoneWaitingFor
  <2>. QED BY <1>1, <1>2, <1>8, <2>1 DEF DoneWaitingFor, Sleeps
<1>9. ASSUME NEW s \in Contexts, NEW status \in Interrupts, InterruptWait(s, status)
      PROVE  Sleeps(d) /\ waiting_for'[d] = waiting_for[d]
  <2>1. status # "EMPTY"
    BY RequestsAssumption
  <2>. QED BY <1>1, <1>2, <1>9, <2>1 DEF InterruptWait, Sleeps
<1>10. ASSUME UNCHANGED vars \/ \E s \in Contexts : ReleaseTransactionalLocks(s)
       PROVE  Sleeps(d) /\ waiting_for'[d] = waiting_for[d] /\ UNCHANGED <<ticket, lock>>
  BY <1>2, <1>10 DEF ReleaseTransactionalLocks, StartRelease, vars, graph, lock, Sleeps
<1>11. ASSUME NEW s \in Contexts, Caller(s) \/ Continue(s)
       PROVE  \/ Moves(s) \/ UNCHANGED <<ticket, lock>>
  BY <1>11, CallerMoves, ContinueMoves DEF WillWaitFor, Search, SetVictim, DoneWaitingFor
<1>12. CASE \E s \in Contexts : Moves(s)
  BY <1>3, <1>12 DEF Sleeps
<1>13. CASE UNCHANGED <<ticket, lock>> /\ ~\E s \in Contexts : Moves(s)
  <2>1. /\ Search(d) \/ Sleeps(d)
        /\ wait_status[d] = "EMPTY" /\ waiting_for'[d] = waiting_for[d]
    BY <1>5, <1>6, <1>7, <1>8, <1>9, <1>10, <1>13, CallerMoves, ContinueMoves DEF Next, Sleeps
  <2>. QED BY <1>4, <1>13, <2>1
<1>14. \/ \E s \in Contexts : Moves(s)
       \/ UNCHANGED <<ticket, lock>>
  BY <1>10, <1>11 DEF Next, InterruptWait
<1>. QED BY <1>12, <1>13, <1>14

(* What a sleeper waits for.                                               *)
LEMMA SleeperTicket ==
  ASSUME Structure, NEW c \in Contexts, pc[c] \in Waits
  PROVE  /\ waiting_for[c] = call[c].mine /\ call[c].mine \in TicketIds
         /\ waiting_for[c] # None /\ Ctx(call[c].mine) = c
         /\ ticket[call[c].mine].key \in Keys
<1>1. Types /\ SelfInv(c) /\ Queued(c)
  BY DEF Structure, Waits, Queued
<1>2. waiting_for[c] = call[c].mine /\ Ctx(call[c].mine) = c
  BY <1>1 DEF SelfInv, WaitForInv, CallInv, Waits
<1>. QED BY <1>1, <1>2, WaitForTicket, NoneAssumption DEF MDLTicket

LEMMA SleeperTicketNext ==
  Structure' => (\A c \in Contexts : pc[c] \in Waits => waiting_for[c] = call[c].mine)'
<1>1. Structure => \A c \in Contexts : pc[c] \in Waits => waiting_for[c] = call[c].mine
  BY SleeperTicket
<1>. QED BY <1>1, PTL DEF Waits

LEMMA WaitingTypesNext ==
  Structure' =>
    ((\A k \in Keys : WaitingOn(k) \subseteq TicketIds) /\ granted \subseteq TicketIds)'
<1>1. ASSUME Structure
      PROVE  (\A k \in Keys : WaitingOn(k) \subseteq TicketIds) /\ granted \subseteq TicketIds
  <2>1. waiting \in [Keys -> Seq(TicketIds)] /\ granted \subseteq TicketIds
    BY <1>1 DEF Structure, Types, TypeOK
  <2>. QED BY <2>1, ToSetFacts DEF WaitingOn
<1>2. Structure =>
        (\A k \in Keys : WaitingOn(k) \subseteq TicketIds) /\ granted \subseteq TicketIds
  BY <1>1
<1>. QED BY <1>2, PTL

(* A sleeper that stands in the way of a sleeper did so before the step.   *)
LEMMA BlockedBefore ==
  ASSUME Structure, Structure', [Next]_vars, NEW c \in Contexts, NEW b \in Contexts,
         Sleeps(c)', Sleeps(b)', b \in BlockedBy(c)'
  PROVE  b \in BlockedBy(c)
<1>1. pc[c] \in Waits /\ waiting_for'[c] = waiting_for[c]
  BY SleeperStays DEF Sleeps, Search, At, Waits
<1>2. PICK m : m = call[c].mine
  OBVIOUS
<1>3. m \in TicketIds /\ Ctx(m) = c /\ ticket[m].key \in Keys /\ waiting_for[c] = m
  BY <1>1, <1>2, SleeperTicket
<1>4. call'[c].mine = m
  BY <1>1, <1>3, SleeperTicketNext DEF Sleeps, Waits
<1>5. ticket'[m] = ticket[m]
  BY <1>3, SleeperStays
<1>6. PICK t : t = ticket[m]
  OBVIOUS
<1>7. \/ \E g \in granted' : /\ b = Ctx(g) /\ ticket'[g].key = t.key
                             /\ ticket'[g].type \in GrantedIncompatible(Scoped(t.key), t.type)
      \/ \E w \in WaitingOn(t.key)' :
            b = Ctx(w) /\ ticket'[w].type \in WaitingIncompatible(Scoped(t.key), t.type)
  BY <1>4, <1>5, <1>6 DEF BlockedBy, GrantedOn, WaitingOn, Scoped
<1>8. CASE \E g \in granted' : /\ b = Ctx(g) /\ ticket'[g].key = t.key
                               /\ ticket'[g].type \in GrantedIncompatible(Scoped(t.key), t.type)
  <2>1. PICK g \in granted' :
          /\ b = Ctx(g) /\ ticket'[g].key = t.key
          /\ ticket'[g].type \in GrantedIncompatible(Scoped(t.key), t.type)
    BY <1>8
  <2>2. g \in TicketIds
    BY WaitingTypesNext
  <2>3. g \in granted /\ ticket'[g] = ticket[g]
    BY <2>1, <2>2, SleeperStays
  <2>. QED BY <1>2, <1>6, <2>1, <2>3 DEF BlockedBy, GrantedOn
<1>9. CASE \E w \in WaitingOn(t.key)' :
             b = Ctx(w) /\ ticket'[w].type \in WaitingIncompatible(Scoped(t.key), t.type)
  <2>1. PICK w \in WaitingOn(t.key)' :
          b = Ctx(w) /\ ticket'[w].type \in WaitingIncompatible(Scoped(t.key), t.type)
    BY <1>9
  <2>2. w \in TicketIds
    BY <1>3, <1>6, <2>1, WaitingTypesNext
  <2>3. w \in WaitingOn(t.key) /\ ticket'[w] = ticket[w]
    BY <1>3, <1>6, <2>1, <2>2, SleeperStays
  <2>. QED BY <1>2, <1>6, <2>1, <2>3 DEF BlockedBy
<1>. QED BY <1>7, <1>8, <1>9

(* The last search before c sleeps would have found the loop.              *)
LEMMA SearchFindsLoop ==
  ASSUME Structure, NEW c \in Contexts, Search(c), pc'[c] = "wait",
         NEW D \in SUBSET Contexts, c \in D,
         \A d \in D : /\ pc[d] \in Waits /\ wait_status[d] = "EMPTY"
                      /\ BlockedBy(d) \cap (D \ {d}) # {}
  PROVE  FALSE
<1>. DEFINE live == {b \in Contexts : waiting_for[b] # None /\ wait_status[b] = "EMPTY"}
            edges == [b \in Contexts |-> Blockers(b)]
            weights == [b \in Contexts |-> DeadlockWeight(b)]
<1>1. DeadlockVictims(c, edges, live, weights, MaxSearchDepth) = {}
  <2>1. ASSUME Goto(c, "victim") PROVE FALSE
    BY <2>1, GotoFacts
  <2>. QED BY <2>1 DEF Search
<1>2. ASSUME NEW d \in D PROVE edges[d] \cap D # {} /\ d \in live
  <2>1. waiting_for[d] = call[d].mine /\ waiting_for[d] # None
    BY SleeperTicket
  <2>2. PICK b \in D \ {d} : b \in BlockedBy(d)
    OBVIOUS
  <2>3. b \in Blockers(d)
    BY <2>1, <2>2 DEF BlockedBy, Blockers
  <2>. QED BY <2>1, <2>2, <2>3
<1>3. DOMAIN edges = Contexts
  OBVIOUS
<1>. HIDE DEF live, edges, weights
<1>. QED BY <1>1, <1>2, <1>3, BoundsAssumption, DeadlockFound

(* No set of connections sleeps in timed_wait() with each one blocked by   *)
(* another of the set, however many there are, whatever the order in which *)
(* they go to sleep and whatever the depth at which find_deadlock() gives  *)
(* up.                                                                     *)
THEOREM NoDeadlockUndetected == Spec => []NoUndetectedDeadlock
<1>1. Init => NoUndetectedDeadlock
  BY DEF Init, NoUndetectedDeadlock
<1>2. ASSUME Structure, NoUndetectedDeadlock, [Next]_vars PROVE NoUndetectedDeadlock'
  <2>. SUFFICES ASSUME NEW D \in SUBSET Contexts, D # {},
                       \A c \in D : Sleeps(c)' /\ BlockedBy(c)' \cap (D \ {c}) # {}
                PROVE  FALSE
    BY DEF NoUndetectedDeadlock, Sleeps
  <2>1. Structure'
    BY <1>2, StructureNext
  <2>2. ASSUME NEW c \in D PROVE BlockedBy(c) \cap (D \ {c}) # {}
    BY <1>2, <2>1, BlockedBefore
  <2>3. ASSUME NEW c \in D PROVE pc[c] \in Waits /\ wait_status[c] = "EMPTY"
    BY <1>2, SleeperStays DEF Sleeps, Search, At, Waits
  <2>4. CASE \E c \in D : Search(c)
    BY <1>2, <2>2, <2>3, <2>4, SearchFindsLoop DEF Sleeps
  <2>5. CASE \A c \in D : Sleeps(c)
    BY <1>2, <2>2, <2>5 DEF NoUndetectedDeadlock, Sleeps
  <2>. QED BY <1>2, <2>4, <2>5, SleeperStays
<1>3. Structure /\ NoUndetectedDeadlock /\ [Next]_vars => NoUndetectedDeadlock'
  BY <1>2
<1>. QED BY <1>1, <1>3, StructureInvariant, PTL DEF Spec

-----------------------------------------------------------------------------
(* No grant is missed.                                                     *)

CanGrant(id, k) == CanGrantLock(Ctx(id), k, ticket[id].type, FALSE)

(* reschedule_waiters() does not pass over this waiter on purpose.         *)
Served(id, k) == MaxWriteLockCount = None \/ ticket[id].type \notin HogTypes(Scoped(k))

(* A waiter that could be granted is still to be visited.                  *)
VisitInv ==
  \A k \in Keys : \A id \in WaitingOn(k) :
    Served(id, k) /\ wait_status[Ctx(id)] = "EMPTY" /\ CanGrant(id, k) =>
      \E c \in Contexts : /\ pc[c] = "resched" /\ loop[c].key = k
                          /\ id \in ToSet(loop[c].rest)

SkipInv == \A c \in Contexts : loop[c].skip => MaxWriteLockCount # None

(* What stands in the way on k still does after the step.                  *)
Grows(k) ==
  /\ \A g \in GrantedOn(k) : /\ g \in granted' /\ ticket'[g].key = k
                             /\ ticket'[g].type = ticket[g].type
  /\ \A w \in WaitingOn(k) : w \in WaitingOn(k)' /\ ticket'[w].type = ticket[w].type

LEMMA GrowsBlocks ==
  ASSUME NEW k \in Keys, Grows(k), NEW id, ticket'[id].type = ticket[id].type, CanGrant(id, k)'
  PROVE  CanGrant(id, k)
<1>1. PICK t : t = ticket[id].type
  OBVIOUS
<1>2. /\ WaitingTypes(k)' \cap WaitingIncompatible(Scoped(k), t) = {}
      /\ \A g \in GrantedOn(k)' :
           Ctx(g) = Ctx(id) \/ ticket'[g].type \notin GrantedIncompatible(Scoped(k), t)
  BY <1>1 DEF CanGrant, CanGrantLock, Scoped
<1>3. WaitingTypes(k) \subseteq WaitingTypes(k)'
  <2>. SUFFICES ASSUME NEW w \in WaitingOn(k) PROVE ticket[w].type \in WaitingTypes(k)'
    BY DEF WaitingTypes
  <2>1. w \in WaitingOn(k)' /\ ticket'[w].type = ticket[w].type
    BY DEF Grows
  <2>. QED BY <2>1 DEF WaitingTypes
<1>4. \A g \in GrantedOn(k) :
        Ctx(g) = Ctx(id) \/ ticket[g].type \notin GrantedIncompatible(Scoped(k), t)
  BY <1>2 DEF Grows, GrantedOn
<1>. QED BY <1>1, <1>2, <1>3, <1>4 DEF CanGrant, CanGrantLock

(* A step of s outside reschedule_waiters(): it starts a loop over all who *)
(* wait for k, or nobody waits for it, or nobody becomes grantable.        *)
LEMMA VisitKept ==
  ASSUME Structure, Structure', VisitInv, NEW s \in Contexts, pc[s] # "resched",
         \A d \in Contexts \ {s} : pc'[d] = pc[d] /\ loop'[d] = loop[d],
         \A k \in Keys :
           \/ /\ pc'[s] = "resched" /\ loop'[s].key = k
              /\ WaitingOn(k)' \subseteq ToSet(loop'[s].rest)
           \/ WaitingOn(k)' = {}
           \/ \A id \in WaitingOn(k)' :
                wait_status'[Ctx(id)] = "EMPTY" /\ CanGrant(id, k)' =>
                  /\ id \in WaitingOn(k) /\ ticket'[id].type = ticket[id].type
                  /\ wait_status[Ctx(id)] = "EMPTY" /\ CanGrant(id, k)
  PROVE  VisitInv'
<1>. SUFFICES ASSUME NEW k \in Keys, NEW id \in WaitingOn(k)', Served(id, k)',
                     wait_status'[Ctx(id)] = "EMPTY", CanGrant(id, k)'
              PROVE  \E c \in Contexts : /\ pc'[c] = "resched" /\ loop'[c].key = k
                                         /\ id \in ToSet(loop'[c].rest)
  BY DEF VisitInv
<1>1. CASE /\ pc'[s] = "resched" /\ loop'[s].key = k
           /\ WaitingOn(k)' \subseteq ToSet(loop'[s].rest)
  BY <1>1
<1>2. CASE /\ id \in WaitingOn(k) /\ ticket'[id].type = ticket[id].type
           /\ wait_status[Ctx(id)] = "EMPTY" /\ CanGrant(id, k)
  <2>1. Served(id, k)
    BY <1>2 DEF Served, Scoped
  <2>2. PICK c \in Contexts : /\ pc[c] = "resched" /\ loop[c].key = k
                              /\ id \in ToSet(loop[c].rest)
    BY <1>2, <2>1 DEF VisitInv
  <2>3. c # s
    BY <2>2
  <2>. QED BY <2>2, <2>3
<1>. QED BY <1>1, <1>2

(* The same when all lists grow.                                           *)
LEMMA VisitGrows ==
  ASSUME Structure, Structure', VisitInv, NEW s \in Contexts, pc[s] # "resched",
         \A d \in Contexts \ {s} : pc'[d] = pc[d], loop' = loop,
         \A k \in Keys : Grows(k) /\ WaitingOn(k)' = WaitingOn(k),
         \A d \in Contexts : wait_status'[d] = "EMPTY" => wait_status[d] = "EMPTY"
  PROVE  VisitInv'
<1>1. ASSUME NEW k \in Keys, NEW id \in WaitingOn(k)', wait_status'[Ctx(id)] = "EMPTY",
             CanGrant(id, k)'
      PROVE  /\ id \in WaitingOn(k) /\ ticket'[id].type = ticket[id].type
             /\ wait_status[Ctx(id)] = "EMPTY" /\ CanGrant(id, k)
  <2>1. id \in WaitingOn(k) /\ ticket'[id].type = ticket[id].type
    BY <1>1 DEF Grows
  <2>2. Ctx(id) \in Contexts
    BY <1>1, WaitingTypesNext, CtxType
  <2>. QED BY <1>1, <2>1, <2>2, GrowsBlocks
<1>. QED BY <1>1, VisitKept

LEMMA AttemptVisit ==
  ASSUME Structure, VisitInv, NEW c \in Contexts, NEW cl, Asking(c, cl), Attempt(c, cl)
  PROVE  VisitInv'
<1>1. Structure' /\ Types /\ pc[c] # "resched" /\ cl.req \in MDLRequest /\ cl.req.key \in Keys
  BY AttemptStep DEF Structure, Asking, CallOK, MDLRequest
<1>2. \A d \in Contexts \ {c} : pc'[d] = pc[d]
  BY AttemptMoves DEF Moves
<1>3. /\ ticket \in [TicketIds -> MDLTicket \cup {None}] /\ granted \subseteq TicketIds
      /\ waiting \in [Keys -> Seq(TicketIds)]
      /\ wait_status \in [Contexts -> WaitStatuses]
  BY <1>1 DEF Types, TypeOK
<1>4. \A k \in Keys : WaitingOn(k) \subseteq TicketIds
  BY <1>3, ToSetFacts DEF WaitingOn
<1>5. PICK id : id = NewTicket(c)
  OBVIOUS
<1>6. Free(c) # {} => /\ id \in TicketIds /\ Ctx(id) = c /\ id \notin granted
                      /\ \A k \in Keys : id \notin WaitingOn(k)
  <2>1. pc[c] \in {"run", "ask"}
    BY DEF Asking
  <2>. QED BY <1>5, <2>1, NewTicketFacts, GrantedFacts, AskingFacts
<1>7. CASE ReuseTicket(c, cl) \/ Refused(c, cl)
  <2>1. UNCHANGED <<ticket, granted, waiting, wait_status, loop>>
    BY <1>7 DEF ReuseTicket, Refused, lock, graph
  <2>2. \A k \in Keys : Grows(k) /\ WaitingOn(k)' = WaitingOn(k)
    BY <2>1 DEF Grows, GrantedOn, WaitingOn
  <2>. QED BY <1>1, <1>2, <2>1, <2>2, VisitGrows
<1>8. CASE CloneTicket(c, cl) \/ GrantAtOnce(c, cl)
  <2>1. /\ Free(c) # {} /\ granted' = granted \cup {id}
        /\ UNCHANGED <<waiting, wait_status, loop>>
        /\ \E t : ticket' = [ticket EXCEPT ![id] = t]
    BY <1>5, <1>8 DEF CloneTicket, GrantAtOnce, GotLock, graph
  <2>2. \A i \in TicketIds : i # id => ticket'[i] = ticket[i]
    BY <1>3, <2>1
  <2>3. \A k \in Keys : Grows(k) /\ WaitingOn(k)' = WaitingOn(k)
    BY <1>3, <1>4, <1>6, <2>1, <2>2 DEF Grows, GrantedOn, WaitingOn
  <2>. QED BY <1>1, <1>2, <2>1, <2>3, VisitGrows
<1>9. CASE Enqueue(c, cl)
  <2>1. PICK t : t = [key |-> cl.req.key, type |-> cl.req.type, nowait |-> cl.req.nowait]
    OBVIOUS
  <2>2. PICK j : j = cl.req.key
    OBVIOUS
  <2>3. PICK list : list = Append(waiting[j], id)
    OBVIOUS
  <2>4. /\ Free(c) # {} /\ ~CanGrantLock(c, j, cl.req.type, FALSE)
        /\ ticket' = [ticket EXCEPT ![id] = t] /\ UNCHANGED <<granted, loop>>
        /\ waiting' = [waiting EXCEPT ![j] = list]
        /\ wait_status' = [wait_status EXCEPT ![c] = "EMPTY"]
    BY <1>5, <1>9, <2>1, <2>2, <2>3 DEF Enqueue, GotLock
  <2>5. ticket'[id] = t /\ \A i \in TicketIds : i # id => ticket'[i] = ticket[i]
    BY <1>3, <1>6, <2>4
  <2>6. j \in Keys /\ t.type = cl.req.type
    BY <1>1, <2>1, <2>2
  <2>7. ToSet(list) = ToSet(waiting[j]) \cup {id}
    BY <1>3, <1>6, <2>3, <2>4, <2>6, AppendFacts
  <2>8. ASSUME NEW k \in Keys
        PROVE  WaitingOn(k)' = IF k = j THEN WaitingOn(k) \cup {id} ELSE WaitingOn(k)
    <3>1. waiting'[k] = IF k = j THEN list ELSE waiting[k]
      BY <1>3, <2>4
    <3>. QED BY <2>7, <3>1 DEF WaitingOn
  <2>9. ASSUME NEW k \in Keys PROVE Grows(k)
    BY <1>3, <1>4, <1>6, <2>4, <2>5, <2>8 DEF Grows, GrantedOn
  <2>10. ~CanGrant(id, j)'
    <3>1. ASSUME CanGrant(id, j)' PROVE CanGrantLock(c, j, cl.req.type, FALSE)
      <4>1. /\ WaitingTypes(j)' \cap WaitingIncompatible(Scoped(j), cl.req.type) = {}
            /\ \A g \in GrantedOn(j)' :
                 Ctx(g) = c \/ ticket'[g].type \notin
                                 GrantedIncompatible(Scoped(j), cl.req.type)
        BY <1>6, <2>4, <2>5, <2>6, <3>1 DEF CanGrant, CanGrantLock, Scoped
      <4>2. Grows(j)
        BY <2>6, <2>9
      <4>3. ASSUME NEW w \in WaitingOn(j) PROVE ticket[w].type \in WaitingTypes(j)'
        <5>1. w \in WaitingOn(j)' /\ ticket'[w].type = ticket[w].type
          BY <4>2 DEF Grows
        <5>. QED BY <5>1 DEF WaitingTypes
      <4>4. \A g \in GrantedOn(j) :
              Ctx(g) = c \/ ticket[g].type \notin GrantedIncompatible(Scoped(j), cl.req.type)
        BY <4>1, <4>2 DEF Grows, GrantedOn
      <4>. QED BY <4>1, <4>3, <4>4 DEF CanGrantLock, WaitingTypes
    <3>. QED BY <2>4, <3>1
  <2>11. ASSUME NEW k \in Keys, NEW i \in WaitingOn(k)', wait_status'[Ctx(i)] = "EMPTY",
                CanGrant(i, k)'
         PROVE  /\ i \in WaitingOn(k) /\ ticket'[i].type = ticket[i].type
                /\ wait_status[Ctx(i)] = "EMPTY" /\ CanGrant(i, k)
    <3>1. i \in WaitingOn(k)
      BY <2>8, <2>10, <2>11
    <3>2. Ctx(i) \in Contexts \ {c} /\ i # id
      <4>1. pc[c] \in {"run", "ask"}
        BY DEF Asking
      <4>. QED BY <1>4, <1>6, <2>4, <3>1, <4>1, CtxType, AskingFacts
    <3>3. ticket'[i].type = ticket[i].type
      BY <1>4, <2>5, <3>1, <3>2
    <3>4. wait_status[Ctx(i)] = "EMPTY"
      BY <1>3, <2>4, <2>11, <3>2
    <3>. QED BY <2>9, <2>11, <3>1, <3>3, <3>4, GrowsBlocks
  <2>. QED BY <1>1, <1>2, <2>4, <2>11, VisitKept
<1>. QED BY <1>7, <1>8, <1>9 DEF Attempt, Conflict, OutOfMemory

LEMMA RemoveTicketVisit ==
  ASSUME Structure, Structure', VisitInv, NEW c \in Contexts, NEW id \in TicketIds,
         ticket[id] # None, Ctx(id) = c, RemoveTicket(c, id), pc[c] # "resched",
         UNCHANGED graph
  PROVE  VisitInv'
<1>1. PICK k : k = ticket[id].key
  OBVIOUS
<1>2. k \in Keys /\ waiting \in [Keys -> Seq(TicketIds)] /\ granted \subseteq TicketIds
  <2>1. ticket[id] \in MDLTicket
    BY DEF Structure, Types, TypeOK
  <2>. QED BY <1>1, <2>1 DEF MDLTicket, Structure, Types, TypeOK
<1>3. /\ \A i \in TicketIds : i # id => ticket'[i] = ticket[i]
      /\ granted' = granted \ {id}
      /\ \A j \in Keys : WaitingOn(j)' = WaitingOn(j) \ {id}
      /\ \A d \in Contexts \ {c} : loop'[d] = loop[d] /\ pc'[d] = pc[d]
  BY RemoveTicketFacts
<1>4. PICK others : others = RemoveFirst(waiting[k], id)
  OBVIOUS
<1>5. waiting' = [waiting EXCEPT ![k] = others]
  BY <1>1, <1>4 DEF RemoveTicket
<1>6. WaitingOn(k)' = ToSet(others)
  BY <1>2, <1>5 DEF WaitingOn
<1>7. \/ WaitingOn(k)' = {}
      \/ pc'[c] = "resched" /\ loop'[c].key = k /\ WaitingOn(k)' \subseteq ToSet(loop'[c].rest)
  <2>1. CASE others = <<>>
    BY <1>6, <2>1, EmptyFacts
  <2>2. CASE others # <<>>
    <3>1. StartLoop(c, k, others)
      BY <1>1, <1>4, <2>2 DEF RemoveTicket
    <3>2. others \in Seq(TicketIds) /\ Types
      BY <1>2, <1>4, RemoveFirstFacts DEF Structure
    <3>. QED BY <1>2, <1>6, <3>1, <3>2, StartLoopFacts
  <2>. QED BY <2>1, <2>2
<1>8. ASSUME NEW j \in Keys, j # k, NEW i \in WaitingOn(j)', wait_status'[Ctx(i)] = "EMPTY",
             CanGrant(i, j)'
      PROVE  /\ i \in WaitingOn(j) /\ ticket'[i].type = ticket[i].type
             /\ wait_status[Ctx(i)] = "EMPTY" /\ CanGrant(i, j)
  <2>1. waiting'[j] = waiting[j]
    BY <1>2, <1>5, <1>8
  <2>2. id \notin WaitingOn(j) /\ WaitingOn(j) \subseteq TicketIds
    BY <1>2, <1>3, <2>1, <1>8, ToSetFacts DEF WaitingOn
  <2>3. Grows(j)
    BY <1>1, <1>2, <1>3, <1>8, <2>2 DEF Grows, GrantedOn
  <2>4. i \in WaitingOn(j) /\ ticket'[i].type = ticket[i].type
    BY <1>3, <1>8, <2>2
  <2>. QED BY <1>8, <2>3, <2>4, GrowsBlocks DEF graph
<1>. QED BY <1>3, <1>7, <1>8, VisitKept

LEMMA DowngradeVisit ==
  ASSUME Structure, Structure', VisitInv, NEW c \in Contexts, NEW id \in Held(c), NEW type,
         DowngradeExclusiveLock(c, id, type)
  PROVE  VisitInv'
<1>1. PICK k : k = ticket[id].key
  OBVIOUS
<1>2. id \in TicketIds /\ id \in granted /\ ticket[id] \in MDLTicket /\ k \in Keys
  BY <1>1, HeldFacts DEF MDLTicket
<1>3. /\ pc[c] = "run" /\ ticket' = [ticket EXCEPT ![id].type = type]
      /\ StartLoop(c, k, waiting[k]) /\ UNCHANGED <<granted, waiting, graph>>
  BY <1>1 DEF DowngradeExclusiveLock, Idle, At
<1>4. /\ Types /\ waiting \in [Keys -> Seq(TicketIds)] /\ granted \subseteq TicketIds
      /\ ticket \in [TicketIds -> MDLTicket \cup {None}]
  BY DEF Structure, Types, TypeOK
<1>5. \A i \in TicketIds : i # id => ticket'[i] = ticket[i]
  BY <1>3, <1>4
<1>6. /\ pc'[c] = "resched" /\ loop'[c].key = k /\ loop'[c].rest = waiting[k]
      /\ \A d \in Contexts \ {c} : loop'[d] = loop[d] /\ pc'[d] = pc[d]
  BY <1>2, <1>3, <1>4, StartLoopFacts
<1>7. WaitingOn(k)' = ToSet(loop'[c].rest)
  BY <1>3, <1>6 DEF WaitingOn
<1>8. ASSUME NEW j \in Keys, j # k, NEW i \in WaitingOn(j)', wait_status'[Ctx(i)] = "EMPTY",
             CanGrant(i, j)'
      PROVE  /\ i \in WaitingOn(j) /\ ticket'[i].type = ticket[i].type
             /\ wait_status[Ctx(i)] = "EMPTY" /\ CanGrant(i, j)
  <2>1. WaitingOn(j)' = WaitingOn(j) /\ WaitingOn(j) \subseteq TicketIds
    BY <1>3, <1>4, ToSetFacts DEF WaitingOn
  <2>2. \A w \in WaitingOn(j) : w \notin granted
    BY <2>1, CtxType DEF Structure, SelfInv, WaiterInv
  <2>3. Grows(j)
    BY <1>1, <1>2, <1>3, <1>4, <1>5, <1>8, <2>1, <2>2 DEF Grows, GrantedOn
  <2>4. i \in WaitingOn(j) /\ ticket'[i].type = ticket[i].type
    BY <1>2, <1>5, <1>8, <2>1, <2>2
  <2>. QED BY <1>3, <1>8, <2>3, <2>4, GrowsBlocks DEF graph
<1>. QED BY <1>3, <1>6, <1>7, <1>8, VisitKept

(* A type that X does not exclude is excluded by nothing.                  *)
LEMMA XExcludes ==
  ASSUME NEW t \in MDLTypeSet, "X" \notin GrantedIncompatible(FALSE, t)
  PROVE  GrantedIncompatible(FALSE, t) = {}
BY DEF GrantedIncompatible, ObjectGrantedIncompatible, MDLTypeSet

LEMMA WaiterFacts ==
  ASSUME Structure, NEW k \in Keys, NEW w \in WaitingOn(k)
  PROVE  /\ w \in TicketIds /\ Ctx(w) \in Contexts /\ WaiterInv(k, w)
         /\ ticket[w] \in MDLTicket /\ ticket[w].type \in MDLTypeSet
<1>1. waiting[k] \in Seq(TicketIds)
  BY DEF Structure, Types, TypeOK
<1>2. w \in TicketIds /\ Ctx(w) \in Contexts
  BY <1>1, ToSetFacts, CtxType DEF WaitingOn
<1>3. WaiterInv(k, w)
  BY <1>2 DEF Structure, SelfInv
<1>4. ticket[w] \in MDLTicket
  BY <1>2, <1>3 DEF Structure, Types, TypeOK, WaiterInv
<1>. QED BY <1>2, <1>3, <1>4 DEF MDLTicket

LEMMA MergeVisit ==
  ASSUME Structure, Structure', VisitInv, NEW c \in Contexts, Merge(c) PROVE VisitInv'
<1>1. PICK cl : cl = call[c]
  OBVIOUS
<1>2. PICK x : x = cl.mine
  OBVIOUS
<1>3. PICK id : id = cl.target
  OBVIOUS
<1>4. /\ pc[c] = "merge" /\ Goto(c, "run") /\ UNCHANGED <<waiting, loop, graph>>
      /\ ticket' = [i \in TicketIds |->
           CASE i = id -> [ticket[id] EXCEPT !.type = "X"]
             [] i = x /\ ~HasLock(c, cl.svp, x) -> None
             [] OTHER -> ticket[i]]
      /\ granted' = IF ~HasLock(c, cl.svp, x) THEN granted \ {x} ELSE granted
  BY <1>1, <1>2, <1>3 DEF Merge, At
<1>5. /\ id \in Held(c) /\ x \in Held(c) /\ x # id
      /\ ticket[x].key = ticket[id].key /\ ticket[x].type = "X"
      /\ ticket[id].type \in {"SNW", "SNRW"}
  BY <1>1, <1>2, <1>3, <1>4, MergeFacts
<1>6. /\ id \in granted /\ id \in TicketIds /\ Ctx(id) = c /\ x \in granted /\ Ctx(x) = c
      /\ ticket[id] \in MDLTicket /\ ticket[id].type \in LockTypes(ticket[id].key)
  BY <1>5, HeldFacts
<1>7. PICK k : k = ticket[id].key
  OBVIOUS
<1>8. k \in Keys /\ Scoped(k) = FALSE
  BY <1>5, <1>6, <1>7 DEF MDLTicket, LockTypes, Scoped
<1>9. PICK t : t = [ticket[id] EXCEPT !.type = "X"]
  OBVIOUS
<1>10. t.key = k /\ t.type = "X"
  BY <1>6, <1>7, <1>9 DEF MDLTicket
<1>11. ticket'[id] = t /\ id \in granted'
  BY <1>4, <1>5, <1>6, <1>9
<1>12. \A i \in TicketIds : i # id /\ i # x => ticket'[i] = ticket[i]
  BY <1>4
<1>13. ASSUME NEW j \in Keys, NEW i \in WaitingOn(j)', wait_status'[Ctx(i)] = "EMPTY",
              CanGrant(i, j)'
       PROVE  /\ i \in WaitingOn(j) /\ ticket'[i].type = ticket[i].type
              /\ wait_status[Ctx(i)] = "EMPTY" /\ CanGrant(i, j)
  <2>1. i \in WaitingOn(j)
    BY <1>4, <1>13 DEF WaitingOn
  <2>2. \A w \in WaitingOn(j) : /\ w \in TicketIds /\ w \notin granted
                                /\ Ctx(w) # c /\ ticket[w].type \in MDLTypeSet
    BY <1>4, WaiterFacts DEF WaiterInv, Queued
  <2>3. \A w \in WaitingOn(j) : ticket'[w] = ticket[w]
    BY <1>6, <1>12, <2>2
  <2>4. CASE j # k
    <3>1. Grows(j)
      <4>1. ASSUME NEW g \in GrantedOn(j) PROVE g \in granted' /\ ticket'[g] = ticket[g]
        <5>1. g \in granted /\ g # id /\ g # x /\ g \in TicketIds
          BY <1>5, <1>7, <2>4, GrantedFacts DEF GrantedOn
        <5>. QED BY <1>4, <1>12, <5>1
      <4>. QED BY <1>4, <2>3, <4>1 DEF Grows, GrantedOn, WaitingOn
    <3>. QED BY <1>4, <1>13, <2>1, <2>3, <3>1, GrowsBlocks DEF graph
  <2>5. CASE j = k
    <3>1. id \in GrantedOn(k)'
      BY <1>10, <1>11 DEF GrantedOn
    <3>2. PICK type : type = ticket[i].type
      OBVIOUS
    <3>3. "X" \notin GrantedIncompatible(FALSE, type)
      BY <1>6, <1>8, <1>10, <1>11, <1>13, <2>1, <2>2, <2>3, <2>5, <3>1, <3>2
         DEF CanGrant, CanGrantLock, Scoped
    <3>4. GrantedIncompatible(FALSE, type) = {} /\ WaitingIncompatible(FALSE, type) = {}
      BY <2>1, <2>2, <3>2, <3>3, XExcludes, WaitingWeaker
    <3>5. CanGrant(i, k)
      BY <1>8, <3>2, <3>4 DEF CanGrant, CanGrantLock
    <3>. QED BY <1>4, <1>13, <2>1, <2>3, <2>5, <3>5 DEF graph
  <2>. QED BY <2>4, <2>5
<1>14. \A d \in Contexts \ {c} : pc'[d] = pc[d] /\ loop'[d] = loop[d]
  BY <1>4, GotoFacts
<1>. QED BY <1>4, <1>13, <1>14, VisitKept

(* A waiter that becomes a holder excludes at least as much: the others    *)
(* cannot be granted because it left m_waiting.                            *)
LEMMA RescheduleNextVisit ==
  ASSUME Structure, Structure', VisitInv, SkipInv, NEW c \in Contexts, RescheduleNext(c)
  PROVE  VisitInv'
<1>1. PICK k : k = loop[c].key
  OBVIOUS
<1>2. PICK id : id = Head(loop[c].rest)
  OBVIOUS
<1>3. /\ k \in Keys /\ pc[c] = "resched" /\ id \in WaitingOn(k) /\ id \in TicketIds
      /\ WaiterInv(k, id) /\ Ctx(id) \in Contexts
      /\ \A d \in Contexts \ {c} : loop'[d] = loop[d]
      /\ loop'[c].key = k /\ ToSet(loop'[c].rest) = ToSet(loop[c].rest) \ {id}
  BY <1>1, <1>2, RescheduleNextFacts
<1>4. UNCHANGED <<ticket, pc>>
  BY DEF RescheduleNext
<1>. SUFFICES ASSUME NEW j \in Keys, NEW i \in WaitingOn(j)', Served(i, j)',
                     wait_status'[Ctx(i)] = "EMPTY", CanGrant(i, j)'
              PROVE  \E d \in Contexts : /\ pc'[d] = "resched" /\ loop'[d].key = j
                                         /\ i \in ToSet(loop'[d].rest)
  BY DEF VisitInv
<1>5. Served(i, j)
  BY <1>4 DEF Served, Scoped
<1>6. ASSUME i \in WaitingOn(j), wait_status[Ctx(i)] = "EMPTY", CanGrant(i, j), i # id
      PROVE  \E d \in Contexts : /\ pc'[d] = "resched" /\ loop'[d].key = j
                                 /\ i \in ToSet(loop'[d].rest)
  <2>1. PICK d \in Contexts : /\ pc[d] = "resched" /\ loop[d].key = j
                              /\ i \in ToSet(loop[d].rest)
    BY <1>5, <1>6 DEF VisitInv
  <2>2. loop'[d].key = j /\ i \in ToSet(loop'[d].rest)
    BY <1>1, <1>3, <1>6, <2>1
  <2>. QED BY <1>4, <2>1, <2>2
<1>7. CASE UNCHANGED <<wait_status, waiting, granted>>
  <2>1. /\ i \in WaitingOn(j) /\ wait_status[Ctx(i)] = "EMPTY" /\ CanGrant(i, j)
    BY <1>4, <1>7
       DEF WaitingOn, CanGrant, CanGrantLock, WaitingTypes, GrantedOn, Scoped
  <2>2. ASSUME i = id PROVE FALSE
    <3>1. j = k
      BY <1>3, <2>1, <2>2, WaiterFacts DEF WaiterInv
    <3>2. CanGrantLock(Ctx(id), k, ticket[id].type, loop[c].skip)
      BY <2>1, <2>2, <3>1 DEF CanGrant, CanGrantLock
    <3>3. ~(loop[c].skip /\ ticket[id].type \in HogTypes(Scoped(k)))
      BY <1>5, <2>2, <3>1 DEF Served, SkipInv
    <3>4. granted' = granted \cup {id}
      BY <1>1, <1>2, <2>1, <2>2, <3>2, <3>3 DEF RescheduleNext
    <3>. QED BY <1>3, <1>7, <3>4 DEF WaiterInv
  <2>. QED BY <1>6, <2>1, <2>2
<1>8. CASE ~UNCHANGED <<wait_status, waiting, granted>>
  <2>1. PICK others : others = RemoveFirst(waiting[k], id)
    OBVIOUS
  <2>2. /\ wait_status[Ctx(id)] = "EMPTY" /\ SetStatus({Ctx(id)}, "GRANTED")
        /\ waiting' = [waiting EXCEPT ![k] = others]
        /\ granted' = granted \cup {id}
    BY <1>1, <1>2, <1>8, <2>1 DEF RescheduleNext
  <2>3. waiting \in [Keys -> Seq(TicketIds)] /\ Distinct(waiting[k])
    BY <1>3 DEF Structure, Types, TypeOK
  <2>4. ToSet(others) = ToSet(waiting[k]) \ {id}
    BY <1>3, <2>1, <2>3, RemoveFirstFacts
  <2>5. WaitingOn(j)' = IF j = k THEN WaitingOn(j) \ {id} ELSE WaitingOn(j)
    <3>1. waiting'[j] = IF j = k THEN others ELSE waiting[j]
      BY <2>2, <2>3
    <3>. QED BY <2>4, <3>1 DEF WaitingOn
  <2>6. i \in WaitingOn(j)
    BY <2>5
  <2>7. Ctx(i) \in Contexts /\ ticket[i].type \in MDLTypeSet
    BY <2>6, WaiterFacts
  <2>8. wait_status[Ctx(i)] = "EMPTY" /\ Ctx(i) # Ctx(id)
    BY <2>2, <2>7 DEF SetStatus
  <2>9. CanGrant(i, j)
    <3>1. PICK t : t = ticket[i].type
      OBVIOUS
    <3>2. /\ WaitingTypes(j)' \cap WaitingIncompatible(Scoped(j), t) = {}
          /\ \A g \in GrantedOn(j)' :
               Ctx(g) = Ctx(i) \/ ticket[g].type \notin GrantedIncompatible(Scoped(j), t)
      BY <1>4, <3>1 DEF CanGrant, CanGrantLock, Scoped
    <3>3. ASSUME NEW w \in WaitingOn(j)
          PROVE  ticket[w].type \notin WaitingIncompatible(Scoped(j), t)
      <4>1. CASE w \in WaitingOn(j)'
        BY <1>4, <3>2, <4>1 DEF WaitingTypes
      <4>2. CASE w = id /\ j = k
        <5>1. id \in GrantedOn(j)'
          BY <1>3, <1>4, <2>2, <4>2 DEF GrantedOn, WaiterInv
        <5>2. ticket[id].type \notin GrantedIncompatible(Scoped(j), t)
          BY <2>8, <3>2, <5>1
        <5>3. WaitingIncompatible(Scoped(j), t) \subseteq GrantedIncompatible(Scoped(j), t)
          <6>1. Scoped(j) \in BOOLEAN
            BY DEF Scoped
          <6>. QED BY <2>7, <3>1, <6>1, WaitingWeaker
        <5>. QED BY <4>2, <5>2, <5>3
      <4>. QED BY <2>5, <4>1, <4>2
    <3>4. \A g \in GrantedOn(j) : g \in GrantedOn(j)'
      BY <1>4, <2>2 DEF GrantedOn
    <3>. QED BY <3>1, <3>2, <3>3, <3>4 DEF CanGrant, CanGrantLock, WaitingTypes
  <2>10. i # id
    BY <2>8
  <2>. QED BY <1>6, <2>6, <2>8, <2>9, <2>10
<1>. QED BY <1>7, <1>8

LEMMA RescheduleEndVisit ==
  ASSUME Structure, VisitInv, NEW c \in Contexts, RescheduleEnd(c) PROVE VisitInv'
<1>1. /\ UNCHANGED <<ticket, granted, waiting, wait_status>> /\ loop[c].rest = <<>>
      /\ loop' = [loop EXCEPT ![c] = NoLoop] /\ Goto(c, "run")
  BY DEF RescheduleEnd, graph
<1>2. \A d \in Contexts \ {c} : loop'[d] = loop[d] /\ pc'[d] = pc[d]
  BY <1>1, GotoFacts DEF Structure, Types, TypeOK
<1>. SUFFICES ASSUME NEW j \in Keys, NEW i \in WaitingOn(j)', Served(i, j)',
                     wait_status'[Ctx(i)] = "EMPTY", CanGrant(i, j)'
              PROVE  \E d \in Contexts : /\ pc'[d] = "resched" /\ loop'[d].key = j
                                         /\ i \in ToSet(loop'[d].rest)
  BY DEF VisitInv
<1>3. i \in WaitingOn(j) /\ Served(i, j) /\ wait_status[Ctx(i)] = "EMPTY" /\ CanGrant(i, j)
  BY <1>1 DEF WaitingOn, Served, CanGrant, CanGrantLock, WaitingTypes, GrantedOn, Scoped
<1>4. PICK d \in Contexts : pc[d] = "resched" /\ loop[d].key = j /\ i \in ToSet(loop[d].rest)
  BY <1>3 DEF VisitInv
<1>5. d # c
  BY <1>1, <1>4, EmptyFacts
<1>. QED BY <1>2, <1>4, <1>5

LEMMA CallerVisit ==
  ASSUME Structure, Structure', VisitInv, NEW c \in Contexts, Caller(c) PROVE VisitInv'
<1>1. CASE \E cl : Asking(c, cl) /\ Attempt(c, cl)
  BY <1>1, AttemptVisit
<1>2. CASE /\ Idle(c) /\ UNCHANGED <<ticket, lock, loop, graph>>
           /\ UNCHANGED pc \/ Goto(c, "ask")
  <2>1. pc[c] # "resched" /\ \A d \in Contexts \ {c} : pc'[d] = pc[d]
    BY <1>2, GotoFacts DEF Idle, At
  <2>2. \A k \in Keys : Grows(k) /\ WaitingOn(k)' = WaitingOn(k)
    BY <1>2 DEF Grows, GrantedOn, WaitingOn, lock
  <2>. QED BY <1>2, <2>1, <2>2, VisitGrows DEF graph
<1>3. \/ \E cl : Asking(c, cl) /\ Attempt(c, cl)
      \/ /\ Idle(c) /\ UNCHANGED <<ticket, lock, loop, graph>>
         /\ UNCHANGED pc \/ Goto(c, "ask")
      \/ \E id \in Held(c), type \in {"SNW", "SNRW"} : DowngradeExclusiveLock(c, id, type)
  BY AcquireLockAsks, UpgradeSharedLockAsks
     DEF Caller, AcquireLocks, ReleaseLock, ReleaseAllLocksForName, ReleaseStatementLocks, SetSavepoint,
         RollbackToSavepoint, SetLockDuration, SetExplicitDurationForAllLocks,
         SetTransactionDurationForAllLocks, StartRelease, SetTickets
<1>. QED BY <1>1, <1>2, <1>3, DowngradeVisit

LEMMA ContinueVisit ==
  ASSUME Structure, Structure', VisitInv, SkipInv, NEW c \in Contexts, Continue(c)
  PROVE  VisitInv'
<1>1. SelfInv(c) /\ ticket \in [TicketIds -> MDLTicket \cup {None}]
  BY DEF Structure, Types, TypeOK
<1>2. ASSUME pc[c] # "resched", UNCHANGED <<ticket, lock, loop>>,
             \A d \in Contexts \ {c} : pc'[d] = pc[d],
             \A d \in Contexts : wait_status'[d] = "EMPTY" => wait_status[d] = "EMPTY"
      PROVE  VisitInv'
  <2>1. \A k \in Keys : Grows(k) /\ WaitingOn(k)' = WaitingOn(k)
    BY <1>2 DEF Grows, GrantedOn, WaitingOn, lock
  <2>. QED BY <1>2, <2>1, VisitGrows
<1>3. CASE AcquireNext(c)
  BY <1>3, AcquireNextAsks, AttemptVisit
<1>4. CASE MarkNoWait(c)
  <2>1. PICK id : id = call[c].mine
    OBVIOUS
  <2>2. pc[c] = "mark" /\ ticket' = [ticket EXCEPT ![id].nowait = TRUE]
        /\ Satisfied(c, call[c], id) /\ UNCHANGED <<lock, loop, graph>>
    BY <1>4, <2>1 DEF MarkNoWait, At
  <2>3. id \in Held(c)
    BY <1>1, <2>1, <2>2 DEF SelfInv, CallInv
  <2>4. id \in TicketIds /\ ticket[id] \in MDLTicket /\ id \in granted
    BY <2>3, HeldFacts
  <2>5. ASSUME NEW i \in TicketIds
        PROVE  ticket'[i].key = ticket[i].key /\ ticket'[i].type = ticket[i].type
    <3>1. ticket'[i] = IF i = id THEN [ticket[i] EXCEPT !.nowait = TRUE] ELSE ticket[i]
      BY <1>1, <2>2
    <3>. QED BY <2>4, <3>1 DEF MDLTicket
  <2>6. granted \subseteq TicketIds /\ \A k \in Keys : WaitingOn(k) \subseteq TicketIds
    BY GrantedFacts, WaiterFacts
  <2>7. \A k \in Keys : Grows(k) /\ WaitingOn(k)' = WaitingOn(k)
    BY <2>2, <2>5, <2>6 DEF Grows, GrantedOn, WaitingOn, lock
  <2>8. \A d \in Contexts \ {c} : pc'[d] = pc[d]
    BY <2>2, SatisfiedMoves
  <2>. QED BY <2>2, <2>7, <2>8, VisitGrows DEF graph
<1>5. CASE WillWaitFor(c)
  BY <1>2, <1>5, GotoFacts DEF WillWaitFor, At
<1>6. CASE Search(c)
  BY <1>2, <1>6, GotoFacts DEF Search, At
<1>7. CASE SetVictim(c)
  <2>1. \A d \in Contexts : wait_status'[d] = "EMPTY" => wait_status[d] = "EMPTY"
    BY <1>7 DEF SetVictim, SetStatus
  <2>. QED BY <1>2, <1>7, <2>1, GotoFacts DEF SetVictim, At
<1>8. CASE DoneWaitingFor(c)
  BY <1>2, <1>8, GotoFacts DEF DoneWaitingFor, At
<1>9. CASE WaitFailed(c)
  <2>1. pc[c] = "finish" /\ RemoveTicket(c, call[c].mine) /\ UNCHANGED graph
    BY <1>9 DEF WaitFailed, At
  <2>2. /\ call[c].mine \in TicketIds /\ ticket[call[c].mine] # None
        /\ Ctx(call[c].mine) = c
    BY <1>1, <2>1 DEF SelfInv, CallInv, IsFor, Queued
  <2>. QED BY <2>1, <2>2, RemoveTicketVisit
<1>10. CASE WaitGranted(c)
  <2>1. /\ pc[c] = "finish" /\ Satisfied(c, call[c], call[c].mine)
        /\ UNCHANGED <<ticket, lock, loop>>
        /\ UNCHANGED wait_status \/ \E S : SetStatus(S, "ABORTED")
    BY <1>10 DEF WaitGranted, At
  <2>2. \A d \in Contexts : wait_status'[d] = "EMPTY" => wait_status[d] = "EMPTY"
    BY <2>1 DEF SetStatus
  <2>. QED BY <1>2, <2>1, <2>2, SatisfiedMoves
<1>11. CASE ReleaseNext(c)
  <2>1. /\ pc[c] = "run" /\ release[c] # <<>> /\ RemoveTicket(c, Head(release[c]))
        /\ UNCHANGED graph
    BY <1>11 DEF ReleaseNext, At
  <2>2. Head(release[c]) \in Held(c)
    <3>1. release[c] \in Seq(TicketIds) /\ ToSet(release[c]) \subseteq Held(c)
      BY <1>1, TypeFacts DEF Structure, SelfInv, ListsInv
    <3>. QED BY <2>1, <3>1, TailFacts
  <2>. QED BY <2>1, <2>2, HeldFacts, RemoveTicketVisit
<1>. QED BY <1>3, <1>4, <1>5, <1>6, <1>7, <1>8, <1>9, <1>10, <1>11, MergeVisit,
            RescheduleNextVisit, RescheduleEndVisit DEF Continue

LEMMA VisitNext == Structure /\ VisitInv /\ SkipInv /\ [Next]_vars => VisitInv'
<1>. SUFFICES ASSUME Structure, VisitInv, SkipInv, [Next]_vars PROVE VisitInv'
  OBVIOUS
<1>1. Structure'
  BY StructureNext
<1>2. CASE UNCHANGED vars
  BY <1>2 DEF VisitInv, vars, lock, graph, WaitingOn, Served, CanGrant, CanGrantLock,
              WaitingTypes, GrantedOn
<1>3. ASSUME NEW s \in Contexts, pc[s] # "resched", UNCHANGED <<ticket, lock, loop, pc>>,
             \A d \in Contexts : wait_status'[d] = "EMPTY" => wait_status[d] = "EMPTY"
      PROVE  VisitInv'
  <2>1. \A k \in Keys : Grows(k) /\ WaitingOn(k)' = WaitingOn(k)
    BY <1>3 DEF Grows, GrantedOn, WaitingOn, lock
  <2>. QED BY <1>1, <1>3, <2>1, VisitGrows
<1>4. ASSUME NEW s \in Contexts, ReleaseTransactionalLocks(s) PROVE VisitInv'
  BY <1>3, <1>4 DEF ReleaseTransactionalLocks, StartRelease, Idle, At, graph
<1>5. ASSUME NEW s \in Contexts, NEW status \in Interrupts, InterruptWait(s, status)
      PROVE  VisitInv'
  <2>1. wait_status \in [Contexts -> WaitStatuses] /\ status # "EMPTY"
    BY RequestsAssumption DEF Structure, Types, TypeOK
  <2>2. \A d \in Contexts : wait_status'[d] = "EMPTY" => wait_status[d] = "EMPTY"
    BY <1>5, <2>1 DEF InterruptWait
  <2>. QED BY <1>3, <1>5, <2>2 DEF InterruptWait, At
<1>. QED BY <1>1, <1>2, <1>4, <1>5, CallerVisit, ContinueVisit DEF Next

LEMMA SkipNext == Structure /\ SkipInv /\ [Next]_vars => SkipInv'
<1>. SUFFICES ASSUME Structure, SkipInv, [Next]_vars, NEW d \in Contexts, loop'[d].skip
              PROVE  MaxWriteLockCount # None
  BY DEF SkipInv
<1>1. loop \in [Contexts -> [key : Keys \cup {None}, rest : Seq(TicketIds), skip : BOOLEAN]]
  BY DEF Structure, Types, TypeOK
<1>2. CASE loop'[d].skip = loop[d].skip
  BY <1>2 DEF SkipInv
<1>3. ASSUME NEW c \in Contexts, NEW k, NEW waiters, StartLoop(c, k, waiters)
      PROVE  MaxWriteLockCount # None
  <2>1. loop' = [loop EXCEPT ![c] =
          [key |-> k, rest |-> waiters, skip |-> HogLimitReached(k) /\ WeakAmong(k, waiters)]]
    BY <1>3 DEF StartLoop
  <2>2. CASE d = c
    BY <1>1, <2>1, <2>2 DEF HogLimitReached
  <2>3. CASE d # c
    BY <1>1, <1>2, <2>1, <2>3
  <2>. QED BY <2>2, <2>3
<1>4. ASSUME NEW c \in Contexts, NEW id, RemoveTicket(c, id) PROVE MaxWriteLockCount # None
  <2>1. UNCHANGED loop \/ \E k, waiters : StartLoop(c, k, waiters)
    BY <1>4 DEF RemoveTicket
  <2>. QED BY <1>2, <1>3, <2>1
<1>5. ASSUME NEW c \in Contexts, RescheduleNext(c) PROVE MaxWriteLockCount # None
  <2>1. loop'[c].skip = loop[c].skip /\ \A e \in Contexts \ {c} : loop'[e] = loop[e]
    BY <1>5, RescheduleNextFacts
  <2>. QED BY <1>2, <2>1
<1>6. ASSUME NEW c \in Contexts, RescheduleEnd(c) PROVE MaxWriteLockCount # None
  <2>1. loop' = [loop EXCEPT ![c] = NoLoop]
    BY <1>6 DEF RescheduleEnd
  <2>2. d # c /\ loop'[d] = loop[d]
    BY <1>1, <2>1 DEF NoLoop
  <2>. QED BY <1>2, <2>2
<1>7. ASSUME NEW c, NEW cl, Attempt(c, cl) PROVE UNCHANGED loop
  BY <1>7 DEF Attempt, ReuseTicket, CloneTicket, GrantAtOnce, Conflict, OutOfMemory, Refused,
              Enqueue
<1>8. ASSUME NEW c \in Contexts, Caller(c) PROVE MaxWriteLockCount # None
  <2>1. \/ UNCHANGED loop \/ \E cl : Attempt(c, cl)
        \/ \E k, waiters : StartLoop(c, k, waiters)
    BY <1>8, AcquireLockAsks, UpgradeSharedLockAsks
       DEF Caller, AcquireLocks, ReleaseLock, ReleaseAllLocksForName, ReleaseStatementLocks, SetSavepoint,
           RollbackToSavepoint, SetLockDuration, SetExplicitDurationForAllLocks,
           SetTransactionDurationForAllLocks, StartRelease, SetTickets, DowngradeExclusiveLock
  <2>. QED BY <1>2, <1>3, <1>7, <2>1
<1>9. ASSUME NEW c \in Contexts, Continue(c) PROVE MaxWriteLockCount # None
  <2>1. \/ UNCHANGED loop \/ \E cl : Attempt(c, cl)
        \/ \E id : RemoveTicket(c, id) \/ RescheduleNext(c) \/ RescheduleEnd(c)
    BY <1>9 DEF Continue, AcquireNext, MarkNoWait, WillWaitFor, Search, SetVictim,
                DoneWaitingFor, WaitFailed, WaitGranted, Merge, ReleaseNext
  <2>. QED BY <1>2, <1>4, <1>5, <1>6, <1>7, <2>1
<1>10. \/ UNCHANGED loop \/ \E c \in Contexts : Caller(c) \/ Continue(c)
  BY DEF Next, vars, ReleaseTransactionalLocks, StartRelease, InterruptWait
<1>. QED BY <1>2, <1>8, <1>9, <1>10

(* A waiter that could be granted is always still to be visited.           *)
LEMMA VisitInvariant == Spec => [](Structure /\ VisitInv)
<1>1. Init => VisitInv /\ SkipInv
  BY EmptyFacts DEF Init, VisitInv, SkipInv, WaitingOn, NoLoop
<1>2. Structure /\ VisitInv /\ SkipInv /\ [Next]_vars => (VisitInv /\ SkipInv)'
  BY VisitNext, SkipNext
<1>. QED BY <1>1, <1>2, StructureInvariant, PTL DEF Spec

(* Nobody waits for a lock it could be granted: with the default           *)
(* max_write_lock_count, which is never reached, reschedule_waiters() is   *)
(* called whenever a request may have become grantable, and visits it.     *)
THEOREM NoGrantMissed == Spec => [](MaxWriteLockCount = None => NoMissedGrant)
<1>1. ASSUME Structure, VisitInv, MaxWriteLockCount = None PROVE NoMissedGrant
  <2>. SUFFICES ASSUME NEW k \in Keys, rwlock[k] = None, NEW id \in WaitingOn(k),
                       wait_status[Ctx(id)] = "EMPTY", CanGrant(id, k)
                PROVE  FALSE
    BY DEF NoMissedGrant, CanGrant
  <2>1. PICK c \in Contexts : pc[c] = "resched" /\ loop[c].key = k
    BY <1>1 DEF VisitInv, Served
  <2>2. rwlock[k] = c
    BY <1>1, <2>1 DEF Structure, SelfInv, LoopInv
  <2>. QED BY <2>2, NoneAssumption
<1>2. Structure /\ VisitInv => (MaxWriteLockCount = None => NoMissedGrant)
  BY <1>1
<1>. QED BY <1>2, VisitInvariant, PTL

(* Weak requests are never missed, whatever max_write_lock_count is: a     *)
(* loop that passes over the strong ones still grants them.                *)
NoMissedWeakGrant ==
  \A k \in Keys : rwlock[k] = None =>
    \A id \in WaitingOn(k) :
      ticket[id].type \notin HogTypes(Scoped(k)) /\ wait_status[Ctx(id)] = "EMPTY" =>
        ~CanGrantLock(Ctx(id), k, ticket[id].type, FALSE)

(* reschedule_waiters() with a max_write_lock_count that is reached delays *)
(* only requests for SNW, SNRW and X.                                      *)
THEOREM NoWeakGrantMissed == Spec => []NoMissedWeakGrant
<1>1. ASSUME Structure, VisitInv PROVE NoMissedWeakGrant
  <2>. SUFFICES ASSUME NEW k \in Keys, rwlock[k] = None, NEW id \in WaitingOn(k),
                       ticket[id].type \notin HogTypes(Scoped(k)),
                       wait_status[Ctx(id)] = "EMPTY", CanGrant(id, k)
                PROVE  FALSE
    BY DEF NoMissedWeakGrant, CanGrant
  <2>1. PICK c \in Contexts : pc[c] = "resched" /\ loop[c].key = k
    BY <1>1 DEF VisitInv, Served
  <2>2. rwlock[k] = c
    BY <1>1, <2>1 DEF Structure, SelfInv, LoopInv
  <2>. QED BY <2>2, NoneAssumption
<1>2. Structure /\ VisitInv => NoMissedWeakGrant
  BY <1>1
<1>. QED BY <1>2, VisitInvariant, PTL

-----------------------------------------------------------------------------
(* A search is exact.                                                      *)

(* Only a loop of waits is found: as long as fewer contexts wait than the  *)
(* depth at which enter_node() gives up, a path of the search that ends    *)
(* comes back to a node it has visited.  The proof follows a path that     *)
(* yields a victim; without a loop it would have a new node at each depth. *)
LEMMA OnlyDeadlockFound ==
  ASSUME NEW edges, NEW start \in DOMAIN edges,
         \A c \in DOMAIN edges : edges[c] \subseteq DOMAIN edges,
         NEW live, IsFiniteSet(live), NEW weights, NEW M \in Nat \ {0},
         Cardinality(live) < M,
         DeadlockVictims(start, edges, live, weights, M) # {}
  PROVE  \E D \in SUBSET live : start \in D /\ \A c \in D : edges[c] \cap D # {}
<1>. DEFINE f == VisitSubgraph(start, edges, live, weights, M)
            Path(A, c, d) ==
              /\ A \subseteq live /\ Cardinality(A) = d - 1 /\ c \in DOMAIN edges \ A
              /\ start \in A \cup {c}
              /\ \A n \in A : edges[n] \cap (A \cup {c}) # {}
              /\ f[d][c] # {}
            S == {n \in Nat : n < M => \E A, c : Path(A, c, n + 1)}
<1>. SUFFICES ASSUME \A D \in SUBSET live : start \in D =>
                       \E c \in D : edges[c] \cap D = {}
              PROVE  FALSE
  OBVIOUS
<1>1. \A d \in 1 .. M : f[d] = Visit(f, d, start, edges, live, weights, M)
  BY VisitEquation
<1>2. f[1][start] # {}
  BY DEF DeadlockVictims
<1>. HIDE DEF f
<1>3. 0 \in S
  <2>1. Cardinality({}) = 0 /\ 0 + 1 = 1 /\ 1 - 1 = 0
    BY FS_EmptySet
  <2>2. Path({}, start, 1)
    BY <1>2, <2>1
  <2>. QED BY <2>1, <2>2
<1>. DEFINE Goes(A, c, d) ==
              /\ c \in live /\ Cardinality(A \cup {c}) = d
              /\ d # M
              /\ \E b \in edges[c] : b \notin A \cup {c} /\ f[d + 1][b] # {}
<1>4. ASSUME NEW d \in 1 .. M, NEW A, NEW c, Path(A, c, d)
      PROVE  Goes(A, c, d)
  <2>1. f[d] = Visit(f, d, start, edges, live, weights, M)
    BY <1>1
  <2>2. f[d][c] =
          IF c \notin live THEN {}
          ELSE IF d = M \/ start \in edges[c] THEN {c}
          ELSE {OptChangeVictimTo(weights, v, c) :
                  v \in UNION {f[d + 1][b] : b \in edges[c]}}
    BY <1>4, <2>1 DEF Visit
  <2>3. c \in live
    BY <1>4, <2>2
  <2>4. IsFiniteSet(A) /\ c \notin A
    BY <1>4, FS_Subset
  <2>5. Cardinality(A \cup {c}) = d
    <3>1. Cardinality(A \cup {c}) = Cardinality(A) + 1
      BY <2>4, FS_AddElement
    <3>2. Cardinality(A) = d - 1
      BY <1>4
    <3>. QED BY <3>1, <3>2
  <2>6. A \cup {c} \in SUBSET live /\ start \in A \cup {c}
    BY <1>4, <2>3
  <2>7. d # M
    <3>1. Cardinality(A \cup {c}) <= Cardinality(live)
      BY <2>6, FS_Subset
    <3>2. Cardinality(live) \in Nat
      BY FS_CardinalityType
    <3>. QED BY <2>5, <3>1, <3>2
  <2>8. edges[c] \cap (A \cup {c}) = {}
    <3>1. PICK n \in A \cup {c} : edges[n] \cap (A \cup {c}) = {}
      BY <2>6
    <3>2. n = c
      BY <1>4, <3>1
    <3>. QED BY <3>1, <3>2
  <2>9. f[d][c] = {OptChangeVictimTo(weights, v, c) :
                          v \in UNION {f[d + 1][b] : b \in edges[c]}}
    BY <2>2, <2>3, <2>6, <2>7, <2>8
  <2>10. f[d][c] # {}
    BY <1>4
  <2>11. PICK b \in edges[c] : f[d + 1][b] # {}
    BY <2>9, <2>10
  <2>. QED BY <2>3, <2>5, <2>7, <2>8, <2>11
<1>5. ASSUME NEW d \in 1 .. M, NEW A, NEW c, Path(A, c, d)
      PROVE  d # M /\ \E b : Path(A \cup {c}, b, d + 1)
  <2>1. Goes(A, c, d)
    <3>. HIDE DEF Path, Goes
    <3>. QED BY <1>4, <1>5
  <2>2. PICK b \in edges[c] : b \notin A \cup {c} /\ f[d + 1][b] # {}
    BY <2>1
  <2>3. A \cup {c} \subseteq live /\ Cardinality(A \cup {c}) = (d + 1) - 1
    BY <1>5, <2>1
  <2>4. b \in DOMAIN edges \ (A \cup {c})
    BY <1>5, <2>2
  <2>5. \A n \in A \cup {c} : edges[n] \cap ((A \cup {c}) \cup {b}) # {}
    BY <1>5, <2>2
  <2>6. start \in (A \cup {c}) \cup {b}
    BY <1>5
  <2>7. Path(A \cup {c}, b, d + 1)
    BY <2>2, <2>3, <2>4, <2>5, <2>6
  <2>. QED BY <2>1, <2>7
<1>. HIDE DEF Path, Goes
<1>6. ASSUME NEW n \in S PROVE n + 1 \in S
  <2>. SUFFICES ASSUME n + 1 < M PROVE \E A, c : Path(A, c, (n + 1) + 1)
    OBVIOUS
  <2>1. n \in Nat /\ n < M /\ n + 1 \in 1 .. M
    OBVIOUS
  <2>2. PICK A, c : Path(A, c, n + 1)
    BY <2>1
  <2>. QED BY <1>5, <2>1, <2>2
<1>7. S = Nat
  <2>. HIDE DEF S
  <2>1. S \subseteq Nat
    BY DEF S
  <2>. QED BY <1>3, <1>6, <2>1, SetInduction
<1>8. M - 1 \in Nat /\ M - 1 < M /\ (M - 1) + 1 = M /\ M \in 1 .. M
  OBVIOUS
<1>9. PICK A, c : Path(A, c, M)
  <2>1. M - 1 \in S
    <3>. HIDE DEF S
    <3>. QED BY <1>7, <1>8
  <2>. QED BY <1>8, <2>1
<1>. QED BY <1>5, <1>8, <1>9

(* The graph of MDLFindDeadlock is over the nodes.                         *)
GraphOK == blockers \in [Nodes -> SUBSET Nodes] /\ active \subseteq Nodes

LEMMA GraphInvariant == FindSpec => []GraphOK
<1>1. FindInit => GraphOK
  BY DEF FindInit, GraphOK
<1>2. GraphOK /\ [FindNext]_findVars => GraphOK'
  BY DEF GraphOK, FindNext, FindDeadlock, findVars
<1>. QED BY <1>1, <1>2, PTL DEF FindSpec

(* find_deadlock() reports a victim exactly when the waits of the caller   *)
(* lead into a set of contexts that wait for each other, for every graph   *)
(* with fewer nodes than MAX_SEARCH_DEPTH; at that depth the code takes    *)
(* any path for a deadlock.                                                *)
THEOREM SearchIsExact ==
  ASSUME IsFiniteSet(Nodes), Cardinality(Nodes) < MaxDepth
  PROVE  FindSpec => []FoundIffDeadlocked
<1>1. ASSUME GraphOK PROVE FoundIffDeadlocked
  <2>1. IsFiniteSet(active) /\ Cardinality(active) < MaxDepth
    <3>1. IsFiniteSet(active) /\ Cardinality(active) <= Cardinality(Nodes)
      BY <1>1, FS_Subset DEF GraphOK
    <3>2. Cardinality(active) \in Nat /\ Cardinality(Nodes) \in Nat
      BY <3>1, FS_CardinalityType
    <3>. QED BY <3>1, <3>2, StartAssumption
  <2>2. /\ DOMAIN blockers = Nodes /\ \A n \in Nodes : blockers[n] \subseteq Nodes
        /\ active \subseteq Nodes
    BY <1>1 DEF GraphOK
  <2>3. ASSUME Victims # {}
        PROVE  \E D \in SUBSET active : Start \in D /\ \A n \in D : blockers[n] \cap D # {}
    BY <2>1, <2>2, <2>3, StartAssumption, OnlyDeadlockFound DEF Victims
  <2>4. ASSUME NEW D \in SUBSET active, Start \in D, \A n \in D : blockers[n] \cap D # {}
        PROVE  Victims # {}
    BY <2>2, <2>4, StartAssumption, DeadlockFound DEF Victims
  <2>. QED BY <2>3, <2>4 DEF FoundIffDeadlocked, Deadlocked
<1>2. GraphOK => FoundIffDeadlocked
  BY <1>1
<1>. QED BY <1>2, GraphInvariant, PTL

(* When find_deadlock() returns, the caller is a victim itself or waits in *)
(* no loop, for every graph and whatever the depth at which it gives up.   *)
THEOREM EveryLoopBroken == FindSpec => []NoLoopLeft
<1>1. FindInit => NoLoopLeft
  BY DEF FindInit, NoLoopLeft
<1>2. ASSUME GraphOK, NoLoopLeft, FindNext PROVE NoLoopLeft'
  <2>. SUFFICES ASSUME done', NEW D \in SUBSET active', Start \in D,
                       \A n \in D : blockers'[n] \cap D # {}
                PROVE  FALSE
    BY DEF NoLoopLeft, Deadlocked
  <2>1. /\ \/ Victims = {} /\ active' = active
           \/ \E v \in Victims : active' = active \ {v} /\ done' = (v = Start)
        /\ blockers' = blockers
    BY <1>2 DEF FindNext, FindDeadlock
  <2>2. Victims = {} /\ active' = active
    BY <2>1
  <2>3. DOMAIN blockers = Nodes /\ D \subseteq active /\ D \subseteq Nodes
    BY <1>2, <2>2 DEF GraphOK
  <2>. QED BY <2>1, <2>2, <2>3, StartAssumption, DeadlockFound DEF Victims
<1>3. ASSUME NoLoopLeft, UNCHANGED findVars PROVE NoLoopLeft'
  BY <1>3 DEF findVars, NoLoopLeft, Deadlocked
<1>4. GraphOK /\ NoLoopLeft /\ [FindNext]_findVars => NoLoopLeft'
  BY <1>2, <1>3
<1>. QED BY <1>1, <1>4, GraphInvariant, PTL DEF FindSpec

(* Whoever a search of c pins as a victim, the waits of c do lead into a   *)
(* set of contexts that wait for each other and have no answer yet.        *)
NoFalseVictim ==
  [][\A c \in Contexts : victim'[c] \notin {None, victim[c]} =>
       \E D \in SUBSET {b \in Contexts : waiting_for[b] # None /\ wait_status[b] = "EMPTY"} :
         c \in D /\ \A b \in D : Blockers(b) \cap D # {}]_vars

(* Nobody is made a victim without a deadlock, while fewer connections     *)
(* than MAX_SEARCH_DEPTH exist: a longer path is taken for a deadlock.     *)
THEOREM VictimsOnlyOfDeadlocks ==
  ASSUME IsFiniteSet(Contexts), Cardinality(Contexts) < MaxSearchDepth
  PROVE  Spec => NoFalseVictim
<1>. DEFINE live == {b \in Contexts : waiting_for[b] # None /\ wait_status[b] = "EMPTY"}
            edges == [b \in Contexts |-> Blockers(b)]
            weights == [b \in Contexts |-> DeadlockWeight(b)]
            Loop(c) == \E D \in SUBSET live : c \in D /\ \A b \in D : Blockers(b) \cap D # {}
<1>1. ASSUME Structure, [Next]_vars, NEW c \in Contexts, victim'[c] \notin {None, victim[c]}
      PROVE  Loop(c)
  <2>1. victim \in [Contexts -> Contexts \cup {None}]
    BY <1>1 DEF Structure, Types, TypeOK
  <2>2. PICK d \in Contexts : Search(d)
    <3>1. PICK d \in Contexts :
            WillWaitFor(d) \/ Search(d) \/ SetVictim(d) \/ DoneWaitingFor(d)
      BY <1>1, NextQuiet DEF Quiet
    <3>2. ~SetVictim(d)
      BY <1>1, <2>1 DEF SetVictim
    <3>. QED BY <1>1, <3>1, <3>2 DEF WillWaitFor, DoneWaitingFor
  <2>3. DeadlockVictims(d, edges, live, weights, MaxSearchDepth) # {}
        /\ \E v : victim' = [victim EXCEPT ![d] = v]
    BY <1>1, <2>2 DEF Search
  <2>4. c = d
    BY <1>1, <2>1, <2>3
  <2>5. DOMAIN edges = Contexts /\ \A b \in Contexts : edges[b] = Blockers(b)
    OBVIOUS
  <2>6. \A b \in Contexts : Blockers(b) \subseteq Contexts
    BY <1>1, BlockersType
  <2>7. live \subseteq Contexts
    OBVIOUS
  <2>. HIDE DEF live, edges, weights
  <2>8. IsFiniteSet(live) /\ Cardinality(live) < MaxSearchDepth
    <3>1. IsFiniteSet(live) /\ Cardinality(live) <= Cardinality(Contexts)
      BY <2>7, FS_Subset
    <3>2. Cardinality(live) \in Nat /\ Cardinality(Contexts) \in Nat
      BY <3>1, FS_CardinalityType
    <3>. QED BY <3>1, <3>2, BoundsAssumption
  <2>9. \E D \in SUBSET live : c \in D /\ \A b \in D : edges[b] \cap D # {}
    BY <2>3, <2>4, <2>5, <2>6, <2>8, BoundsAssumption, OnlyDeadlockFound
  <2>. QED BY <2>5, <2>7, <2>9
<1>2. Structure /\ [Next]_vars =>
        [\A c \in Contexts : victim'[c] \notin {None, victim[c]} => Loop(c)]_vars
  BY <1>1
<1>. QED BY <1>2, StructureInvariant, PTL DEF Spec, NoFalseVictim

-----------------------------------------------------------------------------
(* acquire_locks() is all or nothing.                                      *)

(* c holds a lock that serves the request r.                               *)
Covered(c, r) ==
  \E id \in Held(c) : /\ ticket[id].key = r.key
                      /\ HasStrongerOrEqualType(Scoped(r.key), ticket[id].type, r.type)

(* The call cl of acquire_locks() has the requests left still to serve;    *)
(* its rollback would release what c did not hold before.                  *)
BatchOK(c, cl, left) ==
  /\ cl.asked \in Batches /\ cl.req \in cl.asked /\ cl.rest \subseteq cl.asked
  /\ cl.held \subseteq Held(c)
  /\ cl.svp.statement \in cl.held \cup {None}
  /\ cl.svp.transaction \in cl.held \cup {None}
  /\ ToSet(AcquiredAfter(c, cl.svp)) = Held(c) \ cl.held
  /\ \A r \in cl.asked \ left : Covered(c, r)

BatchInv(c) ==
  call[c].op = "batch" =>
    BatchOK(c, call[c], IF pc[c] = "mark" THEN call[c].rest
                        ELSE call[c].rest \cup {call[c].req})

(* What AllOrNothing says of c.                                            *)
Returns(c) ==
  call[c].op = "batch" /\ call'[c].op # "batch" =>
    LET kept == Held(c)' \ ToSet(release'[c])
    IN \/ kept = call[c].held
       \/ /\ call[c].held \subseteq kept
          /\ \A r \in call[c].asked : \E id \in kept :
               /\ ticket'[id].key = r.key
               /\ HasStrongerOrEqualType(Scoped(r.key), ticket'[id].type, r.type)

BatchStep(c) == BatchInv(c)' /\ Returns(c)

(* A step that leaves the call of c and the tickets it holds as they are.  *)
LEMMA BatchKept ==
  ASSUME NEW c, BatchInv(c), call'[c] = call[c],
         call[c].op = "batch" =>
           /\ m_tickets'[c] = m_tickets[c] /\ (pc'[c] = "mark" <=> pc[c] = "mark")
           /\ \A id \in Held(c) : /\ ticket'[id].key = ticket[id].key
                                  /\ ticket'[id].type = ticket[id].type
  PROVE  BatchStep(c)
<1>. SUFFICES ASSUME call[c].op = "batch" PROVE BatchInv(c)'
  BY DEF BatchStep, BatchInv, Returns
<1>1. PICK cl : cl = call[c]
  OBVIOUS
<1>2. PICK left : left = IF pc[c] = "mark" THEN cl.rest ELSE cl.rest \cup {cl.req}
  OBVIOUS
<1>3. BatchOK(c, cl, left)
  BY <1>1, <1>2 DEF BatchInv
<1>4. Held(c)' = Held(c)
  BY DEF Held
<1>5. AcquiredAfter(c, cl.svp)' = AcquiredAfter(c, cl.svp)
  BY DEF AcquiredAfter
<1>6. ASSUME NEW r, Covered(c, r) PROVE Covered(c, r)'
  BY <1>4, <1>6 DEF Covered, Scoped
<1>7. BatchOK(c, cl, left)'
  BY <1>3, <1>4, <1>5, <1>6 DEF BatchOK
<1>. QED BY <1>1, <1>2, <1>7 DEF BatchInv

(* One request is served: c asks for the next one, or has all of them.     *)
LEMMA SatisfiedBatch ==
  ASSUME Structure, NEW c \in Contexts, NEW cl, cl = call[c], cl.op = "batch",
         NEW id, Satisfied(c, cl, id), BatchOK(c, cl, cl.rest)', release'[c] = <<>>
  PROVE  BatchStep(c)
<1>1. /\ call \in [Contexts -> CallSet] /\ pc \in [Contexts -> Labels]
      /\ cl \in CallSet
  BY DEF Structure, Types, TypeOK
<1>2. CASE cl.rest # {}
  <2>1. PICK r \in First(cl.rest) :
          call' = [call EXCEPT ![c] = [cl EXCEPT !.req = r, !.mine = None, !.rest = @ \ {r}]]
    BY <1>2 DEF Satisfied
  <2>2. pc'[c] = "ask"
    BY <1>1, <1>2 DEF Satisfied, Goto
  <2>3. PICK new : new = [cl EXCEPT !.req = r, !.mine = None, !.rest = @ \ {r}]
    OBVIOUS
  <2>4. call'[c] = new
    BY <1>1, <2>1, <2>3
  <2>5. /\ new.op = "batch" /\ new.svp = cl.svp /\ new.req = r /\ new.rest = cl.rest \ {r}
        /\ new.asked = cl.asked /\ new.held = cl.held
    BY <1>1, <2>3 DEF CallSet
  <2>6. r \in cl.rest
    BY DEF First
  <2>7. new.rest \cup {new.req} = cl.rest
    BY <2>5, <2>6
  <2>8. r \in cl.asked /\ new.rest \subseteq cl.asked
    BY <2>5, <2>6 DEF BatchOK
  <2>9. BatchOK(c, new, cl.rest)'
    BY <2>5, <2>8 DEF BatchOK, AcquiredAfter
  <2>. QED BY <2>2, <2>4, <2>5, <2>7, <2>9 DEF BatchStep, BatchInv, Returns
<1>3. CASE cl.rest = {}
  <2>1. call' = [call EXCEPT ![c] = NoCall]
    BY <1>3 DEF Satisfied
  <2>2. call'[c].op = "none"
    BY <1>1, <2>1 DEF NoCall
  <2>3. Held(c)' \ ToSet(release'[c]) = Held(c)'
    BY EmptyFacts
  <2>4. cl.held \subseteq Held(c)' /\ \A r \in cl.asked : Covered(c, r)'
    BY <1>3 DEF BatchOK
  <2>. QED BY <2>2, <2>3, <2>4 DEF BatchStep, BatchInv, Returns, Covered, Scoped
<1>. QED BY <1>2, <1>3

(* A request failed: what the earlier ones got is released.                *)
LEMMA FailedBatch ==
  ASSUME Structure, NEW c \in Contexts, NEW cl, cl = call[c], cl.op = "batch",
         NEW left, BatchOK(c, cl, left), Failed(c, cl), m_tickets' = m_tickets
  PROVE  BatchStep(c)
<1>1. call \in [Contexts -> CallSet] /\ release \in [Contexts -> Seq(TicketIds)]
  BY DEF Structure, Types, TypeOK
<1>2. call'[c].op = "none" /\ release'[c] = AcquiredAfter(c, cl.svp)
  BY <1>1 DEF Failed, NoCall
<1>3. Held(c)' = Held(c)
  BY DEF Held
<1>4. Held(c)' \ ToSet(release'[c]) = cl.held
  BY <1>2, <1>3 DEF BatchOK
<1>. QED BY <1>2, <1>4 DEF BatchStep, BatchInv, Returns

LEMMA PushFrontHeld ==
  ASSUME Structure, NEW c \in Contexts, NEW e \in Durations, NEW id \in TicketIds,
         PushFront(c, e, id)
  PROVE  Held(c)' = Held(c) \cup {id}
<1>1. m_tickets \in [Contexts -> [Durations -> Seq(TicketIds)]]
  BY DEF Structure, Types, TypeOK
<1>2. PICK list : list = <<id>> \o m_tickets[c][e]
  OBVIOUS
<1>3. list \in Seq(TicketIds) /\ ToSet(list) = ToSet(m_tickets[c][e]) \cup {id}
  <2>1. m_tickets[c][e] \in Seq(TicketIds)
    BY <1>1
  <2>. QED BY <1>2, <2>1, PushFacts
<1>4. m_tickets' = [m_tickets EXCEPT ![c] = [m_tickets[c] EXCEPT ![e] = list]]
  BY <1>1, <1>2 DEF PushFront
<1>5. /\ m_tickets'[c][e] = list
      /\ \A d \in Durations : d # e => m_tickets'[c][d] = m_tickets[c][d]
  BY <1>1, <1>3, <1>4
<1>6. ASSUME NEW i PROVE i \in Held(c)' <=> \E d \in Durations : i \in ToSet(m_tickets'[c][d])
  BY DEF Held
<1>7. ASSUME NEW i, NEW d \in Durations
      PROVE  i \in ToSet(m_tickets'[c][d])
               <=> i \in ToSet(m_tickets[c][d]) \/ (d = e /\ i = id)
  BY <1>3, <1>5
<1>. QED BY <1>6, <1>7, HeldDef

(* acquire_locks() is called for locks that its rollback covers.           *)
NoExplicitBatch == \A b \in Batches : \A r \in b : r.dur # "explicit"

(* A new ticket serves the request.                                        *)
LEMMA GainedBatch ==
  ASSUME Structure, NoExplicitBatch, NEW c \in Contexts, NEW cl, CallOK(c, cl),
         BatchOK(c, cl, cl.rest \cup {cl.req}),
         NEW id \in TicketIds, id \notin Held(c), PushFront(c, cl.req.dur, id),
         ticket'[id].key = cl.req.key, ticket'[id].type = cl.req.type,
         \A i \in TicketIds : i # id => ticket'[i] = ticket[i]
  PROVE  BatchOK(c, cl, cl.rest)'
<1>1. cl.req.dur \in Durations /\ cl.req.dur # "explicit"
  BY DEF CallOK, MDLRequest, BatchOK, NoExplicitBatch
<1>2. Held(c)' = Held(c) \cup {id}
  BY <1>1, PushFrontHeld
<1>3. cl.svp.statement # id /\ cl.svp.transaction # id
  BY NoneAssumption DEF BatchOK
<1>4. PICK svp : svp = cl.svp
  OBVIOUS
<1>5. ToSet(AcquiredAfter(c, svp)') = ToSet(AcquiredAfter(c, svp)) \cup {id}
  BY <1>1, <1>3, <1>4, PushAcquired
<1>6. ToSet(AcquiredAfter(c, cl.svp))' = Held(c)' \ cl.held
  BY <1>2, <1>4, <1>5 DEF BatchOK
<1>7. ASSUME NEW r, Covered(c, r) PROVE Covered(c, r)'
  <2>1. Held(c) \subseteq TicketIds
    BY OneListFacts
  <2>. QED BY <1>2, <1>7, <2>1 DEF Covered, Scoped
<1>8. Covered(c, cl.req)'
  BY <1>2 DEF Covered, HasStrongerOrEqualType
<1>9. \A r \in cl.asked \ cl.rest : Covered(c, r)'
  BY <1>7, <1>8 DEF BatchOK
<1>. QED BY <1>2, <1>6, <1>9 DEF BatchOK

-----------------------------------------------------------------------------
(* The steps of acquire_locks().                                           *)

LEMMA AcquireLocksBatch ==
  ASSUME Structure, NEW c \in Contexts, NEW b \in Batches, AcquireLocks(c, b)
  PROVE  BatchStep(c)
<1>1. Types /\ CallInv(c) /\ pc \in [Contexts -> Labels] /\ call \in [Contexts -> CallSet]
  BY DEF Structure, SelfInv, Types, TypeOK
<1>2. PICK svp : svp = MDLSavepoint(c)
  OBVIOUS
<1>3. PICK held : held = Held(c)
  OBVIOUS
<1>4. PICK r \in First(b) :
        call' = [call EXCEPT ![c] =
          [NoCall EXCEPT !.op = "batch", !.req = r, !.rest = b \ {r}, !.svp = svp,
                         !.asked = b, !.held = held]]
  BY <1>2, <1>3 DEF AcquireLocks
<1>5. /\ pc[c] = "run" /\ pc' = [pc EXCEPT ![c] = "ask"] /\ m_tickets' = m_tickets
  BY DEF AcquireLocks, Idle, At, Goto, own
<1>6. PICK cl : cl = [NoCall EXCEPT !.op = "batch", !.req = r, !.rest = b \ {r},
                                    !.svp = svp, !.asked = b, !.held = held]
  OBVIOUS
<1>7. /\ cl.op = "batch" /\ cl.req = r /\ cl.rest = b \ {r} /\ cl.svp = svp
      /\ cl.asked = b /\ cl.held = held
  BY <1>6 DEF NoCall
<1>8. call'[c] = cl /\ pc'[c] = "ask" /\ call[c].op # "batch"
  BY <1>1, <1>4, <1>5, <1>6 DEF CallInv, NoCall
<1>9. Held(c)' = held /\ AcquiredAfter(c, svp)' = AcquiredAfter(c, svp)
  BY <1>3, <1>5 DEF Held, AcquiredAfter
<1>10. r \in b
  BY DEF First
<1>11. svp.statement \in held \cup {None} /\ svp.transaction \in held \cup {None}
  <2>1. ASSUME NEW u \in Seq(TicketIds) PROVE FrontOf(u) \in ToSet(u) \cup {None}
    <3>1. CASE u # <<>>
      <4>1. 1 \in 1 .. Len(u) /\ Head(u) = u[1]
        BY <3>1
      <4>. QED BY <3>1, <4>1, ToSetFacts DEF FrontOf
    <3>. QED BY <3>1 DEF FrontOf
  <2>2. /\ m_tickets[c]["statement"] \in Seq(TicketIds)
        /\ m_tickets[c]["transaction"] \in Seq(TicketIds)
        /\ ToSet(m_tickets[c]["statement"]) \subseteq held
        /\ ToSet(m_tickets[c]["transaction"]) \subseteq held
    BY <1>3, OneListFacts
  <2>3. /\ svp.statement = FrontOf(m_tickets[c]["statement"])
        /\ svp.transaction = FrontOf(m_tickets[c]["transaction"])
    BY <1>2 DEF MDLSavepoint
  <2>. QED BY <2>1, <2>2, <2>3
<1>12. ToSet(AcquiredAfter(c, svp)') = {}
  BY <1>2, <1>9, NothingAcquired
<1>13. BatchOK(c, cl, cl.rest \cup {cl.req})'
  BY <1>7, <1>9, <1>10, <1>11, <1>12 DEF BatchOK
<1>. QED BY <1>8, <1>13 DEF BatchStep, BatchInv, Returns

(* The operation of a call stays what it is until it is over.              *)
LEMMA AttemptOp ==
  ASSUME Structure, NEW c \in Contexts, NEW cl, Asking(c, cl), Attempt(c, cl)
  PROVE  call'[c].op \in {cl.op, "none"}
<1>1. call \in [Contexts -> CallSet] /\ cl \in CallSet
  BY DEF Structure, Types, TypeOK, Asking, CallOK
<1>2. ASSUME NEW new, call' = [call EXCEPT ![c] = new] PROVE call'[c] = new
  BY <1>1, <1>2
<1>3. NoCall.op = "none"
  BY DEF NoCall
<1>4. ASSUME NEW id, call' = [call EXCEPT ![c] = [cl EXCEPT !.mine = id]]
      PROVE  call'[c].op = cl.op
  <2>1. [cl EXCEPT !.mine = id].op = cl.op
    BY <1>1 DEF CallSet
  <2>. QED BY <1>2, <1>4, <2>1
<1>5. ASSUME NEW id, Satisfied(c, cl, id) PROVE call'[c].op \in {cl.op, "none"}
  <2>1. CASE \E r : call' =
          [call EXCEPT ![c] = [cl EXCEPT !.req = r, !.mine = None, !.rest = @ \ {r}]]
    <3>1. PICK r : call' =
            [call EXCEPT ![c] = [cl EXCEPT !.req = r, !.mine = None, !.rest = @ \ {r}]]
      BY <2>1
    <3>2. [cl EXCEPT !.req = r, !.mine = None, !.rest = @ \ {r}].op = cl.op
      BY <1>1 DEF CallSet
    <3>. QED BY <1>2, <3>1, <3>2
  <2>. QED BY <1>2, <1>3, <1>4, <1>5, <2>1 DEF Satisfied
<1>6. CASE Refused(c, cl)
  BY <1>2, <1>3, <1>6 DEF Refused, Failed
<1>. QED BY <1>4, <1>5, <1>6
     DEF Attempt, ReuseTicket, CloneTicket, GrantAtOnce, Conflict, OutOfMemory, Enqueue

LEMMA AcquireNextBatch ==
  ASSUME Structure, NoExplicitBatch, NEW c \in Contexts, BatchInv(c), AcquireNext(c)
  PROVE  BatchStep(c)
<1>1. PICK cl : cl = call[c]
  OBVIOUS
<1>2. /\ pc[c] = "ask" /\ Attempt(c, cl) /\ CallOK(c, cl) /\ AtSavepoint(c, cl)
      /\ release[c] = <<>> /\ cl \in CallSet
      /\ ticket \in [TicketIds -> MDLTicket \cup {None}] /\ call \in [Contexts -> CallSet]
  BY <1>1 DEF AcquireNext, At, Structure, SelfInv, CallInv, CallOK, Types, TypeOK
<1>3. CASE cl.op # "batch"
  <2>1. Asking(c, cl)
    BY <1>2 DEF Asking
  <2>2. call'[c].op # "batch"
    BY <1>2, <1>3, <2>1, AttemptOp
  <2>. QED BY <1>1, <1>3, <2>2 DEF BatchStep, BatchInv, Returns
<1>. SUFFICES ASSUME cl.op = "batch" PROVE BatchStep(c)
  BY <1>3
<1>4. BatchOK(c, cl, cl.rest \cup {cl.req})
  BY <1>1, <1>2 DEF BatchInv
<1>5. CASE ReuseTicket(c, cl)
  <2>1. /\ IsLockOwner(c, cl.req.key, cl.req.type) /\ Satisfied(c, cl, FindTicket(c, cl.req))
        /\ UNCHANGED <<ticket, m_tickets, release>>
    BY <1>5 DEF ReuseTicket, own
  <2>2. cl.req.dur \in Durations
    BY <1>2 DEF CallOK, MDLRequest
  <2>3. \A d \in Durations : m_tickets[c][d] \in Seq(TicketIds)
    BY TypeFacts DEF Structure
  <2>4. Covered(c, cl.req)
    BY <2>1, <2>2, <2>3, FindTicketFacts, HeldDef DEF Covered
  <2>5. BatchOK(c, cl, cl.rest)
    BY <1>4, <2>4 DEF BatchOK
  <2>6. Held(c)' = Held(c) /\ AcquiredAfter(c, cl.svp)' = AcquiredAfter(c, cl.svp)
    BY <2>1 DEF Held, AcquiredAfter
  <2>7. ASSUME NEW r, Covered(c, r) PROVE Covered(c, r)'
    BY <2>1, <2>6, <2>7 DEF Covered, Scoped
  <2>8. BatchOK(c, cl, cl.rest)'
    BY <2>5, <2>6, <2>7 DEF BatchOK
  <2>. QED BY <1>1, <1>2, <2>1, <2>8, SatisfiedBatch
<1>6. ASSUME CloneTicket(c, cl) \/ GrantAtOnce(c, cl) PROVE BatchStep(c)
  <2>1. PICK id : id = NewTicket(c)
    OBVIOUS
  <2>2. Free(c) # {}
    BY <1>6 DEF CloneTicket, GrantAtOnce, GotLock
  <2>3. id \in TicketIds /\ Ctx(id) = c /\ ticket[id] = None
    BY <2>1, <2>2, NewTicketFacts
  <2>4. id \notin Held(c)
    BY <2>3, HeldFacts
  <2>5. PICK t : t.key = cl.req.key /\ t.type = cl.req.type /\ ticket' = [ticket EXCEPT ![id] = t]
    <3>1. CASE CloneTicket(c, cl)
      <4>1. PICK n : n = ticket[FindTicket(c, cl.req)].nowait
        OBVIOUS
      <4>2. PICK t : t = [key |-> cl.req.key, type |-> cl.req.type, nowait |-> n]
        OBVIOUS
      <4>. QED BY <2>1, <3>1, <4>1, <4>2 DEF CloneTicket
    <3>2. CASE GrantAtOnce(c, cl)
      <4>1. PICK t : t = [key |-> cl.req.key, type |-> cl.req.type, nowait |-> FALSE]
        OBVIOUS
      <4>. QED BY <2>1, <3>2, <4>1 DEF GrantAtOnce
    <3>. QED BY <1>6, <3>1, <3>2
  <2>6. ticket'[id] = t /\ \A i \in TicketIds : i # id => ticket'[i] = ticket[i]
    BY <1>2, <2>3, <2>5
  <2>7. /\ PushFront(c, cl.req.dur, id) /\ UNCHANGED release
        /\ \/ Satisfied(c, cl, id)
           \/ Goto(c, "mark") /\ call' = [call EXCEPT ![c] = [cl EXCEPT !.mine = id]]
    BY <1>6, <2>1 DEF CloneTicket, GrantAtOnce
  <2>8. BatchOK(c, cl, cl.rest)'
    BY <1>2, <1>4, <2>3, <2>4, <2>5, <2>6, <2>7, GainedBatch
  <2>9. CASE Satisfied(c, cl, id)
    BY <1>1, <1>2, <2>7, <2>8, <2>9, SatisfiedBatch
  <2>10. CASE Goto(c, "mark") /\ call' = [call EXCEPT ![c] = [cl EXCEPT !.mine = id]]
    <3>1. PICK new : new = [cl EXCEPT !.mine = id]
      OBVIOUS
    <3>2. /\ new.op = cl.op /\ new.svp = cl.svp /\ new.req = cl.req /\ new.rest = cl.rest
          /\ new.asked = cl.asked /\ new.held = cl.held
      BY <1>2, <3>1 DEF CallSet
    <3>3. call'[c] = new /\ pc'[c] = "mark"
      BY <1>2, <2>10, <3>1, GotoFacts
    <3>4. BatchOK(c, new, new.rest)'
      BY <2>8, <3>2 DEF BatchOK, AcquiredAfter
    <3>. QED BY <3>2, <3>3, <3>4 DEF BatchStep, BatchInv, Returns
  <2>. QED BY <2>7, <2>9, <2>10
<1>7. ASSUME Refused(c, cl) PROVE BatchStep(c)
  BY <1>1, <1>4, <1>7, FailedBatch DEF Refused
<1>8. CASE Enqueue(c, cl)
  <2>1. PICK id : id = NewTicket(c)
    OBVIOUS
  <2>2. PICK t : t = [key |-> cl.req.key, type |-> cl.req.type, nowait |-> cl.req.nowait]
    OBVIOUS
  <2>3. /\ Free(c) # {} /\ ticket' = [ticket EXCEPT ![id] = t] /\ m_tickets' = m_tickets
        /\ call' = [call EXCEPT ![c] = [cl EXCEPT !.mine = id]] /\ Goto(c, "queued")
    BY <1>8, <2>1, <2>2 DEF Enqueue, GotLock, own
  <2>4. id \in TicketIds /\ ticket[id] = None
    BY <2>1, <2>3, NewTicketFacts
  <2>5. \A i \in Held(c) : ticket'[i] = ticket[i]
    BY <1>2, <2>3, <2>4, HeldFacts
  <2>6. Held(c)' = Held(c) /\ AcquiredAfter(c, cl.svp)' = AcquiredAfter(c, cl.svp)
    BY <2>3 DEF Held, AcquiredAfter
  <2>7. ASSUME NEW r, Covered(c, r) PROVE Covered(c, r)'
    BY <2>5, <2>6, <2>7 DEF Covered, Scoped
  <2>8. BatchOK(c, cl, cl.rest \cup {cl.req})'
    BY <1>4, <2>6, <2>7 DEF BatchOK
  <2>9. PICK new : new = [cl EXCEPT !.mine = id]
    OBVIOUS
  <2>10. /\ new.op = cl.op /\ new.svp = cl.svp /\ new.req = cl.req /\ new.rest = cl.rest
         /\ new.asked = cl.asked /\ new.held = cl.held
    BY <1>2, <2>9 DEF CallSet
  <2>11. call'[c] = new /\ pc'[c] = "queued"
    BY <1>2, <2>3, <2>9, GotoFacts
  <2>12. BatchOK(c, new, new.rest \cup {new.req})'
    BY <2>8, <2>10 DEF BatchOK, AcquiredAfter
  <2>. QED BY <2>10, <2>11, <2>12 DEF BatchStep, BatchInv, Returns
<1>. QED BY <1>2, <1>5, <1>6, <1>7, <1>8 DEF Attempt, Conflict, OutOfMemory

(* A call that is not acquire_locks() has nothing to do with it.           *)
LEMMA SatisfiedOp ==
  ASSUME Structure, NEW c \in Contexts, NEW cl, cl = call[c], cl.op # "batch", NEW id,
         Satisfied(c, cl, id)
  PROVE  BatchStep(c)
<1>1. call \in [Contexts -> CallSet] /\ cl \in CallSet
  BY DEF Structure, Types, TypeOK
<1>2. CASE cl.op = "upgrade"
  <2>1. call' = [call EXCEPT ![c] = [cl EXCEPT !.mine = id]]
    BY <1>2 DEF Satisfied
  <2>2. [cl EXCEPT !.mine = id].op = cl.op
    BY <1>1 DEF CallSet
  <2>3. call'[c].op = cl.op
    BY <1>1, <2>1, <2>2
  <2>. QED BY <2>3 DEF BatchStep, BatchInv, Returns
<1>3. CASE cl.op # "upgrade"
  <2>1. call' = [call EXCEPT ![c] = NoCall]
    BY <1>3 DEF Satisfied
  <2>2. call'[c].op = "none"
    BY <1>1, <2>1 DEF NoCall
  <2>. QED BY <2>2 DEF BatchStep, BatchInv, Returns
<1>. QED BY <1>2, <1>3

LEMMA MarkNoWaitBatch ==
  ASSUME Structure, NEW c \in Contexts, BatchInv(c), MarkNoWait(c)
  PROVE  BatchStep(c)
<1>1. PICK cl : cl = call[c]
  OBVIOUS
<1>2. PICK id : id = cl.mine
  OBVIOUS
<1>3. /\ pc[c] = "mark" /\ ticket' = [ticket EXCEPT ![id].nowait = TRUE]
      /\ Satisfied(c, cl, id) /\ UNCHANGED <<m_tickets, release>>
  BY <1>1, <1>2 DEF MarkNoWait, At, own
<1>4. /\ CallOK(c, cl) /\ release[c] = <<>> /\ id \in Held(c) /\ cl \in CallSet
      /\ ticket \in [TicketIds -> MDLTicket \cup {None}] /\ call \in [Contexts -> CallSet]
  BY <1>1, <1>2, <1>3 DEF Structure, SelfInv, CallInv, CallOK, Types, TypeOK
<1>5. id \in TicketIds /\ ticket[id] \in MDLTicket /\ Held(c) \subseteq TicketIds
  BY <1>4, HeldFacts, OneListFacts
<1>6. \A i \in Held(c) : ticket'[i].key = ticket[i].key /\ ticket'[i].type = ticket[i].type
  <2>1. PICK t : t = [ticket[id] EXCEPT !.nowait = TRUE]
    OBVIOUS
  <2>2. t.key = ticket[id].key /\ t.type = ticket[id].type
    BY <1>5, <2>1 DEF MDLTicket
  <2>3. ticket' = [ticket EXCEPT ![id] = t]
    BY <1>3, <2>1
  <2>. QED BY <1>4, <1>5, <2>2, <2>3
<1>7. CASE cl.op # "batch"
  BY <1>1, <1>3, <1>7, SatisfiedOp
<1>8. CASE cl.op = "batch"
  <2>1. BatchOK(c, cl, cl.rest)
    BY <1>1, <1>3, <1>8 DEF BatchInv
  <2>2. Held(c)' = Held(c) /\ AcquiredAfter(c, cl.svp)' = AcquiredAfter(c, cl.svp)
    BY <1>3 DEF Held, AcquiredAfter
  <2>3. ASSUME NEW r, Covered(c, r) PROVE Covered(c, r)'
    BY <1>6, <2>2, <2>3 DEF Covered, Scoped
  <2>4. BatchOK(c, cl, cl.rest)'
    BY <2>1, <2>2, <2>3 DEF BatchOK
  <2>. QED BY <1>1, <1>3, <1>4, <1>8, <2>4, SatisfiedBatch
<1>. QED BY <1>7, <1>8

LEMMA WaitGrantedBatch ==
  ASSUME Structure, NoExplicitBatch, NEW c \in Contexts, BatchInv(c), WaitGranted(c)
  PROVE  BatchStep(c)
<1>1. PICK cl : cl = call[c]
  OBVIOUS
<1>2. PICK id : id = cl.mine
  OBVIOUS
<1>3. /\ pc[c] = "finish" /\ PushFront(c, cl.req.dur, id) /\ Satisfied(c, cl, id)
      /\ UNCHANGED <<ticket, release>>
  BY <1>1, <1>2 DEF WaitGranted, At
<1>4. Queued(c)
  BY <1>3 DEF Queued
<1>5. CallOK(c, cl) /\ release[c] = <<>> /\ IsFor(id, cl) /\ id \notin Held(c)
  BY <1>1, <1>2, <1>3, <1>4 DEF Structure, SelfInv, CallInv, ListsInv
<1>6. CASE cl.op # "batch"
  BY <1>1, <1>3, <1>6, SatisfiedOp
<1>7. CASE cl.op = "batch"
  <2>1. BatchOK(c, cl, cl.rest \cup {cl.req})
    BY <1>1, <1>3, <1>7 DEF BatchInv
  <2>2. BatchOK(c, cl, cl.rest)'
    BY <1>3, <1>5, <2>1, GainedBatch DEF IsFor
  <2>. QED BY <1>1, <1>3, <1>5, <1>7, <2>2, SatisfiedBatch
<1>. QED BY <1>6, <1>7

LEMMA WaitFailedBatch ==
  ASSUME Structure, NEW c \in Contexts, BatchInv(c), WaitFailed(c)
  PROVE  BatchStep(c)
<1>1. PICK cl : cl = call[c]
  OBVIOUS
<1>2. pc[c] = "finish" /\ Failed(c, cl) /\ m_tickets' = m_tickets
  BY <1>1 DEF WaitFailed, At
<1>3. CASE cl.op # "batch"
  <2>1. call \in [Contexts -> CallSet]
    BY DEF Structure, Types, TypeOK
  <2>2. call'[c].op = "none"
    BY <1>2, <2>1 DEF Failed, NoCall
  <2>. QED BY <1>1, <1>3, <2>2 DEF BatchStep, BatchInv, Returns
<1>4. CASE cl.op = "batch"
  <2>1. BatchOK(c, cl, cl.rest \cup {cl.req})
    BY <1>1, <1>2, <1>4 DEF BatchInv
  <2>. QED BY <1>1, <1>2, <1>4, <2>1, FailedBatch
<1>. QED BY <1>3, <1>4

-----------------------------------------------------------------------------
(* All steps together.                                                     *)

(* The steps of c that have nothing to do with acquire_locks().            *)
LEMMA RunningBatch ==
  ASSUME Structure, NEW c \in Contexts, pc[c] \in {"run", "resched"}, call' = call
  PROVE  BatchStep(c)
<1>1. CallInv(c)
  BY DEF Structure, SelfInv
<1>2. call[c].op # "batch" /\ call'[c].op # "batch"
  BY <1>1 DEF CallInv, NoCall
<1>. QED BY <1>2 DEF BatchStep, BatchInv, Returns

LEMMA QuietBatch ==
  ASSUME Structure, NEW c \in Contexts, BatchInv(c), UNCHANGED <<ticket, m_tickets, call>>,
         pc'[c] = "mark" <=> pc[c] = "mark"
  PROVE  BatchStep(c)
BY BatchKept

LEMMA CallerBatch ==
  ASSUME Structure, NEW c \in Contexts, BatchInv(c), Caller(c)
  PROVE  BatchStep(c)
<1>1. CASE \E b \in Batches : AcquireLocks(c, b)
  BY <1>1, AcquireLocksBatch
<1>2. ASSUME NEW cl, cl.op # "batch", Asking(c, cl), Attempt(c, cl), Idle(c)
      PROVE  BatchStep(c)
  <2>1. call[c].op # "batch"
    BY <1>2 DEF Structure, SelfInv, CallInv, NoCall, Idle, At
  <2>2. call'[c].op # "batch"
    BY <1>2, AttemptOp
  <2>. QED BY <2>1, <2>2 DEF BatchStep, BatchInv, Returns
<1>3. ASSUME NEW r \in Requests, NEW op \in {"acquire", "try"}, AcquireLock(c, op, r)
      PROVE  BatchStep(c)
  <2>1. PICK cl : cl.op # "batch" /\ Asking(c, cl) /\ Attempt(c, cl)
    BY <1>3, AcquireLockAsks
  <2>. QED BY <1>2, <1>3, <2>1 DEF AcquireLock
<1>4. ASSUME NEW id \in Held(c), UpgradeSharedLock(c, id) PROVE BatchStep(c)
  <2>1. PICK cl : cl.op # "batch" /\ Asking(c, cl) /\ Attempt(c, cl)
    BY <1>4, UpgradeSharedLockAsks
  <2>. QED BY <1>2, <1>4, <2>1 DEF UpgradeSharedLock
<1>5. \/ \E b \in Batches : AcquireLocks(c, b)
      \/ \E r \in Requests, op \in {"acquire", "try"} : AcquireLock(c, op, r)
      \/ \E id \in Held(c) : UpgradeSharedLock(c, id)
      \/ Idle(c) /\ call' = call
  BY DEF Caller, DowngradeExclusiveLock, ReleaseLock, ReleaseAllLocksForName,
         ReleaseStatementLocks, SetSavepoint, RollbackToSavepoint, SetLockDuration,
         SetExplicitDurationForAllLocks, SetTransactionDurationForAllLocks, StartRelease,
         SetTickets
<1>. QED BY <1>1, <1>3, <1>4, <1>5, RunningBatch DEF Idle, At

LEMMA ContinueBatch ==
  ASSUME Structure, NoExplicitBatch, NEW c \in Contexts, BatchInv(c), Continue(c)
  PROVE  BatchStep(c)
<1>1. CASE WillWaitFor(c) \/ DoneWaitingFor(c) \/ Search(c) \/ SetVictim(c)
  <2>1. \E l \in {"search", "finish", "wait", "victim"} : Goto(c, l)
    BY <1>1 DEF WillWaitFor, DoneWaitingFor, Search, SetVictim
  <2>2. pc[c] # "mark" /\ UNCHANGED <<ticket, m_tickets, call>>
    BY <1>1 DEF WillWaitFor, DoneWaitingFor, Search, SetVictim, At, own
  <2>. QED BY <2>1, <2>2, GotoFacts, QuietBatch
<1>2. CASE Merge(c)
  <2>1. pc[c] = "merge" /\ call' = [call EXCEPT ![c] = NoCall]
    BY <1>2 DEF Merge, At
  <2>2. call[c].op = "upgrade" /\ call \in [Contexts -> CallSet]
    BY <2>1 DEF Structure, SelfInv, CallInv, Types, TypeOK
  <2>3. call'[c].op = "none"
    BY <2>1, <2>2 DEF NoCall
  <2>. QED BY <2>2, <2>3 DEF BatchStep, BatchInv, Returns
<1>3. CASE ReleaseNext(c) \/ RescheduleNext(c) \/ RescheduleEnd(c)
  <2>1. pc[c] \in {"run", "resched"} /\ call' = call
    BY <1>3 DEF ReleaseNext, RescheduleNext, RescheduleEnd, At
  <2>. QED BY <2>1, RunningBatch
<1>. QED BY <1>1, <1>2, <1>3, AcquireNextBatch, MarkNoWaitBatch, WaitFailedBatch,
       WaitGrantedBatch DEF Continue

(* A step of s leaves the calls and the lists of the others alone.         *)
LEMMA CallsOfOthers ==
  ASSUME Structure, NEW s \in Contexts, Caller(s) \/ Continue(s), NEW d \in Contexts \ {s}
  PROVE  call'[d] = call[d] /\ m_tickets'[d] = m_tickets[d]
<1>1. /\ call \in [Contexts -> CallSet]
      /\ m_tickets \in [Contexts -> [Durations -> Seq(TicketIds)]]
  BY DEF Structure, Types, TypeOK
<1>2. ASSUME NEW new, call' = [call EXCEPT ![s] = new] PROVE call'[d] = call[d]
  BY <1>1, <1>2
<1>3. ASSUME NEW new, m_tickets' = [m_tickets EXCEPT ![s] = new]
      PROVE  m_tickets'[d] = m_tickets[d]
  BY <1>1, <1>3
<1>4. ASSUME NEW cl, NEW id, Satisfied(s, cl, id) PROVE call'[d] = call[d]
  BY <1>2, <1>4 DEF Satisfied
<1>5. ASSUME NEW cl, Failed(s, cl) PROVE call'[d] = call[d]
  BY <1>2, <1>5 DEF Failed
<1>6. ASSUME NEW e, NEW id, PushFront(s, e, id) PROVE m_tickets'[d] = m_tickets[d]
  BY <1>1, <1>6 DEF PushFront
<1>7. ASSUME NEW cl, Attempt(s, cl) PROVE call'[d] = call[d] /\ m_tickets'[d] = m_tickets[d]
  <2>1. CASE ReuseTicket(s, cl)
    BY <1>4, <2>1 DEF ReuseTicket, own
  <2>2. CASE CloneTicket(s, cl)
    BY <1>4, <1>6, <2>2 DEF CloneTicket
  <2>3. CASE GrantAtOnce(s, cl)
    <3>1. /\ PushFront(s, cl.req.dur, NewTicket(s))
          /\ \/ Satisfied(s, cl, NewTicket(s))
             \/ call' = [call EXCEPT ![s] = [cl EXCEPT !.mine = NewTicket(s)]]
      BY <2>3 DEF GrantAtOnce
    <3>. QED BY <1>2, <1>4, <1>6, <3>1
  <2>4. CASE Refused(s, cl)
    BY <1>5, <2>4 DEF Refused
  <2>5. CASE Enqueue(s, cl)
    BY <1>2, <2>5 DEF Enqueue, own
  <2>. QED BY <1>7, <2>1, <2>2, <2>3, <2>4, <2>5 DEF Attempt, Conflict, OutOfMemory
<1>8. CASE Caller(s)
  <2>1. \/ \E cl : Attempt(s, cl)
        \/ call' = call /\ m_tickets' = m_tickets
        \/ call' = call /\ \E lists : SetTickets(s, lists)
        \/ \E b \in Batches : AcquireLocks(s, b)
    BY <1>8, AcquireLockAsks, UpgradeSharedLockAsks
       DEF Caller, DowngradeExclusiveLock, ReleaseLock, ReleaseAllLocksForName,
           ReleaseStatementLocks, SetSavepoint, RollbackToSavepoint, SetLockDuration,
           SetExplicitDurationForAllLocks, SetTransactionDurationForAllLocks, StartRelease,
           SetTickets, own
  <2>2. ASSUME NEW b, AcquireLocks(s, b) PROVE call'[d] = call[d] /\ m_tickets' = m_tickets
    BY <1>2, <2>2 DEF AcquireLocks, own
  <2>3. ASSUME NEW lists, SetTickets(s, lists) PROVE m_tickets'[d] = m_tickets[d]
    BY <1>3, <2>3 DEF SetTickets
  <2>. QED BY <1>7, <2>1, <2>2, <2>3
<1>9. CASE Continue(s)
  <2>1. CASE AcquireNext(s)
    BY <1>7, <2>1 DEF AcquireNext
  <2>2. CASE MarkNoWait(s)
    BY <1>4, <2>2 DEF MarkNoWait, own
  <2>3. CASE \/ WillWaitFor(s) \/ Search(s) \/ SetVictim(s) \/ DoneWaitingFor(s)
             \/ RescheduleNext(s) \/ RescheduleEnd(s)
    BY <2>3 DEF WillWaitFor, Search, SetVictim, DoneWaitingFor, RescheduleNext,
                RescheduleEnd, own
  <2>4. CASE WaitFailed(s)
    BY <1>5, <2>4 DEF WaitFailed
  <2>5. CASE WaitGranted(s)
    BY <1>4, <1>6, <2>5 DEF WaitGranted
  <2>6. CASE Merge(s)
    <3>1. /\ call' = [call EXCEPT ![s] = NoCall]
          /\ \/ m_tickets' = m_tickets
             \/ m_tickets' = [m_tickets EXCEPT ![s]["transaction"] =
                                RemoveFirst(@, call[s].mine)]
      BY <2>6 DEF Merge
    <3>. QED BY <1>1, <1>2, <3>1
  <2>7. CASE ReleaseNext(s)
    BY <1>3, <2>7 DEF ReleaseNext
  <2>. QED BY <1>9, <2>1, <2>2, <2>3, <2>4, <2>5, <2>6, <2>7 DEF Continue
<1>. QED BY <1>8, <1>9

LEMMA BatchNext ==
  ASSUME Structure, NoExplicitBatch, NEW c \in Contexts, BatchInv(c), [Next]_vars
  PROVE  BatchStep(c)
<1>1. CASE UNCHANGED vars
  <2>1. UNCHANGED <<ticket, m_tickets, call, pc>>
    BY <1>1 DEF vars, own
  <2>. QED BY <2>1, QuietBatch
<1>2. ASSUME NEW s \in Contexts, Caller(s) \/ Continue(s), c # s PROVE BatchStep(c)
  <2>1. call'[c] = call[c] /\ m_tickets'[c] = m_tickets[c]
    BY <1>2, CallsOfOthers
  <2>2. pc'[c] = pc[c] /\ OwnTicketsOnly(s)
    <3>1. CASE Moves(s)
      BY <1>2, <3>1 DEF Moves
    <3>2. CASE WillWaitFor(s) \/ DoneWaitingFor(s) \/ Search(s) \/ SetVictim(s)
      <4>1. \E l : Goto(s, l)
        BY <3>2 DEF WillWaitFor, DoneWaitingFor, Search, SetVictim
      <4>2. UNCHANGED <<ticket, lock>>
        BY <3>2 DEF WillWaitFor, DoneWaitingFor, Search, SetVictim
      <4>3. OwnTicketsOnly(s)
        BY <4>2 DEF OwnTicketsOnly, lock, WaitingOn
      <4>. QED BY <1>2, <4>1, <4>3, GotoFacts
    <3>. QED BY <1>2, <3>1, <3>2, CallerMoves, ContinueMoves
  <2>3. \A id \in Held(c) : ticket'[id] = ticket[id]
    BY <1>2, <2>2, HeldFacts DEF OwnTicketsOnly
  <2>. QED BY <2>1, <2>2, <2>3, BatchKept
<1>3. ASSUME NEW s \in Contexts, NEW status, InterruptWait(s, status) PROVE BatchStep(c)
  <2>1. UNCHANGED <<ticket, m_tickets, call, pc>>
    BY <1>3 DEF InterruptWait, own
  <2>. QED BY <2>1, QuietBatch
<1>4. ASSUME NEW s \in Contexts, ReleaseTransactionalLocks(s) PROVE BatchStep(c)
  <2>1. UNCHANGED <<ticket, m_tickets, call, pc>>
    BY <1>4 DEF ReleaseTransactionalLocks, StartRelease
  <2>. QED BY <2>1, QuietBatch
<1>. QED BY <1>1, <1>2, <1>3, <1>4, CallerBatch, ContinueBatch DEF Next

(* acquire_locks() is all or nothing for any number of connections, names  *)
(* and requests, whatever the caller holds already and whatever else it    *)
(* does between two calls: whichever request fails, and however the answer *)
(* arrives, rollback_to_savepoint() gives back what the earlier ones got   *)
(* and nothing else.  The requests are of statement and transaction        *)
(* duration, as all callers pass: a rollback keeps explicit tickets.       *)
THEOREM AcquireLocksAllOrNothing ==
  ASSUME NoExplicitBatch PROVE Spec => AllOrNothing
<1>. DEFINE Inv == \A c \in Contexts : BatchInv(c)
            Safe == \A c \in Contexts : Returns(c)
<1>1. Init => Inv
  <2>. SUFFICES ASSUME Init, NEW c \in Contexts PROVE BatchInv(c)
    OBVIOUS
  <2>1. call[c].op = "none"
    BY DEF Init, NoCall
  <2>. QED BY <2>1 DEF BatchInv
<1>2. Structure /\ Inv /\ [Next]_vars => Inv'
  BY BatchNext DEF BatchStep
<1>3. Structure /\ Inv /\ [Next]_vars => [Safe]_vars
  BY BatchNext DEF BatchStep
<1>4. Safe <=> \A c \in Contexts : call[c].op = "batch" /\ call'[c].op # "batch" =>
        LET kept == Held(c)' \ ToSet(release'[c])
        IN \/ kept = call[c].held
           \/ /\ call[c].held \subseteq kept
              /\ \A r \in call[c].asked : \E id \in kept :
                   /\ ticket'[id].key = r.key
                   /\ HasStrongerOrEqualType(Scoped(r.key), ticket'[id].type, r.type)
  BY DEF Returns
<1>. HIDE DEF Inv, Safe
<1>. QED BY <1>1, <1>2, <1>3, <1>4, StructureInvariant, PTL DEF Spec, AllOrNothing
=============================================================================
