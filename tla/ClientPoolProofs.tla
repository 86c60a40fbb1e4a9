-------------------------- MODULE ClientPoolProofs --------------------------
(***************************************************************************)
(* A session has one owner and is never forgotten, for every number of     *)
(* sessions and callers and every size of the pool.                        *)
(*                                                                         *)
(* The argument counts tokens: the notification remove_stream_by_id sends  *)
(* turns into the receiving task, the pool's entry, the caller that takes  *)
(* it and the stream reserved by it, and is never doubled.                 *)
(***************************************************************************)
EXTENDS ClientPool, FiniteSetTheorems, TLAPS

\* A call refers to a session from take_idle or create_session on.
CallsOK ==
  \A c \in Callers :
    call[c].pc \in {"reserve", "run", "fresh", "open", "failed", "using"} => call[c].ses \in Sessions

\* What the properties say of one session, and that nobody has it before it is made.
Owned(s) ==
  /\ Places(s) <= 1
  /\ \A c \in Callers :
       Holds(c, s) => Places(s) = 0 /\ \A d \in Callers : Holds(d, s) => d = c
  /\ ses[s].state = "none" => Places(s) = 0 /\ \A c \in Callers : ~Holds(c, s)
  /\ s \notin lost /\ ~closing /\ Made(s) /\ Usable(s) =>
       Places(s) = 1 \/ \E c \in Callers : Holds(c, s)

\* The inductive invariant.
Inv == TypeOK /\ CallsOK /\ \A s \in Sessions : Owned(s)

\* Tokens are counted in natural numbers.
LEMMA TokensType == \A r \in SessionType : Tokens(r) \in Nat /\ r.notes \in Nat
<1> SUFFICES ASSUME NEW r \in SessionType PROVE Tokens(r) \in Nat /\ r.notes \in Nat
  OBVIOUS
<1>1. r.notes \in Nat
  BY DEF SessionType
<1>. QED  BY <1>1 DEF Tokens

\* What a state is made of.
LEMMA Parts ==
  ASSUME TypeOK, NEW s \in Sessions
  PROVE  /\ ses[s] \in SessionType /\ pool[s] \in Nat /\ Tokens(ses[s]) \in Nat /\ Places(s) \in Nat
<1>1. ses[s] \in SessionType /\ pool[s] \in Nat
  BY DEF TypeOK
<1>. QED  BY <1>1, TokensType DEF Places

\* A session keeps its owner in a step that no holder of it takes part in, when it keeps
\* its token, closes, or the client closes.
LEMMA OwnedFrame ==
  ASSUME NEW s \in Sessions, Owned(s), Places(s) \in Nat, Places(s)' \in Nat,
         Places(s)' <= Places(s), \A c \in Callers : Holds(c, s)' <=> Holds(c, s),
         ses'[s].state = ses[s].state, ses[s].closed => ses'[s].closed,
         ses[s].expired => ses'[s].expired, closing => closing', lost \subseteq lost',
         ses'[s].closed \/ closing' \/ Places(s)' = Places(s)
  PROVE  Owned(s)'
<1>1. Places(s)' <= 1
  BY DEF Owned
<1>2. ASSUME NEW c \in Callers, Holds(c, s)'
      PROVE  Places(s)' = 0 /\ \A d \in Callers : Holds(d, s)' => d = c
  BY <1>2 DEF Owned
<1>3. ses'[s].state = "none" => Places(s)' = 0 /\ \A c \in Callers : ~Holds(c, s)'
  BY DEF Owned
<1>4. ASSUME s \notin lost', ~closing', Made(s)', Usable(s)'
      PROVE  Places(s)' = 1 \/ \E c \in Callers : Holds(c, s)'
  <2>1. s \notin lost /\ ~closing /\ Made(s) /\ Usable(s) /\ Places(s)' = Places(s)
    BY <1>4 DEF Made, Usable
  <2>2. Places(s) = 1 \/ \E c \in Callers : Holds(c, s)
    BY <1>4, <2>1 DEF Owned
  <2>. QED  BY <2>1, <2>2
<1>. QED  BY <1>1, <1>2, <1>3, <1>4 DEF Owned

\* Who holds what after a call has moved on.
LEMMA HoldsAfter ==
  ASSUME call \in [Callers -> CallType], NEW c \in Callers, NEW v, call' = [call EXCEPT ![c] = v],
         NEW d \in Callers, NEW s
  PROVE  Holds(d, s)' <=> IF d = c THEN v.pc \in {"reserve", "run", "fresh"} /\ v.ses = s
                          ELSE Holds(d, s)
<1>1. call'[d] = IF d = c THEN v ELSE call[d]
  OBVIOUS
<1>. QED  BY <1>1 DEF Holds

\* A step of one session that passes its token on, or closes the session.
LEMMA SessionStepInv ==
  ASSUME Inv, NEW s \in Sessions, NEW r \in SessionType,
         ses' = [ses EXCEPT ![s] = r], UNCHANGED <<pool, closing, drain, lost>>,
         call' \in [Callers -> CallType], CallsOK',
         \A c \in Callers, t \in Sessions : Holds(c, t)' <=> Holds(c, t),
         Tokens(r) <= Tokens(ses[s]), r.closed \/ closing \/ Tokens(r) = Tokens(ses[s]),
         r.state = ses[s].state, ses[s].closed => r.closed, ses[s].expired => r.expired
  PROVE  Inv'
<1>1. TypeOK'
  BY DEF Inv, TypeOK
<1>2. \A t \in Sessions : ses'[t] = IF t = s THEN r ELSE ses[t]
  BY DEF Inv, TypeOK
<1>3. ASSUME NEW t \in Sessions PROVE Owned(t)'
  <2>1. Tokens(r) \in Nat /\ Tokens(ses[t]) \in Nat /\ pool[t] \in Nat /\ pool'[t] = pool[t]
    BY TokensType, Parts DEF Inv
  <2>2. /\ Places(t)' <= Places(t) /\ Places(t)' \in Nat /\ Places(t) \in Nat
        /\ ses'[t].state = ses[t].state
        /\ (ses[t].closed => ses'[t].closed) /\ (ses[t].expired => ses'[t].expired)
        /\ ses'[t].closed \/ closing \/ Places(t)' = Places(t)
    <3>1. CASE t = s
      BY <1>2, <2>1, <3>1 DEF Places
    <3>2. CASE t # s
      BY <1>2, <2>1, <3>2 DEF Places
    <3>. QED  BY <3>1, <3>2
  <2>3. Owned(t) /\ (closing => closing') /\ (closing' <=> closing)
    BY DEF Inv
  <2>. QED  BY <2>2, <2>3, OwnedFrame
<1>. QED  BY <1>1, <1>3 DEF Inv

\* remove_stream_by_id turns the stream's token into a notification, or closes the session.
LEMMA RemoveEffect ==
  ASSUME NEW q \in SessionType, NEW c \in Callers \cup {None}, c # None
  PROVE  LET r == Remove(q, c) IN
         /\ r \in SessionType /\ r.state = q.state /\ r.expired = q.expired
         /\ Tokens(r) <= Tokens(q) /\ (q.closed => r.closed) /\ (r.closed \/ Tokens(r) = Tokens(q))
<1> DEFINE a == Shutdown([q EXCEPT !.slot = None])
           b == [q EXCEPT !.slot = None, !.notes = @ + 1]
<1>1. q.notes \in Nat /\ q.notes + 1 \in Nat /\ Tokens(q) \in Nat
  BY TokensType
<1>2. /\ a \in SessionType /\ a.state = q.state /\ a.expired = q.expired /\ a.closed
      /\ a.task = q.task /\ a.reap = q.reap /\ a.slot = None /\ a.notes = q.notes
  BY Zenon DEF Shutdown, SessionType
<1>3. /\ b \in SessionType /\ b.state = q.state /\ b.expired = q.expired /\ b.closed = q.closed
      /\ b.task = q.task /\ b.reap = q.reap /\ b.slot = None /\ b.notes = q.notes + 1
  BY Zenon, <1>1 DEF SessionType
<1> HIDE DEF a, b
<1>4. CASE q.slot # c
  <2>1. Remove(q, c) = q
    BY <1>4 DEF Remove
  <2>. QED  BY <1>1, <2>1
<1>5. CASE q.slot = c /\ q.expired
  <2>1. Remove(q, c) = a
    BY <1>5 DEF Remove, a
  <2>2. Tokens(a) <= Tokens(q)
    BY <1>1, <1>2 DEF Tokens
  <2>. QED  BY <1>2, <2>1, <2>2
<1>6. CASE q.slot = c /\ ~q.expired
  <2>1. Remove(q, c) = b
    BY <1>6 DEF Remove, b
  <2>2. Tokens(b) = Tokens(q) /\ Tokens(b) <= Tokens(q)
    BY <1>1, <1>3, <1>6 DEF Tokens
  <2>. QED  BY <1>3, <2>1, <2>2
<1>. QED  BY <1>4, <1>5, <1>6

\* The steps of a session and of its tasks that leave the pool alone.
LEMMA SessionsInv ==
  ASSUME Inv, NEW s \in Sessions,
         \/ StreamEnds(s) \/ SessionCloses(s) \/ Drain(s) \/ Expire(s) \/ WaitExpiration(s)
         \/ Reap(s) \/ Watch(s) \/ ReceiveIdle(s) \/ CheckIdle(s)
  PROVE  Inv'
<1> DEFINE q == ses[s]
           Changed(r) == ses' = [ses EXCEPT ![s] = r]
<1>0. q \in SessionType
  BY DEF Inv, TypeOK
<1>1. /\ q.notes \in Nat /\ Tokens(q) \in Nat /\ Tokens(q) <= 1
      /\ q.task \in {"recv", "checked", "pool", "ended"} /\ q.slot \in Callers \cup {None}
  <2>1. Tokens(q) \in Nat /\ pool[s] \in Nat /\ Tokens(q) + pool[s] <= 1
    BY Parts DEF Inv, Owned, Places
  <2>. QED  BY <1>0, <2>1 DEF SessionType
<1>1a. UNCHANGED <<pool, call, closing, drain, lost>>
  BY DEF StreamEnds, SessionCloses, Drain, Expire, WaitExpiration, Reap, Watch, ReceiveIdle, CheckIdle
<1>2. /\ CallsOK' /\ call' \in [Callers -> CallType]
      /\ \A c \in Callers, t \in Sessions : Holds(c, t)' <=> Holds(c, t)
  BY <1>1a DEF Inv, TypeOK, CallsOK, Holds
<1>3. UNCHANGED <<pool, closing, drain, lost>>
  BY <1>1a
<1>4. Shutdown(q) \in SessionType /\ Shutdown(q) = [q EXCEPT !.closed = TRUE]
  BY Zenon, <1>0 DEF Shutdown, SessionType
<1>5. CASE StreamEnds(s)
  <2> DEFINE r == Remove(q, q.slot)
  <2>1. Changed(r) /\ q.slot # None
    BY <1>5 DEF StreamEnds
  <2>2. /\ r \in SessionType /\ r.state = q.state /\ r.expired = q.expired
        /\ Tokens(r) <= Tokens(q) /\ (q.closed => r.closed) /\ (r.closed \/ Tokens(r) = Tokens(q))
    BY <1>0, <1>1, <2>1, RemoveEffect
  <2> HIDE DEF r
  <2>. QED  BY Zenon, <1>2, <1>3, <2>1, <2>2, SessionStepInv
<1>6. CASE SessionCloses(s)
  <2> DEFINE r == Shutdown(q)
  <2>1. Changed(r)
    BY <1>6 DEF SessionCloses
  <2>2. /\ r \in SessionType /\ r.state = q.state /\ r.expired = q.expired /\ r.closed
        /\ r.task = q.task /\ r.reap = q.reap /\ r.slot = q.slot /\ r.notes = q.notes
    BY Zenon, <1>0 DEF Shutdown, SessionType
  <2>3. Tokens(r) <= Tokens(q) /\ Tokens(r) = Tokens(q)
    <3>1. Tokens(r) = Tokens(q)
      BY <2>2 DEF Tokens
    <3> HIDE DEF q, r
    <3>. QED  BY <1>1, <3>1
  <2> HIDE DEF r
  <2>. QED  BY Zenon, <1>1, <1>2, <1>3, <2>1, <2>2, <2>3, SessionStepInv
<1>7. CASE Drain(s)
  <2> DEFINE r == [q EXCEPT !.slot = None]
  <2>1. Changed(r) /\ q.closed
    BY <1>7 DEF Drain
  <2>2. /\ r \in SessionType /\ r.state = q.state /\ r.expired = q.expired /\ r.closed = q.closed
        /\ r.task = q.task /\ r.reap = q.reap /\ r.slot = None /\ r.notes = q.notes
    BY <1>0 DEF SessionType
  <2>3. Tokens(r) <= Tokens(q)
    <3> HIDE DEF q, r
    <3>. QED  BY <1>1, <2>2 DEF Tokens
  <2> HIDE DEF r
  <2>. QED  BY Zenon, <1>2, <1>3, <2>1, <2>2, <2>3, SessionStepInv
<1>8. CASE Expire(s)
  <2> DEFINE r == [q EXCEPT !.expired = TRUE]
  <2>1. Changed(r)
    BY <1>8 DEF Expire
  <2>2. /\ r \in SessionType /\ r.state = q.state /\ r.expired /\ r.closed = q.closed
        /\ r.task = q.task /\ r.reap = q.reap /\ r.slot = q.slot /\ r.notes = q.notes
    BY Zenon, <1>0 DEF SessionType
  <2>3. Tokens(r) <= Tokens(q) /\ Tokens(r) = Tokens(q)
    <3>1. Tokens(r) = Tokens(q)
      BY <2>2 DEF Tokens
    <3> HIDE DEF q, r
    <3>. QED  BY <1>1, <3>1
  <2> HIDE DEF r
  <2>. QED  BY Zenon, <1>1, <1>2, <1>3, <2>1, <2>2, <2>3, SessionStepInv
<1>9. CASE WaitExpiration(s) \/ Watch(s)
  <2>1. PICK r \in {[q EXCEPT !.timer = FALSE], Shutdown([q EXCEPT !.timer = FALSE]),
                    [q EXCEPT !.watch = FALSE], Shutdown([q EXCEPT !.watch = FALSE])} : Changed(r)
    BY <1>9 DEF WaitExpiration, Watch
  <2>2. /\ r \in SessionType /\ r.state = q.state /\ r.expired = q.expired
        /\ r.task = q.task /\ r.reap = q.reap /\ r.slot = q.slot /\ r.notes = q.notes
        /\ q.closed => r.closed
    BY ZenonT(30), <1>0, <2>1 DEF Shutdown, SessionType
  <2>3. Tokens(r) <= Tokens(q) /\ Tokens(r) = Tokens(q)
    <3>1. Tokens(r) = Tokens(q)
      BY <2>2 DEF Tokens
    <3> HIDE DEF q
    <3>. QED  BY <1>1, <3>1
  <2>. QED  BY Zenon, <1>1, <1>2, <1>3, <2>1, <2>2, <2>3, SessionStepInv
<1>10. CASE Reap(s)
  <2> DEFINE r == Shutdown([q EXCEPT !.reap = FALSE])
  <2>1. Changed(r)
    BY <1>10 DEF Reap
  <2>2. /\ r \in SessionType /\ r.state = q.state /\ r.expired = q.expired /\ r.closed
        /\ r.task = q.task /\ r.reap = FALSE /\ r.slot = q.slot /\ r.notes = q.notes
    BY Zenon, <1>0 DEF Shutdown, SessionType
  <2>3. Tokens(r) <= Tokens(q)
    <3> HIDE DEF q, r
    <3>. QED  BY <1>1, <2>2 DEF Tokens
  <2> HIDE DEF r
  <2>. QED  BY Zenon, <1>2, <1>3, <2>1, <2>2, <2>3, SessionStepInv
<1>11. CASE ReceiveIdle(s)
  <2> DEFINE n == [q EXCEPT !.notes = @ - 1]
             r == IF closing THEN Shutdown([n EXCEPT !.task = "ended"])
                  ELSE IF n.closed THEN n ELSE [n EXCEPT !.task = "checked"]
  <2>1. Changed(r) /\ q.task = "recv" /\ q.notes > 0
    BY <1>11 DEF ReceiveIdle
  <2>2. q.notes - 1 \in Nat
    BY <1>1, <2>1
  <2>3. /\ n \in SessionType /\ n.state = q.state /\ n.expired = q.expired /\ n.closed = q.closed
        /\ n.task = q.task /\ n.reap = q.reap /\ n.slot = q.slot /\ n.notes = q.notes - 1
    BY <1>0, <2>2 DEF SessionType
  <2> HIDE DEF n
  <2>4. /\ r \in SessionType /\ r.state = n.state /\ r.expired = n.expired
        /\ r.reap = n.reap /\ r.slot = n.slot /\ r.notes = n.notes
        /\ n.closed => r.closed
        /\ r.task \in {"recv", "checked", "ended"}
        /\ closing \/ r.closed \/ r.task = "checked"
    BY Zenon, <2>1, <2>3 DEF Shutdown, SessionType
  <2> HIDE DEF r
  <2>5. Tokens(r) <= Tokens(q) /\ (closing \/ r.closed \/ Tokens(r) = Tokens(q))
    <3> HIDE DEF q
    <3>. QED  BY <1>1, <2>1, <2>3, <2>4 DEF Tokens
  <2>. QED  BY Zenon, <1>2, <1>3, <2>1, <2>3, <2>4, <2>5, SessionStepInv
<1>12. CASE CheckIdle(s)
  <2> DEFINE r == IF q.slot # None THEN [q EXCEPT !.task = "recv"]
                  ELSE IF q.expired THEN Shutdown([q EXCEPT !.task = "recv"])
                  ELSE [q EXCEPT !.task = "pool"]
  <2>1. Changed(r) /\ q.task = "checked"
    BY <1>12 DEF CheckIdle
  <2>2. q.slot = None
    <3> HIDE DEF q
    <3>. QED  BY <1>1, <2>1 DEF Tokens
  <2>3. /\ r \in SessionType /\ r.state = q.state /\ r.expired = q.expired
        /\ r.reap = q.reap /\ r.slot = q.slot /\ r.notes = q.notes
        /\ q.closed => r.closed
        /\ r.task \in {"recv", "pool"}
        /\ r.closed \/ r.task = "pool"
    BY ZenonT(30), <1>0, <2>2 DEF Shutdown, SessionType
  <2> HIDE DEF r
  <2>4. Tokens(r) <= Tokens(q) /\ (r.closed \/ Tokens(r) = Tokens(q))
    <3> HIDE DEF q
    <3>. QED  BY <1>1, <2>1, <2>3 DEF Tokens
  <2>. QED  BY Zenon, <1>2, <1>3, <2>1, <2>3, <2>4, SessionStepInv
<1>. QED  BY <1>5, <1>6, <1>7, <1>8, <1>9, <1>10, <1>11, <1>12

\* The pool's lock: the token goes from the task to the pool, or the session closes.
LEMMA EnterPoolInv ==
  ASSUME Inv, NEW s \in Sessions, EnterPool(s)
  PROVE  Inv'
<1> DEFINE q == ses[s]
           r == [q EXCEPT !.task = "recv"]
           enters == pool[s] = 0 /\ PoolSize < MaxIdle
<1>1. /\ q \in SessionType /\ q.notes \in Nat /\ Tokens(q) \in Nat /\ pool[s] \in Nat
      /\ Tokens(q) + pool[s] <= 1 /\ q.task = "pool"
  BY Parts, TokensType DEF Inv, Owned, Places, EnterPool
<1>2. pool[s] = 0 /\ Tokens(q) = 1
  <2> HIDE DEF q
  <2>. QED  BY <1>1 DEF Tokens
<1>3. /\ r \in SessionType /\ r.state = q.state /\ r.expired = q.expired /\ r.closed = q.closed
      /\ r.task = "recv" /\ r.reap = q.reap /\ r.slot = q.slot /\ r.notes = q.notes
  BY <1>1 DEF SessionType
<1>4. /\ Shutdown(r) \in SessionType /\ Shutdown(r).state = r.state /\ Shutdown(r).expired = r.expired
      /\ Shutdown(r).closed /\ Shutdown(r).task = r.task /\ Shutdown(r).reap = r.reap
      /\ Shutdown(r).slot = r.slot /\ Shutdown(r).notes = r.notes
  BY Zenon, <1>3 DEF Shutdown, SessionType
<1> HIDE DEF r
<1>5. Tokens(r) = 0 /\ Tokens(Shutdown(r)) = 0
  <2>1. Tokens(r) = 0
    <3> HIDE DEF q
    <3>. QED  BY <1>1, <1>2, <1>3 DEF Tokens
  <2>. QED  BY <1>4, <2>1 DEF Tokens
<1>6. PICK x \in {r, Shutdown(r)}, n \in {0, 1} :
        /\ ses' = [ses EXCEPT ![s] = x] /\ pool' = [pool EXCEPT ![s] = n]
        /\ n = 1 \/ x.closed
  <2>1. CASE enters
    <3>1. ses' = [ses EXCEPT ![s] = r] /\ pool' = [pool EXCEPT ![s] = 1]
      BY <2>1 DEF EnterPool, r
    <3>. QED  BY <3>1
  <2>2. CASE ~enters
    <3>1. ses' = [ses EXCEPT ![s] = Shutdown(r)] /\ pool' = pool
      BY <1>2, <2>2 DEF EnterPool, r
    <3>2. pool = [pool EXCEPT ![s] = 0]
      BY <1>2 DEF Inv, TypeOK
    <3>. QED  BY <1>4, <3>1, <3>2
  <2>. QED  BY <2>1, <2>2
<1>7. UNCHANGED <<call, closing, drain, lost>>
  BY DEF EnterPool
<1>8. TypeOK' /\ CallsOK'
  BY <1>3, <1>4, <1>6, <1>7 DEF Inv, TypeOK, CallsOK
<1>9. ASSUME NEW t \in Sessions PROVE Owned(t)'
  <2>1. Owned(t) /\ Places(t) \in Nat /\ \A c \in Callers : Holds(c, t)' <=> Holds(c, t)
    BY <1>7, Parts DEF Inv, Holds
  <2>2. CASE t = s
    <3>1. ses'[t] = x /\ pool'[t] = n
      BY <1>6, <2>2 DEF Inv, TypeOK
    <3>2. Places(t) = 1 /\ Places(t)' = n
      BY <1>1, <1>2, <1>5, <1>6, <2>2, <3>1 DEF Places
    <3>3. x.state = q.state /\ (q.closed => x.closed) /\ (q.expired => x.expired)
      BY <1>3, <1>4, <1>6
    <3>. QED  BY <1>6, <1>7, <2>1, <2>2, <3>1, <3>2, <3>3, OwnedFrame
  <2>3. CASE t # s
    <3>1. ses'[t] = ses[t] /\ pool'[t] = pool[t]
      BY <1>6, <2>3 DEF Inv, TypeOK
    <3>2. Places(t)' = Places(t)
      BY <3>1 DEF Places
    <3>. QED  BY <1>7, <2>1, <3>1, <3>2, OwnedFrame
  <2>. QED  BY <2>2, <2>3
<1>. QED  BY <1>8, <1>9 DEF Inv

\* What is taken out of the pool to be shut down keeps its token.
LEMMA ReapingOwned ==
  ASSUME Inv, NEW out \in SUBSET Pooled, ses' = Reaping(out), closing => closing', lost' = lost,
         NEW t \in Sessions, \A c \in Callers : Holds(c, t)' <=> Holds(c, t),
         pool'[t] = IF t \in out THEN 0 ELSE pool[t]
  PROVE  Owned(t)'
<1> DEFINE q == ses[t]
           r == [q EXCEPT !.reap = TRUE]
<1>1. /\ q \in SessionType /\ q.notes \in Nat /\ Tokens(q) \in Nat /\ pool[t] \in Nat
      /\ Tokens(q) + pool[t] <= 1 /\ Places(t) \in Nat /\ Owned(t)
  BY Parts, TokensType DEF Inv, Owned, Places
<1>2. CASE t \in out
  <2>1. ses'[t] = r /\ pool'[t] = 0 /\ pool[t] > 0
    BY <1>2 DEF Reaping, Pooled
  <2>2. pool[t] = 1 /\ Tokens(q) = 0
    BY <1>1, <2>1
  <2>3. /\ r.state = q.state /\ r.expired = q.expired /\ r.closed = q.closed
        /\ r.task = q.task /\ r.reap = TRUE /\ r.slot = q.slot /\ r.notes = q.notes
    BY <1>1 DEF SessionType
  <2>4. Tokens(r) = 1
    <3> HIDE DEF q, r
    <3>. QED  BY <1>1, <2>2, <2>3 DEF Tokens
  <2>5. Places(t)' = 1 /\ Places(t) = 1
    <3> HIDE DEF r
    <3>. QED  BY <2>1, <2>2, <2>4 DEF Places
  <2> HIDE DEF r
  <2>. QED  BY <1>1, <2>1, <2>3, <2>5, OwnedFrame
<1>3. CASE t \notin out
  <2>1. ses'[t] = ses[t] /\ pool'[t] = pool[t]
    BY <1>3 DEF Reaping
  <2>2. Places(t)' = Places(t)
    BY <2>1 DEF Places
  <2>. QED  BY <1>1, <2>1, <2>2, OwnedFrame
<1>. QED  BY <1>2, <1>3

\* The sessions stay sessions when some of them get a task that shuts them down.
LEMMA ReapingType ==
  ASSUME TypeOK, NEW out PROVE Reaping(out) \in [Sessions -> SessionType]
<1>1. ASSUME NEW s \in Sessions PROVE [ses[s] EXCEPT !.reap = TRUE] \in SessionType
  <2>1. ses[s] \in SessionType
    BY DEF TypeOK
  <2>. QED  BY Zenon, <2>1 DEF SessionType
<1>. QED  BY <1>1 DEF Reaping, TypeOK

\* The steps of the client that only take from the pool.
LEMMA PoolStepInv ==
  ASSUME Inv, PoolStep
  PROVE  Inv'
<1>1. CASE Cleanup
  <2>1. PICK out \in SUBSET Pooled :
          /\ pool' = [s \in Sessions |-> IF s \in out THEN 0 ELSE pool[s]]
          /\ ses' = Reaping(out)
    BY <1>1 DEF Cleanup
  <2>2. UNCHANGED <<call, closing, drain, lost>>
    BY <1>1 DEF Cleanup
  <2>3. TypeOK' /\ CallsOK'
    BY <2>1, <2>2, ReapingType DEF Inv, TypeOK, CallsOK
  <2>4. \A c \in Callers, t \in Sessions : Holds(c, t)' <=> Holds(c, t)
    BY <2>2 DEF Holds
  <2>5. \A t \in Sessions : Owned(t)'
    BY <2>1, <2>2, <2>4, ReapingOwned
  <2>. QED  BY <2>3, <2>5 DEF Inv
<1>2. CASE DrainPool
  <2>1. pool' = [s \in Sessions |-> 0] /\ ses' = Reaping(Pooled) /\ UNCHANGED <<call, closing, lost>>
        /\ drain' = FALSE
    BY <1>2 DEF DrainPool
  <2>2. \A s \in Sessions : pool[s] \in Nat /\ pool'[s] = IF s \in Pooled THEN 0 ELSE pool[s]
    BY <2>1 DEF Inv, TypeOK, Pooled
  <2>3. TypeOK' /\ CallsOK'
    BY Zenon, <2>1, ReapingType DEF Inv, TypeOK, CallsOK
  <2>4. \A c \in Callers, t \in Sessions : Holds(c, t)' <=> Holds(c, t)
    BY <2>1 DEF Holds
  <2>5. \A t \in Sessions : Owned(t)'
    BY <2>1, <2>2, <2>4, ReapingOwned
  <2>. QED  BY <2>3, <2>5 DEF Inv
<1>3. CASE ClientShutdown
  <2>1. UNCHANGED <<ses, pool, call, lost>> /\ closing' = TRUE /\ drain' = TRUE
    BY <1>3 DEF ClientShutdown
  <2>2. TypeOK' /\ CallsOK'
    BY <2>1 DEF Inv, TypeOK, CallsOK
  <2>3. ASSUME NEW t \in Sessions PROVE Owned(t)'
    <3>1. Owned(t) /\ Places(t) \in Nat
      BY Parts DEF Inv
    <3>2. Places(t)' = Places(t) /\ \A c \in Callers : Holds(c, t)' <=> Holds(c, t)
      BY <2>1 DEF Places, Holds
    <3>. QED  BY <2>1, <3>1, <3>2, OwnedFrame
  <2>. QED  BY <2>2, <2>3 DEF Inv
<1>. QED  BY <1>1, <1>2, <1>3 DEF PoolStep
\* A call that moves on without a session changing hands.
LEMMA CallOnlyInv ==
  ASSUME Inv, NEW c \in Callers, NEW v \in CallType, call' = [call EXCEPT ![c] = v],
         UNCHANGED <<ses, pool, closing, drain>>, lost \subseteq lost', lost' \subseteq Sessions,
         v.pc \in {"open", "failed", "using"} => v.ses \in Sessions,
         v.pc \notin {"reserve", "run", "fresh"},
         \/ call[c].pc \notin {"reserve", "run", "fresh"}
         \/ call[c].ses \in lost'
         \/ call[c].ses \in Sessions /\ ~Usable(call[c].ses)
  PROVE  Inv'
<1>1. TypeOK' /\ CallsOK'
  BY DEF Inv, TypeOK, CallsOK
<1>2. ASSUME NEW t \in Sessions PROVE Owned(t)'
  <2>1. \A d \in Callers : Holds(d, t)' <=> d # c /\ Holds(d, t)
    BY Zenon, HoldsAfter DEF Inv, TypeOK
  <2>2. Owned(t) /\ Places(t) \in Nat /\ Places(t)' = Places(t) /\ ses'[t] = ses[t]
    BY Parts DEF Inv, Places
  <2>3. CASE Holds(c, t)
    <3>1. t \in lost' \/ ~Usable(t)'
      BY <2>2, <2>3 DEF Holds, Usable
    <3>. QED  BY <2>1, <2>2, <3>1 DEF Owned, Made
  <2>4. CASE ~Holds(c, t)
    <3>1. \A d \in Callers : Holds(d, t)' <=> Holds(d, t)
      BY <2>1, <2>4
    <3>. QED  BY <2>2, <3>1, OwnedFrame
  <2>. QED  BY <2>3, <2>4
<1>. QED  BY <1>1, <1>2 DEF Inv

\* The record a call becomes when only its pc changes.
LEMMA PcChange ==
  ASSUME TypeOK, NEW c \in Callers,
         NEW p \in {"idle", "take", "reserve", "dial", "run", "fresh", "open", "failed", "using"}
  PROVE  /\ [call[c] EXCEPT !.pc = p] \in CallType /\ [call[c] EXCEPT !.pc = p].pc = p
         /\ [call[c] EXCEPT !.pc = p].ses = call[c].ses
         /\ [call EXCEPT ![c].pc = p] = [call EXCEPT ![c] = [call[c] EXCEPT !.pc = p]]
         /\ call[c] \in CallType /\ Idle \in CallType /\ Idle.pc = "idle"
BY DEF TypeOK, CallType, Idle

\* A session that loses its last holder to the caller's stream, or is dropped with it.
\* A held session has no token; r is what the step makes of it.
LEMMA HeldStepInv ==
  ASSUME Inv, NEW c \in Callers, NEW s \in Sessions, Holds(c, s),
         NEW r \in SessionType, NEW v \in CallType, v.pc \notin {"reserve", "run"},
         ses' = [ses EXCEPT ![s] = r], call' = [call EXCEPT ![c] = v],
         UNCHANGED <<pool, closing, drain, lost>>,
         v.pc # "idle" => v.ses = s, r.state # "none",
         \/ Tokens(r) = 1 /\ v.pc # "fresh"
         \/ Tokens(r) = 0 /\ (v.pc = "fresh" \/ closing \/ r.state = "gone")
  PROVE  Inv'
<1>1. TypeOK'
  BY DEF Inv, TypeOK
<1>2. CallsOK'
  BY DEF Inv, TypeOK, CallsOK
<1>3. ASSUME NEW t \in Sessions PROVE Owned(t)'
  <2>1. \A d \in Callers : Holds(d, t)' <=> IF d = c THEN v.pc = "fresh" /\ v.ses = t ELSE Holds(d, t)
    BY Zenon, HoldsAfter DEF Inv, TypeOK
  <2>2. Owned(t) /\ Places(t) \in Nat /\ pool[t] \in Nat /\ pool'[t] = pool[t] /\ Tokens(ses[t]) \in Nat
        /\ Places(t) = Tokens(ses[t]) + pool[t]
    BY Parts DEF Inv, Places
  <2>3. CASE t = s
    <3>1. ses'[t] = r
      BY <2>3 DEF Inv, TypeOK
    <3>2. pool[t] = 0 /\ \A d \in Callers : Holds(d, t) => d = c
      BY <2>2, <2>3 DEF Owned
    <3>3. Places(t)' = Tokens(r)
      BY <2>2, <3>1, <3>2, TokensType DEF Places
    <3>4. \A d \in Callers : Holds(d, t)' <=> d = c /\ v.pc = "fresh"
      BY <2>1, <2>3, <3>2
    <3>5. CASE Tokens(r) = 1 /\ v.pc # "fresh"
      BY <3>1, <3>3, <3>4, <3>5 DEF Owned
    <3>6. CASE Tokens(r) = 0 /\ v.pc = "fresh"
      BY <3>1, <3>3, <3>4, <3>6 DEF Owned
    <3>7. CASE Tokens(r) = 0 /\ v.pc # "fresh" /\ (closing \/ r.state = "gone")
      BY <3>1, <3>3, <3>4, <3>7 DEF Owned, Made
    <3>. QED  BY <3>5, <3>6, <3>7
  <2>4. CASE t # s
    <3>1. ses'[t] = ses[t]
      BY <2>4 DEF Inv, TypeOK
    <3>2. Places(t)' = Places(t)
      BY <2>2, <3>1 DEF Places
    <3>3. \A d \in Callers : Holds(d, t)' <=> Holds(d, t)
      BY <2>1, <2>4 DEF Holds
    <3>. QED  BY <2>2, <3>1, <3>2, <3>3, OwnedFrame
  <2>. QED  BY <2>3, <2>4
<1>. QED  BY <1>1, <1>2, <1>3 DEF Inv

\* take_idle hands the token of a pooled session to the caller.
LEMMA TakeIdleInv ==
  ASSUME Inv, NEW c \in Callers, TakeIdle(c)
  PROVE  Inv'
<1> DEFINE good == {s \in Pooled : Usable(s)}
<1>1. UNCHANGED <<closing, drain, lost>> /\ call[c].pc = "take"
  BY DEF TakeIdle
<1>2. CASE good = {} /\ pool' = [s \in Sessions |-> 0] /\ ses' = Reaping(Pooled)
           /\ call' = [call EXCEPT ![c].pc = "dial"]
  <2> DEFINE v == [call[c] EXCEPT !.pc = "dial"]
  <2>1. v \in CallType /\ v.pc = "dial" /\ call' = [call EXCEPT ![c] = v]
    BY Zenon, <1>2, PcChange DEF Inv
  <2> HIDE DEF v
  <2>2. \A s \in Sessions : pool[s] \in Nat /\ pool'[s] = IF s \in Pooled THEN 0 ELSE pool[s]
    BY <1>2 DEF Inv, TypeOK, Pooled
  <2>3. TypeOK' /\ CallsOK'
    BY <1>1, <1>2, <2>1, ReapingType DEF Inv, TypeOK, CallsOK
  <2>4. \A d \in Callers, t \in Sessions : Holds(d, t)' <=> Holds(d, t)
    <3>1. \A d \in Callers : call'[d] = IF d = c THEN v ELSE call[d]
      BY <2>1 DEF Inv, TypeOK
    <3>. QED  BY <1>1, <2>1, <3>1 DEF Holds
  <2>5. \A t \in Sessions : Owned(t)'
    BY <1>1, <1>2, <2>2, <2>4, ReapingOwned
  <2>. QED  BY <2>3, <2>5 DEF Inv
<1>3. ASSUME NEW s \in good, pool' = [t \in Sessions |-> IF t <= s THEN 0 ELSE pool[t]],
             ses' = Reaping({t \in Pooled : t < s}), \A t \in good : s <= t,
             call' = [call EXCEPT ![c] = [pc |-> "reserve", ses |-> s]]
      PROVE  Inv'
  <2> DEFINE out == {t \in Pooled : t < s}
             v == [pc |-> "reserve", ses |-> s]
  <2>1. s \in Sessions /\ s \in Nat /\ pool[s] > 0 /\ v \in CallType /\ v.pc = "reserve" /\ v.ses = s
    BY <1>3 DEF Pooled, Sessions, CallType
  <2>2. TypeOK' /\ CallsOK'
    <3>1. pool' \in [Sessions -> Nat]
      BY <1>3 DEF Inv, TypeOK
    <3>2. call' \in [Callers -> CallType]
      BY <1>3, <2>1 DEF Inv, TypeOK
    <3>3. ASSUME NEW d \in Callers,
                 call'[d].pc \in {"reserve", "run", "fresh", "open", "failed", "using"}
          PROVE  call'[d].ses \in Sessions
      <4>1. call'[d] = IF d = c THEN v ELSE call[d]
        BY <1>3 DEF Inv, TypeOK
      <4>. QED  BY <2>1, <3>3, <4>1 DEF Inv, CallsOK
    <3>. QED  BY <1>1, <1>3, <3>1, <3>2, <3>3, ReapingType DEF Inv, TypeOK, CallsOK
  <2> HIDE DEF v
  <2>3. ASSUME NEW d \in Callers, NEW t \in Sessions
        PROVE  Holds(d, t)' <=> IF d = c THEN t = s ELSE Holds(d, t)
    BY ZenonT(30), <1>3, <2>1, HoldsAfter DEF Inv, TypeOK, v
  <2>4. ASSUME NEW t \in Sessions PROVE Owned(t)'
    <3>1. /\ Owned(t) /\ Places(t) \in Nat /\ pool[t] \in Nat /\ Tokens(ses[t]) \in Nat
          /\ Places(t) = Tokens(ses[t]) + pool[t] /\ t \in Nat
      BY Parts DEF Inv, Places, Sessions
    <3>2. CASE t = s
      <4>1. ses'[t] = ses[t] /\ pool'[t] = 0
        BY <1>3, <2>1, <3>2 DEF Reaping
      <4>2. Places(t) = 1 /\ Tokens(ses[t]) = 0
        BY <2>1, <3>1, <3>2 DEF Owned
      <4>3. Places(t)' = 0
        BY <4>1, <4>2 DEF Places
      <4>4. ses[t].state # "none" /\ \A d \in Callers : ~Holds(d, t)
        BY <3>1, <4>2 DEF Owned
      <4>5. \A d \in Callers : Holds(d, t)' <=> d = c
        BY <2>3, <3>2, <4>4
      <4>. QED  BY <4>1, <4>3, <4>4, <4>5 DEF Owned
    <3>3. CASE t # s
      <4>1. \A d \in Callers : Holds(d, t)' <=> Holds(d, t)
        BY <1>1, <2>3, <3>3 DEF Holds
      <4>2. pool'[t] = IF t \in out THEN 0 ELSE pool[t]
        <5>1. t < s \/ ~(t <= s)
          BY <2>1, <3>1, <3>3
        <5>2. t < s => t <= s
          BY <2>1, <3>1
        <5>. QED  BY <1>3, <3>1, <5>1, <5>2 DEF Pooled
      <4>. QED  BY <1>1, <1>3, <4>1, <4>2, ReapingOwned
    <3>. QED  BY <3>2, <3>3
  <2>. QED  BY <2>2, <2>4 DEF Inv
<1>. QED  BY Zenon, <1>2, <1>3 DEF TakeIdle

\* create_session makes a session that nobody else has.
LEMMA ConnectInv ==
  ASSUME Inv, NEW c \in Callers, Connect(c)
  PROVE  Inv'
<1> DEFINE r == [Unmade EXCEPT !.state = "new", !.task = "recv", !.watch = TRUE]
<1>1. PICK s \in Sessions :
        /\ ses[s].state = "none" /\ ses' = [ses EXCEPT ![s] = r]
        /\ call' = [call EXCEPT ![c] = [pc |-> "run", ses |-> s]]
  BY Zenon DEF Connect
<1>2. UNCHANGED <<pool, closing, drain, lost>> /\ call[c].pc = "dial"
  BY DEF Connect
<1>3. /\ r \in SessionType /\ r.state = "new" /\ r.task = "recv" /\ r.notes = 0
      /\ r.reap = FALSE /\ r.slot = None
  BY Zenon DEF Unmade, SessionType
<1> HIDE DEF r
<1>4. Tokens(r) = 0
  BY <1>3 DEF Tokens
<1> DEFINE v == [pc |-> "run", ses |-> s]
<1>5. v \in CallType /\ v.pc = "run" /\ v.ses = s
  BY DEF CallType
<1>6. TypeOK' /\ CallsOK'
  <2>1. TypeOK'
    BY <1>1, <1>2, <1>3, <1>5 DEF Inv, TypeOK
  <2>2. \A d \in Callers : call'[d] = IF d = c THEN v ELSE call[d]
    BY <1>1 DEF Inv, TypeOK
  <2>. QED  BY <1>5, <2>1, <2>2 DEF Inv, CallsOK
<1> HIDE DEF v
<1>7. ASSUME NEW d \in Callers, NEW t \in Sessions
      PROVE  Holds(d, t)' <=> IF d = c THEN t = s ELSE Holds(d, t)
  BY ZenonT(30), <1>1, <1>5, HoldsAfter DEF Inv, TypeOK, v
<1>8. ASSUME NEW t \in Sessions PROVE Owned(t)'
  <2>1. /\ Owned(t) /\ Places(t) \in Nat /\ pool[t] \in Nat /\ Tokens(ses[t]) \in Nat
        /\ Places(t) = Tokens(ses[t]) + pool[t] /\ pool'[t] = pool[t]
    BY <1>2, Parts DEF Inv, Places
  <2>2. CASE t = s
    <3>1. ses'[t] = r /\ pool[t] = 0 /\ \A d \in Callers : ~Holds(d, t)
      BY <1>1, <2>1, <2>2 DEF Inv, TypeOK, Owned
    <3>2. Places(t)' = 0
      BY <1>4, <2>1, <3>1 DEF Places
    <3>3. \A d \in Callers : Holds(d, t)' <=> d = c
      BY <1>7, <2>2, <3>1
    <3>. QED  BY <1>3, <3>1, <3>2, <3>3 DEF Owned
  <2>3. CASE t # s
    <3>1. ses'[t] = ses[t]
      BY <1>1, <2>3 DEF Inv, TypeOK
    <3>2. Places(t)' = Places(t)
      BY <2>1, <3>1 DEF Places
    <3>3. \A d \in Callers : Holds(d, t)' <=> Holds(d, t)
      BY <1>2, <1>7, <2>3 DEF Holds
    <3>. QED  BY <1>2, <2>1, <3>1, <3>2, <3>3, OwnedFrame
  <2>. QED  BY <2>2, <2>3
<1>. QED  BY <1>6, <1>8 DEF Inv

\* A session a caller holds is not in use, announced or pooled.
LEMMA HeldIsFree ==
  ASSUME Inv, NEW c \in Callers, call[c].pc \in {"reserve", "run", "fresh"}
  PROVE  LET r == ses[call[c].ses] IN
         /\ call[c].ses \in Sessions /\ Holds(c, call[c].ses)
         /\ r \in SessionType /\ Tokens(r) = 0 /\ r.notes = 0 /\ r.slot = None /\ r.reap = FALSE
         /\ r.task \in {"recv", "ended"} /\ r.state # "none"
<1> DEFINE s == call[c].ses
           r == ses[s]
<1>1. s \in Sessions /\ Holds(c, s)
  BY DEF Inv, CallsOK, Holds
<1>2. /\ Tokens(r) \in Nat /\ pool[s] \in Nat /\ Places(s) = 0 /\ Places(s) = Tokens(r) + pool[s]
      /\ r.state # "none"
  BY <1>1, Parts DEF Inv, Owned, Places
<1>3. r \in SessionType
  BY <1>1 DEF Inv, TypeOK
<1>4. r.notes \in Nat /\ r.task \in {"recv", "checked", "pool", "ended"} /\ r.reap \in BOOLEAN
  BY <1>3 DEF SessionType
<1>5. Tokens(r) = 0
  BY <1>2
<1>6. r.notes = 0 /\ r.slot = None /\ r.reap = FALSE /\ r.task \in {"recv", "ended"}
  <2> HIDE DEF r
  <2>. QED  BY <1>4, <1>5 DEF Tokens
<1>. QED  BY <1>1, <1>2, <1>3, <1>5, <1>6

\* reserve_stream: the token becomes the stream, or the session is closed or expired.
LEMMA ReserveInv ==
  ASSUME Inv, NEW c \in Callers, Reserve(c)
  PROVE  Inv'
<1> DEFINE s == call[c].ses
           q == ses[s]
           r == [q EXCEPT !.slot = c]
           v == [call[c] EXCEPT !.pc = "open"]
           w == IF call[c].pc = "fresh" THEN Idle ELSE [pc |-> "dial", ses |-> None]
<1>1. /\ s \in Sessions /\ Holds(c, s) /\ q \in SessionType /\ q.notes = 0 /\ q.slot = None
      /\ q.reap = FALSE /\ q.task \in {"recv", "ended"} /\ q.state # "none"
  BY Zenon, HeldIsFree DEF Reserve
<1>2. /\ UNCHANGED <<pool, closing, drain, lost>> /\ lost \subseteq Sessions
      /\ call[c].pc \in {"reserve", "fresh"}
  BY DEF Reserve, Inv, TypeOK
<1>3. CASE Usable(s)
  <2>1. ses' = [ses EXCEPT ![s] = r] /\ call' = [call EXCEPT ![c] = v]
    BY Zenon, <1>1, <1>3, PcChange DEF Reserve, Inv
  <2>2. /\ r \in SessionType /\ r.state = q.state /\ r.task = q.task /\ r.reap = q.reap
        /\ r.slot = c /\ r.notes = q.notes
    BY <1>1 DEF SessionType
  <2>3. v \in CallType /\ v.pc = "open" /\ v.ses = s
    BY Zenon, PcChange DEF Inv
  <2>4. Tokens(r) = 1
    <3>1. c # None
      BY PoolAssumption
    <3> HIDE DEF q, r
    <3>. QED  BY <1>1, <2>2, <3>1 DEF Tokens
  <2> HIDE DEF s, q, r, v
  <2>. QED  BY ZenonT(30), <1>1, <1>2, <2>1, <2>2, <2>3, <2>4, HeldStepInv
<1>4. CASE ~Usable(s)
  <2>1. call' = [call EXCEPT ![c] = w] /\ UNCHANGED ses
    BY <1>4 DEF Reserve
  <2>2. w \in CallType /\ w.pc \in {"idle", "dial"}
    BY DEF Idle, CallType
  <2> HIDE DEF w
  <2>. QED  BY Zenon, <1>1, <1>2, <1>4, <2>1, <2>2, CallOnlyInv
<1>. QED  BY <1>3, <1>4

\* Session::run succeeds.
LEMMA RunInv ==
  ASSUME Inv, NEW c \in Callers, Run(c)
  PROVE  Inv'
<1> DEFINE s == call[c].ses
           q == ses[s]
           r == [q EXCEPT !.state = "live", !.timer = Ages]
           v == IF closing THEN Idle ELSE [call[c] EXCEPT !.pc = "fresh"]
<1>1. /\ s \in Sessions /\ Holds(c, s) /\ q \in SessionType /\ q.notes = 0 /\ q.slot = None
      /\ q.reap = FALSE /\ q.task \in {"recv", "ended"}
  BY Zenon, HeldIsFree DEF Run
<1>2. /\ UNCHANGED <<pool, closing, drain, lost>>
      /\ ses' = [ses EXCEPT ![s] = r] /\ call' = [call EXCEPT ![c] = v]
  BY DEF Run
<1>3. /\ r \in SessionType /\ r.state = "live" /\ r.task = q.task /\ r.reap = q.reap
      /\ r.slot = q.slot /\ r.notes = q.notes
  BY Zenon, <1>1, PoolAssumption DEF SessionType
<1>4. /\ v \in CallType
      /\ (v.pc = "idle" /\ closing) \/ (v.pc = "fresh" /\ v.ses = s)
  <2>1. CASE closing
    BY Zenon, <2>1, PcChange DEF Inv
  <2>2. CASE ~closing
    <3>1. v = [call[c] EXCEPT !.pc = "fresh"]
      BY <2>2
    <3>. QED  BY Zenon, <3>1, PcChange DEF Inv
  <2>. QED  BY <2>1, <2>2
<1>5. Tokens(r) = 0
  <2> HIDE DEF q, r
  <2>. QED  BY <1>1, <1>3 DEF Tokens
<1> HIDE DEF s, q, r, v
<1>. QED  BY Zenon, <1>1, <1>2, <1>3, <1>4, <1>5, HeldStepInv

\* A session that never ran is dropped with the call that made it.
LEMMA DroppedInv ==
  ASSUME Inv, NEW c \in Callers, call[c].pc = "run", ses' = Dropped(call[c].ses),
         call' = [call EXCEPT ![c] = Idle], UNCHANGED <<pool, closing, drain, lost>>
  PROVE  Inv'
<1> DEFINE s == call[c].ses
           q == ses[s]
           r == [q EXCEPT !.state = "gone", !.task = "ended"]
<1>1. /\ s \in Sessions /\ Holds(c, s) /\ q \in SessionType /\ q.notes = 0 /\ q.slot = None
      /\ q.reap = FALSE
  BY Zenon, HeldIsFree
<1>2. ses' = [ses EXCEPT ![s] = r]
  BY DEF Dropped
<1>3. /\ r \in SessionType /\ r.state = "gone" /\ r.task = "ended" /\ r.reap = q.reap
      /\ r.slot = q.slot /\ r.notes = q.notes
  BY Zenon, <1>1 DEF SessionType
<1>4. Idle \in CallType /\ Idle.pc = "idle"
  BY DEF Idle, CallType
<1>5. Tokens(r) = 0
  <2> HIDE DEF q, r
  <2>. QED  BY <1>1, <1>3 DEF Tokens
<1> HIDE DEF s, q, r
<1>. QED  BY Zenon, <1>1, <1>2, <1>3, <1>4, <1>5, HeldStepInv

\* Every step of a call of create_stream.
LEMMA CallStepInv ==
  ASSUME Inv, NEW c \in Callers, CallStep(c)
  PROVE  Inv'
<1> DEFINE s == call[c].ses
<1>1. /\ call[c] \in CallType /\ Idle \in CallType /\ Idle.pc = "idle"
      /\ call[c].pc \in {"open", "failed", "using"} => s \in Sessions
      /\ lost \subseteq Sessions
  BY Zenon, PcChange DEF Inv, CallsOK, TypeOK
<1>2. CASE Start(c)
  <2> DEFINE v == [call[c] EXCEPT !.pc = "take"]
  <2>1. v \in CallType /\ v.pc = "take" /\ call' = [call EXCEPT ![c] = v]
    BY Zenon, <1>2, PcChange DEF Start, Inv
  <2> HIDE DEF v
  <2>. QED  BY ZenonT(30), <1>1, <1>2, <2>1, CallOnlyInv DEF Start
<1>3. CASE DialFails(c) \/ Done(c)
  BY <1>1, <1>3, CallOnlyInv DEF DialFails, Done
<1>4. CASE Opened(c)
  <2> DEFINE v == [call[c] EXCEPT !.pc = "using"]
  <2>1. v \in CallType /\ v.pc = "using" /\ v.ses = s /\ call' = [call EXCEPT ![c] = v]
    BY Zenon, <1>4, PcChange DEF Opened, Inv
  <2> HIDE DEF v
  <2>. QED  BY Zenon, <1>1, <1>4, <2>1, CallOnlyInv DEF Opened
<1>5. CASE Cancel(c)
  <2>1. CASE call[c].pc = "run"
    BY Zenon, <1>5, <2>1, DroppedInv DEF Cancel
  <2>2. CASE call[c].pc # "run"
    <3>1. call[c].pc \in {"reserve", "fresh"} => s \in Sessions /\ s \in lost'
      BY <1>5 DEF Cancel, Inv, CallsOK
    <3>2. lost \subseteq lost' /\ lost' \subseteq Sessions
      BY <1>5, <3>1 DEF Cancel, Inv, TypeOK
    <3>. QED  BY Zenon, <1>1, <1>5, <2>2, <3>1, <3>2, CallOnlyInv DEF Cancel
  <2>. QED  BY <2>1, <2>2
<1>6. CASE RunFails(c)
  BY Zenon, <1>6, DroppedInv DEF RunFails
<1>7. CASE OpenFails(c)
  <2> DEFINE q == ses[s]
             r == Remove(q, c)
             v == [call[c] EXCEPT !.pc = "failed"]
  <2>1. v \in CallType /\ v.pc = "failed" /\ v.ses = s /\ call' = [call EXCEPT ![c] = v]
    BY Zenon, <1>7, PcChange DEF OpenFails, Inv
  <2>2. ses' = [ses EXCEPT ![s] = r] /\ UNCHANGED <<pool, closing, drain, lost>> /\ call[c].pc = "open"
    BY <1>7 DEF OpenFails
  <2>3. q \in SessionType /\ s \in Sessions
    BY <1>1, <2>2 DEF Inv, TypeOK
  <2>4. /\ r \in SessionType /\ r.state = q.state /\ r.expired = q.expired
        /\ Tokens(r) <= Tokens(q) /\ (q.closed => r.closed) /\ (r.closed \/ Tokens(r) = Tokens(q))
    BY <2>3, RemoveEffect, PoolAssumption
  <2> HIDE DEF q, r, v
  <2>5. call' \in [Callers -> CallType] /\ CallsOK'
    BY <2>1, <2>3 DEF Inv, TypeOK, CallsOK
  <2>6. ASSUME NEW d \in Callers, NEW t \in Sessions PROVE Holds(d, t)' <=> Holds(d, t)
    BY <2>1, <2>2, HoldsAfter DEF Inv, TypeOK, Holds
  <2>. QED  BY Zenon, <2>2, <2>3, <2>4, <2>5, <2>6, SessionStepInv DEF q
<1>8. CASE OpenFailed(c)
  <2> DEFINE q == ses[s]
             r == Shutdown(q)
  <2>1. /\ call' = [call EXCEPT ![c] = Idle] /\ ses' = [ses EXCEPT ![s] = r]
        /\ UNCHANGED <<pool, closing, drain, lost>> /\ call[c].pc = "failed"
    BY <1>8 DEF OpenFailed
  <2>2. q \in SessionType /\ s \in Sessions
    BY <1>1, <2>1 DEF Inv, TypeOK
  <2>3. /\ r \in SessionType /\ r.state = q.state /\ r.expired = q.expired /\ r.closed
        /\ r.task = q.task /\ r.reap = q.reap /\ r.slot = q.slot /\ r.notes = q.notes
    BY Zenon, <2>2 DEF Shutdown, SessionType
  <2>4. Tokens(r) <= Tokens(q)
    <3>1. Tokens(q) \in Nat
      BY <2>2, TokensType
    <3>2. Tokens(r) = Tokens(q)
      BY <2>3 DEF Tokens
    <3> HIDE DEF q, r
    <3>. QED  BY <3>1, <3>2
  <2> HIDE DEF q, r
  <2>5. call' \in [Callers -> CallType] /\ CallsOK'
    BY <1>1, <2>1 DEF Inv, TypeOK, CallsOK
  <2>6. ASSUME NEW d \in Callers, NEW t \in Sessions PROVE Holds(d, t)' <=> Holds(d, t)
    BY <1>1, <2>1, HoldsAfter DEF Inv, TypeOK, Holds
  <2>. QED  BY Zenon, <2>1, <2>2, <2>3, <2>4, <2>5, <2>6, SessionStepInv DEF q
<1>. QED  BY SMTT(30), <1>2, <1>3, <1>4, <1>5, <1>6, <1>7, <1>8, TakeIdleInv, ReserveInv, ConnectInv, RunInv
           DEF CallStep

\* A new client has made no session.
LEMMA InitInv == Init => Inv
<1> SUFFICES ASSUME Init PROVE Inv
  OBVIOUS
<1>1. Unmade \in SessionType /\ Unmade.state = "none" /\ Tokens(Unmade) = 0
  BY DEF Unmade, SessionType, Tokens
<1>2. Idle \in CallType /\ Idle.pc = "idle"
  BY DEF Idle, CallType
<1>3. TypeOK /\ CallsOK
  BY Zenon, <1>1, <1>2 DEF Init, TypeOK, CallsOK
<1>4. ASSUME NEW s \in Sessions PROVE Owned(s)
  <2>1. ses[s].state = "none" /\ Places(s) = 0 /\ \A c \in Callers : ~Holds(c, s)
    BY <1>1, <1>2 DEF Init, Places, Holds
  <2>. QED  BY <2>1 DEF Owned, Made
<1>. QED  BY <1>3, <1>4 DEF Inv

\* Every step of the client, its sessions and their tasks preserves the invariant.
LEMMA NextInv == Inv /\ [Next]_vars => Inv'
<1> SUFFICES ASSUME Inv, [Next]_vars PROVE Inv'
  OBVIOUS
<1>1. CASE \E s \in Sessions : SessionStep(s) \/ TaskStep(s)
  BY <1>1, SessionsInv, EnterPoolInv DEF SessionStep, TaskStep
<1>2. CASE \E c \in Callers : CallStep(c)
  BY <1>2, CallStepInv
<1>3. CASE PoolStep
  BY <1>3, PoolStepInv
<1>4. CASE UNCHANGED vars
  BY <1>4 DEF vars, Inv, TypeOK, CallsOK, Owned, Places, Holds, Made, Usable
<1>. QED  BY <1>1, <1>2, <1>3, <1>4 DEF Next

\* The client's state keeps its types (Client, IdleSession, Session).
THEOREM PoolTypeCorrect == Spec => []TypeOK
<1>1. Inv => TypeOK
  BY DEF Inv
<1>. QED  BY <1>1, InitInv, NextInv, PTL DEF Spec

\* However many sessions and callers there are and whatever calls are dropped half-way, a
\* session is never in two hands: two callers never reserve on the same pooled session,
\* the pool holds it once at most, and never while a stream is active on it (take_idle,
\* reserve_pooled_stream, the idle receiver in create_session, remove_stream_by_id).
THEOREM SessionHasOneOwner == Spec => []OneOwner
<1>1. Inv => OneOwner
  BY DEF Inv, Owned, OneOwner
<1>. QED  BY <1>1, InitInv, NextInv, PTL DEF Spec

\* While no call is dropped and the client runs, a session that could serve another stream
\* is in use, with a caller, in the pool or on its way there (create_session's receiver).
THEOREM SessionIsNeverForgotten == Spec => []NeverForgotten
<1>1. Inv => NeverForgotten
  BY DEF Inv, Owned, NeverForgotten
<1>. QED  BY <1>1, InitInv, NextInv, PTL DEF Spec

\* The pool's entries, and that there are finitely many of them.
LEMMA EntriesFinite ==
  ASSUME Inv
  PROVE  /\ IsFiniteSet(Entries) /\ PoolSize \in Nat
         /\ \A e : e \in Entries <=> \E s \in Sessions : e \in {s} \X (1 .. pool[s])
<1>1. \A e : e \in Entries <=> \E s \in Sessions : e \in {s} \X (1 .. pool[s])
  BY DEF Entries
<1>2. \A s \in Sessions : pool[s] \in Nat /\ pool[s] <= 1
  <2> SUFFICES ASSUME NEW s \in Sessions PROVE pool[s] \in Nat /\ pool[s] <= 1
    OBVIOUS
  <2>1. pool[s] \in Nat /\ Tokens(ses[s]) \in Nat /\ Tokens(ses[s]) + pool[s] <= 1
    BY Parts DEF Inv, Owned, Places
  <2>. QED  BY <2>1
<1>3. Entries \in SUBSET (Sessions \X (1 .. 1))
  <2> SUFFICES ASSUME NEW s \in Sessions, NEW e \in {s} \X (1 .. pool[s]) PROVE e \in Sessions \X (1 .. 1)
    BY Zenon, <1>1
  <2>1. (1 .. pool[s]) \subseteq (1 .. 1)
    BY <1>2
  <2>. QED  BY <2>1
<1>4. IsFiniteSet(Sessions) /\ IsFiniteSet(1 .. 1)
  <2>1. 1 \in Int /\ MaxSessions \in Int
    BY PoolAssumption
  <2>. QED  BY Zenon, <2>1, FS_Interval DEF Sessions
<1>5. IsFiniteSet(Sessions \X (1 .. 1))
  BY <1>4, FS_Product
<1>6. IsFiniteSet(Entries)
  BY <1>3, <1>5, FS_Subset
<1>. QED  BY <1>1, <1>6, FS_CardinalityType DEF PoolSize

\* Only the idle receiver puts anything into the pool.
LEMMA PoolShrinks ==
  ASSUME Inv, [Next]_vars, \A s \in Sessions : ~EnterPool(s), NEW t \in Sessions
  PROVE  pool'[t] \in Nat /\ pool'[t] <= pool[t]
<1>1. pool[t] \in Nat
  BY DEF Inv, TypeOK
<1>2. pool' = pool \/ pool'[t] \in {0, pool[t]}
  <2>1. CASE \E s \in Sessions : SessionStep(s) \/ TaskStep(s)
    BY <2>1 DEF SessionStep, StreamEnds, SessionCloses, Drain, Expire, TaskStep, WaitExpiration,
                Reap, Watch, ReceiveIdle, CheckIdle
  <2>2. ASSUME NEW c \in Callers, CallStep(c) PROVE pool' = pool \/ pool'[t] \in {0, pool[t]}
    <3>1. CASE TakeIdle(c)
      BY Zenon, <3>1 DEF TakeIdle
    <3>2. CASE ~TakeIdle(c)
      BY <2>2, <3>2 DEF CallStep, Start, Reserve, DialFails, Connect, Run, RunFails, Opened,
                        OpenFails, OpenFailed, Done, Cancel
    <3>. QED  BY <3>1, <3>2
  <2>3. CASE PoolStep
    BY <2>3 DEF PoolStep, Cleanup, ClientShutdown, DrainPool
  <2>4. CASE UNCHANGED vars
    BY <2>4 DEF vars
  <2>. QED  BY <2>1, <2>2, <2>3, <2>4 DEF Next
<1>. QED  BY <1>1, <1>2

\* A step keeps the pool within its bound.
LEMMA PoolStaysBounded == Inv /\ PoolBounded /\ [Next]_vars => PoolBounded'
<1> SUFFICES ASSUME Inv, PoolBounded, [Next]_vars PROVE PoolBounded'
  OBVIOUS
<1>1. /\ IsFiniteSet(Entries) /\ PoolSize \in Nat /\ MaxIdle \in Nat
      /\ \A e : e \in Entries <=> \E s \in Sessions : e \in {s} \X (1 .. pool[s])
  BY EntriesFinite, PoolAssumption
<1>2. \A e : e \in Entries' <=> \E s \in Sessions : e \in {s} \X (1 .. pool'[s])
  BY DEF Entries
<1>3. CASE \A s \in Sessions : ~EnterPool(s) \/ pool' = pool
  <2>1. \A s \in Sessions : pool[s] \in Nat /\ pool'[s] \in Nat /\ pool'[s] <= pool[s]
    <3>1. \A s \in Sessions : pool[s] \in Nat
      BY DEF Inv, TypeOK
    <3>2. CASE pool' = pool
      BY <3>1, <3>2
    <3>3. CASE pool' # pool
      BY <1>3, <3>1, <3>3, PoolShrinks
    <3>. QED  BY <3>2, <3>3
  <2>2. \A s \in Sessions : (1 .. pool'[s]) \subseteq (1 .. pool[s])
    BY <2>1
  <2>3. Entries' \in SUBSET Entries
    BY <1>1, <1>2, <2>2
  <2>4. Cardinality(Entries') <= Cardinality(Entries)
    BY <1>1, <2>3, FS_Subset
  <2>5. Cardinality(Entries') \in Nat
    BY <1>1, <2>3, FS_Subset, FS_CardinalityType
  <2>. QED  BY <1>1, <2>4, <2>5 DEF PoolBounded, PoolSize
<1>4. ASSUME NEW s \in Sessions, EnterPool(s), pool' # pool PROVE PoolBounded'
  <2>1. pool[s] = 0 /\ PoolSize < MaxIdle /\ pool' = [pool EXCEPT ![s] = 1]
    BY <1>4 DEF EnterPool
  <2>2. \A t \in Sessions : pool[t] \in Nat /\ pool'[t] = IF t = s THEN 1 ELSE pool[t]
    BY <2>1 DEF Inv, TypeOK
  <2>3. {s} \X (1 .. pool'[s]) = {<<s, 1>>} /\ {s} \X (1 .. pool[s]) = {}
    BY <2>1, <2>2
  <2>4. \A t \in Sessions \ {s} : {t} \X (1 .. pool'[t]) = {t} \X (1 .. pool[t])
    BY <2>2
  <2>5. Entries' = Entries \cup {<<s, 1>>}
    BY Zenon, <1>1, <1>2, <2>3, <2>4
  <2>6. Cardinality(Entries') <= Cardinality(Entries) + 1 /\ Cardinality(Entries') \in Nat
    <3>1. IsFiniteSet(Entries') /\ Cardinality(Entries') \in {Cardinality(Entries), Cardinality(Entries) + 1}
      BY Zenon, <1>1, <2>5, FS_AddElement
    <3>. QED  BY <1>1, <3>1 DEF PoolSize
  <2>. QED  BY <1>1, <2>1, <2>6 DEF PoolBounded, PoolSize
<1>. QED  BY <1>3, <1>4

\* The pool keeps to its size, however many sessions' receivers find room in it at a time
\* (create_session's receiver looks and enters under one lock).
THEOREM PoolKeepsItsBound == Spec => []PoolBounded
<1>1. Init => PoolBounded
  <2> SUFFICES ASSUME Init PROVE PoolBounded
    OBVIOUS
  <2>1. Entries = {}
    BY DEF Init, Entries
  <2>. QED  BY <2>1, FS_EmptySet, PoolAssumption DEF PoolBounded, PoolSize
<1>. QED  BY <1>1, InitInv, NextInv, PoolStaysBounded, PTL DEF Spec
=============================================================================
