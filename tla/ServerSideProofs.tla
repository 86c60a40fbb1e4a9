-------------------------- MODULE ServerSideProofs --------------------------
(***************************************************************************)
(* The reports (PanelSync): the panel is never told of more than was       *)
(* relayed and, of the clients it keeps, of no less, for all clients,      *)
(* directions, amounts of traffic and numbers of server processes.  What a *)
(* process has relayed for a client is at least what the panel has         *)
(* counted, what the pending report adds to that if the panel has not seen *)
(* it, and what the next report will say.  A report moves bytes from the   *)
(* third to the second, the panel from the second to the first.            *)
(*                                                                         *)
(* The server's tasks (ServerTasks), for every number of connections and   *)
(* streams and every limit: nothing is left behind by a connection that    *)
(* has ended, what a stream carried is counted, and the server's patience  *)
(* outlasts that of its connections.                                       *)
(*                                                                         *)
(* The clocks: when the server has waited for n, a connection that drains  *)
(* has at most ConnDrain - n left, and one that aborts its streams got     *)
(* there before ConnDrain was over, because no time passes until they are  *)
(* gone.                                                                   *)
(*                                                                         *)
(* The watch over the server's certificate (TlsReload): what it serves     *)
(* with is always a pair, however the two files change.                    *)
(***************************************************************************)
EXTENDS PanelSync, ServerTasks, TlsReload, TLAPS

\* Numbers that are counted down and subtracted.
LEMMA Counted ==
  ASSUME NEW a \in Nat, NEW b \in Nat
  PROVE  /\ a - b \in Int /\ (a # 0 => a - 1 \in Nat) /\ a + 0 = a /\ a \in Int
         /\ a <= b => ~(a > b)
OBVIOUS

\* Nothing is left of a sum's middle part.
LEMMA NoneBetween ==
  ASSUME NEW a \in Nat, NEW b \in Nat
  PROVE  \A r \in Int : (a + b) + 0 + r = a + b + r
OBVIOUS

-----------------------------------------------------------------------------
(* The reports to the panel (PanelSync).                                   *)

Unseen(m) == <<m.id, m.seq>> \notin panel.seen

\* What the panel has counted for a client of a process, what that process relayed for it, what
\* the audit holds of it and what a report adds to the panel's count.
Billed(i, c, d) == panel.billed[i][c][d]
Relayed(i, c, d) == carried[i][c][d]
Held(c, d) == audit.bytes[c][d]
Adds(m, c, d) == m.data[c][d]

\* Reporter ids and sequences grow; what the panel has yet to see of the process that runs
\* is its pending report, and of each process at most one report.
NetOK ==
  /\ sync.seq > 0 /\ (sync.pending # NoReport => sync.pending.seq < sync.seq)
  /\ \A m \in net : m.id <= sync.id
  /\ \A i \in Process, q \in Nat :
       <<i, q>> \in panel.seen => i <= sync.id /\ (i = sync.id => q < sync.seq)
  /\ \A m \in net :
       m.id = sync.id /\ Unseen(m) => sync.pending # NoReport /\ m = RequestOf(sync.id, sync.pending)
  /\ \A m, n \in net : m.id = n.id /\ Unseen(m) /\ Unseen(n) => m = n

Running == sync.pc # "off" => sync.id \in Process

\* The clients the panel keeps are on its list, and known to a server that has asked.
UsersOK ==
  /\ panel.kept \subseteq panel.users
  /\ sync.id \in Process => panel.kept \subseteq audit.users
  /\ sync.pc = "apply" => panel.kept \subseteq sync.fetched

\* What the next report will say.
Ahead(c, d) == IF Held(c, d) >= Base(c, d) THEN Held(c, d) - Base(c, d) ELSE 0

Bound(i, c, d) ==
  /\ Billed(i, c, d) <= Relayed(i, c, d)
  /\ \A m \in net :
       m.id = i /\ Unseen(m) => Billed(i, c, d) + Adds(m, c, d) <= Relayed(i, c, d)
  /\ i = sync.id =>
       Billed(i, c, d) + Outstanding(c, d) + Ahead(c, d) <= Relayed(i, c, d)
  /\ i > sync.id => Billed(i, c, d) = 0 /\ Relayed(i, c, d) = 0

Kept(i, c, d) ==
  c \in panel.kept /\ i = sync.id =>
    /\ Base(c, d) <= Held(c, d)
    /\ Relayed(i, c, d) = Billed(i, c, d) + Outstanding(c, d) + (Held(c, d) - Base(c, d))

\* The inductive invariant.
Inv ==
  /\ TypeOK /\ NetOK /\ UsersOK /\ Running
  /\ \A i \in Process, c \in Clients, d \in Dirs : Bound(i, c, d) /\ Kept(i, c, d)

-----------------------------------------------------------------------------
(* Types.                                                                  *)

\* No traffic is traffic, and sums of traffic are.
LEMMA TrafficType ==
  /\ NoTraffic \in Traffic
  /\ \A t \in Traffic, u \in Traffic : Plus(t, u) \in Traffic
  /\ \A t \in Traffic, c \in Clients, d \in Dirs : t[c] \in Counters /\ t[c][d] \in Nat
<1>1. NoTraffic \in Traffic
  BY DEF NoTraffic, Traffic, Counters
<1>2. \A t \in Traffic, c \in Clients, d \in Dirs : t[c] \in Counters /\ t[c][d] \in Nat
  BY DEF Traffic, Counters
<1>3. ASSUME NEW t \in Traffic, NEW u \in Traffic PROVE Plus(t, u) \in Traffic
  <2>1. ASSUME NEW c \in Clients, NEW d \in Dirs PROVE t[c][d] + u[c][d] \in Nat
    BY <1>2
  <2>. QED  BY <2>1 DEF Plus, Traffic, Counters
<1>. QED  BY <1>1, <1>2, <1>3

\* The report made of the counters.
LEMMA NewReportType ==
  ASSUME TypeOK
  PROVE  /\ Delta \in Traffic
         /\ NewReport \in Report
         /\ NewReport.seq = sync.seq /\ NewReport.data = Delta
         /\ \A c \in Clients : NewReport.snap[c] = IF c \in Changed THEN audit.bytes[c] ELSE NoTraffic[c]
<1>1. audit.bytes \in Traffic /\ sync.base \in Traffic /\ sync.seq \in Nat
  BY DEF TypeOK, Audit, Sync
<1>2. ASSUME NEW c \in Clients, NEW d \in Dirs
      PROVE  (IF audit.bytes[c][d] >= sync.base[c][d] THEN audit.bytes[c][d] - sync.base[c][d] ELSE 0) \in Nat
  <2>. DEFINE held == audit.bytes[c][d]
              base == sync.base[c][d]
  <2>1. held \in Nat /\ base \in Nat
    BY <1>1, TrafficType
  <2>. HIDE DEF held, base
  <2>2. (IF held >= base THEN held - base ELSE 0) \in Nat
    BY <2>1
  <2>. QED  BY Zenon, <2>2 DEF held, base
<1>3. Delta \in Traffic
  BY Zenon, <1>2 DEF Delta, Traffic, Counters
<1>4. ASSUME NEW c \in Clients
      PROVE  (IF c \in Changed THEN audit.bytes[c] ELSE NoTraffic[c]) \in Counters
  <2>1. audit.bytes[c] \in Counters /\ NoTraffic[c] \in Counters
    BY <1>1, TrafficType DEF Traffic
  <2>. QED  BY <2>1
<1>5. [c \in Clients |-> IF c \in Changed THEN audit.bytes[c] ELSE NoTraffic[c]] \in Traffic
  BY <1>4 DEF Traffic
<1>. QED  BY <1>1, <1>3, <1>5 DEF NewReport, Report

\* What the properties add up is made of natural numbers.
LEMMA Parts ==
  ASSUME TypeOK, NEW c \in Clients, NEW d \in Dirs
  PROVE  /\ Held(c, d) \in Nat /\ sync.base[c][d] \in Nat
         /\ sync.pending.data[c][d] \in Nat /\ sync.pending.snap[c][d] \in Nat
         /\ Outstanding(c, d) \in Nat /\ Base(c, d) \in Nat /\ Ahead(c, d) \in Nat
         /\ \A i \in Process : Billed(i, c, d) \in Nat /\ Relayed(i, c, d) \in Nat
         /\ \A m \in net : m \in Request /\ m.id \in Process /\ m.seq \in Nat /\ Adds(m, c, d) \in Nat
<1>1. /\ audit.bytes \in Traffic /\ sync.base \in Traffic
      /\ sync.pending.data \in Traffic /\ sync.pending.snap \in Traffic
  BY DEF TypeOK, Audit, Sync, Report
<1>2. /\ Held(c, d) \in Nat /\ sync.base[c][d] \in Nat
      /\ sync.pending.data[c][d] \in Nat /\ sync.pending.snap[c][d] \in Nat
  BY Zenon, <1>1, TrafficType DEF Held
<1>3. Outstanding(c, d) \in Nat /\ Base(c, d) \in Nat
  BY Zenon, <1>2 DEF Outstanding, Base
<1>4. Ahead(c, d) \in Nat
  BY <1>2, <1>3 DEF Ahead
<1>5. ASSUME NEW i \in Process
      PROVE  Billed(i, c, d) \in Nat /\ Relayed(i, c, d) \in Nat
  <2>1. panel.billed[i] \in Traffic /\ carried[i] \in Traffic
    BY DEF TypeOK, Panel
  <2>. QED  BY Zenon, <2>1, TrafficType DEF Billed, Relayed
<1>6. ASSUME NEW m \in net
      PROVE  m \in Request /\ m.id \in Process /\ m.seq \in Nat /\ Adds(m, c, d) \in Nat
  <2>1. m \in Request
    BY DEF TypeOK
  <2>2. m.id \in Process /\ m.seq \in Nat /\ m.data \in Traffic
    BY <2>1 DEF Request
  <2>. QED  BY <2>1, <2>2, TrafficType DEF Adds
<1>. QED  BY Zenon, <1>2, <1>3, <1>4, <1>5, <1>6

-----------------------------------------------------------------------------
(* What the steps preserve.                                                *)

\* What is counted changes only with the books it is in.
LEMMA SameBooks ==
  ASSUME NEW i, NEW c, NEW d
  PROVE  /\ panel'.billed = panel.billed => Billed(i, c, d)' = Billed(i, c, d)
         /\ carried' = carried => Relayed(i, c, d)' = Relayed(i, c, d)
         /\ audit'.bytes = audit.bytes => Held(c, d)' = Held(c, d)
BY Zenon DEF Billed, Relayed, Held

\* The bounds go on when no report is added and the process goes on, if what its reports say
\* and will say still fits.
LEMMA BoundFrame ==
  ASSUME NEW i \in Process, NEW c \in Clients, NEW d \in Dirs, Bound(i, c, d),
         sync'.id = sync.id, net' = net, \A m \in net : Unseen(m)' => Unseen(m),
         Billed(i, c, d)' = Billed(i, c, d), Relayed(i, c, d)' = Relayed(i, c, d),
         i = sync.id => Billed(i, c, d) + Outstanding(c, d)' + Ahead(c, d)' <= Relayed(i, c, d)
  PROVE  Bound(i, c, d)'
BY DEF Bound

\* A client's books stay balanced when nothing of it changes.
LEMMA KeptFrame ==
  ASSUME NEW i \in Process, NEW c \in Clients, NEW d \in Dirs, Kept(i, c, d),
         sync'.id = sync.id, panel'.kept \subseteq panel.kept,
         Billed(i, c, d)' = Billed(i, c, d), Relayed(i, c, d)' = Relayed(i, c, d),
         c \in panel.kept => /\ Outstanding(c, d)' = Outstanding(c, d)
                             /\ Base(c, d)' = Base(c, d) /\ Held(c, d)' = Held(c, d)
  PROVE  Kept(i, c, d)'
BY DEF Kept

\* A step that leaves the reports, the counters and the panel's books alone.
LEMMA QuietStep ==
  ASSUME Inv, TypeOK', UsersOK', Running',
         sync'.id = sync.id, sync'.base = sync.base, sync'.seq = sync.seq,
         sync'.pending = sync.pending, audit'.bytes = audit.bytes, net' = net,
         panel'.seen = panel.seen, panel'.billed = panel.billed, panel'.kept \subseteq panel.kept,
         carried' = carried
  PROVE  Inv'
<1>1. NetOK'
  BY Zenon DEF Inv, NetOK, Unseen
<1>2. ASSUME NEW c \in Clients, NEW d \in Dirs
      PROVE  /\ Outstanding(c, d)' = Outstanding(c, d) /\ Base(c, d)' = Base(c, d)
             /\ Ahead(c, d)' = Ahead(c, d)
             /\ Held(c, d)' = Held(c, d)
  <2>1. Outstanding(c, d)' = Outstanding(c, d) /\ Base(c, d)' = Base(c, d)
    BY DEF Outstanding, Base
  <2>2. Held(c, d)' = Held(c, d)
    BY SameBooks
  <2>. QED  BY <2>1, <2>2 DEF Ahead
<1>3. ASSUME NEW i \in Process, NEW c \in Clients, NEW d \in Dirs PROVE Bound(i, c, d)' /\ Kept(i, c, d)'
  <2>1. Bound(i, c, d) /\ Kept(i, c, d)
    BY DEF Inv
  <2>2. Billed(i, c, d)' = Billed(i, c, d) /\ Relayed(i, c, d)' = Relayed(i, c, d)
    BY SameBooks
  <2>3. \A m \in net : Unseen(m)' => Unseen(m)
    BY Zenon DEF Unseen
  <2>4. i = sync.id => Billed(i, c, d) + Outstanding(c, d)' + Ahead(c, d)' <= Relayed(i, c, d)
    BY <1>2, <2>1 DEF Bound
  <2>5. Bound(i, c, d)'
    BY Zenon, <2>1, <2>2, <2>3, <2>4, BoundFrame
  <2>6. Kept(i, c, d)'
    BY Zenon, <1>2, <2>1, <2>2, KeptFrame
  <2>. QED  BY <2>5, <2>6
<1>. QED  BY <1>1, <1>3 DEF Inv

\* The steps of run, sync_once and the panel's administration of that kind.
LEMMA QuietStepsInv ==
  ASSUME Inv,
         \/ Stop \/ Tick \/ UsersAnswered \/ UsersFailed \/ NothingToPost \/ NotAnswered
         \/ \E c \in Clients : ChangeUser(c)
  PROVE  Inv'
<1>1. TypeOK /\ UsersOK /\ Running
  BY DEF Inv
<1>2. CASE Stop \/ Tick \/ UsersFailed \/ NothingToPost \/ NotAnswered
  <2>1. /\ sync'.id = sync.id /\ sync'.base = sync.base /\ sync'.seq = sync.seq
        /\ sync'.pending = sync.pending /\ sync' \in Sync /\ sync'.pc # "apply"
        /\ sync'.pc # "off" => sync.pc # "off"
        /\ UNCHANGED <<audit, net, panel, carried>>
    BY Zenon, <1>1, <1>2 DEF Stop, Tick, UsersFailed, NothingToPost, NotAnswered, TypeOK, Sync
  <2>2. TypeOK' /\ UsersOK' /\ Running'
    BY <1>1, <2>1 DEF TypeOK, UsersOK, Running
  <2>. QED  BY <2>1, <2>2, QuietStep
<1>3. CASE UsersAnswered
  <2>1. /\ sync'.id = sync.id /\ sync'.base = sync.base /\ sync'.seq = sync.seq
        /\ sync'.pending = sync.pending /\ sync' \in Sync /\ sync'.fetched = panel.users
        /\ sync.pc # "off"
        /\ UNCHANGED <<audit, net, panel, carried>>
    BY Zenon, <1>1, <1>3 DEF UsersAnswered, TypeOK, Sync, Panel
  <2>2. TypeOK' /\ UsersOK' /\ Running'
    BY <1>1, <2>1 DEF TypeOK, UsersOK, Running
  <2>. QED  BY <2>1, <2>2, QuietStep
<1>4. CASE \E c \in Clients : ChangeUser(c)
  <2>1. /\ panel' \in Panel /\ panel'.seen = panel.seen /\ panel'.billed = panel.billed
        /\ panel'.kept \subseteq panel.kept /\ panel'.kept \subseteq panel'.users
        /\ UNCHANGED <<audit, sync, net, carried>>
    <3>1. PICK c \in Clients : ChangeUser(c)
      BY Zenon, <1>4
    <3>. DEFINE users == IF c \in panel.users THEN panel.users \ {c} ELSE panel.users \cup {c}
                kept == panel.kept \ {c}
    <3>2. panel' = [panel EXCEPT !.users = users, !.kept = kept] /\ UNCHANGED <<audit, sync, net, carried>>
      BY Zenon, <3>1 DEF ChangeUser
    <3>3. /\ panel \in Panel /\ users \in SUBSET Clients /\ kept \in SUBSET Clients
          /\ kept \subseteq panel.kept /\ kept \subseteq users
      BY <1>1 DEF TypeOK, Panel, UsersOK
    <3>. HIDE DEF users, kept
    <3>4. /\ panel' \in Panel /\ panel'.users = users /\ panel'.kept = kept
          /\ panel'.seen = panel.seen /\ panel'.billed = panel.billed
      BY Zenon, <3>2, <3>3 DEF Panel
    <3>. QED  BY <3>2, <3>3, <3>4
  <2>2. TypeOK' /\ UsersOK' /\ Running'
    BY <1>1, <2>1 DEF TypeOK, UsersOK, Running
  <2>. QED  BY <2>1, <2>2, QuietStep
<1>. QED  BY <1>2, <1>3, <1>4

\* A new process has relayed, reported and been counted for nothing; what the one before
\* left on its way is bounded as it was.
LEMMA StartInv ==
  ASSUME Inv, Start
  PROVE  Inv'
<1>. DEFINE j == sync.id + 1
<1>1. /\ TypeOK /\ NetOK /\ UsersOK /\ j \in Process /\ sync.id \in Nat
      /\ \A i \in Process, c \in Clients, d \in Dirs : Bound(i, c, d)
  BY PanelAssumption DEF Inv, Start, TypeOK, Sync, Process
<1>2. /\ sync' = NewSync(j) /\ audit' = [users |-> panel.users, bytes |-> NoTraffic]
      /\ UNCHANGED <<net, panel, carried>>
  BY DEF Start
<1>3. /\ sync' \in Sync /\ sync'.id = j /\ sync'.base = NoTraffic /\ sync'.seq = 1
      /\ sync'.pending = NoReport /\ sync'.pc = "tick"
  BY <1>1, <1>2, TrafficType DEF NewSync, Sync, Report, NoReport
<1>. HIDE DEF j
<1>4. TypeOK'
  BY Zenon, <1>1, <1>2, <1>3, TrafficType DEF TypeOK, Audit, Panel
<1>5. NetOK'
  <2>1. \A m \in net : m.id \in Process /\ m.id < j
    BY <1>1 DEF NetOK, j, TypeOK, Request, Process
  <2>2. \A i \in Process, q \in Nat : <<i, q>> \in panel.seen => i < j
    BY <1>1 DEF NetOK, j, Process
  <2>3. \A m \in net : m.id # j
    BY <2>1, <1>1 DEF Process
  <2>. QED  BY <1>1, <1>2, <1>3, <2>1, <2>2, <2>3 DEF NetOK, Unseen, Process
<1>6. UsersOK'
  BY <1>1, <1>2, <1>3 DEF UsersOK
<1>7. ASSUME NEW c \in Clients, NEW d \in Dirs
      PROVE  /\ Outstanding(c, d)' = 0 /\ Base(c, d)' = 0 /\ Ahead(c, d)' = 0 /\ Held(c, d)' = 0
             /\ Billed(j, c, d) = 0 /\ Relayed(j, c, d) = 0
  <2>1. \A e \in Dirs : NoReport.data[c][e] = 0
    BY DEF NoReport, NoTraffic
  <2>2. NoTraffic[c][d] = 0
    BY DEF NoTraffic
  <2>3. Billed(j, c, d) = 0 /\ Relayed(j, c, d) = 0
    BY <1>1 DEF Bound, j
  <2>4. Outstanding(c, d)' = 0
    BY <1>3 DEF Outstanding
  <2>5. Base(c, d)' = 0
    BY <1>3, <2>1, <2>2 DEF Base
  <2>6. Held(c, d)' = 0
    BY <1>2, <2>2 DEF Held
  <2>7. Ahead(c, d)' = 0
    BY <2>5, <2>6 DEF Ahead
  <2>. QED  BY <2>3, <2>4, <2>5, <2>6, <2>7
<1>8. ASSUME NEW i \in Process, NEW c \in Clients, NEW d \in Dirs PROVE Bound(i, c, d)' /\ Kept(i, c, d)'
  <2>1. Bound(i, c, d) /\ i \in Nat
    BY <1>1 DEF Process
  <2>2. i > j => i > sync.id
    BY <2>1, <1>1 DEF j
  <2>3. Billed(i, c, d)' = Billed(i, c, d) /\ Relayed(i, c, d)' = Relayed(i, c, d)
    BY <1>2, SameBooks
  <2>4. net' = net /\ \A m \in net : Unseen(m)' <=> Unseen(m)
    BY <1>2 DEF Unseen
  <2>5. i = j => Billed(i, c, d) = 0 /\ Relayed(i, c, d) = 0
    BY Zenon, <1>7
  <2>6. Bound(i, c, d)'
    BY <1>3, <1>7, <2>1, <2>2, <2>3, <2>4, <2>5 DEF Bound
  <2>7. Kept(i, c, d)'
    BY <1>3, <1>7, <2>3, <2>5 DEF Kept
  <2>. QED  BY <2>6, <2>7
<1>9. Running'
  BY <1>1, <1>3 DEF Running
<1>. QED  BY <1>4, <1>5, <1>6, <1>8, <1>9 DEF Inv

\* A relayed byte is counted in the audit or not at all.
LEMMA CarryInv ==
  ASSUME Inv, NEW k \in Clients, Carry(k)
  PROVE  Inv'
<1>1. /\ TypeOK /\ NetOK /\ UsersOK /\ sync.id \in Process
      /\ \A i \in Process, c \in Clients, d \in Dirs : Bound(i, c, d) /\ Kept(i, c, d)
  BY Zenon DEF Inv, Carry
<1>2. UNCHANGED <<sync, net, panel>>
  BY Zenon DEF Carry
<1>3. PICK n \in [Dirs -> {0, 1}] :
        LET more == [x \in Clients |-> [d \in Dirs |-> IF x = k THEN n[d] ELSE 0]]
            sum == Plus(carried[sync.id], more)
        IN  /\ carried' = [carried EXCEPT ![sync.id] = sum]
            /\ audit' = IF k \notin audit.users THEN audit
                        ELSE [audit EXCEPT !.bytes = Plus(@, more)]
  BY Zenon DEF Carry
<1>. DEFINE more == [x \in Clients |-> [d \in Dirs |-> IF x = k THEN n[d] ELSE 0]]
            sum == Plus(carried[sync.id], more)
<1>4. /\ carried' = [carried EXCEPT ![sync.id] = sum]
      /\ audit' = IF k \notin audit.users THEN audit ELSE [audit EXCEPT !.bytes = Plus(@, more)]
  BY <1>3
<1>5. more \in Traffic
  <2>1. ASSUME NEW x \in Clients, NEW d \in Dirs PROVE (IF x = k THEN n[d] ELSE 0) \in Nat
    OBVIOUS
  <2>. QED  BY <2>1 DEF Traffic, Counters
<1>6. sum \in Traffic
  BY <1>1, <1>5, TrafficType DEF TypeOK
<1>7. ASSUME NEW c \in Clients, NEW d \in Dirs
      PROVE  /\ sum[c][d] = Relayed(sync.id, c, d) + more[c][d]
             /\ Plus(audit.bytes, more)[c][d] = Held(c, d) + more[c][d]
             /\ c # k => more[c][d] = 0
  <2>1. c # k => more[c][d] = 0
    OBVIOUS
  <2>. HIDE DEF more
  <2>. QED  BY <2>1 DEF Plus, Relayed, Held
<1>. HIDE DEF more, sum
<1>8. TypeOK'
  <2>1. carried' \in [Process -> Traffic]
    BY <1>1, <1>4, <1>6 DEF TypeOK
  <2>2. Plus(audit.bytes, more) \in Traffic
    BY <1>1, <1>5, TrafficType DEF TypeOK, Audit
  <2>3. audit' \in Audit
    BY <1>1, <1>4, <2>2 DEF TypeOK, Audit
  <2>. QED  BY <1>1, <1>2, <2>1, <2>3 DEF TypeOK
<1>9. NetOK'
  BY Zenon, <1>1, <1>2 DEF NetOK, Unseen
<1>10. audit'.users = audit.users
  BY <1>1, <1>4 DEF TypeOK, Audit
<1>11. UsersOK'
  BY Zenon, <1>1, <1>2, <1>10 DEF UsersOK
<1>12. ASSUME NEW c \in Clients, NEW d \in Dirs
       PROVE  /\ Outstanding(c, d)' = Outstanding(c, d) /\ Base(c, d)' = Base(c, d)
              /\ Held(c, d)' \in {Held(c, d), Held(c, d) + more[c][d]}
              /\ c \in audit.users => Held(c, d)' = Held(c, d) + more[c][d]
              /\ \A i \in Process : Relayed(i, c, d)' =
                   IF i = sync.id THEN Relayed(i, c, d) + more[c][d] ELSE Relayed(i, c, d)
              /\ more[c][d] \in Nat
  <2>1. Outstanding(c, d)' = Outstanding(c, d) /\ Base(c, d)' = Base(c, d)
    BY <1>2 DEF Outstanding, Base
  <2>2. more[c][d] \in Nat /\ Held(c, d) \in Nat
    BY Zenon, <1>1, <1>5, TrafficType, Parts
  <2>3. k \in audit.users => audit'.bytes = Plus(audit.bytes, more)
    BY <1>1, <1>4 DEF TypeOK, Audit
  <2>4. k \notin audit.users => Held(c, d)' = Held(c, d)
    BY <1>4, SameBooks
  <2>5. /\ sum[c][d] = Relayed(sync.id, c, d) + more[c][d]
        /\ Plus(audit.bytes, more)[c][d] = Held(c, d) + more[c][d]
        /\ c # k => more[c][d] = 0
    BY Zenon, <1>7
  <2>6. k \in audit.users => Held(c, d)' = Held(c, d) + more[c][d]
    BY Zenon, <2>3, <2>5 DEF Held
  <2>7. ASSUME NEW i \in Process
        PROVE  Relayed(i, c, d)' =
                 IF i = sync.id THEN Relayed(i, c, d) + more[c][d] ELSE Relayed(i, c, d)
    <3>1. carried'[i] = IF i = sync.id THEN sum ELSE carried[i]
      BY Zenon, <1>1, <1>4 DEF TypeOK
    <3>. QED  BY Zenon, <3>1, <2>5 DEF Relayed
  <2>8. c \in audit.users => Held(c, d)' = Held(c, d) + more[c][d]
    BY <2>2, <2>4, <2>5, <2>6
  <2>. QED  BY <2>1, <2>2, <2>4, <2>6, <2>7, <2>8
<1>13. ASSUME NEW c \in Clients, NEW d \in Dirs
       PROVE  Ahead(c, d)' <= Ahead(c, d) + more[c][d] /\ Ahead(c, d)' \in Nat
  <2>1. Held(c, d) \in Nat /\ Base(c, d) \in Nat /\ more[c][d] \in Nat
    BY Zenon, <1>1, <1>12, Parts
  <2>2. Base(c, d)' = Base(c, d) /\ Held(c, d)' \in {Held(c, d), Held(c, d) + more[c][d]}
    BY <1>12
  <2>. QED  BY <2>1, <2>2 DEF Ahead
<1>14. ASSUME NEW i \in Process, NEW c \in Clients, NEW d \in Dirs PROVE Bound(i, c, d)'
  <2>1. /\ Bound(i, c, d) /\ sync'.id = sync.id /\ net' = net
        /\ \A m \in net : Unseen(m)' <=> Unseen(m)
    BY Zenon, <1>1, <1>2 DEF Unseen
  <2>2. Billed(i, c, d)' = Billed(i, c, d)
    BY <1>2, SameBooks
  <2>. DEFINE billed == Billed(i, c, d)
              out == Outstanding(c, d)
              ahead == Ahead(c, d)
              ahead2 == Ahead(c, d)'
              all == Relayed(i, c, d)
              grown == more[c][d]
  <2>3. /\ billed \in Nat /\ all \in Nat /\ out \in Nat /\ ahead \in Nat /\ ahead2 \in Nat
        /\ grown \in Nat /\ \A m \in net : Adds(m, c, d) \in Nat
    BY Zenon, <1>1, <1>12, <1>13, Parts
  <2>4. /\ Relayed(i, c, d)' = IF i = sync.id THEN all + grown ELSE all
        /\ ahead2 <= ahead + grown /\ Outstanding(c, d)' = out
    BY Zenon, <1>12, <1>13
  <2>5. /\ billed <= all
        /\ \A m \in net : m.id = i /\ Unseen(m) => billed + Adds(m, c, d) <= all
        /\ i = sync.id => billed + out + ahead <= all
        /\ i > sync.id => billed = 0 /\ all = 0
    BY Zenon, <2>1 DEF Bound
  <2>6. sync.id \in Nat
    BY <1>1 DEF Process
  <2>. HIDE DEF billed, out, ahead, ahead2, all, grown
  <2>7. /\ billed <= Relayed(i, c, d)'
        /\ \A m \in net : m.id = i /\ Unseen(m) => billed + Adds(m, c, d) <= Relayed(i, c, d)'
    BY <2>3, <2>4, <2>5
  <2>8. i = sync.id => billed + out + ahead2 <= Relayed(i, c, d)'
    BY <2>3, <2>4, <2>5
  <2>9. i > sync.id => billed = 0 /\ Relayed(i, c, d)' = 0
    BY <2>4, <2>5, <2>6
  <2>10. Billed(i, c, d)' = billed /\ Outstanding(c, d)' = out /\ Ahead(c, d)' = ahead2
    BY Zenon, <2>2, <2>4 DEF billed, ahead2
  <2>. QED  BY Zenon, <2>1, <2>7, <2>8, <2>9, <2>10 DEF Bound
<1>15. ASSUME NEW i \in Process, NEW c \in Clients, NEW d \in Dirs PROVE Kept(i, c, d)'
  <2>1. panel.kept \subseteq audit.users /\ panel'.kept = panel.kept /\ sync'.id = sync.id
    BY Zenon, <1>1, <1>2 DEF UsersOK
  <2>. DEFINE grown == more[c][d]
              all == Relayed(i, c, d)
              out == Billed(i, c, d) + Outstanding(c, d)
              bytes == Held(c, d)
              base == Base(c, d)
  <2>2. grown \in Nat /\ all \in Nat /\ out \in Nat /\ bytes \in Nat /\ base \in Nat
    <3>1. /\ grown \in Nat /\ all \in Nat /\ bytes \in Nat /\ base \in Nat
          /\ Billed(i, c, d) \in Nat /\ Outstanding(c, d) \in Nat
      BY Zenon, <1>1, <1>12, Parts
    <3>. QED  BY <3>1
  <2>3. i = sync.id => Relayed(i, c, d)' = all + grown
    BY <1>12
  <2>4. Outstanding(c, d)' = Outstanding(c, d) /\ Base(c, d)' = base
    BY Zenon, <1>12
  <2>5. Billed(i, c, d)' = Billed(i, c, d)
    BY <1>2, SameBooks
  <2>6. c \in panel.kept => Held(c, d)' = bytes + grown
    BY Zenon, <1>12, <2>1
  <2>7. c \in panel.kept /\ i = sync.id => base <= bytes /\ all = out + (bytes - base)
    BY Zenon, <1>1 DEF Kept
  <2>. HIDE DEF grown, all, bytes, base
  <2>8. c \in panel.kept /\ i = sync.id =>
          base <= bytes + grown /\ all + grown = out + ((bytes + grown) - base)
    <3>. HIDE DEF out
    <3>. QED  BY <2>2, <2>7
  <2>. QED  BY Zenon, <2>1, <2>3, <2>4, <2>5, <2>6, <2>8 DEF Kept
<1>16. Running'
  BY <1>1, <1>2 DEF Running
<1>. QED  BY <1>8, <1>9, <1>11, <1>14, <1>15, <1>16 DEF Inv

\* A client that went missing takes with it what was not reported yet, and what was
\* reported before.
LEMMA UsersAppliedInv ==
  ASSUME Inv, UsersApplied
  PROVE  Inv'
<1>. DEFINE removed == audit.users \ sync.fetched
            Without(t) == [c \in Clients |-> IF c \in removed THEN NoTraffic[c] ELSE t[c]]
<1>1. /\ TypeOK /\ NetOK /\ UsersOK /\ sync.pc = "apply"
      /\ \A i \in Process, c \in Clients, d \in Dirs : Bound(i, c, d) /\ Kept(i, c, d)
  BY DEF Inv, UsersApplied
<1>2. /\ audit' = [users |-> sync.fetched, bytes |-> Without(audit.bytes)]
      /\ sync' = [sync EXCEPT !.pc = "report", !.base = Without(sync.base)]
      /\ UNCHANGED <<net, panel, carried>>
  BY DEF UsersApplied
<1>3. /\ audit.bytes \in Traffic /\ sync.base \in Traffic /\ sync \in Sync
      /\ sync.fetched \in SUBSET Clients
  BY Zenon, <1>1 DEF TypeOK, Audit, Sync
<1>4. ASSUME NEW t \in Traffic
      PROVE  /\ Without(t) \in Traffic
             /\ \A c \in Clients, d \in Dirs : Without(t)[c][d] = IF c \in removed THEN 0 ELSE t[c][d]
  <2>1. ASSUME NEW c \in Clients PROVE (IF c \in removed THEN NoTraffic[c] ELSE t[c]) \in Counters
    BY TrafficType DEF Traffic
  <2>2. \A c \in Clients, d \in Dirs : NoTraffic[c][d] = 0
    BY Zenon DEF NoTraffic
  <2>. QED  BY <2>1, <2>2 DEF Traffic
<1>5. panel.kept \cap removed = {}
  BY <1>1 DEF UsersOK
<1>. HIDE DEF removed, Without
<1>6. /\ sync' \in Sync /\ sync'.id = sync.id /\ sync'.seq = sync.seq /\ sync'.pc = "report"
      /\ sync'.pending = sync.pending /\ sync'.base = Without(sync.base)
      /\ audit'.bytes = Without(audit.bytes) /\ audit'.users = sync.fetched
  BY Zenon, <1>2, <1>3, <1>4 DEF Sync
<1>7. TypeOK'
  BY <1>1, <1>2, <1>3, <1>4, <1>6 DEF TypeOK, Audit
<1>8. NetOK'
  BY Zenon, <1>1, <1>2, <1>6 DEF NetOK, Unseen
<1>9. UsersOK'
  BY <1>1, <1>2, <1>6 DEF UsersOK
<1>10. ASSUME NEW c \in Clients, NEW d \in Dirs
       PROVE  /\ Outstanding(c, d)' = Outstanding(c, d)
              /\ Ahead(c, d)' <= Ahead(c, d) /\ Ahead(c, d) \in Nat /\ Ahead(c, d)' \in Nat
              /\ c \in panel.kept =>
                   Base(c, d)' = Base(c, d) /\ Held(c, d)' = Held(c, d)
  <2>1. Outstanding(c, d)' = Outstanding(c, d)
    BY <1>2, <1>6 DEF Outstanding
  <2>2. /\ Held(c, d)' = IF c \in removed THEN 0 ELSE Held(c, d)
        /\ sync'.base[c][d] = IF c \in removed THEN 0 ELSE sync.base[c][d]
    BY <1>3, <1>4, <1>6 DEF Held
  <2>3. /\ Ahead(c, d) \in Nat /\ Held(c, d) \in Nat
        /\ sync.base[c][d] \in Nat /\ sync.pending.snap[c][d] \in Nat
    BY Zenon, <1>1, Parts
  <2>4. CASE c \in removed
    <3>1. Base(c, d)' \in Nat /\ Held(c, d)' = 0
      BY <1>6, <2>2, <2>3, <2>4 DEF Base
    <3>2. Ahead(c, d)' = 0
      BY <3>1 DEF Ahead
    <3>. QED  BY <1>5, <2>1, <2>3, <2>4, <3>2
  <2>5. CASE c \notin removed
    <3>1. Base(c, d)' = Base(c, d) /\ Held(c, d)' = Held(c, d)
      BY Zenon, <1>6, <2>2, <2>5 DEF Base
    <3>2. Ahead(c, d)' = Ahead(c, d)
      BY <3>1 DEF Ahead
    <3>. QED  BY <2>1, <2>3, <3>1, <3>2
  <2>. QED  BY <2>4, <2>5
<1>11. ASSUME NEW i \in Process, NEW c \in Clients, NEW d \in Dirs PROVE Bound(i, c, d)'
  <2>1. /\ Bound(i, c, d) /\ Outstanding(c, d) \in Nat
        /\ Billed(i, c, d) \in Nat /\ Relayed(i, c, d) \in Nat
    BY Zenon, <1>1, Parts
  <2>2. i = sync.id => Billed(i, c, d) + Outstanding(c, d)' + Ahead(c, d)' <= Relayed(i, c, d)
    <3>1. i = sync.id => Billed(i, c, d) + Outstanding(c, d) + Ahead(c, d) <= Relayed(i, c, d)
      BY <2>1 DEF Bound
    <3>. QED  BY <1>10, <2>1, <3>1
  <2>3. /\ sync'.id = sync.id /\ net' = net /\ panel' = panel
        /\ \A m \in net : Unseen(m)' => Unseen(m)
    BY <1>2, <1>6 DEF Unseen
  <2>4. Billed(i, c, d)' = Billed(i, c, d) /\ Relayed(i, c, d)' = Relayed(i, c, d)
    BY <1>2, SameBooks
  <2>. QED  BY Zenon, <2>1, <2>2, <2>3, <2>4, BoundFrame
<1>12. ASSUME NEW i \in Process, NEW c \in Clients, NEW d \in Dirs PROVE Kept(i, c, d)'
  <2>1. Kept(i, c, d) /\ sync'.id = sync.id /\ panel' = panel
    BY <1>1, <1>2, <1>6
  <2>2. Billed(i, c, d)' = Billed(i, c, d) /\ Relayed(i, c, d)' = Relayed(i, c, d)
    BY <1>2, SameBooks
  <2>. QED  BY Zenon, <1>10, <2>1, <2>2, KeptFrame
<1>13. Running'
  BY Zenon, <1>6 DEF Inv, Running, UsersApplied
<1>. QED  BY <1>7, <1>8, <1>9, <1>11, <1>12, <1>13 DEF Inv

\* A new report takes over what the next report would have said; a repeated one is the
\* report that was pending.
LEMMA PostInv ==
  ASSUME Inv, Post
  PROVE  Inv'
<1>. DEFINE new == sync.pending = NoReport
            report == IF new THEN NewReport ELSE sync.pending
<1>1. /\ TypeOK /\ NetOK /\ UsersOK /\ sync.pc = "report" /\ sync.id \in Process
      /\ \A i \in Process, c \in Clients, d \in Dirs : Bound(i, c, d) /\ Kept(i, c, d)
  BY DEF Inv, Running, Post
<1>2. /\ sync' = [sync EXCEPT !.pc = "answer", !.pending = report,
                              !.seq = IF new THEN sync.seq + 1 ELSE sync.seq]
      /\ net' = net \cup {RequestOf(sync.id, report)}
      /\ UNCHANGED <<audit, panel, carried>>
  BY DEF Post
<1>3. /\ sync \in Sync /\ sync.seq \in Nat /\ sync.seq + 1 \in Nat /\ sync.pending \in Report
      /\ sync.id \in Nat
  BY <1>1 DEF TypeOK, Sync, Process
<1>4. report \in Report
  BY Zenon, <1>1, <1>3, NewReportType
<1>5. RequestOf(sync.id, report) \in Request /\ RequestOf(sync.id, report).id = sync.id
  BY Zenon, <1>1, <1>4 DEF RequestOf, Request, Report
<1>6. /\ report # NoReport
      /\ new => report.seq = sync.seq /\ report.data = Delta
      /\ ~new => report = sync.pending /\ report.seq < sync.seq
  <2>1. NoReport.seq = 0 /\ NewReport.seq = sync.seq /\ NewReport.data = Delta
    BY <1>1, NewReportType DEF NoReport
  <2>. QED  BY <1>1, <1>3, <2>1 DEF NetOK
<1>7. /\ sync' \in Sync /\ sync'.id = sync.id /\ sync'.pc = "answer" /\ sync'.base = sync.base
      /\ sync'.pending = report /\ sync'.seq = IF new THEN sync.seq + 1 ELSE sync.seq
  BY Zenon, <1>2, <1>3, <1>4 DEF Sync
<1>8. new => \A c \in Clients : report.snap[c] = IF c \in Changed THEN audit.bytes[c] ELSE NoTraffic[c]
  BY Zenon, <1>1, NewReportType
<1>9. report.seq \in Nat /\ (new => <<sync.id, report.seq>> \notin panel.seen)
  BY <1>1, <1>3, <1>4, <1>6 DEF NetOK, Report
<1>. HIDE DEF report
<1>10. TypeOK'
  BY <1>1, <1>2, <1>5, <1>7 DEF TypeOK
<1>11. ASSUME NEW m \in net', m.id = sync.id, Unseen(m)'
       PROVE  m = RequestOf(sync.id, report)
  BY Zenon, <1>1, <1>2, <1>6, <1>11 DEF NetOK, Unseen
<1>12. NetOK'
  <2>1. sync'.seq > 0 /\ report.seq < sync'.seq /\ sync'.seq >= sync.seq /\ sync'.seq \in Nat
    <3>. DEFINE s == sync.seq
                n == report.seq
    <3>1. s > 0 /\ s \in Nat /\ n \in Nat
      BY Zenon, <1>1, <1>3, <1>9 DEF NetOK
    <3>2. (new => n = s) /\ (~new => n < s) /\ sync'.seq = IF new THEN s + 1 ELSE s
      BY Zenon, <1>6, <1>7
    <3>. HIDE DEF s, n, new
    <3>3. LET u == IF new THEN s + 1 ELSE s IN u > 0 /\ n < u /\ u >= s /\ u \in Nat
      BY <3>1, <3>2
    <3>. QED  BY Zenon, <3>2, <3>3 DEF s, n
  <2>2. \A m \in net' : m.id <= sync.id
    BY <1>1, <1>2, <1>3, <1>5 DEF NetOK
  <2>3. \A i \in Process, q \in Nat :
          <<i, q>> \in panel.seen => i <= sync.id /\ (i = sync.id => q < sync'.seq)
    BY <1>1, <1>3, <2>1 DEF NetOK
  <2>4. ASSUME NEW m \in net', NEW n \in net', m.id = n.id, Unseen(m)', Unseen(n)'
        PROVE  m = n
    <3>1. CASE m.id = sync.id
      BY Zenon, <1>11, <2>4, <3>1
    <3>2. CASE m.id # sync.id
      <4>1. m \in net /\ n \in net
        BY <1>2, <1>5, <2>4, <3>2
      <4>. QED  BY Zenon, <1>1, <1>2, <2>4, <4>1 DEF NetOK, Unseen
    <3>. QED  BY <3>1, <3>2
  <2>. QED  BY Zenon, <1>2, <1>6, <1>7, <1>11, <2>1, <2>2, <2>3, <2>4 DEF NetOK
<1>13. UsersOK' /\ Running'
  BY Zenon, <1>1, <1>2, <1>7 DEF UsersOK, Running
<1>14. ASSUME NEW c \in Clients, NEW d \in Dirs
       PROVE  /\ Outstanding(c, d)' \in Nat /\ Ahead(c, d)' \in Nat /\ Base(c, d)' \in Nat
              /\ Outstanding(c, d)' + Ahead(c, d)' = Outstanding(c, d) + Ahead(c, d)
              /\ Base(c, d) <= Held(c, d) =>
                   /\ Base(c, d)' <= Held(c, d)
                   /\ Outstanding(c, d)' + (Held(c, d) - Base(c, d)')
                        = Outstanding(c, d) + (Held(c, d) - Base(c, d))
  <2>1. /\ Held(c, d) \in Nat /\ sync.base[c][d] \in Nat
        /\ Outstanding(c, d) \in Nat /\ Base(c, d) \in Nat /\ Ahead(c, d) \in Nat
    BY Zenon, <1>1, Parts
  <2>2. Held(c, d)' = Held(c, d)
    BY Zenon, <1>2, SameBooks
  <2>3. CASE ~new
    <3>1. Outstanding(c, d)' = Outstanding(c, d) /\ Base(c, d)' = Base(c, d) /\ Ahead(c, d)' = Ahead(c, d)
      <4>1. Outstanding(c, d)' = Outstanding(c, d) /\ Base(c, d)' = Base(c, d)
        <5>1. /\ sync'.pending = sync.pending /\ sync'.id = sync.id /\ sync'.base = sync.base
              /\ panel' = panel
          BY Zenon, <1>2, <1>6, <1>7, <2>3
        <5>. QED  BY Zenon, <5>1 DEF Outstanding, Base
      <4>. QED  BY <2>2, <4>1 DEF Ahead
    <3>. QED  BY Zenon, <2>1, <3>1
  <2>4. CASE new
    <3>1. Outstanding(c, d) = 0 /\ Base(c, d) = sync.base[c][d]
      <4>1. \A e \in Dirs : NoReport.data[c][e] = 0
        BY DEF NoReport, NoTraffic
      <4>. QED  BY Zenon, <2>4, <4>1 DEF Outstanding, Base
    <3>2. Delta[c][d] = IF Held(c, d) >= sync.base[c][d] THEN Held(c, d) - sync.base[c][d] ELSE 0
      BY DEF Delta, Held
    <3>3. Outstanding(c, d)' = Delta[c][d]
      BY Zenon, <1>2, <1>6, <1>7, <1>9, <2>4 DEF Outstanding
    <3>4. CASE c \in Changed
      <4>1. Base(c, d)' = Held(c, d)
        <5>1. report.snap[c] = audit.bytes[c] /\ \E e \in Dirs : report.data[c][e] # 0
          BY Zenon, <1>6, <1>8, <2>4, <3>4 DEF Changed
        <5>. QED  BY Zenon, <1>7, <5>1 DEF Base, Held
      <4>2. Ahead(c, d)' = 0
        BY <2>1, <2>2, <4>1 DEF Ahead
      <4>. DEFINE base == sync.base[c][d]
                  delta == Delta[c][d]
      <4>3. /\ base \in Nat /\ Base(c, d) = base /\ Outstanding(c, d)' = delta
            /\ delta = IF Held(c, d) >= base THEN Held(c, d) - base ELSE 0
        BY Zenon, <2>1, <3>1, <3>2, <3>3
      <4>. HIDE DEF base, delta
      <4>. QED  BY <2>1, <3>1, <4>1, <4>2, <4>3 DEF Ahead
    <3>5. CASE c \notin Changed
      <4>1. Base(c, d)' = sync.base[c][d] /\ Delta[c][d] = 0
        BY Zenon, <1>6, <1>7, <2>4, <3>5 DEF Base, Changed
      <4>2. Ahead(c, d)' = Ahead(c, d)
        BY Zenon, <2>2, <3>1, <4>1 DEF Ahead
      <4>. QED  BY Zenon, <2>1, <3>1, <3>3, <4>1, <4>2
    <3>. QED  BY <3>4, <3>5
  <2>. QED  BY <2>3, <2>4
<1>15. ASSUME NEW i \in Process, NEW c \in Clients, NEW d \in Dirs PROVE Bound(i, c, d)'
  <2>1. /\ Bound(i, c, d) /\ Outstanding(c, d) \in Nat /\ Ahead(c, d) \in Nat
        /\ Billed(i, c, d) \in Nat /\ Relayed(i, c, d) \in Nat
    BY Zenon, <1>1, Parts
  <2>2. i = sync.id => Billed(i, c, d) + Outstanding(c, d)' + Ahead(c, d)' <= Relayed(i, c, d)
    <3>1. i = sync.id => Billed(i, c, d) + Outstanding(c, d) + Ahead(c, d) <= Relayed(i, c, d)
      BY <2>1 DEF Bound
    <3>. QED  BY <1>14, <2>1, <3>1
  <2>3. ASSUME NEW m \in net', m.id = i, Unseen(m)'
        PROVE  Billed(i, c, d) + Adds(m, c, d) <= Relayed(i, c, d)
    <3>1. CASE i = sync.id
      <4>1. m.data = report.data /\ m.seq = report.seq
        BY <1>11, <2>3, <3>1 DEF RequestOf
      <4>2. Outstanding(c, d)' = Adds(m, c, d)
        <5>1. <<sync.id, report.seq>> \notin panel.seen
          BY <1>2, <2>3, <3>1, <4>1 DEF Unseen
        <5>. QED  BY <1>2, <1>6, <1>7, <4>1, <5>1 DEF Outstanding, Adds
      <4>. QED  BY <1>14, <2>1, <2>2, <3>1, <4>2
    <3>2. CASE i # sync.id
      <4>1. m \in net
        BY <1>2, <1>5, <2>3, <3>2
      <4>. QED  BY <1>2, <2>1, <2>3, <4>1 DEF Bound, Unseen
    <3>. QED  BY Zenon, <3>1, <3>2
  <2>4. Billed(i, c, d)' = Billed(i, c, d) /\ Relayed(i, c, d)' = Relayed(i, c, d)
    BY <1>2, SameBooks
  <2>5. sync'.id = sync.id
    BY Zenon, <1>7
  <2>. QED  BY <2>1, <2>2, <2>3, <2>4, <2>5 DEF Bound
<1>16. ASSUME NEW i \in Process, NEW c \in Clients, NEW d \in Dirs PROVE Kept(i, c, d)'
  <2>1. /\ Billed(i, c, d)' = Billed(i, c, d) /\ Relayed(i, c, d)' = Relayed(i, c, d)
        /\ Held(c, d)' = Held(c, d)
    BY <1>2, SameBooks
  <2>2. Kept(i, c, d) /\ sync'.id = sync.id /\ panel' = panel
    BY <1>1, <1>2, <1>7
  <2>. DEFINE billed == Billed(i, c, d)
              out == Outstanding(c, d)
              out2 == Outstanding(c, d)'
              bytes == Held(c, d)
              base == Base(c, d)
              base2 == Base(c, d)'
              all == Relayed(i, c, d)
  <2>3. /\ billed \in Nat /\ out \in Nat /\ out2 \in Nat /\ bytes \in Nat /\ base \in Nat
        /\ base2 \in Nat /\ all \in Nat
    BY Zenon, <1>1, <1>14, Parts
  <2>4. base <= bytes => base2 <= bytes /\ out2 + (bytes - base2) = out + (bytes - base)
    BY Zenon, <1>14
  <2>5. c \in panel.kept /\ i = sync.id => base <= bytes /\ all = billed + out + (bytes - base)
    BY Zenon, <2>2 DEF Kept
  <2>. HIDE DEF billed, out, out2, bytes, base, base2, all
  <2>6. c \in panel.kept /\ i = sync.id => base2 <= bytes /\ all = billed + out2 + (bytes - base2)
    BY <2>3, <2>4, <2>5
  <2>7. /\ Billed(i, c, d)' = billed /\ Relayed(i, c, d)' = all /\ Held(c, d)' = bytes
        /\ Outstanding(c, d)' = out2 /\ Base(c, d)' = base2
    BY Zenon, <2>1 DEF billed, all, bytes, out2, base2
  <2>. QED  BY <2>2, <2>6, <2>7 DEF Kept
<1>. QED  BY <1>10, <1>12, <1>13, <1>15, <1>16 DEF Inv

\* An answer turns what the pending report stands for into what was reported.
LEMMA AnsweredInv ==
  ASSUME Inv, Answered
  PROVE  Inv'
<1>. DEFINE p == sync.pending
            base == [c \in Clients |-> IF \E d \in Dirs : p.data[c][d] # 0 THEN p.snap[c] ELSE sync.base[c]]
<1>1. /\ TypeOK /\ NetOK /\ UsersOK /\ Running
      /\ sync.pc = "answer" /\ <<sync.id, p.seq>> \in panel.seen
      /\ \A i \in Process, c \in Clients, d \in Dirs : Bound(i, c, d) /\ Kept(i, c, d)
  BY DEF Inv, Answered
<1>2. /\ sync' = [sync EXCEPT !.pc = "tick", !.pending = NoReport, !.base = base]
      /\ UNCHANGED <<audit, net, panel, carried>>
  BY DEF Answered
<1>3. base \in Traffic
  <2>1. sync.base \in Traffic /\ p.snap \in Traffic
    BY Zenon, <1>1 DEF TypeOK, Sync, Report
  <2>. QED  BY Zenon, <2>1 DEF Traffic
<1>4. NoReport \in Report
  BY TrafficType DEF Report, NoReport
<1>5. ASSUME NEW c \in Clients, NEW d \in Dirs PROVE base[c][d] = Base(c, d)
  BY DEF Base
<1>. HIDE DEF base
<1>6. /\ sync' \in Sync /\ sync'.id = sync.id /\ sync'.seq = sync.seq /\ sync'.pc = "tick"
      /\ sync'.pending = NoReport /\ sync'.base = base
  BY Zenon, <1>1, <1>2, <1>3, <1>4 DEF TypeOK, Sync
<1>7. TypeOK'
  BY <1>1, <1>2, <1>6 DEF TypeOK
<1>8. NetOK'
  <2>1. \A m \in net : m.id = sync.id => ~Unseen(m)
    BY <1>1 DEF NetOK, Unseen, RequestOf
  <2>. QED  BY Zenon, <1>1, <1>2, <1>6, <2>1 DEF NetOK, Unseen
<1>9. UsersOK' /\ Running'
  BY <1>1, <1>2, <1>6 DEF UsersOK, Running
<1>10. ASSUME NEW c \in Clients, NEW d \in Dirs
       PROVE  /\ Outstanding(c, d)' = 0 /\ Outstanding(c, d) = 0
              /\ Base(c, d)' = Base(c, d) /\ Ahead(c, d)' = Ahead(c, d)
  <2>1. \A e \in Dirs : NoReport.data[c][e] = 0
    BY DEF NoReport, NoTraffic
  <2>2. Outstanding(c, d)' = 0 /\ Outstanding(c, d) = 0
    BY <1>1, <1>6 DEF Outstanding
  <2>3. Base(c, d)' = Base(c, d)
    BY Zenon, <1>5, <1>6, <2>1 DEF Base
  <2>4. Held(c, d)' = Held(c, d)
    BY <1>2, SameBooks
  <2>. QED  BY Zenon, <2>2, <2>3, <2>4 DEF Ahead
<1>11. ASSUME NEW i \in Process, NEW c \in Clients, NEW d \in Dirs PROVE Bound(i, c, d)' /\ Kept(i, c, d)'
  <2>1. /\ Bound(i, c, d) /\ Kept(i, c, d) /\ sync'.id = sync.id /\ net' = net /\ panel' = panel
        /\ \A m \in net : Unseen(m)' => Unseen(m)
    BY <1>1, <1>2, <1>6 DEF Unseen
  <2>2. /\ Billed(i, c, d)' = Billed(i, c, d) /\ Relayed(i, c, d)' = Relayed(i, c, d)
        /\ Held(c, d)' = Held(c, d)
    BY Zenon, <1>2, SameBooks
  <2>3. i = sync.id => Billed(i, c, d) + Outstanding(c, d)' + Ahead(c, d)' <= Relayed(i, c, d)
    BY <1>10, <2>1 DEF Bound
  <2>4. Bound(i, c, d)'
    BY Zenon, <2>1, <2>2, <2>3, BoundFrame
  <2>5. Outstanding(c, d)' = Outstanding(c, d) /\ Base(c, d)' = Base(c, d)
    BY Zenon, <1>10
  <2>6. Kept(i, c, d)'
    BY Zenon, <2>1, <2>2, <2>5, KeptFrame
  <2>. QED  BY <2>4, <2>6
<1>. QED  BY <1>7, <1>8, <1>9, <1>11 DEF Inv

\* The panel counts a report the first time it sees it, whose sender may be gone.
LEMMA BillInv ==
  ASSUME Inv, NEW r \in net, Bill(r)
  PROVE  Inv'
<1>1. /\ TypeOK /\ NetOK /\ UsersOK /\ Running /\ Unseen(r)
      /\ \A i \in Process, c \in Clients, d \in Dirs : Bound(i, c, d) /\ Kept(i, c, d)
  BY DEF Inv, Bill, Unseen
<1>2. /\ r.id \in Process /\ r.seq \in Nat /\ r.data \in Traffic
      /\ panel \in Panel /\ panel.billed \in [Process -> Traffic]
      /\ panel.seen \in SUBSET (Process \X Nat)
  BY Zenon, <1>1 DEF TypeOK, Request, Panel
<1>3. Plus(panel.billed[r.id], r.data) \in Traffic
  BY <1>2, TrafficType
<1>4. /\ panel'.seen = panel.seen \cup {<<r.id, r.seq>>} /\ panel'.users = panel.users /\ panel'.kept = panel.kept
      /\ panel'.billed = [panel.billed EXCEPT ![r.id] = Plus(panel.billed[r.id], r.data)]
      /\ panel' \in Panel
      /\ UNCHANGED <<audit, sync, net, carried>>
  <2>. DEFINE told == panel.seen \cup {<<r.id, r.seq>>}
              billed == [panel.billed EXCEPT ![r.id] = Plus(panel.billed[r.id], r.data)]
  <2>1. panel' = [panel EXCEPT !.seen = told, !.billed = billed] /\ UNCHANGED <<audit, sync, net, carried>>
    BY Zenon DEF Bill
  <2>2. told \in SUBSET (Process \X Nat)
    BY <1>2
  <2>3. billed \in [Process -> Traffic]
    BY <1>2, <1>3
  <2>. HIDE DEF told, billed
  <2>4. panel'.seen = told /\ panel'.users = panel.users /\ panel'.kept = panel.kept /\ panel'.billed = billed /\ panel' \in Panel
    BY Zenon, <1>2, <2>1, <2>2, <2>3 DEF Panel
  <2>. QED  BY <2>1, <2>4 DEF told, billed
<1>5. TypeOK'
  BY <1>1, <1>4 DEF TypeOK
<1>6. UsersOK' /\ Running'
  BY Zenon, <1>1, <1>4 DEF UsersOK, Running
<1>7. ASSUME NEW m \in net
      PROVE  /\ Unseen(m)' => Unseen(m)
             /\ m.id = r.id => ~Unseen(m)'
  <2>1. Unseen(m)' => Unseen(m)
    BY Zenon, <1>4 DEF Unseen
  <2>2. m.id = r.id /\ Unseen(m) => m = r
    BY <1>1 DEF NetOK
  <2>3. ~Unseen(r)'
    BY Zenon, <1>4 DEF Unseen
  <2>. QED  BY Zenon, <2>1, <2>2, <2>3
<1>8. r.id = sync.id => /\ sync.pending # NoReport /\ r.seq = sync.pending.seq
                        /\ r.data = sync.pending.data
  BY <1>1 DEF NetOK, RequestOf
<1>9. NetOK'
  <2>1. \A i \in Process, q \in Nat :
          <<i, q>> \in panel'.seen => i <= sync.id /\ (i = sync.id => q < sync.seq)
    <3>1. r.id <= sync.id /\ (r.id = sync.id => r.seq < sync.seq)
      BY Zenon, <1>1, <1>8 DEF NetOK
    <3>2. ASSUME NEW i \in Process, NEW q \in Nat, <<i, q>> \in panel'.seen
          PROVE  <<i, q>> \in panel.seen \/ (i = r.id /\ q = r.seq)
      BY <1>4, <3>2
    <3>. QED  BY <1>1, <3>1, <3>2 DEF NetOK
  <2>. QED  BY Zenon, <1>1, <1>4, <1>7, <2>1 DEF NetOK
<1>10. ASSUME NEW c \in Clients, NEW d \in Dirs
       PROVE  /\ Base(c, d)' = Base(c, d) /\ Ahead(c, d)' = Ahead(c, d)
              /\ r.id = sync.id => Outstanding(c, d)' = 0 /\ Outstanding(c, d) = r.data[c][d]
              /\ r.id # sync.id => Outstanding(c, d)' = Outstanding(c, d)
  <2>1. Base(c, d)' = Base(c, d) /\ Ahead(c, d)' = Ahead(c, d)
    <3>1. Base(c, d)' = Base(c, d)
      BY <1>4 DEF Base
    <3>2. Held(c, d)' = Held(c, d)
      BY Zenon, <1>4, SameBooks
    <3>. QED  BY Zenon, <3>1, <3>2 DEF Ahead
  <2>2. r.id = sync.id => Outstanding(c, d)' = 0 /\ Outstanding(c, d) = r.data[c][d]
    BY Zenon, <1>1, <1>4, <1>8 DEF Outstanding, Unseen
  <2>3. r.id # sync.id => Outstanding(c, d)' = Outstanding(c, d)
    BY Zenon, <1>4 DEF Outstanding
  <2>. QED  BY Zenon, <2>1, <2>2, <2>3
<1>11. ASSUME NEW i \in Process, NEW c \in Clients, NEW d \in Dirs
       PROVE  /\ Billed(i, c, d)' = IF i = r.id THEN Billed(i, c, d) + r.data[c][d] ELSE Billed(i, c, d)
              /\ r.data[c][d] \in Nat
  <2>1. panel'.billed[i] = IF i = r.id THEN Plus(panel.billed[i], r.data) ELSE panel.billed[i]
    BY Zenon, <1>2, <1>4
  <2>2. Plus(panel.billed[i], r.data)[c][d] = Billed(i, c, d) + r.data[c][d]
    BY Zenon DEF Plus, Billed
  <2>3. r.data[c][d] \in Nat
    BY Zenon, <1>2, TrafficType
  <2>. QED  BY Zenon, <2>1, <2>2, <2>3 DEF Billed
<1>12. ASSUME NEW i \in Process, NEW c \in Clients, NEW d \in Dirs PROVE Bound(i, c, d)' /\ Kept(i, c, d)'
  <2>1. Relayed(i, c, d)' = Relayed(i, c, d) /\ Held(c, d)' = Held(c, d)
    BY Zenon, <1>4, SameBooks
  <2>2. /\ Bound(i, c, d) /\ Kept(i, c, d) /\ sync'.id = sync.id /\ net' = net
        /\ panel'.kept = panel.kept
    BY Zenon, <1>1, <1>4
  <2>. DEFINE billed == Billed(i, c, d)
              out == Outstanding(c, d)
              ahead == Ahead(c, d)
              rest == Held(c, d) - Base(c, d)
              all == Relayed(i, c, d)
              told == r.data[c][d]
  <2>3. /\ billed \in Nat /\ out \in Nat /\ ahead \in Nat /\ rest \in Int /\ all \in Nat
        /\ told \in Nat /\ i \in Nat /\ sync.id \in Nat
    <3>1. /\ billed \in Nat /\ out \in Nat /\ ahead \in Nat /\ all \in Nat /\ told \in Nat
          /\ Held(c, d) \in Nat /\ Base(c, d) \in Nat
      BY Zenon, <1>1, <1>11, Parts
    <3>2. i \in Nat /\ sync.id \in Nat
      BY <1>1 DEF TypeOK, Sync, Process
    <3>3. rest \in Int
      BY Zenon, <3>1, Counted
    <3>. QED  BY Zenon, <3>1, <3>2, <3>3
  <2>4. /\ i = sync.id => billed + out + ahead <= all
        /\ c \in panel.kept /\ i = sync.id => Base(c, d) <= Held(c, d) /\ all = billed + out + rest
    BY Zenon, <2>2 DEF Bound, Kept
  <2>5. CASE i = r.id
    <3>1. billed + told <= all
      BY Zenon, <1>1, <2>2, <2>5 DEF Bound, Adds
    <3>2. Billed(i, c, d)' = billed + told
      BY Zenon, <1>11, <2>5
    <3>3. i = sync.id => Outstanding(c, d)' = 0 /\ out = told /\ Ahead(c, d)' = ahead /\ Base(c, d)' = Base(c, d)
      BY Zenon, <1>10, <2>5
    <3>4. i <= sync.id
      BY Zenon, <1>1, <2>5 DEF NetOK
    <3>5. \A m \in net : m.id = i => ~Unseen(m)'
      BY Zenon, <1>7, <2>5
    <3>. HIDE DEF billed, out, ahead, rest, all, told
    <3>6. ~(i > sync.id)
      BY Zenon, <2>3, <3>4, Counted
    <3>7. \A q \in Int : (billed + told) + 0 + q = billed + told + q
      BY Zenon, <2>3, NoneBetween
    <3>8. ahead \in Int
      BY Zenon, <2>3, Counted
    <3>9. i = sync.id => (billed + told) + 0 + ahead <= all
      BY Zenon, <2>4, <3>3, <3>7, <3>8
    <3>10. Bound(i, c, d)'
      BY Zenon, <2>1, <2>2, <3>1, <3>2, <3>3, <3>5, <3>6, <3>9 DEF Bound, all
    <3>11. c \in panel.kept /\ i = sync.id => all = (billed + told) + 0 + rest
      BY Zenon, <2>3, <2>4, <3>3, <3>7
    <3>12. Kept(i, c, d)'
      BY Zenon, <2>1, <2>2, <2>4, <3>2, <3>3, <3>11 DEF Kept, all, rest
    <3>. QED  BY <3>10, <3>12
  <2>6. CASE i # r.id
    <3>1. Billed(i, c, d)' = Billed(i, c, d)
      BY Zenon, <1>11, <2>6
    <3>2. i = sync.id => Outstanding(c, d)' = out
      BY Zenon, <1>10, <2>6
    <3>3. Ahead(c, d)' = ahead /\ Base(c, d)' = Base(c, d)
      BY Zenon, <1>10
    <3>4. \A m \in net : Unseen(m)' => Unseen(m)
      BY <1>7
    <3>5. Bound(i, c, d)'
      BY Zenon, <2>1, <2>2, <2>4, <3>1, <3>2, <3>3, <3>4, BoundFrame
    <3>6. Kept(i, c, d)'
      BY Zenon, <2>1, <2>2, <3>1, <3>2, <3>3 DEF Kept
    <3>. QED  BY <3>5, <3>6
  <2>. QED  BY <2>5, <2>6
<1>. QED  BY <1>5, <1>6, <1>9, <1>12 DEF Inv

-----------------------------------------------------------------------------
(* The theorems.                                                           *)

\* Nothing was relayed, reported or counted at the start.
LEMMA InitInv ==
  ASSUME Init
  PROVE  Inv
<1>1. /\ audit = [users |-> {}, bytes |-> NoTraffic] /\ net = {}
      /\ panel = [users |-> Clients, kept |-> Clients, seen |-> {},
                  billed |-> [i \in Process |-> NoTraffic]]
      /\ carried = [i \in Process |-> NoTraffic]
  BY DEF Init
<1>2. /\ sync \in Sync /\ sync.id = 0 /\ sync.base = NoTraffic /\ sync.seq = 1
      /\ sync.pending = NoReport /\ sync.pc = "off"
  BY Zenon, TrafficType DEF Init, NewSync, Sync, Report, NoReport
<1>3. 0 \notin Process
  BY PanelAssumption DEF Process
<1>4. TypeOK
  BY Zenon, <1>1, <1>2, TrafficType DEF TypeOK, Audit, Panel
<1>5. NetOK /\ UsersOK /\ Running
  <2>1. /\ net = {} /\ panel.seen = {} /\ audit.users = {} /\ panel.kept = Clients
        /\ panel.users = Clients
    BY Zenon, <1>1
  <2>2. sync.seq > 0
    BY <1>2
  <2>3. NetOK
    BY Zenon, <1>2, <2>1, <2>2 DEF NetOK
  <2>4. UsersOK /\ Running
    BY <1>2, <1>3, <2>1 DEF UsersOK, Running
  <2>. QED  BY Zenon, <2>3, <2>4
<1>6. \A c \in Clients, d \in Dirs : NoTraffic[c][d] = 0
  BY DEF NoTraffic
<1>7. ASSUME NEW i \in Process, NEW c \in Clients, NEW d \in Dirs PROVE Bound(i, c, d) /\ Kept(i, c, d)
  <2>1. i # sync.id /\ net = {}
    BY Zenon, <1>1, <1>2, <1>3
  <2>2. Billed(i, c, d) = 0 /\ Relayed(i, c, d) = 0
    BY Zenon, <1>1, <1>6 DEF Billed, Relayed
  <2>3. Bound(i, c, d)
    BY <2>1, <2>2 DEF Bound
  <2>4. Kept(i, c, d)
    BY Zenon, <2>1 DEF Kept
  <2> QED  BY <2>3, <2>4
<1>. QED  BY <1>4, <1>5, <1>7 DEF Inv

\* Every step keeps the books in order.
LEMMA NextInv ==
  ASSUME Inv, [Next]_vars
  PROVE  Inv'
<1>1. CASE Start
  BY <1>1, StartInv
<1>2. CASE UsersApplied
  BY Zenon, <1>2, UsersAppliedInv
<1>3. CASE Post
  BY <1>3, PostInv
<1>4. CASE Answered
  BY <1>4, AnsweredInv
<1>5. CASE \E m \in net : Bill(m)
  BY <1>5, BillInv
<1>6. CASE \E c \in Clients : Carry(c)
  BY <1>6, CarryInv
<1>7. CASE \/ Stop \/ Tick \/ UsersAnswered \/ UsersFailed \/ NothingToPost \/ NotAnswered
           \/ \E c \in Clients : ChangeUser(c)
  BY Zenon, <1>7, QuietStepsInv
<1>8. CASE UNCHANGED vars
  <2>1. UNCHANGED <<audit, sync, net, panel, carried>>
    BY Zenon, <1>8 DEF vars
  <2>2. TypeOK' /\ UsersOK' /\ Running'
    BY <2>1 DEF Inv, TypeOK, UsersOK, Running
  <2>. QED  BY <2>1, <2>2, QuietStep
<1>. QED
  BY Zenon, <1>1, <1>2, <1>3, <1>4, <1>5, <1>6, <1>7, <1>8 DEF Next, SyncStep, ReportStep

\* The invariant holds in every reachable state.
LEMMA InvHolds == Spec => []Inv
<1>1. Init => Inv
  BY InitInv
<1>2. Inv /\ [Next]_vars => Inv'
  BY NextInv
<1>. QED  BY <1>1, <1>2, PTL DEF Spec

\* The state of TrafficAudit, PanelSyncClient and the panel has its types; the subtraction
\* in report_traffic_once never goes below zero.
THEOREM PanelTypeCorrect == Spec => []TypeOK
<1>1. Inv => TypeOK
  BY DEF Inv
<1>. QED  BY <1>1, InvHolds, PTL

\* Repeated, late and lost reports, restarts and removed clients never make the panel count
\* more for a client than a process relayed for it.
THEOREM BillingIsNeverOver == Spec => []NeverOverBilled
<1>1. Inv => NeverOverBilled
  <2>1. Inv => \A i \in Process, c \in Clients, d \in Dirs : Billed(i, c, d) <= Relayed(i, c, d)
    BY DEF Inv, Bound
  <2>. QED  BY Zenon, <2>1 DEF NeverOverBilled, Billed, Relayed
<1>. QED  BY <1>1, InvHolds, PTL

\* The panel, the pending report and the next one together have every byte the running
\* process relayed for a client the panel has kept.
THEOREM BytesAreNeverLost == Spec => []NothingLost
<1>1. Inv => NothingLost
  <2>1. SUFFICES ASSUME Inv, sync.id \in Process, NEW c \in panel.kept, NEW d \in Dirs
                 PROVE  Relayed(sync.id, c, d) =
                          Billed(sync.id, c, d) + Outstanding(c, d) + (Held(c, d) - Base(c, d))
    BY Zenon DEF NothingLost, Relayed, Billed, Held
  <2>2. c \in Clients
    BY <2>1 DEF Inv, TypeOK, Panel
  <2>. QED  BY Zenon, <2>1, <2>2 DEF Inv, Kept
<1>. QED  BY <1>1, InvHolds, PTL

-----------------------------------------------------------------------------
(* The server's tasks.                                                     *)

\* What a stream task has counted, by where it is.
Account(t) ==
  /\ t.pc \in {"none", "target", "check", "connect"} => t.carried = 0 /\ t.counted = 0
  /\ t.pc \in {"relay", "count"} => t.counted = 0
  /\ t.pc \in {"finish", "uot"} => t.counted = t.carried
  /\ t.pc = "uot_count" => t.carried = t.counted + 1
  /\ t.pc = "aborted" => t.killed
  /\ t.pc = "ended" => t.killed \/ t.counted = t.carried

\* What a connection task has, by where it is.
Place(k) ==
  /\ conn[k].pc \in Hello \cup {"none", "approve"} =>
       conn[k].ses = "none" /\ \A s \in Streams : strm[k][s].pc = "none"
  /\ conn[k].pc \in {"drain", "abort", "aborted"} => conn[k].ses = "closed"
  /\ conn[k].pc = "abort" => \A s \in Streams : Over(strm[k][s]) \/ strm[k][s].pc = "aborted"
  /\ conn[k].pc = "ended" =>
       /\ conn[k].ses # "open"
       /\ \A s \in Streams :
            Over(strm[k][s]) \/ (strm[k][s].pc = "aborted" /\ srv.pc \in {"abort", "done"})

\* How long the server has waited.
Waited == srv.limit - srv.left

\* A connection's clock and the server's.
Clock(k) ==
  /\ conn[k].left <= ConnDrain
  /\ srv.pc = "drain" =>
       /\ Waited > 0 => conn[k].pc \in {"none", "drain", "abort", "ended"}
       /\ conn[k].pc = "drain" => conn[k].left + Waited <= ConnDrain
       /\ conn[k].pc = "abort" => Waited <= ConnDrain
  /\ srv.pc = "abort" => conn[k].pc \in {"none", "aborted", "ended"}
  /\ srv.pc = "done" => Over(conn[k])
  /\ conn[k].pc = "aborted" => srv.pc = "abort"

ServerClock ==
  /\ srv.left <= srv.limit
  /\ srv.pc # "accept" => cancelled
  /\ srv.pc \in {"accept", "tasks"} => srv.left = srv.limit
  /\ srv.pc = "abort" => srv.limit <= ConnDrain

\* The inductive invariant.
SrvInv ==
  /\ SrvTypeOK /\ ServerClock
  /\ \A k \in Conns : Place(k) /\ Clock(k) /\ \A s \in Streams : Account(strm[k][s])

\* The server's state at its start.
LEMMA SrvInitInv == SrvInit => SrvInv
<1> SUFFICES ASSUME SrvInit PROVE SrvInv
  OBVIOUS
<1>1. PICK limit \in ServerDrains : srv = [pc |-> "accept", limit |-> limit, left |-> limit]
  BY DEF SrvInit
<1>2. limit \in Nat /\ ConnDrain \in Nat /\ MaxCarried \in Nat
  BY Zenon, ServerAssumption
<1>3. /\ cancelled = FALSE
      /\ \A k \in Conns : conn[k] = [pc |-> "none", ses |-> "none", left |-> ConnDrain]
      /\ \A k \in Conns, s \in Streams : strm[k][s] = NoStream
      /\ conn = [k \in Conns |-> [pc |-> "none", ses |-> "none", left |-> ConnDrain]]
      /\ strm = [k \in Conns |-> [s \in Streams |-> NoStream]]
  BY Zenon DEF SrvInit
<1>4. NoStream \in StreamType /\ Account(NoStream) /\ NoStream.pc = "none"
  BY <1>2 DEF NoStream, StreamType, Account
<1>5. [pc |-> "none", ses |-> "none", left |-> ConnDrain] \in ConnType
  BY <1>2 DEF ConnType
<1>6. SrvTypeOK
  <2>1. srv \in [pc : {"accept", "tasks", "drain", "abort", "done"}, limit : ServerDrains, left : Nat]
    BY Zenon, <1>1, <1>2
  <2>2. conn \in [Conns -> ConnType] /\ strm \in [Conns -> [Streams -> StreamType]]
    BY Zenon, <1>3, <1>4, <1>5
  <2>. QED  BY Zenon, <1>3, <2>1, <2>2 DEF SrvTypeOK
<1>7. ServerClock
  BY <1>1, <1>2 DEF ServerClock
<1>8. ASSUME NEW k \in Conns PROVE Place(k) /\ Clock(k) /\ \A s \in Streams : Account(strm[k][s])
  <2>1. conn[k].pc = "none" /\ conn[k].ses = "none" /\ conn[k].left = ConnDrain
    BY <1>3
  <2>2. \A s \in Streams : strm[k][s].pc = "none" /\ Account(strm[k][s])
    BY Zenon, <1>3, <1>4
  <2>3. Place(k)
    BY Zenon, <2>1, <2>2 DEF Place
  <2>4. Clock(k)
    BY <1>1, <1>2, <2>1 DEF Clock
  <2>. QED  BY <2>2, <2>3, <2>4
<1>. QED  BY Zenon, <1>6, <1>7, <1>8 DEF SrvInv

\* The parts of the state.
LEMMA SrvFields ==
  ASSUME SrvTypeOK
  PROVE  /\ srv.limit \in ServerDrains /\ srv.limit \in Nat /\ srv.limit > 0 /\ srv.left \in Nat
         /\ srv.pc \in {"accept", "tasks", "drain", "abort", "done"}
         /\ \A k \in Conns : conn[k] \in ConnType /\ conn[k].left \in Nat
         /\ \A k \in Conns, s \in Streams : strm[k][s] \in StreamType
         /\ ConnDrain \in Nat /\ MaxCarried \in Nat
<1>1. srv.limit \in ServerDrains /\ srv.left \in Nat
      /\ srv.pc \in {"accept", "tasks", "drain", "abort", "done"}
  BY DEF SrvTypeOK
<1>2. srv.limit \in Nat /\ srv.limit > 0 /\ ConnDrain \in Nat /\ MaxCarried \in Nat
  <2>1. srv.limit \in Nat \ {0}
    BY Zenon, <1>1, ServerAssumption
  <2>. QED  BY <2>1, ServerAssumption
<1>3. ASSUME NEW k \in Conns PROVE conn[k] \in ConnType /\ conn[k].left \in Nat
  <2>1. conn[k] \in ConnType
    BY DEF SrvTypeOK
  <2>. QED  BY Zenon, <2>1 DEF ConnType
<1>4. \A k \in Conns, s \in Streams : strm[k][s] \in StreamType
  BY Zenon DEF SrvTypeOK
<1>. QED  BY Zenon, <1>1, <1>2, <1>3, <1>4

\* The server's clock counts down from the limit.
LEMMA WaitedType ==
  ASSUME srv.limit \in Nat, srv.left \in Nat, srv.left <= srv.limit
  PROVE  Waited \in Nat /\ (Waited > 0 \/ Waited = 0)
BY DEF Waited

\* The place of a connection depends on it, its streams and the server alone.
LEMMA PlaceFrame ==
  ASSUME NEW k \in Conns, Place(k), conn'[k] = conn[k], strm'[k] = strm[k], srv' = srv
  PROVE  Place(k)'
BY Zenon DEF Place, Over

\* The clock of a connection depends on it and the server alone.
LEMMA ClockFrame ==
  ASSUME NEW k \in Conns, Clock(k), conn'[k] = conn[k], srv' = srv
  PROVE  Clock(k)'
BY Zenon DEF Clock, Waited, Over

\* A stream's step does not disturb its connection's place: a stream begins while the
\* connection serves, and those that are aborted only end.
LEMMA PlaceStream ==
  ASSUME NEW k \in Conns, NEW s \in Streams, NEW t, Place(k), srv' = srv, conn' = conn,
         \A r \in Streams : strm'[k][r] = IF r = s THEN t ELSE strm[k][r],
         \/ conn[k].pc = "serve"
         \/ strm[k][s].pc \notin {"none", "aborted", "ended"}
         \/ strm[k][s].pc = "aborted" /\ t.pc = "ended"
  PROVE  Place(k)'
BY DEF Place, Over, Hello

\* A step of one stream task, of a connection that serves, or of one under way.
LEMMA StreamInv ==
  ASSUME SrvInv, NEW k \in Conns, NEW s \in Streams, NEW t \in StreamType, Account(t),
         strm' = [strm EXCEPT ![k][s] = t], UNCHANGED <<srv, cancelled, conn>>,
         \/ conn[k].pc = "serve"
         \/ strm[k][s].pc \notin {"none", "aborted", "ended"}
         \/ strm[k][s].pc = "aborted" /\ t.pc = "ended"
  PROVE  SrvInv'
<1>1. SrvTypeOK /\ srv' = srv /\ cancelled' = cancelled /\ conn' = conn
  BY Zenon DEF SrvInv
<1>2. strm' \in [Conns -> [Streams -> StreamType]]
  BY <1>1 DEF SrvTypeOK
<1>3. \A j \in Conns, r \in Streams : strm'[j][r] = IF j = k /\ r = s THEN t ELSE strm[j][r]
  BY Zenon, <1>1 DEF SrvTypeOK
<1>4. SrvTypeOK' /\ ServerClock'
  BY <1>1, <1>2 DEF SrvInv, SrvTypeOK, ServerClock
<1>5. ASSUME NEW j \in Conns PROVE Place(j)' /\ Clock(j)' /\ \A r \in Streams : Account(strm[j][r])'
  <2>1. Clock(j)'
    BY Zenon, <1>1 DEF SrvInv, Clock, Waited, Over
  <2>2. ASSUME NEW r \in Streams PROVE Account(strm'[j][r])
    BY <1>3 DEF SrvInv
  <2>3. CASE j # k
    <3>1. Place(j) /\ \A r \in Streams : strm'[j][r] = strm[j][r]
      BY Zenon, <1>3, <2>3 DEF SrvInv
    <3>2. Place(j)'
      BY Zenon, <1>1, <3>1 DEF Place, Over
    <3>. QED  BY Zenon, <2>1, <2>2, <3>2 DEF Account
  <2>4. CASE j = k
    <3>1. Place(k)
      BY Zenon DEF SrvInv
    <3>2. \A r \in Streams : strm'[k][r] = IF r = s THEN t ELSE strm[k][r]
      BY Zenon, <1>3
    <3>3. Place(k)'
      BY Zenon, <1>1, <3>1, <3>2, PlaceStream
    <3>. QED  BY Zenon, <2>1, <2>2, <2>4, <3>3 DEF Account
  <2>. QED  BY Zenon, <2>3, <2>4
<1>. QED  BY Zenon, <1>4, <1>5 DEF SrvInv

\* A stream task that goes on to another place.
LEMMA GoesInv ==
  ASSUME SrvInv, NEW k \in Conns, NEW s \in Streams,
         NEW p \in {"none", "target", "check", "connect", "relay", "count", "finish",
                    "uot", "uot_count", "aborted", "ended"},
         strm' = [strm EXCEPT ![k][s].pc = p], UNCHANGED <<srv, cancelled, conn>>,
         Account([strm[k][s] EXCEPT !.pc = p]),
         \/ conn[k].pc = "serve"
         \/ strm[k][s].pc \notin {"none", "aborted", "ended"}
         \/ strm[k][s].pc = "aborted" /\ p = "ended"
  PROVE  SrvInv'
<1> DEFINE t == [strm[k][s] EXCEPT !.pc = p]
<1>1. SrvTypeOK /\ strm[k][s] \in StreamType
  BY Zenon, SrvFields DEF SrvInv
<1>2. t \in StreamType /\ t.pc = p
  BY <1>1 DEF StreamType
<1>3. strm' = [strm EXCEPT ![k][s] = t]
  OBVIOUS
<1> HIDE DEF t
<1>4. Account(t)
  BY DEF t
<1>5. \/ conn[k].pc = "serve"
      \/ strm[k][s].pc \notin {"none", "aborted", "ended"}
      \/ strm[k][s].pc = "aborted" /\ t.pc = "ended"
  BY Zenon, <1>2
<1>6. t \in StreamType /\ UNCHANGED <<srv, cancelled, conn>>
  BY Zenon, <1>2
<1>. QED  BY ZenonT(30), <1>3, <1>4, <1>5, <1>6, StreamInv

\* Every step of a stream task keeps the invariant.
LEMMA StreamStepInv ==
  ASSUME SrvInv, NEW k \in Conns, NEW s \in Streams, StreamStep(k, s)
  PROVE  SrvInv'
<1> DEFINE t == strm[k][s]
<1>1. /\ SrvTypeOK /\ t \in StreamType /\ Account(t) /\ MaxCarried \in Nat
      /\ t.carried \in Nat /\ t.counted \in Nat /\ t.carried <= MaxCarried
  <2>1. SrvTypeOK /\ t \in StreamType /\ Account(t) /\ MaxCarried \in Nat
    BY SrvFields DEF SrvInv
  <2>. QED  BY <2>1 DEF StreamType
<1>2. ASSUME NEW p \in {"none", "target", "check", "connect", "relay", "count", "finish",
                        "uot", "uot_count", "aborted", "ended"}
      PROVE  LET u == [t EXCEPT !.pc = p] IN
             u.pc = p /\ u.carried = t.carried /\ u.counted = t.counted /\ u.killed = t.killed
  BY <1>1 DEF StreamType
<1>3. CASE AcceptStream(k, s)
  <2>1. Goes(k, s, "target")
    BY Zenon, <1>3 DEF AcceptStream, Goes
  <2>2. t.carried = 0 /\ t.counted = 0
    BY Zenon, <1>1, <1>3 DEF Account, AcceptStream
  <2>3. Account([t EXCEPT !.pc = "target"])
    BY <1>2, <2>2 DEF Account
  <2>. QED  BY Zenon, <1>3, <2>1, <2>3, GoesInv DEF Goes, AcceptStream
<1>4. CASE TargetRead(k, s)
  <2>1. PICK p \in {"check", "ended"} : Goes(k, s, p)
    BY Zenon, <1>4 DEF TargetRead
  <2>2. t.carried = 0 /\ t.counted = 0
    BY Zenon, <1>1, <1>4 DEF Account, TargetRead
  <2>3. Account([t EXCEPT !.pc = p])
    BY <1>2, <2>2 DEF Account
  <2>. QED  BY Zenon, <1>4, <2>1, <2>3, GoesInv DEF Goes, TargetRead
<1>5. CASE Check(k, s)
  <2>1. PICK p \in {"connect", "uot", "finish"} : Goes(k, s, p)
    BY Zenon, <1>5 DEF Check
  <2>2. t.carried = 0 /\ t.counted = 0
    BY Zenon, <1>1, <1>5 DEF Account, Check
  <2>3. Account([t EXCEPT !.pc = p])
    BY <1>2, <2>2 DEF Account
  <2>. QED  BY Zenon, <1>5, <2>1, <2>3, GoesInv DEF Goes, Check
<1>6. CASE Connect(k, s)
  <2>1. PICK p \in {"relay", "finish"} : Goes(k, s, p)
    BY Zenon, <1>6 DEF Connect
  <2>2. t.carried = 0 /\ t.counted = 0
    BY Zenon, <1>1, <1>6 DEF Account, Connect
  <2>3. Account([t EXCEPT !.pc = p])
    BY <1>2, <2>2 DEF Account
  <2>. QED  BY Zenon, <1>6, <2>1, <2>3, GoesInv DEF Goes, Connect
<1>7. CASE RelayEnds(k, s)
  <2>1. Goes(k, s, "count")
    BY Zenon, <1>7 DEF RelayEnds
  <2>2. t.counted = 0
    BY <1>1, <1>7 DEF Account, RelayEnds
  <2>3. Account([t EXCEPT !.pc = "count"])
    BY <1>2, <2>2 DEF Account
  <2>. QED  BY Zenon, <1>7, <2>1, <2>3, GoesInv DEF Goes, RelayEnds
<1>8. CASE Finish(k, s) \/ UotEnds(k, s)
  <2>1. Goes(k, s, "ended")
    BY Zenon, <1>8 DEF Finish, UotEnds
  <2>2. t.counted = t.carried
    BY Zenon, <1>1, <1>8 DEF Account, Finish, UotEnds
  <2>3. Account([t EXCEPT !.pc = "ended"])
    BY <1>2, <2>2 DEF Account
  <2>. QED  BY Zenon, <1>8, <2>1, <2>3, GoesInv DEF Goes, Finish, UotEnds
<1>9. CASE StreamAborted(k, s)
  <2>1. Goes(k, s, "ended")
    BY Zenon, <1>9 DEF StreamAborted
  <2>2. t.killed
    BY Zenon, <1>1, <1>9 DEF Account, StreamAborted
  <2>3. Account([t EXCEPT !.pc = "ended"])
    BY <1>2, <2>2 DEF Account
  <2>. QED  BY Zenon, <1>9, <2>1, <2>3, GoesInv DEF Goes, StreamAborted
<1>10. CASE CarryBytes(k, s)
  <2> DEFINE u == [t EXCEPT !.carried = t.carried + 1]
  <2>1. /\ t.pc = "relay" /\ t.carried + 1 \in 0 .. MaxCarried /\ strm' = [strm EXCEPT ![k][s] = u]
        /\ UNCHANGED <<srv, cancelled, conn>>
    BY <1>1, <1>10 DEF CarryBytes
  <2>2. u \in StreamType /\ u.pc = "relay" /\ u.counted = t.counted
    BY Zenon, <1>1, <2>1 DEF StreamType
  <2> HIDE DEF u
  <2>3. Account(u)
    BY <1>1, <2>1, <2>2 DEF Account
  <2>. QED  BY Zenon, <2>1, <2>2, <2>3, StreamInv
<1>11. CASE Count(k, s)
  <2> DEFINE u == [t EXCEPT !.pc = "finish", !.counted = t.carried]
  <2>1. /\ t.pc = "count" /\ strm' = [strm EXCEPT ![k][s] = u] /\ UNCHANGED <<srv, cancelled, conn>>
    BY <1>11 DEF Count
  <2>2. u \in StreamType /\ u.pc = "finish" /\ u.counted = u.carried
    BY Zenon, <1>1, <2>1 DEF StreamType
  <2> HIDE DEF u
  <2>3. Account(u)
    BY <2>2 DEF Account
  <2>. QED  BY Zenon, <2>1, <2>2, <2>3, StreamInv
<1>12. CASE UotCarry(k, s)
  <2> DEFINE u == [t EXCEPT !.pc = "uot_count", !.carried = t.carried + 1]
  <2>0. t.pc = "uot" /\ t.carried < MaxCarried /\ UNCHANGED <<srv, cancelled, conn>>
    BY <1>12 DEF UotCarry
  <2>1. t.carried + 1 \in 0 .. MaxCarried /\ strm' = [strm EXCEPT ![k][s] = u]
    <3>1. t.carried + 1 \in 0 .. MaxCarried
      BY <1>1, <2>0
    <3>2. strm' = [strm EXCEPT ![k][s] = u]
      BY <1>12 DEF UotCarry
    <3>. QED  BY Zenon, <3>1, <3>2
  <2>2. u \in StreamType /\ u.pc = "uot_count" /\ u.carried = t.carried + 1 /\ u.counted = t.counted
    BY Zenon, <1>1, <2>1 DEF StreamType
  <2> HIDE DEF u
  <2>3. t.counted = t.carried
    BY Zenon, <1>1, <2>0 DEF Account
  <2>4. Account(u)
    BY <2>2, <2>3 DEF Account
  <2>. QED  BY Zenon, <2>0, <2>1, <2>2, <2>4, StreamInv
<1>13. CASE UotCount(k, s)
  <2> DEFINE u == [t EXCEPT !.pc = "uot", !.counted = t.counted + 1]
  <2>1. /\ t.pc = "uot_count" /\ strm' = [strm EXCEPT ![k][s] = u]
        /\ UNCHANGED <<srv, cancelled, conn>>
    BY Zenon, <1>13 DEF UotCount
  <2>2. t.counted + 1 = t.carried /\ t.counted + 1 \in 0 .. MaxCarried
    <3>1. t.carried = t.counted + 1
      BY <1>1, <2>1 DEF Account
    <3>. QED  BY <1>1, <3>1
  <2>3. u \in StreamType /\ u.pc = "uot" /\ u.carried = t.carried /\ u.counted = t.counted + 1
    BY Zenon, <1>1, <2>2 DEF StreamType
  <2> HIDE DEF u
  <2>4. Account(u)
    BY Zenon, <2>2, <2>3 DEF Account
  <2>. QED  BY Zenon, <2>1, <2>3, <2>4, StreamInv
<1>. QED  BY Zenon, <1>3, <1>4, <1>5, <1>6, <1>7, <1>8, <1>9, <1>10, <1>11, <1>12, <1>13
             DEF StreamStep

\* A step of one connection task, with what it does to its streams.
LEMMA ConnInv ==
  ASSUME SrvInv, NEW k \in Conns, NEW c \in ConnType, NEW f \in [Streams -> StreamType],
         conn' = [conn EXCEPT ![k] = c], strm' = [strm EXCEPT ![k] = f],
         UNCHANGED <<srv, cancelled>>,
         Place(k)', Clock(k)', \A s \in Streams : Account(f[s])
  PROVE  SrvInv'
<1>1. SrvTypeOK /\ srv' = srv /\ cancelled' = cancelled
  BY Zenon DEF SrvInv
<1>2. conn' \in [Conns -> ConnType] /\ strm' \in [Conns -> [Streams -> StreamType]]
  BY <1>1 DEF SrvTypeOK
<1>3. \A j \in Conns : /\ conn'[j] = IF j = k THEN c ELSE conn[j]
                       /\ strm'[j] = IF j = k THEN f ELSE strm[j]
  BY Zenon, <1>1 DEF SrvTypeOK
<1>4. SrvTypeOK' /\ ServerClock'
  BY <1>1, <1>2 DEF SrvInv, SrvTypeOK, ServerClock
<1>5. ASSUME NEW j \in Conns PROVE Place(j)' /\ Clock(j)' /\ \A r \in Streams : Account(strm[j][r])'
  <2>1. CASE j = k
    <3>1. strm'[j] = f
      BY Zenon, <1>3, <2>1
    <3>2. \A r \in Streams : Account(strm[j][r])'
      BY Zenon, <3>1 DEF Account
    <3>. QED  BY Zenon, <2>1, <3>2
  <2>2. CASE j # k
    <3>1. conn'[j] = conn[j] /\ strm'[j] = strm[j]
      BY Zenon, <1>3, <2>2
    <3>2. Place(j) /\ Clock(j) /\ \A r \in Streams : Account(strm[j][r])
      BY DEF SrvInv
    <3>3. Place(j)'
      BY Zenon, <1>1, <3>1, <3>2, PlaceFrame
    <3>4. Clock(j)'
      BY Zenon, <1>1, <3>1, <3>2, ClockFrame
    <3>. QED  BY Zenon, <3>1, <3>2, <3>3, <3>4
  <2>. QED  BY Zenon, <2>1, <2>2
<1>. QED  BY Zenon, <1>4, <1>5 DEF SrvInv

\* A step of one connection task that leaves its streams alone.
LEMMA ConnGoesInv ==
  ASSUME SrvInv, NEW k \in Conns, NEW c \in ConnType, conn' = [conn EXCEPT ![k] = c],
         UNCHANGED <<srv, cancelled, strm>>, c.left = conn[k].left,
         \* the place
         c.pc \in Hello \cup {"none", "approve"} =>
           c.ses = "none" /\ conn[k].pc \in Hello \cup {"none", "approve"},
         c.pc \in {"drain", "aborted"} => c.ses = "closed",
         c.pc # "abort", c.pc = "ended" => c.ses # "open" /\ \A s \in Streams : Over(strm[k][s]),
         \* the clocks
         srv.pc \in {"abort", "done"} => c.pc = "ended",
         c.pc # "aborted",
         srv.pc = "drain" /\ Waited > 0 => c.pc = "ended"
  PROVE  SrvInv'
<1>1. SrvTypeOK /\ srv' = srv /\ cancelled' = cancelled /\ strm' = strm /\ Place(k) /\ Clock(k)
  BY Zenon DEF SrvInv
<1>2. /\ conn'[k] = c /\ strm[k] \in [Streams -> StreamType]
      /\ strm' = [strm EXCEPT ![k] = strm[k]] /\ \A s \in Streams : Account(strm[k][s])
  BY <1>1 DEF SrvInv, SrvTypeOK
<1>3. Place(k)'
  BY Zenon, <1>1, <1>2 DEF Place, Over, Hello
<1>4. /\ srv.limit \in Nat /\ srv.left \in Nat /\ srv.left <= srv.limit /\ conn[k].left \in Nat
      /\ ConnDrain \in Nat /\ conn[k].left <= ConnDrain
  BY Zenon, <1>1, SrvFields DEF SrvInv, ServerClock, Clock
<1>5. Waited > 0 \/ Waited = 0
  BY Zenon, <1>4, WaitedType
<1>6. Waited' = Waited
  BY Zenon, <1>1 DEF Waited
<1>7. srv.pc = "drain" /\ c.pc = "drain" => c.left + Waited <= ConnDrain
  <2>1. srv.pc = "drain" /\ c.pc = "drain" => Waited = 0
    BY Zenon, <1>5
  <2>2. c.left + 0 = conn[k].left
    BY Zenon, <1>4, Counted
  <2>. QED  BY Zenon, <1>4, <2>1, <2>2
<1>8. Clock(k)'
  BY Zenon, <1>1, <1>2, <1>4, <1>6, <1>7 DEF Clock, Over
<1>. QED  BY Zenon, <1>1, <1>2, <1>3, <1>8, ConnInv

\* What a connection's clock says of one that has not begun to drain.
LEMMA EarlyConn ==
  ASSUME SrvInv, NEW k \in Conns, conn[k].pc \in Hello \cup {"approve", "serve"}
  PROVE  srv.pc \notin {"abort", "done"} /\ ~(srv.pc = "drain" /\ Waited > 0)
<1>1. Clock(k)
  BY Zenon DEF SrvInv
<1>. QED  BY Zenon, <1>1 DEF Clock, Over, Hello

\* The aborted streams of a connection.
LEMMA AbortedStreams ==
  ASSUME SrvInv, NEW k \in Conns
  PROVE  /\ AbortStreams(k) \in [Streams -> StreamType]
         /\ \A s \in Streams : /\ Account(AbortStreams(k)[s])
                               /\ Over(AbortStreams(k)[s]) \/ AbortStreams(k)[s].pc = "aborted"
<1>1. ASSUME NEW s \in Streams
      PROVE  LET u == Abort(strm[k][s]) IN
             u \in StreamType /\ Account(u) /\ (Over(u) \/ u.pc = "aborted")
  <2>1. strm[k][s] \in StreamType /\ Account(strm[k][s])
    BY SrvFields DEF SrvInv
  <2>2. CASE Over(strm[k][s])
    BY Zenon, <2>1, <2>2 DEF Abort
  <2>3. CASE ~Over(strm[k][s])
    <3> DEFINE u == [strm[k][s] EXCEPT !.pc = "aborted", !.killed = TRUE]
    <3>1. u \in StreamType /\ u.pc = "aborted" /\ u.killed
      BY Zenon, <2>1 DEF StreamType
    <3>2. Abort(strm[k][s]) = u
      BY Zenon, <2>3 DEF Abort
    <3> HIDE DEF u
    <3>3. Account(u)
      BY <3>1 DEF Account
    <3>. QED  BY <3>1, <3>2, <3>3
  <2>. QED  BY Zenon, <2>2, <2>3
<1>. QED  BY Zenon, <1>1 DEF AbortStreams

\* Every step of a connection task keeps the invariant.
LEMMA ConnStepInv ==
  ASSUME SrvInv, NEW k \in Conns, ConnStep(k)
  PROVE  SrvInv'
<1> DEFINE c == conn[k]
<1>1. SrvTypeOK /\ c \in ConnType /\ Place(k) /\ Clock(k)
  BY SrvFields DEF SrvInv
<1>2. ASSUME NEW p \in Hello \cup {"none", "approve", "serve", "drain", "abort", "aborted", "ended"},
             NEW e \in {"none", "open", "closed"}
      PROVE  LET d == [c EXCEPT !.pc = p, !.ses = e] IN
             d \in ConnType /\ d.pc = p /\ d.ses = e /\ d.left = c.left
  BY Zenon, <1>1 DEF ConnType
<1>3. ASSUME NEW p \in Hello \cup {"none", "approve", "serve", "drain", "abort", "aborted", "ended"}
      PROVE  LET d == [c EXCEPT !.pc = p] IN
             /\ d \in ConnType /\ d.pc = p /\ d.ses = c.ses /\ d.left = c.left
             /\ [conn EXCEPT ![k].pc = p] = [conn EXCEPT ![k] = d]
  BY <1>1 DEF ConnType
<1>4. CASE AcceptConnection(k)
  <2> DEFINE d == [c EXCEPT !.pc = "tls"]
  <2>1. d \in ConnType /\ d.pc = "tls" /\ d.ses = c.ses /\ d.left = c.left
        /\ conn' = [conn EXCEPT ![k] = d]
    BY <1>3, <1>4 DEF AcceptConnection, Hello
  <2>2. srv.pc = "accept" /\ c.pc = "none" /\ c.ses = "none" /\ UNCHANGED <<srv, cancelled, strm>>
    BY <1>1, <1>4 DEF AcceptConnection, Place
  <2> HIDE DEF d
  <2>. QED  BY Zenon, <2>1, <2>2, ConnGoesInv DEF Hello
<1>5. CASE HelloStep(k) \/ HelloEnds(k) \/ (Approve(k) /\ conn' = [conn EXCEPT ![k].pc = "ended"])
  <2>1. PICK p \in Hello \cup {"approve", "ended"} : conn' = [conn EXCEPT ![k].pc = p]
    BY <1>5 DEF HelloStep, HelloEnds, Hello
  <2> DEFINE d == [c EXCEPT !.pc = p]
  <2>2. d \in ConnType /\ d.pc = p /\ d.ses = c.ses /\ d.left = c.left
        /\ conn' = [conn EXCEPT ![k] = d]
    BY <1>3, <2>1
  <2>3. c.pc \in Hello \cup {"approve"} /\ UNCHANGED <<srv, cancelled, strm>>
    BY Zenon, <1>5 DEF HelloStep, HelloEnds, Approve, Hello
  <2>4. c.ses = "none" /\ \A s \in Streams : Over(strm[k][s])
    BY Zenon, <1>1, <2>3 DEF Place, Over
  <2>5. srv.pc \notin {"abort", "done"} /\ ~(srv.pc = "drain" /\ Waited > 0)
    BY <2>3, EarlyConn
  <2> HIDE DEF d
  <2>. QED  BY Zenon, <2>2, <2>3, <2>4, <2>5, ConnGoesInv DEF Hello
<1>6. CASE Approve(k) /\ conn' # [conn EXCEPT ![k].pc = "ended"]
  <2> DEFINE d == [c EXCEPT !.pc = "serve", !.ses = "open"]
  <2>1. c.pc = "approve" /\ UNCHANGED <<srv, cancelled, strm>> /\ conn' = [conn EXCEPT ![k] = d]
    BY <1>6 DEF Approve
  <2>2. d \in ConnType /\ d.pc = "serve" /\ d.ses = "open" /\ d.left = c.left
    BY Zenon, <1>2
  <2>3. srv.pc \notin {"abort", "done"} /\ ~(srv.pc = "drain" /\ Waited > 0)
    BY <2>1, EarlyConn
  <2> HIDE DEF d
  <2>. QED  BY Zenon, <2>1, <2>2, <2>3, ConnGoesInv DEF Hello
<1>7. CASE SessionCloses(k)
  <2> DEFINE d == [c EXCEPT !.ses = "closed"]
  <2>1. c.ses = "open" /\ UNCHANGED <<srv, cancelled, strm>> /\ conn' = [conn EXCEPT ![k] = d]
    BY <1>7 DEF SessionCloses
  <2>2. c.pc = "serve"
    BY <1>1, <2>1 DEF Place, ConnType
  <2>3. d \in ConnType /\ d.pc = "serve" /\ d.ses = "closed" /\ d.left = c.left
    BY Zenon, <1>1, <2>2 DEF ConnType
  <2>4. srv.pc \notin {"abort", "done"} /\ ~(srv.pc = "drain" /\ Waited > 0)
    BY <2>2, EarlyConn
  <2> HIDE DEF d
  <2>. QED  BY Zenon, <2>1, <2>2, <2>3, <2>4, ConnGoesInv DEF Hello
<1>8. CASE ServeEnds(k)
  <2> DEFINE d == [c EXCEPT !.pc = "drain", !.ses = "closed"]
  <2>1. c.pc = "serve" /\ UNCHANGED <<srv, cancelled, strm>> /\ conn' = [conn EXCEPT ![k] = d]
    BY <1>8 DEF ServeEnds
  <2>2. d \in ConnType /\ d.pc = "drain" /\ d.ses = "closed" /\ d.left = c.left
    BY Zenon, <1>2
  <2>3. srv.pc \notin {"abort", "done"} /\ ~(srv.pc = "drain" /\ Waited > 0)
    BY <2>1, EarlyConn
  <2> HIDE DEF d
  <2>. QED  BY Zenon, <2>1, <2>2, <2>3, ConnGoesInv DEF Hello
<1>9. CASE ConnDrained(k)
  <2> DEFINE d == [c EXCEPT !.pc = "ended"]
  <2>1. d \in ConnType /\ d.pc = "ended" /\ d.ses = c.ses /\ d.left = c.left
        /\ conn' = [conn EXCEPT ![k] = d]
    BY <1>3, <1>9 DEF ConnDrained
  <2>2. c.pc \in {"drain", "abort"} /\ StreamsOver(k) /\ UNCHANGED <<srv, cancelled, strm>>
    BY Zenon, <1>9 DEF ConnDrained
  <2>3. c.ses = "closed" /\ \A s \in Streams : Over(strm[k][s])
    BY <1>1, <2>2 DEF Place, StreamsOver
  <2> HIDE DEF d
  <2>. QED  BY Zenon, <2>1, <2>2, <2>3, ConnGoesInv DEF Hello
<1>10. CASE ConnTimeout(k)
  <2> DEFINE d == [c EXCEPT !.pc = "abort"]
             f == AbortStreams(k)
  <2>1. d \in ConnType /\ d.pc = "abort" /\ d.ses = c.ses /\ d.left = c.left
        /\ conn' = [conn EXCEPT ![k] = d]
    BY <1>3, <1>10 DEF ConnTimeout
  <2>2. c.pc = "drain" /\ c.left = 0 /\ strm' = [strm EXCEPT ![k] = f] /\ UNCHANGED <<srv, cancelled>>
    BY Zenon, <1>10 DEF ConnTimeout
  <2> HIDE DEF d, f
  <2>3. /\ f \in [Streams -> StreamType]
        /\ \A s \in Streams : Account(f[s]) /\ (Over(f[s]) \/ f[s].pc = "aborted")
    BY AbortedStreams DEF f
  <2>4. conn'[k] = d /\ strm'[k] = f
    BY Zenon, <1>1, <2>1, <2>2 DEF SrvTypeOK
  <2>5. Place(k)'
    BY Zenon, <1>1, <2>1, <2>2, <2>3, <2>4 DEF Place, Over, Hello
  <2>6. srv.pc = "drain" => Waited <= ConnDrain
    <3>1. srv.pc = "drain" => 0 + Waited <= ConnDrain
      BY Zenon, <1>1, <2>2 DEF Clock
    <3>2. srv.limit \in Nat /\ srv.left \in Nat
      BY <1>1, SrvFields
    <3>. QED  BY <3>1, <3>2 DEF Waited
  <2>7. Waited' = Waited
    BY Zenon, <2>2 DEF Waited
  <2>8. Clock(k)'
    BY Zenon, <1>1, <2>1, <2>2, <2>4, <2>6, <2>7 DEF Clock, Over
  <2>. QED  BY Zenon, <2>1, <2>2, <2>3, <2>5, <2>8, ConnInv
<1>11. CASE ConnAborted(k)
  <2> DEFINE d == [c EXCEPT !.pc = "ended"]
             f == AbortStreams(k)
  <2>1. d \in ConnType /\ d.pc = "ended" /\ d.ses = c.ses /\ d.left = c.left
        /\ conn' = [conn EXCEPT ![k] = d]
    BY <1>3, <1>11 DEF ConnAborted
  <2>2. c.pc = "aborted" /\ strm' = [strm EXCEPT ![k] = f] /\ UNCHANGED <<srv, cancelled>>
    BY Zenon, <1>11 DEF ConnAborted
  <2> HIDE DEF d, f
  <2>3. /\ f \in [Streams -> StreamType]
        /\ \A s \in Streams : Account(f[s]) /\ (Over(f[s]) \/ f[s].pc = "aborted")
    BY AbortedStreams DEF f
  <2>4. conn'[k] = d /\ strm'[k] = f
    BY Zenon, <1>1, <2>1, <2>2 DEF SrvTypeOK
  <2>5. srv.pc = "abort" /\ c.ses = "closed"
    BY Zenon, <1>1, <2>2 DEF Clock, Place
  <2>6. Place(k)'
    BY Zenon, <2>1, <2>2, <2>3, <2>4, <2>5 DEF Place, Over, Hello
  <2>7. Clock(k)'
    BY Zenon, <1>1, <2>1, <2>2, <2>4, <2>5 DEF Clock, Over
  <2>. QED  BY Zenon, <2>1, <2>2, <2>3, <2>6, <2>7, ConnInv
<1>. QED  BY Zenon, <1>4, <1>5, <1>6, <1>7, <1>8, <1>9, <1>10, <1>11 DEF ConnStep

\* The server goes on to another place, the connections being as they are.
LEMMA ServerGoesInv ==
  ASSUME SrvInv, NEW p \in {"accept", "tasks", "drain", "abort", "done"}, cancelled' = TRUE,
         srv' = [srv EXCEPT !.pc = p], UNCHANGED <<conn, strm>>,
         \/ p = srv.pc
         \/ p = "tasks" /\ srv.pc = "accept"
         \/ p = "drain" /\ srv.pc = "tasks"
         \/ p = "done" /\ ConnsOver
  PROVE  SrvInv'
<1>1. /\ SrvTypeOK /\ ServerClock /\ srv.limit \in Nat /\ srv.left \in Nat /\ ConnDrain \in Nat
      /\ conn' = conn /\ strm' = strm
  BY SrvFields DEF SrvInv
<1>2. /\ srv'.pc = p /\ srv'.limit = srv.limit /\ srv'.left = srv.left
      /\ srv' \in [pc : {"accept", "tasks", "drain", "abort", "done"}, limit : ServerDrains, left : Nat]
  BY <1>1 DEF SrvTypeOK
<1>3. SrvTypeOK'
  BY <1>1, <1>2 DEF SrvTypeOK
<1>4. ServerClock'
  BY <1>1, <1>2 DEF ServerClock
<1>5. Waited' = Waited /\ (srv.pc = "tasks" => Waited = 0)
  BY <1>1, <1>2 DEF Waited, ServerClock
<1>6. ASSUME NEW k \in Conns PROVE Place(k)' /\ Clock(k)' /\ \A s \in Streams : Account(strm[k][s])'
  <2>1. Place(k) /\ Clock(k) /\ (\A s \in Streams : Account(strm[k][s])) /\ conn[k].left \in Nat
    BY Zenon, <1>1, SrvFields DEF SrvInv
  <2>2. \A s \in Streams : Account(strm[k][s])'
    BY <1>1, <2>1 DEF Account
  <2>3. CASE p \in {srv.pc, "tasks"}
    <3>1. Place(k)'
      BY Zenon, <1>1, <1>2, <2>1, <2>3 DEF Place, Over
    <3>2. Clock(k)'
      BY Zenon, <1>1, <1>2, <1>5, <2>1, <2>3 DEF Clock, Over
    <3>. QED  BY Zenon, <2>2, <3>1, <3>2
  <2>4. CASE p = "drain" /\ srv.pc = "tasks"
    <3>1. Place(k)'
      BY <1>1, <1>2, <2>1, <2>4 DEF Place, Over
    <3>2. conn[k].left <= ConnDrain /\ conn[k].left + Waited <= ConnDrain /\ Waited <= ConnDrain
          /\ ~(Waited > 0)
      BY <1>1, <1>5, <2>1, <2>4 DEF Clock
    <3>3. Clock(k)'
      BY Zenon, <1>1, <1>2, <1>5, <2>1, <2>4, <3>2 DEF Clock
    <3>. QED  BY <2>2, <3>1, <3>3
  <2>5. CASE p = "done" /\ ConnsOver
    <3>1. Over(conn[k])
      BY Zenon, <2>5 DEF ConnsOver
    <3>2. Place(k)'
      BY <1>1, <1>2, <2>1, <2>5 DEF Place, Over
    <3>3. Clock(k)'
      BY Zenon, <1>1, <1>2, <2>1, <2>5, <3>1 DEF Clock, Over
    <3>. QED  BY <2>2, <3>2, <3>3
  <2>. QED  BY <2>3, <2>4, <2>5
<1>. QED  BY <1>3, <1>4, <1>6 DEF SrvInv

\* The server loses its patience: only a connection that itself waits for its streams, or
\* aborts them, is left, and the server has not waited longer than a connection does.
LEMMA ServerTimeoutInv ==
  ASSUME SrvInv, ServerTimeout
  PROVE  SrvInv'
<1>1. /\ SrvTypeOK /\ ServerClock /\ srv.limit \in Nat /\ srv.limit > 0 /\ ConnDrain \in Nat
      /\ srv.pc = "drain" /\ srv.left = 0 /\ ~ConnsOver /\ srv' = [srv EXCEPT !.pc = "abort"]
      /\ strm' = strm /\ cancelled' = cancelled
  BY SrvFields DEF SrvInv, ServerTimeout
<1>2. /\ srv'.pc = "abort" /\ srv'.limit = srv.limit /\ srv'.left = srv.left
      /\ srv' \in [pc : {"accept", "tasks", "drain", "abort", "done"}, limit : ServerDrains, left : Nat]
  BY <1>1 DEF SrvTypeOK
<1>3. Waited = srv.limit /\ Waited > 0
  BY <1>1 DEF Waited
<1>4. ASSUME NEW k \in Conns
      PROVE  /\ Place(k) /\ Clock(k) /\ conn[k] \in ConnType /\ conn[k].left \in Nat
             /\ conn[k].pc \in {"none", "drain", "abort", "ended"}
  BY <1>1, <1>3, SrvFields DEF SrvInv, Clock
<1>5. srv.limit <= ConnDrain
  <2>1. PICK k \in Conns : ~Over(conn[k])
    BY Zenon, <1>1 DEF ConnsOver
  <2>2. conn[k].pc \in {"drain", "abort"}
    BY <1>4, <2>1 DEF Over
  <2>3. conn[k].left + srv.limit <= ConnDrain \/ srv.limit <= ConnDrain
    BY <1>1, <1>3, <1>4, <2>2 DEF Clock
  <2>. QED  BY <1>1, <1>4, <2>3
<1>6. ServerClock'
  BY <1>1, <1>2, <1>5 DEF ServerClock
<1>7. ASSUME NEW k \in Conns
      PROVE  /\ conn'[k] \in ConnType /\ conn'[k].ses = conn[k].ses /\ conn'[k].left = conn[k].left
             /\ conn'[k].pc = IF Over(conn[k]) THEN conn[k].pc ELSE "aborted"
  <2>1. conn'[k] = IF Over(conn[k]) THEN conn[k] ELSE [conn[k] EXCEPT !.pc = "aborted"]
    BY DEF ServerTimeout
  <2>. QED  BY <1>4, <2>1 DEF ConnType
<1>8. SrvTypeOK'
  <2>1. conn' \in [Conns -> ConnType]
    <3>1. conn' = [k \in Conns |-> conn'[k]]
      BY DEF ServerTimeout
    <3>. QED  BY <1>7, <3>1
  <2>. QED  BY Zenon, <1>1, <1>2, <2>1 DEF SrvTypeOK
<1>9. ASSUME NEW k \in Conns PROVE Place(k)' /\ Clock(k)' /\ \A s \in Streams : Account(strm[k][s])'
  <2>1. \A s \in Streams : Account(strm[k][s])'
    BY Zenon, <1>1 DEF SrvInv, Account
  <2>2. Place(k)'
    BY <1>1, <1>2, <1>4, <1>7 DEF Place, Over, Hello
  <2>3. Clock(k)'
    BY <1>2, <1>4, <1>7 DEF Clock, Over
  <2>. QED  BY Zenon, <2>1, <2>2, <2>3
<1>. QED  BY Zenon, <1>6, <1>8, <1>9 DEF SrvInv

\* A step of run_server keeps the invariant.
LEMMA ServerStepInv ==
  ASSUME SrvInv, ServerStep
  PROVE  SrvInv'
<1>1. SrvTypeOK /\ ServerClock
  BY DEF SrvInv
<1>2. CASE Cancel
  <2>1. srv' = [srv EXCEPT !.pc = srv.pc] /\ srv.pc \in {"accept", "tasks", "drain", "abort", "done"}
    BY <1>1, <1>2 DEF Cancel, SrvTypeOK
  <2>. QED  BY Zenon, <1>2, <2>1, ServerGoesInv DEF Cancel
<1>3. CASE AcceptLoopEnds
  BY <1>3, ServerGoesInv DEF AcceptLoopEnds
<1>4. CASE TasksJoined \/ ServerDrained
  <2>1. cancelled' = TRUE
    BY <1>1, <1>4 DEF ServerClock, SrvTypeOK, TasksJoined, ServerDrained
  <2>2. CASE TasksJoined
    BY <2>1, <2>2, ServerGoesInv DEF TasksJoined
  <2>3. CASE ServerDrained
    BY Zenon, <2>1, <2>3, ServerGoesInv DEF ServerDrained
  <2>. QED  BY <1>4, <2>2, <2>3
<1>. QED  BY <1>2, <1>3, <1>4, ServerTimeoutInv DEF ServerStep

\* Who is still there when time passes: nobody who has something to do, and no connection
\* that aborts its streams.
LEMMA NotReady ==
  ASSUME SrvInv, ~Ready, NEW k \in Conns
  PROVE  /\ conn[k].pc # "abort" /\ conn[k].pc # "aborted"
         /\ conn[k].pc = "drain" => conn[k].left # 0
         /\ cancelled => conn[k].pc \in {"none", "drain", "ended"}
<1>1. conn[k] \in ConnType /\ Place(k)
  BY SrvFields DEF SrvInv
<1>2. ~ConnReady(k) /\ \A s \in Streams : strm[k][s].pc # "aborted"
  BY Zenon DEF Ready
<1>3. conn[k].pc # "abort"
  BY Zenon, <1>1, <1>2 DEF Place, ConnReady, StreamsOver
<1>4. conn[k].pc \in Hello \cup {"none", "approve", "serve", "drain", "abort", "aborted", "ended"}
  BY <1>1 DEF ConnType
<1>. QED  BY Zenon, <1>2, <1>3, <1>4 DEF ConnReady

\* Time passes for the server and for its connections alike.
LEMMA ElapseInv ==
  ASSUME SrvInv, Elapse
  PROVE  SrvInv'
<1>1. /\ SrvTypeOK /\ ServerClock /\ srv.limit \in Nat /\ srv.left \in Nat /\ ConnDrain \in Nat
      /\ ~Ready /\ srv' = Down(srv) /\ conn' = [k \in Conns |-> Down(conn[k])]
      /\ strm' = strm /\ cancelled' = cancelled
  BY Zenon, SrvFields DEF SrvInv, Elapse
<1>2. srv.pc = "drain" => srv.left # 0
  BY Zenon, <1>1 DEF Ready
<1>3. /\ srv'.pc = srv.pc /\ srv'.limit = srv.limit /\ srv'.left \in Nat
      /\ srv'.left = IF srv.pc = "drain" THEN srv.left - 1 ELSE srv.left
      /\ srv' \in [pc : {"accept", "tasks", "drain", "abort", "done"}, limit : ServerDrains, left : Nat]
  <2>1. CASE srv.pc = "drain"
    <3>1. srv.left - 1 \in Nat
      BY <1>1, <1>2, <2>1
    <3>2. srv' = [srv EXCEPT !.left = srv.left - 1]
      BY <1>1, <2>1 DEF Down
    <3>. QED  BY Zenon, <1>1, <2>1, <3>1, <3>2 DEF SrvTypeOK
  <2>2. CASE srv.pc # "drain"
    BY Zenon, <1>1, <2>2 DEF Down, SrvTypeOK
  <2>. QED  BY <2>1, <2>2
<1>4. ASSUME NEW k \in Conns
      PROVE  /\ conn'[k] \in ConnType /\ conn'[k].pc = conn[k].pc /\ conn'[k].ses = conn[k].ses
             /\ conn[k].left \in Nat
             /\ conn'[k].left = IF conn[k].pc = "drain" THEN conn[k].left - 1 ELSE conn[k].left
  <2>1. conn[k] \in ConnType /\ conn[k].left \in Nat /\ conn'[k] = Down(conn[k])
    BY <1>1, SrvFields
  <2>2. CASE conn[k].pc = "drain"
    <3>1. conn[k].left - 1 \in Nat
      <4>1. conn[k].left # 0
        BY Zenon, <1>1, <2>2, NotReady
      <4>. QED  BY Zenon, <2>1, <4>1, Counted
    <3>2. conn'[k] = [conn[k] EXCEPT !.left = conn[k].left - 1]
      BY <2>1, <2>2 DEF Down
    <3>. QED  BY Zenon, <2>1, <2>2, <3>1, <3>2 DEF ConnType
  <2>3. CASE conn[k].pc # "drain"
    BY Zenon, <2>1, <2>3 DEF Down
  <2>. QED  BY Zenon, <2>2, <2>3
<1>5. SrvTypeOK'
  <2>1. conn' \in [Conns -> ConnType]
    <3>1. conn' = [k \in Conns |-> conn'[k]]
      BY Zenon, <1>1
    <3>. QED  BY <1>4, <3>1
  <2>. QED  BY Zenon, <1>1, <1>3, <2>1 DEF SrvTypeOK
<1>6. ServerClock'
  BY <1>1, <1>3 DEF ServerClock
<1>7. ASSUME NEW k \in Conns PROVE Place(k)' /\ Clock(k)' /\ \A s \in Streams : Account(strm[k][s])'
  <2>1. Place(k) /\ Clock(k) /\ \A s \in Streams : Account(strm[k][s])
    BY Zenon DEF SrvInv
  <2>2. \A s \in Streams : Account(strm[k][s])'
    BY Zenon, <1>1, <2>1 DEF Account
  <2>3. Place(k)'
    BY Zenon, <1>1, <1>3, <1>4, <2>1 DEF Place, Over
  <2>4. /\ conn[k].pc # "abort" /\ conn[k].pc # "aborted"
        /\ cancelled => conn[k].pc \in {"none", "drain", "ended"}
    BY Zenon, <1>1, NotReady
  <2>5. conn'[k].left <= ConnDrain
    <3>1. conn[k].left <= ConnDrain
      BY <2>1 DEF Clock
    <3>. QED  BY <1>1, <1>4, <3>1
  <2>6. CASE srv.pc = "drain"
    <3>1. cancelled
      BY Zenon, <1>1, <2>6 DEF ServerClock
    <3>2. conn[k].pc = "drain" => conn'[k].left + Waited' <= ConnDrain
      <4>1. conn[k].pc = "drain" => conn[k].left + (srv.limit - srv.left) <= ConnDrain
        BY Zenon, <2>1, <2>6 DEF Clock, Waited
      <4>2. Waited' = srv.limit - (srv.left - 1)
        BY Zenon, <1>3, <2>6 DEF Waited
      <4>3. conn[k].pc = "drain" => conn'[k].left = conn[k].left - 1
        BY Zenon, <1>4
      <4>4. conn[k].left \in Nat /\ srv.limit \in Nat /\ srv.left \in Nat /\ ConnDrain \in Nat
        BY <1>1, <1>4
      <4>. QED  BY <4>1, <4>2, <4>3, <4>4
    <3>. QED  BY Zenon, <1>3, <1>4, <2>2, <2>3, <2>4, <2>5, <2>6, <3>1, <3>2 DEF Clock
  <2>7. CASE srv.pc # "drain"
    BY Zenon, <1>3, <1>4, <2>1, <2>2, <2>3, <2>5, <2>7 DEF Clock, Over
  <2>. QED  BY <2>6, <2>7
<1>. QED  BY Zenon, <1>5, <1>6, <1>7 DEF SrvInv

\* Every step of the server's tasks keeps the invariant.
LEMMA SrvNextInv == SrvInv /\ [SrvNext]_srvVars => SrvInv'
<1> SUFFICES ASSUME SrvInv, [SrvNext]_srvVars PROVE SrvInv'
  OBVIOUS
<1>1. CASE UNCHANGED srvVars
  <2>1. srv' = srv /\ cancelled' = cancelled /\ conn' = conn /\ strm' = strm
    BY <1>1 DEF srvVars
  <2>2. SrvTypeOK' /\ ServerClock'
    BY Zenon, <2>1 DEF SrvInv, SrvTypeOK, ServerClock
  <2>3. ASSUME NEW k \in Conns
        PROVE  Place(k)' /\ Clock(k)' /\ \A s \in Streams : Account(strm[k][s])'
    <3>1. Place(k) /\ Clock(k) /\ \A s \in Streams : Account(strm[k][s])
      BY Zenon DEF SrvInv
    <3>2. Place(k)' /\ Clock(k)'
      BY Zenon, <2>1, <3>1, PlaceFrame, ClockFrame
    <3>. QED  BY Zenon, <2>1, <3>1, <3>2
  <2>. QED  BY Zenon, <2>2, <2>3 DEF SrvInv
<1>. QED
  BY Zenon, <1>1, ServerStepInv, ElapseInv, ConnStepInv, StreamStepInv DEF SrvNext

\* The invariant holds of every behaviour of the server's tasks.
LEMMA SrvInvariant == SrvSpec => []SrvInv
  BY SrvInitInv, SrvNextInv, PTL DEF SrvSpec

\* The tasks of run_server, handle_connection and relay_stream are in the states their code
\* has, and no waiting time becomes negative, for any number of them.
THEOREM SrvTypeCorrect == SrvSpec => []SrvTypeOK
<1>1. SrvInv => SrvTypeOK
  BY DEF SrvInv
<1>. QED  BY <1>1, SrvInvariant, PTL

\* run_server never aborts a connection task when it waits longer than handle_connection does
\* for its streams, whatever the limits and however many tasks there are.
THEOREM DrainInTimeHolds == SrvSpec => []DrainInTime
<1>1. SrvInv => DrainInTime
  <2> SUFFICES ASSUME SrvInv, srv.pc = "abort", ConnDrain < srv.limit PROVE FALSE
    BY Zenon DEF DrainInTime
  <2>1. srv.limit \in Nat /\ ConnDrain \in Nat /\ srv.limit <= ConnDrain
    BY SrvFields DEF SrvInv, ServerClock
  <2>. QED  BY <2>1
<1>. QED  BY <1>1, SrvInvariant, PTL

\* A connection task that has ended leaves no open session and no stream task, but for the
\* aborted ones of a server that has lost its patience.
THEOREM NothingLeftHolds == SrvSpec => []NothingLeft
<1>1. SrvInv => NothingLeft
  BY Zenon DEF SrvInv, Place, NothingLeft
<1>. QED  BY <1>1, SrvInvariant, PTL

\* relay_stream and relay_uot_datagrams count all that was carried before their task ends by
\* itself.
THEOREM FinishedIsCountedHolds == SrvSpec => []FinishedIsCounted
<1>1. SrvInv => FinishedIsCounted
  BY Zenon DEF SrvInv, Account, FinishedIsCounted
<1>. QED  BY <1>1, SrvInvariant, PTL

-----------------------------------------------------------------------------
(* The certificate and its key.                                            *)

\* The files, and how often they may still change.
Disk == [cert : Versions \cup {0}, key : Versions \cup {0}, edits : 0 .. MaxEdits,
         others : 0 .. MaxOthers]

\* Where the server has a listener.
Serving == {"wait", "debounce", "reload"}

\* The inductive invariant: the watcher has been told of no more changes than were made, and
\* the server serves with a pair of one version.
TlsInv ==
  /\ TlsTypeOK
  /\ seen + disk.edits <= MaxEdits
  /\ ServesAPair

\* Nothing is served before the first load.
LEMMA TlsInitInv == TlsInit => TlsInv
<1> SUFFICES ASSUME TlsInit PROVE TlsInv
  OBVIOUS
<1> DEFINE v == CHOOSE v \in Versions : TRUE
<1>1. v \in Versions
  BY Zenon, TlsAssumption
<1>2. /\ disk = [cert |-> v, key |-> v, edits |-> MaxEdits, others |-> MaxOthers]
      /\ seen = 0 /\ events = <<>> /\ task = [pc |-> "watch", half |-> FALSE, cert |-> 0]
  BY DEF TlsInit
<1> HIDE DEF v
<1> QED  BY <1>1, <1>2, TlsAssumption DEF TlsInv, TlsTypeOK, ServesAPair, TaskType

\* A task that ends, or begins another load, from where it is.
LEMMA TaskMoves ==
  ASSUME NEW t \in TaskType, NEW pc \in {"watch", "first", "wait", "debounce", "reload", "ended"},
         NEW u, u = [t EXCEPT !.pc = pc]
  PROVE  u \in TaskType /\ u.pc = pc /\ u.half = t.half /\ u.cert = t.cert
BY Zenon DEF TaskType

\* Every step keeps the invariant.
LEMMA TlsNextInv == TlsInv /\ [TlsNext]_tlsVars => TlsInv'
<1> SUFFICES ASSUME TlsInv, [TlsNext]_tlsVars PROVE TlsInv'
  OBVIOUS
<1>1. /\ disk \in Disk /\ seen \in 0 .. MaxEdits /\ events \in Seq({"tls", "other"})
      /\ task \in TaskType /\ (task.half => task.cert # 0) /\ seen + disk.edits <= MaxEdits
      /\ disk.edits \in 0 .. MaxEdits /\ MaxEdits \in Nat /\ MaxOthers \in Nat
      /\ disk.cert \in Versions \cup {0} /\ disk.key \in Versions \cup {0}
      /\ disk.others \in 0 .. MaxOthers
      /\ task.pc \in Serving => \E v \in Versions : state = Pair(v)
  BY Zenon, TlsAssumption DEF TlsInv, TlsTypeOK, Disk, ServesAPair, Serving
<1>2. SUFFICES /\ disk' \in Disk /\ seen' \in 0 .. MaxEdits /\ events' \in Seq({"tls", "other"})
               /\ task' \in TaskType /\ (task'.half => task'.cert # 0)
               /\ seen' + disk'.edits <= MaxEdits
               /\ task'.pc \in Serving => \E v \in Versions : state' = Pair(v)
  BY Zenon DEF TlsInv, TlsTypeOK, Disk, ServesAPair, Serving
<1>3. CASE Edit
  <2>1. PICK f \in {"cert", "key"}, v \in Versions \cup {0} :
          disk' = [disk EXCEPT ![f] = v, !.edits = @ - 1]
    BY <1>3 DEF Edit
  <2>2. /\ disk.edits > 0 /\ seen' = (IF At("watch") THEN 0 ELSE seen + 1)
        /\ UNCHANGED <<events, task, state>>
    BY <1>3 DEF Edit
  <2>3. disk' \in Disk /\ disk'.edits = disk.edits - 1
    <3> DEFINE n == disk.edits - 1
    <3>1. n \in 0 .. MaxEdits
      BY <1>1, <2>2
    <3>2. [disk EXCEPT ![f] = v] \in Disk /\ [disk EXCEPT ![f] = v].edits = disk.edits
      BY Zenon, <1>1 DEF Disk
    <3>3. disk' = [[disk EXCEPT ![f] = v] EXCEPT !.edits = n]
      BY <2>1, <3>2
    <3> HIDE DEF n
    <3>4. disk' \in Disk /\ disk'.edits = n
      BY Zenon, <3>1, <3>2, <3>3 DEF Disk
    <3> QED  BY Zenon, <3>4 DEF n
  <2>4. seen' \in 0 .. MaxEdits /\ seen' + disk'.edits <= MaxEdits
    BY <1>1, <2>2, <2>3
  <2> QED  BY <1>1, <2>2, <2>3, <2>4
<1>4. CASE Notify
  BY <1>1, <1>4 DEF Notify
<1>5. CASE NotifyOther
  <2>1. /\ disk.others > 0 /\ disk' = [disk EXCEPT !.others = @ - 1]
        /\ events' = Append(events, "other") /\ UNCHANGED <<seen, task, state>>
    BY <1>5 DEF NotifyOther
  <2>2. disk' \in Disk /\ disk'.edits = disk.edits
    <3> DEFINE n == disk.others - 1
    <3>1. n \in 0 .. MaxOthers /\ disk' = [disk EXCEPT !.others = n]
      BY <1>1, <2>1
    <3> HIDE DEF n
    <3> QED  BY Zenon, <1>1, <3>1 DEF Disk
  <2> QED  BY <1>1, <2>1, <2>2
<1>6. CASE ReadCert
  <2>1. /\ UNCHANGED <<disk, seen, events, state>> /\ Loading
        /\ task' = IF disk.cert = 0 THEN [task EXCEPT !.pc = Failed]
                   ELSE [task EXCEPT !.half = TRUE, !.cert = disk.cert]
    BY <1>6 DEF ReadCert
  <2>2. CASE disk.cert = 0
    <3>1. Failed \in {"ended", "wait"} /\ (Failed = "wait" => task.pc \in Serving)
      BY <2>1 DEF Failed, Loading, At, Serving
    <3>2. task' = [task EXCEPT !.pc = Failed]
      BY <2>1, <2>2
    <3>3. task' \in TaskType /\ task'.pc = Failed /\ task'.half = task.half /\ task'.cert = task.cert
      BY <1>1, <3>1, <3>2, TaskMoves
    <3>4. "ended" \notin Serving
      BY DEF Serving
    <3> QED  BY <1>1, <2>1, <3>1, <3>3, <3>4
  <2>3. CASE disk.cert # 0
    <3>1. task' \in TaskType /\ task'.cert # 0 /\ task'.pc = task.pc
      BY Zenon, <1>1, <2>1, <2>3 DEF TaskType
    <3> QED  BY <1>1, <2>1, <3>1
  <2> QED  BY <2>2, <2>3
<1>7. CASE ReadKey
  <2>1. /\ UNCHANGED <<disk, seen, events>> /\ Loading /\ task.half
    BY Zenon, <1>7 DEF ReadKey
  <2>2. CASE WithSingleCert(task.cert, disk.key)
    <3>1. /\ state' = [cert |-> task.cert, key |-> disk.key]
          /\ task' = [pc |-> "wait", half |-> FALSE, cert |-> 0]
          /\ disk.key # 0 /\ disk.key = task.cert
      BY Zenon, <1>7, <2>2 DEF ReadKey, WithSingleCert
    <3>2. disk.key \in Versions /\ state' = Pair(disk.key)
      BY Zenon, <1>1, <3>1 DEF Pair
    <3>3. task' \in TaskType /\ ~task'.half
      BY Zenon, <3>1 DEF TaskType
    <3> QED  BY Zenon, <1>1, <2>1, <3>2, <3>3
  <2>3. CASE ~WithSingleCert(task.cert, disk.key)
    <3>1. /\ task' = [pc |-> Failed, half |-> FALSE, cert |-> 0] /\ state' = state
      BY <1>7, <2>3 DEF ReadKey
    <3>2. Failed \in {"ended", "wait"} /\ (Failed = "wait" => task.pc \in Serving)
      BY Zenon, <2>1 DEF Failed, Loading, At, Serving
    <3>3. task' \in TaskType /\ ~task'.half /\ task'.pc = Failed
      BY <3>1, <3>2 DEF TaskType
    <3>4. "ended" \notin Serving
      BY DEF Serving
    <3> QED  BY Zenon, <1>1, <2>1, <3>1, <3>2, <3>3, <3>4
  <2> QED  BY Zenon, <2>2, <2>3
<1>8. CASE WatchTlsFiles
  BY <1>1, <1>8, TaskMoves DEF WatchTlsFiles, Serving
<1>9. CASE WaitEvent
  <2>1. /\ task.pc = "wait" /\ events' \in Seq({"tls", "other"}) /\ UNCHANGED <<disk, seen, state>>
    BY <1>1, <1>9 DEF WaitEvent, Recv, At
  <2>2. PICK pc \in {"wait", "debounce"} : task' = [task EXCEPT !.pc = pc]
    BY <1>9 DEF WaitEvent
  <2>3. task' \in TaskType /\ task'.pc = pc /\ task'.half = task.half /\ task'.cert = task.cert
    BY <1>1, <2>2, TaskMoves
  <2> QED  BY <1>1, <2>1, <2>3 DEF Serving
<1>10. CASE DebounceEvent
  BY <1>1, <1>10 DEF DebounceEvent, Recv
<1>11. CASE DebounceEnds
  BY <1>1, <1>11, TaskMoves DEF DebounceEnds, Serving, At
<1>12. CASE ReloadCancelled
  BY Zenon, <1>1, <1>12 DEF ReloadCancelled, Serving, TaskType
<1>13. CASE UNCHANGED tlsVars
  BY <1>1, <1>13 DEF tlsVars
<1> QED  BY Zenon, <1>3, <1>4, <1>5, <1>6, <1>7, <1>8, <1>9, <1>10, <1>11, <1>12, <1>13
          DEF TlsNext, TlsStep

\* A load that goes on to the key has a certificate, and no more changes are seen than were
\* made (tls_config, watch_tls_files).
THEOREM TlsTypeCorrect == TlsSpec => []TlsTypeOK
<1>1. TlsInv => TlsTypeOK
  BY DEF TlsInv
<1> QED  BY <1>1, TlsInitInv, TlsNextInv, PTL DEF TlsSpec

\* From the first accept on there is a certificate with its own key to serve with, whatever is
\* done to the files, how often and in whatever order (reload_tls_on_events).
THEOREM PairIsServed == TlsSpec => []ServesAPair
<1>1. TlsInv => ServesAPair
  BY DEF TlsInv
<1> QED  BY <1>1, TlsInitInv, TlsNextInv, PTL DEF TlsSpec

====
