----------------------------- MODULE PanelSync ------------------------------
(***************************************************************************)
(* Traffic accounting: the relays add what they carried to TrafficAudit,   *)
(* PanelSyncClient copies the panel's users into it and reports to the     *)
(* panel what was added since the last report.                             *)
(*                                                                         *)
(* Requests and answers may be lost or late, the panel's users change, the *)
(* server is stopped or dies at any time and is started again.  The panel  *)
(* is external: it knows a report by its reporter_id and sequence, and     *)
(* counts it once.                                                         *)
(***************************************************************************)
EXTENDS Integers

CONSTANTS
  Clients,    \* the panel's client ids
  Dirs,       \* the directions counted: upstream and downstream
  MaxBytes,   \* bytes carried for a client in a direction, by one server process
  MaxStarts   \* server processes; each makes a reporter_id

ASSUME PanelAssumption ==
  MaxBytes \in Nat /\ MaxStarts \in Nat

VARIABLES
  audit,     \* TrafficAudit: the clients it knows, their counters
  sync,      \* PanelSyncClient
  net,       \* the reports on their way to the panel
  panel,     \* its users, the reports it has seen, what it counted for each reporter
  carried    \* what each server process relayed

vars == <<audit, sync, net, panel, carried>>

Counters == [Dirs -> Nat]
Traffic == [Clients -> Counters]
Process == 1 .. MaxStarts

NoTraffic == [c \in Clients |-> [d \in Dirs |-> 0]]
Plus(t, u) == [c \in Clients |-> [d \in Dirs |-> t[c][d] + u[c][d]]]

\* PendingTrafficReport; the clients without new traffic are in neither data nor snapshot.
Report == [seq : Nat, data : Traffic, snap : Traffic]
NoReport == [seq |-> 0, data |-> NoTraffic, snap |-> NoTraffic]

\* The request: reporter_id, sequence and data.
Request == [id : Process, seq : Nat, data : Traffic]
RequestOf(i, r) == [id |-> i, seq |-> r.seq, data |-> r.data]

\* Whether a client is enabled makes no difference to what is counted.
Audit == [users : SUBSET Clients, bytes : Traffic]

Sync ==
  [pc      : {"off", "tick", "users", "apply", "report", "answer"},
   id      : Process \cup {0},      \* reporter_id
   fetched : SUBSET Clients,        \* the panel's answer, until the audit's lock is had
   base    : Traffic,               \* reported_traffic; no entry counts as zero
   seq     : Nat,                   \* next_report_sequence
   pending : Report]                \* pending_traffic

Panel ==
  [users  : SUBSET Clients,
   kept   : SUBSET Clients,          \* those that were never taken off its list
   seen   : SUBSET (Process \X Nat),
   billed : [Process -> Traffic]]

NewSync(i) ==
  [pc |-> "tick", id |-> i, fetched |-> {}, base |-> NoTraffic,
   seq |-> 1, pending |-> NoReport]

Init ==
  /\ audit = [users |-> {}, bytes |-> NoTraffic]
  /\ sync = [NewSync(0) EXCEPT !.pc = "off"]
  /\ net = {}
  /\ panel = [users |-> Clients, kept |-> Clients, seen |-> {},
              billed |-> [i \in Process |-> NoTraffic]]
  /\ carried = [i \in Process |-> NoTraffic]

-----------------------------------------------------------------------------
(* The server.                                                             *)

\* run_server: a new process, an empty audit, sync_initial.  The server does not start
\* when that fails.
Start ==
  /\ sync.pc = "off" /\ sync.id + 1 \in Process
  /\ sync' = NewSync(sync.id + 1)
  /\ audit' = [users |-> panel.users, bytes |-> NoTraffic]
  /\ UNCHANGED <<net, panel, carried>>

\* The cancel_token, or the end of the process.
Stop ==
  /\ sync.pc # "off"
  /\ sync' = [sync EXCEPT !.pc = "off"]
  /\ UNCHANGED <<audit, net, panel, carried>>

\* A TCP relay ends and its bytes are added in both directions, or a UOT datagram is
\* relayed in one.  A client that is not in the audit is not counted.
Carry(c) ==
  /\ sync.id \in Process
  /\ \E n \in [Dirs -> {0, 1}] :
       LET more == [x \in Clients |-> [d \in Dirs |-> IF x = c THEN n[d] ELSE 0]]
           sum == Plus(carried[sync.id], more)
       IN  /\ \A d \in Dirs : sum[c][d] <= MaxBytes
           /\ carried' = [carried EXCEPT ![sync.id] = sum]
           /\ audit' = IF c \notin audit.users THEN audit
                       ELSE [audit EXCEPT !.bytes = Plus(@, more)]
  /\ UNCHANGED <<sync, net, panel>>

\* The interval of run.
Tick ==
  /\ sync.pc = "tick"
  /\ sync' = [sync EXCEPT !.pc = "users"]
  /\ UNCHANGED <<audit, net, panel, carried>>

\* sync_once: the panel answers with its users of the moment.
UsersAnswered ==
  /\ sync.pc = "users"
  /\ sync' = [sync EXCEPT !.pc = "apply", !.fetched = panel.users]
  /\ UNCHANGED <<audit, net, panel, carried>>

\* No answer, not 200, ret 0, or not the JSON expected; the report follows all the same.
UsersFailed ==
  /\ sync.pc = "users"
  /\ sync' = [sync EXCEPT !.pc = "report"]
  /\ UNCHANGED <<audit, net, panel, carried>>

\* Under the audit's lock: sync_client for those listed; the missing ones are removed with
\* their counters and with what was reported of them.
UsersApplied ==
  /\ sync.pc = "apply"
  /\ LET removed == audit.users \ sync.fetched
         Without(t) == [c \in Clients |-> IF c \in removed THEN NoTraffic[c] ELSE t[c]]
     IN  /\ audit' = [users |-> sync.fetched, bytes |-> Without(audit.bytes)]
         /\ sync' = [sync EXCEPT !.pc = "report", !.base = Without(@)]
  /\ UNCHANGED <<net, panel, carried>>

\* saturating_sub of what was reported before.
Delta ==
  [c \in Clients |-> [d \in Dirs |->
     IF audit.bytes[c][d] >= sync.base[c][d] THEN audit.bytes[c][d] - sync.base[c][d] ELSE 0]]

Changed == {c \in Clients : \E d \in Dirs : Delta[c][d] # 0}
NewReport ==
  [seq |-> sync.seq, data |-> Delta,
   snap |-> [c \in Clients |-> IF c \in Changed THEN audit.bytes[c] ELSE NoTraffic[c]]]

\* Mutant: a retry reports what there is by now, under a new sequence.
PostAnew ==
  /\ sync.pc = "report" /\ Changed # {}
  /\ sync' = [sync EXCEPT !.pc = "answer", !.pending = NewReport, !.seq = @ + 1]
  /\ net' = net \cup {RequestOf(sync.id, NewReport)}
  /\ UNCHANGED <<audit, panel, carried>>

\* report_traffic_once posts the pending report, or else a new one.
Post ==
  /\ sync.pc = "report" /\ (sync.pending # NoReport \/ Changed # {})
  /\ LET new == sync.pending = NoReport
         report == IF new THEN NewReport ELSE sync.pending
     IN  /\ sync' = [sync EXCEPT !.pc = "answer", !.pending = report,
                                 !.seq = IF new THEN @ + 1 ELSE @]
         /\ net' = net \cup {RequestOf(sync.id, report)}
  /\ UNCHANGED <<audit, panel, carried>>

NothingToPost ==
  /\ sync.pc = "report" /\ sync.pending = NoReport /\ Changed = {}
  /\ sync' = [sync EXCEPT !.pc = "tick"]
  /\ UNCHANGED <<audit, net, panel, carried>>

\* Mutant: the counters of the moment are taken for what was reported.
AnsweredNow ==
  /\ sync.pc = "answer" /\ <<sync.id, sync.pending.seq>> \in panel.seen
  /\ sync' = [sync EXCEPT !.pc = "tick", !.base = audit.bytes, !.pending = NoReport]
  /\ UNCHANGED <<audit, net, panel, carried>>

\* The panel has counted the report, now or at an earlier attempt.
Answered ==
  /\ sync.pc = "answer" /\ <<sync.id, sync.pending.seq>> \in panel.seen
  /\ LET p == sync.pending
     IN  sync' = [sync EXCEPT !.pc = "tick", !.pending = NoReport,
                    !.base = [c \in Clients |-> IF \E d \in Dirs : p.data[c][d] # 0 THEN p.snap[c]
                                                ELSE @[c]]]
  /\ UNCHANGED <<audit, net, panel, carried>>

\* Mutant: a report that is not answered is given up.
NotAnsweredDropped ==
  /\ sync.pc = "answer"
  /\ sync' = [sync EXCEPT !.pc = "tick", !.pending = NoReport]
  /\ UNCHANGED <<audit, net, panel, carried>>

\* The request or the answer is lost or late, or the panel refuses: the report stays.
NotAnswered ==
  /\ sync.pc = "answer"
  /\ sync' = [sync EXCEPT !.pc = "tick"]
  /\ UNCHANGED <<audit, net, panel, carried>>

-----------------------------------------------------------------------------
(* The panel.                                                              *)

\* A report arrives, be its sender still waiting or not.
Bill(m) ==
  /\ <<m.id, m.seq>> \notin panel.seen
  /\ panel' = [panel EXCEPT !.seen = @ \cup {<<m.id, m.seq>>},
                            !.billed[m.id] = Plus(@, m.data)]
  /\ UNCHANGED <<audit, sync, net, carried>>

\* A client is removed from the panel, or put back.
ChangeUser(c) ==
  /\ panel' = [panel EXCEPT !.users = IF c \in @ THEN @ \ {c} ELSE @ \cup {c},
                            !.kept = @ \ {c}]
  /\ UNCHANGED <<audit, sync, net, carried>>

-----------------------------------------------------------------------------
SyncStep == Tick \/ UsersAnswered \/ UsersFailed \/ UsersApplied
ReportStep == Post \/ NothingToPost \/ Answered \/ NotAnswered

Next ==
  \/ Start \/ Stop \/ SyncStep \/ ReportStep
  \/ \E m \in net : Bill(m)
  \/ \E c \in Clients : Carry(c) \/ ChangeUser(c)

Spec == Init /\ [][Next]_vars

\* The task runs, and a request that is repeated for ever is received and answered at some
\* time.
Fairness ==
  /\ WF_vars(Tick) /\ WF_vars(UsersAnswered \/ UsersFailed) /\ WF_vars(UsersApplied)
  /\ WF_vars(Post \/ NothingToPost) /\ WF_vars(Answered \/ NotAnswered)
  /\ WF_vars(\E m \in net : Bill(m)) /\ SF_vars(Answered)

FairSpec == Spec /\ Fairness

-----------------------------------------------------------------------------
(* Properties.                                                             *)

\* The state has the types of TrafficAudit and PanelSyncClient; no counter is negative.
TypeOK ==
  /\ audit \in Audit /\ sync \in Sync /\ panel \in Panel
  /\ net \subseteq Request
  /\ carried \in [Process -> Traffic]

\* The panel never counts more for a client than the server process relayed for it, however
\* often a report is repeated and whoever of the two has forgotten the other
\* (pending_traffic and its sequence, remove_missing_clients).
NeverOverBilled ==
  \A i \in Process, c \in Clients, d \in Dirs : panel.billed[i][c][d] <= carried[i][c][d]

\* What the pending report stands for when it has not reached the panel yet.
Outstanding(c, d) ==
  IF sync.pending = NoReport \/ <<sync.id, sync.pending.seq>> \in panel.seen THEN 0
  ELSE sync.pending.data[c][d]

\* What is taken as reported once the pending report is answered.
Base(c, d) ==
  IF \E e \in Dirs : sync.pending.data[c][e] # 0 THEN sync.pending.snap[c][d] ELSE sync.base[c][d]

\* Of a client the panel has never taken off its list, every byte relayed is in the panel,
\* in the pending report or in the next one, through every failure and whatever happens to
\* the other clients (report_traffic_once, sync_once).
NothingLost ==
  sync.id \in Process =>
    \A c \in panel.kept, d \in Dirs :
      carried[sync.id][c][d] =
        panel.billed[sync.id][c][d] + Outstanding(c, d) + (audit.bytes[c][d] - Base(c, d))

\* A server that goes on running gets all it relayed for the clients the panel keeps to the
\* panel (run, report_traffic_once).
AllBilled ==
  <>[](sync.pc # "off") =>
    <>[](\A i \in Process, c \in panel.kept, d \in Dirs :
           i = sync.id => panel.billed[i][c][d] = carried[i][c][d])

\* What a client was reported for is never more than what it was counted for, or its next
\* bytes are reported as nothing.  README.md says that traffic is accounted to the client.
BaselineNotAhead ==
  \A c \in Clients, d \in Dirs :
    c \in audit.users /\ sync.pending = NoReport => sync.base[c][d] <= audit.bytes[c][d]
=============================================================================
