----------------------------- MODULE PaddedLink -----------------------------
(***************************************************************************)
(* The start of a session and the bytes under it: the client's Settings,   *)
(* held back until its first SYN, the server's answers, the update of the  *)
(* padding scheme, and write_conn, which cuts and fills what it writes by  *)
(* the scheme.  A byte is a pair <<f, i>>: byte i of the encoding of f.    *)
(***************************************************************************)
EXTENDS Integers, Sequences

CONSTANTS
  Header,      \* HEADER_OVERHEAD_SIZE
  MaxLen,      \* u16::MAX: what the length field of a frame holds
  MaxId,       \* u32::MAX
  Scheme,      \* padding schemes, by name (md5): the client's own and the server's
  MaxPush,     \* bytes of a Push frame
  Pushes       \* Push frames of each side

Sides == {"client", "server"}
Peer(x) == IF x = "client" THEN "server" ELSE "client"
CheckMark == -1   \* CHECK_MARK

\* What a line of a scheme lists: ranges <<a, b>> and marks << >>.
Entry == {<< >>} \cup ({n \in Int : n <= MaxLen} \X {n \in Int : n <= MaxLen})

\* A scheme has its stop and, for some packets, a line.  Sizes fit the length field;
\* parse_range would let larger ones through.
ASSUME PaddingAssumption ==
  /\ Header \in Nat \ {0} /\ MaxLen \in Nat \ {0} /\ MaxId \in Nat \ {0}
  /\ MaxPush \in 0 .. MaxLen /\ Pushes \in Nat
  /\ DOMAIN Scheme = Sides
  /\ \A n \in Sides :
       /\ Scheme[n].stop \in Nat
       /\ \A p \in DOMAIN Scheme[n].line : Scheme[n].line[p] \in Seq(Entry)

VARIABLES
  end,       \* the two ends: queues, writer, receive loop
  tls,      \* bytes on their way to each end
  scheme,    \* the name of the scheme each end pads by; the client's sessions share theirs
  opening,   \* how far the client is: "new", "run", "syn", "open"
  nextId,    \* NEXT_STREAM_ID
  sent, got  \* history: frames taken by each writer, frames decoded by each reader

plVars == <<end, tls, scheme, opening, nextId, sent, got>>

Frame(c, i, n, s) == [cmd |-> c, id |-> i, len |-> n, scheme |-> s]
Encode(f) == [i \in 1 .. Header + f.len |-> <<f, i>>]

\* Command::valid_stream_id and allows_data.
ValidStreamId(f) == IF f.cmd \in {"Syn", "Push"} THEN f.id > 0 ELSE f.id = 0
AllowsData(f) == f.cmd # "Syn"

-----------------------------------------------------------------------------
(* The padding scheme and write_conn.                                      *)

\* The sizes a range may give; none if it is not positive.
ParseRange(e) ==
  IF e = << >> THEN {CheckMark}
  ELSE LET lo == IF e[1] <= e[2] THEN e[1] ELSE e[2]
           hi == IF e[1] <= e[2] THEN e[2] ELSE e[1]
       IN  IF lo <= 0 THEN {} ELSE IF lo = hi THEN {lo} ELSE lo .. hi - 1

\* generate_record_payload_sizes: what it will draw from.  Each size is drawn when its turn
\* comes, which nobody can tell.
RecordRanges(s, packet) == IF packet \in DOMAIN s.line THEN s.line[packet] ELSE << >>

\* A waste frame of n bytes, whose length field has 16 bits.
Waste(n) == [i \in 1 .. Header + n |-> <<Frame("Waste", 0, n % (MaxLen + 1), "none"), i>>]

\* Writer::write_conn as far as its loop: the bytes are held back, or are a packet.
WriteConn(w, bytes, s) ==
  LET all == w.buffered \o bytes
      n == w.count + 1
      v == [w EXCEPT !.buffered = << >>, !.rest = all]
  IN  IF w.buffering THEN [w EXCEPT !.buffered = all]
      ELSE IF ~w.pad THEN v
      ELSE IF n >= s.stop THEN [v EXCEPT !.count = n, !.pad = FALSE]
      ELSE [v EXCEPT !.count = n, !.ranges = RecordRanges(s, n)]

\* Mutant: the SYN ends the buffering, and the buffer waits for the next request.
ServeUnflushed(w, f, s) ==
  LET v == WriteConn(w, Encode(f), s)
  IN  IF f.cmd # "Syn" THEN v ELSE [v EXCEPT !.buffering = FALSE]

\* A WriteRequest; the one of a SYN ends the buffering and flushes the buffer.
Serve(w, f, s) ==
  LET v == WriteConn(w, Encode(f), s)
      u == [v EXCEPT !.buffering = FALSE]
  IN  IF f.cmd # "Syn" THEN v
      ELSE IF u.buffered = << >> THEN u
      ELSE WriteConn(u, << >>, s)

\* One round of the loop over the sizes: what is left of the packet, and what is written.
\* A full record, a last one filled up with waste, or one of waste only.
Record(rest, size) ==
  IF Len(rest) > size
  THEN [rest |-> SubSeq(rest, size + 1, Len(rest)), out |-> SubSeq(rest, 1, size)]
  ELSE LET fill == IF rest = << >> THEN size ELSE size - (Len(rest) + Header)
       IN  [rest |-> << >>, out |-> rest \o (IF fill > 0 THEN Waste(fill) ELSE << >>)]

-----------------------------------------------------------------------------
(* Both ends.                                                              *)

\* A client begins by buffering; both pad.
NewWriter(x) == [buffering |-> x = "client", buffered |-> << >>, pad |-> TRUE, count |-> 0,
                 at |-> "idle", rest |-> << >>, ranges |-> << >>]

\* Who has queued a control request has its answer.
Written(e) == e.ctl = << >> /\ e.w.at # "ctl"

\* Other sessions of the process have taken stream ids before.
PlInit ==
  /\ end = [x \in Sides |-> [ctl |-> << >>, data |-> << >>, pushes |-> 0, w |-> NewWriter(x),
                             up |-> TRUE, settings |-> FALSE, syn |-> FALSE, version |-> 0]]
  /\ tls = [x \in Sides |-> << >>]
  /\ scheme = [x \in Sides |-> x]
  /\ opening = "new" /\ nextId \in 0 .. MaxId
  /\ sent = [x \in Sides |-> << >>] /\ got = [x \in Sides |-> << >>]

\* write_control and queue_control.
Queue(e, fs) == [e EXCEPT !.ctl = @ \o fs]

\* Session::run: the Settings name the scheme of this moment.
Run ==
  /\ opening = "new"
  /\ opening' = "run"
  /\ end' = [end EXCEPT !["client"] = Queue(@, <<Frame("Settings", 0, 1, scheme["client"])>>)]
  /\ UNCHANGED <<tls, scheme, nextId, sent, got>>

\* Mutant: zero is given out like any other id.
AllocateStreamIdAny(c) == (c + 1) % (MaxId + 1)

\* allocate_stream_id: the counter wraps, and zero is passed over.
AllocateStreamId(c) == IF c = MaxId THEN 1 ELSE c + 1

\* run waits for its write, so the Settings have left the queue when the SYN enters it.
OpenStream ==
  /\ opening = "run" /\ Written(end["client"]) /\ end["client"].up
  /\ opening' = "syn"
  /\ nextId' = AllocateStreamId(nextId)
  /\ end' = [end EXCEPT !["client"] = Queue(@, <<Frame("Syn", nextId', 0, "none")>>)]
  /\ UNCHANGED <<tls, scheme, sent, got>>

\* open_reserved_stream returns when the SYN is written.
Opened ==
  /\ opening = "syn" /\ Written(end["client"])
  /\ opening' = "open"
  /\ UNCHANGED <<end, tls, scheme, nextId, sent, got>>

\* write_data, by who has the stream, one call at a time.
Push(x) ==
  /\ IF x = "client" THEN opening = "open" ELSE end[x].syn
  /\ end[x].up /\ end[x].data = << >> /\ end[x].w.at # "data" /\ end[x].pushes < Pushes
  /\ \E n \in 0 .. MaxPush :
       end' = [end EXCEPT ![x].data = <<Frame("Push", nextId, n, "none")>>, ![x].pushes = @ + 1]
  /\ UNCHANGED <<tls, scheme, opening, nextId, sent, got>>

\* background_task takes a request, the control queue's first.
Take(x) ==
  LET e == end[x]
      q == IF e.ctl # << >> THEN "ctl" ELSE "data"
      w == Serve(e.w, Head(e[q]), Scheme[scheme[x]])
  IN  /\ e.up /\ e.w.at = "idle" /\ e[q] # << >>
      /\ end' = [end EXCEPT ![x] = [e EXCEPT ![q] = Tail(@),
                                            !.w = [w EXCEPT !.at = IF w.buffering THEN "idle" ELSE q]]]
      /\ sent' = [sent EXCEPT ![x] = Append(@, Head(e[q]))]
      /\ UNCHANGED <<tls, scheme, opening, nextId, got>>

\* The writer has written.
Wrote(x, w, out) ==
  /\ end' = [end EXCEPT ![x].w = w]
  /\ tls' = [tls EXCEPT ![Peer(x)] = @ \o out]
  /\ UNCHANGED <<scheme, opening, nextId, sent, got>>

\* write_conn's loop: a size that is no size is passed over, a mark ends the loop when nothing
\* is left, any other makes a record.
WriteRecord(x) ==
  LET w == end[x].w
      v == [w EXCEPT !.ranges = Tail(@)]
      sizes == ParseRange(Head(w.ranges))
  IN  /\ end[x].up /\ w.at # "idle" /\ w.ranges # << >>
      /\ \/ sizes = {} /\ Wrote(x, v, << >>)
         \/ /\ sizes = {CheckMark}
            /\ Wrote(x, IF w.rest = << >> THEN [w EXCEPT !.ranges = << >>] ELSE v, << >>)
         \/ \E size \in sizes \ {CheckMark} :
              LET r == Record(w.rest, size) IN Wrote(x, [v EXCEPT !.rest = r.rest], r.out)

\* After the loop the rest, if any, is written, and the request is answered.
WriteRest(x) ==
  LET w == end[x].w
  IN  /\ end[x].up /\ w.at # "idle" /\ w.ranges = << >>
      /\ Wrote(x, [w EXCEPT !.at = "idle", !.rest = << >>], w.rest)

\* The receive loop fails and the session is shut down.
Fails(e) == [e EXCEPT !.up = FALSE]

\* Mutant: a client whose scheme is up to date gets no ServerSettings.
OnSettingsOneAnswer(e, f) ==
  Queue([e EXCEPT !.settings = TRUE, !.version = 2],
        <<IF f.scheme # "server" THEN Frame("Update", 0, 1, "server")
          ELSE Frame("Waste", 0, 0, "none")>>)

\* on_receive_settings, of a client of version 2.
OnSettings(e, f) ==
  Queue([e EXCEPT !.settings = TRUE, !.version = 2],
        (IF f.scheme # "server" THEN <<Frame("Update", 0, 1, "server")>> ELSE << >>)
          \o <<Frame("ServerSettings", 0, 1, "none")>>)

\* on_receive_syn_cmd; SessionStreams has the rest of it.
OnSyn(e) ==
  IF e.settings THEN [e EXCEPT !.syn = TRUE]
  ELSE Fails(Queue(e, <<Frame("Alert", 0, 1, "none")>>))

\* What receive_loop does with a frame.
OnFrame(x, f) ==
  LET e == end[x]
  IN  IF ~ValidStreamId(f) \/ (~AllowsData(f) /\ f.len > 0) \/ f.cmd = "Alert" THEN Fails(e)
      ELSE IF f.cmd = "Settings" /\ x = "server" THEN OnSettings(e, f)
      ELSE IF f.cmd = "Syn" /\ x = "server" THEN OnSyn(e)
      ELSE IF f.cmd = "ServerSettings" /\ x = "client" THEN [e EXCEPT !.version = 2]
      ELSE e

\* read_from_or_eof takes a header and as many bytes as it says.  Bytes that are not one
\* frame's are read as garbage (a waste frame's, being zero, as empty ones before that).
Receive(x) ==
  /\ end[x].up /\ Len(tls[x]) >= Header
  /\ LET f == tls[x][1][1]
         n == Header + f.len
         whole == tls[x][1][2] = 1 /\ SubSeq(tls[x], 1, n) = Encode(f)
     IN  /\ Len(tls[x]) >= n
         /\ tls' = [tls EXCEPT ![x] = SubSeq(@, n + 1, Len(@))]
         /\ end' = [end EXCEPT ![x] = IF whole THEN OnFrame(x, f) ELSE Fails(@)]
         /\ got' = IF f.cmd = "Waste" THEN got ELSE [got EXCEPT ![x] = Append(@, f)]
         /\ scheme' = IF whole /\ f.cmd = "Update" /\ x = "client"
                      THEN [scheme EXCEPT ![x] = f.scheme] ELSE scheme
  /\ UNCHANGED <<opening, nextId, sent>>

\* Another session of the client is told of the server's scheme.
OtherUpdate ==
  /\ scheme["client"] # "server"
  /\ scheme' = [scheme EXCEPT !["client"] = "server"]
  /\ UNCHANGED <<end, tls, opening, nextId, sent, got>>

PlNext ==
  \/ Run \/ OpenStream \/ Opened \/ OtherUpdate
  \/ \E x \in Sides : Push(x) \/ Take(x) \/ WriteRecord(x) \/ WriteRest(x) \/ Receive(x)

PlSpec == PlInit /\ [][PlNext]_plVars

-----------------------------------------------------------------------------
(* Properties.                                                             *)

Frames ==
  [cmd : {"Waste", "Settings", "Syn", "Push", "Alert", "Update", "ServerSettings"},
   id : 0 .. MaxId, len : 0 .. MaxLen, scheme : Sides \cup {"none"}]

Bytes == Frames \X Nat

PadWriter ==
  [buffering : BOOLEAN, buffered : Seq(Bytes), pad : BOOLEAN, count : Nat,
   at : {"idle", "ctl", "data"}, rest : Seq(Bytes), ranges : Seq(Entry)]

Ends == [ctl : Seq(Frames), data : Seq(Frames), pushes : 0 .. Pushes, w : PadWriter,
         up : BOOLEAN, settings : BOOLEAN, syn : BOOLEAN, version : {0, 2}]

PadsInTime(w) == w.pad /\ w.count > 0 => \E s \in Sides : w.count < Scheme[s].stop

\* Queues hold frames and buffers bytes; who has written as many packets as any scheme pads
\* does not pad any more (Writer, write_conn).
PlTypeOK ==
  /\ end \in [Sides -> Ends] /\ tls \in [Sides -> Seq(Bytes)]
  /\ scheme \in [Sides -> Sides] /\ opening \in {"new", "run", "syn", "open"}
  /\ nextId \in 0 .. MaxId
  /\ sent \in [Sides -> Seq(Frames)] /\ got \in [Sides -> Seq(Frames)]
  /\ \A x \in Sides : PadsInTime(end[x].w)

\* Neither end ever refuses what the other sends: the Settings come before the SYN though
\* both are held back, stream ids are never zero though the counter wraps, and cut and
\* filled records never throw the reader out of step (receive_loop, on_receive_syn_cmd).
NeverRefused == \A x \in Sides : end[x].up

\* However the scheme cuts and fills, and whenever it is changed, the frames read are the
\* frames written, in order, and nothing is held back once the buffering is over and the
\* writer has done its requests (write_conn, read_from_or_eof).
DecodedAsSent ==
  \A x \in Sides :
    LET w == end[Peer(x)].w
    IN  /\ Len(got[x]) <= Len(sent[Peer(x)])
        /\ \A i \in 1 .. Len(got[x]) : got[x][i] = sent[Peer(x)][i]
        /\ tls[x] = << >> /\ ~w.buffering /\ w.at = "idle" => got[x] = sent[Peer(x)]

\* When the server's answers have arrived both ends know of version 2 and the client pads
\* by the server's scheme, though another session may have changed it since this one's
\* Settings were written (on_receive_settings).
SettingsAgreed ==
  /\ end["server"].settings
  /\ end["server"].ctl = << >> /\ end["server"].w.at = "idle" /\ tls["client"] = << >>
  => /\ scheme["client"] = "server"
     /\ \A x \in Sides : end[x].version = 2
=============================================================================
