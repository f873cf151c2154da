---------------------------- MODULE IpcTransport ----------------------------
(***************************************************************************)
(* One frontend's connection to the client daemon over a Unix socket: the  *)
(* framing and the outbound slots of both ends (clientd/ipc.rs,            *)
(* Connection; clientd/protocol.rs), the daemon's accept and serve loops   *)
(* with the engine behind them (clientd/daemon.rs) and the frontend's      *)
(* reader (clientd/frontend.rs, FrameStream).                              *)
(*                                                                         *)
(* A frame is written as Size units, the first of which carries the length *)
(* prefix; a socket buffer holds a bounded number of units, so a frame is   *)
(* cut wherever the peer stops reading.  A document is its generation.      *)
(* The engine is reduced to what reaches a connection: it publishes         *)
(* documents into the watch channel and acknowledges requests.             *)
(*                                                                         *)
(* An iteration of the serve loop is two steps here, the request at its     *)
(* top and its select; nothing in between awaits.  FrontendFrame::ShuttingDown *)
(* is never sent: the watch sender lives in the Hub the serve task itself   *)
(* holds, so changed() cannot fail while that task runs.                   *)
(***************************************************************************)
EXTENDS Integers, Sequences, SequencesExt, FiniteSetsExt

CONSTANTS
    Handshakes,       \* the first frames a peer may send: "good" or refused ones
    Size(_),          \* units of a frame
    SocketUnits,      \* of each direction's socket buffer
    ReadUnits,        \* READ_BUFFER_BYTES
    BufferUnits,      \* MAX_BUFFERED_BYTES
    HubCapacity,      \* REQUEST_CHANNEL_CAPACITY of the engine (64)
    AckCapacity,      \* ACK_CHANNEL_CAPACITY (8)
    ChannelCapacity,  \* REQUEST_CHANNEL_CAPACITY of the frontend (8)
    MaxGeneration,    \* bound on the documents published
    MaxRequests,      \* bound on the requests a frontend makes
    None

Hello == <<"hello", 0>>
Refusal == <<"protocol_error", 0>>
Document(g) == <<"document", g>>
Ack(n) == <<"ack", n>>
Request(n) == <<"request", n>>
Handshake(h) == <<"handshake", h>>

ASSUME ConstantsAssumption ==
    /\ "good" \in Handshakes
    /\ \A n \in {SocketUnits, ReadUnits, BufferUnits, HubCapacity, AckCapacity,
                 ChannelCapacity, MaxGeneration, MaxRequests} : n \in Nat \ {0}
    /\ \A f \in {Hello, Refusal} \cup {Handshake(h) : h \in Handshakes}
                  \cup {Document(g) : g \in 1 .. MaxGeneration}
                  \cup {Ack(n) : n \in 1 .. MaxRequests}
                  \cup {Request(n) : n \in 1 .. MaxRequests} :
          Size(f) \in Nat \ {0} /\ Size(f) + ReadUnits <= BufferUnits

VARIABLES
    published,  \* generation of the document in the watch channel
    accepting,  \* the accept loop runs
    conn,       \* the daemon's Connection and the state of its serve task
    down, up,   \* the socket buffers, to the frontend and to the daemon
    requests,   \* the engine's request channel
    acks,       \* the connection's ack channel
    front,      \* the frontend's Connection and what its caller has learnt
    shown,      \* generation of the newest document the frontend was handed
    taken,      \* history: the requests the engine took, in order
    lost        \* history: the frames a queued slot gave up for a newer one

vars == <<published, accepting, conn, down, up, requests, acks, front, shown,
          taken, lost>>

-----------------------------------------------------------------------------
(* Framing.                                                                  *)

(* encode_frame, and the length prefix parse_length reads back.              *)
Units(frame) == [i \in 1 .. Size(frame) |-> <<frame, i>>]
Garbled == <<"garbled", 0>>

(* try_read_frame: the frame at the front of a buffer; None while it is short. *)
FrameOf(buffer) ==
    IF buffer = <<>> THEN None
    ELSE LET frame == buffer[1][1]
         IN  IF buffer[1][2] # 1 THEN Garbled
             ELSE IF Len(buffer) < Size(frame) THEN None
             ELSE IF IsPrefix(Units(frame), buffer) THEN frame ELSE Garbled
Rest(buffer) == SubSeq(buffer, Size(FrameOf(buffer)) + 1, Len(buffer))

(* The outbound half of a Connection.                                        *)
Idle == [inflight |-> <<>>, queued |-> None]
Held(out) == IF out.queued = None THEN <<>> ELSE Units(out.queued)

(* flush_outbound: the socket takes what it has room for; the queued frame    *)
(* follows once the one in flight is gone.                                   *)
Taken(out, socket) == Min({SocketUnits - Len(socket), Len(out.inflight \o Held(out))})
Flushed(out, socket) ==
    LET all == out.inflight \o Held(out)
        k == Taken(out, socket)
    IN  IF k < Len(out.inflight)
        THEN [out EXCEPT !.inflight = SubSeq(out.inflight, k + 1, Len(out.inflight))]
        ELSE [inflight |-> SubSeq(all, k + 1, Len(all)), queued |-> None]
Carried(out, socket) ==
    socket \o SubSeq(out.inflight \o Held(out), 1, Taken(out, socket))

(* write_encoded: a frame still in flight is never disturbed, the queued one   *)
(* is replaced.                                                              *)
PlacedInFlight(out, frame) == [out EXCEPT !.inflight = Units(frame)]
Placed(out, frame) ==
    IF out.inflight = <<>> THEN [out EXCEPT !.inflight = Units(frame)]
                           ELSE [out EXCEPT !.queued = frame]
Replaced(out, frame) ==
    IF out.inflight = <<>> THEN {} ELSE {out.queued} \ {None, frame}

-----------------------------------------------------------------------------
(* The two ends.                                                             *)

Out(end) == [inflight |-> end.inflight, queued |-> end.queued]
With(end, out) == [end EXCEPT !.inflight = out.inflight, !.queued = out.queued]

Serving == conn.pc \in {"top", "select"}
Gone == front.pc \notin {"waiting", "attached"}

(* Nobody dialled yet; a dialled connection waits in the backlog.            *)
Fresh(pc) ==
    [pc |-> pc, done |-> FALSE, seen |-> 0, buffer |-> <<>>, inflight |-> <<>>,
     queued |-> None]

TypeOK ==
    /\ published \in 1 .. MaxGeneration /\ shown \in 0 .. MaxGeneration
    /\ accepting \in BOOLEAN
    /\ conn.pc \in {"none", "backlog", "top", "select", "closed"}
    /\ conn.done \in BOOLEAN /\ conn.seen \in 0 .. published
    /\ front.pc \in {"absent", "waiting", "attached", "refused", "confused",
                     "failed", "disconnected", "left"}
    /\ front.asked \in 0 .. MaxRequests
    /\ Len(down) <= SocketUnits /\ Len(up) <= SocketUnits
    /\ Len(conn.buffer) <= BufferUnits /\ Len(front.buffer) <= BufferUnits
    /\ Len(requests) <= HubCapacity /\ Len(acks) <= AckCapacity
    /\ Len(front.channel) <= ChannelCapacity

-----------------------------------------------------------------------------
(* The daemon.                                                               *)

(* The serve task returns: its Connection is dropped with what it still holds;   *)
(* what the socket already took stays readable.                              *)
Closed(end) == [Fresh("closed") EXCEPT !.seen = end.seen]

(* serve writes the reason of an error, as far as the socket takes it.       *)
Refuse ==
    LET out == Placed(Out(conn), Refusal)
    IN  /\ conn' = Closed(conn)
        /\ down' = IF Gone THEN down ELSE Carried(out, down)

(* The frames the serve loop writes in one step, one after the other.        *)
Write(end, frame) ==
    LET out == Placed(Out(end), frame)
    IN  /\ conn' = With(end, Flushed(out, down))
        /\ down' = Carried(out, down)
        /\ lost' = lost \cup Replaced(Out(end), frame)

Greeted(end) ==
    LET first == Placed(Out(end), Hello)
        second == Placed(Flushed(first, down), Document(published))
        socket == Carried(first, down)
    IN  /\ conn' = With(end, Flushed(second, socket))
        /\ down' = Carried(second, socket)

Accept ==
    /\ accepting /\ conn.pc = "backlog"
    /\ conn' = [Fresh("top") EXCEPT !.seen = published]
    /\ UNCHANGED <<published, accepting, down, up, requests, acks, front, shown,
                   taken, lost>>

(* An accept error other than "none waiting" ends the loop, not the daemon.   *)
AcceptFails ==
    /\ accepting
    /\ accepting' = FALSE
    /\ UNCHANGED <<published, conn, down, up, requests, acks, front, shown, taken,
                   lost>>

(* try_read_request and verify_daemon_id: anything but the handshake of this      *)
(* version and this configuration is refused before it.                      *)
Unwelcome(frame) == ~conn.done /\ frame \notin {None, Handshake("good")}

(* The top of the loop: at most one request, the handshake first.            *)
ReadRequest ==
    /\ conn.pc = "top"
    /\ LET frame == FrameOf(conn.buffer)
           next == [conn EXCEPT !.pc = "select"]
           read == [next EXCEPT !.buffer = Rest(conn.buffer)]
       IN  \/ /\ frame = None
              /\ conn' = next
              /\ UNCHANGED <<down, requests>>
           \/ /\ ~conn.done /\ frame = Handshake("good")
              /\ IF Gone THEN Refuse ELSE Greeted([read EXCEPT !.done = TRUE])
              /\ UNCHANGED requests
           \/ /\ Unwelcome(frame)
              /\ Refuse
              /\ UNCHANGED requests
           \/ /\ conn.done /\ frame # None
              /\ IF Len(requests) < HubCapacity /\ frame # Garbled
                 THEN /\ requests' = Append(requests, frame)
                      /\ conn' = read
                      /\ UNCHANGED down
                 ELSE Refuse /\ UNCHANGED requests
    /\ UNCHANGED <<published, accepting, up, acks, front, shown, taken, lost>>

(* snapshots.changed(): before the handshake the notification is only marked   *)
(* seen.                                                                     *)
WritesState(done) == done

ServeChanged ==
    /\ conn.pc = "select" /\ conn.seen < published
    /\ LET seen == [conn EXCEPT !.pc = "top", !.seen = published]
       IN  IF ~WritesState(conn.done)
           THEN conn' = seen /\ UNCHANGED <<down, lost>>
           ELSE IF Gone THEN Refuse /\ UNCHANGED lost
           ELSE Write(seen, Document(published))
    /\ UNCHANGED <<published, accepting, up, requests, acks, front, shown, taken>>

ServeAck ==
    /\ conn.pc = "select" /\ acks # <<>>
    /\ acks' = Tail(acks)
    /\ IF Gone THEN Refuse /\ UNCHANGED lost
               ELSE Write([conn EXCEPT !.pc = "top"], Head(acks))
    /\ UNCHANGED <<published, accepting, up, requests, front, shown, taken>>

(* The timer: push what the peer can take, then read what it sent.  A peer     *)
(* that left is noticed by either half, after what it wrote has been read or    *)
(* at once.                                                                  *)
ServeTick ==
    /\ conn.pc = "select"
    /\ LET k == Min({ReadUnits, Len(up)})
           flushed == IF Gone THEN conn ELSE With(conn, Flushed(Out(conn), down))
       IN  \/ /\ Gone
              /\ conn' = Closed(conn) /\ UNCHANGED <<down, up>>
           \/ /\ ~(Gone /\ (up = <<>> \/ conn.inflight # <<>>))
              /\ IF Len(conn.buffer) + k > BufferUnits
                 THEN Refuse /\ UNCHANGED up
                 ELSE /\ conn' = [flushed EXCEPT !.pc = "top",
                                     !.buffer = @ \o SubSeq(up, 1, k)]
                      /\ up' = SubSeq(up, k + 1, Len(up))
                      /\ down' = IF Gone THEN down ELSE Carried(Out(conn), down)
    /\ UNCHANGED <<published, accepting, requests, acks, front, shown, taken, lost>>

(* The engine: a poll, a cron or an EggPool result changes the document.  What   *)
(* it publishes after the connection ended is nobody's here.                 *)
Publish ==
    /\ published < MaxGeneration /\ conn.pc # "closed"
    /\ published' = published + 1
    /\ UNCHANGED <<accepting, conn, down, up, requests, acks, front, shown, taken,
                   lost>>

(* handle_request: the ack is offered without waiting, then the document that   *)
(* shows the outcome is published, if it shows.                              *)
HandleRequest ==
    /\ requests # <<>>
    /\ requests' = Tail(requests)
    /\ taken' = Append(taken, Head(requests))
    /\ acks' = IF Serving /\ Len(acks) < AckCapacity
               THEN Append(acks, Ack(Head(requests)[2])) ELSE acks
    /\ published' \in {published} \cup ({published + 1} \cap 1 .. MaxGeneration)
    /\ UNCHANGED <<accepting, conn, down, up, front, shown, lost>>

(* The daemon stops: every task and every connection is dropped.             *)
Stop ==
    /\ conn.pc # "closed" /\ front.pc # "absent"
    /\ accepting' = FALSE
    /\ conn' = Closed(conn)
    /\ requests' = <<>> /\ acks' = <<>>
    /\ UNCHANGED <<published, down, up, front, shown, taken, lost>>

-----------------------------------------------------------------------------
(* The frontend.                                                             *)

EndsAs(how) == [front EXCEPT !.pc = how, !.buffer = <<>>, !.inflight = <<>>,
                             !.queued = None, !.channel = <<>>]

(* attach: connect, and write the handshake.                                 *)
Dial ==
    /\ front.pc = "absent"
    /\ \E h \in Handshakes :
          LET out == Placed(Idle, Handshake(h))
          IN  /\ front' = With([front EXCEPT !.pc = "waiting"], Flushed(out, up))
              /\ up' = Carried(out, up)
    /\ conn' = Fresh("backlog")
    /\ UNCHANGED <<published, accepting, down, requests, acks, shown, taken, lost>>

(* FrontendSender: try_send into the channel of the reader.                  *)
Ask ==
    /\ front.pc = "attached" /\ front.asked < MaxRequests
    /\ Len(front.channel) < ChannelCapacity
    /\ front' = [front EXCEPT !.asked = @ + 1,
                              !.channel = Append(@, Request(front.asked + 1))]
    /\ UNCHANGED <<published, accepting, conn, down, up, requests, acks, shown,
                   taken, lost>>

(* FrameStream::next writes the pending requests first.                      *)
WriteRequest ==
    /\ ~Gone /\ front.channel # <<>>
    /\ LET rest == [front EXCEPT !.channel = Tail(@)]
           out == Placed(Out(front), Head(front.channel))
       IN  IF conn.pc = "closed"
           THEN /\ front' = EndsAs("failed")
                /\ UNCHANGED <<up, lost>>
           ELSE /\ front' = With(rest, Flushed(out, up))
                /\ up' = Carried(out, up)
                /\ lost' = lost \cup Replaced(Out(front), Head(front.channel))
    /\ UNCHANGED <<published, accepting, conn, down, requests, acks, shown, taken>>

(* A complete frame is handed to the caller: attach wants the Hello first, the    *)
(* event loop applies documents that are newer, ignores acks and leaves on a      *)
(* refusal (classify).                                                       *)
TakeFrame ==
    /\ ~Gone /\ front.channel = <<>>
    /\ LET frame == FrameOf(front.buffer)
           rest == [front EXCEPT !.buffer = Rest(front.buffer)]
       IN  /\ frame # None
           /\ front' =
                IF frame = Refusal THEN EndsAs("refused")
                ELSE IF frame = Garbled THEN EndsAs("failed")
                ELSE IF front.pc = "attached" THEN rest
                ELSE IF frame = Hello THEN [rest EXCEPT !.pc = "attached"]
                ELSE EndsAs("confused")
           /\ shown' = IF frame[1] = "document" THEN Max({shown, frame[2]}) ELSE shown
    /\ UNCHANGED <<published, accepting, conn, down, up, requests, acks, taken, lost>>

(* Otherwise it reads; end of file once the daemon closed its end.           *)
ReadSocket ==
    /\ ~Gone /\ front.channel = <<>> /\ FrameOf(front.buffer) = None
    /\ LET k == Min({ReadUnits, Len(down)})
       IN  \/ /\ down # <<>>
              /\ down' = SubSeq(down, k + 1, Len(down))
              /\ front' = IF Len(front.buffer) + k > BufferUnits THEN EndsAs("failed")
                          ELSE [front EXCEPT !.buffer = @ \o SubSeq(down, 1, k)]
           \/ /\ down = <<>> /\ conn.pc = "closed"
              /\ front' = EndsAs("disconnected")
              /\ UNCHANGED down
    /\ UNCHANGED <<published, accepting, conn, up, requests, acks, shown, taken, lost>>

(* The operator quits, or attach gives up on its first frame.                *)
Leave ==
    /\ ~Gone
    /\ front' = EndsAs("left")
    /\ down' = <<>>
    /\ UNCHANGED <<published, accepting, conn, up, requests, acks, shown, taken, lost>>

-----------------------------------------------------------------------------
Init ==
    /\ published = 1 /\ accepting = TRUE /\ conn = Fresh("none")
    /\ down = <<>> /\ up = <<>> /\ requests = <<>> /\ acks = <<>>
    /\ front = [pc |-> "absent", buffer |-> <<>>, inflight |-> <<>>, queued |-> None,
                channel |-> <<>>, asked |-> 0]
    /\ shown = 0 /\ taken = <<>> /\ lost = {}

ServeTask == ReadRequest \/ ServeChanged \/ ServeAck \/ ServeTick
Reader == WriteRequest \/ TakeFrame \/ ReadSocket

Next ==
    \/ Accept \/ AcceptFails \/ ServeTask \/ Publish \/ HandleRequest \/ Stop
    \/ Dial \/ Ask \/ Reader \/ Leave

Spec == Init /\ [][Next]_vars

(* The tasks of both runtimes run.  select! chooses at random, so a             *)
(* notification or an ack that stays ready is taken, which ends its being ready; *)
(* publications and acks are rarer than the timer, so they do not starve it.    *)
Fairness ==
    /\ WF_vars(Accept) /\ WF_vars(HandleRequest) /\ WF_vars(Reader)
    /\ WF_vars(ServeTask)
    /\ []<>~(Serving /\ conn.seen < published)
    /\ []<>~(Serving /\ acks # <<>>)
FairSpec == Spec /\ Fairness

-----------------------------------------------------------------------------
(* Properties.                                                               *)

(* The units on their way in one direction, oldest first.                    *)
Downward == front.buffer \o down \o conn.inflight \o Held(Out(conn))
Upward == conn.buffer \o up \o front.inflight \o Held(Out(front))

(* Every unit of a stream follows the one before it in its frame or begins a    *)
(* frame after a complete one; what is missing is only ever at the end.      *)
Framed(stream) ==
    \A i \in DOMAIN stream :
        \/ stream[i][2] = 1 /\ (i > 1 => stream[i-1][2] = Size(stream[i-1][1]))
        \/ i > 1 /\ stream[i] = <<stream[i-1][1], stream[i-1][2] + 1>>

(* Wherever a slow peer cuts a frame, and whatever is then published,          *)
(* acknowledged or asked, no reader is ever handed the middle of a frame as     *)
(* its start: the tail in flight is never dropped (write_encoded,              *)
(* flush_outbound, try_read_frame).  The frontend never meets the ceiling of    *)
(* push_bytes, since it reads on only while its frame is short.               *)
FramesWhole ==
    /\ Serving /\ ~Gone => Framed(Downward) /\ Framed(Upward)
    /\ Garbled \notin {FrameOf(conn.buffer), FrameOf(front.buffer)}
    /\ FrameOf(front.buffer) = None => Len(front.buffer) + ReadUnits <= BufferUnits

FramesIn(stream) ==
    LET starts == SelectSeq(stream, LAMBDA u : u[2] = 1)
    IN  [i \in DOMAIN starts |-> starts[i][1]]
Generations(stream) ==
    LET docs == SelectSeq(FramesIn(stream), LAMBDA f : f[1] = "document")
    IN  [i \in DOMAIN docs |-> docs[i][2]]
Numbers(stream) == [i \in DOMAIN stream |-> stream[i][2]]

(* A healthy daemon never looks like one that refuses: nothing overtakes its   *)
(* Hello, and the documents behind it never go back in time (serve_inner's     *)
(* handshake_done, attach).                                                  *)
HelloFirst ==
    /\ front.pc # "confused"
    /\ LET seen == <<shown>> \o Generations(Downward)
       IN  \A i \in 1 .. Len(seen) - 1 : seen[i] <= seen[i+1]

(* A frontend attached at any point misses no publication for good: unless an   *)
(* ack took the slot of a queued document, the newest one was shown, is on its   *)
(* way, or its notification is still unread (subscribe, borrow and             *)
(* borrow_and_update around the handshake).                                   *)
NewestOnItsWay ==
    Serving /\ ~Gone /\ conn.done /\ conn.seen = published =>
        \/ published = Max({0, shown} \cup ToSet(Generations(Downward)))
        \/ Document(published) \in lost

(* The engine takes the requests of a frontend in their order, each at most     *)
(* once (FrameStream::next, try_read_request, the request channel).            *)
RequestsInOrder ==
    LET sent == SelectSeq(FramesIn(Upward), LAMBDA f : f[1] = "request")
        line == Numbers(taken \o requests \o sent \o front.channel)
    IN  \A i \in 1 .. Len(line) - 1 : line[i] < line[i+1]

(* The connection is sound in both directions: whole frames, the Hello first,   *)
(* no document missed or out of order, no request twice (Connection and both    *)
(* loops around it).                                                         *)
TransportSound ==
    TypeOK /\ FramesWhole /\ HelloFirst /\ NewestOnItsWay /\ RequestsInOrder

Attached == front.pc = "attached"

(* An attached frontend is shown the newest document, however slowly it reads,   *)
(* unless an ack took that document's slot (flush_outbound on every tick).     *)
NewestArrives ==
    Attached /\ shown < published ~>
        shown = published \/ Gone \/ Document(published) \in lost

(* A request the frontend accepted reaches the engine, or was replaced by a      *)
(* newer one, or waits in the frontend's outbound half, which nothing but the   *)
(* next request flushes (FrameStream::next).                                  *)
RequestsTravel ==
    \A n \in 1 .. MaxRequests :
        Attached /\ front.asked >= n ~>
            \/ Request(n) \in ToSet(taken) \cup lost \/ Gone
            \/ \E u \in ToSet(front.inflight \o Held(Out(front))) : u[1] = Request(n)

(* A dialled connection is answered, unless the accept loop has ended            *)
(* (accept_loop, serve_inner, attach).                                       *)
DialAnswered == front.pc = "waiting" ~> front.pc # "waiting" \/ ~accepting

(* Both directions keep moving.                                              *)
TransportProgress == NewestArrives /\ RequestsTravel /\ DialAnswered

(* "A frontend that cannot keep up skips to the newest one" (the queued field of  *)
(* Connection): without the exception of NewestArrives.                       *)
SlowFrontendCatchesUp == Attached /\ shown < published ~> shown = published \/ Gone

(* A frame a full peer buffer holds up is "pushed on the caller's next          *)
(* flush_outbound, which both serve loops call on every tick" (write_frame):    *)
(* without the exception of RequestsTravel.                                   *)
HeldRequestsLeave ==
    \A n \in 1 .. MaxRequests :
        Attached /\ front.asked >= n ~> Request(n) \in ToSet(taken) \cup lost \/ Gone
=============================================================================
