---------------------------- MODULE PacketEngine ----------------------------
(***************************************************************************)
(* The packet engine: PacketEngine.Run takes one packet after the other    *)
(* from the WinDivert driver, cuts a TLS or HTTP request into pieces,      *)
(* sends fake ClientHellos before the first transmission of a real one,    *)
(* redirects DNS queries or asks a DNS over HTTPS server in their place,   *)
(* and sends a packet as it was when its handling fails.  Cancellation     *)
(* closes the driver's handle on a thread of its own, at any moment.       *)
(*                                                                         *)
(* Only the loop's thread touches the flow tracker and the pending         *)
(* queries, so what is decided about a packet is one action; each packet   *)
(* sent is another, since the handle may be closed between two of them.    *)
(*                                                                         *)
(* The driver, the ends of the connections and the DNS servers are         *)
(* external.  A ClientHello, with its retransmissions, is known by its     *)
(* flow and sequence number; a retransmission may be a shorter segment.    *)
(***************************************************************************)
EXTENDS TcpSplit, Sequences, FiniteSets

CONSTANTS
    SeqSpace,       \* the number of sequence numbers, 2^32 in the code
    Flows,          \* TCP connections
    WebFlows,       \* those of them to port 80
    Starts,         \* the sequence numbers at which a flow's requests begin
    Lengths,        \* the lengths of payloads
    Names,          \* the servers' names, as they lie in a payload
    Keys,           \* what a DNS query is known by: [port, id]
    Servers,        \* the DNS servers the system asks
    Target,         \* the server queries are redirected to
    None,           \* no server, no packet, no name
    Options,        \* the options an engine may be started with
    MaxPackets,     \* bound: packets captured
    MaxFailures     \* bound: calls of the driver that fail although it is open

ASSUME SplitAssumption ==
    /\ SeqSpace \in Nat \ {0}
    /\ Lengths \subseteq Nat \ {0}
    /\ \A o \in Options : /\ o.splits \subseteq Nat /\ o.fakeRepeats \in Nat
                           /\ o.marker \in {"None", "SniStart", "SniMiddle"}
    /\ \A n \in Names : n.at \in Nat /\ n.length \in Nat \ {0} /\ n.dots \subseteq 0 .. n.length - 1
ASSUME FlowsAssumption ==
    /\ WebFlows \subseteq Flows
    /\ Starts \in [Flows -> Seq(0 .. SeqSpace - 1)]
    /\ \A f \in Flows : \A i, j \in 1 .. Len(Starts[f]) : Starts[f][i] = Starts[f][j] => i = j
ASSUME NullAssumption == None \notin Names /\ None \notin Servers /\ Target \notin Servers \cup {None}
ASSUME EngineBoundsAssumption == MaxPackets \in Nat /\ MaxFailures \in Nat

VARIABLES
    options,        \* _options, fixed when the engine is made
    pc,             \* where the loop's thread is
    outcome,        \* how Run ended: "running", "returned" or "threw"
    field,          \* _handle: "open" or "zero"
    driver,         \* the handle itself: "none", "open", "shut" or "closed"
    stop,           \* the cancelling thread: "none", "asked", "exchanged", "shut" or "done"
    captured,       \* the packet being handled, or the last one
    fakes,          \* the fakes left to send for it
    left,           \* what else is left to send for it
    flows,          \* _flows: the sequence number last seen on a flow
    requests,       \* _requests: the server a query was sent to
    \* the driver's and the network's part
    request,        \* the number of a flow's current request, 0 before the first
    packets,        \* packets captured so far
    failures,       \* failures so far
    wired,          \* the queries on the wire, <<key, server>>
    \* what has been observed
    wire,           \* what was sent for the captured packet, fakes aside, oldest first
    failed,         \* did a send fail for it?
    asked,          \* the queries made, <<key, server>>
    faked,          \* fakes sent for a flow's current request since its first transmission
    closes          \* calls of WinDivertClose

engine == <<options, pc, outcome, field, driver, stop, captured, fakes, left, flows, requests>>
world == <<request, packets, failures, wired>>
observed == <<wire, failed, asked, faked, closes>>
vars == <<engine, world, observed>>

-----------------------------------------------------------------------------
(* Packets and what is sent for them.                                      *)

SeqNums == 0 .. SeqSpace - 1
NoSeq == -1

(* TCP segments: tls is a ClientHello, http a request with a Host header.  *)
Segments ==
    [proto : {"tcp"}, app : {"tls", "http", "other"}, flow : Flows, seq : SeqNums,
     length : Lengths, name : Names \cup {None}]

(* Queries, answers, QUIC and what TryParse refuses.  A payload is tiny if *)
(* it holds no identifier and short if it is less than a DNS header.       *)
Datagrams ==
    [proto : {"udp"}, role : {"query", "answer"}, key : Keys,
     server : Servers \cup {Target}, size : {"tiny", "short", "full"}]
    \cup [proto : {"udp"}, role : {"quic"}]
    \cup [proto : {"raw"}]

ASSUME PacketsAssumption == None \notin Segments \cup Datagrams

IsSegment(packet) == packet # None /\ packet.proto = "tcp"
IsQuery(packet) == packet # None /\ packet.proto = "udp" /\ packet.role = "query"
IsAnswer(packet) == packet # None /\ packet.proto = "udp" /\ packet.role = "answer"
IsQuic(packet) == packet # None /\ packet.proto = "udp" /\ packet.role = "quic"

(* A piece of a segment, with FIN and PSH only on the last.                *)
Fragment(packet, piece) ==
    [what |-> "data", lo |-> piece.lo, hi |-> piece.hi, seq |-> (packet.seq + piece.lo) % SeqSpace,
     ending |-> piece.hi = packet.length]

Data == [what : {"data"}, lo : Nat, hi : Nat, seq : SeqNums, ending : BOOLEAN]
Messages ==
    [what : {"query", "answer"}, key : Keys, server : Servers \cup {Target}] \cup [what : {"other"}]

Query(key, server) == [what |-> "query", key |-> key, server |-> server]
Answer(key, server) == [what |-> "answer", key |-> key, server |-> server]

(* The packet as it was received.                                          *)
Original(packet) ==
    IF packet.proto = "tcp" THEN Fragment(packet, [lo |-> 0, hi |-> packet.length])
    ELSE IF IsQuery(packet) THEN Query(packet.key, packet.server)
    ELSE IF IsAnswer(packet) THEN Answer(packet.key, packet.server)
    ELSE [what |-> "other"]

-----------------------------------------------------------------------------
(* The decisions of ProcessAndSend about a segment.                        *)

MatchesSuffix(name, suffixes) == name \in suffixes

MarkerPositions(packet) ==
    IF packet.app # "tls" \/ packet.name = None THEN {}
    ELSE CASE options.marker = "None" -> {}
           [] options.marker = "SniStart" -> {packet.name.at}
           [] options.marker = "SniMiddle" -> {Middle(packet.name)}

SplitTcpPacket(packet) ==
    {Fragment(packet, piece) : piece \in Pieces(options.splits \cup MarkerPositions(packet), packet.length)}

(* Does the engine act on the segment, or pass it as it is?                *)
Shaped(packet) ==
    /\ packet.app \in {"tls", "http"}
    /\ options.hosts = {} \/ MatchesSuffix(packet.name, options.hosts)
    /\ packet.length <= options.maxPayload

Fakeable(packet) ==
    /\ packet.app = "tls" /\ options.fakeRepeats > 0
    /\ options.fakeHosts = {} \/ MatchesSuffix(packet.name, options.fakeHosts)

(* An entry older than EntryLifetime is as good as none: Lapse.            *)
ShouldSendFake(packet) == flows[packet.flow] # packet.seq

(* Fault: one entry for all flows.                                         *)
NotedAlone(packet) == [f \in Flows |-> IF f = packet.flow THEN packet.seq ELSE NoSeq]

Noted(packet) == [flows EXCEPT ![packet.flow] = packet.seq]

-----------------------------------------------------------------------------
(* The cancelling thread: CancellationTokenSource.Cancel and StopReceiving. *)

cancelled == stop # "none"

Cancel ==
    /\ stop = "none"
    /\ pc # "ended"
    /\ stop' = "asked"
    /\ UNCHANGED <<options, pc, outcome, field, driver, captured, fakes, left, flows, requests, world, observed>>

(* The callback is registered from the opening of the handle until the     *)
(* loop's thread takes it back in Leave.                                   *)
StopExchange ==
    /\ stop = "asked"
    /\ pc \notin {"start", "disposing", "ended"}
    /\ field' = "zero"
    /\ stop' = IF field = "open" THEN "exchanged" ELSE "done"
    /\ UNCHANGED <<options, pc, outcome, driver, captured, fakes, left, flows, requests, world, observed>>

(* Fault: the shutdown is left to the loop's thread.                       *)
StopShutdownNever ==
    /\ stop = "exchanged"
    /\ stop' = "done"
    /\ UNCHANGED <<options, pc, outcome, field, driver, captured, fakes, left, flows, requests, world, observed>>

StopShutdown ==
    /\ stop = "exchanged"
    /\ driver' = "shut"
    /\ stop' = "shut"
    /\ UNCHANGED <<options, pc, outcome, field, captured, fakes, left, flows, requests, world, observed>>

StopClose ==
    /\ stop = "shut"
    /\ driver' = "closed"
    /\ closes' = closes + 1
    /\ stop' = "done"
    /\ UNCHANGED <<options, pc, outcome, field, captured, fakes, left, flows, requests, world, wire, failed, asked, faked>>

-----------------------------------------------------------------------------
(* The loop's thread, outside of a packet's handling.                      *)

(* The handle is opened and the callback registered: with the cancellation *)
(* already asked for it runs at once, before anything else uses the handle. *)
RunOpen ==
    /\ pc = "start"
    /\ \/ /\ field' = IF cancelled THEN "zero" ELSE "open"
          /\ driver' = IF cancelled THEN "closed" ELSE "open"
          /\ closes' = IF cancelled THEN closes + 1 ELSE closes
          /\ stop' = IF cancelled THEN "done" ELSE stop
          /\ pc' = "loop"
          /\ UNCHANGED <<outcome, failures>>
       \/ /\ failures < MaxFailures
          /\ failures' = failures + 1
          /\ outcome' = "threw"
          /\ pc' = "disposing"
          /\ UNCHANGED <<field, driver, closes, stop>>
    /\ UNCHANGED <<options, captured, fakes, left, flows, requests, request, packets, wired,
                   wire, failed, asked, faked>>

RunLoop ==
    /\ pc = "loop"
    /\ IF cancelled THEN pc' = "leaving" /\ outcome' = "returned"
       ELSE pc' = "receiving" /\ UNCHANGED outcome
    /\ UNCHANGED <<options, field, driver, stop, captured, fakes, left, flows, requests, world, observed>>

(* WinDivertRecv waits for a packet, and after a shutdown still hands out   *)
(* what was queued.                                                        *)
Receives(packet) ==
    /\ pc = "receiving"
    /\ driver \in {"open", "shut"}
    /\ packets < MaxPackets
    /\ captured' = packet
    /\ packets' = packets + 1
    /\ wire' = <<>>
    /\ failed' = FALSE
    /\ pc' = "process"
    /\ UNCHANGED <<options, outcome, field, driver, stop, fakes, left, flows, requests, failures, wired, closes>>

ReceiveFails ==
    /\ pc = "receiving"
    /\ IF driver = "open" THEN failures < MaxFailures /\ failures' = failures + 1
       ELSE UNCHANGED failures
    /\ outcome' = IF cancelled THEN "returned" ELSE "threw"
    /\ pc' = "leaving"
    /\ UNCHANGED <<options, field, driver, stop, captured, fakes, left, flows, requests, request, packets, wired, observed>>

(* The registration is disposed of: a callback that has not begun will not, *)
(* one that has is waited for.                                             *)
Leave ==
    /\ pc = "leaving"
    /\ stop \notin {"exchanged", "shut"}
    /\ stop' = IF stop = "asked" THEN "done" ELSE stop
    /\ pc' = "disposing"
    /\ UNCHANGED <<options, outcome, field, driver, captured, fakes, left, flows, requests, world, observed>>

Dispose ==
    /\ pc = "disposing"
    /\ IF field = "open" THEN driver' = "closed" /\ closes' = closes + 1
       ELSE UNCHANGED <<driver, closes>>
    /\ field' = "zero"
    /\ pc' = "ended"
    /\ UNCHANGED <<options, outcome, stop, captured, fakes, left, flows, requests, world, wire, failed, asked, faked>>
-----------------------------------------------------------------------------
(* What the driver hands out: BuildFilter, of what the clients, the        *)
(* servers and the network make.                                           *)

(* The loop takes a request of a flow: the current one again, perhaps in   *)
(* another length, or the next.                                            *)
ReceiveSegment ==
    \E f \in Flows, length \in Lengths, name \in Names \cup {None}, app \in {"tls", "http", "other"} :
        \E r \in {request[f], request[f] + 1} \cap (1 .. Len(Starts[f])) :
            /\ app # (IF f \in WebFlows THEN "tls" ELSE "http")
            /\ app = "other" => name = None
            /\ name # None => name.at + name.length <= length
            /\ Receives([proto |-> "tcp", app |-> app, flow |-> f, seq |-> Starts[f][r],
                         length |-> length, name |-> name])
            /\ request' = [request EXCEPT ![f] = r]
            /\ faked' = IF r = request[f] THEN faked ELSE [faked EXCEPT ![f] = 0]
            /\ UNCHANGED asked

ReceiveQuery ==
    \E key \in Keys, server \in Servers, size \in {"tiny", "short", "full"} :
        /\ options.dns # "off"
        /\ Receives([proto |-> "udp", role |-> "query", key |-> key, server |-> server, size |-> size])
        /\ asked' = asked \cup {<<key, server>>}
        /\ UNCHANGED <<request, faked>>

(* An answer comes from the redirection's port, which may be the usual one; *)
(* it may come twice.                                                      *)
ReceiveAnswer ==
    \E query \in wired :
        /\ options.dns = "redirect"
        /\ query[2] = Target \/ options.usualPort
        /\ Receives([proto |-> "udp", role |-> "answer", key |-> query[1], server |-> query[2], size |-> "full"])
        /\ UNCHANGED <<request, asked, faked>>

ReceiveOther ==
    /\ \/ options.blockQuic /\ Receives([proto |-> "udp", role |-> "quic"])
       \/ Receives([proto |-> "raw"])
    /\ UNCHANGED <<request, asked, faked>>

(* An entry of the tracker gets older than EntryLifetime: what follows is  *)
(* a first transmission again.                                             *)
Lapse ==
    \E f \in Flows :
        /\ flows[f] # NoSeq
        /\ pc # "sending"
        /\ flows' = [flows EXCEPT ![f] = NoSeq]
        /\ faked' = [faked EXCEPT ![f] = 0]
        /\ UNCHANGED <<options, pc, outcome, field, driver, stop, captured, fakes, left, requests, world,
                       wire, failed, asked, closes>>

-----------------------------------------------------------------------------
(* ProcessAndSend, up to the first packet sent.                            *)

Sends(items, count) ==
    /\ left' = items
    /\ fakes' = count
    /\ pc' = "sending"
    /\ UNCHANGED <<options, outcome, field, driver, stop, captured, world, observed>>

(* CleanupOccasionally: one operation in many drops the queries that have  *)
(* expired.                                                                *)
Remaining == {[k \in Keys |-> IF k \in expired THEN None ELSE requests[k]] : expired \in SUBSET Keys}

PassSegment ==
    /\ pc = "process"
    /\ IsSegment(captured) /\ ~Shaped(captured)
    /\ Sends({Original(captured)}, 0)
    /\ UNCHANGED <<flows, requests>>

(* Fault: a retransmission is not cut.                                     *)
SplitSegmentOnce ==
    /\ pc = "process"
    /\ IsSegment(captured) /\ Shaped(captured)
    /\ IF Fakeable(captured) /\ ShouldSendFake(captured)
       THEN Sends(SplitTcpPacket(captured), options.fakeRepeats) /\ flows' = Noted(captured)
       ELSE Sends({Original(captured)}, 0) /\ UNCHANGED flows
    /\ UNCHANGED requests

SplitSegment ==
    /\ pc = "process"
    /\ IsSegment(captured) /\ Shaped(captured)
    /\ IF Fakeable(captured) /\ ShouldSendFake(captured)
       THEN Sends(SplitTcpPacket(captured), options.fakeRepeats) /\ flows' = Noted(captured)
       ELSE Sends(SplitTcpPacket(captured), 0) /\ UNCHANGED flows
    /\ UNCHANGED requests

RedirectQuery ==
    /\ pc = "process"
    /\ IsQuery(captured) /\ options.dns = "redirect" /\ captured.size # "tiny"
    /\ \E rest \in Remaining : requests' = [rest EXCEPT ![captured.key] = captured.server]
    /\ Sends({Query(captured.key, Target)}, 0)
    /\ UNCHANGED flows

(* Fault: a pending query is known by its identifier alone.                *)
RestoreAnswerById ==
    /\ pc = "process"
    /\ IsAnswer(captured)
    /\ \E rest \in Remaining, key \in Keys :
          /\ key.id = captured.key.id
          /\ rest[key] # None
          /\ Sends({Answer(captured.key, rest[key])}, 0)
          /\ requests' = [rest EXCEPT ![key] = None]
    /\ UNCHANGED flows

(* An answer to a pending query is given the address that was asked.       *)
RestoreAnswer ==
    /\ pc = "process"
    /\ IsAnswer(captured)
    /\ \E rest \in Remaining :
          /\ rest[captured.key] # None
          /\ Sends({Answer(captured.key, rest[captured.key])}, 0)
          /\ requests' = [rest EXCEPT ![captured.key] = None]
    /\ UNCHANGED flows

PassAnswer ==
    /\ pc = "process"
    /\ IsAnswer(captured)
    /\ \E rest \in Remaining :
          /\ rest[captured.key] = None
          /\ requests' = rest
    /\ Sends({Original(captured)}, 0)
    /\ UNCHANGED flows

PassOther ==
    /\ pc = "process"
    /\ \/ captured # None /\ captured.proto = "raw"
       \/ IsQuery(captured) /\ options.dns = "redirect" /\ captured.size = "tiny"
    /\ Sends({Original(captured)}, 0)
    /\ UNCHANGED <<flows, requests>>

DropQuic ==
    /\ pc = "process"
    /\ IsQuic(captured) /\ options.blockQuic
    /\ pc' = "loop"
    /\ UNCHANGED <<options, outcome, field, driver, stop, captured, fakes, left, flows, requests, world, observed>>
(* The loop waits for the DNS over HTTPS server, at most as long as the    *)
(* client's timeout.                                                       *)
StartResolve ==
    /\ pc = "process"
    /\ IsQuery(captured) /\ options.dns = "doh"
    /\ pc' = "resolving"
    /\ UNCHANGED <<options, outcome, field, driver, stop, captured, fakes, left, flows, requests, world, observed>>

(* The server's answer, or a server failure made of the query, goes to the *)
(* client as from the server it asked.                                     *)
Resolve ==
    /\ pc = "resolving"
    /\ captured.size = "full"
    /\ Sends({Answer(captured.key, captured.server)}, 0)
    /\ UNCHANGED <<flows, requests>>

(* Neither can be made of less than a DNS header: the exception is Run's.  *)
ResolveFails ==
    /\ pc = "resolving"
    /\ captured.size # "full"
    /\ failed' = TRUE
    /\ pc' = "failopen"
    /\ UNCHANGED <<options, outcome, field, driver, stop, captured, fakes, left, flows, requests, world,
                   wire, asked, faked, closes>>

-----------------------------------------------------------------------------
(* Sending.                                                                *)

(* An item goes out; a query that does may be answered.                    *)
Transmits(item) ==
    /\ field = "open"
    /\ wire' = Append(wire, item)
    /\ wired' = IF item.what = "query" THEN wired \cup {<<item.key, item.server>>} ELSE wired

(* A send fails: the handle is gone, or the driver refuses.                *)
SendRefused ==
    IF field = "open" THEN failures < MaxFailures /\ failures' = failures + 1
    ELSE UNCHANGED failures

SendFake ==
    /\ pc = "sending"
    /\ fakes > 0
    /\ field = "open"
    /\ fakes' = fakes - 1
    /\ faked' = [faked EXCEPT ![captured.flow] = @ + 1]
    /\ UNCHANGED <<options, pc, outcome, field, driver, stop, captured, left, flows, requests, world,
                   wire, failed, asked, closes>>

(* The pieces go in their order, or in the reverse one.                    *)
IsNext(item) ==
    \A other \in left \ {item} : IF options.reverse THEN other.hi <= item.lo ELSE item.hi <= other.lo

SendNext ==
    /\ pc = "sending"
    /\ fakes = 0
    /\ \E item \in left :
          /\ IsNext(item)
          /\ Transmits(item)
          /\ left' = left \ {item}
    /\ pc' = IF left' = {} THEN "loop" ELSE "sending"
    /\ UNCHANGED <<options, outcome, field, driver, stop, captured, fakes, flows, requests,
                   request, packets, failures, failed, asked, faked, closes>>

SendFails ==
    /\ pc = "sending"
    /\ SendRefused
    /\ failed' = TRUE
    /\ fakes' = 0
    /\ left' = {}
    /\ pc' = "failopen"
    /\ UNCHANGED <<options, outcome, field, driver, stop, captured, flows, requests,
                   request, packets, wired, wire, asked, faked, closes>>

(* The packet goes as it was received.                                     *)
FailOpen ==
    /\ pc = "failopen"
    /\ Transmits(Original(captured))
    /\ pc' = "loop"
    /\ UNCHANGED <<options, outcome, field, driver, stop, captured, fakes, left, flows, requests,
                   request, packets, failures, failed, asked, faked, closes>>

(* If that fails too, the exception ends Run.                              *)
FailOpenFails ==
    /\ pc = "failopen"
    /\ SendRefused
    /\ outcome' = "threw"
    /\ pc' = "leaving"
    /\ UNCHANGED <<options, field, driver, stop, captured, fakes, left, flows, requests,
                   request, packets, wired, observed>>

-----------------------------------------------------------------------------
Init ==
    /\ options \in Options
    /\ pc = "start" /\ outcome = "running"
    /\ field = "zero" /\ driver = "none" /\ stop = "none"
    /\ captured = None /\ fakes = 0 /\ left = {}
    /\ flows = [f \in Flows |-> NoSeq]
    /\ requests = [k \in Keys |-> None]
    /\ request = [f \in Flows |-> 0]
    /\ packets = 0 /\ failures = 0 /\ wired = {}
    /\ wire = <<>> /\ failed = FALSE /\ asked = {}
    /\ faked = [f \in Flows |-> 0]
    /\ closes = 0

Receive == ReceiveSegment \/ ReceiveQuery \/ ReceiveAnswer \/ ReceiveOther

Process ==
    \/ PassSegment \/ SplitSegment
    \/ RedirectQuery \/ RestoreAnswer \/ PassAnswer \/ PassOther \/ DropQuic
    \/ StartResolve \/ Resolve \/ ResolveFails

Send == SendFake \/ SendNext \/ SendFails \/ FailOpen \/ FailOpenFails

Run == RunOpen \/ RunLoop \/ ReceiveFails \/ Leave \/ Dispose

StopReceiving == StopExchange \/ StopShutdown \/ StopClose

Next == Cancel \/ StopReceiving \/ Run \/ Receive \/ Process \/ Send \/ Lapse

Spec == Init /\ [][Next]_vars

(* Both threads go on.  Nothing makes a packet come or the caller cancel.  *)
FairSpec ==
    /\ Spec
    /\ WF_vars(StopReceiving)
    /\ WF_vars(Run)
    /\ WF_vars(Process)
    /\ WF_vars(Send)

-----------------------------------------------------------------------------
(* Properties.                                                             *)

(* Every variable has a value of its kind.                                 *)
TypeOK ==
    /\ options \in Options
    /\ pc \in {"start", "loop", "receiving", "process", "resolving", "sending", "failopen",
               "leaving", "disposing", "ended"}
    /\ outcome \in {"running", "returned", "threw"}
    /\ field \in {"open", "zero"}
    /\ driver \in {"none", "open", "shut", "closed"}
    /\ stop \in {"none", "asked", "exchanged", "shut", "done"}
    /\ captured \in Segments \cup Datagrams \cup {None}
    /\ fakes \in Nat
    /\ left \subseteq IF IsSegment(captured) THEN Data ELSE Messages
    /\ wire \in Seq(IF IsSegment(captured) THEN Data ELSE Messages)
    /\ flows \in [Flows -> SeqNums \cup {NoSeq}]
    /\ requests \in [Keys -> Servers \cup {None}]
    /\ request \in [Flows -> Nat]
    /\ packets \in Nat /\ failures \in Nat
    /\ wired \subseteq Keys \X (Servers \cup {Target})
    /\ asked \subseteq Keys \X Servers
    /\ failed \in BOOLEAN
    /\ faked \in [Flows -> Nat]
    /\ closes \in Nat

(* The captured packet is done with, and Run has not thrown.               *)
Handled == pc \in {"loop", "receiving"} \/ (pc \in {"leaving", "disposing", "ended"} /\ outcome = "returned")

Covers(item, byte) == item.lo <= byte /\ byte < item.hi

(* The receiver gets the captured segment's bytes: when the loop goes on   *)
(* to the next packet, or returns, each byte has been sent in its place in *)
(* the sequence space, whatever failed; each once if nothing did; and FIN  *)
(* and PSH only with the last byte.                                        *)
Delivered ==
    Handled /\ IsSegment(captured) =>
        /\ \A i \in 1 .. Len(wire) :
              /\ wire[i].seq = (captured.seq + wire[i].lo) % SeqSpace
              /\ wire[i].hi <= captured.length
              /\ wire[i].ending => wire[i].hi = captured.length
        /\ \A byte \in 0 .. captured.length - 1 :
              \E i \in 1 .. Len(wire) : Covers(wire[i], byte)
        /\ ~failed =>
              \A byte \in 0 .. captured.length - 1 : \A i, j \in 1 .. Len(wire) :
                  Covers(wire[i], byte) /\ Covers(wire[j], byte) => i = j

(* However often a ClientHello is transmitted, and whatever failed, no more *)
(* fakes are sent for it than one transmission asks for, as long as the    *)
(* tracker's entry lasts.                                                  *)
FakesOnce == \A f \in Flows : faked[f] <= options.fakeRepeats

WellFormed(name) == 0 \notin name.dots /\ \A d \in name.dots : d + 1 \notin name.dots /\ d + 1 < name.length

(* With the marker in the middle of the name, no transmission of a hello   *)
(* that the engine acts on shows the whole name in one piece, a            *)
(* retransmission no more than the first, unless a send fails.             *)
NameIsCut ==
    /\ IsSegment(captured)
    /\ captured.app = "tls" /\ captured.name # None
    /\ WellFormed(captured.name) /\ captured.name.length > 1
    /\ options.marker = "SniMiddle"
    /\ Shaped(captured) /\ ~failed
    => \A i \in 1 .. Len(wire) :
          ~ (wire[i].lo <= captured.name.at /\ captured.name.at + captured.name.length <= wire[i].hi)

(* An answer given the address of a server comes to a client that asked    *)
(* that server, with that identifier and from that port.                   *)
AnswersWereAsked ==
    IsAnswer(captured) \/ IsQuery(captured) =>
        \A i \in 1 .. Len(wire) :
            wire[i].what = "answer" /\ wire[i].server # Target => <<wire[i].key, wire[i].server>> \in asked

(* Whichever thread comes first, the handle is closed once, and it is when *)
(* the engine has ended.                                                   *)
ClosedOnce ==
    /\ closes = IF driver = "closed" THEN 1 ELSE 0
    /\ pc = "ended" => driver \in {"none", "closed"}

(* A cancelled engine ends, also one that waits for a packet.              *)
StopEnds == (stop # "none") ~> (pc = "ended")

-----------------------------------------------------------------------------
(* The inductive invariant.                                                *)

(* What is to be sent for a segment when nothing fails.                    *)
Planned(packet) == IF Shaped(packet) THEN SplitTcpPacket(packet) ELSE {Original(packet)}

(* What each place of the loop knows of the packet being handled.          *)
PacketInv ==
    /\ pc \in {"process", "resolving", "sending", "failopen"} => captured # None
    /\ pc \in {"process", "resolving"} => wire = <<>> /\ ~failed
    /\ pc = "resolving" => IsQuery(captured)
    /\ pc = "sending" => ~failed
    /\ pc = "failopen" => failed
    /\ pc # "sending" => left = {} /\ fakes = 0
    /\ pc = "start" => captured = None
    /\ pc \notin {"leaving", "disposing", "ended"} => outcome = "running"
    /\ captured = None => wire = <<>>
    /\ fakes > 0 => IsSegment(captured)
    /\ IsSegment(captured) /\ captured.name # None =>
          captured.name.at + captured.name.length <= captured.length

(* What has been sent for a segment, and what is left.                     *)
SentInv ==
    IsSegment(captured) =>
        /\ left \subseteq Planned(captured)
        /\ \A i \in 1 .. Len(wire) : wire[i] \in Planned(captured) \/ (failed /\ wire[i] = Original(captured))
        /\ ~failed /\ pc # "process" =>
              \A item \in Planned(captured) : item \in left \/ \E i \in 1 .. Len(wire) : wire[i] = item
        /\ ~failed =>
              /\ \A i \in 1 .. Len(wire) : wire[i] \notin left
              /\ \A i, j \in 1 .. Len(wire) : wire[i] = wire[j] => i = j
        /\ failed /\ pc # "failopen" /\ outcome # "threw" =>
              \E i \in 1 .. Len(wire) : wire[i] = Original(captured)

(* A flow has been faked only if the tracker knows its current request,    *)
(* which is the one being handled if it is the flow's.                     *)
FakeInv ==
    /\ \A f \in Flows :
          /\ faked[f] # 0 => request[f] \in 1 .. Len(Starts[f]) /\ flows[f] = Starts[f][request[f]]
          /\ faked[f] <= options.fakeRepeats
    /\ IsSegment(captured) =>
          /\ request[captured.flow] \in 1 .. Len(Starts[captured.flow])
          /\ captured.seq = Starts[captured.flow][request[captured.flow]]
          /\ fakes > 0 => flows[captured.flow] = captured.seq
          /\ faked[captured.flow] + fakes <= options.fakeRepeats

(* Who owns the handle.                                                    *)
HandleInv ==
    /\ closes = IF driver = "closed" THEN 1 ELSE 0
    /\ field = "open" => driver = "open" /\ stop \in {"none", "asked", "done"}
    /\ field = "zero" /\ driver = "open" => stop = "exchanged"
    /\ driver = "shut" => stop = "shut"
    /\ stop = "exchanged" => field = "zero" /\ driver = "open"
    /\ stop = "shut" => field = "zero" /\ driver = "shut"
    /\ stop \in {"exchanged", "shut"} => pc \notin {"start", "disposing", "ended"}
    /\ pc = "start" => driver = "none" /\ field = "zero"
    /\ driver = "none" => pc \in {"start", "disposing", "ended"}
    /\ pc = "ended" => field = "zero"

(* Queries pending and on the wire, and the messages made of them, bear    *)
(* the redirection's address or one that was asked.                        *)
WasAsked(key, server) == server = Target \/ <<key, server>> \in asked

AskedInv ==
    /\ \A k \in Keys : requests[k] # None => WasAsked(k, requests[k])
    /\ \A query \in wired : WasAsked(query[1], query[2])
    /\ IsQuery(captured) => <<captured.key, captured.server>> \in asked
    /\ IsAnswer(captured) => WasAsked(captured.key, captured.server)
    /\ ~IsSegment(captured) =>
          /\ \A item \in left : item.what \in {"query", "answer"} => WasAsked(item.key, item.server)
          /\ \A i \in 1 .. Len(wire) :
                wire[i].what \in {"query", "answer"} => WasAsked(wire[i].key, wire[i].server)

(* The whole: each property's reason, see PacketEngineProofs.              *)
IInv == TypeOK /\ PacketInv /\ SentInv /\ FakeInv /\ HandleInv /\ AskedInv
=============================================================================
