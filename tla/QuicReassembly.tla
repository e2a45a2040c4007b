---------------------------- MODULE QuicReassembly ----------------------------
(***************************************************************************)
(* The nfq2 packet filter's handling of a QUIC client's datagrams,         *)
(* dpi_desync_udp_packet_play: Initials are decrypted and held back until  *)
(* the CRYPTO frames of all of them make a whole TLS ClientHello; then the *)
(* datagrams are decided on one after another, each with the whole hello.  *)
(* Anything that is not a part of it ends the session and sends the held   *)
(* datagrams as they are.                                                  *)
(*                                                                         *)
(* One pair of addresses and ports is followed.  The filter is single      *)
(* threaded: the handling of a datagram is one action.  Every client's     *)
(* CRYPTO stream is the same; whether a datagram decrypts is given.        *)
(***************************************************************************)
EXTENDS QuicFrames, ProfileSearch, SequencesExt

CONSTANTS
    MaxReasm,       \* UDP_MAX_REASM: the decrypted bytes kept
    DelayedMax,     \* RAW_PACKET_QUEUE_DELAYED_MAX
    MinHello,       \* the bytes that tell a ClientHello, six
    Hellos,         \* the lengths a ClientHello may have, 0 when the stream is none
    Payloads        \* what decrypted Initials may hold, as frames and size

ASSUME QuicAssumption ==
    /\ MaxReasm \in Nat \ {0} /\ DelayedMax \in Nat \ {0}
    /\ MinHello \in Nat \ {0}
    /\ Hellos \subseteq {0} \cup {n \in Nat : n >= MinHello}
    /\ Payloads \subseteq [frames : Seq(Frames), size : 0 .. MaxReasm]

VARIABLES
    opt,            \* what --ctrack-disable and --reasm-disable leave on
    hello,          \* the length of the ClientHello in the stream
    way,            \* which end the entry takes for the client, "none" without entry
    found,          \* the profile search
    reasm,          \* reasm_client
    held,           \* delayed
    \* what has been observed
    came,           \* the datagram of the last step
    left            \* those that left in it, in order, and what was done with each

fixed == <<opt, hello>>
quicVars == <<fixed, way, found, reasm, held, came, left>>

(* Datagrams: an Initial of the client, one that does not decrypt, another *)
(* datagram of the client, and one of the server.                          *)
Initials == {[kind |-> "initial", frames |-> d.frames, size |-> d.size] : d \in Payloads}
Others == [kind : {"sealed", "other", "reply"}, frames : {<<>>}, size : {0}]
Datagrams == Initials \cup Others

Idle == [on |-> FALSE, data |-> <<>>, present |-> 0]

Options == [tracks : BOOLEAN, reassembles : BOOLEAN]

QuicTypeOK ==
    /\ opt \in Options /\ hello \in Hellos
    /\ way \in {"none", "forward", "backward"}
    /\ found \in Searches
    /\ reasm \in [on : BOOLEAN, data : Seq(Seq(Frames)), present : 0 .. MaxReasm]
    /\ held \in Seq(Initials)
    /\ came \in Seq(Datagrams)
    /\ left \in Seq([packet : Datagrams, how : {"flushed", "plain", "desync"}])

QuicInit ==
    /\ opt \in Options /\ hello \in Hellos
    /\ way = "none" /\ found = NotSearched
    /\ reasm = Idle /\ held = <<>>
    /\ came = <<>> /\ left = <<>>

-----------------------------------------------------------------------------
(* What is made of a datagram.                                             *)

(* The first datagram seen makes the entry, whichever end sent it.         *)
Way(p) == IF way # "none" THEN way ELSE IF p.kind = "reply" THEN "backward" ELSE "forward"

(* Only the client's Initials are looked into.                             *)
Examined(p) == p.kind = "initial" /\ Way(p) = "forward"

(* The decrypted payloads, with those assembled before, and their frames.  *)
Data(p) == Append(reasm.data, p.frames)
Clean(p) == FlattenSeq(Data(p))

Fits(p) == reasm.present + p.size <= MaxReasm

(* IsQUICCryptoHello and IsTLSHandshakeFull of a stream without gaps.      *)
IsHello(fs) == hello > 0 /\ Top(fs) >= MinHello
IsWhole(fs) == IsHello(fs) /\ Top(fs) >= hello

(* It is to be held back: a part of the stream is missing, or the hello's  *)
(* end, or others are held already.                                        *)
Holds(p) ==
    /\ Examined(p) /\ opt.reassembles /\ Fits(p) /\ Parses(Clean(p))
    /\ \/ ~Full(Clean(p))
       \/ reasm.on
       \/ IsHello(Clean(p)) /\ ~IsWhole(Clean(p))

(* Fault: the hello is complete when nothing is missing below its end. *)
CompletesEarly(p) == reasm.on /\ Full(Clean(p))

(* Fault: one byte more is waited for. *)
CompletesLate(p) == reasm.on /\ Full(Clean(p)) /\ IsHello(Clean(p)) /\ Top(Clean(p)) > hello

Completes(p) == reasm.on /\ Full(Clean(p)) /\ IsWhole(Clean(p))

Room == Len(held) < DelayedMax

(* The host name can be read: the stream has no gap and is a hello, whole  *)
(* or, when it is not reassembled, only the beginning of one.              *)
Named(p) ==
    Examined(p) /\ Parses(Clean(p)) /\ Full(Clean(p)) /\ IsHello(Clean(p)) /\ ~Holds(p) /\ ~reasm.on

(* reasm_client, once p is fed to it or starts it.                         *)
Fed(p) == [on |-> TRUE, data |-> Data(p), present |-> reasm.present + p.size]

(* The protocol is known from an Initial, or from what else is probed.     *)
Probed(f, p, known) ==
    IF p.kind \in {"initial", "sealed"} \/ known THEN [f EXCEPT !.l7 = TRUE] ELSE f

(* Fault: a cancelled session forgets to send what it held. *)
SentAwayNever == <<>>

(* Fault: what it has sent stays in the queue. *)
StillHeldAll == held

(* reasm_client_cancel: what it sends as it is, and what is held then.     *)
SentAway == held
StillHeld == <<>>

-----------------------------------------------------------------------------
Passing(packets, how) == [k \in 1 .. Len(packets) |-> [packet |-> packets[k], how |-> how]]

Comes(p) == came' = <<p>> /\ way' = Way(p) /\ UNCHANGED fixed

(* No entry is kept: the datagram goes on.                                 *)
Untracked(p) ==
    /\ ~opt.tracks
    /\ came' = <<p>>
    /\ \E how \in {"plain", "desync"} : left' = Passing(<<p>>, how)
    /\ UNCHANGED <<fixed, way, found, reasm, held>>

(* No profile: play_prolog returns.                                        *)
Unmatched(p) ==
    /\ opt.tracks /\ Comes(p)
    /\ \E dp \in Profiles :
          /\ Searched(found, dp).profile = "none"
          /\ found' = Searched(found, dp)
    /\ left' = Passing(<<p>>, "plain")
    /\ UNCHANGED <<reasm, held>>

Matched(dp) == Searched(found, dp).profile = "some"

(* Held back until more of the hello comes.                                *)
Delayed(p) ==
    /\ opt.tracks /\ Comes(p)
    /\ Holds(p) /\ Room /\ ~Completes(p)
    /\ \E dp \in Profiles :
          /\ Matched(dp)
          /\ found' = Probed(Searched(found, dp), p, FALSE)
    /\ reasm' = Fed(p)
    /\ held' = Append(held, p)
    /\ left' = <<>>

(* The hello is whole: replay_queue decides on every held datagram, and    *)
(* reasm_client_fin ends the session.                                      *)
Replays(p) ==
    /\ opt.tracks /\ Comes(p)
    /\ Holds(p) /\ Room /\ Completes(p)
    /\ LET packets == Append(held, p)
       IN  \E a \in Answers :
              LET after == Replayed(Probed(Searched(found, a.first), p, FALSE), a, Len(packets))
              IN  /\ Matched(a.first)
                  /\ found' = after[Len(packets)]
                  /\ left' = [k \in 1 .. Len(packets) |->
                                [packet |-> packets[k],
                                 how |-> IF Applies(after[k]) THEN "desync" ELSE "plain"]]
    /\ reasm' = Idle
    /\ held' = <<>>

(* It goes on: a whole hello, no part of one, too much, or no room in the  *)
(* queue.  What is held goes first, as it is.                              *)
Passes(p) ==
    /\ opt.tracks /\ Comes(p)
    /\ ~(Holds(p) /\ Room)
    /\ \E host, known \in BOOLEAN : \E o \in Outcomes(Probed(found, p, known), host) :
          /\ o.matched
          /\ host => Named(p)
          /\ known => p.kind \in {"other", "reply"}
          /\ found' = o.found
          /\ left' = Passing(SentAway, "flushed") \o
                        Passing(<<p>>, IF Applies(o.found) THEN "desync" ELSE "plain")
    /\ reasm' = Idle
    /\ held' = StillHeld

Datagram(p) == Untracked(p) \/ Unmatched(p) \/ Delayed(p) \/ Replays(p) \/ Passes(p)

(* ConntrackPoolPurge: the entry has been idle and goes, with what it      *)
(* holds, when some datagram of any connection comes.                      *)
Purge ==
    /\ way # "none"
    /\ way' = "none" /\ found' = NotSearched /\ reasm' = Idle /\ held' = <<>>
    /\ came' = <<>> /\ left' = <<>>
    /\ UNCHANGED fixed

QuicNext == (\E p \in Datagrams : Datagram(p)) \/ Purge

QuicSpec == QuicInit /\ [][QuicNext]_quicVars

-----------------------------------------------------------------------------
(* Safety *)

(* Datagrams are held exactly while a hello is assembled that is not yet   *)
(* whole, and what is assembled is their payloads in the order they came:  *)
(* none is stranded by a session that was cancelled or has finished, and   *)
(* none is missing when the strategies are given the hello.                *)
HeldMakeTheStream ==
    /\ reasm.on <=> held # <<>>
    /\ reasm.data = [k \in 1 .. Len(held) |-> held[k].frames]
    /\ Len(held) <= DelayedMax
    /\ held # <<>> =>
        /\ opt.tracks /\ opt.reassembles /\ way = "forward" /\ found.profile = "some"
        /\ Parses(FlattenSeq(reasm.data))
        /\ ~(Full(FlattenSeq(reasm.data)) /\ IsWhole(FlattenSeq(reasm.data)))

SessionInv == QuicTypeOK /\ HeldMakeTheStream

(* A datagram leaves in the order it came, once, and is lost only with an  *)
(* entry that is purged.                                                   *)
LeaveInOrder ==
    [][\/ [k \in DOMAIN left' |-> left'[k].packet] \o held' = held \o came'
       \/ way' = "none" /\ held' = <<>> /\ left' = <<>>]_quicVars

(* A held datagram is decided on, and not just sent as it is, only when    *)
(* the datagrams that leave with it carry every byte of the hello: those a *)
(* strategy splits or fakes the hello across.                              *)
WithWholeHello ==
    held # <<>> /\ left' # <<>> /\ left'[1].how # "flushed" =>
        0 .. hello - 1 \subseteq Covered(FlattenSeq([k \in DOMAIN left' |-> left'[k].packet.frames]))

(* The datagrams of one hello meet one decision, though the first reveals  *)
(* the host name and may change the profile under the others.              *)
Alike ==
    \A k, m \in DOMAIN left' :
        left'[k].how # "flushed" /\ left'[m].how # "flushed" => left'[k].how = left'[m].how

(* The decision on a hello is made once, for all of it.                    *)
DecidedTogether == [][WithWholeHello /\ Alike]_quicVars

-----------------------------------------------------------------------------
(* Liveness *)

(* A client that goes on sending Initials is not held back for ever: the   *)
(* hello is complete some time, or the buffer or the queue is full.        *)
HeldLeave == held # <<>> ~> held = <<>>
=============================================================================
