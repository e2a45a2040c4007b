----------------------------- MODULE QuicInitials -----------------------------
(***************************************************************************)
(* The two parts of what is done with a QUIC client's Initial: the         *)
(* handling of the datagram calls QUICDefragCrypto with the frames of all  *)
(* that have come, and what it answers decides on them.                    *)
(*                                                                         *)
(* QuicReassembly's guards are written with what QuicFrames defines:       *)
(* Parses, Top and Full.  AnswersTheCall says that the call's answers are  *)
(* these.                                                                  *)
(***************************************************************************)
EXTENDS QuicDefrag, QuicReassembly

VARIABLE call       \* the Initial whose frames are read: <<p>>, or <<>>

initialsVars == <<defragVars, quicVars, call>>

InitialsInit == QuicInit /\ frames = <<>> /\ Fresh /\ call = <<>>

(* Only an Initial that is looked into and does not overrun the buffer.    *)
Calls(p) == Examined(p) /\ Fits(p)

Call(p) ==
    /\ call = <<>> /\ Calls(p)
    /\ call' = <<p>>
    /\ Begin(Clean(p))
    /\ UNCHANGED quicVars

Run ==
    /\ call # <<>> /\ DefragNext
    /\ UNCHANGED <<quicVars, call>>

(* The call's variables are gone, and the handling goes on.                *)
Return ==
    /\ call # <<>> /\ phase \in {"done", "failed"}
    /\ Datagram(Head(call))
    /\ call' = <<>>
    /\ Begin(<<>>)

(* A datagram that is handled without the call.                            *)
Aside(p) ==
    /\ call = <<>> /\ ~Calls(p)
    /\ Datagram(p)
    /\ UNCHANGED <<defragVars, call>>

PurgeBetween == call = <<>> /\ Purge /\ UNCHANGED <<defragVars, call>>

InitialsNext ==
    \/ \E p \in Initials : Call(p)
    \/ Run \/ Return
    \/ \E p \in Datagrams : Aside(p)
    \/ PurgeBetween

InitialsSpec == InitialsInit /\ [][InitialsNext]_initialsVars

(* The client, as long as it has no answer, goes on sending Initials, and  *)
(* the handling of one comes to its end.                                   *)
InitialsFairSpec ==
    /\ InitialsSpec
    /\ WF_initialsVars(\E p \in Initials : Call(p) \/ Aside(p))
    /\ WF_initialsVars(Run \/ Return)

-----------------------------------------------------------------------------
(* QUICDefragCrypto is given the frames of all held datagrams and the one  *)
(* that came, and answers what QuicFrames defines of them: it fails        *)
(* exactly on what cannot be read, and calls the stream full exactly when  *)
(* no byte of it is missing, whatever the order of the pieces and of the   *)
(* sort; and it leaves no gap uninitialized.                               *)
AnswersTheCall == DefragInv /\ (call # <<>> => frames = Clean(Head(call)))
=============================================================================
