------------------------------- MODULE Stream -------------------------------
(***************************************************************************)
(* One stream between two peers (pkg/p2p/libp2p): NewStream at the end     *)
(* that opens it, the bracket that AddStreamHandlers puts around a handler *)
(* at the other, and the reads and writes of stream.go between them.       *)
(*                                                                         *)
(* A read or a write is a goroutine of its own that the caller stops       *)
(* waiting for once its context is done: a write that was reported as      *)
(* failed may have gone out.  Both ends frame the same stream twice, for   *)
(* headers and for messages, and a message does not say what it is.        *)
(***************************************************************************)
EXTENDS Naturals, Sequences

CONSTANTS Majors, Minors  \* parts of the protocol versions that the ends may have

ASSUME VersionsAssumption == Majors \cup Minors \subseteq Nat

Versions == Majors \X Minors

VARIABLES
  version,     \* what each end has
  protocol,    \* the preconfirmation protocol answers, discovery does not
  registered,  \* the peer registry of the handling end has the opening one
  opener,      \* where the opening end is
  handler,     \* where the handling end is
  up,          \* messages to the handler
  down,        \* messages to the opener
  closed,      \* ends that have closed the stream
  reset,       \* the stream was reset by an end or went with its connection
  broken,      \* it went with its connection
  done,        \* ends whose context is done
  verdict,     \* what the handler returned
  outcome,     \* what the opener got
  misread      \* something was read as what it is not

vars == <<version, protocol, registered, opener, handler, up, down, closed, reset,
          broken, done, verdict, outcome, misread>>

Ends == {"opener", "handler"}

\* A Header, or a StreamMsg with data or with an error.
StreamMsg == {"data", "error"}
Message == {"header"} \cup StreamMsg

\* The types of the state; whatever is read is read as what it was written as.
TypeOK ==
  /\ version \in [Ends -> Versions]
  /\ protocol \in {"preconfirmation", "discovery"}
  /\ registered \in BOOLEAN
  /\ opener \in {"new", "writeHeader", "readHeader", "write", "read", "ended"}
  /\ handler \in {"none", "getPeer", "readHeader", "writeHeader", "read", "work",
                  "writeError", "close", "ended"}
  /\ {up, down} \subseteq Seq(Message)
  /\ Len(up) <= 2 /\ Len(down) <= 3
  /\ closed \subseteq Ends
  /\ {reset, broken} \subseteq BOOLEAN
  /\ done \subseteq Ends
  /\ verdict \in {"none", "ok", "error"}
  /\ outcome \in {"none", "sent", "data", "error", "failed"}
  /\ ~misread

Init ==
  /\ version \in [Ends -> Versions]
  /\ protocol \in {"preconfirmation", "discovery"}
  /\ registered \in BOOLEAN
  /\ opener = "new"
  /\ handler = "none"
  /\ up = <<>>
  /\ down = <<>>
  /\ closed = {}
  /\ reset = FALSE
  /\ broken = FALSE
  /\ done = {}
  /\ verdict = "none"
  /\ outcome = "none"
  /\ misread = FALSE

\* What only BreakConn may change.
given == <<version, protocol, registered, broken>>

-----------------------------------------------------------------------------
(***************************************************************************)
(* What can go wrong around the stream.                                    *)
(***************************************************************************)
\* The peer's last connection or the node closes; a bid's sender gives up.
\* Discovery sends with a background context.
Cancel(e) ==
  /\ e \notin done
  /\ e = "opener" => protocol = "preconfirmation"
  /\ done' = done \cup {e}
  /\ UNCHANGED <<given, opener, handler, up, down, closed, reset, verdict, outcome, misread>>

BreakConn ==
  /\ ~reset /\ handler # "none"
  /\ reset' = TRUE
  /\ broken' = TRUE
  /\ UNCHANGED <<version, protocol, registered, opener, handler, up, down, closed, done,
                 verdict, outcome, misread>>

-----------------------------------------------------------------------------
(***************************************************************************)
(* stream.go, for end e.                                                   *)
(***************************************************************************)
Other(e) == IF e = "opener" THEN "handler" ELSE "opener"

Inbox(e) == IF e = "opener" THEN down ELSE up

\* A write that its caller waited for, to an end that may have closed already:
\* yamux throws away what arrives for a closed stream, and the writer is not told.
WriteMsg(e, msg) ==
  /\ ~reset
  /\ IF e = "opener" THEN up' = Append(up, msg) /\ UNCHANGED down
                     ELSE down' = Append(down, msg) /\ UNCHANGED up

\* An error of the stream, or the context's; the message may have gone out.
WriteMsgFails(e, msg) ==
  /\ reset \/ e \in done
  /\ \/ UNCHANGED <<up, down>>
     \/ e \in done /\ WriteMsg(e, msg)

\* ReadHeader and ReadMsg.
Read(e, kinds) ==
  /\ Inbox(e) # <<>>
  /\ IF e = "opener" THEN down' = Tail(down) /\ UNCHANGED up
                     ELSE up' = Tail(up) /\ UNCHANGED down
  /\ misread' = (misread \/ Head(Inbox(e)) \notin kinds)

\* The context is done, the stream is reset, or the other end has closed it.
ReadFails(e) ==
  /\ \/ e \in done
     \/ reset
     \/ Inbox(e) = <<>> /\ Other(e) \in closed
  /\ UNCHANGED <<up, down, misread>>

-----------------------------------------------------------------------------
(***************************************************************************)
(* Seeded faults: variants of the definitions they are named after.        *)
(***************************************************************************)
\* The handler's end leaves without Reset when the headers fail.
HandleHeaderFails_NoReset ==
  /\ \/ handler = "readHeader" /\ ReadFails("handler")
     \/ handler = "writeHeader" /\ WriteMsgFails("handler", "header") /\ UNCHANGED misread
  /\ handler' = "ended"
  /\ UNCHANGED <<given, opener, closed, reset, done, verdict, outcome>>

\* An error of the handler is logged and not written.
HandlerReturns_NotTold(v) ==
  /\ verdict' = v
  /\ handler' = "close"

\* The request for a stream of an unregistered peer is answered with an error.
GetPeer_WriteError ==
  /\ handler = "getPeer"
  /\ \/ registered /\ handler' = "readHeader" /\ UNCHANGED <<up, down>>
     \/ ~registered /\ WriteMsg("handler", "error") /\ handler' = "close"
  /\ UNCHANGED <<given, opener, closed, reset, done, verdict, outcome, misread>>

-----------------------------------------------------------------------------
(***************************************************************************)
(* The end that opens: NewStream, then SendBid or BroadcastPeers.          *)
(***************************************************************************)
\* The same major version, and a minor one that the handler's end has reached.
matchProtocolIDWithSemver(incoming, supported) ==
  supported[1] = incoming[1] /\ supported[2] >= incoming[2]

NewStream ==
  /\ opener = "new"
  /\ \/ /\ matchProtocolIDWithSemver(version["opener"], version["handler"])
        /\ opener' = "writeHeader" /\ handler' = "getPeer"
        /\ UNCHANGED outcome
     \/ \* no such handler, or no connection
        opener' = "ended" /\ outcome' = "failed" /\ UNCHANGED handler
  /\ UNCHANGED <<given, up, down, closed, reset, done, verdict, misread>>

WriteHeader ==
  /\ opener = "writeHeader"
  /\ WriteMsg("opener", "header")
  /\ opener' = "readHeader"
  /\ UNCHANGED <<given, handler, closed, reset, done, verdict, outcome, misread>>

ReadHeader ==
  /\ opener = "readHeader"
  /\ Read("opener", {"header"})
  /\ opener' = "write"
  /\ UNCHANGED <<given, handler, closed, reset, done, verdict, outcome>>

\* The bid, or the list of peers: BroadcastPeers then closes the stream.
WriteRequest ==
  /\ opener = "write"
  /\ WriteMsg("opener", "data")
  /\ IF protocol = "preconfirmation"
       THEN opener' = "read" /\ UNCHANGED <<closed, outcome>>
       ELSE opener' = "ended" /\ closed' = closed \cup {"opener"} /\ outcome' = "sent"
  /\ UNCHANGED <<given, handler, reset, done, verdict, misread>>

\* An error message becomes the error that ReadMsg returns, after which SendBid
\* resets the stream.
ReadAnswer ==
  /\ opener = "read"
  /\ Read("opener", StreamMsg)
  /\ opener' = "ended"
  /\ outcome' = Head(down)
  /\ \/ Head(down) = "data" /\ closed' = closed \cup {"opener"} /\ UNCHANGED reset
     \/ Head(down) # "data" /\ reset' = TRUE /\ UNCHANGED closed
  /\ UNCHANGED <<given, handler, done, verdict>>

\* Reset, but Close where BroadcastPeers' write fails.
OpenerFails ==
  /\ \/ opener = "writeHeader" /\ WriteMsgFails("opener", "header") /\ UNCHANGED misread
     \/ opener = "write" /\ WriteMsgFails("opener", "data") /\ UNCHANGED misread
     \/ opener \in {"readHeader", "read"} /\ ReadFails("opener")
  /\ opener' = "ended"
  /\ outcome' = "failed"
  /\ IF opener = "write" /\ protocol = "discovery"
       THEN closed' = closed \cup {"opener"} /\ UNCHANGED reset
       ELSE reset' = TRUE /\ UNCHANGED closed
  /\ UNCHANGED <<given, handler, done, verdict>>

-----------------------------------------------------------------------------
(***************************************************************************)
(* The end that handles: the function AddStreamHandlers registers, around  *)
(* handleBid or handlePeersList.                                           *)
(***************************************************************************)
\* A stream of an unregistered peer is reset.
GetPeer ==
  /\ handler = "getPeer"
  /\ handler' = IF registered THEN "readHeader" ELSE "ended"
  /\ reset' = (reset \/ ~registered)
  /\ UNCHANGED <<given, opener, up, down, closed, done, verdict, outcome, misread>>

HandleHeader ==
  /\ \/ handler = "readHeader" /\ Read("handler", {"header"}) /\ handler' = "writeHeader"
     \/ /\ handler = "writeHeader" /\ WriteMsg("handler", "header") /\ handler' = "read"
        /\ UNCHANGED misread
  /\ UNCHANGED <<given, opener, closed, reset, done, verdict, outcome>>

HandleHeaderFails ==
  /\ \/ handler = "readHeader" /\ ReadFails("handler")
     \/ handler = "writeHeader" /\ WriteMsgFails("handler", "header") /\ UNCHANGED misread
  /\ handler' = "ended"
  /\ reset' = TRUE
  /\ UNCHANGED <<given, opener, closed, done, verdict, outcome>>

\* The handler returns; its error is to be written to the stream.
HandlerReturns(v) ==
  /\ verdict' = v
  /\ handler' = IF v = "ok" THEN "close" ELSE "writeError"

\* handleBid does not read the bid of a peer that is not a bidder.
ReadRequest ==
  /\ handler = "read"
  /\ \/ Read("handler", StreamMsg) /\ handler' = "work" /\ UNCHANGED verdict
     \/ ReadFails("handler") /\ HandlerReturns("error")
     \/ protocol = "preconfirmation" /\ HandlerReturns("error") /\ UNCHANGED <<up, down, misread>>
  /\ UNCHANGED <<given, opener, closed, reset, done, outcome>>

\* A bid is refused or answered; a list is offered to discovery's loop, which may
\* take it or not, until the context is done.
Work ==
  /\ handler = "work"
  /\ \/ /\ protocol = "preconfirmation"
        /\ \/ WriteMsg("handler", "data") /\ HandlerReturns("ok")
           \/ WriteMsgFails("handler", "data") /\ HandlerReturns("error")
           \/ HandlerReturns("error") /\ UNCHANGED <<up, down>>
     \/ /\ protocol = "discovery"
        /\ \/ HandlerReturns("ok")
           \/ "handler" \in done /\ HandlerReturns("error")
        /\ UNCHANGED <<up, down>>
  /\ UNCHANGED <<given, opener, closed, reset, done, outcome, misread>>

WriteError ==
  /\ handler = "writeError"
  /\ WriteMsg("handler", "error")
  /\ handler' = "close"
  /\ UNCHANGED <<given, opener, closed, reset, done, verdict, outcome, misread>>

WriteErrorFails ==
  /\ handler = "writeError"
  /\ WriteMsgFails("handler", "error")
  /\ handler' = "ended"
  /\ reset' = TRUE
  /\ UNCHANGED <<given, opener, closed, done, verdict, outcome, misread>>

CloseStream ==
  /\ handler = "close"
  /\ handler' = "ended"
  /\ closed' = closed \cup {"handler"}
  /\ UNCHANGED <<given, opener, up, down, reset, done, verdict, outcome, misread>>

-----------------------------------------------------------------------------
OpenerStep == NewStream \/ WriteHeader \/ ReadHeader \/ WriteRequest \/ ReadAnswer \/ OpenerFails

HandlerStep ==
  \/ GetPeer \/ HandleHeader \/ HandleHeaderFails \/ ReadRequest \/ Work
  \/ WriteError \/ WriteErrorFails \/ CloseStream

Next == OpenerStep \/ HandlerStep \/ BreakConn \/ \E e \in Ends : Cancel(e)

Spec == Init /\ [][Next]_vars

\* handlePeersList offers a peer to discovery's loop, which is in sem.Acquire while
\* every worker is in a Connect: it may be there for ever.
Offering == protocol = "discovery" /\ handler = "work" /\ "handler" \notin done

\* Each end goes on while it can, but for a handler that offers.  Nothing has to fail.
FairSpec == Spec /\ WF_vars(OpenerStep) /\ WF_vars(~Offering /\ HandlerStep)

-----------------------------------------------------------------------------
Over == opener = "ended" /\ handler = "ended"

\* The opener never takes an answer or an error for more than it is: data came
\* from a handler that accepted, unless its context ended under the write, and an
\* error from one that returned an error.  If nothing disturbs the stream, the
\* two agree: what the handler returned is what the opener got.
VerdictsAgree ==
  /\ outcome = "data" => verdict = "ok" \/ (verdict = "error" /\ "handler" \in done)
  /\ outcome = "error" => verdict = "error"
  /\ (Over /\ done = {} /\ ~broken /\ protocol = "preconfirmation" /\ verdict # "none")
       => outcome = IF verdict = "ok" THEN "data" ELSE "error"

\* Neither end is left waiting for the other, with a background context too: when
\* one has ended, in whatever way, so does the other, unless it is discovery's
\* handler and its loop takes nothing any more.
BothEnd ==
  /\ (opener = "ended" /\ handler # "none") ~> (handler = "ended" \/ []Offering)
  /\ (handler = "ended") ~> (opener = "ended")
=============================================================================
