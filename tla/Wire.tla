-------------------------------- MODULE Wire ---------------------------------
(* One connection to the daemon's socket: a client writes length-prefixed     *)
(* frames, the transport cuts the bytes into chunks wherever it likes, the    *)
(* server decodes, handles and answers them, and closes the half-open socket  *)
(* when the client has finished and nothing is pending.                       *)
(*                                                                            *)
(* A frame is a header cell followed by `size' body cells. What the JSON says *)
(* matters only as far as it decodes: `kind' tells a request with one answer  *)
(* from one that streams several, from a body that is not JSON and from a     *)
(* header that announces more than MAX_FRAME_BYTES.                           *)
EXTENDS Naturals, Sequences, FiniteSets

CONSTANTS
    Style,        \* "rpc", "send" or "stream": the client's way of calling
    MaxFrames,    \* bound: frames written to one connection
    MaxBody,      \* bound: body cells of a frame
    MaxParts,     \* bound: partial answers of a streaming search
    MaxDrops      \* bound: connections cut by the daemon's end

ASSUME StyleAssumption == Style \subseteq {"rpc", "send", "stream"}
ASSUME FrameAssumption == MaxFrames \in Nat /\ MaxBody \in Nat

Frames == UNION {[1..n -> [size : 0..MaxBody,
                           kind : {"plain", "streaming", "notJson", "tooLarge"}]]
                   : n \in 1..MaxFrames}

VARIABLES
    style, frames,   \* the client, and the frames it means to write
    pipe,            \* cells written and not yet read, oldest first
    fin,             \* the client has ended its side
    buf, taken,      \* FrameDecoder's buffer; frames it has returned so far
    loops,           \* one for/await loop per data event: frames still to do
    parts,           \* partial answers written for the frame a loop is at
    eofSeen, closed, \* clientEofSeen; socket.end() was called
    replies,         \* answers on their way to the client
    drops,
    client, got      \* where the client is, and the first answer it has

wire == <<style, frames, pipe, fin, buf, taken, loops, parts, eofSeen, closed,
          replies, drops, client, got>>

Cells(f, i) == <<[at |-> i, header |-> TRUE]>>
               \o [n \in 1..f[i].size |-> [at |-> i, header |-> FALSE]]

\* The cells of the first frames of f, for each number of them.
Written(f) ==
    LET written[n \in 0..Len(f)] == IF n = 0 THEN <<>> ELSE written[n - 1] \o Cells(f, n)
    IN  written

-----------------------------------------------------------------------------
(* FrameDecoder.push                                                          *)

\* The frame at offset o of the buffer b, and whether all of it is there.
FrameAt(b, o) == frames[b[o + 1].at]
Complete(b, o) == o + 1 + FrameAt(b, o).size <= Len(b)

\* A round of push's loop returns the frame at o, throws, or breaks off.
Returns(b, o) == o < Len(b) /\ Complete(b, o) /\ FrameAt(b, o).kind \in {"plain", "streaming"}
Throws(b, o) ==
    /\ o < Len(b)
    /\ FrameAt(b, o).kind = "tooLarge" \/ (Complete(b, o) /\ FrameAt(b, o).kind = "notJson")

\* Mutant: a round advances past the header only.
HeaderOnly(b, o) == o + 1

\* Where a round that returns the frame at o leaves the loop.
Advance(b, o) == o + 1 + FrameAt(b, o).size

\* What the loop returns from each offset on, and where it ends.
Loop(b) ==
    LET loop[o \in 0..Len(b)] ==
          IF Returns(b, o)
          THEN LET more == loop[Advance(b, o)] IN [out |-> <<b[o + 1].at>> \o more.out, end |-> more.end]
          ELSE [out |-> <<>>, end |-> o]
    IN  loop

\* The frames that push returns, what is left in the buffer, and whether it threw, which
\* loses the frames of this call.
Decode(b) ==
    LET loop == Loop(b)[0]
    IN  [out |-> loop.out, rest |-> SubSeq(b, loop.end + 1, Len(b)), threw |-> Throws(b, loop.end)]

-----------------------------------------------------------------------------
(* The server side of a connection.                                           *)

pending == Cardinality({l \in DOMAIN loops : loops[l] # <<>>})

\* maybeClose, at a moment when n frames are pending.
MaybeClose(n) == closed' = (closed \/ (eofSeen /\ n = 0))

\* What is written to a socket that was ended goes nowhere.
Write(r) == replies' = IF closed THEN replies ELSE Append(replies, r)

\* A data event. Frames that come in one chunk are handled one after the
\* other; those of different chunks overlap.
Data(k) ==
    LET d == Decode(buf \o SubSeq(pipe, 1, k)) IN
    /\ k \in 1..Len(pipe) /\ drops = 0
    /\ pipe' = SubSeq(pipe, k + 1, Len(pipe))
    /\ buf' = d.rest
    /\ IF d.threw
       THEN /\ Write([ok |-> FALSE, to |-> 0])
            /\ closed' = TRUE
            /\ UNCHANGED <<taken, loops, parts>>
       ELSE /\ taken' = taken \o d.out
            /\ loops' = Append(loops, d.out)
            /\ parts' = Append(parts, 0)
            /\ UNCHANGED <<replies, closed>>
    /\ UNCHANGED <<style, frames, fin, eofSeen, drops, client, got>>

\* A streaming search writes what it has so far.
PartialAnswer(l) ==
    /\ loops[l] # <<>> /\ frames[Head(loops[l])].kind = "streaming"
    /\ parts[l] < MaxParts /\ drops = 0
    /\ parts' = [parts EXCEPT ![l] = @ + 1]
    /\ Write([ok |-> TRUE, to |-> Head(loops[l]), done |-> FALSE])
    /\ UNCHANGED <<style, frames, pipe, fin, buf, taken, loops, eofSeen, closed,
                   drops, client, got>>

\* Mutant: the server leaves the closing to the end event.
AnswerKeepsOpen(l) ==
    /\ loops[l] # <<>> /\ drops = 0
    /\ Write([ok |-> TRUE, to |-> Head(loops[l]), done |-> TRUE])
    /\ loops' = [loops EXCEPT ![l] = Tail(@)]
    /\ parts' = [parts EXCEPT ![l] = 0]
    /\ UNCHANGED <<style, frames, pipe, fin, buf, taken, eofSeen, closed, drops,
                   client, got>>

\* processFrame ends: the last answer, pending--, maybeClose, next frame.
Answer(l) ==
    /\ loops[l] # <<>> /\ drops = 0
    /\ Write([ok |-> TRUE, to |-> Head(loops[l]), done |-> TRUE])
    /\ loops' = [loops EXCEPT ![l] = Tail(@)]
    /\ parts' = [parts EXCEPT ![l] = 0]
    /\ MaybeClose(pending - 1)
    /\ UNCHANGED <<style, frames, pipe, fin, buf, taken, eofSeen, drops, client, got>>

\* The end event: every byte was read.
End ==
    /\ fin /\ pipe = <<>> /\ ~eofSeen /\ drops = 0
    /\ eofSeen' = TRUE
    /\ closed' = (closed \/ pending = 0)
    /\ UNCHANGED <<style, frames, pipe, fin, buf, taken, loops, parts, replies,
                   drops, client, got>>

\* The daemon exits, the socket with it; its handlers do not answer any more.
Drop ==
    /\ drops < MaxDrops /\ ~closed
    /\ drops' = drops + 1
    /\ closed' = TRUE
    /\ UNCHANGED <<style, frames, pipe, fin, buf, taken, loops, parts, eofSeen,
                   replies, client, got>>

-----------------------------------------------------------------------------
(* The clients. Each writes its frames at once.                               *)

WireInit ==
    /\ style \in Style
    /\ frames \in Frames
    /\ pipe = <<>> /\ fin = FALSE
    /\ buf = <<>> /\ taken = <<>>
    /\ loops = <<>> /\ parts = <<>>
    /\ eofSeen = FALSE /\ closed = FALSE
    /\ replies = <<>> /\ drops = 0
    /\ client = "connecting" /\ got = 0

\* rpc ends its side with the write; send and sendStream keep it open.
Call ==
    /\ client = "connecting"
    /\ client' = "waiting"
    /\ pipe' = Written(frames)[Len(frames)]
    /\ fin' = (style = "rpc")
    /\ UNCHANGED <<style, frames, buf, taken, loops, parts, eofSeen, closed,
                   replies, drops, got>>

\* send settles on the first frame, rpcStream and sendStream on the one that is
\* done or in error; rpc only collects.
Receive ==
    /\ client = "waiting" /\ replies # <<>>
    /\ LET r == Head(replies)
           last == r.ok => r.done
       IN /\ replies' = Tail(replies)
          /\ got' = IF got = 0 /\ r.ok THEN r.to ELSE got
          /\ IF style = "send" \/ (style = "stream" /\ last)
             THEN /\ client' = IF r.ok THEN "resolved" ELSE "failed"
                  /\ fin' = TRUE
             ELSE UNCHANGED <<client, fin>>
    /\ UNCHANGED <<style, frames, pipe, buf, taken, loops, parts, eofSeen, closed,
                   drops>>

\* The server's end reaches the client: rpc decodes the first frame it has
\* collected, or fails with a short response; send rejects; a stream returns.
ServerEnd ==
    /\ client = "waiting" /\ replies = <<>> /\ closed
    /\ client' = IF style = "send" \/ (style = "rpc" /\ got = 0)
                 THEN "failed" ELSE "resolved"
    /\ fin' = TRUE
    /\ UNCHANGED <<style, frames, pipe, buf, taken, loops, parts, eofSeen, closed,
                   replies, drops, got>>

\* The timer of the call.
Timeout ==
    /\ client = "waiting"
    /\ client' = "timedOut"
    /\ fin' = TRUE
    /\ UNCHANGED <<style, frames, pipe, buf, taken, loops, parts, eofSeen, closed,
                   replies, drops, got>>

ServerStep ==
    \/ \E k \in 1..Len(pipe) : Data(k)
    \/ \E l \in DOMAIN loops : PartialAnswer(l) \/ Answer(l)
    \/ End
ClientStep == Call \/ Receive \/ ServerEnd

WireNext == ServerStep \/ ClientStep \/ Timeout \/ Drop
WireSpec == /\ WireInit /\ [][WireNext]_wire
            /\ WF_wire(ServerStep) /\ WF_wire(ClientStep)

-----------------------------------------------------------------------------
(* Properties.                                                                *)

Good == \A i \in DOMAIN frames : frames[i].kind \in {"plain", "streaming"}
Alone == Len(frames) = 1

\* The decoder returns the frames in the order they were written and never
\* holds more than one incomplete frame back, however the bytes were cut.
DecodesEveryCut ==
    Good => /\ taken = [i \in 1..Len(taken) |-> i]
            /\ client # "connecting" /\ pipe = <<>> => Len(taken) = Len(frames)

\* The inductive strengthening of DecodesEveryCut: what is in the buffer, then in the pipe, is the
\* rest of the stream from the first frame on that the decoder has not returned; and that frame is
\* not in the buffer as a whole.
Cell == [at : 1..Len(frames), header : BOOLEAN]

WireTypeOK == frames \in Frames /\ pipe \in Seq(Cell)

\* The cells of s are those of the stream behind the first n.
InStream(s, n) == \A m \in 1..Len(s) : s[m] = Written(frames)[Len(frames)][n + m]

Synced ==
    /\ buf \in Seq(Cell)
    /\ Len(taken) \in 0..Len(frames) /\ taken = [i \in 1..Len(taken) |-> i]
    /\ client # "connecting" =>
           LET returned == Len(Written(frames)[Len(taken)]) IN
           /\ returned + Len(buf) + Len(pipe) = Len(Written(frames)[Len(frames)])
           /\ InStream(buf, returned) /\ InStream(pipe, returned + Len(buf))
    /\ ~Returns(buf, 0)

StreamInv ==
    /\ WireTypeOK
    /\ client = "connecting" => pipe = <<>> /\ buf = <<>> /\ taken = <<>>
    /\ Good => Synced

\* Without a timeout or the daemon's end, a call of one good frame resolves.
GoodCallResolves ==
    <>[](Alone /\ Good /\ client = "waiting" => drops > 0)
=============================================================================
