----------------------------- MODULE FileStream -----------------------------
(***************************************************************************)
(* How the bytes of one file, or of one long string, cross a data channel: *)
(* the app hands pieces of any size to process_in_chunks, which cuts them  *)
(* into messages of CHUNK_SIZE (core/src/webrtc/peer.rs); on the other     *)
(* side the receiving loop passes the messages to buffer_receiver, which   *)
(* gathers them into large blocks for the app (app/rust/src/util/bytes.rs).*)
(* A string goes through send_string_in_chunks in one piece and is put     *)
(* together by receive_string_from_chunks.                                 *)
(*                                                                         *)
(* PeerTransfer sees a file as opaque chunks and a string as one body: this*)
(* module is the justification.  A byte is its position in the data.       *)
(***************************************************************************)
EXTENDS Naturals, Sequences, SequencesExt

CONSTANTS
  MaxSize,     \* bound: bytes of the data
  MaxPiece,    \* bound: bytes the app hands over at once
  CHUNK_SIZE,  \* 16 KiB in the code
  BUFFER_SIZE, \* 1 MiB in the code
  UpCap,       \* capacity of the channel from the app
  DownCap      \* capacity of the channel to buffer_receiver

ASSUME StreamAssumption ==
  /\ {MaxSize, MaxPiece} \subseteq Nat
  /\ {CHUNK_SIZE, BUFFER_SIZE, UpCap, DownCap} \subseteq Nat \ {0}

VARIABLES
  kind,    \* "file" or "string"
  size,    \* bytes of the data
  pos,     \* bytes the app has read
  src,     \* the app's end of its channel: "open", "closed"
  up,      \* pieces on their way to process_in_chunks
  buffer,  \* the buffer of process_in_chunks
  cut,     \* process_in_chunks and the string after it: "on", "done"
  wire,    \* messages on the data channel
  loop,    \* the receiving loop: "on", "done"
  down,    \* messages on their way to buffer_receiver
  gather,  \* the buffer of buffer_receiver
  blocks,  \* blocks on their way to the app, at most one
  agg,     \* buffer_receiver: "on", "done"
  sink     \* blocks the app has got

sendVars == <<pos, src, up, buffer, cut>>
recvVars == <<loop, down, gather, blocks, agg, sink>>
fvars == <<kind, size, sendVars, wire, recvVars>>

Data == [i \in 1..size |-> i]
String == [end |-> TRUE, data |-> <<>>]      \* a header or the delimiter
Binary(bytes) == [end |-> FALSE, data |-> bytes]

FTypeOK ==
  /\ kind \in {"file", "string"} /\ size \in 0..MaxSize /\ pos \in 0..size
  /\ src \in {"open", "closed"} /\ {cut, loop, agg} \subseteq {"on", "done"}
  /\ buffer \in Seq(Nat) /\ gather \in Seq(Nat)
  /\ up \in Seq(Seq(Nat)) /\ Len(up) <= UpCap
  /\ wire \in Seq([end : BOOLEAN, data : Seq(Nat)])
  /\ down \in Seq(Seq(Nat)) /\ Len(down) <= DownCap
  /\ blocks \in Seq(Seq(Nat)) /\ Len(blocks) <= 1
  /\ sink \in Seq(Seq(Nat))

FInit ==
  /\ kind \in {"file", "string"} /\ size \in 0..MaxSize
  /\ pos = 0 /\ src = "open" /\ up = <<>> /\ buffer = <<>> /\ cut = "on"
  /\ wire = <<>>
  /\ loop = "on" /\ down = <<>> /\ gather = <<>> /\ blocks = <<>>
  /\ agg = "on" /\ sink = <<>>

-----------------------------------------------------------------------------
(* The sender.                                                             *)

(* RTCFileSender::send, or a turn of read_file_to_sender; the one piece of *)
(* send_string_in_chunks.                                                  *)
SendPiece(n) ==
  /\ src = "open" /\ Len(up) < UpCap /\ pos + n <= size
  /\ kind = "string" => pos = 0 /\ n = size
  /\ kind = "file" => n <= MaxPiece
  /\ up' = Append(up, SubSeq(Data, pos + 1, pos + n))
  /\ pos' = pos + n
  /\ src' = IF kind = "string" THEN "closed" ELSE src
  /\ UNCHANGED <<kind, size, buffer, cut, wire, recvVars>>

EndOfData ==
  /\ src = "open" /\ kind = "file" /\ pos = size
  /\ src' = "closed"
  /\ UNCHANGED <<kind, size, pos, up, buffer, cut, wire, recvVars>>

(* process_in_chunks: the inner loop has left less than one chunk.         *)
TakePiece ==
  /\ cut = "on" /\ Len(buffer) < CHUNK_SIZE /\ up # <<>>
  /\ buffer' = buffer \o Head(up) /\ up' = Tail(up)
  /\ UNCHANGED <<kind, size, pos, src, cut, wire, recvVars>>

SendChunk ==
  /\ cut = "on" /\ Len(buffer) >= CHUNK_SIZE
  /\ wire' = Append(wire, Binary(SubSeq(buffer, 1, CHUNK_SIZE)))
  /\ buffer' = SubSeq(buffer, CHUNK_SIZE + 1, Len(buffer))
  /\ UNCHANGED <<kind, size, pos, src, up, cut, recvVars>>

(* The channel is closed: what is left over, then the next header or the   *)
(* delimiter.                                                              *)
Rest_Always == <<Binary(buffer)>>                           \* mutant
Rest == IF buffer = <<>> THEN <<>> ELSE <<Binary(buffer)>>
SendRest ==
  /\ cut = "on" /\ Len(buffer) < CHUNK_SIZE /\ up = <<>> /\ src = "closed"
  /\ wire' = wire \o Rest \o <<String>>
  /\ buffer' = <<>> /\ cut' = "done"
  /\ UNCHANGED <<kind, size, pos, src, up, recvVars>>

-----------------------------------------------------------------------------
(* The receiver.                                                           *)

(* The receiving loop passes a message on; a string drops its end of the   *)
(* channel.                                                                *)
PassOn ==
  /\ kind = "file" /\ loop = "on" /\ wire # <<>>
  /\ IF Head(wire).end THEN loop' = "done" /\ UNCHANGED down
     ELSE Len(down) < DownCap /\ down' = Append(down, Head(wire).data)
          /\ UNCHANGED loop
  /\ wire' = Tail(wire)
  /\ UNCHANGED <<kind, size, sendVars, gather, blocks, agg, sink>>

(* receive_string_from_chunks.                                             *)
ReceiveString ==
  /\ kind = "string" /\ loop = "on" /\ wire # <<>>
  /\ IF Head(wire).end
     THEN loop' = "done" /\ sink' = <<gather>> /\ gather' = <<>>
     ELSE gather' = gather \o Head(wire).data /\ UNCHANGED <<loop, sink>>
  /\ wire' = Tail(wire)
  /\ UNCHANGED <<kind, size, sendVars, down, blocks, agg>>

(* buffer_receiver.                                                        *)
Full == Len(gather) >= BUFFER_SIZE
Gather ==
  /\ agg = "on" /\ ~Full /\ down # <<>>
  /\ gather' = gather \o Head(down) /\ down' = Tail(down)
  /\ UNCHANGED <<kind, size, sendVars, wire, loop, blocks, agg, sink>>

Cleared_Not == gather                                       \* mutant
Cleared == <<>>
SendBlock ==
  /\ kind = "file" /\ agg = "on" /\ Full /\ blocks = <<>>
  /\ blocks' = <<gather>> /\ gather' = Cleared
  /\ UNCHANGED <<kind, size, sendVars, wire, loop, down, agg, sink>>

Leftover_Forgotten == <<>>                                  \* mutant
Leftover == IF gather = <<>> THEN <<>> ELSE <<gather>>
SendLeftover ==
  /\ kind = "file" /\ agg = "on" /\ ~Full /\ down = <<>> /\ loop = "done"
  /\ blocks = <<>>
  /\ blocks' = Leftover /\ gather' = <<>> /\ agg' = "done"
  /\ UNCHANGED <<kind, size, sendVars, wire, loop, down, sink>>

(* RTCFileReceiver::receive, or write_file_from_receiver.                  *)
Receive ==
  /\ blocks # <<>>
  /\ sink' = sink \o blocks /\ blocks' = <<>>
  /\ UNCHANGED <<kind, size, sendVars, wire, loop, down, gather, agg>>

-----------------------------------------------------------------------------
Sender == EndOfData \/ TakePiece \/ SendChunk \/ SendRest
Receiver == PassOn \/ ReceiveString
Buffering == Gather \/ SendBlock \/ SendLeftover

FNext == (\E n \in 0..MaxSize : SendPiece(n)) \/ Sender \/ Receiver \/ Buffering
         \/ Receive

FSpec == FInit /\ [][FNext]_fvars
(* Every task is polled; the app reads on as long as there is data (an     *)
(* endless row of empty pieces is no progress).                            *)
FFairness ==
  /\ SF_fvars(\E n \in 1..MaxSize : SendPiece(n))
  /\ WF_fvars(kind = "string" /\ SendPiece(0)) /\ WF_fvars(EndOfData)
  /\ WF_fvars(TakePiece) /\ WF_fvars(SendChunk) /\ WF_fvars(SendRest)
  /\ WF_fvars(Receiver) /\ WF_fvars(Buffering) /\ WF_fvars(Receive)
FFairSpec == FSpec /\ FFairness

-----------------------------------------------------------------------------
(* Properties.                                                             *)

Bytes(q) == FlattenSeq(q)
OnWire == FlattenSeq([i \in 1..Len(wire) |-> wire[i].data])

(* At every moment the bytes read by the sending app are, in order, those  *)
(* the receiving app got and those under way: cutting, buffering and       *)
(* gathering lose, repeat and swap nothing.                                *)
InOrder ==
  SubSeq(Data, 1, pos) = Bytes(sink) \o Bytes(blocks) \o gather \o Bytes(down)
                         \o OnWire \o buffer \o Bytes(up)

(* No message is empty (the other peer would not receive it, as            *)
(* send_delimiter says) or longer than CHUNK_SIZE, and a shorter one is    *)
(* the last before the string.                                             *)
MessageSizes ==
  \A i \in 1..Len(wire) : ~wire[i].end =>
    /\ Len(wire[i].data) \in 1..CHUNK_SIZE
    /\ Len(wire[i].data) < CHUNK_SIZE => i < Len(wire) /\ wire[i + 1].end

(* buffer_receiver holds and hands over less than BUFFER_SIZE + CHUNK_SIZE *)
(* bytes at a time, and only the last block is smaller than BUFFER_SIZE.   *)
BlockSizes ==
  kind = "file" =>
    LET given == sink \o blocks IN
    /\ Len(gather) < BUFFER_SIZE + CHUNK_SIZE
    /\ \A i \in 1..Len(given) :
         /\ Len(given[i]) \in 1..BUFFER_SIZE + CHUNK_SIZE - 1
         /\ Len(given[i]) < BUFFER_SIZE => i = Len(given) /\ agg = "done"

(* Whatever sizes the app's pieces have, the messages on the channel and   *)
(* the blocks for the receiving app have the sizes the two ends rely on.   *)
Sizes == MessageSizes /\ BlockSizes

(* The receiving app has been told that nothing more will come.            *)
Over == IF kind = "file" THEN agg = "done" /\ blocks = <<>> ELSE loop = "done"

(* Chunks, channels and blocks implement a plain stream of bytes: the      *)
(* receiving app gets the next bytes and nothing else, and the end of the  *)
(* stream only after all of them.                                          *)
Stream == INSTANCE ByteStream
            WITH total <- size, read <- pos, got <- Bytes(sink), over <- Over
Delivers == Stream!Spec

(* In the end the receiving app has all the data, also when the bounded    *)
(* channels fill up and when there is no data at all.                      *)
Arrives ==
  <>(loop = "done" /\ (kind = "file" => agg = "done") /\ Bytes(sink) = Data)
=============================================================================
