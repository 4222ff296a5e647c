----------------------------- MODULE ChatStream -----------------------------
(***************************************************************************)
(* A chat with the model that runs on the blox, end to end: the goroutine  *)
(* of FetchAIResponse reads the answer line by line and hands each line to *)
(* handleChatWithAI over an unbuffered channel; the handler joins lines    *)
(* into JSON objects and streams them as lines of the response; on the     *)
(* phone the goroutine of ChatWithAI reads these into a StreamBuffer, and  *)
(* one thread of the application takes them out with GetChatChunk or with  *)
(* a StreamIterator.                                                       *)
(*                                                                         *)
(* Chunks are numbered in the order the handler sends them.  The context   *)
(* of the phone's request is context.TODO(), so its Done branch is never   *)
(* taken; the error given to StreamBuffer.Close is not stored, so GetChunk *)
(* returns a nil error for ever.                                           *)
(***************************************************************************)
EXTENDS Naturals, Sequences, Functions

CONSTANTS
    ChanCap,    \* capacity of StreamBuffer.Chunks (100)
    MaxLines,   \* bound on the lines of the model's answer
    MaxPeeks    \* bound on the calls of HasNext

ASSUME ChatAssumption == ChanCap \in Nat \ {0} /\ MaxLines \in Nat /\ MaxPeeks \in Nat

VARIABLES
    fetcher,    \* the goroutine of FetchAIResponse
    aiLines,    \* lines read from the model so far
    handler,    \* handleChatWithAI
    joined,     \* the handler's buffer holds an incomplete object
    sent,       \* number of chunks the handler has sent
    net,        \* lines of the response body not read yet
    body,       \* the response body: "open", at its "eof" or "broken"
    reading,    \* the goroutine of ChatWithAI
    holding,    \* the chunk that it is adding, 0 if none
    accum,      \* a line that is not JSON yet, 0 if none
    locked,     \* it holds StreamBuffer.mu
    chunks,     \* the channel StreamBuffer.Chunks
    closedBy,   \* who closed StreamBuffer and its channel
    putBack,    \* chunks in goroutines of HasNext, 0 for a zero value
    app,        \* the application's thread
    listed,     \* streams has the stream
    completed,  \* StreamIterator.completed
    got,        \* the chunks the application was given, in order
    peeks,      \* calls of HasNext that took something
    crashed     \* a send on a closed channel has ended the application

netVars == <<fetcher, aiLines, handler, joined, sent>>
bufVars == <<chunks, closedBy, putBack>>
appVars == <<app, listed, completed, got, peeks>>
chatVars == <<netVars, net, body, reading, holding, accum, locked, bufVars,
              appVars, crashed>>

\* StreamBuffer.closed
chanClosed == closedBy # "none"

ChatInit ==
    /\ fetcher = "none" /\ aiLines = 0
    /\ handler = "start" /\ joined = FALSE /\ sent = 0
    /\ net = <<>> /\ body = "open"
    /\ reading = "none" /\ holding = 0 /\ accum = 0 /\ locked = FALSE
    /\ chunks = <<>> /\ closedBy = "none" /\ putBack = {}
    /\ app = "idle" /\ listed = FALSE /\ completed = FALSE
    /\ got = <<>> /\ peeks = 0
    /\ crashed = FALSE

-----------------------------------------------------------------------------
(* The blox: FetchAIResponse and handleChatWithAI                          *)

\* A line of the response: its number, and whether it is a JSON object.
Line(n, json) == [n |-> n, json |-> json]

Send(json) ==
    /\ sent' = sent + 1
    /\ net' = IF body = "broken" THEN net ELSE Append(net, Line(sent + 1, json))

\* The request to the model fails: the error's text is the answer.  A request
\* that is not decoded, or a refusal, is ChatRefused.
FetchAIResponse ==
    /\ handler = "start"
    /\ \/ /\ handler' = "stream" /\ fetcher' = "read"
          /\ UNCHANGED <<sent, net, body>>
       \/ /\ handler' = "done" /\ UNCHANGED fetcher
          /\ Send(FALSE) /\ body' = "eof"
    /\ reading' = "read" /\ listed' = TRUE
    /\ UNCHANGED <<aiLines, joined, holding, accum, locked, bufVars, app, completed,
                   got, peeks, crashed>>

ChatRefused ==
    /\ handler = "start" /\ handler' = "done" /\ body' = "eof"
    /\ UNCHANGED <<fetcher, aiLines, joined, sent, net, reading, holding, accum,
                   locked, bufVars, appVars, crashed>>

\* reader.ReadString: a line, or the end of the answer or an error.
FetcherReads ==
    /\ fetcher = "read"
    /\ \/ aiLines < MaxLines /\ aiLines' = aiLines + 1 /\ fetcher' = "send"
       \/ fetcher' = "closed" /\ UNCHANGED aiLines
    /\ UNCHANGED <<handler, joined, sent, net, body, reading, holding, accum,
                   locked, bufVars, appVars, crashed>>

\* The handler takes a line: blank, part of an object, or the rest of one.
HandlerTakes ==
    /\ handler = "stream" /\ fetcher = "send" /\ fetcher' = "read"
    /\ \/ UNCHANGED <<handler, joined, sent, net, body>>
       \/ joined' = TRUE /\ UNCHANGED <<handler, sent, net, body>>
       \/ joined' = FALSE /\ Send(TRUE) /\ UNCHANGED <<handler, body>>
       \/ /\ body = "broken" /\ handler' = "done" /\ joined' = FALSE
          /\ UNCHANGED <<sent, net, body>>
    /\ UNCHANGED <<aiLines, reading, holding, accum, locked, bufVars, appVars,
                   crashed>>

\* The channel is closed, or the request's context is done: the phone is gone.
HandlerEnds ==
    /\ handler = "stream" /\ (fetcher = "closed" \/ body = "broken")
    /\ handler' = "done"
    /\ body' = IF body = "open" THEN "eof" ELSE body
    /\ UNCHANGED <<fetcher, aiLines, joined, sent, net, reading, holding, accum,
                   locked, bufVars, appVars, crashed>>

\* The connection breaks: what was not read is lost.
ConnectionBreaks ==
    /\ body = "open" /\ handler = "stream"
    /\ body' = "broken" /\ net' = <<>>
    /\ UNCHANGED <<netVars, reading, holding, accum, locked, bufVars, appVars, crashed>>

-----------------------------------------------------------------------------
(* The phone: the goroutine of ChatWithAI                                  *)

\* Mutant: what is left over at the end of the stream is not added.
ReadBytesForgets ==
    /\ ~crashed /\ reading = "read"
    /\ \/ /\ net # <<>> /\ net' = Tail(net)
          /\ IF Head(net).json
             THEN reading' = "add" /\ holding' = Head(net).n /\ UNCHANGED accum
             ELSE accum' = Head(net).n /\ UNCHANGED <<reading, holding>>
       \/ /\ net = <<>> /\ body # "open" /\ reading' = "close"
          /\ accum' = 0 /\ UNCHANGED <<net, holding>>
    /\ UNCHANGED <<netVars, body, locked, bufVars, appVars, crashed>>

\* reader.ReadBytes and the attempt to parse what has accumulated.
ReadBytes ==
    /\ ~crashed /\ reading = "read"
    /\ \/ /\ net # <<>> /\ net' = Tail(net)
          /\ IF Head(net).json
             THEN reading' = "add" /\ holding' = Head(net).n /\ UNCHANGED accum
             ELSE accum' = Head(net).n /\ UNCHANGED <<reading, holding>>
       \/ /\ net = <<>> /\ body = "eof" /\ UNCHANGED net
          /\ IF accum # 0
             THEN reading' = "addLast" /\ holding' = accum /\ accum' = 0
             ELSE reading' = "close" /\ UNCHANGED <<holding, accum>>
       \/ /\ net = <<>> /\ body = "broken" /\ reading' = "close"
          /\ accum' = 0 /\ UNCHANGED <<net, holding>>
    /\ UNCHANGED <<netVars, body, locked, bufVars, appVars, crashed>>

LockMu ==
    /\ ~crashed /\ reading \in {"add", "addLast"} /\ ~locked /\ locked' = TRUE
    /\ UNCHANGED <<netVars, net, body, reading, holding, accum, bufVars, appVars,
                   crashed>>

\* Mutant: AddChunk gives the chunk up when it would fill the channel.
AddChunkDrops ==
    /\ ~crashed /\ locked
    /\ chunks' = IF chanClosed \/ Len(chunks) + 1 >= ChanCap THEN chunks
                 ELSE Append(chunks, holding)
    /\ locked' = FALSE /\ holding' = 0
    /\ reading' = IF reading = "add" THEN "read" ELSE "close"
    /\ UNCHANGED <<netVars, net, body, accum, closedBy, putBack, appVars, crashed>>

\* Mutant: AddChunk returns early from a closed buffer with mu still locked.
AddChunkKeepsMu ==
    /\ ~crashed /\ locked /\ holding # 0
    /\ \/ chanClosed /\ UNCHANGED <<chunks, locked>>
       \/ /\ ~chanClosed /\ Len(chunks) < ChanCap /\ locked' = FALSE
          /\ chunks' = Append(chunks, holding)
    /\ holding' = 0
    /\ reading' = IF reading = "add" THEN "read" ELSE "close"
    /\ UNCHANGED <<netVars, net, body, accum, closedBy, putBack, appVars, crashed>>

\* AddChunk, holding mu: a full channel blocks it, a closed one drops the chunk.
AddChunk ==
    /\ ~crashed /\ locked
    /\ \/ chanClosed /\ UNCHANGED chunks
       \/ /\ ~chanClosed /\ Len(chunks) < ChanCap
          /\ chunks' = Append(chunks, holding)
    /\ locked' = FALSE /\ holding' = 0
    /\ reading' = IF reading = "add" THEN "read" ELSE "close"
    /\ UNCHANGED <<netVars, net, body, accum, closedBy, putBack, appVars, crashed>>

\* The goroutine's Close(nil), and its deferred IsClosed.
ReaderCloses ==
    /\ ~crashed /\ reading = "close" /\ ~locked
    /\ closedBy' = (IF chanClosed THEN closedBy ELSE "reader") /\ reading' = "done"
    /\ UNCHANGED <<netVars, net, body, holding, accum, locked, chunks, putBack,
                   appVars, crashed>>

-----------------------------------------------------------------------------
(* The application: one call at a time                                     *)

Idle == ~crashed /\ app = "idle" /\ listed

\* GetChatChunk, up to the receive of GetChunk.
GetChatChunk ==
    /\ Idle /\ app' = "receive"
    /\ UNCHANGED <<netVars, net, body, reading, holding, accum, locked, bufVars,
                   listed, completed, got, peeks, crashed>>

\* GetChunk: a chunk is returned to the application; a closed and empty channel
\* gives "" and a nil error, and GetChatChunk goes round its loop.
GetChunk ==
    /\ ~crashed
    /\ \/ /\ app = "receive" /\ chunks # <<>>
          /\ got' = Append(got, Head(chunks)) /\ chunks' = Tail(chunks)
          /\ app' = "idle"
       \/ /\ app = "receive" /\ chunks = <<>> /\ chanClosed
          /\ app' = "skip" /\ UNCHANGED <<got, chunks>>
       \/ app = "skip" /\ app' = "receive" /\ UNCHANGED <<got, chunks>>
    /\ UNCHANGED <<netVars, net, body, reading, holding, accum, locked, closedBy,
                   putBack, listed, completed, peeks, crashed>>

\* StreamIterator.HasNext: it takes a chunk and starts a goroutine that sends
\* it back; from a closed and empty channel it takes a zero value.
HasNext ==
    /\ Idle /\ ~completed /\ peeks < MaxPeeks
    /\ \/ /\ chunks # <<>> /\ chunks' = Tail(chunks)
          /\ putBack' = putBack \cup {Head(chunks)}
       \/ /\ chunks = <<>> /\ chanClosed
          /\ putBack' = putBack \cup {0} /\ UNCHANGED chunks
    /\ peeks' = peeks + 1
    /\ UNCHANGED <<netVars, net, body, reading, holding, accum, locked, closedBy,
                   app, listed, completed, got, crashed>>

\* Mutant: the chunk is sent back before it is taken.
SendsBackTwice(c) ==
    /\ ~crashed /\ c \in putBack
    /\ ~chanClosed /\ Len(chunks) < ChanCap /\ chunks' = Append(chunks, c)
    /\ UNCHANGED <<putBack, crashed, netVars, net, body, reading, holding, accum,
                   locked, closedBy, appVars>>

\* The goroutine of HasNext.
SendsBack(c) ==
    /\ ~crashed /\ c \in putBack
    /\ \/ chanClosed /\ crashed' = TRUE /\ UNCHANGED <<chunks, putBack>>
       \/ /\ ~chanClosed /\ Len(chunks) < ChanCap /\ putBack' = putBack \ {c}
          /\ chunks' = Append(chunks, c) /\ UNCHANGED crashed
    /\ UNCHANGED <<netVars, net, body, reading, holding, accum, locked, closedBy,
                   appVars>>

\* StreamIterator.Next: a chunk, the end, or "" after its time-out.
IteratorNext ==
    /\ Idle
    /\ \/ /\ chunks # <<>> /\ got' = Append(got, Head(chunks))
          /\ chunks' = Tail(chunks) /\ UNCHANGED completed
       \/ /\ chunks = <<>> /\ chanClosed
          /\ completed' = TRUE /\ UNCHANGED <<got, chunks>>
    /\ UNCHANGED <<netVars, net, body, reading, holding, accum, locked, closedBy,
                   putBack, app, listed, peeks, crashed>>

\* StreamIterator.Close waits for mu, which AddChunk holds while it is blocked.
IteratorClose ==
    /\ ~crashed
    /\ \/ Idle /\ app' = "close" /\ UNCHANGED closedBy
       \/ /\ app = "close" /\ ~locked /\ app' = "idle"
          /\ closedBy' = IF chanClosed THEN closedBy ELSE "app"
    /\ UNCHANGED <<netVars, net, body, reading, holding, accum, locked, chunks,
                   putBack, listed, completed, got, peeks, crashed>>

\* StreamIterator.IsComplete, when mu is free.
IsComplete == completed \/ (chanClosed /\ chunks = <<>>)

BloxStep == FetchAIResponse \/ FetcherReads \/ HandlerTakes \/ HandlerEnds
ReaderStep == ReadBytes \/ LockMu \/ AddChunk \/ ReaderCloses

ChatNext ==
    \/ BloxStep \/ ChatRefused \/ ConnectionBreaks
    \/ ReaderStep
    \/ GetChatChunk \/ GetChunk \/ HasNext \/ IteratorNext \/ IteratorClose
    \/ \E c \in putBack : SendsBack(c)

ChatSpec == ChatInit /\ [][ChatNext]_chatVars

\* The goroutine that reads the stream runs, and GetChunk returns when it can.
ChatFairSpec == ChatSpec /\ WF_chatVars(ReaderStep) /\ WF_chatVars(GetChunk)

-----------------------------------------------------------------------------
\* The channel as an abstract bag: what is in it or on its way back into it.
Pending == Range(chunks) \cup (putBack \ {0}) 
Bag == INSTANCE ChunkBag WITH Chunk <- 1..(MaxLines + 1),
          pending <- Pending, handed <- Range(got), ended <- chanClosed

\* HasNext reorders chunks but neither loses nor repeats one: the buffer with
\* its iterator implements a bag in which each chunk is handed over once.
StreamIsBag == Bag!BagSpec

\* An application that does not peek gets the chunks in the order in which the
\* model wrote them, with none left out, whatever it is that ends the stream.
DeliveredInOrder ==
    peeks = 0 => got \o chunks = [i \in 1..Len(got \o chunks) |-> i]

\* IsComplete is not true too early: the whole of an answer that came to its
\* end has been handed over, unless the application closed the stream itself
\* or a peeked chunk is still on its way back.
CompleteMeansAll ==
    IsComplete /\ closedBy = "reader" /\ body = "eof" /\ putBack = {}
        => Range(got) = 1..sent

\* When the response has ended or broken, the goroutine of ChatWithAI ends,
\* even if the application closed the stream under it; only a full channel
\* that nobody empties keeps it, with mu locked.
ReaderEnds ==
    (reading # "none" /\ body # "open")
        ~> (reading = "done" \/ crashed \/ Len(chunks) = ChanCap)

\* GetChatChunk comes back when the stream it waits on is closed: its branch
\* "Stream closed or errored out" forgets the stream and reports the error.
EndIsReported ==
    (app \in {"receive", "skip"} /\ chanClosed) ~> (app = "idle" \/ crashed)
=============================================================================
