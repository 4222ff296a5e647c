-------------------------- MODULE ChatStreamProofs --------------------------
(***************************************************************************)
(* Proofs about ChatStream, for a channel of any capacity, an answer of    *)
(* any length and any number of peeks: the order and the completeness of   *)
(* what the application is given, and that the buffer with its iterator    *)
(* implements the bag of ChunkBag.                                         *)
(***************************************************************************)
EXTENDS ChatStream, SequenceTheorems, TLAPS

-----------------------------------------------------------------------------
(* Sequences and the sets of their elements.                               *)

LEMMA RangeAppend ==
  ASSUME NEW S, NEW s \in Seq(S), NEW e \in S
  PROVE  Range(Append(s, e)) = Range(s) \cup {e}
  <1>1. /\ Append(s, e) \in Seq(S) /\ Len(Append(s, e)) = Len(s) + 1
        /\ \A i \in 1..Len(s) : Append(s, e)[i] = s[i]
        /\ Append(s, e)[Len(s) + 1] = e
    BY AppendProperties
  <1>2. Len(s) \in Nat /\ DOMAIN s = 1..Len(s) /\ DOMAIN Append(s, e) = 1..(Len(s) + 1)
    BY <1>1, LenProperties
  <1>3. \A i \in 1..(Len(s) + 1) : i \in 1..Len(s) \/ i = Len(s) + 1
    BY <1>2
  <1>4. \A i \in 1..Len(s) : i \in 1..(Len(s) + 1)
    BY <1>2
  <1>5. Len(s) + 1 \in 1..(Len(s) + 1)
    BY <1>2
  <1> QED
    BY <1>1, <1>2, <1>3, <1>4, <1>5 DEF Range

\* No element of s is there twice.
Injective(s) == \A i, j \in 1..Len(s) : s[i] = s[j] => i = j

LEMMA RangeTail ==
  ASSUME NEW S, NEW s \in Seq(S), s # <<>>
  PROVE  /\ Head(s) \in S /\ Tail(s) \in Seq(S) /\ Len(Tail(s)) = Len(s) - 1
         /\ \A i \in 1..Len(Tail(s)) : Tail(s)[i] = s[i + 1]
         /\ Head(s) = s[1] /\ Len(s) \in Nat \ {0}
         /\ Range(s) = Range(Tail(s)) \cup {Head(s)}
         /\ Injective(s) => Head(s) \notin Range(Tail(s)) /\ Injective(Tail(s))
  <1>1. /\ Head(s) \in S /\ Tail(s) \in Seq(S) /\ Len(Tail(s)) = Len(s) - 1
        /\ \A i \in 1..Len(Tail(s)) : Tail(s)[i] = s[i + 1]
    BY HeadTailProperties
  <1>2. Head(s) = s[1] /\ Len(s) \in Nat \ {0}
    BY EmptySeq, LenProperties
  <1>3. DOMAIN s = 1..Len(s) /\ DOMAIN Tail(s) = 1..(Len(s) - 1)
    BY <1>1, LenProperties
  <1>4. Range(s) = Range(Tail(s)) \cup {Head(s)}
    <2>1. Range(s) \subseteq Range(Tail(s)) \cup {Head(s)}
      <3> SUFFICES ASSUME NEW i \in 1..Len(s), i # 1 PROVE s[i] \in Range(Tail(s))
        BY <1>2, <1>3 DEF Range
      <3>1. i - 1 \in 1..(Len(s) - 1) /\ (i - 1) + 1 = i
        BY <1>2
      <3> QED
        BY <1>1, <1>3, <3>1, Zenon DEF Range
    <2>2. Range(Tail(s)) \cup {Head(s)} \subseteq Range(s)
      <3>1. \A i \in 1..(Len(s) - 1) : i + 1 \in 1..Len(s)
        BY <1>2
      <3>2. 1 \in 1..Len(s)
        BY <1>2
      <3> QED
        BY <1>1, <1>2, <1>3, <3>1, <3>2 DEF Range
    <2> QED
      BY <2>1, <2>2
  <1>5. ASSUME Injective(s)
        PROVE  Head(s) \notin Range(Tail(s)) /\ Injective(Tail(s))
    <2>1. \A i \in 1..(Len(s) - 1) : i + 1 \in 1..Len(s) /\ i + 1 # 1 /\ i \in Int
      BY <1>2
    <2>2. 1 \in 1..Len(s)
      BY <1>2
    <2>3. Head(s) \notin Range(Tail(s))
      BY <1>1, <1>2, <1>3, <1>5, <2>1, <2>2 DEF Range, Injective
    <2>4. Injective(Tail(s))
      BY <1>1, <1>5, <2>1 DEF Injective
    <2> QED
      BY <2>3, <2>4
  <1> QED
    BY <1>1, <1>2, <1>4, <1>5

LEMMA InjectiveAppend ==
  ASSUME NEW S, NEW s \in Seq(S), NEW e \in S, Injective(s), e \notin Range(s)
  PROVE  Injective(Append(s, e))
  <1>1. /\ Len(Append(s, e)) = Len(s) + 1
        /\ \A i \in 1..Len(s) : Append(s, e)[i] = s[i]
        /\ Append(s, e)[Len(s) + 1] = e
    BY AppendProperties
  <1>2. Len(s) \in Nat /\ DOMAIN s = 1..Len(s)
    BY LenProperties
  <1>3. \A i \in 1..(Len(s) + 1) : i \in 1..Len(s) \/ i = Len(s) + 1
    BY <1>2
  <1>4. \A i \in 1..Len(s) : s[i] # e
    BY <1>2 DEF Range
  <1> QED
    BY <1>1, <1>3, <1>4 DEF Injective

LEMMA CountsUp ==
  ASSUME NEW s \in Seq(Nat), \A i \in 1..Len(s) : s[i] = i
  PROVE  s = [i \in 1..Len(s) |-> i]
  <1>1. s \in [1..Len(s) -> Nat]
    BY LenProperties
  <1> DEFINE D == 1..Len(s)
  <1>2. s \in [D -> Nat] /\ \A i \in D : s[i] = i
    BY <1>1
  <1> HIDE DEF D
  <1>3. s = [i \in D |-> i]
    BY <1>2
  <1> QED
    BY <1>3 DEF D

-----------------------------------------------------------------------------
(* The inductive invariant.                                                *)

Lines == [n : Nat \ {0}, json : BOOLEAN]

ChatTypes ==
    /\ sent \in Nat /\ aiLines \in Nat /\ holding \in Nat /\ accum \in Nat /\ peeks \in Nat
    /\ net \in Seq(Lines) /\ body \in {"open", "eof", "broken"}
    /\ chunks \in Seq(Nat) /\ got \in Seq(Nat) /\ putBack \subseteq Nat

\* The blox: every chunk uses up a line of the model; the response ends with the
\* handler; a line that is not JSON is the only one of its response.
BloxInv ==
    /\ handler = "start" => /\ sent = 0 /\ aiLines = 0 /\ net = <<>>
                            /\ reading = "none" /\ body = "open" /\ fetcher = "none"
    /\ handler = "stream" => sent + (IF fetcher = "send" THEN 1 ELSE 0) <= aiLines
    /\ aiLines <= MaxLines /\ sent <= MaxLines + 1
    /\ body = "eof" => handler = "done"
    /\ \A i \in 1..Len(net) : net[i].json = FALSE => Len(net) = 1 /\ handler = "done"

\* The goroutine of ChatWithAI: it holds a chunk from reading it to adding it, mu
\* only then, and closes when there is nothing left to read.
ReaderInv ==
    /\ holding # 0 <=> reading \in {"add", "addLast"}
    /\ locked => holding # 0
    /\ accum # 0 => holding = 0 /\ net = <<>> /\ handler = "done"
    /\ reading \in {"addLast", "close", "done"} => accum = 0 /\ net = <<>> /\ body # "open"
    /\ closedBy = "reader" => reading = "done"

\* The buffer: a chunk is in one place.
BufferInv ==
    /\ Injective(chunks)
    /\ Range(chunks) \cap putBack = {}
    /\ Range(got) \cap (Range(chunks) \cup putBack) = {}
    /\ 0 \in putBack => chanClosed
    /\ completed => chanClosed /\ chunks = <<>>

Added == Range(got) \cup Pending
InHand == IF holding # 0 \/ accum # 0 THEN 1 ELSE 0

\* The first k chunks have been added; while the stream is open, the goroutine
\* holds the next one and the ones after it are on their way.
OnTheirWay(k) ==
    /\ holding # 0 => holding = k + 1
    /\ accum # 0 => accum = k + 1
    /\ \A i \in 1..Len(net) : net[i].n = k + InHand + i
    /\ k + InHand + Len(net) <= sent
    /\ body # "broken" => k + InHand + Len(net) = sent

\* Without a peek they are in order.
InOrder(k) ==
    /\ putBack = {}
    /\ Len(got) + Len(chunks) = k
    /\ \A i \in 1..Len(got) : got[i] = i
    /\ \A i \in 1..Len(chunks) : chunks[i] = Len(got) + i

Numbered(k) ==
    /\ k <= sent /\ Added = 1..k
    /\ ~chanClosed => OnTheirWay(k)
    /\ closedBy = "reader" /\ body = "eof" => k = sent
    /\ peeks = 0 => InOrder(k)

ChatInv == ChatTypes /\ BloxInv /\ ReaderInv /\ BufferInv /\ \E k \in Nat : Numbered(k)

-----------------------------------------------------------------------------
(* Frames: what a step leaves alone.                                       *)

LEMMA BufferFrame ==
  ASSUME UNCHANGED <<chunks, putBack, got, closedBy, completed>>
  PROVE  /\ BufferInv => BufferInv'
         /\ Added' = Added /\ chanClosed' = chanClosed
         /\ \A k \in Nat : peeks' = peeks => InOrder(k)' = InOrder(k)
  BY DEF BufferInv, Added, Pending, chanClosed, InOrder

(* The numbers, when the step leaves the buffer alone.                     *)
LEMMA NumbersFrame ==
  ASSUME UNCHANGED <<chunks, putBack, got, closedBy, completed, peeks>>,
         NEW k \in Nat, Numbered(k), sent \in Nat, sent' \in Nat, sent <= sent',
         ~chanClosed => OnTheirWay(k)',
         closedBy = "reader" /\ body' = "eof" => k = sent'
  PROVE  \E m \in Nat : Numbered(m)'
  <1>1. Added' = Added /\ chanClosed' = chanClosed /\ InOrder(k)' = InOrder(k)
    BY BufferFrame
  <1>2. k <= sent'
    BY DEF Numbered
  <1>3. Numbered(k)'
    BY <1>1, <1>2 DEF Numbered
  <1> QED
    BY <1>3

(* A line is sent.                                                         *)
LEMMA SendFacts ==
  ASSUME ChatTypes, NEW json \in BOOLEAN, Send(json)
  PROVE  /\ sent' = sent + 1 /\ net' \in Seq(Lines)
         /\ body = "broken" => net' = net
         /\ body # "broken" =>
              /\ Len(net') = Len(net) + 1
              /\ net'[Len(net) + 1].n = sent + 1 /\ net'[Len(net) + 1].json = json
              /\ \A i \in 1..Len(net) : net'[i] = net[i]
  <1>1. sent' = sent + 1
    BY DEF Send
  <1>2. Line(sent + 1, json) \in Lines
    BY DEF ChatTypes, Line, Lines
  <1>3. Line(sent + 1, json).n = sent + 1 /\ Line(sent + 1, json).json = json
    BY DEF Line
  <1>4. net \in Seq(Lines)
    BY DEF ChatTypes
  <1>5. CASE body = "broken"
    BY <1>1, <1>4, <1>5 DEF Send
  <1>6. CASE body # "broken"
    <2>1. net' = Append(net, Line(sent + 1, json))
      BY <1>6 DEF Send
    <2>2. /\ net' \in Seq(Lines) /\ Len(net') = Len(net) + 1
          /\ \A i \in 1..Len(net) : net'[i] = net[i]
          /\ net'[Len(net) + 1] = Line(sent + 1, json)
      BY <1>2, <1>4, <2>1, AppendProperties
    <2> QED
      BY <1>1, <1>3, <1>6, <2>2
  <1> QED
    BY <1>5, <1>6

-----------------------------------------------------------------------------
(* The steps of the blox.                                                  *)

LEMMA FetchKeeps == ASSUME ChatInv, FetchAIResponse PROVE ChatInv'
  <1>1. /\ ChatTypes /\ BloxInv /\ ReaderInv /\ BufferInv
        /\ UNCHANGED <<chunks, putBack, got, closedBy, completed, peeks, holding, accum, locked,
                       aiLines>>
        /\ reading' = "read" /\ handler = "start"
    BY DEF ChatInv, FetchAIResponse, bufVars
  <1>2. /\ sent = 0 /\ aiLines = 0 /\ net = <<>> /\ reading = "none" /\ body = "open"
        /\ holding = 0 /\ accum = 0 /\ closedBy # "reader"
    BY <1>1 DEF BloxInv, ReaderInv
  <1>3. PICK k \in Nat : Numbered(k)
    BY DEF ChatInv
  <1>4. BufferInv'
    BY <1>1, BufferFrame
  <1>5. CASE handler' = "stream" /\ fetcher' = "read" /\ UNCHANGED <<sent, net, body>>
    <2>1. ChatTypes'
      BY <1>1, <1>5 DEF ChatTypes
    <2>2. BloxInv'
      BY <1>1, <1>2, <1>5, ChatAssumption DEF BloxInv
    <2>3. ReaderInv'
      BY <1>1, <1>2, <1>5 DEF ReaderInv
    <2>4. ~chanClosed => OnTheirWay(k)'
      BY <1>1, <1>3, <1>5 DEF Numbered, OnTheirWay, InHand
    <2>5. \E m \in Nat : Numbered(m)'
      BY <1>1, <1>2, <1>3, <1>5, <2>4, NumbersFrame DEF ChatTypes
    <2> QED
      BY <1>4, <2>1, <2>2, <2>3, <2>5 DEF ChatInv
  <1>6. CASE handler' = "done" /\ Send(FALSE) /\ body' = "eof"
    <2>0. Len(net) = 0
      BY <1>2, EmptySeq
    <2>1. /\ sent' = 1 /\ net' \in Seq(Lines) /\ Len(net') = 1
          /\ net'[1].n = 1 /\ net'[1].json = FALSE
      <3>1. /\ sent' = sent + 1 /\ net' \in Seq(Lines)
            /\ Len(net') = Len(net) + 1
            /\ net'[Len(net) + 1].n = sent + 1 /\ net'[Len(net) + 1].json = FALSE
        BY <1>1, <1>2, <1>6, SendFacts, Zenon
      <3> QED
        BY <1>2, <2>0, <3>1
    <2>2. ChatTypes'
      BY <1>1, <1>6, <2>1 DEF ChatTypes
    <2>3. BloxInv'
      BY <1>1, <1>2, <1>6, <2>1, ChatAssumption DEF BloxInv
    <2>4. ReaderInv'
      BY <1>1, <1>2, <1>6 DEF ReaderInv
    <2>5. k = 0
      BY <1>2, <1>3 DEF Numbered
    <2>6. OnTheirWay(k)'
      BY <1>1, <1>2, <1>6, <2>1, <2>5 DEF OnTheirWay, InHand
    <2>7. \E m \in Nat : Numbered(m)'
      BY <1>1, <1>2, <1>3, <2>1, <2>6, NumbersFrame DEF ChatTypes
    <2> QED
      BY <1>4, <2>2, <2>3, <2>4, <2>7 DEF ChatInv
  <1> QED
    BY <1>5, <1>6, Zenon DEF FetchAIResponse

(* The steps that only change what the blox has read, or end the response. *)
LEMMA BloxEndsKeeps ==
  ASSUME ChatInv, ChatRefused \/ FetcherReads \/ HandlerEnds PROVE ChatInv'
  <1>1. /\ ChatTypes /\ BloxInv /\ ReaderInv /\ BufferInv
        /\ UNCHANGED <<chunks, putBack, got, closedBy, completed, peeks, holding, accum, locked,
                       sent, net, reading>>
    BY DEF ChatInv, ChatRefused, FetcherReads, HandlerEnds, bufVars, appVars
  <1>2. PICK k \in Nat : Numbered(k)
    BY DEF ChatInv
  <1>3. BufferInv'
    BY <1>1, BufferFrame
  <1>4. ChatTypes'
    BY <1>1, ChatAssumption DEF ChatTypes, ChatRefused, FetcherReads, HandlerEnds
  <1>5. BloxInv'
    <2>1. CASE ChatRefused
      BY <1>1, <2>1 DEF ChatTypes, BloxInv, ChatRefused
    <2>2. CASE FetcherReads /\ fetcher' = "closed"
      BY <1>1, <2>2 DEF ChatTypes, BloxInv, FetcherReads
    <2>3. CASE FetcherReads /\ fetcher' = "send"
      <3>1. /\ aiLines < MaxLines /\ aiLines' = aiLines + 1 /\ fetcher = "read"
            /\ UNCHANGED <<handler, body>>
        BY <2>3 DEF FetcherReads
      <3>2. handler = "stream" => sent' + 1 <= aiLines'
        BY <1>1, <3>1 DEF ChatTypes, BloxInv
      <3>3. aiLines' <= MaxLines
        BY <1>1, <3>1, ChatAssumption DEF ChatTypes
      <3>4. handler # "start"
        BY <1>1, <2>3 DEF BloxInv, FetcherReads
      <3> QED
        BY <1>1, <2>3, <3>1, <3>2, <3>3, <3>4 DEF BloxInv
    <2>4. CASE HandlerEnds
      BY <1>1, <2>4 DEF ChatTypes, BloxInv, HandlerEnds
    <2> QED
      BY <2>1, <2>2, <2>3, <2>4 DEF FetcherReads
  <1>6. /\ handler' = "done" \/ handler' = handler
        /\ body' # "open" \/ body' = body
        /\ body # "open" => body' = body
        /\ body' = "broken" <=> body = "broken"
    BY <1>1 DEF ChatRefused, FetcherReads, HandlerEnds, BloxInv
  <1>7. ReaderInv'
    BY <1>1, <1>6 DEF ReaderInv
  <1>8. ~chanClosed => OnTheirWay(k)'
    BY <1>1, <1>2, <1>6 DEF Numbered, OnTheirWay, InHand
  <1>9. closedBy = "reader" => body' = body
    BY <1>1, <1>6 DEF ReaderInv
  <1>10. \E m \in Nat : Numbered(m)'
    <2>1. closedBy = "reader" /\ body' = "eof" => k = sent'
      BY <1>1, <1>2, <1>9 DEF Numbered
    <2>2. sent \in Nat /\ sent' \in Nat /\ sent <= sent'
      BY <1>1 DEF ChatTypes
    <2> QED
      BY <1>1, <1>2, <1>8, <2>1, <2>2, NumbersFrame
  <1> QED
    BY <1>3, <1>4, <1>5, <1>7, <1>10 DEF ChatInv

LEMMA HandlerTakesKeeps == ASSUME ChatInv, HandlerTakes PROVE ChatInv'
  <1>1. /\ ChatTypes /\ BloxInv /\ ReaderInv /\ BufferInv
        /\ UNCHANGED <<chunks, putBack, got, closedBy, completed, peeks, holding, accum, locked,
                       aiLines, reading, body>>
        /\ handler = "stream" /\ fetcher = "send" /\ fetcher' = "read"
    BY Zenon DEF ChatInv, HandlerTakes, bufVars, appVars
  <1>2. PICK k \in Nat : Numbered(k)
    BY DEF ChatInv
  <1>3. BufferInv'
    BY <1>1, BufferFrame
  <1>4. /\ sent \in Nat /\ aiLines \in Nat /\ sent + 1 <= aiLines /\ aiLines <= MaxLines
        /\ body # "eof" /\ \A i \in 1..Len(net) : net[i].json # FALSE
    BY <1>1, Zenon DEF ChatTypes, BloxInv
  <1>5. CASE UNCHANGED <<sent, net>> /\ (handler' = handler \/ handler' = "done")
    <2>1. ChatTypes'
      BY <1>1, <1>5 DEF ChatTypes
    <2>2. BloxInv'
      BY <1>1, <1>4, <1>5, ChatAssumption DEF BloxInv
    <2>3. ReaderInv'
      BY <1>1, <1>5 DEF ReaderInv
    <2>4. ~chanClosed => OnTheirWay(k)'
      BY <1>1, <1>2, <1>5 DEF Numbered, OnTheirWay, InHand
    <2>5. \E m \in Nat : Numbered(m)'
      BY <1>1, <1>2, <1>4, <1>5, <2>4, NumbersFrame DEF Numbered
    <2> QED
      BY <1>3, <2>1, <2>2, <2>3, <2>5 DEF ChatInv
  <1>6. CASE Send(TRUE) /\ handler' = handler
    <2>1. /\ sent' = sent + 1 /\ net' \in Seq(Lines)
          /\ body = "broken" => net' = net
          /\ body # "broken" =>
               /\ Len(net') = Len(net) + 1
               /\ net'[Len(net) + 1].n = sent + 1 /\ net'[Len(net) + 1].json = TRUE
               /\ \A i \in 1..Len(net) : net'[i] = net[i]
      BY <1>1, <1>6, SendFacts, Zenon
    <2>2. Len(net) \in Nat /\ \A i \in 1..(Len(net) + 1) : i \in 1..Len(net) \/ i = Len(net) + 1
      BY <1>1, LenProperties DEF ChatTypes
    <2>3. ChatTypes'
      BY <1>1, <2>1 DEF ChatTypes
    <2>4. \A i \in 1..Len(net') : net'[i].json # FALSE
      BY <1>4, <2>1, <2>2, Zenon
    <2>5. sent' <= aiLines' /\ sent' <= MaxLines + 1 /\ aiLines' <= MaxLines
      BY <1>1, <1>4, <2>1, ChatAssumption
    <2>6. BloxInv'
      <3>1. handler' = "stream" /\ fetcher' = "read" /\ body' # "eof" /\ sent' + 0 <= aiLines'
        BY <1>1, <1>4, <1>6, <2>1, <2>5
      <3> QED
        BY <2>4, <2>5, <3>1, Zenon DEF BloxInv
    <2>7. accum = 0 /\ (reading \notin {"addLast", "close", "done"} \/ net' = net)
      <3>1. body \in {"open", "broken"} /\ (body = "broken" => net' = net)
        BY <1>1, <1>4, <2>1 DEF ChatTypes
      <3> QED
        BY <1>1, <3>1 DEF ReaderInv
    <2>8. ReaderInv'
      BY <1>1, <1>6, <2>7 DEF ReaderInv
    <2>9. ~chanClosed => OnTheirWay(k)'
      <3>1. SUFFICES ASSUME ~chanClosed PROVE OnTheirWay(k)'
        OBVIOUS
      <3>2. OnTheirWay(k) /\ InHand' = InHand /\ InHand \in Nat
        BY <1>1, <1>2, <3>1 DEF Numbered, InHand
      <3>3. CASE body = "broken"
        BY <1>1, <1>4, <2>1, <2>2, <3>2, <3>3 DEF OnTheirWay
      <3>4. CASE body # "broken"
        <4>1. k + InHand + Len(net) = sent
          BY <3>2, <3>4 DEF OnTheirWay
        <4>2. \A i \in 1..Len(net) : net'[i].n = k + InHand + i
          BY <2>1, <3>2, <3>4 DEF OnTheirWay
        <4>3. net'[Len(net) + 1].n = k + InHand + (Len(net) + 1)
          BY <2>1, <2>2, <3>2, <3>4, <4>1
        <4>4. \A i \in 1..Len(net') : net'[i].n = k + InHand + i
          BY <2>1, <2>2, <3>4, <4>2, <4>3
        <4>5. k + InHand + Len(net') = sent'
          BY <2>1, <2>2, <3>2, <3>4, <4>1
        <4> QED
          BY <1>1, <1>4, <2>1, <3>2, <4>4, <4>5 DEF OnTheirWay
      <3> QED
        BY <3>3, <3>4
    <2>10. \E m \in Nat : Numbered(m)'
      BY <1>1, <1>2, <1>4, <2>1, <2>9, NumbersFrame
    <2> QED
      BY <1>3, <2>3, <2>6, <2>8, <2>10 DEF ChatInv
  <1> QED
    BY <1>5, <1>6, Zenon DEF HandlerTakes

LEMMA ConnectionBreaksKeeps == ASSUME ChatInv, ConnectionBreaks PROVE ChatInv'
  <1>1. /\ ChatTypes /\ BloxInv /\ ReaderInv /\ BufferInv
        /\ UNCHANGED <<chunks, putBack, got, closedBy, completed, peeks, holding, accum, locked,
                       aiLines, reading, sent, handler, fetcher>>
        /\ net' = <<>> /\ body = "open" /\ body' = "broken" /\ handler = "stream"
    BY DEF ChatInv, ConnectionBreaks, bufVars, appVars, netVars
  <1>2. PICK k \in Nat : Numbered(k)
    BY DEF ChatInv
  <1>3. BufferInv'
    BY <1>1, BufferFrame
  <1>4. Len(net') = 0 /\ net' \in Seq(Lines) /\ Len(net) \in Nat /\ sent \in Nat
    BY <1>1, EmptySeq, LenProperties DEF ChatTypes
  <1>5. ChatTypes' /\ BloxInv' /\ ReaderInv'
    BY <1>1, <1>4 DEF ChatTypes, BloxInv, ReaderInv
  <1>6. ~chanClosed => OnTheirWay(k)'
    <2>1. InHand' = InHand /\ InHand \in Nat
      BY <1>1 DEF InHand
    <2> QED
      BY <1>1, <1>2, <1>4, <2>1 DEF Numbered, OnTheirWay
  <1>7. \E m \in Nat : Numbered(m)'
    BY <1>1, <1>2, <1>4, <1>6, NumbersFrame
  <1> QED
    BY <1>3, <1>5, <1>7 DEF ChatInv

-----------------------------------------------------------------------------
(* The steps of the goroutine that reads the stream.                       *)

LEMMA ReadFacts ==
  ASSUME ChatInv, ReadBytes
  PROVE  /\ UNCHANGED <<chunks, putBack, got, closedBy, completed, peeks, locked, sent, aiLines,
                        handler, fetcher, body>>
         /\ holding = 0 /\ ~locked /\ closedBy # "reader" /\ handler # "start"
         /\ reading = "read" /\ (accum # 0 => net = <<>> /\ handler = "done")
  <1>1. UNCHANGED <<chunks, putBack, got, closedBy, completed, peeks, locked, sent, aiLines,
                    handler, fetcher, body>>
    BY DEF ReadBytes, netVars, bufVars, appVars
  <1>2. reading = "read"
    BY DEF ReadBytes
  <1> QED
    BY <1>1, <1>2 DEF ChatInv, ReaderInv, BloxInv

LEMMA ReadLineKeeps ==
  ASSUME ChatInv, ReadBytes, net # <<>>
  PROVE  ChatInv'
  <1>1. /\ ChatTypes /\ BloxInv /\ ReaderInv /\ BufferInv
        /\ UNCHANGED <<chunks, putBack, got, closedBy, completed, peeks, locked, sent, aiLines,
                       handler, fetcher, body>>
        /\ holding = 0 /\ ~locked /\ closedBy # "reader" /\ handler # "start"
        /\ reading = "read" /\ accum = 0
    BY ReadFacts DEF ChatInv
  <1>2. PICK k \in Nat : Numbered(k)
    BY DEF ChatInv
  <1>3. BufferInv'
    BY <1>1, BufferFrame
  <1>4. /\ net \in Seq(Lines) /\ Len(net) \in Nat \ {0} /\ net' = Tail(net)
        /\ Head(net) = net[1] /\ Head(net) \in Lines
        /\ net' \in Seq(Lines) /\ Len(net') = Len(net) - 1
        /\ \A i \in 1..Len(net') : net'[i] = net[i + 1]
    <2>1. net \in Seq(Lines) /\ net' = Tail(net)
      BY <1>1 DEF ChatTypes, ReadBytes
    <2>2. Len(net) \in Nat /\ Len(net) # 0
      BY <2>1, LenProperties, EmptySeq
    <2> QED
      BY <2>1, <2>2, HeadTailProperties
  <1>5. /\ Head(net).n \in Nat \ {0} /\ Head(net).json \in BOOLEAN
        /\ \A i \in 1..Len(net') : i + 1 \in 1..Len(net)
        /\ 1 \in 1..Len(net)
    BY <1>4 DEF Lines
  <1>6. \A i \in 1..Len(net') : net'[i].json = FALSE => FALSE
    BY <1>1, <1>4, <1>5 DEF BloxInv
  <1>7. BloxInv'
    BY <1>1, <1>6 DEF BloxInv
  <1>8. ~chanClosed => /\ Head(net).n = k + 1
                       /\ \A i \in 1..Len(net') : net'[i].n = k + 1 + i
                       /\ k + 1 + Len(net') <= sent
                       /\ body # "broken" => k + 1 + Len(net') = sent
    <2>1. InHand = 0
      BY <1>1 DEF InHand
    <2>2. SUFFICES ASSUME ~chanClosed, OnTheirWay(k)
                   PROVE  /\ Head(net).n = k + 1
                          /\ \A i \in 1..Len(net') : net'[i].n = k + 1 + i
                          /\ k + 1 + Len(net') <= sent
                          /\ body # "broken" => k + 1 + Len(net') = sent
      BY <1>2 DEF Numbered
    <2>3. \A i \in 1..Len(net) : net[i].n = k + i
      BY <2>1, <2>2 DEF OnTheirWay
    <2>4. k + Len(net) <= sent /\ (body # "broken" => k + Len(net) = sent)
      BY <1>4, <2>1, <2>2 DEF OnTheirWay
    <2>5. \A i \in 1..Len(net') : net'[i].n = k + 1 + i
      <3>1. \A i \in 1..Len(net') : net'[i].n = k + (i + 1)
        BY <1>4, <1>5, <2>3
      <3>2. \A i \in 1..Len(net') : k + (i + 1) = k + 1 + i
        BY <1>4
      <3> QED
        BY <3>1, <3>2
    <2> QED
      BY <1>4, <1>5, <2>3, <2>4, <2>5
  <1>9. CASE Head(net).json
    <2>1. reading' = "add" /\ holding' = Head(net).n /\ accum' = 0
      BY <1>1, <1>9 DEF ReadBytes
    <2>2. ChatTypes'
      BY <1>1, <1>4, <1>5, <2>1 DEF ChatTypes
    <2>3. ReaderInv'
      BY <1>1, <1>5, <2>1 DEF ReaderInv
    <2>4. InHand' = 1
      BY <1>5, <2>1 DEF InHand
    <2>5. ~chanClosed => OnTheirWay(k)'
      BY <1>1, <1>8, <2>1, <2>4 DEF OnTheirWay
    <2>6. \E m \in Nat : Numbered(m)'
      BY <1>1, <1>2, <2>5, NumbersFrame DEF ChatTypes
    <2> QED
      BY <1>3, <1>7, <2>2, <2>3, <2>6 DEF ChatInv
  <1>10. CASE ~Head(net).json
    <2>1. reading' = "read" /\ holding' = 0 /\ accum' = Head(net).n
      BY <1>1, <1>10 DEF ReadBytes
    <2>2. Len(net) = 1 /\ handler = "done"
      BY <1>1, <1>4, <1>5, <1>10 DEF BloxInv
    <2>3. net' = <<>>
      BY <1>4, <2>2, EmptySeq
    <2>4. ChatTypes'
      BY <1>1, <1>4, <1>5, <2>1 DEF ChatTypes
    <2>5. ReaderInv'
      BY <1>1, <2>1, <2>2, <2>3 DEF ReaderInv
    <2>6. InHand' = 1
      BY <1>5, <2>1 DEF InHand
    <2>7. ~chanClosed => OnTheirWay(k)'
      BY <1>1, <1>8, <2>1, <2>6 DEF OnTheirWay
    <2>8. \E m \in Nat : Numbered(m)'
      BY <1>1, <1>2, <2>7, NumbersFrame DEF ChatTypes
    <2> QED
      BY <1>3, <1>7, <2>4, <2>5, <2>8 DEF ChatInv
  <1> QED
    BY <1>9, <1>10

LEMMA ReadEndKeeps ==
  ASSUME ChatInv, ReadBytes, net = <<>>
  PROVE  ChatInv'
  <1>1. /\ ChatTypes /\ BloxInv /\ ReaderInv /\ BufferInv
        /\ UNCHANGED <<chunks, putBack, got, closedBy, completed, peeks, locked, sent, aiLines,
                       handler, fetcher, body>>
        /\ holding = 0 /\ ~locked /\ closedBy # "reader" /\ handler # "start"
        /\ reading = "read"
    BY ReadFacts DEF ChatInv
  <1>2. PICK k \in Nat : Numbered(k)
    BY DEF ChatInv
  <1>3. BufferInv'
    BY <1>1, BufferFrame
  <1>4. /\ net' = net /\ accum' = 0 /\ body # "open"
        /\ \/ body = "eof" /\ accum # 0 /\ reading' = "addLast" /\ holding' = accum
           \/ body = "eof" /\ accum = 0 /\ reading' = "close" /\ holding' = 0
           \/ body = "broken" /\ reading' = "close" /\ holding' = 0
    BY <1>1 DEF ReadBytes
  <1>5. ChatTypes'
    BY <1>1, <1>4 DEF ChatTypes
  <1>6. BloxInv'
    BY <1>1, <1>4 DEF BloxInv
  <1>7. ReaderInv'
    BY <1>1, <1>4 DEF ReaderInv
  <1>8. Len(net) = 0
    BY EmptySeq
  <1>9. ~chanClosed => OnTheirWay(k)'
    <2>1. InHand \in {0, 1} /\ InHand' \in {0, 1}
      BY DEF InHand
    <2>2. body = "eof" => InHand' = InHand
      BY <1>1, <1>4 DEF InHand
    <2>3. body = "broken" => InHand' = 0
      BY <1>1, <1>4 DEF InHand
    <2> QED
      <3>1. SUFFICES ASSUME OnTheirWay(k) PROVE OnTheirWay(k)'
        BY <1>2 DEF Numbered
      <3>2. /\ sent' = sent /\ sent \in Nat /\ net' = net /\ accum' = 0 /\ body' = body
            /\ k + InHand + 0 <= sent
            /\ body # "broken" => k + InHand + 0 = sent
        BY <1>1, <1>4, <1>8, <3>1 DEF ChatTypes, OnTheirWay
      <3>3. holding' # 0 => holding' = k + 1
        BY <1>4, <3>1 DEF OnTheirWay
      <3>4. CASE body = "eof"
        BY <1>8, <2>1, <2>2, <3>2, <3>3, <3>4 DEF OnTheirWay
      <3>5. CASE body = "broken"
        BY <1>8, <2>1, <2>3, <3>2, <3>3, <3>5 DEF OnTheirWay
      <3> QED
        BY <1>4, <3>4, <3>5
  <1>10. \E m \in Nat : Numbered(m)'
    BY <1>1, <1>2, <1>9, NumbersFrame DEF ChatTypes
  <1> QED
    BY <1>3, <1>5, <1>6, <1>7, <1>10 DEF ChatInv

LEMMA LockKeeps == ASSUME ChatInv, LockMu PROVE ChatInv'
  <1>1. /\ ChatTypes /\ BloxInv /\ ReaderInv /\ BufferInv
        /\ UNCHANGED <<chunks, putBack, got, closedBy, completed, peeks, sent, aiLines, net,
                       handler, fetcher, body, reading, holding, accum>>
        /\ reading \in {"add", "addLast"}
    BY DEF ChatInv, LockMu, netVars, bufVars, appVars
  <1>2. PICK k \in Nat : Numbered(k)
    BY DEF ChatInv
  <1>3. BufferInv'
    BY <1>1, BufferFrame
  <1>4. ChatTypes' /\ BloxInv' /\ ReaderInv'
    BY <1>1 DEF ChatTypes, BloxInv, ReaderInv
  <1>5. ~chanClosed => OnTheirWay(k)'
    BY <1>1, <1>2 DEF Numbered, OnTheirWay, InHand
  <1>6. \E m \in Nat : Numbered(m)'
    BY <1>1, <1>2, <1>5, NumbersFrame DEF Numbered, ChatTypes
  <1> QED
    BY <1>3, <1>4, <1>6 DEF ChatInv

\* What AddChunk finds and leaves, apart from the channel.
LEMMA AddFacts ==
  ASSUME ChatInv, AddChunk
  PROVE  /\ UNCHANGED <<putBack, got, closedBy, completed, peeks, sent, aiLines, net,
                        handler, fetcher, body, accum>>
         /\ ~locked' /\ holding # 0 /\ holding' = 0 /\ closedBy # "reader"
         /\ accum = 0 /\ BloxInv' /\ ReaderInv'
  <1>1. /\ UNCHANGED <<putBack, got, closedBy, completed, peeks, sent, aiLines, net,
                       handler, fetcher, body, accum>>
        /\ locked /\ ~locked' /\ holding' = 0
        /\ reading' = IF reading = "add" THEN "read" ELSE "close"
    BY DEF AddChunk, netVars, appVars
  <1>2. /\ holding # 0 /\ closedBy # "reader" /\ accum = 0
        /\ reading = "addLast" => net = <<>> /\ body # "open"
        /\ reading \in {"add", "addLast"}
    BY <1>1 DEF ChatInv, ReaderInv
  <1>3. handler # "start"
    BY <1>2 DEF ChatInv, BloxInv
  <1>4. BloxInv'
    BY <1>1, <1>3 DEF ChatInv, BloxInv
  <1>5. ReaderInv'
    BY <1>1, <1>2 DEF ReaderInv
  <1> QED
    BY <1>1, <1>2, <1>4, <1>5

LEMMA AddToClosedKeeps == ASSUME ChatInv, AddChunk, chanClosed PROVE ChatInv'
  <1>1. /\ UNCHANGED <<chunks, putBack, got, closedBy, completed, peeks, sent, aiLines, net,
                       handler, fetcher, body, accum>>
        /\ holding' = 0 /\ closedBy # "reader" /\ BloxInv' /\ ReaderInv'
        /\ ChatTypes /\ BufferInv
    BY AddFacts, Zenon DEF AddChunk, ChatInv
  <1>2. PICK k \in Nat : Numbered(k)
    BY DEF ChatInv
  <1>3. BufferInv'
    BY <1>1, BufferFrame
  <1>4. ChatTypes'
    BY <1>1 DEF ChatTypes
  <1>5. \E m \in Nat : Numbered(m)'
    BY <1>1, <1>2, NumbersFrame DEF ChatTypes
  <1> QED
    BY <1>1, <1>3, <1>4, <1>5 DEF ChatInv

\* The chunk that is added is the next one, and no place has it yet.
LEMMA AddToOpenFacts ==
  ASSUME ChatInv, AddChunk, ~chanClosed, NEW k \in Nat, Numbered(k)
  PROVE  /\ holding = k + 1 /\ k + 1 <= sent
         /\ chunks' = Append(chunks, k + 1) /\ chunks' \in Seq(Nat)
         /\ Range(chunks') = Range(chunks) \cup {k + 1}
         /\ k + 1 \notin Range(got) \cup Range(chunks) \cup putBack
         /\ Pending' = Pending \cup {k + 1}
  <1>1. holding # 0 /\ accum = 0 /\ UNCHANGED putBack
    BY AddFacts
  <1>2. OnTheirWay(k)
    BY DEF Numbered
  <1>3. holding = k + 1
    BY <1>1, <1>2 DEF OnTheirWay
  <1>4. k + 1 <= sent
    <2>1. InHand = 1
      BY <1>1 DEF InHand
    <2>2. Len(net) \in Nat /\ sent \in Nat
      BY LenProperties DEF ChatInv, ChatTypes
    <2>3. k + InHand + Len(net) <= sent
      BY <1>2 DEF OnTheirWay
    <2> QED
      BY <2>1, <2>2, <2>3
  <1>5. chunks \in Seq(Nat) /\ k + 1 \in Nat
    BY DEF ChatInv, ChatTypes
  <1>6. chunks' = Append(chunks, k + 1)
    BY <1>3 DEF AddChunk
  <1>7. chunks' \in Seq(Nat)
    BY <1>5, <1>6, AppendProperties
  <1>8. Range(chunks') = Range(chunks) \cup {k + 1}
    BY <1>5, <1>6, RangeAppend
  <1>9. k + 1 \notin Range(got) \cup Range(chunks) \cup putBack
    <2>1. k + 1 \notin 1..k /\ k + 1 # 0
      OBVIOUS
    <2> QED
      BY <2>1 DEF Numbered, Added, Pending
  <1>10. Pending' = Pending \cup {k + 1}
    BY <1>1, <1>8 DEF Pending
  <1> QED
    BY <1>3, <1>4, <1>6, <1>7, <1>8, <1>9, <1>10

LEMMA AddToOpenKeeps == ASSUME ChatInv, AddChunk, ~chanClosed PROVE ChatInv'
  <1>1. /\ UNCHANGED <<putBack, got, closedBy, completed, peeks, sent, aiLines, net,
                       handler, fetcher, body, accum>>
        /\ holding # 0 /\ holding' = 0 /\ accum = 0 /\ BloxInv' /\ ReaderInv'
        /\ ChatTypes /\ BufferInv
    BY AddFacts DEF ChatInv
  <1>2. PICK k \in Nat : Numbered(k)
    BY DEF ChatInv
  <1>3. /\ holding = k + 1 /\ k + 1 <= sent
        /\ chunks' = Append(chunks, k + 1) /\ chunks' \in Seq(Nat)
        /\ Range(chunks') = Range(chunks) \cup {k + 1}
        /\ k + 1 \notin Range(got) \cup Range(chunks) \cup putBack
        /\ Pending' = Pending \cup {k + 1}
    BY <1>2, AddToOpenFacts
  <1>4. chunks \in Seq(Nat) /\ k + 1 \in Nat /\ ~chanClosed'
    BY <1>1 DEF ChatTypes, chanClosed
  <1>5. ChatTypes'
    BY <1>1, <1>3 DEF ChatTypes
  <1>6. BufferInv'
    <2>1. Injective(chunks')
      BY <1>1, <1>3, <1>4, InjectiveAppend DEF BufferInv
    <2>2. ~completed
      BY <1>1 DEF BufferInv
    <2> QED
      BY <1>1, <1>3, <1>4, <2>1, <2>2 DEF BufferInv
  <1>7. Added' = 1..(k + 1)
    <2>1. Added = 1..k
      BY <1>2 DEF Numbered
    <2>2. Added' = Added \cup {k + 1}
      BY <1>1, <1>3 DEF Added
    <2>3. 1..(k + 1) = (1..k) \cup {k + 1}
      OBVIOUS
    <2> QED
      BY <2>1, <2>2, <2>3
  <1>8. OnTheirWay(k + 1)'
    <2>1. InHand = 1 /\ InHand' = 0
      BY <1>1 DEF InHand
    <2>2. OnTheirWay(k)
      BY <1>2 DEF Numbered
    <2>3. Len(net) \in Nat /\ sent \in Nat
      BY <1>1, LenProperties DEF ChatTypes
    <2>4. \A i \in 1..Len(net) : net[i].n = k + 1 + 0 + i
      <3>1. \A i \in 1..Len(net) : net[i].n = k + 1 + i
        BY <2>1, <2>2 DEF OnTheirWay
      <3>2. \A i \in 1..Len(net) : k + 1 + 0 + i = k + 1 + i
        BY <2>3
      <3> QED
        BY <3>1, <3>2
    <2>5. /\ k + 1 + 0 + Len(net) <= sent
          /\ body # "broken" => k + 1 + 0 + Len(net) = sent
      BY <2>1, <2>2, <2>3 DEF OnTheirWay
    <2> QED
      BY <1>1, <2>1, <2>4, <2>5 DEF OnTheirWay
  <1>9. peeks = 0 => InOrder(k + 1)'
    <2>1. SUFFICES ASSUME InOrder(k) PROVE InOrder(k + 1)'
      BY <1>2 DEF Numbered
    <2>2. /\ Len(chunks') = Len(chunks) + 1 /\ chunks'[Len(chunks) + 1] = k + 1
          /\ \A i \in 1..Len(chunks) : chunks'[i] = chunks[i]
      BY <1>3, <1>4, AppendProperties
    <2>3. Len(chunks) \in Nat /\ Len(got) \in Nat
      BY <1>1, LenProperties DEF ChatTypes
    <2>4. \A i \in 1..(Len(chunks) + 1) : i \in 1..Len(chunks) \/ i = Len(chunks) + 1
      BY <2>3
    <2>5. Len(got) + (Len(chunks) + 1) = k + 1
      <3>1. Len(got) + Len(chunks) = k
        BY <2>1 DEF InOrder
      <3> QED
        BY <2>3, <3>1
    <2>6. \A i \in 1..Len(chunks') : chunks'[i] = Len(got) + i
      BY <2>1, <2>2, <2>4, <2>5, Zenon DEF InOrder
    <2> QED
      BY <1>1, <2>1, <2>2, <2>5, <2>6 DEF InOrder
  <1>10. Numbered(k + 1)'
    BY <1>1, <1>3, <1>4, <1>7, <1>8, <1>9 DEF Numbered, chanClosed
  <1> QED
    BY <1>1, <1>4, <1>5, <1>6, <1>10 DEF ChatInv

LEMMA ReaderClosesKeeps == ASSUME ChatInv, ReaderCloses PROVE ChatInv'
  <1>1. /\ ChatTypes /\ BloxInv /\ ReaderInv /\ BufferInv
        /\ UNCHANGED <<chunks, putBack, got, completed, peeks, sent, aiLines, net,
                       handler, fetcher, body, holding, accum, locked>>
        /\ reading = "close" /\ reading' = "done"
        /\ closedBy' = IF chanClosed THEN closedBy ELSE "reader"
    BY DEF ChatInv, ReaderCloses, netVars, appVars
  <1>2. PICK k \in Nat : Numbered(k)
    BY DEF ChatInv
  <1>3. /\ holding = 0 /\ accum = 0 /\ net = <<>> /\ body # "open" /\ handler # "start"
        /\ closedBy # "reader" /\ chanClosed'
    BY <1>1 DEF ReaderInv, BloxInv, chanClosed
  <1>4. ChatTypes' /\ BloxInv' /\ ReaderInv'
    BY <1>1, <1>3 DEF ChatTypes, BloxInv, ReaderInv
  <1>5. BufferInv'
    BY <1>1, <1>3 DEF BufferInv
  <1>6. Added' = Added /\ InOrder(k)' = InOrder(k)
    BY <1>1 DEF Added, Pending, InOrder
  <1>7. closedBy' = "reader" /\ body = "eof" => k = sent
    <2>1. SUFFICES ASSUME OnTheirWay(k), body = "eof" PROVE k = sent
      BY <1>1, <1>2, <1>3 DEF Numbered
    <2>2. InHand = 0 /\ Len(net) = 0
      BY <1>3, EmptySeq DEF InHand
    <2> QED
      BY <1>1, <2>1, <2>2 DEF OnTheirWay, ChatTypes
  <1>8. Numbered(k)'
    BY <1>1, <1>2, <1>3, <1>6, <1>7 DEF Numbered
  <1> QED
    BY <1>4, <1>5, <1>8 DEF ChatInv

-----------------------------------------------------------------------------
(* The steps of the application and of its iterator.                       *)

LEMMA AppFrame ==
  ASSUME ChatInv,
         UNCHANGED <<netVars, net, body, reading, holding, accum, locked>>,
         closedBy' = closedBy \/ closedBy' = "app",
         chunks' \in Seq(Nat), got' \in Seq(Nat), putBack' \subseteq Nat, peeks' \in Nat
  PROVE  /\ ChatTypes' /\ BloxInv' /\ ReaderInv'
         /\ \A k \in Nat : OnTheirWay(k)' = OnTheirWay(k)
  <1>1. ChatTypes /\ BloxInv /\ ReaderInv
    BY DEF ChatInv
  <1>2. UNCHANGED <<fetcher, aiLines, handler, sent, net, body, reading, holding, accum, locked>>
    BY DEF netVars
  <1>3. ChatTypes'
    BY <1>1, <1>2 DEF ChatTypes
  <1>4. BloxInv'
    BY <1>1, <1>2 DEF BloxInv
  <1>5. ReaderInv'
    BY <1>1, <1>2 DEF ReaderInv
  <1>6. \A k \in Nat : OnTheirWay(k)' = OnTheirWay(k)
    BY <1>2 DEF OnTheirWay, InHand
  <1> QED
    BY <1>3, <1>4, <1>5, <1>6

\* The numbers, when chunks change places but none is added.
LEMMA NumbersKept ==
  ASSUME NEW k \in Nat, Numbered(k), UNCHANGED <<sent, body>>,
         OnTheirWay(k)' = OnTheirWay(k), Added' = Added,
         closedBy' = closedBy \/ (closedBy = "none" /\ closedBy' = "app"),
         peeks' = 0 => peeks = 0 /\ (InOrder(k) => InOrder(k)')
  PROVE  \E m \in Nat : Numbered(m)'
  <1>1. chanClosed => chanClosed'
    BY DEF chanClosed
  <1>2. k <= sent' /\ Added' = 1..k
    BY DEF Numbered
  <1>3. ~chanClosed' => OnTheirWay(k)'
    BY <1>1 DEF Numbered
  <1>4. closedBy' = "reader" /\ body' = "eof" => k = sent'
    BY DEF Numbered
  <1>5. peeks' = 0 => InOrder(k)'
    BY DEF Numbered
  <1>6. Numbered(k)'
    BY <1>2, <1>3, <1>4, <1>5 DEF Numbered
  <1> QED
    BY <1>6

\* A step that moves no chunk.
LEMMA NoMoveKeeps ==
  ASSUME ChatInv,
         UNCHANGED <<netVars, net, body, reading, holding, accum, locked, chunks, putBack, got,
                     peeks>>,
         closedBy' = closedBy \/ (closedBy = "none" /\ closedBy' = "app"),
         completed' => completed \/ (chunks = <<>> /\ chanClosed)
  PROVE  ChatInv'
  <1>1. ChatTypes /\ BufferInv
    BY DEF ChatInv
  <1>2. PICK k \in Nat : Numbered(k)
    BY DEF ChatInv
  <1>3. chunks' \in Seq(Nat) /\ got' \in Seq(Nat) /\ putBack' \subseteq Nat /\ peeks' \in Nat
    BY <1>1 DEF ChatTypes
  <1>4. ChatTypes' /\ BloxInv' /\ ReaderInv' /\ \A m \in Nat : OnTheirWay(m)' = OnTheirWay(m)
    BY <1>3, AppFrame
  <1>5. chanClosed => chanClosed'
    BY DEF chanClosed
  <1>6. BufferInv'
    BY <1>1, <1>5 DEF BufferInv
  <1>7. Added' = Added /\ InOrder(k)' = InOrder(k) /\ UNCHANGED <<sent, body>>
    BY DEF Added, Pending, InOrder, netVars
  <1>8. \E m \in Nat : Numbered(m)'
    BY <1>2, <1>4, <1>7, NumbersKept
  <1> QED
    BY <1>4, <1>6, <1>8 DEF ChatInv

\* A step that hands the oldest chunk of the channel to the application.
Takes == /\ chunks # <<>> /\ chunks' = Tail(chunks) /\ got' = Append(got, Head(chunks))
         /\ UNCHANGED <<netVars, net, body, reading, holding, accum, locked, closedBy, putBack,
                        completed, peeks>>

LEMMA TakesFacts ==
  ASSUME ChatInv, Takes
  PROVE  /\ Head(chunks) \in Range(chunks) /\ Head(chunks) \in Nat
         /\ chunks' \in Seq(Nat) /\ got' \in Seq(Nat)
         /\ Range(chunks') = Range(chunks) \ {Head(chunks)} /\ Injective(chunks')
         /\ Range(got') = Range(got) \cup {Head(chunks)}
         /\ Head(chunks) \notin putBack
  <1>1. chunks \in Seq(Nat) /\ got \in Seq(Nat) /\ chunks # <<>> /\ Injective(chunks)
    BY DEF ChatInv, ChatTypes, BufferInv, Takes
  <1>2. chunks' = Tail(chunks) /\ got' = Append(got, Head(chunks))
    BY DEF Takes
  <1>3. /\ Head(chunks) \in Nat /\ Tail(chunks) \in Seq(Nat)
        /\ Range(chunks) = Range(Tail(chunks)) \cup {Head(chunks)}
        /\ Head(chunks) \notin Range(Tail(chunks)) /\ Injective(Tail(chunks))
    BY <1>1, RangeTail
  <1>4. got' \in Seq(Nat) /\ Range(got') = Range(got) \cup {Head(chunks)}
    BY <1>1, <1>2, <1>3, RangeAppend, AppendProperties
  <1>5. Head(chunks) \notin putBack
    BY <1>3 DEF ChatInv, BufferInv
  <1> QED
    BY <1>2, <1>3, <1>4, <1>5

LEMMA TakesKeeps == ASSUME ChatInv, Takes PROVE ChatInv'
  <1>1. /\ Head(chunks) \in Range(chunks)
        /\ chunks' \in Seq(Nat) /\ got' \in Seq(Nat)
        /\ Range(chunks') = Range(chunks) \ {Head(chunks)} /\ Injective(chunks')
        /\ Range(got') = Range(got) \cup {Head(chunks)}
        /\ Head(chunks) \notin putBack
    BY TakesFacts
  <1>2. /\ ChatTypes /\ BufferInv /\ chunks # <<>>
        /\ UNCHANGED <<netVars, net, body, reading, holding, accum, locked, closedBy, putBack,
                       completed, peeks>>
    BY DEF ChatInv, Takes
  <1>3. PICK k \in Nat : Numbered(k)
    BY DEF ChatInv
  <1>4. putBack' \subseteq Nat /\ peeks' \in Nat
    BY <1>2 DEF ChatTypes
  <1>5. ChatTypes' /\ BloxInv' /\ ReaderInv' /\ \A m \in Nat : OnTheirWay(m)' = OnTheirWay(m)
    BY <1>1, <1>2, <1>4, AppFrame
  <1>6. BufferInv'
    BY <1>1, <1>2 DEF BufferInv, chanClosed
  <1>7. Added' = Added /\ UNCHANGED <<sent, body>>
    <2>1. Pending' = (Range(chunks) \ {Head(chunks)}) \cup (putBack \ {0})
      BY <1>1, <1>2 DEF Pending
    <2> QED
      BY <1>1, <1>2, <2>1 DEF Added, Pending, netVars
  <1>8. InOrder(k) => InOrder(k)'
    <2>1. SUFFICES ASSUME InOrder(k) PROVE InOrder(k)'
      OBVIOUS
    <2>2. /\ Len(chunks) \in Nat \ {0} /\ Len(got) \in Nat
          /\ Len(chunks') = Len(chunks) - 1
          /\ \A i \in 1..Len(chunks') : chunks'[i] = chunks[i + 1]
          /\ Head(chunks) = chunks[1] /\ Head(chunks) \in Nat
      <3>1. chunks \in Seq(Nat) /\ got \in Seq(Nat) /\ chunks' = Tail(chunks)
        BY <1>2 DEF ChatTypes, Takes
      <3> QED
        BY <1>2, <3>1, RangeTail, LenProperties
    <2>3. /\ Len(got') = Len(got) + 1 /\ got'[Len(got) + 1] = Head(chunks)
          /\ \A i \in 1..Len(got) : got'[i] = got[i]
      <3>1. got' = Append(got, Head(chunks)) /\ got \in Seq(Nat)
        BY <1>2 DEF ChatTypes, Takes
      <3> QED
        BY <2>2, <3>1, AppendProperties
    <2>4. /\ putBack = {} /\ Len(got) + Len(chunks) = k
          /\ \A i \in 1..Len(got) : got[i] = i
          /\ \A i \in 1..Len(chunks) : chunks[i] = Len(got) + i
      BY <2>1 DEF InOrder
    <2>5. Len(got') + Len(chunks') = k
      <3>1. Len(got') = Len(got) + 1 /\ Len(chunks') = Len(chunks) - 1
        BY <2>2, <2>3
      <3>2. Len(got) \in Nat /\ Len(chunks) \in Nat /\ Len(got) + Len(chunks) = k
        BY <2>2, <2>4
      <3> QED
        BY <3>1, <3>2
    <2>6. \A i \in 1..Len(got') : got'[i] = i
      <3>1. \A i \in 1..(Len(got) + 1) : i \in 1..Len(got) \/ i = Len(got) + 1
        BY <2>2
      <3>2. Head(chunks) = Len(got) + 1
        BY <2>2, <2>4
      <3> QED
        BY <2>3, <2>4, <3>1, <3>2
    <2>7. \A i \in 1..Len(chunks') : chunks'[i] = Len(got') + i
      <3>1. \A i \in 1..Len(chunks') : i + 1 \in 1..Len(chunks) /\ Len(got) + (i + 1) = Len(got') + i
        BY <2>2, <2>3
      <3> QED
        BY <2>2, <2>4, <3>1
    <2> QED
      BY <1>2, <2>4, <2>5, <2>6, <2>7 DEF InOrder
  <1>9. \E m \in Nat : Numbered(m)'
    BY <1>2, <1>3, <1>5, <1>7, <1>8, NumbersKept
  <1> QED
    BY <1>5, <1>6, <1>9 DEF ChatInv

\* HasNext takes a chunk, or a zero value from a closed channel.
LEMMA HasNextFacts ==
  ASSUME ChatInv, HasNext
  PROVE  /\ UNCHANGED <<netVars, net, body, reading, holding, accum, locked, closedBy, completed,
                        got>>
         /\ peeks' # 0 /\ peeks' \in Nat /\ ~completed
         /\ chunks' \in Seq(Nat) /\ putBack' \subseteq Nat
         /\ Pending' = Pending /\ BufferInv'
  <1>1. /\ UNCHANGED <<netVars, net, body, reading, holding, accum, locked, closedBy, completed,
                       got>>
        /\ ~completed /\ peeks' = peeks + 1
    BY DEF HasNext
  <1>2. ChatTypes /\ BufferInv
    BY DEF ChatInv
  <1>3. peeks' # 0 /\ peeks' \in Nat
    BY <1>1, <1>2 DEF ChatTypes
  <1>4. CASE chunks # <<>>
    <2>1. chunks' = Tail(chunks) /\ putBack' = putBack \cup {Head(chunks)}
      BY <1>4 DEF HasNext
    <2>2. /\ Head(chunks) \in Nat /\ Tail(chunks) \in Seq(Nat)
          /\ Range(chunks) = Range(Tail(chunks)) \cup {Head(chunks)}
          /\ Head(chunks) \notin Range(Tail(chunks)) /\ Injective(Tail(chunks))
      BY <1>2, <1>4, RangeTail DEF ChatTypes, BufferInv
    <2>3. Head(chunks) # 0
      <3>1. PICK k \in Nat : Numbered(k)
        BY DEF ChatInv
      <3>2. Range(chunks) \subseteq 1..k
        BY <3>1 DEF Numbered, Added, Pending
      <3> QED
        BY <2>2, <3>1, <3>2
    <2>4. Pending' = Pending
      BY <2>1, <2>2, <2>3 DEF Pending
    <2>5. BufferInv'
      BY <1>1, <1>2, <2>1, <2>2, <2>3 DEF BufferInv, chanClosed
    <2> QED
      BY <1>1, <1>2, <1>3, <2>1, <2>2, <2>4, <2>5, Zenon DEF ChatTypes
  <1>5. CASE chunks = <<>>
    <2>1. chanClosed /\ putBack' = putBack \cup {0} /\ chunks' = chunks
      BY <1>5 DEF HasNext
    <2>2. Pending' = Pending
      BY <2>1 DEF Pending
    <2>3. 0 \notin Range(got) /\ 0 \notin Range(chunks)
      <3>1. PICK k \in Nat : Numbered(k)
        BY DEF ChatInv
      <3>2. Range(got) \cup Range(chunks) \subseteq 1..k
        BY <3>1 DEF Numbered, Added, Pending
      <3> QED
        BY <3>1, <3>2
    <2>4. BufferInv'
      BY <1>1, <1>2, <2>1, <2>3 DEF BufferInv, chanClosed
    <2> QED
      BY <1>1, <1>2, <1>3, <2>1, <2>2, <2>4 DEF ChatTypes
  <1> QED
    BY <1>4, <1>5

LEMMA HasNextKeeps == ASSUME ChatInv, HasNext PROVE ChatInv'
  <1>1. /\ UNCHANGED <<netVars, net, body, reading, holding, accum, locked, closedBy, got>>
        /\ peeks' # 0 /\ peeks' \in Nat
        /\ chunks' \in Seq(Nat) /\ putBack' \subseteq Nat /\ got' \in Seq(Nat)
        /\ Pending' = Pending /\ BufferInv'
    BY HasNextFacts DEF ChatInv, ChatTypes
  <1>2. PICK k \in Nat : Numbered(k)
    BY DEF ChatInv
  <1>3. ChatTypes' /\ BloxInv' /\ ReaderInv' /\ \A m \in Nat : OnTheirWay(m)' = OnTheirWay(m)
    BY <1>1, AppFrame
  <1>4. Added' = Added /\ UNCHANGED <<sent, body>>
    BY <1>1 DEF Added, netVars
  <1>5. \E m \in Nat : Numbered(m)'
    BY <1>1, <1>2, <1>3, <1>4, NumbersKept
  <1> QED
    BY <1>1, <1>3, <1>5 DEF ChatInv

\* A goroutine of HasNext puts its chunk back, or panics on the closed channel.
LEMMA SendsBackFacts ==
  ASSUME ChatInv, NEW c \in putBack, SendsBack(c)
  PROVE  /\ UNCHANGED <<netVars, net, body, reading, holding, accum, locked, closedBy, completed,
                        got, peeks>>
         /\ chunks' \in Seq(Nat) /\ putBack' \subseteq Nat
         /\ Pending' = Pending /\ BufferInv' /\ putBack # {}
  <1>1. UNCHANGED <<netVars, net, body, reading, holding, accum, locked, closedBy, completed,
                    got, peeks>>
    BY DEF SendsBack, appVars
  <1>2. ChatTypes /\ BufferInv
    BY DEF ChatInv
  <1>3. CASE UNCHANGED <<chunks, putBack>>
    BY <1>1, <1>2, <1>3, BufferFrame DEF ChatTypes, Pending
  <1>4. CASE ~chanClosed /\ putBack' = putBack \ {c} /\ chunks' = Append(chunks, c)
    <2>1. chunks \in Seq(Nat) /\ c \in Nat /\ putBack \subseteq Nat
      BY <1>2 DEF ChatTypes
    <2>2. c # 0 /\ c \notin Range(chunks) /\ ~completed /\ Injective(chunks)
      BY <1>2, <1>4 DEF BufferInv
    <2>3. chunks' \in Seq(Nat) /\ Range(chunks') = Range(chunks) \cup {c}
      BY <1>4, <2>1, RangeAppend, AppendProperties
    <2>4. Injective(chunks')
      BY <1>4, <2>1, <2>2, InjectiveAppend
    <2>5. Pending' = Pending
      BY <1>4, <2>2, <2>3 DEF Pending
    <2>6. BufferInv'
      BY <1>1, <1>2, <1>4, <2>2, <2>3, <2>4 DEF BufferInv, chanClosed
    <2> QED
      BY <1>1, <1>4, <2>1, <2>3, <2>5, <2>6
  <1> QED
    BY <1>3, <1>4 DEF SendsBack

LEMMA SendsBackKeeps == ASSUME ChatInv, NEW c \in putBack, SendsBack(c) PROVE ChatInv'
  <1>1. /\ UNCHANGED <<netVars, net, body, reading, holding, accum, locked, closedBy, got, peeks>>
        /\ chunks' \in Seq(Nat) /\ putBack' \subseteq Nat /\ Pending' = Pending /\ BufferInv'
        /\ putBack # {}
    BY SendsBackFacts
  <1>2. got' \in Seq(Nat) /\ peeks' \in Nat
    BY <1>1 DEF ChatInv, ChatTypes
  <1>3. PICK k \in Nat : Numbered(k)
    BY DEF ChatInv
  <1>4. ChatTypes' /\ BloxInv' /\ ReaderInv' /\ \A m \in Nat : OnTheirWay(m)' = OnTheirWay(m)
    BY <1>1, <1>2, AppFrame
  <1>5. Added' = Added /\ UNCHANGED <<sent, body>>
    BY <1>1 DEF Added, netVars
  <1>6. peeks' # 0
    BY <1>1, <1>3 DEF Numbered, InOrder
  <1>7. \E m \in Nat : Numbered(m)'
    BY <1>1, <1>3, <1>4, <1>5, <1>6, NumbersKept
  <1> QED
    BY <1>1, <1>4, <1>7 DEF ChatInv

\* What a step of the application or its iterator does to the buffer.
LEMMA AppCases ==
  ASSUME GetChatChunk \/ GetChunk \/ IteratorNext \/ IteratorClose
  PROVE  \/ Takes
         \/ /\ UNCHANGED <<netVars, net, body, reading, holding, accum, locked, chunks, putBack,
                           got, peeks>>
            /\ closedBy' = closedBy \/ (closedBy = "none" /\ closedBy' = "app")
            /\ completed' => completed \/ (chunks = <<>> /\ chanClosed)
  <1>1. CASE GetChatChunk
    BY <1>1 DEF GetChatChunk, bufVars
  <1>2. CASE GetChunk
    BY <1>2 DEF GetChunk, Takes
  <1>3. CASE IteratorNext
    BY <1>3 DEF IteratorNext, Takes
  <1>4. CASE IteratorClose
    BY <1>4 DEF IteratorClose, chanClosed
  <1> QED
    BY <1>1, <1>2, <1>3, <1>4

-----------------------------------------------------------------------------
(* The invariant holds.                                                    *)

LEMMA ChatInitInv == ChatInit => ChatInv
  <1> SUFFICES ASSUME ChatInit PROVE ChatInv
    OBVIOUS
  <1>1. /\ Len(net) = 0 /\ Len(chunks) = 0 /\ Len(got) = 0
        /\ net \in Seq(Lines) /\ chunks \in Seq(Nat) /\ got \in Seq(Nat)
    BY EmptySeq DEF ChatInit
  <1>2. Range(<<>>) = {}
    BY DEF Range
  <1>3. ChatTypes
    BY <1>1 DEF ChatInit, ChatTypes
  <1>4. BloxInv
    BY <1>1, ChatAssumption DEF ChatInit, BloxInv
  <1>5. ReaderInv
    BY DEF ChatInit, ReaderInv
  <1>6. BufferInv
    BY <1>1, <1>2 DEF ChatInit, BufferInv, Injective
  <1>7. Added = 1..0
    BY <1>2 DEF ChatInit, Added, Pending
  <1>8. OnTheirWay(0)
    BY <1>1 DEF ChatInit, OnTheirWay, InHand
  <1>9. InOrder(0)
    BY <1>1 DEF ChatInit, InOrder
  <1>10. Numbered(0)
    BY <1>7, <1>8, <1>9 DEF ChatInit, Numbered
  <1> QED
    BY <1>3, <1>4, <1>5, <1>6, <1>10 DEF ChatInv

LEMMA ChatStepInv == ChatInv /\ [ChatNext]_chatVars => ChatInv'
  <1> SUFFICES ASSUME ChatInv, [ChatNext]_chatVars PROVE ChatInv'
    OBVIOUS
  <1>1. CASE BloxStep \/ ChatRefused \/ ConnectionBreaks
    BY <1>1, FetchKeeps, BloxEndsKeeps, HandlerTakesKeeps, ConnectionBreaksKeeps DEF BloxStep
  <1>2. CASE ReaderStep
    BY <1>2, ReadLineKeeps, ReadEndKeeps, LockKeeps, AddToClosedKeeps, AddToOpenKeeps,
       ReaderClosesKeeps DEF ReaderStep
  <1>3. CASE GetChatChunk \/ GetChunk \/ IteratorNext \/ IteratorClose
    BY <1>3, AppCases, TakesKeeps, NoMoveKeeps
  <1>4. CASE HasNext
    BY <1>4, HasNextKeeps
  <1>5. CASE \E c \in putBack : SendsBack(c)
    BY <1>5, SendsBackKeeps
  <1>6. CASE UNCHANGED chatVars
    BY <1>6, NoMoveKeeps DEF chatVars, bufVars, appVars
  <1> QED
    BY <1>1, <1>2, <1>3, <1>4, <1>5, <1>6 DEF ChatNext

LEMMA ChatInvHolds == ChatSpec => []ChatInv
  BY ChatInitInv, ChatStepInv, PTL DEF ChatSpec

-----------------------------------------------------------------------------
(* DeliveredInOrder: an application that never calls HasNext is given the  *)
(* chunks in the order in which handleChatWithAI sent them, with none left *)
(* out, however AddChunk, GetChunk, Next and Close interleave.             *)
THEOREM DeliveredInOrderHolds == ChatSpec => []DeliveredInOrder
  <1>1. ChatInv => DeliveredInOrder
    <2> SUFFICES ASSUME ChatInv, peeks = 0
                 PROVE  got \o chunks = [i \in 1..Len(got \o chunks) |-> i]
      BY DEF DeliveredInOrder
    <2>1. PICK k \in Nat : Numbered(k)
      BY DEF ChatInv
    <2>2. /\ \A i \in 1..Len(got) : got[i] = i
          /\ \A i \in 1..Len(chunks) : chunks[i] = Len(got) + i
      BY <2>1 DEF Numbered, InOrder
    <2>3. got \in Seq(Nat) /\ chunks \in Seq(Nat)
      BY DEF ChatInv, ChatTypes
    <2>4. Len(got) \in Nat /\ Len(chunks) \in Nat
      BY <2>3, LenProperties
    <2>5. /\ got \o chunks \in Seq(Nat)
          /\ Len(got \o chunks) = Len(got) + Len(chunks)
          /\ \A i \in 1..(Len(got) + Len(chunks)) :
               (got \o chunks)[i] = IF i <= Len(got) THEN got[i] ELSE chunks[i - Len(got)]
      BY <2>3, ConcatProperties
    <2>6. ASSUME NEW i \in 1..(Len(got) + Len(chunks)) PROVE (got \o chunks)[i] = i
      <3>1. CASE i <= Len(got)
        <4>1. i \in 1..Len(got)
          BY <2>4, <3>1
        <4> QED
          BY <2>2, <2>5, <3>1, <4>1
      <3>2. CASE ~(i <= Len(got))
        <4>1. i - Len(got) \in 1..Len(chunks) /\ Len(got) + (i - Len(got)) = i
          BY <2>4, <3>2
        <4> QED
          BY <2>2, <2>5, <3>2, <4>1
      <3> QED
        BY <3>1, <3>2
    <2> QED
      BY <2>5, <2>6, CountsUp, Zenon
  <1> QED
    BY <1>1, ChatInvHolds, PTL

(* CompleteMeansAll: when IsComplete is true of a stream that the reading  *)
(* goroutine closed at the end of the answer, and nothing is on its way    *)
(* back, the application has been given every chunk that was sent.         *)
THEOREM CompleteMeansAllHolds == ChatSpec => []CompleteMeansAll
  <1>1. ChatInv => CompleteMeansAll
    <2> SUFFICES ASSUME ChatInv, IsComplete, closedBy = "reader", body = "eof", putBack = {}
                 PROVE  Range(got) = 1..sent
      BY DEF CompleteMeansAll
    <2>1. PICK k \in Nat : Numbered(k)
      BY DEF ChatInv
    <2>2. chunks = <<>>
      BY DEF IsComplete, ChatInv, BufferInv
    <2>3. Range(chunks) = {}
      BY <2>2 DEF Range
    <2>4. Added = Range(got)
      BY <2>3 DEF Added, Pending
    <2> QED
      BY <2>1, <2>4 DEF Numbered
  <1> QED
    BY <1>1, ChatInvHolds, PTL

-----------------------------------------------------------------------------
(* The refinement: AddChunk to an open channel is Put, a chunk taken by    *)
(* GetChunk or Next is Hand, a Close is End, and all else stutters.        *)

LEMMA BagStutters ==
  ASSUME Pending' = Pending, UNCHANGED <<got, closedBy>>
  PROVE  UNCHANGED Bag!bagVars
  BY DEF Bag!bagVars, chanClosed

LEMMA TakesIsHand == ASSUME ChatInv, Takes PROVE Bag!BagNext
  <1>1. /\ Head(chunks) \in Range(chunks)
        /\ Range(chunks') = Range(chunks) \ {Head(chunks)}
        /\ Range(got') = Range(got) \cup {Head(chunks)}
        /\ Head(chunks) \notin putBack
    BY TakesFacts
  <1>2. UNCHANGED <<putBack, closedBy>>
    BY DEF Takes
  <1>3. Head(chunks) \in Pending /\ Pending' = Pending \ {Head(chunks)}
    BY <1>1, <1>2 DEF Pending
  <1>4. Bag!Hand(Head(chunks))
    BY <1>1, <1>2, <1>3 DEF Bag!Hand, chanClosed
  <1>5. Head(chunks) \in 1..(MaxLines + 1)
    <2>1. PICK k \in Nat : Numbered(k)
      BY DEF ChatInv
    <2>2. Head(chunks) \in 1..k /\ k <= sent
      BY <1>3, <2>1 DEF Numbered, Added
    <2>3. sent \in Nat /\ sent <= MaxLines + 1
      BY DEF ChatInv, ChatTypes, BloxInv
    <2> QED
      BY <2>1, <2>2, <2>3, ChatAssumption
  <1> QED
    BY <1>4, <1>5 DEF Bag!BagNext

LEMMA AddIsPut == ASSUME ChatInv, AddChunk, ~chanClosed PROVE Bag!BagNext
  <1>1. PICK k \in Nat : Numbered(k)
    BY DEF ChatInv
  <1>2. /\ k + 1 <= sent
        /\ k + 1 \notin Range(got) \cup Range(chunks) \cup putBack
        /\ Pending' = Pending \cup {k + 1}
    BY <1>1, AddToOpenFacts
  <1>3. UNCHANGED <<got, closedBy>>
    BY AddFacts
  <1>4. k + 1 \notin Pending \cup Range(got)
    BY <1>2 DEF Pending
  <1>5. Bag!Put(k + 1)
    BY <1>2, <1>3, <1>4 DEF Bag!Put, chanClosed
  <1>6. sent \in Nat /\ sent <= MaxLines + 1
    BY DEF ChatInv, ChatTypes, BloxInv
  <1>7. k + 1 \in 1..(MaxLines + 1)
    BY <1>2, <1>6, ChatAssumption
  <1> QED
    BY <1>5, <1>7 DEF Bag!BagNext

(* StreamIsBag: the channel, the goroutines of HasNext and the reading     *)
(* goroutine together implement ChunkBag, in which each chunk that is      *)
(* added is handed over at most once and nothing else ever is.             *)
THEOREM ChatImplementsBag == ChatSpec => StreamIsBag
  <1>1. ChatInit => Bag!BagInit
    <2>1. Range(<<>>) = {}
      BY DEF Range
    <2> QED
      BY <2>1 DEF ChatInit, Bag!BagInit, Pending, chanClosed
  <1>2. ChatInv /\ [ChatNext]_chatVars => [Bag!BagNext]_(Bag!bagVars)
    <2> SUFFICES ASSUME ChatInv, [ChatNext]_chatVars
                 PROVE  Bag!BagNext \/ UNCHANGED Bag!bagVars
      OBVIOUS
    <2>1. CASE BloxStep \/ ChatRefused \/ ConnectionBreaks \/ ReadBytes \/ LockMu
               \/ GetChatChunk \/ UNCHANGED chatVars
      <3>1. UNCHANGED <<chunks, putBack, got, closedBy>>
        BY <2>1, Zenon DEF BloxStep, FetchAIResponse, FetcherReads, HandlerTakes, HandlerEnds,
           ChatRefused, ConnectionBreaks, ReadBytes, LockMu, GetChatChunk, chatVars, bufVars,
           appVars
      <3>2. Pending' = Pending
        BY <3>1 DEF Pending
      <3> QED
        BY <3>1, <3>2, BagStutters
    <2>2. CASE AddChunk
      <3>1. CASE chanClosed
        <4>1. UNCHANGED <<chunks, putBack, got, closedBy>>
          BY <2>2, <3>1 DEF AddChunk, appVars
        <4>2. Pending' = Pending
          BY <4>1 DEF Pending
        <4> QED
          BY <4>1, <4>2, BagStutters
      <3> QED
        BY <2>2, <3>1, AddIsPut
    <2>3. CASE ReaderCloses \/ IteratorClose
      <3>1. UNCHANGED <<chunks, putBack, got>> /\ (closedBy' = closedBy \/ chanClosed')
        BY <2>3 DEF ReaderCloses, IteratorClose, appVars, chanClosed
      <3>2. Pending' = Pending
        BY <3>1 DEF Pending
      <3>3. CASE closedBy' = closedBy
        BY <3>1, <3>2, <3>3, BagStutters
      <3>4. CASE chanClosed'
        <4>1. chanClosed' = TRUE
          BY <3>4 DEF chanClosed
        <4> QED
          BY <3>1, <3>2, <4>1 DEF Bag!BagNext, Bag!End
      <3> QED
        BY <3>1, <3>3, <3>4
    <2>4. CASE GetChunk \/ IteratorNext
      <3>1. Takes \/ UNCHANGED <<chunks, putBack, got, closedBy>>
        BY <2>4 DEF GetChunk, IteratorNext, Takes
      <3>2. CASE UNCHANGED <<chunks, putBack, got, closedBy>>
        <4>1. Pending' = Pending
          BY <3>2 DEF Pending
        <4> QED
          BY <3>2, <4>1, BagStutters
      <3> QED
        BY <3>1, <3>2, TakesIsHand
    <2>5. CASE HasNext
      BY <2>5, HasNextFacts, BagStutters
    <2>6. CASE \E c \in putBack : SendsBack(c)
      BY <2>6, SendsBackFacts, BagStutters
    <2> QED
      BY <2>1, <2>2, <2>3, <2>4, <2>5, <2>6 DEF ChatNext, ReaderStep
  <1> QED
    BY <1>1, <1>2, ChatInvHolds, PTL DEF ChatSpec, StreamIsBag, Bag!BagSpec
=============================================================================
