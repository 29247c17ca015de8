----------------------------- MODULE UartWsProofs -----------------------------
(***************************************************************************)
(* The web terminal of UartWs.tla, for any number of sockets, any buffer   *)
(* and queue and any traffic: both directions keep their order, a session  *)
(* ends with its own connection, and once the stream has been cleared for  *)
(* a session nothing older reaches it.                                     *)
(***************************************************************************)
EXTENDS UartWs, WellFoundedInduction, SequenceTheorems, TLAPS

-----------------------------------------------------------------------------
(* A set of numbers with a bound has a largest: Newest is an element of it. *)

LEMMA LessThan ==
  \E R : IsWellFoundedOn(R, Nat) /\ \A x, y \in Nat : <<x, y>> \in R <=> x < y
<1>1. \A x, y \in Nat : <<x, y>> \in OpToRel(<, Nat) <=> x < y
  BY DEF OpToRel
<1>2. QED BY <1>1, NatLessThanWellFounded

LEMMA Least ==
  ASSUME NEW T, T \subseteq Nat, T # {} PROVE \E x \in T : \A y \in T : x <= y
<1>1. PICK R : IsWellFoundedOn(R, Nat) /\ \A x, y \in Nat : <<x, y>> \in R <=> x < y
  BY LessThan
<1>2. IsWellFoundedOn(R, Nat)
  BY <1>1
<1> HIDE <1>1
<1>3. \E x \in T : \A y \in T : ~ (<<y, x>> \in R)
  BY <1>2, WFMin
<1>4. PICK x \in T : \A y \in T : ~ (<<y, x>> \in R)
  BY <1>3
<1>5. \A y \in T : ~(y < x)
  BY <1>1, <1>4
<1>6. QED BY <1>5

LEMMA Largest ==
  ASSUME NEW S, NEW n \in Nat, S \subseteq 0 .. n, S # {}
  PROVE  \E x \in S : \A y \in S : y <= x
<1> DEFINE T == {n - x : x \in S}
<1>1. T \subseteq Nat /\ T # {}
  <2>1. PICK x \in S : TRUE
    OBVIOUS
  <2>2. n - x \in T
    OBVIOUS
  <2>3. \A x1 \in S : n - x1 \in Nat
    OBVIOUS
  <2>4. QED BY <2>2, <2>3
<1>2. PICK m \in T : \A y \in T : m <= y
  <2> HIDE DEF T
  <2>1. QED BY <1>1, Least
<1>3. PICK x \in S : m = n - x
  BY <1>2
<1>4. ASSUME NEW y \in S PROVE y <= x
  <2>1. n - y \in T
    OBVIOUS
  <2>2. n - x <= n - y
    BY <1>2, <1>3, <2>1
  <2>3. QED BY <2>2
<1>5. QED BY <1>3, <1>4

-----------------------------------------------------------------------------
\* What is known of the sequences of chunks: the chunks in s are in their order
\* and not beyond n.
InOrderUpTo(q, n) ==
  \A i \in 1 .. Len(q) : q[i] # LogLine =>
    q[i] <= n /\ \A j \in 1 .. i - 1 : q[j] < q[i]

Beyond(q, n) == \A i \in 1 .. Len(q) : q[i] # LogLine => q[i] > n

Rest(q, n) == SubSeq(q, n + 1, Len(q))

LEMMA RestOf ==
  ASSUME NEW q \in Seq(Nat), NEW n \in 0 .. Len(q)
  PROVE  /\ Rest(q, n) \in Seq(Nat) /\ Len(Rest(q, n)) = Len(q) - n
         /\ \A i \in 1 .. Len(Rest(q, n)) : Rest(q, n)[i] = q[i + n]
BY DEF Rest

LEMMA RestInOrder ==
  ASSUME NEW q \in Seq(Nat), NEW n \in 0 .. Len(q), NEW k \in Nat
  PROVE  /\ InOrderUpTo(q, k) => InOrderUpTo(Rest(q, n), k)
         /\ Beyond(q, k) => Beyond(Rest(q, n), k)
<1>1. /\ Len(Rest(q, n)) = Len(q) - n
      /\ \A i \in 1 .. Len(Rest(q, n)) : Rest(q, n)[i] = q[i + n] /\ i + n \in 1 .. Len(q)
  BY RestOf
<1>2. ASSUME InOrderUpTo(q, k) PROVE InOrderUpTo(Rest(q, n), k)
  <2> SUFFICES ASSUME NEW i \in 1 .. Len(Rest(q, n)), Rest(q, n)[i] # LogLine
               PROVE  /\ Rest(q, n)[i] <= k
                      /\ \A j \in 1 .. i - 1 : Rest(q, n)[j] < Rest(q, n)[i]
    BY DEF InOrderUpTo
  <2>1. q[i + n] <= k /\ \A j \in 1 .. (i + n) - 1 : q[j] < q[i + n]
    BY <1>1, <1>2 DEF InOrderUpTo
  <2>2. \A j \in 1 .. i - 1 : j + n \in 1 .. (i + n) - 1 /\ Rest(q, n)[j] = q[j + n]
    BY <1>1
  <2>3. QED BY <1>1, <2>1, <2>2
<1>3. ASSUME Beyond(q, k) PROVE Beyond(Rest(q, n), k)
  BY <1>1, <1>3 DEF Beyond
<1>4. QED BY <1>2, <1>3

LEMMA AppendInOrder ==
  ASSUME NEW q \in Seq(Nat), NEW n \in Nat, NEW c \in Nat, InOrderUpTo(q, n), n < c
  PROVE  /\ Append(q, c) \in Seq(Nat) /\ Len(Append(q, c)) = Len(q) + 1
         /\ InOrderUpTo(Append(q, c), c)
         /\ \A k \in 0 .. n : Beyond(q, k) => Beyond(Append(q, c), k)
<1>1. /\ Append(q, c) \in Seq(Nat) /\ Len(Append(q, c)) = Len(q) + 1
      /\ \A i \in 1 .. Len(q) : Append(q, c)[i] = q[i] /\ q[i] \in Nat
      /\ Append(q, c)[Len(q) + 1] = c
  OBVIOUS
<1>2. \A i \in 1 .. Len(q) : q[i] < c
  BY <1>1 DEF InOrderUpTo, LogLine
<1>3. QED BY <1>1, <1>2 DEF InOrderUpTo, Beyond

LEMMA AppendLogLine ==
  ASSUME NEW q \in Seq(Nat), NEW n \in Nat
  PROVE  /\ Append(q, LogLine) \in Seq(Nat) /\ Len(Append(q, LogLine)) = Len(q) + 1
         /\ InOrderUpTo(q, n) => InOrderUpTo(Append(q, LogLine), n)
         /\ Beyond(q, n) => Beyond(Append(q, LogLine), n)
<1>1. /\ Append(q, LogLine) \in Seq(Nat) /\ Len(Append(q, LogLine)) = Len(q) + 1
      /\ \A i \in 1 .. Len(q) : Append(q, LogLine)[i] = q[i]
      /\ Append(q, LogLine)[Len(q) + 1] = LogLine
  BY DEF LogLine
<1>2. QED BY <1>1 DEF InOrderUpTo, Beyond

\* The newest of the chunks taken: beyond it are all that are left, and it is
\* one of those that were there.
LEMMA NewestOf ==
  ASSUME NEW q \in Seq(Nat), NEW n \in 0 .. Len(q), NEW k \in Nat, InOrderUpTo(q, k)
  PROVE  LET w == Newest(SubSeq(q, 1, n))
         IN  w \in 0 .. k /\ (w # LogLine => Beyond(Rest(q, n), w))
<1> DEFINE t == SubSeq(q, 1, n)
           R == Range1(t)
           w == Newest(t)
<1>1. Len(t) = n /\ \A i \in 1 .. n : t[i] = q[i]
  OBVIOUS
<1>2. R = {q[i] : i \in 1 .. n}
  BY <1>1 DEF Range1
<1>3. \A i \in 1 .. n : q[i] \in 0 .. k
  BY DEF InOrderUpTo, LogLine
<1>4. R \subseteq 0 .. k
  BY <1>2, <1>3
<1>5. CASE R \subseteq {LogLine}
  BY <1>5 DEF Newest, LogLine
<1>6. CASE ~(R \subseteq {LogLine})
  <2> HIDE DEF R, t
  <2>1. R # {}
    BY <1>6
  <2>2. \E x \in R : \A y \in R : y <= x
    BY <1>4, <2>1, Largest
  <2>3. w \in R /\ \A y \in R : y <= w
    BY <1>6, <2>2 DEF Newest, R
  <2> HIDE DEF w
  <2>4. w # LogLine
    BY <1>4, <1>6, <2>3 DEF LogLine
  <2>5. PICK i \in 1 .. n : w = q[i]
    BY <1>2, <2>3
  <2>6. \A j \in n + 1 .. Len(q) : q[j] # LogLine => q[i] < q[j]
    BY DEF InOrderUpTo
  <2>7. Beyond(Rest(q, n), w)
    <3>1. /\ Len(Rest(q, n)) = Len(q) - n
          /\ \A j \in 1 .. Len(Rest(q, n)) : Rest(q, n)[j] = q[j + n]
      BY RestOf
    <3>2. \A j \in 1 .. Len(q) - n : j + n \in n + 1 .. Len(q) /\ q[j + n] \in Nat
      OBVIOUS
    <3>3. \A j \in 1 .. Len(Rest(q, n)) : Rest(q, n)[j] # LogLine => w < Rest(q, n)[j]
      BY <2>5, <2>6, <3>1, <3>2
    <3>4. w \in Nat /\ Rest(q, n) \in Seq(Nat)
      BY <2>5, RestOf
    <3>5. QED BY <3>3, <3>4 DEF Beyond
  <2>8. QED BY <1>4, <2>3, <2>7 DEF w, t
<1>7. QED BY <1>5, <1>6

-----------------------------------------------------------------------------
(* The invariant.                                                           *)

\* The chunks in the stream are in their order, and all that was ever put in,
\* sent or noted is not beyond the last one put in; the chunk at hand is.
StreamInv ==
  /\ InOrderUpTo(stream, pushed) /\ pushed <= received
  /\ reader \in {"send", "blocked"} => pushed < received
  /\ \A s \in Sockets : last[s] <= pushed /\ since[s] <= pushed

\* What is in the stream has not been sent.
Unsent == fd # 0 => Beyond(stream, last[fd])

\* Once the handshake has cleared the stream it holds nothing older than the
\* session, also in the middle of the other handlers.
Cleared == ~stale /\ httpd # "hsReset" /\ fd # 0 => Beyond(stream, since[fd])

\* A session that is about to be given up has lost its connection, and the web
\* server accepts no other before it has been.
InvalidIsClosed == httpd = "invalid" /\ fd # 0 => sock[fd] = "free"

\* The messages are in their order, after the last one written.
MessagesInv ==
  /\ uartOut <= posted
  /\ \A i \in 1 .. Len(messages) :
       /\ uartOut <= messages[i] /\ messages[i] <= posted
       /\ \A j \in 1 .. i : messages[j] <= messages[i]

IInv == TypeOK /\ StreamInv /\ Unsent /\ Cleared /\ InvalidIsClosed /\ MessagesInv

LEMMA InitIInv == Init => IInv
<1> SUFFICES ASSUME Init PROVE IInv
  OBVIOUS
<1>1. TypeOK
  <2>1. <<>> \in Seq(Nat) /\ Len(<<>>) <= Cap /\ Len(<<>>) <= QueueLen /\ 0 \in 0 .. MaxWork
    BY SizesAssumption
  <2>2. logging \in [LogTasks -> {"idle", "enter", "set", "send", "check", "leave"}]
    BY DEF Init
  <2>3. sock \in [Sockets -> {"free", "http", "ws", "gone"}]
    BY DEF Init
  <2>4. since \in [Sockets -> Nat] /\ last \in [Sockets -> Nat]
    BY DEF Init
  <2>5. QED BY <2>1, <2>2, <2>3, <2>4 DEF Init, TypeOK
<1>2. Len(stream) = 0 /\ Len(messages) = 0 /\ fd = 0
  BY DEF Init
<1>3. QED
  BY <1>1, <1>2 DEF Init, IInv, StreamInv, InOrderUpTo, Unsent, Cleared, InvalidIsClosed,
                    MessagesInv

-----------------------------------------------------------------------------
(* The steps that leave the stream, the chunks and the sessions' notes alone. *)

streamVars == <<stream, pushed, received, since, last>>

\* Of these, what the invariant speaks of are the session, its connection, the
\* reader, the handler and whether the stream could be cleared.
LEMMA AsideIInv ==
  ASSUME IInv, TypeOK', UNCHANGED streamVars, UNCHANGED tx,
         fd' \in {fd, 0},
         reader' \in {"send", "blocked"} => reader \in {"send", "blocked"},
         fd' # 0 => (~stale' /\ httpd' # "hsReset" => ~stale /\ httpd # "hsReset"),
         httpd' = "invalid" /\ fd' # 0 => sock'[fd] = "free"
  PROVE  IInv'
<1>1. StreamInv'
  BY DEF IInv, StreamInv, streamVars
<1>2. Unsent' /\ Cleared'
  BY DEF IInv, Unsent, Cleared, streamVars
<1>3. InvalidIsClosed'
  BY DEF InvalidIsClosed
<1>4. MessagesInv'
  BY DEF IInv, MessagesInv, tx
<1>5. QED BY <1>1, <1>2, <1>3, <1>4 DEF IInv

LEMMA ConnectionIInv ==
  ASSUME IInv, NEW s \in Sockets,
         Connect(s) \/ Vanish(s) \/ Forget(s) \/ Close(s) \/ LogOn(s) \/ LogOff(s)
  PROVE  IInv'
<1> USE DEF rx, tx, logs, net, streamVars, HttpdIdle
<1>1. CASE Connect(s)
  <2>1. TypeOK'
    BY <1>1 DEF IInv, TypeOK, Connect
  <2>2. QED BY <1>1, <2>1, AsideIInv DEF Connect
<1>2. CASE Vanish(s)
  <2>1. TypeOK'
    BY <1>2 DEF IInv, TypeOK, Vanish
  <2>2. httpd = "invalid" /\ fd # 0 => sock'[fd] = "free"
    BY <1>2 DEF IInv, TypeOK, InvalidIsClosed, Vanish
  <2>3. QED BY <1>2, <2>1, <2>2, AsideIInv DEF Vanish
<1>3. CASE Forget(s)
  <2>1. TypeOK'
    BY <1>3 DEF IInv, TypeOK, Forget
  <2>2. QED BY <1>3, <2>1, AsideIInv DEF Forget
<1>4. CASE Close(s)
  <2>1. TypeOK'
    BY <1>4 DEF IInv, TypeOK, Close
  <2>2. QED BY <1>4, <2>1, AsideIInv DEF Close
<1>5. CASE LogOn(s)
  <2>1. TypeOK'
    BY <1>5 DEF IInv, TypeOK, LogOn
  <2>2. QED BY <1>5, <2>1, AsideIInv DEF LogOn
<1>6. CASE LogOff(s)
  <2>1. TypeOK'
    BY <1>6 DEF IInv, TypeOK, LogOff
  <2>2. QED BY <1>6, <2>1, AsideIInv DEF LogOff
<1>7. QED BY <1>1, <1>2, <1>3, <1>4, <1>5, <1>6

LEMMA HandlerIInv == ASSUME IInv, HandshakeLogOff \/ Invalid PROVE IInv'
<1> USE DEF rx, tx, logs, net, streamVars, HttpdIdle
<1>1. CASE HandshakeLogOff
  <2>1. TypeOK'
    BY <1>1 DEF IInv, TypeOK, HandshakeLogOff
  <2>2. QED BY <1>1, <2>1, AsideIInv DEF HandshakeLogOff
<1>2. CASE Invalid
  <2>1. TypeOK'
    BY <1>2 DEF IInv, TypeOK, Invalid
  <2>2. QED BY <1>2, <2>1, AsideIInv DEF Invalid
<1>3. QED BY <1>1, <1>2

LEMMA ReaderIInv == ASSUME IInv, CheckSession \/ QueueSend PROVE IInv'
<1> USE DEF rx, tx, logs, net, streamVars
<1>1. httpd = "invalid" /\ fd # 0 => sock[fd] = "free"
  BY DEF IInv, InvalidIsClosed
<1>2. CASE CheckSession
  <2>1. TypeOK'
    BY <1>2 DEF IInv, TypeOK, CheckSession
  <2>2. QED BY <1>1, <1>2, <2>1, AsideIInv DEF CheckSession
<1>3. CASE QueueSend
  <2>1. work' \in 0 .. MaxWork
    BY <1>3, SizesAssumption DEF IInv, TypeOK, QueueSend, QueueWork
  <2>2. logging' \in [LogTasks -> {"idle", "enter", "set", "send", "check", "leave"}]
    BY <1>3 DEF IInv, TypeOK, QueueSend, Log
  <2>3. TypeOK'
    BY <1>3, <2>1, <2>2 DEF IInv, TypeOK, QueueSend
  <2>4. QED BY <1>1, <1>3, <2>3, AsideIInv DEF QueueSend
<1>4. QED BY <1>2, <1>3

LEMMA LogIInv ==
  ASSUME IInv, NEW t \in LogTasks,
         OtherLogs \/ LogEnter(t) \/ LogSet(t) \/ LogQueue(t) \/ LogLeave(t)
  PROVE  IInv'
<1> USE DEF rx, tx, logs, net, streamVars
<1>1. httpd = "invalid" /\ fd # 0 => sock[fd] = "free"
  BY DEF IInv, InvalidIsClosed
<1>2. logging' \in [LogTasks -> {"idle", "enter", "set", "send", "check", "leave"}]
  BY DEF IInv, TypeOK, OtherLogs, LogEnter, LogSet, LogQueue, LogLeave, Log, Goto
<1>3. work' \in 0 .. MaxWork /\ inLog' \in BOOLEAN
  <2>1. QueueWork => work' \in 0 .. MaxWork
    BY SizesAssumption DEF IInv, TypeOK, QueueWork
  <2>2. QED
    BY <2>1 DEF IInv, TypeOK, OtherLogs, LogEnter, LogSet, LogQueue, LogLeave
<1>4. /\ UNCHANGED <<net, fd, logOn, stream, httpd, rx, tx, stale, limit>>
  BY DEF OtherLogs, LogEnter, LogSet, LogQueue, LogLeave
<1>5. TypeOK'
  BY <1>2, <1>3, <1>4 DEF IInv, TypeOK
<1>6. QED BY <1>1, <1>4, <1>5, AsideIInv

-----------------------------------------------------------------------------
(* The steps that clear the stream, or begin a session.                      *)

LEMMA EmptyStream ==
  ASSUME stream' = <<>>
  PROVE  \A n : InOrderUpTo(stream', n) /\ Beyond(stream', n)
BY DEF InOrderUpTo, Beyond

LEMMA HandshakeIInv == ASSUME IInv, NEW s \in Sockets, Handshake(s) PROVE IInv'
<1> USE DEF rx, tx, logs
<1>1. TypeOK'
  BY DEF IInv, TypeOK, Handshake
<1>2. StreamInv'
  <2>1. /\ since' = [since EXCEPT ![s] = pushed] /\ last' = [last EXCEPT ![s] = 0]
        /\ UNCHANGED <<stream, pushed, received, reader>>
    BY DEF Handshake
  <2>2. \A u \in Sockets : last'[u] <= pushed /\ since'[u] <= pushed
    BY <2>1 DEF IInv, TypeOK, StreamInv
  <2>3. QED BY <2>1, <2>2 DEF IInv, StreamInv
<1>3. Unsent'
  <2>1. fd' = s /\ last'[s] = 0 /\ stream' = stream
    BY DEF Handshake, IInv, TypeOK
  <2>2. Beyond(stream, 0)
    BY DEF IInv, TypeOK, Beyond, LogLine
  <2>3. QED BY <2>1, <2>2 DEF Unsent
<1>4. QED
  BY <1>1, <1>2, <1>3
  DEF Handshake, IInv, Cleared, InvalidIsClosed, MessagesInv

LEMMA ClearIInv == ASSUME IInv, HandshakeReset \/ LogOnReset PROVE IInv'
<1> USE DEF rx, tx, logs, net
<1>1. /\ httpd' # "invalid" /\ UNCHANGED <<fd, last, rx, tx>>
      /\ httpd' # "hsReset"
  BY DEF HandshakeReset, LogOnReset
<1>2. stream' = stream \/ stream' = <<>>
  BY DEF HandshakeReset, LogOnReset, ResetStream
<1>3. ~stale' => stream' = <<>>
  BY DEF HandshakeReset, LogOnReset, ResetStream
<1>4. \A u \in Sockets : since'[u] <= pushed
  <2>1. since' = [since EXCEPT ![fd] = pushed] \/ since' = since
    <3>1. CASE HandshakeReset
      <4>1. since' = [since EXCEPT ![fd] = IF reader # "blocked" THEN pushed ELSE since[fd]]
        BY <3>1 DEF HandshakeReset
      <4>2. since \in [Sockets -> Nat]
        BY DEF IInv, TypeOK
      <4>3. CASE reader # "blocked"
        BY <4>1, <4>3
      <4>4. CASE reader = "blocked"
        BY <4>1, <4>2, <4>4
      <4>5. QED BY <4>3, <4>4
    <3>2. CASE LogOnReset
      BY <3>2 DEF LogOnReset
    <3>3. QED BY <3>1, <3>2
  <2>2. /\ since \in [Sockets -> Nat] /\ pushed \in Nat
        /\ \A u \in Sockets : since[u] <= pushed
    BY DEF IInv, TypeOK, StreamInv
  <2>3. QED BY <2>1, <2>2
<1>5. TypeOK'
  <2>1. since' \in [Sockets -> Nat]
    BY DEF HandshakeReset, LogOnReset, IInv, TypeOK
  <2>2. stream' \in Seq(Nat) /\ Len(stream') <= Cap
    <3>1. CASE stream' = stream
      BY <3>1 DEF IInv, TypeOK
    <3>2. CASE stream' = <<>>
      <4>1. <<>> \in Seq(Nat) /\ Len(<<>>) <= Cap
        BY SizesAssumption
      <4>2. QED BY <3>2, <4>1
    <3>3. QED BY <1>2, <3>1, <3>2
  <2>3. stale' \in BOOLEAN
    BY DEF HandshakeReset, LogOnReset, ResetStream
  <2>4. QED BY <2>1, <2>2, <2>3 DEF HandshakeReset, LogOnReset, IInv, TypeOK
<1>6. StreamInv'
  BY <1>1, <1>2, <1>4, EmptyStream DEF IInv, StreamInv
<1>7. Unsent' /\ Cleared'
  BY <1>1, <1>2, <1>3, EmptyStream DEF IInv, Unsent, Cleared
<1>8. QED BY <1>1, <1>5, <1>6, <1>7 DEF IInv, InvalidIsClosed, MessagesInv

-----------------------------------------------------------------------------
(* The steps that put something into the stream or take something out of it. *)

LEMMA ReadChunkIInv == ASSUME IInv, ReadChunk PROVE IInv'
<1> USE DEF tx, net
<1>1. TypeOK'
  <2>1. logging' \in [LogTasks -> {"idle", "enter", "set", "send", "check", "leave"}]
    BY DEF ReadChunk, IInv, TypeOK, Log
  <2>2. QED BY <2>1 DEF ReadChunk, IInv, TypeOK
<1>2. pushed < received' /\ UNCHANGED <<stream, pushed, net, fd, stale, httpd, tx>>
  BY DEF ReadChunk, IInv, TypeOK, StreamInv
<1>3. QED
  BY <1>1, <1>2 DEF IInv, TypeOK, StreamInv, Unsent, Cleared, InvalidIsClosed, MessagesInv

LEMMA PushIInv == ASSUME IInv, Push PROVE IInv'
<1> USE DEF tx, net, logs
<1>1. UNCHANGED <<net, fd, logOn, logs, work, httpd, received, tx, stale, limit>>
  BY DEF Push
<1>2. CASE stream' = Append(stream, received) /\ Len(stream) < Cap
           /\ pushed' = received /\ reader' = "check"
  <2>1. /\ stream \in Seq(Nat) /\ pushed \in Nat /\ received \in Nat
        /\ InOrderUpTo(stream, pushed) /\ pushed < received
    BY DEF IInv, TypeOK, StreamInv, Push
  <2>2. /\ stream' \in Seq(Nat) /\ Len(stream') = Len(stream) + 1
        /\ InOrderUpTo(stream', received)
        /\ \A k \in 0 .. pushed : Beyond(stream, k) => Beyond(stream', k)
    BY <1>2, <2>1, AppendInOrder
  <2>3. \A u \in Sockets : /\ last[u] \in 0 .. pushed /\ since[u] \in 0 .. pushed
                           /\ last[u] <= received /\ since[u] <= received
    BY <2>1 DEF IInv, TypeOK, StreamInv
  <2>4. TypeOK'
    BY <1>1, <1>2, <2>1, <2>2, SizesAssumption DEF IInv, TypeOK
  <2>5. StreamInv'
    BY <1>1, <1>2, <2>2, <2>3, <2>4 DEF TypeOK, StreamInv
  <2>6. fd # 0 => fd \in Sockets
    BY DEF IInv, TypeOK
  <2>7. Unsent' /\ Cleared'
    BY <1>1, <1>2, <2>2, <2>3, <2>6 DEF IInv, Unsent, Cleared
  <2>8. QED BY <1>1, <2>4, <2>5, <2>7 DEF IInv, InvalidIsClosed, MessagesInv
<1>3. CASE UNCHANGED <<stream, pushed>> /\ reader' \in {"blocked", "check"}
  <2>1. TypeOK'
    BY <1>1, <1>3 DEF IInv, TypeOK
  <2>2. reader \in {"send", "blocked"}
    BY DEF Push
  <2>3. QED
    BY <1>1, <1>3, <2>1, <2>2
    DEF IInv, StreamInv, Unsent, Cleared, InvalidIsClosed, MessagesInv
<1>4. QED BY <1>2, <1>3 DEF Push

LEMMA LogPushIInv == ASSUME IInv, NEW t \in LogTasks, LogPush(t) PROVE IInv'
<1> USE DEF tx, net, rx
<1>1. UNCHANGED <<net, fd, logOn, inLog, work, httpd, rx, tx, stale, limit>>
  BY DEF LogPush
<1>2. logging' \in [LogTasks -> {"idle", "enter", "set", "send", "check", "leave"}]
  BY DEF LogPush, IInv, TypeOK, Goto
<1>3. CASE stream' = stream
  <2>1. TypeOK'
    BY <1>1, <1>2, <1>3 DEF IInv, TypeOK
  <2>2. QED
    BY <1>1, <1>3, <2>1
    DEF IInv, StreamInv, Unsent, Cleared, InvalidIsClosed, MessagesInv
<1>4. CASE stream' = Append(stream, LogLine) /\ Len(stream) < Cap
  <2>1. /\ stream' \in Seq(Nat) /\ Len(stream') = Len(stream) + 1
        /\ \A n \in Nat : /\ InOrderUpTo(stream, n) => InOrderUpTo(stream', n)
                          /\ Beyond(stream, n) => Beyond(stream', n)
    BY <1>4, AppendLogLine DEF IInv, TypeOK
  <2>2. TypeOK'
    BY <1>1, <1>2, <1>4, <2>1, SizesAssumption DEF IInv, TypeOK
  <2>3. pushed \in Nat /\ (fd # 0 => last[fd] \in Nat /\ since[fd] \in Nat)
    BY DEF IInv, TypeOK
  <2>4. QED
    BY <1>1, <2>1, <2>2, <2>3
    DEF IInv, StreamInv, Unsent, Cleared, InvalidIsClosed, MessagesInv
<1>5. QED BY <1>3, <1>4 DEF LogPush

LEMMA AsyncSendIInv == ASSUME IInv, AsyncSend PROVE IInv'
<1> USE DEF tx, rx
<1>1. UNCHANGED <<sock, since, fd, logOn, inLog, rx, tx, stale, limit>> /\ httpd = "idle"
  BY DEF AsyncSend, HttpdIdle
<1>2. work' \in 0 .. MaxWork
  BY SizesAssumption DEF AsyncSend, IInv, TypeOK
<1>3. CASE fd = 0 \/ stream = <<>>
  <2>1. UNCHANGED <<stream, last, httpd, logging>>
    BY <1>3 DEF AsyncSend
  <2>2. TypeOK'
    BY <1>1, <1>2, <2>1 DEF IInv, TypeOK
  <2>3. QED
    BY <1>1, <2>1, <2>2
    DEF IInv, StreamInv, Unsent, Cleared, InvalidIsClosed, MessagesInv
<1>4. CASE fd # 0 /\ stream # <<>>
  <2> DEFINE n == Len(Taken)
             w == Newest(Taken)
  <2>1. PICK k \in 0 .. Len(stream) : Taken = SubSeq(stream, 1, k)
    <3>1. (IF Len(stream) < Take THEN Len(stream) ELSE Take) \in 0 .. Len(stream)
      BY SizesAssumption DEF IInv, TypeOK
    <3>2. QED BY <3>1 DEF Taken
  <2>2. n = k
    BY <2>1 DEF IInv, TypeOK
  <2>3. /\ stream' = Rest(stream, k)
        /\ last' = IF sock[fd] = "ws" /\ w # LogLine THEN [last EXCEPT ![fd] = w] ELSE last
        /\ httpd' = IF sock[fd] = "free" THEN "invalid" ELSE "idle"
    BY <1>4, <2>2 DEF AsyncSend, Rest
  <2>4. logging' \in [LogTasks -> {"idle", "enter", "set", "send", "check", "leave"}]
    BY <1>4 DEF AsyncSend, IInv, TypeOK, Log
  <2>5. fd \in Sockets /\ stream \in Seq(Nat) /\ pushed \in Nat /\ InOrderUpTo(stream, pushed)
    BY <1>4 DEF IInv, TypeOK, StreamInv
  <2>6. w \in 0 .. pushed /\ (w # LogLine => Beyond(Rest(stream, k), w))
    BY <2>1, <2>5, NewestOf
  <2>7. /\ stream' \in Seq(Nat) /\ Len(stream') <= Len(stream)
        /\ \A i \in Nat : /\ InOrderUpTo(stream, i) => InOrderUpTo(stream', i)
                          /\ Beyond(stream, i) => Beyond(stream', i)
    BY <2>3, <2>5, RestOf, RestInOrder
  <2> HIDE DEF w, n
  <2>8. last' \in [Sockets -> Nat] /\ \A u \in Sockets : last'[u] <= pushed
    BY <2>3, <2>5, <2>6 DEF IInv, TypeOK, StreamInv
  <2>9. TypeOK'
    <3>1. Len(stream') <= Cap
      BY <2>7, SizesAssumption DEF IInv, TypeOK
    <3>2. QED BY <1>1, <1>2, <2>3, <2>4, <2>7, <2>8, <3>1 DEF IInv, TypeOK
  <2>10. StreamInv'
    BY <1>1, <2>5, <2>7, <2>8 DEF IInv, StreamInv
  <2>11. Unsent'
    <3>1. CASE sock[fd] = "ws" /\ w # LogLine
      <4>1. last'[fd] = w
        BY <2>3, <2>5, <3>1 DEF IInv, TypeOK
      <4>2. QED BY <1>1, <2>3, <2>6, <3>1, <4>1 DEF Unsent
    <3>2. CASE last' = last
      BY <1>1, <2>5, <2>7, <3>2 DEF IInv, TypeOK, Unsent
    <3>3. QED BY <2>3, <3>1, <3>2
  <2>12. Cleared'
    BY <1>1, <2>5, <2>7 DEF IInv, TypeOK, Cleared
  <2>13. InvalidIsClosed'
    BY <1>1, <2>3 DEF InvalidIsClosed
  <2>14. QED BY <1>1, <2>9, <2>10, <2>11, <2>12, <2>13 DEF IInv, MessagesInv
<1>5. QED BY <1>3, <1>4

-----------------------------------------------------------------------------
(* The messages to the UART. *)

LEMMA MessageIInv == ASSUME IInv, NEW s \in Sockets, Message(s) PROVE IInv'
<1> USE DEF rx, net, logs
<1>1. /\ UNCHANGED <<net, fd, logOn, logs, stream, work, httpd, rx, uartOut, stale, limit>>
      /\ posted' = posted + 1
  BY DEF Message
<1>2. /\ messages \in Seq(Nat) /\ posted \in Nat /\ uartOut \in Nat
      /\ uartOut <= posted
      /\ \A i \in 1 .. Len(messages) :
           /\ uartOut <= messages[i] /\ messages[i] <= posted
           /\ \A j \in 1 .. i : messages[j] <= messages[i]
  BY DEF IInv, TypeOK, MessagesInv
<1>3. CASE messages' = messages
  <2>1. TypeOK'
    BY <1>1, <1>2, <1>3 DEF IInv, TypeOK
  <2>2. MessagesInv'
    BY <1>1, <1>2, <1>3 DEF MessagesInv
  <2>3. QED
    BY <1>1, <2>1, <2>2 DEF IInv, StreamInv, Unsent, Cleared, InvalidIsClosed
<1>4. CASE messages' = Append(messages, posted + 1) /\ Len(messages) < QueueLen
  <2>1. /\ messages' \in Seq(Nat) /\ Len(messages') = Len(messages) + 1
        /\ \A i \in 1 .. Len(messages) : messages'[i] = messages[i] /\ messages[i] \in Nat
        /\ messages'[Len(messages) + 1] = posted + 1
    BY <1>2, <1>4
  <2>2. TypeOK'
    BY <1>1, <1>2, <1>4, <2>1, SizesAssumption DEF IInv, TypeOK
  <2>3. MessagesInv'
    <3>1. \A i \in 1 .. Len(messages) : messages[i] <= posted + 1
      BY <1>2, <2>1
    <3>2. ASSUME NEW i \in 1 .. Len(messages')
          PROVE  /\ uartOut <= messages'[i] /\ messages'[i] <= posted + 1
                 /\ \A j \in 1 .. i : messages'[j] <= messages'[i]
      <4>1. CASE i \in 1 .. Len(messages)
        <5>1. \A j \in 1 .. i : messages'[j] = messages[j]
          BY <2>1, <4>1
        <5>2. QED BY <1>2, <2>1, <3>1, <4>1, <5>1
      <4>2. CASE i = Len(messages) + 1
        <5>1. \A j \in 1 .. i : messages'[j] <= posted + 1
          BY <1>2, <2>1, <3>1, <4>2
        <5>2. QED BY <1>2, <2>1, <4>2, <5>1
      <4>3. QED BY <2>1, <4>1, <4>2
    <3>3. uartOut <= posted + 1
      BY <1>2
    <3>4. QED BY <1>1, <3>2, <3>3 DEF MessagesInv
  <2>4. QED
    BY <1>1, <2>2, <2>3 DEF IInv, StreamInv, Unsent, Cleared, InvalidIsClosed
<1>5. QED BY <1>3, <1>4 DEF Message

LEMMA WriteUartIInv == ASSUME IInv, WriteUart PROVE IInv' /\ uartOut' >= uartOut
<1> USE DEF rx, net, logs
<1>1. UNCHANGED <<net, fd, logOn, logs, stream, work, httpd, rx, posted, stale, limit>>
  BY DEF WriteUart
<1>2. /\ messages \in Seq(Nat) /\ messages # <<>> /\ posted \in Nat /\ uartOut \in Nat
      /\ uartOut <= posted
      /\ \A i \in 1 .. Len(messages) :
           /\ uartOut <= messages[i] /\ messages[i] <= posted
           /\ \A j \in 1 .. i : messages[j] <= messages[i]
  BY DEF IInv, TypeOK, MessagesInv, WriteUart
<1>3. /\ uartOut' = messages[1] /\ 1 \in 1 .. Len(messages) /\ messages[1] \in Nat
      /\ messages' \in Seq(Nat) /\ Len(messages') = Len(messages) - 1
      /\ \A i \in 1 .. Len(messages') : messages'[i] = messages[i + 1]
  BY <1>2 DEF WriteUart
<1>4. TypeOK'
  BY <1>1, <1>2, <1>3, SizesAssumption DEF IInv, TypeOK
<1>5. MessagesInv'
  <2>1. \A i \in 1 .. Len(messages') :
          /\ i + 1 \in 1 .. Len(messages) /\ 1 \in 1 .. i + 1
          /\ \A j \in 1 .. i : j + 1 \in 1 .. i + 1 /\ messages'[j] = messages[j + 1]
    BY <1>3
  <2>2. QED BY <1>1, <1>2, <1>3, <2>1 DEF MessagesInv
<1>6. QED
  BY <1>1, <1>2, <1>3, <1>4, <1>5 DEF IInv, StreamInv, Unsent, Cleared, InvalidIsClosed

-----------------------------------------------------------------------------
(* Every step, and the specification. *)

LEMMA StutterIInv == IInv /\ UNCHANGED vars => IInv'
BY DEF IInv, TypeOK, StreamInv, Unsent, Cleared, InvalidIsClosed, MessagesInv,
       vars, net, logs, rx, tx

LEMMA NextIInv == IInv /\ [Next]_vars => IInv'
<1> SUFFICES ASSUME IInv, [Next]_vars PROVE IInv'
  OBVIOUS
<1>1. ASSUME NEW s \in Sockets,
             \/ Connect(s) \/ Vanish(s) \/ Forget(s)
             \/ Handshake(s) \/ Close(s) \/ LogOn(s) \/ LogOff(s) \/ Message(s)
      PROVE  IInv'
  BY <1>1, ConnectionIInv, HandshakeIInv, MessageIInv
<1>2. CASE AsyncSend
  BY <1>2, AsyncSendIInv
<1>3. CASE Httpd
  BY <1>3, ClearIInv, HandlerIInv DEF Httpd
<1>4. CASE ReadChunk
  BY <1>4, ReadChunkIInv
<1>5. CASE Reader
  BY <1>5, PushIInv, ReaderIInv DEF Reader
<1>6. CASE WriteUart
  BY <1>6, WriteUartIInv
<1>7. CASE OtherLogs
  <2>1. "other" \in LogTasks
    BY DEF LogTasks
  <2>2. QED BY <1>7, <2>1, LogIInv
<1>8. ASSUME NEW t \in LogTasks, LogStep(t) PROVE IInv'
  BY <1>8, LogIInv, LogPushIInv DEF LogStep
<1>9. CASE UNCHANGED vars
  BY <1>9, StutterIInv
<1>10. QED BY <1>1, <1>2, <1>3, <1>4, <1>5, <1>6, <1>7, <1>8, <1>9 DEF Next

LEMMA SpecIInv == Spec => []IInv
BY InitIInv, NextIInv, PTL DEF Spec

LEMMA FairSpecIsSpec == FairSpec => Spec
BY DEF FairSpec

\* The invariant gives what the runs check of a state.
LEMMA IInvImplies == IInv => TypeOK /\ TerminalInOrder /\ NoOldDataOnceCleared
<1> SUFFICES ASSUME IInv PROVE TypeOK /\ TerminalInOrder /\ NoOldDataOnceCleared
  OBVIOUS
<1>1. TypeOK
  BY DEF IInv
<1>2. TerminalInOrder
  BY DEF IInv, StreamInv, InOrderUpTo, Unsent, Beyond, TerminalInOrder
<1>3. NoOldDataOnceCleared
  BY DEF IInv, Cleared, Beyond, NoOldDataOnceCleared, NoOldData, Range1
<1>4. QED BY <1>1, <1>2, <1>3

\* Only WriteUart writes to the UART.
LEMMA StepMessages == IInv /\ [Next]_vars => [uartOut' >= uartOut]_uartOut
<1> SUFFICES ASSUME IInv, [Next]_vars, uartOut' # uartOut PROVE uartOut' >= uartOut
  OBVIOUS
<1>1. WriteUart
  BY DEF Next, vars, tx, Connect, Vanish, Forget, Handshake, Close, LogOn, LogOff, Message,
         AsyncSend, Httpd, HandshakeReset, HandshakeLogOff, LogOnReset, Invalid, ReadChunk,
         Reader, Push, CheckSession, QueueSend, OtherLogs, LogStep, LogEnter, LogSet, LogPush,
         LogQueue, LogLeave
<1>2. QED BY <1>1, WriteUartIInv

\* Only a close, and a send that finds the socket closed, end a session.
LEMMA StepSession ==
  IInv /\ [Next]_vars => [fd # 0 /\ fd' = 0 => sock'[fd] \in {"gone", "free"}]_fd
<1> SUFFICES ASSUME IInv, [Next]_vars, fd # 0, fd' = 0 PROVE sock'[fd] \in {"gone", "free"}
  OBVIOUS
<1>1. Invalid \/ \E s \in Sockets : Close(s)
  <2>1. ASSUME NEW s \in Sockets, Handshake(s) PROVE fd' # 0
    BY <2>1, SocketsAssumption DEF Handshake
  <2>2. QED
    BY <2>1 DEF Next, vars, Connect, Vanish, Forget, LogOn, LogOff, Message,
         AsyncSend, Httpd, HandshakeReset, HandshakeLogOff, LogOnReset, ReadChunk,
         Reader, Push, CheckSession, QueueSend, WriteUart, OtherLogs, LogStep, LogEnter,
         LogSet, LogPush, LogQueue, LogLeave
<1>2. CASE Invalid
  BY <1>2 DEF IInv, InvalidIsClosed, Invalid, net
<1>3. ASSUME NEW s \in Sockets, Close(s) PROVE sock'[fd] = "gone"
  <2>1. fd = s /\ sock' = [sock EXCEPT ![s] = "gone"]
    BY <1>3 DEF Close
  <2>2. QED BY <2>1 DEF IInv, TypeOK
<1>4. QED BY <1>1, <1>2, <1>3

\* What the target sends is shown in its order and once, and the clients'
\* messages are written in theirs (uart_read_task, ws_async_send,
\* uart_write_task).
THEOREM SpecBridge == FairSpec => BridgeInOrder
<1>1. FairSpec => [](TypeOK /\ TerminalInOrder)
  BY FairSpecIsSpec, SpecIInv, IInvImplies, PTL
<1>2. FairSpec => MessagesInOrder
  BY FairSpecIsSpec, SpecIInv, StepMessages, PTL DEF Spec, MessagesInOrder
<1>3. QED BY <1>1, <1>2 DEF BridgeInOrder

\* A session is sent nothing older than itself once the stream has been
\* cleared for it, however the tasks interleave with websocket_handler.
THEOREM SpecNoOldData == FairSpec => []NoOldDataOnceCleared
BY FairSpecIsSpec, SpecIInv, IInvImplies, PTL

\* No other connection's end takes a session away, nor does a failed send on
\* a socket number that is in use again (resp_arg.fd).
THEOREM SpecSessionKept == FairSpec => SessionKept
BY FairSpecIsSpec, SpecIInv, StepSession, PTL DEF Spec, SessionKept

=============================================================================
