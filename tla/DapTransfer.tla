----------------------------- MODULE DapTransfer -----------------------------
(***************************************************************************)
(* DAP_Transfer and DAP_TransferBlock (DAP.c), for an SWD and for a JTAG   *)
(* debug port: the requests of one command, one after the other, each with *)
(* retries while the target answers WAIT, until one fails or the host      *)
(* aborts (DAP_TransferAbort, set by the USB interrupt).                   *)
(*                                                                         *)
(* A read is posted: its value comes with the next transfer.  SWD posts    *)
(* the reads of an access port (AP), JTAG those of the debug port (DP) as  *)
(* well.  A step is one transfer on the wire, with what the code does      *)
(* before the next one.  The target may answer anything to any transfer.   *)
(* A value is named by the request that caused the access and by the port  *)
(* accessed; the result of a comparison with a match value is left open.   *)
(***************************************************************************)
EXTENDS Naturals, Sequences, SequencesExt

CONSTANTS Commands,    \* the commands that may be given, of the set Command
          RetryCount,  \* DAP_Data.transfer.retry_count
          MatchRetry   \* DAP_Data.transfer.match_retry

VARIABLES
  cmd,     \* the command
  pc,      \* where its execution stands
  s,       \* the local variables
  resp,    \* the response: count, value, words
  target,  \* external: the JTAG chain selected, the value posted, the accesses made
  abort,   \* DAP_TransferAbort
  late     \* observation: the transfers made after an abort

vars == <<cmd, pc, s, resp, target, abort, late>>

Kinds == {"apRead", "dpRead", "apMatch", "dpMatch", "apWrite", "dpWrite", "mask"}
Reads == {"apRead", "dpRead", "apMatch", "dpMatch"}
Matches == {"apMatch", "dpMatch"}
Ap == {"apRead", "apMatch", "apWrite"}
HasData(k) == k \notin {"apRead", "dpRead"}

Ports == {"swd", "jtag", "jtagNoDevice", "none"}

\* A data word is four bytes, which also are what follows the command.
Command ==
  [type : {"transfer"}, port : Ports, requests : Seq(Kinds),
   byte : {"dpRead", "dpWrite"}, stamps : BOOLEAN]
  \cup
  [type : {"block"}, port : Ports, reg : {"apRead", "dpRead", "apWrite", "dpWrite"},
   words : Nat]

ASSUME CommandsAssumption ==
  Commands \subseteq Command /\ RetryCount \in Nat /\ MatchRetry \in Nat

-----------------------------------------------------------------------------
(* The request's bytes.  Two stand before the first request: the device    *)
(* index and the number of requests.                                       *)

Header == <<"index", "count">>

RequestBytes(k) ==
  <<k>> \o (IF HasData(k) THEN [i \in 1 .. 4 |-> cmd.byte] ELSE <<>>)

Bytes == Header \o FlattenSeq([i \in 1 .. Len(cmd.requests) |-> RequestBytes(cmd.requests[i])])

\* The byte at s.pos, which may be one after the command's.
Here == IF s.pos < Len(Bytes) THEN Bytes[s.pos + 1] ELSE cmd.byte

After(k) == IF HasData(k) THEN 5 ELSE 1

-----------------------------------------------------------------------------
Jtag == cmd.port = "jtag"
Block == cmd.type = "block"
Stamped == ~Block /\ cmd.stamps

Register(k) == IF k \in Ap THEN "ap" ELSE "dp"
Posts(k) == k \in Reads /\ (Jtag \/ k \in Ap)

Value(n, port) == [request |-> n, port |-> port]
NoValue == Value(0, "none")

\* What the target does with a transfer it answers OK.  With JTAG the selected
\* chain decides which port is accessed.  RDBUFF returns what was posted.
PortOf(k) == IF Jtag THEN target.chain ELSE Register(k)

Accessed(k) ==
  LET n == IF Block THEN Len(target.log) + 1 ELSE s.nth
      v == Value(n, PortOf(k))
  IN  [target EXCEPT
        !.result = IF Posts(k) THEN v ELSE IF Jtag THEN NoValue ELSE @,
        !.log = IF k \in Matches THEN @ ELSE Append(@, v)]

Returned(k) == IF Posts(k) THEN target.result
               ELSE Value(IF Block THEN Len(target.log) + 1 ELSE s.nth, PortOf(k))

\* JTAG_IR, unless ir, which the code keeps, says that the chain is selected.
Select(t, ir, port) == IF Jtag /\ ir # port THEN [t EXCEPT !.chain = port] ELSE t

Data(v) == <<[what |-> "data", of |-> v]>>
Stamp(n) == IF Stamped THEN <<[what |-> "stamp", of |-> Value(n, "none")]>> ELSE <<>>

\* The next transfer, with its retries.
Enter(p) == pc' = p
Fresh(l) == [l EXCEPT !.retry = RetryCount]

Init ==
  /\ cmd \in Commands /\ pc = "begin" /\ abort \in BOOLEAN /\ late = 0
  /\ s = [pos |-> 2, left |-> 0, cur |-> "dpRead", nth |-> 0, post |-> FALSE,
          check |-> FALSE, ir |-> "none", retry |-> 0, again |-> 0]
  /\ resp = [count |-> 0, value |-> "none", mismatch |-> FALSE, words |-> <<>>]
  /\ target = [chain |-> "none", result |-> NoValue, log |-> <<>>]

-----------------------------------------------------------------------------
(* One transfer on the wire: the target answers OK, or WAIT and it is tried *)
(* again, or the request has failed.  An SWD read whose parity is wrong is  *)
(* an ERROR after the access.                                               *)

Tried == /\ UNCHANGED cmd /\ abort' = abort
         /\ late' = IF abort THEN late + 1 ELSE late

\* Mutant: an abort is not seen while the target answers WAIT.
RetryThoughAborted ==
  /\ s.retry > 0 /\ s' = [s EXCEPT !.retry = @ - 1]
  /\ Tried /\ UNCHANGED <<pc, resp, target>>

Retry ==
  /\ s.retry > 0 /\ ~abort
  /\ s' = [s EXCEPT !.retry = @ - 1]
  /\ Tried /\ UNCHANGED <<pc, resp, target>>

Bad(ack) == \/ ack = "WAIT" /\ (s.retry = 0 \/ abort)
            \/ ack \in {"FAULT", "ERROR"}

\* The loop over the requests is left, or the block ended.  s.pos stays where
\* the request's data, if not loaded yet, begin.
Fail(k) ==
  \E ack \in {"WAIT", "FAULT", "ERROR"} :
    /\ Bad(ack) /\ Enter(IF Block THEN "done" ELSE "skip") /\ Tried
    /\ resp' = [resp EXCEPT !.value = ack]
    /\ target' \in {target} \cup
         (IF ack = "ERROR" /\ k \in Reads /\ ~Jtag THEN {Accessed(k)} ELSE {})
    /\ UNCHANGED s

FailRdbuff == Fail("none")

\* A request is done: the loop goes on unless the host has aborted.
Counted(l, r, words, value) ==
  /\ Enter(IF abort THEN "skip" ELSE "fetch")
  /\ s' = l
  /\ resp' = [r EXCEPT !.count = @ + 1, !.words = words, !.value = value]

\* A request is begun, nothing being posted: its data are loaded and, for
\* JTAG, its chain selected.
Begun(l, t, words, value, k) ==
  LET m == [l EXCEPT !.pos = @ + After(k) - 1]
      n == IF Jtag THEN [m EXCEPT !.ir = Register(k)] ELSE m
  IN  IF k = "mask"
      THEN /\ Counted(m, resp, words, "OK") /\ target' = t
      ELSE /\ s' = Fresh([n EXCEPT !.again = MatchRetry])
           /\ target' = Select(t, l.ir, Register(k))
           /\ resp' = [resp EXCEPT !.words = words, !.value = value]
           /\ Enter(CASE k \in Matches -> IF Posts(k) THEN "matchPost" ELSE "match"
                      [] k \in {"apRead", "dpRead"} -> IF Posts(k) THEN "post" ELSE "read"
                      [] OTHER -> "write")

\* The read goes out with the transfer that returns the value posted before.
Pipelined(k) ==
  k \in {"apRead", "dpRead"} /\ Posts(k) /\ (Jtag => s.ir = Register(k))

-----------------------------------------------------------------------------
\* The command's first bytes.  Without a port the requests are only skipped.
BeginTransfer ==
  /\ pc = "begin" /\ ~Block
  /\ abort' = (cmd.port = "none" /\ abort)
  /\ Enter(CASE cmd.port = "none" -> "skip"
             [] cmd.port = "jtagNoDevice" -> "done"
             [] OTHER -> "fetch")
  /\ s' = [s EXCEPT !.pos = IF cmd.port = "jtagNoDevice" THEN 1 ELSE 2,
                    !.left = Len(cmd.requests)]
  /\ UNCHANGED <<cmd, resp, target, late>>

Fetch ==
  /\ pc = "fetch"
  /\ LET k == Here
         l == [s EXCEPT !.left = @ - 1, !.pos = @ + 1, !.cur = k, !.nth = @ + 1]
     IN  \/ s.left = 0 /\ Enter("skip") /\ UNCHANGED <<s, resp, target>>
         \/ s.left > 0 /\ ~s.post /\ Begun(l, target, resp.words, resp.value, k)
         \/ /\ s.left > 0 /\ s.post /\ Pipelined(k)
            /\ Enter("pipeline") /\ s' = Fresh(l) /\ UNCHANGED <<resp, target>>
         \/ /\ s.left > 0 /\ s.post /\ ~Pipelined(k)
            /\ Enter("rdbuff") /\ UNCHANGED resp
            /\ s' = Fresh(IF Jtag THEN [l EXCEPT !.ir = "dp"] ELSE l)
            /\ target' = Select(target, s.ir, "dp")
  /\ UNCHANGED <<cmd, abort, late>>

\* Read the previous value and post the next read.
Pipeline ==
  /\ pc = "pipeline"
  /\ \/ /\ Tried /\ target' = Accessed(s.cur)
        /\ Counted([s EXCEPT !.check = FALSE], resp,
                   resp.words \o Data(target.result) \o Stamp(s.nth), "OK")
     \/ Retry \/ Fail(s.cur)

\* Mutant: the value read counts as posted still.
RdbuffStillPosted ==
  /\ pc = "rdbuff"
  /\ \/ /\ Tried
        /\ Begun(s, target, resp.words \o Data(target.result), "OK", s.cur)
     \/ Retry \/ FailRdbuff

\* Read the previous value; then the request itself is begun.
Rdbuff ==
  /\ pc = "rdbuff"
  /\ \/ /\ Tried
        /\ Begun([s EXCEPT !.post = FALSE], target,
                 resp.words \o Data(target.result), "OK", s.cur)
     \/ Retry \/ FailRdbuff

\* Post a read.
Post ==
  /\ pc = "post"
  /\ \/ /\ Tried /\ target' = Accessed(s.cur)
        /\ Counted([s EXCEPT !.post = TRUE, !.check = FALSE], resp,
                   resp.words \o Stamp(s.nth), "OK")
     \/ Retry \/ Fail(s.cur)

\* Read a DP register (SWD).
Read ==
  /\ pc = "read"
  /\ \/ /\ Tried /\ target' = Accessed(s.cur)
        /\ Counted([s EXCEPT !.check = FALSE], resp,
                   resp.words \o Stamp(s.nth) \o Data(Returned(s.cur)), "OK")
     \/ Retry \/ Fail(s.cur)

Write ==
  /\ pc = "write"
  /\ \/ /\ Tried /\ target' = Accessed(s.cur)
        /\ Counted([s EXCEPT !.check = TRUE], resp, resp.words \o Stamp(s.nth), "OK")
     \/ Retry \/ Fail(s.cur)

MatchPost ==
  /\ pc = "matchPost"
  /\ \/ /\ Tried /\ target' = Accessed(s.cur)
        /\ Enter("match") /\ s' = Fresh(s)
        /\ resp' = [resp EXCEPT !.value = "OK"]
     \/ Retry \/ Fail(s.cur)

\* Read until the value matches.  When a read fails, what is compared is the
\* value read before, which did not match, or, at first, any.
Match ==
  /\ pc = "match"
  /\ \/ /\ Tried /\ target' = Accessed(s.cur)
        /\ \/ Counted([s EXCEPT !.check = FALSE], resp, resp.words, "OK")
           \/ /\ s.again > 0 /\ ~abort
              /\ pc' = pc /\ s' = Fresh([s EXCEPT !.again = @ - 1])
              /\ resp' = [resp EXCEPT !.value = "OK"]
           \/ /\ s.again = 0 \/ abort
              /\ Enter("skip") /\ s' = s
              /\ resp' = [resp EXCEPT !.value = "OK", !.mismatch = TRUE]
     \/ Retry
     \/ \E ack \in {"WAIT", "FAULT", "ERROR"} :
          /\ Bad(ack) /\ Enter("skip") /\ Tried
          /\ \E m \in BOOLEAN :
               /\ s.again < MatchRetry /\ ack # "ERROR" => m
               /\ resp' = [resp EXCEPT !.value = ack, !.mismatch = m]
          /\ UNCHANGED <<s, target>>

\* The requests that are not executed.  Then what is still posted is read, or
\* the last write checked.
Skip ==
  /\ pc = "skip"
  /\ \/ /\ s.left > 0
        /\ s' = [s EXCEPT !.left = @ - 1, !.pos = @ + After(Here)]
        /\ pc' = pc /\ UNCHANGED target
     \/ /\ s.left = 0
        /\ LET ok == resp.value = "OK" /\ ~resp.mismatch
           IN  /\ Enter(IF ok /\ s.post THEN "last"
                        ELSE IF ok /\ (Jtag \/ s.check) THEN "verify" ELSE "done")
               /\ target' = IF ok THEN Select(target, s.ir, "dp") ELSE target
               /\ s' = Fresh(s)
  /\ UNCHANGED <<cmd, resp, abort, late>>

LastValue ==
  /\ pc = "last"
  /\ \/ /\ Tried /\ Enter("done")
        /\ resp' = [resp EXCEPT !.words = @ \o Data(target.result)]
        /\ UNCHANGED <<s, target>>
     \/ Retry
     \/ /\ \E ack \in {"WAIT", "FAULT", "ERROR"} :
             Bad(ack) /\ resp' = [resp EXCEPT !.value = ack]
        /\ Enter("done") /\ Tried /\ UNCHANGED <<s, target>>

Verify ==
  /\ pc = "verify"
  /\ \/ Retry
     \/ /\ \E ack \in {"OK", "WAIT", "FAULT", "ERROR"} :
             (ack = "OK" \/ Bad(ack)) /\ resp' = [resp EXCEPT !.value = ack]
        /\ Enter("done") /\ Tried /\ UNCHANGED <<s, target>>

-----------------------------------------------------------------------------
(* DAP_TransferBlock: one register, many words.                             *)

\* The last word of reads that are posted is read from RDBUFF.
FromRdbuff(left) == Posts(cmd.reg) /\ left = 1

BeginBlock ==
  /\ pc = "begin" /\ Block
  /\ abort' = (cmd.port = "none" /\ abort)
  /\ IF cmd.port \in {"none", "jtagNoDevice"} \/ cmd.words = 0
     THEN Enter("done") /\ UNCHANGED <<s, target>>
     ELSE /\ Enter(IF cmd.reg \notin Reads THEN "blockWrite"
                   ELSE IF Posts(cmd.reg) THEN "blockPost" ELSE "blockRead")
          /\ s' = Fresh([s EXCEPT !.left = cmd.words,
                                   !.ir = IF Jtag THEN Register(cmd.reg) ELSE @])
          /\ target' = Select(target, s.ir, Register(cmd.reg))
  /\ UNCHANGED <<cmd, resp, late>>

BlockPost ==
  /\ pc = "blockPost"
  /\ \/ /\ Tried /\ Enter("blockRead") /\ s' = Fresh(s)
        /\ resp' = [resp EXCEPT !.value = "OK"]
        /\ LET t == Accessed(cmd.reg)
           IN  target' = IF FromRdbuff(s.left) THEN Select(t, s.ir, "dp") ELSE t
     \/ Retry \/ Fail(cmd.reg)

\* Mutant: the last word is read from the register too.
BlockReadOneMore ==
  /\ pc = "blockRead"
  /\ \/ /\ Tried
        /\ Enter(IF s.left = 1 THEN "done" ELSE "blockRead")
        /\ s' = Fresh([s EXCEPT !.left = @ - 1])
        /\ resp' = [resp EXCEPT !.count = @ + 1, !.value = "OK",
                                !.words = @ \o Data(Returned(cmd.reg))]
        /\ target' = Accessed(cmd.reg)
     \/ Retry \/ Fail(cmd.reg)

BlockRead ==
  /\ pc = "blockRead"
  /\ \/ /\ Tried
        /\ Enter(IF s.left = 1 THEN "done" ELSE "blockRead")
        /\ s' = Fresh([s EXCEPT !.left = @ - 1])
        /\ resp' = [resp EXCEPT !.count = @ + 1, !.value = "OK",
                                !.words = @ \o Data(Returned(cmd.reg))]
        /\ LET t == IF FromRdbuff(s.left) THEN target ELSE Accessed(cmd.reg)
           IN  target' = IF FromRdbuff(s.left - 1) THEN Select(t, s.ir, "dp") ELSE t
     \/ Retry
     \/ Fail(IF FromRdbuff(s.left) THEN "none" ELSE cmd.reg)

BlockWrite ==
  /\ pc = "blockWrite"
  /\ \/ /\ Tried
        /\ Enter(IF s.left = 1 THEN "verify" ELSE "blockWrite")
        /\ s' = Fresh([s EXCEPT !.left = @ - 1])
        /\ resp' = [resp EXCEPT !.count = @ + 1, !.value = "OK"]
        /\ LET t == Accessed(cmd.reg)
           IN  target' = IF s.left = 1 THEN Select(t, s.ir, "dp") ELSE t
     \/ Retry \/ Fail(cmd.reg)

-----------------------------------------------------------------------------
\* The interrupt has received an abort while the command is executed.
Abort ==
  /\ pc \notin {"begin", "done"} /\ ~abort
  /\ abort' = TRUE
  /\ UNCHANGED <<cmd, pc, s, resp, target, late>>

Execute == \/ BeginTransfer \/ Fetch \/ Pipeline \/ Rdbuff \/ Post \/ Read \/ Write
           \/ MatchPost \/ Match \/ Skip \/ LastValue \/ Verify
           \/ BeginBlock \/ BlockPost \/ BlockRead \/ BlockWrite

Next == Execute \/ Abort

Spec == Init /\ [][Next]_vars

\* The task executes the command without waiting for anything.
Fairness == WF_vars(Execute)

-----------------------------------------------------------------------------
TypeOK ==
  /\ cmd \in Command /\ abort \in BOOLEAN /\ late \in Nat
  /\ pc \in {"begin", "fetch", "pipeline", "rdbuff", "post", "read", "write", "matchPost",
             "match", "skip", "last", "verify", "blockPost", "blockRead", "blockWrite", "done"}
  /\ s.pos \in Nat /\ s.left \in Nat /\ s.retry \in 0 .. RetryCount
  /\ s.again \in 0 .. MatchRetry /\ s.ir \in {"none", "ap", "dp"}
  /\ resp.value \in {"none", "OK", "WAIT", "FAULT", "ERROR"}
  /\ \A i \in 1 .. Len(resp.words) : resp.words[i].what \in {"data", "stamp"}

Request(n) == cmd.requests[n]

\* What the host is to find in the response for a request.
Answer(n) ==
  (IF Request(n) \in Matches \cup {"mask"} THEN <<>> ELSE Stamp(n))
  \o (IF Request(n) \in {"apRead", "dpRead"} THEN Data(Value(n, Register(Request(n)))) ELSE <<>>)

Answers(n) ==
  IF Block
  THEN IF cmd.reg \in Reads
       THEN [i \in 1 .. n |-> Data(Value(i, Register(cmd.reg)))[1]] ELSE <<>>
  ELSE FlattenSeq([i \in 1 .. n |-> Answer(i)])

Succeeded == pc = "done" /\ resp.value = "OK" /\ ~resp.mismatch

\* The values in the response are those of the reads, in the order of the
\* requests, none of them twice, lost or another's, although they arrive one
\* or more transfers late; all of them if the command succeeds.
DataInOrder ==
  /\ TypeOK
  /\ IsPrefix(resp.words, Answers(IF Block THEN cmd.words ELSE Len(cmd.requests)))
  /\ Succeeded => resp.words = Answers(resp.count)

\* A register is accessed once for every request or word, however often the
\* target has answered WAIT: an access may have side effects.  A request that
\* is counted has been executed.
AccessedOnce ==
  LET log == target.log
  IN  /\ \A i \in 1 .. Len(log) : \A j \in 1 .. i - 1 : log[j].request < log[i].request
      /\ \A i \in 1 .. Len(log) :
           log[i].port = Register(IF Block THEN cmd.reg ELSE Request(log[i].request))
      /\ Block => Len(log) <= cmd.words /\ resp.count <= Len(log)
      /\ ~Block => \A n \in 1 .. resp.count :
           Request(n) \in Matches \cup {"mask"} \/ \E i \in 1 .. Len(log) : log[i].request = n

\* Once the host has aborted, a transfer command makes at most four more
\* transfers: the value posted, the request's, one more, the last check.
AbortIsPrompt == ~Block => late <= 4

\* Every command is answered, also when the target never stops to answer WAIT.
CommandEnds == <>(pc = "done")

\* "return: ... number of bytes in request": where the next command begins
\* when commands are executed together.
RequestConsumed == pc = "done" /\ ~Block => s.pos = Len(Bytes)
=============================================================================
