--------------------------- MODULE ServicesProofs ---------------------------
(***************************************************************************)
(* The components of MCServices.tla, whatever the others do.  Transfer     *)
(* commands (DapTransfer), whatever the target answers and however often   *)
(* it is asked again: an abort ends the command within four transfers, the *)
(* response holds the values of the reads in the order of the requests,    *)
(* and every register is accessed once.  Then hardware tests (TestRunner), *)
(* firmware upload (OtaUpload), the XVC server (XvcServer), settings and   *)
(* boot (Device).                                                          *)
(***************************************************************************)
EXTENDS MCServices, WellFoundedInduction, SequenceTheorems, TLAPS

-----------------------------------------------------------------------------
(* Aborts.                                                                   *)

\* How many transfers may have been made since the abort, at each point.
Budget ==
  [p \in {"begin", "fetch", "pipeline", "rdbuff", "post", "read", "write", "matchPost",
          "match", "skip", "last", "verify", "done"} |->
     IF p \in {"begin", "fetch", "pipeline", "rdbuff"} THEN 0
     ELSE IF p \in {"post", "read", "write", "matchPost"} THEN 1
     ELSE IF p = "match" THEN 2
     ELSE IF p = "done" THEN 4 ELSE 3]

Within(p, n) == p \in DOMAIN Budget /\ n \in Nat /\ n <= Budget[p]

\* A transfer after an abort is counted, and the loop over the requests is left
\* at the next look at the flag.
PromptInv == ~Block => Within(pc, late) /\ (~abort => late = 0)

-----------------------------------------------------------------------------
\* A transfer counts when the host has aborted.
LEMMA TriedOne ==
  ASSUME ~Block, PromptInv, Tried
  PROVE  /\ ~Block' /\ abort' = abort /\ late' \in Nat /\ late' <= Budget[pc] + 1
         /\ ~abort => late' = 0
<1>1. pc \in DOMAIN Budget /\ late \in Nat /\ late <= Budget[pc] /\ Budget[pc] \in Nat
  BY DEF PromptInv, Within, Budget
<1>2. QED BY <1>1 DEF PromptInv, Tried, Block

\* With the flag seen by Retry, the point and the count stay.
LEMMA RetryPromptInv == ASSUME ~Block, PromptInv, Retry PROVE PromptInv'
<1>1. late' = late /\ pc' = pc /\ abort' = abort /\ cmd' = cmd
  BY DEF Retry, Tried
<1>2. QED BY <1>1 DEF PromptInv, Block

\* A failed request is followed by the skipping of the others.
LEMMA FailPromptInv ==
  ASSUME ~Block, PromptInv, NEW k, Fail(k), Budget[pc] <= 2 PROVE PromptInv'
<1>1. pc' = "skip" /\ Tried
  BY DEF Fail, Enter
<1>2. Budget[pc] \in Nat
  BY DEF PromptInv, Within, Budget
<1>3. late' \in Nat /\ late' <= 3 /\ (~abort' => late' = 0)
  BY <1>1, <1>2, TriedOne
<1>4. QED BY <1>1, <1>3 DEF PromptInv, Within, Budget

\* A request that is counted: the loop goes on only when nothing was aborted.
LEMMA CountedPromptInv ==
  ASSUME ~Block', late' \in Nat, late' <= 3, abort' = abort, ~abort => late' = 0,
         NEW l, NEW r, NEW w, NEW v, Counted(l, r, w, v)
  PROVE  PromptInv'
<1>1. pc' = IF abort THEN "skip" ELSE "fetch"
  BY DEF Counted, Enter
<1>2. QED BY <1>1 DEF PromptInv, Within, Budget

\* A request that is begun has made no transfer of its own yet.
LEMMA BegunPromptInv ==
  ASSUME ~Block', late' \in Nat, late' <= 1, abort' = abort, ~abort => late' = 0,
         NEW l, NEW t, NEW w, NEW v, NEW k, Begun(l, t, w, v, k)
  PROVE  PromptInv'
<1>1. CASE k = "mask"
  <2>1. \E m : Counted(m, resp, w, "OK")
    BY <1>1 DEF Begun
  <2>2. QED BY <2>1, CountedPromptInv
<1>2. CASE k # "mask"
  <2>1. pc' \in {"matchPost", "match", "post", "read", "write"}
    BY <1>2 DEF Begun, Enter
  <2>2. QED BY <2>1 DEF PromptInv, Within, Budget
<1>3. QED BY <1>1, <1>2

-----------------------------------------------------------------------------
LEMMA BeginPromptInv == ASSUME ~Block, PromptInv, BeginTransfer PROVE PromptInv'
<1>1. late' = 0
  BY DEF BeginTransfer, PromptInv, Within, Budget
<1>2. pc' \in {"skip", "done", "fetch"}
  BY DEF BeginTransfer, Enter
<1>3. QED BY <1>1, <1>2 DEF PromptInv, Within, Budget

LEMMA FetchPromptInv == ASSUME ~Block, PromptInv, Fetch PROVE PromptInv'
<1>1. late' = late /\ late = 0 /\ abort' = abort /\ ~Block'
  BY DEF Fetch, PromptInv, Within, Budget, Block
<1>2. CASE pc' \in {"skip", "pipeline", "rdbuff"}
  BY <1>1, <1>2 DEF PromptInv, Within, Budget
<1>3. CASE \E l, k : Begun(l, target, resp.words, resp.value, k)
  BY <1>1, <1>3, BegunPromptInv
<1>4. QED BY <1>2, <1>3 DEF Fetch, Enter

LEMMA PipelinePromptInv == ASSUME ~Block, PromptInv, Pipeline PROVE PromptInv'
<1>1. pc = "pipeline" /\ Budget[pc] = 0
  BY DEF Pipeline, Budget
<1>2. CASE Tried /\ \E l, w : Counted(l, resp, w, "OK")
  BY <1>1, <1>2, TriedOne, CountedPromptInv
<1>3. QED BY <1>1, <1>2, RetryPromptInv, FailPromptInv DEF Pipeline

LEMMA RdbuffPromptInv == ASSUME ~Block, PromptInv, Rdbuff PROVE PromptInv'
<1>1. pc = "rdbuff" /\ Budget[pc] = 0
  BY DEF Rdbuff, Budget
<1>2. CASE Tried /\ \E l, w : Begun(l, target, w, "OK", s.cur)
  BY <1>1, <1>2, TriedOne, BegunPromptInv
<1>3. QED BY <1>1, <1>2, RetryPromptInv, FailPromptInv DEF Rdbuff, FailRdbuff

\* The requests that make one transfer.
LEMMA RequestPromptInv == ASSUME ~Block, PromptInv, Post \/ Read \/ Write PROVE PromptInv'
<1>1. Budget[pc] = 1
  BY DEF Post, Read, Write, Budget
<1>2. CASE Tried /\ \E l, w : Counted(l, resp, w, "OK")
  BY <1>1, <1>2, TriedOne, CountedPromptInv
<1>3. QED BY <1>1, <1>2, RetryPromptInv, FailPromptInv DEF Post, Read, Write

LEMMA MatchPostPromptInv == ASSUME ~Block, PromptInv, MatchPost PROVE PromptInv'
<1>1. Budget[pc] = 1
  BY DEF MatchPost, Budget
<1>2. CASE Tried /\ pc' = "match"
  <2>1. late' \in Nat /\ late' <= 2 /\ (~abort' => late' = 0)
    BY <1>1, <1>2, TriedOne
  <2>2. QED BY <1>2, <2>1 DEF PromptInv, Within, Budget
<1>3. QED BY <1>1, <1>2, RetryPromptInv, FailPromptInv DEF MatchPost, Enter

\* A value that does not match is read again only when nothing was aborted.
LEMMA MatchPromptInv == ASSUME ~Block, PromptInv, Match PROVE PromptInv'
<1>1. pc = "match" /\ Budget[pc] = 2
  BY DEF Match, Budget
<1>2. ASSUME Tried PROVE /\ ~Block' /\ abort' = abort /\ late' \in Nat /\ late' <= 3
                         /\ ~abort => late' = 0
  BY <1>1, <1>2, TriedOne
<1>3. CASE Tried /\ \E l : Counted(l, resp, resp.words, "OK")
  BY <1>2, <1>3, CountedPromptInv
<1>4. CASE Tried /\ ~abort /\ pc' = pc
  BY <1>1, <1>2, <1>4 DEF PromptInv, Within, Budget
<1>5. CASE Tried /\ pc' = "skip"
  BY <1>2, <1>5 DEF PromptInv, Within, Budget
<1>6. QED BY <1>3, <1>4, <1>5, RetryPromptInv DEF Match, Enter

LEMMA SkipPromptInv == ASSUME ~Block, PromptInv, Skip PROVE PromptInv'
<1>1. late' = late /\ late \in Nat /\ late <= 3 /\ abort' = abort
  BY DEF Skip, PromptInv, Within, Budget
<1>2. pc' \in {"skip", "last", "verify", "done"}
  BY DEF Skip, Enter
<1>3. QED BY <1>1, <1>2 DEF Skip, PromptInv, Within, Budget

LEMMA LastPromptInv == ASSUME ~Block, PromptInv, LastValue \/ Verify PROVE PromptInv'
<1>1. Budget[pc] = 3
  BY DEF LastValue, Verify, Budget
<1>2. CASE Tried /\ pc' = "done"
  <2>1. late' \in Nat /\ late' <= 4 /\ (~abort' => late' = 0)
    BY <1>1, <1>2, TriedOne
  <2>2. QED BY <1>2, <2>1 DEF PromptInv, Within, Budget
<1>3. QED BY <1>2, RetryPromptInv DEF LastValue, Verify, Enter

\* The steps of DAP_TransferBlock are of a block.
LEMMA BlockSteps ==
  ASSUME ~Block, PromptInv, BeginBlock \/ BlockPost \/ BlockRead \/ BlockWrite PROVE FALSE
<1>1. pc \notin {"blockPost", "blockRead", "blockWrite"}
  BY DEF PromptInv, Within, Budget
<1>2. QED BY <1>1 DEF BeginBlock, BlockPost, BlockRead, BlockWrite

LEMMA NextPromptInv == PromptInv /\ [Next]_vars => PromptInv'
<1> SUFFICES ASSUME PromptInv, [Next]_vars PROVE PromptInv'
  OBVIOUS
<1>1. CASE Block
  <2>1. cmd' = cmd
    BY DEF Next, vars, Execute, Abort, BeginTransfer, Fetch, Pipeline, Rdbuff, Post, Read,
           Write, MatchPost, Match, Skip, LastValue, Verify, BeginBlock, BlockPost,
           BlockRead, BlockWrite, Tried, Retry, Fail, FailRdbuff
  <2>2. QED BY <1>1, <2>1 DEF PromptInv, Block
<1>2. CASE ~Block /\ Abort
  BY <1>2 DEF Abort, PromptInv, Block
<1>3. CASE UNCHANGED vars
  BY <1>3 DEF vars, PromptInv, Block
<1>4. CASE ~Block /\ Execute
  BY <1>4, BeginPromptInv, FetchPromptInv, PipelinePromptInv, RdbuffPromptInv, RequestPromptInv, MatchPostPromptInv,
     MatchPromptInv, SkipPromptInv, LastPromptInv, BlockSteps DEF Execute
<1>5. QED BY <1>1, <1>2, <1>3, <1>4 DEF Next

-----------------------------------------------------------------------------
\* Once the host has aborted, a transfer command makes at most four more
\* transfers, whatever its requests, the retries and the target's answers.
THEOREM AbortsPrompt == Spec => []AbortIsPrompt
<1>1. Init => PromptInv
  BY DEF Init, PromptInv, Within, Budget
<1>2. PromptInv => AbortIsPrompt
  <2> SUFFICES ASSUME PromptInv, ~Block PROVE late <= 4
    BY DEF AbortIsPrompt
  <2>1. late \in Nat /\ pc \in DOMAIN Budget /\ late <= Budget[pc]
    BY DEF PromptInv, Within
  <2>2. Budget[pc] \in 0 .. 4
    BY <2>1 DEF Budget
  <2>3. QED BY <2>1, <2>2
<1>3. QED BY <1>1, <1>2, NextPromptInv, PTL DEF Spec

-----------------------------------------------------------------------------
(* Sequences joined together, as the bytes of a command and the answers of   *)
(* a response are: induction over how many, by the least counterexample.     *)

LEMMA LessThan == \E R : IsWellFoundedOn(R, Nat) /\ \A x, y \in Nat : <<x, y>> \in R <=> x < y
<1>1. \A x, y \in Nat : <<x, y>> \in OpToRel(<, Nat) <=> x < y
  BY DEF OpToRel
<1>2. QED BY <1>1, NatLessThanWellFounded

LEMMA Least == ASSUME NEW T, T \subseteq Nat, T # {} PROVE \E x \in T : \A y \in T : x <= y
<1>1. PICK R : IsWellFoundedOn(R, Nat) /\ \A x, y \in Nat : <<x, y>> \in R <=> x < y
  BY LessThan
<1>2. IsWellFoundedOn(R, Nat)
  BY <1>1
<1> HIDE <1>1
<1>3. \E x \in T : \A y \in T : ~ (<<y, x>> \in R)
  BY <1>2, WFMin
<1>5. PICK x \in T : \A y \in T : ~ (<<y, x>> \in R)
  BY <1>3
<1>4. \A y \in T : ~(y < x)
  BY <1>1, <1>5
<1>6. QED BY <1>4

LEMMA SetInduction ==
  ASSUME NEW S, 0 \in S, \A n \in Nat : n \in S => n + 1 \in S PROVE Nat \subseteq S
<1> SUFFICES ASSUME Nat \ S # {} PROVE FALSE
  OBVIOUS
<1>1. PICK m \in Nat \ S : \A y \in Nat \ S : m <= y
  <2> DEFINE T == Nat \ S
  <2>1. T # {} /\ T \subseteq Nat OBVIOUS
  <2> HIDE DEF T
  <2>2. \E x \in T : \A y \in T : x <= y
    BY <2>1, Least
  <2>3. QED BY <2>2 DEF T
<1>2. m # 0 /\ m - 1 \in Nat /\ m - 1 \notin Nat \ S
  BY <1>1
<1>3. QED BY <1>2

\* The beginnings of q joined together, one longer than the other.
Joins(g, q, n) == g = [i \in 1 .. n |-> IF i = 1 THEN q[i] ELSE g[i - 1] \o q[i]]

LEMMA JoinsAt ==
  ASSUME NEW q, NEW n \in Nat, NEW g, Joins(g, q, n), NEW i \in 1 .. n
  PROVE  g[i] = IF i = 1 THEN q[i] ELSE g[i - 1] \o q[i]
<1>1. PICK h : h = g
  OBVIOUS
<1>2. h = [j \in 1 .. n |-> IF j = 1 THEN q[j] ELSE g[j - 1] \o q[j]]
  BY <1>1, Zenon DEF Joins
<1>3. h[i] = IF i = 1 THEN q[i] ELSE g[i - 1] \o q[i]
  BY <1>2, Zenon
<1>4. QED BY <1>1, <1>3, Zenon

LEMMA JoinsExist == ASSUME NEW q, NEW n \in Nat PROVE \E g : Joins(g, q, n)
<1> DEFINE S == {m \in Nat : \E g : Joins(g, q, m)}
<1>1. 0 \in S
  <2>1. Joins([i \in {} |-> 0], q, 0)
    BY DEF Joins
  <2>2. QED BY <2>1
<1>2. ASSUME NEW m \in Nat, m \in S PROVE m + 1 \in S
  <2>1. PICK g : Joins(g, q, m)
    BY <1>2
  <2> DEFINE h == [i \in 1 .. m + 1 |-> IF i <= m THEN g[i]
                                        ELSE IF i = 1 THEN q[1] ELSE g[m] \o q[i]]
  <2>2. ASSUME NEW i \in 1 .. m + 1 PROVE h[i] = IF i = 1 THEN q[i] ELSE h[i - 1] \o q[i]
    <3>1. CASE i <= m
      <4>1. g[i] = IF i = 1 THEN q[i] ELSE g[i - 1] \o q[i]
        BY <2>1, <3>1, JoinsAt
      <4>2. h[i] = g[i] /\ (i # 1 => h[i - 1] = g[i - 1])
        BY <3>1
      <4>3. QED BY <4>1, <4>2
    <3>2. CASE i = m + 1
      <4>1. i # 1 => h[i - 1] = g[m]
        BY <3>2
      <4>2. QED BY <3>2, <4>1
    <3>3. QED BY <3>1, <3>2
  <2>3. Joins(h, q, m + 1)
    <3>1. h = [i \in 1 .. m + 1 |-> h[i]]
      OBVIOUS
    <3> HIDE DEF h
    <3>2. QED BY <2>2, <3>1 DEF Joins
  <2>4. QED BY <2>3
<1>3. Nat \subseteq S
  <2> HIDE DEF S
  <2>1. QED BY <1>1, <1>2, SetInduction
<1>4. QED BY <1>3

Agree(p, q, n) == \A i \in 1 .. n : p[i] = q[i]

LEMMA JoinsAgree ==
  ASSUME NEW q, NEW m \in Nat, NEW n \in Nat, NEW p, m <= n, Agree(p, q, m),
         NEW g, NEW h, Joins(g, p, m), Joins(h, q, n)
  PROVE  Agree(g, h, m)
<1> USE DEF Agree
<1> DEFINE S == {k \in Nat : k \in 1 .. m => g[k] = h[k]}
<1>1. 0 \in S
  OBVIOUS
<1>2. ASSUME NEW k \in Nat, k \in S PROVE k + 1 \in S
  <2> SUFFICES ASSUME k + 1 \in 1 .. m PROVE g[k + 1] = h[k + 1]
    OBVIOUS
  <2>1. /\ g[k + 1] = IF k + 1 = 1 THEN p[k + 1] ELSE g[(k + 1) - 1] \o p[k + 1]
        /\ h[k + 1] = IF k + 1 = 1 THEN q[k + 1] ELSE h[(k + 1) - 1] \o q[k + 1]
    <3>1. k + 1 \in 1 .. m /\ k + 1 \in 1 .. n
      OBVIOUS
    <3>2. QED BY <3>1, JoinsAt
  <2>2. p[k + 1] = q[k + 1] /\ (k + 1) - 1 = k
    OBVIOUS
  <2>3. k # 0 => g[k] = h[k]
    BY <1>2
  <2>4. QED BY <2>1, <2>2, <2>3
<1>3. Nat \subseteq S
  <2> HIDE DEF S
  <2>1. QED BY <1>1, <1>2, SetInduction
<1>4. QED BY <1>3

LEMMA FlattenIsJoined ==
  ASSUME NEW q, Len(q) \in Nat \ {0} PROVE \E g : Joins(g, q, Len(q)) /\ FlattenSeq(q) = g[Len(q)]
<1> DEFINE g == CHOOSE g : g = [i \in 1 .. Len(q) |-> IF i = 1 THEN q[i] ELSE g[i - 1] \o q[i]]
<1>1. FlattenSeq(q) = g[Len(q)]
  BY DEF FlattenSeq
<1>2. Joins(g, q, Len(q))
  <2>1. \E f : f = [i \in 1 .. Len(q) |-> IF i = 1 THEN q[i] ELSE f[i - 1] \o q[i]]
    BY JoinsExist DEF Joins
  <2>2. QED BY <2>1 DEF Joins
<1>3. QED BY <1>1, <1>2

LEMMA FlattenEmpty == ASSUME NEW q, Len(q) = 0 PROVE FlattenSeq(q) = q
BY DEF FlattenSeq

LongerBy(q, p, e) ==
  /\ Len(q) \in Nat /\ Len(p) = Len(q) + 1
  /\ Agree(q, p, Len(q))
  /\ p[Len(q) + 1] = e

LEMMA FlattenLonger ==
  ASSUME NEW q, NEW p, NEW e, LongerBy(q, p, e), Len(q) # 0
  PROVE  FlattenSeq(p) = FlattenSeq(q) \o e
<1> DEFINE n == Len(q)
<1>0. /\ n \in Nat \ {0} /\ Len(q) = n /\ Len(p) = n + 1
      /\ Agree(q, p, n)
      /\ p[n + 1] = e
  BY DEF LongerBy
<1> HIDE DEF n
<1>1. PICK g : Joins(g, q, n) /\ FlattenSeq(q) = g[n]
  BY <1>0, FlattenIsJoined
<1>2. n + 1 \in Nat \ {0} /\ n <= n + 1 /\ n + 1 \in 1 .. n + 1 /\ n \in 1 .. n
  BY <1>0
<1>3. PICK h : Joins(h, p, n + 1) /\ FlattenSeq(p) = h[n + 1]
  BY <1>0, <1>2, FlattenIsJoined
<1>4. h[n + 1] = IF n + 1 = 1 THEN p[n + 1] ELSE h[(n + 1) - 1] \o p[n + 1]
  BY <1>2, <1>3, JoinsAt
<1>5. Agree(g, h, n)
  BY <1>1, <1>2, <1>3, <1>0, JoinsAgree
<1>6. g[n] = h[n]
  BY <1>2, <1>5 DEF Agree
<1>7. h[n + 1] = h[n] \o p[n + 1]
  <2>1. n + 1 # 1 /\ (n + 1) - 1 = n
    BY <1>0
  <2>2. QED BY <1>4, <2>1
<1>8. QED BY <1>0, <1>1, <1>3, <1>6, <1>7

LEMMA FlattenNext ==
  ASSUME NEW D, NEW q \in Seq(Seq(D)), NEW e \in Seq(D)
  PROVE  FlattenSeq(Append(q, e)) = FlattenSeq(q) \o e
<1>1. /\ Len(Append(q, e)) = Len(q) + 1 /\ Len(q) \in Nat
      /\ \A i \in 1 .. Len(q) : q[i] = Append(q, e)[i]
      /\ Append(q, e)[Len(q) + 1] = e
  OBVIOUS
<1>2. CASE Len(q) = 0
  <2>1. FlattenSeq(q) = q
    BY <1>2, FlattenEmpty
  <2>2. PICK h : Joins(h, Append(q, e), 1) /\ FlattenSeq(Append(q, e)) = h[1]
    <3>1. Len(Append(q, e)) = 1 /\ 1 \in Nat \ {0}
      BY <1>1, <1>2
    <3>2. \E h : Joins(h, Append(q, e), Len(Append(q, e)))
                  /\ FlattenSeq(Append(q, e)) = h[Len(Append(q, e))]
      BY <3>1, FlattenIsJoined
    <3>3. QED BY <3>1, <3>2
  <2>3. h[1] = e
    BY <1>1, <1>2, <2>2, JoinsAt
  <2>4. q \o e = e
    BY <1>2
  <2>5. FlattenSeq(q) \o e = e
    BY <2>1, <2>4, Zenon
  <2>6. FlattenSeq(Append(q, e)) = e
    BY <2>2, <2>3
  <2>7. QED BY <2>5, <2>6, Zenon
<1>3. CASE Len(q) # 0
  <2>1. LongerBy(q, Append(q, e), e)
    BY <1>1 DEF LongerBy, Agree
  <2>2. QED BY <1>3, <2>1, FlattenLonger
<1>4. QED BY <1>2, <1>3

-----------------------------------------------------------------------------
\* The first n sequences of f joined together.
Joined(f, n) == FlattenSeq([i \in 1 .. n |-> f[i]])

LEMMA JoinedNone == ASSUME NEW f PROVE Joined(f, 0) = <<>>
<1>1. Len([i \in 1 .. 0 |-> f[i]]) = 0 /\ [i \in 1 .. 0 |-> f[i]] = <<>>
  OBVIOUS
<1>2. QED BY <1>1, FlattenEmpty DEF Joined

LEMMA JoinedNext ==
  ASSUME NEW D, NEW N \in Nat, NEW f \in [1 .. N -> Seq(D)], NEW n \in Nat, n + 1 <= N
  PROVE  Joined(f, n + 1) = Joined(f, n) \o f[n + 1]
<1> DEFINE q == [i \in 1 .. n |-> f[i]]
<1>1. q \in Seq(Seq(D)) /\ f[n + 1] \in Seq(D)
  OBVIOUS
<1>2. Append(q, f[n + 1]) = [i \in 1 .. n + 1 |-> f[i]]
  OBVIOUS
<1>3. FlattenSeq(Append(q, f[n + 1])) = FlattenSeq(q) \o f[n + 1]
  <2> HIDE DEF q
  <2>1. QED BY <1>1, FlattenNext
<1>4. QED BY <1>2, <1>3 DEF Joined

LEMMA JoinedIsSeq ==
  ASSUME NEW D, NEW N \in Nat, NEW f \in [1 .. N -> Seq(D)]
  PROVE  \A n \in 0 .. N : Joined(f, n) \in Seq(D)
<1> DEFINE S == {n \in Nat : n <= N => Joined(f, n) \in Seq(D)}
<1>1. 0 \in S
  <2>1. Joined(f, 0) = <<>> /\ <<>> \in Seq(D)
    BY JoinedNone
  <2>2. Joined(f, 0) \in Seq(D)
    BY <2>1, Zenon
  <2>3. QED BY <2>2
<1>2. ASSUME NEW n \in Nat, n \in S PROVE n + 1 \in S
  <2> SUFFICES ASSUME n + 1 <= N PROVE Joined(f, n + 1) \in Seq(D)
    OBVIOUS
  <2>1. Joined(f, n) \in Seq(D) /\ f[n + 1] \in Seq(D)
    BY <1>2
  <2>2. Joined(f, n + 1) = Joined(f, n) \o f[n + 1]
    BY JoinedNext
  <2>3. Joined(f, n) \o f[n + 1] \in Seq(D)
    BY <2>1, ConcatProperties
  <2>4. QED BY <2>2, <2>3, Zenon
<1>3. Nat \subseteq S
  <2> HIDE DEF S
  <2>1. QED BY <1>1, <1>2, SetInduction
<1>4. QED BY <1>3

LEMMA PrefixIs ==
  ASSUME NEW D, NEW p \in Seq(D), NEW q \in Seq(D)
  PROVE  IsPrefix(p, q) <=> Len(p) <= Len(q) /\ \A i \in 1 .. Len(p) : p[i] = q[i]
BY DEF IsPrefix

LEMMA PrefixJoin ==
  ASSUME NEW D, NEW p \in Seq(D), NEW q \in Seq(D) PROVE IsPrefix(p, p \o q) /\ p \o q \in Seq(D)
<1>1. p \o q \in Seq(D) /\ Len(p \o q) = Len(p) + Len(q) /\ Len(p) \in Nat /\ Len(q) \in Nat
  BY ConcatProperties
<1>2. \A i \in 1 .. Len(p) : (p \o q)[i] = p[i]
  BY <1>1, ConcatProperties
<1>3. ASSUME NEW r \in Seq(D), Len(r) = Len(p) + Len(q), \A i \in 1 .. Len(p) : r[i] = p[i]
      PROVE  IsPrefix(p, r)
  BY <1>1, <1>3, PrefixIs
<1>4. QED BY <1>1, <1>2, <1>3

LEMMA PrefixOf ==
  ASSUME NEW D, NEW p \in Seq(D), NEW q \in Seq(D), NEW r \in Seq(D),
         IsPrefix(p, q), IsPrefix(q, r)
  PROVE  IsPrefix(p, r)
<1>1. Len(p) <= Len(q) /\ \A i \in 1 .. Len(p) : p[i] = q[i]
  BY PrefixIs
<1>2. Len(q) <= Len(r) /\ \A i \in 1 .. Len(q) : q[i] = r[i]
  BY PrefixIs
<1>3. Len(p) <= Len(r) /\ \A i \in 1 .. Len(p) : p[i] = r[i]
  BY <1>1, <1>2
<1>4. QED BY <1>3, PrefixIs

LEMMA JoinedPrefix ==
  ASSUME NEW D, NEW N \in Nat, NEW f \in [1 .. N -> Seq(D)], NEW m \in 0 .. N
  PROVE  \A n \in m .. N : IsPrefix(Joined(f, m), Joined(f, n))
<1> DEFINE S == {k \in Nat : m + k <= N => IsPrefix(Joined(f, m), Joined(f, m + k))}
<1>1. 0 \in S
  <2>1. Joined(f, m) \in Seq(D) /\ m + 0 = m
    BY JoinedIsSeq
  <2>2. QED BY <2>1, PrefixIs
<1>2. ASSUME NEW k \in Nat, k \in S PROVE k + 1 \in S
  <2> SUFFICES ASSUME m + (k + 1) <= N PROVE IsPrefix(Joined(f, m), Joined(f, m + (k + 1)))
    OBVIOUS
  <2> DEFINE n == m + k
  <2>1. n \in Nat /\ n \in 0 .. N /\ n + 1 \in 0 .. N /\ n + 1 <= N /\ m + (k + 1) = n + 1
    OBVIOUS
  <2>2. IsPrefix(Joined(f, m), Joined(f, n))
    BY <1>2, <2>1
  <2> HIDE DEF n
  <2>3. /\ Joined(f, m) \in Seq(D) /\ Joined(f, n) \in Seq(D) /\ Joined(f, n + 1) \in Seq(D)
        /\ f[n + 1] \in Seq(D)
    BY <2>1, JoinedIsSeq
  <2>4. Joined(f, n + 1) = Joined(f, n) \o f[n + 1]
    BY <2>1, JoinedNext
  <2>5. IsPrefix(Joined(f, n), Joined(f, n + 1))
    BY <2>3, <2>4, PrefixJoin
  <2>6. IsPrefix(Joined(f, m), Joined(f, n + 1))
    BY <2>2, <2>3, <2>5, PrefixOf
  <2>7. QED BY <2>1, <2>6
<1>3. Nat \subseteq S
  <2> HIDE DEF S
  <2>1. QED BY <1>1, <1>2, SetInduction
<1>4. ASSUME NEW n \in m .. N PROVE IsPrefix(Joined(f, m), Joined(f, n))
  <2>1. n - m \in Nat /\ m + (n - m) = n
    OBVIOUS
  <2>2. n - m \in S
    BY <1>3, <2>1
  <2>3. QED BY <2>1, <2>2
<1>5. QED BY <1>4

-----------------------------------------------------------------------------
(* Where the requests of a command stand, and what is to be answered.        *)

Transfer == [type : {"transfer"}, port : Ports, requests : Seq(Kinds),
             byte : {"dpRead", "dpWrite"}, stamps : BOOLEAN]

Values == [request : Nat, port : {"none", "ap", "dp"}]
WordSet == [what : {"data", "stamp"}, of : Values]

BytesOf(c, k) == <<k>> \o (IF HasData(k) THEN [i \in 1 .. 4 |-> c.byte] ELSE <<>>)
ByteSeqs(c) == [i \in 1 .. Len(c.requests) |-> BytesOf(c, c.requests[i])]
Offset(c, n) == 2 + Len(Joined(ByteSeqs(c), n))

StampOf(c, n) == IF c.stamps THEN <<[what |-> "stamp", of |-> Value(n, "none")]>> ELSE <<>>
DataOf(c, n) == IF c.requests[n] \in {"apRead", "dpRead"}
                THEN Data(Value(n, Register(c.requests[n]))) ELSE <<>>
AnswerOf(c, n) ==
  (IF c.requests[n] \in Matches \cup {"mask"} THEN <<>> ELSE StampOf(c, n)) \o DataOf(c, n)
AnswerSeqs(c) == [i \in 1 .. Len(c.requests) |-> AnswerOf(c, i)]
AnswersOf(c, n) == Joined(AnswerSeqs(c), n)

LEMMA ByteSeqsType ==
  ASSUME NEW c \in Transfer
  PROVE  /\ Len(c.requests) \in Nat
         /\ ByteSeqs(c) \in [1 .. Len(c.requests) -> Seq(Kinds)]
         /\ \A k \in Kinds : /\ BytesOf(c, k) \in Seq(Kinds) /\ BytesOf(c, k)[1] = k
                             /\ Len(BytesOf(c, k)) = After(k) /\ After(k) \in Nat \ {0}
<1>1. c.requests \in Seq(Kinds) /\ c.byte \in Kinds
  BY DEF Transfer, Kinds
<1>2. ASSUME NEW k \in Kinds
      PROVE  /\ BytesOf(c, k) \in Seq(Kinds) /\ BytesOf(c, k)[1] = k
             /\ Len(BytesOf(c, k)) = After(k) /\ After(k) \in Nat \ {0}
  <2> DEFINE d == IF HasData(k) THEN [i \in 1 .. 4 |-> c.byte] ELSE <<>>
  <2>1. d \in Seq(Kinds) /\ Len(d) = IF HasData(k) THEN 4 ELSE 0
    BY <1>1
  <2>2. <<k>> \in Seq(Kinds) /\ Len(<<k>>) = 1 /\ <<k>>[1] = k
    OBVIOUS
  <2>3. BytesOf(c, k) = <<k>> \o d
    BY DEF BytesOf
  <2> DEFINE e == <<k>>
  <2> HIDE DEF d, e
  <2>4. /\ e \o d \in Seq(Kinds) /\ Len(e \o d) = 1 + Len(d) /\ (e \o d)[1] = k
    <3>1. e \in Seq(Kinds) /\ Len(e) = 1 /\ e[1] = k /\ Len(d) \in Nat
      BY <2>1, <2>2 DEF e
    <3>2. 1 \in 1 .. Len(e) + Len(d) /\ 1 <= Len(e)
      BY <3>1
    <3>3. QED BY <2>1, <3>1, <3>2, ConcatProperties
  <2>5. QED BY <2>1, <2>3, <2>4 DEF After, e
<1>3. QED BY <1>1, <1>2 DEF ByteSeqs

\* The byte at the place of the next request is that request, and the place of
\* the one after it is behind its data.
LEMMA NextRequest ==
  ASSUME cmd \in Transfer, ~Block, NEW n \in Nat, n < Len(cmd.requests)
  PROVE  /\ Offset(cmd, n) \in Nat /\ Offset(cmd, n + 1) \in Nat
         /\ Offset(cmd, n + 1) = Offset(cmd, n) + After(cmd.requests[n + 1])
         /\ s.pos = Offset(cmd, n) => Here = cmd.requests[n + 1]
<1> DEFINE N == Len(cmd.requests)
           f == ByteSeqs(cmd)
           k == cmd.requests[n + 1]
<1>1. /\ N \in Nat /\ f \in [1 .. N -> Seq(Kinds)] /\ n + 1 \in 1 .. N /\ k \in Kinds
      /\ f[n + 1] = BytesOf(cmd, k)
      /\ BytesOf(cmd, k) \in Seq(Kinds) /\ BytesOf(cmd, k)[1] = k
      /\ Len(BytesOf(cmd, k)) = After(k) /\ After(k) \in Nat \ {0}
  <2>1. N \in Nat /\ n + 1 \in 1 .. N /\ cmd.requests \in Seq(Kinds)
    BY ByteSeqsType DEF Transfer
  <2>2. k \in Kinds /\ f[n + 1] = BytesOf(cmd, k)
    BY <2>1 DEF ByteSeqs
  <2>3. QED BY <2>1, <2>2, ByteSeqsType
<1>2. Bytes = Header \o Joined(f, N)
  BY DEF Bytes, Joined, ByteSeqs, RequestBytes, BytesOf
<1>3. Offset(cmd, n) = 2 + Len(Joined(f, n)) /\ Offset(cmd, n + 1) = 2 + Len(Joined(f, n + 1))
  BY DEF Offset
<1> HIDE DEF N, f, k
<1>4. /\ Joined(f, n) \in Seq(Kinds) /\ Joined(f, n + 1) \in Seq(Kinds)
      /\ Joined(f, N) \in Seq(Kinds)
  BY <1>1, JoinedIsSeq
<1>5. Joined(f, n + 1) = Joined(f, n) \o BytesOf(cmd, k)
  <2>1. Joined(f, n + 1) = Joined(f, n) \o f[n + 1]
    <3>1. n + 1 <= N
      BY <1>1
    <3>2. QED BY <1>1, <3>1, JoinedNext
  <2>2. QED BY <1>1, <2>1
<1> DEFINE a == Len(Joined(f, n))
<1>6. /\ a \in Nat /\ Len(Joined(f, n + 1)) = a + After(k)
      /\ Joined(f, n + 1)[a + 1] = k
  BY <1>1, <1>4, <1>5, ConcatProperties
<1>7. IsPrefix(Joined(f, n + 1), Joined(f, N))
  BY <1>1, JoinedPrefix
<1>8. /\ a + After(k) <= Len(Joined(f, N)) /\ Joined(f, N)[a + 1] = k
  <2>1. /\ Len(Joined(f, n + 1)) <= Len(Joined(f, N))
        /\ \A i \in 1 .. Len(Joined(f, n + 1)) : Joined(f, n + 1)[i] = Joined(f, N)[i]
    BY <1>4, <1>7, PrefixIs
  <2>2. a + 1 \in 1 .. Len(Joined(f, n + 1))
    BY <1>1, <1>6
  <2>3. QED BY <1>6, <2>1, <2>2
<1>9. 2 + a < Len(Bytes) /\ Bytes[2 + a + 1] = k
  <2> DEFINE D == Kinds \cup {"index", "count"}
  <2>1. Header \in Seq(D) /\ Len(Header) = 2 /\ Joined(f, N) \in Seq(D)
    BY <1>4 DEF Header
  <2> HIDE DEF D
  <2>2. /\ Len(Bytes) = 2 + Len(Joined(f, N))
        /\ \A i \in 1 .. 2 + Len(Joined(f, N)) :
             Bytes[i] = IF i <= 2 THEN Header[i] ELSE Joined(f, N)[i - 2]
    <3> DEFINE h == Header
               j == Joined(f, N)
    <3>1. h \in Seq(D) /\ j \in Seq(D) /\ Len(h) = 2
      BY <2>1
    <3> HIDE DEF h, j
    <3>2. /\ Len(h \o j) = 2 + Len(j)
          /\ \A i \in 1 .. 2 + Len(j) : (h \o j)[i] = IF i <= 2 THEN h[i] ELSE j[i - 2]
      <4>1. /\ Len(h \o j) = Len(h) + Len(j)
            /\ \A i \in 1 .. Len(h) + Len(j) : (h \o j)[i] = IF i <= Len(h) THEN h[i] ELSE j[i - Len(h)]
        BY <3>1, ConcatProperties
      <4>2. QED BY <3>1, <4>1
    <3>3. QED BY <1>2, <3>2 DEF h, j
  <2>3. Len(Joined(f, N)) \in Nat
    BY <1>4
  <2>4. 2 + a + 1 \in 1 .. 2 + Len(Joined(f, N)) /\ (2 + a + 1) - 2 = a + 1 /\ ~(2 + a + 1 <= 2)
    BY <1>1, <1>6, <1>8, <2>3
  <2>5. QED BY <1>1, <1>6, <1>8, <2>2, <2>3, <2>4
<1>10. s.pos = Offset(cmd, n) => Here = k
  BY <1>3, <1>9 DEF Here
<1>11. /\ Offset(cmd, n) = 2 + a /\ 2 + a \in Nat
       /\ Offset(cmd, n + 1) = (2 + a) + After(k) /\ (2 + a) + After(k) \in Nat
  BY <1>1, <1>3, <1>6
<1> HIDE DEF a
<1>12. QED BY <1>10, <1>11 DEF k

LEMMA AnswerType ==
  ASSUME NEW c \in Transfer
  PROVE  /\ \A n \in Nat : StampOf(c, n) \in Seq(WordSet) /\ DataOf(c, n) \in Seq(WordSet)
         /\ \A n \in Nat : AnswerOf(c, n) \in Seq(WordSet)
         /\ AnswerSeqs(c) \in [1 .. Len(c.requests) -> Seq(WordSet)]
<1>1. ASSUME NEW n \in Nat, NEW p \in {"none", "ap", "dp"}, NEW w \in {"data", "stamp"}
      PROVE  <<[what |-> w, of |-> Value(n, p)]>> \in Seq(WordSet)
  BY DEF Value, Values, WordSet
<1>2. <<>> \in Seq(WordSet)
  OBVIOUS
<1>3. ASSUME NEW n \in Nat PROVE StampOf(c, n) \in Seq(WordSet) /\ DataOf(c, n) \in Seq(WordSet)
  <2>1. StampOf(c, n) \in Seq(WordSet)
    BY <1>1, <1>2 DEF StampOf
  <2>2. Register(c.requests[n]) \in {"none", "ap", "dp"}
    BY DEF Register
  <2>3. DataOf(c, n) \in Seq(WordSet)
    BY <1>1, <1>2, <2>2 DEF DataOf, Data
  <2>4. QED BY <2>1, <2>3
<1>4. ASSUME NEW n \in Nat PROVE AnswerOf(c, n) \in Seq(WordSet)
  <2>1. CASE c.requests[n] \in Matches \cup {"mask"}
    <3>1. AnswerOf(c, n) = <<>> \o DataOf(c, n)
      BY <2>1 DEF AnswerOf
    <3>2. QED BY <1>2, <1>3, <3>1, ConcatProperties
  <2>2. CASE c.requests[n] \notin Matches \cup {"mask"}
    <3>1. AnswerOf(c, n) = StampOf(c, n) \o DataOf(c, n)
      BY <2>2 DEF AnswerOf
    <3>2. QED BY <1>3, <3>1, ConcatProperties
  <2>3. QED BY <2>1, <2>2
<1>5. QED BY <1>3, <1>4 DEF AnswerSeqs

LEMMA AnswersNext ==
  ASSUME NEW c \in Transfer
  PROVE  /\ AnswersOf(c, 0) = <<>>
         /\ \A n \in 0 .. Len(c.requests) :
              AnswersOf(c, n) \in Seq(WordSet) /\ IsPrefix(AnswersOf(c, n), AnswersOf(c, Len(c.requests)))
         /\ \A n \in Nat : n + 1 <= Len(c.requests) =>
              AnswersOf(c, n + 1) = AnswersOf(c, n) \o AnswerOf(c, n + 1)
<1>1. AnswerSeqs(c) \in [1 .. Len(c.requests) -> Seq(WordSet)] /\ Len(c.requests) \in Nat
  BY AnswerType, ByteSeqsType
<1>2. \A n \in Nat : n + 1 <= Len(c.requests) => AnswerSeqs(c)[n + 1] = AnswerOf(c, n + 1)
  BY DEF AnswerSeqs
<1> DEFINE N == Len(c.requests)
           f == AnswerSeqs(c)
<1> HIDE DEF N, f
<1>3. Joined(f, 0) = <<>>
  BY JoinedNone
<1>4. ASSUME NEW n \in 0 .. N PROVE Joined(f, n) \in Seq(WordSet) /\ IsPrefix(Joined(f, n), Joined(f, N))
  <2>1. N \in n .. N
    BY <1>1 DEF N
  <2>2. QED BY <1>1, <2>1, JoinedIsSeq, JoinedPrefix DEF N, f
<1>5. ASSUME NEW n \in Nat, n + 1 <= N PROVE Joined(f, n + 1) = Joined(f, n) \o f[n + 1]
  BY <1>1, <1>5, JoinedNext DEF N, f
<1>6. QED BY <1>2, <1>3, <1>4, <1>5 DEF AnswersOf, N, f

-----------------------------------------------------------------------------
(* The invariant of DataInOrder and AccessedOnce.                            *)

Answered == {"none", "OK", "WAIT", "FAULT", "ERROR"}
BlockCommand == [type : {"block"}, port : Ports,
                 reg : {"apRead", "dpRead", "apWrite", "dpWrite"}, words : Nat]

Locals == [pos : Nat, left : Nat, cur : Kinds, nth : Nat, post : BOOLEAN, check : BOOLEAN,
           ir : {"none", "ap", "dp"}, retry : 0 .. RetryCount, again : 0 .. MatchRetry]
Responses == [count : Nat, value : Answered, mismatch : BOOLEAN, words : Seq(WordSet)]
Targets == [chain : {"none", "ap", "dp"}, result : Values, log : Seq(Values)]

LoopPoints == {"pipeline", "rdbuff", "post", "read", "write", "matchPost", "match"}
BegunPoints == LoopPoints \ {"pipeline", "rdbuff"}
BlockPoints == {"blockPost", "blockRead", "blockWrite"}

TypesInv ==
  /\ cmd \in Transfer \cup BlockCommand /\ abort \in BOOLEAN /\ late \in Nat
  /\ pc \in {"begin", "fetch", "skip", "last", "verify", "done"} \cup LoopPoints \cup BlockPoints
  /\ s \in Locals /\ resp \in Responses /\ target \in Targets

\* The value that is posted: read from the target, but not in the response yet.
Held(l, t) == IF l.post THEN Data(t.result) ELSE <<>>

Good == resp.value = "OK" /\ ~resp.mismatch
NRequests == Len(cmd.requests)

\* What the kind of the request at hand is, where it is executed.
KindsAt(p) ==
  IF p \in {"pipeline", "post", "read"} THEN {"apRead", "dpRead"}
  ELSE IF p = "write" THEN {"apWrite", "dpWrite"}
  ELSE IF p \in {"matchPost", "match"} THEN Matches ELSE Kinds

\* Where the loop over the requests stands: the requests counted and the one at
\* hand, the place of the next, and whether a value is posted.
LoopInv ==
  /\ pc \notin BlockPoints /\ resp.count <= NRequests
  /\ pc \in {"begin", "fetch"} => s.nth = resp.count
  /\ pc \in LoopPoints => /\ s.nth = resp.count + 1 /\ s.nth <= NRequests
                          /\ s.cur = cmd.requests[s.nth] /\ s.cur \in KindsAt(pc)
  /\ pc \in {"fetch"} \cup LoopPoints => s.left = NRequests - s.nth
  /\ pc \in {"fetch"} \cup BegunPoints => s.pos = Offset(cmd, s.nth)
  /\ pc \in {"pipeline", "rdbuff"} => s.pos = Offset(cmd, resp.count) + 1
  /\ pc \in {"pipeline", "rdbuff", "last"} => s.post
  /\ pc \in {"begin", "verify"} \cup BegunPoints => ~s.post
  /\ pc \in {"pipeline", "post"} => Posts(s.cur)
  /\ pc = "read" => ~Posts(s.cur)
  /\ pc = "begin" => resp.count = 0

\* Which JTAG chain is selected is what the code keeps of it.
ChainInv ==
  Jtag => /\ pc \in {"begin", "fetch"} \cup LoopPoints => target.chain = s.ir
          /\ pc \in {"pipeline"} \cup BegunPoints => s.ir = Register(s.cur)

\* The response is being collected, and nothing has failed.
Collecting == \/ pc \in {"begin", "fetch", "last", "verify"} \cup LoopPoints
              \/ pc = "skip" /\ Good

\* The words of the response, with the value posted, are the answers to the
\* requests counted.
WordsInv ==
  /\ IsPrefix(resp.words, AnswersOf(cmd, NRequests))
  /\ Collecting => resp.words \o Held(s, target) = AnswersOf(cmd, resp.count)
  /\ pc = "done" /\ Good => resp.words = AnswersOf(cmd, resp.count)

\* The accesses in q are of the first n requests, in their order.
LoggedTo(c, q, n) ==
  \A i \in 1 .. Len(q) :
    /\ q[i].request \in 1 .. n /\ q[i].port = Register(c.requests[q[i].request])
    /\ \A j \in 1 .. i - 1 : q[j].request < q[i].request

\* Each of the first n requests has been executed.
Executed(c, q, n) ==
  \A k \in 1 .. n : c.requests[k] \in Matches \cup {"mask"} \/ \E i \in 1 .. Len(q) : q[i].request = k

LogInv ==
  /\ Executed(cmd, target.log, resp.count)
  /\ LoggedTo(cmd, target.log,
              IF pc \in {"begin", "fetch"} \cup LoopPoints THEN resp.count ELSE NRequests)

TransferInv == LoopInv /\ ChainInv /\ WordsInv /\ LogInv

\* What the first n words of a block are to be.
WordsOf(c, n) == IF c.reg \in Reads
                 THEN [i \in 1 .. n |-> Data(Value(i, Register(c.reg)))[1]] ELSE <<>>

\* The same for DAP_TransferBlock, whose reads are one ahead when they are posted.
BlockInv ==
  LET n == resp.count
      port == Register(cmd.reg)
  IN  /\ pc \in {"begin", "verify", "done"} \cup BlockPoints
      /\ n <= cmd.words /\ n <= Len(target.log) /\ Len(target.log) <= cmd.words
      /\ \A i \in 1 .. Len(target.log) : target.log[i] = Value(i, port)
      /\ resp.words = WordsOf(cmd, n)
      /\ pc \in BlockPoints => s.left = cmd.words - n /\ s.left # 0
      /\ pc \in {"begin", "blockPost"} => n = 0
      /\ pc \in {"begin", "blockPost", "blockWrite"} => Len(target.log) = n
      /\ pc = "blockPost" => Posts(cmd.reg)
      /\ pc \in {"blockPost", "blockRead"} => cmd.reg \in Reads
      /\ pc = "blockWrite" => cmd.reg \notin Reads
      /\ pc = "blockRead" /\ Posts(cmd.reg) =>
           Len(target.log) = n + 1 /\ target.result = Value(n + 1, port)
      /\ pc = "blockRead" /\ ~Posts(cmd.reg) => Len(target.log) = n
      /\ Jtag => /\ pc \in {"blockPost", "blockWrite"} => target.chain = port
                 /\ pc = "blockRead" /\ ~FromRdbuff(s.left) => target.chain = port
                 /\ pc = "begin" => target.chain = s.ir

IInv == TypesInv /\ IF Block THEN BlockInv ELSE TransferInv

LEMMA CommandIs ==
  ASSUME cmd \in Transfer \cup BlockCommand
  PROVE  /\ Block => cmd \in BlockCommand
         /\ ~Block => cmd \in Transfer /\ NRequests \in Nat
BY DEF Transfer, BlockCommand, Block, NRequests

\* A response that is being collected begins what the command is to be
\* answered.
LEMMA CollectedPrefix ==
  ASSUME NEW c \in Transfer, NEW w \in Seq(WordSet), NEW h \in Seq(WordSet),
         NEW n \in 0 .. Len(c.requests), w \o h = AnswersOf(c, n)
  PROVE  IsPrefix(w, AnswersOf(c, Len(c.requests)))
<1>1. /\ AnswersOf(c, n) \in Seq(WordSet) /\ AnswersOf(c, Len(c.requests)) \in Seq(WordSet)
      /\ IsPrefix(AnswersOf(c, n), AnswersOf(c, Len(c.requests)))
  <2>1. Len(c.requests) \in 0 .. Len(c.requests)
    BY ByteSeqsType
  <2>2. QED BY <2>1, AnswersNext
<1>2. IsPrefix(w, w \o h)
  BY PrefixJoin
<1>3. IsPrefix(w, AnswersOf(c, n))
  BY <1>2, Zenon
<1>4. QED BY <1>1, <1>3, PrefixOf

LEMMA HeldType ==
  ASSUME NEW l \in Locals, NEW t \in Targets PROVE Held(l, t) \in Seq(WordSet)
<1>1. t.result \in Values /\ <<>> \in Seq(WordSet)
  BY DEF Targets
<1>2. Data(t.result) \in Seq(WordSet)
  BY <1>1 DEF Data, WordSet
<1>3. QED BY <1>1, <1>2 DEF Held

\* The log goes on with the access of the next request.
LEMMA LogNext ==
  ASSUME NEW c, NEW q \in Seq(Values), NEW n \in Nat, NEW v \in Values,
         LoggedTo(c, q, n), Executed(c, q, n),
         v.request = n + 1, v.port = Register(c.requests[n + 1])
  PROVE  /\ Append(q, v) \in Seq(Values)
         /\ LoggedTo(c, Append(q, v), n + 1) /\ Executed(c, Append(q, v), n + 1)
<1>1. /\ Append(q, v) \in Seq(Values) /\ Len(Append(q, v)) = Len(q) + 1 /\ Len(q) \in Nat
      /\ \A i \in 1 .. Len(q) : Append(q, v)[i] = q[i]
      /\ Append(q, v)[Len(q) + 1] = v
  OBVIOUS
<1> DEFINE p == Append(q, v)
<1> HIDE DEF p
<1>2. LoggedTo(c, p, n + 1)
  <2> SUFFICES ASSUME NEW i \in 1 .. Len(q) + 1
               PROVE  /\ p[i].request \in 1 .. n + 1
                      /\ p[i].port = Register(c.requests[p[i].request])
                      /\ \A j \in 1 .. i - 1 : p[j].request < p[i].request
    BY <1>1 DEF LoggedTo, p
  <2>1. CASE i \in 1 .. Len(q)
    <3>1. p[i] = q[i] /\ \A j \in 1 .. i - 1 : p[j] = q[j]
      BY <1>1, <2>1 DEF p
    <3>2. QED BY <2>1, <3>1 DEF LoggedTo
  <2>2. CASE i = Len(q) + 1
    <3>1. p[i] = v /\ \A j \in 1 .. i - 1 : p[j] = q[j] /\ q[j].request \in 1 .. n
      BY <1>1, <2>2 DEF p, LoggedTo
    <3>2. QED BY <3>1
  <2>3. QED BY <1>1, <2>1, <2>2
<1>3. Executed(c, p, n + 1)
  <2> SUFFICES ASSUME NEW k \in 1 .. n + 1, c.requests[k] \notin Matches \cup {"mask"}
               PROVE  \E i \in 1 .. Len(q) + 1 : p[i].request = k
    BY <1>1 DEF Executed, p
  <2>1. CASE k \in 1 .. n
    <3>1. PICK i \in 1 .. Len(q) : q[i].request = k
      BY <2>1 DEF Executed
    <3>2. i \in 1 .. Len(q) + 1 /\ p[i] = q[i]
      BY <1>1 DEF p
    <3>3. QED BY <3>1, <3>2
  <2>2. CASE k = n + 1
    <3>1. Len(q) + 1 \in 1 .. Len(q) + 1 /\ p[Len(q) + 1] = v
      BY <1>1 DEF p
    <3>2. QED BY <2>2, <3>1
  <2>3. QED BY <2>1, <2>2
<1>4. QED BY <1>1, <1>2, <1>3 DEF p

\* A request that makes no access counts as executed.
LEMMA LogSkip ==
  ASSUME NEW c, NEW q \in Seq(Values), NEW n \in Nat, LoggedTo(c, q, n), Executed(c, q, n),
         c.requests[n + 1] \in Matches \cup {"mask"}
  PROVE  LoggedTo(c, q, n + 1) /\ Executed(c, q, n + 1)
BY DEF LoggedTo, Executed

LEMMA LogWeaken ==
  ASSUME NEW c, NEW q \in Seq(Values), NEW n \in Nat, NEW m \in Nat, n <= m, LoggedTo(c, q, n)
  PROVE  LoggedTo(c, q, m)
BY DEF LoggedTo

\* What a request adds to the answers, when it is done.
LEMMA AnswerRead ==
  ASSUME NEW c \in Transfer, NEW n \in Nat, n + 1 <= Len(c.requests),
         c.requests[n + 1] \in {"apRead", "dpRead"}
  PROVE  (AnswersOf(c, n) \o StampOf(c, n + 1)) \o Data(Value(n + 1, Register(c.requests[n + 1])))
           = AnswersOf(c, n + 1)
<1>1. AnswerOf(c, n + 1) = StampOf(c, n + 1) \o DataOf(c, n + 1)
  BY DEF AnswerOf, Matches
<1>2. DataOf(c, n + 1) = Data(Value(n + 1, Register(c.requests[n + 1])))
  BY DEF DataOf
<1>3. AnswersOf(c, n + 1) = AnswersOf(c, n) \o AnswerOf(c, n + 1)
  BY AnswersNext
<1>4. /\ AnswersOf(c, n) \in Seq(WordSet) /\ StampOf(c, n + 1) \in Seq(WordSet)
      /\ DataOf(c, n + 1) \in Seq(WordSet)
  <2>1. n \in 0 .. Len(c.requests)
    BY ByteSeqsType
  <2>2. AnswersOf(c, n) \in Seq(WordSet)
    BY <2>1, AnswersNext
  <2>3. n + 1 \in Nat
    OBVIOUS
  <2>4. StampOf(c, n + 1) \in Seq(WordSet) /\ DataOf(c, n + 1) \in Seq(WordSet)
    BY <2>3, AnswerType
  <2>5. QED BY <2>2, <2>4
<1>5. (AnswersOf(c, n) \o StampOf(c, n + 1)) \o DataOf(c, n + 1)
        = AnswersOf(c, n) \o (StampOf(c, n + 1) \o DataOf(c, n + 1))
  BY <1>4, ConcatAssociative
<1>6. QED BY <1>1, <1>2, <1>3, <1>5, Zenon

LEMMA AnswerWrite ==
  ASSUME NEW c \in Transfer, NEW n \in Nat, n + 1 <= Len(c.requests),
         c.requests[n + 1] \in {"apWrite", "dpWrite"}
  PROVE  AnswersOf(c, n) \o StampOf(c, n + 1) = AnswersOf(c, n + 1)
<1>1. AnswerOf(c, n + 1) = StampOf(c, n + 1) \o <<>>
  BY DEF AnswerOf, DataOf, Matches
<1>2. StampOf(c, n + 1) \in Seq(WordSet)
  BY AnswerType
<1>3. AnswerOf(c, n + 1) = StampOf(c, n + 1)
  BY <1>1, <1>2, ConcatEmptySeq
<1>4. QED BY <1>3, AnswersNext

LEMMA AnswerNone ==
  ASSUME NEW c \in Transfer, NEW n \in Nat, n + 1 <= Len(c.requests),
         c.requests[n + 1] \in Matches \cup {"mask"}
  PROVE  AnswersOf(c, n) = AnswersOf(c, n + 1)
<1>1. AnswerOf(c, n + 1) = <<>> \o <<>>
  BY DEF AnswerOf, DataOf, Matches
<1>2. AnswersOf(c, n) \in Seq(WordSet) /\ <<>> \o <<>> = <<>>
  BY AnswersNext, ByteSeqsType
<1>3. AnswersOf(c, n) \o <<>> = AnswersOf(c, n)
  BY <1>2, ConcatEmptySeq
<1>4. AnswersOf(c, n + 1) = AnswersOf(c, n) \o AnswerOf(c, n + 1)
  BY AnswersNext
<1>5. QED BY <1>1, <1>2, <1>3, <1>4

-----------------------------------------------------------------------------
(* The steps of both commands: a retry, an abort.                            *)

LEMMA KeepIInv ==
  ASSUME IInv, UNCHANGED <<cmd, pc, resp, target>>, s' \in Locals,
         s'.pos = s.pos, s'.left = s.left, s'.cur = s.cur, s'.nth = s.nth, s'.post = s.post,
         s'.ir = s.ir, abort' \in BOOLEAN, late' \in Nat
  PROVE  IInv'
<1> USE DEF Block, Jtag, Posts, NRequests
<1>1. TypesInv'
  BY DEF IInv, TypesInv
<1>2. LoopInv => LoopInv'
  BY DEF LoopInv
<1>3. ChainInv => ChainInv'
  BY DEF ChainInv
<1>4. WordsInv => WordsInv'
  BY DEF WordsInv, Collecting, Good, Held
<1>5. LogInv => LogInv'
  BY DEF LogInv
<1>6. BlockInv => BlockInv'
  BY DEF BlockInv, FromRdbuff
<1>7. QED BY <1>1, <1>2, <1>3, <1>4, <1>5, <1>6 DEF IInv, TransferInv

LEMMA TriedTypes ==
  ASSUME IInv, Tried PROVE cmd' = cmd /\ abort' = abort /\ abort' \in BOOLEAN /\ late' \in Nat
BY DEF IInv, TypesInv, Tried

LEMMA FreshType ==
  ASSUME NEW l \in Locals
  PROVE  /\ Fresh(l) \in Locals /\ Fresh(l).pos = l.pos /\ Fresh(l).left = l.left
         /\ Fresh(l).cur = l.cur /\ Fresh(l).nth = l.nth /\ Fresh(l).post = l.post
         /\ Fresh(l).ir = l.ir /\ Fresh(l).check = l.check
<1>1. RetryCount \in 0 .. RetryCount
  BY CommandsAssumption
<1>2. QED BY <1>1 DEF Fresh, Locals

LEMMA AgainType ==
  ASSUME NEW l \in Locals, NEW a \in 0 .. MatchRetry
  PROVE  LET m == [l EXCEPT !.again = a]
         IN  /\ m \in Locals /\ m.pos = l.pos /\ m.left = l.left /\ m.cur = l.cur
             /\ m.nth = l.nth /\ m.post = l.post /\ m.ir = l.ir
BY DEF Locals

LEMMA RetryIInv == ASSUME IInv, Retry PROVE IInv'
<1>1. s' = [s EXCEPT !.retry = @ - 1] /\ s \in Locals /\ s.retry > 0
  BY DEF Retry, IInv, TypesInv
<1>2. s' \in Locals
  BY <1>1, CommandsAssumption DEF Locals
<1>3. /\ s'.pos = s.pos /\ s'.left = s.left /\ s'.cur = s.cur /\ s'.nth = s.nth
      /\ s'.post = s.post /\ s'.ir = s.ir
  BY <1>1 DEF Locals
<1>4. UNCHANGED <<cmd, pc, resp, target>> /\ abort' \in BOOLEAN /\ late' \in Nat
  BY TriedTypes DEF Retry
<1>5. QED BY <1>2, <1>3, <1>4, KeepIInv

LEMMA AsideIInv == ASSUME IInv, Abort \/ UNCHANGED vars PROVE IInv'
<1>1. UNCHANGED <<cmd, pc, resp, target, s, late>> /\ abort' \in BOOLEAN
  BY DEF Abort, vars, IInv, TypesInv
<1>2. QED BY <1>1, KeepIInv DEF IInv, TypesInv

-----------------------------------------------------------------------------
(* The loop over the requests.                                               *)

\* A request has been counted.
LEMMA ArriveCounted ==
  ASSUME IInv, ~Block, cmd' = cmd, pc' \in {"fetch", "skip"}, NEW n \in Nat, n + 1 <= NRequests,
         abort' \in BOOLEAN, late' \in Nat,
         s' \in Locals, s'.nth = n + 1, s'.left = NRequests - (n + 1),
         s'.pos = Offset(cmd, n + 1), Jtag => target'.chain = s'.ir,
         resp' \in Responses, resp'.count = n + 1,
         target' \in Targets, LoggedTo(cmd, target'.log, n + 1), Executed(cmd, target'.log, n + 1),
         resp'.words \o Held(s', target') = AnswersOf(cmd, n + 1)
  PROVE  IInv'
<1> USE DEF Block, Jtag, NRequests
<1>1. cmd \in Transfer /\ NRequests \in Nat
  BY CommandIs DEF IInv, TypesInv
<1>2. TypesInv'
  BY DEF IInv, TypesInv
<1>3. LoopInv'
  BY DEF LoopInv, BlockPoints, LoopPoints, BegunPoints
<1>4. ChainInv'
  BY DEF ChainInv, LoopPoints, BegunPoints
<1>5. WordsInv'
  <2>1. Held(s', target') \in Seq(WordSet) /\ resp'.words \in Seq(WordSet)
    BY HeldType DEF Responses
  <2>2. IsPrefix(resp'.words, AnswersOf(cmd, NRequests))
    <3>1. n + 1 \in 0 .. Len(cmd.requests)
      BY <1>1
    <3>2. QED BY <1>1, <2>1, <3>1, CollectedPrefix
  <2>3. QED BY <2>2 DEF WordsInv
<1>6. LogInv'
  <2>1. LoggedTo(cmd, target'.log, NRequests)
    BY <1>1, LogWeaken DEF Targets
  <2>2. QED BY <2>1 DEF LogInv, LoopPoints
<1>7. QED BY <1>2, <1>3, <1>4, <1>5, <1>6 DEF IInv, TransferInv

\* A request is at hand: it has been fetched and not been counted.
LEMMA ArriveAtRequest ==
  ASSUME IInv, ~Block, cmd' = cmd, pc' \in LoopPoints, NEW n \in Nat, n + 1 <= NRequests,
         abort' \in BOOLEAN, late' \in Nat,
         s' \in Locals, s'.nth = n + 1, s'.left = NRequests - (n + 1),
         s'.cur = cmd.requests[n + 1], s'.cur \in KindsAt(pc'),
         IF pc' \in BegunPoints
         THEN s'.pos = Offset(cmd, n + 1) /\ ~s'.post
         ELSE s'.pos = Offset(cmd, n) + 1 /\ s'.post,
         pc' \in {"pipeline", "post"} => Posts(s'.cur), pc' = "read" => ~Posts(s'.cur),
         Jtag => /\ target'.chain = s'.ir
                 /\ pc' \in {"pipeline"} \cup BegunPoints => s'.ir = Register(s'.cur),
         resp' \in Responses, resp'.count = n,
         target' \in Targets, LoggedTo(cmd, target'.log, n), Executed(cmd, target'.log, n),
         resp'.words \o Held(s', target') = AnswersOf(cmd, n)
  PROVE  IInv'
<1> USE DEF Block, Jtag, NRequests, Posts
<1>1. cmd \in Transfer /\ NRequests \in Nat
  BY CommandIs DEF IInv, TypesInv
<1>2. TypesInv'
  BY DEF IInv, TypesInv
<1>3. LoopInv'
  BY <1>1 DEF LoopInv, BlockPoints, LoopPoints, BegunPoints
<1>4. ChainInv'
  BY DEF ChainInv, LoopPoints, BegunPoints
<1>5. WordsInv'
  <2>1. Held(s', target') \in Seq(WordSet) /\ resp'.words \in Seq(WordSet)
    BY HeldType DEF Responses
  <2>2. IsPrefix(resp'.words, AnswersOf(cmd, NRequests))
    <3>1. n \in 0 .. Len(cmd.requests)
      BY <1>1
    <3>2. QED BY <1>1, <2>1, <3>1, CollectedPrefix
  <2>3. QED BY <2>2 DEF WordsInv, LoopPoints
<1>6. LogInv'
  BY DEF LogInv
<1>7. QED BY <1>2, <1>3, <1>4, <1>5, <1>6 DEF IInv, TransferInv

\* What is known while a request is at hand.
LEMMA AtRequest ==
  ASSUME IInv, ~Block, pc \in LoopPoints
  PROVE  /\ cmd \in Transfer /\ NRequests \in Nat /\ resp.count \in Nat
         /\ resp.count + 1 <= NRequests /\ resp.count + 1 \in 1 .. NRequests
         /\ s.nth = resp.count + 1 /\ s.left = NRequests - (resp.count + 1)
         /\ s.cur = cmd.requests[resp.count + 1] /\ s.cur \in Kinds
         /\ s \in Locals /\ resp \in Responses /\ target \in Targets
         /\ LoggedTo(cmd, target.log, resp.count) /\ Executed(cmd, target.log, resp.count)
         /\ resp.words \in Seq(WordSet) /\ AnswersOf(cmd, resp.count) \in Seq(WordSet)
         /\ resp.words \o Held(s, target) = AnswersOf(cmd, resp.count)
         /\ ~s.post => resp.words = AnswersOf(cmd, resp.count)
         /\ pc \in {"pipeline", "rdbuff"} => s.post /\ s.pos = Offset(cmd, resp.count) + 1
         /\ pc \in BegunPoints => ~s.post /\ s.pos = Offset(cmd, resp.count + 1)
         /\ Offset(cmd, resp.count + 1) = Offset(cmd, resp.count) + After(s.cur)
         /\ Offset(cmd, resp.count) \in Nat
<1>1. cmd \in Transfer /\ NRequests \in Nat /\ s \in Locals /\ resp \in Responses /\ target \in Targets
  BY CommandIs DEF IInv, TypesInv
<1>2. /\ resp.count \in Nat /\ s.nth = resp.count + 1 /\ s.nth <= NRequests
      /\ s.cur = cmd.requests[s.nth] /\ s.left = NRequests - s.nth
      /\ resp.words \in Seq(WordSet) /\ s.cur \in Kinds
  BY <1>1 DEF IInv, TransferInv, LoopInv, Responses, Locals
<1>3. /\ pc \in {"pipeline", "rdbuff"} => s.post /\ s.pos = Offset(cmd, resp.count) + 1
      /\ pc \in BegunPoints => ~s.post /\ s.pos = Offset(cmd, resp.count + 1)
  BY <1>2 DEF IInv, TransferInv, LoopInv
<1>4. LoggedTo(cmd, target.log, resp.count) /\ Executed(cmd, target.log, resp.count)
  BY DEF IInv, TransferInv, LogInv
<1>5. resp.words \o Held(s, target) = AnswersOf(cmd, resp.count)
  BY DEF IInv, TransferInv, WordsInv, Collecting
<1>6. AnswersOf(cmd, resp.count) \in Seq(WordSet)
  <2>1. resp.count \in 0 .. Len(cmd.requests)
    BY <1>1, <1>2 DEF NRequests
  <2>2. QED BY <1>1, <2>1, AnswersNext
<1>7. ~s.post => resp.words = AnswersOf(cmd, resp.count)
  <2>1. resp.words \o <<>> = resp.words
    BY <1>2, ConcatEmptySeq
  <2>2. ~s.post => Held(s, target) = <<>>
    BY DEF Held
  <2>3. QED BY <1>5, <2>1, <2>2
<1>8. /\ Offset(cmd, resp.count + 1) = Offset(cmd, resp.count) + After(s.cur)
      /\ Offset(cmd, resp.count) \in Nat
  BY <1>1, <1>2, NextRequest DEF NRequests
<1>9. QED BY <1>1, <1>2, <1>3, <1>4, <1>5, <1>6, <1>7, <1>8

\* The request at hand is made, and the target answers OK.
LEMMA RequestAccessed ==
  ASSUME IInv, ~Block, pc \in {"pipeline"} \cup BegunPoints
  PROVE  LET t == Accessed(s.cur)
             n == resp.count + 1
         IN  /\ t \in Targets /\ t.chain = target.chain /\ (Jtag => t.chain = s.ir)
             /\ s.cur \in Matches => t.log = target.log
             /\ LoggedTo(cmd, t.log, n) /\ Executed(cmd, t.log, n)
             /\ Posts(s.cur) => t.result = Value(n, Register(s.cur))
             /\ PortOf(s.cur) = Register(s.cur)
<1> DEFINE n == resp.count + 1
           v == Value(n, PortOf(s.cur))
           t == Accessed(s.cur)
<1>1. pc \in LoopPoints
  BY DEF LoopPoints, BegunPoints
<1>2. /\ cmd \in Transfer /\ resp.count \in Nat /\ n \in Nat
      /\ s.nth = n /\ s.cur = cmd.requests[n] /\ s \in Locals /\ target \in Targets
      /\ LoggedTo(cmd, target.log, resp.count) /\ Executed(cmd, target.log, resp.count)
  BY <1>1, AtRequest
<1>3. PortOf(s.cur) = Register(s.cur) /\ (Jtag => target.chain = s.ir)
  BY <1>1 DEF PortOf, Jtag, IInv, TransferInv, ChainInv, LoopPoints
<1>4. v \in Values /\ v.request = n /\ v.port = Register(s.cur) /\ NoValue \in Values
  BY <1>2, <1>3 DEF Value, NoValue, Values, Register
<1>5. t = [target EXCEPT !.result = IF Posts(s.cur) THEN v ELSE IF Jtag THEN NoValue ELSE @,
                         !.log = IF s.cur \in Matches THEN @ ELSE Append(@, v)]
  BY <1>2 DEF Accessed
<1> HIDE DEF t, v
<1>6. /\ t.chain = target.chain /\ (Posts(s.cur) => t.result = v) /\ t.result \in Values
      /\ t.log = IF s.cur \in Matches THEN target.log ELSE Append(target.log, v)
  BY <1>2, <1>4, <1>5 DEF Targets
<1>7. t.log \in Seq(Values) /\ LoggedTo(cmd, t.log, n) /\ Executed(cmd, t.log, n)
  <2>1. target.log \in Seq(Values)
    BY <1>2 DEF Targets
  <2>2. CASE s.cur \in Matches
    BY <1>2, <1>6, <2>1, <2>2, LogSkip
  <2>3. CASE s.cur \notin Matches
    BY <1>2, <1>4, <1>6, <2>1, <2>3, LogNext
  <2>4. QED BY <2>2, <2>3
<1>8. t \in Targets
  BY <1>2, <1>4, <1>5, <1>7 DEF Targets
<1>9. Posts(s.cur) => t.result = Value(n, Register(s.cur))
  BY <1>3, <1>6 DEF v
<1>10. QED BY <1>3, <1>6, <1>7, <1>8, <1>9 DEF t

LEMMA CountedFacts ==
  ASSUME NEW l, NEW w \in Seq(WordSet), resp \in Responses, Counted(l, resp, w, "OK")
  PROVE  /\ pc' \in {"fetch", "skip"} /\ s' = l /\ resp' \in Responses
         /\ resp'.count = resp.count + 1 /\ resp'.words = w
<1>1. resp' = [resp EXCEPT !.count = @ + 1, !.words = w, !.value = "OK"]
  BY DEF Counted
<1>2. resp' \in Responses /\ resp'.count = resp.count + 1 /\ resp'.words = w
  <2>1. resp' = [count |-> resp.count + 1, value |-> "OK", mismatch |-> resp.mismatch, words |-> w]
    BY <1>1 DEF Responses
  <2>2. resp.count + 1 \in Nat /\ resp.mismatch \in BOOLEAN
    BY DEF Responses
  <2>3. QED BY <2>1, <2>2 DEF Responses, Answered
<1>3. QED BY <1>2 DEF Counted, Enter

\* A request that has been made is counted.
LEMMA MadeIInv ==
  ASSUME IInv, ~Block, pc \in {"pipeline"} \cup BegunPoints, Tried, target' = Accessed(s.cur),
         NEW l \in Locals, l.nth = s.nth, l.left = s.left, l.pos = s.pos, l.ir = s.ir,
         NEW w \in Seq(WordSet), Counted(l, resp, w, "OK"), pc = "pipeline" => After(s.cur) = 1,
         w \o Held(l, Accessed(s.cur)) = AnswersOf(cmd, resp.count + 1)
  PROVE  IInv'
<1> DEFINE n == resp.count
<1>1. pc \in LoopPoints /\ (pc = "pipeline" \/ pc \in BegunPoints)
  BY DEF LoopPoints, BegunPoints
<1>2. /\ n \in Nat /\ n + 1 <= NRequests /\ s.nth = n + 1 /\ s.left = NRequests - (n + 1)
      /\ s.pos = Offset(cmd, n + 1) /\ resp \in Responses
  BY <1>1, AtRequest
<1>3. /\ pc' \in {"fetch", "skip"} /\ s' = l /\ resp' \in Responses
      /\ resp'.count = n + 1 /\ resp'.words = w
  BY <1>2, CountedFacts
<1>4. cmd' = cmd /\ abort' \in BOOLEAN /\ late' \in Nat
  BY TriedTypes
<1>5. /\ target' \in Targets /\ (Jtag => target'.chain = s'.ir)
      /\ LoggedTo(cmd, target'.log, n + 1) /\ Executed(cmd, target'.log, n + 1)
  BY <1>3, RequestAccessed
<1>6. resp'.words \o Held(s', target') = AnswersOf(cmd, n + 1)
  BY <1>3
<1> HIDE DEF n
<1>7. QED BY <1>2, <1>3, <1>4, <1>5, <1>6, ArriveCounted

LEMMA FailIInv ==
  ASSUME IInv, ~Block, pc \in LoopPoints, NEW k,
         k = "none" \/ (k = s.cur /\ pc \in {"pipeline"} \cup BegunPoints), Fail(k)
  PROVE  IInv'
<1> USE DEF Block, Jtag, NRequests
<1>1. /\ cmd \in Transfer /\ NRequests \in Nat /\ resp.count \in Nat /\ resp.count + 1 <= NRequests
      /\ resp \in Responses /\ target \in Targets /\ s \in Locals
      /\ LoggedTo(cmd, target.log, resp.count) /\ Executed(cmd, target.log, resp.count)
  BY AtRequest
<1>2. PICK ack \in {"WAIT", "FAULT", "ERROR"} :
        /\ pc' = "skip" /\ Tried /\ resp' = [resp EXCEPT !.value = ack] /\ s' = s
        /\ target' \in {target} \cup
             (IF ack = "ERROR" /\ k \in Reads /\ ~Jtag THEN {Accessed(k)} ELSE {})
  BY DEF Fail, Enter
<1>3. /\ resp' \in Responses /\ resp'.value # "OK" /\ resp'.count = resp.count
      /\ resp'.words = resp.words
  BY <1>1, <1>2 DEF Responses, Answered
<1>4. /\ target' \in Targets /\ LoggedTo(cmd, target'.log, NRequests)
      /\ Executed(cmd, target'.log, resp.count)
  <2>1. CASE target' = target
    <3>1. LoggedTo(cmd, target.log, NRequests)
      BY <1>1, LogWeaken DEF Targets
    <3>2. QED BY <1>1, <2>1, <3>1
  <2>2. CASE k = s.cur /\ target' = Accessed(s.cur) /\ pc \in {"pipeline"} \cup BegunPoints
    <3>1. /\ target' \in Targets /\ LoggedTo(cmd, target'.log, resp.count + 1)
          /\ Executed(cmd, target'.log, resp.count + 1)
      BY <2>2, RequestAccessed
    <3>2. LoggedTo(cmd, target'.log, NRequests)
      BY <1>1, <3>1, LogWeaken DEF Targets
    <3>3. QED BY <1>1, <3>1, <3>2 DEF Executed
  <2>3. k = "none" => target' = target
    BY <1>2 DEF Reads
  <2>4. QED BY <1>2, <2>1, <2>2, <2>3
<1>5. cmd' = cmd /\ abort' \in BOOLEAN /\ late' \in Nat
  BY <1>2, TriedTypes
<1>6. TypesInv'
  BY <1>1, <1>2, <1>3, <1>4, <1>5 DEF TypesInv
<1>7. LoopInv'
  BY <1>1, <1>2, <1>3, <1>5 DEF LoopInv, BlockPoints, LoopPoints, BegunPoints
<1>8. ChainInv'
  BY <1>2 DEF ChainInv, LoopPoints, BegunPoints
<1>9. WordsInv'
  BY <1>2, <1>3, <1>5 DEF IInv, TransferInv, WordsInv, Collecting, Good, LoopPoints
<1>10. LogInv'
  BY <1>2, <1>3, <1>4, <1>5 DEF LogInv, LoopPoints
<1>11. QED BY <1>5, <1>6, <1>7, <1>8, <1>9, <1>10 DEF IInv, TransferInv

\* The words that a read adds.
LEMMA ReadWords ==
  ASSUME IInv, ~Block, pc \in LoopPoints, NEW w \in Seq(WordSet),
         w = AnswersOf(cmd, resp.count)
  PROVE  LET n == resp.count + 1 IN
         /\ w \o Stamp(s.nth) \in Seq(WordSet)
         /\ Data(Value(n, Register(s.cur))) \in Seq(WordSet)
         /\ (w \o Stamp(s.nth)) \o Data(Value(n, Register(s.cur))) \in Seq(WordSet)
         /\ s.cur \in {"apRead", "dpRead"} =>
              (w \o Stamp(s.nth)) \o Data(Value(n, Register(s.cur))) = AnswersOf(cmd, n)
         /\ s.cur \in {"apWrite", "dpWrite"} => (w \o Stamp(s.nth)) \o <<>> = AnswersOf(cmd, n)
         /\ s.cur \in Matches \cup {"mask"} => w \o <<>> = AnswersOf(cmd, n)
<1> DEFINE n == resp.count + 1
           d == Data(Value(n, Register(s.cur)))
<1>1. /\ cmd \in Transfer /\ resp.count \in Nat /\ n <= Len(cmd.requests) /\ n \in Nat
      /\ s.nth = n /\ s.cur = cmd.requests[n]
  BY AtRequest DEF NRequests
<1>2. Stamp(s.nth) = StampOf(cmd, n) /\ StampOf(cmd, n) \in Seq(WordSet)
  BY <1>1, AnswerType DEF Stamp, Stamped, StampOf
<1>3. d \in Seq(WordSet)
  <2>1. Value(n, Register(s.cur)) \in Values
    BY <1>1 DEF Value, Values, Register
  <2>2. QED BY <2>1 DEF Data, WordSet
<1> HIDE DEF d
<1>4. w \o Stamp(s.nth) \in Seq(WordSet)
  BY <1>2, ConcatProperties
<1>5. (w \o Stamp(s.nth)) \o d \in Seq(WordSet)
  BY <1>3, <1>4, ConcatProperties
<1>6. s.cur \in {"apRead", "dpRead"} => (w \o Stamp(s.nth)) \o d = AnswersOf(cmd, n)
  BY <1>1, <1>2, AnswerRead DEF d
<1>7. s.cur \in {"apWrite", "dpWrite"} => (w \o Stamp(s.nth)) \o <<>> = AnswersOf(cmd, n)
  <2>1. (w \o Stamp(s.nth)) \o <<>> = w \o Stamp(s.nth)
    BY <1>4, ConcatEmptySeq
  <2>2. s.cur \in {"apWrite", "dpWrite"} => w \o Stamp(s.nth) = AnswersOf(cmd, n)
    BY <1>1, <1>2, AnswerWrite
  <2>3. QED BY <2>1, <2>2
<1>8. s.cur \in Matches \cup {"mask"} => w \o <<>> = AnswersOf(cmd, n)
  <2>1. w \o <<>> = w
    BY ConcatEmptySeq
  <2>2. QED BY <1>1, <2>1, AnswerNone
<1>9. QED BY <1>3, <1>4, <1>5, <1>6, <1>7, <1>8 DEF d

LEMMA PipelineIInv == ASSUME IInv, ~Block, Pipeline PROVE IInv'
<1>1. pc = "pipeline" /\ pc \in LoopPoints
  BY DEF Pipeline, LoopPoints
<1>2. CASE Tried /\ target' = Accessed(s.cur)
           /\ Counted([s EXCEPT !.check = FALSE], resp,
                      resp.words \o Data(target.result) \o Stamp(s.nth), "OK")
  <2> DEFINE n == resp.count + 1
             h == resp.words \o Data(target.result)
             w == h \o Stamp(s.nth)
             l == [s EXCEPT !.check = FALSE]
  <2>1. /\ s \in Locals /\ resp.words \in Seq(WordSet) /\ s.post /\ h = AnswersOf(cmd, resp.count)
        /\ AnswersOf(cmd, resp.count) \in Seq(WordSet)
    BY <1>1, AtRequest DEF Held
  <2>2. s.cur \in {"apRead", "dpRead"} /\ Posts(s.cur) /\ After(s.cur) = 1
    BY <1>1 DEF IInv, TransferInv, LoopInv, KindsAt, After, HasData, LoopPoints
  <2>3. /\ w \in Seq(WordSet)
        /\ w \o Data(Value(n, Register(s.cur))) = AnswersOf(cmd, n)
    BY <1>1, <2>1, <2>2, ReadWords
  <2>4. /\ l \in Locals /\ l.nth = s.nth /\ l.left = s.left /\ l.pos = s.pos /\ l.ir = s.ir
        /\ l.post
    BY <2>1 DEF Locals
  <2>5. Accessed(s.cur).result = Value(n, Register(s.cur))
    BY <1>1, <2>2, RequestAccessed
  <2> HIDE DEF l, h
  <2>6. w \o Held(l, Accessed(s.cur)) = AnswersOf(cmd, n)
    BY <2>3, <2>4, <2>5 DEF Held
  <2>7. Counted(l, resp, w, "OK")
    BY <1>2 DEF l, h
  <2> HIDE DEF w, n
  <2>8. QED BY <1>1, <1>2, <2>2, <2>3, <2>4, <2>6, <2>7, MadeIInv DEF n
<1>3. CASE Fail(s.cur)
  BY <1>1, <1>3, FailIInv
<1>4. QED BY <1>2, <1>3, RetryIInv DEF Pipeline

LEMMA RequestIInv == ASSUME IInv, ~Block, Post \/ Read \/ Write PROVE IInv'
<1> DEFINE n == resp.count + 1
           v == Value(n, Register(s.cur))
           p == resp.words \o Stamp(s.nth)
<1>1. pc \in LoopPoints /\ pc \in BegunPoints /\ pc # "pipeline"
  BY DEF Post, Read, Write, LoopPoints, BegunPoints
<1>2. /\ s \in Locals /\ resp.words \in Seq(WordSet) /\ ~s.post
      /\ resp.words = AnswersOf(cmd, resp.count)
  BY <1>1, AtRequest
<1>3. /\ p \in Seq(WordSet) /\ p \o Data(v) \in Seq(WordSet)
      /\ s.cur \in {"apRead", "dpRead"} => p \o Data(v) = AnswersOf(cmd, n)
      /\ s.cur \in {"apWrite", "dpWrite"} => p \o <<>> = AnswersOf(cmd, n)
  BY <1>1, <1>2, ReadWords
<1>4. ASSUME NEW l, l \in {[s EXCEPT !.post = TRUE, !.check = FALSE], [s EXCEPT !.check = FALSE],
                           [s EXCEPT !.check = TRUE]}
      PROVE  l \in Locals /\ l.nth = s.nth /\ l.left = s.left /\ l.pos = s.pos /\ l.ir = s.ir
  BY <1>2, <1>4 DEF Locals
<1>5. PortOf(s.cur) = Register(s.cur) /\ (Posts(s.cur) => Accessed(s.cur).result = v)
  BY <1>1, RequestAccessed
<1> HIDE DEF n, v, p
<1>6. CASE Post /\ Tried /\ target' = Accessed(s.cur)
           /\ Counted([s EXCEPT !.post = TRUE, !.check = FALSE], resp, p, "OK")
  <2> DEFINE l == [s EXCEPT !.post = TRUE, !.check = FALSE]
  <2>1. s.cur \in {"apRead", "dpRead"} /\ Posts(s.cur)
    BY <1>6, <1>1 DEF Post, IInv, TransferInv, LoopInv, KindsAt
  <2>2. l.post
    BY <1>2 DEF Locals
  <2>3. p \o Held(l, Accessed(s.cur)) = AnswersOf(cmd, n)
    BY <1>3, <1>5, <2>1, <2>2 DEF Held
  <2>4. QED BY <1>1, <1>3, <1>4, <1>6, <2>3, MadeIInv DEF n
<1>7. CASE Read /\ Tried /\ target' = Accessed(s.cur)
           /\ Counted([s EXCEPT !.check = FALSE], resp, p \o Data(Returned(s.cur)), "OK")
  <2> DEFINE l == [s EXCEPT !.check = FALSE]
  <2>1. s.cur \in {"apRead", "dpRead"} /\ ~Posts(s.cur)
    BY <1>7, <1>1 DEF Read, IInv, TransferInv, LoopInv, KindsAt
  <2>2. ~l.post
    BY <1>2 DEF Locals
  <2>3. Returned(s.cur) = v
    BY <1>1, <1>5, <2>1, AtRequest DEF Returned, n, v
  <2> DEFINE w == p \o Data(v)
  <2>4. w \in Seq(WordSet) /\ w \o <<>> = w
    BY <1>3, ConcatEmptySeq
  <2>5. w \o Held(l, Accessed(s.cur)) = AnswersOf(cmd, n)
    BY <1>3, <2>1, <2>2, <2>4 DEF Held
  <2>6. Counted(l, resp, w, "OK")
    BY <1>7, <2>3
  <2> HIDE DEF w
  <2>7. QED BY <1>1, <1>4, <1>7, <2>4, <2>5, <2>6, MadeIInv DEF n
<1>8. CASE Write /\ Tried /\ target' = Accessed(s.cur)
           /\ Counted([s EXCEPT !.check = TRUE], resp, p, "OK")
  <2> DEFINE l == [s EXCEPT !.check = TRUE]
  <2>1. s.cur \in {"apWrite", "dpWrite"}
    BY <1>8, <1>1 DEF Write, IInv, TransferInv, LoopInv, KindsAt
  <2>2. ~l.post
    BY <1>2 DEF Locals
  <2>3. p \o Held(l, Accessed(s.cur)) = AnswersOf(cmd, n)
    BY <1>3, <2>1, <2>2 DEF Held
  <2>4. QED BY <1>1, <1>3, <1>4, <1>8, <2>3, MadeIInv DEF n
<1>9. CASE Fail(s.cur)
  BY <1>1, <1>9, FailIInv
<1>10. QED BY <1>6, <1>7, <1>8, <1>9, RetryIInv DEF Post, Read, Write, p

LEMMA MatchPostIInv == ASSUME IInv, ~Block, MatchPost PROVE IInv'
<1> DEFINE n == resp.count
<1>1. pc \in LoopPoints /\ pc \in BegunPoints /\ pc = "matchPost"
  BY DEF MatchPost, LoopPoints, BegunPoints
<1>2. CASE Tried /\ target' = Accessed(s.cur) /\ Enter("match") /\ s' = Fresh(s)
           /\ resp' = [resp EXCEPT !.value = "OK"]
  <2>1. /\ n \in Nat /\ n + 1 <= NRequests /\ s.nth = n + 1 /\ s.left = NRequests - (n + 1)
        /\ s.cur = cmd.requests[n + 1] /\ s.pos = Offset(cmd, n + 1) /\ ~s.post
        /\ s \in Locals /\ resp \in Responses
        /\ LoggedTo(cmd, target.log, n) /\ Executed(cmd, target.log, n)
        /\ resp.words \in Seq(WordSet) /\ resp.words = AnswersOf(cmd, n)
    BY <1>1, AtRequest
  <2>2. s.cur \in Matches
    BY <1>1 DEF IInv, TransferInv, LoopInv, KindsAt
  <2>3. /\ s' \in Locals /\ s'.nth = s.nth /\ s'.left = s.left /\ s'.cur = s.cur
        /\ s'.pos = s.pos /\ s'.post = s.post /\ s'.ir = s.ir
    BY <1>2, <2>1, FreshType
  <2>4. resp' \in Responses /\ resp'.count = n /\ resp'.words = resp.words
    BY <1>2, <2>1 DEF Responses, Answered
  <2>5. /\ target' \in Targets /\ (Jtag => target'.chain = s'.ir) /\ target'.log = target.log
    BY <1>1, <1>2, <2>2, <2>3, RequestAccessed
  <2>6. Jtag => s.ir = Register(s.cur)
    BY <1>1 DEF IInv, TransferInv, ChainInv
  <2>7. resp'.words \o Held(s', target') = AnswersOf(cmd, n)
    <3>1. Held(s', target') = <<>>
      BY <2>1, <2>3 DEF Held
    <3>2. QED BY <2>1, <2>4, <3>1, ConcatEmptySeq
  <2>8. cmd' = cmd /\ abort' \in BOOLEAN /\ late' \in Nat
    BY <1>2, TriedTypes
  <2>9. pc' = "match" /\ pc' \in LoopPoints /\ pc' \in BegunPoints /\ s'.cur \in KindsAt(pc')
    BY <1>2, <2>2, <2>3 DEF Enter, LoopPoints, BegunPoints, KindsAt
  <2> HIDE DEF n
  <2>10. QED
    BY <2>1, <2>3, <2>4, <2>5, <2>6, <2>7, <2>8, <2>9, ArriveAtRequest
<1>3. CASE Fail(s.cur)
  BY <1>1, <1>3, FailIInv
<1>4. QED BY <1>2, <1>3, RetryIInv DEF MatchPost

\* The requests that are left are skipped, for a comparison that failed.
LEMMA GiveUp ==
  ASSUME IInv, ~Block, pc \in LoopPoints, Tried, pc' = "skip", s' \in Locals,
         resp' \in Responses, resp'.count = resp.count, resp'.words = resp.words,
         ~(resp'.value = "OK" /\ ~resp'.mismatch),
         target' \in Targets, target'.log = target.log
  PROVE  IInv'
<1> USE DEF Block, Jtag, NRequests
<1>1. /\ cmd \in Transfer /\ NRequests \in Nat /\ resp.count \in Nat /\ resp.count + 1 <= NRequests
      /\ LoggedTo(cmd, target.log, resp.count) /\ Executed(cmd, target.log, resp.count)
      /\ target \in Targets
  BY AtRequest
<1>2. cmd' = cmd /\ abort' \in BOOLEAN /\ late' \in Nat
  BY TriedTypes
<1>3. TypesInv'
  BY <1>1, <1>2 DEF TypesInv
<1>4. LoopInv'
  BY <1>1, <1>2 DEF LoopInv, BlockPoints, LoopPoints, BegunPoints
<1>5. ChainInv'
  BY <1>2 DEF ChainInv, LoopPoints, BegunPoints
<1>6. WordsInv'
  BY <1>2 DEF IInv, TransferInv, WordsInv, Collecting, Good, LoopPoints
<1>7. LogInv'
  <2>1. LoggedTo(cmd, target.log, NRequests)
    BY <1>1, LogWeaken DEF Targets
  <2>2. QED BY <1>1, <1>2, <2>1 DEF LogInv, LoopPoints
<1>8. QED BY <1>2, <1>3, <1>4, <1>5, <1>6, <1>7 DEF IInv, TransferInv

LEMMA MatchIInv == ASSUME IInv, ~Block, Match PROVE IInv'
<1> DEFINE n == resp.count
<1>1. pc \in LoopPoints /\ pc \in BegunPoints /\ pc = "match"
  BY DEF Match, LoopPoints, BegunPoints
<1>2. /\ n \in Nat /\ n + 1 <= NRequests /\ s.nth = n + 1 /\ s.left = NRequests - (n + 1)
      /\ s.cur = cmd.requests[n + 1] /\ s.pos = Offset(cmd, n + 1) /\ ~s.post
      /\ s \in Locals /\ resp \in Responses /\ target \in Targets
      /\ LoggedTo(cmd, target.log, n) /\ Executed(cmd, target.log, n)
      /\ resp.words \in Seq(WordSet) /\ resp.words = AnswersOf(cmd, n)
  BY <1>1, AtRequest
<1>3. s.cur \in Matches
  BY <1>1 DEF IInv, TransferInv, LoopInv, KindsAt
<1>4. CASE Tried /\ target' = Accessed(s.cur) /\ Counted([s EXCEPT !.check = FALSE], resp, resp.words, "OK")
  <2> DEFINE l == [s EXCEPT !.check = FALSE]
  <2>1. /\ l \in Locals /\ l.nth = s.nth /\ l.left = s.left /\ l.pos = s.pos /\ l.ir = s.ir
        /\ ~l.post
    BY <1>2 DEF Locals
  <2>2. resp.words \o Held(l, Accessed(s.cur)) = AnswersOf(cmd, n + 1)
    <3>1. resp.words \o <<>> = AnswersOf(cmd, n + 1)
      BY <1>1, <1>2, <1>3, ReadWords
    <3>2. QED BY <2>1, <3>1 DEF Held
  <2>3. Counted(l, resp, resp.words, "OK")
    BY <1>4
  <2> HIDE DEF l
  <2>4. QED BY <1>1, <1>2, <1>4, <2>1, <2>2, <2>3, MadeIInv
<1>5. CASE /\ Tried /\ target' = Accessed(s.cur)
           /\ s.again > 0 /\ ~abort
           /\ pc' = pc /\ s' = Fresh([s EXCEPT !.again = @ - 1])
           /\ resp' = [resp EXCEPT !.value = "OK"]
  <2>3. /\ s' \in Locals /\ s'.nth = s.nth /\ s'.left = s.left /\ s'.cur = s.cur
        /\ s'.pos = s.pos /\ s'.post = s.post /\ s'.ir = s.ir
    <3>1. s.again - 1 \in 0 .. MatchRetry
      BY <1>2, <1>5, CommandsAssumption DEF Locals
    <3> DEFINE m == [s EXCEPT !.again = s.again - 1]
    <3>2. /\ m \in Locals /\ m.pos = s.pos /\ m.left = s.left /\ m.cur = s.cur
          /\ m.nth = s.nth /\ m.post = s.post /\ m.ir = s.ir
      BY <1>2, <3>1, AgainType
    <3>3. s' = Fresh(m)
      BY <1>5
    <3> HIDE DEF m
    <3>4. QED BY <3>2, <3>3, FreshType
  <2>4. resp' \in Responses /\ resp'.count = n /\ resp'.words = resp.words
    BY <1>5, <1>2 DEF Responses, Answered
  <2>5. /\ target' \in Targets /\ (Jtag => target'.chain = s'.ir) /\ target'.log = target.log
    BY <1>1, <1>5, <1>3, <2>3, RequestAccessed
  <2>6. Jtag => s.ir = Register(s.cur)
    BY <1>1 DEF IInv, TransferInv, ChainInv
  <2>7. resp'.words \o Held(s', target') = AnswersOf(cmd, n)
    <3>1. Held(s', target') = <<>>
      BY <1>2, <2>3 DEF Held
    <3>2. QED BY <1>2, <2>4, <3>1, ConcatEmptySeq
  <2>8. cmd' = cmd /\ abort' \in BOOLEAN /\ late' \in Nat
    BY <1>5, TriedTypes
  <2>9. pc' = "match" /\ pc' \in LoopPoints /\ pc' \in BegunPoints /\ s'.cur \in KindsAt(pc')
    BY <1>1, <1>5, <1>3, <2>3 DEF LoopPoints, BegunPoints, KindsAt
  <2> HIDE DEF n
  <2>10. QED
    BY <1>2, <2>3, <2>4, <2>5, <2>6, <2>7, <2>8, <2>9, ArriveAtRequest
<1>6. CASE /\ Tried /\ target' = Accessed(s.cur) /\ Enter("skip") /\ s' = s
           /\ resp' = [resp EXCEPT !.value = "OK", !.mismatch = TRUE]
  <2>1. /\ resp' \in Responses /\ resp'.count = n /\ resp'.words = resp.words /\ resp'.mismatch
    BY <1>2, <1>6 DEF Responses, Answered
  <2>2. target' \in Targets /\ target'.log = target.log
    BY <1>1, <1>3, <1>6, RequestAccessed
  <2>3. QED BY <1>1, <1>2, <1>6, <2>1, <2>2, GiveUp DEF Enter
<1>7. CASE \E ack \in {"WAIT", "FAULT", "ERROR"} :
             /\ Enter("skip") /\ Tried
             /\ \E m \in BOOLEAN : resp' = [resp EXCEPT !.value = ack, !.mismatch = m]
             /\ UNCHANGED <<s, target>>
  <2>1. /\ resp' \in Responses /\ resp'.count = n /\ resp'.words = resp.words
        /\ resp'.value # "OK"
    BY <1>2, <1>7 DEF Responses, Answered
  <2>2. QED BY <1>1, <1>2, <1>7, <2>1, GiveUp DEF Enter
<1>8. QED BY <1>4, <1>5, <1>6, <1>7, RetryIInv DEF Match

\* A request is begun when nothing is posted.
LEMMA BegunIInv ==
  ASSUME IInv, ~Block, cmd' = cmd, abort' \in BOOLEAN, late' \in Nat,
         NEW n \in Nat, resp.count = n, n + 1 <= NRequests,
         NEW l \in Locals, l.nth = n + 1, l.left = NRequests - (n + 1), ~l.post,
         l.pos = Offset(cmd, n) + 1, l.cur = cmd.requests[n + 1],
         Jtag => target.chain = l.ir,
         NEW w \in Seq(WordSet), w = AnswersOf(cmd, n), NEW v \in Answered,
         LoggedTo(cmd, target.log, n), Executed(cmd, target.log, n),
         Begun(l, target, w, v, l.cur)
  PROVE  IInv'
<1> DEFINE k == l.cur
           m == [l EXCEPT !.pos = @ + After(k) - 1]
           i == IF Jtag THEN [m EXCEPT !.ir = Register(k)] ELSE m
<1>1. /\ cmd \in Transfer /\ resp \in Responses /\ target \in Targets /\ NRequests \in Nat
  BY CommandIs DEF IInv, TypesInv
<1>2. /\ Offset(cmd, n) \in Nat /\ Offset(cmd, n + 1) \in Nat
      /\ Offset(cmd, n + 1) = Offset(cmd, n) + After(k) /\ After(k) \in Nat /\ After(k) >= 1
      /\ k \in Kinds
  BY <1>1, NextRequest DEF After, NRequests, Locals
<1>3. /\ m \in Locals /\ m.pos = Offset(cmd, n + 1) /\ m.nth = n + 1 /\ ~m.post
      /\ m.left = NRequests - (n + 1) /\ m.cur = k /\ m.ir = l.ir
  <2>1. l.pos + After(k) - 1 = Offset(cmd, n + 1)
    BY <1>2
  <2>2. m = [l EXCEPT !.pos = Offset(cmd, n + 1)]
    BY <2>1
  <2>3. QED BY <1>2, <2>2 DEF Locals
<1>4. CASE k = "mask"
  <2>1. Counted(m, resp, w, "OK") /\ target' = target
    BY <1>4 DEF Begun
  <2> HIDE DEF m
  <2>2. /\ pc' \in {"fetch", "skip"} /\ s' = m /\ resp' \in Responses
        /\ resp'.count = n + 1 /\ resp'.words = w
    BY <1>1, <2>1, CountedFacts
  <2>3. w \o Held(m, target) = AnswersOf(cmd, n + 1)
    <3>1. Held(m, target) = <<>> /\ w \o <<>> = w
      BY <1>3, ConcatEmptySeq DEF Held
    <3>2. AnswersOf(cmd, n) = AnswersOf(cmd, n + 1)
      BY <1>1, <1>4, AnswerNone DEF NRequests
    <3>3. QED BY <3>1, <3>2
  <2>4. LoggedTo(cmd, target.log, n + 1) /\ Executed(cmd, target.log, n + 1)
    BY <1>1, <1>4, LogSkip DEF Targets
  <2>5. QED BY <1>1, <1>3, <2>1, <2>2, <2>3, <2>4, ArriveCounted
<1>5. CASE k # "mask"
  <2>1. /\ i \in Locals /\ i.pos = Offset(cmd, n + 1) /\ i.nth = n + 1 /\ ~i.post
        /\ i.left = NRequests - (n + 1) /\ i.cur = k /\ (Jtag => i.ir = Register(k))
    <3>1. Register(k) \in {"none", "ap", "dp"}
      BY DEF Register
    <3> HIDE DEF m
    <3>2. QED BY <1>3, <3>1 DEF Locals
  <2>2. /\ s' = Fresh([i EXCEPT !.again = MatchRetry])
        /\ target' = Select(target, l.ir, Register(k))
        /\ resp' = [resp EXCEPT !.words = w, !.value = v]
        /\ pc' = CASE k \in Matches -> IF Posts(k) THEN "matchPost" ELSE "match"
                   [] k \in {"apRead", "dpRead"} -> IF Posts(k) THEN "post" ELSE "read"
                   [] OTHER -> "write"
    BY <1>5 DEF Begun, Enter
  <2> HIDE DEF i
  <2>3. /\ s' \in Locals /\ s'.pos = Offset(cmd, n + 1) /\ s'.nth = n + 1 /\ ~s'.post
        /\ s'.left = NRequests - (n + 1) /\ s'.cur = k /\ (Jtag => s'.ir = Register(k))
    <3> DEFINE j == [i EXCEPT !.again = MatchRetry]
    <3>1. MatchRetry \in 0 .. MatchRetry
      BY CommandsAssumption
    <3>2. /\ j \in Locals /\ j.pos = i.pos /\ j.left = i.left /\ j.cur = i.cur
          /\ j.nth = i.nth /\ j.post = i.post /\ j.ir = i.ir
      BY <2>1, <3>1, AgainType
    <3>3. s' = Fresh(j)
      BY <2>2
    <3> HIDE DEF j
    <3>4. QED BY <2>1, <3>2, <3>3, FreshType
  <2>4. resp' \in Responses /\ resp'.count = n /\ resp'.words = w
    <3>1. resp' = [count |-> resp.count, value |-> v, mismatch |-> resp.mismatch, words |-> w]
      BY <1>1, <2>2 DEF Responses
    <3>2. resp.count \in Nat /\ resp.mismatch \in BOOLEAN
      BY <1>1 DEF Responses
    <3>3. QED BY <3>1, <3>2 DEF Responses
  <2>5. /\ target' \in Targets /\ target'.log = target.log
        /\ (Jtag => target'.chain = Register(k))
    BY <1>1, <2>2 DEF Select, Targets, Register
  <2>6. /\ pc' \in BegunPoints /\ pc' \in LoopPoints /\ k \in KindsAt(pc')
        /\ pc' \in {"pipeline", "post"} => Posts(k)
        /\ pc' = "read" => ~Posts(k)
    <3>1. CASE k \in Matches
      BY <2>2, <3>1 DEF BegunPoints, LoopPoints, KindsAt, Matches
    <3>2. CASE k \in {"apRead", "dpRead"}
      BY <2>2, <3>2 DEF BegunPoints, LoopPoints, KindsAt, Matches
    <3>3. CASE k \in {"apWrite", "dpWrite"}
      BY <2>2, <3>3 DEF BegunPoints, LoopPoints, KindsAt, Matches
    <3>4. QED BY <1>2, <1>5, <3>1, <3>2, <3>3 DEF Kinds, Matches
  <2>7. resp'.words \o Held(s', target') = AnswersOf(cmd, n)
    <3>1. Held(s', target') = <<>> /\ w \o <<>> = w
      BY <2>3, ConcatEmptySeq DEF Held
    <3>2. QED BY <2>4, <3>1
  <2>8. QED BY <1>1, <2>3, <2>4, <2>5, <2>6, <2>7, ArriveAtRequest
<1>6. QED BY <1>4, <1>5

LEMMA RdbuffIInv == ASSUME IInv, ~Block, Rdbuff PROVE IInv'
<1> DEFINE n == resp.count
<1>1. pc \in LoopPoints /\ pc = "rdbuff"
  BY DEF Rdbuff, LoopPoints
<1>2. CASE Tried /\ Begun([s EXCEPT !.post = FALSE], target,
                          resp.words \o Data(target.result), "OK", s.cur)
  <2> DEFINE l == [s EXCEPT !.post = FALSE]
             w == resp.words \o Data(target.result)
  <2>1. /\ n \in Nat /\ n + 1 <= NRequests /\ s.nth = n + 1 /\ s.left = NRequests - (n + 1)
        /\ s.cur = cmd.requests[n + 1] /\ s.pos = Offset(cmd, n) + 1 /\ s.post
        /\ s \in Locals /\ resp \in Responses
        /\ LoggedTo(cmd, target.log, n) /\ Executed(cmd, target.log, n)
        /\ resp.words \o Held(s, target) = AnswersOf(cmd, n)
        /\ AnswersOf(cmd, n) \in Seq(WordSet)
    BY <1>1, AtRequest
  <2>2. w = AnswersOf(cmd, n) /\ w \in Seq(WordSet)
    BY <2>1 DEF Held
  <2>3. /\ l \in Locals /\ l.nth = n + 1 /\ l.left = NRequests - (n + 1) /\ ~l.post
        /\ l.pos = Offset(cmd, n) + 1 /\ l.cur = cmd.requests[n + 1] /\ l.ir = s.ir
        /\ l.cur = s.cur
    BY <2>1 DEF Locals
  <2>4. Jtag => target.chain = s.ir
    BY <1>1 DEF IInv, TransferInv, ChainInv
  <2>5. cmd' = cmd /\ abort' \in BOOLEAN /\ late' \in Nat
    BY <1>2, TriedTypes
  <2>6. Begun(l, target, w, "OK", l.cur)
    BY <1>2, <2>3
  <2>7. "OK" \in Answered
    BY DEF Answered
  <2> HIDE DEF l, w, n
  <2>8. QED BY <2>1, <2>2, <2>3, <2>4, <2>5, <2>6, <2>7, BegunIInv DEF n
<1>3. CASE FailRdbuff
  BY <1>1, <1>3, FailIInv DEF FailRdbuff
<1>4. QED BY <1>2, <1>3, RetryIInv DEF Rdbuff

LEMMA FetchIInv == ASSUME IInv, ~Block, Fetch PROVE IInv'
<1> DEFINE n == resp.count
           k == Here
           l == [s EXCEPT !.left = @ - 1, !.pos = @ + 1, !.cur = k, !.nth = @ + 1]
<1>1. pc = "fetch" /\ cmd' = cmd /\ abort' = abort /\ late' = late
  BY DEF Fetch
<1>2. /\ cmd \in Transfer /\ NRequests \in Nat /\ s \in Locals /\ resp \in Responses
      /\ target \in Targets /\ abort' \in BOOLEAN /\ late' \in Nat
  BY <1>1, CommandIs DEF IInv, TypesInv
<1>3. /\ n \in Nat /\ s.nth = n /\ s.left = NRequests - n /\ n <= NRequests
      /\ s.pos = Offset(cmd, n) /\ (Jtag => target.chain = s.ir)
      /\ LoggedTo(cmd, target.log, n) /\ Executed(cmd, target.log, n)
      /\ resp.words \in Seq(WordSet) /\ resp.words \o Held(s, target) = AnswersOf(cmd, n)
  BY <1>1, <1>2 DEF IInv, TransferInv, LoopInv, ChainInv, LogInv, WordsInv, Collecting, Responses
<1>4. CASE s.left = 0 /\ pc' = "skip" /\ UNCHANGED <<s, resp, target>>
  <2>1. TypesInv'
    BY <1>1, <1>2, <1>4 DEF TypesInv
  <2>2. LoopInv' /\ ChainInv'
    BY <1>1, <1>3, <1>4
    DEF LoopInv, ChainInv, BlockPoints, LoopPoints, BegunPoints, NRequests
  <2>3. WordsInv'
    BY <1>1, <1>3, <1>4 DEF IInv, TransferInv, WordsInv, Collecting, Good, NRequests, Held
  <2>4. LogInv'
    <3>1. LoggedTo(cmd, target.log, NRequests)
      BY <1>2, <1>3, LogWeaken DEF Targets
    <3>2. QED BY <1>1, <1>3, <1>4, <3>1 DEF LogInv, LoopPoints, NRequests
  <2>5. QED BY <1>1, <2>1, <2>2, <2>3, <2>4 DEF IInv, TransferInv, Block
<1>5. CASE s.left > 0
  <2>1. n + 1 <= NRequests /\ n < Len(cmd.requests)
    BY <1>2, <1>3, <1>5 DEF NRequests
  <2>2. k = cmd.requests[n + 1] /\ Offset(cmd, n) \in Nat /\ k \in Kinds
    <3>1. k = cmd.requests[n + 1] /\ Offset(cmd, n) \in Nat
      BY <1>2, <1>3, <2>1, NextRequest
    <3>2. QED BY <1>3, <2>1, <3>1, <1>2 DEF Transfer
  <2>3. /\ l \in Locals /\ l.nth = n + 1 /\ l.left = NRequests - (n + 1) /\ l.post = s.post
        /\ l.pos = Offset(cmd, n) + 1 /\ l.cur = k /\ l.ir = s.ir
    <3> DEFINE a == s.left - 1
               b == s.pos + 1
               c == s.nth + 1
    <3>1. l = [s EXCEPT !.left = a, !.pos = b, !.cur = k, !.nth = c]
      OBVIOUS
    <3>2. /\ a = NRequests - (n + 1) /\ a \in Nat /\ b = Offset(cmd, n) + 1 /\ b \in Nat
          /\ c = n + 1 /\ c \in Nat
      <4>1. /\ NRequests \in Nat /\ n \in Nat /\ s.nth = n /\ s.left = NRequests - n
            /\ n + 1 <= NRequests /\ s.pos = Offset(cmd, n) /\ Offset(cmd, n) \in Nat
        BY <1>2, <1>3, <2>1, <2>2
      <4> HIDE DEF n
      <4>2. QED BY <4>1
    <3> HIDE DEF k, l, n, a, b, c
    <3>3. /\ l \in Locals /\ l.nth = c /\ l.left = a /\ l.post = s.post /\ l.pos = b
          /\ l.cur = k /\ l.ir = s.ir
      BY <1>2, <2>2, <3>1, <3>2 DEF Locals
    <3>4. QED BY <3>2, <3>3
  <2> HIDE DEF l, k
  <2>4. CASE ~s.post /\ Begun(l, target, resp.words, resp.value, k)
    <3>1. resp.words = AnswersOf(cmd, n)
      BY <1>3, <2>4, ConcatEmptySeq DEF Held
    <3>2. resp.value \in Answered
      BY <1>2 DEF Responses
    <3>3. QED BY <1>1, <1>2, <1>3, <2>1, <2>2, <2>3, <2>4, <3>1, <3>2, BegunIInv
  <2>5. CASE /\ s.post /\ Pipelined(k)
             /\ Enter("pipeline") /\ s' = Fresh(l) /\ UNCHANGED <<resp, target>>
    <3>1. /\ s' \in Locals /\ s'.nth = n + 1 /\ s'.left = NRequests - (n + 1) /\ s'.post
          /\ s'.pos = Offset(cmd, n) + 1 /\ s'.cur = k /\ s'.ir = s.ir
      BY <2>3, <2>5, FreshType
    <3>2. k \in {"apRead", "dpRead"} /\ Posts(k) /\ (Jtag => s.ir = Register(k))
      BY <2>5 DEF Pipelined
    <3>3. /\ pc' = "pipeline" /\ pc' \in LoopPoints /\ pc' \notin BegunPoints
          /\ k \in KindsAt(pc')
      BY <2>5, <3>2 DEF Enter, LoopPoints, BegunPoints, KindsAt
    <3>4. resp'.words \o Held(s', target') = AnswersOf(cmd, n)
      BY <1>3, <2>5, <3>1 DEF Held
    <3> HIDE DEF n
    <3>5. QED
      BY <1>1, <1>2, <1>3, <2>1, <2>2, <2>5, <3>1, <3>2, <3>3, <3>4, ArriveAtRequest DEF n
  <2>6. CASE /\ s.post /\ Enter("rdbuff") /\ UNCHANGED resp
             /\ s' = Fresh(IF Jtag THEN [l EXCEPT !.ir = "dp"] ELSE l)
             /\ target' = Select(target, s.ir, "dp")
    <3> DEFINE m == IF Jtag THEN [l EXCEPT !.ir = "dp"] ELSE l
    <3>1. /\ m \in Locals /\ m.nth = n + 1 /\ m.left = NRequests - (n + 1) /\ m.post
          /\ m.pos = Offset(cmd, n) + 1 /\ m.cur = k /\ (Jtag => m.ir = "dp")
      BY <2>3, <2>6 DEF Locals
    <3> HIDE DEF m
    <3>2. /\ s' \in Locals /\ s'.nth = n + 1 /\ s'.left = NRequests - (n + 1) /\ s'.post
          /\ s'.pos = Offset(cmd, n) + 1 /\ s'.cur = k /\ (Jtag => s'.ir = "dp")
      BY <2>6, <3>1, FreshType DEF m
    <3>3. /\ target' \in Targets /\ target'.log = target.log /\ target'.result = target.result
          /\ (Jtag => target'.chain = "dp")
      BY <1>2, <1>3, <2>6 DEF Select, Targets
    <3>4. /\ pc' = "rdbuff" /\ pc' \in LoopPoints /\ pc' \notin BegunPoints
          /\ k \in KindsAt(pc')
      BY <2>2, <2>6 DEF Enter, LoopPoints, BegunPoints, KindsAt
    <3>5. resp'.words \o Held(s', target') = AnswersOf(cmd, n)
      BY <1>3, <2>6, <3>2, <3>3 DEF Held
    <3> HIDE DEF n
    <3>6. QED
      BY <1>1, <1>2, <1>3, <2>1, <2>2, <2>6, <3>2, <3>3, <3>4, <3>5, ArriveAtRequest DEF n
  <2>7. QED BY <1>5, <2>4, <2>5, <2>6 DEF Fetch, l, k
<1>6. s.left = 0 \/ s.left > 0
  BY <1>2, <1>3
<1>7. QED BY <1>4, <1>5, <1>6 DEF Fetch, Enter

-----------------------------------------------------------------------------
(* Before the loop and after it.                                             *)

\* What is known of a transfer command at every point.
LEMMA TransferFacts ==
  ASSUME IInv, ~Block
  PROVE  /\ cmd \in Transfer /\ NRequests \in Nat /\ s \in Locals /\ resp \in Responses
         /\ target \in Targets /\ resp.count \in 0 .. NRequests
         /\ Executed(cmd, target.log, resp.count)
         /\ LoggedTo(cmd, target.log, NRequests)
<1>1. /\ cmd \in Transfer /\ NRequests \in Nat /\ s \in Locals /\ resp \in Responses
      /\ target \in Targets
  BY CommandIs DEF IInv, TypesInv
<1>2. resp.count \in 0 .. NRequests /\ Executed(cmd, target.log, resp.count)
  BY <1>1 DEF IInv, TransferInv, LoopInv, LogInv, Responses
<1>3. \/ LoggedTo(cmd, target.log, resp.count)
      \/ LoggedTo(cmd, target.log, NRequests)
  BY DEF IInv, TransferInv, LogInv
<1>4. LoggedTo(cmd, target.log, resp.count) => LoggedTo(cmd, target.log, NRequests)
  BY <1>1, <1>2, LogWeaken DEF Targets
<1>5. QED BY <1>1, <1>2, <1>3, <1>4

\* After the loop only the words still matter.
LEMMA ArriveAfterLoop ==
  ASSUME IInv, ~Block, cmd' = cmd, pc' \in {"skip", "last", "verify", "done"},
         abort' \in BOOLEAN, late' \in Nat, s' \in Locals, resp' \in Responses,
         resp'.count = resp.count, target' \in Targets, target'.log = target.log,
         pc' = "last" => s'.post, pc' = "verify" => ~s'.post, WordsInv'
  PROVE  IInv'
<1> USE DEF Block, Jtag, NRequests
<1>1. /\ cmd \in Transfer /\ resp.count \in 0 .. NRequests
      /\ Executed(cmd, target.log, resp.count) /\ LoggedTo(cmd, target.log, NRequests)
  BY TransferFacts
<1>2. TypesInv'
  BY <1>1 DEF TypesInv
<1>3. LoopInv'
  BY <1>1 DEF LoopInv, BlockPoints, LoopPoints, BegunPoints
<1>4. ChainInv'
  BY DEF ChainInv, LoopPoints, BegunPoints
<1>5. LogInv'
  BY <1>1 DEF LogInv, LoopPoints
<1>6. QED BY <1>2, <1>3, <1>4, <1>5 DEF IInv, TransferInv

LEMMA BeginIInv == ASSUME IInv, ~Block, BeginTransfer PROVE IInv'
<1> USE DEF Block, Jtag, NRequests
<1>1. /\ pc = "begin" /\ cmd' = cmd /\ resp' = resp /\ target' = target /\ late' = late
      /\ pc' \in {"skip", "done", "fetch"}
      /\ s' = [s EXCEPT !.pos = IF cmd.port = "jtagNoDevice" THEN 1 ELSE 2, !.left = NRequests]
      /\ pc' = "fetch" => cmd.port # "jtagNoDevice"
      /\ abort' = (cmd.port = "none" /\ abort)
  BY DEF BeginTransfer, Enter
<1>2. /\ cmd \in Transfer /\ NRequests \in Nat /\ s \in Locals /\ resp \in Responses
      /\ target \in Targets
  BY TransferFacts
<1>3. /\ s.nth = 0 /\ resp.count = 0 /\ ~s.post /\ (Jtag => target.chain = s.ir)
      /\ LoggedTo(cmd, target.log, 0) /\ Executed(cmd, target.log, 0)
  BY <1>1 DEF IInv, TransferInv, LoopInv, ChainInv, LogInv
<1>4. /\ s' \in Locals /\ s'.nth = 0 /\ s'.post = s.post /\ s'.left = NRequests /\ s'.ir = s.ir
      /\ pc' = "fetch" => s'.pos = 2
  <2> DEFINE b == IF cmd.port = "jtagNoDevice" THEN 1 ELSE 2
  <2>1. b \in Nat /\ (cmd.port # "jtagNoDevice" => b = 2)
    OBVIOUS
  <2>2. s' = [s EXCEPT !.pos = b, !.left = NRequests]
    BY <1>1
  <2>3. NRequests \in Nat /\ s \in Locals
    BY <1>2
  <2> HIDE DEF b
  <2>4. /\ s' \in Locals /\ s'.nth = 0 /\ s'.post = s.post /\ s'.left = NRequests
        /\ s'.ir = s.ir /\ s'.pos = b
    BY <1>3, <2>1, <2>2, <2>3 DEF Locals
  <2>5. QED BY <1>1, <2>1, <2>4
<1>5. Offset(cmd, 0) = 2
  BY JoinedNone DEF Offset
<1>6. abort' \in BOOLEAN /\ late' \in Nat
  BY <1>1 DEF IInv, TypesInv
<1>7. WordsInv'
  <2>1. /\ IsPrefix(resp.words, AnswersOf(cmd, NRequests))
        /\ resp.words \o Held(s, target) = AnswersOf(cmd, resp.count)
    BY <1>1 DEF IInv, TransferInv, WordsInv, Collecting
  <2>2. Held(s', target') = Held(s, target)
    BY <1>1, <1>4 DEF Held
  <2>3. Held(s, target) = <<>> /\ resp.words \o <<>> = resp.words
    BY <1>2, <1>3, ConcatEmptySeq DEF Held, Responses
  <2>4. QED BY <1>1, <2>1, <2>2, <2>3 DEF WordsInv
<1>8. CASE pc' = "fetch"
  <2>1. TypesInv'
    BY <1>1, <1>2, <1>4, <1>6, <1>8 DEF TypesInv
  <2>2. LoopInv'
    BY <1>1, <1>2, <1>3, <1>4, <1>5, <1>8 DEF LoopInv, BlockPoints, LoopPoints, BegunPoints
  <2>3. ChainInv' /\ LogInv'
    BY <1>1, <1>3, <1>4, <1>8 DEF ChainInv, LogInv, LoopPoints, BegunPoints
  <2>4. QED BY <1>1, <1>7, <2>1, <2>2, <2>3 DEF IInv, TransferInv
<1>9. CASE pc' \in {"skip", "done"}
  BY <1>1, <1>2, <1>4, <1>6, <1>7, <1>9, ArriveAfterLoop
<1>10. QED BY <1>1, <1>8, <1>9

LEMMA SkipIInv == ASSUME IInv, ~Block, Skip PROVE IInv'
<1> USE DEF Block, Jtag, NRequests
<1>1. /\ pc = "skip" /\ cmd' = cmd /\ resp' = resp /\ abort' = abort /\ late' = late
  BY DEF Skip
<1>2. /\ s \in Locals /\ resp \in Responses /\ target \in Targets
      /\ abort' \in BOOLEAN /\ late' \in Nat
  BY <1>1, TransferFacts DEF IInv, TypesInv
<1>3. /\ IsPrefix(resp.words, AnswersOf(cmd, NRequests))
      /\ Good => resp.words \o Held(s, target) = AnswersOf(cmd, resp.count)
  BY <1>1 DEF IInv, TransferInv, WordsInv, Collecting
<1>4. CASE /\ s.left > 0
           /\ s' = [s EXCEPT !.left = @ - 1, !.pos = @ + After(Here)]
           /\ pc' = pc /\ UNCHANGED target
  <2> DEFINE b == After(Here)
  <2>1. b \in Nat /\ s.left - 1 \in Nat /\ s.pos + b \in Nat
    <3>1. b \in Nat
      BY DEF After
    <3>2. QED BY <1>2, <1>4, <3>1 DEF Locals
  <2> HIDE DEF b
  <2>2. s' \in Locals /\ s'.post = s.post
    <3> DEFINE a == s.left - 1
               c == s.pos + b
    <3>1. s' = [s EXCEPT !.left = a, !.pos = c]
      BY <1>4 DEF b
    <3>2. a \in Nat /\ c \in Nat
      BY <2>1
    <3> HIDE DEF a, c
    <3>3. QED BY <1>2, <3>1, <3>2 DEF Locals
  <2>3. WordsInv'
    BY <1>1, <1>3, <1>4, <2>2 DEF WordsInv, Collecting, Good, Held, LoopPoints
  <2>4. QED BY <1>1, <1>2, <1>4, <2>2, <2>3, ArriveAfterLoop
<1>5. CASE /\ pc' = (IF Good /\ s.post THEN "last"
                     ELSE IF Good /\ (Jtag \/ s.check) THEN "verify" ELSE "done")
           /\ target' = (IF Good THEN Select(target, s.ir, "dp") ELSE target)
           /\ s' = Fresh(s)
  <2>1. /\ s' \in Locals /\ s'.post = s.post
    BY <1>2, <1>5, FreshType
  <2>2. /\ target' \in Targets /\ target'.log = target.log /\ target'.result = target.result
    BY <1>2, <1>5 DEF Select, Targets
  <2>3. pc' = "last" => s'.post
    BY <1>5, <2>1
  <2>4. pc' = "verify" => ~s'.post
    BY <1>5, <2>1
  <2>5. ~s.post => Held(s, target) = <<>> /\ resp.words \o <<>> = resp.words
    BY <1>2, ConcatEmptySeq DEF Held, Responses
  <2>6. Held(s', target') = Held(s, target)
    BY <2>1, <2>2 DEF Held
  <2>7. pc' # "skip" /\ pc' \notin {"begin", "fetch"} \cup LoopPoints
        /\ (pc' \in {"last", "verify"} => Good) /\ (pc' = "done" /\ Good => ~s.post)
        /\ pc' \in {"last", "verify", "done"}
    BY <1>5 DEF LoopPoints
  <2>8. WordsInv'
    BY <1>1, <1>3, <2>5, <2>6, <2>7 DEF WordsInv, Collecting, Good
  <2>9. QED BY <1>1, <1>2, <2>1, <2>2, <2>3, <2>4, <2>7, <2>8, ArriveAfterLoop
<1>6. QED BY <1>4, <1>5 DEF Skip, Enter, Good

LEMMA LastIInv == ASSUME IInv, ~Block, LastValue PROVE IInv'
<1> USE DEF Block, NRequests
<1>1. /\ pc = "last" /\ cmd' = cmd
      /\ cmd \in Transfer /\ s \in Locals /\ resp \in Responses /\ target \in Targets
      /\ NRequests \in Nat /\ resp.count \in 0 .. NRequests
  BY TransferFacts DEF LastValue, Tried, Retry
<1>2. /\ IsPrefix(resp.words, AnswersOf(cmd, NRequests))
      /\ resp.words \o Data(target.result) = AnswersOf(cmd, resp.count)
  BY <1>1 DEF IInv, TransferInv, WordsInv, Collecting, LoopInv, Held
<1>3. CASE /\ Tried /\ pc' = "done"
           /\ resp' = [resp EXCEPT !.words = @ \o Data(target.result)]
           /\ UNCHANGED <<s, target>>
  <2>1. /\ AnswersOf(cmd, resp.count) \in Seq(WordSet)
        /\ IsPrefix(AnswersOf(cmd, resp.count), AnswersOf(cmd, NRequests))
    BY <1>1, AnswersNext
  <2>2. resp' = [resp EXCEPT !.words = AnswersOf(cmd, resp.count)]
    BY <1>2, <1>3
  <2>3. /\ resp' \in Responses /\ resp'.count = resp.count
        /\ resp'.words = AnswersOf(cmd, resp.count)
    BY <1>1, <2>1, <2>2 DEF Responses
  <2>4. WordsInv'
    BY <1>1, <1>3, <2>1, <2>3 DEF WordsInv, Collecting, LoopPoints
  <2>5. QED BY <1>1, <1>3, <2>3, <2>4, ArriveAfterLoop, TriedTypes
<1>4. CASE /\ \E ack \in {"WAIT", "FAULT", "ERROR"} : resp' = [resp EXCEPT !.value = ack]
           /\ pc' = "done" /\ Tried /\ UNCHANGED <<s, target>>
  <2>1. /\ resp' \in Responses /\ resp'.count = resp.count /\ resp'.words = resp.words
        /\ resp'.value # "OK"
    BY <1>1, <1>4 DEF Responses, Answered
  <2>2. WordsInv'
    BY <1>1, <1>2, <1>4, <2>1 DEF WordsInv, Collecting, Good, LoopPoints
  <2>3. QED BY <1>1, <1>4, <2>1, <2>2, ArriveAfterLoop, TriedTypes
<1>5. QED BY <1>3, <1>4, RetryIInv DEF LastValue, Enter

LEMMA VerifyIInv == ASSUME IInv, Verify PROVE IInv'
<1> USE DEF Block, NRequests
<1>1. pc = "verify"
  BY DEF Verify
<1>2. CASE /\ \E ack \in {"OK", "WAIT", "FAULT", "ERROR"} : resp' = [resp EXCEPT !.value = ack]
           /\ pc' = "done" /\ Tried /\ UNCHANGED <<s, target>>
  <2>1. /\ resp \in Responses /\ s \in Locals /\ target \in Targets
        /\ cmd' = cmd /\ abort' \in BOOLEAN /\ late' \in Nat
    BY <1>2, TriedTypes DEF IInv, TypesInv
  <2>2. /\ resp' \in Responses /\ resp'.count = resp.count /\ resp'.words = resp.words
    BY <1>2, <2>1 DEF Responses, Answered
  <2>3. CASE ~Block
    <3>1. ~s.post /\ IsPrefix(resp.words, AnswersOf(cmd, NRequests))
          /\ resp.words \o Held(s, target) = AnswersOf(cmd, resp.count)
      BY <1>1, <2>3 DEF IInv, TransferInv, WordsInv, Collecting, LoopInv
    <3>2. Held(s, target) = <<>> /\ resp.words \o <<>> = resp.words
      BY <2>1, <3>1, ConcatEmptySeq DEF Held, Responses
    <3>3. WordsInv'
      BY <1>2, <2>1, <2>2, <3>1, <3>2 DEF WordsInv, Collecting, LoopPoints
    <3>4. QED BY <1>2, <2>1, <2>2, <2>3, <3>3, ArriveAfterLoop
  <2>4. CASE Block
    <3>1. TypesInv'
      BY <1>2, <2>1, <2>2 DEF IInv, TypesInv
    <3>2. BlockInv'
      BY <1>1, <1>2, <2>1, <2>2, <2>4 DEF IInv, BlockInv, BlockPoints
    <3>3. QED BY <2>1, <2>4, <3>1, <3>2 DEF IInv
  <2>5. QED BY <2>3, <2>4
<1>3. QED BY <1>2, RetryIInv DEF Verify, Enter

-----------------------------------------------------------------------------
(* DAP_TransferBlock.                                                        *)

LEMMA BlockFacts ==
  ASSUME IInv, Block
  PROVE  /\ cmd \in BlockCommand /\ cmd.words \in Nat /\ Register(cmd.reg) \in {"ap", "dp"}
         /\ s \in Locals /\ resp \in Responses /\ target \in Targets /\ BlockInv
         /\ resp.count \in Nat /\ Len(target.log) \in Nat /\ cmd.reg \notin Matches
BY CommandIs DEF IInv, TypesInv, BlockCommand, Register, Responses, Targets, Matches

LEMMA ArriveInBlock ==
  ASSUME IInv, Block, cmd' = cmd, abort' \in BOOLEAN, late' \in Nat, s' \in Locals,
         resp' \in Responses, target' \in Targets, BlockInv'
  PROVE  IInv'
<1>1. TypesInv'
  BY DEF IInv, TypesInv, BlockInv
<1>2. QED BY <1>1 DEF IInv, Block

\* The words read go on with the next.
LEMMA WordsNext ==
  ASSUME NEW c \in BlockCommand, NEW n \in Nat
  PROVE  /\ WordsOf(c, n) \in Seq(WordSet)
         /\ c.reg \in Reads =>
              WordsOf(c, n) \o Data(Value(n + 1, Register(c.reg))) = WordsOf(c, n + 1)
<1> DEFINE p == Register(c.reg)
           w(m) == [i \in 1 .. m |-> Data(Value(i, p))[1]]
<1>1. p \in {"none", "ap", "dp"}
  BY DEF Register
<1>2. \A i \in Nat : Data(Value(i, p)) = <<Data(Value(i, p))[1]>> /\ Data(Value(i, p))[1] \in WordSet
  BY <1>1 DEF Data, Value, WordSet, Values
<1> HIDE DEF p
<1> DEFINE d(i) == Data(Value(i, p))[1]
<1>3. w(n) \in Seq(WordSet) /\ Len(w(n)) = n
  <2>1. \A i \in 1 .. n : d(i) \in WordSet
    BY <1>2
  <2> HIDE DEF d
  <2>2. [i \in 1 .. n |-> d(i)] \in Seq(WordSet) /\ Len([i \in 1 .. n |-> d(i)]) = n
    BY <2>1
  <2>3. QED BY <2>2 DEF d
<1>4. w(n) \o <<d(n + 1)>> = w(n + 1)
  <2>1. \A i \in 1 .. n + 1 : d(i) \in WordSet
    BY <1>2
  <2> HIDE DEF d
  <2>2. [i \in 1 .. n |-> d(i)] \o <<d(n + 1)>> = [i \in 1 .. n + 1 |-> d(i)]
    BY <2>1
  <2>3. QED BY <2>2 DEF d
<1>5. Data(Value(n + 1, p)) = <<d(n + 1)>>
  BY <1>2
<1>6. CASE c.reg \in Reads
  <2>1. WordsOf(c, n) = w(n) /\ WordsOf(c, n + 1) = w(n + 1)
    BY <1>6 DEF WordsOf, p
  <2>2. WordsOf(c, n) \o Data(Value(n + 1, p)) = WordsOf(c, n + 1)
    BY <1>4, <1>5, <2>1, Zenon
  <2>3. QED BY <1>3, <2>1, <2>2 DEF p
<1>7. CASE c.reg \notin Reads
  BY <1>7 DEF WordsOf
<1>8. QED BY <1>6, <1>7

\* The first n words have been accessed, in their order.
LoggedWords(q, n, port) == Len(q) = n /\ \A i \in 1 .. Len(q) : q[i] = Value(i, port)

LEMMA LoggedNext ==
  ASSUME NEW q \in Seq(Values), NEW n \in Nat, NEW port, LoggedWords(q, n, port),
         NEW v \in Values, v = Value(n + 1, port)
  PROVE  Append(q, v) \in Seq(Values) /\ LoggedWords(Append(q, v), n + 1, port)
BY DEF LoggedWords

\* One more access of the register, with the chain as it is to be.
LEMMA BlockAccess ==
  ASSUME IInv, Block, Jtag => target.chain = Register(cmd.reg)
  PROVE  LET t == Accessed(cmd.reg)
             v == Value(Len(target.log) + 1, Register(cmd.reg))
         IN  /\ v \in Values /\ t \in Targets /\ t.chain = target.chain
             /\ t.log = Append(target.log, v)
             /\ Posts(cmd.reg) => t.result = v
             /\ Returned(cmd.reg) = IF Posts(cmd.reg) THEN target.result ELSE v
<1> DEFINE v == Value(Len(target.log) + 1, Register(cmd.reg))
           r == IF Posts(cmd.reg) THEN v ELSE IF Jtag THEN NoValue ELSE target.result
           l == Append(target.log, v)
           t == Accessed(cmd.reg)
<1>1. PortOf(cmd.reg) = Register(cmd.reg)
  BY DEF PortOf
<1>2. v \in Values /\ NoValue \in Values
  BY BlockFacts DEF Value, NoValue, Values
<1>3. r \in Values /\ l \in Seq(Values) /\ target \in Targets
  BY <1>2, BlockFacts DEF Targets
<1>4. t = [target EXCEPT !.result = r, !.log = l]
  BY <1>1, BlockFacts DEF Accessed, Targets
<1>5. Posts(cmd.reg) => r = v
  OBVIOUS
<1>6. Returned(cmd.reg) = IF Posts(cmd.reg) THEN target.result ELSE v
  BY <1>1 DEF Returned
<1> HIDE DEF r, l, t, v
<1>7. t \in Targets /\ t.chain = target.chain /\ t.log = l /\ t.result = r
  BY <1>3, <1>4 DEF Targets
<1>8. QED BY <1>2, <1>5, <1>6, <1>7 DEF l, t, v

\* Selecting a chain.
LEMMA Selected ==
  ASSUME NEW t \in Targets, NEW ir, NEW port \in {"ap", "dp"}
  PROVE  LET u == Select(t, ir, port)
         IN  /\ u \in Targets /\ u.log = t.log /\ u.result = t.result
             /\ Jtag /\ t.chain = ir => u.chain = port
BY DEF Select, Targets

LEMMA BeginBlockIInv == ASSUME IInv, BeginBlock PROVE IInv'
<1> USE DEF Jtag, Posts, FromRdbuff
<1>1. /\ Block /\ pc = "begin" /\ cmd' = cmd /\ resp' = resp /\ late' = late
      /\ abort' = (cmd.port = "none" /\ abort)
  BY DEF BeginBlock
<1>2. /\ cmd \in BlockCommand /\ cmd.words \in Nat /\ Register(cmd.reg) \in {"ap", "dp"}
      /\ s \in Locals /\ resp \in Responses /\ target \in Targets /\ BlockInv
  BY <1>1, BlockFacts
<1>3. abort' \in BOOLEAN /\ late' \in Nat
  BY <1>1 DEF IInv, TypesInv
<1>4. resp.count = 0 /\ Len(target.log) = 0 /\ resp.words = WordsOf(cmd, 0)
  BY <1>1, <1>2 DEF BlockInv
<1>5. CASE cmd.port \in {"none", "jtagNoDevice"} \/ cmd.words = 0
  <2>1. pc' = "done" /\ s' = s /\ target' = target
    BY <1>5 DEF BeginBlock, Enter
  <2>2. BlockInv'
    BY <1>1, <1>2, <1>4, <2>1 DEF BlockInv, BlockPoints
  <2>3. QED BY <1>1, <1>2, <1>3, <2>1, <2>2, ArriveInBlock
<1>6. CASE ~(cmd.port \in {"none", "jtagNoDevice"} \/ cmd.words = 0)
  <2> DEFINE i == IF Jtag THEN Register(cmd.reg) ELSE s.ir
             l == [s EXCEPT !.left = cmd.words, !.ir = i]
  <2>1. /\ pc' = IF cmd.reg \notin Reads THEN "blockWrite"
                 ELSE IF Posts(cmd.reg) THEN "blockPost" ELSE "blockRead"
        /\ s' = Fresh(l) /\ target' = Select(target, s.ir, Register(cmd.reg))
    BY <1>6 DEF BeginBlock, Enter
  <2>2. i \in {"none", "ap", "dp"} /\ cmd.words # 0
    BY <1>2, <1>6 DEF Locals
  <2>3. s' \in Locals /\ s'.left = cmd.words
    <3> HIDE DEF i
    <3>1. l \in Locals /\ l.left = cmd.words
      BY <1>2, <2>2 DEF Locals
    <3> HIDE DEF l
    <3>2. QED BY <2>1, <3>1, FreshType
  <2>4. /\ target' \in Targets /\ target'.log = target.log
        /\ Jtag => target'.chain = Register(cmd.reg)
    <3>1. Jtag => target.chain = s.ir
      BY <1>1, <1>2 DEF BlockInv
    <3>2. QED BY <1>2, <2>1, <3>1, Selected
  <2>5. BlockInv'
    BY <1>1, <1>2, <1>4, <2>1, <2>2, <2>3, <2>4 DEF BlockInv, BlockPoints
  <2>6. QED BY <1>1, <1>2, <1>3, <2>3, <2>4, <2>5, ArriveInBlock
<1>7. QED BY <1>5, <1>6

\* The block ends with a failure.
LEMMA BlockFailIInv ==
  ASSUME IInv, Block, pc \in BlockPoints, NEW k, Fail(k),
         k \in Reads => /\ k = cmd.reg /\ Len(target.log) < cmd.words
  PROVE  IInv'
<1> USE DEF Jtag
<1>1. /\ cmd' = cmd /\ s' = s /\ pc' = "done" /\ abort' \in BOOLEAN /\ late' \in Nat
      /\ \E ack \in {"WAIT", "FAULT", "ERROR"} : resp' = [resp EXCEPT !.value = ack]
      /\ target' = target \/ (k \in Reads /\ ~Jtag /\ target' = Accessed(k))
  <2>1. Tried /\ s' = s /\ pc' = "done"
    BY DEF Fail, Enter
  <2>2. /\ \E ack \in {"WAIT", "FAULT", "ERROR"} : resp' = [resp EXCEPT !.value = ack]
        /\ target' = target \/ (k \in Reads /\ ~Jtag /\ target' = Accessed(k))
    BY DEF Fail
  <2>3. QED BY <2>1, <2>2, TriedTypes
<1>2. /\ cmd \in BlockCommand /\ cmd.words \in Nat /\ s \in Locals /\ resp \in Responses
      /\ target \in Targets /\ BlockInv /\ resp.count \in Nat /\ Len(target.log) \in Nat
  BY BlockFacts
<1>3. resp' \in Responses /\ resp'.count = resp.count /\ resp'.words = resp.words
  BY <1>1, <1>2 DEF Responses, Answered
<1>4. LoggedWords(target.log, Len(target.log), Register(cmd.reg))
  BY <1>2 DEF BlockInv, LoggedWords
<1>5. /\ target' \in Targets /\ Len(target.log) <= Len(target'.log)
      /\ Len(target'.log) <= cmd.words
      /\ LoggedWords(target'.log, Len(target'.log), Register(cmd.reg))
  <2>1. CASE target' = target
    BY <1>2, <1>4, <2>1 DEF BlockInv
  <2>2. CASE k \in Reads /\ ~Jtag /\ target' = Accessed(k)
    <3> DEFINE v == Value(Len(target.log) + 1, Register(cmd.reg))
    <3>1. /\ v \in Values /\ target' \in Targets /\ target'.log = Append(target.log, v)
          /\ Len(target.log) < cmd.words
      BY <2>2, BlockAccess
    <3>2. target.log \in Seq(Values)
      BY <1>2 DEF Targets
    <3>3. LoggedWords(target'.log, Len(target.log) + 1, Register(cmd.reg))
      BY <1>2, <1>4, <3>1, <3>2, LoggedNext
    <3>4. QED BY <1>2, <3>1, <3>3 DEF LoggedWords
  <2>3. QED BY <1>1, <2>1, <2>2
<1>6. BlockInv'
  BY <1>1, <1>2, <1>3, <1>5 DEF BlockInv, BlockPoints, LoggedWords, Targets
<1>7. QED BY <1>1, <1>2, <1>3, <1>5, <1>6, ArriveInBlock

LEMMA BlockLocals ==
  ASSUME NEW l \in Locals, l.left # 0
  PROVE  LET m == Fresh([l EXCEPT !.left = @ - 1]) IN m \in Locals /\ m.left = l.left - 1
<1> DEFINE b == l.left - 1
           m == [l EXCEPT !.left = b]
<1>1. b \in Nat /\ m = [l EXCEPT !.left = @ - 1]
  BY DEF Locals
<1> HIDE DEF b
<1>2. m \in Locals /\ m.left = b
  BY <1>1 DEF Locals
<1> HIDE DEF m
<1>3. QED BY <1>1, <1>2, FreshType DEF b

LEMMA BlockPostIInv == ASSUME IInv, Block, BlockPost PROVE IInv'
<1> USE DEF Jtag, Posts, FromRdbuff
<1>1. pc = "blockPost"
  BY DEF BlockPost
<1>2. /\ cmd \in BlockCommand /\ cmd.words \in Nat /\ Register(cmd.reg) \in {"ap", "dp"}
      /\ s \in Locals /\ resp \in Responses /\ target \in Targets /\ BlockInv
  BY BlockFacts
<1>3. /\ resp.count = 0 /\ Len(target.log) = 0 /\ resp.words = WordsOf(cmd, 0)
      /\ s.left = cmd.words /\ cmd.words # 0 /\ cmd.reg \in Reads /\ Posts(cmd.reg)
      /\ Jtag => target.chain = Register(cmd.reg)
      /\ LoggedWords(target.log, 0, Register(cmd.reg))
  BY <1>1, <1>2 DEF BlockInv, BlockPoints, LoggedWords
<1> DEFINE t == Accessed(cmd.reg)
<1>4. CASE /\ Tried /\ Enter("blockRead") /\ s' = Fresh(s) /\ resp' = [resp EXCEPT !.value = "OK"]
           /\ target' = IF FromRdbuff(s.left) THEN Select(t, s.ir, "dp") ELSE t
  <2>1. cmd' = cmd /\ abort' \in BOOLEAN /\ late' \in Nat /\ pc' = "blockRead"
    BY <1>4, TriedTypes DEF Enter
  <2>2. s' \in Locals /\ s'.left = s.left
    BY <1>2, <1>4, FreshType
  <2>3. resp' \in Responses /\ resp'.count = 0 /\ resp'.words = resp.words
    BY <1>2, <1>3, <1>4 DEF Responses, Answered
  <2> DEFINE v == Value(1, Register(cmd.reg))
  <2>4. /\ v \in Values /\ t \in Targets /\ t.chain = target.chain
        /\ t.log = Append(target.log, v) /\ t.result = v
    BY <1>3, BlockAccess
  <2>5. LoggedWords(t.log, 1, Register(cmd.reg))
    <3>1. target.log \in Seq(Values) /\ v = Value(0 + 1, Register(cmd.reg)) /\ 0 + 1 = 1
      BY <1>2 DEF Targets
    <3> HIDE DEF v
    <3>2. QED BY <1>3, <2>4, <3>1, LoggedNext
  <2> HIDE DEF t
  <2>6. /\ target' \in Targets /\ target'.log = t.log /\ target'.result = t.result
        /\ ~FromRdbuff(s.left) => target'.chain = t.chain
    BY <1>4, <2>4, Selected
  <2>7. BlockInv'
    BY <1>2, <1>3, <2>1, <2>2, <2>3, <2>4, <2>5, <2>6 DEF BlockInv, BlockPoints, LoggedWords
  <2>8. QED BY <2>1, <2>2, <2>3, <2>6, <2>7, ArriveInBlock
<1>5. CASE Retry
  BY <1>5, RetryIInv
<1>6. CASE Fail(cmd.reg)
  BY <1>1, <1>2, <1>3, <1>6, BlockFailIInv DEF BlockPoints
<1>7. QED BY <1>4, <1>5, <1>6 DEF BlockPost

LEMMA BlockReadIInv == ASSUME IInv, Block, BlockRead PROVE IInv'
<1> USE DEF Jtag, Posts, FromRdbuff
<1> DEFINE n == resp.count
           port == Register(cmd.reg)
           w == resp.words \o Data(Returned(cmd.reg))
           t == IF FromRdbuff(s.left) THEN target ELSE Accessed(cmd.reg)
<1>1. pc = "blockRead"
  BY DEF BlockRead
<1>2. /\ cmd \in BlockCommand /\ cmd.words \in Nat /\ port \in {"ap", "dp"}
      /\ s \in Locals /\ resp \in Responses /\ target \in Targets /\ BlockInv
      /\ n \in Nat /\ Len(target.log) \in Nat /\ target.log \in Seq(Values)
  BY BlockFacts DEF Targets
<1>3. /\ n <= cmd.words /\ Len(target.log) <= cmd.words /\ resp.words = WordsOf(cmd, n)
      /\ s.left = cmd.words - n /\ s.left # 0 /\ cmd.reg \in Reads
      /\ Posts(cmd.reg) => Len(target.log) = n + 1 /\ target.result = Value(n + 1, port)
      /\ ~Posts(cmd.reg) => Len(target.log) = n
      /\ Jtag /\ ~FromRdbuff(s.left) => target.chain = port
      /\ LoggedWords(target.log, Len(target.log), port)
  BY <1>1, <1>2 DEF BlockInv, BlockPoints, LoggedWords
<1>4. CASE /\ Tried /\ Enter(IF s.left = 1 THEN "done" ELSE "blockRead")
           /\ s' = Fresh([s EXCEPT !.left = @ - 1])
           /\ resp' = [resp EXCEPT !.count = @ + 1, !.value = "OK", !.words = w]
           /\ target' = IF FromRdbuff(s.left - 1) THEN Select(t, s.ir, "dp") ELSE t
  <2>1. /\ cmd' = cmd /\ abort' \in BOOLEAN /\ late' \in Nat
        /\ pc' = IF s.left = 1 THEN "done" ELSE "blockRead"
    BY <1>4, TriedTypes DEF Enter
  <2>2. s' \in Locals /\ s'.left = s.left - 1
    BY <1>2, <1>3, <1>4, BlockLocals
  <2>3. /\ w = WordsOf(cmd, n + 1)
    <3>1. Returned(cmd.reg) = Value(n + 1, port)
      <4>1. CASE Posts(cmd.reg)
        BY <1>3, <4>1 DEF Returned
      <4>2. CASE ~Posts(cmd.reg)
        BY <1>3, <4>2, BlockAccess
      <4>3. QED BY <4>1, <4>2
    <3>2. QED BY <1>2, <1>3, <3>1, WordsNext
  <2>4. resp' \in Responses /\ resp'.count = n + 1 /\ resp'.words = w
    <3>1. w \in Seq(WordSet) /\ n + 1 \in Nat
      BY <1>2, <2>3, WordsNext
    <3> HIDE DEF w
    <3> DEFINE m == n + 1
    <3>2. resp' = [resp EXCEPT !.count = m, !.value = "OK", !.words = w]
      BY <1>4
    <3> HIDE DEF m
    <3>3. resp' \in Responses /\ resp'.count = m /\ resp'.words = w
      BY <1>2, <3>1, <3>2 DEF Responses, Answered, m
    <3>4. QED BY <3>3 DEF m
  <2> HIDE DEF w
  <2>5. /\ t \in Targets /\ LoggedWords(t.log, Len(t.log), port) /\ Len(t.log) \in Nat
        /\ Len(t.log) = IF FromRdbuff(s.left) THEN n + 1
                        ELSE IF Posts(cmd.reg) THEN n + 2 ELSE n + 1
        /\ Posts(cmd.reg) /\ ~FromRdbuff(s.left) => t.result = Value(n + 2, port)
        /\ Jtag /\ ~FromRdbuff(s.left) => t.chain = port
    <3>1. CASE FromRdbuff(s.left)
      BY <1>2, <1>3, <3>1
    <3>2. CASE ~FromRdbuff(s.left)
      <4> DEFINE v == Value(Len(target.log) + 1, port)
                 a == Accessed(cmd.reg)
      <4>1. /\ v \in Values /\ a \in Targets /\ a.chain = target.chain
            /\ a.log = Append(target.log, v)
            /\ Posts(cmd.reg) => a.result = v
        BY <1>3, <3>2, BlockAccess
      <4>2. t = a
        BY <3>2
      <4>3. v = Value(Len(target.log) + 1, port)
        OBVIOUS
      <4> HIDE DEF a, t, v
      <4>4. LoggedWords(a.log, Len(target.log) + 1, port)
        <5> DEFINE q == target.log
                   m == Len(target.log)
        <5>1. /\ q \in Seq(Values) /\ m \in Nat /\ LoggedWords(q, m, port) /\ v \in Values
              /\ v = Value(m + 1, port)
          BY <1>2, <1>3, <4>1, <4>3
        <5>2. a.log = Append(q, v)
          BY <4>1
        <5> HIDE DEF q, m, port, n
        <5>3. LoggedWords(Append(q, v), m + 1, port)
          BY <5>1, LoggedNext
        <5>4. QED BY <5>2, <5>3 DEF m
      <4>5. Len(a.log) = Len(target.log) + 1 /\ LoggedWords(a.log, Len(a.log), port)
        BY <4>4 DEF LoggedWords
      <4>6. (n + 1) + 1 = n + 2
        BY <1>2
      <4>7. Posts(cmd.reg) => t.result = Value(n + 2, port) /\ Len(t.log) = n + 2
        BY <1>2, <1>3, <4>1, <4>2, <4>3, <4>5, <4>6
      <4>8. ~Posts(cmd.reg) => Len(t.log) = n + 1
        BY <1>3, <4>2, <4>5
      <4>9. Jtag => t.chain = port
        BY <1>3, <3>2, <4>1, <4>2
      <4>10. /\ t \in Targets /\ LoggedWords(t.log, Len(t.log), port)
             /\ Len(t.log) = IF Posts(cmd.reg) THEN n + 2 ELSE n + 1
        BY <4>1, <4>2, <4>5, <4>7, <4>8
      <4>11. Len(t.log) \in Nat
        BY <1>2, <4>10
      <4>12. QED BY <3>2, <4>7, <4>9, <4>10, <4>11
    <3>3. QED BY <3>1, <3>2
  <2> HIDE DEF t
  <2>6. /\ target' \in Targets /\ target'.log = t.log /\ target'.result = t.result
        /\ ~FromRdbuff(s.left - 1) => target'.chain = t.chain
    BY <1>4, <2>5, Selected
  <2>7. CASE s.left = 1
    <3>1. Len(t.log) = n + 1 /\ n + 1 = cmd.words
      BY <1>2, <1>3, <2>5, <2>7
    <3>2. BlockInv'
      BY <1>2, <2>1, <2>3, <2>4, <2>5, <2>6, <2>7, <3>1 DEF BlockInv, BlockPoints, LoggedWords
    <3>3. QED BY <2>1, <2>2, <2>4, <2>6, <3>2, ArriveInBlock
  <2>8. CASE s.left # 1
    <3>1. /\ s.left - 1 = cmd.words - (n + 1) /\ s.left - 1 # 0 /\ n + 2 <= cmd.words
          /\ Len(t.log) = IF Posts(cmd.reg) THEN n + 2 ELSE n + 1
          /\ (n + 1) + 1 = n + 2
      BY <1>2, <1>3, <2>5, <2>8
    <3>2. BlockInv'
      <4>1. pc' = "blockRead"
        BY <2>1, <2>8
      <4>2. Jtag' = Jtag /\ Posts(cmd.reg)' = Posts(cmd.reg)
        BY <2>1
      <4>3. Posts(cmd.reg) => t.result = Value((n + 1) + 1, port) /\ Len(t.log) = (n + 1) + 1
        BY <2>5, <2>8, <3>1
      <4>4. Jtag /\ ~FromRdbuff(s.left - 1) => target'.chain = port
        BY <2>5, <2>6, <2>8
      <4>5. /\ pc' = "blockRead" /\ resp'.count = n + 1 /\ n + 1 <= cmd.words
            /\ Len(target'.log) = Len(t.log) /\ n + 1 <= Len(t.log) /\ Len(t.log) <= cmd.words
            /\ LoggedWords(target'.log, Len(target'.log), port)
            /\ resp'.words = WordsOf(cmd, n + 1)
            /\ s'.left = cmd.words - (n + 1) /\ s'.left # 0
            /\ ~Posts(cmd.reg) => Len(t.log) = n + 1
        BY <1>2, <2>2, <2>3, <2>4, <2>5, <2>6, <3>1, <4>1
      <4> HIDE DEF n, port
      <4>6. QED BY <1>3, <2>1, <2>2, <2>6, <4>2, <4>3, <4>4, <4>5
                DEF BlockInv, BlockPoints, LoggedWords, port
    <3>3. QED BY <2>1, <2>2, <2>4, <2>6, <3>2, ArriveInBlock
  <2>9. QED BY <2>7, <2>8
<1>5. CASE Retry
  BY <1>5, RetryIInv
<1>6. CASE Fail(IF FromRdbuff(s.left) THEN "none" ELSE cmd.reg)
  <2>1. CASE FromRdbuff(s.left)
    <3>1. Fail("none") /\ "none" \notin Reads
      BY <1>6, <2>1 DEF Reads
    <3>2. QED BY <1>1, <3>1, BlockFailIInv DEF BlockPoints
  <2>2. CASE ~FromRdbuff(s.left)
    <3>1. Len(target.log) < cmd.words
      BY <1>2, <1>3, <2>2
    <3>2. Fail(cmd.reg)
      BY <1>6, <2>2
    <3>3. QED BY <1>1, <3>1, <3>2, BlockFailIInv DEF BlockPoints
  <2>3. QED BY <2>1, <2>2
<1>7. QED BY <1>4, <1>5, <1>6 DEF BlockRead

LEMMA BlockWriteIInv == ASSUME IInv, Block, BlockWrite PROVE IInv'
<1> USE DEF Jtag, Posts, FromRdbuff
<1> DEFINE n == resp.count
           port == Register(cmd.reg)
           t == Accessed(cmd.reg)
<1>1. pc = "blockWrite"
  BY DEF BlockWrite
<1>2. /\ cmd \in BlockCommand /\ cmd.words \in Nat /\ port \in {"ap", "dp"}
      /\ s \in Locals /\ resp \in Responses /\ target \in Targets /\ BlockInv
      /\ n \in Nat /\ target.log \in Seq(Values)
  BY BlockFacts DEF Targets
<1>3. /\ n <= cmd.words /\ Len(target.log) = n /\ resp.words = WordsOf(cmd, n)
      /\ s.left = cmd.words - n /\ s.left # 0 /\ cmd.reg \notin Reads
      /\ Jtag => target.chain = port
      /\ LoggedWords(target.log, n, port)
  BY <1>1, <1>2 DEF BlockInv, BlockPoints, LoggedWords
<1>4. CASE /\ Tried /\ Enter(IF s.left = 1 THEN "verify" ELSE "blockWrite")
           /\ s' = Fresh([s EXCEPT !.left = @ - 1])
           /\ resp' = [resp EXCEPT !.count = @ + 1, !.value = "OK"]
           /\ target' = IF s.left = 1 THEN Select(t, s.ir, "dp") ELSE t
  <2>1. /\ cmd' = cmd /\ abort' \in BOOLEAN /\ late' \in Nat
        /\ pc' = IF s.left = 1 THEN "verify" ELSE "blockWrite"
    BY <1>4, TriedTypes DEF Enter
  <2>2. s' \in Locals /\ s'.left = s.left - 1
    BY <1>2, <1>3, <1>4, BlockLocals
  <2>3. resp' \in Responses /\ resp'.count = n + 1 /\ resp'.words = resp.words
    <3> DEFINE m == n + 1
    <3>1. m \in Nat /\ resp' = [resp EXCEPT !.count = m, !.value = "OK"]
      BY <1>2, <1>4
    <3> HIDE DEF m
    <3>2. resp' \in Responses /\ resp'.count = m /\ resp'.words = resp.words
      BY <1>2, <3>1 DEF Responses, Answered
    <3>3. QED BY <3>2 DEF m
  <2>4. WordsOf(cmd, n + 1) = WordsOf(cmd, n)
    BY <1>3 DEF WordsOf
  <2> DEFINE v == Value(Len(target.log) + 1, port)
  <2>5. /\ v \in Values /\ t \in Targets /\ t.chain = target.chain
        /\ t.log = Append(target.log, v)
    BY <1>3, BlockAccess
  <2>6. LoggedWords(t.log, n + 1, port)
    BY <1>2, <1>3, <2>5, LoggedNext
  <2> HIDE DEF t, v
  <2>7. /\ target' \in Targets /\ target'.log = t.log
        /\ s.left # 1 => target'.chain = t.chain
    BY <1>4, <2>5, Selected
  <2>8. /\ n + 1 <= cmd.words /\ s.left - 1 = cmd.words - (n + 1)
        /\ s.left # 1 => s.left - 1 # 0
    BY <1>2, <1>3
  <2>9. Jtag' = Jtag /\ Posts(cmd.reg)' = Posts(cmd.reg)
    BY <2>1
  <2>10. BlockInv'
    BY <1>2, <1>3, <2>1, <2>2, <2>3, <2>4, <2>5, <2>6, <2>7, <2>8, <2>9
       DEF BlockInv, BlockPoints, LoggedWords
  <2>11. QED BY <2>1, <2>2, <2>3, <2>7, <2>10, ArriveInBlock
<1>5. CASE Retry
  BY <1>5, RetryIInv
<1>6. CASE Fail(cmd.reg)
  BY <1>1, <1>3, <1>6, BlockFailIInv DEF BlockPoints
<1>7. QED BY <1>4, <1>5, <1>6 DEF BlockWrite

-----------------------------------------------------------------------------
(* The theorems.                                                             *)

LEMMA InitIInv == Init => IInv
<1> SUFFICES ASSUME Init PROVE IInv
  OBVIOUS
<1> USE DEF Block, Jtag, NRequests
<1>1. cmd \in Transfer \cup BlockCommand
  BY CommandsAssumption DEF Init, Command, Transfer, BlockCommand
<1>2. /\ pc = "begin" /\ s.nth = 0 /\ ~s.post /\ s.ir = "none" /\ target.chain = "none"
      /\ resp.count = 0 /\ resp.words = <<>> /\ target.log = <<>> /\ resp.value = "none"
  BY DEF Init
<1>3. TypesInv
  <2>1. s \in Locals
    <3>1. 0 \in 0 .. RetryCount /\ 0 \in 0 .. MatchRetry /\ "dpRead" \in Kinds
      BY CommandsAssumption DEF Kinds
    <3>2. QED BY <3>1 DEF Init, Locals
  <2>2. <<>> \in Seq(WordSet) /\ <<>> \in Seq(Values) /\ NoValue \in Values
    BY DEF NoValue, Value, Values
  <2>3. resp \in Responses /\ target \in Targets
    BY <2>2 DEF Init, Responses, Answered, Targets
  <2>4. QED BY <1>1, <2>1, <2>3 DEF Init, TypesInv
<1>4. CASE ~Block
  <2>1. cmd \in Transfer /\ NRequests \in Nat
    BY <1>1, <1>4, CommandIs
  <2>2. AnswersOf(cmd, 0) = <<>> /\ <<>> \o <<>> = <<>>
    BY JoinedNone DEF AnswersOf
  <2>3. /\ resp.words \o Held(s, target) = AnswersOf(cmd, 0)
        /\ IsPrefix(resp.words, AnswersOf(cmd, NRequests))
    <3>1. Held(s, target) = <<>>
      BY <1>2 DEF Held
    <3>2. resp.words \o Held(s, target) = AnswersOf(cmd, 0)
      BY <1>2, <2>2, <3>1
    <3>3. <<>> \in Seq(WordSet) /\ 0 \in 0 .. Len(cmd.requests)
      BY <2>1
    <3>4. IsPrefix(<<>>, AnswersOf(cmd, NRequests))
      BY <2>1, <2>2, <3>3, CollectedPrefix
    <3>5. QED BY <1>2, <3>2, <3>4
  <2>4. LoopInv
    BY <1>2, <2>1 DEF LoopInv, BlockPoints, LoopPoints, BegunPoints
  <2>5. ChainInv
    BY <1>2 DEF ChainInv, LoopPoints, BegunPoints
  <2>6. WordsInv
    BY <1>2, <2>3 DEF WordsInv, Good
  <2>7. LogInv
    BY <1>2 DEF LogInv, Executed, LoggedTo
  <2>8. QED BY <1>3, <1>4, <2>4, <2>5, <2>6, <2>7 DEF IInv, TransferInv
<1>5. CASE Block
  <2>1. cmd \in BlockCommand /\ cmd.words \in Nat /\ WordsOf(cmd, 0) = <<>>
    BY <1>1, <1>5, CommandIs DEF BlockCommand, WordsOf
  <2>2. BlockInv
    BY <1>2, <2>1 DEF BlockInv, BlockPoints
  <2>3. QED BY <1>3, <1>5, <2>2 DEF IInv
<1>6. QED BY <1>4, <1>5

\* What the steps of the loop are not for.
LEMMA NotInBlock ==
  ASSUME IInv, Block PROVE pc \in {"begin", "verify", "done"} \cup BlockPoints
BY DEF IInv, BlockInv

LEMMA NotInTransfer == ASSUME IInv, ~Block PROVE pc \notin BlockPoints
BY DEF IInv, TransferInv, LoopInv

LEMMA NextIInv == IInv /\ [Next]_vars => IInv'
<1> SUFFICES ASSUME IInv, [Next]_vars PROVE IInv'
  OBVIOUS
<1>1. CASE ~Block
  <2>1. pc \notin BlockPoints
    BY <1>1, NotInTransfer
  <2>2. ~BeginBlock /\ ~BlockPost /\ ~BlockRead /\ ~BlockWrite
    BY <1>1, <2>1 DEF BeginBlock, BlockPost, BlockRead, BlockWrite, BlockPoints
  <2>3. CASE BeginTransfer \/ Fetch \/ Pipeline \/ Rdbuff
    BY <1>1, <2>3, BeginIInv, FetchIInv, PipelineIInv, RdbuffIInv
  <2>4. CASE Post \/ Read \/ Write \/ MatchPost \/ Match
    BY <1>1, <2>4, RequestIInv, MatchPostIInv, MatchIInv
  <2>5. CASE Skip \/ LastValue \/ Verify
    BY <1>1, <2>5, SkipIInv, LastIInv, VerifyIInv
  <2>6. CASE Abort \/ UNCHANGED vars
    BY <2>6, AsideIInv
  <2>7. QED BY <2>2, <2>3, <2>4, <2>5, <2>6 DEF Next, Execute
<1>2. CASE Block
  <2>1. pc \in {"begin", "verify", "done"} \cup BlockPoints
    BY <1>2, NotInBlock
  <2>2. ~BeginTransfer /\ ~Fetch /\ ~Pipeline /\ ~Rdbuff /\ ~Post /\ ~Read /\ ~Write
    BY <1>2, <2>1
       DEF BeginTransfer, Fetch, Pipeline, Rdbuff, Post, Read, Write, BlockPoints
  <2>3. ~MatchPost /\ ~Match /\ ~Skip /\ ~LastValue
    BY <2>1 DEF MatchPost, Match, Skip, LastValue, BlockPoints
  <2>4. CASE BeginBlock \/ BlockPost \/ BlockRead \/ BlockWrite \/ Verify
    BY <1>2, <2>4, BeginBlockIInv, BlockPostIInv, BlockReadIInv, BlockWriteIInv, VerifyIInv
  <2>5. CASE Abort \/ UNCHANGED vars
    BY <2>5, AsideIInv
  <2>6. QED BY <2>2, <2>3, <2>4, <2>5 DEF Next, Execute
<1>3. QED BY <1>1, <1>2

LEMMA SpecIInv == Spec => []IInv
BY InitIInv, NextIInv, PTL DEF Spec

\* What the properties say of the answers is what the invariant says.
LEMMA AnswersAre ==
  ASSUME IInv
  PROVE  /\ ~Block => \A n \in 0 .. NRequests : Answers(n) = AnswersOf(cmd, n)
         /\ Block => \A n \in Nat : Answers(n) = WordsOf(cmd, n)
<1>1. ASSUME ~Block, NEW n \in 0 .. NRequests PROVE Answers(n) = AnswersOf(cmd, n)
  <2>1. cmd \in Transfer /\ NRequests \in Nat
    BY <1>1, TransferFacts
  <2>2. \A i \in 1 .. n : Answer(i) = AnswerSeqs(cmd)[i]
    <3> SUFFICES ASSUME NEW i \in 1 .. n PROVE Answer(i) = AnswerSeqs(cmd)[i]
      OBVIOUS
    <3>1. i \in 1 .. Len(cmd.requests)
      BY <1>1, <2>1 DEF NRequests
    <3>2. Stamp(i) = StampOf(cmd, i)
      BY <1>1 DEF Stamp, StampOf, Stamped
    <3>3. Answer(i) = AnswerOf(cmd, i)
      BY <3>2, Zenon DEF Answer, AnswerOf, DataOf, Request
    <3>4. QED BY <3>1, <3>3 DEF AnswerSeqs
  <2>3. [i \in 1 .. n |-> Answer(i)] = [i \in 1 .. n |-> AnswerSeqs(cmd)[i]]
    BY <2>2, Zenon
  <2>4. Answers(n) = FlattenSeq([i \in 1 .. n |-> Answer(i)])
    BY <1>1, Zenon DEF Answers
  <2>5. QED BY <2>3, <2>4, Zenon DEF AnswersOf, Joined
<1>2. ASSUME Block, NEW n \in Nat PROVE Answers(n) = WordsOf(cmd, n)
  BY <1>2 DEF Answers, WordsOf
<1>3. QED BY <1>1, <1>2

LEMMA TypesAre == ASSUME IInv PROVE TypeOK
<1>1. cmd \in Command /\ abort \in BOOLEAN /\ late \in Nat
  BY DEF IInv, TypesInv, Transfer, BlockCommand, Command
<1>2. pc \in {"begin", "fetch", "pipeline", "rdbuff", "post", "read", "write", "matchPost",
              "match", "skip", "last", "verify", "blockPost", "blockRead", "blockWrite", "done"}
  BY DEF IInv, TypesInv, LoopPoints, BlockPoints
<1>3. /\ s.pos \in Nat /\ s.left \in Nat /\ s.retry \in 0 .. RetryCount
      /\ s.again \in 0 .. MatchRetry /\ s.ir \in {"none", "ap", "dp"}
  BY DEF IInv, TypesInv, Locals
<1>4. /\ resp.value \in {"none", "OK", "WAIT", "FAULT", "ERROR"}
      /\ resp.words \in Seq(WordSet)
  BY DEF IInv, TypesInv, Responses, Answered
<1>5. \A i \in 1 .. Len(resp.words) : resp.words[i].what \in {"data", "stamp"}
  <2> DEFINE w == resp.words
  <2>1. w \in Seq(WordSet)
    BY <1>4
  <2> HIDE DEF w
  <2>2. \A i \in 1 .. Len(w) : w[i] \in WordSet
    BY <2>1
  <2>3. QED BY <2>2 DEF WordSet, w
<1>6. QED BY <1>1, <1>2, <1>3, <1>4, <1>5 DEF TypeOK

\* The words of a block are the first of all that are to be read.
LEMMA WordsPrefix ==
  ASSUME NEW c \in BlockCommand, NEW n \in Nat, NEW m \in Nat, n <= m
  PROVE  IsPrefix(WordsOf(c, n), WordsOf(c, m))
<1>1. /\ WordsOf(c, n) \in Seq(WordSet) /\ WordsOf(c, m) \in Seq(WordSet)
  BY WordsNext
<1> DEFINE d(i) == Data(Value(i, Register(c.reg)))[1]
<1>2. CASE c.reg \in Reads
  <2>1. WordsOf(c, n) = [i \in 1 .. n |-> d(i)] /\ WordsOf(c, m) = [i \in 1 .. m |-> d(i)]
    BY <1>2 DEF WordsOf
  <2> HIDE DEF d
  <2>2. /\ Len(WordsOf(c, n)) = n /\ Len(WordsOf(c, m)) = m
        /\ \A i \in 1 .. n : WordsOf(c, n)[i] = WordsOf(c, m)[i]
    BY <2>1
  <2> DEFINE p == WordsOf(c, n)
             q == WordsOf(c, m)
  <2>3. p \in Seq(WordSet) /\ q \in Seq(WordSet) /\ Len(p) <= Len(q)
    BY <1>1, <2>2
  <2>4. \A i \in 1 .. Len(p) : p[i] = q[i]
    BY <2>2
  <2> HIDE DEF p, q
  <2>5. IsPrefix(p, q)
    BY <2>3, <2>4, PrefixIs
  <2>6. QED BY <2>5 DEF p, q
<1>3. CASE c.reg \notin Reads
  <2>1. WordsOf(c, n) = <<>> /\ WordsOf(c, m) = <<>>
    BY <1>3 DEF WordsOf
  <2>2. IsPrefix(<<>>, <<>>)
    BY DEF IsPrefix
  <2>3. QED BY <2>1, <2>2, Zenon
<1>4. QED BY <1>2, <1>3

LEMMA InvInOrder == ASSUME IInv PROVE DataInOrder
<1>1. CASE ~Block
  <2>1. NRequests \in Nat /\ resp.count \in 0 .. NRequests
    BY <1>1, TransferFacts
  <2>2. Answers(NRequests) = AnswersOf(cmd, NRequests) /\ Answers(resp.count) = AnswersOf(cmd, resp.count)
    BY <1>1, <2>1, AnswersAre
  <2>3. IsPrefix(resp.words, AnswersOf(cmd, NRequests))
    BY <1>1 DEF IInv, TransferInv, WordsInv
  <2>4. Succeeded => resp.words = AnswersOf(cmd, resp.count)
    BY <1>1 DEF IInv, TransferInv, WordsInv, Good, Succeeded
  <2>5. QED BY <1>1, <2>2, <2>3, <2>4, TypesAre DEF DataInOrder, NRequests
<1>2. CASE Block
  <2>1. /\ resp.count \in Nat /\ cmd.words \in Nat /\ resp.count <= cmd.words
        /\ cmd \in BlockCommand /\ resp.words = WordsOf(cmd, resp.count)
    BY <1>2, BlockFacts DEF BlockInv
  <2>2. Answers(cmd.words) = WordsOf(cmd, cmd.words) /\ Answers(resp.count) = WordsOf(cmd, resp.count)
    BY <1>2, <2>1, AnswersAre
  <2>3. QED BY <1>2, <2>1, <2>2, WordsPrefix, TypesAre DEF DataInOrder
<1>3. QED BY <1>1, <1>2

LEMMA InvOnce == ASSUME IInv PROVE AccessedOnce
<1> USE DEF NRequests
<1>1. CASE ~Block
  <2>1. /\ Executed(cmd, target.log, resp.count) /\ LoggedTo(cmd, target.log, NRequests)
    BY <1>1, TransferFacts
  <2>2. QED BY <1>1, <2>1 DEF AccessedOnce, Executed, LoggedTo, Request
<1>2. CASE Block
  <2>1. /\ resp.count <= Len(target.log) /\ Len(target.log) <= cmd.words
        /\ \A i \in 1 .. Len(target.log) : target.log[i] = Value(i, Register(cmd.reg))
        /\ Len(target.log) \in Nat
    BY <1>2, BlockFacts DEF BlockInv
  <2>2. \A i \in 1 .. Len(target.log) : /\ target.log[i].request = i
                                        /\ target.log[i].port = Register(cmd.reg)
    <3> DEFINE p == Register(cmd.reg)
    <3>1. \A i \in 1 .. Len(target.log) : target.log[i] = Value(i, p)
      BY <2>1
    <3> HIDE DEF p
    <3>2. ASSUME NEW i \in 1 .. Len(target.log)
          PROVE  target.log[i].request = i /\ target.log[i].port = p
      <4>1. target.log[i] = Value(i, p)
        BY <3>1
      <4>2. QED BY <4>1 DEF Value
    <3>3. QED BY <3>2 DEF p
  <2>3. \A i \in 1 .. Len(target.log) : \A j \in 1 .. i - 1 :
          target.log[j].request < target.log[i].request
    BY <2>1, <2>2
  <2>4. QED BY <1>2, <2>1, <2>2, <2>3 DEF AccessedOnce
<1>3. QED BY <1>1, <1>2

\* The values in the response are those of the reads, in the order of the
\* requests, none of them twice, lost or another's: for every command, whatever
\* the target answers and whenever the host aborts.
THEOREM SpecInOrder == Spec => []DataInOrder
BY SpecIInv, InvInOrder, PTL

\* A register is accessed once for every request or word, however often the
\* target has answered WAIT, and a request that is counted has been executed.
THEOREM SpecOnce == Spec => []AccessedOnce
BY SpecIInv, InvOnce, PTL

-----------------------------------------------------------------------------
(* The components beside the transfer commands.                              *)

\* A step is one of the part that runs.
LEMMA PartSteps ==
  ASSUME [MCNext]_mcVars
  PROVE  /\ part' = part
         /\ part = "test" => Test!Next \/ UNCHANGED testVars
         /\ part = "ota" => Ota!Next \/ UNCHANGED otaVars
         /\ part = "xvc" => Xvc!Next \/ UNCHANGED xvcVars
         /\ part = "device" => Device!Next \/ UNCHANGED deviceVars
BY DEF MCNext, DeviceNext, OtaNext, TestNext, TransferNext, XvcNext, mcVars

-----------------------------------------------------------------------------
(* Hardware tests.                                                           *)

Tests == 1 .. MaxTests
Whole(t) == [test |-> t, whole |-> TRUE]

\* A task that exists is the last test's, and the flag is set for it.
RunningIsLast == \A t \in Tests : tasks[t] # "none" => t = started /\ isRunning

\* The status tells where that task stands.
StatusOfLast ==
  /\ \A t \in Tests : tasks[t] \in {"testing", "storing", "tested"} => status = "running"
  /\ status = "running" =>
       started \in Tests /\ tasks[started] \in {"testing", "storing", "tested"}

\* The result is whole, and the last test's, once its task has stored it, and
\* whenever another test may be started.
ResultOfLast ==
  /\ \A t \in Tests : tasks[t] \in {"tested", "done"} => result = Whole(t)
  /\ ~isRunning => started = 0 \/ result = Whole(started)
  /\ result.test <= started

RunnerInv == RunningIsLast /\ StatusOfLast /\ ResultOfLast

\* What is stored is the result of a client's test or of a later one, once a later
\* one was started.
OwnOrLater(c) ==
  client[c] # "idle" =>
    /\ own[c] \in Tests /\ own[c] <= started
    /\ own[c] < started => result = Whole(own[c]) \/ result.test > own[c]

\* A client that has seen its test running, when none was started since: its task
\* has stored its result before it ends, and before the client is told so.
Stored == result = Whole(started) /\ tasks[started] \in {"none", "tested", "done"}
Told(c) == client[c] \in {"done", "answered"}
Saw(c) == client[c] # "idle" /\ seen[c] = TRUE /\ own[c] = started
SeenIsLast(c) ==
  Saw(c) => tasks[started] # "created" /\ (tasks[started] = "none" \/ Told(c) => Stored)

SeenSince(c) == client[c] = "idle" => seen[c] = FALSE

\* Test!ResultIsOwn, of one client.
AnswerIsOwn(c) ==
  client[c] = "answered" /\ seen[c] = TRUE =>
    answer[c] = Whole(own[c]) \/ (own[c] < answer[c].test /\ answer[c].test <= started)

ClientInv(c) == OwnOrLater(c) /\ SeenIsLast(c) /\ SeenSince(c) /\ AnswerIsOwn(c)

TestInv == Test!TypeOK /\ RunnerInv /\ \A c \in Clients : ClientInv(c)

-----------------------------------------------------------------------------
LEMMA TestTypes ==
  ASSUME Test!TypeOK
  PROVE  /\ started \in Nat /\ started <= MaxTests /\ (started > 0 => started \in Tests)
         /\ result.test \in Nat /\ MaxTests \in Nat
         /\ \A c \in Clients : seen[c] \in BOOLEAN /\ own[c] \in Nat
<1>1. MaxTests \in Nat
  BY TestAssumptions DEF Test!TestsAssumption
<1>2. started \in 0 .. MaxTests /\ result \in Test!Results /\ own \in [Clients -> 0 .. MaxTests]
      /\ seen \in [Clients -> BOOLEAN]
  BY DEF Test!TypeOK
<1>3. result.test \in 0 .. MaxTests
  BY <1>2 DEF Test!Results
<1>4. \A c \in Clients : seen[c] \in BOOLEAN /\ own[c] \in 0 .. MaxTests
  BY <1>2
<1>5. QED BY <1>1, <1>2, <1>3, <1>4 DEF Tests

LEMMA AnswersAreOwn ==
  ASSUME \A c \in Clients : AnswerIsOwn(c), Test!TypeOK PROVE Test!ResultIsOwn
BY TestTypes DEF AnswerIsOwn, Test!ResultIsOwn, Whole

LEMMA InitTestInv == ASSUME Test!Init PROVE TestInv
<1>1. Test!NoResult \in Test!Results /\ Test!NoResult.test = 0
  BY TestAssumptions DEF Test!TestsAssumption, Test!NoResult, Test!Results
<1>2. Test!TypeOK
  <2>1. tasks \in [Tests -> {"none", "created", "testing", "storing", "tested", "done"}]
    BY DEF Test!Init, Tests
  <2>2. started \in 0 .. MaxTests /\ failures \in 0 .. MaxFailures /\ 0 \in 0 .. MaxTests
    BY TestAssumptions DEF Test!TestsAssumption, Test!Init
  <2>3. QED BY <1>1, <2>1, <2>2 DEF Test!Init, Test!TypeOK, Tests
<1>3. \A t \in Tests : tasks[t] = "none"
  BY DEF Test!Init, Tests
<1>4. RunnerInv
  <2>1. started = 0 /\ result.test = 0 /\ status = "idle"
    BY <1>1 DEF Test!Init
  <2>2. QED
    BY <1>3, <2>1 DEF RunnerInv, RunningIsLast, StatusOfLast, ResultOfLast
<1>5. ASSUME NEW c \in Clients PROVE ClientInv(c)
  <2>1. client[c] = "idle" /\ seen[c] = FALSE
    BY DEF Test!Init
  <2>2. QED BY <2>1 DEF ClientInv, OwnOrLater, SeenIsLast, Saw, SeenSince, AnswerIsOwn
<1>6. QED BY <1>2, <1>4, <1>5 DEF TestInv

-----------------------------------------------------------------------------
(* A test is started: no task exists, and the clients of the tests before keep  *)
(* a result that is whole.                                                      *)

LEMMA NoTask ==
  ASSUME TestInv, ~isRunning
  PROVE  /\ status # "running" /\ \A t \in Tests : tasks[t] = "none"
         /\ started = 0 \/ result = Whole(started)
BY DEF TestInv, RunnerInv, RunningIsLast, StatusOfLast, ResultOfLast

\* Whoever started the new test, and everybody else.
LEMMA ClientsBegin ==
  ASSUME TestInv, ~isRunning, NEW c \in Clients, Test!Begins(c), started' = started + 1,
         started' \in Tests, UNCHANGED result
  PROVE  \A d \in Clients : ClientInv(d)'
<1>1. /\ started \in Nat /\ result.test <= started /\ result.test \in Nat
      /\ started = 0 \/ result = Whole(started)
  BY NoTask, TestTypes DEF TestInv, RunnerInv, ResultOfLast
<1>2. ASSUME NEW d \in Clients PROVE ClientInv(d)'
  <2>1. /\ ClientInv(d) /\ seen'[d] = seen[d] /\ answer'[d] = answer[d]
        /\ own[d] \in Nat
    BY TestTypes DEF Test!Begins, TestInv
  <2>2. CASE client'[d] = client[d] /\ own'[d] = own[d]
    <3>1. ASSUME client[d] # "idle"
          PROVE  own[d] < started' /\ (result = Whole(own[d]) \/ result.test > own[d])
      <4>1. /\ own[d] \in Tests /\ own[d] <= started
            /\ own[d] < started => result = Whole(own[d]) \/ result.test > own[d]
        BY <2>1, <3>1 DEF ClientInv, OwnOrLater
      <4>2. started # 0 /\ own[d] < started'
        BY <1>1, <2>1, <4>1 DEF Tests
      <4>3. CASE own[d] = started
        BY <1>1, <4>2, <4>3
      <4>4. CASE own[d] < started
        BY <4>1, <4>2, <4>4
      <4>5. QED BY <1>1, <2>1, <4>1, <4>3, <4>4
    <3>2. OwnOrLater(d)'
      <4>1. ASSUME client[d] # "idle" PROVE own[d] \in Tests /\ own[d] <= started'
        BY <1>1, <2>1, <4>1 DEF ClientInv, OwnOrLater
      <4>2. QED BY <2>2, <3>1, <4>1 DEF OwnOrLater, Whole, Tests
    <3>3. SeenIsLast(d)'
      <4>1. ~Saw(d)'
        BY <1>1, <2>1, <2>2, <3>1 DEF Saw
      <4>2. QED BY <4>1 DEF SeenIsLast
    <3>4. AnswerIsOwn(d)'
      <4>1. CASE answer[d] = Whole(own[d])
        BY <2>1, <2>2, <4>1 DEF AnswerIsOwn, Whole
      <4>2. CASE own[d] < answer[d].test /\ answer[d].test <= started
        <5>1. answer[d].test <= started'
          <6>1. answer[d].test \in Nat
            BY TestTypes DEF TestInv, Test!TypeOK, Test!Results
          <6>2. QED BY <1>1, <4>2, <6>1
        <5>2. QED BY <2>1, <2>2, <4>2, <5>1 DEF AnswerIsOwn
      <4>3. CASE ~(client[d] = "answered" /\ seen[d] = TRUE)
        BY <2>1, <2>2, <4>3 DEF AnswerIsOwn
      <4>4. QED BY <2>1, <4>1, <4>2, <4>3 DEF ClientInv, AnswerIsOwn
    <3>5. SeenSince(d)'
      BY <2>1, <2>2 DEF ClientInv, SeenSince
    <3>6. QED BY <3>2, <3>3, <3>4, <3>5 DEF ClientInv
  <2>3. CASE d = c /\ client[d] = "idle" /\ client'[d] = "polling" /\ own'[d] = started + 1
    <3>1. seen'[d] = FALSE
      BY <2>1, <2>3 DEF ClientInv, SeenSince
    <3>2. OwnOrLater(d)'
      <4>1. own'[d] = started' /\ started' \in Nat /\ started' \in Tests
        BY <1>1, <2>3
      <4>2. QED BY <4>1 DEF OwnOrLater, Tests
    <3>3. QED
      BY <2>3, <3>1, <3>2 DEF ClientInv, SeenIsLast, Saw, SeenSince, AnswerIsOwn
  <2>4. QED BY <2>2, <2>3 DEF Test!Begins, TestInv, Test!TypeOK
<1>3. QED BY <1>2

LEMMA BeginsTyped ==
  ASSUME Test!TypeOK, NEW c \in Clients, Test!Begins(c), started + 1 \in 0 .. MaxTests
  PROVE  /\ client' \in [Clients -> {"idle", "polling", "done", "answered"}]
         /\ own' \in [Clients -> 0 .. MaxTests]
         /\ seen' \in [Clients -> BOOLEAN] /\ answer' \in [Clients -> Test!Results]
BY DEF Test!Begins, Test!TypeOK

LEMMA StartTestInv == ASSUME TestInv, NEW c \in Clients, Test!Start(c) PROVE TestInv'
<1>1. /\ status # "running" /\ \A t \in Tests : tasks[t] = "none"
      /\ result.test <= started /\ started \in Nat /\ result.test \in Nat
  BY NoTask, TestTypes DEF Test!Start, TestInv, RunnerInv, ResultOfLast
<1>2. started' \in Tests /\ started' = started + 1 /\ started' \in 0 .. MaxTests
  BY TestTypes DEF Test!Start, TestInv, Tests
<1>3. /\ tasks' \in [Tests -> {"none", "created"}] /\ tasks'[started'] = "created"
      /\ \A t \in Tests : tasks'[t] # "none" => t = started'
  BY <1>1, <1>2 DEF Test!Start, TestInv, Test!TypeOK, Tests
<1>4. Test!TypeOK'
  <2>1. tasks' \in [Tests -> {"none", "created", "testing", "storing", "tested", "done"}]
    BY <1>3
  <2>2. QED BY <1>2, <2>1, BeginsTyped DEF Test!Start, TestInv, Test!TypeOK, Tests
<1>5. RunnerInv'
  <2>1. RunningIsLast' /\ StatusOfLast'
    BY <1>1, <1>3 DEF Test!Start, RunningIsLast, StatusOfLast
  <2>2. ResultOfLast'
    BY <1>1, <1>2, <1>3 DEF Test!Start, ResultOfLast
  <2>3. QED BY <2>1, <2>2 DEF RunnerInv
<1>6. \A d \in Clients : ClientInv(d)'
  BY <1>2, ClientsBegin DEF Test!Start
<1>7. QED BY <1>4, <1>5, <1>6 DEF TestInv

LEMMA StartFailsTestInv == ASSUME TestInv, NEW c \in Clients, Test!StartFails(c) PROVE TestInv'
<1>1. /\ status # "running" /\ \A t \in Tests : tasks[t] = "none"
      /\ result.test <= started /\ started \in Nat /\ result.test \in Nat
  BY NoTask, TestTypes DEF Test!StartFails, TestInv, RunnerInv, ResultOfLast
<1>2. started' \in Tests /\ started' = started + 1 /\ started' \in 0 .. MaxTests
  BY TestTypes DEF Test!StartFails, TestInv, Tests
<1>3. Test!TypeOK'
  <2>1. failures' \in 0 .. MaxFailures
    BY TestAssumptions DEF Test!TestsAssumption, Test!StartFails, TestInv, Test!TypeOK
  <2>2. QED BY <1>2, <2>1, BeginsTyped DEF Test!StartFails, TestInv, Test!TypeOK
<1>4. RunnerInv'
  BY <1>1, <1>2
  DEF Test!StartFails, RunnerInv, RunningIsLast, StatusOfLast, ResultOfLast
<1>5. \A d \in Clients : ClientInv(d)'
  BY <1>2, ClientsBegin DEF Test!StartFails
<1>6. QED BY <1>3, <1>4, <1>5 DEF TestInv

-----------------------------------------------------------------------------
(* A client asks.                                                            *)

LEMMA RunnerKept == ASSUME RunnerInv, UNCHANGED Test!tests PROVE RunnerInv'
BY DEF RunnerInv, RunningIsLast, StatusOfLast, ResultOfLast, Test!tests, Whole

LEMMA ClientKept ==
  ASSUME NEW d \in Clients, ClientInv(d), UNCHANGED Test!tests, client'[d] = client[d],
         own'[d] = own[d], seen'[d] = seen[d], answer'[d] = answer[d]
  PROVE  ClientInv(d)'
BY DEF ClientInv, OwnOrLater, SeenIsLast, Saw, Told, Stored, SeenSince, AnswerIsOwn,
       Test!tests, Whole

LEMMA StatusTestInv == ASSUME TestInv, NEW c \in Clients, Test!Status(c) PROVE TestInv'
<1>1. /\ UNCHANGED Test!tests /\ UNCHANGED <<own, answer>> /\ client[c] = "polling"
      /\ client'[c] = IF status = "done" THEN "done" ELSE "polling"
      /\ seen'[c] = (seen[c] \/ status = "running")
      /\ \A d \in Clients : d # c => client'[d] = client[d] /\ seen'[d] = seen[d]
      /\ client' \in [Clients -> {"idle", "polling", "done", "answered"}]
      /\ seen' \in [Clients -> BOOLEAN]
  BY DEF Test!Status, TestInv, Test!TypeOK
<1>2. Test!TypeOK'
  BY <1>1 DEF TestInv, Test!TypeOK, Test!tests
<1>3. ClientInv(c)'
  <2>1. ClientInv(c) /\ seen[c] \in BOOLEAN
    BY TestTypes DEF TestInv
  <2>2. OwnOrLater(c)'
    BY <1>1, <2>1 DEF ClientInv, OwnOrLater, Whole, Test!tests
  <2>3. SeenSince(c)' /\ AnswerIsOwn(c)'
    BY <1>1 DEF SeenSince, AnswerIsOwn
  <2>4. ASSUME Saw(c)'
        PROVE  /\ tasks[started] # "created"
               /\ tasks[started] = "none" \/ client'[c] = "done" => Stored
    <3>1. own[c] = started /\ own[c] \in Tests /\ (seen[c] = TRUE \/ status = "running")
      BY <1>1, <2>1, <2>4 DEF Saw, ClientInv, OwnOrLater, Test!tests
    <3>2. CASE status = "running"
      <4>1. tasks[started] \in {"testing", "storing", "tested"} /\ client'[c] # "done"
        BY <1>1, <3>2 DEF TestInv, RunnerInv, StatusOfLast
      <4>2. QED BY <4>1
    <3>3. CASE status # "running"
      <4>1. Saw(c)
        BY <1>1, <3>1, <3>3 DEF Saw
      <4>2. tasks[started] # "created" /\ (tasks[started] = "none" => Stored)
        BY <2>1, <4>1 DEF ClientInv, SeenIsLast
      <4>3. tasks[started] \in {"none", "done"}
        <5>1. tasks[started] \in {"none", "created", "testing", "storing", "tested", "done"}
          BY <3>1 DEF TestInv, Test!TypeOK, Tests
        <5>2. tasks[started] \notin {"testing", "storing", "tested"}
          BY <3>1, <3>3 DEF TestInv, RunnerInv, StatusOfLast
        <5>3. QED BY <4>2, <5>1, <5>2
      <4>4. tasks[started] = "done" => Stored
        BY <3>1 DEF TestInv, RunnerInv, ResultOfLast, Stored
      <4>5. QED BY <4>2, <4>3, <4>4
    <3>4. QED BY <3>2, <3>3
  <2>5. SeenIsLast(c)'
    <3>1. Told(c)' => client'[c] = "done"
      BY <1>1 DEF Told
    <3>2. UNCHANGED <<tasks, started, result>>
      BY <1>1 DEF Test!tests
    <3>3. Stored' <=> Stored
      BY <3>2 DEF Stored, Whole
    <3>4. QED BY <2>4, <3>1, <3>2, <3>3 DEF SeenIsLast
  <2>6. QED BY <2>2, <2>3, <2>5 DEF ClientInv
<1>4. \A d \in Clients : ClientInv(d)'
  BY <1>1, <1>3, ClientKept DEF TestInv
<1>5. QED BY <1>1, <1>2, <1>4, RunnerKept DEF TestInv

LEMMA ResultTestInv == ASSUME TestInv, NEW c \in Clients, Test!Result(c) PROVE TestInv'
<1>1. /\ UNCHANGED Test!tests /\ UNCHANGED <<own, seen>> /\ client[c] = "done"
      /\ client'[c] = "answered" /\ answer'[c] = result
      /\ \A d \in Clients : d # c => client'[d] = client[d] /\ answer'[d] = answer[d]
      /\ client' \in [Clients -> {"idle", "polling", "done", "answered"}]
      /\ answer' \in [Clients -> Test!Results]
  BY DEF Test!Result, TestInv, Test!TypeOK
<1>2. Test!TypeOK'
  BY <1>1 DEF TestInv, Test!TypeOK, Test!tests
<1>3. ClientInv(c)'
  <2>1. /\ ClientInv(c) /\ result.test <= started /\ started \in Nat /\ own[c] \in Nat
        /\ result.test \in Nat
    BY TestTypes DEF TestInv, RunnerInv, ResultOfLast
  <2>2. OwnOrLater(c)'
    BY <1>1, <2>1 DEF ClientInv, OwnOrLater, Whole, Test!tests
  <2>3. SeenIsLast(c)' /\ SeenSince(c)'
    BY <1>1, <2>1
    DEF ClientInv, SeenIsLast, Saw, Told, Stored, SeenSince, Whole, Test!tests
  <2>4. AnswerIsOwn(c)'
    <3>1. own[c] <= started /\ (own[c] < started => result = Whole(own[c]) \/ result.test > own[c])
      BY <1>1, <2>1 DEF ClientInv, OwnOrLater
    <3>2. CASE own[c] = started /\ seen[c] = TRUE
      <4>1. result = Whole(own[c])
        BY <1>1, <2>1, <3>2 DEF ClientInv, SeenIsLast, Saw, Told, Stored
      <4>2. QED BY <1>1, <4>1 DEF AnswerIsOwn, Whole
    <3>3. CASE own[c] < started
      <4>1. CASE result = Whole(own[c])
        BY <1>1, <4>1 DEF AnswerIsOwn, Whole
      <4>2. CASE own[c] < result.test
        BY <1>1, <2>1, <4>2 DEF AnswerIsOwn, Test!tests
      <4>3. QED BY <2>1, <3>1, <3>3, <4>1, <4>2
    <3>4. CASE seen[c] # TRUE
      BY <1>1, <3>4 DEF AnswerIsOwn
    <3>5. own[c] = started \/ own[c] < started
      BY <2>1, <3>1
    <3>6. QED BY <3>2, <3>3, <3>4, <3>5, Zenon
  <2>5. QED BY <2>2, <2>3, <2>4 DEF ClientInv
<1>4. \A d \in Clients : ClientInv(d)'
  BY <1>1, <1>3, ClientKept DEF TestInv
<1>5. QED BY <1>1, <1>2, <1>4, RunnerKept DEF TestInv

LEMMA AgainTestInv == ASSUME TestInv, NEW c \in Clients, Test!Again(c) PROVE TestInv'
<1>1. /\ UNCHANGED Test!tests /\ client'[c] = "idle" /\ seen'[c] = FALSE
      /\ \A d \in Clients : d # c => /\ client'[d] = client[d] /\ answer'[d] = answer[d]
                                     /\ own'[d] = own[d] /\ seen'[d] = seen[d]
  BY DEF Test!Again, TestInv, Test!TypeOK
<1>2. Test!TypeOK'
  <2>1. Test!NoResult \in Test!Results /\ 0 \in 0 .. MaxTests
    BY TestAssumptions DEF Test!TestsAssumption, Test!NoResult, Test!Results
  <2>2. QED BY <1>1, <2>1 DEF Test!Again, TestInv, Test!TypeOK, Test!tests
<1>3. ClientInv(c)'
  BY <1>1 DEF ClientInv, OwnOrLater, SeenIsLast, Saw, SeenSince, AnswerIsOwn
<1>4. \A d \in Clients : ClientInv(d)'
  BY <1>1, <1>3, ClientKept DEF TestInv
<1>5. QED BY <1>1, <1>2, <1>4, RunnerKept DEF TestInv

-----------------------------------------------------------------------------
(* The task of a test that moves is the last test's and the only one.        *)

Stages == {"none", "created", "testing", "storing", "tested", "done"}

\* What such a step does, and what it leaves to the clients.
Moves(t, from, to) ==
  /\ t \in Tests /\ t = started /\ isRunning = TRUE /\ tasks[t] = from
  /\ tasks' \in [Tests -> Stages] /\ tasks'[t] = to
  /\ \A u \in Tests : u # t => tasks[u] = "none" /\ tasks'[u] = "none"
  /\ started' = started /\ failures' = failures
  /\ UNCHANGED <<client, own, seen, answer>>

LEMMA TaskMoves ==
  ASSUME TestInv, NEW t \in Tests, NEW from, NEW to \in Stages, from # "none",
         Test!Step(t, from, to), UNCHANGED <<started, failures, Test!users>>
  PROVE  Moves(t, from, to)
<1>1. tasks[t] = from /\ tasks' = [tasks EXCEPT ![t] = to] /\ tasks \in [Tests -> Stages]
  BY DEF Test!Step, TestInv, Test!TypeOK, Tests, Stages
<1>2. t = started /\ isRunning = TRUE /\ \A u \in Tests : u # t => tasks[u] = "none"
  BY <1>1 DEF TestInv, Test!TypeOK, RunnerInv, RunningIsLast
<1>3. tasks' \in [Tests -> Stages] /\ tasks'[t] = to /\ \A u \in Tests : u # t => tasks'[u] = tasks[u]
  BY <1>1
<1>4. QED BY <1>1, <1>2, <1>3 DEF Moves, Test!users

\* Nobody is told anything by such a step, and a client that has seen its test has
\* a result at its end.
LEMMA TaskClients ==
  ASSUME TestInv, NEW t, NEW from, NEW to, Moves(t, from, to), to # "created",
         result' = result \/ (from \notin {"none", "tested", "done"} /\ result'.test = t),
         to \in {"none", "tested", "done"} => result' = Whole(t),
         from = "created" => to # "none",
         to \notin {"none", "tested", "done"} => from \notin {"none", "tested", "done"}
  PROVE  \A c \in Clients : ClientInv(c)'
<1>1. /\ t = started /\ started' = started /\ tasks[started] = from /\ tasks'[started] = to
      /\ UNCHANGED <<client, own, seen, answer>> /\ started \in Nat
  BY TestTypes DEF Moves, TestInv
<1>2. ASSUME NEW c \in Clients PROVE ClientInv(c)'
  <2>1. ClientInv(c) /\ own[c] \in Nat
    BY TestTypes DEF TestInv
  <2>2. OwnOrLater(c)'
    <3>1. ASSUME client[c] # "idle", own[c] < started
          PROVE  result' = Whole(own[c]) \/ result'.test > own[c]
      <4>1. result = Whole(own[c]) \/ result.test > own[c]
        BY <2>1, <3>1 DEF ClientInv, OwnOrLater
      <4>2. QED BY <1>1, <3>1, <4>1
    <3>2. client[c] # "idle" => own[c] \in Tests /\ own[c] <= started
      BY <2>1 DEF ClientInv, OwnOrLater
    <3>3. QED BY <1>1, <3>1, <3>2 DEF OwnOrLater, Whole, Tests
  <2>3. SeenIsLast(c)'
    <3>1. ASSUME Saw(c) PROVE from # "created" /\ (from = "none" \/ Told(c) => Stored)
      BY <1>1, <2>1, <3>1 DEF ClientInv, SeenIsLast
    <3>2. Saw(c)' = Saw(c) /\ Told(c)' = Told(c)
      BY <1>1 DEF Saw, Told
    <3>3. ASSUME Saw(c), to = "none" \/ Told(c) PROVE Stored'
      <4>1. to \in {"none", "tested", "done"}
        <5>1. CASE to = "none"
          BY <5>1
        <5>2. CASE Told(c)
          <6>1. from \in {"none", "tested", "done"}
            BY <1>1, <3>1, <3>3, <5>2 DEF Stored
          <6>2. QED BY <6>1
        <5>3. QED BY <3>3, <5>1, <5>2
      <4>2. QED BY <1>1, <4>1 DEF Stored, Whole
    <3>4. QED BY <1>1, <3>2, <3>3 DEF SeenIsLast
  <2>4. SeenSince(c)' /\ AnswerIsOwn(c)'
    BY <1>1, <2>1 DEF ClientInv, SeenSince, AnswerIsOwn, Whole
  <2>5. QED BY <2>2, <2>3, <2>4 DEF ClientInv
<1>3. QED BY <1>2

LEMMA TaskTestInv == ASSUME TestInv, NEW t \in Tests, Test!Task(t) PROVE TestInv'
<1>1. /\ Test!TypeOK /\ status \in {"idle", "running", "done"} /\ isRunning \in BOOLEAN
      /\ result \in Test!Results /\ result.test <= started /\ started \in Nat
      /\ tasks[t] \in {"tested", "done"} => result = Whole(t)
      /\ t \in Nat
  BY TestTypes DEF TestInv, Test!TypeOK, RunnerInv, ResultOfLast, Tests
<1>2. Whole(t) \in Test!Results /\ [test |-> t, whole |-> FALSE] \in Test!Results
  BY TestTypes, <1>1 DEF Test!Results, Tests, Whole
<1>3. CASE Test!TaskRunning(t)
  <2>1. Moves(t, "created", "testing") /\ UNCHANGED <<isRunning, result>> /\ status' = "running"
    BY <1>3, TaskMoves DEF Test!TaskRunning, Stages
  <2>2. Test!TypeOK'
    BY <1>1, <2>1 DEF Moves, Test!TypeOK, Stages, Tests
  <2>3. RunnerInv'
    BY <1>1, <2>1 DEF Moves, RunnerInv, RunningIsLast, StatusOfLast, ResultOfLast
  <2>4. \A c \in Clients : ClientInv(c)'
    BY <2>1, TaskClients
  <2>5. QED BY <2>2, <2>3, <2>4 DEF TestInv
<1>4. CASE Test!TaskResult(t)
  <2>1. /\ Moves(t, "testing", "storing") /\ UNCHANGED <<isRunning, status>>
        /\ result' = [test |-> t, whole |-> FALSE] /\ result'.test = t
    BY <1>4, TaskMoves DEF Test!TaskResult, Stages
  <2>2. Test!TypeOK'
    BY <1>1, <1>2, <2>1 DEF Moves, Test!TypeOK, Stages, Tests
  <2>3. RunnerInv'
    BY <1>1, <2>1 DEF Moves, TestInv, RunnerInv, RunningIsLast, StatusOfLast, ResultOfLast
  <2>4. \A c \in Clients : ClientInv(c)'
    BY <2>1, TaskClients
  <2>5. QED BY <2>2, <2>3, <2>4 DEF TestInv
<1>5. CASE Test!TaskResultWhole(t)
  <2>1. /\ Moves(t, "storing", "tested") /\ UNCHANGED <<isRunning, status>>
        /\ result' = Whole(t) /\ result'.test = t
    BY <1>5, TaskMoves DEF Test!TaskResultWhole, Stages, Whole
  <2>2. Test!TypeOK'
    BY <1>1, <1>2, <2>1 DEF Moves, Test!TypeOK, Stages, Tests
  <2>3. RunnerInv'
    BY <1>1, <2>1 DEF Moves, TestInv, RunnerInv, RunningIsLast, StatusOfLast, ResultOfLast
  <2>4. \A c \in Clients : ClientInv(c)'
    BY <2>1, TaskClients
  <2>5. QED BY <2>2, <2>3, <2>4 DEF TestInv
<1>6. CASE Test!TaskDone(t)
  <2>1. Moves(t, "tested", "done") /\ UNCHANGED <<isRunning, result>> /\ status' = "done"
    BY <1>6, TaskMoves DEF Test!TaskDone, Stages
  <2>2. result = Whole(t)
    BY <1>1, <2>1 DEF Moves
  <2>3. Test!TypeOK'
    BY <1>1, <2>1 DEF Moves, Test!TypeOK, Stages, Tests
  <2>4. RunnerInv'
    BY <1>1, <2>1, <2>2 DEF Moves, RunnerInv, RunningIsLast, StatusOfLast, ResultOfLast
  <2>5. \A c \in Clients : ClientInv(c)'
    BY <2>1, <2>2, TaskClients
  <2>6. QED BY <2>3, <2>4, <2>5 DEF TestInv
<1>7. CASE Test!TaskEnd(t)
  <2>1. Moves(t, "done", "none") /\ UNCHANGED <<status, result>> /\ isRunning' = FALSE
    BY <1>7, TaskMoves DEF Test!TaskEnd, Stages
  <2>2. result = Whole(t) /\ status # "running"
    BY <1>1, <2>1 DEF Moves, TestInv, RunnerInv, StatusOfLast
  <2>3. Test!TypeOK'
    BY <1>1, <2>1 DEF Moves, Test!TypeOK, Stages, Tests
  <2>4. RunnerInv'
    BY <1>1, <2>1, <2>2 DEF Moves, RunnerInv, RunningIsLast, StatusOfLast, ResultOfLast, Whole
  <2>5. \A c \in Clients : ClientInv(c)'
    BY <2>1, <2>2, TaskClients
  <2>6. QED BY <2>3, <2>4, <2>5 DEF TestInv
<1>8. QED BY <1>3, <1>4, <1>5, <1>6, <1>7 DEF Test!Task

LEMMA NextTestInv == ASSUME TestInv, Test!Next \/ UNCHANGED testVars PROVE TestInv'
<1>1. CASE UNCHANGED testVars
  <2>1. UNCHANGED Test!tests /\ UNCHANGED <<client, own, seen, answer>>
    BY <1>1 DEF testVars, Test!tests
  <2>2. Test!TypeOK'
    BY <2>1 DEF TestInv, Test!TypeOK, Test!tests
  <2>3. QED BY <2>1, <2>2, RunnerKept, ClientKept DEF TestInv
<1>2. CASE Test!Next
  BY <1>2, StartTestInv, StartFailsTestInv, StatusTestInv, ResultTestInv, AgainTestInv,
     TaskTestInv
  DEF Test!Next, Tests
<1>3. QED BY <1>1, <1>2

\* web_server.c, test_*_handler: for any number of tests and of clients that start,
\* poll and fetch them in any order, two tests never drive the pins at once, as the
\* handler sets the flag before it creates the task and only the task that ends
\* clears it; and a client that has read "running" and "done" since it started its
\* test is given that test's result, whole, or what a test started later has stored:
\* never an earlier test's, nor its own half formatted in the buffer that is sent.
THEOREM ResultsOwn == MCSpec => []ResultIsOwn
<1> DEFINE I == part = "test" => TestInv
<1>1. MCInit => I
  BY InitTestInv DEF MCInit
<1>2. I /\ [MCNext]_mcVars => I'
  BY NextTestInv, PartSteps
<1>3. I => ResultIsOwn
  BY AnswersAreOwn
  DEF ResultIsOwn, TestInv, ClientInv, RunnerInv, RunningIsLast, Test!OneAtATime, Tests
<1>4. QED BY <1>1, <1>2, <1>3, PTL DEF MCSpec

-----------------------------------------------------------------------------
(* Firmware upload: sequences joined and cut, by their elements.             *)

\* r is p followed by q, element by element.
IsJoin(r, p, q, S) ==
  /\ r \in Seq(S) /\ Len(r) = Len(p) + Len(q) /\ Len(p) \in Nat /\ Len(q) \in Nat
  /\ \A i \in 1 .. Len(p) : r[i] = p[i]
  /\ \A i \in 1 .. Len(q) : r[Len(p) + i] = q[i]

LEMMA JoinIs ==
  ASSUME NEW S, NEW p \in Seq(S), NEW q \in Seq(S) PROVE IsJoin(p \o q, p, q, S)
<1>1. /\ p \o q \in Seq(S) /\ Len(p \o q) = Len(p) + Len(q)
      /\ \A i \in 1 .. Len(p) + Len(q) :
           (p \o q)[i] = IF i <= Len(p) THEN p[i] ELSE q[i - Len(p)]
  BY ConcatProperties
<1>2. Len(p) \in Nat /\ Len(q) \in Nat
  OBVIOUS
<1>3. ASSUME NEW i \in 1 .. Len(p) PROVE (p \o q)[i] = p[i]
  BY <1>1, <1>2
<1>4. ASSUME NEW i \in 1 .. Len(q) PROVE (p \o q)[Len(p) + i] = q[i]
  <2>1. /\ Len(p) + i \in 1 .. Len(p) + Len(q) /\ ~(Len(p) + i <= Len(p))
        /\ (Len(p) + i) - Len(p) = i
    BY <1>2
  <2>2. QED BY <1>1, <2>1
<1>5. QED BY <1>1, <1>2, <1>3, <1>4 DEF IsJoin

LEMMA CutIs ==
  ASSUME NEW S, NEW t \in Seq(S), NEW m \in Nat \ {0}, NEW n \in Nat, n <= Len(t), m <= n + 1
  PROVE  /\ SubSeq(t, m, n) \in Seq(S) /\ Len(SubSeq(t, m, n)) = n - m + 1
         /\ \A i \in 1 .. n - m + 1 : SubSeq(t, m, n)[i] = t[m + i - 1]
<1>1. CASE m <= n
  <2>1. \A i \in 1 .. n - m + 1 : t[m + i - 1] \in S
    OBVIOUS
  <2>2. /\ Len(SubSeq(t, m, n)) = n - m + 1
        /\ \A i \in 1 .. n - m + 1 : SubSeq(t, m, n)[i] = t[m + i - 1]
    BY <1>1
  <2>3. SubSeq(t, m, n) \in Seq(S)
    BY <1>1
  <2>4. QED BY <2>2, <2>3
<1>2. CASE m = n + 1
  BY <1>2
<1>3. QED BY <1>1, <1>2

\* t has q at place i.
At(q, t, i) == \A j \in 1 .. Len(q) : t[i + j - 1] = q[j]

LEMMA PlacesAre ==
  ASSUME NEW S, NEW s0 \in Seq(S), NEW t \in Seq(S), NEW n \in Nat \ {0}, Len(s0) > 0
  PROVE  Ota!Places(s0, t, n) = {i \in n .. Len(t) - Len(s0) + 1 : At(s0, t, i)}
<1>1. Len(s0) \in Nat /\ Len(t) \in Nat
  OBVIOUS
<1>2. ASSUME NEW i \in n .. Len(t) - Len(s0) + 1
      PROVE  SubSeq(t, i, i + Len(s0) - 1) = s0 <=> At(s0, t, i)
  <2> DEFINE e == i + Len(s0) - 1
             u == SubSeq(t, i, e)
  <2>1. /\ i \in Nat \ {0} /\ e \in Nat /\ e <= Len(t) /\ i <= e + 1 /\ e - i + 1 = Len(s0)
    BY <1>1
  <2>2. /\ u \in Seq(S) /\ Len(u) = Len(s0)
        /\ \A j \in 1 .. Len(s0) : u[j] = t[i + j - 1]
    <3> HIDE DEF e
    <3>1. /\ u \in Seq(S) /\ Len(u) = e - i + 1
          /\ \A j \in 1 .. e - i + 1 : u[j] = t[i + j - 1]
      BY <2>1, CutIs
    <3>2. QED BY <2>1, <3>1
  <2> HIDE DEF u
  <2>3. u = s0 <=> \A j \in 1 .. Len(s0) : u[j] = s0[j]
    BY <2>2, SeqEqual
  <2>4. QED BY <2>2, <2>3 DEF At, u
<1>3. QED BY <1>2 DEF Ota!Places

LEMMA FirstIs ==
  ASSUME NEW T, T \subseteq Nat, T # {}
  PROVE  Ota!First(T) \in T /\ \A j \in T : Ota!First(T) <= j
BY Least DEF Ota!First

-----------------------------------------------------------------------------
(* The body of an upload.                                                    *)

\* What follows the headers.
Content == image \o Ota!Closing

LEMMA ClosingIs ==
  LET B == Boundary  n == Len(Boundary)  c == Ota!Closing
  IN  /\ B \in Seq(Ota!Bytes) /\ n \in Nat \ {0} /\ c \in Seq(Ota!Bytes) /\ Len(c) = n + 6
      /\ c[1] = "cr" /\ c[2] = "lf" /\ \A j \in 1 .. n : c[2 + j] = B[j]
      /\ c[n + 3] = "-" /\ c[n + 4] = "-" /\ c[n + 5] = "cr" /\ c[n + 6] = "lf"
<1> DEFINE D == Ota!Bytes
           B == Boundary
           n == Len(B)
           e == Ota!CrLf
           d == <<"-", "-">>
           p == e \o B
           q == p \o d
           c == q \o e
<1>1. B \in Seq(D) /\ n \in Nat \ {0}
  BY OtaAssumptions DEF Ota!BoundaryAssumption
<1>2. /\ e \in Seq(D) /\ Len(e) = 2 /\ e[1] = "cr" /\ e[2] = "lf"
      /\ d \in Seq(D) /\ Len(d) = 2 /\ d[1] = "-" /\ d[2] = "-"
  BY DEF Ota!CrLf, Ota!Bytes
<1>3. Ota!Closing = c
  BY DEF Ota!Closing
<1> HIDE DEF D, B, e, d
<1>4. /\ p \in Seq(D) /\ Len(p) = 2 + n /\ p[1] = "cr" /\ p[2] = "lf"
      /\ \A j \in 1 .. n : p[2 + j] = B[j]
  <2>1. IsJoin(p, e, B, D)
    BY <1>1, <1>2, JoinIs
  <2>2. 1 \in 1 .. 2 /\ 2 \in 1 .. 2
    OBVIOUS
  <2> HIDE DEF p
  <2>3. QED BY <1>2, <2>1, <2>2 DEF IsJoin
<1> HIDE DEF p
<1>5. /\ q \in Seq(D) /\ Len(q) = n + 4 /\ q[1] = "cr" /\ q[2] = "lf"
      /\ \A j \in 1 .. n : q[2 + j] = B[j]
      /\ q[n + 3] = "-" /\ q[n + 4] = "-"
  <2>0. IsJoin(q, p, d, D)
    BY <1>2, <1>4, JoinIs
  <2> HIDE DEF q
  <2>1. /\ q \in Seq(D) /\ Len(q) = Len(p) + 2
        /\ \A i \in 1 .. Len(p) : q[i] = p[i]
        /\ \A i \in 1 .. 2 : q[Len(p) + i] = d[i]
    BY <1>2, <2>0 DEF IsJoin
  <2>2. /\ \A j \in 1 .. n : 2 + j \in 1 .. Len(p)
        /\ 1 \in 1 .. Len(p) /\ 2 \in 1 .. Len(p) /\ 1 \in 1 .. 2 /\ 2 \in 1 .. 2
        /\ Len(p) + 1 = n + 3 /\ Len(p) + 2 = n + 4
    BY <1>1, <1>4
  <2>3. QED BY <1>2, <1>4, <2>1, <2>2
<1> HIDE DEF q
<1>6. /\ c \in Seq(D) /\ Len(c) = n + 6 /\ c[1] = "cr" /\ c[2] = "lf"
      /\ \A j \in 1 .. n : c[2 + j] = B[j]
      /\ c[n + 3] = "-" /\ c[n + 4] = "-" /\ c[n + 5] = "cr" /\ c[n + 6] = "lf"
  <2>0. IsJoin(c, q, e, D)
    BY <1>2, <1>5, JoinIs
  <2> HIDE DEF c
  <2>1. /\ c \in Seq(D) /\ Len(c) = Len(q) + 2
        /\ \A i \in 1 .. Len(q) : c[i] = q[i]
        /\ \A i \in 1 .. 2 : c[Len(q) + i] = e[i]
    BY <1>2, <2>0 DEF IsJoin
  <2>2. /\ \A j \in 1 .. n : 2 + j \in 1 .. Len(q)
        /\ 1 \in 1 .. Len(q) /\ 2 \in 1 .. Len(q) /\ 1 \in 1 .. 2 /\ 2 \in 1 .. 2
        /\ n + 3 \in 1 .. Len(q) /\ n + 4 \in 1 .. Len(q)
        /\ Len(q) + 1 = n + 5 /\ Len(q) + 2 = n + 6
    BY <1>1, <1>5
  <2>3. QED BY <1>2, <1>5, <2>1, <2>2
<1> HIDE DEF c
<1>7. QED BY <1>1, <1>3, <1>6 DEF B, D

LEMMA PreambleIs ==
  LET B == Boundary  n == Len(Boundary)  p == Ota!Preamble
  IN  /\ p \in Seq(Ota!Bytes) /\ Len(p) = n + 7 /\ \A j \in 1 .. n : p[j] = B[j]
      /\ p[n + 1] = "cr" /\ p[n + 2] = "lf" /\ p[n + 3] = "h"
      /\ p[n + 4] = "cr" /\ p[n + 5] = "lf" /\ p[n + 6] = "cr" /\ p[n + 7] = "lf"
<1> DEFINE D == Ota!Bytes
           B == Boundary
           n == Len(B)
           e == Ota!CrLf
           h == <<"h">>
           s0 == Ota!Separator
           x == B \o e
           y == x \o h
           p == y \o s0
<1>1. B \in Seq(D) /\ n \in Nat \ {0}
  BY OtaAssumptions DEF Ota!BoundaryAssumption
<1>2. /\ e \in Seq(D) /\ Len(e) = 2 /\ e[1] = "cr" /\ e[2] = "lf"
      /\ h \in Seq(D) /\ Len(h) = 1 /\ h[1] = "h"
      /\ s0 \in Seq(D) /\ Len(s0) = 4
      /\ s0[1] = "cr" /\ s0[2] = "lf" /\ s0[3] = "cr" /\ s0[4] = "lf"
  BY DEF Ota!CrLf, Ota!Separator, Ota!Bytes
<1>3. Ota!Preamble = p
  BY DEF Ota!Preamble
<1> HIDE DEF D, B, e, h, s0
<1>4. /\ x \in Seq(D) /\ Len(x) = n + 2 /\ x[n + 1] = "cr" /\ x[n + 2] = "lf"
      /\ \A j \in 1 .. n : x[j] = B[j]
  <2>0. IsJoin(x, B, e, D)
    BY <1>1, <1>2, JoinIs
  <2> HIDE DEF x
  <2>1. /\ x \in Seq(D) /\ Len(x) = n + 2
        /\ \A i \in 1 .. n : x[i] = B[i]
        /\ \A i \in 1 .. 2 : x[n + i] = e[i]
    BY <1>2, <2>0 DEF IsJoin
  <2>2. 1 \in 1 .. 2 /\ 2 \in 1 .. 2
    OBVIOUS
  <2>3. QED BY <1>2, <2>1, <2>2
<1> HIDE DEF x
<1>5. /\ y \in Seq(D) /\ Len(y) = n + 3 /\ y[n + 1] = "cr" /\ y[n + 2] = "lf"
      /\ y[n + 3] = "h" /\ \A j \in 1 .. n : y[j] = B[j]
  <2>0. IsJoin(y, x, h, D)
    BY <1>2, <1>4, JoinIs
  <2> HIDE DEF y
  <2>1. /\ y \in Seq(D) /\ Len(y) = Len(x) + 1
        /\ \A i \in 1 .. Len(x) : y[i] = x[i]
        /\ \A i \in 1 .. 1 : y[Len(x) + i] = h[i]
    BY <1>2, <2>0 DEF IsJoin
  <2>2. /\ \A j \in 1 .. n : j \in 1 .. Len(x)
        /\ n + 1 \in 1 .. Len(x) /\ n + 2 \in 1 .. Len(x) /\ 1 \in 1 .. 1
        /\ Len(x) + 1 = n + 3
    BY <1>1, <1>4
  <2>3. QED BY <1>2, <1>4, <2>1, <2>2
<1> HIDE DEF y
<1>6. /\ p \in Seq(D) /\ Len(p) = n + 7 /\ \A j \in 1 .. n : p[j] = B[j]
      /\ p[n + 1] = "cr" /\ p[n + 2] = "lf" /\ p[n + 3] = "h"
      /\ p[n + 4] = "cr" /\ p[n + 5] = "lf" /\ p[n + 6] = "cr" /\ p[n + 7] = "lf"
  <2>0. IsJoin(p, y, s0, D)
    BY <1>2, <1>5, JoinIs
  <2> HIDE DEF p
  <2>1. /\ p \in Seq(D) /\ Len(p) = Len(y) + 4
        /\ \A i \in 1 .. Len(y) : p[i] = y[i]
        /\ \A i \in 1 .. 4 : p[Len(y) + i] = s0[i]
    BY <1>2, <2>0 DEF IsJoin
  <2>2. /\ \A j \in 1 .. n : j \in 1 .. Len(y)
        /\ n + 1 \in 1 .. Len(y) /\ n + 2 \in 1 .. Len(y) /\ n + 3 \in 1 .. Len(y)
        /\ 1 \in 1 .. 4 /\ 2 \in 1 .. 4 /\ 3 \in 1 .. 4 /\ 4 \in 1 .. 4
        /\ Len(y) + 1 = n + 4 /\ Len(y) + 2 = n + 5 /\ Len(y) + 3 = n + 6 /\ Len(y) + 4 = n + 7
    BY <1>1, <1>5
  <2>3. QED BY <1>2, <1>5, <2>1, <2>2
<1> HIDE DEF p
<1>7. QED BY <1>1, <1>3, <1>6 DEF B, D

LEMMA ContentIs ==
  ASSUME image \in Images
  PROVE  LET m == Len(image)  n == Len(Boundary)  c == Ota!Closing
         IN  /\ image \in Seq(Ota!Bytes) /\ m \in Nat
             /\ Content \in Seq(Ota!Bytes) /\ Len(Content) = m + n + 6
             /\ \A i \in 1 .. m : Content[i] = image[i]
             /\ \A i \in 1 .. n + 6 : Content[m + i] = c[i]
<1>1. image \in Seq(Ota!Bytes)
  BY OtaAssumptions DEF Ota!ImagesAssumption
<1>2. /\ Ota!Closing \in Seq(Ota!Bytes) /\ Len(Ota!Closing) = Len(Boundary) + 6
      /\ Len(Boundary) \in Nat
  BY ClosingIs
<1> DEFINE c == Ota!Closing
           t == Content
<1>3. t = image \o c
  BY DEF Content
<1> HIDE DEF c, t
<1>4. IsJoin(t, image, c, Ota!Bytes)
  BY <1>1, <1>2, <1>3, JoinIs DEF c
<1>5. /\ t \in Seq(Ota!Bytes) /\ Len(t) = Len(image) + Len(c) /\ Len(image) \in Nat
      /\ \A i \in 1 .. Len(image) : t[i] = image[i]
      /\ \A i \in 1 .. Len(c) : t[Len(image) + i] = c[i]
  BY <1>4 DEF IsJoin
<1>6. Len(c) = Len(Boundary) + 6 /\ Len(Boundary) \in Nat
  BY <1>2 DEF c
<1>7. Len(t) = Len(image) + Len(Boundary) + 6
  BY <1>5, <1>6
<1>8. QED BY <1>1, <1>5, <1>6, <1>7 DEF c, t

LEMMA BodyIs ==
  ASSUME image \in Images
  PROVE  LET n == Len(Boundary)  w == Ota!Body(image)  t == Content
         IN  /\ w \in Seq(Ota!Bytes) /\ Len(w) = n + 7 + Len(t) /\ Len(t) \in Nat
             /\ \A i \in 1 .. n + 7 : w[i] = Ota!Preamble[i]
             /\ \A i \in 1 .. Len(t) : w[n + 7 + i] = t[i]
<1> DEFINE p == Ota!Preamble
           c == Ota!Closing
           t == Content
<1>1. /\ p \in Seq(Ota!Bytes) /\ c \in Seq(Ota!Bytes) /\ image \in Seq(Ota!Bytes)
      /\ t \in Seq(Ota!Bytes) /\ Len(p) = Len(Boundary) + 7
  BY PreambleIs, ClosingIs, ContentIs
<1>2. Ota!Body(image) = (p \o image) \o c /\ t = image \o c
  BY DEF Ota!Body, Content
<1> HIDE DEF p, c, t
<1>3. Ota!Body(image) = p \o t
  BY <1>1, <1>2, ConcatAssociative
<1> DEFINE w == Ota!Body(image)
<1>4. IsJoin(w, p, t, Ota!Bytes)
  BY <1>1, <1>3, JoinIs
<1> HIDE DEF w
<1>5. /\ w \in Seq(Ota!Bytes) /\ Len(w) = Len(Boundary) + 7 + Len(t) /\ Len(t) \in Nat
      /\ \A i \in 1 .. Len(Boundary) + 7 : w[i] = p[i]
      /\ \A i \in 1 .. Len(t) : w[Len(Boundary) + 7 + i] = t[i]
  BY <1>1, <1>4 DEF IsJoin
<1>6. QED BY <1>5 DEF p, t, w

\* The boundary is in the content where the closing has it, and nowhere before.
LEMMA OnlyInClosing ==
  ASSUME image \in Images
  PROVE  LET m == Len(image)  n == Len(Boundary)
         IN  /\ At(Boundary, Content, m + 3)
             /\ \A i \in 1 .. Len(Content) - n + 1 : At(Boundary, Content, i) => i >= m + 3
<1> DEFINE B == Boundary
           n == Len(B)
           m == Len(image)
           t == Content
           c == Ota!Closing
<1>1. /\ B \in Seq(Ota!Bytes) /\ n \in Nat \ {0} /\ c[1] = "cr" /\ c[2] = "lf"
      /\ \A j \in 1 .. n : c[2 + j] = B[j]
      /\ \A j \in 1 .. n : B[j] \notin {"cr", "lf"}
  BY ClosingIs, OtaAssumptions DEF Ota!BoundaryAssumption
<1>2. /\ image \in Seq(Ota!Bytes) /\ m \in Nat /\ t \in Seq(Ota!Bytes) /\ Len(t) = m + n + 6
      /\ \A i \in 1 .. m : t[i] = image[i]
      /\ \A i \in 1 .. n + 6 : t[m + i] = c[i]
  BY ContentIs
<1>3. \A i \in 1 .. m - n + 1 : ~At(B, image, i)
  <2>1. Ota!Places(B, image, 1) = {}
    BY OtaAssumptions DEF Ota!ImagesAssumption
  <2>2. Ota!Places(B, image, 1) = {i \in 1 .. m - n + 1 : At(B, image, i)}
    <3>1. 1 \in Nat \ {0} /\ Len(B) > 0
      BY <1>1
    <3> DEFINE D == Ota!Bytes
    <3>2. B \in Seq(D) /\ image \in Seq(D)
      BY <1>1, <1>2
    <3> HIDE DEF D, B
    <3>3. QED BY <3>1, <3>2, PlacesAre
  <2>3. QED BY <2>1, <2>2
<1> HIDE DEF B, t, c, m
<1>4. At(B, t, m + 3)
  <2> SUFFICES ASSUME NEW j \in 1 .. n PROVE t[(m + 3) + j - 1] = B[j]
    BY DEF At
  <2>1. (m + 3) + j - 1 = m + (2 + j) /\ 2 + j \in 1 .. n + 6
    BY <1>1, <1>2
  <2>2. QED BY <1>1, <1>2, <2>1
<1>5. ASSUME NEW i \in 1 .. Len(t) - n + 1, At(B, t, i), ~(i >= m + 3) PROVE FALSE
  <2>1. \A j \in 1 .. n : t[i + j - 1] = B[j]
    BY <1>5 DEF At
  <2>2. t[m + 1] = "cr" /\ t[m + 2] = "lf"
    <3>1. 1 \in 1 .. n + 6 /\ 2 \in 1 .. n + 6
      BY <1>1
    <3>2. QED BY <1>1, <1>2, <3>1
  <2>3. CASE i + n - 1 <= m
    <3>1. i \in 1 .. m - n + 1 /\ \A j \in 1 .. n : i + j - 1 \in 1 .. m
      BY <1>1, <1>2, <2>3
    <3>2. At(B, image, i)
      BY <1>2, <2>1, <3>1 DEF At
    <3>3. QED BY <1>3, <3>1, <3>2
  <2>4. CASE i <= m + 1 /\ m + 1 <= i + n - 1
    <3> DEFINE j == m + 2 - i
    <3>1. j \in 1 .. n /\ i + j - 1 = m + 1
      BY <1>1, <1>2, <2>4
    <3> HIDE DEF j
    <3>2. QED BY <1>1, <2>1, <2>2, <3>1
  <2>5. CASE i = m + 2
    <3>1. 1 \in 1 .. n /\ i + 1 - 1 = m + 2
      BY <1>1, <1>2, <2>5
    <3>2. QED BY <1>1, <2>1, <2>2, <3>1
  <2>6. QED BY <1>1, <1>2, <1>5, <2>3, <2>4, <2>5
<1>6. QED BY <1>4, <1>5 DEF B, t, m

\* q is what is left of t after its first k.
IsRest(q, t, k) ==
  /\ q \in Seq(Ota!Bytes) /\ k \in 0 .. Len(t) /\ Len(q) = Len(t) - k
  /\ \A i \in 1 .. Len(q) : q[i] = t[k + i]

\* t is w, u and r, one after the other.
Parts(w, u, r, t) ==
  /\ w \in Seq(Ota!Bytes) /\ u \in Seq(Ota!Bytes) /\ r \in Seq(Ota!Bytes)
  /\ Len(t) = Len(w) + Len(u) + Len(r)
  /\ \A i \in 1 .. Len(w) : w[i] = t[i]
  /\ \A i \in 1 .. Len(u) : u[i] = t[Len(w) + i]
  /\ \A i \in 1 .. Len(r) : r[i] = t[Len(w) + Len(u) + i]

LEMMA SeparatorIs ==
  LET s0 == Ota!Separator
  IN  /\ s0 \in Seq(Ota!Bytes) /\ Len(s0) = 4
      /\ s0[1] = "cr" /\ s0[2] = "lf" /\ s0[3] = "cr" /\ s0[4] = "lf"
BY DEF Ota!CrLf, Ota!Separator, Ota!Bytes

\* The separator at place i, element by element.
LEMMA SeparatorAt ==
  ASSUME NEW t, NEW i \in Nat
  PROVE  At(Ota!Separator, t, i) <=>
           t[i] = "cr" /\ t[i + 1] = "lf" /\ t[i + 2] = "cr" /\ t[i + 3] = "lf"
<1> DEFINE s0 == Ota!Separator
<1>1. Len(s0) = 4 /\ s0[1] = "cr" /\ s0[2] = "lf" /\ s0[3] = "cr" /\ s0[4] = "lf"
  BY SeparatorIs
<1> HIDE DEF s0
<1>2. /\ i + 1 - 1 = i /\ i + 2 - 1 = i + 1 /\ i + 3 - 1 = i + 2 /\ i + 4 - 1 = i + 3
      /\ 1 .. 4 = {1, 2, 3, 4}
  OBVIOUS
<1>3. At(s0, t, i) <=> \A j \in {1, 2, 3, 4} : t[i + j - 1] = s0[j]
  BY <1>1, <1>2 DEF At
<1>4. QED BY <1>1, <1>2, <1>3 DEF s0

\* Found in what one receive returns, the headers are those of the preamble: what
\* follows is the content.
LEMMA FoundAt ==
  ASSUME image \in Images, NEW r \in Seq(Ota!Bytes), NEW k \in Nat,
         k + Len(r) <= Len(Ota!Body(image)),
         \A i \in 1 .. Len(r) : r[i] = Ota!Body(image)[k + i],
         Ota!Found(r)
  PROVE  LET g == Ota!First(Ota!DataAt(r))
         IN  g \in Nat \ {0} /\ g + 3 <= Len(r) /\ k + g = Len(Boundary) + 4
<1> DEFINE B == Boundary
           n == Len(B)
           m == Len(image)
           t == Content
           w == Ota!Body(image)
           p == Ota!Preamble
           s0 == Ota!Separator
           f == Ota!First(Ota!Starts(r))
           g == Ota!First(Ota!DataAt(r))
           D == Ota!Bytes
<1>1. /\ B \in Seq(D) /\ n \in Nat \ {0} /\ \A j \in 1 .. n : B[j] \notin {"cr", "lf"}
      /\ s0 \in Seq(D) /\ Len(s0) = 4
      /\ Len(r) \in Nat
  BY ClosingIs, SeparatorIs, OtaAssumptions DEF Ota!BoundaryAssumption
<1>2. /\ f \in 1 .. Len(r) - n + 1 /\ At(B, r, f)
  <2>1. Ota!Starts(r) = {i \in 1 .. Len(r) - n + 1 : At(B, r, i)}
    <3>1. 1 \in Nat \ {0} /\ Len(B) > 0 /\ r \in Seq(D)
      BY <1>1
    <3> HIDE DEF B, D
    <3>2. Ota!Places(B, r, 1) = {i \in 1 .. Len(r) - n + 1 : At(B, r, i)}
      BY <1>1, <3>1, PlacesAre
    <3>3. QED BY <3>2 DEF Ota!Starts, B
  <2>2. Ota!Starts(r) # {} /\ Ota!Starts(r) \subseteq Nat
    BY <2>1 DEF Ota!Found
  <2>3. f \in Ota!Starts(r)
    BY <2>2, FirstIs
  <2>4. QED BY <2>1, <2>3
<1>3. /\ g \in f .. Len(r) - 4 + 1 /\ At(s0, r, g)
      /\ \A i \in f .. Len(r) - 4 + 1 : At(s0, r, i) => g <= i
  <2>1. Ota!DataAt(r) = {i \in f .. Len(r) - 4 + 1 : At(s0, r, i)}
    <3>1. f \in Nat \ {0} /\ Len(s0) > 0 /\ r \in Seq(D) /\ s0 \in Seq(D)
      BY <1>1, <1>2
    <3>2. Ota!DataAt(r) = Ota!Places(s0, r, f)
      BY DEF Ota!DataAt
    <3> HIDE DEF s0, D, f
    <3>3. Ota!Places(s0, r, f) = {i \in f .. Len(r) - Len(s0) + 1 : At(s0, r, i)}
      BY <3>1, PlacesAre
    <3>4. QED BY <1>1, <3>2, <3>3
  <2>2. Ota!DataAt(r) # {} /\ Ota!DataAt(r) \subseteq Nat
    BY <1>2, <2>1 DEF Ota!Found
  <2>3. g \in Ota!DataAt(r) /\ \A j \in Ota!DataAt(r) : g <= j
    BY <2>2, FirstIs
  <2> HIDE DEF g
  <2>4. QED BY <2>1, <2>3
<1>4. /\ Len(w) = n + 7 + Len(t) /\ Len(t) = m + n + 6 /\ m \in Nat
      /\ \A j \in 1 .. n : w[j] = B[j]
      /\ w[n + 1] = "cr" /\ w[n + 2] = "lf" /\ w[n + 3] = "h"
      /\ w[n + 4] = "cr" /\ w[n + 5] = "lf" /\ w[n + 6] = "cr" /\ w[n + 7] = "lf"
      /\ \A i \in 1 .. Len(t) : w[n + 7 + i] = t[i]
  <2>1. /\ Len(w) = n + 7 + Len(t) /\ Len(t) = m + n + 6 /\ m \in Nat
        /\ \A i \in 1 .. n + 7 : w[i] = p[i]
        /\ \A i \in 1 .. Len(t) : w[n + 7 + i] = t[i]
    BY BodyIs, ContentIs
  <2>2. /\ \A j \in 1 .. n : p[j] = B[j] /\ j \in 1 .. n + 7
        /\ p[n + 1] = "cr" /\ p[n + 2] = "lf" /\ p[n + 3] = "h"
        /\ p[n + 4] = "cr" /\ p[n + 5] = "lf" /\ p[n + 6] = "cr" /\ p[n + 7] = "lf"
    BY <1>1, PreambleIs
  <2> HIDE DEF w, p, t, m, B
  <2>3. \A i \in 1 .. 7 : n + i \in 1 .. n + 7
    BY <1>1 DEF B
  <2>4. \A j \in 1 .. n : w[j] = B[j]
    BY <2>1, <2>2
  <2>5. \A i \in 1 .. 7 : w[n + i] = p[n + i]
    BY <2>1, <2>3
  <2>6. QED BY <2>1, <2>2, <2>4, <2>5
<1>5. \A i \in 1 .. Len(t) - n + 1 : At(B, t, i) => i >= m + 3
  BY OnlyInClosing
<1>6. \A i \in 1 .. n + 1 : t[m + 2 + i] # "cr"
  <2> DEFINE c == Ota!Closing
  <2>1. /\ \A i \in 1 .. n + 6 : t[m + i] = c[i]
        /\ \A j \in 1 .. n : c[2 + j] = B[j]
        /\ c[n + 3] = "-"
    BY ContentIs, ClosingIs
  <2> HIDE DEF c, t, m, B
  <2>2. ASSUME NEW i \in 1 .. n + 1 PROVE t[m + 2 + i] # "cr"
    <3>1. 2 + i \in 1 .. n + 6 /\ m + 2 + i = m + (2 + i) /\ n \in Nat
      BY <1>1, <1>4 DEF B
    <3>2. t[m + 2 + i] = c[2 + i]
      BY <2>1, <3>1
    <3>3. CASE i \in 1 .. n
      BY <1>1, <2>1, <3>2, <3>3
    <3>4. CASE i = n + 1
      <4>1. 2 + i = n + 3
        BY <3>1, <3>4
      <4>2. QED BY <2>1, <3>2, <4>1
    <3>5. QED BY <3>1, <3>3, <3>4
  <2>3. QED BY <2>2
<1> DEFINE x == k + f
           y == k + g
<1>7. \A j \in 1 .. n : w[x + j - 1] = B[j]
  <2> SUFFICES ASSUME NEW j \in 1 .. n PROVE w[x + j - 1] = B[j]
    OBVIOUS
  <2> HIDE DEF f, B, w
  <2>1. f + j - 1 \in 1 .. Len(r) /\ k + (f + j - 1) = x + j - 1
    BY <1>1, <1>2
  <2>2. r[f + j - 1] = B[j]
    BY <1>2 DEF At
  <2>3. QED BY <2>1, <2>2 DEF w
<1>8. /\ w[y] = "cr" /\ w[y + 1] = "lf" /\ w[y + 2] = "cr" /\ w[y + 3] = "lf"
      /\ y + 3 <= Len(w) /\ x <= y /\ x \in Nat \ {0} /\ y \in Nat \ {0}
  <2> HIDE DEF f, g, w, s0, B
  <2>1. f \in Nat \ {0} /\ g \in Nat \ {0} /\ f <= g /\ g + 3 <= Len(r)
    BY <1>1, <1>2, <1>3
  <2>2. r[g] = "cr" /\ r[g + 1] = "lf" /\ r[g + 2] = "cr" /\ r[g + 3] = "lf"
    BY <1>3, <2>1, SeparatorAt DEF s0
  <2>3. \A i \in 1 .. Len(r) : r[i] = w[k + i]
    BY DEF w
  <2>4. /\ g \in 1 .. Len(r) /\ g + 1 \in 1 .. Len(r) /\ g + 2 \in 1 .. Len(r)
        /\ g + 3 \in 1 .. Len(r)
        /\ k + (g + 1) = y + 1 /\ k + (g + 2) = y + 2 /\ k + (g + 3) = y + 3
    BY <1>1, <2>1
  <2>5. y + 3 <= Len(w) /\ x <= y /\ x \in Nat \ {0} /\ y \in Nat \ {0}
    BY <1>1, <2>1, <1>4 DEF w
  <2>6. QED BY <2>2, <2>3, <2>4, <2>5
<1> HIDE DEF f, g, w, t, m, B, p, x, y
<1>9. x <= n + 3
  <2>0. n \in Nat \ {0} /\ x \in Nat
    BY <1>1, <1>8
  <2>1. CASE n + 4 <= x /\ x <= n + 7
    <3> DEFINE n0 == n
    <3>0. n0 \in Nat /\ n0 + 4 <= x /\ x <= n0 + 7
      BY <2>0, <2>1
    <3>1. 1 \in 1 .. n /\ x + 1 - 1 = x
      BY <2>0
    <3>2. w[x] = B[1]
      BY <1>7, <3>1
    <3> HIDE DEF n0
    <3>3. x = n0 + 4 \/ x = n0 + 5 \/ x = n0 + 6 \/ x = n0 + 7
      BY <2>0, <3>0
    <3>4. w[x] \in {"cr", "lf"}
      BY <1>4, <3>3 DEF n0
    <3>5. QED BY <1>1, <3>1, <3>2, <3>4
  <2>2. CASE x >= n + 8
    <3> DEFINE u == x - n - 7
               v == y - n - 7
    <3>0. /\ n \in Nat \ {0} /\ m \in Nat /\ Len(t) \in Nat /\ Len(t) = m + n + 6
          /\ x \in Nat /\ y \in Nat
      BY <1>1, <1>4, <1>8
    <3>1. /\ u \in Nat \ {0} /\ v \in Nat \ {0} /\ u <= v /\ v <= Len(t) - 3
          /\ n + 7 + u = x /\ n + 7 + v = y
      BY <1>4, <1>8, <2>2, <3>0
    <3> HIDE DEF u, v
    <3>2. CASE u <= Len(t) - n + 1
      <4>1. At(B, t, u)
        <5> SUFFICES ASSUME NEW j \in 1 .. n PROVE t[u + j - 1] = B[j]
          BY DEF At
        <5> DEFINE j1 == u + j - 1
        <5> DEFINE n0 == n
        <5>0. n0 \in Nat /\ j \in 1 .. n0 /\ n0 + 7 + u = x /\ u <= Len(t) - n0 + 1
          BY <3>0, <3>1, <3>2
        <5> HIDE DEF n0
        <5>1. j1 \in 1 .. Len(t) /\ n0 + 7 + j1 = x + j - 1
          BY <3>0, <3>1, <5>0
        <5> HIDE DEF j1
        <5>2. t[j1] = w[x + j - 1]
          BY <1>4, <5>1 DEF n0
        <5>3. QED BY <1>7, <5>2 DEF j1
      <4>2. u >= m + 3
        BY <1>5, <3>0, <3>1, <3>2, <4>1
      <4> DEFINE i == v - m - 2
      <4>3. i \in 1 .. n + 1 /\ m + 2 + i = v /\ v \in 1 .. Len(t)
        BY <3>0, <3>1, <4>2
      <4> HIDE DEF i
      <4>4. t[v] = "cr"
        BY <1>4, <1>8, <3>1, <4>3
      <4>5. QED BY <1>6, <4>3, <4>4
    <3>3. CASE ~(u <= Len(t) - n + 1)
      <4>1. f + n - 1 <= Len(r)
        BY <1>1, <1>2
      <4>2. x + n - 1 <= Len(w)
        BY <1>1, <1>2, <4>1 DEF x, w
      <4>3. QED BY <1>1, <1>4, <3>1, <3>3, <4>2
    <3>4. QED BY <3>2, <3>3
  <2> DEFINE n0 == n
  <2>3. n0 \in Nat
    BY <2>0
  <2> HIDE DEF n0
  <2>4. x <= n0 + 3 \/ (n0 + 4 <= x /\ x <= n0 + 7) \/ x >= n0 + 8
    BY <2>0, <2>3
  <2>5. QED BY <2>1, <2>2, <2>4 DEF n0
<1>10. y >= n + 4
  <2>1. y \notin 1 .. n
    BY <1>1, <1>4, <1>8
  <2>2. y # n + 1
    <3>1. n + 1 + 2 = n + 3
      BY <1>1
    <3>2. QED BY <1>4, <1>8, <3>1
  <2>3. y # n + 2 /\ y # n + 3
    BY <1>4, <1>8
  <2>4. QED BY <1>1, <1>8, <2>1, <2>2, <2>3
<1>11. y <= n + 4
  <2> DEFINE z == n + 4 - k
  <2>1. z \in f .. Len(r) - 4 + 1 /\ z \in Nat \ {0} /\ k + z = n + 4
    BY <1>1, <1>2, <1>3, <1>9, <1>10 DEF x, y
  <2>2. /\ z \in 1 .. Len(r) /\ z + 1 \in 1 .. Len(r) /\ z + 2 \in 1 .. Len(r)
        /\ z + 3 \in 1 .. Len(r)
        /\ k + (z + 1) = n + 5 /\ k + (z + 2) = n + 6 /\ k + (z + 3) = n + 7
    BY <1>1, <2>1
  <2> HIDE DEF z
  <2>3. r[z] = "cr" /\ r[z + 1] = "lf" /\ r[z + 2] = "cr" /\ r[z + 3] = "lf"
    BY <1>4, <2>1, <2>2 DEF w
  <2>4. At(s0, r, z)
    BY <2>1, <2>3, SeparatorAt
  <2>5. g <= z
    BY <1>3, <2>1, <2>4
  <2>6. g \in Nat
    BY <1>2, <1>3
  <2>7. QED BY <2>1, <2>5, <2>6 DEF y
<1>12. /\ g \in Nat \ {0} /\ g + 3 <= Len(r) /\ k + g = n + 4
  BY <1>1, <1>2, <1>3, <1>8, <1>10, <1>11 DEF y
<1>13. QED BY <1>12 DEF g, B

-----------------------------------------------------------------------------
(* The upload: what has been received is what was written, then what is held *)
(* back, and the rest of the content follows.                                *)

\* w is the beginning of the image.
Begins(w) == Len(w) <= Len(image) /\ \A i \in 1 .. Len(w) : w[i] = image[i]

\* q has the boundary nowhere.
NoBoundary(q) == \A i \in 1 .. Len(q) - Len(Boundary) + 1 : ~At(Boundary, q, i)

Scanning ==
  /\ written = <<>> /\ buf = <<>> /\ found = "none"
  /\ \E k \in Nat : IsRest(rest, Ota!Body(image), k)

Streaming ==
  /\ Parts(written, buf, rest, Content)
  /\ found = "image" => NoBoundary(buf)

OtaInv ==
  /\ Ota!TypeOK
  /\ Begins(written)
  /\ phase = "scan" => Scanning
  /\ phase = "stream" => Streaming
  /\ Ota!CompleteAtTheEnd
  /\ boots => phase = "finished" /\ written = image

LEMMA OtaPrefixIs ==
  ASSUME NEW D, NEW w \in Seq(D), NEW v \in Seq(D)
  PROVE  Ota!IsPrefix(w, v) <=> Len(w) <= Len(v) /\ \A i \in 1 .. Len(w) : w[i] = v[i]
<1> DEFINE n == Len(w)
           a == SubSeq(w, 1, n)
           b == SubSeq(v, 1, n)
<1>1. n \in Nat /\ Len(v) \in Nat
  OBVIOUS
<1>2. Ota!IsPrefix(w, v) <=> n <= Len(v) /\ a = b
  BY DEF Ota!IsPrefix
<1>3. a = w
  OBVIOUS
<1>4. ASSUME n <= Len(v) PROVE b = w <=> \A i \in 1 .. n : w[i] = v[i]
  <2>1. /\ b \in Seq(D) /\ Len(b) = n /\ \A i \in 1 .. n : b[i] = v[i]
    <3>1. /\ 1 \in Nat \ {0} /\ 1 <= n + 1 /\ n - 1 + 1 = n
          /\ \A i \in 1 .. n : 1 + i - 1 = i
      BY <1>1
    <3> HIDE DEF n
    <3>2. b \in Seq(D) /\ Len(b) = n - 1 + 1 /\ \A i \in 1 .. n - 1 + 1 : b[i] = v[1 + i - 1]
      BY <1>1, <1>4, <3>1, CutIs
    <3> HIDE DEF b
    <3>3. QED BY <3>1, <3>2
  <2> HIDE DEF b
  <2>2. QED BY <2>1, SeqEqual
<1> HIDE DEF a, b
<1>5. QED BY <1>2, <1>3, <1>4

\* A sequence cut after its first n.
LEMMA SplitIs ==
  ASSUME NEW D, NEW r \in Seq(D), NEW n \in 0 .. Len(r)
  PROVE  LET a == SubSeq(r, 1, n)  b == SubSeq(r, n + 1, Len(r))
         IN  /\ a \in Seq(D) /\ Len(a) = n /\ \A i \in 1 .. n : a[i] = r[i]
             /\ b \in Seq(D) /\ Len(b) = Len(r) - n
             /\ \A i \in 1 .. Len(r) - n : b[i] = r[n + i]
<1> DEFINE l == Len(r)
           m == n + 1
           a == SubSeq(r, 1, n)
           b == SubSeq(r, m, l)
<1>1. /\ l \in Nat /\ n \in Nat /\ n <= l
      /\ 1 \in Nat \ {0} /\ 1 <= n + 1 /\ n - 1 + 1 = n /\ \A i \in 1 .. n : 1 + i - 1 = i
      /\ m \in Nat \ {0} /\ m <= l + 1 /\ l - m + 1 = l - n
      /\ \A i \in 1 .. l - n : m + i - 1 = n + i
  OBVIOUS
<1>2. l = Len(r)
  OBVIOUS
<1> HIDE DEF l, m
<1>3. a \in Seq(D) /\ Len(a) = n - 1 + 1 /\ \A i \in 1 .. n - 1 + 1 : a[i] = r[1 + i - 1]
  BY <1>1, <1>2, CutIs
<1>4. b \in Seq(D) /\ Len(b) = l - m + 1 /\ \A i \in 1 .. l - m + 1 : b[i] = r[m + i - 1]
  BY <1>1, <1>2, CutIs
<1> HIDE DEF a, b
<1>5. /\ a \in Seq(D) /\ Len(a) = n /\ \A i \in 1 .. n : a[i] = r[i]
      /\ b \in Seq(D) /\ Len(b) = l - n /\ \A i \in 1 .. l - n : b[i] = r[n + i]
  BY <1>1, <1>3, <1>4
<1>6. QED BY <1>5 DEF a, b, l, m

\* The first n of what is to come are moved to what is held back.
LEMMA PartsReceive ==
  ASSUME NEW w, NEW u, NEW r, NEW t, NEW n \in 0 .. Len(r), Parts(w, u, r, t)
  PROVE  Parts(w, u \o SubSeq(r, 1, n), SubSeq(r, n + 1, Len(r)), t)
<1> DEFINE D == Ota!Bytes
           a == SubSeq(r, 1, n)
           b == SubSeq(r, n + 1, Len(r))
           v == u \o a
<1>1. /\ w \in Seq(D) /\ u \in Seq(D) /\ r \in Seq(D)
      /\ Len(t) = Len(w) + Len(u) + Len(r)
      /\ \A i \in 1 .. Len(w) : w[i] = t[i]
      /\ \A i \in 1 .. Len(u) : u[i] = t[Len(w) + i]
      /\ \A i \in 1 .. Len(r) : r[i] = t[Len(w) + Len(u) + i]
  BY DEF Parts
<1> HIDE DEF D
<1>2. /\ a \in Seq(D) /\ Len(a) = n /\ \A i \in 1 .. n : a[i] = r[i]
      /\ b \in Seq(D) /\ Len(b) = Len(r) - n
      /\ \A i \in 1 .. Len(r) - n : b[i] = r[n + i]
  BY <1>1, SplitIs
<1> HIDE DEF a, b
<1>3. IsJoin(v, u, a, D)
  BY <1>1, <1>2, JoinIs
<1> HIDE DEF v
<1>4. /\ v \in Seq(D) /\ Len(v) = Len(u) + n /\ Len(u) \in Nat /\ n \in Nat
      /\ \A i \in 1 .. Len(u) : v[i] = u[i]
      /\ \A i \in 1 .. n : v[Len(u) + i] = a[i]
  BY <1>2, <1>3 DEF IsJoin
<1>5. Len(w) \in Nat /\ Len(r) \in Nat /\ n <= Len(r)
  BY <1>1
<1>6. Len(t) = Len(w) + Len(v) + Len(b)
  BY <1>1, <1>2, <1>4, <1>5
<1>7. ASSUME NEW i \in 1 .. Len(v) PROVE v[i] = t[Len(w) + i]
  <2>1. CASE i <= Len(u)
    <3>1. i \in 1 .. Len(u)
      BY <1>4, <2>1
    <3>2. QED BY <1>1, <1>4, <3>1
  <2>2. CASE ~(i <= Len(u))
    <3> DEFINE j == i - Len(u)
    <3>1. j \in 1 .. n /\ j \in 1 .. Len(r) /\ Len(u) + j = i /\ Len(w) + Len(u) + j = Len(w) + i
      BY <1>4, <1>5, <2>2
    <3> HIDE DEF j
    <3>2. v[i] = r[j]
      BY <1>2, <1>4, <3>1
    <3>3. QED BY <1>1, <3>1, <3>2
  <2>3. QED BY <2>1, <2>2
<1>8. ASSUME NEW i \in 1 .. Len(b) PROVE b[i] = t[Len(w) + Len(v) + i]
  <2> DEFINE j == n + i
  <2>1. /\ i \in 1 .. Len(r) - n /\ j \in 1 .. Len(r)
        /\ Len(w) + Len(u) + j = Len(w) + Len(v) + i
    BY <1>2, <1>4, <1>5
  <2>2. b[i] = r[j]
    BY <1>2, <2>1
  <2> HIDE DEF j
  <2>3. QED BY <1>1, <2>1, <2>2
<1>9. Parts(w, v, b, t)
  BY <1>1, <1>2, <1>4, <1>6, <1>7, <1>8 DEF Parts, D
<1>10. QED BY <1>9 DEF v, a, b

\* The first c of what is held back are written.
LEMMA PartsWrite ==
  ASSUME NEW w, NEW u, NEW r, NEW t, NEW c \in 0 .. Len(u), Parts(w, u, r, t)
  PROVE  Parts(w \o SubSeq(u, 1, c), SubSeq(u, c + 1, Len(u)), r, t)
<1> DEFINE D == Ota!Bytes
           a == SubSeq(u, 1, c)
           b == SubSeq(u, c + 1, Len(u))
           v == w \o a
<1>1. /\ w \in Seq(D) /\ u \in Seq(D) /\ r \in Seq(D)
      /\ Len(t) = Len(w) + Len(u) + Len(r)
      /\ \A i \in 1 .. Len(w) : w[i] = t[i]
      /\ \A i \in 1 .. Len(u) : u[i] = t[Len(w) + i]
      /\ \A i \in 1 .. Len(r) : r[i] = t[Len(w) + Len(u) + i]
  BY DEF Parts
<1> HIDE DEF D
<1>2. /\ a \in Seq(D) /\ Len(a) = c /\ \A i \in 1 .. c : a[i] = u[i]
      /\ b \in Seq(D) /\ Len(b) = Len(u) - c
      /\ \A i \in 1 .. Len(u) - c : b[i] = u[c + i]
  BY <1>1, SplitIs
<1> HIDE DEF a, b
<1>3. IsJoin(v, w, a, D)
  BY <1>1, <1>2, JoinIs
<1> HIDE DEF v
<1>4. /\ v \in Seq(D) /\ Len(v) = Len(w) + c /\ Len(w) \in Nat /\ c \in Nat
      /\ \A i \in 1 .. Len(w) : v[i] = w[i]
      /\ \A i \in 1 .. c : v[Len(w) + i] = a[i]
  BY <1>2, <1>3 DEF IsJoin
<1>5. Len(u) \in Nat /\ Len(r) \in Nat /\ c <= Len(u)
  BY <1>1
<1>6. Len(t) = Len(v) + Len(b) + Len(r) /\ Len(v) + Len(b) = Len(w) + Len(u)
  BY <1>1, <1>2, <1>4, <1>5
<1>7. ASSUME NEW i \in 1 .. Len(v) PROVE v[i] = t[i]
  <2>1. CASE i <= Len(w)
    <3>1. i \in 1 .. Len(w)
      BY <1>4, <2>1
    <3>2. QED BY <1>1, <1>4, <3>1
  <2>2. CASE ~(i <= Len(w))
    <3> DEFINE j == i - Len(w)
    <3>1. j \in 1 .. c /\ j \in 1 .. Len(u) /\ Len(w) + j = i
      BY <1>4, <1>5, <2>2
    <3> HIDE DEF j
    <3>2. v[i] = u[j]
      BY <1>2, <1>4, <3>1
    <3>3. QED BY <1>1, <3>1, <3>2
  <2>3. QED BY <2>1, <2>2
<1>8. ASSUME NEW i \in 1 .. Len(b) PROVE b[i] = t[Len(v) + i]
  <2> DEFINE j == c + i
  <2>1. i \in 1 .. Len(u) - c /\ j \in 1 .. Len(u) /\ Len(w) + j = Len(v) + i
    BY <1>2, <1>4, <1>5
  <2>2. b[i] = u[j]
    BY <1>2, <2>1
  <2> HIDE DEF j
  <2>3. QED BY <1>1, <2>1, <2>2
<1>9. \A i \in 1 .. Len(r) : r[i] = t[Len(v) + Len(b) + i]
  BY <1>1, <1>6
<1>10. Parts(v, b, r, t)
  BY <1>1, <1>2, <1>4, <1>6, <1>7, <1>8, <1>9 DEF Parts, D
<1>11. QED BY <1>10 DEF v, a, b

LEMMA NoBoundaryIs ==
  ASSUME NEW q \in Seq(Ota!Bytes)
  PROVE  /\ Ota!Places(Boundary, q, 1) = {i \in 1 .. Len(q) - Len(Boundary) + 1 : At(Boundary, q, i)}
         /\ Ota!Places(Boundary, q, 1) = {} <=> NoBoundary(q)
<1> DEFINE D == Ota!Bytes
           B == Boundary
<1>1. B \in Seq(D) /\ Len(B) > 0 /\ 1 \in Nat \ {0}
  BY ClosingIs
<1>2. q \in Seq(D)
  OBVIOUS
<1> HIDE DEF D, B
<1>3. Ota!Places(B, q, 1) = {i \in 1 .. Len(q) - Len(B) + 1 : At(B, q, i)}
  BY <1>1, <1>2, PlacesAre
<1>4. QED BY <1>3 DEF NoBoundary, B

\* A part of what has no boundary has none.
LEMMA NoBoundaryInPart ==
  ASSUME NEW q \in Seq(Ota!Bytes), NEW c \in 0 .. Len(q), NEW v, Len(v) = Len(q) - c,
         \A i \in 1 .. Len(v) : v[i] = q[c + i], NoBoundary(q)
  PROVE  NoBoundary(v)
<1> DEFINE n == Len(Boundary)
<1>1. n \in Nat \ {0} /\ Len(q) \in Nat /\ c \in Nat
  BY ClosingIs
<1> SUFFICES ASSUME NEW i \in 1 .. Len(v) - n + 1, At(Boundary, v, i) PROVE FALSE
  BY DEF NoBoundary
<1> HIDE DEF n
<1> DEFINE k == c + i
<1>2. k \in 1 .. Len(q) - n + 1
  BY <1>1
<1>3. ASSUME NEW j \in 1 .. n PROVE q[k + j - 1] = Boundary[j]
  <2> DEFINE e == i + j - 1
  <2>1. e \in 1 .. Len(v) /\ c + e = k + j - 1
    BY <1>1
  <2>2. v[e] = Boundary[j]
    BY DEF At, n
  <2> HIDE DEF e, k
  <2>3. QED BY <2>1, <2>2
<1>4. At(Boundary, q, k)
  BY <1>3 DEF At, n
<1>5. QED BY <1>2, <1>4 DEF NoBoundary, n

LEMMA PartsBegins ==
  ASSUME image \in Images, NEW w, NEW u, NEW r, Parts(w, u, r, Content), Len(w) <= Len(image)
  PROVE  Begins(w)
<1> DEFINE t == Content
           m == Len(image)
<1>1. m \in Nat /\ \A i \in 1 .. m : t[i] = image[i]
  BY ContentIs
<1>2. w \in Seq(Ota!Bytes) /\ \A i \in 1 .. Len(w) : w[i] = t[i]
  BY DEF Parts
<1>3. Len(w) \in Nat
  BY <1>2
<1> HIDE DEF t
<1>4. \A i \in 1 .. Len(w) : w[i] = image[i]
  BY <1>1, <1>2, <1>3
<1>5. QED BY <1>4 DEF Begins

\* Written without the bytes held back, what is written is of the image.
LEMMA KeepOta ==
  ASSUME Ota!TypeOK, Begins(written), NEW u, Parts(written, u, rest', Content),
         Ota!Keep(u, "stream"), image' = image
  PROVE  /\ written' \in Seq(Ota!Bytes) /\ buf' \in Seq(Ota!Bytes) /\ Len(buf') <= Holdback
         /\ Begins(written)' /\ phase' \in {"stream", "failed"}
         /\ phase' = "stream" => Parts(written, buf, rest, Content)'
         /\ NoBoundary(u) => NoBoundary(buf')
<1> DEFINE D == Ota!Bytes
           l == Len(u)
           c == l - Holdback
           a == SubSeq(u, 1, c)
           b == SubSeq(u, c + 1, l)
<1>1. /\ image \in Images /\ written \in Seq(D) /\ u \in Seq(D) /\ rest' \in Seq(D)
      /\ Holdback \in Nat /\ Len(Boundary) \in Nat /\ Holdback >= Len(Boundary) + 6
      /\ Content' = Content
  BY OtaAssumptions, ClosingIs
  DEF Ota!TypeOK, Ota!HoldbackAssumption, Parts, Content, Ota!Closing, Ota!CrLf
<1>2. CASE ~(l > Holdback)
  <2>1. buf' = u /\ phase' = "stream" /\ written' = written
    BY <1>2 DEF Ota!Keep
  <2>2. l <= Holdback
    BY <1>1, <1>2
  <2>3. Parts(written, buf, rest, Content)'
    BY <1>1, <2>1
  <2>4. QED BY <1>1, <2>1, <2>2, <2>3 DEF Begins
<1>3. CASE l > Holdback
  <2>1. c \in 0 .. Len(u) /\ l - Holdback + 1 = c + 1 /\ l - c = Holdback
    BY <1>1, <1>3
  <2>2. Ota!Write(Ota!AllBut(u, Holdback), "stream") /\ buf' = Ota!LastOf(u, Holdback)
    BY <1>3 DEF Ota!Keep
  <2>3. Ota!AllBut(u, Holdback) = a /\ Ota!LastOf(u, Holdback) = b
    BY <2>1 DEF Ota!AllBut, Ota!LastOf
  <2>4. /\ buf' = b
        /\ \/ written' = written \o a /\ phase' = "stream"
           \/ phase' = "failed" /\ written' = written
    BY <2>2, <2>3 DEF Ota!Write
  <2> HIDE DEF c
  <2>5. /\ b \in Seq(D) /\ Len(b) = l - c /\ \A i \in 1 .. l - c : b[i] = u[c + i]
    <3> HIDE DEF D
    <3>1. QED BY <1>1, <2>1, SplitIs
  <2>6. Parts(written \o a, b, rest', Content)
    BY <2>1, PartsWrite
  <2> HIDE DEF a, b
  <2> DEFINE v == written \o a
  <2> HIDE DEF v
  <2>7. Len(b) = Holdback /\ Parts(v, b, rest', Content)
    BY <2>1, <2>5, <2>6 DEF v
  <2>8. Len(v) <= Len(image)
    <3>1. Len(Content) = Len(image) + Len(Boundary) + 6 /\ Len(image) \in Nat
      BY <1>1, ContentIs
    <3>2. Len(Content) = Len(v) + Len(b) + Len(rest') /\ v \in Seq(D)
      BY <2>7 DEF Parts
    <3>3. Len(v) \in Nat /\ Len(rest') \in Nat
      BY <1>1, <3>2
    <3>4. QED BY <1>1, <2>7, <3>1, <3>2, <3>3
  <2>9. Begins(v) /\ v \in Seq(D)
    BY <1>1, <2>7, <2>8, PartsBegins DEF Parts
  <2>10. NoBoundary(u) => NoBoundary(b)
    BY <1>1, <2>1, <2>5, NoBoundaryInPart
  <2>11. CASE written' = v /\ phase' = "stream"
    <3>1. Parts(written, buf, rest, Content)'
      BY <1>1, <2>4, <2>7, <2>11
    <3>2. Begins(written)'
      BY <2>9, <2>11 DEF Begins
    <3>3. QED BY <1>1, <2>4, <2>5, <2>7, <2>9, <2>10, <2>11, <3>1, <3>2
  <2>12. CASE phase' = "failed" /\ written' = written
    <3>1. Begins(written)'
      BY <2>12 DEF Begins
    <3>2. QED BY <1>1, <2>4, <2>5, <2>7, <2>10, <2>12, <3>1
  <2>13. QED BY <2>4, <2>11, <2>12 DEF v
<1>4. QED BY <1>2, <1>3

LEMMA ReceiveIs ==
  ASSUME Ota!TypeOK, NEW n \in 1 .. MaxRecv, Ota!Receive(n)
  PROVE  LET r == Ota!Received(n)
         IN  /\ n \in 0 .. Len(rest) /\ n \in Nat \ {0}
             /\ r \in Seq(Ota!Bytes) /\ Len(r) = n /\ \A i \in 1 .. n : r[i] = rest[i]
             /\ rest' \in Seq(Ota!Bytes) /\ Len(rest') = Len(rest) - n
             /\ \A i \in 1 .. Len(rest) - n : rest'[i] = rest[n + i]
             /\ r = SubSeq(rest, 1, n) /\ rest' = SubSeq(rest, n + 1, Len(rest))
<1> DEFINE D == Ota!Bytes
           r == Ota!Received(n)
<1>1. rest \in Seq(D) /\ n \in 0 .. Len(rest) /\ n \in Nat \ {0}
  BY OtaAssumptions DEF Ota!TypeOK, Ota!Receive, Ota!RecvAssumption
<1>2. r = SubSeq(rest, 1, n) /\ rest' = SubSeq(rest, n + 1, Len(rest))
  BY DEF Ota!Receive, Ota!Received
<1> HIDE DEF D, r
<1>3. /\ r \in Seq(D) /\ Len(r) = n /\ \A i \in 1 .. n : r[i] = rest[i]
      /\ rest' \in Seq(D) /\ Len(rest') = Len(rest) - n
      /\ \A i \in 1 .. Len(rest) - n : rest'[i] = rest[n + i]
  BY <1>1, <1>2, SplitIs
<1>4. QED BY <1>1, <1>2, <1>3 DEF D, r

LEMMA InitOtaInv == ASSUME Ota!Init PROVE OtaInv
<1>1. image \in Images /\ rest = Ota!Body(image)
  BY DEF Ota!Init
<1>2. rest \in Seq(Ota!Bytes) /\ Len(rest) \in Nat /\ image \in Seq(Ota!Bytes)
  BY <1>1, BodyIs, ContentIs
<1>3. Scanning
  <2>1. IsRest(rest, Ota!Body(image), 0)
    <3> DEFINE w == Ota!Body(image)
    <3>1. rest = w
      BY <1>1
    <3> HIDE DEF w
    <3>2. IsRest(rest, w, 0)
      BY <1>2, <3>1 DEF IsRest
    <3>3. QED BY <3>2 DEF w
  <2>2. QED BY <2>1 DEF Ota!Init, Scanning
<1>4. Len(<<>>) <= Holdback /\ <<>> \in Seq(Ota!Bytes)
  BY OtaAssumptions DEF Ota!HoldbackAssumption
<1>5. Ota!TypeOK
  BY <1>1, <1>2, <1>4 DEF Ota!Init, Ota!TypeOK
<1>6. Begins(<<>>)
  BY <1>2 DEF Begins
<1>7. QED
  BY <1>3, <1>5, <1>6 DEF Ota!Init, OtaInv, Ota!CompleteAtTheEnd

LEMMA ScanDiscardOtaInv ==
  ASSUME OtaInv, NEW n \in 1 .. MaxRecv, Ota!ScanDiscard(n) PROVE OtaInv'
<1>1. /\ phase = "scan" /\ Ota!Receive(n) /\ buf' = <<>>
      /\ UNCHANGED <<image, phase, written, boots, found>>
  BY DEF Ota!ScanDiscard
<1>2. /\ n \in 0 .. Len(rest) /\ n \in Nat \ {0} /\ rest' \in Seq(Ota!Bytes)
      /\ Len(rest') = Len(rest) - n /\ \A i \in 1 .. Len(rest) - n : rest'[i] = rest[n + i]
  BY <1>1, ReceiveIs DEF OtaInv
<1>3. Scanning
  BY <1>1 DEF OtaInv
<1> DEFINE w == Ota!Body(image)
<1>4. PICK k \in Nat : IsRest(rest, w, k)
  BY <1>3 DEF Scanning
<1>5. Ota!Body(image)' = w
  BY <1>1 DEF Ota!Body
<1> HIDE DEF w
<1>6. IsRest(rest', w, k + n)
  <2>1. /\ rest \in Seq(Ota!Bytes) /\ k \in 0 .. Len(w) /\ Len(rest) = Len(w) - k
        /\ \A i \in 1 .. Len(rest) : rest[i] = w[k + i]
    BY <1>4 DEF IsRest
  <2>2. Len(rest) \in Nat
    BY <2>1
  <2>3. ASSUME NEW i \in 1 .. Len(rest') PROVE rest'[i] = w[(k + n) + i]
    <3>1. i \in 1 .. Len(rest) - n /\ n + i \in 1 .. Len(rest) /\ k + (n + i) = (k + n) + i
      BY <1>2, <2>2
    <3>2. QED BY <1>2, <2>1, <3>1
  <2>4. k + n \in 0 .. Len(w) /\ Len(rest') = Len(w) - (k + n)
    BY <1>2, <2>1, <2>2
  <2>5. QED BY <1>2, <2>3, <2>4 DEF IsRest
<1>7. Scanning'
  <2>1. k + n \in Nat
    BY <1>2
  <2>2. QED BY <1>1, <1>3, <1>5, <1>6, <2>1 DEF Scanning
<1>8. Len(<<>>) <= Holdback /\ <<>> \in Seq(Ota!Bytes)
  BY OtaAssumptions DEF Ota!HoldbackAssumption
<1>9. Ota!TypeOK'
  BY <1>1, <1>2, <1>8 DEF OtaInv, Ota!TypeOK
<1>10. QED
  BY <1>1, <1>7, <1>9 DEF OtaInv, Begins, Ota!CompleteAtTheEnd

LEMMA ScanFoundOtaInv ==
  ASSUME OtaInv, NEW n \in 1 .. MaxRecv, Ota!ScanFound(n) PROVE OtaInv'
<1> DEFINE D == Ota!Bytes
           w == Ota!Body(image)
           t == Content
           r == Ota!Received(n)
           g == Ota!First(Ota!DataAt(r))
           at == g + 4
           data == SubSeq(r, at, n)
           b == Len(Boundary)
<1>1. /\ phase = "scan" /\ Ota!Receive(n) /\ Ota!Found(r)
      /\ UNCHANGED <<image, boots>>
  BY DEF Ota!ScanFound
<1>2. /\ Ota!Keep(data, "stream")
      /\ found' = IF Ota!Places(Boundary, data, 1) = {} THEN "image" ELSE "all"
  <2>1. Len(Ota!Separator) = 4
    BY SeparatorIs
  <2>2. QED BY <2>1 DEF Ota!ScanFound
<1>3. image \in Images /\ Ota!TypeOK /\ Begins(written) /\ Scanning
  BY <1>1 DEF OtaInv, Ota!TypeOK
<1>4. written = <<>> /\ phase # "end" /\ ~boots
  BY <1>1, <1>3 DEF Scanning, OtaInv
<1> HIDE DEF D, w, r
<1>5. /\ n \in 0 .. Len(rest) /\ n \in Nat \ {0}
      /\ r \in Seq(D) /\ Len(r) = n /\ \A i \in 1 .. n : r[i] = rest[i]
      /\ rest' \in Seq(D) /\ Len(rest') = Len(rest) - n
      /\ \A i \in 1 .. Len(rest) - n : rest'[i] = rest[n + i]
  BY <1>1, <1>3, ReceiveIs DEF D, r
<1>6. PICK k \in Nat : IsRest(rest, w, k)
  BY <1>3 DEF Scanning, w
<1>7. /\ k \in 0 .. Len(w) /\ Len(rest) = Len(w) - k
      /\ Len(rest) \in Nat /\ Len(w) \in Nat
      /\ \A i \in 1 .. Len(rest) : rest[i] = w[k + i]
  <2>1. w \in Seq(Ota!Bytes) /\ rest \in Seq(Ota!Bytes)
    BY <1>3, <1>6, BodyIs DEF IsRest, w
  <2>2. QED BY <1>6, <2>1 DEF IsRest
<1>8. k + Len(r) <= Len(w) /\ \A i \in 1 .. Len(r) : r[i] = w[k + i]
  <2>1. k + n <= Len(w) /\ \A i \in 1 .. n : i \in 1 .. Len(rest)
    BY <1>5, <1>7
  <2>2. QED BY <1>5, <1>7, <2>1
<1> HIDE DEF g
<1>9. g \in Nat \ {0} /\ g + 3 <= Len(r) /\ k + g = b + 4
  BY <1>1, <1>3, <1>5, <1>8, FoundAt DEF D, w, g
<1>10. /\ Len(w) = b + 7 + Len(t) /\ Len(t) \in Nat /\ b \in Nat
       /\ \A i \in 1 .. Len(t) : w[b + 7 + i] = t[i]
  BY <1>3, BodyIs, ClosingIs DEF w
<1>11. at \in Nat \ {0} /\ at <= n + 1 /\ n <= Len(r) /\ k + at = b + 8 /\ n \in Nat
  BY <1>5, <1>9, <1>10
<1> HIDE DEF at, b, t
<1>12. /\ data \in Seq(D) /\ Len(data) = n - at + 1
       /\ \A i \in 1 .. n - at + 1 : data[i] = r[at + i - 1]
  BY <1>5, <1>11, CutIs
<1> HIDE DEF data
<1>13. Parts(<<>>, data, rest', t)
  <2>0. /\ Len(rest) = Len(w) - k /\ Len(w) = b + 7 + Len(t) /\ Len(rest') = Len(rest) - n
        /\ Len(data) = n - at + 1 /\ k + at = b + 8 /\ at <= n + 1 /\ n <= Len(rest)
        /\ at \in Nat /\ n \in Nat /\ b \in Nat /\ Len(t) \in Nat /\ Len(rest) \in Nat
        /\ Len(w) \in Nat /\ Len(data) \in Nat /\ Len(rest') \in Nat
    <3>1. Len(data) \in Nat /\ Len(rest') \in Nat
      BY <1>5, <1>12
    <3>2. n <= Len(rest)
      BY <1>5
    <3>3. QED BY <1>5, <1>7, <1>10, <1>11, <1>12, <3>1, <3>2
  <2>1. Len(data) + Len(rest') = Len(t)
    BY <2>0
  <2>2. ASSUME NEW i \in 1 .. Len(data) PROVE data[i] = t[i]
    <3> DEFINE j == at + i - 1
    <3>1. /\ i \in 1 .. n - at + 1 /\ j \in 1 .. n /\ k + j = b + 7 + i /\ i \in 1 .. Len(t)
      BY <1>11, <2>0, <2>1
    <3>2. data[i] = r[j]
      BY <1>12, <3>1
    <3> HIDE DEF j
    <3>3. QED BY <1>5, <1>8, <1>10, <3>1, <3>2
  <2>3. ASSUME NEW i \in 1 .. Len(rest') PROVE rest'[i] = t[Len(data) + i]
    <3> DEFINE j == n + i
               e == Len(data) + i
    <3>1. /\ i \in 1 .. Len(rest) - n /\ j \in 1 .. Len(rest) /\ k + j = b + 7 + e
          /\ e \in 1 .. Len(t)
      BY <2>0, <2>1
    <3>2. rest'[i] = rest[j]
      BY <1>5, <3>1
    <3> HIDE DEF j, e
    <3>3. rest'[i] = t[e]
      BY <1>7, <1>10, <3>1, <3>2
    <3>4. QED BY <3>3 DEF e
  <2>4. /\ <<>> \in Seq(Ota!Bytes) /\ Len(<<>>) = 0 /\ Len(data) \in Nat /\ Len(rest') \in Nat
    BY <1>5, <1>12
  <2> DEFINE o == <<>>
  <2>5. o \in Seq(Ota!Bytes) /\ Len(o) = 0
    OBVIOUS
  <2> HIDE DEF o
  <2>6. /\ Len(t) = Len(o) + Len(data) + Len(rest') /\ 1 .. Len(o) = {}
        /\ Len(o) + Len(data) = Len(data)
    BY <2>1, <2>4, <2>5
  <2>7. \A i \in 1 .. Len(data) : Len(o) + i = i
    BY <2>5
  <2>8. Parts(o, data, rest', t)
    BY <1>5, <1>12, <2>2, <2>3, <2>5, <2>6, <2>7 DEF Parts, D
  <2>9. QED BY <2>8 DEF o
<1>14. /\ written' \in Seq(D) /\ buf' \in Seq(D) /\ Len(buf') <= Holdback
       /\ Begins(written)' /\ phase' \in {"stream", "failed"}
       /\ phase' = "stream" => Parts(written, buf, rest, Content)'
       /\ NoBoundary(data) => NoBoundary(buf')
  BY <1>1, <1>2, <1>3, <1>4, <1>13, KeepOta DEF t, D
<1>15. found' \in {"image", "all"} /\ (found' = "image" => NoBoundary(data))
  BY <1>2, <1>12, NoBoundaryIs DEF D
<1>16. Ota!TypeOK'
  BY <1>1, <1>3, <1>5, <1>14, <1>15 DEF Ota!TypeOK, D
<1>17. phase' = "stream" => Streaming'
  BY <1>14, <1>15 DEF Streaming, NoBoundary
<1>18. QED
  BY <1>1, <1>4, <1>14, <1>16, <1>17 DEF OtaInv, Ota!CompleteAtTheEnd

LEMMA StreamOnOtaInv ==
  ASSUME OtaInv, NEW n \in 1 .. MaxRecv, Ota!StreamOn(n) PROVE OtaInv'
<1> DEFINE u == Ota!Searched(n)
<1>1. /\ phase = "stream" /\ Ota!Receive(n) /\ Ota!Places(Boundary, u, 1) = {}
      /\ Ota!Keep(u, "stream") /\ UNCHANGED <<image, boots, found>>
  BY DEF Ota!StreamOn
<1>2. Ota!TypeOK /\ Begins(written) /\ Streaming /\ ~boots /\ image \in Images
  BY <1>1 DEF OtaInv, Ota!TypeOK
<1>3. Parts(written, u, rest', Content)
  <2> DEFINE t == Content
  <2>1. /\ n \in 0 .. Len(rest) /\ Ota!Received(n) = SubSeq(rest, 1, n)
        /\ rest' = SubSeq(rest, n + 1, Len(rest))
    BY <1>1, <1>2, ReceiveIs
  <2>2. Parts(written, buf, rest, t)
    BY <1>2 DEF Streaming
  <2> HIDE DEF t
  <2>3. Parts(written, buf \o SubSeq(rest, 1, n), SubSeq(rest, n + 1, Len(rest)), t)
    BY <2>1, <2>2, PartsReceive
  <2>4. QED BY <2>1, <2>3 DEF Ota!Searched, t
<1> HIDE DEF u
<1>4. NoBoundary(u)
  <2>1. u \in Seq(Ota!Bytes)
    BY <1>3 DEF Parts
  <2>2. QED BY <1>1, <2>1, NoBoundaryIs
<1>5. /\ written' \in Seq(Ota!Bytes) /\ buf' \in Seq(Ota!Bytes) /\ Len(buf') <= Holdback
      /\ Begins(written)' /\ phase' \in {"stream", "failed"}
      /\ phase' = "stream" => Parts(written, buf, rest, Content)'
      /\ NoBoundary(buf')
  BY <1>1, <1>2, <1>3, <1>4, KeepOta
<1>6. Ota!TypeOK'
  BY <1>1, <1>2, <1>3, <1>5 DEF Ota!TypeOK, Parts
<1>7. phase' = "stream" => Streaming'
  BY <1>5 DEF Streaming, NoBoundary
<1>8. QED
  BY <1>1, <1>2, <1>5, <1>6, <1>7 DEF OtaInv, Ota!CompleteAtTheEnd

\* The end boundary is found where the closing has it: the image ends two bytes
\* before.
LEMMA EndFound ==
  ASSUME image \in Images, NEW w, NEW u, NEW r, Parts(w, u, r, Content),
         Len(w) <= Len(image), Ota!Places(Boundary, u, 1) # {}
  PROVE  LET at == Ota!First(Ota!Places(Boundary, u, 1))
         IN  at - 3 \in 0 .. Len(u) /\ Len(w) + (at - 3) = Len(image)
<1> DEFINE t == Content
           n == Len(Boundary)
           m == Len(image)
           P == Ota!Places(Boundary, u, 1)
           at == Ota!First(P)
           l == Len(w)
           z == m + 3 - l
<1>1. /\ w \in Seq(Ota!Bytes) /\ u \in Seq(Ota!Bytes) /\ r \in Seq(Ota!Bytes)
      /\ Len(t) = l + Len(u) + Len(r) /\ \A i \in 1 .. Len(u) : u[i] = t[l + i]
  BY DEF Parts
<1>2. P = {i \in 1 .. Len(u) - n + 1 : At(Boundary, u, i)}
  BY <1>1, NoBoundaryIs
<1>3. at \in P /\ \A j \in P : at <= j
  <2>1. P \subseteq Nat /\ P # {}
    BY <1>2
  <2> HIDE DEF P
  <2>2. QED BY <2>1, FirstIs
<1>4. /\ n \in Nat \ {0} /\ m \in Nat /\ Len(t) = m + n + 6
      /\ At(Boundary, t, m + 3)
      /\ \A i \in 1 .. Len(t) - n + 1 : At(Boundary, t, i) => i >= m + 3
  BY ContentIs, ClosingIs, OnlyInClosing
<1>5. l \in Nat /\ Len(u) \in Nat /\ Len(r) \in Nat /\ l <= m
  BY <1>1
<1> HIDE DEF at, P, t, l, m, n
<1>6. at \in 1 .. Len(u) - n + 1 /\ At(Boundary, u, at)
  BY <1>2, <1>3
<1>7. l + at >= m + 3
  <2> DEFINE k == l + at
  <2>1. k \in 1 .. Len(t) - n + 1
    BY <1>1, <1>4, <1>5, <1>6
  <2>2. ASSUME NEW j \in 1 .. n PROVE t[k + j - 1] = Boundary[j]
    <3> DEFINE e == at + j - 1
    <3>1. e \in 1 .. Len(u) /\ l + e = k + j - 1
      BY <1>4, <1>5, <1>6
    <3>2. u[e] = Boundary[j]
      BY <1>6 DEF At, n
    <3> HIDE DEF e, k
    <3>3. QED BY <1>1, <3>1, <3>2
  <2>3. At(Boundary, t, k)
    BY <2>2 DEF At, n
  <2>4. QED BY <1>4, <2>1, <2>3
<1>8. z \in 1 .. Len(u) - n + 1 /\ z <= at
  BY <1>4, <1>5, <1>6, <1>7
<1>9. At(Boundary, u, z)
  <2>1. ASSUME NEW j \in 1 .. n PROVE u[z + j - 1] = Boundary[j]
    <3> DEFINE e == z + j - 1
    <3>1. e \in 1 .. Len(u) /\ l + e = (m + 3) + j - 1
      BY <1>4, <1>5, <1>8
    <3>2. t[(m + 3) + j - 1] = Boundary[j]
      BY <1>4 DEF At, n
    <3> HIDE DEF e, z
    <3>3. u[e] = Boundary[j]
      BY <1>1, <3>1, <3>2
    <3>4. QED BY <3>3 DEF e
  <2>2. QED BY <2>1 DEF At, n
<1>10. at <= z
  BY <1>2, <1>3, <1>8, <1>9
<1>11. at - 3 \in 0 .. Len(u) /\ l + (at - 3) = m
  BY <1>4, <1>5, <1>6, <1>8, <1>10
<1>12. QED BY <1>11 DEF at, P, l, m

LEMMA StreamEndOtaInv ==
  ASSUME OtaInv, NEW n \in 1 .. MaxRecv, Ota!StreamEnd(n) PROVE OtaInv'
<1> DEFINE u == Ota!Searched(n)
           at == Ota!First(Ota!Places(Boundary, u, 1))
           c == at - 3
           a == SubSeq(u, 1, c)
           b == SubSeq(u, c + 1, Len(u))
           t == Content
<1>1. /\ phase = "stream" /\ Ota!Receive(n) /\ Ota!Places(Boundary, u, 1) # {}
      /\ Ota!Write(a, "end") /\ buf' = <<>> /\ UNCHANGED <<image, boots, found>>
  BY DEF Ota!StreamEnd
<1>2. Ota!TypeOK /\ Begins(written) /\ Streaming /\ ~boots /\ image \in Images
  BY <1>1 DEF OtaInv, Ota!TypeOK
<1>3. Parts(written, u, rest', t)
  <2>1. /\ n \in 0 .. Len(rest) /\ Ota!Received(n) = SubSeq(rest, 1, n)
        /\ rest' = SubSeq(rest, n + 1, Len(rest))
    BY <1>1, <1>2, ReceiveIs
  <2>2. Parts(written, buf, rest, t)
    BY <1>2 DEF Streaming
  <2> HIDE DEF t
  <2>3. Parts(written, buf \o SubSeq(rest, 1, n), SubSeq(rest, n + 1, Len(rest)), t)
    BY <2>1, <2>2, PartsReceive
  <2>4. QED BY <2>1, <2>3 DEF Ota!Searched
<1> HIDE DEF u
<1>4. c \in 0 .. Len(u) /\ Len(written) + c = Len(image)
  BY <1>1, <1>2, <1>3, EndFound DEF Begins
<1> HIDE DEF c, t
<1>5. Parts(written \o a, b, rest', t)
  BY <1>3, <1>4, PartsWrite
<1>6. written \in Seq(Ota!Bytes) /\ u \in Seq(Ota!Bytes) /\ rest' \in Seq(Ota!Bytes)
  BY <1>3 DEF Parts
<1> DEFINE v == written \o a
<1>7. v \in Seq(Ota!Bytes) /\ Len(v) = Len(image)
  <2> DEFINE D == Ota!Bytes
  <2>1. written \in Seq(D) /\ u \in Seq(D)
    BY <1>6
  <2> HIDE DEF D
  <2>2. a \in Seq(D) /\ Len(a) = c
    BY <1>4, <2>1, SplitIs
  <2> HIDE DEF a
  <2>3. IsJoin(v, written, a, D)
    BY <2>1, <2>2, JoinIs
  <2> HIDE DEF v
  <2>4. QED BY <1>4, <2>2, <2>3 DEF IsJoin, D
<1> HIDE DEF a, b, v
<1>8. Begins(v)
  <2>1. Parts(v, b, rest', t) /\ Len(v) <= Len(image)
    <3>1. Len(v) \in Nat
      BY <1>7
    <3>2. QED BY <1>5, <1>7, <3>1 DEF v
  <2>2. QED BY <1>2, <2>1, PartsBegins DEF t
<1>9. v = image
  <2>1. image \in Seq(Ota!Bytes)
    BY <1>2, ContentIs
  <2>2. QED BY <1>7, <1>8, <2>1, SeqEqual DEF Begins
<1>10. \/ written' = v /\ phase' = "end"
       \/ phase' = "failed" /\ written' = written
  BY <1>1 DEF Ota!Write, v
<1>11. Len(<<>>) <= Holdback /\ <<>> \in Seq(Ota!Bytes)
  BY OtaAssumptions DEF Ota!HoldbackAssumption
<1>12. Ota!TypeOK'
  BY <1>1, <1>2, <1>6, <1>7, <1>10, <1>11 DEF Ota!TypeOK
<1>13. Begins(written)'
  BY <1>1, <1>2, <1>8, <1>10 DEF Begins
<1>14. QED
  BY <1>1, <1>2, <1>9, <1>10, <1>12, <1>13 DEF OtaInv, Ota!CompleteAtTheEnd

\* The body has ended with no end boundary found: when the receive that found the
\* image did not bring its end, the boundary would be in what is held back.
LEMMA RecvEndsOtaInv == ASSUME OtaInv, Ota!RecvEnds PROVE OtaInv'
<1>1. /\ phase \in {"scan", "stream"} /\ phase' = "end"
      /\ UNCHANGED <<image, rest, buf, written, boots, found>>
  BY DEF Ota!RecvEnds
<1>2. Ota!TypeOK /\ Begins(written) /\ ~boots /\ image \in Images
  BY <1>1 DEF OtaInv, Ota!TypeOK
<1>3. ASSUME rest = <<>>, found = "image" PROVE FALSE
  <2> DEFINE t == Content
             n == Len(Boundary)
             m == Len(image)
             l == Len(written)
             z == m + 3 - l
  <2>1. Parts(written, buf, rest, t) /\ NoBoundary(buf)
    BY <1>1, <1>3 DEF OtaInv, Scanning, Streaming
  <2>2. /\ n \in Nat \ {0} /\ m \in Nat /\ Len(t) = m + n + 6 /\ At(Boundary, t, m + 3)
    BY <1>2, ContentIs, ClosingIs, OnlyInClosing
  <2>3. /\ l \in Nat /\ l <= m /\ Len(buf) \in Nat /\ Len(t) = l + Len(buf)
        /\ \A i \in 1 .. Len(buf) : buf[i] = t[l + i]
    <3>1. /\ Len(t) = l + Len(buf) + Len(rest) /\ written \in Seq(Ota!Bytes)
          /\ buf \in Seq(Ota!Bytes) /\ \A i \in 1 .. Len(buf) : buf[i] = t[l + i]
      BY <2>1 DEF Parts
    <3>2. Len(rest) = 0 /\ l \in Nat /\ Len(buf) \in Nat /\ l <= m
      BY <1>2, <1>3, <3>1 DEF Begins
    <3> HIDE DEF t, l
    <3>3. QED BY <3>1, <3>2
  <2> HIDE DEF t, l, m, n
  <2>4. z \in 1 .. Len(buf) - n + 1
    BY <2>2, <2>3
  <2>5. ASSUME NEW j \in 1 .. n PROVE buf[z + j - 1] = Boundary[j]
    <3> DEFINE e == z + j - 1
    <3>1. e \in 1 .. Len(buf) /\ l + e = (m + 3) + j - 1
      BY <2>2, <2>3, <2>4
    <3>2. t[(m + 3) + j - 1] = Boundary[j]
      BY <2>2 DEF At, n
    <3> HIDE DEF e, z
    <3>3. buf[e] = Boundary[j]
      BY <2>3, <3>1, <3>2
    <3>4. QED BY <3>3 DEF e
  <2>6. At(Boundary, buf, z)
    BY <2>5 DEF At, n
  <2>7. QED BY <2>1, <2>4, <2>6 DEF NoBoundary, n
<1>4. QED
  BY <1>1, <1>2, <1>3 DEF OtaInv, Ota!TypeOK, Begins, Ota!CompleteAtTheEnd

\* A beginning of the image that has the image at its beginning is the image.
LEMMA EndOtaInv == ASSUME OtaInv, Ota!End PROVE OtaInv'
<1>1. phase = "end" /\ UNCHANGED <<image, rest, buf, written, found>>
  BY DEF Ota!End
<1>2. \/ phase' = "finished" /\ boots' = TRUE /\ Ota!IsPrefix(image, written)
      \/ phase' = "failed" /\ boots' = boots
  BY DEF Ota!End, Ota!Accepted
<1>3. Ota!TypeOK /\ Begins(written) /\ ~boots /\ image \in Images
  BY <1>1 DEF OtaInv, Ota!TypeOK
<1>4. image \in Seq(Ota!Bytes) /\ written \in Seq(Ota!Bytes)
  BY <1>3, ContentIs DEF Ota!TypeOK
<1>5. ASSUME Ota!IsPrefix(image, written) PROVE written = image
  <2>1. Len(image) <= Len(written) /\ Len(written) <= Len(image)
    BY <1>3, <1>4, <1>5, OtaPrefixIs DEF Begins
  <2>2. Len(image) \in Nat /\ Len(written) \in Nat
    BY <1>4
  <2>3. Len(written) = Len(image)
    BY <2>1, <2>2
  <2>4. QED BY <1>3, <1>4, <2>3, SeqEqual DEF Begins
<1>6. Ota!TypeOK'
  BY <1>1, <1>2, <1>3 DEF Ota!TypeOK
<1>7. QED
  BY <1>1, <1>2, <1>3, <1>5, <1>6 DEF OtaInv, Begins, Ota!CompleteAtTheEnd

LEMMA NextOtaInv == ASSUME OtaInv, Ota!Next \/ UNCHANGED otaVars PROVE OtaInv'
<1>1. CASE UNCHANGED otaVars
  <2>1. /\ image' = image /\ rest' = rest /\ phase' = phase /\ buf' = buf
        /\ written' = written /\ boots' = boots /\ found' = found
    BY <1>1 DEF otaVars
  <2>2. Ota!TypeOK' /\ Begins(written)' /\ Ota!CompleteAtTheEnd'
    BY <2>1 DEF OtaInv, Ota!TypeOK, Begins, Ota!CompleteAtTheEnd
  <2>3. Scanning => Scanning'
    BY <2>1 DEF Scanning, IsRest, Ota!Body
  <2>4. Streaming => Streaming'
    BY <2>1 DEF Streaming, Parts, Content, NoBoundary
  <2>5. QED BY <2>1, <2>2, <2>3, <2>4 DEF OtaInv
<1>2. CASE Ota!Next
  BY <1>2, ScanDiscardOtaInv, ScanFoundOtaInv, StreamEndOtaInv, StreamOnOtaInv,
     RecvEndsOtaInv, EndOtaInv DEF Ota!Next
<1>3. QED BY <1>1, <1>2

LEMMA OtaInvMeans == ASSUME OtaInv PROVE Ota!UploadExact
<1>1. image \in Seq(Ota!Bytes) /\ written \in Seq(Ota!Bytes) /\ Begins(written)
  BY ContentIs DEF OtaInv, Ota!TypeOK
<1>2. Ota!OnlyTheImage
  BY <1>1, OtaPrefixIs DEF Begins, Ota!OnlyTheImage
<1>3. QED BY <1>2 DEF OtaInv, Ota!UploadExact, Ota!BootsComplete

\* web_server.c, ota_upload_handler (lines 574-665): for any image and boundary, and
\* any pieces in which the body arrives, what is written is a beginning of the image;
\* all of it, when the body ended after an image that did not come with its end in
\* one receive; and all of it when the new firmware is set to boot.
THEOREM UploadsExact == MCSpec => []UploadExact
<1> DEFINE I == part = "ota" => OtaInv
<1>1. MCInit => I
  BY InitOtaInv DEF MCInit
<1>2. I /\ [MCNext]_mcVars => I'
  BY NextOtaInv, PartSteps
<1>3. I => UploadExact
  BY OtaInvMeans DEF UploadExact
<1>4. QED BY <1>1, <1>2, <1>3, PTL DEF MCSpec

-----------------------------------------------------------------------------
(* The XVC server.                                                           *)

\* The bytes of the command that are still to come, where the server stands: all
\* of them while the client is there, and no more once it has gone.
StillToCome(n) == unread <= n /\ (conn = "open" => unread = n)

\* Nothing of the command has been shifted.
NotYetShifted == driven = <<>> /\ clocks = base

\* The command is a shift that fits.
IsShift == xvcCmd.type = "shift" /\ 2 * Xvc!NrBytes <= BufSize

Flow ==
  /\ conn = "none" => xvcPc = "accept"
  /\ xvcPc = "accept" => unread = 0
  /\ xvcPc = "cmd" => /\ unread = 0 \/ StillToCome(Xvc!Size(xvcCmd))
                      /\ unread > 0 => NotYetShifted
  /\ xvcPc = "getinfo" => StillToCome(6)
  /\ xvcPc = "settck" => StillToCome(9)
  /\ xvcPc = "header" =>
       xvcCmd.type = "shift" /\ StillToCome(8 + 2 * Xvc!NrBytes) /\ NotYetShifted
  /\ xvcPc = "data" =>
       IsShift /\ got <= 2 * Xvc!NrBytes /\ StillToCome(2 * Xvc!NrBytes - got) /\ NotYetShifted
  /\ xvcPc \in {"transfer", "reply"} => IsShift /\ unread = 0 /\ got = 2 * Xvc!NrBytes

\* The answer's bytes, of ByteBits bits each.
AreBytes(f) ==
  /\ f = [i \in 0 .. BufSize - 1 |-> f[i]]
  /\ \A i \in 0 .. BufSize - 1 : f[i] \in Seq(Nat) /\ Len(f[i]) = ByteBits

\* Block by block, each bit up to the offset has been shifted once and is answered
\* with the TDO of its clock.
Shifted ==
  xvcPc \in {"transfer", "reply"} =>
    /\ offset <= xvcCmd.bits /\ clocks = base + offset
    /\ offset = xvcCmd.bits \/ offset % ByteBits = 0
    /\ driven = [i \in 1 .. offset |-> i]
    /\ \A i \in 1 .. offset : Xvc!AnswerBit(i) = base + i
    /\ xvcPc = "reply" => offset = xvcCmd.bits

XvcInv ==
  /\ Xvc!TypeOK /\ base \in Nat
  /\ AreBytes(tdo)
  /\ Flow /\ Shifted

-----------------------------------------------------------------------------
LEMMA Division ==
  ASSUME NEW b \in Nat \ {0}, NEW i \in Nat
  PROVE  i \div b \in Nat /\ i % b \in 0 .. b - 1 /\ i = b * (i \div b) + (i % b)
<1>1. i \div b \in Int /\ i % b \in 0 .. b - 1 /\ i = b * (i \div b) + (i % b)
  OBVIOUS
<1> DEFINE q == i \div b
           r == i % b
<1> HIDE DEF q, r
<1>2. q \in Int /\ r \in 0 .. b - 1 /\ i = b * q + r
  BY <1>1 DEF q, r
<1>3. q >= 0
  <2> SUFFICES ASSUME q <= -1 PROVE FALSE
    BY <1>2
  <2>1. b * q <= b * (-1)
    BY <1>2
  <2>2. QED BY <1>2, <2>1
<1>4. QED BY <1>2, <1>3 DEF q, r

LEMMA DivisionIs ==
  ASSUME NEW b \in Nat \ {0}, NEW q \in Nat, NEW r \in 0 .. b - 1
  PROVE  (b * q + r) \div b = q /\ (b * q + r) % b = r
<1> DEFINE i == b * q + r
           p == i \div b
           m == i % b
<1>1. i \in Nat
  OBVIOUS
<1>2. p \in Nat /\ m \in 0 .. b - 1 /\ i = b * p + m
  <2> HIDE DEF i
  <2>1. QED BY <1>1, Division
<1> HIDE DEF p, m
<1>3. p = q
  <2>1. CASE p >= q + 1
    <3>1. b * p >= b * (q + 1)
      BY <1>2, <2>1
    <3>2. b * (q + 1) = b * q + b
      OBVIOUS
    <3>3. QED BY <1>2, <3>1, <3>2
  <2>2. CASE q >= p + 1
    <3>1. b * q >= b * (p + 1)
      BY <1>2, <2>2
    <3>2. b * (p + 1) = b * p + b
      BY <1>2
    <3>3. QED BY <1>2, <3>1, <3>2
  <2>3. QED BY <1>2, <2>1, <2>2
<1>4. m = r
  BY <1>2, <1>3
<1>5. QED BY <1>3, <1>4 DEF p, m

LEMMA DivisionMonotonic ==
  ASSUME NEW b \in Nat \ {0}, NEW i \in Nat, NEW j \in Nat, i <= j PROVE i \div b <= j \div b
<1> DEFINE p == i \div b
           q == j \div b
<1>1. /\ p \in Nat /\ q \in Nat /\ b * p <= i /\ j < b * q + b
  <2>1. /\ i \div b \in Nat /\ i % b \in 0 .. b - 1 /\ i = b * (i \div b) + (i % b)
        /\ j \div b \in Nat /\ j % b \in 0 .. b - 1 /\ j = b * (j \div b) + (j % b)
    BY Division
  <2> DEFINE r == i % b
             m == j % b
  <2> HIDE DEF p, q, r, m
  <2>2. /\ p \in Nat /\ r \in 0 .. b - 1 /\ i = b * p + r
        /\ q \in Nat /\ m \in 0 .. b - 1 /\ j = b * q + m
    BY <2>1 DEF p, q, r, m
  <2> DEFINE x == b * p
             y == b * q
  <2>3. x \in Nat /\ y \in Nat
    BY <2>2
  <2> HIDE DEF x, y
  <2>4. x <= i /\ j < y + b
    BY <2>2, <2>3 DEF x, y
  <2>5. QED BY <2>2, <2>4 DEF x, y
<1> HIDE DEF p, q
<1>2. ASSUME q + 1 <= p PROVE FALSE
  <2>1. b * (q + 1) <= b * p
    BY <1>1, <1>2
  <2>2. b * (q + 1) = b * q + b
    BY <1>1
  <2> DEFINE x == b * p
             y == b * q
  <2>3. x \in Nat /\ y \in Nat
    BY <1>1
  <2>4. b * (q + 1) \in Nat
    BY <1>1
  <2> HIDE DEF x, y
  <2>5. y + b <= x /\ x <= i /\ j < y + b
    BY <1>1, <2>1, <2>2 DEF x, y
  <2>6. QED BY <2>3, <2>5
<1>3. p <= q
  BY <1>1, <1>2
<1>4. QED BY <1>3 DEF p, q

\* A byte moved by one bit.
LEMMA MovedIs ==
  ASSUME NEW n \in Nat \ {0}, NEW x \in Seq(Nat), Len(x) = n, NEW y \in Nat
  PROVE  LET v == Append(Tail(x), y)
         IN  /\ v \in Seq(Nat) /\ Len(v) = n
             /\ \A j \in 1 .. n - 1 : v[j] = x[j + 1]
             /\ v[n] = y
<1> DEFINE u == Tail(x)
           v == Append(u, y)
<1>1. u \in Seq(Nat) /\ Len(u) = n - 1 /\ \A j \in 1 .. n - 1 : u[j] = x[j + 1]
  <2>1. x # <<>>
    OBVIOUS
  <2>2. QED BY <2>1, HeadTailProperties
<1> HIDE DEF u
<1>2. /\ v \in Seq(Nat) /\ Len(v) = Len(u) + 1
      /\ \A j \in 1 .. Len(u) : v[j] = u[j]
      /\ v[Len(u) + 1] = y
  BY <1>1, AppendProperties
<1>3. Len(u) + 1 = n
  BY <1>1
<1>4. QED BY <1>1, <1>2, <1>3 DEF u

LEMMA ReceivedIs ==
  ASSUME clocks \in Nat, NEW n \in Nat, NEW x \in Nat
  PROVE  /\ Xvc!Received(n, x) \in Nat
         /\ x \in 1 .. n => Xvc!Received(n, x) = clocks + x
<1> DEFINE h == ByteBits \div 2
           q == n \div h
           r == n % h
<1>1. h \in Nat \ {0}
  <2>1. ByteBits \in Nat \ {0} /\ ByteBits % 2 = 0
    BY XvcAssumptions DEF Xvc!XvcAssumption
  <2>2. QED BY <2>1
<1> HIDE DEF h
<1>2. q \in Nat /\ r \in 0 .. h - 1 /\ n = h * q + r
  BY <1>1, Division
<1>3. Xvc!Pairs(n) = h * (q + 1)
  BY DEF Xvc!Pairs, h
<1> HIDE DEF q, r
<1>4. h * (q + 1) = h * q + h /\ h * q \in Nat
  BY <1>1, <1>2
<1>5. n < Xvc!Pairs(n)
  <2> DEFINE y == h * q
  <2>1. y \in Nat /\ n = y + r /\ Xvc!Pairs(n) = y + h
    BY <1>2, <1>3, <1>4
  <2> HIDE DEF y
  <2>2. QED BY <1>1, <1>2, <2>1
<1>6. Xvc!Pairs(n) \in Nat
  BY <1>1, <1>2, <1>3, <1>4
<1>7. QED BY <1>5, <1>6 DEF Xvc!Received

\* A block is answered with the TDO of its clocks, from a byte on, and the bytes
\* before are left as they are.
LEMMA GetTdoIs ==
  ASSUME clocks \in Nat, NEW f, AreBytes(f), NEW at \in Nat, NEW n \in Nat \ {0},
         at + n \div ByteBits <= BufSize - 1
  PROVE  LET g == Xvc!GetTdo(f, at, n)
         IN  /\ AreBytes(g)
             /\ \A i \in 0 .. BufSize - 1 : i < at => g[i] = f[i]
             /\ \A p \in 0 .. n - 1 : g[at + p \div ByteBits][(p % ByteBits) + 1] = clocks + p + 1
<1> DEFINE b == ByteBits
           S == 0 .. BufSize - 1
           last == n \div b
           R(x) == Xvc!Received(n, x)
           raw == [i \in S |-> IF i \in at .. at + last
                               THEN [j \in 1 .. b |-> R((i - at) * b + j - 1)]
                               ELSE f[i]]
           g == [i \in S |-> IF i \in at .. at + last
                             THEN Append(Tail(raw[i]), IF i + 1 \in S THEN raw[i + 1][1] ELSE 0)
                             ELSE f[i]]
<1>1. DOMAIN f = S
  BY DEF AreBytes
<1>2. Xvc!GetTdo(f, at, n) = g
  BY <1>1 DEF Xvc!GetTdo
<1>3. b \in Nat \ {0} /\ BufSize \in Nat
  BY XvcAssumptions DEF Xvc!XvcAssumption
<1>4. \A x \in Nat : R(x) \in Nat /\ (x \in 1 .. n => R(x) = clocks + x)
  BY ReceivedIs
<1>5. last \in Nat /\ at + last <= BufSize - 1
  BY <1>3, Division
<1>6. /\ DOMAIN g = S
      /\ \A i \in S : g[i] = IF i \in at .. at + last
                             THEN Append(Tail(raw[i]), IF i + 1 \in S THEN raw[i + 1][1] ELSE 0)
                             ELSE f[i]
      /\ g = [i \in S |-> g[i]]
  OBVIOUS
<1>7. \A i \in S : raw[i] = IF i \in at .. at + last
                            THEN [j \in 1 .. b |-> R((i - at) * b + j - 1)]
                            ELSE f[i]
  OBVIOUS
<1>8. \A i \in S : f[i] \in Seq(Nat) /\ Len(f[i]) = b
  BY DEF AreBytes
<1> HIDE DEF last, R, raw, g, b
<1>9. ASSUME NEW i \in S
      PROVE  /\ raw[i] \in Seq(Nat) /\ Len(raw[i]) = b
             /\ i \in at .. at + last =>
                  \A j \in 1 .. b : raw[i][j] = R((i - at) * b + j - 1)
  <2>1. CASE i \in at .. at + last
    <3> DEFINE w == [j \in 1 .. b |-> R((i - at) * b + j - 1)]
    <3>1. \A j \in 1 .. b : (i - at) * b + j - 1 \in Nat
      <4>1. i - at \in Nat
        BY <1>5, <2>1
      <4>2. QED BY <1>3, <4>1
    <3>2. w \in [1 .. b -> Nat]
      BY <1>4, <3>1
    <3>3. w \in Seq(Nat) /\ Len(w) = b
      <4> HIDE DEF w
      <4>1. QED BY <1>3, <3>2
    <3>4. raw[i] = w
      BY <1>7, <2>1
    <3>5. QED BY <3>3, <3>4
  <2>2. CASE i \notin at .. at + last
    BY <1>7, <1>8, <2>2
  <2>3. QED BY <2>1, <2>2
<1>10. ASSUME NEW i \in S
       PROVE  /\ g[i] \in Seq(Nat) /\ Len(g[i]) = b
              /\ i \in at .. at + last =>
                   /\ \A j \in 1 .. b - 1 : g[i][j] = raw[i][j + 1]
                   /\ i + 1 \in S => g[i][b] = raw[i + 1][1]
  <2>1. CASE i \in at .. at + last
    <3> DEFINE y == IF i + 1 \in S THEN raw[i + 1][1] ELSE 0
               x == raw[i]
    <3>1. y \in Nat
      <4>1. ASSUME i + 1 \in S PROVE raw[i + 1][1] \in Nat
        <5>1. raw[i + 1] \in Seq(Nat) /\ Len(raw[i + 1]) = b /\ 1 \in 1 .. b
          BY <1>3, <1>9, <4>1
        <5>2. QED BY <5>1
      <4>2. QED BY <4>1
    <3>2. x \in Seq(Nat) /\ Len(x) = b
      BY <1>9
    <3>3. g[i] = Append(Tail(x), y)
      BY <1>6, <2>1
    <3>4. (i + 1 \in S) => y = raw[i + 1][1]
      OBVIOUS
    <3> HIDE DEF x, y
    <3> DEFINE v == Append(Tail(x), y)
    <3>5. /\ v \in Seq(Nat) /\ Len(v) = b
          /\ \A j \in 1 .. b - 1 : v[j] = x[j + 1]
          /\ v[b] = y
      BY <1>3, <3>1, <3>2, MovedIs
    <3> HIDE DEF v
    <3>6. g[i] = v
      BY <3>3 DEF v
    <3>7. QED BY <3>4, <3>5, <3>6 DEF x
  <2>2. CASE i \notin at .. at + last
    BY <1>6, <1>8, <2>2
  <2>3. QED BY <2>1, <2>2
<1>11. AreBytes(g)
  BY <1>6, <1>10 DEF AreBytes, b
<1>12. ASSUME NEW i \in S, i < at PROVE g[i] = f[i]
  <2>1. i \notin at .. at + last
    BY <1>12
  <2>2. QED BY <1>6, <2>1
<1>13. ASSUME NEW p \in 0 .. n - 1
       PROVE  g[at + p \div b][(p % b) + 1] = clocks + p + 1
  <2> DEFINE q == p \div b
             r == p % b
             i == at + q
  <2>0. p \in Nat
    OBVIOUS
  <2> SUFFICES g[i][r + 1] = clocks + p + 1
    OBVIOUS
  <2>1. q \in Nat /\ r \in 0 .. b - 1 /\ p = b * q + r
    BY <1>3, <2>0, Division
  <2>2. q <= last
    BY <1>3, <2>0, DivisionMonotonic DEF last
  <2>3. p + 1 \in Nat /\ R(p + 1) = clocks + p + 1
    <3>1. p + 1 \in Nat /\ p + 1 \in 1 .. n
      OBVIOUS
    <3>2. R(p + 1) = clocks + (p + 1)
      BY <1>4, <3>1
    <3>3. QED BY <3>1, <3>2
  <2> HIDE DEF q, r
  <2>4. i \in S /\ i \in at .. at + last /\ i - at = q
    BY <1>3, <1>5, <2>1, <2>2
  <2>5. (i - at) * b = b * q
    BY <1>3, <2>1, <2>4
  <2>6. CASE r < b - 1
    <3>1. r + 1 \in 1 .. b - 1 /\ (r + 1) + 1 \in 1 .. b
      BY <1>3, <2>1, <2>6
    <3>2. g[i][r + 1] = raw[i][(r + 1) + 1]
      BY <1>10, <2>4, <3>1
    <3>3. raw[i][(r + 1) + 1] = R((i - at) * b + ((r + 1) + 1) - 1)
      BY <1>9, <2>4, <3>1
    <3>4. (i - at) * b + ((r + 1) + 1) - 1 = p + 1
      <4> DEFINE y == b * q
      <4>1. y \in Nat /\ p = y + r /\ (i - at) * b = y /\ r \in Nat
        BY <1>3, <2>1, <2>5
      <4> HIDE DEF y
      <4> DEFINE z == (i - at) * b
      <4>2. z = y
        BY <4>1
      <4> HIDE DEF z
      <4>3. z + ((r + 1) + 1) - 1 = p + 1
        BY <4>1, <4>2
      <4>4. QED BY <4>3 DEF z
    <3>5. QED BY <2>3, <3>2, <3>3, <3>4
  <2>7. CASE r = b - 1
    <3> DEFINE k == i + 1
    <3>1. b * (q + 1) = p + 1
      <4>1. b * (q + 1) = b * q + b
        BY <1>3, <2>1
      <4> DEFINE y == b * q
      <4>2. y \in Nat /\ p = y + r
        BY <1>3, <2>1
      <4>3. b * (q + 1) = y + b
        BY <4>1
      <4> HIDE DEF y
      <4>4. y + b = p + 1
        BY <1>3, <2>7, <4>2
      <4>5. QED BY <4>3, <4>4
    <3>2. q + 1 <= last
      <4>1. (p + 1) \div b = q + 1
        <5>1. (b * (q + 1) + 0) \div b = q + 1
          <6>1. q + 1 \in Nat /\ 0 \in 0 .. b - 1
            BY <1>3, <2>1
          <6>2. QED BY <1>3, <6>1, DivisionIs
        <5>2. b * (q + 1) + 0 = p + 1
          BY <2>3, <3>1
        <5>3. QED BY <5>1, <5>2
      <4>2. (p + 1) \div b <= n \div b
        BY <1>3, <2>3, DivisionMonotonic
      <4>3. QED BY <4>1, <4>2 DEF last
    <3>3. k \in S /\ k \in at .. at + last /\ k - at = q + 1 /\ 1 \in 1 .. b /\ r + 1 = b
      BY <1>3, <1>5, <2>1, <2>4, <2>7, <3>2
    <3>4. g[i][b] = raw[k][1]
      BY <1>10, <2>4, <3>3
    <3> HIDE DEF k
    <3>5. raw[k][1] = R((k - at) * b + 1 - 1)
      BY <1>9, <3>3
    <3>6. (k - at) * b + 1 - 1 = p + 1
      <4>1. (k - at) * b = p + 1
        BY <1>3, <2>1, <3>1, <3>3
      <4>2. QED BY <2>3, <4>1
    <3>7. QED BY <2>3, <3>3, <3>4, <3>5, <3>6
  <2>8. QED BY <1>3, <2>1, <2>6, <2>7
<1>14. QED BY <1>2, <1>11, <1>12, <1>13 DEF g, b

LEMMA SizesAre ==
  ASSUME NEW c \in Xvc!AllCommands \cup {Xvc!NoCommand}
  PROVE  LET k == (c.bits + ByteBits - 1) \div ByteBits
         IN  /\ c.bits \in Nat /\ k \in Nat
             /\ c.bits <= ByteBits * k /\ ByteBits * k < c.bits + ByteBits
             /\ Xvc!Size(c) \in Nat /\ c.type \in {"none", "getinfo", "settck", "shift"}
             /\ c.type = "none" => Xvc!Size(c) = 0
             /\ c.type = "getinfo" => Xvc!Size(c) = 8
             /\ c.type = "settck" => Xvc!Size(c) = 11
             /\ c.type = "shift" => Xvc!Size(c) = 10 + 2 * k
<1> DEFINE b == ByteBits
           e == c.bits
           k == (e + b - 1) \div b
           r == (e + b - 1) % b
<1>1. b \in Nat \ {0} /\ Lengths \subseteq Nat
  BY XvcAssumptions DEF Xvc!XvcAssumption
<1>2. e \in Nat /\ c.type \in {"none", "getinfo", "settck", "shift"}
  <2>1. \/ c \in [type : {"getinfo", "settck"}, bits : {0}]
        \/ c \in [type : {"shift"}, bits : Lengths]
        \/ c = [type |-> "none", bits |-> 0]
    BY DEF Xvc!AllCommands, Xvc!NoCommand
  <2>2. CASE c \in [type : {"getinfo", "settck"}, bits : {0}]
    <3>1. c.type \in {"getinfo", "settck"} /\ c.bits = 0
      BY <2>2
    <3>2. QED BY <3>1
  <2>3. CASE c \in [type : {"shift"}, bits : Lengths]
    <3>1. c.type = "shift" /\ c.bits \in Lengths
      BY <2>3
    <3>2. QED BY <1>1, <3>1
  <2>4. CASE c = [type |-> "none", bits |-> 0]
    <3>1. c.type = "none" /\ c.bits = 0
      BY <2>4
    <3>2. QED BY <3>1
  <2>5. QED BY <2>1, <2>2, <2>3, <2>4
<1> HIDE DEF b, e
<1>3. k \in Nat /\ r \in 0 .. b - 1 /\ e + b - 1 = b * k + r
  <2>1. e + b - 1 \in Nat
    BY <1>1, <1>2
  <2>2. QED BY <1>1, <2>1, Division
<1>4. /\ c.type = "none" => Xvc!Size(c) = 0
      /\ c.type = "getinfo" => Xvc!Size(c) = 8
      /\ c.type = "settck" => Xvc!Size(c) = 11
      /\ c.type = "shift" => Xvc!Size(c) = 10 + 2 * k
  BY DEF Xvc!Size, b, e
<1>5. Xvc!Size(c) \in Nat
  BY <1>2, <1>3, <1>4
<1> HIDE DEF k, r
<1>6. e <= b * k /\ b * k < e + b
  <2> DEFINE y == b * k
  <2>1. y \in Nat /\ e + b - 1 = y + r
    BY <1>1, <1>3
  <2> HIDE DEF y
  <2>2. e <= y /\ y < e + b
    BY <1>1, <1>2, <1>3, <2>1
  <2>3. QED BY <2>2 DEF y
<1>7. QED BY <1>2, <1>3, <1>4, <1>5, <1>6 DEF b, e, k

\* The command that the server has received.
LEMMA XvcCommandIs ==
  ASSUME Xvc!TypeOK
  PROVE  LET k == Xvc!NrBytes
         IN  /\ xvcCmd.bits \in Nat /\ k \in Nat
             /\ xvcCmd.bits <= ByteBits * k /\ ByteBits * k < xvcCmd.bits + ByteBits
             /\ Xvc!Size(xvcCmd) \in Nat
             /\ xvcCmd.type \in {"none", "getinfo", "settck", "shift"}
             /\ xvcCmd.type = "none" => Xvc!Size(xvcCmd) = 0
             /\ xvcCmd.type = "getinfo" => Xvc!Size(xvcCmd) = 8
             /\ xvcCmd.type = "settck" => Xvc!Size(xvcCmd) = 11
             /\ xvcCmd.type = "shift" => Xvc!Size(xvcCmd) = 10 + 2 * k
<1>1. xvcCmd \in Xvc!AllCommands \cup {Xvc!NoCommand}
  BY DEF Xvc!TypeOK
<1> DEFINE c == xvcCmd
<1>2. c \in Xvc!AllCommands \cup {Xvc!NoCommand}
  BY <1>1
<1>3. Xvc!NrBytes = (c.bits + ByteBits - 1) \div ByteBits
  BY DEF Xvc!NrBytes
<1> HIDE DEF c
<1>4. QED BY <1>2, <1>3, SizesAre DEF c

LEMMA ZerosAre == AreBytes(Xvc!Zeros)
<1> DEFINE b == ByteBits
           w == [j \in 1 .. b |-> 0]
           f == [i \in 0 .. BufSize - 1 |-> w]
<1>1. b \in Nat \ {0}
  BY XvcAssumptions DEF Xvc!XvcAssumption
<1>2. w \in Seq(Nat) /\ Len(w) = b
  <2> HIDE DEF b
  <2>1. w \in [1 .. b -> Nat]
    OBVIOUS
  <2> HIDE DEF w
  <2>2. QED BY <1>1, <2>1
<1>3. Xvc!Zeros = f
  BY DEF Xvc!Zeros
<1> HIDE DEF w
<1>4. AreBytes(f)
  BY <1>2 DEF AreBytes
<1>5. QED BY <1>3, <1>4

LEMMA InitXvcInv == ASSUME Xvc!Init PROVE XvcInv
<1>1. AreBytes(tdo)
  BY ZerosAre DEF Xvc!Init
<1>2. Xvc!TypeOK
  BY <1>1 DEF Xvc!Init, Xvc!TypeOK, AreBytes
<1>3. Flow
  BY DEF Xvc!Init, Flow
<1>4. QED BY <1>1, <1>2, <1>3 DEF Xvc!Init, XvcInv, Shifted

\* Where the connection is closed, nothing is left of a command.
LEMMA CloseXvcInv ==
  ASSUME XvcInv, Xvc!Close, UNCHANGED <<xvcCmd, base>>, AreBytes(tdo'),
         got' \in Nat, offset' \in Nat, sentTo' \in Nat, clocks' \in Nat
  PROVE  XvcInv'
<1>1. xvcPc' = "accept" /\ conn' = "none" /\ unread' = 0
  BY DEF Xvc!Close
<1>2. Xvc!TypeOK'
  BY <1>1 DEF XvcInv, Xvc!TypeOK, AreBytes
<1>3. Flow' /\ Shifted'
  BY <1>1 DEF Flow, Shifted
<1>4. QED BY <1>2, <1>3 DEF XvcInv, AreBytes

LEMMA ClientXvcInv ==
  ASSUME XvcInv, Xvc!Connect \/ Xvc!Send \/ Xvc!Leave PROVE XvcInv'
<1>1. Xvc!TypeOK /\ base \in Nat /\ AreBytes(tdo) /\ Flow /\ Shifted
  BY DEF XvcInv
<1>2. /\ xvcPc' = xvcPc /\ UNCHANGED <<got, offset, tdo, sentTo, clocks>>
  BY DEF Xvc!Connect, Xvc!Send, Xvc!Leave, Xvc!shiftVars
<1>3. AreBytes(tdo)'
  BY <1>1, <1>2 DEF AreBytes
<1>4. CASE Xvc!Connect
  <2>1. /\ conn = "none" /\ conn' = "open" /\ UNCHANGED <<xvcCmd, unread, base, driven>>
    BY <1>4 DEF Xvc!Connect, Xvc!shiftVars
  <2>2. xvcPc = "accept" /\ unread = 0
    BY <1>1, <2>1 DEF Flow
  <2>3. Xvc!TypeOK'
    BY <1>1, <1>2, <2>1 DEF Xvc!TypeOK
  <2>4. Flow' /\ Shifted'
    BY <1>2, <2>1, <2>2 DEF Flow, Shifted
  <2>5. QED BY <1>1, <1>3, <2>1, <2>3, <2>4 DEF XvcInv
<1>5. CASE Xvc!Send
  <2>1. /\ conn = "open" /\ xvcPc = "cmd" /\ conn' = conn /\ base' = clocks /\ driven' = <<>>
        /\ xvcCmd' \in Xvc!AllCommands /\ unread' = Xvc!Size(xvcCmd')
    BY <1>5 DEF Xvc!Send
  <2>2. xvcCmd'.bits \in Nat /\ Xvc!Size(xvcCmd)' \in Nat
    <3> DEFINE c == xvcCmd'
    <3>1. c \in Xvc!AllCommands \cup {Xvc!NoCommand}
      BY <2>1
    <3>2. Xvc!Size(xvcCmd)' = Xvc!Size(c)
      OBVIOUS
    <3> HIDE DEF c
    <3>3. QED BY <3>1, <3>2, SizesAre DEF c
  <2>3. Xvc!TypeOK'
    BY <1>1, <1>2, <2>1, <2>2 DEF Xvc!TypeOK
  <2>4. Flow'
    BY <1>2, <2>1, <2>2 DEF Flow, StillToCome, NotYetShifted
  <2>5. Shifted'
    BY <1>2, <2>1 DEF Shifted
  <2>6. QED BY <1>1, <1>3, <2>1, <2>3, <2>4, <2>5 DEF XvcInv, Xvc!TypeOK
<1>6. CASE Xvc!Leave
  <2>1. /\ conn = "open" /\ conn' = "gone" /\ unread' \in 0 .. unread
        /\ UNCHANGED <<xvcCmd, base, driven>>
    BY <1>6 DEF Xvc!Leave, Xvc!shiftVars
  <2>2. Xvc!TypeOK'
    BY <1>1, <1>2, <2>1 DEF Xvc!TypeOK
  <2>3. Flow'
    <3>1. unread \in Nat /\ got \in Nat /\ Xvc!NrBytes \in Nat /\ Xvc!Size(xvcCmd) \in Nat
      BY <1>1, XvcCommandIs DEF Xvc!TypeOK
    <3>2. /\ Xvc!NrBytes' = Xvc!NrBytes /\ Xvc!Size(xvcCmd)' = Xvc!Size(xvcCmd)
          /\ (NotYetShifted => NotYetShifted') /\ (IsShift => IsShift')
      BY <1>2, <2>1 DEF Xvc!NrBytes, Xvc!Size, NotYetShifted, IsShift
    <3>3. \A n \in Int : StillToCome(n) => StillToCome(n)'
      BY <2>1, <3>1 DEF StillToCome
    <3>4. QED
      BY <1>1, <1>2, <2>1, <3>1, <3>2, <3>3 DEF Flow
  <2>4. Shifted'
    BY <1>1, <1>2, <2>1 DEF Shifted, Xvc!AnswerBit
  <2>5. QED BY <1>1, <1>3, <2>1, <2>2, <2>3, <2>4 DEF XvcInv
<1>7. QED BY <1>4, <1>5, <1>6

\* The server receives what it wants, or the connection is closed.
LEMMA ReceiveXvc ==
  ASSUME Xvc!TypeOK, NEW want \in Nat, NEW next, Xvc!Receive(want, next)
  PROVE  \/ /\ xvcPc' = next /\ conn' = conn /\ unread >= want
            /\ unread' = unread - want /\ unread' \in Nat
         \/ Xvc!Close
BY DEF Xvc!Receive, Xvc!TypeOK

LEMMA ReceiveXvcInv ==
  ASSUME XvcInv, Xvc!ReceiveCommand \/ Xvc!GetInfo \/ Xvc!SetTck \/ Xvc!ShiftHeader
  PROVE  XvcInv'
<1> DEFINE k == Xvc!NrBytes
           z == Xvc!Size(xvcCmd)
<1>1. Xvc!TypeOK /\ base \in Nat /\ AreBytes(tdo) /\ Flow /\ Shifted
  BY DEF XvcInv
<1>2. /\ k \in Nat /\ z \in Nat /\ xvcCmd.type \in {"none", "getinfo", "settck", "shift"}
      /\ xvcCmd.type = "none" => z = 0
      /\ xvcCmd.type = "getinfo" => z = 8
      /\ xvcCmd.type = "settck" => z = 11
      /\ xvcCmd.type = "shift" => z = 10 + 2 * k
  BY <1>1, XvcCommandIs
<1>3. /\ UNCHANGED <<xvcCmd, base, offset, tdo, sentTo, driven, clocks>>
      /\ got' \in Nat /\ k' = k /\ z' = z
  BY <1>1 DEF Xvc!ReceiveCommand, Xvc!GetInfo, Xvc!SetTck, Xvc!ShiftHeader, Xvc!shiftVars,
     Xvc!TypeOK, Xvc!NrBytes, Xvc!Size
<1>4. AreBytes(tdo') /\ (NotYetShifted => NotYetShifted')
  BY <1>1, <1>3 DEF NotYetShifted
<1>5. unread \in Nat
  BY <1>1 DEF Xvc!TypeOK
<1>6. CASE Xvc!Close
  BY <1>1, <1>3, <1>4, <1>6, CloseXvcInv DEF Xvc!TypeOK
<1>7. SUFFICES ASSUME xvcPc' \in {"cmd", "getinfo", "settck", "header", "data"},
                      conn' = conn, unread' \in Nat, Flow'
               PROVE  XvcInv'
  <2>1. CASE Xvc!ReceiveCommand
    <3> DEFINE next == CASE xvcCmd.type = "getinfo" -> "getinfo"
                         [] xvcCmd.type = "settck" -> "settck" [] OTHER -> "header"
    <3>1. xvcPc = "cmd" /\ Xvc!Receive(2, next)
      BY <2>1 DEF Xvc!ReceiveCommand
    <3>2. /\ xvcCmd.type = "getinfo" => next = "getinfo"
          /\ xvcCmd.type = "settck" => next = "settck"
          /\ xvcCmd.type \in {"none", "shift"} => next = "header"
      OBVIOUS
    <3> HIDE DEF next, k, z
    <3>3. CASE xvcPc' = next /\ conn' = conn /\ unread >= 2 /\ unread' = unread - 2 /\ unread' \in Nat
      <4>1. StillToCome(z) /\ NotYetShifted
        BY <1>1, <1>5, <3>1, <3>3 DEF Flow, z
      <4>2. xvcCmd.type # "none"
        BY <1>2, <1>5, <3>3, <4>1 DEF StillToCome
      <4>3. CASE xvcCmd.type = "getinfo"
        <5>1. StillToCome(6)' /\ xvcPc' = "getinfo"
          BY <1>2, <1>5, <3>2, <3>3, <4>1, <4>3 DEF StillToCome
        <5>2. Flow'
          BY <1>1, <3>1, <3>3, <5>1 DEF Flow
        <5>3. QED BY <1>7, <3>3, <5>1, <5>2
      <4>4. CASE xvcCmd.type = "settck"
        <5>1. StillToCome(9)' /\ xvcPc' = "settck"
          BY <1>2, <1>5, <3>2, <3>3, <4>1, <4>4 DEF StillToCome
        <5>2. Flow'
          BY <1>1, <3>1, <3>3, <5>1 DEF Flow
        <5>3. QED BY <1>7, <3>3, <5>1, <5>2
      <4>5. CASE xvcCmd.type = "shift"
        <5>1. xvcPc' = "header" /\ xvcCmd'.type = "shift" /\ NotYetShifted'
          BY <1>3, <1>4, <3>2, <3>3, <4>1, <4>5
        <5>2. unread' <= 8 + 2 * k /\ (conn' = "open" => unread' = 8 + 2 * k)
          BY <1>2, <1>5, <3>3, <4>1, <4>5 DEF StillToCome
        <5>3. StillToCome(8 + 2 * Xvc!NrBytes)'
          BY <1>3, <5>2 DEF StillToCome, k
        <5>4. Flow'
          BY <1>1, <3>1, <3>3, <5>1, <5>3 DEF Flow
        <5>5. QED BY <1>7, <3>3, <5>1, <5>4
      <4>6. QED BY <1>2, <4>2, <4>3, <4>4, <4>5
    <3>4. QED BY <1>1, <1>6, <3>1, <3>3, ReceiveXvc
  <2>2. CASE Xvc!GetInfo \/ Xvc!SetTck
    <3> DEFINE want == IF Xvc!GetInfo THEN 6 ELSE 9
    <3>1. want \in {6, 9} /\ xvcPc \in {"getinfo", "settck"} /\ Xvc!Receive(want, "cmd")
      BY <2>2 DEF Xvc!GetInfo, Xvc!SetTck
    <3>2. StillToCome(want)
      BY <1>1, <2>2 DEF Xvc!GetInfo, Xvc!SetTck, Flow
    <3> HIDE DEF want
    <3>3. CASE /\ xvcPc' = "cmd" /\ conn' = conn /\ unread >= want
               /\ unread' = unread - want /\ unread' \in Nat
      <4>1. unread' = 0
        BY <1>5, <3>1, <3>2, <3>3 DEF StillToCome
      <4>2. Flow'
        BY <1>1, <3>1, <3>3, <4>1 DEF Flow
      <4>3. QED BY <1>7, <3>3, <4>2
    <3>4. want \in Nat
      BY <3>1
    <3>5. QED BY <1>1, <1>6, <3>1, <3>3, <3>4, ReceiveXvc
  <2>3. CASE Xvc!ShiftHeader
    <3>1. /\ xvcPc = "header" /\ got' = 0
          /\ \/ k * 2 <= BufSize /\ Xvc!Receive(8, "data")
             \/ Xvc!Close
      BY <2>3 DEF Xvc!ShiftHeader
    <3>2. xvcCmd.type = "shift" /\ StillToCome(8 + 2 * k) /\ NotYetShifted
      BY <1>1, <3>1 DEF Flow
    <3> HIDE DEF k, z
    <3>3. CASE /\ k * 2 <= BufSize /\ xvcPc' = "data" /\ conn' = conn /\ unread >= 8
               /\ unread' = unread - 8 /\ unread' \in Nat
      <4>1. /\ unread' <= 2 * k - 0 /\ (conn' = "open" => unread' = 2 * k - 0)
            /\ 0 <= 2 * k /\ 2 * k <= BufSize
        <5>1. BufSize \in Nat
          BY XvcAssumptions DEF Xvc!XvcAssumption
        <5>2. QED BY <1>2, <1>5, <3>2, <3>3, <5>1 DEF StillToCome
      <4>2. StillToCome(2 * Xvc!NrBytes - got)' /\ (got <= 2 * Xvc!NrBytes)'
        BY <1>3, <3>1, <4>1 DEF StillToCome, k
      <4>3. IsShift' /\ NotYetShifted'
        BY <1>3, <1>4, <3>2, <4>1 DEF IsShift, k
      <4>4. Flow'
        BY <1>1, <3>1, <3>3, <4>2, <4>3 DEF Flow
      <4>5. QED BY <1>7, <3>3, <4>4
    <3>4. QED BY <1>1, <1>6, <3>1, <3>3, ReceiveXvc
  <2>4. QED BY <2>1, <2>2, <2>3
<1>8. Xvc!TypeOK'
  <2>1. conn' \in {"none", "open", "gone"} /\ DOMAIN tdo' = 0 .. BufSize - 1
    BY <1>1, <1>3, <1>7 DEF Xvc!TypeOK
  <2>2. QED BY <1>1, <1>3, <1>7, <2>1 DEF Xvc!TypeOK
<1>9. Shifted'
  BY <1>7 DEF Shifted
<1>10. QED BY <1>1, <1>3, <1>4, <1>7, <1>8, <1>9 DEF XvcInv

LEMMA ReceiveAllXvcInv == ASSUME XvcInv, Xvc!ReceiveAll PROVE XvcInv'
<1> DEFINE k == Xvc!NrBytes
<1>1. Xvc!TypeOK /\ base \in Nat /\ AreBytes(tdo) /\ Flow /\ Shifted
  BY DEF XvcInv
<1>2. xvcPc = "data" /\ UNCHANGED <<xvcCmd, sentTo, driven, clocks, base>>
  BY DEF Xvc!ReceiveAll
<1>3. /\ IsShift /\ got <= 2 * k /\ StillToCome(2 * k - got) /\ NotYetShifted
      /\ unread \in Nat /\ got \in Nat /\ k \in Nat
  BY <1>1, <1>2, XvcCommandIs DEF Flow, Xvc!TypeOK
<1>4. k' = k /\ IsShift' /\ NotYetShifted'
  BY <1>2, <1>3 DEF IsShift, NotYetShifted, Xvc!NrBytes
<1>5. CASE /\ got < 2 * k /\ unread > 0
           /\ \E n \in 1 .. Xvc!Least(2 * k - got, unread) :
                got' = got + n /\ unread' = unread - n
           /\ UNCHANGED <<xvcPc, conn, offset, tdo>>
  <2>1. PICK n \in 1 .. Xvc!Least(2 * k - got, unread) :
               got' = got + n /\ unread' = unread - n
    BY <1>5
  <2> HIDE DEF k
  <2>2. n \in Nat /\ n <= 2 * k - got /\ n <= unread
    <3>1. Xvc!Least(2 * k - got, unread) <= 2 * k - got /\ Xvc!Least(2 * k - got, unread) <= unread
          /\ Xvc!Least(2 * k - got, unread) \in Int
      BY <1>3 DEF Xvc!Least
    <3>2. QED BY <1>3, <3>1
  <2>3. /\ got' \in Nat /\ unread' \in Nat /\ got' <= 2 * k
        /\ unread' <= 2 * k - got' /\ (conn' = "open" => unread' = 2 * k - got')
    BY <1>3, <1>5, <2>1, <2>2 DEF StillToCome
  <2>4. StillToCome(2 * Xvc!NrBytes - got)' /\ (got <= 2 * Xvc!NrBytes)'
    BY <1>4, <2>3 DEF StillToCome, k
  <2>5. Flow'
    BY <1>1, <1>2, <1>4, <1>5, <2>4 DEF Flow
  <2>6. Xvc!TypeOK'
    BY <1>1, <1>2, <1>5, <2>3 DEF Xvc!TypeOK
  <2>7. Shifted'
    BY <1>2, <1>5 DEF Shifted
  <2>8. QED BY <1>1, <1>2, <1>5, <2>5, <2>6, <2>7 DEF XvcInv, AreBytes
<1>6. CASE Xvc!Close /\ UNCHANGED <<got, offset, tdo>>
  BY <1>1, <1>2, <1>6, CloseXvcInv DEF Xvc!TypeOK
<1>7. CASE /\ got = 2 * k /\ xvcPc' = "transfer" /\ offset' = 0 /\ tdo' = Xvc!Zeros
           /\ UNCHANGED <<conn, unread, got>>
  <2>1. unread = 0
    <3> HIDE DEF k
    <3>1. QED BY <1>3, <1>7 DEF StillToCome
  <2>2. AreBytes(tdo')
    BY <1>7, ZerosAre
  <2>3. Flow'
    BY <1>1, <1>2, <1>4, <1>7, <2>1 DEF Flow
  <2>4. Xvc!TypeOK'
    BY <1>1, <1>2, <1>7, <2>2 DEF Xvc!TypeOK, AreBytes
  <2>5. Shifted'
    <3>1. 1 .. 0 = {} /\ [i \in {} |-> i] = <<>>
      OBVIOUS
    <3>2. driven' = [i \in 1 .. offset' |-> i]
      BY <1>2, <1>3, <1>7, <3>1 DEF NotYetShifted
    <3>3. /\ xvcCmd'.bits \in Nat /\ clocks' = base' + 0 /\ 0 % ByteBits = 0
      <4>1. xvcCmd.bits \in Nat
        BY <1>1, XvcCommandIs
      <4>2. 0 % ByteBits = 0
        BY XvcAssumptions DEF Xvc!XvcAssumption
      <4>3. clocks = base + 0
        BY <1>1, <1>3 DEF NotYetShifted
      <4>4. QED BY <1>2, <4>1, <4>2, <4>3
    <3>4. \A i \in 1 .. offset' : Xvc!AnswerBit(i)' = base' + i
      BY <1>7, <3>1
    <3>5. QED BY <1>7, <3>2, <3>3, <3>4 DEF Shifted
  <2>6. QED BY <1>1, <1>2, <2>2, <2>3, <2>4, <2>5 DEF XvcInv, AreBytes
<1>8. QED BY <1>5, <1>6, <1>7 DEF Xvc!ReceiveAll

LEMMA ReplyXvcInv == ASSUME XvcInv, Xvc!Reply PROVE XvcInv'
<1>1. Xvc!TypeOK /\ base \in Nat /\ AreBytes(tdo) /\ Flow /\ Shifted
  BY DEF XvcInv
<1>2. /\ xvcPc = "reply" /\ UNCHANGED <<conn, xvcCmd, unread, got, offset, tdo, driven, clocks, base>>
  BY DEF Xvc!Reply
<1>3. (xvcPc' = xvcPc \/ xvcPc' = "cmd") /\ sentTo' \in Nat
  <2>1. CASE /\ sentTo < Xvc!NrBytes /\ xvcPc' = xvcPc
             /\ \E n \in 1 .. Xvc!NrBytes - sentTo : sentTo' = sentTo + n
    <3>1. PICK n \in 1 .. Xvc!NrBytes - sentTo : sentTo' = sentTo + n
      BY <2>1
    <3>2. n \in Nat /\ sentTo \in Nat
      BY <1>1 DEF Xvc!TypeOK
    <3>3. QED BY <2>1, <3>1, <3>2
  <2>2. CASE xvcPc' = "cmd" /\ UNCHANGED sentTo
    BY <1>1, <2>2 DEF Xvc!TypeOK
  <2>3. QED BY <2>1, <2>2 DEF Xvc!Reply
<1>4. unread = 0 /\ unread' = 0
  BY <1>1, <1>2 DEF Flow
<1>5. Xvc!TypeOK'
  BY <1>1, <1>2, <1>3 DEF Xvc!TypeOK
<1>6. Flow'
  <2>1. IsShift' = IsShift /\ Xvc!NrBytes' = Xvc!NrBytes
    BY <1>2 DEF IsShift, Xvc!NrBytes
  <2>2. QED BY <1>1, <1>2, <1>3, <1>4, <2>1 DEF Flow
<1>7. Shifted'
  BY <1>1, <1>2, <1>3 DEF Shifted, Xvc!AnswerBit
<1>8. QED BY <1>1, <1>2, <1>5, <1>6, <1>7 DEF XvcInv, AreBytes

LEMMA AcceptXvcInv == ASSUME XvcInv, Xvc!Accept PROVE XvcInv'
<1>1. Xvc!TypeOK /\ base \in Nat /\ AreBytes(tdo) /\ Flow /\ Shifted
  BY DEF XvcInv
<1>2. /\ xvcPc = "accept" /\ conn # "none" /\ xvcPc' = "cmd" /\ xvcCmd' = Xvc!NoCommand
      /\ UNCHANGED <<conn, unread, base, got, offset, tdo, sentTo, driven, clocks>>
  BY DEF Xvc!Accept, Xvc!shiftVars
<1>3. unread = 0
  BY <1>1, <1>2 DEF Flow
<1>4. Xvc!TypeOK'
  BY <1>1, <1>2 DEF Xvc!TypeOK
<1>5. Flow' /\ Shifted'
  BY <1>2, <1>3 DEF Flow, Shifted
<1>6. QED BY <1>1, <1>2, <1>4, <1>5 DEF XvcInv, AreBytes

\* The places of a block in the answer.
LEMMA BlockPlaces ==
  ASSUME NEW e \in Nat, NEW o \in Nat, o < e, o % ByteBits = 0, NEW k \in Nat,
         e <= ByteBits * k, 2 * k <= BufSize
  PROVE  LET n == Xvc!Least(BlockBits, e - o)
             at == o \div ByteBits
         IN  /\ n \in Nat \ {0} /\ at \in Nat /\ o + n <= e /\ at * ByteBits = o
             /\ at + n \div ByteBits <= BufSize - 1
             /\ o + n = e \/ (o + n) % ByteBits = 0
<1> DEFINE b == ByteBits
           n == Xvc!Least(BlockBits, e - o)
           at == o \div b
           q == n \div b
<1>1. /\ b \in Nat \ {0} /\ BlockBits \in Nat \ {0} /\ BlockBits % b = 0 /\ BufSize \in Nat
  BY XvcAssumptions DEF Xvc!XvcAssumption
<1> HIDE DEF b
<1>2. n \in Nat \ {0} /\ o + n <= e /\ (n = e - o \/ n = BlockBits)
  BY <1>1 DEF Xvc!Least
<1> HIDE DEF n
<1>3. at \in Nat /\ o = b * at
  <2> DEFINE r == o % b
  <2>1. at \in Nat /\ r \in 0 .. b - 1 /\ o = b * at + r
    BY <1>1, Division
  <2>2. r = 0
    BY DEF b
  <2> HIDE DEF at, r
  <2>3. b * at \in Nat
    BY <1>1, <2>1
  <2>4. QED BY <2>1, <2>2, <2>3
<1> HIDE DEF at
<1>4. q \in Nat /\ b * q <= n
  <2> DEFINE r == n % b
  <2>1. q \in Nat /\ r \in 0 .. b - 1 /\ n = b * q + r
    BY <1>1, <1>2, Division
  <2> HIDE DEF q, r
  <2> DEFINE y == b * q
  <2>2. y \in Nat /\ n = y + r
    BY <1>1, <2>1
  <2> HIDE DEF y
  <2>3. y <= n
    BY <2>1, <2>2
  <2>4. QED BY <2>1, <2>3 DEF y
<1> HIDE DEF q
<1>5. at + q <= k
  <2> SUFFICES ASSUME k + 1 <= at + q PROVE FALSE
    BY <1>3, <1>4
  <2>1. b * (k + 1) <= b * (at + q)
    BY <1>1, <1>3, <1>4
  <2>2. b * (k + 1) = b * k + b /\ b * (at + q) = b * at + b * q
    BY <1>1, <1>3, <1>4
  <2> DEFINE x == b * k
             y == b * at
             z == b * q
  <2>3. x \in Nat /\ y \in Nat /\ z \in Nat
    BY <1>1, <1>3, <1>4
  <2>4. x + b <= y + z /\ y = o /\ z <= n /\ e <= x
    BY <1>3, <1>4, <2>1, <2>2 DEF b
  <2> HIDE DEF x, y, z
  <2>5. QED BY <1>1, <1>2, <2>3, <2>4
<1>6. k >= 1
  <2>1. k # 0
    <3> SUFFICES ASSUME k = 0 PROVE FALSE
      OBVIOUS
    <3>1. b * k = 0
      BY <1>1
    <3>2. QED BY <3>1 DEF b
  <2>2. QED BY <2>1
<1>7. at + q <= BufSize - 1
  BY <1>1, <1>3, <1>4, <1>5, <1>6
<1>8. o + n = e \/ (o + n) % b = 0
  <2>1. CASE n = BlockBits
    <3> DEFINE c == BlockBits \div b
               r == BlockBits % b
    <3>1. c \in Nat /\ r = 0 /\ BlockBits = b * c + r
      BY <1>1, Division
    <3> HIDE DEF c, r
    <3>2. o + n = b * (at + c) + 0
      BY <1>1, <1>3, <2>1, <3>1
    <3>3. at + c \in Nat /\ 0 \in 0 .. b - 1
      BY <1>1, <1>3, <3>1
    <3>4. (b * (at + c) + 0) % b = 0
      BY <1>1, <3>3, DivisionIs
    <3>5. QED BY <3>2, <3>4
  <2>2. QED BY <1>2, <2>1
<1>9. at * b = o
  BY <1>1, <1>3
<1>10. QED BY <1>2, <1>3, <1>7, <1>8, <1>9 DEF n, at, q, b

\* A block answers the bits of its clocks, and leaves those of the blocks before.
LEMMA BlockAnswers ==
  ASSUME clocks \in Nat, base \in Nat, NEW f, AreBytes(f), NEW o \in Nat,
         NEW n \in Nat \ {0}, NEW at \in Nat, at * ByteBits = o, clocks = base + o,
         at + n \div ByteBits <= BufSize - 1,
         \A i \in 1 .. o : f[(i - 1) \div ByteBits][((i - 1) % ByteBits) + 1] = base + i
  PROVE  LET g == Xvc!GetTdo(f, at, n)
         IN  \A i \in 1 .. o + n :
               g[(i - 1) \div ByteBits][((i - 1) % ByteBits) + 1] = base + i
<1> DEFINE b == ByteBits
           g == Xvc!GetTdo(f, at, n)
<1>1. b \in Nat \ {0} /\ BufSize \in Nat
  BY XvcAssumptions DEF Xvc!XvcAssumption
<1>2. /\ \A i \in 0 .. BufSize - 1 : i < at => g[i] = f[i]
      /\ \A p \in 0 .. n - 1 : g[at + p \div b][(p % b) + 1] = clocks + p + 1
  BY GetTdoIs
<1>3. \A i \in 1 .. o : f[(i - 1) \div b][((i - 1) % b) + 1] = base + i
  OBVIOUS
<1>4. at * b = o /\ at + n \div b <= BufSize - 1 /\ n \div b \in Nat
  BY <1>1, Division
<1> HIDE DEF b, g
<1> SUFFICES ASSUME NEW i \in 1 .. o + n
             PROVE  g[(i - 1) \div b][((i - 1) % b) + 1] = base + i
  BY DEF b, g
<1>5. CASE i <= o
  <2> DEFINE q == (i - 1) \div b
             r == (i - 1) % b
  <2>1. i - 1 \in Nat /\ i \in 1 .. o
    BY <1>5
  <2>2. q \in Nat /\ r \in 0 .. b - 1 /\ i - 1 = b * q + r
    BY <1>1, <2>1, Division
  <2>3. f[q][r + 1] = base + i
    BY <1>3, <2>1
  <2> HIDE DEF q, r
  <2>4. q < at
    <3> SUFFICES ASSUME at <= q PROVE FALSE
      BY <2>2
    <3>1. b * at <= b * q /\ b * at = at * b
      BY <1>1, <2>2
    <3> DEFINE y == b * q
    <3>2. y \in Nat /\ o <= y /\ i - 1 = y + r
      BY <1>1, <1>4, <2>2, <3>1
    <3> HIDE DEF y
    <3>3. QED BY <1>1, <1>5, <2>2, <3>2
  <2>5. q \in 0 .. BufSize - 1
    BY <1>1, <1>4, <2>2, <2>4
  <2>6. g[q][r + 1] = base + i
    BY <1>2, <2>3, <2>4, <2>5
  <2>7. QED BY <2>6 DEF q, r
<1>6. CASE ~(i <= o)
  <2> DEFINE p == i - 1 - o
             q == p \div b
             r == p % b
  <2>1. p \in 0 .. n - 1 /\ p \in Nat /\ i - 1 = o + p
    BY <1>6
  <2>2. g[at + q][r + 1] = clocks + p + 1
    BY <1>2, <2>1
  <2> HIDE DEF p
  <2>3. q \in Nat /\ r \in 0 .. b - 1 /\ p = b * q + r
    BY <1>1, <2>1, Division
  <2> HIDE DEF q, r
  <2>4. i - 1 = b * (at + q) + r
    <3>1. b * (at + q) = b * at + b * q /\ b * at = at * b
      BY <1>1, <2>3
    <3> DEFINE y == b * q
    <3>2. y \in Nat /\ p = y + r /\ b * (at + q) = o + y
      BY <1>1, <1>4, <2>3, <3>1
    <3> HIDE DEF y
    <3> DEFINE z == b * (at + q)
    <3>3. z = o + y
      BY <3>2
    <3> HIDE DEF z
    <3>4. i - 1 = z + r
      BY <1>1, <2>1, <2>3, <3>2, <3>3
    <3>5. QED BY <3>4 DEF z
  <2>5. at + q \in Nat
    BY <2>3
  <2>6. (b * (at + q) + r) \div b = at + q /\ (b * (at + q) + r) % b = r
    BY <1>1, <2>3, <2>5, DivisionIs
  <2>7. (i - 1) \div b = at + q /\ (i - 1) % b = r
    BY <2>4, <2>6
  <2>8. clocks + p + 1 = base + i
    BY <2>1
  <2>9. QED BY <2>2, <2>7, <2>8
<1>7. QED BY <1>5, <1>6

LEMMA CountedOn ==
  ASSUME NEW o \in Nat, NEW n \in Nat
  PROVE  [i \in 1 .. o |-> i] \o [i \in 1 .. n |-> o + i] = [i \in 1 .. o + n |-> i]
<1> DEFINE p == [i \in 1 .. o |-> i]
           q == [i \in 1 .. n |-> o + i]
           r == [i \in 1 .. o + n |-> i]
           v == p \o q
<1>1. /\ p \in Seq(Nat) /\ Len(p) = o /\ \A i \in 1 .. o : p[i] = i
      /\ q \in Seq(Nat) /\ Len(q) = n /\ \A i \in 1 .. n : q[i] = o + i
      /\ r \in Seq(Nat) /\ Len(r) = o + n /\ \A i \in 1 .. o + n : r[i] = i
  OBVIOUS
<1> HIDE DEF p, q, r
<1>2. IsJoin(v, p, q, Nat)
  BY <1>1, JoinIs
<1> HIDE DEF v
<1>3. /\ v \in Seq(Nat) /\ Len(v) = o + n /\ \A i \in 1 .. o : v[i] = i
      /\ \A i \in 1 .. n : v[o + i] = o + i
  BY <1>1, <1>2 DEF IsJoin
<1>4. ASSUME NEW i \in 1 .. o + n PROVE v[i] = i
  <2>1. CASE i <= o
    BY <1>3, <2>1
  <2>2. CASE ~(i <= o)
    <3> DEFINE j == i - o
    <3>1. j \in 1 .. n /\ o + j = i
      BY <2>2
    <3> HIDE DEF j
    <3>2. QED BY <1>3, <3>1
  <2>3. QED BY <2>1, <2>2
<1>5. v = r
  BY <1>1, <1>3, <1>4, SeqEqual
<1>6. QED BY <1>5 DEF v, p, q, r

LEMMA TransferXvcInv == ASSUME XvcInv, Xvc!Transfer PROVE XvcInv'
<1>1. Xvc!TypeOK /\ base \in Nat /\ AreBytes(tdo) /\ Flow /\ Shifted
  BY DEF XvcInv
<1>2. xvcPc = "transfer" /\ UNCHANGED <<xvcCmd, got, base>>
  BY DEF Xvc!Transfer
<1>3. /\ IsShift /\ unread = 0 /\ got = 2 * Xvc!NrBytes
      /\ offset <= xvcCmd.bits /\ clocks = base + offset
      /\ offset = xvcCmd.bits \/ offset % ByteBits = 0
      /\ driven = [i \in 1 .. offset |-> i]
      /\ \A i \in 1 .. offset : Xvc!AnswerBit(i) = base + i
  BY <1>1, <1>2 DEF Flow, Shifted
<1>4. /\ offset \in Nat /\ clocks \in Nat /\ xvcCmd.bits \in Nat
      /\ Xvc!NrBytes \in Nat /\ xvcCmd.bits <= ByteBits * Xvc!NrBytes
  BY <1>1, XvcCommandIs DEF Xvc!TypeOK
<1>5. IsShift' /\ Xvc!NrBytes' = Xvc!NrBytes
  BY <1>2, <1>3 DEF IsShift, Xvc!NrBytes
<1>6. CASE /\ offset < xvcCmd.bits
           /\ LET n == Xvc!Least(BlockBits, xvcCmd.bits - offset)
                  at == offset \div ByteBits
              IN  /\ tdo' = Xvc!GetTdo(tdo, at, n)
                  /\ driven' = driven \o Xvc!Packed(at, n)
                  /\ clocks' = clocks + n /\ offset' = offset + n
           /\ UNCHANGED <<xvcPc, conn, unread, sentTo>>
  <2> DEFINE e == xvcCmd.bits
             o == offset
             k == Xvc!NrBytes
             n == Xvc!Least(BlockBits, e - o)
             at == o \div ByteBits
             g == Xvc!GetTdo(tdo, at, n)
  <2>1. /\ tdo' = g /\ driven' = driven \o Xvc!Packed(at, n)
        /\ clocks' = clocks + n /\ offset' = o + n
    BY <1>6
  <2>2. /\ n \in Nat \ {0} /\ at \in Nat /\ o + n <= e /\ at * ByteBits = o
        /\ at + n \div ByteBits <= BufSize - 1
        /\ o + n = e \/ (o + n) % ByteBits = 0
    <3>1. o < e /\ o % ByteBits = 0 /\ 2 * k <= BufSize /\ e <= ByteBits * k
      BY <1>3, <1>4, <1>6 DEF IsShift
    <3>2. o \in Nat /\ e \in Nat /\ k \in Nat
      BY <1>4
    <3> HIDE DEF o, e, k
    <3>3. QED BY <3>1, <3>2, BlockPlaces
  <2> HIDE DEF n, at
  <2>3. AreBytes(g)
    BY <1>1, <1>4, <2>2, GetTdoIs
  <2>4. \A i \in 1 .. o + n : g[(i - 1) \div ByteBits][((i - 1) % ByteBits) + 1] = base + i
    <3>1. \A i \in 1 .. o : tdo[(i - 1) \div ByteBits][((i - 1) % ByteBits) + 1] = base + i
      BY <1>3 DEF Xvc!AnswerBit
    <3>2. QED BY <1>1, <1>3, <1>4, <2>2, <3>1, BlockAnswers
  <2> HIDE DEF g
  <2>5. driven' = [i \in 1 .. o + n |-> i]
    <3>1. Xvc!Packed(at, n) = [i \in 1 .. n |-> o + i]
      BY <2>2 DEF Xvc!Packed
    <3>2. n \in Nat
      BY <2>2
    <3>3. driven' = [i \in 1 .. o |-> i] \o [i \in 1 .. n |-> o + i]
      BY <1>3, <2>1, <3>1
    <3>4. QED BY <1>4, <3>2, <3>3, CountedOn
  <2>6. o + n \in Nat /\ clocks + n \in Nat /\ clocks + n = base + (o + n)
    BY <1>1, <1>3, <1>4, <2>2
  <2>7. Xvc!TypeOK'
    <3>1. DOMAIN tdo' = 0 .. BufSize - 1
      BY <2>1, <2>3 DEF AreBytes
    <3>2. clocks' \in Nat /\ offset' \in Nat
      BY <2>1, <2>6
    <3>3. QED BY <1>1, <1>2, <1>6, <3>1, <3>2 DEF Xvc!TypeOK
  <2>8. Shifted'
    <3>1. xvcPc' = "transfer" /\ xvcCmd'.bits = e /\ base' = base
      BY <1>2, <1>6
    <3>2. \A i \in 1 .. offset' : Xvc!AnswerBit(i)' = base' + i
      BY <2>1, <2>4, <3>1 DEF Xvc!AnswerBit
    <3>3. /\ offset' <= e /\ clocks' = base + offset'
          /\ offset' = e \/ offset' % ByteBits = 0
          /\ driven' = [i \in 1 .. offset' |-> i]
      BY <2>1, <2>2, <2>5, <2>6
    <3>4. QED BY <3>1, <3>2, <3>3 DEF Shifted
  <2>9. Flow'
    BY <1>1, <1>2, <1>3, <1>5, <1>6 DEF Flow
  <2>10. AreBytes(tdo')
    BY <2>1, <2>3
  <2>11. QED BY <1>1, <1>2, <2>7, <2>8, <2>9, <2>10 DEF XvcInv, AreBytes
<1>7. CASE xvcCmd.bits = 0 /\ Xvc!Close /\ UNCHANGED <<offset, tdo, driven, clocks, sentTo>>
  BY <1>1, <1>2, <1>7, CloseXvcInv DEF Xvc!TypeOK
<1>8. CASE /\ offset = xvcCmd.bits /\ xvcPc' = "reply" /\ sentTo' = 0
           /\ UNCHANGED <<conn, unread, offset, tdo, driven, clocks>>
  <2>1. Xvc!TypeOK'
    BY <1>1, <1>2, <1>8 DEF Xvc!TypeOK
  <2>2. Flow'
    BY <1>1, <1>2, <1>3, <1>5, <1>8 DEF Flow
  <2>3. Shifted'
    BY <1>1, <1>2, <1>8 DEF Shifted, Xvc!AnswerBit
  <2>4. QED BY <1>1, <1>2, <1>8, <2>1, <2>2, <2>3 DEF XvcInv, AreBytes
<1>9. QED BY <1>6, <1>7, <1>8 DEF Xvc!Transfer

LEMMA NextXvcInv == ASSUME XvcInv, Xvc!Next \/ UNCHANGED xvcVars PROVE XvcInv'
<1>1. CASE UNCHANGED xvcVars
  <2>1. /\ xvcPc' = xvcPc /\ conn' = conn /\ xvcCmd' = xvcCmd /\ unread' = unread /\ got' = got
        /\ offset' = offset /\ tdo' = tdo /\ sentTo' = sentTo /\ driven' = driven
        /\ clocks' = clocks /\ base' = base
    BY <1>1 DEF xvcVars
  <2>2. Xvc!TypeOK' /\ AreBytes(tdo)'
    BY <2>1 DEF XvcInv, Xvc!TypeOK, AreBytes
  <2>3. /\ Xvc!NrBytes' = Xvc!NrBytes /\ Xvc!Size(xvcCmd)' = Xvc!Size(xvcCmd)
        /\ NotYetShifted' = NotYetShifted /\ IsShift' = IsShift
    BY <2>1 DEF Xvc!NrBytes, Xvc!Size, NotYetShifted, IsShift
  <2>4. Flow'
    BY <2>1, <2>3 DEF XvcInv, Flow, StillToCome
  <2>5. Shifted'
    BY <2>1 DEF XvcInv, Shifted, Xvc!AnswerBit
  <2>6. QED BY <2>1, <2>2, <2>4, <2>5 DEF XvcInv
<1>2. CASE Xvc!Next
  BY <1>2, ClientXvcInv, AcceptXvcInv, ReceiveXvcInv, ReceiveAllXvcInv, TransferXvcInv,
     ReplyXvcInv DEF Xvc!Next, Xvc!Server
<1>3. QED BY <1>1, <1>2

LEMMA XvcInvMeans == ASSUME XvcInv PROVE Xvc!ShiftsExact
<1>1. Xvc!InStep
  BY DEF XvcInv, Flow, StillToCome, Xvc!InStep
<1>2. Xvc!ShiftedWhole
  BY DEF XvcInv, Flow, Shifted, NotYetShifted, Xvc!ShiftedWhole
<1>3. Xvc!AnswerIsTdo
  BY DEF XvcInv, Shifted, Xvc!AnswerIsTdo
<1>4. QED BY <1>1, <1>2, <1>3 DEF XvcInv, Xvc!ShiftsExact

\* xvc_server.c, xvc_handle_client_v3: for any size of a byte, a block and the buffer,
\* and any pieces in which the commands arrive, no data are taken for a command; a
\* shift reaches the target whole and once, or not at all when its data do not all
\* arrive; and its answer is the TDO of its own clocks, across bytes and blocks,
\* although the FPGA returns each bit one late.
THEOREM AnswersExact == MCSpec => []ShiftsExact
<1> DEFINE I == part = "xvc" => XvcInv
<1>1. MCInit => I
  BY InitXvcInv DEF MCInit
<1>2. I /\ [MCNext]_mcVars => I'
  BY NextXvcInv, PartSteps
<1>3. I => ShiftsExact
  BY XvcInvMeans DEF ShiftsExact
<1>4. QED BY <1>1, <1>2, <1>3, PTL DEF MCSpec

-----------------------------------------------------------------------------
(* Settings, boot and network.                                               *)

Settings == Device!Names \cup Device!Words \cup {"AP", "SM", "none"}
KeyWrites == [key : Device!Keys, value : Settings]

\* What a key of the flash can hold.
ValuesOf(k) ==
  CASE k = "mode" -> {"AP", "SM", "none"}
    [] k \in {"ssid", "ap_ssid"} -> Device!Names \cup {"none"}
    [] k \in {"pass", "ap_pass"} -> Device!Words \cup {"none"}
    [] OTHER -> {"default", "own", "none"}

Elements(t) == {t[i] : i \in 1 .. Len(t)}
OneOfEach(t) == \A i, j \in 1 .. Len(t) : t[i].key = t[j].key => i = j

KeysTyped ==
  /\ \A k \in Device!Keys : nvs[k] \in ValuesOf(k)
  /\ \A w \in Elements(todo) : w.value \in ValuesOf(w.key)
  /\ OneOfEach(todo)

\* The value that a key has when it is next read: the default when it is erased.
WhenRead(k, v) == IF v = "none" THEN Device!DefaultOf(k) ELSE v

\* What was asked for is what the flash will hold, once the handler has made the
\* writes it still has to, or is not known.
AskedKeys == {"mode", "ssid", "pass", "ports", "ap_ssid", "ap_pass"}
WillHold ==
  /\ \A w \in Elements(todo) :
       w.key \in AskedKeys => Device!Agrees(asked[w.key], WhenRead(w.key, w.value))
  /\ \A k \in AskedKeys :
       ~Device!Pending(k) => Device!Agrees(asked[k], WhenRead(k, nvs[k]))

Tasks ==
  /\ main = "settings" <=> http = "off"
  /\ http # "saving" => todo = <<>>

Running == main \notin {"settings", "restart"} /\ (http = "idle" \/ (http = "saving" /\ ~restart))

\* A device that no request is about to restart runs with what the flash holds, and
\* a handler at most writes again what is there.
RunsAsStored ==
  Running =>
    /\ ram.mode \in {"AP", "SM"} /\ ram.ssid # "none" /\ ram.pass # "none" /\ ram.ports # "none"
    /\ nvs.mode = ram.mode /\ nvs.ports = ram.ports
    /\ nvs[Device!SsidKey(ram)] = ram.ssid /\ nvs[Device!PassKey(ram)] = ram.pass
    /\ \A w \in Elements(todo) : w.key = "rest" \/ w = Device!Write("ports", ram.ports)

DeviceInv == Device!TypeOK /\ KeysTyped /\ WillHold /\ Tasks /\ RunsAsStored

-----------------------------------------------------------------------------
LEMMA KeysAre ==
  /\ DOMAIN Device!Defaults = AskedKeys
  /\ Device!Keys = AskedKeys \cup {"rest"}
  /\ \A k \in AskedKeys : Device!DefaultOf(k) = Device!Defaults[k] /\ k # "rest"
  /\ \A k \in Device!Keys : /\ ValuesOf(k) \subseteq Settings
                            /\ Device!DefaultOf(k) \in ValuesOf(k) \ {"none"}
BY DEF Device!Defaults, AskedKeys, Device!Keys, Device!DefaultOf, ValuesOf, Settings,
   Device!Names, Device!Words

LEMMA PendingIs ==
  ASSUME NEW k PROVE Device!Pending(k) <=> \E w \in Elements(todo) : w.key = k
BY DEF Device!Pending, Elements

\* Writes one after the other.
LEMMA JoinedWrites ==
  ASSUME NEW p \in Seq(KeyWrites), NEW q \in Seq(KeyWrites), OneOfEach(p), OneOfEach(q),
         \A v \in Elements(p), w \in Elements(q) : v.key # w.key
  PROVE  /\ p \o q \in Seq(KeyWrites) /\ OneOfEach(p \o q)
         /\ Elements(p \o q) = Elements(p) \cup Elements(q)
<1> DEFINE W == KeyWrites
           r == p \o q
<1>1. p \in Seq(W) /\ q \in Seq(W)
  OBVIOUS
<1> HIDE DEF W
<1>2. IsJoin(r, p, q, W)
  BY <1>1, JoinIs
<1> HIDE DEF r
<1>3. /\ r \in Seq(W) /\ Len(r) = Len(p) + Len(q) /\ Len(p) \in Nat /\ Len(q) \in Nat
      /\ \A i \in 1 .. Len(p) : r[i] = p[i]
      /\ \A i \in 1 .. Len(q) : r[Len(p) + i] = q[i]
  BY <1>2 DEF IsJoin
<1>4. ASSUME NEW i \in 1 .. Len(r)
      PROVE  \/ i \in 1 .. Len(p) /\ r[i] = p[i]
             \/ i - Len(p) \in 1 .. Len(q) /\ r[i] = q[i - Len(p)]
  <2>1. CASE i <= Len(p)
    BY <1>3, <2>1
  <2>2. CASE ~(i <= Len(p))
    <3> DEFINE j == i - Len(p)
    <3>1. j \in 1 .. Len(q) /\ Len(p) + j = i
      BY <1>3, <2>2
    <3> HIDE DEF j
    <3>2. r[i] = q[j]
      BY <1>3, <3>1
    <3>3. QED BY <3>1, <3>2 DEF j
  <2>3. QED BY <2>1, <2>2
<1>5. Elements(r) = Elements(p) \cup Elements(q)
  <2>1. Elements(r) \subseteq Elements(p) \cup Elements(q)
    BY <1>4 DEF Elements
  <2>2. ASSUME NEW i \in 1 .. Len(p) PROVE p[i] \in Elements(r)
    <3>1. i \in 1 .. Len(r)
      BY <1>3
    <3>2. QED BY <1>3, <3>1 DEF Elements
  <2>3. ASSUME NEW i \in 1 .. Len(q) PROVE q[i] \in Elements(r)
    <3> DEFINE j == Len(p) + i
    <3>1. j \in 1 .. Len(r)
      BY <1>3
    <3>2. r[j] = q[i]
      BY <1>3
    <3> HIDE DEF j
    <3>3. QED BY <3>1, <3>2 DEF Elements
  <2>4. QED BY <2>1, <2>2, <2>3 DEF Elements
<1>6. OneOfEach(r)
  <2> SUFFICES ASSUME NEW i \in 1 .. Len(r), NEW j \in 1 .. Len(r), r[i].key = r[j].key
               PROVE  i = j
    BY DEF OneOfEach
  <2> DEFINE a == i - Len(p)
             b == j - Len(p)
  <2>1. /\ \/ i \in 1 .. Len(p) /\ r[i] = p[i]
           \/ a \in 1 .. Len(q) /\ r[i] = q[a]
        /\ \/ j \in 1 .. Len(p) /\ r[j] = p[j]
           \/ b \in 1 .. Len(q) /\ r[j] = q[b]
    BY <1>4
  <2>2. a = b => i = j
    BY <1>3
  <2> HIDE DEF a, b
  <2>3. \A m \in 1 .. Len(p), n \in 1 .. Len(q) : p[m].key # q[n].key
    BY DEF Elements
  <2>4. QED BY <2>1, <2>2, <2>3 DEF OneOfEach
<1>7. QED BY <1>3, <1>5, <1>6 DEF r, W

LEMMA FewWrites ==
  /\ <<>> \in Seq(KeyWrites) /\ OneOfEach(<<>>) /\ Elements(<<>>) = {}
  /\ \A v \in KeyWrites :
       <<v>> \in Seq(KeyWrites) /\ OneOfEach(<<v>>) /\ Elements(<<v>>) = {v}
  /\ \A v, w \in KeyWrites :
       v.key # w.key => /\ <<v, w>> \in Seq(KeyWrites) /\ OneOfEach(<<v, w>>)
                        /\ Elements(<<v, w>>) = {v, w}
<1> DEFINE W == KeyWrites
<1> HIDE DEF W
<1>1. <<>> \in Seq(W) /\ OneOfEach(<<>>) /\ Elements(<<>>) = {}
  BY DEF OneOfEach, Elements
<1>2. ASSUME NEW v \in W PROVE <<v>> \in Seq(W) /\ OneOfEach(<<v>>) /\ Elements(<<v>>) = {v}
  BY DEF OneOfEach, Elements
<1>3. ASSUME NEW v \in W, NEW w \in W, v.key # w.key
      PROVE  <<v, w>> \in Seq(W) /\ OneOfEach(<<v, w>>) /\ Elements(<<v, w>>) = {v, w}
  <2> DEFINE t == <<v, w>>
  <2>1. t \in Seq(W) /\ Len(t) = 2 /\ t[1] = v /\ t[2] = w /\ 1 .. 2 = {1, 2}
    OBVIOUS
  <2> HIDE DEF t
  <2>2. t \in Seq(W) /\ OneOfEach(t) /\ Elements(t) = {v, w}
    BY <1>3, <2>1 DEF OneOfEach, Elements
  <2>3. QED BY <2>2 DEF t
<1>4. QED BY <1>1, <1>2, <1>3 DEF W

\* The first write is made.
LEMMA FirstWrite ==
  ASSUME NEW t \in Seq(KeyWrites), t # <<>>, OneOfEach(t)
  PROVE  /\ Head(t) \in Elements(t) /\ Head(t) \in KeyWrites
         /\ Tail(t) \in Seq(KeyWrites) /\ OneOfEach(Tail(t))
         /\ Elements(Tail(t)) = {w \in Elements(t) : w.key # Head(t).key}
<1> DEFINE W == KeyWrites
           u == Tail(t)
           n == Len(t)
<1>1. t \in Seq(W)
  OBVIOUS
<1> HIDE DEF W
<1>2. /\ Head(t) = t[1] /\ Head(t) \in W /\ n \in Nat \ {0}
      /\ u \in Seq(W) /\ Len(u) = n - 1 /\ \A i \in 1 .. n - 1 : u[i] = t[i + 1]
  <2>1. n \in Nat \ {0} /\ Head(t) = t[1]
    BY <1>1
  <2>2. t[1] \in W
    BY <1>1, <2>1
  <2>3. QED BY <1>1, <2>1, <2>2, HeadTailProperties
<1> HIDE DEF u
<1>3. 1 \in 1 .. n /\ \A i \in 1 .. n - 1 : i + 1 \in 1 .. n /\ i + 1 # 1
  BY <1>2
<1>4. OneOfEach(u)
  BY <1>2, <1>3 DEF OneOfEach
<1>5. ASSUME NEW i \in 1 .. n - 1 PROVE u[i] \in Elements(t) /\ u[i].key # t[1].key
  <2> DEFINE j == i + 1
  <2>1. j \in 1 .. n /\ j # 1 /\ u[i] = t[j]
    BY <1>2, <1>3
  <2> HIDE DEF j
  <2>2. QED BY <1>3, <2>1 DEF OneOfEach, Elements
<1>6. ASSUME NEW j \in 1 .. n, t[j].key # t[1].key PROVE t[j] \in Elements(u)
  <2> DEFINE i == j - 1
  <2>1. i \in 1 .. n - 1 /\ i + 1 = j
    BY <1>2, <1>6
  <2> HIDE DEF i
  <2>2. u[i] = t[j] /\ i \in 1 .. Len(u)
    BY <1>2, <2>1
  <2>3. QED BY <2>2 DEF Elements
<1>7. Elements(u) = {w \in Elements(t) : w.key # t[1].key}
  <2>1. Elements(u) \subseteq {w \in Elements(t) : w.key # t[1].key}
    BY <1>2, <1>5 DEF Elements
  <2>2. ASSUME NEW w \in Elements(t), w.key # t[1].key PROVE w \in Elements(u)
    <3>1. PICK j \in 1 .. n : w = t[j]
      BY DEF Elements
    <3>2. QED BY <1>6, <2>2, <3>1
  <2>3. QED BY <2>1, <2>2
<1>8. QED BY <1>2, <1>3, <1>4, <1>7 DEF Elements, u, W

LEMMA InitDeviceInv == ASSUME Device!Init PROVE DeviceInv
<1>1. /\ todo = <<>> /\ Elements(todo) = {} /\ OneOfEach(todo) /\ todo \in Seq(KeyWrites)
      /\ \A k : ~Device!Pending(k)
  BY FewWrites, PendingIs DEF Device!Init
<1>2. asked = Device!Defaults /\ nvs = [k \in Device!Keys |-> "none"]
  BY DEF Device!Init
<1>3. Device!TypeOK
  <2>1. asked \in [DOMAIN Device!Defaults -> Device!Names \cup Device!Words \cup {"AP", "SM", "unknown"}]
    BY <1>2 DEF Device!Defaults, Device!Names, Device!Words
  <2>2. limit \in Limits
    BY DEF Device!Init
  <2>3. left \in [saves : Nat, losses : Nat, leaves : Nat]
    BY DeviceAssumptions DEF Device!Init, Device!LimitsAssumption
  <2>4. todo \in Seq([key : Device!Keys, value : Device!Names \cup Device!Words \cup {"AP", "SM", "none"}])
    BY <1>1 DEF KeyWrites, Settings
  <2>5. nvs \in [Device!Keys -> Device!Names \cup Device!Words \cup {"AP", "SM", "none"}]
    BY <1>2
  <2>6. try \in 1 .. MaxRetry
    BY DeviceAssumptions DEF Device!Init, Device!MaxRetryAssumption
  <2>7. QED BY <2>1, <2>2, <2>3, <2>4, <2>5, <2>6 DEF Device!Init, Device!TypeOK, Device!Off
<1>4. KeysTyped
  BY <1>1, <1>2 DEF KeysTyped, ValuesOf
<1>5. WillHold
  <2>1. \A k \in AskedKeys : nvs[k] = "none" /\ asked[k] = Device!DefaultOf(k)
    BY <1>2, KeysAre
  <2>2. QED BY <1>1, <2>1 DEF WillHold, WhenRead, Device!Agrees
<1>6. Tasks /\ RunsAsStored
  BY <1>1 DEF Device!Init, Tasks, RunsAsStored, Running
<1>7. QED BY <1>3, <1>4, <1>5, <1>6 DEF DeviceInv

\* A restart loses what a handler still had to write.
LEMMA RestartedInv ==
  ASSUME DeviceInv, Device!Restarted, UNCHANGED <<nvs, limit>>,
         left' \in [saves : Nat, losses : Nat, leaves : Nat]
  PROVE  DeviceInv'
<1>1. Device!TypeOK /\ KeysTyped /\ WillHold
  BY DEF DeviceInv
<1>2. /\ todo' = <<>> /\ Elements(todo') = {} /\ OneOfEach(todo') /\ todo' \in Seq(KeyWrites)
      /\ main' = "settings" /\ http' = "off" /\ ram' = Device!Off
      /\ nvs' = nvs /\ limit' = limit /\ bits' = {} /\ wifi' = "off" /\ try' = 1 /\ restart' = FALSE
  BY FewWrites DEF Device!Restarted
<1>3. asked \in [AskedKeys -> Device!Names \cup Device!Words \cup {"AP", "SM", "unknown"}]
  BY <1>1, KeysAre DEF Device!TypeOK
<1>4. asked' = [k \in AskedKeys |-> IF Device!Pending(k) THEN "unknown" ELSE asked[k]]
  BY <1>3 DEF Device!Restarted
<1>5. Device!TypeOK'
  <2>1. asked' \in [DOMAIN Device!Defaults -> Device!Names \cup Device!Words \cup {"AP", "SM", "unknown"}]
    BY <1>3, <1>4, KeysAre
  <2>2. try' \in 1 .. MaxRetry
    BY <1>2, DeviceAssumptions DEF Device!MaxRetryAssumption
  <2>3. todo' \in Seq([key : Device!Keys, value : Device!Names \cup Device!Words \cup {"AP", "SM", "none"}])
    BY <1>2 DEF KeyWrites, Settings
  <2>4. QED BY <1>1, <1>2, <2>1, <2>2, <2>3 DEF Device!TypeOK, Device!Off
<1>6. KeysTyped'
  BY <1>1, <1>2 DEF KeysTyped
<1>7. WillHold'
  BY <1>1, <1>2, <1>4 DEF WillHold, Device!Agrees, WhenRead
<1>8. Tasks' /\ RunsAsStored'
  BY <1>2 DEF Tasks, RunsAsStored, Running
<1>9. QED BY <1>5, <1>6, <1>7, <1>8 DEF DeviceInv

\* The network and the radio do not touch the settings.
LEMMA QuietDeviceInv ==
  ASSUME DeviceInv, Device!TypeOK', UNCHANGED <<nvs, ram, http, todo, restart, asked>>,
         main' = "settings" <=> main = "settings",
         main \in {"settings", "restart"} => main' = main
  PROVE  DeviceInv'
<1>1. KeysTyped' /\ WillHold'
  BY DEF DeviceInv, KeysTyped, WillHold, Device!Pending
<1>2. Tasks'
  BY DEF DeviceInv, Tasks
<1>3. RunsAsStored'
  BY DEF DeviceInv, RunsAsStored, Running
<1>4. QED BY <1>1, <1>2, <1>3 DEF DeviceInv

LEMMA NetworkDeviceInv ==
  ASSUME DeviceInv,
         \/ Device!InitAp \/ Device!InitSta \/ Device!Started \/ Device!ClearBits
         \/ Device!Connect \/ Device!Await \/ Device!Again
         \/ Device!Join \/ Device!Refuse \/ Device!Leave
  PROVE  DeviceInv'
<1>1. Device!TypeOK
  BY DEF DeviceInv
<1>2. /\ UNCHANGED <<nvs, ram, http, todo, restart, asked, limit>>
      /\ main' = "settings" <=> main = "settings"
      /\ main \in {"settings", "restart"} => main' = main
      /\ main' \in {"settings", "start", "started", "clear", "connect", "wait", "again",
                    "run", "failed", "restart"}
      /\ wifi' \in {"off", "ap", "idle", "joining", "joined"}
      /\ bits' \subseteq {"started", "connected", "disconnected"}
  BY <1>1 DEF Device!InitAp, Device!InitSta, Device!Started, Device!ClearBits, Device!Connect,
     Device!Await, Device!Again, Device!Join, Device!Refuse, Device!Leave, Device!TypeOK
<1>3. try' \in 1 .. MaxRetry
  BY <1>1, DeviceAssumptions
  DEF Device!InitAp, Device!InitSta, Device!Started, Device!ClearBits, Device!Connect,
     Device!Await, Device!Again, Device!Join, Device!Refuse, Device!Leave, Device!TypeOK,
     Device!MaxRetryAssumption
<1>4. left' \in [saves : Nat, losses : Nat, leaves : Nat]
  <2>1. CASE left' = left
    BY <1>1, <2>1 DEF Device!TypeOK
  <2>2. CASE left.leaves > 0 /\ left' = [left EXCEPT !.leaves = @ - 1]
    BY <1>1, <2>2 DEF Device!TypeOK
  <2>3. QED
    BY <2>1, <2>2 DEF Device!InitAp, Device!InitSta, Device!Started, Device!ClearBits,
       Device!Connect, Device!Await, Device!Again, Device!Join, Device!Refuse, Device!Leave
<1>5. Device!TypeOK'
  BY <1>1, <1>2, <1>3, <1>4 DEF Device!TypeOK
<1>6. QED BY <1>2, <1>5, QuietDeviceInv

\* A missing key is given the value it was read as.
LEMMA WriteDefaultDeviceInv == ASSUME DeviceInv, Device!WriteDefault PROVE DeviceInv'
<1>1. Device!TypeOK /\ KeysTyped /\ WillHold /\ Tasks
  BY DEF DeviceInv
<1>2. PICK i \in Device!Missing :
        nvs' = [nvs EXCEPT ![Device!BootOrder[i]] = Device!DefaultOf(Device!BootOrder[i])]
  BY DEF Device!WriteDefault
<1> DEFINE k == Device!BootOrder[i]
<1>3. k \in Device!Keys /\ nvs[k] = "none"
  BY DEF Device!Missing, Device!BootOrder, Device!Keys
<1> HIDE DEF k
<1>4. nvs' = [nvs EXCEPT ![k] = Device!DefaultOf(k)]
  BY <1>2 DEF k
<1>5. /\ main = "settings"
      /\ UNCHANGED <<ram, main, try, bits, wifi, http, todo, restart, asked, left, limit>>
  BY DEF Device!WriteDefault
<1>6. /\ nvs \in [Device!Keys -> Settings] /\ nvs' \in [Device!Keys -> Settings]
      /\ nvs'[k] = Device!DefaultOf(k) /\ \A j \in Device!Keys : j # k => nvs'[j] = nvs[j]
  <2>1. nvs \in [Device!Keys -> Settings]
    BY <1>1 DEF Device!TypeOK, Settings
  <2>2. Device!DefaultOf(k) \in Settings
    BY <1>3, KeysAre
  <2>3. QED BY <1>3, <1>4, <2>1, <2>2
<1>7. Device!TypeOK'
  BY <1>1, <1>5, <1>6 DEF Device!TypeOK, Settings
<1>8. KeysTyped'
  BY <1>1, <1>3, <1>5, <1>6, KeysAre DEF KeysTyped
<1>9. WillHold'
  <2>1. \A j \in AskedKeys : WhenRead(j, nvs'[j]) = WhenRead(j, nvs[j])
    BY <1>3, <1>6, KeysAre DEF WhenRead
  <2>2. \A j : Device!Pending(j)' <=> Device!Pending(j)
    BY <1>5 DEF Device!Pending
  <2>3. QED BY <1>1, <1>5, <2>1, <2>2 DEF WillHold
<1>10. Tasks' /\ RunsAsStored'
  BY <1>1, <1>5 DEF Tasks, RunsAsStored, Running
<1>11. QED BY <1>7, <1>8, <1>9, <1>10 DEF DeviceInv

\* What is loaded is what is stored, and nothing of it is missing.
LEMMA LoadSettingsDeviceInv == ASSUME DeviceInv, Device!LoadSettings PROVE DeviceInv'
<1>1. Device!TypeOK /\ KeysTyped /\ WillHold /\ Tasks
  BY DEF DeviceInv
<1>2. /\ main = "settings" /\ Device!Missing = {} /\ main' = "start" /\ http' = "idle"
      /\ ram' = IF nvs.mode = "SM"
                THEN [mode |-> "SM", ssid |-> nvs.ssid, pass |-> nvs.pass, ports |-> nvs.ports]
                ELSE [mode |-> "AP", ssid |-> nvs.ap_ssid, pass |-> nvs.ap_pass,
                      ports |-> nvs.ports]
      /\ UNCHANGED <<nvs, try, bits, wifi, todo, restart, asked, left, limit>>
  BY DEF Device!LoadSettings
<1>3. /\ todo = <<>> /\ Elements(todo) = {}
  BY <1>1, <1>2, FewWrites DEF Tasks
<1>4. \A k \in Device!Keys : Device!Wanted(k) => nvs[k] # "none"
  <2> DEFINE o == Device!BootOrder
  <2>1. \A k \in Device!Keys : \E i \in 1 .. Len(o) : o[i] = k
    <3>1. Len(o) = 7 /\ o[1] = "ssid" /\ o[2] = "pass" /\ o[3] = "ports" /\ o[4] = "mode"
          /\ o[5] = "ap_ssid" /\ o[6] = "ap_pass" /\ o[7] = "rest"
      BY DEF Device!BootOrder
    <3> HIDE DEF o
    <3>2. QED BY <3>1 DEF Device!Keys
  <2>2. ~\E i \in 1 .. Len(o) : Device!Wanted(o[i]) /\ nvs[o[i]] = "none"
    BY <1>2 DEF Device!Missing
  <2> HIDE DEF o
  <2>3. QED BY <2>1, <2>2
<1>5. /\ nvs.mode \in {"AP", "SM"} /\ nvs.ssid # "none" /\ nvs.pass # "none" /\ nvs.ports # "none"
      /\ nvs.mode # "SM" => nvs.ap_ssid # "none" /\ nvs.ap_pass # "none"
      /\ nvs.ssid \in Device!Names \cup {"none"} /\ nvs.ap_ssid \in Device!Names \cup {"none"}
      /\ nvs.pass \in Device!Words \cup {"none"} /\ nvs.ap_pass \in Device!Words \cup {"none"}
      /\ nvs.ports \in {"default", "own", "none"}
  BY <1>1, <1>4 DEF KeysTyped, ValuesOf, Device!Wanted, Device!Keys
<1>6. Device!TypeOK'
  <2>1. ram' \in [mode : {"AP", "SM", "none"}, ssid : Device!Names \cup {"none"},
                  pass : Device!Words \cup {"none"}, ports : {"default", "own", "none"}]
    BY <1>2, <1>5
  <2>2. QED BY <1>1, <1>2, <2>1 DEF Device!TypeOK
<1>7. KeysTyped' /\ WillHold'
  BY <1>1, <1>2 DEF KeysTyped, WillHold, Device!Pending
<1>8. Tasks'
  BY <1>2, <1>3 DEF Tasks
<1>9. RunsAsStored'
  <2>1. /\ ram'.mode \in {"AP", "SM"} /\ ram'.ssid # "none" /\ ram'.pass # "none"
        /\ ram'.ports # "none" /\ nvs'.mode = ram'.mode /\ nvs'.ports = ram'.ports
        /\ nvs'[Device!SsidKey(ram')] = ram'.ssid /\ nvs'[Device!PassKey(ram')] = ram'.pass
    BY <1>2, <1>5 DEF Device!SsidKey, Device!PassKey
  <2>2. Elements(todo') = {}
    BY <1>2, <1>3
  <2>3. Device!SsidKey(ram)' = Device!SsidKey(ram') /\ Device!PassKey(ram)' = Device!PassKey(ram')
    OBVIOUS
  <2>4. QED BY <2>1, <2>2, <2>3 DEF RunsAsStored
<1>10. QED BY <1>6, <1>7, <1>8, <1>9 DEF DeviceInv

LEMMA FallbackDeviceInv == ASSUME DeviceInv, Device!Fallback PROVE DeviceInv'
<1>1. Device!TypeOK /\ KeysTyped /\ WillHold /\ Tasks
  BY DEF DeviceInv
<1>2. /\ main = "failed" /\ main' = "restart"
      /\ UNCHANGED <<ram, try, bits, wifi, http, todo, restart, left, limit>>
  BY DEF Device!Fallback
<1>3. Tasks' /\ RunsAsStored'
  BY <1>1, <1>2 DEF Tasks, RunsAsStored, Running
<1>4. CASE UNCHANGED <<nvs, asked>>
  <2>1. Device!TypeOK'
    BY <1>1, <1>2, <1>4 DEF Device!TypeOK
  <2>2. KeysTyped' /\ WillHold'
    BY <1>1, <1>2, <1>4 DEF KeysTyped, WillHold, Device!Pending
  <2>3. QED BY <1>3, <2>1, <2>2 DEF DeviceInv
<1>5. CASE /\ nvs' = [nvs EXCEPT !.mode = "AP"]
           /\ asked' = [asked EXCEPT !.mode = IF Device!Pending("mode") THEN "unknown" ELSE "AP"]
  <2> DEFINE V == Device!Names \cup Device!Words \cup {"AP", "SM", "unknown"}
  <2>1. nvs \in [Device!Keys -> Settings] /\ asked \in [AskedKeys -> V]
    BY <1>1, KeysAre DEF Device!TypeOK, Settings
  <2>2. "mode" \in Device!Keys /\ "mode" \in AskedKeys /\ AskedKeys \subseteq Device!Keys
        /\ "AP" \in Settings /\ "AP" \in V /\ "unknown" \in V
    BY DEF Device!Keys, AskedKeys, Settings
  <2> HIDE DEF V
  <2>3. /\ nvs' \in [Device!Keys -> Settings] /\ nvs'["mode"] = "AP"
        /\ \A k \in Device!Keys : k # "mode" => nvs'[k] = nvs[k]
    BY <1>5, <2>1, <2>2
  <2>4. /\ asked' \in [AskedKeys -> V]
        /\ asked'["mode"] = IF Device!Pending("mode") THEN "unknown" ELSE "AP"
        /\ \A k \in AskedKeys : k # "mode" => asked'[k] = asked[k]
    BY <1>5, <2>1, <2>2
  <2>5. Device!TypeOK'
    BY <1>1, <1>2, <2>3, <2>4, KeysAre DEF Device!TypeOK, Settings, V
  <2>6. KeysTyped'
    BY <1>1, <1>2, <2>3 DEF KeysTyped, ValuesOf
  <2>7. WillHold'
    <3>1. \A k : Device!Pending(k)' <=> Device!Pending(k)
      BY <1>2 DEF Device!Pending
    <3>2. ASSUME NEW w \in Elements(todo), w.key \in AskedKeys
          PROVE  Device!Agrees(asked'[w.key], WhenRead(w.key, w.value))
      <4>1. CASE w.key = "mode"
        <5>1. Device!Pending("mode")
          BY <4>1, PendingIs
        <5>2. QED BY <2>4, <4>1, <5>1 DEF Device!Agrees
      <4>2. CASE w.key # "mode"
        BY <1>1, <2>4, <3>2, <4>2 DEF WillHold
      <4>3. QED BY <4>1, <4>2
    <3>3. ASSUME NEW k \in AskedKeys, ~Device!Pending(k)
          PROVE  Device!Agrees(asked'[k], WhenRead(k, nvs'[k]))
      <4>1. CASE k = "mode"
        BY <2>3, <2>4, <3>3, <4>1 DEF Device!Agrees, WhenRead
      <4>2. CASE k # "mode"
        BY <1>1, <2>2, <2>3, <2>4, <3>3, <4>2 DEF WillHold
      <4>3. QED BY <4>1, <4>2
    <3>4. QED BY <1>2, <3>1, <3>2, <3>3 DEF WillHold
  <2>8. QED BY <1>3, <2>5, <2>6, <2>7 DEF DeviceInv
<1>6. QED BY <1>4, <1>5 DEF Device!Fallback

LEMMA AnswerDeviceInv == ASSUME DeviceInv, Device!Answer PROVE DeviceInv'
<1>1. Device!TypeOK /\ KeysTyped /\ WillHold /\ Tasks /\ RunsAsStored
  BY DEF DeviceInv
<1>2. /\ http = "saving" /\ todo = <<>> /\ http' = IF restart THEN "restarting" ELSE "idle"
      /\ UNCHANGED <<nvs, ram, main, try, bits, wifi, todo, restart, asked, left, limit>>
  BY DEF Device!Answer
<1>3. Device!TypeOK'
  BY <1>1, <1>2 DEF Device!TypeOK
<1>4. KeysTyped' /\ WillHold'
  BY <1>1, <1>2 DEF KeysTyped, WillHold, Device!Pending
<1>5. Tasks' /\ RunsAsStored'
  BY <1>1, <1>2 DEF Tasks, RunsAsStored, Running
<1>6. QED BY <1>3, <1>4, <1>5 DEF DeviceInv

LEMMA WriteKeyDeviceInv == ASSUME DeviceInv, Device!WriteKey PROVE DeviceInv'
<1>1. Device!TypeOK /\ KeysTyped /\ WillHold /\ Tasks /\ RunsAsStored
  BY DEF DeviceInv
<1> DEFINE h == Head(todo)
<1>2. /\ http = "saving" /\ todo # <<>> /\ nvs' = [nvs EXCEPT ![h.key] = h.value]
      /\ todo' = Tail(todo)
      /\ UNCHANGED <<ram, main, try, bits, wifi, http, restart, asked, left, limit>>
  BY DEF Device!WriteKey
<1>3. todo \in Seq(KeyWrites) /\ OneOfEach(todo)
  BY <1>1 DEF Device!TypeOK, KeyWrites, Settings, KeysTyped
<1>4. /\ h \in Elements(todo) /\ h \in KeyWrites
      /\ todo' \in Seq(KeyWrites) /\ OneOfEach(todo')
      /\ Elements(todo') = {w \in Elements(todo) : w.key # h.key}
  BY <1>2, <1>3, FirstWrite
<1> HIDE DEF h
<1>5. /\ h.key \in Device!Keys /\ h.value \in Settings /\ h.value \in ValuesOf(h.key)
  BY <1>1, <1>4 DEF KeyWrites, KeysTyped
<1>6. /\ nvs' \in [Device!Keys -> Settings] /\ nvs'[h.key] = h.value
      /\ \A k \in Device!Keys : k # h.key => nvs'[k] = nvs[k]
  <2>1. nvs \in [Device!Keys -> Settings]
    BY <1>1 DEF Device!TypeOK, Settings
  <2>2. QED BY <1>2, <1>5, <2>1
<1>7. Device!TypeOK'
  BY <1>1, <1>2, <1>4, <1>6 DEF Device!TypeOK, KeyWrites, Settings
<1>8. KeysTyped'
  BY <1>1, <1>4, <1>5, <1>6 DEF KeysTyped
<1>9. WillHold'
  <2>1. \A w \in Elements(todo') :
           w.key \in AskedKeys => Device!Agrees(asked'[w.key], WhenRead(w.key, w.value))
    BY <1>1, <1>2, <1>4 DEF WillHold
  <2>2. ASSUME NEW k \in AskedKeys, ~Device!Pending(k)'
        PROVE  Device!Agrees(asked'[k], WhenRead(k, nvs'[k]))
    <3>1. k \in Device!Keys
      BY KeysAre
    <3>2. ~\E w \in Elements(todo') : w.key = k
      BY <2>2 DEF Device!Pending, Elements
    <3>3. CASE k = h.key
      BY <1>1, <1>2, <1>4, <1>6, <3>3 DEF WillHold
    <3>4. CASE k # h.key
      <4>1. ~Device!Pending(k)
        BY <1>4, <3>2, <3>4, PendingIs
      <4>2. QED BY <1>1, <1>2, <1>6, <3>1, <3>4, <4>1 DEF WillHold
    <3>5. QED BY <3>3, <3>4
  <2>3. QED BY <2>1, <2>2 DEF WillHold
<1>10. Tasks'
  BY <1>1, <1>2 DEF Tasks
<1>11. RunsAsStored'
  <2> SUFFICES ASSUME Running' PROVE RunsAsStored'
    BY DEF RunsAsStored
  <2>1. Running
    BY <1>2 DEF Running
  <2>2. /\ ram.mode \in {"AP", "SM"} /\ ram.ssid # "none" /\ ram.pass # "none" /\ ram.ports # "none"
        /\ nvs.mode = ram.mode /\ nvs.ports = ram.ports
        /\ nvs[Device!SsidKey(ram)] = ram.ssid /\ nvs[Device!PassKey(ram)] = ram.pass
        /\ \A w \in Elements(todo) : w.key = "rest" \/ w = Device!Write("ports", ram.ports)
    BY <1>1, <2>1 DEF RunsAsStored
  <2>3. h.key = "rest" \/ h = Device!Write("ports", ram.ports)
    BY <1>4, <2>2
  <2>4. h.key = "rest" \/ (h.key = "ports" /\ h.value = ram.ports)
    BY <2>3 DEF Device!Write
  <2>5. /\ nvs'["mode"] = nvs["mode"] /\ nvs'["ports"] = ram.ports
        /\ \A k \in {"ssid", "pass", "ap_ssid", "ap_pass"} : nvs'[k] = nvs[k]
    BY <1>6, <2>2, <2>4 DEF Device!Keys
  <2>6. /\ Device!SsidKey(ram) \in {"ssid", "ap_ssid"} /\ Device!PassKey(ram) \in {"pass", "ap_pass"}
        /\ Device!SsidKey(ram)' = Device!SsidKey(ram) /\ Device!PassKey(ram)' = Device!PassKey(ram)
    BY <1>2 DEF Device!SsidKey, Device!PassKey
  <2>7. \A w \in Elements(todo') : w.key = "rest" \/ w = Device!Write("ports", ram'.ports)
    BY <1>2, <1>4, <2>2
  <2>8. QED BY <1>2, <2>2, <2>5, <2>6, <2>7 DEF RunsAsStored
<1>12. QED BY <1>7, <1>8, <1>9, <1>10, <1>11 DEF DeviceInv

-----------------------------------------------------------------------------
\* The writes of a request.
WifiWrites(r) ==
  {Device!Write("mode", r.mode), Device!Write(Device!SsidKey(r), r.ssid)}
    \cup (IF r.pass # "none" THEN {Device!Write(Device!PassKey(r), r.pass)} ELSE {})

LEMMA RequestIs ==
  ASSUME NEW r \in Device!Request
  PROVE  /\ Device!SsidKey(r) \in {"ssid", "ap_ssid"} /\ Device!PassKey(r) \in {"pass", "ap_pass"}
         /\ r.mode \in {"AP", "SM", "none"} /\ r.ssid \in Device!Names \cup {"none"}
         /\ r.pass \in Device!Words \cup {"none"} /\ r.ports \in {"default", "own"}
BY DEF Device!Request, Device!SsidKey, Device!PassKey

LEMMA WritesAre ==
  ASSUME NEW r \in Device!Request
  PROVE  /\ Device!Writes(r) \in Seq(KeyWrites) /\ OneOfEach(Device!Writes(r))
         /\ Elements(Device!Writes(r)) =
              {Device!Write("rest", "default")}
                \cup (IF r.mode # "none" THEN {Device!Write("ports", r.ports)} ELSE {})
                \cup (IF Device!WifiChanged(r) THEN WifiWrites(r) ELSE {})
<1> DEFINE S == Device!SsidKey(r)
           P == Device!PassKey(r)
           wp == Device!Write("ports", r.ports)
           wm == Device!Write("mode", r.mode)
           ws == Device!Write(S, r.ssid)
           wq == Device!Write(P, r.pass)
           wr == Device!Write("rest", "default")
           a == Device!If(r.mode # "none", <<wp>>)
           c == Device!If(r.pass # "none", <<wq>>)
           b == Device!If(Device!WifiChanged(r), <<wm, ws>> \o c)
<1>1. /\ S \in {"ssid", "ap_ssid"} /\ P \in {"pass", "ap_pass"}
      /\ r.mode \in {"AP", "SM", "none"} /\ r.ssid \in Device!Names \cup {"none"}
      /\ r.pass \in Device!Words \cup {"none"} /\ r.ports \in {"default", "own"}
  BY RequestIs
<1>2. /\ wp \in KeyWrites /\ wm \in KeyWrites /\ ws \in KeyWrites /\ wq \in KeyWrites
      /\ wr \in KeyWrites
      /\ wp.key = "ports" /\ wm.key = "mode" /\ ws.key = S /\ wq.key = P /\ wr.key = "rest"
  BY <1>1 DEF Device!Write, KeyWrites, Settings, Device!Keys, Device!Names, Device!Words
<1> HIDE DEF S, P, wp, wm, ws, wq, wr
<1>3. /\ a \in Seq(KeyWrites) /\ OneOfEach(a)
      /\ Elements(a) = IF r.mode # "none" THEN {wp} ELSE {}
  BY <1>2, FewWrites DEF Device!If
<1>4. /\ c \in Seq(KeyWrites) /\ OneOfEach(c)
      /\ Elements(c) = IF r.pass # "none" THEN {wq} ELSE {}
  BY <1>2, FewWrites DEF Device!If
<1> HIDE DEF a, c
<1> DEFINE d == <<wm, ws>>
<1>5. d \in Seq(KeyWrites) /\ OneOfEach(d) /\ Elements(d) = {wm, ws}
  BY <1>1, <1>2, FewWrites
<1> HIDE DEF d
<1> DEFINE e == d \o c
<1>6. /\ e \in Seq(KeyWrites) /\ OneOfEach(e)
      /\ Elements(e) = {wm, ws} \cup (IF r.pass # "none" THEN {wq} ELSE {})
  <2>1. \A v \in Elements(d), w \in Elements(c) : v.key # w.key
    BY <1>1, <1>2, <1>4, <1>5
  <2>2. QED BY <1>4, <1>5, <2>1, JoinedWrites
<1> HIDE DEF e
<1> DEFINE f == Device!If(Device!WifiChanged(r), e)
           M == {wm, ws} \cup (IF r.pass # "none" THEN {wq} ELSE {})
<1>7. /\ f \in Seq(KeyWrites) /\ OneOfEach(f)
      /\ Elements(f) = IF Device!WifiChanged(r) THEN M ELSE {}
  BY <1>6, FewWrites DEF Device!If
<1> HIDE DEF f, M
<1> DEFINE g == a \o f
<1>8. /\ g \in Seq(KeyWrites) /\ OneOfEach(g) /\ Elements(g) = Elements(a) \cup Elements(f)
  <2>1. \A v \in Elements(a), w \in Elements(f) : v.key # w.key
    BY <1>1, <1>2, <1>3, <1>7 DEF M
  <2>2. QED BY <1>3, <1>7, <2>1, JoinedWrites
<1> DEFINE h == <<wr>>
<1>9. h \in Seq(KeyWrites) /\ OneOfEach(h) /\ Elements(h) = {wr}
  BY <1>2, FewWrites
<1> HIDE DEF g, h
<1>10. /\ g \o h \in Seq(KeyWrites) /\ OneOfEach(g \o h)
       /\ Elements(g \o h) = Elements(g) \cup {wr}
  <2>1. \A v \in Elements(g), w \in Elements(h) : v.key # w.key
    BY <1>1, <1>2, <1>3, <1>7, <1>8, <1>9 DEF M
  <2>2. QED BY <1>8, <1>9, <2>1, JoinedWrites
<1>11. Device!Writes(r) = g \o h
  BY DEF Device!Writes, a, c, d, e, f, g, h, wp, wm, ws, wq, wr, S, P
<1>12. M = WifiWrites(r)
  BY DEF WifiWrites, M, wm, ws, wq, S, P
<1>13. QED
  BY <1>3, <1>7, <1>8, <1>10, <1>11, <1>12 DEF wp, wr

LEMMA SaveDeviceInv ==
  ASSUME DeviceInv, NEW r \in Device!Request, Device!Save(r) PROVE DeviceInv'
<1> DEFINE S == Device!SsidKey(r)
           P == Device!PassKey(r)
           V == Device!Names \cup Device!Words \cup {"AP", "SM", "unknown"}
           changed == Device!WifiChanged(r)
<1>1. Device!TypeOK /\ KeysTyped /\ WillHold /\ Tasks /\ RunsAsStored
  BY DEF DeviceInv
<1>2. /\ http = "idle" /\ http' = "saving" /\ todo' = Device!Writes(r)
      /\ restart' = (r.mode = "none" \/ changed \/ r.ports # ram.ports \/ nvs.rest = "none")
      /\ left' = [left EXCEPT !.saves = @ - 1] /\ left.saves > 0
      /\ UNCHANGED <<nvs, ram, main, try, bits, wifi, limit>>
  BY DEF Device!Save
<1>3. /\ S \in {"ssid", "ap_ssid"} /\ P \in {"pass", "ap_pass"}
      /\ r.mode \in {"AP", "SM", "none"} /\ r.ssid \in Device!Names \cup {"none"}
      /\ r.pass \in Device!Words \cup {"none"} /\ r.ports \in {"default", "own"}
  BY RequestIs
<1>4. /\ changed => r.mode # "none"
      /\ ~changed /\ r.mode # "none" =>
           /\ nvs["mode"] = r.mode /\ ram.mode = r.mode /\ nvs[S] = r.ssid
           /\ r.pass # "none" => nvs[P] = r.pass
  BY DEF Device!WifiChanged
<1>5. asked \in [AskedKeys -> V]
  BY <1>1, KeysAre DEF Device!TypeOK
<1>6. /\ r.mode = "none" => asked' = asked
      /\ r.mode # "none" =>
           /\ asked'["mode"] = r.mode /\ asked'["ports"] = r.ports
           /\ asked'[S] = WhenRead(S, r.ssid)
           /\ asked'[P] = IF r.pass = "none" THEN asked[P] ELSE r.pass
           /\ \A k \in AskedKeys \ {"mode", "ports", S, P} : asked'[k] = asked[k]
      /\ asked' \in [AskedKeys -> V]
  <2>1. CASE r.mode = "none"
    BY <1>5, <2>1 DEF Device!Save
  <2>2. CASE r.mode # "none"
    <3> DEFINE name == IF r.ssid = "none" THEN Device!Defaults[S] ELSE r.ssid
               word == IF r.pass = "none" THEN asked[P] ELSE r.pass
    <3>1. asked' = [asked EXCEPT !.mode = r.mode, !.ports = r.ports, ![S] = name,
                      ![P] = IF r.pass = "none" THEN @ ELSE r.pass]
      BY <2>2 DEF Device!Save
    <3>2. name = WhenRead(S, r.ssid) /\ name \in V
      BY <1>3 DEF WhenRead, Device!DefaultOf, Device!Defaults, Device!Names
    <3>3. word \in V /\ r.mode \in V /\ r.ports \in V
      BY <1>3, <1>5, <2>2 DEF AskedKeys, Device!Names
    <3> HIDE DEF S, P, V, name
    <3>4. QED BY <1>3, <1>5, <2>2, <3>1, <3>2, <3>3 DEF AskedKeys
  <2>3. QED BY <2>1, <2>2
<1>7. /\ todo = <<>> /\ \A k : ~Device!Pending(k)
  BY <1>1, <1>2, FewWrites, PendingIs DEF Tasks
<1>8. /\ todo' \in Seq(KeyWrites) /\ OneOfEach(todo')
      /\ Elements(todo') =
           {Device!Write("rest", "default")}
             \cup (IF r.mode # "none" THEN {Device!Write("ports", r.ports)} ELSE {})
             \cup (IF changed THEN WifiWrites(r) ELSE {})
  BY <1>2, WritesAre
<1> DEFINE E == Elements(todo')
<1>9. \A w \in E :
        \/ w.key = "rest" /\ w.value = "default"
        \/ r.mode # "none" /\ w.key = "ports" /\ w.value = r.ports
        \/ changed /\ w.key = "mode" /\ w.value = r.mode
        \/ changed /\ w.key = S /\ w.value = r.ssid
        \/ changed /\ r.pass # "none" /\ w.key = P /\ w.value = r.pass
  BY <1>8 DEF WifiWrites, Device!Write
<1>10. /\ r.mode # "none" => \E w \in E : w.key = "ports"
       /\ changed => /\ \E w \in E : w.key = "mode"
                     /\ \E w \in E : w.key = S
                     /\ r.pass # "none" => \E w \in E : w.key = P
  <2>1. \A k, v : Device!Write(k, v).key = k
    BY DEF Device!Write
  <2>2. r.mode # "none" => Device!Write("ports", r.ports) \in E
    BY <1>8
  <2>3. changed => /\ Device!Write("mode", r.mode) \in E /\ Device!Write(S, r.ssid) \in E
                   /\ r.pass # "none" => Device!Write(P, r.pass) \in E
    BY <1>8 DEF WifiWrites
  <2> HIDE DEF E, S, P, changed
  <2>4. QED BY <2>1, <2>2, <2>3
<1> HIDE DEF S, P, changed, E
<1>11. Device!TypeOK'
  <2>1. left' \in [saves : Nat, losses : Nat, leaves : Nat]
    BY <1>1, <1>2 DEF Device!TypeOK
  <2>2. asked' \in [DOMAIN Device!Defaults -> V]
    BY <1>6, KeysAre
  <2>3. todo' \in Seq([key : Device!Keys, value : Device!Names \cup Device!Words \cup {"AP", "SM", "none"}])
    BY <1>8 DEF KeyWrites, Settings
  <2>4. restart' \in BOOLEAN
    BY <1>2
  <2>5. QED BY <1>1, <1>2, <2>1, <2>2, <2>3, <2>4 DEF Device!TypeOK
<1>12. KeysTyped'
  <2>1. \A w \in E : w.value \in ValuesOf(w.key)
    BY <1>3, <1>4, <1>9 DEF ValuesOf
  <2>2. QED BY <1>1, <1>2, <1>8, <2>1 DEF KeysTyped, E
<1>13. WillHold'
  <2>1. ASSUME NEW w \in E, w.key \in AskedKeys
        PROVE  Device!Agrees(asked'[w.key], WhenRead(w.key, w.value))
    <3>1. w.key # "rest"
      BY <2>1 DEF AskedKeys
    <3>2. CASE r.mode # "none" /\ w.key = "ports" /\ w.value = r.ports
      BY <1>3, <1>6, <3>2 DEF Device!Agrees, WhenRead
    <3>3. CASE changed /\ w.key = "mode" /\ w.value = r.mode
      BY <1>4, <1>6, <3>3 DEF Device!Agrees, WhenRead
    <3>4. CASE changed /\ w.key = S /\ w.value = r.ssid
      BY <1>4, <1>6, <3>4 DEF Device!Agrees
    <3>5. CASE changed /\ r.pass # "none" /\ w.key = P /\ w.value = r.pass
      BY <1>4, <1>6, <3>5 DEF Device!Agrees, WhenRead
    <3>6. QED BY <1>9, <3>1, <3>2, <3>3, <3>4, <3>5
  <2>2. ASSUME NEW k \in AskedKeys, ~\E w \in E : w.key = k
        PROVE  Device!Agrees(asked'[k], WhenRead(k, nvs[k]))
    <3>1. Device!Agrees(asked[k], WhenRead(k, nvs[k]))
      BY <1>1, <1>7 DEF WillHold
    <3>2. CASE r.mode = "none"
      BY <1>6, <3>1, <3>2
    <3>3. CASE r.mode # "none" /\ k = "mode"
      BY <1>4, <1>6, <1>10, <2>2, <3>3 DEF Device!Agrees, WhenRead
    <3>4. CASE r.mode # "none" /\ k = "ports"
      BY <1>10, <2>2, <3>4
    <3>5. CASE r.mode # "none" /\ k = S
      BY <1>4, <1>6, <1>10, <2>2, <3>5 DEF Device!Agrees
    <3>6. CASE r.mode # "none" /\ k = P
      BY <1>4, <1>6, <1>10, <2>2, <3>1, <3>6 DEF Device!Agrees, WhenRead
    <3>7. CASE r.mode # "none" /\ k \notin {"mode", "ports", S, P}
      BY <1>6, <3>1, <3>7
    <3>8. QED BY <3>2, <3>3, <3>4, <3>5, <3>6, <3>7
  <2>3. \A k : Device!Pending(k)' <=> \E w \in E : w.key = k
    BY DEF Device!Pending, Elements, E
  <2>4. QED BY <1>2, <2>1, <2>2, <2>3 DEF WillHold, E
<1>14. Tasks'
  BY <1>1, <1>2 DEF Tasks
<1>15. RunsAsStored'
  <2> SUFFICES ASSUME Running' PROVE RunsAsStored'
    BY DEF RunsAsStored
  <2>1. Running /\ ~restart'
    BY <1>2 DEF Running
  <2>2. r.mode # "none" /\ ~changed /\ r.ports = ram.ports
    BY <1>2, <2>1
  <2>3. \A w \in E : w.key = "rest" \/ w = Device!Write("ports", ram.ports)
    BY <1>8, <2>2 DEF E, Device!Write
  <2>4. Device!SsidKey(ram)' = Device!SsidKey(ram) /\ Device!PassKey(ram)' = Device!PassKey(ram)
    BY <1>2 DEF Device!SsidKey, Device!PassKey
  <2>5. QED BY <1>1, <1>2, <2>1, <2>3, <2>4 DEF RunsAsStored, E
<1>16. QED BY <1>11, <1>12, <1>13, <1>14, <1>15 DEF DeviceInv

\* A factory reset leaves every setting to its default.
LEMMA FactoryResetDeviceInv == ASSUME DeviceInv, Device!FactoryReset PROVE DeviceInv'
<1> DEFINE o == Device!ResetOrder
           W == [key : Device!Keys, value : Settings]
<1>1. Device!TypeOK /\ KeysTyped /\ WillHold /\ Tasks
  BY DEF DeviceInv
<1>2. /\ http = "idle" /\ http' = "saving" /\ restart' = TRUE /\ asked' = Device!Defaults
      /\ todo' = [i \in 1 .. Len(o) |-> Device!Write(o[i], "none")]
      /\ left' = [left EXCEPT !.saves = @ - 1] /\ left.saves > 0
      /\ UNCHANGED <<nvs, ram, main, try, bits, wifi, limit>>
  BY DEF Device!FactoryReset
<1>3. /\ Len(o) = 7 /\ \A i \in 1 .. 7 : o[i] \in Device!Keys
      /\ \A i, j \in 1 .. 7 : o[i] = o[j] => i = j
      /\ \A k \in Device!Keys : \E i \in 1 .. 7 : o[i] = k
  <2>1. /\ Len(o) = 7 /\ o[1] = "ports" /\ o[2] = "mode" /\ o[3] = "ssid" /\ o[4] = "pass"
        /\ o[5] = "ap_ssid" /\ o[6] = "ap_pass" /\ o[7] = "rest"
    BY DEF Device!ResetOrder
  <2> HIDE DEF o
  <2>2. \A i \in 1 .. 7 : i \in {1, 2, 3, 4, 5, 6, 7}
    OBVIOUS
  <2>3. \A i, j \in 1 .. 7 : o[i] = o[j] => i = j
    BY <2>1, <2>2
  <2>4. QED BY <2>1, <2>2, <2>3 DEF Device!Keys
<1> HIDE DEF o
<1>4. \A i \in 1 .. 7 : Device!Write(o[i], "none") \in W
  BY <1>3 DEF Device!Write, Settings
<1>5. /\ todo' \in Seq(W) /\ Len(todo') = 7
      /\ \A i \in 1 .. 7 : todo'[i] = Device!Write(o[i], "none")
  <2> HIDE DEF W
  <2>1. todo' \in [1 .. 7 -> W]
    BY <1>2, <1>3, <1>4
  <2> DEFINE t == todo'
  <2>2. t \in Seq(W) /\ Len(t) = 7
    <3>1. t \in [1 .. 7 -> W] /\ 7 \in Nat
      BY <2>1
    <3> HIDE DEF t
    <3>2. t \in Seq(W)
      BY <3>1, SeqDef
    <3>3. QED BY <3>1, <3>2
  <2>3. QED BY <1>2, <1>3, <2>2
<1>6. \A i \in 1 .. 7 : todo'[i].key = o[i] /\ todo'[i].value = "none"
  BY <1>5 DEF Device!Write
<1>7. \A w \in Elements(todo') : w.key \in Device!Keys /\ w.value = "none"
  BY <1>3, <1>5, <1>6 DEF Elements
<1>8. \A k \in Device!Keys : Device!Pending(k)'
  BY <1>3, <1>5, <1>6 DEF Device!Pending
<1>9. OneOfEach(todo')
  BY <1>3, <1>5, <1>6 DEF OneOfEach
<1>10. Device!TypeOK'
  <2>1. left' \in [saves : Nat, losses : Nat, leaves : Nat]
    BY <1>1, <1>2 DEF Device!TypeOK
  <2>2. asked' \in [DOMAIN Device!Defaults -> Device!Names \cup Device!Words \cup {"AP", "SM", "unknown"}]
    BY <1>2 DEF Device!Defaults, Device!Names, Device!Words
  <2>3. todo' \in Seq([key : Device!Keys, value : Device!Names \cup Device!Words \cup {"AP", "SM", "none"}])
    BY <1>5 DEF Settings
  <2>4. QED BY <1>1, <1>2, <2>1, <2>2, <2>3 DEF Device!TypeOK
<1>11. KeysTyped'
  BY <1>1, <1>2, <1>7, <1>9 DEF KeysTyped, ValuesOf
<1>12. WillHold'
  <2>1. \A k \in AskedKeys : k \in Device!Keys /\ asked'[k] = Device!DefaultOf(k)
    BY <1>2, KeysAre
  <2>2. QED BY <1>7, <1>8, <2>1 DEF WillHold, WhenRead, Device!Agrees
<1>13. Tasks' /\ RunsAsStored'
  BY <1>1, <1>2 DEF Tasks, RunsAsStored, Running
<1>14. QED BY <1>10, <1>11, <1>12, <1>13 DEF DeviceInv

LEMMA RestartsDeviceInv ==
  ASSUME DeviceInv, Device!MainRestart \/ Device!HttpRestart \/ Device!PowerLoss
  PROVE  DeviceInv'
<1>1. Device!Restarted /\ UNCHANGED <<nvs, limit>>
  BY DEF Device!MainRestart, Device!HttpRestart, Device!PowerLoss
<1>2. left' \in [saves : Nat, losses : Nat, leaves : Nat]
  <2>1. left \in [saves : Nat, losses : Nat, leaves : Nat]
    BY DEF DeviceInv, Device!TypeOK
  <2>2. left' = left \/ (left.losses > 0 /\ left' = [left EXCEPT !.losses = @ - 1])
    BY DEF Device!MainRestart, Device!HttpRestart, Device!PowerLoss
  <2>3. QED BY <2>1, <2>2
<1>3. QED BY <1>1, <1>2, RestartedInv

LEMMA NextDeviceInv == ASSUME DeviceInv, Device!Next \/ UNCHANGED deviceVars PROVE DeviceInv'
<1>1. CASE UNCHANGED deviceVars
  <2>1. /\ UNCHANGED <<nvs, ram, http, todo, restart, asked>>
        /\ UNCHANGED <<main, try, bits, wifi, left, limit>>
    BY <1>1 DEF deviceVars
  <2>2. Device!TypeOK'
    BY <2>1 DEF DeviceInv, Device!TypeOK
  <2>3. QED BY <2>1, <2>2, QuietDeviceInv
<1>2. CASE Device!Next
  <2>1. CASE Device!Main
    BY <2>1, WriteDefaultDeviceInv, LoadSettingsDeviceInv, NetworkDeviceInv,
       FallbackDeviceInv, RestartsDeviceInv DEF Device!Main
  <2>2. CASE Device!Httpd
    BY <2>2, WriteKeyDeviceInv, AnswerDeviceInv, RestartsDeviceInv DEF Device!Httpd
  <2>3. QED
    BY <1>2, <2>1, <2>2, NetworkDeviceInv, RestartsDeviceInv, SaveDeviceInv,
       FactoryResetDeviceInv DEF Device!Next
<1>3. QED BY <1>1, <1>2

LEMMA DeviceInvMeans == ASSUME DeviceInv PROVE Device!RunsAsAsked
<1> SUFFICES ASSUME main = "run", http = "idle" PROVE Device!RunsAsAsked
  BY DEF Device!RunsAsAsked
<1> DEFINE S == Device!SsidKey(ram)
           P == Device!PassKey(ram)
<1>1. /\ ram.mode # "none" /\ ram.ssid # "none" /\ ram.pass # "none" /\ ram.ports # "none"
      /\ nvs["mode"] = ram.mode /\ nvs["ports"] = ram.ports
      /\ nvs[S] = ram.ssid /\ nvs[P] = ram.pass
  BY DEF DeviceInv, RunsAsStored, Running
<1>2. \A k : ~Device!Pending(k)
  BY FewWrites, PendingIs DEF DeviceInv, Tasks
<1>3. /\ S \in AskedKeys /\ P \in AskedKeys /\ "mode" \in AskedKeys /\ "ports" \in AskedKeys
  BY DEF AskedKeys, Device!SsidKey, Device!PassKey
<1>4. \A k \in AskedKeys : Device!Agrees(asked[k], WhenRead(k, nvs[k]))
  BY <1>2 DEF DeviceInv, WillHold
<1> HIDE DEF S, P
<1>5. /\ Device!Agrees(asked["mode"], ram.mode) /\ Device!Agrees(asked["ports"], ram.ports)
      /\ Device!Agrees(asked[S], ram.ssid) /\ Device!Agrees(asked[P], ram.pass)
  BY <1>1, <1>3, <1>4 DEF WhenRead
<1>6. QED BY <1>5 DEF Device!RunsAsAsked, S, P

\* set_credentials_handler, reset_to_factory_handler, storage_init_nvs, network_start:
\* for any sequences of requests, power losses and lost networks, in whatever order
\* app_main and the web server take their steps, a device that runs and has answered
\* runs with what was asked for: the comparisons of the handler leave out no write and
\* no restart that is needed, and no write is left half way without the restart that
\* makes the device read what is there.
THEOREM RunsAsAskedAlways == MCSpec => []RunsAsAsked
<1> DEFINE I == part = "device" => DeviceInv
<1>1. MCInit => I
  BY InitDeviceInv DEF MCInit
<1>2. I /\ [MCNext]_mcVars => I'
  BY NextDeviceInv, PartSteps
<1>3. I => RunsAsAsked
  BY DeviceInvMeans DEF RunsAsAsked, DeviceInv
<1>4. QED BY <1>1, <1>2, <1>3, PTL DEF MCSpec
=============================================================================
