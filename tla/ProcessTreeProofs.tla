----------------------------- MODULE ProcessTreeProofs -----------------------------
(***************************************************************************)
(* Proofs about the rows of the process table.                             *)
(*                                                                         *)
(* tree.rs is made of walks that go on until there is nothing left to do;  *)
(* the model gives each of them as many rounds as it can need.  Loop says  *)
(* what such a function of the number of rounds keeps, by the least round  *)
(* that would not have it.                                                 *)
(*                                                                         *)
(* Cycles: what is done holds the parents of its processes, so a chain     *)
(* that runs into it, or out of parents, has no cycle, and one that runs   *)
(* into itself has one, whose processes are all above each other.          *)
(*                                                                         *)
(* Nearest survivors: a chain is resolved from its top, with what the top  *)
(* inherits.  The processes that wait on the stack or have a row are those *)
(* whose survivor has a row.                                               *)
(*                                                                         *)
(* Branches: what is emitted followed by the stack is planted, each row    *)
(* after its parent with nothing but descendants of that parent between    *)
(* them; the descendants of a row are then the deeper rows right below it. *)
(*                                                                         *)
(* Subtrees: the walk by PID visits what is below its root, each process   *)
(* once, and counts every link but those it went down.  With unique PIDs   *)
(* what is below a process is what has it above, as far as no cycle was    *)
(* cut between them, and one link of a cycle leads back to the root.       *)
(*                                                                         *)
(* Order: a table with the same processes in other places is a move of     *)
(* the first.  Owners, ancestors, cuts, survivors and the orders of        *)
(* siblings are determined by the table, so they move with it.             *)
(***************************************************************************)
EXTENDS ProcessTree, FiniteSetTheorems, SequenceTheorems, WellFoundedInduction, TLAPS

-----------------------------------------------------------------------------
(* Rounds *)

\* A set of natural numbers that is not empty has a least element.
LEMMA NatMinimum ==
  ASSUME NEW T, T \subseteq Nat, T # {}
  PROVE  \E x \in T : \A y \in T : x <= y
<1> DEFINE R == {ss \in Nat \X Nat : ss[1] < ss[2]}
<1>1. OpToRel(<, Nat) = R
  BY Zenon DEF OpToRel
<1>2. IsWellFoundedOn(R, Nat)
  BY <1>1, NatLessThanWellFounded, Zenon
<1>3. PICK x \in T : \A y \in T : ~(<<y, x>> \in R)
  <2> HIDE DEF R
  <2> QED BY <1>2, WFMin
<1>4. \A y \in T : <<y, x>> \in Nat \X Nat
  OBVIOUS
<1>5. \A y \in T : ~(y < x)
  BY <1>3, <1>4
<1> QED BY <1>5, <1>3

\* f gives the state after every number of rounds.
IsLoop(f, start, round) ==
  f = [n \in Nat |-> IF n = 0 THEN start ELSE round[<<n - 1, f[n - 1]>>]]

\* A loop has a state before every round, and what each round keeps holds in all of them:
\* place[n] are the states the loop may be in after n rounds.
LEMMA Loop ==
  ASSUME NEW place, NEW start \in place[0], NEW round,
         \A n \in Nat : \A s \in place[n] : round[<<n, s>>] \in place[n + 1]
  PROVE  \E f : IsLoop(f, start, round) /\ \A n \in Nat : f[n] \in place[n]
<1> DEFINE Upto(n, f) == /\ f = [k \in 0..n |-> f[k]]
                         /\ f[0] = start
                         /\ \A k \in 0..(n - 1) : f[k + 1] = round[<<k, f[k]>>]
                         /\ \A k \in 0..n : f[k] \in place[k]
<1>1. \A n \in Nat : \E f : Upto(n, f)
  <2> DEFINE Bad == {n \in Nat : ~\E f : Upto(n, f)}
  <2>1. SUFFICES ASSUME Bad # {} PROVE FALSE
    OBVIOUS
  <2>2. PICK n \in Bad : \A m \in Bad : n <= m
    <3>1. Bad \subseteq Nat
      OBVIOUS
    <3> HIDE DEF Bad
    <3> QED BY <2>1, <3>1, NatMinimum
  <2>3. n # 0
    <3>1. Upto(0, [k \in 0..0 |-> start])
      OBVIOUS
    <3> QED BY <3>1
  <2>4. PICK f : Upto(n - 1, f)
    <3>1. n - 1 \in Nat /\ ~(n <= n - 1)
      BY <2>3
    <3>2. n - 1 \notin Bad
      BY <3>1, <2>2
    <3> QED BY <3>1, <3>2
  <2> DEFINE h == [k \in 0..n |-> IF k < n THEN f[k] ELSE round[<<n - 1, f[n - 1]>>]]
  <2>5. \A k \in 0..(n - 1) : h[k] = f[k] /\ k \in 0..n
    OBVIOUS
  <2>6. h[n] = round[<<n - 1, f[n - 1]>>]
    OBVIOUS
  <2>7. h = [k \in 0..n |-> h[k]]
    OBVIOUS
  <2>8. 0 \in 0..(n - 1) /\ n - 1 \in 0..(n - 1) /\ n - 1 \in Nat
    BY <2>3
  <2>9. h[n] \in place[n]
    <3>1. f[n - 1] \in place[n - 1]
      BY <2>4, <2>8
    <3>2. round[<<n - 1, f[n - 1]>>] \in place[(n - 1) + 1]
      BY <2>8, <3>1
    <3> HIDE DEF h
    <3> QED BY <2>6, <3>2
  <2> HIDE DEF h
  <2>10. h[0] = start
    BY <2>4, <2>5, <2>8
  <2>11. ASSUME NEW k \in 0..(n - 1) PROVE h[k + 1] = round[<<k, h[k]>>]
    <3>1. CASE k = n - 1
      BY <2>5, <2>6, <2>8, <3>1
    <3>2. CASE k # n - 1
      <4>1. k \in 0..((n - 1) - 1) /\ k + 1 \in 0..(n - 1)
        BY <3>2
      <4> QED BY <2>4, <2>5, <4>1
    <3> QED BY <3>1, <3>2
  <2>12. ASSUME NEW k \in 0..n PROVE h[k] \in place[k]
    <3>1. CASE k = n
      BY <2>9, <3>1
    <3>2. CASE k # n
      <4>1. k \in 0..(n - 1)
        BY <3>2
      <4> QED BY <2>4, <2>5, <4>1
    <3> QED BY <3>1, <3>2
  <2>13. Upto(n, h)
    BY <2>7, <2>10, <2>11, <2>12
  <2> QED BY <2>13
<1>2. ASSUME NEW n \in Nat, NEW m \in Nat, n <= m, NEW f, NEW h, Upto(n, f), Upto(m, h)
      PROVE  \A k \in 0..n : f[k] = h[k]
  <2> DEFINE Bad == {k \in 0..n : f[k] # h[k]}
  <2>1. SUFFICES ASSUME Bad # {} PROVE FALSE
    OBVIOUS
  <2>2. PICK k \in Bad : \A j \in Bad : k <= j
    <3>1. Bad \subseteq Nat
      OBVIOUS
    <3> HIDE DEF Bad
    <3> QED BY <2>1, <3>1, NatMinimum
  <2>3. k # 0
    BY <1>2
  <2>4. k - 1 \in 0..(n - 1) /\ k - 1 \in 0..(m - 1) /\ k - 1 \in 0..n /\ ~(k <= k - 1)
    BY <2>3, <1>2
  <2>5. f[k - 1] = h[k - 1]
    BY <2>2, <2>4
  <2>6. f[(k - 1) + 1] = round[<<k - 1, f[k - 1]>>] /\ h[(k - 1) + 1] = round[<<k - 1, h[k - 1]>>]
    BY <1>2, <2>4
  <2>7. (k - 1) + 1 = k
    OBVIOUS
  <2> QED BY <2>5, <2>6, <2>7
<1> DEFINE some == [n \in Nat |-> CHOOSE f : Upto(n, f)]
           f == [n \in Nat |-> some[n][n]]
<1>3. \A n \in Nat : Upto(n, some[n])
  <2> HIDE DEF Upto
  <2> QED BY <1>1
<1> HIDE DEF some
<1>4. f[0] = start
  BY <1>3
<1>5. ASSUME NEW n \in Nat PROVE f[n] \in place[n]
  <2>1. Upto(n, some[n]) /\ n \in 0..n
    BY <1>3
  <2> QED BY <2>1
<1>6. ASSUME NEW n \in Nat, n # 0 PROVE f[n] = round[<<n - 1, f[n - 1]>>]
  <2>1. n - 1 \in Nat /\ n - 1 <= n /\ n - 1 \in 0..(n - 1)
    BY <1>6
  <2>2. Upto(n, some[n]) /\ Upto(n - 1, some[n - 1])
    BY <1>3, <2>1
  <2>3. some[n - 1][n - 1] = some[n][n - 1]
    <3> HIDE DEF Upto
    <3> QED BY <1>2, <2>1, <2>2
  <2>4. some[n][(n - 1) + 1] = round[<<n - 1, some[n][n - 1]>>]
    BY <2>1, <2>2
  <2>5. (n - 1) + 1 = n
    OBVIOUS
  <2> QED BY <2>1, <2>3, <2>4, <2>5
<1>7. f = [n \in Nat |-> IF n = 0 THEN start ELSE round[<<n - 1, f[n - 1]>>]]
  <2>1. f = [n \in Nat |-> f[n]]
    OBVIOUS
  <2> HIDE DEF f
  <2> QED BY <1>4, <1>6, <2>1
<1> QED BY <1>5, <1>7 DEF IsLoop

LEMMA SameLoop ==
  ASSUME NEW f, NEW h, f[0] = h[0], \A n \in Nat : f[n] = h[n] => f[n + 1] = h[n + 1]
  PROVE  \A n \in Nat : f[n] = h[n]
<1> DEFINE Bad == {n \in Nat : f[n] # h[n]}
<1>1. SUFFICES ASSUME Bad # {} PROVE FALSE
  OBVIOUS
<1>2. PICK n \in Bad : \A m \in Bad : n <= m
  <2>1. Bad \subseteq Nat
    OBVIOUS
  <2> HIDE DEF Bad
  <2> QED BY <1>1, <2>1, NatMinimum
<1>3. n - 1 \in Nat /\ ~(n <= n - 1)
  OBVIOUS
<1>4. f[n - 1] = h[n - 1] /\ (n - 1) + 1 = n
  BY <1>2, <1>3
<1> QED BY <1>3, <1>4

\* The same for a number of rounds that is known.
IsRounds(f, N, start, round) ==
  f = [n \in 0..N |-> IF n = 0 THEN start ELSE round[<<n - 1, f[n - 1]>>]]

LEMMA Rounds ==
  ASSUME NEW N \in Nat, NEW place, NEW start \in place[0], NEW round,
         \A n \in 0..(N - 1) : \A s \in place[n] : round[<<n, s>>] \in place[n + 1]
  PROVE  \E f : IsRounds(f, N, start, round) /\ \A n \in 0..N : f[n] \in place[n]
<1> DEFINE All2 == UNION {place[n] : n \in 0..N}
           place2 == [n \in Nat |-> IF n <= N THEN place[n] ELSE {start}]
           round2 == [ns \in Nat \X (All2 \cup {start}) |->
                        IF ns[1] < N THEN round[ns] ELSE start]
<1>1. start \in place2[0]
  OBVIOUS
<1>2. \A n \in Nat : \A s \in place2[n] : s \in All2 \cup {start}
  <2>1. SUFFICES ASSUME NEW n \in Nat, NEW s \in place2[n] PROVE s \in All2 \cup {start}
    OBVIOUS
  <2>2. CASE n <= N
    <3>1. n \in 0..N /\ s \in place[n]
      BY <2>2
    <3> QED BY <3>1
  <2>3. CASE ~(n <= N)
    BY <2>3
  <2> QED BY <2>2, <2>3
<1>3. \A n \in Nat : \A s \in place2[n] : round2[<<n, s>>] = IF n < N THEN round[<<n, s>>] ELSE start
  <2>1. SUFFICES ASSUME NEW n \in Nat, NEW s \in place2[n]
                 PROVE  round2[<<n, s>>] = IF n < N THEN round[<<n, s>>] ELSE start
    OBVIOUS
  <2>2. s \in All2 \cup {start}
    BY <1>2
  <2> HIDE DEF All2, place2
  <2>3. <<n, s>> \in Nat \X (All2 \cup {start})
    BY <2>2
  <2> QED BY <2>3
<1> HIDE DEF round2
<1>4. \A n \in Nat : \A s \in place2[n] : round2[<<n, s>>] \in place2[n + 1]
  <2>1. SUFFICES ASSUME NEW n \in Nat, NEW s \in place2[n] PROVE round2[<<n, s>>] \in place2[n + 1]
    OBVIOUS
  <2>2. CASE n < N
    <3>1. n \in 0..(N - 1) /\ n <= N /\ n + 1 <= N /\ n + 1 \in Nat
      BY <2>2
    <3> QED BY <1>3, <2>2, <3>1
  <2>3. CASE ~(n < N)
    <3>1. ~(n + 1 <= N) /\ n + 1 \in Nat
      BY <2>3
    <3> QED BY <1>3, <2>3, <3>1
  <2> QED BY <2>2, <2>3
<1>5. PICK f : IsLoop(f, start, round2) /\ \A n \in Nat : f[n] \in place2[n]
  <2> HIDE DEF place2
  <2> QED BY <1>1, <1>4, Loop, Zenon
<1> DEFINE g == [n \in 0..N |-> f[n]]
<1>6. \A n \in 0..N : g[n] \in place[n]
  BY <1>5
<1>7. ASSUME NEW n \in 0..N, n # 0 PROVE g[n] = round[<<n - 1, g[n - 1]>>]
  <2>1. n - 1 \in Nat /\ n - 1 < N /\ n - 1 \in 0..N /\ n \in Nat
    BY <1>7
  <2>2. f[n] = round2[<<n - 1, f[n - 1]>>]
    BY <1>5, <1>7, <2>1 DEF IsLoop
  <2>3. f[n - 1] \in place2[n - 1]
    BY <1>5, <2>1
  <2> HIDE DEF place2
  <2> QED BY <1>3, <2>1, <2>2, <2>3
<1>8. g[0] = start
  BY <1>5 DEF IsLoop
<1>9. g = [n \in 0..N |-> IF n = 0 THEN start ELSE round[<<n - 1, g[n - 1]>>]]
  <2>1. g = [n \in 0..N |-> g[n]]
    OBVIOUS
  <2> HIDE DEF g
  <2> QED BY <1>7, <1>8, <2>1
<1> QED BY <1>6, <1>9 DEF IsRounds

\* What holds of the first round and passes from one to the next holds in all.
LEMMA Stays ==
  ASSUME NEW N \in Nat, NEW place, NEW f, f[0] \in place[0],
         \A n \in 0..(N - 1) : f[n] \in place[n] => f[n + 1] \in place[n + 1]
  PROVE  \A n \in 0..N : f[n] \in place[n]
<1> DEFINE Bad == {n \in 0..N : f[n] \notin place[n]}
<1>1. SUFFICES ASSUME Bad # {} PROVE FALSE
  OBVIOUS
<1>2. PICK n \in Bad : \A m \in Bad : n <= m
  <2>1. Bad \subseteq Nat
    OBVIOUS
  <2> HIDE DEF Bad
  <2> QED BY <1>1, <2>1, NatMinimum
<1>3. n - 1 \in 0..(N - 1) /\ n - 1 \in 0..N /\ ~(n <= n - 1) /\ (n - 1) + 1 = n
  OBVIOUS
<1>4. f[n - 1] \in place[n - 1]
  BY <1>2, <1>3
<1> QED BY <1>3, <1>4

-----------------------------------------------------------------------------
(* Ancestors *)

\* A set of processes that holds the parents of its members.
Upward(parents, S) == \A m \in S : parents[m] \subseteq S

LEMMA AncestorsAreLeast ==
  ASSUME NEW T, NEW parents \in [T -> SUBSET T], NEW i \in T,
         NEW S \in SUBSET T, parents[i] \subseteq S, Upward(parents, S)
  PROVE  Ancestors(parents)[i] \subseteq S
BY DEF Ancestors, Upward

LEMMA AncestorsAreUpward ==
  ASSUME NEW T, NEW parents \in [T -> SUBSET T], NEW i \in T
  PROVE  /\ Ancestors(parents)[i] \subseteq T
         /\ parents[i] \subseteq Ancestors(parents)[i]
         /\ Upward(parents, Ancestors(parents)[i])
BY DEF Ancestors, Upward

LEMMA AncestorsOfAncestors ==
  ASSUME NEW T, NEW parents \in [T -> SUBSET T], NEW i \in T,
         NEW j \in Ancestors(parents)[i]
  PROVE  Ancestors(parents)[j] \subseteq Ancestors(parents)[i]
<1>1. j \in T /\ parents[j] \subseteq Ancestors(parents)[i]
      /\ Ancestors(parents)[i] \in SUBSET T
  BY AncestorsAreUpward DEF Upward
<1> QED BY <1>1, AncestorsAreUpward, AncestorsAreLeast

\* A node with one parent is below it and all that is above it.
LEMMA AncestorsOneUp ==
  ASSUME NEW T, NEW parents \in [T -> SUBSET T], NEW i \in T
  PROVE  /\ parents[i] = {} => Ancestors(parents)[i] = {}
         /\ \A a : parents[i] = {a} =>
              a \in T /\ Ancestors(parents)[i] = {a} \cup Ancestors(parents)[a]
<1>1. ASSUME parents[i] = {} PROVE Ancestors(parents)[i] = {}
  <2>1. {} \in SUBSET T /\ parents[i] \subseteq {} /\ Upward(parents, {})
    BY <1>1 DEF Upward
  <2>2. Ancestors(parents)[i] \subseteq {}
    BY <2>1, AncestorsAreLeast
  <2> QED BY <2>2
<1>2. ASSUME NEW a, parents[i] = {a}
      PROVE  a \in T /\ Ancestors(parents)[i] = {a} \cup Ancestors(parents)[a]
  <2>1. a \in T
    BY <1>2
  <2> DEFINE A == Ancestors(parents)[a]
  <2>2. A \subseteq T /\ parents[a] \subseteq A /\ Upward(parents, A)
    BY <2>1, AncestorsAreUpward
  <2> HIDE DEF A
  <2> DEFINE S == {a} \cup A
  <2>3. S \in SUBSET T /\ parents[i] \subseteq S /\ Upward(parents, S)
    BY <1>2, <2>1, <2>2 DEF Upward
  <2>4. Ancestors(parents)[i] \subseteq S
    <3> HIDE DEF S
    <3> QED BY <2>3, AncestorsAreLeast, Zenon
  <2>5. a \in Ancestors(parents)[i]
    BY <1>2, AncestorsAreUpward
  <2>6. A \subseteq Ancestors(parents)[i]
    BY <2>5, AncestorsOfAncestors DEF A
  <2> QED BY <2>1, <2>4, <2>5, <2>6 DEF A
<1> QED BY <1>1, <1>2

-----------------------------------------------------------------------------
(* Chains *)

\* A chain of parents from start, none of which is done.
IsChain(links, done, start, c) ==
  /\ Len(c) >= 1 /\ c[1] = start
  /\ \A i, j \in 1..Len(c) : c[i] = c[j] => i = j
  /\ \A k \in 1..(Len(c) - 1) : links[c[k]] = c[k + 1]
  /\ \A k \in 1..Len(c) : c[k] \notin done

\* Nothing is to be added to it.
IsComplete(links, done, c) ==
  links[c[Len(c)]] \in {0} \cup done \cup {c[k] : k \in 1..Len(c)}

LEMMA ClimbedChain ==
  ASSUME NEW T, 0 \notin T, NEW links \in [T -> T \cup {0}], NEW done \in SUBSET T,
         NEW start \in T \ done, NEW c \in Seq(T), IsChain(links, done, start, c)
  PROVE  /\ IsComplete(links, done, c) => Climbed(links, done, c) = c
         /\ ~IsComplete(links, done, c) =>
              /\ Climbed(links, done, c) \in Seq(T)
              /\ Len(Climbed(links, done, c)) = Len(c) + 1
              /\ IsChain(links, done, start, Climbed(links, done, c))
<1> DEFINE above == links[c[Len(c)]]
<1>1. Len(c) \in Nat /\ Len(c) >= 1 /\ \A k \in 1..Len(c) : c[k] \in T
  BY DEF IsChain
<1>2. above \in T \cup {0}
  BY <1>1
<1>3. Range(c) = {c[k] : k \in 1..Len(c)} /\ Last(c) = c[Len(c)]
  BY DEF Range, Last
<1>4. Climbed(links, done, c) = IF IsComplete(links, done, c) THEN c ELSE Append(c, above)
  BY <1>3 DEF Climbed, IsComplete
<1>5. ASSUME ~IsComplete(links, done, c)
      PROVE  /\ Append(c, above) \in Seq(T)
             /\ Len(Append(c, above)) = Len(c) + 1
             /\ IsChain(links, done, start, Append(c, above))
  <2> DEFINE d == Append(c, above)
  <2>1. above \in T \ done /\ \A k \in 1..Len(c) : above # c[k]
    BY <1>2, <1>5 DEF IsComplete
  <2>2. d \in Seq(T) /\ Len(d) = Len(c) + 1 /\ d[Len(c) + 1] = above
        /\ \A k \in 1..Len(c) : d[k] = c[k]
    BY <2>1
  <2> HIDE DEF d
  <2>3. \A i, j \in 1..Len(d) : d[i] = d[j] => i = j
    <3>1. SUFFICES ASSUME NEW i \in 1..Len(d), NEW j \in 1..Len(d), d[i] = d[j], i # j
                   PROVE  FALSE
      OBVIOUS
    <3>2. CASE i \in 1..Len(c) /\ j \in 1..Len(c)
      BY <2>2, <3>1, <3>2 DEF IsChain
    <3>3. CASE i = Len(c) + 1 /\ j \in 1..Len(c)
      BY <2>1, <2>2, <3>1, <3>3
    <3>4. CASE j = Len(c) + 1 /\ i \in 1..Len(c)
      BY <2>1, <2>2, <3>1, <3>4
    <3> QED BY <1>1, <2>2, <3>1, <3>2, <3>3, <3>4
  <2>4. \A k \in 1..(Len(d) - 1) : links[d[k]] = d[k + 1]
    <3>1. SUFFICES ASSUME NEW k \in 1..Len(c) PROVE links[d[k]] = d[k + 1]
      BY <1>1, <2>2
    <3>2. CASE k = Len(c)
      BY <1>1, <2>2, <3>2
    <3>3. CASE k # Len(c)
      <4>1. k \in 1..(Len(c) - 1) /\ k + 1 \in 1..Len(c)
        BY <1>1, <3>3
      <4> QED BY <2>2, <4>1 DEF IsChain
    <3> QED BY <3>2, <3>3
  <2>5. \A k \in 1..Len(d) : d[k] \notin done
    BY <1>1, <2>1, <2>2 DEF IsChain
  <2>6. Len(d) >= 1 /\ d[1] = start
    BY <1>1, <2>2 DEF IsChain
  <2> QED BY <2>2, <2>3, <2>4, <2>5, <2>6 DEF IsChain, d
<1> QED BY <1>4, <1>5

LEMMA ClimbIsComplete ==
  ASSUME NEW N \in Nat, NEW links \in [1..N -> 0..N], NEW done \in SUBSET (1..N),
         NEW start \in (1..N) \ done
  PROVE  /\ Climb(links, done, start) \in Seq(1..N)
         /\ IsChain(links, done, start, Climb(links, done, start))
         /\ IsComplete(links, done, Climb(links, done, start))
<1> DEFINE T == 1..N
           Kept(n, c) == /\ IsChain(links, done, start, c)
                         /\ IsComplete(links, done, c) \/ Len(c) = n + 1
           place == [n \in Nat |-> {c \in Seq(T) : Kept(n, c)}]
           round == [nc \in Nat \X Seq(T) |-> Climbed(links, done, nc[2])]
           Solves(f) == f = [n \in Nat |-> IF n = 0 THEN <<start>>
                                           ELSE Climbed(links, done, f[n - 1])]
           chain == CHOOSE f : Solves(f)
<1>1. 0 \notin T /\ 0..N = T \cup {0} /\ links \in [T -> T \cup {0}]
      /\ done \in SUBSET T /\ start \in T \ done
  OBVIOUS
<1>2. Climb(links, done, start) = chain[N]
  <2>1. DOMAIN links = 1..N /\ Cardinality(DOMAIN links) = N
    BY FS_Interval
  <2> QED BY <2>1 DEF Climb
<1>3. <<start>> \in place[0]
  BY DEF IsChain
<1>4. \A n \in Nat : \A c \in place[n] : round[<<n, c>>] \in place[n + 1]
  <2>1. SUFFICES ASSUME NEW n \in Nat, NEW c \in place[n]
                 PROVE  Climbed(links, done, c) \in place[n + 1]
    OBVIOUS
  <2>2. c \in Seq(T) /\ Kept(n, c)
    OBVIOUS
  <2>3. Climbed(links, done, c) \in Seq(T) /\ Kept(n + 1, Climbed(links, done, c))
    <3> DEFINE d == Climbed(links, done, c)
    <3>1. IsChain(links, done, start, c)
      BY <2>2
    <3>2. /\ IsComplete(links, done, c) => d = c
          /\ ~IsComplete(links, done, c) =>
               d \in Seq(T) /\ Len(d) = Len(c) + 1 /\ IsChain(links, done, start, d)
      <4>1. c \in Seq(T) /\ 0 \notin T /\ links \in [T -> T \cup {0}] /\ done \in SUBSET T
            /\ start \in T \ done
        BY <1>1, <2>2
      <4> HIDE DEF T, place, Kept, round, chain, Solves, d
      <4>2. /\ IsComplete(links, done, c) => Climbed(links, done, c) = c
            /\ ~IsComplete(links, done, c) =>
                 /\ Climbed(links, done, c) \in Seq(T)
                 /\ Len(Climbed(links, done, c)) = Len(c) + 1
                 /\ IsChain(links, done, start, Climbed(links, done, c))
        BY <3>1, <4>1, ClimbedChain, Zenon
      <4> QED BY <4>2 DEF d
    <3> HIDE DEF d
    <3> QED BY <2>2, <3>2 DEF d
  <2> QED BY <2>3
<1>5. PICK f : IsLoop(f, <<start>>, round) /\ \A n \in Nat : f[n] \in place[n]
  <2> DEFINE first == <<start>>
  <2>1. first \in place[0]
    BY <1>3
  <2> HIDE DEF place, round, first
  <2>2. \E f : IsLoop(f, first, round) /\ \A n \in Nat : f[n] \in place[n]
    BY <2>1, <1>4, Loop, Zenon
  <2> QED BY <2>2 DEF first
<1>6. \A n \in Nat : n # 0 => round[<<n - 1, f[n - 1]>>] = Climbed(links, done, f[n - 1])
  <2>1. SUFFICES ASSUME NEW n \in Nat, n # 0
                 PROVE  round[<<n - 1, f[n - 1]>>] = Climbed(links, done, f[n - 1])
    OBVIOUS
  <2>2. n - 1 \in Nat
    BY <2>1
  <2>3. f[n - 1] \in Seq(T)
    BY <1>5, <2>2
  <2> QED BY <2>2, <2>3
<1> HIDE DEF round
<1>7. Solves(f)
  BY <1>5, <1>6 DEF IsLoop
<1>8. Solves(chain)
  BY <1>7
<1> HIDE DEF chain
<1>9. chain[N] = f[N]
  <2>1. chain[0] = f[0]
    BY <1>7, <1>8
  <2>2. ASSUME NEW n \in Nat, chain[n] = f[n] PROVE chain[n + 1] = f[n + 1]
    <3>1. n + 1 \in Nat /\ n + 1 # 0 /\ (n + 1) - 1 = n
      OBVIOUS
    <3>2. chain[n + 1] = Climbed(links, done, chain[(n + 1) - 1])
      BY <1>8, <3>1
    <3>3. f[n + 1] = Climbed(links, done, f[(n + 1) - 1])
      BY <1>7, <3>1
    <3> QED BY <2>2, <3>1, <3>2, <3>3
  <2> QED BY <2>1, <2>2, SameLoop
<1>10. f[N] \in Seq(T) /\ Kept(N, f[N])
  BY <1>5
<1>11. IsComplete(links, done, f[N])
  <2>1. SUFFICES ASSUME Len(f[N]) = N + 1 PROVE FALSE
    BY <1>10
  <2> DEFINE c == f[N]
             D == 1..(N + 1)
  <2>2. c \in Seq(T) /\ Len(c) = N + 1
    BY <1>10, <2>1
  <2>3. \A i, j \in D : c[i] = c[j] => i = j
    BY <1>10, <2>1 DEF IsChain
  <2> HIDE DEF c
  <2>4. c \in [D -> T]
    BY <2>2, LenProperties, ElementOfSeq
  <2>5. /\ IsFiniteSet(D) /\ IsFiniteSet(T) /\ Cardinality(T) < Cardinality(D)
    BY FS_Interval
  <2> HIDE DEF D, T
  <2>6. \E i, j \in D : i # j /\ c[i] = c[j]
    BY <2>4, <2>5, FS_PigeonHole, Zenon
  <2> QED BY <2>3, <2>6
<1> QED BY <1>2, <1>9, <1>10, <1>11

-----------------------------------------------------------------------------
(* Tables *)

\* What a sample is: processes with an identity each.
IsTable(table) ==
  /\ table \in Seq([identity : Identities, parent : Nat])
  /\ \A i, j \in DOMAIN table : table[i].identity = table[j].identity => i = j

LEMMA Entries ==
  ASSUME NEW table, IsTable(table)
  PROVE  /\ Len(table) \in Nat /\ DOMAIN table = 1..Len(table) /\ 0 \notin DOMAIN table
         /\ \A i \in DOMAIN table :
              /\ table[i].identity \in Identities
              /\ table[i].identity \in [pid : Nat \ {0}, start : Nat]
              /\ table[i].identity.pid \in Nat /\ table[i].identity.start \in Nat
              /\ table[i].parent \in Nat
<1> DEFINE Process == [identity : Identities, parent : Nat]
<1>1. table \in Seq(Process)
  BY DEF IsTable
<1>2. Len(table) \in Nat /\ DOMAIN table = 1..Len(table)
      /\ \A i \in 1..Len(table) : table[i] \in Process
  <2> HIDE DEF Process
  <2> QED BY <1>1, LenProperties, ElementOfSeq
<1>3. ASSUME NEW i \in DOMAIN table
      PROVE  /\ table[i].identity \in Identities
             /\ table[i].identity \in [pid : Nat \ {0}, start : Nat]
             /\ table[i].identity.pid \in Nat /\ table[i].identity.start \in Nat
             /\ table[i].parent \in Nat
  <2>1. table[i].identity \in Identities /\ table[i].parent \in Nat
    BY <1>2
  <2>2. table[i].identity \in [pid : Nat \ {0}, start : Nat]
    BY <2>1, ProcessTreeAssumption
  <2> QED BY <2>1, <2>2
<1> QED BY <1>2, <1>3

LEMMA LowerIsTotal ==
  ASSUME NEW table, IsTable(table), NEW i \in DOMAIN table, NEW j \in DOMAIN table
  PROVE  /\ i = j \/ Lower(table[i].identity, table[j].identity)
                  \/ Lower(table[j].identity, table[i].identity)
         /\ ~(Lower(table[i].identity, table[j].identity)
              /\ Lower(table[j].identity, table[i].identity))
<1>1. table[i].identity \in [pid : Nat \ {0}, start : Nat]
      /\ table[j].identity \in [pid : Nat \ {0}, start : Nat]
  BY Entries
<1>2. table[i].identity.pid = table[j].identity.pid
      /\ table[i].identity.start = table[j].identity.start => i = j
  <2>1. table[i].identity = table[j].identity => i = j
    BY DEF IsTable
  <2>2. \A x, y \in [pid : Nat \ {0}, start : Nat] : x.pid = y.pid /\ x.start = y.start => x = y
    OBVIOUS
  <2> QED BY <1>1, <2>1, <2>2
<1>3. /\ table[i].identity.pid \in Nat /\ table[i].identity.start \in Nat
      /\ table[j].identity.pid \in Nat /\ table[j].identity.start \in Nat
  BY <1>1
<1> QED BY <1>2, <1>3 DEF Lower

\* A process that no other of S is lower than.
IsLowest(table, S, i) ==
  i \in S /\ \A j \in S : i = j \/ Lower(table[i].identity, table[j].identity)

LEMMA LowestIsUnique ==
  ASSUME NEW table, IsTable(table), NEW S \in SUBSET DOMAIN table, NEW i,
         IsLowest(table, S, i)
  PROVE  i = Lowest(table, S)
<1> DEFINE low == Lowest(table, S)
<1>1. IsLowest(table, S, low)
  BY DEF IsLowest, Lowest
<1>2. i \in DOMAIN table /\ low \in DOMAIN table
      /\ (i = low \/ Lower(table[i].identity, table[low].identity))
      /\ (i = low \/ Lower(table[low].identity, table[i].identity))
  <2> HIDE DEF low
  <2> QED BY <1>1 DEF IsLowest
<1> HIDE DEF low
<1>3. ~(Lower(table[i].identity, table[low].identity)
        /\ Lower(table[low].identity, table[i].identity))
  BY <1>2, LowerIsTotal
<1> QED BY <1>2, <1>3 DEF low

LEMMA LowestExists ==
  ASSUME NEW table, IsTable(table), NEW S \in SUBSET DOMAIN table, S # {}
  PROVE  IsLowest(table, S, Lowest(table, S))
<1> DEFINE Pid(i) == table[i].identity.pid
           Start(i) == table[i].identity.start
           Pids == {Pid(i) : i \in S}
<1>1. \A i \in S : Pid(i) \in Nat /\ Start(i) \in Nat
  BY Entries
<1>2. PICK p \in Pids : \A q \in Pids : p <= q
  <2>1. Pids \subseteq Nat /\ Pids # {}
    BY <1>1
  <2> HIDE DEF Pids
  <2> QED BY <2>1, NatMinimum
<1> DEFINE Starts == {Start(i) : i \in {j \in S : Pid(j) = p}}
<1>3. PICK t \in Starts : \A u \in Starts : t <= u
  <2>1. Starts \subseteq Nat /\ Starts # {}
    BY <1>1, <1>2
  <2> HIDE DEF Starts
  <2> QED BY <2>1, NatMinimum
<1>4. PICK i \in S : Pid(i) = p /\ Start(i) = t
  OBVIOUS
<1>5. ASSUME NEW j \in S PROVE i = j \/ Lower(table[i].identity, table[j].identity)
  <2>1. Pid(i) <= Pid(j)
    BY <1>2, <1>4
  <2>2. Pid(j) = p => Start(i) <= Start(j)
    BY <1>3, <1>4
  <2>3. Pid(i) \in Nat /\ Pid(j) \in Nat /\ Start(i) \in Nat /\ Start(j) \in Nat
    BY <1>1
  <2>4. ~Lower(table[j].identity, table[i].identity)
    BY <1>4, <2>1, <2>2, <2>3 DEF Lower
  <2>5. i \in DOMAIN table /\ j \in DOMAIN table
    OBVIOUS
  <2> QED BY <2>4, <2>5, LowerIsTotal
<1>6. IsLowest(table, S, i)
  BY <1>5 DEF IsLowest
<1> QED BY <1>6, LowestIsUnique

\* The parents a table reports.
ParentsIn(table) ==
  [i \in DOMAIN table |->
     {j \in DOMAIN table : /\ table[i].parent = table[j].identity.pid
                           /\ j = Owner(table, table[j].identity.pid)}]

\* A parent is the process the link leads to, or the process itself if the link was cut for
\* that.
LEMMA LinksAreParents ==
  ASSUME NEW table, IsTable(table)
  PROVE  /\ ParentLinks(table) \in [DOMAIN table -> DOMAIN table \cup {0}]
         /\ SelfParents(table) \in SUBSET DOMAIN table
         /\ ParentsIn(table) \in [DOMAIN table -> SUBSET DOMAIN table]
         /\ \A i \in DOMAIN table :
              ParentsIn(table)[i] = IF ParentLinks(table)[i] # 0
                                    THEN {ParentLinks(table)[i]}
                                    ELSE IF i \in SelfParents(table) THEN {i} ELSE {}
<1> DEFINE T == DOMAIN table
           links == ParentLinks(table)
           Listed(pid) == \E j \in T : table[j].identity.pid = pid
           owner(pid) == Owner(table, pid)
<1>1. 0 \notin T
  BY Entries
<1>2. \A i \in T : links[i] = IF Listed(table[i].parent) /\ owner(table[i].parent) # i
                              THEN owner(table[i].parent) ELSE 0
  BY DEF ParentLinks
<1>3. ASSUME NEW pid, Listed(pid) PROVE owner(pid) \in T /\ table[owner(pid)].identity.pid = pid
  <2> DEFINE S == {i \in T : table[i].identity.pid = pid}
  <2>1. S \in SUBSET DOMAIN table /\ S # {}
    BY <1>3
  <2>2. Owner(table, pid) = Lowest(table, S)
    BY DEF Owner
  <2> HIDE DEF S
  <2>3. IsLowest(table, S, Lowest(table, S))
    BY <2>1, LowestExists
  <2>4. owner(pid) \in S
    BY <2>2, <2>3 DEF IsLowest
  <2> QED BY <2>4 DEF S
<1>4. links \in [T -> T \cup {0}]
  <2>1. links = [i \in T |-> links[i]]
    BY DEF ParentLinks
  <2>2. \A i \in T : links[i] \in T \cup {0}
    <3> HIDE DEF owner
    <3> QED BY <1>2, <1>3
  <2> HIDE DEF links
  <2> QED BY <2>1, <2>2
<1>5. SelfParents(table) = {i \in T : table[i].parent = table[i].identity.pid /\ links[i] = 0}
  BY DEF SelfParents
<1>6. ASSUME NEW i \in T
      PROVE  ParentsIn(table)[i] = IF links[i] # 0 THEN {links[i]}
                                   ELSE IF i \in SelfParents(table) THEN {i} ELSE {}
  <2> DEFINE parent == table[i].parent
  <2>1. ParentsIn(table)[i] = {j \in T : table[j].identity.pid = parent /\ j = owner(parent)}
    BY DEF ParentsIn
  <2> HIDE DEF links, owner
  <2>2. CASE ~Listed(parent)
    <3>1. ParentsIn(table)[i] = {} /\ links[i] = 0
      BY <1>2, <2>1, <2>2
    <3>2. i \notin SelfParents(table)
      BY <1>5, <2>2
    <3> QED BY <3>1, <3>2
  <2>3. CASE Listed(parent)
    <3>1. owner(parent) \in T /\ table[owner(parent)].identity.pid = parent
      BY <1>3, <2>3
    <3>2. ParentsIn(table)[i] = {owner(parent)}
      BY <2>1, <3>1
    <3>3. CASE owner(parent) = i
      <4>1. links[i] = 0 /\ i \in SelfParents(table)
        BY <1>2, <1>5, <3>1, <3>3
      <4> QED BY <3>2, <3>3, <4>1
    <3>4. CASE owner(parent) # i
      <4>1. links[i] = owner(parent) /\ links[i] # 0
        BY <1>1, <1>2, <2>3, <3>1, <3>4
      <4> QED BY <3>2, <4>1
    <3> QED BY <3>3, <3>4
  <2> QED BY <2>2, <2>3
<1> QED BY <1>4, <1>5, <1>6 DEF ParentsIn

-----------------------------------------------------------------------------
(* One link is cut in every cycle *)

Above(table)    == Ancestors(ParentsIn(table))
Cycle(table, i) == {j \in Above(table)[i] : i \in Above(table)[j]}

\* The links to be cut of the processes in done, and of those that are their own parents.
Cuts(table, done) ==
  {i \in DOMAIN table : /\ i \in done \cup SelfParents(table)
                        /\ Cycle(table, i) # {}
                        /\ i = Lowest(table, Cycle(table, i))}

\* What every walk keeps of links, cut and done.
IsWalked(table, state) ==
  /\ state \in [links : [DOMAIN table -> DOMAIN table \cup {0}],
                cut : SUBSET DOMAIN table, done : SUBSET DOMAIN table]
  /\ Upward(ParentsIn(table), state.done)
  /\ state.cut = Cuts(table, state.done)
  /\ state.links = [i \in DOMAIN table |->
                      IF i \in state.cut THEN 0 ELSE ParentLinks(table)[i]]

LEMMA AboveUpward ==
  ASSUME NEW table, IsTable(table), NEW i \in DOMAIN table
  PROVE  /\ Above(table)[i] \in SUBSET DOMAIN table
         /\ ParentsIn(table)[i] \subseteq Above(table)[i]
         /\ Upward(ParentsIn(table), Above(table)[i])
         /\ \A S \in SUBSET DOMAIN table :
              ParentsIn(table)[i] \subseteq S /\ Upward(ParentsIn(table), S)
                => Above(table)[i] \subseteq S
         /\ \A j \in Above(table)[i] : Above(table)[j] \subseteq Above(table)[i]
<1>1. ParentsIn(table) \in [DOMAIN table -> SUBSET DOMAIN table]
  BY LinksAreParents
<1>2. /\ Above(table)[i] \subseteq DOMAIN table
      /\ ParentsIn(table)[i] \subseteq Above(table)[i]
      /\ Upward(ParentsIn(table), Above(table)[i])
  BY <1>1, AncestorsAreUpward, Zenon DEF Above
<1>3. ASSUME NEW S \in SUBSET DOMAIN table, ParentsIn(table)[i] \subseteq S,
             Upward(ParentsIn(table), S)
      PROVE  Above(table)[i] \subseteq S
  BY <1>1, <1>3, AncestorsAreLeast, Zenon DEF Above
<1>4. ASSUME NEW j \in Above(table)[i] PROVE Above(table)[j] \subseteq Above(table)[i]
  BY <1>1, <1>4, AncestorsOfAncestors, Zenon DEF Above
<1> QED BY <1>2, <1>3, <1>4

\* A process is on a cycle if it is above itself.
LEMMA OnCycle ==
  ASSUME NEW table, IsTable(table), NEW i \in DOMAIN table
  PROVE  Cycle(table, i) # {} <=> i \in Above(table)[i]
BY AboveUpward DEF Cycle

LEMMA SelfParentsAreCut ==
  ASSUME NEW table, IsTable(table), NEW i \in SelfParents(table)
  PROVE  /\ i \in DOMAIN table /\ ParentsIn(table)[i] = {i} /\ ParentLinks(table)[i] = 0
         /\ Above(table)[i] = {i}
         /\ \A done : i \in Cuts(table, done)
<1>1. i \in DOMAIN table
  BY LinksAreParents
<1>2. ParentLinks(table)[i] = 0
  BY <1>1 DEF SelfParents
<1>3. ParentsIn(table)[i] = {i}
  BY <1>1, <1>2, LinksAreParents
<1>4. Upward(ParentsIn(table), {i}) /\ {i} \in SUBSET DOMAIN table
  BY <1>1, <1>3 DEF Upward
<1>5. Above(table)[i] = {i}
  BY <1>1, <1>3, <1>4, AboveUpward
<1>6. Cycle(table, i) = {i}
  BY <1>5 DEF Cycle
<1>7. i = Lowest(table, {i})
  BY <1>1, LowestIsUnique DEF IsLowest
<1> QED BY <1>1, <1>2, <1>3, <1>5, <1>6, <1>7 DEF Cuts

\* What is above a process of a chain holds the rest of the chain.
LEMMA RestOfChain ==
  ASSUME NEW parents, NEW A, Upward(parents, A), NEW c, Len(c) \in Nat,
         \A k \in 1..(Len(c) - 1) : c[k + 1] \in parents[c[k]],
         NEW a \in 1..Len(c), c[a] \in A
  PROVE  \A k \in a..Len(c) : c[k] \in A
<1> DEFINE Bad == {k \in a..Len(c) : c[k] \notin A}
<1>1. SUFFICES ASSUME Bad # {} PROVE FALSE
  OBVIOUS
<1>2. PICK k \in Bad : \A j \in Bad : k <= j
  <2>1. Bad \subseteq Nat
    OBVIOUS
  <2> HIDE DEF Bad
  <2> QED BY <1>1, <2>1, NatMinimum
<1>3. k # a
  OBVIOUS
<1>4. k - 1 \in a..Len(c) /\ k - 1 \in 1..(Len(c) - 1) /\ ~(k <= k - 1) /\ (k - 1) + 1 = k
  BY <1>3
<1>5. c[k - 1] \in A
  BY <1>2, <1>4
<1>6. c[(k - 1) + 1] \in parents[c[k - 1]]
  BY <1>4
<1> QED BY <1>4, <1>5, <1>6 DEF Upward

\* A chain as the walks of break_cycles find it, on the links of the table.
IsClimb(table, done, c) ==
  /\ c \in Seq(DOMAIN table) /\ Len(c) >= 1
  /\ \A i, j \in 1..Len(c) : c[i] = c[j] => i = j
  /\ \A k \in 1..Len(c) : c[k] \notin done
  /\ \A k \in 1..(Len(c) - 1) : ParentsIn(table)[c[k]] = {c[k + 1]}

OnChain(c)      == {c[k] : k \in 1..Len(c)}
OnLoop(c, from) == {c[k] : k \in from..Len(c)}

\* The chain of a walk in this state ends at a process without a parent, with one that is
\* done, or with one on the chain.
IsWalkedUp(table, state, start, c) ==
  /\ IsClimb(table, state.done, c) /\ c[1] = start
  /\ state.links[c[Len(c)]] = ParentLinks(table)[c[Len(c)]]
  /\ ParentLinks(table)[c[Len(c)]] \in {0} \cup state.done \cup OnChain(c)

LEMMA WalkClimbs ==
  ASSUME NEW table, IsTable(table), NEW state, IsWalked(table, state),
         NEW start \in DOMAIN table \ state.done
  PROVE  IsWalkedUp(table, state, start, Climb(state.links, state.done, start))
<1> DEFINE T == DOMAIN table
           N == Len(table)
           L == ParentLinks(table)
           P == ParentsIn(table)
           links == state.links
           done == state.done
           c == Climb(links, done, start)
<1>1. N \in Nat /\ T = 1..N /\ T \cup {0} = 0..N /\ 0 \notin T
  BY Entries
<1>2. links \in [1..N -> 0..N] /\ done \in SUBSET (1..N) /\ start \in (1..N) \ done
  BY <1>1 DEF IsWalked
<1>3. c \in Seq(1..N) /\ IsChain(links, done, start, c) /\ IsComplete(links, done, c)
  <2> HIDE DEF N, links, done
  <2> QED BY <1>1, <1>2, ClimbIsComplete, Zenon
<1> HIDE DEF c
<1>4. Len(c) \in Nat /\ \A k \in 1..Len(c) : c[k] \in T
  BY <1>1, <1>3
<1>5. ASSUME NEW x \in T \ done PROVE links[x] = L[x]
  <2>1. links[x] = IF x \in state.cut THEN 0 ELSE L[x]
    BY DEF IsWalked
  <2>2. x \in state.cut => x \in SelfParents(table)
    BY <1>5 DEF IsWalked, Cuts
  <2>3. x \in SelfParents(table) => L[x] = 0
    BY SelfParentsAreCut
  <2> QED BY <2>1, <2>2, <2>3
<1> HIDE DEF links, done
<1>6. Len(c) >= 1 /\ c[1] = start
      /\ (\A i, j \in 1..Len(c) : c[i] = c[j] => i = j)
      /\ \A k \in 1..Len(c) : c[k] \notin done
  BY <1>3 DEF IsChain
<1>7. \A k \in 1..Len(c) : links[c[k]] = L[c[k]]
  BY <1>4, <1>5, <1>6
<1>8. ASSUME NEW k \in 1..(Len(c) - 1) PROVE P[c[k]] = {c[k + 1]}
  <2>1. k \in 1..Len(c) /\ k + 1 \in 1..Len(c)
    BY <1>4
  <2>2. L[c[k]] = c[k + 1]
    BY <1>3, <1>7, <2>1 DEF IsChain
  <2>3. c[k] \in T /\ L[c[k]] # 0
    BY <1>1, <1>4, <2>1, <2>2
  <2> QED BY <2>2, <2>3, LinksAreParents
<1>9. Len(c) \in 1..Len(c)
  BY <1>4, <1>6
<1>10. L[c[Len(c)]] \in {0} \cup done \cup OnChain(c)
       /\ links[c[Len(c)]] = L[c[Len(c)]]
  BY <1>3, <1>7, <1>9 DEF IsComplete, OnChain
<1>11. IsClimb(table, done, c)
  BY <1>1, <1>3, <1>6, <1>8 DEF IsClimb
<1> QED BY <1>6, <1>10, <1>11 DEF links, done, c, IsWalkedUp

\* The walk runs into what is done, or into a process without a parent: no cycle is new.
EndsOpen(table, done, c) == ParentLinks(table)[c[Len(c)]] \in {0} \cup done
CutsNoMore(table, done, c) ==
  /\ Upward(ParentsIn(table), done \cup OnChain(c))
  /\ Cuts(table, done \cup OnChain(c)) = Cuts(table, done)

LEMMA NoCycleOnOpenChain ==
  ASSUME NEW table, IsTable(table), NEW done \in SUBSET DOMAIN table,
         Upward(ParentsIn(table), done), NEW c, IsClimb(table, done, c),
         EndsOpen(table, done, c)
  PROVE  CutsNoMore(table, done, c)
<1> DEFINE P == ParentsIn(table)
           chain == {c[k] : k \in 1..Len(c)}
           L == ParentLinks(table)
           Self == SelfParents(table)
           rest(k) == done \cup {c[j] : j \in (k + 1)..Len(c)}
<1>1. Len(c) \in Nat /\ Len(c) >= 1 /\ (\A k \in 1..Len(c) : c[k] \in DOMAIN table)
  BY DEF IsClimb
<1>2. P[c[Len(c)]] \subseteq done \cup {c[Len(c)]}
      /\ (c[Len(c)] \notin Self => P[c[Len(c)]] \subseteq done)
  <2>1. c[Len(c)] \in DOMAIN table
    BY <1>1
  <2>2. P[c[Len(c)]] = IF L[c[Len(c)]] # 0 THEN {L[c[Len(c)]]}
                       ELSE IF c[Len(c)] \in Self THEN {c[Len(c)]} ELSE {}
    BY <2>1, LinksAreParents
  <2> QED BY <2>2 DEF EndsOpen
<1>3. ASSUME NEW k \in 0..Len(c)
      PROVE  Upward(P, rest(k)) /\ rest(k) \in SUBSET DOMAIN table
  <2>1. SUFFICES ASSUME NEW j \in (k + 1)..Len(c) PROVE P[c[j]] \subseteq rest(k)
    BY <1>1 DEF Upward
  <2>2. CASE j = Len(c)
    BY <1>2, <2>2
  <2>3. CASE j # Len(c)
    <3>1. j \in 1..(Len(c) - 1) /\ j + 1 \in (k + 1)..Len(c)
      BY <1>1, <2>3
    <3>2. P[c[j]] = {c[j + 1]}
      BY <3>1 DEF IsClimb
    <3> QED BY <3>1, <3>2
  <2> QED BY <2>2, <2>3
<1>4. ASSUME NEW k \in 1..Len(c), c[k] \notin Self PROVE Cycle(table, c[k]) = {}
  <2>1. P[c[k]] \subseteq rest(k)
    <3>1. CASE k = Len(c)
      BY <1>2, <1>4, <3>1
    <3>2. CASE k # Len(c)
      <4>1. k \in 1..(Len(c) - 1) /\ k + 1 \in (k + 1)..Len(c)
        BY <1>1, <3>2
      <4> QED BY <4>1 DEF IsClimb
    <3> QED BY <3>1, <3>2
  <2>2. c[k] \notin rest(k)
    BY <1>1 DEF IsClimb
  <2>3. Upward(P, rest(k)) /\ rest(k) \in SUBSET DOMAIN table /\ c[k] \in DOMAIN table
    BY <1>1, <1>3
  <2> HIDE DEF rest
  <2>4. Above(table)[c[k]] \subseteq rest(k)
    BY <2>1, <2>3, AboveUpward
  <2> QED BY <2>2, <2>3, <2>4, OnCycle
<1>5. done \cup chain = rest(0)
  <2>1. (0 + 1)..Len(c) = 1..Len(c)
    OBVIOUS
  <2> QED BY <2>1
<1>6. Upward(P, done \cup chain)
  <2>1. 0 \in 0..Len(c)
    BY <1>1
  <2> HIDE DEF rest, chain
  <2> QED BY <1>3, <1>5, <2>1
<1>7. Cuts(table, done \cup chain) = Cuts(table, done)
  BY <1>4 DEF Cuts
<1> QED BY <1>6, <1>7 DEF CutsNoMore, OnChain

\* The walk closes a cycle: the chain from the process it runs into.
ClosesAt(table, c, from) == ParentLinks(table)[c[Len(c)]] = c[from]
CutsLowest(table, done, c, loop) ==
  /\ loop # {} /\ loop \in SUBSET DOMAIN table
  /\ Upward(ParentsIn(table), done \cup OnChain(c))
  /\ Cuts(table, done \cup OnChain(c)) = Cuts(table, done) \cup {Lowest(table, loop)}

LEMMA OneCycleOnClosedChain ==
  ASSUME NEW table, IsTable(table), NEW done \in SUBSET DOMAIN table,
         Upward(ParentsIn(table), done), NEW c, IsClimb(table, done, c),
         NEW f \in 1..Len(c), ClosesAt(table, c, f)
  PROVE  CutsLowest(table, done, c, OnLoop(c, f))
<1> DEFINE P == ParentsIn(table)
           chain == {c[k] : k \in 1..Len(c)}
           cycle == {c[k] : k \in f..Len(c)}
           Self == SelfParents(table)
           rest(k) == {c[j] : j \in k..Len(c)}
<1>1. Len(c) \in Nat /\ Len(c) >= 1 /\ (\A k \in 1..Len(c) : c[k] \in DOMAIN table)
      /\ \A i, j \in 1..Len(c) : c[i] = c[j] => i = j
  BY DEF IsClimb
<1>2. P[c[Len(c)]] = {c[f]}
  <2>1. c[Len(c)] \in DOMAIN table /\ c[f] \in DOMAIN table
    BY <1>1
  <2>2. c[f] # 0
    BY <2>1, Entries
  <2> QED BY <2>1, <2>2, LinksAreParents DEF ClosesAt
<1>3. ASSUME NEW k \in 1..f
      PROVE  Upward(P, rest(k)) /\ rest(k) \in SUBSET DOMAIN table
  <2>0. rest(k) \in SUBSET DOMAIN table
    <3>1. \A j \in k..Len(c) : j \in 1..Len(c)
      BY <1>1
    <3> QED BY <1>1, <3>1
  <2>1. SUFFICES ASSUME NEW j \in k..Len(c) PROVE P[c[j]] \subseteq rest(k)
    <3>1. ASSUME \A j \in k..Len(c) : P[c[j]] \subseteq rest(k) PROVE Upward(P, rest(k))
      BY <3>1 DEF Upward
    <3> QED BY <2>0, <3>1
  <2>2. CASE j = Len(c)
    BY <1>2, <2>2
  <2>3. CASE j # Len(c)
    <3>1. j \in 1..(Len(c) - 1) /\ j + 1 \in k..Len(c)
      BY <1>1, <2>3
    <3>2. P[c[j]] = {c[j + 1]}
      BY <3>1 DEF IsClimb
    <3> QED BY <3>1, <3>2
  <2> QED BY <2>2, <2>3
<1>4. ASSUME NEW k \in 1..Len(c), k < f PROVE Cycle(table, c[k]) = {}
  <2>1. k \in 1..(Len(c) - 1) /\ k + 1 \in 1..f /\ k + 1 \in (k + 1)..Len(c)
    BY <1>1, <1>4
  <2>2. P[c[k]] \subseteq rest(k + 1)
    <3>1. P[c[k]] = {c[k + 1]}
      BY <2>1 DEF IsClimb
    <3> QED BY <2>1, <3>1
  <2>3. c[k] \notin rest(k + 1)
    BY <1>1
  <2>4. Upward(P, rest(k + 1)) /\ rest(k + 1) \in SUBSET DOMAIN table /\ c[k] \in DOMAIN table
    BY <1>1, <1>3, <2>1
  <2> HIDE DEF rest
  <2>5. Above(table)[c[k]] \subseteq rest(k + 1)
    BY <2>2, <2>4, AboveUpward
  <2> QED BY <2>3, <2>4, <2>5, OnCycle
<1>5. cycle = rest(f) /\ cycle \in SUBSET DOMAIN table /\ Upward(P, cycle)
  <2>1. cycle = rest(f) /\ f \in 1..f
    OBVIOUS
  <2> HIDE DEF cycle, rest, P
  <2> QED BY <1>3, <2>1
<1>6. ASSUME NEW k \in f..Len(c) PROVE Above(table)[c[k]] = cycle
  <2> DEFINE A == Above(table)[c[k]]
  <2>1. c[k] \in DOMAIN table /\ k \in 1..Len(c)
    BY <1>1
  <2>2. P[c[k]] \subseteq cycle
    <3>1. CASE k = Len(c)
      BY <1>2, <3>1
    <3>2. CASE k # Len(c)
      <4>1. k \in 1..(Len(c) - 1) /\ k + 1 \in f..Len(c)
        BY <1>1, <3>2
      <4> QED BY <4>1 DEF IsClimb
    <3> QED BY <3>1, <3>2
  <2>3. A \subseteq cycle
    <3> QED BY <1>5, <2>1, <2>2, AboveUpward
  <2>4. Upward(P, A) /\ P[c[k]] \subseteq A
    BY <2>1, AboveUpward
  <2> HIDE DEF A
  <2>5. \A j \in 1..(Len(c) - 1) : c[j + 1] \in P[c[j]]
    BY DEF IsClimb
  <2>6. c[f] \in A
    <3>1. CASE k = Len(c)
      BY <1>2, <2>4, <3>1
    <3>2. CASE k # Len(c)
      <4>1. k \in 1..(Len(c) - 1) /\ k + 1 \in 1..Len(c) /\ Len(c) \in (k + 1)..Len(c)
        BY <1>1, <3>2
      <4>2. c[k + 1] \in A
        BY <2>4, <2>5, <4>1
      <4>3. c[Len(c)] \in A
        BY <1>1, <2>4, <2>5, <4>1, <4>2, RestOfChain
      <4> QED BY <1>2, <2>4, <4>3 DEF Upward
    <3> QED BY <3>1, <3>2
  <2>7. \A j \in f..Len(c) : c[j] \in A
    BY <1>1, <2>4, <2>5, <2>6, RestOfChain
  <2> QED BY <2>3, <2>7 DEF A
<1>7. ASSUME NEW k \in f..Len(c) PROVE Cycle(table, c[k]) = cycle
  <2>1. Above(table)[c[k]] = cycle /\ c[k] \in cycle
    BY <1>6, <1>7
  <2>2. \A x \in cycle : Above(table)[x] = cycle
    BY <1>6
  <2> QED BY <2>1, <2>2 DEF Cycle
<1>8. cycle # {}
  <2>1. c[f] \in cycle
    OBVIOUS
  <2> QED BY <2>1
<1>9. Lowest(table, cycle) \in cycle
  <2> QED BY <1>5, <1>8, LowestExists DEF IsLowest
<1>10. \A i \in chain : Cycle(table, i) # {} /\ i = Lowest(table, Cycle(table, i))
                          <=> i = Lowest(table, cycle)
  <2>1. SUFFICES ASSUME NEW k \in 1..Len(c)
                 PROVE  Cycle(table, c[k]) # {} /\ c[k] = Lowest(table, Cycle(table, c[k]))
                          <=> c[k] = Lowest(table, cycle)
    OBVIOUS
  <2>2. CASE k < f
    <3>1. c[k] \notin cycle
      BY <1>1, <2>2
    <3> QED BY <1>4, <1>9, <2>2, <3>1
  <2>3. CASE k >= f
    <3>1. k \in f..Len(c)
      BY <1>1, <2>3
    <3>2. Cycle(table, c[k]) = cycle
      BY <1>7, <3>1
    <3> QED BY <1>8, <3>2
  <2> QED BY <1>1, <2>2, <2>3
<1>11. Lowest(table, cycle) \in chain /\ chain \in SUBSET DOMAIN table
  <2>1. \A j \in f..Len(c) : j \in 1..Len(c)
    BY <1>1
  <2>2. cycle \subseteq chain
    BY <2>1
  <2>3. chain \in SUBSET DOMAIN table
    BY <1>1
  <2> QED BY <1>9, <2>2, <2>3
<1>12. Cuts(table, done \cup chain) = Cuts(table, done) \cup {Lowest(table, cycle)}
  <2> QED BY <1>10, <1>11 DEF Cuts
<1>13. Upward(P, done \cup chain)
  <2>1. chain = rest(1) /\ 1 \in 1..f
    BY <1>1
  <2>2. Upward(P, chain)
    BY <1>3, <2>1
  <2> QED BY <2>2 DEF Upward
<1> QED BY <1>5, <1>8, <1>12, <1>13 DEF CutsLowest, OnChain, OnLoop

LEMMA CycleWalkKeeps ==
  ASSUME NEW table, IsTable(table), NEW state, IsWalked(table, state),
         NEW start \in DOMAIN table
  PROVE  /\ IsWalked(table, CycleWalk(table, state, start))
         /\ state.done \cup {start} \subseteq CycleWalk(table, state, start).done
<1> DEFINE T == DOMAIN table
           L == ParentLinks(table)
           States == [links : [T -> T \cup {0}], cut : SUBSET T, done : SUBSET T]
           walked == CycleWalk(table, state, start)
<1>1. CASE start \in state.done
  <2>1. walked = state
    BY <1>1 DEF CycleWalk
  <2> QED BY <1>1, <2>1
<1>2. CASE start \notin state.done
  <2> DEFINE c == Climb(state.links, state.done, start)
             chain == OnChain(c)
             above == L[c[Len(c)]]
             from == CHOOSE k \in DOMAIN c : c[k] = above
             cut == Victim(table, SubSeq(c, from, Len(c)))
  <2>1. /\ IsClimb(table, state.done, c) /\ c[1] = start
        /\ state.links[c[Len(c)]] = above
        /\ above \in {0} \cup state.done \cup chain
    <3>1. start \in DOMAIN table \ state.done
      BY <1>2
    <3>2. IsWalkedUp(table, state, start, c)
      BY <3>1, WalkClimbs, Zenon
    <3> QED BY <3>2 DEF IsWalkedUp
  <2> HIDE DEF c
  <2>2. c \in Seq(T) /\ Len(c) \in Nat /\ Len(c) >= 1 /\ DOMAIN c = 1..Len(c)
    BY <2>1 DEF IsClimb
  <2>3. Range(c) = chain /\ Last(c) = c[Len(c)]
    BY <2>2 DEF Range, Last, OnChain
  <2>4. state \in States /\ Upward(ParentsIn(table), state.done) /\ state.done \in SUBSET T
    BY DEF IsWalked
  <2>5. chain \in SUBSET T /\ start \in chain
    <3>1. \A k \in 1..Len(c) : c[k] \in T
      BY <2>2
    <3>2. 1 \in 1..Len(c)
      BY <2>2
    <3> QED BY <2>1, <3>1, <3>2 DEF OnChain
  <2>6. CASE above \notin chain
    <3>1. walked = [state EXCEPT !.done = state.done \cup chain]
      BY <1>2, <2>1, <2>3, <2>6 DEF CycleWalk, c
    <3>2. above \in {0} \cup state.done
      BY <2>1, <2>6
    <3> HIDE DEF chain, walked
    <3>3. /\ walked \in States
          /\ walked.links = state.links /\ walked.cut = state.cut
          /\ walked.done = state.done \cup chain
      BY <2>4, <2>5, <3>1
    <3>4. /\ Upward(ParentsIn(table), state.done \cup chain)
          /\ Cuts(table, state.done \cup chain) = Cuts(table, state.done)
      <4>1. EndsOpen(table, state.done, c)
        BY <3>2 DEF EndsOpen
      <4>2. CutsNoMore(table, state.done, c)
        BY <2>1, <2>4, <4>1, NoCycleOnOpenChain, Zenon
      <4> QED BY <4>2 DEF CutsNoMore, chain
    <3>5. IsWalked(table, walked)
      BY <3>3, <3>4 DEF IsWalked
    <3> QED BY <2>5, <3>3, <3>5 DEF walked
  <2>7. CASE above \in chain
    <3> DEFINE cycle == OnLoop(c, from)
    <3>1. walked = [done |-> state.done \cup chain, cut |-> state.cut \cup {cut},
                    links |-> [state.links EXCEPT ![cut] = 0]]
      BY <1>2, <2>1, <2>3, <2>7 DEF CycleWalk, c
    <3>2. from \in 1..Len(c) /\ c[from] = above
      BY <2>2, <2>7 DEF OnChain
    <3> HIDE DEF chain, walked, from
    <3>3. Range(SubSeq(c, from, Len(c))) = cycle
      <4> DEFINE d == SubSeq(c, from, Len(c))
      <4>1. /\ Len(d) = Len(c) - from + 1 /\ DOMAIN d = 1..Len(d)
            /\ \A k \in 1..Len(d) : d[k] = c[from + k - 1]
        BY <2>2, <3>2
      <4> HIDE DEF d
      <4>2. \A k \in from..Len(c) : k - from + 1 \in 1..Len(d) /\ d[k - from + 1] = c[k]
        <5>1. SUFFICES ASSUME NEW k \in from..Len(c)
                       PROVE  k - from + 1 \in 1..Len(d) /\ d[k - from + 1] = c[k]
          OBVIOUS
        <5>2. k - from + 1 \in 1..Len(d) /\ from + (k - from + 1) - 1 = k
          BY <2>2, <3>2, <4>1
        <5> QED BY <4>1, <5>2
      <4>3. \A k \in 1..Len(d) : from + k - 1 \in from..Len(c)
        BY <2>2, <3>2, <4>1
      <4>4. Range(d) = {d[k] : k \in 1..Len(d)}
        BY <4>1 DEF Range
      <4>5. \A k \in 1..Len(d) : d[k] \in cycle
        BY <4>1, <4>3 DEF OnLoop
      <4>6. \A k \in from..Len(c) : c[k] \in {d[j] : j \in 1..Len(d)}
        BY <4>2
      <4>7. Range(d) = cycle
        BY <4>4, <4>5, <4>6 DEF OnLoop
      <4> QED BY <4>7 DEF d
    <3>4. /\ cycle # {} /\ cycle \in SUBSET T
          /\ Upward(ParentsIn(table), state.done \cup chain)
          /\ Cuts(table, state.done \cup chain)
               = Cuts(table, state.done) \cup {Lowest(table, cycle)}
      <4>1. ClosesAt(table, c, from)
        BY <3>2 DEF ClosesAt
      <4>2. CutsLowest(table, state.done, c, cycle)
        BY <2>1, <2>4, <3>2, <4>1, OneCycleOnClosedChain, Zenon
      <4> QED BY <4>2 DEF CutsLowest, chain
    <3> HIDE DEF cycle
    <3>5. cut = Lowest(table, cycle) /\ cut \in T
      BY <3>3, <3>4, LowestExists DEF Victim, IsLowest
    <3> HIDE DEF cut
    <3>6. /\ walked \in States
          /\ walked.links = [state.links EXCEPT ![cut] = 0]
          /\ walked.cut = state.cut \cup {cut}
          /\ walked.done = state.done \cup chain
      BY <2>4, <2>5, <3>1, <3>5
    <3>7. walked.links = [i \in T |-> IF i \in walked.cut THEN 0 ELSE L[i]]
      <4>1. state.links = [i \in T |-> IF i \in state.cut THEN 0 ELSE L[i]]
        BY DEF IsWalked
      <4> HIDE DEF L
      <4> QED BY <3>5, <3>6, <4>1
    <3>8. walked.cut = Cuts(table, walked.done)
      BY <3>4, <3>5, <3>6 DEF IsWalked
    <3>9. IsWalked(table, walked)
      BY <3>4, <3>6, <3>7, <3>8 DEF IsWalked
    <3> QED BY <2>5, <3>6, <3>9 DEF walked
  <2> QED BY <2>6, <2>7
<1> QED BY <1>1, <1>2

LEMMA BrokenCutsCycles ==
  ASSUME NEW table, IsTable(table)
  PROVE  /\ IsWalked(table, Broken(table))
         /\ Broken(table).done = DOMAIN table
<1> DEFINE T == DOMAIN table
           N == Len(table)
           first == [links |-> ParentLinks(table), cut |-> SelfParents(table), done |-> {}]
           Kept(n, s) == IsWalked(table, s) /\ \A i \in T : i <= n => i \in s.done
           States == [links : [T -> T \cup {0}], cut : SUBSET T, done : SUBSET T]
           place == [n \in Nat |-> {s \in States : Kept(n, s)}]
           Step(n, s) == IF n + 1 \in T THEN CycleWalk(table, s, n + 1) ELSE s
           round == [ns \in Nat \X States |-> Step(ns[1], ns[2])]
           Solves(f) == f = [n \in 0..N |-> IF n = 0 THEN first
                                            ELSE CycleWalk(table, f[n - 1], n)]
           walked == CHOOSE f : Solves(f)
<1>1. N \in Nat /\ T = 1..N
  BY Entries
<1>2. Broken(table) = walked[N]
  BY DEF Broken
<1>3. first \in place[0]
  <2>1. first \in States
    BY LinksAreParents
  <2>2. Upward(ParentsIn(table), {})
    BY DEF Upward
  <2>3. SelfParents(table) = Cuts(table, {})
    BY SelfParentsAreCut DEF Cuts
  <2>4. ParentLinks(table) = [i \in T |-> IF i \in SelfParents(table) THEN 0
                                               ELSE ParentLinks(table)[i]]
    BY LinksAreParents, SelfParentsAreCut
  <2>5. IsWalked(table, first)
    BY <2>1, <2>2, <2>3, <2>4 DEF IsWalked
  <2>6. \A i \in T : ~(i <= 0)
    BY <1>1
  <2> QED BY <2>1, <2>5, <2>6
<1>4. \A n \in Nat : \A s \in place[n] : round[<<n, s>>] \in place[n + 1]
  <2>1. SUFFICES ASSUME NEW n \in Nat, NEW s \in place[n]
                 PROVE  Step(n, s) \in States /\ Kept(n + 1, Step(n, s))
    <3>1. \A n \in Nat : \A s \in place[n] : s \in States
      OBVIOUS
    <3> HIDE DEF Step, Kept, States
    <3> QED BY <2>1, <3>1
  <2>2. s \in States /\ Kept(n, s)
    OBVIOUS
  <2>3. CASE n + 1 \in T
    <3> DEFINE t == CycleWalk(table, s, n + 1)
    <3>1. IsWalked(table, t) /\ s.done \cup {n + 1} \subseteq t.done
      BY <2>2, <2>3, CycleWalkKeeps, Zenon
    <3> HIDE DEF t
    <3>2. t \in States
      BY <3>1 DEF IsWalked
    <3>3. \A i \in T : i <= n + 1 => i \in t.done
      <4>1. SUFFICES ASSUME NEW i \in T, i <= n + 1 PROVE i \in t.done
        OBVIOUS
      <4>2. i <= n \/ i = n + 1
        BY <1>1, <4>1
      <4> QED BY <2>2, <3>1, <4>2
    <3> QED BY <2>3, <3>1, <3>2, <3>3 DEF t
  <2>4. CASE n + 1 \notin T
    <3>1. \A i \in T : i <= n + 1 => i <= n
      BY <1>1, <2>4
    <3> QED BY <2>2, <2>4, <3>1
  <2> QED BY <2>3, <2>4
<1>5. PICK f : IsLoop(f, first, round) /\ \A n \in Nat : f[n] \in place[n]
  <2> HIDE DEF place, round, first
  <2> QED BY <1>3, <1>4, Loop, Zenon
<1>6. ASSUME NEW n \in Nat PROVE f[n + 1] = Step(n, f[n])
  <2>1. f[n] \in States
    BY <1>5
  <2>2. round[<<n, f[n]>>] = Step(n, f[n])
    <3> HIDE DEF Step, States
    <3> QED BY <2>1
  <2>3. n + 1 \in Nat /\ n + 1 # 0 /\ (n + 1) - 1 = n
    OBVIOUS
  <2>4. f[n + 1] = round[<<(n + 1) - 1, f[(n + 1) - 1]>>]
    <3> HIDE DEF round
    <3> QED BY <1>5, <2>3 DEF IsLoop
  <2> QED BY <2>2, <2>3, <2>4
<1>7. f[0] = first
  <2> HIDE DEF round, first
  <2> QED BY <1>5 DEF IsLoop
<1> DEFINE g == [n \in 0..N |-> f[n]]
<1>8. Solves(g)
  <2>1. ASSUME NEW n \in 0..N, n # 0 PROVE g[n] = CycleWalk(table, g[n - 1], n)
    <3>1. n - 1 \in Nat /\ (n - 1) + 1 = n /\ n \in T /\ n - 1 \in 0..N
      BY <1>1, <2>1
    <3>2. f[(n - 1) + 1] = Step(n - 1, f[n - 1])
      BY <1>6, <3>1
    <3> QED BY <3>1, <3>2
  <2>2. 0 \in 0..N /\ g[0] = first
    BY <1>1, <1>7
  <2> HIDE DEF first
  <2> QED BY <2>1, <2>2
<1>9. Solves(walked)
  BY <1>8
<1> HIDE DEF walked
<1>10. walked[N] = f[N]
  <2> DEFINE h == [n \in Nat |-> IF n <= N THEN walked[n] ELSE f[n]]
  <2>1. h[0] = f[0]
    BY <1>1, <1>7, <1>9
  <2>2. ASSUME NEW n \in Nat, h[n] = f[n] PROVE h[n + 1] = f[n + 1]
    <3>1. CASE n + 1 <= N
      <4>1. n + 1 \in 0..N /\ n + 1 # 0 /\ (n + 1) - 1 = n /\ n + 1 \in T /\ n <= N
        BY <1>1, <3>1
      <4>2. walked[n + 1] = CycleWalk(table, walked[(n + 1) - 1], n + 1)
        BY <1>9, <4>1
      <4>3. walked[n] = f[n]
        BY <2>2, <4>1
      <4>4. f[n + 1] = CycleWalk(table, f[n], n + 1)
        BY <1>6, <4>1
      <4> QED BY <3>1, <4>1, <4>2, <4>3, <4>4
    <3>2. CASE ~(n + 1 <= N)
      BY <3>2
    <3> QED BY <3>1, <3>2
  <2>3. \A n \in Nat : h[n] = f[n]
    <3> HIDE DEF h
    <3> QED BY <2>1, <2>2, SameLoop
  <2> QED BY <1>1, <2>3
<1>11. f[N] \in States /\ Kept(N, f[N])
  <2>1. f[N] \in place[N]
    BY <1>1, <1>5
  <2>2. \A n \in Nat : \A s \in place[n] : s \in States /\ Kept(n, s)
    OBVIOUS
  <2> HIDE DEF N, Kept, States, place
  <2> QED BY <1>1, <2>1, <2>2
<1>12. f[N].done = T
  <2>1. f[N].done \subseteq T
    BY <1>11
  <2>2. \A i \in T : i <= N
    BY <1>1
  <2>3. \A i \in T : i \in f[N].done
    BY <1>11, <2>2
  <2> QED BY <2>1, <2>3
<1> QED BY <1>2, <1>10, <1>11, <1>12

LEMMA EveryCycleLosesOne ==
  ASSUME IsTable(processes), rows.cut = Broken(processes).cut
  PROVE  OneCutPerCycle
<1>1. rows.cut = Cuts(processes, DOMAIN processes)
  BY BrokenCutsCycles DEF IsWalked
<1>2. ReportedParents = ParentsIn(processes)
  BY DEF ReportedParents, ParentsIn, All, Id
<1>3. \A i : CycleOf(i) = Cycle(processes, i)
  BY <1>2 DEF CycleOf, Cycle, Above
<1>4. \A i \in DOMAIN processes : i \in DOMAIN processes \cup SelfParents(processes)
  OBVIOUS
<1> QED BY <1>1, <1>3, <1>4 DEF OneCutPerCycle, Cuts, All

-----------------------------------------------------------------------------
(* Order *)

Before(table, down, i, j) == Precedes(table[i].identity, table[j].identity, down)

LEMMA PrecedesIsAnOrder ==
  ASSUME NEW table, IsTable(table), NEW down, NEW i \in DOMAIN table, NEW j \in DOMAIN table
  PROVE  /\ i = j \/ Before(table, down, i, j) \/ Before(table, down, j, i)
         /\ ~(Before(table, down, i, j) /\ Before(table, down, j, i))
         /\ \A k \in DOMAIN table : Before(table, down, i, j) /\ Before(table, down, j, k)
                                      => Before(table, down, i, k)
<1> DEFINE Id2(x) == table[x].identity
           M(x) == Metric[Id2(x)]
<1>1. \A x \in DOMAIN table : /\ Id2(x) \in Identities
                              /\ Id2(x).pid \in Nat /\ Id2(x).start \in Nat
  BY Entries
<1>2. \A x \in DOMAIN table : M(x) = NoMetric \/ (M(x).value \in Int /\ M(x).age \in Int)
  <2>1. \A u \in [value : Int, age : Int] : u.value \in Int /\ u.age \in Int
    OBVIOUS
  <2> QED BY <1>1, <2>1, ProcessTreeAssumption
<1>3. \A x, y \in DOMAIN table : M(x) # NoMetric /\ M(y) # NoMetric /\ M(x).value = M(y).value
                                   /\ M(x).age = M(y).age => M(x) = M(y)
  <2>1. \A u, v \in [value : Int, age : Int] : u.value = v.value /\ u.age = v.age => u = v
    OBVIOUS
  <2> QED BY <1>1, <2>1, ProcessTreeAssumption
<1>4. \A x, y \in DOMAIN table : x = y \/ Lower(Id2(x), Id2(y)) \/ Lower(Id2(y), Id2(x))
  BY LowerIsTotal
<1>5. \A x, y \in DOMAIN table : ~(Lower(Id2(x), Id2(y)) /\ Lower(Id2(y), Id2(x)))
  BY LowerIsTotal
<1>6. \A x, y, z \in DOMAIN table : Lower(Id2(x), Id2(y)) /\ Lower(Id2(y), Id2(z)) => Lower(Id2(x), Id2(z))
  <2> HIDE DEF Id2
  <2> QED BY <1>1 DEF Lower
<1> DEFINE B(x, y) == \/ M(x) # NoMetric /\ M(y) = NoMetric
                      \/ M(x) = M(y) /\ Lower(Id2(x), Id2(y))
                      \/ /\ M(x) # NoMetric /\ M(y) # NoMetric
                         /\ \/ IF down THEN M(x).value > M(y).value ELSE M(x).value < M(y).value
                            \/ M(x).value = M(y).value /\ M(x).age < M(y).age
<1>7. \A x, y : Before(table, down, x, y) <=> B(x, y)
  BY DEF Before, Precedes
<1> HIDE DEF M, Id2
<1>8. i = j \/ B(i, j) \/ B(j, i)
  BY <1>2, <1>3, <1>4
<1>9. ~(B(i, j) /\ B(j, i))
  BY <1>2, <1>5
<1>10. ASSUME NEW k \in DOMAIN table, B(i, j), B(j, k) PROVE B(i, k)
  BY <1>10, <1>2, <1>6
<1> HIDE DEF B
<1> QED BY <1>7, <1>8, <1>9, <1>10

\* A process of S is before all others.
IsFirst(table, S, down, i) == i \in S /\ \A j \in S : i = j \/ Before(table, down, i, j)

LEMMA FirstExists ==
  ASSUME NEW table, IsTable(table), NEW S \in SUBSET DOMAIN table, S # {}, NEW down
  PROVE  IsFirst(table, S, down, First(table, S, down))
<1> DEFINE lower(i) == {j \in S : Before(table, down, j, i)}
           Counts == {Cardinality(lower(i)) : i \in S}
<1>1. IsFiniteSet(DOMAIN table) /\ IsFiniteSet(S)
  <2>1. DOMAIN table = 1..Len(table) /\ Len(table) \in Nat
    BY Entries
  <2>2. IsFiniteSet(DOMAIN table)
    BY <2>1, FS_Interval
  <2> QED BY <2>2, FS_Subset
<1>2. \A i \in S : IsFiniteSet(lower(i)) /\ Cardinality(lower(i)) \in Nat
  <2>1. SUFFICES ASSUME NEW i \in S
                 PROVE  IsFiniteSet(lower(i)) /\ Cardinality(lower(i)) \in Nat
    OBVIOUS
  <2>2. lower(i) \in SUBSET S
    OBVIOUS
  <2> HIDE DEF lower
  <2>3. IsFiniteSet(lower(i))
    BY <1>1, <2>2, FS_Subset
  <2> QED BY <2>3, FS_CardinalityType
<1>3. PICK i \in S : \A j \in S : Cardinality(lower(i)) <= Cardinality(lower(j))
  <2> HIDE DEF lower
  <2>1. Counts \subseteq Nat /\ Counts # {}
    BY <1>2
  <2>2. PICK n \in Counts : \A m \in Counts : n <= m
    <3> HIDE DEF Counts
    <3> QED BY <2>1, NatMinimum
  <2> QED BY <2>2
<1>4. ASSUME NEW j \in S, i # j PROVE Before(table, down, i, j)
  <2>1. SUFFICES ASSUME Before(table, down, j, i) PROVE FALSE
    BY <1>4, PrecedesIsAnOrder
  <2>2. \A k \in S : Before(table, down, k, j) => Before(table, down, k, i)
    BY <2>1, PrecedesIsAnOrder
  <2>3. ~Before(table, down, j, j)
    BY PrecedesIsAnOrder
  <2>4. lower(j) \subseteq lower(i) /\ j \in lower(i) /\ j \notin lower(j)
    BY <2>1, <2>2, <2>3
  <2> HIDE DEF lower
  <2>5. Cardinality(lower(j)) < Cardinality(lower(i))
    <3>1. lower(j) \in SUBSET lower(i) /\ lower(j) # lower(i)
      BY <2>4
    <3> QED BY <1>2, <3>1, FS_Subset
  <2> QED BY <1>2, <1>3, <2>5
<1>5. \A j \in S : i = j \/ Precedes(table[i].identity, table[j].identity, down)
  BY <1>4 DEF Before
<1> QED BY <1>5 DEF First, IsFirst, Before

\* The members of S, each once.
Lists(s, S) ==
  /\ s \in Seq(S)
  /\ \A k, m \in 1..Len(s) : s[k] = s[m] => k = m
  /\ S = {s[k] : k \in 1..Len(s)}

IsOrder(S, pick, order) ==
  order = [n \in 0..Cardinality(S) |->
             IF n = 0 THEN << >> ELSE Append(order[n - 1], pick[S \ Range(order[n - 1])])]

\* Every step picks one of those left.
InSteps(S, pick, order) ==
  \A n \in 0..Cardinality(S) - 1 :
    /\ order[n] \in Seq(S) /\ S \ Range(order[n]) # {}
    /\ order[n + 1] = Append(order[n], pick[S \ Range(order[n])])

\* What InOrder computes when what it picks is one of those left.
LEMMA OrderLists ==
  ASSUME NEW S, IsFiniteSet(S), NEW pick, \A A \in SUBSET S : A # {} => pick[A] \in A
  PROVE  /\ \E order : IsOrder(S, pick, order)
         /\ \A order : IsOrder(S, pick, order) => Lists(order[Cardinality(S)], S)
         /\ \A order : IsOrder(S, pick, order) => order[0] = << >> /\ InSteps(S, pick, order)
<1> DEFINE N == Cardinality(S)
           Once(n, s) == /\ s \in Seq(S) /\ Len(s) = n
                         /\ \A k, m \in 1..Len(s) : s[k] = s[m] => k = m
           Next1(s) == Append(s, pick[S \ Range(s)])
           place == [n \in Nat |-> {s \in Seq(S) : Once(n, s)}]
           round == [ns \in Nat \X Seq(S) |-> Next1(ns[2])]
           Solves(f) == f = [n \in 0..N |-> IF n = 0 THEN << >> ELSE Next1(f[n - 1])]
<1>1. N \in Nat
  BY FS_CardinalityType
<1>2. \A f : IsOrder(S, pick, f) <=> Solves(f)
  BY DEF IsOrder
<1> HIDE DEF N
<1>3. << >> \in place[0]
  OBVIOUS
<1>4. ASSUME NEW n \in 0..(N - 1), NEW s \in place[n]
      PROVE  S \ Range(s) # {} /\ s \in Seq(S) /\ Next1(s) \in place[n + 1]
  <2>1. s \in Seq(S) /\ Len(s) = n /\ n \in Nat
        /\ \A k, m \in 1..Len(s) : s[k] = s[m] => k = m
    BY <1>1
  <2>2. Range(s) = {s[k] : k \in 1..n}
    BY <2>1 DEF Range
  <2>3. S \ Range(s) # {}
    <3>1. SUFFICES ASSUME S = {s[k] : k \in 1..n} PROVE FALSE
      BY <2>1, <2>2
    <3>2. s \in [1..n -> S]
      BY <2>1
    <3>3. s \in Surjection(1..n, S)
      BY <3>1, <3>2 DEF Surjection
    <3>4. Cardinality(S) <= Cardinality(1..n)
      BY <3>3, FS_Surjection, FS_Interval
    <3>5. Cardinality(1..n) = n
      BY <2>1, FS_Interval
    <3> QED BY <1>1, <2>1, <3>4, <3>5 DEF N
  <2> DEFINE x == pick[S \ Range(s)]
  <2>4. x \in S \ Range(s)
    BY <2>3
  <2> HIDE DEF x
  <2>5. /\ Append(s, x) \in Seq(S) /\ Len(Append(s, x)) = n + 1
        /\ Append(s, x)[n + 1] = x /\ \A k \in 1..n : Append(s, x)[k] = s[k]
    BY <2>1, <2>4
  <2>6. \A k \in 1..n : s[k] # x
    BY <2>2, <2>4
  <2> DEFINE t == Append(s, x)
  <2> HIDE DEF t
  <2>7. \A k, m \in 1..Len(t) : t[k] = t[m] => k = m
    <3>1. SUFFICES ASSUME NEW k \in 1..(n + 1), NEW m \in 1..(n + 1), t[k] = t[m] PROVE k = m
      BY <2>5 DEF t
    <3>2. (k \in 1..n \/ k = n + 1) /\ (m \in 1..n \/ m = n + 1)
      BY <2>1
    <3> QED BY <2>1, <2>5, <2>6, <3>1, <3>2 DEF t
  <2>8. t \in place[n + 1]
    <3>1. t \in Seq(S) /\ Len(t) = n + 1 /\ n + 1 \in Nat
      BY <2>1, <2>5 DEF t
    <3> QED BY <2>7, <3>1
  <2> QED BY <2>1, <2>3, <2>8 DEF t, x
<1>5. PICK f : Solves(f)
  <2>1. \A n \in 0..(N - 1) : \A s \in place[n] : round[<<n, s>>] = Next1(s)
    <3>1. SUFFICES ASSUME NEW n \in 0..(N - 1), NEW s \in place[n] PROVE round[<<n, s>>] = Next1(s)
      OBVIOUS
    <3>2. s \in Seq(S) /\ n \in Nat
      BY <1>1
    <3> HIDE DEF Next1, place
    <3> QED BY <3>2
  <2> HIDE DEF round, Next1, place
  <2>2. \A n \in 0..(N - 1) : \A s \in place[n] : round[<<n, s>>] \in place[n + 1]
    BY <1>4, <2>1
  <2> DEFINE none == << >>
  <2>3. none \in place[0]
    BY <1>3
  <2> HIDE DEF none
  <2>4. PICK f : IsRounds(f, N, none, round) /\ \A n \in 0..N : f[n] \in place[n]
    BY <1>1, <2>2, <2>3, Rounds, Zenon
  <2>5. ASSUME NEW n \in 0..N, n # 0 PROVE round[<<n - 1, f[n - 1]>>] = Next1(f[n - 1])
    <3>1. n - 1 \in 0..(N - 1) /\ n - 1 \in 0..N
      BY <1>1, <2>5
    <3> QED BY <2>1, <2>4, <3>1
  <2>6. f = [n \in 0..N |-> IF n = 0 THEN << >> ELSE Next1(f[n - 1])]
    BY <2>4, <2>5 DEF none, IsRounds
  <2> QED BY <2>6
<1>6. SUFFICES ASSUME NEW order, Solves(order)
               PROVE  Lists(order[N], S) /\ order[0] = << >> /\ InSteps(S, pick, order)
  BY <1>2, <1>5 DEF N
<1>7. \A n \in 0..N : order[n] \in place[n]
  <2>1. order[0] \in place[0]
    BY <1>1, <1>3, <1>6
  <2>2. ASSUME NEW n \in 0..(N - 1), order[n] \in place[n] PROVE order[n + 1] \in place[n + 1]
    <3>1. n + 1 \in 0..N /\ n + 1 # 0 /\ (n + 1) - 1 = n
      BY <1>1
    <3>2. order[n + 1] = Next1(order[n])
      <4> HIDE DEF Next1, place
      <4> QED BY <1>6, <3>1
    <3> HIDE DEF Next1, place
    <3> QED BY <1>4, <2>2, <3>2
  <2> HIDE DEF place
  <2> QED BY <1>1, <2>1, <2>2, Stays
<1>8. Once(N, order[N])
  <2>1. N \in 0..N
    BY <1>1
  <2> QED BY <1>7, <2>1
<1> DEFINE s == order[N]
<1>9. s \in Injection(1..N, S)
  <2>1. s \in [1..N -> S]
    BY <1>1, <1>8
  <2>2. \A k, m \in 1..N : s[k] = s[m] => k = m
    BY <1>8
  <2> HIDE DEF s
  <2> QED BY <2>1, <2>2 DEF Injection, IsInjective
<1>10. s \in Surjection(1..N, S)
  <2>1. Cardinality(1..N) = Cardinality(S)
    BY <1>1, FS_Interval DEF N
  <2> HIDE DEF s
  <2> QED BY <1>1, <1>9, <2>1, FS_Injection
<1>11. S = {s[k] : k \in 1..N}
  <2>1. \A i \in S : \E k \in 1..N : s[k] = i
    <3> HIDE DEF s
    <3> QED BY <1>10 DEF Surjection
  <2>2. \A k \in 1..N : s[k] \in S
    <3> HIDE DEF s
    <3> QED BY <1>10 DEF Surjection
  <2> HIDE DEF s
  <2> QED BY <2>1, <2>2
<1>12. Lists(s, S)
  BY <1>8, <1>11 DEF Lists
<1>13. order[0] = << >>
  BY <1>1, <1>6
<1>14. ASSUME NEW n \in 0..(N - 1)
       PROVE  /\ order[n] \in Seq(S) /\ S \ Range(order[n]) # {}
              /\ order[n + 1] = Append(order[n], pick[S \ Range(order[n])])
  <2>1. n \in 0..N /\ n + 1 \in 0..N /\ n + 1 # 0 /\ (n + 1) - 1 = n
    BY <1>1
  <2>2. order[n] \in place[n]
    BY <1>7, <2>1
  <2>3. order[n + 1] = Next1(order[n])
    <3> HIDE DEF Next1, place
    <3> QED BY <1>6, <2>1
  <2>4. S \ Range(order[n]) # {} /\ order[n] \in Seq(S)
    <3> HIDE DEF Next1, place
    <3> QED BY <1>4, <2>2
  <2> QED BY <2>3, <2>4
<1> QED BY <1>12, <1>13, <1>14 DEF InSteps, N

LEMMA TableIsFinite ==
  ASSUME NEW table, IsTable(table), NEW S \in SUBSET DOMAIN table
  PROVE  IsFiniteSet(S) /\ Cardinality(S) \in Nat
<1>1. DOMAIN table = 1..Len(table) /\ Len(table) \in Nat
  BY Entries
<1>2. IsFiniteSet(DOMAIN table)
  BY <1>1, FS_Interval
<1>3. IsFiniteSet(S)
  BY <1>2, FS_Subset
<1> QED BY <1>3, FS_CardinalityType

LEMMA SortedLists ==
  ASSUME NEW table, IsTable(table), NEW S \in SUBSET DOMAIN table, NEW down
  PROVE  \E order : /\ IsOrder(S, [A \in SUBSET S |-> First(table, A, down)], order)
                    /\ Sorted(table, S, down) = order[Cardinality(S)]
                    /\ Lists(Sorted(table, S, down), S)
<1> DEFINE pick == [A \in SUBSET S |-> First(table, A, down)]
           Next1(s) == Append(s, First(table, S \ Range(s), down))
           Solves(f) == f = [n \in 0..Cardinality(S) |-> IF n = 0 THEN << >> ELSE Next1(f[n - 1])]
           order == CHOOSE f : Solves(f)
<1>1. \A A \in SUBSET S : A # {} => pick[A] \in A
  BY FirstExists DEF IsFirst
<1>2. \A f : IsOrder(S, pick, f) <=> Solves(f)
  <2>1. \A s : pick[S \ Range(s)] = First(table, S \ Range(s), down)
    OBVIOUS
  <2> HIDE DEF pick
  <2> QED BY <2>1 DEF IsOrder
<1>3. Sorted(table, S, down) = order[Cardinality(S)]
  BY DEF Sorted, InOrder
<1> HIDE DEF pick, Solves
<1>4. /\ \E f : IsOrder(S, pick, f)
      /\ \A f : IsOrder(S, pick, f) => Lists(f[Cardinality(S)], S)
  BY <1>1, OrderLists, TableIsFinite
<1>5. Solves(order)
  BY <1>2, <1>4
<1> HIDE DEF order
<1>6. IsOrder(S, pick, order) /\ Lists(order[Cardinality(S)], S)
  BY <1>2, <1>4, <1>5
<1> QED BY <1>3, <1>6 DEF pick

\* The processes in the order of their identities.
LEMMA LowestLists ==
  ASSUME NEW table, IsTable(table), NEW S \in SUBSET DOMAIN table
  PROVE  Lists(InOrder(S, LAMBDA left : Lowest(table, left)), S)
<1> DEFINE pick == [A \in SUBSET S |-> Lowest(table, A)]
           Next1(s) == Append(s, Lowest(table, S \ Range(s)))
           Solves(f) == f = [n \in 0..Cardinality(S) |-> IF n = 0 THEN << >> ELSE Next1(f[n - 1])]
           order == CHOOSE f : Solves(f)
<1>1. \A A \in SUBSET S : A # {} => pick[A] \in A
  BY LowestExists DEF IsLowest
<1>2. \A f : IsOrder(S, pick, f) <=> Solves(f)
  <2>1. \A s : pick[S \ Range(s)] = Lowest(table, S \ Range(s))
    OBVIOUS
  <2> HIDE DEF pick
  <2> QED BY <2>1 DEF IsOrder
<1>3. InOrder(S, LAMBDA left : Lowest(table, left)) = order[Cardinality(S)]
  BY DEF InOrder
<1> HIDE DEF pick, Solves
<1>4. /\ \E f : IsOrder(S, pick, f)
      /\ \A f : IsOrder(S, pick, f) => Lists(f[Cardinality(S)], S)
  BY <1>1, OrderLists, TableIsFinite
<1>5. Solves(order)
  BY <1>2, <1>4
<1> HIDE DEF order
<1> QED BY <1>2, <1>3, <1>4, <1>5

-----------------------------------------------------------------------------
(* The links that are left *)

Uncut(table) ==
  [i \in DOMAIN table |-> IF i \in Broken(table).cut THEN {} ELSE ParentsIn(table)[i]]
Up(table) == Ancestors(Uncut(table))

LEMMA UncutLinks ==
  ASSUME NEW table, IsTable(table)
  PROVE  /\ Broken(table).links \in [DOMAIN table -> DOMAIN table \cup {0}]
         /\ Uncut(table) \in [DOMAIN table -> SUBSET DOMAIN table]
         /\ \A i \in DOMAIN table :
              /\ Uncut(table)[i] = IF Broken(table).links[i] = 0 THEN {}
                                   ELSE {Broken(table).links[i]}
              /\ Uncut(table)[i] \subseteq ParentsIn(table)[i]
              /\ i \notin Broken(table).cut => Uncut(table)[i] = ParentsIn(table)[i]
<1> DEFINE T == DOMAIN table
           L == ParentLinks(table)
           links == Broken(table).links
           cut == Broken(table).cut
<1>1. /\ links \in [T -> T \cup {0}]
      /\ cut = Cuts(table, Broken(table).done)
      /\ links = [i \in T |-> IF i \in cut THEN 0 ELSE L[i]]
  BY BrokenCutsCycles DEF IsWalked
<1>2. 0 \notin T
  BY Entries
<1>3. ParentsIn(table) \in [T -> SUBSET T]
  BY LinksAreParents
<1>4. Uncut(table) \in [T -> SUBSET T]
  BY <1>3 DEF Uncut
<1>5. ASSUME NEW i \in T
      PROVE  /\ Uncut(table)[i] = IF links[i] = 0 THEN {} ELSE {links[i]}
             /\ Uncut(table)[i] \subseteq ParentsIn(table)[i]
             /\ i \notin cut => Uncut(table)[i] = ParentsIn(table)[i]
  <2>1. Uncut(table)[i] = IF i \in cut THEN {} ELSE ParentsIn(table)[i]
    BY DEF Uncut
  <2>2. links[i] = IF i \in cut THEN 0 ELSE L[i]
    BY <1>1
  <2>3. ParentsIn(table)[i] = IF L[i] # 0 THEN {L[i]}
                              ELSE IF i \in SelfParents(table) THEN {i} ELSE {}
    BY LinksAreParents
  <2>4. i \in SelfParents(table) => i \in cut
    BY <1>1, SelfParentsAreCut
  <2> HIDE DEF links, cut, L
  <2> QED BY <2>1, <2>2, <2>3, <2>4
<1> QED BY <1>1, <1>4, <1>5

LEMMA UpIsLeast ==
  ASSUME NEW table, IsTable(table), NEW i \in DOMAIN table
  PROVE  /\ Up(table)[i] \in SUBSET DOMAIN table
         /\ Uncut(table)[i] \subseteq Up(table)[i]
         /\ Upward(Uncut(table), Up(table)[i])
         /\ \A S \in SUBSET DOMAIN table :
              Uncut(table)[i] \subseteq S /\ Upward(Uncut(table), S) => Up(table)[i] \subseteq S
         /\ \A j \in Up(table)[i] : Up(table)[j] \subseteq Up(table)[i]
<1>1. Uncut(table) \in [DOMAIN table -> SUBSET DOMAIN table]
  BY UncutLinks
<1>2. /\ Up(table)[i] \subseteq DOMAIN table
      /\ Uncut(table)[i] \subseteq Up(table)[i]
      /\ Upward(Uncut(table), Up(table)[i])
  BY <1>1, AncestorsAreUpward, Zenon DEF Up
<1>3. ASSUME NEW S \in SUBSET DOMAIN table, Uncut(table)[i] \subseteq S, Upward(Uncut(table), S)
      PROVE  Up(table)[i] \subseteq S
  BY <1>1, <1>3, AncestorsAreLeast, Zenon DEF Up
<1>4. ASSUME NEW j \in Up(table)[i] PROVE Up(table)[j] \subseteq Up(table)[i]
  BY <1>1, <1>4, AncestorsOfAncestors, Zenon DEF Up
<1> QED BY <1>2, <1>3, <1>4

\* What is above a process is its parent and what is above that.
LEMMA UpOneLink ==
  ASSUME NEW table, IsTable(table), NEW i \in DOMAIN table
  PROVE  LET a == Broken(table).links[i]
         IN /\ a = 0 => Up(table)[i] = {}
            /\ a # 0 => a \in DOMAIN table /\ Up(table)[i] = {a} \cup Up(table)[a]
<1> DEFINE a == Broken(table).links[i]
<1>1. Uncut(table) \in [DOMAIN table -> SUBSET DOMAIN table]
  BY UncutLinks
<1>2. (a = 0 => Uncut(table)[i] = {}) /\ (a # 0 => Uncut(table)[i] = {a})
  BY UncutLinks
<1> DEFINE parents == Uncut(table)
           T == DOMAIN table
<1> HIDE DEF a, parents, T
<1>3. a = 0 => Ancestors(parents)[i] = {}
  BY <1>1, <1>2, AncestorsOneUp, Zenon DEF parents
<1>4. a # 0 => a \in T /\ Ancestors(parents)[i] = {a} \cup Ancestors(parents)[a]
  <2>1. parents \in [T -> SUBSET T] /\ i \in T /\ (a # 0 => parents[i] = {a})
    BY <1>1, <1>2 DEF parents, T
  <2>2. \A b : parents[i] = {b} => b \in T /\ Ancestors(parents)[i] = {b} \cup Ancestors(parents)[b]
    BY <2>1, AncestorsOneUp, Zenon
  <2> QED BY <2>1, <2>2
<1> QED BY <1>3, <1>4 DEF Up, a, parents, T

\* No process is above itself any more.
LEMMA NoCycleIsLeft ==
  ASSUME NEW table, IsTable(table), NEW i \in DOMAIN table
  PROVE  i \notin Up(table)[i]
<1> DEFINE T == DOMAIN table
           C == Up(table)[i]
           P == ParentsIn(table)
           cut == Broken(table).cut
<1>1. SUFFICES ASSUME i \in C PROVE FALSE
  OBVIOUS
<1>2. C \in SUBSET T /\ Upward(Uncut(table), C)
  BY UpIsLeast
<1> HIDE DEF C
<1>3. \A j \in C : i \in Up(table)[j]
  <2> DEFINE S == {j \in C : i \in Up(table)[j]}
  <2>1. \A j \in S : Uncut(table)[j] \subseteq S
    <3>1. SUFFICES ASSUME NEW j \in S, NEW b \in Uncut(table)[j] PROVE b \in S
      OBVIOUS
    <3>2. j \in T /\ b \in C /\ i \in Up(table)[j]
      BY <1>2 DEF Upward
    <3> DEFINE a == Broken(table).links[j]
    <3>3. b = a /\ b # 0
      <4>1. Uncut(table)[j] = IF a = 0 THEN {} ELSE {a}
        BY <3>2, UncutLinks
      <4> HIDE DEF a
      <4> QED BY <4>1
    <3>4. Up(table)[j] = {b} \cup Up(table)[b]
      BY <3>2, <3>3, UpOneLink
    <3>5. i \in Up(table)[b]
      BY <1>1, <3>2, <3>4 DEF C
    <3> QED BY <3>2, <3>5
  <2>2. i \in S
    BY <1>1 DEF C
  <2>3. S \in SUBSET T /\ Upward(Uncut(table), S) /\ Uncut(table)[i] \subseteq S
    BY <1>2, <2>1, <2>2 DEF Upward
  <2> HIDE DEF S
  <2>4. C \subseteq S
    BY <2>3, UpIsLeast DEF C
  <2> QED BY <2>4 DEF S
<1>4. \A j \in C : j \notin cut
  <2>1. SUFFICES ASSUME NEW j \in C, j \in cut PROVE FALSE
    OBVIOUS
  <2>2. Uncut(table)[j] = {} /\ j \in T
    BY <1>2, <2>1 DEF Uncut
  <2>3. Broken(table).links[j] = 0
    BY <2>2, UncutLinks
  <2>4. Up(table)[j] = {}
    BY <2>2, <2>3, UpOneLink
  <2> QED BY <1>3, <2>4
<1>5. Upward(P, C) /\ P[i] \subseteq C
  BY <1>1, <1>2, <1>4, UncutLinks DEF Upward
<1>6. Above(table)[i] \subseteq C
  BY <1>2, <1>5, AboveUpward
<1>7. C \subseteq Above(table)[i]
  <2>1. Above(table)[i] \in SUBSET T /\ Upward(P, Above(table)[i]) /\ P[i] \subseteq Above(table)[i]
    BY AboveUpward
  <2>2. Upward(Uncut(table), Above(table)[i]) /\ Uncut(table)[i] \subseteq Above(table)[i]
    BY <2>1, UncutLinks DEF Upward
  <2> QED BY <2>1, <2>2, UpIsLeast DEF C
<1> DEFINE K == Cycle(table, i)
           low == Lowest(table, K)
<1>8. i \in K /\ K \in SUBSET T /\ K \subseteq Above(table)[i]
  BY <1>1, <1>2, <1>6, <1>7 DEF Cycle
<1>9. low \in K
  <2> HIDE DEF K
  <2>1. K # {}
    BY <1>8
  <2> QED BY <1>8, <2>1, LowestExists DEF IsLowest
<1>10. Above(table)[low] = Above(table)[i] /\ low \in T
  <2>1. low \in Above(table)[i] /\ i \in Above(table)[low] /\ low \in T
    BY <1>8, <1>9 DEF Cycle
  <2> HIDE DEF low
  <2>2. ASSUME NEW a \in T, NEW b \in T, a \in Above(table)[b]
        PROVE  Above(table)[a] \subseteq Above(table)[b]
    <3>1. /\ Above(table)[b] \in SUBSET T
          /\ Upward(ParentsIn(table), Above(table)[b])
      BY AboveUpward
    <3>2. ParentsIn(table)[a] \subseteq Above(table)[b]
      BY <2>2, <3>1 DEF Upward
    <3> QED BY <3>1, <3>2, AboveUpward
  <2> QED BY <2>1, <2>2
<1>11. Cycle(table, low) = K
  <2>1. \A j \in Above(table)[i] : low \in Above(table)[j] <=> i \in Above(table)[j]
    <3>1. SUFFICES ASSUME NEW j \in Above(table)[i]
                   PROVE  low \in Above(table)[j] <=> i \in Above(table)[j]
      OBVIOUS
    <3>2. j \in T
      BY AboveUpward
    <3>3. low \in Above(table)[i] /\ i \in Above(table)[low]
      BY <1>8, <1>9 DEF Cycle
    <3> HIDE DEF low
    <3> QED BY <3>2, <3>3, AboveUpward
  <2> HIDE DEF low
  <2> QED BY <1>10, <2>1 DEF Cycle
<1>12. low \in cut
  <2>1. cut = Cuts(table, T)
    BY BrokenCutsCycles DEF IsWalked
  <2>2. Cycle(table, low) # {} /\ low = Lowest(table, Cycle(table, low))
    BY <1>9, <1>11
  <2> HIDE DEF low, cut
  <2> QED BY <1>10, <2>1, <2>2 DEF Cuts
<1> QED BY <1>4, <1>6, <1>8, <1>9, <1>12

-----------------------------------------------------------------------------
(* Every process finds its nearest survivor *)

\* n is the nearest of the processes above i that are in R, 0 if there are none.
IsNearest(table, R, i, n) ==
  LET survivors == Up(table)[i] \cap R
  IN IF survivors = {} THEN n = 0
     ELSE n \in survivors /\ survivors \subseteq {n} \cup Up(table)[n]

LEMMA InheritsNearest ==
  ASSUME NEW table, IsTable(table), NEW R \in SUBSET DOMAIN table, NEW i \in DOMAIN table,
         NEW nearest, NEW a, a = Broken(table).links[i],
         a # 0 /\ a \notin R => IsNearest(table, R, a, nearest[a])
  PROVE  IsNearest(table, R, i, Inherited(a, nearest, R))
<1>1. CASE a = 0
  <2>1. Up(table)[i] = {} /\ Inherited(a, nearest, R) = 0
    BY <1>1, UpOneLink DEF Inherited
  <2> QED BY <2>1 DEF IsNearest
<1>2. CASE a # 0
  <2>1. Up(table)[i] = {a} \cup Up(table)[a]
    BY <1>2, UpOneLink
  <2>2. CASE a \in R
    BY <2>1, <2>2 DEF IsNearest, Inherited
  <2>3. CASE a \notin R
    <3>1. Inherited(a, nearest, R) = nearest[a]
      BY <1>2, <2>3 DEF Inherited
    <3>2. Up(table)[i] \cap R = Up(table)[a] \cap R
      BY <2>1, <2>3
    <3>3. IsNearest(table, R, a, nearest[a])
      BY <1>2, <2>3
    <3> QED BY <3>1, <3>2, <3>3 DEF IsNearest
  <2> QED BY <2>2, <2>3
<1> QED BY <1>1, <1>2

\* What the walks of nearest_retained keep.
IsResolved(table, R, state) ==
  /\ state \in [nearest : [DOMAIN table -> DOMAIN table \cup {0}],
                resolved : SUBSET DOMAIN table, accumulated : DOMAIN table \cup {0}]
  /\ \A i \in state.resolved : IsNearest(table, R, i, state.nearest[i])

LEMMA NearestIsKnown ==
  ASSUME NEW table, IsTable(table), NEW R, NEW i \in DOMAIN table, NEW n,
         IsNearest(table, R, i, n)
  PROVE  n \in DOMAIN table \cup {0}
BY UpIsLeast DEF IsNearest

\* The chain on the links that are left, up to a process without one or to one that is
\* resolved.
IsClimbUp(table, done, start, c) ==
  /\ c \in Seq(DOMAIN table) /\ Len(c) >= 1 /\ c[1] = start
  /\ \A k \in 1..(Len(c) - 1) : Broken(table).links[c[k]] = c[k + 1]
  /\ Broken(table).links[c[Len(c)]] \in {0} \cup done

LEMMA NearestWalkClimbs ==
  ASSUME NEW table, IsTable(table), NEW done \in SUBSET DOMAIN table,
         NEW start \in DOMAIN table \ done
  PROVE  IsClimbUp(table, done, start, Climb(Broken(table).links, done, start))
<1> DEFINE T == DOMAIN table
           N == Len(table)
           links == Broken(table).links
           c == Climb(links, done, start)
           last == c[Len(c)]
<1>1. N \in Nat /\ T = 1..N /\ T \cup {0} = 0..N /\ 0 \notin T
  BY Entries
<1>2. links \in [1..N -> 0..N] /\ done \in SUBSET (1..N) /\ start \in (1..N) \ done
  BY <1>1, UncutLinks
<1>3. c \in Seq(1..N) /\ IsChain(links, done, start, c) /\ IsComplete(links, done, c)
  <2> HIDE DEF N, links
  <2> QED BY <1>1, <1>2, ClimbIsComplete, Zenon
<1> HIDE DEF c
<1>4. Len(c) \in Nat /\ Len(c) >= 1 /\ c[1] = start /\ \A k \in 1..Len(c) : c[k] \in T
  BY <1>1, <1>3 DEF IsChain
<1> HIDE DEF links
<1>5. \A k \in 1..(Len(c) - 1) : links[c[k]] = c[k + 1]
  BY <1>3 DEF IsChain
<1>6. ASSUME NEW k \in 1..Len(c), links[last] = c[k] PROVE FALSE
  <2>1. last \in T /\ c[k] \in T /\ c[k] # 0
    BY <1>1, <1>4
  <2>2. c[k] \in Uncut(table)[last]
    <3>1. Uncut(table)[last] = IF links[last] = 0 THEN {} ELSE {links[last]}
      BY <2>1, UncutLinks DEF links
    <3> QED BY <1>6, <2>1, <3>1
  <2>3. c[k] \in Up(table)[last] /\ Upward(Uncut(table), Up(table)[last])
    BY <2>1, <2>2, UpIsLeast
  <2>4. \A m \in 1..(Len(c) - 1) : c[m + 1] \in Uncut(table)[c[m]]
    <3>1. SUFFICES ASSUME NEW m \in 1..(Len(c) - 1) PROVE c[m + 1] \in Uncut(table)[c[m]]
      OBVIOUS
    <3>2. m \in 1..Len(c) /\ m + 1 \in 1..Len(c)
      BY <1>4
    <3>3. c[m] \in T /\ c[m + 1] \in T /\ links[c[m]] = c[m + 1] /\ c[m + 1] # 0
      BY <1>1, <1>4, <1>5, <3>2
    <3>4. Uncut(table)[c[m]] = IF links[c[m]] = 0 THEN {} ELSE {links[c[m]]}
      BY <3>3, UncutLinks DEF links
    <3> QED BY <3>3, <3>4
  <2>5. \A m \in k..Len(c) : c[m] \in Up(table)[last]
    <3> DEFINE P == Uncut(table)
               A == Up(table)[last]
    <3> HIDE DEF P, A
    <3> QED BY <1>4, <2>3, <2>4, RestOfChain DEF P, A
  <2>6. last \in Up(table)[last]
    BY <1>4, <2>5
  <2> QED BY <2>1, <2>6, NoCycleIsLeft
<1>7. links[last] \in {0} \cup done
  BY <1>3, <1>6 DEF IsComplete
<1>8. c \in Seq(T)
  BY <1>1, <1>3
<1> QED BY <1>4, <1>5, <1>7, <1>8 DEF IsClimbUp, links, c

\* The states on the way down a chain: what of it is resolved, and what the next takes over.
IsWayDown(table, R, c, done, n, s) ==
  /\ IsResolved(table, R, s)
  /\ s.resolved = done \cup {c[k] : k \in (Len(c) + 1 - n)..Len(c)}
  /\ n < Len(c) => IsNearest(table, R, c[Len(c) - n], s.accumulated)

LEMMA FirstOnWayDown ==
  ASSUME NEW table, IsTable(table), NEW R \in SUBSET DOMAIN table,
         NEW state, IsResolved(table, R, state), NEW start, NEW c,
         IsClimbUp(table, state.resolved, start, c)
  PROVE  IsWayDown(table, R, c, state.resolved, 0,
                   [state EXCEPT !.accumulated
                      = Inherited(Broken(table).links[c[Len(c)]], state.nearest, R)])
<1> DEFINE T == DOMAIN table
           last == c[Len(c)]
           a == Broken(table).links[last]
           n == Inherited(a, state.nearest, R)
           s == [state EXCEPT !.accumulated = n]
<1>1. Len(c) \in Nat /\ Len(c) >= 1 /\ last \in T
  BY DEF IsClimbUp
<1>2. a \in {0} \cup state.resolved
  BY DEF IsClimbUp
<1>3. IsNearest(table, R, last, n)
  <2>1. a # 0 => IsNearest(table, R, a, state.nearest[a])
    BY <1>2 DEF IsResolved
  <2> QED BY <1>1, <2>1, InheritsNearest
<1>4. n \in T \cup {0}
  BY <1>1, <1>3, NearestIsKnown
<1> HIDE DEF n, last
<1>5. /\ s \in [nearest : [T -> T \cup {0}], resolved : SUBSET T, accumulated : T \cup {0}]
      /\ s.nearest = state.nearest /\ s.resolved = state.resolved /\ s.accumulated = n
  BY <1>4 DEF IsResolved
<1> HIDE DEF s
<1>6. IsResolved(table, R, s)
  BY <1>5 DEF IsResolved
<1>7. {c[k] : k \in (Len(c) + 1 - 0)..Len(c)} = {}
  BY <1>1
<1>8. Len(c) - 0 = Len(c)
  BY <1>1
<1>9. s.resolved = state.resolved \cup {c[k] : k \in (Len(c) + 1 - 0)..Len(c)}
  BY <1>5, <1>7
<1>10. IsNearest(table, R, c[Len(c) - 0], s.accumulated)
  BY <1>3, <1>5, <1>8 DEF last
<1>11. IsWayDown(table, R, c, state.resolved, 0, s)
  BY <1>6, <1>9, <1>10 DEF IsWayDown
<1> QED BY <1>11 DEF s, n, last

LEMMA NextOnWayDown ==
  ASSUME NEW table, IsTable(table), NEW R \in SUBSET DOMAIN table, NEW done, NEW start,
         NEW c, IsClimbUp(table, done, start, c),
         NEW n \in 0..(Len(c) - 1), NEW s, IsWayDown(table, R, c, done, n, s)
  PROVE  IsWayDown(table, R, c, done, n + 1, Resolve(R, s, c[Len(c) - n]))
<1> DEFINE T == DOMAIN table
           node == c[Len(c) - n]
           acc == IF node \in R THEN node ELSE s.accumulated
           t == Resolve(R, s, node)
<1>1. /\ Len(c) \in Nat /\ n \in Nat /\ n < Len(c) /\ Len(c) - n \in 1..Len(c)
      /\ Len(c) + 1 - (n + 1) = Len(c) - n /\ Len(c) + 1 - n = (Len(c) - n) + 1
  <2>1. Len(c) \in Nat
    BY LenProperties DEF IsClimbUp
  <2>2. \A m \in Nat : \A k \in 0..(m - 1) :
          /\ k \in Nat /\ k < m /\ m - k \in 1..m
          /\ m + 1 - (k + 1) = m - k /\ m + 1 - k = (m - k) + 1
    OBVIOUS
  <2> QED BY <2>1, <2>2
<1>2. node \in T
  BY <1>1 DEF IsClimbUp
<1>3. IsNearest(table, R, node, s.accumulated)
  BY <1>1 DEF IsWayDown
<1>4. /\ s \in [nearest : [T -> T \cup {0}], resolved : SUBSET T, accumulated : T \cup {0}]
      /\ \A i \in s.resolved : IsNearest(table, R, i, s.nearest[i])
      /\ s.resolved = done \cup {c[k] : k \in (Len(c) + 1 - n)..Len(c)}
  BY DEF IsWayDown, IsResolved
<1> HIDE DEF node
<1>5. /\ t \in [nearest : [T -> T \cup {0}], resolved : SUBSET T, accumulated : T \cup {0}]
      /\ t.nearest = [s.nearest EXCEPT ![node] = s.accumulated]
      /\ t.resolved = s.resolved \cup {node} /\ t.accumulated = acc
  BY <1>2, <1>4 DEF Resolve
<1> HIDE DEF t
<1>6. \A i \in t.resolved : IsNearest(table, R, i, t.nearest[i])
  BY <1>2, <1>3, <1>4, <1>5
<1>7. IsResolved(table, R, t)
  BY <1>5, <1>6 DEF IsResolved
<1>8. t.resolved = done \cup {c[k] : k \in (Len(c) + 1 - (n + 1))..Len(c)}
  <2>1. \A k : k \in (Len(c) + 1 - (n + 1))..Len(c)
                 <=> k = Len(c) - n \/ k \in (Len(c) + 1 - n)..Len(c)
    BY <1>1
  <2>2. {c[k] : k \in (Len(c) + 1 - (n + 1))..Len(c)}
          = {c[k] : k \in (Len(c) + 1 - n)..Len(c)} \cup {node}
    BY <2>1 DEF node
  <2> QED BY <1>4, <1>5, <2>2
<1>9. ASSUME n + 1 < Len(c) PROVE IsNearest(table, R, c[Len(c) - (n + 1)], t.accumulated)
  <2> DEFINE i == c[Len(c) - (n + 1)]
  <2>1. Len(c) - (n + 1) \in 1..(Len(c) - 1) /\ (Len(c) - (n + 1)) + 1 = Len(c) - n
        /\ Len(c) - (n + 1) \in 1..Len(c)
    BY <1>1, <1>9
  <2>2. Broken(table).links[i] = node
    BY <2>1 DEF IsClimbUp, node
  <2>3. i \in T
    BY <2>1 DEF IsClimbUp
  <2> HIDE DEF i
  <2>4. t.nearest[node] = s.accumulated /\ node # 0
    BY <1>2, <1>4, <1>5, Entries
  <2>5. t.accumulated = Inherited(node, t.nearest, R)
    BY <1>5, <2>4 DEF Inherited
  <2>6. IsNearest(table, R, node, t.nearest[node])
    BY <1>3, <2>4
  <2>7. IsNearest(table, R, i, Inherited(node, t.nearest, R))
    BY <2>2, <2>3, <2>6, InheritsNearest
  <2> QED BY <2>5, <2>7 DEF i
<1> QED BY <1>7, <1>8, <1>9 DEF IsWayDown, t, node

LEMMA NearestWalkKeeps ==
  ASSUME NEW table, IsTable(table), NEW R \in SUBSET DOMAIN table,
         NEW state, IsResolved(table, R, state), NEW start \in DOMAIN table
  PROVE  LET walked == NearestWalk(Broken(table).links, R, state, start)
         IN IsResolved(table, R, walked) /\ state.resolved \cup {start} \subseteq walked.resolved
<1> DEFINE T == DOMAIN table
           links == Broken(table).links
           walked == NearestWalk(links, R, state, start)
           States == [nearest : [T -> T \cup {0}], resolved : SUBSET T, accumulated : T \cup {0}]
<1>1. CASE start \in state.resolved
  <2>1. walked = state
    BY <1>1 DEF NearestWalk
  <2> QED BY <1>1, <2>1
<1>2. CASE start \notin state.resolved
  <2> DEFINE c == Climb(links, state.resolved, start)
             N == Len(c)
             above == Inherited(links[Last(c)], state.nearest, R)
             first == [state EXCEPT !.accumulated = above]
             place == [n \in Nat |-> {s \in States : IsWayDown(table, R, c, state.resolved, n, s)}]
             round == [ns \in Nat \X States |-> Resolve(R, ns[2], c[N - ns[1]])]
             Solves(f) == f = [n \in 0..N |-> IF n = 0 THEN first
                                              ELSE Resolve(R, f[n - 1], c[N + 1 - n])]
             down == CHOOSE f : Solves(f)
  <2>1. walked = down[N]
    BY <1>2 DEF NearestWalk
  <2>2. IsClimbUp(table, state.resolved, start, c)
    <3>1. state.resolved \in SUBSET T
      BY DEF IsResolved
    <3>2. start \in T \ state.resolved
      BY <1>2
    <3> HIDE DEF T
    <3> QED BY <3>1, <3>2, NearestWalkClimbs DEF T
  <2> HIDE DEF c
  <2>3. c \in Seq(T) /\ N \in Nat /\ N >= 1 /\ Last(c) = c[N] /\ c[1] = start
    BY <2>2 DEF IsClimbUp, Last
  <2>4. \A n \in Nat : \A s : IsWayDown(table, R, c, state.resolved, n, s) <=> s \in place[n]
    BY DEF IsWayDown, IsResolved
  <2>5. first \in place[0]
    <3>1. IsWayDown(table, R, c, state.resolved, 0, first)
      BY <2>2, <2>3, FirstOnWayDown
    <3> HIDE DEF first, place
    <3> QED BY <2>4, <3>1
  <2>6. \A n \in 0..(N - 1) : \A s \in place[n] : Resolve(R, s, c[N - n]) \in place[n + 1]
    <3>1. SUFFICES ASSUME NEW n \in 0..(N - 1), NEW s \in place[n]
                   PROVE  Resolve(R, s, c[N - n]) \in place[n + 1]
      OBVIOUS
    <3>2. n \in Nat /\ n + 1 \in Nat
      OBVIOUS
    <3> HIDE DEF place
    <3>3. IsWayDown(table, R, c, state.resolved, n, s)
      BY <2>4, <3>2
    <3>4. IsWayDown(table, R, c, state.resolved, n + 1, Resolve(R, s, c[N - n]))
      BY <2>2, <3>3, NextOnWayDown
    <3> QED BY <2>4, <3>2, <3>4
  <2>7. \A n \in 0..(N - 1) : \A s \in place[n] : round[<<n, s>>] = Resolve(R, s, c[N - n])
    <3>1. SUFFICES ASSUME NEW n \in 0..(N - 1), NEW s \in place[n]
                   PROVE  round[<<n, s>>] = Resolve(R, s, c[N - n])
      OBVIOUS
    <3>2. n \in Nat
      OBVIOUS
    <3>3. s \in States
      BY <3>2
    <3> HIDE DEF States, place
    <3> QED BY <3>2, <3>3
  <2> HIDE DEF round, place, first
  <2>8. PICK f : IsRounds(f, N, first, round) /\ \A n \in 0..N : f[n] \in place[n]
    <3>1. \A n \in 0..(N - 1) : \A s \in place[n] : round[<<n, s>>] \in place[n + 1]
      BY <2>6, <2>7
    <3> HIDE DEF N
    <3> QED BY <2>3, <2>5, <3>1, Rounds, Zenon
  <2>9. Solves(f)
    <3>1. ASSUME NEW n \in 0..N, n # 0
          PROVE  round[<<n - 1, f[n - 1]>>] = Resolve(R, f[n - 1], c[N + 1 - n])
      <4>1. n - 1 \in 0..(N - 1) /\ n - 1 \in 0..N /\ N - (n - 1) = N + 1 - n
        BY <2>3, <3>1
      <4>2. round[<<n - 1, f[n - 1]>>] = Resolve(R, f[n - 1], c[N - (n - 1)])
        BY <2>7, <2>8, <4>1
      <4> QED BY <4>1, <4>2
    <3> QED BY <2>8, <3>1 DEF IsRounds
  <2>10. Solves(down)
    BY <2>9
  <2> HIDE DEF down
  <2>11. \A n \in 0..N : down[n] \in place[n]
    <3>1. down[0] \in place[0]
      BY <2>3, <2>5, <2>10
    <3>2. ASSUME NEW n \in 0..(N - 1), down[n] \in place[n] PROVE down[n + 1] \in place[n + 1]
      <4>1. n + 1 \in 0..N /\ n + 1 # 0 /\ (n + 1) - 1 = n /\ N + 1 - (n + 1) = N - n
        BY <2>3
      <4>2. down[n + 1] = Resolve(R, down[(n + 1) - 1], c[N + 1 - (n + 1)])
        BY <2>10, <4>1
      <4> QED BY <2>6, <3>2, <4>1, <4>2
    <3> HIDE DEF N
    <3> QED BY <2>3, <3>1, <3>2, Stays
  <2>12. IsWayDown(table, R, c, state.resolved, N, walked)
    <3>1. N \in 0..N
      BY <2>3
    <3> QED BY <2>1, <2>3, <2>4, <2>11, <3>1
  <2>13. IsResolved(table, R, walked) /\ state.resolved \cup {start} \subseteq walked.resolved
    <3>1. 1 \in (N + 1 - N)..N
      BY <2>3
    <3> HIDE DEF walked
    <3> QED BY <2>3, <2>12, <3>1 DEF IsWayDown
  <2> QED BY <2>13
<1> QED BY <1>1, <1>2

LEMMA NearestIsNearest ==
  ASSUME NEW table, IsTable(table), NEW R \in SUBSET DOMAIN table
  PROVE  /\ Nearest(table, Broken(table).links, R) \in [DOMAIN table -> DOMAIN table \cup {0}]
         /\ \A i \in DOMAIN table :
              IsNearest(table, R, i, Nearest(table, Broken(table).links, R)[i])
<1> DEFINE T == DOMAIN table
           N == Len(table)
           links == Broken(table).links
           first == [nearest |-> [i \in DOMAIN links |-> 0], resolved |-> {}, accumulated |-> 0]
           States == [nearest : [T -> T \cup {0}], resolved : SUBSET T, accumulated : T \cup {0}]
           Kept(n, s) == IsResolved(table, R, s) /\ 1..n \subseteq s.resolved
           place == [n \in Nat |-> {s \in States : Kept(n, s)}]
           round == [ns \in Nat \X States |-> NearestWalk(links, R, ns[2], ns[1] + 1)]
           Solves(f) == f = [n \in 0..N |-> IF n = 0 THEN first
                                            ELSE NearestWalk(links, R, f[n - 1], n)]
           walked == CHOOSE f : Solves(f)
<1>1. N \in Nat /\ T = 1..N
  BY Entries
<1>2. Nearest(table, links, R) = walked[N].nearest
  BY DEF Nearest
<1>3. \A n \in Nat : \A s : Kept(n, s) <=> s \in place[n]
  BY DEF IsResolved
<1>4. first \in place[0]
  <2>1. DOMAIN links = T
    BY UncutLinks
  <2>2. first \in States
    BY <2>1
  <2>3. IsResolved(table, R, first)
    BY <2>2 DEF IsResolved
  <2>4. Kept(0, first)
    BY <2>3
  <2> HIDE DEF first, place, Kept
  <2> QED BY <1>3, <2>4
<1>5. \A n \in 0..(N - 1) : \A s \in place[n] : NearestWalk(links, R, s, n + 1) \in place[n + 1]
  <2>1. SUFFICES ASSUME NEW n \in 0..(N - 1), NEW s \in place[n]
                 PROVE  NearestWalk(links, R, s, n + 1) \in place[n + 1]
    OBVIOUS
  <2>2. n \in Nat /\ n + 1 \in Nat /\ n + 1 \in T
    BY <1>1
  <2> DEFINE t == NearestWalk(links, R, s, n + 1)
  <2> HIDE DEF place
  <2>3. Kept(n, s)
    BY <1>3, <2>2
  <2>4. IsResolved(table, R, t) /\ s.resolved \cup {n + 1} \subseteq t.resolved
    BY <2>2, <2>3, NearestWalkKeeps
  <2> HIDE DEF t
  <2>5. Kept(n + 1, t)
    <3>1. \A i \in 1..(n + 1) : i \in 1..n \/ i = n + 1
      BY <2>2
    <3> QED BY <2>3, <2>4, <3>1
  <2> HIDE DEF Kept
  <2>6. t \in place[n + 1]
    BY <1>3, <2>2, <2>5
  <2> QED BY <2>6 DEF t
<1>6. \A n \in 0..(N - 1) : \A s \in place[n] :
        round[<<n, s>>] = NearestWalk(links, R, s, n + 1)
  <2>1. SUFFICES ASSUME NEW n \in 0..(N - 1), NEW s \in place[n]
                 PROVE  round[<<n, s>>] = NearestWalk(links, R, s, n + 1)
    OBVIOUS
  <2>2. n \in Nat
    OBVIOUS
  <2>3. s \in States
    BY <2>2
  <2> HIDE DEF States, place
  <2> QED BY <2>2, <2>3
<1> HIDE DEF round, place, first, Kept
<1>7. PICK f : IsRounds(f, N, first, round) /\ \A n \in 0..N : f[n] \in place[n]
  <2>1. \A n \in 0..(N - 1) : \A s \in place[n] : round[<<n, s>>] \in place[n + 1]
    BY <1>5, <1>6
  <2> HIDE DEF N
  <2> QED BY <1>1, <1>4, <2>1, Rounds, Zenon
<1>8. Solves(f)
  <2>1. ASSUME NEW n \in 0..N, n # 0
        PROVE  round[<<n - 1, f[n - 1]>>] = NearestWalk(links, R, f[n - 1], n)
    <3>1. n - 1 \in 0..(N - 1) /\ n - 1 \in 0..N /\ (n - 1) + 1 = n
      BY <1>1, <2>1
    <3>2. round[<<n - 1, f[n - 1]>>] = NearestWalk(links, R, f[n - 1], (n - 1) + 1)
      BY <1>6, <1>7, <3>1
    <3> QED BY <3>1, <3>2
  <2> QED BY <1>7, <2>1 DEF IsRounds
<1>9. Solves(walked)
  BY <1>8
<1> HIDE DEF walked
<1>10. \A n \in 0..N : walked[n] \in place[n]
  <2>1. walked[0] \in place[0]
    BY <1>1, <1>4, <1>9
  <2>2. ASSUME NEW n \in 0..(N - 1), walked[n] \in place[n]
        PROVE  walked[n + 1] \in place[n + 1]
    <3>1. n + 1 \in 0..N /\ n + 1 # 0 /\ (n + 1) - 1 = n
      BY <1>1
    <3>2. walked[n + 1] = NearestWalk(links, R, walked[(n + 1) - 1], n + 1)
      BY <1>9, <3>1
    <3> QED BY <1>5, <2>2, <3>1, <3>2
  <2> HIDE DEF N
  <2> QED BY <1>1, <2>1, <2>2, Stays
<1>11. Kept(N, walked[N])
  <2>1. N \in 0..N
    BY <1>1
  <2> QED BY <1>1, <1>3, <1>10, <2>1
<1>12. IsResolved(table, R, walked[N]) /\ \A i \in T : i \in walked[N].resolved
  BY <1>1, <1>11 DEF Kept
<1> QED BY <1>2, <1>12 DEF IsResolved

-----------------------------------------------------------------------------
(* Every process has a row *)

\* A function on 1..n that repeats no value counts its values.
LEMMA ValuesAreCounted ==
  ASSUME NEW n \in Nat, NEW f, NEW S, S = {f[k] : k \in 1..n},
         \A k, m \in 1..n : f[k] = f[m] => k = m
  PROVE  IsFiniteSet(S) /\ Cardinality(S) = n
<1> DEFINE g == [k \in 1..n |-> f[k]]
<1>1. g \in Injection(1..n, S) /\ g \in Surjection(1..n, S)
  BY DEF Injection, IsInjective, Surjection
<1>2. IsFiniteSet(1..n) /\ Cardinality(1..n) = n
  BY FS_Interval
<1> HIDE DEF g
<1> QED BY <1>1, <1>2, FS_Surjection

Frame(T)  == [node : T, depth : Nat, parentRow : Nat, isLast : BOOLEAN]
NodesOf(s) == {s[k].node : k \in 1..Len(s)}
OnceEach(s) == \A k, m \in 1..Len(s) : s[k].node = s[m].node => k = m

\* What build_filtered gives emit_rows: the children of every process, and those of none.
IsFamily(table, R, nearest, children) ==
  /\ nearest \in [DOMAIN table -> DOMAIN table \cup {0}] /\ R \in SUBSET DOMAIN table
  /\ DOMAIN children = DOMAIN table \cup {0}
  /\ \A p \in DOMAIN table \cup {0} : Lists(children[p], {i \in R : nearest[i] = p})

\* The frames of the children of p.
IsGroup(T, R, nearest, c, p, depth, parentRow, g) ==
  /\ g \in Seq(Frame(T)) /\ Len(g) = Len(c)
  /\ NodesOf(g) = {i \in R : nearest[i] = p} /\ OnceEach(g)
  /\ \A k \in 1..Len(g) :
       /\ g[k].node = c[k] /\ g[k].depth = depth
       /\ g[k].parentRow = parentRow /\ (g[k].isLast <=> k = Len(g))

LEMMA GroupFrames ==
  ASSUME NEW table, IsTable(table), NEW R, NEW nearest, NEW children,
         IsFamily(table, R, nearest, children), NEW p \in DOMAIN table \cup {0},
         NEW depth \in Nat, NEW parentRow \in Nat
  PROVE  IsGroup(DOMAIN table, R, nearest, children[p], p, depth, parentRow,
                 Frames(children[p], depth, parentRow))
<1> DEFINE T == DOMAIN table
           S == {i \in R : nearest[i] = p}
           c == children[p]
           n == Len(c)
           g == Frames(c, depth, parentRow)
<1>1. c \in Seq(S) /\ (\A k, m \in 1..n : c[k] = c[m] => k = m) /\ S = {c[k] : k \in 1..n}
  BY DEF IsFamily, Lists
<1>2. S \in SUBSET T
  BY DEF IsFamily
<1> HIDE DEF S, c
<1>3. n \in Nat /\ DOMAIN c = 1..n /\ \A k \in 1..n : c[k] \in T
  <2>1. n \in Nat /\ DOMAIN c = 1..n /\ \A k \in 1..n : c[k] \in S
    BY <1>1, LenProperties, ElementOfSeq
  <2> QED BY <1>2, <2>1
<1> HIDE DEF n
<1>4. g = [k \in 1..n |-> [node |-> c[k], depth |-> depth, parentRow |-> parentRow,
                           isLast |-> k = n]]
  BY <1>3 DEF Frames, n
<1> HIDE DEF g
<1>5. \A k \in 1..n : [node |-> c[k], depth |-> depth, parentRow |-> parentRow,
                       isLast |-> k = n] \in Frame(T)
  BY <1>3 DEF Frame
<1>6. g \in Seq(Frame(T)) /\ Len(g) = n
  <2>1. g \in [1..n -> Frame(T)]
    BY <1>4, <1>5
  <2> HIDE DEF T
  <2>2. g \in Seq(Frame(T)) /\ DOMAIN g = 1..n
    BY <1>3, <2>1, SeqDef
  <2>3. Len(g) \in Nat /\ 1..Len(g) = 1..n
    BY <2>2, LenProperties
  <2>4. \A k : k \in 1..Len(g) <=> k \in 1..n
    BY <2>3
  <2> QED BY <1>3, <2>2, <2>3, <2>4
<1>7. \A k \in 1..n : /\ g[k].node = c[k] /\ g[k].depth = depth
                      /\ g[k].parentRow = parentRow /\ (g[k].isLast <=> k = n)
  BY <1>4
<1>8. NodesOf(g) = S /\ OnceEach(g)
  BY <1>1, <1>6, <1>7 DEF NodesOf, OnceEach, n
<1> QED BY <1>6, <1>7, <1>8 DEF IsGroup, S, c, n, g

\* A row hangs under the row of its parent.
Hangs(emitted, nearest, frame) ==
  IF nearest[frame.node] = 0 THEN frame.parentRow = 0
  ELSE /\ frame.parentRow \in 1..Len(emitted)
       /\ emitted[frame.parentRow].node = nearest[frame.node]

\* What a round of emit_rows keeps: the processes whose parent has a row wait for theirs or
\* have one.
IsEmission(T, R, nearest, n, s) ==
  /\ s \in [stack : Seq(Frame(T)), emitted : Seq(Frame(T))]
  /\ OnceEach(s.stack) /\ OnceEach(s.emitted)
  /\ NodesOf(s.stack) \cap NodesOf(s.emitted) = {}
  /\ NodesOf(s.stack) \cup NodesOf(s.emitted)
       = {i \in R : nearest[i] \in {0} \cup NodesOf(s.emitted)}
  /\ \A k \in 1..Len(s.stack) : Hangs(s.emitted, nearest, s.stack[k])
  /\ \A k \in 1..Len(s.emitted) : Hangs(s.emitted, nearest, s.emitted[k])
  /\ s.stack = << >> \/ Len(s.emitted) = n

LEMMA FirstEmission ==
  ASSUME NEW table, IsTable(table), NEW R, NEW nearest, NEW children,
         IsFamily(table, R, nearest, children)
  PROVE  IsEmission(DOMAIN table, R, nearest, 0,
                    [stack |-> Frames(children[0], 0, 0), emitted |-> << >>])
<1> DEFINE T == DOMAIN table
           g == Frames(children[0], 0, 0)
           none == << >>
           s == [stack |-> g, emitted |-> none]
<1>1. /\ g \in Seq(Frame(T)) /\ NodesOf(g) = {i \in R : nearest[i] = 0} /\ OnceEach(g)
      /\ \A k \in 1..Len(g) : g[k].parentRow = 0
  <2>1. 0 \in DOMAIN table \cup {0} /\ 0 \in Nat
    OBVIOUS
  <2>2. IsGroup(T, R, nearest, children[0], 0, 0, 0, g)
    BY <2>1, GroupFrames
  <2> QED BY <2>2 DEF IsGroup
<1>2. \A k \in 1..Len(g) : g[k].node \in NodesOf(g)
  BY DEF NodesOf
<1> HIDE DEF g
<1>3. none \in Seq(Frame(T)) /\ Len(none) = 0 /\ NodesOf(none) = {} /\ OnceEach(none)
  BY DEF NodesOf, OnceEach
<1>4. \A k \in 1..Len(g) : Hangs(none, nearest, g[k])
  BY <1>1, <1>2 DEF Hangs
<1> HIDE DEF none
<1>5. s.stack = g /\ s.emitted = none /\ s \in [stack : Seq(Frame(T)), emitted : Seq(Frame(T))]
  BY <1>1, <1>3
<1> HIDE DEF s
<1>6. NodesOf(s.stack) \cup NodesOf(s.emitted)
        = {i \in R : nearest[i] \in {0} \cup NodesOf(s.emitted)}
  BY <1>1, <1>3, <1>5
<1>7. \A k \in 1..Len(s.emitted) : Hangs(s.emitted, nearest, s.emitted[k])
  BY <1>3, <1>5
<1>8. IsEmission(T, R, nearest, 0, s)
  BY <1>1, <1>3, <1>4, <1>5, <1>6, <1>7 DEF IsEmission
<1> QED BY <1>8 DEF s, g, none

\* The head of a stack and what is below it.
LEMMA HeadAndTail ==
  ASSUME NEW T, NEW s \in Seq(Frame(T)), s # << >>, OnceEach(s)
  PROVE  /\ Len(s) \in Nat \ {0} /\ Head(s) = s[1] /\ Head(s) \in Frame(T)
         /\ Tail(s) \in Seq(Frame(T)) /\ Len(Tail(s)) = Len(s) - 1
         /\ \A k \in 1..Len(Tail(s)) : Tail(s)[k] = s[k + 1] /\ k + 1 \in 1..Len(s)
         /\ NodesOf(s) = {Head(s).node} \cup NodesOf(Tail(s))
         /\ Head(s).node \notin NodesOf(Tail(s)) /\ OnceEach(Tail(s))
<1> DEFINE F == Frame(T)
           t == Tail(s)
           h == Head(s)
<1>1. Len(s) \in Nat \ {0} /\ h = s[1] /\ h \in F
  <2> QED BY EmptySeq, HeadTailProperties
<1>2. t \in Seq(F) /\ Len(t) = Len(s) - 1 /\ \A k \in 1..Len(t) : t[k] = s[k + 1]
  <2> QED BY HeadTailProperties
<1> HIDE DEF t, h
<1>3. \A k \in 1..Len(t) : k + 1 \in 1..Len(s) /\ k + 1 # 1
  BY <1>1, <1>2
<1>4. \A k \in 1..Len(s) : k = 1 \/ (k - 1 \in 1..Len(t) /\ (k - 1) + 1 = k)
  BY <1>1, <1>2
<1>5. NodesOf(s) = {h.node} \cup NodesOf(t)
  <2>1. 1 \in 1..Len(s)
    BY <1>1
  <2>2. \A k \in 1..Len(t) : t[k].node \in NodesOf(s)
    BY <1>2, <1>3 DEF NodesOf
  <2>3. \A k \in 1..Len(s) : s[k].node = h.node \/ s[k].node \in NodesOf(t)
    <3>1. SUFFICES ASSUME NEW k \in 1..Len(s), k # 1 PROVE s[k].node \in NodesOf(t)
      BY <1>1
    <3>2. k - 1 \in 1..Len(t) /\ t[k - 1] = s[k]
      BY <1>2, <1>4, <3>1
    <3> QED BY <3>2 DEF NodesOf
  <2>4. h.node \in NodesOf(s)
    BY <1>1, <2>1 DEF NodesOf
  <2> QED BY <2>2, <2>3, <2>4 DEF NodesOf
<1>6. h.node \notin NodesOf(t)
  <2>1. SUFFICES ASSUME NEW k \in 1..Len(t), t[k].node = h.node PROVE FALSE
    BY DEF NodesOf
  <2>2. s[k + 1].node = s[1].node /\ 1 \in 1..Len(s)
    BY <1>1, <1>2, <2>1
  <2> QED BY <1>3, <2>2 DEF OnceEach
<1>7. OnceEach(t)
  <2>1. SUFFICES ASSUME NEW k \in 1..Len(t), NEW m \in 1..Len(t), t[k].node = t[m].node
                 PROVE  k = m
    BY DEF OnceEach
  <2>2. s[k + 1].node = s[m + 1].node
    BY <1>2, <2>1
  <2>3. k + 1 = m + 1
    BY <1>3, <2>2 DEF OnceEach
  <2> QED BY <2>3
<1> QED BY <1>1, <1>2, <1>3, <1>5, <1>6, <1>7 DEF t, h, F

LEMMA Joined ==
  ASSUME NEW T, NEW s \in Seq(Frame(T)), NEW t \in Seq(Frame(T)), OnceEach(s), OnceEach(t),
         NodesOf(s) \cap NodesOf(t) = {}
  PROVE  /\ s \o t \in Seq(Frame(T)) /\ Len(s \o t) = Len(s) + Len(t)
         /\ Len(s) \in Nat /\ Len(t) \in Nat
         /\ \A k \in 1..Len(s \o t) :
              \/ k \in 1..Len(s) /\ (s \o t)[k] = s[k]
              \/ k > Len(s) /\ k - Len(s) \in 1..Len(t) /\ (s \o t)[k] = t[k - Len(s)]
         /\ NodesOf(s \o t) = NodesOf(s) \cup NodesOf(t)
         /\ OnceEach(s \o t)
<1> DEFINE F == Frame(T)
           u == s \o t
<1>1. Len(s) \in Nat /\ Len(t) \in Nat
  <2> QED BY LenProperties
<1>2. /\ u \in Seq(F) /\ Len(u) = Len(s) + Len(t)
      /\ \A k \in 1..Len(s) + Len(t) : u[k] = IF k <= Len(s) THEN s[k] ELSE t[k - Len(s)]
  <2> QED BY ConcatProperties
<1> HIDE DEF u
<1>3. \A k \in 1..Len(u) : \/ k \in 1..Len(s) /\ u[k] = s[k]
                           \/ k > Len(s) /\ k - Len(s) \in 1..Len(t) /\ u[k] = t[k - Len(s)]
  BY <1>1, <1>2
<1>4. NodesOf(u) = NodesOf(s) \cup NodesOf(t)
  <2>1. \A k \in 1..Len(u) : u[k].node \in NodesOf(s) \cup NodesOf(t)
    BY <1>3 DEF NodesOf
  <2>2. \A k \in 1..Len(s) : s[k].node \in NodesOf(u)
    <3>1. SUFFICES ASSUME NEW k \in 1..Len(s) PROVE s[k].node \in NodesOf(u)
      OBVIOUS
    <3>2. k \in 1..Len(u) /\ u[k] = s[k]
      BY <1>1, <1>2
    <3> QED BY <3>2 DEF NodesOf
  <2>3. \A k \in 1..Len(t) : t[k].node \in NodesOf(u)
    <3>1. SUFFICES ASSUME NEW k \in 1..Len(t) PROVE t[k].node \in NodesOf(u)
      OBVIOUS
    <3>2. k + Len(s) \in 1..Len(u) /\ ~(k + Len(s) <= Len(s)) /\ (k + Len(s)) - Len(s) = k
      BY <1>1, <1>2
    <3>3. u[k + Len(s)] = t[k]
      BY <1>2, <3>2
    <3> QED BY <3>2, <3>3 DEF NodesOf
  <2> QED BY <2>1, <2>2, <2>3 DEF NodesOf
<1>5. OnceEach(u)
  <2>1. SUFFICES ASSUME NEW k \in 1..Len(u), NEW m \in 1..Len(u), u[k].node = u[m].node
                 PROVE  k = m
    BY DEF OnceEach
  <2>2. CASE k \in 1..Len(s) /\ u[k] = s[k] /\ m \in 1..Len(s) /\ u[m] = s[m]
    BY <2>1, <2>2 DEF OnceEach
  <2>3. CASE k - Len(s) \in 1..Len(t) /\ u[k] = t[k - Len(s)]
             /\ m - Len(s) \in 1..Len(t) /\ u[m] = t[m - Len(s)]
    <3>1. k - Len(s) = m - Len(s)
      BY <2>1, <2>3 DEF OnceEach
    <3> QED BY <1>1, <3>1
  <2>4. CASE k \in 1..Len(s) /\ u[k] = s[k] /\ m - Len(s) \in 1..Len(t) /\ u[m] = t[m - Len(s)]
    <3>1. u[k].node \in NodesOf(s) /\ u[m].node \in NodesOf(t)
      BY <2>4 DEF NodesOf
    <3> QED BY <2>1, <3>1
  <2>5. CASE m \in 1..Len(s) /\ u[m] = s[m] /\ k - Len(s) \in 1..Len(t) /\ u[k] = t[k - Len(s)]
    <3>1. u[m].node \in NodesOf(s) /\ u[k].node \in NodesOf(t)
      BY <2>5 DEF NodesOf
    <3> QED BY <2>1, <3>1
  <2> QED BY <1>3, <2>2, <2>3, <2>4, <2>5
<1> QED BY <1>1, <1>2, <1>3, <1>4, <1>5 DEF u, F

LEMMA NextEmission ==
  ASSUME NEW table, IsTable(table), NEW R, NEW nearest, NEW children,
         IsFamily(table, R, nearest, children), NEW n \in Nat, NEW s,
         IsEmission(DOMAIN table, R, nearest, n, s)
  PROVE  IsEmission(DOMAIN table, R, nearest, n + 1, Emit(children, s))
<1> DEFINE T == DOMAIN table
           F == Frame(T)
           e == s.emitted
           q == s.stack
<1>1. /\ s \in [stack : Seq(F), emitted : Seq(F)] /\ q \in Seq(F) /\ e \in Seq(F)
      /\ OnceEach(q) /\ OnceEach(e)
      /\ NodesOf(q) \cap NodesOf(e) = {}
      /\ NodesOf(q) \cup NodesOf(e) = {i \in R : nearest[i] \in {0} \cup NodesOf(e)}
      /\ \A k \in 1..Len(q) : Hangs(e, nearest, q[k])
      /\ \A k \in 1..Len(e) : Hangs(e, nearest, e[k])
      /\ q = << >> \/ Len(e) = n
  BY DEF IsEmission
<1>2. CASE q = << >>
  <2>1. Emit(children, s) = s
    BY <1>2 DEF Emit
  <2> QED BY <1>2, <2>1 DEF IsEmission
<1>3. CASE q # << >>
  <2> DEFINE h == Head(q)
             x == h.node
             r == Tail(q)
             g == Frames(children[x], h.depth + 1, Len(e) + 1)
             t == Emit(children, s)
             a == Append(e, h)
  <2>1. t = [stack |-> g \o r, emitted |-> a]
    BY <1>3 DEF Emit
  <2>2. /\ Len(q) \in Nat \ {0} /\ h = q[1] /\ h \in F
        /\ r \in Seq(F) /\ Len(r) = Len(q) - 1
        /\ \A k \in 1..Len(r) : r[k] = q[k + 1] /\ k + 1 \in 1..Len(q)
        /\ NodesOf(q) = {x} \cup NodesOf(r) /\ x \notin NodesOf(r) /\ OnceEach(r)
    BY <1>1, <1>3, HeadAndTail
  <2>3. x \in T /\ h.depth \in Nat /\ Len(e) \in Nat /\ 0 \notin T /\ x # 0
    BY <1>1, <2>2, Entries, LenProperties DEF Frame
  <2>4. IsGroup(T, R, nearest, children[x], x, h.depth + 1, Len(e) + 1, g)
    <3>1. x \in T \cup {0} /\ h.depth + 1 \in Nat /\ Len(e) + 1 \in Nat
      BY <2>3
    <3> HIDE DEF x, h
    <3> QED BY <3>1, GroupFrames
  <2> HIDE DEF h, r, g, t
  <2>5. /\ a \in Seq(F) /\ Len(a) = Len(e) + 1 /\ a[Len(e) + 1] = h
        /\ \A k \in 1..Len(e) : a[k] = e[k]
    BY <1>1, <2>2, AppendProperties
  <2> HIDE DEF a
  <2>6. NodesOf(a) = NodesOf(e) \cup {x}
    <3>1. \A k : k \in 1..Len(a) <=> k \in 1..Len(e) \/ k = Len(e) + 1
      BY <2>3, <2>5
    <3>2. \A k \in 1..Len(a) : a[k].node \in NodesOf(e) \cup {x}
      BY <2>5, <3>1 DEF NodesOf
    <3>3. \A k \in 1..Len(e) : e[k].node \in NodesOf(a)
      BY <2>5, <3>1 DEF NodesOf
    <3>4. x \in NodesOf(a)
      BY <2>5, <3>1 DEF NodesOf
    <3> QED BY <3>2, <3>3, <3>4 DEF NodesOf
  <2>7. x \notin NodesOf(e)
    BY <1>1, <2>2
  <2>8. OnceEach(a)
    <3>1. \A k \in 1..Len(a) : k \in 1..Len(e) \/ k = Len(e) + 1
      BY <2>3, <2>5
    <3>2. \A k \in 1..Len(e) : a[k].node = e[k].node /\ e[k].node # x
      BY <2>5, <2>7 DEF NodesOf
    <3>3. a[Len(e) + 1].node = x
      BY <2>5
    <3> QED BY <1>1, <3>1, <3>2, <3>3 DEF OnceEach
  <2>9. g \in Seq(F) /\ OnceEach(g) /\ NodesOf(g) = {i \in R : nearest[i] = x}
        /\ \A k \in 1..Len(g) : g[k].parentRow = Len(e) + 1
    BY <2>4 DEF IsGroup
  <2>10. NodesOf(g) \cap (NodesOf(q) \cup NodesOf(e)) = {}
    BY <1>1, <2>3, <2>7, <2>9
  <2>11. NodesOf(g) \cap NodesOf(r) = {}
    BY <2>2, <2>10
  <2>12. /\ g \o r \in Seq(F)
         /\ \A k \in 1..Len(g \o r) :
              \/ k \in 1..Len(g) /\ (g \o r)[k] = g[k]
              \/ k > Len(g) /\ k - Len(g) \in 1..Len(r) /\ (g \o r)[k] = r[k - Len(g)]
         /\ NodesOf(g \o r) = NodesOf(g) \cup NodesOf(r)
         /\ OnceEach(g \o r)
    BY <2>2, <2>9, <2>11, Joined
  <2> DEFINE u == g \o r
  <2> HIDE DEF u
  <2>13. NodesOf(u) \cap NodesOf(a) = {}
    <3>1. NodesOf(g) \cap NodesOf(a) = {}
      BY <2>2, <2>6, <2>10
    <3>2. NodesOf(r) \cap NodesOf(a) = {}
      BY <1>1, <2>2, <2>6
    <3> QED BY <2>12, <3>1, <3>2 DEF u
  <2>14. NodesOf(u) \cup NodesOf(a) = {i \in R : nearest[i] \in {0} \cup NodesOf(a)}
    <3>1. NodesOf(u) \cup NodesOf(a) = (NodesOf(q) \cup NodesOf(e)) \cup NodesOf(g)
      BY <2>2, <2>6, <2>12 DEF u
    <3> QED BY <1>1, <2>6, <2>9, <3>1
  <2>15. \A f : Hangs(e, nearest, f) => Hangs(a, nearest, f)
    <3>1. 1..Len(e) \subseteq 1..Len(a)
      BY <2>3, <2>5
    <3> QED BY <2>5, <3>1 DEF Hangs
  <2>16. \A k \in 1..Len(u) : Hangs(a, nearest, u[k])
    <3>1. SUFFICES ASSUME NEW k \in 1..Len(u) PROVE Hangs(a, nearest, u[k])
      OBVIOUS
    <3>2. CASE k \in 1..Len(g) /\ u[k] = g[k]
      <4>1. g[k].node \in NodesOf(g) /\ g[k].parentRow = Len(e) + 1
        BY <2>9, <3>2 DEF NodesOf
      <4>2. nearest[g[k].node] = x
        BY <2>9, <4>1
      <4>3. Len(e) + 1 \in 1..Len(a) /\ a[Len(e) + 1].node = x
        BY <2>3, <2>5
      <4> QED BY <2>3, <3>2, <4>1, <4>2, <4>3 DEF Hangs
    <3>3. CASE k - Len(g) \in 1..Len(r) /\ u[k] = r[k - Len(g)]
      <4>1. u[k] = q[(k - Len(g)) + 1] /\ (k - Len(g)) + 1 \in 1..Len(q)
        BY <2>2, <3>3
      <4>2. Hangs(e, nearest, u[k])
        BY <1>1, <4>1
      <4> QED BY <2>15, <4>2
    <3> QED BY <2>12, <3>1, <3>2, <3>3 DEF u
  <2>17. \A k \in 1..Len(a) : Hangs(a, nearest, a[k])
    <3>1. SUFFICES ASSUME NEW k \in 1..Len(a) PROVE Hangs(e, nearest, a[k])
      BY <2>15
    <3>2. k \in 1..Len(e) \/ k = Len(e) + 1
      BY <2>3, <2>5
    <3>3. 1 \in 1..Len(q)
      BY <2>2
    <3> QED BY <1>1, <2>2, <2>5, <3>2, <3>3
  <2>18. Len(a) = n + 1
    BY <1>1, <1>3, <2>5
  <2>19. t.stack = u /\ t.emitted = a /\ t \in [stack : Seq(F), emitted : Seq(F)]
    BY <2>1, <2>5, <2>12 DEF u
  <2>20. IsEmission(T, R, nearest, n + 1, t)
    BY <2>8, <2>12, <2>13, <2>14, <2>16, <2>17, <2>18, <2>19 DEF IsEmission, u
  <2> QED BY <2>20 DEF t
<1> QED BY <1>2, <1>3

\* place[n] are the states emit_rows may be in after n rounds, and f the ones it is in.
Keeps(children, place) ==
  /\ [stack |-> Frames(children[0], 0, 0), emitted |-> << >>] \in place[0]
  /\ \A n \in Nat : \A s \in place[n] : Emit(children, s) \in place[n + 1]

IsKept(children, place, f) ==
  /\ f[0] = [stack |-> Frames(children[0], 0, 0), emitted |-> << >>]
  /\ \A n \in Nat : f[n + 1] = Emit(children, f[n]) /\ f[n] \in place[n]
  /\ Emitted(children) = f[Cardinality(DOMAIN children)].emitted

\* What every round keeps holds of the states emit_rows goes through, and the last of
\* them holds what it returns.
LEMMA EmittedIsKept ==
  ASSUME NEW children, Cardinality(DOMAIN children) \in Nat, NEW place, Keeps(children, place)
  PROVE  \E f : IsKept(children, place, f)
<1> DEFINE first == [stack |-> Frames(children[0], 0, 0), emitted |-> << >>]
           N == Cardinality(DOMAIN children)
           States == UNION {place[n] : n \in Nat}
           round == [ns \in Nat \X States |-> Emit(children, ns[2])]
           Solves(f) == f = [n \in Nat |-> IF n = 0 THEN first ELSE Emit(children, f[n - 1])]
           state == CHOOSE f : Solves(f)
<1>1. Emitted(children) = state[N].emitted
  BY DEF Emitted
<1> HIDE DEF N
<1>2. \A n \in Nat : \A s \in place[n] : round[<<n, s>>] = Emit(children, s)
  <2>1. SUFFICES ASSUME NEW n \in Nat, NEW s \in place[n]
                 PROVE  round[<<n, s>>] = Emit(children, s)
    OBVIOUS
  <2>2. s \in States
    OBVIOUS
  <2> HIDE DEF States
  <2> QED BY <2>2
<1> HIDE DEF round, first
<1>3. PICK f : IsLoop(f, first, round) /\ \A n \in Nat : f[n] \in place[n]
  <2>1. \A n \in Nat : \A s \in place[n] : round[<<n, s>>] \in place[n + 1]
    BY <1>2 DEF Keeps
  <2>2. first \in place[0]
    BY DEF first, Keeps
  <2> QED BY <2>1, <2>2, Loop, Zenon
<1>4. Solves(f)
  <2>1. ASSUME NEW n \in Nat, n # 0 PROVE round[<<n - 1, f[n - 1]>>] = Emit(children, f[n - 1])
    <3>1. n - 1 \in Nat
      BY <2>1
    <3> QED BY <1>2, <1>3, <3>1
  <2> QED BY <1>3, <2>1 DEF IsLoop
<1>5. Solves(state)
  BY <1>4
<1> HIDE DEF state
<1>6. \A n \in Nat : state[n] = f[n]
  <2>1. state[0] = f[0]
    BY <1>4, <1>5
  <2>2. ASSUME NEW n \in Nat, state[n] = f[n] PROVE state[n + 1] = f[n + 1]
    <3>1. n + 1 \in Nat /\ n + 1 # 0 /\ (n + 1) - 1 = n
      OBVIOUS
    <3>2. state[n + 1] = Emit(children, state[(n + 1) - 1])
      BY <1>5, <3>1
    <3>3. f[n + 1] = Emit(children, f[(n + 1) - 1])
      BY <1>4, <3>1
    <3> QED BY <2>2, <3>1, <3>2, <3>3
  <2> QED BY <2>1, <2>2, SameLoop
<1>7. f[0] = first
  BY <1>4
<1>8. ASSUME NEW n \in Nat PROVE f[n + 1] = Emit(children, f[n])
  <2>1. n + 1 \in Nat /\ n + 1 # 0 /\ (n + 1) - 1 = n
    OBVIOUS
  <2> QED BY <1>4, <2>1
<1>9. state[N] = f[N]
  BY <1>6 DEF N
<1>10. IsKept(children, place, f)
  BY <1>1, <1>3, <1>7, <1>8, <1>9 DEF IsKept, first, N
<1> QED BY <1>10

\* The rows that are there and those that wait on the stack, next first, with e rows there:
\* a row is below its parent, one deeper, with nothing but descendants of the parent in
\* between, and the last of its siblings is the last.
Planted(T, v, e) ==
  /\ v \in Seq(Frame(T))
  /\ \A k \in 1..Len(v) :
       /\ v[k].parentRow < k /\ v[k].parentRow <= e
       /\ v[k].depth = IF v[k].parentRow = 0 THEN 0 ELSE v[v[k].parentRow].depth + 1
       /\ \A m \in v[k].parentRow + 1..k : v[m].parentRow >= v[k].parentRow
       /\ v[k].isLast <=> \A m \in k + 1..Len(v) : v[m].parentRow # v[k].parentRow

\* w is v with g after its first n rows.
Inserted(T, v, n, g, w) ==
  /\ w \in Seq(Frame(T)) /\ Len(w) = Len(v) + Len(g)
  /\ \A k \in 1..n : w[k] = v[k]
  /\ \A k \in 1..Len(g) : w[n + k] = g[k]
  /\ \A k \in n + 1..Len(v) : w[k + Len(g)] = v[k]

\* Children come right below the row that is emitted.
LEMMA ChildrenInserted ==
  ASSUME NEW T, NEW e \in Nat, NEW v, Planted(T, v, e), e < Len(v),
         NEW g \in Seq(Frame(T)), NEW w, Inserted(T, v, e + 1, g, w),
         \A k \in 1..Len(g) : /\ g[k].parentRow = e + 1 /\ g[k].depth = v[e + 1].depth + 1
                              /\ g[k].isLast <=> k = Len(g)
  PROVE  Planted(T, w, e + 1)
<1> DEFINE n == Len(v)
           G == Len(g)
           p(k) == v[k].parentRow
           q(k) == w[k].parentRow
<1>1. /\ n \in Nat /\ G \in Nat /\ Len(w) = n + G /\ w \in Seq(Frame(T))
      /\ \A k \in 1..n : p(k) \in Nat /\ v[k].depth \in Nat
  <2>1. n \in Nat /\ \A k \in 1..n : v[k] \in Frame(T)
    BY LenProperties, ElementOfSeq DEF Planted
  <2>2. G \in Nat
    BY LenProperties
  <2> QED BY <2>1, <2>2 DEF Inserted, Frame
<1>2. \A k \in 1..n :
        /\ p(k) < k /\ p(k) <= e
        /\ v[k].depth = IF p(k) = 0 THEN 0 ELSE v[p(k)].depth + 1
        /\ \A m \in p(k) + 1..k : p(m) >= p(k)
        /\ v[k].isLast <=> \A m \in k + 1..n : p(m) # p(k)
  BY DEF Planted
<1>3. /\ \A k \in 1..(e + 1) : w[k] = v[k]
      /\ \A k \in 1..G : w[e + 1 + k] = g[k]
      /\ \A k \in e + 2..n : w[k + G] = v[k]
  BY DEF Inserted
<1>4. \A k \in 1..G : g[k].parentRow = e + 1 /\ g[k].depth = v[e + 1].depth + 1
                      /\ (g[k].isLast <=> k = G)
  OBVIOUS
<1> HIDE DEF n, G
<1> DEFINE Old(k) == k \in 1..(e + 1) /\ k \in 1..n /\ w[k] = v[k]
           New(k) == k - (e + 1) \in 1..G /\ w[k] = g[k - (e + 1)] /\ q(k) = e + 1
           Late(k) == k - G \in e + 2..n /\ k - G \in 1..n /\ w[k] = v[k - G]
<1>5. e + 1 \in 1..n
  BY <1>1 DEF n
<1>6. ASSUME NEW k \in 1..(n + G) PROVE Old(k) \/ New(k) \/ Late(k)
  <2>1. CASE k <= e + 1
    BY <1>1, <1>3, <1>5, <2>1
  <2>2. CASE k > e + 1 /\ k <= e + 1 + G
    <3>1. k - (e + 1) \in 1..G /\ e + 1 + (k - (e + 1)) = k
      BY <1>1, <2>2
    <3>2. w[e + 1 + (k - (e + 1))] = g[k - (e + 1)]
      BY <1>3, <3>1
    <3> QED BY <1>4, <3>1, <3>2
  <2>3. CASE k > e + 1 + G
    <3>1. k - G \in e + 2..n /\ k - G \in 1..n /\ (k - G) + G = k
      BY <1>1, <2>3
    <3>2. w[(k - G) + G] = v[k - G]
      BY <1>3, <3>1
    <3> QED BY <3>1, <3>2
  <2> QED BY <1>1, <2>1, <2>2, <2>3
<1>7. \A k \in 1..(n + G) : \/ Old(k) /\ k <= e + 1
                            \/ New(k) /\ k > e + 1 /\ k <= e + 1 + G
                            \/ Late(k) /\ k > e + 1 + G
  BY <1>1, <1>6
<1> HIDE DEF Old, New, Late
<1>8. ASSUME NEW k \in 1..(n + G)
      PROVE  q(k) < k /\ q(k) <= e + 1 /\ q(k) \in Nat
  <2>1. CASE Old(k)
    <3>1. p(k) < k /\ p(k) <= e /\ p(k) \in Nat /\ q(k) = p(k)
      BY <1>1, <1>2, <2>1 DEF Old
    <3> QED BY <3>1
  <2>2. CASE New(k) /\ k > e + 1
    BY <2>2 DEF New
  <2>3. CASE Late(k)
    <3> DEFINE j == k - G
    <3>1. p(j) < j /\ p(j) <= e /\ p(j) \in Nat /\ q(k) = p(j)
      BY <1>1, <1>2, <2>3 DEF Late
    <3> QED BY <1>1, <3>1
  <2> QED BY <1>7, <2>1, <2>2, <2>3
<1>9. ASSUME NEW k \in 1..(n + G)
      PROVE  w[k].depth = IF q(k) = 0 THEN 0 ELSE w[q(k)].depth + 1
  <2>1. \A j \in 1..n : p(j) # 0 => w[p(j)] = v[p(j)]
    <3>1. \A j \in 1..n : p(j) # 0 => p(j) \in 1..(e + 1)
      BY <1>1, <1>2
    <3> QED BY <1>3, <3>1
  <2>2. CASE Old(k)
    BY <1>2, <2>1, <2>2 DEF Old
  <2>3. CASE New(k)
    <3>1. w[e + 1] = v[e + 1]
      BY <1>3
    <3> QED BY <1>4, <2>3, <3>1 DEF New
  <2>4. CASE Late(k)
    BY <1>2, <2>1, <2>4 DEF Late
  <2> QED BY <1>7, <2>2, <2>3, <2>4
<1>10. ASSUME NEW k \in 1..(n + G), NEW m \in q(k) + 1..k PROVE q(m) >= q(k)
  <2>1. q(k) \in Nat /\ m \in 1..(n + G)
    <3>1. q(k) \in Nat
      BY <1>8
    <3> QED BY <1>1, <3>1
  <2>2. CASE Old(k)
    <3>1. Old(m) /\ q(k) = p(k) /\ q(m) = p(m)
      <4>1. k \in 1..(e + 1) /\ m <= e + 1
        BY <2>1, <2>2 DEF Old
      <4>2. Old(m)
        BY <1>1, <1>7, <2>1, <4>1
      <4> QED BY <2>2, <4>2 DEF Old
    <3> QED BY <1>2, <2>2, <3>1 DEF Old
  <2>3. CASE New(k)
    <3>1. q(k) = e + 1 /\ m > e + 1 /\ m <= e + 1 + G
      BY <1>1, <1>7, <2>3 DEF New
    <3>2. New(m)
      <4>1. m \in 1..(n + G) /\ ~(m <= e + 1) /\ ~(m > e + 1 + G)
        BY <1>1, <2>1, <3>1
      <4> QED BY <1>7, <4>1
    <3>3. q(m) = e + 1
      BY <3>2 DEF New
    <3> QED BY <3>1, <3>3
  <2>4. CASE Late(k)
    <3> DEFINE j == k - G
    <3>1. j \in 1..n /\ q(k) = p(j) /\ p(j) <= e /\ j >= e + 2
      BY <1>2, <2>4 DEF Late
    <3>2. \A i \in p(j) + 1..j : p(i) >= p(j)
      BY <1>2, <3>1
    <3>3. CASE Old(m) /\ m <= e + 1
      <4>1. m \in p(j) + 1..j /\ q(m) = p(m)
        BY <2>1, <3>1, <3>3 DEF Old
      <4> QED BY <3>1, <3>2, <4>1
    <3>4. CASE New(m)
      BY <1>8, <3>1, <3>4, <2>1 DEF New
    <3>5. CASE Late(m)
      <4>1. m - G \in p(j) + 1..j /\ q(m) = p(m - G)
        BY <1>1, <2>1, <3>1, <3>5 DEF Late
      <4> QED BY <3>1, <3>2, <4>1
    <3> QED BY <1>7, <2>1, <3>3, <3>4, <3>5
  <2> QED BY <1>7, <2>2, <2>3, <2>4
<1>11. ASSUME NEW k \in 1..(n + G)
       PROVE  w[k].isLast <=> \A m \in k + 1..(n + G) : q(m) # q(k)
  <2> DEFINE shift(j) == IF j <= e + 1 THEN j ELSE j + G
  <2>1. \A j \in 1..n : /\ shift(j) \in 1..(n + G) /\ w[shift(j)] = v[j]
                        /\ \A i \in 1..n : j > i => shift(j) > shift(i)
    <3>1. SUFFICES ASSUME NEW j \in 1..n
                   PROVE  /\ shift(j) \in 1..(n + G) /\ w[shift(j)] = v[j]
                          /\ \A i \in 1..n : j > i => shift(j) > shift(i)
      OBVIOUS
    <3>2. CASE j <= e + 1
      <4>1. shift(j) = j /\ j \in 1..(e + 1) /\ j \in 1..(n + G)
        BY <1>1, <3>2
      <4> QED BY <1>3, <4>1
    <3>3. CASE ~(j <= e + 1)
      <4>1. shift(j) = j + G /\ j \in e + 2..n /\ j + G \in 1..(n + G)
        BY <1>1, <3>3
      <4>2. w[j + G] = v[j]
        BY <1>3, <4>1
      <4>3. \A i \in 1..n : j > i => shift(j) > shift(i)
        BY <1>1, <4>1
      <4> QED BY <4>1, <4>2, <4>3
    <3> QED BY <3>2, <3>3
  <2>2. \A m \in 1..(n + G) : New(m) \/ \E j \in 1..n : m = shift(j)
    <3>1. SUFFICES ASSUME NEW m \in 1..(n + G), ~New(m) PROVE \E j \in 1..n : m = shift(j)
      OBVIOUS
    <3>2. CASE Old(m) /\ m <= e + 1
      <4>1. m \in 1..n /\ m = shift(m)
        BY <3>2 DEF Old
      <4> QED BY <4>1
    <3>3. CASE Late(m)
      <4>1. m - G \in 1..n /\ ~(m - G <= e + 1) /\ (m - G) + G = m
        BY <1>1, <3>3 DEF Late
      <4>2. m = shift(m - G)
        BY <4>1
      <4> QED BY <4>1, <4>2
    <3> QED BY <1>7, <3>1, <3>2, <3>3
  <2>3. CASE New(k)
    <3>1. k - (e + 1) \in 1..G /\ (w[k].isLast <=> k - (e + 1) = G) /\ q(k) = e + 1
      BY <1>4, <2>3 DEF New
    <3>2. ASSUME k - (e + 1) = G, NEW m \in k + 1..(n + G) PROVE q(m) # q(k)
      <4>1. m \in 1..(n + G) /\ ~(m <= e + 1 + G)
        BY <1>1, <3>2
      <4>2. Late(m)
        BY <1>1, <1>7, <4>1
      <4>3. q(m) <= e
        BY <1>2, <4>2 DEF Late
      <4>4. q(m) \in Nat
        BY <1>8, <4>1
      <4> QED BY <3>1, <4>3, <4>4
    <3>3. ASSUME k - (e + 1) # G PROVE k + 1 \in k + 1..(n + G) /\ q(k + 1) = q(k)
      <4>1. k + 1 \in k + 1..(n + G) /\ k + 1 > e + 1 /\ k + 1 <= e + 1 + G /\ k + 1 \in 1..(n + G)
        BY <1>1, <1>5, <3>1, <3>3
      <4>2. New(k + 1)
        BY <1>1, <1>7, <4>1
      <4> QED BY <3>1, <4>1, <4>2 DEF New
    <3> QED BY <3>1, <3>2, <3>3
  <2>4. CASE ~New(k)
    <3>1. PICK j \in 1..n : k = shift(j)
      BY <2>2, <2>4
    <3>2. q(k) = p(j) /\ p(j) <= e /\ p(j) \in Nat
      BY <1>1, <1>2, <2>1, <3>1
    <3>3. w[k].isLast <=> v[j].isLast
      BY <2>1, <3>1
    <3>4. v[j].isLast <=> \A i \in j + 1..n : p(i) # p(j)
      BY <1>2
    <3> HIDE DEF shift
    <3>5. ASSUME NEW i \in j + 1..n, p(i) = p(j)
          PROVE  \E m \in k + 1..(n + G) : q(m) = q(k)
      <4>1. i \in 1..n /\ i > j
        BY <1>1, <3>5
      <4>2. shift(i) \in 1..(n + G) /\ shift(i) > k /\ q(shift(i)) = p(i)
        BY <2>1, <3>1, <4>1
      <4>3. shift(i) \in k + 1..(n + G)
        BY <1>1, <4>2
      <4> QED BY <3>2, <3>5, <4>2, <4>3
    <3>6. ASSUME NEW m \in k + 1..(n + G), q(m) = q(k)
          PROVE  \E i \in j + 1..n : p(i) = p(j)
      <4>1. m \in 1..(n + G) /\ m > k
        BY <1>1, <3>6
      <4>2. ~New(m)
        BY <3>2, <3>6 DEF New
      <4>3. PICK i \in 1..n : m = shift(i)
        BY <2>2, <4>1, <4>2
      <4>4. i > j
        <5>1. ~(j > i)
          <6>1. j > i => k > m
            BY <2>1, <3>1, <4>3
          <6> QED BY <4>1, <6>1
        <5>2. i # j
          BY <3>1, <4>1, <4>3
        <5> QED BY <5>1, <5>2
      <4>5. p(i) = p(j)
        BY <2>1, <3>2, <3>6, <4>3
      <4>6. i \in j + 1..n
        BY <1>1, <4>4
      <4> QED BY <4>5, <4>6
    <3> QED BY <3>3, <3>4, <3>5, <3>6
  <2> QED BY <2>3, <2>4
<1> QED BY <1>1, <1>8, <1>9, <1>10, <1>11 DEF Planted, n, G

IsPlanted(T, s) ==
  /\ s \in [stack : Seq(Frame(T)), emitted : Seq(Frame(T))]
  /\ Planted(T, s.emitted \o s.stack, Len(s.emitted))

LEMMA RootsArePlanted ==
  ASSUME NEW table, IsTable(table), NEW R, NEW nearest, NEW children,
         IsFamily(table, R, nearest, children)
  PROVE  IsPlanted(DOMAIN table, [stack |-> Frames(children[0], 0, 0), emitted |-> << >>])
<1> DEFINE T == DOMAIN table
           g == Frames(children[0], 0, 0)
           none == << >>
           s == [stack |-> g, emitted |-> none]
<1>1. IsGroup(T, R, nearest, children[0], 0, 0, 0, g)
  <2>1. 0 \in DOMAIN table \cup {0} /\ 0 \in Nat
    OBVIOUS
  <2> HIDE DEF g
  <2> QED BY <2>1, GroupFrames DEF g
<1> HIDE DEF g
<1>2. /\ g \in Seq(Frame(T))
      /\ \A k \in 1..Len(g) : g[k].depth = 0 /\ g[k].parentRow = 0 /\ (g[k].isLast <=> k = Len(g))
  BY <1>1 DEF IsGroup
<1>3. Len(g) \in Nat
  BY <1>2, LenProperties
<1>4. Planted(T, g, 0)
  <2>1. ASSUME NEW k \in 1..Len(g)
        PROVE  g[k].isLast <=> \A m \in k + 1..Len(g) : g[m].parentRow # g[k].parentRow
    <3>1. k # Len(g) => k + 1 \in k + 1..Len(g) /\ k + 1 \in 1..Len(g)
      BY <1>3
    <3>2. k = Len(g) => ~\E m \in k + 1..Len(g) : TRUE
      BY <1>3
    <3> QED BY <1>2, <3>1, <3>2
  <2>2. ASSUME NEW k \in 1..Len(g)
        PROVE  /\ g[k].parentRow < k /\ g[k].parentRow <= 0
               /\ g[k].depth = IF g[k].parentRow = 0 THEN 0 ELSE g[g[k].parentRow].depth + 1
               /\ \A m \in g[k].parentRow + 1..k : g[m].parentRow >= g[k].parentRow
    <3>1. g[k].parentRow = 0 /\ g[k].depth = 0
      BY <1>2
    <3>2. \A m \in 1..k : m \in 1..Len(g)
      BY <1>3
    <3>3. \A m \in 1..k : g[m].parentRow = 0
      BY <1>2, <3>2
    <3> QED BY <3>1, <3>3
  <2> QED BY <1>2, <2>1, <2>2 DEF Planted
<1>5. none \in Seq(Frame(T)) /\ Len(none) = 0 /\ none \o g = g
  BY <1>2, ConcatEmptySeq
<1> HIDE DEF none
<1>6. s.stack = g /\ s.emitted = none /\ s \in [stack : Seq(Frame(T)), emitted : Seq(Frame(T))]
  BY <1>2, <1>5
<1> HIDE DEF s
<1>7. IsPlanted(T, s)
  BY <1>4, <1>5, <1>6 DEF IsPlanted
<1> QED BY <1>7 DEF s, g, none

\* The top of the stack and its children take the place of the top.
LEMMA Spliced ==
  ASSUME NEW T, NEW e \in Seq(Frame(T)), NEW s \in Seq(Frame(T)), s # << >>,
         NEW g \in Seq(Frame(T))
  PROVE  /\ Inserted(T, e \o s, Len(e) + 1, g, Append(e, Head(s)) \o (g \o Tail(s)))
         /\ (e \o s)[Len(e) + 1] = Head(s) /\ Len(e) < Len(e \o s)
<1> DEFINE F == Frame(T)
           h == Head(s)
           r == Tail(s)
           a == Append(e, h)
           v == e \o s
           u == g \o r
           w == a \o u
           E == Len(e)
           S == Len(s)
           G == Len(g)
<1>1. E \in Nat /\ S \in Nat \ {0} /\ G \in Nat
  BY LenProperties, EmptySeq
<1>2. h \in F /\ h = s[1]
  BY <1>1, HeadTailProperties
<1>3. r \in Seq(F) /\ Len(r) = S - 1 /\ \A k \in 1..Len(r) : r[k] = s[k + 1]
  BY HeadTailProperties
<1> HIDE DEF h, r
<1>4. a \in Seq(F) /\ Len(a) = E + 1 /\ a[E + 1] = h /\ \A k \in 1..E : a[k] = e[k]
  BY <1>2, AppendProperties
<1>5. /\ Len(v) = E + S
      /\ \A k \in 1..E + S : v[k] = IF k <= E THEN e[k] ELSE s[k - E]
  BY ConcatProperties
<1>6. /\ u \in Seq(F) /\ Len(u) = G + Len(r)
      /\ \A k \in 1..G + Len(r) : u[k] = IF k <= G THEN g[k] ELSE r[k - G]
  BY <1>3, ConcatProperties
<1> HIDE DEF a, u, v
<1>7. /\ w \in Seq(F) /\ Len(w) = Len(a) + Len(u)
      /\ \A k \in 1..Len(a) + Len(u) : w[k] = IF k <= Len(a) THEN a[k] ELSE u[k - Len(a)]
  <2>1. a \in Seq(F) /\ u \in Seq(F)
    BY <1>4, <1>6
  <2> QED BY <2>1, ConcatProperties
<1> HIDE DEF w, E, S, G, F
<1>8. S \in Nat /\ S >= 1 /\ Len(a) = E + 1 /\ Len(r) = S - 1 /\ Len(u) = G + (S - 1)
      /\ Len(v) = E + S /\ Len(w) = E + G + S
  <2>1. S \in Nat /\ S >= 1
    BY <1>1
  <2>2. Len(a) = E + 1 /\ Len(r) = S - 1 /\ Len(u) = G + Len(r) /\ Len(v) = E + S
        /\ Len(w) = Len(a) + Len(u)
    BY <1>3, <1>4, <1>5, <1>6, <1>7
  <2> QED BY <1>1, <2>1, <2>2
<1>9. \A k \in 1..(S - 1) : r[k] = s[k + 1]
  BY <1>3, <1>8
<1>10. \A k \in 1..G + (S - 1) : u[k] = IF k <= G THEN g[k] ELSE r[k - G]
  BY <1>6, <1>8
<1>11. \A k \in 1..E + G + S : w[k] = IF k <= E + 1 THEN a[k] ELSE u[k - (E + 1)]
  <2>1. Len(a) + Len(u) = E + G + S
    BY <1>1, <1>8
  <2> QED BY <1>7, <1>8, <2>1
<1>12. \A k \in 1..E : a[k] = e[k] /\ a[E + 1] = h
  BY <1>4
<1>13. \A k \in 1..E + S : v[k] = IF k <= E THEN e[k] ELSE s[k - E]
  BY <1>5
<1>14. v[E + 1] = h /\ E < E + S
  <2>1. E + 1 \in 1..E + S /\ ~(E + 1 <= E) /\ (E + 1) - E = 1 /\ E < E + S
    BY <1>1, <1>8
  <2>2. v[E + 1] = s[(E + 1) - E]
    BY <1>13, <2>1
  <2> QED BY <1>2, <2>1, <2>2
<1>15. ASSUME NEW k \in 1..(E + 1) PROVE w[k] = v[k]
  <2>1. k \in 1..E + G + S /\ k <= E + 1
    BY <1>1, <1>8
  <2>2. w[k] = a[k]
    BY <1>11, <2>1
  <2>3. CASE k = E + 1
    BY <1>4, <1>14, <2>2, <2>3
  <2>4. CASE k # E + 1
    <3>1. k \in 1..E /\ k \in 1..E + S /\ k <= E
      BY <1>1, <1>8, <2>4
    <3>2. v[k] = e[k]
      BY <1>13, <3>1
    <3> QED BY <1>12, <2>2, <3>1, <3>2
  <2> QED BY <2>3, <2>4
<1>16. ASSUME NEW k \in 1..G PROVE w[E + 1 + k] = g[k]
  <2>1. E + 1 + k \in 1..E + G + S /\ ~(E + 1 + k <= E + 1) /\ (E + 1 + k) - (E + 1) = k
        /\ k \in 1..G + (S - 1) /\ k <= G
    BY <1>1, <1>8
  <2>2. w[E + 1 + k] = u[(E + 1 + k) - (E + 1)]
    BY <1>11, <2>1
  <2>3. u[k] = g[k]
    BY <1>10, <2>1
  <2> QED BY <2>1, <2>2, <2>3
<1>17. ASSUME NEW k \in E + 1 + 1..E + S PROVE w[k + G] = v[k]
  <2> DEFINE j == (k + G) - (E + 1)
             i == k - (E + 1)
  <2>1. /\ k + G \in 1..E + G + S /\ ~(k + G <= E + 1)
        /\ j \in 1..G + (S - 1) /\ ~(j <= G) /\ j - G = i
        /\ i \in 1..(S - 1) /\ i + 1 = k - E /\ k \in 1..E + S /\ ~(k <= E)
    BY <1>1, <1>8
  <2>2. w[k + G] = u[j]
    BY <1>11, <2>1
  <2> HIDE DEF i, j
  <2>3. u[j] = r[j - G]
    BY <1>10, <2>1
  <2>4. r[i] = s[i + 1]
    BY <1>9, <2>1
  <2>5. v[k] = s[k - E]
    BY <1>13, <2>1
  <2> QED BY <2>1, <2>2, <2>3, <2>4, <2>5
<1>18. Inserted(T, v, E + 1, g, w)
  <2>1. w \in Seq(Frame(T))
    BY <1>7 DEF F
  <2>2. Len(w) = Len(v) + Len(g) /\ Len(v) = E + S
    BY <1>1, <1>8 DEF G
  <2> QED BY <1>15, <1>16, <1>17, <2>1, <2>2 DEF Inserted, G
<1>19. Len(v) = E + S
  BY <1>8
<1> QED BY <1>14, <1>18, <1>19 DEF w, a, u, v, h, r, E

LEMMA EmitPlants ==
  ASSUME NEW table, IsTable(table), NEW R, NEW nearest, NEW children,
         IsFamily(table, R, nearest, children), NEW s, IsPlanted(DOMAIN table, s)
  PROVE  IsPlanted(DOMAIN table, Emit(children, s))
<1> DEFINE T == DOMAIN table
           F == Frame(T)
           e == s.emitted
           q == s.stack
<1>1. e \in Seq(F) /\ q \in Seq(F) /\ Planted(T, e \o q, Len(e))
  BY DEF IsPlanted
<1>2. CASE q = << >>
  BY <1>2 DEF Emit
<1>3. CASE q # << >>
  <2> DEFINE h == Head(q)
             r == Tail(q)
             g == Frames(children[h.node], h.depth + 1, Len(e) + 1)
             t == Emit(children, s)
             a == Append(e, h)
  <2>1. t = [stack |-> g \o r, emitted |-> a]
    BY <1>3 DEF Emit
  <2> HIDE DEF t, g
  <2> HIDE DEF e, q
  <2>2. h \in F /\ r \in Seq(F)
    BY <1>1, <1>3, HeadTailProperties
  <2>3. Len(e) \in Nat
    BY <1>1, LenProperties
  <2>4. h.node \in T /\ h.depth \in Nat
    BY <2>2 DEF Frame
  <2> DEFINE x == h.node
             depth == h.depth + 1
             row == Len(e) + 1
  <2>5. IsGroup(T, R, nearest, children[x], x, depth, row, g)
    <3>1. x \in T \cup {0} /\ depth \in Nat /\ row \in Nat
      BY <2>3, <2>4
    <3>2. g = Frames(children[x], depth, row)
      BY DEF g
    <3> HIDE DEF x, depth, row, h
    <3> QED BY <3>1, <3>2, GroupFrames
  <2>6. /\ g \in Seq(F)
        /\ \A k \in 1..Len(g) : /\ g[k].parentRow = Len(e) + 1 /\ g[k].depth = h.depth + 1
                                /\ g[k].isLast <=> k = Len(g)
    BY <2>5 DEF IsGroup
  <2>7. /\ Inserted(T, e \o q, Len(e) + 1, g, a \o (g \o r))
        /\ (e \o q)[Len(e) + 1] = h /\ Len(e) < Len(e \o q)
    BY <1>1, <1>3, <2>6, Spliced
  <2>8. Len(a) = Len(e) + 1 /\ a \in Seq(F)
    BY <1>1, <2>2, AppendProperties
  <2>9. g \o r \in Seq(F)
    BY <2>2, <2>6, ConcatProperties
  <2> DEFINE v == e \o q
             w == a \o (g \o r)
             n == Len(e)
  <2>10. Planted(T, w, n + 1)
    <3>1. /\ n \in Nat /\ Planted(T, v, n) /\ n < Len(v) /\ Inserted(T, v, n + 1, g, w)
          /\ g \in Seq(Frame(T))
          /\ \A k \in 1..Len(g) : /\ g[k].parentRow = n + 1 /\ g[k].depth = v[n + 1].depth + 1
                                  /\ g[k].isLast <=> k = Len(g)
      BY <1>1, <2>3, <2>6, <2>7
    <3> HIDE DEF n, v, w, T
    <3> QED BY <3>1, ChildrenInserted
  <2>11. t.stack = g \o r /\ t.emitted = a /\ t \in [stack : Seq(F), emitted : Seq(F)]
    <3> HIDE DEF a, h, r
    <3> QED BY <2>1, <2>8, <2>9
  <2>12. IsPlanted(T, t)
    <3> HIDE DEF a, h, r
    <3> QED BY <2>8, <2>10, <2>11 DEF IsPlanted
  <2> QED BY <2>12 DEF t
<1> QED BY <1>2, <1>3

\* The states of emit_rows, of which the last one's rows are the table.
IsEmissionRun(table, R, nearest, children, f) ==
  /\ f[0] = [stack |-> Frames(children[0], 0, 0), emitted |-> << >>]
  /\ \A n \in Nat : /\ f[n + 1] = Emit(children, f[n])
                    /\ IsEmission(DOMAIN table, R, nearest, n, f[n]) /\ IsPlanted(DOMAIN table, f[n])
  /\ Emitted(children) = f[Len(table) + 1].emitted

LEMMA EmissionRuns ==
  ASSUME NEW table, IsTable(table), NEW R, NEW nearest, NEW children,
         IsFamily(table, R, nearest, children)
  PROVE  \E f : IsEmissionRun(table, R, nearest, children, f)
<1> DEFINE T == DOMAIN table
           F == Frame(T)
           N == Len(table) + 1
           States == [stack : Seq(F), emitted : Seq(F)]
           place == [n \in Nat |-> {s \in States : IsEmission(T, R, nearest, n, s) /\ IsPlanted(T, s)}]
           first == [stack |-> Frames(children[0], 0, 0), emitted |-> << >>]
<1>1. Len(table) \in Nat /\ T = 1..Len(table)
  BY Entries
<1>2. \A n \in Nat : \A s : IsEmission(T, R, nearest, n, s) /\ IsPlanted(T, s) <=> s \in place[n]
  BY DEF IsEmission
<1>3. first \in place[0]
  <2>1. IsEmission(T, R, nearest, 0, first) /\ IsPlanted(T, first)
    BY FirstEmission, RootsArePlanted
  <2> HIDE DEF place, first
  <2> QED BY <1>2, <2>1
<1>4. \A n \in Nat : \A s \in place[n] : Emit(children, s) \in place[n + 1]
  <2>1. SUFFICES ASSUME NEW n \in Nat, NEW s \in place[n] PROVE Emit(children, s) \in place[n + 1]
    OBVIOUS
  <2> HIDE DEF place
  <2>2. IsEmission(T, R, nearest, n, s) /\ IsPlanted(T, s) /\ n + 1 \in Nat
    BY <1>2
  <2>3. IsEmission(T, R, nearest, n + 1, Emit(children, s)) /\ IsPlanted(T, Emit(children, s))
    BY <2>2, NextEmission, EmitPlants
  <2> QED BY <1>2, <2>2, <2>3
<1>5. N \in Nat /\ N = Cardinality(DOMAIN children)
  <2>1. DOMAIN children = 0..Len(table)
    BY <1>1 DEF IsFamily
  <2>2. Cardinality(0..Len(table)) = N
    BY <1>1, FS_Interval
  <2> QED BY <1>1, <2>1, <2>2
<1> HIDE DEF N, place
<1>6. PICK f : IsKept(children, place, f)
  <2>1. Keeps(children, place)
    BY <1>3, <1>4 DEF Keeps, first
  <2> QED BY <1>5, <2>1, EmittedIsKept
<1>7. ASSUME NEW n \in Nat PROVE IsEmission(T, R, nearest, n, f[n]) /\ IsPlanted(T, f[n])
  <2>1. f[n] \in place[n]
    BY <1>6 DEF IsKept
  <2> QED BY <1>2, <2>1
<1>8. /\ f[0] = first
      /\ \A n \in Nat : f[n + 1] = Emit(children, f[n])
      /\ Emitted(children) = f[N].emitted
  BY <1>5, <1>6 DEF IsKept, first
<1> QED BY <1>7, <1>8 DEF IsEmissionRun, first, N

\* The stack machine ends with every process that is there to be emitted.
LEMMA EmissionEnds ==
  ASSUME NEW table, IsTable(table), NEW R, NEW nearest, NEW children,
         IsFamily(table, R, nearest, children)
  PROVE  LET e == Emitted(children)
         IN /\ e \in Seq(Frame(DOMAIN table)) /\ OnceEach(e)
            /\ NodesOf(e) = {i \in R : nearest[i] \in {0} \cup NodesOf(e)}
            /\ \A k \in 1..Len(e) : Hangs(e, nearest, e[k])
            /\ Planted(DOMAIN table, e, Len(e))
<1> DEFINE T == DOMAIN table
           F == Frame(T)
           N == Len(table) + 1
           e == Emitted(children)
<1>1. Len(table) \in Nat /\ T = 1..Len(table)
  BY Entries
<1>2. N \in Nat
  BY <1>1
<1>3. PICK f : IsEmissionRun(table, R, nearest, children, f)
  BY EmissionRuns
<1> DEFINE s == f[N]
<1>4. IsEmission(T, R, nearest, N, s) /\ IsPlanted(T, s) /\ e = s.emitted
  BY <1>2, <1>3 DEF IsEmissionRun
<1> HIDE DEF e, s, N
<1>5. e \in Seq(F) /\ OnceEach(e) /\ s.stack \in Seq(F)
  BY <1>4 DEF IsEmission
<1>6. s.stack = << >>
  <2>1. SUFFICES ASSUME Len(e) = N PROVE FALSE
    BY <1>3, <1>4 DEF IsEmission
  <2> DEFINE node == [k \in 1..N |-> e[k].node]
  <2>2. \A k \in 1..N : e[k].node \in T
    <3>1. \A k \in 1..N : e[k] \in F
      BY <1>5, <2>1, ElementOfSeq
    <3> QED BY <3>1 DEF Frame
  <2>3. node \in [1..N -> T]
    BY <2>2
  <2>4. \A k, m \in 1..N : node[k] = node[m] => k = m
    BY <1>5, <2>1 DEF OnceEach
  <2>5. IsFiniteSet(1..N) /\ IsFiniteSet(T) /\ Cardinality(T) < Cardinality(1..N)
    <3>1. IsFiniteSet(1..N) /\ Cardinality(1..N) = N
      BY <1>2, FS_Interval
    <3>2. IsFiniteSet(T) /\ Cardinality(T) = Len(table)
      <4> DEFINE m == Len(table)
      <4>1. m \in Nat /\ T = 1..m
        BY <1>1
      <4> HIDE DEF m, T
      <4>2. IsFiniteSet(1..m) /\ Cardinality(1..m) = m
        BY <4>1, FS_Interval
      <4> QED BY <4>1, <4>2 DEF m
    <3>3. Len(table) < N
      BY <1>1 DEF N
    <3> HIDE DEF T
    <3> QED BY <3>1, <3>2, <3>3
  <2> HIDE DEF node, T
  <2>6. \E k, m \in 1..N : k # m /\ node[k] = node[m]
    BY <2>3, <2>5, FS_PigeonHole, Zenon
  <2> QED BY <2>4, <2>6
<1>7. NodesOf(s.stack) = {}
  BY <1>6 DEF NodesOf
<1>8. e \o s.stack = e
  BY <1>5, <1>6, ConcatEmptySeq
<1>9. Planted(T, e, Len(e))
  BY <1>3, <1>4, <1>8 DEF IsPlanted
<1> QED BY <1>3, <1>4, <1>5, <1>7, <1>9 DEF IsEmission, e

AllNearest(table, R, nearest) ==
  \A i \in DOMAIN table : IsNearest(table, R, i, nearest[i])
AllBelow(R, nearest, E) == E = {i \in R : nearest[i] \in {0} \cup E}

\* Nobody is left out: of those that would be, one has the fewest processes above it.
LEMMA EveryoneIsEmitted ==
  ASSUME NEW table, IsTable(table), NEW R \in SUBSET DOMAIN table, NEW nearest,
         AllNearest(table, R, nearest), NEW E, AllBelow(R, nearest, E)
  PROVE  E = R
<1> DEFINE T == DOMAIN table
           Bad == {i \in R : i \notin E}
           height(i) == Cardinality(Up(table)[i])
           Heights == {height(i) : i \in Bad}
<1>1. SUFFICES ASSUME Bad # {} PROVE FALSE
  BY DEF AllBelow
<1>2. \A i \in T : IsFiniteSet(Up(table)[i]) /\ height(i) \in Nat
  <2>1. IsFiniteSet(T)
    <3>1. T = 1..Len(table) /\ Len(table) \in Nat
      BY Entries
    <3> QED BY <3>1, FS_Interval
  <2>2. \A i \in T : Up(table)[i] \in SUBSET T
    BY UpIsLeast
  <2>3. \A i \in T : IsFiniteSet(Up(table)[i])
    <3> HIDE DEF T
    <3> QED BY <2>1, <2>2, FS_Subset
  <2> QED BY <2>3, FS_CardinalityType
<1>3. PICK i \in Bad : \A j \in Bad : height(i) <= height(j)
  <2> HIDE DEF height
  <2>1. Heights \subseteq Nat /\ Heights # {}
    BY <1>1, <1>2
  <2>2. PICK n \in Heights : \A m \in Heights : n <= m
    <3> HIDE DEF Heights
    <3> QED BY <2>1, NatMinimum
  <2> QED BY <2>2
<1> DEFINE n == nearest[i]
<1>4. n # 0 /\ n \notin E /\ i \in T
  BY <1>3 DEF AllBelow
<1>5. n \in Up(table)[i] /\ n \in R
  BY <1>4 DEF IsNearest, AllNearest
<1> HIDE DEF n
<1>6. n \in Bad /\ n \in T
  BY <1>4, <1>5
<1>7. Up(table)[n] \in SUBSET Up(table)[i] /\ n \notin Up(table)[n]
  BY <1>4, <1>5, <1>6, UpIsLeast, NoCycleIsLeft
<1>8. height(n) < height(i)
  <2>1. Up(table)[n] # Up(table)[i]
    BY <1>5, <1>7
  <2> QED BY <1>2, <1>4, <1>6, <1>7, <2>1, FS_Subset
<1> HIDE DEF height
<1> QED BY <1>2, <1>3, <1>4, <1>6, <1>8

\* A list on 1..n is a sequence.
LEMMA ListOnInterval ==
  ASSUME NEW n \in Nat, NEW list, DOMAIN list = 1..n, list = [k \in 1..n |-> list[k]]
  PROVE  Len(list) = n /\ (n = 0 => list = << >>)
<1> DEFINE V == {list[k] : k \in 1..n}
<1>1. list \in [1..n -> V]
  <2>1. \A k \in 1..n : list[k] \in V
    OBVIOUS
  <2> HIDE DEF V
  <2> QED BY <2>1
<1> HIDE DEF V
<1>2. list \in Seq(V)
  BY <1>1, SeqDef
<1>3. Len(list) \in Nat /\ 1..Len(list) = 1..n
  BY <1>2, LenProperties
<1>4. Len(list) = n
  <2>1. \A k : k \in 1..Len(list) <=> k \in 1..n
    BY <1>3
  <2> QED BY <1>3, <2>1
<1>5. n = 0 => list = << >>
  BY <1>2, <1>4, EmptySeq
<1> QED BY <1>4, <1>5

\* Every process of R has one row, under that of its nearest survivor.
ShowsEveryone(table, R, list) ==
  /\ DOMAIN list = 1..Len(list) /\ Len(list) = Cardinality(R)
  /\ list = [k \in 1..Len(list) |-> list[k]] /\ Len(list) \in Nat
  /\ R = {list[k].node : k \in 1..Len(list)}

HangsUnderNearest(table, R, list) ==
  \A k \in 1..Len(list) :
    LET survivors == Up(table)[list[k].node] \cap R
        parent    == list[k].parentRow
    IN IF survivors = {} THEN parent = 0
       ELSE /\ parent \in 1..Len(list)
            /\ list[parent].node \in survivors
            /\ survivors \subseteq {list[parent].node} \cup Up(table)[list[parent].node]

\* The rows that are emitted of a family, siblings in the order of the column.
EmitsRows(table, R, down, near, children, list) ==
  LET e == Emitted(children)
  IN /\ \A i \in DOMAIN table : IsNearest(table, R, i, near[i])
     /\ IsFamily(table, R, near, children)
     /\ \A p \in DOMAIN table \cup {0} : children[p] = Sorted(table, {i \in R : near[i] = p}, down)
     /\ list = [k \in DOMAIN e |-> Row(e[k], Descendants(e)[k])]

LEMMA TreeEmission ==
  ASSUME NEW table, IsTable(table), NEW R \in SUBSET DOMAIN table, NEW down
  PROVE  \E near, children :
           EmitsRows(table, R, down, near, children, TreeRows(table, R, down).list)
<1> DEFINE T == DOMAIN table
           near == Nearest(table, Broken(table).links, R)
           children == [p \in T \cup {0} |-> Sorted(table, {i \in R : near[i] = p}, down)]
           e == Emitted(children)
<1>1. TreeRows(table, R, down).list = [k \in DOMAIN e |-> Row(e[k], Descendants(e)[k])]
  BY DEF TreeRows
<1>2. near \in [T -> T \cup {0}] /\ \A i \in T : IsNearest(table, R, i, near[i])
  BY NearestIsNearest
<1>3. \A p \in T \cup {0} : children[p] = Sorted(table, {i \in R : near[i] = p}, down)
  OBVIOUS
<1> HIDE DEF near
<1>4. IsFamily(table, R, near, children)
  <2>1. \A p \in T \cup {0} : Lists(children[p], {i \in R : near[i] = p})
    <3>1. SUFFICES ASSUME NEW p \in T \cup {0} PROVE Lists(children[p], {i \in R : near[i] = p})
      OBVIOUS
    <3> DEFINE S == {i \in R : near[i] = p}
    <3>2. S \in SUBSET DOMAIN table
      OBVIOUS
    <3>3. children[p] = Sorted(table, S, down)
      OBVIOUS
    <3> HIDE DEF S
    <3>4. Lists(Sorted(table, S, down), S)
      BY <3>2, SortedLists
    <3> QED BY <3>3, <3>4 DEF S
  <2>2. DOMAIN children = T \cup {0}
    OBVIOUS
  <2> HIDE DEF children
  <2> QED BY <1>2, <2>1, <2>2 DEF IsFamily
<1> DEFINE list == TreeRows(table, R, down).list
<1> HIDE DEF children, near, list
<1>5. EmitsRows(table, R, down, near, children, list)
  BY <1>1, <1>2, <1>3, <1>4 DEF EmitsRows, list
<1>6. \E x, y : EmitsRows(table, R, down, x, y, list)
  BY <1>5
<1> QED BY <1>6 DEF list

LEMMA TreeShowsEveryone ==
  ASSUME NEW table, IsTable(table), NEW R \in SUBSET DOMAIN table, NEW down
  PROVE  /\ ShowsEveryone(table, R, TreeRows(table, R, down).list)
         /\ HangsUnderNearest(table, R, TreeRows(table, R, down).list)
<1> DEFINE T == DOMAIN table
           list == TreeRows(table, R, down).list
<1>1. PICK near, children : EmitsRows(table, R, down, near, children, list)
  BY TreeEmission
<1> DEFINE e == Emitted(children)
           total == Descendants(e)
<1>2. \A i \in T : IsNearest(table, R, i, near[i])
  BY <1>1 DEF EmitsRows
<1>3. IsFamily(table, R, near, children) /\ list = [k \in DOMAIN e |-> Row(e[k], total[k])]
  BY <1>1 DEF EmitsRows
<1>4. /\ e \in Seq(Frame(T)) /\ OnceEach(e)
      /\ NodesOf(e) = {i \in R : near[i] \in {0} \cup NodesOf(e)}
      /\ \A k \in 1..Len(e) : Hangs(e, near, e[k])
  BY <1>3, EmissionEnds
<1> HIDE DEF e, total, list
<1>5. NodesOf(e) = R
  <2>1. AllBelow(R, near, NodesOf(e)) /\ AllNearest(table, R, near)
    BY <1>2, <1>4 DEF AllBelow, AllNearest
  <2> QED BY <2>1, EveryoneIsEmitted
<1> DEFINE n == Len(e)
<1>6. n \in Nat /\ DOMAIN e = 1..n
  BY <1>4, LenProperties
<1>7. DOMAIN list = 1..n /\ list = [k \in 1..n |-> list[k]]
      /\ \A k \in 1..n : list[k].node = e[k].node /\ list[k].parentRow = e[k].parentRow
  BY <1>3, <1>6 DEF Row
<1> HIDE DEF n
<1>8. Len(list) = n
  BY <1>6, <1>7, ListOnInterval
<1>9. R = {list[k].node : k \in 1..n}
  BY <1>5, <1>7 DEF NodesOf, n
<1>10. n = Cardinality(R)
  <2> DEFINE node == [k \in 1..n |-> list[k].node]
  <2>1. \A k, m \in 1..n : node[k] = node[m] => k = m
    BY <1>4, <1>7 DEF OnceEach, n
  <2>2. R = {node[k] : k \in 1..n}
    BY <1>9
  <2> HIDE DEF node
  <2> QED BY <1>6, <2>1, <2>2, ValuesAreCounted
<1>11. ShowsEveryone(table, R, list)
  BY <1>6, <1>7, <1>8, <1>9, <1>10 DEF ShowsEveryone
<1>12. ASSUME NEW k \in 1..n
       PROVE  LET survivors == Up(table)[list[k].node] \cap R
                  parent    == list[k].parentRow
              IN IF survivors = {} THEN parent = 0
                 ELSE /\ parent \in 1..n
                      /\ list[parent].node \in survivors
                      /\ survivors \subseteq {list[parent].node} \cup Up(table)[list[parent].node]
  <2> DEFINE i == list[k].node
             parent == list[k].parentRow
  <2>1. i \in R /\ i \in T
    BY <1>9
  <2>2. Hangs(e, near, e[k])
    BY <1>4 DEF n
  <2>3. IsNearest(table, R, i, near[i])
    BY <1>2, <2>1
  <2>4. IF near[i] = 0 THEN parent = 0 ELSE parent \in 1..n /\ list[parent].node = near[i]
    BY <1>7, <2>2 DEF Hangs, n
  <2>5. 0 \notin R
    BY Entries
  <2> HIDE DEF i, parent
  <2>6. CASE Up(table)[i] \cap R = {}
    BY <2>3, <2>4, <2>6 DEF IsNearest, i, parent
  <2>7. CASE Up(table)[i] \cap R # {}
    <3>1. near[i] \in Up(table)[i] \cap R
          /\ Up(table)[i] \cap R \subseteq {near[i]} \cup Up(table)[near[i]]
      BY <2>3, <2>7 DEF IsNearest
    <3>2. near[i] # 0
      BY <2>5, <3>1
    <3> QED BY <2>4, <2>7, <3>1, <3>2 DEF i, parent
  <2> QED BY <2>6, <2>7
<1>13. HangsUnderNearest(table, R, list)
  BY <1>8, <1>12 DEF HangsUnderNearest
<1> QED BY <1>11, <1>13 DEF list

LEMMA ListShowsEveryone ==
  ASSUME NEW table, IsTable(table), NEW R \in SUBSET DOMAIN table, NEW down
  PROVE  ShowsEveryone(table, R, Build(table, R, down, FALSE).list)
<1> DEFINE order == Sorted(table, R, down)
           n == Len(order)
           list == Build(table, R, down, FALSE).list
<1>1. list = [k \in DOMAIN order |-> [node |-> order[k]]]
  BY DEF Build
<1>2. Lists(order, R)
  BY SortedLists
<1> HIDE DEF order, list
<1>3. n \in Nat /\ DOMAIN order = 1..n
  BY <1>2, LenProperties DEF Lists
<1>4. DOMAIN list = 1..n /\ list = [k \in 1..n |-> list[k]]
      /\ \A k \in 1..n : list[k].node = order[k]
  BY <1>1, <1>3
<1>5. R = {order[k] : k \in 1..n} /\ \A k, m \in 1..n : order[k] = order[m] => k = m
  BY <1>2 DEF Lists
<1> HIDE DEF n
<1>6. Len(list) = n
  BY <1>3, <1>4, ListOnInterval
<1>7. n = Cardinality(R)
  BY <1>3, <1>5, ValuesAreCounted
<1>8. R = {list[k].node : k \in 1..n}
  BY <1>4, <1>5
<1>9. ShowsEveryone(table, R, list)
  BY <1>3, <1>4, <1>6, <1>7, <1>8 DEF ShowsEveryone
<1> QED BY <1>9 DEF list

-----------------------------------------------------------------------------
(* Forests *)

\* Rows 1..n with parents p and depths d, each after its parent and with nothing but rows
\* below the parent in between.
IsForest(n, p, d) ==
  /\ n \in Nat /\ p \in [1..n -> Nat] /\ d \in [1..n -> Nat]
  /\ \A k \in 1..n :
       /\ p[k] < k
       /\ d[k] = IF p[k] = 0 THEN 0 ELSE d[p[k]] + 1
       /\ \A m \in p[k] + 1..k : p[m] >= p[k]

RowsUp(n, p) == Ancestors([k \in 1..n |-> {p[k]} \ {0}])

LEMMA RowUp ==
  ASSUME NEW n, NEW p, NEW d, IsForest(n, p, d), NEW k \in 1..n
  PROVE  /\ p[k] \in Nat /\ p[k] < k
         /\ p[k] = 0 => RowsUp(n, p)[k] = {} /\ d[k] = 0
         /\ p[k] # 0 => /\ p[k] \in 1..n
                        /\ RowsUp(n, p)[k] = {p[k]} \cup RowsUp(n, p)[p[k]]
                        /\ d[k] = d[p[k]] + 1
         /\ RowsUp(n, p)[k] \in SUBSET (1..(k - 1))
         /\ \A m \in p[k] + 1..k : p[m] >= p[k]
<1> DEFINE T == 1..n
           parents == [j \in T |-> {p[j]} \ {0}]
<1>1. n \in Nat /\ \A j \in T : /\ p[j] \in Nat /\ p[j] < j
                                /\ d[j] = IF p[j] = 0 THEN 0 ELSE d[p[j]] + 1
                                /\ \A m \in p[j] + 1..j : p[m] >= p[j]
  BY DEF IsForest
<1>2. \A j \in T : p[j] # 0 => p[j] \in T
  BY <1>1
<1>3. parents \in [T -> SUBSET T]
  BY <1>2
<1>4. RowsUp(n, p) = Ancestors(parents)
  BY DEF RowsUp
<1>5. p[k] = 0 => parents[k] = {}
  OBVIOUS
<1>6. p[k] # 0 => parents[k] = {p[k]}
  OBVIOUS
<1>7. RowsUp(n, p)[k] \subseteq 1..(k - 1)
  <2> DEFINE S == 1..(k - 1)
  <2>1. parents[k] \subseteq S
    BY <1>1
  <2>2. Upward(parents, S)
    <3>1. SUFFICES ASSUME NEW j \in S, p[j] # 0 PROVE p[j] \in S /\ j \in T
      BY <1>1 DEF Upward
    <3>2. j \in T
      BY <1>1
    <3> QED BY <1>1, <3>1, <3>2
  <2>3. S \in SUBSET T
    BY <1>1
  <2>4. k \in T
    OBVIOUS
  <2> HIDE DEF parents, S, T
  <2>5. Ancestors(parents)[k] \subseteq S
    BY <1>3, <2>1, <2>2, <2>3, <2>4, AncestorsAreLeast, Zenon
  <2> QED BY <1>4, <2>5 DEF S
<1> HIDE DEF parents
<1>8. /\ p[k] = 0 => RowsUp(n, p)[k] = {}
      /\ p[k] # 0 => p[k] \in T /\ RowsUp(n, p)[k] = {p[k]} \cup RowsUp(n, p)[p[k]]
  <2> DEFINE a == p[k]
  <2>1. k \in T
    OBVIOUS
  <2>2. (a = 0 => parents[k] = {}) /\ (a # 0 => parents[k] = {a})
    BY <1>5, <1>6
  <2> HIDE DEF T, a
  <2>3. /\ parents[k] = {} => Ancestors(parents)[k] = {}
        /\ \A b : parents[k] = {b} =>
             b \in T /\ Ancestors(parents)[k] = {b} \cup Ancestors(parents)[b]
    BY <1>3, <2>1, AncestorsOneUp, Zenon
  <2>4. /\ a = 0 => Ancestors(parents)[k] = {}
        /\ a # 0 => a \in T /\ Ancestors(parents)[k] = {a} \cup Ancestors(parents)[a]
    BY <2>2, <2>3
  <2> QED BY <1>4, <2>4 DEF a
<1> QED BY <1>1, <1>7, <1>8

LEMMA RowsUpNest ==
  ASSUME NEW n, NEW p, NEW d, IsForest(n, p, d), NEW k \in 1..n, NEW j \in RowsUp(n, p)[k]
  PROVE  /\ j \in 1..n /\ j < k /\ RowsUp(n, p)[j] \in SUBSET RowsUp(n, p)[k]
<1> DEFINE T == 1..n
           parents == [m \in T |-> {p[m]} \ {0}]
<1>1. \A m \in T : p[m] # 0 => p[m] \in T
  BY RowUp
<1>2. parents \in [T -> SUBSET T]
  BY <1>1
<1>3. RowsUp(n, p) = Ancestors(parents) /\ k \in T
  BY DEF RowsUp
<1>4. j \in T /\ j < k
  <2>1. j \in 1..(k - 1)
    BY RowUp
  <2>2. n \in Nat
    BY DEF IsForest
  <2> QED BY <2>1, <2>2
<1> HIDE DEF parents, T
<1>5. RowsUp(n, p)[j] \subseteq RowsUp(n, p)[k]
  BY <1>2, <1>3, AncestorsOfAncestors
<1> QED BY <1>4, <1>5 DEF T

\* A row is as deep as there are rows above it.
LEMMA DepthCountsRows ==
  ASSUME NEW n, NEW p, NEW d, IsForest(n, p, d), NEW k \in 1..n
  PROVE  IsFiniteSet(RowsUp(n, p)[k]) /\ d[k] = Cardinality(RowsUp(n, p)[k])
<1> DEFINE A(m) == RowsUp(n, p)[m]
           Bad == {m \in 1..n : d[m] # Cardinality(A(m))}
<1>1. \A m \in 1..n : IsFiniteSet(A(m))
  <2>1. SUFFICES ASSUME NEW m \in 1..n PROVE IsFiniteSet(A(m))
    OBVIOUS
  <2>2. A(m) \in SUBSET (1..(m - 1)) /\ m - 1 \in Int
    BY RowUp
  <2> HIDE DEF A
  <2>3. IsFiniteSet(1..(m - 1))
    BY <2>2, FS_Interval
  <2> QED BY <2>2, <2>3, FS_Subset
<1>2. SUFFICES ASSUME Bad # {} PROVE FALSE
  BY <1>1
<1>3. PICK m \in Bad : \A j \in Bad : m <= j
  <2>1. Bad \subseteq Nat
    OBVIOUS
  <2> HIDE DEF Bad
  <2> QED BY <1>2, <2>1, NatMinimum
<1>4. CASE p[m] = 0
  <2>1. A(m) = {} /\ d[m] = 0
    BY <1>4, RowUp
  <2> QED BY <2>1, FS_EmptySet
<1>5. CASE p[m] # 0
  <2> DEFINE a == p[m]
  <2>1. a \in 1..n /\ a < m /\ A(m) = {a} \cup A(a) /\ d[m] = d[a] + 1
    BY <1>5, RowUp
  <2> HIDE DEF a, A
  <2>2. a \notin Bad
    BY <1>3, <2>1
  <2>3. d[a] = Cardinality(A(a))
    BY <2>1, <2>2
  <2>4. a \notin A(a)
    <3>1. a \in A(a) => a < a
      BY <2>1, RowsUpNest DEF A
    <3> QED BY <2>1, <3>1
  <2>5. Cardinality(A(a) \cup {a}) = Cardinality(A(a)) + 1
    BY <1>1, <2>1, <2>4, FS_AddElement
  <2>6. A(m) = A(a) \cup {a}
    BY <2>1
  <2> QED BY <2>1, <2>3, <2>5, <2>6
<1> QED BY <1>4, <1>5

\* What is below a row follows it, as far as rows are deeper.
LEMMA BelowIsDeeper ==
  ASSUME NEW n, NEW p, NEW d, IsForest(n, p, d), NEW k \in 1..n, NEW m \in 1..n
  PROVE  k \in RowsUp(n, p)[m] <=> k < m /\ \A j \in k + 1..m : d[j] > d[k]
<1> DEFINE A(j) == RowsUp(n, p)[j]
           Block == {i \in 1..n : k < i /\ \A j \in k + 1..i : p[j] >= k}
<1>1. n \in Nat /\ \A j \in 1..n : p[j] \in Nat /\ p[j] < j /\ d[j] \in Nat
  BY DEF IsForest
<1>2. ASSUME NEW i \in Block PROVE k \in A(i)
  <2> DEFINE Bad == {j \in Block : k \notin A(j)}
  <2>1. SUFFICES ASSUME Bad # {} PROVE FALSE
    OBVIOUS
  <2>2. PICK j \in Bad : \A b \in Bad : j <= b
    <3>1. Bad \subseteq Nat
      OBVIOUS
    <3> HIDE DEF Bad
    <3> QED BY <2>1, <3>1, NatMinimum
  <2>3. j \in 1..n /\ k < j /\ j \in k + 1..j /\ p[j] >= k /\ k \notin A(j)
    BY <1>1
  <2>4. p[j] # 0 /\ p[j] < j
    BY <1>1, <2>3
  <2>5. p[j] \in 1..n /\ A(j) = {p[j]} \cup A(p[j])
    BY <2>3, <2>4, RowUp
  <2>6. p[j] > k
    BY <1>1, <2>3, <2>5
  <2>7. p[j] \in Block
    <3>1. \A b \in k + 1..p[j] : b \in k + 1..j
      BY <1>1, <2>3, <2>4
    <3> QED BY <2>5, <2>6, <3>1
  <2>8. p[j] \notin Bad
    BY <1>1, <2>2, <2>3, <2>4
  <2>9. k \in A(p[j])
    BY <2>7, <2>8
  <2> QED BY <2>3, <2>5, <2>9
<1>3. ASSUME NEW i \in 1..n, k \in A(i) PROVE i \in Block
  <2> DEFINE Bad == {j \in 1..n : k \in A(j) /\ j \notin Block}
  <2>1. SUFFICES ASSUME Bad # {} PROVE FALSE
    BY <1>3
  <2>2. PICK j \in Bad : \A b \in Bad : j <= b
    <3>1. Bad \subseteq Nat
      OBVIOUS
    <3> HIDE DEF Bad
    <3> QED BY <2>1, <3>1, NatMinimum
  <2>3. j \in 1..n /\ k \in A(j) /\ j \notin Block
    OBVIOUS
  <2> DEFINE a == p[j]
  <2>4. /\ a # 0 /\ a \in 1..n /\ a < j /\ A(j) = {a} \cup A(a) /\ a \in Nat
        /\ \A b \in a + 1..j : p[b] >= a
    BY <2>3, RowUp
  <2> HIDE DEF a, A, Block
  <2>5. k = a \/ a \in Block
    <3>1. k = a \/ k \in A(a)
      BY <2>3, <2>4
    <3>2. a \notin Bad
      BY <2>2, <2>3, <2>4
    <3> QED BY <2>4, <3>1, <3>2
  <2>6. k <= a /\ \A b \in k + 1..a : p[b] >= k
    <3>1. CASE k = a
      BY <2>4, <3>1
    <3>2. CASE a \in Block
      BY <2>4, <3>2 DEF Block
    <3> QED BY <2>5, <3>1, <3>2
  <2>7. ASSUME NEW b \in k + 1..j PROVE p[b] >= k
    <3>1. b \in k + 1..a \/ b \in a + 1..j
      BY <2>4, <2>3
    <3>2. b \in 1..n
      BY <1>1, <2>3
    <3> QED BY <1>1, <2>4, <2>6, <3>1, <3>2
  <2>8. k < j
    BY <2>3, <2>4, <2>6
  <2> QED BY <2>3, <2>7, <2>8 DEF Block
<1>4. ASSUME NEW i \in 1..n, NEW j \in A(i) PROVE d[j] < d[i]
  <2> DEFINE U == A(i)
             V == A(j)
  <2>1. j \in 1..n /\ V \in SUBSET U
    BY <1>4, RowsUpNest
  <2>2. j \notin V
    <3>1. j \in A(j) => j < j
      BY <2>1, RowsUpNest
    <3> QED BY <2>1, <3>1
  <2>3. IsFiniteSet(U) /\ d[i] = Cardinality(U) /\ d[j] = Cardinality(V)
    BY <2>1, DepthCountsRows
  <2>4. V # U
    BY <1>4, <2>2
  <2>5. d[i] \in Nat /\ d[j] \in Nat
    BY <1>1, <2>1
  <2> HIDE DEF U, V
  <2>6. Cardinality(V) <= Cardinality(U) /\ Cardinality(U) # Cardinality(V)
    BY <2>1, <2>3, <2>4, FS_Subset
  <2> QED BY <2>3, <2>5, <2>6
<1>5. ASSUME k \in A(m) PROVE k < m /\ \A j \in k + 1..m : d[j] > d[k]
  <2>1. m \in Block
    BY <1>3, <1>5
  <2>2. ASSUME NEW j \in k + 1..m PROVE d[j] > d[k]
    <3>1. j \in Block
      <4>1. j \in 1..n /\ k < j
        BY <1>1
      <4>2. \A b \in k + 1..j : b \in k + 1..m
        BY <1>1
      <4> QED BY <2>1, <4>1, <4>2
    <3>2. k \in A(j) /\ j \in 1..n
      BY <1>2, <3>1
    <3> HIDE DEF A
    <3>3. d[k] < d[j]
      BY <1>4, <3>2
    <3> QED BY <1>1, <3>2, <3>3
  <2> QED BY <2>1, <2>2
<1>6. ASSUME k < m, \A j \in k + 1..m : d[j] > d[k] PROVE k \in A(m)
  <2>1. ASSUME NEW j \in k + 1..m, p[j] < k PROVE FALSE
    <3>1. j \in 1..n /\ d[j] > d[k] /\ p[j] \in Nat /\ k < j
      BY <1>1, <1>6
    <3>2. CASE p[j] = 0
      <4>1. d[j] = 0
        BY <3>1, <3>2, RowUp
      <4> QED BY <1>1, <3>1, <4>1
    <3>3. CASE p[j] # 0
      <4> DEFINE a == p[j]
      <4>1. a \in 1..n /\ d[j] = d[a] + 1 /\ \A b \in a + 1..j : p[b] >= a
        BY <3>1, <3>3, RowUp
      <4>2. \A b \in a + 1..k : b \in a + 1..j /\ a < k
        BY <2>1, <3>1, <4>1
      <4>3. a < k
        BY <2>1
      <4> DEFINE Block2 == {i \in 1..n : a < i /\ \A b \in a + 1..i : p[b] >= a}
      <4> HIDE DEF a
      <4>4. \A b \in a + 1..k : p[b] >= a
        BY <4>1, <4>2
      <4>5. a \in A(k)
        <5> DEFINE Bad == {i \in 1..n : i <= k /\ a < i /\ a \notin A(i)}
        <5>1. SUFFICES ASSUME Bad # {} PROVE FALSE
          BY <4>3
        <5>2. PICK i \in Bad : \A b \in Bad : i <= b
          <6>1. Bad \subseteq Nat
            OBVIOUS
          <6> HIDE DEF Bad
          <6> QED BY <5>1, <6>1, NatMinimum
        <5>3. i \in 1..n /\ i <= k /\ a < i /\ a \notin A(i)
          OBVIOUS
        <5>4. i \in a + 1..k
          BY <4>1, <5>3
        <5>5. p[i] >= a /\ p[i] \in Nat /\ p[i] < i
          BY <1>1, <4>4, <5>3, <5>4
        <5>6. p[i] # 0
          BY <4>1, <5>5
        <5>7. p[i] \in 1..n /\ A(i) = {p[i]} \cup A(p[i])
          BY <5>3, <5>6, RowUp
        <5>8. p[i] # a /\ a \notin A(p[i])
          BY <5>3, <5>7
        <5>9. p[i] \in Bad
          BY <4>1, <5>3, <5>5, <5>7, <5>8
        <5> QED BY <5>2, <5>3, <5>5, <5>9
      <4>6. d[a] < d[k]
        BY <1>4, <4>5
      <4> QED BY <1>1, <3>1, <4>1, <4>6
    <3> QED BY <3>2, <3>3
  <2>2. m \in Block
    <3>1. \A j \in k + 1..m : p[j] >= k
      <4>1. SUFFICES ASSUME NEW j \in k + 1..m PROVE p[j] >= k
        OBVIOUS
      <4>2. j \in 1..n /\ p[j] \in Nat
        BY <1>1
      <4> QED BY <2>1, <4>2
    <3> QED BY <1>6, <3>1
  <2> QED BY <1>2, <2>2
<1> QED BY <1>5, <1>6

\* The rows of an emission are a forest, and the last of their siblings are the last.
LEMMA PlantedIsForest ==
  ASSUME NEW T, NEW e, Planted(T, e, Len(e))
  PROVE  /\ IsForest(Len(e), [k \in 1..Len(e) |-> e[k].parentRow], [k \in 1..Len(e) |-> e[k].depth])
         /\ \A k \in 1..Len(e) :
              e[k].isLast <=> \A m \in k + 1..Len(e) : e[m].parentRow # e[k].parentRow
<1> DEFINE n == Len(e)
           p == [k \in 1..n |-> e[k].parentRow]
           d == [k \in 1..n |-> e[k].depth]
<1>1. n \in Nat /\ \A k \in 1..n : e[k] \in Frame(T)
  BY LenProperties, ElementOfSeq DEF Planted
<1>2. p \in [1..n -> Nat] /\ d \in [1..n -> Nat]
  BY <1>1 DEF Frame
<1>3. \A k \in 1..n :
       /\ e[k].parentRow < k
       /\ e[k].depth = IF e[k].parentRow = 0 THEN 0 ELSE e[e[k].parentRow].depth + 1
       /\ \A m \in e[k].parentRow + 1..k : e[m].parentRow >= e[k].parentRow
       /\ e[k].isLast <=> \A m \in k + 1..n : e[m].parentRow # e[k].parentRow
  BY DEF Planted
<1> HIDE DEF n
<1>4. ASSUME NEW k \in 1..n
      PROVE  /\ p[k] < k
             /\ d[k] = IF p[k] = 0 THEN 0 ELSE d[p[k]] + 1
             /\ \A m \in p[k] + 1..k : p[m] >= p[k]
  <2>1. p[k] = e[k].parentRow /\ d[k] = e[k].depth /\ p[k] \in Nat
    BY <1>2
  <2>2. p[k] # 0 => p[k] \in 1..n /\ d[p[k]] = e[p[k]].depth
    BY <1>1, <1>3, <2>1
  <2>3. \A m \in p[k] + 1..k : m \in 1..n /\ p[m] = e[m].parentRow
    BY <1>1, <2>1
  <2> HIDE DEF p, d
  <2> QED BY <1>3, <2>1, <2>2, <2>3
<1>5. IsForest(n, p, d)
  <2> HIDE DEF p, d
  <2> QED BY <1>1, <1>2, <1>4 DEF IsForest
<1> QED BY <1>3, <1>5 DEF n

-----------------------------------------------------------------------------
(* A row's descendants are the deeper rows below it *)

Block == [depth : Nat, size : Nat]

\* s rows follow row k, before one that is not deeper.
IsExtent(n, d, k, s) ==
  /\ s \in Nat /\ k + s <= n
  /\ \A m \in k + 1..k + s : d[m] > d[k]
  /\ k + s < n => d[k + s + 1] <= d[k]

\* The stack of fill_descendants before row k - 1: blocks of rows, the last ones at the
\* bottom and row k on top, each of a row and the deeper ones below it.
IsStack(n, d, k, at, P) ==
  /\ P \in Seq(Block)
  /\ at[0] = n + 1 /\ at[Len(P)] = k
  /\ \A i \in 1..Len(P) :
       /\ at[i] \in 1..n /\ at[i - 1] \in 1..n + 1 /\ at[i] < at[i - 1]
       /\ P[i].size = at[i - 1] - at[i] /\ P[i].depth = d[at[i]]
       /\ \A m \in at[i] + 1..at[i - 1] - 1 : d[m] > d[at[i]]

\* What row k has taken from the stack P after j rounds.
IsTaken(d, k, at, P, row, j, s) ==
  /\ s \in [total : Nat, pending : Seq(Block)]
  /\ Len(s.pending) <= Len(P)
  /\ \A i \in 1..Len(s.pending) : s.pending[i] = P[i]
  /\ s.total = at[Len(s.pending)] - (k + 1)
  /\ \A m \in k + 1..at[Len(s.pending)] - 1 : d[m] > d[k]
  /\ \/ Len(s.pending) = Len(P) - j
     \/ Len(s.pending) = 0
     \/ ~Inside(s.pending[Len(s.pending)].depth, row)

LEMMA FrontOfStack ==
  ASSUME NEW s \in Seq(Block), s # << >>
  PROVE  /\ Front(s) \in Seq(Block) /\ Len(Front(s)) = Len(s) - 1
         /\ \A i \in 1..Len(s) - 1 : Front(s)[i] = s[i]
         /\ Len(s) \in Nat \ {0} /\ s[Len(s)] \in Block
<1> DEFINE n == Len(s)
<1>1. n \in Nat \ {0} /\ \A i \in 1..n : s[i] \in Block
  BY EmptySeq, ElementOfSeq
<1>2. Front(s) = SubSeq(s, 1, n - 1)
  BY DEF Front
<1> HIDE DEF n
<1>3. 1 \in Int /\ n - 1 \in Int /\ n \in Nat /\ n >= 1
  BY <1>1
<1>4. \A i \in 1..(n - 1) : s[i] \in Block
  BY <1>1
<1>5. /\ SubSeq(s, 1, n - 1) \in Seq(Block)
      /\ Len(SubSeq(s, 1, n - 1)) = IF 1 <= n - 1 THEN (n - 1) - 1 + 1 ELSE 0
      /\ \A i \in 1..((n - 1) - 1 + 1) : SubSeq(s, 1, n - 1)[i] = s[1 + i - 1]
  BY <1>3, <1>4, SubSeqProperties
<1>6. Len(Front(s)) = n - 1
  BY <1>2, <1>3, <1>5
<1>7. ASSUME NEW i \in 1..(n - 1) PROVE Front(s)[i] = s[i]
  <2>1. i \in 1..((n - 1) - 1 + 1) /\ 1 + i - 1 = i
    BY <1>3
  <2> QED BY <1>2, <1>5, <2>1
<1>8. s[n] \in Block
  BY <1>1, <1>3
<1> QED BY <1>1, <1>2, <1>5, <1>6, <1>7, <1>8 DEF n

LEMMA NextTaken ==
  ASSUME NEW n \in Nat, NEW d \in [1..n -> Nat], NEW at, NEW P, NEW k \in 1..n,
         IsStack(n, d, k + 1, at, P), NEW row, row.depth = d[k],
         NEW j \in 0..(Len(P) - 1), NEW s, IsTaken(d, k, at, P, row, j, s)
  PROVE  IsTaken(d, k, at, P, row, j + 1, Take(row, s))
<1> DEFINE q == Len(s.pending)
           L == Len(P)
           t == Take(row, s)
<1>1. s.pending \in Seq(Block) /\ s.total \in Nat /\ P \in Seq(Block)
  BY DEF IsTaken, IsStack
<1>2. q \in Nat /\ L \in Nat /\ (s.pending = << >> => q = 0) /\ (q # 0 => s.pending # << >>)
  BY <1>1, LenProperties, EmptySeq
<1>3. /\ q <= L /\ (\A i \in 1..q : s.pending[i] = P[i]) /\ s.total = at[q] - (k + 1)
      /\ \A m \in k + 1..at[q] - 1 : d[m] > d[k]
      /\ q = L - j \/ q = 0 \/ ~Inside(s.pending[q].depth, row)
  BY DEF IsTaken
<1>4. CASE q = 0 \/ ~Inside(s.pending[q].depth, row)
  <2>1. s.pending = << >> \/ ~Inside(Last(s.pending).depth, row)
    BY <1>1, <1>4, EmptySeq DEF Last
  <2>2. t = s
    BY <2>1 DEF Take
  <2> QED BY <1>4, <2>2 DEF IsTaken
<1>5. CASE q # 0 /\ Inside(s.pending[q].depth, row)
  <2>1. s.pending # << >> /\ Last(s.pending) = s.pending[q]
    BY <1>2, <1>5 DEF Last
  <2>2. t = [total |-> s.total + s.pending[q].size, pending |-> Front(s.pending)]
    BY <1>5, <2>1 DEF Take
  <2> DEFINE f == Front(s.pending)
  <2>3. /\ f \in Seq(Block) /\ Len(f) = q - 1 /\ \A i \in 1..(q - 1) : f[i] = s.pending[i]
    BY <1>1, <2>1, FrontOfStack
  <2>4. s.pending[q] \in Block
    BY <1>1, <2>1, FrontOfStack
  <2> HIDE DEF f, q, L, t
  <2>5. q \in 1..L /\ q \in 1..q /\ s.pending[q] = P[q]
    BY <1>2, <1>3, <1>5
  <2>6. /\ at[q] \in 1..n /\ at[q - 1] \in 1..(n + 1) /\ at[q] < at[q - 1]
        /\ P[q].size = at[q - 1] - at[q] /\ P[q].depth = d[at[q]]
        /\ \A m \in at[q] + 1..at[q - 1] - 1 : d[m] > d[at[q]]
    BY <2>5 DEF IsStack, L
  <2>7. d[at[q]] > d[k]
    BY <1>5, <2>5, <2>6 DEF Inside
  <2> DEFINE a == at[q]
             b == at[q - 1]
             size == P[q].size
  <2>8. a \in Nat /\ b \in Nat /\ a < b /\ size = b - a /\ d[a] > d[k] /\ b <= n + 1
        /\ (\A m \in a + 1..b - 1 : d[m] > d[a]) /\ s.total = a - (k + 1)
        /\ \A m \in k + 1..a - 1 : d[m] > d[k]
    <3>1. a \in 1..n /\ b \in 1..(n + 1) /\ a < b /\ size = b - a /\ d[a] > d[k]
      BY <2>6, <2>7
    <3>2. \A m \in a + 1..b - 1 : d[m] > d[a]
      BY <2>6
    <3>3. s.total = a - (k + 1) /\ \A m \in k + 1..a - 1 : d[m] > d[k]
      BY <1>3
    <3> HIDE DEF a, b, size
    <3> QED BY <3>1, <3>2, <3>3
  <2>9. t.total = s.total + size /\ t.pending = f
        /\ t = [total |-> s.total + size, pending |-> f]
    BY <2>2, <2>5 DEF f
  <2> HIDE DEF a, b, size
  <2>10. s.total + size = b - (k + 1) /\ s.total + size \in Nat
    BY <1>1, <2>8
  <2>11. ASSUME NEW m \in k + 1..b - 1 PROVE d[m] > d[k]
    <3>1. CASE m < a
      BY <2>8, <3>1
    <3>2. CASE m = a
      BY <2>8, <3>2
    <3>3. CASE m > a
      <4>1. m \in a + 1..b - 1 /\ m \in 1..n /\ a \in 1..n
        <5>1. a \in 1..n
          BY <2>6 DEF a
        <5>2. b \in Nat /\ b <= n + 1
          BY <2>8
        <5> QED BY <3>3, <5>1, <5>2
      <4>2. d[m] > d[a] /\ d[m] \in Nat /\ d[a] \in Nat /\ d[k] \in Nat
        <5>1. d[m] > d[a]
          BY <2>8, <4>1
        <5> QED BY <4>1, <5>1
      <4>3. d[a] > d[k]
        BY <2>8
      <4> HIDE <2>8
      <4> QED BY <4>2, <4>3
    <3> QED BY <2>8, <3>1, <3>2, <3>3
  <2>12. \A i \in 1..(q - 1) : f[i] = P[i]
    <3>1. \A i \in 1..(q - 1) : i \in 1..q
      BY <1>2 DEF q
    <3> QED BY <1>3, <2>3, <3>1 DEF q
  <2>13. q - 1 <= L
    BY <1>2, <1>3 DEF q, L
  <2>14. q - 1 = L - (j + 1)
    BY <1>2, <1>3, <1>5 DEF q, L
  <2>15. t \in [total : Nat, pending : Seq(Block)]
    BY <2>3, <2>9, <2>10
  <2> QED BY <2>3, <2>9, <2>10, <2>11, <2>12, <2>13, <2>14, <2>15 DEF IsTaken, t, b, L
<1> QED BY <1>4, <1>5

\* The row takes all the deeper rows right below it, and becomes the top of the stack.
IsFilled(n, d, r, s) ==
  /\ s \in [totals : Seq(Nat), pending : Seq(Block)]
  /\ Len(s.totals) = r
  /\ \A j \in 1..r : IsExtent(n, d, n - r + j, s.totals[j])
  /\ \E at : IsStack(n, d, n + 1 - r, at, s.pending)

\* The outcome t of row k: all it can take from P.
TakesAll(d, k, at, P, row, totals, t) ==
  \E all : /\ IsTaken(d, k, at, P, row, Len(P), all)
           /\ t = [totals  |-> <<all.total>> \o totals,
                   pending |-> Append(all.pending, [depth |-> row.depth, size |-> all.total + 1])]

LEMMA AllTaken ==
  ASSUME NEW n \in Nat, NEW d \in [1..n -> Nat], NEW at, NEW P, NEW k \in 1..n,
         IsStack(n, d, k + 1, at, P), NEW row, row.depth = d[k], NEW totals
  PROVE  TakesAll(d, k, at, P, row, totals, Fill(row, [totals |-> totals, pending |-> P]))
<1> DEFINE L == Len(P)
           States == [total : Nat, pending : Seq(Block)]
           first == [total |-> 0, pending |-> P]
           place == [i \in Nat |-> {s \in States : IsTaken(d, k, at, P, row, i, s)}]
           round == [is \in Nat \X States |-> Take(row, is[2])]
           Solves(f) == f = [i \in 0..L |-> IF i = 0 THEN first ELSE Take(row, f[i - 1])]
           taken == CHOOSE f : Solves(f)
           all == taken[L]
<1>1. L \in Nat /\ P \in Seq(Block) /\ at[L] = k + 1
  BY LenProperties DEF IsStack
<1>2. Fill(row, [totals |-> totals, pending |-> P]) =
        [totals  |-> <<all.total>> \o totals,
         pending |-> Append(all.pending, [depth |-> row.depth, size |-> all.total + 1])]
  BY DEF Fill
<1>3. \A i \in Nat : \A s : IsTaken(d, k, at, P, row, i, s) <=> s \in place[i]
  BY DEF IsTaken
<1>4. first \in place[0]
  <2>1. \A m \in k + 1..(k + 1) - 1 : d[m] > d[k]
    OBVIOUS
  <2>2. IsTaken(d, k, at, P, row, 0, first)
    <3>1. first.pending = P /\ first.total = 0 /\ first \in States
      BY <1>1
    <3> HIDE DEF first
    <3> QED BY <1>1, <2>1, <3>1 DEF IsTaken
  <2> HIDE DEF first, place
  <2> QED BY <1>3, <2>2
<1>5. \A i \in 0..(L - 1) : \A s \in place[i] : Take(row, s) \in place[i + 1]
  <2>1. SUFFICES ASSUME NEW i \in 0..(L - 1), NEW s \in place[i] PROVE Take(row, s) \in place[i + 1]
    OBVIOUS
  <2>2. i \in Nat /\ i + 1 \in Nat
    OBVIOUS
  <2> HIDE DEF place
  <2>3. IsTaken(d, k, at, P, row, i, s)
    BY <1>3, <2>2
  <2>4. IsTaken(d, k, at, P, row, i + 1, Take(row, s))
    BY <2>3, NextTaken
  <2> QED BY <1>3, <2>2, <2>4
<1>6. \A i \in 0..(L - 1) : \A s \in place[i] : round[<<i, s>>] = Take(row, s)
  <2>1. SUFFICES ASSUME NEW i \in 0..(L - 1), NEW s \in place[i] PROVE round[<<i, s>>] = Take(row, s)
    OBVIOUS
  <2>2. i \in Nat
    OBVIOUS
  <2>3. s \in States
    BY <2>2
  <2> HIDE DEF States, place
  <2> QED BY <2>2, <2>3
<1> HIDE DEF round, place, first, L
<1>7. PICK f : IsRounds(f, L, first, round) /\ \A i \in 0..L : f[i] \in place[i]
  <2>1. \A i \in 0..(L - 1) : \A s \in place[i] : round[<<i, s>>] \in place[i + 1]
    BY <1>5, <1>6
  <2> QED BY <1>1, <1>4, <2>1, Rounds, Zenon
<1>8. Solves(f)
  <2>1. ASSUME NEW i \in 0..L, i # 0 PROVE round[<<i - 1, f[i - 1]>>] = Take(row, f[i - 1])
    <3>1. i - 1 \in 0..(L - 1) /\ i - 1 \in 0..L
      BY <1>1, <2>1
    <3> QED BY <1>6, <1>7, <3>1
  <2> QED BY <1>7, <2>1 DEF IsRounds
<1>9. Solves(taken)
  BY <1>8
<1> HIDE DEF taken
<1>10. \A i \in 0..L : taken[i] \in place[i]
  <2>1. taken[0] \in place[0]
    BY <1>1, <1>4, <1>9
  <2>2. ASSUME NEW i \in 0..(L - 1), taken[i] \in place[i] PROVE taken[i + 1] \in place[i + 1]
    <3>1. i + 1 \in 0..L /\ i + 1 # 0 /\ (i + 1) - 1 = i
      BY <1>1
    <3>2. taken[i + 1] = Take(row, taken[(i + 1) - 1])
      BY <1>9, <3>1
    <3> QED BY <1>5, <2>2, <3>1, <3>2
  <2> QED BY <1>1, <2>1, <2>2, Stays
<1>11. IsTaken(d, k, at, P, row, L, all)
  <2>1. L \in 0..L
    BY <1>1
  <2> QED BY <1>1, <1>3, <1>10, <2>1
<1> QED BY <1>2, <1>11 DEF TakesAll, L

LEMMA NextFilled ==
  ASSUME NEW n \in Nat, NEW d \in [1..n -> Nat], NEW r \in 0..(n - 1),
         NEW row, row.depth = d[n - r], NEW s, IsFilled(n, d, r, s)
  PROVE  IsFilled(n, d, r + 1, Fill(row, s))
<1> DEFINE k == n - r
           P == s.pending
           L == Len(P)
<1>1. /\ s \in [totals : Seq(Nat), pending : Seq(Block)] /\ Len(s.totals) = r
      /\ \A j \in 1..r : IsExtent(n, d, k + j, s.totals[j])
  BY DEF IsFilled
<1>2. k \in 1..n /\ k + 1 = n + 1 - r /\ r \in Nat
  OBVIOUS
<1>3. PICK at : IsStack(n, d, k + 1, at, P)
  BY <1>2 DEF IsFilled
<1>4. s = [totals |-> s.totals, pending |-> P]
  BY <1>1
<1> HIDE DEF k
<1>5. row.depth = d[k]
  BY DEF k
<1> HIDE DEF P
<1>6. PICK all : /\ IsTaken(d, k, at, P, row, L, all)
                 /\ Fill(row, s) =
                      [totals  |-> <<all.total>> \o s.totals,
                       pending |-> Append(all.pending,
                                          [depth |-> row.depth, size |-> all.total + 1])]
  <2> DEFINE totals == s.totals
             filled == Fill(row, [totals |-> totals, pending |-> P])
  <2>1. filled = Fill(row, s)
    BY <1>4
  <2> HIDE DEF totals
  <2>2. TakesAll(d, k, at, P, row, totals, filled)
    BY <1>2, <1>3, <1>5, AllTaken
  <2> HIDE DEF filled
  <2> QED BY <2>1, <2>2 DEF TakesAll, totals
<1> DEFINE q == Len(all.pending)
           new == [depth |-> row.depth, size |-> all.total + 1]
           totals == <<all.total>> \o s.totals
           pending == Append(all.pending, new)
           t == Fill(row, s)
<1>7. t = [totals |-> totals, pending |-> pending]
  BY <1>6
<1>8. /\ all.total \in Nat /\ all.pending \in Seq(Block)
      /\ q <= L /\ (\A i \in 1..q : all.pending[i] = P[i])
      /\ all.total = at[q] - (k + 1)
      /\ (\A m \in k + 1..at[q] - 1 : d[m] > d[k])
      /\ (q = 0 \/ ~Inside(all.pending[q].depth, row))
  <2>1. P \in Seq(Block)
    BY <1>3 DEF IsStack
  <2>2. L - L = 0
    BY <2>1, LenProperties
  <2> QED BY <1>6, <2>2 DEF IsTaken
<1>9. q \in Nat /\ L \in Nat /\ P \in Seq(Block)
  BY <1>3, <1>8, LenProperties DEF IsStack
<1>10. new \in Block /\ new.size = all.total + 1 /\ new.depth = d[k]
  BY <1>2, <1>5, <1>8 DEF Block
<1> HIDE DEF new
<1>11. /\ pending \in Seq(Block) /\ Len(pending) = q + 1
       /\ (\A i \in 1..q : pending[i] = P[i]) /\ pending[q + 1] = new
  <2>1. all.pending \in Seq(Block) /\ new \in Block
    BY <1>8, <1>10
  <2>2. /\ pending \in Seq(Block) /\ Len(pending) = q + 1
        /\ (\A i \in 1..q : pending[i] = all.pending[i]) /\ pending[q + 1] = new
    BY <2>1, AppendProperties
  <2> QED BY <1>8, <2>2
<1>12. /\ totals \in Seq(Nat) /\ Len(totals) = r + 1 /\ totals[1] = all.total
       /\ \A j \in 1..r : totals[j + 1] = s.totals[j]
  <2> DEFINE one == <<all.total>>
             rest == s.totals
  <2>1. one \in Seq(Nat) /\ Len(one) = 1 /\ one[1] = all.total
    BY <1>8
  <2>2. rest \in Seq(Nat) /\ Len(rest) = r
    BY <1>1
  <2> HIDE DEF one, rest
  <2>3. /\ one \o rest \in Seq(Nat) /\ Len(one \o rest) = 1 + r
        /\ \A i \in 1..(1 + r) : (one \o rest)[i] = IF i <= 1 THEN one[i] ELSE rest[i - 1]
    <3>1. /\ one \o rest \in Seq(Nat) /\ Len(one \o rest) = Len(one) + Len(rest)
          /\ \A i \in 1..Len(one) + Len(rest) :
               (one \o rest)[i] = IF i <= Len(one) THEN one[i] ELSE rest[i - Len(one)]
      BY <2>1, <2>2, ConcatProperties
    <3> QED BY <2>1, <2>2, <3>1
  <2>4. (one \o rest)[1] = all.total
    <3>1. 1 \in 1..(1 + r) /\ 1 <= 1
      BY <1>2
    <3> QED BY <2>1, <2>3, <3>1
  <2>5. ASSUME NEW j \in 1..r PROVE (one \o rest)[j + 1] = rest[j]
    <3>1. j + 1 \in 1..(1 + r) /\ ~(j + 1 <= 1) /\ (j + 1) - 1 = j
      BY <1>2
    <3>2. (one \o rest)[j + 1] = IF j + 1 <= 1 THEN one[j + 1] ELSE rest[(j + 1) - 1]
      BY <2>3, <3>1
    <3>3. (one \o rest)[j + 1] = rest[(j + 1) - 1]
      BY <3>1, <3>2
    <3> QED BY <3>1, <3>3
  <2>6. totals = one \o rest
    BY DEF one, rest
  <2>7. \A j \in 1..r : s.totals[j] = rest[j]
    BY DEF rest
  <2> HIDE DEF totals
  <2>8. Len(totals) = r + 1 /\ totals \in Seq(Nat)
    <3>1. Len(totals) = 1 + r /\ totals \in Seq(Nat) /\ r \in Nat
      BY <1>2, <2>3, <2>6
    <3> QED BY <3>1
  <2> QED BY <2>4, <2>5, <2>6, <2>7, <2>8
<1> HIDE DEF totals, pending, t
<1>13. /\ at[0] = n + 1 /\ at[L] = k + 1
       /\ \A i \in 1..L :
            /\ at[i] \in 1..n /\ at[i - 1] \in 1..n + 1 /\ at[i] < at[i - 1]
            /\ P[i].size = at[i - 1] - at[i] /\ P[i].depth = d[at[i]]
            /\ \A m \in at[i] + 1..at[i - 1] - 1 : d[m] > d[at[i]]
  BY <1>3 DEF IsStack
<1> HIDE DEF q, L
<1>14. at[q] \in 1..n + 1 /\ at[q] >= k + 1
  <2>1. CASE q = 0
    BY <1>2, <1>13, <2>1
  <2>2. CASE q # 0
    <3>1. q \in 1..L
      BY <1>8, <1>9, <2>2
    <3>2. at[q] \in 1..n
      BY <1>13, <3>1
    <3>3. all.total \in Nat /\ all.total = at[q] - (k + 1)
      BY <1>8
    <3>4. k \in Nat /\ n \in Nat
      BY <1>2
    <3> QED BY <3>2, <3>3, <3>4
  <2> QED BY <2>1, <2>2
<1> DEFINE b == at[q]
<1>15. IsExtent(n, d, k, all.total)
  <2>1. k + all.total = b - 1 /\ b \in 1..n + 1
    <3>1. all.total = b - (k + 1) /\ b \in 1..n + 1 /\ k \in Nat
      BY <1>2, <1>8, <1>14
    <3> HIDE DEF b
    <3> QED BY <3>1
  <2>2. ASSUME k + all.total < n PROVE d[k + all.total + 1] <= d[k]
    <3>1. q # 0
      BY <1>2, <1>13, <2>1, <2>2
    <3>2. q \in 1..L /\ q \in 1..q
      BY <1>8, <1>9, <3>1
    <3>3. all.pending[q].depth = d[b] /\ b \in 1..n
      BY <1>8, <1>13, <3>2
    <3>4. ~(d[b] > d[k])
      BY <1>5, <1>8, <3>1, <3>3 DEF Inside
    <3>5. d[b] \in Nat /\ d[k] \in Nat
      BY <1>2, <3>3
    <3>6. k + all.total + 1 = b
      <4>1. k \in Nat /\ all.total \in Nat /\ b \in Nat
        BY <1>2, <1>8, <2>1
      <4> HIDE DEF b
      <4> QED BY <2>1, <4>1
    <3> QED BY <3>4, <3>5, <3>6
  <2>3. \A m \in k + 1..k + all.total : d[m] > d[k]
    BY <1>8, <2>1
  <2>4. k + all.total <= n
    BY <1>2, <2>1
  <2> QED BY <1>8, <2>2, <2>3, <2>4 DEF IsExtent
<1> DEFINE at2 == [i \in 0..q + 1 |-> IF i = q + 1 THEN k ELSE at[i]]
<1>16. at2[q + 1] = k /\ (\A i \in 0..q : at2[i] = at[i]) /\ at2[0] = n + 1
  BY <1>9, <1>13
<1> HIDE DEF at2
<1>17. ASSUME NEW i \in 1..(q + 1)
       PROVE  /\ at2[i] \in 1..n /\ at2[i - 1] \in 1..n + 1 /\ at2[i] < at2[i - 1]
              /\ pending[i].size = at2[i - 1] - at2[i] /\ pending[i].depth = d[at2[i]]
              /\ \A m \in at2[i] + 1..at2[i - 1] - 1 : d[m] > d[at2[i]]
  <2>1. CASE i = q + 1
    <3>1. i - 1 = q /\ q \in 0..q /\ at2[i] = k /\ at2[i - 1] = b
      BY <1>9, <1>16, <2>1
    <3>2. pending[i].size = b - k /\ pending[i].depth = d[k]
      <4>1. all.total + 1 = b - k
        <5>1. k \in Nat /\ all.total \in Nat /\ all.total = b - (k + 1)
          BY <1>2, <1>8
        <5>2. b \in Nat
          <6>1. n \in Nat /\ b \in 1..n + 1
            BY <1>2, <1>14
          <6> HIDE DEF b
          <6> QED BY <6>1
        <5> HIDE DEF b
        <5> QED BY <5>1, <5>2
      <4>2. pending[i] = new
        BY <1>11, <2>1
      <4>3. pending[i].size = all.total + 1 /\ pending[i].depth = d[k]
        BY <1>10, <4>2
      <4> QED BY <4>1, <4>3
    <3>3. k \in 1..n /\ b \in 1..n + 1 /\ k < b
      BY <1>2, <1>14
    <3> QED BY <1>8, <3>1, <3>2, <3>3
  <2>2. CASE i # q + 1
    <3>1. i \in 1..q /\ i \in 1..L /\ i \in 0..q /\ i - 1 \in 0..q
      <4>1. q \in Nat /\ L \in Nat /\ q <= L
        BY <1>8, <1>9
      <4> QED BY <2>2, <4>1
    <3>2. at2[i] = at[i] /\ at2[i - 1] = at[i - 1] /\ pending[i] = P[i]
      BY <1>11, <1>16, <3>1
    <3> QED BY <1>13, <3>1, <3>2
  <2> QED BY <2>1, <2>2
<1>18. IsStack(n, d, k, at2, pending)
  BY <1>11, <1>16, <1>17 DEF IsStack
<1>19. ASSUME NEW j \in 1..(r + 1) PROVE IsExtent(n, d, n - (r + 1) + j, totals[j])
  <2>1. CASE j = 1
    <3>1. n - (r + 1) + j = k
      BY <1>2, <2>1 DEF k
    <3> QED BY <1>12, <1>15, <2>1, <3>1
  <2>2. CASE j # 1
    <3>1. j - 1 \in 1..r /\ (j - 1) + 1 = j /\ n - (r + 1) + j = k + (j - 1)
      BY <1>2, <2>2 DEF k
    <3>2. totals[(j - 1) + 1] = s.totals[j - 1] /\ IsExtent(n, d, k + (j - 1), s.totals[j - 1])
      BY <1>1, <1>12, <3>1
    <3> QED BY <3>1, <3>2
  <2> QED BY <2>1, <2>2
<1>20. t \in [totals : Seq(Nat), pending : Seq(Block)] /\ t.totals = totals /\ t.pending = pending
  BY <1>7, <1>11, <1>12
<1>21. n + 1 - (r + 1) = k
  BY <1>2 DEF k
<1>22. IsFilled(n, d, r + 1, t)
  BY <1>12, <1>18, <1>19, <1>20, <1>21 DEF IsFilled
<1> QED BY <1>22 DEF t

\* Each row has as many descendants as deeper rows follow it.
LEMMA DescendantsExtend ==
  ASSUME NEW T, NEW e \in Seq(Frame(T))
  PROVE  \A k \in 1..Len(e) :
           IsExtent(Len(e), [j \in 1..Len(e) |-> e[j].depth], k, Descendants(e)[k])
<1> DEFINE n == Len(e)
           d == [j \in 1..n |-> e[j].depth]
           States == [totals : Seq(Nat), pending : Seq(Block)]
           first == [totals |-> << >>, pending |-> << >>]
           place == [r \in Nat |-> {s \in States : IsFilled(n, d, r, s)}]
           round == [rs \in Nat \X States |-> Fill(e[n - rs[1]], rs[2])]
           Solves(f) == f = [r \in 0..n |-> IF r = 0 THEN first ELSE Fill(e[n + 1 - r], f[r - 1])]
           filled == CHOOSE f : Solves(f)
<1>1. n \in Nat /\ \A j \in 1..n : e[j] \in Frame(T)
  BY LenProperties, ElementOfSeq
<1>2. Descendants(e) = filled[n].totals
  BY DEF Descendants
<1>3. d \in [1..n -> Nat] /\ \A j \in 1..n : d[j] = e[j].depth
  BY <1>1 DEF Frame
<1> HIDE DEF d
<1>4. \A r \in Nat : \A s : IsFilled(n, d, r, s) <=> s \in place[r]
  BY DEF IsFilled
<1>5. first \in place[0]
  <2> DEFINE at == [i \in 0..0 |-> n + 1]
             none == << >>
  <2>1. none \in Seq(Block) /\ none \in Seq(Nat) /\ Len(none) = 0
    BY EmptySeq
  <2>2. at[0] = n + 1
    OBVIOUS
  <2>3. first = [totals |-> none, pending |-> none]
    OBVIOUS
  <2> HIDE DEF at, none, first
  <2>4. IsStack(n, d, n + 1, at, none)
    BY <2>1, <2>2 DEF IsStack
  <2>5. n + 1 - 0 = n + 1
    BY <1>1
  <2>6. first \in States /\ first.totals = none /\ first.pending = none
    BY <2>1, <2>3
  <2>7. IsFilled(n, d, 0, first)
    BY <2>1, <2>4, <2>5, <2>6 DEF IsFilled
  <2> HIDE DEF place
  <2> QED BY <1>4, <2>7
<1>6. \A r \in 0..(n - 1) : \A s \in place[r] : Fill(e[n - r], s) \in place[r + 1]
  <2>1. SUFFICES ASSUME NEW r \in 0..(n - 1), NEW s \in place[r]
                 PROVE  Fill(e[n - r], s) \in place[r + 1]
    OBVIOUS
  <2>2. r \in Nat /\ r + 1 \in Nat /\ n - r \in 1..n
    BY <1>1
  <2> HIDE DEF place
  <2>3. IsFilled(n, d, r, s)
    BY <1>4, <2>2
  <2> DEFINE row == e[n - r]
  <2>4. row.depth = d[n - r]
    BY <1>3, <2>2
  <2> HIDE DEF row, n
  <2>5. IsFilled(n, d, r + 1, Fill(row, s))
    BY <1>1, <1>3, <2>3, <2>4, NextFilled
  <2> QED BY <1>4, <2>2, <2>5 DEF row
<1>7. \A r \in 0..(n - 1) : \A s \in place[r] : round[<<r, s>>] = Fill(e[n - r], s)
  <2>1. SUFFICES ASSUME NEW r \in 0..(n - 1), NEW s \in place[r]
                 PROVE  round[<<r, s>>] = Fill(e[n - r], s)
    OBVIOUS
  <2>2. r \in Nat
    OBVIOUS
  <2>3. s \in States
    BY <2>2
  <2> HIDE DEF States, place
  <2> QED BY <2>2, <2>3
<1> HIDE DEF round, place, first, n
<1>8. PICK f : IsRounds(f, n, first, round) /\ \A r \in 0..n : f[r] \in place[r]
  <2>1. \A r \in 0..(n - 1) : \A s \in place[r] : round[<<r, s>>] \in place[r + 1]
    BY <1>6, <1>7
  <2> QED BY <1>1, <1>5, <2>1, Rounds, Zenon
<1>9. Solves(f)
  <2>1. ASSUME NEW r \in 0..n, r # 0
        PROVE  round[<<r - 1, f[r - 1]>>] = Fill(e[n + 1 - r], f[r - 1])
    <3>1. r - 1 \in 0..(n - 1) /\ r - 1 \in 0..n /\ n - (r - 1) = n + 1 - r
      BY <1>1, <2>1
    <3>2. round[<<r - 1, f[r - 1]>>] = Fill(e[n - (r - 1)], f[r - 1])
      BY <1>7, <1>8, <3>1
    <3> QED BY <3>1, <3>2
  <2> QED BY <1>8, <2>1 DEF IsRounds
<1>10. Solves(filled)
  BY <1>9
<1> HIDE DEF filled
<1>11. \A r \in 0..n : filled[r] \in place[r]
  <2>1. filled[0] \in place[0]
    BY <1>1, <1>5, <1>10
  <2>2. ASSUME NEW r \in 0..(n - 1), filled[r] \in place[r] PROVE filled[r + 1] \in place[r + 1]
    <3>1. r + 1 \in 0..n /\ r + 1 # 0 /\ (r + 1) - 1 = r /\ n + 1 - (r + 1) = n - r
      BY <1>1
    <3>2. filled[r + 1] = Fill(e[n + 1 - (r + 1)], filled[(r + 1) - 1])
      BY <1>10, <3>1
    <3> QED BY <1>6, <2>2, <3>1, <3>2
  <2> QED BY <1>1, <2>1, <2>2, Stays
<1>12. IsFilled(n, d, n, filled[n])
  <2>1. n \in 0..n
    BY <1>1
  <2> QED BY <1>1, <1>4, <1>11, <2>1
<1>13. ASSUME NEW k \in 1..n PROVE IsExtent(n, d, k, Descendants(e)[k])
  <2>1. n - n + k = k
    BY <1>1
  <2>2. IsExtent(n, d, n - n + k, filled[n].totals[k])
    BY <1>12 DEF IsFilled
  <2> QED BY <1>2, <2>1, <2>2
<1> QED BY <1>13 DEF n, d

-----------------------------------------------------------------------------
(* The rows of the tree *)

\* The rows are drawn as trees: each has the deeper rows right below it for descendants.
DrawsTrees(list) ==
  LET n == Len(list)
      p == [k \in 1..n |-> list[k].parentRow]
      d == [k \in 1..n |-> list[k].depth]
  IN /\ IsForest(n, p, d) /\ DOMAIN list = 1..n
     /\ \A k \in 1..n :
          /\ IsExtent(n, d, k, list[k].descendants)
          /\ list[k].isLast <=> \A m \in k + 1..n : list[m].parentRow # list[k].parentRow

LEMMA RowsOfEmission ==
  ASSUME NEW T, NEW e, Planted(T, e, Len(e))
  PROVE  DrawsTrees([k \in DOMAIN e |-> Row(e[k], Descendants(e)[k])])
<1> DEFINE n == Len(e)
           total == Descendants(e)
           list == [k \in DOMAIN e |-> Row(e[k], total[k])]
           p == [k \in 1..n |-> e[k].parentRow]
           d == [k \in 1..n |-> e[k].depth]
<1>1. e \in Seq(Frame(T))
  BY DEF Planted
<1>2. n \in Nat /\ DOMAIN e = 1..n
  BY <1>1, LenProperties
<1>3. /\ IsForest(n, p, d)
      /\ \A k \in 1..n : e[k].isLast <=> \A m \in k + 1..n : e[m].parentRow # e[k].parentRow
  BY PlantedIsForest
<1>4. \A k \in 1..n : IsExtent(n, d, k, total[k])
  BY <1>1, DescendantsExtend
<1> HIDE DEF total, n
<1>5. DOMAIN list = 1..n /\ list = [k \in 1..n |-> list[k]]
      /\ \A k \in 1..n : /\ list[k].parentRow = e[k].parentRow /\ list[k].depth = e[k].depth
                         /\ list[k].isLast = e[k].isLast /\ list[k].descendants = total[k]
  BY <1>2 DEF Row
<1> HIDE DEF list
<1>6. Len(list) = n
  BY <1>2, <1>5, ListOnInterval
<1>7. /\ p = [k \in 1..Len(list) |-> list[k].parentRow]
      /\ d = [k \in 1..Len(list) |-> list[k].depth]
  BY <1>5, <1>6
<1>8. ASSUME NEW k \in 1..n
      PROVE  list[k].isLast <=> \A m \in k + 1..n : list[m].parentRow # list[k].parentRow
  <2>1. \A m \in k + 1..n : m \in 1..n
    BY <1>2
  <2>2. \A m \in k + 1..n : list[m].parentRow # list[k].parentRow <=> e[m].parentRow # e[k].parentRow
    BY <1>5, <2>1
  <2>3. list[k].isLast = e[k].isLast
    BY <1>5
  <2>4. e[k].isLast <=> \A m \in k + 1..n : e[m].parentRow # e[k].parentRow
    BY <1>3
  <2>5. list[k].isLast <=> \A m \in k + 1..n : e[m].parentRow # e[k].parentRow
    BY <2>3, <2>4
  <2> QED BY <2>2, <2>5
<1>9. \A k \in 1..n : IsExtent(n, d, k, list[k].descendants)
  BY <1>4, <1>5
<1> HIDE DEF p, d
<1>10. DrawsTrees(list)
  BY <1>3, <1>5, <1>6, <1>7, <1>8, <1>9 DEF DrawsTrees
<1> QED BY <1>10 DEF list, total

LEMMA TreeIsDrawn ==
  ASSUME NEW table, IsTable(table), NEW R \in SUBSET DOMAIN table, NEW down
  PROVE  DrawsTrees(TreeRows(table, R, down).list)
<1> DEFINE list == TreeRows(table, R, down).list
<1>1. PICK near, children : EmitsRows(table, R, down, near, children, list)
  BY TreeEmission
<1> DEFINE e == Emitted(children)
<1>2. Planted(DOMAIN table, e, Len(e))
  BY <1>1, EmissionEnds DEF EmitsRows
<1> HIDE DEF e
<1>3. DrawsTrees([k \in DOMAIN e |-> Row(e[k], Descendants(e)[k])])
  BY <1>2, RowsOfEmission
<1> HIDE DEF list
<1>4. list = [k \in DOMAIN e |-> Row(e[k], Descendants(e)[k])]
  BY <1>1 DEF EmitsRows, e
<1> QED BY <1>3, <1>4 DEF list

\* What is drawn as trees is trees.
LEMMA DrawnAreTrees ==
  ASSUME NEW list, DrawsTrees(list), NEW above,
         above = Ancestors([k \in DOMAIN list |-> {list[k].parentRow} \ {0}])
  PROVE  \A k \in DOMAIN list :
           /\ list[k].parentRow < k
           /\ list[k].depth = Cardinality(above[k])
           /\ {m \in DOMAIN list : k \in above[m]} = k + 1..k + list[k].descendants
           /\ list[k].isLast <=>
                \A m \in k + 1..Len(list) : list[m].parentRow # list[k].parentRow
<1> DEFINE n == Len(list)
           p == [k \in 1..n |-> list[k].parentRow]
           d == [k \in 1..n |-> list[k].depth]
<1>1. /\ IsForest(n, p, d) /\ DOMAIN list = 1..n
      /\ \A k \in 1..n :
           /\ IsExtent(n, d, k, list[k].descendants)
           /\ list[k].isLast <=> \A m \in k + 1..n : list[m].parentRow # list[k].parentRow
  BY DEF DrawsTrees
<1> HIDE DEF n
<1>2. \A k \in 1..n : p[k] = list[k].parentRow /\ d[k] = list[k].depth
  OBVIOUS
<1>3. above = RowsUp(n, p)
  <2>1. [k \in DOMAIN list |-> {list[k].parentRow} \ {0}] = [k \in 1..n |-> {p[k]} \ {0}]
    BY <1>1
  <2> HIDE DEF p
  <2> QED BY <2>1 DEF RowsUp
<1> HIDE DEF p, d
<1>4. SUFFICES ASSUME NEW k \in 1..n
               PROVE  /\ list[k].parentRow < k
                      /\ list[k].depth = Cardinality(above[k])
                      /\ {m \in 1..n : k \in above[m]} = k + 1..k + list[k].descendants
  BY <1>1 DEF n
<1>5. list[k].parentRow < k
  BY <1>1, <1>2, RowUp
<1>6. list[k].depth = Cardinality(above[k])
  BY <1>1, <1>2, <1>3, DepthCountsRows
<1> DEFINE s == list[k].descendants
<1>7. /\ s \in Nat /\ k + s <= n /\ n \in Nat
      /\ \A m \in k + 1..k + s : d[m] > d[k]
      /\ k + s < n => d[k + s + 1] <= d[k]
      /\ d \in [1..n -> Nat]
  BY <1>1 DEF IsExtent, IsForest
<1> HIDE DEF s
<1>8. \A m \in 1..n : k \in above[m] <=> (k < m /\ \A j \in k + 1..m : d[j] > d[k])
  BY <1>1, <1>3, BelowIsDeeper
<1>9. \A m \in k + 1..k + s : m \in 1..n /\ k \in above[m]
  <2>1. SUFFICES ASSUME NEW m \in k + 1..k + s PROVE m \in 1..n /\ k \in above[m]
    OBVIOUS
  <2>2. m \in 1..n /\ k < m
    BY <1>7
  <2>3. \A j \in k + 1..m : j \in k + 1..k + s
    BY <1>7, <2>2
  <2> QED BY <1>7, <1>8, <2>2, <2>3
<1>10. ASSUME NEW m \in 1..n, k \in above[m] PROVE m \in k + 1..k + s
  <2>1. k < m /\ \A j \in k + 1..m : d[j] > d[k]
    BY <1>8, <1>10
  <2>2. SUFFICES ASSUME m > k + s PROVE FALSE
    BY <1>7, <2>1
  <2>3. k + s + 1 \in k + 1..m /\ k + s < n /\ k + s + 1 \in 1..n
    BY <1>7, <2>2
  <2>4. d[k + s + 1] \in Nat /\ d[k] \in Nat
    BY <1>7, <2>3
  <2> QED BY <1>7, <2>1, <2>3, <2>4
<1> QED BY <1>5, <1>6, <1>9, <1>10 DEF s

-----------------------------------------------------------------------------
(* Lists of different processes *)

LEMMA TailLists ==
  ASSUME NEW s, NEW S, Lists(s, S), s # << >>
  PROVE  /\ Head(s) \in S /\ Lists(Tail(s), S \ {Head(s)})
<1> DEFINE t == Tail(s)
           h == Head(s)
<1>1. Len(s) \in Nat \ {0} /\ h = s[1] /\ s \in Seq(S)
  BY EmptySeq, HeadTailProperties DEF Lists
<1>2. t \in Seq(S) /\ Len(t) = Len(s) - 1 /\ \A k \in 1..Len(t) : t[k] = s[k + 1]
  BY <1>1, HeadTailProperties
<1> HIDE DEF t, h
<1>3. \A k, m \in 1..Len(s) : s[k] = s[m] => k = m
  BY DEF Lists
<1>4. S = {s[k] : k \in 1..Len(s)}
  BY DEF Lists
<1>5. \A k \in 1..Len(t) : k + 1 \in 1..Len(s) /\ k + 1 # 1 /\ 1 \in 1..Len(s)
  BY <1>1, <1>2
<1>6. \A k \in 1..Len(s) : k = 1 \/ (k - 1 \in 1..Len(t) /\ (k - 1) + 1 = k)
  BY <1>1, <1>2
<1>7. \A k, m \in 1..Len(t) : t[k] = t[m] => k = m
  <2>1. SUFFICES ASSUME NEW k \in 1..Len(t), NEW m \in 1..Len(t), t[k] = t[m] PROVE k = m
    OBVIOUS
  <2>2. k + 1 = m + 1
    BY <1>2, <1>3, <1>5, <2>1
  <2> QED BY <2>2
<1>8. \A k \in 1..Len(t) : t[k] \in S \ {h}
  <2>1. SUFFICES ASSUME NEW k \in 1..Len(t) PROVE t[k] \in S \ {h}
    OBVIOUS
  <2>2. t[k] = s[k + 1] /\ s[k + 1] \in S
    BY <1>2, <1>4, <1>5
  <2>3. s[k + 1] # s[1]
    BY <1>3, <1>5
  <2> QED BY <1>1, <2>2, <2>3
<1>9. \A x \in S \ {h} : \E k \in 1..Len(t) : x = t[k]
  <2>1. SUFFICES ASSUME NEW x \in S \ {h} PROVE \E k \in 1..Len(t) : x = t[k]
    OBVIOUS
  <2>2. PICK k \in 1..Len(s) : x = s[k]
    BY <1>4
  <2>3. k # 1
    BY <1>1, <2>1, <2>2
  <2>4. k - 1 \in 1..Len(t) /\ t[k - 1] = s[k]
    BY <1>2, <1>6, <2>3
  <2> QED BY <2>2, <2>4
<1>10. S \ {h} = {t[k] : k \in 1..Len(t)}
  BY <1>8, <1>9
<1>11. t \in Seq(S \ {h})
  BY <1>2, <1>8, ElementOfSeq, LenProperties, IsASeq
<1>12. h \in S
  BY <1>1, <1>4
<1> QED BY <1>7, <1>10, <1>11, <1>12 DEF Lists, t, h

LEMMA JoinedLists ==
  ASSUME NEW s, NEW S, Lists(s, S), NEW t, NEW R, Lists(t, R), S \cap R = {}
  PROVE  Lists(s \o t, S \cup R)
<1> DEFINE u == s \o t
           A == S \cup R
<1>1. s \in Seq(S) /\ t \in Seq(R) /\ s \in Seq(A) /\ t \in Seq(A)
  BY DEF Lists
<1>2. Len(s) \in Nat /\ Len(t) \in Nat
  BY <1>1, LenProperties
<1>3. /\ u \in Seq(A) /\ Len(u) = Len(s) + Len(t)
      /\ \A k \in 1..Len(s) + Len(t) : u[k] = IF k <= Len(s) THEN s[k] ELSE t[k - Len(s)]
  BY <1>1, ConcatProperties
<1> HIDE DEF u
<1>4. \A k \in 1..Len(u) : \/ k \in 1..Len(s) /\ u[k] = s[k] /\ u[k] \in S
                           \/ k - Len(s) \in 1..Len(t) /\ u[k] = t[k - Len(s)] /\ u[k] \in R
  <2>1. (\A k \in 1..Len(s) : s[k] \in S) /\ \A k \in 1..Len(t) : t[k] \in R
    BY <1>1, ElementOfSeq
  <2>2. SUFFICES ASSUME NEW k \in 1..Len(u)
                 PROVE  \/ k \in 1..Len(s) /\ u[k] = s[k]
                        \/ k - Len(s) \in 1..Len(t) /\ u[k] = t[k - Len(s)]
    BY <2>1
  <2> QED BY <1>2, <1>3, <2>2
<1>5. \A k \in 1..Len(s) : k \in 1..Len(u) /\ u[k] = s[k]
  BY <1>2, <1>3
<1>6. \A k \in 1..Len(t) : k + Len(s) \in 1..Len(u) /\ u[k + Len(s)] = t[k]
  <2>1. SUFFICES ASSUME NEW k \in 1..Len(t)
                 PROVE  k + Len(s) \in 1..Len(u) /\ u[k + Len(s)] = t[k]
    OBVIOUS
  <2>2. k + Len(s) \in 1..Len(u) /\ ~(k + Len(s) <= Len(s)) /\ (k + Len(s)) - Len(s) = k
    BY <1>2, <1>3
  <2> QED BY <1>3, <2>2
<1>7. A = {u[k] : k \in 1..Len(u)}
  <2>1. \A k \in 1..Len(u) : u[k] \in A
    BY <1>4
  <2>2. \A x \in S : \E k \in 1..Len(u) : x = u[k]
    BY <1>5 DEF Lists
  <2>3. \A x \in R : \E k \in 1..Len(u) : x = u[k]
    <3>1. SUFFICES ASSUME NEW x \in R PROVE \E k \in 1..Len(u) : x = u[k]
      OBVIOUS
    <3>2. PICK k \in 1..Len(t) : x = t[k]
      BY DEF Lists
    <3> QED BY <1>6, <3>2
  <2> QED BY <2>1, <2>2, <2>3
<1>8. \A k, m \in 1..Len(u) : u[k] = u[m] => k = m
  <2>1. SUFFICES ASSUME NEW k \in 1..Len(u), NEW m \in 1..Len(u), u[k] = u[m] PROVE k = m
    OBVIOUS
  <2>2. CASE k \in 1..Len(s) /\ u[k] = s[k] /\ m \in 1..Len(s) /\ u[m] = s[m]
    BY <2>1, <2>2 DEF Lists
  <2>3. CASE k - Len(s) \in 1..Len(t) /\ u[k] = t[k - Len(s)]
             /\ m - Len(s) \in 1..Len(t) /\ u[m] = t[m - Len(s)]
    <3>1. k - Len(s) = m - Len(s)
      BY <2>1, <2>3 DEF Lists
    <3> QED BY <1>2, <3>1
  <2> QED BY <1>4, <2>1, <2>2, <2>3
<1> QED BY <1>3, <1>7, <1>8 DEF Lists, u

LEMMA AppendLists ==
  ASSUME NEW s, NEW S, Lists(s, S), NEW x, x \notin S
  PROVE  Lists(Append(s, x), S \cup {x})
<1>1. Lists(<<x>>, {x})
  <2>1. Len(<<x>>) = 1 /\ <<x>>[1] = x /\ <<x>> \in Seq({x})
    OBVIOUS
  <2> QED BY <2>1 DEF Lists
<1>2. Append(s, x) = s \o <<x>>
  <2>1. s \in Seq(S \cup {x}) /\ x \in S \cup {x}
    BY DEF Lists
  <2> QED BY <2>1, AppendIsConcat
<1> QED BY <1>1, <1>2, JoinedLists

LEMMA NoneListed == Lists(<< >>, {})
BY DEF Lists

LEMMA ListLength ==
  ASSUME NEW s, NEW S, Lists(s, S)
  PROVE  Len(s) \in Nat /\ IsFiniteSet(S) /\ Len(s) = Cardinality(S)
<1> DEFINE n == Len(s)
<1>1. n \in Nat
  BY LenProperties DEF Lists
<1>2. S = {s[k] : k \in 1..n} /\ \A k, m \in 1..n : s[k] = s[m] => k = m
  BY DEF Lists
<1> HIDE DEF n
<1> QED BY <1>1, <1>2, ValuesAreCounted DEF n

-----------------------------------------------------------------------------
(* Subtrees *)

Kids(table, i) == ChildrenOf(table, table[i].identity.pid)
KidsOf(table, M) == UNION {Kids(table, m) : m \in M}
Downward(table, S) == \A m \in S : Kids(table, m) \subseteq S

\* The processes of A and all below them.
Below(table, A) ==
  {i \in DOMAIN table : \A S \in SUBSET DOMAIN table : A \subseteq S /\ Downward(table, S) => i \in S}

UniqueIn(table) ==
  \A i, j \in DOMAIN table : table[i].identity.pid = table[j].identity.pid => i = j

LEMMA BelowIsLeast ==
  ASSUME NEW table, NEW A \in SUBSET DOMAIN table
  PROVE  /\ Below(table, A) \in SUBSET DOMAIN table
         /\ A \subseteq Below(table, A) /\ Downward(table, Below(table, A))
         /\ \A S \in SUBSET DOMAIN table :
              A \subseteq S /\ Downward(table, S) => Below(table, A) \subseteq S
<1>1. ASSUME NEW m \in Below(table, A), NEW i \in Kids(table, m) PROVE i \in Below(table, A)
  <2>1. i \in DOMAIN table
    BY DEF Kids, ChildrenOf
  <2>2. SUFFICES ASSUME NEW S \in SUBSET DOMAIN table, A \subseteq S, Downward(table, S)
                 PROVE  i \in S
    BY <2>1 DEF Below
  <2>3. m \in S
    BY <2>2 DEF Below
  <2> QED BY <2>2, <2>3 DEF Downward
<1>2. Downward(table, Below(table, A))
  BY <1>1 DEF Downward
<1> QED BY <1>2 DEF Below

VisitState(T) == [queue : Seq(T), members : Seq(T), cyclesBroken : Int]

\* What a walk of SubtreeUsage::over that began at A, with n rounds behind it, has visited (M)
\* and will (Q).
IsVisit(table, A, n, w, M, Q) ==
  /\ w \in VisitState(DOMAIN table)
  /\ M \in SUBSET DOMAIN table /\ Q \in SUBSET DOMAIN table
  /\ Lists(w.members, M) /\ Lists(w.queue, Q) /\ M \cap Q = {}
  /\ A \subseteq M \cup Q /\ M \cup Q \subseteq Below(table, A)
  /\ KidsOf(table, M) \subseteq M \cup Q
  /\ UniqueIn(table) => w.cyclesBroken = Cardinality(KidsOf(table, M)) + Cardinality(A)
                                           - Cardinality(M \cup Q)
  /\ w.queue = << >> \/ Len(w.members) = n

LEMMA KidsAreCounted ==
  ASSUME NEW table, IsTable(table), NEW M \in SUBSET DOMAIN table, NEW h \in DOMAIN table \ M,
         UniqueIn(table)
  PROVE  Cardinality(KidsOf(table, M \cup {h}))
           = Cardinality(KidsOf(table, M)) + Cardinality(Kids(table, h))
<1>1. KidsOf(table, M \cup {h}) = KidsOf(table, M) \cup Kids(table, h)
  BY DEF KidsOf
<1>2. KidsOf(table, M) \cap Kids(table, h) = {}
  <2>1. SUFFICES ASSUME NEW m \in M, NEW i \in Kids(table, m), i \in Kids(table, h) PROVE FALSE
    BY DEF KidsOf
  <2>2. table[m].identity.pid = table[h].identity.pid
    BY <2>1 DEF Kids, ChildrenOf
  <2> QED BY <2>2 DEF UniqueIn
<1>3. KidsOf(table, M) \in SUBSET DOMAIN table /\ Kids(table, h) \in SUBSET DOMAIN table
  BY DEF KidsOf, Kids, ChildrenOf
<1>4. /\ IsFiniteSet(KidsOf(table, M)) /\ IsFiniteSet(Kids(table, h))
      /\ Cardinality(KidsOf(table, M)) \in Nat /\ Cardinality(Kids(table, h)) \in Nat
  BY <1>3, TableIsFinite
<1> DEFINE K == KidsOf(table, M)
           H == Kids(table, h)
<1> HIDE DEF K, H
<1>5. Cardinality(K \cup H) = Cardinality(K) + Cardinality(H) - Cardinality(K \cap H)
  BY <1>4, FS_Union DEF K, H
<1>6. Cardinality(K \cap H) = 0
  BY <1>2, FS_EmptySet DEF K, H
<1>7. Cardinality(K) \in Nat /\ Cardinality(H) \in Nat
  BY <1>4 DEF K, H
<1>8. Cardinality(K \cup H) = Cardinality(K) + Cardinality(H)
  BY <1>5, <1>6, <1>7
<1> QED BY <1>1, <1>8 DEF K, H

LEMMA VisitKeeps ==
  ASSUME NEW table, IsTable(table), NEW A \in SUBSET DOMAIN table, NEW n \in Nat, NEW w,
         NEW M, NEW Q, IsVisit(table, A, n, w, M, Q)
  PROVE  \E M1, Q1 : IsVisit(table, A, n + 1, Visit(table, w), M1, Q1)
<1>1. CASE w.queue = << >>
  <2>1. Visit(table, w) = w
    BY <1>1 DEF Visit
  <2>2. IsVisit(table, A, n + 1, w, M, Q)
    BY <1>1 DEF IsVisit
  <2> QED BY <2>1, <2>2
<1>2. CASE w.queue # << >>
  <2> DEFINE h == Head(w.queue)
             kids == Kids(table, h)
             seen == M \cup Q
             new == InOrder(kids \ seen, LAMBDA left : Lowest(table, left))
             next == Visit(table, w)
             M1 == M \cup {h}
             Q1 == (Q \ {h}) \cup (kids \ seen)
  <2>1. /\ M \in SUBSET DOMAIN table /\ Q \in SUBSET DOMAIN table
        /\ Lists(w.members, M) /\ Lists(w.queue, Q) /\ M \cap Q = {}
        /\ A \subseteq M \cup Q /\ M \cup Q \subseteq Below(table, A)
        /\ KidsOf(table, M) \subseteq M \cup Q /\ w.cyclesBroken \in Int
    BY DEF IsVisit, VisitState
  <2>2. h \in Q /\ Lists(Tail(w.queue), Q \ {h})
    BY <1>2, <2>1, TailLists
  <2>3. Range(w.members) = M /\ Range(w.queue) = Q
    <3>1. ASSUME NEW s, NEW S, Lists(s, S) PROVE Range(s) = S
      <4>1. DOMAIN s = 1..Len(s)
        BY <3>1, LenProperties DEF Lists
      <4> QED BY <3>1, <4>1 DEF Lists, Range
    <3> QED BY <2>1, <3>1
  <2>4. /\ next.queue = Tail(w.queue) \o new
        /\ next.members = Append(w.members, h)
        /\ next.cyclesBroken = w.cyclesBroken + Cardinality(kids \cap seen)
        /\ next = [queue |-> next.queue, members |-> next.members,
                   cyclesBroken |-> next.cyclesBroken]
    BY <1>2, <2>3 DEF Visit, Kids
  <2> HIDE DEF next
  <2>5. kids \in SUBSET DOMAIN table
    BY DEF Kids, ChildrenOf
  <2>6. Lists(new, kids \ seen)
    <3>1. kids \ seen \in SUBSET DOMAIN table
      BY <2>5
    <3> HIDE DEF kids, seen
    <3> QED BY <3>1, LowestLists
  <2> HIDE DEF new, h, kids
  <2>7. Lists(next.queue, Q1)
    <3>1. (Q \ {h}) \cap (kids \ seen) = {}
      OBVIOUS
    <3> HIDE DEF seen
    <3> QED BY <2>2, <2>4, <2>6, <3>1, JoinedLists
  <2>8. Lists(next.members, M1)
    BY <2>1, <2>2, <2>4, AppendLists
  <2>9. M1 \cup Q1 = seen \cup kids /\ M1 \cap Q1 = {}
    BY <2>1, <2>2
  <2>10. seen \cup kids \subseteq Below(table, A)
    <3>1. Downward(table, Below(table, A))
      BY BelowIsLeast
    <3> QED BY <2>1, <2>2, <3>1 DEF Downward, kids
  <2>11. KidsOf(table, M1) \subseteq M1 \cup Q1
    <3>1. KidsOf(table, M1) = KidsOf(table, M) \cup kids
      BY DEF KidsOf, kids
    <3> QED BY <2>1, <2>9, <3>1
  <2>12. /\ IsFiniteSet(kids) /\ Cardinality(kids) \in Nat /\ IsFiniteSet(seen)
         /\ Cardinality(seen) \in Nat /\ Cardinality(kids \cap seen) \in Nat
         /\ Cardinality(A) \in Nat
    <3>1. seen \in SUBSET DOMAIN table /\ kids \cap seen \in SUBSET DOMAIN table
      BY <2>1
    <3> HIDE DEF seen
    <3> QED BY <2>5, <3>1, TableIsFinite
  <2>13. UniqueIn(table) => next.cyclesBroken
           = Cardinality(KidsOf(table, M1)) + Cardinality(A) - Cardinality(M1 \cup Q1)
    <3>1. SUFFICES ASSUME UniqueIn(table)
                   PROVE  next.cyclesBroken = Cardinality(KidsOf(table, M1)) + Cardinality(A)
                                                - Cardinality(M1 \cup Q1)
      OBVIOUS
    <3>2. Cardinality(KidsOf(table, M1)) = Cardinality(KidsOf(table, M)) + Cardinality(kids)
      BY <2>1, <2>2, <3>1, KidsAreCounted DEF kids
    <3>3. Cardinality(kids \cup seen)
            = Cardinality(kids) + Cardinality(seen) - Cardinality(kids \cap seen)
      <4> HIDE DEF seen
      <4> QED BY <2>12, FS_Union
    <3>4. w.cyclesBroken = Cardinality(KidsOf(table, M)) + Cardinality(A) - Cardinality(seen)
      BY <3>1 DEF IsVisit
    <3>5. M1 \cup Q1 = kids \cup seen
      BY <2>9
    <3>6. KidsOf(table, M) \in SUBSET DOMAIN table
      BY DEF KidsOf, Kids, ChildrenOf
    <3>7. Cardinality(KidsOf(table, M)) \in Nat
      BY <3>6, TableIsFinite
    <3> HIDE DEF M1, Q1, seen
    <3> DEFINE km1 == Cardinality(KidsOf(table, M1))
               km == Cardinality(KidsOf(table, M))
               ck == Cardinality(kids)
               cs == Cardinality(seen)
               ci == Cardinality(kids \cap seen)
               cu == Cardinality(kids \cup seen)
               ca == Cardinality(A)
               wc == w.cyclesBroken
               nc == next.cyclesBroken
    <3>8. /\ km1 = km + ck /\ cu = ck + cs - ci /\ wc = km + ca - cs /\ nc = wc + ci
          /\ km \in Nat /\ ck \in Nat /\ cs \in Nat /\ ci \in Nat /\ ca \in Nat
      BY <2>4, <2>12, <3>2, <3>3, <3>4, <3>7
    <3> HIDE DEF km1, km, ck, cs, ci, cu, ca, wc, nc
    <3>9. nc = km1 + ca - cu
      BY <3>8
    <3> QED BY <3>5, <3>9 DEF km1, cu, ca, nc
  <2>14. Len(next.members) = n + 1 /\ next.cyclesBroken \in Int
    <3>1. Len(w.members) = n
      BY <1>2 DEF IsVisit
    <3>2. w.members \in Seq(DOMAIN table) /\ h \in DOMAIN table
      BY <2>1, <2>2 DEF Lists
    <3>3. Len(Append(w.members, h)) = Len(w.members) + 1
      BY <3>2, AppendProperties
    <3> QED BY <2>1, <2>4, <2>12, <3>1, <3>3
  <2>15. M1 \in SUBSET DOMAIN table /\ Q1 \in SUBSET DOMAIN table
    BY <2>1, <2>2, <2>5
  <2>16. A \subseteq M1 \cup Q1 /\ M1 \cup Q1 \subseteq Below(table, A)
    BY <2>1, <2>9, <2>10
  <2>17. M1 \cap Q1 = {} /\ next \in VisitState(DOMAIN table)
    <3>1. next.queue \in Seq(DOMAIN table) /\ next.members \in Seq(DOMAIN table)
      BY <2>7, <2>8, <2>15 DEF Lists
    <3> HIDE DEF M1, Q1
    <3>2. [queue |-> next.queue, members |-> next.members, cyclesBroken |-> next.cyclesBroken]
            \in VisitState(DOMAIN table)
      BY <2>14, <3>1 DEF VisitState
    <3> QED BY <2>4, <2>9, <3>2
  <2> HIDE DEF M1, Q1
  <2>18. IsVisit(table, A, n + 1, next, M1, Q1)
    BY <2>7, <2>8, <2>11, <2>13, <2>14, <2>15, <2>16, <2>17 DEF IsVisit
  <2> QED BY <2>18 DEF next
<1> QED BY <1>1, <1>2

IsVisited(table, A, n, w) == \E M, Q : IsVisit(table, A, n, w, M, Q)
FirstVisit(q) == [queue |-> q, members |-> << >>, cyclesBroken |-> 0]

\* The walk ends: each of its rounds visits a process that it had not visited.
LEMMA WalkEnds ==
  ASSUME NEW table, IsTable(table), NEW A \in SUBSET DOMAIN table, NEW w, NEW M, NEW Q,
         IsVisit(table, A, Len(table), w, M, Q)
  PROVE  Q = {} /\ M = Below(table, A)
<1>1. M \in SUBSET DOMAIN table /\ Q \in SUBSET DOMAIN table /\ M \cap Q = {}
      /\ Lists(w.members, M) /\ Lists(w.queue, Q)
  BY DEF IsVisit
<1>2. Q = {}
  <2>1. CASE w.queue = << >>
    <3>1. Len(w.queue) = 0
      BY <2>1
    <3>2. Q = {w.queue[k] : k \in 1..Len(w.queue)}
      BY <1>1 DEF Lists
    <3> QED BY <3>1, <3>2
  <2>2. CASE Len(w.members) = Len(table)
    <3>1. Cardinality(M) = Len(table)
      BY <1>1, <2>2, ListLength
    <3>2. DOMAIN table = 1..Len(table) /\ Len(table) \in Nat
      BY Entries
    <3>3. IsFiniteSet(DOMAIN table) /\ Cardinality(DOMAIN table) = Len(table)
      BY <3>2, FS_Interval
    <3>4. M = DOMAIN table
      BY <1>1, <3>1, <3>3, FS_Subset
    <3> QED BY <1>1, <3>4
  <2> QED BY <2>1, <2>2 DEF IsVisit
<1>3. M \subseteq Below(table, A) /\ A \subseteq M /\ KidsOf(table, M) \subseteq M
  BY <1>2 DEF IsVisit
<1>4. Downward(table, M)
  BY <1>3 DEF Downward, KidsOf
<1>5. Below(table, A) \subseteq M
  BY <1>1, <1>3, <1>4, BelowIsLeast
<1> QED BY <1>2, <1>3, <1>5

LEMMA WalkVisits ==
  ASSUME NEW table, IsTable(table), NEW A \in SUBSET DOMAIN table, NEW q, Lists(q, A)
  PROVE  LET w == Walk(table, q)
         IN /\ Lists(w.members, Below(table, A))
            /\ UniqueIn(table) => w.cyclesBroken = Cardinality(KidsOf(table, Below(table, A)))
                                    + Cardinality(A) - Cardinality(Below(table, A))
<1> DEFINE N == Len(table)
           first == FirstVisit(q)
           place == [n \in Nat |-> {w \in VisitState(DOMAIN table) : IsVisited(table, A, n, w)}]
           round == [nw \in Nat \X VisitState(DOMAIN table) |-> Visit(table, nw[2])]
           Solves(f) == f = [n \in Nat |-> IF n = 0 THEN [queue |-> q, members |-> << >>, cyclesBroken |-> 0]
                                           ELSE Visit(table, f[n - 1])]
           walk == CHOOSE f : Solves(f)
<1>1. Walk(table, q) = walk[N]
  BY DEF Walk
<1>2. N \in Nat
  BY Entries
<1>3. IsVisited(table, A, 0, first) /\ first \in VisitState(DOMAIN table)
  <2>1. first.members = << >> /\ first.queue = q /\ first.cyclesBroken = 0
    BY DEF FirstVisit
  <2>2. KidsOf(table, {}) = {}
    BY DEF KidsOf
  <2>3. Cardinality({}) = 0 /\ Cardinality(A) \in Nat /\ {} \cup A = A
    BY FS_EmptySet, TableIsFinite
  <2>4. q \in Seq(DOMAIN table)
    BY DEF Lists
  <2>5. first \in VisitState(DOMAIN table)
    BY <2>4 DEF FirstVisit, VisitState
  <2> HIDE DEF first
  <2>6. 0 = 0 + Cardinality(A) - Cardinality({} \cup A)
    BY <2>3
  <2>7. A \subseteq Below(table, A)
    BY BelowIsLeast
  <2>8. Lists(first.members, {}) /\ Len(first.members) = 0
    BY <2>1, NoneListed
  <2>9. IsVisit(table, A, 0, first, {}, A)
    BY <2>1, <2>2, <2>3, <2>5, <2>6, <2>7, <2>8 DEF IsVisit
  <2> QED BY <2>5, <2>9 DEF IsVisited
<1>4. \A n \in Nat : \A w \in place[n] : Visit(table, w) \in place[n + 1]
  <2>1. SUFFICES ASSUME NEW n \in Nat, NEW w \in place[n] PROVE Visit(table, w) \in place[n + 1]
    OBVIOUS
  <2>2. PICK M, Q : IsVisit(table, A, n, w, M, Q)
    BY DEF IsVisited
  <2>3. PICK M1, Q1 : IsVisit(table, A, n + 1, Visit(table, w), M1, Q1)
    BY <2>2, VisitKeeps
  <2>4. Visit(table, w) \in VisitState(DOMAIN table)
    BY <2>3 DEF IsVisit
  <2>5. IsVisited(table, A, n + 1, Visit(table, w))
    BY <2>3 DEF IsVisited
  <2> QED BY <2>4, <2>5
<1>5. \A n \in Nat : \A w \in place[n] : round[<<n, w>>] = Visit(table, w)
  OBVIOUS
<1>6. first \in place[0]
  BY <1>3
<1>7. \A n \in Nat : \A w : w \in place[n] => IsVisited(table, A, n, w)
  OBVIOUS
<1> HIDE DEF place, round, first
<1>8. PICK f : IsLoop(f, first, round) /\ \A n \in Nat : f[n] \in place[n]
  <2>1. \A n \in Nat : \A w \in place[n] : round[<<n, w>>] \in place[n + 1]
    BY <1>4, <1>5
  <2> QED BY <1>6, <2>1, Loop, Zenon
<1>9. Solves(f)
  <2>1. ASSUME NEW n \in Nat, n # 0 PROVE round[<<n - 1, f[n - 1]>>] = Visit(table, f[n - 1])
    <3>1. n - 1 \in Nat
      BY <2>1
    <3> QED BY <1>5, <1>8, <3>1
  <2> QED BY <1>8, <2>1 DEF IsLoop, first, FirstVisit
<1>10. Solves(walk)
  BY <1>9
<1> HIDE DEF walk
<1>11. \A n \in Nat : walk[n] = f[n]
  <2>1. walk[0] = f[0]
    BY <1>9, <1>10
  <2>2. ASSUME NEW n \in Nat, walk[n] = f[n] PROVE walk[n + 1] = f[n + 1]
    <3>1. n + 1 \in Nat /\ n + 1 # 0 /\ (n + 1) - 1 = n
      OBVIOUS
    <3>2. walk[n + 1] = Visit(table, walk[(n + 1) - 1])
      BY <1>10, <3>1
    <3>3. f[n + 1] = Visit(table, f[(n + 1) - 1])
      BY <1>9, <3>1
    <3> QED BY <2>2, <3>1, <3>2, <3>3
  <2> QED BY <2>1, <2>2, SameLoop
<1> DEFINE w == walk[N]
<1>12. PICK M, Q : IsVisit(table, A, N, w, M, Q)
  <2>1. w \in place[N]
    BY <1>2, <1>8, <1>11
  <2> QED BY <1>2, <1>7, <2>1 DEF IsVisited
<1> HIDE DEF w
<1>13. Q = {} /\ M = Below(table, A)
  BY <1>12, WalkEnds
<1>14. M \cup Q = Below(table, A)
  BY <1>13
<1>15. Lists(w.members, Below(table, A))
  BY <1>12, <1>13 DEF IsVisit
<1>16. UniqueIn(table) => w.cyclesBroken = Cardinality(KidsOf(table, Below(table, A)))
                                    + Cardinality(A) - Cardinality(Below(table, A))
  BY <1>12, <1>13, <1>14 DEF IsVisit
<1> QED BY <1>1, <1>15, <1>16 DEF w

\* When no two processes have the same PID, the walk downwards and the links upwards follow
\* the same edges, but for a process that is its own parent.
LEMMA KidsAreLinked ==
  ASSUME NEW table, IsTable(table), UniqueIn(table),
         NEW h \in DOMAIN table, NEW i \in DOMAIN table
  PROVE  i \in Kids(table, h) <=> h \in ParentsIn(table)[i] /\ h # i
<1>1. Owner(table, table[h].identity.pid) = h
  <2> DEFINE S == {j \in DOMAIN table : table[j].identity.pid = table[h].identity.pid}
  <2>1. S = {h}
    BY DEF UniqueIn
  <2>2. IsLowest(table, S, h)
    BY <2>1 DEF IsLowest
  <2> HIDE DEF S
  <2>3. S \in SUBSET DOMAIN table
    BY <2>1
  <2>4. h = Lowest(table, S)
    BY <2>2, <2>3, LowestIsUnique
  <2> QED BY <2>4 DEF Owner, S
<1>2. h \in ParentsIn(table)[i] <=> table[i].parent = table[h].identity.pid
  BY <1>1 DEF ParentsIn
<1>3. table[i].identity.pid = table[h].identity.pid <=> h = i
  BY DEF UniqueIn
<1> QED BY <1>2, <1>3 DEF Kids, ChildrenOf

\* A process has one parent, or none and nothing above it.
LEMMA OneParent ==
  ASSUME NEW table, IsTable(table), NEW i \in DOMAIN table
  PROVE  \/ ParentsIn(table)[i] = {} /\ Above(table)[i] = {}
         \/ \E a \in DOMAIN table : /\ ParentsIn(table)[i] = {a}
                                    /\ Above(table)[i] = {a} \cup Above(table)[a]
<1> DEFINE T == DOMAIN table
           parents == ParentsIn(table)
<1>1. parents \in [T -> SUBSET T]
  BY LinksAreParents
<1>2. parents[i] = {} \/ \E a : parents[i] = {a}
  BY LinksAreParents
<1> HIDE DEF parents, T
<1>3. i \in T
  BY DEF T
<1>4. /\ parents[i] = {} => Ancestors(parents)[i] = {}
      /\ \A a : parents[i] = {a} => a \in T /\ Ancestors(parents)[i] = {a} \cup Ancestors(parents)[a]
  BY <1>1, <1>3, AncestorsOneUp, Zenon
<1> QED BY <1>2, <1>4 DEF Above, parents, T

\* What is above a process of a cycle is on that cycle.
LEMMA AboveACycle ==
  ASSUME NEW table, IsTable(table), NEW i \in DOMAIN table, i \in Above(table)[i],
         NEW j \in Above(table)[i]
  PROVE  j \in DOMAIN table /\ i \in Above(table)[j]
<1> DEFINE S == {m \in DOMAIN table : i \in Above(table)[m]}
<1>1. \A m \in S : ParentsIn(table)[m] \subseteq S
  <2>1. SUFFICES ASSUME NEW m \in S PROVE ParentsIn(table)[m] \subseteq S
    OBVIOUS
  <2>2. m \in DOMAIN table /\ i \in Above(table)[m]
    OBVIOUS
  <2>3. PICK b \in DOMAIN table : /\ ParentsIn(table)[m] = {b}
                                  /\ Above(table)[m] = {b} \cup Above(table)[b]
    BY <2>2, OneParent
  <2>4. i \in Above(table)[b]
    BY <2>2, <2>3
  <2> QED BY <2>3, <2>4
<1>2. i \in S
  OBVIOUS
<1>3. S \in SUBSET DOMAIN table
  OBVIOUS
<1>4. ParentsIn(table)[i] \subseteq S /\ Upward(ParentsIn(table), S)
  BY <1>1, <1>2 DEF Upward
<1> HIDE DEF S
<1>5. Above(table)[i] \subseteq S
  BY <1>3, <1>4, AboveUpward
<1> QED BY <1>5 DEF S

LEMMA AboveAbove ==
  ASSUME NEW table, IsTable(table), NEW i \in DOMAIN table, NEW j \in Above(table)[i]
  PROVE  j \in DOMAIN table /\ Above(table)[j] \subseteq Above(table)[i]
<1>1. /\ Above(table)[i] \in SUBSET DOMAIN table /\ Upward(ParentsIn(table), Above(table)[i])
  BY AboveUpward
<1>2. ParentsIn(table)[j] \subseteq Above(table)[i]
  BY <1>1 DEF Upward
<1> QED BY <1>1, <1>2, AboveUpward

LEMMA SameCycle ==
  ASSUME NEW table, IsTable(table), NEW i \in DOMAIN table, NEW r \in DOMAIN table,
         r \in Cycle(table, i)
  PROVE  Cycle(table, r) = Cycle(table, i)
<1>1. r \in Above(table)[i] /\ i \in Above(table)[r]
  BY DEF Cycle
<1>2. Above(table)[r] = Above(table)[i]
  <2>1. Above(table)[r] \subseteq Above(table)[i]
    BY <1>1, AboveAbove
  <2>2. Above(table)[i] \subseteq Above(table)[r]
    BY <1>1, AboveAbove
  <2> QED BY <2>1, <2>2
<1>3. \A j \in Above(table)[i] : r \in Above(table)[j] <=> i \in Above(table)[j]
  <2>1. SUFFICES ASSUME NEW j \in Above(table)[i]
                 PROVE  r \in Above(table)[j] <=> i \in Above(table)[j]
    OBVIOUS
  <2>2. j \in DOMAIN table
    BY AboveAbove
  <2>3. r \in Above(table)[j] => Above(table)[r] \subseteq Above(table)[j]
    BY <2>2, AboveAbove
  <2>4. i \in Above(table)[j] => Above(table)[i] \subseteq Above(table)[j]
    BY <2>2, AboveAbove
  <2> QED BY <1>1, <2>3, <2>4
<1> QED BY <1>2, <1>3 DEF Cycle

\* What is found downwards is what has the root above it.
LEMMA BelowIsUnder ==
  ASSUME NEW table, IsTable(table), UniqueIn(table), NEW r \in DOMAIN table
  PROVE  Below(table, {r}) = {i \in DOMAIN table : i = r \/ r \in Above(table)[i]}
<1> DEFINE D == {i \in DOMAIN table : i = r \/ r \in Above(table)[i]}
           B == Below(table, {r})
<1>1. /\ B \in SUBSET DOMAIN table /\ r \in B /\ Downward(table, B)
      /\ \A S \in SUBSET DOMAIN table : r \in S /\ Downward(table, S) => B \subseteq S
  <2>1. {r} \in SUBSET DOMAIN table
    OBVIOUS
  <2>2. \A S : {r} \subseteq S <=> r \in S
    OBVIOUS
  <2> QED BY <2>1, <2>2, BelowIsLeast
<1> HIDE DEF B
<1>2. Downward(table, D)
  <2>1. SUFFICES ASSUME NEW m \in D, NEW i \in Kids(table, m) PROVE i \in D
    BY DEF Downward
  <2>2. i \in DOMAIN table /\ m \in DOMAIN table
    BY DEF Kids, ChildrenOf
  <2>3. m \in ParentsIn(table)[i]
    BY <2>2, KidsAreLinked
  <2>4. m \in Above(table)[i]
    BY <2>2, <2>3, AboveUpward
  <2>5. Above(table)[m] \subseteq Above(table)[i]
    BY <2>2, <2>4, AboveAbove
  <2> QED BY <2>2, <2>4, <2>5
<1>3. B \subseteq D
  BY <1>1, <1>2
<1>4. ASSUME NEW i \in DOMAIN table, r \in Above(table)[i] PROVE i \in B
  <2> DEFINE S == {j \in DOMAIN table : j \in B => i \in B}
  <2>1. ASSUME NEW m \in DOMAIN table, NEW j \in ParentsIn(table)[m], j \in B PROVE m \in B
    <3>1. j \in DOMAIN table
      BY <1>1, <2>1
    <3>2. CASE j = m
      BY <2>1, <3>2
    <3>3. CASE j # m
      <4>1. m \in Kids(table, j)
        BY <2>1, <3>1, <3>3, KidsAreLinked
      <4> QED BY <1>1, <2>1, <4>1 DEF Downward
    <3> QED BY <3>2, <3>3
  <2>2. ParentsIn(table) \in [DOMAIN table -> SUBSET DOMAIN table]
    BY LinksAreParents
  <2>3. ParentsIn(table)[i] \subseteq S
    BY <1>4, <2>1, <2>2
  <2>4. Upward(ParentsIn(table), S)
    <3>1. \A m \in S : m \in DOMAIN table /\ ParentsIn(table)[m] \in SUBSET DOMAIN table
      BY <2>2
    <3> QED BY <2>1, <3>1 DEF Upward
  <2>5. S \in SUBSET DOMAIN table
    OBVIOUS
  <2> HIDE DEF S
  <2>6. r \in S
    BY <1>4, <2>3, <2>4, <2>5, AboveUpward
  <2> QED BY <1>1, <2>6 DEF S
<1> QED BY <1>1, <1>3, <1>4 DEF B

OnLongCycle(table, r) == Cardinality(Cycle(table, r)) > 1

LEMMA LongCycle ==
  ASSUME NEW table, IsTable(table), NEW r \in DOMAIN table
  PROVE  /\ OnLongCycle(table, r) <=> \E j \in Cycle(table, r) : j # r
         /\ OnLongCycle(table, r) => r \in Cycle(table, r)
<1> DEFINE C == Cycle(table, r)
<1>1. C \in SUBSET DOMAIN table
  BY AboveUpward DEF Cycle
<1>2. IsFiniteSet(C) /\ Cardinality(C) \in Nat
  BY <1>1, TableIsFinite
<1>3. \A j \in C : r \in C
  <2>1. SUFFICES ASSUME NEW j \in C PROVE r \in C
    OBVIOUS
  <2>2. j \in Above(table)[r] /\ r \in Above(table)[j]
    BY DEF Cycle
  <2>3. r \in Above(table)[r]
    BY <2>2, AboveAbove
  <2> QED BY <2>3 DEF Cycle
<1> HIDE DEF C
<1>4. ASSUME NEW j \in C, j # r PROVE Cardinality(C) > 1
  <2>1. Cardinality(C) # 0 /\ Cardinality(C) # 1
    <3>1. C # {} /\ ~(\E x : C = {x})
      BY <1>3, <1>4
    <3> QED BY <1>2, <3>1, FS_EmptySet, FS_Singleton
  <2> QED BY <1>2, <2>1
<1>5. ASSUME \A j \in C : j = r PROVE ~(Cardinality(C) > 1)
  <2>1. C = {} \/ C = {r}
    BY <1>5
  <2>2. Cardinality(C) = 0 \/ Cardinality(C) = 1
    BY <2>1, FS_EmptySet, FS_Singleton
  <2> QED BY <2>2
<1>6. Cardinality(C) > 1 => r \in C
  BY <1>3, <1>5
<1> QED BY <1>4, <1>5, <1>6 DEF OnLongCycle, C

\* The root of a subtree is found again below itself if it is on a cycle of several.
LEMMA RootIsAKid ==
  ASSUME NEW table, IsTable(table), UniqueIn(table), NEW r \in DOMAIN table
  PROVE  r \in KidsOf(table, Below(table, {r})) <=> OnLongCycle(table, r)
<1> DEFINE B == Below(table, {r})
<1>1. \A i : i \in B <=> i \in DOMAIN table /\ (i = r \/ r \in Above(table)[i])
  BY BelowIsUnder
<1> HIDE DEF B
<1>2. ASSUME NEW a \in B, r \in Kids(table, a) PROVE OnLongCycle(table, r)
  <2>1. a \in DOMAIN table
    BY <1>1
  <2>2. a \in ParentsIn(table)[r] /\ a # r
    BY <1>2, <2>1, KidsAreLinked
  <2>3. a \in Above(table)[r]
    BY <2>2, AboveUpward
  <2>4. r \in Above(table)[a]
    BY <1>1, <2>2
  <2>5. a \in Cycle(table, r)
    BY <2>3, <2>4 DEF Cycle
  <2> QED BY <2>2, <2>5, LongCycle
<1>3. ASSUME OnLongCycle(table, r) PROVE \E a \in B : r \in Kids(table, a)
  <2>1. PICK j \in Cycle(table, r) : j # r
    BY <1>3, LongCycle
  <2>2. j \in Above(table)[r] /\ r \in Above(table)[j]
    BY DEF Cycle
  <2>3. PICK a \in DOMAIN table : /\ ParentsIn(table)[r] = {a}
                                  /\ Above(table)[r] = {a} \cup Above(table)[a]
    BY <2>2, OneParent
  <2>4. r \in Above(table)[a]
    BY <2>2, <2>3, AboveAbove
  <2>5. a # r
    <3>1. SUFFICES ASSUME a = r PROVE FALSE
      OBVIOUS
    <3>2. {r} \in SUBSET DOMAIN table /\ ParentsIn(table)[r] \subseteq {r}
          /\ Upward(ParentsIn(table), {r})
      BY <2>3, <3>1 DEF Upward
    <3>3. Above(table)[r] \subseteq {r}
      BY <3>2, AboveUpward
    <3> QED BY <2>1, <2>2, <3>3
  <2>6. r \in Kids(table, a)
    BY <2>3, <2>5, KidsAreLinked
  <2>7. a \in B
    BY <1>1, <2>4
  <2> QED BY <2>6, <2>7
<1> QED BY <1>2, <1>3 DEF KidsOf, B

\* Every process below the root but the root is found there.
LEMMA OthersAreKids ==
  ASSUME NEW table, IsTable(table), UniqueIn(table), NEW r \in DOMAIN table,
         NEW i \in Below(table, {r}), i # r
  PROVE  /\ i \in KidsOf(table, Below(table, {r}))
         /\ \E a \in Below(table, {r}) : ParentsIn(table)[i] = {a}
<1> DEFINE B == Below(table, {r})
<1>1. \A j : j \in B <=> j \in DOMAIN table /\ (j = r \/ r \in Above(table)[j])
  BY BelowIsUnder
<1> HIDE DEF B
<1>2. i \in DOMAIN table /\ r \in Above(table)[i]
  BY <1>1 DEF B
<1>3. PICK a \in DOMAIN table : /\ ParentsIn(table)[i] = {a}
                                /\ Above(table)[i] = {a} \cup Above(table)[a]
  BY <1>2, OneParent
<1>4. a \in B
  BY <1>1, <1>2, <1>3
<1>5. a # i
  <2>1. SUFFICES ASSUME a = i PROVE FALSE
    OBVIOUS
  <2>2. {i} \in SUBSET DOMAIN table /\ ParentsIn(table)[i] \subseteq {i}
        /\ Upward(ParentsIn(table), {i})
    BY <1>2, <1>3, <2>1 DEF Upward
  <2>3. Above(table)[i] \subseteq {i}
    BY <1>2, <2>2, AboveUpward
  <2> QED BY <1>2, <2>3
<1>6. i \in Kids(table, a)
  BY <1>2, <1>3, <1>5, KidsAreLinked
<1> QED BY <1>3, <1>4, <1>6 DEF KidsOf, B

\* What the walk of a process's subtree returns.
LEMMA SubtreeIsBelow ==
  ASSUME NEW table, IsTable(table), NEW r \in DOMAIN table
  PROVE  LET subtree == Subtree(table, table[r].identity)
         IN /\ Lists(subtree.members, Below(table, {r}))
            /\ UniqueIn(table) =>
                 subtree.cyclesBroken = IF OnLongCycle(table, r) THEN 1 ELSE 0
<1> DEFINE B == Below(table, {r})
           K == KidsOf(table, B)
           w == Walk(table, <<r>>)
<1>1. Subtree(table, table[r].identity) = w
  <2>1. Present(table, table[r].identity)
    BY DEF Present
  <2>2. (CHOOSE i \in DOMAIN table : table[i].identity = table[r].identity) = r
    BY DEF IsTable
  <2> QED BY <2>1, <2>2 DEF Subtree
<1>2. Lists(<<r>>, {r})
  <2>1. Len(<<r>>) = 1 /\ <<r>>[1] = r /\ <<r>> \in Seq({r})
    OBVIOUS
  <2> QED BY <2>1 DEF Lists
<1>3. {r} \in SUBSET DOMAIN table
  OBVIOUS
<1>4. /\ Lists(w.members, B)
      /\ UniqueIn(table) => w.cyclesBroken = Cardinality(K) + Cardinality({r}) - Cardinality(B)
  BY <1>2, <1>3, WalkVisits
<1>5. B \in SUBSET DOMAIN table /\ r \in B /\ K \subseteq B
  BY <1>3, BelowIsLeast DEF Downward, KidsOf
<1>6. IsFiniteSet(B) /\ Cardinality(B) \in Nat /\ Cardinality({r}) = 1
  BY <1>5, TableIsFinite, FS_Singleton
<1>7. ASSUME UniqueIn(table)
      PROVE  Cardinality(K) = IF OnLongCycle(table, r) THEN Cardinality(B) ELSE Cardinality(B) - 1
  <2>1. \A i \in B \ {r} : i \in K
    BY <1>7, OthersAreKids
  <2>2. r \in K <=> OnLongCycle(table, r)
    BY <1>7, RootIsAKid
  <2>3. K = IF OnLongCycle(table, r) THEN B ELSE B \ {r}
    BY <1>5, <2>1, <2>2
  <2> HIDE DEF B, K
  <2>4. Cardinality(B \ {r}) = Cardinality(B) - 1
    BY <1>5, <1>6, FS_RemoveElement
  <2> QED BY <2>3, <2>4
<1> HIDE DEF B, K, w
<1>8. UniqueIn(table) => w.cyclesBroken = IF OnLongCycle(table, r) THEN 1 ELSE 0
  BY <1>4, <1>6, <1>7
<1> QED BY <1>1, <1>4, <1>8 DEF B

\* What the cuts leave above a process was above it.
LEMMA UpIsAbove ==
  ASSUME NEW table, IsTable(table), NEW i \in DOMAIN table
  PROVE  Up(table)[i] \subseteq Above(table)[i]
<1> DEFINE A == Above(table)[i]
<1>1. A \in SUBSET DOMAIN table /\ ParentsIn(table)[i] \subseteq A /\ Upward(ParentsIn(table), A)
  BY AboveUpward
<1> HIDE DEF A
<1>2. \A j \in DOMAIN table : Uncut(table)[j] \subseteq ParentsIn(table)[j]
  BY UncutLinks
<1>3. Uncut(table)[i] \subseteq A /\ Upward(Uncut(table), A)
  BY <1>1, <1>2 DEF Upward
<1> QED BY <1>1, <1>3, UpIsLeast DEF A

\* What is cut is the lowest of its cycle.
LEMMA CutIsLowest ==
  ASSUME NEW table, IsTable(table), NEW i \in DOMAIN table
  PROVE  /\ i \in Broken(table).cut =>
              Cycle(table, i) # {} /\ i = Lowest(table, Cycle(table, i))
         /\ i \notin Broken(table).cut => Uncut(table)[i] = ParentsIn(table)[i]
<1>1. Broken(table).cut = Cuts(table, Broken(table).done)
  BY BrokenCutsCycles DEF IsWalked
<1> QED BY <1>1 DEF Cuts, Uncut

\* A scope is not under any of its own processes at its root, or where the cycle through
\* its root was cut.
IsTop(table, r, i) == i \in Below(table, {r}) /\ Up(table)[i] \cap Below(table, {r}) = {}

LEMMA TopOfScope ==
  ASSUME NEW table, IsTable(table), UniqueIn(table), NEW r \in DOMAIN table,
         NEW i, IsTop(table, r, i)
  PROVE  /\ i \in DOMAIN table
         /\ i = r \/ (r \in Cycle(table, i) /\ i = Lowest(table, Cycle(table, i)))
<1> DEFINE B == Below(table, {r})
<1>1. \A j : j \in B <=> j \in DOMAIN table /\ (j = r \/ r \in Above(table)[j])
  BY BelowIsUnder
<1>2. i \in DOMAIN table /\ i \in B
  BY <1>1 DEF IsTop
<1>3. CASE i # r
  <2>1. PICK a \in B : ParentsIn(table)[i] = {a}
    BY <1>2, <1>3, OthersAreKids
  <2>2. Uncut(table)[i] \subseteq Up(table)[i]
    BY <1>2, UpIsLeast
  <2>3. i \in Broken(table).cut
    BY <1>2, <2>1, <2>2, CutIsLowest DEF IsTop
  <2>4. Cycle(table, i) # {} /\ i = Lowest(table, Cycle(table, i))
    BY <1>2, <2>3, CutIsLowest
  <2>5. i \in Above(table)[i]
    BY <1>2, <2>4, OnCycle
  <2>6. r \in Above(table)[i]
    BY <1>1, <1>2, <1>3
  <2>7. i \in Above(table)[r]
    BY <1>2, <2>5, <2>6, AboveACycle
  <2> QED BY <1>2, <2>4, <2>6, <2>7 DEF Cycle
<1> QED BY <1>2, <1>3

LEMMA OneTop ==
  ASSUME NEW table, IsTable(table), UniqueIn(table), NEW r \in DOMAIN table,
         NEW i, IsTop(table, r, i), NEW j, IsTop(table, r, j)
  PROVE  i = j
<1>1. ASSUME NEW k, IsTop(table, r, k), IsTop(table, r, r) PROVE k = r
  <2>1. SUFFICES ASSUME k # r PROVE FALSE
    OBVIOUS
  <2>2. k \in DOMAIN table /\ r \in Cycle(table, k) /\ k = Lowest(table, Cycle(table, k))
    BY <1>1, <2>1, TopOfScope
  <2>3. Cycle(table, r) = Cycle(table, k)
    BY <2>2, SameCycle
  <2>4. r \notin Broken(table).cut
    BY <2>1, <2>2, <2>3, CutIsLowest
  <2>5. r \in Above(table)[r]
    BY <2>2, <2>3, OnCycle
  <2>6. PICK a \in DOMAIN table : /\ ParentsIn(table)[r] = {a}
                                  /\ Above(table)[r] = {a} \cup Above(table)[a]
    BY <2>5, OneParent
  <2>7. a \in Below(table, {r})
    BY <2>5, <2>6, BelowIsUnder
  <2>8. a \in Up(table)[r]
    BY <2>4, <2>6, CutIsLowest, UpIsLeast
  <2> QED BY <1>1, <2>7, <2>8 DEF IsTop
<1>2. CASE i # r /\ j # r
  <2>1. i \in DOMAIN table /\ r \in Cycle(table, i) /\ i = Lowest(table, Cycle(table, i))
    BY <1>2, TopOfScope
  <2>2. j \in DOMAIN table /\ r \in Cycle(table, j) /\ j = Lowest(table, Cycle(table, j))
    BY <1>2, TopOfScope
  <2>3. Cycle(table, r) = Cycle(table, i)
    BY <2>1, SameCycle
  <2>4. Cycle(table, r) = Cycle(table, j)
    BY <2>2, SameCycle
  <2> QED BY <2>1, <2>2, <2>3, <2>4
<1>3. CASE i = r
  BY <1>1, <1>3
<1>4. CASE j = r
  BY <1>1, <1>4
<1> QED BY <1>2, <1>3, <1>4

\* Without a cycle through it, what is below a process is what it is left above of.
LEMMA BelowIsLeftUnder ==
  ASSUME NEW table, IsTable(table), UniqueIn(table), NEW r \in DOMAIN table,
         ~OnLongCycle(table, r)
  PROVE  Below(table, {r}) = {i \in DOMAIN table : i = r \/ r \in Up(table)[i]}
<1> DEFINE D == {i \in DOMAIN table : i = r \/ r \in Up(table)[i]}
<1>1. D \subseteq Below(table, {r})
  <2>1. SUFFICES ASSUME NEW i \in DOMAIN table, i = r \/ r \in Up(table)[i]
                 PROVE  i \in Below(table, {r})
    OBVIOUS
  <2>2. i = r \/ r \in Above(table)[i]
    BY <2>1, UpIsAbove
  <2> QED BY <2>2, BelowIsUnder
<1>2. ASSUME NEW m \in D, NEW i \in Kids(table, m), i # r PROVE r \in Up(table)[i]
  <2>1. m \in DOMAIN table /\ i \in DOMAIN table
    BY DEF Kids, ChildrenOf
  <2>2. m \in ParentsIn(table)[i] /\ m # i
    BY <2>1, KidsAreLinked
  <2>3. m \in Above(table)[i]
    BY <2>1, <2>2, AboveUpward
  <2>4. r \in Above(table)[i]
    <3>1. m = r \/ r \in Above(table)[m]
      BY <2>1, UpIsAbove
    <3>2. Above(table)[m] \subseteq Above(table)[i]
      BY <2>1, <2>3, AboveAbove
    <3> QED BY <2>3, <3>1, <3>2
  <2>5. i \notin Broken(table).cut
    <3>1. SUFFICES ASSUME i \in Broken(table).cut PROVE FALSE
      OBVIOUS
    <3>2. Cycle(table, i) # {}
      BY <2>1, <3>1, CutIsLowest
    <3>3. i \in Above(table)[i]
      BY <2>1, <3>2, OnCycle
    <3>4. i \in Above(table)[r]
      BY <2>1, <2>4, <3>3, AboveACycle
    <3>5. i \in Cycle(table, r)
      BY <2>1, <2>4, <3>4 DEF Cycle
    <3> QED BY <1>2, <3>5, LongCycle
  <2>6. m \in Uncut(table)[i]
    BY <2>1, <2>2, <2>5, CutIsLowest
  <2>7. m \in Up(table)[i] /\ Up(table)[m] \subseteq Up(table)[i]
    BY <2>1, <2>6, UpIsLeast
  <2> QED BY <2>7
<1>3. Downward(table, D)
  <2>1. SUFFICES ASSUME NEW m \in D, NEW i \in Kids(table, m) PROVE i \in D
    BY DEF Downward
  <2>2. i \in DOMAIN table
    BY DEF Kids, ChildrenOf
  <2> QED BY <1>2, <2>2
<1>4. D \in SUBSET DOMAIN table /\ {r} \subseteq D /\ {r} \in SUBSET DOMAIN table
  OBVIOUS
<1> HIDE DEF D
<1>5. Below(table, {r}) \subseteq D
  BY <1>3, <1>4, BelowIsLeast
<1> QED BY <1>1, <1>5 DEF D

LEMMA ShownOnce ==
  ASSUME NEW table, IsTable(table), NEW R \in SUBSET DOMAIN table, NEW list,
         ShowsEveryone(table, R, list)
  PROVE  \A k, m \in 1..Len(list) : list[k].node = list[m].node => k = m
<1> DEFINE n == Len(list)
           f == [k \in 1..n |-> list[k].node]
<1>1. n \in Nat /\ n = Cardinality(R) /\ R = {list[k].node : k \in 1..n}
  BY DEF ShowsEveryone
<1> HIDE DEF n
<1>2. f \in Surjection(1..n, R)
  BY <1>1 DEF Surjection
<1>3. IsFiniteSet(1..n) /\ Cardinality(1..n) = n
  BY <1>1, FS_Interval
<1> HIDE DEF f
<1>4. f \in Injection(1..n, R)
  BY <1>1, <1>2, <1>3, FS_Surjection
<1>5. \A k, m \in 1..n : f[k] = f[m] => k = m
  BY <1>4 DEF Injection, IsInjective
<1> QED BY <1>5 DEF f, n

\* The rows of a scope: one of them is a root.
LEMMA ScopeHasOneTop ==
  ASSUME NEW table, IsTable(table), UniqueIn(table), NEW r \in DOMAIN table,
         NEW list, ShowsEveryone(table, Below(table, {r}), list),
         HangsUnderNearest(table, Below(table, {r}), list), DrawsTrees(list)
  PROVE  /\ Cardinality({k \in DOMAIN list : list[k].depth = 0}) = 1
         /\ IsTop(table, r, list[1].node)
<1> DEFINE B == Below(table, {r})
           n == Len(list)
           p == [k \in 1..n |-> list[k].parentRow]
           d == [k \in 1..n |-> list[k].depth]
<1>1. B \in SUBSET DOMAIN table /\ r \in B
  <2>1. {r} \in SUBSET DOMAIN table
    OBVIOUS
  <2> QED BY <2>1, BelowIsLeast
<1>2. n \in Nat /\ DOMAIN list = 1..n /\ B = {list[k].node : k \in 1..n}
  BY DEF ShowsEveryone
<1>3. \A k, m \in 1..n : list[k].node = list[m].node => k = m
  BY <1>1, ShownOnce
<1>4. IsForest(n, p, d)
  BY DEF DrawsTrees
<1>5. ASSUME NEW k \in 1..n PROVE list[k].depth = 0 <=> list[k].parentRow = 0
  <2>1. p[k] \in Nat /\ p[k] < k /\ d[k] = IF p[k] = 0 THEN 0 ELSE d[p[k]] + 1
    BY <1>4 DEF IsForest
  <2>2. p[k] # 0 => d[p[k]] \in Nat
    <3>1. p[k] # 0 => p[k] \in 1..n
      BY <1>2, <2>1
    <3>2. d \in [1..n -> Nat]
      BY <1>4 DEF IsForest
    <3> HIDE DEF d, p
    <3> QED BY <3>1, <3>2
  <2>3. d[k] = list[k].depth /\ p[k] = list[k].parentRow
    OBVIOUS
  <2> HIDE DEF d, p
  <2> QED BY <2>1, <2>2, <2>3
<1>6. ASSUME NEW k \in 1..n PROVE list[k].parentRow = 0 <=> IsTop(table, r, list[k].node)
  <2>1. list[k].node \in B
    BY <1>2
  <2>2. IF Up(table)[list[k].node] \cap B = {} THEN list[k].parentRow = 0
        ELSE list[k].parentRow \in 1..n
    BY DEF HangsUnderNearest
  <2>3. 0 \notin 1..n
    BY <1>2
  <2> HIDE DEF B, n
  <2>4. list[k].parentRow = 0 <=> Up(table)[list[k].node] \cap B = {}
    BY <2>2, <2>3
  <2> QED BY <2>1, <2>4 DEF IsTop, B
<1> HIDE DEF n
<1>7. 1 \in 1..n
  <2>1. \E k : k \in 1..n
    BY <1>1, <1>2
  <2> QED BY <1>2, <2>1
<1>8. list[1].parentRow = 0
  <2>1. p[1] \in Nat /\ p[1] < 1
    BY <1>4, <1>7 DEF IsForest
  <2>2. p[1] = 0
    BY <2>1
  <2> QED BY <1>7, <2>2
<1>9. IsTop(table, r, list[1].node)
  BY <1>6, <1>7, <1>8
<1>10. \A k \in 1..n : list[k].depth = 0 => k = 1
  <2>1. SUFFICES ASSUME NEW k \in 1..n, list[k].depth = 0 PROVE k = 1
    OBVIOUS
  <2>2. IsTop(table, r, list[k].node)
    BY <1>5, <1>6, <2>1
  <2>3. list[k].node = list[1].node
    BY <1>9, <2>2, OneTop
  <2> QED BY <1>3, <1>7, <2>3
<1>11. {k \in DOMAIN list : list[k].depth = 0} = {1}
  BY <1>2, <1>5, <1>7, <1>8, <1>10
<1>12. Cardinality({1}) = 1
  BY FS_Singleton
<1> QED BY <1>9, <1>11, <1>12

\* Where every process has a row, what is above a row is what is left above its process.
LEMMA RowsFollowLinks ==
  ASSUME NEW table, IsTable(table), NEW list,
         ShowsEveryone(table, DOMAIN table, list), HangsUnderNearest(table, DOMAIN table, list),
         NEW n, n = Len(list), NEW p, NEW d, IsForest(n, p, d),
         \A j \in 1..n : p[j] = list[j].parentRow, NEW k \in 1..n
  PROVE  \A m \in 1..n : k \in RowsUp(n, p)[m] <=> list[k].node \in Up(table)[list[m].node]
<1> DEFINE Same(m) == k \in RowsUp(n, p)[m] <=> list[k].node \in Up(table)[list[m].node]
           Bad == {m \in 1..n : ~Same(m)}
<1>1. SUFFICES ASSUME Bad # {} PROVE FALSE
  OBVIOUS
<1>2. n \in Nat /\ \A m \in 1..n : list[m].node \in DOMAIN table
  BY DEF ShowsEveryone
<1>3. PICK m \in Bad : \A j \in Bad : m <= j
  <2>1. Bad \subseteq Nat
    BY <1>2
  <2> HIDE DEF Bad
  <2> QED BY <1>1, <2>1, NatMinimum
<1>4. m \in 1..n /\ ~Same(m)
  OBVIOUS
<1> DEFINE a == p[m]
           i == list[m].node
<1>5. /\ a \in Nat /\ a < m
      /\ a = 0 => RowsUp(n, p)[m] = {}
      /\ a # 0 => a \in 1..n /\ RowsUp(n, p)[m] = {a} \cup RowsUp(n, p)[a]
  <2> HIDE DEF Bad, Same
  <2>1. m \in 1..n
    BY <1>4
  <2>2. IsForest(n, p, d)
    OBVIOUS
  <2> QED BY <2>1, <2>2, RowUp
<1>6. i \in DOMAIN table /\ Up(table)[i] \in SUBSET DOMAIN table
      /\ \A j \in Up(table)[i] : Up(table)[j] \subseteq Up(table)[i]
  BY <1>2, <1>4, UpIsLeast
<1>7. IF Up(table)[i] = {} THEN a = 0
      ELSE /\ a \in 1..n /\ list[a].node \in Up(table)[i]
           /\ Up(table)[i] \subseteq {list[a].node} \cup Up(table)[list[a].node]
  <2>1. Up(table)[i] \cap DOMAIN table = Up(table)[i]
    BY <1>6
  <2>2. a = list[m].parentRow
    BY <1>4
  <2> HIDE DEF a
  <2> QED BY <1>4, <2>1, <2>2 DEF HangsUnderNearest
<1> HIDE DEF a, i
<1>8. CASE Up(table)[i] = {}
  BY <1>4, <1>5, <1>7, <1>8 DEF i
<1>9. CASE Up(table)[i] # {}
  <2>1. a \in 1..n /\ a # 0 /\ list[a].node \in Up(table)[i]
    BY <1>7, <1>9
  <2>2. Up(table)[i] = {list[a].node} \cup Up(table)[list[a].node]
    BY <1>6, <1>7, <1>9, <2>1
  <2>3. RowsUp(n, p)[m] = {a} \cup RowsUp(n, p)[a]
    BY <1>5, <2>1
  <2>4. Same(a)
    <3>1. ~(m <= a)
      BY <1>4, <1>5, <2>1
    <3>2. a \notin Bad
      BY <1>3, <3>1
    <3> QED BY <2>1, <3>2
  <2>5. k = a <=> list[k].node = list[a].node
    <3>1. DOMAIN table \in SUBSET DOMAIN table
      OBVIOUS
    <3>2. \A x, y \in 1..n : list[x].node = list[y].node => x = y
      BY <3>1, ShownOnce
    <3> QED BY <2>1, <3>2
  <2> QED BY <1>4, <2>2, <2>3, <2>4, <2>5 DEF i
<1> QED BY <1>8, <1>9

LEMMA BlockIsUnder ==
  ASSUME NEW table, IsTable(table), NEW list,
         ShowsEveryone(table, DOMAIN table, list), HangsUnderNearest(table, DOMAIN table, list),
         DrawsTrees(list), NEW k \in DOMAIN list, NEW r, r = list[k].node
  PROVE  /\ r \in DOMAIN table
         /\ {list[m].node : m \in k..k + list[k].descendants}
              = {i \in DOMAIN table : i = r \/ r \in Up(table)[i]}
<1> DEFINE n == Len(list)
           p == [j \in 1..n |-> list[j].parentRow]
           d == [j \in 1..n |-> list[j].depth]
           s == list[k].descendants
           above == Ancestors([j \in DOMAIN list |-> {list[j].parentRow} \ {0}])
<1>1. n \in Nat /\ DOMAIN list = 1..n /\ DOMAIN table = {list[j].node : j \in 1..n}
  BY DEF ShowsEveryone
<1>2. IsForest(n, p, d) /\ IsExtent(n, d, k, s)
  BY <1>1 DEF DrawsTrees
<1>3. s \in Nat
  BY <1>2 DEF IsExtent
<1>4. {m \in DOMAIN list : k \in above[m]} = k + 1..k + s
  <2> HIDE DEF above
  <2>1. above = Ancestors([j \in DOMAIN list |-> {list[j].parentRow} \ {0}])
    BY DEF above
  <2> QED BY <2>1, DrawnAreTrees
<1>5. above = RowsUp(n, p)
  <2>1. [j \in DOMAIN list |-> {list[j].parentRow} \ {0}] = [j \in 1..n |-> {p[j]} \ {0}]
    BY <1>1
  <2> QED BY <2>1 DEF RowsUp
<1> HIDE DEF above, s
<1>6. \A m \in 1..n : k \in above[m] <=> r \in Up(table)[list[m].node]
  <2> HIDE DEF n, p, d
  <2>1. n = Len(list) /\ (\A j \in 1..n : p[j] = list[j].parentRow) /\ k \in 1..n
    BY <1>1 DEF n, p
  <2> QED BY <1>2, <1>5, <2>1, RowsFollowLinks
<1> HIDE DEF n, p, d
<1>7. \A m : m \in k..k + s <=> m \in 1..n /\ (m = k \/ r \in Up(table)[list[m].node])
  <2>1. k \in Nat /\ k \in 1..n
    BY <1>1
  <2>2. \A m : m \in k..k + s <=> m = k \/ m \in k + 1..k + s
    BY <1>3, <2>1
  <2>3. \A m : m \in k + 1..k + s <=> m \in 1..n /\ r \in Up(table)[list[m].node]
    BY <1>1, <1>4, <1>6
  <2> QED BY <2>1, <2>2, <2>3
<1>8. \A m \in 1..n : list[m].node = r => m = k
  <2>1. DOMAIN table \in SUBSET DOMAIN table
    OBVIOUS
  <2>2. \A x, y \in 1..n : list[x].node = list[y].node => x = y
    BY <2>1, ShownOnce DEF n
  <2> QED BY <1>1, <2>2
<1> QED BY <1>1, <1>7, <1>8 DEF s

LEMMA MembersAreBelow ==
  ASSUME NEW table, IsTable(table), NEW r \in DOMAIN table
  PROVE  LET members == Subtree(table, table[r].identity).members
         IN /\ Range(members) = Below(table, {r})
            /\ Len(members) = Cardinality(Below(table, {r}))
<1> DEFINE members == Subtree(table, table[r].identity).members
           B == Below(table, {r})
<1>1. Lists(members, B)
  BY SubtreeIsBelow
<1> HIDE DEF members, B
<1>2. Len(members) = Cardinality(B) /\ Len(members) \in Nat
  BY <1>1, ListLength
<1>3. DOMAIN members = 1..Len(members)
  BY <1>1, LenProperties DEF Lists
<1>4. Range(members) = B
  BY <1>1, <1>3 DEF Lists, Range
<1> QED BY <1>2, <1>4 DEF members, B

\* A scope whose root is gone holds nothing.
LEMMA GoneHasNoMembers ==
  ASSUME NEW table, IsTable(table), NEW root, ~Present(table, root)
  PROVE  Range(Subtree(table, root).members) = {}
<1> DEFINE w == Walk(table, << >>)
<1>1. Subtree(table, root) = w
  BY DEF Subtree
<1>2. {} \in SUBSET DOMAIN table /\ Lists(<< >>, {})
  BY NoneListed
<1>3. Lists(w.members, Below(table, {}))
  BY <1>2, WalkVisits
<1>4. Below(table, {}) = {}
  <2>1. Downward(table, {})
    BY DEF Downward
  <2> QED BY <1>2, <2>1, BelowIsLeast
<1> HIDE DEF w
<1>5. DOMAIN w.members = 1..Len(w.members)
  BY <1>3, LenProperties DEF Lists
<1>6. Range(w.members) = {}
  BY <1>3, <1>4, <1>5 DEF Lists, Range
<1> QED BY <1>1, <1>6
-----------------------------------------------------------------------------
(* The order of the snapshot *)

\* Two tables of the same processes, and where those of the one are in the other.
IsMove(table, other, at) ==
  /\ IsTable(table) /\ IsTable(other)
  /\ at \in [DOMAIN table \cup {0} -> DOMAIN other \cup {0}] /\ at[0] = 0
  /\ \A i \in DOMAIN table : at[i] \in DOMAIN other /\ other[at[i]] = table[i]
  /\ \A j \in DOMAIN other : \E i \in DOMAIN table : at[i] = j

Moved(at, S) == {at[i] : i \in S}

\* A process is in one place of either table.
LEMMA MoveIsOneToOne ==
  ASSUME NEW table, NEW other, NEW at, IsMove(table, other, at)
  PROVE  /\ 0 \notin DOMAIN table /\ 0 \notin DOMAIN other
         /\ \A i, j \in DOMAIN table \cup {0} : at[i] = at[j] => i = j
         /\ \A i \in DOMAIN table : at[i] # 0
<1>1. IsTable(table) /\ IsTable(other)
  BY DEF IsMove
<1>2. 0 \notin DOMAIN table /\ 0 \notin DOMAIN other
  BY <1>1, Entries
<1>3. \A i \in DOMAIN table : at[i] # 0
  BY <1>2 DEF IsMove
<1>4. ASSUME NEW i \in DOMAIN table, NEW j \in DOMAIN table, at[i] = at[j] PROVE i = j
  <2>1. table[i] = table[j]
    BY <1>4 DEF IsMove
  <2> QED BY <1>1, <2>1 DEF IsTable
<1> QED BY <1>2, <1>3, <1>4 DEF IsMove

\* Snapshots of the same processes differ in their order only.
LEMMA SameProcessesMove ==
  ASSUME NEW table, IsTable(table), NEW other, IsTable(other), Range(table) = Range(other)
  PROVE  \E at : IsMove(table, other, at)
<1> DEFINE T == DOMAIN table
           U == DOMAIN other
           at == [i \in T \cup {0} |-> IF i = 0 THEN 0 ELSE CHOOSE j \in U : other[j] = table[i]]
<1>1. 0 \notin T
  BY Entries
<1>2. ASSUME NEW i \in T PROVE at[i] \in U /\ other[at[i]] = table[i]
  <2>1. table[i] \in Range(other)
    BY DEF Range
  <2>2. \E j \in U : other[j] = table[i]
    BY <2>1 DEF Range
  <2>3. at[i] = CHOOSE j \in U : other[j] = table[i]
    BY <1>1
  <2> QED BY <2>2, <2>3
<1>3. at[0] = 0 /\ at \in [T \cup {0} -> U \cup {0}]
  <2>1. \A i \in T \cup {0} : at[i] \in U \cup {0}
    BY <1>2
  <2> QED BY <2>1
<1> HIDE DEF at
<1>4. ASSUME NEW j \in U PROVE \E i \in T : at[i] = j
  <2>1. other[j] \in Range(table)
    BY DEF Range
  <2>2. PICK i \in T : table[i] = other[j]
    BY <2>1 DEF Range
  <2>3. at[i] \in U /\ other[at[i]] = other[j]
    BY <1>2, <2>2
  <2>4. at[i] = j
    BY <2>3 DEF IsTable
  <2> QED BY <2>4
<1>5. IsMove(table, other, at)
  BY <1>2, <1>3, <1>4 DEF IsMove
<1> QED BY <1>5

\* The way back.
IsWayBack(table, other, at, back) ==
  /\ IsMove(other, table, back)
  /\ \A i \in DOMAIN table \cup {0} : back[at[i]] = i
  /\ \A j \in DOMAIN other \cup {0} : at[back[j]] = j

LEMMA MovesBack ==
  ASSUME NEW table, NEW other, NEW at, IsMove(table, other, at)
  PROVE  \E back : IsWayBack(table, other, at, back)
<1> DEFINE T == DOMAIN table
           U == DOMAIN other
           back == [j \in U \cup {0} |-> CHOOSE i \in T \cup {0} : at[i] = j]
<1>1. /\ \A i, j \in T \cup {0} : at[i] = at[j] => i = j
      /\ 0 \notin T /\ 0 \notin U
  BY MoveIsOneToOne
<1>2. /\ at \in [T \cup {0} -> U \cup {0}] /\ at[0] = 0
      /\ \A i \in T : at[i] \in U /\ other[at[i]] = table[i]
      /\ \A j \in U : \E i \in T : at[i] = j
      /\ IsTable(table) /\ IsTable(other)
  BY DEF IsMove
<1>3. \A j \in U \cup {0} : back[j] \in T \cup {0} /\ at[back[j]] = j
  <2>1. SUFFICES ASSUME NEW j \in U \cup {0} PROVE back[j] \in T \cup {0} /\ at[back[j]] = j
    OBVIOUS
  <2>2. \E i \in T \cup {0} : at[i] = j
    BY <1>2
  <2> QED BY <2>2
<1>4. back \in [U \cup {0} -> T \cup {0}]
  <2>1. \A j \in U \cup {0} : back[j] \in T \cup {0}
    BY <1>3
  <2> QED BY <2>1
<1> HIDE DEF back
<1>5. \A i \in T \cup {0} : back[at[i]] = i
  BY <1>1, <1>2, <1>3
<1>6. back[0] = 0
  BY <1>2, <1>5
<1>7. ASSUME NEW j \in U PROVE back[j] \in T /\ table[back[j]] = other[j]
  <2>1. back[j] \in T \cup {0} /\ at[back[j]] = j
    BY <1>3
  <2>2. back[j] # 0
    BY <1>1, <1>2, <2>1
  <2> QED BY <1>2, <2>1, <2>2
<1>8. IsMove(other, table, back)
  <2>1. \A i \in T : \E j \in U : back[j] = i
    BY <1>2, <1>5
  <2> QED BY <1>2, <1>4, <1>6, <1>7, <2>1 DEF IsMove
<1> QED BY <1>3, <1>5, <1>8 DEF IsWayBack

\* What is moved has as many members, and as the places it had.
LEMMA MovedSets ==
  ASSUME NEW table, NEW other, NEW at, IsMove(table, other, at), NEW S \in SUBSET DOMAIN table
  PROVE  /\ Moved(at, S) \in SUBSET DOMAIN other
         /\ \A i \in DOMAIN table \cup {0} : at[i] \in Moved(at, S) <=> i \in S
         /\ Cardinality(Moved(at, S)) = Cardinality(S)
         /\ \A A \in SUBSET S : Moved(at, S \ A) = Moved(at, S) \ Moved(at, A)
         /\ S # {} => Moved(at, S) # {}
<1> DEFINE T == DOMAIN table
           U == DOMAIN other
<1>1. /\ \A i, j \in T \cup {0} : at[i] = at[j] => i = j
      /\ \A i \in T : at[i] \in U
      /\ IsTable(table)
  BY MoveIsOneToOne DEF IsMove
<1>2. Moved(at, S) \in SUBSET U
  BY <1>1 DEF Moved
<1>3. \A i \in T \cup {0} : at[i] \in Moved(at, S) <=> i \in S
  BY <1>1 DEF Moved
<1>4. \A A \in SUBSET S : Moved(at, S \ A) = Moved(at, S) \ Moved(at, A)
  BY <1>1 DEF Moved
<1>5. Cardinality(Moved(at, S)) = Cardinality(S)
  <2> DEFINE f == [i \in S |-> at[i]]
  <2>1. IsFiniteSet(S)
    BY <1>1, TableIsFinite
  <2>2. f \in Bijection(S, Moved(at, S))
    BY <1>1 DEF Moved, Bijection, Injection, Surjection, IsInjective
  <2>3. ExistsBijection(S, Moved(at, S))
    BY <2>2 DEF ExistsBijection
  <2> QED BY <2>1, <2>3, FS_Bijection
<1>6. S # {} => Moved(at, S) # {}
  BY DEF Moved
<1> QED BY <1>2, <1>3, <1>4, <1>5, <1>6

\* The lowest identity of a set is the lowest one wherever its processes are listed.
LEMMA LowestMoves ==
  ASSUME NEW table, NEW other, NEW at, IsMove(table, other, at),
         NEW S \in SUBSET DOMAIN table, S # {}
  PROVE  Lowest(other, Moved(at, S)) = at[Lowest(table, S)]
<1> DEFINE low == Lowest(table, S)
<1>1. IsTable(table) /\ IsTable(other) /\ \A i \in DOMAIN table : other[at[i]] = table[i]
  BY DEF IsMove
<1>2. IsLowest(table, S, low)
  BY <1>1, LowestExists
<1> HIDE DEF low
<1>3. low \in S /\ \A j \in S : low = j \/ Lower(table[low].identity, table[j].identity)
  BY <1>2 DEF IsLowest
<1>4. Moved(at, S) \in SUBSET DOMAIN other
  BY MovedSets
<1>5. IsLowest(other, Moved(at, S), at[low])
  <2>1. at[low] \in Moved(at, S)
    BY <1>3 DEF Moved
  <2>2. ASSUME NEW j \in Moved(at, S)
        PROVE  at[low] = j \/ Lower(other[at[low]].identity, other[j].identity)
    <3>1. PICK i \in S : j = at[i]
      BY <2>2 DEF Moved
    <3>2. other[at[low]] = table[low] /\ other[at[i]] = table[i]
      BY <1>1, <1>3
    <3> QED BY <1>3, <3>1, <3>2
  <2> QED BY <2>1, <2>2 DEF IsLowest
<1>6. at[low] = Lowest(other, Moved(at, S))
  BY <1>1, <1>4, <1>5, LowestIsUnique, Zenon
<1> QED BY <1>6 DEF low

\* A set has one first process.
LEMMA FirstIsUnique ==
  ASSUME NEW table, IsTable(table), NEW S \in SUBSET DOMAIN table, NEW down, NEW i,
         IsFirst(table, S, down, i)
  PROVE  i = First(table, S, down)
<1> DEFINE first == First(table, S, down)
<1>1. S # {}
  BY DEF IsFirst
<1>2. IsFirst(table, S, down, first)
  BY <1>1, FirstExists
<1> HIDE DEF first
<1>3. /\ i \in DOMAIN table /\ first \in DOMAIN table
      /\ i = first \/ Before(table, down, i, first)
      /\ i = first \/ Before(table, down, first, i)
  BY <1>2 DEF IsFirst
<1>4. ~(Before(table, down, i, first) /\ Before(table, down, first, i))
  BY <1>3, PrecedesIsAnOrder
<1> QED BY <1>3, <1>4 DEF first

\* And so is the first of a column.
LEMMA FirstMoves ==
  ASSUME NEW table, NEW other, NEW at, IsMove(table, other, at),
         NEW S \in SUBSET DOMAIN table, S # {}, NEW down
  PROVE  First(other, Moved(at, S), down) = at[First(table, S, down)]
<1> DEFINE first == First(table, S, down)
<1>1. IsTable(table) /\ IsTable(other) /\ \A i \in DOMAIN table : other[at[i]] = table[i]
  BY DEF IsMove
<1>2. IsFirst(table, S, down, first)
  BY <1>1, FirstExists
<1> HIDE DEF first
<1>3. first \in S /\ \A j \in S : first = j \/ Before(table, down, first, j)
  BY <1>2 DEF IsFirst
<1>4. Moved(at, S) \in SUBSET DOMAIN other
  BY MovedSets
<1>5. IsFirst(other, Moved(at, S), down, at[first])
  <2>1. at[first] \in Moved(at, S)
    BY <1>3 DEF Moved
  <2>2. ASSUME NEW j \in Moved(at, S)
        PROVE  at[first] = j \/ Before(other, down, at[first], j)
    <3>1. PICK i \in S : j = at[i]
      BY <2>2 DEF Moved
    <3>2. other[at[first]] = table[first] /\ other[at[i]] = table[i]
      BY <1>1, <1>3
    <3>3. Before(table, down, first, i) => Before(other, down, at[first], j)
      BY <3>1, <3>2 DEF Before
    <3> QED BY <1>3, <3>1, <3>3
  <2> QED BY <2>1, <2>2 DEF IsFirst
<1>6. at[first] = First(other, Moved(at, S), down)
  BY <1>1, <1>4, <1>5, FirstIsUnique, Zenon
<1> QED BY <1>6 DEF first

\* So is the owner of a PID.
LEMMA OwnerMoves ==
  ASSUME NEW table, NEW other, NEW at, IsMove(table, other, at), NEW j \in DOMAIN table
  PROVE  Owner(other, table[j].identity.pid) = at[Owner(table, table[j].identity.pid)]
<1> DEFINE pid == table[j].identity.pid
           S == {i \in DOMAIN table : table[i].identity.pid = pid}
           S2 == {i \in DOMAIN other : other[i].identity.pid = pid}
<1>1. S \in SUBSET DOMAIN table /\ S # {}
  OBVIOUS
<1>2. S2 = Moved(at, S)
  BY DEF Moved, IsMove
<1>3. Owner(other, pid) = Lowest(other, S2) /\ Owner(table, pid) = Lowest(table, S)
  BY DEF Owner
<1> HIDE DEF S, S2
<1>4. Lowest(other, Moved(at, S)) = at[Lowest(table, S)]
  BY <1>1, LowestMoves
<1> HIDE DEF pid
<1>5. Owner(other, pid) = at[Owner(table, pid)]
  BY <1>2, <1>3, <1>4
<1> QED BY <1>5 DEF pid

\* Parents that are moved as the processes are.
ParentsMove(table, other, at, parents, others) ==
  /\ parents \in [DOMAIN table -> SUBSET DOMAIN table]
  /\ others \in [DOMAIN other -> SUBSET DOMAIN other]
  /\ \A i \in DOMAIN table : others[at[i]] = Moved(at, parents[i])

LEMMA ReportedParentsMove ==
  ASSUME NEW table, NEW other, NEW at, IsMove(table, other, at)
  PROVE  ParentsMove(table, other, at, ParentsIn(table), ParentsIn(other))
<1> DEFINE T == DOMAIN table
           U == DOMAIN other
<1>1. IsTable(table) /\ IsTable(other)
  BY DEF IsMove
<1>2. ParentsIn(table) \in [T -> SUBSET T] /\ ParentsIn(other) \in [U -> SUBSET U]
  BY <1>1, LinksAreParents
<1>3. /\ \A i \in T : at[i] \in U /\ other[at[i]] = table[i]
      /\ \A j \in U : \E i \in T : at[i] = j
  BY DEF IsMove
<1>4. ASSUME NEW i \in T, NEW j \in T
      PROVE  at[j] \in ParentsIn(other)[at[i]] <=> j \in ParentsIn(table)[i]
  <2> DEFINE pid == table[j].identity.pid
  <2>1. /\ other[at[i]] = table[i] /\ other[at[j]] = table[j]
        /\ at[i] \in U /\ at[j] \in U
    BY <1>3
  <2>2. Owner(other, pid) = at[Owner(table, pid)]
    BY OwnerMoves
  <2>3. Owner(table, pid) \in T
    BY <1>1, LowestExists DEF Owner, IsLowest
  <2>4. at[j] = at[Owner(table, pid)] <=> j = Owner(table, pid)
    BY <2>3, MoveIsOneToOne
  <2> QED BY <2>1, <2>2, <2>4 DEF ParentsIn
<1>5. ASSUME NEW i \in T PROVE ParentsIn(other)[at[i]] = Moved(at, ParentsIn(table)[i])
  <2>1. at[i] \in U /\ ParentsIn(table)[i] \in SUBSET T /\ ParentsIn(other)[at[i]] \in SUBSET U
    BY <1>2, <1>3
  <2> QED BY <1>3, <1>4, <2>1 DEF Moved
<1> QED BY <1>2, <1>5 DEF ParentsMove

\* What is above a process is moved with it: one direction, ...
LEMMA AncestorsStayAbove ==
  ASSUME NEW table, NEW other, NEW at, IsMove(table, other, at),
         NEW parents, NEW others, ParentsMove(table, other, at, parents, others),
         NEW i \in DOMAIN table
  PROVE  Ancestors(others)[at[i]] \subseteq Moved(at, Ancestors(parents)[i])
<1> DEFINE T == DOMAIN table
           U == DOMAIN other
           A == Ancestors(parents)[i]
<1>1. /\ parents \in [T -> SUBSET T] /\ others \in [U -> SUBSET U]
      /\ \A j \in T : others[at[j]] = Moved(at, parents[j])
  BY DEF ParentsMove
<1>2. at[i] \in U
  BY DEF IsMove
<1>3. A \in SUBSET T /\ parents[i] \subseteq A /\ \A m \in A : parents[m] \subseteq A
  BY <1>1, AncestorsAreUpward DEF Upward
<1> HIDE DEF A
<1>4. Moved(at, A) \in SUBSET U
  BY <1>3, MovedSets
<1>5. others[at[i]] \subseteq Moved(at, A)
  BY <1>1, <1>3 DEF Moved
<1>6. Upward(others, Moved(at, A))
  BY <1>1, <1>3 DEF Moved, Upward
<1>7. Ancestors(others)[at[i]] \subseteq Moved(at, A)
  BY <1>1, <1>2, <1>4, <1>5, <1>6, AncestorsAreLeast
<1> QED BY <1>7 DEF A

\* ... and the other, by the way back.
LEMMA ParentsMoveBack ==
  ASSUME NEW table, NEW other, NEW at, IsMove(table, other, at),
         NEW parents, NEW others, ParentsMove(table, other, at, parents, others),
         NEW back, IsWayBack(table, other, at, back)
  PROVE  ParentsMove(other, table, back, others, parents)
<1> DEFINE T == DOMAIN table
           U == DOMAIN other
<1>1. /\ parents \in [T -> SUBSET T] /\ others \in [U -> SUBSET U]
      /\ \A j \in T : others[at[j]] = Moved(at, parents[j])
  BY DEF ParentsMove
<1>2. ASSUME NEW j \in U PROVE parents[back[j]] = Moved(back, others[j])
  <2>1. PICK i \in T : at[i] = j
    BY DEF IsMove
  <2>2. back[j] = i /\ others[j] = Moved(at, parents[i]) /\ parents[i] \in SUBSET T
    BY <1>1, <2>1 DEF IsWayBack
  <2>3. Moved(back, Moved(at, parents[i])) = parents[i]
    BY <2>2 DEF Moved, IsWayBack
  <2> QED BY <2>2, <2>3
<1> QED BY <1>1, <1>2 DEF ParentsMove

LEMMA AncestorsMove ==
  ASSUME NEW table, NEW other, NEW at, IsMove(table, other, at),
         NEW parents, NEW others, ParentsMove(table, other, at, parents, others)
  PROVE  ParentsMove(table, other, at, Ancestors(parents), Ancestors(others))
<1> DEFINE T == DOMAIN table
           U == DOMAIN other
<1>1. parents \in [T -> SUBSET T] /\ others \in [U -> SUBSET U]
  BY DEF ParentsMove
<1>2. PICK back : IsWayBack(table, other, at, back)
  BY MovesBack
<1>3. ParentsMove(other, table, back, others, parents) /\ IsMove(other, table, back)
  BY <1>2, ParentsMoveBack DEF IsWayBack
<1>4. ASSUME NEW i \in T
      PROVE  Ancestors(others)[at[i]] = Moved(at, Ancestors(parents)[i])
  <2>1. at[i] \in U /\ back[at[i]] = i
    BY <1>2 DEF IsMove, IsWayBack
  <2>2. Ancestors(others)[at[i]] \subseteq Moved(at, Ancestors(parents)[i])
    BY AncestorsStayAbove
  <2>3. Ancestors(parents)[back[at[i]]] \subseteq Moved(back, Ancestors(others)[at[i]])
    BY <1>3, <2>1, AncestorsStayAbove
  <2>4. Ancestors(others)[at[i]] \subseteq U
    BY <1>1, <2>1, AncestorsAreUpward
  <2>5. Moved(at, Moved(back, Ancestors(others)[at[i]])) = Ancestors(others)[at[i]]
    BY <1>2, <2>4 DEF Moved, IsWayBack
  <2>6. Moved(at, Ancestors(parents)[i]) \subseteq Moved(at, Moved(back, Ancestors(others)[at[i]]))
    BY <2>1, <2>3 DEF Moved
  <2> QED BY <2>2, <2>5, <2>6
<1>5. Ancestors(parents) \in [T -> SUBSET T] /\ Ancestors(others) \in [U -> SUBSET U]
  <2>1. DOMAIN Ancestors(parents) = T /\ DOMAIN Ancestors(others) = U
    BY <1>1 DEF Ancestors
  <2>2. \A i \in T : Ancestors(parents)[i] \subseteq T
    BY <1>1, AncestorsAreUpward
  <2>3. \A i \in U : Ancestors(others)[i] \subseteq U
    BY <1>1, AncestorsAreUpward
  <2>4. /\ Ancestors(parents) = [i \in T |-> Ancestors(parents)[i]]
        /\ Ancestors(others) = [i \in U |-> Ancestors(others)[i]]
    BY <1>1 DEF Ancestors
  <2> QED BY <2>2, <2>3, <2>4
<1> QED BY <1>4, <1>5 DEF ParentsMove

\* The same cycles, and the same links cut.
LEMMA CyclesMove ==
  ASSUME NEW table, NEW other, NEW at, IsMove(table, other, at), NEW i \in DOMAIN table
  PROVE  Cycle(other, at[i]) = Moved(at, Cycle(table, i))
<1> DEFINE T == DOMAIN table
           U == DOMAIN other
<1>1. ParentsMove(table, other, at, Above(table), Above(other))
  <2>1. ParentsMove(table, other, at, ParentsIn(table), ParentsIn(other))
    BY ReportedParentsMove
  <2> QED BY <2>1, AncestorsMove DEF Above
<1>2. /\ Above(table) \in [T -> SUBSET T]
      /\ \A j \in T : Above(other)[at[j]] = Moved(at, Above(table)[j])
  BY <1>1 DEF ParentsMove
<1>3. \A j \in T : at[i] \in Above(other)[at[j]] <=> i \in Above(table)[j]
  <2>1. ASSUME NEW j \in T PROVE at[i] \in Moved(at, Above(table)[j]) <=> i \in Above(table)[j]
    <3>1. Above(table)[j] \in SUBSET T
      BY <1>2
    <3> QED BY <3>1, MovedSets
  <2> QED BY <1>2, <2>1
<1>4. Cycle(other, at[i]) = {k \in Moved(at, Above(table)[i]) : at[i] \in Above(other)[k]}
  BY <1>2 DEF Cycle
<1>5. Above(table)[i] \in SUBSET T
  BY <1>2
<1> QED BY <1>3, <1>4, <1>5 DEF Cycle, Moved

LEMMA CutWhere ==
  ASSUME NEW table, IsTable(table), NEW i \in DOMAIN table
  PROVE  i \in Broken(table).cut <=> Cycle(table, i) # {} /\ i = Lowest(table, Cycle(table, i))
<1>1. IsWalked(table, Broken(table)) /\ Broken(table).done = DOMAIN table
  BY BrokenCutsCycles
<1>2. Broken(table).cut = Cuts(table, DOMAIN table)
  BY <1>1, Zenon DEF IsWalked
<1> QED BY <1>2, Zenon DEF Cuts

LEMMA CutsMove ==
  ASSUME NEW table, NEW other, NEW at, IsMove(table, other, at), NEW i \in DOMAIN table
  PROVE  at[i] \in Broken(other).cut <=> i \in Broken(table).cut
<1> DEFINE cycle == Cycle(table, i)
<1>1. IsTable(table) /\ IsTable(other) /\ at[i] \in DOMAIN other
  BY DEF IsMove
<1>2. Cycle(other, at[i]) = Moved(at, cycle)
  BY CyclesMove
<1>3. cycle \in SUBSET DOMAIN table
  BY <1>1, AboveUpward DEF Cycle
<1>4. Moved(at, cycle) # {} <=> cycle # {}
  BY DEF Moved
<1>5. cycle # {} => Lowest(other, Moved(at, cycle)) = at[Lowest(table, cycle)]
  <2> HIDE DEF cycle
  <2> QED BY <1>3, LowestMoves
<1>6. cycle # {} => Lowest(table, cycle) \in DOMAIN table
  <2> HIDE DEF cycle
  <2> QED BY <1>1, <1>3, LowestExists DEF IsLowest
<1>7. cycle # {} => (at[i] = at[Lowest(table, cycle)] <=> i = Lowest(table, cycle))
  BY <1>6, MoveIsOneToOne
<1>8. i \in Broken(table).cut <=> cycle # {} /\ i = Lowest(table, cycle)
  BY <1>1, CutWhere
<1>9. at[i] \in Broken(other).cut
        <=> Cycle(other, at[i]) # {} /\ at[i] = Lowest(other, Cycle(other, at[i]))
  BY <1>1, CutWhere
<1> HIDE DEF cycle
<1> QED BY <1>2, <1>4, <1>5, <1>7, <1>8, <1>9

LEMMA UpMoves ==
  ASSUME NEW table, NEW other, NEW at, IsMove(table, other, at)
  PROVE  ParentsMove(table, other, at, Up(table), Up(other))
<1> DEFINE T == DOMAIN table
           U == DOMAIN other
<1>1. IsTable(table) /\ IsTable(other)
  BY DEF IsMove
<1>2. \A i \in T : ParentsIn(other)[at[i]] = Moved(at, ParentsIn(table)[i])
  BY ReportedParentsMove DEF ParentsMove
<1>3. \A i \in T : at[i] \in U /\ (at[i] \in Broken(other).cut <=> i \in Broken(table).cut)
  BY CutsMove DEF IsMove
<1>4. Moved(at, {}) = {}
  BY DEF Moved
<1>5. \A i \in T : Uncut(other)[at[i]] = Moved(at, Uncut(table)[i])
  BY <1>2, <1>3, <1>4 DEF Uncut
<1>6. ParentsMove(table, other, at, Uncut(table), Uncut(other))
  BY <1>1, <1>5, UncutLinks DEF ParentsMove
<1> QED BY <1>6, AncestorsMove DEF Up

\* The processes below a set, found by PID, are moved with it.
LEMMA KidsMove ==
  ASSUME NEW table, NEW other, NEW at, IsMove(table, other, at), NEW i \in DOMAIN table
  PROVE  Kids(other, at[i]) = Moved(at, Kids(table, i)) /\ Kids(table, i) \in SUBSET DOMAIN table
BY DEF Kids, ChildrenOf, Moved, IsMove

LEMMA BelowStays ==
  ASSUME NEW table, NEW other, NEW at, IsMove(table, other, at), NEW A \in SUBSET DOMAIN table
  PROVE  Below(other, Moved(at, A)) \subseteq Moved(at, Below(table, A))
<1> DEFINE B == Below(table, A)
<1>1. B \in SUBSET DOMAIN table /\ A \subseteq B /\ Downward(table, B)
  BY BelowIsLeast
<1> HIDE DEF B
<1>2. Moved(at, B) \in SUBSET DOMAIN other /\ Moved(at, A) \in SUBSET DOMAIN other
  BY <1>1, MovedSets
<1>3. Moved(at, A) \subseteq Moved(at, B)
  BY <1>1 DEF Moved
<1>4. Downward(other, Moved(at, B))
  <2>1. ASSUME NEW m \in B PROVE Kids(other, at[m]) \subseteq Moved(at, B)
    <3>1. Kids(other, at[m]) = Moved(at, Kids(table, m))
      BY <1>1, KidsMove
    <3>2. Kids(table, m) \subseteq B
      BY <1>1 DEF Downward
    <3> QED BY <3>1, <3>2 DEF Moved
  <2> QED BY <2>1 DEF Downward, Moved
<1>5. Below(other, Moved(at, A)) \subseteq Moved(at, B)
  BY <1>2, <1>3, <1>4, BelowIsLeast
<1> QED BY <1>5 DEF B

LEMMA BelowMoves ==
  ASSUME NEW table, NEW other, NEW at, IsMove(table, other, at), NEW A \in SUBSET DOMAIN table
  PROVE  Below(other, Moved(at, A)) = Moved(at, Below(table, A))
<1>1. PICK back : IsWayBack(table, other, at, back)
  BY MovesBack
<1>2. IsMove(other, table, back)
  BY <1>1 DEF IsWayBack
<1>3. Moved(at, A) \in SUBSET DOMAIN other
  BY MovedSets
<1>4. Moved(back, Moved(at, A)) = A
  BY <1>1 DEF Moved, IsWayBack
<1>5. Below(table, Moved(back, Moved(at, A))) \subseteq Moved(back, Below(other, Moved(at, A)))
  BY <1>2, <1>3, BelowStays
<1>6. Below(other, Moved(at, A)) \in SUBSET DOMAIN other
  BY <1>3, BelowIsLeast
<1>7. Moved(at, Moved(back, Below(other, Moved(at, A)))) = Below(other, Moved(at, A))
  <2> DEFINE B == Below(other, Moved(at, A))
  <2>1. \A j \in B : at[back[j]] = j
    BY <1>1, <1>6 DEF IsWayBack
  <2> HIDE DEF B
  <2>2. Moved(at, Moved(back, B)) = B
    BY <2>1 DEF Moved
  <2> QED BY <2>2 DEF B
<1>8. Moved(at, Below(table, A)) \subseteq Moved(at, Moved(back, Below(other, Moved(at, A))))
  BY <1>4, <1>5 DEF Moved
<1>9. Below(other, Moved(at, A)) \subseteq Moved(at, Below(table, A))
  BY BelowStays
<1> QED BY <1>7, <1>8, <1>9

\* A scope holds the same processes.
LEMMA MembersMove ==
  ASSUME NEW table, NEW other, NEW at, IsMove(table, other, at), NEW root
  PROVE  \A i \in DOMAIN table : at[i] \in Range(Subtree(other, root).members)
                                   <=> i \in Range(Subtree(table, root).members)
<1>1. IsTable(table) /\ IsTable(other)
  BY DEF IsMove
<1>2. /\ \A i \in DOMAIN table : at[i] \in DOMAIN other /\ other[at[i]] = table[i]
      /\ \A j \in DOMAIN other : \E i \in DOMAIN table : at[i] = j
  BY DEF IsMove
<1>3. CASE Present(table, root)
  <2>1. PICK r \in DOMAIN table : table[r].identity = root
    BY <1>3 DEF Present
  <2>2. at[r] \in DOMAIN other /\ other[at[r]].identity = root
    BY <1>2, <2>1
  <2>3. Range(Subtree(table, root).members) = Below(table, {r})
    BY <1>1, <2>1, MembersAreBelow
  <2>4. Range(Subtree(other, root).members) = Below(other, {at[r]})
    BY <1>1, <2>2, MembersAreBelow
  <2>5. {at[r]} = Moved(at, {r}) /\ {r} \in SUBSET DOMAIN table
    BY DEF Moved
  <2>6. Below(other, {at[r]}) = Moved(at, Below(table, {r}))
    BY <2>5, BelowMoves
  <2>7. Below(table, {r}) \in SUBSET DOMAIN table
    BY <2>5, BelowIsLeast
  <2>8. \A i \in DOMAIN table : at[i] \in Moved(at, Below(table, {r})) <=> i \in Below(table, {r})
    BY <2>7, MovedSets
  <2> QED BY <2>3, <2>4, <2>6, <2>8
<1>4. CASE ~Present(table, root)
  <2>1. ~Present(other, root)
    BY <1>2, <1>4 DEF Present
  <2>2. Range(Subtree(table, root).members) = {} /\ Range(Subtree(other, root).members) = {}
    BY <1>1, <1>4, <2>1, GoneHasNoMembers
  <2> QED BY <2>2
<1> QED BY <1>3, <1>4

\* And so does what the filters leave of it.
LEMMA RetainedMoves ==
  ASSUME NEW table, NEW other, NEW at, IsMove(table, other, at), NEW filtered, NEW root
  PROVE  /\ Retained(other, filtered, root) = Moved(at, Retained(table, filtered, root))
         /\ Retained(table, filtered, root) \in SUBSET DOMAIN table
<1>1. \A i \in DOMAIN table : at[i] \in Range(Subtree(other, root).members)
                                <=> i \in Range(Subtree(table, root).members)
  BY MembersMove
<1>2. /\ \A i \in DOMAIN table : at[i] \in DOMAIN other /\ other[at[i]] = table[i]
      /\ \A j \in DOMAIN other : \E i \in DOMAIN table : at[i] = j
  BY DEF IsMove
<1> QED BY <1>1, <1>2 DEF Retained, Moved

\* A process has one nearest survivor, ...
LEMMA NearestIsUnique ==
  ASSUME NEW table, IsTable(table), NEW R, NEW i \in DOMAIN table,
         NEW m, IsNearest(table, R, i, m), NEW n, IsNearest(table, R, i, n)
  PROVE  m = n
<1> DEFINE survivors == Up(table)[i] \cap R
<1>1. CASE survivors = {}
  BY <1>1 DEF IsNearest
<1>2. CASE survivors # {}
  <2>1. /\ m \in survivors /\ survivors \subseteq {m} \cup Up(table)[m]
        /\ n \in survivors /\ survivors \subseteq {n} \cup Up(table)[n]
    BY <1>2 DEF IsNearest
  <2>2. m \in DOMAIN table /\ n \in DOMAIN table
    BY <2>1, UpIsLeast
  <2>3. SUFFICES ASSUME m # n PROVE FALSE
    OBVIOUS
  <2>4. n \in Up(table)[m] /\ m \in Up(table)[n]
    BY <2>1, <2>3
  <2>5. Up(table)[m] \subseteq Up(table)[n]
    BY <2>2, <2>4, UpIsLeast
  <2> QED BY <2>2, <2>4, <2>5, NoCycleIsLeft
<1> QED BY <1>1, <1>2

\* ... the one it has wherever it is listed.
LEMMA NearestMoves ==
  ASSUME NEW table, NEW other, NEW at, IsMove(table, other, at),
         NEW R \in SUBSET DOMAIN table,
         NEW near, AllNearest(table, R, near), NEW far, AllNearest(other, Moved(at, R), far)
  PROVE  \A i \in DOMAIN table : near[i] \in DOMAIN table \cup {0} /\ far[at[i]] = at[near[i]]
<1>1. SUFFICES ASSUME NEW i \in DOMAIN table
               PROVE  near[i] \in DOMAIN table \cup {0} /\ far[at[i]] = at[near[i]]
  OBVIOUS
<1> DEFINE n == near[i]
<1>2. IsTable(table) /\ IsTable(other) /\ at[i] \in DOMAIN other /\ at[0] = 0
  BY DEF IsMove
<1>3. IsNearest(table, R, i, n)
  BY DEF AllNearest
<1>4. n \in DOMAIN table \cup {0}
  BY <1>2, <1>3, NearestIsKnown
<1>5. /\ \A j \in DOMAIN table : Up(other)[at[j]] = Moved(at, Up(table)[j])
      /\ \A j \in DOMAIN table : Up(table)[j] \in SUBSET DOMAIN table
  BY UpMoves DEF ParentsMove
<1> HIDE DEF n
<1> DEFINE S == Up(table)[i] \cap R
<1>6. Up(other)[at[i]] \cap Moved(at, R) = Moved(at, S) /\ (Moved(at, S) = {} <=> S = {})
  <2>1. \A j \in DOMAIN table : at[j] \in Moved(at, R) <=> j \in R
    BY MovedSets
  <2>2. Up(other)[at[i]] = Moved(at, Up(table)[i]) /\ Up(table)[i] \in SUBSET DOMAIN table
    BY <1>5
  <2> DEFINE A == Up(table)[i]
  <2>3. \A j \in A : at[j] \in Moved(at, R) <=> j \in R
    BY <2>1, <2>2
  <2> HIDE DEF A
  <2>4. Moved(at, A) \cap Moved(at, R) = Moved(at, A \cap R)
    BY <2>3 DEF Moved
  <2>5. Moved(at, S) = {} <=> S = {}
    BY DEF Moved
  <2> QED BY <2>2, <2>4, <2>5 DEF A
<1>7. IsNearest(other, Moved(at, R), at[i], at[n])
  <2>1. CASE S = {}
    <3>1. n = 0
      BY <1>3, <2>1 DEF IsNearest
    <3> QED BY <1>2, <1>6, <2>1, <3>1 DEF IsNearest
  <2>2. CASE S # {}
    <3>1. n \in S /\ S \subseteq {n} \cup Up(table)[n]
      BY <1>3, <2>2 DEF IsNearest
    <3>2. n \in DOMAIN table
      BY <1>5, <3>1
    <3>3. Up(other)[at[n]] = Moved(at, Up(table)[n])
      BY <1>5, <3>2
    <3>4. at[n] \in Moved(at, S) /\ Moved(at, S) \subseteq {at[n]} \cup Moved(at, Up(table)[n])
      BY <3>1 DEF Moved
    <3> HIDE DEF S
    <3> QED BY <1>6, <2>2, <3>3, <3>4 DEF IsNearest
  <2> QED BY <2>1, <2>2
<1>8. IsNearest(other, Moved(at, R), at[i], far[at[i]])
  BY <1>2 DEF AllNearest
<1>9. far[at[i]] = at[n]
  BY <1>2, <1>7, <1>8, NearestIsUnique
<1> QED BY <1>4, <1>9 DEF n

\* A list of the same processes, in the same order.
IsImage(at, s, t) ==
  /\ Len(s) \in Nat /\ DOMAIN s = 1..Len(s)
  /\ Len(t) = Len(s) /\ DOMAIN t = 1..Len(s)
  /\ \A k \in 1..Len(s) : t[k] = at[s[k]]

LEMMA ImageOfRange ==
  ASSUME NEW at, NEW s, NEW t, IsImage(at, s, t)
  PROVE  Range(t) = Moved(at, Range(s))
BY DEF IsImage, Range, Moved

LEMMA ImageOfAppend ==
  ASSUME NEW at, NEW S, NEW s \in Seq(S), NEW t, IsImage(at, s, t), NEW T, t \in Seq(T),
         NEW x \in S, NEW y \in T, y = at[x]
  PROVE  IsImage(at, Append(s, x), Append(t, y))
<1> DEFINE s1 == Append(s, x)
           t1 == Append(t, y)
<1>1. /\ s1 \in Seq(S) /\ Len(s1) = Len(s) + 1 /\ s1[Len(s) + 1] = x
      /\ \A k \in 1..Len(s) : s1[k] = s[k]
  BY AppendProperties
<1>2. /\ t1 \in Seq(T) /\ Len(t1) = Len(t) + 1 /\ t1[Len(t) + 1] = y
      /\ \A k \in 1..Len(t) : t1[k] = t[k]
  BY AppendProperties
<1> HIDE DEF s1, t1
<1>3. Len(s1) \in Nat /\ DOMAIN s1 = 1..Len(s1) /\ DOMAIN t1 = 1..Len(t1) /\ Len(s) \in Nat
  BY <1>1, <1>2, LenProperties
<1>4. Len(t) = Len(s) /\ \A k \in 1..Len(s) : t[k] = at[s[k]]
  BY DEF IsImage
<1>5. Len(t1) = Len(s1) /\ Len(s1) = Len(s) + 1
  BY <1>1, <1>2, <1>4
<1>6. ASSUME NEW k \in 1..Len(s1) PROVE t1[k] = at[s1[k]]
  <2>1. k \in 1..Len(s) \/ k = Len(s) + 1
    BY <1>3, <1>5, <1>6
  <2> QED BY <1>1, <1>2, <1>4, <2>1
<1> QED BY <1>3, <1>5, <1>6 DEF IsImage, s1, t1

\* The order of the rows does not depend on the order of the snapshot.
LEMMA SortedMoves ==
  ASSUME NEW table, NEW other, NEW at, IsMove(table, other, at),
         NEW S \in SUBSET DOMAIN table, NEW down
  PROVE  IsImage(at, Sorted(table, S, down), Sorted(other, Moved(at, S), down))
<1> DEFINE S2 == Moved(at, S)
           N == Cardinality(S)
           pick == [A \in SUBSET S |-> First(table, A, down)]
           pick2 == [A \in SUBSET S2 |-> First(other, A, down)]
<1>1. IsTable(table) /\ IsTable(other)
  BY DEF IsMove
<1>2. S2 \in SUBSET DOMAIN other /\ Cardinality(S2) = N
  BY MovedSets
<1>3. IsFiniteSet(S) /\ N \in Nat /\ IsFiniteSet(S2)
  BY <1>1, <1>2, TableIsFinite
<1>4. PICK f : IsOrder(S, pick, f) /\ Sorted(table, S, down) = f[N]
  BY <1>1, SortedLists
<1>5. PICK g : IsOrder(S2, pick2, g) /\ Sorted(other, S2, down) = g[N]
  <2> HIDE DEF N
  <2>1. PICK h : IsOrder(S2, pick2, h) /\ Sorted(other, S2, down) = h[Cardinality(S2)]
    <3> HIDE DEF S2
    <3> QED BY <1>1, <1>2, SortedLists
  <2> QED BY <1>2, <2>1
<1>6. f[0] = << >> /\ InSteps(S, pick, f)
  <2>1. \A A \in SUBSET S : A # {} => pick[A] \in A
    BY <1>1, FirstExists DEF IsFirst
  <2> HIDE DEF pick
  <2> QED BY <1>3, <1>4, <2>1, OrderLists
<1>7. g[0] = << >> /\ InSteps(S2, pick2, g)
  <2>1. \A A \in SUBSET S2 : A # {} => pick2[A] \in A
    BY <1>1, <1>2, FirstExists DEF IsFirst
  <2> HIDE DEF pick2, S2
  <2> QED BY <1>3, <1>5, <2>1, OrderLists
<1>8. \A n \in 0..(N - 1) :
        /\ f[n] \in Seq(S) /\ S \ Range(f[n]) # {}
        /\ f[n + 1] = Append(f[n], pick[S \ Range(f[n])])
        /\ g[n] \in Seq(S2) /\ S2 \ Range(g[n]) # {}
        /\ g[n + 1] = Append(g[n], pick2[S2 \ Range(g[n])])
  <2> HIDE DEF N, S2, pick, pick2
  <2> QED BY <1>2, <1>6, <1>7 DEF InSteps, N
<1> DEFINE place == [n \in Nat |-> {s \in {f[n]} : IsImage(at, s, g[n])}]
<1>9. ASSUME NEW n \in 0..(N - 1), IsImage(at, f[n], g[n])
      PROVE  IsImage(at, f[n + 1], g[n + 1])
  <2> DEFINE rest == S \ Range(f[n])
             x == First(table, rest, down)
             y == First(other, Moved(at, rest), down)
  <2>1. f[n] \in Seq(S) /\ rest # {} /\ f[n + 1] = Append(f[n], pick[rest]) /\ g[n] \in Seq(S2)
    BY <1>8
  <2>2. rest \in SUBSET S /\ Range(f[n]) \in SUBSET S
    <3>1. Range(f[n]) \subseteq S
      BY <2>1, LenProperties, ElementOfSeq DEF Range
    <3> QED BY <3>1
  <2>3. Range(g[n]) = Moved(at, Range(f[n]))
    BY <1>9, ImageOfRange
  <2>4. S2 \ Range(g[n]) = Moved(at, rest)
    BY <2>2, <2>3, MovedSets
  <2>5. Moved(at, rest) \in SUBSET S2
    BY <2>2 DEF Moved
  <2> HIDE DEF rest
  <2>6. pick[rest] = x
    BY <2>2
  <2>7. g[n + 1] = Append(g[n], y)
    <3>1. g[n + 1] = Append(g[n], pick2[Moved(at, rest)])
      BY <1>8, <2>4
    <3>2. pick2[Moved(at, rest)] = y
      BY <2>5
    <3> QED BY <3>1, <3>2
  <2>8. y = at[x]
    BY <2>1, <2>2, FirstMoves
  <2>9. x \in S
    BY <1>1, <2>1, <2>2, FirstExists DEF IsFirst
  <2>10. y \in S2
    BY <2>8, <2>9 DEF Moved
  <2> HIDE DEF x, y, S2, pick, pick2
  <2>11. IsImage(at, Append(f[n], x), Append(g[n], y))
    BY <1>9, <2>1, <2>8, <2>9, <2>10, ImageOfAppend
  <2> QED BY <2>1, <2>6, <2>7, <2>11
<1>10. f[0] \in place[0]
  BY <1>6, <1>7 DEF IsImage
<1>11. \A n \in 0..(N - 1) : f[n] \in place[n] => f[n + 1] \in place[n + 1]
  <2>1. \A n \in 0..(N - 1) : n \in Nat /\ n + 1 \in Nat
    BY <1>3
  <2> HIDE DEF N
  <2> QED BY <1>9, <2>1
<1>12. f[N] \in place[N]
  <2> HIDE DEF place, N
  <2>1. \A n \in 0..N : f[n] \in place[n]
    BY <1>3, <1>10, <1>11, Stays
  <2> QED BY <1>3, <2>1
<1>13. IsImage(at, f[N], g[N])
  <2> HIDE DEF N
  <2> QED BY <1>3, <1>12
<1> QED BY <1>4, <1>5, <1>13

\* Frames of the same processes.
Match(at, s, t) ==
  /\ Len(t) = Len(s)
  /\ \A k \in 1..Len(s) :
       /\ t[k].node = at[s[k].node] /\ t[k].depth = s[k].depth
       /\ t[k].parentRow = s[k].parentRow /\ t[k].isLast = s[k].isLast

LEMMA GroupsMatch ==
  ASSUME NEW at, NEW c, NEW d, IsImage(at, c, d), NEW depth, NEW parentRow
  PROVE  Match(at, Frames(c, depth, parentRow), Frames(d, depth, parentRow))
<1> DEFINE s == Frames(c, depth, parentRow)
           t == Frames(d, depth, parentRow)
<1>1. /\ Len(c) \in Nat /\ DOMAIN c = 1..Len(c) /\ Len(d) = Len(c) /\ DOMAIN d = 1..Len(c)
      /\ \A k \in 1..Len(c) : d[k] = at[c[k]]
  BY DEF IsImage
<1>2. /\ s = [k \in 1..Len(c) |-> [node |-> c[k], depth |-> depth, parentRow |-> parentRow,
                                   isLast |-> k = Len(c)]]
      /\ t = [k \in 1..Len(c) |-> [node |-> d[k], depth |-> depth, parentRow |-> parentRow,
                                   isLast |-> k = Len(c)]]
  BY <1>1 DEF Frames
<1>3. \A k \in 1..Len(c) :
        /\ s[k].node = c[k] /\ s[k].depth = depth /\ s[k].parentRow = parentRow
        /\ t[k].node = d[k] /\ t[k].depth = depth /\ t[k].parentRow = parentRow
        /\ t[k].isLast = s[k].isLast
  BY <1>2
<1>4. Len(s) = Len(c) /\ Len(t) = Len(c)
  <2>1. /\ DOMAIN s = 1..Len(c) /\ s = [k \in 1..Len(c) |-> s[k]]
        /\ DOMAIN t = 1..Len(c) /\ t = [k \in 1..Len(c) |-> t[k]]
    BY <1>2
  <2> DEFINE n == Len(c)
  <2>2. n \in Nat
    BY <1>1
  <2> HIDE DEF s, t, n
  <2>3. Len(s) = n
    BY <2>1, <2>2, ListOnInterval DEF n
  <2>4. Len(t) = n
    BY <2>1, <2>2, ListOnInterval DEF n
  <2> QED BY <2>3, <2>4 DEF n
<1> HIDE DEF s, t
<1>5. Match(at, s, t)
  BY <1>1, <1>3, <1>4 DEF Match
<1> QED BY <1>5 DEF s, t

LEMMA JoinedMatch ==
  ASSUME NEW at, NEW F, NEW G, NEW s \in Seq(F), NEW t \in Seq(G), Match(at, s, t),
         NEW u \in Seq(F), NEW v \in Seq(G), Match(at, u, v)
  PROVE  Match(at, s \o u, t \o v)
<1>1. /\ Len(s) \in Nat /\ Len(t) \in Nat /\ Len(u) \in Nat /\ Len(v) \in Nat
      /\ Len(t) = Len(s) /\ Len(v) = Len(u)
  BY LenProperties DEF Match
<1> DEFINE a == s \o u
           b == t \o v
<1>2. /\ Len(a) = Len(s) + Len(u) /\ Len(b) = Len(s) + Len(u)
      /\ \A k \in 1..Len(s) + Len(u) : a[k] = IF k <= Len(s) THEN s[k] ELSE u[k - Len(s)]
      /\ \A k \in 1..Len(s) + Len(u) : b[k] = IF k <= Len(s) THEN t[k] ELSE v[k - Len(s)]
  <2>1. /\ Len(s \o u) = Len(s) + Len(u)
        /\ \A k \in 1..Len(s) + Len(u) : (s \o u)[k] = IF k <= Len(s) THEN s[k] ELSE u[k - Len(s)]
    BY ConcatProperties
  <2>2. /\ Len(t \o v) = Len(t) + Len(v)
        /\ \A k \in 1..Len(t) + Len(v) : (t \o v)[k] = IF k <= Len(t) THEN t[k] ELSE v[k - Len(t)]
    BY ConcatProperties
  <2> QED BY <1>1, <2>1, <2>2
<1>3. ASSUME NEW k \in 1..Len(s) + Len(u)
      PROVE  /\ b[k].node = at[a[k].node] /\ b[k].depth = a[k].depth
             /\ b[k].parentRow = a[k].parentRow /\ b[k].isLast = a[k].isLast
  <2>1. CASE k <= Len(s)
    <3>1. k \in 1..Len(s) /\ a[k] = s[k] /\ b[k] = t[k]
      BY <1>1, <1>2, <2>1
    <3> HIDE DEF a, b
    <3> QED BY <3>1 DEF Match
  <2>2. CASE ~(k <= Len(s))
    <3>1. k - Len(s) \in 1..Len(u) /\ a[k] = u[k - Len(s)] /\ b[k] = v[k - Len(s)]
      BY <1>1, <1>2, <2>2
    <3> HIDE DEF a, b
    <3> QED BY <3>1 DEF Match
  <2> QED BY <2>1, <2>2
<1>4. Len(a) = Len(s) + Len(u) /\ Len(b) = Len(s) + Len(u)
  BY <1>2
<1> HIDE DEF a, b
<1>5. Match(at, a, b)
  BY <1>3, <1>4 DEF Match
<1> QED BY <1>5 DEF a, b

LEMMA TailsMatch ==
  ASSUME NEW at, NEW F, NEW G, NEW s \in Seq(F), NEW t \in Seq(G), Match(at, s, t), s # << >>
  PROVE  /\ t # << >> /\ Match(at, Tail(s), Tail(t)) /\ Match(at, <<Head(s)>>, <<Head(t)>>)
         /\ Tail(s) \in Seq(F) /\ Tail(t) \in Seq(G) /\ Head(s) \in F /\ Head(t) \in G
<1>1. Len(s) \in Nat /\ Len(t) = Len(s) /\ Len(s) # 0
  BY LenProperties, EmptySeq DEF Match
<1>2. t # << >>
  BY <1>1
<1>3. /\ Tail(s) \in Seq(F) /\ Head(s) \in F /\ Head(s) = s[1] /\ Len(Tail(s)) = Len(s) - 1
      /\ \A k \in 1..Len(Tail(s)) : Tail(s)[k] = s[k + 1]
  BY HeadTailProperties
<1>4. /\ Tail(t) \in Seq(G) /\ Head(t) \in G /\ Head(t) = t[1] /\ Len(Tail(t)) = Len(t) - 1
      /\ \A k \in 1..Len(Tail(t)) : Tail(t)[k] = t[k + 1]
  BY <1>2, HeadTailProperties
<1>5. ASSUME NEW k \in 1..Len(s) - 1
      PROVE  /\ Tail(t)[k].node = at[Tail(s)[k].node] /\ Tail(t)[k].depth = Tail(s)[k].depth
             /\ Tail(t)[k].parentRow = Tail(s)[k].parentRow /\ Tail(t)[k].isLast = Tail(s)[k].isLast
  <2>1. Tail(s)[k] = s[k + 1] /\ Tail(t)[k] = t[k + 1] /\ k + 1 \in 1..Len(s)
    BY <1>1, <1>3, <1>4
  <2> QED BY <2>1 DEF Match
<1>6. Match(at, Tail(s), Tail(t))
  BY <1>1, <1>3, <1>4, <1>5 DEF Match
<1>7. Match(at, <<Head(s)>>, <<Head(t)>>)
  <2>1. 1 \in 1..Len(s)
    BY <1>1
  <2> QED BY <1>3, <1>4, <2>1 DEF Match
<1> QED BY <1>2, <1>3, <1>4, <1>6, <1>7

LEMMA AppendedMatch ==
  ASSUME NEW at, NEW F, NEW G, NEW s \in Seq(F), NEW t \in Seq(G), Match(at, s, t),
         NEW x \in F, NEW y \in G, Match(at, <<x>>, <<y>>)
  PROVE  Match(at, Append(s, x), Append(t, y))
<1>1. <<x>> \in Seq(F) /\ <<y>> \in Seq(G)
  OBVIOUS
<1>2. Append(s, x) = s \o <<x>> /\ Append(t, y) = t \o <<y>>
  BY AppendIsConcat
<1> QED BY <1>1, <1>2, JoinedMatch

\* The children of every process are the same, in the same order.
SameFamily(table, other, at, R, near, children, far, others) ==
  /\ IsMove(table, other, at)
  /\ IsFamily(table, R, near, children) /\ IsFamily(other, Moved(at, R), far, others)
  /\ \A p \in DOMAIN table \cup {0} : IsImage(at, children[p], others[at[p]])

\* Two states of emit_rows that say the same.
MatchStates(at, s, t) == Match(at, s.stack, t.stack) /\ Match(at, s.emitted, t.emitted)

\* A round emits the same row, and stacks the same frames.
LEMMA EmitMatches ==
  ASSUME NEW table, NEW other, NEW at, NEW R, NEW near, NEW children, NEW far, NEW others,
         SameFamily(table, other, at, R, near, children, far, others),
         NEW n, NEW s, IsEmission(DOMAIN table, R, near, n, s),
         NEW t, IsEmission(DOMAIN other, Moved(at, R), far, n, t), MatchStates(at, s, t)
  PROVE  MatchStates(at, Emit(children, s), Emit(others, t))
<1> DEFINE F == Frame(DOMAIN table)
           G == Frame(DOMAIN other)
<1>1. /\ IsMove(table, other, at) /\ IsTable(table) /\ IsTable(other)
      /\ IsFamily(table, R, near, children) /\ IsFamily(other, Moved(at, R), far, others)
  BY DEF SameFamily, IsMove
<1>2. /\ s.stack \in Seq(F) /\ s.emitted \in Seq(F) /\ t.stack \in Seq(G) /\ t.emitted \in Seq(G)
  BY DEF IsEmission
<1>3. Match(at, s.stack, t.stack) /\ Match(at, s.emitted, t.emitted)
  BY DEF MatchStates
<1>4. Len(s.emitted) = Len(t.emitted) /\ Len(s.emitted) \in Nat /\ Len(s.stack) = Len(t.stack)
  BY <1>2, <1>3, LenProperties DEF Match
<1>5. CASE s.stack = << >>
  <2>1. t.stack = << >>
    <3>1. Len(t.stack) = 0
      BY <1>4, <1>5
    <3> QED BY <1>2, <3>1, EmptySeq
  <2>2. Emit(children, s) = s /\ Emit(others, t) = t
    BY <1>5, <2>1 DEF Emit
  <2> QED BY <2>2
<1>6. CASE s.stack # << >>
  <2> DEFINE x == Head(s.stack)
             y == Head(t.stack)
             r == Tail(s.stack)
             q == Tail(t.stack)
             row == Len(s.emitted) + 1
             g == Frames(children[x.node], x.depth + 1, row)
             h == Frames(others[y.node], y.depth + 1, row)
  <2>1. /\ t.stack # << >> /\ Match(at, r, q) /\ Match(at, <<x>>, <<y>>)
        /\ r \in Seq(F) /\ q \in Seq(G) /\ x \in F /\ y \in G
    <3> HIDE DEF F, G
    <3> QED BY <1>2, <1>3, <1>6, TailsMatch
  <2>2. Emit(children, s) = [stack |-> g \o r, emitted |-> Append(s.emitted, x)]
    BY <1>6 DEF Emit
  <2>3. Emit(others, t) = [stack |-> h \o q, emitted |-> Append(t.emitted, y)]
    BY <1>4, <2>1 DEF Emit
  <2> HIDE DEF x, y, r, q
  <2>4. y.node = at[x.node] /\ y.depth = x.depth
    <3>1. /\ 1 \in 1..Len(<<x>>) /\ <<x>>[1] = x /\ <<y>>[1] = y
      OBVIOUS
    <3>2. <<y>>[1].node = at[<<x>>[1].node] /\ <<y>>[1].depth = <<x>>[1].depth
      BY <2>1, <3>1 DEF Match
    <3> QED BY <3>1, <3>2
  <2>5. /\ x.node \in DOMAIN table /\ y.node \in DOMAIN other /\ x.depth + 1 \in Nat /\ row \in Nat
    BY <1>4, <2>1 DEF Frame
  <2>6. IsImage(at, children[x.node], others[y.node])
    BY <2>4, <2>5 DEF SameFamily
  <2>7. Match(at, g, h)
    <3>1. h = Frames(others[y.node], x.depth + 1, row)
      BY <2>4
    <3> QED BY <2>6, <3>1, GroupsMatch
  <2>8. g \in Seq(F) /\ h \in Seq(G)
    <3>1. IsGroup(DOMAIN table, R, near, children[x.node], x.node, x.depth + 1, row, g)
      <4>1. x.node \in DOMAIN table \cup {0}
        BY <2>5
      <4> HIDE DEF row
      <4> QED BY <1>1, <2>5, <4>1, GroupFrames
    <3>2. IsGroup(DOMAIN other, Moved(at, R), far, others[y.node], y.node, y.depth + 1, row, h)
      <4>1. y.node \in DOMAIN other \cup {0} /\ y.depth + 1 \in Nat
        BY <2>4, <2>5
      <4> HIDE DEF row
      <4> QED BY <1>1, <2>5, <4>1, GroupFrames
    <3> QED BY <3>1, <3>2 DEF IsGroup
  <2> HIDE DEF g, h, F, G
  <2>9. Match(at, g \o r, h \o q)
    BY <2>1, <2>7, <2>8, JoinedMatch
  <2>10. Match(at, Append(s.emitted, x), Append(t.emitted, y))
    BY <1>2, <1>3, <2>1, AppendedMatch
  <2> QED BY <2>2, <2>3, <2>9, <2>10 DEF MatchStates
<1> QED BY <1>5, <1>6

\* So the rows are the same.
LEMMA EmissionsMatch ==
  ASSUME NEW table, NEW other, NEW at, NEW R, NEW near, NEW children, NEW far, NEW others,
         SameFamily(table, other, at, R, near, children, far, others)
  PROVE  Match(at, Emitted(children), Emitted(others))
<1> DEFINE N == Len(table) + 1
<1>1. /\ IsMove(table, other, at) /\ IsTable(table) /\ IsTable(other) /\ at[0] = 0
      /\ IsFamily(table, R, near, children) /\ IsFamily(other, Moved(at, R), far, others)
  BY DEF SameFamily, IsMove
<1>2. PICK f : IsEmissionRun(table, R, near, children, f)
  BY <1>1, EmissionRuns
<1>3. PICK g : IsEmissionRun(other, Moved(at, R), far, others, g)
  BY <1>1, EmissionRuns
<1>4. Len(other) = Len(table) /\ Len(table) \in Nat
  <2>1. /\ DOMAIN table = 1..Len(table) /\ Len(table) \in Nat
        /\ DOMAIN other = 1..Len(other) /\ Len(other) \in Nat
    BY <1>1, Entries
  <2>2. Moved(at, DOMAIN table) = DOMAIN other
    BY <1>1 DEF IsMove, Moved
  <2>3. Cardinality(Moved(at, DOMAIN table)) = Cardinality(DOMAIN table)
    <3>1. DOMAIN table \in SUBSET DOMAIN table
      OBVIOUS
    <3> QED BY <1>1, <3>1, MovedSets
  <2>4. Cardinality(1..Len(table)) = Cardinality(1..Len(other))
    BY <2>1, <2>2, <2>3
  <2>5. Cardinality(1..Len(table)) = Len(table) /\ Cardinality(1..Len(other)) = Len(other)
    <3>1. \A n \in Nat : Cardinality(1..n) = n
      <4>1. SUFFICES ASSUME NEW n \in Nat PROVE Cardinality(1..n) = n
        OBVIOUS
      <4>2. Cardinality(1..n) = IF 1 > n THEN 0 ELSE n - 1 + 1
        BY FS_Interval
      <4> QED BY <4>2
    <3> QED BY <2>1, <3>1
  <2> QED BY <2>1, <2>4, <2>5
<1>5. /\ f[0] = [stack |-> Frames(children[0], 0, 0), emitted |-> << >>]
      /\ \A n \in Nat : /\ f[n + 1] = Emit(children, f[n])
                        /\ IsEmission(DOMAIN table, R, near, n, f[n])
      /\ Emitted(children) = f[N].emitted
  BY <1>2 DEF IsEmissionRun
<1>6. /\ g[0] = [stack |-> Frames(others[0], 0, 0), emitted |-> << >>]
      /\ \A n \in Nat : /\ g[n + 1] = Emit(others, g[n])
                        /\ IsEmission(DOMAIN other, Moved(at, R), far, n, g[n])
      /\ Emitted(others) = g[N].emitted
  BY <1>3, <1>4 DEF IsEmissionRun
<1> DEFINE place == [n \in Nat |-> {s \in {f[n]} : MatchStates(at, s, g[n])}]
<1>7. f[0] \in place[0]
  <2>1. IsImage(at, children[0], others[0])
    BY <1>1 DEF SameFamily
  <2>2. Match(at, Frames(children[0], 0, 0), Frames(others[0], 0, 0))
    BY <2>1, GroupsMatch
  <2>3. Match(at, << >>, << >>)
    BY DEF Match
  <2>4. MatchStates(at, f[0], g[0])
    BY <1>5, <1>6, <2>2, <2>3 DEF MatchStates
  <2> QED BY <2>4
<1>8. \A n \in Nat : MatchStates(at, f[n], g[n]) => MatchStates(at, f[n + 1], g[n + 1])
  BY <1>5, <1>6, EmitMatches
<1>9. N \in Nat
  BY <1>4
<1>10. \A n \in 0..(N - 1) : f[n] \in place[n] => f[n + 1] \in place[n + 1]
  <2>1. \A n \in 0..(N - 1) : n \in Nat /\ n + 1 \in Nat
    BY <1>9
  <2> QED BY <1>8, <2>1
<1>11. f[N] \in place[N]
  <2> HIDE DEF place, N
  <2>1. \A n \in 0..N : f[n] \in place[n]
    BY <1>7, <1>9, <1>10, Stays
  <2> QED BY <1>9, <2>1
<1>12. MatchStates(at, f[N], g[N])
  <2> HIDE DEF N
  <2> QED BY <1>9, <1>11
<1> QED BY <1>5, <1>6, <1>12 DEF MatchStates

\* The rows of two snapshots of the same processes: the same processes at the same depths.
SameRows(at, s, t) ==
  /\ DOMAIN s = DOMAIN t
  /\ \A k \in DOMAIN s : /\ t[k].node = at[s[k].node]
                         /\ t[k].depth = s[k].depth /\ t[k].isLast = s[k].isLast

LEMMA TreesMatch ==
  ASSUME NEW table, NEW other, NEW at, IsMove(table, other, at),
         NEW R \in SUBSET DOMAIN table, NEW down
  PROVE  SameRows(at, TreeRows(table, R, down).list, TreeRows(other, Moved(at, R), down).list)
<1> DEFINE T == DOMAIN table
           S == Moved(at, R)
           list == TreeRows(table, R, down).list
           list2 == TreeRows(other, S, down).list
<1>1. /\ IsTable(table) /\ IsTable(other) /\ at[0] = 0
      /\ \A j \in DOMAIN other : \E i \in T : at[i] = j
      /\ S \in SUBSET DOMAIN other
  BY MovedSets DEF IsMove
<1> HIDE DEF S
<1>2. PICK near, children : EmitsRows(table, R, down, near, children, list)
  BY <1>1, TreeEmission
<1>3. PICK far, others : EmitsRows(other, S, down, far, others, list2)
  BY <1>1, TreeEmission
<1>4. /\ AllNearest(table, R, near) /\ AllNearest(other, S, far)
      /\ IsFamily(table, R, near, children) /\ IsFamily(other, S, far, others)
  BY <1>2, <1>3 DEF EmitsRows, AllNearest
<1>5. \A i \in T : near[i] \in T \cup {0} /\ far[at[i]] = at[near[i]]
  BY <1>4, NearestMoves DEF S
<1>6. ASSUME NEW p \in T \cup {0} PROVE IsImage(at, children[p], others[at[p]])
  <2> DEFINE A == {i \in R : near[i] = p}
             B == {j \in S : far[j] = at[p]}
  <2>1. children[p] = Sorted(table, A, down)
    BY <1>2 DEF EmitsRows
  <2>2. at[p] \in DOMAIN other \cup {0}
    BY DEF IsMove
  <2>3. others[at[p]] = Sorted(other, B, down)
    BY <1>3, <2>2 DEF EmitsRows
  <2>4. \A i \in R : far[at[i]] = at[p] <=> near[i] = p
    BY <1>5, MoveIsOneToOne
  <2>5. B = Moved(at, A)
    BY <2>4 DEF Moved, S
  <2>6. A \in SUBSET T
    OBVIOUS
  <2> HIDE DEF A, B
  <2>7. IsImage(at, Sorted(table, A, down), Sorted(other, Moved(at, A), down))
    BY <2>6, SortedMoves
  <2> QED BY <2>1, <2>3, <2>5, <2>7
<1>7. SameFamily(table, other, at, R, near, children, far, others)
  BY <1>4, <1>6 DEF SameFamily, S
<1> DEFINE e == Emitted(children)
           d == Emitted(others)
<1>8. Match(at, e, d)
  BY <1>7, EmissionsMatch
<1>9. DOMAIN e = 1..Len(e) /\ DOMAIN d = 1..Len(d)
  <2>1. e \in Seq(Frame(DOMAIN table)) /\ d \in Seq(Frame(DOMAIN other))
    BY <1>1, <1>4, EmissionEnds
  <2> HIDE DEF e, d
  <2> QED BY <2>1, LenProperties
<1>10. /\ list = [k \in DOMAIN e |-> Row(e[k], Descendants(e)[k])]
       /\ list2 = [k \in DOMAIN d |-> Row(d[k], Descendants(d)[k])]
  BY <1>2, <1>3 DEF EmitsRows
<1> HIDE DEF e, d, list, list2
<1>11. DOMAIN e = DOMAIN d /\ DOMAIN list = DOMAIN e /\ DOMAIN list2 = DOMAIN d
  BY <1>8, <1>9, <1>10 DEF Match
<1>12. ASSUME NEW k \in DOMAIN e
       PROVE  /\ list2[k].node = at[list[k].node] /\ list2[k].depth = list[k].depth
              /\ list2[k].isLast = list[k].isLast
  <2>1. /\ d[k].node = at[e[k].node] /\ d[k].depth = e[k].depth /\ d[k].isLast = e[k].isLast
    BY <1>8, <1>9 DEF Match
  <2>2. list[k] = Row(e[k], Descendants(e)[k]) /\ list2[k] = Row(d[k], Descendants(d)[k])
    BY <1>10, <1>11
  <2>3. /\ list[k].node = e[k].node /\ list[k].depth = e[k].depth /\ list[k].isLast = e[k].isLast
    BY <2>2 DEF Row
  <2>4. /\ list2[k].node = d[k].node /\ list2[k].depth = d[k].depth /\ list2[k].isLast = d[k].isLast
    BY <2>2 DEF Row
  <2> QED BY <2>1, <2>3, <2>4
<1>13. SameRows(at, list, list2)
  BY <1>11, <1>12 DEF SameRows
<1> QED BY <1>13 DEF list, list2, S

\* What a reader sees of the rows of a table.
PictureOf(table, built, asTree) ==
  [k \in DOMAIN built.list |->
     <<table[built.list[k].node].identity, built.list[k].node \in built.cut,
       IF asTree THEN <<built.list[k].depth, built.list[k].isLast>> ELSE << >> >>]

LEMMA PicturesMatch ==
  ASSUME NEW table, NEW other, NEW at, IsMove(table, other, at),
         NEW R \in SUBSET DOMAIN table, NEW down, NEW asTree \in BOOLEAN
  PROVE  PictureOf(other, Build(other, Moved(at, R), down, asTree), asTree)
           = PictureOf(table, Build(table, R, down, asTree), asTree)
<1> DEFINE S == Moved(at, R)
           b == Build(table, R, down, asTree)
           c == Build(other, S, down, asTree)
<1>1. /\ IsTable(table) /\ IsTable(other)
      /\ \A i \in DOMAIN table : other[at[i]] = table[i]
  BY DEF IsMove
<1>2. S \in SUBSET DOMAIN other
  BY MovedSets
<1>3. CASE asTree
  <2>1. SameRows(at, TreeRows(table, R, down).list, TreeRows(other, S, down).list)
    BY TreesMatch
  <2>2. ShowsEveryone(table, R, TreeRows(table, R, down).list)
    BY <1>1, TreeShowsEveryone
  <2>3. b = TreeRows(table, R, down) /\ c = TreeRows(other, S, down)
    BY <1>3 DEF Build
  <2>4. b.cut = Broken(table).cut /\ c.cut = Broken(other).cut
    BY <2>3 DEF TreeRows
  <2> HIDE DEF b, c
  <2>5. DOMAIN b.list = DOMAIN c.list
    BY <2>1, <2>3 DEF SameRows
  <2>6. ASSUME NEW k \in DOMAIN b.list
        PROVE  /\ b.list[k].node \in DOMAIN table
               /\ c.list[k].node = at[b.list[k].node]
               /\ c.list[k].depth = b.list[k].depth /\ c.list[k].isLast = b.list[k].isLast
    BY <2>1, <2>2, <2>3 DEF SameRows, ShowsEveryone
  <2>7. ASSUME NEW k \in DOMAIN b.list
        PROVE  /\ other[c.list[k].node].identity = table[b.list[k].node].identity
               /\ c.list[k].node \in c.cut <=> b.list[k].node \in b.cut
    BY <1>1, <2>4, <2>6, CutsMove
  <2>8. \A k \in DOMAIN b.list : (c.list[k].node \in c.cut) = (b.list[k].node \in b.cut)
    BY <2>7
  <2> QED BY <2>5, <2>6, <2>7, <2>8 DEF PictureOf, b, c
<1>4. CASE ~asTree
  <2> DEFINE s == Sorted(table, R, down)
             t == Sorted(other, S, down)
  <2>1. IsImage(at, s, t)
    BY SortedMoves
  <2>2. b = [list |-> [k \in DOMAIN s |-> [node |-> s[k]]], cut |-> {}]
    BY <1>4 DEF Build
  <2>3. c = [list |-> [k \in DOMAIN t |-> [node |-> t[k]]], cut |-> {}]
    BY <1>4 DEF Build
  <2>4. Lists(s, R)
    BY <1>1, SortedLists
  <2> HIDE DEF s, t
  <2>5. DOMAIN s = DOMAIN t /\ \A k \in DOMAIN s : t[k] = at[s[k]] /\ s[k] \in DOMAIN table
    BY <2>1, <2>4 DEF IsImage, Lists
  <2>6. /\ DOMAIN b.list = DOMAIN s /\ DOMAIN c.list = DOMAIN s /\ b.cut = {} /\ c.cut = {}
        /\ \A k \in DOMAIN s : b.list[k].node = s[k] /\ c.list[k].node = t[k]
    BY <2>2, <2>3, <2>5
  <2>7. \A k \in DOMAIN s : other[c.list[k].node].identity = table[b.list[k].node].identity
    BY <1>1, <2>5, <2>6
  <2> HIDE DEF b, c
  <2>8. \A k \in DOMAIN s : (c.list[k].node \in c.cut) = (b.list[k].node \in b.cut)
    BY <2>6
  <2> QED BY <1>4, <2>6, <2>7, <2>8 DEF PictureOf, b, c
<1> QED BY <1>3, <1>4
-----------------------------------------------------------------------------
(* The rows on display *)

\* The rows on display are those of the snapshot on display.
RowsAreItsOwn ==
  /\ IsTable(processes) /\ treeMode \in BOOLEAN
  /\ rows = Build(processes, Retained(processes, hidden, followed), descending, treeMode)

LEMMA ResyncedRows ==
  ASSUME ResyncRows, IsTable(processes)', (treeMode \in BOOLEAN)'
  PROVE  RowsAreItsOwn'
BY DEF ResyncRows, RowsAreItsOwn

LEMMA OneMoreProcess ==
  ASSUME IsTable(processes), NEW identity \in Identities, NEW parent \in Nat,
         ~Present(processes, identity)
  PROVE  IsTable(Append(processes, [identity |-> identity, parent |-> parent]))
<1> DEFINE Process == [identity : Identities, parent : Nat]
           new == [identity |-> identity, parent |-> parent]
           table == Append(processes, new)
<1>1. processes \in Seq(Process) /\ new \in Process /\ new.identity = identity
  BY DEF IsTable
<1>2. DOMAIN processes = 1..Len(processes) /\ Len(processes) \in Nat
  BY Entries
<1> HIDE DEF Process, new
<1>3. /\ table \in Seq(Process) /\ DOMAIN table = 1..(Len(processes) + 1)
      /\ table[Len(processes) + 1] = new
      /\ \A i \in DOMAIN processes : table[i] = processes[i]
  BY <1>1, <1>2
<1> HIDE DEF table
<1>4. \A i, j \in DOMAIN table : table[i].identity = table[j].identity => i = j
  <2>1. \A i \in DOMAIN table : i \in DOMAIN processes \/ i = Len(processes) + 1
    BY <1>2, <1>3
  <2>2. \A i \in DOMAIN processes : table[i].identity # identity
    BY <1>3 DEF Present
  <2> QED BY <1>1, <1>3, <2>1, <2>2 DEF IsTable
<1> QED BY <1>3, <1>4 DEF IsTable, Process, table, new

\* Places of another table, of one process each.
LEMMA OtherPlaces ==
  ASSUME IsTable(processes), NEW N \in Nat, NEW at \in [1..N -> DOMAIN processes],
         \A i, j \in 1..N : at[i] = at[j] => i = j,
         NEW table, table = [i \in 1..N |-> processes[at[i]]]
  PROVE  IsTable(table)
<1> DEFINE Process == [identity : Identities, parent : Nat]
<1>1. processes \in Seq(Process)
  BY DEF IsTable
<1> HIDE DEF Process
<1>2. \A i \in DOMAIN processes : processes[i] \in Process
  BY <1>1
<1>3. table \in Seq(Process)
  BY <1>2, IsASeq
<1>4. \A i, j \in DOMAIN table : table[i].identity = table[j].identity => i = j
  BY DEF IsTable
<1> QED BY <1>3, <1>4 DEF IsTable, Process

LEMMA Swapped ==
  ASSUME IsTable(processes), NEW i \in 1..(Len(processes) - 1)
  PROVE  IsTable([processes EXCEPT ![i] = processes[i + 1], ![i + 1] = processes[i]])
<1> DEFINE N == Len(processes)
           at == [k \in 1..N |-> IF k = i THEN i + 1 ELSE IF k = i + 1 THEN i ELSE k]
           table == [processes EXCEPT ![i] = processes[i + 1], ![i + 1] = processes[i]]
<1>1. N \in Nat /\ DOMAIN processes = 1..N /\ processes = [k \in 1..N |-> processes[k]]
  BY Entries DEF IsTable
<1>2. at \in [1..N -> DOMAIN processes]
  BY <1>1
<1>3. \A k, m \in 1..N : at[k] = at[m] => k = m
  BY <1>1
<1>4. table = [k \in 1..N |-> processes[at[k]]]
  BY <1>1
<1> HIDE DEF N, at, table
<1>5. IsTable(table)
  BY <1>1, <1>2, <1>3, <1>4, OtherPlaces
<1> QED BY <1>5 DEF table

LEMMA OneGone ==
  ASSUME IsTable(processes), NEW i \in DOMAIN processes
  PROVE  IsTable(RemoveAt(processes, i))
<1> DEFINE N == Len(processes) - 1
           at == [k \in 1..N |-> IF k < i THEN k ELSE k + 1]
           table == RemoveAt(processes, i)
<1>1. N \in Nat /\ DOMAIN processes = 1..(N + 1) /\ Len(processes) = N + 1
  BY Entries
<1>2. at \in [1..N -> DOMAIN processes]
  BY <1>1
<1>3. \A k, m \in 1..N : at[k] = at[m] => k = m
  BY <1>1
<1>4. table = [k \in 1..N |-> processes[at[k]]]
  <2> DEFINE Process == [identity : Identities, parent : Nat]
  <2>1. processes \in Seq(Process)
    BY DEF IsTable
  <2> HIDE DEF Process, N
  <2> DEFINE low == SubSeq(processes, 1, i - 1)
             high == SubSeq(processes, i + 1, Len(processes))
  <2>2. /\ low \in Seq(Process) /\ Len(low) = i - 1
        /\ \A k \in 1..(i - 1) : low[k] = processes[k]
    BY <1>1, <2>1
  <2>3. /\ high \in Seq(Process) /\ Len(high) = N + 1 - i
        /\ \A k \in 1..(N + 1 - i) : high[k] = processes[i + k]
    <3>1. i + 1 \in 1..(Len(processes) + 1) /\ Len(processes) \in Nat
      BY <1>1
    <3>2. /\ high \in Seq(Process)
          /\ Len(high) = IF i + 1 <= Len(processes) THEN Len(processes) - (i + 1) + 1 ELSE 0
          /\ \A k \in 1..(Len(processes) - (i + 1) + 1) : high[k] = processes[(i + 1) + k - 1]
      <4>1. i + 1 \in Int /\ Len(processes) \in Int
        BY <3>1
      <4>2. \A k \in (i + 1)..Len(processes) : processes[k] \in Process
        BY <2>1, <3>1
      <4> QED BY <4>1, <4>2, SubSeqProperties
    <3> HIDE DEF high
    <3>3. Len(high) = N + 1 - i
      BY <1>1, <3>2
    <3>4. ASSUME NEW k \in 1..(N + 1 - i) PROVE high[k] = processes[i + k]
      <4>1. k \in 1..(Len(processes) - (i + 1) + 1) /\ (i + 1) + k - 1 = i + k
        BY <1>1, <3>4
      <4>2. high[k] = processes[(i + 1) + k - 1]
        BY <3>2, <4>1
      <4> QED BY <4>1, <4>2
    <3> QED BY <3>2, <3>3, <3>4
  <2>4. table = low \o high
    BY DEF RemoveAt
  <2> HIDE DEF low, high, table, at
  <2>5. table \in Seq(Process) /\ Len(table) = N
        /\ \A k \in 1..N : table[k] = IF k < i THEN low[k] ELSE high[k - (i - 1)]
    <3>1. /\ low \o high \in Seq(Process) /\ Len(low \o high) = Len(low) + Len(high)
          /\ \A k \in 1..Len(low) + Len(high) :
               (low \o high)[k] = IF k <= Len(low) THEN low[k] ELSE high[k - Len(low)]
      BY <2>2, <2>3, ConcatProperties
    <3>2. Len(low) = i - 1 /\ Len(low) + Len(high) = N /\ i \in Int
      BY <1>1, <2>2, <2>3
    <3>3. ASSUME NEW k \in 1..N
          PROVE  table[k] = IF k < i THEN low[k] ELSE high[k - (i - 1)]
      <4>1. k \in 1..Len(low) + Len(high) /\ (k <= i - 1 <=> k < i)
        BY <1>1, <3>2, <3>3
      <4>2. table[k] = IF k <= i - 1 THEN low[k] ELSE high[k - (i - 1)]
        BY <2>4, <3>1, <3>2, <4>1
      <4> QED BY <4>1, <4>2
    <3> QED BY <2>4, <3>1, <3>2, <3>3
  <2>6. \A k \in 1..N : table[k] = processes[at[k]]
    <3>1. SUFFICES ASSUME NEW k \in 1..N PROVE table[k] = processes[at[k]]
      OBVIOUS
    <3>2. CASE k < i
      BY <1>1, <2>2, <2>5, <3>2 DEF at
    <3>3. CASE ~(k < i)
      <4>1. k - (i - 1) \in 1..(N + 1 - i) /\ i + (k - (i - 1)) = k + 1
        BY <1>1, <3>3
      <4> QED BY <2>3, <2>5, <3>3, <4>1 DEF at
    <3> QED BY <3>2, <3>3
  <2> QED BY <1>1, <2>5, <2>6
<1> HIDE DEF N, at, table
<1>5. IsTable(table)
  BY <1>1, <1>2, <1>3, <1>4, OtherPlaces
<1> QED BY <1>5 DEF table

LEMMA RowsStayItsOwn ==
  ASSUME RowsAreItsOwn, [Next]_vars
  PROVE  RowsAreItsOwn'
<1>1. CASE UNCHANGED vars
  BY <1>1 DEF vars, RowsAreItsOwn, IsTable
<1>2. ASSUME NEW identity \in Identities, NEW parent \in Parents, Read(identity, parent)
      PROVE  RowsAreItsOwn'
  <2>1. identity \in Identities /\ parent \in Nat
    BY ProcessTreeAssumption
  <2>2. ~Present(processes, identity) /\ treeMode' = treeMode
        /\ processes' = Append(processes, [identity |-> identity, parent |-> parent])
        /\ ResyncRows
    BY <1>2 DEF Read
  <2>3. IsTable(processes') /\ (treeMode \in BOOLEAN)'
    BY <2>1, <2>2, OneMoreProcess DEF RowsAreItsOwn
  <2> QED BY <2>2, <2>3, ResyncedRows DEF IsTable
<1>3. ASSUME NEW i \in 1..Len(processes) - 1, Reorder(i) PROVE RowsAreItsOwn'
  <2>1. IsTable(processes') /\ ResyncRows /\ (treeMode \in BOOLEAN)'
    BY <1>3, Swapped DEF Reorder, RowsAreItsOwn
  <2> QED BY <2>1, ResyncedRows DEF IsTable
<1>4. ASSUME NEW i \in DOMAIN processes, Vanish(i) PROVE RowsAreItsOwn'
  <2>1. IsTable(processes') /\ ResyncRows /\ (treeMode \in BOOLEAN)'
    BY <1>4, OneGone DEF Vanish, RowsAreItsOwn
  <2> QED BY <2>1, ResyncedRows DEF IsTable
<1>5. ASSUME processes' = processes, ResyncRows, (treeMode \in BOOLEAN)' PROVE RowsAreItsOwn'
  <2>1. IsTable(processes)'
    BY <1>5 DEF RowsAreItsOwn, IsTable
  <2> QED BY <1>5, <2>1, ResyncedRows
<1>6. ASSUME NEW set \in Filters \ {hidden}, SetFilter(set) PROVE RowsAreItsOwn'
  BY <1>5, <1>6 DEF SetFilter, RowsAreItsOwn
<1>7. CASE ReverseSort
  BY <1>5, <1>7 DEF ReverseSort, RowsAreItsOwn
<1>8. CASE ToggleTree
  BY <1>5, <1>8, ProcessTreeAssumption DEF ToggleTree
<1>9. ASSUME NEW identity \in (Followable \cup {Nobody}) \ {followed}, Follow(identity)
      PROVE  RowsAreItsOwn'
  BY <1>5, <1>9 DEF Follow, RowsAreItsOwn
<1> QED BY <1>1, <1>2, <1>3, <1>4, <1>6, <1>7, <1>8, <1>9 DEF Next

LEMMA FirstRows == Init => RowsAreItsOwn
<1>1. SUFFICES ASSUME Init PROVE RowsAreItsOwn
  OBVIOUS
<1> DEFINE R == Retained(processes, hidden, followed)
           built == Build(processes, R, descending, treeMode)
<1>2. processes = << >> /\ rows = [list |-> << >>, cut |-> {}] /\ treeMode \in BOOLEAN
  BY <1>1, ProcessTreeAssumption DEF Init
<1>3. IsTable(processes)
  BY <1>2 DEF IsTable
<1>4. DOMAIN processes = {} /\ R = {}
  BY <1>2 DEF Retained
<1> HIDE DEF R
<1>5. CASE treeMode
  <2>1. built = TreeRows(processes, R, descending)
    BY <1>5 DEF Build
  <2>2. ShowsEveryone(processes, R, built.list)
    BY <1>3, <1>4, <2>1, TreeShowsEveryone
  <2>3. built = [list |-> built.list, cut |-> Broken(processes).cut]
    BY <2>1 DEF TreeRows
  <2>4. Broken(processes).cut = {}
    BY <1>3, <1>4, BrokenCutsCycles DEF IsWalked
  <2> HIDE DEF built
  <2>5. built.list = << >>
    BY <1>4, <2>2, ListOnInterval, FS_EmptySet DEF ShowsEveryone
  <2> QED BY <1>2, <1>3, <2>3, <2>4, <2>5 DEF RowsAreItsOwn, built, R
<1>6. CASE ~treeMode
  <2>1. built = Build(processes, R, descending, FALSE)
    BY <1>2, <1>6
  <2>2. ShowsEveryone(processes, R, built.list)
    BY <1>3, <1>4, <2>1, ListShowsEveryone
  <2>3. built = [list |-> built.list, cut |-> {}]
    BY <2>1 DEF Build
  <2> HIDE DEF built
  <2>4. built.list = << >>
    BY <1>4, <2>2, ListOnInterval, FS_EmptySet DEF ShowsEveryone
  <2> QED BY <1>2, <1>3, <2>3, <2>4 DEF RowsAreItsOwn, built, R
<1> QED BY <1>5, <1>6

\* A process that no filter hides has one row, under that of the nearest process above it
\* that no filter hides.
LEMMA EveryoneIsShown == RowsAreItsOwn => NearestSurvivor
<1> DEFINE R == Retained(processes, hidden, followed)
           above == Ancestors([i \in All |-> IF i \in rows.cut THEN {} ELSE ReportedParents[i]])
           shown == {Node(k) : k \in DOMAIN Shown}
<1>1. SUFFICES ASSUME RowsAreItsOwn PROVE NearestSurvivor
  OBVIOUS
<1>2. IsTable(processes) /\ R \in SUBSET DOMAIN processes
  BY <1>1 DEF RowsAreItsOwn, Retained
<1>3. rows = Build(processes, R, descending, treeMode)
  BY <1>1 DEF RowsAreItsOwn
<1> HIDE DEF R
<1>4. ShowsEveryone(processes, R, Shown)
  <2>1. CASE treeMode
    BY <1>2, <1>3, <2>1, TreeShowsEveryone DEF Build, Shown
  <2>2. CASE ~treeMode
    <3>1. Shown = Build(processes, R, descending, FALSE).list
      BY <1>1, <1>3, <2>2 DEF Shown, RowsAreItsOwn
    <3> QED BY <1>2, <3>1, ListShowsEveryone
  <2> QED BY <2>1, <2>2
<1>5. DOMAIN Shown = 1..Len(Shown) /\ shown = R /\ Len(Shown) = Cardinality(shown)
  BY <1>4 DEF ShowsEveryone, Node
<1>6. ASSUME treeMode, NEW k \in DOMAIN Shown
      PROVE  LET survivors == above[Node(k)] \cap shown
                 parent    == Shown[k].parentRow
             IN IF survivors = {} THEN parent = 0
                ELSE /\ parent # 0
                     /\ Node(parent) \in survivors
                     /\ survivors \subseteq {Node(parent)} \cup above[Node(parent)]
  <2>1. HangsUnderNearest(processes, R, Shown)
    BY <1>2, <1>3, <1>6, TreeShowsEveryone DEF Build, Shown
  <2>2. rows.cut = Broken(processes).cut
    BY <1>3, <1>6 DEF Build, TreeRows
  <2>3. above = Up(processes)
    <3>1. ReportedParents = ParentsIn(processes)
      BY DEF ReportedParents, ParentsIn, All, Id
    <3> QED BY <2>2, <3>1 DEF Up, Uncut, All
  <2> HIDE DEF above, shown
  <2> QED BY <1>5, <1>6, <2>1, <2>3 DEF HangsUnderNearest, Node
<1> QED BY <1>2, <1>5, <1>6 DEF NearestSurvivor, R

LEMMA TreesAreDrawn == RowsAreItsOwn => RowsFormTrees
<1> DEFINE R == Retained(processes, hidden, followed)
<1>1. SUFFICES ASSUME RowsAreItsOwn, treeMode PROVE RowsFormTrees
  BY DEF RowsFormTrees
<1>2. IsTable(processes) /\ R \in SUBSET DOMAIN processes
  BY <1>1 DEF RowsAreItsOwn, Retained
<1>3. Shown = TreeRows(processes, R, descending).list
  BY <1>1 DEF RowsAreItsOwn, Build, Shown
<1> HIDE DEF R
<1>4. DrawsTrees(Shown)
  BY <1>2, <1>3, TreeIsDrawn
<1>5. RowsAbove = Ancestors([k \in DOMAIN Shown |-> {Shown[k].parentRow} \ {0}])
  BY DEF RowsAbove
<1> DEFINE above == RowsAbove
<1> HIDE DEF above
<1>6. above = Ancestors([k \in DOMAIN Shown |-> {Shown[k].parentRow} \ {0}])
  BY <1>5 DEF above
<1>7. \A k \in DOMAIN Shown :
           /\ Shown[k].parentRow < k
           /\ Shown[k].depth = Cardinality(above[k])
           /\ {m \in DOMAIN Shown : k \in above[m]} = k + 1..k + Shown[k].descendants
           /\ Shown[k].isLast <=>
                \A m \in k + 1..Len(Shown) : Shown[m].parentRow # Shown[k].parentRow
  BY <1>4, <1>6, DrawnAreTrees
<1> QED BY <1>7 DEF RowsFormTrees, above

LEMMA RowsShowEveryone ==
  ASSUME IsTable(processes), NEW R \in SUBSET DOMAIN processes,
         rows = Build(processes, R, descending, treeMode), treeMode \in BOOLEAN
  PROVE  ShowsEveryone(processes, R, Shown)
<1>1. CASE treeMode
  BY <1>1, TreeShowsEveryone DEF Build, Shown
<1>2. CASE ~treeMode
  <2>1. Shown = Build(processes, R, descending, FALSE).list
    BY <1>2 DEF Shown
  <2> QED BY <2>1, ListShowsEveryone
<1> QED BY <1>1, <1>2

\* The rows on display are a sequence, whatever they hold.
LEMMA ShownIsASequence ==
  ASSUME RowsAreItsOwn
  PROVE  Len(Shown) = 0 => Shown = << >>
<1> DEFINE R == Retained(processes, hidden, followed)
<1>1. IsTable(processes) /\ R \in SUBSET DOMAIN processes
      /\ rows = Build(processes, R, descending, treeMode) /\ treeMode \in BOOLEAN
  BY DEF RowsAreItsOwn, Retained
<1> HIDE DEF R
<1>2. ShowsEveryone(processes, R, Shown)
  BY <1>1, RowsShowEveryone
<1>3. DOMAIN Shown = 1..Len(Shown) /\ Shown = [k \in 1..Len(Shown) |-> Shown[k]] /\ Len(Shown) \in Nat
  BY <1>2 DEF ShowsEveryone
<1> QED BY <1>3, ListOnInterval

LEMMA ScopesAreTrees == RowsAreItsOwn => ScopeIsOneTree
<1> DEFINE R == Retained(processes, hidden, followed)
           list == TreeRows(processes, R, descending).list
<1>1. SUFFICES ASSUME RowsAreItsOwn PROVE ScopeIsOneTree
  OBVIOUS
<1>2. IsTable(processes) /\ R \in SUBSET DOMAIN processes
      /\ rows = Build(processes, R, descending, treeMode)
  BY <1>1 DEF RowsAreItsOwn, Retained
<1>3. ASSUME followed # Nobody, ~Present(processes, followed) PROVE Shown = << >>
  <2>1. R = {}
    BY <1>2, <1>3, GoneHasNoMembers DEF Retained
  <2>2. NearestSurvivor
    BY <1>1, EveryoneIsShown
  <2>3. Len(Shown) = Cardinality({})
    <3>1. {Node(k) : k \in DOMAIN Shown} = R
          /\ Len(Shown) = Cardinality({Node(k) : k \in DOMAIN Shown})
      BY <2>2 DEF NearestSurvivor
    <3> QED BY <2>1, <3>1
  <2>4. Len(Shown) = 0
    BY <2>3, FS_EmptySet
  <2> QED BY <1>1, <2>4, ShownIsASequence
<1>4. ASSUME treeMode, UniquePids, hidden = {}, followed # Nobody, Present(processes, followed)
      PROVE  /\ Cardinality({k \in DOMAIN Shown : Shown[k].depth = 0}) = 1
             /\ Id(Node(1)) = followed \/ \E i \in CycleOf(Node(1)) : Id(i) = followed
  <2>1. PICK r \in DOMAIN processes : processes[r].identity = followed
    BY <1>4 DEF Present
  <2> DEFINE B == Below(processes, {r})
  <2>2. R = B
    <3>1. Range(Subtree(processes, followed).members) = B
      BY <1>2, <2>1, MembersAreBelow
    <3>2. B \in SUBSET DOMAIN processes
      BY DEF Below
    <3> HIDE DEF B
    <3> QED BY <1>4, <3>1, <3>2 DEF Retained
  <2>3. UniqueIn(processes)
    BY <1>4 DEF UniquePids, UniqueIn, All, Id
  <2>4. Shown = list
    BY <1>2, <1>4 DEF Build, Shown
  <2>5. /\ ShowsEveryone(processes, R, list) /\ HangsUnderNearest(processes, R, list)
        /\ DrawsTrees(list)
    <3> HIDE DEF R
    <3> QED BY <1>2, TreeShowsEveryone, TreeIsDrawn
  <2> HIDE DEF R, list, B
  <2>6. /\ Cardinality({k \in DOMAIN Shown : Shown[k].depth = 0}) = 1
        /\ IsTop(processes, r, Shown[1].node)
    BY <1>2, <2>2, <2>3, <2>4, <2>5, ScopeHasOneTop DEF B
  <2>7. Node(1) = r \/ r \in Cycle(processes, Node(1))
    BY <1>2, <2>3, <2>6, TopOfScope DEF Node
  <2>8. CycleOf(Node(1)) = Cycle(processes, Node(1))
    BY DEF CycleOf, Cycle, Above, ReportedParents, ParentsIn, All, Id
  <2> QED BY <2>1, <2>6, <2>7, <2>8 DEF Id
<1> QED BY <1>3, <1>4 DEF ScopeIsOneTree

LEMMA SubtreesAreRows == RowsAreItsOwn => SubtreesAgree
<1> DEFINE T == DOMAIN processes
           list == TreeRows(processes, T, descending).list
<1>1. SUFFICES ASSUME RowsAreItsOwn, treeMode, UniquePids, hidden = {}, followed = Nobody,
                      NEW k \in DOMAIN Shown
               PROVE  LET subtree == Subtree(processes, Id(Node(k)))
                          block   == {Node(m) : m \in k..k + Shown[k].descendants}
                      IN /\ subtree.cyclesBroken
                              = (IF Cardinality(CycleOf(Node(k))) > 1 THEN 1 ELSE 0)
                         /\ subtree.cyclesBroken = 0 =>
                              /\ Range(subtree.members) = block
                              /\ Len(subtree.members) = Cardinality(block)
  BY ScopesAreTrees DEF SubtreesAgree
<1>2. IsTable(processes) /\ rows = Build(processes, T, descending, treeMode)
  <2>1. Retained(processes, hidden, followed) = T
    BY <1>1 DEF Retained
  <2> QED BY <1>1, <2>1 DEF RowsAreItsOwn
<1>3. Shown = list
  BY <1>1, <1>2 DEF Build, Shown
<1>4. ShowsEveryone(processes, T, list) /\ HangsUnderNearest(processes, T, list) /\ DrawsTrees(list)
  <2>1. T \in SUBSET DOMAIN processes
    OBVIOUS
  <2> HIDE DEF T
  <2> QED BY <1>2, <2>1, TreeShowsEveryone, TreeIsDrawn
<1> HIDE DEF list
<1> DEFINE r == Shown[k].node
           subtree == Subtree(processes, processes[r].identity)
           block == {Shown[m].node : m \in k..k + Shown[k].descendants}
<1>5. r \in T /\ block = {i \in T : i = r \/ r \in Up(processes)[i]}
  <2>1. k \in DOMAIN list /\ r = list[k].node
    BY <1>1, <1>3
  <2> HIDE DEF r
  <2> QED BY <1>2, <1>3, <1>4, <2>1, BlockIsUnder
<1>6. UniqueIn(processes)
  BY <1>1 DEF UniquePids, UniqueIn, All, Id
<1>7. CycleOf(Node(k)) = Cycle(processes, r)
  BY DEF CycleOf, Cycle, Above, ReportedParents, ParentsIn, All, Id, Node
<1> HIDE DEF r
<1>8. subtree.cyclesBroken = IF OnLongCycle(processes, r) THEN 1 ELSE 0
  BY <1>2, <1>5, <1>6, SubtreeIsBelow
<1>9. Range(subtree.members) = Below(processes, {r})
      /\ Len(subtree.members) = Cardinality(Below(processes, {r}))
  BY <1>2, <1>5, MembersAreBelow
<1>10. ~OnLongCycle(processes, r) => Below(processes, {r}) = block
  BY <1>2, <1>5, <1>6, BelowIsLeftUnder
<1>11. Subtree(processes, Id(Node(k))) = subtree /\ block = {Node(m) : m \in k..k + Shown[k].descendants}
  BY DEF Id, Node, r
<1> HIDE DEF subtree, block
<1>12. subtree.cyclesBroken = (IF Cardinality(CycleOf(Node(k))) > 1 THEN 1 ELSE 0)
  BY <1>7, <1>8 DEF OnLongCycle
<1>13. subtree.cyclesBroken = 0 =>
         Range(subtree.members) = block /\ Len(subtree.members) = Cardinality(block)
  BY <1>8, <1>9, <1>10
<1> QED BY <1>11, <1>12, <1>13

\* Two snapshots of the same processes give the same table.
LEMMA ReshuffleShows ==
  ASSUME RowsAreItsOwn, RowsAreItsOwn', Range(processes') = Range(processes),
         UNCHANGED <<hidden, descending, treeMode, followed>>
  PROVE  Picture' = Picture
<1> DEFINE R == Retained(processes, hidden, followed)
           S == Retained(processes', hidden, followed)
<1>1. IsTable(processes) /\ treeMode \in BOOLEAN /\ rows = Build(processes, R, descending, treeMode)
  BY DEF RowsAreItsOwn
<1>2. IsTable(processes') /\ rows' = Build(processes', S, descending, treeMode)
  BY DEF RowsAreItsOwn, IsTable
<1> HIDE DEF R, S
<1>3. \E at : IsMove(processes, processes', at)
  BY <1>1, <1>2, SameProcessesMove
<1>4. PICK at : IsMove(processes, processes', at)
  BY <1>3
<1>5. S = Moved(at, R) /\ R \in SUBSET DOMAIN processes
  BY <1>4, RetainedMoves DEF R, S
<1>6. PictureOf(processes', Build(processes', Moved(at, R), descending, treeMode), treeMode)
        = PictureOf(processes, Build(processes, R, descending, treeMode), treeMode)
  BY <1>1, <1>4, <1>5, PicturesMatch
<1>7. Picture = PictureOf(processes, rows, treeMode)
  BY DEF Picture, PictureOf, Shown, Node, Id
<1>8. Picture' = PictureOf(processes', rows', treeMode)
  BY DEF Picture, PictureOf, Shown, Node, Id
<1> QED BY <1>1, <1>2, <1>5, <1>6, <1>7, <1>8

\* Every cycle of parents, whatever the table, loses exactly one link, that of its lowest
\* identity (tree.rs, break_cycles).
THEOREM CyclesLoseOneLink == Spec => []OneCutPerCycle
<1>1. RowsAreItsOwn => OneCutPerCycle
  <2>1. SUFFICES ASSUME RowsAreItsOwn, treeMode PROVE OneCutPerCycle
    BY DEF OneCutPerCycle
  <2>2. rows.cut = Broken(processes).cut
    BY <2>1 DEF RowsAreItsOwn, Build, TreeRows
  <2> QED BY <2>1, <2>2, EveryCycleLosesOne DEF RowsAreItsOwn
<1>2. RowsAreItsOwn /\ [Next]_vars => RowsAreItsOwn'
  BY RowsStayItsOwn
<1> QED BY <1>1, <1>2, FirstRows, PTL DEF Spec

\* Every process that no filter hides has exactly one row, and in the tree that row hangs
\* under the row of its nearest survivor: the first process above it, along the links that
\* are left, that no filter hides; it is a root only if there is none (tree.rs,
\* nearest_retained and emit_rows).
THEOREM SurvivorsAreShown == Spec => []NearestSurvivor
<1>1. RowsAreItsOwn => NearestSurvivor
  BY EveryoneIsShown
<1>2. RowsAreItsOwn /\ [Next]_vars => RowsAreItsOwn'
  BY RowsStayItsOwn
<1> QED BY <1>1, <1>2, FirstRows, PTL DEF Spec

\* The rows are what the renderer draws branches from: each after its parent and one level
\* deeper, with its descendants right below it, and the last sibling is the last (tree.rs,
\* emit_rows and fill_descendants).
THEOREM BranchesAreDrawn == Spec => []RowsFormTrees
<1>1. RowsAreItsOwn => RowsFormTrees
  BY TreesAreDrawn
<1>2. RowsAreItsOwn /\ [Next]_vars => RowsAreItsOwn'
  BY RowsStayItsOwn
<1> QED BY <1>1, <1>2, FirstRows, PTL DEF Spec

\* What a followed process scopes the table to is one tree, and what its subtree is said to
\* hold and to lack is what the tree shows: the walk of SubtreeUsage::over downwards by PID
\* finds what the links of tree.rs lead up from, and counts a link back on the same cycles.
THEOREM SubtreesAreTheRows == Spec => []SubtreesAgree
<1>1. RowsAreItsOwn => SubtreesAgree
  BY SubtreesAreRows
<1>2. RowsAreItsOwn /\ [Next]_vars => RowsAreItsOwn'
  BY RowsStayItsOwn
<1> QED BY <1>1, <1>2, FirstRows, PTL DEF Spec

\* The order in which the system lists its processes decides no cut, no owner of a PID and
\* no tie.
THEOREM OrderDecidesNothing == Spec => NoReshuffle
<1>1. RowsAreItsOwn /\ [Next]_vars => RowsAreItsOwn'
  BY RowsStayItsOwn
<1>2. RowsAreItsOwn /\ RowsAreItsOwn' =>
        [Range(processes') = Range(processes) /\ UNCHANGED <<hidden, descending, treeMode, followed>>
           => Picture' = Picture]_vars
  BY ReshuffleShows
<1> QED BY <1>1, <1>2, FirstRows, PTL DEF Spec, NoReshuffle
=============================================================================
