------------------------ MODULE WalletActivityProofs ------------------------
(***************************************************************************)
(* What the activity job guarantees for any wallets, page size, page cap,  *)
(* chain and number of faults.                                             *)
(*                                                                         *)
(* The argument: what a poll was handed is ingested or waits in the batch; *)
(* what it asked for and was not handed came later than all it was handed, *)
(* or lies on a later page.  So when the cursor is stored, all up to it is *)
(* ingested but for what ties with it and what the cap has cut off.        *)
(***************************************************************************)
EXTENDS WalletActivity, FiniteSetTheorems, TLAPS

Polling == poll.pc \in {"fetch", "ingest", "save"}

\* The blocks come in order, and so do the timestamps of their transactions.
ChainOrdered == /\ Len(chain) <= MaxTxs
                /\ \A m, n \in DOMAIN chain : m <= n => chain[m].at <= chain[n].at

\* A poll has a wallet, and a batch in work is not empty and belongs to a wallet.
WorkInHand ==
  /\ poll.pc \in {"fetch", "ingest", "save", "failed"} => poll.wallet \in Wallets
  /\ \A i \in Callers : ing[i].pc # "idle" => ing[i].wallet \in Wallets /\ ing[i].batch # <<>>

TypeInv == TypeOK /\ ChainOrdered /\ WorkInHand

\* A leg about to be created has no edge, or it is known that two callers met there.
HandClear ==
  \A i \in Callers : \A e \in edges :
    ing[i].pc = "create" /\ e.tx = Leg(i) => Leg(i) \in collided

\* What a poll of wallet w asks for.
Fresh(w) == After(Mine(w), cursor[w])

\* How many of S come up to n.
Rank(S, n) == Cardinality({m \in S : m <= n})

\* The worker ingests for the poll under way, and writes the trade of a leg first.
WorkerInStep ==
  LET job == ing["worker"]
  IN  job.pc # "idle" =>
        /\ poll.pc = "ingest" /\ job.wallet = poll.wallet
        /\ job.pc # "trade" => <<job.wallet, Leg("worker")>> \in trades

\* What the poll was handed is ingested or waits in the batch.
GotIngested ==
  Polling => \A n \in poll.got :
    \/ Ingested(poll.wallet, n)
    \/ ing["worker"].pc # "idle" /\ n \in ToSet(ing["worker"].batch)

\* It was asked for, and latest is the newest timestamp of it.
GotFresh ==
  Polling =>
    /\ poll.got \subseteq Fresh(poll.wallet)
    /\ \A n \in poll.got : chain[n].at <= poll.latest
    /\ IF poll.got = {} THEN poll.latest = 0 ELSE \E n \in poll.got : chain[n].at = poll.latest

\* What lies on the pages a newest-first provider has still to hand over.
OnLaterPage(n) == IF poll.pc = "save" THEN n \in BeyondCap
                  ELSE provider = "helius" /\ n < poll.page

\* What was asked for and not handed over came later than all that was, or is still to come.
NothingPassed ==
  Polling => \A n \in Fresh(poll.wallet) :
    n \in poll.got \/ (\A m \in poll.got : m < n) \/ OnLaterPage(n)

\* The index of the mock provider counts what it has handed over.
IndexCounts ==
  provider = "mock" /\ (poll.pc = "fetch" \/ (poll.pc = "ingest" /\ poll.page # 0)) =>
    /\ poll.page <= Cardinality(Fresh(poll.wallet))
    /\ poll.got = {n \in Fresh(poll.wallet) : Rank(Fresh(poll.wallet), n) <= poll.page}

\* What was handed to a poll that moved the cursor is not beyond the cursor.
HandedPassed ==
  \A p \in handed : p[2] \in DOMAIN chain /\ chain[p[2]].at <= cursor[p[1]]

\* The cursor is where it has been, at a transaction.
CursorStamped ==
  \A w \in Wallets : cursor[w] # 0 =>
    cursor[w] \in stamps[w] /\ \E n \in DOMAIN chain : chain[n].at = cursor[w]

\* The poll of the next wallet starts from nothing.
CleanStart == poll.pc = "next" => poll.page = 0 /\ poll.latest = 0 /\ poll.got = {}

\* What the pages have brought, and what has become of it.
PagesInv == CleanStart /\ GotFresh /\ NothingPassed /\ IndexCounts
IngestInv == WorkerInStep /\ GotIngested
SyncInv == HandedPassed /\ CursorStamped /\ CursorCovers
CoverInv == TypeInv /\ provider # "bscscan" /\ PagesInv /\ IngestInv /\ SyncInv

-----------------------------------------------------------------------------
(* Sets of numbers and their places.                                       *)

LEMMA RankBounds ==
  ASSUME NEW S \in SUBSET Nat, IsFiniteSet(S), NEW n \in Nat
  PROVE  /\ Rank(S, n) \in Nat /\ Rank(S, n) <= Cardinality(S)
         /\ n \in S => Rank(S, n) >= 1
         /\ (\A m \in S : m <= n) => Rank(S, n) = Cardinality(S)
<1> DEFINE L == {m \in S : m <= n}
<1>1. L \in SUBSET S
  OBVIOUS
<1>2. IsFiniteSet(L) /\ Cardinality(L) <= Cardinality(S)
  BY <1>1, FS_Subset
<1>3. Cardinality(L) \in Nat /\ (Cardinality(L) = 0 <=> L = {})
  BY <1>2, FS_CardinalityType, FS_EmptySet
<1>4. n \in S => n \in L
  OBVIOUS
<1>5. (\A m \in S : m <= n) => L = S
  OBVIOUS
<1> HIDE DEF L
<1>6. n \in S => Cardinality(L) >= 1
  BY <1>3, <1>4
<1>7. Rank(S, n) = Cardinality(L)
  BY DEF Rank, L
<1> QED BY <1>2, <1>3, <1>5, <1>6, <1>7

LEMMA RankOrder ==
  ASSUME NEW S \in SUBSET Nat, IsFiniteSet(S), NEW m \in Nat, NEW n \in Nat, m <= n
  PROVE  /\ Rank(S, m) <= Rank(S, n)
         /\ n \in S /\ m < n => Rank(S, m) < Rank(S, n)
         /\ Rank(S, m) = Rank(S, n) => \A k \in S : k <= n => k <= m
<1> DEFINE L(x) == {k \in S : k <= x}
<1>1. L(m) \in SUBSET L(n) /\ L(n) \in SUBSET S
  <2>1. \A k \in S : k <= m => k <= n
    OBVIOUS
  <2> QED BY <2>1
<1>2. IsFiniteSet(L(n))
  BY <1>1, FS_Subset
<1>3. /\ Cardinality(L(m)) <= Cardinality(L(n))
      /\ Cardinality(L(n)) = Cardinality(L(m)) => L(n) = L(m)
  BY <1>1, <1>2, FS_Subset
<1>4. L(n) = L(m) => \A k \in S : k <= n => k <= m
  OBVIOUS
<1>5. n \in S /\ m < n => L(n) # L(m)
  BY <1>4
<1>6. Rank(S, m) = Cardinality(L(m)) /\ Rank(S, n) = Cardinality(L(n))
  BY DEF Rank
<1>7. Rank(S, m) \in Nat /\ Rank(S, n) \in Nat
  BY RankBounds
<1> HIDE DEF L
<1> QED BY <1>3, <1>4, <1>5, <1>6, <1>7

LEMMA RankOne ==
  ASSUME NEW S \in SUBSET Nat, IsFiniteSet(S), NEW m \in S, NEW n \in S,
         Rank(S, m) = Rank(S, n)
  PROVE  m = n
<1>1. m \in Nat /\ n \in Nat
  OBVIOUS
<1>2. CASE m <= n
  BY <1>1, <1>2, RankOrder
<1>3. CASE n <= m
  BY <1>1, <1>3, RankOrder
<1> QED BY <1>1, <1>2, <1>3

LEMMA RankOnto ==
  ASSUME NEW S \in SUBSET Nat, IsFiniteSet(S), NEW i \in 1..Cardinality(S)
  PROVE  \E n \in S : Rank(S, n) = i
<1> DEFINE T == 1..Cardinality(S)
           f == [n \in S |-> Rank(S, n)]
<1>1. Cardinality(S) \in Nat
  BY FS_CardinalityType
<1>2. IsFiniteSet(T) /\ Cardinality(T) = Cardinality(S)
  BY <1>1, FS_Interval
<1>3. \A n \in S : Rank(S, n) \in T
  BY <1>1, RankBounds
<1>4. f \in [S -> T]
  BY <1>3
<1>5. \A m, n \in S : f[m] = f[n] => m = n
  BY RankOne
<1>6. f \in Injection(S, T)
  BY <1>4, <1>5 DEF Injection, IsInjective
<1> HIDE DEF T, f
<1>7. f \in Surjection(S, T)
  BY <1>2, <1>6, FS_Injection
<1>8. \E n \in S : f[n] = i
  BY <1>7 DEF Surjection, T
<1> QED BY <1>8 DEF f

LEMMA AscendingFacts ==
  ASSUME NEW S \in SUBSET Nat, IsFiniteSet(S)
  PROVE  /\ Cardinality(S) \in Nat
         /\ Ascending(S) \in Seq(S) /\ Len(Ascending(S)) = Cardinality(S)
         /\ DOMAIN Ascending(S) = 1..Cardinality(S)
         /\ \A i \in 1..Cardinality(S) : Ascending(S)[i] \in S /\ Rank(S, Ascending(S)[i]) = i
         /\ \A n \in S : Rank(S, n) \in 1..Cardinality(S) /\ Ascending(S)[Rank(S, n)] = n
<1> DEFINE N == Cardinality(S)
           s == [i \in 1..N |-> CHOOSE n \in S : Rank(S, n) = i]
<1>1. Ascending(S) = s
  BY DEF Ascending, Rank
<1>2. N \in Nat
  BY FS_CardinalityType
<1>3. \A i \in 1..N : s[i] \in S /\ Rank(S, s[i]) = i
  BY RankOnto
<1>4. \A n \in S : Rank(S, n) \in 1..N
  BY <1>2, RankBounds
<1> HIDE DEF N
<1>5. DOMAIN s = 1..N
  OBVIOUS
<1>6. s \in Seq(S) /\ Len(s) = N
  BY <1>2, <1>3
<1>7. \A n \in S : s[Rank(S, n)] = n
  BY <1>3, <1>4, RankOne
<1> HIDE DEF s
<1> QED BY <1>1, <1>2, <1>3, <1>4, <1>5, <1>6, <1>7 DEF N

LEMMA MaxOfNaturals ==
  ASSUME NEW S \in SUBSET Nat, IsFiniteSet(S), S # {}
  PROVE  Max(S) \in S /\ \A n \in S : n <= Max(S)
<1>1. Cardinality(S) \in Nat /\ Cardinality(S) # 0
  BY FS_CardinalityType, FS_EmptySet
<1>2. PICK top \in S : Rank(S, top) = Cardinality(S)
  BY <1>1, RankOnto
<1>3. ASSUME NEW n \in S PROVE n <= top
  <2>1. n \in Nat /\ top \in Nat
    OBVIOUS
  <2>2. Rank(S, n) <= Cardinality(S) /\ Rank(S, n) \in Nat
    BY <2>1, RankBounds
  <2>3. top < n => Rank(S, top) < Rank(S, n)
    BY <2>1, RankOrder
  <2> QED BY <1>2, <2>1, <2>2, <2>3, <1>1
<1>4. \E x \in S : \A y \in S : x >= y
  BY <1>3
<1> QED BY <1>4 DEF Max

LEMMA MinOfTwo ==
  ASSUME NEW a \in Nat, NEW b \in Nat
  PROVE  Min({a, b}) = IF a <= b THEN a ELSE b
<1>1. \E x \in {a, b} : \A y \in {a, b} : x <= y
  OBVIOUS
<1>2. Min({a, b}) \in {a, b} /\ \A y \in {a, b} : Min({a, b}) <= y
  BY <1>1 DEF Min
<1> QED BY <1>2

\* The part of an ascending list that starts behind place from.
LEMMA PartOfAscending ==
  ASSUME NEW S \in SUBSET Nat, IsFiniteSet(S), NEW from \in Nat, NEW upto \in Nat,
         upto <= Cardinality(S)
  PROVE  LET part == SubSeq(Ascending(S), from + 1, upto)
         IN  /\ part \in Seq(S) /\ Len(part) = IF from <= upto THEN upto - from ELSE 0
             /\ ToSet(part) = {n \in S : from < Rank(S, n) /\ Rank(S, n) <= upto}
<1> DEFINE s == Ascending(S)
           part == SubSeq(s, from + 1, upto)
<1>1. /\ Cardinality(S) \in Nat
      /\ s \in Seq(S) /\ Len(s) = Cardinality(S)
      /\ \A i \in 1..Cardinality(S) : s[i] \in S /\ Rank(S, s[i]) = i
      /\ \A n \in S : Rank(S, n) \in 1..Cardinality(S) /\ s[Rank(S, n)] = n
  BY AscendingFacts
<1> HIDE DEF s
<1>2. Len(part) = IF from <= upto THEN upto - from ELSE 0
  BY <1>1
<1>3. \A i \in 1..Len(part) : part[i] = s[from + i]
  BY <1>1
<1>4. \A i \in 1..Len(part) : part[i] \in S /\ Rank(S, part[i]) = from + i
  BY <1>1, <1>2, <1>3
<1>5. part \in Seq(S) /\ DOMAIN part = 1..Len(part)
  BY <1>1, <1>2, <1>3
<1>6. ASSUME NEW n \in S, from < Rank(S, n), Rank(S, n) <= upto
      PROVE  n \in ToSet(part)
  <2>1. Rank(S, n) - from \in 1..Len(part) /\ part[Rank(S, n) - from] = n
    BY <1>1, <1>2, <1>3, <1>6
  <2> QED BY <1>5, <2>1 DEF ToSet
<1>7. ASSUME NEW n \in ToSet(part)
      PROVE  n \in S /\ from < Rank(S, n) /\ Rank(S, n) <= upto
  <2>1. PICK i \in 1..Len(part) : n = part[i]
    BY <1>5 DEF ToSet
  <2> QED BY <1>2, <1>4, <2>1
<1> QED BY <1>2, <1>5, <1>6, <1>7 DEF s

LEMMA ReverseFacts ==
  ASSUME NEW S, NEW s \in Seq(S)
  PROVE  /\ Reverse(s) \in Seq(S) /\ Len(Reverse(s)) = Len(s)
         /\ \A i \in 1..Len(s) : Reverse(s)[i] = s[Len(s) - i + 1]
         /\ ToSet(Reverse(s)) = ToSet(s)
<1>1. Len(s) \in Nat /\ DOMAIN s = 1..Len(s)
  OBVIOUS
<1>2. \A i \in 1..Len(s) : Len(s) - i + 1 \in 1..Len(s)
  BY <1>1
<1>3. \A i \in 1..Len(s) : s[Len(s) - i + 1] \in S
  BY <1>2
<1>4. /\ Reverse(s) \in Seq(S) /\ Len(Reverse(s)) = Len(s)
      /\ DOMAIN Reverse(s) = 1..Len(s)
      /\ \A i \in 1..Len(s) : Reverse(s)[i] = s[Len(s) - i + 1]
  BY <1>1, <1>3 DEF Reverse
<1>5. ASSUME NEW i \in 1..Len(s) PROVE s[i] = Reverse(s)[Len(s) - i + 1]
  BY <1>1, <1>2, <1>4
<1> QED BY <1>1, <1>2, <1>4, <1>5 DEF ToSet

-----------------------------------------------------------------------------
(* The chain and the pages of the providers.                               *)

LEMMA MineFacts ==
  ASSUME TypeInv, NEW w
  PROVE  /\ Mine(w) \in SUBSET Nat /\ Mine(w) \in SUBSET (1..MaxTxs) /\ IsFiniteSet(Mine(w))
         /\ \A n \in Mine(w) : n \in DOMAIN chain /\ chain[n].at \in Times
<1>1. chain \in Seq(Txs) /\ Len(chain) <= MaxTxs
  BY DEF TypeInv, TypeOK, ChainOrdered
<1>2. Mine(w) \in SUBSET (1..MaxTxs) /\ DOMAIN chain = 1..Len(chain)
  BY <1>1, ActivityAssumption DEF Mine
<1>3. IsFiniteSet(1..MaxTxs)
  BY FS_Interval, ActivityAssumption
<1>4. IsFiniteSet(Mine(w))
  BY <1>2, <1>3, FS_Subset
<1>5. \A n \in DOMAIN chain : chain[n] \in Txs
  BY <1>1, <1>2
<1>6. \A n \in DOMAIN chain : chain[n].at \in Times
  BY <1>5 DEF Txs
<1> QED BY <1>2, <1>4, <1>6, ActivityAssumption DEF Mine

LEMMA PartOfMine ==
  ASSUME TypeInv, NEW w, NEW S, S \subseteq Mine(w)
  PROVE  /\ S \in SUBSET Nat /\ S \in SUBSET (1..MaxTxs) /\ IsFiniteSet(S)
         /\ \A n \in S : chain[n].at \in Times
<1>1. S \in SUBSET Mine(w)
  OBVIOUS
<1>2. IsFiniteSet(S)
  BY <1>1, MineFacts, FS_Subset
<1> QED BY <1>1, <1>2, MineFacts

LEMMA AfterFacts ==
  ASSUME TypeInv, NEW w, NEW since
  PROVE  /\ After(Mine(w), since) \subseteq Mine(w)
         /\ After(Mine(w), since) \in SUBSET Nat /\ IsFiniteSet(After(Mine(w), since))
<1>1. After(Mine(w), since) \subseteq Mine(w)
  BY DEF After
<1> QED BY <1>1, PartOfMine

LEMMA LatestOf ==
  ASSUME TypeInv, NEW w, NEW S, S \subseteq Mine(w), NEW latest \in 0..MaxTime
  PROVE  LET T == {latest} \union {chain[n].at : n \in S}
         IN  /\ Max(T) \in T /\ Max(T) \in 0..MaxTime
             /\ \A t \in T : t <= Max(T)
<1> DEFINE T == {latest} \union {chain[n].at : n \in S}
<1>1. \A n \in S : chain[n].at \in Times
  BY PartOfMine
<1>2. T \in SUBSET (0..MaxTime) /\ T # {}
  BY <1>1, ActivityAssumption DEF Times
<1>3. IsFiniteSet(0..MaxTime)
  BY FS_Interval, ActivityAssumption
<1> HIDE DEF T
<1>4. IsFiniteSet(T) /\ T \in SUBSET Nat
  <2>1. IsFiniteSet(T)
    BY <1>2, <1>3, FS_Subset
  <2>2. T \in SUBSET Nat
    BY <1>2, ActivityAssumption
  <2> QED BY <2>1, <2>2
<1>5. Max(T) \in T /\ \A t \in T : t <= Max(T)
  BY <1>2, <1>4, MaxOfNaturals
<1> QED BY <1>2, <1>5 DEF T

\* The mock provider hands over the places behind the index, as many as fit on a page.
LEMMA MockFacts ==
  ASSUME TypeInv, NEW w, NEW since, NEW from \in Nat
  PROVE  LET S == After(Mine(w), since)
             p == MockPage(w, since, from)
             N == Cardinality(S)
         IN  /\ p.txs \in Seq(S) /\ p.next \in Nat
             /\ from <= N =>
                  LET end == IF p.next = 0 THEN N ELSE p.next
                  IN  /\ end <= N
                      /\ ToSet(p.txs) = {n \in S : from < Rank(S, n) /\ Rank(S, n) <= end}
<1> DEFINE S == After(Mine(w), since)
           N == Cardinality(S)
           s == Ascending(S)
           upto == Min({from + PageSize, Len(s)})
           page == SubSeq(s, from + 1, upto)
           p == MockPage(w, since, from)
<1>1. S \in SUBSET Nat /\ IsFiniteSet(S)
  BY AfterFacts
<1> HIDE DEF S
<1>2. N \in Nat /\ Len(s) = N
  BY <1>1, AscendingFacts
<1>3. upto = (IF from + PageSize <= N THEN from + PageSize ELSE N) /\ upto \in Nat /\ upto <= N
  BY <1>2, MinOfTwo, ActivityAssumption
<1> HIDE DEF upto
<1>4. /\ page \in Seq(S) /\ Len(page) = IF from <= upto THEN upto - from ELSE 0
      /\ ToSet(page) = {n \in S : from < Rank(S, n) /\ Rank(S, n) <= upto}
  BY <1>1, <1>3, PartOfAscending
<1>5. p = [txs |-> page, next |-> IF from + Len(page) < Len(s) THEN from + Len(page) ELSE 0]
  BY DEF MockPage, page, upto, s, S
<1> HIDE DEF page, N, s
<1>6. p.txs = page /\ p.next = IF from + Len(page) < N THEN from + Len(page) ELSE 0
  BY <1>2, <1>5
<1> HIDE DEF p
<1>7. p.next \in Nat
  BY <1>2, <1>3, <1>4, <1>6
<1>8. from <= N => upto = IF p.next = 0 THEN N ELSE p.next
  BY <1>2, <1>3, <1>4, <1>6, ActivityAssumption
<1> QED BY <1>3, <1>4, <1>6, <1>7, <1>8 DEF p, S, N

\* Helius hands over what is newest of the rest, and what it leaves is older than all of it.
HeliusRaw(w, from) ==
  LET older == {n \in Mine(w) : from # 0 => n < from}
  IN  SubSeq(Reverse(Ascending(older)), 1, Min({PageSize, Cardinality(older)}))

LEMMA RawFacts ==
  ASSUME TypeInv, NEW w, NEW from \in Nat
  PROVE  LET raw == HeliusRaw(w, from)
         IN  /\ raw \in Seq(Mine(w)) /\ ToSet(raw) \subseteq Mine(w)
             /\ \A n \in ToSet(raw) : from # 0 => n < from
             /\ Len(raw) = PageSize => Last(raw) \in ToSet(raw)
             /\ \A n \in Mine(w) : n \notin ToSet(raw) /\ (from # 0 => n < from) =>
                  /\ Len(raw) = PageSize
                  /\ \A m \in ToSet(raw) : n < m
<1> DEFINE S == {n \in Mine(w) : from # 0 => n < from}
           N == Cardinality(S)
           s == Ascending(S)
           r == Reverse(s)
           k == Min({PageSize, N})
           raw == HeliusRaw(w, from)
<1>1. S \subseteq Mine(w)
  OBVIOUS
<1>2. S \in SUBSET Nat /\ IsFiniteSet(S)
  BY <1>1, PartOfMine
<1>3. HeliusRaw(w, from) = SubSeq(r, 1, k)
  BY DEF HeliusRaw
<1>a. \A n \in S : n \in Mine(w) /\ (from # 0 => n < from)
  OBVIOUS
<1>b. \A n \in Mine(w) : (from # 0 => n < from) => n \in S
  OBVIOUS
<1> HIDE DEF S
<1>4. /\ N \in Nat /\ s \in Seq(S) /\ Len(s) = N
      /\ \A i \in 1..N : s[i] \in S /\ Rank(S, s[i]) = i
      /\ \A n \in S : Rank(S, n) \in 1..N /\ s[Rank(S, n)] = n
  BY <1>2, AscendingFacts
<1>5. k \in Nat /\ k <= N /\ k <= PageSize /\ (k = PageSize \/ k = N)
  BY <1>4, MinOfTwo, ActivityAssumption
<1> HIDE DEF s, N, k
<1>6. r \in Seq(S) /\ Len(r) = N /\ \A i \in 1..N : r[i] = s[N - i + 1]
  BY <1>4, ReverseFacts
<1> HIDE DEF r, raw
<1>7. raw \in Seq(S) /\ Len(raw) = k /\ \A i \in 1..k : raw[i] = s[N - i + 1]
  BY <1>3, <1>4, <1>5, <1>6 DEF raw
<1>8. DOMAIN raw = 1..k
  BY <1>7
<1>9. \A i \in 1..k : raw[i] \in S /\ Rank(S, raw[i]) = N - i + 1
  BY <1>4, <1>5, <1>7
<1>10. \A m \in ToSet(raw) : m \in S /\ Rank(S, m) > N - k
  BY <1>4, <1>5, <1>8, <1>9 DEF ToSet
<1>11. ASSUME NEW n \in S, Rank(S, n) > N - k PROVE n \in ToSet(raw)
  <2>1. N - Rank(S, n) + 1 \in 1..k /\ N - (N - Rank(S, n) + 1) + 1 = Rank(S, n)
    BY <1>4, <1>5, <1>11
  <2>2. raw[N - Rank(S, n) + 1] = n
    BY <1>4, <1>7, <2>1
  <2> QED BY <1>8, <2>1, <2>2 DEF ToSet
<1>12. Len(raw) = PageSize => Last(raw) \in ToSet(raw)
  BY <1>7, <1>8, ActivityAssumption DEF Last, ToSet
<1>13. ASSUME NEW n \in Mine(w), n \notin ToSet(raw), from # 0 => n < from
       PROVE  Len(raw) = PageSize /\ \A m \in ToSet(raw) : n < m
  <2>1. n \in S /\ Rank(S, n) \in 1..N
    BY <1>13, <1>b, <1>4
  <2>2. Rank(S, n) <= N - k
    BY <1>4, <1>5, <1>11, <1>13, <2>1
  <2>3. k = PageSize
    BY <1>4, <1>5, <2>1, <2>2
  <2>4. ASSUME NEW m \in ToSet(raw) PROVE n < m
    <3>1. m \in S /\ Rank(S, m) > N - k /\ Rank(S, m) \in 1..N
      BY <1>4, <1>10
    <3>2. m \in Nat /\ n \in Nat
      BY <1>2, <2>1, <3>1
    <3>3. m <= n => Rank(S, m) <= Rank(S, n)
      BY <1>2, <3>2, RankOrder
    <3> QED BY <1>4, <1>5, <2>1, <2>2, <3>1, <3>2, <3>3
  <2> QED BY <1>7, <2>3, <2>4
<1>14. raw \in Seq(Mine(w))
  BY <1>7, <1>a
<1>15. ToSet(raw) \subseteq Mine(w) /\ \A n \in ToSet(raw) : from # 0 => n < from
  BY <1>10, <1>a
<1> QED BY <1>12, <1>13, <1>14, <1>15 DEF raw

LEMMA HeliusFacts ==
  ASSUME TypeInv, NEW w, NEW since, NEW from \in Nat
  PROVE  LET S == After(Mine(w), since)
             p == HeliusPage(w, since, from)
             raw == HeliusRaw(w, from)
         IN  /\ p.txs \in Seq(S) /\ p.next \in Nat
             /\ ToSet(p.txs) = After(ToSet(raw), since)
             /\ p.next = IF Len(raw) = PageSize THEN Last(raw) ELSE 0
<1> DEFINE S == After(Mine(w), since)
           raw == HeliusRaw(w, from)
           T == After(ToSet(raw), since)
           p == HeliusPage(w, since, from)
<1>1. /\ raw \in Seq(Mine(w)) /\ ToSet(raw) \subseteq Mine(w)
      /\ Len(raw) = PageSize => Last(raw) \in ToSet(raw)
  BY RawFacts
<1>2. p = [txs |-> Reverse(Ascending(T)),
           next |-> IF Len(raw) = PageSize THEN Last(raw) ELSE 0]
  BY DEF HeliusPage, HeliusRaw
<1>3. T \subseteq S /\ T \subseteq Mine(w)
  BY <1>1 DEF After
<1> HIDE DEF T, S, raw, p
<1>4. T \in SUBSET Nat /\ IsFiniteSet(T)
  BY <1>3, PartOfMine
<1>5. /\ Ascending(T) \in Seq(T)
      /\ DOMAIN Ascending(T) = 1..Cardinality(T)
      /\ \A i \in 1..Cardinality(T) : Ascending(T)[i] \in T
      /\ \A n \in T : Rank(T, n) \in 1..Cardinality(T) /\ Ascending(T)[Rank(T, n)] = n
  BY <1>4, AscendingFacts
<1>6. ToSet(Ascending(T)) = T
  BY <1>5 DEF ToSet
<1>7. Reverse(Ascending(T)) \in Seq(T) /\ ToSet(Reverse(Ascending(T))) = T
  BY <1>5, <1>6, ReverseFacts
<1>8. Reverse(Ascending(T)) \in Seq(S)
  BY <1>3, <1>7
<1>9. Mine(w) \in SUBSET Nat
  BY MineFacts
<1>10. p.txs = Reverse(Ascending(T)) /\ p.next = IF Len(raw) = PageSize THEN Last(raw) ELSE 0
  BY <1>2
<1>11. p.next \in Nat
  BY <1>1, <1>9, <1>10
<1> QED BY <1>7, <1>8, <1>10, <1>11 DEF T, S, raw, p

LEMMA BscScanTyped ==
  ASSUME TypeInv, NEW w, NEW since, NEW from \in Nat
  PROVE  LET p == BscScanPage(w, since, from)
         IN  p.txs \in Seq(After(Mine(w), since)) /\ p.next \in Nat
<1> DEFINE R(feed) == {n \in Mine(w) : feed \in chain[n].feeds /\ chain[n].at >= from}
           Raw(feed) == ToSet(First(PageSize, R(feed)))
           fresh == After(UNION {Raw(feed) : feed \in Feeds}, since)
           full == \E feed \in Feeds : Cardinality(Raw(feed)) = PageSize
           p == BscScanPage(w, since, from)
<1>1. p = [txs |-> Ascending(fresh),
           next |-> IF full /\ fresh # {} THEN Max({chain[n].at : n \in fresh}) + 1 ELSE 0]
  BY DEF BscScanPage
<1>2. ASSUME NEW feed \in Feeds PROVE Raw(feed) \subseteq Mine(w)
  <2> DEFINE S == R(feed)
  <2>1. S \subseteq Mine(w)
    OBVIOUS
  <2> HIDE DEF S
  <2>2. S \in SUBSET Nat /\ IsFiniteSet(S)
    BY <2>1, PartOfMine
  <2>3. Ascending(S) \in Seq(S) /\ Len(Ascending(S)) = Cardinality(S) /\ Cardinality(S) \in Nat
    BY <2>2, AscendingFacts
  <2> DEFINE k == IF Len(Ascending(S)) < PageSize THEN Len(Ascending(S)) ELSE PageSize
  <2>4. k \in Nat /\ 0 \in Nat /\ k <= Cardinality(S)
    BY <2>3, ActivityAssumption
  <2>5. First(PageSize, S) = SubSeq(Ascending(S), 0 + 1, k)
    BY DEF First
  <2> HIDE DEF k
  <2>6. ToSet(First(PageSize, S)) \subseteq S
    BY <2>2, <2>4, <2>5, PartOfAscending
  <2> QED BY <2>1, <2>6 DEF S
<1>3. fresh \subseteq After(Mine(w), since) /\ fresh \subseteq Mine(w)
  BY <1>2 DEF After
<1> HIDE DEF fresh, full, p
<1>4. fresh \in SUBSET Nat /\ IsFiniteSet(fresh) /\ \A n \in fresh : chain[n].at \in Times
  BY <1>3, PartOfMine
<1>5. Ascending(fresh) \in Seq(fresh)
  BY <1>4, AscendingFacts
<1>6. Ascending(fresh) \in Seq(After(Mine(w), since))
  BY <1>3, <1>5
<1> DEFINE T == {chain[n].at : n \in fresh}
<1>7. T \in SUBSET Times /\ (fresh # {} => T # {})
  BY <1>4
<1>8. IsFiniteSet(Times) /\ Times \in SUBSET Nat
  BY FS_Interval, ActivityAssumption DEF Times
<1> HIDE DEF T
<1>9. IsFiniteSet(T) /\ T \in SUBSET Nat
  BY <1>7, <1>8, FS_Subset
<1>10. fresh # {} => Max(T) \in Nat
  BY <1>7, <1>9, MaxOfNaturals
<1>11. p.next \in Nat /\ p.txs = Ascending(fresh)
  BY <1>1, <1>10 DEF T
<1> QED BY <1>6, <1>11 DEF p

\* A page is part of what was asked for.
LEMMA PageFacts ==
  ASSUME TypeInv, poll.wallet \in Wallets
  PROVE  Page.txs \in Seq(Fresh(poll.wallet)) /\ Page.next \in Nat
<1> DEFINE w == poll.wallet
<1>1. poll.page \in Nat /\ provider \in {"mock", "helius", "bscscan"}
  BY ActivityAssumption DEF TypeInv, TypeOK
<1>2. CASE provider = "mock"
  <2>1. Page = MockPage(w, cursor[w], poll.page)
    BY <1>2 DEF Page
  <2> QED BY <1>1, <2>1, MockFacts DEF Fresh
<1>3. CASE provider = "helius"
  <2>1. Page = HeliusPage(w, cursor[w], poll.page)
    BY <1>3 DEF Page
  <2> QED BY <1>1, <2>1, HeliusFacts DEF Fresh
<1>4. CASE provider = "bscscan"
  <2>1. Page = BscScanPage(w, cursor[w], poll.page)
    BY <1>4 DEF Page
  <2> QED BY <1>1, <2>1, BscScanTyped DEF Fresh
<1> QED BY <1>1, <1>2, <1>3, <1>4

\* Its index goes forward.
LEMMA MockAdvances ==
  ASSUME TypeInv, NEW w, NEW since, NEW from \in Nat, MockPage(w, since, from).next # 0
  PROVE  from < MockPage(w, since, from).next
<1> DEFINE S == After(Mine(w), since)
           N == Cardinality(S)
           s == Ascending(S)
           upto == Min({from + PageSize, Len(s)})
           page == SubSeq(s, from + 1, upto)
           p == MockPage(w, since, from)
<1>1. S \in SUBSET Nat /\ IsFiniteSet(S)
  BY AfterFacts
<1> HIDE DEF S
<1>2. N \in Nat /\ Len(s) = N /\ s \in Seq(S)
  BY <1>1, AscendingFacts
<1>3. upto = (IF from + PageSize <= N THEN from + PageSize ELSE N) /\ upto \in Nat /\ upto <= N
  BY <1>2, MinOfTwo, ActivityAssumption
<1> HIDE DEF upto
<1>4. Len(page) = IF from <= upto THEN upto - from ELSE 0
  BY <1>1, <1>3, PartOfAscending
<1>5. p = [txs |-> page, next |-> IF from + Len(page) < Len(s) THEN from + Len(page) ELSE 0]
  BY DEF MockPage, page, upto, s, S
<1> HIDE DEF page, N, s
<1>6. p.next = IF from + Len(page) < N THEN from + Len(page) ELSE 0
  BY <1>2, <1>5
<1> HIDE DEF p
<1>7. p.next # 0 => from < p.next
  BY <1>2, <1>3, <1>4, <1>6, ActivityAssumption
<1> QED BY <1>7 DEF p

-----------------------------------------------------------------------------
(* Types.                                                                  *)

PollType == [pc : {"idle", "next", "fetch", "ingest", "save", "failed"},
             todo : SUBSET Wallets, wallet : Wallets \union {"none"}, page : Nat,
             pages : 0..MaxPages, latest : 0..MaxTime, got : SUBSET (1..MaxTxs)]
JobType == [pc : {"idle", "trade", "lookup", "create"},
            wallet : Wallets \union {"none"}, batch : Seq(1..MaxTxs), action : Actions]

PollGood(v) ==
  v \in PollType /\ (v.pc \in {"fetch", "ingest", "save", "failed"} => v.wallet \in Wallets)
JobGood(v) ==
  v \in JobType /\ (v.pc # "idle" => v.wallet \in Wallets /\ v.batch # <<>>)

\* TypeInv by what a step may leave alone.
ChainPart == provider \in Providers /\ chain \in Seq(Txs) /\ ChainOrdered
SyncPart == /\ cursor \in [Wallets -> 0..MaxTime]
            /\ handed \subseteq Wallets \X (1..MaxTxs) /\ skipped \subseteq Wallets \X (1..MaxTxs)
            /\ stamps \in [Wallets -> SUBSET (0..MaxTime)]
RowsPart == /\ trades \subseteq Wallets \X (1..MaxTxs)
            /\ edges \subseteq [tx : 1..MaxTxs, action : Actions]
            /\ collided \subseteq 1..MaxTxs
JobsPart == ing \in [Callers -> JobType] /\ \A i \in Callers : JobGood(ing[i])
FaultsPart == faults \in 0..MaxFaults

LEMMA TypeInvParts ==
  TypeInv <=> /\ ChainPart /\ SyncPart /\ RowsPart /\ JobsPart /\ FaultsPart
              /\ PollGood(poll)
<1>1. poll \in PollType /\ PollGood(poll) <=>
        poll \in PollType
          /\ (poll.pc \in {"fetch", "ingest", "save", "failed"} => poll.wallet \in Wallets)
  BY DEF PollGood
<1>2. ing \in [Callers -> JobType] =>
        ((\A i \in Callers : JobGood(ing[i])) <=>
           \A i \in Callers : ing[i].pc # "idle" => ing[i].wallet \in Wallets
                                                      /\ ing[i].batch # <<>>)
  BY DEF JobGood
<1>3. PollGood(poll) => poll \in PollType
  BY DEF PollGood
<1>4. TypeOK <=> /\ provider \in Providers /\ chain \in Seq(Txs) /\ SyncPart /\ RowsPart
                 /\ ing \in [Callers -> JobType] /\ FaultsPart /\ poll \in PollType
  BY Zenon DEF TypeOK, SyncPart, RowsPart, FaultsPart, PollType, JobType
<1> QED
  BY <1>1, <1>2, <1>3, <1>4 DEF TypeInv, WorkInHand, ChainPart, JobsPart

LEMMA TypeInvPartsNext ==
  ChainPart' /\ SyncPart' /\ RowsPart' /\ JobsPart' /\ FaultsPart' /\ PollGood(poll') => TypeInv'
<1> DEFINE PollPart == PollGood(poll)
<1>1. ChainPart /\ SyncPart /\ RowsPart /\ JobsPart /\ FaultsPart /\ PollPart => TypeInv
  BY TypeInvParts
<1>2. PollGood(poll') => PollPart'
  OBVIOUS
<1> HIDE DEF PollPart
<1> QED BY <1>1, <1>2, PTL

LEMMA TypeInvHas ==
  ASSUME TypeInv
  PROVE  /\ ChainPart /\ SyncPart /\ RowsPart /\ JobsPart /\ FaultsPart /\ PollGood(poll)
  BY TypeInvParts

LEMMA SameChain == ASSUME ChainPart, UNCHANGED <<provider, chain>> PROVE ChainPart'
  BY DEF ChainPart, ChainOrdered
LEMMA SameSync == ASSUME SyncPart, UNCHANGED <<cursor, history>> PROVE SyncPart'
  BY DEF SyncPart, history
LEMMA SameRows == ASSUME RowsPart, UNCHANGED <<rows, collided>> PROVE RowsPart'
  BY DEF RowsPart, rows
LEMMA SameJobs == ASSUME JobsPart, UNCHANGED ing PROVE JobsPart'
  BY DEF JobsPart
LEMMA SameFaults == ASSUME FaultsPart, UNCHANGED faults PROVE FaultsPart'
  BY DEF FaultsPart
LEMMA FaultTyped == ASSUME FaultsPart, Fault PROVE FaultsPart'
  BY ActivityAssumption DEF FaultsPart, Fault

\* Polls and jobs field by field.
PollOf(pc, todo, wallet, page, pages, latest, got) ==
  [pc |-> pc, todo |-> todo, wallet |-> wallet, page |-> page, pages |-> pages,
   latest |-> latest, got |-> got]
Job(pc, wallet, batch, action) ==
  [pc |-> pc, wallet |-> wallet, batch |-> batch, action |-> action]

LEMMA PollIdleFields == PollIdle = PollOf("idle", {}, "none", 0, 0, 0, {})
  BY DEF PollIdle, PollOf

LEMMA StartedPoll ==
  ASSUME NEW pc, NEW todo, NEW x, x = [PollIdle EXCEPT !.pc = pc, !.todo = todo]
  PROVE  x = PollOf(pc, todo, "none", 0, 0, 0, {})
  BY Zenon DEF PollIdle, PollOf

LEMMA EditPollPc ==
  ASSUME NEW r \in PollType, NEW pc, NEW x, x = [r EXCEPT !.pc = pc]
  PROVE  x = PollOf(pc, r.todo, r.wallet, r.page, r.pages, r.latest, r.got)
  BY Zenon DEF PollType, PollOf

LEMMA EditBegun ==
  ASSUME NEW r \in PollType, NEW w, NEW x,
         x = [r EXCEPT !.pc = "fetch", !.todo = @ \ {w}, !.wallet = w]
  PROVE  x = PollOf("fetch", r.todo \ {w}, w, r.page, r.pages, r.latest, r.got)
  BY Zenon DEF PollType, PollOf

LEMMA EditFetched ==
  ASSUME NEW r \in PollType, NEW page, NEW x, x = [r EXCEPT !.page = page, !.pages = @ + 1]
  PROVE  x = PollOf(r.pc, r.todo, r.wallet, page, r.pages + 1, r.latest, r.got)
  BY Zenon DEF PollType, PollOf

LEMMA EditHanded ==
  ASSUME NEW r \in PollType, NEW G, NEW A, NEW x,
         x = [r EXCEPT !.pc = "ingest", !.got = @ \union G, !.latest = Max({@} \union A)]
  PROVE  x = PollOf("ingest", r.todo, r.wallet, r.page, r.pages, Max({r.latest} \union A),
                    r.got \union G)
  BY Zenon DEF PollType, PollOf

LEMMA PollIsGood ==
  ASSUME NEW pc \in {"idle", "next", "fetch", "ingest", "save", "failed"},
         NEW todo \in SUBSET Wallets, NEW w \in Wallets \union {"none"}, NEW page \in Nat,
         NEW pages \in 0..MaxPages, NEW latest \in 0..MaxTime, NEW got \in SUBSET (1..MaxTxs),
         pc \in {"fetch", "ingest", "save", "failed"} => w \in Wallets
  PROVE  PollGood(PollOf(pc, todo, w, page, pages, latest, got))
<1> DEFINE v == PollOf(pc, todo, w, page, pages, latest, got)
<1>1. v \in PollType
  BY Zenon DEF PollType, PollOf
<1>2. v.pc = pc /\ v.wallet = w
  BY DEF PollOf
<1> QED BY <1>1, <1>2 DEF PollGood

LEMMA FieldsOfPoll ==
  ASSUME TypeInv
  PROVE  /\ poll \in PollType
         /\ poll.pc \in {"idle", "next", "fetch", "ingest", "save", "failed"}
         /\ poll.todo \in SUBSET Wallets /\ poll.wallet \in Wallets \union {"none"}
         /\ poll.page \in Nat /\ poll.pages \in 0..MaxPages /\ poll.latest \in 0..MaxTime
         /\ poll.got \in SUBSET (1..MaxTxs)
         /\ poll.pc \in {"fetch", "ingest", "save", "failed"} => poll.wallet \in Wallets
  BY TypeInvHas DEF PollGood, PollType

\* What the steps of the poll make of it.
LEMMA NextWalletPoll ==
  ASSUME TypeInv, poll' = NextWallet
  PROVE  poll' = PollOf("next", poll.todo, "none", 0, 0, 0, {}) /\ PollGood(poll')
<1>1. poll' = PollOf("next", poll.todo, "none", 0, 0, 0, {})
  BY StartedPoll DEF NextWallet
<1>2. 0 \in Nat /\ 0 \in 0..MaxPages /\ 0 \in 0..MaxTime
  BY ActivityAssumption
<1>3. PollGood(PollOf("next", poll.todo, "none", 0, 0, 0, {}))
  BY <1>2, FieldsOfPoll, PollIsGood
<1> QED BY <1>1, <1>3

LEMMA IdlePoll ==
  ASSUME poll' = PollIdle
  PROVE  poll' = PollOf("idle", {}, "none", 0, 0, 0, {}) /\ PollGood(poll')
<1>1. 0 \in Nat /\ 0 \in 0..MaxPages /\ 0 \in 0..MaxTime
  BY ActivityAssumption
<1>2. PollGood(PollOf("idle", {}, "none", 0, 0, 0, {}))
  BY <1>1, PollIsGood
<1> QED BY <1>2, PollIdleFields

LEMMA StartedCycle ==
  ASSUME StartCycle
  PROVE  poll' = PollOf("next", Wallets, "none", 0, 0, 0, {}) /\ PollGood(poll')
<1>1. poll' = PollOf("next", Wallets, "none", 0, 0, 0, {})
  BY StartedPoll DEF StartCycle
<1>2. 0 \in Nat /\ 0 \in 0..MaxPages /\ 0 \in 0..MaxTime
  BY ActivityAssumption
<1>3. PollGood(PollOf("next", Wallets, "none", 0, 0, 0, {}))
  BY <1>2, PollIsGood
<1> QED BY <1>1, <1>3

LEMMA PcOfPoll ==
  ASSUME TypeInv, NEW pc \in {"fetch", "ingest", "save", "failed"}, poll.wallet \in Wallets,
         poll' = [poll EXCEPT !.pc = pc]
  PROVE  /\ poll' = PollOf(pc, poll.todo, poll.wallet, poll.page, poll.pages, poll.latest,
                           poll.got)
         /\ PollGood(poll')
<1>1. poll' = PollOf(pc, poll.todo, poll.wallet, poll.page, poll.pages, poll.latest, poll.got)
  BY FieldsOfPoll, EditPollPc, Zenon
<1>2. PollGood(PollOf(pc, poll.todo, poll.wallet, poll.page, poll.pages, poll.latest, poll.got))
  BY FieldsOfPoll, PollIsGood
<1> QED BY <1>1, <1>2

LEMMA BegunPoll ==
  ASSUME TypeInv, NEW w \in Wallets, BeginWallet(w)
  PROVE  /\ poll' = PollOf("fetch", poll.todo \ {w}, w, poll.page, poll.pages, poll.latest,
                           poll.got)
         /\ PollGood(poll')
<1>1. poll' = PollOf("fetch", poll.todo \ {w}, w, poll.page, poll.pages, poll.latest, poll.got)
  BY FieldsOfPoll, EditBegun, Zenon DEF BeginWallet
<1>2. PollGood(PollOf("fetch", poll.todo \ {w}, w, poll.page, poll.pages, poll.latest,
                      poll.got))
  <2>1. poll.todo \ {w} \in SUBSET Wallets
    BY FieldsOfPoll
  <2> QED BY <2>1, FieldsOfPoll, PollIsGood
<1> QED BY <1>1, <1>2

LEMMA SeqMono == ASSUME NEW S, NEW T, S \subseteq T, NEW s \in Seq(S) PROVE s \in Seq(T)
  OBVIOUS

LEMMA FetchedIsTyped ==
  ASSUME TypeInv, poll.pc = "fetch", poll.pages < MaxPages, NEW page \in Nat
  PROVE  PollOf("fetch", poll.todo, poll.wallet, page, poll.pages + 1, poll.latest, poll.got)
           \in PollType
<1>1. poll.pages + 1 \in 0..MaxPages
  BY FieldsOfPoll, ActivityAssumption
<1> QED BY <1>1, FieldsOfPoll, Zenon DEF PollOf, PollType

\* A page with something on it, and an empty one.
HandedTimes == {chain[n].at : n \in ToSet(Page.txs)}
LEMMA HandedPoll ==
  ASSUME TypeInv, FetchPage, Page.txs # <<>>
  PROVE  /\ poll' = PollOf("ingest", poll.todo, poll.wallet, Page.next, poll.pages + 1,
                           Max({poll.latest} \union HandedTimes),
                           poll.got \union ToSet(Page.txs))
         /\ PollGood(poll')
         /\ ing' = [ing EXCEPT !["worker"] = Ingesting(poll.wallet, Page.txs)]
         /\ Page.txs \in Seq(1..MaxTxs) /\ ToSet(Page.txs) \subseteq Fresh(poll.wallet)
<1> DEFINE w == poll.wallet
           G == ToSet(Page.txs)
           f == [poll EXCEPT !.page = Page.next, !.pages = @ + 1]
<1>1. w \in Wallets /\ poll \in PollType /\ poll.pc = "fetch" /\ poll.pages < MaxPages
  BY FieldsOfPoll DEF FetchPage
<1>2. f = PollOf("fetch", poll.todo, w, Page.next, poll.pages + 1, poll.latest, poll.got)
  BY <1>1, EditFetched, Zenon
<1>3. /\ poll' = [f EXCEPT !.pc = "ingest", !.got = @ \union G,
                           !.latest = Max({@} \union {chain[n].at : n \in G})]
      /\ ing' = [ing EXCEPT !["worker"] = Ingesting(w, Page.txs)]
  BY Zenon DEF FetchPage
<1> HIDE DEF f
<1>5. Page.txs \in Seq(Fresh(w)) /\ Page.next \in Nat
  BY <1>1, PageFacts
<1>a. f \in PollType
  BY <1>1, <1>2, <1>5, FetchedIsTyped
<1>4. poll' = PollOf("ingest", poll.todo, w, Page.next, poll.pages + 1,
                     Max({poll.latest} \union HandedTimes), poll.got \union G)
  <2> DEFINE A == {chain[n].at : n \in G}
  <2>1. A = HandedTimes
    BY DEF HandedTimes
  <2>2. poll' = [f EXCEPT !.pc = "ingest", !.got = @ \union G, !.latest = Max({@} \union A)]
    BY <1>3
  <2> HIDE DEF A, G
  <2>3. poll' = PollOf("ingest", f.todo, f.wallet, f.page, f.pages, Max({f.latest} \union A),
                       f.got \union G)
    BY <1>a, <2>2, EditHanded, Zenon
  <2>4. /\ f.todo = poll.todo /\ f.wallet = w /\ f.page = Page.next
        /\ f.pages = poll.pages + 1 /\ f.latest = poll.latest /\ f.got = poll.got
    BY <1>2 DEF PollOf
  <2> QED BY <2>1, <2>3, <2>4, Zenon DEF G
<1>6. G \subseteq Fresh(w)
  BY <1>5 DEF ToSet
<1>7. Fresh(w) \subseteq Mine(w) /\ Fresh(w) \subseteq 1..MaxTxs
  BY AfterFacts, MineFacts DEF Fresh
<1>8. G \subseteq Mine(w) /\ G \subseteq 1..MaxTxs
  BY <1>6, <1>7
<1>9. Page.txs \in Seq(1..MaxTxs)
  BY <1>5, <1>7, SeqMono
<1> DEFINE m == Max({poll.latest} \union HandedTimes)
<1>10. m \in 0..MaxTime
  BY <1>8, FieldsOfPoll, LatestOf DEF HandedTimes
<1>11. poll.pages + 1 \in 0..MaxPages /\ poll.got \union G \in SUBSET (1..MaxTxs)
  BY <1>1, <1>8, FieldsOfPoll, ActivityAssumption
<1> HIDE DEF m, G
<1>12. PollGood(PollOf("ingest", poll.todo, w, Page.next, poll.pages + 1, m, poll.got \union G))
  BY <1>1, <1>5, <1>10, <1>11, FieldsOfPoll, PollIsGood
<1> QED BY <1>3, <1>4, <1>6, <1>9, <1>12 DEF m, G

LEMMA EmptyPoll ==
  ASSUME TypeInv, FetchPage, Page.txs = <<>>
  PROVE  /\ poll' = PollOf(IF cursor[poll.wallet] # 0 \/ Page.next = 0 THEN "save" ELSE "fetch",
                           poll.todo, poll.wallet, Page.next, poll.pages + 1, poll.latest,
                           poll.got)
         /\ PollGood(poll') /\ ing' = ing
<1> DEFINE w == poll.wallet
           f == [poll EXCEPT !.page = Page.next, !.pages = @ + 1]
           done == cursor[w] # 0 \/ Page.next = 0
           pc == IF done THEN "save" ELSE "fetch"
<1>1. w \in Wallets /\ poll \in PollType /\ poll.pc = "fetch" /\ poll.pages < MaxPages
  BY FieldsOfPoll DEF FetchPage
<1>2. f = PollOf("fetch", poll.todo, w, Page.next, poll.pages + 1, poll.latest, poll.got)
  BY <1>1, EditFetched, Zenon
<1>3. poll' = (IF done THEN [f EXCEPT !.pc = "save"] ELSE f) /\ ing' = ing
  BY Zenon DEF FetchPage
<1> HIDE DEF f, done
<1>6. Page.next \in Nat
  BY <1>1, PageFacts
<1>a. f \in PollType
  BY <1>1, <1>2, <1>6, FetchedIsTyped
<1>4. [f EXCEPT !.pc = "save"]
        = PollOf("save", poll.todo, w, Page.next, poll.pages + 1, poll.latest, poll.got)
  <2>1. [f EXCEPT !.pc = "save"]
          = PollOf("save", f.todo, f.wallet, f.page, f.pages, f.latest, f.got)
    BY <1>a, EditPollPc, Zenon
  <2> QED BY <1>2, <2>1 DEF PollOf
<1>5. poll' = PollOf(pc, poll.todo, w, Page.next, poll.pages + 1, poll.latest, poll.got)
  BY <1>2, <1>3, <1>4
<1>7. poll.pages + 1 \in 0..MaxPages
  BY <1>1, FieldsOfPoll, ActivityAssumption
<1>8. pc \in {"fetch", "save"}
  OBVIOUS
<1> HIDE DEF pc
<1>9. PollGood(PollOf(pc, poll.todo, w, Page.next, poll.pages + 1, poll.latest, poll.got))
  BY <1>1, <1>6, <1>7, <1>8, FieldsOfPoll, PollIsGood
<1> QED BY <1>3, <1>5, <1>9 DEF pc, done

LEMMA HeadAndTail ==
  ASSUME NEW S, NEW s \in Seq(S), s # <<>>
  PROVE  /\ Head(s) \in S
         /\ Len(s) # 1 => Tail(s) \in Seq(S) /\ Tail(s) # <<>>
         /\ Len(s) = 1 => ToSet(s) = {Head(s)}
         /\ Len(s) # 1 => ToSet(s) = {Head(s)} \union ToSet(Tail(s))
<1>1. Len(s) \in Nat /\ Len(s) # 0 /\ DOMAIN s = 1..Len(s) /\ s[1] \in S /\ Head(s) = s[1]
  OBVIOUS
<1>2. Tail(s) \in Seq(S) /\ Len(Tail(s)) = Len(s) - 1 /\ DOMAIN Tail(s) = 1..(Len(s) - 1)
  BY <1>1
<1>3. \A i \in 1..(Len(s) - 1) : Tail(s)[i] = s[i + 1]
  BY <1>1
<1>4. Len(s) # 1 => Tail(s) # <<>>
  BY <1>1, <1>2
<1>5. Len(s) = 1 => ToSet(s) = {Head(s)}
  BY <1>1 DEF ToSet
<1>6. ASSUME NEW x \in ToSet(s), x # Head(s) PROVE x \in ToSet(Tail(s))
  <2>1. PICK i \in 1..Len(s) : x = s[i]
    BY <1>1 DEF ToSet
  <2>2. i - 1 \in 1..(Len(s) - 1) /\ Tail(s)[i - 1] = x
    BY <1>1, <1>3, <1>6, <2>1
  <2> QED BY <1>2, <2>2 DEF ToSet
<1>7. ASSUME NEW x \in ToSet(Tail(s)) PROVE x \in ToSet(s)
  <2>1. PICK i \in 1..(Len(s) - 1) : x = Tail(s)[i]
    BY <1>2 DEF ToSet
  <2>2. i + 1 \in 1..Len(s) /\ s[i + 1] = x
    BY <1>1, <1>3, <2>1
  <2> QED BY <1>1, <2>2 DEF ToSet
<1>8. Head(s) \in ToSet(s)
  BY <1>1 DEF ToSet
<1>9. ToSet(s) = {Head(s)} \union ToSet(Tail(s))
  BY <1>6, <1>7, <1>8
<1> QED BY <1>1, <1>2, <1>4, <1>5, <1>9

\* What the steps of the callers make of their jobs.
JobBecomes(i, v) == ing'[i] = v /\ \A j \in Callers \ {i} : ing'[j] = ing[j]

LEMMA SetJob ==
  ASSUME JobsPart, NEW i \in Callers, NEW v, JobGood(v), ing' = [ing EXCEPT ![i] = v]
  PROVE  JobsPart' /\ JobBecomes(i, v)
<1>1. v \in JobType /\ ing \in [Callers -> JobType] /\ \A j \in Callers : JobGood(ing[j])
  BY DEF JobsPart, JobGood
<1>2. ing' \in [Callers -> JobType] /\ JobBecomes(i, v)
  BY <1>1 DEF JobBecomes
<1>3. \A j \in Callers : JobGood(ing'[j])
  BY <1>1, <1>2 DEF JobBecomes
<1>4. (\A j \in Callers : JobGood(ing'[j])) => (\A j \in Callers : JobGood(ing[j]))'
  OBVIOUS
<1> QED BY <1>2, <1>3, <1>4 DEF JobsPart

LEMMA JobFields ==
  ASSUME JobsPart, NEW i \in Callers
  PROVE  /\ ing[i] \in JobType /\ ing[i].wallet \in Wallets \union {"none"}
         /\ ing[i].batch \in Seq(1..MaxTxs) /\ ing[i].action \in Actions
         /\ ing[i].pc # "idle" => /\ ing[i].wallet \in Wallets /\ ing[i].batch # <<>>
                                  /\ Leg(i) \in 1..MaxTxs
<1>1. ing[i] \in JobType /\ (ing[i].pc # "idle" => ing[i].wallet \in Wallets
                                                     /\ ing[i].batch # <<>>)
  BY DEF JobsPart, JobGood
<1>2. /\ ing[i].wallet \in Wallets \union {"none"}
      /\ ing[i].batch \in Seq(1..MaxTxs) /\ ing[i].action \in Actions
  BY <1>1 DEF JobType
<1>3. ing[i].batch # <<>> => Head(ing[i].batch) \in 1..MaxTxs
  BY <1>2, HeadAndTail
<1> QED BY <1>1, <1>2, <1>3 DEF Leg

LEMMA IdleIsGood == JobGood(IngIdle) /\ IngIdle.pc = "idle"
<1>1. <<>> \in Seq(1..MaxTxs)
  OBVIOUS
<1> QED BY <1>1 DEF IngIdle, JobGood, JobType, Actions

LEMMA IngestingIsGood ==
  ASSUME NEW w \in Wallets, NEW batch \in Seq(1..MaxTxs), batch # <<>>
  PROVE  JobGood(Ingesting(w, batch))
  BY DEF Ingesting, JobGood, JobType, Actions

LEMMA EditJobPc ==
  ASSUME NEW r \in JobType, NEW pc, NEW x, x = [r EXCEPT !.pc = pc]
  PROVE  x = Job(pc, r.wallet, r.batch, r.action)
  BY Zenon DEF JobType, Job

LEMMA EditJobAction ==
  ASSUME NEW r \in JobType, NEW pc, NEW action, NEW x, x = [r EXCEPT !.pc = pc, !.action = action]
  PROVE  x = Job(pc, r.wallet, r.batch, action)
  BY Zenon DEF JobType, Job

LEMMA JobIsGood ==
  ASSUME NEW pc \in {"trade", "lookup", "create"}, NEW w \in Wallets,
         NEW batch \in Seq(1..MaxTxs), batch # <<>>, NEW action \in Actions
  PROVE  JobGood(Job(pc, w, batch, action))
  BY DEF Job, JobGood, JobType

LEMMA SetIdle ==
  ASSUME JobsPart, NEW i \in Callers, ing' = [ing EXCEPT ![i] = IngIdle]
  PROVE  JobsPart' /\ JobBecomes(i, IngIdle)
  BY SetJob, IdleIsGood

LEMMA SetIngesting ==
  ASSUME JobsPart, NEW i \in Callers, NEW w \in Wallets, NEW batch \in Seq(1..MaxTxs),
         batch # <<>>, ing' = [ing EXCEPT ![i] = Ingesting(w, batch)]
  PROVE  JobsPart' /\ JobBecomes(i, Ingesting(w, batch))
  BY SetJob, IngestingIsGood

LEMMA SetLookup ==
  ASSUME JobsPart, NEW i \in Callers, ing[i].pc # "idle", ing' = [ing EXCEPT ![i].pc = "lookup"]
  PROVE  /\ JobsPart'
         /\ JobBecomes(i, Job("lookup", ing[i].wallet, ing[i].batch, ing[i].action))
<1> DEFINE v == [ing[i] EXCEPT !.pc = "lookup"]
<1>1. v = Job("lookup", ing[i].wallet, ing[i].batch, ing[i].action)
  BY JobFields, EditJobPc, Zenon
<1>2. ing' = [ing EXCEPT ![i] = v]
  OBVIOUS
<1> HIDE DEF v
<1>3. JobGood(v)
  BY <1>1, JobFields, JobIsGood
<1> QED BY <1>1, <1>2, <1>3, SetJob

LEMMA SetCreate ==
  ASSUME JobsPart, NEW i \in Callers, ing[i].pc # "idle", NEW action \in Actions,
         ing' = [ing EXCEPT ![i].pc = "create", ![i].action = action]
  PROVE  /\ JobsPart'
         /\ JobBecomes(i, Job("create", ing[i].wallet, ing[i].batch, action))
<1> DEFINE v == [ing[i] EXCEPT !.pc = "create", !.action = action]
<1>0. ing \in [Callers -> JobType] /\ ing[i] \in JobType
  BY JobFields DEF JobsPart
<1>1. v = Job("create", ing[i].wallet, ing[i].batch, action)
  BY JobFields, EditJobAction, Zenon
<1>2. ing' = [ing EXCEPT ![i] = v]
  BY <1>0, Zenon
<1> HIDE DEF v
<1>3. JobGood(v)
  BY <1>1, JobFields, JobIsGood
<1> QED BY <1>1, <1>2, <1>3, SetJob

AfterLeg(i) == IF Len(ing[i].batch) = 1 THEN IngIdle
               ELSE Ingesting(ing[i].wallet, Tail(ing[i].batch))

LEMMA SetNextLeg ==
  ASSUME JobsPart, NEW i \in Callers, ing[i].pc # "idle", ing' = NextLeg(i)
  PROVE  /\ JobsPart' /\ JobBecomes(i, AfterLeg(i))
<1>1. ing' = [ing EXCEPT ![i] = AfterLeg(i)]
  BY JobFields DEF NextLeg, AfterLeg, JobsPart
<1>2. ing[i].wallet \in Wallets /\ ing[i].batch \in Seq(1..MaxTxs) /\ ing[i].batch # <<>>
  BY JobFields
<1>3. Len(ing[i].batch) # 1 => Tail(ing[i].batch) \in Seq(1..MaxTxs) /\ Tail(ing[i].batch) # <<>>
  BY <1>2, HeadAndTail
<1>4. JobGood(AfterLeg(i))
  BY <1>2, <1>3, IdleIsGood, IngestingIsGood DEF AfterLeg
<1> HIDE DEF AfterLeg
<1> QED BY <1>1, <1>4, SetJob

LEMMA LookedUp ==
  ASSUME JobsPart, NEW i \in Callers, LookupEdge(i)
  PROVE  /\ ing[i].pc = "lookup"
         /\ \/ (\E action \in Actions : Recorded(i, action)) /\ ing' = NextLeg(i)
            \/ \E action \in Actions :
                 /\ ~Recorded(i, action)
                 /\ ing' = [ing EXCEPT ![i].pc = "create", ![i].action = action]
  BY DEF LookupEdge

\* The rows.
RowsGrow == trades \subseteq trades' /\ edges \subseteq edges'

LEMMA TradeWritten ==
  ASSUME RowsPart, JobsPart, NEW i \in Callers, ing[i].pc # "idle",
         trades' = trades \union {<<ing[i].wallet, Leg(i)>>}, UNCHANGED <<edges, collided>>
  PROVE  RowsPart' /\ RowsGrow
<1>1. ing[i].wallet \in Wallets /\ Leg(i) \in 1..MaxTxs
  BY JobFields
<1> QED BY <1>1 DEF RowsPart, RowsGrow

LEMMA EdgeInserted ==
  ASSUME RowsPart, JobsPart, NEW i \in Callers, ing[i].pc # "idle", InsertEdge(i),
         UNCHANGED trades
  PROVE  RowsPart' /\ RowsGrow
<1>1. ing[i].action \in Actions /\ Leg(i) \in 1..MaxTxs
  BY JobFields
<1>2. [tx |-> Leg(i), action |-> ing[i].action] \in [tx : 1..MaxTxs, action : Actions]
  BY <1>1
<1>3. edges' = edges \union {[tx |-> Leg(i), action |-> ing[i].action]}
  BY DEF InsertEdge
<1>4. collided' = collided \/ collided' = collided \union {Leg(i)}
  BY DEF InsertEdge
<1>5. edges' \subseteq [tx : 1..MaxTxs, action : Actions] /\ edges \subseteq edges'
  BY <1>2, <1>3 DEF RowsPart
<1>6. collided' \subseteq 1..MaxTxs
  BY <1>1, <1>4 DEF RowsPart
<1> QED BY <1>5, <1>6 DEF RowsPart, RowsGrow

LEMMA PerhapsTyped ==
  ASSUME RowsPart, JobsPart, NEW i \in Callers, PerhapsWritten(i)
  PROVE  RowsPart' /\ RowsGrow
<1>1. CASE UNCHANGED <<rows, collided>>
  BY <1>1, SameRows DEF rows, RowsGrow
<1>2. CASE ing[i].pc = "trade" /\ trades' = trades \union {<<ing[i].wallet, Leg(i)>>}
           /\ UNCHANGED <<edges, collided>>
  BY <1>2, TradeWritten
<1>3. CASE ing[i].pc = "create" /\ InsertEdge(i) /\ UNCHANGED trades
  BY <1>3, EdgeInserted
<1> QED BY <1>1, <1>2, <1>3 DEF PerhapsWritten

LEMMA CursorStored ==
  ASSUME TypeInv, poll.wallet \in Wallets, StoreCursor
  PROVE  SyncPart'
<1> DEFINE w == poll.wallet
           c == IF poll.latest = 0 THEN cursor[w] ELSE poll.latest
<1>1. SyncPart /\ poll.latest \in 0..MaxTime /\ poll.got \in SUBSET (1..MaxTxs)
  BY FieldsOfPoll, TypeInvHas
<1>2. /\ cursor' = [cursor EXCEPT ![w] = c]
      /\ handed' = handed \union ({w} \X poll.got)
      /\ skipped' = skipped \union ({w} \X BeyondCap)
      /\ stamps' = [stamps EXCEPT ![w] = stamps[w] \union {cursor'[w]}]
  BY DEF StoreCursor
<1>3. c \in 0..MaxTime
  BY <1>1 DEF SyncPart
<1> HIDE DEF c
<1>4. cursor' \in [Wallets -> 0..MaxTime] /\ cursor'[w] \in 0..MaxTime
  BY <1>1, <1>2, <1>3 DEF SyncPart
<1>5. BeyondCap \in SUBSET (1..MaxTxs)
  BY MineFacts DEF BeyondCap
<1>6. handed' \subseteq Wallets \X (1..MaxTxs) /\ skipped' \subseteq Wallets \X (1..MaxTxs)
  BY <1>1, <1>2, <1>5 DEF SyncPart
<1>7. stamps' \in [Wallets -> SUBSET (0..MaxTime)]
  BY <1>1, <1>2, <1>4 DEF SyncPart
<1> QED BY <1>4, <1>6, <1>7 DEF SyncPart

LEMMA BlockAdded ==
  ASSUME ChainPart, Transact
  PROVE  /\ ChainPart'
         /\ Len(chain') = Len(chain) + 1
         /\ \A n \in DOMAIN chain : chain'[n] = chain[n] /\ chain'[n].at <= chain'[Len(chain')].at
<1>1. PICK tx \in Txs : (chain # <<>> => tx.at >= Last(chain).at) /\ chain' = Append(chain, tx)
  BY DEF Transact
<1> DEFINE N == Len(chain)
<1>2. chain \in Seq(Txs) /\ N \in Nat /\ N < MaxTxs /\ DOMAIN chain = 1..N
  BY DEF ChainPart, Transact
<1>3. /\ chain' \in Seq(Txs) /\ Len(chain') = N + 1 /\ DOMAIN chain' = 1..(N + 1)
      /\ chain'[N + 1] = tx /\ \A n \in 1..N : chain'[n] = chain[n]
  BY <1>1, <1>2
<1>4. \A n \in 1..N : chain[n] \in Txs
  BY <1>2
<1>5. \A n \in 1..N : chain[n].at \in Int
  BY <1>4, ActivityAssumption DEF Txs, Times
<1>6. \A m, n \in 1..N : m <= n => chain[m].at <= chain[n].at
  BY <1>2 DEF ChainPart, ChainOrdered
<1>7. N # 0 => tx.at >= chain[N].at
  BY <1>1, <1>2 DEF Last
<1>8. tx.at \in Int
  BY ActivityAssumption DEF Txs, Times
<1>9. ASSUME NEW n \in 1..N PROVE chain[n].at <= tx.at
  <2>1. N \in 1..N /\ n <= N
    BY <1>2
  <2>2. chain[n].at <= chain[N].at /\ chain[N].at \in Int /\ chain[n].at \in Int
    BY <1>5, <1>6, <2>1
  <2>3. tx.at >= chain[N].at
    BY <1>2, <1>7, <2>1
  <2> HIDE DEF N
  <2> QED BY <1>8, <2>2, <2>3
<1>10. ASSUME NEW m \in 1..(N + 1), NEW n \in 1..(N + 1), m <= n
       PROVE  chain'[m].at <= chain'[n].at
  <2>1. CASE n \in 1..N
    <3>1. m \in 1..N
      BY <1>2, <1>10, <2>1
    <3> QED BY <1>3, <1>6, <1>10, <2>1, <3>1
  <2>2. CASE n = N + 1 /\ m \in 1..N
    BY <1>3, <1>9, <2>2
  <2>3. CASE n = N + 1 /\ m = N + 1
    BY <1>3, <1>8, <2>3
  <2> QED BY <1>2, <1>10, <2>1, <2>2, <2>3
<1>11. ChainPart'
  <2>1. Len(chain') <= MaxTxs
    BY <1>2, <1>3, ActivityAssumption
  <2>2. provider' \in Providers
    BY DEF ChainPart, Transact
  <2> QED BY <1>3, <1>10, <2>1, <2>2 DEF ChainPart, ChainOrdered
<1> QED BY <1>2, <1>3, <1>9, <1>11

\* The seed's stream of a wallet.
LEMMA SeedStream ==
  ASSUME TypeInv, NEW w, Mine(w) # {}
  PROVE  Ascending(Mine(w)) \in Seq(1..MaxTxs) /\ Ascending(Mine(w)) # <<>>
<1>1. /\ Ascending(Mine(w)) \in Seq(Mine(w)) /\ Len(Ascending(Mine(w))) = Cardinality(Mine(w))
      /\ Mine(w) \subseteq 1..MaxTxs /\ IsFiniteSet(Mine(w))
  BY MineFacts, AscendingFacts
<1>2. Cardinality(Mine(w)) # 0
  BY <1>1, FS_EmptySet
<1>3. Ascending(Mine(w)) \in Seq(1..MaxTxs)
  BY <1>1, SeqMono
<1> QED BY <1>1, <1>2, <1>3

LEMMA TypeInit == Init => TypeInv
<1> SUFFICES ASSUME Init PROVE TypeInv
  OBVIOUS
<1>0. 0 \in Nat /\ 0 \in 0..MaxPages /\ 0 \in 0..MaxTime /\ 0 \in 0..MaxFaults
  BY ActivityAssumption
<1>1. ChainPart
  <2>1. chain = <<>> /\ chain \in Seq(Txs) /\ Len(chain) = 0 /\ DOMAIN chain = {}
    BY DEF Init
  <2> QED BY <2>1, ActivityAssumption DEF Init, ChainPart, ChainOrdered
<1>2. SyncPart
  BY <1>0 DEF Init, SyncPart
<1>3. RowsPart /\ FaultsPart
  BY <1>0 DEF Init, RowsPart, FaultsPart
<1>4. JobsPart
  <2>1. JobGood(IngIdle) /\ IngIdle \in JobType
    BY IdleIsGood DEF JobGood
  <2> QED BY <2>1, Zenon DEF Init, JobsPart
<1>5. PollGood(poll)
  BY <1>0, PollIdleFields, PollIsGood DEF Init
<1> QED BY <1>1, <1>2, <1>3, <1>4, <1>5, TypeInvParts

LEMMA TypeStep == TypeInv /\ [Next]_vars => TypeInv'
<1> SUFFICES ASSUME TypeInv, [Next]_vars PROVE TypeInv'
  OBVIOUS
<1>0. ChainPart /\ SyncPart /\ RowsPart /\ JobsPart /\ FaultsPart /\ PollGood(poll)
  BY TypeInvHas
<1> USE TypeInvPartsNext
<1>1. CASE StartCycle
  <2>1. UNCHANGED <<provider, chain, cursor, rows, ing, faults, history, collided>>
    BY <1>1 DEF StartCycle
  <2> QED BY <1>0, <1>1, <2>1, StartedCycle, SameChain, SameSync, SameRows, SameJobs, SameFaults
<1>2. CASE FetchPage
  <2>1. UNCHANGED <<provider, chain, cursor, rows, faults, history, collided>>
    BY <1>2 DEF FetchPage
  <2>2. PollGood(poll') /\ JobsPart'
    <3>1. ASSUME Page.txs # <<>> PROVE PollGood(poll') /\ JobsPart'
      <4>1. /\ PollGood(poll') /\ Page.txs \in Seq(1..MaxTxs)
            /\ ing' = [ing EXCEPT !["worker"] = Ingesting(poll.wallet, Page.txs)]
        BY <1>2, <3>1, HandedPoll
      <4>2. poll.wallet \in Wallets /\ "worker" \in Callers
        BY <1>2, FieldsOfPoll DEF FetchPage, Callers
      <4> QED BY <1>0, <3>1, <4>1, <4>2, SetIngesting
    <3>2. ASSUME Page.txs = <<>> PROVE PollGood(poll') /\ JobsPart'
      BY <1>0, <1>2, <3>2, EmptyPoll, SameJobs
    <3> QED BY <3>1, <3>2
  <2> QED BY <1>0, <2>1, <2>2, SameChain, SameSync, SameRows, SameFaults
<1>3. CASE AfterPage \/ Truncate
  <2>1. UNCHANGED <<provider, chain, cursor, rows, ing, faults, history, collided>>
    BY <1>3 DEF AfterPage, Truncate
  <2>2. PICK pc \in {"fetch", "save"} : poll' = [poll EXCEPT !.pc = pc]
    BY <1>3 DEF AfterPage, Truncate
  <2>3. poll.wallet \in Wallets
    BY <1>3, FieldsOfPoll DEF AfterPage, Truncate
  <2>4. PollGood(poll')
    BY <2>2, <2>3, PcOfPoll
  <2> QED BY <1>0, <2>1, <2>4, SameChain, SameSync, SameRows, SameJobs, SameFaults
<1>4. CASE SaveCursor
  <2>1. UNCHANGED <<provider, chain, rows, ing, faults, collided>>
    BY <1>4 DEF SaveCursor
  <2>2. PollGood(poll')
    BY <1>4, NextWalletPoll DEF SaveCursor
  <2>3. SyncPart'
    BY <1>4, FieldsOfPoll, CursorStored DEF SaveCursor
  <2> QED BY <1>0, <2>1, <2>2, <2>3, SameChain, SameRows, SameJobs, SameFaults
<1>5. CASE RecordFailure \/ EndCycle \/ FailRecordFailure
  <2>1. UNCHANGED <<provider, chain, cursor, rows, ing, faults, history, collided>>
    BY <1>5 DEF RecordFailure, EndCycle, FailRecordFailure
  <2>2. poll' = NextWallet \/ poll' = PollIdle
    BY <1>5 DEF RecordFailure, EndCycle, FailRecordFailure
  <2>3. PollGood(poll')
    BY <2>2, NextWalletPoll, IdlePoll
  <2> QED BY <1>0, <2>1, <2>3, SameChain, SameSync, SameRows, SameJobs, SameFaults
<1>6. ASSUME NEW w \in Wallets, BeginWallet(w) PROVE TypeInv'
  <2>1. UNCHANGED <<provider, chain, cursor, rows, ing, faults, history, collided>>
    BY <1>6 DEF BeginWallet
  <2>2. PollGood(poll')
    BY <1>6, BegunPoll
  <2> QED BY <1>0, <2>1, <2>2, SameChain, SameSync, SameRows, SameJobs, SameFaults
<1>7. ASSUME NEW i \in Callers, IngestStep(i) PROVE TypeInv'
  <2>1. UNCHANGED <<provider, chain, cursor, poll, faults, history>>
    BY <1>7 DEF IngestStep, WriteTrade, LookupEdge, CreateEdge
  <2>2. RowsPart' /\ JobsPart'
    <3>1. CASE WriteTrade(i)
      BY <1>0, <3>1, TradeWritten, SetLookup DEF WriteTrade
    <3>2. CASE LookupEdge(i)
      <4>1. RowsPart'
        BY <1>0, <3>2, SameRows DEF LookupEdge
      <4>2. ing[i].pc = "lookup"
        BY <3>2 DEF LookupEdge
      <4> QED BY <1>0, <3>2, <4>1, <4>2, LookedUp, SetNextLeg, SetCreate
    <3>3. CASE CreateEdge(i)
      BY <1>0, <3>3, EdgeInserted, SetNextLeg DEF CreateEdge
    <3> QED BY <1>7, <3>1, <3>2, <3>3 DEF IngestStep
  <2>3. PollGood(poll')
    BY <1>0, <2>1
  <2> QED BY <1>0, <2>1, <2>2, <2>3, SameChain, SameSync, SameFaults
<1>8. CASE FailPoll
  <2>1. UNCHANGED <<provider, chain>> /\ "worker" \in Callers /\ Fault
    BY <1>8 DEF FailPoll, Callers
  <2>2. RowsPart'
    BY <1>0, <1>8, <2>1, PerhapsTyped DEF FailPoll
  <2>3. JobsPart'
    BY <1>0, <1>8, <2>1, SetIdle DEF FailPoll
  <2>4. poll.wallet \in Wallets
    BY <1>8, FieldsOfPoll DEF FailPoll
  <2>5. PollGood(poll')
    BY <1>8, <2>4, PcOfPoll DEF FailPoll
  <2>6. SyncPart'
    BY <1>0, <1>8, <2>4, CursorStored, SameSync DEF FailPoll
  <2> QED BY <1>0, <2>1, <2>2, <2>3, <2>5, <2>6, SameChain, FaultTyped
<1>9. CASE Crash
  <2>1. UNCHANGED <<provider, chain, cursor, history>> /\ "worker" \in Callers /\ Fault
    BY <1>9 DEF Crash, Callers
  <2>2. RowsPart' /\ JobsPart' /\ PollGood(poll')
    BY <1>0, <1>9, <2>1, PerhapsTyped, SetIdle, IdlePoll DEF Crash
  <2> QED BY <1>0, <2>1, <2>2, SameChain, SameSync, FaultTyped
<1>10. CASE FailSeed
  <2>1. UNCHANGED <<provider, chain, cursor, poll, history>> /\ "seed" \in Callers /\ Fault
    BY <1>10 DEF FailSeed, Callers
  <2>2. RowsPart' /\ JobsPart'
    BY <1>0, <1>10, <2>1, PerhapsTyped, SetIdle DEF FailSeed
  <2>3. PollGood(poll')
    BY <1>0, <2>1
  <2> QED BY <1>0, <2>1, <2>2, <2>3, SameChain, SameSync, FaultTyped
<1>11. ASSUME NEW w \in Wallets, StartSeed(w) PROVE TypeInv'
  <2>1. UNCHANGED <<provider, chain, cursor, rows, poll, faults, history, collided>>
    BY <1>11 DEF StartSeed
  <2>2. JobsPart'
    BY <1>0, <1>11, SeedStream, SetIngesting DEF StartSeed, Callers
  <2>3. PollGood(poll')
    BY <1>0, <2>1
  <2> QED BY <1>0, <2>1, <2>2, <2>3, SameChain, SameSync, SameRows, SameFaults
<1>12. CASE Transact
  <2>1. UNCHANGED <<provider, cursor, rows, poll, ing, faults, history, collided>>
    BY <1>12 DEF Transact
  <2>2. PollGood(poll') /\ ChainPart'
    BY <1>0, <1>12, <2>1, BlockAdded
  <2> QED BY <1>0, <2>1, <2>2, SameSync, SameRows, SameJobs, SameFaults
<1>13. CASE UNCHANGED vars
  <2>1. UNCHANGED <<provider, chain, cursor, rows, poll, ing, faults, history, collided>>
    BY <1>13 DEF vars
  <2>2. PollGood(poll')
    BY <1>0, <2>1
  <2> QED BY <1>0, <2>1, <2>2, SameChain, SameSync, SameRows, SameJobs, SameFaults
<1> QED
  BY <1>1, <1>2, <1>3, <1>4, <1>5, <1>6, <1>7, <1>8, <1>9, <1>10, <1>11, <1>12, <1>13
  DEF Next, JobStep, Callers

\* Types, and that the chain is in order and work in hand is whole, for any wallets,
\* page size, cap and number of faults.
THEOREM TypeCorrect == Spec => []TypeInv
<1> QED BY TypeInit, TypeStep, PTL DEF Spec

-----------------------------------------------------------------------------
(* One edge per leg.                                                       *)

EdgeInv == TypeInv /\ HandClear /\ OneEdgePerLeg

\* Nobody gets to create an edge, and no row is written.
LEMMA NothingInserted ==
  ASSUME EdgeInv, UNCHANGED <<edges, collided>>,
         \A i \in Callers : ing'[i].pc = "create" => ing'[i] = ing[i]
  PROVE  HandClear' /\ OneEdgePerLeg'
<1>1. HandClear'
  BY DEF EdgeInv, HandClear, Leg
<1>2. OneEdgePerLeg'
  BY DEF EdgeInv, OneEdgePerLeg
<1> QED BY <1>1, <1>2

\* An edge is inserted, and its caller is through with the leg.
LEMMA EdgeInsertedClear ==
  ASSUME EdgeInv, NEW i \in Callers, ing[i].pc = "create", InsertEdge(i), ing'[i].pc # "create",
         \A j \in Callers \ {i} : ing'[j] = ing[j]
  PROVE  HandClear' /\ OneEdgePerLeg'
<1> DEFINE n == [tx |-> Leg(i), action |-> ing[i].action]
<1>1. edges' = edges \union {n} /\ n.tx = Leg(i)
  BY DEF InsertEdge
<1>2. /\ collided \subseteq collided'
      /\ (\E j \in Callers \ {i} : ing[j].pc = "create" /\ Leg(j) = Leg(i)) => Leg(i) \in collided'
  BY DEF InsertEdge
<1> HIDE DEF n
<1>3. \A e \in edges : e.tx = Leg(i) => Leg(i) \in collided
  BY DEF EdgeInv, HandClear
<1>4. ASSUME NEW e \in edges', NEW f \in edges', e.tx = f.tx, e # f PROVE e.tx \in collided'
  <2>1. CASE e \in edges /\ f \in edges
    BY <1>2, <1>4, <2>1 DEF EdgeInv, OneEdgePerLeg
  <2>2. CASE e = n /\ f \in edges
    BY <1>1, <1>2, <1>3, <1>4, <2>2
  <2>3. CASE f = n /\ e \in edges
    BY <1>1, <1>2, <1>3, <1>4, <2>3
  <2> QED BY <1>1, <1>4, <2>1, <2>2, <2>3
<1>5. OneEdgePerLeg'
  BY <1>4 DEF OneEdgePerLeg
<1>6. ASSUME NEW j \in Callers, NEW e \in edges', ing'[j].pc = "create", e.tx = Leg(j)'
      PROVE  Leg(j)' \in collided'
  <2>1. j # i /\ ing'[j] = ing[j]
    BY <1>6
  <2>2. Leg(j)' = Leg(j) /\ ing[j].pc = "create"
    BY <1>6, <2>1 DEF Leg
  <2>3. CASE e \in edges
    BY <1>2, <1>6, <2>2, <2>3 DEF EdgeInv, HandClear
  <2>4. CASE e = n
    <3>1. Leg(j) = Leg(i)
      BY <1>1, <1>6, <2>2, <2>4
    <3> QED BY <1>2, <2>1, <2>2, <3>1
  <2> QED BY <1>1, <1>6, <2>3, <2>4
<1>7. HandClear'
  BY <1>6, Zenon DEF HandClear
<1> QED BY <1>5, <1>7

\* The fault of a caller.
LEMMA PerhapsClear ==
  ASSUME EdgeInv, NEW i \in Callers, PerhapsWritten(i), ing' = [ing EXCEPT ![i] = IngIdle]
  PROVE  HandClear' /\ OneEdgePerLeg'
<1>1. JobBecomes(i, IngIdle) /\ IngIdle.pc = "idle"
  BY TypeInvHas, SetIdle, IdleIsGood DEF EdgeInv
<1>2. ing'[i].pc # "create" /\ \A j \in Callers \ {i} : ing'[j] = ing[j]
  BY <1>1 DEF JobBecomes
<1>3. CASE UNCHANGED <<edges, collided>>
  BY <1>2, <1>3, NothingInserted
<1>4. CASE ing[i].pc = "create" /\ InsertEdge(i)
  BY <1>2, <1>4, EdgeInsertedClear
<1> QED BY <1>3, <1>4 DEF PerhapsWritten, rows

LEMMA AfterLegPc ==
  ASSUME NEW i \in Callers
  PROVE  AfterLeg(i).pc \in {"idle", "trade"}
  BY DEF AfterLeg, IngIdle, Ingesting

LEMMA EdgeStep == EdgeInv /\ [Next]_vars => EdgeInv'
<1> SUFFICES ASSUME EdgeInv, [Next]_vars PROVE HandClear' /\ OneEdgePerLeg'
  BY TypeStep DEF EdgeInv
<1>0. TypeInv /\ JobsPart
  BY TypeInvHas DEF EdgeInv
<1>1. CASE UNCHANGED <<rows, collided, ing>>
  BY <1>1, NothingInserted DEF rows
<1>2. CASE FetchPage /\ Page.txs # <<>>
  <2>1. /\ ing' = [ing EXCEPT !["worker"] = Ingesting(poll.wallet, Page.txs)]
        /\ Page.txs \in Seq(1..MaxTxs)
    BY <1>0, <1>2, HandedPoll
  <2>2. poll.wallet \in Wallets /\ "worker" \in Callers
    BY <1>0, <1>2, FieldsOfPoll DEF FetchPage, Callers
  <2>3. JobBecomes("worker", Ingesting(poll.wallet, Page.txs))
    BY <1>0, <1>2, <2>1, <2>2, SetIngesting
  <2>4. UNCHANGED <<edges, collided>>
    BY <1>2 DEF FetchPage, rows
  <2>5. Ingesting(poll.wallet, Page.txs).pc = "trade"
    BY DEF Ingesting
  <2> QED BY <2>3, <2>4, <2>5, NothingInserted DEF JobBecomes
<1>3. ASSUME NEW w \in Wallets, StartSeed(w) PROVE HandClear' /\ OneEdgePerLeg'
  <2>1. JobBecomes("seed", Ingesting(w, Ascending(Mine(w))))
    BY <1>0, <1>3, SeedStream, SetIngesting DEF StartSeed, Callers
  <2>2. UNCHANGED <<edges, collided>>
    BY <1>3 DEF StartSeed, rows
  <2>3. Ingesting(w, Ascending(Mine(w))).pc = "trade"
    BY DEF Ingesting
  <2> QED BY <2>1, <2>2, <2>3, NothingInserted DEF JobBecomes
<1>4. ASSUME NEW i \in Callers, WriteTrade(i) PROVE HandClear' /\ OneEdgePerLeg'
  <2>1. JobBecomes(i, Job("lookup", ing[i].wallet, ing[i].batch, ing[i].action))
    BY <1>0, <1>4, SetLookup DEF WriteTrade
  <2>2. Job("lookup", ing[i].wallet, ing[i].batch, ing[i].action).pc = "lookup"
    BY DEF Job
  <2>3. UNCHANGED <<edges, collided>>
    BY <1>4 DEF WriteTrade
  <2> QED BY <2>1, <2>2, <2>3, NothingInserted DEF JobBecomes
<1>5. ASSUME NEW i \in Callers, LookupEdge(i) PROVE HandClear' /\ OneEdgePerLeg'
  <2>1. ing[i].pc = "lookup" /\ UNCHANGED <<edges, collided>>
    BY <1>5 DEF LookupEdge, rows
  <2>2. CASE ing' = NextLeg(i)
    <3>1. JobBecomes(i, AfterLeg(i))
      BY <1>0, <2>1, <2>2, SetNextLeg
    <3>2. AfterLeg(i).pc # "create"
      BY AfterLegPc
    <3> HIDE DEF AfterLeg
    <3> QED BY <2>1, <3>1, <3>2, NothingInserted DEF JobBecomes
  <2>3. ASSUME NEW action \in Actions, ~Recorded(i, action),
               ing' = [ing EXCEPT ![i].pc = "create", ![i].action = action]
        PROVE  HandClear' /\ OneEdgePerLeg'
    <3>1. JobBecomes(i, Job("create", ing[i].wallet, ing[i].batch, action))
      BY <1>0, <2>1, <2>3, SetCreate
    <3>2. Leg(i)' = Leg(i)
      BY <3>1 DEF JobBecomes, Job, Leg
    <3>3. \A e \in edges : e.action \in Actions
      BY <1>0, TypeInvHas DEF RowsPart
    <3>4. \A e \in edges : e.tx # Leg(i)
      BY <2>3, <3>3 DEF Recorded
    <3>5. ASSUME NEW j \in Callers, NEW e \in edges', ing'[j].pc = "create", e.tx = Leg(j)'
          PROVE  Leg(j)' \in collided'
      <4>1. j # i
        BY <2>1, <3>2, <3>4, <3>5
      <4>2. ing'[j] = ing[j]
        BY <3>1, <4>1 DEF JobBecomes
      <4> QED BY <2>1, <3>5, <4>2 DEF EdgeInv, HandClear, Leg
    <3>6. HandClear'
      BY <3>5, Zenon DEF HandClear
    <3>7. OneEdgePerLeg'
      BY <2>1 DEF EdgeInv, OneEdgePerLeg
    <3> QED BY <3>6, <3>7
  <2> QED BY <1>0, <1>5, <2>2, <2>3, LookedUp
<1>6. ASSUME NEW i \in Callers, CreateEdge(i) PROVE HandClear' /\ OneEdgePerLeg'
  <2>1. ing[i].pc = "create" /\ InsertEdge(i) /\ ing' = NextLeg(i)
    BY <1>6 DEF CreateEdge
  <2>2. JobBecomes(i, AfterLeg(i))
    BY <1>0, <2>1, SetNextLeg
  <2>3. AfterLeg(i).pc # "create"
    BY AfterLegPc
  <2> HIDE DEF AfterLeg
  <2> QED BY <2>1, <2>2, <2>3, EdgeInsertedClear DEF JobBecomes
<1>7. CASE FailPoll \/ Crash
  BY <1>7, PerhapsClear DEF FailPoll, Crash, Callers
<1>8. CASE FailSeed
  BY <1>8, PerhapsClear DEF FailSeed, Callers
<1>9. CASE StartCycle \/ AfterPage \/ Truncate \/ SaveCursor \/ RecordFailure \/ EndCycle
           \/ FailRecordFailure \/ Transact \/ (\E w \in Wallets : BeginWallet(w))
           \/ (FetchPage /\ Page.txs = <<>>)
  <2>1. UNCHANGED <<rows, collided, ing>>
    BY <1>0, <1>9, EmptyPoll DEF StartCycle, AfterPage, Truncate, SaveCursor, RecordFailure,
       EndCycle, FailRecordFailure, Transact, BeginWallet, FetchPage
  <2> QED BY <1>1, <2>1
<1>10. CASE UNCHANGED vars
  <2>1. UNCHANGED <<rows, collided, ing>>
    BY <1>10 DEF vars
  <2> QED BY <1>1, <2>1
<1> QED
  BY <1>2, <1>3, <1>4, <1>5, <1>6, <1>7, <1>8, <1>9, <1>10
  DEF Next, JobStep, IngestStep, Callers

\* First write wins: a leg has one edge whichever streams and callers deliver it, whatever
\* becomes of the registry and whoever fails, unless two callers were about to create it at
\* the same time (ingestNormalizedTxs).
THEOREM LegsHaveOneEdge == Spec => []OneEdgePerLeg
<1>1. Init => EdgeInv
  <2>1. Init => HandClear /\ OneEdgePerLeg
    BY DEF Init, HandClear, OneEdgePerLeg
  <2> QED BY <2>1, TypeInit DEF EdgeInv
<1>2. EdgeInv => OneEdgePerLeg
  BY DEF EdgeInv
<1> QED BY <1>1, <1>2, EdgeStep, PTL DEF Spec

-----------------------------------------------------------------------------
(* The cursor: what the steps of the callers and of the chain make of it.  *)

LEMMA RowsOnly ==
  ASSUME SyncInv, UNCHANGED <<chain, cursor, history>>, RowsGrow
  PROVE  SyncInv'
<1>1. HandedPassed'
  BY DEF SyncInv, HandedPassed, history
<1>2. CursorStamped'
  BY DEF SyncInv, CursorStamped, history
<1>3. \A w, n : Ingested(w, n) => Ingested(w, n)'
  BY DEF Ingested, RowsGrow
<1>4. ASSUME NEW w \in Wallets, NEW n \in Mine(w)', chain'[n].at <= cursor'[w]
      PROVE  \/ Ingested(w, n)'
             \/ <<w, n>> \notin handed' /\ (<<w, n>> \in skipped' \/ chain'[n].at \in stamps'[w])
  <2>1. n \in Mine(w) /\ chain[n].at <= cursor[w]
    BY <1>4 DEF Mine
  <2>2. \/ Ingested(w, n)
        \/ <<w, n>> \notin handed /\ (<<w, n>> \in skipped \/ chain[n].at \in stamps[w])
    BY <2>1 DEF SyncInv, CursorCovers
  <2> QED BY <1>3, <2>2 DEF history
<1>5. CursorCovers'
  BY <1>4, Zenon DEF CursorCovers
<1> QED BY <1>1, <1>2, <1>5 DEF SyncInv

LEMMA SamePages ==
  ASSUME PagesInv, UNCHANGED <<provider, chain, cursor, poll>>
  PROVE  PagesInv'
<1>1. CleanStart'
  BY DEF PagesInv, CleanStart
<1>2. GotFresh'
  BY DEF PagesInv, GotFresh, Polling, Fresh, After, Mine
<1>3. NothingPassed'
  BY DEF PagesInv, NothingPassed, OnLaterPage, BeyondCap, Polling, Fresh, After, Mine
<1>4. IndexCounts'
  BY DEF PagesInv, IndexCounts, Rank, Fresh, After, Mine
<1> QED BY <1>1, <1>2, <1>3, <1>4 DEF PagesInv

LEMMA NotPolling ==
  ASSUME poll'.pc \notin {"fetch", "ingest", "save"}, CleanStart', ing'["worker"].pc = "idle"
  PROVE  PagesInv' /\ IngestInv'
<1>1. GotFresh' /\ NothingPassed' /\ IndexCounts' /\ GotIngested'
  BY DEF GotFresh, NothingPassed, IndexCounts, GotIngested, Polling
<1>2. WorkerInStep'
  BY DEF WorkerInStep
<1> QED BY <1>1, <1>2 DEF PagesInv, IngestInv

\* Another caller's step: rows are only added.
LEMMA OthersIngest ==
  ASSUME IngestInv, RowsGrow, ing'["worker"] = ing["worker"], UNCHANGED poll
  PROVE  IngestInv'
<1>1. WorkerInStep'
  BY DEF IngestInv, WorkerInStep, RowsGrow, Leg
<1>2. \A n \in poll.got : Ingested(poll.wallet, n) => Ingested(poll.wallet, n)'
  BY DEF Ingested, RowsGrow
<1>3. GotIngested'
  BY <1>2 DEF IngestInv, GotIngested, Polling
<1> QED BY <1>1, <1>3 DEF IngestInv

\* The worker starts on a leg: what it has left behind is ingested.
LEMMA WorkerNextLeg ==
  ASSUME JobsPart, IngestInv, RowsGrow, UNCHANGED poll, ing' = NextLeg("worker"),
         ing["worker"].pc \in {"lookup", "create"}, \E e \in edges' : e.tx = Leg("worker")
  PROVE  IngestInv'
<1> DEFINE j == ing["worker"]
<1>1. /\ j.pc # "idle" /\ poll.pc = "ingest" /\ j.wallet = poll.wallet
      /\ <<poll.wallet, Leg("worker")>> \in trades
  BY DEF IngestInv, WorkerInStep
<1>2. j.batch \in Seq(1..MaxTxs) /\ j.batch # <<>> /\ "worker" \in Callers
  BY <1>1, JobFields DEF Callers
<1>3. ing'["worker"] = AfterLeg("worker")
  BY <1>1, <1>2, SetNextLeg DEF JobBecomes
<1>4. /\ Len(j.batch) = 1 => ToSet(j.batch) = {Leg("worker")}
      /\ Len(j.batch) # 1 => ToSet(j.batch) = {Leg("worker")} \union ToSet(Tail(j.batch))
  BY <1>2, HeadAndTail DEF Leg
<1>5. /\ Len(j.batch) = 1 => ing'["worker"].pc = "idle"
      /\ Len(j.batch) # 1 => /\ ing'["worker"].pc = "trade" /\ ing'["worker"].wallet = j.wallet
                             /\ ing'["worker"].batch = Tail(j.batch)
  <2>1. Len(j.batch) = 1 => ing'["worker"] = IngIdle
    BY <1>3 DEF AfterLeg
  <2>2. Len(j.batch) # 1 => ing'["worker"] = Ingesting(j.wallet, Tail(j.batch))
    BY <1>3 DEF AfterLeg
  <2>3. IngIdle.pc = "idle"
    BY DEF IngIdle
  <2>5. Len(j.batch) # 1 => /\ ing'["worker"].pc = "trade" /\ ing'["worker"].wallet = j.wallet
                            /\ ing'["worker"].batch = Tail(j.batch)
    <3> DEFINE b == Tail(j.batch)
               u == j.wallet
    <3>1. Len(j.batch) # 1 => ing'["worker"] = Ingesting(u, b)
      BY <2>2
    <3> HIDE DEF b, u
    <3>2. Len(j.batch) # 1 => /\ ing'["worker"].pc = "trade" /\ ing'["worker"].wallet = u
                              /\ ing'["worker"].batch = b
      BY <3>1 DEF Ingesting
    <3> QED BY <3>2 DEF b, u
  <2> QED BY <2>1, <2>3, <2>5, Zenon
<1>6. WorkerInStep'
  BY <1>1, <1>5 DEF WorkerInStep
<1> DEFINE w == poll.wallet
<1>7. \A n \in poll.got : Ingested(w, n) \/ n \in ToSet(j.batch)
  BY <1>1 DEF IngestInv, GotIngested, Polling
<1>8. ASSUME NEW n \in poll.got
      PROVE  \/ <<w, n>> \in trades' /\ \E e \in edges' : e.tx = n
             \/ ing'["worker"].pc # "idle" /\ n \in ToSet(ing'["worker"].batch)
  <2>1. CASE Ingested(w, n)
    BY <2>1 DEF Ingested, RowsGrow
  <2>2. CASE n = Leg("worker")
    BY <1>1, <2>2 DEF RowsGrow
  <2>3. CASE n \in ToSet(j.batch) /\ n # Leg("worker")
    <3>1. Len(j.batch) # 1 /\ n \in ToSet(Tail(j.batch))
      BY <1>4, <2>3
    <3> QED BY <1>5, <3>1
  <2> QED BY <1>7, <2>1, <2>2, <2>3
<1>9. GotIngested'
  BY <1>8 DEF GotIngested, Ingested
<1> QED BY <1>6, <1>9 DEF IngestInv

\* It stays at its leg.
LEMMA WorkerAtLeg ==
  ASSUME IngestInv, RowsGrow, UNCHANGED poll, ing["worker"].pc # "idle",
         NEW pc, pc # "idle", NEW action,
         ing'["worker"] = Job(pc, ing["worker"].wallet, ing["worker"].batch, action),
         <<ing["worker"].wallet, Leg("worker")>> \in trades'
  PROVE  IngestInv'
<1>1. /\ ing'["worker"].pc = pc /\ ing'["worker"].wallet = ing["worker"].wallet
      /\ ing'["worker"].batch = ing["worker"].batch
  BY DEF Job
<1>2. WorkerInStep'
  BY <1>1 DEF IngestInv, WorkerInStep, Leg
<1>3. \A n \in poll.got : Ingested(poll.wallet, n) => Ingested(poll.wallet, n)'
  BY DEF Ingested, RowsGrow
<1>4. GotIngested'
  BY <1>1, <1>3 DEF IngestInv, GotIngested, Polling
<1> QED BY <1>2, <1>4 DEF IngestInv

LEMMA IngestCovers ==
  ASSUME CoverInv, NEW i \in Callers, IngestStep(i)
  PROVE  PagesInv' /\ IngestInv' /\ SyncInv'
<1>0. JobsPart /\ RowsPart /\ PagesInv /\ IngestInv /\ SyncInv
  BY TypeInvHas DEF CoverInv
<1>1. UNCHANGED <<provider, chain, cursor, poll, faults, history>> /\ ing[i].pc # "idle"
  BY DEF IngestStep, WriteTrade, LookupEdge, CreateEdge
<1>2. RowsGrow
  <2>1. CASE WriteTrade(i)
    BY <1>0, <1>1, <2>1, TradeWritten DEF WriteTrade
  <2>2. CASE LookupEdge(i)
    BY <2>2 DEF LookupEdge, RowsGrow, rows
  <2>3. CASE CreateEdge(i)
    BY <1>0, <1>1, <2>3, EdgeInserted DEF CreateEdge
  <2> QED BY <2>1, <2>2, <2>3 DEF IngestStep
<1>3. PagesInv' /\ SyncInv'
  BY <1>0, <1>1, <1>2, SamePages, RowsOnly
<1>4. CASE i = "seed"
  <2>1. \E v : JobBecomes(i, v)
    BY <1>0, <1>1, SetLookup, SetNextLeg, SetCreate, LookedUp
       DEF IngestStep, WriteTrade, CreateEdge
  <2>2. ing'["worker"] = ing["worker"]
    BY <1>4, <2>1 DEF JobBecomes, Callers
  <2> QED BY <1>0, <1>1, <1>2, <1>3, <2>2, OthersIngest
<1>5. CASE i = "worker"
  <2>1. CASE WriteTrade(i)
    <3>1. ing'["worker"] = Job("lookup", ing["worker"].wallet, ing["worker"].batch,
                               ing["worker"].action)
      BY <1>0, <1>1, <1>5, <2>1, SetLookup DEF WriteTrade, JobBecomes
    <3>2. <<ing["worker"].wallet, Leg("worker")>> \in trades'
      BY <1>5, <2>1 DEF WriteTrade
    <3> QED BY <1>0, <1>1, <1>2, <1>3, <1>5, <3>1, <3>2, WorkerAtLeg
  <2>2. CASE LookupEdge(i) /\ ing' = NextLeg(i)
               /\ \E action \in Actions : Recorded(i, action)
    <3>1. ing["worker"].pc = "lookup" /\ UNCHANGED edges
      BY <1>5, <2>2 DEF LookupEdge, rows
    <3>2. \E e \in edges' : e.tx = Leg("worker")
      BY <1>5, <2>2, <3>1 DEF Recorded
    <3> QED BY <1>0, <1>1, <1>2, <1>3, <1>5, <2>2, <3>1, <3>2, WorkerNextLeg
  <2>3. ASSUME NEW action \in Actions, LookupEdge(i),
               ing' = [ing EXCEPT ![i].pc = "create", ![i].action = action]
        PROVE  IngestInv'
    <3>1. ing["worker"].pc = "lookup" /\ UNCHANGED trades
      BY <1>5, <2>3 DEF LookupEdge, rows
    <3>2. ing'["worker"] = Job("create", ing["worker"].wallet, ing["worker"].batch, action)
      BY <1>0, <1>1, <1>5, <2>3, SetCreate DEF JobBecomes
    <3>3. <<ing["worker"].wallet, Leg("worker")>> \in trades'
      BY <1>0, <3>1 DEF IngestInv, WorkerInStep
    <3> QED BY <1>0, <1>1, <1>2, <1>5, <3>1, <3>2, <3>3, WorkerAtLeg
  <2>4. CASE CreateEdge(i)
    <3>1. ing["worker"].pc = "create" /\ ing' = NextLeg("worker")
      BY <1>5, <2>4 DEF CreateEdge
    <3>2. [tx |-> Leg("worker"), action |-> ing["worker"].action] \in edges'
      BY <1>5, <2>4 DEF CreateEdge, InsertEdge
    <3>3. \E e \in edges' : e.tx = Leg("worker")
      BY <3>2
    <3> QED BY <1>0, <1>1, <1>2, <1>3, <3>1, <3>3, WorkerNextLeg
  <2>5. CASE LookupEdge(i)
    BY <1>0, <1>3, <2>2, <2>3, <2>5, LookedUp
  <2> QED BY <1>3, <2>1, <2>4, <2>5 DEF IngestStep
<1> QED BY <1>4, <1>5 DEF Callers

-----------------------------------------------------------------------------
(* The cursor: what the pages bring.                                       *)

LEMMA OrderedChain ==
  ASSUME TypeInv, NEW m \in DOMAIN chain, NEW n \in DOMAIN chain, m <= n
  PROVE  chain[m].at <= chain[n].at
  BY DEF TypeInv, ChainOrdered

LEMMA FreshFacts ==
  ASSUME TypeInv, NEW w \in Wallets
  PROVE  /\ Fresh(w) \in SUBSET Nat /\ IsFiniteSet(Fresh(w)) /\ Fresh(w) \subseteq Mine(w)
         /\ \A n \in Fresh(w) : /\ n \in DOMAIN chain /\ n \in Nat /\ chain[n].at \in Times
                                /\ chain[n].at > cursor[w]
         /\ \A n \in Mine(w) : n \notin Fresh(w) => chain[n].at <= cursor[w]
         /\ cursor[w] \in 0..MaxTime
<1>1. Fresh(w) \in SUBSET Nat /\ IsFiniteSet(Fresh(w)) /\ Fresh(w) \subseteq Mine(w)
  BY AfterFacts DEF Fresh
<1>2. \A n \in Fresh(w) : chain[n].at > cursor[w]
  BY DEF Fresh, After
<1>3. cursor[w] \in 0..MaxTime
  BY TypeInvHas DEF SyncPart
<1>4. \A n \in Mine(w) : n \in DOMAIN chain /\ chain[n].at \in Times
  BY MineFacts
<1>5. \A n \in Mine(w) : n \notin Fresh(w) => ~(chain[n].at > cursor[w])
  BY DEF Fresh, After
<1>6. \A n \in Mine(w) : n \notin Fresh(w) => chain[n].at <= cursor[w]
  BY <1>3, <1>4, <1>5, ActivityAssumption DEF Times
<1> QED BY <1>1, <1>2, <1>3, <1>4, <1>6

\* The mock provider goes on where its index says.
LEMMA MockPaged ==
  ASSUME CoverInv, provider = "mock", poll.pc = "fetch", poll.wallet \in Wallets
  PROVE  LET F == Fresh(poll.wallet)
             end == IF Page.next = 0 THEN Cardinality(F) ELSE Page.next
         IN  /\ end <= Cardinality(F)
             /\ poll.got \union ToSet(Page.txs) = {n \in F : Rank(F, n) <= end}
<1> DEFINE w == poll.wallet
           F == Fresh(w)
           N == Cardinality(F)
           end == IF Page.next = 0 THEN N ELSE Page.next
           G == ToSet(Page.txs)
<1>1. TypeInv /\ poll.page \in Nat
  BY FieldsOfPoll DEF CoverInv
<1>2. Page = MockPage(w, cursor[w], poll.page)
  BY DEF Page
<1>3. poll.page <= N /\ poll.got = {n \in F : Rank(F, n) <= poll.page}
  BY DEF CoverInv, PagesInv, IndexCounts
<1>4. Page.next \in Nat /\ end <= N /\ G = {n \in F : poll.page < Rank(F, n) /\ Rank(F, n) <= end}
  BY <1>1, <1>2, <1>3, MockFacts DEF Fresh
<1>5. F \in SUBSET Nat /\ IsFiniteSet(F) /\ N \in Nat
  BY <1>1, FreshFacts, FS_CardinalityType
<1>6. \A n \in F : Rank(F, n) \in Nat /\ Rank(F, n) <= N
  BY <1>5, RankBounds
<1>7. end \in Nat
  BY <1>4, <1>5
<1>8. poll.page <= end
  <2>1. CASE end < poll.page
    <3>1. Page.next # 0
      BY <1>1, <1>3, <1>4, <1>5, <2>1
    <3>2. poll.page < Page.next
      BY <1>1, <1>2, <3>1, MockAdvances
    <3> QED BY <1>1, <1>4, <2>1, <3>1, <3>2
  <2> QED BY <1>1, <1>7, <2>1
<1> HIDE DEF end, N, F, G
<1>9. ASSUME NEW n \in F PROVE n \in poll.got \union G <=> Rank(F, n) <= end
  BY <1>1, <1>3, <1>4, <1>6, <1>7, <1>8
<1>10. poll.got \subseteq F /\ G \subseteq F
  BY <1>3, <1>4
<1>11. poll.got \union G = {n \in F : Rank(F, n) <= end}
  BY <1>9, <1>10
<1> QED BY <1>4, <1>11 DEF end, N, F, G

\* A newest-first provider leaves what is older than all it hands over, and nothing that was
\* asked for is older than a page on which nothing was.
LEMMA HeliusPaged ==
  ASSUME CoverInv, provider = "helius", poll.pc = "fetch", poll.wallet \in Wallets
  PROVE  LET F == Fresh(poll.wallet)
             G == ToSet(Page.txs)
         IN  /\ \A m \in G : poll.page # 0 => m < poll.page
             /\ \A n \in F : n \notin G /\ (poll.page # 0 => n < poll.page) =>
                  n < Page.next /\ G # {}
<1> DEFINE w == poll.wallet
           F == Fresh(w)
           G == ToSet(Page.txs)
           raw == HeliusRaw(w, poll.page)
<1>1. TypeInv /\ poll.page \in Nat
  BY FieldsOfPoll DEF CoverInv
<1>2. Page = HeliusPage(w, cursor[w], poll.page)
  BY DEF Page
<1>3. /\ G = After(ToSet(raw), cursor[w])
      /\ Page.next = IF Len(raw) = PageSize THEN Last(raw) ELSE 0
  BY <1>1, <1>2, HeliusFacts
<1>4. /\ ToSet(raw) \subseteq Mine(w)
      /\ \A n \in ToSet(raw) : poll.page # 0 => n < poll.page
      /\ Len(raw) = PageSize => Last(raw) \in ToSet(raw)
      /\ \A n \in Mine(w) : n \notin ToSet(raw) /\ (poll.page # 0 => n < poll.page) =>
           Len(raw) = PageSize /\ \A m \in ToSet(raw) : n < m
  BY <1>1, RawFacts
<1>5. G \subseteq ToSet(raw)
  BY <1>3 DEF After
<1>6. ASSUME NEW n \in F, n \notin G, poll.page # 0 => n < poll.page
      PROVE  n < Page.next /\ G # {}
  <2>1. n \in Mine(w) /\ n \in DOMAIN chain /\ chain[n].at > cursor[w] /\ n \in Nat
        /\ chain[n].at \in Times
    BY <1>1, <1>6, FreshFacts
  <2>2. n \notin ToSet(raw)
    BY <1>3, <1>6, <2>1 DEF After
  <2>3. Len(raw) = PageSize /\ \A m \in ToSet(raw) : n < m
    BY <1>4, <1>6, <2>1, <2>2
  <2>4. Last(raw) \in ToSet(raw) /\ n < Last(raw) /\ Page.next = Last(raw)
    BY <1>3, <1>4, <2>3
  <2>5. Last(raw) \in DOMAIN chain /\ Last(raw) \in Nat /\ chain[Last(raw)].at \in Times
    BY <1>1, <1>4, <2>4, MineFacts
  <2>6. chain[n].at <= chain[Last(raw)].at
    BY <1>1, <2>1, <2>4, <2>5, OrderedChain
  <2>7. cursor[w] \in 0..MaxTime
    BY <1>1, FreshFacts
  <2>8. chain[Last(raw)].at > cursor[w]
    BY <2>1, <2>5, <2>6, <2>7, ActivityAssumption DEF Times
  <2>9. Last(raw) \in G
    BY <1>3, <2>4, <2>8 DEF After
  <2> QED BY <2>4, <2>9
<1> QED BY <1>4, <1>5, <1>6

\* What a later page leaves of the promise that nothing is passed.
LEMMA PassedNext ==
  ASSUME UNCHANGED <<provider, chain, cursor>>, NEW w, poll'.wallet = w,
         \A n \in Fresh(w) : \/ n \in poll'.got
                             \/ \A m \in poll'.got : m < n
                             \/ /\ provider = "helius" /\ n < poll'.page
                                /\ poll'.pc = "save" => poll'.pages = MaxPages
  PROVE  NothingPassed'
<1>1. \A v : Mine(v)' = Mine(v)
  BY DEF Mine
<1>2. ASSUME NEW n \in Fresh(w), provider = "helius", n < poll'.page,
             poll'.pc = "save" => poll'.pages = MaxPages
      PROVE  OnLaterPage(n)'
  <2>1. n \in Mine(w) /\ chain[n].at > cursor[w]
    BY <1>2 DEF Fresh, After
  <2>2. n \in Mine(w)'
    BY <1>1, <2>1
  <2>3. n \in BeyondCap' <=> /\ n \in Mine(w)' /\ provider = "helius"
                             /\ poll'.pages = MaxPages /\ n < poll'.page
                             /\ chain[n].at > cursor[w]
    BY DEF BeyondCap, Mine
  <2> QED BY <1>2, <2>1, <2>2, <2>3 DEF OnLaterPage
<1>3. \A n \in Fresh(w) : n \in poll'.got \/ (\A m \in poll'.got : m < n) \/ OnLaterPage(n)'
  BY <1>2
<1>4. Fresh(poll.wallet)' = Fresh(w)
  BY DEF Fresh, After, Mine
<1> QED BY <1>3, <1>4 DEF NothingPassed

LEMMA GotFreshNext ==
  ASSUME UNCHANGED <<chain, cursor>>, NEW w, poll'.wallet = w,
         poll'.got \subseteq Fresh(w), \A n \in poll'.got : chain[n].at <= poll'.latest,
         IF poll'.got = {} THEN poll'.latest = 0
                           ELSE \E n \in poll'.got : chain[n].at = poll'.latest
  PROVE  GotFresh'
<1>1. Fresh(poll.wallet)' = Fresh(w)
  BY DEF Fresh, After, Mine
<1> QED BY <1>1 DEF GotFresh

LEMMA IndexNext ==
  ASSUME UNCHANGED <<provider, chain, cursor>>, NEW w, poll'.wallet = w,
         provider = "mock" /\ (poll'.pc = "fetch" \/ (poll'.pc = "ingest" /\ poll'.page # 0)) =>
           /\ poll'.page <= Cardinality(Fresh(w))
           /\ poll'.got = {n \in Fresh(w) : Rank(Fresh(w), n) <= poll'.page}
  PROVE  IndexCounts'
<1>1. Fresh(poll.wallet)' = Fresh(w)
  BY DEF Fresh, After, Mine
<1> QED BY <1>1 DEF IndexCounts, Rank

\* A page with something on it.
LEMMA HandedCovers ==
  ASSUME CoverInv, FetchPage, Page.txs # <<>>
  PROVE  PagesInv' /\ IngestInv'
<1> DEFINE w == poll.wallet
           G == ToSet(Page.txs)
           F == Fresh(w)
<1>0. TypeInv /\ JobsPart /\ PagesInv /\ IngestInv /\ poll.pc = "fetch" /\ w \in Wallets
  BY TypeInvHas, FieldsOfPoll DEF CoverInv, FetchPage
<1>1. /\ poll' = PollOf("ingest", poll.todo, w, Page.next, poll.pages + 1,
                        Max({poll.latest} \union HandedTimes), poll.got \union G)
      /\ ing' = [ing EXCEPT !["worker"] = Ingesting(w, Page.txs)]
      /\ Page.txs \in Seq(1..MaxTxs) /\ G \subseteq F
  BY <1>0, HandedPoll
<1>2. /\ poll'.pc = "ingest" /\ poll'.wallet = w /\ poll'.page = Page.next
      /\ poll'.latest = Max({poll.latest} \union HandedTimes) /\ poll'.got = poll.got \union G
  BY <1>1 DEF PollOf
<1>3. UNCHANGED <<provider, chain, cursor>> /\ RowsGrow
  BY DEF FetchPage, rows, RowsGrow
<1>4. ing'["worker"] = Ingesting(w, Page.txs)
  BY <1>0, <1>1, SetIngesting DEF JobBecomes, Callers
<1>5. /\ ing'["worker"].pc = "trade" /\ ing'["worker"].wallet = w
      /\ ing'["worker"].batch = Page.txs
  BY <1>4 DEF Ingesting
<1>6. CleanStart'
  BY <1>2 DEF CleanStart
<1>7. WorkerInStep'
  BY <1>2, <1>5 DEF WorkerInStep
<1>8. GotIngested'
  <2>1. ing["worker"].pc = "idle"
    BY <1>0 DEF IngestInv, WorkerInStep
  <2>2. \A n \in poll.got : Ingested(w, n)
    BY <1>0, <2>1 DEF IngestInv, GotIngested, Polling
  <2>3. \A n \in poll'.got : (<<w, n>> \in trades' /\ \E e \in edges' : e.tx = n) \/ n \in G
    BY <1>2, <1>3, <2>2 DEF Ingested, RowsGrow
  <2> QED BY <1>2, <1>5, <2>3 DEF GotIngested, Ingested
<1>9. GotFresh'
  <2> DEFINE T == {poll.latest} \union {chain[n].at : n \in G}
  <2>1. F \subseteq Mine(w) /\ \A n \in F : chain[n].at \in Times
    BY <1>0, FreshFacts
  <2>2. G \subseteq Mine(w) /\ poll.latest \in 0..MaxTime
    BY <1>0, <1>1, <2>1, FieldsOfPoll
  <2>3. Max(T) \in T /\ Max(T) \in 0..MaxTime /\ \A t \in T : t <= Max(T)
    BY <1>0, <2>2, LatestOf
  <2>4. poll'.latest = Max(T)
    BY <1>2 DEF HandedTimes
  <2>5. poll.got \subseteq F /\ \A n \in poll.got : chain[n].at <= poll.latest
    BY <1>0 DEF PagesInv, GotFresh, Polling
  <2>6. IF poll.got = {} THEN poll.latest = 0 ELSE \E n \in poll.got : chain[n].at = poll.latest
    BY <1>0 DEF PagesInv, GotFresh, Polling
  <2>7. \E n \in G : TRUE
    <3>1. Page.txs[1] \in G
      BY <1>1 DEF ToSet
    <3> QED BY <3>1
  <2>8. \A n \in G : chain[n].at <= Max(T)
    BY <2>3
  <2>9. poll.latest <= Max(T) /\ (Max(T) = poll.latest \/ \E n \in G : chain[n].at = Max(T))
    BY <2>3
  <2> HIDE DEF T, G, F
  <2>10. \A n \in poll.got : chain[n].at <= Max(T)
    BY <2>1, <2>2, <2>3, <2>5, <2>9, ActivityAssumption DEF Times
  <2>11. \E n \in poll.got \union G : chain[n].at = Max(T)
    <3>1. CASE \E n \in G : chain[n].at = Max(T)
      BY <3>1
    <3>2. CASE Max(T) = poll.latest /\ poll.got # {}
      BY <2>6, <3>2
    <3>3. CASE Max(T) = poll.latest /\ poll.got = {}
      <4>1. PICK n \in G : TRUE
        BY <2>7
      <4>2. chain[n].at <= 0 /\ chain[n].at \in Times
        BY <1>1, <2>1, <2>6, <2>8, <3>3
      <4> QED BY <4>2, ActivityAssumption DEF Times
    <3> QED BY <2>9, <3>1, <3>2, <3>3
  <2>12. poll'.got \subseteq F /\ poll'.got # {}
    BY <1>1, <1>2, <2>5, <2>7
  <2> QED BY <1>2, <1>3, <2>4, <2>8, <2>10, <2>11, <2>12, GotFreshNext DEF F
<1>10. provider \in {"mock", "helius"}
  BY <1>0, ActivityAssumption, TypeInvHas DEF CoverInv, ChainPart
<1>11. NothingPassed'
  <2>1. \A n \in F : n \in poll.got \/ (\A m \in poll.got : m < n) \/ OnLaterPage(n)
    BY <1>0 DEF PagesInv, NothingPassed, Polling
  <2>2. ASSUME NEW n \in F, n \notin poll.got \union G
        PROVE  (\A m \in poll.got \union G : m < n) \/ (provider = "helius" /\ n < Page.next)
    <3>1. CASE provider = "mock"
      <4> DEFINE end == IF Page.next = 0 THEN Cardinality(F) ELSE Page.next
      <4>1. poll.got \union G = {k \in F : Rank(F, k) <= end}
        BY <1>0, <3>1, MockPaged
      <4>2. F \in SUBSET Nat /\ IsFiniteSet(F) /\ Page.next \in Nat /\ Cardinality(F) \in Nat
        BY <1>0, FreshFacts, PageFacts, FS_CardinalityType
      <4>3. end \in Nat
        BY <4>2
      <4> HIDE DEF end, F, G
      <4>4. ~(Rank(F, n) <= end) /\ Rank(F, n) \in Nat
        BY <2>2, <4>1, <4>2, RankBounds
      <4>5. ASSUME NEW m \in poll.got \union G PROVE m < n
        <5>1. m \in F /\ Rank(F, m) <= end
          BY <4>1
        <5>2. m \in Nat /\ n \in Nat /\ Rank(F, m) \in Nat
          BY <4>2, <5>1, <2>2, RankBounds
        <5>3. n <= m => Rank(F, n) <= Rank(F, m)
          BY <4>2, <5>2, RankOrder
        <5> QED BY <4>3, <4>4, <5>1, <5>2, <5>3
      <4> QED BY <4>5
    <3>2. CASE provider = "helius"
      <4>1. /\ \A m \in G : poll.page # 0 => m < poll.page
            /\ n \notin G /\ (poll.page # 0 => n < poll.page) => n < Page.next
        BY <1>0, <2>2, <3>2, HeliusPaged
      <4>2. CASE poll.page # 0 => n < poll.page
        BY <2>2, <3>2, <4>1, <4>2
      <4>3. CASE poll.page # 0 /\ ~(n < poll.page)
        <5>1. \A m \in poll.got : m < n
          BY <1>0, <2>1, <2>2, <4>3 DEF OnLaterPage
        <5>2. \A m \in G : m < poll.page
          BY <4>1, <4>3
        <5>3. poll.page \in Nat /\ n \in Nat /\ \A m \in G : m \in Nat
          BY <1>0, <1>1, <2>2, FieldsOfPoll, FreshFacts
        <5> HIDE DEF G, F
        <5>4. \A m \in G : m < n
          BY <4>3, <5>2, <5>3
        <5> QED BY <5>1, <5>4
      <4> QED BY <4>2, <4>3
    <3> QED BY <1>10, <3>1, <3>2
  <2> QED BY <1>2, <1>3, <2>2, PassedNext
<1>12. IndexCounts'
  <2>1. provider = "mock" /\ Page.next # 0 =>
          Page.next <= Cardinality(F) /\ poll'.got = {n \in F : Rank(F, n) <= Page.next}
    BY <1>0, <1>2, MockPaged
  <2> QED BY <1>2, <1>3, <2>1, IndexNext
<1> QED BY <1>6, <1>7, <1>8, <1>9, <1>11, <1>12 DEF PagesInv, IngestInv

\* An empty page.
LEMMA EmptyCovers ==
  ASSUME CoverInv, FetchPage, Page.txs = <<>>
  PROVE  PagesInv' /\ IngestInv'
<1> DEFINE w == poll.wallet
           F == Fresh(w)
           G == ToSet(Page.txs)
           pc == IF cursor[w] # 0 \/ Page.next = 0 THEN "save" ELSE "fetch"
<1>0. TypeInv /\ PagesInv /\ IngestInv /\ poll.pc = "fetch" /\ w \in Wallets
  BY FieldsOfPoll DEF CoverInv, FetchPage
<1>1. /\ poll' = PollOf(pc, poll.todo, w, Page.next, poll.pages + 1, poll.latest, poll.got)
      /\ ing' = ing
  BY <1>0, EmptyPoll
<1>2. /\ poll'.pc = pc /\ poll'.wallet = w /\ poll'.page = Page.next
      /\ poll'.latest = poll.latest /\ poll'.got = poll.got
  BY <1>1 DEF PollOf
<1>3. UNCHANGED <<provider, chain, cursor>> /\ RowsGrow
  BY DEF FetchPage, rows, RowsGrow
<1>4. G = {}
  BY DEF ToSet
<1>5. ing["worker"].pc = "idle"
  BY <1>0 DEF IngestInv, WorkerInStep
<1>6. CleanStart'
  BY <1>2 DEF CleanStart
<1>7. WorkerInStep'
  BY <1>1, <1>5 DEF WorkerInStep
<1>8. GotIngested'
  <2>1. \A n \in poll.got : Ingested(w, n)
    BY <1>0, <1>5 DEF IngestInv, GotIngested, Polling
  <2>2. \A n \in poll.got : <<w, n>> \in trades' /\ \E e \in edges' : e.tx = n
    BY <1>3, <2>1 DEF Ingested, RowsGrow
  <2> QED BY <1>2, <2>2 DEF GotIngested, Ingested
<1>9. GotFresh'
  <2>1. /\ poll.got \subseteq F /\ \A n \in poll.got : chain[n].at <= poll.latest
        /\ IF poll.got = {} THEN poll.latest = 0 ELSE \E n \in poll.got : chain[n].at = poll.latest
    BY <1>0 DEF PagesInv, GotFresh, Polling
  <2> QED BY <1>2, <1>3, <2>1, GotFreshNext
<1>10. NothingPassed'
  <2>1. \A n \in F : n \in poll.got \/ (\A m \in poll.got : m < n) \/ OnLaterPage(n)
    BY <1>0 DEF PagesInv, NothingPassed, Polling
  <2>2. ASSUME NEW n \in F PROVE ~OnLaterPage(n)
    <3>1. CASE provider = "helius"
      <4>1. ~(poll.page # 0 => n < poll.page)
        BY <1>0, <1>4, <3>1, HeliusPaged
      <4> QED BY <1>0, <4>1 DEF OnLaterPage
    <3> QED BY <1>0, <3>1 DEF OnLaterPage
  <2> QED BY <1>2, <1>3, <2>1, <2>2, PassedNext
<1>11. IndexCounts'
  <2>1. provider = "mock" /\ Page.next # 0 =>
          Page.next <= Cardinality(F) /\ poll'.got = {n \in F : Rank(F, n) <= Page.next}
    BY <1>0, <1>2, <1>4, MockPaged
  <2> QED BY <1>2, <1>3, <2>1, IndexNext
<1> QED BY <1>6, <1>7, <1>8, <1>9, <1>10, <1>11 DEF PagesInv, IngestInv

\* The poll goes on, or ends.
LEMMA TurnCovers ==
  ASSUME CoverInv, AfterPage \/ Truncate
  PROVE  PagesInv' /\ IngestInv'
<1> DEFINE w == poll.wallet
           F == Fresh(w)
<1>0. TypeInv /\ PagesInv /\ IngestInv /\ poll.pc \in {"fetch", "ingest"} /\ w \in Wallets
  BY FieldsOfPoll DEF CoverInv, AfterPage, Truncate
<1>1. PICK pc \in {"fetch", "save"} :
        /\ poll' = [poll EXCEPT !.pc = pc]
        /\ pc = "fetch" => poll.pc = "ingest" /\ poll.page # 0
        /\ pc = "save" => poll.page = 0 \/ poll.pages = MaxPages
  BY DEF AfterPage, Truncate
<1>2. /\ poll'.pc = pc /\ poll'.wallet = w /\ poll'.page = poll.page /\ poll'.pages = poll.pages
      /\ poll'.latest = poll.latest /\ poll'.got = poll.got
  <2>1. poll' = PollOf(pc, poll.todo, w, poll.page, poll.pages, poll.latest, poll.got)
    BY <1>0, <1>1, PcOfPoll
  <2> QED BY <2>1 DEF PollOf
<1>3. UNCHANGED <<provider, chain, cursor, rows, ing>>
  BY DEF AfterPage, Truncate
<1>4. ing["worker"].pc = "idle"
  BY <1>0 DEF AfterPage, Truncate, IngestInv, WorkerInStep
<1>5. CleanStart'
  BY <1>2 DEF CleanStart
<1>6. WorkerInStep'
  BY <1>3, <1>4 DEF WorkerInStep
<1>7. GotIngested'
  <2>1. \A n \in poll.got : Ingested(w, n)
    BY <1>0, <1>4 DEF IngestInv, GotIngested, Polling
  <2> QED BY <1>2, <1>3, <2>1 DEF GotIngested, Ingested, rows
<1>8. GotFresh'
  <2>1. /\ poll.got \subseteq F /\ \A n \in poll.got : chain[n].at <= poll.latest
        /\ IF poll.got = {} THEN poll.latest = 0 ELSE \E n \in poll.got : chain[n].at = poll.latest
    BY <1>0 DEF PagesInv, GotFresh, Polling
  <2> QED BY <1>2, <1>3, <2>1, GotFreshNext
<1>9. NothingPassed'
  <2>1. \A n \in F : n \in poll.got \/ (\A m \in poll.got : m < n)
                     \/ (provider = "helius" /\ n < poll.page)
    BY <1>0 DEF PagesInv, NothingPassed, Polling, OnLaterPage
  <2>2. \A n \in F : n \in Nat
    BY <1>0, FreshFacts
  <2>3. \A n \in F : n < poll.page => poll.page # 0
    BY <1>0, <2>2, FieldsOfPoll
  <2>4. \A n \in F : \/ n \in poll.got
                     \/ \A m \in poll.got : m < n
                     \/ /\ provider = "helius" /\ n < poll.page
                        /\ pc = "save" => poll.pages = MaxPages
    BY <1>1, <2>1, <2>3
  <2> QED BY <1>2, <1>3, <2>4, PassedNext
<1>10. IndexCounts'
  <2>1. provider = "mock" /\ pc = "fetch" =>
          poll.page <= Cardinality(F) /\ poll.got = {n \in F : Rank(F, n) <= poll.page}
    BY <1>0, <1>1 DEF PagesInv, IndexCounts
  <2> QED BY <1>1, <1>2, <1>3, <2>1, IndexNext
<1> QED BY <1>5, <1>6, <1>7, <1>8, <1>9, <1>10 DEF PagesInv, IngestInv

LEMMA BegunCovers ==
  ASSUME CoverInv, NEW w \in Wallets, BeginWallet(w)
  PROVE  PagesInv' /\ IngestInv'
<1> DEFINE F == Fresh(w)
<1>0. TypeInv /\ PagesInv /\ IngestInv /\ poll.pc = "next"
  BY DEF CoverInv, BeginWallet
<1>1. poll.page = 0 /\ poll.latest = 0 /\ poll.got = {}
  BY <1>0 DEF PagesInv, CleanStart
<1>2. poll' = PollOf("fetch", poll.todo \ {w}, w, 0, poll.pages, 0, {})
  BY <1>0, <1>1, BegunPoll
<1>3. /\ poll'.pc = "fetch" /\ poll'.wallet = w /\ poll'.page = 0
      /\ poll'.latest = 0 /\ poll'.got = {}
  BY <1>2 DEF PollOf
<1>4. UNCHANGED <<provider, chain, cursor, rows, ing>>
  BY DEF BeginWallet
<1>5. ing["worker"].pc = "idle"
  BY <1>0 DEF IngestInv, WorkerInStep
<1>6. CleanStart' /\ GotIngested'
  BY <1>3 DEF CleanStart, GotIngested
<1>7. WorkerInStep'
  BY <1>4, <1>5 DEF WorkerInStep
<1>8. GotFresh'
  BY <1>3, <1>4, GotFreshNext
<1>9. NothingPassed'
  BY <1>3, <1>4, PassedNext
<1>10. IndexCounts'
  <2>1. F \in SUBSET Nat /\ IsFiniteSet(F) /\ Cardinality(F) \in Nat
    BY <1>0, FreshFacts, FS_CardinalityType
  <2>2. \A n \in F : Rank(F, n) >= 1 /\ Rank(F, n) \in Nat
    BY <2>1, RankBounds
  <2> HIDE DEF F
  <2>a. ASSUME NEW n \in F PROVE ~(Rank(F, n) <= 0)
    BY <2>2
  <2>3. {} = {n \in F : Rank(F, n) <= 0}
    BY <2>a, Zenon
  <2>4. 0 <= Cardinality(F)
    BY <2>1
  <2> QED BY <1>3, <1>4, <2>3, <2>4, IndexNext DEF F
<1> QED BY <1>6, <1>7, <1>8, <1>9, <1>10 DEF PagesInv, IngestInv

-----------------------------------------------------------------------------
(* The cursor: what is stored, and the steps together.                     *)

LEMMA StoreCovers ==
  ASSUME CoverInv, poll.pc = "save", StoreCursor, UNCHANGED chain, RowsGrow
  PROVE  SyncInv'
<1> DEFINE u == poll.wallet
           F == Fresh(u)
           c == IF poll.latest = 0 THEN cursor[u] ELSE poll.latest
<1>0. TypeInv /\ PagesInv /\ IngestInv /\ SyncInv /\ u \in Wallets
  BY FieldsOfPoll DEF CoverInv
<1>1. /\ cursor \in [Wallets -> 0..MaxTime] /\ stamps \in [Wallets -> SUBSET (0..MaxTime)]
      /\ poll.latest \in 0..MaxTime
  BY <1>0, TypeInvHas, FieldsOfPoll DEF SyncPart
<1>2. /\ cursor' = [cursor EXCEPT ![u] = c]
      /\ handed' = handed \union ({u} \X poll.got)
      /\ skipped' = skipped \union ({u} \X BeyondCap)
      /\ stamps' = [stamps EXCEPT ![u] = stamps[u] \union {cursor'[u]}]
  BY DEF StoreCursor
<1>3. /\ poll.got \subseteq F /\ \A n \in poll.got : chain[n].at <= poll.latest
      /\ IF poll.got = {} THEN poll.latest = 0 ELSE \E n \in poll.got : chain[n].at = poll.latest
  BY <1>0 DEF PagesInv, GotFresh, Polling
<1>4. \A n \in F : /\ n \in DOMAIN chain /\ n \in Nat /\ chain[n].at \in Times
                   /\ chain[n].at > cursor[u]
  BY <1>0, FreshFacts
<1>5. \A n \in poll.got : Ingested(u, n)
  BY <1>0 DEF IngestInv, WorkerInStep, GotIngested, Polling
<1>6. \A n \in F : n \in poll.got \/ (\A m \in poll.got : m < n) \/ n \in BeyondCap
  BY <1>0 DEF PagesInv, NothingPassed, Polling, OnLaterPage
<1>7. \A n \in Mine(u) : n \notin F => chain[n].at <= cursor[u]
  BY <1>0, FreshFacts
<1>8. poll.latest = 0 => poll.got = {}
  <2>1. ASSUME NEW n \in poll.got, poll.latest = 0 PROVE FALSE
    BY <1>3, <1>4, <2>1, ActivityAssumption DEF Times
  <2> QED BY <2>1
<1>9. poll.latest # 0 => \E n \in poll.got : chain[n].at = poll.latest
  BY <1>3
<1>10. cursor[u] <= c /\ c \in 0..MaxTime /\ cursor[u] \in 0..MaxTime
  <2>1. CASE poll.latest = 0
    BY <1>0, <1>1, <2>1
  <2>2. CASE poll.latest # 0
    <3>1. PICK n \in poll.got : chain[n].at = poll.latest
      BY <1>9, <2>2
    <3>2. chain[n].at > cursor[u]
      BY <1>3, <1>4, <3>1
    <3> QED BY <1>0, <1>1, <2>2, <3>1, <3>2
  <2> QED BY <2>1, <2>2
<1>11. /\ cursor'[u] = c /\ stamps'[u] = stamps[u] \union {c}
       /\ \A w \in Wallets \ {u} : cursor'[w] = cursor[w] /\ stamps'[w] = stamps[w]
  BY <1>0, <1>1, <1>2
<1>12. poll.latest # 0 => c = poll.latest
  OBVIOUS
<1>13. poll.latest = 0 => c = cursor[u]
  OBVIOUS
<1>14. UNCHANGED chain /\ \A w : Mine(w)' = Mine(w)
  BY DEF Mine
<1>15. \A w \in Wallets : cursor[w] \in Int /\ cursor[w] <= cursor'[w] /\ cursor'[w] \in Int
  <2>1. \A w \in Wallets : cursor[w] \in 0..MaxTime
    BY <1>1
  <2> HIDE DEF c
  <2> QED BY <1>10, <1>11, <2>1
<1> HIDE DEF c, F
<1>16. HandedPassed'
  <2>1. ASSUME NEW p \in handed' PROVE p[2] \in DOMAIN chain /\ chain[p[2]].at <= cursor'[p[1]]
    <3>1. CASE p \in handed
      <4>1. p[2] \in DOMAIN chain /\ chain[p[2]].at <= cursor[p[1]]
        BY <1>0, <3>1 DEF SyncInv, HandedPassed
      <4>2. p[1] \in Wallets
        BY <1>0, <3>1, TypeInvHas DEF SyncPart
      <4>3. chain[p[2]].at \in Times
        <5>1. chain \in Seq(Txs)
          BY <1>0, TypeInvHas DEF ChainPart
        <5>2. chain[p[2]] \in Txs
          BY <4>1, <5>1
        <5> QED BY <5>2 DEF Txs
      <4>4. cursor[p[1]] \in Int /\ cursor[p[1]] <= cursor'[p[1]] /\ cursor'[p[1]] \in Int
        BY <1>15, <4>2
      <4> QED BY <4>1, <4>3, <4>4, ActivityAssumption DEF Times
    <3>2. CASE p \in {u} \X poll.got
      <4>1. p[1] = u /\ p[2] \in poll.got
        BY <3>2
      <4>2. poll.latest # 0
        BY <1>8, <4>1
      <4> QED BY <1>3, <1>4, <1>11, <1>12, <4>1, <4>2
    <3> QED BY <1>2, <3>1, <3>2
  <2> QED BY <1>14, <2>1 DEF HandedPassed
<1>17. CursorStamped'
  <2>1. ASSUME NEW w \in Wallets, cursor'[w] # 0
        PROVE  cursor'[w] \in stamps'[w] /\ \E n \in DOMAIN chain : chain[n].at = cursor'[w]
    <3>1. CASE w # u
      BY <1>0, <1>11, <2>1, <3>1 DEF SyncInv, CursorStamped
    <3>2. CASE w = u /\ poll.latest = 0
      BY <1>0, <1>11, <1>13, <2>1, <3>2 DEF SyncInv, CursorStamped
    <3>3. CASE w = u /\ poll.latest # 0
      <4>1. PICK n \in poll.got : chain[n].at = poll.latest
        BY <1>9, <3>3
      <4> QED BY <1>3, <1>4, <1>11, <1>12, <3>3, <4>1
    <3> QED BY <3>1, <3>2, <3>3
  <2> QED BY <1>14, <2>1 DEF CursorStamped
<1>18. CursorCovers'
  <2>1. \A w, n : Ingested(w, n) => Ingested(w, n)'
    BY DEF Ingested, RowsGrow
  <2>2. ASSUME NEW w \in Wallets, NEW n \in Mine(w), chain[n].at <= cursor'[w]
        PROVE  \/ Ingested(w, n)
               \/ <<w, n>> \notin handed' /\ (<<w, n>> \in skipped' \/ chain[n].at \in stamps'[w])
    <3>1. CASE w # u
      <4>1. \/ Ingested(w, n)
            \/ <<w, n>> \notin handed /\ (<<w, n>> \in skipped \/ chain[n].at \in stamps[w])
        BY <1>0, <1>11, <2>2, <3>1 DEF SyncInv, CursorCovers
      <4>2. <<w, n>> \in handed' => <<w, n>> \in handed
        BY <1>2, <3>1
      <4> QED BY <1>2, <1>11, <3>1, <4>1, <4>2
    <3>2. CASE w = u /\ n \notin F
      <4>1. chain[n].at <= cursor[w]
        BY <1>7, <2>2, <3>2
      <4>2. \/ Ingested(w, n)
            \/ <<w, n>> \notin handed /\ (<<w, n>> \in skipped \/ chain[n].at \in stamps[w])
        BY <1>0, <2>2, <4>1 DEF SyncInv, CursorCovers
      <4>3. <<w, n>> \in handed' => <<w, n>> \in handed
        BY <1>2, <1>3, <3>2
      <4> QED BY <1>2, <1>11, <3>2, <4>2, <4>3
    <3>3. CASE w = u /\ n \in poll.got
      BY <1>5, <3>3
    <3>4. CASE w = u /\ n \in F /\ n \notin poll.got
      <4>1. chain[n].at > cursor[u] /\ n \in DOMAIN chain /\ chain[n].at \in Times
        BY <1>4, <3>4
      <4>2. <<w, n>> \notin handed
        <5>1. ASSUME <<w, n>> \in handed PROVE FALSE
          <6>1. chain[<<w, n>>[2]].at <= cursor[<<w, n>>[1]]
            BY <1>0, <5>1, Zenon DEF SyncInv, HandedPassed
          <6>2. chain[n].at <= cursor[u]
            BY <3>4, <6>1
          <6> QED BY <1>10, <4>1, <6>2, ActivityAssumption DEF Times
        <5> QED BY <5>1
      <4>3. <<w, n>> \notin handed'
        BY <1>2, <3>4, <4>2
      <4>4. CASE n \in BeyondCap
        BY <1>2, <3>4, <4>3, <4>4
      <4>5. CASE \A m \in poll.got : m < n
        <5>1. poll.latest # 0
          BY <1>10, <1>11, <1>13, <2>2, <3>4, <4>1, ActivityAssumption DEF Times
        <5>2. PICK m \in poll.got : chain[m].at = poll.latest
          BY <1>9, <5>1
        <5>3. m \in DOMAIN chain /\ m \in Nat /\ n \in Nat /\ m < n
          BY <1>3, <1>4, <3>4, <4>5, <5>2
        <5>4. chain[m].at <= chain[n].at
          BY <1>0, <4>1, <5>3, OrderedChain
        <5>5. chain[n].at = c
          BY <1>1, <1>11, <1>12, <2>2, <3>4, <4>1, <5>1, <5>2, <5>4, ActivityAssumption DEF Times
        <5> QED BY <1>11, <3>4, <4>3, <5>5
      <4> QED BY <1>6, <3>4, <4>4, <4>5
    <3> QED BY <3>1, <3>2, <3>3, <3>4
  <2>3. ASSUME NEW w \in Wallets, NEW n \in Mine(w)', chain'[n].at <= cursor'[w]
        PROVE  \/ Ingested(w, n)'
               \/ <<w, n>> \notin handed' /\ (<<w, n>> \in skipped' \/ chain'[n].at \in stamps'[w])
    <3>1. n \in Mine(w) /\ chain[n].at <= cursor'[w] /\ chain'[n] = chain[n]
      BY <1>14, <2>3
    <3> QED BY <2>1, <2>2, <3>1
  <2> QED BY <2>3, Zenon DEF CursorCovers
<1> QED BY <1>16, <1>17, <1>18 DEF SyncInv

\* A newer element does not move the places of the others.
LEMMA RankGrown ==
  ASSUME NEW S \in SUBSET Nat, IsFiniteSet(S), NEW k \in Nat, \A n \in S : n < k,
         NEW T, T = S \/ T = S \union {k}
  PROVE  /\ Cardinality(S) <= Cardinality(T)
         /\ \A p \in Nat : p <= Cardinality(S) =>
              {n \in S : Rank(S, n) <= p} = {n \in T : Rank(T, n) <= p}
<1>1. CASE T = S
  <2>1. Cardinality(S) \in Nat
    BY FS_CardinalityType
  <2> QED BY <1>1, <2>1
<1>2. CASE T = S \union {k} /\ T # S
  <2>1. k \notin S
    BY <1>2
  <2>2. IsFiniteSet(T) /\ Cardinality(T) = Cardinality(S) + 1 /\ Cardinality(S) \in Nat
    BY <1>2, <2>1, FS_AddElement, FS_CardinalityType
  <2>3. T \in SUBSET Nat
    BY <1>2
  <2>4. Rank(T, k) = Cardinality(S) + 1
    <3>1. \A m \in T : m <= k
      BY <1>2
    <3> QED BY <2>2, <2>3, <3>1, RankBounds
  <2>5. ASSUME NEW n \in S PROVE Rank(T, n) = Rank(S, n)
    <3>1. n < k /\ n \in Nat
      OBVIOUS
    <3>2. {m \in T : m <= n} = {m \in S : m <= n}
      BY <1>2, <3>1
    <3> QED BY <3>2 DEF Rank
  <2>6. ASSUME NEW p \in Nat, p <= Cardinality(S)
        PROVE  {n \in S : Rank(S, n) <= p} = {n \in T : Rank(T, n) <= p}
    <3>1. ~(Rank(T, k) <= p)
      BY <2>2, <2>4, <2>6
    <3>2. \A n \in T : Rank(T, n) <= p <=> n \in S /\ Rank(S, n) <= p
      BY <1>2, <2>1, <2>5, <3>1
    <3> QED BY <1>2, <3>2
  <2> QED BY <2>2, <2>6
<1> QED BY <1>1, <1>2

\* A new block brings what is newer than all that a poll has seen.
LEMMA BlockCovers ==
  ASSUME CoverInv, Transact
  PROVE  PagesInv' /\ IngestInv' /\ SyncInv'
<1> DEFINE k == Len(chain) + 1
<1>0. TypeInv /\ PagesInv /\ IngestInv /\ SyncInv /\ ChainPart
  BY TypeInvHas DEF CoverInv
<1>1. UNCHANGED <<provider, cursor, rows, poll, ing, faults, history, collided>>
  BY DEF Transact
<1>2. /\ ChainPart' /\ Len(chain') = k
      /\ \A n \in DOMAIN chain : chain'[n] = chain[n] /\ chain'[n].at <= chain'[k].at
  BY <1>0, BlockAdded
<1>3. /\ DOMAIN chain = 1..Len(chain) /\ DOMAIN chain' = 1..k /\ k \in Nat
      /\ chain' \in Seq(Txs)
  BY <1>0, <1>2 DEF ChainPart
<1>4. \A n \in DOMAIN chain' : chain'[n].at \in Times
  <2>1. \A n \in DOMAIN chain' : chain'[n] \in Txs
    BY <1>3
  <2> QED BY <2>1 DEF Txs
<1>5. \A n \in DOMAIN chain' : n \in DOMAIN chain \/ n = k
  BY <1>3
<1>6. \A n \in DOMAIN chain : n < k /\ n # k /\ n \in Nat /\ n \in DOMAIN chain'
  BY <1>3
<1> HIDE DEF k
<1>7. ASSUME NEW w
      PROVE  /\ \A n \in DOMAIN chain : /\ n \in Mine(w)' <=> n \in Mine(w)
                                        /\ n \in Fresh(w)' <=> n \in Fresh(w)
             /\ Fresh(w) \subseteq DOMAIN chain /\ Mine(w) \subseteq DOMAIN chain
             /\ Mine(w)' \subseteq DOMAIN chain' /\ Fresh(w)' \subseteq Mine(w)'
  BY <1>1, <1>2, <1>6 DEF Fresh, After, Mine
<1>8. ASSUME NEW w PROVE Fresh(w)' = Fresh(w) \/ Fresh(w)' = Fresh(w) \union {k}
  BY <1>5, <1>7
<1> DEFINE u == poll.wallet
<1>9. Polling => u \in Wallets
  BY <1>0, FieldsOfPoll DEF Polling
<1>10. Polling' = Polling /\ poll' = poll
  BY <1>1 DEF Polling
<1>11. GotFresh'
  <2>1. Polling => /\ poll.got \subseteq Fresh(u)
                   /\ \A n \in poll.got : chain[n].at <= poll.latest
                   /\ IF poll.got = {} THEN poll.latest = 0
                      ELSE \E n \in poll.got : chain[n].at = poll.latest
    BY <1>0 DEF PagesInv, GotFresh
  <2> DEFINE F1 == Fresh(u)
  <2>2. Fresh(poll.wallet)' = {n \in DOMAIN chain' : u \in chain'[n].parties
                                                       /\ chain'[n].at > cursor[u]}
    BY <1>1 DEF Fresh, After, Mine
  <2>3. F1 = {n \in DOMAIN chain : u \in chain[n].parties /\ chain[n].at > cursor[u]}
    BY DEF Fresh, After, Mine
  <2>4. F1 \subseteq Fresh(poll.wallet)' /\ F1 \subseteq DOMAIN chain
    BY <1>2, <1>6, <2>2, <2>3
  <2> HIDE DEF F1
  <2>5. Polling => /\ poll.got \subseteq Fresh(poll.wallet)'
                   /\ \A n \in poll.got : chain'[n].at <= poll.latest
                   /\ IF poll.got = {} THEN poll.latest = 0
                      ELSE \E n \in poll.got : chain'[n].at = poll.latest
    BY <1>2, <2>1, <2>4 DEF F1
  <2> QED BY <1>10, <2>5 DEF GotFresh
<1>12. NothingPassed'
  <2>1. Polling => \A n \in Fresh(u) : n \in poll.got \/ (\A m \in poll.got : m < n)
                                       \/ OnLaterPage(n)
    BY <1>0 DEF PagesInv, NothingPassed
  <2>2. Fresh(poll.wallet)' = {n \in DOMAIN chain' : u \in chain'[n].parties
                                                       /\ chain'[n].at > cursor[u]}
    BY <1>1 DEF Fresh, After, Mine
  <2>3. ASSUME NEW n \in Fresh(poll.wallet)' PROVE n = k \/ n \in Fresh(u)
    BY <1>2, <1>5, <2>2, <2>3 DEF Fresh, After, Mine
  <2>4. Polling => poll.got \subseteq DOMAIN chain
    BY <1>0, <1>7 DEF PagesInv, GotFresh
  <2>5. Polling => \A m \in poll.got : m < k
    BY <1>6, <2>4
  <2>6. ASSUME NEW n \in Fresh(u), OnLaterPage(n) PROVE OnLaterPage(n)'
    <3>1. CASE poll.pc = "save"
      <4>1. n \in BeyondCap
        BY <2>6, <3>1 DEF OnLaterPage
      <4>2. n \in DOMAIN chain
        BY <4>1 DEF BeyondCap, Mine
      <4>3. n \in BeyondCap'
        BY <1>1, <1>2, <1>6, <4>1, <4>2 DEF BeyondCap, Mine
      <4> QED BY <1>10, <3>1, <4>3 DEF OnLaterPage
    <3>2. CASE poll.pc # "save"
      BY <1>1, <2>6, <3>2 DEF OnLaterPage
    <3> QED BY <3>1, <3>2
  <2>7. Polling => \A n \in Fresh(poll.wallet)' : n \in poll.got \/ (\A m \in poll.got : m < n)
                                                  \/ OnLaterPage(n)'
    BY <2>1, <2>3, <2>5, <2>6
  <2> QED BY <1>10, <2>7 DEF NothingPassed
<1>13. IndexCounts'
  <2> SUFFICES ASSUME provider = "mock",
                      poll.pc = "fetch" \/ (poll.pc = "ingest" /\ poll.page # 0)
               PROVE  LET T == Fresh(poll.wallet)'
                      IN  /\ poll.page <= Cardinality(T)
                          /\ poll.got = {n \in T : Rank(T, n) <= poll.page}
    BY <1>1 DEF IndexCounts, Rank
  <2> DEFINE S == Fresh(u)
             T == Fresh(poll.wallet)'
  <2>1. poll.page <= Cardinality(S) /\ poll.got = {n \in S : Rank(S, n) <= poll.page}
    BY <1>0 DEF PagesInv, IndexCounts
  <2>2. T = {n \in DOMAIN chain' : u \in chain'[n].parties /\ chain'[n].at > cursor[u]}
    BY <1>1 DEF Fresh, After, Mine
  <2>3. S = {n \in DOMAIN chain : u \in chain[n].parties /\ chain[n].at > cursor[u]}
    BY DEF Fresh, After, Mine
  <2>4. T = S \/ T = S \union {k}
    BY <1>2, <1>5, <1>6, <2>2, <2>3
  <2>5. S \in SUBSET Nat /\ IsFiniteSet(S) /\ S \subseteq DOMAIN chain
    BY <1>0, <1>7, AfterFacts DEF Fresh
  <2>6. poll.page \in Nat /\ k \in Nat /\ \A n \in S : n < k
    BY <1>0, <1>3, <1>6, <2>5, FieldsOfPoll
  <2> HIDE DEF S, T
  <2>7. /\ Cardinality(S) <= Cardinality(T)
        /\ {n \in S : Rank(S, n) <= poll.page} = {n \in T : Rank(T, n) <= poll.page}
    BY <2>1, <2>4, <2>5, <2>6, RankGrown
  <2>8. Cardinality(S) \in Nat /\ Cardinality(T) \in Nat
    BY <2>4, <2>5, FS_CardinalityType, FS_AddElement
  <2> QED BY <2>1, <2>6, <2>7, <2>8 DEF T
<1>14. CleanStart'
  BY <1>0, <1>1 DEF PagesInv, CleanStart
<1>15. IngestInv'
  BY <1>0, <1>1, OthersIngest DEF rows, RowsGrow
<1>16. HandedPassed'
  BY <1>0, <1>1, <1>2, <1>6 DEF SyncInv, HandedPassed, history
<1>17. CursorStamped'
  BY <1>0, <1>1, <1>2, <1>6 DEF SyncInv, CursorStamped, history
<1>18. CursorCovers'
  <2>1. \A w, n : Ingested(w, n)' <=> Ingested(w, n)
    BY <1>1 DEF Ingested, rows
  <2>2. ASSUME NEW w \in Wallets, NEW n \in Mine(w)', chain'[n].at <= cursor'[w]
        PROVE  \/ Ingested(w, n)'
               \/ <<w, n>> \notin handed' /\ (<<w, n>> \in skipped' \/ chain'[n].at \in stamps'[w])
    <3>1. CASE n \in DOMAIN chain
      <4>1. n \in Mine(w) /\ chain[n].at <= cursor[w] /\ chain'[n] = chain[n]
        BY <1>1, <1>2, <1>7, <2>2, <3>1
      <4>2. \/ Ingested(w, n)
            \/ <<w, n>> \notin handed /\ (<<w, n>> \in skipped \/ chain[n].at \in stamps[w])
        BY <1>0, <4>1 DEF SyncInv, CursorCovers
      <4> QED BY <1>1, <2>1, <4>1, <4>2 DEF history
    <3>2. CASE n = k
      \* As late as the cursor, which is at a transaction already there.
      <4>1. k \in DOMAIN chain' /\ chain'[k].at \in Times /\ chain'[k].at <= cursor[w]
        BY <1>1, <1>4, <1>7, <2>2, <3>2
      <4>2. cursor[w] \in 0..MaxTime
        BY <1>0, TypeInvHas DEF SyncPart
      <4>3. cursor[w] # 0
        BY <4>1, <4>2, ActivityAssumption DEF Times
      <4>4. PICK m \in DOMAIN chain : chain[m].at = cursor[w]
        BY <1>0, <4>3 DEF SyncInv, CursorStamped
      <4>5. cursor[w] <= chain'[k].at
        BY <1>2, <4>4
      <4>6. chain'[k].at = cursor[w]
        BY <4>1, <4>2, <4>5, ActivityAssumption DEF Times
      <4>7. cursor[w] \in stamps[w]
        BY <1>0, <4>3 DEF SyncInv, CursorStamped
      <4>8. <<w, n>> \notin handed
        <5>1. ASSUME <<w, n>> \in handed PROVE FALSE
          <6>1. <<w, n>>[2] \in DOMAIN chain
            BY <1>0, <5>1, Zenon DEF SyncInv, HandedPassed
          <6> QED BY <1>6, <3>2, <6>1
        <5> QED BY <5>1
      <4> QED BY <1>1, <3>2, <4>6, <4>7, <4>8 DEF history
    <3> QED BY <1>5, <1>7, <2>2, <3>1, <3>2
  <2> QED BY <2>2, Zenon DEF CursorCovers
<1> QED
  BY <1>11, <1>12, <1>13, <1>14, <1>15, <1>16, <1>17, <1>18 DEF PagesInv, SyncInv

LEMMA SameProvider == [Next]_vars => provider' = provider
<1> SUFFICES ASSUME [Next]_vars PROVE provider' = provider
  OBVIOUS
<1>1. CASE JobStep
  <2>1. CASE StartCycle \/ FetchPage \/ AfterPage \/ Truncate
    BY <2>1 DEF StartCycle, FetchPage, AfterPage, Truncate
  <2>2. CASE SaveCursor \/ RecordFailure \/ EndCycle \/ \E w \in Wallets : BeginWallet(w)
    BY <2>2 DEF SaveCursor, RecordFailure, EndCycle, BeginWallet
  <2>3. CASE IngestStep("worker")
    BY <2>3 DEF IngestStep, WriteTrade, LookupEdge, CreateEdge
  <2> QED BY <1>1, <2>1, <2>2, <2>3 DEF JobStep
<1>2. CASE IngestStep("seed")
  BY <1>2 DEF IngestStep, WriteTrade, LookupEdge, CreateEdge
<1>3. CASE FailPoll \/ FailRecordFailure \/ Crash \/ FailSeed
  BY <1>3 DEF FailPoll, FailRecordFailure, Crash, FailSeed
<1>4. CASE Transact \/ \E w \in Wallets : StartSeed(w)
  BY <1>4 DEF Transact, StartSeed
<1>5. CASE UNCHANGED vars
  BY <1>5 DEF vars
<1> QED BY <1>1, <1>2, <1>3, <1>4, <1>5 DEF Next

LEMMA CoverStep == CoverInv /\ [Next]_vars => CoverInv'
<1> SUFFICES ASSUME CoverInv, [Next]_vars PROVE PagesInv' /\ IngestInv' /\ SyncInv'
  <2>1. CoverInv /\ [Next]_vars => TypeInv' /\ provider' # "bscscan"
    BY TypeStep, SameProvider DEF CoverInv
  <2> QED BY <2>1 DEF CoverInv
<1>0. TypeInv /\ JobsPart /\ RowsPart /\ PagesInv /\ IngestInv /\ SyncInv
  BY TypeInvHas DEF CoverInv
<1>1. CASE StartCycle
  <2>1. UNCHANGED <<provider, chain, cursor, rows, ing, history>> /\ poll.pc = "idle"
    BY <1>1 DEF StartCycle
  <2>2. poll'.pc = "next" /\ CleanStart'
    BY <1>1, StartedCycle DEF CleanStart, PollOf
  <2>3. ing'["worker"].pc = "idle"
    BY <1>0, <2>1 DEF IngestInv, WorkerInStep
  <2> QED BY <1>0, <2>1, <2>2, <2>3, NotPolling, RowsOnly DEF rows, RowsGrow
<1>2. CASE FetchPage
  <2>1. PagesInv' /\ IngestInv'
    BY <1>2, HandedCovers, EmptyCovers
  <2>2. UNCHANGED <<chain, cursor, rows, history>>
    BY <1>2 DEF FetchPage
  <2> QED BY <1>0, <2>1, <2>2, RowsOnly DEF rows, RowsGrow
<1>3. CASE AfterPage \/ Truncate
  <2>1. UNCHANGED <<chain, cursor, rows, history>>
    BY <1>3 DEF AfterPage, Truncate
  <2> QED BY <1>0, <1>3, <2>1, TurnCovers, RowsOnly DEF rows, RowsGrow
<1>4. CASE SaveCursor
  <2>1. UNCHANGED <<provider, chain, rows, ing>> /\ poll.pc = "save" /\ StoreCursor
    BY <1>4 DEF SaveCursor
  <2>2. poll'.pc = "next" /\ CleanStart'
    BY <1>0, <1>4, NextWalletPoll DEF SaveCursor, CleanStart, PollOf
  <2>3. ing'["worker"].pc = "idle"
    BY <1>0, <2>1 DEF IngestInv, WorkerInStep
  <2>4. SyncInv'
    BY <2>1, StoreCovers DEF rows, RowsGrow
  <2> QED BY <2>2, <2>3, <2>4, NotPolling
<1>5. CASE RecordFailure \/ EndCycle \/ FailRecordFailure
  <2>1. /\ UNCHANGED <<provider, chain, cursor, rows, ing, history>>
        /\ poll.pc \in {"failed", "next"}
    BY <1>5 DEF RecordFailure, EndCycle, FailRecordFailure
  <2>2. poll' = NextWallet \/ poll' = PollIdle
    BY <1>5 DEF RecordFailure, EndCycle, FailRecordFailure
  <2>3. poll'.pc \in {"next", "idle"} /\ CleanStart'
    BY <1>0, <2>2, NextWalletPoll, IdlePoll DEF CleanStart, PollOf
  <2>4. ing'["worker"].pc = "idle"
    BY <1>0, <2>1 DEF IngestInv, WorkerInStep
  <2> QED BY <1>0, <2>1, <2>3, <2>4, NotPolling, RowsOnly DEF rows, RowsGrow
<1>6. ASSUME NEW w \in Wallets, BeginWallet(w) PROVE PagesInv' /\ IngestInv' /\ SyncInv'
  <2>1. UNCHANGED <<chain, cursor, rows, history>>
    BY <1>6 DEF BeginWallet
  <2> QED BY <1>0, <1>6, <2>1, BegunCovers, RowsOnly DEF rows, RowsGrow
<1>7. CASE FailPoll
  <2>1. /\ UNCHANGED <<provider, chain>> /\ poll.pc \in {"fetch", "ingest", "save"}
        /\ PerhapsWritten("worker") /\ "worker" \in Callers
        /\ poll' = [poll EXCEPT !.pc = "failed"] /\ ing' = [ing EXCEPT !["worker"] = IngIdle]
        /\ UNCHANGED <<cursor, history>> \/ (poll.pc = "save" /\ StoreCursor)
    BY <1>7 DEF FailPoll, Callers
  <2>2. poll.wallet \in Wallets
    BY <1>0, <2>1, FieldsOfPoll
  <2>3. poll'.pc = "failed" /\ CleanStart'
    BY <1>0, <2>1, <2>2, PcOfPoll DEF CleanStart, PollOf
  <2>4. ing'["worker"].pc = "idle" /\ RowsGrow
    BY <1>0, <2>1, SetIdle, IdleIsGood, PerhapsTyped DEF JobBecomes
  <2>5. SyncInv'
    BY <1>0, <2>1, <2>4, RowsOnly, StoreCovers
  <2> QED BY <2>3, <2>4, <2>5, NotPolling
<1>8. CASE Crash
  <2>1. /\ UNCHANGED <<provider, chain, cursor, history>>
        /\ PerhapsWritten("worker") /\ "worker" \in Callers
        /\ poll' = PollIdle /\ ing' = [ing EXCEPT !["worker"] = IngIdle]
    BY <1>8 DEF Crash, Callers
  <2>2. poll'.pc = "idle" /\ CleanStart'
    BY <2>1, IdlePoll DEF CleanStart, PollOf
  <2>3. ing'["worker"].pc = "idle" /\ RowsGrow
    BY <1>0, <2>1, SetIdle, IdleIsGood, PerhapsTyped DEF JobBecomes
  <2> QED BY <1>0, <2>1, <2>2, <2>3, NotPolling, RowsOnly
<1>9. CASE FailSeed
  <2>1. /\ UNCHANGED <<provider, chain, cursor, poll, history>>
        /\ PerhapsWritten("seed") /\ "seed" \in Callers
        /\ ing' = [ing EXCEPT !["seed"] = IngIdle]
    BY <1>9 DEF FailSeed, Callers
  <2>2. ing'["worker"] = ing["worker"] /\ RowsGrow
    BY <1>0, <2>1, SetIdle, PerhapsTyped DEF JobBecomes, Callers
  <2> QED BY <1>0, <2>1, <2>2, OthersIngest, SamePages, RowsOnly
<1>10. ASSUME NEW w \in Wallets, StartSeed(w) PROVE PagesInv' /\ IngestInv' /\ SyncInv'
  <2>1. UNCHANGED <<provider, chain, cursor, rows, poll, history>>
    BY <1>10 DEF StartSeed
  <2>2. JobBecomes("seed", Ingesting(w, Ascending(Mine(w))))
    BY <1>0, <1>10, SeedStream, SetIngesting DEF StartSeed, Callers
  <2>3. ing'["worker"] = ing["worker"]
    BY <2>2 DEF JobBecomes, Callers
  <2> QED BY <1>0, <2>1, <2>3, OthersIngest, SamePages, RowsOnly DEF rows, RowsGrow
<1>11. CASE UNCHANGED vars
  <2>1. UNCHANGED <<provider, chain, cursor, rows, poll, ing, history>>
    BY <1>11 DEF vars
  <2> QED BY <1>0, <2>1, OthersIngest, SamePages, RowsOnly DEF rows, RowsGrow
<1> QED
  BY <1>1, <1>2, <1>3, <1>4, <1>5, <1>6, <1>7, <1>8, <1>9, <1>10, <1>11, IngestCovers,
     BlockCovers
  DEF Next, JobStep, Callers

\* Where no BscScan is configured the cursor never passes a transaction that was not ingested,
\* but for the two kinds that were never handed over (pollWalletIncremental, ingest.ts).
THEOREM CursorIsHonest ==
  ASSUME "bscscan" \notin Providers
  PROVE  Spec => []CursorCovers
<1>1. Init => CoverInv
  <2> SUFFICES ASSUME Init PROVE CoverInv
    OBVIOUS
  <2>1. TypeInv /\ provider # "bscscan"
    BY TypeInit DEF Init
  <2>2. poll.pc = "idle" /\ ing["worker"].pc = "idle"
    BY DEF Init, PollIdle, IngIdle, Callers
  <2>3. PagesInv
    BY <2>2 DEF PagesInv, CleanStart, GotFresh, NothingPassed, IndexCounts, Polling
  <2>4. IngestInv
    BY <2>2 DEF IngestInv, WorkerInStep, GotIngested, Polling
  <2>5. SyncInv
    BY DEF Init, SyncInv, HandedPassed, CursorStamped, CursorCovers, Mine
  <2> QED BY <2>1, <2>3, <2>4, <2>5 DEF CoverInv
<1>2. CoverInv => CursorCovers
  BY DEF CoverInv, SyncInv
<1> QED BY <1>1, <1>2, CoverStep, PTL DEF Spec
=============================================================================
