------------------------------ MODULE IngestProofs ------------------------------
(***************************************************************************)
(* What holds of two of the writers that bring the outside world in.       *)
(*                                                                         *)
(* WalletDiscovery, for any chains, tokens, imports and number of faults:  *)
(* TypeCorrect, and that in any interleaving of discovery, imports and the *)
(* backfill what is made up is made up once, for a wallet that discovery   *)
(* created, and is not newer than imported figures unless the two crossed, *)
(* that a verdict on a candidate stands, and that only what rose is        *)
(* backfilled (OnlyAdds).  A pass reads, awaits and writes on what it      *)
(* read.  So the invariant says of a pass in mid-flight what it still      *)
(* relies on: whose figures are due, and that what the other writer did    *)
(* meanwhile is known as crossed.                                          *)
(*                                                                         *)
(* SocialIngest, for any sources, posts, settings, faults and edits:       *)
(* SocialTypeCorrect, and that no post is lost between two syncs without a *)
(* known cause, nor a wave of copies in clean scores                       *)
(* (MentionsAreAccounted).  The invariant follows a post through the turn  *)
(* of its source, and says of copies what survives the deletion of any     *)
(* source: every set of mentions that is a wave of its own shows.          *)
(***************************************************************************)
EXTENDS WalletDiscovery, SocialIngest, FiniteSetTheorems, TLAPS
-----------------------------------------------------------------------------
(* Types.                                                                  *)

Addresses ==
    {"none"} \cup discoveryWorld.imports \cup discoveryWorld.active
      \cup (UNION {discoveryWorld.chains[k].offered : k \in DOMAIN discoveryWorld.chains})
      \cup (UNION {discoveryWorld.tokens[t].traders : t \in DOMAIN discoveryWorld.tokens})

Row == [watched : BOOLEAN, discovered : BOOLEAN]
Status == {"pending", "promoted", "rejected"}
Figure(A) == [wallet : A, source : {"provider", "csv"}, at : Nat]
Discovering(A) == [at : {"idle", "chain", "find", "create", "stats"}, chain : Nat,
                   left : SUBSET A, wallet : A, now : Nat]
Importing(A) == [at : {"idle", "wallet", "stats"}, wallet : A, now : Nat]
Backfilling(A, T) == [at : {"idle", "token", "trader"}, tokens : SUBSET T, traders : SUBSET A,
                      now : Nat]
Outside(A) == [imports : SUBSET A, active : SUBSET A]

WalletsTyped ==
    /\ walletRows \in [DOMAIN walletRows -> Row] /\ DOMAIN walletRows \subseteq Addresses
    /\ figures \subseteq Figure(Addresses)
    /\ discovery \in Discovering(Addresses) /\ import \in Importing(Addresses)
    /\ strays \subseteq Addresses /\ crossed \subseteq Addresses

CandidatesTyped ==
    /\ topCandidates \in [DOMAIN topCandidates -> Status]
    /\ DOMAIN topCandidates \subseteq Addresses
    /\ verdicts \in [DOMAIN verdicts -> {"promoted", "rejected"}]
    /\ backfill \in Backfilling(Addresses, DOMAIN discoveryWorld.tokens)

WorldTyped ==
    /\ discoveryWorld \in DiscoveryWorlds
    /\ discoveryTime \in 0..LastDiscoveryTime /\ discoveryFaults \in 0..MaxDiscoveryFaults
    /\ outside \in Outside(Addresses)

TypeInv == WorldTyped /\ WalletsTyped /\ CandidatesTyped

-----------------------------------------------------------------------------
(* The inductive invariant.                                                *)

\* No time is ahead of the clock.
InThePast ==
    /\ discovery.now <= discoveryTime /\ import.now <= discoveryTime
    /\ \A f \in figures : f.at <= discoveryTime

\* Figures are those of a wallet that is there, and while discovery or an import has a wallet
\* at hand, what the other wrote of it since is known as crossed.
WritersCross ==
    /\ \A f \in figures : f.wallet \in DOMAIN walletRows
    /\ import.at = "stats" => import.wallet \in DOMAIN walletRows
    /\ discovery.at \in {"create", "stats"} =>
           \A f \in figures :
               f.source = "csv" /\ f.wallet = discovery.wallet => f.wallet \in crossed
    /\ import.at # "idle" =>
           \A f \in figures : f.source = "provider" /\ f.wallet = import.wallet =>
               f.at <= import.now \/ f.wallet \in crossed

\* A wallet whose figures are to be made up was created by discovery and has none yet.
FiguresDue ==
    discovery.at = "stats" =>
        /\ discovery.wallet \in DOMAIN walletRows /\ walletRows[discovery.wallet].discovered
        /\ \A f \in figures : f.wallet = discovery.wallet => f.source = "csv"

WalletsInv == InThePast /\ WritersCross /\ FiguresDue /\ ImportCounts /\ FiguresOfDiscovered

VerdictsInv == DOMAIN verdicts \subseteq DOMAIN topCandidates /\ VerdictsKept

\* A trader of a token that rose: what OnlyRisers says of a candidate.
Riser(w) ==
    \E t \in DOMAIN discoveryWorld.tokens :
        /\ w \in discoveryWorld.tokens[t].traders
        /\ \E was, is \in Stored(t) :
               /\ was.ts + BackfillLookback <= discoveryTime
               /\ was.mcap > 0 /\ is.mcap >= McapExpansionMin * was.mcap

RisersInv ==
    /\ backfill.now <= discoveryTime
    /\ \A w \in DOMAIN topCandidates : Riser(w)
    /\ backfill.at = "trader" => \A w \in backfill.traders : Riser(w)

-----------------------------------------------------------------------------
(* Rows and records.                                                       *)

\* A pass that has no wallet at hand.
Searching(d) == d.at \in {"idle", "chain", "find"}

\* What the steps make of the passes.
LEMMA DiscoveryClears ==
  ASSUME NEW A, "none" \in A, NEW k \in Nat
  PROVE  \A e : \/ e = NoDiscovery
               \/ e = [NoDiscovery EXCEPT !.at = "chain"]
               \/ e = [NoDiscovery EXCEPT !.at = "chain", !.chain = k]
               => e \in Discovering(A) /\ Searching(e) /\ e.now = 0
<1>1. NoDiscovery \in Discovering(A) /\ Searching(NoDiscovery) /\ NoDiscovery.now = 0
  BY DEF Discovering, NoDiscovery, Searching
<1>2. ASSUME NEW d \in Discovering(A), d.now = 0
      PROVE  \A e : \/ e = [d EXCEPT !.at = "chain"]
                   \/ e = [d EXCEPT !.at = "chain", !.chain = k]
                   => e \in Discovering(A) /\ Searching(e) /\ e.now = 0
  BY <1>2 DEF Discovering, Searching
<1> HIDE DEF NoDiscovery
<1> QED BY <1>1, <1>2, Zenon

LEMMA DiscoveryMakes ==
  ASSUME NEW A, NEW d \in Discovering(A)
  PROVE  \A e : e = [d EXCEPT !.at = "stats"] =>
             e \in Discovering(A) /\ e.at = "stats" /\ e.wallet = d.wallet /\ e.now = d.now
  BY DEF Discovering

-----------------------------------------------------------------------------
(* Wallets and figures.                                                    *)

walletVars == <<walletRows, figures, discovery, import, strays, crossed>>
candidateVars == <<topCandidates, verdicts, backfill>>

LEMMA SameAddresses == UNCHANGED discoveryWorld => Addresses' = Addresses
  BY DEF Addresses

LEMMA NoneIsAddress == "none" \in Addresses
  BY DEF Addresses

LEMMA SameWallets ==
  ASSUME WalletsTyped, WalletsInv, discoveryTime \in Nat, discoveryTime' \in Nat,
         discoveryTime' >= discoveryTime, UNCHANGED <<discoveryWorld, walletVars>>
  PROVE  WalletsTyped' /\ WalletsInv'
<1>1. WalletsTyped'
  BY SameAddresses DEF WalletsTyped, walletVars
<1>2. discovery.now \in Nat /\ import.now \in Nat /\ \A f \in figures : f.at \in Nat
  BY DEF WalletsTyped, Discovering, Importing, Figure
<1>3. InThePast'
  BY <1>2 DEF WalletsInv, InThePast, walletVars
<1>4. WritersCross' /\ FiguresDue' /\ ImportCounts' /\ FiguresOfDiscovered'
  BY DEF WalletsInv, WritersCross, FiguresDue, ImportCounts, FiguresOfDiscovered, walletVars
<1> QED BY <1>1, <1>3, <1>4 DEF WalletsInv

\* The pass goes on to one that has no wallet at hand; a wallet that lacked its figures is noted.
LEMMA SearchHolds ==
  ASSUME WalletsTyped, WalletsInv,
         discovery' \in Discovering(Addresses), Searching(discovery'),
         discovery'.now <= discoveryTime,
         strays' \in SUBSET Addresses, strays \subseteq strays',
         discovery.at = "stats" => discovery.wallet \in strays',
         UNCHANGED <<discoveryWorld, discoveryTime, walletRows, figures, import, crossed>>
  PROVE  WalletsTyped' /\ WalletsInv'
<1>1. WalletsTyped'
  BY SameAddresses DEF WalletsTyped
<1>2. InThePast'
  BY DEF WalletsInv, InThePast
<1>3. WritersCross' /\ FiguresDue' /\ ImportCounts'
  BY DEF WalletsInv, WritersCross, FiguresDue, ImportCounts, Searching
<1>4. FiguresOfDiscovered'
  BY DEF WalletsInv, FiguresOfDiscovered
<1> QED BY <1>1, <1>2, <1>3, <1>4 DEF WalletsInv

\* A wallet is added that discovery did not create.
LEMMA OtherWalletHolds ==
  ASSUME WalletsTyped, WalletsInv, NEW w \in Addresses, w \notin DOMAIN walletRows,
         NEW row \in Row, ~row.discovered, walletRows' = With(walletRows, w, row),
         UNCHANGED <<discoveryWorld, discoveryTime, figures, discovery, import, strays, crossed>>
  PROVE  /\ WalletsTyped' /\ WalletsInv' /\ w \in DOMAIN walletRows'
         /\ DOMAIN walletRows \subseteq DOMAIN walletRows'
<1>1. walletRows \in [DOMAIN walletRows -> Row]
  BY DEF WalletsTyped
<1>2. /\ walletRows' \in [DOMAIN walletRows' -> Row]
      /\ DOMAIN walletRows' = DOMAIN walletRows \cup {w} /\ walletRows'[w] = row
      /\ \A z \in DOMAIN walletRows : z # w /\ walletRows'[z] = walletRows[z]
  <2>1. /\ With(walletRows, w, row) \in [DOMAIN walletRows \cup {w} -> Row]
        /\ DOMAIN With(walletRows, w, row) = DOMAIN walletRows \cup {w}
        /\ With(walletRows, w, row)[w] = row
        /\ \A z \in DOMAIN walletRows : z # w => With(walletRows, w, row)[z] = walletRows[z]
    BY <1>1 DEF With
  <2> QED BY <2>1
<1>3. WalletsTyped'
  BY <1>2, SameAddresses DEF WalletsTyped
<1>4. InThePast' /\ WritersCross' /\ ImportCounts'
  BY <1>2 DEF WalletsInv, InThePast, WritersCross, ImportCounts
<1>5. FiguresDue'
  BY <1>2 DEF WalletsInv, FiguresDue
<1>6. FiguresOfDiscovered'
  BY <1>2 DEF WalletsInv, WritersCross, FiguresOfDiscovered
<1> QED BY <1>2, <1>3, <1>4, <1>5, <1>6 DEF WalletsInv

LEMMA FindWalletHolds ==
  ASSUME WalletsTyped, WalletsInv, discoveryTime \in Nat, NEW w \in discovery.left, FindWallet(w)
  PROVE  WalletsTyped' /\ WalletsInv'
<1>1. /\ discovery.at = "find" /\ discovery \in Discovering(Addresses) /\ w \in Addresses
      /\ UNCHANGED <<discoveryWorld, discoveryTime, walletRows, figures, import, strays, crossed>>
  BY DEF FindWallet, WalletsTyped, Discovering
<1>2. CASE w \in DOMAIN walletRows
  <2>1. discovery' = [discovery EXCEPT !.left = @ \ {w}]
    BY <1>2 DEF FindWallet
  <2>2. /\ discovery' \in Discovering(Addresses) /\ discovery'.at = discovery.at
        /\ discovery'.now = discovery.now
    BY <1>1, <2>1 DEF Discovering
  <2>3. Searching(discovery') /\ discovery'.now <= discoveryTime
    BY <1>1, <2>2 DEF Searching, WalletsInv, InThePast
  <2>4. strays \in SUBSET Addresses
    BY DEF WalletsTyped
  <2> QED BY <1>1, <2>2, <2>3, <2>4, SearchHolds
<1>3. CASE w \notin DOMAIN walletRows
  <2>1. discovery' = [discovery EXCEPT !.at = "create", !.left = @ \ {w}, !.wallet = w,
                                         !.now = discoveryTime]
    BY <1>3 DEF FindWallet
  <2>2. /\ discovery' \in Discovering(Addresses) /\ discovery'.at = "create"
        /\ discovery'.wallet = w /\ discovery'.now = discoveryTime
    BY <1>1, <2>1 DEF Discovering
  <2>3. WalletsTyped'
    BY <1>1, <2>2, SameAddresses DEF WalletsTyped
  <2>4. InThePast' /\ WritersCross' /\ FiguresDue' /\ ImportCounts'
    BY <1>1, <1>3, <2>2 DEF WalletsInv, InThePast, WritersCross, FiguresDue, ImportCounts
  <2>5. FiguresOfDiscovered'
    BY <1>1 DEF WalletsInv, FiguresOfDiscovered
  <2> QED BY <2>3, <2>4, <2>5 DEF WalletsInv
<1> QED BY <1>2, <1>3

LEMMA CreateWalletHolds ==
  ASSUME WalletsTyped, WalletsInv, discoveryTime \in Nat, CreateWallet
  PROVE  WalletsTyped' /\ WalletsInv'
<1> DEFINE w == discovery.wallet
<1>1. /\ discovery.at = "create" /\ discovery \in Discovering(Addresses)
      /\ UNCHANGED <<discoveryWorld, discoveryTime, figures, import, strays, crossed>>
      /\ w \in Addresses /\ discovery.chain \in Nat
  BY DEF CreateWallet, WalletsTyped, Discovering
<1>2. CASE w \in DOMAIN walletRows
  <2>1. /\ discovery' = [NoDiscovery EXCEPT !.at = "chain", !.chain = discovery.chain]
        /\ UNCHANGED walletRows
    BY <1>2 DEF CreateWallet, ChainLeft
  <2>3. discovery' \in Discovering(Addresses) /\ Searching(discovery') /\ discovery'.now = 0
    BY <1>1, <2>1, NoneIsAddress, DiscoveryClears, Zenon
  <2>4. strays \in SUBSET Addresses
    BY DEF WalletsTyped
  <2>5. 0 <= discoveryTime
    OBVIOUS
  <2> QED BY <1>1, <2>1, <2>3, <2>4, <2>5, SearchHolds
<1>3. CASE w \notin DOMAIN walletRows
  <2> DEFINE row == [watched |-> FALSE, discovered |-> TRUE]
  <2>1. walletRows' = With(walletRows, w, row)
        /\ discovery' = [discovery EXCEPT !.at = "stats"]
    BY <1>3 DEF CreateWallet
  <2>2. row \in Row /\ row.discovered
    BY DEF Row
  <2>3. /\ discovery' \in Discovering(Addresses) /\ discovery'.at = "stats"
        /\ discovery'.wallet = w /\ discovery'.now = discovery.now
    BY <1>1, <2>1, DiscoveryMakes, Zenon
  <2> HIDE DEF row
  <2>4. walletRows \in [DOMAIN walletRows -> Row]
    BY DEF WalletsTyped
  <2>5. /\ walletRows' \in [DOMAIN walletRows' -> Row]
        /\ DOMAIN walletRows' = DOMAIN walletRows \cup {w} /\ walletRows'[w] = row
        /\ \A z \in DOMAIN walletRows : z # w /\ walletRows'[z] = walletRows[z]
    <3>1. /\ With(walletRows, w, row) \in [DOMAIN walletRows \cup {w} -> Row]
          /\ DOMAIN With(walletRows, w, row) = DOMAIN walletRows \cup {w}
          /\ With(walletRows, w, row)[w] = row
          /\ \A z \in DOMAIN walletRows : z # w => With(walletRows, w, row)[z] = walletRows[z]
      BY <2>2, <2>4 DEF With
    <3> QED BY <1>3, <2>1, <3>1
  <2>6. WalletsTyped'
    BY <1>1, <2>3, <2>5, SameAddresses DEF WalletsTyped
  <2>7. InThePast' /\ ImportCounts'
    BY <1>1, <2>3 DEF WalletsInv, InThePast, ImportCounts
  <2>8. WritersCross'
    BY <1>1, <2>3, <2>5 DEF WalletsInv, WritersCross
  <2>9. FiguresDue'
    BY <1>1, <1>3, <2>2, <2>3, <2>5 DEF WalletsInv, WritersCross, FiguresDue
  <2>10. FiguresOfDiscovered'
    BY <1>1, <2>3, <2>5 DEF WalletsInv, WritersCross, FiguresOfDiscovered
  <2> QED BY <2>6, <2>7, <2>8, <2>9, <2>10 DEF WalletsInv
<1> QED BY <1>2, <1>3

\* The figures made up for a wallet: it had none that discovery made up, and an import of it
\* that is done or under way is known as crossed.
LEMMA CreateFiguresHolds ==
  ASSUME WalletsTyped, WalletsInv, discoveryTime \in Nat, CreateFigures
  PROVE  WalletsTyped' /\ WalletsInv'
<1> DEFINE w == discovery.wallet
           z == [wallet |-> w, source |-> "provider", at |-> discovery.now]
<1>1. /\ discovery.at = "stats" /\ discovery \in Discovering(Addresses)
      /\ figures' = figures \cup {z}
      /\ crossed' = IF import.wallet = w THEN crossed \cup {import.wallet} ELSE crossed
      /\ discovery' = [discovery EXCEPT !.at = "find", !.wallet = "none", !.now = 0]
      /\ UNCHANGED <<discoveryWorld, discoveryTime, walletRows, import, strays>>
      /\ w \in Addresses /\ discovery.now \in Nat
  BY DEF CreateFigures, WalletsTyped, Discovering
<1>2. \A n \in Nat : discovery' = [discovery EXCEPT !.at = "find", !.wallet = "none", !.now = n]
          => discovery' \in Discovering(Addresses) /\ discovery'.at = "find" /\ discovery'.now = n
  <2> SUFFICES ASSUME NEW n \in Nat,
                 discovery' = [discovery EXCEPT !.at = "find", !.wallet = "none", !.now = n]
               PROVE  discovery' \in Discovering(Addresses) /\ discovery'.at = "find"
                        /\ discovery'.now = n
    OBVIOUS
  <2> QED BY <1>1, NoneIsAddress DEF Discovering
<1>3. discovery' \in Discovering(Addresses) /\ discovery'.at = "find" /\ discovery'.now = 0
  BY <1>1, <1>2
<1>4. /\ z \in Figure(Addresses) /\ z.wallet = w /\ z.source = "provider"
      /\ z.at = discovery.now
  BY <1>1 DEF Figure
<1>5. \A f \in figures' : f \in figures \/ f = z
  BY <1>1
<1>6. crossed \subseteq crossed' /\ crossed' \subseteq Addresses
      /\ (import.wallet = w => w \in crossed')
  BY <1>1 DEF WalletsTyped
<1>7. /\ w \in DOMAIN walletRows /\ walletRows[w].discovered
      /\ \A f \in figures : f.wallet = w => f.source = "csv"
      /\ \A f \in figures : f.source = "csv" /\ f.wallet = w => w \in crossed
  BY <1>1 DEF WalletsInv, FiguresDue, WritersCross
<1> HIDE DEF w, z
<1>8. WalletsTyped'
  BY <1>1, <1>3, <1>4, <1>6, SameAddresses DEF WalletsTyped
<1>9. InThePast'
  BY <1>1, <1>3, <1>4, <1>5 DEF WalletsInv, InThePast
<1>10. WritersCross' /\ FiguresDue'
  BY <1>1, <1>3, <1>4, <1>5, <1>6, <1>7 DEF WalletsInv, WritersCross, FiguresDue
<1>11. ImportCounts'
  BY <1>1, <1>4, <1>5, <1>6, <1>7 DEF WalletsInv, ImportCounts
<1>12. FiguresOfDiscovered'
  <2>1. ASSUME NEW f \in figures', NEW g \in figures', f.source = "provider"
        PROVE  /\ walletRows[f.wallet].discovered
               /\ g.source = "provider" /\ g.wallet = f.wallet => f = g
    BY <1>4, <1>5, <1>7, <2>1 DEF WalletsInv, FiguresOfDiscovered
  <2>2. ASSUME NEW v \in DOMAIN walletRows, walletRows[v].discovered
        PROVE  (\E f \in figures' : f.wallet = v) \/ v \in strays
    BY <1>1, <1>4, <2>2 DEF WalletsInv, FiguresOfDiscovered, w
  <2> QED BY <1>1, <2>1, <2>2 DEF FiguresOfDiscovered
<1> QED BY <1>8, <1>9, <1>10, <1>11, <1>12 DEF WalletsInv

LEMMA BeginImportHolds ==
  ASSUME WalletsTyped, WalletsInv, discoveryTime \in Nat, NEW w \in Addresses, BeginImport(w)
  PROVE  WalletsTyped' /\ WalletsInv'
<1>1. /\ import' = [at |-> "wallet", wallet |-> w, now |-> discoveryTime]
      /\ UNCHANGED <<discoveryWorld, discoveryTime, walletRows, figures, discovery, strays,
                     crossed>>
  BY DEF BeginImport
<1>2. /\ import' \in Importing(Addresses) /\ import'.at = "wallet" /\ import'.now = discoveryTime
  BY <1>1 DEF Importing
<1>3. WalletsTyped'
  BY <1>1, <1>2, SameAddresses DEF WalletsTyped
<1>4. InThePast' /\ WritersCross' /\ FiguresDue'
  BY <1>1, <1>2 DEF WalletsInv, InThePast, WritersCross, FiguresDue
<1>5. ImportCounts' /\ FiguresOfDiscovered'
  BY <1>1 DEF WalletsInv, ImportCounts, FiguresOfDiscovered
<1> QED BY <1>3, <1>4, <1>5 DEF WalletsInv

LEMMA ImportThrowsHolds ==
  ASSUME WalletsTyped, WalletsInv, discoveryTime \in Nat, ImportThrows
  PROVE  WalletsTyped' /\ WalletsInv'
<1>1. /\ import' = NoImport
      /\ UNCHANGED <<discoveryWorld, discoveryTime, walletRows, figures, discovery, strays,
                     crossed>>
  BY DEF ImportThrows
<1>2. import' \in Importing(Addresses) /\ import'.at = "idle" /\ import'.now = 0
  BY <1>1, NoneIsAddress DEF Importing, NoImport
<1>3. WalletsTyped'
  BY <1>1, <1>2, SameAddresses DEF WalletsTyped
<1>4. InThePast' /\ WritersCross' /\ FiguresDue'
  BY <1>1, <1>2 DEF WalletsInv, InThePast, WritersCross, FiguresDue
<1>5. ImportCounts' /\ FiguresOfDiscovered'
  BY <1>1 DEF WalletsInv, ImportCounts, FiguresOfDiscovered
<1> QED BY <1>3, <1>4, <1>5 DEF WalletsInv

\* The step of an import from its wallet to its figures, the wallet being there.
LEMMA ImportMovesHolds ==
  ASSUME WalletsTyped, WalletsInv, import.at = "wallet", import.wallet \in DOMAIN walletRows,
         import' = [import EXCEPT !.at = "stats"],
         UNCHANGED <<discoveryWorld, discoveryTime, walletRows, figures, discovery, strays,
                     crossed>>
  PROVE  WalletsTyped' /\ WalletsInv'
<1>1. import' \in Importing(Addresses) /\ import'.at = "stats"
      /\ import'.wallet = import.wallet /\ import'.now = import.now
  BY DEF WalletsTyped, Importing
<1>2. WalletsTyped'
  BY <1>1, SameAddresses DEF WalletsTyped
<1>3. InThePast' /\ WritersCross' /\ FiguresDue'
  BY <1>1 DEF WalletsInv, InThePast, WritersCross, FiguresDue
<1>4. ImportCounts' /\ FiguresOfDiscovered'
  BY DEF WalletsInv, ImportCounts, FiguresOfDiscovered
<1> QED BY <1>2, <1>3, <1>4 DEF WalletsInv

LEMMA ImportWalletHolds ==
  ASSUME WalletsTyped, WalletsInv, ImportWallet
  PROVE  WalletsTyped' /\ WalletsInv'
<1> DEFINE w == import.wallet
           row == [watched |-> TRUE, discovered |-> FALSE]
<1>1. /\ import.at = "wallet" /\ import' = [import EXCEPT !.at = "stats"]
      /\ UNCHANGED <<discoveryWorld, discoveryTime, figures, discovery, strays, crossed>>
      /\ w \in Addresses
  BY DEF ImportWallet, WalletsTyped, Importing
<1>2. CASE w \in DOMAIN walletRows
  <2>1. UNCHANGED walletRows
    BY <1>2 DEF ImportWallet
  <2> QED BY <1>1, <1>2, <2>1, ImportMovesHolds
<1>3. CASE w \notin DOMAIN walletRows
  <2>1. walletRows' = With(walletRows, w, row)
    BY <1>3 DEF ImportWallet
  <2>2. row \in Row /\ ~row.discovered
    BY DEF Row
  <2> HIDE DEF row
  <2>3. walletRows \in [DOMAIN walletRows -> Row]
    BY DEF WalletsTyped
  <2>4. /\ walletRows' \in [DOMAIN walletRows' -> Row]
        /\ DOMAIN walletRows' = DOMAIN walletRows \cup {w} /\ walletRows'[w] = row
        /\ \A z \in DOMAIN walletRows : z # w /\ walletRows'[z] = walletRows[z]
    <3>1. /\ With(walletRows, w, row) \in [DOMAIN walletRows \cup {w} -> Row]
          /\ DOMAIN With(walletRows, w, row) = DOMAIN walletRows \cup {w}
          /\ With(walletRows, w, row)[w] = row
          /\ \A z \in DOMAIN walletRows : z # w => With(walletRows, w, row)[z] = walletRows[z]
      BY <2>2, <2>3 DEF With
    <3> QED BY <1>3, <2>1, <3>1
  <2>5. import' \in Importing(Addresses) /\ import'.at = "stats"
        /\ import'.wallet = w /\ import'.now = import.now
    BY <1>1 DEF WalletsTyped, Importing
  <2>6. WalletsTyped'
    BY <1>1, <2>4, <2>5, SameAddresses DEF WalletsTyped
  <2>7. InThePast' /\ ImportCounts'
    BY <1>1, <2>5 DEF WalletsInv, InThePast, ImportCounts
  <2>8. WritersCross'
    BY <1>1, <2>4, <2>5 DEF WalletsInv, WritersCross
  <2>9. FiguresDue'
    BY <1>1, <2>4 DEF WalletsInv, FiguresDue
  <2>10. FiguresOfDiscovered'
    BY <1>1, <2>2, <2>4 DEF WalletsInv, WritersCross, FiguresOfDiscovered
  <2> QED BY <2>6, <2>7, <2>8, <2>9, <2>10 DEF WalletsInv
<1> QED BY <1>2, <1>3

\* The figures of an import: no older than what was made up, or known as crossed.
LEMMA ImportFiguresHolds ==
  ASSUME WalletsTyped, WalletsInv, discoveryTime \in Nat, ImportFigures
  PROVE  WalletsTyped' /\ WalletsInv'
<1> DEFINE w == import.wallet
           c == [wallet |-> w, source |-> "csv", at |-> import.now]
<1>1. /\ import.at = "stats" /\ figures' = figures \cup {c} /\ import' = NoImport
      /\ crossed' = IF discovery.wallet = w THEN crossed \cup {w} ELSE crossed
      /\ UNCHANGED <<discoveryWorld, discoveryTime, walletRows, discovery, strays>>
      /\ w \in Addresses /\ import.now \in Nat
  BY DEF ImportFigures, WalletsTyped, Importing
<1>2. import' \in Importing(Addresses) /\ import'.at = "idle" /\ import'.now = 0
  BY <1>1, NoneIsAddress DEF Importing, NoImport
<1>3. c \in Figure(Addresses) /\ c.wallet = w /\ c.source = "csv" /\ c.at = import.now
  BY <1>1 DEF Figure
<1>4. \A f \in figures' : f \in figures \/ f = c
  BY <1>1
<1>5. crossed \subseteq crossed' /\ crossed' \subseteq Addresses
      /\ (discovery.wallet = w => w \in crossed')
  BY <1>1 DEF WalletsTyped
<1>6. /\ w \in DOMAIN walletRows
      /\ \A f \in figures : f.source = "provider" /\ f.wallet = w =>
             f.at <= import.now \/ w \in crossed
  BY <1>1 DEF WalletsInv, WritersCross
<1>7. \A f \in figures : f.at \in Nat
  BY DEF WalletsTyped, Figure
<1> HIDE DEF w, c
<1>8. WalletsTyped'
  BY <1>1, <1>2, <1>3, <1>5, SameAddresses DEF WalletsTyped
<1>9. InThePast'
  BY <1>1, <1>2, <1>3, <1>4 DEF WalletsInv, InThePast
<1>10. WritersCross' /\ FiguresDue'
  BY <1>1, <1>2, <1>3, <1>4, <1>5, <1>6 DEF WalletsInv, WritersCross, FiguresDue
<1>11. ImportCounts'
  BY <1>1, <1>3, <1>4, <1>5, <1>6, <1>7 DEF WalletsInv, ImportCounts
<1>12. FiguresOfDiscovered'
  BY <1>1, <1>3, <1>4 DEF WalletsInv, FiguresOfDiscovered
<1> QED BY <1>8, <1>9, <1>10, <1>11, <1>12 DEF WalletsInv

LEMMA WalletActiveHolds ==
  ASSUME WalletsTyped, WalletsInv, NEW w \in Addresses, WalletActive(w),
         discoveryTime \in Nat
  PROVE  WalletsTyped' /\ WalletsInv'
<1> DEFINE row == [watched |-> FALSE, discovered |-> FALSE]
<1>1. UNCHANGED <<discoveryWorld, discoveryTime, figures, discovery, import, strays, crossed>>
  BY DEF WalletActive, passVars
<1>2. CASE w \in DOMAIN walletRows
  <2>1. UNCHANGED walletRows
    BY <1>2 DEF WalletActive
  <2> QED BY <1>1, <2>1, SameWallets DEF walletVars
<1>3. CASE w \notin DOMAIN walletRows
  <2>1. walletRows' = With(walletRows, w, row)
    BY <1>3 DEF WalletActive
  <2>2. row \in Row /\ ~row.discovered
    BY DEF Row
  <2> HIDE DEF row
  <2> QED BY <1>1, <1>3, <2>1, <2>2, OtherWalletHolds
<1> QED BY <1>2, <1>3

-----------------------------------------------------------------------------
(* Candidates.                                                             *)

CandidatesInv == VerdictsInv /\ RisersInv

LEMMA StaysRiser ==
  ASSUME WorldTyped, UNCHANGED discoveryWorld, discoveryTime' \in Nat,
         discoveryTime' >= discoveryTime, NEW w, Riser(w)
  PROVE  Riser(w)'
<1>1. PICK t \in DOMAIN discoveryWorld.tokens :
        /\ w \in discoveryWorld.tokens[t].traders
        /\ \E was, is \in Stored(t) :
               /\ was.ts + BackfillLookback <= discoveryTime
               /\ was.mcap > 0 /\ is.mcap >= McapExpansionMin * was.mcap
  BY DEF Riser
<1>2. PICK was \in Stored(t), is \in Stored(t) :
        /\ was.ts + BackfillLookback <= discoveryTime
        /\ was.mcap > 0 /\ is.mcap >= McapExpansionMin * was.mcap
  BY <1>1
<1>3. discoveryTime \in Nat /\ BackfillLookback \in Nat
      /\ \A p \in discoveryWorld.tokens[t].points : p.ts \in Int
  BY DiscoveryAssumption DEF WorldTyped
<1>4. Stored(t) \subseteq Stored(t)' /\ was.ts \in Int
  BY <1>3 DEF Stored
<1>5. was.ts + BackfillLookback <= discoveryTime'
  BY <1>2, <1>3, <1>4
<1> QED BY <1>1, <1>2, <1>4, <1>5 DEF Riser

LEMMA SameCandidates ==
  ASSUME WorldTyped, CandidatesTyped, CandidatesInv, discoveryTime' \in Nat,
         discoveryTime' >= discoveryTime, UNCHANGED <<discoveryWorld, candidateVars>>
  PROVE  CandidatesTyped' /\ CandidatesInv'
<1>1. CandidatesTyped'
  BY SameAddresses DEF CandidatesTyped, candidateVars
<1>2. VerdictsInv'
  BY DEF CandidatesInv, VerdictsInv, VerdictsKept, candidateVars
<1>3. backfill.now \in Nat /\ discoveryTime \in Nat
  BY DEF CandidatesTyped, Backfilling, WorldTyped
<1>4. RisersInv'
  BY <1>3, StaysRiser DEF CandidatesInv, RisersInv, candidateVars
<1> QED BY <1>1, <1>2, <1>4 DEF CandidatesInv

\* The backfill goes on, with traders of its own or of a token that rose.
LEMMA BackfillHolds ==
  ASSUME WorldTyped, CandidatesTyped, CandidatesInv,
         backfill' \in Backfilling(Addresses, DOMAIN discoveryWorld.tokens),
         backfill'.now <= discoveryTime,
         backfill'.at = "trader" => \A w \in backfill'.traders : Riser(w),
         UNCHANGED <<discoveryWorld, discoveryTime, topCandidates, verdicts>>
  PROVE  CandidatesTyped' /\ CandidatesInv'
<1>1. CandidatesTyped'
  BY SameAddresses DEF CandidatesTyped
<1>2. VerdictsInv'
  BY DEF CandidatesInv, VerdictsInv, VerdictsKept
<1>3. discoveryTime \in Nat
  BY DEF WorldTyped
<1>4. \A w : Riser(w) => Riser(w)'
  BY <1>3, StaysRiser
<1>5. RisersInv'
  BY <1>4 DEF CandidatesInv, RisersInv
<1> QED BY <1>1, <1>2, <1>5 DEF CandidatesInv

LEMMA StartBackfillHolds ==
  ASSUME WorldTyped, CandidatesTyped, CandidatesInv, StartBackfill
  PROVE  CandidatesTyped' /\ CandidatesInv'
<1> DEFINE T == DOMAIN discoveryWorld.tokens
<1>1. /\ backfill' = [at |-> "token", tokens |-> T, traders |-> {}, now |-> discoveryTime]
      /\ UNCHANGED <<discoveryWorld, discoveryTime, topCandidates, verdicts>>
      /\ discoveryTime \in Nat
  BY DEF StartBackfill, WorldTyped
<1> HIDE DEF T
<1>2. backfill' \in Backfilling(Addresses, T) /\ backfill'.at = "token"
      /\ backfill'.now = discoveryTime
  BY <1>1 DEF Backfilling
<1> QED BY <1>1, <1>2, BackfillHolds DEF T

LEMMA ReadTokenHolds ==
  ASSUME WorldTyped, CandidatesTyped, CandidatesInv, NEW t \in backfill.tokens, ReadToken(t)
  PROVE  CandidatesTyped' /\ CandidatesInv'
<1> DEFINE T == DOMAIN discoveryWorld.tokens
           L == discoveryWorld.tokens[t].traders
<1>0. backfill \in Backfilling(Addresses, T) /\ backfill.now \in Nat /\ t \in T
      /\ discoveryTime \in Nat /\ BackfillLookback \in Nat
      /\ \A p \in discoveryWorld.tokens[t].points : p.ts \in Int
  BY DiscoveryAssumption DEF CandidatesTyped, Backfilling, WorldTyped
<1>1. PICK expanded \in IF Expansions(t) = {} THEN {FALSE} ELSE Expansions(t) :
          backfill' = [backfill EXCEPT !.tokens = @ \ {t},
              !.at = IF expanded /\ discoveryWorld.provider THEN "trader" ELSE "token",
              !.traders = IF expanded /\ discoveryWorld.provider THEN L ELSE {}]
  BY DEF ReadToken
<1>2. UNCHANGED <<discoveryWorld, discoveryTime, topCandidates, verdicts>>
  BY DEF ReadToken
<1>3. L \in SUBSET Addresses
  BY <1>0 DEF Addresses
<1>4. /\ backfill' \in Backfilling(Addresses, T) /\ backfill'.now = backfill.now
      /\ backfill'.at = "trader" => expanded /\ backfill'.traders = L
  <2>1. CASE expanded /\ discoveryWorld.provider
    <3>1. backfill' = [backfill EXCEPT !.tokens = @ \ {t}, !.at = "trader", !.traders = L]
      BY <1>1, <2>1, Zenon
    <3> HIDE DEF T, L
    <3> QED BY <1>0, <1>3, <2>1, <3>1 DEF Backfilling
  <2>2. CASE ~(expanded /\ discoveryWorld.provider)
    <3>1. backfill' = [backfill EXCEPT !.tokens = @ \ {t}, !.at = "token", !.traders = {}]
      BY <1>1, <2>2, Zenon
    <3> HIDE DEF T, L
    <3> QED BY <1>0, <3>1 DEF Backfilling
  <2> QED BY <2>1, <2>2
<1>5. backfill'.now <= discoveryTime
  BY <1>4 DEF CandidatesInv, RisersInv
<1>6. ASSUME expanded, NEW w \in L PROVE Riser(w)
  <2> DEFINE old == {p \in Stored(t) : p.ts <= backfill.now - BackfillLookback}
  <2>1. expanded \in Expansions(t)
    BY <1>1, <1>6
  <2>2. PICK was \in NewestCap(old), is \in NewestCap(Stored(t)) :
          expanded = (was > 0 /\ is >= McapExpansionMin * was)
    BY <2>1 DEF Expansions
  <2>3. was > 0 /\ is >= McapExpansionMin * was
    BY <1>6, <2>2
  <2>4. PICK p \in old : p.mcap = was
    BY <2>2 DEF NewestCap
  <2>5. PICK q \in Stored(t) : q.mcap = is
    BY <2>2 DEF NewestCap
  <2>6. p \in Stored(t) /\ p.ts \in Int /\ p.ts <= backfill.now - BackfillLookback
    BY <1>0, <2>4 DEF Stored
  <2>7. p.ts + BackfillLookback <= discoveryTime
    BY <1>0, <2>6 DEF CandidatesInv, RisersInv
  <2>8. p.mcap > 0 /\ q.mcap >= McapExpansionMin * p.mcap
    BY <2>3, <2>4, <2>5, Zenon
  <2> QED BY <1>0, <1>6, <2>5, <2>6, <2>7, <2>8, Zenon DEF Riser
<1> HIDE DEF T, L
<1> QED BY <1>2, <1>4, <1>5, <1>6, BackfillHolds DEF T

LEMMA TokenThrowsHolds ==
  ASSUME WorldTyped, CandidatesTyped, CandidatesInv, TokenThrows
  PROVE  CandidatesTyped' /\ CandidatesInv'
<1> DEFINE T == DOMAIN discoveryWorld.tokens
<1>0. backfill \in Backfilling(Addresses, T) /\ backfill.now <= discoveryTime
  BY DEF CandidatesTyped, CandidatesInv, RisersInv
<1>1. UNCHANGED <<discoveryWorld, discoveryTime, topCandidates, verdicts>>
  BY DEF TokenThrows
<1> HIDE DEF T
<1>2. backfill' \in Backfilling(Addresses, T) /\ backfill'.now = backfill.now
      /\ backfill'.at = "token"
  <2>1. CASE backfill.at = "trader"
    <3>1. backfill' = [backfill EXCEPT !.at = "token", !.traders = {}]
      BY <2>1 DEF TokenThrows
    <3> QED BY <1>0, <3>1 DEF Backfilling
  <2>2. CASE backfill.at # "trader"
    <3>1. backfill.at = "token"
          /\ \E t \in backfill.tokens : backfill' = [backfill EXCEPT !.tokens = @ \ {t}]
      BY <2>2 DEF TokenThrows
    <3> QED BY <1>0, <3>1 DEF Backfilling
  <2> QED BY <2>1, <2>2
<1> QED BY <1>0, <1>1, <1>2, BackfillHolds DEF T

LEMMA CloseTokenHolds ==
  ASSUME WorldTyped, CandidatesTyped, CandidatesInv, CloseToken
  PROVE  CandidatesTyped' /\ CandidatesInv'
<1> DEFINE T == DOMAIN discoveryWorld.tokens
<1>0. backfill \in Backfilling(Addresses, T) /\ backfill.now <= discoveryTime
      /\ discoveryTime \in Nat
  BY DEF CandidatesTyped, CandidatesInv, RisersInv, WorldTyped
<1>1. UNCHANGED <<discoveryWorld, discoveryTime, topCandidates, verdicts>>
  BY DEF CloseToken
<1> HIDE DEF T
<1>2. backfill' \in Backfilling(Addresses, T) /\ backfill'.now <= discoveryTime
      /\ backfill'.at # "trader"
  <2>1. CASE backfill' = [backfill EXCEPT !.at = "token"]
    BY <1>0, <2>1 DEF Backfilling
  <2>2. CASE backfill' = NoBackfill
    BY <1>0, <2>2 DEF Backfilling, NoBackfill
  <2> QED BY <2>1, <2>2 DEF CloseToken
<1> QED BY <1>1, <1>2, BackfillHolds DEF T

LEMMA UpsertTraderHolds ==
  ASSUME WorldTyped, CandidatesTyped, CandidatesInv, NEW w \in backfill.traders, UpsertTrader(w)
  PROVE  CandidatesTyped' /\ CandidatesInv'
<1> DEFINE T == DOMAIN discoveryWorld.tokens
           y == TraderStatus(w)
<1>0. backfill \in Backfilling(Addresses, T) /\ w \in Addresses
      /\ topCandidates \in [DOMAIN topCandidates -> Status] /\ discoveryTime \in Nat
  BY DEF CandidatesTyped, Backfilling, WorldTyped
<1>1. /\ backfill.at = "trader" /\ topCandidates' = With(topCandidates, w, y)
      /\ backfill' = [backfill EXCEPT !.traders = @ \ {w}]
      /\ UNCHANGED <<discoveryWorld, discoveryTime, verdicts>>
  BY DEF UpsertTrader
<1>2. y \in Status /\ (w \in DOMAIN topCandidates => y = topCandidates[w])
  BY <1>0 DEF TraderStatus, Status
<1> HIDE DEF T, y
<1>3. /\ topCandidates' \in [DOMAIN topCandidates' -> Status]
      /\ DOMAIN topCandidates' = DOMAIN topCandidates \cup {w}
      /\ \A z \in DOMAIN topCandidates : topCandidates'[z] = topCandidates[z]
  BY <1>0, <1>1, <1>2 DEF With
<1>4. /\ backfill' \in Backfilling(Addresses, T) /\ backfill'.now = backfill.now
      /\ backfill'.traders \subseteq backfill.traders
  BY <1>0, <1>1 DEF Backfilling
<1>5. CandidatesTyped'
  BY <1>0, <1>1, <1>3, <1>4, SameAddresses DEF CandidatesTyped, T
<1>6. VerdictsInv'
  BY <1>1, <1>3 DEF CandidatesInv, VerdictsInv, VerdictsKept
<1>7. \A v : Riser(v) => Riser(v)'
  BY <1>0, <1>1, StaysRiser
<1>8. RisersInv'
  BY <1>1, <1>3, <1>4, <1>7 DEF CandidatesInv, RisersInv
<1> QED BY <1>5, <1>6, <1>8 DEF CandidatesInv

\* A verdict is given of a candidate that has none.
LEMMA DecideHolds ==
  ASSUME WorldTyped, CandidatesTyped, CandidatesInv, NEW w \in DOMAIN topCandidates,
         NEW v \in {"promoted", "rejected"}, Decide(w, v)
  PROVE  CandidatesTyped' /\ CandidatesInv'
<1>0. /\ topCandidates \in [DOMAIN topCandidates -> Status] /\ discoveryTime \in Nat
      /\ verdicts \in [DOMAIN verdicts -> {"promoted", "rejected"}] /\ v \in Status
  BY DEF CandidatesTyped, WorldTyped, Status
<1>1. /\ topCandidates[w] = "pending" /\ topCandidates' = [topCandidates EXCEPT ![w] = v]
      /\ verdicts' = With(verdicts, w, v)
      /\ UNCHANGED <<discoveryWorld, discoveryTime, backfill>>
  BY DEF Decide, passVars
<1>2. /\ topCandidates' \in [DOMAIN topCandidates' -> Status]
      /\ DOMAIN topCandidates' = DOMAIN topCandidates /\ topCandidates'[w] = v
      /\ \A z \in DOMAIN topCandidates : z # w => topCandidates'[z] = topCandidates[z]
  BY <1>0, <1>1
<1>3. /\ verdicts' \in [DOMAIN verdicts' -> {"promoted", "rejected"}]
      /\ DOMAIN verdicts' = DOMAIN verdicts \cup {w} /\ verdicts'[w] = v
      /\ \A z \in DOMAIN verdicts : z # w => verdicts'[z] = verdicts[z]
  BY <1>0, <1>1 DEF With
<1>4. CandidatesTyped'
  BY <1>1, <1>2, <1>3, SameAddresses DEF CandidatesTyped
<1>5. VerdictsInv'
  BY <1>2, <1>3 DEF CandidatesInv, VerdictsInv, VerdictsKept
<1>6. \A x : Riser(x) => Riser(x)'
  BY <1>0, <1>1, StaysRiser
<1>7. RisersInv'
  BY <1>1, <1>2, <1>6 DEF CandidatesInv, RisersInv
<1> QED BY <1>4, <1>5, <1>7 DEF CandidatesInv

-----------------------------------------------------------------------------
(* The steps.                                                              *)

DiscoveryInv == WorldTyped /\ WalletsTyped /\ CandidatesTyped /\ WalletsInv /\ CandidatesInv

LEMMA SameWorld ==
  ASSUME WorldTyped, UNCHANGED <<discoveryWorld, discoveryTime, outside, discoveryFaults>>
  PROVE  WorldTyped'
  BY SameAddresses DEF WorldTyped

LEMMA FaultyWorld ==
  ASSUME WorldTyped, DiscoveryFault, UNCHANGED <<discoveryWorld, discoveryTime, outside>>
  PROVE  WorldTyped'
<1>1. discoveryFaults' \in 0..MaxDiscoveryFaults
  BY DiscoveryAssumption DEF WorldTyped, DiscoveryFault
<1> QED BY <1>1, SameAddresses DEF WorldTyped

\* A step of discovery that leaves it without a wallet at hand, and takes none from it.
LEMMA SearchStep ==
  ASSUME WorldTyped, WalletsTyped, CandidatesTyped, WalletsInv, CandidatesInv,
         discovery' \in Discovering(Addresses), Searching(discovery'), discovery'.now = 0,
         UNCHANGED <<discoveryWorld, discoveryTime, walletRows, figures, import, crossed>>,
         UNCHANGED candidateVars,
         (discovery.at # "stats" /\ UNCHANGED strays) \/ strays' = strays \cup Stray
  PROVE  WalletsTyped' /\ WalletsInv' /\ CandidatesTyped' /\ CandidatesInv'
<1>1. discoveryTime \in Nat
  BY DEF WorldTyped
<1>2. discovery.wallet \in Addresses /\ strays \subseteq Addresses
  BY DEF WalletsTyped, Discovering
<1>3. /\ strays' \in SUBSET Addresses /\ strays \subseteq strays'
      /\ discovery.at = "stats" => discovery.wallet \in strays'
  BY <1>2 DEF Stray
<1>4. discovery'.now <= discoveryTime
  BY <1>1
<1>5. WalletsTyped' /\ WalletsInv'
  BY <1>3, <1>4, SearchHolds
<1> QED BY <1>1, <1>5, SameCandidates

LEMMA DiscoveryStep == DiscoveryInv /\ [DiscoveryNext]_discoveryVars => DiscoveryInv'
<1> SUFFICES ASSUME DiscoveryInv, [DiscoveryNext]_discoveryVars PROVE DiscoveryInv'
  OBVIOUS
<1> USE DEF DiscoveryInv
<1>0. /\ discoveryTime \in Nat /\ discoveryTime <= LastDiscoveryTime
      /\ outside \in Outside(Addresses) /\ discovery \in Discovering(Addresses)
      /\ discovery.chain \in Nat /\ discoveryWorld \in DiscoveryWorlds
  BY DEF WorldTyped, WalletsTyped, Discovering
<1>a. /\ Len(discoveryWorld.chains) \in Nat
      /\ DOMAIN discoveryWorld.chains = 1..Len(discoveryWorld.chains)
  BY <1>0, DiscoveryAssumption
<1>b. \A e : \/ e = NoDiscovery
             \/ e = [NoDiscovery EXCEPT !.at = "chain"]
             \/ e = [NoDiscovery EXCEPT !.at = "chain", !.chain = discovery.chain]
             => e \in Discovering(Addresses) /\ Searching(e) /\ e.now = 0
  BY <1>0, NoneIsAddress, DiscoveryClears
<1>c. discoveryTime >= discoveryTime
  BY <1>0
<1>1. CASE DiscoveryTick
  <2>1. /\ discoveryTime' = discoveryTime + 1 /\ discoveryTime < LastDiscoveryTime
        /\ UNCHANGED <<discoveryWorld, walletVars, candidateVars, outside, discoveryFaults>>
    BY <1>1 DEF DiscoveryTick, walletVars, candidateVars, passVars
  <2>2. discoveryTime' \in Nat /\ discoveryTime' >= discoveryTime
        /\ discoveryTime' \in 0..LastDiscoveryTime
    BY <1>0, <2>1, DiscoveryAssumption
  <2>3. WorldTyped'
    BY <2>1, <2>2, SameAddresses DEF WorldTyped
  <2> QED BY <1>0, <2>1, <2>2, <2>3, SameWallets, SameCandidates
<1>2. CASE StartDiscovery
  <2>1. /\ discovery' = [NoDiscovery EXCEPT !.at = "chain"] /\ discovery.at # "stats"
        /\ UNCHANGED <<discoveryWorld, discoveryTime, walletRows, figures, import, crossed>>
        /\ UNCHANGED candidateVars
        /\ UNCHANGED <<strays, outside, discoveryFaults>>
    BY <1>2 DEF StartDiscovery, candidateVars
  <2>2. discovery' \in Discovering(Addresses) /\ Searching(discovery') /\ discovery'.now = 0
    BY <1>b, <2>1, Zenon
  <2> QED BY <2>1, <2>2, SearchStep, SameWorld
<1>3. CASE OpenChain
  <2> DEFINE k == discovery.chain + 1
             chain == discoveryWorld.chains[k]
             L == chain.offered
  <2>1. /\ \/ discovery' = [NoDiscovery EXCEPT !.at = "find", !.chain = k, !.left = L]
           \/ discovery' = [NoDiscovery EXCEPT !.at = "chain", !.chain = k, !.left = {}]
        /\ discovery.at = "chain" /\ discovery.chain < Len(discoveryWorld.chains)
        /\ UNCHANGED <<discoveryWorld, discoveryTime, walletRows, figures, import, crossed>>
        /\ UNCHANGED candidateVars
        /\ UNCHANGED <<strays, outside, discoveryFaults>>
    BY <1>3 DEF OpenChain, ChainCount, candidateVars
  <2>2. k \in DOMAIN discoveryWorld.chains /\ k \in Nat
    BY <1>0, <1>a, <2>1
  <2>3. L \in SUBSET Addresses
    BY <2>2 DEF Addresses
  <2> HIDE DEF k, L
  <2>4. \A d \in Discovering(Addresses) :
            d.now = 0 /\ (\/ discovery' = [d EXCEPT !.at = "find", !.chain = k, !.left = L]
                          \/ discovery' = [d EXCEPT !.at = "chain", !.chain = k, !.left = {}])
            => discovery' \in Discovering(Addresses) /\ Searching(discovery') /\ discovery'.now = 0
    BY <2>2, <2>3 DEF Discovering, Searching
  <2>5. NoDiscovery \in Discovering(Addresses) /\ NoDiscovery.now = 0
    BY <1>b, Zenon
  <2>6. discovery' \in Discovering(Addresses) /\ Searching(discovery') /\ discovery'.now = 0
    BY <2>1, <2>4, <2>5, Zenon
  <2> QED BY <2>1, <2>6, SearchStep, SameWorld
<1>4. ASSUME NEW w \in discovery.left, FindWallet(w) PROVE DiscoveryInv'
  <2>1. UNCHANGED <<discoveryWorld, discoveryTime, candidateVars, outside, discoveryFaults>>
    BY <1>4 DEF FindWallet, candidateVars
  <2>2. WalletsTyped' /\ WalletsInv'
    BY <1>0, <1>4, FindWalletHolds
  <2> QED BY <1>0, <1>c, <2>1, <2>2, SameCandidates, SameWorld
<1>5. CASE CreateWallet
  <2>1. UNCHANGED <<discoveryWorld, discoveryTime, candidateVars, outside, discoveryFaults>>
    BY <1>5 DEF CreateWallet, candidateVars
  <2>2. WalletsTyped' /\ WalletsInv'
    BY <1>0, <1>5, CreateWalletHolds
  <2> QED BY <1>0, <1>c, <2>1, <2>2, SameCandidates, SameWorld
<1>6. CASE CreateFigures
  <2>1. UNCHANGED <<discoveryWorld, discoveryTime, candidateVars, outside, discoveryFaults>>
    BY <1>6 DEF CreateFigures, candidateVars
  <2>2. WalletsTyped' /\ WalletsInv'
    BY <1>0, <1>6, CreateFiguresHolds
  <2> QED BY <1>0, <1>c, <2>1, <2>2, SameCandidates, SameWorld
<1>7. CASE ChainThrows
  <2>1. /\ discovery' = [NoDiscovery EXCEPT !.at = "chain", !.chain = discovery.chain]
        /\ strays' = strays \cup Stray /\ DiscoveryFault
        /\ UNCHANGED <<discoveryWorld, discoveryTime, walletRows, figures, import, crossed>>
        /\ UNCHANGED candidateVars
        /\ UNCHANGED outside
    BY <1>7 DEF ChainThrows, ChainLeft, candidateVars
  <2>2. discovery' \in Discovering(Addresses) /\ Searching(discovery') /\ discovery'.now = 0
    BY <1>b, <2>1, Zenon
  <2> QED BY <2>1, <2>2, SearchStep, FaultyWorld
<1>8. CASE CloseChain
  <2>1. /\ \/ discovery' = [NoDiscovery EXCEPT !.at = "chain", !.chain = discovery.chain]
           \/ discovery' = NoDiscovery
        /\ discovery.at # "stats"
        /\ UNCHANGED <<discoveryWorld, discoveryTime, walletRows, figures, import, crossed>>
        /\ UNCHANGED candidateVars
        /\ UNCHANGED <<strays, outside, discoveryFaults>>
    BY <1>8 DEF CloseChain, ChainLeft, candidateVars
  <2>2. discovery' \in Discovering(Addresses) /\ Searching(discovery') /\ discovery'.now = 0
    BY <1>b, <2>1, Zenon
  <2> QED BY <2>1, <2>2, SearchStep, SameWorld
<1>9. ASSUME NEW w \in outside.imports, BeginImport(w) PROVE DiscoveryInv'
  <2>1. /\ outside' = [outside EXCEPT !.imports = @ \ {w}]
        /\ UNCHANGED <<discoveryWorld, discoveryTime, candidateVars, discoveryFaults>>
    BY <1>9 DEF BeginImport, candidateVars
  <2>2. w \in Addresses /\ outside' \in Outside(Addresses)
    BY <1>0, <2>1 DEF Outside
  <2>3. WorldTyped'
    BY <2>1, <2>2, SameAddresses DEF WorldTyped
  <2>4. WalletsTyped' /\ WalletsInv'
    BY <1>0, <1>9, <2>2, BeginImportHolds
  <2> QED BY <1>0, <1>c, <2>1, <2>3, <2>4, SameCandidates
<1>10. CASE ImportWallet
  <2>1. UNCHANGED <<discoveryWorld, discoveryTime, candidateVars, outside, discoveryFaults>>
    BY <1>10 DEF ImportWallet, candidateVars
  <2>2. WalletsTyped' /\ WalletsInv'
    BY <1>10, ImportWalletHolds
  <2> QED BY <1>0, <1>c, <2>1, <2>2, SameCandidates, SameWorld
<1>11. CASE ImportFigures
  <2>1. UNCHANGED <<discoveryWorld, discoveryTime, candidateVars, outside, discoveryFaults>>
    BY <1>11 DEF ImportFigures, candidateVars
  <2>2. WalletsTyped' /\ WalletsInv'
    BY <1>0, <1>11, ImportFiguresHolds
  <2> QED BY <1>0, <1>c, <2>1, <2>2, SameCandidates, SameWorld
<1>12. CASE ImportThrows
  <2>1. /\ DiscoveryFault
        /\ UNCHANGED <<discoveryWorld, discoveryTime, candidateVars, outside>>
    BY <1>12 DEF ImportThrows, candidateVars
  <2>2. WalletsTyped' /\ WalletsInv'
    BY <1>0, <1>12, ImportThrowsHolds
  <2> QED BY <1>0, <1>c, <2>1, <2>2, SameCandidates, FaultyWorld
<1>13. ASSUME NEW w \in outside.active, WalletActive(w) PROVE DiscoveryInv'
  <2>1. /\ outside' = [outside EXCEPT !.active = @ \ {w}]
        /\ UNCHANGED <<discoveryWorld, discoveryTime, candidateVars, discoveryFaults>>
    BY <1>13 DEF WalletActive, candidateVars, passVars
  <2>2. w \in Addresses /\ outside' \in Outside(Addresses)
    BY <1>0, <2>1 DEF Outside
  <2>3. WorldTyped'
    BY <2>1, <2>2, SameAddresses DEF WorldTyped
  <2>4. WalletsTyped' /\ WalletsInv'
    BY <1>0, <1>13, <2>2, WalletActiveHolds
  <2> QED BY <1>0, <1>c, <2>1, <2>3, <2>4, SameCandidates
<1>14. CASE StartBackfill
  <2>1. UNCHANGED <<discoveryWorld, discoveryTime, walletVars, outside, discoveryFaults>>
    BY <1>14 DEF StartBackfill, walletVars
  <2> QED BY <1>0, <1>c, <1>14, <2>1, SameWallets, SameWorld, StartBackfillHolds
<1>15. ASSUME NEW t \in backfill.tokens, ReadToken(t) PROVE DiscoveryInv'
  <2>1. UNCHANGED <<discoveryWorld, discoveryTime, walletVars, outside, discoveryFaults>>
    BY <1>15 DEF ReadToken, walletVars
  <2> QED BY <1>0, <1>c, <1>15, <2>1, SameWallets, SameWorld, ReadTokenHolds
<1>16. ASSUME NEW w \in backfill.traders, UpsertTrader(w) PROVE DiscoveryInv'
  <2>1. UNCHANGED <<discoveryWorld, discoveryTime, walletVars, outside, discoveryFaults>>
    BY <1>16 DEF UpsertTrader, walletVars
  <2> QED BY <1>0, <1>c, <1>16, <2>1, SameWallets, SameWorld, UpsertTraderHolds
<1>17. CASE TokenThrows
  <2>1. DiscoveryFault /\ UNCHANGED <<discoveryWorld, discoveryTime, walletVars, outside>>
    BY <1>17 DEF TokenThrows, walletVars
  <2> QED BY <1>0, <1>c, <1>17, <2>1, SameWallets, FaultyWorld, TokenThrowsHolds
<1>18. CASE CloseToken
  <2>1. UNCHANGED <<discoveryWorld, discoveryTime, walletVars, outside, discoveryFaults>>
    BY <1>18 DEF CloseToken, walletVars
  <2> QED BY <1>0, <1>c, <1>18, <2>1, SameWallets, SameWorld, CloseTokenHolds
<1>19. ASSUME NEW w \in DOMAIN topCandidates, NEW v \in {"promoted", "rejected"}, Decide(w, v)
       PROVE  DiscoveryInv'
  <2>1. UNCHANGED <<discoveryWorld, discoveryTime, walletVars, outside, discoveryFaults>>
    BY <1>19 DEF Decide, walletVars, passVars
  <2> QED BY <1>0, <1>c, <1>19, <2>1, SameWallets, SameWorld, DecideHolds
<1>20. CASE WorkerDies
  <2> DEFINE T == DOMAIN discoveryWorld.tokens
  <2>1. /\ discovery' = NoDiscovery /\ backfill' = NoBackfill /\ strays' = strays \cup Stray
        /\ DiscoveryFault
        /\ UNCHANGED <<discoveryWorld, discoveryTime, walletRows, figures, import, crossed>>
        /\ UNCHANGED <<topCandidates, verdicts, outside>>
    BY <1>20 DEF WorkerDies
  <2>2. discovery' \in Discovering(Addresses) /\ Searching(discovery') /\ discovery'.now = 0
    BY <1>b, <2>1, Zenon
  <2>3. backfill' \in Backfilling(Addresses, T) /\ backfill'.at = "idle" /\ backfill'.now = 0
    BY <2>1 DEF Backfilling, NoBackfill
  <2>4. 0 <= discoveryTime
    BY <1>0
  <2>5. CandidatesTyped' /\ CandidatesInv'
    BY <2>1, <2>3, <2>4, BackfillHolds
  <2>6. discovery.wallet \in Addresses /\ strays \subseteq Addresses
    BY <1>0 DEF WalletsTyped, Discovering
  <2>7. /\ strays' \in SUBSET Addresses /\ strays \subseteq strays'
        /\ discovery.at = "stats" => discovery.wallet \in strays'
    BY <2>1, <2>6 DEF Stray
  <2>8. discovery'.now <= discoveryTime
    BY <2>2, <2>4
  <2>9. WalletsTyped' /\ WalletsInv'
    BY <2>1, <2>2, <2>7, <2>8, SearchHolds
  <2> QED BY <2>1, <2>5, <2>9, FaultyWorld
<1>21. CASE UNCHANGED discoveryVars
  <2>1. UNCHANGED <<discoveryWorld, discoveryTime, walletVars, candidateVars, outside,
                    discoveryFaults>>
    BY <1>21 DEF discoveryVars, walletVars, candidateVars, passVars
  <2> QED BY <1>0, <1>c, <2>1, SameWallets, SameCandidates, SameWorld
<1> QED
  BY <1>1, <1>2, <1>3, <1>4, <1>5, <1>6, <1>7, <1>8, <1>9, <1>10, <1>11, <1>12, <1>13, <1>14,
     <1>15, <1>16, <1>17, <1>18, <1>19, <1>20, <1>21 DEF DiscoveryNext

LEMMA DiscoveryBegins == DiscoveryInit => DiscoveryInv
<1> SUFFICES ASSUME DiscoveryInit PROVE DiscoveryInv
  OBVIOUS
<1>1. WorldTyped
  BY DiscoveryAssumption DEF DiscoveryInit, WorldTyped, Outside, Addresses
<1>2. discovery \in Discovering(Addresses) /\ Searching(discovery) /\ discovery.now = 0
  BY NoneIsAddress DEF DiscoveryInit, Discovering, NoDiscovery, Searching
<1>3. import \in Importing(Addresses) /\ import.at = "idle" /\ import.now = 0
  BY NoneIsAddress DEF DiscoveryInit, Importing, NoImport
<1>4. backfill \in Backfilling(Addresses, DOMAIN discoveryWorld.tokens)
        /\ backfill.at = "idle" /\ backfill.now = 0
  BY DEF DiscoveryInit, Backfilling, NoBackfill
<1>5. /\ figures = {} /\ strays = {} /\ crossed = {} /\ discoveryTime = 0
      /\ DOMAIN walletRows = {} /\ DOMAIN topCandidates = {} /\ DOMAIN verdicts = {}
      /\ walletRows \in [DOMAIN walletRows -> Row]
      /\ topCandidates \in [DOMAIN topCandidates -> Status]
      /\ verdicts \in [DOMAIN verdicts -> {"promoted", "rejected"}]
  BY DEF DiscoveryInit
<1>6. WalletsTyped /\ CandidatesTyped
  BY <1>2, <1>3, <1>4, <1>5 DEF WalletsTyped, CandidatesTyped
<1>7. WalletsInv
  BY <1>2, <1>3, <1>5 DEF WalletsInv, InThePast, WritersCross, FiguresDue, ImportCounts,
                          FiguresOfDiscovered, Searching
<1>8. CandidatesInv
  BY <1>4, <1>5 DEF CandidatesInv, VerdictsInv, VerdictsKept, RisersInv
<1> QED BY <1>1, <1>6, <1>7, <1>8 DEF DiscoveryInv

LEMMA DiscoveryInvHolds == DiscoverySpec => []DiscoveryInv
<1> QED BY DiscoveryBegins, DiscoveryStep, PTL DEF DiscoverySpec

\* Types of the rows, the figures and the passes, for any chains, imports and tokens.
THEOREM TypeCorrect == DiscoverySpec => []TypeInv
<1>1. DiscoveryInv => TypeInv
  BY DEF DiscoveryInv, TypeInv
<1> QED BY <1>1, DiscoveryInvHolds, PTL

\* Discovery and the backfill take nothing from what others know: made up figures are never
\* newer than imported ones unless both were being written at once, they are made up once and
\* for a wallet that discovery created, a verdict stays, and only what rose is backfilled.
THEOREM OnlyAdds == DiscoverySpec => []DiscoveryOnlyAdds
<1>1. DiscoveryInv => DiscoveryOnlyAdds
  BY DEF DiscoveryInv, WalletsInv, CandidatesInv, VerdictsInv, RisersInv, DiscoveryOnlyAdds,
         OnlyRisers, Riser
<1> QED BY <1>1, DiscoveryInvHolds, PTL

-----------------------------------------------------------------------------
(* Social mentions: types.                                                 *)

SocialSources == DOMAIN socialWorld.sources
SourceChains == UNION {socialWorld.sources[s].chains : s \in SocialSources}
PostIds == {p.id : p \in socialWorld.posts}
Mentioned == UNION {p.tokens : p \in socialWorld.posts}

SourceRow == [enabled : BOOLEAN, lastSync : Int, status : {"idle", "ok", "error"}, failCount : Nat]
Mention == [source : SocialSources, post : PostIds, token : Mentioned, ts : Int,
            author : {p.author : p \in socialWorld.posts}, hash : {p.hash : p \in socialWorld.posts},
            score : Int]
Turn == [source : SocialSources \cup {"none"}, since : Int, chains : SUBSET SourceChains,
         late : SUBSET socialWorld.posts, posts : SUBSET socialWorld.posts,
         failed : SUBSET socialWorld.posts, post : socialWorld.posts \cup {"none"},
         left : SUBSET Mentioned, score : Int]

SocialRowsTyped ==
    /\ socialWorld \in SocialWorlds
    /\ socialTime \in 0..LastSocialTime
    /\ sourceRows \in [DOMAIN sourceRows -> SourceRow] /\ DOMAIN sourceRows \subseteq SocialSources
    /\ unusedIds \subseteq SocialSources
    /\ mentions \subseteq Mention
    /\ missed \subseteq SocialSources \X PostIds
    /\ socialFaults \in 0..MaxSocialFaults /\ sourceEdits \in 0..MaxSourceEdits

SocialPassing(U) == [at : {"idle", "source", "fetch", "post", "mention", "error"},
                     todo : UNION {[D -> Int] : D \in SUBSET SocialSources}, turn : U]

SocialPassTyped == socialPass \in SocialPassing(Turn)

\* A source at hand is one, and so is a post.
TurnInHand ==
    /\ socialPass.at \in {"fetch", "post", "mention", "error"} => turn.source \in SocialSources
    /\ socialPass.at = "fetch" => turn.posts = {}
    /\ socialPass.at = "mention" =>
           turn.post \in turn.posts /\ turn.left # {} /\ turn.left \subseteq ExtractMentions(turn.post)

SocialTypeInv == SocialRowsTyped /\ SocialPassTyped /\ TurnInHand

-----------------------------------------------------------------------------
(* Social mentions: nothing is lost between two syncs.                     *)

Polling == socialPass.at \in {"fetch", "post", "mention", "error"}

\* The snapshot of a source is that of its row as long as the row is there: an id that was
\* deleted does not come back.
SnapshotHolds ==
    /\ unusedIds \cap DOMAIN sourceRows = {}
    /\ \A s \in DOMAIN socialPass.todo :
           s \notin unusedIds /\ (s \in DOMAIN sourceRows => sourceRows[s].lastSync = socialPass.todo[s])
    /\ Polling =>
           /\ turn.source \notin unusedIds /\ turn.source \notin DOMAIN socialPass.todo
           /\ turn.source \in DOMAIN sourceRows => sourceRows[turn.source].lastSync = turn.since

Listed(M, s, p) == \A token \in ExtractMentions(p) : \E m \in M : SameMention(m, s, p, token)

\* What the chains read have brought since the last sync waits, is stored, came too late or has failed.
TurnHeard ==
    Polling /\ turn.source \in DOMAIN sourceRows =>
        \A c \in socialWorld.sources[turn.source].chains \ turn.chains :
            \A p \in PostsOffered(turn.source, c) :
                turn.since < p.ts =>
                    p \in turn.posts \/ p \in turn.late \/ p \in turn.failed \/ Listed(mentions, turn.source, p)

\* What is no longer left of the post at hand is stored.
PostHeard ==
    socialPass.at = "mention" /\ turn.source \in DOMAIN sourceRows =>
        \A token \in ExtractMentions(turn.post) \ turn.left :
            \E m \in mentions : SameMention(m, turn.source, turn.post, token)

\* Rows belong to sources that are there.
HeardInv == SnapshotHolds /\ TurnHeard /\ PostHeard /\ AllHeard

-----------------------------------------------------------------------------
(* Social mentions: copies show.                                           *)

Authors(M) == {m.author : m \in M} \ {NoAuthor}

\* Mentions of one text within the window, of enough authors.
Wave(C) ==
    /\ C # {} /\ \A m, n \in C : m.hash = n.hash /\ m.ts <= n.ts + SpamConfig.window
    /\ Cardinality(Authors(C)) >= SpamConfig.copypastaAuthorMin

\* Also of any part of them: deleting a source may leave any part.
WavesShow ==
    \A C \in SUBSET mentions : Wave(C) => \E m \in C : m.score >= SpamConfig.weights.copypasta

\* The copies a look-back from the post would find now.
Echoes(p) == {m \in Recent(p) : m.hash = p.hash}
Copiers(p) == ({m.author : m \in Echoes(p)} \cup {p.author}) \ {NoAuthor}

\* The score of the post at hand is that of all the copies there are.
HandScored ==
    socialPass.at = "mention" /\ Cardinality(Copiers(turn.post)) >= SpamConfig.copypastaAuthorMin =>
        turn.score >= SpamConfig.weights.copypasta

CopiesInv == IsFiniteSet(mentions) /\ WavesShow /\ HandScored

SocialInv == SocialTypeInv /\ HeardInv /\ CopiesInv

-----------------------------------------------------------------------------
(* Social mentions: what a step makes of the pass.                         *)

LEMMA PassFields ==
  ASSUME NEW A, NEW T, NEW U, NEW p \in [at : A, todo : T, turn : U]
  PROVE  /\ p.at \in A /\ p.todo \in T /\ p.turn \in U
         /\ p = [at |-> p.at, todo |-> p.todo, turn |-> p.turn]
  BY Zenon

LEMMA PassEdits ==
  ASSUME NEW A, NEW T, NEW U, NEW p \in [at : A, todo : T, turn : U]
  PROVE  /\ \A x \in T : \A e : e = [p EXCEPT !.todo = x] =>
                e \in [at : A, todo : T, turn : U] /\ e.at = p.at /\ e.todo = x /\ e.turn = p.turn
         /\ \A a \in A : \A e : e = [p EXCEPT !.at = a] =>
                e \in [at : A, todo : T, turn : U] /\ e.at = a /\ e.todo = p.todo /\ e.turn = p.turn
         /\ \A a \in A, u \in U : \A e : e = [p EXCEPT !.at = a, !.turn = u] =>
                e \in [at : A, todo : T, turn : U] /\ e.at = a /\ e.todo = p.todo /\ e.turn = u
         /\ \A a \in A, x \in T : \A e : e = [p EXCEPT !.at = a, !.todo = x] =>
                e \in [at : A, todo : T, turn : U] /\ e.at = a /\ e.todo = x /\ e.turn = p.turn
  BY Zenon

\* The same of the edits that go into the turn.
LEMMA PassAsks ==
  ASSUME NEW A, NEW T, NEW U, NEW p \in [at : A, todo : T, turn : U], NEW e, NEW a, NEW c,
         NEW P, NEW L,
         e = [p EXCEPT !.at = a, !.turn.chains = @ \ {c}, !.turn.posts = P, !.turn.late = @ \cup L]
  PROVE  e = [p EXCEPT !.at = a, !.turn = [p.turn EXCEPT !.chains = @ \ {c}, !.posts = P,
                                                         !.late = @ \cup L]]
  BY Zenon

LEMMA PassTakes ==
  ASSUME NEW A, NEW T, NEW U, NEW p \in [at : A, todo : T, turn : U], NEW e, NEW a, NEW q,
         NEW l, NEW n,
         e = [p EXCEPT !.at = a, !.turn.post = q, !.turn.left = l, !.turn.score = n]
  PROVE  e = [p EXCEPT !.at = a, !.turn = [p.turn EXCEPT !.post = q, !.left = l, !.score = n]]
  BY Zenon

LEMMA PassLeaves ==
  ASSUME NEW A, NEW T, NEW U, NEW p \in [at : A, todo : T, turn : U], NEW e, NEW l,
         e = [p EXCEPT !.turn.left = @ \ {l}]
  PROVE  e = [p EXCEPT !.at = p.at, !.turn = [p.turn EXCEPT !.left = @ \ {l}]]
  BY Zenon

\* The world stays, and what is said of it.
LEMMA SameSocialWorld ==
  ASSUME UNCHANGED socialWorld
  PROVE  /\ SocialSources' = SocialSources /\ SourceChains' = SourceChains
         /\ Mention' = Mention /\ Turn' = Turn /\ PostIds' = PostIds
         /\ SocialPassing(Turn)' = SocialPassing(Turn)
         /\ \A s, c : PostsOffered(s, c)' = PostsOffered(s, c)
<1>1. SocialSources' = SocialSources /\ Mentioned' = Mentioned /\ PostIds' = PostIds
  BY DEF SocialSources, Mentioned, PostIds
<1>2. SourceChains' = SourceChains
  BY <1>1 DEF SourceChains
<1>3. Mention' = Mention
  BY <1>1 DEF Mention
<1>4. Turn' = Turn
  BY <1>1, <1>2 DEF Turn
<1> QED BY <1>1, <1>2, <1>3, <1>4 DEF SocialPassing, PostsOffered

LEMMA IdleIsPass ==
  /\ IdleSocialPass \in SocialPassing(Turn) /\ NoTurn \in Turn
  /\ IdleSocialPass.at = "idle" /\ DOMAIN IdleSocialPass.todo = {} /\ IdleSocialPass.turn = NoTurn
  /\ NoTurn.posts = {} /\ NoTurn.late = {} /\ NoTurn.failed = {}
<1>1. NoTurn \in Turn /\ NoTurn.posts = {} /\ NoTurn.late = {} /\ NoTurn.failed = {}
  BY DEF Turn, NoTurn, Never
<1> HIDE DEF NoTurn
<1>2. <<>> \in [{} -> Int] /\ DOMAIN <<>> = {}
  OBVIOUS
<1>3. <<>> \in UNION {[D -> Int] : D \in SUBSET SocialSources}
  BY <1>2
<1> QED BY <1>1, <1>2, <1>3 DEF IdleSocialPass, SocialPassing

\* The snapshots there may be.
Todos == UNION {[D -> Int] : D \in SUBSET SocialSources}

LEMMA TodosAre ==
  /\ \A f \in Todos : f \in [DOMAIN f -> Int] /\ DOMAIN f \subseteq SocialSources
  /\ \A D \in SUBSET SocialSources : \A f \in [D -> Int] : f \in Todos
  BY DEF Todos

\* The pass and its turn, field by field.
LEMMA PassIs ==
  ASSUME SocialTypeInv
  PROVE  /\ socialPass \in [at : {"idle", "source", "fetch", "post", "mention", "error"},
                            todo : Todos, turn : Turn]
         /\ turn \in Turn
  BY DEF SocialTypeInv, SocialPassTyped, SocialPassing, Todos, turn

LEMMA StartEffect ==
  ASSUME SocialTypeInv, StartSocialPass
  PROVE  /\ socialPass' \in SocialPassing(Turn)
         /\ socialPass'.at = "source" /\ turn' = NoTurn
         /\ DOMAIN socialPass'.todo \subseteq DOMAIN sourceRows
         /\ \A s \in DOMAIN socialPass'.todo : socialPass'.todo[s] = sourceRows[s].lastSync
<1> DEFINE enabled == {s \in DOMAIN sourceRows : sourceRows[s].enabled}
           todo == [s \in enabled |-> sourceRows[s].lastSync]
<1>1. todo \in [enabled -> Int] /\ enabled \subseteq SocialSources
  BY DEF SocialTypeInv, SocialRowsTyped, SourceRow
<1>2. todo \in Todos
  BY <1>1, TodosAre
<1>3. socialPass' = [IdleSocialPass EXCEPT !.at = "source", !.todo = todo]
  BY DEF StartSocialPass
<1>4. DOMAIN todo = enabled /\ \A s \in enabled : todo[s] = sourceRows[s].lastSync
  OBVIOUS
<1> HIDE DEF todo
<1>5. IdleSocialPass \in [at : {"idle", "source", "fetch", "post", "mention", "error"},
                          todo : Todos, turn : Turn]
  BY IdleIsPass DEF SocialPassing, Todos
<1>6. /\ socialPass' \in [at : {"idle", "source", "fetch", "post", "mention", "error"},
                          todo : Todos, turn : Turn]
      /\ socialPass'.at = "source" /\ socialPass'.todo = todo /\ socialPass'.turn = NoTurn
  BY <1>2, <1>3, <1>5, PassEdits, IdleIsPass
<1> QED BY <1>4, <1>6 DEF SocialPassing, Todos, turn

LEMMA TakeEffect ==
  ASSUME SocialTypeInv, NEW s \in SocialSources, TakeSource(s)
  PROVE  /\ socialPass' \in SocialPassing(Turn)
         /\ s \in DOMAIN socialPass.todo /\ socialPass.at = "source"
         /\ DOMAIN socialPass'.todo = DOMAIN socialPass.todo \ {s}
         /\ \A t \in DOMAIN socialPass'.todo : socialPass'.todo[t] = socialPass.todo[t]
         /\ \/ socialPass'.at = "source" /\ turn' = turn
            \/ /\ socialPass'.at = "fetch" /\ turn'.source = s
               /\ turn'.since = socialPass.todo[s] /\ turn'.chains = socialWorld.sources[s].chains
               /\ turn'.late = {} /\ turn'.posts = {} /\ turn'.failed = {}
<1>1. /\ socialPass.todo \in Todos /\ s \in DOMAIN socialPass.todo /\ socialPass.at = "source"
      /\ socialPass \in [at : {"idle", "source", "fetch", "post", "mention", "error"},
                         todo : Todos, turn : Turn]
  BY PassIs, PassFields DEF TakeSource
<1> DEFINE todo == Without(socialPass.todo, s)
<1>2. todo \in [DOMAIN socialPass.todo \ {s} -> Int]
  BY <1>1, TodosAre DEF Without
<1>3. todo \in Todos
  BY <1>1, <1>2, TodosAre
<1>4. /\ DOMAIN todo = DOMAIN socialPass.todo \ {s}
      /\ \A t \in DOMAIN todo : todo[t] = socialPass.todo[t]
  BY DEF Without
<1>5. CASE socialWorld.sources[s].reader
  <2>1. PICK none \in Turn : none = NoTurn
    BY IdleIsPass
  <2>n. PICK n \in Int, C \in SUBSET SourceChains :
          n = socialPass.todo[s] /\ C = socialWorld.sources[s].chains
    BY <1>1, TodosAre DEF SourceChains
  <2>t. PICK t : t = [none EXCEPT !.source = s, !.since = n, !.chains = C]
    OBVIOUS
  <2>2. socialPass' = [at |-> "fetch", todo |-> todo, turn |-> t]
    BY <1>5, <2>1, <2>n, <2>t, Zenon DEF TakeSource
  <2>3. /\ t \in Turn /\ t.source = s /\ t.since = n /\ t.chains = C
        /\ t.late = {} /\ t.posts = {} /\ t.failed = {}
    BY <2>1, <2>t, IdleIsPass DEF Turn
  <2> HIDE DEF todo
  <2>4. /\ socialPass' \in SocialPassing(Turn) /\ socialPass'.at = "fetch"
        /\ socialPass'.todo = todo /\ socialPass'.turn = t
    BY <2>2, <2>3, <1>3 DEF SocialPassing, Todos
  <2> QED BY <1>1, <1>4, <2>n, <2>3, <2>4 DEF turn
<1>6. CASE ~socialWorld.sources[s].reader
  <2>1. socialPass' = [socialPass EXCEPT !.todo = todo]
    BY <1>6 DEF TakeSource
  <2> HIDE DEF todo
  <2>2. /\ socialPass' \in [at : {"idle", "source", "fetch", "post", "mention", "error"},
                            todo : Todos, turn : Turn]
        /\ socialPass'.at = socialPass.at /\ socialPass'.todo = todo
        /\ socialPass'.turn = socialPass.turn
    BY <1>1, <1>3, <2>1, PassEdits
  <2> QED BY <1>1, <1>4, <2>2 DEF SocialPassing, Todos, turn
<1> QED BY <1>5, <1>6

LEMMA FetchEffect ==
  ASSUME SocialTypeInv, NEW c \in turn.chains, FetchPosts(c)
  PROVE  /\ socialPass' \in SocialPassing(Turn) /\ socialPass.at = "fetch"
         /\ socialPass'.todo = socialPass.todo
         /\ turn'.source = turn.source /\ turn'.since = turn.since
         /\ turn'.chains = turn.chains \ {c} /\ turn'.failed = turn.failed
         /\ turn'.posts = {p \in PostsOffered(turn.source, c) :
                               turn.since < p.ts /\ p.ts <= socialTime}
         /\ turn'.late = turn.late \cup {p \in PostsOffered(turn.source, c) : p.ts > socialTime}
         /\ socialPass'.at = IF turn'.posts = {} THEN "fetch" ELSE "post"
<1> DEFINE A == {"idle", "source", "fetch", "post", "mention", "error"}
<1>1. socialPass \in [at : A, todo : Todos, turn : Turn] /\ turn \in Turn
  BY PassIs
<1>2. PICK P \in SUBSET socialWorld.posts, L \in SUBSET socialWorld.posts :
        /\ P = {p \in PostsOffered(turn.source, c) : turn.since < p.ts /\ p.ts <= socialTime}
        /\ L = {p \in PostsOffered(turn.source, c) : p.ts > socialTime}
  BY DEF PostsOffered
<1>3. PICK a \in A : a = IF P = {} THEN "fetch" ELSE "post"
  OBVIOUS
<1>4. socialPass' = [socialPass EXCEPT !.at = a, !.turn.chains = @ \ {c}, !.turn.posts = P,
                                       !.turn.late = @ \cup L]
  BY <1>2, <1>3, Zenon DEF FetchPosts
<1>5. PICK t : t = [turn EXCEPT !.chains = @ \ {c}, !.posts = P, !.late = @ \cup L]
  OBVIOUS
<1>6. socialPass' = [socialPass EXCEPT !.at = a, !.turn = t]
  BY <1>1, <1>4, <1>5, PassAsks, Zenon DEF turn
<1>7. /\ t \in Turn /\ t.source = turn.source /\ t.since = turn.since
      /\ t.chains = turn.chains \ {c} /\ t.failed = turn.failed
      /\ t.posts = P /\ t.late = turn.late \cup L
  BY <1>1, <1>5 DEF Turn
<1>8. /\ socialPass' \in [at : A, todo : Todos, turn : Turn]
      /\ socialPass'.at = a /\ socialPass'.todo = socialPass.todo /\ socialPass'.turn = t
  BY <1>1, <1>6, <1>7, PassEdits
<1>9. socialPass.at = "fetch"
  BY DEF FetchPosts
<1> QED BY <1>2, <1>3, <1>7, <1>8, <1>9 DEF SocialPassing, Todos, turn

LEMMA PassMoves ==
  ASSUME SocialTypeInv, NEW a \in {"idle", "source", "fetch", "post", "mention", "error"},
         NEW t \in Turn, socialPass' = [socialPass EXCEPT !.at = a, !.turn = t]
  PROVE  /\ socialPass' \in SocialPassing(Turn)
         /\ socialPass'.at = a /\ socialPass'.todo = socialPass.todo /\ turn' = t
<1>1. /\ socialPass' \in [at : {"idle", "source", "fetch", "post", "mention", "error"},
                          todo : Todos, turn : Turn]
      /\ socialPass'.at = a /\ socialPass'.todo = socialPass.todo /\ socialPass'.turn = t
  BY PassIs, PassEdits
<1> QED BY <1>1 DEF SocialPassing, Todos, turn

LEMMA PostDoneEffect ==
  ASSUME SocialTypeInv, NEW p, NEW F \in SUBSET socialWorld.posts, socialPass' = PostDone(p, F)
  PROVE  /\ socialPass' \in SocialPassing(Turn)
         /\ socialPass'.todo = socialPass.todo
         /\ turn'.source = turn.source /\ turn'.since = turn.since
         /\ turn'.chains = turn.chains /\ turn'.failed = turn.failed \cup F
         /\ turn'.posts = turn.posts \ {p} /\ turn'.late = turn.late
         /\ socialPass'.at = IF turn'.posts = {} THEN "fetch" ELSE "post"
<1> DEFINE A == {"idle", "source", "fetch", "post", "mention", "error"}
<1>1. socialPass \in [at : A, todo : Todos, turn : Turn] /\ turn \in Turn
  BY PassIs
<1>P. PICK P \in SUBSET socialWorld.posts : P = turn.posts \ {p}
  BY <1>1 DEF Turn
<1>a. PICK a \in A : a = IF turn.posts \ {p} = {} THEN "fetch" ELSE "post"
  OBVIOUS
<1>q. PICK q \in {"none"} : q = "none"
  OBVIOUS
<1>l. PICK l \in SUBSET Mentioned : l = {}
  OBVIOUS
<1>n. PICK n \in Int : n = 0
  OBVIOUS
<1>t. PICK t : t = [turn EXCEPT !.posts = P, !.post = q, !.left = l, !.score = n,
                                !.failed = @ \cup F]
  OBVIOUS
<1>2. /\ t \in Turn /\ t.source = turn.source /\ t.since = turn.since /\ t.chains = turn.chains
      /\ t.late = turn.late /\ t.posts = P /\ t.failed = turn.failed \cup F
  BY <1>1, <1>t, <1>q DEF Turn
<1>3. socialPass' = [socialPass EXCEPT !.at = a, !.turn = t]
  <2>1. socialPass' = [socialPass EXCEPT
            !.at = IF turn.posts \ {p} = {} THEN "fetch" ELSE "post",
            !.turn = [turn EXCEPT !.posts = turn.posts \ {p}, !.post = "none", !.left = {},
                                  !.score = 0, !.failed = @ \cup F]]
    BY Zenon DEF PostDone
  <2>2. t = [turn EXCEPT !.posts = turn.posts \ {p}, !.post = "none", !.left = {},
                         !.score = 0, !.failed = @ \cup F]
    BY <1>t, <1>P, <1>q, <1>l, <1>n, Zenon
  <2> QED BY <2>1, <2>2, <1>a, Zenon
<1>4. /\ socialPass' \in SocialPassing(Turn)
      /\ socialPass'.at = a /\ socialPass'.todo = socialPass.todo /\ turn' = t
  BY <1>2, <1>3, PassMoves, Zenon
<1> QED BY <1>2, <1>4, <1>P, <1>a

LEMMA ClassifyEffect ==
  ASSUME SocialTypeInv, NEW p \in turn.posts, ClassifyPost(p), ExtractMentions(p) # {},
         SpamScore(p) \in Int
  PROVE  /\ socialPass' \in SocialPassing(Turn)
         /\ socialPass.at = "post" /\ socialPass'.at = "mention"
         /\ socialPass'.todo = socialPass.todo
         /\ turn'.source = turn.source /\ turn'.since = turn.since
         /\ turn'.chains = turn.chains /\ turn'.failed = turn.failed
         /\ turn'.posts = turn.posts /\ turn'.late = turn.late
         /\ turn'.post = p /\ turn'.left = ExtractMentions(p) /\ turn'.score = SpamScore(p)
<1> DEFINE A == {"idle", "source", "fetch", "post", "mention", "error"}
<1>1. socialPass \in [at : A, todo : Todos, turn : Turn] /\ turn \in Turn
  BY PassIs
<1>2. PICK l \in SUBSET Mentioned, n \in Int, a \in A :
        l = ExtractMentions(p) /\ n = SpamScore(p) /\ a = "mention"
  BY <1>1 DEF ExtractMentions, Mentioned, Turn
<1>3. p \in socialWorld.posts
  BY <1>1 DEF Turn
<1>4. socialPass' = [socialPass EXCEPT !.at = a, !.turn.post = p, !.turn.left = l,
                                       !.turn.score = n]
  BY <1>2, Zenon DEF ClassifyPost
<1>5. PICK t : t = [turn EXCEPT !.post = p, !.left = l, !.score = n]
  OBVIOUS
<1>6. socialPass' = [socialPass EXCEPT !.at = a, !.turn = t]
  BY <1>1, <1>4, <1>5, PassTakes, Zenon DEF turn
<1>7. /\ t \in Turn /\ t.source = turn.source /\ t.since = turn.since /\ t.chains = turn.chains
      /\ t.late = turn.late /\ t.posts = turn.posts /\ t.failed = turn.failed
      /\ t.post = p /\ t.left = l /\ t.score = n
  BY <1>1, <1>3, <1>5 DEF Turn
<1>8. /\ socialPass' \in [at : A, todo : Todos, turn : Turn]
      /\ socialPass'.at = a /\ socialPass'.todo = socialPass.todo /\ socialPass'.turn = t
  BY <1>1, <1>6, <1>7, PassEdits
<1>9. socialPass.at = "post"
  BY DEF ClassifyPost
<1> QED BY <1>2, <1>7, <1>8, <1>9 DEF SocialPassing, Todos, turn

LEMMA MentionEffect ==
  ASSUME SocialTypeInv, NEW token,
         socialPass' = [socialPass EXCEPT !.turn.left = @ \ {token}]
  PROVE  /\ socialPass' \in SocialPassing(Turn)
         /\ socialPass'.at = socialPass.at /\ socialPass'.todo = socialPass.todo
         /\ turn'.source = turn.source /\ turn'.since = turn.since
         /\ turn'.chains = turn.chains /\ turn'.failed = turn.failed
         /\ turn'.posts = turn.posts /\ turn'.late = turn.late
         /\ turn'.post = turn.post /\ turn'.left = turn.left \ {token}
         /\ turn'.score = turn.score
<1> DEFINE A == {"idle", "source", "fetch", "post", "mention", "error"}
<1>1. socialPass \in [at : A, todo : Todos, turn : Turn] /\ turn \in Turn
  BY PassIs
<1>2. PICK t : t = [turn EXCEPT !.left = @ \ {token}]
  OBVIOUS
<1>3. PICK a \in A : a = socialPass.at
  BY <1>1
<1>4. socialPass' = [socialPass EXCEPT !.at = a, !.turn = t]
  BY <1>1, <1>2, <1>3, PassLeaves, Zenon DEF turn
<1>5. /\ t \in Turn /\ t.source = turn.source /\ t.since = turn.since /\ t.chains = turn.chains
      /\ t.late = turn.late /\ t.posts = turn.posts /\ t.failed = turn.failed
      /\ t.post = turn.post /\ t.left = turn.left \ {token} /\ t.score = turn.score
  BY <1>1, <1>2 DEF Turn
<1>6. /\ socialPass' \in [at : A, todo : Todos, turn : Turn]
      /\ socialPass'.at = a /\ socialPass'.todo = socialPass.todo /\ socialPass'.turn = t
  BY <1>1, <1>4, <1>5, PassEdits
<1> QED BY <1>3, <1>5, <1>6 DEF SocialPassing, Todos, turn

\* A pass that lets go of its source.
LEMMA DoneEffect ==
  ASSUME SocialTypeInv, \/ socialPass' = SourceDone \/ socialPass' = IdleSocialPass
  PROVE  /\ socialPass' \in SocialPassing(Turn) /\ socialPass'.at \in {"idle", "source"}
         /\ DOMAIN socialPass'.todo \subseteq DOMAIN socialPass.todo
         /\ \A s \in DOMAIN socialPass'.todo : socialPass'.todo[s] = socialPass.todo[s]
<1> DEFINE A == {"idle", "source", "fetch", "post", "mention", "error"}
<1>1. socialPass \in [at : A, todo : Todos, turn : Turn]
  BY PassIs
<1>2. CASE socialPass' = SourceDone
  <2>1. PICK none \in Turn, a \in A : none = NoTurn /\ a = "source"
    BY IdleIsPass
  <2>2. socialPass' = [socialPass EXCEPT !.at = a, !.turn = none]
    BY <1>2, <2>1, Zenon DEF SourceDone
  <2>3. /\ socialPass' \in [at : A, todo : Todos, turn : Turn]
        /\ socialPass'.at = a /\ socialPass'.todo = socialPass.todo
    BY <1>1, <2>1, <2>2, PassEdits
  <2> QED BY <2>1, <2>3 DEF SocialPassing, Todos
<1>3. CASE socialPass' = IdleSocialPass
  BY <1>3, IdleIsPass
<1> QED BY <1>2, <1>3

LEMMA ThrowEffect ==
  ASSUME SocialTypeInv, socialPass' = [socialPass EXCEPT !.at = "error"]
  PROVE  /\ socialPass' \in SocialPassing(Turn) /\ socialPass'.at = "error"
         /\ socialPass'.todo = socialPass.todo /\ turn' = turn
<1> DEFINE A == {"idle", "source", "fetch", "post", "mention", "error"}
<1>1. socialPass \in [at : A, todo : Todos, turn : Turn]
  BY PassIs
<1>2. "error" \in A
  OBVIOUS
<1>3. /\ socialPass' \in [at : A, todo : Todos, turn : Turn]
      /\ socialPass'.at = "error" /\ socialPass'.todo = socialPass.todo
      /\ socialPass'.turn = socialPass.turn
  BY <1>1, <1>2, PassEdits
<1> QED BY <1>3 DEF SocialPassing, Todos, turn

-----------------------------------------------------------------------------
(* Social mentions: the score.                                             *)

HasMax(S) == \E m \in S : \A y \in S : m >= y

LEMMA OneMore ==
  ASSUME NEW S \in SUBSET Int, HasMax(S), NEW T \in SUBSET Int, NEW a \in Int, T \subseteq {a}
  PROVE  HasMax(S \cup T) /\ S \cup T \in SUBSET Int
<1>1. PICK m \in S : \A y \in S : m >= y
  BY DEF HasMax
<1>2. CASE T = {}
  BY <1>2
<1>3. CASE a \in T
  <2>1. CASE m >= a
    BY <1>1, <2>1 DEF HasMax
  <2>2. CASE ~(m >= a)
    <3>1. \A y \in S \cup T : a >= y
      BY <1>1, <2>2
    <3> QED BY <1>3, <3>1 DEF HasMax
  <2> QED BY <2>1, <2>2
<1> QED BY <1>2, <1>3

LEMMA MaxIs ==
  ASSUME NEW S \in SUBSET Int, HasMax(S)
  PROVE  Max(S) \in Int /\ \A y \in S : Max(S) >= y
  BY DEF Max, HasMax

\* The score is a number, and a wave of authors is in it.
LEMMA ClassifySpamIs ==
  ASSUME NEW authors, NEW own, NEW length
  PROVE  /\ ClassifySpam(authors, own, length) \in Int
         /\ authors >= SpamConfig.copypastaAuthorMin =>
                ClassifySpam(authors, own, length) >= SpamConfig.weights.copypasta
<1> DEFINE weights == SpamConfig.weights
           Applies(rule) ==
             CASE rule = "copypasta" -> authors >= SpamConfig.copypastaAuthorMin
               [] rule = "repeat_author" -> own >= SpamConfig.repeatAuthorMin
               [] rule = "low_content" -> length < SpamConfig.lowContentMinChars
           R == {r \in DOMAIN weights : Applies(r)}
           Of(r) == {weights[x] : x \in R \cap {r}}
           S == {0} \cup {weights[r] : r \in R}
<1>1. /\ weights \in [{"copypasta", "repeat_author", "low_content"} -> Int]
      /\ DOMAIN weights = {"copypasta", "repeat_author", "low_content"}
  BY SocialAssumption
<1>2. ClassifySpam(authors, own, length) = Max(S)
  BY Zenon DEF ClassifySpam
<1>3. authors >= SpamConfig.copypastaAuthorMin => "copypasta" \in R
  BY <1>1
<1>4. R \subseteq {"copypasta", "repeat_author", "low_content"}
  BY <1>1
<1> HIDE DEF R
<1>5. weights.copypasta = weights["copypasta"]
  OBVIOUS
<1> HIDE DEF weights
<1>6. S = (({0} \cup Of("copypasta")) \cup Of("repeat_author")) \cup Of("low_content")
  BY <1>4
<1>7. \A r \in {"copypasta", "repeat_author", "low_content"} :
        Of(r) \subseteq {weights[r]} /\ weights[r] \in Int /\ Of(r) \in SUBSET Int
  BY <1>1
<1> HIDE DEF Of
<1>8. HasMax({0}) /\ {0} \in SUBSET Int
  BY DEF HasMax
<1>a. HasMax({0} \cup Of("copypasta")) /\ {0} \cup Of("copypasta") \in SUBSET Int
  BY <1>7, <1>8, OneMore
<1>b. /\ HasMax(({0} \cup Of("copypasta")) \cup Of("repeat_author"))
      /\ ({0} \cup Of("copypasta")) \cup Of("repeat_author") \in SUBSET Int
  BY <1>7, <1>a, OneMore
<1>c. HasMax(S) /\ S \in SUBSET Int
  BY <1>6, <1>7, <1>b, OneMore
<1>d. Max(S) \in Int /\ \A y \in S : Max(S) >= y
  BY <1>c, MaxIs
<1>e. "copypasta" \in R => weights["copypasta"] \in S
  OBVIOUS
<1> HIDE DEF S
<1> QED BY <1>2, <1>3, <1>5, <1>d, <1>e DEF weights

LEMMA SpamScoreIs ==
  ASSUME NEW p
  PROVE  /\ SpamScore(p) \in Int
         /\ Cardinality(Copiers(p)) >= SpamConfig.copypastaAuthorMin =>
                SpamScore(p) >= SpamConfig.weights.copypasta
<1> DEFINE own == IF p.author = NoAuthor THEN {}
                  ELSE {m.post : m \in {n \in Recent(p) : n.author = p.author}} \cup {p.id}
<1>1. SpamScore(p) = ClassifySpam(Cardinality(Copiers(p)), Cardinality(own), p.length)
  BY Zenon DEF SpamScore, Copiers, Echoes
<1> HIDE DEF own
<1> QED BY <1>1, ClassifySpamIs

-----------------------------------------------------------------------------
(* Social mentions: types are kept.                                        *)

LEMMA RowSynced ==
  ASSUME NEW r \in SourceRow, NEW n \in Int,
         NEW e, e = [r EXCEPT !.lastSync = n, !.status = "ok", !.failCount = 0]
  PROVE  e \in SourceRow /\ e.lastSync = n
<1>1. PICK q \in {"idle", "ok", "error"} : q = "ok"
  OBVIOUS
<1>2. PICK z \in Nat : z = 0
  OBVIOUS
<1>3. e = [r EXCEPT !.lastSync = n, !.status = q, !.failCount = z]
  BY <1>1, <1>2, Zenon
<1> QED BY <1>3 DEF SourceRow

LEMMA RowFailed ==
  ASSUME NEW r \in SourceRow
  PROVE  SourceFailed(r) \in SourceRow /\ SourceFailed(r).lastSync = r.lastSync
<1>1. PICK q \in {"idle", "ok", "error"} : q = "error"
  OBVIOUS
<1>2. PICK z \in Nat : z = r.failCount + 1
  BY DEF SourceRow
<1>3. PICK e : e = [r EXCEPT !.status = q, !.failCount = z]
  OBVIOUS
<1>4. SourceFailed(r) = e
  BY <1>1, <1>2, <1>3, Zenon DEF SourceFailed
<1> QED BY <1>3, <1>4 DEF SourceRow

LEMMA RowSwitched ==
  ASSUME NEW r \in SourceRow, NEW e, e = [r EXCEPT !.enabled = ~@]
  PROVE  e \in SourceRow /\ e.lastSync = r.lastSync
  BY Zenon DEF SourceRow

LEMMA NewSourceTyped == NewSource \in SourceRow
  BY DEF NewSource, SourceRow, Never

\* The rows after a sync, a failed one and the switch.
LEMMA FinishRows ==
  ASSUME SocialRowsTyped, turn.source \in DOMAIN sourceRows, FinishSource
  PROVE  /\ sourceRows' \in [DOMAIN sourceRows -> SourceRow]
         /\ sourceRows'[turn.source].lastSync = socialTime
         /\ \A s \in DOMAIN sourceRows : s # turn.source => sourceRows'[s] = sourceRows[s]
<1> DEFINE s == turn.source
<1>1. sourceRows \in [DOMAIN sourceRows -> SourceRow] /\ socialTime \in Int /\ s \in DOMAIN sourceRows
  BY SocialAssumption DEF SocialRowsTyped
<1>2. PICK e : e = [sourceRows[s] EXCEPT !.lastSync = socialTime, !.status = "ok", !.failCount = 0]
  OBVIOUS
<1>3. e \in SourceRow /\ e.lastSync = socialTime
  BY <1>1, <1>2, RowSynced
<1>4. sourceRows' = [sourceRows EXCEPT ![s] = e]
  BY <1>2, Zenon DEF FinishSource
<1> QED BY <1>1, <1>3, <1>4

LEMMA FailRows ==
  ASSUME SocialRowsTyped, turn.source \in DOMAIN sourceRows, MarkSourceError
  PROVE  /\ sourceRows' \in [DOMAIN sourceRows -> SourceRow]
         /\ \A s \in DOMAIN sourceRows : sourceRows'[s].lastSync = sourceRows[s].lastSync
<1> DEFINE s == turn.source
<1>1. sourceRows \in [DOMAIN sourceRows -> SourceRow] /\ s \in DOMAIN sourceRows
  BY DEF SocialRowsTyped
<1>2. PICK e : e = SourceFailed(sourceRows[s])
  OBVIOUS
<1>3. e \in SourceRow /\ e.lastSync = sourceRows[s].lastSync
  BY <1>1, <1>2, RowFailed
<1>4. sourceRows' = [sourceRows EXCEPT ![s] = e]
  BY <1>2, Zenon DEF MarkSourceError
<1> QED BY <1>1, <1>3, <1>4

LEMMA PatchRows ==
  ASSUME SocialRowsTyped, NEW s, PatchSource(s)
  PROVE  /\ sourceRows' \in [DOMAIN sourceRows -> SourceRow]
         /\ \A t \in DOMAIN sourceRows : sourceRows'[t].lastSync = sourceRows[t].lastSync
<1>1. sourceRows \in [DOMAIN sourceRows -> SourceRow] /\ s \in DOMAIN sourceRows
  BY DEF SocialRowsTyped, PatchSource
<1>2. PICK e : e = [sourceRows[s] EXCEPT !.enabled = ~@]
  OBVIOUS
<1>3. e \in SourceRow /\ e.lastSync = sourceRows[s].lastSync
  BY <1>1, <1>2, RowSwitched
<1>4. sourceRows' = [sourceRows EXCEPT ![s] = e]
  BY <1>2, Zenon DEF PatchSource
<1> QED BY <1>1, <1>3, <1>4

LEMMA PostRows ==
  ASSUME SocialRowsTyped, NEW s \in SocialSources, PostSource(s)
  PROVE  /\ sourceRows' \in [DOMAIN sourceRows \cup {s} -> SourceRow]
         /\ \A t \in DOMAIN sourceRows : t # s => sourceRows'[t] = sourceRows[t]
         /\ sourceRows'[s].lastSync = Never
<1>1. NewSource.lastSync = Never
  BY DEF NewSource
<1> QED BY <1>1, NewSourceTyped DEF SocialRowsTyped, PostSource

LEMMA DeleteRows ==
  ASSUME SocialRowsTyped, NEW s, DeleteSource(s)
  PROVE  /\ sourceRows' \in [DOMAIN sourceRows \ {s} -> SourceRow]
         /\ \A t \in DOMAIN sourceRows \ {s} : sourceRows'[t] = sourceRows[t]
  BY DEF SocialRowsTyped, DeleteSource, Without

LEMMA SyncedRows ==
  ASSUME SocialTypeInv, FinishSource
  PROVE  missed' \subseteq SocialSources \X PostIds
<1>1. turn \in Turn /\ missed \subseteq SocialSources \X PostIds /\ turn.source \in SocialSources
  BY PassIs DEF SocialTypeInv, SocialRowsTyped, TurnInHand, FinishSource
<1>2. \A p \in turn.failed \cup turn.late : p.id \in PostIds
  BY <1>1 DEF Turn, PostIds
<1> QED BY <1>1, <1>2 DEF FinishSource

LEMMA UpsertMentions ==
  ASSUME SocialTypeInv, NEW token \in turn.left, UpsertMention(token),
         turn.source \in DOMAIN sourceRows
  PROVE  /\ MentionRow(turn.source, turn.post, token, turn.score) \in Mention
         /\ mentions' = {m \in mentions : ~SameMention(m, turn.source, turn.post, token)}
                          \cup {MentionRow(turn.source, turn.post, token, turn.score)}
<1>1. /\ turn \in Turn /\ turn.post \in socialWorld.posts /\ turn.source \in SocialSources
      /\ token \in Mentioned /\ socialWorld \in SocialWorlds
  BY PassIs DEF SocialTypeInv, SocialRowsTyped, TurnInHand, UpsertMention, Turn
<1>2. turn.post.ts \in Int /\ turn.score \in Int
  BY <1>1, SocialAssumption DEF Turn
<1> QED BY <1>1, <1>2 DEF UpsertMention, MentionRow, Mention, PostIds

LEMMA RowsStepTyped ==
  ASSUME SocialTypeInv, SocialNext
  PROVE  SocialRowsTyped'
<1>w. socialWorld' = socialWorld
  BY DEF SocialNext, SocialTick, StartSocialPass, PostThrows, FinishSource, SourceThrows,
     MarkSourceError, EndSocialPass, SocialPassDies, TakeSource, PostSource, PatchSource,
     DeleteSource, SourceEdit, FetchPosts, ClassifyPost, UpsertMention
<1>s. /\ SocialSources' = SocialSources /\ Mention' = Mention /\ PostIds' = PostIds
  BY <1>w, SameSocialWorld
<1>r. SocialRowsTyped
  BY DEF SocialTypeInv
<1>1. CASE SocialTick
  BY <1>1, <1>s, <1>r, SocialAssumption DEF SocialTick, SocialRowsTyped, socialBounds
<1>2. CASE UNCHANGED <<sourceRows, mentions, missed, unusedIds>> /\ socialTime' = socialTime
           /\ socialFaults' \in 0..MaxSocialFaults /\ UNCHANGED sourceEdits
  BY <1>2, <1>w, <1>s, <1>r DEF SocialRowsTyped
<1>3. CASE StartSocialPass \/ EndSocialPass
  BY <1>3, <1>2, <1>r DEF StartSocialPass, EndSocialPass, socialBounds, SocialRowsTyped
<1>4. CASE PostThrows \/ SourceThrows \/ SocialPassDies
  <2>1. socialFaults' \in 0..MaxSocialFaults
    BY <1>4, <1>r, SocialAssumption
       DEF PostThrows, SourceThrows, SocialPassDies, SocialFault, SocialRowsTyped
  <2> QED BY <2>1, <1>4, <1>2 DEF PostThrows, SourceThrows, SocialPassDies
<1>5. CASE \/ \E s \in SocialSources : TakeSource(s)
           \/ \E c \in turn.chains : FetchPosts(c)
           \/ \E p \in turn.posts : ClassifyPost(p)
  BY <1>5, <1>2, <1>r DEF TakeSource, FetchPosts, ClassifyPost, socialBounds, SocialRowsTyped
<1>6. CASE FinishSource
  <2>1. missed' \subseteq SocialSources \X PostIds
    BY <1>6, SyncedRows
  <2>2. CASE turn.source \in DOMAIN sourceRows
    <3>1. sourceRows' \in [DOMAIN sourceRows -> SourceRow]
      BY <1>6, <1>r, <2>2, FinishRows
    <3> QED BY <1>6, <1>w, <1>s, <1>r, <2>1, <3>1
            DEF FinishSource, SocialRowsTyped, socialBounds
  <2>3. CASE turn.source \notin DOMAIN sourceRows
    BY <1>6, <2>3, <1>2, <1>r DEF FinishSource, socialBounds, SocialRowsTyped
  <2> QED BY <2>2, <2>3
<1>7. CASE MarkSourceError
  <2>2. CASE turn.source \in DOMAIN sourceRows
    <3>1. sourceRows' \in [DOMAIN sourceRows -> SourceRow]
      BY <1>7, <1>r, <2>2, FailRows
    <3> QED BY <1>7, <1>w, <1>s, <1>r, <3>1 DEF MarkSourceError, SocialRowsTyped, socialBounds
  <2>3. CASE turn.source \notin DOMAIN sourceRows
    BY <1>7, <2>3, <1>2, <1>r DEF MarkSourceError, socialBounds, SocialRowsTyped
  <2> QED BY <2>2, <2>3
<1>8. ASSUME NEW token \in turn.left, UpsertMention(token) PROVE SocialRowsTyped'
  <2>2. CASE turn.source \in DOMAIN sourceRows
    BY <1>8, <1>w, <1>s, <1>r, <2>2, UpsertMentions
       DEF UpsertMention, SocialRowsTyped, socialBounds
  <2>3. CASE turn.source \notin DOMAIN sourceRows
    BY <1>8, <2>3, <1>2, <1>r DEF UpsertMention, socialBounds, SocialRowsTyped
  <2> QED BY <2>2, <2>3
<1>9. ASSUME NEW s \in SocialSources, PostSource(s) \/ PatchSource(s) \/ DeleteSource(s)
      PROVE  SocialRowsTyped'
  <2>1. /\ sourceEdits' \in 0..MaxSourceEdits /\ socialFaults' = socialFaults
        /\ socialTime' = socialTime /\ missed' = missed
    BY <1>9, <1>r, SocialAssumption
       DEF PostSource, PatchSource, DeleteSource, SourceEdit, SocialRowsTyped
  <2>2. CASE PostSource(s)
    <3>1. sourceRows' \in [DOMAIN sourceRows \cup {s} -> SourceRow]
      BY <1>r, <2>2, PostRows
    <3> QED BY <1>w, <1>s, <1>r, <2>1, <2>2, <3>1 DEF PostSource, SocialRowsTyped
  <2>3. CASE PatchSource(s)
    <3>1. sourceRows' \in [DOMAIN sourceRows -> SourceRow]
      BY <1>r, <2>3, PatchRows
    <3> QED BY <1>w, <1>s, <1>r, <2>1, <2>3, <3>1 DEF PatchSource, SocialRowsTyped
  <2>4. CASE DeleteSource(s)
    <3>1. sourceRows' \in [DOMAIN sourceRows \ {s} -> SourceRow]
      BY <1>r, <2>4, DeleteRows
    <3> QED BY <1>w, <1>s, <1>r, <2>1, <2>4, <3>1 DEF DeleteSource, SocialRowsTyped
  <2> QED BY <1>9, <2>2, <2>3, <2>4
<1> QED BY <1>1, <1>3, <1>4, <1>5, <1>6, <1>7, <1>8, <1>9 DEF SocialNext, SocialSources

LEMMA PassKeptTyped ==
  ASSUME SocialTypeInv, UNCHANGED <<socialWorld, socialPass>>
  PROVE  SocialPassTyped' /\ TurnInHand' /\ turn' = turn
<1>1. turn' = turn
  BY DEF turn
<1> QED BY <1>1, SameSocialWorld DEF SocialTypeInv, SocialPassTyped, TurnInHand, ExtractMentions

LEMMA PostDoneTyped ==
  ASSUME SocialTypeInv, socialPass.at \in {"post", "mention"}, UNCHANGED socialWorld,
         NEW p, NEW F \in SUBSET socialWorld.posts, socialPass' = PostDone(p, F)
  PROVE  SocialPassTyped' /\ TurnInHand'
<1>1. /\ socialPass' \in SocialPassing(Turn) /\ turn'.source = turn.source
      /\ socialPass'.at = IF turn'.posts = {} THEN "fetch" ELSE "post"
  BY PostDoneEffect
<1>2. turn.source \in SocialSources
  BY DEF SocialTypeInv, TurnInHand
<1> QED BY <1>1, <1>2, SameSocialWorld DEF SocialPassTyped, TurnInHand

LEMMA PassStepTyped ==
  ASSUME SocialTypeInv, SocialNext
  PROVE  SocialPassTyped' /\ TurnInHand'
<1>w. socialWorld' = socialWorld
  BY DEF SocialNext, SocialTick, StartSocialPass, PostThrows, FinishSource, SourceThrows,
     MarkSourceError, EndSocialPass, SocialPassDies, TakeSource, PostSource, PatchSource,
     DeleteSource, SourceEdit, FetchPosts, ClassifyPost, UpsertMention
<1>s. SocialSources' = SocialSources /\ SocialPassing(Turn)' = SocialPassing(Turn)
  BY <1>w, SameSocialWorld
<1>t. /\ TurnInHand /\ turn \in Turn
  BY PassIs DEF SocialTypeInv
<1>1. CASE SocialTick \/ \E s \in SocialSources : PostSource(s) \/ PatchSource(s) \/ DeleteSource(s)
  BY <1>1, <1>w, PassKeptTyped DEF SocialTick, PostSource, PatchSource, DeleteSource, SourceEdit
<1>2. CASE StartSocialPass
  BY <1>2, <1>s, StartEffect DEF SocialPassTyped, TurnInHand
<1>3. ASSUME NEW s \in SocialSources, TakeSource(s) PROVE SocialPassTyped' /\ TurnInHand'
  BY <1>3, <1>s, TakeEffect DEF SocialPassTyped, TurnInHand
<1>4. ASSUME NEW c \in turn.chains, FetchPosts(c) PROVE SocialPassTyped' /\ TurnInHand'
  BY <1>4, <1>s, <1>t, FetchEffect DEF SocialPassTyped, TurnInHand
<1>5. ASSUME NEW p \in turn.posts, ClassifyPost(p) PROVE SocialPassTyped' /\ TurnInHand'
  <2>1. CASE ExtractMentions(p) = {}
    <3>1. socialPass' = PostDone(p, {}) /\ socialPass.at = "post"
      BY <1>5, <2>1 DEF ClassifyPost
    <3> QED BY <3>1, <1>w, PostDoneTyped
  <2>2. CASE ExtractMentions(p) # {}
    <3>1. /\ socialPass' \in SocialPassing(Turn)
          /\ socialPass.at = "post" /\ socialPass'.at = "mention"
          /\ turn'.source = turn.source /\ turn'.posts = turn.posts
          /\ turn'.post = p /\ turn'.left = ExtractMentions(p)
      BY <1>5, <2>2, SpamScoreIs, ClassifyEffect
    <3>2. \A q : ExtractMentions(q)' = ExtractMentions(q)
      BY DEF ExtractMentions
    <3>3. ExtractMentions(turn.post)' = ExtractMentions(p)
      BY <3>1 DEF ExtractMentions
    <3> QED BY <1>5, <1>s, <1>t, <2>2, <3>1, <3>3 DEF SocialPassTyped, TurnInHand
  <2> QED BY <2>1, <2>2
<1>6. ASSUME NEW token \in turn.left, UpsertMention(token) PROVE SocialPassTyped' /\ TurnInHand'
  <2>0. socialPass.at = "mention" /\ turn.post \in turn.posts
    BY <1>6, <1>t DEF UpsertMention, TurnInHand
  <2>1. {turn.post} \in SUBSET socialWorld.posts /\ {} \in SUBSET socialWorld.posts
    BY <2>0, <1>t DEF Turn
  <2>2. CASE socialPass' = PostDone(turn.post, {}) \/ socialPass' = PostDone(turn.post, {turn.post})
    BY <2>0, <2>1, <2>2, <1>w, PostDoneTyped
  <2>3. CASE /\ socialPass' = [socialPass EXCEPT !.turn.left = @ \ {token}]
             /\ turn.left # {token}
    <3>1. /\ socialPass' \in SocialPassing(Turn) /\ socialPass'.at = "mention"
          /\ turn'.source = turn.source /\ turn'.posts = turn.posts
          /\ turn'.post = turn.post /\ turn'.left = turn.left \ {token}
      BY <2>0, <2>3, MentionEffect
    <3>2. ExtractMentions(turn.post)' = ExtractMentions(turn.post)
      BY <3>1 DEF ExtractMentions
    <3>3. turn.left \ {token} # {}
      BY <1>6, <2>3
    <3> QED BY <1>s, <1>t, <2>0, <3>1, <3>2, <3>3 DEF SocialPassTyped, TurnInHand
  <2> QED BY <1>6, <2>2, <2>3 DEF UpsertMention
<1>7. CASE PostThrows
  <2>1. /\ socialPass.at = "mention" /\ {turn.post} \in SUBSET socialWorld.posts
        /\ socialPass' = PostDone(turn.post, {turn.post})
    BY <1>7, <1>t DEF PostThrows, TurnInHand, Turn
  <2> QED BY <2>1, <1>w, PostDoneTyped
<1>8. CASE socialPass' = SourceDone \/ socialPass' = IdleSocialPass
  BY <1>8, <1>s, DoneEffect DEF SocialPassTyped, TurnInHand
<1>9. CASE socialPass.at = "fetch" /\ socialPass' = [socialPass EXCEPT !.at = "error"]
  BY <1>9, <1>s, <1>t, ThrowEffect DEF SocialPassTyped, TurnInHand
<1>a. CASE FinishSource \/ MarkSourceError \/ EndSocialPass \/ SocialPassDies \/ SourceThrows
  BY <1>a, <1>8, <1>9 DEF FinishSource, MarkSourceError, EndSocialPass, SocialPassDies, SourceThrows
<1> QED BY <1>1, <1>2, <1>3, <1>4, <1>5, <1>6, <1>7, <1>a DEF SocialNext, SocialSources

LEMMA SocialTypeStep ==
  ASSUME SocialTypeInv, [SocialNext]_socialVars
  PROVE  SocialTypeInv'
<1>1. CASE SocialNext
  BY <1>1, RowsStepTyped, PassStepTyped DEF SocialTypeInv
<1>2. CASE UNCHANGED socialVars
  <2>1. SocialPassTyped' /\ TurnInHand'
    BY <1>2, PassKeptTyped DEF socialVars
  <2>2. Mention' = Mention /\ SocialSources' = SocialSources /\ PostIds' = PostIds
    BY <1>2, SameSocialWorld DEF socialVars
  <2>3. SocialRowsTyped'
    BY <1>2, <2>2 DEF socialVars, socialBounds, SocialTypeInv, SocialRowsTyped
  <2> QED BY <2>1, <2>3 DEF SocialTypeInv
<1> QED BY <1>1, <1>2

-----------------------------------------------------------------------------
(* Social mentions: the snapshot.                                          *)

\* The pass goes on with the source it has, or lets go of it.
Onward ==
    /\ DOMAIN socialPass'.todo \subseteq DOMAIN socialPass.todo
    /\ \A s \in DOMAIN socialPass'.todo : socialPass'.todo[s] = socialPass.todo[s]
    /\ Polling' => Polling /\ turn'.source = turn.source /\ turn'.since = turn.since

LEMMA OnwardStep ==
  ASSUME SocialTypeInv, SocialNext
  PROVE  \/ Onward
         \/ StartSocialPass
         \/ \E s \in SocialSources : TakeSource(s)
<1>t. /\ TurnInHand /\ turn \in Turn
  BY PassIs DEF SocialTypeInv
<1>1. CASE UNCHANGED socialPass
  BY <1>1 DEF Onward, Polling, turn
<1>2. ASSUME NEW p, NEW F \in SUBSET socialWorld.posts, socialPass' = PostDone(p, F), Polling
      PROVE  Onward
  BY <1>2, PostDoneEffect DEF Onward, Polling
<1>3. CASE SocialTick \/ \E s \in SocialSources : PostSource(s) \/ PatchSource(s) \/ DeleteSource(s)
  BY <1>1, <1>3 DEF SocialTick, PostSource, PatchSource, DeleteSource, SourceEdit
<1>4. ASSUME NEW c \in turn.chains, FetchPosts(c) PROVE Onward
  BY <1>4, FetchEffect DEF Onward, Polling
<1>5. ASSUME NEW p \in turn.posts, ClassifyPost(p) PROVE Onward
  <2>1. CASE ExtractMentions(p) = {}
    <3>1. socialPass' = PostDone(p, {}) /\ Polling
      BY <1>5, <2>1 DEF ClassifyPost, Polling
    <3> QED BY <1>2, <3>1
  <2>2. CASE ExtractMentions(p) # {}
    BY <1>5, <2>2, SpamScoreIs, ClassifyEffect DEF Onward, Polling
  <2> QED BY <2>1, <2>2
<1>6. ASSUME NEW token \in turn.left, UpsertMention(token) PROVE Onward
  <2>0. socialPass.at = "mention" /\ turn.post \in turn.posts /\ Polling
    BY <1>6, <1>t DEF UpsertMention, TurnInHand, Polling
  <2>1. {turn.post} \in SUBSET socialWorld.posts /\ {} \in SUBSET socialWorld.posts
    BY <2>0, <1>t DEF Turn
  <2>2. CASE socialPass' = PostDone(turn.post, {}) \/ socialPass' = PostDone(turn.post, {turn.post})
    BY <2>0, <2>1, <2>2, <1>2
  <2>3. CASE socialPass' = [socialPass EXCEPT !.turn.left = @ \ {token}]
    BY <2>0, <2>3, MentionEffect DEF Onward, Polling
  <2> QED BY <1>6, <2>2, <2>3 DEF UpsertMention
<1>7. CASE PostThrows
  <2>1. /\ Polling /\ {turn.post} \in SUBSET socialWorld.posts
        /\ socialPass' = PostDone(turn.post, {turn.post})
    BY <1>7, <1>t DEF PostThrows, TurnInHand, Turn, Polling
  <2> QED BY <2>1, <1>2
<1>8. CASE socialPass' = SourceDone \/ socialPass' = IdleSocialPass
  BY <1>8, DoneEffect DEF Onward, Polling
<1>9. CASE socialPass.at = "fetch" /\ socialPass' = [socialPass EXCEPT !.at = "error"]
  BY <1>9, ThrowEffect DEF Onward, Polling
<1>a. CASE FinishSource \/ MarkSourceError \/ EndSocialPass \/ SocialPassDies \/ SourceThrows
  BY <1>a, <1>8, <1>9 DEF FinishSource, MarkSourceError, EndSocialPass, SocialPassDies, SourceThrows
<1> QED BY <1>3, <1>4, <1>5, <1>6, <1>7, <1>a DEF SocialNext, SocialSources

\* The rows and the ids a step that is not of the route leaves.
LEMMA RowsOfPass ==
  ASSUME SocialTypeInv, SocialNext,
         ~\E s \in SocialSources : PostSource(s) \/ PatchSource(s) \/ DeleteSource(s)
  PROVE  /\ unusedIds' = unusedIds
         /\ \/ sourceRows' = sourceRows
            \/ FinishSource /\ turn.source \in DOMAIN sourceRows
            \/ MarkSourceError /\ turn.source \in DOMAIN sourceRows
BY DEF SocialNext, SocialSources, SocialTick, StartSocialPass, PostThrows, FinishSource,
     SourceThrows, MarkSourceError, EndSocialPass, SocialPassDies, TakeSource, FetchPosts,
     ClassifyPost, UpsertMention, socialBounds

LEMMA SnapshotFrame ==
  ASSUME SnapshotHolds, Onward, unusedIds' = unusedIds, DOMAIN sourceRows' = DOMAIN sourceRows,
         \A s \in DOMAIN sourceRows : sourceRows'[s].lastSync = sourceRows[s].lastSync
  PROVE  SnapshotHolds'
  BY DEF SnapshotHolds, Onward

LEMMA SnapshotStep ==
  ASSUME SocialTypeInv, SnapshotHolds, SocialNext
  PROVE  SnapshotHolds'
<1>r. SocialRowsTyped
  BY DEF SocialTypeInv
<1>1. CASE StartSocialPass
  <2>1. sourceRows' = sourceRows /\ unusedIds' = unusedIds
    BY <1>1 DEF StartSocialPass, socialBounds
  <2>2. ~Polling'
    BY <1>1, StartEffect DEF Polling
  <2> QED BY <1>1, <2>1, <2>2, StartEffect DEF SnapshotHolds
<1>2. ASSUME NEW s \in SocialSources, TakeSource(s) PROVE SnapshotHolds'
  <2>1. sourceRows' = sourceRows /\ unusedIds' = unusedIds
    BY <1>2 DEF TakeSource, socialBounds
  <2>2. CASE socialPass'.at = "source"
    BY <1>2, <2>1, <2>2, TakeEffect DEF SnapshotHolds, Polling
  <2>3. CASE turn'.source = s /\ turn'.since = socialPass.todo[s]
    BY <1>2, <2>1, <2>3, TakeEffect DEF SnapshotHolds, Polling
  <2> QED BY <1>2, <2>2, <2>3, TakeEffect
<1>3. ASSUME Onward, NEW s \in SocialSources, PostSource(s) \/ PatchSource(s) \/ DeleteSource(s)
      PROVE  SnapshotHolds'
  <2>2. CASE PostSource(s)
    <3>1. s \in unusedIds /\ unusedIds' = unusedIds \ {s}
      BY <2>2 DEF PostSource
    <3>2. /\ DOMAIN sourceRows' = DOMAIN sourceRows \cup {s}
          /\ \A t \in DOMAIN sourceRows : t # s => sourceRows'[t] = sourceRows[t]
      BY <1>r, <2>2, PostRows
    <3> QED BY <1>3, <3>1, <3>2 DEF SnapshotHolds, Onward
  <2>3. CASE PatchSource(s)
    <3>1. unusedIds' = unusedIds /\ DOMAIN sourceRows' = DOMAIN sourceRows
      BY <2>3, <1>r, PatchRows DEF PatchSource
    <3> QED BY <1>3, <1>r, <2>3, <3>1, PatchRows, SnapshotFrame
  <2>4. CASE DeleteSource(s)
    <3>1. unusedIds' = unusedIds
      BY <2>4 DEF DeleteSource
    <3>2. /\ DOMAIN sourceRows' = DOMAIN sourceRows \ {s}
          /\ \A t \in DOMAIN sourceRows' : sourceRows'[t] = sourceRows[t]
      BY <1>r, <2>4, DeleteRows
    <3> QED BY <1>3, <3>1, <3>2 DEF SnapshotHolds, Onward
  <2> QED BY <1>3, <2>2, <2>3, <2>4
<1>4. ASSUME Onward,
             ~\E s \in SocialSources : PostSource(s) \/ PatchSource(s) \/ DeleteSource(s)
      PROVE  SnapshotHolds'
  <2>1. unusedIds' = unusedIds
    BY <1>4, RowsOfPass
  <2>2. CASE sourceRows' = sourceRows
    BY <1>4, <2>1, <2>2, SnapshotFrame
  <2>3. CASE FinishSource /\ turn.source \in DOMAIN sourceRows
    <3>1. /\ DOMAIN sourceRows' = DOMAIN sourceRows
          /\ \A s \in DOMAIN sourceRows : s # turn.source => sourceRows'[s] = sourceRows[s]
      BY <1>r, <2>3, FinishRows
    <3>2. socialPass' = SourceDone /\ Polling
      BY <2>3 DEF FinishSource, Polling
    <3>3. ~Polling'
      BY <3>2, DoneEffect DEF Polling
    <3> QED BY <1>4, <2>1, <3>1, <3>2, <3>3 DEF SnapshotHolds, Onward
  <2>4. CASE MarkSourceError /\ turn.source \in DOMAIN sourceRows
    <3>1. /\ DOMAIN sourceRows' = DOMAIN sourceRows
          /\ \A s \in DOMAIN sourceRows : sourceRows'[s].lastSync = sourceRows[s].lastSync
      BY <1>r, <2>4, FailRows
    <3> QED BY <1>4, <2>1, <3>1, SnapshotFrame
  <2> QED BY <1>4, <2>2, <2>3, <2>4, RowsOfPass
<1> QED BY <1>1, <1>2, <1>3, <1>4, OnwardStep

-----------------------------------------------------------------------------
(* Social mentions: what is heard is kept.                                 *)

LEMMA SameWorldStep ==
  ASSUME SocialNext
  PROVE  socialWorld' = socialWorld /\ (missed' = missed \/ FinishSource)
  BY DEF SocialNext, SocialTick, StartSocialPass, PostThrows, FinishSource, SourceThrows,
     MarkSourceError, EndSocialPass, SocialPassDies, TakeSource, PostSource, PatchSource,
     DeleteSource, SourceEdit, FetchPosts, ClassifyPost, UpsertMention

LEMMA MentionsStep ==
  ASSUME SocialNext
  PROVE  \/ mentions' = mentions
         \/ \E token \in turn.left : UpsertMention(token) /\ turn.source \in DOMAIN sourceRows
         \/ \E s \in SocialSources : DeleteSource(s)
  BY DEF SocialNext, SocialSources, SocialTick, StartSocialPass, PostThrows, FinishSource,
     SourceThrows, MarkSourceError, EndSocialPass, SocialPassDies, TakeSource, PostSource,
     PatchSource, SourceEdit, FetchPosts, ClassifyPost, UpsertMention

\* A mention is replaced by one of the same source, post and token, and goes only with its source.
LEMMA MentionsKept ==
  ASSUME SocialTypeInv, SocialNext, NEW s \in DOMAIN sourceRows'
  PROVE  \A p, token : (\E m \in mentions : SameMention(m, s, p, token)) =>
             \E m \in mentions' : SameMention(m, s, p, token)
<1>1. CASE mentions' = mentions
  BY <1>1
<1>2. ASSUME NEW t \in turn.left, UpsertMention(t), turn.source \in DOMAIN sourceRows,
             NEW p, NEW token, NEW m \in mentions, SameMention(m, s, p, token)
      PROVE  \E n \in mentions' : SameMention(n, s, p, token)
  <2> DEFINE row == MentionRow(turn.source, turn.post, t, turn.score)
  <2>1. mentions' = {n \in mentions : ~SameMention(n, turn.source, turn.post, t)} \cup {row}
    BY <1>2, UpsertMentions
  <2>2. CASE ~SameMention(m, turn.source, turn.post, t)
    BY <1>2, <2>1, <2>2
  <2>3. CASE SameMention(m, turn.source, turn.post, t)
    <3>1. turn.source = s /\ turn.post.id = p.id /\ t = token
      BY <1>2, <2>3 DEF SameMention
    <3>2. SameMention(row, s, p, token)
      BY <3>1 DEF SameMention, MentionRow
    <3> QED BY <2>1, <3>2
  <2> QED BY <2>2, <2>3
<1>3. ASSUME NEW t \in SocialSources, DeleteSource(t), NEW p, NEW token, NEW m \in mentions,
             SameMention(m, s, p, token)
      PROVE  \E n \in mentions' : SameMention(n, s, p, token)
  <2>1. s # t
    BY <1>3, DeleteRows DEF SocialTypeInv
  <2>2. m.source # t
    BY <1>3, <2>1 DEF SameMention
  <2> QED BY <1>3, <2>2 DEF DeleteSource
<1> QED BY <1>1, <1>2, <1>3, MentionsStep

LEMMA StoredKept ==
  ASSUME SocialTypeInv, SocialNext, NEW s \in DOMAIN sourceRows', NEW p, Listed(mentions, s, p)
  PROVE  Listed(mentions', s, p)
<1>1. \A token \in ExtractMentions(p) : \E m \in mentions : SameMention(m, s, p, token)
  BY DEF Listed
<1> QED BY <1>1, MentionsKept DEF Listed, ExtractMentions

\* A source that is there after the step was there before it, but for one the route adds.
LEMMA RowsStep ==
  ASSUME SocialTypeInv, SocialNext, NEW s \in DOMAIN sourceRows', s \notin unusedIds
  PROVE  s \in DOMAIN sourceRows
<1>r. SocialRowsTyped
  BY DEF SocialTypeInv
<1>1. CASE \E t \in SocialSources : PostSource(t) \/ PatchSource(t) \/ DeleteSource(t)
  <2>1. PICK t \in SocialSources : PostSource(t) \/ PatchSource(t) \/ DeleteSource(t)
    BY <1>1
  <2>2. CASE PostSource(t)
    <3>1. t \in unusedIds /\ DOMAIN sourceRows' = DOMAIN sourceRows \cup {t}
      BY <1>r, <2>2, PostRows DEF PostSource
    <3> QED BY <3>1
  <2>3. CASE PatchSource(t)
    BY <1>r, <2>3, PatchRows
  <2>4. CASE DeleteSource(t)
    BY <1>r, <2>4, DeleteRows
  <2> QED BY <2>1, <2>2, <2>3, <2>4
<1>2. CASE ~\E t \in SocialSources : PostSource(t) \/ PatchSource(t) \/ DeleteSource(t)
  <2>1. CASE FinishSource /\ turn.source \in DOMAIN sourceRows
    BY <1>r, <2>1, FinishRows
  <2>2. CASE MarkSourceError /\ turn.source \in DOMAIN sourceRows
    BY <1>r, <2>2, FailRows
  <2> QED BY <1>2, <2>1, <2>2, RowsOfPass
<1> QED BY <1>1, <1>2

\* As long as the turn goes on, no post of it is dropped.
LEMMA TurnFrame ==
  ASSUME SocialTypeInv, SnapshotHolds, TurnHeard, SocialNext, Polling,
         turn'.source = turn.source, turn'.since = turn.since, turn'.chains = turn.chains,
         turn.late \subseteq turn'.late, turn.failed \subseteq turn'.failed,
         \A p \in turn.posts : turn.source \in DOMAIN sourceRows' =>
             p \in turn'.posts \/ p \in turn'.failed \/ Listed(mentions', turn.source, p)
  PROVE  TurnHeard'
<1> SUFFICES ASSUME turn.source \in DOMAIN sourceRows',
                    NEW c \in socialWorld.sources[turn.source].chains \ turn.chains,
                    NEW p \in PostsOffered(turn.source, c), turn.since < p.ts
             PROVE  \/ p \in turn'.posts \/ p \in turn'.late \/ p \in turn'.failed
                    \/ Listed(mentions', turn.source, p)
  <2>1. socialWorld' = socialWorld
    BY SameWorldStep
  <2>2. TurnHeard' = (Polling' /\ turn'.source \in DOMAIN sourceRows' =>
          \A c \in socialWorld.sources[turn.source].chains \ turn.chains :
            \A p \in PostsOffered(turn.source, c) :
              turn.since < p.ts =>
                 \/ p \in turn'.posts \/ p \in turn'.late \/ p \in turn'.failed
                 \/ Listed(mentions', turn.source, p))
    BY <2>1 DEF TurnHeard, PostsOffered, Listed, ExtractMentions
  <2> QED BY <2>2
<1>1. turn.source \in DOMAIN sourceRows
  BY RowsStep DEF SnapshotHolds
<1>2. p \in turn.posts \/ p \in turn.late \/ p \in turn.failed \/ Listed(mentions, turn.source, p)
  BY <1>1 DEF TurnHeard
<1>3. Listed(mentions, turn.source, p) => Listed(mentions', turn.source, p)
  BY StoredKept
<1> QED BY <1>2, <1>3

LEMMA IdleTurn ==
  ASSUME ~Polling'
  PROVE  TurnHeard' /\ PostHeard'
  BY DEF TurnHeard, PostHeard, Polling

\* The post at hand is dealt with: it has failed, or all of it is stored.
LEMMA PostDoneHeard ==
  ASSUME SocialTypeInv, SnapshotHolds, TurnHeard, SocialNext, Polling, NEW p,
         NEW F \in SUBSET socialWorld.posts, socialPass' = PostDone(p, F),
         turn.source \in DOMAIN sourceRows' => p \in F \/ Listed(mentions', turn.source, p)
  PROVE  TurnHeard' /\ PostHeard'
<1>1. /\ turn'.source = turn.source /\ turn'.since = turn.since
      /\ turn'.chains = turn.chains /\ turn'.failed = turn.failed \cup F
      /\ turn'.posts = turn.posts \ {p} /\ turn'.late = turn.late
      /\ socialPass'.at # "mention"
  BY PostDoneEffect
<1>2. TurnHeard'
  BY <1>1, TurnFrame
<1>3. PostHeard'
  BY <1>1 DEF PostHeard
<1> QED BY <1>2, <1>3

LEMMA TurnStep ==
  ASSUME SocialTypeInv, SnapshotHolds, TurnHeard, PostHeard, SocialNext
  PROVE  TurnHeard' /\ PostHeard'
<1>t. /\ TurnInHand /\ turn \in Turn
  BY PassIs DEF SocialTypeInv
<1>w. socialWorld' = socialWorld
  BY SameWorldStep
\* Neither the pass nor the row of its source changes.
<1>1. CASE UNCHANGED socialPass
  <2>1. CASE Polling
    <3>1. turn' = turn /\ Polling' = Polling
      BY <1>1 DEF turn, Polling
    <3>2. TurnHeard'
      BY <2>1, <3>1, TurnFrame
    <3>3. PostHeard'
      <4> SUFFICES ASSUME socialPass.at = "mention", turn.source \in DOMAIN sourceRows',
                          NEW token \in ExtractMentions(turn.post) \ turn.left
                   PROVE  \E m \in mentions' : SameMention(m, turn.source, turn.post, token)
        BY <1>1, <3>1 DEF PostHeard, ExtractMentions
      <4>1. turn.source \in DOMAIN sourceRows
        BY <2>1, RowsStep DEF SnapshotHolds
      <4>2. \E m \in mentions : SameMention(m, turn.source, turn.post, token)
        BY <4>1 DEF PostHeard
      <4> QED BY <4>2, MentionsKept
    <3> QED BY <3>2, <3>3
  <2>2. CASE ~Polling
    BY <1>1, <2>2, IdleTurn DEF Polling
  <2> QED BY <2>1, <2>2
<1>2. CASE SocialTick \/ \E s \in SocialSources : PostSource(s) \/ PatchSource(s) \/ DeleteSource(s)
  BY <1>1, <1>2 DEF SocialTick, PostSource, PatchSource, DeleteSource, SourceEdit
<1>3. CASE StartSocialPass
  BY <1>3, StartEffect, IdleTurn DEF Polling
<1>4. ASSUME NEW s \in SocialSources, TakeSource(s) PROVE TurnHeard' /\ PostHeard'
  <2>1. CASE socialPass'.at = "source"
    BY <2>1, IdleTurn DEF Polling
  <2>2. CASE /\ socialPass'.at = "fetch" /\ turn'.source = s
             /\ turn'.chains = socialWorld.sources[s].chains
    BY <1>w, <2>2 DEF TurnHeard, PostHeard
  <2> QED BY <1>4, <2>1, <2>2, TakeEffect
<1>5. ASSUME NEW c \in turn.chains, FetchPosts(c) PROVE TurnHeard' /\ PostHeard'
  <2>e. /\ socialPass.at = "fetch"
        /\ turn'.source = turn.source /\ turn'.since = turn.since
        /\ turn'.chains = turn.chains \ {c} /\ turn'.failed = turn.failed
        /\ turn'.posts = {p \in PostsOffered(turn.source, c) :
                              turn.since < p.ts /\ p.ts <= socialTime}
        /\ turn'.late = turn.late \cup {p \in PostsOffered(turn.source, c) : p.ts > socialTime}
        /\ socialPass'.at # "mention"
    BY <1>5, FetchEffect
  <2>p. Polling /\ turn.posts = {} /\ mentions' = mentions /\ sourceRows' = sourceRows
    BY <1>5, <1>t, <2>e DEF Polling, TurnInHand, FetchPosts, socialBounds
  <2>1. ASSUME turn.source \in DOMAIN sourceRows,
               NEW b \in socialWorld.sources[turn.source].chains \ turn'.chains,
               NEW p \in PostsOffered(turn.source, b), turn.since < p.ts
        PROVE  \/ p \in turn'.posts \/ p \in turn'.late \/ p \in turn'.failed
               \/ Listed(mentions, turn.source, p)
    <3>1. CASE b = c
      <4>1. p.ts \in Int /\ socialTime \in Int
        BY <2>1, SocialAssumption DEF PostsOffered, SocialTypeInv, SocialRowsTyped
      <4> QED BY <2>1, <2>e, <3>1, <4>1
    <3>2. CASE b # c
      <4>1. b \in socialWorld.sources[turn.source].chains \ turn.chains
        BY <2>1, <2>e, <3>2
      <4>2. p \in turn.posts \/ p \in turn.late \/ p \in turn.failed \/ Listed(mentions, turn.source, p)
        BY <2>1, <2>p, <4>1 DEF TurnHeard
      <4> QED BY <2>e, <2>p, <4>2
    <3> QED BY <3>1, <3>2
  <2>2. TurnHeard'
    BY <1>w, <2>1, <2>e, <2>p DEF TurnHeard, PostsOffered, Listed, ExtractMentions
  <2>3. PostHeard'
    BY <2>e DEF PostHeard
  <2> QED BY <2>2, <2>3
<1>6. ASSUME NEW p \in turn.posts, ClassifyPost(p) PROVE TurnHeard' /\ PostHeard'
  <2>1. CASE ExtractMentions(p) = {}
    <3>1. socialPass' = PostDone(p, {}) /\ Polling
      BY <1>6, <2>1 DEF ClassifyPost, Polling
    <3>2. Listed(mentions', turn.source, p)
      BY <2>1 DEF Listed, ExtractMentions
    <3> QED BY <3>1, <3>2, PostDoneHeard
  <2>2. CASE ExtractMentions(p) # {}
    <3>1. /\ Polling /\ turn'.source = turn.source /\ turn'.since = turn.since
          /\ turn'.chains = turn.chains /\ turn'.failed = turn.failed
          /\ turn'.posts = turn.posts /\ turn'.late = turn.late
          /\ turn'.post = p /\ turn'.left = ExtractMentions(p)
      BY <1>6, <2>2, SpamScoreIs, ClassifyEffect DEF Polling
    <3>2. TurnHeard'
      BY <3>1, TurnFrame
    <3>3. PostHeard'
      BY <3>1 DEF PostHeard, ExtractMentions
    <3> QED BY <3>2, <3>3
  <2> QED BY <2>1, <2>2
<1>7. ASSUME NEW token \in turn.left, UpsertMention(token) PROVE TurnHeard' /\ PostHeard'
  <2>0. /\ socialPass.at = "mention" /\ turn.post \in turn.posts /\ Polling
        /\ {turn.post} \in SUBSET socialWorld.posts /\ {} \in SUBSET socialWorld.posts
    BY <1>7, <1>t DEF UpsertMention, TurnInHand, Polling, Turn
  <2>1. CASE turn.source \notin DOMAIN sourceRows
    <3>1. /\ socialPass' = PostDone(turn.post, {turn.post})
          /\ turn.source \notin DOMAIN sourceRows'
      BY <1>7, <2>1 DEF UpsertMention
    <3> QED BY <2>0, <3>1, PostDoneHeard
  <2>2. CASE turn.source \in DOMAIN sourceRows
    <3>1. \A t \in ExtractMentions(turn.post) \ turn.left :
              \E m \in mentions : SameMention(m, turn.source, turn.post, t)
      BY <2>0, <2>2 DEF PostHeard
    <3>2. sourceRows' = sourceRows
      BY <1>7 DEF UpsertMention
    <3>3. \E m \in mentions' : SameMention(m, turn.source, turn.post, token)
      <4> DEFINE row == MentionRow(turn.source, turn.post, token, turn.score)
      <4>1. row \in mentions'
        BY <1>7, <2>2, UpsertMentions
      <4>2. SameMention(row, turn.source, turn.post, token)
        BY DEF SameMention, MentionRow
      <4> QED BY <4>1, <4>2
    <3>4. \A t \in ExtractMentions(turn.post) \ (turn.left \ {token}) :
              \E m \in mentions' : SameMention(m, turn.source, turn.post, t)
      <4> TAKE t \in ExtractMentions(turn.post) \ (turn.left \ {token})
      <4>1. CASE t = token
        BY <3>3, <4>1
      <4>2. CASE t # token
        BY <2>2, <3>1, <3>2, <4>2, MentionsKept
      <4> QED BY <4>1, <4>2
    <3>5. CASE turn.left = {token}
      <4>1. socialPass' = PostDone(turn.post, {})
        BY <1>7, <2>2, <3>5 DEF UpsertMention
      <4>2. Listed(mentions', turn.source, turn.post)
        <5>1. turn.left \ {token} = {}
          BY <3>5
        <5> QED BY <3>4, <5>1 DEF Listed
      <4> QED BY <2>0, <4>1, <4>2, PostDoneHeard
    <3>6. CASE turn.left # {token}
      <4>1. socialPass' = [socialPass EXCEPT !.turn.left = @ \ {token}]
        BY <1>7, <2>2, <3>6 DEF UpsertMention
      <4>2. /\ turn'.source = turn.source /\ turn'.since = turn.since
            /\ turn'.chains = turn.chains /\ turn'.failed = turn.failed
            /\ turn'.posts = turn.posts /\ turn'.late = turn.late
            /\ turn'.post = turn.post /\ turn'.left = turn.left \ {token}
        BY <4>1, MentionEffect
      <4>3. TurnHeard'
        BY <2>0, <4>2, TurnFrame
      <4>4. PostHeard'
        BY <3>4, <4>2 DEF PostHeard, ExtractMentions
      <4> QED BY <4>3, <4>4
    <3> QED BY <3>5, <3>6
  <2> QED BY <2>1, <2>2
<1>8. CASE PostThrows
  <2>1. /\ Polling /\ {turn.post} \in SUBSET socialWorld.posts
        /\ socialPass' = PostDone(turn.post, {turn.post})
    BY <1>8, <1>t DEF PostThrows, TurnInHand, Turn, Polling
  <2> QED BY <2>1, PostDoneHeard
<1>9. CASE socialPass' = SourceDone \/ socialPass' = IdleSocialPass
  BY <1>9, DoneEffect, IdleTurn DEF Polling
<1>a. CASE socialPass.at = "fetch" /\ socialPass' = [socialPass EXCEPT !.at = "error"]
  <2>1. turn' = turn /\ socialPass'.at = "error" /\ Polling
    BY <1>a, ThrowEffect DEF Polling
  <2>2. TurnHeard'
    BY <2>1, TurnFrame
  <2> QED BY <2>1, <2>2 DEF PostHeard
<1>b. CASE FinishSource \/ MarkSourceError \/ EndSocialPass \/ SocialPassDies \/ SourceThrows
  BY <1>b, <1>9, <1>a DEF FinishSource, MarkSourceError, EndSocialPass, SocialPassDies, SourceThrows
<1> QED BY <1>2, <1>3, <1>4, <1>5, <1>6, <1>7, <1>8, <1>b DEF SocialNext, SocialSources

\* What the sources were offered, source by source.
Heard(s) ==
    \A c \in socialWorld.sources[s].chains : \A p \in PostsOffered(s, c) :
        p.ts <= sourceRows[s].lastSync /\ <<s, p.id>> \notin missed => Listed(mentions, s, p)

EachHeard == \A s \in DOMAIN sourceRows : Heard(s)

LEMMA AllHeardIs == AllHeard <=> EachHeard
  BY DEF AllHeard, EachHeard, Heard, Listed

\* A source whose last sync stays has nothing more to account for.
LEMMA HeardKept ==
  ASSUME SocialTypeInv, SocialNext, NEW s \in DOMAIN sourceRows, s \in DOMAIN sourceRows', Heard(s),
         sourceRows'[s].lastSync = sourceRows[s].lastSync
  PROVE  Heard(s)'
<1>1. socialWorld' = socialWorld /\ missed \subseteq missed'
  BY SameWorldStep DEF FinishSource
<1>2. \A p : Listed(mentions, s, p) => Listed(mentions', s, p)
  BY StoredKept
<1>3. Heard(s)' = (\A c \in socialWorld.sources[s].chains : \A p \in PostsOffered(s, c) :
          p.ts <= sourceRows'[s].lastSync /\ <<s, p.id>> \notin missed' => Listed(mentions', s, p))
  BY <1>1 DEF Heard, PostsOffered, Listed, ExtractMentions
<1> QED BY <1>1, <1>2, <1>3 DEF Heard

\* A source that is new was never read.
LEMMA NewHeard ==
  ASSUME SocialTypeInv, SocialNext, NEW s, sourceRows'[s].lastSync = Never
  PROVE  Heard(s)'
<1>1. \A c : \A p \in PostsOffered(s, c) : ~(p.ts <= Never)
  BY SocialAssumption DEF SocialTypeInv, SocialRowsTyped, PostsOffered, Never
<1>2. socialWorld' = socialWorld
  BY SameWorldStep
<1> QED BY <1>1, <1>2 DEF Heard, PostsOffered

\* The sync that ends accounts for what its chains have brought.
LEMMA FinishHeard ==
  ASSUME SocialTypeInv, SnapshotHolds, TurnHeard, SocialNext, FinishSource,
         turn.source \in DOMAIN sourceRows, NEW s, s = turn.source, Heard(s)
  PROVE  Heard(s)'
<1>1. /\ socialPass.at = "fetch" /\ turn.chains = {} /\ turn.posts = {}
      /\ missed' = missed \cup {<<s, p.id>> : p \in turn.failed
                                    \cup {q \in turn.late : q.ts <= socialTime}}
  BY DEF FinishSource, SocialTypeInv, TurnInHand
<1>2. sourceRows'[s].lastSync = socialTime /\ s \in DOMAIN sourceRows'
  BY FinishRows DEF SocialTypeInv
<1>3. socialWorld' = socialWorld
  BY SameWorldStep
<1>4. ASSUME NEW c \in socialWorld.sources[s].chains, NEW p \in PostsOffered(s, c),
             p.ts <= socialTime, <<s, p.id>> \notin missed'
      PROVE  Listed(mentions', s, p)
  <2>1. p.ts \in Int /\ sourceRows[s].lastSync = turn.since /\ turn.since \in Int
    BY <1>1, <1>4, PassIs, SocialAssumption
       DEF SnapshotHolds, Polling, PostsOffered, SocialTypeInv, SocialRowsTyped, Turn
  <2>2. CASE turn.since < p.ts
    <3>1. p \in turn.late \/ p \in turn.failed \/ Listed(mentions, s, p)
      BY <1>1, <1>4, <2>2 DEF TurnHeard, Polling
    <3>2. p \notin turn.late /\ p \notin turn.failed
      BY <1>1, <1>4
    <3>3. Listed(mentions, s, p)
      BY <3>1, <3>2
    <3> QED BY <1>2, <3>3, StoredKept
  <2>3. CASE ~(turn.since < p.ts)
    <3>1. p.ts <= sourceRows[s].lastSync /\ <<s, p.id>> \notin missed
      BY <1>1, <1>4, <2>1, <2>3
    <3>2. Listed(mentions, s, p)
      BY <1>4, <3>1 DEF Heard
    <3> QED BY <1>2, <3>2, StoredKept
  <2> QED BY <2>2, <2>3
<1> QED BY <1>2, <1>3, <1>4 DEF Heard, PostsOffered

LEMMA AllHeardStep ==
  ASSUME SocialTypeInv, SnapshotHolds, TurnHeard, AllHeard, SocialNext
  PROVE  AllHeard'
<1>r. SocialRowsTyped
  BY DEF SocialTypeInv
<1>h. \A s \in DOMAIN sourceRows : Heard(s)
  BY AllHeardIs DEF EachHeard
<1> SUFFICES ASSUME NEW s \in DOMAIN sourceRows'
             PROVE  Heard(s)'
  <2>1. AllHeard' <=> EachHeard'
    BY AllHeardIs, PTL
  <2> QED BY <2>1 DEF EachHeard
<1>1. CASE \E t \in SocialSources : PostSource(t) \/ PatchSource(t) \/ DeleteSource(t)
  <2>1. PICK t \in SocialSources : PostSource(t) \/ PatchSource(t) \/ DeleteSource(t)
    BY <1>1
  <2>2. CASE PostSource(t)
    <3>1. CASE s = t
      BY <1>r, <2>2, <3>1, PostRows, NewHeard
    <3>2. CASE s # t
      <4>1. s \in DOMAIN sourceRows /\ sourceRows'[s] = sourceRows[s]
        BY <1>r, <2>2, <3>2, PostRows
      <4> QED BY <1>h, <4>1, HeardKept
    <3> QED BY <3>1, <3>2
  <2>3. CASE PatchSource(t)
    <3>1. s \in DOMAIN sourceRows /\ sourceRows'[s].lastSync = sourceRows[s].lastSync
      BY <1>r, <2>3, PatchRows
    <3> QED BY <1>h, <3>1, HeardKept
  <2>4. CASE DeleteSource(t)
    <3>1. s \in DOMAIN sourceRows /\ sourceRows'[s] = sourceRows[s]
      BY <1>r, <2>4, DeleteRows
    <3> QED BY <1>h, <3>1, HeardKept
  <2> QED BY <2>1, <2>2, <2>3, <2>4
<1>2. CASE ~\E t \in SocialSources : PostSource(t) \/ PatchSource(t) \/ DeleteSource(t)
  <2>1. CASE sourceRows' = sourceRows
    BY <1>h, <2>1, HeardKept
  <2>2. CASE FinishSource /\ turn.source \in DOMAIN sourceRows
    <3>1. /\ s \in DOMAIN sourceRows
          /\ s # turn.source => sourceRows'[s] = sourceRows[s]
      BY <1>r, <2>2, FinishRows
    <3>2. CASE s = turn.source
      BY <1>h, <2>2, <3>1, <3>2, FinishHeard
    <3>3. CASE s # turn.source
      BY <1>h, <3>1, <3>3, HeardKept
    <3> QED BY <3>2, <3>3
  <2>3. CASE MarkSourceError /\ turn.source \in DOMAIN sourceRows
    <3>1. s \in DOMAIN sourceRows /\ sourceRows'[s].lastSync = sourceRows[s].lastSync
      BY <1>r, <2>3, FailRows
    <3> QED BY <1>h, <3>1, HeardKept
  <2> QED BY <1>2, <2>1, <2>2, <2>3, RowsOfPass
<1> QED BY <1>1, <1>2

LEMMA HeardStep ==
  ASSUME SocialTypeInv, HeardInv, [SocialNext]_socialVars
  PROVE  HeardInv'
<1>1. CASE SocialNext
  BY <1>1, SnapshotStep, TurnStep, AllHeardStep DEF HeardInv
<1>2. CASE UNCHANGED socialVars
  BY <1>2 DEF socialVars, socialBounds, HeardInv, SnapshotHolds, TurnHeard, PostHeard, AllHeard,
     Polling, turn, PostsOffered, Listed, ExtractMentions
<1> QED BY <1>1, <1>2

-----------------------------------------------------------------------------
(* Social mentions: copies show.                                           *)

LEMMA MoreAuthors ==
  ASSUME NEW T, IsFiniteSet(T), NEW S \in SUBSET T, NEW n \in Int, Cardinality(S) >= n
  PROVE  Cardinality(T) >= n
<1>1. IsFiniteSet(S) /\ Cardinality(S) <= Cardinality(T)
  BY FS_Subset
<1>2. Cardinality(S) \in Nat /\ Cardinality(T) \in Nat
  BY <1>1, FS_CardinalityType
<1> QED BY <1>1, <1>2

LEMMA CopiersFinite ==
  ASSUME IsFiniteSet(mentions), NEW p
  PROVE  IsFiniteSet(Copiers(p))
<1>1. IsFiniteSet(Echoes(p))
  <2>1. Echoes(p) \subseteq mentions
    BY DEF Echoes, Recent
  <2> QED BY <2>1, FS_Subset
<1>2. IsFiniteSet({m.author : m \in Echoes(p)})
  <2> DEFINE S == Echoes(p)
             T == {m.author : m \in S}
             f == [m \in S |-> m.author]
  <2> HIDE DEF S
  <2>1. f \in [S -> T] /\ \A a \in T : \E m \in S : f[m] = a
    OBVIOUS
  <2>2. f \in Surjection(S, T)
    BY <2>1 DEF Surjection
  <2> HIDE DEF f, T
  <2>3. IsFiniteSet(S)
    BY <1>1 DEF S
  <2>4. IsFiniteSet(T)
    BY <2>2, <2>3, FS_Surjection
  <2> QED BY <2>4 DEF T, S
<1>3. IsFiniteSet({m.author : m \in Echoes(p)} \cup {p.author})
  BY <1>2, FS_AddElement
<1>4. Copiers(p) \subseteq {m.author : m \in Echoes(p)} \cup {p.author}
  BY DEF Copiers
<1> QED BY <1>3, <1>4, FS_Subset

LEMMA MentionsFinite ==
  ASSUME SocialNext, SocialTypeInv, IsFiniteSet(mentions)
  PROVE  IsFiniteSet(mentions')
<1>1. ASSUME NEW token \in turn.left, UpsertMention(token), turn.source \in DOMAIN sourceRows
      PROVE  IsFiniteSet(mentions')
  <2> DEFINE row == MentionRow(turn.source, turn.post, token, turn.score)
             kept == {m \in mentions : ~SameMention(m, turn.source, turn.post, token)}
  <2>1. mentions' = kept \cup {row}
    BY <1>1, UpsertMentions
  <2>2. IsFiniteSet(kept)
    <3>1. kept \subseteq mentions
      OBVIOUS
    <3> HIDE DEF kept
    <3> QED BY <3>1, FS_Subset
  <2> HIDE DEF kept, row
  <2> QED BY <2>1, <2>2, FS_AddElement
<1>2. ASSUME NEW s \in SocialSources, DeleteSource(s) PROVE IsFiniteSet(mentions')
  <2>1. mentions' \subseteq mentions
    BY <1>2 DEF DeleteSource
  <2> QED BY <2>1, FS_Subset
<1> QED BY <1>1, <1>2, MentionsStep

\* A mention brings no author who was not counted, and one that completes a wave has its score.
LEMMA UpsertShows ==
  ASSUME SocialTypeInv, CopiesInv, SocialNext, NEW token \in turn.left, UpsertMention(token),
         turn.source \in DOMAIN sourceRows
  PROVE  /\ \A C \in SUBSET mentions' : Wave(C) => \E m \in C : m.score >= SpamConfig.weights.copypasta
         /\ \A p : p = turn.post => Copiers(p)' \subseteq Copiers(p)
<1> DEFINE row == MentionRow(turn.source, turn.post, token, turn.score)
<1>1. mentions' \subseteq mentions \cup {row} /\ row \in Mention
  BY UpsertMentions
<1>2. row.hash = turn.post.hash /\ row.ts = turn.post.ts /\ row.author = turn.post.author
      /\ row.score = turn.score
  BY DEF MentionRow
<1>t. mentions \subseteq Mention /\ SpamConfig.window \in Int /\ SpamConfig.copypastaAuthorMin \in Int
      /\ socialPass.at = "mention" /\ turn.post.ts \in Int
  BY <1>1, <1>2, SocialAssumption DEF SocialTypeInv, SocialRowsTyped, UpsertMention, Mention
<1> HIDE DEF row
<1>3. ASSUME NEW C \in SUBSET mentions', Wave(C)
      PROVE  \E m \in C : m.score >= SpamConfig.weights.copypasta
  <2>1. CASE row \notin C
    <3>1. C \in SUBSET mentions
      BY <1>1, <2>1
    <3> QED BY <1>3, <3>1 DEF CopiesInv, WavesShow
  <2>2. CASE row \in C
    <3>1. \A m \in C \ {row} : m \in Echoes(turn.post)
      <4> TAKE m \in C \ {row}
      <4>1. m \in mentions /\ m.ts \in Int /\ m.hash = row.hash /\ row.ts <= m.ts + SpamConfig.window
        BY <1>1, <1>3, <1>t, <2>2 DEF Wave, Mention
      <4>2. m.ts >= turn.post.ts - SpamConfig.window
        BY <4>1, <1>2, <1>t
      <4> QED BY <1>2, <4>1, <4>2 DEF Echoes, Recent
    <3>2. Authors(C) \subseteq Copiers(turn.post)
      <4>1. \A m \in C : m.author \in {n.author : n \in Echoes(turn.post)} \cup {turn.post.author}
        BY <1>2, <3>1
      <4> QED BY <4>1 DEF Authors, Copiers
    <3>3. Cardinality(Authors(C)) >= SpamConfig.copypastaAuthorMin
      BY <1>3 DEF Wave
    <3>4. IsFiniteSet(Copiers(turn.post))
      BY CopiersFinite DEF CopiesInv
    <3>5. Cardinality(Copiers(turn.post)) >= SpamConfig.copypastaAuthorMin
      BY <1>t, <3>2, <3>3, <3>4, MoreAuthors
    <3>6. row.score >= SpamConfig.weights.copypasta
      BY <1>2, <1>t, <3>5 DEF CopiesInv, HandScored
    <3> QED BY <2>2, <3>6
  <2> QED BY <2>1, <2>2
<1>4. ASSUME NEW p, p = turn.post PROVE Copiers(p)' \subseteq Copiers(p)
  <2>1. \A m \in mentions' : m \in mentions \/ m.author = p.author
    BY <1>1, <1>2, <1>4
  <2> QED BY <2>1 DEF Copiers, Echoes, Recent
<1> QED BY <1>3, <1>4

LEMMA HandKept ==
  ASSUME IsFiniteSet(mentions), HandScored, socialPass.at = "mention",
         NEW p, p = turn.post, turn'.post = p, turn'.score = turn.score,
         Copiers(p)' \subseteq Copiers(p)
  PROVE  HandScored'
<1>1. SpamConfig.copypastaAuthorMin \in Int
  BY SocialAssumption
<1>2. HandScored' = (socialPass'.at = "mention"
          /\ Cardinality(Copiers(p)') >= SpamConfig.copypastaAuthorMin
              => turn.score >= SpamConfig.weights.copypasta)
  BY DEF HandScored, Copiers, Echoes, Recent
<1>3. IsFiniteSet(Copiers(p))
  BY CopiersFinite
<1>4. Cardinality(Copiers(p)') >= SpamConfig.copypastaAuthorMin =>
          Cardinality(Copiers(p)) >= SpamConfig.copypastaAuthorMin
  BY <1>1, <1>3, MoreAuthors
<1> QED BY <1>2, <1>4 DEF HandScored

LEMMA WavesStep ==
  ASSUME SocialTypeInv, CopiesInv, SocialNext
  PROVE  WavesShow'
<1>1. CASE mentions' \subseteq mentions
  BY <1>1 DEF CopiesInv, WavesShow
<1>2. ASSUME NEW token \in turn.left, UpsertMention(token), turn.source \in DOMAIN sourceRows
      PROVE  WavesShow'
  BY <1>2, UpsertShows DEF WavesShow
<1>3. ASSUME NEW s \in SocialSources, DeleteSource(s) PROVE WavesShow'
  BY <1>1, <1>3 DEF DeleteSource
<1> QED BY <1>1, <1>2, <1>3, MentionsStep

LEMMA HandStep ==
  ASSUME SocialTypeInv, CopiesInv, SocialNext
  PROVE  HandScored'
<1>t. TurnInHand /\ IsFiniteSet(mentions) /\ HandScored /\ turn \in Turn
  BY PassIs DEF SocialTypeInv, CopiesInv
<1>1. CASE UNCHANGED socialPass /\ mentions' \subseteq mentions
  <2>1. CASE socialPass.at = "mention"
    <3>1. PICK p : p = turn.post
      OBVIOUS
    <3>2. Copiers(p)' \subseteq Copiers(p)
      BY <1>1 DEF Copiers, Echoes, Recent
    <3> QED BY <1>1, <1>t, <2>1, <3>1, <3>2, HandKept DEF turn
  <2>2. CASE socialPass.at # "mention"
    BY <1>1, <2>2 DEF HandScored
  <2> QED BY <2>1, <2>2
<1>2. CASE SocialTick \/ \E s \in SocialSources : PostSource(s) \/ PatchSource(s) \/ DeleteSource(s)
  BY <1>1, <1>2 DEF SocialTick, PostSource, PatchSource, DeleteSource, SourceEdit
<1>3. CASE socialPass'.at # "mention"
  BY <1>3 DEF HandScored
<1>4. CASE StartSocialPass \/ \E s \in SocialSources : TakeSource(s)
  BY <1>3, <1>4, StartEffect, TakeEffect
<1>5. ASSUME NEW c \in turn.chains, FetchPosts(c) PROVE HandScored'
  BY <1>3, <1>5, FetchEffect
<1>d. ASSUME NEW p, NEW F \in SUBSET socialWorld.posts, socialPass' = PostDone(p, F)
      PROVE  HandScored'
  BY <1>3, <1>d, PostDoneEffect
<1>6. ASSUME NEW p \in turn.posts, ClassifyPost(p) PROVE HandScored'
  <2>1. CASE ExtractMentions(p) = {}
    <3>1. socialPass' = PostDone(p, {})
      BY <1>6, <2>1 DEF ClassifyPost
    <3> QED BY <1>d, <3>1
  <2>2. CASE ExtractMentions(p) # {}
    <3>1. turn'.post = p /\ turn'.score = SpamScore(p)
      BY <1>6, <2>2, SpamScoreIs, ClassifyEffect
    <3>2. mentions' = mentions
      BY <1>6 DEF ClassifyPost
    <3>3. Copiers(turn.post)' = Copiers(p)
      BY <3>1, <3>2 DEF Copiers, Echoes, Recent
    <3> QED BY <3>1, <3>3, SpamScoreIs DEF HandScored
  <2> QED BY <2>1, <2>2
<1>7. ASSUME NEW token \in turn.left, UpsertMention(token) PROVE HandScored'
  <2>0. /\ socialPass.at = "mention"
        /\ {turn.post} \in SUBSET socialWorld.posts /\ {} \in SUBSET socialWorld.posts
    BY <1>7, <1>t DEF UpsertMention, TurnInHand, Turn
  <2>2. CASE socialPass' = PostDone(turn.post, {}) \/ socialPass' = PostDone(turn.post, {turn.post})
    BY <2>0, <2>2, <1>d
  <2>3. CASE /\ socialPass' = [socialPass EXCEPT !.turn.left = @ \ {token}]
             /\ turn.source \in DOMAIN sourceRows
    <3>1. PICK p : p = turn.post
      OBVIOUS
    <3>2. turn'.post = p /\ turn'.score = turn.score
      BY <2>3, <3>1, MentionEffect
    <3>3. Copiers(p)' \subseteq Copiers(p)
      BY <1>7, <2>3, <3>1, UpsertShows
    <3> QED BY <1>t, <2>0, <3>1, <3>2, <3>3, HandKept
  <2> QED BY <1>7, <2>2, <2>3 DEF UpsertMention
<1>8. CASE PostThrows
  <2>1. /\ {turn.post} \in SUBSET socialWorld.posts
        /\ socialPass' = PostDone(turn.post, {turn.post})
    BY <1>8, <1>t DEF PostThrows, TurnInHand, Turn
  <2> QED BY <2>1, <1>d
<1>9. CASE socialPass' = SourceDone \/ socialPass' = IdleSocialPass
  BY <1>3, <1>9, DoneEffect
<1>a. CASE socialPass' = [socialPass EXCEPT !.at = "error"]
  BY <1>3, <1>a, ThrowEffect
<1>b. CASE FinishSource \/ MarkSourceError \/ EndSocialPass \/ SocialPassDies \/ SourceThrows
  BY <1>b, <1>9, <1>a DEF FinishSource, MarkSourceError, EndSocialPass, SocialPassDies, SourceThrows
<1> QED BY <1>2, <1>4, <1>5, <1>6, <1>7, <1>8, <1>b DEF SocialNext, SocialSources

LEMMA CopiesStep ==
  ASSUME SocialTypeInv, CopiesInv, [SocialNext]_socialVars
  PROVE  CopiesInv'
<1>1. CASE SocialNext
  BY <1>1, MentionsFinite, WavesStep, HandStep DEF CopiesInv
<1>2. CASE UNCHANGED socialVars
  BY <1>2 DEF socialVars, CopiesInv, WavesShow, HandScored, Copiers, Echoes, Recent, turn
<1> QED BY <1>1, <1>2

LEMMA WavesAreCopies ==
  ASSUME SocialTypeInv, WavesShow
  PROVE  CopiesShow
<1> SUFFICES ASSUME NEW first \in mentions,
                    NEW copies, copies = {m \in mentions :
                        /\ m.hash = first.hash /\ first.ts <= m.ts
                        /\ m.ts <= first.ts + SpamConfig.window},
                    Cardinality(Authors(copies)) >= SpamConfig.copypastaAuthorMin
             PROVE  \E m \in copies : m.score >= SpamConfig.weights.copypasta
  BY DEF CopiesShow, Authors
<1>1. \A m \in mentions : m.ts \in Int
  BY DEF SocialTypeInv, SocialRowsTyped, Mention
<1>2. SpamConfig.window \in Nat
  BY SocialAssumption
<1>3. first \in copies
  BY <1>1, <1>2
<1>4. \A m, n \in copies : m.hash = n.hash /\ m.ts <= n.ts + SpamConfig.window
  BY <1>1, <1>2
<1> QED BY <1>3, <1>4 DEF WavesShow, Wave

-----------------------------------------------------------------------------
LEMMA SocialBegins == SocialInit => SocialInv
<1> SUFFICES ASSUME SocialInit PROVE SocialInv
  OBVIOUS
<1>1. SocialRowsTyped
  <2>1. socialWorld.present \subseteq SocialSources
    BY SocialAssumption DEF SocialInit, SocialSources
  <2> QED BY <2>1, NewSourceTyped, SocialAssumption
          DEF SocialInit, SocialRowsTyped, SocialSources
<1>2. SocialPassTyped /\ TurnInHand /\ turn.posts = {} /\ socialPass.at = "idle"
      /\ DOMAIN socialPass.todo = {}
  BY IdleIsPass DEF SocialInit, SocialPassTyped, TurnInHand, turn
<1>3. SocialTypeInv
  BY <1>1, <1>2 DEF SocialTypeInv
<1>4. SnapshotHolds /\ TurnHeard /\ PostHeard
  BY <1>2 DEF SocialInit, SnapshotHolds, TurnHeard, PostHeard, Polling
<1>5. AllHeard
  <2>1. \A s \in DOMAIN sourceRows : sourceRows[s].lastSync = Never
    BY DEF SocialInit, NewSource
  <2>2. \A s \in DOMAIN sourceRows : Heard(s)
    <3>1. \A s, c : \A p \in PostsOffered(s, c) : ~(p.ts <= Never)
      BY <1>1, SocialAssumption DEF SocialRowsTyped, PostsOffered, Never
    <3> QED BY <2>1, <3>1 DEF Heard
  <2> QED BY <2>2, AllHeardIs DEF EachHeard
<1>6. IsFiniteSet(mentions) /\ WavesShow
  BY FS_EmptySet DEF SocialInit, WavesShow, Wave
<1>7. HandScored
  BY <1>2 DEF HandScored
<1> QED BY <1>3, <1>4, <1>5, <1>6, <1>7 DEF SocialInv, HeardInv, CopiesInv

\* The inductive invariant of the social pass and the route beside it.
LEMMA SocialInvHolds == SocialSpec => []SocialInv
<1>1. SocialInv /\ [SocialNext]_socialVars => SocialInv'
  BY SocialTypeStep, HeardStep, CopiesStep DEF SocialInv
<1> QED BY SocialBegins, <1>1, PTL DEF SocialSpec

\* The pass and the route only ever write rows of the shape the tables have; the source at hand
\* is one of the world's, and its post one of the posts it has fetched.
THEOREM SocialTypeCorrect == SocialSpec => []SocialTypeInv
<1>1. SocialInv => SocialTypeInv
  BY DEF SocialInv
<1> QED BY SocialInvHolds, <1>1, PTL

\* Whatever throws, dies, comes late or is deleted and created again: a post older than the last
\* sync of its source is stored or was given up for a known cause, and enough authors who post one
\* text within the window do not all look clean.
THEOREM MentionsAreAccounted == SocialSpec => []MentionsAccounted
<1>1. SocialInv => MentionsAccounted
  BY WavesAreCopies DEF SocialInv, HeardInv, CopiesInv, MentionsAccounted
<1> QED BY SocialInvHolds, <1>1, PTL
================================================================================
