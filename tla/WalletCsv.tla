------------------------------- MODULE WalletCsv -------------------------------
(***************************************************************************)
(* The CSV wallet import (db/csv/importWalletsCsv.ts) as the route and the *)
(* walletImport job run it: the parser on a text, and the import of a      *)
(* table row by row, of which two may run at once.  Each row is an upsert, *)
(* perhaps an update of the notes, a create of its figures, and a look and *)
(* a create per label; the ImportJob that sums the run up is created last. *)
(***************************************************************************)
EXTENDS Naturals, FiniteSets, Sequences, SequencesExt, FiniteSetsExt, Functions, TLC

CONSTANTS CsvTexts,            \* texts to parse: sequences of "q", "c", "n", "r" and others
          CsvWorlds,           \* what each importer is given, and the shapes of addresses
          WalletLabels,        \* the tags that are labels
          MAX_RETURNED_ERRORS,
          MaxCsvFaults         \* bound: calls that throw and processes that die

VARIABLES csvText,    \* the text parsed
          csvWorld,   \* files: importer -> [header, rows]; shape: address -> chains; found: notes
          csvDb,      \* notes: wallet -> lines; stats, labels (with a count), jobs
          imports,    \* importer -> the import under way
          csvRaced,   \* the wallets and labels two imports were about to write at once
          csvFaults

csvVars == <<csvText, csvWorld, csvDb, imports, csvRaced, csvFaults>>

-----------------------------------------------------------------------------
(* parseCsv: "q" is a quote, "c" a comma, "n" and "r" end a line.          *)

Normalized(text) ==
    LET kept == SelectSeq([i \in 1..Len(text) |-> i],
                          LAMBDA i : ~(text[i] = "r" /\ i < Len(text) /\ text[i + 1] = "n"))
    IN  [k \in 1..Len(kept) |-> IF text[kept[k]] = "r" THEN "n" ELSE text[kept[k]]]

PushField(s) == [s EXCEPT !.row = Append(@, s.field), !.field = <<>>]
PushRow(s) == [s EXCEPT !.rows = Append(@, Append(s.row, s.field)), !.row = <<>>, !.field = <<>>]
\* skip: the second quote of a pair has been read with the first.
Quoted(s, ch, next) ==
    IF ch # "q" THEN [s EXCEPT !.field = Append(@, ch)]
    ELSE IF next = "q" THEN [s EXCEPT !.field = Append(@, "q"), !.skip = TRUE]
    ELSE [s EXCEPT !.quoted = FALSE]
ScanCsv(s, ch, next) ==
    IF s.skip THEN [s EXCEPT !.skip = FALSE]
    ELSE IF s.quoted THEN Quoted(s, ch, next)
    ELSE CASE ch = "q" -> [s EXCEPT !.quoted = TRUE]
           [] ch = "c" -> PushField(s)
           [] ch = "n" -> PushRow(s)
           [] OTHER -> [s EXCEPT !.field = Append(@, ch)]
ParseCsv(text) ==
    LET t == Normalized(text)
        start == [rows |-> <<>>, row |-> <<>>, field |-> <<>>, quoted |-> FALSE, skip |-> FALSE]
        f[i \in 0..Len(t)] ==
            IF i = 0 THEN start
            ELSE ScanCsv(f[i - 1], t[i], IF i < Len(t) THEN t[i + 1] ELSE "end")
        last == f[Len(t)]
        all == IF last.field # <<>> \/ last.row # <<>> THEN PushRow(last).rows ELSE last.rows
    IN  SelectSeq(all, LAMBDA r : r # <<<<>>>>)

\* The reference has no state: a comma or line end separates when an even
\* number of quotes precedes it, and a quote is text when an odd number
\* precedes it and another follows.
ReferenceRows(text) ==
    LET t == Normalized(text)
        quotes(i) == Cardinality({j \in 1..(i - 1) : t[j] = "q"})
        outside(i) == quotes(i) % 2 = 0
        ends == {i \in 1..Len(t) : t[i] = "n" /\ outside(i)} \cup {Len(t) + 1}
        commas == {i \in 1..Len(t) : t[i] = "c" /\ outside(i)}
        isText(i) == /\ i \notin ends \cup commas
                     /\ t[i] = "q" => ~outside(i) /\ i < Len(t) /\ t[i + 1] = "q"
        Span(from, to) ==
            LET at == SetToSortSeq({i \in from..to : isText(i)}, <)
            IN  [k \in 1..Len(at) |-> t[at[k]]]
        from(cut, cuts) == 1 + Max({0} \cup {c \in cuts : c < cut})
        row(e) == LET first == from(e, ends)
                      stops == SetToSortSeq({c \in commas : c \in first..e} \cup {e}, <)
                  IN  [k \in 1..Len(stops) |->
                          Span(IF k = 1 THEN first ELSE stops[k - 1] + 1, stops[k] - 1)]
        all == SetToSortSeq(ends, <)
    IN  SelectSeq([k \in 1..Len(all) |-> row(all[k])], LAMBDA r : r # <<<<>>>>)

-----------------------------------------------------------------------------
(* The rows.                                                               *)

RowError(r) ==
    CASE r.address = "" -> "missing wallet_address"
      [] r.chain \notin {"SOLANA", "BSC"} -> "invalid chain"
      [] r.chain \notin csvWorld.shape[r.address] -> "malformed address"
      [] ~r.figures -> "invalid number"
      [] OTHER -> "none"
CsvRows(i) == csvWorld.files[i].rows
BadRow(i, k) == RowError(CsvRows(i)[k]) # "none"
WalletOf(r) == <<r.address, r.chain>>

\* A source is the sequence of its lines, empty if it says nothing; a line of
\* notes is found only if it is the whole source.
\* Faulty variant: the source replaces what an operator wrote.
ReplacedNotes(notes, source) == IF source = <<>> THEN notes ELSE source

NextNotes(notes, source) ==
    IF source = <<>> \/ (Len(source) = 1 /\ source[1] \in Range(notes)) THEN notes
    ELSE notes \o source

-----------------------------------------------------------------------------
(* importWalletsCsv, between one await and the next.                       *)

CurrentRow(i) == CsvRows(i)[imports[i].row]

\* The rows from k that are bad cost no call.
FromRow(i, imp, k) ==
    LET good == {j \in k..Len(CsvRows(i)) : ~BadRow(i, j)}
        next == IF good = {} THEN Len(CsvRows(i)) + 1 ELSE Min(good)
    IN  [imp EXCEPT !.row = next, !.at = IF good = {} THEN "job" ELSE "upsert",
                    !.errors = @ \cup (k..(next - 1))]
RowOk(i, imp) == FromRow(i, [imp EXCEPT !.ok = @ \cup {imp.row}], imp.row + 1)
RowFailed(i, imp) == FromRow(i, [imp EXCEPT !.errors = @ \cup {imp.row}], imp.row + 1)
\* The labels of the tags, one by one.
NextLabel(i, imp) ==
    LET left == imp.tags \cap WalletLabels
    IN  IF left = {} THEN RowOk(i, imp)
        ELSE [imp EXCEPT !.at = "look", !.look = CHOOSE l \in left : TRUE]

\* A file without a header or with columns missing fails as a whole.
StartImport(i) ==
    /\ imports[i].at = "idle"
    /\ imports' = [imports EXCEPT ![i] = IF csvWorld.files[i].header THEN FromRow(i, @, 1)
                                         ELSE [@ EXCEPT !.at = "failed job"]]
    /\ UNCHANGED <<csvText, csvWorld, csvDb, csvRaced, csvFaults>>

\* Where two imports hold what both are about to write.
About(imp) == IF imp.at = "notes" THEN {<<imp.wallet, "notes">>}
              ELSE IF imp.at = "create" THEN {<<imp.wallet, imp.look>>} ELSE {}
Meeting(imps) ==
    LET elsewhere(i) == UNION {About(imps[j]) : j \in (DOMAIN imps) \ {i}}
    IN  UNION {About(imps[i]) \cap elsewhere(i) : i \in DOMAIN imps}

\* A call works; or it throws, done or not, and the row is an error (or, when
\* it is the ImportJob, the import throws); or the process dies.
Call(i, db, next) ==
    /\ \/ csvDb' = db /\ imports' = [imports EXCEPT ![i] = next] /\ csvFaults' = csvFaults
       \/ /\ csvFaults < MaxCsvFaults /\ csvFaults' = csvFaults + 1
          /\ csvDb' \in {csvDb, db}
          /\ imports' = [imports EXCEPT ![i] =
                            IF @.at \in {"job", "failed job"} THEN [@ EXCEPT !.at = "threw"]
                            ELSE RowFailed(i, @)]
       \/ /\ csvFaults < MaxCsvFaults /\ csvFaults' = csvFaults + 1
          /\ imports' = [imports EXCEPT ![i].at = "dead"] /\ UNCHANGED csvDb
    /\ csvRaced' = csvRaced \cup Meeting(imports')
    /\ UNCHANGED <<csvText, csvWorld>>

\* A wallet that is new gets the source as its notes.
UpsertWallet(i) ==
    LET r == CurrentRow(i)
        w == WalletOf(r)
        notes == IF w \in DOMAIN csvDb.notes THEN csvDb.notes[w] ELSE r.source
        next == NextNotes(notes, r.source)
    IN  /\ imports[i].at = "upsert"
        /\ Call(i, [csvDb EXCEPT !.notes = w :> notes @@ @],
                [imports[i] EXCEPT !.at = IF next = notes THEN "stats" ELSE "notes",
                                   !.wallet = w, !.notes = next, !.tags = r.tags])
WriteNotes(i) ==
    /\ imports[i].at = "notes"
    /\ Call(i, [csvDb EXCEPT !.notes[imports[i].wallet] = imports[i].notes],
            [imports[i] EXCEPT !.at = "stats"])
CreateStats(i) ==
    /\ imports[i].at = "stats"
    /\ Call(i, [csvDb EXCEPT !.stats = @ \cup {<<imports[i].wallet, i, imports[i].row>>}],
            NextLabel(i, imports[i]))

LabelDone(i) == NextLabel(i, [imports[i] EXCEPT !.tags = @ \ {imports[i].look}])
LookForLabel(i) ==
    /\ imports[i].at = "look"
    /\ Call(i, csvDb, IF csvDb.labels[<<imports[i].wallet, imports[i].look>>] > 0 THEN LabelDone(i)
                      ELSE [imports[i] EXCEPT !.at = "create"])
CreateLabel(i) ==
    /\ imports[i].at = "create"
    /\ Call(i, [csvDb EXCEPT !.labels[<<imports[i].wallet, imports[i].look>>] = @ + 1],
            LabelDone(i))

\* A file that failed as a whole counts its rows as errors, and returns none.
CreateJob(i) ==
    LET total == Len(CsvRows(i))
        failed == imports[i].at = "failed job"
        errors == IF failed THEN 1..total ELSE imports[i].errors
        listed == SetToSortSeq(imports[i].errors, <)
    IN  /\ imports[i].at \in {"job", "failed job"}
        /\ Call(i, [csvDb EXCEPT !.jobs = i :> [total |-> total, ok |-> Cardinality(imports[i].ok),
                       errors |-> errors,
                       status |-> IF failed THEN "failed" ELSE IF errors = {} THEN "completed"
                                  ELSE "completed_with_errors"] @@ @],
                [imports[i] EXCEPT !.at = "done",
                   !.returned = SubSeq(listed, 1, Min({Len(listed), MAX_RETURNED_ERRORS}))])

CsvInit ==
    /\ \/ csvText \in CsvTexts /\ csvWorld = [files |-> <<>>, shape |-> <<>>, found |-> <<>>]
       \/ csvText = <<>> /\ csvWorld \in CsvWorlds
    /\ LET shape == csvWorld.shape
           wallets == {w \in (DOMAIN shape) \X {"SOLANA", "BSC"} : w[2] \in shape[w[1]]}
       IN  csvDb = [notes |-> csvWorld.found, stats |-> {}, jobs |-> <<>>,
                    labels |-> [k \in wallets \X WalletLabels |-> 0]]
    /\ imports = [i \in DOMAIN csvWorld.files |->
                     [at |-> "idle", row |-> 0, wallet |-> <<>>, notes |-> <<>>, tags |-> {},
                      look |-> "none", errors |-> {}, ok |-> {}, returned |-> <<>>]]
    /\ csvRaced = {} /\ csvFaults = 0

CsvNext ==
    \E i \in DOMAIN imports :
        StartImport(i) \/ UpsertWallet(i) \/ WriteNotes(i) \/ CreateStats(i)
            \/ LookForLabel(i) \/ CreateLabel(i) \/ CreateJob(i)
-----------------------------------------------------------------------------
RowWritten(i, k) ==
    LET r == CsvRows(i)[k]
        w == WalletOf(r)
    IN  /\ w \in DOMAIN csvDb.notes /\ <<w, i, k>> \in csvDb.stats
        /\ <<w, "notes">> \in csvRaced \/ Range(r.source) \subseteq Range(csvDb.notes[w])
        /\ \A l \in r.tags \cap WalletLabels : csvDb.labels[<<w, l>>] > 0
ManyLines(w) ==
    \E i \in DOMAIN csvWorld.files :
        \E r \in Range(CsvRows(i)) : WalletOf(r) = w /\ Len(r.source) > 1

\* The parser splits a text as a reading without state does.  An import that
\* finished has counted every row of its table once, and a row it counts as
\* good is there with its figures, its source and its labels, whatever failed
\* beside it and whichever import ran at once; bad rows leave nothing, notes
\* that were there stay, no label is there twice and no source noted twice.
\* Set apart are notes and labels that two imports were about to write at
\* once, and sources of several lines.
ImportAccounted ==
    /\ ParseCsv(csvText) = ReferenceRows(csvText)
    /\ \A i \in DOMAIN csvDb.jobs :
           LET job == csvDb.jobs[i]
               good == 1..job.total \ job.errors
           IN  /\ job.ok = Cardinality(good)
               /\ job.errors \subseteq 1..job.total
               /\ \A k \in good : RowWritten(i, k)
               /\ job.status = "completed" <=> csvWorld.files[i].header /\ job.errors = {}
    /\ \A s \in csvDb.stats : csvWorld.files[s[2]].header /\ ~BadRow(s[2], s[3])
    /\ \A w \in DOMAIN csvWorld.found : Range(csvWorld.found[w]) \subseteq Range(csvDb.notes[w])
    /\ \A w \in DOMAIN csvDb.notes :
           IsInjective(csvDb.notes[w]) \/ <<w, "notes">> \in csvRaced \/ ManyLines(w)
    /\ \A k \in DOMAIN csvDb.labels : csvDb.labels[k] > 1 => k \in csvRaced
=============================================================================
