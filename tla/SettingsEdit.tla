----------------------------- MODULE SettingsEdit -----------------------------
(***************************************************************************)
(* The settings: one row of JSON that the form of the dashboard, clients   *)
(* of its API, the worker's boot and the seed script read, create and      *)
(* write (core/settings.ts, api/settings, SettingsForm.tsx, worker         *)
(* index.ts).  Nothing but their own findFirst keeps the row single.       *)
(*                                                                         *)
(* An object of settings is a function from paths to values: {n} is the    *)
(* number n (or the truth value), {} a value of another type; what is not  *)
(* an object at all merges like the empty one.                             *)
(***************************************************************************)
EXTENDS Naturals, FiniteSets, Sequences, SequencesExt, Functions, TLC

CONSTANTS SettingsWorld,      \* defaults, shown, mcapMin, mcapMax, found, bodies, typable
          MaxTyped,           \* bound: changes of a field
          MaxSaves,           \* bound: clicks on Save
          MaxSettingsEvents   \* bound: calls of others, pages loaded again, calls lost

VARIABLES settingRows,      \* the table: id -> object
          editor,           \* the form: page, form, text, mode, alone, surprised
          calls,            \* requests and boots under way
          settingHistory    \* the bounds, the next ids and whether creators overlapped

settingVars == <<settingRows, editor, calls, settingHistory>>

-----------------------------------------------------------------------------
(* core/settings.ts.                                                       *)

DEFAULT_SETTINGS == SettingsWorld.defaults
Leaves == DOMAIN DEFAULT_SETTINGS
Sections == {p[1] : p \in Leaves}

\* Faulty variant: a section given replaces the whole section.
MergeSections(base, override) ==
    override @@ Restrict(base, {p \in DOMAIN base : ~\E q \in DOMAIN override : p[1] = q[1]})
DeepMerge(base, override) ==
    override @@ Restrict(base, {p \in DOMAIN base :
                                   ~\E q \in DOMAIN override : IsPrefix(p, q) \/ IsPrefix(q, p)})

\* Unknown sections are refused, unknown keys within one dropped.
Shaped(s) == \A p \in Leaves : p \in DOMAIN s /\ s[p] # {}
Accepted(s) ==
    /\ Shaped(s)
    /\ \A p \in DOMAIN s : p[1] \in Sections
    /\ \A lo \in s[SettingsWorld.mcapMin], hi \in s[SettingsWorld.mcapMax] : lo < hi
Parses(json) == Accepted(DeepMerge(DEFAULT_SETTINGS, json))
ParseSettings(json) == Restrict(DeepMerge(DEFAULT_SETTINGS, json), Leaves)

-----------------------------------------------------------------------------
(* The form.  A field keeps its text apart from the number it gave: num is *)
(* what parseFloat makes of the text, plain that the text is that number.  *)

Plain(value) == [num |-> value, plain |-> TRUE]
Shown == SettingsWorld.shown
Fields(settings) == [f \in Shown |-> Plain(settings[f])]
Unclear(text) == {f \in DOMAIN text : ~text[f].plain \/ text[f].num = {}}

OfEditor(c) == c.from = "editor"
Orphaned(cs) == {IF OfEditor(c) THEN [c EXCEPT !.from = "gone"] ELSE c : c \in cs}
Touched(cs, fields) ==
    {IF OfEditor(c) THEN [c EXCEPT !.touched = @ \cup fields] ELSE c : c \in cs}
Eventual == settingHistory.events < MaxSettingsEvents
Happened == [settingHistory EXCEPT !.events = @ + 1]

\* The page reads a row if there is one; it creates none.
OpenPage ==
    /\ ~editor.page \/ Eventual
    /\ \E json \in IF settingRows = <<>> THEN {<<>>} ELSE Range(settingRows) :
           LET s == ParseSettings(json)
           IN  /\ Parses(json)
               /\ editor' = [editor EXCEPT !.page = TRUE, !.form = s, !.text = Fields(s),
                                           !.mode = "idle"]
    /\ calls' = Orphaned(calls)
    /\ settingHistory' = IF editor.page THEN Happened ELSE settingHistory
    /\ UNCHANGED settingRows

\* Text that gives no number changes the text only.
TypeText(f, t) ==
    /\ editor.page /\ settingHistory.typed < MaxTyped /\ t # editor.text[f]
    /\ editor' = IF t.num = {} THEN [editor EXCEPT !.text[f] = t]
                 ELSE [editor EXCEPT !.text[f] = t, !.form[f] = t.num, !.mode = "idle"]
    /\ calls' = Touched(calls, {f})
    /\ settingHistory' = [settingHistory EXCEPT !.typed = @ + 1]
    /\ UNCHANGED settingRows

NewCall(kind, from, body, touched) ==
    [id |-> settingHistory.call, kind |-> kind, from |-> from, touched |-> touched, row |-> 0,
     step |-> IF kind = "put" /\ ~Parses(body) THEN "refused" ELSE "find",
     values |-> IF Parses(body) THEN ParseSettings(body) ELSE <<>>]
Calling(c) == calls' = calls \cup {c}
CallCounted(h) == [h EXCEPT !.call = @ + 1]

\* Save is enabled whenever no save is known to be under way: an edit in
\* between enables it again.
ClickSave ==
    /\ editor.page /\ editor.mode # "saving" /\ settingHistory.saves < MaxSaves
    /\ Calling(NewCall("put", "editor", editor.form, Unclear(editor.text)))
    /\ editor' = [editor EXCEPT !.mode = "saving",
                      !.alone = calls = {} /\ Cardinality(DOMAIN settingRows) <= 1]
    /\ settingHistory' = CallCounted([settingHistory EXCEPT !.saves = @ + 1])
    /\ UNCHANGED settingRows

\* The answer of a save: a good one mounts every field again.
ShowAnswer(c) ==
    /\ OfEditor(c) /\ c.step \in {"saved", "refused"}
    /\ LET text == IF c.step = "saved" THEN Fields(c.values) ELSE editor.text
           changed == {f \in Shown : text[f] # editor.text[f]}
       IN  /\ editor' = IF c.step = "refused" THEN [editor EXCEPT !.mode = "error"]
                        ELSE [editor EXCEPT !.form = c.values, !.text = text, !.mode = "saved",
                                            !.surprised = @ \cup (changed \ c.touched)]
           /\ calls' = Touched(calls \ {c}, changed)
    /\ UNCHANGED <<settingRows, settingHistory>>

-----------------------------------------------------------------------------
(* The calls: GET and PUT, the worker's boot, the seed.                    *)

Outside ==
    /\ Eventual
    /\ \/ \E body \in SettingsWorld.bodies : Calling(NewCall("put", "client", body, {}))
       \/ Calling(NewCall("get", "client", <<>>, {}))
    /\ settingHistory' = CallCounted(Happened)
    /\ UNCHANGED <<settingRows, editor>>

\* readOrCreateSettings: the worker reads its settings once.
WorkerBoots ==
    /\ Eventual /\ ~\E c \in calls : c.kind = "boot"
    /\ Calling(NewCall("boot", "worker", <<>>, {}))
    /\ settingHistory' = CallCounted(Happened)
    /\ UNCHANGED <<settingRows, editor>>

\* wipeAllTables; bootstrapSettings creates without looking.
SeedWipes ==
    /\ Eventual
    /\ settingRows' = <<>>
    /\ Calling([NewCall("seed", "seed", <<>>, {}) EXCEPT !.step = "create"])
    /\ editor' = [editor EXCEPT !.alone = FALSE]
    /\ settingHistory' = CallCounted(Happened)

GoesOn(c, next) == calls' = (calls \ {c}) \cup next
\* Only a PUT goes on once it has a row.
WithRow(c, id) ==
    GoesOn(c, IF c.kind = "put" THEN {[c EXCEPT !.step = "update", !.row = id]} ELSE {})
FindFirst(c) ==
    /\ c.step = "find"
    /\ \/ \E id \in DOMAIN settingRows : WithRow(c, id)
       \/ settingRows = <<>> /\ GoesOn(c, {[c EXCEPT !.step = "create"]})
    /\ UNCHANGED <<settingRows, editor, settingHistory>>

AloneAfter(c) == [editor EXCEPT !.alone = @ /\ OfEditor(c)]
CreateDefaults(c) ==
    /\ c.step = "create"
    /\ settingRows' = settingHistory.row :> DEFAULT_SETTINGS @@ settingRows
    /\ WithRow(c, settingHistory.row)
    /\ editor' = AloneAfter(c)
    /\ settingHistory' = [settingHistory EXCEPT !.row = @ + 1,
                             !.raced = @ \/ \E d \in calls \ {c} : d.step = "create"]

\* The update of a row that is gone throws, and the answer is no JSON.
UpdateRow(c) ==
    LET found == c.row \in DOMAIN settingRows
    IN  /\ c.step = "update"
        /\ settingRows' = IF found THEN [settingRows EXCEPT ![c.row] = c.values] ELSE settingRows
        /\ GoesOn(c, IF ~OfEditor(c) THEN {}
                     ELSE {[c EXCEPT !.step = IF found THEN "saved" ELSE "refused"]})
        /\ editor' = AloneAfter(c)
        /\ UNCHANGED settingHistory
Refuse400(c) ==
    /\ c.step = "refused" /\ ~OfEditor(c)
    /\ GoesOn(c, {})
    /\ UNCHANGED <<settingRows, editor, settingHistory>>

\* The connection breaks and the handler goes on, or its process dies.
LoseCall(c) ==
    /\ Eventual
    /\ \/ OfEditor(c) /\ GoesOn(c, Orphaned({c}))
       \/ GoesOn(c, {})
    /\ editor' = IF OfEditor(c) THEN [editor EXCEPT !.mode = "error", !.alone = FALSE] ELSE editor
    /\ settingHistory' = Happened
    /\ UNCHANGED settingRows

SettingsInit ==
    /\ settingRows \in SettingsWorld.found
    /\ editor = [page |-> FALSE, form |-> DEFAULT_SETTINGS, text |-> Fields(DEFAULT_SETTINGS),
                 mode |-> "idle", alone |-> FALSE, surprised |-> {}]
    /\ calls = {}
    /\ settingHistory = [call |-> 1, row |-> 2, typed |-> 0, saves |-> 0, events |-> 0,
                         raced |-> FALSE]

SettingsNext ==
    \/ OpenPage \/ ClickSave \/ Outside \/ WorkerBoots \/ SeedWipes
    \/ \E f \in DOMAIN SettingsWorld.typable : \E t \in SettingsWorld.typable[f] : TypeText(f, t)
    \/ \E c \in calls : ShowAnswer(c) \/ FindFirst(c) \/ CreateDefaults(c) \/ UpdateRow(c)
                           \/ Refuse400(c) \/ LoseCall(c)
-----------------------------------------------------------------------------
\* Whatever was put into the table, every row can be read by whoever boots or
\* opens the page next and gives a range that is not empty, and there is one
\* row unless two were about to create it at once.  An answer changes no field
\* that showed a plain number when Save was clicked and was not touched since.
\* "Saved." means that the row, the form and every number in it are the same,
\* unless somebody else wrote meanwhile or two saves of the form were under way.
SettingsHonest ==
    /\ \A id \in DOMAIN settingRows :
           /\ Parses(settingRows[id])
           /\ LET s == ParseSettings(settingRows[id])
              IN  \E lo \in s[SettingsWorld.mcapMin], hi \in s[SettingsWorld.mcapMax] : lo < hi
    /\ Cardinality(DOMAIN settingRows) > 1 => settingHistory.raced
    /\ editor.surprised = {}
    /\ editor.mode = "saved" /\ editor.alone =>
           /\ \E id \in DOMAIN settingRows :
                  DOMAIN settingRows = {id} /\ ParseSettings(settingRows[id]) = editor.form
           /\ \A f \in Shown :
                  editor.text[f].num # {} => editor.text[f].num = editor.form[f]
=============================================================================
