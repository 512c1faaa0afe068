---------------------------- MODULE SourceSwitches ----------------------------
(***************************************************************************)
(* The pages on which the sources are switched on and off: /sources, with  *)
(* the table of the wallet sources (SourceHealthTable.tsx, api/sources),   *)
(* and /social, where sources are added and deleted as well                *)
(* (SourceManager.tsx, api/social/sources).                                *)
(*                                                                         *)
(* A switch is shown as it was clicked before the server has heard of it,  *)
(* and put back when the call fails.  The page is rendered again after     *)
(* each call that succeeds; a switch that is still there keeps what it     *)
(* shows, it takes the stored value only when its row is new to the page.  *)
(* /social without a source or a mention is laid out otherwise, and all is *)
(* mounted anew when that changes.  A wallet source goes by its name in    *)
(* the calls, a social one by its id.                                      *)
(***************************************************************************)
EXTENDS Naturals, FiniteSets, SequencesExt

CONSTANTS SwitchWorlds,      \* [social, names, typable]: the page, its sources, names typed
          MaxClicks,         \* bound: clicks on a switch, a delete button, the add button
          MaxSwitchEvents    \* bound: calls that are lost, changes from elsewhere, reloads

VARIABLES switchWorld,
          sourceTable,   \* id -> [name, enabled]: the rows there are
          switches,      \* id -> [name, on, busy, error, strange]: what the page shows
          addForm,       \* [text, busy]
          layout,        \* mentions: there are any; empty: the page is laid out so; mount
          sourceCalls,   \* the calls under way, and the routes that serve them
          refreshAsked,
          switchBounds   \* clicks, events, and the ids given

switchVars ==
    <<switchWorld, sourceTable, switches, addForm, layout, sourceCalls, refreshAsked,
      switchBounds>>

TakenNames == {sourceTable[id].name : id \in DOMAIN sourceTable}
DropRow(f, id) == Restrict(f, DOMAIN f \ {id})
AddRow(f, id, row) == [i \in DOMAIN f \cup {id} |-> IF i = id THEN row ELSE f[i]]
Click ==
    /\ switchBounds.clicks < MaxClicks
    /\ switchBounds' = [switchBounds EXCEPT !.clicks = @ + 1]
Event ==
    /\ switchBounds.events < MaxSwitchEvents
    /\ switchBounds' = [switchBounds EXCEPT !.events = @ + 1]

-----------------------------------------------------------------------------
(* The page.                                                               *)

NewSwitch(row) ==
    [name |-> row.name, on |-> row.enabled, busy |-> FALSE, error |-> FALSE, strange |-> FALSE]
EmptyForm == [text |-> "", busy |-> FALSE]
MountRows == [id \in DOMAIN sourceTable |-> NewSwitch(sourceTable[id])]
\* A switch belongs to the id of its row.
RenderRows == [id \in DOMAIN sourceTable |-> IF id \in DOMAIN switches THEN switches[id]
                                             ELSE MountRows[id]]
Empty == switchWorld.social /\ (sourceTable = <<>> \/ ~layout.mentions)
Mount ==
    /\ switches' = MountRows /\ addForm' = EmptyForm
    /\ layout' = [layout EXCEPT !.empty = Empty, !.mount = @ + 1]
RefreshPage ==
    /\ refreshAsked /\ refreshAsked' = FALSE
    /\ IF Empty = layout.empty THEN switches' = RenderRows /\ UNCHANGED <<addForm, layout>>
       ELSE Mount
    /\ UNCHANGED <<switchWorld, sourceTable, sourceCalls, switchBounds>>
LoadPage ==
    /\ Event /\ Mount /\ refreshAsked' = FALSE
    /\ sourceCalls' = {[c EXCEPT !.awaited = FALSE] : c \in sourceCalls}
    /\ UNCHANGED <<switchWorld, sourceTable>>

SendCall(kind, id, name, on) ==
    /\ Click
    /\ sourceCalls' = sourceCalls \cup
           {[n |-> switchBounds.clicks, kind |-> kind, id |-> id, name |-> name, on |-> on,
             at |-> "sent", row |-> 0, awaited |-> TRUE, mount |-> layout.mount]}
    /\ UNCHANGED <<switchWorld, sourceTable, layout, refreshAsked>>
Rests(id) == ~switches[id].busy
ClickSwitch(id) ==
    /\ Rests(id)
    /\ switches' = [switches EXCEPT ![id].on = ~@, ![id].busy = TRUE, ![id].error = FALSE]
    /\ SendCall("patch", id, switches[id].name, ~switches[id].on)
    /\ UNCHANGED addForm
ClickDelete(id) ==
    /\ switchWorld.social /\ Rests(id)
    /\ switches' = [switches EXCEPT ![id].busy = TRUE, ![id].error = FALSE]
    /\ SendCall("delete", id, switches[id].name, FALSE)
    /\ UNCHANGED addForm
\* The input is not disabled while the source is added.
TypeName(name) ==
    /\ addForm.text # name /\ addForm' = [addForm EXCEPT !.text = name]
    /\ UNCHANGED <<switchWorld, sourceTable, switches, layout, sourceCalls, refreshAsked,
                   switchBounds>>
ClickAdd ==
    /\ addForm.text # "" /\ ~addForm.busy
    /\ addForm' = [addForm EXCEPT !.busy = TRUE]
    /\ SendCall("add", 0, addForm.text, TRUE)
    /\ UNCHANGED switches

-----------------------------------------------------------------------------
(* The routes: one statement looks for the row, another writes it.         *)

CallMoves(c, next) == sourceCalls' = (sourceCalls \ {c}) \cup {next}
Target(c) ==
    {id \in DOMAIN sourceTable :
        IF switchWorld.social /\ c.kind # "add" THEN id = c.id ELSE sourceTable[id].name = c.name}
FindRow(c) ==
    /\ c.at = "sent"
    /\ LET hit == Target(c)
           refused == (hit = {}) = (c.kind # "add")
       IN  CallMoves(c, [c EXCEPT !.at = IF refused THEN "refused" ELSE "found",
                            !.row = IF hit = {} THEN 0 ELSE CHOOSE id \in hit : TRUE])
    /\ UNCHANGED <<switchWorld, sourceTable, switches, addForm, layout, refreshAsked,
                   switchBounds>>

\* Somebody on the page waits for the answer.
Awaits(c) == c.awaited /\ c.mount = layout.mount
\* Of a row another changed, the page knows nothing.
MarkStrange(id, strange) ==
    IF id \in DOMAIN switches THEN [switches EXCEPT ![id].strange = strange] ELSE switches
PatchRow(c) ==
    /\ c.kind = "patch" /\ c.row \in DOMAIN sourceTable
    /\ sourceTable' = [sourceTable EXCEPT ![c.row].enabled = c.on]
    /\ switches' = MarkStrange(c.row, ~Awaits(c) \/ c.id # c.row)
    /\ UNCHANGED <<layout, switchBounds>>
\* The mentions of a source go with it.
DropSource(id) ==
    /\ sourceTable' = DropRow(sourceTable, id)
    /\ \E left \in BOOLEAN : /\ left => layout.mentions /\ sourceTable' # <<>>
                           /\ layout' = [layout EXCEPT !.mentions = left]
DeleteRow(c) ==
    /\ c.kind = "delete" /\ c.row \in DOMAIN sourceTable
    /\ DropSource(c.row)
    /\ switches' = MarkStrange(c.row, ~Awaits(c))
    /\ UNCHANGED switchBounds
CreateRow(c) ==
    /\ c.kind = "add" /\ c.name \notin TakenNames
    /\ switchBounds' = [switchBounds EXCEPT !.ids = @ + 1]
    /\ sourceTable' = AddRow(sourceTable, switchBounds.ids + 1, [name |-> c.name, enabled |-> TRUE])
    /\ UNCHANGED <<switches, layout>>
WriteRow(c) ==
    /\ c.at = "found"
    /\ PatchRow(c) \/ DeleteRow(c) \/ CreateRow(c)
    /\ CallMoves(c, [c EXCEPT !.at = "done"])
    /\ UNCHANGED <<switchWorld, addForm, refreshAsked>>
\* The row went, or the name was taken, since it was looked for.
WriteThrows(c) ==
    /\ c.at = "found"
    /\ IF c.kind = "add" THEN c.name \in TakenNames ELSE c.row \notin DOMAIN sourceTable
    /\ CallMoves(c, [c EXCEPT !.at = "refused"])
    /\ UNCHANGED <<switchWorld, sourceTable, switches, addForm, layout, refreshAsked,
                   switchBounds>>

-----------------------------------------------------------------------------
(* The answers.                                                            *)

\* A call that has done its work is put back all the same.
PutBack(c) ==
    IF ~Awaits(c) \/ c.id \notin DOMAIN switches THEN switches
    ELSE [switches EXCEPT ![c.id].busy = FALSE, ![c.id].error = TRUE,
                          ![c.id].on = IF c.kind = "patch" THEN ~c.on ELSE @,
                          ![c.id].strange = @ \/ c.at = "done"]
FormFailed(c) == IF Awaits(c) /\ c.kind = "add" THEN [addForm EXCEPT !.busy = FALSE] ELSE addForm

\* A deleted row stays busy until the page is rendered without it.
AnswerOk(c) ==
    /\ c.at = "done" /\ c.awaited
    /\ switches' = IF Awaits(c) /\ c.kind = "patch" /\ c.id \in DOMAIN switches
                   THEN [switches EXCEPT ![c.id].busy = FALSE] ELSE switches
    /\ addForm' = IF Awaits(c) /\ c.kind = "add" THEN EmptyForm ELSE addForm
    /\ refreshAsked' = TRUE
    /\ sourceCalls' = sourceCalls \ {c}
    /\ UNCHANGED <<switchWorld, sourceTable, layout, switchBounds>>
AnswerRefused(c) ==
    /\ c.at = "refused" /\ c.awaited
    /\ switches' = PutBack(c) /\ addForm' = FormFailed(c)
    /\ sourceCalls' = sourceCalls \ {c}
    /\ UNCHANGED <<switchWorld, sourceTable, layout, refreshAsked, switchBounds>>
\* The page sees that the call failed; the route may go on.
CallLost(c) ==
    /\ c.awaited /\ Event
    /\ switches' = PutBack(c) /\ addForm' = FormFailed(c)
    /\ sourceCalls' \in {sourceCalls \ {c},
                         (sourceCalls \ {c}) \cup {[c EXCEPT !.awaited = FALSE]}}
    /\ UNCHANGED <<switchWorld, sourceTable, layout, refreshAsked>>

-----------------------------------------------------------------------------
(* Another tab or client, the ingest of the social sources, and the seed   *)
(* script, which makes the rows anew.                                      *)

Elsewhere(id) ==
    /\ Event
    /\ \/ sourceTable' = [sourceTable EXCEPT ![id].enabled = ~@] /\ UNCHANGED layout
       \/ switchWorld.social /\ DropSource(id)
    /\ switches' = MarkStrange(id, TRUE)
    /\ UNCHANGED <<switchWorld, addForm, sourceCalls, refreshAsked>>
MentionsCome ==
    /\ Event /\ sourceTable # <<>> /\ layout' = [layout EXCEPT !.mentions = TRUE]
    /\ UNCHANGED <<switchWorld, sourceTable, switches, addForm, sourceCalls, refreshAsked>>
SeedAgain(id) ==
    /\ switchBounds.events < MaxSwitchEvents
    /\ switchBounds' = [switchBounds EXCEPT !.events = @ + 1, !.ids = @ + 1]
    /\ sourceTable' = AddRow(DropRow(sourceTable, id), switchBounds.ids + 1,
                             [sourceTable[id] EXCEPT !.enabled = TRUE])
    /\ switches' = MarkStrange(id, TRUE)
    /\ UNCHANGED <<switchWorld, addForm, layout, sourceCalls, refreshAsked>>

SwitchesInit ==
    /\ switchWorld \in SwitchWorlds
    /\ sourceTable = [id \in 1..Cardinality(switchWorld.names) |->
                         [name |-> SetToSeq(switchWorld.names)[id], enabled |-> TRUE]]
    /\ layout = [mentions |-> ~switchWorld.social, empty |-> switchWorld.social, mount |-> 1]
    /\ switches = MountRows
    /\ addForm = EmptyForm /\ sourceCalls = {} /\ refreshAsked = FALSE
    /\ switchBounds = [clicks |-> 0, events |-> 0, ids |-> Cardinality(switchWorld.names)]

SwitchesNext ==
    \/ RefreshPage \/ LoadPage \/ ClickAdd \/ MentionsCome
    \/ \E name \in switchWorld.typable : TypeName(name)
    \/ \E id \in DOMAIN switches : ClickSwitch(id) \/ ClickDelete(id)
    \/ \E id \in DOMAIN sourceTable : Elsewhere(id) \/ SeedAgain(id)
    \/ \E c \in sourceCalls :
           \/ FindRow(c) \/ WriteRow(c) \/ WriteThrows(c)
           \/ AnswerOk(c) \/ AnswerRefused(c) \/ CallLost(c)

-----------------------------------------------------------------------------
\* A switch that rests shows what is stored, but where another has changed the
\* row since, or a call of the page whose answer it never had or whose switch
\* is no more; and so it is with a row that is gone.  A switch, or the form,
\* that is busy waits for a call or for the page to be rendered again.  No
\* name is twice in the table.
SwitchesHonest ==
    /\ \A id \in DOMAIN switches :
           LET s == switches[id]
           IN  /\ ~s.busy /\ ~s.strange /\ id \in DOMAIN sourceTable
                      => s.on = sourceTable[id].enabled
               /\ id \notin DOMAIN sourceTable => s.busy \/ s.strange \/ refreshAsked
               /\ s.busy => refreshAsked
                            \/ \E c \in sourceCalls : Awaits(c) /\ c.kind # "add" /\ c.id = id
    /\ addForm.busy => \E c \in sourceCalls : Awaits(c) /\ c.kind = "add"
    /\ Cardinality(TakenNames) = Cardinality(DOMAIN sourceTable)
=============================================================================
